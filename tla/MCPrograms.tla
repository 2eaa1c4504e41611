------------------------------ MODULE MCPrograms ------------------------------
(* Short command lines over every character the shell tells apart, longer   *)
(* ones over the nesting constructs, and small patterns and texts.          *)
EXTENDS Programs

MCLines == BoundedSeq({"a", "b", " ", "<", ">", "|", "&", ";", "(", ")"}, 4)
           \union BoundedSeq({"a", "|", "(", ")", ";"}, 6)
           \union BoundedSeq({"a", "|", "(", ")", ">"}, 7)
MCTables == {<< >>, 0 :> Console, (0 :> Console) @@ (1 :> Console) @@ (2 :> Console)}
MCPatterns == BoundedSeq({"a", ".", "*", "^", "$"}, 4)
MCTexts == BoundedSeq({"a", "b"}, 3)
===============================================================================
