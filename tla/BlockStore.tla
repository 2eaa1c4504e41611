----------------------------- MODULE BlockStore -----------------------------
(***************************************************************************)
(* What the buffer cache promises its users: each disk block has one       *)
(* current contents and at most one user at a time, and only the user      *)
(* changes the contents.  A failure of the drive may take the contents of  *)
(* a block, until somebody puts new ones.                                  *)
(***************************************************************************)
CONSTANTS User, Block, Value, Nobody, Lost

VARIABLES store, user

storeVars == <<store, user>>

StoreInit == store \in [Block -> Value] /\ user = [s \in Block |-> Nobody]

Take(p, s) ==
    /\ user[s] = Nobody
    /\ user' = [user EXCEPT ![s] = p]
    /\ UNCHANGED store

Put(p, s, v) ==
    /\ user[s] = p
    /\ store' = [store EXCEPT ![s] = v]
    /\ UNCHANGED user

Give(p, s) ==
    /\ user[s] = p
    /\ user' = [user EXCEPT ![s] = Nobody]
    /\ UNCHANGED store

\* A block is lost only under a user: the cache does no I/O on its own.
Fail(p, s) ==
    /\ user[s] = p
    /\ store' = [store EXCEPT ![s] = Lost]
    /\ UNCHANGED user

StoreNext == \E p \in User, s \in Block :
                Take(p, s) \/ Give(p, s) \/ Fail(p, s) \/ \E v \in Value : Put(p, s, v)

StoreSpec == StoreInit /\ [][StoreNext]_storeVars
=============================================================================
