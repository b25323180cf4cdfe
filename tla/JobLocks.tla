------------------------------ MODULE JobLocks ------------------------------
(***************************************************************************)
(* The lock table of pauk/jobs/locks.py: one document per resource, owned  *)
(* by a process and leased for LEASE_MINUTES.                              *)
(*                                                                         *)
(* Time is kept as ages.  A row written at `acquired_at` with `expires_at' *)
(* = acquired_at + Lease` has age 0; the row is expired exactly when       *)
(* `expires_at < now`, i.e. when its age is greater than Lease.  Ages stop *)
(* at Lease + 1, past which the code tells no two moments apart.           *)
(*                                                                         *)
(* `inside[p]` is the resource whose `with held(...)` block process p is   *)
(* executing, or None.  A process is never inside two blocks at once.      *)
(***************************************************************************)
EXTENDS Naturals

CONSTANTS Procs,      \* process lives: a restarted process is another element
          Resources,  \* "graph" and the groups
          None,       \* no owner, no resource, no job
          Lease       \* LEASE_MINUTES, in clock steps

ASSUME LocksAssumption ==
    /\ Lease \in Nat \ {0}
    /\ None \notin Procs
    /\ None \notin Resources

VARIABLES lock,       \* Resources -> row; owner None: there is no document
          inside      \* Procs -> the resource the process works on, or None

lockVars == <<lock, inside>>

NoRow == [owner |-> None, age |-> 0]
Rows == [owner : Procs \cup {None}, age : 0 .. Lease + 1]

LocksTypeOK ==
    /\ lock \in [Resources -> Rows]
    /\ inside \in [Procs -> Resources \cup {None}]

LocksInit ==
    /\ lock = [r \in Resources |-> NoRow]
    /\ inside = [p \in Procs |-> None]

-----------------------------------------------------------------------------
MutLiveForEver(r) == lock[r].owner # None
Live(r) == lock[r].owner # None /\ lock[r].age <= Lease

\* locks.taken: expired rows are left out
Taken == {r \in Resources : Live(r)}

\* locks.acquire: takes an expired row over, inserts a missing one, and
\* collides on `_id` with a live one, whoever owns it
MutAcquireOverLive(p, r) == lock' = [lock EXCEPT ![r] = [owner |-> p, age |-> 0]]
Acquire(p, r) ==
    /\ ~Live(r)
    /\ lock' = [lock EXCEPT ![r] = [owner |-> p, age |-> 0]]

\* locks.renew: matches the owner only, so an expired row nobody took over
\* becomes live again
Renew(p, r) ==
    lock' = IF lock[r].owner = p
            THEN [lock EXCEPT ![r] = [owner |-> p, age |-> 0]] ELSE lock

\* locks.release: deletes the row if it is still the caller's
Release(p, r) ==
    lock' = IF lock[r].owner = p THEN [lock EXCEPT ![r] = NoRow] ELSE lock

-----------------------------------------------------------------------------
(* `with held(...)`: the block is entered only by the acquirer, and left   *)
(* through `finally: release`.  The release itself may raise, or the       *)
(* process may be gone before it: the row then stays until it expires.     *)

Enter(p, r) ==
    /\ Acquire(p, r)
    /\ inside' = [inside EXCEPT ![p] = r]

Leave(p) ==
    /\ Release(p, inside[p])
    /\ inside' = [inside EXCEPT ![p] = None]

Abandon(p) ==
    /\ inside' = [inside EXCEPT ![p] = None]
    /\ UNCHANGED lock

Older(age) == IF age > Lease THEN age ELSE age + 1

AgeLocks ==
    lock' = [r \in Resources |->
                IF lock[r].owner = None THEN NoRow
                ELSE [owner |-> lock[r].owner, age |-> Older(lock[r].age)]]
=============================================================================
