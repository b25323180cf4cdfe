------------------------------ MODULE JobTurns ------------------------------
(***************************************************************************)
(* What the job queue promises, with no locks, leases, beats or documents: *)
(* a job is performed by one worker at a time and not after it has ended,  *)
(* and a resource is worked on by one process at a time.                   *)
(***************************************************************************)
EXTENDS Naturals

CONSTANTS Jobs, Workers, Procs, Resources, None

VARIABLES ended,       \* Jobs -> has the job come to its end
          performer,   \* Jobs -> the worker that has it, or None
          turn         \* Resources -> the process working on it, or None

turns == <<ended, performer, turn>>

Init ==
    /\ ended = [j \in Jobs |-> FALSE]
    /\ performer = [j \in Jobs |-> None]
    /\ turn = [r \in Resources |-> None]

\* a worker with no job takes one that waits
Take(w, j) ==
    /\ ~ended[j]
    /\ performer[j] = None
    /\ \A i \in Jobs : performer[i] # w
    /\ performer' = [performer EXCEPT ![j] = w]
    /\ UNCHANGED <<ended, turn>>

\* it lets go of the job, at its end or with the job still to be done
PutDown(j) ==
    /\ performer[j] # None
    /\ performer' = [performer EXCEPT ![j] = None]
    /\ \E end \in BOOLEAN : ended' = [ended EXCEPT ![j] = @ \/ end]
    /\ UNCHANGED turn

\* the job is settled by somebody else
End(j) ==
    /\ ~ended[j]
    /\ ended' = [ended EXCEPT ![j] = TRUE]
    /\ UNCHANGED <<performer, turn>>

Enter(p, r) ==
    /\ turn[r] = None
    /\ \A s \in Resources : turn[s] # p
    /\ turn' = [turn EXCEPT ![r] = p]
    /\ UNCHANGED <<ended, performer>>

Leave(r) ==
    /\ turn[r] # None
    /\ turn' = [turn EXCEPT ![r] = None]
    /\ UNCHANGED <<ended, performer>>

\* a process dies with what it had
Vanish(p) ==
    /\ performer' = [j \in Jobs |-> IF performer[j] = p THEN None ELSE performer[j]]
    /\ turn' = [r \in Resources |-> IF turn[r] = p THEN None ELSE turn[r]]
    /\ UNCHANGED ended

Next ==
    \/ \E j \in Jobs : PutDown(j) \/ End(j) \/ \E w \in Workers : Take(w, j)
    \/ \E r \in Resources : Leave(r) \/ \E p \in Procs : Enter(p, r)
    \/ \E p \in Procs : Vanish(p)

Spec == Init /\ [][Next]_turns
=============================================================================
