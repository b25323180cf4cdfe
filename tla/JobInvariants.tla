--------------------------- MODULE JobInvariants ----------------------------
(***************************************************************************)
(* The inductive invariants behind the properties of JobWorker.  None of   *)
(* those properties is inductive as it stands: that a lock is live follows *)
(* from how it was renewed, that a job is not reaped from how it beats.    *)
(***************************************************************************)
EXTENDS JobWorker

\* What a worker has in hand fits where it is.  A job in hand may have been
\* settled by somebody else, never put back or left unclaimed.
InHand(w) ==
    /\ (mine[w] # None) <=> pc[w] \in Holding
    /\ mine[w] = None => part[w] = 1
    /\ mine[w] # None =>
        /\ job[mine[w]].state \in UnderWay \cup Final
        /\ pc[w] \in {"starting", "dropping"} => job[mine[w]].state # "running"
        /\ pc[w] \in Beating \cup {"settling"} => job[mine[w]].state # "claimed"
        /\ part[w] <= Len(Parts(mine[w]))
    /\ inside[w] # None => pc[w] \in {"open", "inside", "leaving"}

HandsFit == \A w \in Workers : InHand(w)

\* A terminal is at work exactly in its one section.
TerminalsFit == \A c \in Terminals : inside[c] # None => pc[c] = "inside"

\* Verdicts are only reached about jobs that exist.
DeskFits ==
    /\ desk.op # "idle" => desk.job \in Jobs /\ Exists(desk.job)
    /\ desk.op = "judged" => desk.verdict \in Verdicts

VerdictsFit ==
    /\ \A w \in Workers : \A found \in stale[w].list : Exists(found.job)
    /\ DeskFits

Shape == TypeOK /\ OnePerformer /\ HandsFit /\ VerdictsFit

\* How old the lock under somebody's work can be.
AgeBound(p) == IF p \in Workers /\ Beaten(p) THEN silence[p] ELSE Lease

LocksFresh ==
    \A p \in Procs : inside[p] # None =>
        /\ lock[inside[p]].owner = p
        /\ lock[inside[p]].age <= AgeBound(p)

\* A job in hand was heard of since the last full beat.
BeatsFresh ==
    \A w \in Workers : mine[w] # None /\ job[mine[w]].state \in UnderWay
        => job[mine[w]].hb <= silence[w]

\* A job that nobody performs any more, or that has ended already.
Gone(j) == job[j].state \in Final \/ InNoHands(j)

\* What reap_stale has read of a job somebody may still perform was not older,
\* at the reading, than the longest silence of a worker.
ReadIsFresh ==
    \A w \in Workers : \A found \in stale[w].list :
        Gone(found.job) \/ found.hb <= MaxSilence

GivenUpAreGone ==
    \A j \in Jobs : desk.op = "judged" /\ desk.job = j => Gone(j)

\* What the proofs carry from step to step: a worker has in hand what fits where
\* it is, locks and heartbeats are as fresh as the beat keeps them, and so is
\* what reap_stale has read of a job in somebody's hands.
QueueInv == Shape /\ TerminalsFit /\ LocksFresh /\ BeatsFresh /\ ReadIsFresh

\* A worker whose next question about its job, or whose answer to an earlier
\* one, keeps it from recording that job as done.
Headed(w) ==
    \/ pc[w] \in {"dropping", "starting", "begin"}
    \/ pc[w] \in {"enter", "open"} /\ Part(w) = "collect"
    \/ pc[w] \in {"leaving", "settling"} /\ outcome[w] # "ok"

\* The job was asked to stop in time.
Doomed(j) ==
    /\ job[j].cancel
    /\ job[j].state \notin {"absent", "done"}
    /\ \A w \in Workers : mine[w] = j /\ job[j].state \notin Final => Headed(w)
=============================================================================
