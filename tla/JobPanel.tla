------------------------------ MODULE JobPanel ------------------------------
(***************************************************************************)
(* The job pages of the admin panel (pauk/admin/job_routes.py): schedule,  *)
(* cancel, give up and repeat.  A handler that makes one Mongo operation   *)
(* is one step.  Cancelling makes two updates and giving up makes two      *)
(* reads and an update; `desk` is what the handler under way remembers     *)
(* between them.                                                           *)
(***************************************************************************)
EXTENDS JobStore

CONSTANT Buttons      \* bound: which of the four are pressed in an instance

ASSUME PanelAssumption ==
    Buttons \subseteq {"schedule", "cancel", "give-up", "repeat"}

VARIABLE desk         \* bound: one handler of several operations at a time

Desks == [op : {"idle", "cancelling", "looked", "judged"},
          job : Jobs \cup {None},
          busy : SUBSET Resources,
          verdict : Verdicts \cup {None}]

Desk(op, j, busy, verdict) ==
    [op |-> op, job |-> j, busy |-> busy, verdict |-> verdict]
FreeDesk == Desk("idle", None, {}, None)

PanelTypeOK == desk \in Desks

PanelInit == desk = FreeDesk

-----------------------------------------------------------------------------
\* POST /jobs
Schedule(run) ==
    /\ "schedule" \in Buttons
    /\ \E j \in Jobs : Insert(j, run)
    /\ UNCHANGED desk

\* POST /jobs/repeat: a final job stays final, so reading it and inserting
\* its copy cannot be told from one step
Repeat(j) ==
    /\ "repeat" \in Buttons
    /\ job[j].state \in Final
    /\ \E k \in Jobs : Insert(k, job[j].run)
    /\ UNCHANGED desk

\* POST /jobs/cancel, first update of request_cancel
CancelFirst(j) ==
    /\ "cancel" \in Buttons
    /\ desk.op = "idle"
    /\ Exists(j)
    /\ \/ CancelQueued(j) /\ UNCHANGED desk
       \/ /\ job[j].state # "queued"
          /\ desk' = Desk("cancelling", j, {}, None)
          /\ UNCHANGED job

\* the second update; the answer is whether it matched
CancelSecond ==
    /\ desk.op = "cancelling"
    /\ FlagUnderWay(desk.job)
    /\ desk' = FreeDesk

\* POST /jobs/give-up: the busy resources are read first ...
GiveUpLook(j) ==
    /\ "give-up" \in Buttons
    /\ desk.op = "idle"
    /\ Exists(j)
    /\ desk' = Desk("looked", j, Taken, None)
    /\ UNCHANGED job

\* ... then the job, which gives the verdict or the refusal ...
MutMayGiveUp(j, busy) == job[j].state \in UnderWay /\ Resource(j) \notin busy
MayGiveUp(j, busy) == Resource(j) \notin busy /\ IsQuiet(j, Quiet)

GiveUpRead ==
    /\ desk.op = "looked"
    /\ desk' = IF MayGiveUp(desk.job, desk.busy)
               THEN Desk("judged", desk.job, {}, Verdict(desk.job))
               ELSE FreeDesk
    /\ UNCHANGED job

\* ... and the verdict is written unless the job has ended meanwhile
GiveUpSettle ==
    /\ desk.op = "judged"
    /\ Settle(desk.job, desk.verdict)
    /\ desk' = FreeDesk

Panel ==
    \/ \E run \in Requests : Schedule(run)
    \/ \E j \in Jobs : Repeat(j) \/ CancelFirst(j) \/ GiveUpLook(j)
    \/ CancelSecond
    \/ GiveUpRead
    \/ GiveUpSettle
=============================================================================
