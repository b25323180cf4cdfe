------------------------------ MODULE JobStore ------------------------------
(***************************************************************************)
(* The queue documents of pauk/jobs/store.py and the models of             *)
(* pauk/jobs/models.py.  Every operator below is one Mongo operation on    *)
(* the `jobs` collection, as an action on `job` alone; the functions of    *)
(* store.py that make several of them are composed in JobPanel and         *)
(* JobWorker, one step per operation.                                      *)
(*                                                                         *)
(* A job is a number: ids are given in the order of `created_at`.  Left    *)
(* out of the document: what only the page shows (actor, worker, result,   *)
(* error, progress and the three dates).                                   *)
(***************************************************************************)
EXTENDS JobLocks

CONSTANTS MaxJobs,    \* bound: documents ever created
          Groups,     \* data groups; the resource "group:g" is written g
          Requests,   \* the runs that may be asked for: [kind, group]
          Quiet       \* QUIET_MINUTES, in clock steps

Graph == "graph"
Kinds == {"collect", "publish", "dedup", "map", "prune", "health", "pipeline"}
States == {"queued", "claimed", "running", "done", "failed", "cancelled"}
Final == {"done", "failed", "cancelled"}
UnderWay == {"claimed", "running"}
Verdicts == {"failed", "cancelled"}

ASSUME StoreAssumption ==
    /\ MaxJobs \in Nat
    /\ Resources = Groups \cup {Graph}
    /\ Graph \notin Groups
    /\ Requests \subseteq [kind : Kinds, group : Groups]
    /\ Quiet \in Nat
    /\ Quiet < Lease
    /\ None \notin Requests
    /\ None \notin Nat

VARIABLE job          \* Jobs -> document; state "absent": not created yet

Jobs == 1 .. MaxJobs

Blank == [run |-> None, state |-> "absent", hb |-> 0, cancel |-> FALSE]

Documents == [run : Requests \cup {None}, state : States \cup {"absent"},
              hb : 0 .. Lease + 1, cancel : BOOLEAN]

StoreTypeOK ==
    /\ job \in [Jobs -> Documents]
    /\ \A j \in Jobs : job[j].state # "absent" => job[j].run \in Requests

StoreInit == job = [j \in Jobs |-> Blank]

-----------------------------------------------------------------------------
Exists(j) == job[j].state # "absent"

\* models.resource_for: what the document says the job contends for
Resource(j) == IF job[j].run.kind = "collect" THEN job[j].run.group ELSE Graph

\* store.is_quiet
IsQuiet(j, minutes) == job[j].state \in UnderWay /\ job[j].hb > minutes

\* how reap_stale and give_up record a run nobody performs
Verdict(j) == IF job[j].cancel THEN "cancelled" ELSE "failed"

\* one document with new contents; what was asked for never changes
Rewrite(j, state, hb, cancel) ==
    job' = [job EXCEPT ![j] = [run |-> job[j].run, state |-> state,
                               hb |-> hb, cancel |-> cancel]]

\* store.enqueue
Insert(j, run) ==
    /\ ~Exists(j)
    /\ \A i \in Jobs : i < j => Exists(i)
    /\ job' = [job EXCEPT ![j] = [run |-> run, state |-> "queued",
                                  hb |-> 0, cancel |-> FALSE]]

\* store.claim: the oldest queued document whose resource is not busy, found
\* and updated in one operation
MutClaimableTwice(busy) ==
    {j \in Jobs : job[j].state \in {"queued", "claimed"} /\ Resource(j) \notin busy}
Claimable(busy) == {j \in Jobs : job[j].state = "queued" /\ Resource(j) \notin busy}
IsOldest(j, js) == j \in js /\ \A i \in js : j <= i
MarkClaimed(j) == Rewrite(j, "claimed", 0, job[j].cancel)

\* store.start, when it matches
MutMarkRunning(j) == Rewrite(j, "running", job[j].hb, job[j].cancel)
MarkRunning(j) == Rewrite(j, "running", 0, job[j].cancel)

\* store.requeue: the cancel flag stays
MutRequeueDropsFlag(j) ==
    IF job[j].state \in UnderWay THEN Rewrite(j, "queued", 0, FALSE)
    ELSE UNCHANGED job
Requeue(j) ==
    IF job[j].state \in UnderWay THEN Rewrite(j, "queued", 0, job[j].cancel)
    ELSE UNCHANGED job

\* store.heartbeat
Heartbeat(j) ==
    IF job[j].state = "running" THEN Rewrite(j, "running", 0, job[j].cancel)
    ELSE UNCHANGED job

\* store._settle: finish, fail, cancelled.  Nothing reads the heartbeat of a
\* settled job, so it is forgotten here
Settle(j, state) ==
    IF job[j].state \in Final THEN UNCHANGED job
    ELSE Rewrite(j, state, 0, job[j].cancel)

\* store.request_cancel, its two updates: of a queued job, of one under way
CancelQueued(j) ==
    /\ job[j].state = "queued"
    /\ Rewrite(j, "cancelled", 0, TRUE)

MutFlagAnyState(j) == Rewrite(j, job[j].state, job[j].hb, TRUE)
FlagUnderWay(j) ==
    IF job[j].state \in UnderWay THEN Rewrite(j, job[j].state, job[j].hb, TRUE)
    ELSE UNCHANGED job

AgeHeartbeats ==
    job' = [j \in Jobs |->
               IF job[j].state \in UnderWay
               THEN [run |-> job[j].run, state |-> job[j].state,
                     hb |-> Older(job[j].hb), cancel |-> job[j].cancel]
               ELSE job[j]]
=============================================================================
