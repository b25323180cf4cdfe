----------------------------- MODULE JobWorker ------------------------------
(***************************************************************************)
(* The job queue as a whole: worker processes (pauk/jobs/worker.py), runs  *)
(* started from a terminal (`pauk run`, `pauk publish`, `pauk dedup`,      *)
(* `pauk admin prune`), the panel, the lock table and the clock.           *)
(*                                                                         *)
(* A step is one Mongo operation of one process together with the local    *)
(* code up to the next one.  The parts of a job (_collect, _publish, ...)  *)
(* are kept to what decides order: the reports at which a cancel is        *)
(* noticed, the lock, the work, and how the work may end.                  *)
(***************************************************************************)
EXTENDS JobPanel, Sequences

CONSTANTS Workers,     \* worker processes
          Terminals,   \* processes of the command line
          Mortal,      \* bound: processes that may die or be told to stop
          MaxSilence,  \* longest time a living worker goes without a beat
          MaxStall,    \* bound: longest time a reap_stale takes over its list
          LongRuns,    \* whether work nobody renews for may outlive a lease
          LostRelease  \* whether a release may raise and leave its lock

ASSUME WorkerAssumption ==
    /\ Procs = Workers \cup Terminals
    /\ Workers \cap Terminals = {}
    /\ Mortal \subseteq Procs
    /\ MaxSilence \in Nat
    /\ MaxSilence <= Lease
    /\ MaxStall \in Nat
    /\ LongRuns \in BOOLEAN
    /\ LostRelease \in BOOLEAN

VARIABLES pc,          \* where each process is
          mine,        \* Workers -> the job in hand, or None
          part,        \* Workers -> which part of that job, from 1
          stale,       \* Workers -> what reap_stale has read and not yet judged
          seen,        \* Workers -> the busy set read before claiming
          outcome,     \* Workers -> how the current part ended
          silence,     \* Workers -> time since the last full beat
          stopping     \* Workers -> SIGTERM was received

workerVars == <<pc, mine, part, stale, seen, outcome, silence, stopping>>
vars == <<lock, inside, job, desk, workerVars>>

Idle == {"idle", "reaping", "claiming"}
Beating == {"begin", "enter", "open", "inside", "leaving"}
Holding == Beating \cup {"dropping", "starting", "settling"}
Outcomes == {"ok", "busy", "failed", "cancelled"}

\* a document as reap_stale read it: its heartbeat then, and its verdict if it
\* turns out to be quiet
Readings == [job : Jobs, hb : 0 .. Lease + 1, verdict : Verdicts]
NothingRead == [list |-> {}, stall |-> 0]

WorkerTypeOK ==
    /\ pc \in [Procs -> Idle \cup Holding \cup {"gone"}]
    /\ mine \in [Workers -> Jobs \cup {None}]
    /\ part \in [Workers -> 1 .. 3]
    /\ stale \in [Workers -> [list : SUBSET Readings, stall : 0 .. MaxStall]]
    /\ seen \in [Workers -> SUBSET Resources]
    /\ outcome \in [Workers -> Outcomes]
    /\ silence \in [Workers -> 0 .. MaxSilence]
    /\ stopping \in [Workers -> BOOLEAN]

(* The documents, the locks, the panel and the processes keep their types. *)
TypeOK == LocksTypeOK /\ StoreTypeOK /\ PanelTypeOK /\ WorkerTypeOK

Init ==
    /\ LocksInit
    /\ StoreInit
    /\ PanelInit
    /\ pc = [p \in Procs |-> "idle"]
    /\ mine = [w \in Workers |-> None]
    /\ part = [w \in Workers |-> 1]
    /\ stale = [w \in Workers |-> NothingRead]
    /\ seen = [w \in Workers |-> {}]
    /\ outcome = [w \in Workers |-> "ok"]
    /\ silence = [w \in Workers |-> 0]
    /\ stopping = [w \in Workers |-> FALSE]

-----------------------------------------------------------------------------
(* What a job consists of: worker.STEPS and the lock each step takes.      *)

Parts(j) == IF job[j].run.kind = "pipeline" THEN <<"collect", "publish", "map">>
            ELSE <<job[j].run.kind>>
Part(w) == Parts(mine[w])[part[w]]
IsLastPart(w) == part[w] = Len(Parts(mine[w]))

\* a collection holds its group, _health holds nothing, the others the graph
Section(w) == CASE Part(w) = "collect" -> job[mine[w]].run.group
                [] Part(w) = "health"  -> None
                [] OTHER               -> Graph

\* parts that report, and so notice a cancel, between their inner steps
Reporting == {"collect", "publish", "prune"}

\* _collect reports only from within its lock, every other part before it
FirstStep(name) == IF name = "collect" THEN "enter" ELSE "begin"

\* the beat renews the lock the worker is inside of
Beaten(w) == inside[w] = Resource(mine[w])

\* the job is let go of: the worker is between two jobs
LetGo(w) ==
    /\ pc' = [pc EXCEPT ![w] = "idle"]
    /\ mine' = [mine EXCEPT ![w] = None]
    /\ part' = [part EXCEPT ![w] = 1]
    /\ outcome' = [outcome EXCEPT ![w] = "ok"]
    /\ silence' = [silence EXCEPT ![w] = 0]

GoTo(w, step) ==
    /\ pc' = [pc EXCEPT ![w] = step]
    /\ UNCHANGED <<mine, part, stale, seen, outcome, silence, stopping>>

Ends(w, step, how) ==
    /\ pc' = [pc EXCEPT ![w] = step]
    /\ outcome' = [outcome EXCEPT ![w] = how]
    /\ UNCHANGED <<mine, part, stale, seen, silence, stopping>>

-----------------------------------------------------------------------------
(* run_once: reap, look at the locks, claim.                               *)

ReapRead(w) ==
    /\ pc[w] = "idle"
    /\ ~stopping[w]
    /\ pc' = [pc EXCEPT ![w] = "reaping"]
    /\ stale' = [stale EXCEPT ![w].list =
                    {[job |-> j, hb |-> job[j].hb, verdict |-> Verdict(j)] :
                        j \in {i \in Jobs : job[i].state \in UnderWay}}]
    /\ UNCHANGED <<lock, inside, job, desk, mine, part, seen, outcome, silence, stopping>>

\* the list is gone through in the order of creation
IsNext(w, found) ==
    found \in stale[w].list /\ \A other \in stale[w].list : found.job <= other.job

\* is_quiet: the clock of now, the heartbeat of the reading
MutOverdue(w, found) == found.hb + stale[w].stall > Quiet
Overdue(w, found) == found.hb + stale[w].stall > Lease

\* What was overdue when it was judged is so when the verdict is written.
ReapOne(w) ==
    /\ pc[w] = "reaping"
    /\ \E found \in stale[w].list :
        /\ IsNext(w, found)
        /\ Overdue(w, found)
        /\ Settle(found.job, found.verdict)
        /\ stale' = [stale EXCEPT ![w].list = @ \ {found}]
    /\ UNCHANGED <<lock, inside, desk, pc, mine, part, seen, outcome, silence, stopping>>

ReapPass(w) ==
    /\ pc[w] = "reaping"
    /\ \E found \in stale[w].list :
        /\ IsNext(w, found)
        /\ ~Overdue(w, found)
        /\ stale' = [stale EXCEPT ![w].list = @ \ {found}]
    /\ UNCHANGED <<lock, inside, job, desk, pc, mine, part, seen, outcome, silence, stopping>>

LookAtLocks(w) ==
    /\ pc[w] = "reaping"
    /\ stale[w].list = {}
    /\ pc' = [pc EXCEPT ![w] = "claiming"]
    /\ seen' = [seen EXCEPT ![w] = Taken]
    /\ stale' = [stale EXCEPT ![w] = NothingRead]
    /\ UNCHANGED <<lock, inside, job, desk, mine, part, outcome, silence, stopping>>

Claim(w, j) ==
    /\ pc[w] = "claiming"
    /\ IsOldest(j, Claimable(seen[w]))
    /\ MarkClaimed(j)
    /\ pc' = [pc EXCEPT ![w] = IF job[j].cancel THEN "dropping" ELSE "starting"]
    /\ mine' = [mine EXCEPT ![w] = j]
    /\ seen' = [seen EXCEPT ![w] = {}]
    /\ silence' = [silence EXCEPT ![w] = 0]
    /\ UNCHANGED <<lock, inside, desk, part, stale, outcome, stopping>>

NothingToClaim(w) ==
    /\ pc[w] = "claiming"
    /\ Claimable(seen[w]) = {}
    /\ pc' = [pc EXCEPT ![w] = "idle"]
    /\ seen' = [seen EXCEPT ![w] = {}]
    /\ UNCHANGED <<lock, inside, job, desk, mine, part, stale, outcome, silence, stopping>>

\* the claimed document carried a cancel request
DropCancelled(w) ==
    /\ pc[w] = "dropping"
    /\ Settle(mine[w], "cancelled")
    /\ LetGo(w)
    /\ UNCHANGED <<lock, inside, desk, stale, seen, stopping>>

-----------------------------------------------------------------------------
(* _perform: start, the parts one after another, the end.                  *)

\* False from store.start: somebody settled the job while it was claimed
StartJob(w) ==
    /\ pc[w] = "starting"
    /\ \/ /\ job[mine[w]].state = "claimed"
          /\ MarkRunning(mine[w])
          /\ pc' = [pc EXCEPT ![w] = FirstStep(Part(w))]
          /\ silence' = [silence EXCEPT ![w] = 0]
          /\ UNCHANGED <<mine, part, outcome>>
       \/ /\ job[mine[w]].state # "claimed"
          /\ LetGo(w)
          /\ UNCHANGED job
    /\ UNCHANGED <<lock, inside, desk, stale, seen, stopping>>

\* the report before a part's lock, with _pipeline's own question before it
Begin(w) ==
    /\ pc[w] = "begin"
    /\ IF job[mine[w]].cancel THEN Ends(w, "settling", "cancelled")
       ELSE GoTo(w, IF Section(w) = None THEN "inside" ELSE "enter")
    /\ UNCHANGED <<lock, inside, job, desk>>

EnterSection(w) ==
    /\ pc[w] = "enter"
    /\ Enter(w, Section(w))
    /\ GoTo(w, IF Part(w) = "collect" THEN "open" ELSE "inside")
    /\ UNCHANGED <<job, desk>>

\* locks.Busy
TurnedAway(w) ==
    /\ pc[w] = "enter"
    /\ Live(Section(w))
    /\ Ends(w, "settling", "busy")
    /\ UNCHANGED <<lock, inside, job, desk>>

\* the first on_stage of a collection
Open(w) ==
    /\ pc[w] = "open"
    /\ IF job[mine[w]].cancel THEN Ends(w, "leaving", "cancelled")
       ELSE GoTo(w, "inside")
    /\ UNCHANGED <<lock, inside, job, desk>>

\* a later report of the part finds the cancel request
Seam(w) ==
    /\ pc[w] = "inside"
    /\ Part(w) \in Reporting
    /\ job[mine[w]].cancel
    /\ Ends(w, "leaving", "cancelled")
    /\ UNCHANGED <<lock, inside, job, desk>>

WorkDone(w) ==
    /\ pc[w] = "inside"
    /\ Ends(w, "leaving", "ok")
    /\ UNCHANGED <<lock, inside, job, desk>>

\* an error ends the part wherever it is raised, at a report or a lock as well
WorkFails(w) ==
    /\ pc[w] \in Beating \ {"leaving"}
    /\ Ends(w, IF pc[w] \in {"begin", "enter"} THEN "settling" ELSE "leaving", "failed")
    /\ UNCHANGED <<lock, inside, job, desk>>

LeaveSection(w) ==
    /\ pc[w] = "leaving"
    /\ IF inside[w] = None THEN UNCHANGED lockVars ELSE Leave(w)
    /\ IF outcome[w] = "ok" /\ ~IsLastPart(w)
       THEN /\ pc' = [pc EXCEPT ![w] = "begin"]
            /\ part' = [part EXCEPT ![w] = @ + 1]
       ELSE /\ pc' = [pc EXCEPT ![w] = "settling"]
            /\ UNCHANGED part
    /\ UNCHANGED <<job, desk, mine, stale, seen, outcome, silence, stopping>>

\* release raised: the job fails with that error and the row stays
LeaveLost(w) ==
    /\ LostRelease
    /\ pc[w] = "leaving"
    /\ inside[w] # None
    /\ Abandon(w)
    /\ Ends(w, "settling", "failed")
    /\ UNCHANGED <<job, desk>>

MutFinishWritesOutcome(w) ==
    /\ pc[w] = "settling"
    /\ outcome[w] # "busy"
    /\ Settle(mine[w], outcome[w])
    /\ LetGo(w)
    /\ UNCHANGED <<lock, inside, desk, stale, seen, stopping>>
Finish(w) ==
    /\ pc[w] = "settling"
    /\ outcome[w] # "busy"
    /\ Settle(mine[w], IF outcome[w] = "ok" THEN "done" ELSE outcome[w])
    /\ LetGo(w)
    /\ UNCHANGED <<lock, inside, desk, stale, seen, stopping>>

PutBack(w) ==
    /\ pc[w] = "settling"
    /\ outcome[w] = "busy"
    /\ Requeue(mine[w])
    /\ LetGo(w)
    /\ UNCHANGED <<lock, inside, desk, stale, seen, stopping>>

-----------------------------------------------------------------------------
(* The beat thread.  Its two updates are apart: the heartbeat alone is the *)
(* first of them, or all that a Mongo error in the second left.            *)

MutBeatJobOnly(w) ==
    /\ pc[w] \in Beating
    /\ Heartbeat(mine[w])
    /\ silence' = [silence EXCEPT ![w] = 0]
    /\ UNCHANGED <<lock, inside, desk, pc, mine, part, stale, seen, outcome, stopping>>
Beat(w) ==
    /\ pc[w] \in Beating
    /\ Heartbeat(mine[w])
    /\ Renew(w, Resource(mine[w]))
    /\ silence' = [silence EXCEPT ![w] = 0]
    /\ UNCHANGED <<inside, desk, pc, mine, part, stale, seen, outcome, stopping>>

BeatHalf(w) ==
    /\ pc[w] \in Beating
    /\ Heartbeat(mine[w])
    /\ UNCHANGED <<lock, inside, desk, workerVars>>

-----------------------------------------------------------------------------
(* Processes coming to an end.                                             *)

\* SIGTERM: finish the job in hand, then leave the loop
TellToStop(w) ==
    /\ w \in Mortal
    /\ pc[w] # "gone"
    /\ stopping' = [stopping EXCEPT ![w] = TRUE]
    /\ UNCHANGED <<lock, inside, job, desk, pc, mine, part, stale, seen, outcome, silence>>

Quit(w) ==
    /\ pc[w] = "idle"
    /\ stopping[w]
    /\ GoTo(w, "gone")
    /\ UNCHANGED <<lock, inside, job, desk>>

\* killed, or a Mongo error outside the step: the job and the lock stay behind
DieWorker(w) ==
    /\ w \in Mortal
    /\ pc[w] # "gone"
    /\ Abandon(w)
    /\ pc' = [pc EXCEPT ![w] = "gone"]
    /\ mine' = [mine EXCEPT ![w] = None]
    /\ part' = [part EXCEPT ![w] = 1]
    /\ stale' = [stale EXCEPT ![w] = NothingRead]
    /\ seen' = [seen EXCEPT ![w] = {}]
    /\ outcome' = [outcome EXCEPT ![w] = "ok"]
    /\ silence' = [silence EXCEPT ![w] = 0]
    /\ UNCHANGED <<job, desk, stopping>>

-----------------------------------------------------------------------------
(* A run from a terminal: one held block, without a beat.                  *)

TerminalEnter(c, r) ==
    /\ pc[c] = "idle"
    /\ Enter(c, r)
    /\ GoTo(c, "inside")
    /\ UNCHANGED <<job, desk>>

TerminalRefused(c, r) ==
    /\ pc[c] = "idle"
    /\ Live(r)
    /\ GoTo(c, "gone")
    /\ UNCHANGED <<lock, inside, job, desk>>

TerminalLeave(c) ==
    /\ pc[c] = "inside"
    /\ Leave(c)
    /\ GoTo(c, "gone")
    /\ UNCHANGED <<job, desk>>

DieTerminal(c) ==
    /\ c \in Mortal
    /\ pc[c] # "gone"
    /\ Abandon(c)
    /\ GoTo(c, "gone")
    /\ UNCHANGED <<job, desk>>

-----------------------------------------------------------------------------
(* The clock.  A worker with a job does not stay silent longer than        *)
(* MaxSilence: it beats, or is between two steps that follow at once.  One *)
(* with a list of reap_stale is through with it within MaxStall.           *)
(* Unless LongRuns, work under a lock nobody renews ends within a lease.   *)

InTime ==
    /\ \A w \in Workers : mine[w] # None => silence[w] < MaxSilence
    /\ \A w \in Workers : stale[w].list # {} => stale[w].stall < MaxStall
    /\ \A p \in Procs :
        inside[p] # None /\ ~(p \in Workers /\ Beaten(p))
            => LongRuns \/ lock[inside[p]].age < Lease

Tick ==
    /\ InTime
    /\ AgeLocks
    /\ AgeHeartbeats
    /\ silence' = [w \in Workers |-> IF mine[w] # None THEN silence[w] + 1 ELSE 0]
    /\ stale' = [w \in Workers |->
                    IF stale[w].list = {} THEN stale[w]
                    ELSE [list |-> stale[w].list, stall |-> stale[w].stall + 1]]
    /\ UNCHANGED <<inside, desk, pc, mine, part, seen, outcome, stopping>>

Loop(w) ==
    \/ ReapRead(w) \/ ReapOne(w) \/ ReapPass(w) \/ LookAtLocks(w)
    \/ \E j \in Jobs : Claim(w, j)
    \/ NothingToClaim(w) \/ DropCancelled(w) \/ StartJob(w) \/ Begin(w)
    \/ EnterSection(w) \/ TurnedAway(w) \/ Open(w) \/ Seam(w)
    \/ WorkDone(w) \/ WorkFails(w) \/ LeaveSection(w) \/ LeaveLost(w)
    \/ Finish(w) \/ PutBack(w) \/ Quit(w)

Next ==
    \/ \E w \in Workers : Loop(w) \/ Beat(w) \/ BeatHalf(w)
                          \/ TellToStop(w) \/ DieWorker(w)
    \/ \E c \in Terminals :
        \/ \E r \in Resources : TerminalEnter(c, r) \/ TerminalRefused(c, r)
        \/ TerminalLeave(c)
        \/ DieTerminal(c)
    \/ Panel /\ UNCHANGED <<lock, inside, workerVars>>
    \/ Tick

Spec == Init /\ [][Next]_vars

\* Processes not told otherwise go on: the loop polls, a step that began
\* returns, the beat comes round, the panel answers and time passes.
Fairness ==
    /\ \A w \in Workers : WF_vars(Loop(w)) /\ WF_vars(Beat(w))
    /\ \A c \in Terminals : WF_vars(TerminalLeave(c))
    /\ WF_vars((CancelSecond \/ GiveUpRead \/ GiveUpSettle)
               /\ UNCHANGED <<lock, inside, workerVars>>)
    /\ WF_vars(Tick)

FairSpec == Spec /\ Fairness

-----------------------------------------------------------------------------
(* Properties *)

\* Two processes never work on one resource at once: not two publishes, not a
\* dedup under a publish, not two collections of one group (locks.held).
MutualExclusion ==
    \A p, q \in Procs : inside[p] # None /\ inside[p] = inside[q] => p = q

\* Whoever works on a resource holds its live lock, from the first step of the
\* work to the last (locks.held with worker._Beat).
HoldsWhatItWorksOn ==
    \A p \in Procs : inside[p] # None =>
        Live(inside[p]) /\ lock[inside[p]].owner = p

\* A job is in the hands of at most one worker, however claims, requeues,
\* cancels and verdicts interleave (store.claim, store.requeue).
OnePerformer ==
    \A v, w \in Workers : mine[v] # None /\ mine[v] = mine[w] => v = w

\* A job that has ended keeps its document for good: no late requeue, finish,
\* verdict or cancel touches it (models.FINAL, store._settle).
FinalIsForever ==
    [][\A j \in Jobs : job[j].state \in Final => job'[j] = job[j]]_vars

\* reap_stale never settles the job of a worker that is alive, although it judges
\* by a heartbeat read some steps before.  True only while going through the list
\* takes less than what a lease leaves over the longest silence of a worker.
LiveIsNotReaped ==
    [][\A w, v \in Workers : ReapOne(w) /\ mine[v] # None
            => job'[mine[v]] = job[mine[v]]]_vars

\* Nor does the panel's give up, as long as no beat is late by QUIET_MINUTES.
LiveIsNotGivenUp ==
    [][\A w \in Workers : GiveUpSettle /\ mine[w] # None
            => job'[mine[w]] = job[mine[w]]]_vars

\* A job asked to stop before its worker started it never ends as done, through
\* any number of requeues (store.requeue keeps the flag, run_once reads it).
AskedBeforeStart(j) == job[j].cancel /\ job[j].state \in {"queued", "claimed"}
StoppedBeforeStart ==
    \A j \in Jobs : [](AskedBeforeStart(j) => [](job[j].state # "done"))

\* a job whose worker is gone
InNoHands(j) == job[j].state \in UnderWay /\ \A w \in Workers : mine[w] # j

\* Every job comes to an end: whoever held its resource, dead or alive, lets
\* go of it or is overtaken (locks.acquire, store.requeue, store.claim), and one
\* whose worker is gone is settled by another (store.reap_stale).
EveryJobEnds ==
    \A j \in Jobs : Exists(j) ~> job[j].state \in Final

-----------------------------------------------------------------------------
(* What a comment says and the code does not do: a property TLC refutes.    *)

\* A run "holds the group for the whole run" (pipeline/runner.py, run).
GroupHeldThroughout ==
    \A w \in Workers : pc[w] = "inside" /\ Part(w) = "collect" =>
        Live(Section(w)) /\ lock[Section(w)].owner = w

-----------------------------------------------------------------------------
(* The abstract specification: turns over resources and jobs.              *)

TheOne(S) == IF S = {} THEN None ELSE CHOOSE x \in S : TRUE

Turns == INSTANCE JobTurns WITH
    ended     <- [j \in Jobs |-> job[j].state \in Final],
    performer <- [j \in Jobs |-> TheOne({w \in Workers : mine[w] = j})],
    turn      <- [r \in Resources |-> TheOne({p \in Procs : inside[p] = r})]

\* The queue implements the turns it promises: a job is taken by one worker at
\* a time and never after its end, a resource is entered only when it is free.
ImplementsTurns == Turns!Spec
=============================================================================
