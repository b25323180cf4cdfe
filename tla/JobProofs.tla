------------------------------ MODULE JobProofs -----------------------------
(***************************************************************************)
(* What is proved of JobWorker, in three parts.  First that Shape is an     *)
(* inductive invariant, one lemma per step of Next, and what follows from   *)
(* it: the types, that a job has one performer, and that a document in a    *)
(* final state is not written again.                                        *)
(***************************************************************************)
EXTENDS JobInvariants, TLAPS

\* A step writes no document but that of j, and changes no run.
Keeps(j) ==
    /\ StoreTypeOK'
    /\ \A i \in Jobs : Exists(i) => Exists(i)' /\ job'[i].run = job[i].run
    /\ \A i \in Jobs \ {j} : job'[i] = job[i]

\* The empty queue has the shape.
LEMMA InitShape == Init => Shape
<1> SUFFICES ASSUME Init PROVE Shape
  OBVIOUS
<1> USE DEF Init, LocksInit, StoreInit, PanelInit
<1>1. LocksTypeOK
  BY LocksAssumption DEF LocksTypeOK, Rows, NoRow
<1>2. StoreTypeOK
  BY StoreAssumption, LocksAssumption DEF StoreTypeOK, Documents, Blank
<1>3. PanelTypeOK
  BY DEF PanelTypeOK, Desks, FreeDesk, Desk
<1>4. WorkerTypeOK
  BY WorkerAssumption DEF WorkerTypeOK, NothingRead, Idle, Outcomes
<1>5. OnePerformer /\ HandsFit
  BY WorkerAssumption DEF OnePerformer, HandsFit, InHand, Holding, Beating
<1>6. VerdictsFit
  BY DEF VerdictsFit, DeskFits, NothingRead, FreeDesk, Desk
<1> QED
  BY <1>1, <1>2, <1>3, <1>4, <1>5, <1>6 DEF Shape, TypeOK

\* A step of one worker that writes down only where it is and how it went.
LEMMA LocalShape ==
  ASSUME Shape, NEW w \in Workers, pc[w] \in Beating,
         UNCHANGED <<lock, inside, job, desk>>,
         NEW step \in Beating \cup {"settling"}, NEW how \in Outcomes,
         GoTo(w, step) \/ Ends(w, step, how),
         inside[w] # None => step \in {"open", "inside", "leaving"}
  PROVE  Shape'
<1> USE DEF Shape, TypeOK
<1>1. UNCHANGED <<mine, part, stale, seen, silence, stopping>>
  BY DEF GoTo, Ends
<1>2. pc' = [pc EXCEPT ![w] = step] /\ w \in Procs
  BY WorkerAssumption DEF GoTo, Ends
<1>3. LocksTypeOK' /\ StoreTypeOK' /\ PanelTypeOK'
  BY DEF LocksTypeOK, StoreTypeOK, PanelTypeOK
<1>4. WorkerTypeOK'
  <2>1. outcome' \in [Workers -> Outcomes]
    BY DEF WorkerTypeOK, GoTo, Ends
  <2> QED
    BY <1>1, <1>2, <2>1 DEF WorkerTypeOK, Holding
<1>5. OnePerformer' /\ VerdictsFit'
  BY <1>1 DEF OnePerformer, VerdictsFit, DeskFits, Exists
<1>6. HandsFit'
  <2> SUFFICES ASSUME NEW v \in Workers PROVE InHand(v)'
    BY DEF HandsFit
  <2>0. InHand(v)
    BY DEF HandsFit
  <2>1. CASE v # w
    BY <2>0, <2>1, <1>1, <1>2 DEF InHand, Parts, WorkerTypeOK
  <2>2. CASE v = w
    BY <2>0, <2>2, <1>1, <1>2 DEF InHand, Parts, WorkerTypeOK, Holding, Beating
  <2> QED
    BY <2>1, <2>2
<1> QED
  BY <1>3, <1>4, <1>5, <1>6

\* A step changes the state of a document only to end the job, and writes
\* nothing to one that has ended.
Gentle ==
  \A i \in Jobs : Exists(i) =>
    /\ Exists(i)'
    /\ job'[i].run = job[i].run
    /\ job'[i].state = job[i].state \/ job'[i].state \in Final
    /\ job[i].state \in Final => job'[i] = job[i]

\* Heartbeats are refreshed or left alone.
Unaged == \A i \in Jobs : Exists(i) => job'[i].hb \in {0, job[i].hb}

\* A worker that stays where it is, whose job is at most settled meanwhile,
\* still has in hand what fits.
LEMMA HandKept ==
  ASSUME Shape, NEW w \in Workers, pc'[w] = pc[w], mine'[w] = mine[w],
         part'[w] = part[w], inside'[w] = inside[w],
         mine[w] # None =>
            /\ job'[mine[w]].run = job[mine[w]].run
            /\ job'[mine[w]].state = job[mine[w]].state \/ job'[mine[w]].state \in Final
  PROVE  InHand(w)'
<1>1. InHand(w)
  BY DEF Shape, HandsFit
<1> QED
  BY <1>1 DEF InHand, Parts, UnderWay, Final

\* A job in hand is a document of the queue.
LEMMA HandExists ==
  ASSUME Shape, NEW w \in Workers, mine[w] # None
  PROVE  mine[w] \in Jobs /\ Exists(mine[w])
BY DEF Shape, HandsFit, InHand, TypeOK, WorkerTypeOK, Exists, UnderWay, Final

\* A step on the documents alone, gentle with those in hand, keeps the shape.
LEMMA GentleShape ==
  ASSUME Shape, Gentle, TypeOK',
         UNCHANGED <<pc, mine, part, inside>>,
         \A w \in Workers : stale'[w].list \subseteq stale[w].list,
         DeskFits'
  PROVE  Shape'
<1>1. OnePerformer'
  BY DEF Shape, OnePerformer
<1>2. HandsFit'
  <2> SUFFICES ASSUME NEW w \in Workers PROVE InHand(w)'
    BY DEF HandsFit
  <2>1. mine[w] # None => mine[w] \in Jobs /\ Exists(mine[w])
    BY HandExists
  <2>2. mine[w] # None =>
            /\ job'[mine[w]].run = job[mine[w]].run
            /\ job'[mine[w]].state = job[mine[w]].state \/ job'[mine[w]].state \in Final
    BY <2>1 DEF Gentle
  <2> QED
    BY <2>2, HandKept
<1>3. (\A w \in Workers : \A found \in stale[w].list : Exists(found.job))'
  <2> SUFFICES ASSUME NEW w \in Workers, NEW found \in stale'[w].list PROVE Exists(found.job)'
    OBVIOUS
  <2>1. found \in stale[w].list /\ found.job \in Jobs
    BY DEF Shape, TypeOK, WorkerTypeOK, Readings
  <2> QED
    BY <2>1 DEF Gentle, Shape, VerdictsFit
<1> QED
  BY <1>1, <1>2, <1>3 DEF Shape, VerdictsFit

\* Rewriting one document touches no other and keeps the types.
LEMMA RewriteKeeps ==
  ASSUME StoreTypeOK, NEW j \in Jobs, Exists(j),
         NEW s \in States, NEW h \in 0 .. Lease + 1, NEW c \in BOOLEAN,
         Rewrite(j, s, h, c)
  PROVE  /\ Keeps(j)
         /\ job'[j].state = s
         /\ job'[j].hb = h
         /\ job'[j].cancel = c
  BY StoreAssumption, LocksAssumption
  DEF Rewrite, Keeps, StoreTypeOK, Documents, Exists, States, Final

\* store._settle: a verdict ends one job, or finds it ended.
LEMMA SettleGentle ==
  ASSUME StoreTypeOK, NEW j \in Jobs, Exists(j), NEW s \in Final, Settle(j, s)
  PROVE  Keeps(j) /\ Gentle /\ Unaged /\ job'[j].state \in Final
<1>1. CASE job[j].state \in Final
  BY <1>1 DEF Settle, Keeps, Gentle, Unaged, StoreTypeOK, Exists
<1>2. CASE job[j].state \notin Final
  <2>1. Keeps(j) /\ job'[j].state = s /\ job'[j].hb = 0
    BY <1>2, RewriteKeeps, LocksAssumption DEF Settle, States, Final, StoreTypeOK, Documents
  <2> QED
    BY <1>2, <2>1 DEF Keeps, Gentle, Unaged
<1> QED
  BY <1>1, <1>2
  
\* store.enqueue: a new document disturbs none of the others.
LEMMA InsertGentle ==
  ASSUME StoreTypeOK, NEW j \in Jobs, NEW run \in Requests, Insert(j, run)
  PROVE  Keeps(j) /\ Gentle /\ Unaged /\ job'[j].state = "queued"
  BY StoreAssumption, LocksAssumption
  DEF Insert, Keeps, Gentle, Unaged, StoreTypeOK, Documents, Exists, States

\* store.heartbeat: only a running job is touched, and only its heartbeat.
LEMMA HeartbeatGentle ==
  ASSUME StoreTypeOK, NEW j \in Jobs, Exists(j), Heartbeat(j)
  PROVE  /\ Keeps(j) /\ Gentle /\ Unaged
         /\ job[j].state = "running" => job'[j].hb = 0
         /\ job[j].state # "running" => UNCHANGED job
<1>1. CASE job[j].state = "running"
  <2>1. Keeps(j) /\ job'[j].state = "running" /\ job'[j].hb = 0
    BY <1>1, RewriteKeeps, LocksAssumption DEF Heartbeat, States, StoreTypeOK, Documents
  <2> QED
    BY <2>1, <1>1 DEF Keeps, Gentle, Unaged, Final
<1>2. CASE job[j].state # "running"
  BY <1>2 DEF Heartbeat, Keeps, Gentle, Unaged, StoreTypeOK, Exists
<1> QED
  BY <1>1, <1>2

\* store.request_cancel, second update: only the flag of a job under way.
LEMMA FlagGentle ==
  ASSUME StoreTypeOK, NEW j \in Jobs, Exists(j), FlagUnderWay(j)
  PROVE  Keeps(j) /\ Gentle /\ Unaged
<1>1. CASE job[j].state \in UnderWay
  <2>1. /\ Rewrite(j, job[j].state, job[j].hb, TRUE)
        /\ job[j].state \in States
        /\ job[j].hb \in 0 .. Lease + 1
    BY <1>1 DEF FlagUnderWay, StoreTypeOK, Documents, UnderWay, States
  <2>2. Keeps(j) /\ job'[j].state = job[j].state /\ job'[j].hb = job[j].hb
    BY <2>1, RewriteKeeps
  <2> QED
    BY <1>1, <2>2 DEF Keeps, Gentle, Unaged, UnderWay, Final
<1>2. CASE job[j].state \notin UnderWay
  BY <1>2 DEF FlagUnderWay, Keeps, Gentle, Unaged, StoreTypeOK, Exists
<1> QED
  BY <1>1, <1>2

\* The passing of time changes heartbeats of jobs under way, nothing else.
LEMMA AgeGentle ==
  ASSUME StoreTypeOK, AgeHeartbeats
  PROVE  StoreTypeOK' /\ Gentle
<1>1. \A i \in Jobs :
         /\ job[i].state \notin UnderWay => job'[i] = job[i]
         /\ job'[i].run = job[i].run /\ job'[i].state = job[i].state
         /\ job'[i] \in Documents
  BY StoreAssumption, LocksAssumption
  DEF AgeHeartbeats, StoreTypeOK, Documents, UnderWay, States, Older
<1>2. \A i \in Jobs : job[i].state \in Final => job[i].state \notin UnderWay
  BY DEF UnderWay, Final
<1>3. job' \in [Jobs -> Documents]
  BY <1>1 DEF AgeHeartbeats
<1> QED
  BY <1>1, <1>2, <1>3 DEF Gentle, StoreTypeOK, Exists

\* A step of one worker keeps the shape if what it has in hand afterwards fits
\* and is in no other hands.
LEMMA StepShape ==
  ASSUME Shape, TypeOK', NEW w \in Workers, InHand(w)', UNCHANGED desk,
         \A i \in Jobs : Exists(i) => Exists(i)',
         \A v \in Workers \ {w} :
            /\ pc'[v] = pc[v] /\ mine'[v] = mine[v]
            /\ part'[v] = part[v] /\ inside'[v] = inside[v]
            /\ mine[v] # None => job'[mine[v]] = job[mine[v]] /\ mine'[w] # mine[v],
         \A v \in Workers : \A found \in stale'[v].list : Exists(found.job)
  PROVE  Shape'
<1>1. OnePerformer'
  <2> SUFFICES ASSUME NEW u \in Workers, NEW v \in Workers,
                      mine'[u] # None, mine'[u] = mine'[v], u # v
               PROVE  FALSE
    BY DEF OnePerformer
  <2> QED
    BY DEF Shape, OnePerformer
<1>2. HandsFit'
  <2> SUFFICES ASSUME NEW v \in Workers PROVE InHand(v)'
    BY DEF HandsFit
  <2>1. CASE v = w
    BY <2>1
  <2>2. CASE v # w
    BY <2>2, HandKept
  <2> QED
    BY <2>1, <2>2
<1>3. (\A v \in Workers : \A found \in stale[v].list : Exists(found.job))'
  <2> SUFFICES ASSUME NEW v \in Workers, NEW found \in stale'[v].list PROVE Exists(found.job)'
    OBVIOUS
  <2>1. found.job \in Jobs
    BY DEF TypeOK, WorkerTypeOK, Readings
  <2> QED
    BY <2>1
<1>4. DeskFits'
  BY DEF Shape, VerdictsFit, DeskFits
<1> QED
  BY <1>1, <1>2, <1>3, <1>4 DEF Shape, VerdictsFit

\* What reap_stale reads are documents of jobs under way, as they are.
LEMMA ReadingType ==
  ASSUME Shape, NEW w \in Workers, ReapRead(w), NEW found \in stale'[w].list
  PROVE  /\ found \in Readings
         /\ job[found.job].state \in UnderWay
         /\ found.hb = job[found.job].hb
<1>1. PICK j \in Jobs : /\ job[j].state \in UnderWay
                        /\ found = [job |-> j, hb |-> job[j].hb, verdict |-> Verdict(j)]
  BY DEF ReapRead, Shape, TypeOK, WorkerTypeOK
<1>2. job[j].hb \in 0 .. Lease + 1 /\ Verdict(j) \in Verdicts
  BY <1>1 DEF Shape, TypeOK, StoreTypeOK, Documents, Verdict, Verdicts
<1> QED
  BY <1>1, <1>2 DEF Readings

\* The steps of the loop on the list of reap_stale keep its type.
LEMMA ListType ==
  ASSUME Shape, NEW w \in Workers,
         ReapRead(w) \/ ReapOne(w) \/ ReapPass(w) \/ LookAtLocks(w)
  PROVE  /\ stale' \in [Workers -> [list : SUBSET Readings, stall : 0 .. MaxStall]]
         /\ \A v \in Workers \ {w} : stale'[v] = stale[v]
         /\ ~ReapRead(w) => stale'[w].list \subseteq stale[w].list
<1> USE DEF Shape, TypeOK, WorkerTypeOK
<1>1. CASE ReapRead(w)
  <2>1. stale'[w].list \subseteq Readings
    BY <1>1, ReadingType
  <2>2. PICK list : stale' = [stale EXCEPT ![w].list = list]
    BY <1>1 DEF ReapRead
  <2>3. stale'[w].list = list
    BY <2>2
  <2> QED
    BY <1>1, <2>1, <2>2, <2>3
<1>2. CASE ReapOne(w) \/ ReapPass(w)
  <2>1. PICK found \in stale[w].list : stale' = [stale EXCEPT ![w].list = @ \ {found}]
    BY <1>2 DEF ReapOne, ReapPass
  <2> QED
    BY <2>1
<1>3. CASE LookAtLocks(w)
  BY <1>3, WorkerAssumption DEF LookAtLocks, NothingRead
<1> QED
  BY <1>1, <1>2, <1>3

\* The steps of the loop between two jobs.
LEMMA BetweenJobsShape ==
  ASSUME Shape, NEW w \in Workers,
         \/ ReapRead(w) \/ ReapPass(w) \/ LookAtLocks(w) \/ NothingToClaim(w)
         \/ Quit(w) \/ TellToStop(w)
  PROVE  Shape'
<1> USE DEF Shape, TypeOK
<1>0. /\ UNCHANGED <<lock, inside, job, desk, mine, part, outcome, silence>>
      /\ w \in Procs
  BY WorkerAssumption
  DEF ReapRead, ReapPass, LookAtLocks, NothingToClaim, Quit, TellToStop, GoTo
<1>1. LocksTypeOK' /\ StoreTypeOK' /\ PanelTypeOK'
  BY <1>0 DEF LocksTypeOK, StoreTypeOK, PanelTypeOK
<1>2. stale' \in [Workers -> [list : SUBSET Readings, stall : 0 .. MaxStall]]
  BY ListType DEF WorkerTypeOK, NothingToClaim, Quit, TellToStop, GoTo
<1>3. WorkerTypeOK'
  <2>1. pc' \in [Procs -> Idle \cup Holding \cup {"gone"}]
    BY <1>0 DEF WorkerTypeOK, ReapRead, ReapPass, LookAtLocks, NothingToClaim, Quit, TellToStop, GoTo, Idle
  <2>2. seen' \in [Workers -> SUBSET Resources]
    BY DEF WorkerTypeOK, ReapRead, ReapPass, LookAtLocks, NothingToClaim, Quit, TellToStop, GoTo, Taken
  <2>3. stopping' \in [Workers -> BOOLEAN]
    BY DEF WorkerTypeOK, ReapRead, ReapPass, LookAtLocks, NothingToClaim, Quit, TellToStop, GoTo
  <2> QED BY <1>0, <1>2, <2>1, <2>2, <2>3 DEF WorkerTypeOK
<1>4. /\ \A v \in Workers \ {w} : pc'[v] = pc[v]
      /\ \/ pc'[w] = pc[w]
         \/ pc[w] \in Idle /\ pc'[w] \in Idle \cup {"gone"}
  <2>1. pc \in [Procs -> Idle \cup Holding \cup {"gone"}]
    BY DEF WorkerTypeOK
  <2>2. CASE ReapRead(w) \/ ReapPass(w) \/ LookAtLocks(w) \/ NothingToClaim(w)
    BY <1>0, <2>1, <2>2, WorkerAssumption
    DEF ReapRead, ReapPass, LookAtLocks, NothingToClaim, Idle
  <2>3. CASE Quit(w) \/ TellToStop(w)
    BY <1>0, <2>1, <2>3, WorkerAssumption DEF Quit, TellToStop, GoTo, Idle
  <2> QED
    BY <2>2, <2>3
<1>5. InHand(w)'
  BY <1>0, <1>4 DEF HandsFit, InHand, Holding, Beating, Idle, Parts
<1>6. \A v \in Workers : \A found \in stale'[v].list : Exists(found.job)
  <2>1. CASE UNCHANGED stale
    BY <2>1 DEF VerdictsFit
  <2>2. CASE ReapRead(w)
    <3> SUFFICES ASSUME NEW v \in Workers, NEW found \in stale'[v].list
                 PROVE  Exists(found.job)
      OBVIOUS
    <3>1. CASE v # w
      BY <2>2, <3>1, ListType DEF VerdictsFit
    <3>2. CASE v = w
      BY <2>2, <3>2, ReadingType DEF Exists, UnderWay
    <3> QED
      BY <3>1, <3>2
  <2>3. CASE ReapPass(w) \/ LookAtLocks(w)
    <3>1. ~ReapRead(w)
      BY <2>3 DEF ReapRead, ReapPass, LookAtLocks
    <3> QED
      BY <2>3, <3>1, ListType DEF VerdictsFit
  <2> QED
    BY <2>1, <2>2, <2>3 DEF NothingToClaim, Quit, TellToStop, GoTo
<1>7. \A i \in Jobs : Exists(i) => Exists(i)'
  BY <1>0 DEF Exists
<1> QED
  BY <1>0, <1>1, <1>3, <1>4, <1>5, <1>6, <1>7, StepShape DEF OnePerformer

\* Claiming: the job goes from the queue into the hands of one worker.
LEMMA ClaimShape ==
  ASSUME Shape, NEW w \in Workers, NEW j \in Jobs, Claim(w, j)
  PROVE  Shape'
<1> USE DEF Shape, TypeOK
<1>0. w \in Procs /\ job[j].state = "queued" /\ mine[w] = None /\ inside[w] = None /\ Exists(j)
  BY WorkerAssumption DEF Claim, IsOldest, Claimable, HandsFit, InHand, Holding, Beating, Exists
<1>1. Keeps(j) /\ job'[j].state = "claimed"
  <2>1. Rewrite(j, "claimed", 0, job[j].cancel)
    BY DEF Claim, MarkClaimed
  <2>2. 0 \in 0 .. Lease + 1
    BY LocksAssumption
  <2>3. job[j].cancel \in BOOLEAN /\ "claimed" \in States
    BY DEF StoreTypeOK, Documents, States
  <2> QED
    BY <1>0, <2>1, <2>2, <2>3, RewriteKeeps DEF StoreTypeOK, Documents, States
<1>2. LocksTypeOK' /\ PanelTypeOK'
  BY DEF Claim, LocksTypeOK, PanelTypeOK
<1>3. WorkerTypeOK'
  BY <1>0, WorkerAssumption DEF Claim, WorkerTypeOK, Holding
<1>4. TypeOK'
  BY <1>1, <1>2, <1>3 DEF Keeps
<1>5. \A v \in Workers : mine[v] # None => mine[v] # j
  BY <1>0 DEF HandsFit, InHand, UnderWay, Final
<1>6. InHand(w)'
  <2>1. part'[w] = part[w] /\ mine'[w] = j /\ pc'[w] \in {"starting", "dropping"} /\ inside'[w] = None
    BY <1>0 DEF Claim, WorkerTypeOK
  <2>2. part[w] = 1
    BY <1>0 DEF HandsFit, InHand
  <2>3. part'[w] <= Len(Parts(mine[w]))'
    BY <2>1, <2>2 DEF Parts
  <2> QED
    BY <1>0, <1>1, <2>1, <2>3, StoreAssumption DEF InHand, Holding, Beating, UnderWay, Jobs
<1>7. \A v \in Workers \ {w} :
            /\ pc'[v] = pc[v] /\ mine'[v] = mine[v]
            /\ part'[v] = part[v] /\ inside'[v] = inside[v]
            /\ mine[v] # None => job'[mine[v]] = job[mine[v]] /\ mine'[w] # mine[v]
  BY <1>1, <1>5 DEF Claim, WorkerTypeOK, Keeps
<1> QED
  BY <1>1, <1>4, <1>6, <1>7, StepShape DEF Claim, Keeps, VerdictsFit

\* Letting go of the job in hand, whatever was last written about it.
LEMMA LetGoShape ==
  ASSUME Shape, NEW w \in Workers, mine[w] # None, inside[w] = None, LetGo(w),
         Keeps(mine[w]), UNCHANGED <<lock, inside, desk, stale, seen, stopping>>
  PROVE  Shape'
<1> USE DEF Shape, TypeOK
<1>0. w \in Procs /\ mine[w] \in Jobs /\ Exists(mine[w])
  BY WorkerAssumption, HandExists
<1>1. LocksTypeOK' /\ PanelTypeOK'
  BY DEF LocksTypeOK, PanelTypeOK
<1>2. WorkerTypeOK'
  BY <1>0, WorkerAssumption DEF LetGo, WorkerTypeOK, Idle, Outcomes
<1>3. TypeOK'
  BY <1>1, <1>2 DEF Keeps
<1>4. InHand(w)'
  <2>1. pc'[w] = "idle" /\ mine'[w] = None /\ part'[w] = 1 /\ inside'[w] = None
    BY <1>0 DEF LetGo, WorkerTypeOK
  <2> QED
    BY <2>1 DEF InHand, Holding, Beating
<1>5. \A v \in Workers \ {w} :
            /\ pc'[v] = pc[v] /\ mine'[v] = mine[v]
            /\ part'[v] = part[v] /\ inside'[v] = inside[v]
            /\ mine[v] # None => mine[v] \in Jobs \ {mine[w]} /\ mine'[w] # mine[v]
  <2>1. mine'[w] = None
    BY DEF LetGo, WorkerTypeOK
  <2> QED
    BY <1>0, <2>1 DEF LetGo, WorkerTypeOK, OnePerformer
<1>6. \A v \in Workers \ {w} : mine[v] # None => job'[mine[v]] = job[mine[v]]
  BY <1>5 DEF Keeps
<1> QED
  BY <1>3, <1>4, <1>5, <1>6, StepShape DEF Keeps, VerdictsFit

\* A step that leaves the documents alone keeps them.
LEMMA UntouchedKeeps ==
  ASSUME StoreTypeOK, NEW j \in Jobs, UNCHANGED job
  PROVE  Keeps(j)
BY DEF Keeps, StoreTypeOK, Exists

\* store.requeue: only the job put back is touched.
LEMMA RequeueKeeps ==
  ASSUME StoreTypeOK, NEW j \in Jobs, Exists(j), Requeue(j)
  PROVE  Keeps(j)
<1>1. CASE job[j].state \in UnderWay
  BY <1>1, RewriteKeeps, LocksAssumption DEF Requeue, States, StoreTypeOK, Documents
<1>2. CASE job[j].state \notin UnderWay
  BY <1>2, UntouchedKeeps DEF Requeue
<1> QED
  BY <1>1, <1>2

\* Dropping, finishing and putting back a job keep the shape.
LEMMA ReleasingShape ==
  ASSUME Shape, NEW w \in Workers,
         DropCancelled(w) \/ Finish(w) \/ PutBack(w)
  PROVE  Shape'
<1>1. pc[w] \in {"dropping", "settling"}
  BY DEF DropCancelled, Finish, PutBack
<1>2. mine[w] # None /\ inside[w] = None
  BY <1>1 DEF Shape, HandsFit, InHand, Holding
<1>3. mine[w] \in Jobs /\ Exists(mine[w]) /\ StoreTypeOK
  BY <1>2, HandExists DEF Shape, TypeOK
<1>4. Keeps(mine[w])
  <2>1. CASE DropCancelled(w)
    BY <1>3, <2>1, SettleGentle DEF DropCancelled, Final
  <2>2. CASE Finish(w)
    <3>1. (IF outcome[w] = "ok" THEN "done" ELSE outcome[w]) \in Final
      BY <2>2 DEF Finish, Shape, TypeOK, WorkerTypeOK, Outcomes, Final
    <3> QED
      BY <1>3, <2>2, <3>1, SettleGentle DEF Finish
  <2>3. CASE PutBack(w)
    BY <1>3, <2>3, RequeueKeeps DEF PutBack
  <2> QED
    BY <2>1, <2>2, <2>3
<1> QED
  BY <1>2, <1>4, LetGoShape DEF DropCancelled, Finish, PutBack

\* Starting a claimed job, or letting go of one settled meanwhile.
LEMMA StartShape ==
  ASSUME Shape, NEW w \in Workers, StartJob(w)
  PROVE  Shape'
<1> USE DEF Shape, TypeOK
<1>1. mine[w] # None /\ inside[w] = None /\ w \in Procs
  BY WorkerAssumption DEF StartJob, HandsFit, InHand, Holding
<1>2. mine[w] \in Jobs /\ Exists(mine[w])
  BY <1>1, HandExists
<1>3. CASE job[mine[w]].state # "claimed"
  BY <1>1, <1>2, <1>3, LetGoShape, UntouchedKeeps DEF StartJob
<1>4. CASE job[mine[w]].state = "claimed"
  <2>1. Keeps(mine[w]) /\ job'[mine[w]].state = "running"
    <3>1. Rewrite(mine[w], "running", 0, job[mine[w]].cancel)
      BY <1>4 DEF StartJob, MarkRunning
    <3>2. /\ StoreTypeOK
          /\ "running" \in States
          /\ 0 \in 0 .. Lease + 1
          /\ job[mine[w]].cancel \in BOOLEAN
      BY <1>2, LocksAssumption DEF StoreTypeOK, Documents, States
    <3> QED
      BY <1>2, <3>1, <3>2, RewriteKeeps
  <2>2. LocksTypeOK' /\ PanelTypeOK'
    BY DEF StartJob, LocksTypeOK, PanelTypeOK
  <2>3. WorkerTypeOK' /\ pc'[w] \in {"enter", "begin"}
    BY <1>1, <1>4, WorkerAssumption
    DEF StartJob, WorkerTypeOK, FirstStep, Holding, Beating
  <2>4. TypeOK'
    BY <2>1, <2>2, <2>3 DEF Keeps
  <2>5. mine' = mine /\ part' = part /\ inside' = inside /\ stale' = stale /\ UNCHANGED desk
    BY <1>4 DEF StartJob
  <2>6. InHand(w)'
    <3>1. part'[w] <= Len(Parts(mine[w]))'
      BY <1>1, <1>2, <2>1, <2>5 DEF HandsFit, InHand, Parts, Keeps
    <3> QED
      BY <1>1, <2>1, <2>3, <2>5, <3>1 DEF InHand, Holding, Beating, UnderWay
  <2>7. \A v \in Workers \ {w} :
            /\ pc'[v] = pc[v]
            /\ mine[v] # None => mine[v] \in Jobs \ {mine[w]}
    <3>1. \A v \in Workers \ {w} : pc'[v] = pc[v]
      BY <1>1, <1>4, WorkerAssumption DEF StartJob, WorkerTypeOK
    <3>2. \A v \in Workers \ {w} : mine[v] # None => mine[v] \in Jobs \ {mine[w]}
      BY <1>1 DEF WorkerTypeOK, OnePerformer
    <3> QED
      BY <3>1, <3>2
  <2> QED
    BY <2>1, <2>4, <2>5, <2>6, <2>7, StepShape DEF Keeps, VerdictsFit, OnePerformer
<1> QED
  BY <1>3, <1>4

\* The steps of a part that touch neither the queue nor the lock table.
LEMMA InsideShape ==
  ASSUME Shape, NEW w \in Workers,
         \/ Begin(w) \/ TurnedAway(w) \/ Open(w) \/ Seam(w)
         \/ WorkDone(w) \/ WorkFails(w)
  PROVE  Shape'
<1> USE DEF Beating, Outcomes
<1>0. inside[w] # None => pc[w] \in {"open", "inside", "leaving"}
  BY DEF Shape, HandsFit, InHand
<1>1. CASE Begin(w)
  BY <1>0, <1>1, LocalShape DEF Begin
<1>2. CASE TurnedAway(w)
  BY <1>0, <1>2, LocalShape DEF TurnedAway
<1>3. CASE Open(w)
  BY <1>3, LocalShape DEF Open
<1>4. CASE Seam(w)
  BY <1>4, LocalShape DEF Seam
<1>5. CASE WorkDone(w)
  BY <1>5, LocalShape DEF WorkDone
<1>6. CASE WorkFails(w)
  BY <1>0, <1>6, LocalShape DEF WorkFails
<1> QED
  BY <1>1, <1>2, <1>3, <1>4, <1>5, <1>6

\* The lock table keeps its type under every operation on it.
LEMMA LockOpsType ==
  ASSUME LocksTypeOK, NEW p \in Procs, NEW r
  PROVE  /\ r \in Resources /\ Enter(p, r) => LocksTypeOK'
         /\ r = None /\ Enter(p, r) => LocksTypeOK'
         /\ Leave(p) => LocksTypeOK'
         /\ Abandon(p) => LocksTypeOK'
         /\ r \in Resources /\ Renew(p, r) /\ UNCHANGED inside => LocksTypeOK'
<1> USE LocksAssumption DEF LocksTypeOK, Rows
<1>1. r \in Resources /\ Enter(p, r) => LocksTypeOK'
  BY DEF Enter, Acquire
<1>2. r = None /\ Enter(p, r) => LocksTypeOK'
  <2> SUFFICES ASSUME r = None, Enter(p, r) PROVE LocksTypeOK'
    OBVIOUS
  <2>1. inside' = [inside EXCEPT ![p] = r] /\ lock' = [lock EXCEPT ![r] = [owner |-> p, age |-> 0]]
    BY DEF Enter, Acquire
  <2>2. [lock EXCEPT ![r] = [owner |-> p, age |-> 0]] \in [Resources -> Rows]
    OBVIOUS
  <2>3. [inside EXCEPT ![p] = r] \in [Procs -> Resources \cup {None}]
    OBVIOUS
  <2> QED BY <2>1, <2>2, <2>3
<1>3. Leave(p) => LocksTypeOK'
  <2>1. CASE inside[p] \in Resources
    BY <2>1 DEF Leave, Release, NoRow
  <2>2. CASE inside[p] = None
    <3>1. [lock EXCEPT ![None] = NoRow] \in [Resources -> Rows]
      BY DEF NoRow
    <3> QED
      BY <2>2, <3>1 DEF Leave, Release
  <2> QED
    BY <2>1, <2>2
<1>4. Abandon(p) => LocksTypeOK'
  BY DEF Abandon
<1>5. r \in Resources /\ Renew(p, r) /\ UNCHANGED inside => LocksTypeOK'
  BY DEF Renew
<1> QED
  BY <1>1, <1>2, <1>3, <1>4, <1>5

\* What a part locks is a resource, or nothing.
LEMMA SectionType ==
  ASSUME Shape, NEW w \in Workers, mine[w] # None
  PROVE  Section(w) \in Resources \cup {None}
<1>1. job[mine[w]].run \in Requests
  BY HandExists DEF Shape, TypeOK, StoreTypeOK, Exists
<1> QED
  BY <1>1, StoreAssumption DEF Section

\* A step of one worker that enters or leaves its section.
LEMMA SectionStepShape ==
  ASSUME Shape, NEW w \in Workers, mine[w] # None,
         pc[w] \in Beating, LocksTypeOK', WorkerTypeOK',
         UNCHANGED <<job, desk, mine, stale>>,
         \A v \in Workers \ {w} : pc'[v] = pc[v] /\ part'[v] = part[v] /\ inside'[v] = inside[v],
         pc'[w] \in Beating \cup {"settling"},
         inside'[w] # None => pc'[w] \in {"open", "inside", "leaving"},
         part'[w] <= Len(Parts(mine[w]))
  PROVE  Shape'
<1> USE DEF Shape, TypeOK
<1>1. TypeOK'
  BY DEF StoreTypeOK, PanelTypeOK
<1>2. InHand(w)'
  BY DEF HandsFit, InHand, Parts, Holding, Beating
<1> QED
  BY <1>1, <1>2, StepShape DEF OnePerformer, VerdictsFit, Exists

\* Entering the `with held(...)` block of a part keeps the shape.
LEMMA EnterShape ==
  ASSUME Shape, NEW w \in Workers, EnterSection(w)
  PROVE  Shape'
<1> USE DEF Shape, TypeOK
<1>1. w \in Procs /\ mine[w] # None /\ pc[w] \in Beating
  BY WorkerAssumption DEF EnterSection, HandsFit, InHand, Holding, Beating
<1>2. LocksTypeOK'
  BY <1>1, SectionType, LockOpsType DEF EnterSection
<1>3. pc'[w] \in {"open", "inside"} /\ WorkerTypeOK'
  BY <1>1, WorkerAssumption DEF EnterSection, GoTo, WorkerTypeOK, Holding, Beating
<1>4. part[w] <= Len(Parts(mine[w]))
  BY <1>1 DEF HandsFit, InHand
<1>5. /\ UNCHANGED <<job, desk, mine, stale, part>>
      /\ \A v \in Workers \ {w} : pc'[v] = pc[v] /\ inside'[v] = inside[v]
  BY <1>1, WorkerAssumption DEF EnterSection, Enter, GoTo, WorkerTypeOK, LocksTypeOK
<1> QED
  BY <1>1, <1>2, <1>3, <1>4, <1>5, SectionStepShape DEF Beating

\* Leaving it, released or not, keeps the shape: the next part exists.
LEMMA LeaveShape ==
  ASSUME Shape, NEW w \in Workers, LeaveSection(w) \/ LeaveLost(w)
  PROVE  Shape'
<1> USE DEF Shape, TypeOK
<1>1. w \in Procs /\ mine[w] # None /\ pc[w] \in Beating
  BY WorkerAssumption DEF LeaveSection, LeaveLost, HandsFit, InHand, Holding, Beating
<1>2. /\ LocksTypeOK' /\ inside'[w] = None
      /\ \A v \in Workers \ {w} : inside'[v] = inside[v]
  <2>1. CASE inside[w] = None /\ UNCHANGED lockVars
    BY <2>1 DEF LocksTypeOK, lockVars
  <2>2. CASE Leave(w)
    BY <1>1, <2>2, LockOpsType, WorkerAssumption DEF Leave, LocksTypeOK
  <2>3. CASE Abandon(w)
    BY <1>1, <2>3, LockOpsType, WorkerAssumption DEF Abandon, LocksTypeOK
  <2> QED
    BY <2>1, <2>2, <2>3 DEF LeaveSection, LeaveLost
<1>3. part[w] <= Len(Parts(mine[w])) /\ Len(Parts(mine[w])) \in {1, 3}
  BY <1>1 DEF HandsFit, InHand, Parts
<1>4. /\ part'[w] \in 1 .. 3
      /\ part'[w] <= Len(Parts(mine[w]))
      /\ part' = [part EXCEPT ![w] = part'[w]]
  <2>1. part[w] \in 1 .. 3 /\ part \in [Workers -> 1 .. 3]
    BY DEF WorkerTypeOK
  <2>2. CASE UNCHANGED part
    BY <1>3, <2>1, <2>2
  <2>3. CASE ~IsLastPart(w) /\ part' = [part EXCEPT ![w] = @ + 1]
    <3>1. part'[w] = part[w] + 1 /\ part' = [part EXCEPT ![w] = part'[w]]
      BY <2>1, <2>3
    <3>2. \A l \in {1, 3}, n \in 1 .. 3 : n <= l /\ n # l => n + 1 \in 1 .. 3 /\ n + 1 <= l
      OBVIOUS
    <3>3. part[w] # Len(Parts(mine[w]))
      BY <2>3 DEF IsLastPart
    <3> QED
      BY <1>3, <2>1, <3>1, <3>2, <3>3
  <2>4. UNCHANGED part \/ (~IsLastPart(w) /\ part' = [part EXCEPT ![w] = @ + 1])
    BY DEF LeaveSection, LeaveLost, Ends
  <2> QED
    BY <2>2, <2>3, <2>4
<1>5. /\ UNCHANGED <<job, desk, mine, stale, seen, silence, stopping>>
      /\ pc' = [pc EXCEPT ![w] = pc'[w]]
      /\ pc'[w] \in {"begin", "settling"}
      /\ outcome' \in [Workers -> Outcomes]
  BY <1>1 DEF LeaveSection, LeaveLost, Ends, WorkerTypeOK, Outcomes
<1>6. WorkerTypeOK'
  BY <1>4, <1>5 DEF WorkerTypeOK, Holding, Beating
<1> QED
  BY <1>1, <1>2, <1>4, <1>5, <1>6, SectionStepShape, WorkerAssumption DEF Beating, WorkerTypeOK

\* A worker that is gone has nothing in hand.
LEMMA DieShape ==
  ASSUME Shape, NEW w \in Workers, DieWorker(w)
  PROVE  Shape'
<1> USE DEF Shape, TypeOK
<1>0. w \in Procs
  BY WorkerAssumption
<1>1. LocksTypeOK' /\ inside'[w] = None /\ \A v \in Workers \ {w} : inside'[v] = inside[v]
  BY <1>0, LockOpsType, WorkerAssumption DEF DieWorker, Abandon, LocksTypeOK
<1>2. WorkerTypeOK'
  BY <1>0, WorkerAssumption DEF DieWorker, WorkerTypeOK, NothingRead, Outcomes
<1>3. TypeOK'
  BY <1>1, <1>2 DEF DieWorker, StoreTypeOK, PanelTypeOK
<1>4. InHand(w)'
  BY <1>0, <1>1 DEF DieWorker, InHand, WorkerTypeOK, Holding, Beating
<1>5. \A v \in Workers \ {w} :
         /\ pc'[v] = pc[v] /\ mine'[v] = mine[v] /\ part'[v] = part[v]
         /\ mine[v] # None => job'[mine[v]] = job[mine[v]] /\ mine'[w] # mine[v]
  BY <1>0, WorkerAssumption DEF DieWorker, WorkerTypeOK
<1>6. \A v \in Workers : \A found \in stale'[v].list : Exists(found.job)
  BY DEF DieWorker, WorkerTypeOK, VerdictsFit, NothingRead
<1>7. \A i \in Jobs : Exists(i) => Exists(i)'
  BY DEF DieWorker, Exists
<1> QED
  BY <1>1, <1>3, <1>4, <1>5, <1>6, <1>7, StepShape DEF DieWorker

\* The steps of the command line keep the shape.
LEMMA TerminalShape ==
  ASSUME Shape, NEW c \in Terminals,
         \/ \E r \in Resources : TerminalEnter(c, r) \/ TerminalRefused(c, r)
         \/ TerminalLeave(c) \/ DieTerminal(c)
  PROVE  Shape'
<1> USE DEF Shape, TypeOK
<1>1. c \in Procs /\ c \notin Workers
  BY WorkerAssumption
<1>2. LocksTypeOK' /\ \A w \in Workers : inside'[w] = inside[w]
  <2>1. CASE \E r \in Resources : TerminalEnter(c, r)
    BY <1>1, <2>1, LockOpsType, WorkerAssumption DEF TerminalEnter, Enter, LocksTypeOK
  <2>2. CASE \E r \in Resources : TerminalRefused(c, r)
    BY <2>2 DEF TerminalRefused, LocksTypeOK
  <2>3. CASE TerminalLeave(c)
    BY <1>1, <2>3, LockOpsType, WorkerAssumption DEF TerminalLeave, Leave, LocksTypeOK
  <2>4. CASE DieTerminal(c)
    BY <1>1, <2>4, LockOpsType, WorkerAssumption DEF DieTerminal, Abandon, LocksTypeOK
  <2> QED
    BY <2>1, <2>2, <2>3, <2>4
<1>3. /\ UNCHANGED <<job, desk, mine, part, stale, seen, outcome, silence, stopping>>
      /\ \E step \in {"inside", "gone"} : pc' = [pc EXCEPT ![c] = step]
  BY DEF TerminalEnter, TerminalRefused, TerminalLeave, DieTerminal, GoTo
<1>4. WorkerTypeOK' /\ \A w \in Workers : pc'[w] = pc[w]
  BY <1>1, <1>3, WorkerAssumption DEF WorkerTypeOK, Holding, Beating
<1>5. TypeOK'
  BY <1>2, <1>3, <1>4 DEF StoreTypeOK, PanelTypeOK
<1>6. HandsFit'
  <2> SUFFICES ASSUME NEW w \in Workers PROVE InHand(w)'
    BY DEF HandsFit
  <2> QED
    BY <1>2, <1>3, <1>4, HandKept
<1> QED
  BY <1>3, <1>5, <1>6 DEF OnePerformer, VerdictsFit, DeskFits, Exists

\* Writing one verdict of reap_stale keeps the shape.
LEMMA ReapOneShape ==
  ASSUME Shape, NEW w \in Workers, ReapOne(w)
  PROVE  Shape'
<1> USE DEF Shape, TypeOK
<1>1. PICK found \in stale[w].list : Settle(found.job, found.verdict)
  BY DEF ReapOne
<1>2. found.job \in Jobs /\ found.verdict \in Final /\ Exists(found.job)
  BY DEF WorkerTypeOK, VerdictsFit, Readings, Verdicts, Final
<1>3. StoreTypeOK' /\ Gentle
  BY <1>1, <1>2, SettleGentle DEF Keeps
<1>4. \A v \in Workers : stale'[v].list \subseteq stale[v].list
  <2>1. ~ReapRead(w)
    BY DEF ReapOne, ReapRead
  <2> QED
    BY <2>1, ListType
<1>5. TypeOK'
  <2>1. LocksTypeOK' /\ PanelTypeOK'
    BY DEF ReapOne, LocksTypeOK, PanelTypeOK
  <2>2. WorkerTypeOK'
    BY ListType DEF ReapOne, WorkerTypeOK
  <2> QED
    BY <1>3, <2>1, <2>2
<1>6. DeskFits'
  BY <1>3 DEF ReapOne, VerdictsFit, DeskFits, Gentle
<1> QED
  BY <1>3, <1>4, <1>5, <1>6, GentleShape DEF ReapOne

\* The two updates of the beat keep the shape.
LEMMA BeatShape ==
  ASSUME Shape, NEW w \in Workers, Beat(w) \/ BeatHalf(w)
  PROVE  Shape'
<1> USE DEF Shape, TypeOK
<1>1. w \in Procs /\ mine[w] # None
  BY WorkerAssumption DEF Beat, BeatHalf, HandsFit, InHand, Holding
<1>2. mine[w] \in Jobs /\ Exists(mine[w])
  BY <1>1, HandExists
<1>3. StoreTypeOK' /\ Gentle
  BY <1>2, HeartbeatGentle DEF Beat, BeatHalf, Keeps
<1>4. Resource(mine[w]) \in Resources
  BY <1>2, StoreAssumption DEF Resource, StoreTypeOK, Exists
<1>5. LocksTypeOK'
  BY <1>1, <1>4, LockOpsType DEF Beat, BeatHalf, LocksTypeOK
<1>6. WorkerTypeOK' /\ PanelTypeOK'
  BY WorkerAssumption DEF Beat, BeatHalf, workerVars, WorkerTypeOK, PanelTypeOK
<1>7. DeskFits'
  BY <1>3 DEF Beat, BeatHalf, VerdictsFit, DeskFits, Gentle
<1> QED
  BY <1>3, <1>5, <1>6, <1>7, GentleShape DEF Beat, BeatHalf, workerVars

\* The passing of time keeps the shape.
LEMMA TickShape ==
  ASSUME Shape, Tick
  PROVE  Shape'
<1> USE DEF Shape, TypeOK
<1>1. StoreTypeOK' /\ Gentle
  BY AgeGentle DEF Tick
<1>2. LocksTypeOK'
  BY LocksAssumption DEF Tick, AgeLocks, Older, LocksTypeOK, Rows, NoRow
<1>3. WorkerTypeOK' /\ PanelTypeOK'
  BY WorkerAssumption DEF Tick, InTime, WorkerTypeOK, PanelTypeOK
<1>4. DeskFits'
  BY <1>1 DEF Tick, VerdictsFit, DeskFits, Gentle
<1> QED
  BY <1>1, <1>2, <1>3, <1>4, GentleShape DEF Tick

\* What the panel does to the documents.
LEMMA PanelGentle ==
  ASSUME Shape, Panel
  PROVE  StoreTypeOK' /\ Gentle /\ Unaged /\ PanelTypeOK' /\ DeskFits'
<1> USE DEF Shape, TypeOK, Desk, FreeDesk
<1>1. CASE \E run \in Requests : Schedule(run)
  <2>1. PICK run \in Requests, j \in Jobs : Insert(j, run) /\ UNCHANGED desk
    BY <1>1 DEF Schedule
  <2>2. StoreTypeOK' /\ Gentle /\ Unaged
    BY <2>1, InsertGentle DEF Keeps
  <2> QED
    BY <2>1, <2>2 DEF PanelTypeOK, VerdictsFit, DeskFits, Gentle
<1>2. CASE \E j \in Jobs : Repeat(j)
  <2>1. PICK j \in Jobs, k \in Jobs :
           job[j].state \in Final /\ Insert(k, job[j].run) /\ UNCHANGED desk
    BY <1>2 DEF Repeat
  <2>2. job[j].run \in Requests
    BY <2>1 DEF StoreTypeOK, Final
  <2>3. StoreTypeOK' /\ Gentle /\ Unaged
    BY <2>1, <2>2, InsertGentle DEF Keeps
  <2> QED
    BY <2>1, <2>3 DEF PanelTypeOK, VerdictsFit, DeskFits, Gentle
<1>3. CASE \E j \in Jobs : CancelFirst(j)
  <2>1. PICK j \in Jobs : CancelFirst(j)
    BY <1>3
  <2>2. CASE CancelQueued(j) /\ UNCHANGED desk
    <3>1. Rewrite(j, "cancelled", 0, TRUE) /\ Exists(j) /\ job[j].state = "queued"
      BY <2>2 DEF CancelQueued, Exists
    <3>2. Keeps(j) /\ job'[j].state = "cancelled" /\ job'[j].hb = 0
      <4>1. "cancelled" \in States /\ 0 \in 0 .. Lease + 1 /\ TRUE \in BOOLEAN
        BY LocksAssumption DEF States
      <4> QED
        BY <3>1, <4>1, RewriteKeeps
    <3>3. Gentle /\ Unaged
      BY <3>1, <3>2 DEF Gentle, Unaged, Keeps, Final
    <3> QED
      BY <2>2, <3>2, <3>3 DEF PanelTypeOK, VerdictsFit, DeskFits, Gentle, Keeps
  <2>3. CASE desk' = Desk("cancelling", j, {}, None) /\ UNCHANGED job
    BY <2>1, <2>3 DEF CancelFirst, StoreTypeOK, Gentle, Unaged, PanelTypeOK, Desks, DeskFits, Exists
  <2> QED
    BY <2>1, <2>2, <2>3 DEF CancelFirst
<1>4. CASE \E j \in Jobs : GiveUpLook(j)
  BY <1>4 DEF GiveUpLook, StoreTypeOK, Gentle, Unaged, PanelTypeOK, Desks, DeskFits, Exists, Taken
<1>5. CASE CancelSecond
  <2>1. desk.job \in Jobs /\ Exists(desk.job)
    BY <1>5 DEF CancelSecond, VerdictsFit, DeskFits
  <2>2. StoreTypeOK' /\ Gentle /\ Unaged
    BY <1>5, <2>1, FlagGentle DEF CancelSecond, Keeps
  <2> QED
    BY <1>5, <2>2 DEF CancelSecond, PanelTypeOK, Desks, DeskFits
<1>6. CASE GiveUpRead
  <2>1. desk.job \in Jobs /\ Exists(desk.job)
    BY <1>6 DEF GiveUpRead, VerdictsFit, DeskFits
  <2>2. Verdict(desk.job) \in Verdicts
    BY DEF Verdict, Verdicts
  <2>3. StoreTypeOK' /\ Gentle /\ Unaged
    BY <1>6 DEF GiveUpRead, StoreTypeOK, Gentle, Unaged, Exists
  <2> QED
    BY <1>6, <2>1, <2>2, <2>3 DEF GiveUpRead, PanelTypeOK, Desks, DeskFits, Gentle
<1>7. CASE GiveUpSettle
  <2>1. desk.job \in Jobs /\ Exists(desk.job) /\ desk.verdict \in Final
    BY <1>7 DEF GiveUpSettle, VerdictsFit, DeskFits, Verdicts, Final
  <2>2. StoreTypeOK' /\ Gentle /\ Unaged
    BY <1>7, <2>1, SettleGentle DEF GiveUpSettle, Keeps
  <2> QED
    BY <1>7, <2>2 DEF GiveUpSettle, PanelTypeOK, Desks, DeskFits
<1> QED
  BY <1>1, <1>2, <1>3, <1>4, <1>5, <1>6, <1>7 DEF Panel

\* The handlers of the job pages keep the shape.
LEMMA PanelShape ==
  ASSUME Shape, Panel, UNCHANGED <<lock, inside, workerVars>>
  PROVE  Shape'
<1>1. StoreTypeOK' /\ Gentle /\ Unaged /\ PanelTypeOK' /\ DeskFits'
  BY PanelGentle
<1>2. TypeOK'
  BY <1>1 DEF Shape, TypeOK, LocksTypeOK, WorkerTypeOK, workerVars
<1> QED
  BY <1>1, <1>2, GentleShape DEF workerVars

\* Every step keeps the shape.
LEMMA NextShape == Shape /\ [Next]_vars => Shape'
<1> SUFFICES ASSUME Shape, [Next]_vars PROVE Shape'
  OBVIOUS
<1>1. CASE \E w \in Workers : Loop(w)
  <2>1. PICK w \in Workers : Loop(w)
    BY <1>1
  <2> QED
    BY <2>1, BetweenJobsShape, ReapOneShape, ClaimShape, ReleasingShape, StartShape,
       InsideShape, EnterShape, LeaveShape DEF Loop
<1>2. CASE \E w \in Workers : Beat(w) \/ BeatHalf(w)
  BY <1>2, BeatShape
<1>3. CASE \E w \in Workers : TellToStop(w) \/ DieWorker(w)
  BY <1>3, BetweenJobsShape, DieShape
<1>4. CASE \E c \in Terminals :
             \/ \E r \in Resources : TerminalEnter(c, r) \/ TerminalRefused(c, r)
             \/ TerminalLeave(c) \/ DieTerminal(c)
  BY <1>4, TerminalShape
<1>5. CASE Panel /\ UNCHANGED <<lock, inside, workerVars>>
  BY <1>5, PanelShape
<1>6. CASE Tick
  BY <1>6, TickShape
<1>7. CASE UNCHANGED vars
  BY <1>7 DEF vars, workerVars, Shape, TypeOK, LocksTypeOK, StoreTypeOK, PanelTypeOK,
     WorkerTypeOK, OnePerformer, HandsFit, InHand, Parts, VerdictsFit, DeskFits, Exists
<1> QED
  BY <1>1, <1>2, <1>3, <1>4, <1>5, <1>6, <1>7 DEF Next

\* Everything a worker has in hand fits where it is, in every reachable state
\* (worker._perform, store.start, store.requeue).
THEOREM ShapeHolds == Spec => []Shape
BY InitShape, NextShape, PTL DEF Spec

\* The documents, locks, handlers and processes keep their types, for every value
\* of the constants (the state of pauk/jobs).
THEOREM TypesHold == Spec => []TypeOK
BY ShapeHolds, PTL DEF Shape

\* A job is never in the hands of two workers (store.claim, store.requeue).
THEOREM OneWorkerPerJob == Spec => []OnePerformer
BY ShapeHolds, PTL DEF Shape

-----------------------------------------------------------------------------
\* What later proofs use: how a step may change documents and hands.

\* No step on the documents at all is gentle.
LEMMA UntouchedGentle == UNCHANGED job => Gentle /\ Unaged
BY DEF Gentle, Unaged, Exists

\* The handlers of the job pages are gentle with every document.
LEMMA PanelGentleAlone == Shape /\ Panel => Gentle /\ Unaged
BY PanelGentle

\* Only claiming, starting and putting back a job revive or restart its document.
LEMMA GentleOrOwn ==
  ASSUME Shape, [Next]_vars
  PROVE  \/ Gentle /\ Unaged
         \/ Gentle /\ Tick
         \/ \E w \in Workers, j \in Jobs : Claim(w, j)
         \/ \E w \in Workers : StartJob(w) \/ PutBack(w)
<1>0. StoreTypeOK
  BY DEF Shape, TypeOK
<1>1. ASSUME NEW w \in Workers,
             \/ ReapRead(w) \/ ReapPass(w) \/ LookAtLocks(w) \/ NothingToClaim(w)
             \/ Begin(w) \/ EnterSection(w) \/ TurnedAway(w) \/ Open(w) \/ Seam(w)
             \/ WorkDone(w) \/ WorkFails(w) \/ LeaveSection(w) \/ LeaveLost(w)
             \/ Quit(w) \/ TellToStop(w) \/ DieWorker(w)
      PROVE  Gentle /\ Unaged
  <2>1. UNCHANGED job
    BY <1>1 DEF ReapRead, ReapPass, LookAtLocks, NothingToClaim, Begin, EnterSection, TurnedAway,
       Open, Seam, WorkDone, WorkFails, LeaveSection, LeaveLost, Quit, TellToStop, DieWorker
  <2> QED
    BY <2>1, UntouchedGentle
<1>2. ASSUME NEW w \in Workers, ReapOne(w) PROVE Gentle /\ Unaged
  <2>1. PICK found \in stale[w].list : Settle(found.job, found.verdict)
    BY <1>2 DEF ReapOne
  <2>2. found.job \in Jobs /\ found.verdict \in Final /\ Exists(found.job)
    BY <2>1 DEF Shape, TypeOK, WorkerTypeOK, VerdictsFit, Readings, Verdicts, Final
  <2> QED
    BY <1>0, <2>1, <2>2, SettleGentle
<1>3. ASSUME NEW w \in Workers, DropCancelled(w) \/ Finish(w) PROVE Gentle /\ Unaged
  <2>1. mine[w] \in Jobs /\ Exists(mine[w])
    BY <1>3, HandExists DEF DropCancelled, Finish, Shape, HandsFit, InHand, Holding
  <2>2. CASE DropCancelled(w)
    BY <1>0, <2>1, <2>2, SettleGentle DEF DropCancelled, Final
  <2>3. CASE Finish(w)
    <3>1. (IF outcome[w] = "ok" THEN "done" ELSE outcome[w]) \in Final
      BY <2>3 DEF Finish, Shape, TypeOK, WorkerTypeOK, Outcomes, Final
    <3> QED
      BY <1>0, <2>1, <2>3, <3>1, SettleGentle DEF Finish
  <2> QED
    BY <1>3, <2>2, <2>3
<1>4. ASSUME NEW w \in Workers, Beat(w) \/ BeatHalf(w) PROVE Gentle /\ Unaged
  <2>1. mine[w] \in Jobs /\ Exists(mine[w])
    BY <1>4, HandExists DEF Beat, BeatHalf, Shape, HandsFit, InHand, Holding
  <2> QED
    BY <1>0, <1>4, <2>1, HeartbeatGentle DEF Beat, BeatHalf
<1>5. ASSUME NEW c \in Terminals,
             \/ \E r \in Resources : TerminalEnter(c, r) \/ TerminalRefused(c, r)
             \/ TerminalLeave(c) \/ DieTerminal(c)
      PROVE  Gentle /\ Unaged
  BY <1>5, UntouchedGentle DEF TerminalEnter, TerminalRefused, TerminalLeave, DieTerminal
<1>6. CASE Panel
  BY <1>6, PanelGentleAlone
<1>7. CASE Tick
  BY <1>0, <1>7, AgeGentle DEF Tick
<1>8. CASE UNCHANGED vars
  BY <1>8, UntouchedGentle DEF vars
<1> QED
  BY <1>1, <1>2, <1>3, <1>4, <1>5, <1>6, <1>7, <1>8 DEF Next, Loop

\* What the three others do to the document they are about.
LEMMA ClaimKeeps ==
  ASSUME Shape, NEW w \in Workers, NEW j \in Jobs, Claim(w, j)
  PROVE  /\ Keeps(j) /\ job[j].state = "queued" /\ job'[j].state = "claimed"
         /\ job'[j].hb = 0
         /\ \A v \in Workers : mine[v] # j
<1>1. StoreTypeOK
  BY DEF Shape, TypeOK
<1>2. /\ job[j].state = "queued" /\ Exists(j)
      /\ Rewrite(j, "claimed", 0, job[j].cancel)
  BY DEF Claim, IsOldest, Claimable, MarkClaimed, Exists
<1>3. Keeps(j) /\ job'[j].state = "claimed" /\ job'[j].hb = 0
  BY <1>1, <1>2, RewriteKeeps, LocksAssumption DEF StoreTypeOK, Documents, States
<1>4. ASSUME NEW v \in Workers, mine[v] = j PROVE FALSE
  <2>1. mine[v] # None
    BY <1>4, StoreAssumption DEF Jobs
  <2> QED
    BY <1>2, <1>4, <2>1 DEF Shape, HandsFit, InHand, UnderWay, Final
<1> QED
  BY <1>2, <1>3, <1>4

\* Starting: the document of the job in hand, and no other, becomes running.
LEMMA StartKeeps ==
  ASSUME Shape, NEW w \in Workers, StartJob(w)
  PROVE  /\ mine[w] \in Jobs /\ Exists(mine[w]) /\ Keeps(mine[w])
         /\ \/ UNCHANGED job /\ mine'[w] = None
            \/ /\ job[mine[w]].state = "claimed"
               /\ job'[mine[w]].state = "running"
               /\ job'[mine[w]].hb = 0
               /\ UNCHANGED mine
<1>1. StoreTypeOK
  BY DEF Shape, TypeOK
<1>2. mine[w] \in Jobs /\ Exists(mine[w])
  BY HandExists DEF StartJob, Shape, HandsFit, InHand, Holding
<1>3. CASE UNCHANGED job /\ LetGo(w)
  BY <1>1, <1>2, <1>3, UntouchedKeeps DEF LetGo, Shape, TypeOK, WorkerTypeOK
<1>4. CASE job[mine[w]].state = "claimed" /\ MarkRunning(mine[w]) /\ UNCHANGED mine
  <2>1. /\ "running" \in States
        /\ 0 \in 0 .. Lease + 1
        /\ job[mine[w]].cancel \in BOOLEAN
    BY <1>1, <1>2, LocksAssumption DEF StoreTypeOK, Documents, States
  <2>2. Keeps(mine[w]) /\ job'[mine[w]].state = "running" /\ job'[mine[w]].hb = 0
    BY <1>1, <1>2, <1>4, <2>1, RewriteKeeps DEF MarkRunning
  <2> QED
    BY <1>2, <1>4, <2>2
<1> QED
  BY <1>3, <1>4 DEF StartJob

\* Putting back: the document of the job let go of, and no other, is queued.
LEMMA PutBackKeeps ==
  ASSUME Shape, NEW w \in Workers, PutBack(w)
  PROVE  /\ mine[w] \in Jobs /\ Exists(mine[w]) /\ Keeps(mine[w]) /\ mine'[w] = None
         /\ job[mine[w]].state \in Final => UNCHANGED job
<1>1. StoreTypeOK
  BY DEF Shape, TypeOK
<1>2. mine[w] \in Jobs /\ Exists(mine[w])
  BY HandExists DEF PutBack, Shape, HandsFit, InHand, Holding
<1> QED
  BY <1>1, <1>2, RequeueKeeps DEF PutBack, Requeue, LetGo, UnderWay, Final, Shape, TypeOK, WorkerTypeOK

\* What was asked for never changes.
LEMMA RunsKept ==
  ASSUME Shape, [Next]_vars
  PROVE  \A i \in Jobs : Exists(i) => job'[i].run = job[i].run
BY GentleOrOwn, ClaimKeeps, StartKeeps, PutBackKeeps DEF Gentle, Keeps

\* Jobs come into a worker's hands by being claimed.
LEMMA HandsChange ==
  ASSUME Shape, [Next]_vars, NEW w \in Workers
  PROVE  \/ mine'[w] = mine[w]
         \/ mine'[w] = None
         \/ \E j \in Jobs : Claim(w, j) /\ mine'[w] = j
<1> USE DEF Shape, TypeOK, WorkerTypeOK
<1>1. ASSUME NEW v \in Workers, Loop(v) \/ TellToStop(v) \/ DieWorker(v)
      PROVE  \/ mine'[w] = mine[w]
             \/ mine'[w] = None
             \/ \E j \in Jobs : Claim(w, j) /\ mine'[w] = j
  <2>1. CASE \/ ReapRead(v) \/ ReapPass(v) \/ LookAtLocks(v) \/ NothingToClaim(v)
             \/ Begin(v) \/ ReapOne(v) \/ EnterSection(v) \/ TurnedAway(v) \/ Open(v) \/ Seam(v)
             \/ WorkDone(v) \/ WorkFails(v) \/ LeaveSection(v) \/ LeaveLost(v)
             \/ Quit(v) \/ TellToStop(v)
    BY <2>1 DEF ReapRead, ReapPass, LookAtLocks, NothingToClaim, Begin, EnterSection, TurnedAway, ReapOne,
       Open, Seam, WorkDone, WorkFails, LeaveSection, LeaveLost, Quit, TellToStop, GoTo, Ends
  <2>2. CASE DropCancelled(v) \/ StartJob(v) \/ Finish(v) \/ PutBack(v) \/ DieWorker(v)
    BY <2>2 DEF DropCancelled, StartJob, Finish, PutBack, DieWorker, LetGo
  <2>3. CASE \E j \in Jobs : Claim(v, j)
    BY <2>3 DEF Claim
  <2> QED
    BY <1>1, <2>1, <2>2, <2>3 DEF Loop
<1>2. CASE \E v \in Workers : Beat(v) \/ BeatHalf(v)
  BY <1>2 DEF Beat, BeatHalf, workerVars
<1>3. CASE \E c \in Terminals :
             \/ \E r \in Resources : TerminalEnter(c, r) \/ TerminalRefused(c, r)
             \/ TerminalLeave(c) \/ DieTerminal(c)
  BY <1>3 DEF TerminalEnter, TerminalRefused, TerminalLeave, DieTerminal, GoTo
<1>4. CASE (Panel /\ UNCHANGED <<lock, inside, workerVars>>) \/ Tick \/ UNCHANGED vars
  BY <1>4 DEF Tick, workerVars, vars
<1> QED
  BY <1>1, <1>2, <1>3, <1>4 DEF Next

\* A document in a final state is never written again (models.FINAL,
\* store._settle, store.requeue, store.heartbeat, store.request_cancel).
THEOREM EndedStaysEnded == Spec => FinalIsForever
<1>1. Shape /\ [Next]_vars
         => [\A j \in Jobs : job[j].state \in Final => job'[j] = job[j]]_vars
  <2> SUFFICES ASSUME Shape, [Next]_vars, NEW j \in Jobs, job[j].state \in Final
               PROVE  job'[j] = job[j]
    OBVIOUS
  <2>1. Exists(j) /\ job[j].state \notin {"queued", "claimed"}
    BY DEF Exists, Final
  <2>2. CASE Gentle
    BY <2>1, <2>2 DEF Gentle
  <2>3. CASE \E w \in Workers, i \in Jobs : Claim(w, i)
    BY <2>1, <2>3, ClaimKeeps DEF Keeps
  <2>4. CASE \E w \in Workers : StartJob(w) \/ PutBack(w)
    BY <2>1, <2>4, StartKeeps, PutBackKeeps DEF Keeps
  <2> QED
    BY <2>2, <2>3, <2>4, GentleOrOwn
<1> QED
  BY <1>1, InitShape, NextShape, PTL DEF Spec, FinalIsForever

-----------------------------------------------------------------------------
(***************************************************************************)
(* Which verdicts a job can get.  First that verdicts about silent jobs    *)
(* spare the living: BeatsFresh bounds a heartbeat by its worker's silence, *)
(* so a job seen silent for longer is in nobody's hands; it stays so until  *)
(* the verdict is written, because only a queued job is claimed.           *)
(* Then that a job asked to stop before its start is not done: the request *)
(* is stable, and the worker with the job is always headed for a question  *)
(* about it, or for an end that is not "done".                             *)
(***************************************************************************)

Numbers ==
    /\ \A j \in Jobs : job[j].hb \in Nat
    /\ \A w \in Workers : silence[w] \in Nat /\ silence[w] <= MaxSilence

\* Heartbeats and silences are numbers, and a silence is bounded.
LEMMA ShapeNumbers == Shape => Numbers
BY LocksAssumption, WorkerAssumption
DEF Numbers, Shape, TypeOK, StoreTypeOK, WorkerTypeOK, Documents

\* A step that ages no heartbeat and shortens no silence of a kept job.
LEMMA GentleBeats ==
  ASSUME Shape, BeatsFresh, Gentle, Unaged,
         \A w \in Workers : mine'[w] # None => mine'[w] = mine[w] /\ silence'[w] = silence[w]
  PROVE  BeatsFresh'
<1> SUFFICES ASSUME NEW w \in Workers, mine'[w] # None, job'[mine'[w]].state \in UnderWay
             PROVE  job'[mine'[w]].hb <= silence'[w]
  BY DEF BeatsFresh
<1>1. mine'[w] = mine[w] /\ mine[w] \in Jobs /\ Exists(mine[w]) /\ silence'[w] = silence[w]
  BY HandExists
<1>2. job[mine[w]].state \in UnderWay /\ job'[mine[w]].hb \in {0, job[mine[w]].hb}
  BY <1>1 DEF Gentle, Unaged, UnderWay, Final
<1>3. job[mine[w]].hb <= silence[w]
  BY <1>1, <1>2 DEF BeatsFresh
<1> QED
  BY <1>1, <1>2, <1>3, ShapeNumbers DEF Numbers

\* A step of one worker about the job it has in hand after it.
LEMMA OwnBeats ==
  ASSUME Shape, BeatsFresh, NEW w \in Workers, NEW j \in Jobs, Keeps(j),
         \A v \in Workers \ {w} : /\ mine'[v] = mine[v] /\ silence'[v] = silence[v]
                                  /\ mine[v] # j,
         mine'[w] = None \/ (mine'[w] = j /\ job'[j].hb = 0 /\ silence'[w] \in Nat)
  PROVE  BeatsFresh'
<1> SUFFICES ASSUME NEW v \in Workers, mine'[v] # None, job'[mine'[v]].state \in UnderWay
             PROVE  job'[mine'[v]].hb <= silence'[v]
  BY DEF BeatsFresh
<1>1. CASE v = w
  BY <1>1
<1>2. CASE v # w
  <2>1. mine[v] \in Jobs \ {j} /\ mine'[v] = mine[v]
    BY <1>2, HandExists
  <2> QED
    BY <1>2, <2>1 DEF Keeps, BeatsFresh
<1> QED
  BY <1>1, <1>2

\* The clock ages a heartbeat and its worker's silence together.
LEMMA TickBeats ==
  ASSUME Shape, BeatsFresh, Tick
  PROVE  BeatsFresh'
<1> SUFFICES ASSUME NEW w \in Workers, mine'[w] # None, job'[mine'[w]].state \in UnderWay
             PROVE  job'[mine'[w]].hb <= silence'[w]
  BY DEF BeatsFresh
<1>1. mine'[w] = mine[w] /\ mine[w] \in Jobs /\ silence'[w] = silence[w] + 1
  BY HandExists DEF Tick
<1>2. job[mine[w]].state \in UnderWay /\ job'[mine[w]].hb <= job[mine[w]].hb + 1
  BY <1>1, ShapeNumbers DEF Tick, AgeHeartbeats, Older, Numbers
<1>3. job'[mine[w]].hb \in Nat
  BY <1>1, <1>2, ShapeNumbers DEF Tick, AgeHeartbeats, Older, Numbers
<1> QED
  BY <1>1, <1>2, <1>3, ShapeNumbers DEF BeatsFresh, Numbers

\* A beat, whole or half, freshens the heartbeat if the job is still running.
LEMMA BeatBeats ==
  ASSUME Shape, BeatsFresh, NEW w \in Workers, Beat(w) \/ BeatHalf(w)
  PROVE  BeatsFresh'
<1>1. /\ pc[w] \in Beating /\ Heartbeat(mine[w]) /\ mine' = mine
      /\ silence' = silence \/ silence' = [silence EXCEPT ![w] = 0]
  BY DEF Beat, BeatHalf, workerVars
<1>2. mine[w] # None /\ mine[w] \in Jobs /\ Exists(mine[w])
  BY <1>1, HandExists DEF Shape, HandsFit, InHand, Holding
<1>3. CASE job[mine[w]].state = "running"
  <2>1. Keeps(mine[w]) /\ job'[mine[w]].hb = 0
    BY <1>1, <1>2, <1>3, HeartbeatGentle DEF Shape, TypeOK
  <2>2. silence'[w] \in Nat /\ \A v \in Workers \ {w} : silence'[v] = silence[v] /\ mine[v] # mine[w]
    BY <1>1, <1>2, ShapeNumbers DEF Numbers, Shape, TypeOK, WorkerTypeOK, OnePerformer
  <2> QED
    BY <1>1, <1>2, <2>1, <2>2, OwnBeats
<1>4. CASE job[mine[w]].state # "running"
  <2>1. job[mine[w]].state \in Final
    BY <1>1, <1>2, <1>4 DEF Shape, HandsFit, InHand, UnderWay
  <2>2. job' = job
    BY <1>1, <1>4 DEF Heartbeat
  <2> SUFFICES ASSUME NEW v \in Workers, mine'[v] # None, job'[mine'[v]].state \in UnderWay
               PROVE  job'[mine'[v]].hb <= silence'[v]
    BY DEF BeatsFresh
  <2>3. v # w
    BY <1>1, <2>1, <2>2 DEF UnderWay, Final
  <2> QED
    BY <1>1, <2>2, <2>3 DEF BeatsFresh, Shape, TypeOK, WorkerTypeOK
<1> QED
  BY <1>3, <1>4

\* Claiming and starting freshen the heartbeat, putting back lets go of the job.
LEMMA OwnStepBeats ==
  ASSUME Shape, BeatsFresh, NEW w \in Workers,
         (\E j \in Jobs : Claim(w, j)) \/ StartJob(w) \/ PutBack(w)
  PROVE  BeatsFresh'
<1>0. /\ \A v \in Workers \ {w} : mine'[v] = mine[v] /\ silence'[v] = silence[v]
      /\ silence'[w] \in Nat
  BY ShapeNumbers DEF Claim, StartJob, PutBack, LetGo, Shape, TypeOK, WorkerTypeOK, Numbers
<1>1. CASE \E j \in Jobs : Claim(w, j)
  <2>1. PICK j \in Jobs : Claim(w, j)
    BY <1>1
  <2>2. mine'[w] = j
    BY <2>1 DEF Claim, Shape, TypeOK, WorkerTypeOK
  <2> QED
    BY <1>0, <2>1, <2>2, ClaimKeeps, OwnBeats
<1>2. CASE StartJob(w)
  <2>1. \A v \in Workers \ {w} : mine[v] # mine[w]
    BY <1>2 DEF StartJob, Shape, OnePerformer, HandsFit, InHand, Holding
  <2> QED
    BY <1>0, <1>2, <2>1, StartKeeps, OwnBeats
<1>3. CASE PutBack(w)
  <2>1. \A v \in Workers \ {w} : mine[v] # mine[w]
    BY <1>3 DEF PutBack, Shape, OnePerformer, HandsFit, InHand, Holding
  <2> QED
    BY <1>0, <1>3, <2>1, PutBackKeeps, OwnBeats
<1> QED
  BY <1>1, <1>2, <1>3

\* Every step keeps the heartbeats of jobs in hand as fresh as their workers.
LEMMA NextBeats ==
  ASSUME Shape, BeatsFresh, [Next]_vars
  PROVE  BeatsFresh'
<1>1. CASE \/ \E w \in Workers, j \in Jobs : Claim(w, j)
           \/ \E w \in Workers : StartJob(w) \/ PutBack(w)
  BY <1>1, OwnStepBeats
<1>2. CASE Tick
  BY <1>2, TickBeats
<1>3. CASE \E w \in Workers : Beat(w) \/ BeatHalf(w)
  BY <1>3, BeatBeats
<1>4. CASE Gentle /\ Unaged /\ \A w \in Workers :
                  mine'[w] # None => mine'[w] = mine[w] /\ silence'[w] = silence[w]
  BY <1>4, GentleBeats
<1> DEFINE Kept == \A w \in Workers :
                  mine'[w] # None => mine'[w] = mine[w] /\ silence'[w] = silence[w]
<1>5. ASSUME NEW w \in Workers,
             \/ ReapRead(w) \/ ReapOne(w) \/ ReapPass(w) \/ LookAtLocks(w)
             \/ NothingToClaim(w) \/ Begin(w) \/ EnterSection(w) \/ TurnedAway(w) \/ Open(w) \/ Seam(w)
             \/ WorkDone(w) \/ WorkFails(w) \/ LeaveSection(w) \/ LeaveLost(w)
             \/ Quit(w) \/ TellToStop(w)
      PROVE  Kept
  BY <1>5 DEF ReapRead, ReapOne, ReapPass, LookAtLocks, NothingToClaim, Begin, EnterSection, TurnedAway,
     Open, Seam, WorkDone, WorkFails, LeaveSection, LeaveLost, Quit, TellToStop, GoTo, Ends
<1>6. ASSUME NEW w \in Workers, DropCancelled(w) \/ Finish(w) \/ DieWorker(w)
      PROVE  Kept
  BY <1>6 DEF DropCancelled, Finish, DieWorker, LetGo, Shape, TypeOK, WorkerTypeOK
<1>7. ASSUME NEW c \in Terminals,
             \/ \E r \in Resources : TerminalEnter(c, r) \/ TerminalRefused(c, r)
             \/ TerminalLeave(c) \/ DieTerminal(c)
      PROVE  Kept
  BY <1>7 DEF TerminalEnter, TerminalRefused, TerminalLeave, DieTerminal, GoTo
<1>8. CASE (Panel /\ UNCHANGED <<lock, inside, workerVars>>) \/ UNCHANGED vars
  <2>1. Kept
    BY <1>8 DEF workerVars, vars
  <2> QED
    BY <1>1, <1>2, <1>4, <2>1, GentleOrOwn
<1>9. CASE Kept
  BY <1>1, <1>2, <1>4, <1>9, GentleOrOwn
<1> HIDE DEF Kept
<1> QED
  BY <1>1, <1>2, <1>3, <1>5, <1>6, <1>7, <1>8, <1>9 DEF Next, Loop

\* Nobody takes up again a job that has ended or was left behind.
LEMMA GoneStays ==
  ASSUME Shape, [Next]_vars, NEW j \in Jobs, Gone(j)
  PROVE  Gone(j)'
<1>1. Exists(j) /\ job[j].state # "queued"
  BY DEF Gone, InNoHands, Exists, UnderWay, Final
<1>2. ASSUME NEW w \in Workers, mine'[w] = j, mine[w] # j PROVE FALSE
  <2>1. PICK i \in Jobs : Claim(w, i) /\ mine'[w] = i
    BY <1>2, HandsChange, StoreAssumption DEF Jobs
  <2> QED
    BY <1>1, <1>2, <2>1, ClaimKeeps
<1>3. CASE job'[j].state = job[j].state \/ job'[j].state \in Final
  BY <1>2, <1>3 DEF Gone, InNoHands
<1>4. CASE Gentle
  BY <1>1, <1>3, <1>4 DEF Gentle
<1>5. CASE \E w \in Workers, i \in Jobs : Claim(w, i)
  <2>1. PICK w \in Workers, i \in Jobs : Claim(w, i)
    BY <1>5
  <2>2. i # j /\ job'[j] = job[j]
    BY <1>1, <2>1, ClaimKeeps DEF Keeps
  <2> QED
    BY <1>3, <2>2
<1>6. ASSUME NEW w \in Workers, StartJob(w) \/ PutBack(w) PROVE Gone(j)'
  <2>1. mine[w] \in Jobs /\ Keeps(mine[w])
    BY <1>6, StartKeeps, PutBackKeeps
  <2>2. CASE mine[w] # j
    BY <1>3, <2>1, <2>2 DEF Keeps
  <2>3. CASE mine[w] = j
    <3>1. job[j].state \in Final
      BY <2>3 DEF Gone, InNoHands
    <3>2. UNCHANGED job
      BY <1>6, <2>3, <3>1, StartKeeps, PutBackKeeps DEF Final
    <3> QED
      BY <1>3, <3>2
  <2> QED
    BY <2>2, <2>3
<1> QED
  BY <1>4, <1>5, <1>6, GentleOrOwn

\* A silence longer than any a living worker keeps: nobody has the job.
LEMMA SilentIsGone ==
  ASSUME Shape, BeatsFresh, NEW j \in Jobs, NEW minutes \in Nat, MaxSilence <= minutes,
         IsQuiet(j, minutes)
  PROVE  Gone(j)
<1> SUFFICES ASSUME NEW w \in Workers, mine[w] = j PROVE FALSE
  BY DEF IsQuiet, Gone, InNoHands
<1>1. mine[w] # None
  BY StoreAssumption DEF Jobs
<1>2. job[j].hb <= silence[w] /\ job[j].hb > minutes
  BY <1>1 DEF BeatsFresh, IsQuiet
<1> QED
  BY <1>2, ShapeNumbers, WorkerAssumption DEF Numbers

\* A job under way in somebody's hands was heard of within MaxSilence.
LEMMA HeardOfOrGone ==
  ASSUME Shape, BeatsFresh, NEW j \in Jobs, job[j].state \in UnderWay
  PROVE  Gone(j) \/ job[j].hb <= MaxSilence
<1>1. job[j].hb \in Nat
  BY DEF Shape, TypeOK, StoreTypeOK, Documents
<1>2. CASE job[j].hb > MaxSilence
  BY <1>2, SilentIsGone, WorkerAssumption DEF IsQuiet
<1> QED
  BY <1>1, <1>2, WorkerAssumption

\* Every step but a reading leaves the lists of reap_stale alone or shorter.
LEMMA ListsShrink ==
  ASSUME Shape, [Next]_vars, NEW w \in Workers, ~ReapRead(w)
  PROVE  stale'[w].list \subseteq stale[w].list
<1> USE DEF Shape, TypeOK, WorkerTypeOK
<1>1. CASE UNCHANGED stale
  BY <1>1
<1>2. ASSUME NEW v \in Workers,
             ReapRead(v) \/ ReapOne(v) \/ ReapPass(v) \/ LookAtLocks(v)
      PROVE  stale'[w].list \subseteq stale[w].list
  BY <1>2, ListType
<1>3. ASSUME NEW v \in Workers, DieWorker(v)
      PROVE  stale'[w].list \subseteq stale[w].list
  BY <1>3 DEF DieWorker, NothingRead
<1>4. CASE Tick
  BY <1>4 DEF Tick
<1> QED
  BY <1>1, <1>2, <1>3, <1>4
  DEF Next, Loop, NothingToClaim, Claim, DropCancelled, StartJob, Begin, EnterSection,
      TurnedAway, Open, Seam, WorkDone, WorkFails, LeaveSection, LeaveLost, Finish, PutBack,
      Quit, TellToStop, GoTo, Ends, Beat, BeatHalf, TerminalEnter, TerminalRefused,
      TerminalLeave, DieTerminal, workerVars, vars

\* Every step keeps what reap_stale has read fresh: nobody takes up a job that
\* is gone, and what is read of the others is as fresh as they beat.
LEMMA NextReadings ==
  ASSUME Shape, BeatsFresh, ReadIsFresh, [Next]_vars
  PROVE  ReadIsFresh'
<1> SUFFICES ASSUME NEW w \in Workers, NEW found \in stale'[w].list
             PROVE  Gone(found.job)' \/ found.hb <= MaxSilence
  BY DEF ReadIsFresh
<1>1. found.job \in Jobs /\ (Gone(found.job) \/ found.hb <= MaxSilence)
  <2>1. CASE ReapRead(w)
    BY <2>1, ReadingType, HeardOfOrGone DEF Readings
  <2>2. CASE ~ReapRead(w)
    BY <2>2, ListsShrink DEF ReadIsFresh, Shape, TypeOK, WorkerTypeOK, Readings
  <2> QED
    BY <2>1, <2>2
<1> QED
  BY <1>1, GoneStays

\* At first nothing has been read and no job is in hand.
LEMMA InitVerdicts == Init => BeatsFresh /\ ReadIsFresh
BY DEF Init, BeatsFresh, ReadIsFresh, NothingRead

\* What reap_stale finds overdue soon enough after reading it is in nobody's hands.
LEMMA OverdueIsGone ==
  ASSUME MaxSilence + MaxStall <= Lease, Shape, ReadIsFresh,
         NEW w \in Workers, NEW found \in stale[w].list, Overdue(w, found)
  PROVE  Gone(found.job)
<1>1. /\ found.hb \in Nat
      /\ stale[w].stall \in Nat /\ stale[w].stall <= MaxStall
  BY WorkerAssumption DEF Shape, TypeOK, WorkerTypeOK, Readings
<1>2. ~(found.hb <= MaxSilence)
  BY <1>1, WorkerAssumption, LocksAssumption DEF Overdue
<1> QED
  BY <1>2 DEF ReadIsFresh

\* The steps of reap_stale write verdicts about jobs in nobody's hands.
LEMMA ReapSpares ==
  ASSUME MaxSilence + MaxStall <= Lease, Shape, ReadIsFresh,
         NEW w \in Workers, NEW v \in Workers, ReapOne(w), mine[v] # None
  PROVE  job'[mine[v]] = job[mine[v]]
<1>1. PICK found \in stale[w].list : Overdue(w, found) /\ Settle(found.job, found.verdict)
  BY DEF ReapOne
<1>2. /\ found.job \in Jobs /\ found.verdict \in Final /\ Exists(found.job)
      /\ StoreTypeOK
  BY DEF Shape, TypeOK, WorkerTypeOK, VerdictsFit, Readings, Verdicts, Final
<1>3. mine[v] \in Jobs
  BY HandExists
<1>4. CASE mine[v] # found.job
  BY <1>1, <1>2, <1>3, <1>4, SettleGentle DEF Keeps
<1>5. CASE mine[v] = found.job
  <2>1. Gone(found.job)
    BY <1>1, OverdueIsGone
  <2>2. job[found.job].state \in Final
    BY <1>5, <2>1 DEF Gone, InNoHands
  <2> QED
    BY <1>1, <1>5, <2>2 DEF Settle
<1> QED
  BY <1>4, <1>5

\* store.reap_stale settles no job a living worker has in hand, although each
\* document is judged some time after all were read, if that time and the longest
\* silence of a worker fit into a lease.
THEOREM ReapSparesTheLiving ==
  ASSUME MaxSilence + MaxStall <= Lease
  PROVE  Spec => LiveIsNotReaped
<1>1. Init => Shape /\ BeatsFresh /\ ReadIsFresh
  BY InitShape, InitVerdicts
<1>2. Shape /\ BeatsFresh /\ ReadIsFresh /\ [Next]_vars
         => (Shape /\ BeatsFresh /\ ReadIsFresh)'
  BY NextShape, NextBeats, NextReadings
<1>3. Shape /\ BeatsFresh /\ ReadIsFresh /\ [Next]_vars
         => [\A w, v \in Workers : ReapOne(w) /\ mine[v] # None
                => job'[mine[v]] = job[mine[v]]]_vars
  BY ReapSpares
<1> QED
  BY <1>1, <1>2, <1>3, PTL DEF Spec, LiveIsNotReaped

-----------------------------------------------------------------------------

\* Every step keeps the verdict of the panel about a job that is gone.
LEMMA NextGivenUp ==
  ASSUME MaxSilence <= Quiet, Shape, BeatsFresh, GivenUpAreGone, [Next]_vars
  PROVE  GivenUpAreGone'
<1> SUFFICES ASSUME NEW j \in Jobs, desk'.op = "judged", desk'.job = j PROVE Gone(j)'
  BY DEF GivenUpAreGone
<1>1. CASE UNCHANGED desk
  BY <1>1, GoneStays DEF GivenUpAreGone
<1>2. CASE GiveUpRead
  <2>1. MayGiveUp(j, desk.busy)
    BY <1>2 DEF GiveUpRead, Desk, FreeDesk
  <2>2. Gone(j)
    BY <2>1, SilentIsGone, StoreAssumption DEF MayGiveUp
  <2> QED
    BY <2>2, GoneStays
<1>3. CASE Panel /\ ~GiveUpRead
  BY <1>1, <1>3 DEF Panel, Schedule, Repeat, CancelFirst, CancelSecond, GiveUpLook,
     GiveUpSettle, Desk, FreeDesk
<1> QED
  BY <1>1, <1>2, <1>3 DEF Next, Loop, ReapRead, ReapOne, ReapPass, LookAtLocks, NothingToClaim,
     Claim, DropCancelled, StartJob, Begin, EnterSection, TurnedAway, Open, Seam, WorkDone, WorkFails,
     LeaveSection, LeaveLost, Finish, PutBack, Quit, Beat, BeatHalf, TellToStop, DieWorker,
     TerminalEnter, TerminalRefused, TerminalLeave, DieTerminal, Tick, vars

\* The panel writes its verdict about a job in nobody's hands.
LEMMA GiveUpSpares ==
  ASSUME Shape, GivenUpAreGone, NEW w \in Workers, GiveUpSettle, mine[w] # None
  PROVE  job'[mine[w]] = job[mine[w]]
<1>1. PICK j \in Jobs : desk.job = j /\ desk.op = "judged" /\ Settle(j, desk.verdict)
  BY DEF GiveUpSettle, Shape, VerdictsFit, DeskFits
<1>2. /\ desk.verdict \in Final /\ Exists(j) /\ Gone(j)
      /\ StoreTypeOK
  BY <1>1 DEF GivenUpAreGone, Shape, TypeOK, VerdictsFit, DeskFits, Verdicts, Final
<1>3. mine[w] \in Jobs
  BY HandExists
<1>4. CASE mine[w] # j
  BY <1>1, <1>2, <1>3, <1>4, SettleGentle DEF Keeps
<1>5. CASE mine[w] = j
  <2>1. job[j].state \in Final
    BY <1>2, <1>5 DEF Gone, InNoHands
  <2> QED
    BY <1>1, <1>5, <2>1 DEF Settle
<1> QED
  BY <1>4, <1>5

\* store.give_up settles no job a living worker has in hand, provided a living
\* worker is never silent for longer than QUIET_MINUTES.
THEOREM GiveUpSparesTheLiving ==
  ASSUME MaxSilence <= Quiet
  PROVE  Spec => LiveIsNotGivenUp
<1>1. Init => Shape /\ BeatsFresh /\ GivenUpAreGone
  BY InitShape, InitVerdicts DEF Init, PanelInit, FreeDesk, Desk, GivenUpAreGone
<1>2. Shape /\ BeatsFresh /\ GivenUpAreGone /\ [Next]_vars
         => (Shape /\ BeatsFresh /\ GivenUpAreGone)'
  BY NextShape, NextBeats, NextGivenUp
<1>3. Shape /\ BeatsFresh /\ GivenUpAreGone /\ [Next]_vars
         => [\A w \in Workers : GiveUpSettle /\ mine[w] # None
                => job'[mine[w]] = job[mine[w]]]_vars
  BY GiveUpSpares
<1> QED
  BY <1>1, <1>2, <1>3, PTL DEF Spec, LiveIsNotGivenUp

-----------------------------------------------------------------------------
(* A job asked to stop in time.                                            *)

\* Before the start, the worker with the job has yet to ask.
LEMMA AskedIsDoomed ==
  ASSUME Shape, NEW j \in Jobs, AskedBeforeStart(j)
  PROVE  Doomed(j)
<1> SUFFICES ASSUME NEW w \in Workers, mine[w] = j PROVE Headed(w)
  BY DEF AskedBeforeStart, Doomed
<1>1. InHand(w) /\ mine[w] # None
  BY StoreAssumption DEF Shape, HandsFit, Jobs
<1> QED
  BY <1>1 DEF AskedBeforeStart, InHand, Holding, UnderWay, Final, Headed

\* A doomed job in other hands, or whose worker stays where it is.
LEMMA DoomedKept ==
  ASSUME Shape, [Next]_vars, NEW j \in Jobs, Doomed(j),
         job'[j].cancel,
         job'[j].state = job[j].state \/ job'[j].state \in Verdicts,
         job'[j].run = job[j].run,
         \A w \in Workers : mine'[w] = j =>
            mine[w] = j /\ pc'[w] = pc[w] /\ outcome'[w] = outcome[w] /\ part'[w] = part[w]
  PROVE  Doomed(j)'
<1> SUFFICES ASSUME NEW w \in Workers, mine'[w] = j, job'[j].state \notin Final
             PROVE  Headed(w)'
  BY DEF Doomed, Verdicts
<1>1. Headed(w) /\ job[j].state \notin Final
  BY DEF Doomed, Verdicts, Final
<1> QED
  BY <1>1 DEF Headed, Part, Parts

\* A step of the worker that has the job in hand.
LEMMA DoomedInHand ==
  ASSUME Shape, [Next]_vars, NEW j \in Jobs, Doomed(j), NEW w \in Workers, mine'[w] = j,
         UNCHANGED <<job, mine>>,
         job[j].state \notin Final => Headed(w)'
  PROVE  Doomed(j)'
<1> SUFFICES ASSUME NEW v \in Workers, mine'[v] = j, job'[j].state \notin Final
             PROVE  Headed(v)'
  BY DEF Doomed
<1>1. v = w
  BY StoreAssumption DEF Shape, OnePerformer, Jobs
<1> QED
  BY <1>1

\* One document rewritten, its flag kept.
LEMMA FlagKept ==
  ASSUME Shape, NEW j \in Jobs, job[j].cancel, NEW i \in Jobs, NEW s, NEW h, NEW c,
         Rewrite(i, s, h, c), i = j => c
  PROVE  /\ job'[j].cancel /\ job'[j].run = job[j].run
         /\ job'[j].state = IF i = j THEN s ELSE job[j].state
BY DEF Rewrite, Shape, TypeOK, StoreTypeOK

\* A verdict about any job keeps the flag of this one.
LEMMA SettleKept ==
  ASSUME Shape, NEW j \in Jobs, job[j].cancel, NEW i \in Jobs, NEW s, Settle(i, s)
  PROVE  /\ job'[j].cancel /\ job'[j].run = job[j].run
         /\ \/ job'[j].state = job[j].state
            \/ i = j /\ job'[j].state = s
BY FlagKept DEF Settle

\* Steps of a worker between jobs, of the reaper and of a process that ends.
LEMMA DoomedIdle ==
  ASSUME Shape, [Next]_vars, NEW j \in Jobs, Doomed(j), NEW w \in Workers,
         \/ ReapRead(w) \/ ReapOne(w) \/ ReapPass(w) \/ LookAtLocks(w) \/ NothingToClaim(w)
         \/ Quit(w) \/ TellToStop(w) \/ DieWorker(w)
  PROVE  Doomed(j)'
<1>1. job[j].cancel
  BY DEF Doomed
<1>2. /\ job'[j].cancel /\ job'[j].run = job[j].run
      /\ job'[j].state = job[j].state \/ job'[j].state \in Verdicts
  <2>1. CASE ReapOne(w)
    <3>1. PICK found \in stale[w].list : Settle(found.job, found.verdict)
      BY <2>1 DEF ReapOne
    <3>2. found.job \in Jobs /\ found.verdict \in Verdicts
      BY DEF Shape, TypeOK, WorkerTypeOK, Readings
    <3> QED
      BY <1>1, <3>1, <3>2, SettleKept
  <2>2. CASE UNCHANGED job
    BY <1>1, <2>2
  <2> QED
    BY <2>1, <2>2 DEF ReapRead, ReapPass, LookAtLocks, NothingToClaim, Quit, TellToStop, DieWorker
<1>3. /\ \A v \in Workers \ {w} : /\ mine'[v] = mine[v] /\ pc'[v] = pc[v]
                                   /\ outcome'[v] = outcome[v] /\ part'[v] = part[v]
      /\ mine'[w] = j => mine[w] = j
      /\ pc[w] \in Holding /\ mine'[w] = j =>
            pc'[w] = pc[w] /\ outcome'[w] = outcome[w] /\ part'[w] = part[w]
  <2> USE DEF Shape, TypeOK, WorkerTypeOK
  <2>1. CASE DieWorker(w)
    BY <2>1, WorkerAssumption, StoreAssumption DEF DieWorker, Jobs
  <2>2. CASE ReapRead(w) \/ LookAtLocks(w) \/ NothingToClaim(w) \/ Quit(w)
    BY <2>2, WorkerAssumption DEF ReapRead, LookAtLocks, NothingToClaim, Quit, GoTo, Holding, Beating
  <2>3. CASE ReapOne(w) \/ ReapPass(w) \/ TellToStop(w)
    BY <2>3 DEF ReapOne, ReapPass, TellToStop
  <2> QED
    BY <2>1, <2>2, <2>3
<1>4. mine[w] = j => pc[w] \in Holding
  BY StoreAssumption DEF Shape, HandsFit, InHand, Jobs
<1> QED
  BY <1>2, <1>3, <1>4, DoomedKept

\* The steps of the worker inside the job, from its first report to its end.
LEMMA DoomedInside ==
  ASSUME Shape, [Next]_vars, NEW j \in Jobs, Doomed(j), NEW w \in Workers,
         \/ Begin(w) \/ EnterSection(w) \/ TurnedAway(w) \/ Open(w) \/ Seam(w)
         \/ WorkDone(w) \/ WorkFails(w) \/ LeaveSection(w) \/ LeaveLost(w)
  PROVE  Doomed(j)'
<1>0. /\ w \in Procs /\ pc \in [Procs -> Idle \cup Holding \cup {"gone"}]
      /\ outcome \in [Workers -> Outcomes] /\ part \in [Workers -> 1 .. 3]
      /\ job[j].cancel
  BY WorkerAssumption DEF Shape, TypeOK, WorkerTypeOK, Doomed
<1>1. UNCHANGED <<job, mine>>
  BY DEF Begin, EnterSection, TurnedAway, Open, Seam, WorkDone, WorkFails, LeaveSection,
     LeaveLost, GoTo, Ends
<1>2. \A v \in Workers \ {w} :
         pc'[v] = pc[v] /\ outcome'[v] = outcome[v] /\ part'[v] = part[v]
  BY <1>0, WorkerAssumption DEF Begin, EnterSection, TurnedAway, Open, Seam, WorkDone,
     WorkFails, LeaveSection, LeaveLost, GoTo, Ends
<1>3. CASE mine[w] # j
  BY <1>0, <1>1, <1>2, <1>3, DoomedKept
<1>4. CASE mine[w] = j
  <2> SUFFICES ASSUME job[j].state \notin Final PROVE Headed(w)'
    BY <1>1, <1>4, DoomedInHand
  <2>0. Headed(w)
    BY <1>4 DEF Doomed
  <2>1. CASE Begin(w)
    BY <1>0, <1>4, <2>1 DEF Begin, Ends, Headed
  <2>2. CASE EnterSection(w)
    BY <1>0, <1>1, <2>0, <2>2 DEF EnterSection, GoTo, Headed, Part, Parts
  <2>3. CASE TurnedAway(w) \/ Seam(w) \/ WorkFails(w) \/ LeaveLost(w)
    BY <1>0, <2>3 DEF TurnedAway, Seam, WorkFails, LeaveLost, Ends, Headed
  <2>4. CASE Open(w)
    BY <1>0, <1>4, <2>4 DEF Open, Ends, Headed
  <2>5. CASE WorkDone(w)
    BY <2>0, <2>5 DEF WorkDone, Headed
  <2>6. CASE LeaveSection(w)
    BY <1>0, <2>0, <2>6 DEF LeaveSection, Headed
  <2> QED
    BY <2>1, <2>2, <2>3, <2>4, <2>5, <2>6
<1> QED
  BY <1>3, <1>4

\* The ends of a job: the one in hand is recorded as its worker was headed.
LEMMA DoomedReleased ==
  ASSUME Shape, [Next]_vars, NEW j \in Jobs, Doomed(j), NEW w \in Workers,
         DropCancelled(w) \/ Finish(w) \/ PutBack(w)
  PROVE  Doomed(j)'
<1>0. /\ w \in Procs /\ mine[w] \in Jobs /\ job[j].cancel
      /\ outcome \in [Workers -> Outcomes]
  BY WorkerAssumption, HandExists DEF DropCancelled, Finish, PutBack, Doomed,
     Shape, TypeOK, WorkerTypeOK, HandsFit, InHand, Holding
<1>1. /\ mine'[w] = None
      /\ \A v \in Workers \ {w} : /\ mine'[v] = mine[v] /\ pc'[v] = pc[v]
                                   /\ outcome'[v] = outcome[v] /\ part'[v] = part[v]
  BY WorkerAssumption DEF DropCancelled, Finish, PutBack, LetGo, Shape, TypeOK, WorkerTypeOK
<1>2. \A v \in Workers : mine'[v] = j => v # w
  BY <1>1, StoreAssumption DEF Jobs
<1>3. /\ job'[j].cancel /\ job'[j].run = job[j].run
      /\ job'[j].state \notin {"absent", "done"}
      /\ mine[w] # j => job'[j].state = job[j].state
  <2>1. CASE DropCancelled(w)
    BY <1>0, <2>1, SettleKept DEF DropCancelled, Doomed
  <2>2. CASE Finish(w)
    <3>1. CASE mine[w] = j /\ job[j].state \notin Final
      <4>1. Headed(w)
        BY <3>1 DEF Doomed
      <4>2. outcome[w] \in Verdicts /\ Settle(j, outcome[w])
        BY <1>0, <2>2, <3>1, <4>1 DEF Finish, Headed, Outcomes, Verdicts
      <4> QED
        BY <1>0, <3>1, <4>2, SettleKept DEF Doomed, Verdicts
    <3>2. CASE mine[w] = j /\ job[j].state \in Final
      BY <1>0, <2>2, <3>2 DEF Finish, Settle, Doomed
    <3>3. CASE mine[w] # j
      BY <1>0, <2>2, <3>3, SettleKept DEF Finish, Doomed
    <3> QED
      BY <3>1, <3>2, <3>3
  <2>3. CASE PutBack(w)
    <3>1. CASE UNCHANGED job
      BY <1>0, <3>1 DEF Doomed
    <3>2. CASE Rewrite(mine[w], "queued", 0, job[mine[w]].cancel)
      BY <1>0, <3>2, FlagKept DEF Doomed
    <3> QED
      BY <2>3, <3>1, <3>2 DEF PutBack, Requeue
  <2> QED
    BY <2>1, <2>2, <2>3
<1>4. CASE mine[w] = j
  <2>1. \A v \in Workers : mine'[v] # j
    BY <1>1, <1>2, <1>4, StoreAssumption DEF Shape, OnePerformer, Jobs
  <2> QED
    BY <1>3, <2>1 DEF Doomed
<1>5. CASE mine[w] # j
  BY <1>0, <1>1, <1>2, <1>3, <1>5, DoomedKept
<1> QED
  BY <1>4, <1>5

\* Claiming a job that carries the flag, and starting one that got it since.
LEMMA DoomedTaken ==
  ASSUME Shape, [Next]_vars, NEW j \in Jobs, Doomed(j), NEW w \in Workers,
         (\E i \in Jobs : Claim(w, i)) \/ StartJob(w)
  PROVE  Doomed(j)'
<1>0. /\ w \in Procs /\ job[j].cancel
      /\ pc \in [Procs -> Idle \cup Holding \cup {"gone"}]
      /\ mine \in [Workers -> Jobs \cup {None}]
  BY WorkerAssumption DEF Doomed, Shape, TypeOK, WorkerTypeOK
<1>1. CASE \E i \in Jobs : Claim(w, i)
  <2>1. PICK i \in Jobs : Claim(w, i)
    BY <1>1
  <2>2. /\ job'[j].cancel /\ job'[j].run = job[j].run
        /\ job'[j].state = IF i = j THEN "claimed" ELSE job[j].state
    BY <1>0, <2>1, FlagKept DEF Claim, MarkClaimed
  <2>3. /\ mine'[w] = i
        /\ \A v \in Workers \ {w} : /\ mine'[v] = mine[v] /\ pc'[v] = pc[v]
                                     /\ outcome'[v] = outcome[v] /\ part'[v] = part[v]
    BY <1>0, <2>1, WorkerAssumption DEF Claim
  <2>4. CASE i # j
    BY <2>2, <2>3, <2>4, DoomedKept
  <2>5. CASE i = j
    <3>1. pc'[w] \in {"dropping", "starting"}
      BY <1>0, <2>1 DEF Claim
    <3>2. \A v \in Workers : mine'[v] = j => v = w
      BY <2>1, <2>3, <2>5, ClaimKeeps
    <3> QED
      BY <2>2, <2>5, <3>1, <3>2 DEF Doomed, Headed
  <2> QED
    BY <2>4, <2>5
<1>2. CASE StartJob(w)
  <2>0. /\ mine[w] \in Jobs
        /\ \A v \in Workers \ {w} : /\ mine'[v] = mine[v] /\ pc'[v] = pc[v]
                                     /\ outcome'[v] = outcome[v] /\ part'[v] = part[v]
    BY ZenonT(60), <1>0, <1>2, StartKeeps, WorkerAssumption DEF StartJob, LetGo, Shape, TypeOK, WorkerTypeOK
  <2>1. CASE LetGo(w) /\ UNCHANGED job
    <3>1. mine'[w] = None
      BY <1>0, <2>1 DEF LetGo
    <3>2. \A v \in Workers : mine'[v] = j => v # w
      BY <3>1, StoreAssumption DEF Jobs
    <3> QED
      BY <1>0, <2>0, <2>1, <3>2, DoomedKept
  <2>2. CASE /\ job[mine[w]].state = "claimed" /\ MarkRunning(mine[w])
             /\ pc' = [pc EXCEPT ![w] = FirstStep(Part(w))]
             /\ UNCHANGED <<mine, part, outcome>>
    <3>1. /\ job'[j].cancel /\ job'[j].run = job[j].run
          /\ job'[j].state = IF mine[w] = j THEN "running" ELSE job[j].state
      BY <1>0, <2>0, <2>2, FlagKept DEF MarkRunning
    <3>2. CASE mine[w] # j
      BY <2>0, <2>2, <3>1, <3>2, DoomedKept
    <3>3. CASE mine[w] = j
      <4>1. Part(w)' = Part(w)
        BY <2>2, <3>1, <3>3 DEF Part, Parts
      <4>2. Headed(w)'
        BY <1>0, <2>2, <4>1 DEF FirstStep, Headed
      <4>3. \A v \in Workers : mine'[v] = j => v = w
        BY <2>2, <3>3, StoreAssumption DEF Shape, OnePerformer, Jobs
      <4> QED
        BY <3>1, <3>3, <4>2, <4>3 DEF Doomed
    <3> QED
      BY <3>2, <3>3
  <2> QED
    BY <1>2, <2>1, <2>2 DEF StartJob
<1> QED
  BY <1>1, <1>2

\* The steps of everybody else: nobody's place in a job changes.
LEMMA DoomedAside ==
  ASSUME Shape, [Next]_vars, NEW j \in Jobs, Doomed(j),
         \/ \E w \in Workers : Beat(w) \/ BeatHalf(w)
         \/ \E c \in Terminals :
              \/ \E r \in Resources : TerminalEnter(c, r) \/ TerminalRefused(c, r)
              \/ TerminalLeave(c) \/ DieTerminal(c)
         \/ Panel /\ UNCHANGED <<lock, inside, workerVars>>
         \/ Tick
         \/ UNCHANGED vars
  PROVE  Doomed(j)'
<1>0. job[j].cancel /\ job \in [Jobs -> Documents] /\ Exists(j)
  BY DEF Doomed, Exists, Shape, TypeOK, StoreTypeOK
<1>1. \A w \in Workers : /\ mine'[w] = mine[w] /\ pc'[w] = pc[w]
                         /\ outcome'[w] = outcome[w] /\ part'[w] = part[w]
  BY WorkerAssumption DEF Beat, BeatHalf, TerminalEnter, TerminalRefused, TerminalLeave,
     DieTerminal, GoTo, Tick, workerVars, vars, Shape, TypeOK, WorkerTypeOK
<1> DEFINE Kept == /\ job'[j].cancel /\ job'[j].run = job[j].run
                   /\ job'[j].state = job[j].state \/ job'[j].state \in Verdicts
<1>2. CASE UNCHANGED job
  BY <1>0, <1>1, <1>2, DoomedKept
<1>3. CASE \E w \in Workers : Beat(w) \/ BeatHalf(w)
  <2>1. PICK w \in Workers : Beat(w) \/ BeatHalf(w)
    BY <1>3
  <2>2. Heartbeat(mine[w]) /\ mine[w] \in Jobs
    BY <2>1, HandExists DEF Beat, BeatHalf, Shape, HandsFit, InHand, Holding
  <2>3. Kept
    BY <1>0, <2>2, FlagKept DEF Heartbeat
  <2> QED
    BY <1>1, <2>3, DoomedKept
<1>4. CASE Tick
  <2>1. Kept
    BY <1>0, <1>4 DEF Tick, AgeHeartbeats
  <2> QED
    BY <1>1, <2>1, DoomedKept
<1>5. CASE Panel
  <2>1. ASSUME NEW i \in Jobs, NEW run, Insert(i, run) PROVE Kept
    BY <1>0, <2>1 DEF Insert
  <2>2. ASSUME NEW i \in Jobs, CancelQueued(i) PROVE Kept
    BY <1>0, <2>2, FlagKept DEF CancelQueued, Verdicts
  <2>3. ASSUME CancelSecond PROVE Kept
    <3>1. desk.job \in Jobs
      BY <2>3 DEF CancelSecond, Shape, VerdictsFit, DeskFits
    <3> QED
      BY <1>0, <2>3, <3>1, FlagKept DEF CancelSecond, FlagUnderWay
  <2>4. ASSUME GiveUpSettle PROVE Kept
    <3>1. desk.job \in Jobs /\ desk.verdict \in Verdicts
      BY <2>4 DEF GiveUpSettle, Shape, VerdictsFit, DeskFits
    <3> QED
      BY <1>0, <2>4, <3>1, SettleKept DEF GiveUpSettle
  <2>5. UNCHANGED job => Kept
    BY <1>0
  <2>6. Kept
    BY <1>5, <2>1, <2>2, <2>3, <2>4, <2>5
    DEF Panel, Schedule, Repeat, CancelFirst, GiveUpLook, GiveUpRead
  <2> QED
    BY <1>1, <2>6, DoomedKept
<1> QED
  BY <1>2, <1>3, <1>4, <1>5 DEF TerminalEnter, TerminalRefused, TerminalLeave, DieTerminal, vars

\* Every step keeps a doomed job doomed.
LEMMA DoomedStays ==
  ASSUME Shape, [Next]_vars, NEW j \in Jobs, Doomed(j)
  PROVE  Doomed(j)'
BY DoomedIdle, DoomedInside, DoomedReleased, DoomedTaken, DoomedAside DEF Next, Loop

\* A job asked to stop before its worker started it never ends as done, however
\* often it is put back (store.requeue, run_once, worker._perform).
THEOREM AskedInTimeIsNotDone == Spec => StoppedBeforeStart
<1> SUFFICES ASSUME NEW j \in Jobs
             PROVE  Spec => [](AskedBeforeStart(j) => [](job[j].state # "done"))
  BY DEF StoppedBeforeStart
<1>1. Shape /\ AskedBeforeStart(j) => Doomed(j)
  BY AskedIsDoomed
<1>2. Shape /\ Doomed(j) /\ [Next]_vars => Doomed(j)'
  BY DoomedStays
<1>3. Doomed(j) => job[j].state # "done"
  BY DEF Doomed
<1> QED
  BY <1>1, <1>2, <1>3, InitShape, NextShape, PTL DEF Spec

-----------------------------------------------------------------------------
(***************************************************************************)
(* That the lock under a piece of work is live and its worker's own, from  *)
(* LocksFresh: its age is bounded by the silence of a worker that renews it *)
(* and by the lease for work that nobody renews; and that JobWorker         *)
(* implements JobTurns: the initial states map to the initial state, and   *)
(* every step maps to an abstract step or to none.                         *)
(***************************************************************************)

\* The lock under a piece of work is live, because its age is bounded.
LEMMA FreshIsHeld ==
  ASSUME Shape, LocksFresh, NEW p \in Procs, inside[p] # None
  PROVE  inside[p] \in Resources /\ Live(inside[p]) /\ lock[inside[p]].owner = p
<1>1. inside[p] \in Resources /\ lock[inside[p]].age \in 0 .. Lease + 1
  BY DEF Shape, TypeOK, LocksTypeOK, Rows
<1>2. lock[inside[p]].owner = p /\ lock[inside[p]].age <= AgeBound(p)
  BY DEF LocksFresh
<1>3. AgeBound(p) \in Nat /\ AgeBound(p) <= Lease
  BY LocksAssumption, WorkerAssumption DEF AgeBound, Shape, TypeOK, WorkerTypeOK
<1>4. lock[inside[p]].age <= Lease
  BY <1>1, <1>2, <1>3, LocksAssumption
<1> QED
  BY <1>1, <1>2, <1>4, LocksAssumption DEF Live

\* Work under way whose lock, worker and job are left alone.
LEMMA FreshKept ==
  ASSUME Shape, LocksFresh, [Next]_vars, NEW p \in Procs,
         inside[p] # None, inside'[p] = inside[p],
         lock'[inside[p]] = lock[inside[p]],
         p \in Workers => mine'[p] = mine[p] /\ silence'[p] = silence[p]
  PROVE  /\ lock'[inside'[p]].owner = p
         /\ lock'[inside'[p]].age <= AgeBound(p)'
<1>1. p \in Workers => Resource(mine[p])' = Resource(mine[p])
  <2> SUFFICES ASSUME p \in Workers PROVE Resource(mine[p])' = Resource(mine[p])
    OBVIOUS
  <2>1. mine[p] \in Jobs /\ Exists(mine[p])
    BY HandExists DEF Shape, HandsFit, InHand, Holding, Beating
  <2>2. job'[mine[p]].run = job[mine[p]].run
    BY <2>1, RunsKept
  <2> QED
    BY <2>2 DEF Resource
<1>2. AgeBound(p)' = AgeBound(p)
  BY <1>1 DEF AgeBound, Beaten
<1> QED
  BY <1>2 DEF LocksFresh

\* A step that touches neither the lock table nor anybody's work.
LEMMA AsideFresh ==
  ASSUME Shape, LocksFresh, [Next]_vars, UNCHANGED lockVars,
         \A w \in Workers : inside[w] # None => mine'[w] = mine[w] /\ silence'[w] = silence[w]
  PROVE  LocksFresh'
<1> SUFFICES ASSUME NEW p \in Procs, inside'[p] # None
             PROVE  /\ lock'[inside'[p]].owner = p
                    /\ lock'[inside'[p]].age <= AgeBound(p)'
  BY DEF LocksFresh
<1> QED
  BY FreshKept DEF lockVars

\* Entering a section: the new lock is fresh, and was nobody's section.
LEMMA EnterFresh ==
  ASSUME Shape, LocksFresh, [Next]_vars, NEW p \in Procs, NEW r \in Resources \cup {None},
         Enter(p, r), UNCHANGED <<mine, silence>>
  PROVE  LocksFresh'
<1> SUFFICES ASSUME NEW q \in Procs, inside'[q] # None
             PROVE  /\ lock'[inside'[q]].owner = q
                    /\ lock'[inside'[q]].age <= AgeBound(q)'
  BY DEF LocksFresh
<1>1. /\ lock \in [Resources -> Rows] /\ inside \in [Procs -> Resources \cup {None}]
      /\ silence \in [Workers -> 0 .. MaxSilence]
  BY DEF Shape, TypeOK, LocksTypeOK, WorkerTypeOK
<1>2. CASE q = p
  <2>1. inside'[q] = r /\ r \in Resources
    BY <1>1, <1>2 DEF Enter
  <2>2. lock'[r].owner = p /\ lock'[r].age = 0
    BY <1>1, <2>1 DEF Enter, Acquire
  <2>3. AgeBound(q)' >= 0
    BY <1>1, LocksAssumption, WorkerAssumption DEF AgeBound
  <2> QED
    BY <1>2, <2>1, <2>2, <2>3
<1>3. CASE q # p
  <2>1. inside'[q] = inside[q]
    BY <1>1, <1>3 DEF Enter
  <2>2. inside[q] # r
    BY <2>1, FreshIsHeld DEF Enter, Acquire
  <2>3. lock'[inside[q]] = lock[inside[q]]
    BY <1>1, <2>1, <2>2 DEF Enter, Acquire
  <2> QED
    BY <2>1, <2>3, FreshKept
<1> QED
  BY <1>2, <1>3

\* Leaving or abandoning a section takes away nobody else's lock.
LEMMA LeaveFresh ==
  ASSUME Shape, LocksFresh, [Next]_vars, NEW p \in Procs, Leave(p) \/ Abandon(p),
         \A w \in Workers \ {p} : mine'[w] = mine[w] /\ silence'[w] = silence[w]
  PROVE  LocksFresh'
<1> SUFFICES ASSUME NEW q \in Procs, inside'[q] # None
             PROVE  /\ lock'[inside'[q]].owner = q
                    /\ lock'[inside'[q]].age <= AgeBound(q)'
  BY DEF LocksFresh
<1>1. /\ lock \in [Resources -> Rows] /\ inside \in [Procs -> Resources \cup {None}]
  BY DEF Shape, TypeOK, LocksTypeOK
<1>2. q # p /\ inside'[q] = inside[q]
  BY <1>1 DEF Leave, Abandon
<1>3. lock[inside[q]].owner = q
  BY <1>2 DEF LocksFresh
<1>4. lock'[inside[q]] = lock[inside[q]]
  <2>1. CASE inside[p] = inside[q]
    BY <1>2, <1>3, <2>1 DEF Leave, Release, Abandon
  <2>2. CASE inside[p] # inside[q]
    BY <1>1, <1>2, <2>2 DEF Leave, Release, Abandon
  <2> QED
    BY <2>1, <2>2
<1> QED
  BY <1>2, <1>4, FreshKept

\* A full beat renews the lock its worker stands on, or none at all.
LEMMA BeatFresh ==
  ASSUME Shape, LocksFresh, [Next]_vars, NEW w \in Workers, Beat(w)
  PROVE  LocksFresh'
<1> SUFFICES ASSUME NEW p \in Procs, inside'[p] # None
             PROVE  /\ lock'[inside'[p]].owner = p
                    /\ lock'[inside'[p]].age <= AgeBound(p)'
  BY DEF LocksFresh
<1>1. /\ lock \in [Resources -> Rows] /\ inside' = inside /\ mine' = mine
      /\ silence' = [silence EXCEPT ![w] = 0]
      /\ silence \in [Workers -> 0 .. MaxSilence]
      /\ Renew(w, Resource(mine[w])) /\ inside[p] \in Resources
  BY DEF Beat, Shape, TypeOK, LocksTypeOK, WorkerTypeOK
<1>2. lock[inside[p]].owner = p /\ lock[inside[p]].age <= AgeBound(p)
  BY <1>1 DEF LocksFresh
<1>3. CASE p # w
  <2>1. lock'[inside[p]] = lock[inside[p]]
    BY <1>1, <1>2, <1>3 DEF Renew
  <2> QED
    BY <1>1, <1>3, <2>1, FreshKept
<1>4. CASE p = w /\ Beaten(w)
  <2>1. Resource(mine[w]) = inside[w]
    BY <1>4 DEF Beaten
  <2>2. lock'[inside[p]].owner = p /\ lock'[inside[p]].age = 0
    BY <1>1, <1>2, <1>4, <2>1 DEF Renew
  <2>3. AgeBound(p)' \in Nat
    BY <1>1, LocksAssumption, WorkerAssumption DEF AgeBound
  <2> QED
    BY <1>1, <2>2, <2>3
<1>5. CASE p = w /\ ~Beaten(w)
  <2>1. Resource(mine[w]) # inside[w]
    BY <1>5 DEF Beaten
  <2>2. lock'[inside[p]] = lock[inside[p]]
    BY <1>1, <1>5, <2>1 DEF Renew
  <2>3. mine[w] \in Jobs /\ Exists(mine[w])
    BY HandExists DEF Beat, Shape, HandsFit, InHand, Holding
  <2>4. job'[mine[w]].run = job[mine[w]].run
    BY <2>3, RunsKept
  <2>5. ~Beaten(w)'
    BY <1>1, <2>1, <2>4 DEF Beaten, Resource
  <2>6. AgeBound(p)' = Lease /\ AgeBound(p) = Lease
    BY <1>5, <2>5 DEF AgeBound
  <2> QED
    BY <1>1, <1>2, <2>2, <2>6
<1> QED
  BY <1>3, <1>4, <1>5

\* The clock waits for whoever is about to lose a lock under its work.
LEMMA TickFresh ==
  ASSUME ~LongRuns, Shape, LocksFresh, [Next]_vars, Tick
  PROVE  LocksFresh'
<1> SUFFICES ASSUME NEW p \in Procs, inside'[p] # None
             PROVE  /\ lock'[inside'[p]].owner = p
                    /\ lock'[inside'[p]].age <= AgeBound(p)'
  BY DEF LocksFresh
<1>1. /\ inside' = inside /\ mine' = mine /\ inside[p] \in Resources
      /\ lock[inside[p]].age \in 0 .. Lease + 1
      /\ silence \in [Workers -> 0 .. MaxSilence]
  BY DEF Tick, Shape, TypeOK, LocksTypeOK, WorkerTypeOK, Rows
<1>2. lock[inside[p]].owner = p /\ lock[inside[p]].age <= AgeBound(p)
  BY <1>1 DEF LocksFresh
<1>3. /\ lock'[inside[p]].owner = p
      /\ lock'[inside[p]].age <= lock[inside[p]].age + 1
  BY <1>1, <1>2, LocksAssumption DEF Tick, AgeLocks, Older
<1>4. lock'[inside[p]].age \in Nat
  BY <1>1, <1>2, LocksAssumption DEF Tick, AgeLocks, Older
<1>5. CASE p \in Workers /\ Beaten(p)
  <2>1. mine[p] \in Jobs /\ Exists(mine[p]) /\ mine[p] # None
    BY <1>1, <1>5, HandExists DEF Shape, HandsFit, InHand, Holding, Beating
  <2>2. job'[mine[p]].run = job[mine[p]].run
    BY <2>1, RunsKept
  <2>3. Beaten(p)'
    BY <1>1, <1>5, <2>2 DEF Beaten, Resource
  <2>4. silence'[p] = silence[p] + 1
    BY <1>5, <2>1 DEF Tick
  <2>5. AgeBound(p) = silence[p] /\ AgeBound(p)' = silence[p] + 1
    BY <1>5, <2>3, <2>4 DEF AgeBound
  <2> QED
    BY <1>1, <1>2, <1>3, <1>4, <1>5, <2>5
<1>6. CASE ~(p \in Workers /\ Beaten(p))
  <2>1. lock[inside[p]].age < Lease
    BY <1>1, <1>6 DEF Tick, InTime
  <2>2. ~(p \in Workers /\ Beaten(p))'
    <3>1. p \in Workers => mine[p] \in Jobs /\ Exists(mine[p])
      BY <1>1, HandExists DEF Shape, HandsFit, InHand, Holding, Beating
    <3> QED
      BY <1>1, <1>6, <3>1, RunsKept DEF Beaten, Resource
  <2>3. AgeBound(p)' = Lease
    BY <2>2 DEF AgeBound
  <2> QED
    BY <1>1, <1>3, <1>4, <2>1, <2>3, LocksAssumption
<1> QED
  BY <1>5, <1>6

\* Every step keeps the locks under work fresh.
LEMMA NextFresh ==
  ASSUME ~LongRuns, Shape, LocksFresh, [Next]_vars
  PROVE  LocksFresh'
<1>0. \A w \in Workers : inside[w] # None => pc[w] \in {"open", "inside", "leaving"}
  BY DEF Shape, HandsFit, InHand
<1>1. ASSUME NEW w \in Workers, Loop(w) PROVE LocksFresh'
  <2>1. CASE EnterSection(w)
    <3>1. Section(w) \in Resources \cup {None}
      BY <2>1, SectionType DEF EnterSection, Shape, HandsFit, InHand, Holding, Beating
    <3> QED
      BY <2>1, <3>1, EnterFresh, WorkerAssumption DEF EnterSection, GoTo
  <2>2. CASE LeaveSection(w) \/ LeaveLost(w)
    BY <2>2, LeaveFresh, AsideFresh, WorkerAssumption DEF LeaveSection, LeaveLost, Ends
  <2>3. CASE \/ ReapRead(w) \/ ReapOne(w) \/ ReapPass(w) \/ LookAtLocks(w)
             \/ NothingToClaim(w) \/ Begin(w) \/ TurnedAway(w) \/ Open(w) \/ Seam(w) \/ WorkDone(w)
             \/ WorkFails(w) \/ Quit(w)
    <3>1. UNCHANGED lockVars /\ UNCHANGED <<mine, silence>>
      BY <2>3 DEF ReapRead, ReapOne, ReapPass, LookAtLocks, NothingToClaim, Begin, TurnedAway, Open,
         Seam, WorkDone, WorkFails, Quit, GoTo, Ends, lockVars
    <3> QED
      BY <3>1, AsideFresh
  <2>4. CASE \/ \E j \in Jobs : Claim(w, j)
             \/ DropCancelled(w) \/ StartJob(w) \/ Finish(w) \/ PutBack(w)
    <3>1. /\ UNCHANGED lockVars /\ inside[w] = None
          /\ \A v \in Workers \ {w} : mine'[v] = mine[v] /\ silence'[v] = silence[v]
      BY <1>0, <2>4 DEF Claim, DropCancelled, StartJob, Finish, PutBack, LetGo, lockVars,
         Shape, TypeOK, WorkerTypeOK
    <3> QED
      BY <3>1, AsideFresh
  <2> QED
    BY <1>1, <2>1, <2>2, <2>3, <2>4 DEF Loop
<1>2. ASSUME NEW w \in Workers, Beat(w) \/ BeatHalf(w) \/ TellToStop(w) \/ DieWorker(w)
      PROVE  LocksFresh'
  <2>1. CASE BeatHalf(w) \/ TellToStop(w)
    BY <2>1, AsideFresh DEF BeatHalf, TellToStop, workerVars, lockVars
  <2>2. CASE DieWorker(w)
    <3>1. \A v \in Workers \ {w} : mine'[v] = mine[v] /\ silence'[v] = silence[v]
      BY <2>2 DEF DieWorker, Shape, TypeOK, WorkerTypeOK
    <3> QED
      BY <2>2, <3>1, LeaveFresh, WorkerAssumption DEF DieWorker
  <2> QED
    BY <1>2, <2>1, <2>2, BeatFresh
<1>3. ASSUME NEW c \in Terminals,
             \/ \E r \in Resources : TerminalEnter(c, r) \/ TerminalRefused(c, r)
             \/ TerminalLeave(c) \/ DieTerminal(c)
      PROVE  LocksFresh'
  BY <1>3, EnterFresh, LeaveFresh, AsideFresh, WorkerAssumption
  DEF TerminalEnter, TerminalRefused, TerminalLeave, DieTerminal, GoTo, lockVars
<1>4. CASE (Panel /\ UNCHANGED <<lock, inside, workerVars>>) \/ UNCHANGED vars
  BY <1>4, AsideFresh DEF workerVars, vars, lockVars
<1> QED
  BY <1>1, <1>2, <1>3, <1>4, TickFresh DEF Next

\* At first nobody is at work.
LEMMA InitFresh == Init => LocksFresh
BY DEF Init, LocksInit, LocksFresh

\* Whoever works on a resource holds its live lock throughout, for any number of
\* workers, terminals, groups and jobs, whatever deaths, cancels and lost releases
\* occur, as long as unrenewed work ends within a lease (locks.held, worker._Beat).
THEOREM WorkIsLocked ==
  ASSUME ~LongRuns
  PROVE  Spec => []HoldsWhatItWorksOn
<1>1. Init => Shape /\ LocksFresh
  BY InitShape, InitFresh
<1>2. Shape /\ LocksFresh /\ [Next]_vars => (Shape /\ LocksFresh)'
  BY NextShape, NextFresh
<1>3. Shape /\ LocksFresh => HoldsWhatItWorksOn
  BY FreshIsHeld DEF HoldsWhatItWorksOn
<1> QED
  BY <1>1, <1>2, <1>3, PTL DEF Spec

\* Two processes are never inside one resource (locks.held).
THEOREM WorkIsExclusive ==
  ASSUME ~LongRuns
  PROVE  Spec => []MutualExclusion
<1>1. HoldsWhatItWorksOn => MutualExclusion
  BY DEF HoldsWhatItWorksOn, MutualExclusion
<1> QED
  BY <1>1, WorkIsLocked, PTL

-----------------------------------------------------------------------------
(* The refinement of JobTurns.                                             *)

\* What the abstract variables stand for.
Ended == [j \in Jobs |-> job[j].state \in Final]
Performer == [j \in Jobs |-> TheOne({w \in Workers : mine[w] = j})]
Turn == [r \in Resources |-> TheOne({p \in Procs : inside[p] = r})]

\* The performer of a job is the worker that has it in hand.
LEMMA PerformerIs ==
  ASSUME OnePerformer, NEW j \in Jobs
  PROVE  /\ \A w \in Workers : Performer[j] = w <=> mine[w] = j
         /\ Performer[j] = None <=> \A w \in Workers : mine[w] # j
         /\ Performer[j] \in Workers \cup {None}
<1>1. j # None
  BY StoreAssumption DEF Jobs
<1> DEFINE S == {w \in Workers : mine[w] = j}
<1>2. Performer[j] = TheOne(S)
  BY DEF Performer
<1>3. CASE S = {}
  BY <1>2, <1>3, LocksAssumption, WorkerAssumption DEF TheOne
<1>4. CASE S # {}
  <2>1. Performer[j] \in S
    BY <1>2, <1>4 DEF TheOne
  <2> QED
    BY <1>1, <2>1, LocksAssumption, WorkerAssumption DEF OnePerformer
<1> QED
  BY <1>3, <1>4

\* A resource is the turn of the process that works on it.
LEMMA TurnIs ==
  ASSUME MutualExclusion, NEW r \in Resources
  PROVE  /\ \A p \in Procs : Turn[r] = p <=> inside[p] = r
         /\ Turn[r] = None <=> \A p \in Procs : inside[p] # r
         /\ Turn[r] \in Procs \cup {None}
<1>1. r # None
  BY LocksAssumption
<1> DEFINE S == {p \in Procs : inside[p] = r}
<1>2. Turn[r] = TheOne(S)
  BY DEF Turn
<1>3. CASE S = {}
  BY <1>2, <1>3, LocksAssumption DEF TheOne
<1>4. CASE S # {}
  <2>1. Turn[r] \in S
    BY <1>2, <1>4 DEF TheOne
  <2> QED
    BY <1>1, <2>1, LocksAssumption DEF MutualExclusion
<1> QED
  BY <1>3, <1>4

\* The abstract state changes only with what it stands for.
LEMMA SameTurn == inside' = inside => Turn' = Turn
BY DEF Turn

\* As above, for the jobs in hand.
LEMMA SamePerformer == mine' = mine => Performer' = Performer
BY DEF Performer

\* As above, for the ends of jobs.
LEMMA SameEnded ==
  ASSUME \A j \in Jobs : job[j].state \in Final <=> job'[j].state \in Final
  PROVE  Ended' = Ended
BY DEF Ended

\* As above, when no document is written.
LEMMA UntouchedEnded == job' = job => Ended' = Ended
BY DEF Ended

\* Entering a section takes the turn of its resource.
LEMMA EnterTurn ==
  ASSUME Shape, MutualExclusion, NEW p \in Procs, NEW r \in Resources \cup {None},
         Enter(p, r), inside[p] = None, \A q \in Procs : r # None => inside[q] # r
  PROVE  \/ Turn' = Turn
         \/ /\ r \in Resources
            /\ Turn[r] = None
            /\ \A s \in Resources : Turn[s] # p
            /\ Turn' = [Turn EXCEPT ![r] = p]
<1>1. inside' = [inside EXCEPT ![p] = r] /\ inside \in [Procs -> Resources \cup {None}]
  BY DEF Enter, Shape, TypeOK, LocksTypeOK
<1>2. CASE r = None
  <2>1. inside' = inside
    BY <1>1, <1>2
  <2> QED
    BY <2>1, SameTurn
<1>3. CASE r # None
  <2>1. r \in Resources /\ Turn[r] = None
    BY <1>3, TurnIs
  <2>2. \A s \in Resources : Turn[s] # p
    BY TurnIs, LocksAssumption
  <2>3. \A s \in Resources : Turn'[s] = IF s = r THEN p ELSE Turn[s]
    <3> SUFFICES ASSUME NEW s \in Resources PROVE Turn'[s] = IF s = r THEN p ELSE Turn[s]
      OBVIOUS
    <3>1. {q \in Procs : inside'[q] = s} =
            IF s = r THEN {p} ELSE {q \in Procs : inside[q] = s}
      BY <1>1, <1>3, LocksAssumption
    <3>2. Turn'[s] = TheOne({q \in Procs : inside'[q] = s}) /\ Turn[s] = TheOne({q \in Procs : inside[q] = s})
      BY DEF Turn
    <3>3. TheOne({p}) = p
      BY DEF TheOne
    <3> QED
      BY <3>1, <3>2, <3>3
  <2> QED
    BY <2>1, <2>2, <2>3 DEF Turn
<1> QED
  BY <1>2, <1>3

\* Leaving a section, or dying in it, gives back that turn only.
LEMMA LeaveTurn ==
  ASSUME Shape, MutualExclusion, NEW p \in Procs, inside' = [inside EXCEPT ![p] = None]
  PROVE  /\ Turn' = [r \in Resources |-> IF Turn[r] = p THEN None ELSE Turn[r]]
         /\ inside[p] # None =>
               /\ inside[p] \in Resources /\ Turn[inside[p]] # None
               /\ Turn' = [Turn EXCEPT ![inside[p]] = None]
<1>1. inside \in [Procs -> Resources \cup {None}]
  BY DEF Shape, TypeOK, LocksTypeOK
<1>2. ASSUME NEW s \in Resources
      PROVE  Turn'[s] = IF Turn[s] = p THEN None ELSE Turn[s]
  <2>1. Turn'[s] = TheOne({q \in Procs : inside'[q] = s}) /\ Turn[s] = TheOne({q \in Procs : inside[q] = s})
    BY DEF Turn
  <2>2. CASE inside[p] = s
    <3>1. {q \in Procs : inside'[q] = s} = {}
      BY <1>1, <2>2, LocksAssumption DEF MutualExclusion
    <3>2. Turn[s] = p
      BY <2>2, TurnIs
    <3> QED
      BY <2>1, <3>1, <3>2 DEF TheOne
  <2>3. CASE inside[p] # s
    <3>1. {q \in Procs : inside'[q] = s} = {q \in Procs : inside[q] = s}
      BY <1>1, <2>3, LocksAssumption
    <3>2. Turn[s] # p
      BY <2>3, TurnIs
    <3> QED
      BY <2>1, <3>1, <3>2
  <2> QED
    BY <2>2, <2>3
<1>3. Turn' = [r \in Resources |-> IF Turn[r] = p THEN None ELSE Turn[r]]
  BY <1>2 DEF Turn
<1>4. ASSUME inside[p] # None
      PROVE  /\ inside[p] \in Resources /\ Turn[inside[p]] # None
             /\ Turn' = [Turn EXCEPT ![inside[p]] = None]
  <2>1. inside[p] \in Resources
    BY <1>1, <1>4
  <2>2. \A r \in Resources : Turn[r] = p <=> inside[p] = r
    BY TurnIs
  <2>3. Turn[inside[p]] = p
    BY <2>1, <2>2
  <2>4. \A r \in Resources : Turn'[r] = [Turn EXCEPT ![inside[p]] = None][r]
    BY <1>2, <2>1, <2>2 DEF Turn
  <2>5. Turn' = [Turn EXCEPT ![inside[p]] = None]
    BY <2>4 DEF Turn
  <2> QED
    BY <2>1, <2>3, <2>5, LocksAssumption
<1> QED
  BY <1>3, <1>4

\* Claiming makes the worker the performer of that job only.
LEMMA TakePerformer ==
  ASSUME Shape, NEW w \in Workers, NEW j \in Jobs, mine[w] = None,
         mine' = [mine EXCEPT ![w] = j], \A v \in Workers : mine[v] # j
  PROVE  /\ Performer[j] = None
         /\ \A i \in Jobs : Performer[i] # w
         /\ Performer' = [Performer EXCEPT ![j] = w]
<1>0. OnePerformer /\ mine \in [Workers -> Jobs \cup {None}]
  BY DEF Shape, TypeOK, WorkerTypeOK
<1>1. Performer[j] = None
  BY <1>0, PerformerIs
<1>2. \A i \in Jobs : Performer[i] # w
  BY <1>0, PerformerIs, StoreAssumption DEF Jobs
<1>3. ASSUME NEW i \in Jobs PROVE Performer'[i] = IF i = j THEN w ELSE Performer[i]
  <2>1. {v \in Workers : mine'[v] = i} = IF i = j THEN {w} ELSE {v \in Workers : mine[v] = i}
    BY <1>0, StoreAssumption DEF Jobs
  <2>2. /\ Performer'[i] = TheOne({v \in Workers : mine'[v] = i})
        /\ Performer[i] = TheOne({v \in Workers : mine[v] = i})
    BY DEF Performer
  <2>3. TheOne({w}) = w
    BY DEF TheOne
  <2> QED
    BY <2>1, <2>2, <2>3
<1> QED
  BY <1>1, <1>2, <1>3 DEF Performer

\* Letting go of a job leaves it without a performer.
LEMMA DropPerformer ==
  ASSUME Shape, NEW w \in Workers, mine' = [mine EXCEPT ![w] = None]
  PROVE  /\ Performer' = [j \in Jobs |-> IF Performer[j] = w THEN None ELSE Performer[j]]
         /\ mine[w] # None =>
               /\ mine[w] \in Jobs /\ Performer[mine[w]] # None
               /\ Performer' = [Performer EXCEPT ![mine[w]] = None]
<1>0. OnePerformer /\ mine \in [Workers -> Jobs \cup {None}] /\ \A j \in Jobs : j # None
  BY StoreAssumption DEF Shape, TypeOK, WorkerTypeOK, Jobs
<1>2. ASSUME NEW j \in Jobs
      PROVE  Performer'[j] = IF Performer[j] = w THEN None ELSE Performer[j]
  <2>1. /\ Performer'[j] = TheOne({v \in Workers : mine'[v] = j})
        /\ Performer[j] = TheOne({v \in Workers : mine[v] = j})
    BY DEF Performer
  <2>2. CASE mine[w] = j
    <3>1. {v \in Workers : mine'[v] = j} = {}
      BY <1>0, <2>2 DEF OnePerformer
    <3>2. Performer[j] = w
      BY <1>0, <2>2, PerformerIs
    <3> QED
      BY <2>1, <3>1, <3>2 DEF TheOne
  <2>3. CASE mine[w] # j
    <3>1. {v \in Workers : mine'[v] = j} = {v \in Workers : mine[v] = j}
      BY <1>0, <2>3
    <3>2. Performer[j] # w
      BY <1>0, <2>3, PerformerIs
    <3> QED
      BY <2>1, <3>1, <3>2
  <2> QED
    BY <2>2, <2>3
<1>3. Performer' = [j \in Jobs |-> IF Performer[j] = w THEN None ELSE Performer[j]]
  BY <1>2 DEF Performer
<1>4. ASSUME mine[w] # None
      PROVE  /\ mine[w] \in Jobs /\ Performer[mine[w]] # None
             /\ Performer' = [Performer EXCEPT ![mine[w]] = None]
  <2>1. mine[w] \in Jobs
    BY <1>0, <1>4
  <2>2. \A j \in Jobs : Performer[j] = w <=> mine[w] = j
    BY <1>0, PerformerIs
  <2>3. Performer[mine[w]] = w
    BY <2>1, <2>2
  <2>4. \A j \in Jobs : Performer'[j] = [Performer EXCEPT ![mine[w]] = None][j]
    BY <1>2, <2>1, <2>2 DEF Performer
  <2>5. Performer' = [Performer EXCEPT ![mine[w]] = None]
    BY <2>4 DEF Performer
  <2> QED
    BY <2>1, <2>3, <2>5, LocksAssumption, WorkerAssumption
<1> QED
  BY <1>3, <1>4

\* One job at most comes to its end.
LEMMA SettleEnded ==
  ASSUME Shape, NEW j \in Jobs, NEW s \in Final, Settle(j, s)
  PROVE  \/ Ended' = Ended
         \/ ~Ended[j] /\ Ended' = [Ended EXCEPT ![j] = TRUE]
<1>1. job \in [Jobs -> Documents]
  BY DEF Shape, TypeOK, StoreTypeOK
<1>2. CASE job[j].state \in Final
  BY <1>2, UntouchedEnded DEF Settle
<1>3. CASE job[j].state \notin Final
  <2>1. \A i \in Jobs : job'[i].state = IF i = j THEN s ELSE job[i].state
    BY <1>1, <1>3 DEF Settle, Rewrite
  <2>2. \A i \in Jobs : Ended'[i] = [Ended EXCEPT ![j] = TRUE][i]
    BY <2>1 DEF Ended
  <2>3. Ended' = [Ended EXCEPT ![j] = TRUE]
    BY <2>2 DEF Ended
  <2> QED
    BY <1>3, <2>3 DEF Ended
<1> QED
  BY <1>2, <1>3

\* Every step keeps terminals at work in their one section only.
LEMMA NextTerminals ==
  ASSUME Shape, TerminalsFit, [Next]_vars
  PROVE  TerminalsFit'
<1> SUFFICES ASSUME NEW c \in Terminals, inside'[c] # None PROVE pc'[c] = "inside"
  BY DEF TerminalsFit
<1>0. /\ c \in Procs /\ c \notin Workers
      /\ inside \in [Procs -> Resources \cup {None}]
      /\ pc \in [Procs -> Idle \cup Holding \cup {"gone"}]
  BY WorkerAssumption DEF Shape, TypeOK, LocksTypeOK, WorkerTypeOK
<1>1. CASE inside'[c] = inside[c] /\ pc'[c] = pc[c]
  BY <1>1 DEF TerminalsFit
<1>2. ASSUME NEW w \in Workers,
             Loop(w) \/ Beat(w) \/ BeatHalf(w) \/ TellToStop(w) \/ DieWorker(w)
      PROVE  inside'[c] = inside[c] /\ pc'[c] = pc[c]
  <2>1. \/ UNCHANGED inside
        \/ \E r \in Resources \cup {None} : inside' = [inside EXCEPT ![w] = r]
    <3>1. CASE EnterSection(w)
      <4>1. Section(w) \in Resources \cup {None}
        BY <3>1, SectionType DEF EnterSection, Shape, HandsFit, InHand, Holding, Beating
      <4> QED
        BY <3>1, <4>1 DEF EnterSection, Enter
    <3>2. CASE LeaveSection(w) \/ LeaveLost(w) \/ DieWorker(w)
      BY <3>2 DEF LeaveSection, LeaveLost, DieWorker, Leave, Abandon, lockVars
    <3>3. CASE UNCHANGED inside
      BY <3>3
    <3> QED
      BY <1>2, <3>1, <3>2, <3>3 DEF Loop, ReapRead, ReapOne, ReapPass, LookAtLocks, NothingToClaim, Claim,
         DropCancelled, StartJob, Begin, TurnedAway, Open, Seam, WorkDone, WorkFails,
         Finish, PutBack, Quit, Beat, BeatHalf, TellToStop
  <2>2. UNCHANGED pc \/ pc' = [pc EXCEPT ![w] = pc'[w]]
    BY <1>2 DEF Loop, ReapRead, ReapOne, ReapPass, LookAtLocks, NothingToClaim, Claim, DropCancelled,
       StartJob, Begin, EnterSection, TurnedAway, Open, Seam, WorkDone, WorkFails, LeaveSection,
       LeaveLost, Finish, PutBack, Quit, Beat, BeatHalf, TellToStop, DieWorker, GoTo, Ends,
       LetGo, workerVars, Shape, TypeOK, WorkerTypeOK
  <2> QED
    BY <1>0, <2>1, <2>2
<1>3. ASSUME NEW d \in Terminals,
             \/ \E r \in Resources : TerminalEnter(d, r) \/ TerminalRefused(d, r)
             \/ TerminalLeave(d) \/ DieTerminal(d)
      PROVE  pc'[c] = "inside"
  <2>0. d \in Procs
    BY WorkerAssumption
  <2>1. CASE d # c
    <3>1. inside'[c] = inside[c] /\ pc'[c] = pc[c]
      BY <1>0, <1>3, <2>0, <2>1 DEF TerminalEnter, TerminalRefused, TerminalLeave, DieTerminal,
         Enter, Leave, Abandon, GoTo
    <3> QED
      BY <1>1, <3>1
  <2>2. CASE d = c
    BY <1>0, <1>3, <2>2 DEF TerminalEnter, TerminalRefused, TerminalLeave, DieTerminal,
       Enter, Leave, Abandon, GoTo, TerminalsFit
  <2> QED
    BY <2>1, <2>2
<1>4. CASE (Panel /\ UNCHANGED <<lock, inside, workerVars>>) \/ Tick \/ UNCHANGED vars
  BY <1>1, <1>4 DEF Tick, workerVars, vars
<1> QED
  BY <1>1, <1>2, <1>3, <1>4 DEF Next

\* A step of the abstract specification, or none.
AbstractStep == [Turns!Next]_(Turns!turns)

\* A step that changes nothing abstract.
LEMMA Stutters ==
  ASSUME Ended' = Ended, Performer' = Performer, Turn' = Turn
  PROVE  AbstractStep
BY DEF AbstractStep, Turns!turns, Ended, Performer, Turn

\* A worker lets go of its job, ended or not.
LEMMA PutDownTurns ==
  ASSUME Shape, NEW w \in Workers, mine[w] # None, mine' = [mine EXCEPT ![w] = None],
         UNCHANGED inside,
         \/ Ended' = Ended
         \/ Ended' = [Ended EXCEPT ![mine[w]] = TRUE]
  PROVE  AbstractStep
<1>1. /\ Performer[mine[w]] # None /\ mine[w] \in Jobs
      /\ Performer' = [Performer EXCEPT ![mine[w]] = None]
  BY DropPerformer
<1>2. Turn' = Turn
  BY SameTurn
<1>3. \E end \in BOOLEAN : Ended' = [Ended EXCEPT ![mine[w]] = @ \/ end]
  <2>1. CASE Ended' = Ended
    <3>1. Ended \in [Jobs -> BOOLEAN]
      BY DEF Ended
    <3>2. (Ended[mine[w]] \/ FALSE) = Ended[mine[w]]
      BY <1>1, <3>1
    <3>3. [Ended EXCEPT ![mine[w]] = Ended[mine[w]]] = Ended
      BY <3>1
    <3> QED
      BY <2>1, <3>2, <3>3
  <2>2. CASE Ended' = [Ended EXCEPT ![mine[w]] = TRUE]
    <3>1. [Ended EXCEPT ![mine[w]] = TRUE] = [Ended EXCEPT ![mine[w]] = @ \/ TRUE]
      BY DEF Ended
    <3> QED
      BY <2>2, <3>1
  <2> QED
    BY <2>1, <2>2
<1>4. PICK j \in Jobs : j = mine[w]
  BY <1>1
<1>5. Turns!PutDown(j)
  BY <1>1, <1>2, <1>3, <1>4 DEF Turns!PutDown, Ended, Performer, Turn
<1> QED
  BY <1>5 DEF AbstractStep, Turns!Next

\* Rewriting a document on the same side of its end ends nothing.
LEMMA RewriteEnded ==
  ASSUME Shape, NEW j \in Jobs, NEW s, NEW h, NEW c, Rewrite(j, s, h, c),
         job[j].state \in Final <=> s \in Final
  PROVE  Ended' = Ended
<1>1. job \in [Jobs -> Documents]
  BY DEF Shape, TypeOK, StoreTypeOK
<1>2. \A i \in Jobs : job'[i].state = IF i = j THEN s ELSE job[i].state
  BY <1>1 DEF Rewrite
<1> QED
  BY <1>2, SameEnded

\* A verdict about one job, by somebody who does not have it.
LEMMA EndStep ==
  ASSUME Shape, NEW j \in Jobs, UNCHANGED <<mine, inside>>,
         \/ Ended' = Ended
         \/ ~Ended[j] /\ Ended' = [Ended EXCEPT ![j] = TRUE]
  PROVE  AbstractStep
<1>1. Performer' = Performer /\ Turn' = Turn
  BY SamePerformer, SameTurn
<1>2. CASE Ended' = Ended
  BY <1>1, <1>2, Stutters
<1>3. CASE ~Ended[j] /\ Ended' = [Ended EXCEPT ![j] = TRUE]
  <2>1. Turns!End(j)
    BY <1>1, <1>3 DEF Turns!End, Ended, Performer, Turn
  <2> QED
    BY <2>1 DEF AbstractStep, Turns!Next
<1> QED
  BY <1>2, <1>3

\* Claiming is taking.
LEMMA ClaimTurns ==
  ASSUME Shape, NEW w \in Workers, NEW j \in Jobs, Claim(w, j)
  PROVE  AbstractStep
<1>1. job[j].state = "queued" /\ job \in [Jobs -> Documents]
  BY DEF Claim, IsOldest, Claimable, Shape, TypeOK, StoreTypeOK
<1>2. mine[w] = None
  BY DEF Claim, Shape, HandsFit, InHand, Holding, Beating
<1>3. mine' = [mine EXCEPT ![w] = j] /\ \A v \in Workers : mine[v] # j
  BY ClaimKeeps DEF Claim
<1>4. /\ Performer[j] = None
      /\ \A i \in Jobs : Performer[i] # w
      /\ Performer' = [Performer EXCEPT ![j] = w]
  BY <1>2, <1>3, TakePerformer
<1>5. Ended' = Ended /\ ~Ended[j]
  <2>1. Rewrite(j, "claimed", 0, job[j].cancel)
    BY DEF Claim, MarkClaimed
  <2>2. Ended' = Ended
    BY <1>1, <2>1, RewriteEnded DEF Final
  <2> QED
    BY <1>1, <2>2 DEF Ended, Final
<1>6. Turn' = Turn
  BY SameTurn DEF Claim
<1>7. Turns!Take(w, j)
  BY <1>4, <1>5, <1>6 DEF Turns!Take, Ended, Performer, Turn
<1> QED
  BY <1>7 DEF AbstractStep, Turns!Next

\* Starting is nothing, or putting down a job settled meanwhile.
LEMMA StartTurns ==
  ASSUME Shape, NEW w \in Workers, StartJob(w)
  PROVE  AbstractStep
<1>1. mine[w] # None /\ mine[w] \in Jobs
  BY HandExists DEF StartJob, Shape, HandsFit, InHand, Holding
<1>2. UNCHANGED inside
  BY DEF StartJob
<1>3. CASE LetGo(w) /\ UNCHANGED job
  <2>1. mine' = [mine EXCEPT ![w] = None] /\ Ended' = Ended
    BY <1>3, UntouchedEnded DEF LetGo
  <2> QED
    BY <1>1, <1>2, <2>1, PutDownTurns
<1>4. CASE job[mine[w]].state = "claimed" /\ MarkRunning(mine[w]) /\ UNCHANGED mine
  <2>1. Ended' = Ended
    BY <1>1, <1>4, RewriteEnded DEF MarkRunning, Final
  <2> QED
    BY <1>2, <1>4, <2>1, SamePerformer, SameTurn, Stutters
<1> QED
  BY <1>3, <1>4 DEF StartJob

\* Dropping, finishing and putting back are putting down.
LEMMA ReleasingTurns ==
  ASSUME Shape, NEW w \in Workers, DropCancelled(w) \/ Finish(w) \/ PutBack(w)
  PROVE  AbstractStep
<1>1. mine[w] # None /\ mine[w] \in Jobs
  BY HandExists DEF DropCancelled, Finish, PutBack, Shape, HandsFit, InHand, Holding
<1>2. UNCHANGED inside /\ mine' = [mine EXCEPT ![w] = None]
  BY DEF DropCancelled, Finish, PutBack, LetGo
<1>3. \/ Ended' = Ended
      \/ Ended' = [Ended EXCEPT ![mine[w]] = TRUE]
  <2>1. CASE DropCancelled(w)
    BY <1>1, <2>1, SettleEnded DEF DropCancelled, Final
  <2>2. CASE Finish(w)
    <3>1. (IF outcome[w] = "ok" THEN "done" ELSE outcome[w]) \in Final
      BY <2>2 DEF Finish, Shape, TypeOK, WorkerTypeOK, Outcomes, Final
    <3> QED
      BY <1>1, <2>2, <3>1, SettleEnded DEF Finish
  <2>3. CASE PutBack(w)
    <3>1. CASE job[mine[w]].state \in UnderWay
      BY <1>1, <2>3, <3>1, RewriteEnded DEF PutBack, Requeue, UnderWay, Final
    <3>2. CASE job[mine[w]].state \notin UnderWay
      BY <2>3, <3>2, UntouchedEnded DEF PutBack, Requeue
    <3> QED
      BY <3>1, <3>2
  <2> QED
    BY <2>1, <2>2, <2>3
<1> QED
  BY <1>1, <1>2, <1>3, PutDownTurns

\* Entering a locked block is entering.
LEMMA EnterTurns ==
  ASSUME Shape, MutualExclusion, LocksFresh, NEW p \in Procs, NEW r \in Resources \cup {None},
         Enter(p, r), inside[p] = None, UNCHANGED <<job, mine>>
  PROVE  AbstractStep
<1>1. \A q \in Procs : r # None => inside[q] # r
  BY FreshIsHeld, LocksAssumption DEF Enter, Acquire
<1>2. Ended' = Ended /\ Performer' = Performer
  BY UntouchedEnded, SamePerformer
<1>3. CASE Turn' = Turn
  BY <1>2, <1>3, Stutters
<1>4. CASE /\ r \in Resources /\ Turn[r] = None
           /\ \A s \in Resources : Turn[s] # p
           /\ Turn' = [Turn EXCEPT ![r] = p]
  <2>1. Turns!Enter(p, r)
    BY <1>2, <1>4 DEF Turns!Enter, Ended, Performer, Turn
  <2> QED
    BY <1>4, <2>1 DEF AbstractStep, Turns!Next
<1> QED
  BY <1>1, <1>3, <1>4, EnterTurn

\* Leaving it, with the lock released or lost, is leaving.
LEMMA LeaveTurns ==
  ASSUME Shape, MutualExclusion, NEW p \in Procs,
         inside' = [inside EXCEPT ![p] = None], UNCHANGED <<job, mine>>
  PROVE  AbstractStep
<1>1. Ended' = Ended /\ Performer' = Performer
  BY UntouchedEnded, SamePerformer
<1>2. CASE inside[p] = None
  <2>1. inside' = inside
    BY <1>2 DEF Shape, TypeOK, LocksTypeOK
  <2> QED
    BY <1>1, <2>1, SameTurn, Stutters
<1>3. CASE inside[p] # None
  <2>1. /\ inside[p] \in Resources /\ Turn[inside[p]] # None
        /\ Turn' = [Turn EXCEPT ![inside[p]] = None]
    BY <1>3, LeaveTurn
  <2>2. PICK r \in Resources : r = inside[p]
    BY <2>1
  <2>3. Turns!Leave(r)
    BY <1>1, <2>1, <2>2 DEF Turns!Leave, Ended, Performer, Turn
  <2> QED
    BY <2>3 DEF AbstractStep, Turns!Next
<1> QED
  BY <1>2, <1>3

\* The death of a worker is its vanishing.
LEMMA VanishTurns ==
  ASSUME Shape, MutualExclusion, NEW w \in Workers, DieWorker(w)
  PROVE  AbstractStep
<1>1. /\ inside' = [inside EXCEPT ![w] = None]
      /\ mine' = [mine EXCEPT ![w] = None]
      /\ UNCHANGED job /\ w \in Procs
  BY WorkerAssumption DEF DieWorker, Abandon
<1>2. /\ Performer' = [j \in Jobs |-> IF Performer[j] = w THEN None ELSE Performer[j]]
      /\ Turn' = [r \in Resources |-> IF Turn[r] = w THEN None ELSE Turn[r]]
      /\ Ended' = Ended
  BY <1>1, DropPerformer, LeaveTurn, UntouchedEnded
<1>3. Turns!Vanish(w)
  BY <1>2 DEF Turns!Vanish, Ended, Performer, Turn
<1> QED
  BY <1>1, <1>3 DEF AbstractStep, Turns!Next

\* The panel ends a job or does nothing abstract.
LEMMA PanelTurns ==
  ASSUME Shape, Panel, UNCHANGED <<lock, inside, workerVars>>
  PROVE  AbstractStep
<1>0. UNCHANGED <<mine, inside>> /\ Performer' = Performer /\ Turn' = Turn
  BY SamePerformer, SameTurn DEF workerVars
<1>1. CASE \E j \in Jobs : \E run \in Requests \cup {None} : Insert(j, run)
  <2>1. PICK j \in Jobs, run \in Requests \cup {None} : Insert(j, run)
    BY <1>1
  <2>2. \A i \in Jobs : job'[i].state = IF i = j THEN "queued" ELSE job[i].state
    BY <2>1 DEF Insert, Shape, TypeOK, StoreTypeOK
  <2>3. job[j].state = "absent"
    BY <2>1 DEF Insert, Exists
  <2>4. Ended' = Ended
    BY <2>2, <2>3, SameEnded DEF Final
  <2> QED
    BY <1>0, <2>4, Stutters
<1>2. CASE \E j \in Jobs : CancelQueued(j)
  <2>1. PICK j \in Jobs : CancelQueued(j)
    BY <1>2
  <2>2. \A i \in Jobs : job'[i].state = IF i = j THEN "cancelled" ELSE job[i].state
    BY <2>1 DEF CancelQueued, Rewrite, Shape, TypeOK, StoreTypeOK
  <2>3. ~Ended[j]
    BY <2>1 DEF CancelQueued, Ended, Final
  <2>4. \A i \in Jobs : Ended'[i] = [Ended EXCEPT ![j] = TRUE][i]
    BY <2>2 DEF Ended, Final
  <2>5. Ended' = [Ended EXCEPT ![j] = TRUE]
    BY <2>4 DEF Ended
  <2> QED
    BY <1>0, <2>3, <2>5, EndStep
<1>3. CASE UNCHANGED job
  BY <1>0, <1>3, UntouchedEnded, Stutters
<1>4. CASE CancelSecond
  <2>1. desk.job \in Jobs
    BY <1>4 DEF CancelSecond, Shape, VerdictsFit, DeskFits
  <2>2. Ended' = Ended
    BY <1>4, <2>1, RewriteEnded, UntouchedEnded DEF CancelSecond, FlagUnderWay
  <2> QED
    BY <1>0, <2>2, Stutters
<1>5. CASE GiveUpSettle
  <2>1. desk.job \in Jobs /\ desk.verdict \in Final /\ Settle(desk.job, desk.verdict)
    BY <1>5 DEF GiveUpSettle, Shape, VerdictsFit, DeskFits, Verdicts, Final
  <2> QED
    BY <1>0, <2>1, SettleEnded, EndStep
<1>6. \A j \in Jobs : Repeat(j) => job[j].run \in Requests
  BY DEF Repeat, Shape, TypeOK, StoreTypeOK, Final
<1> QED
  BY <1>1, <1>2, <1>3, <1>4, <1>5, <1>6
  DEF Panel, Schedule, Repeat, CancelFirst, GiveUpLook, GiveUpRead

\* Every step is a step of JobTurns or changes nothing abstract.
LEMMA NextTurns ==
  ASSUME Shape, MutualExclusion, LocksFresh, TerminalsFit, [Next]_vars
  PROVE  AbstractStep
<1>1. ASSUME NEW w \in Workers, Loop(w) PROVE AbstractStep
  <2>1. CASE EnterSection(w)
    <3>1. Section(w) \in Resources \cup {None} /\ inside[w] = None /\ w \in Procs
      BY <2>1, SectionType, WorkerAssumption
      DEF EnterSection, Shape, HandsFit, InHand, Holding, Beating
    <3> QED
      BY <2>1, <3>1, EnterTurns DEF EnterSection, GoTo
  <2>2. CASE LeaveSection(w) \/ LeaveLost(w)
    <3>1. UNCHANGED <<job, mine>> /\ w \in Procs
      BY <2>2, WorkerAssumption DEF LeaveSection, LeaveLost, Ends
    <3>2. inside' = [inside EXCEPT ![w] = None]
      BY <2>2, <3>1 DEF LeaveSection, LeaveLost, Leave, Abandon, lockVars,
         Shape, TypeOK, LocksTypeOK
    <3> QED
      BY <3>1, <3>2, LeaveTurns
  <2>3. CASE UNCHANGED <<job, inside, mine>>
    BY <2>3, UntouchedEnded, SamePerformer, SameTurn, Stutters
  <2>4. CASE \E j \in Jobs : Claim(w, j)
    BY <2>4, ClaimTurns
  <2>5. CASE DropCancelled(w) \/ Finish(w) \/ PutBack(w)
    BY <2>5, ReleasingTurns
  <2>6. CASE StartJob(w)
    BY <2>6, StartTurns
  <2>7. CASE ReapOne(w)
    <3>1. PICK found \in stale[w].list :
             Settle(found.job, found.verdict) /\ UNCHANGED <<mine, inside>>
      BY <2>7 DEF ReapOne
    <3>2. found.job \in Jobs /\ found.verdict \in Final
      BY DEF Shape, TypeOK, WorkerTypeOK, Readings, Verdicts, Final
    <3> QED
      BY <3>1, <3>2, SettleEnded, EndStep
  <2> QED
    BY <1>1, <2>1, <2>2, <2>3, <2>4, <2>5, <2>6, <2>7 DEF Loop, ReapRead, ReapPass, LookAtLocks,
       NothingToClaim, Begin, TurnedAway, Open, Seam, WorkDone, WorkFails, Quit, GoTo, Ends
<1>2. ASSUME NEW w \in Workers, Beat(w) \/ BeatHalf(w) \/ TellToStop(w) PROVE AbstractStep
  <2>1. UNCHANGED <<mine, inside>>
    BY <1>2 DEF Beat, BeatHalf, TellToStop, workerVars
  <2>2. Ended' = Ended
    <3>1. CASE Heartbeat(mine[w]) /\ pc[w] \in Beating
      <4>1. mine[w] \in Jobs
        BY <3>1, HandExists DEF Shape, HandsFit, InHand, Holding
      <4> QED
        BY <3>1, <4>1, RewriteEnded, UntouchedEnded DEF Heartbeat, Final
    <3>2. CASE UNCHANGED job
      BY <3>2, UntouchedEnded
    <3> QED
      BY <1>2, <3>1, <3>2 DEF Beat, BeatHalf, TellToStop
  <2> QED
    BY <2>1, <2>2, SamePerformer, SameTurn, Stutters
<1>3. ASSUME NEW w \in Workers, DieWorker(w) PROVE AbstractStep
  BY <1>3, VanishTurns
<1>4. ASSUME NEW c \in Terminals,
             \/ \E r \in Resources : TerminalEnter(c, r) \/ TerminalRefused(c, r)
             \/ TerminalLeave(c) \/ DieTerminal(c)
      PROVE  AbstractStep
  <2>0. c \in Procs
    BY WorkerAssumption
  <2>1. CASE \E r \in Resources : TerminalEnter(c, r)
    <3>1. inside[c] = None /\ UNCHANGED mine /\ UNCHANGED job
      BY <2>1 DEF TerminalEnter, TerminalsFit, GoTo
    <3> QED
      BY <2>0, <2>1, <3>1, EnterTurns DEF TerminalEnter
  <2>2. CASE \E r \in Resources : TerminalRefused(c, r)
    BY <2>2, UntouchedEnded, SamePerformer, SameTurn, Stutters DEF TerminalRefused, GoTo
  <2>3. CASE TerminalLeave(c) \/ DieTerminal(c)
    BY <2>0, <2>3, LeaveTurns DEF TerminalLeave, DieTerminal, Leave, Abandon, GoTo
  <2> QED
    BY <1>4, <2>1, <2>2, <2>3
<1>5. CASE Panel /\ UNCHANGED <<lock, inside, workerVars>>
  BY <1>5, PanelTurns
<1>6. CASE Tick
  <2>1. UNCHANGED <<mine, inside>> /\ \A j \in Jobs : job'[j].state = job[j].state
    BY <1>6 DEF Tick, AgeHeartbeats
  <2>2. Ended' = Ended
    BY <2>1, SameEnded
  <2> QED
    BY <2>1, <2>2, SamePerformer, SameTurn, Stutters
<1>7. CASE UNCHANGED vars
  BY <1>7, UntouchedEnded, SamePerformer, SameTurn, Stutters DEF vars, workerVars
<1> QED
  BY <1>1, <1>2, <1>3, <1>4, <1>5, <1>6, <1>7 DEF Next

\* The empty queue is the empty abstract state.
LEMMA InitTurns == Init => Turns!Init
<1> SUFFICES ASSUME Init PROVE Turns!Init
  OBVIOUS
<1>1. Ended = [j \in Jobs |-> FALSE]
  <2>1. \A j \in Jobs : (job[j].state \in Final) = FALSE
    BY DEF Init, StoreInit, Blank, Final
  <2> QED
    BY <2>1 DEF Ended
<1>2. Performer = [j \in Jobs |-> None]
  <2>1. \A j \in Jobs : {w \in Workers : mine[w] = j} = {}
    BY StoreAssumption DEF Init, Jobs
  <2> QED
    BY <2>1 DEF Performer, TheOne
<1>3. Turn = [r \in Resources |-> None]
  <2>1. \A r \in Resources : {p \in Procs : inside[p] = r} = {}
    BY LocksAssumption DEF Init, LocksInit
  <2> QED
    BY <2>1 DEF Turn, TheOne
<1> QED
  BY <1>1, <1>2, <1>3 DEF Turns!Init, Ended, Performer, Turn

\* What the queue carries from step to step: hands, locks and heartbeats fit each
\* other, whatever dies and whoever presses which button (worker._perform, _Beat,
\* locks.held, store.reap_stale), as long as unrenewed work ends within a lease.
THEOREM QueueInvHolds ==
  ASSUME ~LongRuns
  PROVE  Spec => []QueueInv
<1>1. Init => QueueInv
  BY InitShape, InitFresh, InitVerdicts, WorkerAssumption
  DEF Init, LocksInit, TerminalsFit, QueueInv
<1>2. QueueInv /\ [Next]_vars => QueueInv'
  BY NextShape, NextTerminals, NextFresh, NextBeats, NextReadings DEF QueueInv
<1> QED
  BY <1>1, <1>2, PTL DEF Spec

\* The queue, its locks and the panel implement the turns they promise: one
\* performer per job, none after its end, one process per resource.
THEOREM QueueImplementsTurns ==
  ASSUME ~LongRuns
  PROVE  Spec => ImplementsTurns
<1>1. QueueInv => Shape /\ MutualExclusion /\ LocksFresh /\ TerminalsFit
  BY FreshIsHeld DEF QueueInv, MutualExclusion
<1>2. QueueInv /\ [Next]_vars => [Turns!Next]_(Turns!turns)
  BY <1>1, NextTurns DEF AbstractStep
<1> QED
  BY <1>2, QueueInvHolds, InitTurns, PTL DEF Spec, ImplementsTurns, Turns!Spec

=============================================================================
