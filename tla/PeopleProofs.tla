---------------------------- MODULE PeopleProofs ----------------------------
(***************************************************************************)
(* What the parts of People keep whoever the authors, the hosts and their  *)
(* answers are.  First: the split a name is given is whole, and a request  *)
(* starts only when its host's limits allow one.                           *)
(***************************************************************************)
EXTENDS People, MergeLemmas

-----------------------------------------------------------------------------
\* The greater and the lesser of two naturals.
LEMMA MaxOfTwo ==
    ASSUME NEW a \in Nat, NEW b \in Nat
    PROVE  Max({a, b}) = IF a >= b THEN a ELSE b
BY DEF Max
LEMMA MinOfTwo ==
    ASSUME NEW a \in Nat, NEW b \in Nat
    PROVE  Min({a, b}) = IF a <= b THEN a ELSE b
BY DEF Min
LEMMA MaxOfOne ==
    ASSUME NEW a \in Nat
    PROVE  Max({a}) = a
BY DEF Max

-----------------------------------------------------------------------------
(* How names are split. *)

\* The row a name is matched with is a row of the catalog.
LEMMA MatchType ==
    ASSUME NEW spellings, DOMAIN spellings \subseteq Nat
    PROVE  Match(spellings) \in Catalog \cup {NoWord}
<1> DEFINE hits == {i \in DOMAIN spellings : IsKey(spellings[i])}
           row == CHOOSE r \in Fitting(spellings[Min(hits)]) : TRUE
<1>1. CASE hits = {}
  BY <1>1 DEF Match
<1>2. CASE hits # {}
  <2>1. Min(hits) \in hits
    BY <1>2, MinBelongs
  <2>2. Cardinality(Fitting(spellings[Min(hits)])) = 1
    BY <2>1 DEF IsKey
  <2>3. Fitting(spellings[Min(hits)]) # {}
    BY <2>2, FS_EmptySet
  <2>4. row \in Catalog
    BY <2>3 DEF Fitting
  <2> QED
    BY <2>4 DEF Match
<1> QED BY <1>1, <1>2

\* What the guards leave of a reply is a whole split.
LEMMA ValidatedWhole ==
    ASSUME NEW reply \in Splits
    PROVE  /\ Validated(reply) \subseteq SplitParts
           /\ \A split \in Validated(reply) : Whole(split.ru) /\ Whole(split.en)
<1> DEFINE by(parts) == IF reply.matched THEN parts ELSE FoldGiven(DropInvented(parts))
<1>1. ASSUME NEW parts \in Parts PROVE by(parts) \in Parts
  <2>1. DropInvented(parts) \in Parts
    BY DEF DropInvented, Parts, Words, Seconds, None
  <2>2. FoldGiven(DropInvented(parts)) \in Parts
    BY <2>1 DEF FoldGiven, Parts, Words, Seconds, None
  <2> QED BY <2>2
<1>2. ASSUME NEW parts \in Parts PROVE Transliterated(parts) \in Parts
  BY DEF Transliterated, InCyrillic, Parts, Words, Seconds, None
<1>3. reply.ru \in Parts /\ reply.en \in Parts
  BY DEF Splits
<1>4. Transliterated(by(reply.ru)) \in Parts /\ by(reply.en) \in Parts
  BY <1>1, <1>2, <1>3
<1> QED
  BY <1>4 DEF Validated, SplitParts

\* The rows of authors, and the questions about them, each whole by itself.
NameRow == [parts : SUBSET SplitParts, flat : {"none", "raw", "parts"},
            degree : Catalog \cup {NoWord}, state : {"none", "failed", "completed", "empty"}]
AskRow == [pc : {"none", "queued", "asking", "answered"}, attempt : 0 .. SemanticAttempts,
           tries : 0 .. TransientRetries, answer : SUBSET SplitParts]
WholeAnswer(answer) == \A split \in answer : Whole(split.ru) /\ Whole(split.en)
WholeRow(row) ==
    /\ row.state = "completed" => row.parts # NoSplit
    /\ row.flat = "parts" <=> row.parts # NoSplit
    /\ WholeAnswer(row.parts)
NamesInv ==
    /\ names \in [Authors -> {row \in NameRow : WholeRow(row)}]
    /\ asks \in [Authors -> {ask \in AskRow : WholeAnswer(ask.answer)}]
    /\ rounds \in 0 .. NameRuns

LEMMA NamesInvSays == NamesInv => NamesTypeOK
BY DEF NamesInv, NamesTypeOK, NameRow, AskRow

LEMMA NoAskType == NoAsk \in AskRow /\ WholeAnswer(NoAsk.answer)
BY AuthorNamesAssumption DEF NoAsk, AskRow, WholeAnswer, NoSplit

LEMMA NamesFirst == NamesInit => NamesInv
BY NoAskType, AuthorNamesAssumption DEF NamesInit, NamesInv, NameRow, WholeRow, WholeAnswer, NoSplit

\* What is saved of an answer is whole when the answer is.
LEMMA NamedWhole ==
    ASSUME NEW a \in Authors, NEW row \in NameRow, WholeRow(row),
           NEW answer \in SUBSET SplitParts, WholeAnswer(answer)
    PROVE  Named(row, a, answer) \in NameRow /\ WholeRow(Named(row, a, answer))
<1>1. Match(SpellingsOf[a]) \in Catalog \cup {NoWord}
  BY MatchType, AuthorNamesAssumption
<1> QED
  BY <1>1 DEF Named, NameRow, WholeRow, NoSplit

\* A question goes on whole, whatever becomes of it but its answer.
LEMMA AskChanged ==
    ASSUME NamesInv, NEW a \in Authors, NEW ask \in AskRow, WholeAnswer(ask.answer),
           asks' = [asks EXCEPT ![a] = ask], UNCHANGED <<names, rounds>>
    PROVE  NamesInv'
BY DEF NamesInv

LEMMA NamesStep == NamesInv /\ (NamesNext \/ UNCHANGED NameVars) => NamesInv'
<1> SUFFICES ASSUME NamesInv, NamesNext \/ UNCHANGED NameVars
             PROVE  NamesInv'
  OBVIOUS
<1>0. /\ \A a \in Authors : names[a] \in NameRow /\ WholeRow(names[a])
      /\ \A a \in Authors : asks[a] \in AskRow /\ WholeAnswer(asks[a].answer)
  BY DEF NamesInv
<1>8. SemanticAttempts \in Nat /\ 1 <= SemanticAttempts
  BY AuthorNamesAssumption
<1>1. ASSUME NEW force \in BOOLEAN, NamesStart(force)
      PROVE  NamesInv'
  <2> DEFINE todo == {a \in Authors : force \/ names[a].state \in {"none", "failed"}}
             Empty(row) == [row EXCEPT !.state = "empty"]
             Queued == [NoAsk EXCEPT !.pc = "queued"]
  <2>1. ASSUME NEW a \in Authors
        PROVE  Empty(names[a]) \in NameRow /\ WholeRow(Empty(names[a]))
    BY <1>0 DEF NameRow, WholeRow
  <2>2. Queued \in AskRow /\ WholeAnswer(Queued.answer)
    BY NoAskType DEF NoAsk, AskRow
  <2>3. names' = [a \in Authors |-> IF a \in todo /\ SpellingsOf[a] = <<>>
                                    THEN Empty(names[a]) ELSE names[a]]
    BY <1>1 DEF NamesStart
  <2>4. asks' = [a \in Authors |-> IF a \in todo /\ SpellingsOf[a] # <<>> THEN Queued ELSE NoAsk]
    BY <1>1 DEF NamesStart
  <2>5. rounds' \in 0 .. NameRuns
    BY <1>1, AuthorNamesAssumption DEF NamesStart, NamesInv
  <2> HIDE DEF todo, Empty, Queued
  <2> QED
    BY <1>0, <2>1, <2>2, <2>3, <2>4, <2>5, NoAskType DEF NamesInv
<1>2. CASE Interrupted
  BY <1>2, NoAskType DEF Interrupted, NamesInv
<1>3. ASSUME NEW a \in Authors, Ask(a)
      PROVE  NamesInv'
  <2> DEFINE ask == [asks[a] EXCEPT !.pc = "asking", !.attempt = 1]
  <2>0. asks[a] \in AskRow /\ 1 \in 0 .. SemanticAttempts
    BY <1>0, <1>8
  <2>1. ask \in AskRow /\ ask.answer = asks[a].answer
    BY <2>0 DEF AskRow
  <2>2. asks' = [asks EXCEPT ![a] = ask] /\ UNCHANGED <<names, rounds>>
    BY <1>3 DEF Ask, NamesInv
  <2> QED
    BY <1>0, <2>1, <2>2, AskChanged
<1>4. ASSUME NEW a \in Authors, ChatFails(a)
      PROVE  NamesInv'
  <2> DEFINE over == [asks[a] EXCEPT !.pc = "answered"]
             again == [asks[a] EXCEPT !.tries = @ + 1]
  <2>1. over \in AskRow /\ over.answer = asks[a].answer
    BY <1>0 DEF AskRow
  <2>2. asks[a].tries < TransientRetries => again \in AskRow /\ again.answer = asks[a].answer
    BY <1>0, AuthorNamesAssumption DEF AskRow
  <2>3. /\ \/ asks' = [asks EXCEPT ![a] = over]
           \/ asks[a].tries < TransientRetries /\ asks' = [asks EXCEPT ![a] = again]
        /\ UNCHANGED <<names, rounds>>
    BY <1>4 DEF ChatFails, NamesInv
  <2> QED
    BY <1>0, <2>1, <2>2, <2>3, AskChanged
<1>5. ASSUME NEW a \in Authors, SaveAnswer(a)
      PROVE  NamesInv'
  <2>1. LET row == Named(names[a], a, asks[a].answer) IN row \in NameRow /\ WholeRow(row)
    BY <1>0, NamedWhole DEF AskRow
  <2> QED
    BY <1>5, <2>1, NoAskType DEF SaveAnswer, NamesInv
<1>6. ASSUME NEW a \in Authors, NEW reply \in SplitReplies, ChatReplies(a, reply)
      PROVE  NamesInv'
  <2>1. PICK split \in {Validated(reply), NoSplit} :
            asks' = IF split = NoSplit /\ asks[a].attempt < SemanticAttempts
                    THEN [asks EXCEPT ![a].attempt = @ + 1, ![a].tries = 0]
                    ELSE [asks EXCEPT ![a].pc = "answered", ![a].answer = split]
    BY <1>6 DEF ChatReplies
  <2>2. split \in SUBSET SplitParts /\ WholeAnswer(split)
    BY <2>1, ValidatedWhole, SplitAssumption DEF NoSplit, WholeAnswer
  <2> DEFINE again == [asks[a] EXCEPT !.attempt = @ + 1, !.tries = 0]
             over == [asks[a] EXCEPT !.pc = "answered", !.answer = split]
  <2>0. asks[a] \in AskRow
    BY <1>0
  <2>3. ASSUME asks[a].attempt < SemanticAttempts
        PROVE  again \in AskRow /\ again.answer = asks[a].answer
    <3>1. asks[a].attempt + 1 \in 0 .. SemanticAttempts /\ 0 \in 0 .. TransientRetries
      BY <2>0, <2>3, <1>8, AuthorNamesAssumption DEF AskRow
    <3> QED
      BY <2>0, <3>1 DEF AskRow
  <2>4. over \in AskRow /\ over.answer = split
    BY <1>0, <2>2 DEF AskRow
  <2>5. UNCHANGED <<names, rounds>>
    BY <1>6 DEF ChatReplies
  <2>6. CASE split = NoSplit /\ asks[a].attempt < SemanticAttempts
    <3>1. asks' = [asks EXCEPT ![a] = again]
      BY <2>1, <2>6 DEF NamesInv
    <3> QED
      BY <1>0, <2>3, <2>5, <2>6, <3>1, AskChanged
  <2>7. CASE ~ (split = NoSplit /\ asks[a].attempt < SemanticAttempts)
    <3>1. asks' = [asks EXCEPT ![a] = over]
      BY <2>1, <2>7 DEF NamesInv
    <3> QED
      BY <2>2, <2>4, <2>5, <3>1, AskChanged
  <2> QED
    BY <2>6, <2>7
<1>7. CASE UNCHANGED NameVars
  BY <1>7 DEF NameVars, NamesInv
<1> QED
  BY <1>1, <1>2, <1>3, <1>4, <1>5, <1>6, <1>7 DEF NamesNext

\* A row becomes what SplitsStand says a row may become.
RowStands(was, is) ==
    /\ is.parts # was.parts => /\ is.state = "completed" /\ is.parts # NoSplit /\ is.flat = "parts"
                               /\ WholeAnswer(is.parts)
    /\ is.state = "completed" => is.parts # NoSplit
    /\ was.parts # NoSplit => is.flat = was.flat
    /\ was.degree # NoWord => is.degree = was.degree

\* What is saved of a failure, or of an answer, leaves a whole row standing.
LEMMA NamedStands ==
    ASSUME NEW a \in Authors, NEW row \in NameRow, WholeRow(row),
           NEW answer \in SUBSET SplitParts, WholeAnswer(answer)
    PROVE  RowStands(row, Named(row, a, answer))
<1> DEFINE record == Match(SpellingsOf[a])
           filled == [row EXCEPT !.degree = IF @ = NoWord THEN record ELSE @]
           failed == [filled EXCEPT !.flat = IF @ = "none" THEN "raw" ELSE @, !.state = "failed"]
           split == [filled EXCEPT !.parts = answer, !.flat = "parts", !.state = "completed"]
<1>1. filled.parts = row.parts /\ filled.flat = row.flat /\ (row.degree # NoWord => filled.degree = row.degree)
  BY DEF NameRow
<1>2. CASE answer = NoSplit
  <2>1. Named(row, a, answer) = failed
    BY <1>2 DEF Named
  <2>2. /\ failed.parts = row.parts /\ failed.state = "failed" /\ failed.degree = filled.degree
        /\ row.flat # "none" => failed.flat = row.flat
    BY <1>1 DEF NameRow
  <2>3. row.parts # NoSplit => row.flat = "parts"
    BY DEF WholeRow
  <2> QED
    BY <1>1, <2>1, <2>2, <2>3 DEF RowStands
<1>3. CASE answer # NoSplit
  <2>1. Named(row, a, answer) = split
    BY <1>3 DEF Named
  <2>2. split.parts = answer /\ split.state = "completed" /\ split.flat = "parts" /\ split.degree = filled.degree
    BY DEF NameRow
  <2>3. row.parts # NoSplit => row.flat = "parts"
    BY DEF WholeRow
  <2> QED
    BY <1>1, <1>3, <2>1, <2>2, <2>3 DEF RowStands
<1> QED BY <1>2, <1>3

\* Every step leaves the rows standing.
LEMMA NamesStepStands ==
    ASSUME NamesInv, NamesNext, NEW a \in Authors
    PROVE  RowStands(names[a], names'[a])
<1>0. names[a] \in NameRow /\ WholeRow(names[a]) /\ asks[a] \in AskRow /\ WholeAnswer(asks[a].answer)
  BY DEF NamesInv
<1>1. RowStands(names[a], names[a])
  BY <1>0 DEF RowStands, WholeRow
<1>2. CASE names' = names
  BY <1>1, <1>2
<1>3. ASSUME NEW force \in BOOLEAN, NamesStart(force)
      PROVE  RowStands(names[a], names'[a])
  <2> DEFINE Empty(row) == [row EXCEPT !.state = "empty"]
  <2>1. names'[a] \in {names[a], Empty(names[a])}
    BY <1>3 DEF NamesStart
  <2>2. RowStands(names[a], Empty(names[a]))
    BY <1>0 DEF RowStands, NameRow
  <2> QED BY <1>1, <2>1, <2>2
<1>4. ASSUME NEW b \in Authors, SaveAnswer(b)
      PROVE  RowStands(names[a], names'[a])
  <2>1. a # b => names'[a] = names[a]
    BY <1>4 DEF SaveAnswer, NamesInv
  <2>2. a = b => names'[a] = Named(names[a], a, asks[a].answer)
    BY <1>4 DEF SaveAnswer, NamesInv
  <2>3. RowStands(names[a], Named(names[a], a, asks[a].answer))
    BY <1>0, NamedStands DEF AskRow
  <2> QED BY <1>1, <2>1, <2>2, <2>3
<1> QED
  BY <1>2, <1>3, <1>4 DEF NamesNext, Interrupted, Ask, ChatFails, ChatReplies

LEMMA NamesInvHolds == Spec => []NamesInv
<1>1. Init => NamesInv
  BY NamesFirst DEF Init
<1>2. NamesInv /\ [Next]_vars => NamesInv'
  <2>1. [Next]_vars => NamesNext \/ UNCHANGED NameVars
    BY DEF Next, GroupNext, vars
  <2> QED
    BY <2>1, NamesStep
<1> QED
  BY <1>1, <1>2, PTL DEF Spec

\* Whoever the authors are and whatever the model answers, no step puts anything
\* in the place of a split but another whole one: a repeat that fails leaves the
\* parts, the name and the degree (AuthorNamesStage.run, required_name_field_issues).
THEOREM SplitsStandThrough == Spec => SplitsStand
<1> DEFINE Stands == \A a \in Authors : RowStands(names[a], names'[a])
<1>1. NamesInv /\ [Next]_vars => [Stands]_names
  <2> SUFFICES ASSUME NamesInv, [Next]_vars, names' # names PROVE Stands
    OBVIOUS
  <2>1. NamesNext
    BY DEF Next, GroupNext, vars, NameVars
  <2> QED
    BY <2>1, NamesStepStands
<1>2. Spec => [][Stands]_names
  BY <1>1, NamesInvHolds, PTL DEF Spec
<1>3. [Stands]_names => [\A a \in Authors :
         LET was == names[a]
             is == names'[a]
         IN /\ is.parts # was.parts =>
                  /\ is.state = "completed" /\ is.parts # NoSplit /\ is.flat = "parts"
                  /\ \A split \in is.parts : Whole(split.ru) /\ Whole(split.en)
            /\ is.state = "completed" => is.parts # NoSplit
            /\ was.parts # NoSplit => is.flat = was.flat
            /\ was.degree # NoWord => is.degree = was.degree]_names
  BY DEF RowStands, WholeAnswer
<1> QED
  BY <1>2, <1>3, PTL DEF SplitsStand

-----------------------------------------------------------------------------
(* How requests keep what a host allows. *)

Call == [pc : Pcs, host : Hosts, first : Hosts, attempt : 0 .. Retries, hops : 0 .. MaxRedirects,
         reply : HttpReplies \cup {NoReply}, left : 0 .. Max({MaxQuiet, MaxGap})]
Within == {"inside", "restricting", "pausing", "leaving"}
OfAHost == {"checking", "waiting", "parked"} \cup Within

\* A thread that has to do with a host's limits has met the host; a pause is
\* begun only for an answer that states one, another attempt only awaited while
\* there is one left.
CallFits(call) ==
    /\ call.pc \in OfAHost => hosts[call.host] # Unmet
    /\ call.pc = "pausing" => RetryDelay(call) # {}
    /\ call.pc = "sleeping" => MayRetry(call)
\* What the limiter has written down of a host covers what the host has asked:
\* the requests under way are counted, the quiet is not cut short, the next start
\* is as far from the last one as the gap.
HostCovered(h) ==
    /\ hosts[h] = Unmet => UnderWay(h) = {} /\ quiet[h] = 0
    /\ hosts[h] # Unmet => /\ hosts[h].flying = Cardinality(UnderWay(h))
                           /\ quiet[h] <= hosts[h].paused
                           /\ hosts[h].gap <= hosts[h].since + hosts[h].next
HttpInv ==
    /\ HttpTypeOK
    /\ \A t \in Threads : CallFits(calls[t])
    /\ \A h \in Hosts : HostCovered(h)

\* Powers of two are naturals: they count the subsets of an interval.
LEMMA PowerOfTwo ==
    ASSUME NEW n \in Nat
    PROVE  2 ^ n \in Nat
<1>1. IsFiniteSet(1 .. n) /\ Cardinality(1 .. n) = n
  BY FS_Interval
<1>2. IsFiniteSet(SUBSET (1 .. n)) /\ Cardinality(SUBSET (1 .. n)) = 2 ^ n
  BY <1>1, FS_SUBSET
<1> QED
  BY <1>2, FS_CardinalityType

LEMMA Bounds ==
    /\ MaxGap \in Nat /\ MaxQuiet \in Nat /\ MaxBackoff \in Nat /\ MaxBackoff <= MaxQuiet
    /\ Minute \in Nat /\ Minute <= MaxQuiet /\ Retries \in Nat /\ MaxRedirects \in Nat
    /\ Max({MaxQuiet, MaxGap}) \in Nat
    /\ MaxQuiet <= Max({MaxQuiet, MaxGap}) /\ MaxGap <= Max({MaxQuiet, MaxGap})
    /\ IsFiniteSet(Threads) /\ Cardinality(Threads) \in Nat /\ NoCap \in Nat
<1>1. /\ MaxGap \in Nat /\ MaxQuiet \in Nat /\ MaxBackoff \in Nat /\ MaxBackoff <= MaxQuiet
      /\ Minute \in Nat /\ Minute <= MaxQuiet /\ Retries \in Nat /\ MaxRedirects \in Nat
      /\ IsFiniteSet(Threads)
  BY LimiterAssumption, HttpAssumption
<1> QED
  BY <1>1, MaxOfTwo, FS_CardinalityType DEF NoCap

\* A wait before another attempt is no longer than the longest pause.
LEMMA BackoffType ==
    ASSUME NEW n \in Nat
    PROVE  Backoff(n) \in 0 .. MaxQuiet
BY Bounds, PowerOfTwo, MinOfTwo DEF Backoff

LEMMA ReplyType ==
    ASSUME NEW reply \in HttpReplies \cup {NoReply}
    PROVE  /\ reply \in HttpReplySet /\ reply.after \subseteq 0 .. MaxQuiet
           /\ reply.reset = {} \/ \E s \in 0 .. MaxQuiet : reply.reset = {s}
           /\ reply.limit \subseteq Limits /\ reply.to \in Hosts
<1>1. NoReply \in HttpReplySet
  BY HttpAssumption DEF NoReply, HttpReplySet, Statuses, Waits
<1>2. reply \in HttpReplySet
  BY <1>1, HttpAssumption
<1> QED
  BY <1>2 DEF HttpReplySet, Waits

LEMMA RetryDelayType ==
    ASSUME NEW call \in Call
    PROVE  RetryDelay(call) \subseteq 0 .. MaxQuiet
<1> DEFINE reply == call.reply
           back == Backoff(call.attempt)
<1>1. back \in 0 .. MaxQuiet
  BY BackoffType, Bounds DEF Call
<1>2. /\ reply.after \subseteq 0 .. MaxQuiet
      /\ reply.reset = {} \/ \E s \in 0 .. MaxQuiet : reply.reset = {s}
  BY ReplyType DEF Call
<1>3. Max({back} \cup reply.reset) \in 0 .. MaxQuiet
  <2>1. CASE reply.reset = {}
    <3>1. {back} \cup reply.reset = {back}
      BY <2>1
    <3> QED BY <1>1, <3>1, MaxOfOne
  <2>2. ASSUME NEW s \in 0 .. MaxQuiet, reply.reset = {s}
        PROVE  Max({back} \cup reply.reset) \in 0 .. MaxQuiet
    <3>1. {back} \cup reply.reset = {back, s}
      BY <2>2
    <3> QED BY <1>1, <3>1, MaxOfTwo, Bounds
  <2> QED BY <1>2, <2>1, <2>2
<1>4. Max({back, Minute}) \in 0 .. MaxQuiet
  BY <1>1, Bounds, MaxOfTwo
<1> HIDE DEF back
<1>5. GithubDelay(reply, back) \subseteq 0 .. MaxQuiet
  BY <1>1, <1>2, <1>3, <1>4 DEF GithubDelay
<1> QED
  BY <1>1, <1>2, <1>5 DEF RetryDelay, back

\* Ceilings an answer states are taken where they are stricter; what the host has
\* asked stays covered.
LEMMA TightenedKeeps ==
    ASSUME NEW state \in HostStates, NEW limit \in Limits
    PROVE  LET tight == Tightened(state, limit)
           IN /\ tight \in HostStates
              /\ tight.flying = state.flying /\ tight.paused = state.paused
              /\ state.gap <= state.since + state.next => tight.gap <= tight.since + tight.next
<1> DEFINE gap == Max({state.gap, limit.gap})
           cap == Min({state.cap, limit.cap})
           far == Max({state.next, Gap(gap, state.since)})
           next == IF gap = state.gap /\ cap = state.cap THEN state.next ELSE far
<1>1. /\ state.gap \in 0 .. MaxGap /\ limit.gap \in 0 .. MaxGap
      /\ state.cap \in 1 .. NoCap /\ limit.cap \in 1 .. NoCap
      /\ state.next \in 0 .. MaxGap /\ state.since \in 0 .. MaxGap
  BY DEF HostStates, Limits
<1>2. gap \in 0 .. MaxGap /\ cap \in 1 .. NoCap
  BY <1>1, Bounds, MaxOfTwo, MinOfTwo
<1>3. Gap(gap, state.since) \in 0 .. MaxGap /\ gap <= state.since + Gap(gap, state.since)
  BY <1>1, <1>2, Bounds DEF Gap
<1>4. far \in 0 .. MaxGap /\ gap <= state.since + far
  BY <1>1, <1>2, <1>3, Bounds, MaxOfTwo
<1>5. Tightened(state, limit) = [state EXCEPT !.gap = gap, !.cap = cap, !.next = next]
  BY DEF Tightened, Stricter
<1> HIDE DEF gap, cap, far
<1> QED
  BY <1>1, <1>2, <1>4, <1>5 DEF HostStates

\* A notice makes waiting threads look again and leaves the others alone.
LEMMA NotifiedKeeps ==
    ASSUME NEW table \in [Threads -> Call], NEW h
    PROVE  /\ Notified(table, h) \in [Threads -> Call]
           /\ \A t \in Threads : \/ Notified(table, h)[t] = table[t]
                                 \/ /\ table[t].pc \in {"waiting", "parked"}
                                    /\ Notified(table, h)[t].pc = "checking"
                                    /\ Notified(table, h)[t].host = table[t].host
<1>1. ASSUME NEW t \in Threads
      PROVE  LET call == [table[t] EXCEPT !.pc = "checking", !.left = 0]
             IN call \in Call /\ call.pc = "checking" /\ call.host = table[t].host
  <2>1. table[t] \in Call /\ 0 \in 0 .. Max({MaxQuiet, MaxGap})
    BY Bounds
  <2> QED
    BY <2>1 DEF Call, Pcs
<1> QED
  BY <1>1 DEF Notified

\* Who counts as under way at a host stays so where no call enters or leaves.
LEMMA SameUnderWay ==
    ASSUME NEW h \in Hosts,
           \A t \in Threads : /\ calls[t].pc \in Within <=> calls'[t].pc \in Within
                              /\ calls[t].pc \in Within => calls'[t].host = calls[t].host
    PROVE  UnderWay(h)' = UnderWay(h)
BY DEF UnderWay, Within

LEMMA UnderWayType ==
    \A h \in Hosts : IsFiniteSet(UnderWay(h)) /\ Cardinality(UnderWay(h)) \in 0 .. Cardinality(Threads)
<1> SUFFICES ASSUME NEW h \in Hosts
             PROVE  IsFiniteSet(UnderWay(h)) /\ Cardinality(UnderWay(h)) \in 0 .. Cardinality(Threads)
  OBVIOUS
<1>1. UnderWay(h) \subseteq Threads
  BY DEF UnderWay
<1> QED
  BY <1>1, Bounds, FS_Subset, FS_CardinalityType

\* What the invariant gives a step of a thread.
LEMMA HttpTypes ==
    HttpInv => /\ calls \in [Threads -> Call] /\ hosts \in [Hosts -> HostStates \cup {Unmet}]
               /\ quiet \in [Hosts -> 0 .. MaxQuiet]
BY DEF HttpInv, HttpTypeOK, LimiterTypeOK, Call

\* A step that changes what threads are at, but no host, nobody's way in or out
\* and no one's call to one that does not fit, keeps the invariant.
LEMMA CallsMove ==
    ASSUME HttpInv, calls' \in [Threads -> Call], UNCHANGED <<hosts, quiet>>,
           \A t \in Threads : /\ calls[t].pc \in Within <=> calls'[t].pc \in Within
                              /\ calls[t].pc \in Within => calls'[t].host = calls[t].host
                              /\ CallFits(calls'[t])
    PROVE  HttpInv'
<1>1. HttpTypeOK'
  BY HttpTypes DEF HttpTypeOK, LimiterTypeOK, Call
<1>2. \A t \in Threads : CallFits(calls[t])'
  BY DEF CallFits
<1>3. \A h \in Hosts : HostCovered(h)'
  BY SameUnderWay DEF HttpInv, HostCovered
<1> QED
  BY <1>1, <1>2, <1>3 DEF HttpInv

\* What a thread takes up or goes on with after an answer.
LEMMA NoCallType == NoCall \in Call /\ NoCall.pc = "idle"
<1>1. (CHOOSE h \in Hosts : TRUE) \in Hosts
  BY HttpAssumption
<1> QED
  BY <1>1, Bounds DEF NoCall, Call, Pcs

LEMMA AfterAnswerType ==
    ASSUME NEW call \in Call
    PROVE  /\ AfterAnswer(call) \in Call
           /\ AfterAnswer(call).pc \in {"resolving", "sleeping", "done"}
           /\ CallFits(AfterAnswer(call))
<1> DEFINE gone == call.reply.status = "lost" \/ (call.reply.status = "moved" /\ call.hops = MaxRedirects)
           delays == IF gone THEN {Backoff(call.attempt)} ELSE RetryDelay(call)
           moved == [call EXCEPT !.reply = NoReply, !.left = 0, !.pc = "resolving",
                                 !.host = call.reply.to, !.hops = @ + 1]
           asleep == [call EXCEPT !.reply = NoReply, !.left = CHOOSE s \in delays : TRUE, !.pc = "sleeping"]
           done == [call EXCEPT !.reply = NoReply, !.left = 0, !.pc = "done"]
<1>1. call.attempt \in Nat /\ call.hops \in 0 .. MaxRedirects /\ call.reply.to \in Hosts
  BY ReplyType, Bounds DEF Call
<1>2. delays \subseteq 0 .. Max({MaxQuiet, MaxGap})
  BY <1>1, BackoffType, RetryDelayType, Bounds
<1>3. 0 \in 0 .. Max({MaxQuiet, MaxGap})
  BY Bounds
<1>4. done \in Call
  BY <1>3 DEF Call, Pcs
<1>5. delays # {} => asleep \in Call
  <2>1. delays # {} => (CHOOSE s \in delays : TRUE) \in 0 .. Max({MaxQuiet, MaxGap})
    BY <1>2
  <2> QED
    BY <2>1 DEF Call, Pcs
<1>6. call.reply.status = "moved" /\ ~gone => moved \in Call
  <2>1. call.reply.status = "moved" /\ ~gone => call.hops + 1 \in 0 .. MaxRedirects
    BY <1>1, Bounds
  <2> QED
    BY <1>1, <1>3, <2>1 DEF Call, Pcs
<1>7. AfterAnswer(call) = IF call.reply.status = "moved" /\ ~gone THEN moved
                          ELSE IF MayRetry(call) /\ delays # {} THEN asleep ELSE done
  BY DEF AfterAnswer
<1>8. moved.pc = "resolving" /\ asleep.pc = "sleeping" /\ done.pc = "done"
  BY DEF Call
<1>9. MayRetry(call) => MayRetry(asleep)
  BY DEF MayRetry, Call
<1> HIDE DEF gone, delays, moved, asleep, done
<1> QED
  BY <1>4, <1>5, <1>6, <1>7, <1>8, <1>9 DEF CallFits, OfAHost, Within

LEMMA HttpInvMade ==
    ASSUME calls' \in [Threads -> Call], hosts' \in [Hosts -> HostStates \cup {Unmet}],
           quiet' \in [Hosts -> 0 .. MaxQuiet],
           \A t \in Threads : CallFits(calls[t])', \A h \in Hosts : HostCovered(h)'
    PROVE  HttpInv'
BY DEF HttpInv, HttpTypeOK, LimiterTypeOK, Call

LEMMA BeginKeeps ==
    ASSUME HttpInv, NEW t \in Threads, NEW h \in Starts, Begin(t, h)
    PROVE  HttpInv'
<1> DEFINE call == [NoCall EXCEPT !.pc = "resolving", !.host = h, !.first = h]
<1>1. call \in Call /\ call.pc = "resolving"
  BY NoCallType, HttpAssumption DEF Call, Pcs
<1>2. calls' = [calls EXCEPT ![t] = call] /\ calls[t].pc = "idle" /\ UNCHANGED <<hosts, quiet>>
  BY DEF Begin
<1> HIDE DEF call
<1> QED
  BY <1>1, <1>2, HttpTypes, CallsMove DEF HttpInv, CallFits, Within, OfAHost

LEMMA WakeUpKeeps ==
    ASSUME HttpInv, NEW t \in Threads, WakeUp(t)
    PROVE  HttpInv'
<1> DEFINE call == [calls[t] EXCEPT !.pc = "checking"]
<1>0. calls[t] \in Call /\ CallFits(calls[t])
  BY HttpTypes DEF HttpInv
<1>1. call \in Call /\ call.pc = "checking" /\ call.host = calls[t].host
  BY <1>0 DEF Call, Pcs
<1>2. calls' = [calls EXCEPT ![t] = call] /\ calls[t].pc = "waiting" /\ UNCHANGED <<hosts, quiet>>
  BY DEF WakeUp
<1>3. CallFits(call)
  BY <1>0, <1>1, <1>2 DEF CallFits, OfAHost
<1> HIDE DEF call
<1> QED
  BY <1>1, <1>2, <1>3, HttpTypes, CallsMove DEF HttpInv, Within

LEMMA RetryKeeps ==
    ASSUME HttpInv, NEW t \in Threads, Retry(t)
    PROVE  HttpInv'
<1> DEFINE call == [calls[t] EXCEPT !.pc = "resolving", !.host = calls[t].first, !.hops = 0, !.attempt = @ + 1]
<1>0. calls[t] \in Call /\ MayRetry(calls[t])
  BY HttpTypes DEF HttpInv, CallFits, Retry
<1>1. calls[t].attempt + 1 \in 0 .. Retries /\ 0 \in 0 .. MaxRedirects
  BY <1>0, Bounds DEF MayRetry, Call
<1>2. call \in Call /\ call.pc = "resolving"
  BY <1>0, <1>1 DEF Call, Pcs
<1>3. calls' = [calls EXCEPT ![t] = call] /\ calls[t].pc = "sleeping" /\ UNCHANGED <<hosts, quiet>>
  BY HttpTypes DEF Retry
<1> HIDE DEF call
<1> QED
  BY <1>2, <1>3, HttpTypes, CallsMove DEF HttpInv, CallFits, Within, OfAHost

LEMMA AnswerKeeps ==
    ASSUME HttpInv, NEW t \in Threads, NEW reply \in HttpReplies, AnswerArrives(t, reply)
    PROVE  HttpInv'
<1> DEFINE answered == [calls[t] EXCEPT !.reply = reply]
           onward == [answered EXCEPT !.pc = IF reply.status = "lost" THEN "leaving" ELSE "restricting"]
<1>0. calls[t] \in Call /\ CallFits(calls[t])
  BY HttpTypes DEF HttpInv
<1>1. answered \in Call /\ answered.pc = calls[t].pc
  BY <1>0 DEF Call
<1>2. onward \in Call /\ onward.host = calls[t].host /\ onward.pc \in {"leaving", "restricting"}
  BY <1>0 DEF Call, Pcs
<1>3. /\ AfterAnswer(answered) \in Call /\ CallFits(AfterAnswer(answered))
      /\ AfterAnswer(answered).pc \in {"resolving", "sleeping", "done"}
  BY <1>1, AfterAnswerType
<1>4. /\ calls[t].pc \in {"inside", "outside"} /\ UNCHANGED <<hosts, quiet>>
      /\ calls' = [calls EXCEPT ![t] = IF calls[t].pc = "outside" THEN AfterAnswer(answered) ELSE onward]
  BY <1>1 DEF AnswerArrives
<1> HIDE DEF answered, onward
<1>5. CASE calls[t].pc = "outside"
  <2>1. calls' = [calls EXCEPT ![t] = AfterAnswer(answered)]
    BY <1>4, <1>5
  <2> QED
    BY <1>3, <1>4, <1>5, <2>1, HttpTypes, CallsMove DEF HttpInv, CallFits, Within, OfAHost
<1>6. CASE calls[t].pc = "inside"
  <2>1. calls' = [calls EXCEPT ![t] = onward]
    BY <1>4, <1>6
  <2> QED
    BY <1>0, <1>2, <1>4, <1>6, <2>1, HttpTypes, CallsMove DEF HttpInv, CallFits, Within, OfAHost
<1> QED
  BY <1>4, <1>5, <1>6

\* Ceilings taken for a host that is known, while a thread goes on without coming
\* or going at any host.
LEMMA TightenKeeps ==
    ASSUME HttpInv, NEW h \in Hosts, hosts[h] # Unmet, NEW limit \in Limits,
           NEW table \in [Threads -> Call], Tighten(h, limit, table), UNCHANGED quiet,
           \A t \in Threads : /\ calls[t].pc \in Within <=> table[t].pc \in Within
                              /\ calls[t].pc \in Within => table[t].host = calls[t].host
                              /\ CallFits(table[t])
    PROVE  HttpInv'
<1> DEFINE tight == Tightened(hosts[h], limit)
<1>1. hosts[h] \in HostStates
  BY HttpTypes
<1>2. /\ tight \in HostStates /\ tight # Unmet
      /\ tight.flying = hosts[h].flying /\ tight.paused = hosts[h].paused
      /\ hosts[h].gap <= hosts[h].since + hosts[h].next => tight.gap <= tight.since + tight.next
  BY <1>1, TightenedKeeps, LimiterAssumption
<1>3. hosts' = [hosts EXCEPT ![h] = tight]
  BY DEF Tighten
<1>4. calls' = table \/ calls' = Notified(table, h)
  BY DEF Tighten
<1>5. /\ calls' \in [Threads -> Call]
      /\ \A t \in Threads : \/ calls'[t] = table[t]
                            \/ /\ table[t].pc \in {"waiting", "parked"} /\ calls'[t].pc = "checking"
                               /\ calls'[t].host = table[t].host
  BY <1>4, NotifiedKeeps
<1> HIDE DEF tight
<1>6. \A g \in Hosts : hosts[g] # Unmet <=> hosts'[g] # Unmet
  BY <1>2, <1>3, HttpTypes
<1>7. \A t \in Threads : CallFits(calls[t])'
  BY <1>5, <1>6 DEF CallFits, OfAHost, Call
<1>8. \A g \in Hosts : UnderWay(g)' = UnderWay(g)
  BY <1>5, SameUnderWay DEF Within
<1>9. \A g \in Hosts : HostCovered(g)'
  BY <1>2, <1>3, <1>6, <1>8, HttpTypes DEF HttpInv, HostCovered
<1> QED
  BY <1>2, <1>3, <1>5, <1>7, <1>9, HttpTypes, HttpInvMade

LEMMA ResolveKeeps ==
    ASSUME HttpInv, NEW t \in Threads, Resolve(t)
    PROVE  HttpInv'
<1> DEFINE h == calls[t].host
           outside == [calls[t] EXCEPT !.pc = "outside"]
           asking == [calls[t] EXCEPT !.pc = "checking", !.host = h]
<1>0. calls[t] \in Call /\ h \in Hosts /\ calls[t].pc = "resolving" /\ UNCHANGED quiet
  BY HttpTypes DEF Resolve, Call
<1>1. /\ outside \in Call /\ outside.pc = "outside"
      /\ asking \in Call /\ asking.pc = "checking" /\ asking.host = h
  BY <1>0 DEF Call, Pcs
<1>2. CASE LimitOf[h] = NoLimit
  <2>1. calls' = [calls EXCEPT ![t] = outside] /\ UNCHANGED hosts
    BY <1>2 DEF Resolve
  <2> HIDE DEF outside
  <2> QED
    BY <1>0, <1>1, <2>1, HttpTypes, CallsMove DEF HttpInv, CallFits, Within, OfAHost
<1>3. CASE LimitOf[h] # NoLimit
  <2>1. LimitOf[h] \in Limits
    BY <1>0, <1>3, LimiterAssumption
  <2>2. Register(t, h)
    BY <1>3 DEF Resolve
  <2> DEFINE table == [calls EXCEPT ![t] = asking]
             new == [gap |-> LimitOf[h].gap, cap |-> LimitOf[h].cap, next |-> 0, paused |-> 0,
                     since |-> MaxGap, flying |-> 0]
  <2>3. table \in [Threads -> Call]
    BY <1>1, HttpTypes
  <2>4. [calls EXCEPT ![t].pc = "checking", ![t].host = h] = table
    BY HttpTypes
  <2>5. CASE hosts[h] = Unmet
    <3>1. new \in HostStates /\ new.flying = 0 /\ new.paused = 0 /\ new.gap <= new.since + new.next
      BY <2>1, Bounds DEF HostStates, Limits
    <3>2. new # Unmet
      BY <3>1, LimiterAssumption
    <3>3. hosts' = [hosts EXCEPT ![h] = new] /\ calls' = table
      BY <2>2, <2>4, <2>5 DEF Register
    <3> HIDE DEF asking, new
    <3>4. calls'[t] = asking /\ \A u \in Threads \ {t} : calls'[u] = calls[u]
      BY <3>3, HttpTypes
    <3>5. \A g \in Hosts : hosts[g] # Unmet => hosts'[g] # Unmet
      BY <2>5, <3>3, HttpTypes
    <3>6. \A u \in Threads : CallFits(calls[u])'
      <4>1. ASSUME NEW u \in Threads, u # t PROVE CallFits(calls[u])'
        BY <3>4, <3>5, <4>1, HttpTypes DEF HttpInv, CallFits, Call
      <4>2. CallFits(calls[t])'
        BY <1>0, <1>1, <3>2, <3>3, <3>4, HttpTypes DEF CallFits
      <4> QED BY <4>1, <4>2
    <3>7. \A g \in Hosts : UnderWay(g)' = UnderWay(g)
      BY <1>0, <1>1, <3>4, SameUnderWay DEF Within
    <3>8. Cardinality(UnderWay(h)) = 0 /\ quiet[h] = 0
      BY <1>0, <2>5, FS_EmptySet DEF HttpInv, HostCovered
    <3>9. \A g \in Hosts : HostCovered(g)'
      BY <1>0, <2>5, <3>1, <3>2, <3>3, <3>7, <3>8, HttpTypes DEF HttpInv, HostCovered
    <3> QED
      BY <1>0, <2>3, <3>1, <3>3, <3>6, <3>9, HttpTypes, HttpInvMade
  <2>6. CASE hosts[h] # Unmet
    <3>1. Tighten(h, LimitOf[h], table)
      BY <2>2, <2>4, <2>6 DEF Register
    <3>2. CallFits(asking)
      BY <1>1, <2>6 DEF CallFits
    <3> HIDE DEF asking
    <3>3. table[t] = asking /\ \A u \in Threads \ {t} : table[u] = calls[u]
      BY HttpTypes
    <3>4. \A u \in Threads : /\ calls[u].pc \in Within <=> table[u].pc \in Within
                             /\ calls[u].pc \in Within => table[u].host = calls[u].host
                             /\ CallFits(table[u])
      BY <1>0, <1>1, <3>2, <3>3 DEF HttpInv, Within
    <3> HIDE DEF table, h
    <3> QED
      BY <1>0, <2>1, <2>3, <2>6, <3>1, <3>4, TightenKeeps
  <2> QED BY <2>5, <2>6
<1> QED BY <1>2, <1>3

LEMMA AdmitKeeps ==
    ASSUME HttpInv, NEW t \in Threads, Admit(t)
    PROVE  HttpInv'
<1>a. PICK h \in Hosts : h = calls[t].host
  BY HttpTypes DEF Call
<1> DEFINE state == hosts[h]
           room == state.flying < state.cap /\ Ready(state) = 0
           inside == [calls[t] EXCEPT !.pc = "inside"]
           held == [calls[t] EXCEPT !.pc = IF Ready(state) = 0 THEN "parked" ELSE "waiting",
                                    !.left = Ready(state)]
           taken == [state EXCEPT !.flying = @ + 1, !.since = 0, !.next = state.gap]
<1>0. /\ calls[t] \in Call /\ calls[t].pc = "checking" /\ CallFits(calls[t])
      /\ UNCHANGED quiet
  BY HttpTypes DEF Admit, HttpInv
<1>1. state \in HostStates
  BY <1>0, <1>a, HttpTypes DEF CallFits, OfAHost
<1>2. state.next \in 0 .. MaxGap /\ state.paused \in 0 .. MaxQuiet
  BY <1>1 DEF HostStates
<1>3. Ready(state) \in 0 .. Max({MaxQuiet, MaxGap})
  BY <1>2, Bounds, MaxOfTwo DEF Ready
<1>4. CASE room
  <2>1. calls' = [calls EXCEPT ![t] = inside] /\ hosts' = [hosts EXCEPT ![h] = taken]
    BY <1>a, <1>4, HttpTypes DEF Admit
  <2>2. inside \in Call /\ inside.pc = "inside" /\ inside.host = h
    BY <1>0, <1>a DEF Call, Pcs
  <2>3. UnderWay(h)' = UnderWay(h) \cup {t} /\ t \notin UnderWay(h)
    BY <1>0, <1>a, <2>1, <2>2, HttpTypes DEF UnderWay
  <2>4. \A g \in Hosts \ {h} : UnderWay(g)' = UnderWay(g)
    BY <1>0, <1>a, <2>1, <2>2, HttpTypes DEF UnderWay
  <2>5. Cardinality(UnderWay(h)') = Cardinality(UnderWay(h)) + 1
    BY <1>0, <2>3, UnderWayType, FS_AddElement
  <2>6. state.flying = Cardinality(UnderWay(h)) /\ quiet[h] <= state.paused
    BY <1>0, <1>1, LimiterAssumption DEF HttpInv, HostCovered
  <2>7. Cardinality(UnderWay(h)') \in 0 .. Cardinality(Threads)
    <3>1. UnderWay(h)' \subseteq Threads
      BY <2>3 DEF UnderWay
    <3> QED
      BY <3>1, Bounds, FS_Subset, FS_CardinalityType
  <2>8. state.gap \in 0 .. MaxGap /\ state.flying + 1 \in 0 .. Cardinality(Threads) /\ 0 \in 0 .. MaxGap
    BY <1>1, <2>5, <2>6, <2>7, Bounds DEF HostStates
  <2>9. /\ taken \in HostStates /\ taken # Unmet /\ taken.flying = Cardinality(UnderWay(h)')
        /\ taken.paused = state.paused /\ taken.gap <= taken.since + taken.next
    <3>1. /\ taken \in HostStates /\ taken.flying = state.flying + 1 /\ taken.paused = state.paused
          /\ taken.gap = state.gap /\ taken.next = state.gap /\ taken.since = 0
      BY <1>1, <2>8 DEF HostStates
    <3> HIDE DEF taken
    <3> QED
      BY <2>5, <2>6, <2>8, <3>1, LimiterAssumption
  <2> HIDE DEF inside, taken
  <2>10. \A u \in Threads : CallFits(calls[u])'
    BY <1>0, <2>1, <2>2, <2>9, HttpTypes DEF HttpInv, CallFits, Call, OfAHost
  <2>11. \A g \in Hosts : HostCovered(g)'
    <3>1. HostCovered(h)'
      BY <1>0, <2>1, <2>6, <2>9, HttpTypes DEF HostCovered
    <3>2. ASSUME NEW g \in Hosts, g # h PROVE HostCovered(g)'
      BY <1>0, <2>1, <2>4, <3>2, HttpTypes DEF HttpInv, HostCovered
    <3> QED BY <3>1, <3>2
  <2> QED
    BY <1>0, <2>1, <2>2, <2>9, <2>10, <2>11, HttpTypes, HttpInvMade
<1>5. CASE ~room
  <2>1. calls' = [calls EXCEPT ![t] = held] /\ UNCHANGED hosts
    BY <1>a, <1>5, HttpTypes DEF Admit
  <2>2. held \in Call /\ held.pc \in {"parked", "waiting"} /\ held.host = h
    BY <1>0, <1>a, <1>3 DEF Call, Pcs
  <2>3. CallFits(held)
    BY <1>0, <1>a, <2>2 DEF CallFits, OfAHost
  <2> HIDE DEF held
  <2> QED
    BY <1>0, <2>1, <2>2, <2>3, HttpTypes, CallsMove DEF HttpInv, Within
<1> QED BY <1>4, <1>5

LEMMA ObserveLimitsKeeps ==
    ASSUME HttpInv, NEW t \in Threads, ObserveLimits(t)
    PROVE  HttpInv'
<1> DEFINE reply == calls[t].reply
           on == [calls[t] EXCEPT !.pc = IF AsksForQuiet(calls[t]) THEN "pausing" ELSE "leaving"]
           onward == [calls EXCEPT ![t] = on]
           limit == CHOOSE l \in reply.limit : TRUE
<1>0. /\ calls[t] \in Call /\ calls[t].host \in Hosts /\ calls[t].pc = "restricting"
      /\ hosts[calls[t].host] # Unmet
  BY HttpTypes DEF HttpInv, CallFits, ObserveLimits, OfAHost, Within, Call
<1>1. on \in Call /\ on.host = calls[t].host /\ on.pc \in {"pausing", "leaving"}
  BY <1>0 DEF Call, Pcs
<1>2. CallFits(on)
  <2>1. RetryDelay(on) = RetryDelay(calls[t])
    BY <1>0 DEF RetryDelay, Call
  <2>2. on.pc = "pausing" => AsksForQuiet(calls[t])
    BY <1>0 DEF Call
  <2> QED
    BY <1>0, <1>1, <2>1, <2>2 DEF CallFits, AsksForQuiet
<1>3. \/ reply.limit = {} /\ calls' = onward /\ UNCHANGED <<hosts, quiet>>
      \/ reply.limit # {} /\ Tighten(calls[t].host, limit, onward) /\ UNCHANGED quiet
  BY DEF ObserveLimits, RestrictHost
<1> HIDE DEF on
<1>4. /\ onward \in [Threads -> Call]
      /\ \A u \in Threads : /\ calls[u].pc \in Within <=> onward[u].pc \in Within
                            /\ calls[u].pc \in Within => onward[u].host = calls[u].host
                            /\ CallFits(onward[u])
  BY <1>0, <1>1, <1>2, HttpTypes DEF HttpInv, Within
<1>5. reply.limit # {} => limit \in Limits
  BY <1>0, ReplyType DEF Call
<1> HIDE DEF onward, limit
<1> QED
  BY <1>0, <1>3, <1>4, <1>5, CallsMove, TightenKeeps

LEMMA ObservePauseKeeps ==
    ASSUME HttpInv, NEW t \in Threads, ObservePause(t)
    PROVE  HttpInv'
<1>a. PICK h \in Hosts : h = calls[t].host
  BY HttpTypes DEF Call
<1> DEFINE seconds == CHOOSE s \in RetryDelay(calls[t]) : TRUE
           out == [calls[t] EXCEPT !.pc = "leaving"]
           table == [calls EXCEPT ![t] = out]
           longer == Max({hosts[h].paused, seconds})
           still == [hosts[h] EXCEPT !.paused = longer]
<1>0. /\ calls[t] \in Call /\ calls[t].pc = "pausing" /\ CallFits(calls[t])
      /\ hosts[h] \in HostStates
  BY <1>a, HttpTypes DEF HttpInv, CallFits, ObservePause, OfAHost, Within, Call
<1>1. seconds \in 0 .. MaxQuiet
  BY <1>0, RetryDelayType DEF CallFits
<1> HIDE DEF seconds
<1>2. /\ hosts[h].paused \in 0 .. MaxQuiet /\ quiet[h] \in 0 .. MaxQuiet
      /\ quiet[h] <= hosts[h].paused /\ hosts[h].flying = Cardinality(UnderWay(h))
      /\ hosts[h].gap <= hosts[h].since + hosts[h].next
  BY <1>0, HttpTypes, LimiterAssumption DEF HttpInv, HostCovered, HostStates
<1>3. /\ longer \in 0 .. MaxQuiet
      /\ Max({quiet[h], seconds}) \in 0 .. MaxQuiet /\ Max({quiet[h], seconds}) <= longer
  <2> DEFINE before == hosts[h].paused
             asked == quiet[h]
  <2>1. /\ before \in Nat /\ asked \in Nat /\ seconds \in Nat /\ MaxQuiet \in Nat
        /\ before <= MaxQuiet /\ asked <= before /\ seconds <= MaxQuiet
    BY <1>1, <1>2, Bounds
  <2> HIDE DEF before, asked
  <2>2. /\ Max({before, seconds}) = (IF before >= seconds THEN before ELSE seconds)
        /\ Max({asked, seconds}) = (IF asked >= seconds THEN asked ELSE seconds)
    BY <2>1, MaxOfTwo
  <2>3. /\ Max({before, seconds}) \in 0 .. MaxQuiet
        /\ Max({asked, seconds}) \in 0 .. MaxQuiet /\ Max({asked, seconds}) <= Max({before, seconds})
    BY <2>1, <2>2
  <2> QED BY <2>3 DEF before, asked
<1>4. /\ out \in Call /\ out.host = h /\ out.pc = "leaving"
      /\ table \in [Threads -> Call] /\ table = [calls EXCEPT ![t].pc = "leaving"]
  BY <1>0, <1>a, HttpTypes DEF Call, Pcs
<1>5. /\ still \in HostStates /\ still # Unmet /\ still.flying = hosts[h].flying
      /\ still.paused = longer /\ still.gap <= still.since + still.next
  <2>1. /\ still \in HostStates /\ still.flying = hosts[h].flying /\ still.paused = longer
        /\ still.gap = hosts[h].gap /\ still.since = hosts[h].since /\ still.next = hosts[h].next
    BY <1>0, <1>3 DEF HostStates
  <2> QED
    BY <1>2, <2>1, LimiterAssumption
<1>6. /\ hosts' = [hosts EXCEPT ![h] = still] /\ calls' = Notified(table, h)
      /\ quiet' = [quiet EXCEPT ![h] = Max({quiet[h], seconds})]
  BY <1>a, <1>4, HttpTypes DEF ObservePause, Pause, Paused, seconds
<1> HIDE DEF out, longer, still
<1>7. table[t] = out /\ \A u \in Threads \ {t} : table[u] = calls[u]
  BY HttpTypes
<1> HIDE DEF table
<1>8. /\ calls' \in [Threads -> Call]
      /\ \A u \in Threads : \/ calls'[u] = table[u]
                            \/ /\ table[u].pc \in {"waiting", "parked"} /\ calls'[u].pc = "checking"
                               /\ calls'[u].host = table[u].host
  <2>1. table \in [Threads -> Call]
    BY <1>4
  <2>2. calls' = Notified(table, h)
    BY <1>6
  <2> QED
    BY <2>1, <2>2, NotifiedKeeps
<1>9. \A g \in Hosts : hosts[g] # Unmet <=> hosts'[g] # Unmet
  BY <1>0, <1>5, <1>6, HttpTypes, LimiterAssumption
<1>10. \A u \in Threads : CallFits(calls[u])'
  <2>1. \A u \in Threads : CallFits(table[u])
    BY <1>0, <1>a, <1>4, <1>7 DEF HttpInv, CallFits, OfAHost, Within
  <2> QED
    BY <1>4, <1>8, <1>9, <2>1 DEF CallFits, OfAHost, Call
<1>11. \A g \in Hosts : UnderWay(g)' = UnderWay(g)
  BY <1>0, <1>a, <1>4, <1>7, <1>8, SameUnderWay DEF Within
<1>12. \A g \in Hosts : HostCovered(g)'
  <2>1. HostCovered(h)'
    BY <1>0, <1>2, <1>3, <1>5, <1>6, <1>11, HttpTypes DEF HostCovered
  <2>2. ASSUME NEW g \in Hosts, g # h PROVE HostCovered(g)'
    BY <1>6, <1>11, <2>2, HttpTypes DEF HttpInv, HostCovered
  <2> QED BY <2>1, <2>2
<1> QED
  BY <1>0, <1>3, <1>5, <1>6, <1>8, <1>10, <1>12, HttpTypes, HttpInvMade

LEMMA LeaveKeeps ==
    ASSUME HttpInv, NEW t \in Threads, Leave(t)
    PROVE  HttpInv'
<1>a. PICK h \in Hosts : h = calls[t].host
  BY HttpTypes DEF Call
<1> DEFINE after == AfterAnswer(calls[t])
           table == [calls EXCEPT ![t] = after]
           less == [hosts[h] EXCEPT !.flying = @ - 1]
<1>0. /\ calls[t] \in Call /\ calls[t].pc = "leaving" /\ CallFits(calls[t])
      /\ hosts[h] \in HostStates /\ UNCHANGED quiet
  BY <1>a, HttpTypes DEF HttpInv, CallFits, Leave, Release, OfAHost, Within
<1>1. /\ quiet[h] <= hosts[h].paused /\ hosts[h].flying = Cardinality(UnderWay(h))
      /\ hosts[h].gap <= hosts[h].since + hosts[h].next
  BY <1>0, LimiterAssumption DEF HttpInv, HostCovered
<1>2. /\ after \in Call /\ CallFits(after) /\ after.pc \in {"resolving", "sleeping", "done"}
      /\ table \in [Threads -> Call]
  BY <1>0, AfterAnswerType, HttpTypes
<1>3. hosts' = [hosts EXCEPT ![h] = less] /\ calls' = Notified(table, h)
  BY <1>a, HttpTypes DEF Leave, Release, Released
<1> HIDE DEF after
<1>4. table[t] = after /\ \A u \in Threads \ {t} : table[u] = calls[u]
  BY HttpTypes
<1> HIDE DEF table
<1>5. /\ calls' \in [Threads -> Call]
      /\ \A u \in Threads : \/ calls'[u] = table[u]
                            \/ /\ table[u].pc \in {"waiting", "parked"} /\ calls'[u].pc = "checking"
                               /\ calls'[u].host = table[u].host
  <2>1. table \in [Threads -> Call]
    BY <1>2
  <2>2. calls' = Notified(table, h)
    BY <1>3
  <2> QED
    BY <2>1, <2>2, NotifiedKeeps
<1>6. UnderWay(h)' = UnderWay(h) \ {t} /\ t \in UnderWay(h)
  BY <1>0, <1>a, <1>2, <1>4, <1>5 DEF UnderWay
<1>7. \A g \in Hosts \ {h} : UnderWay(g)' = UnderWay(g)
  BY <1>0, <1>a, <1>2, <1>4, <1>5 DEF UnderWay
<1>8. Cardinality(UnderWay(h)') = Cardinality(UnderWay(h)) - 1
  BY <1>6, UnderWayType, FS_RemoveElement
<1>9. hosts[h].flying - 1 \in 0 .. Cardinality(Threads)
  <2>1. IsFiniteSet(UnderWay(h)')
    BY <1>6, UnderWayType, FS_RemoveElement
  <2>2. Cardinality(UnderWay(h)') \in Nat
    BY <2>1, FS_CardinalityType
  <2>3. hosts[h].flying \in 0 .. Cardinality(Threads)
    BY <1>0 DEF HostStates
  <2> QED
    BY <1>1, <1>8, <2>2, <2>3, Bounds
<1>10. /\ less \in HostStates /\ less # Unmet /\ less.flying = Cardinality(UnderWay(h)')
       /\ less.paused = hosts[h].paused /\ less.gap <= less.since + less.next
  <2>1. /\ less \in HostStates /\ less.flying = hosts[h].flying - 1 /\ less.paused = hosts[h].paused
        /\ less.gap = hosts[h].gap /\ less.since = hosts[h].since /\ less.next = hosts[h].next
    BY <1>0, <1>9 DEF HostStates
  <2> HIDE DEF less
  <2> QED
    BY <1>1, <1>8, <2>1, LimiterAssumption
<1> HIDE DEF less
<1>11. \A g \in Hosts : hosts[g] # Unmet <=> hosts'[g] # Unmet
  BY <1>0, <1>3, <1>10, HttpTypes, LimiterAssumption
<1>12. \A u \in Threads : CallFits(calls[u])'
  <2>1. \A u \in Threads : CallFits(table[u])
    BY <1>2, <1>4 DEF HttpInv
  <2>2. \A u \in Threads : table[u].host \in Hosts
    BY <1>2 DEF Call
  <2> QED
    BY <1>5, <1>11, <2>1, <2>2 DEF CallFits, OfAHost
<1>13. \A g \in Hosts : HostCovered(g)'
  <2>1. HostCovered(h)'
    BY <1>0, <1>1, <1>3, <1>10, HttpTypes DEF HostCovered
  <2>2. ASSUME NEW g \in Hosts, g # h PROVE HostCovered(g)'
    BY <1>0, <1>3, <1>7, <2>2, HttpTypes DEF HttpInv, HostCovered
  <2> QED BY <2>1, <2>2
<1> QED
  BY <1>0, <1>3, <1>5, <1>10, <1>12, <1>13, HttpTypes, HttpInvMade

LEMMA ElapseKeeps ==
    ASSUME HttpInv, Elapse
    PROVE  HttpInv'
<1> DEFINE Later(call) == [call EXCEPT !.left = Less(@)]
           Then(state) == [state EXCEPT !.next = Less(@), !.paused = Less(@), !.since = Min({@ + 1, MaxGap})]
<1>1. ASSUME NEW call \in Call
      PROVE  Later(call) \in Call /\ Later(call).pc = call.pc /\ Later(call).host = call.host
             /\ (CallFits(call) => CallFits(Later(call)))
  <2>1. Less(call.left) \in 0 .. Max({MaxQuiet, MaxGap})
    BY Bounds DEF Call, Less
  <2>2. /\ Later(call) \in Call /\ Later(call).pc = call.pc /\ Later(call).host = call.host
        /\ Later(call).reply = call.reply /\ Later(call).first = call.first
        /\ Later(call).attempt = call.attempt
    BY <2>1 DEF Call
  <2> HIDE DEF Later
  <2>3. RetryDelay(Later(call)) = RetryDelay(call) /\ (MayRetry(Later(call)) <=> MayRetry(call))
    BY <2>2 DEF RetryDelay, MayRetry
  <2> QED
    BY <2>2, <2>3 DEF CallFits
<1>2. ASSUME NEW state \in HostStates
      PROVE  /\ Then(state) \in HostStates /\ Then(state).flying = state.flying
             /\ Then(state).paused = Less(state.paused)
             /\ state.gap <= state.since + state.next => Then(state).gap <= Then(state).since + Then(state).next
  <2>0. /\ state.gap \in 0 .. MaxGap /\ state.next \in 0 .. MaxGap /\ state.since \in 0 .. MaxGap
        /\ state.paused \in 0 .. MaxQuiet
    BY DEF HostStates
  <2>1. Min({state.since + 1, MaxGap}) = IF state.since + 1 <= MaxGap THEN state.since + 1 ELSE MaxGap
    BY <2>0, Bounds, MinOfTwo
  <2>2. /\ Less(state.next) \in 0 .. MaxGap /\ Less(state.paused) \in 0 .. MaxQuiet
        /\ Min({state.since + 1, MaxGap}) \in 0 .. MaxGap
    BY <2>0, <2>1, Bounds DEF Less
  <2>3. /\ Then(state) \in HostStates /\ Then(state).flying = state.flying
        /\ Then(state).paused = Less(state.paused) /\ Then(state).next = Less(state.next)
        /\ Then(state).since = Min({state.since + 1, MaxGap}) /\ Then(state).gap = state.gap
    BY <2>2 DEF HostStates
  <2>4. state.gap <= state.since + state.next => state.gap <= Min({state.since + 1, MaxGap}) + Less(state.next)
    BY <2>0, <2>1, Bounds DEF Less
  <2> QED
    BY <2>3, <2>4
<1>3. /\ calls' = [t \in Threads |-> Later(calls[t])]
      /\ hosts' = [h \in Hosts |-> IF hosts[h] = Unmet THEN Unmet ELSE Then(hosts[h])]
      /\ quiet' = [h \in Hosts |-> Less(quiet[h])]
  BY DEF Elapse
<1> HIDE DEF Later, Then
<1>4. calls' \in [Threads -> Call] /\ hosts' \in [Hosts -> HostStates \cup {Unmet}]
  BY <1>1, <1>2, <1>3, HttpTypes
<1>5. quiet' \in [Hosts -> 0 .. MaxQuiet]
  <2>1. \A h \in Hosts : Less(quiet[h]) \in 0 .. MaxQuiet
    BY HttpTypes, Bounds DEF Less
  <2> QED BY <1>3, <2>1
<1>6. \A h \in Hosts : hosts[h] # Unmet <=> hosts'[h] # Unmet
  BY <1>2, <1>3, HttpTypes, LimiterAssumption
<1>7. \A t \in Threads : /\ calls'[t].pc = calls[t].pc /\ calls'[t].host = calls[t].host
                         /\ CallFits(calls'[t])
  BY <1>1, <1>3, HttpTypes DEF HttpInv
<1>8. \A t \in Threads : CallFits(calls[t])'
  BY <1>6, <1>7, HttpTypes DEF CallFits, Call
<1>9. \A h \in Hosts : UnderWay(h)' = UnderWay(h)
  BY <1>7, SameUnderWay
<1>10. ASSUME NEW h \in Hosts PROVE HostCovered(h)'
  <2>1. CASE hosts[h] = Unmet
    BY <1>3, <1>6, <1>9, <2>1 DEF HttpInv, HostCovered, Less
  <2>2. CASE hosts[h] # Unmet
    <3>1. /\ hosts[h] \in HostStates /\ hosts'[h] = Then(hosts[h]) /\ quiet'[h] = Less(quiet[h])
          /\ hosts'[h] # Unmet
      BY <1>3, <1>6, <2>2, HttpTypes
    <3>2. Less(quiet[h]) <= Less(hosts[h].paused)
      BY <2>2, <3>1, HttpTypes, Bounds DEF HttpInv, HostCovered, HostStates, Less
    <3> QED
      BY <1>2, <1>9, <2>2, <3>1, <3>2 DEF HttpInv, HostCovered
  <2> QED BY <2>1, <2>2
<1> QED
  BY <1>4, <1>5, <1>8, <1>10, HttpInvMade

LEMMA HttpFirst == HttpInit => HttpInv
<1> SUFFICES ASSUME HttpInit PROVE HttpInv
  OBVIOUS
<1>1. /\ calls = [t \in Threads |-> NoCall] /\ hosts = [h \in Hosts |-> Unmet]
      /\ quiet = [h \in Hosts |-> 0]
  BY DEF HttpInit
<1>2. HttpTypeOK
  BY <1>1, NoCallType, Bounds DEF HttpTypeOK, LimiterTypeOK, Call
<1>3. \A t \in Threads : CallFits(calls[t])
  BY <1>1, NoCallType DEF CallFits, OfAHost, Within
<1>4. \A h \in Hosts : HostCovered(h)
  BY <1>1, NoCallType DEF HostCovered, UnderWay
<1> QED
  BY <1>2, <1>3, <1>4 DEF HttpInv

LEMMA HttpStep == HttpInv /\ (HttpNext \/ UNCHANGED http) => HttpInv'
<1> SUFFICES ASSUME HttpInv, HttpNext \/ UNCHANGED http
             PROVE  HttpInv'
  OBVIOUS
<1>1. CASE Elapse
  BY <1>1, ElapseKeeps
<1>2. ASSUME NEW t \in Threads, NEW h \in Starts, Begin(t, h) PROVE HttpInv'
  BY <1>2, BeginKeeps
<1>3. ASSUME NEW t \in Threads, ThreadNext(t) PROVE HttpInv'
  <2>1. CASE Resolve(t)
    BY <2>1, ResolveKeeps
  <2>2. CASE Admit(t)
    BY <2>2, AdmitKeeps
  <2>3. CASE WakeUp(t)
    BY <2>3, WakeUpKeeps
  <2>4. CASE ObserveLimits(t)
    BY <2>4, ObserveLimitsKeeps
  <2>5. CASE ObservePause(t)
    BY <2>5, ObservePauseKeeps
  <2>6. CASE Leave(t)
    BY <2>6, LeaveKeeps
  <2>7. CASE Retry(t)
    BY <2>7, RetryKeeps
  <2>8. ASSUME NEW reply \in HttpReplies, AnswerArrives(t, reply) PROVE HttpInv'
    BY <2>8, AnswerKeeps
  <2> QED
    BY <1>3, <2>1, <2>2, <2>3, <2>4, <2>5, <2>6, <2>7, <2>8 DEF ThreadNext
<1>4. CASE UNCHANGED http
  <2>1. \A h \in Hosts : UnderWay(h)' = UnderWay(h)
    BY <1>4 DEF UnderWay, http
  <2> QED
    BY <1>4, <2>1 DEF http, HttpInv, HttpTypeOK, LimiterTypeOK, CallFits, HostCovered
<1> QED
  BY <1>1, <1>2, <1>3, <1>4 DEF HttpNext

\* A step of a thread lets only itself in, and only by a look at its host.
LEMMA OnlyAdmitted ==
    ASSUME HttpInv, HttpNext \/ UNCHANGED http, NEW t \in Threads,
           calls[t].pc = "checking", calls'[t].pc = "inside"
    PROVE  Admit(t)
<1> USE HttpTypes
<1>1. CASE Elapse
  BY <1>1 DEF Elapse, Call
<1>2. ASSUME NEW u \in Threads, NEW h \in Starts, Begin(u, h) PROVE FALSE
  BY <1>2, NoCallType DEF Begin, Call
<1>3. ASSUME NEW u \in Threads, ThreadNext(u) PROVE Admit(t)
  <2>1. CASE u = t
    <3>1. calls[u].pc = "checking"
      BY <2>1
    <3> QED
      BY <1>3, <2>1, <3>1 DEF ThreadNext, Resolve, WakeUp, ObserveLimits, ObservePause, Leave, Retry,
                              AnswerArrives
  <2>2. CASE u # t
    <3>1. ASSUME NEW table, table[t] = calls[t], NEW h,
                 calls' = table \/ calls' = Notified(table, h)
          PROVE  FALSE
      <4>1. Notified(table, h)[t] = table[t]
        BY <3>1 DEF Notified
      <4> QED
        BY <3>1, <4>1
    <3>2. \A call : [calls EXCEPT ![u] = call][t] = calls[t]
      BY <2>2
    <3>3. CASE Resolve(u)
      <4>1. \E table : table[t] = calls[t] /\ \E h : calls' = table \/ calls' = Notified(table, h)
        BY <2>2, <3>3 DEF Resolve, Register, Tighten
      <4> QED BY <3>1, <4>1
    <3>4. CASE Admit(u)
      BY <2>2, <3>4 DEF Admit
    <3>5. CASE WakeUp(u)
      BY <2>2, <3>5 DEF WakeUp
    <3>6. CASE ObserveLimits(u)
      <4>1. \E table : table[t] = calls[t] /\ \E h : calls' = table \/ calls' = Notified(table, h)
        BY <2>2, <3>6 DEF ObserveLimits, RestrictHost, Tighten
      <4> QED BY <3>1, <4>1
    <3>7. CASE ObservePause(u)
      <4>1. \E table : table[t] = calls[t] /\ \E h : calls' = Notified(table, h)
        BY <2>2, <3>7 DEF ObservePause, Pause
      <4> QED BY <3>1, <4>1
    <3>8. CASE Leave(u)
      <4>1. \E table : table[t] = calls[t] /\ \E h : calls' = Notified(table, h)
        BY <2>2, <3>8 DEF Leave, Release, Released
      <4> QED BY <3>1, <4>1
    <3>9. CASE Retry(u)
      BY <2>2, <3>9 DEF Retry
    <3>10. ASSUME NEW reply \in HttpReplies, AnswerArrives(u, reply) PROVE FALSE
      BY <2>2, <3>10 DEF AnswerArrives
    <3> QED
      BY <1>3, <3>3, <3>4, <3>5, <3>6, <3>7, <3>8, <3>9, <3>10 DEF ThreadNext
  <2> QED BY <2>1, <2>2
<1>4. CASE UNCHANGED http
  BY <1>4 DEF http
<1> QED
  BY <1>1, <1>2, <1>3, <1>4 DEF HttpNext

LEMMA StartsInLimits ==
    ASSUME HttpInv, NEW t \in Threads, Admit(t), calls'[t].pc = "inside"
    PROVE  /\ quiet[calls[t].host] = 0
           /\ hosts[calls[t].host].since >= hosts[calls[t].host].gap
           /\ Cardinality(UnderWay(calls[t].host)) < hosts[calls[t].host].cap
<1>a. PICK h \in Hosts : h = calls[t].host
  BY HttpTypes DEF Call
<1>1. calls[t] \in Call /\ calls[t].pc = "checking" /\ hosts[h] \in HostStates
  BY <1>a, HttpTypes DEF Admit, HttpInv, CallFits, OfAHost
<1>2. hosts[h].flying < hosts[h].cap /\ Ready(hosts[h]) = 0
  <2> DEFINE held == [calls[t] EXCEPT !.pc = IF Ready(hosts[h]) = 0 THEN "parked" ELSE "waiting",
                                      !.left = Ready(hosts[h])]
  <2> SUFFICES ASSUME ~ (hosts[h].flying < hosts[h].cap /\ Ready(hosts[h]) = 0)
               PROVE  FALSE
    OBVIOUS
  <2>1. calls' = [calls EXCEPT ![t] = held]
    BY <1>a, HttpTypes DEF Admit
  <2>2. held.pc # "inside"
    BY <1>1 DEF Call
  <2> HIDE DEF held
  <2> QED
    BY <2>1, <2>2, HttpTypes
<1>3. /\ hosts[h].next \in Nat /\ hosts[h].paused \in Nat /\ hosts[h].since \in Nat /\ hosts[h].gap \in Nat
      /\ quiet[h] \in Nat
  BY <1>1, HttpTypes, Bounds DEF HostStates
<1>4. hosts[h].next = 0 /\ hosts[h].paused = 0
  <2> DEFINE next == hosts[h].next
             paused == hosts[h].paused
  <2>1. next \in Nat /\ paused \in Nat /\ Max({next, paused}) = 0
    BY <1>2, <1>3 DEF Ready
  <2> HIDE DEF next, paused
  <2>2. Max({next, paused}) = IF next >= paused THEN next ELSE paused
    BY <2>1, MaxOfTwo
  <2>3. next = 0 /\ paused = 0
    BY <2>1, <2>2
  <2> QED BY <2>3 DEF next, paused
<1>5. /\ hosts[h].flying = Cardinality(UnderWay(h)) /\ quiet[h] <= hosts[h].paused
      /\ hosts[h].gap <= hosts[h].since + hosts[h].next
  BY <1>1, LimiterAssumption DEF HttpInv, HostCovered
<1> QED
  BY <1>a, <1>2, <1>3, <1>4, <1>5

LEMMA HttpMoves == [Next]_vars => HttpNext \/ UNCHANGED http
BY DEF Next, GroupNext, vars

\* What the limiter knows of hosts and threads stays within its bounds, and its
\* counts are what they count: requests under way, quiet, the gap since the last
\* start (rate_limit.py, HostLimiter).
THEOREM LimitsCovered == Spec => []HttpInv
<1>1. Init => HttpInv
  BY HttpFirst DEF Init
<1>2. HttpInv /\ [Next]_vars => HttpInv'
  BY HttpMoves, HttpStep
<1> QED
  BY <1>1, <1>2, PTL DEF Spec

\* However many threads ask however many hosts, and whatever is answered, no
\* request starts in the quiet a host asked for, sooner after the last one than
\* the gap in force, or beyond the ceiling (rate_limit.py:82-103).
THEOREM RequestsStartInLimits == Spec => StartsKeepTheLimits
<1> DEFINE Starts_ == \A t \in Threads : calls[t].pc = "checking" /\ calls'[t].pc = "inside" =>
                         LET h == calls[t].host
                         IN /\ quiet[h] = 0 /\ hosts[h].since >= hosts[h].gap
                            /\ Cardinality(UnderWay(h)) < hosts[h].cap
<1>1. HttpInv /\ [Next]_vars => [Starts_]_http
  BY HttpMoves, OnlyAdmitted, StartsInLimits
<1>2. Spec => [][Starts_]_http
  BY <1>1, LimitsCovered, PTL DEF Spec
<1> QED
  BY <1>2 DEF StartsKeepTheLimits

-----------------------------------------------------------------------------
(***************************************************************************)
(* What the stages on authors, accounts and employees keep of the rows of  *)
(* a group, whoever the people are and whatever the sources say: types,    *)
(* what was found out before, the keys sources were asked by and the       *)
(* profiles contributors have.                                             *)
(***************************************************************************)

-----------------------------------------------------------------------------
(* What a run has before it. *)

Anybody == Persons \cup Logins \cup Records \cup {row.id : row \in Catalog}
QuestionSet == [kind : Kinds, members : SUBSET Anybody]
PersonSources == {"openalex", "orcid"}
AskSet == [collection : {"crossref"}, of : Pubs, force : BOOLEAN, among : SUBSET Persons] \cup
          [collection : PersonSources, of : Persons, force : BOOLEAN, among : SUBSET Persons]
WriteSet == [collection : {"publications"}, table : WorkRows] \cup
            [collection : {"persons"}, table : PersonRows] \cup
            [collection : {"profiles"}, table : ProfileRows] \cup
            [collection : {"repositories"}, table : RepoRows]
Entries == AskSet \cup WriteSet \cup [collection : {"held", "disputed"}, questions : SUBSET QuestionSet] \cup
           [collection : {"ring", "match"}]
Tables == {"publications", "persons", "profiles", "repositories"}

RowsTyped == rows \in [publications : WorkRows, persons : PersonRows,
                       profiles : ProfileRows, repositories : RepoRows]
JobTyped ==
    /\ job \in [stage : Stages \cup {"idle"}, todo : Seq(Entries), runs : 0 .. MaxRuns, begun : BOOLEAN,
                last : Stages \cup {"none"}, torn : BOOLEAN]
    /\ job.stage = "idle" <=> job.todo = <<>>
    /\ job.stage = "idle" => ~job.begun
GroupTyped == RowsTyped /\ JobTyped /\ ReviewTypeOK /\ walk \in Walks

\* A run starts with its writes before it.
LEMMA StartedJob ==
    ASSUME JobTyped, NEW stage, stage # "idle", NEW selection, NEW writes \in Seq(Entries),
           MayStart(stage), Started(stage, selection, writes)
    PROVE  /\ JobTyped' /\ job'.todo = writes /\ job'.torn = job.torn /\ job.stage = "idle" /\ job.todo = <<>>
           /\ job'.stage = (IF writes = <<>> THEN "idle" ELSE stage)
           /\ ~job'.begun
           /\ job'.last = (IF selection = All THEN stage ELSE "none")
<1>1. MaxRuns \in Nat
  BY PeopleAssumption
<1>2. /\ job'.todo = writes /\ job'.torn = job.torn /\ job.stage = "idle"
      /\ job'.stage = (IF writes = <<>> THEN "idle" ELSE stage)
      /\ ~job'.begun /\ job'.begun \in BOOLEAN
      /\ job'.last = (IF selection = All THEN stage ELSE "none")
      /\ job'.runs = job.runs + 1
      /\ stage \in Stages /\ job.runs < MaxRuns
  BY DEF JobTyped, MayStart, Started
<1>3. job' \in [stage : Stages \cup {"idle"}, todo : Seq(Entries), runs : 0 .. MaxRuns, begun : BOOLEAN,
                last : Stages \cup {"none"}, torn : BOOLEAN]
  <2>1. job.runs \in 0 .. MaxRuns
    BY DEF JobTyped
  <2>2. job.runs + 1 \in 0 .. MaxRuns
    BY <1>1, <1>2, <2>1
  <2> QED BY <1>2, <2>2 DEF JobTyped, Started
<1> QED
  BY <1>2, <1>3 DEF JobTyped

\* A run goes on, or ends.
LEMMA OnwardJob ==
    ASSUME JobTyped, job.stage # "idle", NEW first \in Seq(Entries), Onward(first)
    PROVE  /\ JobTyped' /\ job'.todo = first \o Tail(job.todo) /\ job'.torn = job.torn
           /\ job'.last = job.last
           /\ job'.stage = (IF job'.todo = <<>> THEN "idle" ELSE job.stage)
           /\ job'.begun = (job'.todo # <<>>)
<1>1. job.todo \in Seq(Entries) /\ job.todo # <<>>
  BY DEF JobTyped
<1>2. first \o Tail(job.todo) \in Seq(Entries)
  BY <1>1
<1> DEFINE todo == first \o Tail(job.todo)
<1>3. CASE todo = <<>>
  <2>1. job' = [job EXCEPT !.stage = "idle", !.todo = <<>>, !.begun = FALSE]
    BY <1>3 DEF Onward
  <2>2. <<>> \in Seq(Entries)
    OBVIOUS
  <2> QED BY <1>3, <2>1, <2>2 DEF JobTyped
<1>4. CASE todo # <<>>
  <2>1. job' = [job EXCEPT !.todo = todo, !.begun = TRUE]
    BY <1>4 DEF Onward
  <2> HIDE DEF todo
  <2>2. todo \in Seq(Entries)
    BY <1>2 DEF todo
  <2>3. job' \in [stage : Stages \cup {"idle"}, todo : Seq(Entries), runs : 0 .. MaxRuns, begun : BOOLEAN,
                  last : Stages \cup {"none"}, torn : BOOLEAN]
    BY <2>1, <2>2 DEF JobTyped
  <2>4. /\ job'.todo = todo /\ job'.torn = job.torn /\ job'.stage = job.stage /\ job'.begun = TRUE
        /\ job'.last = job.last
    BY <2>1 DEF JobTyped
  <2> QED BY <1>4, <2>3, <2>4 DEF JobTyped, todo
<1> QED BY <1>3, <1>4

\* A write of a whole collection.
LEMMA WriteJob ==
    ASSUME JobTyped, RowsTyped, RowsNext
    PROVE  /\ JobTyped' /\ job.stage # "idle" /\ job.todo \in Seq(Entries) /\ job.todo # <<>>
           /\ job'.todo = Tail(job.todo) /\ job'.torn = job.torn /\ job'.last = job.last
           /\ job'.stage = (IF job'.todo = <<>> THEN "idle" ELSE job.stage)
           /\ job'.begun = (job'.todo # <<>>)
           /\ Head(job.todo) \in WriteSet
           /\ rows' = [rows EXCEPT ![Head(job.todo).collection] = Head(job.todo).table]
<1>1. job.todo \in Seq(Entries) /\ job.todo # <<>> /\ job.stage # "idle"
  BY DEF JobTyped, RowsNext
<1>2. Head(job.todo) \in Entries /\ Tail(job.todo) \in Seq(Entries)
      /\ (Len(job.todo) = 1 <=> Tail(job.todo) = <<>>) /\ <<>> \in Seq(Entries)
  BY <1>1, RestOfLine
<1>3. DOMAIN rows = Tables
  BY DEF RowsTyped, Tables
<1>4. Head(job.todo).collection \in Tables
  BY <1>3 DEF RowsNext
<1>5. Head(job.todo) \in WriteSet
  BY <1>2, <1>4 DEF Entries, AskSet, PersonSources, Tables, WriteSet
<1>6. rows' = [rows EXCEPT ![Head(job.todo).collection] = Head(job.todo).table]
  BY DEF RowsNext, WriteNext
<1>7. job' = IF Tail(job.todo) = <<>>
             THEN [job EXCEPT !.stage = "idle", !.todo = <<>>, !.begun = FALSE]
             ELSE [job EXCEPT !.todo = Tail(job.todo), !.begun = TRUE]
  BY <1>2 DEF RowsNext, WriteNext
<1>8. /\ JobTyped' /\ job'.todo = Tail(job.todo) /\ job'.torn = job.torn /\ job'.last = job.last
      /\ job'.stage = (IF job'.todo = <<>> THEN "idle" ELSE job.stage)
      /\ job'.begun = (job'.todo # <<>>)
  <2> DEFINE rest == Tail(job.todo)
  <2>1. rest \in Seq(Entries)
    BY <1>2
  <2> HIDE DEF rest
  <2>2. job' = IF rest = <<>>
               THEN [job EXCEPT !.stage = "idle", !.todo = <<>>, !.begun = FALSE]
               ELSE [job EXCEPT !.todo = rest, !.begun = TRUE]
    BY <1>7 DEF rest
  <2>3. CASE rest = <<>>
    BY <1>2, <2>2, <2>3 DEF JobTyped, rest
  <2>4. CASE rest # <<>>
    <3>1. job' \in [stage : Stages \cup {"idle"}, todo : Seq(Entries), runs : 0 .. MaxRuns,
                    begun : BOOLEAN, last : Stages \cup {"none"}, torn : BOOLEAN]
      BY <2>1, <2>2, <2>4 DEF JobTyped
    <3>2. /\ job'.todo = rest /\ job'.torn = job.torn /\ job'.stage = job.stage /\ job'.begun = TRUE
          /\ job'.last = job.last
      BY <2>2, <2>4 DEF JobTyped
    <3> QED BY <1>1, <2>4, <3>1, <3>2 DEF JobTyped, rest
  <2> QED BY <2>3, <2>4
<1> QED BY <1>1, <1>5, <1>6, <1>8

LEMMA WriteRows ==
    ASSUME JobTyped, RowsTyped, RowsNext
    PROVE  RowsTyped'
<1>1. /\ Head(job.todo) \in WriteSet
      /\ rows' = [rows EXCEPT ![Head(job.todo).collection] = Head(job.todo).table]
  BY WriteJob
<1> DEFINE next == Head(job.todo)
<1> HIDE DEF next
<1>2. /\ next \in WriteSet /\ rows' = [rows EXCEPT ![next.collection] = next.table]
  BY <1>1 DEF next
<1> QED BY <1>2 DEF RowsTyped, WriteSet

-----------------------------------------------------------------------------
(* What a row keeps of another. *)

\* as NothingLearnedIsLost has it, of one person or of who that is folded into
Keeps(was, is, same) ==
    /\ was.emails \subseteq is.emails /\ was.names \subseteq is.names
    /\ was.affs \subseteq is.affs /\ was.depts \subseteq is.depts
    /\ was.contributed \subseteq is.contributed /\ Wrote(was) \subseteq Wrote(is)
    /\ \A x \in was.authored : x.place # Unknown =>
          \/ x \in is.authored
          \/ x.slot \in DOMAIN Stated[x.pub] /\ [x EXCEPT !.place = Stated[x.pub][x.slot]] \in is.authored
    /\ was.card # Unknown => is.card = was.card \/ (~same /\ was.card \in is.emails)
    /\ was.raw # Unknown => is.raw # Unknown /\ (~same => was.raw \in SpeltAs(is))
    /\ same => /\ was.orcid # Unknown => is.orcid = was.orcid
               /\ was.github # Unknown => is.github = was.github

\* the name person a is signed by
Signed(a, was, is) == was.raw # Unknown => is.raw \in {was.raw, OpenAlexSays[a].display}
SameSign(was, is) == was.raw # Unknown => is.raw = was.raw

\* the same with nothing of the authorships replaced, which goes on from fold to fold
Gathers(was, is, same) ==
    /\ was.emails \subseteq is.emails /\ was.names \subseteq is.names
    /\ was.affs \subseteq is.affs /\ was.depts \subseteq is.depts
    /\ was.contributed \subseteq is.contributed /\ was.authored \subseteq is.authored
    /\ was.card # Unknown => is.card = was.card \/ (~same /\ was.card \in is.emails)
    /\ was.raw # Unknown => is.raw # Unknown /\ (~same => was.raw \in SpeltAs(is))
    /\ same => /\ was.orcid # Unknown => is.orcid = was.orcid
               /\ was.github # Unknown => is.github = was.github

LEMMA GatheredKept ==
    ASSUME NEW was, NEW is, NEW same, Gathers(was, is, same)
    PROVE  Keeps(was, is, same)
BY DEF Gathers, Keeps, Wrote

LEMMA GathersOn ==
    ASSUME NEW first, NEW then, NEW last, NEW same, Gathers(first, then, same), Gathers(then, last, TRUE),
           SameSign(then, last)
    PROVE  Gathers(first, last, same)
<1>1. /\ first.emails \subseteq last.emails /\ first.names \subseteq last.names
      /\ first.affs \subseteq last.affs /\ first.depts \subseteq last.depts
      /\ first.contributed \subseteq last.contributed /\ first.authored \subseteq last.authored
  BY DEF Gathers
<1>2. first.card # Unknown => last.card = first.card \/ (~same /\ first.card \in last.emails)
  BY DEF Gathers
<1>3. same => /\ first.orcid # Unknown => last.orcid = first.orcid
              /\ first.github # Unknown => last.github = first.github
  BY DEF Gathers
<1>4. first.raw # Unknown => last.raw # Unknown /\ (~same => first.raw \in SpeltAs(last))
  BY DEF Gathers, SpeltAs, SameSign
<1> QED BY <1>1, <1>2, <1>3, <1>4 DEF Gathers

\* A row folded into another.
LEMMA MergeRow ==
    ASSUME NEW base \in PersonRow, NEW extra \in PersonRow, NEW id \in Persons
    PROVE  LET into == MergePerson(base, extra, id)
           IN /\ into \in PersonRow
              /\ into.merged = base.merged \cup extra.merged \cup {id}
              /\ Gathers(base, into, TRUE) /\ Gathers(extra, into, FALSE) /\ SameSign(base, into)
<1> DEFINE into == MergePerson(base, extra, id)
<1>1. into \in PersonRow
  <2> DEFINE first(a, b) == IF a = Unknown THEN b ELSE a
             source(a, b) == IF a.state = "none" THEN b ELSE a
  <2>1. /\ (base.itmo \/ extra.itmo) \in BOOLEAN
        /\ base.authored \cup extra.authored \subseteq Authorships
        /\ base.names \cup SpeltAs(extra) \subseteq Spellings
        /\ base.affs \cup extra.affs \subseteq Affiliations
        /\ base.depts \cup extra.depts \subseteq Depts
        /\ base.contributed \cup extra.contributed \subseteq Repos
        /\ base.merged \cup extra.merged \cup {id} \subseteq Persons
    BY DEF PersonRow, SpeltAs
  <2>2. base.emails \cup extra.emails \cup ({base.card, extra.card} \ {Unknown}) \subseteq Emails
    BY DEF PersonRow
  <2>3. /\ first(base.orcid, extra.orcid) \in Orcids \cup {Unknown}
        /\ first(base.card, extra.card) \in Emails \cup {Unknown}
        /\ first(base.github, extra.github) \in Logins \cup {Unknown}
        /\ first(base.page, extra.page) \in Pages \cup {Unknown}
        /\ first(base.raw, extra.raw) \in Spellings \cup {Unknown}
    BY DEF PersonRow
  <2>4. /\ source(base.openalex, extra.openalex) \in [state : SourceStates, key : Persons \cup {Unknown}]
        /\ source(base.orcids, extra.orcids) \in [state : SourceStates, key : Orcids \cup {Unknown}]
        /\ (IF base.departments = "none" THEN extra.departments ELSE base.departments) \in States
    BY DEF PersonRow
  <2>5. into = [base EXCEPT !.itmo = @ \/ extra.itmo, !.authored = @ \cup extra.authored,
            !.orcid = first(@, extra.orcid), !.card = first(@, extra.card),
            !.emails = @ \cup extra.emails \cup ({base.card, extra.card} \ {Unknown}),
            !.raw = first(@, extra.raw), !.names = @ \cup SpeltAs(extra),
            !.github = first(@, extra.github), !.page = first(@, extra.page),
            !.affs = @ \cup extra.affs, !.depts = @ \cup extra.depts,
            !.contributed = @ \cup extra.contributed, !.merged = @ \cup extra.merged \cup {id},
            !.openalex = source(@, extra.openalex), !.orcids = source(@, extra.orcids),
            !.departments = IF @ = "none" THEN extra.departments ELSE @]
    BY DEF MergePerson
  <2> HIDE DEF first, source
  <2>6. into = [itmo |-> base.itmo \/ extra.itmo, authored |-> base.authored \cup extra.authored,
                orcid |-> first(base.orcid, extra.orcid),
                emails |-> base.emails \cup extra.emails \cup ({base.card, extra.card} \ {Unknown}),
                card |-> first(base.card, extra.card), raw |-> first(base.raw, extra.raw),
                names |-> base.names \cup SpeltAs(extra),
                github |-> first(base.github, extra.github), page |-> first(base.page, extra.page),
                affs |-> base.affs \cup extra.affs, depts |-> base.depts \cup extra.depts,
                contributed |-> base.contributed \cup extra.contributed,
                merged |-> base.merged \cup extra.merged \cup {id},
                openalex |-> source(base.openalex, extra.openalex),
                orcids |-> source(base.orcids, extra.orcids),
                departments |-> IF base.departments = "none" THEN extra.departments ELSE base.departments]
    BY ZenonT(60), <2>5 DEF PersonRow
  <2> HIDE DEF into
  <2> QED BY <2>1, <2>2, <2>3, <2>4, <2>6 DEF PersonRow
<1>2. into.merged = base.merged \cup extra.merged \cup {id}
  BY DEF MergePerson, PersonRow
<1>3. Gathers(base, into, TRUE) /\ SameSign(base, into)
  BY DEF MergePerson, PersonRow, Gathers, SameSign
<1>4. Gathers(extra, into, FALSE)
  BY DEF MergePerson, PersonRow, Gathers, SpeltAs
<1> QED BY <1>1, <1>2, <1>3, <1>4

\* A table whose people are who they were follows when each row does.
PersonsFollow(old, new) ==
    /\ FoldedOnce(new)
    /\ \A a \in Present(old) \cap Present(new) : Keeps(old[a], new[a], TRUE) /\ Signed(a, old[a], new[a])
    /\ \A a \in Present(old) \ Present(new) :
          /\ \E b \in Present(new) : a \in new[b].merged
          /\ \A b \in Present(new) : a \in new[b].merged => Keeps(old[a], new[b], FALSE)
\* what a profile says of itself, where a later page may say something else
SaysOfItself(a, was, is) ==
    /\ was.kind # Unknown => is.kind # Unknown
    /\ was.name # Unknown => is.name # Unknown /\ is.name \in {was.name} \cup {page.name : page \in UserSays[a]}
    /\ \A field \in Fields : was.about[field] # Unknown =>
          /\ is.about[field] # Unknown
          /\ is.about[field] \in {was.about[field]} \cup {page.about[field] : page \in UserSays[a]}
ProfilesFollow(old, new) ==
    \A a \in Present(old) :
        /\ new[a] # Absent /\ old[a].emails \subseteq new[a].emails /\ old[a].names \subseteq new[a].names
        /\ old[a].repos \subseteq new[a].repos /\ SaysOfItself(a, old[a], new[a])

LEMMA PeopleRowsAre ==
    ASSUME NEW table \in PersonRows
    PROVE  /\ DOMAIN table = Persons /\ Present(table) \subseteq Persons
           /\ \A a \in Present(table) : table[a] \in PersonRow
           /\ \A a \in Persons : table[a] \in PersonRow => a \in Present(table)
BY ResearchersAssumption DEF PersonRows, Present

LEMMA SamePeople ==
    ASSUME NEW old \in PersonRows, NEW new \in PersonRows, FoldedOnce(old),
           \A a \in Persons : old[a] = Absent => new[a] = Absent,
           \A a \in Present(old) : /\ new[a] # Absent /\ new[a].merged = old[a].merged
                                   /\ Keeps(old[a], new[a], TRUE) /\ Signed(a, old[a], new[a])
    PROVE  PersonsFollow(old, new) /\ Present(new) = Present(old)
<1>1. Present(new) = Present(old)
  BY PeopleRowsAre DEF Present
<1>2. FoldedOnce(new)
  BY <1>1 DEF FoldedOnce
<1> QED BY <1>1, <1>2 DEF PersonsFollow

-----------------------------------------------------------------------------
(* The invariant. *)

Asking == {"crossref", "openalex", "orcid"}
\* what may be before a run after an entry of a collection
Later(collection) ==
    CASE collection \in Asking -> Asking
      [] collection = "publications" -> {"persons"}
      [] collection = "persons" -> {"publications", "held", "disputed", "ring"}
      [] collection = "repositories" -> {"profiles"}
      [] collection = "profiles" -> {"match", "ring"}
      [] collection = "match" -> {"ring"}
      [] collection = "held" -> {"persons", "held", "disputed", "ring"}
      [] collection = "disputed" -> {"ring"}
      [] OTHER -> {}
Lined(todo) == \A i, j \in DOMAIN todo : i < j => todo[j].collection \in Later(todo[i].collection)

\* an entry that fits the rows as they are
Suits(entry, stage) ==
    /\ entry.collection \in Asking <=> stage = "persons"
    /\ entry.collection = "repositories" => stage = "repo_people"
    /\ entry.collection \in {"ring", "match"} => stage = "social_graph"
    /\ entry.collection = "persons" => PersonsFollow(rows.persons, entry.table)
    /\ entry.collection = "profiles" => ProfilesFollow(rows.profiles, entry.table)
    /\ entry.collection \in Asking => entry.among \subseteq People
    /\ entry.collection = "crossref" => entry.of \in Works
    /\ entry.collection \in PersonSources => entry.of \in People

RowsInv ==
    /\ GroupTyped /\ FoldedOnce(rows.persons)
    /\ Lined(job.todo) /\ \A i \in DOMAIN job.todo : Suits(job.todo[i], job.stage)

\* what has not been asked is going to be
WillAsk(source, of) == \E i \in DOMAIN job.todo : job.todo[i].collection = source /\ job.todo[i].of = of
AskInv ==
    /\ job.last = "persons" => job.stage \in {"idle", "persons"}
    /\ job.last = "persons" =>
          /\ \A a \in People : /\ rows.persons[a].orcids.key = rows.persons[a].orcid \/ WillAsk("orcid", a)
                               /\ rows.persons[a].openalex.key = OpenAlexOf[a] \/ WillAsk("openalex", a)
          /\ \A p \in Works : (\E a \in People : p \in Wrote(rows.persons[a])) =>
                  rows.publications[p].crossref.key = rows.publications[p].doi \/ WillAsk("crossref", p)
    /\ \A i \in DOMAIN job.todo :
          /\ job.todo[i].collection = "openalex" =>
                \E j \in DOMAIN job.todo : /\ i < j /\ job.todo[j].collection = "orcid"
                                           /\ job.todo[j].of = job.todo[i].of
          /\ job.todo[i].collection = "crossref" => \A a \in job.todo[i].among :
                \E j \in DOMAIN job.todo : i < j /\ job.todo[j].collection = "orcid" /\ job.todo[j].of = a

\* between its two writes a run that collects people has the profiles before it
LeadInv ==
    ~job.torn =>
        /\ job.stage = "repo_people" /\ job.begun =>
              /\ Len(job.todo) = 1 /\ job.todo[1].collection = "profiles"
              /\ Leads(rows.repositories, job.todo[1].table)
        /\ ~(job.stage = "repo_people" /\ job.begun) => Leads(rows.repositories, rows.profiles)
        /\ job.stage = "repo_people" /\ ~job.begun =>
              /\ Len(job.todo) = 2
              /\ job.todo[1].collection = "repositories" /\ job.todo[2].collection = "profiles"
              /\ Leads(job.todo[1].table, job.todo[2].table)

LEMMA GroupFirst == Init => RowsInv
<1> SUFFICES ASSUME Init PROVE RowsInv
  OBVIOUS
<1>1. NoWork \in WorkRow
  BY DEF NoWork, NoSource, Source, WorkRow, SourceStates, States
<1>2. NoWorks \in WorkRows /\ NoProfiles \in ProfileRows /\ NoRepositories \in RepoRows
  BY <1>1 DEF NoWorks, NoProfiles, NoRepositories, WorkRows, ProfileRows, RepoRows
<1>3. [a \in Persons |-> Absent] \in PersonRows /\ FoldedOnce([a \in Persons |-> Absent])
  BY DEF PersonRows, FoldedOnce, Present
<1>4. PICK persons, profiles, repositories :
          /\ rows = [publications |-> NoWorks, persons |-> persons,
                     profiles |-> profiles, repositories |-> repositories]
          /\ persons \in PersonRows /\ FoldedOnce(persons)
          /\ profiles \in ProfileRows /\ repositories \in RepoRows
  <2>1. CASE part = "accounts"
    <3>1. PICK known \in KnownAtFirst :
              rows = [publications |-> NoWorks, persons |-> known.persons,
                      profiles |-> known.profiles, repositories |-> known.repositories]
      BY <2>1 DEF Init
    <3>2. /\ known.persons \in PersonRows /\ FoldedOnce(known.persons)
          /\ known.profiles \in ProfileRows /\ known.repositories \in RepoRows
      BY PeopleAssumption
    <3> QED BY <3>1, <3>2
  <2>2. CASE part # "accounts"
    <3>1. PICK people \in CASE part = "authors" -> PeopleAtFirst [] part = "staff" -> StaffAtFirst
                               [] OTHER -> {[a \in Persons |-> Absent]} :
              rows = [publications |-> NoWorks, persons |-> people,
                      profiles |-> NoProfiles, repositories |-> NoRepositories]
      BY <2>2 DEF Init
    <3>2. people \in PeopleAtFirst \cup StaffAtFirst \cup {[a \in Persons |-> Absent]}
      OBVIOUS
    <3>3. people \in PersonRows /\ FoldedOnce(people)
      BY <1>3, <3>2, PeopleAssumption
    <3> QED BY <1>2, <3>1, <3>3
  <2> QED BY <2>1, <2>2
<1>5. RowsTyped /\ FoldedOnce(rows.persons)
  BY <1>2, <1>4 DEF RowsTyped
<1>6. job.todo = <<>> /\ job.stage = "idle" /\ DOMAIN job.todo = {} /\ ~job.torn
  BY DEF Init, Idle
<1>7. JobTyped
  <2>1. 0 \in 0 .. MaxRuns
    BY PeopleAssumption
  <2>2. <<>> \in Seq(Entries)
    OBVIOUS
  <2> QED BY <2>1, <2>2 DEF Init, Idle, JobTyped
<1>8. ReviewTypeOK
  BY DEF Init, ReviewTypeOK
<1>9. walk \in Walks
  BY AccountsAssumption DEF Init, NoWalk, Walks
<1> QED
  BY <1>5, <1>6, <1>7, <1>8, <1>9 DEF RowsInv, GroupTyped, Lined

\* A run starts: what it has before it fits the rows.
LEMMA StartKeeps ==
    ASSUME RowsInv, NEW stage, stage # "idle", NEW selection, NEW writes \in Seq(Entries),
           MayStart(stage), Started(stage, selection, writes), rows' = rows,
           ReviewTypeOK', walk' \in Walks,
           Lined(writes), \A i \in DOMAIN writes : Suits(writes[i], stage)
    PROVE  RowsInv'
<1>1. /\ JobTyped' /\ job'.todo = writes
      /\ job'.stage = (IF writes = <<>> THEN "idle" ELSE stage)
  BY StartedJob DEF RowsInv, GroupTyped
<1>2. RowsTyped' /\ FoldedOnce(rows.persons)'
  BY DEF RowsInv, GroupTyped, RowsTyped, FoldedOnce, Present
<1>3. \A i \in DOMAIN job'.todo : Suits(job'.todo[i], job'.stage)
  <2> SUFFICES ASSUME NEW i \in DOMAIN writes PROVE Suits(writes[i], job'.stage)
    BY <1>1
  <2>1. writes # <<>>
    OBVIOUS
  <2> QED BY <1>1, <2>1
<1>4. \A e, s : Suits(e, s) => Suits(e, s)'
  BY DEF Suits, People, Works
<1>5. \A i \in DOMAIN job'.todo : Suits(job.todo[i], job.stage)'
  BY <1>3, <1>4
<1>6. Lined(job.todo)'
  BY <1>1 DEF Lined
<1> QED
  BY <1>1, <1>2, <1>5, <1>6 DEF RowsInv, GroupTyped

\* Two lines make one when what is in the second may be after what is in the first.
LEMMA LinesJoin ==
    ASSUME NEW s \in Seq(Entries), NEW t \in Seq(Entries), Lined(s), Lined(t),
           \A i \in DOMAIN s, j \in DOMAIN t : t[j].collection \in Later(s[i].collection)
    PROVE  Lined(s \o t)
<1> SUFFICES ASSUME NEW i \in DOMAIN (s \o t), NEW j \in DOMAIN (s \o t), i < j
             PROVE  (s \o t)[j].collection \in Later((s \o t)[i].collection)
  BY DEF Lined
<1>1. DOMAIN s = 1 .. Len(s) /\ DOMAIN t = 1 .. Len(t) /\ Len(s) \in Nat /\ Len(t) \in Nat
      /\ DOMAIN (s \o t) = 1 .. Len(s) + Len(t)
  OBVIOUS
<1>2. CASE j \in DOMAIN s
  <2>1. i \in DOMAIN s /\ (s \o t)[i] = s[i] /\ (s \o t)[j] = s[j]
    BY <1>1, <1>2, JoinedLine DEF Joins
  <2> QED BY <2>1, <1>2 DEF Lined
<1>3. CASE j \notin DOMAIN s
  <2>1. j - Len(s) \in DOMAIN t /\ (s \o t)[j] = t[j - Len(s)]
    BY <1>3, JoinedLine DEF Joins
  <2>2. CASE i \in DOMAIN s
    <3>1. (s \o t)[i] = s[i]
      BY <2>2, JoinedLine DEF Joins
    <3> QED BY <2>1, <2>2, <3>1
  <2>3. CASE i \notin DOMAIN s
    <3>1. i - Len(s) \in DOMAIN t /\ (s \o t)[i] = t[i - Len(s)]
      BY <2>3, JoinedLine DEF Joins
    <3>2. i - Len(s) < j - Len(s)
      BY <1>1
    <3>3. t[j - Len(s)].collection \in Later(t[i - Len(s)].collection)
      BY <2>1, <3>1, <3>2 DEF Lined
    <3> QED BY <2>1, <3>1, <3>3
  <2> QED BY <2>2, <2>3
<1> QED BY <1>2, <1>3

\* What is left before a run is in line, and may be after what it does now.
LEMMA RestLined ==
    ASSUME JobTyped, Lined(job.todo), job.stage # "idle"
    PROVE  /\ job.todo # <<>> /\ Head(job.todo) \in Entries /\ Head(job.todo) = job.todo[1]
           /\ 1 \in DOMAIN job.todo
           /\ Tail(job.todo) \in Seq(Entries) /\ Lined(Tail(job.todo))
           /\ \A i \in DOMAIN Tail(job.todo) :
                 /\ i + 1 \in DOMAIN job.todo /\ Tail(job.todo)[i] = job.todo[i + 1]
                 /\ Tail(job.todo)[i].collection \in Later(Head(job.todo).collection)
<1>1. job.todo \in Seq(Entries) /\ job.todo # <<>>
  BY DEF JobTyped
<1> DEFINE s == job.todo
           n == Len(s)
<1>2. /\ Head(s) \in Entries /\ Head(s) = s[1] /\ Tail(s) \in Seq(Entries)
      /\ n \in Nat /\ n >= 1 /\ DOMAIN s = 1 .. n /\ DOMAIN Tail(s) = 1 .. n - 1
      /\ \A i \in 1 .. n - 1 : i + 1 \in 1 .. n /\ Tail(s)[i] = s[i + 1]
  BY <1>1, RestOfLine
<1>3. \A i, j \in DOMAIN s : i < j => s[j].collection \in Later(s[i].collection)
  BY DEF Lined
<1> HIDE DEF s, n
<1>4. \A i, j \in DOMAIN Tail(s) : i < j => Tail(s)[j].collection \in Later(Tail(s)[i].collection)
  <2> SUFFICES ASSUME NEW i \in DOMAIN Tail(s), NEW j \in DOMAIN Tail(s), i < j
               PROVE  Tail(s)[j].collection \in Later(Tail(s)[i].collection)
    OBVIOUS
  <2>1. i + 1 \in DOMAIN s /\ j + 1 \in DOMAIN s /\ i + 1 < j + 1
        /\ Tail(s)[i] = s[i + 1] /\ Tail(s)[j] = s[j + 1]
    BY <1>2
  <2>2. s[j + 1].collection \in Later(s[i + 1].collection)
    BY <1>3, <2>1
  <2> QED BY <2>1, <2>2
<1>5. 1 \in DOMAIN s
  BY <1>2
<1>6. ASSUME NEW i \in DOMAIN Tail(s)
      PROVE  i + 1 \in DOMAIN s /\ Tail(s)[i] = s[i + 1] /\ Tail(s)[i].collection \in Later(Head(s).collection)
  <2>1. i + 1 \in DOMAIN s /\ Tail(s)[i] = s[i + 1] /\ 1 < i + 1
    BY <1>2
  <2>2. s[i + 1].collection \in Later(s[1].collection)
    BY <1>3, <1>5, <2>1
  <2> QED BY <1>2, <2>1, <2>2
<1>7. s # <<>>
  BY <1>1 DEF s
<1> QED
  BY <1>2, <1>4, <1>5, <1>6, <1>7 DEF s, Lined

\* A run goes on: what it puts before what is left fits the rows.
LEMMA OnwardKeeps ==
    ASSUME RowsInv, job.stage # "idle", NEW first \in Seq(Entries), Onward(first), rows' = rows,
           ReviewTypeOK', walk' \in Walks,
           Lined(first), \A i \in DOMAIN first : Suits(first[i], job.stage),
           \A i \in DOMAIN first, j \in DOMAIN Tail(job.todo) :
               Tail(job.todo)[j].collection \in Later(first[i].collection)
    PROVE  RowsInv'
<1>1. JobTyped /\ Lined(job.todo)
  BY DEF RowsInv, GroupTyped
<1> DEFINE rest == Tail(job.todo)
           todo == first \o rest
<1>2. /\ JobTyped' /\ job'.todo = todo
      /\ job'.stage = (IF todo = <<>> THEN "idle" ELSE job.stage)
  BY <1>1, OnwardJob
<1>3. /\ rest \in Seq(Entries) /\ Lined(rest)
      /\ \A i \in DOMAIN rest : i + 1 \in DOMAIN job.todo /\ rest[i] = job.todo[i + 1]
  BY <1>1, RestLined
<1>4. \A i \in DOMAIN rest : Suits(rest[i], job.stage)
  <2> SUFFICES ASSUME NEW i \in DOMAIN rest PROVE Suits(rest[i], job.stage)
    OBVIOUS
  <2>1. i + 1 \in DOMAIN job.todo /\ rest[i] = job.todo[i + 1]
    BY <1>3
  <2> QED BY <2>1 DEF RowsInv
<1> HIDE DEF rest
<1>5. Lined(todo)
  BY <1>3, LinesJoin DEF rest
<1>6. \A i \in DOMAIN todo : Suits(todo[i], job.stage)
  BY <1>3, <1>4, JoinedLine DEF Joins
<1>7. RowsTyped' /\ FoldedOnce(rows.persons)'
  BY DEF RowsInv, GroupTyped, RowsTyped, FoldedOnce, Present
<1>8. \A e, s : Suits(e, s) => Suits(e, s)'
  BY DEF Suits, People, Works
<1>9. \A i \in DOMAIN job'.todo : Suits(job'.todo[i], job'.stage)
  <2> SUFFICES ASSUME NEW i \in DOMAIN todo PROVE Suits(todo[i], job'.stage)
    BY <1>2
  <2>0. todo \in Seq(Entries)
    BY <1>3, JoinedLine
  <2> HIDE DEF todo
  <2>1. todo # <<>>
    BY <2>0
  <2> QED BY <1>2, <1>6, <2>1
<1>10. \A i \in DOMAIN job'.todo : Suits(job.todo[i], job.stage)'
  BY <1>8, <1>9
<1>11. Lined(job.todo)'
  BY <1>2, <1>5 DEF Lined
<1> QED
  BY <1>2, <1>7, <1>10, <1>11 DEF RowsInv, GroupTyped

\* A collection is written: what was in it is followed by what is now.
LEMMA WriteKeeps ==
    ASSUME RowsInv, RowsNext, ReviewTypeOK', walk' \in Walks
    PROVE  /\ RowsInv'
           /\ rows.persons = rows'.persons \/ PersonsFollow(rows.persons, rows'.persons)
           /\ rows.profiles = rows'.profiles \/ ProfilesFollow(rows.profiles, rows'.profiles)
<1>1. JobTyped /\ RowsTyped /\ Lined(job.todo) /\ FoldedOnce(rows.persons)
  BY DEF RowsInv, GroupTyped
<1> DEFINE next == Head(job.todo)
           rest == Tail(job.todo)
<1>2. /\ JobTyped' /\ job'.todo = rest /\ job.stage # "idle"
      /\ job'.stage = (IF job'.todo = <<>> THEN "idle" ELSE job.stage)
      /\ next \in WriteSet
      /\ rows' = [rows EXCEPT ![next.collection] = next.table]
  BY <1>1, WriteJob
<1>3. /\ next = job.todo[1] /\ 1 \in DOMAIN job.todo
      /\ rest \in Seq(Entries) /\ Lined(rest)
      /\ \A i \in DOMAIN rest : /\ i + 1 \in DOMAIN job.todo /\ rest[i] = job.todo[i + 1]
                                /\ rest[i].collection \in Later(next.collection)
  BY <1>1, <1>2, RestLined
<1>4. Suits(next, job.stage)
  BY <1>3 DEF RowsInv
<1>5. \A i \in DOMAIN rest : Suits(rest[i], job.stage)
  <2> SUFFICES ASSUME NEW i \in DOMAIN rest PROVE Suits(rest[i], job.stage)
    OBVIOUS
  <2>1. i + 1 \in DOMAIN job.todo /\ rest[i] = job.todo[i + 1]
    BY <1>3
  <2> QED BY <2>1 DEF RowsInv
<1>6. RowsTyped'
  BY <1>1, WriteRows
<1> HIDE DEF next, rest
<1>7. /\ rows'.publications = (IF next.collection = "publications" THEN next.table ELSE rows.publications)
      /\ rows'.persons = (IF next.collection = "persons" THEN next.table ELSE rows.persons)
      /\ rows'.profiles = (IF next.collection = "profiles" THEN next.table ELSE rows.profiles)
      /\ next.collection \in Tables
  BY <1>1, <1>2 DEF RowsTyped, WriteSet, Tables
<1>8. /\ rows.persons = rows'.persons \/ PersonsFollow(rows.persons, rows'.persons)
      /\ rows.profiles = rows'.profiles \/ ProfilesFollow(rows.profiles, rows'.profiles)
  BY <1>4, <1>7 DEF Suits
<1>9. FoldedOnce(rows.persons)'
  BY <1>1, <1>8 DEF PersonsFollow, FoldedOnce, Present
<1>10. ASSUME NEW e, NEW s, e.collection \in Later(next.collection), Suits(e, s)
       PROVE  Suits(e, s)'
  <2>1. e.collection \notin Asking
    BY <1>7, <1>10 DEF Later, Asking, Tables
  <2>2. e.collection = "persons" => rows'.persons = rows.persons
    BY <1>7, <1>10 DEF Later, Asking, Tables
  <2>3. e.collection = "profiles" => rows'.profiles = rows.profiles
    BY <1>7, <1>10 DEF Later, Asking, Tables
  <2> QED BY <1>10, <2>1, <2>2, <2>3 DEF Suits, Asking, PersonSources
<1>11. \A i \in DOMAIN job'.todo : Suits(job.todo[i], job.stage)'
  <2> SUFFICES ASSUME NEW i \in DOMAIN job'.todo PROVE Suits(job.todo[i], job.stage)'
    OBVIOUS
  <2>0. i \in DOMAIN rest
    BY <1>2
  <2>1. rest # <<>>
    BY <1>3, <2>0
  <2>2. job'.stage = job.stage
    BY <1>2, <2>1
  <2>3. rest[i].collection \in Later(next.collection) /\ Suits(rest[i], job.stage)
    BY <1>3, <1>5, <2>0
  <2>4. \A e : e = rest[i] => e.collection \in Later(next.collection) /\ Suits(e, job.stage)
    BY <2>3
  <2>5. PICK e : e = rest[i]
    OBVIOUS
  <2>6. PICK s : s = job.stage
    OBVIOUS
  <2>7. Suits(e, s)'
    BY <1>10, <2>4, <2>5, <2>6
  <2>8. e = job'.todo[i] /\ s = job'.stage
    BY <1>2, <2>2, <2>5, <2>6
  <2> QED BY <2>7, <2>8
<1>12. Lined(job.todo)'
  BY <1>2, <1>3 DEF Lined
<1> QED
  BY <1>2, <1>6, <1>8, <1>9, <1>11, <1>12 DEF RowsInv, GroupTyped

\* A run stops or dies: nothing is left before it.
LEMMA DieKeeps ==
    ASSUME RowsInv, Die, ReviewTypeOK', walk' \in Walks
    PROVE  RowsInv' /\ job'.todo = <<>> /\ job'.stage = "idle" /\ job'.last = "none" /\ rows' = rows
           /\ ~job'.begun /\ (job'.torn <=> job.torn \/ job.begun)
<1>1. JobTyped /\ RowsTyped
  BY DEF RowsInv, GroupTyped
<1>2. /\ job' = [job EXCEPT !.stage = "idle", !.todo = <<>>, !.begun = FALSE,
                            !.last = "none", !.torn = @ \/ job.begun]
      /\ rows' = rows
  BY DEF Die
<1>3. JobTyped' /\ job'.todo = <<>> /\ job'.stage = "idle" /\ job'.last = "none"
      /\ ~job'.begun /\ (job'.torn <=> job.torn \/ job.begun)
  <2>1. <<>> \in Seq(Entries)
    OBVIOUS
  <2>2. job.torn \in BOOLEAN /\ job.begun \in BOOLEAN
    BY <1>1 DEF JobTyped
  <2> QED BY <1>1, <1>2, <2>1, <2>2 DEF JobTyped
<1>4. FoldedOnce(rows.persons)' /\ RowsTyped'
  BY <1>1, <1>2 DEF RowsInv, RowsTyped, FoldedOnce, Present
<1> QED
  BY <1>2, <1>3, <1>4 DEF RowsInv, GroupTyped, Lined

-----------------------------------------------------------------------------
(* People, works and repositories one after another. *)

LEMMA NumbersInOrder ==
    ASSUME NEW S, S \subseteq Nat, IsFiniteSet(S)
    PROVE  /\ Cardinality(S) \in Nat /\ InOrder(S) \in [1 .. Cardinality(S) -> S]
           /\ \A x \in S : \E i \in 1 .. Cardinality(S) : InOrder(S)[i] = x
<1> DEFINE R == {x \in S \X S : x[1] < x[2]}
<1>1. Orders(R, S)
  <2>1. \A x, y \in S : <<x, y>> \in R <=> x < y
    OBVIOUS
  <2> HIDE DEF R
  <2> QED BY <2>1 DEF Orders
<1>2. \A x \in S : Before(R, S, x) = {y \in S : y < x}
  BY DEF Before
<1>3. InOrder(S) = InLine(R, S)
  <2> DEFINE line == InOrder(S)
             N == Cardinality(S)
  <2>1. line = [i \in 1 .. N |-> CHOOSE x \in S : Cardinality({y \in S : y < x}) = i - 1]
    BY DEF InOrder, Ordered
  <2>2. \A i \in 1 .. N : \E x \in S : Cardinality({y \in S : y < x}) = i - 1
    <3> HIDE DEF R, line
    <3>1. \A i \in 1 .. N : \E x \in S : Cardinality(Before(R, S, x)) = i - 1
      BY <1>1, EveryPlaceIsTaken
    <3> QED BY <1>2, <3>1
  <2> HIDE DEF line
  <2>5. line \in [1 .. N -> S]
    BY <2>1, <2>2
  <2>3. \A i \in 1 .. N : line[i] \in S /\ Cardinality({y \in S : y < line[i]}) = i - 1
    BY <2>1, <2>2
  <2> HIDE DEF R
  <2>4. \A i \in 1 .. N : line[i] \in S /\ Cardinality(Before(R, S, line[i])) = i - 1
    BY <1>2, <2>3
  <2>6. line = InLine(R, S)
    BY <1>1, <2>4, <2>5, LineIs
  <2> QED BY <2>6 DEF line
<1> HIDE DEF R
<1> QED
  BY <1>1, <1>3, LineHoldsAll

\* The run that asks the sources: each work of the people in scope, then of each
\* of them OpenAlex before ORCID.
LEMMA PersonsStartPlan ==
    ASSUME RowsInv, NEW force \in BOOLEAN, NEW selection, PersonsStart(force, selection)
    PROVE  /\ RowsInv' \/ ~(ReviewTypeOK' /\ walk' \in Walks)
           /\ rows' = rows
           /\ job'.last = (IF selection = All THEN "persons" ELSE "none")
           /\ job'.stage \in {"persons", "idle"} /\ ~job'.begun /\ job'.torn = job.torn
           /\ job.stage = "idle"
           /\ \A a \in Eligible(selection) :
                 \E i, j \in DOMAIN job'.todo :
                     /\ i < j /\ job'.todo[i].collection = "openalex" /\ job'.todo[i].of = a
                     /\ job'.todo[j].collection = "orcid" /\ job'.todo[j].of = a
           /\ \A p \in Works : (\E a \in Eligible(selection) : p \in Wrote(rows.persons[a])) =>
                 \E i \in DOMAIN job'.todo : job'.todo[i].collection = "crossref" /\ job'.todo[i].of = p
           /\ \A i \in DOMAIN job'.todo :
                 /\ job'.todo[i].collection = "openalex" =>
                       \E j \in DOMAIN job'.todo : /\ i < j /\ job'.todo[j].collection = "orcid"
                                                   /\ job'.todo[j].of = job'.todo[i].of
                 /\ job'.todo[i].collection = "crossref" => \A a \in job'.todo[i].among :
                       \E j \in DOMAIN job'.todo : i < j /\ job'.todo[j].collection = "orcid" /\ job'.todo[j].of = a
<1> DEFINE eligible == Eligible(selection)
           works == {p \in Works : \E a \in eligible : p \in Wrote(rows.persons[a])}
           ask(source, of) == [collection |-> source, of |-> of, force |-> force, among |-> eligible]
           n == Cardinality(works)
           m == Cardinality(eligible)
           crossref == [i \in 1 .. n |-> ask("crossref", InOrder(works)[i])]
           about == [i \in 1 .. m |-> <<ask("openalex", InOrder(eligible)[i]), ask("orcid", InOrder(eligible)[i])>>]
           people == FlattenSeq(about)
           writes == crossref \o people
<1>1. MayStart("persons") /\ Started("persons", selection, writes) /\ rows' = rows
  <2>1. ASSUME NEW a PROVE [i \in DOMAIN SourcesAsked |-> ask(SourcesAsked[i], a)]
                           = <<ask("openalex", a), ask("orcid", a)>>
    BY DEF SourcesAsked
  <2> HIDE DEF ask, eligible, works
  <2>2. about = [i \in 1 .. m |-> [k \in DOMAIN SourcesAsked |-> ask(SourcesAsked[k], InOrder(eligible)[i])]]
    BY <2>1
  <2> QED BY <2>2 DEF PersonsStart, ask, eligible, works
<1>2. /\ rows.persons \in PersonRows /\ rows.publications \in WorkRows
  BY DEF RowsInv, GroupTyped, RowsTyped
<1>3. /\ eligible \subseteq People /\ People \subseteq Persons /\ works \subseteq Works /\ Works \subseteq Pubs
  BY <1>2 DEF Eligible, People, Works, Present, PersonRows, WorkRows
<1>4. /\ eligible \subseteq Nat /\ IsFiniteSet(eligible) /\ works \subseteq Nat /\ IsFiniteSet(works)
  BY <1>3, FS_Subset, ResearchersAssumption
<1>5. /\ n \in Nat /\ InOrder(works) \in [1 .. n -> works]
      /\ \A p \in works : \E i \in 1 .. n : InOrder(works)[i] = p
      /\ m \in Nat /\ InOrder(eligible) \in [1 .. m -> eligible]
      /\ \A a \in eligible : \E i \in 1 .. m : InOrder(eligible)[i] = a
  BY <1>4, NumbersInOrder
<1>6. /\ \A p \in works : ask("crossref", p) \in AskSet
      /\ \A a \in eligible : ask("openalex", a) \in AskSet /\ ask("orcid", a) \in AskSet
  BY <1>3 DEF AskSet, PersonSources
<1>7. \A source, of : /\ ask(source, of).collection = source /\ ask(source, of).of = of
                      /\ ask(source, of).among = eligible
  OBVIOUS
<1>8. PICK line : line = InOrder(eligible)
  OBVIOUS
<1>9. PICK row : row = InOrder(works)
  OBVIOUS
<1> HIDE DEF eligible, works, ask, n, m
<1>10. /\ people \in Seq(AskSet) /\ Len(people) = 2 * m
       /\ \A k \in 1 .. m : people[2 * k - 1] = ask("openalex", line[k]) /\ people[2 * k] = ask("orcid", line[k])
  <2>1. about \in [1 .. m -> AskSet \X AskSet]
    BY <1>5, <1>6
  <2>2. \A k \in 1 .. m : about[k][1] = ask("openalex", line[k]) /\ about[k][2] = ask("orcid", line[k])
    BY <1>8
  <2> HIDE DEF about
  <2>3. /\ FlattenSeq(about) \in Seq(AskSet) /\ Len(FlattenSeq(about)) = 2 * m
        /\ \A k \in 1 .. m : /\ FlattenSeq(about)[2 * k - 1] = about[k][1]
                              /\ FlattenSeq(about)[2 * k] = about[k][2]
    <3>1. FlattenSeq(about) \in Seq(AskSet) /\ Pairwise(FlattenSeq(about), about, m)
      BY <1>5, <2>1, FlatPairs, Zenon
    <3> QED BY <3>1 DEF Pairwise
  <2> QED BY <2>2, <2>3
<1>11. crossref \in Seq(AskSet) /\ Len(crossref) = n /\ \A i \in 1 .. n : crossref[i] = ask("crossref", row[i])
  BY <1>5, <1>6, <1>9
<1> HIDE DEF crossref, about, people
<1>12. /\ writes \in Seq(AskSet) /\ DOMAIN writes = 1 .. n + 2 * m
       /\ \A i \in 1 .. n : writes[i] = ask("crossref", row[i]) /\ row[i] \in works
       /\ \A k \in 1 .. m : /\ writes[n + 2 * k - 1] = ask("openalex", line[k])
                            /\ writes[n + 2 * k] = ask("orcid", line[k]) /\ line[k] \in eligible
  <2>0. crossref \in Seq(AskSet) /\ people \in Seq(AskSet) /\ Len(people) = 2 * m /\ Len(crossref) = n
    BY <1>10, <1>11
  <2>1. /\ writes \in Seq(AskSet) /\ Len(writes) = n + 2 * m
        /\ \A i \in 1 .. n : writes[i] = crossref[i]
        /\ \A i \in 1 .. 2 * m : writes[i + n] = people[i]
    <3>1. /\ \A i \in DOMAIN crossref : writes[i] = crossref[i]
          /\ \A i \in DOMAIN people : writes[i + Len(crossref)] = people[i]
          /\ DOMAIN crossref = 1 .. Len(crossref) /\ DOMAIN people = 1 .. Len(people)
          /\ writes \in Seq(AskSet) /\ Len(writes) = Len(crossref) + Len(people)
      <4>1. writes \in Seq(AskSet) /\ Joins(writes, crossref, people)
        BY <2>0, JoinedLine, Zenon
      <4> HIDE DEF writes
      <4> QED BY <4>1 DEF Joins
    <3> HIDE DEF writes
    <3> QED BY <2>0, <3>1
  <2>2. \A k \in 1 .. m : 2 * k \in 1 .. 2 * m /\ 2 * k - 1 \in 1 .. 2 * m
                          /\ (2 * k) + n = n + 2 * k /\ (2 * k - 1) + n = n + 2 * k - 1
    BY <1>5
  <2>3. DOMAIN writes = 1 .. n + 2 * m
    BY <2>1
  <2> HIDE DEF writes
  <2>4. \A i \in 1 .. n : writes[i] = ask("crossref", row[i]) /\ row[i] \in works
    BY <1>5, <1>9, <1>11, <2>1
  <2>5. \A k \in 1 .. m : /\ writes[n + 2 * k - 1] = people[2 * k - 1] /\ writes[n + 2 * k] = people[2 * k]
                           /\ line[k] \in eligible
    BY <1>5, <1>8, <2>1, <2>2
  <2>6. \A k \in 1 .. m : people[2 * k - 1] = ask("openalex", line[k]) /\ people[2 * k] = ask("orcid", line[k])
    BY <1>10
  <2>7. \A k \in 1 .. m : /\ writes[n + 2 * k - 1] = ask("openalex", line[k])
                           /\ writes[n + 2 * k] = ask("orcid", line[k]) /\ line[k] \in eligible
    BY <2>5, <2>6
  <2> QED BY <2>1, <2>3, <2>4, <2>7
<1> HIDE DEF writes
<1>13. ASSUME NEW i \in DOMAIN writes
       PROVE  \/ i \in 1 .. n
              \/ \E k \in 1 .. m : i = n + 2 * k - 1 \/ i = n + 2 * k
  <2> SUFFICES ASSUME i \notin 1 .. n PROVE \E k \in 1 .. m : i = n + 2 * k - 1 \/ i = n + 2 * k
    OBVIOUS
  <2>1. i \in Nat /\ i > n /\ i <= n + 2 * m /\ i - n + 1 \in Nat
    BY <1>5, <1>12
  <2>2. PICK k \in Nat : i - n + 1 = 2 * k \/ i - n + 1 = 2 * k + 1
    BY <2>1, Halved
  <2>3. k \in 1 .. m
    BY <1>5, <2>1, <2>2
  <2>4. i = n + 2 * k - 1 \/ i = n + 2 * k
    <3>1. n \in Nat /\ i \in Nat
      BY <1>5, <2>1
    <3>2. CASE i - n + 1 = 2 * k
      BY <3>1, <3>2
    <3>3. CASE i - n + 1 = 2 * k + 1
      BY <3>1, <3>3
    <3> QED BY <2>2, <3>2, <3>3
  <2> QED BY <2>3, <2>4
<1>14. \A i \in DOMAIN writes :
          \/ \E p \in works : writes[i] = ask("crossref", p)
          \/ \E a \in eligible : writes[i] = ask("openalex", a) \/ writes[i] = ask("orcid", a)
  BY <1>12, <1>13
<1>15. Lined(writes) /\ \A i \in DOMAIN writes : Suits(writes[i], "persons")
  <2>1. \A i \in DOMAIN writes : writes[i].collection \in Asking
    BY <1>7, <1>14 DEF Asking
  <2>2. Lined(writes)
    BY <2>1 DEF Lined, Later, Asking
  <2>3. ASSUME NEW i \in DOMAIN writes PROVE Suits(writes[i], "persons")
    BY <1>3, <1>7, <1>14 DEF Suits, Asking, PersonSources
  <2> QED BY <2>2, <2>3
<1>16. writes \in Seq(Entries)
  BY <1>12 DEF Entries
<1>17. /\ job'.todo = writes /\ job'.torn = job.torn /\ job.stage = "idle"
       /\ job'.stage \in {"persons", "idle"} /\ ~job'.begun
       /\ job'.last = (IF selection = All THEN "persons" ELSE "none")
  BY <1>1, <1>16, StartedJob DEF RowsInv, GroupTyped
<1>18. RowsInv' \/ ~(ReviewTypeOK' /\ walk' \in Walks)
  BY <1>1, <1>15, <1>16, StartKeeps
<1>19. ASSUME NEW k \in 1 .. m
       PROVE  /\ n + 2 * k - 1 \in DOMAIN writes /\ n + 2 * k \in DOMAIN writes
              /\ n + 2 * k - 1 < n + 2 * k /\ \A i \in 1 .. n : i < n + 2 * k
  BY <1>5, <1>12
<1>20. ASSUME NEW a \in eligible
       PROVE  \E k \in 1 .. m : /\ writes[n + 2 * k - 1] = ask("openalex", a)
                                /\ writes[n + 2 * k] = ask("orcid", a)
  BY <1>5, <1>8, <1>12
<1>21. ASSUME NEW a \in eligible
       PROVE  \E i, j \in DOMAIN writes : /\ i < j /\ writes[i].collection = "openalex" /\ writes[i].of = a
                                          /\ writes[j].collection = "orcid" /\ writes[j].of = a
  <2>1. PICK k \in 1 .. m : writes[n + 2 * k - 1] = ask("openalex", a) /\ writes[n + 2 * k] = ask("orcid", a)
    BY <1>20
  <2> QED BY <1>7, <1>19, <2>1
<1>22. ASSUME NEW p \in works
       PROVE  \E i \in DOMAIN writes : writes[i].collection = "crossref" /\ writes[i].of = p
  <2>1. PICK i \in 1 .. n : row[i] = p
    BY <1>5, <1>9
  <2>2. i \in DOMAIN writes
    BY <1>5, <1>12
  <2> QED BY <1>7, <1>12, <2>1, <2>2
<1>23. ASSUME NEW i \in DOMAIN writes, writes[i].collection = "openalex"
       PROVE  \E j \in DOMAIN writes : /\ i < j /\ writes[j].collection = "orcid" /\ writes[j].of = writes[i].of
  <2>1. PICK k \in 1 .. m : i = n + 2 * k - 1
    <3>1. i \notin 1 .. n /\ \A k \in 1 .. m : i # n + 2 * k
      BY <1>7, <1>12, <1>23
    <3> QED BY <1>13, <3>1
  <2>2. writes[n + 2 * k].collection = "orcid" /\ writes[n + 2 * k].of = writes[i].of
    BY <1>7, <1>12, <2>1
  <2> QED BY <1>19, <2>1, <2>2
<1>24. ASSUME NEW i \in DOMAIN writes, writes[i].collection = "crossref", NEW a \in writes[i].among
       PROVE  \E j \in DOMAIN writes : i < j /\ writes[j].collection = "orcid" /\ writes[j].of = a
  <2>1. i \in 1 .. n
    <3>1. \A k \in 1 .. m : i # n + 2 * k - 1 /\ i # n + 2 * k
      BY <1>7, <1>12, <1>24
    <3> QED BY <1>13, <3>1
  <2>2. a \in eligible
    BY <1>7, <1>12, <1>24, <2>1
  <2>3. PICK k \in 1 .. m : writes[n + 2 * k] = ask("orcid", a)
    BY <1>20, <2>2
  <2> QED BY <1>7, <1>19, <2>1, <2>3
<1> QED
  BY <1>1, <1>17, <1>18, <1>21, <1>22, <1>23, <1>24 DEF eligible, works

-----------------------------------------------------------------------------
(* What the sources say of a person. *)

\* the types of what is read do not hang on the row
LEMMA StayTypes ==
    ASSUME NEW stays \in SUBSET StaySet, NEW source \in {"openalex", "orcid"}
    PROVE  Stays(stays, source) \subseteq Affiliations
<1> SUFFICES ASSUME NEW s \in stays, NEW y \in (IF s.years = {} THEN {NoYear} ELSE s.years)
             PROVE  [place |-> s.place, source |-> source, year |-> y] \in Affiliations
  BY DEF Stays
<1>1. s.place \in Places /\ y \in {YearOf[p] : p \in Pubs} \cup {NoYear}
  BY DEF StaySet
<1> QED BY <1>1 DEF Affiliations

\* the row gathers, and what it was asked by and folded from stays
Reads(row, found) ==
    /\ found \in PersonRow /\ Gathers(row, found, TRUE) /\ found.merged = row.merged
    /\ found.authored = row.authored /\ found.openalex = row.openalex /\ found.orcids = row.orcids

LEMMA OpenAlexReads ==
    ASSUME NEW row \in PersonRow, NEW a \in Persons, NEW whole \in BOOLEAN
    PROVE  /\ Reads(row, FromOpenAlex(row, OpenAlexSays[a], whole))
           /\ Signed(a, row, FromOpenAlex(row, OpenAlexSays[a], whole))
<1> DEFINE said == OpenAlexSays[a]
           found == FromOpenAlex(row, said, whole)
           affs == IF whole THEN row.affs \cup OpenAlexAffiliations(said) ELSE row.affs
           orcid == IF row.orcid = Unknown THEN said.orcid ELSE row.orcid
           raw == IF said.display = Unknown THEN row.raw ELSE said.display
<1>1. said \in [orcid : Orcids \cup {Unknown}, stays : SUBSET StaySet, last : SUBSET Places,
                display : Spellings \cup {Unknown}, names : SUBSET Spellings]
  BY ResearchersAssumption
<1> HIDE DEF said
<1>2. OpenAlexAffiliations(said) \subseteq Affiliations
  <2>1. said.stays \cup {[place |-> x, years |-> {}] : x \in said.last} \in SUBSET StaySet
    BY <1>1 DEF StaySet
  <2> QED BY <2>1, StayTypes DEF OpenAlexAffiliations
<1>3. affs \in SUBSET Affiliations /\ row.affs \subseteq affs /\ orcid \in Orcids \cup {Unknown}
      /\ row.names \cup said.names \in SUBSET Spellings /\ (row.orcid # Unknown => orcid = row.orcid)
      /\ raw \in Spellings \cup {Unknown} /\ (row.raw # Unknown => raw # Unknown /\ raw \in {row.raw, said.display})
  BY <1>1, <1>2 DEF PersonRow
<1>4. found = [row EXCEPT !.raw = raw, !.names = row.names \cup said.names, !.orcid = orcid, !.affs = affs]
  BY DEF FromOpenAlex, PersonRow
<1> HIDE DEF found, affs, orcid, raw
<1>5. found \in PersonRow
  BY <1>3, <1>4 DEF PersonRow
<1>6. Gathers(row, found, TRUE) /\ found.merged = row.merged
      /\ found.authored = row.authored /\ found.openalex = row.openalex /\ found.orcids = row.orcids
  BY <1>3, <1>4 DEF PersonRow, Gathers
<1>7. Signed(a, row, found)
  BY <1>3, <1>4 DEF PersonRow, Signed, said
<1> QED BY <1>5, <1>6, <1>7 DEF Reads, found, said

LEMMA FirstLinkTypes ==
    ASSUME NEW links \in Seq([to : {"index", "github", "page"}, login : Logins \cup {Unknown},
                              page : Pages \cup {Unknown}]), NEW kind
    PROVE  FirstLink(links, kind).login \in Logins \cup {Unknown}
           /\ FirstLink(links, kind).page \in Pages \cup {Unknown}
<1> DEFINE found == {i \in DOMAIN links : links[i].to = kind}
<1>1. CASE found = {}
  BY <1>1 DEF FirstLink, NoLink
<1>2. CASE found # {}
  <2>1. found \subseteq Nat /\ found \subseteq DOMAIN links
    OBVIOUS
  <2>2. Min(found) \in found
    <3> HIDE DEF found
    <3> QED BY <1>2, <2>1, MinBelongs
  <2>3. FirstLink(links, kind) = links[Min(found)] /\ Min(found) \in DOMAIN links
    BY <1>2, <2>1, <2>2 DEF FirstLink
  <2>5. \A S : links \in Seq(S) => \A i \in DOMAIN links : links[i] \in S
    OBVIOUS
  <2> HIDE DEF found
  <2>4. links[Min(found)] \in [to : {"index", "github", "page"}, login : Logins \cup {Unknown},
                              page : Pages \cup {Unknown}]
    BY <2>3, <2>5, Zenon
  <2> QED BY <2>3, <2>4
<1> QED BY <1>1, <1>2

LEMMA OrcidReads ==
    ASSUME NEW row \in PersonRow, NEW o \in Orcids, NEW whole \in BOOLEAN
    PROVE  /\ Reads(row, FromOrcid(row, OrcidSays[o], whole))
           /\ FromOrcid(row, OrcidSays[o], whole).orcid = row.orcid
           /\ FromOrcid(row, OrcidSays[o], whole).raw = row.raw
<1> DEFINE said == OrcidSays[o]
           found == FromOrcid(row, said, whole)
           card == IF row.card = Unknown /\ said.stated # <<>> THEN Head(said.stated) ELSE row.card
           github == IF row.github = Unknown THEN FirstLink(said.links, "github").login ELSE row.github
           page == IF row.page = Unknown THEN FirstLink(said.links, "page").page ELSE row.page
           affs == IF whole THEN row.affs \cup OrcidAffiliations(said) ELSE row.affs
<1>1. said \in [stated : Seq(Emails), stays : SUBSET StaySet, names : SUBSET Spellings,
                links : Seq([to : {"index", "github", "page"}, login : Logins \cup {Unknown},
                             page : Pages \cup {Unknown}])]
  BY ResearchersAssumption
<1> HIDE DEF said
<1>2. OrcidAffiliations(said) \subseteq Affiliations
  BY <1>1, StayTypes DEF OrcidAffiliations
<1>3. said.stated \in Seq(Emails)
  BY <1>1
<1>4. Range(said.stated) \subseteq Emails /\ (said.stated # <<>> => Head(said.stated) \in Emails)
  BY <1>3 DEF Range
<1>5. github \in Logins \cup {Unknown} /\ page \in Pages \cup {Unknown}
  <2>1. said.links \in Seq([to : {"index", "github", "page"}, login : Logins \cup {Unknown},
                            page : Pages \cup {Unknown}])
    BY <1>1
  <2>2. FirstLink(said.links, "github").login \in Logins \cup {Unknown}
        /\ FirstLink(said.links, "page").page \in Pages \cup {Unknown}
    BY <2>1, FirstLinkTypes
  <2> QED BY <2>2 DEF PersonRow
<1>6. /\ affs \in SUBSET Affiliations /\ row.affs \subseteq affs /\ card \in Emails \cup {Unknown}
      /\ row.names \cup said.names \in SUBSET Spellings
      /\ row.emails \cup Range(said.stated) \in SUBSET Emails
      /\ (row.card # Unknown => card = row.card) /\ (row.github # Unknown => github = row.github)
  BY <1>1, <1>2, <1>4 DEF PersonRow
<1>7. found = [row EXCEPT !.emails = row.emails \cup Range(said.stated), !.card = card,
                          !.names = row.names \cup said.names, !.github = github, !.page = page, !.affs = affs]
  BY DEF FromOrcid, PersonRow
<1> HIDE DEF found, affs, card, github, page
<1>8. found \in PersonRow
  BY <1>5, <1>6, <1>7 DEF PersonRow
<1>9. Gathers(row, found, TRUE) /\ found.merged = row.merged /\ found.orcid = row.orcid /\ found.raw = row.raw
      /\ found.authored = row.authored /\ found.openalex = row.openalex /\ found.orcids = row.orcids
  BY <1>6, <1>7 DEF PersonRow, Gathers
<1> QED BY <1>8, <1>9 DEF Reads, found, said

LEMMA KeepsOn ==
    ASSUME NEW first, NEW then, NEW last, Gathers(first, then, TRUE), Keeps(then, last, TRUE)
    PROVE  Keeps(first, last, TRUE)
<1>1. /\ first.emails \subseteq last.emails /\ first.names \subseteq last.names
      /\ first.affs \subseteq last.affs /\ first.depts \subseteq last.depts
      /\ first.contributed \subseteq last.contributed /\ Wrote(first) \subseteq Wrote(last)
  BY DEF Gathers, Keeps, Wrote
<1>2. first.card # Unknown => last.card = first.card
  BY DEF Gathers, Keeps
<1>3. /\ first.orcid # Unknown => last.orcid = first.orcid
      /\ first.github # Unknown => last.github = first.github
      /\ first.raw # Unknown => last.raw # Unknown
  BY DEF Gathers, Keeps
<1>4. \A x \in first.authored : x.place # Unknown =>
          \/ x \in last.authored
          \/ x.slot \in DOMAIN Stated[x.pub] /\ [x EXCEPT !.place = Stated[x.pub][x.slot]] \in last.authored
  BY DEF Gathers, Keeps
<1> QED BY <1>1, <1>2, <1>3, <1>4 DEF Keeps

\* Places that are filled in.
LEMMA PlacedKeeps ==
    ASSUME NEW row \in PersonRow, NEW placed \in Placements(row)
    PROVE  /\ placed \in PersonRow /\ Keeps(row, placed, TRUE) /\ placed.merged = row.merged
           /\ placed.orcid = row.orcid /\ placed.openalex = row.openalex /\ placed.orcids = row.orcids
           /\ Wrote(placed) = Wrote(row) /\ placed.raw = row.raw
<1> DEFINE ours == row.itmo \/ \E x \in row.affs : x.place \in ItmoPlaces
           open == IF row.affs = {} THEN {} ELSE {x.pub : x \in {y \in row.authored : y.place = Unknown}}
           offers == [p \in open |-> PlacesFor(row.affs, YearOf[p])]
           Filled(x, pick) == IF x.place = Unknown /\ x.pub \in open THEN [x EXCEPT !.place = pick[x.pub]] ELSE x
<1>1. PICK pick \in Picks(offers) :
          placed = [row EXCEPT !.itmo = ours, !.authored = {Filled(x, pick) : x \in row.authored}]
  BY DEF Placements, PersonRow
<1>2. ASSUME NEW p \in open PROVE pick[p] \in Places
  <2>1. DOMAIN offers = open /\ offers[p] = PlacesFor(row.affs, YearOf[p])
    OBVIOUS
  <2> HIDE DEF offers
  <2>2. pick[p] \in PlacesFor(row.affs, YearOf[p])
    BY <2>1 DEF Picks
  <2>3. \A x \in row.affs : x.place \in Places
    BY DEF PersonRow, Affiliations
  <2> QED BY <2>2, <2>3 DEF PlacesFor
<1>3. ours \in BOOLEAN
  BY DEF PersonRow
<1>4. ASSUME NEW x \in row.authored
      PROVE  /\ Filled(x, pick) \in Authorships /\ Filled(x, pick).pub = x.pub
             /\ x.place # Unknown => Filled(x, pick) = x
  <2>1. x \in Authorships
    BY DEF PersonRow
  <2>2. x.pub \in open => pick[x.pub] \in Places
    BY <1>2
  <2> HIDE DEF open
  <2> QED BY <2>1, <2>2 DEF Authorships
<1> DEFINE authored == {Filled(x, pick) : x \in row.authored}
<1>5. /\ authored \in SUBSET Authorships
      /\ \A x \in row.authored : x.place # Unknown => x \in authored
      /\ {x.pub : x \in authored} = {x.pub : x \in row.authored}
  <2>1. authored \in SUBSET Authorships
    BY <1>4
  <2>2. \A x \in row.authored : x.place # Unknown => x \in authored
    BY <1>4
  <2>3. \A y \in authored : \E x \in row.authored : y.pub = x.pub
    BY <1>4
  <2>4. \A x \in row.authored : Filled(x, pick) \in authored /\ Filled(x, pick).pub = x.pub
    BY <1>4
  <2> HIDE DEF authored, Filled
  <2> QED BY <2>1, <2>2, <2>3, <2>4
<1>6. placed = [row EXCEPT !.itmo = ours, !.authored = authored]
  BY <1>1
<1> HIDE DEF ours, authored
<1>7. placed \in PersonRow
  BY <1>3, <1>5, <1>6 DEF PersonRow
<1>8. /\ placed.emails = row.emails /\ placed.names = row.names /\ placed.affs = row.affs
      /\ placed.depts = row.depts /\ placed.contributed = row.contributed /\ placed.authored = authored
      /\ placed.card = row.card /\ placed.orcid = row.orcid /\ placed.github = row.github
      /\ placed.merged = row.merged /\ placed.openalex = row.openalex /\ placed.orcids = row.orcids
      /\ placed.raw = row.raw
  BY <1>6 DEF PersonRow
<1>9. Wrote(placed) = Wrote(row)
  BY <1>5, <1>8 DEF Wrote
<1> QED BY <1>5, <1>7, <1>8, <1>9 DEF Keeps

-----------------------------------------------------------------------------
(* A request: one row changes, and what is asked next stays asked. *)

\* the ask a run is at, and what is left
LEMMA AskAtHand ==
    ASSUME RowsInv, NEW source \in Asking, Doing(source)
    PROVE  /\ Head(job.todo) = job.todo[1] /\ 1 \in DOMAIN job.todo /\ job.stage = "persons"
           /\ Head(job.todo) \in AskSet /\ Head(job.todo).collection = source
           /\ Head(job.todo).among \subseteq People
           /\ source = "crossref" => Head(job.todo).of \in Works
           /\ source # "crossref" => Head(job.todo).of \in People
           /\ \A i \in DOMAIN job.todo : job.todo[i].collection \in Asking
<1>1. JobTyped /\ Lined(job.todo) /\ job.stage # "idle"
  BY DEF RowsInv, GroupTyped, Doing
<1>2. Head(job.todo) \in Entries /\ Head(job.todo) = job.todo[1] /\ 1 \in DOMAIN job.todo
  BY <1>1, RestLined
<1>3. Head(job.todo).collection = source
  BY DEF Doing
<1>4. Suits(Head(job.todo), job.stage)
  BY <1>2 DEF RowsInv
<1>5. Head(job.todo) \in AskSet
  BY <1>2, <1>3 DEF Entries, AskSet, WriteSet, Asking, PersonSources
<1>6. job.stage = "persons" /\ Head(job.todo).among \subseteq People
  BY <1>3, <1>4 DEF Suits
<1>7. source = "crossref" => Head(job.todo).of \in Works
  BY <1>3, <1>4 DEF Suits
<1>8. source # "crossref" => Head(job.todo).of \in People
  BY <1>3, <1>4 DEF Suits, Asking, PersonSources
<1>9. \A i \in DOMAIN job.todo : job.todo[i].collection \in Asking
  BY <1>6 DEF RowsInv, Suits
<1> QED BY <1>2, <1>3, <1>5, <1>6, <1>7, <1>8, <1>9

\* what an ask leaves as it is
AskedRows ==
    /\ RowsTyped' /\ People' = People /\ Works' = Works
    /\ rows'.profiles = rows.profiles /\ rows'.repositories = rows.repositories
    /\ \A a \in People : /\ rows'.persons[a].merged = rows.persons[a].merged
                         /\ Keeps(rows.persons[a], rows'.persons[a], TRUE)
                         /\ Signed(a, rows.persons[a], rows'.persons[a])
                         /\ Wrote(rows'.persons[a]) = Wrote(rows.persons[a])
    /\ \A p \in Works : rows'.publications[p].doi = rows.publications[p].doi

LEMMA AskKeeps ==
    ASSUME RowsInv, NEW source \in Asking, Doing(source), Onward(<<>>), AskedRows,
           review' = review, walk' = walk
    PROVE  RowsInv' /\ PersonsFollow(rows.persons, rows'.persons)
<1>1. JobTyped /\ Lined(job.todo) /\ job.stage = "persons" /\ \A i \in DOMAIN job.todo : job.todo[i].collection \in Asking
  BY AskAtHand DEF RowsInv, GroupTyped
<1> DEFINE rest == Tail(job.todo)
<1>2. /\ JobTyped' /\ job'.todo = rest
      /\ job'.stage = (IF rest = <<>> THEN "idle" ELSE job.stage)
  <2>1. <<>> \in Seq(Entries)
    OBVIOUS
  <2>2. job.stage # "idle"
    BY <1>1
  <2>3. rest \in Seq(Entries)
    BY <1>1, <2>2, RestLined
  <2>4. <<>> \o rest = rest
    <3> HIDE DEF rest
    <3> QED BY <2>3
  <2> QED BY <1>1, <2>1, <2>2, <2>4, OnwardJob
<1>3. /\ rest \in Seq(Entries) /\ Lined(rest)
      /\ \A i \in DOMAIN rest : i + 1 \in DOMAIN job.todo /\ rest[i] = job.todo[i + 1]
  BY <1>1, RestLined
<1> HIDE DEF rest
<1>4. rows.persons \in PersonRows /\ rows'.persons \in PersonRows /\ FoldedOnce(rows.persons)
  BY DEF RowsInv, GroupTyped, RowsTyped, AskedRows
<1>5. PersonsFollow(rows.persons, rows'.persons)
  <2>1. \A a \in Persons : rows.persons[a] = Absent => rows'.persons[a] = Absent
    BY <1>4, PeopleRowsAre DEF AskedRows, People, Present
  <2>2. \A a \in Present(rows.persons) :
            /\ rows'.persons[a] # Absent /\ rows'.persons[a].merged = rows.persons[a].merged
            /\ Keeps(rows.persons[a], rows'.persons[a], TRUE) /\ Signed(a, rows.persons[a], rows'.persons[a])
    BY <1>4, PeopleRowsAre DEF AskedRows, People, Present
  <2> QED BY <1>4, <2>1, <2>2, SamePeople
<1>6. FoldedOnce(rows.persons)'
  BY <1>5 DEF PersonsFollow, FoldedOnce, Present
<1>7. ASSUME NEW i \in DOMAIN job'.todo PROVE Suits(job.todo[i], job.stage)'
  <2>1. i \in DOMAIN rest /\ rest # <<>>
    BY <1>2, <1>3
  <2>2. PICK e : e = rest[i]
    OBVIOUS
  <2>3. i + 1 \in DOMAIN job.todo /\ e = job.todo[i + 1]
    BY <1>3, <2>1, <2>2
  <2>4. Suits(e, job.stage) /\ e.collection \in Asking
    BY <1>1, <2>3 DEF RowsInv
  <2>5. Suits(e, "persons")
    BY <1>1, <2>4
  <2>6. People' = People /\ Works' = Works
    BY DEF AskedRows
  <2>7. Suits(e, "persons")'
    BY <2>4, <2>5, <2>6 DEF Suits, Asking, PersonSources
  <2>8. job'.todo[i] = e /\ job'.stage = "persons"
    BY <1>1, <1>2, <2>1, <2>2
  <2> QED BY <2>7, <2>8
<1>8. Lined(job.todo)'
  BY <1>2, <1>3 DEF Lined
<1>9. ReviewTypeOK' /\ walk' \in Walks
  BY DEF RowsInv, GroupTyped, ReviewTypeOK
<1>10. RowsTyped'
  BY DEF AskedRows
<1> QED BY <1>2, <1>5, <1>6, <1>7, <1>8, <1>9, <1>10 DEF RowsInv, GroupTyped

LEMMA CrossrefEndsAre ==
    ASSUME NEW ask, NEW end \in CrossrefEnds(ask)
    PROVE  /\ end.state \in SourceStates
           /\ end.given \subseteq Told(ask.of, {a \in ask.among : ask.of \in Wrote(rows.persons[a])})
<1> DEFINE told == Told(ask.of, {a \in ask.among : ask.of \in Wrote(rows.persons[a])})
<1>1. \/ end = [state |-> "not_applicable", given |-> {}]
      \/ end = [state |-> IF told = {} THEN "empty" ELSE "completed", given |-> told]
      \/ \E some \in SUBSET told : end = [state |-> "failed", given |-> some]
  BY DEF CrossrefEnds
<1> HIDE DEF told
<1>2. end.state \in {"not_applicable", "empty", "completed", "failed"} /\ end.given \subseteq told
  BY <1>1
<1> QED BY <1>2 DEF SourceStates, told

\* A work that Crossref is asked about: who it tells an ORCID of has none yet and
\* is among those who are asked about next.
LEMMA AskCrossrefSays ==
    ASSUME RowsInv, AskCrossref
    PROVE  /\ AskedRows
           /\ \A a \in People : /\ rows'.persons[a].orcids = rows.persons[a].orcids
                                /\ rows'.persons[a].openalex = rows.persons[a].openalex
                                /\ a \notin Head(job.todo).among => rows'.persons[a].orcid = rows.persons[a].orcid
           /\ \A p \in Works : p # Head(job.todo).of => rows'.publications[p] = rows.publications[p]
           /\ rows'.publications[Head(job.todo).of].crossref.key = rows'.publications[Head(job.todo).of].doi
<1> DEFINE ask == Head(job.todo)
           p == ask.of
           work == rows.publications[p]
           told == Told(p, {a \in ask.among : p \in Wrote(rows.persons[a])})
           people(given) == [a \in Persons |-> IF a \notin given THEN rows.persons[a]
                             ELSE [rows.persons[a] EXCEPT !.orcid = CrossrefSays[p][Family(a)]]]
           Settled(state, given) ==
               rows' = [rows EXCEPT
                   !.publications[p].crossref = Source(state, work.doi), !.persons = people(given)]
<1>1. /\ p \in Works /\ ask.among \subseteq People /\ Doing("crossref")
  BY AskAtHand DEF AskCrossref, Asking
<1>2. /\ rows \in [publications : WorkRows, persons : PersonRows,
                   profiles : ProfileRows, repositories : RepoRows]
  BY DEF RowsInv, GroupTyped, RowsTyped
<1>3. /\ p \in Pubs /\ work \in WorkRow /\ People \subseteq Persons /\ Works \subseteq Pubs
      /\ \A a \in People : rows.persons[a] \in PersonRow
      /\ \A q \in Works : rows.publications[q] \in WorkRow
  BY <1>1, <1>2 DEF Works, People, Present, WorkRows, PersonRows
<1>4. ASSUME NEW a \in told
      PROVE  /\ a \in ask.among /\ rows.persons[a].orcid = Unknown /\ CrossrefSays[p][Family(a)] \in Orcids
             /\ a \in People
  <2>1. /\ a \in ask.among /\ rows.persons[a].orcid = Unknown /\ CrossrefSays[p][Family(a)] # Unknown
        /\ rows.persons[a].raw # Unknown
    BY DEF Told
  <2>2. a \in People /\ a \in Persons
    BY <1>1, <1>3, <2>1
  <2>3. CrossrefSays[p] \in [Families -> Orcids \cup {Unknown}] /\ Family(a) \in Families
    <3>1. rows.persons[a].raw \in Spellings
      BY <1>3, <2>1, <2>2 DEF PersonRow
    <3> QED BY <1>3, <3>1, ResearchersAssumption DEF Family
  <2> QED BY <2>1, <2>2, <2>3
<1>5. \/ rows' = rows /\ work.crossref.key = work.doi
      \/ \E state \in SourceStates : \E given \in SUBSET told : Settled(state, given)
  <2>1. CASE ~NeedsSource(ask.force, work.crossref, work.doi)
    BY <2>1 DEF AskCrossref, NeedsSource
  <2>2. CASE NeedsSource(ask.force, work.crossref, work.doi)
    <3>1. PICK end \in CrossrefEnds(ask) : Settled(end.state, end.given)
      BY <2>2 DEF AskCrossref
    <3>2. end.state \in SourceStates /\ end.given \in SUBSET told
      BY <3>1, CrossrefEndsAre
    <3> HIDE DEF Settled, told
    <3> QED BY <3>1, <3>2
  <2> QED BY <2>1, <2>2
<1>6. CASE rows' = rows /\ work.crossref.key = work.doi
  <2>1. AskedRows
    <3>1. \A row : Keeps(row, row, TRUE) /\ \A b : Signed(b, row, row)
      BY DEF Keeps, Signed
    <3> QED BY <1>2, <1>6, <3>1 DEF AskedRows, RowsTyped, People, Works, Present
  <2> QED BY <1>6, <2>1
<1>7. CASE \E state \in SourceStates : \E given \in SUBSET told : Settled(state, given)
  <2>1. PICK state \in SourceStates, given \in SUBSET told : Settled(state, given)
    BY <1>7
  <2>2. ASSUME NEW a \in given
        PROVE  /\ a \in ask.among /\ rows.persons[a].orcid = Unknown /\ CrossrefSays[p][Family(a)] \in Orcids
               /\ a \in People
    BY <1>4
  <2> HIDE DEF told
  <2> DEFINE table == people(given)
             papers == [rows.publications EXCEPT ![p].crossref = Source(state, work.doi)]
  <2>3. rows' = [rows EXCEPT !.publications = papers, !.persons = table]
    BY <1>2, <2>1
  <2>4. papers \in WorkRows /\ papers[p] = [work EXCEPT !.crossref = Source(state, work.doi)]
        /\ \A q \in Pubs : q # p => papers[q] = rows.publications[q]
    <3>1. rows.publications \in WorkRows
      BY <1>2
    <3>2. [work EXCEPT !.crossref = Source(state, work.doi)] \in WorkRow
      BY <1>3 DEF WorkRow, Source
    <3> DEFINE new == [work EXCEPT !.crossref = Source(state, work.doi)]
    <3>3. papers = [rows.publications EXCEPT ![p] = new]
      BY <1>3, <3>1 DEF WorkRows
    <3> HIDE DEF new, papers
    <3> QED BY <1>3, <3>1, <3>2, <3>3 DEF WorkRows, new
  <2>5. papers[p].crossref.key = papers[p].doi /\ papers[p].doi = work.doi /\ papers[p] \in WorkRow
    <3>1. work \in WorkRow /\ papers[p] = [work EXCEPT !.crossref = Source(state, work.doi)]
      BY <1>3, <2>4
    <3>2. \A w, new : w \in WorkRow /\ new = [w EXCEPT !.crossref = [state |-> state, key |-> w.doi]] =>
              new.crossref.key = new.doi /\ new.doi = w.doi /\ new \in WorkRow
      BY DEF WorkRow
    <3> QED BY <3>1, <3>2 DEF Source
  <2> HIDE DEF papers
  <2>6. ASSUME NEW a \in Persons
        PROVE  /\ a \notin given => table[a] = rows.persons[a]
               /\ a \in given => /\ table[a] \in PersonRow /\ table[a].merged = rows.persons[a].merged
                                 /\ Keeps(rows.persons[a], table[a], TRUE)
                                 /\ Signed(a, rows.persons[a], table[a])
                                 /\ Wrote(table[a]) = Wrote(rows.persons[a])
                                 /\ table[a].orcids = rows.persons[a].orcids
                                 /\ table[a].openalex = rows.persons[a].openalex
    <3>1. CASE a \in given
      <4> DEFINE row == rows.persons[a]
                 o == CrossrefSays[p][Family(a)]
      <4>1. table[a] = [row EXCEPT !.orcid = o]
        BY <3>1
      <4>2. row \in PersonRow /\ o \in Orcids /\ row.orcid = Unknown
        BY <1>3, <2>2, <3>1
      <4> HIDE DEF table, row, o
      <4>3. table[a] \in PersonRow
        BY <4>1, <4>2 DEF PersonRow
      <4>4. /\ table[a].merged = row.merged /\ table[a].authored = row.authored
            /\ table[a].orcids = row.orcids /\ table[a].openalex = row.openalex
            /\ Gathers(row, table[a], TRUE) /\ Signed(a, row, table[a])
        BY <4>1, <4>2 DEF PersonRow, Gathers, Signed
      <4>5. Keeps(row, table[a], TRUE)
        BY <4>4, GatheredKept
      <4> QED BY <3>1, <4>3, <4>4, <4>5 DEF row, Wrote
    <3>2. CASE a \notin given
      BY <3>2
    <3> QED BY <3>1, <3>2
  <2>7. DOMAIN table = Persons /\ table = [a \in Persons |-> table[a]]
    OBVIOUS
  <2> HIDE DEF table
  <2>8. table \in PersonRows
    <3>1. \A a \in Persons : table[a] \in {Absent} \cup PersonRow
      BY <1>2, <2>6 DEF PersonRows
    <3> QED BY <2>7, <3>1 DEF PersonRows
  <2>9. Present(table) = People
    <3>1. Absent \notin PersonRow
      BY ResearchersAssumption
    <3>2. \A a \in Persons : table[a] = Absent <=> rows.persons[a] = Absent
      BY <1>3, <2>2, <2>6, <3>1
    <3> QED BY <1>2, <2>7, <3>2 DEF Present, People, PersonRows
  <2>10. Present(papers) = Works
    <3>1. Absent \notin WorkRow
      BY ResearchersAssumption
    <3>2. \A q \in Pubs : papers[q] = Absent <=> rows.publications[q] = Absent
      BY <1>3, <2>4, <2>5, <3>1
    <3> QED BY <1>2, <2>4, <3>2 DEF Present, Works, WorkRows
  <2>11. /\ rows'.publications = papers /\ rows'.persons = table
         /\ rows'.profiles = rows.profiles /\ rows'.repositories = rows.repositories /\ RowsTyped'
    BY <1>2, <2>3, <2>4, <2>8 DEF RowsTyped
  <2>12. AskedRows
    <3>1. \A row : Keeps(row, row, TRUE) /\ \A b : Signed(b, row, row)
      BY DEF Keeps, Signed
    <3>2. People' = People /\ Works' = Works
      BY <2>9, <2>10, <2>11 DEF People, Works
    <3>3. \A q \in Works : rows'.publications[q].doi = rows.publications[q].doi
      BY <1>3, <2>4, <2>5, <2>11
    <3>4. ASSUME NEW a \in People
          PROVE  /\ rows'.persons[a].merged = rows.persons[a].merged
                 /\ Keeps(rows.persons[a], rows'.persons[a], TRUE)
                 /\ Signed(a, rows.persons[a], rows'.persons[a])
                 /\ Wrote(rows'.persons[a]) = Wrote(rows.persons[a])
      <4>1. a \in Persons /\ rows'.persons[a] = table[a]
        BY <1>3, <2>11
      <4>2. CASE a \in given
        BY <2>6, <4>1, <4>2
      <4>3. CASE a \notin given
        BY <2>6, <3>1, <4>1, <4>3
      <4> QED BY <4>2, <4>3
    <3> QED BY <2>11, <3>2, <3>3, <3>4 DEF AskedRows
  <2>13. ASSUME NEW a \in People
         PROVE  /\ rows'.persons[a].orcids = rows.persons[a].orcids
                /\ rows'.persons[a].openalex = rows.persons[a].openalex
                /\ a \notin ask.among => rows'.persons[a].orcid = rows.persons[a].orcid
    BY <1>3, <2>2, <2>6, <2>11
  <2> QED BY <1>3, <2>4, <2>5, <2>11, <2>12, <2>13
<1> QED BY <1>5, <1>6, <1>7

\* A person asked about: the source now has the key it was asked by.
LEMMA AskAboutSays ==
    ASSUME RowsInv, NEW source \in PersonSources, AskAbout(source)
    PROVE  /\ AskedRows
           /\ rows'.publications = rows.publications
           /\ \A a \in People : a # Head(job.todo).of => rows'.persons[a] = rows.persons[a]
           /\ source = "openalex" =>
                 /\ rows'.persons[Head(job.todo).of].openalex.key = OpenAlexOf[Head(job.todo).of]
                 /\ rows'.persons[Head(job.todo).of].orcids = rows.persons[Head(job.todo).of].orcids
           /\ source = "orcid" =>
                 /\ rows'.persons[Head(job.todo).of].orcids.key = rows'.persons[Head(job.todo).of].orcid
                 /\ rows'.persons[Head(job.todo).of].openalex = rows.persons[Head(job.todo).of].openalex
<1> DEFINE ask == Head(job.todo)
           a == ask.of
           row == rows.persons[a]
           field == IF source = "openalex" THEN "openalex" ELSE "orcids"
           key == IF source = "openalex" THEN OpenAlexOf[a] ELSE row.orcid
           Read(whole) == IF source = "openalex" THEN FromOpenAlex(row, OpenAlexSays[a], whole)
                          ELSE FromOrcid(row, OrcidSays[key], whole)
           marked(found, state) == [found EXCEPT ![field] = Source(state, key)]
           Saved(found, state) ==
               \E placed \in Placements(marked(found, state)) : rows' = [rows EXCEPT !.persons[a] = placed]
<1>1. /\ a \in People /\ source \in Asking /\ Doing(source)
  BY AskAtHand DEF AskAbout, Asking, PersonSources
<1>2. rows \in [publications : WorkRows, persons : PersonRows,
                profiles : ProfileRows, repositories : RepoRows]
  BY DEF RowsInv, GroupTyped, RowsTyped
<1>3. /\ a \in Persons /\ row \in PersonRow /\ Absent \notin PersonRow
      /\ \A b \in People : b \in Persons
  BY <1>1, <1>2, ResearchersAssumption DEF People, Present, PersonRows
<1>4. /\ source = "openalex" => key \in Persons \cup {Unknown}
      /\ source = "orcid" => key \in Orcids \cup {Unknown}
  BY <1>3, ResearchersAssumption DEF PersonRow
<1>5. ASSUME NEW whole \in BOOLEAN, key # Unknown
      PROVE  /\ Reads(row, Read(whole)) /\ Signed(a, row, Read(whole))
             /\ source = "orcid" => Read(whole).orcid = row.orcid
  <2>1. CASE source = "openalex"
    BY <1>3, <2>1, OpenAlexReads
  <2>2. CASE source = "orcid"
    <3>1. key \in Orcids /\ Read(whole) = FromOrcid(row, OrcidSays[key], whole)
      BY <1>4, <1>5, <2>2
    <3> HIDE DEF key, row, Read
    <3> QED BY <1>3, <2>2, <3>1, OrcidReads DEF Signed
  <2> QED BY <2>1, <2>2 DEF PersonSources
<1>6. Reads(row, row) /\ Signed(a, row, row)
  BY <1>3 DEF Reads, Gathers, Signed
<1> DEFINE Result(found) == Reads(row, found) /\ Signed(a, row, found) /\ (source = "orcid" => found.orcid = row.orcid)
<1>7. \/ rows' = rows /\ row[field].key = key
      \/ \E found, state : state \in SourceStates /\ Result(found) /\ Saved(found, state)
  <2>1. CASE ~NeedsSource(ask.force, row[field], key)
    BY <2>1 DEF AskAbout, NeedsSource
  <2>2. CASE NeedsSource(ask.force, row[field], key) /\ key = Unknown
    <3>1. Saved(row, "not_applicable")
      BY <2>2 DEF AskAbout
    <3> HIDE DEF Saved, row
    <3> QED BY <1>6, <3>1 DEF SourceStates
  <2>3. CASE NeedsSource(ask.force, row[field], key) /\ key # Unknown
    <3>1. \/ Saved(Read(TRUE), "completed")
          \/ \E found \in {row, Read(FALSE)} : Saved(found, "failed")
      BY <2>3 DEF AskAbout
    <3>2. Result(Read(TRUE)) /\ Result(Read(FALSE)) /\ Result(row)
      BY <1>5, <1>6, <2>3
    <3>3. {"completed", "failed"} \subseteq SourceStates
      BY DEF SourceStates
    <3> HIDE DEF Saved, row, Read, Result
    <3> QED BY <3>1, <3>2, <3>3
  <2> QED BY <2>1, <2>2, <2>3
<1>8. \A r : Keeps(r, r, TRUE) /\ \A b : Signed(b, r, r)
  BY DEF Keeps, Signed
<1>9. CASE rows' = rows /\ row[field].key = key
  <2>1. AskedRows
    BY <1>2, <1>8, <1>9 DEF AskedRows, RowsTyped, People, Works, Present
  <2> QED BY <1>9, <2>1 DEF PersonSources
<1>10. CASE \E found, state : state \in SourceStates /\ Result(found) /\ Saved(found, state)
  <2>1. PICK found, state : state \in SourceStates /\ Result(found) /\ Saved(found, state)
    BY <1>10
  <2>2. PICK placed \in Placements(marked(found, state)) : rows' = [rows EXCEPT !.persons[a] = placed]
    BY <2>1
  <2> DEFINE asked == marked(found, state)
  <2>3. /\ found \in PersonRow /\ Gathers(row, found, TRUE) /\ found.merged = row.merged
        /\ found.authored = row.authored /\ found.openalex = row.openalex /\ found.orcids = row.orcids
        /\ source = "orcid" => found.orcid = row.orcid
        /\ Signed(a, row, found)
    BY <2>1 DEF Reads
  <2>4. /\ Signed(a, row, asked)
        /\ asked \in PersonRow /\ Gathers(row, asked, TRUE) /\ asked.merged = row.merged
        /\ asked.authored = row.authored
        /\ source = "openalex" => asked.openalex.key = OpenAlexOf[a] /\ asked.orcids = row.orcids
        /\ source = "orcid" => /\ asked.orcids.key = row.orcid /\ asked.openalex = row.openalex
                               /\ asked.orcid = row.orcid
    <3>1. CASE source = "openalex"
      <4>1. asked = [found EXCEPT !.openalex = [state |-> state, key |-> key]]
        BY <3>1 DEF Source
      <4>2. key \in Persons \cup {Unknown} /\ key = OpenAlexOf[a]
        BY <1>4, <3>1
      <4> HIDE DEF asked, row, key
      <4>3. asked \in PersonRow
        BY <2>1, <2>3, <4>1, <4>2 DEF PersonRow
      <4>4. /\ asked.merged = found.merged /\ asked.authored = found.authored /\ asked.orcids = found.orcids
            /\ asked.openalex.key = key /\ Gathers(row, asked, TRUE) /\ Signed(a, row, asked)
        BY <2>3, <4>1 DEF PersonRow, Gathers, Signed
      <4> QED BY <2>3, <3>1, <4>2, <4>3, <4>4
    <3>2. CASE source = "orcid"
      <4>1. asked = [found EXCEPT !.orcids = [state |-> state, key |-> key]]
        BY <3>2 DEF Source
      <4>2. key \in Orcids \cup {Unknown} /\ key = row.orcid
        BY <1>4, <3>2
      <4> HIDE DEF asked, row, key
      <4>3. asked \in PersonRow
        BY <2>1, <2>3, <4>1, <4>2 DEF PersonRow
      <4>4. /\ asked.merged = found.merged /\ asked.authored = found.authored /\ asked.openalex = found.openalex
            /\ asked.orcids.key = key /\ asked.orcid = found.orcid /\ Gathers(row, asked, TRUE)
            /\ Signed(a, row, asked)
        BY <2>3, <4>1 DEF PersonRow, Gathers, Signed
      <4> QED BY <2>3, <3>2, <4>2, <4>3, <4>4
    <3> QED BY <3>1, <3>2 DEF PersonSources
  <2>14. placed \in Placements(asked)
    BY <2>2
  <2> HIDE DEF asked
  <2>5. /\ placed \in PersonRow /\ Keeps(asked, placed, TRUE) /\ placed.merged = asked.merged
        /\ placed.orcid = asked.orcid /\ placed.openalex = asked.openalex /\ placed.orcids = asked.orcids
        /\ Wrote(placed) = Wrote(asked) /\ placed.raw = asked.raw
    BY <2>4, <2>14, PlacedKeeps
  <2>6. Keeps(row, placed, TRUE) /\ Signed(a, row, placed) /\ Wrote(placed) = Wrote(row) /\ placed.merged = row.merged
    <3> HIDE DEF row
    <3>1. Keeps(row, placed, TRUE)
      BY <2>4, <2>5, KeepsOn
    <3>2. Wrote(asked) = Wrote(row)
      BY <2>4 DEF Wrote
    <3>3. Signed(a, row, placed)
      BY <2>4, <2>5 DEF Signed
    <3> QED BY <2>4, <2>5, <3>1, <3>2, <3>3
  <2> DEFINE table == [rows.persons EXCEPT ![a] = placed]
  <2>7. rows' = [rows EXCEPT !.persons = table]
    BY <1>2, <2>2
  <2>8. table \in PersonRows /\ table[a] = placed /\ \A b \in Persons : b # a => table[b] = rows.persons[b]
    BY <1>2, <1>3, <2>5 DEF PersonRows
  <2> HIDE DEF table
  <2>9. /\ rows'.publications = rows.publications /\ rows'.persons = table
        /\ rows'.profiles = rows.profiles /\ rows'.repositories = rows.repositories /\ RowsTyped'
    BY <1>2, <2>7, <2>8 DEF RowsTyped
  <2>10. People' = People /\ Works' = Works
    <3>1. \A b \in Persons : table[b] = Absent <=> rows.persons[b] = Absent
      BY <1>3, <2>5, <2>8
    <3>2. DOMAIN table = Persons /\ DOMAIN rows.persons = Persons
      BY <1>2, <2>8 DEF PersonRows
    <3> QED BY <2>9, <3>1, <3>2 DEF People, Works, Present
  <2>11. AskedRows
    <3>1. ASSUME NEW b \in People
          PROVE  /\ rows'.persons[b].merged = rows.persons[b].merged
                 /\ Keeps(rows.persons[b], rows'.persons[b], TRUE)
                 /\ Signed(b, rows.persons[b], rows'.persons[b])
                 /\ Wrote(rows'.persons[b]) = Wrote(rows.persons[b])
      <4>1. CASE b = a
        BY <2>6, <2>8, <2>9, <4>1
      <4>2. CASE b # a
        BY <1>3, <1>8, <2>8, <2>9, <4>2
      <4> QED BY <4>1, <4>2
    <3>2. \A p \in Works : rows'.publications[p].doi = rows.publications[p].doi
      BY <2>9
    <3> QED BY <2>9, <2>10, <3>1, <3>2 DEF AskedRows
  <2>12. \A b \in People : b # a => rows'.persons[b] = rows.persons[b]
    BY <1>3, <2>8, <2>9
  <2>13. rows'.persons[a] = placed
    BY <2>8, <2>9
  <2> QED BY <2>4, <2>5, <2>9, <2>11, <2>12, <2>13
<1> QED BY <1>7, <1>9, <1>10

=============================================================================
