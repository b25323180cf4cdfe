---------------------------- MODULE HostLimiter ----------------------------
(***************************************************************************)
(* The threads of a process share what one API host allows                 *)
(* (pauk/sources/rate_limit.py): so many requests at once, so far apart,   *)
(* none while the host has asked for quiet.  A thread that may not start   *)
(* waits on the condition of the host, for a time or until it is notified; *)
(* each step below is one hold of that condition.  Moments are kept as     *)
(* what is left of them, so that time itself has no bound.                 *)
(***************************************************************************)
EXTENDS Naturals, FiniteSets, FiniteSetsExt

CONSTANTS Threads,
          Hosts,
          LimitOf,      \* Hosts -> what clients state for a host: [gap, cap], or NoLimit
          NoLimit,
          Unmet,      \* a host no client has asked yet
          MaxGap,       \* the longest gap between two starts
          MaxQuiet      \* the longest pause

VARIABLES hosts,        \* Hosts -> what the limiter knows of it, or Unmet
          calls,        \* Threads -> the request of a thread
          quiet         \* ghost: Hosts -> what is left of the quiet it asked for

\* no ceiling: one that no number of threads reaches
NoCap == Cardinality(Threads) + 1
Limits == [gap : 0 .. MaxGap, cap : 1 .. NoCap]
HostStates == [gap : 0 .. MaxGap, cap : 1 .. NoCap,
               next : 0 .. MaxGap,      \* until next_at
               paused : 0 .. MaxQuiet,  \* until paused_until
               since : 0 .. MaxGap,     \* from last_started, as far as a gap can reach
               flying : 0 .. Cardinality(Threads)]   \* in_flight

ASSUME LimiterAssumption ==
    /\ MaxGap \in Nat /\ MaxQuiet \in Nat /\ IsFiniteSet(Threads)
    /\ LimitOf \in [Hosts -> Limits \cup {NoLimit}]
    /\ NoLimit \notin Limits /\ Unmet \notin HostStates

LimiterTypeOK ==
    /\ hosts \in [Hosts -> HostStates \cup {Unmet}]
    /\ quiet \in [Hosts -> 0 .. MaxQuiet]

-----------------------------------------------------------------------------
\* RateLimit.stricter
Stricter(a, b) == [gap |-> Max({a.gap, b.gap}), cap |-> Min({a.cap, b.cap})]
Gap(left, passed) == IF left > passed THEN left - passed ELSE 0

\* notify_all of the host's condition: whoever waits looks again
Notified(table, h) ==
    [t \in Threads |-> IF table[t].host = h /\ table[t].pc \in {"waiting", "parked"}
                       THEN [table[t] EXCEPT !.pc = "checking", !.left = 0] ELSE table[t]]

\* _tighten: a longer gap counts from the last start
Tightened(state, limit) ==
    LET both == Stricter(state, limit)
    IN [state EXCEPT !.gap = both.gap, !.cap = both.cap,
                     !.next = IF both.gap = state.gap /\ both.cap = state.cap THEN @
                              ELSE Max({@, Gap(both.gap, state.since)})]
Tighten(h, limit, table) ==
    LET tight == Tightened(hosts[h], limit)
    IN /\ hosts' = [hosts EXCEPT ![h] = tight]
       /\ calls' = IF tight.gap = hosts[h].gap /\ tight.cap = hosts[h].cap THEN table
                   ELSE Notified(table, h)

\* _state: a host met for the first time, or one more client of a known one
Register(t, h) ==
    LET asking == [calls EXCEPT ![t].pc = "checking", ![t].host = h]
    IN IF hosts[h] = Unmet
       THEN /\ hosts' = [hosts EXCEPT ![h] = [gap |-> LimitOf[h].gap, cap |-> LimitOf[h].cap, next |-> 0,
                                              paused |-> 0, since |-> MaxGap, flying |-> 0]]
            /\ calls' = asking
       ELSE Tighten(h, LimitOf[h], asking)

\* slot, one round of its loop
Ready(state) == Max({state.next, state.paused})
Admit(t) ==
    LET h == calls[t].host
        state == hosts[h]
    IN /\ calls[t].pc = "checking"
       /\ IF state.flying < state.cap /\ Ready(state) = 0
          THEN /\ calls' = [calls EXCEPT ![t].pc = "inside"]
               /\ hosts' = [hosts EXCEPT ![h].flying = @ + 1, ![h].since = 0, ![h].next = state.gap]
          ELSE /\ calls' = [calls EXCEPT ![t].pc = IF Ready(state) = 0 THEN "parked" ELSE "waiting",
                                         ![t].left = Ready(state)]
               /\ UNCHANGED hosts
       /\ UNCHANGED quiet
\* the timeout of a wait
WakeUp(t) ==
    /\ calls[t].pc = "waiting" /\ calls[t].left = 0
    /\ calls' = [calls EXCEPT ![t].pc = "checking"]
    /\ UNCHANGED <<hosts, quiet>>

MutReleased(table, h) == table
Released(table, h) == Notified(table, h)
\* slot, on the way out
Release(t, after) ==
    LET h == calls[t].host
    IN /\ hosts' = [hosts EXCEPT ![h].flying = @ - 1]
       /\ calls' = Released([calls EXCEPT ![t] = after], h)
       /\ UNCHANGED quiet

MutPaused(state, seconds) == [state EXCEPT !.paused = seconds]
Paused(state, seconds) == [state EXCEPT !.paused = Max({@, seconds})]
\* pause
Pause(h, seconds, table) ==
    /\ hosts' = [hosts EXCEPT ![h] = Paused(@, seconds)]
    /\ calls' = Notified(table, h)
    /\ quiet' = [quiet EXCEPT ![h] = Max({@, seconds})]

\* restrict, with the ceilings an answer states
RestrictHost(h, limit, table) == Tighten(h, limit, table) /\ UNCHANGED quiet

\* a moment passes
Less(n) == IF n = 0 THEN 0 ELSE n - 1
Elapse ==
    /\ \/ \E t \in Threads : calls[t].left > 0
       \/ \E h \in Hosts : hosts[h] # Unmet /\ (Ready(hosts[h]) > 0 \/ hosts[h].since < MaxGap)
    /\ calls' = [t \in Threads |-> [calls[t] EXCEPT !.left = Less(@)]]
    /\ hosts' = [h \in Hosts |-> IF hosts[h] = Unmet THEN Unmet
                 ELSE [hosts[h] EXCEPT !.next = Less(@), !.paused = Less(@), !.since = Min({@ + 1, MaxGap})]]
    /\ quiet' = [h \in Hosts |-> Less(quiet[h])]
=============================================================================
