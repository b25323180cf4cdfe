----------------------------- MODULE HttpCalls -----------------------------
(***************************************************************************)
(* Requests of several threads to hosts that limit them                    *)
(* (pauk/sources/base.py): attempts, redirects that are admitted one by    *)
(* one, and what an answer says of the host's limits, taken while the slot *)
(* is still held; and to GitHub, which has limits of its own that no slot  *)
(* guards (pauk/sources/github.py).  Each thread makes one request.        *)
(***************************************************************************)
EXTENDS HostLimiter

CONSTANTS Starts,       \* the hosts a request may begin at
          GithubHosts,  \* those GitHubClient asks
          Minute,       \* what GitHub is left alone for when it only says "rate limit"
          Retries,
          MaxRedirects,
          MaxBackoff,   \* the longest wait without a Retry-After
          HttpReplies   \* what a host may answer: records of HttpReplySet

\* "denied": 403; "busy": 429; "down": 503; "broken": 500, 502, 504; "lost": an
\* exception.  after, reset, limit: Retry-After, until X-RateLimit-Reset, the
\* ceilings, as sets; quota: none of X-RateLimit-Remaining, or a message about it
Statuses == {"ok", "refused", "denied", "busy", "down", "broken", "moved", "lost"}
Waits == {{}} \cup {{s} : s \in 0 .. MaxQuiet}
HttpReplySet == [status : Statuses, after : Waits, limit : {{}} \cup {{l} : l \in Limits}, to : Hosts,
                 quota : {"unsaid", "spent", "worded"}, reset : Waits]
NoReply == [status |-> "ok", after |-> {}, limit |-> {}, to |-> CHOOSE h \in Hosts : TRUE,
            quota |-> "unsaid", reset |-> {}]

ASSUME HttpAssumption ==
    /\ Retries \in Nat /\ MaxRedirects \in Nat /\ MaxBackoff \in 0 .. MaxQuiet
    /\ Hosts # {} /\ HttpReplies \subseteq HttpReplySet /\ Minute \in 0 .. MaxQuiet
    /\ Starts \subseteq Hosts /\ GithubHosts \subseteq Hosts

Pcs == {"idle", "resolving", "checking", "waiting", "parked", "inside", "outside",
        "restricting", "pausing", "leaving", "sleeping", "done"}
NoCall == [pc |-> "idle", host |-> CHOOSE h \in Hosts : TRUE, first |-> CHOOSE h \in Hosts : TRUE,
           attempt |-> 0, hops |-> 0, reply |-> NoReply, left |-> 0]
HttpTypeOK ==
    /\ LimiterTypeOK
    /\ calls \in [Threads -> [pc : Pcs, host : Hosts, first : Hosts, attempt : 0 .. Retries,
                              hops : 0 .. MaxRedirects, reply : HttpReplies \cup {NoReply},
                              left : 0 .. Max({MaxQuiet, MaxGap})]]
HttpInit ==
    /\ hosts = [h \in Hosts |-> Unmet] /\ quiet = [h \in Hosts |-> 0]
    /\ calls = [t \in Threads |-> NoCall]

-----------------------------------------------------------------------------
\* _backoff_delay
Backoff(attempt) == Min({MaxBackoff, 2 ^ attempt})
\* GitHubClient._retry_delay for 403 and 429: an exhausted quota, or a secondary one
GithubDelay(reply, back) ==
    IF reply.after # {} THEN reply.after
    ELSE IF reply.quota = "spent" THEN {Max({back} \cup reply.reset)}
    ELSE IF reply.quota = "worded" THEN {Max({back, Minute})}
    ELSE IF reply.status = "busy" THEN {back} ELSE {}
\* _retry_delay: how long to wait, as a set; none: the answer is not retried
RetryDelay(call) ==
    LET reply == call.reply
        back == Backoff(call.attempt)
    IN IF call.first \in GithubHosts /\ reply.status \in {"denied", "busy"} THEN GithubDelay(reply, back)
       ELSE IF reply.status \notin {"busy", "down", "broken"} THEN {}
       ELSE IF reply.after # {} THEN reply.after ELSE {back}
\* when _observe_limit asks for a pause; 403 is not among them
AsksForQuiet(call) ==
    /\ RetryDelay(call) # {}
    /\ call.reply.status \in {"busy", "down"} \/ (call.reply.status = "broken" /\ call.reply.after # {})
MutMayRetry(call) == call.attempt <= Retries
\* one attempt more than there are retries
MayRetry(call) == call.attempt < Retries

\* _request, _send: a request begins, or goes on at the host of a redirect
Begin(t, h) ==
    /\ calls[t].pc = "idle"
    /\ calls' = [calls EXCEPT ![t] = [NoCall EXCEPT !.pc = "resolving", !.host = h, !.first = h]]
    /\ UNCHANGED <<hosts, quiet>>
Resolve(t) ==
    /\ calls[t].pc = "resolving"
    /\ IF LimitOf[calls[t].host] = NoLimit
       THEN calls' = [calls EXCEPT ![t].pc = "outside"] /\ UNCHANGED hosts
       ELSE Register(t, calls[t].host)
    /\ UNCHANGED quiet

\* what _request does with the answer of an attempt
AfterAnswer(call) ==
    LET gone == call.reply.status = "lost"
                \/ (call.reply.status = "moved" /\ call.hops = MaxRedirects)
        delays == IF gone THEN {Backoff(call.attempt)} ELSE RetryDelay(call)
        clear == [call EXCEPT !.reply = NoReply, !.left = 0]
    IN IF call.reply.status = "moved" /\ ~gone
       THEN [clear EXCEPT !.pc = "resolving", !.host = call.reply.to, !.hops = @ + 1]
       ELSE IF MayRetry(call) /\ delays # {}
            THEN [clear EXCEPT !.pc = "sleeping", !.left = CHOOSE s \in delays : TRUE]
       ELSE [clear EXCEPT !.pc = "done"]

\* the answer arrives; outside a slot nothing is observed, and a request that
\* began there follows redirects by itself
AnswerArrives(t, reply) ==
    /\ calls[t].pc \in {"inside", "outside"}
    /\ reply.status = "moved" => calls[t].pc = "inside" \/ calls[t].hops > 0
    /\ LET answered == [calls[t] EXCEPT !.reply = reply]
       IN calls' = [calls EXCEPT ![t] =
              IF answered.pc = "outside" THEN AfterAnswer(answered)
              ELSE [answered EXCEPT !.pc = IF reply.status = "lost" THEN "leaving" ELSE "restricting"]]
    /\ UNCHANGED <<hosts, quiet>>
\* _observe_limit: the ceilings, then the pause
ObserveLimits(t) ==
    /\ calls[t].pc = "restricting"
    /\ LET reply == calls[t].reply
           onward == [calls EXCEPT ![t].pc = IF AsksForQuiet(calls[t]) THEN "pausing" ELSE "leaving"]
       IN IF reply.limit = {} THEN calls' = onward /\ UNCHANGED <<hosts, quiet>>
          ELSE RestrictHost(calls[t].host, CHOOSE l \in reply.limit : TRUE, onward)
ObservePause(t) ==
    /\ calls[t].pc = "pausing"
    /\ Pause(calls[t].host, CHOOSE s \in RetryDelay(calls[t]) : TRUE,
             [calls EXCEPT ![t].pc = "leaving"])
Leave(t) == calls[t].pc = "leaving" /\ Release(t, AfterAnswer(calls[t]))
\* _wait is over
Retry(t) ==
    /\ calls[t].pc = "sleeping" /\ calls[t].left = 0
    /\ calls' = [calls EXCEPT ![t].pc = "resolving", ![t].host = calls[t].first,
                              ![t].hops = 0, ![t].attempt = @ + 1]
    /\ UNCHANGED <<hosts, quiet>>

ThreadNext(t) ==
    \/ Resolve(t) \/ Admit(t) \/ WakeUp(t) \/ ObserveLimits(t) \/ ObservePause(t) \/ Leave(t)
    \/ Retry(t)
    \/ \E reply \in HttpReplies : AnswerArrives(t, reply)
HttpNext ==
    \/ Elapse
    \/ \E t \in Threads : ThreadNext(t) \/ \E h \in Starts : Begin(t, h)
=============================================================================
