----------------------------- MODULE RateLimiter -----------------------------
(***************************************************************************)
(* The guards of the registration endpoint: recaptcha.guard.ts, then       *)
(* rate-limiter.guard.ts with slidingWindowRateLimit of redis.service.ts,  *)
(* for one key: a sorted set of request times in Redis.                    *)
(*                                                                         *)
(* The commands of a pipeline are sent together and are not a transaction: *)
(* those of two requests may interleave.  They take far less time than a   *)
(* window, so the clock stands still meanwhile; it goes on while Google is *)
(* asked.  The expiry of the whole key removes what the next request would *)
(* remove.                                                                 *)
(***************************************************************************)
EXTENDS Naturals, FiniteSets

CONSTANTS Calls,   \* requests that can be in progress at once
          Limit, Window,
          MaxTime, \* bound on the clock
          MaxCalls \* bound on the requests of a behaviour

VARIABLES
    now, started,
    entries,  \* the sorted set: members are numbered, scores are times
    whitelist,\* rate_limit:whitelist names this key's address
    pc, mine, \* the calls; mine[c] is the entry call c adds
    allowed   \* history: the entries of the requests that were let through

vars == <<now, started, entries, whitelist, pc, mine, allowed>>

PC == {"idle", "verify", "limit", "remove", "add", "count"}
Entry == [n : Nat, at : Nat]

TypeOK ==
    /\ now \in 1..MaxTime /\ started \in 0..MaxCalls
    /\ entries \subseteq Entry /\ allowed \subseteq Entry
    /\ whitelist \in BOOLEAN
    /\ pc \in [Calls -> PC]
    /\ \A c \in Calls : mine[c] \in Entry

Init ==
    /\ now = 1 /\ started = 0
    /\ entries = {}
    /\ whitelist \in BOOLEAN
    /\ pc = [c \in Calls |-> "idle"]
    /\ mine = [c \in Calls |-> [n |-> 0, at |-> 0]]
    /\ allowed = {}

Goto(c, l) == pc' = [pc EXCEPT ![c] = l]

\* A request without a token is refused at once; with one, Google is asked.
RecaptchaGuard(c) ==
    /\ pc[c] = "idle" /\ started < MaxCalls
    /\ started' = started + 1
    /\ mine' = [mine EXCEPT ![c].n = started']
    /\ Goto(c, "verify")
    /\ UNCHANGED <<now, entries, whitelist, allowed>>

\* Google's answer, or that of an error, of a missing secret or of 5 seconds
\* without one, which is no success.  The score of v3 is held against a threshold.
GoogleAnswers == [success : BOOLEAN, score : {"none", "low", "enough"}]

\* A request that is refused here is not counted.
Verify(c) ==
    /\ pc[c] = "verify"
    /\ \E answer \in GoogleAnswers :
         Goto(c, IF answer.success /\ answer.score # "low" THEN "limit" ELSE "idle")
    /\ UNCHANGED <<now, started, entries, whitelist, mine, allowed>>

\* canActivate: an address of the whitelist passes without being counted.
Whitelisted(c) ==
    /\ pc[c] = "limit" /\ whitelist
    /\ Goto(c, "idle")
    /\ UNCHANGED <<now, started, entries, whitelist, mine, allowed>>

CanActivate(c) ==
    /\ pc[c] = "limit" /\ ~whitelist
    /\ mine' = [mine EXCEPT ![c].at = now]
    /\ Goto(c, "remove")
    /\ UNCHANGED <<now, started, entries, whitelist, allowed>>

\* ZREMRANGEBYSCORE key -inf windowStart
RemoveOld(c) ==
    /\ pc[c] = "remove"
    /\ entries' = {e \in entries : e.at + Window > mine[c].at}
    /\ Goto(c, "add")
    /\ UNCHANGED <<now, started, whitelist, mine, allowed>>

\* ZADD key now member
Add(c) ==
    /\ pc[c] = "add"
    /\ entries' = entries \cup {mine[c]}
    /\ Goto(c, "count")
    /\ UNCHANGED <<now, started, whitelist, mine, allowed>>

\* The rest of canActivate: the request is let through, or answered 429.
Respond(c, within) ==
    /\ allowed' = IF within THEN allowed \cup {mine[c]} ELSE allowed
    /\ Goto(c, "idle")

\* Fault: a request over the limit by one is let through.
CountOneMore(c) ==
    /\ pc[c] = "count"
    /\ Respond(c, Cardinality(entries) <= Limit + 1)
    /\ UNCHANGED <<now, started, entries, whitelist, mine>>

\* ZCARD key.  Over the limit, ZREM names a member with a new random part: it
\* removes nothing, and the refused request goes on counting.
Count(c) ==
    /\ pc[c] = "count"
    /\ Respond(c, Cardinality(entries) <= Limit)
    /\ UNCHANGED <<now, started, entries, whitelist, mine>>

Tick ==
    /\ now < MaxTime
    /\ \A c \in Calls : pc[c] \in {"idle", "verify"}
    /\ now' = now + 1
    /\ UNCHANGED <<started, entries, whitelist, pc, mine, allowed>>

Next ==
    \/ Tick
    \/ \E c \in Calls :
         \/ RecaptchaGuard(c) \/ Verify(c)
         \/ Whitelisted(c) \/ CanActivate(c) \/ RemoveOld(c) \/ Add(c) \/ Count(c)

Spec == Init /\ [][Next]_vars

-----------------------------------------------------------------------------
\* In every window at most Limit requests are let through, also when their
\* pipelines interleave: each adds itself before it counts.
RateBounded ==
    \A t \in 1..MaxTime :
        Cardinality({e \in allowed : e.at <= t /\ t < e.at + Window}) <= Limit
=============================================================================
