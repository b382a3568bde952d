------------------------- MODULE WithdrawalTwoFactor -------------------------
(***************************************************************************)
(* two-factor-verification.service.ts of the wallet service for one user:  *)
(* a count of wrong codes in the memory of the process, looked at before   *)
(* the auth service is asked and increased after it has answered.          *)
(*                                                                         *)
(* What the auth service answers is external: yes, no, or an error.        *)
(***************************************************************************)
EXTENDS Naturals, FiniteSets

CONSTANTS Calls,       \* withdrawals that verify a code at the same time
          MaxAttempts, \* TWO_FA_MAX_ATTEMPTS
          Window,      \* TWO_FA_ATTEMPT_WINDOW_MINUTES, in ticks
          MaxTime      \* bound on the clock

VARIABLES
    now,
    tracker, \* the user's entry of attemptTracker; count 0: none
    asking   \* the calls that wait for the auth service

vars == <<now, tracker, asking>>

NoTracker == [count |-> 0, resetAt |-> 0]

TypeOK ==
    /\ now \in 1..MaxTime
    /\ tracker \in [count : Nat, resetAt : 0..(MaxTime + Window)]
    /\ asking \subseteq Calls

Init == now = 1 /\ tracker = NoTracker /\ asking = {}

\* An entry whose window is over is deleted when it is looked at.
Current == IF tracker.count > 0 /\ now > tracker.resetAt THEN NoTracker ELSE tracker

\* trackAttempt
Tracked == IF Current = NoTracker
           THEN [count |-> 1, resetAt |-> now + Window]
           ELSE [Current EXCEPT !.count = @ + 1]

IsRateLimited == Current.count >= MaxAttempts

Refuse(c) ==
    /\ c \notin asking /\ IsRateLimited
    /\ tracker' = Current
    /\ UNCHANGED <<now, asking>>

\* A code that is not six digits counts without being asked about.
BadFormat(c) ==
    /\ c \notin asking /\ ~IsRateLimited
    /\ tracker' = Tracked
    /\ UNCHANGED <<now, asking>>

Ask(c) ==
    /\ c \notin asking /\ ~IsRateLimited
    /\ tracker' = Current
    /\ asking' = asking \cup {c}
    /\ UNCHANGED now

Valid(c) ==
    /\ c \in asking
    /\ asking' = asking \ {c}
    /\ tracker' = NoTracker
    /\ UNCHANGED now

Invalid(c) ==
    /\ c \in asking
    /\ asking' = asking \ {c}
    /\ tracker' = Tracked
    /\ UNCHANGED now

\* 503, or no answer in 5 seconds.
Unavailable(c) ==
    /\ c \in asking
    /\ asking' = asking \ {c}
    /\ UNCHANGED <<now, tracker>>

\* The process restarts, or clearRateLimit is called: the count is gone.
Restart == tracker' = NoTracker /\ asking' = {} /\ UNCHANGED now
ClearRateLimit == tracker' = NoTracker /\ UNCHANGED <<now, asking>>

Tick == now < MaxTime /\ now' = now + 1 /\ UNCHANGED <<tracker, asking>>

Next ==
    \/ Tick \/ Restart \/ ClearRateLimit
    \/ \E c \in Calls : Refuse(c) \/ BadFormat(c) \/ Ask(c) \/ Valid(c) \/ Invalid(c)
                          \/ Unavailable(c)

Spec == Init /\ [][Next]_vars

-----------------------------------------------------------------------------
\* In one window of one process at most MaxAttempts wrong codes are counted,
\* and one more for each other call that was already asking.
CodesBounded == tracker.count <= MaxAttempts + Cardinality(Calls) - 1
=============================================================================
