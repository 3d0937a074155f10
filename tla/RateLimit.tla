------------------------------- MODULE RateLimit -------------------------------
(***************************************************************************)
(* The throttle of local password sign-in (app/ratelimit.py) as            *)
(* local_login (app/auth/router.py) uses it, for one key: one client       *)
(* address and one account.                                                *)
(*                                                                         *)
(* check, record_failure and reset each hold the lock; the password is     *)
(* verified between them, so attempts overlap.  The list of failures keeps *)
(* ages instead of times, in ticks of which a second has several, because  *)
(* check cuts the remaining time to whole seconds.  An age stops at the    *)
(* window: older failures are all alike to _prune.                         *)
(***************************************************************************)
EXTENDS Naturals, Sequences, FiniteSets

CONSTANTS
    Proc,           \* sign-in attempts under way
    MaxAttempts,    \* MAX_ATTEMPTS
    Seconds,        \* WINDOW_SECONDS, which is also LOCKOUT_SECONDS
    Tick            \* ticks in a second

ASSUME RateLimitAssumption ==
    /\ IsFiniteSet(Proc) /\ Proc # {}
    /\ MaxAttempts \in Nat \ {0}
    /\ Seconds \in Nat \ {0}
    /\ Tick \in Nat \ {0}

Window == Seconds * Tick

VARIABLES
    attempts,   \* _attempts[key]: the ages of the failures, oldest first
    trying,     \* attempts admitted by check, their password being verified
    guesses     \* history: ages of all failures of the last window, since the
                \* last success

vars == <<attempts, trying, guesses>>

Init ==
    /\ attempts = <<>>
    /\ trying = {}
    /\ guesses = <<>>

Aged(ages, ticks) ==
    [i \in DOMAIN ages |-> IF ages[i] + ticks < Window THEN ages[i] + ticks ELSE Window]

\* _prune: the failures of the window, in order.
Recent(ages) ==
    LET kept[n \in 0..Len(ages)] ==
            IF n = 0 THEN <<>>
            ELSE IF ages[n] < Window THEN Append(kept[n - 1], ages[n]) ELSE kept[n - 1]
    IN  kept[Len(ages)]

\* int(LOCKOUT_SECONDS - (now - recent[0])): whole seconds, rounded down.
RetryIn(recent) == (Window - recent[1]) \div Tick

\* As if a lockout with no whole second left were still one.
StillLocked(recent) == Len(recent) >= MaxAttempts /\ RetryIn(recent) >= 0

\* As if one attempt more were allowed.
LockedLate(recent) == Len(recent) > MaxAttempts /\ RetryIn(recent) > 0

Locked(recent) == Len(recent) >= MaxAttempts /\ RetryIn(recent) > 0

-----------------------------------------------------------------------------

\* check: prune; refuse while locked; a lockout that is over empties the list.
Check(p) ==
    LET recent == Recent(attempts)
    IN  /\ p \notin trying
        /\ attempts' = IF Len(recent) >= MaxAttempts /\ ~Locked(recent) THEN <<>> ELSE recent
        /\ trying' = IF Locked(recent) THEN trying ELSE trying \cup {p}
        /\ UNCHANGED guesses

\* record_failure.
Fail(p) ==
    /\ p \in trying
    /\ trying' = trying \ {p}
    /\ attempts' = Append(attempts, 0)
    /\ guesses' = Append(guesses, 0)

\* reset.
Succeed(p) ==
    /\ p \in trying
    /\ trying' = trying \ {p}
    /\ attempts' = <<>>
    /\ guesses' = <<>>

Pass ==
    /\ attempts' = Aged(attempts, 1)
    /\ guesses' = Recent(Aged(guesses, 1))
    /\ UNCHANGED trying

Next == Pass \/ \E p \in Proc : Check(p) \/ Fail(p) \/ Succeed(p)

Spec == Init /\ [][Next]_vars

-----------------------------------------------------------------------------
(* Properties.                                                             *)

\* Who is told to try again in so many seconds finds the lockout over after
\* them, or one failure less to wait for: overlapping attempts may record more
\* than MaxAttempts failures, and each of these can prolong the lockout once
\* beyond the time announced.  With MaxAttempts of them, one less is none.
RetryTimeKept ==
    LET recent == Recent(attempts)
        later == Recent(Aged(attempts, RetryIn(recent) * Tick))
    IN  Locked(recent) => ~Locked(later) \/ Len(later) < Len(recent)

\* However attempts overlap and lockouts end, one window never sees more
\* failures than these: a lockout admits MaxAttempts and the attempts that
\* were already past the check; cutting the remaining time to whole seconds
\* ends it up to a second early, so that a window can see the failures of
\* three lockouts, all but the one that started the first.
GuessesBounded ==
    Len(guesses) <= 3 * (MaxAttempts + Cardinality(Proc) - 1) - 1
=============================================================================
