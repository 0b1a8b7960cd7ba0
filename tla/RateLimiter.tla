---------------------------- MODULE RateLimiter ----------------------------
(***************************************************************************)
(* The sliding window in front of POST /auth/login (app/core/rate_limit.py):*)
(* at most max_calls per window for a client address, and the number of    *)
(* seconds after which a refused client may try again.                     *)
(*                                                                         *)
(* The clock (time.monotonic) counts ticks, Second of them in a second, so *)
(* that calls fall between the whole seconds retry_after is told in.  login*)
(* runs on the event loop and check has no await: a call is one step.      *)
(***************************************************************************)
EXTENDS Integers, Sequences

CONSTANTS
    Keys,           \* client addresses
    max_calls,
    window_sec,
    Second,         \* ticks in a second
    MaxTime         \* bound: the last tick

ASSUME LimiterAssumption ==
    /\ max_calls \in Nat \ {0}
    /\ window_sec \in Nat
    /\ Second \in Nat \ {0}
    /\ MaxTime \in Nat

VARIABLES
    now,
    buckets,        \* _buckets: the ticks of the calls kept for a key
    allowed,        \* history: the ticks of every call allowed so far
    retryAt         \* the tick a refused client was sent to, until it gets in

vars == <<now, buckets, allowed, retryAt>>

NotWaiting == -1

Window == window_sec * Second

Init ==
    /\ now = 0
    /\ buckets = [key \in Keys |-> <<>>]
    /\ allowed = [key \in Keys |-> <<>>]
    /\ retryAt = [key \in Keys |-> NotWaiting]

-----------------------------------------------------------------------------

\* Mutated: a call exactly a window old no longer counts.
ExpiresOnTheTick(key, n) ==
    /\ \A i \in 1..n : buckets[key][i] <= now - Window
    /\ n < Len(buckets[key]) => buckets[key][n + 1] > now - Window

\* The loop drops n calls: those it meets first that are before the cutoff.
Drops(key, n) ==
    /\ \A i \in 1..n : buckets[key][i] < now - Window
    /\ n < Len(buckets[key]) => buckets[key][n + 1] >= now - Window

Kept(key, n) == SubSeq(buckets[key], n + 1, Len(buckets[key]))

\* Mutated: the seconds left, rounded down.
RetryRoundedDown(oldest) ==
    LET left == (Window - (now - oldest)) \div Second
    IN (IF left > 1 THEN left ELSE 1) * Second

\* max(1, int(window_sec - (now - bucket[0])) + 1), in ticks.
RetryAfter(oldest) ==
    LET left == (Window - (now - oldest)) \div Second + 1
    IN (IF left > 1 THEN left ELSE 1) * Second

\* Mutated: one call too many.
AllowOneMore(key) ==
    \E n \in 0..Len(buckets[key]) :
        /\ Drops(key, n)
        /\ Len(buckets[key]) - n <= max_calls
        /\ buckets' = [buckets EXCEPT ![key] = Append(Kept(key, n), now)]
        /\ allowed' = [allowed EXCEPT ![key] = Append(@, now)]
        /\ retryAt' = [retryAt EXCEPT ![key] = NotWaiting]
        /\ UNCHANGED now

Allow(key) ==
    \E n \in 0..Len(buckets[key]) :
        /\ Drops(key, n)
        /\ Len(buckets[key]) - n < max_calls
        /\ buckets' = [buckets EXCEPT ![key] = Append(Kept(key, n), now)]
        /\ allowed' = [allowed EXCEPT ![key] = Append(@, now)]
        /\ retryAt' = [retryAt EXCEPT ![key] = NotWaiting]
        /\ UNCHANGED now

\* login answers 429 with Retry-After; the call itself is not recorded.
Refuse(key) ==
    \E n \in 0..Len(buckets[key]) :
        /\ Drops(key, n)
        /\ Len(buckets[key]) - n >= max_calls
        /\ buckets' = [buckets EXCEPT ![key] = Kept(key, n)]
        /\ retryAt' = [retryAt EXCEPT
                         ![key] = now + RetryAfter(buckets[key][n + 1])]
        /\ UNCHANGED <<now, allowed>>

Tick ==
    /\ now < MaxTime
    /\ now' = now + 1
    /\ UNCHANGED <<buckets, allowed, retryAt>>

Next == Tick \/ \E key \in Keys : Allow(key) \/ Refuse(key)

Spec == Init /\ [][Next]_vars

-----------------------------------------------------------------------------
(* Properties *)

\* Calls are kept and recorded at ticks that have been: check never reads a
\* bucket it did not fill, and never lets one grow past max_calls.
TypeOK ==
    /\ now \in 0..MaxTime
    /\ buckets \in [Keys -> Seq(0..MaxTime)]
    /\ allowed \in [Keys -> Seq(0..MaxTime)]
    /\ retryAt \in [Keys -> Nat \cup {NotWaiting}]
    /\ \A key \in Keys : Len(buckets[key]) <= max_calls

\* "не более max_calls за window_sec секунд на key" (rate_limit.py:15): any
\* max_calls + 1 calls allowed in a row take more than a window, whichever
\* moment the window is laid from and whatever was refused in between.
WindowIsRespected ==
    \A key \in Keys : \A i \in 1..(Len(allowed[key]) - max_calls) :
        allowed[key][i + max_calls] - allowed[key][i] > Window

\* A client that comes back when Retry-After told it to is let in, unless
\* somebody behind the same address got in before it.
BackInTimeIsServed ==
    [][\A key \in Keys :
          retryAt[key] # NotWaiting /\ now >= retryAt[key]
          => ~Refuse(key)]_vars
=============================================================================
