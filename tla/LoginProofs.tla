----------------------------- MODULE LoginProofs -----------------------------
(***************************************************************************)
(* The window of RateLimiter is respected for every limit, every length of *)
(* the window, every set of addresses and every fineness of the clock.     *)
(*                                                                         *)
(* Login in front of it, for every number of addresses, users and          *)
(* concurrent requests: the logins use the limiter as RateLimiter says, so *)
(* its theorems hold of them; every attempt is audited; and a user who has *)
(* been deactivated gets nothing new.                                      *)
(***************************************************************************)
EXTENDS Login, SequenceTheorems, FiniteSetTheorems, TLAPS

-----------------------------------------------------------------------------
(* The limiter *)

\* The calls of the log that have left the bucket.
Left(key) == Len(allowed[key]) - Len(buckets[key])

\* Nothing was allowed in the future.
LogIsPast(key) ==
    \A i \in 1..Len(allowed[key]) : allowed[key][i] <= now

\* The bucket is the tail of the log, and what is not in it is too old to
\* count, now and from now on.
BucketIsRecentLog(key) ==
    /\ Left(key) >= 0
    /\ \A i \in 1..Len(buckets[key]) :
          buckets[key][i] = allowed[key][Left(key) + i]
    /\ \A i \in 1..Left(key) : allowed[key][i] < now - Window

\* A client is told to wait only while the bucket is full, and past the
\* moment the oldest call in it expires.
WaitIsLongEnough(key) ==
    retryAt[key] # NotWaiting =>
        /\ Len(buckets[key]) = max_calls
        /\ retryAt[key] > buckets[key][1] + Window

IInv ==
    /\ TypeOK
    /\ WindowIsRespected
    /\ \A key \in Keys : /\ LogIsPast(key)
                         /\ BucketIsRecentLog(key)
                         /\ WaitIsLongEnough(key)

-----------------------------------------------------------------------------

\* Whole seconds rounded up past the next one: more than was left.
LEMMA RoundedUp ==
    ASSUME NEW x \in Nat, NEW s \in Nat \ {0}
    PROVE  (x \div s + 1) * s > x /\ x \div s \in Nat
BY Z3

\* A window is a number of ticks.
LEMMA WindowType == Window \in Nat
BY LimiterAssumption, Z3 DEF Window

\* The seconds a client is sent away for end after the oldest call does.
LEMMA RetryIsLongEnough ==
    ASSUME NEW oldest \in Nat, now \in Nat,
           oldest <= now, oldest >= now - Window
    PROVE  /\ RetryAfter(oldest) \in Nat
           /\ now + RetryAfter(oldest) > oldest + Window
<1> DEFINE x == Window - (now - oldest)
<1>1. x \in Nat
    BY WindowType
<1>2. (x \div Second + 1) * Second > x /\ x \div Second \in Nat
    BY <1>1, RoundedUp, LimiterAssumption
<1>3. RetryAfter(oldest) = (x \div Second + 1) * Second
    BY <1>2, LimiterAssumption DEF RetryAfter
<1>4. (x \div Second + 1) * Second \in Nat
    BY <1>2, LimiterAssumption, Z3
<1> HIDE DEF x
<1>5. now + RetryAfter(oldest) > now + x
    BY <1>1, <1>2, <1>3, <1>4
<1> QED
    BY <1>3, <1>4, <1>5, WindowType DEF x

\* The sequences of a key and what they hold.
LEMMA KeyTypes ==
    ASSUME TypeOK, NEW key \in Keys
    PROVE  /\ buckets[key] \in Seq(0..MaxTime)
           /\ allowed[key] \in Seq(0..MaxTime)
           /\ Len(buckets[key]) \in Nat /\ Len(allowed[key]) \in Nat
           /\ \A i \in 1..Len(buckets[key]) : buckets[key][i] \in Nat
           /\ \A i \in 1..Len(allowed[key]) : allowed[key][i] \in 0..MaxTime
           /\ Len(buckets[key]) <= max_calls
           /\ Left(key) \in Int
           /\ now \in Nat /\ Window \in Nat
           /\ retryAt[key] \in Nat \cup {NotWaiting}
<1>1. buckets[key] \in Seq(0..MaxTime) /\ allowed[key] \in Seq(0..MaxTime)
    BY DEF TypeOK
<1>2. Len(buckets[key]) \in Nat /\ Len(allowed[key]) \in Nat
    BY <1>1
<1>3. \A i \in 1..Len(buckets[key]) : buckets[key][i] \in 0..MaxTime
    BY <1>1, ElementOfSeq
<1>4. \A i \in 1..Len(allowed[key]) : allowed[key][i] \in 0..MaxTime
    BY <1>1, ElementOfSeq
<1>5. Len(buckets[key]) <= max_calls /\ now \in Nat
    BY LimiterAssumption DEF TypeOK
<1>6. retryAt[key] \in Nat \cup {NotWaiting}
    BY DEF TypeOK
<1> QED
    BY <1>1, <1>2, <1>3, <1>4, <1>5, <1>6, WindowType DEF Left

\* What the loop leaves of a bucket.
LEMMA KeptIsATail ==
    ASSUME NEW key \in Keys, buckets[key] \in Seq(0..MaxTime),
           NEW n \in 0..Len(buckets[key])
    PROVE  /\ Kept(key, n) \in Seq(0..MaxTime)
           /\ Len(Kept(key, n)) = Len(buckets[key]) - n
           /\ \A i \in 1..(Len(buckets[key]) - n) :
                 Kept(key, n)[i] = buckets[key][n + i]
<1> DEFINE b == buckets[key]
           t == SubSeq(b, n + 1, Len(b))
<1>1. Len(b) \in Nat /\ n \in Int /\ n + 1 \in Int /\ Len(b) \in Int
    OBVIOUS
<1>2. \A i \in (n + 1)..Len(b) : b[i] \in 0..MaxTime
    <2>1. \A i \in 1..Len(b) : b[i] \in 0..MaxTime
        BY ElementOfSeq
    <2> QED
        BY <2>1
<1> HIDE DEF b
<1>3. /\ t \in Seq(0..MaxTime)
      /\ Len(t) = IF n + 1 <= Len(b) THEN Len(b) - (n + 1) + 1 ELSE 0
      /\ \A i \in 1..(Len(b) - (n + 1) + 1) : t[i] = b[(n + 1) + i - 1]
    BY <1>1, <1>2, SubSeqProperties
<1>4. n \in 0..Len(b)
    BY DEF b
<1>5. Len(t) = Len(b) - n
    BY <1>1, <1>3, <1>4
<1>6. \A i \in 1..(Len(b) - n) : t[i] = b[n + i]
    <2> SUFFICES ASSUME NEW i \in 1..(Len(b) - n) PROVE t[i] = b[n + i]
        OBVIOUS
    <2>1. i \in 1..(Len(b) - (n + 1) + 1) /\ (n + 1) + i - 1 = n + i
        BY <1>1, <1>4
    <2> QED
        BY <1>3, <2>1
<1> QED
    BY <1>3, <1>5, <1>6 DEF b, Kept

-----------------------------------------------------------------------------

\* Nothing has been called yet.
LEMMA InitHolds == Init => IInv
BY LimiterAssumption DEF Init, IInv, TypeOK, WindowIsRespected, LogIsPast,
   BucketIsRecentLog, WaitIsLongEnough, Left, NotWaiting

\* Time only takes calls further out of the window.
LEMMA TickHolds == IInv /\ Tick => IInv'
<1> SUFFICES ASSUME IInv, Tick PROVE IInv'
    OBVIOUS
<1> USE DEF IInv, Tick
<1>1. TypeOK'
    BY LimiterAssumption DEF TypeOK
<1>2. WindowIsRespected'
    BY DEF WindowIsRespected, Window
<1>3. ASSUME NEW key \in Keys
      PROVE  (LogIsPast(key) /\ BucketIsRecentLog(key)
                             /\ WaitIsLongEnough(key))'
    <2>1. LogIsPast(key)'
        <3> SUFFICES ASSUME NEW i \in 1..Len(allowed[key])
                     PROVE  allowed[key][i] <= now + 1
            BY DEF LogIsPast
        <3>1. allowed[key][i] <= now
            BY DEF LogIsPast
        <3> QED
            BY <3>1, KeyTypes
    <2>6. WaitIsLongEnough(key)'
        BY DEF WaitIsLongEnough, Window
    <2>2. BucketIsRecentLog(key)
        OBVIOUS
    <2>3. ASSUME NEW i \in 1..Left(key)
          PROVE  allowed[key][i] < now + 1 - Window
        <3>1. allowed[key][i] < now - Window
            BY <2>2 DEF BucketIsRecentLog
        <3>2. i \in 1..Len(allowed[key])
            BY KeyTypes DEF Left
        <3>3. allowed[key][i] \in Nat
            BY <3>2, KeyTypes
        <3> QED
            BY <3>1, <3>3, KeyTypes
    <2>4. \A i \in 1..Left(key) : allowed[key][i] < (now - Window)'
        BY <2>3, KeyTypes DEF Window
    <2>5. BucketIsRecentLog(key)'
        BY <2>2, <2>4 DEF BucketIsRecentLog, Left
    <2> QED
        BY <2>1, <2>5, <2>6
<1> QED
    BY <1>1, <1>2, <1>3

\* A call allowed after n calls of the bucket expired: those in the log before
\* the tail that is kept are all too old to count.
LEMMA DroppedAreOld ==
    ASSUME TypeOK, NEW key \in Keys, BucketIsRecentLog(key),
           NEW n \in 0..Len(buckets[key]), Drops(key, n),
           NEW i \in 1..(Left(key) + n)
    PROVE  allowed[key][i] < now - Window
<1>1. CASE i \in 1..Left(key)
    BY <1>1 DEF BucketIsRecentLog
<1>2. CASE i \notin 1..Left(key)
    <2>1. i - Left(key) \in 1..n /\ i = Left(key) + (i - Left(key))
        BY <1>2, KeyTypes
    <2>2. i - Left(key) \in 1..Len(buckets[key])
        BY <2>1, KeyTypes
    <2>3. buckets[key][i - Left(key)] < now - Window
        BY <2>1 DEF Drops
    <2>4. buckets[key][i - Left(key)] = allowed[key][i]
        BY <2>1, <2>2 DEF BucketIsRecentLog
    <2> QED
        BY <2>3, <2>4
<1> QED
    BY <1>1, <1>2

-----------------------------------------------------------------------------

\* A call that is let in: the bucket had room, so the call max_calls before it
\* in the log is one of those dropped.
LEMMA AllowHolds ==
    ASSUME IInv, NEW key \in Keys, Allow(key)
    PROVE  IInv'
<1> DEFINE b == buckets[key]
           log == allowed[key]
<1>1. PICK n \in 0..Len(b) :
          /\ Drops(key, n)
          /\ Len(b) - n < max_calls
          /\ buckets' = [buckets EXCEPT ![key] = Append(Kept(key, n), now)]
          /\ allowed' = [allowed EXCEPT ![key] = Append(log, now)]
          /\ retryAt' = [retryAt EXCEPT ![key] = NotWaiting]
          /\ now' = now
    BY DEF Allow
<1>2. TypeOK /\ WindowIsRespected /\ LogIsPast(key)
             /\ BucketIsRecentLog(key) /\ Window \in Nat /\ now \in 0..MaxTime
             /\ max_calls \in Nat /\ now \in Nat
    BY WindowType, LimiterAssumption DEF IInv, TypeOK
<1>3. /\ b \in Seq(0..MaxTime) /\ log \in Seq(0..MaxTime)
      /\ Len(b) \in Nat /\ Len(log) \in Nat
      /\ \A i \in 1..Len(log) : log[i] \in 0..MaxTime
    BY <1>2, KeyTypes
<1>4. /\ Kept(key, n) \in Seq(0..MaxTime)
      /\ Len(Kept(key, n)) = Len(b) - n
      /\ \A i \in 1..(Len(b) - n) : Kept(key, n)[i] = b[n + i]
    BY <1>3, KeptIsATail
<1>5. /\ buckets'[key] \in Seq(0..MaxTime)
      /\ Len(buckets'[key]) = Len(b) - n + 1
      /\ \A i \in 1..(Len(b) - n) : buckets'[key][i] = b[n + i]
      /\ buckets'[key][Len(b) - n + 1] = now
    <2> DEFINE kept == Kept(key, n)
    <2>1. buckets'[key] = Append(kept, now)
        BY <1>1, <1>2 DEF TypeOK
    <2>2. /\ kept \in Seq(0..MaxTime)
          /\ Len(kept) = Len(b) - n /\ Len(b) - n \in Nat
          /\ \A i \in 1..Len(kept) : kept[i] = b[n + i]
        BY <1>3, <1>4
    <2> HIDE DEF b, kept
    <2>3. /\ Append(kept, now) \in Seq(0..MaxTime)
          /\ Len(Append(kept, now)) = Len(kept) + 1
          /\ \A i \in 1..Len(kept) : Append(kept, now)[i] = kept[i]
          /\ Append(kept, now)[Len(kept) + 1] = now
        BY <1>2, <2>2
    <2> QED
        BY <2>1, <2>2, <2>3
<1>6. /\ allowed'[key] \in Seq(0..MaxTime)
      /\ Len(allowed'[key]) = Len(log) + 1
      /\ \A i \in 1..Len(log) : allowed'[key][i] = log[i]
      /\ allowed'[key][Len(log) + 1] = now
    <2>1. allowed'[key] = Append(log, now)
        BY <1>1, <1>2 DEF TypeOK
    <2> QED
        BY <2>1, <1>2, <1>3
<1>7. \A other \in Keys \ {key} : /\ buckets'[other] = buckets[other]
                                  /\ allowed'[other] = allowed[other]
                                  /\ retryAt'[other] = retryAt[other]
    BY <1>1, <1>2 DEF TypeOK
<1>8. TypeOK'
    <2>1. Len(buckets'[key]) <= max_calls
        BY <1>1, <1>2, <1>3, <1>5
    <2>2. buckets' \in [Keys -> Seq(0..MaxTime)]
        BY <1>1, <1>2, <1>4, <1>5 DEF TypeOK
    <2>3. allowed' \in [Keys -> Seq(0..MaxTime)]
        BY <1>1, <1>2, <1>3 DEF TypeOK
    <2> QED
        BY <1>1, <1>2, <1>7, <2>1, <2>2, <2>3 DEF TypeOK
<1>9. \A i \in 1..(Left(key) + n) : log[i] < now - Window
    BY <1>1, <1>2, DroppedAreOld
<1>10. ASSUME NEW i \in 1..(Len(log) + 1 - max_calls)
       PROVE  allowed'[key][i + max_calls] - allowed'[key][i] > Window
    <2>1. CASE i + max_calls = Len(log) + 1
        <3>1. i \in 1..(Left(key) + n) /\ i \in 1..Len(log)
            <4>1. Left(key) = Len(log) - Len(b)
                BY DEF Left
            <4>2. Len(b) - n < max_calls /\ max_calls \in Nat \ {0}
                BY <1>1, LimiterAssumption
            <4> HIDE DEF b, log
            <4> QED
                BY <2>1, <4>1, <4>2, <1>3
        <3>2. log[i] < now - Window /\ log[i] \in Nat
            BY <3>1, <1>3, <1>9
        <3> HIDE DEF b, log
        <3> QED
            BY <2>1, <3>1, <3>2, <1>2, <1>6
    <2>2. CASE i + max_calls # Len(log) + 1
        <3>1. i \in 1..(Len(log) - max_calls)
            <4> HIDE DEF b, log
            <4> QED
                BY <2>2, <1>2, <1>3
        <3>2. i \in 1..Len(log) /\ i + max_calls \in 1..Len(log)
            BY <3>1, <1>2, <1>3, LimiterAssumption
        <3>3. log[i + max_calls] - log[i] > Window
            BY <3>1, <1>2 DEF WindowIsRespected
        <3> QED
            BY <3>2, <3>3, <1>6
    <2> QED
        BY <2>1, <2>2
<1>11. WindowIsRespected'
    BY <1>2, <1>6, <1>7, <1>10 DEF WindowIsRespected, Window
<1>12. LogIsPast(key)'
    BY <1>1, <1>2, <1>3, <1>6 DEF LogIsPast
<1>13. /\ Left(key) \in Nat /\ Left(key) + Len(b) = Len(log)
       /\ Left(key)' = Left(key) + n
       /\ \A i \in 1..Len(b) : b[i] = log[Left(key) + i]
    <2>1. Left(key) >= 0 /\ \A i \in 1..Len(b) : b[i] = log[Left(key) + i]
        BY <1>2 DEF BucketIsRecentLog
    <2>2. Left(key) = Len(log) - Len(b)
        BY DEF Left
    <2>3. Left(key)' = (Len(log) + 1) - (Len(b) - n + 1)
        BY <1>5, <1>6 DEF Left
    <2> HIDE DEF b, log
    <2> QED
        BY <1>3, <2>1, <2>2, <2>3
<1>14. BucketIsRecentLog(key)'
    <2> HIDE DEF b, log
    <2>1. ASSUME NEW i \in 1..(Left(key) + n)
          PROVE  allowed'[key][i] < now' - Window
        <3>1. i \in 1..Len(log)
            BY <1>3, <1>13
        <3> QED
            BY <3>1, <1>1, <1>6, <1>9
    <2>2. ASSUME NEW i \in 1..(Len(b) - n + 1)
          PROVE  buckets'[key][i] = allowed'[key][Left(key) + n + i]
        <3>1. CASE i = Len(b) - n + 1
            <4>1. Left(key) + n + i = Len(log) + 1
                BY <3>1, <1>3, <1>13
            <4> QED
                BY <3>1, <4>1, <1>5, <1>6
        <3>2. CASE i \in 1..(Len(b) - n)
            <4>1. n + i \in 1..Len(b) /\ Left(key) + n + i = Left(key) + (n + i)
                BY <3>2, <1>3, <1>13
            <4>2. Left(key) + (n + i) \in 1..Len(log)
                BY <4>1, <1>3, <1>13
            <4>3. b[n + i] = log[Left(key) + (n + i)]
                BY <4>1, <1>13
            <4> QED
                BY <3>2, <4>1, <4>2, <4>3, <1>5, <1>6
        <3> QED
            BY <3>1, <3>2, <1>3
    <2>3. Left(key)' = Left(key) + n /\ Left(key)' >= 0
        BY <1>3, <1>13
    <2>4. \A i \in 1..Left(key)' : allowed'[key][i] < now' - Window
        BY <2>1, <2>3
    <2>5. \A i \in 1..Len(buckets'[key]) :
              buckets'[key][i] = allowed'[key][Left(key)' + i]
        BY <2>2, <2>3, <1>5
    <2> QED
        BY <2>3, <2>4, <2>5 DEF BucketIsRecentLog, Window
<1>15. WaitIsLongEnough(key)'
    BY <1>1, <1>2 DEF WaitIsLongEnough, TypeOK, NotWaiting
<1>16. ASSUME NEW other \in Keys, other # key
       PROVE  (LogIsPast(other) /\ BucketIsRecentLog(other)
                                /\ WaitIsLongEnough(other))'
    <2>1. LogIsPast(other) /\ BucketIsRecentLog(other)
                           /\ WaitIsLongEnough(other)
        BY DEF IInv
    <2>2. /\ buckets'[other] = buckets[other]
          /\ allowed'[other] = allowed[other]
          /\ retryAt'[other] = retryAt[other]
        BY <1>7, <1>16
    <2> QED
        BY <1>1, <2>1, <2>2 DEF LogIsPast, BucketIsRecentLog, WaitIsLongEnough,
           Left, Window
<1> QED
    BY <1>8, <1>11, <1>12, <1>14, <1>15, <1>16 DEF IInv

\* A call is refused only on a full bucket, nothing of which has expired.
LEMMA RefusedWhenFull ==
    ASSUME TypeOK, NEW key \in Keys, NEW n \in 0..Len(buckets[key]),
           Drops(key, n), Len(buckets[key]) - n >= max_calls
    PROVE  /\ n = 0
           /\ Len(buckets[key]) = max_calls
           /\ buckets[key][1] >= now - Window
           /\ Kept(key, n) = buckets[key]
<1>1. n = 0 /\ Len(buckets[key]) = max_calls
    BY KeyTypes, LimiterAssumption
<1>2. buckets[key][1] >= now - Window
    BY <1>1, LimiterAssumption DEF Drops
<1>3. Kept(key, n) = buckets[key]
    BY <1>1, KeyTypes, SubSeqFull DEF Kept
<1> QED
    BY <1>1, <1>2, <1>3

\* A call that is refused changes nothing but the moment to come back.
LEMMA RefuseHolds ==
    ASSUME IInv, NEW key \in Keys, Refuse(key)
    PROVE  IInv'
<1>1. PICK n \in 0..Len(buckets[key]) :
          /\ Drops(key, n)
          /\ Len(buckets[key]) - n >= max_calls
          /\ buckets' = [buckets EXCEPT ![key] = Kept(key, n)]
          /\ retryAt' = [retryAt EXCEPT
                           ![key] = now + RetryAfter(buckets[key][n + 1])]
          /\ now' = now /\ allowed' = allowed
    BY DEF Refuse
<1>2. TypeOK /\ LogIsPast(key) /\ BucketIsRecentLog(key)
    BY DEF IInv
<1>3. /\ n = 0
      /\ Len(buckets[key]) = max_calls
      /\ buckets[key][1] >= now - Window
      /\ buckets' = buckets
    BY <1>1, <1>2, RefusedWhenFull DEF TypeOK
<1>4. buckets[key][1] \in Nat /\ buckets[key][1] <= now
    <2>1. 1 \in 1..Len(buckets[key])
        BY <1>3, LimiterAssumption
    <2>2. buckets[key][1] = allowed[key][Left(key) + 1]
        BY <1>2, <2>1 DEF BucketIsRecentLog
    <2>3. Left(key) + 1 \in 1..Len(allowed[key])
        <3>1. Left(key) >= 0
            BY <1>2 DEF BucketIsRecentLog
        <3>2. Left(key) = Len(allowed[key]) - Len(buckets[key])
            BY DEF Left
        <3>3. Len(buckets[key]) \in Nat /\ Len(allowed[key]) \in Nat
            BY <1>2, KeyTypes
        <3> DEFINE kept == Len(buckets[key])
                   logged == Len(allowed[key])
        <3>4. kept \in Nat /\ logged \in Nat /\ kept >= 1
            BY <2>1, <3>3
        <3>5. Left(key) = logged - kept
            BY <3>2
        <3> HIDE DEF kept, logged
        <3>6. Left(key) + 1 \in 1..logged
            BY <3>1, <3>4, <3>5
        <3> QED
            BY <3>6 DEF logged
    <2> QED
        BY <1>2, <2>1, <2>2, <2>3, KeyTypes DEF LogIsPast
<1>5. /\ RetryAfter(buckets[key][1]) \in Nat
      /\ now + RetryAfter(buckets[key][1]) > buckets[key][1] + Window
    BY <1>2, <1>3, <1>4, KeyTypes, RetryIsLongEnough
<1>6. /\ retryAt'[key] = now + RetryAfter(buckets[key][1])
      /\ retryAt'[key] \in Nat
      /\ \A other \in Keys \ {key} : retryAt'[other] = retryAt[other]
    BY <1>1, <1>2, <1>3, <1>5, KeyTypes DEF TypeOK
<1>7. TypeOK'
    BY <1>1, <1>2, <1>3, <1>6 DEF TypeOK
<1>8. WindowIsRespected'
    BY <1>1 DEF IInv, WindowIsRespected, Window
<1>9. ASSUME NEW other \in Keys
      PROVE  (LogIsPast(other) /\ BucketIsRecentLog(other)
                               /\ WaitIsLongEnough(other))'
    <2>1. LogIsPast(other) /\ BucketIsRecentLog(other)
                           /\ WaitIsLongEnough(other)
        BY DEF IInv
    <2>2. LogIsPast(other)' /\ BucketIsRecentLog(other)'
        BY <1>1, <1>3, <2>1 DEF LogIsPast, BucketIsRecentLog, Left, Window
    <2>3. WaitIsLongEnough(other)'
        BY <1>3, <1>5, <1>6, <2>1 DEF WaitIsLongEnough, Window
    <2> QED
        BY <2>2, <2>3
<1> QED
    BY <1>7, <1>8, <1>9 DEF IInv

\* IInv is inductive.
LEMMA StepHolds == IInv /\ [Next]_vars => IInv'
<1> SUFFICES ASSUME IInv, [Next]_vars PROVE IInv'
    OBVIOUS
<1>1. CASE Tick
    BY <1>1, TickHolds
<1>2. ASSUME NEW key \in Keys, Allow(key) PROVE IInv'
    BY <1>2, AllowHolds
<1>3. ASSUME NEW key \in Keys, Refuse(key) PROVE IInv'
    BY <1>3, RefuseHolds
<1>4. CASE UNCHANGED vars
    BY <1>4 DEF vars, IInv, TypeOK, WindowIsRespected, LogIsPast,
       BucketIsRecentLog, WaitIsLongEnough, Left, Window
<1> QED
    BY <1>1, <1>2, <1>3, <1>4 DEF Next

-----------------------------------------------------------------------------

\* The invariant the two results below are read from.
LEMMA Invariant == Spec => []IInv
BY InitHolds, StepHolds, PTL DEF Spec

\* The state of the limiter is well formed and no bucket outgrows max_calls.
THEOREM LimiterTypeCorrect == Spec => []TypeOK
<1>1. IInv => TypeOK
    BY DEF IInv
<1> QED
    BY <1>1, Invariant, PTL

\* At most max_calls calls of an address are let in within a window, wherever
\* it is laid (rate_limit.py:15): the bucket is the tail of the log, and what
\* was dropped from it is older than the window.
THEOREM LimiterKeepsTheWindow == Spec => []WindowIsRespected
<1>1. IInv => WindowIsRespected
    BY DEF IInv
<1> QED
    BY <1>1, Invariant, PTL

\* Retry-After is kept: whoever comes back at that moment or later finds that
\* the oldest call of the bucket has expired.
THEOREM LimiterKeepsItsPromise == Spec => BackInTimeIsServed
<1>1. ASSUME IInv, NEW key \in Keys,
             retryAt[key] # NotWaiting, now >= retryAt[key], Refuse(key)
      PROVE  FALSE
    <2>1. PICK n \in 0..Len(buckets[key]) :
              Drops(key, n) /\ Len(buckets[key]) - n >= max_calls
        BY <1>1 DEF Refuse
    <2>2. TypeOK /\ WaitIsLongEnough(key)
        BY <1>1 DEF IInv
    <2>3. /\ Len(buckets[key]) = max_calls
          /\ buckets[key][1] >= now - Window
        BY <2>1, <2>2, RefusedWhenFull
    <2>4. retryAt[key] > buckets[key][1] + Window
        BY <1>1, <2>2 DEF WaitIsLongEnough
    <2>5. buckets[key][1] \in Nat
        BY <2>2, <2>3, KeyTypes, LimiterAssumption
    <2> QED
        BY <1>1, <2>2, <2>3, <2>4, <2>5, KeyTypes
<1>2. IInv => \A key \in Keys :
                  retryAt[key] # NotWaiting /\ now >= retryAt[key]
                  => ~Refuse(key)
    BY <1>1
<1>3. IInv /\ [Next]_vars
      => [\A key \in Keys :
             retryAt[key] # NotWaiting /\ now >= retryAt[key]
             => ~Refuse(key)]_vars
    BY <1>2
<1> QED
    BY <1>3, Invariant, PTL DEF Spec, BackInTimeIsServed

-----------------------------------------------------------------------------
(* Login uses the limiter *)

\* What a step of the service is to the limiter.
LEMMA LimiterStep == [LoginNext]_loginVars => [Next]_vars
<1> SUFFICES ASSUME [LoginNext]_loginVars PROVE [Next]_vars
    OBVIOUS
<1>1. CASE Tick /\ UNCHANGED authVars
    BY <1>1 DEF Next
<1>2. ASSUME NEW key \in Keys,
             LoginRefused(key) \/ \E s \in Slots, u \in Users :
                                      LoginAllowed(s, key, u)
      PROVE  Next
    BY <1>2 DEF LoginRefused, LoginAllowed, Next
<1>3. ASSUME NEW s \in Slots,
             Authenticate(s) \/ RecordLogin(s) \/ LoginCommit(s)
                 \/ LoginFailed(s) \/ LoginDies(s) \/ CallEnds(s)
      PROVE  UNCHANGED vars
    BY <1>3 DEF Authenticate, RecordLogin, LoginCommit, LoginFailed, LoginDies,
                CallEnds
<1>4. ASSUME NEW t \in tokens,
             Refresh(t) \/ Expire(t) \/ \E s \in Slots : Call(s, t)
      PROVE  UNCHANGED vars
    BY <1>4 DEF Refresh, Expire, Call
<1>5. ASSUME NEW u \in Users, NEW active \in BOOLEAN, Activate(u, active)
      PROVE  UNCHANGED vars
    BY <1>5 DEF Activate
<1>6. CASE UNCHANGED loginVars
    BY <1>6 DEF loginVars
<1> QED
    BY <1>1, <1>2, <1>3, <1>4, <1>5, <1>6 DEF LoginNext

\* The limiter that the logins call is the one of RateLimiter.
THEOREM LoginUsesTheLimiter == LoginSpec => Spec
<1>1. LoginInit => Init
    BY DEF LoginInit
<1> QED
    BY <1>1, LimiterStep, PTL DEF LoginSpec, Spec

\* No address gets more than max_calls passwords tried within a window,
\* however the logins it had been let in for interleave, fail or die.
THEOREM LoginsKeepTheWindow == LoginSpec => []WindowIsRespected
BY LoginUsesTheLimiter, LimiterKeepsTheWindow, PTL

\* A client that comes back when the 429 told it to is let in.
THEOREM LoginsKeepTheirPromise == LoginSpec => BackInTimeIsServed
BY LoginUsesTheLimiter, LimiterKeepsItsPromise, PTL

-----------------------------------------------------------------------------
(* Types *)

\* An attempt is not the absence of one.
LEMMA AttemptIsOne ==
    /\ NoAttempt \notin Attempt
    /\ NoAttempt.key = None /\ NoAttempt.at = "idle"
    /\ None \notin Keys /\ None \notin Users
BY LoginAssumption DEF NoAttempt, Attempt

LEMMA LoginTypesInductive ==
    TypeOK' /\ LoginTypeOK /\ [LoginNext]_loginVars => LoginTypeOK'
<1> SUFFICES ASSUME TypeOK', LoginTypeOK, [LoginNext]_loginVars
             PROVE  LoginTypeOK'
    OBVIOUS
<1> USE DEF LoginTypeOK
<1>1. CASE Tick /\ UNCHANGED authVars
    BY <1>1 DEF authVars
<1>2. ASSUME NEW key \in Keys, LoginRefused(key)
      PROVE  LoginTypeOK'
    BY <1>2 DEF LoginRefused, authVars
<1>3. ASSUME NEW key \in Keys, NEW s \in Slots, NEW u \in Users,
             LoginAllowed(s, key, u)
      PROVE  LoginTypeOK'
    BY <1>3 DEF LoginAllowed, Attempt
<1>4. ASSUME NEW s \in Slots, Authenticate(s) \/ RecordLogin(s)
      PROVE  LoginTypeOK'
    <2>1. attempts[s] \in Attempt
        BY <1>4, AttemptIsOne DEF Authenticate, RecordLogin
    <2>2. PICK at \in {"authenticated", "failed", "recorded"} :
              attempts' = [attempts EXCEPT ![s].at = at]
        BY <1>4 DEF Authenticate, RecordLogin
    <2>3. attempts' \in [Slots -> Attempt \cup {NoAttempt}]
        BY <2>1, <2>2 DEF Attempt
    <2> QED
        BY <1>4, <2>3 DEF Authenticate, RecordLogin
<1>5. ASSUME NEW s \in Slots, LoginCommit(s)
      PROVE  LoginTypeOK'
    <2>1. attempts[s] \in Attempt
        BY <1>5, AttemptIsOne DEF LoginCommit
    <2>2. attempts[s].user \in Users /\ attempts[s].key \in Keys
        BY <2>1 DEF Attempt
    <2>3. tokens' \subseteq Token
        BY <1>5 DEF LoginCommit, TokensOf
    <2> QED
        BY <1>5, <2>2, <2>3 DEF LoginCommit
<1>6. ASSUME NEW s \in Slots, LoginFailed(s) \/ LoginDies(s)
      PROVE  LoginTypeOK'
    <2>1. attempts[s] \in Attempt
        BY <1>6, AttemptIsOne DEF LoginFailed, LoginDies
    <2>2. attempts[s].key \in Keys
        BY <2>1 DEF Attempt
    <2> QED
        BY <1>6, <2>2 DEF LoginFailed, LoginDies
<1>7. ASSUME NEW s \in Slots, CallEnds(s)
      PROVE  LoginTypeOK'
    BY <1>7 DEF CallEnds
<1>8. ASSUME NEW t \in tokens, Refresh(t) \/ Expire(t)
      PROVE  LoginTypeOK'
    BY <1>8 DEF Refresh, Expire, TokensOf
<1>9. ASSUME NEW t \in tokens, NEW s \in Slots, Call(s, t)
      PROVE  LoginTypeOK'
    <2>1. t.user \in Users
        BY DEF Token
    <2> QED
        BY <1>9, <2>1 DEF Call
<1>10. ASSUME NEW u \in Users, NEW active \in BOOLEAN, Activate(u, active)
       PROVE  LoginTypeOK'
    BY <1>10 DEF Activate
<1>11. CASE UNCHANGED loginVars
    BY <1>11 DEF loginVars, authVars
<1> QED
    BY <1>1, <1>2, <1>3, <1>4, <1>5, <1>6, <1>7, <1>8, <1>9, <1>10, <1>11
    DEF LoginNext

\* The state of the logins and of the limiter behind them is well formed.
THEOREM LoginTypeCorrect == LoginSpec => []LoginTypeOK
<1>1. LoginInit /\ TypeOK => LoginTypeOK
    BY DEF LoginInit, LoginTypeOK
<1>2. LoginSpec => []TypeOK
    BY LoginUsesTheLimiter, LimiterTypeCorrect, PTL
<1> QED
    BY <1>1, <1>2, LoginTypesInductive, PTL DEF LoginSpec

-----------------------------------------------------------------------------
(* A deactivated user gets nothing *)

\* Nobody holds a token without a login of his in the audit trail.
TokensAreEarned ==
    \A u \in Users : TokensOf(u) \cap tokens # {} => u \in logged_in

\* What a step of the service may hand out.
LEMMA StepHandsOut ==
    ASSUME LoginTypeOK, TokensAreEarned, [LoginNext]_loginVars, NEW u \in Users
    PROVE  /\ \/ is_active[u]
              \/ /\ TokensOf(u) \cap tokens' \subseteq tokens
                 /\ \A s \in Slots : serving'[s] = u => serving[s] = u
              \/ \E s \in Slots : /\ attempts[s].at = "recorded"
                                  /\ attempts[s].user = u
                                  /\ attempts'[s] = NoAttempt
           /\ TokensOf(u) \cap tokens' # {} => u \in logged_in'
<1> DEFINE Goal ==
        /\ \/ is_active[u]
           \/ /\ TokensOf(u) \cap tokens' \subseteq tokens
              /\ \A s \in Slots : serving'[s] = u => serving[s] = u
           \/ \E s \in Slots : /\ attempts[s].at = "recorded"
                               /\ attempts[s].user = u
                               /\ attempts'[s] = NoAttempt
        /\ TokensOf(u) \cap tokens' # {} => u \in logged_in'
<1>1. ASSUME UNCHANGED <<serving, tokens, logged_in>>
      PROVE  Goal
    BY <1>1 DEF TokensAreEarned
<1>2. ASSUME NEW key \in Keys,
             LoginRefused(key) \/ \E s \in Slots, v \in Users :
                                      LoginAllowed(s, key, v)
      PROVE  Goal
    BY <1>1, <1>2 DEF LoginRefused, LoginAllowed, authVars
<1>3. ASSUME NEW s \in Slots,
             Authenticate(s) \/ RecordLogin(s) \/ LoginFailed(s) \/ LoginDies(s)
      PROVE  Goal
    BY <1>1, <1>3 DEF Authenticate, RecordLogin, LoginFailed, LoginDies
<1>4. ASSUME NEW s \in Slots, LoginCommit(s)
      PROVE  Goal
    <2>1. attempts'[s] = NoAttempt /\ UNCHANGED serving
        BY <1>4 DEF LoginCommit, LoginTypeOK
    <2>2. CASE attempts[s].user = u
        <3>1. attempts[s].at = "recorded" /\ u \in logged_in'
            BY <1>4, <2>2 DEF LoginCommit
        <3> QED
            BY <2>1, <2>2, <3>1
    <2>3. CASE attempts[s].user # u
        <3>1. TokensOf(u) \cap tokens' \subseteq tokens
            BY <1>4, <2>3 DEF LoginCommit, TokensOf
        <3>2. u \in logged_in => u \in logged_in'
            BY <1>4 DEF LoginCommit
        <3> QED
            BY <2>1, <3>1, <3>2 DEF TokensAreEarned
    <2> QED
        BY <2>2, <2>3
<1>5. ASSUME NEW s \in Slots, CallEnds(s)
      PROVE  Goal
    <2>1. \A r \in Slots : serving'[r] = u => serving[r] = u
        BY <1>5, AttemptIsOne DEF CallEnds, LoginTypeOK
    <2> QED
        BY <1>5, <2>1 DEF CallEnds, TokensAreEarned
<1>6. ASSUME NEW t \in tokens, Refresh(t)
      PROVE  Goal
    <2>1. t \in Token /\ t \in TokensOf(t.user) /\ t.user \in logged_in
        BY DEF TokensAreEarned, TokensOf, LoginTypeOK, Token
    <2>2. CASE t.user = u
        BY <1>6, <2>1, <2>2 DEF Refresh
    <2>3. CASE t.user # u
        <3>1. TokensOf(u) \cap tokens' \subseteq tokens
            BY <1>6, <2>3 DEF Refresh, TokensOf
        <3> QED
            BY <1>6, <3>1 DEF Refresh, TokensAreEarned
    <2> QED
        BY <2>2, <2>3
<1>7. ASSUME NEW t \in tokens, Expire(t)
      PROVE  Goal
    BY <1>7 DEF Expire, TokensAreEarned
<1>8. ASSUME NEW t \in tokens, NEW s \in Slots, Call(s, t)
      PROVE  Goal
    <2>1. is_active[t.user] /\ UNCHANGED <<tokens, logged_in>>
          /\ serving' = [serving EXCEPT ![s] = t.user]
        BY <1>8 DEF Call
    <2>2. CASE t.user = u
        BY <2>1, <2>2 DEF TokensAreEarned
    <2>3. CASE t.user # u
        <3>1. \A r \in Slots : serving'[r] = u => serving[r] = u
            BY <2>1, <2>3 DEF LoginTypeOK
        <3> QED
            BY <2>1, <3>1 DEF TokensAreEarned
    <2> QED
        BY <2>2, <2>3
<1>9. CASE Tick /\ UNCHANGED authVars
    BY <1>1, <1>9 DEF authVars
<1>10. ASSUME NEW v \in Users, NEW active \in BOOLEAN, Activate(v, active)
       PROVE  Goal
    BY <1>1, <1>10 DEF Activate
<1>11. CASE UNCHANGED loginVars
    BY <1>1, <1>11 DEF loginVars, authVars
<1> QED
    BY <1>2, <1>3, <1>4, <1>5, <1>6, <1>7, <1>8, <1>9, <1>10, <1>11
    DEF LoginNext

\* After an administrator has deactivated a user, no request of his is let in
\* and no token is handed to him, refresh tokens or not, but for a login that
\* was past its check; and nobody ever holds a token without an audited login.
THEOREM DeactivationIsKept == LoginSpec => DeactivatedGetsNothing
<1>1. LoginInit => TokensAreEarned
    BY DEF LoginInit, TokensAreEarned
<1>2. LoginTypeOK /\ TokensAreEarned /\ [LoginNext]_loginVars
          => TokensAreEarned'
    BY StepHandsOut DEF TokensAreEarned, TokensOf
<1>3. LoginTypeOK /\ TokensAreEarned /\ [LoginNext]_loginVars
          => [\A u \in Users :
                 /\ \/ is_active[u]
                    \/ /\ TokensOf(u) \cap tokens' \subseteq tokens
                       /\ \A s \in Slots : serving'[s] = u => serving[s] = u
                    \/ \E s \in Slots : /\ attempts[s].at = "recorded"
                                        /\ attempts[s].user = u
                                        /\ attempts'[s] = NoAttempt
                 /\ TokensOf(u) \cap tokens' # {}
                        => u \in logged_in']_loginVars
    BY StepHandsOut
<1> QED
    BY <1>1, <1>2, <1>3, LoginTypeCorrect, PTL
    DEF LoginSpec, DeactivatedGetsNothing
-----------------------------------------------------------------------------
(* Every attempt is audited *)

\* The attempts in flight can be counted.
LEMMA InFlightIsFinite ==
    ASSUME NEW key
    PROVE  /\ IsFiniteSet(InFlight(key))
           /\ IsFiniteSet(InFlight(key))'
           /\ Cardinality(InFlight(key)) \in Nat
<1>1. /\ InFlight(key) \subseteq Slots
      /\ InFlight(key)' \subseteq Slots
    BY DEF InFlight
<1>2. IsFiniteSet(InFlight(key)) /\ IsFiniteSet(InFlight(key))'
    BY <1>1, LoginAssumption, FS_Subset
<1> QED
    BY <1>2, FS_CardinalityType

\* An attempt that begins is one more in flight from its address.
LEMMA AttemptBegins ==
    ASSUME LoginTypeOK, NEW s \in Slots, NEW key \in Keys, NEW u \in Users,
           LoginAllowed(s, key, u), NEW k \in Keys
    PROVE  Cardinality(InFlight(k))'
               = IF k = key THEN Cardinality(InFlight(k)) + 1
                            ELSE Cardinality(InFlight(k))
<1>1. /\ attempts \in [Slots -> Attempt \cup {NoAttempt}]
      /\ attempts[s] = NoAttempt
      /\ attempts' = [attempts EXCEPT ![s] = [at |-> "allowed", user |-> u,
                                              key |-> key]]
    BY DEF LoginTypeOK, LoginAllowed
<1>2. s \notin InFlight(k)
    BY <1>1, AttemptIsOne DEF InFlight
<1>3. CASE k = key
    <2>1. InFlight(k)' = InFlight(k) \cup {s}
        BY <1>1, <1>3 DEF InFlight
    <2> QED
        BY <1>2, <1>3, <2>1, InFlightIsFinite, FS_AddElement
<1>4. CASE k # key
    <2>1. InFlight(k)' = InFlight(k)
        BY <1>1, <1>2, <1>4 DEF InFlight
    <2> QED
        BY <1>4, <2>1
<1> QED
    BY <1>3, <1>4

\* An attempt that ends, however it does, is one less.
LEMMA AttemptEnds ==
    ASSUME LoginTypeOK, NEW s \in Slots, attempts[s] # NoAttempt,
           attempts' = [attempts EXCEPT ![s] = NoAttempt], NEW k \in Keys
    PROVE  /\ attempts[s].key \in Keys
           /\ Cardinality(InFlight(k))
                  = IF k = attempts[s].key
                      THEN Cardinality(InFlight(k))' + 1
                      ELSE Cardinality(InFlight(k))'
           /\ Cardinality(InFlight(k))' \in Nat
<1>1. /\ attempts \in [Slots -> Attempt \cup {NoAttempt}]
      /\ attempts[s] \in Attempt
    BY DEF LoginTypeOK
<1>2. attempts[s].key \in Keys
    BY <1>1 DEF Attempt
<1>3. IsFiniteSet(InFlight(k)) /\ Cardinality(InFlight(k)) \in Nat
    BY InFlightIsFinite
<1>4. CASE k = attempts[s].key
    <2>1. s \in InFlight(k) /\ InFlight(k)' = InFlight(k) \ {s}
        BY <1>1, <1>4, AttemptIsOne DEF InFlight
    <2>2. /\ Cardinality(InFlight(k))' = Cardinality(InFlight(k)) - 1
          /\ Cardinality(InFlight(k))' \in Nat
        BY <2>1, <1>3, FS_RemoveElement, FS_CardinalityType
    <2> QED
        BY <1>2, <1>3, <1>4, <2>2
<1>5. CASE k # attempts[s].key
    <2>1. InFlight(k)' = InFlight(k)
        BY <1>1, <1>5, AttemptIsOne DEF InFlight
    <2> QED
        BY <1>2, <1>3, <1>5, <2>1
<1> QED
    BY <1>4, <1>5

\* Whatever an attempt comes to, the books balance.
LEMMA StepAuditsAttempts ==
    ASSUME LoginTypeOK, LoginTypeOK', AttemptsAreAudited,
           [LoginNext]_loginVars, NEW k \in Keys
    PROVE  Len(allowed'[k]) = login_failed'[k] + login'[k] + died'[k]
                                + Cardinality(InFlight(k))'
<1> DEFINE Balanced ==
        Len(allowed'[k]) = login_failed'[k] + login'[k] + died'[k]
                             + Cardinality(InFlight(k))'
<1>1. /\ Len(allowed[k]) = login_failed[k] + login[k] + died[k]
                             + Cardinality(InFlight(k))
      /\ Cardinality(InFlight(k)) \in Nat
      /\ login_failed \in [Keys -> Nat] /\ login \in [Keys -> Nat]
      /\ died \in [Keys -> Nat]
      /\ allowed \in [Keys -> Seq(0..MaxTime)]
    BY InFlightIsFinite DEF AttemptsAreAudited, LoginTypeOK, TypeOK
<1>2. ASSUME UNCHANGED <<allowed, login_failed, login, died>>,
             InFlight(k)' = InFlight(k)
      PROVE  Balanced
    BY <1>1, <1>2
<1>3. ASSUME UNCHANGED <<allowed, attempts, login_failed, login, died>>
      PROVE  Balanced
    BY <1>2, <1>3 DEF InFlight
<1>4. ASSUME NEW key \in Keys, LoginRefused(key)
      PROVE  Balanced
    BY <1>3, <1>4 DEF LoginRefused, Refuse, authVars
<1>5. ASSUME NEW key \in Keys, NEW s \in Slots, NEW u \in Users,
             LoginAllowed(s, key, u)
      PROVE  Balanced
    <2>1. /\ allowed' = [allowed EXCEPT ![key] = Append(@, now)]
          /\ UNCHANGED <<login_failed, login, died>>
          /\ now \in 0..MaxTime
        BY <1>5 DEF LoginAllowed, Allow, LoginTypeOK, TypeOK
    <2>2. Len(allowed'[k]) = IF k = key THEN Len(allowed[k]) + 1
                                        ELSE Len(allowed[k])
        BY <1>1, <2>1, SMTT(30)
    <2>3. Cardinality(InFlight(k))'
              = IF k = key THEN Cardinality(InFlight(k)) + 1
                           ELSE Cardinality(InFlight(k))
        BY <1>5, AttemptBegins
    <2> QED
        BY <1>1, <2>1, <2>2, <2>3
<1>6. ASSUME NEW s \in Slots, Authenticate(s) \/ RecordLogin(s)
      PROVE  Balanced
    <2>1. PICK at \in {"authenticated", "failed", "recorded"} :
              attempts' = [attempts EXCEPT ![s].at = at]
        BY <1>6 DEF Authenticate, RecordLogin
    <2>2. attempts \in [Slots -> Attempt \cup {NoAttempt}]
        BY DEF LoginTypeOK
    <2>3. \A r \in Slots : attempts'[r].key = attempts[r].key
        BY <2>1, <2>2 DEF Attempt, NoAttempt
    <2>4. InFlight(k)' = InFlight(k)
        BY <2>3 DEF InFlight
    <2> QED
        BY <1>2, <1>6, <2>4 DEF Authenticate, RecordLogin, vars
<1>7. ASSUME NEW s \in Slots,
             LoginCommit(s) \/ LoginFailed(s) \/ LoginDies(s)
      PROVE  Balanced
    <2>1. /\ attempts[s] # NoAttempt
          /\ attempts' = [attempts EXCEPT ![s] = NoAttempt]
          /\ allowed' = allowed
        BY <1>7, AttemptIsOne
        DEF LoginCommit, LoginFailed, LoginDies, vars
    <2>2. PICK key \in Keys : key = attempts[s].key
        BY <2>1, AttemptEnds
    <2>3. /\ Cardinality(InFlight(k)) = IF k = key
                                          THEN Cardinality(InFlight(k))' + 1
                                          ELSE Cardinality(InFlight(k))'
          /\ Cardinality(InFlight(k))' \in Nat
        BY <2>1, <2>2, AttemptEnds
    <2>4. \/ /\ login' = [login EXCEPT ![key] = @ + 1]
             /\ UNCHANGED <<login_failed, died>>
          \/ /\ login_failed' = [login_failed EXCEPT ![key] = @ + 1]
             /\ UNCHANGED <<login, died>>
          \/ /\ died' = [died EXCEPT ![key] = @ + 1]
             /\ UNCHANGED <<login_failed, login>>
        BY <1>7, <2>2 DEF LoginCommit, LoginFailed, LoginDies
    <2>5. \/ /\ login'[k] = login[k] + (IF k = key THEN 1 ELSE 0)
             /\ login_failed'[k] = login_failed[k] /\ died'[k] = died[k]
          \/ /\ login_failed'[k] = login_failed[k] + (IF k = key THEN 1 ELSE 0)
             /\ login'[k] = login[k] /\ died'[k] = died[k]
          \/ /\ died'[k] = died[k] + (IF k = key THEN 1 ELSE 0)
             /\ login_failed'[k] = login_failed[k] /\ login'[k] = login[k]
        BY <1>1, <2>4
    <2>6. /\ login[k] \in Nat /\ login_failed[k] \in Nat /\ died[k] \in Nat
        BY <1>1
    <2>7. allowed'[k] = allowed[k]
        BY <2>1
    <2>8. CASE k = key
        <3>1. login_failed'[k] + login'[k] + died'[k]
                  = login_failed[k] + login[k] + died[k] + 1
            BY <2>5, <2>6, <2>8
        <3> QED
            BY <1>1, <2>3, <2>5, <2>6, <2>7, <2>8, <3>1
    <2>9. CASE k # key
        BY <1>1, <2>3, <2>5, <2>6, <2>7, <2>9
    <2> QED
        BY <2>8, <2>9
<1>8. ASSUME NEW s \in Slots, CallEnds(s)
      PROVE  Balanced
    BY <1>3, <1>8 DEF CallEnds, vars
<1>9. ASSUME NEW t \in tokens,
             Refresh(t) \/ Expire(t) \/ \E s \in Slots : Call(s, t)
      PROVE  Balanced
    BY <1>3, <1>9 DEF Refresh, Expire, Call, vars
<1>10. ASSUME NEW u \in Users, NEW active \in BOOLEAN, Activate(u, active)
       PROVE  Balanced
    BY <1>3, <1>10 DEF Activate, vars
<1>11. CASE Tick /\ UNCHANGED authVars
    BY <1>3, <1>11 DEF Tick, authVars
<1>12. CASE UNCHANGED loginVars
    BY <1>3, <1>12 DEF loginVars, vars, authVars
<1> QED
    BY <1>4, <1>5, <1>6, <1>7, <1>8, <1>9, <1>10, <1>11, <1>12 DEF LoginNext

\* Every password that was tried is in the audit trail once, under the address
\* the limiter counted it for, or is still being tried, or died.
THEOREM EveryAttemptIsAudited == LoginSpec => []AttemptsAreAudited
<1>1. LoginInit => AttemptsAreAudited
    <2> SUFFICES ASSUME LoginInit, NEW key \in Keys
                 PROVE  Len(allowed[key]) = login_failed[key] + login[key]
                            + died[key] + Cardinality(InFlight(key))
        BY DEF AttemptsAreAudited
    <2>1. InFlight(key) = {}
        BY AttemptIsOne DEF LoginInit, InFlight
    <2>2. Cardinality(InFlight(key)) = 0
        BY <2>1, FS_EmptySet
    <2> QED
        BY <2>2 DEF LoginInit, Init
<1>2. LoginTypeOK /\ LoginTypeOK' /\ AttemptsAreAudited
          /\ [LoginNext]_loginVars => AttemptsAreAudited'
    BY StepAuditsAttempts DEF AttemptsAreAudited
<1> QED
    BY <1>1, <1>2, LoginTypeCorrect, PTL DEF LoginSpec
=============================================================================
