------------------------- MODULE ConnectivityProofs -------------------------
(***************************************************************************)
(* The connectivity manager for every width of the clock, all intervals,   *)
(* any set of addresses and any length of an iteration of the loop: the    *)
(* home page's copy, and the pace of the attempts.                         *)
(*                                                                         *)
(* The argument.  Until an iteration ends, the events are what makes up    *)
(* for a copy that is behind (PageInv).  The pace rests on what the        *)
(* wrapped differences tell of the time that passed (PaceInv), and on the  *)
(* delay being no shorter than the backoff of the failures so far          *)
(* (BackoffInv).                                                           *)
(***************************************************************************)
EXTENDS Connectivity, FiniteSetTheorems, FunctionTheorems, TLAPS

FlagTypes ==
  /\ {link, wifiConnected, timeSynchronized} \subseteq BOOLEAN
  /\ page.connected \in BOOLEAN

LocalAddresses == Addresses \cup {0}
Events == {"wifiConnected", "wifiDisconnected", "localAddressChanged"}

ValueTypes ==
  /\ clock \in 0..Word - 1
  /\ lastWiFiStatusCheck \in 0..Word - 1
  /\ lastWiFiAttempt \in 0..Word - 1
  /\ lastNtpAttempt \in 0..Word - 1
  /\ lag \in 0..MaxLag
  /\ pc \in {"WIFI", "CONNECTING", "TIME", "SYNCING", "EVENTS"}
  /\ localIPv4Address \in LocalAddresses
  /\ wifiRetryDelay \in 0..RetryMax
  /\ events \subseteq Events
  /\ page = [connected |-> page.connected, address |-> page.address]
  /\ page.address \in LocalAddresses
  /\ failures \in 0..Word
  /\ sinceFailure \in 0..Word
  /\ sinceSync \in 0..Word

-----------------------------------------------------------------------------
(* The inductive invariant.                                                *)

PageIsCurrent ==
  /\ page.connected <=> wifiConnected
  /\ page.address = localIPv4Address

\* The copy is behind only while an event of this iteration says so; an
\* attempt is made, and fails, while the copy says "not connected".
PageInv ==
  /\ pc = "WIFI" \/ events = {} => PageIsCurrent
  /\ pc = "CONNECTING" => ~wifiConnected

\* The wrapped differences tell the times since the last failure and the last
\* synchronization, until these reach the width of the clock.
PaceInv ==
  /\ sinceSync < Word => Elapsed(lastNtpAttempt) = sinceSync
  /\ pc # "CONNECTING" /\ failures > 0 /\ sinceFailure < Word =>
       Elapsed(lastWiFiAttempt) = sinceFailure
  /\ failures = 0 <=> wifiRetryDelay = 0

\* The delay doubles with each failure, though nothing but itself is kept of
\* their number.
BackoffInv == failures > 0 => wifiRetryDelay >= Backoff(failures)

ManagerInv ==
  /\ FlagTypes
  /\ ValueTypes
  /\ PageInv
  /\ PaceInv
  /\ BackoffInv

-----------------------------------------------------------------------------
(* The clock.                                                              *)

\* A difference of two readings, modulo the width, by which is the later one.
LEMMA Difference ==
  ASSUME NEW W \in Nat, NEW a \in 0..W - 1, NEW b \in 0..W - 1
  PROVE  (a - b) % W = IF b <= a THEN a - b ELSE a - b + W
<1>1. \A c \in 0..W - 1 : c % W = c
  OBVIOUS
<1>2. \A c \in Int : c < 0 /\ 0 < c + W => c % W = c + W
  OBVIOUS
<1>3. CASE b <= a
  BY <1>1, <1>3
<1>4. CASE ~(b <= a)
  BY <1>2, <1>4
<1> QED
  BY <1>3, <1>4

\* One tick later, a difference is one more, or wraps.
LEMMA TickedDifference ==
  ASSUME NEW W \in Nat, NEW a \in 0..W - 1, NEW b \in 0..W - 1, 1 < W
  PROVE  /\ (a + 1) % W \in 0..W - 1
         /\ ((a - b) % W) + 1 < W =>
              (((a + 1) % W) - b) % W = ((a - b) % W) + 1
<1> DEFINE next == (a + 1) % W
<1>1. next = IF a + 1 < W THEN a + 1 ELSE 0
  <2>1. CASE a + 1 < W
    BY <2>1
  <2>2. CASE a + 1 = W
    BY <2>2
  <2> QED
    BY <2>1, <2>2
<1> HIDE DEF next
<1>2. next \in 0..W - 1
  BY <1>1
<1>3. (next - b) % W = IF b <= next THEN next - b ELSE next - b + W
  BY <1>2, Difference
<1>4. (a - b) % W = IF b <= a THEN a - b ELSE a - b + W
  BY Difference
<1>5. ((a - b) % W) + 1 < W => (next - b) % W = ((a - b) % W) + 1
  BY <1>1, <1>3, <1>4
<1> QED
  BY <1>2, <1>5 DEF next

LEMMA NextRetryDelayType ==
  ASSUME NEW current \in 0..RetryMax
  PROVE  /\ NextRetryDelay(current) \in 1..RetryMax
         /\ NextRetryDelay(current) >=
              IF current = 0 THEN RetryInitial ELSE LowerOf(2 * current, RetryMax)
<1> USE IntervalsAssumption DEF NextRetryDelay, LowerOf
<1>1. CASE current = 0
  BY <1>1
<1>2. CASE current # 0 /\ current < RetryMax \div 2
  <2>1. 2 * current <= RetryMax
    BY <1>2
  <2> QED
    BY <1>2, <2>1
<1>3. CASE current # 0 /\ ~(current < RetryMax \div 2)
  BY <1>3
<1> QED
  BY <1>1, <1>2, <1>3

-----------------------------------------------------------------------------
(* The backoff.                                                            *)

Pow2(n) == 2^n

\* The power of two is the number of subsets (FS_SUBSET), which is what the
\* library knows of it.
LEMMA PowCounts ==
  ASSUME NEW n \in Nat
  PROVE  /\ IsFiniteSet(SUBSET (1..n))
         /\ Cardinality(SUBSET (1..n)) = Pow2(n)
         /\ Pow2(n) \in Nat
<1>1. IsFiniteSet(1..n) /\ Cardinality(1..n) = n
  BY FS_Interval
<1>2. /\ IsFiniteSet(SUBSET (1..n))
      /\ Cardinality(SUBSET (1..n)) = 2^Cardinality(1..n)
  BY <1>1, FS_SUBSET, Zenon
<1>3. Cardinality(SUBSET (1..n)) = Pow2(n)
  BY <1>1, <1>2, Zenon DEF Pow2
<1>4. Cardinality(SUBSET (1..n)) \in Nat
  BY <1>2, FS_CardinalityType, Zenon
<1> QED
  BY <1>2, <1>3, <1>4, Zenon

LEMMA PowZero == Pow2(0) = 1
<1>1. 1..0 = {}
  OBVIOUS
<1>2. SUBSET (1..0) = {{}}
  BY <1>1
<1>3. Cardinality({{}}) = 1
  BY FS_Singleton, Zenon
<1>4. Cardinality(SUBSET (1..0)) = Pow2(0)
  BY PowCounts
<1> QED
  BY <1>2, <1>3, <1>4, Zenon

\* One element more: each subset is one with it or one without.
LEMMA PowDoubles ==
  ASSUME NEW n \in Nat
  PROVE  Pow2(n + 1) = 2 * Pow2(n)
<1> DEFINE A == SUBSET (1..n)
           B == {T \cup {n + 1} : T \in A}
           f == [T \in A |-> T \cup {n + 1}]
<1>1. SUBSET (1..(n + 1)) = A \cup B
  <2>1. ASSUME NEW T \in SUBSET (1..(n + 1)), T \notin A PROVE T \in B
    <3>1. T \ {n + 1} \in A
      OBVIOUS
    <3>2. n + 1 \in T
      BY <2>1
    <3>3. T = (T \ {n + 1}) \cup {n + 1}
      BY <3>2
    <3> QED
      BY <3>1, <3>3
  <2>2. ASSUME NEW T \in A \cup B PROVE T \in SUBSET (1..(n + 1))
    OBVIOUS
  <2> QED
    BY <2>1, <2>2
<1>2. A \cap B = {}
  OBVIOUS
<1>3. f \in Bijection(A, B)
  <2>1. f \in [A -> B]
    OBVIOUS
  <2>2. ASSUME NEW T \in A, NEW U \in A, f[T] = f[U] PROVE T = U
    <3>1. T \cup {n + 1} = U \cup {n + 1}
      BY <2>2
    <3>2. n + 1 \notin T /\ n + 1 \notin U
      OBVIOUS
    <3> QED
      BY <3>1, <3>2
  <2>3. \A U \in B : \E T \in A : f[T] = U
    OBVIOUS
  <2>4. f \in Injection(A, B)
    <3> HIDE DEF A, B, f
    <3> QED
      BY <2>1, <2>2, Fun_IsInj
  <2>5. f \in Surjection(A, B)
    <3> HIDE DEF A, B, f
    <3> QED
      BY <2>1, <2>3, Fun_IsSurj
  <2> QED
    BY <2>4, <2>5, Zenon DEF Bijection
<1>4. IsFiniteSet(A) /\ Cardinality(A) = Pow2(n) /\ Pow2(n) \in Nat
  BY PowCounts
<1>5. IsFiniteSet(B) /\ Cardinality(B) = Pow2(n)
  <2> HIDE DEF A, B, f
  <2> QED
    BY <1>3, <1>4, FS_Bijection DEF ExistsBijection
<1>6. Cardinality(A \cup B) =
        Cardinality(A) + Cardinality(B) - Cardinality(A \cap B)
  <2> HIDE DEF A, B
  <2> QED
    BY <1>4, <1>5, FS_Union
<1>7. Cardinality(A \cap B) = 0
  BY <1>2, FS_EmptySet
<1>8. n + 1 \in Nat
  OBVIOUS
<1>9. Cardinality(SUBSET (1..(n + 1))) = Pow2(n + 1)
  BY <1>8, PowCounts, Zenon
<1> HIDE DEF A, B
<1>10. Cardinality(A \cup B) = Pow2(n + 1)
  BY <1>1, <1>9, Zenon
<1> QED
  BY <1>4, <1>5, <1>6, <1>7, <1>10

\* The backoff in terms of Pow2, and from one failure to the next.
LEMMA BackoffSteps ==
  ASSUME NEW n \in Nat \ {0}
  PROVE  /\ Backoff(1) = RetryInitial
         /\ Backoff(n) \in Nat
         /\ Backoff(n + 1) <= LowerOf(2 * Backoff(n), RetryMax)
<1>1. \A k : Backoff(k) = LowerOf(RetryInitial * Pow2(k - 1), RetryMax)
  BY Zenon DEF Backoff, Pow2
<1>2. n - 1 \in Nat /\ (n - 1) + 1 = n /\ (n + 1) - 1 = n /\ 1 - 1 = 0
  OBVIOUS
<1>3. RetryInitial \in Nat /\ RetryMax \in Nat /\ RetryInitial <= RetryMax
  BY IntervalsAssumption
<1>4. Pow2(n - 1) \in Nat /\ Pow2(n) = 2 * Pow2(n - 1)
  <2>1. Pow2(n - 1) \in Nat
    BY <1>2, PowCounts, Zenon
  <2>2. Pow2((n - 1) + 1) = 2 * Pow2(n - 1)
    BY <1>2, PowDoubles, Zenon
  <2> QED
    BY <1>2, <2>1, <2>2
<1>5. Backoff(1) = RetryInitial
  BY <1>1, <1>2, <1>3, PowZero DEF LowerOf
<1> DEFINE first == RetryInitial * Pow2(n - 1)
<1>6. first \in Nat
  BY <1>3, <1>4
<1>7. RetryInitial * Pow2(n) = 2 * first
  BY <1>3, <1>4
<1> HIDE DEF first
<1>8. Backoff(n) = LowerOf(first, RetryMax)
  BY <1>1 DEF first
<1>9. Backoff(n + 1) = LowerOf(2 * first, RetryMax)
  BY <1>1, <1>2, <1>7
<1> QED
  BY <1>3, <1>5, <1>6, <1>8, <1>9 DEF LowerOf

-----------------------------------------------------------------------------
(* The steps.                                                              *)

\* The split says what TypeOK says.
LEMMA TypesAreTypeOK == FlagTypes /\ ValueTypes => TypeOK
<1> SUFFICES ASSUME FlagTypes, ValueTypes
             PROVE  TypeOK
  OBVIOUS
<1>1. {link, wifiConnected, timeSynchronized} \subseteq BOOLEAN
  BY DEF FlagTypes
<1>2. page \in [connected : BOOLEAN, address : LocalAddresses]
  <2>1. page.connected \in BOOLEAN /\ page.address \in LocalAddresses
        /\ page = [connected |-> page.connected, address |-> page.address]
    BY DEF FlagTypes, ValueTypes
  <2>2. \A c \in BOOLEAN : \A a \in LocalAddresses :
          [connected |-> c, address |-> a]
            \in [connected : BOOLEAN, address : LocalAddresses]
    BY Zenon
  <2> QED
    BY <2>1, <2>2, Zenon
<1> QED
  BY <1>1, <1>2 DEF ValueTypes, TypeOK, LocalAddresses, Events

LEMMA FlagStep ==
  ASSUME FlagTypes, [Next]_vars
  PROVE  FlagTypes'
<1> USE DEF FlagTypes, managerVars, Goto
<1>1. CASE Tick
  BY <1>1, Zenon DEF Tick
<1>2. CASE LinkChanges
  BY <1>2, Zenon DEF LinkChanges
<1>3. CASE WiFiRests \/ WiFiAttempts \/ TimeRests \/ TimeSyncs
  BY <1>3, Zenon DEF WiFiRests, WiFiAttempts, TimeRests, TimeSyncs
<1>4. CASE WiFiChecks
  BY <1>4, Zenon DEF WiFiChecks
<1>5. CASE WiFiConnects \/ WiFiFails \/ TimeSynced
  BY <1>5, Zenon DEF WiFiConnects, WiFiFails, TimeSynced
<1>6. CASE HandleEvents
  <2>1. page'.connected \in {wifiConnected, page.connected}
    BY <1>6 DEF HandleEvents
  <2>2. UNCHANGED <<link, wifiConnected, timeSynchronized>>
    BY <1>6 DEF HandleEvents
  <2> QED
    BY <2>1, <2>2, Zenon
<1>7. CASE UNCHANGED vars
  BY <1>7, Zenon DEF vars
<1> QED
  BY <1>1, <1>2, <1>3, <1>4, <1>5, <1>6, <1>7 DEF Next, LoopStep

LEMMA ValueStep ==
  ASSUME ValueTypes, [Next]_vars
  PROVE  ValueTypes'
<1> USE IntervalsAssumption, LagAssumption
<1> USE DEF ValueTypes, LocalAddresses, Events, managerVars, historyVars,
            Goto, SetLocalIPv4Address
<1>1. CASE Tick
  <2>1. clock' \in 0..Word - 1
    BY <1>1, TickedDifference DEF Tick
  <2>2. lag' \in 0..MaxLag
    BY <1>1 DEF Tick
  <2>3. sinceFailure' \in 0..Word /\ sinceSync' \in 0..Word
    BY <1>1 DEF Tick, LowerOf
  <2>4. UNCHANGED <<pc, managerVars, events, page, failures>>
    BY <1>1 DEF Tick
  <2> QED
    BY <2>1, <2>2, <2>3, <2>4
<1>2. CASE LinkChanges
  BY <1>2 DEF LinkChanges
<1>3. CASE WiFiRests \/ WiFiAttempts \/ TimeRests \/ TimeSyncs
  BY <1>3 DEF WiFiRests, WiFiAttempts, TimeRests, TimeSyncs
<1>4. CASE WiFiChecks
  <2>1. /\ lastWiFiStatusCheck' = clock /\ pc' = "TIME" /\ lag' \in {0, lag}
        /\ UNCHANGED <<clock, lastWiFiAttempt, lastNtpAttempt, page,
                       sinceFailure, sinceSync>>
    BY <1>4 DEF WiFiChecks
  <2>2. localIPv4Address' \in LocalAddresses /\ events' \subseteq Events
    BY <1>4 DEF WiFiChecks
  <2>3. wifiRetryDelay' \in {0, wifiRetryDelay} /\ failures' \in {0, failures}
    BY <1>4 DEF WiFiChecks
  <2> QED
    BY <2>1, <2>2, <2>3
<1>5. CASE WiFiConnects
  BY <1>5 DEF WiFiConnects
<1>6. CASE WiFiFails
  <2>1. wifiRetryDelay' \in 0..RetryMax
    BY <1>6, NextRetryDelayType DEF WiFiFails
  <2>2. failures' \in 0..Word /\ sinceFailure' \in 0..Word
    BY <1>6 DEF WiFiFails, LowerOf
  <2>3. localIPv4Address' = 0 /\ events' \subseteq Events
    BY <1>6 DEF WiFiFails
  <2>4. lastWiFiAttempt' = clock /\ pc' = "TIME" /\ lag' \in {0, lag}
        /\ UNCHANGED <<clock, lastWiFiStatusCheck, lastNtpAttempt, page,
                       sinceSync>>
    BY <1>6 DEF WiFiFails, AttemptEnded
  <2> QED
    BY <2>1, <2>2, <2>3, <2>4
<1>7. CASE TimeSynced
  BY <1>7 DEF TimeSynced
<1>8. CASE HandleEvents
  <2>1. page' = [connected |-> page'.connected, address |-> page'.address]
        /\ page'.address \in {localIPv4Address, page.address}
    BY <1>8 DEF HandleEvents
  <2>2. lag' \in {0, lag} /\ pc' = "WIFI"
        /\ UNCHANGED <<clock, managerVars, events, historyVars>>
    BY <1>8 DEF HandleEvents
  <2> QED
    BY <2>1, <2>2
<1>9. CASE UNCHANGED vars
  BY <1>9 DEF vars
<1> QED
  BY <1>1, <1>2, <1>3, <1>4, <1>5, <1>6, <1>7, <1>8, <1>9 DEF Next, LoopStep

\* Every change of what the page shows is an event of the iteration.
LEMMA PageStep ==
  ASSUME FlagTypes, ValueTypes, PageInv, [Next]_vars
  PROVE  PageInv'
<1> USE DEF PageInv, PageIsCurrent, managerVars, Goto
<1>1. CASE Tick \/ LinkChanges \/ UNCHANGED vars
  BY <1>1 DEF Tick, LinkChanges, vars
<1>2. CASE WiFiRests \/ TimeRests \/ TimeSyncs
  BY <1>2 DEF WiFiRests, TimeRests, TimeSyncs
<1>3. CASE WiFiAttempts
  BY <1>3 DEF WiFiAttempts
<1>4. CASE WiFiChecks
  <2>1. /\ pc = "WIFI" /\ pc' = "TIME" /\ page' = page
        /\ events' = {} =>
             /\ wifiConnected' = wifiConnected
             /\ localIPv4Address' = localIPv4Address
    BY <1>4 DEF WiFiChecks, SetLocalIPv4Address
  <2> QED
    BY <2>1
<1>5. CASE WiFiConnects
  <2>1. pc' = "TIME" /\ events' # {}
    BY <1>5 DEF WiFiConnects, SetLocalIPv4Address
  <2> QED
    BY <2>1
<1>6. CASE WiFiFails
  <2>1. /\ pc = "CONNECTING" /\ pc' = "TIME" /\ page' = page
        /\ ~wifiConnected'
        /\ events' = {} =>
             events = {} /\ localIPv4Address' = localIPv4Address
    BY <1>6 DEF WiFiFails, SetLocalIPv4Address
  <2>2. ~wifiConnected
    BY <2>1
  <2> QED
    BY <2>1, <2>2
<1>7. CASE TimeSynced
  BY <1>7 DEF TimeSynced
<1>8. CASE HandleEvents
  <2>1. pc' = "WIFI" /\ UNCHANGED <<events, wifiConnected, localIPv4Address>>
    BY <1>8 DEF HandleEvents
  <2>2. CASE events = {}
    <3>1. page' = page
      BY <1>8, <2>2 DEF HandleEvents
    <3> QED
      BY <2>1, <2>2, <3>1
  <2>3. CASE events # {}
    <3>1. page' = [connected |-> wifiConnected, address |-> localIPv4Address]
      BY <1>8, <2>3 DEF HandleEvents
    <3>2. page'.connected = wifiConnected /\ page'.address = localIPv4Address
      BY <3>1
    <3> QED
      BY <2>1, <2>3, <3>2
  <2> QED
    BY <2>2, <2>3
<1> QED
  BY <1>1, <1>2, <1>3, <1>4, <1>5, <1>6, <1>7, <1>8 DEF Next, LoopStep

\* The differences keep up with the time, and a retry delay stands exactly
\* while there are failures to be paced.
LEMMA PaceStep ==
  ASSUME ValueTypes, PaceInv, [Next]_vars
  PROVE  PaceInv'
<1> USE DEF PaceInv, managerVars, historyVars, Goto
<1>0. Word \in Nat /\ 1 < Word
  BY IntervalsAssumption
<1>1. \A a \in 0..Word - 1 : (a - a) % Word = 0
  BY <1>0, Difference
<1>2. CASE Tick
  <2>1. \A b \in 0..Word - 1 :
          ((clock - b) % Word) + 1 < Word
            => (clock' - b) % Word = ((clock - b) % Word) + 1
    BY <1>0, <1>2, TickedDifference DEF Tick, ValueTypes
  <2>2. UNCHANGED <<pc, lastNtpAttempt, lastWiFiAttempt, wifiRetryDelay,
                    failures>>
    BY <1>2 DEF Tick
  <2>3. ASSUME NEW since \in 0..Word, NEW last \in 0..Word - 1,
               since < Word => Elapsed(last) = since,
               LowerOf(since + 1, Word) < Word
        PROVE  (clock' - last) % Word = LowerOf(since + 1, Word)
    <3>1. since + 1 < Word /\ LowerOf(since + 1, Word) = since + 1
      BY <1>0, <2>3 DEF LowerOf
    <3>2. Elapsed(last) = since
      BY <1>0, <2>3, <3>1
    <3> QED
      BY <2>1, <3>1, <3>2 DEF Elapsed
  <2>4. /\ sinceFailure' = LowerOf(sinceFailure + 1, Word)
        /\ sinceSync' = LowerOf(sinceSync + 1, Word)
    BY <1>2 DEF Tick
  <2>5. sinceSync' < Word => (clock' - lastNtpAttempt) % Word = sinceSync'
    BY <2>3, <2>4 DEF ValueTypes
  <2>6. pc # "CONNECTING" /\ failures > 0 /\ sinceFailure' < Word
          => (clock' - lastWiFiAttempt) % Word = sinceFailure'
    <3> SUFFICES ASSUME pc # "CONNECTING", failures > 0, sinceFailure' < Word
                 PROVE  (clock' - lastWiFiAttempt) % Word = sinceFailure'
      OBVIOUS
    <3>1. sinceFailure < Word => Elapsed(lastWiFiAttempt) = sinceFailure
      OBVIOUS
    <3> QED
      BY <2>3, <2>4, <3>1 DEF ValueTypes
  <2> QED
    BY <2>2, <2>5, <2>6 DEF Elapsed
<1>3. CASE \/ LinkChanges \/ WiFiRests \/ TimeRests \/ TimeSyncs
           \/ HandleEvents \/ UNCHANGED vars
  <2>1. UNCHANGED <<clock, lastNtpAttempt, lastWiFiAttempt, wifiRetryDelay,
                    failures, sinceSync, sinceFailure>>
    BY <1>3 DEF LinkChanges, WiFiRests, TimeRests, TimeSyncs, HandleEvents,
                vars
  <2>2. pc = "CONNECTING" => pc' = "CONNECTING"
    BY <1>3 DEF LinkChanges, WiFiRests, TimeRests, TimeSyncs, HandleEvents,
                vars
  <2> QED
    BY <2>1, <2>2 DEF Elapsed
<1>4. CASE WiFiAttempts
  <2>1. /\ pc' = "CONNECTING"
        /\ UNCHANGED <<clock, lastNtpAttempt, wifiRetryDelay, failures,
                       sinceSync>>
    BY <1>4 DEF WiFiAttempts
  <2> QED
    BY <2>1 DEF Elapsed
<1>5. CASE WiFiChecks
  <2>1. /\ pc # "CONNECTING"
        /\ UNCHANGED <<clock, lastNtpAttempt, lastWiFiAttempt, sinceSync,
                       sinceFailure>>
        /\ \/ UNCHANGED <<wifiRetryDelay, failures>>
           \/ wifiRetryDelay' = 0 /\ failures' = 0
    BY <1>5 DEF WiFiChecks
  <2> QED
    BY <2>1 DEF Elapsed
<1>6. CASE WiFiConnects
  <2>1. /\ wifiRetryDelay' = 0 /\ failures' = 0 /\ sinceSync' = 0
        /\ lastNtpAttempt' = clock /\ clock' = clock
    BY <1>6 DEF WiFiConnects
  <2> QED
    BY <1>1, <2>1 DEF Elapsed, ValueTypes
<1>7. CASE WiFiFails
  <2>1. /\ lastWiFiAttempt' = clock /\ sinceFailure' = 0
        /\ UNCHANGED <<clock, lastNtpAttempt, sinceSync>>
        /\ wifiRetryDelay' = NextRetryDelay(wifiRetryDelay)
        /\ failures' = LowerOf(failures + 1, Word)
    BY <1>7 DEF WiFiFails, AttemptEnded
  <2>2. wifiRetryDelay' # 0
    BY <2>1, NextRetryDelayType DEF ValueTypes
  <2>3. failures' # 0
    BY <1>0, <2>1 DEF LowerOf, ValueTypes
  <2> QED
    BY <1>1, <2>1, <2>2, <2>3 DEF Elapsed, ValueTypes
<1>8. CASE TimeSynced
  <2>1. /\ pc = "SYNCING" /\ lastNtpAttempt' = clock /\ sinceSync' = 0
        /\ UNCHANGED <<clock, lastWiFiAttempt, wifiRetryDelay, failures,
                       sinceFailure>>
    BY <1>8 DEF TimeSynced
  <2> QED
    BY <1>1, <2>1 DEF Elapsed, ValueTypes
<1> QED
  BY <1>2, <1>3, <1>4, <1>5, <1>6, <1>7, <1>8 DEF Next, LoopStep

\* Each failure at least doubles the delay, up to the maximum.
LEMMA BackoffStep ==
  ASSUME ValueTypes, PaceInv, BackoffInv, [Next]_vars
  PROVE  BackoffInv'
<1>1. CASE UNCHANGED <<failures, wifiRetryDelay>>
  BY <1>1 DEF BackoffInv, Backoff
<1>2. CASE failures' = 0
  BY <1>2 DEF BackoffInv
<1>3. CASE WiFiFails
  <2>1. /\ wifiRetryDelay' = NextRetryDelay(wifiRetryDelay)
        /\ failures' = LowerOf(failures + 1, Word)
        /\ failures \in 0..Word
        /\ wifiRetryDelay \in 0..RetryMax
        /\ failures = 0 <=> wifiRetryDelay = 0
    BY <1>3 DEF WiFiFails, ValueTypes, PaceInv
  <2>2. /\ wifiRetryDelay' \in 1..RetryMax
        /\ wifiRetryDelay' >= IF wifiRetryDelay = 0 THEN RetryInitial
                              ELSE LowerOf(2 * wifiRetryDelay, RetryMax)
    BY <2>1, NextRetryDelayType
  <2>3. CASE failures = 0
    <3>1. failures' = 1
      BY <2>1, <2>3, IntervalsAssumption DEF LowerOf
    <3>2. wifiRetryDelay' >= Backoff(1)
      BY <2>1, <2>2, <2>3, BackoffSteps
    <3> QED
      BY <3>1, <3>2 DEF BackoffInv, Backoff
  <2>4. CASE failures # 0
    <3>1. failures \in Nat \ {0} /\ Word \in Nat /\ RetryMax \in Nat
      BY <2>1, <2>4, IntervalsAssumption
    <3>2. wifiRetryDelay >= Backoff(failures)
      BY <3>1 DEF BackoffInv
    <3>3. /\ Backoff(failures) \in Nat
          /\ Backoff(failures + 1) \in Nat
          /\ Backoff(failures + 1) <= LowerOf(2 * Backoff(failures), RetryMax)
      BY <3>1, BackoffSteps
    <3>4. wifiRetryDelay' >= LowerOf(2 * wifiRetryDelay, RetryMax)
      BY <2>1, <2>2, <2>4
    <3>5. wifiRetryDelay' >= Backoff(failures + 1)
      BY <2>1, <2>2, <3>1, <3>2, <3>3, <3>4 DEF LowerOf
    <3>6. wifiRetryDelay' >= Backoff(failures)
      BY <2>1, <2>2, <3>1, <3>2, <3>3, <3>4 DEF LowerOf
    <3>7. failures' \in {failures, failures + 1}
      BY <2>1, <3>1 DEF LowerOf
    <3>8. Backoff(failures') \in {Backoff(failures), Backoff(failures + 1)}
      BY <3>7
    <3>9. wifiRetryDelay' >= Backoff(failures')
      BY <3>5, <3>6, <3>8
    <3> QED
      BY <3>9 DEF BackoffInv, Backoff
  <2> QED
    BY <2>3, <2>4
<1> QED
  BY <1>1, <1>2, <1>3
     DEF Next, LoopStep, Tick, LinkChanges, WiFiRests, WiFiChecks, WiFiAttempts,
         WiFiConnects, TimeRests, TimeSyncs, TimeSynced, HandleEvents, vars,
         managerVars, historyVars

-----------------------------------------------------------------------------
(* The theorems.                                                           *)

LEMMA Initially == Init => ManagerInv
<1> SUFFICES ASSUME Init
             PROVE  ManagerInv
  OBVIOUS
<1> USE DEF Init
<1>1. page.connected = FALSE /\ page.address = 0
  OBVIOUS
<1>2. FlagTypes
  BY <1>1, Zenon DEF FlagTypes
<1>3. ValueTypes
  BY <1>1, IntervalsAssumption, LagAssumption
     DEF ValueTypes, LocalAddresses, Events
<1>4. PageInv
  BY <1>1 DEF PageInv, PageIsCurrent
<1>5. PaceInv
  <2>1. (0 - 0) % Word = 0
    BY Difference, IntervalsAssumption
  <2> QED
    BY <2>1 DEF PaceInv, Elapsed
<1>6. BackoffInv
  BY DEF BackoffInv
<1> QED
  BY <1>2, <1>3, <1>4, <1>5, <1>6 DEF ManagerInv

LEMMA ManagerStep == ManagerInv /\ [Next]_vars => ManagerInv'
BY FlagStep, ValueStep, PageStep, PaceStep, BackoffStep DEF ManagerInv

\* The connectivity manager and the home page keep ManagerInv.
THEOREM ManagerInvariant == Spec => []ManagerInv
BY Initially, ManagerStep, PTL DEF Spec

\* Every variable of the connectivity manager keeps its type.
THEOREM ManagerTypes == Spec => []TypeOK
<1>1. ManagerInv => TypeOK
  BY TypesAreTypeOK DEF ManagerInv
<1> QED
  BY <1>1, ManagerInvariant, PTL

\* After each iteration the home page shows the connection and the address of
\* the moment, though it is told of events alone.
THEOREM HomePageIsCurrent == Spec => []HomePageCurrent
<1>1. ManagerInv => HomePageCurrent
  <2> SUFFICES ASSUME ManagerInv, pc = "WIFI"
               PROVE  page = [connected |-> wifiConnected,
                              address |-> localIPv4Address]
    BY DEF HomePageCurrent
  <2>1. page = [connected |-> page.connected, address |-> page.address]
    BY DEF ManagerInv, ValueTypes
  <2>2. (page.connected <=> wifiConnected) /\ page.address = localIPv4Address
    BY DEF ManagerInv, PageInv, PageIsCurrent
  <2>3. page.connected = wifiConnected
    BY <2>2, Zenon DEF ManagerInv, FlagTypes
  <2> QED
    BY <2>1, <2>2, <2>3, Zenon
<1> QED
  BY <1>1, ManagerInvariant, PTL

\* An NTP attempt waits for its interval.
LEMMA SyncWaits == ManagerInv /\ [Next]_vars => [SyncPaced]_vars
<1> SUFFICES ASSUME ManagerInv, Next, pc' = "SYNCING", pc # "SYNCING"
             PROVE  sinceSync >= NtpInterval
  BY DEF SyncPaced
<1>1. SyncDue
  BY DEF Next, LoopStep, WiFiRests, WiFiChecks, WiFiAttempts, WiFiConnects,
         WiFiFails, TimeRests, TimeSyncs, TimeSynced, HandleEvents, Tick,
         LinkChanges, Goto
<1>2. /\ Elapsed(lastNtpAttempt) >= NtpInterval
      /\ sinceSync \in 0..Word
      /\ sinceSync < Word => Elapsed(lastNtpAttempt) = sinceSync
  BY <1>1 DEF SyncDue, ManagerInv, ValueTypes, PaceInv
<1> QED
  BY <1>2, IntervalsAssumption

\* An attempt to connect waits for the delay, which is no shorter than the
\* backoff.
LEMMA RetryWaits == ManagerInv /\ [Next]_vars => [RetryPaced]_vars
<1> SUFFICES ASSUME ManagerInv, Next, pc' = "CONNECTING",
                    pc # "CONNECTING", failures > 0
             PROVE  sinceFailure >= Backoff(failures)
  BY DEF RetryPaced
<1>1. RetryDue
  BY DEF Next, LoopStep, WiFiRests, WiFiChecks, WiFiAttempts, WiFiConnects,
         WiFiFails, TimeRests, TimeSyncs, TimeSynced, HandleEvents, Tick,
         LinkChanges, Goto
<1>2. /\ wifiRetryDelay > 0 => Elapsed(lastWiFiAttempt) >= wifiRetryDelay
      /\ wifiRetryDelay \in 0..RetryMax
      /\ sinceFailure \in 0..Word
      /\ sinceFailure < Word => Elapsed(lastWiFiAttempt) = sinceFailure
  BY <1>1 DEF RetryDue, ManagerInv, ValueTypes, PaceInv
<1>3. sinceFailure >= wifiRetryDelay
  BY <1>2, IntervalsAssumption
<1>4. wifiRetryDelay >= Backoff(failures)
  BY DEF ManagerInv, BackoffInv
<1>5. Backoff(failures) \in Nat
  <2>1. failures \in Nat \ {0}
    BY IntervalsAssumption DEF ManagerInv, ValueTypes
  <2> QED
    BY <2>1, BackoffSteps
<1> QED
  BY <1>2, <1>3, <1>4, <1>5

\* Across every wrap of the clock, an attempt to connect starts no sooner than
\* the backoff of the failures so far after the end of the last one, and an
\* NTP attempt no sooner than its interval after the end of the last
\* (maintainWiFi(), nextRetryDelay(), maintainTimeSynchronization()).
THEOREM AttemptsKeepTheirPace == Spec => AttemptsPaced
<1>1. ManagerInv /\ [Next]_vars => [RetryPaced /\ SyncPaced]_vars
  BY RetryWaits, SyncWaits
<1> QED
  BY <1>1, ManagerInvariant, PTL DEF Spec, AttemptsPaced
=============================================================================
