------------------------- MODULE CloudUploadsProofs -------------------------
(***************************************************************************)
(* The upload schedule and the reboot after an update, for every width of  *)
(* the clock, every interval and delay that fits it and every length of an *)
(* iteration of the loop.                                                  *)
(*                                                                         *)
(* The argument.  Everything the code decides by the clock, it decides by  *)
(* a difference modulo Word; the invariant says what that difference is in *)
(* terms of the time that really passed.  For uploads (PaceInv) that is    *)
(* the time since the last result, until it reaches Word.  For the reboot  *)
(* (RebootInv) it is, of a deadline to come, the time left and, of one     *)
(* that is over, the time the loop has not looked since: both are shorter  *)
(* than half the clock, so the sign tells them apart.                      *)
(***************************************************************************)
EXTENDS CloudUploads, TLAPS

FlagTypes ==
  /\ {ready, uploading, paused, suppressed, manualRequested,
      manualImmediate} \subseteq BOOLEAN
  /\ {rebootRequest, pending, pressed, resumed, rejected, owed}
       \subseteq BOOLEAN
  /\ {cloudInFlight, otaReserved, otaLeased} \subseteq BOOLEAN

Results == {"SUCCEEDED", "RETRYABLE", "NON_RETRYABLE"}

ValueTypes ==
  /\ clock \in 0..Word - 1
  /\ lastAttempt \in 0..Word - 1
  /\ deadline \in 0..Word - 1
  /\ lag \in 0..MaxLag
  /\ place \in {"REBOOT", "CLOUD"}
  /\ sinceCommit \in 0..RebootBound + 1
  /\ currentDelay \in {0, RetryInterval, UploadInterval}
  /\ lastResult \in Results \cup {"NONE"}
  /\ sinceResult \in 0..Word
  /\ otaGeneration \in Nat

-----------------------------------------------------------------------------
(* The inductive invariant.                                                *)

\* What the schedule remembers of the results is what the documentation calls
\* them, and a manual request is forgotten when it was answered.
ResultsInv ==
  /\ suppressed <=> rejected
  /\ manualRequested <=> owed

Elapsed == (clock - lastAttempt) % Word

\* The time since the last result, and what may have shortened the delay.
PaceInv ==
  /\ sinceResult < Word => Elapsed = sinceResult
  /\ manualImmediate => pressed
  /\ currentDelay = IntervalAfter(lastResult) \/ resumed

Past == (clock - deadline) % Word

\* The deadline is to come: Word - Past is left of the delay.
DeadlineAhead(past) ==
  /\ Word <= past + RebootDelay
  /\ past + RebootDelay <= sinceCommit + Word
  /\ sinceCommit + Word <= past + RebootDelay + MaxLag

\* The deadline is over, and the loop has not looked since.
DeadlineOver(past) ==
  /\ past <= lag
  /\ past + RebootDelay <= sinceCommit
  /\ sinceCommit <= past + RebootDelay + MaxLag

RebootInv ==
  /\ ~rebootRequest => ~pending /\ sinceCommit = 0
  /\ ~pending => sinceCommit <= lag
  /\ pending => DeadlineAhead(Past) \/ DeadlineOver(Past)
  /\ pending => place = "REBOOT"
  /\ uploading => place = "CLOUD"

UploadsInv ==
  /\ FlagTypes
  /\ ValueTypes
  /\ ResultsInv
  /\ PaceInv
  /\ RebootInv

-----------------------------------------------------------------------------
(* The clock.                                                              *)

\* A difference of two readings, modulo the width, by which is the later one.
LEMMA Difference ==
  ASSUME NEW W \in Nat, NEW a \in 0..W - 1, NEW b \in 0..W - 1
  PROVE  (a - b) % W = IF b <= a THEN a - b ELSE a - b + W
<1>1. \A c \in 0..W - 1 : c % W = c
  OBVIOUS
<1>2. \A c \in Int : c < 0 /\ 0 < c + W => c % W = c + W
  OBVIOUS
<1>3. CASE b <= a
  BY <1>1, <1>3
<1>4. CASE ~(b <= a)
  BY <1>2, <1>4
<1> QED
  BY <1>3, <1>4

LEMMA DifferenceTypes ==
  ASSUME NEW W \in Nat, NEW a \in 0..W - 1, NEW b \in 0..W - 1
  PROVE  (a - b) % W \in 0..W - 1
<1>1. (a - b) % W = IF b <= a THEN a - b ELSE a - b + W
  BY Difference
<1> QED
  BY <1>1

\* A sum of a reading and less than the width.
LEMMA Sum ==
  ASSUME NEW W \in Nat, NEW a \in 0..W - 1, NEW d \in 0..W - 1
  PROVE  (a + d) % W = IF a + d < W THEN a + d ELSE a + d - W
<1>1. \A c \in Nat : c < W => c % W = c
  OBVIOUS
<1>2. \A c \in Nat : W <= c /\ c < W + W => c % W = c - W
  OBVIOUS
<1>3. CASE a + d < W
  BY <1>1, <1>3
<1>4. CASE ~(a + d < W)
  BY <1>2, <1>4
<1> QED
  BY <1>3, <1>4

\* One tick later, every difference is one more, or wraps.
LEMMA TickedDifference ==
  ASSUME NEW W \in Nat, NEW a \in 0..W - 1, NEW b \in 0..W - 1, 1 < W
  PROVE  /\ (a + 1) % W \in 0..W - 1
         /\ (((a + 1) % W) - b) % W =
              IF ((a - b) % W) + 1 < W THEN ((a - b) % W) + 1 ELSE 0
<1> DEFINE next == (a + 1) % W
<1>0. 1 \in 0..W - 1
  OBVIOUS
<1>1. next = IF a + 1 < W THEN a + 1 ELSE 0
  <2>1. (a + 1) % W = IF a + 1 < W THEN a + 1 ELSE a + 1 - W
    BY <1>0, Sum
  <2> QED
    BY <2>1
<1>2. next \in 0..W - 1
  BY <1>1
<1>3. (next - b) % W = IF b <= next THEN next - b ELSE next - b + W
  BY <1>2, Difference
<1>4. (a - b) % W = IF b <= a THEN a - b ELSE a - b + W
  BY Difference
<1> HIDE DEF next
<1>5. (next - b) % W = IF ((a - b) % W) + 1 < W THEN ((a - b) % W) + 1 ELSE 0
  BY <1>1, <1>3, <1>4
<1> QED
  BY <1>2, <1>5 DEF next

\* A deadline that is set d later is the width less d past.
LEMMA DeadlineSet ==
  ASSUME NEW W \in Nat, NEW a \in 0..W - 1, NEW d \in 1..W - 1
  PROVE  /\ (a + d) % W \in 0..W - 1
         /\ (a - ((a + d) % W)) % W = W - d
<1> DEFINE then == (a + d) % W
<1>0. d \in 0..W - 1
  OBVIOUS
<1>1. then = IF a + d < W THEN a + d ELSE a + d - W
  BY <1>0, Sum
<1>2. then \in 0..W - 1
  BY <1>1
<1>3. (a - then) % W = IF then <= a THEN a - then ELSE a - then + W
  BY <1>2, Difference
<1> HIDE DEF then
<1>4. (a - then) % W = W - d
  BY <1>1, <1>3
<1> QED
  BY <1>2, <1>4 DEF then

-----------------------------------------------------------------------------
(* Results.                                                                *)

\* For every payload and every status, the code's result of an upload is the
\* one of the documentation's table: upload(), handleResponse(),
\* scheduleResultFor().
THEOREM ResultAsDocumented ==
  ASSUME NEW length \in Lengths, NEW code \in Nat
  PROVE  /\ ScheduleResultFor(Upload(length, code))
              = DocumentedResult(length, code)
         /\ DocumentedResult(length, code) \in Results
<1> USE DEF DocumentedResult, ScheduleResultFor, Upload, HandleResponse,
            IsRetryableStatus, SensorError, FormatError, Lengths, Results
<1>1. CASE length = 1
  <2>1. CASE code = 0 \/ code = 201
    BY <1>1, <2>1
  <2>2. CASE code # 0 /\ code # 201
    BY <1>1, <2>2
  <2> QED
    BY <2>1, <2>2
<1>2. CASE length # 1
  BY <1>2
<1> QED
  BY <1>1, <1>2

\* What the end of an upload leaves: recordResult() against the history.
LEMMA UploadEnded ==
  ASSUME UploadEnds
  PROVE  \E result \in Results :
           /\ RecordResult(result)
           /\ lastResult' = result
           /\ rejected' = (result = "NON_RETRYABLE"
                           \/ (rejected /\ result = "RETRYABLE"))
           /\ owed' = (owed /\ result = "RETRYABLE")
<1>1. PICK length \in Lengths, code \in Codes :
        LET documented == DocumentedResult(length, code) IN
        /\ RecordResult(ScheduleResultFor(Upload(length, code)))
        /\ lastResult' = documented
        /\ rejected' = (documented = "NON_RETRYABLE"
                        \/ (rejected /\ documented = "RETRYABLE"))
        /\ owed' = (owed /\ documented = "RETRYABLE")
  BY Zenon DEF UploadEnds
<1>2. code \in Nat
  BY CodesAssumption
<1> DEFINE result == DocumentedResult(length, code)
<1>3. /\ ScheduleResultFor(Upload(length, code)) = result
      /\ result \in Results
  BY <1>2, ResultAsDocumented
<1> HIDE DEF result
<1>4. /\ RecordResult(result)
      /\ lastResult' = result
      /\ rejected' = (result = "NON_RETRYABLE"
                      \/ (rejected /\ result = "RETRYABLE"))
      /\ owed' = (owed /\ result = "RETRYABLE")
  BY <1>1, <1>3, Zenon DEF result
<1> QED
  BY <1>3, <1>4, Zenon

-----------------------------------------------------------------------------
(* Types.                                                                  *)

\* The split says what TypeOK says.
LEMMA TypesAreTypeOK == TypeOK <=> FlagTypes /\ ValueTypes
<1> USE DEF TypeOK, NetTypeOK, Results
<1>1. TypeOK => FlagTypes
  BY Zenon DEF FlagTypes
<1>2. TypeOK => ValueTypes
  BY DEF ValueTypes
<1>3. FlagTypes /\ ValueTypes => TypeOK
  BY Zenon DEF FlagTypes, ValueTypes
<1> QED
  BY <1>1, <1>2, <1>3

LEMMA FlagStep ==
  ASSUME FlagTypes, [Next]_vars
  PROVE  FlagTypes'
<1> USE DEF FlagTypes, scheduler, history, reboot, netVars
<1>1. CASE RebootWaits
  BY <1>1, Zenon DEF RebootWaits, Schedule
<1>2. CASE Reboot
  BY <1>2, Zenon DEF Reboot, NetReset
<1>3. CASE UpdateRests
  BY <1>3, Zenon DEF UpdateRests
<1>4. CASE UploadBegins
  BY <1>4, Zenon DEF UploadBegins, BeginCloud
<1>5. CASE UploadEnds
  <2>1. PICK result \in Results :
          /\ RecordResult(result)
          /\ rejected' = (result = "NON_RETRYABLE"
                          \/ (rejected /\ result = "RETRYABLE"))
          /\ owed' = (owed /\ result = "RETRYABLE")
    BY <1>5, UploadEnded
  <2>2. {manualRequested', manualImmediate', suppressed'} \subseteq BOOLEAN
    BY <2>1, Zenon DEF RecordResult
  <2>3. {rejected', owed'} \subseteq BOOLEAN
    BY <2>1, Zenon
  <2>4. /\ {uploading', cloudInFlight', pressed', resumed'} \subseteq BOOLEAN
        /\ UNCHANGED <<ready, paused, rebootRequest, pending, otaReserved,
                       otaLeased>>
    BY <1>5, Zenon DEF UploadEnds, EndCloud
  <2> QED
    BY <2>2, <2>3, <2>4, Zenon
<1>6. CASE RequestManualUpload
  BY <1>6, Zenon DEF RequestManualUpload
<1>7. CASE TogglePaused
  BY <1>7, Zenon DEF TogglePaused
<1>8. CASE Tick
  BY <1>8, Zenon DEF Tick
<1>9. CASE ReadyChanges
  BY <1>9, Zenon DEF ReadyChanges
<1>10. CASE OtaSession
  BY <1>10, Zenon DEF OtaSession, ReserveOta, GrantOta, ReleaseOta
<1>11. CASE OtaCommits
  BY <1>11, Zenon DEF OtaCommits
<1>12. CASE UNCHANGED vars
  BY <1>12, Zenon DEF vars
<1> QED
  BY <1>1, <1>2, <1>3, <1>4, <1>5, <1>6, <1>7, <1>8, <1>9, <1>10, <1>11,
     <1>12
     DEF Next, LoopStep

LEMMA ValueStep ==
  ASSUME ValueTypes, [Next]_vars
  PROVE  ValueTypes'
<1> USE DEF ValueTypes, scheduler, history, reboot, netVars
<1> USE RebootAssumption, LagAssumption, IntervalsAssumption
<1>1. CASE RebootWaits
  <2>1. deadline' \in 0..Word - 1
    <3>1. CASE deadline' = deadline
      BY <3>1
    <3>2. CASE deadline' = (clock + RebootDelay) % Word
      BY <3>2, DeadlineSet
    <3> QED
      BY <1>1, <3>1, <3>2 DEF RebootWaits, Schedule
  <2>2. place' \in {"REBOOT", "CLOUD"} /\ lag' = 0
    BY <1>1 DEF RebootWaits
  <2>3. UNCHANGED <<clock, lastAttempt, sinceCommit, currentDelay, lastResult,
                    sinceResult, otaGeneration>>
    BY <1>1 DEF RebootWaits
  <2> QED
    BY <2>1, <2>2, <2>3
<1>2. CASE Reboot
  BY <1>2 DEF Reboot, NetReset, RebootBound
<1>3. CASE UpdateRests
  BY <1>3 DEF UpdateRests
<1>4. CASE UploadBegins
  BY <1>4 DEF UploadBegins, BeginCloud
<1>5. CASE UploadEnds
  <2>1. PICK result \in Results : RecordResult(result) /\ lastResult' = result
    BY <1>5, UploadEnded
  <2>2. /\ lastAttempt' = clock
        /\ currentDelay' \in {RetryInterval, UploadInterval}
    BY <2>1 DEF RecordResult
  <2>3. /\ UNCHANGED <<clock, lag, deadline, sinceCommit, otaGeneration>>
        /\ place' = "REBOOT" /\ sinceResult' = 0
    BY <1>5 DEF UploadEnds, EndCloud
  <2> QED
    BY <2>1, <2>2, <2>3
<1>6. CASE RequestManualUpload
  BY <1>6 DEF RequestManualUpload
<1>7. CASE TogglePaused
  BY <1>7 DEF TogglePaused, DelayAfterToggle
<1>8. CASE Tick
  <2>1. clock' \in 0..Word - 1
    BY <1>8, TickedDifference DEF Tick
  <2>2. sinceResult' \in 0..Word
    BY <1>8 DEF Tick, LowerOf
  <2>3. sinceCommit' \in 0..RebootBound + 1
    BY <1>8 DEF Tick, LowerOf, RebootBound
  <2>4. lag' \in 0..MaxLag
    BY <1>8 DEF Tick
  <2>5. UNCHANGED <<lastAttempt, deadline, place, currentDelay, lastResult,
                    otaGeneration>>
    BY <1>8 DEF Tick
  <2> QED
    BY <2>1, <2>2, <2>3, <2>4, <2>5 DEF RebootBound
<1>9. CASE ReadyChanges
  BY <1>9 DEF ReadyChanges
<1>10. CASE OtaSession
  BY <1>10 DEF OtaSession, ReserveOta, GrantOta, ReleaseOta
<1>11. CASE OtaCommits
  BY <1>11 DEF OtaCommits
<1>12. CASE UNCHANGED vars
  BY <1>12 DEF vars
<1> QED
  BY <1>1, <1>2, <1>3, <1>4, <1>5, <1>6, <1>7, <1>8, <1>9, <1>10, <1>11,
     <1>12
     DEF Next, LoopStep

-----------------------------------------------------------------------------
(* The schedule.                                                           *)

\* Steps that are neither of the schedule, nor of the clock, nor a reset.
Aside ==
  \/ RebootWaits \/ UpdateRests \/ UploadBegins \/ ReadyChanges
  \/ OtaSession \/ OtaCommits \/ UNCHANGED vars

LEMMA AsideFrame ==
  ASSUME Aside
  PROVE  /\ UNCHANGED <<clock, sinceResult>>
         /\ UNCHANGED <<lastAttempt, currentDelay, paused, suppressed>>
         /\ UNCHANGED <<manualRequested, manualImmediate>>
         /\ UNCHANGED <<lastResult, pressed, resumed, rejected, owed>>
BY DEF Aside, RebootWaits, UpdateRests, UploadBegins, ReadyChanges,
       OtaSession, OtaCommits, vars, scheduler, history

LEMMA ResultsStep ==
  ASSUME ResultsInv, [Next]_vars
  PROVE  ResultsInv'
<1> USE DEF ResultsInv
<1>1. CASE Aside
  BY <1>1, AsideFrame
<1>2. CASE Tick
  BY <1>2 DEF Tick, scheduler
<1>3. CASE Reboot
  BY <1>3 DEF Reboot
<1>4. CASE RequestManualUpload
  BY <1>4 DEF RequestManualUpload
<1>5. CASE TogglePaused
  BY <1>5 DEF TogglePaused
<1>6. CASE UploadEnds
  <2>1. PICK result \in Results :
          /\ RecordResult(result)
          /\ rejected' = (result = "NON_RETRYABLE"
                          \/ (rejected /\ result = "RETRYABLE"))
          /\ owed' = (owed /\ result = "RETRYABLE")
    BY <1>6, UploadEnded
  <2>2. CASE result = "RETRYABLE"
    <3>1. UNCHANGED <<manualRequested, suppressed>>
      BY <2>1, <2>2 DEF RecordResult
    <3>2. (rejected' <=> rejected) /\ (owed' <=> owed)
      <4>1. result # "NON_RETRYABLE"
        BY <2>2
      <4> QED
        BY <2>1, <2>2, <4>1, Zenon
    <3> QED
      BY <3>1, <3>2
  <2>3. CASE result # "RETRYABLE"
    <3>1. /\ ~manualRequested'
          /\ suppressed' <=> result = "NON_RETRYABLE"
      BY <2>1, <2>3, Zenon DEF RecordResult
    <3>2. (rejected' <=> result = "NON_RETRYABLE") /\ ~owed'
      BY <2>1, <2>3, Zenon
    <3> QED
      BY <3>1, <3>2, Zenon
  <2> QED
    BY <2>2, <2>3
<1> QED
  BY <1>1, <1>2, <1>3, <1>4, <1>5, <1>6 DEF Next, LoopStep, Aside

\* A clock of any width tells the time since the last result, until that
\* reaches the width.
LEMMA PaceStep ==
  ASSUME ValueTypes, PaceInv, [Next]_vars
  PROVE  PaceInv'
<1> USE DEF PaceInv, Elapsed
<1>0. Word \in Nat /\ 1 < Word
  BY IntervalsAssumption, RebootAssumption
<1>1. CASE Aside
  BY <1>1, AsideFrame DEF IntervalAfter
<1>2. CASE Tick
  <2>1. Elapsed' = IF Elapsed + 1 < Word THEN Elapsed + 1 ELSE 0
    BY <1>0, <1>2, TickedDifference DEF Tick, ValueTypes, scheduler
  <2>2. /\ sinceResult \in 0..Word
        /\ sinceResult' = IF sinceResult + 1 <= Word THEN sinceResult + 1
                                                     ELSE Word
    BY <1>2 DEF Tick, LowerOf, ValueTypes
  <2>3. sinceResult' < Word => Elapsed' = sinceResult'
    <3> HIDE DEF Elapsed
    <3> QED
      BY <1>0, <2>1, <2>2
  <2>4. UNCHANGED <<currentDelay, manualImmediate, lastResult, pressed,
                    resumed>>
    BY <1>2 DEF Tick, scheduler
  <2> QED
    BY <2>3, <2>4 DEF IntervalAfter
<1>3. CASE Reboot
  <2>1. (0 - 0) % Word = 0
    BY <1>0, Difference
  <2> QED
    BY <1>3, <2>1 DEF Reboot, IntervalAfter
<1>4. CASE RequestManualUpload
  BY <1>4 DEF RequestManualUpload, IntervalAfter
<1>5. CASE TogglePaused
  <2>1. UNCHANGED <<clock, sinceResult, lastAttempt, manualImmediate,
                    lastResult, pressed>>
    BY <1>5 DEF TogglePaused
  <2>2. CASE paused
    <3>1. resumed'
      BY <1>5, <2>2, Zenon DEF TogglePaused
    <3> QED
      BY <2>1, <3>1
  <2>3. CASE ~paused
    <3>1. resumed' <=> resumed
      BY <1>5, <2>3, Zenon DEF TogglePaused
    <3>2. currentDelay' = currentDelay
      BY <1>5, <2>3 DEF TogglePaused, DelayAfterToggle
    <3> QED
      BY <2>1, <3>1, <3>2 DEF IntervalAfter
  <2> QED
    BY <2>2, <2>3
<1>6. CASE UploadEnds
  <2>1. PICK result \in Results : RecordResult(result) /\ lastResult' = result
    BY <1>6, UploadEnded
  <2>2. /\ currentDelay' = IntervalAfter(result)
        /\ lastAttempt' = clock
        /\ ~manualImmediate'
    BY <2>1 DEF RecordResult, IntervalAfter, Results
  <2>3. clock' = clock /\ sinceResult' = 0
    BY <1>6 DEF UploadEnds
  <2>4. (clock - clock) % Word = 0
    BY <1>0, Difference DEF ValueTypes
  <2> QED
    BY <2>1, <2>2, <2>3, <2>4 DEF IntervalAfter
<1> QED
  BY <1>1, <1>2, <1>3, <1>4, <1>5, <1>6 DEF Next, LoopStep, Aside

-----------------------------------------------------------------------------
(* The reboot.                                                             *)

\* Whether the reboot is due, by the time that passed.
LEMMA DueWhenOver ==
  ASSUME ValueTypes, RebootInv, pending
  PROVE  /\ Due => DeadlineOver(Past)
         /\ ~Due => DeadlineAhead(Past)
<1> USE RebootAssumption, LagAssumption, IntervalsAssumption
<1>1. Past \in 0..Word - 1
  BY DifferenceTypes DEF Past, ValueTypes
<1>2. DeadlineAhead(Past) \/ DeadlineOver(Past)
  BY DEF RebootInv
<1>3. Due <=> 2 * Past < Word
  BY DEF Due, Past
<1> HIDE DEF Past
<1>4. DeadlineAhead(Past) => Word <= 2 * Past
  BY <1>1 DEF DeadlineAhead
<1>5. DeadlineOver(Past) => 2 * Past < Word
  BY <1>1 DEF DeadlineOver, ValueTypes
<1> QED
  BY <1>1, <1>2, <1>3, <1>4, <1>5

\* In either case the bound on the time since the commit is kept.
LEMMA CommitBounded ==
  ASSUME NEW s \in Nat, NEW past \in 0..Word - 1, NEW late \in 0..MaxLag,
         \/ s + Word <= past + RebootDelay + MaxLag
         \/ past <= late /\ s <= past + RebootDelay + MaxLag
  PROVE  s <= RebootBound
BY RebootAssumption, LagAssumption, IntervalsAssumption DEF RebootBound

LEMMA RebootStep ==
  ASSUME ValueTypes, ValueTypes', RebootInv, [Next]_vars
  PROVE  RebootInv'
<1> USE RebootAssumption, LagAssumption, IntervalsAssumption
<1>1. CASE RebootWaits
  <2>1. place = "REBOOT" /\ ~Due
        /\ UNCHANGED <<clock, uploading, rebootRequest, sinceCommit>>
        /\ place' = IF ~pending' THEN "CLOUD" ELSE "REBOOT"
    BY <1>1 DEF RebootWaits, CloudAllowed
  <2>2. ~uploading
    BY <2>1 DEF RebootInv
  <2>3. CASE ~rebootRequest
    <3>1. ~pending /\ sinceCommit = 0 /\ UNCHANGED pending
      BY <1>1, <2>3 DEF RebootWaits, RebootInv
    <3> QED
      BY <2>1, <2>2, <2>3, <3>1 DEF RebootInv, ValueTypes
  <2>4. CASE rebootRequest /\ pending
    <3>1. pending' /\ UNCHANGED deadline
      BY <1>1, <2>4 DEF RebootWaits, Schedule
    <3>2. DeadlineAhead(Past)
      BY <2>1, <2>4, DueWhenOver
    <3>3. Past' = Past
      BY <2>1, <3>1 DEF Past
    <3>4. DeadlineAhead(Past')
      BY <3>2, <3>3
    <3>5. DeadlineAhead(Past)'
      BY <2>1, <3>4 DEF DeadlineAhead
    <3> QED
      BY <2>1, <2>2, <2>4, <3>1, <3>5 DEF RebootInv
  <2>5. CASE rebootRequest /\ ~pending
    <3>1. pending' /\ deadline' = (clock + RebootDelay) % Word
      BY <1>1, <2>5 DEF RebootWaits, Schedule
    <3>2. Past' = Word - RebootDelay
      <4>1. clock \in 0..Word - 1 /\ RebootDelay \in 1..Word - 1
        BY DEF ValueTypes
      <4>2. (clock - ((clock + RebootDelay) % Word)) % Word = Word - RebootDelay
        BY <4>1, DeadlineSet
      <4> QED
        BY <2>1, <3>1, <4>1, <4>2 DEF Past, ValueTypes
    <3>3. sinceCommit \in Nat /\ sinceCommit <= MaxLag
      BY <2>5 DEF RebootInv, ValueTypes, RebootBound
    <3>4. DeadlineAhead(Past)'
      BY <2>1, <3>2, <3>3 DEF DeadlineAhead
    <3> QED
      BY <2>1, <2>2, <2>5, <3>1, <3>4 DEF RebootInv
  <2> QED
    BY <2>3, <2>4, <2>5
<1>2. CASE Reboot
  BY <1>2 DEF Reboot, RebootInv
<1>3. CASE UpdateRests
  <2>1. ~pending /\ ~uploading /\ place' = "REBOOT"
        /\ UNCHANGED <<lag, uploading, rebootRequest, pending, sinceCommit>>
    BY <1>3 DEF UpdateRests, RebootInv, reboot
  <2> QED
    BY <2>1 DEF RebootInv
<1>4. CASE UploadBegins
  <2>1. ~pending /\ place = "CLOUD"
        /\ UNCHANGED <<lag, place, rebootRequest, pending, sinceCommit>>
    BY <1>4 DEF UploadBegins, RebootInv, reboot
  <2> QED
    BY <2>1 DEF RebootInv
<1>5. CASE UploadEnds
  <2>1. ~pending /\ ~uploading' /\ place' = "REBOOT"
        /\ UNCHANGED <<lag, rebootRequest, pending, sinceCommit>>
    BY <1>5 DEF UploadEnds, RebootInv, reboot
  <2> QED
    BY <2>1 DEF RebootInv
<1>6. CASE \/ RequestManualUpload \/ TogglePaused \/ ReadyChanges
           \/ OtaSession \/ UNCHANGED vars
  <2>1. UNCHANGED <<clock, lag, uploading, place, rebootRequest, pending,
                    deadline, sinceCommit>>
    BY <1>6 DEF RequestManualUpload, TogglePaused, ReadyChanges, OtaSession,
                vars, reboot
  <2> QED
    BY <2>1 DEF RebootInv, Past, DeadlineAhead, DeadlineOver
<1>7. CASE Tick
  <2>1. /\ UNCHANGED <<uploading, place, rebootRequest, pending, deadline>>
        /\ lag' = lag + 1
        /\ clock' = (clock + 1) % Word
        /\ sinceCommit' = IF rebootRequest
                            THEN LowerOf(sinceCommit + 1, RebootBound + 1)
                            ELSE 0
    BY <1>7 DEF Tick
  <2>2. /\ Past' = IF Past + 1 < Word THEN Past + 1 ELSE 0
        /\ Past \in 0..Word - 1
    <3>1. Past \in 0..Word - 1
      BY DifferenceTypes DEF Past, ValueTypes
    <3>2. (((clock + 1) % Word) - deadline) % Word
            = IF Past + 1 < Word THEN Past + 1 ELSE 0
      <4>1. Word \in Nat /\ 1 < Word
        OBVIOUS
      <4> QED
        BY <4>1, TickedDifference DEF Past, ValueTypes
    <3>3. Past' = (((clock + 1) % Word) - deadline) % Word
      BY <2>1 DEF Past, ValueTypes
    <3> QED
      BY <3>1, <3>2, <3>3
  <2>3. sinceCommit \in Nat /\ lag \in Nat /\ lag + 1 <= MaxLag
    BY <2>1 DEF ValueTypes, RebootBound
  <2> HIDE DEF Past
  <2>4. CASE ~rebootRequest
    BY <2>1, <2>4 DEF RebootInv, ValueTypes
  <2>5. CASE rebootRequest /\ ~pending
    <3>1. sinceCommit <= lag
      BY <2>5 DEF RebootInv
    <3>2. sinceCommit' = sinceCommit + 1
      BY <2>1, <2>3, <2>5, <3>1 DEF LowerOf, RebootBound
    <3> QED
      BY <2>1, <2>3, <2>5, <3>1, <3>2 DEF RebootInv
  <2>6. CASE rebootRequest /\ pending
    <3>1. sinceCommit + 1 <= RebootBound + 1
      BY <2>2, <2>3, <2>6
         DEF RebootInv, DeadlineAhead, DeadlineOver, RebootBound
    <3>2. sinceCommit' = sinceCommit + 1
      BY <2>1, <2>3, <2>6, <3>1 DEF LowerOf, RebootBound
    <3>3. (DeadlineAhead(Past) \/ DeadlineOver(Past))'
      BY <2>1, <2>2, <2>3, <2>6, <3>2
         DEF RebootInv, DeadlineAhead, DeadlineOver
    <3> QED
      BY <2>1, <2>6, <3>3 DEF RebootInv
  <2> QED
    BY <2>4, <2>5, <2>6
<1>8. CASE OtaCommits
  <2>1. /\ ~rebootRequest /\ rebootRequest'
        /\ UNCHANGED <<lag, uploading, place, pending, sinceCommit>>
    BY <1>8 DEF OtaCommits
  <2> QED
    BY <2>1 DEF RebootInv, ValueTypes
<1> QED
  BY <1>1, <1>2, <1>3, <1>4, <1>5, <1>6, <1>7, <1>8 DEF Next, LoopStep

-----------------------------------------------------------------------------
(* The theorems.                                                           *)

LEMMA Initially == Init => UploadsInv
<1> SUFFICES ASSUME Init
             PROVE  UploadsInv
  OBVIOUS
<1> USE RebootAssumption, LagAssumption, IntervalsAssumption
<1> USE DEF Init, NetInit
<1>1. FlagTypes
  BY Zenon DEF FlagTypes
<1>2. ValueTypes
  BY DEF ValueTypes, RebootBound
<1>3. ResultsInv /\ RebootInv
  BY DEF ResultsInv, RebootInv
<1>4. PaceInv
  <2>1. (0 - 0) % Word = 0
    BY Difference
  <2> QED
    BY <2>1 DEF PaceInv, Elapsed, IntervalAfter
<1> QED
  BY <1>1, <1>2, <1>3, <1>4 DEF UploadsInv

LEMMA UploadsStep == UploadsInv /\ [Next]_vars => UploadsInv'
<1> SUFFICES ASSUME UploadsInv, [Next]_vars
             PROVE  UploadsInv'
  OBVIOUS
<1> USE DEF UploadsInv
<1>1. FlagTypes' /\ ValueTypes'
  BY FlagStep, ValueStep
<1> QED
  BY <1>1, ResultsStep, PaceStep, RebootStep

\* The schedule, its history and the reboot keep UploadsInv.
THEOREM UploadsInvariant == Spec => []UploadsInv
BY Initially, UploadsStep, PTL DEF Spec

\* Every variable of the schedule and of the reboot keeps its type.
THEOREM UploadTypes == Spec => []TypeOK
<1>1. UploadsInv => TypeOK
  BY TypesAreTypeOK DEF UploadsInv
<1> QED
  BY <1>1, UploadsInvariant, PTL

\* An upload begins no sooner than the interval of the last result, unless a
\* button was pressed since, however often the clock wrapped.
THEOREM UploadsKeepTheirPace == Spec => UploadsPaced
<1>1. UploadsInv /\ [Next]_vars =>
        [uploading' /\ ~uploading
           => pressed \/ resumed \/ sinceResult >= IntervalAfter(lastResult)]_vars
  <2> SUFFICES ASSUME UploadsInv, Next, uploading', ~uploading,
                      ~pressed, ~resumed
               PROVE  sinceResult >= IntervalAfter(lastResult)
    OBVIOUS
  <2>1. UploadBegins
    BY DEF Next, LoopStep, RebootWaits, Reboot, UpdateRests, UploadEnds,
           RequestManualUpload, TogglePaused, Tick, ReadyChanges, OtaSession,
           OtaCommits
  <2>2. ~manualImmediate /\ currentDelay = IntervalAfter(lastResult)
    BY DEF UploadsInv, PaceInv
  <2>3. Elapsed >= currentDelay
    BY <2>1, <2>2 DEF UploadBegins, IsUploadDue, DelayElapsed, Elapsed
  <2>4. /\ sinceResult \in 0..Word
        /\ sinceResult < Word => Elapsed = sinceResult
    BY DEF UploadsInv, ValueTypes, PaceInv
  <2>5. IntervalAfter(lastResult) \in 0..Word - 1
    BY IntervalsAssumption, RebootAssumption DEF IntervalAfter
  <2> QED
    BY <2>2, <2>3, <2>4, <2>5, IntervalsAssumption
<1> QED
  BY <1>1, UploadsInvariant, PTL DEF Spec, UploadsPaced

\* While paused, or after a rejection no success followed, only a manual
\* request without an answer so far starts an upload.
THEOREM RestsUnlessAsked == Spec => QuietUnlessAsked
<1>1. UploadsInv /\ [Next]_vars =>
        [uploading' /\ ~uploading /\ (paused \/ rejected) => owed]_vars
  <2> SUFFICES ASSUME UploadsInv, Next, uploading', ~uploading,
                      paused \/ rejected
               PROVE  owed
    OBVIOUS
  <2>1. UploadBegins
    BY DEF Next, LoopStep, RebootWaits, Reboot, UpdateRests, UploadEnds,
           RequestManualUpload, TogglePaused, Tick, ReadyChanges, OtaSession,
           OtaCommits
  <2> QED
    BY <2>1, Zenon DEF UploadBegins, IsUploadDue, UploadsInv, ResultsInv
<1> QED
  BY <1>1, UploadsInvariant, PTL DEF Spec, QuietUnlessAsked

\* A committed update is booted no sooner than the delay after its commit, and
\* at most two iterations of the loop later; no upload runs once the reboot is
\* scheduled.
THEOREM RebootsInTime == Spec => RebootInTime
<1> USE RebootAssumption, LagAssumption, IntervalsAssumption
<1>1. UploadsInv /\ UploadsInv' /\ [Next]_vars =>
        [/\ sinceCommit' <= RebootBound
         /\ rebootRequest /\ ~rebootRequest' => sinceCommit >= RebootDelay
         /\ pending => ~uploading']_vars
  <2> SUFFICES ASSUME UploadsInv, UploadsInv', Next
               PROVE  /\ sinceCommit' <= RebootBound
                      /\ rebootRequest /\ ~rebootRequest'
                           => sinceCommit >= RebootDelay
                      /\ pending => ~uploading'
    OBVIOUS
  <2> USE DEF UploadsInv
  <2>1. sinceCommit' <= RebootBound
    <3>1. /\ sinceCommit' \in Nat
          /\ lag' \in 0..MaxLag
      BY DEF ValueTypes, RebootBound
    <3>4. Past' \in 0..Word - 1
      BY DifferenceTypes DEF Past, ValueTypes
    <3>2. CASE ~pending'
      BY <3>1, <3>2 DEF RebootInv, RebootBound
    <3>3. CASE pending'
      <4>1. (DeadlineAhead(Past) \/ DeadlineOver(Past))'
        BY <3>3 DEF RebootInv
      <4>2. CASE DeadlineAhead(Past)'
        <5>1. sinceCommit' + Word <= Past' + RebootDelay + MaxLag
          BY <4>2 DEF DeadlineAhead
        <5> QED
          BY <3>1, <3>4, <5>1, CommitBounded
      <4>3. CASE DeadlineOver(Past)'
        <5>1. /\ Past' <= lag'
              /\ sinceCommit' <= Past' + RebootDelay + MaxLag
          BY <4>3 DEF DeadlineOver
        <5> QED
          BY <3>1, <3>4, <5>1, CommitBounded
      <4> QED
        BY <4>1, <4>2, <4>3
    <3> QED
      BY <3>2, <3>3
  <2>2. ASSUME rebootRequest, ~rebootRequest'
        PROVE  sinceCommit >= RebootDelay
    <3>1. Reboot
      BY <2>2
         DEF Next, LoopStep, RebootWaits, UpdateRests, UploadBegins,
             UploadEnds, RequestManualUpload, TogglePaused, Tick,
             ReadyChanges, OtaSession, OtaCommits, reboot
    <3>2. pending /\ Due
      BY <3>1 DEF Reboot, Due
    <3>3. DeadlineOver(Past)
      BY <3>2, DueWhenOver
    <3>4. Past \in 0..Word - 1 /\ sinceCommit \in Nat
      BY DifferenceTypes DEF Past, ValueTypes, RebootBound
    <3> QED
      BY <3>3, <3>4 DEF DeadlineOver
  <2>3. pending => ~uploading'
    <3>1. ASSUME pending, uploading'
          PROVE  FALSE
      <4>1. ~uploading /\ place = "REBOOT"
        BY <3>1 DEF RebootInv
      <4>2. UploadBegins
        BY <3>1, <4>1
           DEF Next, LoopStep, RebootWaits, Reboot, UpdateRests, UploadEnds,
               RequestManualUpload, TogglePaused, Tick, ReadyChanges,
               OtaSession, OtaCommits
      <4> QED
        BY <4>1, <4>2 DEF UploadBegins
    <3> QED
      BY <3>1
  <2> QED
    BY <2>1, <2>2, <2>3
<1> QED
  BY <1>1, UploadsStep, UploadsInvariant, PTL DEF Spec, RebootInTime
=============================================================================
