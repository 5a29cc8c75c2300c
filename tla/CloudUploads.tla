---------------------------- MODULE CloudUploads ----------------------------
(***************************************************************************)
(* cloud/UploadScheduler, cloud/CloudUploadController and                  *)
(* ota/OtaRebootCoordinator over the coordinator of NetworkMaintenance:    *)
(* the main loop handles the buttons, looks for the reboot an OTA commit   *)
(* asked for, then update() starts an upload if one is due and may use the *)
(* network.                                                                *)
(*                                                                         *)
(* The upload blocks the loop, so its end is an action of its own; the     *)
(* clock, the prerequisites (Wi-Fi and time) and the OTA sessions, which   *)
(* here come and go freely until one commits, change meanwhile.  millis()  *)
(* is clock, which wraps at Word.  The uploader is configured.             *)
(***************************************************************************)
EXTENDS NetworkMaintenance, Integers

CONSTANTS
  Word,            \* millis() counts modulo Word (2^32 on the device)
  UploadInterval,  \* uploadIntervalMs_
  RetryInterval,   \* retryIntervalMs_
  RebootDelay,     \* delayMs_ of the reboot coordinator
  MaxLag,          \* bound: ticks one iteration of loop() may take
  Codes            \* HTTP statuses the server may answer, 0 for none

ASSUME IntervalsAssumption ==
  Word \in Nat /\ {UploadInterval, RetryInterval} \subseteq 1..Word - 1
\* The reboot coordinator compares by the sign of the difference: the delay and
\* an iteration of the loop are to be less than half the clock (24 days).
ASSUME RebootAssumption == RebootDelay \in Nat \ {0} /\ 2 * RebootDelay <= Word
ASSUME LagAssumption == MaxLag \in Nat /\ 2 * MaxLag < Word
ASSUME CodesAssumption == Codes \subseteq Nat

VARIABLES
  clock, lag,
  ready,                    \* Wi-Fi is connected and the time synchronized
  uploading,                \* the loop is inside TelemetryUploader::upload()
  lastAttempt, currentDelay, paused, suppressed, manualRequested,
  manualImmediate,
  place,                    \* where loop() is: "REBOOT" or "CLOUD"
  rebootRequest,            \* the OTA controller's rebootPending_
  pending, deadline,        \* OtaRebootCoordinator
  \* history
  sinceCommit,              \* ticks since the request, at most RebootBound
  lastResult,               \* what the documentation calls the last upload
  sinceResult,              \* ticks since then, at most Word
  pressed, resumed,         \* a manual request, a resume since then
  rejected,                 \* no success since the last rejection
  owed                      \* a manual request without an answer so far

scheduler == <<lastAttempt, currentDelay, paused, suppressed,
               manualRequested, manualImmediate>>
history == <<lastResult, sinceResult, pressed, resumed, rejected, owed>>
reboot == <<rebootRequest, pending, deadline, sinceCommit>>
vars == <<clock, lag, ready, uploading, scheduler, place, reboot, history,
          netVars>>

(***************************************************************************)
(* What an upload meets: the length of the payload, or one of the error    *)
(* codes of buildPayload(), and the HTTP status of the answer, 0 for none. *)
(***************************************************************************)
SensorError == -1
FormatError == -2
Lengths == {1, 0, FormatError, SensorError}

\* isRetryableStatus()
IsRetryableStatus(code) ==
  code \in {408, 422, 425, 429} \/ code \in 500..599

\* CloudTelemetry::handleResponse()
HandleResponse(code) ==
  CASE code = 0 -> "NETWORK_ERROR"
    [] code = 201 -> "SUCCESS"
    [] code # 0 /\ IsRetryableStatus(code) -> "HTTP_RETRYABLE"
    [] OTHER -> "HTTP_REJECTED"

\* TelemetryUploader::upload()
Upload(length, code) ==
  CASE length = SensorError -> "SENSOR_UNAVAILABLE"
    [] length # SensorError /\ length <= 0 -> "PAYLOAD_INVALID"
    [] OTHER -> HandleResponse(code)

\* scheduleResultFor()
ScheduleResultFor(status) ==
  CASE status = "SUCCESS" -> "SUCCEEDED"
    [] status \in {"SENSOR_UNAVAILABLE", "NETWORK_ERROR", "HTTP_RETRYABLE"}
         -> "RETRYABLE"
    [] OTHER -> "NON_RETRYABLE"

\* The same by the table of the documentation (firmware-design.md, 10.1 and
\* 10.3), for the history.
DocumentedResult(length, code) ==
  CASE length > 0 /\ code = 201 -> "SUCCEEDED"
    [] \/ length = SensorError
       \/ length > 0 /\ code \in {0, 408, 422, 425, 429} \cup 500..599
         -> "RETRYABLE"
    [] OTHER -> "NON_RETRYABLE"

Init ==
  /\ NetInit
  /\ clock = 0 /\ lag = 0
  /\ ready = FALSE /\ uploading = FALSE
  /\ lastAttempt = 0 /\ currentDelay = 0
  /\ paused = FALSE /\ suppressed = FALSE
  /\ manualRequested = FALSE /\ manualImmediate = FALSE
  /\ place = "REBOOT" /\ rebootRequest = FALSE
  /\ pending = FALSE /\ deadline = 0 /\ sinceCommit = 0
  /\ lastResult = "NONE" /\ sinceResult = 0
  /\ pressed = FALSE /\ resumed = FALSE /\ rejected = FALSE /\ owed = FALSE

-----------------------------------------------------------------------------
(* The environment.                                                        *)

LowerOf(a, b) == IF a <= b THEN a ELSE b

\* A commit waits for the loop, the delay, and the loop again.
RebootBound == RebootDelay + 2 * MaxLag

Tick ==
  /\ lag < MaxLag
  /\ lag' = lag + 1
  /\ clock' = (clock + 1) % Word
  /\ sinceResult' = LowerOf(sinceResult + 1, Word)
  /\ sinceCommit' = IF rebootRequest
                       THEN LowerOf(sinceCommit + 1, RebootBound + 1) ELSE 0
  /\ UNCHANGED <<ready, uploading, scheduler, place, rebootRequest, pending,
                 deadline, lastResult, pressed, resumed, rejected, owed,
                 netVars>>

ReadyChanges ==
  /\ ~uploading
  /\ ready' = ~ready
  /\ UNCHANGED <<clock, lag, uploading, scheduler, place, reboot, history,
                 netVars>>

\* A committed session gives its lease back; uploads are refused from then
\* on.
OtaSession ==
  /\ \/ ~rebootRequest /\ ReserveOta(1)
     \/ GrantOta(1)
     \/ otaReserved /\ ReleaseOta(1)
  /\ UNCHANGED <<clock, lag, ready, uploading, scheduler, place, reboot,
                 history>>

OtaCommits ==
  /\ otaLeased /\ ~rebootRequest
  /\ rebootRequest' = TRUE
  /\ UNCHANGED <<clock, lag, ready, uploading, scheduler, place, pending,
                 deadline, sinceCommit, history, netVars>>

-----------------------------------------------------------------------------
(* The buttons.                                                            *)

RequestManualUpload ==
  /\ ~uploading /\ place = "REBOOT"
  /\ manualRequested' = TRUE
  /\ manualImmediate' = TRUE
  /\ pressed' = TRUE
  /\ owed' = TRUE
  /\ UNCHANGED <<clock, lag, ready, uploading, lastAttempt, currentDelay,
                 paused, suppressed, place, reboot, lastResult, sinceResult,
                 resumed, rejected, netVars>>

\* Mutated: pausing clears the delay, too.
DelayAfterToggleAnyway == currentDelay' = 0

\* Only resuming clears the delay.
DelayAfterToggle ==
  currentDelay' = IF paused THEN 0 ELSE currentDelay

TogglePaused ==
  /\ ~uploading /\ place = "REBOOT"
  /\ paused' = ~paused
  /\ DelayAfterToggle
  /\ resumed' = (resumed \/ paused)
  /\ UNCHANGED <<clock, lag, ready, uploading, lastAttempt, suppressed,
                 manualRequested, manualImmediate, place, reboot, lastResult,
                 sinceResult, pressed, rejected, owed, netVars>>

-----------------------------------------------------------------------------
(* The reboot in loop().                                                   *)

\* Mutated: the deadline is compared as it is.
DueUnsigned == pending /\ clock >= deadline

\* due(): the difference as a signed number is not negative.
Due == pending /\ 2 * ((clock - deadline) % Word) < Word

\* Mutated: the request, which stays, puts the deadline off again.
ScheduleAgain ==
  /\ pending' = TRUE
  /\ deadline' = (clock + RebootDelay) % Word

\* schedule()
Schedule ==
  /\ pending' = TRUE
  /\ deadline' = IF pending THEN deadline ELSE (clock + RebootDelay) % Word

\* Mutated: the coordinator's lease is trusted to keep uploads out.
CloudAllowedAnyway == TRUE

\* cloudAllowed(), after Schedule.
CloudAllowed == ~pending'

\* takeRebootRequest(), which does not clear it; the delay is not over.
RebootWaits ==
  /\ place = "REBOOT"
  /\ ~Due
  /\ \/ rebootRequest /\ Schedule
     \/ ~rebootRequest /\ UNCHANGED <<pending, deadline>>
  /\ place' = IF CloudAllowed THEN "CLOUD" ELSE "REBOOT"
  /\ lag' = 0
  /\ UNCHANGED <<clock, ready, uploading, scheduler, rebootRequest,
                 sinceCommit, history, netVars>>

\* NVIC_SystemReset()
Reboot ==
  /\ place = "REBOOT"
  /\ Due
  /\ NetReset
  /\ clock' = 0 /\ lag' = 0
  /\ ready' = FALSE /\ uploading' = FALSE
  /\ lastAttempt' = 0 /\ currentDelay' = 0
  /\ paused' = FALSE /\ suppressed' = FALSE
  /\ manualRequested' = FALSE /\ manualImmediate' = FALSE
  /\ place' = "REBOOT" /\ rebootRequest' = FALSE
  /\ pending' = FALSE /\ deadline' = 0 /\ sinceCommit' = 0
  /\ lastResult' = "NONE" /\ sinceResult' = 0
  /\ pressed' = FALSE /\ resumed' = FALSE /\ rejected' = FALSE /\ owed' = FALSE

-----------------------------------------------------------------------------
(* CloudUploadController::update().                                        *)

\* Mutated: a clock that wrapped is taken for an early one.
DelayElapsedUnwrapped == clock - lastAttempt >= currentDelay

DelayElapsed == (clock - lastAttempt) % Word >= currentDelay

\* Mutated: a paused schedule keeps manual requests waiting.
IsUploadDueUnpaused ==
  /\ ~paused
  /\ \/ manualRequested /\ (manualImmediate \/ DelayElapsed)
     \/ ~suppressed /\ DelayElapsed

IsUploadDue ==
  \/ manualRequested /\ (manualImmediate \/ DelayElapsed)
  \/ ~paused /\ ~suppressed /\ DelayElapsed

\* Nothing is due, or the network is not to be used.
UpdateRests ==
  /\ place = "CLOUD" /\ ~uploading
  /\ ~(ready /\ IsUploadDue /\ CanBeginCloud)
  /\ place' = "REBOOT"
  /\ UNCHANGED <<clock, lag, ready, uploading, scheduler, reboot, history,
                 netVars>>

UploadBegins ==
  /\ place = "CLOUD" /\ ~uploading
  /\ ready
  /\ IsUploadDue
  /\ BeginCloud
  /\ uploading' = TRUE
  /\ UNCHANGED <<clock, lag, ready, scheduler, place, reboot, history>>

\* Mutated: a manual request survives its rejection.
RecordResultKeepsRequest(result) ==
  /\ lastAttempt' = clock
  /\ manualImmediate' = FALSE
  /\ currentDelay' = IF result = "RETRYABLE" THEN RetryInterval
                                             ELSE UploadInterval
  /\ suppressed' = IF result = "RETRYABLE" THEN suppressed
                                           ELSE result = "NON_RETRYABLE"
  /\ UNCHANGED manualRequested

\* Mutated: the delays of failures in a row add up.
RecordResultAddsUp(result) ==
  /\ lastAttempt' = clock
  /\ manualImmediate' = FALSE
  /\ \/ /\ result = "RETRYABLE"
        /\ currentDelay' = currentDelay + RetryInterval
        /\ UNCHANGED <<manualRequested, suppressed>>
     \/ /\ result # "RETRYABLE"
        /\ currentDelay' = UploadInterval
        /\ manualRequested' = FALSE
        /\ suppressed' = (result = "NON_RETRYABLE")

\* recordResult()
RecordResult(result) ==
  /\ lastAttempt' = clock
  /\ manualImmediate' = FALSE
  /\ \/ /\ result = "RETRYABLE"
        /\ currentDelay' = RetryInterval
        /\ UNCHANGED <<manualRequested, suppressed>>
     \/ /\ result # "RETRYABLE"
        /\ currentDelay' = UploadInterval
        /\ manualRequested' = FALSE
        /\ suppressed' = (result = "NON_RETRYABLE")

\* upload() returns: the lease goes back, the clock is read again.
UploadEnds ==
  /\ uploading
  /\ uploading' = FALSE
  /\ place' = "REBOOT"
  /\ EndCloud
  /\ \E length \in Lengths, code \in Codes :
       LET documented == DocumentedResult(length, code) IN
       /\ RecordResult(ScheduleResultFor(Upload(length, code)))
       /\ lastResult' = documented
       /\ rejected' = (documented = "NON_RETRYABLE"
                       \/ (rejected /\ documented = "RETRYABLE"))
       /\ owed' = (owed /\ documented = "RETRYABLE")
  /\ sinceResult' = 0
  /\ pressed' = FALSE
  /\ resumed' = FALSE
  /\ UNCHANGED <<clock, lag, ready, paused, reboot>>

-----------------------------------------------------------------------------
LoopStep ==
  RebootWaits \/ Reboot \/ UpdateRests \/ UploadBegins \/ UploadEnds

Next ==
  \/ LoopStep
  \/ RequestManualUpload
  \/ TogglePaused
  \/ Tick
  \/ ReadyChanges
  \/ OtaSession
  \/ OtaCommits

Spec == Init /\ [][Next]_vars

(***************************************************************************)
(* The loop keeps running, an upload ends by its own timeouts, time        *)
(* passes; an upload that may begin again and again does.                  *)
(***************************************************************************)
FairSpec == Spec /\ WF_vars(LoopStep) /\ WF_vars(Tick) /\ SF_vars(UploadBegins)

-----------------------------------------------------------------------------
(* Properties.                                                             *)

\* Every variable keeps its type.
TypeOK ==
  /\ NetTypeOK
  /\ {clock, lastAttempt} \subseteq 0..Word - 1
  /\ lag \in 0..MaxLag
  /\ {ready, uploading, paused, suppressed, manualRequested, manualImmediate,
      rebootRequest, pending, pressed, resumed, rejected, owed}
       \subseteq BOOLEAN
  /\ place \in {"REBOOT", "CLOUD"}
  /\ deadline \in 0..Word - 1
  /\ sinceCommit \in 0..RebootBound + 1
  /\ currentDelay \in {0, RetryInterval, UploadInterval}
  /\ lastResult \in {"NONE", "SUCCEEDED", "RETRYABLE", "NON_RETRYABLE"}
  /\ sinceResult \in 0..Word

\* The interval the documentation gives for a result (firmware-design.md,
\* 10.1).
IntervalAfter(result) ==
  CASE result = "NONE" -> 0
    [] result = "RETRYABLE" -> RetryInterval
    [] OTHER -> UploadInterval

\* Across every wrap of the clock, an upload begins no sooner than the
\* interval of the last result after it was recorded, unless a button was
\* pressed since (recordResult(), togglePaused()).
UploadsPaced ==
  [][uploading' /\ ~uploading
       => pressed \/ resumed \/ sinceResult >= IntervalAfter(lastResult)]_vars

\* While paused, or after a rejection that no success followed, only a manual
\* request that was not answered yet starts an upload; neither resuming nor
\* a failure that may be retried lifts the suppression (isUploadDue(),
\* recordResult()).
QuietUnlessAsked ==
  [][uploading' /\ ~uploading /\ (paused \/ rejected) => owed]_vars

\* A manual request is attempted, paused or not and whatever becomes of the
\* clock meanwhile, if the loop finds the network free again and again; a
\* request whose attempt may be retried is retried, if the network stays
\* usable.  Only a reboot forgets it (isUploadDue(), recordResult()).
ManualAttempted ==
  /\ []<>(place = "CLOUD" /\ ready /\ CanBeginCloud)
       => (pressed ~> uploading \/ ~pressed)
  /\ <>[](ready /\ ~otaReserved) => (owed ~> uploading \/ ~owed)

\* While nothing stands in its way, the schedule keeps uploading.
ScheduleGoesOn ==
  <>[](ready /\ ~otaReserved /\ ~rebootRequest /\ ~paused /\ ~rejected)
    => []<>uploading

\* A committed update is booted no sooner than the delay after its commit,
\* so that its answer can be read, and at the latest when the loop has come
\* around twice more, whatever the clock does; the request is polled in each
\* iteration and must not put the deadline off.  In between at most the upload
\* the loop was about to begin runs, though the lease is free again
\* (OtaRebootCoordinator, loop(), executeApply()).
RebootInTime ==
  [][/\ sinceCommit' <= RebootBound
     /\ rebootRequest /\ ~rebootRequest' => sinceCommit >= RebootDelay
     /\ pending => ~uploading']_vars
=============================================================================
