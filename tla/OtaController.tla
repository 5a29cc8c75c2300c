---------------------------- MODULE OtaController ----------------------------
(***************************************************************************)
(* ota/LocalOtaController: one OTA session at a time, shared by            *)
(*   - the OTA worker (runWorker), the only caller of the Core;            *)
(*   - the streaming HTTP thread, which calls upload(), apply() and        *)
(*     responseAttempted();                                                *)
(*   - the HTTP listener, which calls cancel(), snapshot(), readyImage();  *)
(*   - the main loop, which calls update() and takeRebootRequest().        *)
(*                                                                         *)
(* An action is one critical section of mutex_, or one call of the Core or *)
(* of the request body, between two of them.  The worker's place between   *)
(* these is wpc; the places of the other threads are in OtaDevice, which   *)
(* composes the operations below.  A semaphore release that follows an     *)
(* unlock is part of the action: the worker may stay asleep for as long as *)
(* it likes, so a later release adds no behaviour.                         *)
(*                                                                         *)
(* uploadCompletion_ is left out: upload() waits on it with a 50 ms        *)
(* timeout and looks at uploadCompleted_ whether or not it was released.   *)
(***************************************************************************)
EXTENDS NetworkMaintenance

CONSTANTS
  GenerationLimit,  \* the largest generation: 2^32 - 1 in the code
  SignalLimit,      \* the count at which the RTOS refuses a release
  Digests,          \* payload digests of the packages a client may send
  NoDigest,         \* the digest of no package
  MaxChunks         \* bound: reads that make up the largest package

ASSUME GenerationLimitAssumption == GenerationLimit \in Nat \ {0, 1}
ASSUME SignalLimitAssumption == SignalLimit \in Nat \ {0}
ASSUME NoDigestAssumption == NoDigest \notin Digests
ASSUME MaxChunksAssumption == MaxChunks \in Nat \ {0}

VARIABLES
  \* members guarded by mutex_
  state, command, generation, networkGeneration, cancelRequested,
  uploadCompleted, rebootPending, uploadBody, packageSize, acceptedBytes,
  staged, lastError,
  applyPending, responseReleased, applyGeneration,  \* queuedApply_
  contexts,         \* applyResponseContexts_
  signal,           \* tokens of commandSignal_
  \* locals of the worker thread
  wpc, wresult, wgeneration, wcomplete, wapply,
  \* the request body that upload() borrowed, and the Core
  body, corePhase, coreImage, bootTable,
  \* history: a cancellation of the current generation was accepted
  cancelAccepted

phaseVars   == <<state, command, lastError, rebootPending>>
cancelVars  == <<cancelRequested, cancelAccepted>>
uploadVars  == <<uploadBody, uploadCompleted>>
sessionVars == <<generation, networkGeneration, packageSize, acceptedBytes,
                 staged>>
queueVars   == <<applyPending, responseReleased, applyGeneration, contexts>>
ctlVars     == <<phaseVars, cancelVars, uploadVars, sessionVars, queueVars,
                 signal>>
workerVars  == <<wpc, wresult, wgeneration, wcomplete, wapply>>
coreVars    == <<corePhase, coreImage, bootTable>>
otaVars     == <<ctlVars, workerVars, coreVars, body, netVars>>

-----------------------------------------------------------------------------
Generations == 0 .. GenerationLimit

NoImage  == [session |-> 0, digest |-> NoDigest]
Images   == [session : Generations, digest : Digests \cup {NoDigest}]
Bodies   == [left : 0 .. MaxChunks, generation : Nat,
             digest : Digests \cup {NoDigest}, connected : BOOLEAN]
NoBody   == [left |-> 0, generation |-> 0, digest |-> NoDigest,
             connected |-> TRUE]

States == {"DISABLED", "IDLE", "WAITING_FOR_NETWORK_LEASE", "RECEIVING",
           "VERIFYING", "READY", "APPLYING", "ERROR", "FATAL"}
Commands == {"NONE", "UPLOAD", "APPLY", "CANCEL"}

\* OTAStagingError: FAILED is any refusal by the Core and a body that timed out
\* or broke, UNCERTAIN is OTA_ERROR_ACTIVATION_UNCERTAIN.
Errors == {"OK", "CANCELLED", "FAILED", "UNCERTAIN"}

WorkerPlaces == {"WAIT", "UPLOAD_CHECK", "APPLY_CHECK", "CANCEL_CHECK",
                 "BEGIN", "READ", "EMPTY_CHECK", "DATA_CHECK", "WRITE",
                 "LAST_CHECK", "VERIFY", "FINISH", "PUBLISH", "ABORT", "FAIL",
                 "RELEASE", "COMPLETE", "CLEAR_APPLY", "VALIDATE", "ACTIVATE",
                 "RECORD"}

\* Mutated: the wrap does not skip 0.
NextGenerationWithZero(g) == IF g = GenerationLimit THEN 0 ELSE g + 1

\* upload(): ++generation_, and once more if that made it 0.
NextGeneration(g) == IF g = GenerationLimit THEN 1 ELSE g + 1

\* begin() numbers the Core's sessions in the same way, apart from the
\* controller's.
NextCoreSession(session) == IF session = GenerationLimit THEN 1 ELSE session + 1

\* Semaphore::release: osErrorResource, and no change, at the limit.
Released(tokens) == IF tokens < SignalLimit THEN tokens + 1 ELSE tokens

-----------------------------------------------------------------------------
ControllerInit ==
  /\ NetInit
  /\ state \in {"DISABLED", "IDLE"}
  /\ command = "NONE"
  /\ generation = 0
  /\ networkGeneration = 0
  /\ cancelRequested = FALSE
  /\ uploadCompleted = FALSE
  /\ rebootPending = FALSE
  /\ uploadBody = FALSE
  /\ packageSize = 0
  /\ acceptedBytes = 0
  /\ staged = NoImage
  /\ lastError = "OK"
  /\ applyPending = FALSE
  /\ responseReleased = FALSE
  /\ applyGeneration = 0
  /\ contexts = [i \in 1..2 |-> [active |-> FALSE, generation |-> 0]]
  /\ signal = 0
  /\ wpc = "WAIT"
  /\ wresult = "OK"
  /\ wgeneration = 0
  /\ wcomplete = FALSE
  /\ wapply = FALSE
  /\ body = NoBody
  /\ corePhase = "IDLE"
  /\ coreImage = NoImage
  /\ bootTable = "NONE"
  /\ cancelAccepted = FALSE

(***************************************************************************)
(* A reset loses all of it.  The boot loader copies a pending image and    *)
(* clears the entry before the application runs again.                     *)
(***************************************************************************)
ControllerReset ==
  /\ NetReset
  /\ state' \in {"DISABLED", "IDLE"}
  /\ command' = "NONE"
  /\ generation' = 0
  /\ networkGeneration' = 0
  /\ cancelRequested' = FALSE
  /\ uploadCompleted' = FALSE
  /\ rebootPending' = FALSE
  /\ uploadBody' = FALSE
  /\ packageSize' = 0
  /\ acceptedBytes' = 0
  /\ staged' = NoImage
  /\ lastError' = "OK"
  /\ applyPending' = FALSE
  /\ responseReleased' = FALSE
  /\ applyGeneration' = 0
  /\ contexts' = [i \in 1..2 |-> [active |-> FALSE, generation |-> 0]]
  /\ signal' = 0
  /\ wpc' = "WAIT"
  /\ wresult' = "OK"
  /\ wgeneration' = 0
  /\ wcomplete' = FALSE
  /\ wapply' = FALSE
  /\ body' = NoBody
  /\ corePhase' = "IDLE"
  /\ coreImage' = NoImage
  /\ bootTable' = "NONE"
  /\ cancelAccepted' = FALSE

-----------------------------------------------------------------------------
(* Entry points called by the HTTP threads and by the main loop.           *)

\* Mutated: a pending reboot does not stop an upload.
UploadAllowedBeforeReboot == state \in {"IDLE", "ERROR"} /\ command = "NONE"

UploadAllowed ==
  /\ state \in {"IDLE", "ERROR"}
  /\ command = "NONE"
  /\ ~rebootPending

\* upload(): the session is reserved and handed to the worker.
UploadAccepted(request) ==
  LET g == NextGeneration(generation) IN
  /\ UploadAllowed
  /\ ReserveOta(g)
  /\ generation' = g
  /\ networkGeneration' = request.generation
  /\ state' = "WAITING_FOR_NETWORK_LEASE"
  /\ packageSize' = request.left
  /\ acceptedBytes' = 0
  /\ uploadBody' = TRUE
  /\ body' = request
  /\ uploadCompleted' = FALSE
  /\ cancelRequested' = FALSE
  /\ command' = "UPLOAD"
  /\ signal' = Released(signal)
  /\ cancelAccepted' = FALSE
  /\ UNCHANGED <<rebootPending, staged, lastError, queueVars, workerVars,
                 coreVars>>

\* upload(): reserveOta() refused.  The two generations have already moved.
UploadNotReserved(request) ==
  LET g == NextGeneration(generation) IN
  /\ UploadAllowed
  /\ ~CanReserveOta(g)
  /\ generation' = g
  /\ networkGeneration' = request.generation
  /\ cancelAccepted' = FALSE
  /\ UNCHANGED <<cancelRequested, packageSize, acceptedBytes, staged, signal,
                 body, netVars, uploadVars, phaseVars, queueVars, workerVars,
                 coreVars>>

CancellationAllowed(g) == generation = g /\ state \notin {"APPLYING", "FATAL"}

\* Mutated: the worker is not woken.
CancellationUnsignalled(g) ==
  /\ CancellationAllowed(g)
  /\ cancelRequested' = TRUE
  /\ command' = "CANCEL"
  /\ cancelAccepted' = TRUE
  /\ UNCHANGED <<state, rebootPending, lastError, signal, body, netVars,
                 uploadVars, sessionVars, queueVars, workerVars, coreVars>>

\* requestCancellationLocked() returned true, and its caller woke the worker.
Cancellation(g) ==
  /\ CancellationAllowed(g)
  /\ cancelRequested' = TRUE
  /\ command' = "CANCEL"
  /\ signal' = Released(signal)
  /\ cancelAccepted' = TRUE
  /\ UNCHANGED <<state, rebootPending, lastError, body, netVars, uploadVars,
                 sessionVars, queueVars, workerVars, coreVars>>

\* Mutated: upload() returns as soon as its cancellation is requested.
UploadReturnedEarly ==
  /\ uploadCompleted \/ cancelRequested
  /\ body' = NoBody
  /\ UNCHANGED <<ctlVars, netVars, workerVars, coreVars>>

\* upload(): the poll after the wait sees uploadCompleted_ and returns.
UploadReturned ==
  /\ uploadCompleted
  /\ body' = NoBody
  /\ UNCHANGED <<ctlVars, netVars, workerVars, coreVars>>

\* upload(): the poll finds its body cancelled.
UploadPollCancels(uploadGeneration) ==
  ~uploadCompleted /\ Cancellation(uploadGeneration)

\* cancel(): IDLE, DISABLED, APPLYING and FATAL are refused.
CancelByClient ==
  /\ state \notin {"IDLE", "DISABLED", "APPLYING", "FATAL"}
  /\ Cancellation(generation)

\* Mutated: a change of address does not concern a session that has its image.
UpdateMustCancelUnlessReady(webGeneration, leaseElapsed) ==
  \/ /\ state \in {"WAITING_FOR_NETWORK_LEASE", "RECEIVING", "VERIFYING"}
     /\ webGeneration # networkGeneration
  \/ state = "WAITING_FOR_NETWORK_LEASE" /\ leaseElapsed

UpdateMustCancel(webGeneration, leaseElapsed) ==
  \/ /\ state \in {"WAITING_FOR_NETWORK_LEASE", "RECEIVING", "VERIFYING",
                   "READY"}
     /\ webGeneration # networkGeneration
  \/ state = "WAITING_FOR_NETWORK_LEASE" /\ leaseElapsed

\* update(): the network session changed, or the lease took too long.
UpdateCancels(webGeneration, leaseElapsed) ==
  UpdateMustCancel(webGeneration, leaseElapsed) /\ Cancellation(generation)

\* Mutated: the grant does not wake the worker.
UpdateGrantsUnsignalled(webGeneration, leaseElapsed) ==
  /\ ~UpdateMustCancel(webGeneration, leaseElapsed)
  /\ state = "WAITING_FOR_NETWORK_LEASE"
  /\ GrantOta(generation)
  /\ state' = "RECEIVING"
  /\ UNCHANGED <<command, rebootPending, lastError, signal, body, cancelVars,
                 uploadVars, sessionVars, queueVars, workerVars, coreVars>>

\* update(): tryGrantOta() returned true.
UpdateGrants(webGeneration, leaseElapsed) ==
  /\ ~UpdateMustCancel(webGeneration, leaseElapsed)
  /\ state = "WAITING_FOR_NETWORK_LEASE"
  /\ GrantOta(generation)
  /\ state' = "RECEIVING"
  /\ signal' = Released(signal)
  /\ UNCHANGED <<command, rebootPending, lastError, body, cancelVars,
                 uploadVars, sessionVars, queueVars, workerVars, coreVars>>

\* update(): nothing to cancel and nothing to grant.
UpdateIdle(webGeneration, leaseElapsed) ==
  /\ ~UpdateMustCancel(webGeneration, leaseElapsed)
  /\ state = "WAITING_FOR_NETWORK_LEASE" => ~CanGrantOta(generation)
  /\ UNCHANGED otaVars

\* readyImage(): the staged image, while it is Ready.
ReadyImage == IF state = "READY" THEN staged ELSE NoImage

FreeContexts == {i \in 1..2 : ~contexts[i].active}

ApplyAllowed(image) ==
  /\ state = "READY"
  /\ command = "NONE"
  /\ staged = image
  /\ FreeContexts # {}

\* Mutated: the answer to an earlier apply counts for this one.
QueueApplyUnreset ==
  /\ applyPending' = TRUE
  /\ applyGeneration' = generation
  /\ UNCHANGED responseReleased

\* Mutated: the generation is that of an earlier apply.
QueueApplyStale ==
  /\ applyPending' = TRUE
  /\ responseReleased' = FALSE
  /\ UNCHANGED applyGeneration

QueueApply ==
  /\ applyPending' = TRUE
  /\ responseReleased' = FALSE
  /\ applyGeneration' = generation

\* apply(): queue the one-shot activation and lend a response context, the
\* first that is free.
ApplyQueued(image, i) ==
  /\ ApplyAllowed(image)
  /\ i \in FreeContexts /\ \A j \in FreeContexts : i <= j
  /\ contexts' = [contexts EXCEPT ![i] = [active |-> TRUE,
                                          generation |-> generation]]
  /\ QueueApply
  /\ command' = "APPLY"
  /\ UNCHANGED <<state, rebootPending, lastError, signal, body, netVars,
                 cancelVars, uploadVars, sessionVars, workerVars, coreVars>>

\* responseAttempted(): free the context, and wake the worker if the apply it
\* belongs to is still the queued one.
ResponseAttempted(i) ==
  /\ contexts[i].active
  /\ contexts' = [contexts EXCEPT ![i].active = FALSE]
  /\ \/ /\ applyPending
        /\ command = "APPLY"
        /\ applyGeneration = contexts[i].generation
        /\ responseReleased' = TRUE
        /\ signal' = Released(signal)
     \/ /\ ~(/\ applyPending
             /\ command = "APPLY"
             /\ applyGeneration = contexts[i].generation)
        /\ UNCHANGED <<responseReleased, signal>>
  /\ UNCHANGED <<applyPending, applyGeneration, body, netVars, cancelVars,
                 uploadVars, phaseVars, sessionVars, workerVars, coreVars>>

-----------------------------------------------------------------------------
(* The worker: runWorker() and what it calls.                              *)

\* cancelled(): also the callback the Core polls.  (shutdown_ is never set on
\* the device.)
Cancelled == cancelRequested

\* Most worker steps change the place and the pending result only.
Goto(place) ==
  /\ wpc' = place
  /\ UNCHANGED <<wgeneration, wcomplete, wapply>>

\* Wait for a token, then read the command.
WorkerWake ==
  /\ wpc = "WAIT"
  /\ signal > 0
  /\ signal' = signal - 1
  /\ wpc' = CASE command = "UPLOAD" -> "UPLOAD_CHECK"
              [] command = "APPLY"  -> "APPLY_CHECK"
              [] command = "CANCEL" -> "CANCEL_CHECK"
              [] OTHER              -> "WAIT"
  /\ UNCHANGED <<wresult, wgeneration, wcomplete, wapply, body, netVars,
                 cancelVars, uploadVars, phaseVars, sessionVars, queueVars,
                 coreVars>>

\* An upload that is not granted yet goes back to waiting.
WorkerUploadCheck ==
  /\ wpc = "UPLOAD_CHECK"
  /\ \/ /\ cancelRequested
        /\ command' = "CANCEL"
        /\ wpc' = "FAIL"
        /\ wresult' = "CANCELLED"
        /\ wcomplete' = TRUE
     \/ /\ ~cancelRequested
        /\ state = "RECEIVING"
        /\ wpc' = "BEGIN"
        /\ wcomplete' = TRUE
        /\ UNCHANGED <<command, wresult>>
     \/ /\ ~cancelRequested
        /\ state # "RECEIVING"
        /\ wpc' = "WAIT"
        /\ UNCHANGED <<command, wresult, wcomplete>>
  /\ UNCHANGED <<state, rebootPending, lastError, signal, wgeneration, wapply,
                 body, netVars, cancelVars, uploadVars, sessionVars, queueVars,
                 coreVars>>

WorkerApplyCheck ==
  /\ wpc = "APPLY_CHECK"
  /\ Goto(IF applyPending /\ responseReleased THEN "VALIDATE" ELSE "WAIT")
  /\ UNCHANGED <<ctlVars, wresult, body, netVars, coreVars>>

\* Mutated: the waiting upload() is not to be told.
WorkerCancelCheckUntold ==
  /\ wpc = "CANCEL_CHECK"
  /\ wpc' = IF state \in {"READY", "RECEIVING", "VERIFYING"}
            THEN "ABORT" ELSE "FAIL"
  /\ wresult' = "CANCELLED"
  /\ wapply' = applyPending
  /\ UNCHANGED <<ctlVars, wgeneration, wcomplete, body, netVars, coreVars>>

WorkerCancelCheck ==
  /\ wpc = "CANCEL_CHECK"
  /\ wpc' = IF state \in {"READY", "RECEIVING", "VERIFYING"}
            THEN "ABORT" ELSE "FAIL"
  /\ wresult' = "CANCELLED"
  /\ wcomplete' = (uploadBody /\ ~uploadCompleted)
  /\ wapply' = applyPending
  /\ UNCHANGED <<ctlVars, wgeneration, body, netVars, coreVars>>

\* A Core call can fail on its own, and reports a cancellation it has polled.
CoreFailures ==
  {e \in {"FAILED", "CANCELLED"} : e = "CANCELLED" => Cancelled}

\* core_.begin(): opens the session unless one is open.
CoreBegin ==
  /\ wpc = "BEGIN"
  /\ \/ /\ corePhase = "IDLE"
        /\ corePhase' = "OPEN"
        /\ coreImage' = [session |-> NextCoreSession(coreImage.session),
                         digest |-> NoDigest]
        /\ Goto("READ")
        /\ UNCHANGED wresult
     \/ /\ wresult' \in CoreFailures
        /\ Goto("ABORT")
        /\ UNCHANGED <<corePhase, coreImage>>
  /\ UNCHANGED <<ctlVars, bootTable, body, netVars>>

\* body->read() returned data: prefetched, buffered, or from a live client.
BodyData(current) ==
  /\ wpc = "READ"
  /\ current
  /\ body.left > 0
  /\ body' = [body EXCEPT !.left = @ - 1]
  /\ Goto("DATA_CHECK")
  /\ UNCHANGED <<wresult, ctlVars, coreVars, netVars>>

\* body->read() waited and returned no data.
BodyEmpty(current) ==
  /\ wpc = "READ"
  /\ current
  /\ body.left > 0
  /\ body.connected
  /\ Goto("EMPTY_CHECK")
  /\ UNCHANGED <<wresult, ctlVars, coreVars, body, netVars>>

\* body->read() ended the loop: cancelled with the network session, complete,
\* disconnected, or broken or timed out with data outstanding.
BodyEnded(current) ==
  /\ wpc = "READ"
  /\ \/ ~current /\ wresult' = "CANCELLED" /\ Goto("ABORT")
     \/ current /\ body.left = 0 /\ Goto("LAST_CHECK") /\ UNCHANGED wresult
     \/ /\ current /\ body.left > 0
        /\ \/ body.connected /\ wresult' = "FAILED"
           \/ ~body.connected /\ wresult' = "CANCELLED"
        /\ Goto("ABORT")
  /\ UNCHANGED <<ctlVars, coreVars, body, netVars>>

\* cancelled() after a read, and once more after the loop.
CancelPoint(here, next) ==
  /\ wpc = here
  /\ \/ Cancelled /\ wresult' = "CANCELLED" /\ Goto("ABORT")
     \/ ~Cancelled /\ Goto(next) /\ UNCHANGED wresult
  /\ UNCHANGED <<ctlVars, body, netVars, coreVars>>

WorkerEmptyCheck == CancelPoint("EMPTY_CHECK", "READ")
WorkerDataCheck  == CancelPoint("DATA_CHECK", "WRITE")
WorkerLastCheck  == CancelPoint("LAST_CHECK", "VERIFY")

\* core_.write() and the count of what it accepted.
CoreWrite ==
  /\ wpc = "WRITE"
  /\ \/ /\ corePhase = "OPEN"
        /\ acceptedBytes' = acceptedBytes + 1
        /\ Goto("READ")
        /\ UNCHANGED wresult
     \/ /\ wresult' \in CoreFailures
        /\ Goto("ABORT")
        /\ UNCHANGED acceptedBytes
  /\ UNCHANGED <<generation, networkGeneration, packageSize, staged, signal,
                 body, netVars, cancelVars, uploadVars, phaseVars, queueVars,
                 coreVars>>

WorkerVerify ==
  /\ wpc = "VERIFY"
  /\ state' = "VERIFYING"
  /\ Goto("FINISH")
  /\ UNCHANGED <<command, rebootPending, lastError, signal, wresult, body,
                 netVars, cancelVars, uploadVars, sessionVars, queueVars,
                 coreVars>>

\* core_.finish(): verifies the package and returns session and digest.
CoreFinish ==
  /\ wpc = "FINISH"
  /\ \/ /\ corePhase = "OPEN"
        /\ corePhase' = "STAGED"
        /\ coreImage' = [coreImage EXCEPT !.digest = body.digest]
        /\ Goto("PUBLISH")
        /\ UNCHANGED wresult
     \/ /\ wresult' \in CoreFailures
        /\ Goto("ABORT")
        /\ UNCHANGED <<corePhase, coreImage>>
  /\ UNCHANGED <<ctlVars, bootTable, body, netVars>>

\* Publish Ready, unless a cancellation came first.
WorkerPublish ==
  /\ wpc = "PUBLISH"
  /\ \/ /\ ~cancelRequested
        /\ state = "VERIFYING"
        /\ staged' = coreImage
        /\ state' = "READY"
        /\ lastError' = "OK"
        /\ command' = "NONE"
        /\ uploadBody' = FALSE
        /\ uploadCompleted' = TRUE
        /\ wpc' = "WAIT"
        /\ wcomplete' = FALSE
        /\ UNCHANGED wresult
     \/ /\ cancelRequested \/ state # "VERIFYING"
        /\ wresult' = "CANCELLED"
        /\ wpc' = "ABORT"
        /\ UNCHANGED <<staged, state, lastError, command, wcomplete,
                       uploadVars>>
  /\ UNCHANGED <<generation, networkGeneration, packageSize, acceptedBytes,
                 rebootPending, signal, wgeneration, wapply, body, netVars,
                 cancelVars, queueVars, coreVars>>

\* core_.abort(): gives the session and its package up.
CoreAbort ==
  /\ wpc = "ABORT"
  /\ corePhase' = "IDLE"
  /\ coreImage' = [coreImage EXCEPT !.digest = NoDigest]
  /\ Goto("FAIL")
  /\ UNCHANGED <<ctlVars, wresult, bootTable, body, netVars>>

\* fail(): the critical section.  The lease is released after it.
WorkerFail ==
  /\ wpc = "FAIL"
  /\ state' = IF wresult = "CANCELLED" THEN "IDLE" ELSE "ERROR"
  /\ lastError' = wresult
  /\ command' = "NONE"
  /\ cancelRequested' = FALSE
  /\ uploadBody' = FALSE
  /\ applyPending' = FALSE
  /\ wgeneration' = generation
  /\ wpc' = "RELEASE"
  /\ UNCHANGED <<uploadCompleted, rebootPending, responseReleased,
                 applyGeneration, contexts, signal, cancelAccepted, wresult,
                 wcomplete, wapply, body, sessionVars, coreVars>>
  /\ UNCHANGED netVars

\* releaseLease() with the generation read under the lock.
WorkerRelease ==
  /\ wpc = "RELEASE"
  /\ ReleaseOta(wgeneration)
  /\ wpc' = IF wcomplete THEN "COMPLETE"
            ELSE IF wapply THEN "CLEAR_APPLY" ELSE "WAIT"
  /\ wgeneration' = 0
  /\ wresult' = "OK"
  /\ UNCHANGED <<ctlVars, wcomplete, wapply, body, coreVars>>

\* Tell upload() that its session is over.
WorkerComplete ==
  /\ wpc = "COMPLETE"
  /\ uploadCompleted' = TRUE
  /\ wcomplete' = FALSE
  /\ wpc' = IF wapply THEN "CLEAR_APPLY" ELSE "WAIT"
  /\ UNCHANGED <<uploadBody, signal, wresult, wgeneration, wapply, body,
                 netVars, cancelVars, phaseVars, sessionVars, queueVars,
                 coreVars>>

WorkerClearApply ==
  /\ wpc = "CLEAR_APPLY"
  /\ applyPending' = FALSE
  /\ wapply' = FALSE
  /\ wpc' = "WAIT"
  /\ UNCHANGED <<responseReleased, applyGeneration, contexts, signal, wresult,
                 wgeneration, wcomplete, body, netVars, cancelVars, uploadVars,
                 phaseVars, sessionVars, coreVars>>

\* Mutated: a cancellation since the queueing is not looked at.
QueuedApplyValidUncancelled ==
  /\ applyPending
  /\ responseReleased
  /\ state = "READY"
  /\ applyGeneration = generation

QueuedApplyValid ==
  /\ applyPending
  /\ responseReleased
  /\ state = "READY"
  /\ ~cancelRequested
  /\ applyGeneration = generation

\* processApply(): the last look before the activation is claimed.
WorkerValidate ==
  /\ wpc = "VALIDATE"
  /\ applyPending' = FALSE
  /\ \/ /\ QueuedApplyValid
        /\ state' = "APPLYING"
        /\ wpc' = "ACTIVATE"
        /\ wgeneration' = generation
        /\ UNCHANGED <<command, wresult>>
     \/ /\ ~QueuedApplyValid
        /\ command' = "CANCEL"
        /\ wresult' = "CANCELLED"
        /\ wpc' = "ABORT"
        /\ UNCHANGED <<state, wgeneration>>
  /\ UNCHANGED <<rebootPending, lastError, responseReleased, applyGeneration,
                 contexts, signal, wcomplete, wapply, body, netVars,
                 cancelVars, uploadVars, sessionVars, coreVars>>

\* Mutated: a rejected activation does not restore the boot table.
CoreActivateUnrestored ==
  /\ wpc = "ACTIVATE"
  /\ \/ /\ corePhase = "STAGED"
        /\ coreImage = staged
        /\ wresult' = "OK"
     \/ wresult' \in {"FAILED", "UNCERTAIN"}
  /\ bootTable' = "PENDING"
  /\ corePhase' = "IDLE"
  /\ Goto("RECORD")
  /\ UNCHANGED <<ctlVars, coreImage, body, netVars>>

\* core_.activate(): writes the boot table.  A failure restores it; nobody
\* knows what an uncertain one leaves behind.
CoreActivate ==
  /\ wpc = "ACTIVATE"
  /\ \/ /\ corePhase = "STAGED"
        /\ coreImage = staged
        /\ wresult' = "OK"
        /\ bootTable' = "PENDING"
     \/ wresult' = "FAILED" /\ bootTable' = "NONE"
     \/ wresult' = "UNCERTAIN" /\ bootTable' \in {"NONE", "PENDING"}
  /\ corePhase' = "IDLE"
  /\ Goto("RECORD")
  /\ UNCHANGED <<ctlVars, coreImage, body, netVars>>

\* processApply(): record what became of the activation.
WorkerRecord ==
  /\ wpc = "RECORD"
  /\ lastError' = wresult
  /\ command' = "NONE"
  /\ \/ wresult = "OK" /\ state' = "IDLE" /\ rebootPending' = TRUE
     \/ wresult = "UNCERTAIN" /\ state' = "FATAL" /\ UNCHANGED rebootPending
     \/ /\ wresult \notin {"OK", "UNCERTAIN"}
        /\ state' = "ERROR"
        /\ UNCHANGED rebootPending
  /\ wpc' = IF wresult = "UNCERTAIN" THEN "WAIT" ELSE "RELEASE"
  /\ wgeneration' = IF wresult = "UNCERTAIN" THEN 0 ELSE wgeneration
  /\ wresult' = "OK"
  /\ UNCHANGED <<signal, wcomplete, wapply, body, netVars, cancelVars,
                 uploadVars, sessionVars, queueVars, coreVars>>

-----------------------------------------------------------------------------
ControllerTypeOK ==
  /\ state \in States
  /\ command \in Commands
  /\ generation \in Generations
  /\ networkGeneration \in Nat
  /\ cancelRequested \in BOOLEAN
  /\ uploadCompleted \in BOOLEAN
  /\ rebootPending \in BOOLEAN
  /\ uploadBody \in BOOLEAN
  /\ packageSize \in 0 .. MaxChunks
  /\ acceptedBytes \in Nat
  /\ staged \in Images
  /\ lastError \in Errors
  /\ applyPending \in BOOLEAN
  /\ responseReleased \in BOOLEAN
  /\ applyGeneration \in Generations
  /\ contexts \in [1 .. 2 -> [active : BOOLEAN, generation : Generations]]
  /\ signal \in 0 .. SignalLimit
  /\ cancelAccepted \in BOOLEAN

WorkerTypeOK ==
  /\ wpc \in WorkerPlaces
  /\ wresult \in Errors
  /\ wgeneration \in Generations
  /\ wcomplete \in BOOLEAN
  /\ wapply \in BOOLEAN
  /\ body \in Bodies
  /\ corePhase \in {"IDLE", "OPEN", "STAGED"}
  /\ coreImage \in Images
  /\ bootTable \in {"NONE", "PENDING"}
=============================================================================
