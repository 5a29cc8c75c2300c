------------------------------ MODULE OtaDevice ------------------------------
(***************************************************************************)
(* The threads of the firmware around the OTA controller:                  *)
(*   - the main loop (AZ3166.ino loop()): network maintenance, the         *)
(*     controller's update(), the reboot, the synchronous cloud upload;    *)
(*   - the one streaming thread of LocalWebServer, which runs              *)
(*     LocalOtaHttpHandler for uploads and applies;                        *)
(*   - the listener thread, which runs it for status and cancellation;     *)
(*   - the OTA worker of OtaController;                                    *)
(* and a reset of the board, by NVIC_SystemReset, the watchdog or a power  *)
(* cut, at any moment.                                                     *)
(***************************************************************************)
EXTENDS OtaController

CONSTANTS
  MaxWebGeneration,  \* bound: changes of the local address per boot
  StatusPolls        \* bound: whether the listener is asked for the status

ASSUME MaxWebGenerationAssumption == MaxWebGeneration \in Nat
ASSUME StatusPollsAssumption == StatusPolls \in BOOLEAN

VARIABLES
  mpc,              \* the main loop's place
  webGeneration,    \* LocalWebServer's address generation
  rebootScheduled,  \* OtaRebootCoordinator::pending_
  spc,              \* the streaming thread's place
  uploadGeneration, \* upload()'s local
  ask,              \* the image an apply request names
  contextHeld,      \* the response context lent to it, 0 if none
  reply,            \* the image a 201 names
  lpc,              \* the listener's place
  seen              \* does a status response say Ready, and its image

mainVars     == <<mpc, webGeneration, rebootScheduled>>
streamVars   == <<spc, uploadGeneration, ask, contextHeld, reply>>
listenerVars == <<lpc, seen>>
vars == <<otaVars, mainVars, streamVars, listenerVars>>

Views       == [ready : BOOLEAN, image : Images]
NothingSeen == [ready |-> FALSE, image |-> NoImage]

Init ==
  /\ ControllerInit
  /\ mpc = "NETWORK"
  /\ webGeneration = 0
  /\ rebootScheduled = FALSE
  /\ spc = "IDLE"
  /\ uploadGeneration = 0
  /\ ask = NoImage
  /\ contextHeld = 0
  /\ reply = NoImage
  /\ lpc = "IDLE"
  /\ seen = NothingSeen

\* setup() runs again with nothing but the Flash left.
Restart ==
  /\ ControllerReset
  /\ mpc' = "NETWORK"
  /\ webGeneration' = 0
  /\ rebootScheduled' = FALSE
  /\ spc' = "IDLE"
  /\ uploadGeneration' = 0
  /\ ask' = NoImage
  /\ contextHeld' = 0
  /\ reply' = NoImage
  /\ lpc' = "IDLE"
  /\ seen' = NothingSeen

-----------------------------------------------------------------------------
(* The main loop.                                                          *)

\* connectivity.update() and localWebServer.update(): a new address starts a
\* new web generation.
MainNetwork ==
  /\ mpc = "NETWORK"
  /\ mpc' = "OTA"
  /\ \/ UNCHANGED webGeneration
     \/ /\ webGeneration < MaxWebGeneration
        /\ webGeneration' = webGeneration + 1
  /\ UNCHANGED <<otaVars, rebootScheduled, streamVars, listenerVars>>

\* otaController.update().  Whether leaseDeadline_ (10 s) has passed is left
\* open: millis() is not modelled here.
MainUpdate ==
  /\ mpc = "OTA"
  /\ mpc' = "REBOOT"
  /\ \E leaseElapsed \in BOOLEAN :
       \/ UpdateCancels(webGeneration, leaseElapsed)
       \/ UpdateGrants(webGeneration, leaseElapsed)
       \/ UpdateIdle(webGeneration, leaseElapsed)
  /\ UNCHANGED <<webGeneration, rebootScheduled, streamVars, listenerVars>>

\* takeRebootRequest() and schedule(); due() says no: the 250 ms are not over.
MainReboot ==
  /\ mpc = "REBOOT"
  /\ rebootScheduled' = (rebootScheduled \/ rebootPending)
  /\ mpc' = "CLOUD"
  /\ UNCHANGED <<otaVars, webGeneration, streamVars, listenerVars>>

\* due() says yes, from a pass that finds the reboot scheduled:
\* NVIC_SystemReset.
SystemReset ==
  /\ mpc = "REBOOT"
  /\ rebootScheduled
  /\ Restart

\* cloudUploads.update(): an upload is due, and the coordinator allows it.
MainCloudBegin ==
  /\ mpc = "CLOUD"
  /\ ~rebootScheduled
  /\ BeginCloud
  /\ mpc' = "UPLOADING"
  /\ UNCHANGED <<ctlVars, workerVars, coreVars, body, webGeneration,
                 rebootScheduled, streamVars, listenerVars>>

\* No upload is due, or a reboot is pending, or the coordinator refused.
MainCloudSkip ==
  /\ mpc = "CLOUD"
  /\ mpc' = "NETWORK"
  /\ UNCHANGED <<otaVars, webGeneration, rebootScheduled, streamVars,
                 listenerVars>>

MainCloudEnd ==
  /\ mpc = "UPLOADING"
  /\ EndCloud
  /\ mpc' = "NETWORK"
  /\ UNCHANGED <<ctlVars, workerVars, coreVars, body, webGeneration,
                 rebootScheduled, streamVars, listenerVars>>

-----------------------------------------------------------------------------
(* The streaming thread: one request at a time, from runStreaming() by way *)
(* of LocalOtaHttpHandler::handle() to the response attempt.               *)

\* A request belongs to a web generation that was current when it was parsed.
Requests == [left : 1 .. MaxChunks, generation : 0 .. webGeneration,
             digest : Digests, connected : {TRUE}]

BodyCurrent == body.generation = webGeneration

\* POST /api/ota is taken by upload(), which now polls.
StreamUpload ==
  /\ spc = "IDLE"
  /\ \E request \in Requests : UploadAccepted(request)
  /\ spc' = "UPLOAD"
  /\ uploadGeneration' = generation'
  /\ UNCHANGED <<mpc, webGeneration, rebootScheduled, ask,
                 contextHeld, reply, listenerVars>>

\* The client of the upload goes away with data outstanding.  upload() polls
\* the network session of its body, not its connection.
ClientDisconnects ==
  /\ spc = "UPLOAD"
  /\ body.connected
  /\ body.left > 0
  /\ body' = [body EXCEPT !.connected = FALSE]
  /\ UNCHANGED <<ctlVars, workerVars, coreVars, netVars, mainVars, streamVars,
                 listenerVars>>

\* upload() returned false at once, for want of the reservation: 409 or 422.
StreamUploadRefused ==
  /\ spc = "IDLE"
  /\ \E request \in Requests : UploadNotReserved(request)
  /\ UNCHANGED <<mainVars, streamVars, listenerVars>>

StreamPollCancels ==
  /\ spc = "UPLOAD"
  /\ ~BodyCurrent
  /\ UploadPollCancels(uploadGeneration)
  /\ UNCHANGED <<mainVars, streamVars, listenerVars>>

\* upload() returns whether the image is Ready; a 201 has yet to be written.
StreamUploadReturns ==
  /\ spc = "UPLOAD"
  /\ UploadReturned
  /\ spc' = IF state = "READY" THEN "CREATED" ELSE "IDLE"
  /\ uploadGeneration' = 0
  /\ UNCHANGED <<mainVars, ask, contextHeld, reply, listenerVars>>

\* The handler asks for the image again, to name it in the 201.
StreamNameImage ==
  /\ spc = "CREATED"
  /\ reply' = ReadyImage
  /\ spc' = "REPLY"
  /\ UNCHANGED <<otaVars, mainVars, uploadGeneration, ask, contextHeld,
                 listenerVars>>

StreamReplied ==
  /\ spc = "REPLY"
  /\ reply' = NoImage
  /\ spc' = "IDLE"
  /\ UNCHANGED <<otaVars, mainVars, uploadGeneration, ask, contextHeld,
                 listenerVars>>

\* POST /api/ota/apply: the handler compares the request with readyImage();
\* any other image is answered 409 and changes nothing.
StreamApplyRequest ==
  /\ spc = "IDLE"
  /\ ReadyImage # NoImage
  /\ ask' = ReadyImage
  /\ spc' = "APPLY"
  /\ UNCHANGED <<otaVars, mainVars, uploadGeneration, contextHeld, reply,
                 listenerVars>>

\* apply() queues the activation: 202.
StreamApplyQueued ==
  /\ spc = "APPLY"
  /\ \E i \in 1..2 : ApplyQueued(ask, i) /\ contextHeld' = i
  /\ ask' = NoImage
  /\ spc' = "RESPOND"
  /\ UNCHANGED <<mainVars, uploadGeneration, reply, listenerVars>>

\* apply() refuses what is no longer Ready: 409.
StreamApplyRefused ==
  /\ spc = "APPLY"
  /\ ~ApplyAllowed(ask)
  /\ ask' = NoImage
  /\ spc' = "IDLE"
  /\ UNCHANGED <<otaVars, mainVars, uploadGeneration, contextHeld, reply,
                 listenerVars>>

\* The 202 was sent or could not be: afterAttempt runs either way.
StreamResponseAttempted ==
  /\ spc = "RESPOND"
  /\ ResponseAttempted(contextHeld)
  /\ contextHeld' = 0
  /\ spc' = "IDLE"
  /\ UNCHANGED <<mainVars, uploadGeneration, ask, reply, listenerVars>>

-----------------------------------------------------------------------------
(* The listener thread.                                                    *)

\* DELETE /api/ota answered 202.  (409 changes nothing.)
ListenerCancel ==
  /\ lpc = "IDLE"
  /\ CancelByClient
  /\ UNCHANGED <<mainVars, streamVars, listenerVars>>

\* GET /api/ota/status: snapshot(), then readyImage(), then the response.
ListenerSnapshot ==
  /\ lpc = "IDLE"
  /\ StatusPolls
  /\ seen' = [seen EXCEPT !.ready = (state = "READY")]
  /\ lpc' = "SNAPSHOT"
  /\ UNCHANGED <<otaVars, mainVars, streamVars>>

ListenerReadyImage ==
  /\ lpc = "SNAPSHOT"
  /\ seen' = [seen EXCEPT !.image = ReadyImage]
  /\ lpc' = "REPLY"
  /\ UNCHANGED <<otaVars, mainVars, streamVars>>

ListenerReplied ==
  /\ lpc = "REPLY"
  /\ seen' = NothingSeen
  /\ lpc' = "IDLE"
  /\ UNCHANGED <<otaVars, mainVars, streamVars>>

-----------------------------------------------------------------------------
MainStep ==
  \/ MainNetwork
  \/ MainUpdate
  \/ MainReboot
  \/ SystemReset
  \/ MainCloudBegin
  \/ MainCloudSkip
  \/ MainCloudEnd

StreamStep ==
  \/ StreamPollCancels
  \/ StreamUploadReturns
  \/ StreamNameImage
  \/ StreamReplied
  \/ StreamApplyQueued
  \/ StreamApplyRefused
  \/ StreamResponseAttempted

ClientRequest ==
  \/ StreamUpload
  \/ StreamUploadRefused
  \/ StreamApplyRequest
  \/ ClientDisconnects
  \/ ListenerCancel
  \/ ListenerSnapshot

ListenerStep == ListenerReadyImage \/ ListenerReplied

WorkerStep ==
  /\ \/ WorkerWake
     \/ WorkerUploadCheck
     \/ WorkerApplyCheck
     \/ WorkerCancelCheck
     \/ CoreBegin
     \/ BodyData(BodyCurrent)
     \/ BodyEmpty(BodyCurrent)
     \/ BodyEnded(BodyCurrent)
     \/ WorkerEmptyCheck
     \/ WorkerDataCheck
     \/ CoreWrite
     \/ WorkerLastCheck
     \/ WorkerVerify
     \/ CoreFinish
     \/ WorkerPublish
     \/ CoreAbort
     \/ WorkerFail
     \/ WorkerRelease
     \/ WorkerComplete
     \/ WorkerClearApply
     \/ WorkerValidate
     \/ CoreActivate
     \/ WorkerRecord
  /\ UNCHANGED <<mainVars, streamVars, listenerVars>>

\* A watchdog reset or a power cut.
PowerLoss == Restart

Next ==
  \/ MainStep
  \/ StreamStep
  \/ ClientRequest
  \/ ListenerStep
  \/ WorkerStep
  \/ PowerLoss

Spec == Init /\ [][Next]_vars

(***************************************************************************)
(* The threads run at one priority under a preemptive round-robin RTOS and *)
(* the clock advances: each keeps taking steps while it has one.  A body   *)
(* read cannot come back empty for ever, because of its idle and total     *)
(* timeouts; that fairness is strong, for the worker leaves the read       *)
(* between two attempts.  Nothing below rests on the listener, whose       *)
(* fairness is left out, nor on the reboot, whose 250 ms may last: no      *)
(* client, no change of address and no reset has to come.                  *)
(***************************************************************************)
Fairness ==
  /\ WF_vars(MainStep)
  /\ WF_vars(StreamStep)
  /\ WF_vars(WorkerStep)
  /\ SF_vars(/\ BodyData(BodyCurrent) \/ BodyEnded(BodyCurrent)
             /\ UNCHANGED <<mainVars, streamVars, listenerVars>>)

FairSpec == Spec /\ Fairness

-----------------------------------------------------------------------------
(* Properties.                                                             *)

DeviceTypeOK ==
  /\ mpc \in {"NETWORK", "OTA", "REBOOT", "CLOUD", "UPLOADING"}
  /\ webGeneration \in 0 .. MaxWebGeneration
  /\ rebootScheduled \in BOOLEAN
  /\ spc \in {"IDLE", "UPLOAD", "CREATED", "REPLY", "APPLY", "RESPOND"}
  /\ uploadGeneration \in Generations
  /\ ask \in Images
  /\ contextHeld \in 0 .. 2
  /\ reply \in Images
  /\ lpc \in {"IDLE", "SNAPSHOT", "REPLY"}
  /\ seen \in Views

SessionStates == {"WAITING_FOR_NETWORK_LEASE", "RECEIVING", "VERIFYING",
                  "READY", "APPLYING"}

VariablesTyped ==
  /\ NetTypeOK
  /\ ControllerTypeOK
  /\ WorkerTypeOK
  /\ DeviceTypeOK

\* 0 is the generation of no session: the coordinator refuses to reserve for
\* it, and the counter is 0 before the first upload of a boot and never again.
ZeroIsNoSession ==
  /\ state \in SessionStates \cup {"FATAL"} => generation # 0
  /\ otaReserved => otaGeneration # 0
  /\ generation = 0 => packageSize = 0

\* Every variable has its type: the generations stay within 32 bits, no live
\* session or reservation has generation 0, and the counter does not come back
\* to 0 when it wraps (the coordinator would refuse that upload).
TypeOK == VariablesTyped /\ ZeroIsNoSession

\* The Core has an open or staged session only under a granted lease of the
\* current generation and never beside a cloud upload: begin() waits for the
\* grant, and every way out aborts the Core before it releases the lease.
CoreUnderLease ==
  corePhase # "IDLE" =>
    /\ otaLeased
    /\ otaGeneration = generation
    /\ state \in SessionStates
    /\ ~cloudInFlight

\* The lease belongs to a live session or to FATAL, or the worker is about to
\* release exactly that reservation: no order of failing, cancelling and
\* reserving again leaks it or releases a newer one.
LeaseAccounted ==
  /\ state \in SessionStates \cup {"FATAL"} =>
       otaReserved /\ otaGeneration = generation
  /\ otaReserved /\ state \notin SessionStates \cup {"FATAL"} =>
       wpc = "RELEASE" /\ wgeneration = otaGeneration

\* An accepted cancellation (DELETE answered 202, a network change seen by
\* the main loop, a cancelled body) wins over the queued apply: the image of
\* that session is never claimed for activation, then or later.
CancellationWins ==
  cancelAccepted =>
    state \notin {"APPLYING", "FATAL"} /\ ~rebootPending /\ bootTable = "NONE"

\* The Core is asked to activate only the image it still holds, the one that
\* was published as Ready, after the response to the apply was attempted and
\* no context of it is still out.
ActivatesAcknowledgedImage ==
  wpc = "ACTIVATE" =>
    /\ state = "APPLYING"
    /\ corePhase = "STAGED"
    /\ coreImage = staged
    /\ staged.digest \in Digests
    /\ \A i \in 1 .. 2 : ~contexts[i].active

BodyPlaces == {"BEGIN", "READ", "EMPTY_CHECK", "DATA_CHECK", "WRITE",
               "LAST_CHECK", "VERIFY"}

\* The worker uses the body, an object on the streaming thread's stack, only
\* while upload() is still inside its wait and cannot return.
BorrowedBodyAlive ==
  wpc \in BodyPlaces =>
    /\ spc = "UPLOAD"
    /\ uploadBody
    /\ ~uploadCompleted
    /\ uploadGeneration = generation

\* A Ready image is the whole package, held by the Core (but for the moment
\* between its abort and fail()) and error-free; an Error has a cause that is
\* neither success nor cancellation.
PublishedOutcome ==
  /\ state = "READY" /\ wpc # "FAIL" =>
       /\ corePhase = "STAGED"
       /\ coreImage = staged
       /\ acceptedBytes = packageSize
       /\ lastError = "OK"
  /\ state = "ERROR" => lastError \notin {"OK", "CANCELLED"}

\* After a committed activation nothing touches the pending update until the
\* reset: no session starts, and the boot entry stays.
CommitHolds ==
  rebootPending =>
    /\ state = "IDLE"
    /\ bootTable = "PENDING"
    /\ corePhase = "IDLE"
    /\ otaReserved => wpc = "RELEASE"

\* No lost wake-up: a worker asleep has a token for whatever it has to do, in
\* spite of the tokens that stale signals consumed.
NoLostWakeup ==
  wpc = "WAIT" /\ signal = 0 =>
    /\ command # "CANCEL"
    /\ ~(command = "UPLOAD" /\ state # "WAITING_FOR_NETWORK_LEASE")
    /\ ~(command = "APPLY" /\ responseReleased)

\* A boot entry is written only by the activation of a claimed, uncancelled
\* image, and while its session still has the lease: no late release of another
\* session has let the cloud in.  (A reset clears the entry: the boot loader,
\* which is not modelled, has used it.)
NoPendingUpdateWithoutApply ==
  [][bootTable' = "PENDING" /\ bootTable = "NONE" =>
       state = "APPLYING" /\ ~cancelAccepted /\ otaLeased]_vars

\* FATAL is final, with the lease held against cloud and OTA alike, until the
\* board is reset (after which no generation has been issued).
FatalIsFinal ==
  [][state = "FATAL" /\ generation' # 0 =>
       state' = "FATAL" /\ otaReserved' /\ generation' = generation]_vars

\* The README of the OTA component says that Ready status responses, and the
\* response to a successful upload, include the image's generation and digest.
RepliesNameReadyImage ==
  /\ spc = "REPLY" => reply # NoImage
  /\ lpc = "REPLY" /\ seen.ready => seen.image # NoImage

\* The design says that a disconnect while waiting for the lease cancels the
\* reservation: no grant goes to a body whose client has left.
DisconnectWhileWaitingCancels ==
  [][state = "WAITING_FOR_NETWORK_LEASE" /\ state' = "RECEIVING" =>
       body.connected]_vars

-----------------------------------------------------------------------------
(* Refinement of OtaSession.                                               *)

SessionPhase ==
  CASE state = "WAITING_FOR_NETWORK_LEASE"  -> "Waiting"
    [] state \in {"RECEIVING", "VERIFYING"} -> "Transfer"
    [] state = "READY"                      -> "Ready"
    [] state = "APPLYING"                   -> "Activating"
    [] state = "FATAL"                      -> "Lockout"
    [] OTHER -> IF otaReserved THEN "Closing" ELSE "Free"

SessionCancelled == cancelAccepted /\ SessionPhase \in {"Waiting", "Transfer",
                                                       "Ready"}

Session == INSTANCE OtaSession
             WITH phase     <- SessionPhase,
                  cancelled <- SessionCancelled,
                  pending   <- bootTable = "PENDING",
                  cloud     <- cloudInFlight

\* The device implements the session protocol of OtaSession.
ImplementsSession == Session!Spec

-----------------------------------------------------------------------------
(* Liveness, under Fairness.                                               *)

\* upload() returns: the streaming thread is never stuck in its wait.
UploadReturns == spc = "UPLOAD" ~> spc # "UPLOAD"

\* A queued apply is decided, one way or the other.
ApplyDecided == command = "APPLY" ~> command # "APPLY"

\* The lease comes back to the cloud, whoever wins of grant, deadline, client
\* and change of address, unless the activation was uncertain or a Ready image
\* waits for an operator: one that nobody has cancelled and that was uploaded
\* to the address of the moment.  An accepted cancellation thus ends its
\* session, and so does a change of address, whatever the session is about.
LeaseReturns ==
  otaReserved ~>
    \/ ~otaReserved
    \/ state = "FATAL"
    \/ /\ state = "READY"
       /\ ~cancelAccepted
       /\ networkGeneration = webGeneration

=============================================================================
