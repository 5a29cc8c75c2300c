---------------------------- MODULE OtaInvariants ----------------------------
(***************************************************************************)
(* The inductive invariant behind the safety properties of OtaDevice: what *)
(* each place of the worker knows of the shared state, in spite of what    *)
(* the other threads may do between two critical sections.                 *)
(***************************************************************************)
EXTENDS OtaDevice

LiveStates == {"WAITING_FOR_NETWORK_LEASE", "RECEIVING", "VERIFYING", "READY"}
HeldStates == SessionStates \cup {"FATAL"}
TransferPlaces == BodyPlaces \cup {"FINISH", "PUBLISH"}
RestingPlaces == {"WAIT", "RELEASE", "COMPLETE", "CLEAR_APPLY"}

\* The coordinator: who holds it, and that cloud and OTA exclude each other.
CoordinatorInv ==
  /\ cloudInFlight <=> mpc = "UPLOADING"
  /\ otaLeased => otaReserved /\ ~cloudInFlight
  /\ otaReserved => otaGeneration # 0
  /\ state \in HeldStates \ {"WAITING_FOR_NETWORK_LEASE"} => otaLeased

\* The generation the worker is about to release: that of the reservation, or
\* of no session at all.
ReleaseInv ==
  wpc = "RELEASE" =>
    /\ state \in HeldStates => generation # wgeneration
    /\ ~otaReserved => generation = wgeneration

\* The states that go with the worker's places.
PlaceInv ==
  /\ wpc \in BodyPlaces => state = "RECEIVING"
  /\ wpc \in {"FINISH", "PUBLISH"} => state = "VERIFYING"
  /\ wpc = "VALIDATE" => state = "READY"
  /\ wpc = "ABORT" => state \in {"RECEIVING", "VERIFYING", "READY"}
  /\ wpc = "FAIL" => state \notin {"APPLYING", "FATAL"}
  /\ wpc = "CANCEL_CHECK" => command = "CANCEL"
  /\ wpc = "FAIL" /\ state \in {"DISABLED", "IDLE", "ERROR"} =>
       command = "CANCEL"
  /\ state = "VERIFYING" => wpc \in {"FINISH", "PUBLISH", "ABORT", "FAIL"}
  /\ state = "APPLYING" <=> wpc \in {"ACTIVATE", "RECORD"}
  /\ state = "APPLYING" => wgeneration = generation
  /\ state = "FATAL" => wpc = "WAIT" /\ command = "NONE"

\* What the Core holds, and that nobody is asleep over an open session with an
\* upload to do.
CoreInv ==
  /\ corePhase # "IDLE" =>
       state \in {"RECEIVING", "VERIFYING", "READY", "APPLYING"}
  /\ corePhase # "IDLE" /\ command = "UPLOAD" =>
       wpc \in TransferPlaces \cup {"ABORT"}
  /\ wpc \in {"UPLOAD_CHECK", "FAIL", "RECORD"} => corePhase = "IDLE"

\* A cancellation of a live session is still requested; a waiting or Ready
\* session ends only by one; a queued apply is that of the Ready image.
CancelInv ==
  /\ state \in LiveStates => (cancelAccepted <=> cancelRequested)
  /\ state \in LiveStates /\ command = "CANCEL" => cancelAccepted
  /\ state \in {"WAITING_FOR_NETWORK_LEASE", "READY"}
       /\ wpc \in {"ABORT", "FAIL"} => cancelAccepted
  /\ applyPending => state = "READY" /\ applyGeneration = generation
  /\ applyPending => command \in {"APPLY", "CANCEL"}
  /\ wpc = "VALIDATE" => applyPending /\ responseReleased

\* What the activation leaves in the boot table, and the state after it.
CommitInv ==
  /\ bootTable = "PENDING" =>
       rebootPending \/ wpc = "RECORD" \/ state = "FATAL"
  /\ wpc = "RECORD" =>
       /\ wresult \in {"OK", "FAILED", "UNCERTAIN"}
       /\ wresult = "OK" => bootTable = "PENDING"
       /\ wresult = "FAILED" => bootTable = "NONE"
  /\ rebootPending =>
       /\ state = "IDLE"
       /\ command = "NONE"
       /\ bootTable = "PENDING"
       /\ wpc \in RestingPlaces
  /\ rebootPending \/ state \in {"READY", "APPLYING", "FATAL"} =>
       uploadCompleted
  /\ cancelAccepted => state \notin {"APPLYING", "FATAL"} /\ ~rebootPending

\* upload(): while it waits, its session is alive or the worker is about to
\* tell it the end.
BorrowInv ==
  /\ uploadBody <=> state \in {"WAITING_FOR_NETWORK_LEASE", "RECEIVING",
                               "VERIFYING"}
  /\ uploadBody => spc = "UPLOAD" /\ ~uploadCompleted
  /\ uploadBody /\ wpc \in TransferPlaces \cup {"ABORT", "FAIL"} => wcomplete
  /\ spc = "UPLOAD" => uploadGeneration = generation
  /\ wcomplete => spc = "UPLOAD" /\ ~uploadCompleted
  /\ wpc = "COMPLETE" => wcomplete
  /\ wcomplete /\ wpc \in RestingPlaces \ {"WAIT"} =>
       state \in {"DISABLED", "IDLE", "ERROR"}
  /\ wcomplete => wpc \notin {"WAIT", "UPLOAD_CHECK", "APPLY_CHECK",
                              "CLEAR_APPLY", "VALIDATE", "ACTIVATE", "RECORD"}

\* The bytes of the package: read and not accepted, accepted, or to come; and
\* the image they end in.  There is none before the first generation.
PackageInv ==
  /\ generation = 0 => packageSize = 0
  /\ uploadBody => body.digest \in Digests
  /\ uploadBody /\ wpc \notin TransferPlaces \cup {"ABORT", "FAIL"} =>
       acceptedBytes = 0 /\ body.left = packageSize
  /\ wpc \in {"BEGIN", "READ", "EMPTY_CHECK"} =>
       acceptedBytes + body.left = packageSize
  /\ wpc \in {"DATA_CHECK", "WRITE"} =>
       acceptedBytes + body.left + 1 = packageSize
  /\ wpc \in {"LAST_CHECK", "VERIFY", "FINISH", "PUBLISH"} =>
       acceptedBytes = packageSize
  /\ wpc = "PUBLISH" => corePhase = "STAGED" /\ coreImage.digest \in Digests
  /\ wpc = "ACTIVATE" => corePhase = "STAGED" /\ coreImage = staged
  /\ state \in {"READY", "APPLYING"} => staged.digest \in Digests
  /\ state = "ERROR" => lastError \notin {"OK", "CANCELLED"}
  /\ wpc \in {"ABORT", "FAIL"} => wresult # "OK"

\* A response context is out only while its response is being attempted, and
\* the apply is not released before.
ContextInv ==
  /\ \A i \in 1 .. 2 : contexts[i].active => spc = "RESPOND" /\ contextHeld = i
  /\ spc = "RESPOND" => ~responseReleased
  /\ wpc = "ACTIVATE" => spc # "RESPOND"

\* A worker that will come back to its wait has a token for what it has not
\* read yet.
WakeInv ==
  /\ command = "CANCEL" /\ wpc \in RestingPlaces \cup {"UPLOAD_CHECK",
                                                       "APPLY_CHECK"} =>
       signal > 0
  /\ command = "UPLOAD" =>
       state \in {"WAITING_FOR_NETWORK_LEASE", "RECEIVING", "VERIFYING"}
  /\ command = "UPLOAD" /\ state # "WAITING_FOR_NETWORK_LEASE"
       /\ wpc \in RestingPlaces => signal > 0
  /\ wpc = "UPLOAD_CHECK" => command \in {"UPLOAD", "CANCEL"}
  /\ wpc = "UPLOAD_CHECK" =>
       state \in {"WAITING_FOR_NETWORK_LEASE", "RECEIVING"}
  /\ command = "APPLY" => state \in {"READY", "APPLYING"}
  /\ command = "APPLY" /\ state = "READY" => applyPending
  /\ command = "APPLY" /\ responseReleased /\ wpc \in RestingPlaces =>
       signal > 0
  /\ state = "READY" => wpc \notin {"RELEASE", "COMPLETE", "CLEAR_APPLY"}
  /\ wpc = "APPLY_CHECK" => command \in {"APPLY", "CANCEL"}

\* Inductive: every part needs the others.
SafetyInv ==
  /\ CoordinatorInv
  /\ LeaseAccounted
  /\ ReleaseInv
  /\ PlaceInv
  /\ CoreInv
  /\ CancelInv
  /\ CommitInv
  /\ BorrowInv
  /\ PackageInv
  /\ PublishedOutcome
  /\ ContextInv
  /\ WakeInv
=============================================================================
