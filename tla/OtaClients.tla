------------------------------ MODULE OtaClients ------------------------------
(***************************************************************************)
(* The OTA command line (tools/ota/ota_cli.py) and the OTA page of the     *)
(* device against the session protocol that OtaDevice implements: each     *)
(* uploads a package, later asks for its activation, and then polls the    *)
(* version until the device runs another firmware.                         *)
(*                                                                         *)
(* The device's steps are those of OtaSession, to which this adds what a   *)
(* client can name: packages, staging generations, the running version.    *)
(* Requests are handled late, or after their client gave up; answers are   *)
(* lost; the board may be reset at any point and counts its generations    *)
(* anew.  A digest is that of one package, so the package stands for it.   *)
(***************************************************************************)
EXTENDS Integers

CONSTANTS
  Clients,
  Pages,            \* the clients that are a browser's OTA page
  NoClient,
  Gone,             \* stands for a client that gave its request up
  MaxVersion,       \* versions are 0..MaxVersion, the board comes with 0
  Builds,           \* builds of the same version
  GenerationLimit   \* staging generations count from 1 and wrap here

ASSUME ClientsAssumption ==
  /\ Pages \subseteq Clients
  /\ {NoClient, Gone} \cap Clients = {}
  /\ NoClient # Gone
ASSUME VersionAssumption == MaxVersion \in Nat /\ GenerationLimit \in Nat \ {0}

VARIABLES
  phase, cancelled, pending, cloud,  \* of OtaSession
  running,     \* AppConfig::OTA_FIRMWARE_VERSION of the firmware that runs
  generation,  \* the Core's last staging generation, 0 after a reset
  package,     \* what the last session staged, or is about to
  slot,        \* whose upload the streaming worker answers
  asked,       \* whose package the accepted apply is to activate
  client,      \* what each client is doing
  applies      \* apply requests on their way

Session == INSTANCE OtaSession

sessionVars == <<phase, cancelled, pending, cloud>>
deviceVars == <<running, generation, package>>
vars == <<sessionVars, deviceVars, slot, asked, client, applies>>

Versions == 0 .. MaxVersion
Packages == [version : 1 .. MaxVersion, build : Builds]
NoPackage == [version |-> 0, build |-> "none"]
Images == [generation : 0 .. GenerationLimit, digest : Packages \cup {NoPackage}]
NoImage == [generation |-> 0, digest |-> NoPackage]

Busy == {"UPLOADING", "CHECKING", "APPLYING", "POLLING"}
Idle == [pc |-> "IDLE", wanted |-> NoPackage, image |-> NoImage, old |-> 0]

Init ==
  /\ Session!Init
  /\ running = 0
  /\ generation = 0
  /\ package = NoPackage
  /\ slot = NoClient
  /\ asked = NoPackage
  /\ client = [c \in Clients |-> Idle]
  /\ applies = {}

-----------------------------------------------------------------------------
(* The device.                                                             *)

\* Mutated: a package of the running version is let in.
AdmitsAgain(p) == p.version >= running

\* Mutated: any version is let in.
AdmitsAny(p) == p.version >= 0

\* metadataAllowed(): only a newer version is let in.
Admits(p) == p.version > running

\* readyImage(), and what a status response shows without one.
ReadyImage ==
  IF phase = "Ready" THEN [generation |-> generation, digest |-> package]
                     ELSE NoImage

\* One streaming request at a time, from its hand-over to its answer.
SlotFree == slot = NoClient

\* POST /api/ota: the session is reserved.
UploadAccepted(c) ==
  /\ client[c].pc = "UPLOADING"
  /\ SlotFree
  /\ Session!Reserve
  /\ slot' = c
  /\ package' = client[c].wanted
  /\ asked' = NoPackage
  /\ UNCHANGED <<running, generation, client, applies>>

\* Mutated: the count runs on.
NextGenerationUnwrapped == generation + 1

NextGeneration == IF generation = GenerationLimit THEN 1 ELSE generation + 1

\* The lease is granted and the Core begins to stage.
Granted ==
  /\ Session!Grant
  /\ generation' = NextGeneration
  /\ UNCHANGED <<running, package, slot, asked, client, applies>>

Staged ==
  /\ Session!Stage
  /\ Admits(package)
  /\ UNCHANGED <<deviceVars, slot, asked, client, applies>>

\* The command line wants the digest of its own package; the page takes the
\* answer as it is.
Uploaded(c, image) ==
  IF c \in Pages \/ image.digest = client[c].wanted
    THEN [client[c] EXCEPT !.pc = "UPLOADED", !.image = image]
    ELSE Idle

\* upload() has returned; the 201 names the image that is Ready now.
UploadReplied ==
  /\ slot # NoClient
  /\ phase \notin {"Waiting", "Transfer"}
  /\ slot' = NoClient
  /\ client' = IF slot = Gone THEN client
                 ELSE [client EXCEPT ![slot] = Uploaded(slot, ReadyImage)]
  /\ UNCHANGED <<sessionVars, deviceVars, asked, applies>>

\* Mutated: the digest is not compared.
StagedMatchesGeneration(image) == phase = "Ready" /\ image.generation = generation

StagedMatches(image) == phase = "Ready" /\ image = ReadyImage

\* POST /api/ota/apply answered 202.  (409 and 503 change nothing.)
ApplyQueued(r) ==
  /\ SlotFree
  /\ StagedMatches(r.image)
  /\ ~cancelled
  /\ asked = NoPackage
  /\ asked' = r.wanted
  /\ applies' = applies \ {r}
  /\ client' = IF r.client = Gone THEN client
                 ELSE [client EXCEPT ![r.client].pc = "POLLING"]
  /\ UNCHANGED <<sessionVars, deviceVars, slot>>

\* The worker activates only what an apply was queued for.
Claimed ==
  /\ asked # NoPackage
  /\ Session!Claim
  /\ UNCHANGED <<deviceVars, slot, asked, client, applies>>

\* Cancellations by DELETE, timeouts, changes of address; failed transfers;
\* the activation and its end.
SessionMoves ==
  /\ \/ Session!Cancel
     \/ Session!Close
     \/ Session!WriteBootTable
     \/ Session!Activated
     \/ Session!Release
  /\ UNCHANGED <<deviceVars, slot, asked, client, applies>>

\* A reboot or a power loss; the boot loader copies a pending image, or finds
\* it broken.  Connections end; one that is still being set up goes on.
Restarted ==
  /\ Session!Reset
  /\ running' \in {running} \cup (IF pending THEN {package.version} ELSE {})
  /\ generation' = 0
  /\ package' = NoPackage
  /\ slot' = NoClient
  /\ asked' = NoPackage
  /\ client' = [c \in Clients |-> IF slot = c THEN Idle ELSE client[c]]
  /\ applies' = {r \in applies : r.client # Gone}

-----------------------------------------------------------------------------
(* The clients.                                                            *)

\* _command_upload(), upload() of the page.
UploadStarts(c) ==
  /\ client[c].pc = "IDLE"
  /\ \E p \in Packages :
       client' = [client EXCEPT ![c] = [Idle EXCEPT !.pc = "UPLOADING",
                                                    !.wanted = p]]
  /\ UNCHANGED <<sessionVars, deviceVars, slot, asked, applies>>

\* _command_apply(), apply() of the page, which reads the version first.
ApplyStarts(c) ==
  /\ client[c].pc = "UPLOADED"
  /\ client' = [client EXCEPT ![c].pc = "CHECKING", ![c].old = running]
  /\ UNCHANGED <<sessionVars, deviceVars, slot, asked, applies>>

\* The status response names the image of the upload, and for the command line
\* is Ready, too: POST /api/ota/apply is on its way.
StatusChecked(c) ==
  /\ client[c].pc = "CHECKING"
  /\ ReadyImage = client[c].image
  /\ phase = "Ready" \/ c \in Pages
  /\ client' = [client EXCEPT ![c].pc = "APPLYING"]
  /\ applies' = applies \cup
       {[client |-> c, image |-> client[c].image, wanted |-> client[c].wanted]}
  /\ UNCHANGED <<sessionVars, deviceVars, slot, asked>>

\* GET /api/version shows the package's version, or for the page another one
\* than before: "apply accepted", "Firmware ...".
Confirmed(c) ==
  /\ client[c].pc = "POLLING"
  /\ IF c \in Pages THEN running # client[c].old
                    ELSE running = client[c].wanted.version
  /\ client' = [client EXCEPT ![c] = Idle]
  /\ UNCHANGED <<sessionVars, deviceVars, slot, asked, applies>>

\* A refusal, an answer that is not to come or comes too late, the deadline
\* of the polling, the user: the request may be handled all the same.  The
\* generation and digest of an upload can be used again.
GivesUp(c) ==
  /\ client[c].pc # "IDLE"
  /\ \/ client' = [client EXCEPT ![c] = Idle]
     \/ /\ client[c].pc \in Busy \ {"UPLOADING"}
        /\ client' = [client EXCEPT ![c].pc = "UPLOADED", ![c].old = 0]
  /\ slot' = IF slot = c THEN Gone ELSE slot
  /\ applies' = {[r EXCEPT !.client = IF @ = c THEN Gone ELSE @] : r \in applies}
  /\ UNCHANGED <<sessionVars, deviceVars, asked>>

\* An abandoned request never reaches the device, or is refused.
RequestDropped(r) ==
  /\ r.client = Gone
  /\ applies' = applies \ {r}
  /\ UNCHANGED <<sessionVars, deviceVars, slot, asked, client>>

-----------------------------------------------------------------------------
Next ==
  \/ \E c \in Clients :
       \/ UploadAccepted(c)
       \/ UploadStarts(c)
       \/ ApplyStarts(c)
       \/ StatusChecked(c)
       \/ Confirmed(c)
       \/ GivesUp(c)
  \/ \E r \in applies : ApplyQueued(r) \/ RequestDropped(r)
  \/ Granted
  \/ Staged
  \/ UploadReplied
  \/ Claimed
  \/ SessionMoves
  \/ Restarted

Spec == Init /\ [][Next]_vars

-----------------------------------------------------------------------------
(* Properties.                                                             *)

\* Every variable keeps its type.
TypeOK ==
  /\ Session!TypeOK
  /\ running \in Versions
  /\ generation \in 0 .. GenerationLimit
  /\ {package, asked} \subseteq Packages \cup {NoPackage}
  /\ slot \in Clients \cup {NoClient, Gone}
  /\ client \in [Clients -> [pc : Busy \cup {"IDLE", "UPLOADED"},
                             wanted : Packages \cup {NoPackage},
                             image : Images, old : Versions]]
  /\ applies \subseteq [client : Clients \cup {Gone}, image : Images,
                        wanted : Packages]

\* The boot table is only ever written with the package that the client whose
\* apply was accepted had uploaded itself, although generations are reused
\* after a reset, another client may have staged since, and the page takes the
\* generation and digest from the answer without a look at its own file
\* (handle() of the streaming route, apply(), _command_apply()).
BootsOwnUpload == [][pending' /\ ~pending => package = asked]_vars

\* A client that reports success does so of a firmware that was booted after
\* its apply began and not of the one that ran before, whatever answers were
\* lost and whoever else updated the device (_verify_rebooted_version(),
\* check() of the page).
ConfirmedWasBooted ==
  [][\A c \in Clients : Confirmed(c) => client[c].old < running]_vars

\* The running version never goes back, whatever was staged before another
\* update came first (metadataAllowed()).
NoDowngrade == [][running' >= running]_vars
=============================================================================
