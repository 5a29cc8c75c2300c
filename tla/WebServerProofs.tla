--------------------------- MODULE WebServerProofs ---------------------------
(***************************************************************************)
(* The web server and its discovery, for every set of addresses and        *)
(* descriptors, any number of address changes, with and without a          *)
(* shutdown: who owns a client's socket, who has the streaming slot, what  *)
(* state() shows and what the responder announces.                         *)
(*                                                                         *)
(* The argument.  No two of the properties are about the same state, but   *)
(* each needs to know what a thread's place implies while the others go    *)
(* on: which generation the listener serves and that its address cannot    *)
(* be another's (GenerationInv); that the responder is silent wherever the *)
(* listening socket may be opened or closed (AnnounceInv); and which       *)
(* thread holds a client at which places (SocketInv).                      *)
(***************************************************************************)
EXTENDS WebServer, TLAPS

FlagTypes ==
  /\ {shutdown, listening, workerStarted, workerAttempted, streamStarted,
      streamAttempted, lattempted} \subseteq BOOLEAN
  /\ {jobPending, jobActive, jobCancelled, sshutdown} \subseteq BOOLEAN
  /\ {discoveryAttempted, discoveryRunning, sessionOwned, starting,
      mdnsStarted, responderRunning} \subseteq BOOLEAN

ListenerPlaces ==
  {"OFF", "TOP", "WITHDRAW", "RESET", "OPEN", "PUBLISH", "CHECK",
   "ANNOUNCE", "STARTING", "UNAVAILABLE", "ACCEPT", "FAILED",
   "FAILED_CLOSE", "FAILED_PUBLISH", "READ", "SERVE", "TRANSFER",
   "HAND_OVER", "RESPOND", "FINISH", "FINISH_CLOSE", "ENDED"}
StreamPlaces ==
  {"OFF", "TOP", "TAKE", "CHECK_STATE", "CHECK_JOB", "HANDLE", "FREE",
   "CLOSE", "ENDED"}

Generations == 0 .. MaxGeneration
LocalAddresses == Addresses \cup {0}
Sockets == Descriptors \cup {0}

ValueTypes ==
  /\ mpc \in {"IDLE", "START_STREAM", "START_WORKER", "CANCEL_JOB",
              "JOIN_WORKER", "JOIN_STREAM", "DESTROYED"}
  /\ lpc \in ListenerPlaces
  /\ spc \in StreamPlaces
  /\ requestedAddress \in LocalAddresses
  /\ stateAddress \in LocalAddresses
  /\ listener \in LocalAddresses
  /\ lrequested \in [address : LocalAddresses, generation : Generations]
  /\ requestedGeneration \in Generations
  /\ stateGeneration \in Generations
  /\ lgeneration \in Generations
  /\ jobGeneration \in Generations
  /\ sgeneration \in Generations
  /\ lclient \in Sockets
  /\ jobClient \in Sockets
  /\ ssocket \in Sockets
  /\ openClients \subseteq Descriptors
  /\ discoveryAddress \in Nat
  /\ responderAddress \in Nat
  /\ responderGeneration \in Nat

-----------------------------------------------------------------------------
(* The inductive invariant.                                                *)

\* Places at which the listener has seen a new generation, or its end.
Apart == {"WITHDRAW", "RESET", "FINISH", "FINISH_CLOSE", "ENDED"}

\* Places at which the listener serves a client.
Serving == {"READ", "SERVE", "TRANSFER", "HAND_OVER", "RESPOND"}

\* Places at which the streaming thread has a job, and is to free it.
Handling == {"CHECK_STATE", "CHECK_JOB", "HANDLE", "FREE"}

\* A thread that was started has a place, the listener is started after the
\* streaming thread, and that ends for a shutdown only.
ThreadInv ==
  /\ workerStarted <=> lpc # "OFF"
  /\ streamStarted <=> spc # "OFF"
  /\ mpc = "START_WORKER" \/ workerStarted => streamStarted
  /\ sshutdown => shutdown
  /\ spc = "ENDED" => sshutdown

\* A generation has one address; the listener's socket is bound to that of the
\* generation it serves.
GenerationInv ==
  /\ lrequested.generation <= requestedGeneration
  /\ lrequested.generation = requestedGeneration =>
       lrequested.address = requestedAddress
  /\ lpc \notin Apart =>
       /\ lgeneration = lrequested.generation
       /\ listener \in {0, lrequested.address}

\* The responder is silent where the listening socket is opened or closed, and
\* a session that is being started is for the open one.
AnnounceInv ==
  /\ responderRunning =>
       /\ lpc \notin {"OFF", "RESET", "PUBLISH", "FAILED_CLOSE",
                      "FINISH_CLOSE", "ENDED"}
       /\ discoveryAddress = listener
  /\ lpc \in {"ANNOUNCE", "STARTING"} => listener # 0
  /\ starting <=> lpc = "STARTING"
  /\ starting =>
       /\ ~responderRunning
       /\ sessionOwned
       /\ responderAddress = listener
       /\ discoveryAddress = listener
       /\ responderGeneration = lgeneration

\* Who has a socket, by place.
SocketInv ==
  /\ openClients = {lclient, jobClient, ssocket} \ {0}
  /\ lclient = jobClient => lclient = 0
  /\ lclient = ssocket => lclient = 0
  /\ jobClient = ssocket => jobClient = 0
  /\ lclient # 0 <=> lpc \in Serving
  /\ ssocket # 0 <=> spc \in Handling \cup {"CLOSE"}
  /\ jobClient # 0 => spc # "OFF"

ServerInv ==
  /\ FlagTypes
  /\ ValueTypes
  /\ ThreadInv
  /\ GenerationInv
  /\ PublishedIsCurrent
  /\ AdvertisedIsServed
  /\ AnnounceInv
  /\ SocketInv
  /\ SlotHeld

-----------------------------------------------------------------------------
(* Types.                                                                  *)

\* The split says what TypeOK says.
LEMMA TypesAreTypeOK == TypeOK <=> FlagTypes /\ ValueTypes
<1> USE DEF TypeOK, DiscoveryTypeOK, ListenerPlaces, StreamPlaces, Generations,
            LocalAddresses, Sockets
<1>1. TypeOK => FlagTypes
  BY Zenon DEF FlagTypes
<1>2. TypeOK => ValueTypes
  BY DEF ValueTypes
<1>3. FlagTypes /\ ValueTypes => TypeOK
  BY Zenon DEF FlagTypes, ValueTypes
<1> QED
  BY <1>1, <1>2, <1>3

\* An update of the discovery with a local address keeps its types:
\* LocalDiscovery::update().
LEMMA DiscoveryUpdateTypes ==
  ASSUME FlagTypes, ValueTypes, NEW address \in Nat, NEW g \in Nat,
         DiscoveryUpdate(address, g)
  PROVE  /\ {discoveryAttempted', discoveryRunning', sessionOwned', starting',
             mdnsStarted', responderRunning'} \subseteq BOOLEAN
         /\ discoveryAddress' \in Nat
         /\ responderAddress' \in Nat
         /\ responderGeneration' \in Nat
<1> USE DEF DiscoveryUpdate, UpdateMoves, UpdateNotices, UpdateRetries,
            UpdateRests, StopSession, BeginSession, discoveryVars,
            controllerVars, responderVars
<1>1. {discoveryAttempted', discoveryRunning', sessionOwned', starting',
       mdnsStarted', responderRunning'} \subseteq BOOLEAN
  BY Zenon DEF FlagTypes
<1>2. discoveryAddress' \in Nat /\ responderAddress' \in Nat
      /\ responderGeneration' \in Nat
  BY DEF ValueTypes
<1> QED
  BY <1>1, <1>2

\* What the end of start() leaves of the discovery's types.
LEMMA DiscoveryStartedTypes ==
  ASSUME FlagTypes, ValueTypes, DiscoveryStarted
  PROVE  /\ {discoveryAttempted', discoveryRunning', sessionOwned', starting',
             mdnsStarted', responderRunning'} \subseteq BOOLEAN
         /\ discoveryAddress' \in Nat
         /\ responderAddress' \in Nat
         /\ responderGeneration' \in Nat
<1>1. {discoveryAttempted', discoveryRunning', sessionOwned', starting',
       mdnsStarted', responderRunning'} \subseteq BOOLEAN
  BY Zenon DEF FlagTypes, DiscoveryStarted
<1>2. discoveryAddress' \in Nat /\ responderAddress' \in Nat
      /\ responderGeneration' \in Nat
  BY DEF ValueTypes, DiscoveryStarted
<1> QED
  BY <1>1, <1>2

\* The main loop keeps the types.
LEMMA MainTypes ==
  ASSUME FlagTypes, ValueTypes, MainStep \/ MainShutDown
  PROVE  FlagTypes' /\ ValueTypes'
<1> USE DEF requestVars, publicVars, startVars, listenerVars, jobVars,
            streamVars, discoveryVars, controllerVars, responderVars
<1> USE AddressesAssumption, MaxGenerationAssumption
<1>1. CASE MainRequest
  <2>1. FlagTypes'
    BY <1>1, Zenon DEF FlagTypes, MainRequest
  <2>2. ValueTypes'
    BY <1>1 DEF ValueTypes, MainRequest, Generations, LocalAddresses
  <2> QED
    BY <2>1, <2>2
<1>2. CASE MainStartStream
  <2>1. FlagTypes'
    BY <1>2, Zenon DEF FlagTypes, MainStartStream
  <2>2. ValueTypes'
    BY <1>2 DEF ValueTypes, MainStartStream, StreamPlaces
  <2> QED
    BY <2>1, <2>2
<1>3. CASE MainStartWorker
  <2>1. FlagTypes'
    BY <1>3, Zenon DEF FlagTypes, MainStartWorker
  <2>2. ValueTypes'
    BY <1>3 DEF ValueTypes, MainStartWorker, ListenerPlaces
  <2> QED
    BY <2>1, <2>2
<1>4. CASE MainShutDown \/ MainCancelJob
  <2>1. FlagTypes'
    BY <1>4, Zenon DEF FlagTypes, MainShutDown, MainCancelJob
  <2>2. ValueTypes'
    BY <1>4 DEF ValueTypes, MainShutDown, MainCancelJob
  <2> QED
    BY <2>1, <2>2
<1>5. CASE MainJoinWorker \/ MainJoinStream
  <2>1. FlagTypes'
    BY <1>5, Zenon DEF FlagTypes, MainJoinWorker, MainJoinStream, MainJoin
  <2>2. ValueTypes'
    BY <1>5 DEF ValueTypes, MainJoinWorker, MainJoinStream, MainJoin
  <2> QED
    BY <2>1, <2>2
<1> QED
  BY <1>1, <1>2, <1>3, <1>4, <1>5 DEF MainStep

\* A withdrawal of the service keeps the types: notifyService(false, 0).
LEMMA WithdrawTypes ==
  ASSUME FlagTypes, ValueTypes, NEW here, NEW next \in ListenerPlaces,
         Withdraw(here, next)
  PROVE  FlagTypes' /\ ValueTypes'
<1> USE DEF Withdraw, ListenerGoto, mainVars, requestVars, publicVars,
            startVars, jobVars, streamVars
<1>1. lgeneration \in Nat /\ DiscoveryUpdate(0, lgeneration)
  BY MaxGenerationAssumption DEF ValueTypes, Generations
<1>2. /\ {discoveryAttempted', discoveryRunning', sessionOwned', starting',
          mdnsStarted', responderRunning'} \subseteq BOOLEAN
      /\ discoveryAddress' \in Nat
      /\ responderAddress' \in Nat
      /\ responderGeneration' \in Nat
  BY <1>1, DiscoveryUpdateTypes
<1>3. FlagTypes'
  BY <1>2, Zenon DEF FlagTypes
<1>4. ValueTypes'
  BY <1>2 DEF ValueTypes
<1> QED
  BY <1>3, <1>4

\* The listener thread keeps the types.
LEMMA ListenerTypes ==
  ASSUME FlagTypes, ValueTypes, ListenerStep
  PROVE  FlagTypes' /\ ValueTypes'
<1> USE DEF ListenerGoto, mainVars, requestVars, publicVars, startVars,
            jobVars, streamVars, discoveryVars, controllerVars, responderVars
<1> USE AddressesAssumption, DescriptorsAssumption, MaxGenerationAssumption
<1>1. CASE ListenerTop
  <2>1. FlagTypes'
    BY <1>1, Zenon DEF FlagTypes, ListenerTop
  <2>2. ValueTypes'
    BY <1>1 DEF ValueTypes, ListenerTop, Requested, ListenerPlaces,
              LocalAddresses, Generations
  <2> QED
    BY <2>1, <2>2
<1>2. CASE \/ ListenerWithdraw \/ ListenerUnavailable
            \/ ListenerFailed \/ ListenerFinish
  <2>1. {"RESET", "TOP", "FAILED_CLOSE", "FINISH_CLOSE"} \subseteq ListenerPlaces
    BY DEF ListenerPlaces
  <2> QED
    BY <1>2, <2>1, WithdrawTypes
       DEF ListenerWithdraw, ListenerUnavailable, ListenerFailed, ListenerFinish
<1>3. CASE ListenerReset \/ ListenerFailedClose \/ ListenerFinishClose
  <2>1. FlagTypes'
    BY <1>3, Zenon DEF FlagTypes, ListenerReset, ListenerFailedClose,
              ListenerFinishClose, CloseListener
  <2>2. ValueTypes'
    BY <1>3 DEF ValueTypes, ListenerReset, ListenerFailedClose,
              ListenerFinishClose, CloseListener, ListenerPlaces,
              LocalAddresses, Generations
  <2> QED
    BY <2>1, <2>2
<1>4. CASE ListenerOpen
  <2>1. FlagTypes'
    BY <1>4, Zenon DEF FlagTypes, ListenerOpen
  <2>2. ValueTypes'
    BY <1>4 DEF ValueTypes, ListenerOpen, ListenerPlaces, LocalAddresses
  <2> QED
    BY <2>1, <2>2
<1>5. CASE ListenerPublish \/ ListenerFailedPublish
  <2>1. FlagTypes'
    BY <1>5, Zenon DEF FlagTypes, ListenerPublish, ListenerFailedPublish,
              PublishState
  <2>2. ValueTypes'
    BY <1>5 DEF ValueTypes, ListenerPublish, ListenerFailedPublish,
              PublishState, ListenerPlaces, LocalAddresses
  <2> QED
    BY <2>1, <2>2
<1>6. CASE ListenerAnnounce
  <2>1. /\ lrequested.address \in Nat
        /\ lgeneration \in Nat
        /\ DiscoveryUpdate(lrequested.address, lgeneration)
    <3>1. lrequested.address \in LocalAddresses /\ lgeneration \in Generations
      BY DEF ValueTypes
    <3>2. \A a \in LocalAddresses : a \in Nat
      BY DEF LocalAddresses
    <3>3. \A g \in Generations : g \in Nat
      BY DEF Generations
    <3>4. DiscoveryUpdate(lrequested.address, lgeneration)
      BY <1>6 DEF ListenerAnnounce
    <3> QED
      BY <3>1, <3>2, <3>3, <3>4, Zenon
  <2>2. /\ {discoveryAttempted', discoveryRunning', sessionOwned', starting',
            mdnsStarted', responderRunning'} \subseteq BOOLEAN
        /\ discoveryAddress' \in Nat
        /\ responderAddress' \in Nat
        /\ responderGeneration' \in Nat
    BY <2>1, DiscoveryUpdateTypes
  <2>3. FlagTypes'
    BY <1>6, <2>2, Zenon DEF FlagTypes, ListenerAnnounce
  <2>4. ValueTypes'
    BY <1>6, <2>2 DEF ValueTypes, ListenerAnnounce, ListenerPlaces
  <2> QED
    BY <2>3, <2>4
<1>7. CASE ListenerStarted
  <2>1. /\ {discoveryAttempted', discoveryRunning', sessionOwned', starting',
            mdnsStarted', responderRunning'} \subseteq BOOLEAN
        /\ discoveryAddress' \in Nat
        /\ responderAddress' \in Nat
        /\ responderGeneration' \in Nat
    BY <1>7, DiscoveryStartedTypes DEF ListenerStarted
  <2>2. FlagTypes'
    BY <1>7, <2>1, Zenon DEF FlagTypes, ListenerStarted
  <2>3. ValueTypes'
    BY <1>7, <2>1 DEF ValueTypes, ListenerStarted, ListenerPlaces
  <2> QED
    BY <2>2, <2>3
<1>8. CASE ListenerCheck \/ ListenerRead \/ ListenerServe \/ ListenerTransfer
  <2>1. FlagTypes'
    BY <1>8, Zenon DEF FlagTypes, ListenerCheck, ListenerRead, ListenerServe,
              ListenerTransfer
  <2>2. ValueTypes'
    BY <1>8 DEF ValueTypes, ListenerCheck, ListenerRead, ListenerServe,
              ListenerTransfer, ListenerPlaces
  <2> QED
    BY <2>1, <2>2
<1>9. CASE ListenerAccept \/ ListenerRespond
  <2>1. FlagTypes'
    BY <1>9, Zenon DEF FlagTypes, ListenerAccept, ListenerRespond
  <2>2. ValueTypes'
    BY <1>9 DEF ValueTypes, ListenerAccept, ListenerRespond, ListenerPlaces, Sockets
  <2> QED
    BY <2>1, <2>2
<1>10. CASE ListenerHandOver
  <2>1. FlagTypes'
    BY <1>10, Zenon DEF FlagTypes, ListenerHandOver, HandOver
  <2>2. ValueTypes'
    BY <1>10 DEF ValueTypes, ListenerHandOver, HandOver, ListenerPlaces,
              Sockets
  <2> QED
    BY <2>1, <2>2
<1> QED
  BY <1>1, <1>2, <1>3, <1>4, <1>5, <1>6, <1>7, <1>8, <1>9, <1>10
     DEF ListenerStep

\* The streaming thread, and a cancelled request, keep the types.
LEMMA StreamTypes ==
  ASSUME FlagTypes, ValueTypes, StreamStep \/ CancelStreamingRequest
  PROVE  FlagTypes' /\ ValueTypes'
<1> USE DEF StreamGoto, mainVars, requestVars, publicVars, startVars,
            listenerVars, jobVars, streamVars, discoveryVars, controllerVars,
            responderVars
<1> USE DescriptorsAssumption, MaxGenerationAssumption
<1>1. CASE StreamTop \/ StreamCheckState \/ StreamCheckJob \/ StreamHandle
  <2>1. FlagTypes'
    BY <1>1, Zenon DEF FlagTypes, StreamTop, StreamCheckState, StreamCheckJob,
              StreamHandle
  <2>2. ValueTypes'
    BY <1>1 DEF ValueTypes, StreamTop, StreamCheckState, StreamCheckJob,
              StreamHandle, StreamPlaces
  <2> QED
    BY <2>1, <2>2
<1>2. CASE StreamTake
  <2>1. FlagTypes'
    BY <1>2, Zenon DEF FlagTypes, StreamTake
  <2>2. ValueTypes'
    BY <1>2 DEF ValueTypes, StreamTake, StreamPlaces, Sockets
  <2> QED
    BY <2>1, <2>2
<1>3. CASE StreamFree
  <2>1. FlagTypes'
    BY <1>3, Zenon DEF FlagTypes, StreamFree, FreeJob
  <2>2. ValueTypes'
    BY <1>3 DEF ValueTypes, StreamFree, FreeJob, StreamPlaces,
              Generations
  <2> QED
    BY <2>1, <2>2
<1>4. CASE StreamClose
  <2>1. FlagTypes'
    BY <1>4, Zenon DEF FlagTypes, StreamClose
  <2>2. ValueTypes'
    BY <1>4 DEF ValueTypes, StreamClose, StreamPlaces, Sockets,
              Generations
  <2> QED
    BY <2>1, <2>2
<1>5. CASE CancelStreamingRequest
  <2>1. FlagTypes'
    BY <1>5, Zenon DEF FlagTypes, CancelStreamingRequest
  <2>2. ValueTypes'
    BY <1>5 DEF ValueTypes, CancelStreamingRequest
  <2> QED
    BY <2>1, <2>2
<1> QED
  BY <1>1, <1>2, <1>3, <1>4, <1>5 DEF StreamStep

LEMMA TypesStep ==
  ASSUME FlagTypes, ValueTypes, [Next]_vars
  PROVE  FlagTypes' /\ ValueTypes'
<1>1. CASE ResponderFails /\ UNCHANGED Others
  <2> USE DEF ResponderFails, Others, mainVars, requestVars, publicVars,
              startVars, listenerVars, jobVars, streamVars, controllerVars
  <2>1. FlagTypes'
    BY <1>1, Zenon DEF FlagTypes
  <2>2. ValueTypes'
    BY <1>1 DEF ValueTypes
  <2> QED
    BY <2>1, <2>2
<1>2. CASE UNCHANGED vars
  <2> USE DEF vars, mainVars, requestVars, publicVars, startVars, listenerVars,
              jobVars, streamVars, discoveryVars, controllerVars, responderVars
  <2>1. FlagTypes'
    BY <1>2, Zenon DEF FlagTypes
  <2>2. ValueTypes'
    BY <1>2 DEF ValueTypes
  <2> QED
    BY <2>1, <2>2
<1> QED
  BY <1>1, <1>2, MainTypes, ListenerTypes, StreamTypes DEF Next

-----------------------------------------------------------------------------
(* Frames: what the other threads leave alone.                             *)

LEMMA MainFrame ==
  ASSUME ThreadInv, MainStep \/ MainShutDown
  PROVE  /\ UNCHANGED <<lrequested, lgeneration, lattempted, listener, lclient>>
         /\ UNCHANGED <<jobPending, jobActive, jobClient, jobGeneration>>
         /\ UNCHANGED <<sgeneration, ssocket, openClients, discoveryVars>>
         /\ lpc' = lpc \/ (lpc = "OFF" /\ lpc' = "TOP")
         /\ spc' = spc \/ (spc = "OFF" /\ spc' = "TOP")
         /\ UNCHANGED <<requestedAddress, requestedGeneration, publicVars>>
              \/ MainRequest
<1> USE DEF requestVars, startVars, publicVars, listenerVars, jobVars,
            streamVars
<1>1. CASE MainRequest
  BY <1>1 DEF MainRequest
<1>2. CASE MainStartStream
  BY <1>2 DEF MainStartStream, ThreadInv
<1>3. CASE MainStartWorker
  BY <1>3 DEF MainStartWorker, ThreadInv
<1>4. CASE MainShutDown \/ MainCancelJob
  BY <1>4 DEF MainShutDown, MainCancelJob
<1>5. CASE MainJoinWorker \/ MainJoinStream
  BY <1>5 DEF MainJoinWorker, MainJoinStream, MainJoin
<1> QED
  BY <1>1, <1>2, <1>3, <1>4, <1>5 DEF MainStep

LEMMA StreamFrame ==
  ASSUME StreamStep \/ CancelStreamingRequest
  PROVE  UNCHANGED <<mainVars, publicVars, listenerVars, discoveryVars>>
BY DEF StreamStep, StreamTop, StreamTake, StreamCheckState, StreamCheckJob,
       StreamHandle, StreamFree, StreamClose, CancelStreamingRequest,
       StreamGoto

LEMMA ListenerFrame ==
  ASSUME ListenerStep
  PROVE  UNCHANGED <<mainVars, streamVars>>
BY DEF ListenerStep, ListenerTop, ListenerWithdraw, ListenerReset,
       ListenerOpen, ListenerPublish, ListenerCheck, ListenerAnnounce,
       ListenerStarted, ListenerUnavailable, ListenerAccept, ListenerFailed,
       ListenerFailedClose, ListenerFailedPublish, ListenerRead,
       ListenerServe, ListenerTransfer, ListenerHandOver, ListenerRespond,
       ListenerFinish, ListenerFinishClose, Withdraw, CloseListener,
       ListenerGoto

\* What is neither the main loop's, nor the two threads'.
LEMMA OtherFrame ==
  ASSUME (ResponderFails /\ UNCHANGED Others) \/ UNCHANGED vars
  PROVE  UNCHANGED Others
BY DEF Others, vars

-----------------------------------------------------------------------------
(* The steps: threads, generations and the published state.                *)

LEMMA ThreadStep ==
  ASSUME FlagTypes, ThreadInv, [Next]_vars
  PROVE  ThreadInv'
<1> USE DEF ThreadInv, mainVars, requestVars, publicVars, startVars,
            listenerVars, streamVars
<1>1. CASE MainStep \/ MainShutDown
  <2>1. CASE MainStartStream
    BY <2>1 DEF MainStartStream
  <2>2. CASE MainStartWorker
    BY <2>2 DEF MainStartWorker
  <2>3. CASE MainRequest
    BY <2>3 DEF MainRequest
  <2>4. CASE \/ MainShutDown \/ MainCancelJob
             \/ MainJoinWorker \/ MainJoinStream
    BY <2>4 DEF MainShutDown, MainCancelJob, MainJoinWorker, MainJoinStream,
                MainJoin
  <2> QED
    BY <1>1, <2>1, <2>2, <2>3, <2>4 DEF MainStep
<1>2. CASE ListenerStep
  <2>1. UNCHANGED <<mainVars, streamVars>>
    BY <1>2, ListenerFrame
  <2>2. lpc' # "OFF" /\ lpc # "OFF"
    BY <1>2
       DEF ListenerStep, ListenerTop, ListenerWithdraw, ListenerReset,
           ListenerOpen, ListenerPublish, ListenerCheck, ListenerAnnounce,
           ListenerStarted, ListenerUnavailable, ListenerAccept,
           ListenerFailed, ListenerFailedClose, ListenerFailedPublish,
           ListenerRead, ListenerServe, ListenerTransfer, ListenerHandOver,
           ListenerRespond, ListenerFinish, ListenerFinishClose, Withdraw,
           CloseListener, ListenerGoto
  <2> QED
    BY <2>1, <2>2
<1>3. CASE StreamStep \/ CancelStreamingRequest
  <2>1. UNCHANGED <<mainVars, listenerVars>>
    BY <1>3, StreamFrame
  <2>2. spc' = spc \/ (spc' # "OFF" /\ spc # "OFF")
    BY <1>3
       DEF StreamStep, StreamTop, StreamTake, StreamCheckState,
           StreamCheckJob, StreamHandle, StreamFree, StreamClose,
           CancelStreamingRequest, StreamGoto
  <2>3. (sshutdown' => shutdown) /\ (spc' = "ENDED" => sshutdown')
    <3>1. CASE StreamTop
      <4>1. spc' = "TAKE"
        BY <3>1 DEF StreamTop, StreamGoto
      <4>2. sshutdown' => shutdown
        BY <3>1, Zenon DEF StreamTop
      <4> QED
        BY <4>1, <4>2
    <3>2. CASE StreamTake
      BY <3>2 DEF StreamTake, StreamGoto
    <3>3. CASE \/ StreamCheckState \/ StreamCheckJob \/ StreamHandle
               \/ StreamFree \/ StreamClose \/ CancelStreamingRequest
      BY <3>3 DEF StreamCheckState, StreamCheckJob, StreamHandle, StreamFree,
                  StreamClose, CancelStreamingRequest, StreamGoto
    <3> QED
      BY <1>3, <3>1, <3>2, <3>3 DEF StreamStep
  <2> QED
    BY <2>1, <2>2, <2>3
<1>4. CASE (ResponderFails /\ UNCHANGED Others) \/ UNCHANGED vars
  BY <1>4, OtherFrame DEF Others
<1> QED
  BY <1>1, <1>2, <1>3, <1>4 DEF Next

\* A new request is a new generation, and the listener takes the address with
\* the generation: update() against run().
LEMMA GenerationStep ==
  ASSUME ValueTypes, ThreadInv, GenerationInv, [Next]_vars
  PROVE  GenerationInv'
<1> USE DEF GenerationInv, Apart, mainVars, requestVars, publicVars,
            startVars, listenerVars, streamVars
<1>0. /\ lrequested.generation \in Nat
      /\ requestedGeneration \in Nat
      /\ lrequested.generation < requestedGeneration + 1
  BY MaxGenerationAssumption DEF ValueTypes, Generations
<1>1. CASE MainStep \/ MainShutDown
  <2>1. /\ UNCHANGED <<lrequested, lgeneration, listener>>
        /\ lpc' = lpc \/ (lpc = "OFF" /\ lpc' = "TOP")
    BY <1>1, MainFrame
  <2>2. \/ UNCHANGED <<requestedAddress, requestedGeneration>>
        \/ requestedGeneration' = requestedGeneration + 1
    BY <1>1, MainFrame DEF MainRequest
  <2> QED
    BY <1>0, <2>1, <2>2
<1>2. CASE ListenerTop
  <2>1. /\ lrequested'.generation = requestedGeneration
        /\ lrequested'.address = requestedAddress
        /\ UNCHANGED <<requestedAddress, requestedGeneration, lgeneration,
                       listener>>
    BY <1>2 DEF ListenerTop, ListenerGoto, Requested
  <2>2. \/ lpc' \in {"FINISH", "WITHDRAW"}
        \/ lgeneration = requestedGeneration
    BY <1>2 DEF ListenerTop, ListenerGoto
  <2>3. lpc \notin Apart
    BY <1>2 DEF ListenerTop
  <2> QED
    BY <1>0, <2>1, <2>2, <2>3
<1>3. CASE ListenerReset
  BY <1>3 DEF ListenerReset, CloseListener, ListenerGoto
<1>4. CASE ListenerOpen
  BY <1>4 DEF ListenerOpen, ListenerGoto
<1>5. CASE ListenerPublish
  BY <1>5 DEF ListenerPublish, ListenerGoto
<1>6. CASE \/ ListenerWithdraw \/ ListenerUnavailable \/ ListenerFailed
           \/ ListenerFinish \/ ListenerFailedClose \/ ListenerFinishClose
  BY <1>6 DEF ListenerWithdraw, ListenerUnavailable, ListenerFailed,
              ListenerFinish, ListenerFailedClose, ListenerFinishClose,
              Withdraw, CloseListener, ListenerGoto
<1>7. CASE \/ ListenerCheck \/ ListenerAnnounce \/ ListenerStarted
           \/ ListenerAccept \/ ListenerFailedPublish \/ ListenerRead
           \/ ListenerServe \/ ListenerTransfer \/ ListenerHandOver
           \/ ListenerRespond
  BY <1>7 DEF ListenerCheck, ListenerAnnounce, ListenerStarted,
              ListenerAccept, ListenerFailedPublish, ListenerRead,
              ListenerServe, ListenerTransfer, ListenerHandOver,
              ListenerRespond, ListenerGoto
<1>8. CASE \/ StreamStep \/ CancelStreamingRequest
           \/ (ResponderFails /\ UNCHANGED Others) \/ UNCHANGED vars
  <2>1. UNCHANGED <<mainVars, listenerVars>>
    BY <1>8, StreamFrame, OtherFrame DEF Others
  <2> QED
    BY <2>1
<1> QED
  BY <1>1, <1>2, <1>3, <1>4, <1>5, <1>6, <1>7, <1>8 DEF Next, ListenerStep

\* What is published for the current generation with an address of its own.
LEMMA Published ==
  ASSUME PublishedIsCurrent, NEW g, NEW address,
         g = requestedGeneration => address \in {0, requestedAddress},
         UNCHANGED <<requestedAddress, requestedGeneration>>,
         PublishState(g, address)
  PROVE  PublishedIsCurrent'
<1> USE DEF PublishedIsCurrent, PublishState, publicVars
<1>1. CASE requestedGeneration = g /\ listening' = (address # 0)
           /\ stateAddress' = address /\ stateGeneration' = g
  <2>1. listening' <=> stateAddress' # 0
    BY ONLY <1>1, Zenon
  <2>2. stateGeneration' = requestedGeneration'
        /\ stateAddress' \in {0, requestedAddress'}
    BY <1>1
  <2> QED
    BY <2>1, <2>2, Zenon
<1>2. CASE UNCHANGED publicVars
  BY <1>2
<1> QED
  BY <1>1, <1>2

\* The listener publishes for the generation of the moment alone, and then its
\* socket is bound to that generation's address: publishState().
LEMMA PublishedStep ==
  ASSUME ValueTypes, GenerationInv, ThreadInv, PublishedIsCurrent, [Next]_vars
  PROVE  PublishedIsCurrent'
<1> USE DEF PublishedIsCurrent, mainVars, requestVars, publicVars
<1>1. CASE MainStep \/ MainShutDown
  <2>1. CASE MainRequest
    BY <2>1 DEF MainRequest
  <2>2. CASE UNCHANGED <<requestedAddress, requestedGeneration, publicVars>>
    BY <2>2
  <2> QED
    BY <1>1, <2>1, <2>2, MainFrame
<1>2. CASE ListenerPublish
  <2>1. requestedGeneration = lgeneration => listener \in {0, requestedAddress}
    BY <1>2 DEF ListenerPublish, GenerationInv, Apart
  <2>2. PublishState(lgeneration, listener)
    BY <1>2 DEF ListenerPublish
  <2>3. UNCHANGED <<requestedAddress, requestedGeneration>>
    BY <1>2 DEF ListenerPublish, ListenerGoto
  <2> QED
    BY <2>1, <2>2, <2>3, Published
<1>3. CASE ListenerFailedPublish
  <2>1. PublishState(lgeneration, 0)
    BY <1>3 DEF ListenerFailedPublish
  <2>2. UNCHANGED <<requestedAddress, requestedGeneration>>
    BY <1>3 DEF ListenerFailedPublish, ListenerGoto
  <2> QED
    BY <2>1, <2>2, Published
<1>4. CASE \/ ListenerTop \/ ListenerWithdraw \/ ListenerReset
           \/ ListenerOpen \/ ListenerCheck \/ ListenerAnnounce
           \/ ListenerStarted \/ ListenerUnavailable \/ ListenerAccept
           \/ ListenerFailed \/ ListenerFailedClose \/ ListenerRead
           \/ ListenerServe \/ ListenerTransfer \/ ListenerHandOver
           \/ ListenerRespond \/ ListenerFinish \/ ListenerFinishClose
  BY <1>4
     DEF ListenerTop, ListenerWithdraw, ListenerReset, ListenerOpen,
         ListenerCheck, ListenerAnnounce, ListenerStarted,
         ListenerUnavailable, ListenerAccept, ListenerFailed,
         ListenerFailedClose, ListenerRead, ListenerServe, ListenerTransfer,
         ListenerHandOver, ListenerRespond, ListenerFinish,
         ListenerFinishClose, Withdraw, CloseListener, ListenerGoto
<1>5. CASE \/ StreamStep \/ CancelStreamingRequest
           \/ (ResponderFails /\ UNCHANGED Others) \/ UNCHANGED vars
  <2>1. UNCHANGED <<mainVars, publicVars>>
    BY <1>5, StreamFrame, OtherFrame DEF Others
  <2> QED
    BY <2>1
<1> QED
  BY <1>1, <1>2, <1>3, <1>4, <1>5 DEF Next, ListenerStep

-----------------------------------------------------------------------------
(* The steps: what is announced.                                           *)

\* An update with no address silences the responder: whatever it announces is
\* of a session the controller owns, so stopSession() ends it.
LEMMA Silenced ==
  ASSUME AnnounceInv, AdvertisedIsServed, ~starting,
         NEW g, DiscoveryUpdate(0, g)
  PROVE  ~responderRunning' /\ ~starting'
<1> USE DEF StopSession
<1>1. responderRunning => sessionOwned /\ discoveryAddress # 0
  BY DEF AnnounceInv, AdvertisedIsServed
<1>2. CASE UpdateMoves(0, g)
  <2>1. StopSession
    BY <1>2 DEF UpdateMoves
  <2> QED
    BY <1>1, <2>1, Zenon
<1>3. CASE UpdateNotices(0)
  BY <1>1, <1>3, Zenon DEF UpdateNotices
<1>4. CASE \E retryElapsed \in BOOLEAN : UpdateRests(0, retryElapsed)
  <2>1. discoveryAddress = 0 /\ UNCHANGED <<responderRunning, starting>>
    BY <1>4 DEF UpdateRests, discoveryVars, controllerVars, responderVars
  <2> QED
    BY <1>1, <2>1, Zenon
<1>5. CASE \E retryElapsed \in BOOLEAN : UpdateRetries(0, g, retryElapsed)
  BY <1>5 DEF UpdateRetries
<1> QED
  BY <1>2, <1>3, <1>4, <1>5 DEF DiscoveryUpdate

\* An update with the listener's address leaves the responder announcing it,
\* or silent; a session that is being started is for it.
LEMMA Announced ==
  ASSUME FlagTypes, AnnounceInv, AdvertisedIsServed, ~starting,
         NEW address, NEW g, address # 0, address = listener, g = lgeneration,
         DiscoveryUpdate(address, g)
  PROVE  /\ responderRunning' =>
              /\ discoveryAddress' = address
              /\ responderAddress' = address
              /\ responderGeneration' = g
              /\ discoveryRunning' /\ sessionOwned'
         /\ starting' =>
              /\ ~responderRunning'
              /\ sessionOwned'
              /\ responderAddress' = address
              /\ discoveryAddress' = address
              /\ responderGeneration' = g
<1>1. responderRunning =>
        /\ discoveryAddress = address
        /\ responderAddress = address
        /\ responderGeneration = g
        /\ discoveryRunning /\ sessionOwned
  BY DEF AnnounceInv, AdvertisedIsServed
<1>2. CASE \/ UpdateMoves(address, g)
           \/ \E retryElapsed \in BOOLEAN :
                UpdateRetries(address, g, retryElapsed)
  <2>1. BeginSession(address, g) /\ discoveryAddress' = address
    BY <1>2 DEF UpdateMoves, UpdateRetries
  <2>2. ~responderRunning'
    BY <2>1, Zenon DEF BeginSession
  <2>3. starting' => /\ sessionOwned'
                     /\ responderAddress' = address
                     /\ responderGeneration' = g
    BY <2>1, Zenon DEF BeginSession
  <2> QED
    BY <2>1, <2>2, <2>3
<1>3. CASE UpdateNotices(address)
  <2>1. ~responderRunning' /\ ~starting'
    BY <1>3, Zenon DEF UpdateNotices, StopSession
  <2> QED
    BY <2>1
<1>4. CASE \E retryElapsed \in BOOLEAN : UpdateRests(address, retryElapsed)
  <2>1. UNCHANGED discoveryVars
    BY <1>4 DEF UpdateRests
  <2>2. /\ UNCHANGED <<discoveryAddress, discoveryRunning, sessionOwned>>
        /\ UNCHANGED <<starting, responderRunning>>
        /\ UNCHANGED <<responderAddress, responderGeneration>>
    BY <2>1 DEF discoveryVars, controllerVars, responderVars
  <2> QED
    BY <1>1, <2>2, Zenon
<1> QED
  BY <1>2, <1>3, <1>4 DEF DiscoveryUpdate

LEMMA AnnounceStep ==
  ASSUME FlagTypes, ThreadInv, GenerationInv, AnnounceInv, AdvertisedIsServed,
         [Next]_vars
  PROVE  AnnounceInv' /\ AdvertisedIsServed'
<1> USE DEF AnnounceInv, AdvertisedIsServed, discoveryVars, controllerVars,
            responderVars, listenerVars
<1>1. CASE MainStep \/ MainShutDown
  BY <1>1, MainFrame
<1>2. CASE \/ ListenerWithdraw \/ ListenerUnavailable \/ ListenerFailed
           \/ ListenerFinish
  <2>1. /\ lpc # "STARTING"
        /\ lpc' \in {"RESET", "TOP", "FAILED_CLOSE", "FINISH_CLOSE"}
        /\ DiscoveryUpdate(0, lgeneration)
    BY <1>2 DEF ListenerWithdraw, ListenerUnavailable, ListenerFailed,
                ListenerFinish, Withdraw, ListenerGoto
  <2>2. ~responderRunning' /\ ~starting'
    BY <2>1, Silenced
  <2> QED
    BY <2>1, <2>2
<1>3. CASE ListenerTop
  BY <1>3 DEF ListenerTop, ListenerGoto
<1>4. CASE ListenerReset \/ ListenerFailedClose \/ ListenerFinishClose
  BY <1>4 DEF ListenerReset, ListenerFailedClose, ListenerFinishClose,
              CloseListener, ListenerGoto
<1>5. CASE ListenerOpen
  BY <1>5 DEF ListenerOpen, ListenerGoto
<1>6. CASE ListenerPublish
  BY <1>6 DEF ListenerPublish, ListenerGoto
<1>7. CASE ListenerCheck
  BY <1>7 DEF ListenerCheck, ListenerGoto
<1>8. CASE ListenerAnnounce
  <2>1. /\ lpc = "ANNOUNCE"
        /\ lpc' = IF starting' THEN "STARTING" ELSE "ACCEPT"
        /\ UNCHANGED <<listener, lgeneration>>
        /\ DiscoveryUpdate(lrequested.address, lgeneration)
    BY <1>8 DEF ListenerAnnounce, ListenerGoto
  <2>2. listener # 0 /\ lrequested.address = listener /\ ~starting
    BY <2>1 DEF GenerationInv, Apart
  <2>3. /\ responderRunning' =>
             /\ discoveryAddress' = listener
             /\ responderAddress' = listener
             /\ responderGeneration' = lgeneration
             /\ discoveryRunning' /\ sessionOwned'
        /\ starting' =>
             /\ ~responderRunning'
             /\ sessionOwned'
             /\ responderAddress' = listener
             /\ discoveryAddress' = listener
             /\ responderGeneration' = lgeneration
    BY <2>1, <2>2, Announced
  <2>4. starting' <=> lpc' = "STARTING"
    BY <2>1
  <2> QED
    BY <2>1, <2>2, <2>3, <2>4
<1>9. CASE ListenerStarted
  <2>1. /\ ~starting' /\ lpc' = "ACCEPT"
        /\ UNCHANGED <<listener, lgeneration, discoveryAddress>>
    BY <1>9, Zenon DEF ListenerStarted, DiscoveryStarted, ListenerGoto
  <2>2. /\ starting /\ ~responderRunning /\ sessionOwned
        /\ responderAddress = listener /\ discoveryAddress = listener
        /\ responderGeneration = lgeneration /\ listener # 0
    BY <1>9 DEF ListenerStarted, DiscoveryStarted
  <2>3. responderRunning' =>
          /\ discoveryRunning' /\ sessionOwned'
          /\ UNCHANGED <<responderAddress, responderGeneration>>
    BY <1>9, <2>2, Zenon DEF ListenerStarted, DiscoveryStarted
  <2> QED
    BY <2>1, <2>2, <2>3
<1>10. CASE \/ ListenerAccept \/ ListenerFailedPublish \/ ListenerRead
            \/ ListenerServe \/ ListenerTransfer \/ ListenerHandOver
            \/ ListenerRespond
  BY <1>10 DEF ListenerAccept, ListenerFailedPublish, ListenerRead,
               ListenerServe, ListenerTransfer, ListenerHandOver,
               ListenerRespond, ListenerGoto
<1>11. CASE StreamStep \/ CancelStreamingRequest \/ UNCHANGED vars
  <2>1. UNCHANGED <<listenerVars, discoveryVars>>
    BY <1>11, StreamFrame DEF vars
  <2> QED
    BY <2>1
<1>12. CASE ResponderFails /\ UNCHANGED Others
  BY <1>12 DEF ResponderFails, Others
<1> QED
  BY <1>1, <1>2, <1>3, <1>4, <1>5, <1>6, <1>7, <1>8, <1>9, <1>10, <1>11,
     <1>12
     DEF Next, ListenerStep

-----------------------------------------------------------------------------
(* The steps: sockets and the slot.                                        *)

\* A step of the listener that keeps its client.
LEMMA ListenerKeepsClient ==
  ASSUME SocketInv, SlotHeld, ListenerStep,
         ~ListenerAccept, ~ListenerHandOver, ~ListenerRespond
  PROVE  SocketInv' /\ SlotHeld'
<1>1. /\ UNCHANGED <<lclient, openClients, jobVars, streamVars>>
      /\ lpc' \in Serving <=> lpc \in Serving
  <2> USE DEF ListenerGoto, listenerVars, Serving
  <2>1. CASE \/ ListenerTop \/ ListenerReset \/ ListenerOpen
             \/ ListenerPublish \/ ListenerCheck \/ ListenerStarted
             \/ ListenerFailedClose \/ ListenerFailedPublish
             \/ ListenerFinishClose
    BY <2>1 DEF ListenerTop, ListenerReset, ListenerOpen, ListenerPublish,
                ListenerCheck, ListenerStarted, ListenerFailedClose,
                ListenerFailedPublish, ListenerFinishClose, CloseListener
  <2>2. CASE \/ ListenerWithdraw \/ ListenerAnnounce \/ ListenerUnavailable
             \/ ListenerFailed \/ ListenerFinish
    BY <2>2 DEF ListenerWithdraw, ListenerAnnounce, ListenerUnavailable,
                ListenerFailed, ListenerFinish, Withdraw
  <2>3. CASE ListenerRead \/ ListenerServe \/ ListenerTransfer
    BY <2>3 DEF ListenerRead, ListenerServe, ListenerTransfer
  <2> QED
    BY <2>1, <2>2, <2>3 DEF ListenerStep
<1> QED
  BY <1>1 DEF SocketInv, SlotHeld, jobVars, streamVars

\* A client is accepted on a descriptor nobody has, handed over to the job, or
\* answered and closed: acceptClient(), release(), reset().
LEMMA ListenerMovesClient ==
  ASSUME ValueTypes, ThreadInv, SocketInv, SlotHeld,
         ListenerAccept \/ ListenerHandOver \/ ListenerRespond
  PROVE  SocketInv' /\ SlotHeld'
<1> USE DEF SocketInv, SlotHeld, Serving, ListenerGoto, streamVars, jobVars
<1>1. CASE ListenerAccept
  <2>1. /\ UNCHANGED <<jobVars, streamVars>>
        /\ lpc = "ACCEPT"
    BY <1>1 DEF ListenerAccept
  <2>2. CASE \E c \in Descriptors \ openClients :
               lclient' = c /\ openClients' = openClients \cup {c}
                 /\ lpc' = "READ"
    <3>1. PICK c \in Descriptors \ openClients :
            lclient' = c /\ openClients' = openClients \cup {c}
              /\ lpc' = "READ"
      BY <2>2
    <3>2. c # 0 /\ c # jobClient /\ c # ssocket /\ lclient = 0
      BY <2>1, <3>1, DescriptorsAssumption
    <3> QED
      BY <2>1, <3>1, <3>2
  <2>3. CASE UNCHANGED <<lclient, openClients>> /\ lpc' \in {"TOP", "FAILED"}
    BY <2>1, <2>3
  <2> QED
    BY <1>1, <2>2, <2>3 DEF ListenerAccept
<1>2. CASE ListenerHandOver
  <2>1. UNCHANGED <<openClients, streamVars>> /\ lpc = "HAND_OVER"
        /\ lclient # 0 /\ spc # "OFF"
    BY <1>2 DEF ListenerHandOver, ThreadInv
  <2>2. CASE JobFree /\ HandOver /\ lpc' = "TOP"
    <3>1. /\ ~jobActive /\ ~jobPending /\ ~jobActive' /\ jobPending'
          /\ jobClient = 0 /\ jobClient' = lclient /\ lclient' = 0
      BY <2>2, Zenon DEF JobFree, HandOver
    <3> QED
      BY <2>1, <2>2, <3>1
  <2>3. CASE UNCHANGED <<jobVars, lclient>> /\ lpc' = "RESPOND"
    BY <2>1, <2>3
  <2> QED
    BY <1>2, <2>2, <2>3 DEF ListenerHandOver
<1>3. CASE ListenerRespond
  BY <1>3 DEF ListenerRespond
<1> QED
  BY <1>1, <1>2, <1>3

\* The streaming thread takes the job's socket over, frees the slot it took
\* and closes the socket: runStreaming().
LEMMA StreamMovesClient ==
  ASSUME SocketInv, SlotHeld, StreamStep \/ CancelStreamingRequest
  PROVE  SocketInv' /\ SlotHeld'
<1> USE DEF SocketInv, SlotHeld, Handling, StreamGoto, listenerVars,
            streamVars, jobVars
<1>1. CASE \/ StreamTop \/ StreamCheckState \/ StreamCheckJob \/ StreamHandle
           \/ CancelStreamingRequest
  BY <1>1 DEF StreamTop, StreamCheckState, StreamCheckJob, StreamHandle,
              CancelStreamingRequest
<1>2. CASE StreamTake
  <2>1. spc = "TAKE" /\ ssocket = 0 /\ ~jobActive
        /\ UNCHANGED <<lpc, lclient, openClients>>
    BY <1>2 DEF StreamTake
  <2>2. CASE ~jobPending
    <3>1. /\ UNCHANGED <<sgeneration, ssocket, jobVars>>
          /\ spc' \in {"ENDED", "TOP"}
      BY <1>2, <2>2 DEF StreamTake
    <3> QED
      BY <2>1, <3>1
  <2>3. CASE jobPending
    <3>1. /\ ~jobPending' /\ jobActive'
          /\ ssocket' = jobClient /\ jobClient' = 0
          /\ sgeneration' = jobGeneration /\ jobGeneration' = jobGeneration
          /\ spc' = "CHECK_STATE"
      BY <1>2, <2>3, Zenon DEF StreamTake
    <3>2. jobClient # 0
      BY <2>3
    <3> QED
      BY <2>1, <3>1, <3>2
  <2> QED
    BY <2>2, <2>3
<1>3. CASE StreamFree
  <2>1. /\ spc = "FREE" /\ spc' = "CLOSE"
        /\ UNCHANGED <<lpc, lclient, openClients, jobPending, jobClient,
                       ssocket>>
        /\ FreeJob
    BY <1>3 DEF StreamFree
  <2>2. jobGeneration = sgeneration
    BY <2>1
  <2>3. ~jobActive'
    BY ONLY <2>1, <2>2, Zenon DEF FreeJob
  <2> QED
    BY <2>1, <2>3
<1>4. CASE StreamClose
  BY <1>4 DEF StreamClose
<1> QED
  BY <1>1, <1>2, <1>3, <1>4 DEF StreamStep

LEMMA SocketStep ==
  ASSUME ValueTypes, ThreadInv, SocketInv, SlotHeld, [Next]_vars
  PROVE  SocketInv' /\ SlotHeld'
<1>1. CASE MainStep \/ MainShutDown
  BY <1>1, MainFrame DEF SocketInv, SlotHeld, Serving, Handling
<1>2. CASE (ResponderFails /\ UNCHANGED Others) \/ UNCHANGED vars
  BY <1>2, OtherFrame
     DEF SocketInv, SlotHeld, Others, listenerVars, jobVars, streamVars
<1> QED
  BY <1>1, <1>2, ListenerKeepsClient, ListenerMovesClient, StreamMovesClient
     DEF Next

-----------------------------------------------------------------------------
(* The theorems.                                                           *)

LEMMA Initially == Init => ServerInv
<1> SUFFICES ASSUME Init
             PROVE  ServerInv
  OBVIOUS
<1> USE DEF Init, DiscoveryInit
<1>1. FlagTypes
  BY Zenon DEF FlagTypes
<1>2. ValueTypes
  BY MaxGenerationAssumption
     DEF ValueTypes, ListenerPlaces, StreamPlaces, Generations,
         LocalAddresses, Sockets
<1>3. ThreadInv /\ GenerationInv /\ PublishedIsCurrent /\ AdvertisedIsServed
  BY DEF ThreadInv, GenerationInv, PublishedIsCurrent, AdvertisedIsServed
<1>4. AnnounceInv /\ SocketInv /\ SlotHeld
  BY DEF AnnounceInv, SocketInv, SlotHeld, Serving, Handling
<1> QED
  BY <1>1, <1>2, <1>3, <1>4 DEF ServerInv

\* The web server, the discovery and the streaming thread keep ServerInv.
THEOREM ServerInvariant == Spec => []ServerInv
<1>1. ServerInv /\ [Next]_vars => ServerInv'
  <2> SUFFICES ASSUME ServerInv, [Next]_vars
               PROVE  ServerInv'
    OBVIOUS
  <2> USE DEF ServerInv
  <2>1. FlagTypes' /\ ValueTypes'
    BY TypesStep
  <2>2. ThreadInv' /\ GenerationInv' /\ PublishedIsCurrent'
    BY ThreadStep, GenerationStep, PublishedStep
  <2>3. AnnounceInv' /\ AdvertisedIsServed'
    BY AnnounceStep
  <2>4. SocketInv' /\ SlotHeld'
    BY SocketStep
  <2> QED
    BY <2>1, <2>2, <2>3, <2>4
<1> QED
  BY Initially, <1>1, PTL DEF Spec

\* Every variable of the server and of its discovery keeps its type.
THEOREM ServerTypes == Spec => []TypeOK
<1>1. ServerInv => TypeOK
  BY TypesAreTypeOK DEF ServerInv
<1> QED
  BY <1>1, ServerInvariant, PTL

\* Every open client socket has one owner among the listener thread, the job
\* and the streaming thread, and nobody holds a closed one; the owner runs, or
\* is a job that was handed over after the streaming thread's end at shutdown.
THEOREM ClientSocketsHaveOneOwner == Spec => []SocketsOwned
<1>1. ServerInv => SocketsOwned
  <2> SUFFICES ASSUME SocketInv, ThreadInv, SlotHeld
               PROVE  SocketsOwned
    BY DEF ServerInv
  <2> DEFINE owners == <<lclient, jobClient, ssocket>>
  <2>1. 1..3 = {1, 2, 3}
    OBVIOUS
  <2>2. owners[1] = lclient /\ owners[2] = jobClient /\ owners[3] = ssocket
    OBVIOUS
  <2>3. {owners[i] : i \in 1..3} = {lclient, jobClient, ssocket}
    BY <2>1, <2>2
  <2>4. \A i, j \in 1..3 : owners[i] = owners[j] /\ i # j => owners[i] = 0
    BY <2>1, <2>2 DEF SocketInv
  <2>5. (lclient # 0 => ListenerRuns) /\ (ssocket # 0 => StreamRuns)
    BY DEF SocketInv, Serving, Handling, ListenerRuns, StreamRuns
  <2>6. jobClient # 0 => StreamRuns \/ JobLeftAtShutdown
    BY DEF SocketInv, ThreadInv, SlotHeld, StreamRuns, JobLeftAtShutdown
  <2> QED
    BY <2>3, <2>4, <2>5, <2>6 DEF SocketsOwned, SocketInv
<1> QED
  BY <1>1, ServerInvariant, PTL

\* The streaming slot is taken from the taking of a job to its freeing, by the
\* one job it names.
THEOREM StreamingSlotIsHeld == Spec => []SlotHeld
<1>1. ServerInv => SlotHeld
  BY DEF ServerInv
<1> QED
  BY <1>1, ServerInvariant, PTL

\* state() shows the generation and the address of the last update().
THEOREM StateShowsTheRequest == Spec => []PublishedIsCurrent
<1>1. ServerInv => PublishedIsCurrent
  BY DEF ServerInv
<1> QED
  BY <1>1, ServerInvariant, PTL

\* A responder that runs announces the open listening socket, of the listener's
\* generation.
THEOREM AnnouncementsAreServed == Spec => []AdvertisedIsServed
<1>1. ServerInv => AdvertisedIsServed
  BY DEF ServerInv
<1> QED
  BY <1>1, ServerInvariant, PTL
=============================================================================
