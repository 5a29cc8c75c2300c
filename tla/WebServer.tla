------------------------------ MODULE WebServer ------------------------------
(***************************************************************************)
(* http/LocalWebServer over discovery/LocalDiscovery:                      *)
(*   - the main loop, which calls update() with the address of the moment, *)
(*     starts the two threads and, in the end, may destroy the server;     *)
(*   - the listener thread (run), which owns the listening socket, serves  *)
(*     one client at a time, hands streaming requests over, and tells      *)
(*     LocalDiscovery whether the service is available;                    *)
(*   - the streaming thread (runStreaming), which owns the socket of the   *)
(*     one streaming job.                                                  *)
(*                                                                         *)
(* An action is one critical section (stateMutex_ or streamingMutex_), or  *)
(* one call of the sockets or of LocalDiscovery, between two of them.      *)
(* Left out: state_.error and the text of requests and responses; whether  *)
(* a retry interval is over is a free choice; streamingSignal_ is waited   *)
(* for with a 20 ms timeout, so the streaming thread looks anyway.  The    *)
(* "starting" flags guard update() against a second caller, and the main   *)
(* loop is the only one.  Descriptor 0 stands for none (-1 in the code).   *)
(***************************************************************************)
EXTENDS Discovery, FiniteSets

CONSTANTS
  Addresses,      \* local addresses the network may assign
  Descriptors,    \* client sockets lwIP can have open
  MaxGeneration,  \* bound: address changes
  MayShutDown     \* bound: whether the server is ever destroyed

ASSUME AddressesAssumption == Addresses \subseteq Nat \ {0}
ASSUME DescriptorsAssumption == Descriptors \subseteq Nat \ {0}
ASSUME MaxGenerationAssumption == MaxGeneration \in Nat
ASSUME MayShutDownAssumption == MayShutDown \in BOOLEAN

VARIABLES
  mpc,                \* the main loop's place
  \* guarded by stateMutex_
  requestedAddress, requestedGeneration, shutdown,
  listening, stateAddress, stateGeneration,
  workerStarted, workerAttempted, streamStarted, streamAttempted,
  \* the listener thread
  lpc, lrequested, lgeneration, lattempted,
  listener,           \* the address its socket is bound to, 0 if closed
  lclient,
  \* streamingJob_, guarded by streamingMutex_
  jobPending, jobActive, jobCancelled, jobClient, jobGeneration,
  \* the streaming thread
  spc, sgeneration, ssocket, sshutdown,
  openClients         \* the client sockets that lwIP has open

requestVars  == <<requestedAddress, requestedGeneration, shutdown>>
publicVars   == <<listening, stateAddress, stateGeneration>>
startVars    == <<workerStarted, workerAttempted, streamStarted,
                  streamAttempted>>
listenerVars == <<lpc, lrequested, lgeneration, lattempted, listener,
                  lclient>>
jobVars      == <<jobPending, jobActive, jobCancelled, jobClient,
                  jobGeneration>>
streamVars   == <<spc, sgeneration, ssocket, sshutdown>>
mainVars     == <<mpc, requestVars, startVars>>
vars == <<mainVars, publicVars, listenerVars, jobVars, streamVars,
          openClients, discoveryVars>>

Requested == [address |-> requestedAddress, generation |-> requestedGeneration]

\* isCurrent()
IsCurrent(g) ==
  ~shutdown /\ requestedAddress # 0 /\ requestedGeneration = g

Init ==
  /\ DiscoveryInit
  /\ mpc = "IDLE"
  /\ requestedAddress = 0 /\ requestedGeneration = 0 /\ shutdown = FALSE
  /\ listening = FALSE /\ stateAddress = 0 /\ stateGeneration = 0
  /\ workerStarted = FALSE /\ workerAttempted = FALSE
  /\ streamStarted = FALSE /\ streamAttempted = FALSE
  /\ lpc = "OFF"
  /\ lrequested = [address |-> 0, generation |-> 0]
  /\ lgeneration = 0 /\ lattempted = FALSE /\ listener = 0 /\ lclient = 0
  /\ jobPending = FALSE /\ jobActive = FALSE /\ jobCancelled = FALSE
  /\ jobClient = 0 /\ jobGeneration = 0
  /\ spc = "OFF" /\ sgeneration = 0 /\ ssocket = 0 /\ sshutdown = FALSE
  /\ openClients = {}

-----------------------------------------------------------------------------
(* The main loop.                                                          *)

\* update(): a new address starts a new generation.
MainRequest ==
  /\ mpc = "IDLE"
  /\ \E address \in Addresses \cup {0} :
       /\ mpc' = IF address = 0 THEN "IDLE" ELSE "START_STREAM"
       /\ \/ /\ address # requestedAddress
             /\ requestedGeneration < MaxGeneration
             /\ requestedAddress' = address
             /\ requestedGeneration' = requestedGeneration + 1
             /\ listening' = FALSE
             /\ stateAddress' = 0
             /\ stateGeneration' = requestedGeneration + 1
             /\ workerAttempted' = FALSE
          \/ /\ address = requestedAddress
             /\ UNCHANGED <<requestedAddress, requestedGeneration,
                            publicVars, workerAttempted>>
  /\ UNCHANGED <<shutdown, workerStarted, streamStarted, streamAttempted,
                 listenerVars, jobVars, streamVars, openClients,
                 discoveryVars>>

\* Mutated: the listener is started whether or not the streaming thread was.
MainStartStreamUnchecked ==
  /\ mpc = "START_STREAM"
  /\ mpc' = "START_WORKER"
  /\ \/ UNCHANGED <<startVars, spc>>
     \/ /\ ~streamStarted
        /\ streamStarted' = TRUE /\ spc' = "TOP" /\ streamAttempted' = TRUE
        /\ UNCHANGED <<workerStarted, workerAttempted>>
  /\ UNCHANGED <<requestVars, publicVars, listenerVars, jobVars, sgeneration,
                 ssocket, sshutdown, openClients, discoveryVars>>

\* startStreamingWorker()
MainStartStream ==
  /\ mpc = "START_STREAM"
  /\ \/ streamStarted /\ mpc' = "START_WORKER" /\ UNCHANGED <<startVars, spc>>
     \/ \* the retry interval is not over
        /\ ~streamStarted /\ streamAttempted
        /\ mpc' = "IDLE"
        /\ UNCHANGED <<startVars, spc>>
     \/ /\ ~streamStarted
        /\ streamAttempted' = TRUE
        /\ \/ streamStarted' = TRUE /\ spc' = "TOP" /\ mpc' = "START_WORKER"
           \/ mpc' = "IDLE" /\ UNCHANGED <<streamStarted, spc>>
        /\ UNCHANGED <<workerStarted, workerAttempted>>
  /\ UNCHANGED <<requestVars, publicVars, listenerVars, jobVars, sgeneration,
                 ssocket, sshutdown, openClients, discoveryVars>>

\* The end of update(): start the listener thread unless it runs.
MainStartWorker ==
  /\ mpc = "START_WORKER"
  /\ mpc' = "IDLE"
  /\ \/ workerStarted /\ UNCHANGED <<workerStarted, workerAttempted, lpc>>
     \/ \* the retry interval is not over
        /\ ~workerStarted /\ workerAttempted
        /\ UNCHANGED <<workerStarted, workerAttempted, lpc>>
     \/ /\ ~workerStarted
        /\ workerAttempted' = TRUE
        /\ \/ workerStarted' = TRUE /\ lpc' = "TOP"
           \/ UNCHANGED <<workerStarted, lpc>>
  /\ UNCHANGED <<requestVars, publicVars, streamStarted, streamAttempted,
                 lrequested, lgeneration, lattempted, listener, lclient,
                 jobVars, streamVars, openClients, discoveryVars>>

\* ~LocalWebServer(): request the shutdown, cancel the job, join the threads.
MainShutDown ==
  /\ MayShutDown
  /\ mpc = "IDLE"
  /\ shutdown' = TRUE
  /\ mpc' = "CANCEL_JOB"
  /\ UNCHANGED <<requestedAddress, requestedGeneration, publicVars, startVars,
                 listenerVars, jobVars, streamVars, openClients,
                 discoveryVars>>

MainCancelJob ==
  /\ mpc = "CANCEL_JOB"
  /\ jobCancelled' = TRUE
  /\ mpc' = "JOIN_WORKER"
  /\ UNCHANGED <<requestVars, publicVars, startVars, listenerVars, jobPending,
                 jobActive, jobClient, jobGeneration, streamVars, openClients,
                 discoveryVars>>

MainJoin(here, next, started, ended) ==
  /\ mpc = here
  /\ started => ended
  /\ mpc' = next
  /\ UNCHANGED <<requestVars, publicVars, startVars, listenerVars, jobVars,
                 streamVars, openClients, discoveryVars>>

MainJoinWorker ==
  MainJoin("JOIN_WORKER", "JOIN_STREAM", workerStarted, lpc = "ENDED")
MainJoinStream ==
  MainJoin("JOIN_STREAM", "DESTROYED", streamStarted, spc = "ENDED")

-----------------------------------------------------------------------------
(* The listener thread.                                                    *)

\* A step that changes the listener's own variables at most.
ListenerGoto(place) ==
  /\ lpc' = place
  /\ UNCHANGED <<mainVars, streamVars>>

\* Mutated: a new generation does not withdraw the old one's service.
ListenerTopUnwithdrawn ==
  /\ lpc = "TOP"
  /\ lrequested' = Requested
  /\ ListenerGoto(IF shutdown THEN "FINISH"
                  ELSE IF lgeneration # requestedGeneration THEN "RESET"
                  ELSE "OPEN")
  /\ UNCHANGED <<lgeneration, lattempted, listener, lclient, publicVars,
                 jobVars, openClients, discoveryVars>>

\* Mutated: the listener follows the address, not its generation.
ListenerTopByAddress ==
  /\ lpc = "TOP"
  /\ lrequested' = Requested
  /\ ListenerGoto(IF shutdown THEN "FINISH"
                  ELSE IF lrequested.address # requestedAddress THEN "WITHDRAW"
                  ELSE "OPEN")
  /\ UNCHANGED <<lgeneration, lattempted, listener, lclient, publicVars,
                 jobVars, openClients, discoveryVars>>

ListenerTop ==
  /\ lpc = "TOP"
  /\ lrequested' = Requested
  /\ ListenerGoto(IF shutdown THEN "FINISH"
                  ELSE IF lgeneration # requestedGeneration THEN "WITHDRAW"
                  ELSE "OPEN")
  /\ UNCHANGED <<lgeneration, lattempted, listener, lclient, publicVars,
                 jobVars, openClients, discoveryVars>>

\* notifyService(false, 0)
Withdraw(here, next) ==
  /\ lpc = here
  /\ DiscoveryUpdate(0, lgeneration)
  /\ ListenerGoto(next)
  /\ UNCHANGED <<lrequested, lgeneration, lattempted, listener, lclient,
                 publicVars, jobVars, openClients>>

\* listener.reset()
CloseListener(here, next) ==
  /\ lpc = here
  /\ listener' = 0
  /\ ListenerGoto(next)
  /\ UNCHANGED <<lrequested, lclient, publicVars, jobVars, openClients,
                 discoveryVars>>

\* The generation changed: withdraw the service, then close its socket.
ListenerWithdraw == Withdraw("WITHDRAW", "RESET")
ListenerReset ==
  /\ CloseListener("RESET", "OPEN")
  /\ lgeneration' = lrequested.generation
  /\ lattempted' = FALSE

ListenerOpen ==
  /\ lpc = "OPEN"
  /\ \/ /\ lrequested.address # 0 /\ listener = 0
        /\ listener' \in {lrequested.address, 0}
        /\ lattempted' = TRUE
        /\ ListenerGoto("PUBLISH")
     \/ \* nothing to open, or the retry interval is not over
        /\ lrequested.address # 0 /\ listener = 0 => lattempted
        /\ ListenerGoto("CHECK")
        /\ UNCHANGED <<lattempted, listener>>
  /\ UNCHANGED <<lrequested, lgeneration, lclient, publicVars, jobVars,
                 openClients, discoveryVars>>

\* Mutated: the state is published for whatever generation was opened.
PublishStateLate(g, address) ==
  /\ listening' = (address # 0)
  /\ stateAddress' = address
  /\ stateGeneration' = g

\* Mutated: the generation to come is published.
PublishStateNext(g, address) ==
  /\ listening' = (address # 0)
  /\ stateAddress' = address
  /\ stateGeneration' = g + 1

\* publishState(): only for the generation of the moment.
PublishState(g, address) ==
  \/ /\ ~shutdown /\ requestedGeneration = g
     /\ listening' = (address # 0)
     /\ stateAddress' = address
     /\ stateGeneration' = g
  \/ /\ shutdown \/ requestedGeneration # g
     /\ UNCHANGED publicVars

\* A socket that is not for the generation of the moment is closed again.
ListenerPublish ==
  /\ lpc = "PUBLISH"
  /\ PublishState(lgeneration, listener)
  /\ \/ /\ ~shutdown /\ requestedGeneration = lgeneration
        /\ ListenerGoto("CHECK")
        /\ UNCHANGED listener
     \/ /\ shutdown \/ requestedGeneration # lgeneration
        /\ listener' = 0
        /\ ListenerGoto("TOP")
  /\ UNCHANGED <<lrequested, lgeneration, lattempted, lclient, jobVars,
                 openClients, discoveryVars>>

ListenerCheck ==
  /\ lpc = "CHECK"
  /\ ListenerGoto(IF listener # 0 /\ IsCurrent(lgeneration)
                  THEN "ANNOUNCE" ELSE "UNAVAILABLE")
  /\ UNCHANGED <<lrequested, lgeneration, lattempted, listener, lclient,
                 publicVars, jobVars, openClients, discoveryVars>>

\* notifyService(true, address), which may stop in the gap of start().
ListenerAnnounce ==
  /\ lpc = "ANNOUNCE"
  /\ DiscoveryUpdate(lrequested.address, lgeneration)
  /\ ListenerGoto(IF starting' THEN "STARTING" ELSE "ACCEPT")
  /\ UNCHANGED <<lrequested, lgeneration, lattempted, listener, lclient,
                 publicVars, jobVars, openClients>>

ListenerStarted ==
  /\ lpc = "STARTING"
  /\ DiscoveryStarted
  /\ ListenerGoto("ACCEPT")
  /\ UNCHANGED <<lrequested, lgeneration, lattempted, listener, lclient,
                 publicVars, jobVars, openClients>>

ListenerUnavailable == Withdraw("UNAVAILABLE", "TOP")

\* acceptClient(): a client, nobody, or an error of the listening socket.
ListenerAccept ==
  /\ lpc = "ACCEPT"
  /\ \/ \E c \in Descriptors \ openClients :
          /\ lclient' = c
          /\ openClients' = openClients \cup {c}
          /\ ListenerGoto("READ")
     \/ ListenerGoto("TOP") /\ UNCHANGED <<lclient, openClients>>
     \/ ListenerGoto("FAILED") /\ UNCHANGED <<lclient, openClients>>
  /\ UNCHANGED <<lrequested, lgeneration, lattempted, listener, publicVars,
                 jobVars, discoveryVars>>

ListenerFailed == Withdraw("FAILED", "FAILED_CLOSE")
ListenerFailedClose ==
  CloseListener("FAILED_CLOSE", "FAILED_PUBLISH")
    /\ UNCHANGED <<lgeneration, lattempted>>
ListenerFailedPublish ==
  /\ lpc = "FAILED_PUBLISH"
  /\ PublishState(lgeneration, 0)
  /\ ListenerGoto("TOP")
  /\ UNCHANGED <<lrequested, lgeneration, lattempted, listener, lclient,
                 jobVars, openClients, discoveryVars>>

\* readRequest() reads while the generation lasts, for up to 2 s; a request
\* that is not complete by then, or malformed, is answered 400.
ListenerRead ==
  /\ lpc = "READ"
  /\ \/ IsCurrent(lgeneration) /\ ListenerGoto("SERVE")
     \/ ListenerGoto("RESPOND")
  /\ UNCHANGED <<lrequested, lgeneration, lattempted, listener, lclient,
                 publicVars, jobVars, openClients, discoveryVars>>

\* serveClient(): the request is for the streaming handler, or the handler's
\* answer to it is to be sent.
ListenerServe ==
  /\ lpc = "SERVE"
  /\ \E place \in {"TRANSFER", "RESPOND"} : ListenerGoto(place)
  /\ UNCHANGED <<lrequested, lgeneration, lattempted, listener, lclient,
                 publicVars, jobVars, openClients, discoveryVars>>

\* transferStreamingRequest(): refused for a request of another generation
\* (checked twice, the later check implying the earlier one).
ListenerTransfer ==
  /\ lpc = "TRANSFER"
  /\ ListenerGoto(IF IsCurrent(lgeneration) THEN "HAND_OVER" ELSE "RESPOND")
  /\ UNCHANGED <<lrequested, lgeneration, lattempted, listener, lclient,
                 publicVars, jobVars, openClients, discoveryVars>>

\* Mutated: a job that is being handled does not keep the slot.
JobFreeUnlessPending == ~jobPending

JobFree == ~jobPending /\ ~jobActive

\* Mutated: the listener's owner of the socket keeps it.
HandOverShared ==
  /\ jobPending' = TRUE
  /\ jobCancelled' = FALSE
  /\ jobClient' = lclient
  /\ jobGeneration' = lgeneration
  /\ UNCHANGED <<lclient, jobActive>>

\* The job takes the socket over.
HandOver ==
  /\ jobPending' = TRUE
  /\ jobCancelled' = FALSE
  /\ jobClient' = lclient
  /\ jobGeneration' = lgeneration
  /\ lclient' = 0
  /\ UNCHANGED jobActive

ListenerHandOver ==
  /\ lpc = "HAND_OVER"
  /\ \/ JobFree /\ HandOver /\ ListenerGoto("TOP")
     \/ ~JobFree /\ ListenerGoto("RESPOND") /\ UNCHANGED <<jobVars, lclient>>
  /\ UNCHANGED <<lrequested, lgeneration, lattempted, listener, publicVars,
                 openClients, discoveryVars>>

\* The response is attempted, for up to 2 s and while the generation lasts;
\* the socket is closed in either case.
ListenerRespond ==
  /\ lpc = "RESPOND"
  /\ openClients' = openClients \ {lclient}
  /\ lclient' = 0
  /\ ListenerGoto("TOP")
  /\ UNCHANGED <<lrequested, lgeneration, lattempted, listener, publicVars,
                 jobVars, discoveryVars>>

ListenerFinish == Withdraw("FINISH", "FINISH_CLOSE")
ListenerFinishClose ==
  CloseListener("FINISH_CLOSE", "ENDED") /\ UNCHANGED <<lgeneration, lattempted>>

-----------------------------------------------------------------------------
(* The streaming thread.                                                   *)

StreamGoto(place) ==
  /\ spc' = place
  /\ UNCHANGED <<mainVars, publicVars, listenerVars, discoveryVars>>

StreamTop ==
  /\ spc = "TOP"
  /\ sshutdown' = shutdown
  /\ StreamGoto("TAKE")
  /\ UNCHANGED <<sgeneration, ssocket, jobVars, openClients>>

\* Take the pending job; end if the server was shut down and there is none.
StreamTake ==
  /\ spc = "TAKE"
  /\ \/ /\ ~jobPending
        /\ StreamGoto(IF sshutdown /\ ~jobActive THEN "ENDED" ELSE "TOP")
        /\ UNCHANGED <<sgeneration, ssocket, jobVars>>
     \/ /\ jobPending
        /\ jobPending' = FALSE
        /\ jobActive' = TRUE
        /\ ssocket' = jobClient
        /\ jobClient' = 0
        /\ sgeneration' = jobGeneration
        /\ StreamGoto("CHECK_STATE")
        /\ UNCHANGED <<jobCancelled, jobGeneration>>
  /\ UNCHANGED <<sshutdown, openClients>>

\* isStreamingCurrent() takes the two mutexes one after the other.
StreamCheckState ==
  /\ spc = "CHECK_STATE"
  /\ StreamGoto(IF IsCurrent(sgeneration) THEN "CHECK_JOB" ELSE "FREE")
  /\ UNCHANGED <<sgeneration, ssocket, sshutdown, jobVars, openClients>>

StreamCheckJob ==
  /\ spc = "CHECK_JOB"
  /\ StreamGoto(IF /\ jobPending \/ jobActive
                   /\ jobGeneration = sgeneration
                   /\ ~jobCancelled
                THEN "HANDLE" ELSE "FREE")
  /\ UNCHANGED <<sgeneration, ssocket, sshutdown, jobVars, openClients>>

\* The handler returns, the response is attempted and afterAttempt is called.
StreamHandle ==
  /\ spc = "HANDLE"
  /\ StreamGoto("FREE")
  /\ UNCHANGED <<sgeneration, ssocket, sshutdown, jobVars, openClients>>

\* Mutated: the slot is left to the next job only if this one was handled.
FreeJobUncancelled ==
  /\ jobActive' = (jobActive /\ (jobGeneration # sgeneration \/ jobCancelled))
  /\ UNCHANGED <<jobCancelled, jobGeneration>>

FreeJob ==
  LET mine == jobGeneration = sgeneration IN
  /\ jobActive' = (jobActive /\ ~mine)
  /\ jobCancelled' = (jobCancelled /\ ~mine)
  /\ jobGeneration' = IF mine THEN 0 ELSE jobGeneration

StreamFree ==
  /\ spc = "FREE"
  /\ FreeJob
  /\ StreamGoto("CLOSE")
  /\ UNCHANGED <<sgeneration, ssocket, sshutdown, jobPending, jobClient,
                 openClients>>

StreamClose ==
  /\ spc = "CLOSE"
  /\ openClients' = openClients \ {ssocket}
  /\ ssocket' = 0
  /\ sgeneration' = 0
  /\ StreamGoto("TOP")
  /\ UNCHANGED <<sshutdown, jobVars>>

\* cancelStreamingRequest()
CancelStreamingRequest ==
  /\ jobPending \/ jobActive
  /\ jobCancelled' = TRUE
  /\ UNCHANGED <<mainVars, publicVars, listenerVars, jobPending, jobActive,
                 jobClient, jobGeneration, streamVars, openClients,
                 discoveryVars>>

-----------------------------------------------------------------------------
MainStep ==
  \/ MainRequest
  \/ MainStartStream
  \/ MainStartWorker
  \/ MainCancelJob
  \/ MainJoinWorker
  \/ MainJoinStream

ListenerStep ==
  \/ ListenerTop
  \/ ListenerWithdraw
  \/ ListenerReset
  \/ ListenerOpen
  \/ ListenerPublish
  \/ ListenerCheck
  \/ ListenerAnnounce
  \/ ListenerStarted
  \/ ListenerUnavailable
  \/ ListenerAccept
  \/ ListenerFailed
  \/ ListenerFailedClose
  \/ ListenerFailedPublish
  \/ ListenerRead
  \/ ListenerServe
  \/ ListenerTransfer
  \/ ListenerHandOver
  \/ ListenerRespond
  \/ ListenerFinish
  \/ ListenerFinishClose

StreamStep ==
  \/ StreamTop
  \/ StreamTake
  \/ StreamCheckState
  \/ StreamCheckJob
  \/ StreamHandle
  \/ StreamFree
  \/ StreamClose

Others == <<mainVars, publicVars, listenerVars, jobVars, streamVars,
            openClients>>

Next ==
  \/ MainStep
  \/ MainShutDown
  \/ ListenerStep
  \/ StreamStep
  \/ CancelStreamingRequest
  \/ ResponderFails /\ UNCHANGED Others
  \/ mpc = "DESTROYED" /\ UNCHANGED vars

Spec == Init /\ [][Next]_vars

(***************************************************************************)
(* Each thread keeps running: its waits are bounded (20 ms, 1 ms), so are  *)
(* reads, responses (2 s) and, by their own deadlines, the handlers.  What *)
(* the network must grant now and then for the service to come back (a     *)
(* thread, a listening socket) is assumed strongly.                        *)
(***************************************************************************)
ThreadFairness ==
  /\ WF_vars(MainStep)
  /\ WF_vars(ListenerStep)
  /\ WF_vars(StreamStep)

SuccessFairness ==
  /\ SF_vars(MainStartStream /\ streamStarted')
  /\ SF_vars(MainStartWorker /\ workerStarted')
  /\ SF_vars(ListenerOpen /\ listener' # 0)

FairSpec == Spec /\ ThreadFairness /\ SuccessFairness

-----------------------------------------------------------------------------
(* Properties.                                                             *)

\* Every variable keeps its type.
TypeOK ==
  /\ DiscoveryTypeOK
  /\ mpc \in {"IDLE", "START_STREAM", "START_WORKER", "CANCEL_JOB",
              "JOIN_WORKER", "JOIN_STREAM", "DESTROYED"}
  /\ requestedAddress \in Addresses \cup {0}
  /\ requestedGeneration \in 0..MaxGeneration
  /\ stateAddress \in Addresses \cup {0}
  /\ stateGeneration \in 0..MaxGeneration
  /\ {shutdown, listening, workerStarted, workerAttempted, streamStarted,
      streamAttempted, lattempted, jobPending, jobActive, jobCancelled,
      sshutdown} \subseteq BOOLEAN
  /\ lpc \in {"OFF", "TOP", "WITHDRAW", "RESET", "OPEN", "PUBLISH", "CHECK",
              "ANNOUNCE", "STARTING", "UNAVAILABLE", "ACCEPT", "FAILED",
              "FAILED_CLOSE", "FAILED_PUBLISH", "READ", "SERVE", "TRANSFER",
              "HAND_OVER", "RESPOND", "FINISH", "FINISH_CLOSE", "ENDED"}
  /\ lrequested \in [address : Addresses \cup {0},
                     generation : 0..MaxGeneration]
  /\ {lgeneration, jobGeneration, sgeneration} \subseteq 0..MaxGeneration
  /\ listener \in Addresses \cup {0}
  /\ {lclient, jobClient, ssocket} \subseteq Descriptors \cup {0}
  /\ spc \in {"OFF", "TOP", "TAKE", "CHECK_STATE", "CHECK_JOB", "HANDLE",
              "FREE", "CLOSE", "ENDED"}
  /\ openClients \subseteq Descriptors

ListenerRuns == lpc \notin {"OFF", "ENDED"}
StreamRuns   == spc \notin {"OFF", "ENDED"}

\* The one leak there is: the streaming thread, asked to shut down, found no job
\* and ended, and the listener, past its last look at the shutdown, handed one
\* over after that.  Nobody closes its socket, whatever ~LocalWebServer() is
\* said to do (docs/firmware-design.md:555, "closing remaining sockets").
JobLeftAtShutdown == shutdown /\ jobPending /\ spc = "ENDED"

\* Every open client socket has exactly one owner among the listener thread,
\* the job and the streaming thread, and nobody holds a closed one: none is
\* closed twice or used by two threads (LocalHttpSocket::release() and reset(),
\* transferStreamingRequest(), runStreaming()).  Its owner is a running thread,
\* or a job that a running thread will take: none is leaked but by
\* JobLeftAtShutdown.
SocketsOwned ==
  LET owners == <<lclient, jobClient, ssocket>> IN
  /\ openClients = {owners[i] : i \in 1..3} \ {0}
  /\ \A i, j \in 1..3 : owners[i] = owners[j] /\ i # j => owners[i] = 0
  /\ lclient # 0 => ListenerRuns
  /\ ssocket # 0 => StreamRuns
  /\ jobClient # 0 => StreamRuns \/ JobLeftAtShutdown

\* The one slot is taken exactly while the streaming thread is between
\* taking a job and freeing it, and it names that job's generation: a second
\* job is never handed over meanwhile, nor freed in its place.
SlotHeld ==
  /\ jobActive <=> spc \in {"CHECK_STATE", "CHECK_JOB", "HANDLE", "FREE"}
  /\ jobActive => ~jobPending /\ jobGeneration = sgeneration
  /\ jobPending <=> jobClient # 0

\* state() never shows a listener of another generation or address than the
\* one update() last asked for (publishState() against update()).
PublishedIsCurrent ==
  /\ stateGeneration = requestedGeneration
  /\ stateAddress \in {0, requestedAddress}
  /\ listening <=> stateAddress # 0

\* The responder runs only while the listening socket it announces is open,
\* and never from one generation into the next (notifyService() in run();
\* discovery/README.md, "Deliver an unavailable update between connection
\* generations").
AdvertisedIsServed ==
  responderRunning =>
    /\ listener # 0
    /\ responderAddress = listener
    /\ responderGeneration = lgeneration
    /\ discoveryRunning /\ sessionOwned

\* Once its generation is over, an announced service is withdrawn, even if
\* the same address comes back (run(), LocalDiscovery::update()).
StaleServiceEnds ==
  \A g \in 1..MaxGeneration :
    responderRunning /\ responderGeneration = g /\ requestedGeneration # g
      ~> ~(responderRunning /\ responderGeneration = g)

\* While one address stays, the server is listening again and again, however
\* often a thread, a socket or the listener failed before (run()).
ListensAgain ==
  \A a \in Addresses :
    <>[](requestedAddress = a /\ ~shutdown) => []<>listening

\* A streaming job, cancelled or not, frees the slot, unless the server is
\* shut down (runStreaming()).
SlotFreed ==
  jobPending \/ jobActive ~> (~jobPending /\ ~jobActive) \/ shutdown

=============================================================================
