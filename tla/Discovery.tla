------------------------------ MODULE Discovery ------------------------------
(***************************************************************************)
(* discovery/LocalDiscovery: the controller that the HTTP listener thread  *)
(* reconciles by update(), over the platform's mDNS responder, which a     *)
(* thread of its own polls every 20 ms (serviceOnce).                      *)
(*                                                                         *)
(* The controller has no lock and one caller.  The responder's state is    *)
(* guarded by responderMutex_; the only thing the mDNS thread does to it   *)
(* is to clear responderRunning_, so an update() is one action, except     *)
(* that start() lets go of the mutex to start that thread: an update that  *)
(* gets there stops in the gap (starting), and DiscoveryStarted finishes   *)
(* it.  The firmware has one controller, so tryAcquire() always succeeds   *)
(* for it and sessionInUse_ is left out, as are the packets and the second *)
(* announcement.  Address 0 means none, as in the code.                    *)
(***************************************************************************)
EXTENDS Naturals

VARIABLES
  \* LocalDiscovery
  discoveryAddress,    \* requestedAddress_
  discoveryAttempted,  \* attempted_
  discoveryRunning,    \* running_
  sessionOwned,        \* sessionOwned_
  starting,            \* update() is in the gap of start()
  \* Az3166LocalDiscoveryOperations
  mdnsStarted,         \* workerStarted_
  responderRunning,    \* responderRunning_
  responderAddress,    \* the address the responder was configured with
  responderGeneration  \* history: the listener's generation at that time

controllerVars == <<discoveryAddress, discoveryAttempted, discoveryRunning,
                    sessionOwned, starting>>
responderVars  == <<mdnsStarted, responderRunning, responderAddress,
                    responderGeneration>>
discoveryVars  == <<controllerVars, responderVars>>

DiscoveryInit ==
  /\ discoveryAddress = 0
  /\ discoveryAttempted = FALSE
  /\ discoveryRunning = FALSE
  /\ sessionOwned = FALSE
  /\ starting = FALSE
  /\ mdnsStarted = FALSE
  /\ responderRunning = FALSE
  /\ responderAddress = 0
  /\ responderGeneration = 0

-----------------------------------------------------------------------------
\* stopSession(), which ends the responder if a session is owned.
StopSession ==
  /\ discoveryRunning' = FALSE
  /\ sessionOwned' = FALSE
  /\ responderRunning' = (responderRunning /\ ~sessionOwned)
  /\ responderAddress' = IF sessionOwned THEN 0 ELSE responderAddress
  /\ UNCHANGED <<starting, mdnsStarted, responderGeneration>>

\* The first critical section of start().  A responder that cannot be
\* configured is ended, and the session with it.
BeginSession(address, generation) ==
  /\ discoveryAttempted' = TRUE
  /\ discoveryRunning' = FALSE
  /\ responderRunning' = FALSE
  /\ \/ /\ sessionOwned' = TRUE
        /\ starting' = TRUE
        /\ responderAddress' = address
        /\ responderGeneration' = generation
     \/ /\ sessionOwned' = FALSE
        /\ responderAddress' = 0
        /\ UNCHANGED <<starting, responderGeneration>>
  /\ UNCHANGED mdnsStarted

\* update() with another address: the old session ends, a new one begins.
UpdateMoves(address, generation) ==
  /\ address # discoveryAddress
  /\ discoveryAddress' = address
  /\ \/ address = 0 /\ StopSession /\ discoveryAttempted' = FALSE
     \/ address # 0 /\ BeginSession(address, generation)

\* update() finds that the responder's transport has failed.
UpdateNotices(address) ==
  /\ address = discoveryAddress
  /\ discoveryRunning
  /\ ~responderRunning
  /\ StopSession
  /\ discoveryAttempted' = TRUE
  /\ UNCHANGED discoveryAddress

\* update() tries again, when the retry interval is over.
UpdateRetries(address, generation, retryElapsed) ==
  /\ address = discoveryAddress
  /\ address # 0
  /\ ~discoveryRunning
  /\ ~discoveryAttempted \/ retryElapsed
  /\ BeginSession(address, generation)
  /\ UNCHANGED discoveryAddress

UpdateRests(address, retryElapsed) ==
  /\ address = discoveryAddress
  /\ \/ address = 0
     \/ discoveryRunning /\ responderRunning
     \/ ~discoveryRunning /\ discoveryAttempted /\ ~retryElapsed
  /\ UNCHANGED discoveryVars

\* LocalDiscovery::update(), by the listener's generation.
DiscoveryUpdate(address, generation) ==
  \/ UpdateMoves(address, generation)
  \/ UpdateNotices(address)
  \/ \E retryElapsed \in BOOLEAN :
       \/ UpdateRetries(address, generation, retryElapsed)
       \/ UpdateRests(address, retryElapsed)

\* The rest of start(): the mDNS thread runs, or could not be started.
DiscoveryStarted ==
  /\ starting
  /\ starting' = FALSE
  /\ \/ /\ mdnsStarted' = TRUE
        /\ responderRunning' = TRUE
        /\ discoveryRunning' = TRUE
        /\ UNCHANGED <<sessionOwned, responderAddress>>
     \/ /\ ~mdnsStarted
        /\ discoveryRunning' = FALSE
        /\ sessionOwned' = FALSE
        /\ responderAddress' = 0
        /\ UNCHANGED <<mdnsStarted, responderRunning>>
  /\ UNCHANGED <<discoveryAddress, discoveryAttempted, responderGeneration>>

\* serviceOnce(): the responder's transport fails.
ResponderFails ==
  /\ responderRunning
  /\ responderRunning' = FALSE
  /\ UNCHANGED <<controllerVars, mdnsStarted, responderAddress,
                 responderGeneration>>

-----------------------------------------------------------------------------
DiscoveryTypeOK ==
  /\ discoveryAddress \in Nat
  /\ discoveryAttempted \in BOOLEAN
  /\ discoveryRunning \in BOOLEAN
  /\ sessionOwned \in BOOLEAN
  /\ starting \in BOOLEAN
  /\ mdnsStarted \in BOOLEAN
  /\ responderRunning \in BOOLEAN
  /\ responderAddress \in Nat
  /\ responderGeneration \in Nat
=============================================================================
