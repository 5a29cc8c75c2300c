------------------------- MODULE NetworkMaintenance -------------------------
(***************************************************************************)
(* connectivity/NetworkMaintenanceCoordinator: the lease by which cloud    *)
(* uploads and OTA sessions exclude each other.  Every method of the class *)
(* takes its one mutex for its whole body, so each is one atomic operation *)
(* here.  A method that returns bool is split into the condition under     *)
(* which it returns true (Can...) and the change it then makes; when it    *)
(* returns false it changes nothing.                                       *)
(*                                                                         *)
(* The module has no next-state relation of its own: its operations are    *)
(* called by the OTA controller and by the main loop (OtaController,       *)
(* OtaDevice), which share these variables.                                *)
(***************************************************************************)
EXTENDS Naturals

VARIABLES
  cloudInFlight,  \* a synchronous cloud upload is running in the main loop
  otaReserved,    \* an OTA session owns or waits for the lease
  otaLeased,      \* the reservation has been granted
  otaGeneration   \* controller generation of the reservation, 0 if none

netVars == <<cloudInFlight, otaReserved, otaLeased, otaGeneration>>

NetInit ==
  /\ cloudInFlight = FALSE
  /\ otaReserved = FALSE
  /\ otaLeased = FALSE
  /\ otaGeneration = 0

NetReset ==
  /\ cloudInFlight' = FALSE
  /\ otaReserved' = FALSE
  /\ otaLeased' = FALSE
  /\ otaGeneration' = 0

\* Mutated: a waiting OTA session does not keep the cloud out.
CanBeginCloudAnyTime == ~cloudInFlight

CanBeginCloud == ~cloudInFlight /\ ~otaReserved

BeginCloud ==
  /\ CanBeginCloud
  /\ cloudInFlight' = TRUE
  /\ UNCHANGED <<otaReserved, otaLeased, otaGeneration>>

EndCloud ==
  /\ cloudInFlight' = FALSE
  /\ UNCHANGED <<otaReserved, otaLeased, otaGeneration>>

CanReserveOta(g) == ~otaReserved /\ g # 0

ReserveOta(g) ==
  /\ CanReserveOta(g)
  /\ otaReserved' = TRUE
  /\ otaLeased' = FALSE
  /\ otaGeneration' = g
  /\ UNCHANGED cloudInFlight

CanGrantOta(g) == otaReserved /\ otaGeneration = g /\ ~cloudInFlight

GrantOta(g) ==
  /\ CanGrantOta(g)
  /\ otaLeased' = TRUE
  /\ UNCHANGED <<cloudInFlight, otaReserved, otaGeneration>>

\* Mutated: any generation releases the reservation.
HoldsAnyReservation(g) == otaReserved

(***************************************************************************)
(* releaseOta ignores every generation but the one that holds the          *)
(* reservation.                                                            *)
(***************************************************************************)
HoldsReservation(g) == otaReserved /\ otaGeneration = g

ReleaseOta(g) ==
  \/ /\ HoldsReservation(g)
     /\ otaReserved' = FALSE
     /\ otaLeased' = FALSE
     /\ otaGeneration' = 0
     /\ UNCHANGED cloudInFlight
  \/ /\ ~HoldsReservation(g)
     /\ UNCHANGED netVars

NetTypeOK ==
  /\ cloudInFlight \in BOOLEAN
  /\ otaReserved \in BOOLEAN
  /\ otaLeased \in BOOLEAN
  /\ otaGeneration \in Nat
=============================================================================
