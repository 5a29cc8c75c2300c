------------------------------ MODULE OtaSession ------------------------------
(***************************************************************************)
(* What the OTA controller promises the rest of the device, with no        *)
(* threads, no worker and no generations: one session at a time, from its  *)
(* reservation to its release, in exclusion with cloud uploads; a          *)
(* cancellation that is accepted ends it; only a session that was Ready    *)
(* and was not cancelled writes the boot table, and after that no session  *)
(* starts before the reset.                                                *)
(***************************************************************************)

VARIABLES
  phase,      \* of the session, "Free" if there is none
  cancelled,  \* the live session has accepted a cancellation
  pending,    \* the boot table asks for an update
  cloud       \* a cloud upload is running

sessionPhaseVars == <<phase, cancelled, pending, cloud>>

Phases == {"Free", "Waiting", "Transfer", "Ready", "Activating", "Closing",
           "Lockout"}
Live == {"Waiting", "Transfer", "Ready"}

TypeOK ==
  /\ phase \in Phases
  /\ cancelled \in BOOLEAN
  /\ pending \in BOOLEAN
  /\ cloud \in BOOLEAN

Init ==
  /\ phase = "Free"
  /\ cancelled = FALSE
  /\ pending = FALSE
  /\ cloud = FALSE

Reserve ==
  /\ phase = "Free"
  /\ ~pending
  /\ phase' = "Waiting"
  /\ UNCHANGED <<cancelled, pending, cloud>>

\* The cloud upload that was running, if any, is over.
Grant ==
  /\ phase = "Waiting"
  /\ ~cloud
  /\ phase' = "Transfer"
  /\ UNCHANGED <<cancelled, pending, cloud>>

Stage ==
  /\ phase = "Transfer"
  /\ ~cancelled
  /\ phase' = "Ready"
  /\ UNCHANGED <<cancelled, pending, cloud>>

Cancel ==
  /\ phase \in Live
  /\ cancelled' = TRUE
  /\ UNCHANGED <<phase, pending, cloud>>

\* A transfer may fail; a session that waits or is Ready ends only because it
\* was cancelled.
Close ==
  /\ phase = "Transfer" \/ (phase \in Live /\ cancelled)
  /\ phase' = "Closing"
  /\ cancelled' = FALSE
  /\ UNCHANGED <<pending, cloud>>

Claim ==
  /\ phase = "Ready"
  /\ ~cancelled
  /\ phase' = "Activating"
  /\ UNCHANGED <<cancelled, pending, cloud>>

WriteBootTable ==
  /\ phase = "Activating"
  /\ pending' = TRUE
  /\ UNCHANGED <<phase, cancelled, cloud>>

\* The activation was committed (pending) or rejected (not), or nobody knows.
Activated ==
  /\ phase = "Activating"
  /\ phase' \in {"Closing", "Lockout"}
  /\ UNCHANGED <<cancelled, pending, cloud>>

Release ==
  /\ phase = "Closing"
  /\ phase' = "Free"
  /\ UNCHANGED <<cancelled, pending, cloud>>

CloudBegin ==
  /\ phase = "Free"
  /\ ~cloud
  /\ cloud' = TRUE
  /\ UNCHANGED <<phase, cancelled, pending>>

CloudEnd ==
  /\ cloud
  /\ cloud' = FALSE
  /\ UNCHANGED <<phase, cancelled, pending>>

Reset ==
  /\ phase' = "Free"
  /\ cancelled' = FALSE
  /\ pending' = FALSE
  /\ cloud' = FALSE

Next ==
  \/ Reserve
  \/ Grant
  \/ Stage
  \/ Cancel
  \/ Close
  \/ Claim
  \/ WriteBootTable
  \/ Activated
  \/ Release
  \/ CloudBegin
  \/ CloudEnd
  \/ Reset

Spec == Init /\ [][Next]_sessionPhaseVars

-----------------------------------------------------------------------------
\* A cloud upload and the Core work of an OTA session never overlap.  (Beside
\* an upload a session may wait, be cancelled and close.)
CloudExcluded == cloud => phase \in {"Free", "Waiting", "Closing"}

\* A cancelled session never has a pending update.
CancelledNotPending == cancelled => phase \in Live /\ ~pending
=============================================================================
