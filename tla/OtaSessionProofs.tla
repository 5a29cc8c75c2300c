--------------------------- MODULE OtaSessionProofs ---------------------------
(***************************************************************************)
(* What the session protocol guarantees by itself.  OtaDeviceProofs shows  *)
(* that the device implements the protocol, so that the device inherits    *)
(* both theorems.                                                          *)
(***************************************************************************)
EXTENDS OtaSession, TLAPS

\* The update is pending only once the session was claimed, or is over.
PendingClaimed ==
  pending => phase \in {"Activating", "Closing", "Lockout", "Free"}

ProtocolInv ==
  /\ TypeOK
  /\ CloudExcluded
  /\ CancelledNotPending
  /\ PendingClaimed

\* Inductive: a pending update closes the way to a new session, hence to a
\* cancellation beside it.
LEMMA ProtocolStep ==
  ASSUME ProtocolInv, [Next]_sessionPhaseVars
  PROVE  ProtocolInv'
<1> USE DEF ProtocolInv, TypeOK, CloudExcluded, CancelledNotPending,
            PendingClaimed, Phases, Live
<1>1. CASE Reserve
  BY <1>1 DEF Reserve
<1>2. CASE Grant
  BY <1>2 DEF Grant
<1>3. CASE Stage
  BY <1>3 DEF Stage
<1>4. CASE Cancel
  BY <1>4 DEF Cancel
<1>5. CASE Close
  <2>1. TypeOK'
    BY <1>5, Zenon DEF Close
  <2>2. CloudExcluded' /\ CancelledNotPending' /\ PendingClaimed'
    BY <1>5 DEF Close
  <2> QED
    BY <2>1, <2>2
<1>6. CASE Claim
  BY <1>6 DEF Claim
<1>7. CASE WriteBootTable
  BY <1>7 DEF WriteBootTable
<1>8. CASE Activated
  BY <1>8 DEF Activated
<1>9. CASE Release
  BY <1>9 DEF Release
<1>10. CASE CloudBegin
  BY <1>10 DEF CloudBegin
<1>11. CASE CloudEnd
  BY <1>11 DEF CloudEnd
<1>12. CASE Reset
  BY <1>12 DEF Reset
<1>13. CASE UNCHANGED sessionPhaseVars
  BY <1>13 DEF sessionPhaseVars
<1> QED
  BY <1>1, <1>2, <1>3, <1>4, <1>5, <1>6, <1>7, <1>8, <1>9, <1>10, <1>11,
     <1>12, <1>13 DEF Next

\* In the protocol no cloud upload overlaps a session past its wait: the lease
\* of NetworkMaintenanceCoordinator.
THEOREM ProtocolExcludesCloud == Spec => []CloudExcluded
<1>1. Init => ProtocolInv
  BY DEF Init, ProtocolInv, TypeOK, CloudExcluded, CancelledNotPending,
         PendingClaimed, Phases, Live
<1>2. ProtocolInv => CloudExcluded
  BY DEF ProtocolInv
<1> QED
  BY <1>1, <1>2, ProtocolStep, PTL DEF Spec

\* In the protocol no session that accepted a cancellation has an update
\* pending in the boot table.
THEOREM ProtocolCancelsCleanly == Spec => []CancelledNotPending
<1>1. Init => ProtocolInv
  BY DEF Init, ProtocolInv, TypeOK, CloudExcluded, CancelledNotPending,
         PendingClaimed, Phases, Live
<1>2. ProtocolInv => CancelledNotPending
  BY DEF ProtocolInv
<1> QED
  BY <1>1, <1>2, ProtocolStep, PTL DEF Spec
=============================================================================
