------------------------ MODULE TelemetryGatewayProofs ------------------------
(***************************************************************************)
(* What the telemetry gateway answers and shows, for any number of         *)
(* devices, handlers and dashboards: a 201 names the stored row, and the   *)
(* chart and the panel of a refresh belong together.                       *)
(***************************************************************************)
EXTENDS TelemetryGateway, SequenceTheorems, FiniteSetTheorems,
        WellFoundedInduction, TLAPS

Rows == [device : Devices, time : 0..MaxTime]

HandlerStates ==
  [pc : {"IDLE"}]
    \cup [pc : {"STAMPED", "INSERTED"}, device : Devices, time : 0..MaxTime]
    \cup [pc : {"COMMITTED"}, device : Devices, time : 0..MaxTime, id : Nat]

RefreshStates ==
  [pc : {"IDLE", "LATEST"}] \cup [pc : {"HISTORY"}, latest : Nat, hours : Windows]

GatewayTypes ==
  /\ now \in 0..MaxTime
  /\ rows \in Seq(Rows)
  /\ handler \in [Handlers -> HandlerStates]
  /\ hours \in Windows
  /\ refresh \in [Refreshes -> RefreshStates]

\* A committed measurement is in the table under the id to be answered.
CommittedStored ==
  \A h \in Handlers : handler[h].pc = "COMMITTED" =>
    /\ handler[h].id \in DOMAIN rows
    /\ rows[handler[h].id] = [device |-> handler[h].device,
                              time |-> handler[h].time]

\* A refresh that has read the newest record has read one of the table.
LatestStored ==
  \A r \in Refreshes : refresh[r].pc = "HISTORY" =>
    refresh[r].latest \in DOMAIN rows

GatewayInv ==
  /\ GatewayTypes
  /\ CommittedStored
  /\ LatestStored

-----------------------------------------------------------------------------
(* The table.                                                              *)

\* A commit adds a row behind those of the table, which stay as they are.
LEMMA AppendKeeps ==
  ASSUME NEW S, NEW s \in Seq(S), NEW e \in S
  PROVE  /\ Append(s, e) \in Seq(S)
         /\ DOMAIN Append(s, e) = 1..(Len(s) + 1)
         /\ DOMAIN s = 1..Len(s)
         /\ Len(s) \in Nat
         /\ \A i \in 1..Len(s) : Append(s, e)[i] = s[i]
         /\ Append(s, e)[Len(s) + 1] = e
         /\ SubSeq(Append(s, e), 1, Len(s)) = s
<1>1. /\ Append(s, e) \in Seq(S)
      /\ Len(Append(s, e)) = Len(s) + 1
      /\ \A i \in 1..Len(s) : Append(s, e)[i] = s[i]
      /\ Append(s, e)[Len(s) + 1] = e
  BY AppendProperties
<1>2. /\ Len(s) \in Nat
      /\ DOMAIN s = 1..Len(s)
  BY LenProperties
<1>3. DOMAIN Append(s, e) = 1..(Len(s) + 1)
  BY <1>1, LenProperties
<1>4. \A i \in 1..Len(s) : Append(s, e)[i] \in S
  BY <1>1, ElementOfSeq
<1>5. /\ SubSeq(Append(s, e), 1, Len(s)) \in Seq(S)
      /\ Len(SubSeq(Append(s, e), 1, Len(s))) =
           IF 1 <= Len(s) THEN Len(s) - 1 + 1 ELSE 0
      /\ \A i \in 1..(Len(s) - 1 + 1) :
           SubSeq(Append(s, e), 1, Len(s))[i] = Append(s, e)[1 + i - 1]
  BY <1>2, <1>4, SubSeqProperties
<1>6. SubSeq(Append(s, e), 1, Len(s)) = s
  <2>1. Len(SubSeq(Append(s, e), 1, Len(s))) = Len(s)
    BY <1>2, <1>5
  <2>2. ASSUME NEW i \in 1..Len(s)
        PROVE  SubSeq(Append(s, e), 1, Len(s))[i] = s[i]
    <3>1. i \in 1..(Len(s) - 1 + 1) /\ 1 + i - 1 = i
      BY <1>2
    <3>2. SubSeq(Append(s, e), 1, Len(s))[i] = Append(s, e)[i]
      BY <1>5, <3>1
    <3> QED
      BY <1>1, <3>2
  <2> QED
    BY <1>5, <2>1, <2>2, SeqEqual
<1> QED
  BY <1>1, <1>2, <1>3, <1>6

-----------------------------------------------------------------------------
(* The newest records of a window.                                         *)

\* A set of natural numbers has a least one.
LEMMA NatLeast ==
  ASSUME NEW T, T \subseteq Nat, T # {}
  PROVE  \E x \in T : \A y \in T : x <= y
<1>1. PICK x \in T : \A y \in T : ~(<<y, x>> \in OpToRel(<, Nat))
  BY WFMin, NatLessThanWellFounded, Zenon
<1>2. \A y \in T : ~(y < x)
  BY <1>1 DEF OpToRel
<1> QED
  BY <1>2

\* A bounded one has a greatest, too.
LEMMA NatGreatest ==
  ASSUME NEW T, T \subseteq Nat, T # {}, NEW n \in Nat, \A y \in T : y <= n
  PROVE  \E x \in T : \A y \in T : y <= x
<1> DEFINE M == {n - y : y \in T}
<1>1. M \subseteq Nat /\ M # {}
  <2>1. \A y \in T : n - y \in Nat
    OBVIOUS
  <2>2. PICK y \in T : TRUE
    OBVIOUS
  <2> QED
    BY <2>1, <2>2
<1>2. \E m \in M : \A k \in M : m <= k
  <2> HIDE DEF M
  <2> QED
    BY <1>1, NatLeast
<1>3. PICK x \in T : \A k \in M : n - x <= k
  BY <1>2
<1>4. ASSUME NEW y \in T PROVE y <= x
  <2>1. n - x <= n - y
    BY <1>3
  <2>2. x \in Nat /\ y \in Nat
    OBVIOUS
  <2> QED
    BY <2>1, <2>2
<1> QED
  BY <1>4

NewerThan(ids, i) == {j \in ids : Newer(j, i)}

Rank(ids, i) == Cardinality(NewerThan(ids, i))

\* Newer orders the rows totally: rows of one time by their ids.
LEMMA NewerOrders ==
  ASSUME GatewayTypes, NEW i \in DOMAIN rows, NEW j \in DOMAIN rows
  PROVE  /\ ~Newer(i, i)
         /\ i # j => Newer(i, j) \/ Newer(j, i)
         /\ Newer(i, j) => ~Newer(j, i)
         /\ \A k \in DOMAIN rows : Newer(i, j) /\ Newer(j, k) => Newer(i, k)
<1>1. DOMAIN rows = 1..Len(rows) /\ Len(rows) \in Nat
  BY LenProperties DEF GatewayTypes
<1>2. \A k \in DOMAIN rows : k \in Nat
  BY <1>1
<1>3. \A k \in DOMAIN rows : rows[k] \in Rows
  BY <1>1, ElementOfSeq DEF GatewayTypes
<1>4. \A k \in DOMAIN rows : rows[k].time \in Int
  BY <1>3, BoundsAssumption DEF Rows
<1> QED
  BY <1>2, <1>4 DEF Newer

\* A newer one has a lower rank.
LEMMA RankOrders ==
  ASSUME GatewayTypes, NEW ids \in SUBSET (DOMAIN rows)
  PROVE  /\ IsFiniteSet(ids)
         /\ \A i \in ids :
              /\ IsFiniteSet(NewerThan(ids, i))
              /\ Rank(ids, i) \in Nat
              /\ Rank(ids, i) <= Cardinality(ids)
         /\ \A i, j \in ids : Newer(j, i) => Rank(ids, j) < Rank(ids, i)
<1>1. IsFiniteSet(DOMAIN rows)
  <2>1. DOMAIN rows = 1..Len(rows) /\ Len(rows) \in Nat
    BY LenProperties DEF GatewayTypes
  <2> QED
    BY <2>1, FS_Interval
<1>2. IsFiniteSet(ids)
  BY <1>1, FS_Subset
<1>3. ASSUME NEW i \in ids
      PROVE  /\ IsFiniteSet(NewerThan(ids, i))
             /\ Rank(ids, i) \in Nat
             /\ Rank(ids, i) <= Cardinality(ids)
  <2>1. NewerThan(ids, i) \in SUBSET ids
    BY DEF NewerThan
  <2>2. /\ IsFiniteSet(NewerThan(ids, i))
        /\ Cardinality(NewerThan(ids, i)) <= Cardinality(ids)
    BY <1>2, <2>1, FS_Subset
  <2> QED
    BY <2>2, FS_CardinalityType DEF Rank
<1>4. ASSUME NEW i \in ids, NEW j \in ids, Newer(j, i)
      PROVE  Rank(ids, j) < Rank(ids, i)
  <2>1. NewerThan(ids, j) \cup {j} \in SUBSET NewerThan(ids, i)
    BY <1>4, NewerOrders DEF NewerThan
  <2>2. j \notin NewerThan(ids, j)
    BY NewerOrders DEF NewerThan
  <2>3. Cardinality(NewerThan(ids, j) \cup {j}) = Rank(ids, j) + 1
    BY <1>3, <2>2, FS_AddElement DEF Rank
  <2>4. Cardinality(NewerThan(ids, j) \cup {j}) <= Rank(ids, i)
    BY <1>3, <2>1, FS_Subset DEF Rank
  <2>5. Rank(ids, j) \in Nat /\ Rank(ids, i) \in Nat
    BY <1>3
  <2> QED
    BY <2>3, <2>4, <2>5
<1> QED
  BY <1>2, <1>3, <1>4

\* What the limit leaves out is older than all that is selected, and it leaves
\* something out only when it is reached (telemetry_history()'s LIMIT).
THEOREM SelectionFills ==
  ASSUME GatewayTypes, NEW ids \in SUBSET (DOMAIN rows),
         NEW p \in ids, p \notin Selected(ids)
  PROVE  /\ Cardinality(Selected(ids)) = Limit
         /\ \A i \in Selected(ids) : Newer(i, p)
<1> DEFINE S == Selected(ids)
           Rest == ids \ S
           Ranks(T) == {Rank(ids, i) : i \in T}
<1>1. \A i \in ids : Rank(ids, i) \in Nat /\ Rank(ids, i) <= Cardinality(ids)
  BY RankOrders
<1>2. \A i, j \in ids : Newer(j, i) => Rank(ids, j) < Rank(ids, i)
  BY RankOrders
<1>3. \A i \in ids : i \in S <=> Rank(ids, i) < Limit
  BY DEF Selected, Rank, NewerThan
<1>4. S \subseteq ids
  BY DEF Selected
<1>5. Limit \in Nat /\ Limit > 0
  BY BoundsAssumption
<1>6. \A i, j \in ids : i # j => Newer(i, j) \/ Newer(j, i)
  BY NewerOrders
<1> HIDE DEF S
<1>7. \A i \in S, j \in Rest : Newer(i, j)
  BY <1>1, <1>2, <1>3, <1>4, <1>5, <1>6
<1>8. Cardinality(S) >= Limit
  <2>1. Ranks(Rest) \subseteq Nat /\ Ranks(Rest) # {}
    BY <1>1 DEF S
  <2>2. \E x \in Ranks(Rest) : \A y \in Ranks(Rest) : x <= y
    <3> HIDE DEF Ranks
    <3> QED
      BY <2>1, NatLeast
  <2>3. PICK m \in Rest : \A j \in Rest : Rank(ids, m) <= Rank(ids, j)
    BY <2>2
  <2>4. NewerThan(ids, m) = S
    <3>1. \A j \in ids : Newer(j, m) => j \in S
      BY <1>1, <1>2, <2>3
    <3>2. \A j \in S : j \in ids /\ Newer(j, m)
      BY <1>4, <1>7
    <3> QED
      BY <3>1, <3>2 DEF NewerThan
  <2>5. Cardinality(S) = Rank(ids, m)
    BY <2>4 DEF Rank
  <2>6. Rank(ids, m) \in Nat /\ ~(Rank(ids, m) < Limit)
    BY <1>1, <1>3
  <2> QED
    BY <1>5, <2>5, <2>6
<1>9. Cardinality(S) <= Limit
  <2>1. S # {}
    BY <1>5, <1>8, FS_EmptySet
  <2>2. IsFiniteSet(ids) /\ Cardinality(ids) \in Nat
    BY RankOrders, FS_CardinalityType
  <2>3. Ranks(S) \subseteq Nat /\ Ranks(S) # {}
    BY <1>1, <1>4, <2>1
  <2>4. \A y \in Ranks(S) : y <= Cardinality(ids)
    BY <1>1, <1>4
  <2>5. \E x \in Ranks(S) : \A y \in Ranks(S) : y <= x
    <3> HIDE DEF Ranks
    <3> QED
      BY <2>2, <2>3, <2>4, NatGreatest
  <2>6. PICK q \in S : \A j \in S : Rank(ids, j) <= Rank(ids, q)
    BY <2>5
  <2>7. q \in ids /\ Rank(ids, q) < Limit /\ Rank(ids, q) \in Nat
    BY <1>1, <1>3, <1>4
  <2>8. S \in SUBSET (NewerThan(ids, q) \cup {q})
    <3>1. ASSUME NEW i \in S, i # q PROVE Newer(i, q)
      <4>1. ~Newer(q, i)
        BY <1>1, <1>2, <1>4, <2>6
      <4> QED
        BY <1>4, <1>6, <3>1, <4>1
    <3> QED
      BY <1>4, <3>1 DEF NewerThan
  <2>9. /\ IsFiniteSet(NewerThan(ids, q) \cup {q})
        /\ Cardinality(NewerThan(ids, q) \cup {q}) <= Rank(ids, q) + 1
    <3>1. IsFiniteSet(NewerThan(ids, q))
      BY <2>7, RankOrders
    <3>2. q \notin NewerThan(ids, q)
      BY <2>7, NewerOrders DEF NewerThan
    <3>3. /\ IsFiniteSet(NewerThan(ids, q) \cup {q})
          /\ Cardinality(NewerThan(ids, q) \cup {q}) = Rank(ids, q) + 1
      BY <3>1, <3>2, FS_AddElement DEF Rank
    <3> QED
      BY <2>7, <3>3
  <2>10. /\ Cardinality(S) <= Cardinality(NewerThan(ids, q) \cup {q})
         /\ Cardinality(S) \in Nat
         /\ Cardinality(NewerThan(ids, q) \cup {q}) \in Nat
    BY <2>8, <2>9, FS_Subset, FS_CardinalityType
  <2> QED
    BY <1>5, <2>7, <2>9, <2>10
<1>10. Cardinality(S) \in Nat
  BY <1>4, RankOrders, FS_Subset, FS_CardinalityType
<1>11. Cardinality(S) = Limit
  BY <1>5, <1>8, <1>9, <1>10
<1> QED
  BY <1>7, <1>11 DEF S

-----------------------------------------------------------------------------
(* The invariant.                                                          *)

LEMMA GatewayInitial == Init => GatewayInv
<1> SUFFICES ASSUME Init PROVE GatewayInv
  OBVIOUS
<1>1. 0 \in 0..MaxTime
  BY BoundsAssumption
<1>2. rows \in Seq(Rows)
  BY EmptySeq DEF Init
<1>3. IdleHandler \in HandlerStates /\ IdleRefresh \in RefreshStates
  BY DEF IdleHandler, IdleRefresh, HandlerStates, RefreshStates
<1>4. GatewayTypes
  BY <1>1, <1>2, <1>3 DEF Init, GatewayTypes
<1>5. CommittedStored
  BY DEF Init, CommittedStored, IdleHandler
<1>6. LatestStored
  BY DEF Init, LatestStored, IdleRefresh
<1> QED
  BY <1>4, <1>5, <1>6 DEF GatewayInv

\* What a handler in the middle of an insert knows of its measurement.
LEMMA MeasurementTyped ==
  ASSUME GatewayTypes, NEW h \in Handlers,
         handler[h].pc \in {"STAMPED", "INSERTED"}
  PROVE  /\ handler[h] \in [pc : {"STAMPED", "INSERTED"}, device : Devices,
                            time : 0..MaxTime]
         /\ handler[h].device \in Devices
         /\ handler[h].time \in 0..MaxTime
<1>1. handler[h] \in HandlerStates
  BY DEF GatewayTypes
<1>2. handler[h] \in [pc : {"STAMPED", "INSERTED"}, device : Devices,
                      time : 0..MaxTime]
  BY <1>1 DEF HandlerStates
<1> QED
  BY <1>2

\* A step that leaves the table alone and changes one handler, to a state in
\* which it has nothing to answer.
LEMMA HandlerMoves ==
  ASSUME GatewayInv, NEW h \in Handlers, NEW s \in HandlerStates,
         s.pc # "COMMITTED", handler' = [handler EXCEPT ![h] = s],
         UNCHANGED <<now, rows, hours, refresh>>
  PROVE  GatewayInv'
<1>1. handler \in [Handlers -> HandlerStates]
  BY DEF GatewayInv, GatewayTypes
<1>2. \A k \in Handlers : handler'[k] = IF k = h THEN s ELSE handler[k]
  BY <1>1
<1>3. handler' \in [Handlers -> HandlerStates]
  BY <1>1
<1>4. GatewayTypes'
  BY <1>3 DEF GatewayInv, GatewayTypes
<1>5. CommittedStored'
  BY <1>2 DEF GatewayInv, CommittedStored
<1>6. LatestStored'
  BY DEF GatewayInv, LatestStored
<1> QED
  BY <1>4, <1>5, <1>6 DEF GatewayInv

\* A step of one refresh.
LEMMA RefreshMoves ==
  ASSUME GatewayInv, NEW r \in Refreshes, NEW s \in RefreshStates,
         s.pc = "HISTORY" => s.latest \in DOMAIN rows,
         refresh' = [refresh EXCEPT ![r] = s], hours' \in Windows,
         UNCHANGED <<now, rows, handler>>
  PROVE  GatewayInv'
<1>1. refresh \in [Refreshes -> RefreshStates]
  BY DEF GatewayInv, GatewayTypes
<1>2. \A k \in Refreshes : refresh'[k] = IF k = r THEN s ELSE refresh[k]
  BY <1>1
<1>3. refresh' \in [Refreshes -> RefreshStates]
  BY <1>1
<1>4. GatewayTypes'
  BY <1>3 DEF GatewayInv, GatewayTypes
<1>5. CommittedStored'
  BY DEF GatewayInv, CommittedStored
<1>6. LatestStored'
  BY <1>2 DEF GatewayInv, LatestStored
<1> QED
  BY <1>4, <1>5, <1>6 DEF GatewayInv

LEMMA CommitKeeps ==
  ASSUME GatewayInv, NEW h \in Handlers, Commit(h)
  PROVE  /\ GatewayInv'
         /\ SubSeq(rows', 1, Len(rows)) = rows
<1> DEFINE row == [device |-> handler[h].device, time |-> handler[h].time]
           done == [pc |-> "COMMITTED", device |-> handler[h].device,
                    time |-> handler[h].time, id |-> Len(rows) + 1]
<1>1. handler[h].device \in Devices /\ handler[h].time \in 0..MaxTime
  BY MeasurementTyped DEF GatewayInv, Commit
<1>2. row \in Rows
  BY <1>1 DEF Rows
<1>3. rows \in Seq(Rows) /\ rows' = Append(rows, row)
  BY DEF GatewayInv, GatewayTypes, Commit, RowsCommitted
<1> HIDE DEF row
<1>4. /\ rows' \in Seq(Rows)
      /\ DOMAIN rows' = 1..(Len(rows) + 1)
      /\ DOMAIN rows = 1..Len(rows)
      /\ Len(rows) \in Nat
      /\ \A i \in 1..Len(rows) : rows'[i] = rows[i]
      /\ rows'[Len(rows) + 1] = row
      /\ SubSeq(rows', 1, Len(rows)) = rows
  BY <1>2, <1>3, AppendKeeps
<1>5. done \in HandlerStates
  BY <1>1, <1>4 DEF HandlerStates
<1>6. /\ handler \in [Handlers -> HandlerStates]
      /\ handler' = [handler EXCEPT ![h] = done]
  BY DEF GatewayInv, GatewayTypes, Commit
<1>7. /\ done.pc = "COMMITTED"
      /\ done.id = Len(rows) + 1
      /\ row = [device |-> done.device, time |-> done.time]
  BY DEF row
<1> HIDE DEF done
<1>8. \A k \in Handlers : handler'[k] = IF k = h THEN done ELSE handler[k]
  BY <1>6
<1>9. handler' \in [Handlers -> HandlerStates]
  BY <1>5, <1>6
<1>10. GatewayTypes'
  BY <1>4, <1>9 DEF GatewayInv, GatewayTypes, Commit, pageVars
<1>11. CommittedStored'
  <2> SUFFICES ASSUME NEW k \in Handlers, handler'[k].pc = "COMMITTED"
               PROVE  /\ handler'[k].id \in DOMAIN rows'
                      /\ rows'[handler'[k].id] =
                           [device |-> handler'[k].device,
                            time |-> handler'[k].time]
    BY DEF CommittedStored
  <2>1. CASE k = h
    <3>1. Len(rows) + 1 \in DOMAIN rows'
      BY <1>4
    <3> QED
      BY <1>4, <1>7, <1>8, <2>1, <3>1
  <2>2. CASE k # h
    <3>1. handler'[k] = handler[k]
      BY <1>8, <2>2
    <3>2. /\ handler[k].id \in DOMAIN rows
          /\ rows[handler[k].id] = [device |-> handler[k].device,
                                    time |-> handler[k].time]
      BY <3>1 DEF GatewayInv, CommittedStored
    <3>3. \A i \in DOMAIN rows : i \in DOMAIN rows' /\ rows'[i] = rows[i]
      BY <1>4
    <3> QED
      BY <3>1, <3>2, <3>3
  <2> QED
    BY <2>1, <2>2
<1>12. LatestStored'
  <2>1. \A i \in DOMAIN rows : i \in DOMAIN rows'
    BY <1>4
  <2> QED
    BY <2>1 DEF GatewayInv, LatestStored, Commit, pageVars
<1> QED
  BY <1>4, <1>10, <1>11, <1>12 DEF GatewayInv

LEMMA HandlerStepKeeps ==
  ASSUME GatewayInv, NEW h \in Handlers, HandlerStep(h)
  PROVE  GatewayInv'
<1>1. ASSUME NEW d \in Devices, ReceiveTelemetry(h, d) PROVE GatewayInv'
  <2> DEFINE s == [pc |-> "STAMPED", device |-> d, time |-> now]
  <2>1. s \in HandlerStates /\ s.pc # "COMMITTED"
    BY DEF GatewayInv, GatewayTypes, HandlerStates
  <2>2. /\ handler' = [handler EXCEPT ![h] = s]
        /\ UNCHANGED <<now, rows, hours, refresh>>
    BY <1>1 DEF ReceiveTelemetry, pageVars
  <2> HIDE DEF s
  <2> QED
    BY <2>1, <2>2, HandlerMoves
<1>2. CASE Insert(h)
  <2> DEFINE s == [handler[h] EXCEPT !.pc = "INSERTED"]
  <2>1. handler[h] \in [pc : {"STAMPED", "INSERTED"}, device : Devices,
                        time : 0..MaxTime]
    BY <1>2, MeasurementTyped DEF GatewayInv, Insert
  <2>2. s \in HandlerStates /\ s.pc # "COMMITTED"
    BY <2>1 DEF HandlerStates
  <2>3. /\ handler' = [handler EXCEPT ![h] = s]
        /\ UNCHANGED <<now, rows, hours, refresh>>
    BY <1>2 DEF Insert, pageVars
  <2> HIDE DEF s
  <2> QED
    BY <2>2, <2>3, HandlerMoves
<1>3. CASE Commit(h)
  BY <1>3, CommitKeeps
<1>4. CASE InsertFails(h) \/ Respond(h)
  <2>1. IdleHandler \in HandlerStates /\ IdleHandler.pc # "COMMITTED"
    BY DEF IdleHandler, HandlerStates
  <2>2. /\ handler' = [handler EXCEPT ![h] = IdleHandler]
        /\ UNCHANGED <<now, rows, hours, refresh>>
    BY <1>4 DEF InsertFails, Respond, pageVars
  <2> QED
    BY <2>1, <2>2, HandlerMoves
<1> QED
  BY <1>1, <1>2, <1>3, <1>4 DEF HandlerStep

LEMMA RefreshStepKeeps ==
  ASSUME GatewayInv, NEW r \in Refreshes,
         Refresh(r) \/ SelectHours(r) \/ RefreshEnds(r)
  PROVE  GatewayInv'
<1>1. CASE Refresh(r) \/ SelectHours(r)
  <2> DEFINE s == [pc |-> "LATEST"]
  <2>1. s \in RefreshStates /\ s.pc # "HISTORY"
    BY DEF RefreshStates
  <2>2. /\ refresh' = [refresh EXCEPT ![r] = s]
        /\ hours' \in Windows
        /\ UNCHANGED <<now, rows, handler>>
    BY <1>1 DEF Refresh, SelectHours, StartRefresh, serverVars,
                GatewayInv, GatewayTypes
  <2> HIDE DEF s
  <2> QED
    BY <2>1, <2>2, RefreshMoves
<1>2. CASE ReadLatest(r)
  <2> DEFINE s == [pc |-> "HISTORY", latest |-> LatestId,
                   hours |-> HoursOfQuery]
  <2>1. LatestId \in DOMAIN rows /\ LatestId \in Nat
    <3>1. rows \in Seq(Rows) /\ rows # <<>>
      BY <1>2 DEF ReadLatest, GatewayInv, GatewayTypes
    <3>2. Len(rows) \in Nat \ {0} /\ DOMAIN rows = 1..Len(rows)
      BY <3>1, EmptySeq, LenProperties
    <3> QED
      BY <3>2 DEF LatestId
  <2>2. s \in RefreshStates /\ s.latest = LatestId
    BY <2>1 DEF RefreshStates, HoursOfQuery, GatewayInv, GatewayTypes
  <2>3. /\ refresh' = [refresh EXCEPT ![r] = s]
        /\ hours' \in Windows
        /\ UNCHANGED <<now, rows, handler>>
    BY <1>2 DEF ReadLatest, serverVars, GatewayInv, GatewayTypes
  <2> HIDE DEF s
  <2> QED
    BY <2>1, <2>2, <2>3, RefreshMoves
<1>3. CASE ReadHistory(r) \/ RefreshFails(r)
  <2>1. IdleRefresh \in RefreshStates /\ IdleRefresh.pc # "HISTORY"
    BY DEF IdleRefresh, RefreshStates
  <2>2. /\ refresh' = [refresh EXCEPT ![r] = IdleRefresh]
        /\ hours' \in Windows
        /\ UNCHANGED <<now, rows, handler>>
    BY <1>3 DEF ReadHistory, RefreshFails, serverVars, GatewayInv, GatewayTypes
  <2> QED
    BY <2>1, <2>2, RefreshMoves
<1> QED
  BY <1>1, <1>2, <1>3 DEF RefreshEnds

LEMMA EnvironmentKeeps ==
  ASSUME GatewayInv, (\E d \in Devices : AnswerLost(d)) \/ ClockMoves \/ Restart
  PROVE  GatewayInv'
<1>1. CASE \E d \in Devices : AnswerLost(d)
  BY <1>1 DEF AnswerLost, pageVars, GatewayInv, GatewayTypes, CommittedStored,
              LatestStored
<1>2. CASE ClockMoves
  BY <1>2 DEF ClockMoves, pageVars, GatewayInv, GatewayTypes, CommittedStored,
              LatestStored
<1>3. CASE Restart
  <2>1. IdleHandler \in HandlerStates /\ IdleHandler.pc # "COMMITTED"
    BY DEF IdleHandler, HandlerStates
  <2>2. IdleRefresh \in RefreshStates /\ IdleRefresh.pc # "HISTORY"
    BY DEF IdleRefresh, RefreshStates
  <2>3. GatewayTypes'
    BY <1>3, <2>1, <2>2 DEF Restart, GatewayInv, GatewayTypes
  <2>4. CommittedStored'
    BY <1>3, <2>1 DEF Restart, CommittedStored
  <2>5. LatestStored'
    BY <1>3, <2>2 DEF Restart, LatestStored
  <2> QED
    BY <2>3, <2>4, <2>5 DEF GatewayInv
<1> QED
  BY <1>1, <1>2, <1>3

LEMMA NextKeeps == GatewayInv /\ [Next]_vars => GatewayInv'
<1> SUFFICES ASSUME GatewayInv, [Next]_vars PROVE GatewayInv'
  OBVIOUS
<1>1. CASE Next
  BY <1>1, HandlerStepKeeps, RefreshStepKeeps, EnvironmentKeeps DEF Next
<1>2. CASE UNCHANGED vars
  BY <1>2 DEF vars, serverVars, pageVars, GatewayInv, GatewayTypes,
              CommittedStored, LatestStored
<1> QED
  BY <1>1, <1>2

\* What a committed handler will answer is in the table, and what a refresh has
\* read of it stays there (insert_telemetry(), refresh()).
THEOREM GatewayInvariant == Spec => []GatewayInv
<1> QED
  BY GatewayInitial, NextKeeps, PTL DEF Spec

-----------------------------------------------------------------------------
(* The run's safety properties.                                            *)

\* No step takes back or changes a row.
LEMMA RowsStay ==
  ASSUME GatewayInv, [Next]_vars
  PROVE  SubSeq(rows', 1, Len(rows)) = rows
<1>1. CASE \E h \in Handlers : Commit(h)
  BY <1>1, CommitKeeps
<1>2. CASE rows' = rows
  BY <1>2, SubSeqFull DEF GatewayInv, GatewayTypes
<1>3. \/ \E h \in Handlers : Commit(h)
      \/ rows' = rows
  BY DEF Next, HandlerStep, RefreshEnds, ReceiveTelemetry, Insert, InsertFails,
         Respond, AnswerLost, ClockMoves, Restart, Refresh, SelectHours,
         ReadLatest, ReadHistory, RefreshFails, serverVars, vars
<1> QED
  BY <1>1, <1>2, <1>3

\* An answer of 201 names a row of the measurement and its time, whatever
\* other handlers did meanwhile, and no failure or restart takes a row back
\* (insert_telemetry(), connect()).
THEOREM AcknowledgedAreStored == Spec => AcknowledgedStored
<1> DEFINE Answered(h) ==
             /\ handler[h].id \in DOMAIN rows
             /\ rows[handler[h].id] = [device |-> handler[h].device,
                                       time |-> handler[h].time]
           Kept == /\ \A h \in Handlers : Respond(h) => Answered(h)
                   /\ SubSeq(rows', 1, Len(rows)) = rows
<1>1. GatewayInv /\ [Next]_vars => Kept
  <2> SUFFICES ASSUME GatewayInv, [Next]_vars PROVE Kept
    OBVIOUS
  <2>1. SubSeq(rows', 1, Len(rows)) = rows
    BY RowsStay
  <2>2. \A h \in Handlers : Respond(h) => Answered(h)
    BY DEF Respond, GatewayInv, CommittedStored
  <2> QED
    BY <2>1, <2>2
<1>2. GatewayInv /\ [Next]_vars => [Kept]_vars
  BY <1>1
<1> QED
  BY <1>2, GatewayInvariant, PTL DEF Spec, AcknowledgedStored

\* The chart a refresh draws is of the device on its panel and ends with or
\* after the panel's record, unless that record left the window or as many
\* newer ones as the limit admits displaced it (refresh(),
\* get_telemetry_history()).
THEOREM PanelBelongsToChart == Spec => PanelInChart
<1> DEFINE Fits(latest, chart, since) ==
             /\ \A i \in chart : rows[i].device = rows[latest].device
             /\ \/ latest \in chart
                \/ rows[latest].time < since
                \/ /\ Cardinality(chart) = Limit
                   /\ \A i \in chart : Newer(i, latest)
           Drawn == \A r \in Refreshes : ReadHistory(r) =>
                      Fits(shown'.latest, shown'.history, Since(r))
<1>1. ASSUME GatewayInv, NEW r \in Refreshes, ReadHistory(r)
      PROVE  Fits(shown'.latest, shown'.history, Since(r))
  <2> DEFINE latest == refresh[r].latest
             ids == InWindow(rows[latest].device, Since(r))
  <2>1. latest \in DOMAIN rows
    BY <1>1 DEF GatewayInv, LatestStored, ReadHistory
  <2>2. shown'.latest = latest /\ shown'.history = Selected(ids)
    BY <1>1 DEF ReadHistory, History
  <2>3. ids \in SUBSET (DOMAIN rows)
    BY DEF InWindow
  <2>4. \A i \in Selected(ids) : rows[i].device = rows[latest].device
    BY DEF Selected, InWindow
  <2>5. CASE latest \notin ids
    <3>1. rows[latest].time \in Int
      <4>1. rows[latest] \in Rows
        BY <1>1, <2>1, ElementOfSeq, LenProperties DEF GatewayInv, GatewayTypes
      <4> QED
        BY <4>1, BoundsAssumption DEF Rows
    <3>2. Since(r) \in Int
      <4>1. refresh[r] \in RefreshStates /\ refresh[r].pc = "HISTORY"
        BY <1>1 DEF ReadHistory, GatewayInv, GatewayTypes
      <4>2. refresh[r].hours \in Windows
        BY <4>1 DEF RefreshStates
      <4>3. now \in Int
        BY <1>1, BoundsAssumption DEF GatewayInv, GatewayTypes
      <4>4. \A w \in Windows : w \in Int
        BY WindowsAssumption
      <4>5. refresh[r].hours \in Int
        BY <4>2, <4>4, Zenon
      <4> QED
        BY <4>3, <4>5 DEF Since
    <3>3. rows[latest].time < Since(r)
      BY <2>1, <2>5, <3>1, <3>2 DEF InWindow
    <3> QED
      BY <2>2, <2>4, <3>3
  <2>6. CASE latest \in ids /\ latest \notin Selected(ids)
    <3> HIDE DEF ids, latest
    <3>1. /\ Cardinality(Selected(ids)) = Limit
          /\ \A i \in Selected(ids) : Newer(i, latest)
      BY <1>1, <2>3, <2>6, SelectionFills DEF GatewayInv
    <3> QED
      BY <2>2, <2>4, <3>1
  <2>7. CASE latest \in Selected(ids)
    BY <2>2, <2>4, <2>7
  <2> QED
    BY <2>5, <2>6, <2>7
<1>2. GatewayInv /\ [Next]_vars => [Drawn]_vars
  <2> HIDE DEF Fits
  <2> QED
    BY <1>1
<1> QED
  BY <1>2, GatewayInvariant, PTL DEF Spec, PanelInChart

=============================================================================
