--------------------------- MODULE TelemetryGateway ---------------------------
(***************************************************************************)
(* server/app: devices post telemetry, handlers of the thread pool insert  *)
(* it into SQLite, and the dashboard's overlapping refreshes read it.      *)
(*                                                                         *)
(* A row is its device and receipt time; its id is its position, the table *)
(* being append-only.  A handler stamps, inserts, commits and answers in   *)
(* steps; each read is one transaction.  The device's request may be given *)
(* up and sent anew while its handler still runs, and the process may be   *)
(* restarted.  Left out: authentication, validation, the measured values,  *)
(* the order of a chart's points and the count of its label.               *)
(***************************************************************************)
EXTENDS Integers, Sequences, FiniteSets

CONSTANTS
  Devices,
  Handlers,     \* threads of the pool
  NoHandler,
  Refreshes,    \* bound: refreshes of the dashboard at a time
  Windows,      \* the hours the dashboard offers
  Limit,        \* records the dashboard asks for
  MaxTime,      \* bound on the clock
  MaxRows       \* bound on the table

ASSUME HandlerAssumption == NoHandler \notin Handlers
ASSUME BoundsAssumption == {Limit, MaxTime, MaxRows} \subseteq Nat \ {0}
ASSUME WindowsAssumption == Windows # {} /\ Windows \subseteq Nat \ {0}

VARIABLES
  now,          \* the server's UTC clock
  rows,         \* committed rows
  writer,       \* handler holding SQLite's write lock, or NoHandler
  handler,      \* state of each handler
  awaits,       \* the handler whose answer each device awaits, or NoHandler
  hours,        \* state.hours of the dashboard
  refresh,      \* calls of refresh() in flight
  shown         \* what the last of them left on the page

serverVars == <<now, rows, writer, handler, awaits>>
pageVars == <<hours, refresh, shown>>
vars == <<serverVars, pageVars>>

IdleHandler == [pc |-> "IDLE"]
IdleRefresh == [pc |-> "IDLE"]

\* No row has id 0: nothing is shown yet.
NothingShown == [latest |-> 0, hours |-> 0, history |-> {}]

Init ==
  /\ now = 0
  /\ rows = <<>>
  /\ writer = NoHandler
  /\ handler = [h \in Handlers |-> IdleHandler]
  /\ awaits = [d \in Devices |-> NoHandler]
  /\ hours \in Windows
  /\ refresh = [r \in Refreshes |-> IdleRefresh]
  /\ shown = NothingShown

-----------------------------------------------------------------------------
(* insert_telemetry().                                                     *)

\* Handlers whose row is still to come.
Inserting == {h \in Handlers : handler[h].pc \in {"STAMPED", "INSERTED"}}

\* receive_telemetry() stamps the measurement before it opens the database.
ReceiveTelemetry(h, d) ==
  /\ handler[h].pc = "IDLE"
  /\ awaits[d] = NoHandler
  /\ Len(rows) + Cardinality(Inserting) < MaxRows
  /\ awaits' = [awaits EXCEPT ![d] = h]
  /\ handler' = [handler EXCEPT
       ![h] = [pc |-> "STAMPED", device |-> d, time |-> now]]
  /\ UNCHANGED <<now, rows, writer, pageVars>>

\* INSERT takes the write lock and picks the id.
Insert(h) ==
  /\ handler[h].pc = "STAMPED"
  /\ writer = NoHandler
  /\ writer' = h
  /\ handler' = [handler EXCEPT ![h].pc = "INSERTED"]
  /\ UNCHANGED <<now, rows, awaits, pageVars>>

\* Mutated: the connection is closed without a commit.
RowsClosed(h) == rows

RowsCommitted(h) ==
  Append(rows, [device |-> handler[h].device, time |-> handler[h].time])

Commit(h) ==
  /\ handler[h].pc = "INSERTED"
  /\ writer' = NoHandler
  /\ rows' = RowsCommitted(h)
  /\ handler' = [handler EXCEPT
       ![h] = [pc |-> "COMMITTED", device |-> handler[h].device,
               time |-> handler[h].time, id |-> Len(rows) + 1]]
  /\ UNCHANGED <<now, awaits, pageVars>>

GivenUp(who) == [d \in Devices |->
                   IF awaits[d] \in who THEN NoHandler ELSE awaits[d]]

\* The lock's timeout, or a failing statement or commit: the transaction is
\* rolled back and the request answered with 500.
InsertFails(h) ==
  /\ handler[h].pc \in {"STAMPED", "INSERTED"}
  /\ writer' = IF writer = h THEN NoHandler ELSE writer
  /\ handler' = [handler EXCEPT ![h] = IdleHandler]
  /\ awaits' = GivenUp({h})
  /\ UNCHANGED <<now, rows, pageVars>>

\* Answers 201, if the device still listens.
Respond(h) ==
  /\ handler[h].pc = "COMMITTED"
  /\ handler' = [handler EXCEPT ![h] = IdleHandler]
  /\ awaits' = GivenUp({h})
  /\ UNCHANGED <<now, rows, writer, pageVars>>

-----------------------------------------------------------------------------
(* The environment.                                                        *)

\* The device gives an attempt up, or its answer is lost.
AnswerLost(d) ==
  /\ awaits[d] # NoHandler
  /\ awaits' = [awaits EXCEPT ![d] = NoHandler]
  /\ UNCHANGED <<now, rows, writer, handler, pageVars>>

\* Time passes, or the clock is set.
ClockMoves ==
  /\ now' \in 0..MaxTime
  /\ UNCHANGED <<rows, writer, handler, awaits, pageVars>>

\* The process ends at any point and is started again; initialize_database()
\* finds its table and the committed rows.
Restart ==
  /\ writer' = NoHandler
  /\ handler' = [h \in Handlers |-> IdleHandler]
  /\ awaits' = GivenUp(Handlers)
  /\ refresh' = [r \in Refreshes |-> IdleRefresh]
  /\ UNCHANGED <<now, rows, hours, shown>>

-----------------------------------------------------------------------------
(* The queries, as sets of ids and sequences of them.                      *)

\* The row get_latest_telemetry() returns without a device.
LatestId == Len(rows)

InWindow(d, since) ==
  {i \in DOMAIN rows : rows[i].device = d /\ rows[i].time >= since}

\* received_at DESC, id DESC
Newer(i, j) ==
  \/ rows[i].time > rows[j].time
  \/ rows[i].time = rows[j].time /\ i > j

\* Mutated: the limit keeps the oldest.
SelectedOldest(ids) ==
  {i \in ids : Cardinality({j \in ids : Newer(i, j)}) < Limit}

\* The inner query: the newest Limit of ids.
Selected(ids) ==
  {i \in ids : Cardinality({j \in ids : Newer(j, i)}) < Limit}

\* get_telemetry_history(), without its order
History(d, since) == Selected(InWindow(d, since))

-----------------------------------------------------------------------------
(* refresh() of dashboard.html; its awaits are where its steps end.        *)

StartRefresh(r) ==
  /\ refresh[r].pc = "IDLE"
  /\ refresh' = [refresh EXCEPT ![r] = [pc |-> "LATEST"]]

\* The interval timer or the refresh button.
Refresh(r) ==
  /\ StartRefresh(r)
  /\ UNCHANGED <<serverVars, hours, shown>>

\* A click on one of the [data-hours] buttons.
SelectHours(r) ==
  /\ StartRefresh(r)
  /\ hours' \in Windows
  /\ UNCHANGED <<serverVars, shown>>

\* Mutated: the query asks for the hours on display.
HoursShown == IF shown.hours = 0 THEN hours ELSE shown.hours

HoursOfQuery == hours

\* latest_telemetry(); an empty table is a 404.  What a click or a handler
\* does between the read and the next queries, it may as well do before the
\* one or after the other: one step.
ReadLatest(r) ==
  /\ refresh[r].pc = "LATEST"
  /\ rows # <<>>
  /\ refresh' = [refresh EXCEPT
       ![r] = [pc |-> "HISTORY", latest |-> LatestId, hours |-> HoursOfQuery]]
  /\ UNCHANGED <<serverVars, hours, shown>>

Since(r) == now - refresh[r].hours

\* telemetry_history() of the record's device; then the page is redrawn, at
\* once, as what it draws depends on nothing else by now.
ReadHistory(r) ==
  /\ refresh[r].pc = "HISTORY"
  /\ shown' = [latest |-> refresh[r].latest, hours |-> refresh[r].hours,
               history |-> History(rows[refresh[r].latest].device, Since(r))]
  /\ refresh' = [refresh EXCEPT ![r] = IdleRefresh]
  /\ UNCHANGED <<serverVars, hours>>

\* An answer that is not ok, or none: the page keeps what it shows.
RefreshFails(r) ==
  /\ refresh[r].pc # "IDLE"
  /\ refresh' = [refresh EXCEPT ![r] = IdleRefresh]
  /\ UNCHANGED <<serverVars, hours, shown>>

-----------------------------------------------------------------------------
HandlerStep(h) ==
  \/ \E d \in Devices : ReceiveTelemetry(h, d)
  \/ Insert(h)
  \/ Commit(h)
  \/ InsertFails(h)
  \/ Respond(h)

RefreshEnds(r) ==
  \/ ReadLatest(r)
  \/ ReadHistory(r)
  \/ RefreshFails(r)

Next ==
  \/ \E h \in Handlers : HandlerStep(h)
  \/ \E d \in Devices : AnswerLost(d)
  \/ ClockMoves
  \/ Restart
  \/ \E r \in Refreshes : Refresh(r) \/ SelectHours(r) \/ RefreshEnds(r)

Spec == Init /\ [][Next]_vars

\* A fetch ends, by an answer or an error.
FairSpec == Spec /\ \A r \in Refreshes : WF_vars(RefreshEnds(r))

-----------------------------------------------------------------------------
(* Properties.                                                             *)

\* An answer of 201 names a row of the measurement and its time, whatever
\* other handlers did between the stamp, the insert and the answer and however
\* often the request was given up and sent anew; and no failure or restart
\* takes back or changes a row (insert_telemetry(), connect()).
AcknowledgedStored ==
  [][/\ \A h \in Handlers : Respond(h) =>
          /\ handler[h].id \in DOMAIN rows
          /\ rows[handler[h].id] = [device |-> handler[h].device,
                                    time |-> handler[h].time]
     /\ SubSeq(rows', 1, Len(rows)) = rows]_vars

\* The panel's record and the chart come from two requests, between which
\* rows are added, some of them with an earlier time, and the clock goes on;
\* still, the chart is of the panel's device and ends with or after its
\* record, unless that left the window meanwhile or the limit's worth of newer
\* ones displaced it (refresh(), get_telemetry_history()).
PanelInChart ==
  [][\A r \in Refreshes : ReadHistory(r) =>
       LET latest == shown'.latest
           chart == shown'.history
       IN /\ \A i \in chart : rows[i].device = rows[latest].device
          /\ \/ latest \in chart
             \/ rows[latest].time < Since(r)
             \/ /\ Cardinality(chart) = Limit
                /\ \A i \in chart : Newer(i, latest)]_vars

\* The lookback window clicked last is in the end the one shown, whatever
\* earlier refreshes answer late, if refreshes succeed again and again
\* (refresh(), the [data-hours] buttons).
ChartFollowsSelection ==
  []<><<\E r \in Refreshes : ReadHistory(r)>>_vars =>
    \A w \in Windows : <>[](hours = w) => <>[](shown.hours = w)
=============================================================================
