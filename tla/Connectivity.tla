---------------------------- MODULE Connectivity ----------------------------
(***************************************************************************)
(* connectivity/ConnectivityManager as loop() drives it: update(), then    *)
(* handleConnectivityEvents(), which copies the state to the home page.    *)
(*                                                                         *)
(* One thread, but its calls to Wi-Fi and NTP block: update() is split     *)
(* where they do, and the clock ticks and the link changes in between.     *)
(* millis() is clock, which wraps at Word; an interval is measured as the  *)
(* code does, by the wrapped difference.  Left out: the printed messages   *)
(* and the MAC address.  Address 0 means none, as in the code.             *)
(***************************************************************************)
EXTENDS Integers

CONSTANTS
  Word,            \* millis() counts modulo Word (2^32 on the device)
  StatusInterval,  \* wifiStatusIntervalMs_
  RetryInitial,    \* wifiRetryInitialMs_
  RetryMax,        \* wifiRetryMaxMs_
  NtpInterval,     \* ntpRetryIntervalMs_
  MaxLag,          \* bound: ticks one iteration of loop() may take
  Addresses        \* addresses DHCP may assign

ASSUME IntervalsAssumption ==
  /\ Word \in Nat
  /\ {StatusInterval, RetryInitial, RetryMax, NtpInterval} \subseteq 1..Word - 1
  /\ RetryInitial <= RetryMax
ASSUME LagAssumption == MaxLag \in Nat
ASSUME AddressesAssumption == Addresses \subseteq Nat \ {0}

VARIABLES
  clock, lag,
  link,             \* the access point answers
  pc,
  wifiConnected, timeSynchronized, localIPv4Address,
  lastWiFiStatusCheck, lastWiFiAttempt, wifiRetryDelay, lastNtpAttempt,
  events,           \* names of the events of this update() so far
  page,             \* the home page's copy of the state
  failures,         \* history: failed attempts since the last connection
  sinceFailure,     \* history: ticks since the last of them, at most Word
  sinceSync         \* history: ticks since the last NTP attempt, likewise

managerVars == <<wifiConnected, timeSynchronized, localIPv4Address,
                 lastWiFiStatusCheck, lastWiFiAttempt, wifiRetryDelay,
                 lastNtpAttempt>>
historyVars == <<failures, sinceFailure, sinceSync>>
vars == <<clock, lag, link, pc, managerVars, events, page, historyVars>>

Elapsed(since) == (clock - since) % Word

LowerOf(a, b) == IF a <= b THEN a ELSE b

\* nextRetryDelay()
NextRetryDelay(current) ==
  IF current = 0 THEN RetryInitial
  ELSE IF current < RetryMax \div 2 THEN current * 2
  ELSE RetryMax

Init ==
  /\ clock = 0 /\ lag = 0
  /\ link \in BOOLEAN
  /\ pc = "WIFI"
  /\ wifiConnected = FALSE
  /\ timeSynchronized = FALSE
  /\ localIPv4Address = 0
  /\ lastWiFiStatusCheck = 0
  /\ lastWiFiAttempt = 0
  /\ wifiRetryDelay = 0
  /\ lastNtpAttempt = 0
  /\ events = {}
  /\ page = [connected |-> FALSE, address |-> 0]
  /\ failures = 0 /\ sinceFailure = 0 /\ sinceSync = 0

-----------------------------------------------------------------------------
(* The environment.                                                        *)

Tick ==
  /\ lag < MaxLag
  /\ lag' = lag + 1
  /\ clock' = (clock + 1) % Word
  /\ sinceFailure' = LowerOf(sinceFailure + 1, Word)
  /\ sinceSync' = LowerOf(sinceSync + 1, Word)
  /\ UNCHANGED <<link, pc, managerVars, events, page, failures>>

LinkChanges ==
  /\ link' = ~link
  /\ UNCHANGED <<clock, lag, pc, managerVars, events, page, historyVars>>

-----------------------------------------------------------------------------
(* maintainWiFi().                                                         *)

\* The loop goes on; lag counts from where an iteration reads the clock.
Goto(here, next) ==
  /\ pc = here
  /\ pc' = next
  /\ lag' = IF here = "WIFI" THEN 0 ELSE lag
  /\ UNCHANGED <<clock, link>>

\* Mutated: a lost address is not an event.
SetLocalIPv4AddressQuietly(address, others) ==
  /\ localIPv4Address' = address
  /\ events' = others

\* setLocalIPv4Address(), with the other events of this step.
SetLocalIPv4Address(address, others) ==
  /\ localIPv4Address' = address
  /\ events' = others \cup
       (IF address # localIPv4Address THEN {"localAddressChanged"} ELSE {})

StatusDue == Elapsed(lastWiFiStatusCheck) >= StatusInterval

\* Mutated: a wrapped clock is taken for an early one.
RetryDueUnwrapped ==
  wifiRetryDelay > 0 => clock - lastWiFiAttempt >= wifiRetryDelay

RetryDue ==
  wifiRetryDelay > 0 => Elapsed(lastWiFiAttempt) >= wifiRetryDelay

\* Nothing to do yet: the status is fresh, or the retry delay runs.
WiFiRests ==
  /\ Goto("WIFI", "TIME")
  /\ IF wifiConnected THEN ~StatusDue ELSE ~RetryDue
  /\ events' = {}
  /\ UNCHANGED <<managerVars, page, historyVars>>

WiFiChecks ==
  /\ Goto("WIFI", "TIME")
  /\ wifiConnected
  /\ StatusDue
  /\ lastWiFiStatusCheck' = clock
  /\ \/ /\ link
        /\ \E address \in Addresses \cup {0} : SetLocalIPv4Address(address, {})
        /\ UNCHANGED <<wifiConnected, timeSynchronized, wifiRetryDelay,
                       failures>>
     \/ /\ ~link
        /\ wifiConnected' = FALSE
        /\ timeSynchronized' = FALSE
        /\ wifiRetryDelay' = 0
        /\ failures' = 0
        /\ SetLocalIPv4Address(0, {"wifiDisconnected"})
  /\ UNCHANGED <<lastWiFiAttempt, lastNtpAttempt, page, sinceFailure,
                 sinceSync>>

\* attemptWiFiConnection() up to the blocking call.
WiFiAttempts ==
  /\ Goto("WIFI", "CONNECTING")
  /\ ~wifiConnected
  /\ RetryDue
  /\ lastWiFiAttempt' = clock
  /\ events' = {}
  /\ UNCHANGED <<wifiConnected, timeSynchronized, localIPv4Address,
                 lastWiFiStatusCheck, wifiRetryDelay, lastNtpAttempt, page,
                 historyVars>>

\* handleWiFiConnected()
WiFiConnects ==
  /\ Goto("CONNECTING", "TIME")
  /\ link
  /\ wifiConnected' = TRUE
  /\ wifiRetryDelay' = 0
  /\ lastWiFiStatusCheck' = clock
  /\ lastNtpAttempt' = clock
  /\ timeSynchronized' \in BOOLEAN
  /\ \E address \in Addresses \cup {0} :
       SetLocalIPv4Address(address, {"wifiConnected"})
  /\ failures' = 0
  /\ sinceSync' = 0
  /\ UNCHANGED <<lastWiFiAttempt, page, sinceFailure>>

\* Mutated: the delay starts when the attempt does.
AttemptEndedUnnoticed == lastWiFiAttempt' = lastWiFiAttempt

AttemptEnded == lastWiFiAttempt' = clock

\* The attempt failed, whether or not the access point answers.
WiFiFails ==
  /\ Goto("CONNECTING", "TIME")
  /\ wifiConnected' = FALSE
  /\ timeSynchronized' = FALSE
  /\ SetLocalIPv4Address(0, events)
  /\ AttemptEnded
  /\ wifiRetryDelay' = NextRetryDelay(wifiRetryDelay)
  /\ failures' = LowerOf(failures + 1, Word)
  /\ sinceFailure' = 0
  /\ UNCHANGED <<lastWiFiStatusCheck, lastNtpAttempt, page, sinceSync>>

-----------------------------------------------------------------------------
(* maintainTimeSynchronization().                                          *)

SyncDue ==
  /\ wifiConnected
  /\ ~timeSynchronized
  /\ Elapsed(lastNtpAttempt) >= NtpInterval

TimeRests ==
  /\ Goto("TIME", "EVENTS")
  /\ ~SyncDue
  /\ UNCHANGED <<managerVars, events, page, historyVars>>

TimeSyncs ==
  /\ Goto("TIME", "SYNCING")
  /\ SyncDue
  /\ UNCHANGED <<managerVars, events, page, historyVars>>

TimeSynced ==
  /\ Goto("SYNCING", "EVENTS")
  /\ lastNtpAttempt' = clock
  /\ timeSynchronized' \in BOOLEAN
  /\ sinceSync' = 0
  /\ UNCHANGED <<wifiConnected, localIPv4Address, lastWiFiStatusCheck,
                 lastWiFiAttempt, wifiRetryDelay, events, page, failures,
                 sinceFailure>>

\* handleConnectivityEvents(): the home page is told of a change.
HandleEvents ==
  /\ Goto("EVENTS", "WIFI")
  /\ page' = IF events # {}
             THEN [connected |-> wifiConnected, address |-> localIPv4Address]
             ELSE page
  /\ UNCHANGED <<managerVars, events, historyVars>>

-----------------------------------------------------------------------------
LoopStep ==
  \/ WiFiRests
  \/ WiFiChecks
  \/ WiFiAttempts
  \/ WiFiConnects
  \/ WiFiFails
  \/ TimeRests
  \/ TimeSyncs
  \/ TimeSynced
  \/ HandleEvents

Next ==
  \/ LoopStep
  \/ Tick
  \/ LinkChanges

Spec == Init /\ [][Next]_vars

(***************************************************************************)
(* The loop keeps running and time passes; an access point that stays is   *)
(* eventually joined by one of infinitely many attempts.  The watchdog     *)
(* resets the device if an iteration takes too long (MaxLag).               *)
(***************************************************************************)
FairSpec ==
  Spec /\ WF_vars(LoopStep) /\ WF_vars(Tick) /\ SF_vars(WiFiConnects)

-----------------------------------------------------------------------------
(* Properties.                                                             *)

\* Every variable keeps its type.
TypeOK ==
  /\ {clock, lastWiFiStatusCheck, lastWiFiAttempt, lastNtpAttempt}
       \subseteq 0..Word - 1
  /\ lag \in 0..MaxLag
  /\ {link, wifiConnected, timeSynchronized} \subseteq BOOLEAN
  /\ pc \in {"WIFI", "CONNECTING", "TIME", "SYNCING", "EVENTS"}
  /\ localIPv4Address \in Addresses \cup {0}
  /\ wifiRetryDelay \in 0..RetryMax
  /\ events \subseteq {"wifiConnected", "wifiDisconnected",
                       "localAddressChanged"}
  /\ page \in [connected : BOOLEAN, address : Addresses \cup {0}]
  /\ {failures, sinceFailure, sinceSync} \subseteq 0..Word

\* The events alone keep the home page's copy up to date: after each
\* iteration it shows the connection and the address of the moment
\* (setLocalIPv4Address(), handleConnectivityEvents()).
HomePageCurrent ==
  pc = "WIFI" =>
    page = [connected |-> wifiConnected, address |-> localIPv4Address]

\* The delay before attempt n + 1, by its definition.
Backoff(n) == LowerOf(RetryInitial * 2^(n - 1), RetryMax)

RetryPaced ==
  pc' = "CONNECTING" /\ pc # "CONNECTING" /\ failures > 0
    => sinceFailure >= Backoff(failures)

SyncPaced ==
  pc' = "SYNCING" /\ pc # "SYNCING" => sinceSync >= NtpInterval

\* Across every wrap of the clock, an attempt to connect starts no sooner
\* than the backoff of the failures so far after the end of the last one, and
\* an NTP attempt no sooner than its interval after the end of the last.
AttemptsPaced == [][RetryPaced /\ SyncPaced]_vars

\* While the access point stays, the device ends up connected: no wrap of the
\* clock leaves it waiting (maintainWiFi()).
Reconnects == <>[]link => <>[]wifiConnected

=============================================================================
