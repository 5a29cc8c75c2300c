# Verification of HomeTemperature

HomeTemperature is the firmware of an AZ3166 board (Mbed RTOS, C++) that measures
temperature, humidity and pressure, serves them on the local network, uploads
them to a cloud gateway and can be updated over the air, with the gateway itself
(FastAPI over SQLite), its dashboard and the command line for updates. This directory holds TLA+ models of the
parts in which threads, callbacks, clocks and failures meet, the configurations
that check them with TLC, and theorems checked by TLAPS: every invariant and every
property of a step that a passing run checks is proved for all values of the constants.

Paths below are relative to the repository; `AZ3166/` stands for
`firmware/AZ3166/src/`.

1. [The system](#1-the-system)
2. [What makes each component correct](#2-what-makes-each-component-correct)
3. [Modules](#3-modules)
4. [Runs](#4-runs)
5. [Fairness](#5-fairness)
6. [Proofs](#6-proofs)
7. [Where the code and its documents disagree](#7-where-the-code-and-its-documents-disagree)
8. [What is not modelled](#8-what-is-not-modelled)
9. [Plan](#9-plan)
10. [How to run](#10-how-to-run)

## 1. The system

### Threads and processes

| Thread | Code | Shares with the others |
| --- | --- | --- |
| main loop | `firmware/AZ3166/AZ3166.ino`, `loop()`: watchdog, buttons, connectivity, web server, OTA, reboot, cloud upload, in this order | OTA controller, network coordinator, web server requests, home page |
| HTTP listener | `AZ3166/http/LocalWebServer.cpp`, `run()` | `stateMutex_`, `streamingMutex_`, discovery, OTA controller (status, cancellation) |
| HTTP streaming thread | same, `runStreaming()`; the firmware has one | `streamingMutex_`, the OTA controller (upload, apply) |
| OTA worker | `AZ3166/ota/LocalOtaController.cpp`, `runWorker()` | the controller's `mutex_` and semaphores, the request body of the streaming thread, the OTA Core |
| mDNS thread | `AZ3166/discovery/Az3166LocalDiscoveryOperations`, every 20 ms | `responderMutex_` |
| gateway handlers | `server/app/main.py`, FastAPI's thread pool | SQLite's write lock |
| dashboard | `server/app/static/dashboard.html`, one event loop, overlapping `refresh()` calls | the page's state |

### Components, their state and their operations

| Component | State | Operations | Talks to |
| --- | --- | --- | --- |
| Network coordinator (`connectivity/NetworkMaintenanceCoordinator`) | cloud in flight; OTA reserved, leased, its generation | `tryBeginCloud`, `endCloud`, `reserveOta`, `tryGrantOta`, `releaseOta`, each under one mutex | called by OTA controller and upload controller |
| OTA controller (`ota/LocalOtaController`) | session state (8 states), command, generation, cancel flag, borrowed body, staged image, queued apply and its two response contexts, worker's signal count | `upload`, `apply`, `responseAttempted`, `cancel`, `snapshot`, `readyImage`, `update`, `takeRebootRequest`, the worker's command loop | coordinator, Core, streaming body, main loop |
| OTA HTTP handler (`ota/LocalOtaHttpHandler`) | none of its own | upload, apply, cancel, status requests | OTA controller |
| OTA reboot coordinator (`ota/OtaRebootCoordinator.h`) | pending, deadline | `schedule`, `due`, `cloudAllowed` | main loop |
| Web server (`http/LocalWebServer`) | requested address and generation, published state, thread flags, one streaming job, sockets | `update`, `state`, `run`, `runStreaming`, `transferStreamingRequest`, destructor | discovery callback, handlers |
| Discovery (`discovery/LocalDiscovery`) | requested address, attempted, running, session; the responder's | `update`, responder `start`, `stop`, `serviceOnce` | the listener thread |
| Connectivity manager (`connectivity/ConnectivityManager`) | connected, synchronized, address, four times and delays | `update` | Wi-Fi and NTP (blocking), home page by events |
| Upload scheduler and controller (`cloud/`) | last attempt, delay, paused, suppressed, manual request | `requestManualUpload`, `togglePaused`, `isUploadDue`, `recordResult`, `update` | coordinator, uploader |
| Telemetry service, uploader, cloud client | sensor mutex | read, format, send, classify the answer | gateway |
| Buttons (`input/`) | debounce state per button | `update` | upload controller |
| Home page, telemetry and version handlers (`http/`, `telemetry/`) | prepared page | GET requests, `updateNetwork` | web server |
| Gateway (`server/app`) | table `telemetry` | POST telemetry; GET latest, history, count, status | SQLite, dashboard |
| Dashboard (`dashboard.html`) | selected hours, metric, history | `refresh` by timer and clicks | gateway |
| OTA command line (`tools/ota`) | none | build, verify, upload, status, apply | device over HTTP |

### What is hard

- **A session that many may end.** An OTA session is ended by its client (DELETE,
  a lost body), by the main loop (the local address changed, the lease did not
  come in time), by the Core's refusal, by an apply, or by a reset, while the
  worker is between two critical sections. Stale commands and stale wake-ups
  must not touch the session that follows.
- **A borrowed object.** The worker reads the request body, which lives on the
  streaming thread's stack; `upload()` must not return while it does.
- **An action that cannot be taken back.** Activation writes the boot table; a
  cancellation that was answered 202 must win before, and nothing may start
  after.
- **Hand-overs.** A client socket goes from listener to job to streaming thread,
  with mutexes released in between; the generation of the address may change at
  each gap.
- **Clocks.** Retry, backoff, NTP and upload intervals are unsigned differences of
  a clock that wraps, measured around calls that block.
- **Late and lost answers.** The gateway's client gives up on requests whose
  handlers run on; the dashboard's refreshes overlap. An update's client never sees
  the reset it asked for, only versions that it polls; generations are reused after
  it.
- **A stream cut anywhere.** The body of an upload begins in the block that ends the
  header, goes on at the socket, and passes from one thread to another in between;
  its client may send as slowly as the timeouts let it.

The full list, each hazard at its line, is in `PROJECT.json`.

## 2. What makes each component correct

- **OTA**: the Core is used only under the lease; a session's lease is neither
  leaked nor given back for another; a cancellation that was accepted wins; only
  the image that was published as Ready, still held, and whose apply was answered
  is activated; nothing happens between a committed activation and the reset; the
  worker is never left asleep with work to do; uploads return, cancellations and
  applies are decided, the lease comes back; the reboot comes in its time.
- **OTA clients**: the board boots what the client whose apply was accepted had
  uploaded; what is reported as an update was booted; versions do not go back.
- **Web server and discovery**: each socket has one owner; the one streaming slot
  is never given away while taken, and comes free again; what `state()` and the
  mDNS responder tell is about the socket that is open; after a change of address
  the service is withdrawn and comes back; a body arrives whole and in order, is
  waited for as long as the timeouts say, and no longer.
- **Connectivity**: attempts keep their backoff, a lasting link is joined, whatever
  the clock does; the home page's copy is current.
- **Uploads**: the pace and the suppression that `docs/firmware-design.md`
  describes, and no forgotten manual request.
- **Gateway and dashboard**: a 201 names a committed row, for good; chart and panel
  agree as far as two requests can; the window selected last is shown in the end.

## 3. Modules

```
NetworkMaintenance ──┬── OtaController ── OtaDevice ── OtaInvariants ─┬─ MCOtaDevice
                     │                       │                       └─ OtaDeviceProofs
                     │                       └─ refines ── OtaSession ─┬─ OtaSessionProofs
                     │                                                 └─ OtaClients ─┬─ MCOtaClients
                     │                                                                └─ OtaClientsProofs
                     └── CloudUploads ─┬─ MCCloudUploads
                                       └─ CloudUploadsProofs
Discovery ── WebServer ─┬─ MCWebServer
                        └─ WebServerProofs
HttpExchange ─┬─ MCHttpExchange
              └─ HttpExchangeProofs
Connectivity ─┬─ MCConnectivity
              └─ ConnectivityProofs
TelemetryGateway ─┬─ MCTelemetryGateway
                  └─ TelemetryGatewayProofs
```

All models use the same grain: **an action is one critical section, or one call
that may block or that another thread can overlap, between two of them**. Code
between two such points touches only the thread's locals and goes with the action
before it. Every thread has a program counter (`mpc`, `lpc`, `spc`, `wpc` for main
loop, listener, streaming thread, worker); helpers are named after the methods.
Definitions called "Mutated" are used by no specification: they are variants with a
plausible bug, kept to show that a property would notice it (`PROJECT.json`,
"mutants").

### NetworkMaintenance

The five methods of the coordinator as `Can...` (when it returns true) and the
change it makes. No next-state relation: `OtaController`, `OtaDevice` and
`CloudUploads` call it.

### OtaController, OtaDevice

`OtaController` has the members of `LocalOtaController` under their own names
without the underscore, the Core (`corePhase`, `coreImage`) and the boot table, and
the worker's locals. Its operators are the entry points (`UploadAccepted`,
`Cancellation`, `UpdateCancels`, `UpdateGrants`, `ApplyQueued`,
`ResponseAttempted`, ...) and the worker's steps (`WorkerWake` through
`WorkerRecord`, `CoreBegin`, `BodyData`, `CoreWrite`, `CoreFinish`, `CoreAbort`,
`CoreActivate`). The RTOS semaphore is a bounded count: a release at the limit is
refused, as in Mbed. The Core is modelled from how `LocalOtaPlatform` and the
controller use it; each call may fail in each way the controller distinguishes,
and an activation may be uncertain (power may fail inside it).

`OtaDevice` adds the threads: the main loop's order from `loop()`, including the
synchronous upload that holds it up; the streaming thread in
`LocalOtaHttpHandler`; the listener's status and cancellation; clients; and
`PowerLoss` at any step, which keeps only the boot table. `SystemReset` is the
reboot after an activation.

A package is a number of reads and a digest; `acceptedBytes` counts reads.
Version comparison, metadata and signatures are part of the Core's refusal. The
results that end a transfer badly without FATAL, a short body and a refused package
among them, are one value, `FAILED`: nothing in the controller tells them apart. The
Core's own session number is `NextCoreSession`; the controller's is `NextGeneration`,
which skips the 0 that means "no session".

### OtaSession

What the controller promises, without threads or generations: phases Free,
Waiting, Transfer, Ready, Activating, Closing, Lockout. `OtaDevice` implements it
under the mapping `SessionPhase`/`SessionCancelled` (`ImplementsSession`): a
session is *Closing* from its end until the worker gives the lease back, *Lockout*
is FATAL.

### OtaClients

The command line (`_upload_request`, `_command_upload`, `_command_apply`,
`_verify_rebooted_version`) and the script of the OTA page as clients of the device,
whose own steps are those of `OtaSession` by `INSTANCE`: what `Implements` proves of
the threads is used here for what the clients see. Added to the session are packages
(a version and a build, whose digest they stand for), the Core's staging generations,
which count from 1 again after a reset, the running version, and requests that are on
their way. An abandoned request may be handled late; an answer may be lost (`GivesUp`);
the board may be reset anywhere, and its boot loader may find a pending image broken.
An accepted apply holds the package its client meant (`asked`), a history variable
that the device does not have: `BootsOwnUpload` says that generation and digest do its
work. The page, unlike the command line, does not compare the digest with its file.

### OtaInvariants and the modules named Proofs

See [Proofs](#6-proofs).

### Discovery, WebServer

`Discovery` is the controller together with the responder's session; `start()`
releases the responder's mutex to start its thread, so an update that gets there
stops in a gap (`starting`), in which the generation may change or the responder
fail. `WebServer` has the main loop's `update()` and destructor, every place of
`run()` at which another thread can come in between, `transferStreamingRequest()`,
and `runStreaming()`; sockets are descriptors out of a small set, and opening,
accepting, reading and starting a thread may fail. Whether a retry interval has
passed is a free choice. In `OtaDevice` the web server appears only as the address
generation and the one streaming thread.

### HttpExchange

One connection from its acceptance to its end: the listener's block reads up to the
blank line, the routing, the hand-over of the prefetched bytes, `read()` of the body
stream split where it blocks (before `receiveBytes()`, before `wait(1)`), the read
loops of the two handlers, and `sendAll()`. A byte is its position on the connection,
so a sequence of bytes shows what was lost, repeated or swapped. Ages take the place of
differences of `millis()`; `spent` and `quiet` are history variables that no code
resets, against which the code's own clocks are checked. Where `WebServer` has many
connections and no bytes, `HttpExchange` has one with all of them; whether the slot is
free is a free choice here.

### Connectivity

`update()` split where Wi-Fi and NTP block, then the event handler of
`AZ3166.ino`. The clock wraps at `Word`; `failures`, `sinceFailure` and
`sinceSync` are history variables that count without wrapping, so the pacing
property compares the code's wrapped arithmetic with unwrapped time.

### CloudUploads

`UploadScheduler`, `CloudUploadController` and `OtaRebootCoordinator` over
`NetworkMaintenance`, in the order of `loop()`: buttons, reboot, upload. The request of
a committed session is polled, never cleared, and its lease is free again, so that the
reboot coordinator alone keeps uploads out; a reset starts everything anew. With it the
classification of payloads and HTTP codes (`Upload`, `HandleResponse`,
`ScheduleResultFor`). History variables hold what the documentation calls the last
result, whether a button was pressed since, and whether a manual request is still
owed an answer; they are computed from the documentation's table
(`DocumentedResult`), not from the code's. `sinceCommit` counts from the commit.

### TelemetryGateway

A handler stamps a measurement, takes SQLite's write lock with the INSERT, commits,
and answers; a row's id is its position. The device may give up and post anew while
the handler runs on, the clock may be set back, the process may be restarted. Each
refresh of the dashboard reads the latest record, then its device's history for the
hours selected at that moment, and redraws; two refreshes may overlap.

## 4. Runs

| Run | Module, specification | Asks | Bounds |
| --- | --- | --- | --- |
| OtaSafety | MCOtaDevice, `Spec` | type invariant, five safety invariants, one action property, and: is every step one of `OtaSession`, or a stutter | 2 generations, 2 tokens, 1 change of address, packages of one read, status polls |
| OtaOutcome | MCOtaDevice, `FairSpec` | does `upload()` return, are applies decided, does the lease come back after every cancellation and change of address | 2 generations, 1 token, 1 change of address |
| OtaStatusReply | MCOtaDevice, `Spec` | violated: see section 7 | status polls |
| OtaDisconnect | MCOtaDevice, `Spec` | violated: see section 7 | |
| OtaClients | MCOtaClients, `Spec` | what is booted, what is confirmed, downgrades | a command line and a page, versions 0 to 2, 2 staging generations |
| HttpExchange | MCHttpExchange, `Spec` | the body, the time an exchange takes, the patience with an upload | bodies up to 4 bytes (5 sent), blocks of 3, buffers of 2, timeouts 3, 4 and 10, 2 ticks between steps |
| HttpApply | MCHttpExchange, `Spec` | violated: see section 7 | the same, applies only |
| WebSafety | MCWebServer, `Spec` | sockets, slot, published state, announcement | 2 addresses, 3 descriptors, 3 generations, destructor |
| WebLiveness | MCWebServer, `FairSpec` | withdrawal, return, slot | 1 address, 2 descriptors, 3 generations, destructor |
| Connectivity | MCConnectivity, `FairSpec` | pacing, recovery, home page | clock of 8 ticks, 3 ticks per iteration, backoff 1, 2, 4 |
| CloudUploads | MCCloudUploads, `FairSpec` | pacing, suppression, manual requests, schedule, reboot | clock of 6 ticks, 2 ticks per iteration, intervals 3 and 1, reboot delay 2, HTTP codes on both sides of every boundary |
| TelemetryGateway | MCTelemetryGateway, `FairSpec` | answers, chart against panel, selection | 2 devices, 2 handlers, 2 rows, limit 1, 2 refreshes, 2 windows |

What the properties mean is stated above each of them in its module.

**Why the bounds are enough.**

- *OTA.* Generations matter only by equality and by their wrap. With two of them
  the counter wraps at once, and every confusion of a session with its predecessor
  or with the one after the wrap is reachable; the limit is 2^32 - 1 on the device.
  The theorems cover every limit. One read per package already separates "nothing
  read", "read, not accepted", "accepted" and "the body ended"; one digest suffices
  as images are told apart by generation and by "none". Two tokens allow a signal to
  be left over and one to be refused. The liveness run uses one token, the tighter
  case for a lost wake-up. One change of address, in both runs, may come at every
  place of a session, of an upload that waits and of a Ready image. The number of
  resets is not bounded.
- *OTA clients.* Two generations are reused after a wrap as well as after a reset. Two
  versions above the first allow an image to be staged, another to be booted, and the
  first to be applied. Two clients are an owner of the session and another; both kinds
  are among them.
- *One exchange.* The header (2), the block (3) and the buffer (2) do not divide one
  another: the block ends in the header, at its end, or in the body, and the prefetched
  part takes one or two reads. Contents run from nothing to one byte more than is
  allowed, and a client may send fewer or more bytes than it announced. The timeouts
  are distinct, and each is reached by ticks at every place; the total timeout is
  above the idle timeout and three lags, so that it hides nothing of the idle bound.
- *Web server.* Three generations are needed for a stale job, its successor and a
  disconnect in between; the disconnect and reconnect to the same address is among
  them with a single address. Listener, job and streaming thread can hold three
  sockets at a time; two suffice to fill the slot and ask for it again (the 503 of
  the liveness run).
- *Clocks.* `Word` is larger than every interval plus the lag, as 2^32 ms is, by
  far, than the longest interval plus the watchdog's timeout; with 6 or 8 ticks the
  clock wraps in the middle of every interval. The interval lengths are distinct where the
  code compares or confuses them.
- *Gateway.* Two rows stamped in one order and inserted in the other, by two devices
  or by one that gave up and tried again, with a limit of one, make panel and chart
  differ in each way that is possible; a third adds repetitions. Times run over three
  seconds and windows over one and two, so a row can leave one window and not the
  other.

Deadlock is checked in every run; the specifications say with an explicit stutter
where the system has rightly come to rest (a destroyed web server).

## 5. Fairness

- *Threads* (WF): the firmware's threads have the same priority under a preemptive
  round-robin RTOS, and each of their waits has a timeout (20 ms, 50 ms, 1 ms, 2 s
  for socket I/O). The main loop is also guarded by the watchdog.
- *Body reads* (SF in `OtaDevice`): a read that returns nothing is repeated, and an
  idle and a total timeout end the body; the fairness is strong as the worker leaves
  the read between two attempts.
- *Not assumed in `OtaDevice`*: any step of the listener, and the reboot of
  `SystemReset`, on which none of its liveness properties rests. `CloudUploads`, which
  has the reboot's deadline, bounds its delay without any fairness.
- *What the network grants* (SF in `WebServer`, `Connectivity`, `CloudUploads`): a
  thread or socket that is tried again and again is got in the end, a lasting access
  point is joined in the end, an upload that may begin again and again does. None of
  the safety properties uses it. `ManualAttempted` and `ScheduleGoesOn` state their
  premises themselves.
- *Time* (WF on `Tick`).
- *The dashboard* (WF): a fetch ends, with an answer or an error. That refreshes
  succeed now and then is a premise of `ChartFollowsSelection`.

No client, button, power loss or failure ever has to come.

## 6. Proofs

TLAPS proves every invariant and every action property that a passing run checks, and
the refinement, for all values of the constants that satisfy the named assumptions of
the modules. Those ask for no more than the code or the model's own conventions do:

- `OtaController`, `OtaDevice`: limits are positive (a generation limit above 1, as the
  counter skips 0), "no digest" is none.
- `OtaClients`: pages are clients, "no client" and "gone" are not.
- `HttpExchange`: positive lengths and timeouts, in any relation to one another.
- `WebServer`: addresses and descriptors are not 0, which means none in the code.
- `Connectivity`, `CloudUploads`: intervals fit the clock; the reboot's delay is at most
  half of it, and an iteration of the loop is shorter than that, as the coordinator
  compares by the sign of a difference (2^31 ms are 24 days; the delay is 250 ms and the
  watchdog resets a loop that hangs).
- `TelemetryGateway`: a positive limit, positive windows.

| Module | Theorem | Statement |
| --- | --- | --- |
| OtaDeviceProofs | `TypeCorrect` | `Spec => []TypeOK` |
| | `Safe` | `Spec => [](Types /\ SafetyInv)` |
| | `CoreIsUnderLease`, `LeaseIsAccounted`, `CancellationsWin`, `ActivationIsAcknowledged`, `BorrowedBodyIsAlive` | the five safety invariants of the run OtaSafety |
| | `OutcomeIsPublished`, `CommitIsHeld`, `NoWakeupIsLost` | Ready means the whole package; nothing starts between a commit and its reset; a sleeping worker has a token for what it has to do |
| | `OnlyApplyMakesPending` | its action property |
| | `FatalStays` | FATAL lasts until the reset |
| | `Implements` | `Spec => ImplementsSession`: the device refines `OtaSession` |
| OtaSessionProofs | `ProtocolExcludesCloud`, `ProtocolCancelsCleanly` | what the abstract protocol itself guarantees |
| OtaClientsProofs | `ClientTypes`, `BootsWhatWasAsked`, `SuccessIsOfANewBoot`, `NeverDowngrades` | the properties of the run OtaClients |
| HttpExchangeProofs | `ExchangeTypes`, `BodyArrivesIntact`, `ExchangesEnd`, `UploadsAreAwaited` | the properties of the run HttpExchange |
| WebServerProofs | `ServerInvariant`, `ServerTypes` | the inductive invariant, and types |
| | `ClientSocketsHaveOneOwner`, `StreamingSlotIsHeld`, `StateShowsTheRequest`, `AnnouncementsAreServed` | the safety properties of the run WebSafety |
| CloudUploadsProofs | `UploadsInvariant`, `UploadTypes` | the inductive invariant, and types |
| | `UploadsKeepTheirPace`, `RestsUnlessAsked`, `RebootsInTime` | the action properties of the run CloudUploads |
| | `ResultAsDocumented` | the code's result of an upload is that of the documentation's table, for every payload and status |
| ConnectivityProofs | `ManagerInvariant`, `ManagerTypes`, `HomePageIsCurrent`, `AttemptsKeepTheirPace` | the inductive invariant, types, and the safety properties of the run Connectivity |
| TelemetryGatewayProofs | `GatewayInvariant`, `AcknowledgedAreStored`, `PanelBelongsToChart` | the inductive invariant, and the action properties of the run TelemetryGateway |
| | `SelectionFills` | what a query leaves out is older than what it selects, and it leaves something out only at its limit |

Hardly any of these properties is inductive. What is missing in each is what a thread's
place implies about the shared state, given all that the others can do meanwhile; the
invariants of the following paragraphs say it, in named parts. TLC checked each of them,
too, on the instance of its run.

### The OTA update

**Types.** `VariablesTyped`, the part of `TypeOK` that gives each variable its set, is
inductive. It is proved in three parts, `FlagTypes`, `ValueTypes` and `RecordTypes`, by
what a prover needs for each; lemmas say that `NextGeneration` and `Released` stay within
their bounds. The other part, `ZeroIsNoSession` (no live session or reservation has
generation 0, and the counter never wraps back to 0), follows from the invariant below:
a live session holds the reservation, and only an upload moves the counter.

**The inductive invariant**, `SafetyInv` (OtaInvariants):

- `CoordinatorInv`, `LeaseAccounted`, `ReleaseInv`: who holds the lease. The worker
  that is about to release generation g may find that a new session was reserved
  only if the old reservation is gone; `ReleaseInv` is what makes a release of the
  newer lease impossible.
- `PlaceInv`, `CoreInv`: the states in which the worker can be at each place, and
  where the Core has a session. `VERIFYING` and `APPLYING` are the worker's own:
  nobody else enters or leaves them.
- `CancelInv`, `CommitInv`: in a live session `cancelRequested` is the same as "a
  cancellation was accepted", and a queued apply is that of the Ready image; a
  pending boot entry has a committed, uncertain or just finished activation behind
  it.
- `BorrowInv`: while `uploadBody_` is set, `upload()` is in its wait and is not told
  to return; when it is cleared the worker is past its last use.
- `PackageInv`, `PublishedOutcome`: reads made, accepted and to come add up to the
  package; Ready means that the Core holds all of it.
- `ContextInv`: an apply is released only after the context of its response is back.
- `WakeInv`: a worker that will go to sleep has a token for what it has not read.

`InitSafety` and `SafetyStep` show that it is inductive, action by action; the
safety properties follow from `Safe`, the action properties from one step under it.

**Refinement.** `Implements` maps every action of the device under `SafetyInv` to one
of `OtaSession` or to a stutter. A power loss is the protocol's reset, from any
phase.

### The clients of an update

`ClientInv` says that an image a client holds has the digest of the client's own package
or none (`UploadNamed`): the command line compares, and a page has the streaming slot to
itself from its upload to the answer (`SlotOwned`). Generations play no part in it, as
they are used again after a reset. So an accepted apply means the staged package
(`AskedStaged`, `ActivationAsked`), and `BootsOwnUpload` is one step from there. A staged
package was admitted above the version that runs (`StagedAdmitted`), and a client's old
version was read from a firmware booted by then (`VersionRead`).

### One HTTP exchange

`BytesInv` says that body and prefetched bytes follow one another without a gap and end
where the socket goes on; each read then appends the next bytes, from either source.
`StageInv` and `IdleInv` relate the ages that the code restarts to the ones that nothing
does. The idle wait starts with the first empty read, up to a lag after the last byte,
is looked at a lag late, and its last call may block for another: `ExchangeBounded`
allows `IdleTimeout + 3 * MaxLag`, and fails at two lags if the total timeout is not
reached before.

### Web server and discovery

`ServerInv` says what the places of the threads imply: which generation the listener
serves, and that no generation stands for two addresses (`GenerationInv`); that the
responder is silent wherever the listening socket may be opened or closed, and that a
start that was overtaken is not taken for a success (`AnnounceInv`); which thread holds a
client at which places (`SocketInv`); and that a thread was started if and only if it has
a place (`ThreadInv`), without which a start could be tried for a thread that runs.

### Schedules and clocks

The code keeps readings of a clock that wraps, and decides by differences. The invariants
say what a difference tells of the time that passed: it *is* that time until `Word`
(`PaceInv` of both modules), by lemmas on one tick of a modulo difference that hold for
every width. For the reboot, of a deadline ahead it tells the time left, of one that is
over the time for which the loop has not looked (`RebootInv`); both are below half the
clock, so the sign tells them apart. The flags of the schedule are what the documentation
makes of the results (`ResultsInv`: suppressed is rejected, a manual request is one still
owed), by `ResultAsDocumented`.

`Connectivity` keeps no count of its failures, only the delay; `BackoffInv` says that the
delay is at least the initial one doubled for each failure but the first. That it is
doubled needs 2^(n + 1) = 2 * 2^n, and the provers take a power for an unknown symbol:
`PowDoubles` gets it from the library's theorem on the number of subsets of a finite set.

### Gateway and dashboard

A handler between its commit and its answer has its row at its id, and a refresh between
its two requests has an id of the table: with the table only growing (`AppendKeeps`) this
is inductive. `PanelBelongsToChart` rests on `SelectionFills`, which counts. The records a
query leaves out have a newest one, the selected ones an oldest; the rank of the first is
at least the limit, that of the second below it, and the selected ones are just those
newer than the first. Both exist because every set of naturals has a least element
(`NatLeast`, from the library's `WFMin`), so no induction is needed.

### Only model-checked

- Liveness: `UploadReturns`, `ApplyDecided`, `LeaseReturns`, `StaleServiceEnds`,
  `ListensAgain`, `SlotFreed`, `Reconnects`, `ManualAttempted`, `ScheduleGoesOn`,
  `ChartFollowsSelection`. The provers here have neither fairness nor
  ENABLED.
- The three violations of section 7, which are behaviours TLC finds.

## 7. Where the code and its documents disagree

- **OtaStatusReply** (`AZ3166/ota/LocalOtaHttpHandler.cpp:171`). A status response
  reads the state and the image under two locks. Between them a cancellation or an
  apply may end the session: the response says Ready with generation 0 and an empty
  digest, although `AZ3166/ota/README.md:52` promises both. The same holds for the
  201 of an upload.
- **OtaDisconnect** (`AZ3166/ota/LocalOtaController.cpp:142`). While an upload waits
  for the lease, only the address generation is polled, never the socket: a client
  that has left is noticed after the grant, with the Core's session already open.
  `docs/core-local-ota-design.md:450` says that a disconnect while waiting cancels
  the reservation without touching Flash.
- **HttpApply** (`AZ3166/ota/LocalOtaHttpHandler.cpp:220`). `readSmallBody()` takes an
  empty read for a failure. An apply whose body does not come in the block of its
  header, or within the wait of a single read, is refused at once (and the refusal is
  replaced by "incomplete request body"), although `AZ3166/http/README.md:103` says that
  bodies are read under both idle and total deadlines. Python's HTTP client, which the
  command line uses, sends header and body in two segments.

Also met, without a run that reports it as a disagreement:

- On shutdown the streaming thread ends when it sees no job; the listener may still hand
  one over afterwards (`AZ3166/http/LocalWebServer.cpp:843`), and its socket is closed by
  nobody, against `docs/firmware-design.md:555`. `WebSafety` reaches that state, and
  `SocketsOwned` names it as its one exception, `JobLeftAtShutdown`. The firmware never
  destroys its server.
- `_verify_rebooted_version()` (`tools/ota/ota_cli.py:414`) goes on after the errors it
  names; a connection that is reset or cut while the device reboots raises others, which
  end the command with a trace.
- `runStreaming()` (`AZ3166/http/LocalWebServer.cpp:910`) replaces every refusal that
  leaves its body unread, 409 and 422 among them, by a 400, so that the typed failures of
  the handler do not arrive.

Without being an error: `tryGrantOta()`'s test of the cloud in flight never
decides on the device, since `update()` and the synchronous upload run in the same
thread. A dashboard redrawn by a late refresh shows another window's points under the
label of the one selected, until the next refresh.

## 8. What is not modelled

- The destructor of the OTA controller and callers of `upload()` or `apply()` on more
  than one thread: the firmware has neither.
- Header parsing and screening, JSON parsing and formatting, package layout and
  signatures: text and bytes, well within the reach of unit tests. In `HttpExchange` a
  header is a length, in `OtaClients` a package a version and a build.
- Sockets that fail for another reason than a client that left.
- Buttons: the debouncer is sequential code over one sampled level, and its product with
  the schedule it feeds is beyond what TLC checks in time with the schedule's liveness;
  a press is a free choice of `CloudUploads`.
- Sensor access and telemetry formatting (beyond the outcome of a payload), the home
  page (beyond its copy of the network state), device identity, watchdog, mDNS packets
  and the lease between several discovery controllers.
- Authentication and validation of the gateway, its count and status queries and
  queries that name no device; clients' retries are free.
- The other commands of the OTA command line, and the exceptions of Python's HTTP client:
  a poll that ends early is `GivesUp`. Build, release, backup and deployment scripts.
- The vendored board core, its boot loader and its OTA Core: modelled from their use only.

## 9. Plan

The models are written as far as they go, in this order, the most consequential first:
the OTA session with its abstract protocol and proofs; web server with discovery;
connectivity; cloud uploads; gateway with dashboard; the OTA clients over the abstract
protocol; one HTTP exchange; the reboot. The safety properties of all of them are proved.
What is left, in order:

1. **OTA clients over the device**: `OtaClients` takes the protocol's steps as its own, and
   `Implements` shows that the threads take no others. One theorem that puts the clients
   on the threads would need the apply's image in both.
2. **Steps towards liveness** that are properties of single steps: a measure for the worker's
   way from a cancellation to the release, which no step of another thread raises.

## 10. How to run

In this directory, with TLC and TLAPS on the path and the community modules in TLC's
library:

```
tlc -workers 2 -config OtaSafety.cfg MCOtaDevice
tlapm OtaDeviceProofs.tla
```

Each configuration goes with the module of the table in section 4. The longest runs
take about two minutes with two workers; the proofs of the device take two minutes, those
of the other modules less than half a minute each.
