# WireGate IoT hub: TLA+ specifications and proofs

This directory is a verification development of the WireGate hub: TLA+ modules
translated from the C++ sources under `src/`, TLC configurations that check
them on small instances, and TLAPS proofs of the safety properties, and of most
liveness properties, for every value of the constants. `PROJECT.json` is its index: components, runs, mutants,
the source lines behind every definition, findings, hazards and theorems.

## The system

One service process and any number of clients on the same machine, which talk
over a Unix domain socket.

| Component | State | Operations | Talks to |
|---|---|---|---|
| `DevicePoolModule` (service/src) | `tick` | `initialize`, `start` (7 × `ensureDevice`), `execute` | the registry, from the main thread |
| `DeviceRegistry` | map id → `DeviceInfo`, one mutex | `updateOrInsert`, `list`, `find`, `sendCommand`, `updateTelemetry`*, `setStatus`* (*never called) | shared by the main and the I/O thread |
| `IpcServiceModule` | `running`, cached manager, server | `initialize`, `start`, `execute`, `shutdown`, `handleRequest` | registry; owns the server; `handleRequest` is its callback |
| `WireGateService`, `main.cpp`, `Service` | `running`, modules, settings, global `service` | `installModule`, `startMainLoop`, `shutdown`; `handleSignal`; `loadServiceSettings` | calls the modules in order; the signal handler writes `running` |
| `IpcServer` (ipc/src) | `running_`, acceptor, `io_`, thread | `start`, `stop`, `asyncAccept` | spawns the I/O thread; makes sessions |
| `IpcSession` | socket, buffers | `readHeader`, `readBody`, `writeResponse` | handler of the module; the peer's socket |
| `IpcClient` | per call: `io_context`, socket, timer, result | `request` | the service's socket |
| `IpcProtocol`, `IpcMessage` | none | length prefix, size limit, JSON | sessions and clients |
| CLI (`src/cli`) | none that outlives a run | one `run...` function, or `runWatch`; an exit code | one or two `IpcClient::request` in turn, or as many as `watch` lasts |
| Web gateway (`src/gui/src`) | settings | HTTP routes | `IpcClient::request` per route, two for health |
| Web page (`app.js`) | devices, selection, filters | refresh, send command, filter | HTTP routes |
| Logger (`src/core`) | none that is read | write a line | everyone |

**What is hard.** Two threads share the registry, which locks each operation
but nothing larger, and both do read-modify-write on it (`execute`:
list → work → write back; `send-command`: find → check → store). A stop signal
may come at any instruction. `IpcServer::stop` runs on the main thread while
the I/O thread is in its handlers. A client has a timer, its session has none,
so a request may be handled after its caller was told that it failed, and after
the retry. The socket file outlives the process, and whoever starts or stops
removes the one it finds, its own or not. Sizes are cut to 32 bits before they
are compared with the maximum. The page starts a refresh while
another still waits, and applies the answers in the order they arrive. The `hazards` list of
`PROJECT.json` has each of these at its line with the properties aimed at it.

**What makes each part correct.** Pool and registry: records stay consistent,
nothing is rolled back, no command is stranded. Requests: they look atomic and
are answered. Process: it starts in order, keeps listening, and a shutdown
ends. Path: a service alone on its path is reached there. Exchange: at most once,
one result, always a result, never a part of a message. Clients: the code they end
with is true, and what they are shown is not older than what their user was told
before. Page: what it renders is what it
holds, a command fits its device, and it settles on the state of the hub.

## Modules

    DevicePool ── DeviceRegistry ── DeviceHub ── MCDeviceHub
        │                               ├── HubService    (abstract; DeviceHub implements it)
        └── DevicePoolProofs ────────── DeviceHubProofs
    ServiceLifecycle ── ServiceLifecycleProofs
        └── SocketPath    (ServiceLifecycle implements it for one service)
    SocketPath ── MCSocketPath, SocketPathProofs
    IpcProtocol ── IpcExchange ── MCIpcExchange
        │              ├── RequestReply    (abstract; IpcExchange implements it)
        └── IpcProtocolProofs ── IpcExchangeProofs
    HubClients ── MCHubClients, HubClientsProofs
        └── RequestReply    (the calls the programs make)
    WebUi ── MCWebUi, WebUiProofs

**`DevicePool`**: the pure part of `DevicePoolModule.cpp`. `MakeDevice` is the
seven `make...` functions, `ApplyCommand` is `applyCommand` with its early
return, `Sample` the per-type branches of `execute`, `ExecuteOn` the body of
its loop. There is one device of each type, so the type serves as the id.
Telemetry keeps what follows from the status, the settings or a threshold on
the tick; readings that merely vary with the tick, names, locations and
`lastSeen` are left out. Temperatures are integers in tenths of a degree.
`Consistent` says that status, settings and telemetry of a record agree.

**`DeviceRegistry`**: the map, with one operator per locked operation that the
program calls.

**`DeviceHub`**: the running service as two threads over the registry. Main
thread: `EnsureDevice`, `StartIpcServer`, `SetIpcRunning` (the assignment that
follows the return of `ipcServer->start()`), then for ever `ListDevices`
(`++tick` and `list()`), one `WriteBack` per copy in any order (the map is
unordered), `FinishExecute`. I/O thread: `Receive`, one action per branch of
`handleRequest`, with `send-command` cut at the point where it releases the lock
(`CheckCommand`, `StoreCommand`), and `Reply`. Every critical section of the
registry is one step; code between two of them touches only locals. The count
in a `service-status` answer is kept as the set of ids it counts.

**`HubService`**: what clients may rely on. A request is checked, carried out
and answered in one step; between requests a device changes only by a tick that
leaves it consistent with nothing pending. It deliberately allows a tick to drop
an accepted command, because the code does (see the findings).

**`ServiceLifecycle`**: from the first line of `main` to its return, with the
main thread, the I/O thread and the signal handler interleaved. One action per
failure point of `IpcServer::start` and per statement of `IpcServer::stop`; the
accept handler is split between its test of `running_`, the session it starts
and the accept it arms (`Rearm`), since `stop()` runs between them. Nothing orders
the `close()` of the main thread and the accept that the I/O thread arms on the same
acceptor: if the acceptor is closed, the accept either fails or is left waiting,
whichever the build makes of the race. `Signal` and `Crash` may happen anywhere,
`Restart` keeps only the file system. `CheckPath` and `RemoveFile` are the two
halves of `removeSocketFile`, the first with the look at the path that may fail. The modules' request handling is one
bracket (`Handle` ... `EndHandle`); its contents are `DeviceHub`.

**`SocketPath`**: several services, each with the path of its configuration or the
default of `loadServiceSettings`, and the files at the paths. Of each process only
what touches a path is kept: the check and the removal of `removeSocketFile`
(two system calls), `bind`, `listen`, `stop`, and a failure or a crash anywhere. A
check that fails counts as nothing there (IpcServer.cpp:18): a start then goes on to `bind`
`"blind"`, with whatever is at the path in place, and a stop leaves its file behind.
`rivals` remembers whether another service was at work on the path meanwhile. No
other program is assumed to touch the paths. `ServiceLifecycle` implements it for one
service (`FollowsSocketPath`), so the start, failures and shutdown that it abbreviates
are the ones of the detailed process.

**`IpcProtocol`**: the four functions of `IpcProtocol.cpp` on digits to the base
`Byte` (256 in the code), with the cast to 32 bits where the code has it.

**`IpcExchange`**: calls of `IpcClient::request` and their sessions. Per call
one outstanding operation and one timer; the completion of either may be queued
while the other's handler runs, and `Complete` is what `completeWithError` and
`completeWithResponse` do: first result wins, close, cancel. The kernel's part
(connect, partial write, read, expiry) is external. The server may stop, restart
or never exist. A message has a size, a header and a body that parses or does
not. What exceeds the size that the header declares stays unread and fills the
socket's buffer, so its write never ends. The program sends only what `makeFrame`
frames; other headers and bodies that do not parse come from another program, for
which the checks in the code are there.

**`RequestReply`**: at-most-once calls: handled at most once, returned at most
once, a response only for what was handled. An error tells nothing.

**`HubClients`**: runs of the CLI and requests to the gateway, as programs that
make calls of `RequestReply` (which `IpcExchange` implements). `Plan` is the call
or the two calls of each `run...` function or route, `Accepts` what
`handleRequest` says to them. `Begin`, `Ask`, `NextCall`, `Done`, `Refused`, `Throw` follow
a program to its exit code or HTTP status (`Code`); `Wake` is the next round of
`runWatch`; a user may `Interrupt` a CLI, whose request is then handled all the same.
The hub handles the calls in its own time or not at all; the place of a call in
its `log` stands for the state that it was answered from.

**`WebUi`**: the page of `app.js` and the gateway routes it calls. The page is one
event loop, so a handler, or the code between two awaits, is one step:
`StartRefresh`, `ApplyRefresh` and `FailRefresh` are `refreshData` around its
await, `SendCommand`, `CommandAccepted` and `CommandFails` are `sendCommand`,
`ChooseFilter` and `SelectRow` the other handlers. The two requests of a refresh
are answered on threads of their own (`AnswerHealth`, `AnswerDevices`,
`AnswerFails`). The hub is external: the sequence of the states its devices have
been in; an answer is the number of the state it was made from. `AcceptCommand` adds
one, and a few devices (`Changing`) change by themselves. `table` and
`detail` are what the page has last rendered, beside the variables it renders
from. The connection pill, the toast and the filter by type are left out.

Mutants: next to some actions stands a `Mistaken` variant. None is part of a
specification; each shows that a property of a run notices that mistake.

## Runs

| Run | Instance | Shows |
|---|---|---|
| `hub` | 2 devices (plug: two statuses, energy; leak sensor: alarm status), ids with an unknown and an empty one, 4 commands, leak period 3, tick mod 4 | the safety properties, `CommandFate`, `RequestsAtomic` (refinement of `HubService`), `CommandDrained`, `RequestAnswered` |
| `lost_command` | same | **fails**: an accepted command is overwritten |
| `early_status` | same | **fails**: a serving service reports that it is stopped |
| `lifecycle` | 2 sessions at a time, any number of signals, crashes, restarts | `HandlersFindDevices`, `NeverDeaf`, `CleanExit`, `FollowsSocketPath` (refinement of `SocketPath`), `ShutdownCompletes` |
| `lost_signal` | same | **fails**: a stop signal before the loop is swallowed |
| `exchange` | 2 calls, the second a retry of the first, all kinds of messages | `AtMostOnce` (refinement of `RequestReply`), `FirstResultWins`, `AlwaysCompletes`, `AnswersIntact`, `ProgramOrder`, `CallReturns`, `SessionEnds`, `NeverBlocked` |
| `clients` | 2 programs, 7 jobs of every shape, 4 calls each | `CodeTellsTruth`, `RealTimeOrder`, `HandledInOrder`, `OneCallAtATime` (refinement of `RequestReply`), `ProgramsEnd` |
| `socket_path` | 3 services, 2 paths, any file left there | `LoneServiceReachable` |
| `default_path` | same | **fails**: the default client does not find the default service |
| `web_ui` | 2 devices with a command each, 2 statuses, 2 refreshes in flight, 3 states of the hub | `PageRendered`, `CommandFitsDevice`, `ShowsOwnCommand`, `PageCatchesUp` |
| `stale_refresh` | as `web_ui` | **fails**: an older answer replaces a newer state |
| `hidden_filter` | as `web_ui` | **fails**: the filter shown is not the one applied |

**Why the bounds suffice.** In `hub` devices interact only through being copied
and written back together, for which two are enough; the two types have every
field a command writes except the thermostat's target and `calibrated`, which
are set like `energyReset` (the proofs cover all seven types). The one I/O
thread serves one request at a time, so more clients add nothing. The leak
period 3 with a modulus 4 makes the tick wrap at a value that is no multiple of
the period, as 2^64 and 24 do. In `lifecycle` one session is enough for every
guard; two allow one to wait while another is accepted. In `exchange` two calls
show a retry overtaking its predecessor; all sessions share one thread, whose
handlers are the steps. A byte has two values there, so a word counts to 15 and a
message of 18 is one of 2^32 + 2 bytes; with a maximum of 3 there are messages that
fit, that `makeFrame` refuses and that it cuts. (The proofs are for every base.) In
`clients` each job is one way through the code; two programs are one before and
one after, or two at once, and four calls are two rounds of a watched health. In
`socket_path` two services show one removing the other's socket and the third is the
one that must not be harmed; the two paths are the two defaults. In `web_ui` two
refreshes show one overtaking the other and three states of the hub an answer of
each age (a command of the page is itself a new state); a page sends one command
at a time, so the overlap of two `sendCommand` calls is not covered. Deadlock is
checked in every run but `clients`, whose programs all come to their end.

**Fairness.** `DeviceHub`: each thread is scheduled (weak fairness of its steps);
clients owe nothing. `ServiceLifecycle`: the same for the main and the I/O thread;
connections, signals and restarts may never come, and a client may keep its
session open for ever, which is why `ShutdownCompletes` needs `io_.stop()`.
`IpcExchange`: a client runs its `io_context` and its timer expires (`Fair(c)`); nothing is
assumed of the server or of the rest of the kernel, so `CallReturns` rests on
the timer alone. `SessionEnds` states its own condition, that this session's
handlers run. `HubClients`: a program is scheduled (`Fair(p)`, weak fairness of `Run`), and its call
returns, if only with an error, which is `CallReturns` of `IpcExchange`; the hub may never
handle anything. `SocketPath` has safety properties only. `WebUi`
(`Fair(r)`, per slot): the timer fires, the browser runs what is ready, and every
call of the gateway returns, if only with an error (`CallReturns`); users and the hub
owe nothing. `PageCatchesUp` states its own condition, that refreshes do not
fail for ever.

## Findings

1. **An accepted command can be lost** (`NoLostCommand`). `execute` writes back
   whole copies (DevicePoolModule.cpp:322) taken before the command was stored;
   the client has been told "Command accepted". That is the only way a record loses its
   command with none in its place (`CommandFate`, proved). It is not the only way a
   command may fail to be carried out: a record has one `lastCommand`, so a second
   accepted command before the next tick replaces the first (DeviceRegistry.cpp:94), and
   if the copy of `execute` already has the first, that one is carried out and the second
   is lost. `CommandFate` says that nothing but such a request replaces a command.
   `NoLostCommand` does not count a replaced command as lost, and neither sees a second
   command that equals the pending one: the two are carried out as one.
2. **A serving service may report that it is stopped** (`StatusReportsRunning`),
   between `ipcServer->start()` and the assignment at IpcServiceModule.cpp:82, and at no
   other time (`StatusWrongOnlyInTheGap`, proved).
3. **A stop signal during the start is swallowed** (`SignalStops`): `service` is
   still null, or `startMainLoop` sets `running = true` after the handler has
   cleared it (WireGateService.cpp:57). A signal after that line ends the process
   (`ShutdownsComplete`).
4. **The page may go back to an older state** (`NeverGoesBack`): overlapping
   refreshes each assign `state.devices` when their own answers arrive (app.js:180);
   index.html:50 calls the table "Live state reported by the service device registry."
   Later refreshes repair it (`PageCatchesUp`, proved as `CatchesUp`), and a page with one refresh
   at a time never goes back (`GoesBackOnlyByOverlap`).
5. **A filter that is not shown** (`FilterShownApplies`): when the chosen status vanishes
   from the devices, `updateFilters` resets the select element to "All statuses"
   (index.html:58) but not `state.statusFilter` (app.js:105), and the table stays
   filtered. While the statuses stay the same, it cannot happen (`FilterFailsOnlyByVanishing`).
6. **The two default paths differ** (`DefaultClientFindsService`):
   `/tmp/wiregate_service.sock` in Service.cpp:24 and `/tmp/wiregate-service.sock` in both
   clients (cli main.cpp:33, gui main.cpp:31), so a service whose configuration names
   no path is not found without `--socket`, which README.md:60 asks for only "when
   the service uses a non-default IPC socket". Configured with the same path, the two meet
   (`NamedPathFindsService`).

`LoneServiceReachable` holds for a service that is alone. One that shares its path is not
safe: whoever starts or stops on the same path removes its socket file, and it
goes on serving a socket that nobody can connect to. No document promises otherwise,
so this is no finding.

## Proofs

`DevicePoolProofs` proves the facts about the pool on which the rest stands: what
`MakeDevice`, `ApplyCommand`, `Sample` and `ExecuteOn` make of a record (its type,
what it supports, its pending command, its consistency).

`DeviceHubProofs` proves `Spec => []IInv`, and from it all five safety invariants
of `hub` for every set of devices and requests, every leak period and every
modulus. The properties are not inductive one by one: a write-back keeps
`PendingIsSupported` only because the copy agrees with the record in everything
but the pending command (`SnapshotCurrent`), and `SnapshotCurrent` survives
`StoreCommand` only because a command is never empty and the device is still
there (`ValidatedStaysValid`), which needs that the pool is complete
before the I/O thread exists (`Phases`). `RequestsAreAtomic` proves that `DeviceHub`
implements `HubService`: the commit point of `send-command` is its store, and the
check before it agrees with one made at the store by `ValidatedStaysValid`.
`CommandsFate` follows from `SnapshotCurrent`: a copy with the command of the record
is the record, and `ExecuteOn` has carried it out; with `PendingIsSupported`, a record that
is written back has no command, so none returns from a copy. `RequestsAnswered` counts the steps of
a handler, `CommandsDrained` those of the main thread (`TurnsLeft`): the rest of the
tick that is under way, one step for `list()`, and one write-back for each of the seven types.

`ServiceLifecycleProofs` proves the safety invariants of `lifecycle` for every bound
on the sessions. Its invariant says for every position of the main thread how
far the acceptor, the I/O thread and the flags have come.
`TypeCorrect` there shows that the sessions are counted right through accepts, ends
and crashes. `ProcessFollowsSocketPath` is the refinement of `SocketPath`: the
steps of the process that touch its path are steps of one service there, all others
stutter (`Stage` and `FileFound` are the mapping).
`ShutdownsComplete` counts the steps of the main thread after the signal (`StepsLeft`), and
at the `join()` those of the I/O thread, which begins no handler once the context is
stopped (`IoStepsLeft`).

`IpcProtocolProofs` proves that `DecodeLength` undoes `EncodeLength` for every base, and
that `makeFrame` either refuses a message or declares its size, unless it has 2^32
bytes or more. `IpcExchangeProofs` proves every safety property of `exchange` for any
calls, any order among them and any messages. Its invariant follows a call
(`Lives`: until there is a result, an operation and the timer are outstanding, hence
`AlwaysCompletes`), its bytes (`Travels`: a part is read only after it was sent), its
session (`Serves`: what is answered was read, and handled if it could be) and what
the client may conclude (`Knows`: who has an answer has sent a whole request). The
last gives `AnswersIntact`, and with `Serves` the refinement of `RequestReply`; what that
means for the log of the server is `HandledOnce`. `NobodyBlocked` adds what a finished call
leaves behind (`Settled`: a closed socket, nothing outstanding). `CallsReturn` rests on the client
alone: its timer expires, if nothing else completes the call, and from then on every
handler leaves fewer (`HandlersLeft`), whatever the server does. `SessionsEnd` builds on
it: a client that has returned has closed its socket, and the session has only so many handlers
left (`StepsToClose`), unless the process ends first and takes it along.

`HubClientsProofs` proves the safety properties of `clients` for any programs, jobs and
devices. Its invariant says that the calls of a program before its current one
have all been answered with a response (`Turn`), where it is in its plan (`Place`) and what
its code then tells (`Tells`); `HandledInOrder` and `RealTimeOrder` follow as a
response is only given to what is handled, and nothing is handled twice. `AllProgramsEnd`
counts the steps of a program that is not a watch: to ask and to be answered for each of
its one or two calls, whether or not the hub ever handles one.

`SocketPathProofs` proves `LoneServiceReachable` for any number of services and paths, from an
invariant about services without rivals (`Alone`): what is at their path is theirs.
`NamedPathFindsService` adds the clients' side.

`WebUiProofs` proves the safety properties of `web_ui` for any devices and any number of
overlapping refreshes. `ShowsOwnCommand` needs `OwnRefresh`: the refresh after a command
is the only one of its kind, and is answered by a hub that has the command. The two
properties that the page does not have are proved under the condition that the
findings blame: `NeverGoesBack` for one slot (`NoneOlder`: what is in flight is
no older than what is shown), `FilterShownApplies` while no status comes or goes.
`CatchesUp` follows a slot through its stages (`Free`, `Asked`, `Half`, `Ready`), each of which
fairness ends: an older answer leaves the slot, no other comes (`UpToDate`), and once no slot
holds one, the next refresh that is applied settles the page and none unsettles it. That
every slot is up to date follows from each being so for a fixed number of slots only: the
theorem is for up to four, `Slots = {a, b, c, d}`, the run has two. It needs a device, as a
page without one selects none and `ApplyRefresh` has no step then.

**The liveness theorems** have the form `Spec /\ []GuardsEnable => P`. The prover has no
rule for `ENABLED`, so each module writes down the guards of its fair actions
(`MainGuard`, `HandlerGuard`, `IoGuard`, `ClientGuard`, `SessionGuard`, `RunGuard`, the
stages of a slot) and `GuardsEnable` says that an action is enabled where its guard holds.
That is a fact about the action alone, which is true by its definition in every state of
the right types; it says nothing of which states are reached. It is a hypothesis, argued from
the definitions and in no configuration. That a guard does hold whenever a thread, a client or
a session has its turn is proved: by the places of the thread alone for the hub and the process
(`GuardsCoverTurns`, lemmas), and for the exchange from the inductive invariant, as
`NobodyBlocked`, which gives the `NeverBlocked` of its run: a client that waits has a timer or
a handler under way. The rest of each argument is proved
too: which steps keep the turn, and a number that each step of the fair action lowers and no other
step raises, step by step, as there is no induction over the number (hence the numbers are
bounded by constants).

Assumptions, no others: `DeviceAssumption`, `TickAssumption`, `WaterPeriodAssumption`,
`MaxSessionsAssumption`, `PathAssumption` and `NameAssumption` (the defaults are paths, no
service is called like a kind of file), `ByteAssumption` and `MaxSizeAssumption` (a base of
at least 2, a maximum that fits a word), `FramesAssumption` (the client frames with
`makeFrame` and sends bodies that parse, or its header is invalid), `JobAssumption` and
`MaxCallsAssumption`, `BoundAssumption` and `HubAssumption` (the types of the constants). TLC
evaluates each of them.

**Not proved**: what `ENABLED` means (`GuardsEnable`), on which only the liveness theorems
and `NobodyBlocked` rest; TLC checks the liveness properties of the instances without it.
`PageCatchesUp` for more than four
refreshes in flight would need an induction over them, and is neither checked nor proved. Every
property of a run that is expected to pass is stated by a theorem.

## Not modelled

* Undefined outcomes of the race on the acceptor other than an accept that is left
  waiting or fails.
* An exception that leaves `writeResponse` inside the `catch` of `readBody`.
* What a service or another program does to the socket path besides starting,
  stopping and crashing as `IpcServer` does.
* Values of the settings other than the socket path; the JSON text.
* `updateTelemetry`, `setStatus` and the move constructor of the registry: nothing calls
  them.
* CLI: the argument parser (a job is valid or not), the filters of the list, tables,
  colours and text. Nothing is computed there that another part uses.
* Gateway: the HTTP server, its parsing, the static files.
* Page: the connection pill, the toast, the filter by type, the markup.
* Logger, build (no behaviour to check).

## Plan

Done, in order of importance: pool and registry, hub with its abstract service,
process life, exchange with its abstract calls and its framing, the clients on
top of the calls, the socket paths, the page and its gateway, each with proofs of
its safety properties; then the liveness of every part, the process as
an implementation of `SocketPath`, and for each finding what it takes to meet it. What is left:

1. Composition of `DeviceHub` and `IpcExchange`: the retry of a command end to end. Today
   they meet in interfaces: `HubService` (a request is atomic) and `RequestReply` (a call is
   handled at most once), of which `HubClients` uses the second.
2. Two `sendCommand` calls of a page that overlap.
3. The page's filter by type and its connection pill.
4. `PageCatchesUp` for any number of slots, if the prover gets an induction rule.
