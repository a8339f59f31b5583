# Formal models of ebpf-assist

This directory holds TLA+ models of ebpf-assist, the configurations TLC checks
them with, and proofs TLAPS checks. Paths below are relative to `crates/` of
the repository. Run everything from this directory: `tlc -config X.cfg M`,
`tlapm M.tla`.

## The system

ebpf-assist lets a user without root privileges load and attach eBPF programs.
Two ways lead into a kernel:

* the **daemon** (`ebpf-assistd`) holds the capabilities, asks polkit, and
  loads programs into the host's kernel;
* the **isolated mode** starts a Firecracker MicroVM and loads programs into the
  guest's kernel, through an agent in the guest.

The command line client and the MCP server talk to the daemon over a Unix
socket, one JSON line per request; the command line client drives the MicroVMs
itself, as a library, and the MCP server starts it for whatever is not a request
of the daemon.

### Inventory

| component | state | operations | hard behaviour | what makes it correct |
|---|---|---|---|---|
| program types, policy (`ebpf-assist-common/src/lib.rs`, `loader.rs`) | none | detect a type, policy of a type | unknown and undetected types | a denied type never enters the table |
| program table (`ebpf-assistd/src/loader.rs`) | `programs`, `NEXT_ID`, what the kernel holds for each entry | load, attach, detach, unload, list | attach fails between two kernel calls; aya allows one `load()` per entry; the id counter wraps; a restart | flags and kernel agree; an id is one program; errors change nothing a client sees |
| maps of the programs (`loader.rs`) | the kernel's maps, one key after the other during a dump | list, read, dump, write, delete | hooked programs write their maps meanwhile; maps and dumps have limits; printed and parsed keys differ | a dump is complete; maps go with their program |
| authorization (`auth.rs`) | cache of decisions | check, interactive request, clear | a D-Bus call in the middle; expiry; refusals are cached too | a Lock forgets for good; only decisions are cached |
| request handling (`server.rs`, `handler.rs`) | `State` behind one mutex, one task per connection | the request variants | check and operation take the mutex separately; the prompt holds it; a response is written after the mutex is let go | an operation passed its own check; responses are true; every request is answered |
| capabilities (`caps.rs`) | a thread's effective set | raise, drop | failure to drop; guards that overlap | a thread is left with no capability raised |
| MicroVM manager (`ebpf-assist-vm/src/manager.rs`) | `active_vms`, `warm_pool`, two mutexes | acquire, release, load, list, stats, warm up, shut down | two locks in two orders; check, let go, create; crashes; failed resets | a VM has one owner; processes are accounted for; warm VMs are clean; limits; calls return |
| MicroVM, guest client (`manager.rs`, `vsock_client.rs`) | the stream, a mirror of the guest's programs | one request and one response at a time | cancelled and timed-out round trips, connections that fail, refused messages | a response belongs to its request; the mirror agrees with the guest |
| Firecracker process (`firecracker.rs`) | child process, sockets | start, boot, crash check, shutdown | boot fails half way | no process outlives its VM |
| guest agent (`ebpf-assist-agent`) | its program table | the guest commands | attach fails half way; shutdown | as for the program table |
| MCP server (`ebpf-assist-mcp`) | none between two lines | JSON-RPC loop; a tool makes one daemon request or starts a command line process | the daemon or the server dies during a request; a child that does not end | what a caller is told was done or was not; every line is answered |
| command line client (`ebpf-assist`) | none across processes; in an isolated load the manager and its VM | one request per process, isolated load, builds, triggers, traces | the process is killed; the VM belongs to the process | as for the MCP server; no VM outlives its load |

Interactions. `handle_request` calls `Loader` and `AuthManager` under the state
mutex; `AuthManager` calls polkit over D-Bus while the mutex is held. `Loader`
calls aya under raised capabilities. The manager owns `MicroVm`s, each of which
owns a Firecracker process and a stream to the guest's agent; a call that uses a
guest holds the manager's table for as long as the guest takes.

## Modules

| module | models | form |
|---|---|---|
| `ProgramTypes` | `detect_type`, `default_policy`, the arms of `attach` | operators |
| `ProgramLifecycle` | the promise about programs and ids | abstract specification |
| `Loader` | `Loader`: load, attach, detach, unload, restart | `LoaderSpec`, refines `ProgramLifecycle` twice |
| `DaemonMaps` | the map operations of `Loader`, and programs that write their maps | `MapsSpec`, extends `Loader` |
| `Auth` | `AuthManager`'s cache | actions used by `Daemon` |
| `Daemon` | connections, mutex, handlers, restart | `DaemonSpec`, extends `Loader` and `Auth` |
| `RemoteCall` | the promise about a client's call | abstract specification |
| `Assistant` | the MCP server and the command line as clients | `AssistantSpec`, extends `Daemon`, refines `RemoteCall` |
| `VmLease` | the promise about VMs | abstract specification |
| `VmLife` | the promise about one VM, between the manager and `MicroVm` | abstract specification |
| `VmPool` | `MicroVmManager` | `PoolSpec`, refines `VmLease`, and `VmLife` for each VM |
| `GuestAgent` | the agent's `ProgramLoader` and `CommandHandler` | actions used by `MicroVm` |
| `MicroVm` | `MicroVm`, `GuestClient`, `FirecrackerInstance` and the agent's loop | `MicroSpec`, extends `GuestAgent`, refines `VmLife` |
| `MC*` | instances for TLC | constants and symmetry |
| `*Proofs` | theorems | TLAPS proofs |

### Loader

`programs` is the map, with `Vacant` for a missing key; `nextId` is `NEXT_ID`;
`issued` is a history variable, the ids given out since the daemon started. An
entry has its type and `attached` flag and, because it owns aya's `Bpf` object,
what the kernel holds for it: `fd` after `program.load()`, `link` after
`attach()`. The actions are the functions of the same names, each run to its end
under the mutex. `result` of an action is the error (or success) the function
returns. `Hooking` spells out aya 0.12: `load()` refuses a program that has been
loaded before, and it runs before the tracepoint target is looked at, so a failed
attach leaves `fd` set. `Detach` changes the flag only.

### Auth and Daemon

`cache` has one entry per action, since `client_uid` is never set and all entries
are under the daemon's own uid. A check is `CheckHit`, or `CheckMiss` followed by
`PolkitAnswers`, with the mutex held in between; `Passes` lets an error of the
D-Bus call through, as `check_auth` does. `pc` says where the task of a connection
is: waiting for a line (`idle`), about to check (`check`), in a question to polkit
(`asking`), past its check and about to operate (`run`), in the prompt (`prompt`),
or with a response in its hands (`respond`). A handler ends in `Finish`: the
operation is done and the mutex free. `WriteResponse` is a step of its own, as
server.rs:87-91 is code of its own, so any other client's operation, or the
daemon's death, may come in between; a response that was not written by then is
lost, whatever it would have said. `ReceiveInvalid` is a line that does not parse.
`verdict` remembers what the check was told, `overtaken` which questions a Lock
has overtaken; both are there for the properties. `ErrorCodes` is the phrase
matching of `error_response` on the messages the modelled functions produce; the
failures of the capability calls do not all contain the phrase it looks for, so
they may also come out as `Internal`.

`ReplyMatchesTable` is about the moment a handler comes to its response, under the
mutex (`ResponseIsSo`), and about that response until it is written
(`ResponseIsKept`). It does not say that the table is still so when the client
reads it, and it checks the codes that name a state of a program, not the
classification of kernel errors.

### DaemonMaps

Every object file has a hash map and an array of the sizes the daemon reads, a
map of another type, and no map of a fourth name; values are left out. `keys` is
the hash map of each program, in the order the kernel walks it: by bucket, the
latest first. The map requests run under the mutex and name a program of the
table; `MapAnswers` stands for the ones that cannot change anything. A dump is
cut at each system call of aya's iterator: `DumpNext` asks for the key after the
one the walk stands on, which is the first key again when that one has gone;
`DumpLookup` reads it, skips it or, at the limit, stops; `DumpFails` is a call
that fails, after which the walk skips or ends as if it were complete. Between
any two of them `KernelWrites` and `KernelDeletes` of a program that is hooked
change its map, also one that is listed as detached. A write or a deletion begins
here when its key has been parsed. What a key is printed as, and that a printed
key is read differently (common/src/lib.rs:129 and 205-215 call it a hex string;
`parse_key` reads it as decimal unless it begins with 0x), is a fact about two
formats without a state, and is left out.

### Assistant

`Mcp` is the connection of the MCP server, every other member of `Conns` a
terminal. `activity` is what a client is at: the `op` of the request it waits
for, or a child or a command of its own (`tool`, `trigger`, `trace`, `endless`,
`isolated`). `Asks` opens a connection and sends one request, `ReadsReply` reads
the response line; `Expected` is the one variant each `match` calls a success.
`AnswerAtOnce` is a line the server answers out of itself, with a result or an
error. `vms` are the VMs of isolated loads under way, which `load_isolated` ends by
dropping its manager (`IsolatedEnds`), just when it has printed the VM's id:
`vm stop` in another process finds nothing (`VmStop`), although tools.rs:646
recommends it. `Killed` ends any process without its destructors: its request goes
on without it, and a Firecracker process it owned runs on with no owner, which no
property forbids, since nothing in the code is there to prevent it.

`told` is what the caller of a client's last command or tool was told. A line that
comes out empty, because the daemon died, is an error like any other to a shell
(the exit status is 1), but its message is one of its own (client.rs:51, "Failed to
parse response from daemon"), so the model keeps it apart as `lost`. `RemoteCall`
promises the rest: a success was done, a failure was not, the answer is lost only
when the serving process died before it had written one, and then the call may or
may not have been done, but nothing more is done for it. A caller that takes every
error for "not done" is promised nothing.

Three details of the code show in the actions on traces: a call without
arguments sets no limit at all (`endless`); limits are looked at when a line has
come, so a trace need not end; and one that was denied access has printed its
heading, which the server takes for a success (`TraceDenied`).

### VmPool

A call is cut at each lock it takes and at each wait for a guest or for
Firecracker; `pc` names the point. `activeLock` and `poolLock` are held across a
step only where the code holds the guard across an `await`: an acquire that popped
(`acquire_take`), the count, `stats`, and the use of a guest. A lock that is taken
and let go without a wait in between is a step that needs the lock free. `owned`
holds the VMs in a call's local variables; `vm` is the process behind each VM and
`dirty` says whose guest has a program loaded. `Crash` may strike a running VM at
any time. Creating a VM, resetting it and using it may fail.

`VmPool` takes creation, a reset and the end of a VM as single steps. What it
takes for granted there is `VmLife`: a VM comes up once and with an empty guest, it
may crash and does not come back, and a reset counts only when a running guest has
carried it out and answered it; from then on no program is in the guest until the
VM is used again. `VmLife` has the reset in two steps, `Answer` in the guest and
`Report` at the host, between which the VM may crash or the answer be lost, and in
one step for `VmPool`, which does not see the stream; in one step it needs a VM
that runs. `VmsKeepPromise` says that the manager keeps to this for each VM it
takes for clean: those in the pool and those in the hands of a call that will push
them or hand them out (`TakenForClean`). A VM whose reset failed, also because it
had crashed, must not be among them. `KeepsPromise` of `MicroVm` says that the
detailed object behaves so, so the two models meet in one contract.
That a failed creation leaves no process (`AcquireCreate`) is `NoOrphan` there.
`VmLife` also has the VM that has crashed by the time `create` returns: `VmPool`
boots it first and lets it crash next, before anything can be asked of it. A warm
VM that crashes stays in the pool and is handed out without a health check; its
next use fails.

### GuestAgent and MicroVm

`guest` is the agent's program table, with the guest kernel's view in each entry,
as in `Loader`: `point` is what the agent lists, `hook` what is there. Unlike the
daemon, the agent answers a second attach with success and changes nothing.

`state` is `MicroVm.state`, with three values more for an object that is gone:
`failed` (create returned an error or was dropped), `stopped` and `dropped`. `step`
is how far create is: 0 is the wait for the API socket, 1 to 5 the API requests,
the rest the connection attempts. The stream is two queues, `toGuest` and
`toHost`; a response carries the command it answers, for the properties only, and
the host pairs responses with calls by their order alone, as `send_command` does.
`call` is the command the host waits for. `Abandon` is a future dropped, or a
timeout expired, while it waits. When the process exits (`ProcessExits`), or the
connection fails while both ends live (`ConnectionBreaks`, the error exits of
`handle_connection` at main.rs:80, 94 and 117), the commands in the stream and any
tail of the responses are lost, also a response to a command that has already
changed the guest's table; the host opens no other connection. `MirrorAgrees` is
therefore about connections that hold. `abandoned` counts calls that were
given up and `clean` says that nothing was called since create or since a reset
was reported complete; both are history. `LifeOf` is the object as its owner sees
it: `none` until create has returned, then running or crashed with its process,
`gone` when shutdown has ended or the object was dropped.

## What is checked

| run | result | shows |
|---|---|---|
| `maps` | passes | types; the list never shows an attachment the kernel does not have; a load leaves other programs alone until the ids are used up; both views refine the lifecycle; a dump is complete while the map changes |
| `loader_detach` | violated | a detached program is still hooked |
| `assistant` | passes | a success was done, a failure was not, an answer is lost only with the daemon; a line that is waited for is there or worked on; every load and hook passed its own check; a Lock is final; responses are true |
| `assistant_live` | passes | every request is answered, and every line of the MCP server but traces and triggers; a VM has an owner only during its load |
| `daemon_unlock` | violated | a cached challenge outlives a granted unlock |
| `vm_pool` | passes | ownership, accounting of processes, exclusive use of a guest, clean warm VMs, the lease contract; a lock that is waited for comes free, but for the one deadlock; calls only move towards their end; no VM is taken for clean but by `VmLife` |
| `vm_pool_limits` | passes | how far the limits are overrun; calls return unless two are in each other's way |
| `vm_pool_total` | violated | more VMs than `max_total` |
| `vm_pool_deadlock` | violated | acquire against a count |
| `micro_vm` | passes | responses belong to calls in order; the mirror agrees with the guest; a reported reset is one, even after calls that were given up; no orphaned process; the agent's list shows real hooks; a host that waits has something to come; the object keeps `VmLife` |
| `micro_vm_live` | passes | create, calls and shutdown end if the agent answers |
| `micro_vm_shutdown` | violated | a guest that hangs is never killed |

The five violated runs each check one statement of the repository's documents or
messages that the code does not keep; `PROJECT.json` quotes them.

### Bounds

* `maps`: four object files (attachable and not, warned, denied, with two
  programs, with none), three ids, so the counter wraps and meets an entry that is
  still there. Three keys, two of them in one bucket, so that a walk can be thrown
  back within a bucket and between two; room for two of them in the map and in a
  dump, so that both get full. Maps are followed for one id (`Watched`), which is
  one of several programs; a map belongs to one program and the mutex lets one
  dump run at a time. 390,000 states. `loader_detach` has six object files and
  `Loader` alone.
* `assistant`: the MCP server and one terminal (enough for one to run between
  another's check and operation, and to be killed meanwhile), one object file,
  two ids, and between them every operation that changes the program list or the
  cache; the server loads, attaches, detaches and unlocks, the terminal loads,
  unloads and locks. Neither sends a line that does not parse. A client whose
  process was killed starts anew when the connection left behind has closed, which
  bounds the connections. `Workers` is empty: work of their own touches nothing the
  properties of this run look at. 1.4 million states.
* `assistant_live`: the same two clients with the requests that hold the mutex
  across a question or wait for it, and everything the MCP server does on its own.
  100,000 states.
* `daemon_unlock`: two connections, one object file.
* `vm_pool`: three tasks, three VMs, `max_total` 2, `max_warm` 1, `warm_up` with 1
  and 2. Three tasks so that two can be in each other's way while a third
  drains. VM ids are never reused, so three VMs bound the VMs a behaviour creates;
  after that creation fails, which the code's callers cannot tell from a failed
  boot.
* `vm_pool_limits`: two tasks, three VMs, `max_total` 2, `max_warm` 1, no
  `warm_up`: enough for one VM more than the limit. `warm_up` is left out because
  it asks for no limit. All pool runs switch TLC's deadlock check off, because the
  manager really can come to a standstill (`vm_pool_deadlock`) and because the VMs
  can be used up.

* `micro_vm`: two targets (so that a second attach can name another), two
  programs, two connection attempts instead of ten (a first, a last), one call
  given up, which puts every later response one behind. Calls themselves are
  unbounded, and a connection may fail at every point. 450,000 states.
  `micro_vm_live` has one target, one program and three attempts,
  `micro_vm_shutdown` no call given up. The deadlock check is off because a VM
  comes to its end.

### Fairness

`DaemonFairness` and `FairPoolSpec` give each task strong fairness on its next
step: tokio polls every task that can run and its mutex is a FIFO queue, so a task
waiting for a mutex that is let go again and again gets it. Two assumptions go with
it. Polkit and the user answer what they are asked (the daemon has no timeout), and
a guest answers or its connection breaks (the manager has no timeout). Nothing is
assumed of crashes, expiry or restarts.

`ClientFairness` gives each client's process weak fairness: it reads a response
that has come, a build comes to its end, an isolated load gets a VM or gives up
after its attempts and then ends, if the guest's agent answers, and a connection
nobody holds is closed. That a client begins anything, that a line of the kernel
log comes and that a triggered program ends is not assumed; a call that waits for
one of these need not end, and no later line of the MCP server is answered then.

`HostFairSpec` gives the host's side of a MicroVM weak fairness: one task drives
it, and what it can do next stays possible until it does it. For the requests of
the boot that assumes an answer of Firecracker's API, or the end of its socket:
firecracker.rs:196 awaits it without a timeout of its own. `FairMicroSpec` adds
that the agent handles the commands it has been sent. `micro_vm_live` needs both;
`micro_vm_shutdown` drops the second, because a guest that hangs is what the
isolation is for, and finds that shutdown then does not end.

## What is proved

The proofs hold for all values of the constants that satisfy the named
assumptions (`IdSpaceAssumption`, `VacantAssumption`, `RequestsAssumption`,
`NoConnAssumption`, `KeysAssumption`, `McpAssumption`, `ClientRequestsAssumption`,
`PoolAssumption`, `TasksAssumption`, `AgentAssumption`, `NoEntryAssumption`,
`MicroAssumption`). They say that sentinels are not members, that limits are
naturals, that the id counter has at least two values, that keys are naturals, that
no tool locks or pings, and that there are finitely many tasks, and at least one.

* `LoaderProofs`. `LoaderInv` adds to the type invariant and `AttachedIsHooked`
  that the counter follows the ids given out (`CounterFollowsIssued`) and that an id
  in the table was given out (`HeldIsIssued`). Without these two nothing says that
  `nextId` is vacant, which `LoadKeepsTheOthers` and both refinements need. The
  refinements are step by step: each action is an action of `ProgramLifecycle` or a
  stutter under the mapping.
* `DaemonProofs`. First that every step of the daemon is a step of `Loader` or
  leaves it alone, so `Loader`'s theorems carry over (`DaemonKeepsLifecycle`). Then
  `TaskInv`: the mutex is held exactly across questions, a task that handles a
  request has one, a task past its check has a verdict that lets it through for
  that very action, and no task waiting on polkit has been overtaken by a Lock.
  `LockIsFinal`, `GateHolds` and `ReplyMatchesTable` follow from it; the last in two
  halves, one for the step in which a handler comes to its response
  (`ResponseIsSoAlways`) and one for every other step while a task has it in its
  hands (`ResponseIsKeptAlways`).
* `MapsProofs`. `MapsInv` follows a dump under way (`DumpInv`): every key it owes,
  there from the beginning, not written and not shown, is ahead of the cursor, in
  its own bucket or a later one, and stays so whatever is inserted or deleted
  around it; when the key under the cursor has gone, the walk starts again before
  all of them. `DumpComplete` itself speaks only of the last step. `TablesInv` is
  the order of the map, which insertions and deletions keep. Every step is a step of
  `Loader` or leaves the table alone, so its theorems carry over
  (`MapsKeepLifecycle`).
* `AssistantProofs`. First that the clients make only requests that `Daemon`
  knows (`AssistantImplementsDaemon`), so that its invariant holds here. Then
  `ClientInv`: the request a client's task works on is the one the client made
  (`WorksForIt`), and the program list was changed for it exactly when its task has
  come to the success it waits for, written or not (`DoneIsAnswered`); a restart
  turns a response that was not written into a lost one, and leaves the change to
  the call that was made. The refinement of `RemoteCall` needs both: a connection
  that a restart has cut may count as done or not, but not as answered, and a
  response must not be taken for another request's.
  `LineToCome` adds `Answered`, that a task which rests has written a response to
  the client that waits for one (`EndsWithReply`: every way out of a handler writes
  one).
* `VmPoolProofs`. Ownership is not inductive. `PoolInv` adds who holds which lock
  (`LocksHeld`), how many VMs a call has in its hands at each point (`Hands`),
  that a VM in use is in the table (`UsedIsActive`), that only live VMs are dirty
  (`DirtyIsLive`) and that a VM about to be pushed or handed out is clean
  (`HandedIsClean`). Lemmas about pushing and popping, about the locks, the hands
  and the places after a step of one task carry the case analysis. The limits have
  an invariant of their own, `BoundsInv`: a count is followed by at most one
  arrival per task, and every other step moves a VM between the two sides of the
  sum. The lease refinement (`LeasesAreKept`) goes step by step: by `OnePlace` and
  `Accounted` the places of `VmLease` exclude each other, so a step moves exactly
  the VMs that leave one set for another. `LocksComeFree` follows from
  `LocksHeld`: only a popping acquire holds the pool across a wait, and only
  counts and a use of a guest hold the table, so a circle of two is the only one
  there can be (`TableComesFree`). `CallsAdvance` is one case for each action of
  the task itself (`StepAdvances`) and one lemma for everybody else's
  (`OthersRest`), with `Hands` for the loops, which end because a call holds what
  it is about to put down. The refinement of `VmLife` (`VmsAreAsPromised`) is for
  each VM by itself: by `OnePlace` and `Accounted` a step of a task boots, resets,
  uses or stops a VM it has in its hands or in the table, and every other VM
  stutters. A VM comes to be taken for clean only in the step that boots it and in
  the one that resets it with success (`CleanByReset`).
* `MicroVmProofs`. `MicroInv` follows the stream. `Wired` ties the stream to its
  two ends and the agent to its process, `Fresh` says that only a ping is sent
  before create returns, `Lined` is `InStep` by the two halves of the stream,
  `Resetting` is `ResetCleans` from the moment the reset is sent, and `Mirroring`
  is `MirrorAgrees` with a response still under way, all three for a stream that
  is open: neither property is inductive, because each speaks only of the time
  between calls. The lemmas about the agent (`HandleTypes`, `HandleLoads`,
  `HandleHooks`) say what one command does to its table. `AnswerToCome` is by
  `Wired` and `Lined`: the command of a host that waits is among those on their
  way to an agent that is up, or its response comes last, or the stream is broken.
  The refinement of `VmLife` (`PromiseIsKept`) needs `Resetting` to know that a
  clean guest is empty, and that a reset is reported only from the answer of one
  the guest carried out (`TurnIsLife`, `ReturnIsLife`); a failed connection may
  take that answer along (`BreakIsLife`). What is left of a step is what it does
  to the object's life, which create, the exit of the process, shutdown and drop
  change and nothing else. `PromiseSuffices` gets what the manager needs, that a
  VM which counts as clean has no program in it, from the contract alone.

Model-checked only: all liveness (`EveryRequestAnswered`, `LinesAnswered`,
`CallsReturn`, `CallsEnd`, `ShutdownEnds`), which is out of the prover's reach, and
the five runs that expect a violation. Every other property of the runs is proved.
What liveness rests on besides fairness is proved, as safety: under `LinesAnswered`
lies `LineToCome`, under `CallsEnd` `AnswerToCome`, and under `CallsReturn` that
what a task waits for can come free (`LocksComeFree`) and that what it does then
brings it nearer to its end (`CallsAdvance`). The step from these to the leads-to
formulas, which needs `ENABLED` and the fairness of each step, is TLC's.

## Not modelled, and why

* Printing, logging, argument parsing, generated sources, the compiler, and the
  activity that triggers make: I/O without state of its own. `Assistant` has only
  their ends.
* Texts of results. So it is not stated that the answer to an isolated load names
  a program id of a guest that is gone, 1 each time, as one to attach
  (tools.rs:645), which in the daemon's table is another program.
* Capabilities (`caps.rs`). A guard raises and drops capabilities of one thread
  around a section without an await, so nothing runs on that thread in between;
  `Loader` has the failure to raise them. The unit file gives the daemon an
  ambient set, which is effective from the start and not only permitted as its
  comment says; the first guard that drops a capability of it lowers it on that
  thread for good. The model has no capability sets.
* Values of maps, names and paths of programs: no operation depends on them. The
  text of a key: what happens to the map begins when it has been parsed.
* `AuthManager::disabled` and a settable cache duration are used by tests only.
* Frames of the guest's stream are whole: a future dropped in the middle of a
  frame, and frames larger than `MAX_MESSAGE_SIZE`, after which the two sides read
  payload as lengths, are left out.
* What becomes of a VM whose owner was killed, and an API of Firecracker that never
  answers (assumed away under Fairness).
* A process whose status cannot be asked, which counts as crashed.
* Deployment scripts and unit files: no program logic.

## Plan

Done: the daemon's core (`Loader`, `Auth`, `Daemon`) with its maps (`DaemonMaps`),
its clients (`Assistant`), the manager (`VmPool`) and the single MicroVM with its
guest (`MicroVm`, `GuestAgent`), each with proofs of all its safety properties; the
manager and the MicroVM joined by `VmLife`, with both sides proved.
What could follow, in this order:

1. The bounds of `VmPool` with `warm_up`, which asks for no limit: what does hold
   of the pool's size then, in terms of the counts it was called with.
2. Frames of the guest's stream: cancellation within a frame and the refusal of
   frames that are too large.
3. `UnloadAll` and several connections at once in the guest's agent.
