# A verification project for the Arrakis sandbox runtime

Arrakis (module `tardigrade-runtime`) runs AI-agent sandboxes as
cloud-hypervisor micro-VMs. `arrakis-restserver` is a daemon with a REST API
that creates, pauses, resumes, snapshots, restores and destroys VMs. This
directory holds TLA+ modules of the daemon's core logic, the TLC configurations
that check them, and TLAPS proofs.

Line numbers without a file name are those of `src/pkg/server/server.go`.

## 1. Inventory

| Component | State | Operations | Hard behaviour |
|---|---|---|---|
| CID, port, IP allocators (`pkg/server/*allocator`) | a FIFO of free identifiers under a mutex | Allocate, Free, Claim | double frees, claims from the middle, exhaustion |
| Fountain (`pkg/server/fountain`) | a FIFO of tap numbers under a mutex; the host's tap devices | CreateTapDevice, DestroyTapDevice | three `ip` commands each, outside the mutex, each may fail |
| createVM / StartVM (872-1113, 1268-1376) | state directory, log, VMM process and socket, tap, IP, rules, CID, disk, `s.vms` | twelve steps with a stack of clean-ups, then boot | any step fails; other requests interleave; VMM answers late or never |
| VM control (1115-1256, 1378-1443, 1546-1662, 1791-1839) | `vm.lock`, `vm.status`, the VMM's state, snapshot directories | boot, PauseVM, ResumeVM, StopVM, DestroyVM, SnapshotVM | two handlers without the lock, a lock taken twice, answers lost or late |
| Registry (147, 792-801, 835-870, 1406-1523) | `s.vms` keyed by `namespace.vmName`, expiry times | lookup, DestroyVM, DestroyAllVMs, ListAllVMs, LifecycleManager | prefix arithmetic on keys; an unlocked iteration |
| Port forwards (230-394) | the host's PREROUTING chain, shared by all VMs | append rules; list and delete by number | numbers go stale between list and deletion |
| restoreVM (1664-1789) | claims of IP, tap and CID; copied disk | restore from a snapshot | partial failure, clean-up that blocks |
| NewServer (205-228, 396-487, 723-790) | bridge, firewall, tap devices and rules of an earlier process | clean-up and set-up | an end between any two commands; guests that outlive the server |
| REST server (`cmd/restserver`) | signal handling | decode, call the server, encode; shutdown | a shutdown against running handlers |
| Command server (`cmd/cmdserver`) and the calls to it (1841-1983) | files and processes of the guest | run a command, upload, download | calls that go on after their 30s client gave up; pipes nobody reads; children left behind |
| CLI client, guest init, vsock tools, rootfs maker, configuration | none that is shared | | |

How they interact. Each HTTP request runs on a goroutine of its own and calls a
method of `Server`. The methods share `s.vms` (under `s.lock`), the `vm`
objects (some under `vm.lock`), the allocators (each with a mutex), the host's
network state and the state directory. They call the VMM of a VM over a Unix
socket, with a 30s timeout. `LifecycleManager` runs on a goroutine that ticks
every 30s; `main` waits for a signal, then for the handlers, then calls
`DestroyAllVMs`.

What correctness means here, component by component:

- restore: what it claims is nobody else's, and what it leaves when it fails
  harms nobody;
- allocators: an identifier has at most one user, none is lost;
- createVM: whatever fails, everything taken is given back and nothing that is
  in use; a registered or running VM owns what it was built from;
- VM control: the status is what the VMM is in; a snapshot is whole and of one
  moment, or absent; every request ends;
- registry: nobody reaches another namespace; expired VMs go, others stay; the
  daemon ends after its handlers;
- port forwards: a clean-up deletes its own rules, all of them, and no others;
- start of the server: wherever an earlier start ended, the network is whole,
  and what an earlier life left cannot be taken for a VM of this one;
- command server: an answer says what happened (all files whole, all output),
  and calls and commands end.

There are no tests in the repository, so the hazards (PROJECT.json, `hazards`)
come from the code and its comments.

## 2. Modules

```
IdPool            what an allocator promises            (abstract)
  ^ implemented by
CIDAllocator, PortAllocator, IPAllocator, Fountain
  ^ composed in                         Allocators (what one server has of them)
StartVM           uses four IdPools
  ^ extended by   Restore (requests with a snapshot id among the others)
VmControl         one VM after createVM, the VMM as a message-driven machine
Registry          many VMs, their keys, the goroutines that walk them
NatRules          the shared chain of DNAT rules
  ^ extended by   Startup (NewServer, restarts, what outlives the process)
CmdServer         the guest's HTTP server and its callers in the daemon
QueueTheorems     lemmas on queues, least and greatest numbers
  ^ extended by   AllocatorsProofs, StartupProofs, CmdServerProofs
*Proofs           one per module that runs: its theorems, proved with TLAPS
MC*               instances for TLC
```

**IdPool.** State: who holds what. `Grant` needs that nobody holds the
identifier, `Release` that the caller does.

**CIDAllocator, PortAllocator, IPAllocator.** One action per method, one step
each because the method holds its mutex throughout. `available` is the Go
slice. `held` is the callers' side: what each was given and did not give back.
`FreeCID` and `FreePort` are also called with identifiers that are free
already (refused by the code). A caller of these does not free what another
holds; `StartVM!UsesPools` shows that the server's callers keep to that. In
IPAllocator an address is its host number in the subnet, so 2 is the first one
handed out. `FreeIP` and `ClaimIP` refuse nothing in the subnet
(ipallocator.go:71-101), and any caller may free and claim any address: one that
is queued already, one that another VM uses. `misused` is a history variable, the
addresses for which that happened. What holds (`IPsConserved`) is that no
address is ever lost, and that each address that was not misused is in exactly
one place; a misused one may have two users or be queued twice. restoreVM (1704)
claims without looking, see Restore.

**Allocators** puts the three and the fountain together as NewServer does
(764-790). Its ASSUME states the ranges the constructors accept.

**Fountain.** The queue operations are atomic; `AddDevice`, `SetMaster`,
`SetUp`, `SetNoMaster`, `SetDown`, `DelDevice` are the `ip` commands, one step
each. `CreateFails` and `DestroyFails` are a command that failed; the first
frees the number and leaves the device, the second does neither. At the start
the host may have devices of an earlier process.

**StartVM.** One request per goroutine; `pc` is its place in createVM and
StartVM, and `"rmDisk" .. "rmDir"` is the stack of clean-ups, latest first. The
allocators are sets of free identifiers (IdPool). Two requests may have the
same target name: the lookup at 1319 uses the bare name, finds nothing, and
both create. Files are identified by the target (`dir`, `sock`, `disk`); the
VMM that answers a request is whichever process bound the socket path. The
VMM: a new process binds the socket unless the path exists, takes one VmConfig,
boots, and may exit at any time. A call whose answer is lost may have been
carried out.

**Restore** EXTENDS StartVM with requests that restore a snapshot. Where
createVM does the same for both (log, VMM process, its clean-ups, a port and
its rule) the actions are StartVM's; the claims, what follows createVM and the
clean-ups of restoreVM are its own. `SnapTap`, `SnapIP`, `SnapCID` are what the
snapshot of each request recorded. A restore that fails after createVM ends in
`"stuck"`: its clean-up calls destroyVM, which does not return (VmControl). The
snapshots are taken to lie where restoreVM looks (1671); SnapshotVM does not
write them there (1558), so somebody moved them.

**VmControl.** Requests for VMs that one StartVM each registers. The removal of
the directory of a failed snapshot may fail, which is only logged (1571-1573);
such a request ends as `"unremoved"`, and `SnapshotAllOrNothing` leaves it out.
A call to the VMM is a message `<<o, call>>` in `inFlight`; `Accept` and
`Refuse` handle it, `Failed` is the caller giving up, and then the message may
stay in flight and be handled later. `lock` is `vm.lock`. `tick` counts how
often the guest began or ceased to run, so two equal ticks mean that it did not
run in between; a snapshot's disk and memory carry the tick of their moment.
The pc value `"relock"` is a destroyVM that holds the lock and waits for it: no
action leaves it, as in the code.

**Registry.** A key is a sequence of parts, the dot being one, so HasPrefix and
TrimPrefix are those of strings. Nothing checks a namespace or a name for dots,
so both may have them, two VMs may have one key, and a registration replaces
the VM that had the key. A DELETE may carry any namespace and name. `stuck[t]`
is the VM in whose destroyVM a goroutine is caught; that a destroyVM which
finds its VM does not return is VmControl's result, and for that reason no VM
leaves `vms`.

**NatRules.** The chain is a sequence of rules; each request appends its rules
one by one, and a failed creation lists, then deletes the highest number first.
NewServer is one more cleaner, whose "address" is the prefix of the subnet
(`IPPrefix`). An address is a sequence of octets, so that a prefix is a
different value, as the text search for `to:<address>:` treats it.

**Startup** EXTENDS NatRules with the life of the process. `at` is the place in
NewServer, one value per step, `"serving"` after it, `"down"` without a
process. `Dies` may happen anywhere: a crash, a signal, and a command of
NewServer that failed, after which main gives up, leave the same. `host` is the
set of set-up commands whose effect the host has, and `OfBridge` those effects
that go with the bridge. `taps` says whose device has a number; guests and
devices of an earlier life stay until a clean-up removes them. `LifeOf` fixes
the life in which a request arrives. `missed` is a failed `ip link show`, which
cleanupBridge (417) takes for "no bridge". cleanupBridge looks for `br0` and
deletes `br0` (417, 424), while the set-up uses the configured `bridge_name`
(756). The constant `NamedBr0` says whether the two are the same. Where they are
not, `DeleteBridge` never happens and every restart over a bridge misses it:
the bridge is then kept as it is, half-made or with old guests on it, and
`HostReady` and `NoOldGuestOnBridge`, which are about servers that did not miss
their bridge, say nothing. `config.yaml` has br0, and so have the runs.

**CmdServer.** A call has two sides: `call` at the REST server, `handler` in
the guest; the two only meet in `Send` and `Answered`, and a call that gave up
leaves its handler running. A path is a sequence of characters. `filesParam` is
what a list of paths becomes on its way to the guest: it is put into the URL
unescaped (1956) and decoded as a query there (`cmd/cmdserver/main.go:82`), so
`#`, `&`, `+`, `;`, `%` and a space change it or drop it; `Split` cuts it at
the commas (88). A file is a sequence of blocks; Create truncates, and
WriteString writes over what another upload put there meanwhile. A command
prints lines into pipes that hold `PipeSize` lines; `Scan` is a goroutine of a
background command, which stops at a line of more than 64KB (bufio.Scanner),
`CopyOutput` and `CombinedOutput` are exec's, `Wait` closes the pipes. A child
left behind has the pipe until it ends.

Every module also contains operators marked *Mutant*: a plausible bug in the
definition that follows. They are used by no specification; each property of a
passing run is violated when its mutant (PROJECT.json, `mutants`) takes the
definition's place.

## 3. Runs

| Run | Instance | Result |
|---|---|---|
| `allocators` | 2 callers, 3 CIDs, 3 ports, 3 addresses, 3 tap numbers | passes, 28k states |
| `start_distinct` | 2 requests for 2 names, 2 of each identifier, 4 ports, 2 forwards each; symmetry | passes, 12k states |
| `start_scarce` | 2 requests for 1 name after a third, 2 addresses, 1 CID, 2 ports, 1 forward each | passes, 184k states, with liveness |
| `restore` | 2 restores with one address and CID but different taps, 1 start; 2 taps, addresses and CIDs, 1 port | passes, 181k states |
| `vm_calls` | 1 VM: a start and any two of pause, resume, stop, destroy, snapshot | passes, 422k states, with liveness |
| `registry` | 4 VMs, 2 of them with one key, 2 requested namespaces, 1 handler, the manager, main | passes, 120k states, with liveness |
| `startup` | 2 lives, 2 requests with 2 forwards in each, one of which may fail | passes, 627k states |
| `cmd_server` | 2 uploads and a download, an upload and an odd list of paths, or a blocking and a background command | passes, 477k states, with liveness |
| `vm_destroy` | a start and a destroy | violates `DestroyReturns` |
| `registry_ttl` | 1 VM | violates `ExpiredDestroyed` |
| `stale_forwards` | 2 lives, 2 requests with 2 forwards in each, none of which fails | violates `ForwardsReach` |
| `start_orphan` | 3 requests for 1 name | violates `EveryVMManaged` |

Why the bounds are enough. The allocator properties relate one identifier to
two callers; three identifiers let a claim take from the middle of the queue
and a freed one come round again. The fountain shares no state with the other
allocators and each property is about one of the two, so `allocators` looks at
one while the others are at rest (`OneAtATime`). Repeated frees make the queue of
addresses longer without end; `MaxQueued` bounds it at four, one more than there
are addresses, so that a queue with a repetition and none missing occurs (both
are conjuncts of the CONSTRAINT `Bounds`). What holds beyond is in section 5. In `start_distinct` and `start_scarce` two
requests are enough for every conflict over an identifier, a name, a socket or
a disk. `start_scarce` begins where a third request for the name is over: it
failed, or its VM is up (`Over` in MCStartVM, states that the third request can
reach alone). In the second case the address and the CID run dry, in the first
the CID does, and the ports do after a failed creation leaked one. In
`start_distinct` identifiers are only compared, so they are interchangeable
(SYMMETRY); no liveness is checked there. What holds for these instances of StartVM's
identifiers is proved for all (section 5). In `restore` the two snapshots differ in the tap
number only, so that one restore can pass where the other fails and both get as
far as the CID; the start can be given either's tap, address or CID before or
after they claim it; one of the restores and the start have the same name. In
`vm_calls` two requests besides
the start cover every pair of handlers; two snapshots have different ids.
(Two snapshots with one id are left out of this run: the code's Stat and
MkdirAll are two steps, one of the two may remove the other's directory, and
`SnapshotAllOrNothing` is stated for an id with one user.) In `registry` the
namespaces `d`, `d2` and `d.2`, and the names `.a` and `2.a`, are the shapes on
which the key arithmetic can go wrong: a prefix without a dot, the extra dot of
the LifecycleManager, and one key for VM `2.a` of `d` and VM `a` of `d.2`. In `startup` two lives show what one leaves to the
next; a third would begin like the second. The first life hands out host ports
in between each other, so a clean-up has to delete rules on both sides of
another VM's; the second gives addresses, taps and ports out again in another
order. One request of each life may fail, so that one clean-up runs at a time:
with two, `RulesKept` does not hold (PROJECT.json, hazard at 375). In
`cmd_server` the two uploads write the same path or different ones, one has an
empty path in the middle and a file that may lie outside the base directory or
have a `+` in its name; the second may be a retry of the first. The odd lists
(`OddLists`) have each character that a URL gives a meaning. The commands print nothing, more than two pipes hold, or a long line first,
with and without a child. `PipeSize` is 1, so that writers have to wait.

Deadlock is not checked where the system stops: all requests of an instance are
over, or a destroyVM waits for itself. The allocators never stop, and their
run checks deadlock.

### What the violations show

- `DestroyReturns`: destroyVM (1417) and vm.destroy (1183) lock the same
  `sync.RWMutex`. A DestroyVM that finds its VM never answers, and the VM's
  resources stay. This also makes 1186-1237 and 1424-1441 unreachable.
- `ExpiredDestroyed`: LifecycleManager trims `namespace` but not the dot
  (842), so it asks for `namespace..name`. DestroyAllVMs does the same (1471).
- `ForwardsReach`: NewServer passes the prefix `10.20.1` to a clean-up that looks
  for `to:10.20.1:`, which no rule contains (739). The rules of an earlier life
  stay in front, and a new VM's host port leads to an old address and port.
- `EveryVMManaged`: the lookup with the bare name (1319).

Further disagreements seen while modelling, most of them listed as hazards: ClaimIP's
comment promises an error that the code has not (ipallocator.go:84), so an
address can get two users; the "Comma-separated list of file paths to download"
(`server-api.yaml:332`) reads other files than those named, or fewer, if a path
has a character that a URL or the split gives a meaning (1956), and the answer
is still ok; cleanupBridge knows only br0; the README
(260) allows a restore once the original VM is stopped, but a stopped VM keeps
its tap number, which the restore must claim; a snapshot is not found by a
restore (1558 against 1671); a ResumeVM and a PauseVM between the copy of the
disk and the VMM's snapshot are not noticed (1580); main passes `"*"` to DestroyAllVMs, which is no prefix of
any key (`cmd/restserver/main.go:512`).

## 4. Fairness

- StartVM: weak fairness of each request's steps once it has begun
  (`Provision \/ Undo`): its goroutine is scheduled, and each wait in it has a
  timeout (10s, 20s, 30s). Requests need not arrive and the VMM need do
  nothing.
- VmControl: weak fairness of `Work(o)`: a handler that can go on does, since
  each call returns at the latest with its timeout. The VMM need handle
  nothing. A `sync.RWMutex` does not starve a waiting writer; weak fairness of
  `Acquire` is less than that, and enough as nobody takes the lock twice.
- Registry: weak fairness of each goroutine that can run. The ticker ticks.
  Nobody need send a request or a signal.
- CmdServer: the goroutines that run a command and read its output run (`Run`,
  `Scan` for each stream), and a command that can print or exit does. Nothing is
  assumed of the callers, of uploads and downloads, or of a child that was left
  behind, which may be a daemon; and the guest may stop.
- Startup and the allocators have no fairness: nothing need happen.

## 5. Proofs

Every safety invariant and every action property of a passing run, and every
refinement, is also a theorem for all values of the constants (PROJECT.json,
`theorems`). Each module of proofs has the same form. An inductive invariant
says what holds at each place of the code; one lemma says that the initial
states satisfy it, one that a step keeps it, with a case for each action; the
theorems follow from it. Each inductive invariant was first checked with TLC on
the instance of its module's run. What the theorems assume of the constants is
in the named ASSUMEs of the modules, which TLC evaluates on every run.

**QueueTheorems.** What Tail, Append, RemoveAt and SubSeq do to the set of
values in a queue and to its freedom from repetitions, and how they fit
together. `LeastOf` and `MaxOf`: a set of numbers has a least element, and a
greatest one if it is bounded. They rest on the library's theorem that a
well-founded order has minimal elements (WFMin), which needs no operator
parameter.

**AllocatorsProofs.** For every range and set of callers. `Kept` is the
invariant of one queue and the holdings of its callers: no identifier is queued
twice or has two users, and each is queued or held. The lemmas `TakeKeeps` and
`FreeKeeps` are about any queue; `CIDStep` and `PortStep` show that each action
is one of the two, or refused. The calls of the IP allocator are not, and its
invariant is weaker: each address is queued or held, and in one place unless
it is in `misused`, with any calls in any order. With these `CIDsKeptApart`,
`IdentifiersAlwaysConserved`, and that every pool implements IdPool
(`ImplementsPool`, `OthersImplementPools`). The fountain may lose a number
(`DestroyFails`), so `TapsKept` has no "queued or held". It has instead, for
each place in CreateTapDevice and DestroyTapDevice, what was done to the device
so far: `OwnedDevicesWork`, and `StraysAlwaysStay` for the devices of an earlier
process. Assumed: `RangeAssumption` and `BoundsAssumption`, which the
constructors check.

**StartVMProofs.** For every set of requests, names and identifiers and every
number of forwards: `TypeCorrect`, `NeverShared`, `NeverLost`,
`RegisteredOwns`, `PortsNeverReused`, and `UsesAllocators: Spec => UsesPools`,
the requests' holdings implement four IdPools.

The invariant `Inv` adds to the properties what each place in createVM has in
hand (`Phase`): from the step that takes an identifier to the clean-up that
returns it, the request's variable is not None, and before and after it is
None. Without that, NothingLost is not inductive: a FreeIP could be reached with
no address. Every action changes a pool by taking one free identifier, by
returning one that is held, or not at all (`Move`). One lemma shows that a Move
keeps a pool apart and accounted for and is a step of IdPool, and `NextMoves`
that every action is a Move of each of the four pools.

`RunningGuestsOwn` states RunningGuestOwnsResources under `DistinctTargets`: no
two requests name the same VM. The hypothesis is needed: with one name, two
VMMs race for one socket and the guest that runs may be configured by the
other request. `Files` ties the VMM behind a socket path to the request that
spawned it. Under the same hypothesis `DistinctVMsAreManaged` proves
EveryVMManaged, the property run start_orphan finds violated: two requests for
one VM are what it takes.

**RestoreProofs.** For any starts and restores and whatever the snapshots
recorded: the invariants of the run, `RestoreUsesAllocators` and
`RestorePortsNeverReused`. A start keeps StartVM's `Phase`, a restore has phases
of its own (`RestorePhase`), and each step is a Move of the pools of taps, CIDs
and ports, so StartVM's lemmas are used again. The addresses are no such pool,
since ClaimIP (ipallocator.go:84) takes one that is in use without an error.
For them only the starts count, and a restore's steps make fewer addresses free
(`Shrink`); a restore that fails after its claim does not give the address back
either, which is what `AddressesKept` rests on.

**VmControlProofs.** For any requests, VMs and snapshots, with calls that are
lost or handled late. Each invariant builds on the one before:

- `Core`: where a request of each kind can be, which calls of it can be in
  flight there, and that the lock of a VM is held by the request that waits for
  its boot, pause or resume;
- `Truth` and `LateCalls`, for `StatusAlwaysTruthful`: between the VMM's step
  and the assignment to `vm.status` the two differ, and what the holder of the
  lock was answered says how; a call that nobody waits for any longer makes its
  request "unanswered", which the property leaves out;
- `ContentsOK`, for `SnapshotsAllOrNothing`: what the directory holds at each
  step of SnapshotVM;
- `Stillness` and `SameMoment`, for `SnapshotsOfOneMoment`: while nobody calls
  ResumeVM, at most one request can still make the guest run. So the guest does
  not run between the copy of the disk and the VMM's snapshot, although a late
  `snapResume` of another snapshot may be in flight.

`DestroysNeverReturn` needs `Core` alone: a DestroyVM that is over did not find
its VM, and the lock of a VM it did find is never given to anybody again.
Registry and Restore rely on it where they leave a goroutine that destroys a VM
caught for ever.

Assumed: `AssignmentsAssumption` (a VM is started by one request, which is what
the key in `s.vms` gives for VMs that are found) and `NoneAssumption`.

**RegistryProofs.** For any VMs, namespaces, names and handlers, with or without
dots, `RegistryTypes` and `NamespacesStayApart`. A goroutine is caught only with
a VM whose key is the one it made from its own namespace, and two namespaces
that are prefixes of one key with a dot behind them are equal or one goes on
from the other with a dot (`Extends`). Without dots that is equality. With dots,
`a` and VM `b.c` have the key of `a.b` and VM `c`, and a request for one reaches
the other, which nothing in the code prevents.
`WalksDestroyNothing` adds, for namespaces and names without a dot
(`PlainNames`), that only a DestroyVM ever finds its VM. The LifecycleManager and
DestroyAllVMs leave
the dot in what they take for the name and make keys with two (server.go:842,
1471; `DotStays`), so what has expired is not destroyed, and neither is anything
when the daemon closes.

**StartupProofs.** For any number of lives and requests:

- `StartupTypeCorrect`, with `HostTypes` and `NatTypes`. It needs that a
  clean-up of NewServer deletes nothing (`PrefixMatchesNothing`): the prefix has
  one octet less than an address;
- `HostIsReady` and `OldGuestsAreOffTheBridge`, which speak of a server that
  serves. `HostInv` says what is true on the way there: after the deletion of
  the bridge its effect is gone, so the set-up is not skipped, and while it runs
  every command before `step` has its effect. Without the first part a half-made
  bridge would be taken for a finished one. `BridgeInv` says that no device is
  on the bridge until the server serves, and none at all without a bridge;
- `RulesAlwaysKept` and `RulesAlwaysGone`, for `StartupSpec /\ []OneCleanup`.
  `ChainInv` says that the numbers a clean-up noted are still those of rules for
  its address: rules are only appended behind them, and the clean-up itself
  deletes the highest number first. A second clean-up that deletes at the same
  time would shift them, and no lock prevents it: `OneCleanup` is a real
  hypothesis (PROJECT.json, hazard at 375). `OneFailureOneCleanup` shows that it
  holds when at most one creation of each life fails, as in the run;
- `FirstLifeForwardsReach`, under the same hypothesis: in the first life of the
  server every forwarded port leads to its own VM. Of the rules of one life one
  alone is for a host port (`Forwards`), and the first match is it. Run
  stale_forwards finds ForwardsReach violated in the second life, by the rules
  of the first.

Assumed: the ASSUMEs of NatRules and Startup, among them that requests of one
life have different addresses and host ports, and one request different ports
for its forwards (`PortsAssumption`). NeverShared proves it of StartVM: the port
a request takes is free, and what anybody has, itself included, is not.

**CmdServerProofs.** For any calls, files, commands and lines, and pipes of any
size, with callers that give up and a guest that may stop:

- `CmdTypeCorrect`, with `Core`: the places of a handler of each kind, and how
  many lines of a command are written;
- `UploadsAlwaysInOrder`, with `Written`: for each entry of an upload that no
  other upload writes, whether its file is untouched, opened and empty, or
  whole, by the entry the handler is at (`FileOK`);
- `RetriesAlwaysWhole`, with `Retried`: uploads of the same content to one path,
  whose handlers overlap because a caller gave up, leave it whole once each has
  written it. The invariant says that the file, once it was truncated, is never
  longer than that content, and is all of it while nobody is between truncating
  and writing it;
- `AlwaysReadYourUploads`, with `ReadOK`: what each entry a download has read
  so far was. An upload in `seen` was answered before the download was made, so
  its handler is over and its files stay. It is about lists that mean the same
  in a URL (`Plain`), which reach the guest as they are (`PlainPaths`) and are
  split there, and about relative paths;
- `BlockingAlwaysComplete`, with `Copied`: the answer so far and what is in the
  pipe, one after the other, are exactly what the command and then its child
  printed, and the handler answers only when nobody has the pipe and it is
  empty.

Assumed: `JobsAssumption` (what a call asks for has the shape of its kind),
`OldAssumption` and `PipeAssumption`.

**Only model-checked.** Liveness (`RequestsEnd`, `OpsEnd`, `HandlersEnd`,
`ShutdownEnds`, `CommandsEnd`): the prover does not treat fairness and ENABLED. The
four properties of the runs that expect a violation do not hold; for two of
them, EveryVMManaged and ForwardsReach, a theorem says under which hypothesis
they do.

## 6. Assumptions about what is outside the code

- cloud-hypervisor does not bind a socket path that exists, accepts one
  configuration, pauses only a running and resumes only a paused guest, writes a
  snapshot only of a paused one, and answers an illegal request with an error.
- `ip tuntap add` fails if the device exists; `iptables -D` deletes by number
  and fails without effect; `-A` appends.
- gVisor's cleanup package runs clean-ups latest first and none after Release.
- net/http recovers a panic of a handler after its deferred calls ran. Several
  error paths dereference a nil response (1123, 1142, 1247, 1348); the state
  afterwards is that of the error return, which is what is modelled.
- Names have no dot in StartVM (with one, the lookup at 1319 could find a VM).
- The namespace of a request is what `GetVmNamespace` returns; the generated
  server API is not in the repository.
- A read and a write of a guest's file are one step each, and a pipe passes
  whole lines. os/exec copies the output of a blocking command until every
  process that has the pipe closed it; `cmd.Wait` closes the pipes of a
  background command.
- Deleting a bridge releases its ports, and its address and sysctl go with it;
  iptables rules stay.

## 7. Not modelled, and the plan

Not modelled, and why:

- the CLI client: one request per invocation, no state; what is wrong in it
  (resume sends the status `stopped`) is a single assignment;
- guest init, the vsock tools and the rootfs maker: straight sequences of
  commands without shared state; the server calls none of them;
- configuration, API definitions, routing and encoding: values and generated
  code;
- sizing (133-200): pure functions of the host's memory and CPUs;
- ListVM and ListAllVMs, which only read (the prefix in ListAllVMs is in the
  hazard at 1468), and the wait for the command server after a boot (1365),
  whose failure is logged;
- the rest of destroyVM and vm.destroy after the second lock (1186-1237,
  1424-1441), which cannot be reached;
- state directories and snapshots across restarts: NewServer does not look at
  them.

What is left:

1. The hazards without a property (PROJECT.json): a state directory removed
   under another StartVM (904), two snapshots with one id (1560), a pause or a
   resume whose answer is lost (1582, 1771), a VM that is found before it has an
   address (1727), `cmd.Wait` beside the
   scanners (`cmd/cmdserver/main.go:289`).
2. The safety half of the liveness properties, as theorems: which places a
   request can leave, and that each step takes it nearer to its end.
