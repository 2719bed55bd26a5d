# A verification of devplat-agent

`devplat-agent` runs on a host and boots Firecracker microVMs for a scheduler.
This directory holds TLA+ models of it, the TLC configurations that check them on
small instances, and TLAPS proofs of the properties that matter most. File and line
references are to the repository; `PROJECT.json` maps every definition to its lines.

## The system

| Part | Source | State it owns | Model |
|---|---|---|---|
| VM manager | `internal/vmmanager/manager.go` | `vms`, `slots` under one mutex; `meta.json` files | `VMManager` |
| Admission | `manager.go`, `hostinfo.go` | none | `Admission`, `HostReports` |
| Backend interface | `manager.go:40-48` | | `Backend`, `ManagerContract` |
| Firecracker backend | `firecracker.go`, `network.go`, `cgroup.go` | VMM processes, tap devices, iptables rules, cgroup leaves, `machines` | `FirecrackerBackend`, `ReadinessWait` |
| Network plan | `network.go:27-48` | none | `NetPlan` |
| Rootfs copy | `rootfs.go` | the VM's directory | `disk` of `VMManager` |
| Reaper | `internal/reaper`, `manager.go:323` | the ids it has collected | `VMManager`, `Config` (interval and default TTL) |
| HTTP API | `internal/api/server.go` | the draining flag | `VMManager` (DELETE), `AgentLifecycle` (POST, health), `ReadinessWait` (the deadline of POST) |
| Agent process | `cmd/agent/main.go` | shutdown sequence | `AgentLifecycle` |
| Heartbeat | `internal/heartbeat` | the report being built | `AgentLifecycle`, `HostReports` (cache counters) |
| Port proxy | `server.go:161-240`, `manager.go:278-295` | two connections, two goroutines | `PortProxy`, `Tunnel`, `AgentTunnels` |
| Registry metrics | `internal/regmetrics` | none | `HostReports` |
| Configuration | `internal/config` | none | `Config` |
| Guest image, deployment files | `image/`, `deploy/` | | not modelled |

`POST /vms` and `DELETE /vms/{id}` handlers and the reaper call the manager from
their own goroutines. The manager decides under its mutex which slot a VM gets and
whether it fits, and does everything slow without it: copying the root filesystem,
`Boot`, `Stop`, teardown. A slot determines a VM's tap device, addresses and port,
so two VMs on one slot would share a network. After a restart the manager knows
only what the `meta.json` files say, and the backend has no handles any more.
`GET /vms/{id}/proxy/{port}` asks the manager for a VM's guest address once and then
pipes bytes between its client and that address without the manager.

## Modules

**`Backend`** is the contract between manager and backend, at the level of what two
VMs can compete for: `tap[s]`, the VM whose Boot created slot `s`'s device; `vmm`,
each VM's process; `pid`, the PID it was recorded with; `machines`, the handles;
`bpc`, how far its Boot is. `Faults` selects which failures the environment may
inject, so each property names exactly the failures it depends on. A signalled
process ends some time later (`VmmExit`), an agent exit keeps processes and devices,
a host reboot keeps neither. `BackendSpec` binds both sides: Boot is called only on a slot
no other VM uses, a VM keeps its slot, Stop and teardown are for VMs whose Boot
succeeded and that were not given up (`bpc = "gone"`: Destroy is done with them, or a
restart did not find them), and each call has only the effects listed.

**`VMManager`** calls that contract. Every stretch of `Create` and `Destroy` between
two points where shared state is touched is one action: `CreateAdmit` (everything
under the first lock), `PrepareRootfs`, `Boot` (one `Backend` step at a time),
`Persist`, `Register`, and the two error paths; `Lookup`, `DestroyStop`,
`DestroyTeardown`, `DestroyRmDir`, `DestroyUnmap`. The reaper takes a snapshot
(`ReapExpired`) and then destroys one id at a time (`ReapNext`). `Down` cuts every
call off at any point; `reconcile` is the restart. VM ids are numbers in the order
`newVMID` issues them. `cpc = "lost"` marks a VM whose Create an agent exit cut off.
Two constants restrict the environment: at most `MaxCreates` Creates hold a reservation
at once, and unless `Overlap` has `"destroy"` a VM is destroyed by one caller at a time.
The code enforces neither; the restrictions show which properties need which. As every
Create holds a slot and there are `CPUTotal` of them, `MaxCreates = CPUTotal` restricts
nothing as long as slots are exclusive. **`ManagerContract`** maps
its state to the contract's: a booted VM is given up once it holds no slot and, with the
agent down, has no `meta.json`. `KeepsContract` says that `VMManager` implements `BackendSpec`.

**`FirecrackerBackend`** is `Boot`, `Stop` and the teardown of `Destroy` in detail:
the tap device, each iptables rule as a count of its copies, the bandwidth cap, the
files, the VMM, the cgroup leaf, the readiness wait, and every error path in its
order. It `INSTANCE`s `Backend` with `bpc` defined from its own program counter;
`ImplementsBackend` is the refinement. The manager around it is reduced to what
`KeepsContract` shows of `VMManager`: Boot is called on a slot nobody else uses, Destroy
on VMs whose Boot succeeded. Destroy runs in the order of `Manager.Destroy` up to `Unmap`,
once at a time per VM. A restart finds any part of the booted VMs and leaves the others as
orphans, with whatever process and device they had.

**`PortProxy`** is `handleProxyPort` for one request: the answers before the upgrade,
the hijack, the 101, the two `io.Copy` goroutines a byte at a time, the done channel and
the deferred closes. `buf` is what the HTTP server had read along with the request.
Client and guest are the environment: they send, read, half-close or vanish whenever
they like, and a `Write` blocks while its receiver's window is full. **`Tunnel`** is what
all this amounts to for the rest of the agent, one lookup, one dial, one connection;
`ImplementsTunnel` is the refinement. **`AgentTunnels`** runs a tunnel beside
`VMManager`: the dial happens any time after the lookup, and is answered by the guest
whose tap is on the slot by then. Tunnels share nothing, so one is enough.

**`Admission`**, **`NetPlan`**, **`Config`** and **`HostReports`** are pure: the budget
test in two's-complement integers of a width that is a constant, with whatever the host
reserves; `deriveNetConfig` modulo the size of the address space; `config.Load` with
`envOr` and `intEnv`, and the durations, ports and budgets computed from it, in the same
integers; what is made of `/proc/meminfo` and of the registry cache's
answers. **`ReadinessWait`** is `waitForDockerReady` against a clock in tenths of a second:
0.5 s dials, 0.2 s pauses, its own 30 s and the request's 90 s. `MCPlans` enumerates the
inputs of all five.

**`AgentLifecycle`** is the process: SIGTERM, the two draining flags `main` sets one
after the other, the listener, requests in progress, health polls and the heartbeat.

`MCVMManager`, `MCAgent`, `MCFirecrackerBackend` and `MCPlans` give the constants small
values. The theorems are in `VMManagerProofs` (types, slots, Stop), `NetworkProofs`
(networks, and the tunnels of `AgentTunnels`), which extends it, `VMManagerResourceProofs`
(what is left behind, the contract), which extends that, and `BudgetProofs` (the files, the
number of VMs and their sizes), which extends `VMManagerProofs`; in `FirecrackerBackendProofs`
(types, refinement) and `FirecrackerHostProofs` (devices, rules and processes), which
extends it; in `PortProxyProofs`; and in `AgentProofs` (the lifecycle, and all that
`MCPlans` states).

Definitions that no other definition uses and that stand just before one with a
similar name (`persistNothing` before `persist`, `StopAll` before `StopPid`) are
faulty variants of it. `PROJECT.json` lists under `mutants` which property each one
breaks when it takes the place of the real definition.

## Runs

The runs that must pass finish in little more than two minutes or less on two to four cores. TLC
does not check for deadlock where the number of VMs, of starts or of bytes is bounded, as
those systems really come to rest.

| Run | Instance | Shows |
|---|---|---|
| `manager_safety` | 3 VMs, 2 slots, overlapping Creates, a deleter and the reaper, 1 crash or reboot, Stop may fail; 1.1M states | slots exclusive and bounded, every running VM on its own tap, free slots clean, disk and memory agree, acknowledged VMs remembered, Stop hits only its VM, the backend is called as its contract allows |
| `agent` | 2 VMs of uneven sizes, 2 slots, one Create at a time, a deleter and the reaper, failing Stop, early returns of Boot, PIDs given out again, 1 crash or reboot, a tunnel used again and again; 0.26M states | with one Create at a time what is held fits the budget in CPUs and in RAM; a tunnel reaches the VM it names; overdue VMs end and reservations settle, under all those faults together |
| `backend_steps` | 2 VMs, 2 slots, 2 rules, 2 restarts, orphans, failing iptables, early returns, failing Stop; 0.8M states | rules never outlive the device, none is doubled, ready means reachable, returns are clean, the contract is kept |
| `proxy` | 2 bytes each way besides the 101, a window of 2, both peers free to stall, half-close and vanish | streams intact, the finisher's bytes all forwarded, connections closed, goroutines end, a lost peer ends the pipe, the Tunnel contract is kept |
| `plans` | 8 blocks of addresses, every base; 21-bit integers at their edges; environments that set two variables; waits with early, late and last-round guests | plans disjoint, links private, admission wrong by overflow only, a configuration usable exactly if in range, undetected memory safe, cache figures real, the wait bounded, successful in time, and not cut short |
| `lifecycle` | 2 creates, 2 starts | creates refused once draining was reported; shutdown ends |

Six runs end in a counterexample. Each checks one statement of the repository's own
comments and docs that the code does not keep (`findings` in `PROJECT.json`):

| Run | Statement | What happens |
|---|---|---|
| `budget_overcommit` | `README.md:51-53`: admitted only if the sum of what runs and the request fits | a booting VM is not in `vms` yet, so an overlapping Create is admitted against the same usage |
| `destroy_overlap` | `manager.go:194`: a reserved slot cannot be picked by another Create | a DELETE and the reaper destroy one VM; the slower one's `delete(m.slots, vm.Slot)` frees the slot of a VM created in between |
| `restart_forgets` | `manager.go:72`: a restart does not forget running VMs | `meta.json` is written after the readiness wait; an exit before that loses a running VM |
| `pid_recycled` | `manager.go:44`: Stop is safe after a restart | the PID from `meta.json` belongs to another process by then |
| `tunnel_strays` | `README.md:42-44`: a caller can pick a port but never another VM | the address is looked up once and dialled later; the VM is destroyed in between and the guest of the next VM on its slot answers |
| `draining_unseen` | `server.go:28-30`: draining is reported so the scheduler stops assigning | the listener closes right after the flag is set, and heartbeats end with the signal |

Three more disagreements have no run of their own. `config.go:57-61` and `.env.example`
say that an empty `REGISTRY_METRICS_URL` disables the scrape, but `envOr` turns empty into
the default URL, so that the branch of `Scrape` for an empty URL is never taken.
`README.md:51-53` says a VM is admitted only if it fits, but the sums are plain int64
additions: a request so large that the sum wraps around is admitted.
`AdmissionErrsByOverflowOnly` says that this is the one error of the test, and describes
it exactly. And `server.go:177-178` says tunnels must keep working while the host drains,
but draining is set only by a shutdown, which does not wait for hijacked connections:
they are cut when the process exits.

**Bounds.** Three VMs on two slots are the least with a VM waiting for a slot that two
others contend for, and with a VM created on a slot that a slower call still works
on. One crash separates what was in memory from what is on disk; a second would cut
off a Destroy repeated after the first, which `backend_steps` does with two restarts
and the proofs do for any number. Two rules are the least with a partly written or
partly deleted rule set. Two VMs are enough for a tunnel: one it names and one that
takes over the slot; with the uneven sizes of `agent` either of CPUs and RAM can be what
keeps the second out. The runs that pass do not let a directory fail to be removed, a
`meta.json` fail to be written or a PID stay unknown: the first lets a restart bring back
a destroyed VM, and with the others the reaper has nothing on disk, or no process it
knows, to end after a restart. The theorems say which of these each safety property can
do without. Two bytes each way make reordering visible, and with the 101 they overfill the window of two, so that writes block. In `plans` the
address space is small enough for every base to wrap around, and integers are taken near
zero and near their largest value. `MaxCrashes`, `MaxRestarts`, `MaxStarts`, `MaxBytes`
and the finite set of VM ids are the only bounds on otherwise unbounded behaviour.

**Fairness** (`VMManager!Fairness`). Steps of a call in progress are taken: goroutines
are scheduled, and host commands return; the readiness wait has a deadline. The
ticker calls `ReapExpired` again and again. A signalled VMM ends. `reconcile` is
fair: systemd restarts a failed agent (`Restart=on-failure`) and starts it at boot; an
agent stopped cleanly is started again by whoever stopped it. Nothing is assumed of
clients, and a VMM that nobody signals may run forever. Stop may fail any number of
times, but one that is tried again and again on a VM succeeds in the end (strong
fairness): the reaper comes back to a VM it could not stop at every tick, and this is the
retry `ReaperBackstop` rests on. A Stop that fails forever keeps its VM forever in the
code too. In `AgentLifecycle`, `main`, Shutdown's ten-second deadline,
the scheduler's polls and the heartbeat's ticker are fair; creates are not, as the
rootfs copy and the dials ignore the request's context. In `PortProxy` the handler and
the two copies are fair, being goroutines whose only long call, the dial, has a timeout;
client and guest are not, so a peer may stay silent, or leave its window full, forever.

## Proofs

The theorems hold for any number of VMs, slots, clients and crashes, any sizes and any
integer width, from the named assumptions on the constants only.

| Theorem | States | Assumes of the environment |
|---|---|---|
| `TypeCorrect` (manager) | `TypeOK` | nothing |
| `SlotSafety` | `SlotsExclusive` | `SerialDestroys`: one Destroy per VM at a time, directories can be removed |
| `MetadataSafety` | `DiskTracksMemory` | directories can be removed; Destroys may overlap |
| `CountSafety` | `CountBounded` | `SerialDestroys` |
| `OvercommitSafety` | `OvercommitBounded`: what is held is at most `MaxCreates` times the budget | directories can be removed, `SaneSizes`: `MaxCreates` budgets plus a requested size stay within int64; Creates and Destroys may overlap |
| `ManagerKeepsContract` | `KeepsContract` | `SerialDestroys` |
| `Composition` | `AgentSpec => Spec /\ T!TunnelSpec` | nothing |
| `TunnelSafety` | `TunnelReachesItsVM` | `SerialDestroys` |
| `NetworkSafety` | `OwnNetwork` | `PidsKnown`: also, every PID is known |
| `NothingLeftBehind`, `AckSafety` | `FreeSlotsClean`, `AckedRemembered` | `NothingLost`: also, Boot's early returns do not happen and `meta.json` can be written |
| `StopSafety` | `StopHitsOwnVM` | no PID is reused |
| `TypeCorrect` (backend) | `TypeOK` | nothing |
| `Refinement` | `ImplementsBackend` | nothing |
| `RulesSafety`, `RulesOnce` | `RulesImplyTap`, `NoDuplicateRules` | nothing: slots on which iptables failed are exempt in the properties |
| `BootSafety`, `CleanReturns` | `ReadyIsReachable`, `ReturnsClean` | every PID is known |
| `ProxyIsATunnel`, `ClosesAll` | `ImplementsTunnel`, `ReturnsClosed` | nothing |
| `StreamSafety`, `FinisherSafety` | `StreamsIntact`, `FinisherForwarded` | nothing |
| `RefusalFollowsReport` | `RefusedOnceReported` | nothing |
| `AdmissionErrs`, `ConfigUsable` | `AdmissionErrsByOverflowOnly`, `ConfigIsUsable` | nothing; for every host, reservation, usage and request that is an int64, and every environment |
| `SlotsAlwaysDisjoint`, `LinksAlwaysPrivate`, `UndetectedRamAlwaysSafe`, `CacheFiguresAlwaysReal` | the properties of `plans` so named | nothing; for every size of address space, integer width and unit |
| `WaitAlwaysBounded`, `UpInTimeAlwaysReady`, `OwnTimeoutAlwaysFirst` | `WaitIsBounded`, `UpInTimeIsReady`, `OwnTimeoutFirst` | nothing; for every start, guest and hangup |

`SlotsExclusive` is not inductive. Destroy deletes by slot number, so its target must
still be registered and have one destroyer (`DestroyTargets`, `DestroysDistinct`), and
`reconcile` trusts the disk, so two `meta.json` files must never name one slot
(`DiskExclusive`), which in turn needs the directory to be gone before the maps are
updated (`RemovedFirst`). `SlotInv` is that conjunction.
`CountSafety` follows from it: mapping holders to slots is an injection. `MetadataSafety`
does without the slots: `DiskInv` is only that files go before the maps are updated and
that a restart reads what is there. `OvercommitSafety` cannot bound the sum directly, as a
Create is tested against the registered VMs and not against the other Creates under way.
Its invariant (`BudgetInv`) is that the VMs held, or on disk while the agent is down,
since a restart admits those without a test (`Budgeted`), can be divided into `MaxCreates`
lanes, each within the budget. A VM that is admitted finds a lane without a pending
Create, as fewer than `MaxCreates` are pending (`FreeLane`); that lane holds registered
VMs only, which together with the new one passed the test. Sizes are positive, so a VM
leaving makes room. For one lane this is the budget itself, which is what `README.md:51-53`
promises and what serial Creates keep. The library's sum over a set is a recursive function chosen by
`CHOOSE`; `BudgetProofs` first shows that it exists and adds up (`SumExists`, `SumRemove`),
by an induction that takes a minimal element of a set of subsets (`SubsetInduction`).
`NetInv` adds who may delete a device: a VM in Boot owns its tap (`BootOwnsTap`), and a
Destroy has stopped the VMM before it tears down (`StoppedFirst`), which after a restart
needs the PID (`RunningHasPid`). `CleanInv` adds that every device has an owner the
manager knows of (`TapHasOwner`) and that what runs is on disk (`OnDisk`). Each step
lemma has one case per action. Two violation runs show that assumptions are needed:
`destroy_overlap` breaks `SlotsExclusive` when Destroys overlap, and `pid_recycled`
breaks `StopHitsOwnVM` when PIDs are reused. `budget_overcommit` shows that with two
Creates at once one budget is not enough.

`ManagerKeepsContract` is a refinement, with `Stage` of `ManagerContract` as the mapping.
Its invariant is `SlotInv` with `CallPhases`: which calls of Boot are open or succeeded,
from where Create is and from what is registered or on disk. An action of the manager is
then a step of one VM's contract or none, except that an agent exit or reboot is the
contract's, with the VMs that have no `meta.json` forgotten. `Refinement` below is the
same contract from the other side. The two meet in `BackendSpec`; a single specification
of `VMManager` over the steps of `FirecrackerBackend` is not written out.

`TunnelSafety` needs the tap to belong to the slot's registered VM or to nobody
(`LinkIsOwn`, with `BootHasTap` for a VM that is still booting: a Boot that finds a device
already there fails), that a VM's slot never changes (`SlotForLife`), and so that what a
tunnel looked up is still the slot of the VM it names (`LookupKept`). `Composition` makes
every theorem about `Spec` one about `AgentSpec`.

In `FirecrackerBackendProofs`, `StepInv` is the types and at which places of Boot a
process exists; with it every step maps to a `Backend` step or to none. In
`FirecrackerHostProofs`, `HostInv` adds that a slot has one user (`Exclusive`), at which
places the device is there (`Taps`), and which rules are not there yet or no more
(`RulesGone`). `RunInv` adds which rules are there and where no process can be running
any more, and is where the PID is needed: a Destroy without handle and PID goes on to
the teardown of a running VM.

In `PortProxyProofs`, `ProxyInv` ties the open connections to the place in the handler.
`StreamInv` says that the bytes 1, 2, ... a side has sent are, in this order, those
written to the other side, the one `io.Copy` holds, those in the server's buffer and those
that have arrived; it holds until the copy ends, when its first part alone remains.

`AgentProofs` proves the statements of `MCPlans` for every value of its constants (the
lemmas under them, such as `UndetectedIsZero`, for every input), and the wait's from an
invariant that bounds `now` at each place of the loop.

Only model-checked: the liveness properties `ReaperBackstop`, `ReservationSettles`,
`GoroutinesEnd`, `GoneSideEndsPipe` and `ShutdownEnds`, as the prover has no support for
fairness.

## Not modelled

What the firewall rules match, the limits written into a cgroup, the machine
configuration, authentication, JSON, `GET /vms` and the usage figures of `GET /health`
and the heartbeat, which are copies of the manager's maps and sums: data without control.
In `FirecrackerBackend` both outcomes of the readiness wait are always possible, which
covers every timing; `ReadinessWait` has the clock. A tap device that exists but cannot be
deleted. A CPU count that changes between two starts. The manager and the shutdown
sequence are not composed: `Down` can cut the manager off at any point, which includes
every point at which a shutdown can. The optional strings of the configuration, which are
only passed on, the metrics URL excepted. The shell scripts of the guest image, which call external tools one after
the other and share no state with the agent, the compose file and the unit file. Cgroup
leaves are in the model, and some are left behind, but no property is stated of them: the
code removes them on a best-effort basis and their names are never used again.
