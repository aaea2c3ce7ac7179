# A TLA+ model of ts-bridge

ts-bridge forwards local TCP (or SOCKS5) connections into a tailnet through an
embedded Tailscale node (`connect`), publishes services of a machine on one
(`host serve`), prepares that machine for it (`host setup`, `host check`), and
keeps profiles, configuration files and auth keys on disk. This directory models
the parts of it whose correctness depends on interleavings, failures and timeouts, checks them with TLC on small instances, and proves their
safety properties for every instance with TLAPS. `PROJECT.json` lists, for every
definition, the source lines it models.

## 1. Inventory

### The parts, their state and how they interact

| Part | Source | State | Operations | Talks to |
|---|---|---|---|---|
| Accept loops and connection cap | `internal/proxy/proxy.go`, `socks5.go`, `internal/telemetry/metrics.go` | listener, `ActiveConnections` counter, `sync.WaitGroup`, one goroutine per connection | accept, claim (load + CAS), reject, spawn, handle, release | reconnecting dialer, relay, the run's `context` |
| Reconnecting dialer | `internal/proxy/reconnect.go` | attempt number, deadline | dial, classify the error, back off, give up | accept loop's handler; a permanent error cancels the run |
| Relay | `proxyConnections`, `copyDirection`, `idleConn` | two sockets, two copy goroutines, read deadlines | read, write, half-close, idle close, final close | the handler waits for it |
| connect run lifecycle | `cmd/cli/run.go`, `signal.go` | context cause, exit status, state directory | start bootstrap, start node, listen, announce, serve, drain, close, clean up | everything above, health, bootstrap |
| Health | `internal/health/health.go` | ready flag, reason (two atomics) | Store, MarkReady, Load | run, handleShutdown, HTTP probe |
| SSH bootstrap | `internal/bootstrapssh` | ssh child, its output, control proxy | start, wait until ready, exit, close | run, `monitorBootstrap` |
| Profile store | `internal/profile` | `profiles.yaml`, `locks/store.lock`, per-profile lock | import, configure, bind, unbind | credential store, every command |
| Credential store | `internal/credential`, `internal/secretfile` | one file per key | Set, Get, Remove by atomic replace | profile store transactions |
| host serve | `cmd/cli/host_serve.go`, `internal/serve` | node, listeners, bootstrap supervisor, control session watch, per-source readiness | start, publish, restart bootstrap, report, close | accept loops, SSH bootstrap, health |
| Configuration | `internal/config`, `cmd/cli/init.go`, `connect.go` | `ts-bridge.yaml` and the `.env` beside it | init writes both; connect merges flags over `.env` over explicit variables over YAML over profile over defaults, derives the rest, validates | every command |
| Host convergence | `internal/host`, `cmd/cli/host.go` | the machine: xrdp or RDP, packet filter, services, power | setup reads and applies a list of steps, check only reads | systemd, ufw, iptables, PowerShell, `sc`, `powercfg`, Tailscale's CLI |
| Browser, discovery, status, logging, descriptor | see `PROJECT.json` | little | - | - |

### What is hard about it

* **Shared counters without locks.** Several accept loops claim slots on one
  atomic counter; a burst must not pass the cap and no error path may lose a
  slot.
* **Who closes what, when.** The wait group, the drain timeout, the node's close
  and the process's exit race with handlers that may never end.
* **One context, several causes.** A signal, a terminal dial error and the death
  of the ssh child can cancel a run in any order and at any point of startup;
  the exit status and the READY/ERROR lines must agree with the first.
* **Two copies, four ways to end.** A relay's directions end by EOF, reset, idle
  deadline or error, and each end changes what the other may still do.
* **Two files, one invariant.** A profile's reference and the key it names live in
  different files; commands of different processes, failing writes and kills
  come between the two writes.
* **A supervised child.** `host serve` restarts its ssh while it starts, serves or
  shuts down; the port it needs can be taken by anybody, and three goroutines
  report into one readiness flag.
* **A machine that answers back.** `host setup` is a list of commands any of which
  can fail or be the last before a kill. What it may do to a packet filter
  depends on the order, scope and author of rules other programs wrote, and
  `host check` predicts it with code of its own.
* **Five layers and two files.** `init` writes a file and a second one that outranks
  it; whether `connect` sends a key to the right control plane is decided by a
  check that has to foresee what the merge of five layers will yield.
* **Reads outside the lock.** `connect`, `init --profile` and `auth set` read the
  store before they lock it, or never lock it.

The `hazards` of `PROJECT.json` list these by source line, each with the
properties that cover it.

## 2. Modules

| Module | Models | Uses |
|---|---|---|
| `SlotPool` | what the connection cap promises: an abstract pool of slots | |
| `AcceptLoop` | both accept loops, the cap, handlers, dialer, shutdown and drain | implements `SlotPool` |
| `MCAcceptLoop` | symmetry for TLC | extends `AcceptLoop` |
| `AcceptLoopProofs` | the cap and its counters, proved | extends `AcceptLoop` |
| `AcceptOwnerProofs` | socket ownership, the drain and the refinement of `SlotPool`, proved | extends `AcceptLoopProofs` |
| `Relay` | one connection's two copy directions | |
| `RelayProofs`, `BridgeRunProofs`, `ProfileStoreProofs`, `HostServeProofs`, `HostSetupProofs`, `ConfigFilesProofs` | theorems about the module of that name, and their proofs | each extends its module |
| `BridgeRun` | one `connect` run from `run()` to its exit status | |
| `SSHBootstrap` | the ssh child: port probe, start, readiness poll, wait, close | |
| `HostServe` | `host serve`: main goroutine, Supervisor, session watch, Health | extends `SSHBootstrap` |
| `ProfileStore` | the two stores, the lock and the commands that use them | |
| `MCProfileStore` | keys and their issuers, symmetry | extends `ProfileStore` |
| `IptablesRules` | firewall rules: how the code reads them and how the kernel applies them | |
| `SetupRun` | the frame of `host setup`: runs, steps, outcomes, faults | |
| `LinuxSetup`, `WindowsSetup` | the steps and checks of each platform | extend `SetupRun`; Linux also `IptablesRules` |
| `HostSetup` | `host setup` again and again on one host; `host check` as a function of the state | extends both |
| `MCHostSetup` | the hosts TLC starts from | extends `HostSetup` |
| `Backoff` | `computeBackoff` on integers of `Width` bits | |
| `ConfigMerge` | `config.Merge` as operators on layers | |
| `ConfigFiles` | `init`, `connect` and a person on the two files | extends `ConfigMerge`, `Backoff` |
| `MCConfigFiles` | the layers, inits and edits TLC tries | extends `ConfigFiles` |

Definitions called "Faulty variant" are plausible slips in the Go code. The
specifications do not use them: each one, put in the place of the definition it
is a variant of (`mutants` in `PROJECT.json`), breaks the property that watches
for it.

### AcceptLoop

`lpc[l]` is the program counter of loop `l`, `lconn[l]` the connection it has
accepted and not handed over, `cur[l]` the value its `TryClaimConnection`
loaded. `stage[c]` is how far connection `c` got: `queued` in the kernel,
`accepted`, `claimed` (it owns a slot), then the stages of its goroutine, then
`release` and `wgdone`, the two deferred calls in the order Go runs them.
`active` and `wg` are the counters. The compare-and-swap is two actions
(`ClaimLoad`, `ClaimSwap`/`ClaimLost`), because other goroutines run in
between. `AcceptError` differs between the loops as it does in the code: one
sleeps and goes on, the SOCKS5 one returns. The SOCKS5 messages are a handshake
that succeeds or fails; a connection's bytes are left to `Relay`. `main` is the
goroutine that waits for the loops, drains and closes the node. `host serve` is
the instance with several loops, a nil `cancel` and no drain.

### Relay

Direction `e` reads end `e` and writes the other end. `dir[e]` says whether it is
in `Read`, in `Write` or over, `ended[e]` why. Bytes are units of one buffer; an
end accepts `Window` units before its peer must read. What a peer sends has no
bound: `due[e]` counts only the units on their way, so a peer may send for ever. `cfg` says whether there is
an idle timeout and whether the sockets have `CloseWrite`; it is chosen in `Init`,
so one run covers every combination. `FinishGraceful` is a half-close (or a close
where `CloseWrite` does not exist), `CloseBoth` what an idle timeout or an
unexpected error does.

### BridgeRun

`mpc` walks the main goroutine through `run`, `withBootstrapLifecycle`,
`runBridge` and their deferred calls. `cause` is `context.Cause` (the first
cancel wins), `shut` the `handleShutdown` goroutine, `mon` `monitorBootstrap`,
`ready`/`reason` the two atomics of `TunnelStatus`, `out` the READY and ERROR lines
in order. `cfg` holds the options (bootstrap, SOCKS5, callback, drain timeout,
ephemeral state directory), chosen in `Init`. A signal's cause is either
`context.Canceled`, which is what the code's `errors.Is` test looks for, or the
cause of its own that `signal.NotifyContext` gives in newer releases of Go; no
property depends on which. `handleShutdown` closes the listener and then the health
server, which is what ends its probes.

### SSHBootstrap and HostServe

`spc` is where a call of `start` is: the probe of the port, the exec, the poll
(`dial`, `check`, `wait`), the close after a failure, and the result the caller
finds (`failed`, `ready`). `child` is the process (`exited` until `cmd.Wait`
returned, then `reaped`, which is the closed `tunnel.done`), `port` who listens on
the SOCKS address, `kill` and `cancelled` the two contexts. The ready timeout is
not a clock: `GiveUp` may come at any time. The caller is not part of the module.

`HostServe` is that caller. `mpc` walks the main goroutine through `runHostServe`,
`startServeBootstrap`, `runServeNode` and the deferred calls in their order; `sup`
is the Supervisor's goroutine, which makes its own calls of `start`; `wpc` and
`bus` are `WatchControlSession` and the states on their way to it. A call of
`Health.Up` or `Health.Down` is two steps of the goroutine that makes it (take
the mutex and change the map; store the flag and the reason), so the reports of
the three goroutines interleave as they can in the program. `Init` chooses
whether there is a bootstrap. `Published`'s connections are `AcceptLoop`'s subject.

### ProfileStore

`profiles` and `keys` are the two stores, `lock` is `locks/store.lock`, `proc[x]`
what process `x` is doing and remembers. Every command is its sequence of reads
and writes: each may fail, and `Crash` may come between any two. A key carries
the control plane that issued it, so "the right key" is a statement about
state. A write can fail before its rename or in the second `Harden` after it; `late`
records that the save of an `auth set` failed the second way, for the properties only.
`init --profile` reads its profile before the lock (`seen`) and writes it, with the
control URL it was given or else the one it read (`ControlURL`), under it.

### IptablesRules, SetupRun, LinuxSetup, WindowsSetup, HostSetup

A rule is not its text but what the code's walk tells apart about it: its target,
whether it matches the port (and whether the walk can tell), its scope, and
whether it is setup's own legacy rule. On that, `readIptables`, `readUFW`,
`iptablesDecide` and the others are the code's decisions, and `Verdict` is the
kernel's: the first rule that applies to a packet. The two are written
separately, and the properties of the firewall compare them: `Admitted` is always
the kernel's view.

`pc` is the step that runs or a point inside it. A step reads, then acts with one
command per action, so a failure (`Breaks`) or `Killed` can come between any two
commands; `outcome` collects what `newStep` reported and `exit` is
`setupConvergence`. A command may fail before or after its effect where it has
several (`EnableFails`, `RestartFails`, `RuleFails`). `FirewallPlan` is the
decision of `firewallSetupStep` and the steps it delegates to. `checkFor` is a
value, not an action, because `host check` runs no command that changes anything.
`foreseen` keeps that value from the start of a run as long as nothing fails in it: it
is history, and lets a property compare the check with what the run then reported.
`listens` is where xrdp listens, which is what `xrdp.ini` said when it was last
started. On Windows a script may fail in part and exit 0 (`RDPSilent`, and alternatives
of `NetworkProfile` and `RuleFails`); `silent` remembers it for the properties.

### ConfigMerge, ConfigFiles, Backoff

A layer is a function whose domain is the fields it sets. Addresses, keys and
control URLs are abstracted to what the checks look at (an address is a host and
a port, a key has a kind, a control URL may be blank or invalid). `Merge` returns
the configuration together with the set of checks that fail, where the code
returns at the first: whether a configuration is accepted is the same.

The environment a connect reads is `.env` over the explicit variables, which is what
`envfile.Load` makes of it; the properties rank the two as layers of their own. Shift and
sum of `computeBackoff` wrap at `Width` bits, as an int64 does.

`disk` is the two files. `init` is a running `ts-bridge init`, which reads the
`.env`, waits for a confirmation, reads it again and writes one or two files; it can stop
between any two of these (`InitStops`). `conn` is a running `connect`, which loads
`.env` and later the YAML. `given` remembers what the last completed init was
given, so that a later `connect` can be held to it; it is history, no action
reads it. A person may replace both files at any time (`Edit`).

## 3. Runs

Passing runs:

| Run | Instance | Shows |
|---|---|---|
| `accept_serve` | 3 connections, 2 loops, cap 2 | the cap holds at every interleaving of the CAS, the gauge is exact, no socket loses its owner, and the loops implement `SlotPool` |
| `accept_connect` | SOCKS5, 2 connections, 1 loop, cap 1, 2 retries, drain | "drained" means idle, nothing is added during the drain; no slot is stuck before its relay, a cancelled run ends |
| `relay` | window 2, unbounded traffic, with and without idle timeout and `CloseWrite` | EOF is complete, half-close keeps the other direction, one peer's FIN or reset ends the relay if the other finishes when told, and an idle timeout ends it once a peer falls silent, whatever the other one sends |
| `bridge_run` | every combination of the options | READY first and only, exit status, everything closed and in that order cleaned up; cancelled runs and runs that lost their bootstrap end, although the listener need not fail |
| `host_serve` | with and without bootstrap, 2 services, delay cap 2, bus of 1 | readiness is the fold of the reports, an outage among them shown before a restart begins, one ssh at a time, everything released on every way out; the process ends, a lost session shows, a recovery shows |
| `store_mutations` | 2 processes, 2 profiles, 2 credentials, 2 planes, 3 keys | with writes that fail before and after their rename: no command but a rollback takes a profile off the plane of its key; a save changes what its command was asked to, except for init's stale write-back; complete removal, exact rollback, no secret left behind |
| `host_setup` | 2 runs, 2 faults; INPUT chains of up to 3 rules out of 13, ufw lists of up to 2 out of 4; every xrdp state; every Windows group of steps | a setup in which nothing fails reports what the check before it said; a host reported converged is as declared, but for what a script silently did not do, and is left alone by the next run; iptables is opened to the tailnet only and ufw only where the tailnet was shut out; the tailnet is not shut out, and nobody else's rule is touched |
| `config_files` | 2 inits, 1 edit, 18 init inputs, 8 edited disks, 128 starts of `connect` | the `connect` that init announces is not refused for its key, target or control plane and runs with those; it is refused for its mode exactly when the `.env` kept a SOCKS5 address; a key stays with its control plane, higher layers decide, no wait is past one and a half times the ceiling or, where that fits a Duration, negative |

Runs that end in a counterexample, each a place where the code and a statement
about it differ (`findings` in `PROJECT.json` quotes both):

| Run | What TLC finds |
|---|---|
| `store_late_harden` | a save that fails after its rename: `auth set` rolls the key back under a reference that was written |
| `store_connect_race` | `connect` reads the profile, then the key: a forced import and an `auth set` in between give it one plane's URL and the other's key |
| `host_legacy_closes` | INPUT holds setup's legacy rule and then a deny: the scoped rule is appended behind the deny, and deleting the legacy copy closes the port to the tailnet, while the step reports `changed` |
| `host_xrdp_listens` | `xrdp.ini` is written and the restart fails, or the run is killed before it: the next run says "xrdp listens on TCP" the declared port while it listens on the old one |

Some passing properties state what the code does where a comment or a document says
otherwise, so that the exact extent of the difference is checked, and proved. They are
findings too:

| Property | The code | The statement |
|---|---|---|
| `OpensWhatIsClosed` | `ufw allow <port>/tcp` opens every interface | ADR-017 Amendment B and `linux_steps.go:654`: only `tailscale0` |
| `ConvergedMeansDeclared` | a PowerShell script whose write failed exits 0 and is reported changed | `step.go:17`: "the system was changed to match" |
| `NoLostUpdate` | `init --profile` writes back what it read before the lock | SEC-391 AC1: "concurrent writers lose no update" |
| `InitIsHonoured` | beside a preserved `TS_SOCKS5_ADDR` init writes files `connect` refuses | `init.go:543-546` |
| `LayersDecide` | `.env` overrides explicit variables | `connect.go:123-125`, `envfile.go:80-82` |
| `BackoffBounded` | `d + jitter` wraps to a negative wait for an accepted ceiling | `reconnect.go:77-81` |

### Why the bounds are enough

Three connections are one more than the cap of two: two loops can race for the
last slot while a third connection is refused, and a release can come between a
load and its swap. `accept_connect` needs no such race and has one connection more
than its cap of one, so a slot that leaks starves the other. Two retries make a
first, a middle and a last attempt different. In `Relay`, a window of two lets a direction be blocked
in `Write` with more to read, and a peer read a part of what it was sent. In `ProfileStore` two processes are enough for
every pairwise race (the lock admits one mutation at a time; a third process
only adds readers), two profiles for a shared credential, two planes and a
second key of one plane to tell "the same plane's other key" from "another
plane's key". In `HostServe` two services make a publish that fails half way
different from one that fails at once, a delay cap of 2 lets the doubling reach
it, and one state on the bus, with the one the watch holds, lets a state be
overtaken by the session's next change.

In `HostSetup` three rules are what a mistake about order needs: one that
admits, one that denies, and one that jumps, in any order; two faults let a run
fail, the next one be killed, or one run fail twice. Linux hosts deviate from a
plain one in their xrdp or in their firewall and Windows hosts in one group of steps,
because the groups share no state. In `ConfigFiles` two inits let one be
stopped half way over the files of the other, and one edit puts any of eight
disks there before, between or after. `WithInit` bounds the product: the starts
outside it are tried on edited disks only, the ones inside it beside inits too.
A second is one unit and a duration has 8 bits with a shift of at most 4, so the shift
overflows to negative and to wrapped positive values as it does at 64 bits and 30; a
ceiling of 90 seconds (of at most 127) is past the two thirds from which the sum
overflows.

`MaxCleanups` is the code's 5 (`cleanupMaxAttempts`). Symmetry is used for connections, loops,
processes, profiles, credentials and the two interchangeable keys, and in no run with
a liveness property.

### Fairness

* Goroutines that can take a step take one (weak fairness of the loop's own
  steps, of a handler's deferred calls, of `handleShutdown`, of
  `monitorBootstrap`, of the main goroutine). The Go scheduler is preemptive.
* A timer that was set fires: the dial and the handshake deadline, the accept
  back-off, the drain timeout, the read deadline of `idleConn`, the ready timeout
  of the SSH bootstrap (strong fairness of `GiveUp`: a start that polls for ever
  is cut off).
* A ready case of a `select` is not neglected for ever, and a `sync.Mutex` starves
  nobody (strong fairness of `SupSleepCancelled` and of the watch's Health calls).
* A child that was killed dies, and `cmd.Wait` returns.
* The peers of a relay read what they were sent (`PeersRead`), which is a
  statement about them and not about the code: a peer that stops reading can hold a
  relay in `Write` for ever (section 5). What else they do is a hypothesis of the
  property that needs it: `FinishesWhenTold`, `FallsSilent`.
* Nothing else is fair. A dial, a handshake and a relay may hang; clients need
  not connect; nobody need send a signal; an accept need not fail (`MainGoes`
  is every step of the main goroutine but `LoopFails`).

Deadlock is checked in every run. A finished process or relay stutters
explicitly (`Exited`, `Returned`). `host_setup` is the exception: it has nothing
to do after its last run.

## 4. Proofs

Every invariant and every action property that a passing run checks is a theorem. The theorems hold for every
value of the constants that satisfies the assumptions named; TLC evaluates those
assumptions in the runs. No theorem rests on an unproved step. Each inductive
invariant is a conjunction of named parts, and the proof that a step keeps it has
one lemma per group of actions.

### AcceptLoop: `AcceptLoopProofs`, `AcceptOwnerProofs`

For every finite set of connections, every set of loops, every cap and retry limit:
`TypeCorrect`, `CapNeverExceeded` (`CapHolds`), `CountersExact` (`GaugeIsExact`,
`WaitGroupIsExact`), `SocketsHaveOneOwner` (`OpenSocketHasOwner`),
`GracefulDrainIsIdle` (`DrainedMeansIdle`), `DrainNeverGrows` (`NoAddDuringDrain`),
and the refinement `LoopsImplementPool` (`ImplementsSlotPool`).

`CapHolds` is not inductive: a swap adds one to `active` on the strength of
`cur[l]`, loaded earlier, and the number of slot holders is another quantity
again. `SlotInv` adds what connects them. `GaugeIsExact` and `WaitGroupIsExact`
tie each counter to the set of connections it counts. `LoopsOwnTheirConns` says
that a loop between accept and hand-over owns exactly one connection, that no two
loops own the same one, that the stage of that connection fits the loop's
program counter, and that a loop about to swap loaded a value below the cap; so
each step moves exactly one connection in or out of the counted set, and
`FS_AddElement`/`FS_RemoveElement` give the change of its cardinality.
`RetriesLeft` (a connection that backs off has a retry left) carries the type of
`attempt`. `OwnInv` adds that a handler closes its socket before it gives the slot
back, that no accepted connection falls between a loop and a handler, and that the
drain begins when no loop is left. The refinement maps the pool's holders to the
connections that own a slot: a successful swap is the pool's claim, a refusal
happens with every slot taken, everything else stutters.

Assumptions: `ConnsAssumption` (finitely many connections), `LimitsAssumption`,
`ModeAssumption`.

### Relay: `RelayProofs`

For every window and peers that send without end: `EofTellsAll` (`EofIsComplete`),
`HalfCloseIsHarmless` (`HalfCloseKeepsOpposite`), `RelayTypeCorrect`. `EofIsComplete`
speaks of the state after the end of stream only. `RelayInv` accounts for every
unit on its way: what a peer sent and was not written yet is unread or in the copy buffer; and it
says who can have closed a socket.

### BridgeRun: `BridgeRunProofs`

For every number of connections and removals and every combination of the options:
`ReadyIsTrue`, `ExitStatusIsTrue`, `RunCleansUp`. `RunInv` goes by the place of the main
goroutine: nothing is written before READY except on the way out, whoever closes the
listener has a cause or an error, the result is settled once `Report` has looked at
the cause (a first cancel is never replaced), and node, child and state directory
follow the deferred calls.

### ProfileStore: `ProfileStoreProofs`

For any number of processes, profiles, credentials, keys and planes:
`UpdatesAreNotLost` (`NoLostUpdate`), `RemovalIsDone` (`RemovalIsComplete`),
`RemovalHidesNoSecret` (`RemovalLeavesNoSecret`), `KeysStayHome` (`KeysKeepTheirPlane`),
`RollbackIsExact` (`RollbackPutsBack`). `StoreInv` says that exactly the holder of the lock
is at a locked step, that what is about to be saved is the store as it is now but
for one profile, and what a removal has still to clear. `BindInv` adds what `auth
set` may rely on between its checks under the lock and its save or rollback.

No theorem excludes a failure: a write that fails after its rename is a step like any
other. `KeysStayHome` and `RollbackIsExact` therefore name what such a failure does (the
reference of `auth set`'s own profile stays, over the key that was put back), and
`store_late_harden` shows that the stronger claim in the code's comment is false. The
other exception of `KeysStayHome`, a profile that referenced the key that is put back
before, is what an earlier failure of that kind can have left.

### HostServe: `HostServeProofs`

For every set of services, every delay limit and every backlog of the bus:
`ChildrenTakeTurns` (`OneChildAtATime`), `ReadinessIsFold` (`HealthIsFold`), `ServeCleansUp`
(`NothingOutlivesServe`), `ServeTypeCorrect`. `ServeInv` says who may call `start` at each
point (main first, then only the Supervisor), that a start which has not run ssh finds
no child, that the goroutine between its change of the map and its store holds
`Health.mu`, that each source has one reporter, and that an outage is in the map from
before a restart to its end.

### HostSetup: `HostSetupProofs`

For every list of services and timeouts, every INPUT chain, ts-input and ufw list,
and any number of runs and faults: `ConvergedIsDeclared` (`ConvergedMeansDeclared`),
`SetupIsIdempotent` (`SecondRunIsQuiet`), `CheckIsSetup` (`CheckForeseesSetup`),
`OperatorsRulesAreKept` (`OperatorRulesStay`), `OnlyClosedIsOpened` (`OpensWhatIsClosed`),
`TailnetStaysOpen` (`KeepsTailnetOpen`).

The first two speak of the end of a run. `HostInv` (theorem `ReportsHold`) says the same of
each step as soon as it has reported: *reported ok or changed* implies *the fact holds
now*, and the steps after it leave that fact alone, with one exception the invariant
has to state: a failing restart stops xrdp after its own step was ok, and the port step has failed then.
For the firewall the fact is `Settled`: the next read leads to no command. That a chain
is settled after an append or the last deletion is a statement about the walks
(`readIptables`, `iptInlineChain`, `iptBeforeQualifiedJump`) over chains of any length; `ReadFacts`,
`AppendFacts` and `RemoveFacts` are those lemmas. `CommandsFit` carries what the
deletions rely on: the count read at the start is the number of copies still there.

`CheckForeseesSetup` compares two points of time, so `ForeseenInv` carries the check along the
run: before a step has reported, what the check said of it is still what its reads would
find, because the steps before it change nothing it reads; afterwards the report is as
foreseen. The port of an xrdp whose unit cannot be started is the one step that says
failed where the check said changed.

`OperatorRulesStay` needs that `Others` goes over a concatenation (`FlatMapConcat`): a
deletion takes one of setup's own rules out of the middle of a chain, an append adds
behind it.

The last two compare the code's reading of a chain with the kernel's verdict on it.
`Verdict` goes over a concatenation too (`VerdictConcat`: the second chain stands where
the policy stood), so an appended rule, a deleted copy and ufw's allow behind its list
each have a lemma. `FilterInv` (theorem `CommandsStartFromReads`) carries what the reads
established to the commands: while copies are deleted, a rule that is not one of them lets
the tailnet in; before `ufw allow`, neither ufw's list nor INPUT nor ts-input holds a rule
that settles the read. Both properties name what they need of the host instead of an
assumption demanding it: `Legible` (no rule a packet may meet is one the walk does not
evaluate whole, and where iptables is not installed to list it, INPUT holds ufw's jump only),
`NoTailnetDeny`, and for the ufw clause a policy that drops. Without `NoTailnetDeny` the
deletion can close the port: that is the run `host_legacy_closes`.

Assumptions: `SetupBounds`; `WindowsLists` (the code's two fixed lists, of which the
services are not empty); `HostsAssumption` (chains hold rules, and the rule marked as
setup's own is exactly the rule setup used to write, as `iptWithoutLegacy` compares).

### ConfigFiles: `ConfigFilesProofs`

For every content of files, environment, flags and profile, every init and every
edit: `LayersAreRanked` (`LayersDecide`), `ManagedKeyGoesHome` (`ManagedKeyStaysHome`),
`StoredKeyKeepsPlane` (`KeyKeepsItsPlane`), `FilesAreHonoured` (`InitIsHonoured`),
`WaitsAreBounded` (`BackoffBounded`). Four invariants, each about another thing that
survives from one step to the next: `RankInv` (the layers of a connect that is up are
ranked), `PlaneInv` (an init, the `.env` it is about and a connect that loaded that
`.env` agree on the control plane), `NumberInv` (numbers stay numbers; accepted ones
are in range), `HonourInv` (what a completed init was given is valid and is what its
files say).

Assumptions: `SecondAssumption`, `NumbersAssumption` and `InputsAssumption` (typed
inputs: a number is an integer, Go's `""` is a field outside the domain),
`BackoffAssumption`, and `PowersOfTwo`: the provers have no theory of exponents, so that
2^n is a positive natural is assumed for the n that occur, and TLC evaluates it.
`ConfigMerge` defines `@@` and `:>` itself, with the meaning they have in module TLC,
because the provers need their definitions.

### How induction over data is done

The library's induction theorems take an operator as parameter and cannot be used
here. Facts about recursive functions and chains of any length (`FlattenSeq`, the
walks) are proved from a least counterexample: a set of naturals that is not empty
has a least element (`LeastExists`, from the well-foundedness of `<`), and the step from
its predecessor contradicts it.

### Only model-checked

* Liveness, which is outside the prover's reach: `SlotNotStuckBeforeRelay`,
  `ShutdownCompletes`, `EndsWithItsPeers`, `IdleEndsRelay`, `CancelledRunEnds`,
  `BootstrapLossEndsRun`, `ServeEnds`, `LossShows`, `RecoveryShows`. So is the absence of
  deadlock, which is about ENABLED.
* The runs that end in a counterexample: the properties are false.

## 5. Observations that are not runs

* The idle deadline is per direction (`proxy.go:51`): a one-way transfer is closed as
  idle while bytes move, although `site/src/content/docs/configuration.md:48` speaks
  of "no traffic". And only `Read` has one: a direction that waits in `Write` for a
  peer that stopped reading has no deadline, so a connection without any traffic
  can stay for ever.
* The test `TestLoad_overridesExistingEnv` expects what `envfile.Load` does, against the
  two comments quoted in the findings.
* `run.go:242-244`: `handleShutdown` starts before `MarkReady`. Cancelled in between, the flag
  it cleared is set again, and the probe answers ready until the health server is shut
  down, right after the listener (`run.go:489-495`).
* `credential_transition.go:45`: a key write that fails after its rename leaves the new key,
  although `auth set` reports that it could not be stored. A previous key whose content is
  not valid (`credential_transition.go:52`, `:64-67`) is not modelled.
* SEC-391 AC2's exclusive creation of a credential is checked under the store lock in
  every command modelled here (`StatKey`); `credential.Set` alone takes no lock.
* `init --format yaml` writes `port_range`, which `decodeYAML` does not know: the range
  has no effect.
* An init stopped between its two writes can leave a SaaS key, stored without a control
  URL, under a YAML file that names one.
* `socks5_addr` in YAML with a profile that has a target is refused rather than
  decided by rank (`connect.go:200`).
* `sameListenerEndpoint` tells `localhost` from `127.0.0.1`, and compares the bootstrap's
  address with a `LocalAddr` that SOCKS mode does not use.
* `merge.go:742` says a missing YAML file is not an error; with `--config` it is one.
* Negative `dial_retries` in YAML are dropped silently, though `validateDialRetries`
  speaks of all sources; negative `TS_TIMEOUT` and `TS_DRAIN_TIMEOUT` are accepted.
* With a base of 2^33 ns or more and 30 attempts the shift of `computeBackoff` can wrap to a small
  positive wait, shorter than the attempt before.
* Two auto-mode connects with the same explicit hostname share one ephemeral state
  directory, which the first to stop deletes.
* `readChoiceInput` takes an empty answer for yaml; the prompt (`init.go:324`) says env.
* `host check` on Windows does not read unattended mode, services or the network
  profile, so it can be all ok where setup would act.
* An unscoped allow of somebody else's before an unscoped deny makes every run of setup
  append one more scoped rule behind the deny.
* `ufw allow in on lo` is read as an allow, and a port rule narrowed by conntrack as open.
* `windows_steps.go:107`: when the RDP port cannot be read, the firewall rule is recreated
  for 3389.
* `run.go:216` and `run.go:428`: when the ssh child exits while a node that failed to
  start is being closed, two ERROR lines are written.
* `run.go:166` and `run.go:224`: a failing state directory or listener ends the run
  without an ERROR line; `README.md:272` of the repository promises one.
* `health.go:25`: `Store` and `Load` are two atomic operations each, so a `Load` in
  between returns a pair nobody stored. `/health/ready` uses the reason only when
  the flag is false.
* `bootstrap.go:138`: the readiness poll takes any listener on the port for the child's
  (the child then exits, because of `ExitOnForwardFailure`, and the Supervisor
  restarts it).
* `health.go` says the zero value of `TunnelStatus` "is ready"; the zero
  `atomic.Bool` is false. `NewTunnelStatus` and `MarkReady` make it moot.
* A keepalive failure (`ETIMEDOUT`) satisfies `net.Error.Timeout` and is
  therefore logged and handled as an idle timeout.
* A reset by the client only half-closes the remote. Without an idle timeout a
  silent remote then holds the connection's slot until it closes.
* `publish.go` says forwarded connections "run to their end"; `runServeNode`
  closes the node and the process exits as soon as the loops have returned.
* `cfg.halfclose = FALSE` in `Relay` stands for conns without `CloseWrite`, which outside tests
  (`net.Pipe`) the program does not use.

## 6. Not modelled, and why

`PROJECT.json` gives the reason for each component. In short: SOCKS5 messages and
the connection descriptor are parsers, pure functions of their input; the checks of
state directories are operating-system calls on one path; logging, discovery, status
and build tooling have no state the rest depends on. Inside the modelled parts,
byte and error counters, log wording, messages and banners are left out; `host
serve` begins with its plan already loaded and `host setup` with its host file
parsed; the containment of the ssh child's own children is left to the operating
system; a firewall rule's and a `.env` line's text is abstracted to what the parsers
tell apart; darwin has no setup steps.

## 7. Plan

1. Type correctness of `HostSetup` and `ConfigFiles` as theorems of their own (the parts
   the proofs need are in `LinuxTypes`, `WindowsTypes` and `NumberInv`).
2. The control proxy of the SSH bootstrap and the browser's PAC server; the SOCKS5
   allow-list and the descriptor as operators, if a property needs them.
