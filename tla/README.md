# TLA+ verification of Trish

Trish runs commands on remote PCs: an admin's CLI talks to one central server,
and an agent on each PC keeps an outgoing TCP connection to that server. These
modules model the parts of it whose correctness depends on interleavings,
failures and time. The names of actions are those of the Go functions where
there is one.

## The system

| Component | Source | State | Operations | Hard because |
|---|---|---|---|---|
| Session manager | `server/session.go`, `server/server.go` (`handleAgentSession`) | session map, pending map, reply channels | register, unregister, get, registerPending, resolvePending, cancelPending, dispatch | channels are used after `m.mu` is dropped; a reply, a timeout and a write error race; agents reconnect |
| Agent presence | `server/server.go` (`handleAgentMessage`, `markOfflineLoop`, `cli.agent.control`), `agent/agent.go` | registry entry (connected, status, last seen), agent's frozen flag | register, heartbeat, result, sweep, freeze, unfreeze, stop, restart | three kinds of goroutine write one entry without a common lock |
| CLI authentication | `server/server.go` (`verifyCLIMessage`, `registerNonce`), `core/client.go` | nonce cache | sign, verify, register nonce, purge | two clock readings, duplicated requests, parallel handlers |
| Process lock | `server/lock.go`, `cmd/server/main.go` | lock file, open handles | acquire, stale check, release | file-system calls of several processes interleave; crashes |
| Plugin store | `server/plugin_store.go` | records, `plugins.json` | install, remove, setEnabled, rollback, load, save | the file is written after the unlock; truncation, crash, failing writes |
| Group store | `server/group_store.go`, `server/server.go` | groups, `groups.json`, membership in the registry | create, delete, add, remove | three stores changed in separate steps |
| CLI request relay | `server/server.go` (`handleCLIMessage`) | none of its own | exec, ping, control, plugin, group and tag requests | combines the components above |
| Windows services | `server/service_windows.go`, `agent/service_windows.go` | state at the service manager, three threads of the process | serviceMain, run, control handler | status reports of three threads in any order, stop during the start, crashes |
| Installers and elevation | `server/service_windows.go`, `agent/install_windows.go`, `agent/elevate_windows.go`, `cmd/agent/main.go` | binary, configuration, service entry | install, repair, uninstall | every step may fail, or a reboot cut it short; the service lives on meanwhile |
| Agent service | `agent/agent.go` | connection, encoder, frozen flag | connectionLoop, connectAndServe, heartbeatLoop, control | heartbeat and receive goroutines share the encoder |
| Admin client, CLI, GUI | `core/client.go`, `cli/` | the shell's active agent | one request per connection; exec on one agent, a group or all | its 5 s deadline against the server's 10-30 s; results of several agents in parallel |
| Registry | `core/registry.go` (not in the tree) | entries, file | Register, Get, List, UpdateStatus, groups, tags | external: known from its use only |

They interact as follows. A CLI request is one connection: `handleConnection`
reads it, `verifyCLIMessage` admits it, and `handleCLIMessage` answers it from a
store or calls `dispatch`, which sends a command over the agent's session and
waits on a channel. The agent's own handler goroutine reads the reply, updates
the registry and hands the message to the waiting call (`resolvePending`).
Stores, registry and session manager each have their own lock; no lock spans
two of them.

## Modules

| Module | What it is |
|---|---|
| `RemoteCall` | abstract specification: what `dispatch` promises its caller |
| `SessionManager` | sessions, pending calls, reply channels, both ends of the agent connections |
| `SessionManager_proofs` | its inductive invariant, the safety theorems, the refinement of `RemoteCall` |
| `AgentPresence`, `AgentPresence_proofs` | the registry's view of one agent against the agent itself; a connected entry is recent |
| `ProcessLock`, `ProcessLock_proofs` | the lock file, call by call; mutual exclusion |
| `CliAuth`, `CliAuth_proofs` | admission of CLI requests; no request is admitted twice |
| `PluginStore`, `PluginStore_proofs` | plugin records, snapshots and the plugin file; its safety properties |
| `GroupStore`, `GroupStore_proofs` | groups, `groups.json` and the memberships in the registry; its safety properties |
| `Fleet`, `Fleet_proofs` | the CLI, the client, the relay and the agents' execution of commands, composed with `GroupStore` (extended) and `RemoteCall`'s promise; its safety properties, and that it implements `GroupStore` |
| `WindowsService`, `WindowsService_proofs` | installer, service process and service manager; its safety properties |
| `MC*` | the constants of the instances that TLC checks |

**SessionManager.** `sessions` and `pending` are the two maps. A reply channel
with its one slot is `buf` (a message is in it) and `closed`. Each connection has
a handler goroutine (`hpc`), an agent's end (`apc`), a state (`link`) and ordered
messages both ways (`down`, `up`). Each call has its dispatch goroutine (`dpc`).
Steps are cut where the code takes or drops `m.mu`, uses a channel or uses the
network: `resolvePending` is three steps (take the entry, send, close),
`cancelPending` two. `panicked` records a send on, or a close of, a closed channel,
which ends a Go program. A write blocks when `Capacity` messages are under way
and fails, or is lost, when the connection is gone. A command is known by its
CommandID; each dispatch has a fresh one.

**AgentPresence.** One agent, since entries are independent. `entry` is the
registry's entry with the age of LastSeen in ticks of 30 s, the period of both the
heartbeat and the sweep. Each handler step that the code makes through a separate
registry or session call is a separate action. `Prompt`, the guard of `Tick`, says
that nothing that is ready to run waits for 30 s. `Seen` and `UpdateStatus` stand
for the registry and are external. An agent may carry a control request out after the server has given it up
(`late`), and its first heartbeat comes a tick after the acknowledgement (`Enrol`). In handleAgentMessage a ping result stores the
same entry as a heartbeat of the same status, so it is not a message kind of its own.

**ProcessLock.** Every file-system call is a step. `RemovesOpen` tells the two kinds
of file system apart: Go opens files on Windows without sharing deletion, so an
open lock file cannot be removed; on POSIX systems it can. `processRunning` calls
`tasklist`; where this program is missing the check fails (`CheckFails`).
The operating system may give the ID of an ended server to another process, which may end in turn
(`Recycle`, `reused`); `tasklist` cannot tell the two apart (`Running`). That process may be the next server itself: the code does not
compare the ID in the file with its own and refuses this start like any other, so the case counts as a reuse and not as a process of its own. The history variable `company`, which
`Watch` extends in every step, collects the processes that have met another server, or a reused ID, since their start.

**CliAuth.** A request is its timestamp and its own nonce. The time window and the
nonce lookup are two steps, with a stall of at most `MaxStall` between the two
readings of the clock. A purge keeps what `Kept` says. The cache is not saved: after `Restart` the server has
forgotten every nonce, and `admitted` counts anew. `firstAt` remembers across restarts when a request was first admitted.

**PluginStore.** An operation changes `records` and takes its snapshot in one step
(under the lock); `SaveOpen` truncates the file and `SaveWrite` writes it. Two
overlapping writes leave the second snapshot or, when the first is longer, a
file that cannot be parsed. `load` reads both file formats the code knows.

**GroupStore.** A group request is a `job`: `create` or `delete` changes the groups and
takes the snapshot under the lock, `SaveOpen` and `SaveWrite` write the file, and the
handler then calls the registry: once for an addition (`AddGroup`), entry by entry for a
deletion (`RemoveGroup`, whose error the code ignores). Three auxiliary variables only remember
what has happened: `overlap`, `stale` (the file may be behind because saves overlapped or failed,
until one goes well alone) and `blamed` (groups that may have members without existing, each
with a cause that `MembersHaveGroup` lists). Nothing in the code repairs such members, and
`exec --group` looks only at the registry, so a command for the deleted group still runs there.

**Fleet.** An invocation of the CLI (`inv`) makes a group request, which is a job of
`GroupStore` under the same name, or sends a command to one agent, the connected members of a
group or all connected agents. `call` follows the command per agent through server and agent, `out` is what
`ExecuteOnAgent` returns to the CLI. `resolveShellCommand` is the shell's reading of a line;
`may` collects the agents the operator has addressed. `dispatch` is replaced by what
`RemoteCall` promises: an answer is the agent's, an error says nothing, a command may run late. Which agents are
connected is arbitrary at each listing. Plugins are switched on and off, installed and removed at any time, so `findCommand` may find
the script of a plugin or not each time it is asked; only a plugin's command is ever found. It is assumed that agents are not named like commands.

**WindowsService.** Server and agent have separate copies of nearly the same code; `kind` says which
one runs, and `serverInstall`/`agentInstall`, `serverRun`/`agentRun` hold the differences. A file on
disk is the number of the install that wrote it, or `Torn` between truncation and write. The installer
is a sequence of steps (`Order`), of which each may `Fail`; the process has `serviceMain`, the goroutine of
`run` and the control handler, which report to the service manager in any order (`StatusAfter`: after
STOPPED a further report may be taken or ignored). Recovery actions, operators and the automatic start
are `StartedByOther`; `intruded` remembers that one of them has started the service during this install. `serviceExists` may overlook a
registered service, since it takes every failure of `sc.exe query` for "absent"; `missed` remembers that an uninstall skipped its deletion for that.

Beside a definition stand its mutants (marked "Mutant"): plausible slips of the
code under which a property fails. They are not part of any specification.

## Runs

| Run | Instance | What it shows |
|---|---|---|
| `session_safety` | 1 agent, 2 connections, 2 calls, capacity 1 | `NoPanic`, `NoPendingLeak`, `NeverCancelled` (a return of `dispatch` that cannot happen), `SessionHasHandler`, `SupersededIsClosed`, `OnlyOwnSessionLeaves`, `OnlyLateRepliesDropped` (a reply that finds no entry is too late), `ImplementsRemoteCall`; if agents read, every dispatch returns (`EveryCallReturns`) and the session of a dead agent leaves the map (`DeadSessionLeaves`) |
| `session_blocked` (violation) | 1 connection, 2 calls, capacity 1 | `EveryCallReturns` fails when an agent stops reading |
| `session_handshake` (violation) | 1 connection, 2 calls, capacity 1 | a command may overtake the acknowledgement (`HandshakeKeepsConnection`) |
| `presence` | 2 connections, 1 control request, limit 3 ticks, 2 messages under way | `ConnectedIsRecent`, `ExpiredWasLost` (the sweep gives up only agents that are down or have no open connection), `StableAgentStaysOnline`, `DeadAgentDisconnects`, `StatusConverges` |
| `presence_reconnect` (violation) | as `presence` | an old connection's end marks the agent offline (`OfflineOnlyWhenLost`) |
| `lock_windows` | 3 processes, IDs reused | `MutualExclusion`, `HolderKeepsFile`, `RefusedForCause` (a start is refused only beside another server or a reused ID), `LoneStartIsNotRefused` |
| `lock_posix` (violation) | 2 processes, open files can be removed | `MutualExclusion` fails |
| `cli_auth` | 2 requests, 2 handlers, skew 2, stall 2, clock to 7 | `AdmittedOnce`, `CachedWasAdmitted`; with restarts, `RepeatedSoon` (a request is admitted again only within `2 * Skew + MaxStall` of the first time) |
| `plugin_store` | 1 plugin, 2 versions, 2 contents, 2 requests | `RecordsWellFormed`, `AnsweredIsSaved`, `VersionsSurvive`, with overlapping saves, failing writes and crashes |
| `windows_service` | 2 installs or repairs, any number of uninstalls, starts, stops, crashes and reboots | `StoppedIsReleased`, `InstalledIsComplete`, `NoStaleInstance`, `StopSticks`, `UninstalledStaysDown`; `StopIsHonoured` under fairness |
| `fleet` | 2 overlapping invocations, 2 agents, 1 group, crashes and restarts | `MembersHaveGroup`, `GroupsAreSaved`, `RunsWhereAddressed`, `ShellRunsScripts`, `ExitZeroIsDone` |
| `fleet_superexec` (violation) | 1 invocation, 1 agent | the `superexec` commands that the repository's README shows are refused by the agent (`SuperexecWorks`) |

The type invariants of all modules are theorems (`TypeCorrect`); those of `AgentPresence` and
`WindowsService` are in a run as well. Deadlock is not
checked: connections, requests and processes are used once or may stop, so a
finished system is a normal end.

**Bounds.** Two connections of one agent are what a reconnection needs, and two
calls what crossing replies need; a third of either repeats the same roles, and
the theorems about `SessionManager` hold for any number. `OrderedSpec` names connections and calls in the order of their use,
and bounds the instance once (`InOrder`): at least one of the two calls is given before the agent reconnects. Two calls that both
come after the reconnection meet a session like the first one. A capacity of one makes writes block. Three processes give the lock a holder or a crashed one beside two
that start. The clock of `CliAuth` passes `2 * Skew` after the earliest timestamp, so
purges happen. The offline limit is the code's 90 s, three
ticks. One plugin is enough because records of different plugins meet only in a snapshot,
which is taken as a whole.
Two installs give a repair over a complete or a torn first install. Two invocations are what an overlap
needs; two agents tell apart the members of a group from the others, and a partial failure from a complete one. The
theorems about these modules hold for any number.
Symmetry is used in `fleet` only, where no liveness is checked.

**Fairness.** Weak fairness of each server goroutine and of timers: the Go runtime
runs what can run. A read of a lost connection fails in the end because Go's
listener turns TCP keepalive on. `AgentsRead` adds that agents read; it is the
assumption `EveryCallReturns` needs, and `session_blocked`, which does without it, shows that it does. In
`AgentPresence` a running agent dials when it has no connection
(`connectionLoop` never gives up) and a process that has scheduled `os.Exit` exits.
In `WindowsService` each thread of the process goes on while it can; nothing is assumed of the installer, and nothing forces the
service to be started or a control to be sent.
Nothing is assumed of crashes, lost connections, reboots, restarts or callers.

## What the violated runs say

1. `dispatch` writes before it starts its timer and no deadline is set: an agent that
   does not read holds a caller beyond the documented 30 s (`server/session.go:125`).
2. A session is published before its acknowledgement is sent; a command in between
   makes the agent drop the connection (`server/server.go:416`, `agent/agent.go:146`).
3. The end of a superseded connection marks the agent offline although `unregister`
   left the new session in place (`server/server.go:429`). `StableAgentStaysOnline`
   shows that the next heartbeat repairs it.
4. On POSIX systems a lock file that is created but has no process ID yet is removed as
   stale by another process (`server/lock.go:75`).
5. `README.md:141-143` shows `superexec` on the command line, `README.md:166` lists its modes and `IMPLEMENTATION_TODO.md:64` ticks it
   off as done. Only the server sets `TrustedAdmin`, for the script of a plugin (`server/server.go:161`), and the agent refuses every
   other `superexec` (`agent/agent.go:256`): such a command always fails, and so do the GUI's browsing and downloading, which use it.
   `ShellRunsScripts` is the other side of the same code: what an operator types never reaches a shell.

Seen while modelling, without a run of their own:

- The late second write of a control reply (`server/server.go:333`) can leave the status "stopping" or
  "restarting" for ever after the agent has gone; the entry is still not `Connected` (`DeadAgentDisconnects`).
- A start by somebody else between a repair's stop and its own start is tolerated as "already started"
  (`server/service_windows.go:439`, `agent/install_windows.go:283`), so an old instance may survive the repair.
- An error of `run` is reported as STOPPED with no error code, so the recovery actions never see it.
- `serviceExists` takes any failure of `sc.exe query` for an absent service (`server/service_windows.go:384`,
  `agent/install_windows.go:229`): uninstall then skips the deletion and still reports success, and the service may start again.
  `UninstalledStaysDown` excludes this case by name (`missed`).
- The agent's installer relaunches itself on every failure of `net session` (`cmd/agent/main.go:101`, `agent/install_windows.go:221`), with
  the same arguments and without a bound: where the call fails with privileges too, it never ends. The model does the same
  (`RelaunchElevated`), so no property says that the installer returns.
- The group store trims a name (`server/group_store.go:63`, `:75`), while the registry gets it as it came
  (`server/server.go:257`, `:265`, `:271`): a name with blanks around it is one group in the store and, unless the registry trims too,
  another one in the entries. `GroupStore` takes names without such blanks.

## Proofs

The theorems hold for every value of the constants under the named assumptions
of the modules (`OwnerAssumption`, `CapacityAssumption`, `StallAssumption`, ...).

*Session manager.* The checked invariants are not inductive. `IInv` has four parts.
`TypeInv` adds to the types that a handler that resolves has a call in hand and an
open dispatch has a session. `ChannelInv` says that a reply channel has one owner at
a time: the pending map, one handler, or the dispatch goroutine that cancels it;
from this follow `NoPanic`, `NoPendingLeak` and `NeverCancelled`. `SessionInv` ties
the session map to the handlers. `RunInv` follows a command: before it is sent it is
nowhere, afterwards it is in one place at most on its way to the agent, and replies
exist only for commands that have run. `Refinement` uses `IInv` in each step: every
step is a step of `RemoteCall` for one call, or invisible. `WaitingCallersAreAnswered` needs one more part, `AwaitInv`: from the moment
a command is written until its reply is taken up, its caller has its entry in the pending map or has given up
(`MessagesAwaited`). This holds because the entry is made before the write (`EntryBeforeSend`) and only one message of a
command, or its one reply, exists at a time (`RepliedOnce`).

*Process lock.* With `~RemovesOpen`: while a process has its handle open the file is there and
is its own (`HandleInv`); hence at most one process is past `AcquireProcessLock`. `RefusalHasCause` holds on every file
system and has an invariant of its own, `CauseInv`: a process ID in the file, or read from it, is that of a process that has held
the lock (`PidInv`), and a process without company reads a file that is there and an ID that nobody runs under (`AloneInv`).
A reused ID is therefore the only way in which a stale file refuses a start.

*CLI authentication.* The invariant relates three times: a request is at most
`2 * Skew` old when its nonce is looked up (`InTime`), and a nonce that has left the
cache belongs to an older request (`Remembered`). The assumption
`MaxStall <= Skew` is needed: a handler that stalls longer between its two clock
readings may admit a request whose nonce has been purged. `RestartIsBounded` keeps to the times that survive a restart: no
request is admitted earlier than `Skew` before its timestamp (`NotEarly`), and none is looked up later than
`Skew` and one stall after it (`InTime`), so two admissions are never further apart than the sum.

*Agent presence.* `SweepInv` follows the sweep: between two sweeps a connected entry is within the limit, during
one it may be a period older. The late write of a control request could set `connected` on an old entry; it
cannot, because a reply that is waiting to be stored came in this very tick (`FreshInv`). `SweepFindsTheLost` rests on
`LifeInv`, which follows an agent's connection from the dialling to its end: while the connection is open the
registration is under way or stored, and then in each tick a heartbeat is (lemma `MessageSeen`), so the entry is never old enough for a sweep.

*Plugin store.* Records stay well formed because every snapshot on its way to the file is (`WellInv`) and an upload keeps the
other versions (lemma `Upsert`). A save that has the store to itself writes the present records into an empty file
(`SaveInv`), and loading well-formed records gives them back (`LoadedSaved`).

*Group store and fleet.* `IInv` of `GroupStore_proofs` ties each job's stage to the groups, the file and the
blamed groups: an addition under way has its group in the store, unless it is blamed (`JoinInv`), and a save that is alone holds the
present groups (`SaveInv`). `Implements` shows that every step of `Fleet` is a step of `GroupStore` or leaves it alone, which
carries its theorems over. The results about commands rest on `FleetInv`, which relates an invocation, its commands
and its results (`InvOK`, `CallOK`, `ExitOK`).

*Windows services.* `ProcInv` relates the threads of a process to the state that the service manager shows; `InstInv` relates each step of
the installer to the files it has written and to the instance that may be running. The action properties follow from one step under `IInv`.

Only model-checked are the liveness properties, since the prover has neither fairness nor ENABLED: `EveryCallReturns`,
`DeadSessionLeaves`, `StableAgentStaysOnline`, `DeadAgentDisconnects`, `StatusConverges`, `LoneStartIsNotRefused` and
`StopIsHonoured`. For some of them a theorem gives the part that no fairness is needed for: `RefusalHasCause` for
`LoneStartIsNotRefused` (it is not refused; TLC adds that it gets on), `SweepFindsTheLost` for `StableAgentStaysOnline`,
`PendingIsReleased` and `WaitingCallersAreAnswered` for `EveryCallReturns`.

## Not modelled

- The registry's tags and file, and whether `Get` copies: `core/registry.go` and `core/protocol.go` are not in the
  tree. A heartbeat may or may not write back groups that a request has changed between its `Get` and `Register`
  (`server/server.go:440`); the models take each registry call for one step.
- HMAC computation and message encoding: what they decide is a Boolean here.
- A promise about saves that overlap: the code saves after the unlock, so two
  overlapping requests can leave an older state, or a file that cannot be parsed, although
  both are answered with success. `AnsweredIsSaved` and `GroupsAreSaved` therefore speak of requests that had
  the store to themselves (auxiliary variables `unsafe`, `stale`); no document of the repository
  promises more.
- Which of two enabled plugins that offer the same command is taken (`server/plugin_store.go:228` follows Go's map order),
  and the text of the script that is sent.
- The CLI's plugin subcommands, tag requests and listings (one request each, no state of their own), and printing.
- The GUI (`cli/gui.go`): embedded pages and the client calls of `Fleet`; its browsing and downloading end in a refused `superexec`.
- The agent's connection when its service reports STOPPED: `AgentService.Stop` closes the connection it has (`agent/agent.go:417-430`), while a
  dial in progress (`agent/agent.go:102-114`) does not look at `quit` and may still connect and register within the second before the
  report. `StoppedIsReleased` therefore speaks of the server's lock and port only.
- Lengths of delays (back-off, timeouts): a timeout may come at any time. The agent's encoder is used one message at a
  time.
- Agent plugins (single operating-system calls), the agent's command table (filled once at start) and the event bus
  (nobody subscribes).

## Order of the work

The modules were written in the order of the tables above: sessions, presence, lock, authentication and
plugin store first, then Windows services, group store and fleet, and each with its proofs after TLC had agreed. What could
follow: `Fleet` with `AgentPresence` in the place of arbitrary listings, and with the plugin store's records in the place of
the free choice in `findCommand`.
