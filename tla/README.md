# Dejima: TLA+ project

Dejima runs AI agents in *islands*: containers with a repository, one or more
agents and a brokered bridge to the host. `dejimad` is the daemon that owns them,
`dejima` the client with its dashboard. This directory holds TLA+ models of their
control logic, TLC configurations that check them, and TLAPS proofs about them.
`PROJECT.json` is the index: which definition models which lines (`map`), what
every run checks (`runs`), how each property fails when the code is broken
(`mutants`), what the code is exposed to (`hazards`), where it differs from its
own documentation (`findings`), and what is proved (`theorems`).

## 1. Inventory of the system

| component | source | state | operations | what is hard | modules |
|---|---|---|---|---|---|
| island lifecycle | `internal/api/server.go`, `idle.go`, `wake.go`, `panic.go`, `workspace_source.go` | project record (with the *desired* state), container, volumes, `PANIC` file, one mutex per island | create, clone, purge, hibernate, wake, reset, upgrade, resources, panic, unpanic, adoption at start | record and container change in separate steps; engine failures; crash between the steps | `Lifecycle`, `Provision` |
| project records | `internal/project` | one JSON file per island | load, save (whole record), delete, list | saved by handlers with and without the mutex | `Lifecycle`, `Agents` |
| home snapshots | `home_snapshot.go`, `resetIsland` | home volume, snapshot volumes, the list in the record | reset, restore, prune, purge | the list is in memory until the last step; agents write while the copy is taken | `HomeSnapshots` |
| container engine adapter | `internal/runtime` | containers, volumes (external) | create, start, stop, remove, copy | partial failures, names in use, restart policy | by its outcomes |
| link broker, action gate, policy | `internal/link`, `internal/policy`, `link.go`, `link_action.go` | grants, exposure, approval queue (memory), rules with budgets | grant, expose, send, request, approve, deny | check and use are apart; ids restart with the daemon | `LinkBroker` |
| agents, spawn grants, reaper | `internal/spawn`, `spawn.go`, `spawn_reaper.go`, agents in `server.go` | roster, sessions, worktrees, grant | add, spawn, remove, move, restart, revoke, reap, reconcile | check, add and count apart; ids given out again; detached cleanups | `Agents` |
| mailbox, nudges | `internal/mailbox`, `mailbox.go`, `wake.go`, `msg.go` | ring with a file, cursors, pending nudges | send, poll, nudge, flush | cursor and messages read apart; a lost write | `MailLog`, `Mailbox`, `Nudges` |
| audit ledger | `internal/ledger` | hash-chained file and its head | append, read, verify | torn appends, a second process | `Ledger` |
| secrets | `internal/secrets`, `island_secrets.go` | keychain or JSON file, metadata, mounted file | set, remove, purge, materialise | three places, two locks | `Secrets` |
| ports | `port.go`, `port_trade.go`, `port_intake_recursive.go` | scopes, files on both sides, ledger | grant, revoke, intake, export, write | scopes loaded before use; a file read twice | `Ports` |
| webhooks | `internal/events`, `webhooks.go` | subscriptions, file, keys | subscribe, unsubscribe, emit | copy written outside the lock | `Webhooks` |
| scheduled wakes | `schedule.go`, `project/schedule.go` | schedules in the record, time | create, delete, scan, fire, deliver | scan without the mutex, save over it | `Schedules` |
| watchdog, heartbeat | `watchdog.go`, `heartbeat_monitor.go` | last seen states, ages | scan | reads record and container apart; memory lost at a restart | `Watchdog`, `Heartbeat` |
| sessions, terminals | `session.go`, `terminals.go`, `hostterm`, `admin_update.go` | connections, registry, revocations | attach, detach, revoke, restart, update | closes race with normal ends; streams outlive what allowed them | `Sessions`, `HostTerminals` |
| CLI, dashboard | `cmd/dejima` | what is shown, what is asked, calls in flight | polls, switch, prompts, panes | answers late and out of order, of another daemon or pane | `Dashboard`, `Panes` |
| access control, tokens | `access.go`, `tokens.go`, ... | token stores | issue, check | decisions of one step | - |
| MCP broker, egress proxy, bridge, SSH facade, local API | `mcp`, `egress`, `bridge`, `sshfacade`, `local.go` | sockets | proxy | I/O | - |
| the rest | local models, voice, paste, usage, SDK, image, packaging, support packages | - | - | I/O, parsing | - |

How they interact. Every request enters `dejimad` by HTTP and runs on its own
goroutine; six loops (watchdog, idle, heartbeat, scheduler, spawn reaper,
claude autoseed) and the wake notifier, a callback of the mailbox, run beside
them. They share the project records (whole-file load and save), the engine's
containers, the per-island mutexes of `projectLock`, and the stores of link,
policy, spawn, mailbox, events, secrets and ledger, each behind a lock of its own
that is held for one call only. No lock spans two stores. `AdoptExisting` aligns
containers with records before the daemon serves anybody (`dejimad/main.go`).

What makes each right, in one line:

- lifecycle: success replies are true; record and container agree when nobody is
  at work; panic stays in force; every handler ends; an island starts with its own
  data, and a failed creation takes down only what it made;
- snapshots: nothing is destroyed uncopied; success can be undone; no copy is
  forgotten; retention is bounded; a listed copy is whole;
- gate: at most one delivery, none after denial, expiry or restart; budgets kept;
  approvals recorded first; no stale authority; an approval means what was shown;
- agents: an id names one agent; who is dismantled is not written back; a grant
  bounds what is spawned under it and its revocation leaves none behind;
- mailbox: a poller is given its messages once and in order; ledger: what was
  acknowledged stays, and tampering shows; ports: nothing crosses without a scope
  and an entry; secrets: value, metadata and mount follow each other; webhooks:
  what is subscribed survives; schedules: what was made fires;
- monitors: no false alarm and no missed one; sessions: who is cut off hears of
  it; dashboard: what is shown and what is done is of the daemon and the pane
  that was asked.

## 2. What is modelled

In every module one action is one step between two points where another goroutine,
the engine or the user can act: a lock taken, a store called, a file written. An
engine or store call yields an outcome, success or not; failures and crashes count
against a bound of the constants. Variables commented `history` are what properties
compare with; no guard of the program reads them. A definition marked `\* mutant` is
a broken form of its neighbour, used only by the mutants of `PROJECT.json`. An
operator under "Claims of the sources that the code does not keep" is section 5's.

**`Lifecycle`.** `disk[i]` is the project record (`DesiredState`, and one bit `scope`
for every other field), `ctr[i]` the container, `flag` the `PANIC` file, `lock[i]`
`projectLock(name)`, `job[w]` a handler or loop iteration: its program counter,
the record in memory (`rec`) and the one it loaded (`base`). A handler is `Begin`,
`Lock`, engine steps, `Save`, `Reply`. `Bring` (create when missing, else start)
is shared by wake, schedules and unpanic. `LoadUnlocked` and `SaveUnlocked` are the
grant handlers, which take no mutex. `Crash` forgets jobs and mutexes; `Boot`,
`Adopt` and `Serve` are the next start. `Exit` and `EngineRestart` are the
environment's. A record is written atomically here; the code writes in place.

**`Provision`.** Create, clone, purge and live resource limits of several names
by handlers that each hold the mutex of one name, a clone that of its target only.
What a volume holds is the set of islands, by birth, whose data is in it. `req[r]` is
a handler with what it has in its hands. A teardown removes the container and each volume
one after the other, each of which may fail and is passed over (`stuck` names what
stayed); the engine refuses the name of a container that remains. A clone copies the
workspace, then the home, and a copy that fails leaves a part behind. `lossy` names the
records a save of which had failed.

**`HomeSnapshots`.** A volume is the set of pieces of work it holds. `resetIsland`
(down, copy, prune, clear, fill, create, save) and `restoreHome` (copy, prune,
down, ...) differ in `After`. `Work` is an agent writing at any moment, `Abort` an
error return or a crash. Snapshots are named by the order they were taken in: two
of one island within a second, which the code would name alike, are left out.

**`LinkBroker`.** One pair of islands. `granted`, `static`: the link store;
`exposed`, `agent`: the destination's record; `rules`: the policy store; `items`,
`seq`, `late`: the queue; `view`: the pending list last fetched. The gate reads two
stores one after the other and nothing holds either to the delivery.

**`Agents`.** The roster of one island, the session and worktree of each id, the
spawn grant, handlers under the mutex (`job`), and the goroutines that outlive them
(`bg`: cleanups and reconciliations). Agents are told apart by birth (`uid`), which
the program does not have: ids are given out again. `Load` revives an empty roster.

**`Sessions`, `HostTerminals`.** Websocket handlers with presence, revocation, the
restart registry and the update that waits for terminals, and the client that
reconnects; the registry of host terminals beside tmux, by id. The signal that stops the
daemon reaches its attach processes too, since the unit (`systemd.go`) sets no
`KillMode`: from then on each may die at any step (`PtyKilled`), also before
`CloseSessionsForRestart` has set the mark (the cause `early` of a connection).

**`Dashboard`, `Panes`.** The update loop, calls in flight beside it, and the
switcher that swaps the daemon under both; panes that open, ask, wait and are
closed while answers come in any order.

**`MailLog`, `Mailbox`, `Nudges`.** `MailLog` is the abstract promise (each poller
is given sent messages once, in order); `Mailbox` is the ring, the sequence shared
by all islands, the write that may fail, and polls in two locked reads; it is
checked and proved to implement `MailLog`. `Nudges`: arrival goroutines, pending nudges,
concurrent flushes.

**`Ledger`.** A hash is the sequence of what was hashed (with the key), equal
exactly when the inputs are. The file is its lines and whether the last is
terminated. The daemon's requests share one head and mutex; `dejima feedback` is
a second process with its own.

**`Secrets`, `Ports`, `Webhooks`, `Schedules`.** Each store with its locks as the
code takes them: `metaMu` and the mutex of a `Store` nobody shares (with the calls the
daemon died in as history, by secret, so that a crash excuses only those secrets);
scopes loaded before a trade, files hashed, recorded, read again and copied; a copy of the
subscriptions written after the lock; a scan without the mutex, a fire and a save
under it, a task typed in two keystrokes. Writes to the secrets store and of
`webhooks.json` may fail; `webhooks.json` is never half written. When a daemon starts and
`Load`s the subscriptions, the read of each signing key may fail or miss (`KeyOf`: a keychain
still locked): the subscription stays without a key and is delivered to unsigned, and
`unread` keeps which those are.

**`Watchdog`, `Heartbeat`.** The scan, query by query, beside `Lifecycle` (which
`Watchdog` extends); ages of reports and starts that saturate one past the grace, islands
purged and made again under their name, an engine that does not answer (a container
that does not run, to the heartbeat's scan), and `here`, the islands whose last report
reached the daemon that runs.

Coarser than the code, where nothing reads what is in between: `Secrets.ReadValues` reads
the values of an island in one step (`island.go` one after the other); `Lifecycle.TakeDown` is Status, Stop and Remove in one step, and a Status
that fails, which only skips the Stop, is not told apart; `Sessions.CheckLast` reads all presence
trackers at once, `Nudges.Add` adds a broadcast to all pending maps at once, and the
refusals of `Ports.BeginWrite` (paths outside of a scope, symbolic links) are by outcome only.

Components that share no state are run together: `MCAgents`, `MCDaemon`, `MCMonitors`
and `MCVolumes` hold several modules, a variable `part` says which one goes, and the
others rest. A part is an instance with bounds of its own, or the module itself
(`EXTENDS`) where the theorems of section 4 are about it: then the run checks the very
definitions that are proved: `MCDaemon` is `Ports`, `Secrets`, `Mailbox`, `Webhooks` and
`Schedules` themselves beside instances of the rest, and `Keeping`, `Hooking` and `Waking`
there say what its parts let happen to the secrets, the subscriptions and the schedules. `MCVolumes` is `HomeSnapshots` and `Provision` themselves, and
`Parts` there says how much of the second a part lets happen.

## 3. What the runs check

| run | bounds | shows |
|---|---|---|
| `lifecycle` | 1 island, 2 goroutines, 3 handlers, 1 failure or crash | `RepliesTellTruth`, `Agreement`, `PanicKeepsDown`, `HandlersFinish` |
| `homes` | `Keep` 3 as in the code, 5 snapshots, 2 pieces of work, 2 failures; below | `SuccessIsReversible`, `CopiesKept`, `ResetCopiesFirst`, `IslandsStandAlone` |
| `link_broker` | 2 requests, 4 edits, 2 goroutines, 2 actions, budgets 0 and 1, 1 fault | `DeliveredOnce`, `PolicyBudget`, `ApprovalOnRecord`, `NoStaleAuthority`, `ApprovesWhatWasShown` |
| `agents` | below | `WithinGrant`, `IdentityKept`, `ClientsHear`, `ScreenIsTrue`, `ActsAsAsked` |
| `ledger` | 2 requests, keyed, 5 entries, 3 faults of open, cut, crash | `ChainVerifies`, `AppendOnly` |
| `daemon` | below | `AccountsTell`, `SecretsFollow`, `TradesOnRecord`, `MailAnnounced`, `LogSpec`, `WebhooksDeliver`, `WakesKept` |
| `heartbeat` | grace 2, 2 restarts of the daemon | `SilentIsSilent`, `StalledAlerted` |
| `monitors` | below | `ReportsAreNews`, `ExitsReported`, `LoopsServe` |
| `no_lost_update`, `auto_start_under_panic`, `restore_returns`, `gate_agrees` | of their modules | section 5 |

Every passing run also checks one type invariant (`PartsTyped` in `agents` and
`daemon`; that of `Provision` is the first conjunct of `IslandsStandAlone`).

Parts of `agents`: `grants` (spawn, remove, revoke; 3 agents, 2 handlers at once, 2
changes of the grant, 1 failure or crash; `Agents` itself, the state machine that
is proved about), `moves` (add, move, remove, restart; 2 agents, 2 moves of the
environment), `detach`, `revoke` (an agent's terminal beside an island shell, one revocation), `restart`
and `resume` (2 connections; a signal that reaches the attach processes, an update, a network failure), `terminals` (4 requests, 3 ids), `rows`,
`polls`, `update` and `probes` (2 daemons, 1 switch, 1 or 2 questions), `panes`,
`scoping`, `granting` and `editors` (2 islands, 2 rows, 2 or 3 calls).

Parts of `daemon`: `cuts` (the ledger with a second process and closes that fail:
3 entries, 2 faults), `secrets` (2 handlers, 2 names, 2 values, 4 calls, with purges),
`keychain` (1 name and a webhook's key, 3 calls, the keychain goes and comes back),
`death` (1 name, 3 calls, 2 deaths of the daemon), `scopes` (2
directories granted, revoked, written and taken in; `Ports` itself, the state machine
that is proved about), `trades` (2 files, an edit, a failure; `TradesOnRecord` again), `mail` (ring of 2, 3 messages,
1 sent in another island, 1 fault), `nudges` (2 arrivals beside the ticker),
`hooks` (2 subscriptions without keys, 2 handlers at once, 1 death of the daemon), `signing` (1
subscription with or without a key, refusals, 2 deaths), `wakes` (2 schedules, one-shot or every tick, over 3 ticks, a failed start
or save or a restart), `tasks` (one with a task, and a hibernation or a turn of the agent's own).
Parts of `homes`: `home` (the snapshots), `clones` (creates, clones and purges by two
requests at once, 2 names, 2 births), `undone` (the same one at a time, with two failures: a removal and what meets its remains),
`seeds` (seeded creates and purges, a failure), `limits` (two requests, a failure and a
crash). Parts of `monitors`: `watch` (one handler, one engine restart), `due` (2
schedules, 3 ticks), `reap` (3 agents, spawn and self-reap).

Why the bounds are enough. Handlers of different islands share only `flag` and
the daemon's life, so one island with two goroutines has every conflict of two
handlers, and the third handler meets whatever state two left behind; one failure
reaches every error path, and each property about failures is about one. Five
snapshots with `Keep` 3 prune twice. Two requests compete for a budget of one, for
an id after a restart, and for two goroutines. Three agents are a parent, its child
and one more that takes an id again; two changes of a grant are one to take and
one to revoke. Three messages overflow a ring of two. Where a theorem of section
4 covers the property the bounds carry no weight. Deadlock checking is off where,
with the bounds used up, the system stops; `heartbeat`, which goes on for ever,
keeps it on. Symmetry is used in runs whose properties are invariants or the
action properties that do not name the symmetric values.

Fairness. `lifecycle` (`HandlersFinish`): weak on each goroutine's steps, because Go
schedules a runnable goroutine and every engine call is bounded by a context or
returns; strong on taking a mutex, because `sync.Mutex` hands itself to a starving
waiter; weak on the start sequence, which adopts under a timeout. `monitors`: weak
on scans, ticks and the steps of handlers, strong on the mutex. `heartbeat`: strong on
the clock, which a scan or a handler only delays, weak on the scan and the handler, strong
on a judgment with an answer of the engine, which is asked every minute and does not fail for ever.
Nothing is assumed of agents, clients, users, engine restarts or crashes.

Every property of a passing run is shown to fail on a mutated definition (`mutants`):
a lock taken at once, an id by length, a revocation outside the lock, pruning the
newest, a take that leaves the entry, a budget never saved, and so on.

## 4. What is proved

By TLAPS, for every value of the constants; each property is the one its run checks.

| module | theorem | statement |
|---|---|---|
| `LinkBrokerProofs` | `TypeCorrect`, `DeliversOnce`, `KeepsBudget`, `ApprovalsOnRecord`, `AuthorityIsFresh`, `ShownIsApproved` | `TypeOK`, `DeliveredOnce`, `PolicyBudget`, `ApprovalOnRecord`, `NoStaleAuthority`, `ApprovesWhatWasShown` are invariants |
| `LifecycleProofs` | `TypeCorrect`, `RepliesAreTrue`, `IslandsAgree`, `PanicHolds` | `TypeOK`, `RepliesTellTruth`, `Agreement` are invariants; `Spec => PanicKeepsDown` |
| | `LockedHandlersSerialize`, `OneHolder` | what a handler under the mutex saves derives from the record on disk, or from one a grant handler overwrote; no two handlers hold one mutex |
| | `WatchdogOnlyWatches`, `WatchTypeCorrect`, `ReportsAreTrue` | `WatchSpec => Init /\ [][Next]_vars`, so what is proved of the lifecycle's safety holds beside the watchdog; `WatchTypeOK`, `ReportsAreNews` are invariants of it |
| `VolumesProofs` | `TypeCorrect`, `Reversible`, `CopiesAccountedFor`, `ResetDestroysNothing` | `TypeOK`, `SuccessIsReversible`, `CopiesKept` are invariants; `Spec => ResetCopiesFirst` |
| | `IslandsTyped`, `DataStaysOwn`, `ClonesHold`, `IslandsApart` | `ProvisionTypeOK`, `DataIsOwn`, `CloneHolds` and the whole of `IslandsStandAlone` are invariants of `ProvisionSpec` |
| `AgentsProofs` | `TypeCorrect`, `IdentitiesKept`, `GrantBounds` | `TypeOK`, `IdentityKept`, `WithinGrant` are invariants |
| `LedgerProofs` | `TypeCorrect`, `TerminatedLinesStand`, `AloneVerifies`, `TamperingShows` | `TypeOK`, `TamperEvident` are invariants; `Spec => AppendOnly`; `Alone` implies that `ChainVerifies` is one |
| `DeliveryProofs` | `KeepsThePromise` | `MailSpec => LogSpec`: `Mailbox` implements `MailLog` |
| | `TypeCorrect`, `MailIsAnnounced` | `MailTypeOK` (part of `PartsTyped`) and `MailAnnounced`, by `RingStaysInOrder` and `PollsPassNothingElse`, are invariants |
| | `WakesTypeCorrect`, `WakesAreKept` | `WakesTypeOK`, `WakesKept` are invariants of `WakesSpec` |
| `HeartbeatProofs` | `TypeCorrect`, `HeardIsNotSilent` | `TypeOK`, `SilentIsSilent` are invariants |
| `StoresProofs` | `TypeCorrect`, `TradesAccountedFor` | `TypeOK`, `TradesOnRecord` of `Ports` are invariants |
| | `SecretsFollowEachOther` | `SecretsFollow`, all of it, is an invariant of `SecretsSpec` |
| | `HooksTypeCorrect`, `SubscribersAreServed` | type correctness; `WebhooksDeliver`, all of it, is an invariant of `HooksSpec` |

Assumptions, all `ASSUME`s that TLC evaluates on the runs: bounds are natural numbers
(the grace, `Keep` and `MaxBorn` positive); the value for a free mutex is no
goroutine; there is an island; requests and commands of the ledger are disjoint and
faults are among the four kinds; host directories are finite and the value for
"nothing" is no directory or file; the host is not its mate, and `None` is neither of
them, no name, handler, record, container or data (`OwnersApart`); destructive actions are actions, a plain message is
none, there is a topic; the operations are among those there are; names of secrets,
handlers and subscriptions are apart from each other and from the values for no value
and nobody; event types in the catalog are not outside of it; the broadcast address is
no reader, pollers are readers, and the ring, the limit of a poll and the messages are
positive; the periods of schedules are numbers. `AloneVerifies`
has a hypothesis, `Alone == Commands = {} /\ "close" \notin Faults`: only the daemon
appends and a written file closes. Both are needed: with either of them TLC finds
ledgers that do not verify (`OneOwner`, section 5), which is why run `cuts` checks
only `AccountsTell`.

None of the properties is inductive; the strengthening (`IInv`, in `LedgerProofs`
`Inv` and `Sound`), each checked by TLC before it was proved, says why not:

- *Provision* (`ProvisionTypeOK`; for each request `Route`, `Holds`, `Told`, `Sources`; for
  each name `Left`). `Route`: an operation is only where its kind goes. `Holds`: past the
  mutex a request owns it and the record is there, of its birth, with no scope it did not
  grant; so what it found when it took the mutex stays, and the steps of the others are
  one lemma (`Apart`): they touch names of their own. `Told` is what a reply says,
  true until the handler lets the mutex go. A clone does not hold its source's mutex:
  `Sources` says that what the source held when the clone began is in it or in the clone,
  or the source's volumes were removed, and then nothing comes to be in them any more
  (`Gutted`). `Left`: a name without a record has no container and no data, unless the removal of it
  failed (`stuck`); `Cloned` and `Drawn` say which of the two volumes of a clone has come, and from whom.
- *LinkBroker* (`TypeOK`, `Owned`, `PathOK`, `Recorded`, `Seen`, `Spent`, `Shown`). A
  request that is not delivered is in one place only, with one handler or under one
  id; past `Record` the entry is there or its append failed; what a handler has read
  was there since it began (both reads of an approval come after `Approve`, so the
  check at the request carries no weight); a rule counts what it was charged.
- *Lifecycle* (`TypeOK`, `Walking`, `Knowing`, `Settled`, `Booting`). `Walking`: a
  handler past `Lock` owns its mutex, and what it holds fits where it is. `Knowing`:
  for each place, what the handler knows of the container, which nobody else moves
  but the environment. `Settled`: a free, even island agrees. `Booting`: a daemon
  that starts has no handlers, and what is adopted agrees.
- *Watchdog* (`WatchTyped`, `Edges`, `Climbs`, `ReportsAreNews`, beside the lifecycle's `IInv`).
  `Edges`: an island noted as up that is not running now has gone down since it was last
  reported, also between the query and the report. `Climbs`: while no query failed, a
  count above the noted one was raised by the engine.
- *HomeSnapshots* (`TypeOK`, `Path`, `Numbered`, `Holding`, `Accounted`, `Short`, `Whole`,
  `Quiesced`). The copy of the handler is the newest, so pruning spares it while `Keep`
  is positive; a volume with work is listed, in the handler's list, or failed; a reset
  clears only after the container is gone, when nobody wrote since the copy.
- *Agents* (`TypeOK`, `Walking`, `Numbered`, `DismantledIsGone`, `Capped`, `Charged`,
  `Revoked`). Whoever is past the mutex works on a copy of the roster that is the one
  on disk; ids and births on it are distinct; `Charged` counts: agents saved under the
  grant, less what it has counted, is one for each handler that has saved and not yet
  counted and one for each failure in between; `Revoked`: after the revocation's read
  no ephemeral agent enters. The count is by cardinalities of sets of handlers.
- *Ledger* (`Typed`, `Locking`, `Numbered`, then `Computed`, `InOrder`, `Kept`, `Settled`,
  `Unclosed`). A chain is as long as its sequence number, so numbering and chaining
  are one argument; the holder of the mutex works from a head nobody else moves;
  when the file is readable that head is the file's, and what was acknowledged is a
  subsequence of it.
- *Mailbox* (`TypeOK`, `Stored`, and for each reader `Promised`, `Reached`). A restart that
  lost writes gives numbers out again, so a cursor may lie ahead of the counter, and no
  argument from the counter holds. What does hold is `Newer`: whatever is retained past
  a cursor, in memory or in the file a restart would load, was sent after everything the
  reader was given. It is kept because an append is newer than all before it, and
  because the second read of a poll takes a number that nothing retained exceeds. Of
  an answer the refinement then needs that it ascends and that the cut into hidden and
  shown keeps its order. `Reached`: a poll under way accounts for each message between
  its cursor and the one it will hand out; it needs that a file with the counter's
  number has the ring (else a restart lost numbers, and `regress` says so).
- *Secrets* (`Walking`, `OnOne`, `Shows`, `ShowsTrue`). `Walking`: what a handler has in
  its hands at each step of its call, and that only the holder of `metaMu` is at one that
  changes anything. `OnOne`, while the keychain has not come or gone: with the keychain the
  file stays empty and nobody is about to fill it; without it, whoever is to replace the
  file has its content, because he holds `metaMu` and the webhook manager has not used
  the store (`Backend`); and what the holder has done to the store is what he will write to the
  metadata (`Done`). `Shows`, `ShowsTrue`: of the handlers that have read the names only the last,
  whose number is `reads`, can make the mounted file count, so reading the names again
  forgets all that the others have; its names and values are right except for secrets of which a
  change is under way, waits to be shown, or died (`Listed`, `Moved`).
- *Webhooks* (`Carries`, `Alone`, `Genuine`, `LastCopied`, `Wired`). `Genuine`: memory and file say of
  an identifier what it was subscribed with (and copies, in `Carries`), so it does not
  matter which of them a restart loads, and its key is there; that needs `Alone`: an
  unsubscription drops no key of an identifier that is still on its way in. A subscription that has no key
  though it was given one is among the `unread`. `LastCopied`:
  the last copy is of the map as it is, or a handler that changed it has its copy still to
  take; a restart loads the file, and then the file is right whoever wrote it.
  `Wired`: no two deliveries, under way or arrived, are of one event and subscriber.
- *Schedules* (`WakesTypeOK`, `Numbered`, `Collected`, `WakesKept`). An identifier is given
  out again once the schedule that had the largest is gone, so the argument goes by keys,
  which are not; `Numbered`: no identifier is past its key, which bounds `NextScheduleID`, and
  lemma `NextIdIs` shows that it is free. `Collected`: while the scheduler starts and saves
  under the mutex, what it fires and what it will save are those of the record as it stands,
  so a save neither brings back nor drops anything but what it fires (`KeptIs`). A recurring
  schedule was due at the time of the scan and is next due a period after it.
- *Heartbeat* (`TypeOK`, `Remembers`, `SilentIsSilent`). The daemon that runs remembers a report of
  exactly the islands whose last report reached it (`here`), as old as the report is; so it
  is after any number of restarts, which empty both, and after purges and new islands of a name.
- *Ports* (`TypeOK`, `Fits`, `Backed`, `TradesOnRecord`). `Fits`, for each request: what
  it loaded has distinct names and directories, a write's directory was granted, past
  the ledger there is an entry of its own, and what it counts as done crossed; `Backed`:
  each scope of the record was granted. Lemma `NameIsFree`: `uniqueScopeName` finds a
  name that no scope has, within the number of directories, by the pigeonhole principle.

What attempts at proof changed in the models: `FirstStep` of `Agents` had a `CASE` with
overlapping guards for a move or removal of an agent that is not there (TLC took the
first), and is now an `IF`; `Without` of `Agents` and `Visible` of `Mailbox` were
`SelectSeq`s, about which the provers know nothing, and are now sequences by ranks; a
bound on `given` of `Mailbox` went, since the proof shows that no message is in it twice; the assumptions on constants became
`ASSUME`s; and the bounds on what is not counted had to name the failures that cause
it, in `Charged` and in `CopiesKept`. `CloneHolds`
of `Provision` was false once a source is purged during the copy and its name made anew
(three births; the run allows two): it now speaks of a source whose name is still that
island's (`Sourced`). The properties of `Secrets` excused everything once the daemon
had died, or looked only at moments without handlers; none of that was an argument by
induction, and they now say of each secret which changes of it excuse what. `SignedDelivery` of
`Webhooks` held in runs without unsubscriptions or without deaths only; it now holds with
both, and excuses the identifiers that a death brought back (`revived`) and those whose key a start
could not read (`unread`). The parts of `Schedules`
were two instances with their own constants and are now one module under bounds, and its claim
`OneShotFiresOnce`, which spoke of runs without periods only, speaks of every one-shot. And `None`
of `Provision` had to be kept apart from records, containers and data, which its types
did not say.

Only model-checked, and why:

- liveness (`HandlersFinish`, `ExitsReported`, `LoopsServe`, `StalledAlerted`): fairness
  and `ENABLED` are out of the prover's reach;
- `OneLostPerCut` of `AccountsTell`, which counts lines of a file of any length;
- `NudgesConserved` of `AccountsTell`, which sums the nudges in the hands of flushes: a fold over a set is
  recursive, and what it computes is known by induction over the set only;
- the properties of `Sessions`, `HostTerminals`, `Dashboard` and `Panes`: within reach,
  not done (section 7).

## 5. Where the code differs from what it says

With a run and a finding:

- `no_lost_update`: the port, capability and host-credential handlers save the whole
  record without the mutex; a concurrent hibernate is undone on disk, and a
  concurrent purge brought back (`port.go`).
- `auto_start_under_panic`: wake-on-message and schedules do not look at the flag,
  although "engage stops every island and blocks auto-restart until cleared".
- `restore_returns`: restoring the oldest snapshot of a full list prunes it first and
  succeeds with an empty home.
- `gate_agrees`: the identity gate of a create resolves the GitHub identity of the
  caller, the container is made before the record has an owner and mounts another.

Without a run of their own: claims that TLC refuted while the models were written.
Each is an operator at the end of its module (or of `MCAgents`, `MCDaemon`, for a claim about
a part), with the sentence it quotes; check it as the only `INVARIANT` (or
`PROPERTY`) under the cfg of the run of its module, without its `SYMMETRY`, to see the behaviour. A
bound that has to differ is named. First those that a property of section 3 excuses or exempts, so
that the property is not taken for more than it says:

- `UnpanicHonoursIntent` (`Lifecycle`; `panic.go:115`): unpanic acts on records listed before it
  waited for the mutexes, and starts an island that was hibernated or purged meanwhile.
  `Agreement` exempts the islands this leaves behind.
- `ResetIsReversible` (`HomeSnapshots`; `server.go:3399`): a reset that fails or dies after the
  clear does not save the list, and no record names the copy. `SuccessIsReversible` is about those that succeed.
- `PurgeRemovesEverything` (`Provision`; `server.go:3241`): a volume that could not be removed is passed
  over, the purge says 204, and the next island of the name has the data. `IslandsStandAlone`
  excuses what is `stuck`.
- `CleanupHitsItsOwn` (`Agents`; `server.go:1684`, `project.go:272`): the detached cleanup goes by an id
  that was given out again, and kills the session of the agent that has it now.
- `CursorSkipsNothing` (`Mailbox`; `mailbox.go:144`): a message between the two reads of a poll is
  behind the cursor and was not shown. `MailAnnounced` bounds what is skipped to that gap.
- `CursorSurvivesRestart` (`Mailbox` with `MaxLosses = 2`; `mailbox/mailbox.go:154`): after a write that
  failed and a restart, numbers are given out again under the cursors of pollers.
- `OneOwner` (`MCDaemon`, part `cuts`; `feedback.go:276`): the head the daemon remembers is stale
  once `dejima feedback` has appended, and the chain does not verify.
- `RotationMounted` (`Secrets`; `island_secrets.go:122`): the handler that read first may mount last.
- `CrossedAsHashed` (`MCDaemon`, part `trades`; `port_trade.go:111`): the file that crosses is read again after
  it was hashed. `TradesOnRecord` compares no contents.
- `FileHoldsSubscriptions` (`Webhooks`; `events/manager.go:141`): the copy taken first may be written
  last. `WebhooksDeliver` is about files that were not overtaken.
- `SigningSurvives` (`Webhooks`; `events/manager.go:106`): a key that cannot be read when the daemon starts,
  as with a locked keychain, is gone for this daemon, and it delivers unsigned to a subscriber that
  gave a secret. `WebhooksDeliver` excuses these (`unread`) by load and identifier, as it
  excuses what a death brought back (`revived`).
- `SilentPastGrace` (`Heartbeat`; `heartbeat_monitor.go:100`): a restarted daemon alerts an agent that
  reported a moment ago. `SilentIsSilent` is about reports to the daemon that runs.
- `RestartIsTransparent` (`MCAgents`, parts `restart` and `resume`; `systemd.go:165`): an attach process
  killed by the signal, whose handler judges before the mark is set, ends the client.
  Of what a restart does to a client `ClientsHear` excuses only this (`early`).
- `RevokeDropsEvery` (`MCAgents`, part `revoke`; `server.go:387`): island shells and host terminals have no
  presence, and no revocation reaches them.
- `KillsItsOwn` (`MCAgents`, part `terminals`; `hostterm.go:120`): the id of a deleted last terminal
  is given out before its session is killed by that name.

The others:

- `HomeSnapshots`: `RestoreCopiesFirst` (the copy is taken while agents write).
- `Ledger`: `AlarmMeansTampering`, `AcknowledgedReadable` (a cut or unclosed line),
  `DeletionDetected` (the last line).
- `Agents`: `LastAgentStaysRemoved` (`add`, `remove`), `GuardHolds` (`MaxEnv` 2), `EveryAgentLaunched`,
  `NoGhostSessions`, `NoOrphansAfterRevoke`, and `ReapsOnlyTheExited` (part `reap` of `monitors`).
- `Watchdog`: `AskedStopsSilent`, `PanicStopsSilent` (a scan reads the record before a handler
  stops the island and the container after it, and calls it a crash), `EveryExitReported` (an exit between
  two scans, of an island none of them saw running).
- `Heartbeat`: `GraceAfterStart` (some starts write no `LastUsedAt`), `RecoveredMeansBeat` (a
  container that stops counts as a recovery).
- `Sessions`: `DetachEndsClient`, `LastMeansNone` (two clients of different agents leave at once),
  `GateSeesTerminals` (shells have no presence; one in `Shells` and `MaxUpdates` 1),
  `RestartSparesTerminals` (who attaches while the update is prepared).
- `HostTerminals`: `EveryShellListed` (a deletion between the registry and tmux).
- `Dashboard`: `TerminalsCurrent` and `HelpIsTrue` (replies without a stamp of the connection),
  `ForceWhereRefused`, `AppliedMeansApplied` (the reply of another daemon), `LabelNamesClient` (`Env` a
  host and `MaxGen` 2: the header is resolved anew, the client is not).
- `LinkBroker`: `DestructivePrompted` (a rule executes a destructive action).
- `Mailbox`: `HintReachesHeld`. `Nudges`: `NeverMidTurn`, `NotIntoNothing`, `LearnsOfMail`.
- `Webhooks`: `NoTypeRefused`.
- `Secrets`: `KeychainAuthoritative`, `StoredStays` (with webhooks), `GoneWithIsland`,
  `NoUnreadableMeta`: a store and a mount without a common lock.
- `Schedules`: `OneShotWakes`, `OneShotFiresOnce`, `TaskAtBoundary`,
  `NotIntoBootingTerminal`, `NeverSilentlyDropped`.
- `Ports`: `IntakeHashTrue`, `ExportHashTrue` (part `trades`), `RevokeIsDenyAll`,
  `RevokedStaysOut` (part `scopes`).
- `Provision`: `OwnerStamped`, `CloneIsCopy`, `SeedScopeGone` (`Ops` without "keep", `MaxFailures` 2),
  `LimitLive`: parts of `homes`.
- `Panes`: `GrantsShowOwn`, `RecreateWhereNeeded`, `BaselineIsOwn`, `RestartAfterChange`,
  `ListIsCurrent`, `ImportScopeExists`, `TypeBeforeLabel`.

## 6. What is not modelled, and why

Access control (a table of routes and constant-time comparisons: decisions of one
step), the MCP broker (protocol translation and processes), the egress proxy (an
allowlist in front of a TCP proxy), bridge, SSH facade and local API (byte streams),
local models, voice, paste and usage (wrappers of programs), support packages (paths,
tables, parsing), SDK, image, packaging and site. Provider and agent credentials are
single files under one lock. Of the CLI, rendering, layout and the commands that
print one reply are left out; of self-update, the installer. `PROJECT.json` gives
each component its reason, and a hazard no property covers has a note.

## 7. Plan

1. Proofs for the other parts of `MCAgents`: `Sessions`, `HostTerminals`, `Dashboard` and
   `Panes`, which their instances bound.
2. The composition of `Lifecycle` and `LinkBroker`: what a purge leaves behind for the
   next island of the name (the open hazard of `server.go:3236`).

## 8. Running

    tlc -workers 2 -config MCLifecycle.cfg MCLifecycle
    tlapm AgentsProofs.tla
