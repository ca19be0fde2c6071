# Teleprompter: TLA+ specifications

Teleprompter runs Claude Code sessions on a developer's machine and mirrors them
to a phone. Paths below are relative to the repository root.

```
 command line ──IPC──┐
 runner ─────IPC──> daemon <──WSS──> relay <──WSS──> app
 (per session)      (per user)       (shared)        (iOS, macOS, watch)
```

Everything between daemon and app is end-to-end encrypted; the relay routes
ciphertext, and is the part every pairing depends on. The specifications cover the
relay, the daemon, the runner, the app's client and stores, and the commands that
change state.

## 1. Inventory

| Part | Keeps | Operations | Talks to |
|---|---|---|---|
| relay registry, `rust/tp-relay/src/registry.rs` | registrations, token index, daemon states (online, last seen, sessions, attach counts) | register, auth, resume, disconnect, attach, publish, ping, stale sweep | called by the core under its lock |
| relay cache, `ring.rs` | recent frames per (daemon, session), insertion order | push, replay after a cursor, purge | core |
| relay core, `server.rs`, `handshake.rs`, `conn.rs` (`dispatch_locked`) | connections, groups, group rate limiters, registry and cache, behind one mutex | one critical section per client message, close and sweep; each returns messages to deliver | daemons and apps |
| relay delivery, `conn.rs` (`connection_loop`, `deliver_actions`, `close_conn`) | per connection a read loop, a write task, a bounded outbox and a close channel | deliver outside the lock, cut off slow consumers, tear down | all connections |
| relay push, `push.rs`, `apns*.rs`, `push_seal.rs` | dedup and rate windows | socket or APNs, retries, verdicts about tokens | Apple, daemon's notifier |
| daemon relay client, `rust/tp-daemon/src/transport/relay_client.rs` | socket, generation, resume token, peers and their keys, subscriptions | connect, authenticate, key exchange, publish, reconnect, dispose | relay; one per pairing |
| relay manager and pairing, `transport/relay_manager.rs`, `pairing/`, `daemon.rs` | pool of clients, the pending pairing and its owner, stored pairings | begin, join, promote, cancel, remove, rename, reconnect saved | clients, store, command line |
| daemon sessions, `ipc/command_dispatcher.rs`, `session/`, `store/`, `worktree/` | runners by session, rows, record logs, worktrees | hello, records, bye, create, stop, restart, delete, prune, attach, resume | runners over IPC, clients to the app |
| daemon process, `daemon_lock.rs`, `ipc/server.rs`, `bin/tp_daemon.rs` | pid file, socket and its heal timer | acquire, bind, heal, stop | command line, service manager |
| notifier, `push/notifier.rs` | push tokens in memory and in the store | register, notify, evict | relay push |
| runner, `rust/tp-runner/src/` | PTY child, hook socket, IPC connection | one `select!` loop, two threads | daemon |
| app client, `ios/Sources/Relay/RelayClient.swift` | socket task, key pair, session keys, cursors, reconnect timer | connect, authenticate, key exchange, attach, resume | relay; one per pairing |
| app session store, `ios/Sources/Session/SessionStore.swift` | chats, cursors, tool cards | append, batch | app client |
| app pairings, `ios/Sources/Pairing/`, `TeleprompterApp.swift` | keychain blobs shared by iCloud; pointers, tombstones, pending pairings per device; watch mirror | scan, confirm, promote, hide, remove, reconcile, adopt | other devices |
| command line, `rust/tp-cli/src/` | locks, service files, shell start-up files, installed binaries | ensure a daemon, pair, delete, prune, clean up, rename, install, upgrade | daemon over IPC, launchd |

Hard behaviours, each listed at its line under `hazards` in `PROJECT.json`: tasks
that act on what they saw under a lock they no longer hold; connections removed by one
task while another still reads from them; sockets, timers and processes that are
superseded but not yet gone; messages the relay does not keep and items iCloud
reorders; resume tokens and pid files that outlive what they stand for; bounded queues
that drop; several files that must change together; commands whose listing is old when
the user confirms.

What makes each part correct:

* **registry**: a token authenticates exactly the daemon that registered it, through
  rotation and eviction; the cap holds; an id does not change hands.
* **core**: a frame reaches exactly the subscribers in its group; a group has one rate
  budget; apps know whether their daemon is there.
* **delivery**: order is kept; a consumer that lost a frame is cut off; nothing blocks; a
  close code is sent (it may not be: section 6).
* **key exchange**: both ends use the app's newest key once it has arrived.
* **daemon client**: one chain of attempts, which comes back; none after dispose.
* **pairing**: a pairing is stored only when an app joined; what is stored is served.
* **sessions**: rows, logs, runner map and worktrees agree whatever order things end in.
* **runner**: output before exit, the bye last, and it ends unless the terminal holds it.
* **push**: bounded overshoot, no push to a closed socket while APNs is there, no dead
  token comes back.
* **lifecycle**: one daemon (there may be two: section 6), which can be reached; an upgrade
  is whole or undone.
* **app**: the chat is in order and repeats nothing, and gets what one batch per request
  brings (it need not be complete: section 6); a pairing is neither lost nor shown after it
  was hidden.
* **commands**: what is deleted was confirmed, what is reported deleted is gone.

## 2. Modules

| Module | Models | Run |
|---|---|---|
| `RelayRegistry` | `registry.rs`, one action per method | `core` |
| `RelayRing` | `ring.rs`, as operators on a record of buffers and order | `core`, `catchup` |
| `RelayCore` (extends `RelayRegistry`, instantiates `RelayRing`) | everything behind the relay's mutex; one action is one critical section | `core` |
| `RelayDelivery` | what happens between critical sections | `delivery`, `close_code` |
| `KeyExchange` | the exchange between daemon client, app client and relay | `app_keys` |
| `DaemonClient` | one pairing's connection in the daemon | `client` |
| `RunnerLife` | abstract: what a runner may write to its connection | `runner`, `sessions` |
| `Runner` | a runner process; implements `RunnerLife` | `runner` |
| `Sessions` (its runners send what `RunnerLife` allows) | dispatcher, session manager, store, worktrees | `sessions` |
| `PairingContract` | abstract: offer, join, accept, withdraw, remove, restore | `pair_commands` |
| `Pairing` | orchestrator, watcher, manager's pool, rows, `tp pair`; implements `PairingContract` | `pair_commands` |
| `Push` | notifier, relay push service, APNs client | `push` |
| `DaemonLifecycle` | pid file, socket, `ensure_daemon`, launchd service | `upgrade`, `one_daemon` |
| `Upgrade` (extends `DaemonLifecycle`) | `tp upgrade` | `upgrade` |
| `Catchup` (extends `RelayRing`) | records from the daemon's log to the app's chat | `catchup` |
| `AppPairings` | pairings on several devices | `app_keys` |
| `Completions` | the marker block in a start-up file, as operators | `pair_commands` |
| `Commands` (extends `Completions`) | deleting and renaming commands against the daemon's handlers | `pair_commands` |
| `RelayCoreProofs`, `RelayDeliveryProofs`, `DaemonClientProofs`, `RunnerProofs`, `SessionsProofs`, `PairingProofs`, `AppProofs`, `CommandLineProofs` | theorems about the modules they extend | TLAPS |
| `MC*` | instances for TLC | |

`MCPairCommands` and `MCAppKeys` each hold two specifications that have no variable in common;
in each, one moves while the other is where it started, so that one run checks both.

**RelayRegistry.** Rust's maps are total functions with `None`, or membership in
`known`, for an absent key. The code keeps `last_seen` and compares `now - last_seen`
with two timeouts; the model keeps that difference, `quiet`, which saturates above
both. `RegistryNext` lets callers make any call in any order, so what holds of
`RegistrySpec` does not depend on the core. Token and proof bytes are model values, and
`Credentials` says which triples pairings hand out: a token belongs to one daemon
because it is derived from that pairing's secret.

**RelayCore.** A connection is `open` while it has a handle, and `removed` when another
task took the handle but its read loop still takes messages, which is how the relay
closes slow or stale peers. `out` holds what the last critical section returned for
delivery. `Clients` gives the identities a connection's peer may present; `Reauth` says
whether a peer may authenticate more than once on a connection. The relay allows that,
the real clients never do it; the theorems about types, groups and limiters cover the
former, the properties about group contents need the latter.

**RelayDelivery.** Each read loop runs `deliver_actions` itself, with nested calls on
`stack`, because `close_conn` delivers presence recursively. The sender is cloned under
the lock (`GrabSender`) and used after it (`TrySend`); `close_conn` removes the handle
under the lock (`CloseConn`) and queues the code after it (`CloseConnSend`, `window`).
The write task's biased select is modelled poll by poll, as the runtime has several threads: it
finds a code in the close channel (`WriteClose`) or finds none (`WriterLooks`), and only then
looks at the outbox, where it finds a message (`WriteMessage`), nothing (`WriterWaits`) or that
all senders are gone (`WriterStops`). Between the two polls anybody may act.
Routing is reduced to one daemon's frames 1, 2, ... to subscribed frontends; a frontend may
subscribe after any frame, since the cursor it sends is its own affair.

**KeyExchange.** An app key names a session key: the daemon's key pair is that of the
pairing and never changes, the app makes one per exchange; `KxServerSessionKeys` and
`KxClientSessionKeys` give each direction's key as a pair of names. Messages under way
are a sequence per direction of a connection (WebSocket order). `lost` is history: a kx
of the app's current pair was lost. A daemon that got `auth.err` is `shut`: `close_socket`
drops the sender, the reader waits for the relay.

**DaemonClient.** One action is what a task does under one acquisition of the client's
locks: `connect` in its steps, a read loop per generation, one timer, `dispose` in its
steps, `subscribe` and `unsubscribe` calls. Generations are numbered modulo `Gens`, as the
code only compares them; a number is used again when nothing holds it. `sock[g]` is the
socket and the relay's side of it. The relay may drop what it is asked (`RelayThrottles`, for
`RATE_LIMITED` and `TOO_MANY_SUBS`); the client only logs that, and `refused` remembers which
subscriptions it concerned.

**Runner.** What runs between two awaits is one action, since the runtime has one thread;
the terminal's reader and waiter are threads and interleave freely. `notified` belongs to
the loop's current `closed()` future: an arm that is not taken drops the future and the
notification with it. `lost` is history for output that the bounded channel or the late
reader dropped. Input from the daemon is written to the terminal inside the loop, with a blocking
call: while `pc` is "writing" nothing else on the thread runs, and the write returns (`PtyWritten`)
when somebody has read the terminal or it is closed.

**Sessions.** Store and runner map have a lock each, taken anew for every call; a handler
is therefore a sequence of actions (`handler`, `op`), and everything else may happen in
between. A row is `none`, `running` or `ended`: no decision tells stopped from error. The
state survives `DaemonRestarts`, which runs the daemon's start-up reconciliation. `excused`
is history for two known gaps (a restart that could not spawn, an older runner's bye that
unregisters its successor), see section 6.

**Pairing.** The orchestrator's lock is held across awaits and is a variable; begins queue
for it. A relay client is named by its daemon id and its maker, so that two clients of one
id can be told apart, as `Arc::ptr_eq` does. `PairingContract` is instantiated with the
pending slot as `offer` until the promotion has begun, and with the rows as `stored`.

**Push.** A blob names the device token and the version of the relay's sealing secret. A
relay task goes through re-check, APNs and commit in steps; dedup and rate windows are read
before APNs and written after it. Time is a small clock; the cleanup timer (`RunCleanup`) may
run at any of its ticks, late ones included. Saving, deleting and loading tokens may fail, which
the code discards; `slipped` is history for the apps whose last store call failed.

**DaemonLifecycle, Upgrade.** One system call a step. A file is named by the process that
made it, which stands for its inode. Time-outs of polls are choices. The upgrade starts when
the daemons are settled and they rest until it restarts the service, as the swap of files
shares nothing with them but the binary that is executed next.

**Catchup.** Records are published by tasks that run in any order; replay, live frames and batches
share the app's socket. Frames open only under the key they were sealed with. The app may join
before the pairing's client is in the manager's pool (`pooled`): `RegisterClient` is the
promotion, and until then the manager finds no client and sends no hello; `heard` is what that
client is subscribed to. Every key exchange sets a fallback timer, which fires once and does
nothing when there is a hello or are no keys; so `fallback` counts the timers between an exchange
and its hello, and any of the earlier ones may still be among them (`OnKx`, `HelloFallback`).
`asked` is where the app's last resume of a session began, and `Reach` how far one batch from
there goes: no second request follows a full batch. State frames of `Meta` are cached like records
and count against the cap on keys.

**AppPairings.** A device's view is the record `[kc, hid, ptr]` its `PairingStore` works on;
the store's operations are operators on views, the actions are those of the view model and
of the watch's bridge. `Sync(d, p)` delivers one keychain item to one device. Clocks agree
and no two commits have the same time.

**Commands, Completions.** `cmd[c]` is a command of `Cmds` and where it is. It lists from the
database, asks, sends one request per connection and waits; the handler of a request that timed out
goes on (`jobs`). Ids, labels and what is typed are sequences of pieces, because prefixes decide.
The list of stopped sessions is in any order that has the ones touched recently first
(`StoppedSorted`), as the query's order among equals is SQLite's. The start-up file is a sequence of
pieces, among them the block's `start` and `end` and single newlines; its last line may be open, and
install ends it (`EndLastLine`). `scope` is history: the sessions that the flags and the question of
a prune meant when the daemon looked (`InScope`), which is said in terms of rows and ages and not of
the handler's query.

## 3. Runs

Distinct states as found by TLC with two workers; the passing runs take between 20 seconds
and a little over three minutes.

| Run | Instance | Shows |
|---|---|---|
| `core` | two pairings, room for one registration; c1 is daemon 1, c2 an app of either, c3 daemon 2, or daemon 1 again, or a second app; resume, sweep, restart (132,558) | `GroupsAreLive`, `OnlineHasDaemon`, `PresenceAnnounced`, `FanOutExact`; refinement `RegistrySpec` |
| `delivery` | a daemon, an app, outbox of 1, close channel of 4, 2 frames and a replay from any cursor (4,602,720) | `CloseNeverBlocks`, `LossLeadsToClose`, `LiveFramesInOrder`; no deadlock before everything has ended |
| `client` | one session, 6 generations, queue of 3, throttle after 2, 2 faults or refusals (260,127) | `OneChain`, `DisposedIsDeaf`, `WantedAtRelay`; liveness `ComesBack` |
| `runner` | 3 chunks, a hook, an inbound message, channels of 3 and 2 (275,221) | `OutputBeforeExit`; refinement `RunnerKeepsPromise`; liveness `RunnerEnds` |
| `sessions` | one session, in a worktree or not, two processes, one client's commands (4,118,844) | `LastSeqInLog`, `RunningHasRunner` |
| `push` | one app, one event, two pushes at a time, limit 1, window 1, 1 retry, 1 fault (510,696) | `OvershootBounded`, `RowsAreLoaded`, `ClosedSocketFallsBack`; liveness `PushEnds` |
| `upgrade` | two processes, a command, the service, a bundle of three members of which one is new, or a single binary, 1 fault (641,778) | `AllOrNothing`; liveness `SpawnIsReached`, `SocketHeals` |
| `catchup` | two sessions, two records in all, cache of two keys, batches of 1, 1 fault, an app that joins before or after the promotion (722,379) | `ChatSound`, `CacheSound`; liveness `CatchesUp` |
| `app_keys` | a daemon, two apps, 2 faults, refusals, 2 messages per direction; and phone, Mac, watch, a legacy pairing and two more, 2 user operations (some 672,000: the view leaves the number to the order of exploration) | `KeysAgree`; `PairingSurvives`, `HiddenStaysHidden`, `Agreed` |
| `pair_commands` | one id, two `tp pair`, a removal, reconnection, 1 fault; and two commands of six mixes, sessions `1` and `12`, a label that ends another's id, 1 event (1,359,025) | `RowHasClient`, `CompletedIsStored`, refinement `PairingKeepsContract`; `ReportedIsGone`, `ConfirmedOnly`, `RcKept` |
| `close_code` | the instance of `delivery` | that `CloseCodeDelivered` is violated |
| `one_daemon` | the instance of `upgrade` | that `OneDaemon` is violated |

**Why the bounds are enough.** Core: a daemon needs two connections to be superseded and an app to
notice; a second pairing makes strangers' frames possible and, with room for one registration,
refusal and eviction. Delivery: an outbox of one is full at once; four is the code's capacity of the
close channel, which `CloseNeverBlocks` is about; two frames can swap. Key exchange: a broadcast
meant for one app re-keys the other, and two faults let one party go and come back while another is
away. Client: six generations are more than can be held at once by a dial, a timer, two readers and
a socket; a queue of three overflows. Runner: one chunk more than the channel holds. Sessions: a
restart needs a second process, and the races of the two properties are between a command and what
the two processes cause; that more commands at a time do not matter to them is what the theorems
add. Pairing: two commands compete for the slot and a removal for the id. Push: two pushes in flight
overshoot a limit of one; a window of one unit is reset and cleaned up. Upgrade: two processes
contend for the pid file; a member before, one after and one that is new cover a roll-back in the
middle. Catch-up: with two keys in the cache, of which the state frames take one, the second session
evicts the first; a batch of one record falls short of a log of two. App pairings: three blobs of
one daemon, so that a device can hold a loser, the winner and one that is yet to come; InOrder
removes the mirror image of pairings 2 and 3. Commands: `1` is a prefix of `12`, an exact and an
ambiguous name, and only one of the two sessions is old; the prunes are one of everything, one of
the old without a question and a dry run; six mixes are the pairs of commands that touch the same
rows, labels or file.

`CHECK_DEADLOCK FALSE` stands where the system may stop: nothing to send, all commands
done, or the bound on faults and operations used up. Symmetry is used for limiters, apps
and process ids that are interchangeable, and never in a run with a liveness property. `app_keys`
also takes states as the same that differ only in the names of keys (`VIEW UpToKeyNames`): no
action or property looks at more than which keys are equal, and a fresh key is any unused
one. `core` ignores `out`, which no step reads; the action properties look at it within the
step. Every property of a passing run has a mutant in `PROJECT.json`: a definition of the model changed as a
plausible bug would change the code, under which TLC finds the property violated.

## 4. Fairness

* `DaemonClient`: every task goes on, timers fire, the relay answers, applies its
  authentication deadline and notices sockets that closed. Faults, joins, subscriptions and
  dispose need never happen; faults are bounded, so they end.
* `Runner`: tokio polls its tasks and each arm of the select that stays ready (the select
  picks at random) as long as the thread is not in a write to the terminal, the threads run, the
  sleep before leaving ends, and a write returns once the terminal is closed. Nothing is assumed
  of claude, of the daemon, of signals, of who reads the terminal or of when its last user closes
  it: `RunnerEnds` allows for a loop that stays in such a write.
* `Push`: the relay's tasks run, APNs answers or its client times out, the daemon reads.
* `Upgrade`: a process that can take a step is scheduled, its heal timer fires, launchd
  executes what it was asked to restart.
* `Catchup`: spawned tasks run, frames are carried and handled, the app's reconnect timer
  fires, the relay accepts, the exchanges' fallback timers fire, and the watcher that saw the
  app join promotes its client (`Goes`). These steps use up what they take, so it is enough
  to assume that they are not all put off for ever.
* The other modules are checked for safety. `RelayDelivery` has no cycle but its end state,
  so the deadlock check shows that every behaviour ends. `KeyExchange`'s queues are bounded,
  which under fairness would stop exchanges that the code goes on with (section 6).

## 5. Proofs

Each theorem holds for every value of the constants that satisfies the module's named assumption:
any number of daemons, connections, frames, sessions, processes or members, and with the bounds of
the runs (`MaxFaults`, `MaxFrames`, `MaxTime` and the like) as arbitrary numbers. Nearly all
safety invariants needed a strengthening, which TLC checked on the run's instance before it was
proved. Proofs have one step per action, and cite lemmas for what several actions share.

A proof module extends one component or two that share nothing; the latter's specifications have
names of their own for that reason (`PairingsInit`, `CommandsInit`, `KxInit`, `CatchupInit` and so
on).

**RelayCoreProofs** begins with `RegistrySpec`: `RegistryTypeOK`, `RegistryConsistent`,
`CapRespected` and `CredentialsPinned`. `RegistryConsistent` is inductive as it stands: the three
parts need each other, since eviction removes the token kept in the daemon state, which must be
the registered one, and rotation may overwrite a token only if it belongs to nobody else, which
needs `TokenOwned` and the assumption on `Credentials`. The cap follows from the cardinality
lemmas of `FiniteSetTheorems`, with registrations as a subset that grows by at most one below the
cap; the pinning is an action property that follows from consistency and the definition of each
step.

Of the core it shows first that every critical section makes one registry call or none
(`StepIsRegistryStep`), so `Spec => RegistrySpec` (`CoreImplementsRegistry`), and the registry's
theorems hold of the relay (`RelayTokensConsistent`). The tables need their own invariant,
`CoreInv`: types, `AuthedInGroup` and `SharedLimiter` together, as a limiter is dropped when the
group empties, and one must know that nobody authenticated is outside the group to know that
nobody still holds it. With `~Reauth` also `GroupsAreLive` is inductive on top of `CoreInv`, and
`FanOutExact` follows from it: the group index gives what a scan of all connections would.
`OnlineHasDaemon` is inductive with `CoreInv`, under `~Reauth` too: a close takes the daemon
offline even when another of its connections is open, so the flag errs in that direction only.
`PresenceAnnounced` is an action property, needs no `~Reauth`, and rests on `AuthedInGroup`:
announcing to the group announces to everyone. `~Reauth` is an assumption on clients, and needed:
see section 6.

**RelayDeliveryProofs.** `BaseInv` is types, that a cloned sender belongs to the message at the
head of the innermost delivery, and that a loop closes only after it has delivered everything.
`CloseNeverBlocks` follows from `ClosingInv`: a handle is taken once, by one `close_conn` or by the
connection's own teardown, so at most one forced code and the loop's own code ever enter a channel.
That two codes suffice is what the proof says;
the code's channel holds four. `LossLeadsToClose` is inductive with `BaseInv` alone.
`LiveFramesInOrder` needs `OrderInv`, which speaks of everything between a publication and the
socket: only the daemon's own task holds undelivered live frames, these are copies of the last one
published, at most one per subscriber, and outbox and socket are in order and older. The daemon's
loop publishes the next frame only when its stack is empty, and this is what carries the argument.
Frontends are finite, as a frame's copies form a sequence.

**DaemonClientProofs.** `ChainInv` makes `OneChain` inductive: exactly one of the current
generation's read loop, a connect before its socket is published, and a timer that is new or of
the current generation; and a connect that has a number has the current one. `DeafInv` gives
`DisposedIsDeaf`: dispose changes the generation in its first lock, so no read loop has the
current one, and a connect past its last check has an older one. Generations may be any number of
at least two, reused when nobody holds them. `WantedAtRelay` needs the relay's side of each socket
as well: a socket's answer that a handshake succeeded comes from a relay that has the daemon
(`Vouched`), and while the client is authenticated on a socket that lost nothing (`Live`) every
wanted session is `Settled`: its subscription is still to be sent, by `handle_auth_ok` before or
after it has copied the set or by a `subscribe()` on its way out of the lock (`Pending`), or the
last word about it on its way to the relay, or else the relay's table, has it, or the relay refused it
(`Heard`). Most
steps touch one socket, and the lemmas say what each may do to it without forgetting anything
(`Keeps`).

**RunnerProofs.** What is on the wire and what waits in the writer's channel are taken as one
sequence, `Sent`. `RunnerInv` says that it begins with the hello, has no other, keeps chunks in
order and has nothing after a bye (`Lawful`); that chunks rise from the terminal through the
channel into frames (`FlowInv`); where loop, writer and claude stand with respect to each other
(`PhaseInv`); and that while the loop can still report an exit, and once it has, no chunk that was
not `lost` is missing (`Covered`), which is `OutputBeforeExit`. `RunnerImplementsLife` maps each
step to a write that `RunnerLife` allows, or to a stutter.

The same module has the app's catch-up. `StoreSound` is what a session's chat keeps whichever
records it is handed, in any order and any number of times: rows rise and lie at or below the
cursor, a row shows its own record or a result of its own tool, and every card that still waits
for its result points at the row of its call. Each record taken keeps it (`AppendRecSound`), so a
batch does too, and `ChatSound` follows; the rest of `CatchupInv` is the typing of frames,
requests and the relay's cache, in which requests travel under number 0 and are never replayed.
What a batch computes is shown by induction on its length. The library's induction theorems are
out of reach of the provers, but well-foundedness of the naturals is not: from it come
`LeastNatural` and `Induct`, induction in terms of a set. `CacheSound` needs that the insertion
order names exactly the keys with frames, each once: then the first of a daemon's keys in it is
there to be evicted, and one eviction makes room for one key. It is stated for a cap on keys
(`MaxKeysPerDaemon > 0`), as without one the code tracks no order.

**PairingProofs.** `BaseInv` says whose lock, queue and slot are whose. From it,
`PairingImplementsContract` maps every step to a step of `PairingContract` or a stutter.
`CompletedIsStored` needs `TellInv`: the lock file of `tp pair` lets one command run and the
orchestrator serves in order, so the running command's task is the last to begin and nobody
replaces what it put in the slot. `RowHasClient` needs `ServeInv`: removals are of different
clients in the pool, a client enters the pool once, and every row is served, about to be by the
promotion or the reconnection that holds it, or was skipped at the start.

**SessionsProofs.** `LastSeqInLog` is inductive with `BaseInv` (types, and that only a process
started for a session sends, is read or is watched): the row's number is set to that of the record
just appended, and a deletion takes row and log together. `RunningHasRunner` speaks of rest;
`EntryInv` is what holds in between: a running row has an entry, or a monitor, a hello or a
command that will make one or end the row is on its way, and a connection that is being torn down
has been outlived by a later runner's entry. It holds for any number of clients, sessions and
processes, with the two gaps of `excused`.

Of the key exchange the module shows `KeysAgree`. `AppLink` and `DaemonLink` say which messages
can be under way in each phase of a connection. `NewestInv` is the core: the newest kx of an app
that is still under way carries the app's current pair, and where there is none the daemon has
that pair or the kx was lost. An announcement re-keys every app, so the invariant also says when
one is still to come: after a restart of the daemon it follows the handshake, and what an app
without keys is owed is ahead of it. That fresh keys are fresh is not needed. Queues and keys are
bounded in the model, by any numbers: an exchange waits for a free key.

**AppProofs** is about the app's two ends, notifications and pairings. `RowsAreLoaded` is inductive
with `TypeOK`, and leaves out the apps in `slipped`; `ClosedSocketFallsBack` with the fact that a
delivering task has a socket. `OvershootBounded` is inductive as stated, count and tasks in flight
together: a task passes the guard when the count is below the limit, and its commit moves it from
one summand to the other, also when the window was reset or cleaned up meanwhile. Assumed: finitely
many tasks and a limit of at least one (the code's `DEFAULT_RATE_LIMIT_PER_MINUTE` is 5); with a
limit of zero nothing is ever sent. For pairings the invariant is `AppInv`: no blob is younger than
the clock, and what is not on its way to a device is there as it is at iCloud; a pairing that was
scanned once and not committed waits on one device only; what the user hid is in the tombstones or
will never be committed, and neither pointers nor clients are of hidden pairings; and a daemon's
valid pairing, scanned once, is at iCloud, and newer than any other blob of its daemon wherever that
is. `PairingSurvives`, `HiddenStaysHidden` and `Agreed` follow, for any number of devices, daemons
and pairings.

**CommandLineProofs** takes `tp upgrade` and the commands on sessions and pairings. `AllOrNothing`:
`SwapInv` follows the members through backup, swap and roll-back: before the swap every original
member has a backup, during it every member is still to do or new, during a roll-back every original
is old or still to do with a backup. Which members there are must not change meanwhile (`SameShape`,
`SameFiles`, `OneMemberKeepsShape`): an installed bundle has one of the two sentinels, and no swap
or restore of a member takes it away. `CommandsInv` follows a command and its handlers: where a
command is says whether it has requests to send and has sent any (`Staged`), each request asks for
what the user named, ticked or chose (`Meant`), a handler erases only what its request names or, for
a prune, what was in its `scope` when the daemon looked (`Honest`), and what was reported deleted
was deleted (`AllGone`). `ConfirmedOnly` follows through `ErasedIsAgreed`: the user has agreed to
what the command's handlers erase, also when the command has timed out and gone. `RcKept` is about
the start-up file alone: it is always two parts that make up `own`, with at most one block between
them (`RcInv`); `own` is what the user wrote, and the newline by which an install ended an open last
line. `StripFirstIs` computes what stripping makes of such a file, and as no marker is left after
the first round, the further rounds change nothing (`StripIs`).

The other assumptions say only that the name for nothing (`None`, `Nobody`, `NoConn`) is not
something: an id, a client, a pid, a timer, a pending pairing or a pid file's contents (`Timers`,
`PendingPairings` and `PidFiles` are those sets), that `Nil` is not a key, that `Saved` is not a
command, and that `Catchup`'s sessions are numbered from 1 and there is at least one.

**Only model-checked.** Liveness (`ComesBack`, `RunnerEnds`, `PushEnds`, `SpawnIsReached`,
`SocketHeals`, `CatchesUp`), which rests on fairness and is beyond the prover, and the deadlock
checks. Every invariant and every other action property of a passing run, and every refinement, has
a theorem.

Only proved, and not a property of a run: the registry's consistency, cap and pinning, the types,
`AuthedInGroup`, `SharedLimiter`, and the strengthenings named above, which TLC checked while they
were being found.

## 6. Observations

What the models show of the code, with the lines concerned; where a property leaves a case out, the
case is here. The first two are the findings of `PROJECT.json`, each with a run that shows it.

**Findings.**
* The close code may be lost (`close_code`). `conn.rs:256` says "Bias + close-first makes close-code
  delivery deterministic". The write task polls the close channel, then the outbox; the read loop,
  on another thread, can queue its code (`conn.rs:364`) and drop the handle (`372`) in between, and so
  can `close_conn`, which drops the handle and queues the code after it. The second poll then finds
  the outbox closed, and the task ends without a close frame.
* Two daemons may run (`one_daemon`). `daemon_lock.rs:4` says of the exclusive create that "no two
  concurrent callers can both succeed". A pid file that is created and not yet written reads as
  stale, and two starters may read the same dead pid: the second removes by its path the file that
  the first has just made (`daemon_lock.rs:75`).

**Relay.**
* A daemon reconnects, then its old connection closes: `handle_close` (`server.rs:699`) marks
  it offline although the new one is open, and only a further authentication sets it online.
  `registry.rs:62` says `online` is whether the socket "is currently connected and not
  stale".
* A connection that authenticates twice stays in its first daemon's group, and one that
  authenticates after its handle was removed enters a group it never leaves
  (`server.rs:671`). The shipped clients do neither.
* `relay.unsub` releases an attach count whether or not the subscription existed
  (`server.rs:605`), so counts drift down.
* An oversized frame's error reply is queued before the close, but the write task takes
  the close channel first (`conn.rs:401`): the 1009 may arrive without the reply. A forced
  close drops the handle before it queues its code (`conn.rs:1335`).
* A frame dropped at a full outbox may lie below a later one that was delivered
  (`conn.rs:1282`), where a replay from the last number seen does not reach.
* A daemon evicted by the sweep is not announced offline to apps that remain, and frames
  it publishes afterwards are cached although it is unknown (`conn.rs:176`, `server.rs:441`).
* After a relay restart a resume token is valid and refused until the daemon registers
  (`registry.rs:359`), although `ARCHITECTURE.md:221` says resumption survives a restart.

**Key exchange.**
* The daemon answers every app kx (`relay_client.rs:925`), a keyed app answers every daemon
  kx with a new pair (`RelayClient.swift:1157`): from the second daemon kx of a connection on
  they never stop. The comment says the cost is "one small kx frame per frontend kx".
* A kx that found no daemon is not repeated: the first announcement makes the app derive
  keys from a pair the daemon never saw (`RelayClient.swift:1173`). If the daemon has peers and
  resumes, it announces nothing at all (`relay_client.rs:714`). `KeysAgree` leaves out apps whose
  kx was lost or refused with `RATE_LIMITED`.

**Daemon client.**
* Three dials that fail count as peerless sessions: a live pairing is throttled to one
  attempt in 30 minutes (`relay_client.rs:176-182`, `212-218`).
* dispose between the check (`483`) and the assignment of `ws_tx` (`493`) lets a socket
  authenticate that nobody reads on behalf of; `DisposedIsDeaf` shows nothing is acted on.
* `close_socket` drops the sender only (`1332`): a refused resume waits for the relay's
  timeout, although its comment speaks of an immediate reconnect.
* An unsubscribe that falls into `handle_auth_ok`'s loop (`696`) is undone at the relay.
* The relay drops a `sub` with `RATE_LIMITED` (`conn.rs:590-620`) or `TOO_MANY_SUBS` (`server.rs:543`),
  and the client only logs the answer (`763-771`): the session is not heard until it is subscribed
  again or the client reconnects. `WantedAtRelay` leaves these sessions out (`refused`).

**Pairing.**
* A watcher looks at whatever fills the slot (`daemon.rs:327`, `219`) and may resolve its
  successor's; `cancel(None)` and `clear_pending` can hit a successor too. The command line's
  lock is what keeps this from happening (`CompletedIsStored`'s mutant removes it).
* A command that dies during its begin leaves the slot taken.
* A removal between a reconnection's load and its save brings the row back; one between save
  and push leaves a client in the pool without a row; a rename is lost to the same save.
* `last_save_error` is one field for all pairings. An app that joins before promotion gets
  no hello (`relay_manager.rs:436`). A failed dial never becomes `RelayUnreachable`.

**Runner and sessions.**
* Input is written to the terminal by a blocking `write_all` in the loop (`runner.rs:171`,
  `pty.rs:196-203`) on a runtime of one thread (`main.rs:50`): while claude, or what it left behind,
  does not read, neither exit nor signal is handled. `RunnerEnds` has this as its second outcome.
* A close that arrives while the loop is in another arm is not seen (`ipc.rs:84`): the runner
  outlives its daemon until claude ends.
* A bye unregisters by sid and so may unregister the runner of a restart; a restart that
  cannot spawn leaves the row running if the bye was lost (`excused`). A late hello sets an
  ended row running again.
* `wait_for_exit` looks the process up again after its sleep, so it may wait for another one;
  two restarts at a time spawn two runners; a delete during a restart leaves a runner.
* `worktree.remove` reads the blockers once: a restart that another client asked for may start a
  runner between that and git's removal, which then takes the worktree from under it
  (`command_dispatcher.rs:1535`). No property is stated, as nothing in the code prevents it.
* A record after the deletion creates the database file again, without a row.
* `broadcast_session_state` reads the row when its task runs, so states may be published out of
  order. A worktree whose HEAD cannot be read stays behind without a session.
* `find_runner_by_sid` (`ipc/server.rs:317`) picks any connection with the sid: after a restart
  input may go to the dead runner's connection until its task ends.

**Push.**
* `PUSH_TOKEN_DEAD` names the frontend only: a verdict about the old token evicts a fresh one
  (`notifier.rs:201`).
* An unpair leaves the token in memory, and `dispatch_push` then falls back to every client
  (`relay_manager.rs:771`).
* Checks precede APNs and counts follow it: the limit is exceeded by what is in flight, and two
  equal events at once are both sent. A late commit moves `seen_at` backwards.
* A notification handed to a socket that closes after the re-check is lost.
* Errors of the store are discarded (`relay_manager.rs:210-236`): a token that was not saved is gone at
  the next start, one that was not deleted comes back with it, and a failed load is an empty one.
  `RowsAreLoaded` leaves out the app of a failed call until a call for it succeeds (`slipped`).

**Lifecycle and upgrade.**
* The heal timer of a stopping daemon can take the path from its successor; the lock is
  released before `stop()` has finished; the accept task of a healed socket is not aborted.
* An upgrade killed between two swaps leaves mixed versions, and the next one says up to date,
  because `bin/tp` goes first; a later backup overwrites a kept `.bak`; members that only the
  new bundle has stay after a roll-back; only equality with the latest tag is tested, so an
  older "latest" would be installed.
* `kickstart` reports success although an unmanaged old daemon keeps the lock. Accepting the
  install prompt after a spawn makes launchd start a second daemon, which finds the lock held
  and is restarted for as long as the first lives. A failed bootstrap leaves the plist.

**Catch-up.**
* A replayed record moves the cursor past records that were never delivered
  (`SessionStore.swift:383`, `RelayClient.swift:1503`): the number that `CatchesUp` speaks of is reached,
  but with a gap. `docs/FAQ.md:146` says "Terminal and chat content is replayed from the backlog".
  Records published out of order are dropped for the same reason.
* While the pairing's client is not in the pool, the app's fallback hello finds nobody either, and
  it comes once.
* One batch of at most 1000 records answers a resume (`command_dispatcher.rs:1343`), and `onBatch`
  (`RelayClient.swift:1522-1539`) never asks for more: a longer backlog is not caught up on that
  connection, against `docs/FAQ.md:146`. `CatchesUp` claims one batch. Only the newest session is
  attached by `onHello`.
* The terminal's history is appended without de-duplication (`RelayClient.swift:1529`). A late
  failure of a cancelled socket tears down its successor (`720`). Tool events without an id are
  matched first in, first out, and may cross.

**App pairings.**
* `PairingStore.swift:737` says promotion never issues a synced delete; a save that fails has
  deleted first (`PairingRecordStore.swift:187`), and a device that is behind sweeps a legacy
  pairing that was scanned again. `OnceScanned` leaves both out.
* A stale watch snapshot hides a newer local pairing (`814`) or brings a removed one back;
  `skippedStale` keeps a revoked one; the watch is not told what iCloud brings to the phone.
* A late `onUnpair` of an old client removes the pairing that replaced it
  (`TeleprompterApp.swift:609`, `793`); an adopted re-pairing keeps the old client (`531`, `333`).
* Equal times or drifting clocks make devices choose differently.

**Commands.**
* What has become of a session since the user agreed is not asked again: a cleanup or delete kills
  and deletes one that was restarted after the listing, and a prune of stopped sessions deletes
  the row of one that was restarted between the daemon's look and the deletion (`session.rs:287`),
  without killing its runner. `ConfirmedOnly` is about which sessions were agreed to. A time-out
  reports failure for a deletion that goes on. A failed prune does not name the session whose row
  is gone already.
* A database file that stays busy is left for ever although the deletion reports success.
* A rename reports success on a removed pairing; remove and rename ignore store errors; two
  renames may leave apps with the other label.
* In a start-up file whose block was not closed, a forced install adds a second block and a later
  uninstall takes the user's text between them. `RcKept`'s user does not edit inside the block.
* Install ends an open last line (`completions_install.rs:408-413`), and uninstall takes away only
  the newline before the marker (`157-177`): a file without a final newline has one afterwards.
  `RcKept` counts that newline as the user's.

## 7. Not modelled

Cryptography, wire formats, JSON and archive parsing; the frame codec (sequential, and modules carry
whole messages); HTTP endpoints, metrics and configuration; HTTP/2 and JWT of APNs; SQL, migrations
and SQLite's own guarantees; git; export formatting; systemd units (launchd's are); user interface,
voice and gamepad; commands that only read and print; scripts and workflows. Rate limiters appear as
identities (`RelayCore`) and as a refusal that may happen at any time (`RelayCore`, `KeyExchange`,
`DaemonClient`, `Push`), not as arithmetic, except for the push service's own limit, which `Push`
counts; `Catchup`'s relay refuses nothing. The relay's pre-authentication message budget is subsumed
by `Close`. Input and resize from the app to the runner pass through the daemon without changing its
state.

Coarser than the code: the app's control requests are handled in tasks of their own
(`relay_manager.rs:314-327`) and may overtake each other, in `Catchup` they do not. `TakePendingPre`
has one key for a tool call where the code has its id or, without one, a first-in-first-out queue per
name. An operation of `PairingStore` is one step in `AppPairings`, although its read-modify-write of
the tombstones is not locked (`PairingStore.swift:583-604`, `749-755`), so that two threads may lose
one. `tp --tp-sid` may name a session that exists (`passthrough.rs:105-108`); `StartPassthrough` takes a
new one, whereas `SessionCreate` takes either.

## 8. Plan

Proved are all safety properties of the passing runs. What is left:
1. Larger instances where a run leaves room: two clients in `sessions`, two daemons in `push`.
2. That no runner loses its worktree, and that one daemon runs, as properties that hold, once the code
   looks again before it removes.
3. Input and resize on their way from the app to the runner; rate limiters as arithmetic.
