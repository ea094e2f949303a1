# RUSM in TLA+

TLA+ models of RUSM, an Erlang-style actor runtime in Rust: its process table,
name registry, process groups, mailboxes, supervisors, census, timers and
shutdown (`rusm-otp`), the control plane of its cluster (`rusm-cluster`), the
calls between guests (`rusm-rs` over the actor bridge) and its SSE and
WebSocket bridges (`rusm-wasm`). TLC checks them on small instances; TLAPS
proves every safety invariant of the runs for every number of processes,
callers, messages, calls, nodes, clients or streams. Paths below are
relative to `src/crates/`; `runtime.rs` and `supervisor.rs` are those of
`rusm-otp/src/`, `actor.rs`, `sse.rs`, `ws.rs` and `ws_codec.rs` those of
`rusm-wasm/src/bridges/`.

    cd tla
    tlc -workers 4 -config ProcessTable.cfg MCProcessTable.tla
    tlapm ProcessTableProofs.tla

## 1. The system

A **process** is a tokio task with an entry in a sharded table. It can be
linked, monitored, named, tagged, killed, and receives through one mailbox.
Everything above is built from that: supervisors are processes that monitor
others, WASM components are processes whose guest code calls the same
operations through a host bridge, a cluster is a set of runtimes whose control
streams carry names and requests.

| Part | State | Operations | What is hard | What makes it correct |
|---|---|---|---|---|
| Process table (`runtime.rs`) | `table` of entries: abort handle, links, monitors, `trap_exit`, staged reason | `spawn`, `spawn_link`, `link`, `unlink`, `monitor`, `kill`, `exit`, `set_trap_exit`, teardown (`deregister`, `propagate_exit`) | only one entry is ever locked: two-sided operations are two critical sections, and a process may die between them; teardown runs on the dying task | a monitor is answered once, truthfully; established links share fate; cascades go on and go nowhere else |
| Registry and groups (`runtime.rs`) | `registry`, `tags`, and the lists of both in each entry | `register`, `whereis`, `unregister`, `whereis_or_spawn`, `register_tag`, `unregister_tag`, `whereis_tag`, `kill_tag` | two maps that must agree, released step by step by teardowns | a name or a membership lives as long as its holder; get-or-spawn agrees on one process |
| Mailbox (`runtime.rs`, `message.rs`) | channel, save queue, deferred queue, current metadata, depth counter | `enqueue`, `recv`, `recv_match`, `stash`, `unstash` | check, send and count are three steps under a shared lock, the receiver takes none; receives are dropped by timeouts | exactly once, in order, each message with its own metadata, a counter that does not drift |
| Supervisor (`supervisor.rs`) | pids, restart window | `start` and its loop, `terminate`, `start_child`, `over_budget` | children end at any moment, also while a restart waits for others | every child replaced, never twice at once, exact budget, no orphans |
| Census and lifecycle log (`runtime.rs`, `lifecycle.rs`) | generation counter, last line | `note_census`, `census_step` | debounce against a counter that moves | a change is followed by a line, a quiet node prints none |
| Timers, shutdown (`runtime.rs`) | tokio tasks; the table | `send_after`, `cancel`, `shutdown` | fire against cancel; shutdown against restarts | at most one delivery; a drained table |
| Byte streams (`stream.rs`, `net.rs`) | a bounded channel | `send_stream`, chunk reads | back pressure, close on either side | order, no loss before close |
| Cluster (`rusm-cluster/src/lib.rs`) | peers by name, connections with their control streams, global names, pending requests | `connect`, `serve_peer`, `control_loop`, `register_global`, `bootstrap_globals`, `broadcast`, `request`, `handle_request` | two connections of one peer, a link that is lost while frames are under way, a registration that crosses a new connection | what is known of a peer is watched; an answer is one's own; a name gets across |
| Guest SDK (`rusm-rs/src/wire.rs`) | reference counter, the mailbox | `call_json`, `cast`, callbacks, timeouts | replies by reference among other mail, nested calls | the caller gets its own reply; other mail is kept in order |
| WASM actor bridge (`rusm-wasm/src/bridges/actor.rs`) | guest's context, timers, capabilities | the host side of all the above | supervisors linked after they start; timers | co-termination; no stale identity |
| Connections (`rusm-wasm/src/bridges/{sse,ws,http}.rs`) | reader, writer and handler per connection, permits, fragments | upgrade, read and write loop, grace period, reap | three tasks that end in any order, channels that close beside a Down | nothing accepted is dropped on a clean end; handlers within the limit; whole messages |
| Bundle cache (`rusm-wasm/src/bundle_cache.rs`) | two cache layers | `get` | concurrent fetches of one source | no older bundle over a newer one |
| Routes (`rusm-node/src/routes.rs`) | a route table | `resolve` | precedence of literal, parameter, wildcard | the most specific match |
| Node, attach, REPL, profiles, config (`rusm-node/src/`) | a ticker and its subscribers | requests and snapshots | slow subscribers | - |
| Key-value store (`rusm-kv`) | redb tables | get, put, delete, scan | none of its own: redb's transactions | - |
| Metrics, observer, log format, compilers, macros, the TypeScript and Go SDKs, the command line, benchmarks | - | sampling, formatting, glue, other languages' versions of the guest SDK | - | - |

How they interact: a teardown touches the registry, the groups, the mailboxes
of watchers and the entries of linked peers, in that order; a supervisor reads
the Downs that teardowns put in its mailbox; the actor bridge maps each guest
call to one runtime call; the SDK builds calls from `send`, `receive`, `stash`
and `unstash`; a connection bridge spawns a writer and a handler process and
learns of their ends by monitors, permits and closed channels; a cluster node
serves the requests of its peers out of its own runtime.

`PROJECT.json` lists every hazard found in this code at its line, with the
properties that cover it or the reason why none does yet.

## 2. The modules

| Module | Models | Instance and runs |
|---|---|---|
| `ProcessTable` | table, links, monitors, exits | `MCProcessTable`: `process_table` |
| `ProcessTableProofs` | theorems about `ProcessTable` | - |
| `Supervisor` | the supervisor's loop and its children's teardown | `MCSupervisor`: `supervisor`, `lost_trigger` |
| `SupervisorProofs` | theorems about `Supervisor` | - |
| `Registry` | names, groups, `whereis_or_spawn` | `MCRegistry`: `registry` |
| `RegistryProofs` | theorems about `Registry` | - |
| `SelectiveReceive` | what a mailbox promises (abstract) | instantiated by `Mailbox` |
| `Mailbox` | `enqueue` and `Context` | `MCMailbox`: `mailbox` |
| `Rpc` | calls, casts, callbacks and services over mailboxes | `MCRpc`: `rpc` |
| `Lifecycle` | census, timers, shutdown beside a supervisor | `MCLifecycle`: `lifecycle` |
| `LifecycleProofs` | theorems about `Lifecycle` | - |
| `Cluster` | connections, control streams, global names, requests | `MCCluster`: `cluster`, `peers_listed` |
| `ClusterProofs` | theorems about `Cluster` | - |
| `EventStream` | the SSE bridge | `MCEventStream`: `event_stream` |
| `DeliveryProofs` | theorems about `EventStream` and about `Mailbox`, the refinement among them | - |
| `WebSocket` | the WebSocket bridge and its codec | `MCWebSocket`: `web_socket`, `dead_handler` |
| `WebSocketProofs` | theorems about `WebSocket` | - |
| `RpcProofs` | theorems about `Rpc` | - |

Each module has the state of its component as variables, one action per
critical section, mutants (plausible bugs of that code, commented as such and
used by no specification) beside the definitions they change, and the
properties at its end. Variables named *history* record what happened for the
properties and are read by no guard. `left` is what may still happen: a budget
per kind of call or event, chosen at the start among those of the instance.

### ProcessTable

An action is one critical section: the code holds one DashMap entry at a time
(`get_mut`, `remove`) and never two. A call that locks twice is two actions
of a caller, whose `call` says what is still to do: `SpawnLink`/`SpawnLinkBack`,
`LinkFirst`/`LinkSecond`/`LinkUndo`, `UnlinkFirst`/`UnlinkSecond`.
A process goes `unborn`, `running`, `ended` (the body is dropped and
`ProcessGuard::drop` is about to run), `removed`. `BodyEnds` returns or
panics, `BodyAborted` is an abort taken up at a suspension point; then
`Remove` takes the entry and fixes the reason (staged or own),
`NotifyWatcher` sends one Down, and `PropagateExit` deals with one peer, after
all Downs, as in `deregister`.

Abstractions: the vectors `links` and `monitors` are a multiplicity per peer
and a set of references, so the order within the Downs and within the peers is
free; bodies do nothing but call; labels, log lines and metric counters are
left out; `mailbox` is the log of signals, received in `Mailbox`.
The histories: `linked` and `spawnLinked` are the pairs both sides of which a
call has recorded; `tied` are the pairs that are linked or about to be, which a
clean unlink takes away (one whose two processes were both there, and which no
call that links the pair crossed); `late` are the references of monitors that
found their target gone.

### Registry

`register` holds the entry and the registry slot together and is one step;
`unregister`, `whereis_or_spawn`, `unregister_tag`, `kill_tag` and the
teardown hold one at a time and are several. `Leaves` stands for everything
`ProcessTable` has up to `Remove`. `names[p][n]` counts how often a name is on
the entry's vector; a group that is empty is no group (`remove_if`).
`crossed` is history: the names, and the pairs of a group and a process, that
were granted anew while an unregister of the same was between its two steps.
`kill_tag` aborts its snapshot in one step: an abort is a flag, which takes
effect later and independently per process. `whereis` and `whereis_tag` read
and change nothing; they are in the actions that use them.

### Mailbox

A send is `Check` (capacity against the counter), `Push` (the channel) and
`Count` (`fetch_add`), for several senders at once, because they hold only a
shared guard. The receiver takes an envelope (`Recv`, `RecvMatch`,
`FromChannel`) and counts it out (`Consumed`), without a guard. The counter is
unsigned, modulo `DepthMod`. `Timeout` drops a receive that waits. `Unstash`
comes from the SDK's call loop, which is finished with the reply it received
last, so that `held` is empty after. Streams behave like messages that are
never shed and are not a kind of their own; `signal` stands for Down and Exit.

`SelectiveReceive` is the abstract specification: one queue, from which a
receive takes the oldest envelope it wants, and a shelf that goes back to the
front. `Mailbox` implements it with `queue` as `saved \o channel`, so that an
envelope moved to the save queue is a stutter, as is every counter step.

### Supervisor

`at` is where the loop is: starting children one by one (`StartChild`,
`MonitorChild`), at `recv`, in `terminate`, or over. `Restart` is the match on
the strategy: its `Victims` are killed and awaited (`AwaitTargets`, which
consumes every message, as the code does) and its slots started again.
Children go through `running`, `killed`, `removed` (out of the table),
`released` (names and groups given back), and then send their Down, which is
the order of `deregister`. Kills of several pids in a row are one step. Time
is a clock that may advance at any moment; the window is compared as the code
does it, and kept as the set of the triggers in it, each with its number and
its time (the deque of `over_budget` has them in that order). An Exit of the owner, when there is one, and user messages of anybody
arrive at any time. `Ignored` covers the Down of a process that is not tracked
any more.

### Rpc

A step is what a process does after one receive, or one send: between them it
runs alone (one fiber per instance). What it is in the middle of is its
`stack` of frames - a request it serves, a call of that handler, a closure
that a callback runs during the call, a call of that closure - so that nested
calls are the code's recursion. `TakeReply`, `TakeCallback` and `Stash` are
the three branches of the loop in `call_json`, `Timeout` is its deadline,
`EndCall` its `unstash` and `unregister_callback`; `NextRequest` and `Reply`
are the loop of a service. References and callback ids come from one counter
per process, so references of different processes collide, as they do in the
code. The queue and the shelf are those of `SelectiveReceive`. Each message
carries the context of its sender, and each receive binds it. `call` is
history: who made a call, with which reference and closure, and what became of
it. Where the code keeps the sender of a request, to reply to it or to invoke
its closure, the model reads it from there.

Abstractions: payloads and operations are the call they belong to; a
callback that reaches a process outside a call is one of the messages a
service skips; streaming calls are left out, and so are the JavaScript SDK's
callbacks, which stay registered while they run.

### Lifecycle

`note_census` is `Bump` (the generation) and `Wake` (the permit of a
`Notify`), after the change itself; the census task is `Notified`, `Settled`
(the comparison after the debounce), a walk with one `Count` per place of the
table, and `PrintLine`. Timers are a task (`pending`, then `due`: past the
sleep, on its way to `send`) and the handle the guest holds; `Cancel` aborts
the task, with no effect on one that is due. `Shutdown` visits the places one
by one. Processes have only what the three need: to live, to be aborted, to
leave the table and to release their groups; the supervisor is `OneForOne`
with an endless budget, whose `Restart` races the walk. Time is not counted:
a debounce and a delay end at any moment.

### Cluster

Nodes dial; a connection has a control stream each way, read by a loop per
node. `ServePeer` is `serve_peer` up to the spawned tasks. `Greet` is the handshake
of the acceptor, which ends in the write of its name, and `Accept` what it does
next; `Connected` is the dialer's half, possible from that write on, so that
either may serve the other first. `ReadFrame` is one
turn of `control_loop`, `ReaderEnds` and `Prune` what follows it (the entry of
that NAME, then the names of that node). `BootSnapshot`/`BootWrite` are
`bootstrap_globals`, `BroadcastSnapshot`/`BroadcastWrite` are `broadcast`: both
read a map and write later. `Ask` is `request`, with its error paths, `Serve`
a spawned `handle_request` and its reply. In both, `send_control` looks its
channel up and writes to it in one step.

QUIC is modelled from its use: a stream is in order and lossless until `Lose`,
which leaves any prefix on either side; a send half is finished when its last
holder - the entry, a bootstrap or a broadcast - lets go (`Finished`), and the
other side reads the end. `Restart` empties a node, whose peers read what was
under way or not. Left out: the data plane (each message is a stream of its
own, without answer or order), `register_spawnable`, and `Unregister` frames,
which the loop reads and no code writes.

### EventStream

`task` is the connection's task with its permit: `serving`, then `reaping`
its pairs one by one (`ReapWriter`, a grace, `ReapHandler`), then `done`.
Several streams may follow one another on a connection (`Open`), each with a
`writer` and a `handler` process. Plain events reach the writer in its mailbox
(`box`), rich ones on the bounded channel `rich`; `TakePlain`, `TakeRich`,
`RichClosed`, `TakeDown` and `Flush` are the arms of its `select!`, taken in
any order. The store of the handler is dropped (`dropped`: its end of the
channel is closed) before its entry goes and its Down is sent (`gone`). The
HTTP server and the client are external: `Deliver`, `Disconnect`, and
`ConnectionEnds`, which drops the bodies. Guests are arbitrary: they may
never react. An event is its kind and its number among those of its kind on its
stream; `sent` counts those the writer was alive for, and `seen` lists the
numbers the client got. The operators every component has are called `SseInit`,
`SseNext`, `SseSpec` and so on here, so that one module can extend `Mailbox`
too. Heartbeats, compression, authentication and routing are left
out: a request that is refused opens nothing.

### WebSocket

`permit` is where the permit is: in the service of the connection, moved into
the connection's task by `Upgrade`, or given back - also by `Reject`, after
which the connection still serves requests, without a permit. `Fragment`,
`Message` and `Ping` are what `WsStream::recv` and the loop of
`run_connection` do with one frame; `ReadingEnds` covers a close, a frame that
breaks the protocol or the size limit, and the end of the stream. The writer
takes binary frames from its mailbox and text, pong and close from the channel
`out`, in any order. `Monitors`, `Handles`, `Emit` and `Returns` are `serve` of
the SDK, and a guest may also hang in a callback, or trap. A frame carries the number
of its message and its part in it, as labels that no guard reads
(`ScriptsAssumption` says what they mean); the histories `sent` and `seen` are
kept for each way to the writer, its mailbox and the channel. Keep-alive pings
are in `SendFails`; compression and the parsing of headers are left out.

## 3. What the runs show

| Run | Shows | Bounds | Why they are enough |
|---|---|---|---|
| `process_table` | `MonitorAccounted`, `DownTruthful`, `LinkedSharedFate`, `CascadeOnlyAlongLinks`, `KilledIsReaped` | four scenarios: 2 processes, 1 caller, every operation but `unlink` once; 2 processes, 2 callers, crossing links and unlinks; 3 processes linked in a chain, with a trapping or an unlinked one | a chain of three and two crossing calls on one pair are the shapes in which sides can differ; monitors and aborts are per process; the safety part is proved for all sizes |
| `supervisor` | `RestartIsClean`, `BudgetExact`, `ChildIsReplaced`, `NoOrphans`, `OwnerExitHeeded` | 7 processes, a clock up to 3, nine trees (strategy, children, budget, per lifetime or in a window of 1, owner, user messages): OneForOne 2, 2, lifetime, owned; OneForOne 2, 1, window; OneForOne 1, 2, window, a message; OneForOne 1, unlimited, a message; OneForAll 3, 1, lifetime; OneForAll 2, 2, lifetime, a message; OneForAll 2, 1, lifetime, owned, a message; RestForOne 3, 1, lifetime; RestForOne 2, 1, window, owned | one restart interrupted by another end under each strategy, three children where an order among them matters; a window within and beyond which triggers fall, for OneForOne and RestForOne (the budget is proved for every tree); an owner that dies at any point of each strategy. A window of OneForAll, and an unlimited budget of a tree with several children, are not among them |
| `registry` | `NamesFollowLife`, `TagsFollowLife`, `SingletonAgreement`, `NameFreed` | 4 processes, 2 callers, 1 name, 1 tag, 4 mixes of calls | names do not meet, nor do tags; two callers of get-or-spawn, and a third call after, are what it takes to disagree |
| `mailbox` | `MetaStaysWithMessage`, `DepthExact`, `BoundedOvershoot`, and that it implements `SelectiveReceive` (so nothing is lost, doubled or reordered) | 2 senders, 4 sends, capacity 1 | two senders past one free place, and an envelope each in the channel, the save queue and the deferred queue |
| `rpc` | `OwnAnswer`, `ServedInOrder`, `CallbacksBelongToCall`, `ContextFollowsRequest`, `CallsEnd` | 2 clients, 2 services (c calls s and t, d calls s, s calls t), 5 calls, 4 mixes of nested calls, casts, timeouts and callbacks | a service in a call of its own gets a request meanwhile, with a reference that collides; a late reply meets the next call; a closure calls in turn |
| `lifecycle` | `TimersFireOnce`, `LineIsTrue`, `ShutdownMissesNone`, `CensusSettles` | 4 processes, 2 timers, 6 mixes of events | two changes around one walk; a cancel on each side of the end of the sleep; a restart and a spawn during the walk, ahead of it and behind |
| `cluster` | `RoutesAreWatched`, `AnswersMatch`, `GossipReaches`, `GivenUpByBoth` | 2 nodes, 1 name, 2 connections, 4 mixes of registrations, exits, requests, frames over the limit, losses, restarts | peers are handled one by one, so two nodes and two connections between them have every pair of events that meet |
| `event_stream` | `CapBoundsHandlers`, `RichEventsArrive`, `DisconnectReleases`, `StreamEndsWithHandler` | 2 connections, 2 streams, 1 permit, channels of 1, 2 events of one kind or one of each with a crash | both streams on one connection or one on each; the end of the handler, the close of its channel and its Down in every order around one waiting event |
| `web_socket` | `CapBoundsHandlers`, `MessagesAreWhole`, `FramesInOrder`, `DisconnectReleases`, `CloseEndsHandler` | 2 connections, 1 permit, a channel of 1, messages of up to 2 parts, 3 mixes of events | scripts with a message in parts around a ping, a part of none, and a message that is too long; each end of a connection against each other |

Disagreements with what the code says of itself; each run reaches the state
or the behaviour and stops there:

| Run | What happens |
|---|---|
| `lost_trigger` | `terminate` drops the Down of a child outside its targets that its comment says the next loop handles; under RestForOne nobody restarts it. With four children a later `terminate` can wait for ever for a Down that was dropped so |
| `peers_listed` | peers are kept by name: a second connection to a node replaces the entry of the first, whose stream is finished by that; the loop that reads its end removes the entry of the second, and so on. Two nodes with a live connection end up not listing each other, and `peers()` says "currently has a live connection to" |
| `dead_handler` | a handler that traps while its client stays leaves its writer, reader, socket and permit in place: the writer's arm for a channel whose senders are gone is never taken, because the reader holds one |

Ten more configurations show counterexamples of the same kind. They are not
among the runs; `tlc -config <name>.cfg <module>` finds each within seconds:

| Configuration, module | Property | What happens |
|---|---|---|
| `SpawnLinkRace`, `MCProcessTable` | `SpawnLinkedSharedFate` | `spawn_link` promises a link in place before the child runs; the parent's side is added after, so a parent that dies in between leaves the child alive |
| `LostOwnerExit`, `MCSupervisor` | `OwnerDeathTearsDown` | `terminate` drops the owner's Exit; the tree outlives the owner |
| `NameLeak`, `MCRegistry` | `NameReleasedOnExit` | `register` between the two steps of `unregister`: the name outlives its process |
| `TagLeak`, `MCRegistry` | `TagReleasedOnExit` | the same of groups: `register_tag` of a pair between the two steps of `unregister_tag` (runtime.rs:987-995) puts the tag on the list a second time, and `retain` drops both; the dead process stays in the group, where runtime.rs:945-946 says "Tags are released automatically on exit (like names)" and :975-976 "The set holds only live pids" |
| `LateCancel`, `MCLifecycle` | `CancelTold` | nothing removes the handle of a timer that fires: a later `cancel_timer` finds it and returns true, and the message has arrived, or will, where actor.rs:367-369 says "aborted before it fired" |
| `ShutdownRestart`, `MCLifecycle` | `ShutdownDrains` | a supervisor restarts, at a place the walk has passed, a child that `shutdown` stopped, before it is stopped itself: the child is never told, and the drain runtime.rs:1068-1071 tells the caller to wait for does not come |
| `RejectedUpgrade`, `MCWebSocket` | `CapBoundsConnections` | the permit is taken by the first request of a connection; a rejected one drops it and the next may be an upgrade: more handlers than permits, where ws.rs:374-376 says it is "held for the connection's whole life" |
| `ShedRace`, `MCMailbox` | `ShedOnlyAtCapacity` | a receiver counts out what its sender has not counted in; the counter wraps and a mailbox with room sheds a message |
| `LostRequests`, `MCCluster` | `LostRequestsFail` | a request whose connection is lost after it was written keeps its waiter: it ends by the caller's own timeout only, where the doc says it errors when the link drops |
| `TimeoutContext`, `MCRpc` | `ContextOfHandled` | a handler whose own call times out goes on in the context of the mail it stashed meanwhile, not in that of its request |

`ChildIsReplaced` is therefore stated for OneForOne and OneForAll;
`OwnerExitHeeded` for every strategy, unless the Exit comes to the front of the
mailbox while `terminate` waits; `NamesFollowLife`, `TagsFollowLife` and
`NameFreed` for all but the names and pairs that were granted anew between the
two steps of an unregister (`crossed`), and `SingletonAgreement` for names that
are not unregistered. `CascadeOnlyAlongLinks` asks of an unlink that both
processes were there and no link of the pair crossed it: of two that overlap,
one half may stay. `RestartIsClean` has
an exception for a child that ended before it was monitored: its Down comes
from `monitor`, when its names may still be on their way out.
`ContextFollowsRequest` is for behaviours without a timeout; `AnswersMatch`
is checked for nodes that do not restart while requests are under way (their
numbers begin anew); `GossipReaches` is for a sole
connection that stays up and a name that one node registers, because a second
connection brings `peers_listed` about. `CapBoundsHandlers` of `WebSocket` is
for connections that had no upgrade rejected: a rejected one costs its permit
and may be followed by one that succeeds. `RichEventsArrive` promises the end
of a stream to rich events only: a writer that sees its channel closed before
its mailbox is empty drops the plain ones. `ShutdownMissesNone` is about what
was there when it began and what enters ahead of the walk (`missed` are those
that entered behind it). `TimersFireOnce` is about cancels that came before the
delay was over.
`LineIsTrue` is what holds of the census line at every moment, `CensusSettles`
that it comes to be true in the end.

Each module has one type invariant. `DownTruthful`, `TimersFireOnce`,
`OwnAnswer` and others include that of their module, as their comments say.

Deadlock is not checked: every model comes to rest when its bounded calls are
spent and its processes are over or wait for mail, which is what the system
does too. That something goes on is stated by the liveness properties.

**Fairness.** Teardown runs in `Drop`, without suspension, so each of its
steps is weakly fair; so is the rest of a call that has begun (the caller is
in a synchronous function), and the abort of a body, which tokio polls once
more (this assumes bodies that reach a suspension point; the runtime's
fairness for guests is epoch interruption). The supervisor's loop and a
receiver with mail are woken by the channel. In `Rpc`, a process with mail
takes it, and handlers and closures return; nobody has to call, to invoke a
closure or to be late. In `Lifecycle`, `Cluster` and the bridges, `Proceed`
collects what goes on by itself - tasks that can run, timers, QUIC on a
connection that is up, a server that finds out that its client is gone, a
client that is there and reads - and is weakly fair as a whole; as each of
these steps is possible finitely often in a behaviour, no step can be put off
for ever by others. A guest of `EventStream` need do nothing at all; one of
`WebSocket` handles its mail unless it hangs. Nothing makes a process call, end
by itself or time out, a connection come, go or be lost, or time pass.

## 4. What is proved

Each proof module extends its component and holds for every value of the
constants that the named assumptions allow; TLC evaluates these assumptions on
every run. They ask that bounds are natural numbers and budgets are of their
type, and beyond that only what is said below. A proof has the same shape
everywhere: a type invariant by one lemma per group of actions, the invariant
strengthened until it is inductive, one step per action under it, and a last
temporal step.

`ProcessTableProofs` (any callers, processes and bounds):

- **`TypeCorrect`**: `TypeOK` always holds, by one lemma per part of it.
- **`MonitorsAccountedFor`**: `MonitorAccounted`. It is not inductive: that a
  Down is the only one of its reference needs that references are unique and
  below `nextRef`, and that an armed monitor was issued (`RefsOK`).
- **`DownsAreTruthful`**: `DownTruthful`. Its part about Downs (`DownsTrue`) is
  inductive with `RefsOK`, which also says that the references answered on the
  spot are never armed; its part about reasons (`LastStaged`) needs that whoever
  stages one locks the entry, so that nothing is staged after it is out.
- **`LinkedProcessesShareFate`**: `LinkedSharedFate`. The strengthening
  `LinkInv` says that an established pair is *bound* (each side lists the
  other, or its end has been shared, or an unlink tried to part them), and for
  each call in flight what the first half already guarantees (`CallInv`). The
  cases that matter are a link whose first process ends between the two sides,
  and a `spawn_link` whose child ends before the parent's side is there.
- **`ExitsCascadeOnlyAlongLinks`**: `CascadeOnlyAlongLinks`, a property of steps,
  from `TiedInv`: a pair on a list, or in the hands of a call that links it, is
  tied, and while an unlink runs that nothing linking the pair has met, the side
  it has emptied stays empty, so that its second half leaves nothing behind.

`RegistryProofs` (any callers, names, tags and processes):

- **`TypeCorrect`**.
- **`NamesFollowTheirHolders`**: `NamesFollowLife`, from `OrderlyInv`: for a name
  that crossed no unregister, the holder's list has it and no other list does,
  and an unregister that has still to strike it off a living process's list finds
  it there, is the only one, and strikes it off no holder. `IssuedInv` (whoever
  is named anywhere was spawned) keeps a new process from inheriting anything.
- **`TagsFollowTheirMembers`**: `TagsFollowLife`, in the same way for `tags` and
  `held`, from `JoinedInv`: who is in a group joined it and, if the pair crossed
  no `unregister_tag`, has it on its list. So a released process is in no group
  it joined and left in any other order; for the pairs that crossed the code
  does leave one (`TagLeak`), and the theorem says nothing of them.
- **`GetOrSpawnAgrees`**: `SingletonAgreement`, on top of `NamesInv`: an answer
  names the holder while that one lives, a loser is in the hands of the caller
  that will kill it, and a candidate is an answer, in hand, or killed.

`DeliveryProofs` holds what is proved of the two components in which messages
lie in queues for a reader. They share no variable.

Of `Mailbox` (`SendersAssumption`: the senders are finitely many and there is
one; `SizesAssumption`: the counter is wide enough to tell the sends apart):

- **`TypeCorrect`**.
- **`DepthStaysExact`**: `DepthExact`, from `CountInv`: the counter is what is
  inside less what is not counted yet, wrapped when that is below zero.
- **`MetadataStays`**: `MetaStaysWithMessage`, from `MetaInv`: whatever is in
  the channel, the save queue or deferred is as it arrived.
- **`OvershootStaysBounded`**: `BoundedOvershoot`, from `OvershootInv`, which
  counts the messages inside and those past their check together.
- **`Refinement`**: `Mailbox` implements `SelectiveReceive`. Every step is a step
  of the abstract queue or a stutter; it needs that nothing wanted is in the
  save queue while a receive waits (`WantedNotSaved`).

Of `EventStream` (`BoundsAssumption`: permits and capacities are positive, and no
connection is called like the marker for none; any connections, streams and
events):

- **`StreamHandlersStayBounded`**: `CapBoundsHandlers`, with the types of the
  bridge, from `ShapeInv`. A handler that runs and is not told to stop is of a
  connection whose task has its permit: the reaping task still has the stream on
  its list, or has dealt with it (`ReapOK`). On one connection one handler runs at
  a time (`OneRuns`), because a new stream waits until the server has the end of
  the old one, and a writer ends before its body is closed only when its handler
  is gone (`EndOK`). So handlers go injectively to permits taken, and those and
  the free ones add up to the limit (`PermitsOK`).
- **`RichEventsAlwaysArrive`**: `RichEventsArrive`, from `FlowOK`, which is inductive
  with `ShapeInv`. What waits for the writer is the last of what was sent, in the
  mailbox with nothing but the Down behind it (`LastPlains`, `LastRich`); while the
  body is open it has, of each kind, what comes next after what the client got,
  up to what the writer has taken (`Upto`). At the end of a response both
  channels are empty, so nothing rich is missing; of plain events a prefix is
  all that can be said, and all the code promises.

`SupervisorProofs` (`ConfigsAssumption`: configurations have their type):

- **`TypeCorrect`**, with `Started`: the loop is never about to start nobody.
- **`RestartsAreClean`**: `RestartIsClean` for every strategy, from `CleanInv`:
  replaced processes are over unless awaited, Downs in the mailbox are true, and
  whoever is not awaited any more in a round has ended.
- **`BudgetStaysExact`**: `BudgetExact` for any window, clock and order of
  Downs, and that a tree with no budget never gives up, from `BudgetInv`:
  triggers are numbered in the order of their times,
  and what has left the window is too old ever to be in it again.

`LifecycleProofs` (`BoundsAssumption`: at least two processes, the supervisor and
its child):

- **`TypeCorrect`**.
- **`TimersFireOnceOnly`**: `TimersFireOnce`, from `FiredInv`: what was sent was
  sent by a task past its sleep, which no cancel reaches.
- **`CensusLineIsTrue`**: `LineIsTrue`, from `CensusInv`: as long as nothing is
  noted since a walk began, what it has seen is what there is at the places it
  has visited; a change since then has a permit or a waker on its way.
- **`ShutdownMissesNobody`**: `ShutdownMissesNone`, which is inductive with the
  types: a process enters ahead of the walk or is noted as missed.

`ClusterProofs` (`NodesAssumption`: no node is called like the marker for nobody;
`NamesAssumption`: finitely many names; any nodes, connections, requests):

- **`TypeCorrect`**, from seven parts that say how the variables fit together:
  what is listed is a connection of that node and served by it (`PeersOK`),
  what is on a wire is a frame (`WireOK`), a waiter is a request of that node
  and is waiting (`CallsOK`, `WaitersOK`), and so on.
- **`RoutesStayWatched`**: `RoutesAreWatched`, whatever is dialed, lost or
  restarted: the read loop of a connection, or the prune after it, is there as
  long as something in the node depends on it.
- **`AnswersAreOwn`**: `AnswersMatch`, for nodes that are not restarted or make
  no requests (`NoneRestarts`, the hypothesis of the theorem: after a restart
  numbers begin anew, and an old reply may meet a new request). `AnswersInv`
  says that a number on a wire or in a task stands for one request
  (`NumbersInv`), and that a request is on one wire, in one task or handled, and
  never two of these (`OnWireOnce`, `ServedOnce`).

`WebSocketProofs` (`ScriptsAssumption`: what the labels of frames mean - who
begins a message gives it a new number, who continues an unfinished one gives
the same and the next part; any clients, frames and sizes):

- **`TypeCorrect`**, from `TypeInv`: the types, and for each connection which of
  its task, permit, writer and handler can meet (`PlacesOK`).
- **`HandlersStayBounded`**: `CapBoundsHandlers`. Whoever runs, was never
  rejected and is not told to stop has a permit (`PlacesOK`), and the permits
  taken and the free ones add up to the limit (`PermitsOK`).
- **`FramesStayInOrder`**: `FramesInOrder`, from `OrderInv`: while the writer
  runs, what was sent on each way is what the client has and what is queued.
- **`MessagesStayWhole`**: `MessagesAreWhole`, from `WholeInv`: what the reader
  has assembled is the beginning of one message of the script, whose last part
  is the last data frame read, and what it has delivered was begun before.

`RpcProofs` (`RolesAssumption`: nobody is both a client and a service; any
clients, services, calls, and whoever calls whom). The proofs see of the queue
and the shelf of a process only `lines`, the shelf followed by the queue: a
receive of a reply, a callback or a request takes one message out of it, a
stash, an unstash and a timeout leave it as it is.

- **`Invariance`**: the types, and how the variables fit together. What waits or
  is on a stack names a call that was made, with the reference and the closure
  of that call (`MentionsOK`), which no other call of the process has
  (`RefsOK`); a handler is at the bottom of a stack and a closure right above a
  call (`NestOK`); open calls and calls on stacks are the same (`OpenOK`,
  `PendingOK`, `OnceOK`).
- **`CallsGetTheirOwnAnswer`**: `OwnAnswer`. A reply in the line of p is for a
  call of p, so an equal reference means an equal call.
- **`RequestsAreServedInOrder`**: `ServedInOrder`, from `InStep`: what was taken
  up is the beginning of what arrived, and the requests in the line are the
  rest, in the same order. A loop that takes one up is in no call, so it has
  nothing on the shelf, and what it takes is the first of the line.
- **`HandlersRunInContext`**: `ContextFollowsRequest`, from `ContextInv`: mail has
  the context of its call, a process that is not waiting in a call has that of
  what it is at, and a call made within another inherits it. The premise that
  nothing timed out is needed (`TimeoutContext`).
- **`CallbacksRunInTheirCall`**: `CallbacksBelongToCall`, from `RunInv`. A closure
  that is registered belongs to a call on the stack, one that runs to a call
  below it (`LentOK`, `BelowOK`). The request of a call, its handler and its
  reply are never two at a time (`TokensOK`), so that the reply is the last of
  the call in its line, what is stashed before it is no callback (`ShelfOK`),
  and nothing of the call is left once it has returned (`OverOK`). Invocations
  made are those that ran and those in the line (`RanOK`); one that finds no
  closure finds it in a call of its own (`ReachOK`, `BusyOK`).

Only model-checked:

- Every liveness property (`KilledIsReaped`, `ChildIsReplaced`, `NameFreed`,
  `CallsEnd`, `CensusSettles`, `GossipReaches` and the like): the prover has no
  ENABLED, hence no fairness.
- `NoOrphans`, `OwnerExitHeeded` and `GivenUpByBoth` are of that kind
  too.

## 5. Plan

1. `ProcessTable`, `Registry`, `Mailbox` with `SelectiveReceive`, `Supervisor`,
   `Lifecycle`, `Cluster`, `EventStream`, `WebSocket`, `Rpc` - modelled, and the
   safety invariants of their runs proved.
2. Left to model: the start of a guest's supervisor (spawned, made to trap
   exits, linked) in one model with the link table; streaming calls.

## 6. Not modelled

- The cluster's data plane: a message to another node is one QUIC stream,
  sent and forgotten; its order and its loss are QUIC's.
- Byte streams: one bounded tokio channel and a counter of chunks.
- The HTTP bridge: one process per request, no state between requests.
- Bundle cache: two maps with time stamps in front of a fetch from outside;
  concurrent fetches are allowed and the last one stays.
- Routes: a pure function over a table built once; unit tests reach its cases.
- Node, attach, REPL, profiles, configuration: a ticker, a request loop and
  parsing; metrics, observer and log format: nothing depends on them.
- The key-value store: redb's transactions carry the guarantees.
- The WASM embedding, WASI and capabilities: wasmtime's; the checks are
  conditions at the head of calls that are modelled after them.
- The TypeScript and Go SDKs (the protocol of `Rpc`), macros, compilers, the
  command line, benchmarks and examples.
