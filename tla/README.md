# A TLA+ verification project for GrokCraft

GrokCraft is a terminal coding agent (`grok-build/`, Rust) with a cloud that
mirrors its windows to a browser (`cloud/`, a Cloudflare worker, its durable
objects and a page). This directory holds TLA+ models of the parts whose
correctness depends on the order in which concurrent things happen, the TLC runs
that check them, and TLAPS proofs for every value of the constants.

`PROJECT.json` is the index: components, runs, the source lines behind every
definition, mutants, hazards, findings and theorems.

## 1. Inventory

| Component | State it keeps | Operations | What is hard |
|---|---|---|---|
| Session actor, turn lifecycle (`xai-grok-shell`, `acp_session_impl/`) | the prompt queue, the running task, the turn's epoch, the finalization gate | queue and promote a prompt, complete a turn, soft/hard cancel, rewind, shutdown | one command loop that releases its lock at every await, with turns and plan approvals spawned beside it |
| Parent-message delivery (`xai-message-delivery-core`, `parent_message.rs`, `parent_interject.rs`) | slots per message, the receipts' completion handles, the interject signal, the wait-abort mark | admit, drain at a safe point behind a persistence barrier, settle by each terminal cause | a drain suspended at the barrier while its turn is torn down; a cached signal polled by tools |
| Cloud relay of a machine (`cloud/src/relay.ts`) | the agents' and tabs' sockets with their attachments, the catalog of windows | accept, hello, session_catalog, live frames, watch, routed frames, close | closes handled after a reconnection; database awaits with the input gate open |
| Agent client, hub and mirror (`xai-grokcraft`, `grokcraft_mirror.rs`, `dispatch/grokcraft.rs`) | the connection, an outbound buffer that may lag, an inbound queue, the flags `connected` and `watching`, the last catalog's fingerprint | connect, pump, receive, drop, push catalog and snapshot, handle an event | two tasks and a network; stale events |
| Browser page (`cloud/public/js/app.js`) | its socket, its selection, the known catalog, the transcript shown | connect, select, compose, apply frames | selection and routing live in two places |
| Circuit breaker (`xai-circuit-breaker`) | five atomics and a window under a mutex | check, record, trip, close, half-open probes | every access interleaves with every other caller |
| Pairing and machine tokens (`index.ts`, `db.ts`, `store.rs`, `client.rs`) | the code rows, the machines' token hashes, one token file that a machine's windows share | authorize, connect with a token or a code, save, clear | database, relay and file updated one after the other; saves without a lock |
| Upload queue (`xai-file-utils`, `recovery.rs`) | pairs of files in a directory, a bounded channel, counters, marks of content hashes, permits, its own breaker | three ways to hand an artifact over, inline fallback, retries, parking, drain, recovery | callers, a worker, its tasks and a process that stops |
| Active-session registry (`xai-grok-active-sessions`) | one JSON file, one lock file | register, unregister, collect crashed, list | processes, signal handlers, kills between two steps of a write |
| Login lockout (`index.ts`, `db.ts`) | a counter row per address | login | read-modify-write over awaits (not modelled) |
| Interjections (`xai-interjection-core`) and prompt combination (`xai-prompt-queue`) | an event queue; a prefix of the queue | push, drain, restore on cancel; merge | order across a cancel (planned) |

The other components (tools, workspace, worktrees, stores, sampler, terminal UI,
authentication, telemetry and so on) are listed in `PROJECT.json` with the reason
they are left out: they are I/O, rendering, free text or simply not reached.

How they interact: the pager feeds the session actor through its command channel;
turns run as futures on the same LocalSet and report through a completion channel;
a parent agent reaches a child session through admissions and receipts. The
pager's event loop and the agent client share the hub; the client and the page
talk to the relay over WebSockets; the relay alone talks to the database from
`hello`, and the worker's request handlers hand it sockets and tokens. The breaker is
a library value shared by the callers of storage and HTTP clients. The upload queue
and the active-session registry are shared by the processes of one machine through
the file system only.

What makes each part correct: every receipt is answered once and every text shown
at most once; no message or mark of a finished turn affects the next; the gate is
always reopened; the catalog tells the truth about sockets; a prompt goes to the
window that was selected; the page ends up with the transcript that was pushed last;
the breaker limits probes and always recovers; an accepted upload survives the process and no
waiting caller or shutdown hangs; the registry's file is always a whole list in which
each open session is accounted for; an authorization that reached its windows holds,
and a machine always finds its way back to a connection.

## 2. Modules

| Module | Models | Composes |
|---|---|---|
| `Receipt` | abstract: what a parent agent is promised about a message | - |
| `TurnDelivery` | turn lifecycle and parent-message delivery of one session | implements `Receipt` |
| `MCTurnDelivery` | instances for TLC | `TurnDelivery` |
| `TurnDeliveryProofs` | theorems: types, slots, signal and mark; the command loop, its queue and its gate | `TurnDelivery` |
| `ReceiptProofs` | theorems: who answers, what is shown, the refinement of `Receipt` | `TurnDeliveryProofs` |
| `MachineRelay` | the durable object: sockets, catalog, subscriptions | - |
| `LiveMirror` | windows (client, hub, pager mirror) and pages around the relay | `MachineRelay` |
| `MCLiveMirror` | instances for TLC | `LiveMirror` |
| `MirrorProofs` | theorems: what holds at every moment, and that pages agree with the relay | `LiveMirror` |
| `MirrorQuietProofs` | theorems: what windows and pages have settled once nothing is under way | `MirrorProofs` |
| `CircuitBreaker` | the breaker, one atomic access per step | - |
| `MCCircuitBreaker` | instances for TLC and the setting of one of the crate's tests | `CircuitBreaker` |
| `CircuitBreakerProofs` | theorems | `CircuitBreaker` |
| `UploadQueue` | the spill-to-disk queue and the recovery of its directory | - |
| `UploadQueueProofs` | theorems | `UploadQueue` |
| `Registry` | abstract: a map from sessions to processes changed by single operations | - |
| `ActiveSessions` | the locked read-modify-writes of the registry's file | implements `Registry` |
| `ActiveSessionsProofs` | theorems | `ActiveSessions` |
| `Pairing` | authorization requests, the relay's notification, the windows and their token file | - |
| `PairingProofs` | theorems | `Pairing` |

### TurnDelivery

An action is one lock section of the command loop (`pc` says where its handler
stands between two of them, `lease` and `settling` are the locals it carries over
an await) or one step of a spawned future. `queue`, `running`, `gate` and
`rewindable` are fields of `State`; `slot`, `signal` and `mark` are the lifecycle
and the signal. A message's slot is found by its id, and `at` keeps the order of
the VecDeque. The epoch stands for the whole `TurnBinding` and the `TaskIdentity`:
`start_next_turn` never reuses one. `Transition` is the lifecycle's terminal
transition with its table of causes (which messages fall back to prompts, which
are answered). `SafePoint`, `Commit`, `CommitFails` and `BarrierFails` are the
drain around the persistence barrier. `CancelClaim` to `Finish` are the steps of a
cancel: claim, early abort, teardown, transition, settlement, release, re-kick.

`Receipt` is the parent's view of all this: a message is admitted, its text enters the
conversation at most once and only while its receipt is open, the receipt is answered
once. `ImplementsReceipt` maps `given` to the admissions, `answered` to the answers and
`texts` to what safe points showed; slots, turns, cancels and queues stutter.

Left out: where a send-now prompt is placed, edit holds and prompts blocked by
hooks, combining queued prompts, prompts made by goals and notifications, what a
rewind truncates, the persisted update stream, and refusal of a slot reservation.

### MachineRelay and LiveMirror

A socket is a record with the frames on their way up and down; `live` becomes
false when the connection breaks and `st` when the relay handles the close, so
the two are separate events. `OnHello`, `HelloSaves`, `HelloFails` and
`HelloBroadcasts` are the stretches of the `hello` handler between its database
calls; every other modelled handler of the durable object runs without an await that
opens its input gate, and is one action (`status`, a frame relayed verbatim and left
out, also awaits the database, in `maybeTouch`, `relay.ts:347-348`). Session lists and transcripts are version
numbers: list 0 is empty, 1 is the placeholder session a window shows before its
session has an id, 2 and above are real, which is all the page tells apart.
Messages are not delivered to the relay after it closed a socket itself.

Of the pager's event loop only the arm of ACP messages pushes (`event_loop.rs:2230`):
`StateChanged`. Task results (a session created, the answer of a prompt) and the keyboard
change the list and the transcript without a push: `ChangedUnpushed`; so do inbound prompts
in `HandleEvent`. `pushed` is a history variable, what the pager showed when it last pushed
over a connection.

A window of `ByCode` connects with a pairing code or a token, whichever it has then.

Left out: `notifyPaired` and tokens (see `Pairing`), hidden windows, frames relayed verbatim
(commands, models, usage, reveal, status), the `load_session` frame a click on a saved
session sends (`app.js:911-913`), a compose that selects and is then refused
(`app.js:1622-1627`, which is a `Click`), the `last_seen` throttle, and a restart
of the durable object. A window that connects with a pairing code may leave an
entry behind when its socket closes while `hello` waits for the database; this is
what the code does, and `CatalogMatchesSockets` asks of such windows only that no
entry is lost.

### CircuitBreaker

`caller[c].pc` is the access the caller makes next, with the locals it holds.
`probes` wraps at `WORD`, as `AtomicUsize` does at 2^64. The window keeps counts;
which samples have expired or fell to the cap of 10,000 is left open, so every
outcome of `evict` is covered. Every step also updates histories that only properties
read (`Note`): until when a call was inside (`busyUntil`), which check runs by itself a
cool-down after that (`lone`), when the present run of trips began (`trippedAt`), which
checks no trip between its two stores has met (`clean`), and whether the last change of
state began before an earlier one was mirrored (`crossed`). Accesses interleave sequentially consistently: the
weaker orders that Acquire/Release allow between different atomics are not
modelled, so what holds here is necessary, and every counterexample is real. A
disabled breaker changes nothing and `force_half_open` is for tests; neither is
modelled.

### UploadQueue

`Own(i)` is the item a caller made for artifact `i`, `Rec(i)` the one the recovery made
from the files of an earlier life; both name the same temp file and sidecar, which is
why a life's recovery and its calls must not meet. An item's `pc` is its place in
`enqueue_core`, the channel, `dispatch_item`, `process_item` or the inline fallback;
between two values of `pc` there is an await or an access other tasks can observe.
`Crash` keeps `temp` and `side` and nothing else. `owed` is a history variable: the
artifacts the queue accepted with a sidecar that are neither uploaded nor given up.
Ages, answers of the server and the recovery of credentials are open choices.

`WriteFails` is the write of the temp file that fails (disk full): `enqueue_core` returns
at once (`queue.rs:755-759`) and what was written of the file may stay, which the place
"torn" remembers. `WriteError` is the failure of the sidecar, after which the temp file is
removed. The `.tmp` file that `write_atomic` may leave of a sidecar is not modelled.

The workspace finishes the recovery before the first call, and so does the model. The
shell detaches it (`trace.rs:1120`): there a fresh pair may be taken for one of an
earlier life and be queued twice. This is listed as a hazard and not modelled.

### ActiveSessions and Registry

A process is a window. Each operation goes through `lock`, `read`, `write`, `writing`,
`rename` and `unlock`; it may fail at each, and the process may end at each, which frees
the lock (the system drops an advisory lock with its process). `unregister` gives up
when the lock is taken. `Registry` is one map changed by whole operations; the
refinement maps it to the file's content, so the abstract operation happens at the
rename. `mine`, `opened` and `found` are history.

### Pairing

`path` and `tmp` are names that lead to inodes, because `save` keeps writing to the
inode it opened when another window has renamed it away. `store::save` is three steps
(create, write, rename) and takes no lock. A request is three steps as well:
`upsertMachine`, `notifyPaired`, `consumePairing`. A request that fails between two of
them simply goes no further. Writing a store without a token over one with a token
leaves the longer text's end behind and does not parse (`Written`).

`sent` and `heard` are history: what `notifyPaired` sent last, and the windows whose save of
it, made or to come, must stand. A window leaves `heard` when it is cut off before it took
the frame; those that took it leave when something else is saved too or a save is cut
short (`NoteSave`, `StillToSave`).

Left out: the text and expiry of codes, accounts, removal of a machine, the removal
before the rename that Windows needs (`store.rs:55`), and a machine without a file at
the start: the model begins with an identity that is not paired.

## 3. Runs

| Run | Instance | Question and answer |
|---|---|---|
| `turn_delivery` | one user prompt, two messages, two slots, fairness | ownership of receipts, delivery order, signal, mark and gate hold under every cancel, failing barrier and shutdown; every receipt is answered; `Receipt` is implemented |
| `turn_resume` | a plan approval off the loop, one message sent twice, one slot | the running prompt stays the front one, no prompt is stranded and `Receipt` is implemented although a prompt arrives between two lock sections and an id is reused |
| `turn_lease` (violation) | a plan approval and an idle cancel | the gate stays closed for ever; see findings |
| `mirror_windows` | two windows, one page that clicks and prompts | nothing crosses between windows |
| `mirror_reconnect` | one window with a code or a token, two sockets, one lost connection | the catalog is true, complete, known to the page and as last pushed, although `hello` waits for the database or fails there |
| `mirror_live` | one window, a page that reconnects | mirrored exactly while watched; the transcript that was pushed last arrives |
| `mirror_frozen` (violation) | a window whose new socket replaces the old one | it is not mirrored although selected; see findings |
| `breaker_races` | two callers, five checks | a check that comes by itself one cool-down after the last call is let through, whatever raced; mirror and cool-down are exact under overlapping calls, but for the two races of section 5 |
| `breaker_probes` (violation) | two callers that only check | both are let through on one slot; see findings |
| `upload_queue` | two artifacts of two sizes and one content hash, one channel slot, one permit, one restart | no durable artifact is lost; counters and marks are exact; no file strays but of a failed write; every waiting caller is answered; every shutdown ends |
| `active_sessions` | three windows, two sessions, two openings | readers find a whole list; each entry is in the file or reported to one window; `Registry` is implemented; nobody keeps the lock |
| `pairing` | two windows, two authorizations, one fault | a delivered authorization holds, also when the saves overlap; the identity is kept unless they do; every window connects again |

What the properties leave out, because the code does not keep it there:

- `EntryAccounted` speaks of sessions only one window ever opened. Entries are keyed by
  the session, so of two windows on one session the first to close it removes the
  other's entry.
- `IdentityKept` ends with the first overlap of two saves or failed read: two windows that save at once share the temporary name, one renames what the
  other has just emptied, and a third then finds nothing that parses and makes a new
  machine (`load_or_create`, `store.rs:66`).
- `PairingHolds` speaks of overlapping saves of the token that was sent last, after any
  history of the file. It does not speak of a token sent after a later request had stored
  its own (stored in one order, sent in the other), of a token during or after whose last
  save something else is saved (a window refused for an older token saves the store it read
  before, without the new one, `client.rs:62`), and of a save cut short among the others.
- `ViewIsLastPushed` and `CatalogIsLastPushed` speak of the last push. What task results,
  the keyboard or an inbound prompt changed since is not pushed.
- `MirrorIsExact` leaves out a change of state that began before an earlier one was mirrored
  (the next one that begins by itself puts the mirror right); `CoolDownKept` leaves out a
  check during which a trip had stored `Open` and not yet its time.
- `NoStrayFiles` leaves out what a failed write of a temp file left, lives after the first
  and aborted workers; the two-hour sweep takes these.
- `NothingLost` counts what the recovery scan deletes as given up, also a pair it cannot read
  for the moment (`recovery.rs:132-140`, `162-173`) or finds altered (`202-211`).
- `CatalogMatchesSockets` asks of windows on a pairing code only that no entry is lost.

### Bounds

Turn runs: `MaxSlots` is `MAX_PARENT_SAFE_POINT_SLOTS`, small so that the cap is
met; two messages are the least that can be misordered, and `MaxAdmits` = 2 lets an
id be reused. Epochs need no bound: every turn consumes a prompt.

Mirror runs: `AgentConns` and `TabConns` bound connections, `MaxDrops` those that
break, `MaxList` and `MaxText` changes, `MaxInputs` clicks and prompts. `MaxBusy`
bounds the frames and events under way when something new starts (a broken
connection may always come), which keeps queues short and still lets a new event
meet one in flight. `MaxList` = 2 of `mirror_reconnect` lets a list change before, during
and after the one lost connection, with and without a push. Two sockets of one window and two connections of one page are
what a race between an old and a new connection needs. Two windows that also lose
connections were checked once (3.9 million states) and are not kept as a run.

Breaker runs: `MIN_SAMPLES` = 1 and one probe slot reach every transition in few
calls; two callers and five checks suffice for trips and closes that cross, a cancelled
probe, a caller caught between its accesses, where the counter wraps, and the check by
itself afterwards. `MaxTime` lets the cool-down pass; `WORD` = 8 is never reached from below.

Upload queue: one channel slot, one permit and a byte budget of two units make two
artifacts meet a full channel, a busy permit and a spent budget; the larger artifact
exceeds the inline budget; `Threshold` = 1 opens the queue's breaker; one restart
suffices for a pair to be recovered, and a second life's items differ from the first's
only in their files. The two items share a content hash, so one blocks the other.

Registry: three windows are a holder, a waiter and one that finds the dead; `MaxOpens`
= 2 allows two entries, or one session opened twice. What is proved covers any number.

Pairing: two windows are what an overlap needs; two authorizations can cross;
`MaxFaults` = 1 of any kind. `MaxIds` = 4 is never reached, so it takes no step away.

Deadlock is not checked in any run: a session that was shut down stops, and the
other models stop when their bounds are used up.

### Fairness

`FairSpec` of `TurnDelivery` assumes that the loop's handlers go on, completions
are taken from their channel, barriers resolve and tools return (weak fairness:
tasks of a running executor), and that a turn ends if it can again and again
(strong fairness: each safe point or tool call interrupts the chance to end, and
the model answers without tools eventually). Prompts, cancels, admissions and plan
approvals have none.

`UploadQueue`: each call, task and the worker take their next step (weak fairness), and
`Dispatch` is strongly fair, because the semaphore serves first come first. Nothing
obliges credentials to recover, an item to expire, a drain's deadline to pass or the
process to stop, so callers and shutdowns must do without.

`ActiveSessions`: a process that runs goes on, and a free lock is handed to a waiter in
the end (`SF` of `Lock`, what the system's lock queue provides); failures and ends are
not obliged. `Pairing`: only the windows' loop is fair, because `run_client` retries for
ever; requests and closes need never happen. `EveryWindowReturns` holds even so.

## 4. Proofs

Each theorem holds for every value of the constants that satisfies the module's named
assumption.

### The session actor

`TurnDeliveryProofs`:

- `TypeCorrect`: `Spec => []TypeOK`. Lists of messages are built by
  `InOrder`, a choice of the bijection that sorts by `at`; that such a list exists
  needs distinct numbers, so the invariant carries `SlotOrder` (occupied slots
  have distinct admission numbers, none above `serial`), and `InOrderLists` constructs the
  bijection from ranks.
- `DeliveryInvariant`: `Spec => []DeliveryInv`, with `DeliveryInv` = `TypeInv` /\
  `Coherent` /\ `Finalized`. `SlotsBelongToRunningTurn` is not inductive alone: a
  handler clears the slots in one lock section and releases the task in a later
  one, so `Finalized` remembers that between them no slot of the leased turn is
  occupied; and a late wait tool could mark a future turn unless captured epochs
  and marks never exceed the current epoch (`Coherent`).
- `NoSlotOutlivesItsTurn`, `SignalExact`, `MarkExact`: the three parts a reader
  wants, as consequences.

Of the command loop, in the same module:

- `FrontRuns` (`FrontIsRunning`) and `NoPromptStranded` (`NoStrandedPrompt`), from
  `LoopInv`, which adds `LeaseHeld`: what a handler that holds the finalization lease
  may rely on between two of its lock sections (the gate is closed, the task is the
  leased one until it is released) and that a closed gate without a lease means that
  nothing runs. Without it a completion could pop a row that a cancel has already taken.
- `GateOwned`: `ASSUME Resumes = {} PROVE Spec => []GateHasOwner`, from `LoopInv` and
  `BindingKept`. The hypothesis is the boundary of a real defect: with a plan approval off
  the loop the statement is false, and the run `turn_lease` shows it. Sessions
  without a restored plan approval are exactly the instances with `Resumes = {}`.

`ReceiptProofs`:

- `ReceiptsOwnedOnce` (`ReceiptOwnedOnce`), from `OwnedInv`: the three places that can
  owe an answer (slots, messages about to be settled, queued rows) are disjoint, no
  message has two rows, and there is something to settle only while a handler is settling.
- `ShownOnce` (`ShownAtMostOnce`), from `HistoryInv`: the latest admission of a message
  is in the history only if its text waits neither in a slot nor in the queue.
- `DeliveredInOrder` (`DeliveryOrder`), from `OrderInv`: what was shown was admitted before
  what still waits in that turn, and what a failed barrier left projecting before what is
  pending. The order of the shown texts alone says nothing about the next batch.
- `ActorImplementsReceipt`: `Spec => ImplementsReceipt`. A step that answers must map to
  `Close` of open receipts, which needs `OwnedInv` on both sides of the step; a
  commit maps to `Speak` because `HistoryInv` says that those texts are new (the mapping
  is `Texts`).

### The mirror

`MirrorProofs`, for any number of windows, pages, connections and frames under way:
`MirrorTyped` (`TypeOK`), `PromptsArrive` (`PromptReachesSelection`), `ViewsMatch`
(`ViewOfSelection`) and `CatalogTrue` (`CatalogMatchesSockets`), all from one invariant:

- `WiresInv`: a prompt on its way to a window is for it (`Addressed`); of the frames a
  page sent, each prompt is governed by a watch of the same window, either the last
  watch before it on the wire or what the relay has handled already (`Ordered`). The relay routes
  by `watch`, which changes while the prompt travels, so this is what makes the route right.
- `PageInv`: a page's socket is its own and the last watch it sent is of its selection,
  which gives `Ordered` for the next prompt.
- `SocketInv`: a window has at most one socket the relay takes for open, and its live
  socket is the one its client holds. Without this a late close of an old socket could
  remove the entry of the new one, and `CatalogMatchesSockets` would not be inductive.

`PagesAgree` proves `PageAgrees`. Quiet states are the end of a history of frames, so the
invariant has to say what is on a page's wire at any time. `AgreeInv`, for a connected page:

- `Fresh`: the last catalog on its wire is the relay's; if there is none the page knows the
  relay's catalog and calls the machine online correctly. This is claimed only while no
  `hello` waits for the database between saving the catalog and broadcasting it (`NoneDue`):
  in that window the wire is behind.
- `Told`: of the frames behind the last catalog, `machine_offline` is there only if no window
  has an open socket, a snapshot only if one has, and `machine_online` never. A snapshot turns
  a page online by itself (`app.js`), so without this part a page could end up online
  with no window left.
- `Chosen`: the selected window is in the catalog the page knows. The snapshot case of `Fresh`
  needs it: a page is online only if its catalog is not empty.

A step either leaves the wires to the pages (`AgreeStill`), adds one frame that is no catalog
(`AgreeNoted`), broadcasts the catalog last or followed by `machine_offline` alone
(`AgreeBroadcast`), or moves one page (`AgreeMoves`). `HelloInv` says that `hello` comes once on
a socket; a second one, with a pairing code, would make a due broadcast look done.

`MirrorQuietProofs` proves the other four statements about quiet states. None of them holds
of every behaviour, and each theorem names the behaviours it leaves out:

| Theorem | Property | Behaviours |
|---|---|---|
| `CatalogSettles` | `CatalogIsLastPushed` | `[]Room` |
| `SelectionMirrors` | `SelectionIsMirrored` | `[][NoSocketReplaced]_vars` |
| `MirroringIsWatched` | `MirrorsOnlyWatched` | `[][NoRequestLeft]_vars` |
| `ViewSettles` | `ViewIsLastPushed` | `[]Room` and `[][NoSocketReplaced]_vars` |

The hypotheses are conditions on the run of the system and not on the constants, and each is
the complement of a disagreement of section 5:

- `Room`: every window's outbound buffer has two places left, as many as one push takes (a
  catalog and a snapshot). The buffer of the code holds 256 frames (`hub.rs:10`), and the
  select loop empties it; a window that outruns its socket by that much loses the oldest
  frames, and what it lost is not sent again.
- `NoSocketReplaced`: a window that connects has no socket the relay still takes for open, so
  the relay has handled the close of the earlier one. Otherwise the run `mirror_frozen`
  shows the window unmirrored.
- `NoRequestLeft`: a window that connects does not mirror yet and has no `RequestSnapshot` of
  an earlier connection in its queue.

A first connection satisfies the last two, and so does every reconnection that comes after the
close was handled and the queue was emptied; only the connecting step is restricted, and nothing
else about drops, late closes, hellos or clicks.

A quiet state says nothing about how it came about, so each invariant says what the frames under
way will amount to. `Settles(s, K, G, now)` is the common form: of the messages `K` on the wire
`s` the last is one of `G`, or there is none and `now` holds. The lemmas `SettlesSend`,
`SettlesTake` and `SettlesPast` say what sending and taking a message do to it.

- `CatalogInv`: for a window that connected with its token, either a `Status` waits in its queue
  (it will reset the fingerprint), or the fingerprint is that of the list pushed last and the way to
  the relay, buffer and wire together (`Way`), settles on that list.
- `OnlyInv` and `SelInv` use `Mirrors(i)`: what comes to the window, its queue and the frames on
  its wire (`Coming`), settles on a request, or it mirrors already and nothing changes that.
  `OnlyInv`: a connected window of which this holds is watched by a browser. `SelInv`: of the
  window a page selected, this holds and the window has an open socket, unless the page's own
  watch is on its way or the answer that the window is gone is (`Waits`). Only the
  relay's recomputation changes who is watched, and it writes to every open socket, so
  after it both sides agree again (`Subscribed`); an offline answer takes the selection back.
- `ShowInv`: unless the page waits, or the window is to push afresh or does not mirror, the way
  from the window to the relay settles on a snapshot of the text pushed last, and if there is no
  snapshot on it the wire to the page does, and if there is none there either the page shows
  it: `Shows` is `Settles` inside `Settles`. Taking a snapshot from the first wire puts it on
  the second only if the window is watched; `SilentWatches` gives that from `PageInv`.
  `SelInv` is needed once more for a connecting window: the page of a window without a socket
  waits, so nothing is owed to it.

### The breaker

`CircuitBreakerProofs`, for any number of callers and any configuration:

- `BreakerTypes`: `Spec => []TypeOK`, in which the counter stays in its word.
- `BreakerRecovers` (`LoneCheckAdmitted`, an action property of `check`'s own steps), from
  `BreakerInv` (neither stamp and no caller's reading of the clock lies in the future; a
  caller stores a reading it took earlier) and `LoneInv`: the stamps are no younger than the
  last call (`StampsBusy`), so a check by itself finds both a cool-down old, and what it has
  read stays so at each of its steps (`LoneOK`). In particular it never loses a race, and a
  counter that says every slot is taken leads it to the lease, which it takes over.
- `MirrorExact` (`MirrorIsExact`), from `MirrorOK`: unless changes of state crossed, one
  caller at most has the mirror still to store, and the state is the one it stored.
- `CoolDownHolds` (`CoolDownKept`, an action property), from `CoolDownOK`: every stamp on its
  way, and, once none is, the stored one, is no older than the run of trips it belongs to,
  and so is what a check has read that met no trip between its two stores.

### The upload queue

`UploadQueueProofs`, for any set of artifacts, any limits and any number of restarts:
`TypeCorrect` (`TypeOK`), `NeverLost` (`NothingLost`), `CountersExact`
(`CountersAreExact`), `MarkOwned` (`MarkHasOwner`) and `NoFileStrays` (`NoStrayFiles`), from

- `ItemInv`, per artifact: its own and its recovered item are never both active, an item
  that waits or runs has its file, one that is not yet accepted or is over owes nothing,
  and in the first life the files go with the item, or are a failed write's ("torn"). `NothingLost` alone is not inductive:
  a deletion of the file is right only because the item that does it owes nothing by then;
- `ChannelInv`: the channel and the worker hold the queued items, each once;
- `MarkInv`: one live item at most owns the mark;
- `CountersInv`: the counters are cardinalities of the items in the queue. `inflight` is
  bounded from both sides by the items past and before its update, which is what keeps
  the unsigned counters from going below zero; hence `TypeOK` is proved last.

### The registry

`ActiveSessionsProofs`, for any sets of windows and sessions:

- `TypeCorrect`: the registry's file is a whole list at every moment; nothing but a
  rename of a finished temporary file writes it.
- `RegistryImplemented`: `Spec => ImplementsRegistry`. A rename is an operation on what
  the file holds *now* only if the copy it publishes was made from that. Hence the
  invariant `Inv`: a process between its lock and its unlock is the lock's holder, so
  there is one at most, and the temporary file of one about to rename is its copy
  (`LockHeld`); and the copy of one past its read differs from the present content by
  its operation alone (`CopyIsCurrent`). Processes may end between read and rename; the
  copy then lacks only entries of processes that had ended by the read, which is what
  the abstract `Collect` allows.
- `EntriesAccounted`: `Spec => []EntryAccounted`, with `Provenance` added: whatever is in
  the file or was found was opened by that process, and only ended processes are found,
  so that no entry can come back after it was reported.

### Pairing

`PairingProofs`, for any number of windows, authorizations, identities and faults:
`IdentityStays` (`IdentityKept`, an action property), from `IInv`: unless the machine was
disturbed,

- `DiskInv`: the file holds a store of the first identity; one window at most is saving,
  the temporary inode is another than the file's, empty before the write and the store
  after it. This is why a rename publishes nothing torn;
- `CloudInv`: every socket, frame, token and request is of that identity.

and `PairingStands` (`PairingHolds`), from `Stands`, which holds however the machine was
disturbed:

- `RequestsInOrder`: requests store one after the other, and the token of the newest is in
  the database until it is sent. So what `notifyPaired` sends is what the database holds
  (`TokenKept`);
- `FramesEnd`: the last frame before a window that is still to save is that token;
- `InHand`: once a window took it, whoever saves saves it, and one is only beginning, or
  the inode that the file's name will lead to when those who write and rename are done
  (`Leading`: the temporary one while there is one and somebody to rename it) holds it or
  has a writer at it (`Good`). The file itself may be torn meanwhile: a rename publishes an
  inode its other writer has just emptied. Neither a write nor a rename changes `Leading`,
  and a window that creates becomes the writer of the new one. A window that finds the
  temporary name gone has its rename fail and loses nothing.

That `Create` finds a free inode (`SpareInode`) is a count of the windows' descriptors.

### Assumptions

`ConstantsAssumption` (disjoint kinds of prompts, a finite set of messages),
`RelayAssumption` and `MirrorAssumption` (the marker of absence is no window and no
number; bounds are natural numbers), `BreakerAssumption` (natural numbers, at least one
probe slot, which `with_clock` enforces), `QueueAssumption` (finitely many artifacts,
positive limits), `SessionsAssumption` (there is a session; the two markers are no process
and no list) and `PairingAssumption` (finitely many windows, at least one identity; what
does not parse is no store). TLC evaluates each of them.

### Only model-checked

Liveness, which is outside the prover's reach: `EveryReceiptAnswered`,
`EveryCallerAnswered`, `EveryShutdownEnds`, `EveryOperationEnds`, `EveryWindowReturns`.

Every invariant and every action property of the runs is stated by a theorem. `GateHasOwner` and
the four properties of `MirrorQuietProofs` are proved under a named hypothesis; in the runs
it is the instance that keeps the excluded case away. No module declares a RECURSIVE operator.

## 5. Findings

1. `turn_lease`: a cancel of an idle session claims the finalization gate; if a
   restored plan approval queues its prompt during the teardown's awaits, the
   binding no longer matches, `cancel.rs:528` returns `noop()` and drops the lease
   with the gate closed. No prompt is promoted for the rest of the session.
2. `mirror_frozen`: when a window's new socket replaces the old one before its
   close was handled, nobody tells the window to mirror again (`relay.ts:95`).
3. `breaker_probes`: a probe slot is claimed before its time is stored
   (`breaker.rs:279-283`), so a second caller in between takes the fresh claim for
   an abandoned one. The test `cas_loss_recovery_with_mock_clock` asserts that
   exactly one thread is let through.

Disagreements seen without a run of their own, each found by TLC when a passing
run's instance is enlarged:

- `MirrorsOnlyWatched` fails with two sockets of a window: a `RequestSnapshot` of a
  lost connection, handled late, sets the flag for the next (`dispatch/grokcraft.rs:131`;
  `PROTOCOL.md:32` says snapshots go only to a watched session).
- `CatalogIsLastPushed` fails when the outbound buffer (`OUTBOUND_CAP` = 2, `MaxBusy` = 3)
  overruns: the dropped list's fingerprint was already recorded (`grokcraft_mirror.rs:63`).
- The mirror is wrong at rest when changes of state cross: close's late stores
  (`breaker.rs:270`) land after another's trip. The field is documented as a mirror of
  `state == Open`. `MirrorIsExact` without `~crossed` fails.
- With overlapping calls a claim decided under HalfOpen can land after the trip, against
  the comment at `breaker.rs:211`.
- Trip publishes `Open` before the opening time (`breaker.rs:249`), so a check in between
  ends the cool-down at once. `CoolDownKept` of all checks fails.
- A page is not at the latest when all is quiet: of the event loop's arms only the ACP one
  pushes, so a session created or a prompt answered (`event_loop.rs:2257-2297`), a key
  (`2345`) or an inbound prompt (`dispatch/grokcraft.rs:76-100`) is seen with the next ACP
  message or request. With `pager` for `pushed` both properties of the last push fail.
- A failed write of a temp file leaves what was written (`queue.rs:755-759`); a failed
  sidecar removes it (`778-780`).

`LoneCheckAdmitted` shows why none of the breaker's races is fatal.

## 6. Not modelled, and the plan

The map covers a small share of the repository, which holds more than a million lines.
Most of them are not state that several actors share: terminal rendering, free text,
tool implementations that call the operating system, configuration, vendored code and
tests. `PROJECT.json` gives the reason for each component.

Within the modelled parts the following is left out: the login lockout (two failed
logins in flight are counted once; one row, two awaits); rewinding and its truncation of
the chat; a restart of the durable object, whose events the repository does not
determine; reuse of process identifiers; the detached recovery of the shell; the removal
before the rename on Windows.

Next, in this order:

1. `LiveMirror`: an abstract catalog (windows come and go) that the relay implements.
2. `Interjections`: the event queue, the buffer and restoration on cancel; the
   combination of queued prompts as an algorithm; the breaker's window as an algorithm
   against a reference over a list of samples.
3. `TurnDelivery`: send-now placement and prompt combination.

## 7. Running the checks

In this directory, `tlc -config <run>.cfg <module>` with the names from
`PROJECT.json`, and `tlapm <module>` for `TurnDeliveryProofs.tla`,
`ReceiptProofs.tla`, `MirrorProofs.tla`, `MirrorQuietProofs.tla`, `CircuitBreakerProofs.tla`,
`UploadQueueProofs.tla`, `ActiveSessionsProofs.tla` and `PairingProofs.tla`. From nothing the
proofs take some minutes each.
