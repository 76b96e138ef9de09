# PhantomStream: TLA+ models, checks and proofs

PhantomStream mirrors a live web page. A *capture* runs in the page, observes
its DOM and sends a full snapshot followed by diffs; a *viewer* rebuilds the
page in a sandboxed iframe and applies the diffs by node id (nid); a *relay* or
any other transport carries the messages between them, and *adapters* drive the
capture from a browser extension, a bookmarklet or Playwright.

Most of the code is sequential and well tested. What tests hardly reach is
what happens *between* its callbacks: the microtask of the MutationObserver
against the lifecycle calls of the host, the frame callback against the
watchdog, a diff against the load event of an iframe, a STOP against a storage
read, an eviction of a service worker between two awaits. That is what the
modules here are about.

Paths below are relative to the repository. `PROJECT.json` lists the components
with what is modelled of each, the code lines every definition translates, and
the hazards of this code line by line with the properties that cover them.

## Inventory

| Component | State it keeps | Operations | What is hard | What makes it correct | Module |
|---|---|---|---|---|---|
| Capture core (`src/capture/index.js`) | `streaming`, observer, `pendingMutations`, node mirror, stream identity | `start`, `stop`, `pause`, `resume`, observer callback, `flushMutations` | an edit reaches the wire in three steps, lifecycle calls fall between them | each edit once and in order (a batch's shadow-root edits last); nothing missed but what happens while paused | `CaptureSession`, `OrderedFeed` |
| Flush scheduling (same file) | `batchTimer`, `watchdogTimer`, `lastDrainTs` | `scheduleMutationFlush`, `watchdogTick` | frames that never come or are cancelled in time | a pool is always scheduled, waits no longer than the threshold, always leaves | `FlushWatchdog` |
| DOM diff batching (same file) | node mirror | `processMutationBatch` | reads the live tree, later than its records | the ops of a batch rebuild the page | `DomDiff` |
| CSSOM capture (same file) | style registry, owners, scopes, pool | patched sheet methods, reconciliation, fresh snapshots | three sources of change, names that are positions | the page's sheets in cascade order | `CssomStyles` |
| Serialization, masking, truncation (same file) | none beyond the node mirror | `serializeDOM`, `processAddedNode`, `sanitizeForWire`, `fitSnapshotPayloadForBudget` | six paths that each apply the host's rules | the paths agree; ops find what ought to be shown | `WireCopy` |
| Media tracker, reconciliation, playback (`capture`, `protocol/media-reconcile.js`, `renderer/index.js`) | tracked elements, baseline | media frames, `reconcileMediaDrift`, `applyMediaAction` | two clocks, latency, loops, blocked autoplay | the mirror plays along and stays near | `MediaMirror` |
| Viewer stream (`src/renderer`) | `active`, `viewerState`, index, misses, `resyncPending` | `handleSnapshot`, `handleMutations`, `load` listeners, `requestResync`, asset gates | srcdoc loads while diffs arrive; nids are paired by place | ops change their own session's document and element; drift is counted; a resync completes | `PageScript`, `MirrorDocument`, `MirrorStream` |
| Viewer public state and subtree requests (`src/renderer/index.js`) | `publicState`, disconnect timer, request latches | transport status, `requestSubtree`, `handleSubtreeResponse`, `detach`, `destroy` | timers and answers against late frames | a disconnect is real; an answer is one's own and complete; a request settles unless the relay dropped it | `ViewerLifecycle` |
| Viewer media player (`src/renderer/media-player.js`), hints of the adapters | player registry, pending hints | hints, lazy import, attach, degrade | imports that end after teardown, stale identity | the right element; no stray player but the named ones | `AdaptiveMedia` |
| WebSocket transport and relay | send and decode queues, open gate; rooms | `send`, `close`, `addClient`, `receive`, `removeClient` | awaits between test and use; drops | ordered, at most once, to the other role; queues drain | `RelayChannel`, `LossyChannel` |
| MV3 adapter (`src/adapters/extension.js`) | session state in memory and storage, alarm | `install`, `handleControl`, `handleWatchdog` | eviction between awaits | the last command's intent is stored; a stranded stream restarts | `ExtensionWatchdog` |
| Playwright adapter | control state, CDP session | `requestControl`, `stopControl`, `dispatchRemoteAction` | consent and driver calls are awaited | no input after stop; buttons come up | `RemoteControl` |
| Reference implementation (`reference/`) | preview state, timers, parked start | dashboard, relay, extension and content script | two sockets that drop, worker restarts | a preview does not load for ever nor mix two pages | `ReferencePreview` |
| Bookmarklet, CLI, examples, generated bundle | | glue | | | |

How they interact: a host calls the capture's lifecycle; the capture calls
`transport.send`; the transport (a loopback, or WebSocket and relay) delivers
to `dispatch` of each viewer in order, or drops; a viewer that has counted
enough misses sends `CONTROL.START`, which the host (or the MV3 worker, which
forwards it to the content script) answers with `start()`, which begins a new
session for *every* viewer. Subtree requests, remote-control frames and media
hints travel on the same channel beside the stream.

The modules meet in two abstract specifications. `OrderedFeed` says what a
capture promises: `CaptureSession` is proved to implement it, and `MirrorStream`
assumes no more of the capture behind a viewer, on a page without shadow roots
(`InShadow = {}`). `LossyChannel` says what the room promises: `RelayChannel` is proved
to implement it. Not every module above the transport assumes as little. `MirrorStream`
may lose any message of the stream or the control; in `ViewerLifecycle` the relay drops
single frames of an open connection, both ways; in `AdaptiveMedia` a hint or a snapshot
may be lost; `ReferencePreview` has a relay of its own, whose losses it models.
`RemoteControl` and `MediaMirror` assume more: their viewer is connected from the start
and its channel loses nothing, so what they show is shown of such a channel only.

## Modules

### CaptureSession and OrderedFeed

The core of the system: an edit of the page, the observer's queue, the pool,
the flush and the four lifecycle calls.

| TLA+ | Code |
|---|---|
| `queued`, `pending` | records held by the `MutationObserver`; `pendingMutations` |
| `observing`, `streaming`, `tracked` | observer connected; the `streaming` flag; node mirror populated |
| `session` | the pair `streamSessionId`, `currentSnapshotId` |
| `sent` | everything given to `transport.send` |
| `Edit`, `ObserverCallback`, `Flush` | the page; the observer's microtask; `flushMutations` |
| `Start`, `Stop`, `Pause`, `Resume` | the API of the same names with all they call (`stopMutationStream` with its final flush, `beginStreamSession`, `clearNodeMirror`, `serializeDOM`, `startMutationStream`) |
| `Diffs`, `Before` | which records yield ops, and in which order `processMutationBatch` lists them |
| `Cuts`, `Chunks`, `SendDiffs` | `sendMutationDiffs` and its chunks |

Edits are numbered in page order, so a set of edits stands for an ordered batch.
`NoDiff` are edits that yield no op; `ShadowRoots` has, for each open shadow root, the
edits inside it, which yield ops even after `stop()` has cleared the node mirror,
because the shadow host is given a fresh nid (`InShadow` is all of them). The ops of a
batch are not in page order: those of the shadow roots come behind all others, one op
per root, the roots in the order of their first edits (`capture/index.js:4603`), and the
list is cut into any number of messages. So `Before` orders the ops, and `Cuts` are all
the ways to cut what it orders. `owed` and `careless` are history variables: what an
observer has seen since `start()`, and whether the host has paused in the same task as
an edit, or resumed a stream that was not paused.

`OrderedFeed` is a log of sessions, each a snapshot of all the page shows followed by
batches of edits, every batch younger than all before it, none delivered twice; a batch
is cut into messages in page order, but for the edits inside shadow roots, which it has
at its end. Under the mapping an `Edit` is `Advance`; `Start` is `Begin`, final flush
included; `Flush`, `Stop` and `Pause` are `Deliver`; the observer's callback and
`Resume` are stutters.

### FlushWatchdog

`CaptureSession` extended with the schedule of its flush: `batchTimer`, animation
frames as `FrameBegin`, `FrameFlush`, `FrameEnd`, the watchdog's timer with
`lastDrainTs` as the time since then. Each action conjoins an action of
`CaptureSession` with its effect on the timers. The page may edit itself
inside a frame, so that the observer's microtask runs between the callbacks of
that frame; frames need never come; timers may be late (`TickLength`).

### DomDiff

The tree that `CaptureSession` abstracts. The page inserts, moves, removes and
rewrites elements; `records` are what the observer saw, and `ProcessMutationBatch`
computes the ops from the page *as it is at the flush*. The viewer applies them
one by one to a tree of its own through its index (`ApplyAdd`, `ApplyRemove`,
`ApplyText`), counts misses and failures, and asks for a snapshot at the limits.
`tangled`, `flattened` and `unsent` name the histories in which the code's own way of
computing ops goes wrong; the property says that these are all.

### CssomStyles

`styleMode: "cssom"`. `registry`, `owner`, `scopes` and `pending` are the four maps
of the capture; the accumulator `p` of the operators is what a handler has done to
them so far. Changes come from patched methods (`Report`; `CallReplace` and
`ReplaceSettles` for the one that returns a promise), records (`RecordOps`) and
`Reconcile` at each flush; a rule change of a sheet without a name sends a
snapshot in the middle of the session (`FreshSnapshot`).

### WireCopy

What form an element has when it reaches the viewer, by each of six paths: the
snapshot (`SnapshotPayload`, with both passes of the budget and the fit), an added
subtree (`ProcessAddedNode`), a text (`TextOp`), an attribute (`AttrOp`), a typed
value (`TypeValue`) and the answer to a subtree request (`SubtreeRequest`).
`sanitizeForWire` is one operator per kind (`ElementDispatch`, `TextDispatch`,
`InputDispatch`, `AttrDispatch`, `SubtreeDispatch`). `mirror` is what the viewer has,
`sent` what the last step sent and by which path. The tree is given by `Order`, `Parent`
and `Chain` (the elements an element is in), which `TreeAssumption` ties together.
`orphaned` is history: tracked elements of the page that the mirror lost and has not been
sent since. A text node may change in two ways: it comes or goes (`WriteText`), of which
nothing is sent beside elements, or its data is rewritten (`ChangeData`), which is sent
also beside them, and the viewer's `textContent` then takes all that is below out of the
mirror (`Cleared`).

### PageScript, MirrorDocument, MirrorStream, MCMirrorStream

`PageScript` is the page: its elements in document order, and a script of edits.
`MirrorDocument` is what a viewer makes of markup: the asset gate on the snapshot
string (`GateSnapshotAssets`), on an added fragment (`GateFragmentAssets`) and on
an attribute (`WriteAttribute`), the one rule of the parser that moves elements
(`Split`, `Parse`), and the pairing of nids by place (`PairIdentityElements`).
`MirrorStream` composes both with `OrderedFeed`: each viewer reads the log at its
own pace (`pos`); a snapshot makes it adopt the session, empty its index and
write `srcdoc` (`HandleSnapshot`); the iframe commits the new document (`Commit`)
and its load event rebuilds the index (`Load`); diffs apply to whatever document
is shown. `Lose` and `LoseControl` are the relay's drops. The host answers a control
by `Start`, as the two-tab demo does.

Nids restart at 1 with every session, so a stale index does not fail to resolve:
it resolves to an element of another document. The model keeps this by using one
name for an element in every session. `view[v].mixed` is history: a load event
paired a document with another snapshot's nids.

### ViewerLifecycle

One viewer over its socket. `inbox` is the transport's decode queue, which goes on
after the socket closed; `public` and `timer` are `publicState` and the disconnect
timer; `latch` is `pendingSubtreeRequests`; `mirror[n]` says whether a truncated region
is still a stub. The capture side answers requests in whatever state the region
is by then (`HandleSubtreeRequest`), also those of another viewer of the room. The relay
drops single frames while the socket stays open, on the way to the viewer
(`RelayDropsFrame`) and from it (`RelayDropsRequest`). `loading` holds the documents
written and not loaded yet: the load event of one that was replaced may still come, and
pairs the new snapshot's nids with the old document (`LateLoad`, beside `Load`). `raced`
and `dropped` are history: regions answered while an edit of theirs was pooled, or an
edit of which the relay dropped; and requests lost, or whose answers were.

### RelayChannel, LossyChannel

The path of a message between two ends of a room: `queue` (the promise chain of
`send`), `parked` (at the open gate), `encoding` (awaiting compression), `up` and
`down` (connections to and from the relay), `recv` (the decode queue), `last`
(what handlers were given). A send is three steps, `Parks`/`DropHead`,
`StartHead` and `FinishHead`, because the socket may close at each await. The relay
admits, forwards to the other role (`Takes` withholds oversize frames and those for
a full buffer), and removes on error and on close. `LossyChannel` is the promise:
at most once, in order, from the other role only.

### ExtensionWatchdog

The MV3 adapter. `calls` is the queue of `chrome.storage.session` calls in
flight, each with its continuation. A handler runs up to its storage call
(`Control`, `Alarm`, `WakeForMessage`); its continuation runs when storage answers
(`Restore`, `Rescue`, `Persisted`, `RescuePersisted`). `Evict` ends the worker in
any state, and any prefix of the calls in flight may still take effect.
`Strand` is a page reload. `age` is the time since the alarm was armed or fired, in ticks
(`Tick`); it fires when that is `Period`. Chrome replaces an alarm created again under its
name, so `ArmWatchdog`, of `install()` and of every control under an active intent,
starts the period anew. `wish` and `raced` are history: what the last lifecycle
command asked for, and what has come to a worker that was not in step with
its storage.

### RemoteControl

The Playwright adapter and its example viewer. Each frame starts a handler and
nobody waits for it: `TakeRequest` and `Decide` are the two halves of
`requestControl`, `TakeAction` and `Continue` those of `dispatchRemoteAction`, whose
driver calls are the steps of a task (`Calls`). `held` is what the page holds down.

### MediaMirror

A clip of the page and its mirror, with time: `Tick` moves both clocks by a heartbeat
of the tracker. `Reconcile` is `reconcileMediaDrift` branch by branch; `Drive` is
`applyMediaAction`. `tracking` is off while the capture is paused.

### AdaptiveMedia

From a manifest response the Playwright or the extension adapter sees
(`HandleManifestResponse`, `HandleCDPResponseReceived`, `HandleManifestCompleted`),
stamped with the identity seen last, to a player in the viewer: hints for one
element (`HandleMediaHint`) or for the page (`pending`, `ConsumePageHint`), native,
host and lazily imported players (`Attach`, `ImportSettles`), failures (`Degrade`)
and teardown by the next snapshot (`DestroyAll`). The browser's own HLS is a player like
the others. `document` is what the iframe shows, what is coming, which load events are
still due and which session's nids the index gives it: a load event may come when the
next snapshot has been handled (`DocumentLoads`). A player is `late` if its document was
indexed late or hls.js came after teardown, `lost` if another's entry replaced its own or
it threw once it was made, with its source loaded.

### ReferencePreview

The application the library was extracted from, kept in `reference/`. `dash`, `ext`
and `content` are records of the dashboard, the extension's worker and the content
script; `toDash` and `toExt` the two directions of the relay. A start is received
(`ReceiveStart`), looks for its tab and falls back to others (`HandleStreamStart`,
`CandidateFound`), and where the content script is missing injects, probes and parks
(`ProbeAnswered`, `ProbeTimesOut`, `StrayTimesOut`, `OnDomStreamReady`): other commands
are handled while it waits. The status reports of a connect wait likewise
(`SendStateSnapshot`). A snapshot may come empty (`SnapshotInvalid`), throw while it is put
together (`SnapshotThrows`), or its document fail (`DocumentFails`).

### The proof modules

A proof module extends the modules it is about: `DeliveryProofs` (`CaptureSession`,
`FlushWatchdog` and `RelayChannel`: an edit up to the wire, and a message from there to
its handlers), `AdapterProofs` (`ExtensionWatchdog` and `RemoteControl`),
`MirrorStreamProofs`, `ViewerLifecycleProofs`, `AdaptiveMediaProofs`,
`ReferencePreviewProofs`, `CssomStylesProofs` and `WireCopyProofs`. `RelayChannel` names
its initial states and steps `RoomInit` and `RoomNext`, so that one module can speak of
it and of the capture. Their theorems are below. The `MC` modules give the structured
constants of their runs.

## Checks

Every run holds.

| Run | Instance | Distinct states | Shows |
|---|---|---|---|
| `watchdog` | 4 edits, 2 sessions, one edit without op, two in a shadow root (the first and the last), threshold of 1 tick, ticks of length 1 or 2 | 364 thousand | each edit once and in order, a batch's shadow edits last; nothing but paused edits missed by a careful host; `OrderedFeed` implemented; a pool scheduled, its wait bounded, every record leaves |
| `mirror` | 6 elements, a script of 3 edits, 3 sets of rules, 3 sessions, 2 misses, losses | 577 thousand | no foreign ops, drift counted, assets gated alike on every path, resync answered |
| `dom_diff` | 4 elements of which one never reaches the wire, 3 edits, 1 later snapshot | 527 thousand | an untangled mirror is the page; a missing element is counted |
| `cssom_styles` | 3 sheets, one of each kind, 4 changes, 2 sessions | 861 thousand | sheets in cascade order, pools leave, an element is shown once |
| `wire_copy` | 5 elements, 1 marked at the start, 2 edits, budget 6 and limit 7 where an element weighs 1 and a long text 8 | 500 thousand | the six paths agree; ops name what the viewer has, but for three cases; playback states name what the copy has |
| `viewer` | 1 region, 2 sessions, 2 edits, 2 requests, 1 fault, loss or foreign request | 1.4 million | a disconnect is real; an answer is our own, complete and shown once; requests settle but for what the relay dropped |
| `relay_channel` | 1 source of 3 messages, 1 viewer of 1, compression on one side, an oversize frame, 1 broken connection | 85 thousand | `LossyChannel` implemented; queues drain; what nothing withheld arrives |
| `extension` | 3 storage calls in flight, an alarm of 2 ticks | 727 thousand | alarm covers the intent; races of lifecycle commands keep it; a strand recovers unless the alarm is put off for ever |
| `remote_control` | 2 requests, 2 actions, 1 foreign frame, 1 failure, 3 kinds of driver | 1.6 million | buttons come up; viewer and adapter agree; a stopped page is quiet; requests are decided |
| `media` | 10 positions, 2 operations, 1 stall, 1 reload, latency of a tick | 1.4 million | a playing page is mirrored playing or with the play button; the mirror comes near and stays near |
| `adaptive_media` | 1 element, 2 pages, 2 sessions, 2 reports, 1 loss or death of the worker | 1.0 million | a manifest plays in its page's element unless a late document was indexed; every player is registered or a named stray; a page hint is used |
| `reference_preview` | 2 troubles, 1 start or report under way at a time, 9 session ids, from a cold start or a running stream | 1.3 million | loading ends; two pages stay mixed only where a snapshot failed; online is real; the preview settles |

Each property is paired in `PROJECT.json` with a mutant: a plausible bug in one
definition (`StartMutationStream` that keeps the pool, a latch that is not
released, a restore without arming the alarm, an open gate that close() leaves
unsettled, a nudge in the wrong direction, ...) that makes TLC find the property
violated. The mutant operators stand before the definitions they change.

History variables are how one run covers both the careful and the careless environment:
the environment may do everything, and a property says of which histories it speaks
(`careless`, `raced`, `dropped`, `tangled`, `flattened`, `unsent`, `mixed`, `gap`,
`excused`, `spoilt`, `unseen`, `reordered`, `resnapped`, `orphaned`, `late`, `lost`,
`typed`, `left`). What these exclude is listed under "What the models brought out".
Where an exclusion is the very case a hazard names, the property bounds the hazard and
does not catch it; the hazard's note in `PROJECT.json` says so.

**Bounds.** A violation of the session properties needs an edit on each side of a
restart and one in each of queue and pool: two sessions and three edits reach this. The
fourth puts an edit of a shadow root before and one after those of the document, so that
the order of a batch's ops differs from that of the page. A third session lets a viewer
lag two behind. A limit of two misses has both sides of the latch; the code's limit is
three, and the limit is a parameter. Three edits of four elements between flushes are a
nested add, a move and the removal of what was added; four style changes insert a sheet
before another, write it, remove it and put it back. Five elements and two edits in
`WireCopy` give each rule an ancestor, a sibling displaced by a placeholder, and a
change between the two paths that send the same element; the rarer histories of three
edits, an element that goes and comes back, are covered by the proof. The watchdog's
real ratio of threshold to tick is larger; a threshold of one tick and late ticks reach
a fresh, an aged and an overdue pool, and the proof is for any threshold. A period of
two ticks is the least in which the alarm can be armed again when it has aged and is not
due. Three storage calls in flight are an install, a watchdog read and a command. In
`RelayChannel` three messages put one in each of queue, connection and decode queue,
with a large one that is compressed while its successor waits. Two overlapping clicks
with three driver calls each, and two requests, are enough for every crossing of a
decision with a stop. `MediaMirror` has hold band, nudge and hard-seek ranges apart in
ten positions, so short that a loop wraps again and again. All bounds are guards, so
liveness is not checked on a truncated graph; where a bound can cut the host off the
property names it (`ResyncCompletes`). `CHECK_DEADLOCK` is on in `watchdog`, `mirror`
and `extension`; the others may stop because their edits, requests or messages are used
up.

**Fairness.** `FlushWatchdog`: the browser delivers an observer's records, ends a frame
it has begun, runs the callbacks requested for it and fires timers; it owes nobody a
frame, which is the case the watchdog is for. `MirrorStream`: messages not lost are
delivered, a navigation commits and loads, the host answers a control; nobody has to
edit, join or stop. `ExtensionWatchdog`: storage answers, time passes, and an alarm that
is due fires. The last is strong, because a queue at its bound has no room for the alarm
and because the worker may arm it in the very instant it is due; it says nothing of an
alarm that is armed again before it is due, and again: `StrandRecovers` excepts that
(`PutOffForever`). `RelayChannel`, `ViewerLifecycle`: promise chains run, frames on a
connection that holds arrive unless dropped; nobody has to send. `RemoteControl`: hosts
decide, driver calls return, events arrive. `MediaMirror`: time passes, frames arrive,
elements load and end their seeks; nobody has to click or resume. `AdaptiveMedia`:
frames arrive, documents commit and load, a playing element reports. `ReferencePreview`:
sockets reconnect, messages arrive, awaits end, documents load, timers fire, an injected
script loads.

## Proofs

The first part of `DeliveryProofs` proves of `CaptureSession`, for every number of edits
and sessions, every choice of `NoDiff` and `ShadowRoots`, every cut of a batch, its
shadow roots' ops last, into any number of chunks, and any order of calls by the host:

- `TypeCorrect`: `Spec => []TypeOK`;
- `EditsOnceInOrder`: `Spec => []EachEditOnceInOrder`;
- `ContiguousSessions`: `Spec => []SessionsAreContiguous`;
- `PoolAlwaysFollowsLog`: the inductive invariant of these three;
- `NothingElseMissed`: `Spec => []OnlyPausedEditsMissed`;
- `CaptureIsOrderedFeed`: `Spec => ImplementsFeed`, the refinement.

Neither log property is inductive: from a state whose log is in order, a flush of an
*old* pool would break it. `PoolFollowsLog` adds what the code maintains without saying
so: everything pooled is younger than everything sent in the current session, everything
queued is younger than everything pooled, and the current session's snapshot is in the
log. Every path that begins a session empties pool and queue, every flush empties the
pool, and `Edit` only adds an edit younger than all; so flushing is safe in *every*
state, which is why the code can let lifecycle calls flush at any time. `MayFollow` says
what an edit may come after: an older one, or, for an edit inside a shadow root, also a
younger one outside that root (`OrderedFeed` adds: of its own batch). The lemmas on logs
(`OneMore`, `AppendSnapshot`, `AppendDiffs`) say what appending keeps, and `ChunksOfOps`
what the chunks of one list of ops are; `PoolFollowsLogStep` has one step per action.

`OnlyPausedEditsMissed` needs a second invariant, `OwedIsKept`: an unobserved
capture holds nothing, and with a host that is not careless an observer runs,
and edits are owed, only while the node mirror is populated. `SendsEverything`
says that the chunks lose no op. The refinement uses the first invariant: that
what is pooled is younger than all that was sent is what `Undelivered` asks of a
delivery.

The second part of `DeliveryProofs` proves of `FlushWatchdog`, for any threshold,
any tick lengths and any page and host:

- `PoolAlwaysScheduled`: a pool that holds records has a frame requested;
- `NothingEverOverstays`: no record is pooled longer than the threshold;
- `QuietFramesAlwaysFlush`: a frame in which the observer does not run flushes all
  that was pooled when it began.

The invariant `WatchdogInv` adds two facts. `WaitIsMeasured`: a record has waited no
longer than the last drain is ago, because a pool is filled after a drain and
emptied by one; so the watchdog may measure the drain to bound the wait.
`FrameFlushesFound`: what a frame found is older than what the observer holds, and
is gone unless the frame still owes its callback or was disturbed.

`MirrorStreamProofs` proves, for any page and script of edits, any sets of rules, number
of viewers, limit of misses and bound on sessions, any losses and any order of
snapshots, commits and loads:

- `NeverForeignOps`: an op only changes the element it is about, in the document of its
  own session, unless that element is displaced or the document's load event was mixed;
- `LossAlwaysCounted`: a viewer that has received and loaded everything, has counted no
  miss, has missed no message and shows no displaced element shows exactly the edits
  its session has sent, each on its element;
- `PostureAlwaysUniform`: a node has no url that the rules deny, but for the srcset of an
  added source.

The invariant `Inv` is a fact about the log and one about each viewer. `LogOK` is what the
viewers may rely on, and follows from `OrderedFeed` alone: every session begins with a
snapshot of all that was shown before, and nothing a snapshot shows is sent again.
`ViewerOK` says, of one viewer: where it stands in the log, that is, how the last snapshot,
the one being navigated to, the document on show and the document of the index follow
each other (`Positions`); nothing has been applied to a document before its load event
(`Untouched`); the index leads each nid to its own element, but for those displaced
(`IndexRight`); the ops that landed are of the document's session and on the element they
are about (`OpsOwn`); the nodes are clean (`NodesClean`); and what landed in the document
on show is what the viewer was given since its snapshot (`LossSeen`). An op that resolves
through the index of an older document changes a node nobody sees; that is a `gap`, and
is possible only until the new document's load event replaces the index.

Below this are lemmas on what a viewer makes of markup, for every page. Each gate leaves
a node clean (`GateTagClean`, `GateFragmentTagClean`, `WriteClean`). The string
gate drops no node, and the parser adds none, before the first upset element, so up to
there every nid is paired with its own element (`GateSnapshotFacts`, `ParseInPlace`,
`PairFacts`); `SnapshotFacts` and `AddedFacts` put this together for a document and
for an added subtree. Which places the elements of a set have in document order is
counted (`NthFacts`, `PickFacts`).

`ViewerLifecycleProofs` proves, for any regions, sessions, edits, requests of this
and other viewers, faults and frames the relay drops:

- `FetchedAlwaysShowsPage`: once everything is delivered, a region that was fetched
  shows the page;
- `PatchAlwaysOurs`: a cut region is filled in only by the answer to the viewer's own
  pending request, of the session whose document is shown or, while another document is
  on its way, of that one's;
- `DisconnectAlwaysReal`: a running disconnect timer belongs to an attached viewer of a
  closed socket, and `disconnected` is said of a closed socket only;
- `TypeCorrect`.

`FetchedShowsPage` speaks of a state where nothing is on its way; `FetchInv` must speak
of every state before it. It reads the frames that were received and not handled,
then those on the wire, as one line. Every edit is on that line at most once, in the
pool or in one frame (`Once`), and was made to the page already. An answer anywhere
on the line agrees with the page but for the edits of its session behind it
(`AnswersAgree`), and so does the mirror of a fetched region but for the edits still
in line (`Synced`). An edit joins at the end, a flush moves the pool onto the line,
and the frame at the front is applied to the mirror: each step keeps the balance. The
relay takes a frame out of the middle (`LossSlips`). What the line then owes the mirror
it owes no longer, so the regions of that frame's edits are `raced` and left out, as is a
region whose request met a pooled edit; there is no other way the balance fails.
`PatchAlwaysOurs` and the types need `SessionOK`: which session the documents on their
way, the document of the index and the viewer's identity may belong to.

The third part of `DeliveryProofs` proves of `RelayChannel`, for any number of endpoints
in either role, any messages, codecs, buffer limit and faults:

- `PathOrder`: the inductive invariant of the path;
- `RoomIsLossyChannel`: `RoomSpec => InOrder`, the refinement of `LossyChannel`.

A delivery is in order only because everything before it is: the invariant lays
the five stages a message passes (send queue, connection to the relay,
connection to the member, decode queue, handlers) end to end and says that the
numbers of one sender fall along them strictly, so that the head of a decode queue
is above all its handlers were given. `QueueInv` is what the first stage needs: the
queue of a sender holds exactly the last numbers it was given.

The first part of `AdapterProofs` proves of `ExtensionWatchdog`, for any number of storage
calls in flight:

- `AlarmAlwaysCoversIntent`: a worker that has caught up holds the alarm for a
  stored stream;
- `IntentAlwaysSurvives`: lifecycle commands that overlap with each other, with
  `install()` and with the watchdog leave the intent of the last of them stored;
- `ExtensionTypeCorrect`.

`AlarmCoversIntent` is not inductive, since a worker may be ended between storing
an active intent and arming the alarm. `GapIsCovered` is what closes the gap: as
long as a live worker lacks the alarm for a stored stream, install()'s read is the
first call in flight, and nothing in flight is a watchdog's read or restart,
the only calls whose continuations store an intent without arming. For
`IntentSurvives`, `IntentIsOnItsWay` says where an active intent is until the worker is
quiet: in the last write in flight, or in storage if none is.

The second part of `AdapterProofs` proves of `RemoteControl`, for any number of requests,
actions, foreign frames and failures:

- `ButtonsAlwaysComeUp`: a button that is down is that of a click under way, or of
  one whose driver call failed;
- `QuietStaysQuiet`: after a stop or dispose that found nothing under way, no input
  reaches the page until control is requested anew;
- `ViewerAlwaysAgrees`: once every frame and event is delivered, the viewer shows the
  state of an adapter that listens.

The first needs that no two tasks share a number, or one click would release another's
button. The second needs what a quiet adapter keeps: it is not in control, or
`dispose()` came before `install()` was through and it will never listen. The third
accounts for every disagreement: an event on its way, or a frame under way that
will be answered with one.

`AdaptiveMediaProofs` proves, for any number of elements, pages, captures, reports and
faults:

- `MediaAlwaysRight`: no manifest plays, by whatever player, in an element of another page
  than the one whose identity its hint carries, unless the element's document was
  indexed by a load event that came after the next snapshot;
- `NeverStrayPlayer`: a player that was not destroyed is registered for its element, in
  time or late, and goes with the entry; or its entry was overwritten, or it threw once it
  was made.

`RightMedia` is the end of a claim that is carried along from message to stored
hint to import to player (`WireRight`, `PendingRight`, `PlayersOK`). `NoStrayPlayer` is
about two structures, the players that exist and the registry that is to destroy
them, and needs that a new player gets a name no other has (`FreshId`, by counting).

`ReferencePreviewProofs` proves, for any number of troubles and of starts under way, and
any queue length:

- `LoadingAlwaysWatched`: a preview that says loading has its timer running, its
  document on the way, or was set so by the URL bar;
- `NeverForeignPage`: no document stays on show that took another session's mutations,
  unless the last snapshot adopted could not be shown;
- `OnlineAlwaysReal`: once the dashboard has heard everything, an extension shown as
  online is there.

The model gives a new session the least id that nothing in the state uses. The
three theorems assume that there is one, `[]OneUnused`; `EndlessSessionsSuffice` proves
of any infinite set of ids that there always is, and the run's nine ids are enough for
its bounds. The invariant has two halves. `Good` is about the dashboard's record, kept by
each handler on its own. `Offline` is about the relay: while no extension is in the
room, the last of the relay's own messages on its way to the dashboard says so, or else
the dashboard has heard it; frames of an extension may be lost around it, the
relay's own are not.

`CssomStylesProofs` proves, for any sheets, kinds and first lists, and any number of
changes and sessions:

- `StylesAlwaysMatch`: once the records, the pool and the wire are empty, the viewer shows
  each scope's sheets in cascade order and with their texts, but in the histories
  named under "Styles" below;
- `PoolAlwaysLeaves`: while the stream runs, a pooled change has a flush scheduled;
- `ElementAlwaysShownOnce`: an added element is shown twice only after a snapshot in
  the middle of the session that was sent while the element's record waited.

`StylesMatch` speaks of the states in which nothing is under way; its invariant speaks
of all, through `W`, the viewer once it has received what is on the wire. Every name `W`
has is in the registry or in the pool (`NamesKnown`), so nothing is shown that the
capture could not remove. The pool fits the page (`PoolFits`): if it holds a change of a
scope it holds the whole scope, what is there to be replaced, in cascade order, and what
is not to be removed; `reordered` marks the one way this order is lost. Applied in
order, replacements of a whole scope and removals of the rest leave exactly the scope's
list, whatever the viewer had before. A change that went past the pool (`unseen`) is
picked up by the next flush, which reconciles every scope. What a batch does to the
viewer is proved op by op, what a flush reports record by record, by induction on their
numbers.

`WireCopyProofs` proves, for any page, rules, budgets and number of edits:

- `PathsAlwaysAgree`: whatever path sends an element, and however the page and the host's
  marks have changed since it was last sent, the element has the form that a snapshot taken
  now would give it, but for the five cases under "Forms" below;
- `TargetsAlwaysKnown`: an op for an element that ought to be shown finds it in the mirror,
  or a placeholder above it, but for three cases of the code under "Forms"; and every
  playback state of a snapshot names an element that its copy holds, be it as a
  placeholder.

`KnownTargets` speaks of the ops of the last step, so the invariant must say where every
tracked element *is*: `Accounted`, it is shown or covered by a placeholder, is
`orphaned` (withheld by a rule, or overwritten by a text), or is in what a waiting
record of the pool adds. A snapshot makes this true because both cuts of the budget
leave a placeholder for what they take (`IsCut`); a flush goes through the records one
by one and keeps it, since what a record removes from the mirror and is yet on the page
comes with a later record (`Returned`), and since what is tracked is so together with
all that it is in (`Closed`). For `PathsAgree` each path is compared with `Uncut`, the
snapshot before any cut: the rules it asks of an element's ancestors are those the
snapshot asks. Descendants of an added or requested subtree are paired with their live
counterparts by position; counting shows the pairing right unless an asset before the
element, below the root, lost its children to a placeholder (`Shifted`). The loops of
the cuts, of the pairing and of the flush are recursive functions; that each is the
function its definition says, and what it keeps, is proved by induction.

The only assumptions are those on the constants, which TLC evaluates in the runs:
`CaptureAssumption`, `WatchdogAssumption`, `PageAssumption` (the page is a tree in
document order, and no element is added twice), `MirrorAssumption` (a subtree is added
directly under the root, as the model's `Target` has it), `ViewerAssumption`,
`RelayAssumption`, `ExtensionAssumption` (room for the two reads of an alarm that wakes
a worker), `RemoteAssumption`, `AdaptiveAssumption`, `PreviewAssumption`,
`CssomAssumption` (no sheet has the name of another kind of record), `TreeAssumption`
(the page is a tree in document order) and `WireAssumption` (a video is not a form
control); and `OneUnused` where it is written.

**How induction is done.** The library's induction theorems take an operator as a
parameter, which no prover here can instantiate. `ViewerLifecycleProofs`,
`ReferencePreviewProofs`, `MirrorStreamProofs`, `CssomStylesProofs` and `WireCopyProofs`
derive from well-foundedness of `<` that a set of numbers has a least element
(`LeastElement`), and from it induction over a *set* (`Induction`), which reaches
recursive functions with few arguments: the ops of a message applied one after the
other, the messages kept of a queue, the records of a flush, the elements a cut goes
through. `SelectSeq` cannot be expanded by the prover; the modules that would use it
define the selection themselves (`Store`, `OwnMessages`, `Pick` of `PageScript`).

**Only model-checked.** `DomDiff` and `MediaMirror` have no theorems. The operators of
`DomDiff` walk trees by a `RECURSIVE` preorder, which no module with a theorem may
reach; and its properties compare whole trees after a batch whose ops were computed from
a page that had gone on changing, which would need a theory of reachability in changing
forests first. Random behaviours of eight edits of five elements, beyond its run's three
of four, showed no further case. `MediaMirror` is checked for liveness only. All
liveness is model-checked (`EveryEditLeaves`, `ResyncCompletes`, `StrandRecovers`,
`RequestsSettle`, `RequestsAreDecided`, `QueueDrains`, `AllArrive`, `PlaysAlong`,
`Converges`, `PageHintIsUsed`, `Settles`), since the prover reaches neither fairness nor
`ENABLED`.

## What the models brought out

Behaviour of the code that the properties except by name, or that the modelling
showed beside them. The numbers are lines; short file names are below `src/` or
`reference/`.

*Capture.* An edit made in the task that pauses or stops is lost: the observer is
disconnected without `takeRecords` (`capture/index.js:4876`). A page that mutates
itself in every frame is flushed by the watchdog only, as each callback cancels the
frame requested (1410). After an idle period the first fresh record already counts as stale
(4840). A text or attribute op over the relay's limit is dropped with a log line
(4733). The ops of shadow roots follow all others of their batch (4603), so an older edit
in a shadow root is sent after a younger one of the document, perhaps in a later message.

*Ops from the live tree* (`tangled`, `flattened`, `unsent`). The body has no nid, so
children put directly under it are not sent (4427), nor sent later with what they are
moved with; an element added inside one added in the same batch is shown twice (4430);
`beforeNid` read from a sibling that is itself new or not sent misplaces the element
(4437); an element moved under one that is not sent leaves a copy behind (4466); text
changed beside element children replaces them (4577), where `src/capture/README.md`
speaks of "text drift, never structural flattening".

*Styles* (`unseen`, `reordered`, `resnapped`). Adopted sheets that come or go are seen at
the next flush only; a name pooled before positions shifted keeps its place in the
`Map`, which can invert the cascade (1427); a `replace()` that settles after `stop()`
still queues and flushes (1508); the scope of a removed shadow host stays known and
misses at each flush; a mid-session snapshot leaves pooled records (1559).

*Forms* (the five cases of `PathsAgree`). Mutation paths ask `maskMediaSelector` below
an added root only, while the snapshot asks everywhere; what is below an asset that
cannot be shared is tracked though not in the copy; of an added or requested subtree
only the root is asked whether it is skipped; a textarea under `maskTextSelector` gets
one mask by a text op and another by the snapshot; descendants are paired with live ones
by index after assets were replaced in the clone (3383, against the comment above it).
Three cases of `KnownTargets`: an element that leaves the page and comes back in one
batch while a rule keeps it out is removed from the mirror and stays tracked, so that
its edits miss once the rule is gone (4423, 4465); a text node that changes beside
elements is sent as the text of all, which takes them out of the mirror and leaves them
tracked (4577, `diff.js:460`); a typed value is sent at once, ahead of the record that
adds its control again (1976). A placeholder keeps its element's nid (2675), so the
playback state of a video that the budget cut stays: the comment at 2909, that one "can
never reference a truncated node", holds of what a cut removed and not of what it put a
placeholder for. What is cut off by the budget stays tracked, so ops for it miss and
count toward a resync; an added subtree over the limit becomes a placeholder the viewer
may request, while an answer applies only to placeholders marked truncated.

*Mirror* (`mixed`, displaced elements). The load listeners pair the last snapshot's nids
with whatever document loads (`renderer/index.js:569`); diffs before the first load are
dropped without a miss (1542). A blocked `<video>` takes its children along
(`snapshot.js:496`) and a placeholder `<div>` in a `<p>` closes the paragraph: both
shift the pairing by place, which the comments at `snapshot.js:238` and
`renderer/index.js:374` rule out. `<source srcset>` is gated in a snapshot but not when
added, against "applied uniformly" (355).

*Viewer.* A region answered while an edit of it is pooled shows that edit twice
(`raced`); a frame waiting in the decode queue revives the public state after the socket
closed, against `src/renderer/README.md:238`; side frames mark a stream live while a
resync is pending; a request or an answer that the relay drops, or that goes with the
source's connection, leaves its region latched up to the next snapshot
(`renderer/index.js:916`); a load event that comes late lets the old document take the
new session's answers until it leaves (569).

*Transport.* A frame lost because the socket closes during its encoding is counted as
sent; frames decoded after `close()` reach handlers; a failed encode is not a drop.

*MV3 adapter* (`raced`). A STOP during the watchdog's read is undone by its write
(`extension.js:250`); a control handled before `install()` has restored memory
can store an inactive intent (242). Every `install()` and every control under an active
intent creates the alarm anew (207, 244, 479): a worker evicted and woken, or sent controls,
more often than the period never sees it fire, and a stranded stream stays so.

*Remote control.* A text right after a click goes before the click's press over CDP; a
key held at a stop stays down; a failed driver call leaves its button down (`failed`);
an approval that comes after a stop makes control active, which
`tests/remote-control-authorization.test.js:127` expects; input that awaits a driver
goes out after the stop; two first actions create two CDP sessions; `dispose()` during
`install()` leaves a subscription.

*Playback.* A paused mirror that gets a `seeked` or `volumechange` frame plays, where
`media-reconcile.js` and its test speak of pause; a pause told while the document loads
or made while the capture is paused is not repeated; a hard seek leaves a nudged rate.

*Adaptive media* (`late`, `lost`, `page = 0`). A hint carries the identity seen last, empty
after a restart of the worker; two hints for one element overwrite its registry entry;
hls.js that arrives after teardown makes a player of the old document
(`media-player.js:240`); an instance that throws after it has loaded its source is neither
registered nor destroyed (243-276); by a load event after the next snapshot a rightly
stamped hint binds to the old document (`renderer/index.js:569`); `destroy()` of the viewer
leaves the players (2173).

*Reference.* The URL bar sets `loading` without a timer (`dashboard.js:3511`, `typed`);
mutations of a new session are applied to the old document while the new one loads
(3209, `torn`); the late close of an old socket says offline while the new one is in the
room (`ws-handler.js:280`, `ghost`); after a frozen task a reconnect restarts the stream,
which the comment at `dashboard.js:2481` rules out; a snapshot dropped by backpressure, or a
pause replayed late, leaves an older picture (`excused`); a snapshot that throws while it is
put together has its identity adopted already, so that the old document, or one still
loading, takes its mutations until the next good one (2822, `spoilt`); a pause that comes
while a start waits overtakes it, and the page streams with the preview switched off.

## Not modelled, and why

- Markup, URL, CSS and attribute conversions (`sanitize.js`, `scrubUrl` and the like) and the
  compression of the envelope: pure functions of text with differential tests; the
  modules keep their verdicts and sizes.
- Positions of overlays, cursor, glow and dialogs, highlight and scrolling; the scroll
  throttle and the dialog interceptor: layout, or state nothing else reads.
- Shadow roots and frames as trees: `CaptureSession` has their effect on nids and
  `CssomStyles` one shadow scope; a same-origin frame behaves as a shadow scope does.
- A snapshot emptied because its shell alone exceeds the limit (`capture/index.js:2919`);
  an attribute that turns an asset into one that cannot be shared (4545).
- Failures of an op that does resolve are in `DomDiff`, not in `MirrorStream`, which
  shares the latch with them; style-source misses likewise are in `CssomStyles`.
- A storm of resyncs on a page whose loads are slower than its edits (`diff.js:184`): to tell it
  from progress needs unbounded sessions. Two sources in one room (`relay.js:210`): the
  room's promise is per sender, and nothing in the viewer tells their sessions
  apart but the last snapshot.
- `MediaMirror` has one clip of fixed length, played at the normal rate; `RemoteControl` no
  loss of frames (above).
- Counters, health and diagnostic rings of relay and transport: projections that
  no other part reads.
- `adapters/playwright-inject.js` is generated from the modelled sources; the bookmarklet, the
  command line, `serve.js`, tests, benchmarks and scripts are glue or not part of
  the running system. Of the reference dashboard: tasks, agents, remote input and badges.

## How the project grew

The capture, its watchdog, the stream to the viewer and the MV3 adapter came first, with
their proofs; then the tree and the styles behind an op, the paths to the wire, the
transport and relay with their refinement, the viewer's public state and requests,
remote control, playback and adaptive media, and the reference preview; then the proofs
about the viewer and its stream, remote control, media and preview; last those about
styles and the paths to the wire. The last proof changed its model: the loops became
recursive functions over `Chain` instead of folds, and two of the cases of
`KnownTargets` were found where the invariant would not hold, each confirmed by TLC on a
page of three or more elements before it was named. A comparison with the source then
widened the environments: shadow-root ops behind the others, an alarm that is put off,
single frames lost and late load events in the viewer, players that throw half made,
text beside elements, starts that wait and snapshots that fail in the preview; models,
properties and proofs followed. What is left: the frames of a page as scopes of
`DomDiff`, and the STOP race of the extension once the code has an answer to it.

Runs are kept few: a new environment is added to an existing run by a history
variable where that is sound.
