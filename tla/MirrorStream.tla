---------------------------- MODULE MirrorStream ----------------------------
(***************************************************************************)
(* The viewers that mirror a page: createViewer (src/renderer/index.js),   *)
(* applyMutations (src/renderer/diff.js) and the documents they build      *)
(* (MirrorDocument), over FIFO delivery of what a capture sends.  All that *)
(* is asked of the capture is OrderedFeed, which CaptureSession is proved  *)
(* to implement.                                                           *)
(*                                                                         *)
(* Each viewer reads the log of sent messages at its own pace.  A SNAPSHOT *)
(* makes it adopt the session, drop its identity index and write srcdoc;   *)
(* the iframe then commits the new document, and a load event of its own   *)
(* rebuilds the index from the last snapshot's nodeIds.  MUTATIONS are     *)
(* applied to whatever document the iframe shows, through the index.  Ops  *)
(* that address an unknown node are counted as misses, and enough misses   *)
(* latch one CONTROL.START towards the host, which restarts the capture.   *)
(*                                                                         *)
(* Data abstraction.  Edit e of the page is Script[e].  nids start again   *)
(* at 1 in every session, and the page only grows at its end, so the same  *)
(* name stands for an element in each session: an index that outlives its  *)
(* session resolves, to the wrong document.  Every miss counts alike;      *)
(* failures of an op that does resolve (DOM exceptions) and style-source   *)
(* misses, which share the latch, are left out.  The page has no shadow    *)
(* roots, which are replaced whole.                                        *)
(***************************************************************************)
EXTENDS OrderedFeed, MirrorDocument

CONSTANTS
  MaxSessions,            \* bound on the sessions of the capture
  Viewer,                 \* the viewers of the room
  MissLimit,              \* misses that make a viewer ask for a fresh session
  Rules                   \* what the rules may be

ASSUME MirrorAssumption ==
  /\ MaxSessions \in Nat
  /\ \A e \in DOMAIN Script : IsAdd(e) => Chain[Script[e].el] = {Script[e].el, Top}
  /\ MissLimit \in Nat \ {0}
  /\ InShadow = {}

VARIABLES
  rules, \* of the host and its page, see MirrorDocument; they never change
  view,  \* per viewer: its record, see NewViewer
  ctl,   \* CONTROL.START messages on their way to the host
  lost   \* history: what the relay has lost so far, "diff" and "signal"
         \* (a CONTROL.START or a snapshot)

mirrorVars == <<feedVars, rules, view, ctl, lost>>

-----------------------------------------------------------------------------
(* What the viewer makes of markup, under the rules r: a document (with    *)
(* the nids that are sent beside it) and an added subtree (with the index  *)
(* entries made for it).  Tables, as TLC evaluates a constant only once.   *)
Batches == SUBSET DOMAIN Script

SnapshotOf(r, edits) ==
  [nodes |-> SnapshotDocument(r, edits), ids |-> NodeIds(Markup(r, Present(edits), edits))]
Documents ==
  Evaluated([r \in Rules |-> Evaluated([edits \in Batches |-> SnapshotOf(r, edits)])])

Added(r, e, edits) ==
  LET fragment == Fragment(r, e, edits)
  IN  [nodes |-> fragment,
       index |-> PairIdentityElements(fragment, NodeIds(Markup(r, Adds(e), edits)))]
Subtrees ==
  Evaluated([r \in Rules |->
    Evaluated([e \in {f \in DOMAIN Script : IsAdd(f)} |->
      Evaluated([edits \in Batches |-> Added(r, e, edits)])])])

(* pos: messages read; active: the adopted session; streaming: viewerState *)
(* = 'streaming'; snapshot: position in the log of lastSnapshotPayload, 0  *)
(* if none; nav: the snapshot whose srcdoc is being navigated to, 0 if     *)
(* none; doc: the document of the iframe: the snapshot it was parsed from  *)
(* (0 the empty document it begins with), its nodes, and the ops applied   *)
(* to it, with their session and the node they landed on; loading: that    *)
(* document's load event is still to come; index: nidToNode, and the       *)
(* document its nodes belong to; misses: counters.staleMisses; resync:     *)
(* resyncPending; gap: history, a diff or a snapshot has not reached this  *)
(* viewer since its last snapshot: the relay lost it, or it came before    *)
(* anything had loaded, or it went into the document that snapshot         *)
(* replaces; mixed: history, a load listener has paired a snapshot's       *)
(* nodeIds with the elements of this document, which is not that           *)
(* snapshot's.                                                             *)
NoIndex == [node |-> [x \in {} |-> Top], from |-> 0]
Blank   == [from |-> 0, nodes |-> <<>>, ops |-> {}]

NewViewer ==
  [open |-> FALSE, pos |-> 0, active |-> 0, streaming |-> FALSE,
   snapshot |-> 0, nav |-> 0, doc |-> Blank, loading |-> TRUE,
   index |-> NoIndex, misses |-> 0, resync |-> FALSE, gap |-> FALSE,
   mixed |-> FALSE]

MirrorInit ==
  /\ FeedInit
  /\ rules \in Rules
  /\ view = [v \in Viewer |-> NewViewer]
  /\ ctl = 0
  /\ lost = {}

-----------------------------------------------------------------------------
(* The viewer's message handlers, on its record w.                         *)

AnyStream(s, active) == TRUE
IsCurrentStream(s, active) == s = 0 \/ active = 0 \/ s = active

(* handleSnapshot of the message at position p: never identity-checked.    *)
SnapshotKeepingLatch(w, p) ==
  [w EXCEPT !.active = sent[p].session, !.misses = 0,
            !.gap = FALSE, !.snapshot = p, !.index = NoIndex, !.nav = p]
HandleSnapshot(w, p) ==
  [w EXCEPT !.active = sent[p].session, !.misses = 0, !.resync = FALSE,
            !.gap = FALSE, !.snapshot = p, !.index = NoIndex, !.nav = p]

(* recordStaleMiss: a miss at or above the limit latches the resync.       *)
RecordStaleMiss(w) ==
  IF w.misses + 1 >= MissLimit
  THEN [w EXCEPT !.misses = MissLimit, !.resync = TRUE]
  ELSE [w EXCEPT !.misses = @ + 1]

(* The node an op is addressed to.                                         *)
Target(e) == IF IsAdd(e) THEN Top ELSE Script[e].el

(* An index of another document leads to nodes nobody sees.                *)
OnShow(w) == w.index.from = w.doc.from

Over(f, g) == [x \in DOMAIN f \cup DOMAIN g |-> IF x \in DOMAIN f THEN f[x] ELSE g[x]]

(* An applied add op is indexed at once, so later ops can address it.      *)
ApplyAdd(w, e, edits) ==
  LET added == Subtrees[rules][e][edits]
  IN  [w EXCEPT !.doc.nodes  = IF OnShow(w) THEN @ \o added.nodes ELSE @,
                !.index.node = Over(added.index, @)]

ApplyAttr(w, e) ==
  LET edit == Script[e]
      Written(n) == IF n.el = w.index.node[edit.el]
                    THEN WriteAttribute(rules, n, edit.attr, edit.url) ELSE n
  IN  IF OnShow(w)
      THEN [w EXCEPT !.doc.nodes = [i \in DOMAIN @ |-> Written(@[i])]] ELSE w

ApplyOp(w, e, m) ==
  IF Target(e) \notin DOMAIN w.index.node THEN RecordStaleMiss(w)
  ELSE LET landed == w.index.node[Target(e)]
       IN  [(IF IsAdd(e) THEN ApplyAdd(w, e, m.edits) ELSE ApplyAttr(w, e))
            EXCEPT
              !.doc.ops = IF OnShow(w) THEN @ \cup {<<m.session, e, landed>>} ELSE @,
              !.gap = @ \/ w.index.from # w.snapshot]

(* The ops of a message, in order.  (A set of the one outcome: TLC then    *)
(* evaluates each step once.)                                              *)
ApplyMutations(w, m) ==
  LET after[e \in 0 .. Len(Script)] ==
        IF e = 0 THEN {w}
        ELSE IF e \in m.edits THEN {ApplyOp(x, e, m) : x \in after[e - 1]} ELSE after[e - 1]
  IN  after[Len(Script)]

SkipWhileLoading(w, m) ==
  IF w.streaming
  THEN IF w.nav = 0 /\ ~w.loading /\ IsCurrentStream(m.session, w.active)
       THEN ApplyMutations(w, m) ELSE {w}
  ELSE {[w EXCEPT !.gap = TRUE]}
HandleMutations(w, m) ==
  IF ~w.streaming
  THEN {[w EXCEPT !.gap = TRUE]}
  ELSE IF IsCurrentStream(m.session, w.active) THEN ApplyMutations(w, m) ELSE {w}

Dispatch(w, p) ==
  {[x EXCEPT !.pos = p] :
     x \in IF sent[p].kind = "snapshot" THEN {HandleSnapshot(w, p)}
                                        ELSE HandleMutations(w, sent[p])}

(* The two load listeners: assets are gated once more and the index is     *)
(* rebuilt by pairing the last snapshot's nodeIds with the elements of the *)
(* document loaded, which may still be the one that snapshot replaces.     *)
(* Nothing happens at the load of the first, empty document unless a       *)
(* snapshot has been received by then.                                     *)
LoadedWith(w, nodes) ==
  [w EXCEPT !.loading = FALSE, !.streaming = TRUE, !.doc.nodes = nodes,
            !.index = [node |-> PairIdentityElements(
                                  nodes, Documents[rules][sent[w.snapshot].edits].ids),
                       from |-> w.doc.from],
            !.mixed = @ \/ w.doc.from # w.snapshot]
Loaded(w) ==
  IF w.snapshot = 0 THEN {[w EXCEPT !.loading = FALSE]}
  ELSE {LoadedWith(w, nodes) :
          nodes \in {GateFragmentAssets(rules, w.doc.nodes)}}

(* requestResync sends CONTROL.START when it latches.                      *)
SendResync(v) ==
  ctl' = IF view'[v].resync /\ ~view[v].resync THEN ctl + 1 ELSE ctl

-----------------------------------------------------------------------------
(* The viewers and their iframes.                                          *)

(* The transport opens: only what is sent from now on is delivered, and    *)
(* the viewer page asks the host to start.                                 *)
Join(v) ==
  /\ ~view[v].open
  /\ view' = [view EXCEPT ![v].open = TRUE, ![v].pos = Len(sent)]
  /\ ctl' = ctl + 1
  /\ UNCHANGED <<feedVars, rules, lost>>

Receive(v) ==
  /\ view[v].open /\ view[v].pos < Len(sent)
  /\ \E w \in Dispatch(view[v], view[v].pos + 1) : view' = [view EXCEPT ![v] = w]
  /\ SendResync(v)
  /\ UNCHANGED <<feedVars, rules, lost>>

(* The relay drops a message for this viewer: over the cap, backpressure.  *)
Lose(v) ==
  /\ view[v].open /\ view[v].pos < Len(sent)
  /\ view' = [view EXCEPT ![v].pos = @ + 1, ![v].gap = TRUE]
  /\ lost' = lost \cup
       {IF sent[view[v].pos + 1].kind = "snapshot" THEN "signal" ELSE "diff"}
  /\ UNCHANGED <<feedVars, rules, ctl>>

(* The navigation srcdoc started reaches its new document.                 *)
Commit(v) ==
  /\ view[v].nav # 0
  /\ LET from == view[v].nav
     IN  view' = [view EXCEPT
           ![v].doc = [from |-> from, ops |-> {},
                       nodes |-> Documents[rules][sent[from].edits].nodes],
           ![v].nav = 0, ![v].mixed = FALSE, ![v].loading = TRUE]
  /\ UNCHANGED <<feedVars, rules, ctl, lost>>

Load(v) ==
  /\ view[v].loading
  /\ \E w \in Loaded(view[v]) : view' = [view EXCEPT ![v] = w]
  /\ UNCHANGED <<feedVars, rules, ctl, lost>>

-----------------------------------------------------------------------------
(* The host and its capture.                                               *)

Start == session < MaxSessions /\ Begin

HostControl ==
  /\ ctl > 0
  /\ ctl' = ctl - 1
  /\ Start
  /\ UNCHANGED <<rules, view, lost>>

LoseControl ==
  /\ ctl > 0
  /\ ctl' = ctl - 1
  /\ lost' = lost \cup {"signal"}
  /\ UNCHANGED <<feedVars, rules, view>>

CaptureStep ==
  /\ (page < Len(Script) /\ Advance) \/ Deliver \/ Start
  /\ UNCHANGED <<rules, view, ctl, lost>>

MirrorNext ==
  \/ \E v \in Viewer : Join(v) \/ Receive(v) \/ Lose(v) \/ Commit(v) \/ Load(v)
  \/ HostControl
  \/ LoseControl
  \/ CaptureStep

(* Delivery, the browser's own steps and the answer to a control message   *)
(* happen in the end.  Nobody must edit the page, join, or stop.           *)
MirrorFairness ==
  /\ \A v \in Viewer : /\ WF_mirrorVars(Receive(v))
                       /\ WF_mirrorVars(Commit(v))
                       /\ WF_mirrorVars(Load(v))
  /\ WF_mirrorVars(HostControl)

MirrorSpec     == MirrorInit /\ [][MirrorNext]_mirrorVars
FairMirrorSpec == MirrorSpec /\ MirrorFairness

-----------------------------------------------------------------------------
(* Where nids are known not to name their elements: after a video whose    *)
(* placeholder took its children along, and in and after a paragraph with  *)
(* a placeholder in it.  For an added subtree only the capture's own       *)
(* placeholders do this.                                                   *)
Upset(nodes) ==
  {nodes[i].el : i \in Split(nodes)} \cup
  {nodes[i].el : i \in {j \in DOMAIN nodes : /\ nodes[j].box /\ Tag[nodes[j].el] = "video"
                                            /\ Below(nodes[j].el) # {}}}
After(S) ==
  {Order[i] : i \in {j \in DOMAIN Order : \E k \in 1 .. (j - 1) : Order[k] \in S}}

DisplacedBy(r, edits) ==
  (After(Upset(GateSnapshotAssets(r, Markup(r, Present(edits), edits))))
     \cap ToSet(Documents[r][edits].ids))
  \cup UNION {After(Upset(Markup(r, Adds(e), {}))) \cap Adds(e) : e \in DOMAIN Script}
Displacements ==
  Evaluated([r \in Rules |-> Evaluated([edits \in Batches |-> DisplacedBy(r, edits)])])
Displaced(w) == Displacements[rules][sent[w.doc.from].edits]

(* What the mirror shows of what was sent, and whether the viewer has      *)
(* nothing left to do.                                                     *)
Shown(w) ==
  (IF w.doc.from = 0 THEN {} ELSE sent[w.doc.from].edits)
    \cup {op[2] : op \in {o \in w.doc.ops : o[3] = Target(o[2])}}

SentIn(s) == UNION {sent[i].edits : i \in {j \in DOMAIN sent : sent[j].session = s}}

Settled(w) ==
  w.open /\ w.pos = Len(sent) /\ w.snapshot # 0 /\ w.nav = 0 /\ ~w.loading

Drifted(w) == Settled(w) /\ Shown(w) # SentIn(w.active)

(* An op only ever changes the element it is about, in the document of its *)
(* own session, although nids start again in every session, are paired by  *)
(* place, and the old document stays on show while the next one is fetched *)
(* (README.md: "a late diff always lands on the right mirror element").    *)
(* The exceptions are a document still on show whose own load event came   *)
(* after the next snapshot, as the listeners do not check whose load it    *)
(* is, and elements displaced by a placeholder.                            *)
NoForeignOps ==
  \A v \in Viewer : \A op \in view[v].doc.ops :
    ~view[v].mixed =>
      /\ view[v].doc.from # 0
      /\ op[1] = sent[view[v].doc.from].session
      /\ op[3] = Target(op[2]) \/ Target(op[2]) \in Displaced(view[v])

(* Drift is never silent once the viewer streams: when all has been        *)
(* delivered and loaded, no miss is counted, no message failed to reach    *)
(* the viewer and no element is displaced, every edit the session has sent *)
(* is shown, on its element, and no other.                                 *)
LossIsCounted ==
  \A v \in Viewer :
    (view[v].misses = 0 /\ ~view[v].gap /\ Drifted(view[v]))
      => view[v].doc.from # 0 /\ Displaced(view[v]) # {}

(* "Every write site calls this so the posture is applied uniformly"       *)
(* (src/renderer/index.js:355): by whatever path and order of snapshots,   *)
(* loads and diffs a node came to have a url, it is one the rules let it   *)
(* load.  The exception is the srcset of an added source.                  *)
PostureIsUniform ==
  \A v \in Viewer : \A i \in DOMAIN view[v].doc.nodes :
    LET n == view[v].doc.nodes[i]
        added == n.el \notin Present(sent[view[v].doc.from].edits)
    IN  \A attr \in Fetched(n) :
          Denied(rules, n, attr) => Tag[n.el] = "source" /\ attr = "srcset" /\ added

(* Every requested resync is answered, unless the relay lost the request   *)
(* or the answer, or the bound on sessions cut the host off.               *)
ResyncCompletes ==
  \A v \in Viewer :
    view[v].resync
      ~> (~view[v].resync \/ "signal" \in lost \/ session = MaxSessions)
=============================================================================
