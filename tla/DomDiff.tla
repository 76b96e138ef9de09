------------------------------ MODULE DomDiff ------------------------------
(***************************************************************************)
(* How edits of the page become ops and ops become the mirror:             *)
(* processMutationBatch and processAddedNode of src/capture/index.js, and  *)
(* applyMutations of src/renderer/diff.js with the identity index of       *)
(* src/renderer/index.js.                                                  *)
(*                                                                         *)
(* The observer's records say what happened in order, but a flush reads    *)
(* the page as it is NOW: the subtree of an added node, its next sibling,  *)
(* a text.  The ops are then applied one after the other to a tree in      *)
(* which nodes are found by nid only.                                      *)
(*                                                                         *)
(* Data abstraction.  An element has at most one bare text node, before    *)
(* its children, and one attribute; a text and an attribute are versions,  *)
(* the number of the edit that wrote them.  A node of the mirror is        *)
(* <<e, k>>: the copy of page element e that the k-th import made.         *)
(* Masking, URLs, styles, shadow roots, frames and form values are left    *)
(* out; so is the cap that cuts a batch into messages (CaptureSession).    *)
(***************************************************************************)
EXTENDS Naturals, SequencesExt

CONSTANTS
  Element,       \* elements below the body
  Body,          \* document.body, which is given no nid
  Dropped,       \* elements that never reach the wire (script, object, ...)
  FirstTree,     \* the children of every node when the page is loaded
  StaleLimit,    \* misses at which the viewer asks for a snapshot
  FailureLimit,  \* failed ops at which it does
  MaxEdits,      \* bound: edits of the page
  MaxSnapshots   \* bound: snapshots

Node == Element \cup {Body}
None == 0

ASSUME DomAssumption ==
  /\ Body \notin Element /\ Dropped \subseteq Element
  /\ FirstTree \in [Node -> Seq(Element)]
  /\ {StaleLimit, FailureLimit, MaxEdits, MaxSnapshots} \subseteq Nat

VARIABLES
  page,       \* the live tree: children, text and attribute of every node
  records,    \* the observer's records of this batch, oldest first
  transient,  \* removed roots that are observed until the next microtask
  nid,        \* elementToNid: None for an untracked element
  nextNid,    \* nextNodeId
  wire,       \* what is on its way to the viewer
  viewer,     \* the mirror, its identity index, its counters and its latch
  edits, snapshots,
  tangled,    \* history: since the last snapshot an edit fell where ops computed
              \* from the page as it is at the flush go wrong
  flattened,  \* history: since then text changed in place beside elements
  unsent      \* history: elements put, since then, under the body, below a
              \* wire-dropped element or an unsent one, where no op brings them

vars == <<page, records, transient, nid, nextNid, wire, viewer, edits,
          snapshots, tangled, flattened, unsent>>

-----------------------------------------------------------------------------
(* Trees, given by the children of every node.                             *)

RECURSIVE Preorder(_, _)
Preorder(kids, x) ==
  <<x>> \o FlattenSeq([i \in DOMAIN kids[x] |-> Preorder(kids, kids[x][i])])

Position(seq, x) == SelectInSeq(seq, LAMBDA y : y = x)
Subtree(kids, x) == ToSet(Preorder(kids, x))
Parents(kids, x) == {p \in DOMAIN kids : x \in ToSet(kids[p])}
Detach(kids, x)  == [p \in DOMAIN kids |-> Remove(kids[p], x)]
Insert(kids, x, p, i) == [kids EXCEPT ![p] = InsertAt(@, i, x)]

(* The next sibling of x, as a set of at most one.                         *)
NoSibling(kids, x) == {}
NextSibling(kids, x) ==
  {y \in DOMAIN kids : \E p \in DOMAIN kids : \E i \in 1 .. Len(kids[p]) - 1 :
     kids[p][i] = x /\ kids[p][i + 1] = y}

Kids == page.kids
OnPage(x) == x \in Subtree(Kids, Body)
WireDropped(x) == \E d \in Dropped : x \in Subtree(Kids, d)
Tracked(x) == nid[x] # None

-----------------------------------------------------------------------------
(* What goes on the wire.                                                  *)

(* The sanitized clone of a subtree: shape, texts and attributes as they   *)
(* are now, with the nids of its elements.                                 *)
Clone(x, ids) ==
  LET S == {e \in Subtree(Kids, x) : ~WireDropped(e)}
  IN  [root |-> x,
       kids |-> [e \in S |-> SelectSeq(Kids[e], LAMBDA k : k \in S)],
       text |-> [e \in S |-> page.text[e]],
       attr |-> [e \in S |-> page.attr[e]],
       nids |-> [e \in S |-> ids[e]]]

(* ensureNodeId, over a set of elements.                                   *)
EnsureNids(acc, S) ==
  LET new == SetToSeq({e \in S : acc.nid[e] = None})
  IN  [acc EXCEPT
        !.nid = [e \in Node |-> IF e \in ToSet(new)
                                THEN acc.next + Position(new, e) - 1 ELSE @[e]],
        !.next = @ + Len(new)]

Emit(acc, op) == [acc EXCEPT !.ops = Append(@, op)]

(* One added element of a childList record.                                *)
AddOps(acc, target, x) ==
  IF acc.nid[target] = None \/ WireDropped(x) THEN acc
  ELSE LET known == EnsureNids(acc, {e \in Subtree(Kids, x) : ~WireDropped(e)})
           before == {known.nid[y] : y \in NextSibling(Kids, x)}
       IN  Emit(known, [op |-> "add", parent |-> acc.nid[target],
                        before |-> IF before = {} THEN None
                                   ELSE CHOOSE n \in before : TRUE,
                        html |-> Clone(x, known.nid)])

(* One removed element of a childList record.                              *)
RemoveOps(acc, x) ==
  IF WireDropped(x) \/ acc.nid[x] = None THEN acc
  ELSE [Emit(acc, [op |-> "rm", nid |-> acc.nid[x]])
          EXCEPT !.removed = @ \cup {x}]

(* A bare text node came or went: one text op per target and batch, and    *)
(* none while the target has element children (the mixed-content guard).   *)
TextChildOps(acc, m) ==
  LET t == m.target
  IN  IF m.text /\ Kids[t] = <<>> /\ acc.nid[t] # None /\ t \notin acc.texts
      THEN [Emit(acc, [op |-> "text", nid |-> acc.nid[t], text |-> page.text[t]])
              EXCEPT !.texts = @ \cup {t}]
      ELSE acc

ChildListOps(acc, m) ==
  LET added == FoldLeft(LAMBDA a, x : AddOps(a, m.target, x), acc, m.added)
      gone  == FoldLeft(RemoveOps, added, m.removed)
  IN  TextChildOps(gone, m)

AttributeOps(acc, m) ==
  IF acc.nid[m.target] = None THEN acc
  ELSE Emit(acc, [op |-> "attr", nid |-> acc.nid[m.target],
                  val |-> page.attr[m.target]])

(* A text node's data changed: a text op for its parent.                   *)
CharacterDataOps(acc, m) ==
  IF acc.nid[m.target] = None THEN acc
  ELSE Emit(acc, [op |-> "text", nid |-> acc.nid[m.target],
                  text |-> page.text[m.target]])

RecordOps(acc, m) ==
  IF WireDropped(m.target) THEN acc
  ELSE CASE m.type = "childList"     -> ChildListOps(acc, m)
         [] m.type = "attributes"    -> AttributeOps(acc, m)
         [] m.type = "characterData" -> CharacterDataOps(acc, m)

(* A removed root that is not back on the page is forgotten, with all      *)
(* that is below it.                                                       *)
Forgotten(removed) ==
  UNION {Subtree(Kids, x) : x \in {r \in removed : ~OnPage(r)}}

(* processMutationBatch: the ops of the batch, and the identity mirror     *)
(* after it.                                                               *)
ProcessMutationBatch ==
  LET acc == FoldLeft(RecordOps,
               [ops |-> <<>>, nid |-> nid, next |-> nextNid,
                removed |-> {}, texts |-> {}], records)
      lost == Forgotten(acc.removed)
  IN  [acc EXCEPT !.nid = [e \in Node |-> IF e \in lost THEN None ELSE @[e]]]

-----------------------------------------------------------------------------
(* The viewer.                                                             *)

Empty == [e \in {} |-> None]

(* A fresh copy of a clone, not yet in the tree, not yet indexed.          *)
Import(v, html, k) ==
  LET S == DOMAIN html.kids
      copies == {<<e, k>> : e \in S}
      Over(f, g) == [w \in DOMAIN f \cup copies |->
                       IF w \in copies THEN g[w[1]] ELSE f[w]]
      kids == [e \in S |-> [i \in DOMAIN html.kids[e] |-> <<html.kids[e][i], k>>]]
  IN  [v EXCEPT !.kids = Over(@, kids), !.text = Over(@, html.text),
                !.attr = Over(@, html.attr), !.label = Over(@, html.nids)]

(* pairIdentityElements: the index names the latest copy.                  *)
IndexSubtree(v, html, k) ==
  LET ids == {html.nids[e] : e \in DOMAIN html.nids} \ {None}
  IN  [v EXCEPT !.index = [n \in DOMAIN @ \cup ids |->
         IF n \in ids THEN <<CHOOSE e \in DOMAIN html.nids : html.nids[e] = n, k>>
         ELSE @[n]]]

(* removeIndexedSubtree: every nid a node of the subtree carries.          *)
RemoveIndexed(v, w) ==
  LET S == Subtree(v.kids, w)
      gone == {v.label[s] : s \in S}
  IN  [v EXCEPT !.index = [n \in DOMAIN @ \ gone |-> @[n]],
                !.label = [s \in DOMAIN @ |-> IF s \in S THEN None ELSE @[s]]]

Miss(v) == [v EXCEPT !.misses = @ + 1,
                     !.asked = @ \/ v.misses + 1 >= StaleLimit]
FailUncounted(v) == v
Fail(v) == [v EXCEPT !.failures = @ + 1,
                     !.asked = @ \/ v.failures + 1 >= FailureLimit]

(* insertBefore throws when the reference node is not a child of parent.   *)
ApplyAdd(v, m) ==
  LET parent == v.index[m.parent]
      k      == v.copies + 1
      copy   == [Import(v, m.html, k) EXCEPT !.copies = k]
      Insertion(i) ==
        IndexSubtree([copy EXCEPT !.kids = Insert(@, <<m.html.root, k>>, parent, i)],
                     m.html, k)
      last   == Len(v.kids[parent]) + 1
  IN  IF m.before \notin DOMAIN v.index THEN Insertion(last)
      ELSE LET before == v.index[m.before]
           IN  IF before \in ToSet(v.kids[parent])
               THEN Insertion(Position(v.kids[parent], before)) ELSE Fail(v)

ApplyRemove(v, w) == [RemoveIndexed(v, w) EXCEPT !.kids = Detach(@, w)]

(* textContent = text: the children of the target leave the mirror.        *)
ApplyText(v, w, text) == [v EXCEPT !.kids[w] = <<>>, !.text[w] = text]

ApplyOp(v, m) ==
  LET target == IF m.op = "add" THEN m.parent ELSE m.nid
  IN  IF target \notin DOMAIN v.index THEN Miss(v)
      ELSE CASE m.op = "add"  -> ApplyAdd(v, m)
             [] m.op = "rm"   -> ApplyRemove(v, v.index[target])
             [] m.op = "text" -> ApplyText(v, v.index[target], m.text)
             [] m.op = "attr" -> [v EXCEPT !.attr[v.index[target]] = m.val]

(* Nodes that neither the document nor the index reaches are garbage.      *)
Collect(v) ==
  LET live == UNION {Subtree(v.kids, w) :
                       w \in {<<Body, 0>>} \cup {v.index[n] : n \in DOMAIN v.index}}
      Only(f) == [w \in live |-> f[w]]
  IN  [v EXCEPT !.kids = Only(@), !.text = Only(@), !.attr = Only(@),
                !.label = Only(@)]

(* A snapshot replaces document and index, and resets counters and latch.  *)
Rebuilt(html) ==
  LET blank == [kids |-> Empty, text |-> Empty, attr |-> Empty, label |-> Empty,
                index |-> Empty, copies |-> 0, misses |-> 0, failures |-> 0,
                asked |-> FALSE]
  IN  IndexSubtree(Import(blank, html, 0), html, 0)

-----------------------------------------------------------------------------
(* The page.  An edit is recorded if its target is below the body or below *)
(* a removed root that is still observed.                                  *)

Observed(x) ==
  OnPage(x) \/ \E r \in transient : x \in Subtree(Kids, r)

ChildList(t, added, removed, text) ==
  [type |-> "childList", target |-> t, added |-> added, removed |-> removed,
   text |-> text]

Record(t, m) == IF Observed(t) THEN <<m>> ELSE <<>>

(* Where this batch has put elements: the parents, and what was put there. *)
Filled ==
  UNION {{m.target} \cup UNION {Subtree(Kids, x) : x \in ToSet(m.added)} :
           m \in {r \in ToSet(records) :
                   r.type = "childList" /\ (r.added # <<>> \/ r.text)}}

Edited == edits < MaxEdits /\ edits' = edits + 1

(* A detached element is put under p as its i-th child, or an attached one *)
(* is moved there, which is a removal and an insertion.                    *)
InsertElement(x, p, i) ==
  /\ Edited
  /\ p \notin Subtree(Kids, x)
  /\ LET old  == Parents(Kids, x)
         rest == Detach(Kids, x)
         gone == IF old = {} THEN <<>>
                 ELSE LET q == CHOOSE q \in old : TRUE
                      IN  Record(q, ChildList(q, <<>>, <<x>>, FALSE))
         came == Record(p, ChildList(p, <<x>>, <<>>, FALSE))
     IN  /\ i \in 1 .. Len(rest[p]) + 1
         /\ page' = [page EXCEPT !.kids = Insert(rest, x, p, i)]
         /\ records' = records \o gone \o came
         /\ transient' = IF gone = <<>> THEN transient ELSE transient \cup {x}
         /\ tangled' = (tangled \/ p \in Filled \/ p = Body \/ WireDropped(p)
                         \/ (i <= Len(rest[p]) /\ rest[p][i] \in Dropped))
  /\ unsent' = IF p \in {Body} \cup unsent \/ WireDropped(p)
               THEN unsent \cup Subtree(Kids, x) ELSE unsent
  /\ UNCHANGED <<nid, nextNid, wire, viewer, snapshots, flattened>>

RemoveElement(x) ==
  /\ Edited
  /\ \E p \in Parents(Kids, x) :
       LET gone == Record(p, ChildList(p, <<>>, <<x>>, FALSE))
       IN  /\ records' = records \o gone
           /\ transient' = IF gone = <<>> THEN transient ELSE transient \cup {x}
  /\ page' = [page EXCEPT !.kids = Detach(@, x)]
  /\ UNCHANGED tangled
  /\ UNCHANGED <<nid, nextNid, wire, viewer, snapshots, flattened, unsent>>

(* textContent = ...: every child goes, one bare text comes.               *)
SetText(x) ==
  /\ Edited
  /\ LET all == Record(x, ChildList(x, <<>>, Kids[x], TRUE))
     IN  /\ records' = records \o all
         /\ transient' = IF all = <<>> THEN transient
                         ELSE transient \cup ToSet(Kids[x])
  /\ page' = [page EXCEPT !.kids[x] = <<>>, !.text[x] = edits']
  /\ UNCHANGED tangled
  /\ UNCHANGED <<nid, nextNid, wire, viewer, snapshots, flattened, unsent>>

(* A bare text node is added to an element that has none.                  *)
AppendText(x) ==
  /\ Edited
  /\ page.text[x] = None
  /\ page' = [page EXCEPT !.text[x] = edits']
  /\ records' = records \o Record(x, ChildList(x, <<>>, <<>>, TRUE))
  /\ tangled' = (tangled \/ Kids[x] # <<>>)
  /\ UNCHANGED <<transient, nid, nextNid, wire, viewer, snapshots, flattened, unsent>>

(* The data of the text node is changed in place.                          *)
EditText(x) ==
  /\ Edited
  /\ page.text[x] # None
  /\ page' = [page EXCEPT !.text[x] = edits']
  /\ records' = records \o Record(x, [type |-> "characterData", target |-> x])
  /\ tangled' = (tangled \/ Kids[x] # <<>>)
  /\ flattened' = (flattened \/ Kids[x] # <<>>)
  /\ UNCHANGED <<transient, nid, nextNid, wire, viewer, snapshots, unsent>>

SetAttribute(x) ==
  /\ Edited
  /\ page' = [page EXCEPT !.attr[x] = edits']
  /\ records' = records \o Record(x, [type |-> "attributes", target |-> x])
  /\ UNCHANGED tangled
  /\ UNCHANGED <<transient, nid, nextNid, wire, viewer, snapshots, flattened, unsent>>

-----------------------------------------------------------------------------
(* The capture and the viewer.                                             *)

(* The observer's microtask: the records are pooled.                       *)
Microtask ==
  /\ transient # {}
  /\ transient' = {}
  /\ UNCHANGED <<page, records, nid, nextNid, wire, viewer, edits, snapshots,
                 tangled, flattened, unsent>>

(* flushMutations: no message is sent when no op came out.                 *)
Flush ==
  /\ records # <<>>
  /\ wire = <<>>
  /\ LET done == ProcessMutationBatch
     IN  /\ wire' = IF done.ops = <<>> THEN <<>> ELSE <<done.ops>>
         /\ nid' = done.nid /\ nextNid' = done.next
  /\ records' = <<>> /\ transient' = {}
  /\ UNCHANGED <<page, viewer, edits, snapshots, tangled, flattened, unsent>>

(* start(): a new identity for every element below the body, a snapshot    *)
(* of all of it, and an empty pool.  It reaches the viewer in one step:    *)
(* what lies between is the business of MirrorStream.                      *)
Snapshot ==
  /\ snapshots < MaxSnapshots
  /\ LET blank == [nid |-> [e \in Node |-> None], next |-> 1]
         known == EnsureNids(blank, {e \in Subtree(Kids, Body) \ {Body} :
                                       ~WireDropped(e)})
     IN  /\ nid' = known.nid /\ nextNid' = known.next
         /\ viewer' = Rebuilt(Clone(Body, known.nid))
  /\ records' = <<>> /\ transient' = {} /\ wire' = <<>>
  /\ snapshots' = snapshots + 1
  /\ tangled' = FALSE /\ flattened' = FALSE /\ unsent' = {}
  /\ UNCHANGED <<page, edits>>

(* The viewer applies a batch.                                             *)
Deliver ==
  /\ wire # <<>>
  /\ viewer' = Collect(FoldLeft(ApplyOp, viewer, Head(wire)))
  /\ wire' = <<>>
  /\ UNCHANGED <<page, records, transient, nid, nextNid, edits, snapshots,
                 tangled, flattened, unsent>>

Init ==
  /\ page = [kids |-> FirstTree, text |-> [x \in Node |-> None],
             attr |-> [x \in Node |-> None]]
  /\ records = <<>> /\ transient = {} /\ wire = <<>>
  /\ LET known == EnsureNids([nid |-> [e \in Node |-> None], next |-> 1],
                             {e \in Subtree(FirstTree, Body) \ {Body} :
                                ~WireDropped(e)})
     IN  /\ nid = known.nid /\ nextNid = known.next
         /\ viewer = Rebuilt(Clone(Body, known.nid))
  /\ edits = 0 /\ snapshots = 0
  /\ tangled = FALSE /\ flattened = FALSE /\ unsent = {}

Next ==
  \/ \E x \in Element, p \in Node, i \in 1 .. MaxEdits + 3 : InsertElement(x, p, i)
  \/ \E x \in Element : RemoveElement(x)
  \/ \E x \in Element \ Dropped : SetText(x)
  \/ \E x \in Element \ Dropped : AppendText(x)
  \/ \E x \in Element \ Dropped : EditText(x)
  \/ \E x \in Element \ Dropped : SetAttribute(x)
  \/ Microtask
  \/ Flush
  \/ Snapshot
  \/ Deliver

Spec == Init /\ [][Next]_vars

-----------------------------------------------------------------------------
(* What the viewer displays.                                               *)
Shown == Subtree(viewer.kids, <<Body, 0>>)
Settled == records = <<>> /\ wire = <<>>

(* The mirror shows the page: same elements, order, texts, attributes.     *)
Matches ==
  LET S == {e \in Subtree(Kids, Body) : ~WireDropped(e)}
  IN  /\ {w[1] : w \in Shown} = S
      /\ \A w \in Shown :
           /\ [i \in DOMAIN viewer.kids[w] |-> viewer.kids[w][i][1]]
                = SelectSeq(Kids[w[1]], LAMBDA k : k \in S)
           /\ viewer.text[w] = page.text[w[1]]
           /\ viewer.attr[w] = page.attr[w[1]]

(* Elements the capture addresses that the mirror lacks, although it       *)
(* displays their parent and each was put where ops are sent.              *)
Displayed == {w[1] : w \in Shown}
Missing ==
  {e \in Element \ (Displayed \cup unsent) : OnPage(e) /\ Tracked(e)
     /\ Parents(Kids, e) \subseteq Displayed}

-----------------------------------------------------------------------------
(* The mirror shows the page once records and wire are empty, whatever the *)
(* edits between two flushes were (elements moved, removed, put back,      *)
(* emptied, edited while removed), unless since the last snapshot          *)
(*   - an element was put under the body, below a wire-dropped element,    *)
(*     before one, or where the same batch had already put an element or   *)
(*     a text, or                                                          *)
(*   - text was appended or changed beside element children.               *)
(* In those cases ops computed from the page at flush time go wrong.       *)
UntangledMatches == Settled /\ ~tangled => Matches

(* A missing element has been counted as a miss or a failure, so that      *)
(* enough of them bring a snapshot, even in a tangled mirror.  Losses the  *)
(* viewer cannot see are text that flattens, and what the capture never    *)
(* sent: an element put under the body or below a wire-dropped element     *)
(* (lines 4424 and 4427), also when it is later moved with what it is in.  *)
LossIsCounted ==
  Settled /\ ~flattened /\ viewer.misses + viewer.failures = 0 => Missing = {}
=============================================================================
