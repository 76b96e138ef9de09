------------------------------ MODULE WireCopy ------------------------------
(***************************************************************************)
(* What of the page reaches the viewer, under the host's rules: the        *)
(* serialization paths of src/capture/index.js.                            *)
(*                                                                         *)
(* The page is sent by six paths: a snapshot, the subtree of an added      *)
(* element, a text, an attribute, a typed value, and the answer to a       *)
(* viewer that asks for a region the budget cut off.  Each applies the     *)
(* rules by itself: an element may be skipped, replaced by a placeholder   *)
(* of its size (blocked, masked media, an asset that cannot be shared, cut *)
(* by the budget), or have its text or value masked.  The capture goes on  *)
(* to address by nid what it has tracked, mirrored or not.                 *)
(*                                                                         *)
(* Data abstraction.  A form is the sequence of what was done to an        *)
(* element's content: <<>> is raw, <<"text">> is masked by the text mask,  *)
(* and so on; a placeholder is a form of its own.  A nid is its element.   *)
(* Shapes are fixed: an element leaves its place and comes back to it,     *)
(* with what is below it (DomDiff has the moves); the first, which holds   *)
(* the others, stays.  The scrubbing of URLs, handlers and styles changes  *)
(* no form and is abstracted.  Scripts, shadow roots and frames are left   *)
(* out, and so is the budget's last resort, a snapshot emptied because its *)
(* shell alone is over the relay's limit.                                  *)
(***************************************************************************)
EXTENDS Integers, FiniteSetsExt, SequencesExt

CONSTANTS
  Order,     \* the elements in document order; the first holds the others
  Parent,    \* the parent of every other element
  Chain,     \* per element: those it is in, itself included
  Media,     \* video elements
  Control,   \* form controls
  Long,      \* weight of a long text (an element weighs 1)
  Budget,    \* SNAPSHOT_BUDGET_BYTES
  Limit,     \* RELAY_PER_MESSAGE_LIMIT_BYTES
  MaxMarked, \* bound: elements a rule matches at the start
  MaxEdits   \* bound: edits of the page

Element == ToSet(Order)
Top == Order[1]
Mark == {"none", "skip", "block", "text", "media"}

(* A tree in document order.                                               *)
ASSUME TreeAssumption ==
  /\ Order \in Seq(Element) \ {<<>>} /\ IsInjective(Order)
  /\ Parent \in [Element \ {Top} -> Element]
  /\ Chain \in [Element -> SUBSET Element] /\ Chain[Top] = {Top}
  /\ \A e \in Element \ {Top} :
       Chain[e] = {e} \cup Chain[Parent[e]] /\ e \notin Chain[Parent[e]]
  /\ \A e \in Element : \A x, y \in Chain[e] : x \in Chain[y] \/ y \in Chain[x]
  /\ \A e \in Element : \A x \in Chain[e] : Chain[x] \subseteq Chain[e]
  /\ \A i \in DOMAIN Order : \A x \in Chain[Order[i]] : \E j \in 1 .. i : Order[j] = x

ASSUME WireAssumption ==
  /\ Media \subseteq Element /\ Control \subseteq Element /\ Media \cap Control = {}
  /\ {Long, Budget, Limit, MaxMarked, MaxEdits} \subseteq Nat

VARIABLES
  rules,    \* maskInputs, the kind of the controls, the media whose source is
            \* a blob (dead), what lies below the fold
  mark,     \* the host's selector that matches each element
  present,  \* elements on the page
  long,     \* elements with a long text
  pool,     \* the observer's records of this batch
  tracked,  \* elements with a nid
  mirror,   \* the form of each element the mirror has
  sent,     \* history: what the last step sent, by which path and root
  missed,   \* history: elements the last step addressed and the mirror lacks
  baseline, \* history: the media[] of the snapshot the last step sent
  orphaned, \* history: tracked elements of the page that the mirror lost and
            \* has not been sent since: they came back while a rule kept them
            \* out, or a text was written over them
  edits

vars == <<rules, mark, present, long, pool, tracked, mirror, sent, missed,
          baseline, orphaned, edits>>

Hidden      == <<"hidden">>
Unavailable == <<"unavailable">>
Truncated   == <<"truncated">>
Placeholder == {Hidden, Unavailable, Truncated}

-----------------------------------------------------------------------------
(* The tree and the rules.                                                 *)

Above(e) == Chain[e] \ {e}
Below(e) == {x \in Element : e \in Above(x)}

Marked(S, marks) == \E x \in S : mark[x] \in marks
Skipped(e) == Marked(Chain[e], {"skip"})
Blocked(e) == Marked(Chain[e], {"block"})
MediaMasked(e) == Marked(Chain[e], {"media"})
MaskTextMatches(e) == Marked(Chain[e], {"text"})

(* assetDegradeReason.                                                     *)
Unshareable == rules.dead

(* shouldMaskInput: a password always is.                                  *)
ShouldMaskInput(e) ==
  e \in Control /\ (rules.control = "password" \/ rules.inputs)

(* The two masks: the host's function or, when it throws, the default one, *)
(* which is a mask all the same.                                           *)
SafeMaskText  == <<"text">>
SafeMaskInput == <<"input">>

(* The masks put on clone x for its live counterpart y: on the value of a  *)
(* control, and on the text, which a password does not have.               *)
ValueMask(x, y) ==
  IF ShouldMaskInput(y) /\ x \in Control THEN SafeMaskInput ELSE <<>>
TextMask(x, y) ==
  IF MaskTextMatches(y) /\ (x \in Control => rules.control = "textarea")
  THEN SafeMaskText ELSE <<>>

(* The element dispatch puts each on once, on clones the walk visits twice.*)
ElementDispatch(x, y) == ValueMask(x, y) \o TextMask(x, y)

(* The text dispatch: one mask or the other.                               *)
TextUnowned(e) == IF MaskTextMatches(e) THEN SafeMaskText ELSE <<>>
TextDispatch(e) ==
  IF ShouldMaskInput(e) THEN SafeMaskInput
  ELSE IF MaskTextMatches(e) THEN SafeMaskText ELSE <<>>

(* The input dispatch, of a typed value, and the attr dispatch, of a value *)
(* that the page writes.                                                   *)
InputDispatch(e) == IF ShouldMaskInput(e) THEN SafeMaskInput ELSE <<>>
AttrDispatch(e) == IF ShouldMaskInput(e) THEN SafeMaskInput ELSE <<>>

Weight(e, form) == IF e \in long /\ form \notin Placeholder THEN Long ELSE 1
Size(copy) == MapThenSumSet(LAMBDA e : Weight(e, copy[e]), DOMAIN copy)
Without(copy, S) == [e \in DOMAIN copy \ S |-> copy[e]]
Over(copy, old) ==
  [e \in DOMAIN copy \cup DOMAIN old |->
     IF e \in DOMAIN copy THEN copy[e] ELSE old[e]]

-----------------------------------------------------------------------------
(* serializeDOM.                                                           *)

(* The walk gives nids to all but what is skipped or below a placeholder   *)
(* of the host's; what is below an unshareable asset has one.              *)
NamesSkipped == {e \in present : ~Marked(Above(e), {"block", "media"})}
NamedBySnapshot ==
  {e \in present : ~Skipped(e) /\ ~Marked(Above(e), {"block", "media"})}

SnapshotForm(e) ==
  IF mark[e] \in {"block", "media"} THEN Hidden
  ELSE IF e \in Unshareable THEN Unavailable ELSE ElementDispatch(e, e)

Uncut ==
  LET kept == {x \in NamedBySnapshot :
                 ~Skipped(x) /\ Above(x) \cap Unshareable = {}}
  IN  [e \in kept |-> SnapshotForm(e)]

(* replaceWithTruncatedPlaceholder.                                        *)
Cut(copy, e) == [Without(copy, Below(e)) EXCEPT ![e] = Truncated]

LastToFirst(Op(_, _), first) ==
  LET after[i \in 0 .. Len(Order)] ==
        IF i = 0 THEN first ELSE Op(after[i - 1], Order[Len(Order) + 1 - i])
  IN  after[Len(Order)]

(* The two passes: what is below the fold, then whatever comes last, until *)
(* the body fits.                                                          *)
CutIfBelowFold(copy, e) ==
  IF e \in DOMAIN copy \cap rules.below THEN Cut(copy, e) ELSE copy
CutUnlessFits(copy, e) ==
  IF Size(copy) > Budget /\ e \in DOMAIN copy THEN Cut(copy, e) ELSE copy

CutBelowFold(copy) == LastToFirst(CutIfBelowFold, copy)
CutUntilFits(copy) == LastToFirst(CutUnlessFits, copy)
Trimmed(copy) ==
  IF Size(copy) > Budget THEN CutUntilFits(CutBelowFold(copy)) ELSE copy

(* The media[] of a snapshot, read from the live page.                     *)
TrackedMedia ==
  {e \in present \cap Media : ~Skipped(e) /\ ~Blocked(e) /\ ~MediaMasked(e)}

(* fitSnapshotPayloadForBudget: the same with the media[] counted in, which*)
(* is cut down to the copy whenever the copy is cut.  Styles, sidecars and *)
(* the shell's attributes, which are shed first, weigh nothing here.       *)
ShedUnlessFits(p, e) ==
  IF Size(p.copy) + Cardinality(p.media) > Budget /\ e \in DOMAIN p.copy
  THEN [copy |-> Cut(p.copy, e), media |-> p.media \cap DOMAIN Cut(p.copy, e)]
  ELSE p
FitForBudget(copy, media) ==
  LastToFirst(ShedUnlessFits, [copy |-> copy, media |-> media])

(* pruneMediaToNodeIds, on what comes out.                                 *)
PruneMedia(payload) == [payload EXCEPT !.media = @ \cap DOMAIN payload.copy]

SnapshotPayload == PruneMedia(FitForBudget(Trimmed(Uncut), TrackedMedia))

-----------------------------------------------------------------------------
(* processAddedNode.                                                       *)

(* Nids for what is below the added root, but for what is below a blocked  *)
(* element; what is skipped or below masked media gets one.                *)
NamedByAdd(r) ==
  IF mark[r] = "block" THEN {r}
  ELSE {r} \cup {e \in present \cap Below(r) : ~Marked(Above(e), {"block"})}

(* The live descendants, and those of the clone once the unshareable       *)
(* assets are replaced, which takes along what was below them.             *)
LiveBelow(r) == present \cap Below(r)
ClonedBelow(r) ==
  {e \in LiveBelow(r) : Above(e) \cap Below(r) \cap Unshareable = {}}

(* The subtree dispatch pairs the descendants of the clone with those of   *)
(* the live root by their place in document order.                         *)
At(e) == CHOOSE i \in DOMAIN Order : Order[i] = e
Earlier(S, e) == {x \in S : At(x) < At(e)}
Counterpart(r, x) ==
  CHOOSE y \in LiveBelow(r) :
    Cardinality(Earlier(LiveBelow(r), y)) = Cardinality(Earlier(ClonedBelow(r), x))

ScrubbedForm(r, x) ==
  LET y == Counterpart(r, x)
  IN  IF Marked(Above(y), {"block", "media"})
      THEN IF x \in Unshareable THEN Unavailable ELSE <<>>
      ELSE IF mark[y] \in {"block", "media"} THEN Hidden
      ELSE IF x \in Unshareable THEN Unavailable ELSE ElementDispatch(x, y)

SubtreeDispatch(r) ==
  LET form == [x \in ClonedBelow(r) |-> ScrubbedForm(r, x)]
      gone == UNION {Below(x) : x \in {y \in DOMAIN form : form[y] = Hidden}}
  IN  Over([x \in {r} |-> ElementDispatch(r, r)], Without(form, gone))

ProcessAddedNode(r) ==
  IF mark[r] = "block" THEN [x \in {r} |-> Hidden]
  ELSE IF r \in Unshareable THEN [x \in {r} |-> Unavailable]
  ELSE SubtreeDispatch(r)

(* boundMutationDiffForBudget: an added subtree over the limit shrinks to  *)
(* a placeholder that the viewer may ask for.                              *)
BoundAdd(r) ==
  IF Size(ProcessAddedNode(r)) > Limit THEN [x \in {r} |-> Truncated]
  ELSE ProcessAddedNode(r)

-----------------------------------------------------------------------------
(* processMutationBatch, and the viewer that applies its ops.              *)

Sending(copy, path, root) ==
  {[el |-> e, form |-> copy[e], path |-> path, root |-> root] :
     e \in DOMAIN copy}

(* An added element.  One that left the page again in the same batch is    *)
(* sent and removed: neither is modelled.  One that a rule keeps out is    *)
(* still tracked if it was.                                                *)
KeptOut(r) == Skipped(r) \/ Blocked(Parent[r])
Withheld(acc, r) ==
  [acc EXCEPT !.orphaned =
     @ \cup ((({r} \cup Below(r)) \cap acc.tracked) \ DOMAIN acc.mirror)]
Added(acc, r) ==
  LET known == [acc EXCEPT !.tracked = @ \cup NamedByAdd(r)]
  IN  IF Parent[r] \notin DOMAIN acc.mirror
      THEN [known EXCEPT !.missed = @ \cup {Parent[r]}]
      ELSE [known EXCEPT !.mirror = Over(BoundAdd(r), Without(@, Below(r))),
                         !.sent = @ \cup Sending(BoundAdd(r), "add", r),
                         !.orphaned = @ \ ({r} \cup Below(r))]
AddOp(acc, r) ==
  IF r \notin present THEN acc
  ELSE IF KeptOut(r) THEN Withheld(acc, r)
  ELSE IF Parent[r] \notin acc.tracked THEN acc
  ELSE Added(acc, r)

(* A removed element, forgotten at the end of the batch unless it is back. *)
RemoveOp(acc, r) ==
  IF r \notin acc.tracked \/ Skipped(Parent[r]) \/ Blocked(Parent[r]) THEN acc
  ELSE [acc EXCEPT !.mirror = Without(@, {r} \cup Below(r)),
                   !.missed = @ \cup ({r} \ DOMAIN acc.mirror),
                   !.removed = @ \cup {r}]

(* Content that is written over a placeholder leaves it the placeholder it *)
(* is; content over the limit is dropped.  A text replaces all that the    *)
(* element holds in the mirror (textContent), tracked or not.              *)
Cleared(acc, e, path) ==
  IF path # "text" THEN acc
  ELSE [acc EXCEPT !.mirror = Without(@, Below(e)),
                   !.orphaned = @ \cup (Below(e) \cap present \cap acc.tracked)]
WriteContent(acc, e, form, path) ==
  IF Weight(e, form) > Limit THEN acc
  ELSE IF e \notin DOMAIN acc.mirror THEN [acc EXCEPT !.missed = @ \cup {e}]
  ELSE [Cleared(acc, e, path) EXCEPT
          !.mirror[e] = IF @ \in Placeholder THEN @ ELSE form,
          !.sent = @ \cup Sending([x \in {e} |-> form], path, e)]

Writable(acc, e) ==
  e \in present /\ e \in acc.tracked /\ ~Skipped(e) /\ ~Blocked(e)

TextOp(acc, e) ==
  IF Writable(acc, e) THEN WriteContent(acc, e, TextDispatch(e), "text")
  ELSE acc

AttrOp(acc, e) ==
  IF Writable(acc, e) THEN WriteContent(acc, e, AttrDispatch(e), "attr")
  ELSE acc

(* The text nodes of an element came or went: nothing is sent while it has *)
(* elements.  A text node that changed is sent beside them all the same.   *)
Bare(e) == Below(e) \cap present = {}

RecordOp(acc, m) ==
  CASE m.type = "add"  -> AddOp(acc, m.el)
    [] m.type = "rm"   -> RemoveOp(acc, m.el)
    [] m.type = "text" -> IF Bare(m.el) THEN TextOp(acc, m.el) ELSE acc
    [] m.type = "data" -> TextOp(acc, m.el)
    [] m.type = "attr" -> AttrOp(acc, m.el)

Start == [tracked |-> tracked, mirror |-> mirror, orphaned |-> orphaned,
          sent |-> {}, missed |-> {}, removed |-> {}]

ProcessMutationBatch ==
  LET after[i \in 0 .. Len(pool)] ==
        IF i = 0 THEN Start ELSE RecordOp(after[i - 1], pool[i])
      acc  == after[Len(pool)]
      gone == acc.removed \ present
  IN  [acc EXCEPT !.tracked = @ \ UNION {{r} \cup Below(r) : r \in gone}]

After(acc) ==
  /\ tracked' = acc.tracked /\ mirror' = acc.mirror
  /\ sent' = acc.sent /\ missed' = acc.missed
  /\ orphaned' = acc.orphaned \cap acc.tracked

-----------------------------------------------------------------------------
(* The page.                                                               *)

Edited == edits < MaxEdits /\ edits' = edits + 1
Silent == sent' = {} /\ missed' = {} /\ baseline' = {}

(* Elements with a text of their own: of many boxes, one is enough.        *)
WithText == Element \ (Media \cup {Top})

Recorded(type, e) == pool' = Append(pool, [type |-> type, el |-> e])

AddElement(e) ==
  /\ Edited /\ Silent
  /\ e \notin present /\ Parent[e] \in present
  /\ present' = present \cup {e} \cup Below(e)
  /\ Recorded("add", e)
  /\ UNCHANGED <<rules, mark, long, tracked, mirror, orphaned>>

RemoveElement(e) ==
  /\ Edited /\ Silent
  /\ e \in present
  /\ present' = present \ ({e} \cup Below(e))
  /\ Recorded("rm", e)
  /\ UNCHANGED <<rules, mark, long, tracked, mirror, orphaned>>

(* Text nodes come and go: a short text in the place of a long one, or the *)
(* reverse (one as long as it was does what ChangeData does, or nothing).  *)
WriteText(e) ==
  /\ Edited /\ Silent
  /\ e \in present \cap WithText
  /\ long' = IF e \in long THEN long \ {e} ELSE long \cup {e}
  /\ Recorded("text", e)
  /\ UNCHANGED <<rules, mark, present, tracked, mirror, orphaned>>

(* The data of a text node changes, to a text as long as it was.           *)
ChangeData(e) ==
  /\ Edited /\ Silent
  /\ e \in present \cap WithText
  /\ Recorded("data", e)
  /\ UNCHANGED <<rules, mark, present, long, tracked, mirror, orphaned>>

(* The page writes the value attribute of an input (a textarea has none).  *)
WriteValueAttribute(e) ==
  /\ Edited /\ Silent
  /\ e \in present \cap Control /\ rules.control = "password"
  /\ Recorded("attr", e)
  /\ UNCHANGED <<rules, mark, present, long, tracked, mirror, orphaned>>

(* A class comes or goes, and with it the rule that matches the element.   *)
(* The op of its record is about the class only.                           *)
ChangeMark(e, m) ==
  /\ Edited /\ Silent
  /\ mark[e] # m
  /\ mark' = [mark EXCEPT ![e] = m]
  /\ UNCHANGED <<rules, present, long, pool, tracked, mirror, orphaned>>

-----------------------------------------------------------------------------
(* The capture.                                                            *)

Flush ==
  /\ pool # <<>>
  /\ After(ProcessMutationBatch)
  /\ pool' = <<>> /\ baseline' = {}
  /\ UNCHANGED <<rules, mark, present, long, edits>>

(* handleValueEvent: the user types; the value does not wait for a flush.  *)
TypeValue(e) ==
  /\ Edited
  /\ e \in Control \cap present
  /\ LET acc == IF Writable(Start, e)
                THEN WriteContent(Start, e, InputDispatch(e), "value")
                ELSE Start
     IN  After(acc)
  /\ baseline' = {}
  /\ UNCHANGED <<rules, mark, present, long, pool>>

(* start(): a snapshot of what is there now, and an empty pool.            *)
Snapshot ==
  LET payload == SnapshotPayload
  IN  /\ tracked' = NamedBySnapshot \cup TrackedMedia
      /\ mirror' = payload.copy
      /\ sent' = Sending(payload.copy, "snapshot", Top)
      /\ baseline' = payload.media
      /\ missed' = {} /\ pool' = <<>> /\ orphaned' = {}
      /\ UNCHANGED <<rules, mark, present, long, edits>>

(* The viewer asks for a region that was cut; serializeRequestedSubtree    *)
(* answers with what is there now, or with a status.                       *)
SubtreeRequest(e) ==
  /\ e \in DOMAIN mirror
  /\ mirror[e] = Truncated
  /\ LET known == tracked \cup NamedByAdd(e)
         copy  == ProcessAddedNode(e)
     IN  IF e \in tracked /\ e \in present /\ ~Skipped(e) /\ ~Blocked(e)
         THEN IF Size(copy) > Limit
              THEN /\ tracked' = known
                   /\ sent' = {}
                   /\ UNCHANGED <<mirror, orphaned>>
              ELSE /\ tracked' = known
                   /\ mirror' = Over(copy, Without(mirror, Below(e)))
                   /\ orphaned' = orphaned \ ({e} \cup Below(e))
                   /\ sent' = Sending(copy, "subtree", e)
         ELSE /\ sent' = {}
              /\ UNCHANGED <<tracked, mirror, orphaned>>
  /\ missed' = {} /\ baseline' = {}
  /\ UNCHANGED <<rules, mark, present, long, pool, edits>>

Init ==
  /\ rules \in [inputs : BOOLEAN, control : {"textarea", "password"},
                dead : SUBSET Media, below : {{}, Media}]
  /\ rules.inputs => rules.control = "textarea"
  /\ mark \in {m \in [Element -> Mark] :
                 Cardinality({e \in Element : m[e] # "none"}) <= MaxMarked}
  /\ present = Element /\ long \in {{}, WithText}
  /\ LET payload == SnapshotPayload
     IN  /\ tracked = NamedBySnapshot \cup TrackedMedia
         /\ mirror = payload.copy /\ baseline = payload.media
         /\ sent = Sending(payload.copy, "snapshot", Top)
  /\ pool = <<>> /\ missed = {} /\ orphaned = {} /\ edits = 0

Next ==
  \/ \E e \in Element \ {Top} : AddElement(e) \/ RemoveElement(e)
  \/ \E e \in Element : WriteText(e) \/ ChangeData(e)
  \/ \E e \in Element, m \in Mark : ChangeMark(e, m)
  \/ \E e \in Control : TypeValue(e) \/ WriteValueAttribute(e)
  \/ Flush
  \/ Snapshot
  \/ \E e \in Element : SubtreeRequest(e)

Spec == Init /\ [][Next]_vars

-----------------------------------------------------------------------------
(* Where a path is known to differ from a snapshot.                        *)

(* The mutation paths heed maskMediaSelector only below an added root.     *)
InMaskedMedia(s) == Marked(Chain[s.root], {"media"})
(* An unshareable asset is a placeholder, but a tracked parent.            *)
InUnavailable(s) == Above(s.root) \cap Unshareable # {}
(* Of an added subtree only the root is asked whether it is skipped.       *)
SkippedInside(s) == Marked(Chain[s.el] \ Chain[s.root], {"skip"})
(* A textarea's content is a value, a text, or both, depending on the path.*)
TextareaContent(s) ==
  s.path \in {"text", "value"} /\ rules.control = "textarea"
    /\ s.el \in Control /\ MaskTextMatches(s.el)
(* Below an added root, an asset that became a placeholder shifts the      *)
(* pairing of what comes after it by what was below it.                    *)
Shifted(s) ==
  /\ s.el # s.root
  /\ Earlier(ClonedBelow(s.root), s.el) # Earlier(LiveBelow(s.root), s.el)

-----------------------------------------------------------------------------
(* Every path sends an element in the form a snapshot taken now would give *)
(* it (or leaves it to be asked for), whatever has become of the page and  *)
(* of the marks since it was last sent, but for the five cases above.      *)
Agrees(s) ==
  s.el \in present /\ s.form # Truncated =>
    \/ s.el \in DOMAIN Uncut /\ s.form = Uncut[s.el]
    \/ /\ s.path # "snapshot"
       /\ \/ InMaskedMedia(s) \/ InUnavailable(s) \/ SkippedInside(s)
          \/ TextareaContent(s) \/ Shifted(s)
PathsAgree == \A s \in sent : Agrees(s)

(* An op for an element that ought to be shown finds it in the mirror, or  *)
(* the mirror has a placeholder above it: whatever the marks and the page  *)
(* did meanwhile, no path tracks an element and then does not send it.     *)
(* Three cases are the code's own.  An element that leaves the page and    *)
(* comes back in one batch, at a time when a rule keeps it out, is removed *)
(* from the mirror and stays tracked, so once the rule is gone its edits   *)
(* are lost (lines 4423 and 4465-4468).  A text node that changes beside   *)
(* elements is sent as the text of all, which takes them out of the mirror *)
(* and leaves them tracked (line 4577; a child list is asked, line 4494).  *)
(* And a typed value does not wait for the flush that sends the element    *)
(* again (line 1976).  Whatever cut the copy of a snapshot, its playback   *)
(* states name elements that kept their nid, be it as a placeholder:       *)
(* they "can never address a node nodeIds no longer contains".             *)
AddWaits(e) == \E i \in DOMAIN pool : pool[i].type = "add" /\ pool[i].el \in Chain[e]
KnownTargets ==
  /\ \A e \in (missed \cap DOMAIN Uncut) \ DOMAIN mirror :
       \/ \E x \in Above(e) \cap DOMAIN mirror : mirror[x] \in Placeholder
       \/ Chain[e] \cap orphaned # {}
       \/ AddWaits(e)
  /\ baseline \subseteq DOMAIN mirror
=============================================================================
