---------------------------- MODULE CssomStyles ----------------------------
(***************************************************************************)
(* Style capture with styleMode "cssom": the style-source registry of      *)
(* src/capture/index.js and its counterpart in src/renderer/index.js.      *)
(*                                                                         *)
(* The page's sheets live in scopes: the document and the shadow root of   *)
(* one host.  The capture names a sheet by its scope, its position and its *)
(* kind (sourceId), keeps the names it has sent in a registry, and sends   *)
(* ops that install, replace or remove one name.  It learns of changes in  *)
(* three ways: from the patched CSSStyleSheet methods, from the observer's *)
(* records, and by reconciling every known scope at every flush.           *)
(*                                                                         *)
(* Data abstraction.  The text of a sheet is the number of its last write. *)
(* Frames, a second kind of scope that behaves as shadow roots do, are     *)
(* left out.  Of the DOM's own records only those of one added element and *)
(* of the host's removal are kept, to see what a snapshot in the middle of *)
(* a session does to them.  Bound: the viewer keeps up, so one handler's   *)
(* messages are delivered before another handler sends.                    *)
(***************************************************************************)
EXTENDS Naturals, FiniteSetsExt, SequencesExt

CONSTANTS
  Sheet,       \* the page's sheets
  Kind,        \* "style", "link" (elements) or "adopted", of every sheet
  FirstSheets, \* the document's and the shadow root's sheets at the start
  MaxWrites,   \* bound: changes of the page
  MaxSessions  \* bound: calls of start()

Scope == {"document", "shadow"}
Unnamed == <<"none", 0, "none">>

ASSUME CssomAssumption ==
  /\ Kind \in [Sheet -> {"style", "link", "adopted"}]
  /\ FirstSheets \in [Scope -> Seq(Sheet)]
  /\ Sheet \cap {"head", "host", "added"} = {}  \* which are other records
  /\ {MaxWrites, MaxSessions} \subseteq Nat

VARIABLES
  page,       \* sheets of each scope in cascade order, their texts, whether
              \* the shadow host and the observed element are on the page
  records,    \* pendingMutations: "head", "host", "added", or a style's text
  replacing,  \* sheets whose replace() promise is unsettled
  registry,   \* styleSourceRegistry: the sourceIds in use
  owner,      \* styleOwnerToSourceKey: sheet -> sourceId
  scopes,     \* styleScopeRoots: the scopes collected in this session
  pending,    \* pendingStyleSourceChanges, in the Map's order
  timer,      \* batchTimer is set
  streaming,
  wire,       \* messages on their way to the viewer
  viewer,     \* installed sources, host, copies of the element, misses
  writes, sessions,
  unseen,     \* history: since the last flush or snapshot a scope's adopted
              \* sheets changed, which no hook reports
  reordered,  \* history: in this session sheets came or went while ops were
              \* pooled, whose names keep their old places in the pool
  resnapped   \* history: in this session a snapshot left over a pooled record

vars == <<page, records, replacing, registry, owner, scopes, pending, timer,
          streaming, wire, viewer, writes, sessions, unseen, reordered, resnapped>>

-----------------------------------------------------------------------------
(* Sources.  The accumulator p of the operators below holds the page, the  *)
(* registry, owner, scopes and pending, and what the handler has sent.     *)

Source(id, text) == [id |-> id, text |-> text]

(* collectCssomStyleSourcesForScope: one source per sheet, named by scope, *)
(* position and kind; a scope without sheets has one computed fallback.    *)
Collected(pg, scope) ==
  IF pg.sheets[scope] = <<>> THEN <<Source(<<scope, 0, "fallback">>, 0)>>
  ELSE [i \in DOMAIN pg.sheets[scope] |->
          LET s == pg.sheets[scope][i]
          IN  Source(<<scope, i - 1, Kind[s]>>, pg.css[s])]

Ids(sources) == {sources[i].id : i \in DOMAIN sources}

(* registerStyleSource, for every source of a scope.                       *)
Register(p, scope) ==
  LET sources == Collected(p.page, scope)
      here    == p.page.sheets[scope]
  IN  [p EXCEPT
        !.registry = @ \cup Ids(sources),
        !.owner = [s \in Sheet |->
           IF s \in ToSet(here)
           THEN sources[SelectInSeq(here, LAMBDA t : t = s)].id ELSE @[s]],
        !.scopes = @ \cup {scope}]

(* queueStyleSourceChange: Map.set, a known key keeps its place.           *)
Queue(queue, change) ==
  LET i == SelectInSeq(queue, LAMBDA c : c.source.id = change.source.id)
  IN  IF i = 0 THEN Append(queue, change) ELSE [queue EXCEPT ![i] = change]

QueueAll(queue, action, sources) ==
  LET after[i \in 0 .. Len(sources)] ==
        IF i = 0 THEN queue
        ELSE Queue(after[i - 1], [action |-> action, source |-> sources[i]])
  IN  after[Len(sources)]

(* queueStyleScopeReplacement: every source of the scope is replaced, and  *)
(* the names it no longer has are removed.                                 *)
NeverVanished(p, scope) == {}
Vanished(p, scope) ==
  {id \in p.registry : id[1] = scope} \ Ids(Collected(p.page, scope))

ReplaceScope(p, scope) ==
  LET gone    == Vanished(p, scope)
      queued  == QueueAll(p.pending, "replace", Collected(p.page, scope))
      removed == SetToSeq({Source(id, 0) : id \in gone})
  IN  [Register(p, scope) EXCEPT !.registry = @ \ gone,
                                 !.pending = QueueAll(queued, "remove", removed)]

(* serializeDOM: the sources of the document, then of the shadow root while *)
(* its host is on the page.                                                *)
Present(pg) == {"document"} \cup (IF pg.host THEN {"shadow"} ELSE {})

Serialize(p) ==
  LET body  == Register(p, "document")
      known == IF p.page.host THEN Register(body, "shadow") ELSE body
  IN  [known EXCEPT !.sent = Append(@,
         [kind |-> "snapshot", host |-> p.page.host,
          copies |-> IF p.page.added THEN 1 ELSE 0,
          sources |-> [scope \in Scope |-> IF scope \in Present(p.page)
                         THEN Collected(p.page, scope) ELSE <<>>]])]

(* sendCssomFreshSnapshot: only while streaming.                           *)
FreshSnapshot(p) == IF streaming THEN Serialize(p) ELSE p

(* markStyleOwnerDirty.                                                    *)
MarkOwnerDirty(p, s) ==
  IF p.owner[s] \in p.registry THEN ReplaceScope(p, p.owner[s][1])
  ELSE FreshSnapshot(p)

(* reconcileAllKnownStyleScopes: a scope stays known when its host goes.   *)
ReplaceKnown(p, scope) == IF scope \in p.scopes THEN ReplaceScope(p, scope) ELSE p
Reconcile(p) == ReplaceKnown(ReplaceKnown(p, "document"), "shadow")

Before(pg) ==
  [page |-> pg, registry |-> registry, owner |-> owner, scopes |-> scopes,
   pending |-> pending, ops |-> <<>>, sent |-> <<>>]

After(p) ==
  /\ registry' = p.registry /\ owner' = p.owner /\ scopes' = p.scopes
  /\ pending' = p.pending
  /\ wire' = p.sent

-----------------------------------------------------------------------------
(* A batch.                                                                *)

(* A style's text marks its owner, the removal of the host and the added   *)
(* element are ops.                                                        *)
RecordOps(p, r) ==
  CASE r = "head" -> p
    [] r \in {"host", "added"} -> [p EXCEPT !.ops = Append(@, [action |-> r])]
    [] OTHER -> MarkOwnerDirty(p, r)

(* drainPendingStyleSourceDiffs: the pool goes behind the batch's ops.     *)
DrainTwice(p) == [p EXCEPT !.ops = @ \o p.pending]
Drain(p) == [p EXCEPT !.ops = @ \o p.pending, !.pending = <<>>]

ProcessMutationBatch(p) ==
  LET after[i \in 0 .. Len(records)] ==
        IF i = 0 THEN p ELSE RecordOps(after[i - 1], records[i])
  IN  after[Len(records)]

(* What flushMutations and the final flush share: the batch, the           *)
(* reconciliation, and the pool of style changes, in one message.          *)
Drained(pg) ==
  LET p == Drain(Reconcile(ProcessMutationBatch(Before(pg))))
  IN  [p EXCEPT !.sent = IF p.ops = <<>> THEN @
                         ELSE Append(@, [kind |-> "mutations", ops |-> p.ops])]

-----------------------------------------------------------------------------
(* Changes of the page.                                                    *)

Written == writes < MaxWrites /\ writes' = writes + 1 /\ wire = <<>>

(* The observer pools a record and schedules a flush.                      *)
ObserveAlways(r) == records' = Append(records, r) /\ timer' = TRUE
Observe(r) ==
  IF streaming THEN records' = Append(records, r) /\ timer' = TRUE
  ELSE UNCHANGED <<records, timer>>

(* A sheet joins or leaves a scope: a style or link element is recorded,   *)
(* an adopted sheet is not.                                                *)
ChangeSheets(s, after) ==
  /\ page' = [page EXCEPT !.sheets = after]
  /\ IF Kind[s] = "adopted"
     THEN unseen' = TRUE /\ UNCHANGED <<records, timer>>
     ELSE Observe("head") /\ UNCHANGED unseen
  /\ reordered' = (reordered \/ pending # <<>>)
  /\ UNCHANGED <<replacing, registry, owner, scopes, pending, streaming, wire,
                 viewer, sessions, resnapped>>

AddSheet(scope, s, i) ==
  /\ Written
  /\ \A t \in Scope : s \notin ToSet(page.sheets[t])
  /\ scope = "document" \/ Kind[s] = "adopted"
  /\ i \in 1 .. Len(page.sheets[scope]) + 1
  /\ ChangeSheets(s, [page.sheets EXCEPT ![scope] = InsertAt(@, i, s)])

RemoveSheet(scope, i) ==
  /\ Written
  /\ i \in DOMAIN page.sheets[scope]
  /\ ChangeSheets(page.sheets[scope][i], [page.sheets EXCEPT ![scope] = RemoveAt(@, i)])

(* What a patched method does after the native one: queueing schedules a   *)
(* flush; a sheet without a name costs a snapshot of the whole page.       *)
Report(pg, s) ==
  LET p == MarkOwnerDirty(Before(pg), s)
  IN  /\ After(p)
      /\ timer' = (timer \/ p.pending # pending)
      /\ unseen' = (unseen /\ p.sent = <<>>)
      /\ reordered' = (reordered /\ (p.sent = <<>> \/ pending # <<>>))
      /\ resnapped' = (resnapped \/ (p.sent # <<>> /\ records # <<>>))

(* insertRule, deleteRule and replaceSync; patched while observers run.    *)
MutateRules(s) ==
  /\ Written
  /\ page' = [page EXCEPT !.css[s] = writes']
  /\ IF streaming THEN Report(page', s)
     ELSE UNCHANGED <<registry, owner, scopes, pending, wire, timer, unseen,
                      reordered, resnapped>>
  /\ UNCHANGED <<records, replacing, streaming, viewer, sessions>>

(* replace(): the promise settles later, and then reports the sheet,       *)
(* whether or not the stream still runs.                                   *)
CallReplace(s) ==
  /\ Written
  /\ streaming /\ s \notin replacing
  /\ replacing' = replacing \cup {s}
  /\ UNCHANGED <<page, records, registry, owner, scopes, pending, timer,
                 streaming, wire, viewer, sessions, unseen, reordered, resnapped>>

ReplaceSettles(s) ==
  /\ s \in replacing /\ wire = <<>>
  /\ page' = [page EXCEPT !.css[s] = writes + 1]
  /\ writes' = writes + 1
  /\ replacing' = replacing \ {s}
  /\ Report(page', s)
  /\ UNCHANGED <<records, streaming, viewer, sessions>>

(* The text of a style element changes: seen as a record only.             *)
MutateText(s) ==
  /\ Written
  /\ Kind[s] = "style" /\ s \in ToSet(page.sheets["document"])
  /\ page' = [page EXCEPT !.css[s] = writes']
  /\ Observe(s)
  /\ UNCHANGED <<replacing, registry, owner, scopes, pending, streaming, wire,
                 viewer, sessions, unseen, reordered, resnapped>>

AddElement ==
  /\ Written
  /\ ~page.added
  /\ page' = [page EXCEPT !.added = TRUE]
  /\ Observe("added")
  /\ UNCHANGED <<replacing, registry, owner, scopes, pending, streaming, wire,
                 viewer, sessions, unseen, reordered, resnapped>>

RemoveHost ==
  /\ Written
  /\ page.host
  /\ page' = [page EXCEPT !.host = FALSE]
  /\ Observe("host")
  /\ UNCHANGED <<replacing, registry, owner, scopes, pending, streaming, wire,
                 viewer, sessions, unseen, reordered, resnapped>>

-----------------------------------------------------------------------------
(* The capture.                                                            *)

(* flushMutations: it does not look at `streaming`.                        *)
Flush ==
  /\ timer /\ wire = <<>>
  /\ timer' = FALSE
  /\ IF records = <<>> /\ pending = <<>>
     THEN UNCHANGED <<registry, owner, scopes, pending, wire, records, unseen,
                      resnapped>>
     ELSE LET p == Drained(page)
          IN  /\ After(p)
              /\ records' = <<>>
              /\ unseen' = FALSE
              /\ resnapped' = (resnapped \/ Len(p.sent) > 1)
  /\ UNCHANGED <<page, replacing, streaming, viewer, writes, sessions, reordered>>

(* stopMutationStream: the pool of style changes leaves only behind a      *)
(* batch of records.                                                       *)
Stop ==
  /\ streaming /\ wire = <<>>
  /\ IF records = <<>> THEN UNCHANGED <<registry, owner, scopes, pending, wire>>
     ELSE After(Drained(page))
  /\ records' = <<>> /\ timer' = FALSE /\ streaming' = FALSE
  /\ UNCHANGED <<page, replacing, viewer, writes, sessions, unseen, reordered,
                 resnapped>>

(* start(): the style state begins afresh and every source is collected.   *)
Start ==
  /\ ~streaming /\ sessions < MaxSessions
  /\ wire = <<>>
  /\ sessions' = sessions + 1
  /\ After(Serialize([page |-> page, registry |-> {}, scopes |-> {},
                      owner |-> [s \in Sheet |-> Unnamed], pending |-> <<>>,
                      ops |-> <<>>, sent |-> <<>>]))
  /\ streaming' = TRUE
  /\ unseen' = FALSE /\ reordered' = FALSE /\ resnapped' = FALSE
  /\ UNCHANGED <<page, records, timer, replacing, viewer, writes>>

-----------------------------------------------------------------------------
(* The viewer.                                                             *)

(* An op on a scope whose root is not in the mirror is a miss; replace     *)
(* takes the source out and installs it behind all others.                 *)
ApplyStyle(v, m) ==
  LET scope == m.source.id[1]
      rest  == RemoveFirstMatch(v.sources[scope], LAMBDA s : s.id = m.source.id)
  IN  IF scope = "shadow" /\ ~v.host THEN [v EXCEPT !.misses = @ + 1]
      ELSE [v EXCEPT !.sources[scope] =
              IF m.action = "remove" THEN rest ELSE Append(rest, m.source)]

ApplyOp(v, m) ==
  CASE m.action = "added" -> [v EXCEPT !.copies = @ + 1]
    [] m.action = "host"  -> [v EXCEPT !.host = FALSE, !.sources["shadow"] = <<>>]
    [] OTHER -> ApplyStyle(v, m)

ApplyMutations(v, ops) ==
  LET after[i \in 0 .. Len(ops)] == IF i = 0 THEN v ELSE ApplyOp(after[i - 1], ops[i])
  IN  after[Len(ops)]

Receive(v, m) ==
  IF m.kind = "snapshot"
  THEN [sources |-> m.sources, host |-> m.host, copies |-> m.copies, misses |-> 0]
  ELSE ApplyMutations(v, m.ops)

Deliver ==
  /\ wire # <<>>
  /\ viewer' = Receive(viewer, Head(wire))
  /\ wire' = Tail(wire)
  /\ UNCHANGED <<page, records, replacing, registry, owner, scopes, pending,
                 timer, streaming, writes, sessions, unseen, reordered, resnapped>>

-----------------------------------------------------------------------------
Init ==
  /\ page = [sheets |-> FirstSheets, css |-> [s \in Sheet |-> 0],
             host |-> TRUE, added |-> FALSE]
  /\ records = <<>> /\ replacing = {} /\ registry = {} /\ scopes = {}
  /\ owner = [s \in Sheet |-> Unnamed]
  /\ pending = <<>> /\ timer = FALSE /\ streaming = FALSE /\ wire = <<>>
  /\ viewer = [sources |-> [scope \in Scope |-> <<>>], host |-> FALSE,
               copies |-> 0, misses |-> 0]
  /\ writes = 0 /\ sessions = 0
  /\ unseen = FALSE /\ reordered = FALSE /\ resnapped = FALSE

Next ==
  \/ \E scope \in Scope, s \in Sheet, i \in 1 .. Cardinality(Sheet) :
       AddSheet(scope, s, i)
  \/ \E scope \in Scope, i \in 1 .. Cardinality(Sheet) : RemoveSheet(scope, i)
  \/ \E s \in Sheet : MutateRules(s)
  \/ \E s \in Sheet : CallReplace(s)
  \/ \E s \in Sheet : ReplaceSettles(s)
  \/ \E s \in Sheet : MutateText(s)
  \/ AddElement
  \/ RemoveHost
  \/ Flush
  \/ Stop
  \/ Start
  \/ Deliver

Spec == Init /\ [][Next]_vars

-----------------------------------------------------------------------------
Settled == streaming /\ records = <<>> /\ pending = <<>> /\ wire = <<>>

(* Whatever hooks, records and flushes were interleaved, once the pools    *)
(* are empty the viewer shows the sheets of every scope in the page's      *)
(* cascade order: names that a shifted position left behind are removed,   *)
(* and the replacements arrive in order.  Two gaps are the code's own: an  *)
(* adopted sheet that joins or leaves is seen at the next flush only, and  *)
(* a name pooled before the positions shifted keeps its old place in the   *)
(* pool (lines 1430-1438, 1459-1483).                                      *)
StylesMatch ==
  Settled /\ ~unseen /\ ~reordered =>
    \A scope \in Present(page) : viewer.sources[scope] = Collected(page, scope)

(* A style change pooled while the stream runs has a flush coming, also    *)
(* when it was pooled inside a batch, where scheduling is suppressed       *)
(* (line 1440), or when a replace() settled after a restart.               *)
PoolLeaves == pending # <<>> /\ streaming => timer

(* An element added once is shown once: no record outlives the snapshot    *)
(* that already contains it, except where a rule change of a sheet without *)
(* a name sends a snapshot in the middle of the session and leaves         *)
(* pendingMutations to the next flush (lines 1559-1565).                   *)
ElementShownOnce == Settled /\ viewer.copies > 1 => resnapped
=============================================================================
