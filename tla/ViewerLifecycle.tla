-------------------------- MODULE ViewerLifecycle --------------------------
(***************************************************************************)
(* What one viewer tells its host, and what it shows of a truncated        *)
(* region: src/renderer/index.js over src/transport/websocket.js, with the *)
(* capture core that answers its subtree requests (src/capture/index.js).  *)
(*                                                                         *)
(* The viewer is told of its socket by statuses, which arrive at once, and *)
(* of the page by frames, which wait in the transport's decode queue also  *)
(* after the socket closed.  Both move the public state.  A region that    *)
(* was cut from the snapshot is fetched by a request whose answer must     *)
(* find the document that asked for it.  The relay between them drops      *)
(* single frames of an open connection, in both directions.                *)
(*                                                                         *)
(* Data abstraction.  A session with its snapshot is a number; the ids a   *)
(* viewer gives its requests count from 1, and an id of the other viewer   *)
(* of the room is 0.  A region is an element of the page that is cut from  *)
(* every snapshot; its content is the number of children it has, which the *)
(* page lets grow once.  Scroll, overlay, media and dialog frames differ   *)
(* here only in whether they name their session.  STREAM.STATE frames have *)
(* no sender in the repository and are left out, as is 'reconnecting',     *)
(* which this transport never reports.                                     *)
(***************************************************************************)
EXTENDS Naturals, Sequences

CONSTANTS
  Nid,         \* the regions
  StaleLimit,  \* misses a session forgives
  MaxSessions, \* bound: sessions
  MaxEdits,    \* bound: edits of the page
  MaxRequests, \* bound: subtree requests of the viewer
  MaxNoise     \* bound: side frames, frames that are faulty or dropped, requests
               \* of the other viewer

ASSUME ViewerAssumption ==
  /\ StaleLimit \in Nat /\ MaxSessions \in Nat /\ MaxEdits \in Nat
  /\ MaxRequests \in Nat /\ MaxNoise \in Nat

VARIABLES
  gen,      \* capture: session and snapshot, 0 before the first
  capturing,\* capture: streaming
  page,     \* children of every region, Gone once it left the page
  pend,     \* edits of the page not yet flushed
  control,  \* requests on their way to the capture side
  wire,     \* frames on their way to the viewer
  sock,     \* the viewer's socket
  outbox,   \* the transport's sendQueue
  inbox,    \* the transport's receiveQueue
  public,   \* publicState
  timer,    \* disconnectTimer is set
  loading,  \* the srcdocs that were written and have not loaded, oldest
            \* first: session and regions
  doc,      \* session of the document the index was last paired with
  streaming,\* viewerState = "streaming"
  active,   \* active.streamSessionId and snapshotId; 0 when empty
  mirror,   \* what the identity index has of each region: "none", "stub",
            \* "full", or "other", an element that is not it
  shown,    \* children each region has in the mirror
  misses,   \* counters.staleMisses
  resync,   \* resyncPending
  latch,    \* pendingSubtreeRequests: request of each region, 0 for none
  asked,    \* nextSubtreeRequestId
  dropped,  \* history: pending requests that the relay dropped, or whose answers
            \* it did
  detached, \* detached
  edits, noise, \* counters of the bounds
  raced     \* history: regions answered while an edit of theirs was pending,
            \* or of whose edits the relay dropped one

source == <<gen, capturing, page, pend, edits, raced>>
net == <<control, wire, sock, outbox>>
mirroring == <<loading, doc, streaming, active, mirror, shown, misses>>
status == <<public, timer>>
asking == <<latch, asked, dropped>>
vars == <<source, net, inbox, status, mirroring, resync, asking, detached, noise>>

Gone == 2
NoRegions == [n \in Nid |-> "none"]
Nothing == [n \in Nid |-> 0]

-----------------------------------------------------------------------------
(* Public state.                                                           *)

(* setPublicState: every state but stale stops the timer.                  *)
SetPublicState(state) ==
  /\ public' = state
  /\ timer' = (timer /\ state = "stale")

(* handleTransportStatus.                                                  *)
EveryFaultArms(s) == s \in {"closed", "error"}
Arms(s) == s = "closed"
TransportStatus(s) ==
  IF detached THEN UNCHANGED status
  ELSE CASE s = "open" -> SetPublicState(IF streaming \/ active # 0 THEN "live" ELSE "connecting")
         [] s \in {"closed", "error"} ->
              /\ public' = "stale"
              /\ timer' = (timer \/ Arms(s))

DisconnectTimer ==
  /\ timer
  /\ timer' = FALSE
  /\ public' = IF detached \/ public # "stale" THEN public ELSE "disconnected"
  /\ UNCHANGED <<source, net, inbox, mirroring, resync, asking, detached, noise>>

-----------------------------------------------------------------------------
(* The page and the capture core.                                          *)

(* Bound: once the viewer has detached, the page, the capture and the      *)
(* network rest: the viewer heeds none of what they would bring it.        *)
Watched == ~detached

Grow(n) ==
  /\ Watched /\ capturing /\ edits < MaxEdits /\ page[n] = 0
  /\ edits' = edits + 1
  /\ page' = [page EXCEPT ![n] = 1]
  /\ pend' = Append(pend, <<"grow", n>>)
  /\ UNCHANGED <<gen, capturing, raced, net, inbox, status, mirroring, resync, asking,
                 detached, noise>>

Leave(n) ==
  /\ Watched /\ capturing /\ edits < MaxEdits /\ page[n] # Gone
  /\ edits' = edits + 1
  /\ page' = [page EXCEPT ![n] = Gone]
  /\ pend' = Append(pend, <<"drop", n>>)
  /\ UNCHANGED <<gen, capturing, raced, net, inbox, status, mirroring, resync, asking,
                 detached, noise>>

Deliver(w, msgs) == IF sock = "open" THEN w \o msgs ELSE w
Drained == IF pend = <<>> THEN <<>> ELSE <<[k |-> "mutations", g |-> gen, ops |-> pend]>>

Flush ==
  /\ Watched /\ pend # <<>>
  /\ pend' = <<>>
  /\ wire' = Deliver(wire, Drained)
  /\ UNCHANGED <<gen, capturing, page, edits, raced, control, sock, outbox, inbox, status,
                 mirroring, resync, asking, detached, noise>>

(* start(), by the host or on CONTROL.START: the old session is drained,   *)
(* every region still there is cut from the new snapshot.                  *)
SnapshotOf(g) == [k |-> "snapshot", g |-> g, regions |-> {n \in Nid : page[n] # Gone}]
Restarted ==
  /\ gen' = gen + 1 /\ capturing' = TRUE /\ pend' = <<>> /\ raced' = {}
  /\ wire' = Deliver(wire, Append(Drained, SnapshotOf(gen + 1)))
  /\ UNCHANGED <<page, edits>>

Start ==
  /\ Watched /\ gen < MaxSessions
  /\ Restarted
  /\ UNCHANGED <<control, sock, outbox, inbox, status, mirroring, resync, asking, detached,
                 noise>>

(* stop(): the identity of the session outlives its node map.              *)
Stop ==
  /\ Watched /\ capturing
  /\ capturing' = FALSE /\ pend' = <<>>
  /\ wire' = Deliver(wire, Drained)
  /\ UNCHANGED <<gen, page, edits, raced, control, sock, outbox, inbox, status, mirroring,
                 resync, asking, detached, noise>>

(* A frame of a side channel, which names its session or, as dialogs do,   *)
(* does not.                                                               *)
SideFrame ==
  /\ Watched /\ capturing /\ noise < MaxNoise
  /\ noise' = noise + 1
  /\ \E g \in {0, gen} : wire' = Deliver(wire, <<[k |-> "side", g |-> g]>>)
  /\ UNCHANGED <<source, control, sock, outbox, inbox, status, mirroring, resync, asking,
                 detached>>

(* handleControl and serializeRequestedSubtree.  A request that is not of  *)
(* this session is told so; a region that left, or a stopped capture,      *)
(* gives an answer without content.                                        *)
Found(r) == r.g = gen /\ gen # 0 /\ capturing /\ page[r.n] # Gone
AnswersFinds(r) == Found(r)
Answers(r) == TRUE
SubtreeResponse(r) ==
  [k |-> "subtree", g |-> gen, n |-> r.n, id |-> r.id, ok |-> Found(r),
   kids |-> IF Found(r) THEN page[r.n] ELSE 0]

HandleSubtreeRequest ==
  /\ Watched /\ control # <<>> /\ Head(control).k = "ask"
  /\ control' = Tail(control)
  /\ LET r == Head(control)
     IN /\ wire' = Deliver(wire, IF Answers(r) THEN <<SubtreeResponse(r)>> ELSE <<>>)
        /\ raced' = raced \cup {n \in {r.n} : <<"grow", n>> \in {pend[i] : i \in DOMAIN pend}}
  /\ UNCHANGED <<gen, capturing, page, pend, edits, sock, outbox, inbox, status, mirroring,
                 resync, asking, detached, noise>>

HandleStartRequest ==
  /\ Watched /\ control # <<>> /\ Head(control).k = "start"
  /\ control' = Tail(control)
  /\ IF gen < MaxSessions THEN Restarted ELSE UNCHANGED <<source, wire>>
  /\ UNCHANGED <<sock, outbox, inbox, status, mirroring, resync, asking, detached,
                 noise>>

-----------------------------------------------------------------------------
(* The transport.                                                          *)

Connected ==
  /\ sock = "connecting"
  /\ sock' = "open"
  /\ TransportStatus("open")
  /\ UNCHANGED <<source, control, wire, outbox, inbox, mirroring, resync, asking, detached,
                 noise>>

(* The close event: what is under way is lost, what has arrived is not.    *)
Closed ==
  /\ sock # "closed"
  /\ sock' = "closed"
  /\ wire' = <<>> /\ control' = <<>>
  /\ TransportStatus("closed")
  /\ UNCHANGED <<source, outbox, inbox, mirroring, resync, asking, detached, noise>>

Arrive ==
  /\ Watched /\ wire # <<>> /\ sock = "open"
  /\ wire' = Tail(wire)
  /\ inbox' = Append(inbox, Head(wire))
  /\ UNCHANGED <<source, control, sock, outbox, status, mirroring, resync, asking, detached,
                 noise>>

(* A frame that cannot be decoded takes a place in the queue.              *)
Garble ==
  /\ Watched /\ noise < MaxNoise /\ sock = "open"
  /\ noise' = noise + 1
  /\ inbox' = Append(inbox, [k |-> "garbled"])
  /\ UNCHANGED <<source, net, status, mirroring, resync, asking, detached>>

(* The relay drops a frame that is over its cap, or for a peer whose socket*)
(* has too much buffered.                                                  *)
LostEdits(m) ==
  IF m.k = "mutations" /\ m.g = gen THEN {m.ops[i][2] : i \in DOMAIN m.ops} ELSE {}
Pending(m) ==
  IF m.k \in {"ask", "subtree"} /\ m.id # 0 /\ latch[m.n] = m.id THEN {m.id} ELSE {}

RelayDropsFrame ==
  /\ Watched /\ noise < MaxNoise /\ wire # <<>>
  /\ noise' = noise + 1
  /\ wire' = Tail(wire)
  /\ raced' = raced \cup LostEdits(Head(wire))
  /\ dropped' = dropped \cup Pending(Head(wire))
  /\ UNCHANGED <<gen, capturing, page, pend, edits, control, sock, outbox, inbox, status,
                 mirroring, resync, latch, asked, detached>>

RelayDropsRequest ==
  /\ Watched /\ noise < MaxNoise /\ control # <<>>
  /\ noise' = noise + 1
  /\ control' = Tail(control)
  /\ dropped' = dropped \cup Pending(Head(control))
  /\ UNCHANGED <<source, wire, sock, outbox, inbox, status, mirroring, resync, latch, asked,
                 detached>>

(* A request of the room's other viewer for the same region.               *)
OtherViewerAsks(n) ==
  /\ Watched /\ noise < MaxNoise /\ sock = "open" /\ gen # 0
  /\ noise' = noise + 1
  /\ control' = Append(control, [k |-> "ask", n |-> n, g |-> gen, id |-> 0])
  /\ UNCHANGED <<source, wire, sock, outbox, inbox, status, mirroring, resync, asking,
                 detached>>

(* The send queue's next task.  It waits for a socket that is connecting.  *)
RunSend ==
  /\ outbox # <<>> /\ sock # "connecting"
  /\ outbox' = Tail(outbox)
  /\ IF sock = "open"
     THEN control' = Append(control, Head(outbox)) /\ UNCHANGED status
     ELSE TransportStatus("error") /\ UNCHANGED control
  /\ UNCHANGED <<source, wire, sock, inbox, mirroring, resync, asking, detached,
                 noise>>

-----------------------------------------------------------------------------
(* The viewer.                                                             *)

IsCurrentStream(m) == m.g = 0 \/ active = 0 \/ m.g = active

(* handleSnapshot: the old document's index and requests go at once, the   *)
(* new index comes with the load.                                          *)
HandleSnapshot(m) ==
  /\ active' = m.g /\ misses' = 0 /\ resync' = FALSE
  /\ mirror' = NoRegions /\ shown' = Nothing /\ latch' = Nothing /\ dropped' = {}
  /\ loading' = Append(loading, [g |-> m.g, regions |-> m.regions])
  /\ SetPublicState("live")
  /\ UNCHANGED <<doc, streaming, asked, outbox>>

(* diff.js: an op on a region the index lacks is a miss; the misses over   *)
(* the limit ask for a new session, once.                                  *)
ApplyOp(v, op) ==
  LET n == op[2]
  IN IF v.mirror[n] = "none" THEN [v EXCEPT !.misses = @ + 1]
     ELSE IF op[1] = "grow" THEN [v EXCEPT !.shown[n] = @ + 1]
     ELSE [v EXCEPT !.mirror[n] = "none", !.shown[n] = 0]

Applied(ops) ==
  LET f[i \in 0..Len(ops)] ==
        IF i = 0 THEN [mirror |-> mirror, shown |-> shown, misses |-> misses]
        ELSE ApplyOp(f[i - 1], ops[i])
  IN f[Len(ops)]

StartRequest == [k |-> "start"]

(* safeSend: the transport queues it, whatever the socket's state; a       *)
(* refusal is only logged.                                                 *)
SafeSend(m) == Append(outbox, m)

HandleMutations(m) ==
  LET v == Applied(m.ops)
      asks == v.misses > StaleLimit /\ ~resync /\ v.misses > misses
  IN IF ~streaming \/ ~IsCurrentStream(m)
     THEN UNCHANGED <<mirroring, resync, asking, status, outbox>>
     ELSE /\ mirror' = v.mirror /\ shown' = v.shown /\ misses' = v.misses
          /\ resync' = (resync \/ asks)
          /\ outbox' = IF asks THEN SafeSend(StartRequest) ELSE outbox
          /\ IF asks THEN SetPublicState("stale")
             ELSE IF resync THEN UNCHANGED status ELSE SetPublicState("live")
          /\ UNCHANGED <<loading, doc, streaming, active, asking>>

(* handleSubtreeResponse.  Only the answer to the request that is pending  *)
(* for the region releases its latch; only a cut region is replaced.       *)
AnyLatch(m) == TRUE
MatchesLatch(m) == m.id # 0 /\ latch[m.n] = m.id
Doubled(m) == shown[m.n] + m.kids
Replaced(m) == m.kids
Patches(m) == IsCurrentStream(m) /\ MatchesLatch(m) /\ m.ok /\ mirror[m.n] = "stub"

HandleSubtreeResponse(m) ==
  /\ latch' = IF MatchesLatch(m) THEN [latch EXCEPT ![m.n] = 0] ELSE latch
  /\ IF Patches(m)
     THEN /\ mirror' = [mirror EXCEPT ![m.n] = "full"]
          /\ shown' = [shown EXCEPT ![m.n] = Replaced(m)]
          /\ SetPublicState("live")
     ELSE UNCHANGED <<mirror, shown, status>>
  /\ UNCHANGED <<loading, doc, streaming, active, misses, asked, dropped, resync, outbox>>

HandleSide(m) ==
  /\ IF streaming /\ IsCurrentStream(m) THEN SetPublicState("live") ELSE UNCHANGED status
  /\ UNCHANGED <<mirroring, resync, asking, outbox>>

Dispatch ==
  /\ inbox # <<>>
  /\ inbox' = Tail(inbox)
  /\ LET m == Head(inbox)
     IN IF detached THEN UNCHANGED <<mirroring, resync, asking, status, outbox>>
        ELSE \/ m.k = "snapshot" /\ HandleSnapshot(m)
             \/ m.k = "mutations" /\ HandleMutations(m)
             \/ m.k = "subtree" /\ HandleSubtreeResponse(m)
             \/ m.k = "side" /\ HandleSide(m)
             \/ /\ m.k = "garbled" /\ TransportStatus("error")
                /\ UNCHANGED <<mirroring, resync, asking, outbox>>
  /\ UNCHANGED <<source, control, wire, sock, detached, noise>>

(* The iframe's load event: the index is paired anew.                      *)
Load ==
  /\ loading # <<>> /\ ~detached
  /\ LET last == loading[Len(loading)]
     IN /\ doc' = last.g
        /\ mirror' = [n \in Nid |-> IF n \in last.regions THEN "stub" ELSE "none"]
  /\ loading' = <<>> /\ streaming' = TRUE
  /\ shown' = Nothing
  /\ UNCHANGED <<active, misses, source, net, inbox, status, resync, asking, detached,
                 noise>>

(* It comes late, from a document that a newer snapshot is about to        *)
(* replace, and pairs that document with the nodeIds of the newer one: by  *)
(* its place a nid names a cut region, another element or nothing.         *)
LateLoad ==
  /\ Len(loading) > 1 /\ ~detached
  /\ \E i \in 1 .. Len(loading) - 1 :
       /\ doc' = loading[i].g
       /\ loading' = SubSeq(loading, i + 1, Len(loading))
  /\ mirror' \in [Nid -> {"none", "stub", "other"}]
  /\ \A n \in Nid \ loading[Len(loading)].regions : mirror'[n] = "none"
  /\ streaming' = TRUE /\ shown' = Nothing
  /\ UNCHANGED <<active, misses, source, net, inbox, status, resync, asking, detached,
                 noise>>

(* requestSubtree: one request at a time for a region.                     *)
Latches(n) == latch[n] = 0
RequestSubtree(n) ==
  /\ asked < MaxRequests /\ mirror[n] # "none" /\ Latches(n)
  /\ asked' = asked + 1
  /\ latch' = [latch EXCEPT ![n] = asked + 1]
  /\ outbox' = SafeSend([k |-> "ask", n |-> n, g |-> active, id |-> asked + 1])
  /\ UNCHANGED <<source, control, wire, sock, inbox, status, mirroring, resync, dropped,
                 detached, noise>>

Detach ==
  /\ ~detached
  /\ detached' = TRUE
  /\ timer' = FALSE
  /\ UNCHANGED <<source, net, inbox, public, mirroring, resync, asking, noise>>

(* destroy(): detach(), then everything but the public state is reset.     *)
Destroy ==
  /\ detached' = TRUE /\ timer' = FALSE
  /\ active' = 0 /\ misses' = 0 /\ resync' = FALSE /\ streaming' = FALSE
  /\ mirror' = NoRegions /\ shown' = Nothing /\ latch' = Nothing /\ doc' = 0 /\ dropped' = {}
  /\ UNCHANGED <<source, net, inbox, public, loading, asked, noise>>

-----------------------------------------------------------------------------
(* The viewer may be created on a socket in any state: onStatus replays    *)
(* the current one.                                                        *)
StatusReplayed ==
  \/ sock \in {"connecting", "open"} /\ public = "connecting" /\ timer = FALSE
  \/ sock = "closed" /\ public = "stale" /\ timer = TRUE

Init ==
  /\ gen = 0 /\ capturing = FALSE /\ page = Nothing /\ pend = <<>> /\ edits = 0 /\ raced = {}
  /\ control = <<>> /\ wire = <<>> /\ outbox = <<>> /\ inbox = <<>>
  /\ StatusReplayed
  /\ loading = <<>> /\ doc = 0 /\ streaming = FALSE /\ active = 0 /\ misses = 0
  /\ mirror = NoRegions /\ shown = Nothing
  /\ resync = FALSE /\ latch = Nothing /\ asked = 0 /\ dropped = {}
  /\ detached = FALSE
  /\ noise = 0

Next ==
  \/ \E n \in Nid : Grow(n) \/ Leave(n) \/ OtherViewerAsks(n) \/ RequestSubtree(n)
  \/ Flush \/ Start \/ Stop \/ SideFrame \/ HandleSubtreeRequest \/ HandleStartRequest
  \/ Connected \/ Closed \/ Arrive \/ Garble \/ RunSend
  \/ RelayDropsFrame \/ RelayDropsRequest
  \/ Dispatch \/ Load \/ LateLoad \/ Detach \/ Destroy \/ DisconnectTimer

(* Promise chains, network and the capture side's message handler run as   *)
(* long as there is work for them; pages and hosts promise nothing.        *)
Fairness ==
  /\ WF_vars(RunSend) /\ WF_vars(Arrive) /\ WF_vars(Dispatch)
  /\ WF_vars(HandleSubtreeRequest) /\ WF_vars(HandleStartRequest)

Spec == Init /\ [][Next]_vars /\ Fairness

-----------------------------------------------------------------------------
(* The timer runs only in a viewer that is attached, stale and whose       *)
(* socket closed, and only a closed socket is reported as disconnected: no *)
(* fault of a live connection, no late frame and no detach leaves a timer  *)
(* behind that declares the end of a stream that goes on.                  *)
DisconnectIsReal ==
  /\ timer => public = "stale" /\ ~detached /\ sock = "closed"
  /\ public = "disconnected" => sock = "closed"

(* A cut region is filled in only by the answer to the request that is     *)
(* pending for it, and with the content of the session whose document is   *)
(* shown: never by the answer another viewer of the room asked for, nor by *)
(* one that was overtaken by a new snapshot.  A document that was indexed  *)
(* late takes the answers of the one that is about to replace it.          *)
PatchIsOurs ==
  [][\A n \in Nid : mirror[n] = "stub" /\ mirror'[n] = "full" =>
       /\ latch[n] # 0 /\ latch'[n] = 0 /\ Head(inbox).id = latch[n]
       /\ Head(inbox).g = doc \/ loading # <<>>]_vars

Settled ==
  /\ capturing /\ pend = <<>> /\ wire = <<>> /\ inbox = <<>> /\ loading = <<>>
  /\ sock = "open" /\ active = gen /\ ~detached

(* Once everything is delivered a region that was fetched shows the page:  *)
(* edits before, between and after the answer are all in it, once.  The    *)
(* exception is the one the code makes: an answer serialized while an edit *)
(* of the region waits for its flush shows that edit, and so does the edit.*)
(* Nor does it of a region of whose edits the relay dropped one.           *)
FetchedShowsPage ==
  Settled => \A n \in Nid \ raced : mirror[n] = "full" => shown[n] = page[n]

(* Every request is settled while the connection lasts, also when the      *)
(* region left, the session changed or the capture stopped meanwhile: the  *)
(* region can be asked for again.  But for what the relay dropped: a lost  *)
(* request, or answer, leaves the region latched up to the next snapshot   *)
(* (no timer releases it, line 916).                                       *)
RequestsSettle ==
  \A n \in Nid, r \in 1 .. MaxRequests :
    latch[n] = r ~> latch[n] # r \/ r \in dropped \/ sock # "open" \/ detached
=============================================================================
