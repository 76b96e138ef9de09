----------------------------- MODULE AdaptiveMedia -----------------------------
(* Adaptive streaming (HLS, DASH) of the mirrored page: the adapters that see *)
(* the page's manifests go by (src/adapters/playwright.js and extension.js),  *)
(* the media hints they send, and the player of the viewer that binds a       *)
(* manifest to a media element of the mirror (src/renderer/index.js and       *)
(* media-player.js).                                                          *)
(* Every snapshot is a session of its own and numbers the page's elements anew, *)
(* so that the same nid names an element in each of them.  All media elements *)
(* of the page are without a source of their own; the viewer is in the mode   *)
(* `reference'.  What a bound element then plays is MediaMirror's.            *)
EXTENDS Integers, Sequences, FiniteSets, SequencesExt

CONSTANTS
  Nid,       \* the media elements of every page
  Pages,     \* documents the streamed tab goes through
  Sessions,  \* captures started, over all of them
  Reports,   \* reports of a manifest response
  MaxWire,   \* messages in flight
  MaxTroubles, \* deaths of the extension's service worker, messages lost on the way
  NoNid      \* no element is named

ASSUME AdaptiveAssumption ==
  /\ {Pages, Sessions, Reports, MaxWire, MaxTroubles} \subseteq Nat
  /\ Pages > 0 /\ Sessions > 0
  /\ IsFiniteSet(Nid) /\ NoNid \notin Nid

VARIABLES
  host,      \* "playwright" or "extension": the adapter in use
  browser,   \* the player the viewer can use, chosen once
  page,      \* the document in the streamed tab
  pageOf,    \* of each session started so far
  stamp,     \* currentIdentity of the adapter; 0 is the empty one
  responses, \* reports of manifest responses the adapter has not handled
  asked,     \* reports so far
  wire,      \* from the adapter to the viewer, oldest first
  active,    \* session of the viewer's last snapshot, 0 before it
  document,  \* what the iframe shows, see Blank
  streaming, \* viewerState: a document has loaded, after some snapshot
  pending,   \* pendingHints, by time of storing, one of a kind
  bound,     \* hintBoundNids
  media,     \* the state of the player, see Idle
  troubles
vars == <<host, browser, page, pageOf, stamp, responses, asked, wire, active,
          document, streaming, pending, bound, media, troubles>>

source == <<host, browser, page, pageOf, stamp, responses, asked, troubles>>
viewer == <<active, document, streaming, pending, bound, media>>

(* of: the session whose snapshot the document on show was parsed from, 0 for *)
(* the empty one the iframe begins with; coming: that of the document its     *)
(* srcdoc is being navigated to; loading: the load event of the one on show is *)
(* still to come; index: the document whose elements nidToNode leads to; 0 is *)
(* none, for all but loading.                                                 *)
Blank == [of |-> 0, coming |-> 0, loading |-> TRUE, index |-> 0]

(* registry: nid -> number of its player; players: what was made and not      *)
(* destroyed, where the browser plays by itself its source; imports: calls    *)
(* that wait for hls.js; sourced: elements with a source, <<document, nid>>.  *)
(* Of a player: session is the active one and doc the document of its element, *)
(* when it was bound.  It is late when it was made after its session was over, *)
(* or in the document of another; it is lost when its entry was overwritten,  *)
(* or when it threw before it had one.                                        *)
Idle == [registry |-> <<>>, players |-> {}, imports |-> {}, sourced |-> {}]

Init ==
  /\ host \in {"playwright", "extension"}
  /\ browser \in {"native", "factory", "hls.js"}
  /\ page = 1 /\ pageOf = <<>> /\ stamp = 0
  /\ responses = {} /\ asked = 0 /\ wire = <<>>
  /\ active = 0 /\ document = Blank /\ streaming = FALSE
  /\ pending = <<>> /\ bound = {} /\ media = Idle
  /\ troubles = 0

--------------------------------------------------------------------------------
(* The streamed tab and its adapter.                                          *)

Room == Len(wire) < MaxWire
Session == Len(pageOf)
Capturing == Session > 0 /\ pageOf[Session] = page

(* A navigation.  The page's requests end with it in a driven browser; the    *)
(* extension may still be told of the old tab's responses.                    *)
Navigate ==
  /\ page < Pages
  /\ page' = page + 1
  /\ responses' = IF host = "playwright" THEN {} ELSE responses
  /\ UNCHANGED <<host, browser, pageOf, stamp, asked, wire, troubles, viewer>>

(* start() on the page, for a navigation event or a CONTROL.START: a session, a *)
(* snapshot, and observeStreamIdentity on its way through the adapter.        *)
StartCapture ==
  /\ Session < Sessions /\ Room
  /\ pageOf' = Append(pageOf, page)
  /\ stamp' = Session + 1
  /\ wire' = Append(wire, [type |-> "snapshot", stamp |-> Session + 1])
  /\ UNCHANGED <<host, browser, page, responses, asked, troubles, viewer>>

(* A media element of the page plays: STREAM.MEDIA, with the same snooping.   *)
Plays(n) ==
  /\ Capturing /\ Room
  /\ \A i \in DOMAIN wire : ~(wire[i].type = "media" /\ wire[i].nid = n)
  /\ stamp' = Session
  /\ wire' = Append(wire, [type |-> "media", stamp |-> Session, nid |-> n])
  /\ UNCHANGED <<host, browser, page, pageOf, responses, asked, troubles, viewer>>

(* The page, or a frame or tab that is not the streamed one (its page is 0),  *)
(* loads a manifest.  A driven page reports it twice when its CDP session is  *)
(* watched.                                                                   *)
Reporters(h) == IF h = "playwright" THEN {{"response"}, {"response", "cdp"}} ELSE {{"completed"}}

Ask ==
  /\ \E from \in {0, page}, by \in Reporters(host) :
       /\ asked + Cardinality(by) <= Reports
       /\ asked' = asked + Cardinality(by)
       /\ responses' = responses \cup {[id |-> asked, page |-> from, by |-> b] : b \in by}
  /\ UNCHANGED <<host, browser, page, pageOf, stamp, wire, troubles, viewer>>

(* classifyManifest and emitMediaHint: the hint carries the identity the      *)
(* adapter last saw, and the element the host's correlation hook names, if any. *)
(* Its kind is "blocked" when the viewer's gate refuses the manifest's origin. *)
(* Of its page the model only keeps what the identity says rightly: 0 when it *)
(* is not that page's.                                                        *)
Emit(r) ==
  /\ Room
  /\ \E n \in Nid \cup {NoNid} :
       \E kind \in {"hls", "dash", "blocked"} :
         wire' = Append(wire, [type |-> "hint", stamp |-> stamp, nid |-> n, kind |-> kind,
                               page |-> IF stamp > 0 /\ pageOf[stamp] = r.page THEN r.page ELSE 0])

(* A response of another frame or tab is dropped, unless there is no telling:   *)
(* the extension's observer is armed for every tab, and again for the streamed *)
(* one once that is known.                                                    *)
MayBeFiltered(r) == r.page = 0

Reported(r) ==
  /\ responses' = responses \ {r}
  /\ Emit(r) \/ (MayBeFiltered(r) /\ UNCHANGED wire)
  /\ UNCHANGED <<host, browser, page, pageOf, stamp, asked, troubles, viewer>>

(* The `response' event of the driven page: its frame may be unknown.           *)
HandleManifestResponse(r) == r.by = "response" /\ Reported(r)

(* Network.responseReceived: the main frame's id may not be known yet.          *)
HandleCDPResponseReceived(r) == r.by = "cdp" /\ Reported(r)

(* webRequest.onCompleted: the streamed tab may not be known yet.               *)
HandleManifestCompleted(r) == r.by = "completed" /\ Reported(r)

(* The extension's service worker dies and starts again: currentIdentity is   *)
(* gone.                                                                      *)
WorkerDies ==
  /\ host = "extension" /\ troubles < MaxTroubles
  /\ troubles' = troubles + 1
  /\ stamp' = 0
  /\ UNCHANGED <<host, browser, page, pageOf, responses, asked, wire, viewer>>

(* The relay sheds a message of a slow viewer.                                *)
Lose ==
  /\ wire # <<>> /\ troubles < MaxTroubles
  /\ troubles' = troubles + 1
  /\ wire' = Tail(wire)
  /\ UNCHANGED <<host, browser, page, pageOf, stamp, responses, asked, viewer>>

--------------------------------------------------------------------------------
(* The player: media-player.js.                                               *)

Entry(f, n, id) == [x \in DOMAIN f \cup {n} |-> IF x = n THEN id ELSE f[x]]
Without(f, n) == [x \in DOMAIN f \ {n} |-> f[x]]

Element(p) == <<p.doc, p.nid>>

(* destroy: the player of the entry is gone, and the source of its element,   *)
(* which need not be the one that has the nid now.                            *)
Destroy(m, n) ==
  IF n \notin DOMAIN m.registry THEN m
  ELSE LET dying == {p \in m.players : p.id = m.registry[n]} IN
    [m EXCEPT !.players = @ \ dying,
              !.sourced = @ \ {Element(p) : p \in dying},
              !.registry = Without(@, n)]

(* degrade; its caption and host hook are left out.                           *)
Degrade(m, n) == Destroy(m, n)

(* registry.set: an entry that is there is lost, its player goes on.          *)
Register(m, player) ==
  LET n == player.nid
      lost == {p \in m.players : n \in DOMAIN m.registry /\ p.id = m.registry[n]} IN
    [m EXCEPT !.registry = Entry(@, n, player.id),
              !.players = (@ \ lost) \cup {[p EXCEPT !.lost = TRUE] : p \in lost}
                          \cup {[player EXCEPT !.late = ~(player.session = active /\ player.doc = active)]}]

(* The element gets its source, or not yet.                                   *)
WithSource(m, p) == [m EXCEPT !.sourced = @ \cup {Element(p)}]
Sourcing(m, p)   == {m, WithSource(m, p)}

(* What the browser can play: HLS by itself, or through Media Source Extensions. *)
IsNativeHls(h) == browser = "native" /\ h.kind = "hls"
CanUseMse(h) == browser = "hls.js" /\ h.kind = "hls"

(* attach: natively when the browser can, else by the host's factory, else by *)
(* hls.js once it is loaded.  A host's player sets the element's source when it *)
(* likes to, or throws out of attach; the factory may throw too.              *)
Attach(m, n, h) ==
  LET used == {p.id : p \in m.players \cup m.imports} \cup Range(m.registry)
      player == [id |-> CHOOSE i \in 1 .. Cardinality(used) + 1 : i \notin used, nid |-> n,
                 session |-> active, doc |-> document.index, page |-> h.page,
                 late |-> FALSE, lost |-> FALSE]
      made == Register(m, player) IN
  CASE IsNativeHls(h) -> {WithSource(made, player)}
    [] browser = "factory" -> Sourcing(made, player) \cup {Degrade(made, n), Degrade(m, n)}
    [] CanUseMse(h) -> {[m EXCEPT !.imports = @ \cup {player}]}
    [] OTHER -> {Degrade(m, n)}

(* attachViaLazyHls after its await: hls.js is there, loads the manifest and  *)
(* gives the element its source; or it is not; or it throws once its instance *)
(* is there and has a manifest, which nothing then holds or destroys.         *)
Imported(m, i) ==
  LET waited == [m EXCEPT !.imports = @ \ {i}]
      thrown == [waited EXCEPT !.players = @ \cup {[i EXCEPT !.lost = TRUE]}] IN
    {WithSource(Register(waited, i), i), Degrade(waited, i.nid)}
      \cup {Degrade(x, i.nid) : x \in Sourcing(thrown, i)}

(* Mutant: entries are cleared, their players not destroyed.                  *)
ForgetsPlayers(m) == [m EXCEPT !.registry = <<>>]

(* destroyAll, before the document is replaced: every entry is destroyed.     *)
Registered(m) == {p \in m.players : p.id \in Range(m.registry)}
DestroyAll(m) ==
  [m EXCEPT !.players = @ \ Registered(m),
            !.sourced = @ \ {Element(p) : p \in Registered(m)},
            !.registry = <<>>]

--------------------------------------------------------------------------------
(* The viewer.                                                                *)

Receive(type) ==
  /\ wire # <<>> /\ Head(wire).type = type
  /\ wire' = Tail(wire)
  /\ UNCHANGED source

(* Mutant: no look at the identity.                                           *)
AnyStream(msg) == TRUE

(* isCurrentStream: an empty identity on either side is let through.          *)
Current(msg) == msg.stamp = 0 \/ active = 0 \/ msg.stamp = active

(* handleSnapshot: every player goes before its element does.                 *)
HandleSnapshot ==
  /\ Receive("snapshot")
  /\ active' = Head(wire).stamp
  /\ document' = [document EXCEPT !.coming = active', !.index = 0]
  /\ media' = DestroyAll(media)
  /\ pending' = <<>> /\ bound' = {}
  /\ UNCHANGED streaming

(* The navigation reaches its new document.                                   *)
DocumentCommits ==
  /\ document.coming # 0
  /\ document' = [document EXCEPT !.of = document.coming, !.coming = 0, !.loading = TRUE]
  /\ UNCHANGED <<source, wire, active, streaming, pending, bound, media>>

(* The load listeners give the nids of the last snapshot to the elements of   *)
(* the document on show, which may still be the one that snapshot replaces.   *)
DocumentLoads ==
  /\ document.loading
  /\ document' = [document EXCEPT !.loading = FALSE, !.index = IF active = 0 THEN 0 ELSE document.of]
  /\ streaming' = (active # 0)
  /\ UNCHANGED <<source, wire, active, pending, bound, media>>

Resolves(n) == document.index # 0 /\ n \in Nid
Opaque(n) == <<document.index, n>> \notin media.sourced

BindAdaptiveHint(n, h) == media' \in Attach(media, n, h)

(* pendingHints keeps one hint of a kind: a newer one takes the older's place. *)
Store(h) ==
  LET of == {i \in DOMAIN pending : pending[i].kind = h.kind} IN
    Append(IF of = {} THEN pending ELSE RemoveAt(pending, CHOOSE i \in of : TRUE), h)

(* handleMediaHint.                                                           *)
HandleMediaHint ==
  /\ Receive("hint")
  /\ UNCHANGED <<active, document, streaming>>
  /\ LET h == Head(wire) IN
       IF ~streaming \/ ~Current(h) \/ (h.stamp = 0 /\ active = 0)
       THEN UNCHANGED <<pending, bound, media>>
       ELSE CASE h.kind = "blocked" ->
                   media' = Degrade(media, h.nid) /\ UNCHANGED <<pending, bound>>
              [] h.kind # "blocked" /\ h.nid = NoNid ->
                   /\ pending' = Store(h)
                   /\ UNCHANGED <<bound, media>>
              [] h.kind # "blocked" /\ h.nid # NoNid /\ Resolves(h.nid) /\ Opaque(h.nid) ->
                   /\ bound' = bound \cup {h.nid}
                   /\ BindAdaptiveHint(h.nid, h)
                   /\ UNCHANGED pending
              [] OTHER -> UNCHANGED <<pending, bound, media>>

(* Mutant: only an HLS hint is taken from the store.                          *)
OnlyHls(n) == Opaque(n) /\ n \notin bound /\ pending # <<>> /\ Last(pending).kind = "hls"

(* maybeConsumePageHint: the most recent hint goes to the first element that  *)
(* plays and has none.                                                        *)
WantsPageHint(n) == Opaque(n) /\ n \notin bound /\ pending # <<>>
ConsumePageHint(n) ==
  /\ pending' = Front(pending)
  /\ bound' = bound \cup {n}
  /\ BindAdaptiveHint(n, Last(pending))

(* handleMedia, as far as the page hints go.                                  *)
HandleMedia ==
  /\ Receive("media")
  /\ UNCHANGED <<active, document, streaming>>
  /\ LET n == Head(wire).nid IN
       IF streaming /\ Current(Head(wire)) /\ Resolves(n) /\ WantsPageHint(n)
       THEN ConsumePageHint(n)
       ELSE UNCHANGED <<pending, bound, media>>

ImportSettles(i) ==
  /\ media' \in Imported(media, i)
  /\ UNCHANGED <<source, wire, active, document, streaming, pending, bound>>

(* A player fails for good: `encrypted', a fatal error, or onError of a host's. *)
(* What is lost fails too, and takes along who has its entry.                 *)
PlayerFails(p) ==
  /\ browser # "native"
  /\ media' = Degrade(media, p.nid)
  /\ UNCHANGED <<source, wire, active, document, streaming, pending, bound>>

(* A host's player gets to set the source of its element.                     *)
FactorySources(p) ==
  /\ browser = "factory" /\ Element(p) \notin media.sourced
  /\ media' = WithSource(media, p)
  /\ UNCHANGED <<source, wire, active, document, streaming, pending, bound>>

Next ==
  \/ Navigate \/ StartCapture \/ Ask \/ WorkerDies \/ Lose
  \/ \E n \in Nid : Plays(n)
  \/ \E r \in responses : HandleManifestResponse(r) \/ HandleCDPResponseReceived(r) \/ HandleManifestCompleted(r)
  \/ HandleSnapshot \/ DocumentCommits \/ DocumentLoads \/ HandleMediaHint \/ HandleMedia
  \/ \E i \in media.imports : ImportSettles(i)
  \/ \E p \in media.players : PlayerFails(p) \/ FactorySources(p)

(* Frames arrive and documents load; an element of the page that plays goes on *)
(* reporting it.                                                              *)
Fairness ==
  /\ WF_vars(HandleSnapshot) /\ WF_vars(HandleMediaHint) /\ WF_vars(HandleMedia)
  /\ WF_vars(DocumentCommits) /\ WF_vars(DocumentLoads)
  /\ \A n \in Nid : WF_vars(Plays(n))

Spec == Init /\ [][Next]_vars /\ Fairness

--------------------------------------------------------------------------------
(* Properties.                                                                *)

(* A manifest is only ever played in an element of the page that loaded it,   *)
(* whatever snapshots, reloads, stored hints and late imports come between -  *)
(* provided the identity the adapter stamped on the hint was that page's, which *)
(* it need not be: it is the last one seen go by.  (page is 0 where it is not.) *)
(* The exception is an element of a document whose load event came after the  *)
(* next snapshot: it goes by a nid of that snapshot until its document leaves. *)
RightMedia ==
  \A p \in media.players \cup media.imports :
    p.page # 0 => pageOf[p.doc] = p.page \/ p.doc # p.session

(* A player that was not destroyed is the one registered for its element, so  *)
(* that the next snapshot, or its own failure, tears it down, and its element *)
(* is in the document of the last snapshot.  If its document or hls.js came   *)
(* late, it may be in another, but the next snapshot still has its entry.     *)
(* Only a player whose entry was overwritten, or that threw, is out of reach. *)
NoStrayPlayer ==
  \A p \in media.players :
    \/ /\ p.nid \in DOMAIN media.registry /\ media.registry[p.nid] = p.id
       /\ (p.session = active /\ p.doc = active) \/ p.late
    \/ p.lost

(* A hint for the page as a whole that reaches the viewer of its own session  *)
(* is not passed over: every element that plays and has none is given one,    *)
(* while there is one, unless the page is left or captured anew first.        *)
PageHintIsUsed ==
  \A s \in 1 .. Sessions, n \in Nid :
    (active = s /\ pending # <<>>)
      ~> (n \in bound \/ pending = <<>> \/ ~(active = s /\ Session = s /\ Capturing))
================================================================================
