------------------------- MODULE ReferencePreview -------------------------
(***************************************************************************)
(* The reference implementation's live preview: the dashboard's state      *)
(* machine (reference/dashboard/dashboard.js), the relay's room            *)
(* (reference/server/ws-handler.js), the extension's socket and its        *)
(* asynchronous start of a stream (reference/extension/ws-client.js), and  *)
(* the content script that captures the page                               *)
(* (reference/extension/dom-stream.js).                                    *)
(*                                                                         *)
(* Either socket may drop at any time with what is under way on it, the    *)
(* service worker may be restarted, the page may navigate while a start    *)
(* looks for its tab or waits for its content script, a pause overtakes    *)
(* such a start, the user pauses, hides and resumes, a snapshot comes      *)
(* empty or cannot be shown, and a 5 s timer turns a preview that still    *)
(* loads into "disconnected".                                              *)
(*                                                                         *)
(* Data abstraction.  A page's content is the stream session it was        *)
(* serialized under; a mutation message is its session; how many of its    *)
(* operations miss is a choice wherever they can miss.  The two hops       *)
(* between content script and socket are one step, as are the relay and    *)
(* the socket it writes to.  Texts, badges, metrics and diagnostics are    *)
(* left out, and so is the task panel.  A worker that was restarted has    *)
(* forgotten its tab and asks for the active one: that is taken to be the  *)
(* tab it streamed, so that no two tabs stream at once.                    *)
(***************************************************************************)
EXTENDS Naturals, Sequences, SequencesExt

CONSTANTS
  Sessions,    \* stream session ids; enough that one is always unused
  MaxTroubles, \* bound: sockets lost, workers restarted, frames dropped, resyncs,
               \* navigations, snapshots that fail and moves of the user, in all;
               \* to undo one is free
  MaxAwaits,   \* bound: a start or report comes in while fewer are under way
  QueueLimit,  \* bound: mutations and other tabs' pings come only into a shorter queue
  None         \* no session

ASSUME PreviewAssumption ==
  /\ MaxTroubles \in Nat \ {0} /\ MaxAwaits \in Nat \ {0} /\ QueueLimit \in Nat
  /\ Sessions \subseteq Nat /\ 1 \in Sessions /\ None \notin Sessions

VARIABLES
  dash,    \* the dashboard, a record
  ext,     \* the extension's service worker, a record
  content, \* the content script of the streamed tab, a record
  tab,     \* the tab: "page", or "restricted" or "closed"
  toDash,  \* messages relayed to the dashboard
  toExt,   \* messages relayed to the extension
  troubles, \* counter of the bound
  excused  \* history: the relay dropped a frame, or a late pause was replayed

vars == <<dash, ext, content, tab, toDash, toExt, troubles, excused>>

Commands == {"start", "pause", "resume"}

(* What goes to the dashboard.                                             *)
Status(b) == [type |-> "status", online |-> b]
Recovered(status) == [type |-> "state", status |-> status]
Report(status) == [type |-> "report", status |-> status]
PageReady == [type |-> "ready"]
Snap(s) == [type |-> "snapshot", session |-> s]
Mut(s) == [type |-> "mutations", session |-> s]

InUse ==
  {dash.active, dash.doc, dash.loading, content.session}
    \cup {toDash[i].session : i \in {j \in DOMAIN toDash : toDash[j].type \in {"snapshot", "mutations"}}}

Fresh == CHOOSE s \in Sessions : s \notin InUse /\ \A t \in Sessions \ InUse : s <= t

(* The room relays to a dashboard, or an extension, that is connected.     *)
RelayToDash(msgs) == IF dash.ws = "open" THEN toDash \o msgs ELSE toDash
FromExt(msgs) == IF ext.up THEN RelayToDash(msgs) ELSE toDash
RelayToExt(msgs) == IF ext.up THEN toExt \o msgs ELSE toExt

Trouble == troubles < MaxTroubles /\ troubles' = troubles + 1

-----------------------------------------------------------------------------
(* The dashboard.  A handler yields the dashboard's new record and what it *)
(* sends.  The URL bar's "loading" (typed) ends with the state, or when    *)
(* the timer covers it.                                                    *)

Result(d, out) ==
  [d |-> [d EXCEPT !.typed = d.typed /\ d.preview = "loading" /\ ~d.watch], out |-> out]

(* armPreviewRecoveryWatchdog, unless it runs.                             *)
Watched(d) == [d EXCEPT !.watch = d.toggle]
Watch(d) == IF d.watch THEN d ELSE Watched(d)
Load(d) == IF d.preview = "streaming" THEN d ELSE [d EXCEPT !.preview = "loading"]

ScheduleStreamRecovery(d) ==
  IF d.preview = "frozen-complete" \/ ~d.toggle
  THEN Result([d EXCEPT !.watch = FALSE], <<"request-status">>)
  ELSE Result(Watched([d EXCEPT !.notReady = FALSE, !.preview = "loading"]),
              <<"request-status", "start">>)

(* Mutant: a resync that arms no timer.                                    *)
ResyncUnwatched(d) ==
  IF d.latch THEN Result(d, <<>>)
  ELSE Result([d EXCEPT !.latch = TRUE, !.notReady = FALSE, !.preview = "loading"],
              <<"request-status", "start">>)

RequestPreviewResync(d) ==
  IF d.latch THEN Result(d, <<>>)
  ELSE Result(Watch([d EXCEPT !.latch = TRUE, !.notReady = FALSE, !.preview = "loading"]),
              <<"request-status", "start">>)

OnStatus(d, online) ==
  LET e == [d EXCEPT !.online = online]
  IN  IF online /\ ~d.online THEN ScheduleStreamRecovery(e) ELSE Result(e, <<>>)

(* handleRecoveredStreamState; "recovering" comes with the intent set.     *)
HandleRecoveredStreamState(d, status) ==
  LET e == [d EXCEPT !.notReady = status \in {"restricted", "closed"}]
  IN  CASE status = "restricted" ->
             Result([e EXCEPT !.latch = FALSE, !.watch = FALSE, !.preview = "restricted"], <<>>)
        [] status = "closed" ->
             Result([e EXCEPT !.latch = FALSE, !.watch = FALSE, !.preview = "disconnected"], <<>>)
        [] status = "recovering" /\ ~d.toggle -> Result([e EXCEPT !.watch = FALSE], <<>>)
        [] status = "recovering" /\ d.toggle -> Result(Watch(Load(e)), <<>>)

(* ext:snapshot.  "ready" says that no stream is asked for.                *)
OnReport(d, status) ==
  LET e == [d EXCEPT !.online = TRUE, !.notReady = (status = "not-ready")]
  IN  CASE ~d.toggle -> Result([e EXCEPT !.watch = FALSE, !.preview = "paused"], <<>>)
        [] d.toggle /\ status = "not-ready" ->
             Result([e EXCEPT !.watch = FALSE, !.preview = "disconnected"], <<>>)
        [] d.toggle /\ status = "ready" -> Result(e, <<>>)
        [] d.toggle /\ status = "recovering" ->
             Result(Watch([e EXCEPT !.preview = "loading"]), <<>>)

(* Mutant: a page that is ready is not asked to stream.                    *)
OnPageReadyNoted(d) ==
  LET e == [d EXCEPT !.notReady = FALSE]
  IN  IF d.toggle THEN Result(Watch(Load(e)), <<>>) ELSE Result(e, <<>>)

OnPageReady(d) ==
  LET e == [d EXCEPT !.notReady = FALSE]
  IN  IF d.toggle THEN Result(Watch(Load(e)), <<"start">>) ELSE Result(e, <<>>)

(* The document is written now and shown when the frame has loaded it.     *)
Adopted(d, s) == [d EXCEPT !.active = s, !.latch = FALSE, !.missed = FALSE, !.notReady = FALSE,
                           !.watch = FALSE]

HandleDOMSnapshot(d, s) ==
  Result([Adopted(d, s) EXCEPT !.loading = s, !.spoilt = "no"], <<>>)

(* A snapshot without html, as of a page whose body is empty, is not       *)
(* adopted.  One that throws while it is put together is: an older         *)
(* document may still be on its way.                                       *)
SnapshotInvalid(d) ==
  Result([d EXCEPT !.preview = "error", !.spoilt = IF @ = "no" THEN "empty" ELSE @], <<>>)

SnapshotThrows(d, s) ==
  Result([Adopted(d, s) EXCEPT !.preview = "error", !.spoilt = "failed"], <<>>)

(* Mutant: no look at the identity.                                        *)
AcceptAll(d, s) == TRUE

ShouldAccept(d, s) == d.active = None \/ s = d.active

(* A batch applies to whatever document the frame holds.  Operations can   *)
(* miss when that is not the batch's own or lacks an earlier batch.        *)
Applied(d, s) ==
  IF d.preview # "streaming" THEN [d EXCEPT !.missed = TRUE]
  ELSE IF d.doc = s THEN d
  ELSE [d EXCEPT !.missed = TRUE, !.torn = TRUE]

MayMiss(d, s) == d.preview = "streaming" /\ (d.doc # s \/ d.missed)

-----------------------------------------------------------------------------
(* Dashboard: the socket.                                                  *)

Take(r) == /\ dash' = r.d /\ toExt' = RelayToExt(r.out)

(* The relay tells a new dashboard whether an extension is in the room, a  *)
(* socket it has not yet seen close included.                              *)
DashOpens ==
  /\ dash.ws = "connecting"
  /\ Take(ScheduleStreamRecovery([dash EXCEPT !.ws = "open"]))
  /\ toDash' = IF ext.up \/ ext.ghost THEN <<Status(TRUE)>> ELSE <<>>
  /\ UNCHANGED <<ext, content, tab, troubles, excused>>

(* Mutant: a lost connection leaves the extension shown as online.         *)
DashDropsOnline ==
  /\ dash.ws = "open" /\ Trouble
  /\ dash' = Result([dash EXCEPT !.ws = "connecting", !.watch = FALSE,
                !.preview = CASE @ = "streaming" -> "frozen-disconnect"
                              [] @ = "loading" -> "disconnected"
                              [] OTHER -> @], <<>>).d
  /\ toDash' = <<>> /\ UNCHANGED toExt
  /\ UNCHANGED <<ext, content, tab, excused>>

(* onclose reconnects.  What is under way in either direction is lost.     *)
DashDrops ==
  /\ dash.ws = "open" /\ Trouble
  /\ dash' = Result([dash EXCEPT !.ws = "connecting", !.online = FALSE, !.watch = FALSE,
                !.preview = CASE @ = "streaming" -> "frozen-disconnect"
                              [] @ = "loading" -> "disconnected"
                              [] OTHER -> @], <<>>).d
  /\ toDash' = <<>>
  /\ \E k \in 0..Len(toExt) : toExt' = SubSeq(toExt, 1, k)
  /\ UNCHANGED <<ext, content, tab, excused>>

Hear(type) == toDash # <<>> /\ Head(toDash).type = type /\ toDash' = Tail(toDash)

HandleStatus ==
  /\ Hear("status")
  /\ Take(OnStatus(dash, Head(toDash).online))
  /\ UNCHANGED <<ext, content, tab, troubles, excused>>

HandleState ==
  /\ Hear("state")
  /\ Take(HandleRecoveredStreamState(dash, Head(toDash).status))
  /\ UNCHANGED <<ext, content, tab, troubles, excused>>

HandleReport ==
  /\ Hear("report")
  /\ Take(OnReport(dash, Head(toDash).status))
  /\ UNCHANGED <<ext, content, tab, troubles, excused>>

HandlePageReady ==
  /\ Hear("ready")
  /\ Take(OnPageReady(dash))
  /\ UNCHANGED <<ext, content, tab, troubles, excused>>

HandleSnapshot ==
  /\ Hear("snapshot")
  /\ LET s == Head(toDash).session
     IN  \/ Take(HandleDOMSnapshot(dash, s)) /\ UNCHANGED troubles
         \/ Take(SnapshotInvalid(dash)) /\ Trouble
         \/ Take(SnapshotThrows(dash, s)) /\ Trouble
  /\ UNCHANGED <<ext, content, tab, excused>>

HandleMutations ==
  /\ Hear("mutations")
  /\ LET s == Head(toDash).session
         d == IF ShouldAccept(dash, s) THEN Applied(dash, s) ELSE dash
     IN  \/ dash' = d /\ UNCHANGED <<toExt, troubles>>
         \/ /\ ShouldAccept(dash, s) /\ MayMiss(dash, s) /\ Trouble
            /\ Take(RequestPreviewResync(d))
  /\ UNCHANGED <<ext, content, tab, excused>>

(* The frame's onload.                                                     *)
DocumentLoads ==
  /\ dash.loading # None
  /\ dash' = Result([dash EXCEPT !.doc = dash.loading, !.torn = FALSE, !.loading = None,
                                 !.preview = "streaming"], <<>>).d
  /\ UNCHANGED <<ext, content, tab, toDash, toExt, troubles, excused>>

(* The frame's onerror, were a browser to report one.                      *)
DocumentFails ==
  /\ dash.loading # None /\ Trouble
  /\ dash' = Result([dash EXCEPT !.loading = None, !.preview = "error",
                                 !.spoilt = "failed"], <<>>).d
  /\ UNCHANGED <<ext, content, tab, toDash, toExt, excused>>

(* The timer of armPreviewRecoveryWatchdog.                                *)
WatchFires ==
  /\ dash.watch
  /\ dash' = IF dash.toggle /\ dash.preview # "streaming" /\ ~dash.notReady
             THEN [dash EXCEPT !.watch = FALSE, !.notReady = TRUE, !.preview = "disconnected"]
             ELSE [dash EXCEPT !.watch = FALSE]
  /\ UNCHANGED <<ext, content, tab, toDash, toExt, troubles, excused>>

-----------------------------------------------------------------------------
(* Dashboard: the user.                                                    *)

UserMoves == UNCHANGED <<ext, content, tab, toDash, excused>>
Move == Trouble /\ UserMoves

ToggleOff ==
  /\ Move
  /\ dash.toggle
  /\ IF dash.ws = "open"
     THEN Take(Result([dash EXCEPT !.toggle = FALSE, !.watch = FALSE, !.preview = "paused"], <<"pause">>))
     ELSE dash' = [dash EXCEPT !.toggle = FALSE] /\ UNCHANGED toExt

ToggleOn ==
  /\ UserMoves /\ UNCHANGED troubles
  /\ ~dash.toggle
  /\ LET d == [dash EXCEPT !.toggle = TRUE]
         r == ScheduleStreamRecovery(d)
     IN  IF dash.ws = "open" THEN Take([r EXCEPT !.out = <<"resume">> \o @])
                             ELSE dash' = d /\ UNCHANGED toExt

(* visibilitychange.                                                       *)
Hide ==
  /\ Move
  /\ ~dash.hidden
  /\ dash' = [dash EXCEPT !.hidden = TRUE]
  /\ IF dash.ws = "open" /\ dash.preview = "streaming"
     THEN toExt' = RelayToExt(<<"pause">>) ELSE UNCHANGED toExt

Show ==
  /\ UserMoves /\ UNCHANGED troubles
  /\ dash.hidden
  /\ LET d == [dash EXCEPT !.hidden = FALSE]
         r == ScheduleStreamRecovery(d)
     IN  IF /\ dash.toggle /\ dash.ws = "open"
            /\ dash.preview \in {"streaming", "disconnected", "frozen-disconnect"}
         THEN Take([r EXCEPT !.out = <<"resume">> \o @])
         ELSE dash' = d /\ UNCHANGED toExt

WakeExtension ==
  /\ Move
  /\ dash.ws = "open"
  /\ Take([d |-> dash, out |-> <<"request-status", "start">>])

(* submitUrlBar shows "loading" at once, and arms no timer.                *)
SubmitUrl ==
  /\ Move
  /\ dash.ws = "open"
  /\ dash' = IF dash.preview \in {"restricted", "disconnected"}
             THEN Result([dash EXCEPT !.preview = "loading", !.typed = TRUE], <<>>).d ELSE dash
  /\ toExt' = RelayToExt(<<"navigate">>)

(* handleTaskComplete freezes what is shown.                               *)
TaskCompletes ==
  /\ Move
  /\ dash.preview \in {"streaming", "frozen-disconnect"}
  /\ dash' = [dash EXCEPT !.preview = "frozen-complete"]
  /\ UNCHANGED toExt

-----------------------------------------------------------------------------
(* The extension.                                                          *)

(* A page without a content script, or whose script does not capture.      *)
Unloaded == [loaded |-> FALSE, observing |-> FALSE, session |-> None, left |-> FALSE]

(* _resolveStreamCandidate, once its queries are answered: the streamed    *)
(* tab while it shows a page, else another that does.                      *)
CandidateFound ==
  \/ tab = "page" /\ UNCHANGED <<tab, content>>
  \/ /\ tab # "page" /\ tab' = "page"
     /\ \E b \in BOOLEAN : content' = [Unloaded EXCEPT !.loaded = b, !.left = TRUE]

(* No tab shows one; what another tab shows hides that this one is closed. *)
NotReady(reason) ==
  /\ tab # "page"
  /\ reason \in {tab, "restricted"}
  /\ UNCHANGED <<tab, content>>

(* The worker e as it turns to the tab found: what it asked of the other   *)
(* is no more answered.                                                    *)
NoProbe == [c \in Commands |-> 0]

Turned(e) ==
  IF tab = "page" THEN e
  ELSE [e EXCEPT !.probing = NoProbe, !.astray = @ + e.probing["start"]]

(* _sendStateSnapshot: the candidate is awaited, then all is sent in one   *)
(* go.                                                                     *)
SendStateSnapshot ==
  /\ ext.reporting > 0
  /\ LET e == [ext EXCEPT !.reporting = @ - 1]
     IN  \/ /\ CandidateFound
            /\ ext' = Turned(e)
            /\ toDash' =
                 FromExt(<<Report(IF ext.intent THEN "recovering" ELSE "ready"), PageReady>>)
         \/ \E reason \in {"restricted", "closed"} :
              /\ NotReady(reason)
              /\ ext' = e
              /\ toDash' = FromExt(<<Report("not-ready"), Recovered(reason)>>)
  /\ UNCHANGED <<dash, toExt, troubles, excused>>

(* The relay announces it, and its onopen begins to report.                *)
ExtConnects ==
  /\ ~ext.up
  /\ ext' = [ext EXCEPT !.up = TRUE, !.reporting = @ + 1]
  /\ toDash' = RelayToDash(<<Status(TRUE)>>)
  /\ toExt' = <<>>
  /\ UNCHANGED <<dash, content, tab, troubles, excused>>

(* The relay's own messages among these.                                   *)
OwnMessages(msgs) ==
  LET own[n \in 0..Len(msgs)] ==
        IF n = 0 THEN <<>>
        ELSE IF msgs[n].type = "status" THEN Append(own[n - 1], msgs[n]) ELSE own[n - 1]
  IN own[Len(msgs)]

(* What the relay had not yet got is lost, its own messages are not.  It   *)
(* may notice later: the old socket then stays in the room.  A restarted   *)
(* worker has also forgotten what it was doing.                            *)
ExtLost(kept) ==
  /\ ext.up /\ Trouble
  /\ \E k \in 0..Len(toDash), noticed \in IF ext.ghost THEN {TRUE} ELSE BOOLEAN :
       LET left == SubSeq(toDash, 1, k) \o OwnMessages(SubSeq(toDash, k + 1, Len(toDash)))
       IN  /\ toDash' = IF noticed /\ dash.ws = "open" THEN Append(left, Status(FALSE)) ELSE left
           /\ ext' = [kept EXCEPT !.up = FALSE, !.ghost = @ \/ ~noticed]
  /\ toExt' = <<>>
  /\ UNCHANGED <<dash, content, tab, excused>>

ExtDrops == ExtLost(ext)

WorkerRestarts ==
  ExtLost([ext EXCEPT !.intent = FALSE, !.resolving = 0, !.reporting = 0,
                      !.probing = NoProbe, !.astray = 0, !.parked = FALSE])

(* The relay's close handler of an old socket: online is false, even with  *)
(* a new socket in the room.                                               *)
OldSocketCloses ==
  /\ ext.ghost
  /\ ext' = [ext EXCEPT !.ghost = FALSE]
  /\ toDash' = RelayToDash(<<Status(FALSE)>>)
  /\ UNCHANGED <<dash, content, tab, toExt, troubles, excused>>

(* The relay skips a dashboard whose buffer is over its limit.             *)
BackpressureDrop ==
  /\ toDash # <<>> /\ Trouble
  /\ toDash' = Front(toDash)
  /\ excused' = TRUE
  /\ UNCHANGED <<dash, ext, content, tab, toExt>>

Receive(command) == toExt # <<>> /\ Head(toExt) = command /\ toExt' = Tail(toExt)

(* What the worker awaits at once, as far as the bound goes; the probe of  *)
(* a page that has gone is not counted.                                    *)
Awaits == ext.reporting + ext.resolving + IF tab = "page" THEN ext.probing["start"] ELSE 0

ReceiveStatusRequest ==
  /\ Receive("request-status") /\ Awaits < MaxAwaits
  /\ ext' = [ext EXCEPT !.reporting = @ + 1]
  /\ UNCHANGED <<dash, content, tab, toDash, troubles, excused>>

(* What the content script sends at a command.                             *)
Capture(command) ==
  IF command = "pause" THEN content' = [content EXCEPT !.observing = FALSE]
  ELSE content' = [content EXCEPT !.observing = TRUE, !.session = Fresh, !.left = FALSE]

Sent(command) == IF command = "pause" THEN <<>> ELSE <<Snap(Fresh)>>

(* A start sets the intent at once.  The rest of                           *)
(* _handleDashboardStreamStart comes when its awaits end: the candidate,   *)
(* then the content script, injected and probed for, loaded or not.        *)
ReceiveStart ==
  /\ Receive("start") /\ Awaits < MaxAwaits
  /\ ext' = [ext EXCEPT !.intent = TRUE, !.resolving = @ + 1]
  /\ UNCHANGED <<dash, content, tab, toDash, troubles, excused>>

HandleStreamStart ==
  /\ ext.resolving > 0
  /\ LET e == [ext EXCEPT !.resolving = @ - 1]
     IN  \/ /\ CandidateFound
            /\ ext' = [Turned(e) EXCEPT !.probing["start"] = @ + 1]
            /\ toDash' = FromExt(<<Recovered("recovering")>>)
         \/ \E reason \in {"restricted", "closed"} :
              /\ NotReady(reason)
              /\ ext' = e
              /\ toDash' = FromExt(<<Recovered(reason)>>)
  /\ UNCHANGED <<dash, toExt, troubles, excused>>

(* A pause or a resume goes straight to the content script.  Where there   *)
(* is none it is injected and probed for; no script goes into another tab. *)
ForwardToContentScript(command) ==
  /\ Receive(command)
  /\ IF content.loaded THEN Capture(command) /\ toDash' = FromExt(Sent(command)) /\ UNCHANGED ext
     ELSE /\ ext' = IF tab = "page" THEN [ext EXCEPT !.probing[command] = @ + 1] ELSE ext
          /\ UNCHANGED <<content, toDash>>
  /\ UNCHANGED <<dash, tab, troubles, excused>>

(* A probe is answered: start clears what is parked.                       *)
ProbeAnswered(command) ==
  /\ ext.probing[command] > 0 /\ content.loaded
  /\ ext' = [ext EXCEPT !.probing[command] = @ - 1,
                        !.parked = IF command = "start" THEN FALSE ELSE @]
  /\ Capture(command) /\ toDash' = FromExt(Sent(command))
  /\ excused' = (excused \/ command = "pause")
  /\ UNCHANGED <<dash, tab, toExt, troubles>>

(* Five seconds without an answer: a start is parked.                      *)
ProbeTimesOut(command) ==
  /\ ext.probing[command] > 0 /\ ~content.loaded
  /\ ext' = [ext EXCEPT !.probing[command] = @ - 1,
                        !.parked = IF command = "start" THEN TRUE ELSE @]
  /\ UNCHANGED <<dash, content, tab, toDash, toExt, troubles, excused>>

(* So too in a tab the worker has turned from.                             *)
StrayTimesOut ==
  /\ ext.astray > 0
  /\ ext' = [ext EXCEPT !.astray = @ - 1, !.parked = TRUE]
  /\ UNCHANGED <<dash, content, tab, toDash, toExt, troubles, excused>>

(* domStreamReady, of this tab or, as _onDomStreamReady does not look at   *)
(* its sender, of any: a parked start is handled again.                    *)
OnDomStreamReady ==
  ext' = IF ext.parked THEN [ext EXCEPT !.parked = FALSE, !.resolving = @ + 1] ELSE ext

OtherTabReady ==
  /\ ext.parked /\ ext.resolving = 0 /\ Len(toDash) < QueueLimit
  /\ OnDomStreamReady
  /\ UNCHANGED <<dash, content, tab, toDash, toExt, troubles, excused>>

ScriptLoads ==
  /\ tab = "page" /\ ~content.loaded
  /\ content' = [content EXCEPT !.loaded = TRUE]
  /\ OnDomStreamReady
  /\ UNCHANGED <<dash, tab, toDash, toExt, troubles, excused>>

-----------------------------------------------------------------------------
(* The page.                                                               *)

(* The tab goes elsewhere, by itself or because the URL bar said so.       *)
GoTo(t) == tab' = t /\ content' = [Unloaded EXCEPT !.left = TRUE]

TabNavigates ==
  /\ Trouble
  /\ \E t \in {"page", "restricted", "closed"} : GoTo(t)
  /\ UNCHANGED <<dash, ext, toDash, toExt, excused>>

RemoteNavigate ==
  /\ Receive("navigate")
  /\ \/ GoTo("page")
     \/ UNCHANGED <<tab, content>>
  /\ UNCHANGED <<dash, ext, toDash, troubles, excused>>

FlushMutations ==
  /\ content.observing /\ Len(toDash) < QueueLimit
  /\ toDash' = FromExt(<<Mut(content.session)>>)
  /\ UNCHANGED <<dash, ext, content, tab, toExt, troubles, excused>>

-----------------------------------------------------------------------------
Dashboard(ws, preview, s) ==
  [ws |-> ws, toggle |-> TRUE, hidden |-> FALSE, preview |-> preview, watch |-> FALSE,
   notReady |-> FALSE, latch |-> FALSE, missed |-> FALSE, active |-> s, doc |-> s,
   torn |-> FALSE, loading |-> None, spoilt |-> "no", online |-> (ws = "open"), typed |-> FALSE]

Extension(up) ==
  [up |-> up, ghost |-> FALSE, intent |-> up, resolving |-> 0, reporting |-> 0,
   probing |-> NoProbe, astray |-> 0, parked |-> FALSE]

(* Nothing is connected yet, in a page with or without the content script; *)
(* or a stream has been running for long.                                  *)
Cold ==
  /\ dash = Dashboard("connecting", "hidden", None)
  /\ ext = Extension(FALSE)
  /\ \E b \in BOOLEAN : content = [Unloaded EXCEPT !.loaded = b]
  /\ troubles = MaxTroubles

Running ==
  /\ dash = Dashboard("open", "streaming", 1)
  /\ ext = Extension(TRUE)
  /\ content = [loaded |-> TRUE, observing |-> TRUE, session |-> 1, left |-> FALSE]
  /\ troubles = 0

Init ==
  /\ Cold \/ Running
  /\ tab = "page"
  /\ toDash = <<>> /\ toExt = <<>>
  /\ excused = FALSE

Handle ==
  \/ HandleStatus \/ HandleState \/ HandleReport \/ HandlePageReady
  \/ HandleSnapshot \/ HandleMutations

ReceiveCommand ==
  \/ ReceiveStatusRequest \/ ReceiveStart \/ RemoteNavigate
  \/ ForwardToContentScript("pause") \/ ForwardToContentScript("resume")

ProbeEnds == StrayTimesOut \/ \E c \in Commands : ProbeAnswered(c) \/ ProbeTimesOut(c)

Next ==
  \/ DashOpens \/ DashDrops \/ Handle \/ DocumentLoads \/ DocumentFails \/ WatchFires
  \/ ToggleOff \/ ToggleOn \/ Hide \/ Show \/ WakeExtension \/ SubmitUrl \/ TaskCompletes
  \/ ExtConnects \/ ExtDrops \/ WorkerRestarts \/ OldSocketCloses \/ BackpressureDrop
  \/ ReceiveCommand \/ SendStateSnapshot \/ HandleStreamStart \/ ProbeEnds
  \/ OtherTabReady \/ ScriptLoads \/ TabNavigates \/ FlushMutations

(* Sockets reconnect, messages arrive, awaits end, documents load and      *)
(* timers fire; a script that was injected loads in the end.               *)
Waiting == ext.parked \/ ext.resolving > 0 \/ \E c \in Commands : ext.probing[c] > 0

Fairness ==
  /\ WF_vars(DashOpens) /\ WF_vars(Handle) /\ WF_vars(DocumentLoads) /\ WF_vars(WatchFires)
  /\ WF_vars(ExtConnects) /\ WF_vars(OldSocketCloses) /\ WF_vars(ReceiveCommand)
  /\ WF_vars(SendStateSnapshot) /\ WF_vars(HandleStreamStart) /\ WF_vars(ProbeEnds)
  /\ WF_vars(Waiting /\ ScriptLoads)

Spec == Init /\ [][Next]_vars /\ Fairness

-----------------------------------------------------------------------------
(* A preview that says it is loading ends: its timer runs or its document  *)
(* is on its way, whatever was lost, as long as the stream is switched on. *)
(* The one exception is the URL bar's.                                     *)
LoadingIsWatched ==
  dash.preview = "loading" /\ dash.toggle =>
    dash.watch \/ dash.loading # None \/ dash.typed

(* A document that took another session's mutations is being replaced: no  *)
(* mixture of two pages stays on show.  Where a snapshot that was adopted  *)
(* could not be shown, it does, until one can.                             *)
NoForeignPage == dash.torn => dash.loading # None \/ dash.spoilt = "failed"

(* With nothing more to hear, an extension shown as online is connected,   *)
(* or is a socket that the relay has yet to see close.                     *)
OnlineIsReal ==
  dash.online /\ toDash = <<>> /\ ~excused => ext.up \/ ext.ghost

(* Once sockets hold and the user rests, the preview comes to show the     *)
(* page as it streams.  It may stay with an older picture, or with an      *)
(* error, where the page went elsewhere and nobody asked for it since,     *)
(* where the dashboard hides or freezes it, where a snapshot could not be  *)
(* shown, and where the relay dropped one or a pause came late; but it     *)
(* does not say "loading" for ever.                                        *)
Streams ==
  /\ dash.preview = "streaming"
  /\ content.observing /\ dash.doc = content.session /\ dash.loading = None

Settles ==
  <>[](\/ Streams
       \/ ~dash.toggle \/ dash.typed
       \/ /\ dash.preview # "loading"
          /\ \/ dash.hidden \/ excused \/ content.left
             \/ dash.spoilt # "no" \/ dash.preview = "frozen-complete")

=============================================================================
