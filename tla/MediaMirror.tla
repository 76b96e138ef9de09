------------------------------ MODULE MediaMirror ------------------------------
(* Playback of one <video> of the captured page and of its mirror: the media    *)
(* tracker of the capture (src/src/capture/index.js), the drift reconciler      *)
(* (src/src/protocol/media-reconcile.js) and the driver of the viewer           *)
(* (src/src/renderer/index.js).                                                 *)
(* One Tick is MEDIA_SYNC_THROTTLE_MS (250 ms); a position is a number of       *)
(* Base-ths of the distance normal playback covers in a tick, so that a nudged  *)
(* rate is Base - Nudge or Base + Nudge.  The identity gate and the health of   *)
(* the viewer are ViewerLifecycle's; volume, captions and the unmute button     *)
(* are left out, and `volumechange' stands for every transition event that      *)
(* changes neither position nor pause.                                          *)
EXTENDS Integers, Sequences

CONSTANTS
  Base,         \* positions covered by a tick at rate 1
  Nudge,        \* Base * maxNudgeFraction
  HoldBand,     \* holdBandSec
  HardSeek,     \* hardSeekSec
  Duration,     \* of the clip
  Seeks,        \* positions the page's user seeks to
  Latency,      \* a frame is delivered within so many ticks
  MaxWire,      \* frames in flight
  MaxOps,       \* transitions of the page's player, pauses of the capture
  MaxSnapshots, \* snapshots after the first one
  MaxStalls     \* ticks in which the mirror buffers

ASSUME MediaAssumption ==
  /\ {Base, Nudge, HoldBand, HardSeek, Duration, Latency, MaxWire, MaxOps, MaxSnapshots, MaxStalls} \subseteq Nat
  /\ 0 < Nudge /\ Nudge < Base /\ Base < Duration /\ HoldBand < HardSeek
  /\ Seeks \subseteq 0 .. Duration - 1

VARIABLES
  src,      \* the page's element: [pos, paused, loop]
  tracking, \* mediaTrackingActive
  wire,     \* frames in flight, oldest first
  el,       \* the mirror's element: [pos, paused, rate, seeking, ready]
  document, \* "none", "loading" (srcdoc written, nids not paired) or "loaded"
  baseline, \* media[] of the snapshot being loaded
  autoplay, \* does the browser let a muted element play on its own
  blocked,  \* the play button is shown over the mirror
  ops, snapshots, stalls
vars == <<src, tracking, wire, el, document, baseline, autoplay, blocked, ops, snapshots, stalls>>

page == <<src, tracking, ops, snapshots>>

(* A fresh element of a mirror document: at the start, paused, without data.    *)
Fresh == [pos |-> 0, paused |-> TRUE, rate |-> Base, seeking |-> FALSE, ready |-> FALSE]

(* buildMediaBaselineEntry and sendMediaState: what a frame tells of the page's *)
(* element; age is the time since sentAt.                                       *)
Frame(event, s) == [event |-> event, pos |-> s.pos, paused |-> s.paused, age |-> 0]

Init ==
  /\ src \in [pos : {0}, paused : BOOLEAN, loop : BOOLEAN]
  /\ tracking = TRUE /\ wire = <<Frame("snapshot", src)>>
  /\ el = Fresh /\ document = "none" /\ baseline = Frame("snapshot", src)
  /\ autoplay \in BOOLEAN /\ blocked = FALSE
  /\ ops = 0 /\ snapshots = 0 /\ stalls = 0

--------------------------------------------------------------------------------
(* The page's player and the tracker's listeners on it.                         *)

Room == Len(wire) < MaxWire

(* The listeners, which a paused capture has taken off.                         *)
Heard(frames) == IF tracking THEN frames ELSE <<>>

(* A transition event is sent at once.                                          *)
Transition(event, s) ==
  /\ ops < MaxOps /\ Room
  /\ ops' = ops + 1
  /\ src' = s
  /\ wire' = wire \o Heard(<<Frame(event, s)>>)
  /\ UNCHANGED <<tracking, el, document, baseline, autoplay, blocked, snapshots, stalls>>

PagePlays == src.paused /\ Transition("play", [src EXCEPT !.paused = FALSE])
PagePauses == ~src.paused /\ Transition("pause", [src EXCEPT !.paused = TRUE])
PageSeeks == \E p \in Seeks : Transition("seeked", [src EXCEPT !.pos = p])
VolumeChanges == Transition("volumechange", src)

(* pause() and resume() of the capture: stopMediaTracker takes the listeners    *)
(* off, startMediaTracker puts them on again and sends nothing.                 *)
StopMediaTracker ==
  /\ tracking /\ ops < MaxOps
  /\ tracking' = FALSE /\ ops' = ops + 1
  /\ UNCHANGED <<src, wire, el, document, baseline, autoplay, blocked, snapshots, stalls>>

StartMediaTracker ==
  /\ ~tracking
  /\ tracking' = TRUE
  /\ UNCHANGED <<src, wire, el, document, baseline, autoplay, blocked, ops, snapshots, stalls>>

(* One snapshot more of the same page (a restart): media[] is read again.       *)
Snapshot ==
  /\ snapshots < MaxSnapshots /\ Room
  /\ snapshots' = snapshots + 1 /\ tracking' = TRUE
  /\ wire' = Append(wire, Frame("snapshot", src))
  /\ UNCHANGED <<src, el, document, baseline, autoplay, blocked, ops, stalls>>

(* A tick of a playing element at some rate: a looping one starts again with a  *)
(* seek of its own, another one stops at the end.                               *)
Plays(pos, rate) == IF pos + rate < Duration THEN pos + rate ELSE 0
Ends(pos, rate, loop) == ~loop /\ pos + rate >= Duration

(* What the page's element sends in a tick: the heartbeat of a playing one, the *)
(* `seeked' of its loop, or `pause' and `ended' at its end.                     *)
Beat ==
  IF src.paused THEN <<>>
  ELSE IF Ends(src.pos, Base, src.loop)
       THEN LET s == [src EXCEPT !.pos = Duration, !.paused = TRUE]
            IN  <<Frame("pause", s), Frame("ended", s)>>
  ELSE <<Frame(IF Plays(src.pos, Base) = 0 THEN "seeked" ELSE "timeupdate",
               [src EXCEPT !.pos = Plays(src.pos, Base)])>>

Played ==
  IF Beat = <<>> THEN src ELSE [src EXCEPT !.pos = Beat[1].pos, !.paused = Beat[1].paused]

(* The mirror's own clock: it moves while it plays and has data, unless it is   *)
(* seeking or it buffers.                                                       *)
Moves == ~el.paused /\ el.ready /\ ~el.seeking /\ document = "loaded"
Mirrored ==
  IF ~Moves THEN el
  ELSE IF Ends(el.pos, el.rate, src.loop) THEN [el EXCEPT !.pos = Duration, !.paused = TRUE]
  ELSE [el EXCEPT !.pos = Plays(el.pos, el.rate)]

(* No frame is older than Latency, and a seek does not take a whole tick.       *)
OnTime == ~el.seeking /\ \A i \in 1 .. Len(wire) : wire[i].age < Latency

Tick ==
  /\ OnTime /\ Len(wire) + Len(Beat) <= MaxWire + 1
  /\ src' = Played
  /\ wire' = [i \in 1 .. Len(wire) |-> [wire[i] EXCEPT !.age = @ + 1]] \o Heard(Beat)
  /\ \/ el' = Mirrored /\ stalls' = stalls
     \/ Moves /\ stalls < MaxStalls /\ stalls' = stalls + 1 /\ el' = el
  /\ UNCHANGED <<tracking, document, baseline, autoplay, blocked, ops, snapshots>>

--------------------------------------------------------------------------------
(* reconcileMediaDrift.                                                         *)

Size(x) == IF x < 0 THEN -x ELSE x
Clamp(t) == IF t > Duration THEN Duration ELSE t

(* isLoopWrap: one of the two is near the end and the other near the start.     *)
LoopWrap(local, expected) ==
  LET window == IF HardSeek * 10 > Duration THEN HardSeek ELSE Duration \div 10
      nearEnd(t) == t >= Duration - window
      nearStart(t) == t <= window
  IN  /\ 2 * window < Duration
      /\ \/ nearEnd(local) /\ nearStart(expected)
         \/ nearStart(local) /\ nearEnd(expected)

(* A mirror behind the page speeds up, one ahead of it slows down.              *)
NudgedAway(drift) == [action |-> "nudge", rate |-> IF drift > 0 THEN Base - Nudge ELSE Base + Nudge]
Nudged(drift) == [action |-> "nudge", rate |-> IF drift > 0 THEN Base + Nudge ELSE Base - Nudge]

(* The decision for a playing source, by the latency-compensated position.      *)
Correction(expected) ==
  LET drift == expected - el.pos
  IN  IF (src.loop /\ LoopWrap(el.pos, expected)) \/ Size(drift) > HardSeek
      THEN [action |-> "seek", to |-> Clamp(expected)]
      ELSE IF Size(drift) <= HoldBand THEN [action |-> "hold", rate |-> Base]
      ELSE Nudged(drift)

Reconcile(m) ==
  IF m.event = "seeked" THEN [action |-> "seek", to |-> Clamp(m.pos)]
  ELSE IF m.paused THEN IF el.paused THEN [action |-> "hold", rate |-> el.rate] ELSE [action |-> "pause"]
  ELSE Correction(m.pos + Base * m.age)

--------------------------------------------------------------------------------
(* The viewer's driver.                                                         *)

(* ensurePlaying: play() of a paused element, which the browser may reject; a   *)
(* rejected one shows the play button.  After the end it starts again.          *)
EnsurePlaying(e) ==
  IF ~e.paused \/ ~autoplay THEN e
  ELSE [e EXCEPT !.paused = FALSE, !.pos = IF @ = Duration THEN 0 ELSE @]
Unnoticed(e) == blocked
Rejected(e) == blocked \/ (e.paused /\ ~autoplay)

(* currentTime can be set once there is metadata.                               *)
SeekTo(e, to) == IF e.ready THEN [e EXCEPT !.pos = to, !.seeking = TRUE] ELSE e

(* applyMediaAction: only a pause gets through while the element seeks.         *)
Drive(a) ==
  CASE a.action = "pause" -> [el EXCEPT !.paused = TRUE]
    [] el.seeking         -> el
    [] a.action = "seek"  -> EnsurePlaying(SeekTo(el, a.to))
    [] OTHER              -> EnsurePlaying([el EXCEPT !.rate = a.rate])

(* handleSnapshot: the index is cleared and a new document is written.          *)
HandleSnapshot(m) ==
  /\ document' = "loading" /\ baseline' = m
  /\ el' = Fresh /\ blocked' = FALSE

(* handleMedia: a frame for a nid of a document that has not loaded is dropped. *)
HandleMedia(m) ==
  /\ LET a == Reconcile(m)
     IN  IF document # "loaded" THEN UNCHANGED <<el, blocked>>
         ELSE /\ el' = Drive(a)
              /\ blocked' = IF a.action = "pause" \/ el.seeking THEN blocked ELSE Rejected(el)
  /\ UNCHANGED <<document, baseline>>

Deliver ==
  /\ wire # <<>>
  /\ wire' = Tail(wire)
  /\ IF wire[1].event = "snapshot" THEN HandleSnapshot(wire[1]) ELSE HandleMedia(wire[1])
  /\ UNCHANGED <<page, autoplay, stalls>>

(* The load of the mirror document, whose element may have metadata by then;    *)
(* applyMediaBaseline.                                                          *)
Load ==
  /\ document = "loading"
  /\ document' = "loaded"
  /\ \E ready \in BOOLEAN :
       LET e == [el EXCEPT !.ready = ready, !.pos = IF ready THEN baseline.pos ELSE @]
       IN  IF baseline.paused THEN el' = e /\ blocked' = blocked
           ELSE el' = EnsurePlaying(e) /\ blocked' = Rejected(e)
  /\ UNCHANGED <<page, wire, baseline, autoplay, stalls>>

Ready ==
  /\ document = "loaded" /\ ~el.ready
  /\ el' = [el EXCEPT !.ready = TRUE]
  /\ UNCHANGED <<page, wire, document, baseline, autoplay, blocked, stalls>>

Seeked ==
  /\ el.seeking
  /\ el' = [el EXCEPT !.seeking = FALSE]
  /\ UNCHANGED <<page, wire, document, baseline, autoplay, blocked, stalls>>

(* showBlockedPlayAffordance: a click on the button is a user gesture.          *)
Activate ==
  /\ blocked
  /\ blocked' = FALSE
  /\ el' = [el EXCEPT !.paused = FALSE]
  /\ UNCHANGED <<page, wire, document, baseline, autoplay, stalls>>

Next ==
  \/ PagePlays \/ PagePauses \/ PageSeeks \/ VolumeChanges \/ Snapshot
  \/ StopMediaTracker \/ StartMediaTracker
  \/ Tick \/ Deliver \/ Load \/ Ready \/ Seeked \/ Activate

Spec == Init /\ [][Next]_vars

(* Time passes, frames arrive, documents load and get data.  Nobody has to      *)
(* click or to resume the capture, and the page's player does what it likes.    *)
FairSpec ==
  Spec /\ WF_vars(Tick) /\ WF_vars(Deliver) /\ WF_vars(Load) /\ WF_vars(Ready) /\ WF_vars(Seeked)

--------------------------------------------------------------------------------
(* A mirror whose page keeps playing under a running capture ends up playing    *)
(* for good, or with the play button over it: the play event may have been      *)
(* dropped while the document loaded, or have come while the capture paused,    *)
(* and only the heartbeats repeat it (ensurePlaying, timeupdate).               *)
PlaysAlong == <>[](~src.paused /\ tracking) => <>[](~el.paused \/ blocked)

(* A mirror that plays along is brought near the page's position, whatever      *)
(* seeks, stalls, pauses and reloads came before, and stays near it: the nudges and the *)
(* hard seeks of reconcileMediaDrift converge, and neither the loop nor the     *)
(* latency of its frames throws the mirror off again.                           *)
Near == LET d == Size(src.pos - el.pos) IN d <= HoldBand + Base \/ d >= Duration - HoldBand - Base
Converges == <>[](~src.paused /\ tracking /\ ~el.paused) => <>[]Near
================================================================================
