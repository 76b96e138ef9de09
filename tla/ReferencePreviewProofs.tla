----------------------- MODULE ReferencePreviewProofs -----------------------
(***************************************************************************)
(* Proofs about ReferencePreview, for any bounds and any sessions of which *)
(* one is always unused (OneUnused); that one is, when the ids do not run  *)
(* out, is the first theorem: the code draws them from a clock and chance. *)
(*                                                                         *)
(* What keeps the timer of a loading preview, and its document, is a fact  *)
(* about the dashboard's record alone, which each handler is shown to keep *)
(* (Good); what travels says that a snapshot names a session (Message).    *)
(* What makes online real is the order of the relay's own messages: while  *)
(* no extension is in the room, the last word on its way to the dashboard, *)
(* or else the last one heard, is that it has gone (Offline).              *)
(***************************************************************************)
EXTENDS ReferencePreview, FiniteSetTheorems, SequenceTheorems, WellFoundedInduction, TLAPS

USE PreviewAssumption

Sess == Sessions \cup {None}
Previews == {"hidden", "loading", "streaming", "disconnected", "frozen-disconnect",
             "frozen-complete", "restricted", "paused", "error"}

DashRecord ==
  [ws : {"connecting", "open"}, toggle : BOOLEAN, hidden : BOOLEAN, preview : Previews,
   watch : BOOLEAN, notReady : BOOLEAN, latch : BOOLEAN, missed : BOOLEAN, active : Sess,
   doc : Sess, torn : BOOLEAN, loading : Sess, spoilt : {"no", "empty", "failed"},
   online : BOOLEAN, typed : BOOLEAN]

ExtRecord ==
  [up : BOOLEAN, ghost : BOOLEAN, intent : BOOLEAN, resolving : Int, reporting : Int,
   probing : [Commands -> Int], astray : Int, parked : BOOLEAN]

ContentRecord == [loaded : BOOLEAN, observing : BOOLEAN, session : Sess, left : BOOLEAN]

Message ==
  [type : {"status"}, online : BOOLEAN]
    \cup [type : {"state"}, status : {"recovering", "restricted", "closed"}]
    \cup [type : {"report"}, status : {"recovering", "ready", "not-ready"}]
    \cup [type : {"ready"}]
    \cup [type : {"snapshot"}, session : Sessions]
    \cup [type : {"mutations"}, session : Sess]

-----------------------------------------------------------------------------
(* The dashboard.  Waits is LoadingIsWatched of one record.                *)

Waits(d) ==
  d.preview = "loading" /\ d.toggle => d.watch \/ d.loading # None \/ d.typed

Base(d) ==
  /\ d \in DashRecord
  /\ d.ws # "open" => d.preview # "loading" /\ ~d.online
  /\ d.watch => ~d.notReady
  /\ d.loading # None => d.active = d.loading \/ d.spoilt = "failed"
  /\ d.preview = "streaming" /\ d.loading = None =>
       (d.doc = d.active /\ d.active # None) \/ d.spoilt = "failed"
  /\ d.torn => d.loading # None \/ d.spoilt = "failed"

Good(d) == Base(d) /\ Waits(d)

LEMMA ResultKeeps ==
  ASSUME NEW d, NEW out, Good(d)
  PROVE  LET r == Result(d, out) IN
         /\ Good(r.d) /\ r.out = out
         /\ r.d.ws = d.ws /\ (r.d.online <=> d.online)
<1> DEFINE e == [d EXCEPT !.typed = d.typed /\ d.preview = "loading" /\ ~d.watch]
<1>1. d \in DashRecord
  BY DEF Good, Base
<1>2. e \in DashRecord
  BY <1>1 DEF DashRecord
<1>3. /\ e.ws = d.ws /\ e.toggle = d.toggle /\ e.preview = d.preview /\ e.watch = d.watch
      /\ e.notReady = d.notReady /\ e.active = d.active /\ e.doc = d.doc /\ e.torn = d.torn
      /\ e.loading = d.loading /\ e.spoilt = d.spoilt /\ e.online = d.online
      /\ e.typed = (d.typed /\ d.preview = "loading" /\ ~d.watch)
  BY <1>1 DEF DashRecord
<1> HIDE DEF e
<1>4. Good(e)
  BY <1>2, <1>3 DEF Good, Base, Waits
<1>5. Result(d, out).d = e /\ Result(d, out).out = out
  BY DEF Result, e
<1> QED
  BY <1>3, <1>4, <1>5

(* A handler's outcome: what holds, and who is connected.                  *)
Kept(e, d) == Good(e) /\ e.ws = d.ws /\ (e.online <=> d.online)

LEMMA ResultOf ==
  ASSUME NEW e, NEW d, NEW out, Kept(e, d)
  PROVE  Kept(Result(e, out).d, d)
  BY ResultKeeps DEF Kept

LEMMA WatchKeeps ==
  ASSUME NEW d, Base(d), ~d.notReady
  PROVE  Kept(Watched(d), d) /\ Kept(Watch(d), d)
<1>1. d \in DashRecord
  BY DEF Base
<1>2. Kept(Watched(d), d)
  <2> DEFINE e == [d EXCEPT !.watch = d.toggle]
  <2>1. e \in DashRecord
    BY <1>1 DEF DashRecord
  <2>2. /\ e.ws = d.ws /\ e.toggle = d.toggle /\ e.preview = d.preview /\ e.watch = d.toggle
        /\ e.notReady = d.notReady /\ e.active = d.active /\ e.doc = d.doc /\ e.torn = d.torn
        /\ e.loading = d.loading /\ e.spoilt = d.spoilt /\ e.online = d.online /\ e.typed = d.typed
    BY <1>1 DEF DashRecord
  <2> HIDE DEF e
  <2>3. Kept(e, d)
    BY <2>1, <2>2 DEF Kept, Good, Base, Waits
  <2> QED
    BY <2>3 DEF Watched, e
<1>3. d.watch => Kept(d, d)
  BY DEF Kept, Good, Base, Waits
<1> QED
  BY <1>2, <1>3 DEF Watch

(* scheduleStreamRecovery also repairs a preview that loads unwatched.     *)
LEMMA ScheduleKeeps ==
  ASSUME NEW d, Base(d), d.ws = "open"
  PROVE  Kept(ScheduleStreamRecovery(d).d, d)
<1>1. d \in DashRecord
  BY DEF Base
<1>2. CASE d.preview = "frozen-complete" \/ ~d.toggle
  <2> DEFINE e == [d EXCEPT !.watch = FALSE]
  <2>1. e \in DashRecord
    BY <1>1 DEF DashRecord
  <2>2. /\ e.ws = d.ws /\ e.toggle = d.toggle /\ e.preview = d.preview /\ ~e.watch
        /\ e.notReady = d.notReady /\ e.active = d.active /\ e.doc = d.doc /\ e.torn = d.torn
        /\ e.loading = d.loading /\ e.spoilt = d.spoilt /\ e.online = d.online /\ e.typed = d.typed
    BY <1>1 DEF DashRecord
  <2> HIDE DEF e
  <2>3. Kept(e, d)
    BY <1>2, <2>1, <2>2 DEF Kept, Good, Base, Waits
  <2>4. ScheduleStreamRecovery(d) = Result(e, <<"request-status">>)
    BY <1>2 DEF ScheduleStreamRecovery, e
  <2> QED
    BY <2>3, <2>4, ResultOf
<1>3. CASE ~(d.preview = "frozen-complete" \/ ~d.toggle)
  <2> DEFINE e == [d EXCEPT !.notReady = FALSE, !.preview = "loading"]
  <2>1. e \in DashRecord
    BY <1>1 DEF DashRecord, Previews
  <2>2. /\ e.ws = d.ws /\ e.toggle = d.toggle /\ e.preview = "loading" /\ e.watch = d.watch
        /\ ~e.notReady /\ e.active = d.active /\ e.doc = d.doc /\ e.torn = d.torn
        /\ e.loading = d.loading /\ e.spoilt = d.spoilt /\ e.online = d.online /\ e.typed = d.typed
    BY <1>1 DEF DashRecord
  <2> HIDE DEF e
  <2>3. Base(e)
    BY <2>1, <2>2 DEF Base
  <2>4. Kept(Watched(e), d)
    BY <2>2, <2>3, WatchKeeps DEF Kept
  <2>5. ScheduleStreamRecovery(d) = Result(Watched(e), <<"request-status", "start">>)
    BY <1>3 DEF ScheduleStreamRecovery, e
  <2> QED
    BY <2>4, <2>5, ResultOf
<1> QED
  BY <1>2, <1>3

LEMMA ResyncKeeps ==
  ASSUME NEW d, Good(d), d.ws = "open"
  PROVE  Kept(RequestPreviewResync(d).d, d)
<1>1. d \in DashRecord
  BY DEF Good, Base
<1>2. CASE d.latch
  BY <1>2, ResultOf DEF RequestPreviewResync, Kept
<1>3. CASE ~d.latch
  <2> DEFINE e == [d EXCEPT !.latch = TRUE, !.notReady = FALSE, !.preview = "loading"]
  <2>1. e \in DashRecord
    BY <1>1 DEF DashRecord, Previews
  <2>2. /\ e.ws = d.ws /\ e.toggle = d.toggle /\ e.preview = "loading" /\ e.watch = d.watch
        /\ ~e.notReady /\ e.active = d.active /\ e.doc = d.doc /\ e.torn = d.torn
        /\ e.loading = d.loading /\ e.spoilt = d.spoilt /\ e.online = d.online /\ e.typed = d.typed
    BY <1>1 DEF DashRecord
  <2> HIDE DEF e
  <2>3. Base(e)
    BY <2>1, <2>2 DEF Good, Base
  <2>4. Kept(Watch(e), d)
    BY <2>2, <2>3, WatchKeeps DEF Kept
  <2>5. RequestPreviewResync(d) = Result(Watch(e), <<"request-status", "start">>)
    BY <1>3 DEF RequestPreviewResync, e
  <2> QED
    BY <2>4, <2>5, ResultOf
<1> QED
  BY <1>2, <1>3

LEMMA StatusKeeps ==
  ASSUME NEW d, Good(d), d.ws = "open", NEW b \in BOOLEAN
  PROVE  LET e == OnStatus(d, b).d IN Good(e) /\ e.ws = d.ws /\ (e.online <=> b)
<1> DEFINE e == [d EXCEPT !.online = b]
<1>1. d \in DashRecord
  BY DEF Good, Base
<1>2. e \in DashRecord
  BY <1>1 DEF DashRecord
<1>3. /\ e.ws = d.ws /\ e.toggle = d.toggle /\ e.preview = d.preview /\ e.watch = d.watch
      /\ e.notReady = d.notReady /\ e.active = d.active /\ e.doc = d.doc /\ e.torn = d.torn
      /\ e.loading = d.loading /\ e.spoilt = d.spoilt /\ e.online = b /\ e.typed = d.typed
  BY <1>1 DEF DashRecord
<1>4. OnStatus(d, b) = IF b /\ ~d.online THEN ScheduleStreamRecovery(e) ELSE Result(e, <<>>)
  BY DEF OnStatus
<1> HIDE DEF e
<1>5. Good(e)
  BY <1>2, <1>3 DEF Good, Base, Waits
<1>6. Kept(ScheduleStreamRecovery(e).d, e)
  BY <1>3, <1>5, ScheduleKeeps DEF Good
<1>7. Kept(Result(e, <<>>).d, e)
  BY <1>5, ResultOf DEF Kept
<1> QED
  BY <1>3, <1>4, <1>6, <1>7 DEF Kept

LEMMA LoadKeeps ==
  ASSUME NEW d, Good(d), d.ws = "open", ~d.notReady
  PROVE  Kept(Watch(Load(d)), d)
<1>1. d \in DashRecord
  BY DEF Good, Base
<1>2. CASE d.preview = "streaming"
  BY <1>2, WatchKeeps DEF Load, Good
<1>3. CASE d.preview # "streaming"
  <2> DEFINE e == [d EXCEPT !.preview = "loading"]
  <2>1. e \in DashRecord
    BY <1>1 DEF DashRecord, Previews
  <2>2. /\ e.ws = d.ws /\ e.toggle = d.toggle /\ e.preview = "loading" /\ e.watch = d.watch
        /\ ~e.notReady /\ e.active = d.active /\ e.doc = d.doc /\ e.torn = d.torn
        /\ e.loading = d.loading /\ e.spoilt = d.spoilt /\ e.online = d.online /\ e.typed = d.typed
    BY <1>1 DEF DashRecord
  <2> HIDE DEF e
  <2>3. Base(e)
    BY <2>1, <2>2 DEF Good, Base
  <2>4. Kept(Watch(e), d)
    BY <2>2, <2>3, WatchKeeps DEF Kept
  <2>5. Load(d) = e
    BY <1>3 DEF Load, e
  <2> QED
    BY <2>4, <2>5
<1> QED
  BY <1>2, <1>3

LEMMA PageReadyKeeps ==
  ASSUME NEW d, Good(d), d.ws = "open"
  PROVE  Kept(OnPageReady(d).d, d)
<1> DEFINE e == [d EXCEPT !.notReady = FALSE]
<1>1. d \in DashRecord
  BY DEF Good, Base
<1>2. e \in DashRecord
  BY <1>1 DEF DashRecord
<1>3. /\ e.ws = d.ws /\ e.toggle = d.toggle /\ e.preview = d.preview /\ e.watch = d.watch
      /\ ~e.notReady /\ e.active = d.active /\ e.doc = d.doc /\ e.torn = d.torn
      /\ e.loading = d.loading /\ e.spoilt = d.spoilt /\ e.online = d.online /\ e.typed = d.typed
  BY <1>1 DEF DashRecord
<1>4. OnPageReady(d) = IF d.toggle THEN Result(Watch(Load(e)), <<"start">>) ELSE Result(e, <<>>)
  BY DEF OnPageReady
<1> HIDE DEF e
<1>5. Good(e)
  BY <1>2, <1>3 DEF Good, Base, Waits
<1>6. Kept(Watch(Load(e)), e)
  BY <1>3, <1>5, LoadKeeps
<1> QED
  BY <1>3, <1>4, <1>5, <1>6, ResultOf DEF Kept

LEMMA RecoveredKeeps ==
  ASSUME NEW d, Good(d), d.ws = "open", NEW status \in {"recovering", "restricted", "closed"}
  PROVE  Kept(HandleRecoveredStreamState(d, status).d, d)
<1> DEFINE gone == status \in {"restricted", "closed"}
           e == [d EXCEPT !.notReady = gone]
           shown == IF status = "restricted" THEN "restricted" ELSE "disconnected"
           f == [e EXCEPT !.latch = FALSE, !.watch = FALSE, !.preview = shown]
           g == [e EXCEPT !.watch = FALSE]
<1>1. d \in DashRecord
  BY DEF Good, Base
<1>2. e \in DashRecord
  <2>1. gone \in BOOLEAN
    OBVIOUS
  <2> HIDE DEF gone
  <2> QED
    BY <1>1, <2>1 DEF DashRecord
<1>3. /\ e.ws = d.ws /\ e.toggle = d.toggle /\ e.preview = d.preview /\ e.watch = d.watch
      /\ (e.notReady <=> gone) /\ e.active = d.active /\ e.doc = d.doc /\ e.torn = d.torn
      /\ e.loading = d.loading /\ e.spoilt = d.spoilt /\ e.online = d.online /\ e.typed = d.typed
  BY <1>1 DEF DashRecord
<1>4. HandleRecoveredStreamState(d, status) =
        IF gone THEN Result(f, <<>>)
        ELSE IF d.toggle THEN Result(Watch(Load(e)), <<>>) ELSE Result(g, <<>>)
  BY DEF HandleRecoveredStreamState
<1> HIDE DEF e
<1>5. f \in DashRecord /\ g \in DashRecord
  BY <1>2 DEF DashRecord, Previews
<1>6. /\ f.ws = e.ws /\ f.toggle = e.toggle /\ f.preview = shown /\ ~f.watch
      /\ f.active = e.active /\ f.doc = e.doc /\ f.torn = e.torn
      /\ f.loading = e.loading /\ f.spoilt = e.spoilt /\ f.online = e.online /\ f.typed = e.typed
  BY <1>2 DEF DashRecord
<1>7. /\ g.ws = e.ws /\ g.toggle = e.toggle /\ g.preview = e.preview /\ ~g.watch
      /\ g.active = e.active /\ g.doc = e.doc /\ g.torn = e.torn
      /\ g.loading = e.loading /\ g.spoilt = e.spoilt /\ g.online = e.online /\ g.typed = e.typed
  BY <1>2 DEF DashRecord
<1> HIDE DEF f, g
<1>8. CASE gone
  <2>1. Kept(f, d)
    BY <1>3, <1>5, <1>6 DEF Kept, Good, Base, Waits
  <2> QED
    BY <1>4, <1>8, <2>1, ResultOf
<1>9. CASE ~gone /\ d.toggle
  <2>1. Good(e) /\ ~e.notReady
    BY <1>2, <1>3, <1>9 DEF Good, Base, Waits
  <2>2. Kept(Watch(Load(e)), d)
    BY <1>3, <2>1, LoadKeeps DEF Kept
  <2> QED
    BY <1>4, <1>9, <2>2, ResultOf
<1>10. CASE ~gone /\ ~d.toggle
  <2>1. Kept(g, d)
    BY <1>3, <1>5, <1>7, <1>10 DEF Kept, Good, Base, Waits
  <2> QED
    BY <1>4, <1>10, <2>1, ResultOf
<1> QED
  BY <1>8, <1>9, <1>10

LEMMA ReportKeeps ==
  ASSUME NEW d, Good(d), d.ws = "open", NEW status \in {"recovering", "ready", "not-ready"}
  PROVE  LET r == OnReport(d, status).d IN Good(r) /\ r.ws = d.ws
<1> DEFINE e == [d EXCEPT !.online = TRUE, !.notReady = (status = "not-ready")]
           shown == IF ~d.toggle THEN "paused" ELSE "disconnected"
           f == [e EXCEPT !.watch = FALSE, !.preview = shown]
           g == [e EXCEPT !.preview = "loading"]
<1>1. d \in DashRecord
  BY DEF Good, Base
<1>2. e \in DashRecord
  BY <1>1 DEF DashRecord
<1>3. /\ e.ws = d.ws /\ e.toggle = d.toggle /\ e.preview = d.preview /\ e.watch = d.watch
      /\ (e.notReady <=> status = "not-ready") /\ e.active = d.active /\ e.doc = d.doc
      /\ e.torn = d.torn /\ e.loading = d.loading /\ e.spoilt = d.spoilt /\ e.typed = d.typed
  BY <1>1 DEF DashRecord
<1>4. OnReport(d, status) =
        IF ~d.toggle \/ status = "not-ready" THEN Result(f, <<>>)
        ELSE IF status = "ready" THEN Result(e, <<>>) ELSE Result(Watch(g), <<>>)
  BY DEF OnReport
<1> HIDE DEF e
<1>5. f \in DashRecord /\ g \in DashRecord
  BY <1>2 DEF DashRecord, Previews
<1>6. /\ f.ws = e.ws /\ f.toggle = e.toggle /\ f.preview = shown /\ ~f.watch
      /\ f.active = e.active /\ f.doc = e.doc /\ f.torn = e.torn /\ f.loading = e.loading
      /\ f.spoilt = e.spoilt
  BY <1>2 DEF DashRecord
<1>7. /\ g.ws = e.ws /\ g.preview = "loading" /\ g.notReady = e.notReady
      /\ g.active = e.active /\ g.doc = e.doc /\ g.torn = e.torn /\ g.loading = e.loading
      /\ g.spoilt = e.spoilt
  BY <1>2 DEF DashRecord
<1> HIDE DEF f, g
<1>8. CASE ~d.toggle \/ status = "not-ready"
  <2>1. Kept(f, f) /\ f.ws = d.ws
    BY <1>3, <1>5, <1>6 DEF Kept, Good, Base, Waits
  <2> QED
    BY <1>4, <1>8, <2>1, ResultOf DEF Kept
<1>9. CASE d.toggle /\ status = "ready"
  <2>1. Kept(e, e)
    BY <1>2, <1>3, <1>9 DEF Kept, Good, Base, Waits
  <2> QED
    BY <1>3, <1>4, <1>9, <2>1, ResultOf DEF Kept
<1>10. CASE d.toggle /\ status = "recovering"
  <2>1. Base(g) /\ ~g.notReady
    BY <1>3, <1>5, <1>7, <1>10 DEF Good, Base
  <2>2. Kept(Watch(g), g)
    BY <2>1, WatchKeeps
  <2> QED
    BY <1>3, <1>4, <1>7, <1>10, <2>2, ResultOf DEF Kept
<1> QED
  BY <1>8, <1>9, <1>10

LEMMA AdoptedFields ==
  ASSUME NEW d \in DashRecord, NEW t \in Sessions
  PROVE  LET e == Adopted(d, t) IN
         /\ e \in DashRecord /\ e.ws = d.ws /\ e.preview = d.preview /\ ~e.watch
         /\ e.active = t /\ e.loading = d.loading /\ e.online = d.online
  BY DEF Adopted, DashRecord, Sess

LEMMA SnapshotKeeps ==
  ASSUME NEW d, Good(d), NEW t \in Sessions
  PROVE  Kept(HandleDOMSnapshot(d, t).d, d)
<1> DEFINE a == Adopted(d, t)
           e == [a EXCEPT !.loading = t, !.spoilt = "no"]
<1>1. d \in DashRecord /\ t \in Sess /\ t # None
  BY DEF Good, Base, Sess
<1>2. /\ a \in DashRecord /\ a.ws = d.ws /\ a.preview = d.preview /\ ~a.watch
      /\ a.active = t /\ a.online = d.online
  BY <1>1, AdoptedFields
<1>3. HandleDOMSnapshot(d, t) = Result(e, <<>>)
  BY DEF HandleDOMSnapshot
<1> HIDE DEF a
<1>4. /\ e \in DashRecord /\ e.ws = d.ws /\ e.preview = d.preview /\ ~e.watch
      /\ e.active = t /\ e.loading = t /\ e.online = d.online
  BY <1>1, <1>2 DEF DashRecord
<1> HIDE DEF e
<1>5. Kept(e, d)
  BY <1>1, <1>4 DEF Kept, Good, Base, Waits
<1> QED
  BY <1>3, <1>5, ResultOf

(* A snapshot that is not shown: its error is no "loading".                *)
LEMMA InvalidKeeps ==
  ASSUME NEW d, Good(d)
  PROVE  Kept(SnapshotInvalid(d).d, d)
<1> DEFINE v == IF d.spoilt = "no" THEN "empty" ELSE d.spoilt
           e == [d EXCEPT !.preview = "error", !.spoilt = v]
<1>1. d \in DashRecord
  BY DEF Good, Base
<1>2. v \in {"no", "empty", "failed"} /\ (d.spoilt = "failed" => v = "failed")
  BY <1>1 DEF DashRecord
<1>3. SnapshotInvalid(d) = Result(e, <<>>)
  BY DEF SnapshotInvalid
<1> HIDE DEF v
<1>4. e \in DashRecord
  BY <1>1, <1>2 DEF DashRecord, Previews
<1>5. /\ e.ws = d.ws /\ e.preview = "error" /\ e.watch = d.watch /\ e.notReady = d.notReady
      /\ e.active = d.active /\ e.doc = d.doc /\ e.torn = d.torn /\ e.loading = d.loading
      /\ e.spoilt = v /\ e.online = d.online
  BY <1>1 DEF DashRecord
<1> HIDE DEF e
<1>6. Kept(e, d)
  BY <1>2, <1>4, <1>5 DEF Kept, Good, Base, Waits
<1> QED
  BY <1>3, <1>6, ResultOf

LEMMA ThrowsKeeps ==
  ASSUME NEW d, Good(d), NEW t \in Sessions
  PROVE  Kept(SnapshotThrows(d, t).d, d)
<1> DEFINE a == Adopted(d, t)
           e == [a EXCEPT !.preview = "error", !.spoilt = "failed"]
<1>1. d \in DashRecord
  BY DEF Good, Base
<1>2. /\ a \in DashRecord /\ a.ws = d.ws /\ ~a.watch /\ a.online = d.online
  BY <1>1, AdoptedFields
<1>3. SnapshotThrows(d, t) = Result(e, <<>>)
  BY DEF SnapshotThrows
<1> HIDE DEF a
<1>4. /\ e \in DashRecord /\ e.ws = d.ws /\ e.preview = "error" /\ ~e.watch
      /\ e.spoilt = "failed" /\ e.online = d.online
  BY <1>2 DEF DashRecord, Previews
<1> HIDE DEF e
<1>5. Kept(e, d)
  BY <1>4 DEF Kept, Good, Base, Waits, Previews
<1>6. QED
  BY <1>3, <1>5, ResultOf

(* What the identity check lets through is the document's own, unless      *)
(* another document is on its way.                                         *)
LEMMA AppliedKeeps ==
  ASSUME NEW d, Good(d), NEW t \in Sess, ShouldAccept(d, t)
  PROVE  Kept(Applied(d, t), d)
<1>1. d \in DashRecord
  BY DEF Good, Base
<1> DEFINE e == [d EXCEPT !.missed = TRUE]
           f == [d EXCEPT !.missed = TRUE, !.torn = TRUE]
<1>2. e \in DashRecord /\ f \in DashRecord
  BY <1>1 DEF DashRecord
<1>3. /\ e.ws = d.ws /\ e.toggle = d.toggle /\ e.preview = d.preview /\ e.watch = d.watch
      /\ e.notReady = d.notReady /\ e.active = d.active /\ e.doc = d.doc /\ e.torn = d.torn
      /\ e.loading = d.loading /\ e.spoilt = d.spoilt /\ e.online = d.online /\ e.typed = d.typed
  BY <1>1 DEF DashRecord
<1>4. /\ f.ws = d.ws /\ f.toggle = d.toggle /\ f.preview = d.preview /\ f.watch = d.watch
      /\ f.notReady = d.notReady /\ f.active = d.active /\ f.doc = d.doc
      /\ f.loading = d.loading /\ f.spoilt = d.spoilt /\ f.online = d.online /\ f.typed = d.typed
  BY <1>1 DEF DashRecord
<1>5. Applied(d, t) = IF d.preview # "streaming" THEN e ELSE IF d.doc = t THEN d ELSE f
  BY DEF Applied
<1> HIDE DEF e, f
<1>6. Kept(e, d)
  BY <1>2, <1>3 DEF Kept, Good, Base, Waits
<1>7. Kept(d, d)
  BY DEF Kept
<1>8. d.preview = "streaming" /\ d.doc # t => Kept(f, d)
  <2> SUFFICES ASSUME d.preview = "streaming", d.doc # t PROVE Kept(f, d)
    OBVIOUS
  <2>1. d.loading # None \/ d.spoilt = "failed"
    BY DEF Good, Base, ShouldAccept
  <2> QED
    BY <1>2, <1>4, <2>1 DEF Kept, Good, Base, Waits
<1> QED
  BY <1>5, <1>6, <1>7, <1>8

-----------------------------------------------------------------------------
(* Counting.  The library states induction over the natural numbers for an *)
(* operator; here it is for a set, from the well-founded order.            *)

LEMMA LeastElement ==
  ASSUME NEW T \in SUBSET Nat, T # {}
  PROVE  \E x \in T : \A y \in T : x <= y
<1>1. \E R : /\ IsWellFoundedOn(R, Nat)
             /\ \A x \in Nat, y \in Nat : y < x => <<y, x>> \in R
  <2>1. \A x \in Nat, y \in Nat : y < x => <<y, x>> \in OpToRel(<, Nat)
    BY DEF OpToRel
  <2> QED
    BY <2>1, NatLessThanWellFounded, Zenon
<1>2. PICK R : /\ IsWellFoundedOn(R, Nat)
               /\ \A x \in Nat, y \in Nat : y < x => <<y, x>> \in R
  BY <1>1, Zenon
<1>3. PICK x \in T : \A y \in T : ~ (<<y, x>> \in R)
  BY <1>2, WFMin, Zenon
<1>4. ASSUME NEW y \in T PROVE x <= y
  <2>1. x \in Nat /\ y \in Nat
    OBVIOUS
  <2>2. ~ (y < x)
    BY <1>2, <1>3, <2>1
  <2> QED
    BY <2>1, <2>2
<1> QED
  BY <1>4

LEMMA Induction ==
  ASSUME NEW T \in SUBSET Nat, 0 \in T, \A i \in T : i + 1 \in T
  PROVE  T = Nat
<1> SUFFICES ASSUME Nat \ T # {} PROVE FALSE
  OBVIOUS
<1>1. PICK x \in Nat \ T : \A y \in Nat \ T : x <= y
  BY LeastElement
<1>2. x - 1 \in Nat /\ x - 1 \notin Nat \ T
  BY <1>1
<1> QED
  BY <1>1, <1>2

(* The recursive function of OwnMessages exists, so that it is what it     *)
(* says.                                                                   *)
Filters(f, msgs, k) ==
  f = [n \in 0 .. k |-> IF n = 0 THEN <<>>
                        ELSE IF msgs[n].type = "status" THEN Append(f[n - 1], msgs[n]) ELSE f[n - 1]]

LEMMA OwnFilters ==
  ASSUME NEW msgs \in Seq(Message)
  PROVE  \E f : Filters(f, msgs, Len(msgs)) /\ OwnMessages(msgs) = f[Len(msgs)]
<1> DEFINE T == {k \in Nat : \E f : Filters(f, msgs, k)}
<1>1. 0 \in T
  <2>1. Filters([n \in 0 .. 0 |-> <<>>], msgs, 0)
    BY DEF Filters
  <2> QED
    BY <2>1
<1>2. ASSUME NEW k \in T PROVE k + 1 \in T
  <2>1. PICK g : Filters(g, msgs, k)
    OBVIOUS
  <2> DEFINE next == IF msgs[k + 1].type = "status" THEN Append(g[k], msgs[k + 1]) ELSE g[k]
             h == [n \in 0 .. k + 1 |-> IF n = k + 1 THEN next ELSE g[n]]
  <2>2. /\ k \in Nat
        /\ \A n \in 0 .. k + 1 : h[n] = IF n = k + 1 THEN next ELSE g[n]
        /\ \A n \in 0 .. k : g[n] = IF n = 0 THEN <<>>
                                    ELSE IF msgs[n].type = "status" THEN Append(g[n - 1], msgs[n])
                                    ELSE g[n - 1]
    BY <2>1 DEF Filters
  <2>3. h = [n \in 0 .. k + 1 |-> h[n]]
    OBVIOUS
  <2> HIDE DEF h
  <2>4. ASSUME NEW n \in 0 .. k + 1
        PROVE  h[n] = IF n = 0 THEN <<>>
                      ELSE IF msgs[n].type = "status" THEN Append(h[n - 1], msgs[n]) ELSE h[n - 1]
    <3>1. CASE n = 0
      BY <2>2, <3>1
    <3>2. CASE n \in 1 .. k
      <4>1. h[n] = g[n] /\ n - 1 \in 0 .. k /\ h[n - 1] = g[n - 1]
        BY <2>2, <3>2
      <4> QED
        BY <2>2, <3>2, <4>1
    <3>3. CASE n = k + 1
      <4>1. h[n - 1] = g[k]
        BY <2>2, <3>3
      <4> QED
        BY <2>2, <3>3, <4>1
    <3> QED
      BY <2>2, <3>1, <3>2, <3>3
  <2>5. Filters(h, msgs, k + 1)
    BY <2>3, <2>4 DEF Filters
  <2> QED
    BY <2>2, <2>5
<1>3. T = Nat
  <2>1. T \in SUBSET Nat
    OBVIOUS
  <2> HIDE DEF T
  <2> QED
    BY <1>1, <1>2, <2>1, Induction
<1>4. \E f : Filters(f, msgs, Len(msgs))
  BY <1>3, LenProperties
<1> QED
  BY <1>4, Zenon DEF OwnMessages, Filters

LEMMA OwnTyped ==
  ASSUME NEW msgs \in Seq(Message)
  PROVE  OwnMessages(msgs) \in Seq(Message) /\ (msgs = <<>> => OwnMessages(msgs) = <<>>)
<1>1. PICK f : Filters(f, msgs, Len(msgs)) /\ OwnMessages(msgs) = f[Len(msgs)]
  BY OwnFilters
<1>2. /\ Len(msgs) \in Nat /\ f[0] = <<>>
      /\ \A n \in 0 .. Len(msgs) : f[n] = IF n = 0 THEN <<>>
                                    ELSE IF msgs[n].type = "status" THEN Append(f[n - 1], msgs[n])
                                    ELSE f[n - 1]
  <2> DEFINE k == Len(msgs)
  <2>1. k \in Nat /\ 0 \in 0 .. k
    BY LenProperties
  <2>2. f = [n \in 0 .. k |-> IF n = 0 THEN <<>>
                              ELSE IF msgs[n].type = "status" THEN Append(f[n - 1], msgs[n])
                              ELSE f[n - 1]]
    BY <1>1 DEF Filters
  <2> HIDE DEF k
  <2>3. \A n \in 0 .. k : f[n] = IF n = 0 THEN <<>>
                                 ELSE IF msgs[n].type = "status" THEN Append(f[n - 1], msgs[n])
                                 ELSE f[n - 1]
    BY <2>2, Zenon
  <2>4. f[0] = <<>>
    BY <2>1, <2>3
  <2> QED
    BY <2>1, <2>3, <2>4 DEF k
<1> DEFINE T == {k \in Nat : k <= Len(msgs) => f[k] \in Seq(Message)}
<1>3. 0 \in T
  BY <1>2, EmptySeq
<1>4. ASSUME NEW k \in T PROVE k + 1 \in T
  <2> SUFFICES ASSUME k + 1 <= Len(msgs) PROVE f[k + 1] \in Seq(Message)
    BY DEF T
  <2>1. k \in Nat /\ f[k] \in Seq(Message) /\ (k + 1) - 1 = k /\ k + 1 \in 0 .. Len(msgs)
    BY <1>2
  <2>2. msgs[k + 1] \in Message
    BY <1>2, <2>1
  <2>3. f[k + 1] = Append(f[k], msgs[k + 1]) \/ f[k + 1] = f[k]
    <3>1. /\ k + 1 # 0
          /\ f[k + 1] = IF k + 1 = 0 THEN <<>>
                        ELSE IF msgs[k + 1].type = "status" THEN Append(f[(k + 1) - 1], msgs[k + 1])
                        ELSE f[(k + 1) - 1]
      BY <1>2, <2>1
    <3> QED
      BY <2>1, <3>1
  <2>4. Append(f[k], msgs[k + 1]) \in Seq(Message)
    BY <2>1, <2>2, AppendProperties
  <2> QED
    BY <2>1, <2>3, <2>4
<1>5. T = Nat
  <2>1. T \in SUBSET Nat
    OBVIOUS
  <2> HIDE DEF T
  <2> QED
    BY <1>3, <1>4, <2>1, Induction
<1> QED
  BY <1>1, <1>2, <1>5

-----------------------------------------------------------------------------
(* Session ids.                                                            *)

(* One is always unused: a content script draws a new one for each stream. *)
OneUnused == Sessions \ InUse # {}

LEMMA FreshSession ==
  ASSUME OneUnused
  PROVE  Fresh \in Sessions
<1> DEFINE T == Sessions \ InUse
<1>1. T \in SUBSET Nat /\ T # {}
  BY DEF OneUnused
<1>2. \E s \in T : \A t \in T : s <= t
  <2> HIDE DEF T
  <2> QED
    BY <1>1, LeastElement
<1>3. \E s \in Sessions : s \notin InUse /\ \A t \in Sessions \ InUse : s <= t
  BY <1>2
<1> QED
  BY <1>3, Zenon DEF Fresh

-----------------------------------------------------------------------------
(* The dashboard's own steps.                                              *)

LEMMA LoadedKeeps ==
  ASSUME Good(dash), dash.loading # None
  PROVE  LET e == [dash EXCEPT !.doc = dash.loading, !.torn = FALSE, !.loading = None, !.preview = "streaming"]
         IN  Kept(Result(e, <<>>).d, dash)
<1> DEFINE e == [dash EXCEPT !.doc = dash.loading, !.torn = FALSE, !.loading = None, !.preview = "streaming"]
<1>1. dash \in DashRecord
  BY DEF Good, Base
<1>2. e \in DashRecord
  BY <1>1 DEF DashRecord, Previews, Sess
<1>3. /\ e.ws = dash.ws /\ e.toggle = dash.toggle /\ e.preview = "streaming"
      /\ e.watch = dash.watch /\ e.notReady = dash.notReady /\ e.active = dash.active
      /\ e.doc = dash.loading /\ ~e.torn /\ e.loading = None
      /\ e.spoilt = dash.spoilt /\ e.online = dash.online
      /\ e.typed = dash.typed
  BY <1>1 DEF DashRecord
<1> HIDE DEF e
<1>4. Kept(e, dash)
  BY <1>2, <1>3 DEF Kept, Good, Base, Waits
<1> QED
  BY <1>4, ResultOf DEF e

LEMMA FailedKeeps ==
  ASSUME Good(dash)
  PROVE  LET e == [dash EXCEPT !.loading = None, !.preview = "error", !.spoilt = "failed"]
         IN  Kept(Result(e, <<>>).d, dash)
<1> DEFINE e == [dash EXCEPT !.loading = None, !.preview = "error", !.spoilt = "failed"]
<1>1. dash \in DashRecord
  BY DEF Good, Base
<1>2. e \in DashRecord
  BY <1>1 DEF DashRecord, Previews, Sess
<1>3. /\ e.ws = dash.ws /\ e.preview = "error" /\ e.watch = dash.watch
      /\ e.notReady = dash.notReady /\ e.loading = None /\ e.spoilt = "failed"
      /\ e.online = dash.online
  BY <1>1 DEF DashRecord
<1> HIDE DEF e
<1>4. Kept(e, dash)
  BY <1>2, <1>3 DEF Kept, Good, Base, Waits
<1> QED
  BY <1>4, ResultOf DEF e

LEMMA FiredKeeps ==
  ASSUME Good(dash), dash.watch, dash.toggle /\ dash.preview # "streaming" /\ ~dash.notReady
  PROVE  LET e == [dash EXCEPT !.watch = FALSE, !.notReady = TRUE, !.preview = "disconnected"]
         IN  Kept(e, dash)
<1> DEFINE e == [dash EXCEPT !.watch = FALSE, !.notReady = TRUE, !.preview = "disconnected"]
<1>1. dash \in DashRecord
  BY DEF Good, Base
<1>2. e \in DashRecord
  BY <1>1 DEF DashRecord, Previews
<1>3. /\ e.ws = dash.ws /\ e.toggle = dash.toggle /\ e.preview = "disconnected" /\ ~e.watch
      /\ e.notReady /\ e.active = dash.active /\ e.doc = dash.doc /\ e.torn = dash.torn
      /\ e.loading = dash.loading
      /\ e.spoilt = dash.spoilt /\ e.online = dash.online /\ e.typed = dash.typed
  BY <1>1 DEF DashRecord
<1> HIDE DEF e
<1>4. Kept(e, dash)
  BY <1>2, <1>3 DEF Kept, Good, Base, Waits
<1> QED
  BY <1>4 DEF e

LEMMA FiredIdlyKeeps ==
  ASSUME Good(dash), dash.watch, ~(dash.toggle /\ dash.preview # "streaming" /\ ~dash.notReady)
  PROVE  LET e == [dash EXCEPT !.watch = FALSE] IN Kept(e, dash)
<1> DEFINE e == [dash EXCEPT !.watch = FALSE]
<1>1. dash \in DashRecord
  BY DEF Good, Base
<1>2. e \in DashRecord
  BY <1>1 DEF DashRecord, Previews
<1>3. /\ e.ws = dash.ws /\ e.toggle = dash.toggle /\ e.preview = dash.preview /\ ~e.watch
      /\ e.notReady = dash.notReady /\ e.active = dash.active /\ e.doc = dash.doc
      /\ e.torn = dash.torn /\ e.loading = dash.loading
      /\ e.spoilt = dash.spoilt /\ e.online = dash.online
      /\ e.typed = dash.typed
  BY <1>1 DEF DashRecord
<1> HIDE DEF e
<1>4. Kept(e, dash)
  BY <1>2, <1>3 DEF Kept, Good, Base, Waits
<1> QED
  BY <1>4 DEF e

LEMMA PausedKeeps ==
  ASSUME Good(dash)
  PROVE  LET e == [dash EXCEPT !.toggle = FALSE, !.watch = FALSE, !.preview = "paused"]
         IN  Kept(Result(e, <<>>).d, dash)
<1> DEFINE e == [dash EXCEPT !.toggle = FALSE, !.watch = FALSE, !.preview = "paused"]
<1>1. dash \in DashRecord
  BY DEF Good, Base
<1>2. e \in DashRecord
  BY <1>1 DEF DashRecord, Previews
<1>3. /\ e.ws = dash.ws /\ ~e.toggle /\ e.preview = "paused" /\ ~e.watch
      /\ e.notReady = dash.notReady /\ e.active = dash.active /\ e.doc = dash.doc
      /\ e.torn = dash.torn /\ e.loading = dash.loading
      /\ e.spoilt = dash.spoilt /\ e.online = dash.online
      /\ e.typed = dash.typed
  BY <1>1 DEF DashRecord
<1> HIDE DEF e
<1>4. Kept(e, dash)
  BY <1>2, <1>3 DEF Kept, Good, Base, Waits
<1> QED
  BY <1>4, ResultOf DEF e

LEMMA SwitchedOffKeeps ==
  ASSUME Good(dash)
  PROVE  LET e == [dash EXCEPT !.toggle = FALSE] IN Kept(e, dash)
<1> DEFINE e == [dash EXCEPT !.toggle = FALSE]
<1>1. dash \in DashRecord
  BY DEF Good, Base
<1>2. e \in DashRecord
  BY <1>1 DEF DashRecord, Previews
<1>3. /\ e.ws = dash.ws /\ ~e.toggle /\ e.preview = dash.preview /\ e.watch = dash.watch
      /\ e.notReady = dash.notReady /\ e.active = dash.active /\ e.doc = dash.doc
      /\ e.torn = dash.torn /\ e.loading = dash.loading
      /\ e.spoilt = dash.spoilt /\ e.online = dash.online
      /\ e.typed = dash.typed
  BY <1>1 DEF DashRecord
<1> HIDE DEF e
<1>4. Kept(e, dash)
  BY <1>2, <1>3 DEF Kept, Good, Base, Waits
<1> QED
  BY <1>4 DEF e

LEMMA SwitchedOnKeeps ==
  ASSUME Good(dash), dash.ws # "open"
  PROVE  LET e == [dash EXCEPT !.toggle = TRUE] IN Kept(e, dash)
<1> DEFINE e == [dash EXCEPT !.toggle = TRUE]
<1>1. dash \in DashRecord
  BY DEF Good, Base
<1>2. e \in DashRecord
  BY <1>1 DEF DashRecord, Previews
<1>3. /\ e.ws = dash.ws /\ e.toggle /\ e.preview = dash.preview /\ e.watch = dash.watch
      /\ e.notReady = dash.notReady /\ e.active = dash.active /\ e.doc = dash.doc
      /\ e.torn = dash.torn /\ e.loading = dash.loading
      /\ e.spoilt = dash.spoilt /\ e.online = dash.online
      /\ e.typed = dash.typed
  BY <1>1 DEF DashRecord
<1> HIDE DEF e
<1>4. Kept(e, dash)
  BY <1>2, <1>3 DEF Kept, Good, Base, Waits
<1> QED
  BY <1>4 DEF e

LEMMA ResumedKeeps ==
  ASSUME Good(dash), dash.ws = "open"
  PROVE  LET e == [dash EXCEPT !.toggle = TRUE] IN Kept(ScheduleStreamRecovery(e).d, dash)
<1> DEFINE e == [dash EXCEPT !.toggle = TRUE]
<1>1. dash \in DashRecord
  BY DEF Good, Base
<1>2. e \in DashRecord
  BY <1>1 DEF DashRecord
<1>3. /\ e.ws = dash.ws /\ e.preview = dash.preview /\ e.watch = dash.watch
      /\ e.notReady = dash.notReady /\ e.active = dash.active /\ e.doc = dash.doc
      /\ e.torn = dash.torn /\ e.loading = dash.loading
      /\ e.spoilt = dash.spoilt /\ e.online = dash.online
  BY <1>1 DEF DashRecord
<1> HIDE DEF e
<1>4. Base(e)
  BY <1>2, <1>3 DEF Good, Base
<1>5. Kept(ScheduleStreamRecovery(e).d, e)
  BY <1>3, <1>4, ScheduleKeeps
<1> QED
  BY <1>3, <1>5 DEF Kept, e

LEMMA HiddenKeeps ==
  ASSUME Good(dash), NEW b \in BOOLEAN
  PROVE  LET e == [dash EXCEPT !.hidden = b] IN Kept(e, dash)
<1> DEFINE e == [dash EXCEPT !.hidden = b]
<1>1. dash \in DashRecord
  BY DEF Good, Base
<1>2. e \in DashRecord
  BY <1>1 DEF DashRecord, Previews
<1>3. /\ e.ws = dash.ws /\ e.toggle = dash.toggle /\ e.preview = dash.preview
      /\ e.watch = dash.watch /\ e.notReady = dash.notReady /\ e.active = dash.active
      /\ e.doc = dash.doc /\ e.torn = dash.torn /\ e.loading = dash.loading
      /\ e.spoilt = dash.spoilt
      /\ e.online = dash.online /\ e.typed = dash.typed
  BY <1>1 DEF DashRecord
<1> HIDE DEF e
<1>4. Kept(e, dash)
  BY <1>2, <1>3 DEF Kept, Good, Base, Waits
<1> QED
  BY <1>4 DEF e

LEMMA TypedKeeps ==
  ASSUME Good(dash), dash.ws = "open", dash.preview \in {"restricted", "disconnected"}
  PROVE  LET e == [dash EXCEPT !.preview = "loading", !.typed = TRUE]
         IN  Kept(Result(e, <<>>).d, dash)
<1> DEFINE e == [dash EXCEPT !.preview = "loading", !.typed = TRUE]
<1>1. dash \in DashRecord
  BY DEF Good, Base
<1>2. e \in DashRecord
  BY <1>1 DEF DashRecord, Previews
<1>3. /\ e.ws = dash.ws /\ e.toggle = dash.toggle /\ e.preview = "loading" /\ e.watch = dash.watch
      /\ e.notReady = dash.notReady /\ e.active = dash.active /\ e.doc = dash.doc
      /\ e.torn = dash.torn /\ e.loading = dash.loading
      /\ e.spoilt = dash.spoilt /\ e.online = dash.online /\ e.typed
  BY <1>1 DEF DashRecord
<1> HIDE DEF e
<1>4. Kept(e, dash)
  BY <1>2, <1>3 DEF Kept, Good, Base, Waits
<1> QED
  BY <1>4, ResultOf DEF e

LEMMA FrozenKeeps ==
  ASSUME Good(dash)
  PROVE  LET e == [dash EXCEPT !.preview = "frozen-complete"] IN Kept(e, dash)
<1> DEFINE e == [dash EXCEPT !.preview = "frozen-complete"]
<1>1. dash \in DashRecord
  BY DEF Good, Base
<1>2. e \in DashRecord
  BY <1>1 DEF DashRecord, Previews
<1>3. /\ e.ws = dash.ws /\ e.toggle = dash.toggle /\ e.preview = "frozen-complete"
      /\ e.watch = dash.watch /\ e.notReady = dash.notReady /\ e.active = dash.active
      /\ e.doc = dash.doc /\ e.torn = dash.torn /\ e.loading = dash.loading
      /\ e.spoilt = dash.spoilt
      /\ e.online = dash.online /\ e.typed = dash.typed
  BY <1>1 DEF DashRecord
<1> HIDE DEF e
<1>4. Kept(e, dash)
  BY <1>2, <1>3 DEF Kept, Good, Base, Waits
<1> QED
  BY <1>4 DEF e

LEMMA OpenedKeeps ==
  ASSUME Good(dash), dash.ws = "connecting"
  PROVE  LET e == [dash EXCEPT !.ws = "open"] IN
         /\ Good(ScheduleStreamRecovery(e).d)
         /\ ScheduleStreamRecovery(e).d.ws = "open" /\ ~ScheduleStreamRecovery(e).d.online
<1> DEFINE e == [dash EXCEPT !.ws = "open"]
<1>1. dash \in DashRecord /\ dash.preview # "loading" /\ ~dash.online
  BY DEF Good, Base
<1>2. e \in DashRecord
  BY <1>1 DEF DashRecord
<1>3. /\ e.ws = "open" /\ e.preview = dash.preview /\ e.watch = dash.watch
      /\ e.notReady = dash.notReady /\ e.active = dash.active /\ e.doc = dash.doc
      /\ e.torn = dash.torn /\ e.loading = dash.loading /\ e.spoilt = dash.spoilt /\ ~e.online
  BY <1>1 DEF DashRecord
<1> HIDE DEF e
<1>4. Base(e)
  BY <1>2, <1>3 DEF Good, Base
<1>5. Kept(ScheduleStreamRecovery(e).d, e)
  BY <1>3, <1>4, ScheduleKeeps
<1> QED
  BY <1>3, <1>5 DEF Kept, e

LEMMA DroppedKeeps ==
  ASSUME Good(dash), NEW shown \in Previews,
         shown # "loading", shown # "streaming"
  PROVE  LET e == [dash EXCEPT !.ws = "connecting", !.online = FALSE, !.watch = FALSE, !.preview = shown]
             r == Result(e, <<>>).d
         IN  Good(r) /\ r.ws = "connecting" /\ ~r.online
<1> DEFINE e == [dash EXCEPT !.ws = "connecting", !.online = FALSE, !.watch = FALSE, !.preview = shown]
<1>1. dash \in DashRecord
  BY DEF Good, Base
<1>2. e \in DashRecord
  BY <1>1 DEF DashRecord
<1>3. /\ e.ws = "connecting" /\ e.preview = shown /\ ~e.watch
      /\ e.active = dash.active /\ e.doc = dash.doc
      /\ e.torn = dash.torn /\ e.loading = dash.loading /\ e.spoilt = dash.spoilt /\ ~e.online
  BY <1>1 DEF DashRecord
<1> HIDE DEF e
<1>4. Kept(e, e)
  BY <1>2, <1>3 DEF Kept, Good, Base, Waits
<1>5. Kept(Result(e, <<>>).d, e)
  BY <1>4, ResultOf
<1> QED
  BY <1>3, <1>5 DEF Kept, e

-----------------------------------------------------------------------------
(* The invariant.                                                          *)

Word(m) == m.type \in {"status", "report"}

(* What comes last to the dashboard says that the extension is gone.       *)
Offline(q, on) ==
  \/ \E i \in DOMAIN q : /\ q[i].type = "status" /\ ~q[i].online
                         /\ \A j \in DOMAIN q : j > i => ~Word(q[j])
  \/ ~on /\ \A i \in DOMAIN q : ~Word(q[i])

TypeOK ==
  /\ dash \in DashRecord /\ ext \in ExtRecord /\ content \in ContentRecord
  /\ tab \in {"page", "restricted", "closed"}
  /\ toDash \in Seq(Message)
  /\ excused \in BOOLEAN

Inv ==
  /\ TypeOK /\ Good(dash)
  /\ dash.ws # "open" => toDash = <<>>
  /\ ~ext.up /\ ~ext.ghost /\ ~excused => Offline(toDash, dash.online)

LEMMA OfflineHeard ==
  ASSUME NEW q \in Seq(Message), q # <<>>, NEW on \in BOOLEAN, NEW now \in BOOLEAN,
         Offline(q, on),
         Head(q).type = "status" => (now <=> Head(q).online),
         ~Word(Head(q)) => (now <=> on)
  PROVE  Offline(Tail(q), now)
<1>1. /\ Head(q) = q[1] /\ Len(q) \in Nat \ {0} /\ DOMAIN q = 1 .. Len(q)
      /\ DOMAIN Tail(q) = 1 .. Len(q) - 1
      /\ \A i \in 1 .. Len(q) - 1 : Tail(q)[i] = q[i + 1]
  OBVIOUS
<1>2. ASSUME NEW i \in DOMAIN q, q[i].type = "status", ~q[i].online,
             \A j \in DOMAIN q : j > i => ~Word(q[j]), i > 1
      PROVE  Offline(Tail(q), now)
  <2>1. i - 1 \in 1 .. Len(q) - 1 /\ (i - 1) + 1 = i
    BY <1>1, <1>2
  <2>2. Tail(q)[i - 1] = q[i]
    BY <1>1, <2>1
  <2>3. \A j \in 1 .. Len(q) - 1 : j > i - 1 => ~Word(Tail(q)[j])
    <3> SUFFICES ASSUME NEW j \in 1 .. Len(q) - 1, j > i - 1 PROVE ~Word(Tail(q)[j])
      OBVIOUS
    <3>1. j + 1 \in 1 .. Len(q) /\ j + 1 > i
      BY <1>1, <2>1
    <3> QED
      BY <1>1, <1>2, <3>1
  <2> QED
    BY <1>1, <1>2, <2>1, <2>2, <2>3 DEF Offline
<1>3. ASSUME q[1].type = "status", ~q[1].online, \A j \in DOMAIN q : j > 1 => ~Word(q[j])
      PROVE  Offline(Tail(q), now)
  <2>1. ~now
    BY <1>1, <1>3
  <2>2. \A j \in 1 .. Len(q) - 1 : ~Word(Tail(q)[j])
    <3> SUFFICES ASSUME NEW j \in 1 .. Len(q) - 1 PROVE ~Word(Tail(q)[j])
      OBVIOUS
    <3>1. j + 1 \in 1 .. Len(q) /\ j + 1 > 1
      BY <1>1
    <3> QED
      BY <1>1, <1>3, <3>1
  <2> QED
    BY <1>1, <2>1, <2>2 DEF Offline
<1>4. ASSUME ~on, \A i \in DOMAIN q : ~Word(q[i])
      PROVE  Offline(Tail(q), now)
  <2>1. ~Word(q[1])
    BY <1>1, <1>4
  <2>2. ~now
    BY <1>1, <1>4, <2>1
  <2>3. \A j \in 1 .. Len(q) - 1 : ~Word(Tail(q)[j])
    <3> SUFFICES ASSUME NEW j \in 1 .. Len(q) - 1 PROVE ~Word(Tail(q)[j])
      OBVIOUS
    <3>1. j + 1 \in 1 .. Len(q)
      BY <1>1
    <3> QED
      BY <1>1, <1>4, <3>1
  <2> QED
    BY <1>1, <2>2, <2>3 DEF Offline
<1>5. \/ \E i \in DOMAIN q : /\ q[i].type = "status" /\ ~q[i].online
                             /\ \A j \in DOMAIN q : j > i => ~Word(q[j])
      \/ ~on /\ \A i \in DOMAIN q : ~Word(q[i])
  BY Zenon DEF Offline
<1> QED
  <2>1. \A i \in DOMAIN q : i = 1 \/ i > 1
    BY <1>1
  <2> QED
    BY <1>2, <1>3, <1>4, <1>5, <2>1

(* The relay's last word.                                                  *)
LEMMA OfflineTold ==
  ASSUME NEW q \in Seq(Message), NEW on
  PROVE  Append(q, Status(FALSE)) \in Seq(Message) /\ Offline(Append(q, Status(FALSE)), on)
<1> DEFINE m == Status(FALSE)
           r == Append(q, m)
<1>1. m \in Message /\ m.type = "status" /\ ~m.online
  BY DEF Status, Message
<1> HIDE DEF m
<1>2. /\ r \in Seq(Message) /\ Len(q) \in Nat /\ DOMAIN r = 1 .. Len(q) + 1
      /\ r[Len(q) + 1] = m
  BY <1>1, AppendProperties
<1> HIDE DEF r
<1>3. Len(q) + 1 \in DOMAIN r /\ \A j \in DOMAIN r : ~(j > Len(q) + 1)
  BY <1>2
<1>4. Offline(r, on)
  BY <1>1, <1>2, <1>3 DEF Offline
<1> QED
  BY <1>2, <1>4 DEF r, m

-----------------------------------------------------------------------------
(* The steps.  First what most of them come to.                            *)

LEMMA DashStep ==
  ASSUME Inv, UNCHANGED <<ext, content, tab, toDash, excused>>, Kept(dash', dash)
  PROVE  Inv'
<1>1. Good(dash') /\ dash'.ws = dash.ws /\ (dash'.online <=> dash.online)
  BY DEF Kept
<1>2. TypeOK'
  BY <1>1 DEF Inv, TypeOK, Good, Base
<1>3. dash'.online = dash.online
  <2>1. dash.online \in BOOLEAN /\ dash'.online \in BOOLEAN
    BY <1>2 DEF Inv, TypeOK, DashRecord
  <2> QED
    BY <1>1, <2>1
<1> QED
  BY <1>1, <1>2, <1>3 DEF Inv

LEMMA HeardStep ==
  ASSUME Inv, UNCHANGED <<ext, content, tab, excused>>,
         toDash # <<>>, toDash' = Tail(toDash), Good(dash'), dash'.ws = dash.ws,
         Head(toDash).type = "status" => (dash'.online <=> Head(toDash).online),
         ~Word(Head(toDash)) => (dash'.online <=> dash.online)
  PROVE  Inv'
<1>1. toDash \in Seq(Message) /\ toDash' \in Seq(Message) /\ dash.ws = "open"
  BY DEF Inv, TypeOK
<1>2. dash.online \in BOOLEAN /\ dash' \in DashRecord /\ dash'.online \in BOOLEAN
  BY DEF Inv, TypeOK, Good, Base, DashRecord
<1>3. TypeOK'
  BY <1>1, <1>2 DEF Inv, TypeOK
<1>4. Offline(toDash, dash.online) => Offline(toDash', dash'.online)
  BY <1>1, <1>2, OfflineHeard
<1> QED
  BY <1>1, <1>3, <1>4 DEF Inv

LEMMA Relayed ==
  ASSUME Inv, NEW msgs \in Seq(Message)
  PROVE  /\ RelayToDash(msgs) \in Seq(Message) /\ FromExt(msgs) \in Seq(Message)
         /\ ~ext.up => FromExt(msgs) = toDash
         /\ dash.ws # "open" => RelayToDash(msgs) = <<>> /\ FromExt(msgs) = <<>>
<1>1. toDash \in Seq(Message) /\ toDash \o msgs \in Seq(Message)
  BY ConcatProperties DEF Inv, TypeOK
<1> QED
  BY <1>1 DEF RelayToDash, FromExt, Inv

LEMMA ExtStep ==
  ASSUME Inv, UNCHANGED dash,
         ext' \in ExtRecord, ext'.up <=> ext.up, ext'.ghost <=> ext.ghost,
         content' \in ContentRecord, tab' \in {"page", "restricted", "closed"},
         excused' \in BOOLEAN, excused => excused',
         toDash' = toDash \/ \E msgs \in Seq(Message) : toDash' = FromExt(msgs)
  PROVE  Inv'
<1>1. /\ toDash' \in Seq(Message)
      /\ ~ext.up => toDash' = toDash
      /\ dash.ws # "open" => toDash' = <<>>
  <2>1. CASE toDash' = toDash
    BY <2>1 DEF Inv, TypeOK
  <2>2. CASE \E msgs \in Seq(Message) : toDash' = FromExt(msgs)
    BY <2>2, Relayed
  <2> QED
    BY <2>1, <2>2
<1>2. TypeOK'
  BY <1>1 DEF Inv, TypeOK
<1> QED
  BY <1>1, <1>2 DEF Inv

-----------------------------------------------------------------------------
(* The dashboard's socket.                                                 *)

LEMMA DashOpensStep == Inv /\ DashOpens => Inv'
<1> SUFFICES ASSUME Inv, DashOpens PROVE Inv'
  OBVIOUS
<1>1. Good(dash') /\ dash'.ws = "open" /\ ~dash'.online
  BY OpenedKeeps DEF DashOpens, Take, Inv
<1>2. /\ UNCHANGED <<ext, content, tab, excused>>
      /\ toDash' = IF ext.up \/ ext.ghost THEN <<Status(TRUE)>> ELSE <<>>
  BY DEF DashOpens
<1>3. toDash' \in Seq(Message)
  <2> DEFINE m == Status(TRUE)
  <2>1. m \in Message
    BY DEF Status, Message
  <2> HIDE DEF m
  <2>2. <<m>> \in Seq(Message) /\ <<>> \in Seq(Message)
    BY <2>1
  <2> QED
    BY <1>2, <2>2 DEF m
<1>4. TypeOK'
  BY <1>1, <1>2, <1>3 DEF Inv, TypeOK, Good, Base
<1>5. ~(ext.up \/ ext.ghost) => Offline(toDash', dash'.online)
  BY <1>1, <1>2 DEF Offline
<1> QED
  BY <1>1, <1>2, <1>4, <1>5 DEF Inv

LEMMA DashDropsStep == Inv /\ DashDrops => Inv'
<1> SUFFICES ASSUME Inv, DashDrops PROVE Inv'
  OBVIOUS
<1> DEFINE shown == CASE dash.preview = "streaming" -> "frozen-disconnect"
                      [] dash.preview = "loading" -> "disconnected"
                      [] OTHER -> dash.preview
<1>1. shown \in Previews /\ shown # "loading" /\ shown # "streaming"
  <2>1. dash.preview \in Previews
    BY DEF Inv, TypeOK, DashRecord
  <2>2. CASE dash.preview \in {"streaming", "loading"}
    BY <2>2 DEF Previews
  <2>3. CASE dash.preview \notin {"streaming", "loading"}
    BY <2>1, <2>3
  <2> QED
    BY <2>2, <2>3
<1>2. dash' = Result([dash EXCEPT !.ws = "connecting", !.online = FALSE, !.watch = FALSE,
                                  !.preview = shown], <<>>).d
  BY DEF DashDrops
<1> HIDE DEF shown
<1>3. Good(dash') /\ dash'.ws = "connecting" /\ ~dash'.online
  BY <1>1, <1>2, DroppedKeeps DEF Inv
<1>4. UNCHANGED <<ext, content, tab, excused>> /\ toDash' = <<>> /\ toDash' \in Seq(Message)
  BY DEF DashDrops
<1>5. TypeOK'
  BY <1>3, <1>4 DEF Inv, TypeOK, Good, Base
<1>6. Offline(toDash', dash'.online)
  BY <1>3, <1>4 DEF Offline
<1> QED
  BY <1>3, <1>4, <1>5, <1>6 DEF Inv

(* What the dashboard hears.                                               *)
LEMMA HeadTyped ==
  ASSUME Inv, toDash # <<>>
  PROVE  Head(toDash) \in Message /\ dash.ws = "open" /\ Good(dash)
  BY DEF Inv, TypeOK

LEMMA HandleStep == Inv /\ Handle => Inv'
<1> SUFFICES ASSUME Inv, Handle PROVE Inv'
  OBVIOUS
<1> DEFINE m == Head(toDash)
<1>1. /\ toDash # <<>> /\ toDash' = Tail(toDash)
      /\ UNCHANGED <<ext, content, tab, excused>>
  BY DEF Handle, Hear, HandleStatus, HandleState, HandleReport, HandlePageReady,
         HandleSnapshot, HandleMutations
<1>2. m \in Message /\ dash.ws = "open" /\ Good(dash)
  BY <1>1, HeadTyped
<1>3. CASE HandleStatus
  <2>1. m.type = "status" /\ dash' = OnStatus(dash, m.online).d
    BY <1>3 DEF HandleStatus, Hear, Take
  <2>2. m.online \in BOOLEAN
    BY <1>2, <2>1 DEF Message
  <2>3. Good(dash') /\ dash'.ws = dash.ws /\ (dash'.online <=> m.online)
    BY <1>2, <2>1, <2>2, StatusKeeps
  <2> QED
    BY <1>1, <2>1, <2>3, HeardStep DEF Word
<1>4. CASE HandleReport
  <2>1. m.type = "report" /\ dash' = OnReport(dash, m.status).d
    BY <1>4 DEF HandleReport, Hear, Take
  <2>2. m.status \in {"recovering", "ready", "not-ready"}
    BY <1>2, <2>1 DEF Message
  <2>3. Good(dash') /\ dash'.ws = dash.ws
    BY <1>2, <2>1, <2>2, ReportKeeps
  <2> QED
    BY <1>1, <2>1, <2>3, HeardStep DEF Word
<1>5. ASSUME m.type \notin {"status", "report"}, Kept(dash', dash) PROVE Inv'
  BY <1>1, <1>5, HeardStep DEF Kept, Word
<1>6. CASE HandleState
  <2>1. m.type = "state" /\ dash' = HandleRecoveredStreamState(dash, m.status).d
    BY <1>6 DEF HandleState, Hear, Take
  <2>2. m.status \in {"recovering", "restricted", "closed"}
    BY <1>2, <2>1 DEF Message
  <2> QED
    BY <1>2, <1>5, <2>1, <2>2, RecoveredKeeps
<1>7. CASE HandlePageReady
  <2>1. m.type = "ready" /\ dash' = OnPageReady(dash).d
    BY <1>7 DEF HandlePageReady, Hear, Take
  <2> QED
    BY <1>2, <1>5, <2>1, PageReadyKeeps
<1>8. CASE HandleSnapshot
  <2>1. /\ m.type = "snapshot"
        /\ \/ dash' = HandleDOMSnapshot(dash, m.session).d
           \/ dash' = SnapshotInvalid(dash).d
           \/ dash' = SnapshotThrows(dash, m.session).d
    BY <1>8 DEF HandleSnapshot, Hear, Take
  <2>2. m.session \in Sessions
    BY <1>2, <2>1 DEF Message
  <2> QED
    BY <1>2, <1>5, <2>1, <2>2, SnapshotKeeps, InvalidKeeps, ThrowsKeeps
<1>9. CASE HandleMutations
  <2> DEFINE t == m.session
             d == IF ShouldAccept(dash, t) THEN Applied(dash, t) ELSE dash
  <2>1. /\ m.type = "mutations"
        /\ dash' = d \/ (ShouldAccept(dash, t) /\ dash' = RequestPreviewResync(d).d)
    BY <1>9 DEF HandleMutations, Hear, Take
  <2>2. t \in Sess
    BY <1>2, <2>1 DEF Message
  <2>3. Kept(d, dash)
    <3>1. CASE ShouldAccept(dash, t)
      BY <1>2, <2>2, <3>1, AppliedKeeps
    <3>2. CASE ~ShouldAccept(dash, t)
      BY <1>2, <3>2 DEF Kept
    <3> QED
      BY <3>1, <3>2
  <2> HIDE DEF d
  <2>4. Kept(RequestPreviewResync(d).d, dash)
    BY <1>2, <2>3, ResyncKeeps DEF Kept
  <2> QED
    BY <1>5, <2>1, <2>3, <2>4
<1> QED
  BY <1>3, <1>4, <1>6, <1>7, <1>8, <1>9 DEF Handle

(* Frame, timer and user.                                                  *)
LEMMA OwnStep ==
  ASSUME Inv,
         \/ DocumentLoads \/ DocumentFails \/ WatchFires \/ ToggleOff \/ ToggleOn \/ Hide \/ Show
         \/ WakeExtension \/ SubmitUrl \/ TaskCompletes
  PROVE  Inv'
<1>1. UNCHANGED <<ext, content, tab, toDash, excused>>
  BY DEF DocumentLoads, DocumentFails, WatchFires, ToggleOff, ToggleOn, Hide, Show, WakeExtension,
         SubmitUrl,
         TaskCompletes, Move, UserMoves
<1>2. Good(dash) /\ Kept(dash, dash)
  BY DEF Inv, Kept
<1>3. CASE DocumentLoads
  BY <1>1, <1>2, <1>3, LoadedKeeps, DashStep DEF DocumentLoads
<1>12. CASE DocumentFails
  BY <1>1, <1>2, <1>12, FailedKeeps, DashStep DEF DocumentFails
<1>4. CASE WatchFires
  BY <1>1, <1>2, <1>4, FiredKeeps, FiredIdlyKeeps, DashStep DEF WatchFires
<1>5. CASE ToggleOff
  <2>1. CASE dash.ws = "open"
    <3>1. dash' = Result([dash EXCEPT !.toggle = FALSE, !.watch = FALSE, !.preview = "paused"],
                         <<"pause">>).d
      BY <1>5, <2>1 DEF ToggleOff, Take
    <3> QED
      BY <1>1, <1>2, <3>1, PausedKeeps, DashStep DEF Result
  <2>2. CASE dash.ws # "open"
    BY <1>1, <1>2, <1>5, <2>2, SwitchedOffKeeps, DashStep DEF ToggleOff
  <2> QED
    BY <2>1, <2>2
<1>6. CASE ToggleOn
  <2>1. CASE dash.ws = "open"
    <3>1. dash' = ScheduleStreamRecovery([dash EXCEPT !.toggle = TRUE]).d
      BY <1>6, <2>1 DEF ToggleOn, Take, ScheduleStreamRecovery, Result
    <3> QED
      BY <1>1, <1>2, <2>1, <3>1, ResumedKeeps, DashStep
  <2>2. CASE dash.ws # "open"
    BY <1>1, <1>2, <1>6, <2>2, SwitchedOnKeeps, DashStep DEF ToggleOn
  <2> QED
    BY <2>1, <2>2
<1>7. CASE Hide
  BY <1>1, <1>2, <1>7, HiddenKeeps, DashStep DEF Hide
<1>8. CASE Show
  <2> DEFINE d == [dash EXCEPT !.hidden = FALSE]
  <2>1. Kept(d, dash)
    BY <1>2, HiddenKeeps
  <2>2. dash' = d \/ (dash.ws = "open" /\ dash' = ScheduleStreamRecovery(d).d)
    BY <1>8 DEF Show, Take, ScheduleStreamRecovery, Result
  <2> HIDE DEF d
  <2>3. dash.ws = "open" => Kept(ScheduleStreamRecovery(d).d, dash)
    BY <2>1, ScheduleKeeps DEF Kept, Good
  <2> QED
    BY <1>1, <2>1, <2>2, <2>3, DashStep
<1>9. CASE WakeExtension
  <2>1. dash' = dash
    BY <1>9 DEF WakeExtension, Take
  <2> QED
    BY <1>1, <1>2, <2>1, DashStep
<1>10. CASE SubmitUrl
  BY <1>1, <1>2, <1>10, TypedKeeps, DashStep DEF SubmitUrl
<1>11. CASE TaskCompletes
  BY <1>1, <1>2, <1>11, FrozenKeeps, DashStep DEF TaskCompletes
<1> QED
  BY <1>3, <1>4, <1>5, <1>6, <1>7, <1>8, <1>9, <1>10, <1>11, <1>12

-----------------------------------------------------------------------------
(* The extension and the page.                                             *)

(* The worker's own fields.                                                *)
LEMMA ExtFields ==
  ASSUME NEW e \in ExtRecord, NEW i \in BOOLEAN, NEW r \in Int, NEW q \in Int,
         NEW f \in [Commands -> Int], NEW n \in Int, NEW p \in BOOLEAN
  PROVE  LET x == [e EXCEPT !.intent = i, !.resolving = r, !.reporting = q, !.probing = f,
                            !.astray = n, !.parked = p] IN
         x \in ExtRecord /\ x.up = e.up /\ x.ghost = e.ghost
  BY DEF ExtRecord

LEMMA Pairs ==
  /\ \A a \in Message : <<a>> \in Seq(Message)
  /\ \A a \in Message, b \in Message : <<a, b>> \in Seq(Message)
  OBVIOUS

(* What the state of the tab is told as.                                   *)
LEMMA Reported ==
  /\ \A r \in {"recovering", "ready", "not-ready"} : Report(r) \in Message
  /\ \A r \in {"recovering", "restricted", "closed"} : Recovered(r) \in Message
  /\ PageReady \in Message
<1>1. \A r \in {"recovering", "ready", "not-ready"} : Report(r) \in Message
  BY DEF Report, Message
<1>2. \A r \in {"recovering", "restricted", "closed"} : Recovered(r) \in Message
  BY DEF Recovered, Message
<1>3. PageReady \in Message
  BY DEF PageReady, Message
<1> QED
  BY <1>1, <1>2, <1>3

LEMMA FoundTyped ==
  ASSUME Inv, CandidateFound \/ \E r \in {"restricted", "closed"} : NotReady(r)
  PROVE  content' \in ContentRecord /\ tab' \in {"page", "restricted", "closed"}
<1>1. content \in ContentRecord /\ tab \in {"page", "restricted", "closed"}
  BY DEF Inv, TypeOK
<1>2. CASE UNCHANGED <<tab, content>>
  BY <1>1, <1>2
<1>3. CASE /\ tab' = "page"
           /\ \E b \in BOOLEAN : content' = [Unloaded EXCEPT !.loaded = b, !.left = TRUE]
  <2>1. PICK b \in BOOLEAN : content' = [Unloaded EXCEPT !.loaded = b, !.left = TRUE]
    BY <1>3
  <2>2. content' = [loaded |-> b, observing |-> FALSE, session |-> None, left |-> TRUE]
    BY <2>1 DEF Unloaded
  <2> QED
    BY <1>3, <2>2 DEF ContentRecord, Sess
<1> QED
  BY <1>2, <1>3 DEF CandidateFound, NotReady

LEMMA TurnedTyped ==
  ASSUME NEW e \in ExtRecord
  PROVE  Turned(e) \in ExtRecord /\ Turned(e).up = e.up /\ Turned(e).ghost = e.ghost
<1>1. NoProbe \in [Commands -> Int]
  BY DEF NoProbe
<1>2. e.astray + e.probing["start"] \in Int
  BY DEF ExtRecord, Commands
<1>3. CASE tab # "page"
  <2> DEFINE n == e.astray + e.probing["start"]
             x == [e EXCEPT !.probing = NoProbe, !.astray = n]
  <2>1. Turned(e) = x
    BY <1>3 DEF Turned
  <2> HIDE DEF n
  <2>2. n \in Int => x \in ExtRecord /\ x.up = e.up /\ x.ghost = e.ghost
    BY <1>1 DEF ExtRecord
  <2> QED
    BY <1>2, <2>1, <2>2 DEF n
<1> QED
  BY <1>3 DEF Turned

LEMMA SentTyped ==
  ASSUME OneUnused, NEW c \in Commands
  PROVE  Sent(c) \in Seq(Message)
<1>1. Snap(Fresh) \in Message
  BY FreshSession DEF Snap, Message
<1> QED
  BY <1>1, Pairs DEF Sent

LEMMA CaptureTyped ==
  ASSUME Inv, OneUnused, NEW c, Capture(c)
  PROVE  content' \in ContentRecord
<1>1. content \in ContentRecord /\ Fresh \in Sess
  BY FreshSession DEF Inv, TypeOK, Sess
<1> QED
  BY <1>1 DEF Capture, ContentRecord

LEMMA ProbingTyped ==
  ASSUME NEW e \in ExtRecord, NEW c \in Commands, NEW k \in Int
  PROVE  /\ [e EXCEPT !.probing[c] = @ + k] \in ExtRecord
         /\ [e EXCEPT !.probing[c] = @ + k].up = e.up
         /\ [e EXCEPT !.probing[c] = @ + k].ghost = e.ghost
<1> DEFINE f == [e.probing EXCEPT ![c] = @ + k]
<1>1. f \in [Commands -> Int]
  BY DEF ExtRecord
<1>2. [e EXCEPT !.probing[c] = @ + k] = [e EXCEPT !.probing = f]
  OBVIOUS
<1> HIDE DEF f
<1>3. LET x == [e EXCEPT !.probing = f] IN x \in ExtRecord /\ x.up = e.up /\ x.ghost = e.ghost
  BY <1>1 DEF ExtRecord
<1> QED
  BY <1>2, <1>3

(* A step in which only the worker, the page and what they send change.    *)
LEMMA WorkerStep ==
  ASSUME Inv, UNCHANGED <<dash, tab, excused>>,
         ext' \in ExtRecord, ext'.up = ext.up, ext'.ghost = ext.ghost,
         content' \in ContentRecord,
         toDash' = toDash \/ \E msgs \in Seq(Message) : toDash' = FromExt(msgs)
  PROVE  Inv'
<1>1. tab' \in {"page", "restricted", "closed"} /\ excused' \in BOOLEAN /\ (excused => excused')
  BY DEF Inv, TypeOK
<1> QED
  BY <1>1, ExtStep

LEMMA Same ==
  ASSUME Inv
  PROVE  ext \in ExtRecord /\ content \in ContentRecord
  BY DEF Inv, TypeOK

LEMMA ReceivedStep == Inv /\ (ReceiveStatusRequest \/ ReceiveStart) => Inv'
<1> SUFFICES ASSUME Inv, ReceiveStatusRequest \/ ReceiveStart PROVE Inv'
  OBVIOUS
<1>1. UNCHANGED <<dash, content, tab, toDash, excused>>
  BY DEF ReceiveStatusRequest, ReceiveStart
<1>2. ext' \in ExtRecord /\ ext'.up = ext.up /\ ext'.ghost = ext.ghost
  <2>1. CASE ReceiveStatusRequest
    BY <2>1, Same DEF ReceiveStatusRequest, ExtRecord
  <2>2. CASE ReceiveStart
    <3>1. PICK n \in Int : ext' = [ext EXCEPT !.intent = TRUE, !.resolving = n]
      <4>1. ext.resolving + 1 \in Int
        BY Same DEF ExtRecord
      <4> QED
        BY <4>1, <2>2 DEF ReceiveStart
    <3> QED
      BY <3>1, Same DEF ExtRecord
  <2> QED
    BY <2>1, <2>2
<1> QED
  BY <1>1, <1>2, Same, WorkerStep

(* A candidate is found, or none is, and all is told in one go.            *)
LEMMA ResolvedStep ==
  ASSUME Inv, UNCHANGED <<dash, excused>>,
         ext' \in ExtRecord, ext'.up = ext.up, ext'.ghost = ext.ghost,
         CandidateFound \/ \E r \in {"restricted", "closed"} : NotReady(r),
         NEW msgs \in Seq(Message), toDash' = FromExt(msgs)
  PROVE  Inv'
<1>1. excused' \in BOOLEAN /\ (excused => excused')
  BY DEF Inv, TypeOK
<1> QED
  BY <1>1, FoundTyped, ExtStep

LEMMA ReportStep == Inv /\ SendStateSnapshot => Inv'
<1> SUFFICES ASSUME Inv, SendStateSnapshot PROVE Inv'
  OBVIOUS
<1> DEFINE e == [ext EXCEPT !.reporting = @ - 1]
<1>1. e \in ExtRecord /\ e.up = ext.up /\ e.ghost = ext.ghost
  BY Same DEF ExtRecord
<1>2. UNCHANGED <<dash, excused>>
  BY DEF SendStateSnapshot
<1>3. CASE /\ CandidateFound
           /\ ext' = Turned(e)
           /\ toDash' = FromExt(<<Report(IF ext.intent THEN "recovering" ELSE "ready"), PageReady>>)
  <2> DEFINE status == IF ext.intent THEN "recovering" ELSE "ready"
             msgs == <<Report(status), PageReady>>
  <2>1. msgs \in Seq(Message)
    BY Reported, Pairs
  <2>2. toDash' = FromExt(msgs)
    BY <1>3
  <2> HIDE DEF msgs, e
  <2> QED
    BY <1>1, <1>2, <1>3, <2>1, <2>2, TurnedTyped, ResolvedStep
<1>4. ASSUME NEW r \in {"restricted", "closed"}, NotReady(r), ext' = e,
             toDash' = FromExt(<<Report("not-ready"), Recovered(r)>>)
      PROVE  Inv'
  <2> DEFINE msgs == <<Report("not-ready"), Recovered(r)>>
  <2>1. msgs \in Seq(Message)
    BY Reported, Pairs
  <2> HIDE DEF msgs, e
  <2> QED
    BY <1>1, <1>2, <1>4, <2>1, ResolvedStep DEF msgs
<1> QED
  BY <1>3, <1>4 DEF SendStateSnapshot

LEMMA StartStep == Inv /\ HandleStreamStart => Inv'
<1> SUFFICES ASSUME Inv, HandleStreamStart PROVE Inv'
  OBVIOUS
<1> DEFINE e == [ext EXCEPT !.resolving = @ - 1]
<1>1. e \in ExtRecord /\ e.up = ext.up /\ e.ghost = ext.ghost
  BY Same DEF ExtRecord
<1>2. UNCHANGED <<dash, excused>>
  BY DEF HandleStreamStart
<1>3. CASE /\ CandidateFound
           /\ ext' = [Turned(e) EXCEPT !.probing["start"] = @ + 1]
           /\ toDash' = FromExt(<<Recovered("recovering")>>)
  <2> DEFINE msgs == <<Recovered("recovering")>>
             t == Turned(e)
  <2>1. msgs \in Seq(Message)
    BY Reported, Pairs
  <2>2. t \in ExtRecord /\ t.up = ext.up /\ t.ghost = ext.ghost
    BY <1>1, TurnedTyped
  <2>3. ext' = [t EXCEPT !.probing["start"] = @ + 1]
    BY <1>3
  <2> HIDE DEF msgs, e, t
  <2>4. ext' \in ExtRecord /\ ext'.up = ext.up /\ ext'.ghost = ext.ghost
    BY <2>2, <2>3, ProbingTyped DEF Commands
  <2> QED
    BY <1>2, <1>3, <2>1, <2>4, ResolvedStep DEF msgs
<1>4. ASSUME NEW r \in {"restricted", "closed"}, NotReady(r), ext' = e,
             toDash' = FromExt(<<Recovered(r)>>)
      PROVE  Inv'
  <2> DEFINE msgs == <<Recovered(r)>>
  <2>1. msgs \in Seq(Message)
    BY Reported, Pairs
  <2> HIDE DEF msgs, e
  <2> QED
    BY <1>1, <1>2, <1>4, <2>1, ResolvedStep DEF msgs
<1> QED
  BY <1>3, <1>4 DEF HandleStreamStart

LEMMA ForwardStep ==
  ASSUME Inv, OneUnused, NEW c \in Commands, ForwardToContentScript(c)
  PROVE  Inv'
<1>1. UNCHANGED <<dash, tab, excused>>
  BY DEF ForwardToContentScript
<1>2. CASE content.loaded
  <2>1. Capture(c) /\ toDash' = FromExt(Sent(c)) /\ UNCHANGED ext
    BY <1>2 DEF ForwardToContentScript
  <2> QED
    BY <1>1, <2>1, Same, SentTyped, CaptureTyped, WorkerStep
<1>3. CASE ~content.loaded
  <2>1. /\ ext' = [ext EXCEPT !.probing[c] = @ + 1] \/ ext' = ext
        /\ UNCHANGED <<content, toDash>>
    BY <1>3 DEF ForwardToContentScript
  <2>2. CASE ext' = ext
    BY <1>1, <2>1, <2>2, Same, WorkerStep
  <2>3. CASE ext' = [ext EXCEPT !.probing[c] = @ + 1]
    <3>1. ext' \in ExtRecord /\ ext'.up = ext.up /\ ext'.ghost = ext.ghost
      BY <2>3, Same, ProbingTyped
    <3> QED
      BY <1>1, <2>1, <3>1, Same, WorkerStep
  <2> QED
    BY <2>1, <2>2, <2>3
<1> QED
  BY <1>2, <1>3

LEMMA ProbeStep ==
  ASSUME Inv, OneUnused, NEW c \in Commands, ProbeAnswered(c) \/ ProbeTimesOut(c)
  PROVE  Inv'
<1>1. UNCHANGED <<dash, tab>>
  BY DEF ProbeAnswered, ProbeTimesOut
<1>2. ext' \in ExtRecord /\ ext'.up = ext.up /\ ext'.ghost = ext.ghost
  <2>1. PICK b \in BOOLEAN : ext' = [ext EXCEPT !.probing[c] = @ - 1, !.parked = b]
    <3>1. ext.parked \in BOOLEAN
      BY Same DEF ExtRecord
    <3>2. CASE c = "start"
      BY <3>2 DEF ProbeAnswered, ProbeTimesOut
    <3>3. CASE c # "start"
      <4>1. ext' = [ext EXCEPT !.probing[c] = @ - 1, !.parked = ext.parked]
        BY <3>3 DEF ProbeAnswered, ProbeTimesOut
      <4> QED
        BY <3>1, <4>1
    <3> QED
      BY <3>2, <3>3
  <2> DEFINE d == [ext EXCEPT !.parked = b]
  <2>2. d \in ExtRecord /\ d.up = ext.up /\ d.ghost = ext.ghost /\ d.probing = ext.probing
    BY Same DEF ExtRecord
  <2>3. PICK k \in Int : ext' = [d EXCEPT !.probing[c] = @ + k]
    <3>1. ext.probing \in [Commands -> Int]
      BY Same DEF ExtRecord
    <3>2. -1 \in Int /\ ext.probing[c] - 1 = ext.probing[c] + (-1)
      BY <3>1
    <3>3. ext' = [d EXCEPT !.probing[c] = @ + (-1)]
      BY <2>1, <3>2
    <3> QED
      BY <3>2, <3>3
  <2> HIDE DEF d
  <2> QED
    BY <2>2, <2>3, ProbingTyped
<1>3. CASE ProbeAnswered(c)
  <2>1. Capture(c) /\ toDash' = FromExt(Sent(c)) /\ excused' = (excused \/ c = "pause")
    BY <1>3 DEF ProbeAnswered
  <2>2. content' \in ContentRecord /\ Sent(c) \in Seq(Message)
    BY <2>1, CaptureTyped, SentTyped
  <2>3. tab' \in {"page", "restricted", "closed"} /\ excused' \in BOOLEAN /\ (excused => excused')
    BY <1>1, <2>1 DEF Inv, TypeOK
  <2> QED
    BY <1>1, <1>2, <2>1, <2>2, <2>3, ExtStep
<1>4. CASE ProbeTimesOut(c)
  <2>1. UNCHANGED <<content, toDash, excused>>
    BY <1>4 DEF ProbeTimesOut
  <2> QED
    BY <1>1, <1>2, <2>1, Same, WorkerStep
<1> QED
  BY <1>3, <1>4

LEMMA StrayStep == Inv /\ StrayTimesOut => Inv'
<1> SUFFICES ASSUME Inv, StrayTimesOut PROVE Inv'
  OBVIOUS
<1>1. UNCHANGED <<dash, content, tab, toDash, excused>>
  BY DEF StrayTimesOut
<1>2. ext' \in ExtRecord /\ ext'.up = ext.up /\ ext'.ghost = ext.ghost
  <2>1. PICK n \in Int : ext' = [ext EXCEPT !.astray = n, !.parked = TRUE]
    <3>1. ext.astray - 1 \in Int
      BY Same DEF ExtRecord
    <3> QED
      BY <3>1 DEF StrayTimesOut
  <2> QED
    BY <2>1, Same DEF ExtRecord
<1> QED
  BY <1>1, <1>2, Same, WorkerStep

LEMMA ReadyStep == Inv /\ (OtherTabReady \/ ScriptLoads) => Inv'
<1> SUFFICES ASSUME Inv, OtherTabReady \/ ScriptLoads PROVE Inv'
  OBVIOUS
<1>1. UNCHANGED <<dash, tab, toDash, excused>> /\ OnDomStreamReady
  BY DEF OtherTabReady, ScriptLoads
<1>2. content' \in ContentRecord
  <2>1. content' = content \/ content' = [content EXCEPT !.loaded = TRUE]
    BY DEF OtherTabReady, ScriptLoads
  <2> QED
    BY <2>1, Same DEF ContentRecord
<1>3. ext' \in ExtRecord /\ ext'.up = ext.up /\ ext'.ghost = ext.ghost
  <2>1. ext' = ext \/ ext' = [ext EXCEPT !.parked = FALSE, !.resolving = @ + 1]
    BY <1>1 DEF OnDomStreamReady
  <2>2. CASE ext' = [ext EXCEPT !.parked = FALSE, !.resolving = @ + 1]
    <3>1. PICK n \in Int : ext' = [ext EXCEPT !.parked = FALSE, !.resolving = n]
      <4>1. ext.resolving + 1 \in Int
        BY Same DEF ExtRecord
      <4> QED
        BY <4>1, <2>2 
    <3> QED
      BY <3>1, Same DEF ExtRecord
  <2> QED
    BY <2>1, <2>2, Same
<1> QED
  BY <1>1, <1>2, <1>3, WorkerStep

LEMMA PageStep == Inv /\ (TabNavigates \/ RemoteNavigate \/ FlushMutations) => Inv'
<1> SUFFICES ASSUME Inv, TabNavigates \/ RemoteNavigate \/ FlushMutations PROVE Inv'
  OBVIOUS
<1>1. UNCHANGED <<dash, ext, excused>>
  BY DEF TabNavigates, RemoteNavigate, FlushMutations
<1>2. excused' \in BOOLEAN /\ (excused => excused') /\ ext' \in ExtRecord
  BY <1>1, Same DEF Inv, TypeOK
<1>3. ASSUME NEW t \in {"page", "restricted", "closed"}, GoTo(t)
      PROVE  content' \in ContentRecord /\ tab' \in {"page", "restricted", "closed"}
  <2>1. content' = [loaded |-> FALSE, observing |-> FALSE, session |-> None, left |-> TRUE]
    BY <1>3 DEF GoTo, Unloaded
  <2>2. content' \in ContentRecord
    BY <2>1 DEF ContentRecord, Sess
  <2>3. tab' = t
    BY <1>3 DEF GoTo
  <2> QED
    BY <2>2, <2>3
<1>4. content' \in ContentRecord /\ tab' \in {"page", "restricted", "closed"}
  <2>1. UNCHANGED <<tab, content>> \/ \E t \in {"page", "restricted", "closed"} : GoTo(t)
    BY DEF TabNavigates, RemoteNavigate, FlushMutations
  <2> QED
    BY <1>3, <2>1, Same DEF Inv, TypeOK
<1>5. toDash' = toDash \/ \E msgs \in Seq(Message) : toDash' = FromExt(msgs)
  <2>1. CASE TabNavigates \/ RemoteNavigate
    BY <2>1 DEF TabNavigates, RemoteNavigate
  <2>2. CASE FlushMutations
    <3> DEFINE m == Mut(content.session)
    <3>1. m \in Message
      BY Same DEF Mut, Message, ContentRecord
    <3>2. toDash' = FromExt(<<m>>)
      BY <2>2 DEF FlushMutations
    <3> HIDE DEF m
    <3>3. <<m>> \in Seq(Message)
      BY <3>1
    <3> QED
      BY <3>2, <3>3
  <2> QED
    BY <2>1, <2>2
<1> QED
  BY <1>1, <1>2, <1>4, <1>5, ExtStep

-----------------------------------------------------------------------------
(* The extension's socket and the relay.                                   *)

LEMMA ConnectStep == Inv /\ ExtConnects => Inv'
<1> SUFFICES ASSUME Inv, ExtConnects PROVE Inv'
  OBVIOUS
<1> DEFINE m == Status(TRUE)
<1>1. /\ ext' = [ext EXCEPT !.up = TRUE, !.reporting = @ + 1]
      /\ toDash' = RelayToDash(<<m>>)
      /\ UNCHANGED <<dash, content, tab, excused>>
  BY DEF ExtConnects
<1>2. ext' \in ExtRecord /\ ext'.up
  <2>1. PICK n \in Int : ext' = [ext EXCEPT !.up = TRUE, !.reporting = n]
    <3>1. ext.reporting + 1 \in Int
      BY Same DEF ExtRecord
    <3> QED
      BY <3>1, <1>1 DEF ExtRecord
  <2> QED
    BY <2>1, Same DEF ExtRecord
<1>3. m \in Message
  BY DEF Status, Message
<1> HIDE DEF m
<1>4. toDash' \in Seq(Message) /\ (dash.ws # "open" => toDash' = <<>>)
  BY <1>1, <1>3, Pairs, Relayed
<1>5. TypeOK'
  BY <1>1, <1>2, <1>4 DEF Inv, TypeOK
<1> QED
  BY <1>1, <1>2, <1>4, <1>5 DEF Inv

LEMMA LostStep ==
  ASSUME Inv, NEW kept \in ExtRecord, ExtLost(kept)
  PROVE  Inv'
<1>1. toDash \in Seq(Message) /\ Len(toDash) \in Nat /\ dash.ws \in {"connecting", "open"}
  BY DEF Inv, TypeOK, DashRecord
<1>2. PICK k \in 0 .. Len(toDash), noticed \in BOOLEAN :
        LET left == SubSeq(toDash, 1, k) \o OwnMessages(SubSeq(toDash, k + 1, Len(toDash)))
        IN  /\ toDash' = IF noticed /\ dash.ws = "open" THEN Append(left, Status(FALSE)) ELSE left
            /\ ext' = [kept EXCEPT !.up = FALSE, !.ghost = @ \/ ~noticed]
  <2>1. (IF ext.ghost THEN {TRUE} ELSE BOOLEAN) \subseteq BOOLEAN
    OBVIOUS
  <2> QED
    BY <2>1 DEF ExtLost
<1> DEFINE head == SubSeq(toDash, 1, k)
           rest == SubSeq(toDash, k + 1, Len(toDash))
           left == head \o OwnMessages(rest)
<1>3. head \in Seq(Message) /\ rest \in Seq(Message)
  BY <1>1
<1>4. toDash = <<>> => head = <<>> /\ rest = <<>>
  <2> SUFFICES ASSUME toDash = <<>> PROVE head = <<>> /\ rest = <<>>
    OBVIOUS
  <2>1. Len(toDash) = 0 /\ k = 0 /\ 1 \in Int /\ 0 \in Int /\ 0 < 1
    OBVIOUS
  <2>2. SubSeq(toDash, 1, 0) = <<>>
    BY <2>1, SubSeqEmpty
  <2> QED
    BY <2>1, <2>2
<1> HIDE DEF head, rest
<1>5. left \in Seq(Message) /\ (toDash = <<>> => left = <<>>)
  BY <1>3, <1>4, OwnTyped, ConcatProperties
<1>6. toDash' = IF noticed /\ dash.ws = "open" THEN Append(left, Status(FALSE)) ELSE left
  BY <1>2 DEF head, rest
<1> HIDE DEF left
<1>7. ext' \in ExtRecord /\ ~ext'.up /\ (~noticed => ext'.ghost)
  <2>1. ext' = [kept EXCEPT !.up = FALSE, !.ghost = @ \/ ~noticed]
    BY <1>2
  <2>2. kept.ghost \in BOOLEAN /\ (kept.ghost \/ ~noticed) \in BOOLEAN
    BY DEF ExtRecord
  <2> QED
    BY <2>1, <2>2 DEF ExtRecord
<1>8. UNCHANGED <<dash, content, tab, excused>>
  BY DEF ExtLost
<1>9. toDash' \in Seq(Message) /\ (noticed /\ dash.ws = "open" => Offline(toDash', dash.online))
  BY <1>5, <1>6, OfflineTold
<1>10. dash.ws # "open" => toDash' = <<>> /\ ~dash.online
  BY <1>5, <1>6 DEF Inv, Good, Base
<1>11. dash.ws # "open" => Offline(toDash', dash.online)
  BY <1>10 DEF Offline
<1>12. TypeOK'
  BY <1>7, <1>8, <1>9 DEF Inv, TypeOK
<1> QED
  BY <1>7, <1>8, <1>9, <1>10, <1>11, <1>12 DEF Inv

LEMMA ExtGoesStep == Inv /\ (ExtDrops \/ WorkerRestarts) => Inv'
<1> SUFFICES ASSUME Inv, ExtDrops \/ WorkerRestarts PROVE Inv'
  OBVIOUS
<1> DEFINE e == [ext EXCEPT !.intent = FALSE, !.resolving = 0, !.reporting = 0,
                            !.probing = NoProbe, !.astray = 0, !.parked = FALSE]
<1>1. e \in ExtRecord
  <2>1. NoProbe \in [Commands -> Int]
    BY DEF NoProbe
  <2> DEFINE f == NoProbe
  <2>2. e = [ext EXCEPT !.intent = FALSE, !.resolving = 0, !.reporting = 0, !.probing = f,
                        !.astray = 0, !.parked = FALSE]
    OBVIOUS
  <2>3. f \in [Commands -> Int] /\ ext \in ExtRecord /\ 0 \in Int /\ FALSE \in BOOLEAN
    BY <2>1, Same
  <2> HIDE DEF e, f
  <2> QED
    BY <2>2, <2>3, ExtFields, Zenon
<1> HIDE DEF e
<1> QED
  BY <1>1, Same, LostStep DEF ExtDrops, WorkerRestarts, e

LEMMA OldSocketStep == Inv /\ OldSocketCloses => Inv'
<1> SUFFICES ASSUME Inv, OldSocketCloses PROVE Inv'
  OBVIOUS
<1>1. /\ ext' = [ext EXCEPT !.ghost = FALSE]
      /\ toDash' = RelayToDash(<<Status(FALSE)>>)
      /\ UNCHANGED <<dash, content, tab, excused>>
  BY DEF OldSocketCloses
<1>2. ext' \in ExtRecord
  BY <1>1, Same DEF ExtRecord
<1>3. toDash \in Seq(Message) /\ (dash.ws # "open" => toDash = <<>> /\ ~dash.online)
  BY DEF Inv, TypeOK, Good, Base
<1>4. CASE dash.ws = "open"
  <2>1. toDash' = Append(toDash, Status(FALSE))
    <3>1. Status(FALSE) \in Message
      BY DEF Status, Message
    <3>2. toDash \o <<Status(FALSE)>> = Append(toDash, Status(FALSE))
      BY <1>3, <3>1, AppendIsConcat
    <3> QED
      BY <1>1, <1>4, <3>2 DEF RelayToDash
  <2>2. toDash' \in Seq(Message) /\ Offline(toDash', dash.online)
    BY <1>3, <2>1, OfflineTold
  <2>3. TypeOK'
    BY <1>1, <1>2, <2>2 DEF Inv, TypeOK
  <2> QED
    BY <1>1, <1>4, <2>2, <2>3 DEF Inv
<1>5. CASE dash.ws # "open"
  <2>1. toDash' = <<>> /\ toDash' \in Seq(Message)
    BY <1>1, <1>3, <1>5 DEF RelayToDash
  <2>2. Offline(toDash', dash.online)
    BY <1>3, <1>5, <2>1 DEF Offline
  <2>3. TypeOK'
    BY <1>1, <1>2, <2>1 DEF Inv, TypeOK
  <2> QED
    BY <1>1, <2>1, <2>2, <2>3 DEF Inv
<1> QED
  BY <1>4, <1>5

LEMMA BackpressureStep == Inv /\ BackpressureDrop => Inv'
<1> SUFFICES ASSUME Inv, BackpressureDrop PROVE Inv'
  OBVIOUS
<1>1. /\ toDash # <<>> /\ toDash' = Front(toDash) /\ excused'
      /\ UNCHANGED <<dash, ext, content, tab>>
  BY DEF BackpressureDrop
<1>2. toDash' \in Seq(Message)
  <2>1. toDash \in Seq(Message)
    BY DEF Inv, TypeOK
  <2> QED
    BY <1>1, <2>1 DEF Front
<1>3. TypeOK' /\ dash.ws = "open"
  BY <1>1, <1>2 DEF Inv, TypeOK, BackpressureDrop
<1> QED
  BY <1>1, <1>3 DEF Inv

-----------------------------------------------------------------------------
(* Together.                                                               *)

LEMMA PreviewInit == Init => Inv
<1> SUFFICES ASSUME Init PROVE Inv
  OBVIOUS
<1>1. tab = "page" /\ toDash = <<>> /\ excused = FALSE /\ toDash \in Seq(Message)
  BY DEF Init
<1>2. None \in Sess /\ 1 \in Sess /\ 1 # None
  BY DEF Sess
<1>3. NoProbe \in [Commands -> Int]
  BY DEF NoProbe
<1>4. CASE Cold
  <2>1. dash \in DashRecord /\ Good(dash) /\ ~dash.online /\ dash.ws = "connecting"
    BY <1>2, <1>4 DEF Cold, Dashboard, DashRecord, Previews, Good, Base, Waits
  <2>2. ext \in ExtRecord
    BY <1>3, <1>4 DEF Cold, Extension, ExtRecord
  <2>3. content \in ContentRecord
    <3>1. PICK b \in BOOLEAN : content = [Unloaded EXCEPT !.loaded = b]
      BY <1>4 DEF Cold
    <3>2. content = [loaded |-> b, observing |-> FALSE, session |-> None, left |-> FALSE]
      BY <3>1 DEF Unloaded
    <3> QED
      BY <1>2, <3>2 DEF ContentRecord
  <2>4. Offline(toDash, dash.online)
    BY <1>1, <2>1 DEF Offline
  <2> QED
    BY <1>1, <2>1, <2>2, <2>3, <2>4 DEF Inv, TypeOK
<1>5. CASE Running
  <2>1. dash \in DashRecord /\ Good(dash) /\ dash.ws = "open"
    BY <1>2, <1>5 DEF Running, Dashboard, DashRecord, Previews, Good, Base, Waits
  <2>2. ext \in ExtRecord /\ ext.up
    BY <1>3, <1>5 DEF Running, Extension, ExtRecord
  <2>3. content \in ContentRecord
    BY <1>2, <1>5 DEF Running, ContentRecord
  <2> QED
    BY <1>1, <2>1, <2>2, <2>3 DEF Inv, TypeOK
<1> QED
  BY <1>4, <1>5 DEF Init

LEMMA PreviewStep == Inv /\ OneUnused /\ [Next]_vars => Inv'
<1> SUFFICES ASSUME Inv, OneUnused, [Next]_vars PROVE Inv'
  OBVIOUS
<1>1. CASE UNCHANGED vars
  BY <1>1 DEF vars, Inv, TypeOK
<1>2. CASE ReceiveCommand
  <2>1. "pause" \in Commands /\ "resume" \in Commands
    BY DEF Commands
  <2> QED
    BY <1>2, <2>1, ReceivedStep, ForwardStep, PageStep DEF ReceiveCommand
<1>3. CASE ProbeEnds
  BY <1>3, StrayStep, ProbeStep DEF ProbeEnds
<1> QED
  BY <1>1, <1>2, <1>3, ReportStep, StartStep, DashOpensStep, DashDropsStep, HandleStep, OwnStep,
     ConnectStep, ExtGoesStep,
     OldSocketStep, BackpressureStep, ReadyStep, PageStep DEF Next

LEMMA PreviewInv == Spec /\ []OneUnused => []Inv
  BY PreviewInit, PreviewStep, PTL DEF Spec

(* A session that is in use is shown, awaited, captured or on its way, so  *)
(* only finitely many are: where the ids do not run out one is unused.     *)
LEMMA FewInUse ==
  ASSUME toDash \in Seq(Message)
  PROVE  IsFiniteSet(InUse)
<1> DEFINE D == {j \in DOMAIN toDash : toDash[j].type \in {"snapshot", "mutations"}}
           T == {toDash[i].session : i \in D}
           f == [i \in D |-> toDash[i].session]
<1>1. IsFiniteSet(D)
  <2>1. IsFiniteSet(1 .. Len(toDash)) /\ DOMAIN toDash = 1 .. Len(toDash)
    BY FS_Interval
  <2> QED
    BY <2>1, FS_Subset
<1>2. f \in Surjection(D, T)
  BY DEF Surjection
<1>3. IsFiniteSet(T)
  BY <1>1, <1>2, FS_Surjection
<1>4. IsFiniteSet({dash.active, dash.doc, dash.loading, content.session})
  <2>1. IsFiniteSet({} \cup {dash.active})
    BY FS_EmptySet, FS_AddElement
  <2>2. IsFiniteSet(({} \cup {dash.active}) \cup {dash.doc})
    BY <2>1, FS_AddElement
  <2>3. IsFiniteSet((({} \cup {dash.active}) \cup {dash.doc}) \cup {dash.loading})
    BY <2>2, FS_AddElement
  <2>4. IsFiniteSet(((({} \cup {dash.active}) \cup {dash.doc}) \cup {dash.loading})
                      \cup {content.session})
    BY <2>3, FS_AddElement
  <2>5. (((({} \cup {dash.active}) \cup {dash.doc}) \cup {dash.loading}) \cup {content.session})
          = {dash.active, dash.doc, dash.loading, content.session}
    OBVIOUS
  <2> QED
    BY <2>4, <2>5
<1>5. InUse = {dash.active, dash.doc, dash.loading, content.session} \cup T
  BY DEF InUse
<1> HIDE DEF T
<1> QED
  BY <1>3, <1>4, <1>5, FS_Union

LEMMA EndlessUnused ==
  ASSUME ~IsFiniteSet(Sessions), Inv
  PROVE  OneUnused
<1> SUFFICES ASSUME Sessions \ InUse = {} PROVE FALSE
  BY DEF OneUnused
<1>1. IsFiniteSet(InUse)
  BY FewInUse DEF Inv, TypeOK
<1>2. Sessions \in SUBSET InUse
  OBVIOUS
<1> QED
  BY <1>1, <1>2, FS_Subset

(* Where session ids do not run out, one is always unused, so that a start *)
(* can name a session neither end has seen                                 *)
(* (createStreamSessionId, reference/extension/dom-stream.js).             *)
THEOREM EndlessSessionsSuffice ==
  ASSUME ~IsFiniteSet(Sessions)
  PROVE  Spec => []OneUnused
<1>1. Inv => OneUnused
  BY EndlessUnused
<1>2. Inv /\ [Next]_vars => Inv'
  BY <1>1, PreviewStep
<1> QED
  BY <1>1, <1>2, PreviewInit, PTL DEF Spec

(* A preview that says "loading" has its timer running, or its document on *)
(* the way, or was typed for, whatever sockets, worker and user do         *)
(* (armPreviewRecoveryWatchdog and its callers, dashboard.js).             *)
THEOREM LoadingAlwaysWatched == Spec /\ []OneUnused => []LoadingIsWatched
<1>1. Inv => LoadingIsWatched
  BY DEF Inv, Good, Waits, LoadingIsWatched
<1> QED
  BY <1>1, PreviewInv, PTL

(* No document stays on show that took another session's mutations         *)
(* (shouldAcceptDOMStreamMessage and handleDOMSnapshot, dashboard.js).     *)
THEOREM NeverForeignPage == Spec /\ []OneUnused => []NoForeignPage
<1>1. Inv => NoForeignPage
  BY DEF Inv, Good, Base, NoForeignPage
<1> QED
  BY <1>1, PreviewInv, PTL

(* Once the dashboard has heard everything, an extension it shows as       *)
(* online is there: every report of one that has gone is followed by the   *)
(* relay's word that it has (ws-handler.js, ws.onclose in dashboard.js).   *)
THEOREM OnlineAlwaysReal == Spec /\ []OneUnused => []OnlineIsReal
<1>1. Inv => OnlineIsReal
  <2> SUFFICES ASSUME Inv, dash.online, toDash = <<>>, ~excused
               PROVE  ext.up \/ ext.ghost
    BY DEF OnlineIsReal
  <2>1. ~Offline(toDash, dash.online)
    BY DEF Offline
  <2> QED
    BY <2>1 DEF Inv
<1> QED
  BY <1>1, PreviewInv, PTL
=============================================================================
