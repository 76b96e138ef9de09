--------------------------- MODULE CaptureSession ---------------------------
(***************************************************************************)
(* The capture side of one page: src/capture/index.js, createCapture.      *)
(*                                                                         *)
(* The page is edited; a MutationObserver hands its records to a callback, *)
(* which pools them in pendingMutations; a flush turns the pool into one   *)
(* or more MUTATIONS messages stamped with the identity of the current     *)
(* session.  start() begins a session with a full SNAPSHOT; stop(),        *)
(* pause() and resume() take the observer down and put it up again.        *)
(*                                                                         *)
(* Data abstraction.  Edits are numbered in the order the page makes them, *)
(* so a set of edits is also an ordered batch.  A message carries a set of *)
(* edits: a SNAPSHOT every visible edit made so far, a MUTATIONS message   *)
(* the edits whose records made its ops (how an op reads the live page is  *)
(* left to another module).  NoDiff holds the edits that never reach the   *)
(* wire (host-skipped, blocked or wire-dropped subtrees, ops dropped over  *)
(* the relay's cap); ShadowRoots holds, for each open shadow root, the     *)
(* edits inside it.  A session number stands for the pair                  *)
(* (streamSessionId, snapshotId) that beginStreamSession mints; 0 is the   *)
(* empty identity before the first start().  Side-channel messages         *)
(* (scroll, overlay, media, dialog) carry no page content and are left     *)
(* out, as are the style sources of styleMode "cssom".                     *)
(***************************************************************************)
EXTENDS Naturals, Sequences

CONSTANTS
  MaxEdits,     \* bound: edits the page makes
  MaxSessions,  \* bound: sessions start() mints
  NoDiff,       \* edits for which processMutationBatch emits no op
  ShadowRoots   \* per open shadow root, the edits inside it

ASSUME CaptureAssumption ==
  /\ MaxEdits \in Nat
  /\ MaxSessions \in Nat
  /\ NoDiff \subseteq Nat
  /\ ShadowRoots \subseteq SUBSET Nat

VARIABLES
  page,       \* number of edits made to the live page
  queued,     \* records the observer holds for its next microtask
  pending,    \* pendingMutations
  observing,  \* mutationObserver is connected
  streaming,  \* the `streaming` flag
  tracked,    \* the node mirror (elementToNid, nidToElement) is populated
  session,    \* streamSessionId and currentSnapshotId
  sent,       \* the messages handed to transport.send, oldest first
  owed,       \* history: edits made under a running observer since start()
  careless    \* history: since start() the host has called pause() in the
              \* task of an edit, or resume() on a stream that was not paused

captureVars ==
  <<page, queued, pending, observing, streaming, tracked, session, sent,
    owed, careless>>

Visible == (1 .. page) \ NoDiff
Paused  == streaming /\ ~observing

Snapshot(s, edits)  == [kind |-> "snapshot",  session |-> s, edits |-> edits]
Mutations(s, edits) == [kind |-> "mutations", session |-> s, edits |-> edits]

Message ==
  [kind : {"snapshot", "mutations"}, session : Nat, edits : SUBSET Nat]

Init ==
  /\ page = 0
  /\ queued = {}
  /\ pending = {}
  /\ observing = FALSE
  /\ streaming = FALSE
  /\ tracked = FALSE
  /\ session = 0
  /\ sent = <<>>
  /\ owed = {}
  /\ careless = FALSE

-----------------------------------------------------------------------------
(* Batches and messages.                                                   *)

InShadow       == UNION ShadowRoots
Together(a, b) == \E root \in ShadowRoots : a \in root /\ b \in root

(* The edits a batch yields ops for: none outside the mirrored tree.  Once *)
(* the node mirror is cleared neither the target nor the parent of a       *)
(* record has a nid and the record is skipped, except inside a shadow      *)
(* root, whose host is given a fresh nid.                                  *)
Diffs(batch) == (IF tracked THEN batch ELSE batch \cap InShadow) \ NoDiff

(* processMutationBatch puts the ops of the document in page order, and    *)
(* behind them one op per shadow root, which carries all the batch edited  *)
(* there; the roots come in the order of their first edits.                *)
Before(ops, a, b) ==
  \/ Together(a, b)
  \/ a \notin InShadow /\ (b \in InShadow \/ a <= b)
  \/ \E q, r \in ShadowRoots :
       /\ a \in q /\ b \in r
       /\ \E e \in q \cap ops : \A f \in r \cap ops : e < f

(* sendMutationDiffs sends the list of ops in consecutive chunks that fit  *)
(* the relay's cap.  Where the cuts fall depends on byte sizes: any number *)
(* k of chunks, chunk[e] being the one edit e goes in.                     *)
Cuts(ops, k) ==
  {chunk \in [ops -> 1 .. k] :
     /\ \A a, b \in ops : Before(ops, a, b) => chunk[a] <= chunk[b]
     /\ \A i \in 1 .. k : \E e \in ops : chunk[e] = i}
Chunks(s, ops, k, chunk) ==
  [i \in 1 .. k |-> Mutations(s, {e \in ops : chunk[e] = i})]
SendDiffs(s, ops) ==
  UNION {{Chunks(s, ops, k, chunk) : chunk \in Cuts(ops, k)} : k \in 0 .. page}

(* The final flush of stopMutationStream, under the current identity.      *)
(* disconnect() has already thrown away the records not yet delivered.     *)
FinalFlushSkipped == {<<>>}
FinalFlush == SendDiffs(session, Diffs(pending))

(* startMutationStream: a connected observer is disconnected first, and    *)
(* what was pooled or queued is discarded.                                 *)
ArmKeepingPool == pending' = pending /\ queued' = {} /\ observing' = TRUE
StartMutationStream == pending' = {} /\ queued' = {} /\ observing' = TRUE

(* stopMutationStream, apart from what its final flush sends.              *)
StopMutationStream == pending' = {} /\ queued' = {} /\ observing' = FALSE

-----------------------------------------------------------------------------
(* The page and the observer.                                              *)

Edit ==
  /\ page < MaxEdits
  /\ page' = page + 1
  /\ queued' = IF observing THEN queued \cup {page + 1} ELSE queued
  /\ owed'   = IF observing THEN owed \cup {page + 1} ELSE owed
  /\ UNCHANGED <<pending, observing, streaming, tracked, session, sent, careless>>

(* The MutationObserver callback: pool the records, schedule a flush.      *)
ObserverCallback ==
  /\ queued # {}
  /\ pending' = pending \cup queued
  /\ queued' = {}
  /\ UNCHANGED <<page, observing, streaming, tracked, session, sent, owed,
                 careless>>

FlushKeepingPool ==
  /\ queued = {}
  /\ pending # {}
  /\ \E chunks \in SendDiffs(session, Diffs(pending)) : sent' = sent \o chunks
  /\ UNCHANGED <<page, queued, pending, observing, streaming, tracked, session,
                 owed, careless>>
(* flushMutations, from requestAnimationFrame or from the watchdog: in     *)
(* either case the observer has had its microtask.                         *)
Flush ==
  /\ queued = {}
  /\ pending # {}
  /\ \E chunks \in SendDiffs(session, Diffs(pending)) : sent' = sent \o chunks
  /\ pending' = {}
  /\ UNCHANGED <<page, queued, observing, streaming, tracked, session, owed,
                 careless>>

-----------------------------------------------------------------------------
(* The lifecycle the host drives.                                          *)

(* start(): a running stream is stopped first, under its old identity.     *)
Start ==
  /\ session < MaxSessions
  /\ session' = session + 1
  /\ \E chunks \in (IF streaming THEN FinalFlush ELSE {<<>>}) :
       sent' = sent \o chunks \o <<Snapshot(session + 1, Visible)>>
  /\ StartMutationStream
  /\ tracked' = TRUE
  /\ streaming' = TRUE
  /\ owed' = {} /\ careless' = FALSE
  /\ UNCHANGED page

Stop ==
  /\ \E chunks \in FinalFlush : sent' = sent \o chunks
  /\ StopMutationStream
  /\ streaming' = FALSE
  /\ tracked' = FALSE
  /\ owed' = {} /\ careless' = FALSE
  /\ UNCHANGED <<page, session>>

Pause ==
  /\ \E chunks \in FinalFlush : sent' = sent \o chunks
  /\ StopMutationStream
  /\ careless' = (careless \/ queued # {})
  /\ UNCHANGED <<page, streaming, tracked, session, owed>>

(* resume() re-arms the observer and keeps the session.                    *)
Resume ==
  /\ StartMutationStream
  /\ streaming' = TRUE
  /\ careless' = (careless \/ ~Paused)
  /\ UNCHANGED <<page, tracked, session, sent, owed>>

-----------------------------------------------------------------------------
Next ==
  \/ Edit
  \/ ObserverCallback
  \/ Flush
  \/ Start
  \/ Stop
  \/ Pause
  \/ Resume

Spec == Init /\ [][Next]_captureVars

-----------------------------------------------------------------------------
TypeOK ==
  /\ page \in 0 .. MaxEdits
  /\ queued \in SUBSET (1 .. page)
  /\ pending \in SUBSET (1 .. page)
  /\ observing \in BOOLEAN
  /\ streaming \in BOOLEAN
  /\ tracked \in BOOLEAN
  /\ session \in 0 .. MaxSessions
  /\ sent \in Seq(Message)
  /\ owed \in SUBSET (1 .. page)
  /\ careless \in BOOLEAN

(* The edits a log carries under session s.                                *)
EditsIn(log, s) ==
  UNION {log[i].edits : i \in {j \in DOMAIN log : log[j].session = s}}
SentIn(s) == EditsIn(sent, s)

(* What OnceInOrder and SnapshotFirst ask of a log of messages.  An edit b *)
(* may come after a younger edit a only in a shadow root, and not one that *)
(* a is in, too.                                                           *)
MayFollow(b, a) == a < b \/ (a # b /\ b \in InShadow /\ ~Together(a, b))
OnceInOrder(log) ==
  \A i, j \in DOMAIN log :
    (i < j /\ log[i].session = log[j].session)
      => \A a \in log[i].edits, b \in log[j].edits : MayFollow(b, a)

SnapshotFirst(log) ==
  \A j \in DOMAIN log :
    /\ \A i \in DOMAIN log : i < j => log[i].session <= log[j].session
    /\ (log[j].kind = "mutations" /\ log[j].session > 0) =>
         \E i \in DOMAIN log :
           i < j /\ log[i].kind = "snapshot" /\ log[i].session = log[j].session

(* Within one session every edit is put on the wire at most once, and the  *)
(* edits of the document, as those of each shadow root, in the order the   *)
(* page made them: no edit the snapshot already shows is sent again as a   *)
(* diff (startMutationStream empties the pool that survived serializeDOM), *)
(* no record is in two batches, and no batch or chunk overtakes an earlier *)
(* one, whatever lifecycle calls fall between an edit, the observer's      *)
(* microtask and the flush.  What an edit in a shadow root may follow is   *)
(* younger edits of its own batch (ImplementsFeed).                        *)
EachEditOnceInOrder == OnceInOrder(sent)

(* Every diff that names a session follows its snapshot, and once a        *)
(* session has begun nothing more is sent under an earlier identity: the   *)
(* final flush of a restart leaves before beginStreamSession renames the   *)
(* stream, and the pool never crosses from one session to the next.        *)
SessionsAreContiguous == SnapshotFirst(sent)

(* Only what happens while paused is missed (src/capture/README.md): every *)
(* edit made under a running observer since start() is on the wire in this *)
(* session, or still in the pool or the observer's queue, provided the     *)
(* host gave the observer its microtask before each pause() and resumed    *)
(* only a paused stream.                                                   *)
OnlyPausedEditsMissed ==
  ~careless => owed \ NoDiff \subseteq SentIn(session) \cup pending \cup queued

(* The capture implements an ordered feed: with observer, pool, roots and  *)
(* flags hidden, every step of the page, the observer, the flush and the   *)
(* lifecycle calls is an edit of the page, a delivery of edits younger     *)
(* than all delivered before, in as many messages as it takes, in which    *)
(* only edits inside shadow roots are put last, a session that begins with *)
(* all the page shows, or nothing.                                         *)
Feed == INSTANCE OrderedFeed WITH page <- page, session <- session, sent <- sent

ImplementsFeed == Feed!FeedSpec

-----------------------------------------------------------------------------
(* The inductive invariant behind the two log properties.                  *)

(* No edit of S precedes an edit already sent in session s.                *)
Room(log, s, S) ==
  \A i \in DOMAIN log :
    log[i].session = s => \A a \in log[i].edits, b \in S : a < b

GoodLog(log, s, n) ==
  /\ log \in Seq(Message)
  /\ OnceInOrder(log)
  /\ SnapshotFirst(log)
  /\ \A i \in DOMAIN log : log[i].session <= s /\ log[i].edits \subseteq 1 .. n
  /\ s > 0 => \E i \in DOMAIN log :
                 log[i].kind = "snapshot" /\ log[i].session = s

(* The log is well-formed for the current identity, and the pool and the   *)
(* observer's queue hold, in that order, only edits younger than all that  *)
(* has been sent under it: flushing in any state keeps the log in order.   *)
PoolFollowsLog ==
  /\ TypeOK
  /\ GoodLog(sent, session, page)
  /\ Room(sent, session, pending \cup queued)
  /\ \A a \in pending, b \in queued : a < b

-----------------------------------------------------------------------------
(* The inductive invariant behind OnlyPausedEditsMissed.                   *)

(* Only a running observer leaves anything pooled or queued; and with a    *)
(* host that is not careless, an observer runs and edits are owed only     *)
(* while the node mirror is populated, so that a flush drops none of them. *)
OwedIsKept ==
  /\ ~observing => pending = {} /\ queued = {}
  /\ ~careless => /\ observing => streaming
                  /\ streaming => tracked
                  /\ owed # {} => tracked
  /\ OnlyPausedEditsMissed
=============================================================================
