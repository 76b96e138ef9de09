-------------------------- MODULE DeliveryProofs --------------------------
(***************************************************************************)
(* Proofs about what is put on the wire and what comes out of it: the      *)
(* capture's log of edits (CaptureSession, FlushWatchdog) and the path of  *)
(* a message through transport and relay (RelayChannel).  The two models   *)
(* share no state.                                                         *)
(*                                                                         *)
(* CaptureSession, for every number of edits and sessions, every choice of *)
(* edits without a diff, and any host.  The invariant is PoolFollowsLog.   *)
(* EachEditOnceInOrder alone is not inductive: a flush keeps the log in    *)
(* order only because what is pooled is younger than what has been sent,   *)
(* and what is queued younger still.  OnlyPausedEditsMissed needs          *)
(* OwedIsKept: edits are owed, and an observer runs, only while the node   *)
(* mirror is populated.                                                    *)
(*                                                                         *)
(* FlushWatchdog, for any threshold and any length of a tick: the pool is  *)
(* always scheduled, no record outlives the threshold, and a frame that is *)
(* not disturbed flushes what it found.                                    *)
(*                                                                         *)
(* RelayChannel: the room implements the lossy channel, for any number of  *)
(* sources, viewers, sends and faults.  The argument follows a message     *)
(* down the path: send queue, connection to the relay, connection to the   *)
(* receiver, decode queue, handlers.  In each stretch the frames of one    *)
(* sender rise, and every frame of a later stretch is below every frame of *)
(* an earlier one, so the head of the decode queue is always above the     *)
(* last message given to the handlers.                                     *)
(***************************************************************************)
EXTENDS FlushWatchdog, RelayChannel, Integers, SequenceTheorems, TLAPS

USE CaptureAssumption

-----------------------------------------------------------------------------
(* Appending to the log.                                                   *)

(* What a log with one more message holds, position by position.           *)
LEMMA OneMore ==
  ASSUME NEW log \in Seq(Message), NEW m \in Message
  PROVE  /\ log \o <<m>> \in Seq(Message)
         /\ DOMAIN (log \o <<m>>) = 1 .. (Len(log) + 1)
         /\ DOMAIN log = 1 .. Len(log)
         /\ Len(log) \in Nat
         /\ \A i \in 1 .. Len(log) : (log \o <<m>>)[i] = log[i]
         /\ (log \o <<m>>)[Len(log) + 1] = m
<1>1. <<m>> \in Seq(Message) /\ Len(<<m>>) = 1 /\ <<m>>[1] = m
  OBVIOUS
<1>2. /\ log \o <<m>> \in Seq(Message)
      /\ Len(log \o <<m>>) = Len(log) + 1
      /\ \A i \in 1 .. (Len(log) + 1) :
           (log \o <<m>>)[i] = IF i <= Len(log) THEN log[i] ELSE <<m>>[i - Len(log)]
  BY <1>1, ConcatProperties
<1>3. Len(log) \in Nat /\ DOMAIN log = 1 .. Len(log)
  BY LenProperties
<1>4. DOMAIN (log \o <<m>>) = 1 .. (Len(log) + 1)
  BY <1>2, LenProperties
<1>5. \A i \in 1 .. Len(log) : (log \o <<m>>)[i] = log[i]
  BY <1>2, <1>3
<1>6. (log \o <<m>>)[Len(log) + 1] = m
  <2>1. (Len(log) + 1) - Len(log) = 1 /\ ~(Len(log) + 1 <= Len(log))
    BY <1>3
  <2> QED
    BY <1>1, <1>2, <1>3, <2>1
<1> QED
  BY <1>2, <1>3, <1>4, <1>5, <1>6

(* A message's session is a number, so sessions can be compared.           *)
LEMMA SessionIsNat ==
  ASSUME NEW log \in Seq(Message), NEW i \in DOMAIN log
  PROVE  log[i].session \in Nat
<1>1. log[i] \in Message
  BY LenProperties, ElementOfSeq
<1> QED
  BY <1>1 DEF Message

(* Messages that carry these ops under session s, none twice, and in order *)
(* but for what is inside shadow roots.                                    *)
CarriesOps(msgs, s, ops) ==
  /\ msgs \in Seq(Message)
  /\ \A i \in 1 .. Len(msgs) : /\ msgs[i].kind = "mutations"
                              /\ msgs[i].session = s
                              /\ msgs[i].edits \subseteq ops
  /\ \A i, j \in 1 .. Len(msgs) :
       i < j => \A a \in msgs[i].edits, b \in msgs[j].edits : MayFollow(b, a)

(* The chunks of a list of ops are such messages.                          *)
LEMMA ChunksOfOps ==
  ASSUME page \in Nat, NEW s \in Nat, NEW ops \in SUBSET Nat,
         NEW msgs \in SendDiffs(s, ops)
  PROVE  CarriesOps(msgs, s, ops)
<1>0. PICK k \in 0 .. page : \E chunk \in Cuts(ops, k) : msgs = Chunks(s, ops, k, chunk)
  BY DEF SendDiffs
<1>1. PICK chunk \in Cuts(ops, k) : msgs = Chunks(s, ops, k, chunk)
  BY <1>0
<1>2. /\ k \in Nat
      /\ chunk \in [ops -> 1 .. k]
      /\ \A a, b \in ops : Before(ops, a, b) => chunk[a] <= chunk[b]
  BY <1>1 DEF Cuts
<1>3. \A i \in 1 .. k : /\ msgs[i] \in Message
                        /\ msgs[i].kind = "mutations"
                        /\ msgs[i].session = s
                        /\ msgs[i].edits = {e \in ops : chunk[e] = i}
  <2> TAKE i \in 1 .. k
  <2> DEFINE S == {e \in ops : chunk[e] = i}
  <2>1. msgs[i] = Mutations(s, S)
    BY <1>1 DEF Chunks
  <2>2. S \in SUBSET Nat
    OBVIOUS
  <2> HIDE DEF S
  <2>3. msgs[i] \in Message /\ msgs[i].kind = "mutations" /\ msgs[i].session = s /\ msgs[i].edits = S
    BY <2>1, <2>2 DEF Mutations, Message
  <2> QED
    BY <2>3 DEF S
<1>4. msgs = [i \in 1 .. k |-> msgs[i]]
  BY <1>1 DEF Chunks
<1>5. msgs \in Seq(Message) /\ Len(msgs) = k
  BY <1>2, <1>3, <1>4
<1>6. ASSUME NEW i \in 1 .. k, NEW j \in 1 .. k, i < j,
             NEW a \in msgs[i].edits, NEW b \in msgs[j].edits
      PROVE  MayFollow(b, a)
  <2>1. a \in ops /\ b \in ops /\ chunk[a] = i /\ chunk[b] = j
    BY <1>3
  <2>5. a \in Nat /\ b \in Nat
    BY <2>1
  <2>2. ~Before(ops, b, a)
    <3>1. ~(chunk[b] <= chunk[a])
      BY <1>6, <2>1
    <3> QED
      BY <1>2, <2>1, <3>1
  <2>3. ~Together(b, a) /\ (b \in InShadow \/ (a \notin InShadow /\ ~(b <= a)))
    BY <2>2 DEF Before
  <2>4. ~Together(a, b) /\ a # b
    BY <1>6, <2>1, <2>3 DEF Together
  <2> QED
    BY <2>3, <2>4, <2>5 DEF MayFollow
<1> QED
  BY <1>3, <1>5, <1>6 DEF CarriesOps

(* A list of ops for which the log has room keeps the log well-formed, and *)
(* leaves room for whatever is younger than the ops.                       *)
LEMMA AppendDiffs ==
  ASSUME page \in Nat, NEW log, NEW s \in Nat, NEW n \in Nat,
         GoodLog(log, s, n),
         NEW ops \in SUBSET (1 .. n),
         Room(log, s, ops),
         NEW msgs \in SendDiffs(s, ops)
  PROVE  /\ msgs \in Seq(Message)
         /\ GoodLog(log \o msgs, s, n)
         /\ \A S : (/\ Room(log, s, S)
                   /\ \A a \in ops, b \in S : a < b)
                  => Room(log \o msgs, s, S)
<1> DEFINE new == log \o msgs
           L   == Len(log)
           k   == Len(msgs)
<1>1. log \in Seq(Message)
  BY DEF GoodLog
<1>0. CarriesOps(msgs, s, ops)
  <2>1. ops \in SUBSET Nat
    OBVIOUS
  <2> QED
    BY <2>1, ChunksOfOps
<1>2. /\ msgs \in Seq(Message)
      /\ \A i \in 1 .. k : /\ msgs[i].kind = "mutations"
                           /\ msgs[i].session = s
                           /\ msgs[i].edits \subseteq ops
      /\ \A i, j \in 1 .. k :
           i < j => \A a \in msgs[i].edits, b \in msgs[j].edits :
                      MayFollow(b, a)
  BY <1>0 DEF CarriesOps
<1>3. L \in Nat /\ k \in Nat /\ DOMAIN log = 1 .. L
  BY <1>1, <1>2, LenProperties
<1>4. /\ new \in Seq(Message)
      /\ Len(new) = L + k
      /\ \A i \in 1 .. (L + k) : new[i] = IF i <= L THEN log[i] ELSE msgs[i - L]
  BY <1>1, <1>2, ConcatProperties
<1>5. DOMAIN new = 1 .. (L + k)
  BY <1>4, LenProperties
<1>6. \A i \in 1 .. L : i \in 1 .. (L + k) /\ new[i] = log[i]
  BY <1>3, <1>4
<1>7. ASSUME NEW i \in 1 .. (L + k), i \notin 1 .. L
      PROVE  /\ i > L /\ i - L \in 1 .. k
             /\ new[i] = msgs[i - L]
             /\ new[i].kind = "mutations" /\ new[i].session = s /\ new[i].edits \subseteq ops
  BY <1>2, <1>3, <1>4, <1>7
<1> HIDE DEF new, L, k
<1>8. OnceInOrder(new)
  <2> SUFFICES ASSUME NEW i \in 1 .. (L + k), NEW j \in 1 .. (L + k),
                      i < j, new[i].session = new[j].session,
                      NEW a \in new[i].edits, NEW b \in new[j].edits
               PROVE  MayFollow(b, a)
    BY <1>5 DEF OnceInOrder
  <2>1. CASE j \in 1 .. L
    <3>1. i \in 1 .. L
      BY <1>3, <2>1
    <3> QED
      BY <1>3, <1>6, <2>1, <3>1 DEF GoodLog, OnceInOrder
  <2>2. CASE i \in 1 .. L /\ j \notin 1 .. L
    <3>1. a < b
      BY <1>3, <1>6, <1>7, <2>2 DEF Room
    <3> QED
      BY <3>1 DEF MayFollow
  <2>3. CASE i \notin 1 .. L /\ j \notin 1 .. L
    <3>1. i - L \in 1 .. k /\ j - L \in 1 .. k /\ i - L < j - L
      BY <1>3, <1>7, <2>3
    <3>2. a \in msgs[i - L].edits /\ b \in msgs[j - L].edits
      BY <1>7, <2>3
    <3> QED
      BY <1>2, <3>1, <3>2
  <2> QED
    BY <1>3, <2>1, <2>2, <2>3
<1>9. SnapshotFirst(new)
  <2> SUFFICES ASSUME NEW j \in 1 .. (L + k)
               PROVE  /\ \A i \in 1 .. (L + k) : i < j => new[i].session <= new[j].session
                      /\ (new[j].kind = "mutations" /\ new[j].session > 0) =>
                           \E i \in 1 .. (L + k) :
                             /\ i < j
                             /\ new[i].kind = "snapshot"
                             /\ new[i].session = new[j].session
    BY <1>5 DEF SnapshotFirst
  <2>1. CASE j \in 1 .. L
    <3>1. \A i \in 1 .. (L + k) : i < j => i \in 1 .. L
      BY <1>3, <2>1
    <3> QED
      BY <1>3, <1>6, <2>1, <3>1 DEF GoodLog, SnapshotFirst
  <2>2. CASE j \notin 1 .. L
    <3>1. new[j].session = s
      BY <1>7, <2>2
    <3>2. ASSUME NEW i \in 1 .. (L + k) PROVE new[i].session <= s
      <4>1. CASE i \in 1 .. L
        BY <1>3, <1>6, <4>1 DEF GoodLog
      <4>2. CASE i \notin 1 .. L
        BY <1>7, <4>2
      <4> QED
        BY <4>1, <4>2
    <3>3. ASSUME s > 0
          PROVE  \E i \in 1 .. (L + k) : i < j /\ new[i].kind = "snapshot" /\ new[i].session = s
      <4>1. PICK i \in 1 .. L : log[i].kind = "snapshot" /\ log[i].session = s
        BY <1>3, <3>3 DEF GoodLog
      <4>2. i < j
        BY <1>3, <1>7, <2>2
      <4> QED
        BY <1>6, <4>1, <4>2
    <3> QED
      BY <3>1, <3>2, <3>3
  <2> QED
    BY <2>1, <2>2
<1>10. ASSUME NEW i \in 1 .. (L + k)
       PROVE  new[i].session <= s /\ new[i].edits \subseteq 1 .. n
  <2>1. CASE i \in 1 .. L
    BY <1>3, <1>6, <2>1 DEF GoodLog
  <2>2. CASE i \notin 1 .. L
    <3>1. new[i].session = s /\ new[i].edits \subseteq ops
      BY <1>7, <2>2
    <3>2. s <= s /\ ops \subseteq 1 .. n
      OBVIOUS
    <3> QED
      BY <3>1, <3>2
  <2> QED
    BY <2>1, <2>2
<1>11. s > 0 => \E i \in 1 .. (L + k) : new[i].kind = "snapshot" /\ new[i].session = s
  BY <1>3, <1>6 DEF GoodLog
<1>12. GoodLog(new, s, n)
  BY <1>4, <1>5, <1>8, <1>9, <1>10, <1>11 DEF GoodLog
<1>13. ASSUME NEW S, Room(log, s, S), \A a \in ops, b \in S : a < b
       PROVE  Room(new, s, S)
  <2> SUFFICES ASSUME NEW i \in 1 .. (L + k), new[i].session = s,
                      NEW a \in new[i].edits, NEW b \in S
               PROVE  a < b
    BY <1>5 DEF Room
  <2>1. CASE i \in 1 .. L
    BY <1>3, <1>6, <1>13, <2>1 DEF Room
  <2>2. CASE i \notin 1 .. L
    BY <1>7, <1>13, <2>2
  <2> QED
    BY <2>1, <2>2
<1> QED
  BY <1>2, <1>12, <1>13 DEF new

(* A snapshot opens the next session.                                      *)
LEMMA AppendSnapshot ==
  ASSUME NEW log, NEW s \in Nat, NEW n \in Nat,
         GoodLog(log, s, n),
         NEW edits \in SUBSET (1 .. n)
  PROVE  GoodLog(log \o <<Snapshot(s + 1, edits)>>, s + 1, n)
<1> DEFINE m   == Snapshot(s + 1, edits)
           new == log \o <<m>>
<1>1. log \in Seq(Message)
  BY DEF GoodLog
<1>2. m \in Message /\ m.kind = "snapshot" /\ m.session = s + 1 /\ m.edits = edits
  BY DEF Snapshot, Message
<1> HIDE DEF m
<1>3. /\ new \in Seq(Message)
      /\ DOMAIN new = 1 .. (Len(log) + 1)
      /\ DOMAIN log = 1 .. Len(log)
      /\ Len(log) \in Nat
      /\ \A i \in 1 .. Len(log) : new[i] = log[i]
      /\ new[Len(log) + 1] = m
  BY <1>1, <1>2, OneMore
<1> HIDE DEF new
<1>4. \A i \in DOMAIN log : log[i].session \in Nat
  BY <1>1, <1>3, SessionIsNat
<1>5. \A i \in DOMAIN log : log[i].session < s + 1
  BY <1>4 DEF GoodLog
<1>6. OnceInOrder(new)
  <2> SUFFICES ASSUME NEW i \in DOMAIN new, NEW j \in DOMAIN new,
                      i < j, new[i].session = new[j].session,
                      NEW a \in new[i].edits, NEW b \in new[j].edits
               PROVE  MayFollow(b, a)
    BY DEF OnceInOrder
  <2>1. i \in 1 .. Len(log)
    BY <1>3
  <2>2. CASE j \in 1 .. Len(log)
    BY <1>3, <2>1, <2>2 DEF GoodLog, OnceInOrder
  <2>3. CASE j = Len(log) + 1
    BY <1>2, <1>3, <1>5, <2>1, <2>3
  <2> QED
    BY <1>3, <2>2, <2>3
<1>7. SnapshotFirst(new)
  <2> SUFFICES ASSUME NEW j \in DOMAIN new
               PROVE  /\ \A i \in DOMAIN new : i < j => new[i].session <= new[j].session
                      /\ (new[j].kind = "mutations" /\ new[j].session > 0) =>
                           \E i \in DOMAIN new :
                             /\ i < j
                             /\ new[i].kind = "snapshot"
                             /\ new[i].session = new[j].session
    BY DEF SnapshotFirst
  <2>1. CASE j \in 1 .. Len(log)
    BY <1>3, <2>1 DEF GoodLog, SnapshotFirst
  <2>2. CASE j = Len(log) + 1
    <3>1. \A i \in DOMAIN new : i < j => new[i].session <= new[j].session
      BY <1>2, <1>3, <1>4, <1>5, <2>2
    <3>2. new[j].kind # "mutations"
      BY <1>2, <1>3, <2>2
    <3> QED
      BY <3>1, <3>2
  <2> QED
    BY <1>3, <2>1, <2>2
<1>8. ASSUME NEW i \in DOMAIN new
      PROVE  new[i].session <= s + 1 /\ new[i].edits \subseteq 1 .. n
  <2>1. CASE i \in 1 .. Len(log)
    <3>1. new[i] = log[i] /\ log[i].session \in Nat /\ log[i].session < s + 1
      BY <1>3, <1>4, <1>5, <2>1
    <3>2. log[i].edits \subseteq 1 .. n
      BY <1>3, <2>1 DEF GoodLog
    <3> QED
      BY <3>1, <3>2
  <2>2. CASE i = Len(log) + 1
    <3>1. new[i] = m
      BY <1>3, <2>2
    <3>2. m.session <= s + 1
      BY <1>2
    <3>3. m.edits \subseteq 1 .. n
      BY <1>2
    <3> QED
      BY <3>1, <3>2, <3>3
  <2> QED
    BY <1>3, <2>1, <2>2
<1>9. \E i \in DOMAIN new : new[i].kind = "snapshot" /\ new[i].session = s + 1
  BY <1>2, <1>3
<1> QED
  BY <1>3, <1>6, <1>7, <1>8, <1>9 DEF GoodLog, m, new

-----------------------------------------------------------------------------
(* The invariant.                                                          *)

(* processMutationBatch makes ops of the batch's own edits only.           *)
LEMMA DiffsOfBatch ==
  ASSUME NEW batch
  PROVE  Diffs(batch) \subseteq batch
BY DEF Diffs

(* Sending what the pool yields leaves the log well-formed, with room for  *)
(* whatever is younger than the pool.                                      *)
LEMMA FlushKeepsLog ==
  ASSUME PoolFollowsLog, NEW msgs \in SendDiffs(session, Diffs(pending))
  PROVE  /\ msgs \in Seq(Message)
         /\ GoodLog(sent \o msgs, session, page)
         /\ Room(sent \o msgs, session, queued)
<1>1. session \in Nat /\ page \in Nat /\ pending \subseteq 1 .. page
  BY DEF PoolFollowsLog, TypeOK
<1>2. GoodLog(sent, session, page)
  BY DEF PoolFollowsLog
<1>3. Diffs(pending) \subseteq pending
  BY DiffsOfBatch
<1>4. Room(sent, session, Diffs(pending)) /\ Room(sent, session, queued)
  BY <1>3 DEF PoolFollowsLog, Room
<1>5. \A a \in Diffs(pending), b \in queued : a < b
  BY <1>3 DEF PoolFollowsLog
<1>6. Diffs(pending) \in SUBSET (1 .. page)
  BY <1>1, <1>3
<1> QED
  BY <1>1, <1>2, <1>4, <1>5, <1>6, AppendDiffs

(* A capture that has not started satisfies the invariant.                 *)
LEMMA PoolFollowsLogInit == Init => PoolFollowsLog
<1> SUFFICES ASSUME Init PROVE PoolFollowsLog
  OBVIOUS
<1>1. sent = <<>> /\ <<>> \in Seq(Message) /\ DOMAIN <<>> = {}
  BY DEF Init
<1>2. TypeOK
  <2>1. 0 \in 0 .. MaxEdits /\ 0 \in 0 .. MaxSessions
    BY DEF CaptureAssumption
  <2>2. sent \in Seq(Message)
    BY <1>1
  <2> QED
    BY <2>1, <2>2 DEF Init, TypeOK
<1>3. GoodLog(sent, session, page)
  BY <1>1 DEF Init, GoodLog, OnceInOrder, SnapshotFirst
<1>4. Room(sent, session, pending \cup queued)
  BY <1>1 DEF Room
<1>5. pending = {}
  BY DEF Init
<1> QED
  BY <1>2, <1>3, <1>4, <1>5 DEF PoolFollowsLog

(* Every step of the page, the observer, the flush and the host keeps it.  *)
LEMMA PoolFollowsLogStep ==
  PoolFollowsLog /\ [Next]_captureVars => PoolFollowsLog'
<1> SUFFICES ASSUME PoolFollowsLog, [Next]_captureVars
             PROVE  PoolFollowsLog'
  OBVIOUS
<1>1. /\ page \in 0 .. MaxEdits /\ page \in Nat
      /\ session \in 0 .. MaxSessions /\ session \in Nat
      /\ queued \subseteq 1 .. page /\ pending \subseteq 1 .. page
      /\ owed \subseteq 1 .. page
      /\ observing \in BOOLEAN /\ streaming \in BOOLEAN /\ tracked \in BOOLEAN
      /\ careless \in BOOLEAN
      /\ sent \in Seq(Message)
  BY DEF PoolFollowsLog, TypeOK
<1>2. /\ GoodLog(sent, session, page)
      /\ Room(sent, session, pending \cup queued)
      /\ \A a \in pending, b \in queued : a < b
  BY DEF PoolFollowsLog
<1>3. ASSUME NEW chunks \in FinalFlush
      PROVE  /\ chunks \in Seq(Message)
             /\ GoodLog(sent \o chunks, session, page)
             /\ sent \o chunks \in Seq(Message)
             /\ Room(sent \o chunks, session, queued)
  BY FlushKeepsLog DEF FinalFlush, GoodLog
<1>4. Visible \in SUBSET (1 .. page)
  BY DEF Visible
<1>5. CASE Edit
  <2>1. page + 1 \in 1 .. MaxEdits /\ 1 .. page \subseteq 1 .. (page + 1)
    BY <1>1, <1>5 DEF Edit
  <2>2. TypeOK'
    BY <1>1, <1>5, <2>1 DEF Edit, TypeOK
  <2>3. GoodLog(sent, session, page + 1)
    BY <1>2, <2>1 DEF GoodLog
  <2>4. Room(sent, session, {page + 1})
    BY <1>1, <1>2 DEF Room, GoodLog
  <2>5. Room(sent, session, pending \cup (queued \cup {page + 1}))
    BY <1>2, <2>4 DEF Room
  <2>6. \A a \in pending, b \in queued \cup {page + 1} : a < b
    BY <1>1, <1>2
  <2>7. queued' = queued \/ queued' = queued \cup {page + 1}
    BY <1>5 DEF Edit
  <2>8. /\ GoodLog(sent, session, page)'
        /\ Room(sent, session, pending \cup queued)'
        /\ (\A a \in pending, b \in queued : a < b)'
    BY <1>2, <1>5, <2>3, <2>5, <2>6, <2>7 DEF Edit
  <2> QED
    BY <2>2, <2>8 DEF PoolFollowsLog
<1>6. CASE ObserverCallback
  <2>1. TypeOK'
    BY <1>1, <1>6 DEF ObserverCallback, TypeOK
  <2>2. pending' \cup queued' = pending \cup queued /\ queued' = {}
    BY <1>6 DEF ObserverCallback
  <2> QED
    BY <1>2, <1>6, <2>1, <2>2 DEF ObserverCallback, PoolFollowsLog
<1>7. CASE Flush
  <2>1. PICK chunks \in FinalFlush : sent' = sent \o chunks
    BY <1>7 DEF Flush, FinalFlush
  <2>2. GoodLog(sent', session, page) /\ Room(sent', session, queued)
    BY <1>3, <2>1
  <2>3. TypeOK'
    BY <1>1, <1>7, <2>2 DEF Flush, TypeOK, GoodLog
  <2>4. pending' = {} /\ queued' = queued /\ session' = session /\ page' = page
    BY <1>7 DEF Flush
  <2>5. pending' \cup queued' = queued
    BY <2>4
  <2> QED
    BY <2>2, <2>3, <2>4, <2>5 DEF PoolFollowsLog
<1>8. CASE Start
  <2>1. PICK chunks \in (IF streaming THEN FinalFlush ELSE {<<>>}) :
               sent' = sent \o chunks \o <<Snapshot(session + 1, Visible)>>
    BY <1>8 DEF Start
  <2> DEFINE before == sent \o chunks
  <2>2. GoodLog(before, session, page)
    <3>1. sent \o <<>> = sent
      BY <1>1, ConcatEmptySeq
    <3>2. chunks \in FinalFlush \/ chunks = <<>>
      OBVIOUS
    <3> QED
      BY <1>2, <1>3, <3>1, <3>2
  <2> HIDE DEF before
  <2>3. GoodLog(before \o <<Snapshot(session + 1, Visible)>>, session + 1, page)
    BY <1>1, <1>4, <2>2, AppendSnapshot
  <2>4. /\ sent' = before \o <<Snapshot(session + 1, Visible)>>
        /\ session' = session + 1 /\ page' = page
        /\ pending' = {} /\ queued' = {}
    BY <1>8, <2>1 DEF Start, StartMutationStream, before
  <2>5. session + 1 \in 0 .. MaxSessions
    BY <1>1, <1>8 DEF Start
  <2>6. TypeOK'
    BY <1>1, <1>8, <2>3, <2>4, <2>5 DEF Start, StartMutationStream, TypeOK, GoodLog
  <2>7. Room(sent', session', pending' \cup queued')
    BY <2>4 DEF Room
  <2> QED
    BY <2>3, <2>4, <2>6, <2>7 DEF PoolFollowsLog
<1>9. ASSUME Stop \/ Pause PROVE PoolFollowsLog'
  <2>1. PICK chunks \in FinalFlush : sent' = sent \o chunks
    BY <1>9 DEF Stop, Pause
  <2>2. /\ pending' = {} /\ queued' = {} /\ observing' = FALSE
        /\ page' = page /\ session' = session
        /\ streaming' \in BOOLEAN /\ tracked' \in BOOLEAN
        /\ owed' = {} \/ owed' = owed
        /\ careless' \in BOOLEAN
    BY <1>1, <1>9 DEF Stop, Pause, StopMutationStream
  <2>3. GoodLog(sent', session, page) /\ sent' \in Seq(Message)
    BY <1>3, <2>1
  <2>4. TypeOK'
    BY <1>1, <2>2, <2>3 DEF TypeOK
  <2>5. Room(sent', session', pending' \cup queued')
    BY <2>2 DEF Room
  <2> QED
    BY <2>2, <2>3, <2>4, <2>5 DEF PoolFollowsLog
<1>10. CASE Resume
  <2>1. /\ pending' = {} /\ queued' = {} /\ observing' = TRUE /\ streaming' = TRUE
        /\ UNCHANGED <<page, tracked, session, sent, owed>>
        /\ careless' \in BOOLEAN
    BY <1>1, <1>10 DEF Resume, StartMutationStream
  <2>2. TypeOK'
    BY <1>1, <2>1 DEF TypeOK
  <2>3. Room(sent', session', pending' \cup queued')
    BY <2>1 DEF Room
  <2> QED
    BY <1>2, <2>1, <2>2, <2>3 DEF PoolFollowsLog
<1>11. CASE UNCHANGED captureVars
  BY <1>11 DEF captureVars, PoolFollowsLog, TypeOK
<1> QED
  BY <1>5, <1>6, <1>7, <1>8, <1>9, <1>10, <1>11 DEF Next

-----------------------------------------------------------------------------
(* The theorems.                                                           *)

(* In every reachable state the pool and the queue hold only edits younger *)
(* than what the session has sent, pool before queue.                      *)
THEOREM PoolAlwaysFollowsLog == Spec => []PoolFollowsLog
BY PoolFollowsLogInit, PoolFollowsLogStep, PTL DEF Spec

(* Type correctness of the capture core.                                   *)
THEOREM TypeCorrect == Spec => []TypeOK
<1>1. PoolFollowsLog => TypeOK
  BY DEF PoolFollowsLog
<1> QED
  BY <1>1, PoolAlwaysFollowsLog, PTL

(* Within a session every edit is sent at most once, and those of the      *)
(* document, as those of each shadow root, in page order, whatever the     *)
(* host calls and into however many messages a batch is cut.               *)
THEOREM EditsOnceInOrder == Spec => []EachEditOnceInOrder
<1>1. PoolFollowsLog => EachEditOnceInOrder
  BY DEF PoolFollowsLog, GoodLog, EachEditOnceInOrder
<1> QED
  BY <1>1, PoolAlwaysFollowsLog, PTL

(* A session's diffs follow its snapshot and sessions never interleave.    *)
THEOREM ContiguousSessions == Spec => []SessionsAreContiguous
<1>1. PoolFollowsLog => SessionsAreContiguous
  BY DEF PoolFollowsLog, GoodLog, SessionsAreContiguous
<1> QED
  BY <1>1, PoolAlwaysFollowsLog, PTL

-----------------------------------------------------------------------------
(* What is owed is sent.                                                   *)

(* Appending to a log keeps what it carries and adds what is appended.     *)
LEMMA EditsOfConcat ==
  ASSUME NEW log \in Seq(Message), NEW ext \in Seq(Message), NEW s
  PROVE  EditsIn(log, s) \cup EditsIn(ext, s) \subseteq EditsIn(log \o ext, s)
<1> DEFINE new == log \o ext
<1>1. /\ new \in Seq(Message)
      /\ Len(new) = Len(log) + Len(ext)
      /\ \A i \in 1 .. (Len(log) + Len(ext)) :
           new[i] = IF i <= Len(log) THEN log[i] ELSE ext[i - Len(log)]
  BY ConcatProperties
<1>2. /\ Len(log) \in Nat /\ DOMAIN log = 1 .. Len(log)
      /\ Len(ext) \in Nat /\ DOMAIN ext = 1 .. Len(ext)
  BY LenProperties
<1>3. DOMAIN new = 1 .. (Len(log) + Len(ext))
  BY <1>1, LenProperties
<1> HIDE DEF new
<1>4. ASSUME NEW i \in DOMAIN log
      PROVE  i \in DOMAIN new /\ new[i] = log[i]
  BY <1>1, <1>2, <1>3
<1>5. ASSUME NEW i \in DOMAIN ext
      PROVE  Len(log) + i \in DOMAIN new /\ new[Len(log) + i] = ext[i]
  <2>1. /\ Len(log) + i \in 1 .. (Len(log) + Len(ext))
        /\ ~(Len(log) + i <= Len(log))
        /\ (Len(log) + i) - Len(log) = i
    BY <1>2
  <2> QED
    BY <1>1, <1>3, <2>1
<1>6. EditsIn(log, s) \subseteq EditsIn(new, s)
  BY <1>4 DEF EditsIn
<1>7. EditsIn(ext, s) \subseteq EditsIn(new, s)
  BY <1>5 DEF EditsIn
<1> QED
  BY <1>6, <1>7 DEF new

(* However sendMutationDiffs cuts a list of ops, it sends all of them.     *)
LEMMA SendsEverything ==
  ASSUME page \in Nat, NEW log \in Seq(Message), NEW s \in Nat,
         NEW ops \in SUBSET Nat, NEW msgs \in SendDiffs(s, ops)
  PROVE  EditsIn(log, s) \cup ops \subseteq EditsIn(log \o msgs, s)
<1>0. PICK k \in 0 .. page : \E chunk \in Cuts(ops, k) : msgs = Chunks(s, ops, k, chunk)
  BY DEF SendDiffs
<1>1. PICK chunk \in Cuts(ops, k) : msgs = Chunks(s, ops, k, chunk)
  BY <1>0
<1>2. msgs \in Seq(Message)
  BY ChunksOfOps DEF CarriesOps
<1>3. DOMAIN msgs = 1 .. k
  BY <1>1 DEF Chunks
<1>4. ASSUME NEW e \in ops PROVE e \in EditsIn(msgs, s)
  <2>1. chunk[e] \in 1 .. k
    BY <1>1 DEF Cuts
  <2>2. msgs[chunk[e]].session = s /\ e \in msgs[chunk[e]].edits
    BY <1>1, <2>1 DEF Chunks, Mutations
  <2> QED
    BY <1>3, <2>1, <2>2 DEF EditsIn
<1> QED
  BY <1>2, <1>4, EditsOfConcat

(* A flush while the node mirror is populated sends all it owes.           *)
LEMMA FlushPaysPool ==
  ASSUME TypeOK, tracked, NEW msgs \in SendDiffs(session, Diffs(pending))
  PROVE  SentIn(session) \cup (pending \ NoDiff) \subseteq EditsIn(sent \o msgs, session)
<1>1. Diffs(pending) = pending \ NoDiff
  BY DEF Diffs
<1>2. /\ sent \in Seq(Message) /\ session \in Nat /\ page \in Nat
      /\ Diffs(pending) \in SUBSET Nat
  BY <1>1 DEF TypeOK
<1>3. EditsIn(sent, session) \cup Diffs(pending) \subseteq EditsIn(sent \o msgs, session)
  BY <1>2, SendsEverything
<1> QED
  BY <1>1, <1>3 DEF SentIn

(* A capture that has not started owes nothing.                            *)
LEMMA OwedIsKeptInit == Init => OwedIsKept
BY DEF Init, OwedIsKept, OnlyPausedEditsMissed

(* Every step keeps OwedIsKept.                                            *)
LEMMA OwedIsKeptStep ==
  TypeOK /\ OwedIsKept /\ [Next]_captureVars => OwedIsKept'
<1> SUFFICES ASSUME TypeOK, OwedIsKept, [Next]_captureVars
             PROVE  OwedIsKept'
  OBVIOUS
<1>1. /\ ~observing => pending = {} /\ queued = {}
      /\ ~careless => /\ observing => streaming
                      /\ streaming => tracked
                      /\ owed # {} => tracked
      /\ ~careless => owed \ NoDiff \subseteq SentIn(session) \cup pending \cup queued
  BY DEF OwedIsKept, OnlyPausedEditsMissed
<1>2. page \in Nat
  BY DEF TypeOK
<1>3. CASE Edit
  <2>1. SentIn(session)' = SentIn(session)
    BY <1>3 DEF Edit, SentIn
  <2> QED
    BY <1>1, <1>3, <2>1 DEF Edit, OwedIsKept, OnlyPausedEditsMissed
<1>4. CASE ObserverCallback
  <2>1. SentIn(session)' = SentIn(session)
    BY <1>4 DEF ObserverCallback, SentIn
  <2> QED
    BY <1>1, <1>4, <2>1 DEF ObserverCallback, OwedIsKept, OnlyPausedEditsMissed
<1>5. CASE Flush
  <2>1. PICK chunks \in SendDiffs(session, Diffs(pending)) : sent' = sent \o chunks
    BY <1>5 DEF Flush
  <2>2. SentIn(session)' = EditsIn(sent \o chunks, session)
    BY <1>5, <2>1 DEF Flush, SentIn
  <2>3. ASSUME ~careless, owed # {}
        PROVE  owed \ NoDiff \subseteq SentIn(session)' \cup queued
    <3>1. SentIn(session) \cup (pending \ NoDiff) \subseteq SentIn(session)'
      BY <1>1, <1>2, <2>2, <2>3, FlushPaysPool
    <3> QED
      BY <1>1, <2>3, <3>1
  <2> QED
    BY <1>1, <1>5, <2>3 DEF Flush, OwedIsKept, OnlyPausedEditsMissed
<1>6. CASE Start
  BY <1>6 DEF Start, StartMutationStream, OwedIsKept, OnlyPausedEditsMissed
<1>7. CASE Stop
  BY <1>7 DEF Stop, StopMutationStream, OwedIsKept, OnlyPausedEditsMissed
<1>8. CASE Pause
  <2>1. PICK chunks \in SendDiffs(session, Diffs(pending)) : sent' = sent \o chunks
    BY <1>8 DEF Pause, FinalFlush
  <2>2. SentIn(session)' = EditsIn(sent \o chunks, session)
    BY <1>8, <2>1 DEF Pause, SentIn
  <2>3. ASSUME ~careless', owed # {}
        PROVE  owed \ NoDiff \subseteq SentIn(session)'
    <3>1. ~careless /\ queued = {}
      BY <1>8, <2>3 DEF Pause
    <3>2. SentIn(session) \cup (pending \ NoDiff) \subseteq SentIn(session)'
      BY <1>1, <1>2, <2>2, <2>3, <3>1, FlushPaysPool
    <3> QED
      BY <1>1, <3>1, <3>2
  <2> QED
    BY <1>1, <1>8, <2>3 DEF Pause, StopMutationStream, OwedIsKept, OnlyPausedEditsMissed
<1>9. CASE Resume
  <2>1. SentIn(session)' = SentIn(session)
    BY <1>9 DEF Resume, SentIn
  <2> QED
    BY <1>1, <1>9, <2>1
       DEF Resume, StartMutationStream, Paused, OwedIsKept, OnlyPausedEditsMissed
<1>10. CASE UNCHANGED captureVars
  BY <1>1, <1>10 DEF captureVars, OwedIsKept, OnlyPausedEditsMissed, SentIn
<1> QED
  BY <1>3, <1>4, <1>5, <1>6, <1>7, <1>8, <1>9, <1>10 DEF Next

(* A host that pauses between tasks and resumes only what it paused misses *)
(* nothing but what the page does while paused.                            *)
THEOREM NothingElseMissed == Spec => []OnlyPausedEditsMissed
<1>1. TypeOK /\ OwedIsKept /\ [Next]_captureVars => OwedIsKept'
  BY OwedIsKeptStep
<1>2. OwedIsKept => OnlyPausedEditsMissed
  BY DEF OwedIsKept
<1> QED
  BY <1>1, <1>2, OwedIsKeptInit, TypeCorrect, PTL DEF Spec

-----------------------------------------------------------------------------
(* The capture implements an ordered feed.                                 *)

(* What the pool yields is undelivered, and is sent as a batch of the feed.*)
LEMMA PoolIsUndelivered ==
  ASSUME PoolFollowsLog, NEW msgs \in SendDiffs(session, Diffs(pending))
  PROVE  /\ Diffs(pending) \in SUBSET Feed!Showing
         /\ Feed!Undelivered(Diffs(pending))
         /\ \E k \in 0 .. page : \E place \in Feed!Places(Diffs(pending), k) :
              msgs = Feed!Batch(Diffs(pending), k, place)
<1>1. Diffs(pending) \subseteq pending /\ Diffs(pending) \subseteq Feed!Showing
  BY DEF PoolFollowsLog, TypeOK, Diffs, Feed!Showing
<1>2. Feed!Undelivered(Diffs(pending))
  BY <1>1 DEF PoolFollowsLog, Room, Feed!Undelivered
<1>0. PICK k \in 0 .. page : \E chunk \in Cuts(Diffs(pending), k) :
        msgs = Chunks(session, Diffs(pending), k, chunk)
  BY DEF SendDiffs
<1>3. PICK chunk \in Cuts(Diffs(pending), k) :
        msgs = Chunks(session, Diffs(pending), k, chunk)
  BY <1>0
<1>4. ASSUME NEW a \in Diffs(pending), NEW b \in Diffs(pending), chunk[a] < chunk[b]
      PROVE  b \in InShadow \/ (a \notin InShadow /\ a < b)
  <2>1. a \in Nat /\ b \in Nat
    <3>1. pending \subseteq 1 .. page /\ page \in Nat
      BY DEF PoolFollowsLog, TypeOK
    <3>2. a \in pending /\ b \in pending
      BY <1>1
    <3> QED
      BY <3>1, <3>2
  <2>2. ~Before(Diffs(pending), b, a)
    <3>1. /\ chunk \in [Diffs(pending) -> 1 .. k]
          /\ Before(Diffs(pending), b, a) => chunk[b] <= chunk[a]
      BY <1>3 DEF Cuts
    <3>2. chunk[a] \in Nat /\ chunk[b] \in Nat
      BY <3>1
    <3> QED
      BY <1>4, <3>1, <3>2
  <2> QED
    BY <2>1, <2>2 DEF Before
<1>5. chunk \in Feed!Places(Diffs(pending), k)
  BY <1>3, <1>4 DEF Cuts, Feed!Places
<1>6. msgs = Feed!Batch(Diffs(pending), k, chunk)
  BY <1>3 DEF Chunks, Mutations, Feed!Batch, Feed!Diff
<1> QED
  BY <1>1, <1>2, <1>5, <1>6

(* Every step of the capture is a step of the feed, or none.               *)
LEMMA FeedStep ==
  PoolFollowsLog /\ [Next]_captureVars => [Feed!FeedNext]_(Feed!feedVars)
<1> SUFFICES ASSUME PoolFollowsLog, [Next]_captureVars
             PROVE  [Feed!FeedNext]_(Feed!feedVars)
  OBVIOUS
<1>1. CASE Edit
  BY <1>1 DEF Edit, Feed!FeedNext, Feed!Advance
<1>2. CASE ObserverCallback
  BY <1>2 DEF ObserverCallback, Feed!feedVars
<1>3. ASSUME Flush \/ Stop \/ Pause
      PROVE  Feed!Deliver
  <2>1. PICK chunks \in SendDiffs(session, Diffs(pending)) : sent' = sent \o chunks
    BY <1>3 DEF Flush, Stop, Pause, FinalFlush
  <2>2. page' = page /\ session' = session
    BY <1>3 DEF Flush, Stop, Pause
  <2> QED
    BY <2>1, <2>2, PoolIsUndelivered DEF Feed!Deliver
<1>4. CASE Start
  <2>1. PICK chunks \in (IF streaming THEN FinalFlush ELSE {<<>>}) :
               sent' = sent \o chunks \o <<Snapshot(session + 1, Visible)>>
    BY <1>4 DEF Start
  <2>2. session' = session + 1 /\ page' = page
    BY <1>4 DEF Start
  <2>3. Snapshot(session + 1, Visible)
          = [kind |-> "snapshot", session |-> session + 1, edits |-> Feed!Showing]
    BY DEF Snapshot, Visible, Feed!Showing
  <2>4. CASE streaming
    <3>1. chunks \in SendDiffs(session, Diffs(pending))
      BY <2>1, <2>4 DEF FinalFlush
    <3>2. \E k \in 0 .. page : \E place \in Feed!Places(Diffs(pending), k) :
            chunks = Feed!Batch(Diffs(pending), k, place)
      BY <3>1, PoolIsUndelivered
    <3> QED
      BY <2>1, <2>2, <2>3, <3>1, <3>2, PoolIsUndelivered DEF Feed!FeedNext, Feed!Begin
  <2>5. CASE ~streaming
    <3> DEFINE none == [e \in {} |-> 0]
    <3>1. page \in Nat
      BY DEF PoolFollowsLog, TypeOK
    <3>2. {} \in SUBSET Feed!Showing /\ Feed!Undelivered({}) /\ 0 \in 0 .. page
      BY <3>1 DEF Feed!Undelivered
    <3>3. none \in Feed!Places({}, 0)
      BY DEF Feed!Places
    <3>4. Feed!Batch({}, 0, none) = <<>>
      BY DEF Feed!Batch
    <3>5. chunks = <<>>
      BY <2>1, <2>5
    <3> HIDE DEF none
    <3> QED
      BY <2>1, <2>2, <2>3, <3>2, <3>3, <3>4, <3>5 DEF Feed!FeedNext, Feed!Begin
  <2> QED
    BY <2>4, <2>5
<1>5. CASE Resume
  BY <1>5 DEF Resume, Feed!feedVars
<1>6. CASE UNCHANGED captureVars
  BY <1>6 DEF captureVars, Feed!feedVars
<1> QED
  BY <1>1, <1>2, <1>3, <1>4, <1>5, <1>6 DEF Next, Feed!FeedNext

(* The capture, for any bounds and any host, is an ordered feed.           *)
THEOREM CaptureIsOrderedFeed == Spec => ImplementsFeed
<1>1. Init => Feed!FeedInit
  BY DEF Init, Feed!FeedInit
<1> QED
  BY <1>1, FeedStep, PoolAlwaysFollowsLog, PTL DEF Spec, ImplementsFeed, Feed!FeedSpec

-----------------------------------------------------------------------------
(* The flush frames and their watchdog.                                    *)

USE WatchdogAssumption

(* The invariant of the watchdog, in its parts.                            *)

ClocksOK ==
  /\ page \in Nat
  /\ sinceDrain \in 0 .. (StaleTicks + 1)
  /\ waited \in 0 .. (StaleTicks + 1)
  /\ painting \in BOOLEAN
  /\ disturbed \in BOOLEAN
  /\ batchTimer \in {"none", "next", "due"}

(* No record has waited longer than the last drain is ago: that is why the *)
(* watchdog may measure the latter to bound the former.                    *)
WaitIsMeasured == pending # {} => waited <= sinceDrain

(* What the last frame found is older than what the observer holds; and    *)
(* unless the observer has run inside that frame, it is gone, or the frame *)
(* is still to call its flush.                                             *)
FrameFlushesFound ==
  /\ carried \cup pending \cup queued \subseteq 1 .. page
  /\ carried \cap queued = {}
  /\ batchTimer = "due" => painting
  /\ ~disturbed => carried \cap pending = {} \/ (painting /\ batchTimer = "due")

WatchdogInv ==
  ClocksOK /\ PoolIsScheduled /\ WaitIsMeasured /\ NothingOverstays /\ FrameFlushesFound

(* The clocks stop one past the threshold and keep their order.            *)
LEMMA LaterIsMonotone ==
  ASSUME NEW a \in 0 .. (StaleTicks + 1), NEW b \in 0 .. (StaleTicks + 1),
         NEW d \in TickLength
  PROVE  /\ Later(a, d) \in 0 .. (StaleTicks + 1)
         /\ a <= b => Later(a, d) <= Later(b, d)
BY DEF Later

(* Nothing is pooled, scheduled or found before the first start().         *)
LEMMA WatchdogInvInit == WatchdogInit => WatchdogInv
<1> SUFFICES ASSUME WatchdogInit PROVE WatchdogInv
  OBVIOUS
<1>1. /\ page = 0 /\ pending = {} /\ queued = {} /\ batchTimer = "none"
      /\ painting = FALSE /\ sinceDrain = 0 /\ waited = 0 /\ carried = {}
      /\ disturbed = FALSE
  BY DEF WatchdogInit, Init
<1>2. 0 \in Nat /\ 0 \in 0 .. (StaleTicks + 1)
  BY DEF WatchdogAssumption
<1>3. ClocksOK
  BY <1>1, <1>2, Zenon DEF ClocksOK
<1> QED
  BY <1>1, <1>3 DEF WatchdogInv, PoolIsScheduled, WaitIsMeasured,
                    NothingOverstays, FrameFlushesFound

(* A step that leaves the pool empty and the clocks in range.              *)
LEMMA EmptyPool ==
  ASSUME ClocksOK', pending' = {},
         carried' = carried, queued' \subseteq queued, page' = page,
         painting' = painting, disturbed' = disturbed,
         batchTimer' = "none" \/ batchTimer' = batchTimer,
         FrameFlushesFound
  PROVE  WatchdogInv'
BY DEF WatchdogInv, PoolIsScheduled, WaitIsMeasured, NothingOverstays,
       FrameFlushesFound

(* Every step of the browser, the watchdog and the host keeps it.          *)
LEMMA WatchdogInvStep ==
  WatchdogInv /\ [WatchdogNext]_watchdogVars => WatchdogInv'
<1> SUFFICES ASSUME WatchdogInv, [WatchdogNext]_watchdogVars
             PROVE  WatchdogInv'
  OBVIOUS
<1>1. /\ ClocksOK /\ FrameFlushesFound
      /\ pending # {} => batchTimer # "none" /\ waited <= sinceDrain
                         /\ waited <= StaleTicks
  BY DEF WatchdogInv, PoolIsScheduled, WaitIsMeasured, NothingOverstays
<1>2. CASE PageEdit
  <2>1. /\ page' = page + 1
        /\ queued' \subseteq queued \cup {page + 1}
        /\ UNCHANGED <<pending, batchTimer, painting, sinceDrain, waited, carried,
                       disturbed>>
    BY <1>2 DEF PageEdit, Edit, scheduleVars, timerVars, historyVars
  <2>2. page + 1 \in Nat /\ page + 1 \notin 1 .. page /\ 1 .. page \subseteq 1 .. (page + 1)
    BY <1>1 DEF ClocksOK
  <2>3. ClocksOK'
    BY <1>1, <2>1, <2>2 DEF ClocksOK
  <2>4. FrameFlushesFound'
    <3>1. /\ carried \cup pending \cup (queued \cup {page + 1}) \subseteq 1 .. (page + 1)
          /\ carried \cap (queued \cup {page + 1}) = {}
      <4>1. page + 1 \in 1 .. (page + 1)
        BY <1>1 DEF ClocksOK
      <4> QED
        BY <1>1, <2>2, <4>1 DEF FrameFlushesFound
    <3>2. carried' \cup pending' \cup queued' \subseteq 1 .. page' /\ carried' \cap queued' = {}
      BY <2>1, <3>1
    <3> QED
      BY <1>1, <2>1, <3>2 DEF FrameFlushesFound
  <2> QED
    BY <1>1, <2>1, <2>3, <2>4
       DEF WatchdogInv, PoolIsScheduled, WaitIsMeasured, NothingOverstays
<1>3. CASE Callback
  <2>1. /\ pending' = pending \cup queued /\ queued' = {} /\ page' = page
        /\ batchTimer' = "next"
        /\ waited' = IF pending = {} THEN 0 ELSE waited
        /\ disturbed' = (disturbed \/ painting)
        /\ UNCHANGED <<painting, sinceDrain, carried>>
    BY <1>3 DEF Callback, ObserverCallback, RequestFrame
  <2>2. ClocksOK'
    BY <1>1, <2>1 DEF ClocksOK
  <2>3. FrameFlushesFound'
    BY <1>1, <2>1 DEF FrameFlushesFound, ClocksOK
  <2>4. waited' <= sinceDrain' /\ waited' <= StaleTicks
    BY <1>1, <2>1 DEF ClocksOK
  <2> QED
    BY <2>1, <2>2, <2>3, <2>4
       DEF WatchdogInv, PoolIsScheduled, WaitIsMeasured, NothingOverstays
<1>4. CASE FrameBegin
  <2>1. /\ ~painting /\ queued = {} /\ painting' = TRUE
        /\ batchTimer' = IF batchTimer = "next" THEN "due" ELSE batchTimer
        /\ carried' = pending /\ disturbed' = FALSE
        /\ UNCHANGED <<page, queued, pending, sinceDrain, waited>>
    BY <1>4 DEF FrameBegin, captureVars
  <2>2. ClocksOK'
    BY <1>1, <2>1 DEF ClocksOK
  <2>3. FrameFlushesFound'
    <3>1. batchTimer' = "due" \/ pending = {}
      BY <1>1, <2>1 DEF ClocksOK, FrameFlushesFound
    <3> QED
      BY <1>1, <2>1, <3>1 DEF FrameFlushesFound
  <2> QED
    BY <1>1, <2>1, <2>2, <2>3
       DEF WatchdogInv, PoolIsScheduled, WaitIsMeasured, NothingOverstays
<1>5. CASE FrameFlush
  <2>1. /\ pending' = {} /\ queued' = queued /\ page' = page
        /\ batchTimer' = "none"
        /\ sinceDrain' = 0 \/ sinceDrain' = sinceDrain
        /\ UNCHANGED <<painting, waited, carried, disturbed>>
    BY <1>5 DEF FrameFlush, Flush, CountAsDrain, captureVars, historyVars
  <2>2. ClocksOK'
    BY <1>1, <2>1 DEF ClocksOK
  <2> QED
    BY <1>1, <2>1, <2>2, EmptyPool
<1>6. CASE FrameEnd
  <2>1. /\ painting' = FALSE /\ batchTimer # "due"
        /\ UNCHANGED <<page, queued, pending, batchTimer, sinceDrain, waited, carried,
                       disturbed>>
    BY <1>6 DEF FrameEnd, captureVars, historyVars
  <2> QED
    BY <1>1, <2>1 DEF WatchdogInv, ClocksOK, PoolIsScheduled, WaitIsMeasured,
                      NothingOverstays, FrameFlushesFound
<1>7. CASE WatchdogTick
  <2>1. PICK d \in TickLength : Tick(d) \/ Rescue(d)
    BY <1>7 DEF WatchdogTick
  <2>2. CASE Tick(d)
    <3>1. /\ Later(sinceDrain, d) <= StaleTicks \/ pending = {}
          /\ sinceDrain' = Later(sinceDrain, d)
          /\ waited' = IF pending = {} THEN 0 ELSE Later(waited, d)
          /\ UNCHANGED <<page, queued, pending, batchTimer, painting, carried, disturbed>>
      BY <2>2 DEF Tick, captureVars
    <3>2. ClocksOK'
      BY <1>1, <3>1, LaterIsMonotone DEF ClocksOK
    <3>3. pending # {} => waited' <= sinceDrain' /\ sinceDrain' <= StaleTicks
      BY <1>1, <3>1, LaterIsMonotone DEF ClocksOK
    <3>4. pending' # {} => waited' <= sinceDrain' /\ waited' <= StaleTicks
      BY <3>1, <3>2, <3>3 DEF ClocksOK
    <3>5. FrameFlushesFound'
      BY <1>1, <3>1 DEF FrameFlushesFound
    <3> QED
      BY <1>1, <3>1, <3>2, <3>4, <3>5
         DEF WatchdogInv, PoolIsScheduled, WaitIsMeasured, NothingOverstays
  <2>3. CASE Rescue(d)
    <3>1. /\ pending' = {} /\ queued' = queued /\ page' = page
          /\ batchTimer' = "none"
          /\ sinceDrain' = 0 \/ sinceDrain' = Later(sinceDrain, d)
          /\ UNCHANGED <<painting, waited, carried, disturbed>>
      BY <2>3 DEF Rescue, Flush, historyVars
    <3>2. ClocksOK'
      BY <1>1, <3>1, LaterIsMonotone DEF ClocksOK
    <3> QED
      BY <1>1, <3>1, <3>2, EmptyPool
  <2> QED
    BY <2>1, <2>2, <2>3
<1>8. ASSUME HostStart \/ HostResume \/ HostStop \/ HostPause
      PROVE  WatchdogInv'
  <2>1. /\ pending' = {} /\ queued' = {} /\ page' = page
        /\ batchTimer' = "none" \/ batchTimer' = batchTimer
        /\ sinceDrain' = 0 \/ sinceDrain' = sinceDrain
        /\ UNCHANGED <<painting, waited, carried, disturbed>>
    BY <1>8 DEF HostStart, HostResume, HostStop, HostPause, Start, Resume, Stop,
                Pause, StartMutationStream, StopMutationStream, Arm, Disarm,
                historyVars
  <2>2. ClocksOK'
    BY <1>1, <2>1 DEF ClocksOK
  <2> QED
    BY <1>1, <2>1, <2>2, EmptyPool
<1>9. CASE UNCHANGED watchdogVars
  BY <1>9 DEF watchdogVars, captureVars, scheduleVars, timerVars, historyVars,
              WatchdogInv, ClocksOK, PoolIsScheduled, WaitIsMeasured,
              NothingOverstays, FrameFlushesFound
<1> QED
  BY <1>2, <1>3, <1>4, <1>5, <1>6, <1>7, <1>8, <1>9 DEF WatchdogNext

-----------------------------------------------------------------------------
(* The theorems.                                                           *)

LEMMA WatchdogInvAlways == WatchdogSpec => []WatchdogInv
BY WatchdogInvInit, WatchdogInvStep, PTL DEF WatchdogSpec

(* No path that clears batchTimer ever leaves records behind.              *)
THEOREM PoolAlwaysScheduled == WatchdogSpec => []PoolIsScheduled
<1>1. WatchdogInv => PoolIsScheduled
  BY DEF WatchdogInv
<1> QED
  BY <1>1, WatchdogInvAlways, PTL

(* Measuring the time since the last drain bounds the age of every record. *)
THEOREM NothingEverOverstays == WatchdogSpec => []NothingOverstays
<1>1. WatchdogInv => NothingOverstays
  BY DEF WatchdogInv
<1> QED
  BY <1>1, WatchdogInvAlways, PTL

(* A frame the page does not disturb flushes all that was pooled before it.*)
THEOREM QuietFramesAlwaysFlush == WatchdogSpec => []QuietFramesFlush
<1>1. WatchdogInv => QuietFramesFlush
  BY DEF WatchdogInv, FrameFlushesFound, QuietFramesFlush
<1> QED
  BY <1>1, WatchdogInvAlways, PTL

-----------------------------------------------------------------------------
(* The room.                                                               *)

HIDE CaptureAssumption

FrameType == [from : Endpoint, n : Nat, form : {"plain", "deflate-raw"}]

PathTypeOK ==
  /\ sends \in [Endpoint -> Nat] /\ queue \in [Endpoint -> Seq(Nat)]
  /\ encoding \in [Endpoint -> BOOLEAN]
  /\ up \in [Endpoint -> Seq(FrameType)] /\ down \in [Endpoint -> Seq(FrameType)]
  /\ recv \in [Endpoint -> Seq(FrameType)]
  /\ last \in [Endpoint -> [Endpoint -> Nat]]
  /\ room \subseteq Endpoint

(* Messages of e that left its send queue. *)
Out(e) == sends[e] - Len(queue[e])

QueueInv ==
  \A e \in Endpoint :
    /\ Len(queue[e]) <= sends[e]
    /\ \A i \in 1 .. Len(queue[e]) : queue[e][i] = Out(e) + i
    /\ encoding[e] => queue[e] # <<>>

Rising(q) ==
  \A i, j \in 1 .. Len(q) : i < j /\ q[i].from = q[j].from => q[i].n < q[j].n

Below(q, r) ==
  \A i \in 1 .. Len(q), j \in 1 .. Len(r) : q[i].from = r[j].from => q[i].n < r[j].n

Known(q) == \A i \in 1 .. Len(q) : q[i].n <= Out(q[i].from)

Opposite(t, q) == \A i \in 1 .. Len(q) : Role[q[i].from] # Role[t]

Unseen(t, q) == \A i \in 1 .. Len(q) : last[t][q[i].from] < q[i].n

UpInv ==
  \A e \in Endpoint :
    /\ Rising(up[e]) /\ Known(up[e])
    /\ \A i \in 1 .. Len(up[e]) : up[e][i].from = e

DownInv ==
  \A t \in Endpoint :
    /\ Rising(down[t]) /\ Known(down[t]) /\ Opposite(t, down[t])
    /\ \A e \in Endpoint : Below(down[t], up[e])

RecvInv ==
  \A t \in Endpoint :
    /\ Rising(recv[t]) /\ Known(recv[t]) /\ Opposite(t, recv[t])
    /\ Below(recv[t], down[t])
    /\ \A e \in Endpoint : Below(recv[t], up[e])

LastInv ==
  \A t \in Endpoint :
    /\ Unseen(t, recv[t]) /\ Unseen(t, down[t])
    /\ \A e \in Endpoint : last[t][e] <= Out(e) /\ Unseen(t, up[e])

OrderInv == QueueInv /\ UpInv /\ DownInv /\ RecvInv /\ LastInv

-----------------------------------------------------------------------------
(* Sequences of frames.                                                    *)

LEMMA TailFacts ==
  ASSUME NEW S, NEW q \in Seq(S), q # <<>>
  PROVE  /\ Head(q) \in S /\ Head(q) = q[1] /\ Len(q) \in Nat \ {0}
         /\ Tail(q) \in Seq(S) /\ Len(Tail(q)) = Len(q) - 1
         /\ \A i \in 1 .. Len(Tail(q)) : i + 1 \in 1 .. Len(q) /\ Tail(q)[i] = q[i + 1]
OBVIOUS

LEMMA AppendFacts ==
  ASSUME NEW S, NEW q \in Seq(S), NEW f \in S
  PROVE  /\ Append(q, f) \in Seq(S) /\ Len(Append(q, f)) = Len(q) + 1 /\ Len(q) \in Nat
         /\ Append(q, f)[Len(q) + 1] = f
         /\ \A i \in 1 .. Len(q) : Append(q, f)[i] = q[i]
OBVIOUS

LEMMA FramesOf ==
  ASSUME NEW q \in Seq(FrameType), NEW i \in 1 .. Len(q)
  PROVE  q[i].from \in Endpoint /\ q[i].n \in Nat
<1>1. q[i] \in FrameType
  OBVIOUS
<1> QED
  BY <1>1 DEF FrameType

LEMMA TailOrder ==
  ASSUME NEW q \in Seq(FrameType), NEW r \in Seq(FrameType), q # <<>>
  PROVE  /\ Rising(q) => Rising(Tail(q))
         /\ Below(q, r) => Below(Tail(q), r)
         /\ Below(r, q) => Below(r, Tail(q))
<1>1. Rising(q) => Rising(Tail(q))
  BY TailFacts DEF Rising
<1>2. Below(q, r) => Below(Tail(q), r)
  BY TailFacts DEF Below
<1>3. Below(r, q) => Below(r, Tail(q))
  BY TailFacts DEF Below
<1> QED
  BY <1>1, <1>2, <1>3

LEMMA AppendRises ==
  ASSUME NEW q \in Seq(FrameType), NEW f \in FrameType, Rising(q),
         \A i \in 1 .. Len(q) : q[i].from = f.from => q[i].n < f.n
  PROVE  Rising(Append(q, f))
<1> SUFFICES ASSUME NEW i \in 1 .. Len(Append(q, f)), NEW j \in 1 .. Len(Append(q, f)),
                    i < j, Append(q, f)[i].from = Append(q, f)[j].from
             PROVE  Append(q, f)[i].n < Append(q, f)[j].n
  BY DEF Rising
<1>1. i \in 1 .. Len(q) /\ Append(q, f)[i] = q[i]
  BY AppendFacts
<1>2. CASE j \in 1 .. Len(q)
  BY <1>1, <1>2, AppendFacts DEF Rising
<1>3. CASE j = Len(q) + 1
  BY <1>1, <1>3, AppendFacts
<1> QED
  BY <1>2, <1>3, AppendFacts

LEMMA AppendBelow ==
  ASSUME NEW q \in Seq(FrameType), NEW r \in Seq(FrameType), NEW f \in FrameType,
         Below(q, r)
  PROVE  /\ (\A j \in 1 .. Len(r) : f.from = r[j].from => f.n < r[j].n)
              => Below(Append(q, f), r)
         /\ (\A i \in 1 .. Len(q) : q[i].from = f.from => q[i].n < f.n)
              => Below(q, Append(r, f))
<1>1. ASSUME \A j \in 1 .. Len(r) : f.from = r[j].from => f.n < r[j].n,
             NEW i \in 1 .. Len(Append(q, f)), NEW j \in 1 .. Len(r),
             Append(q, f)[i].from = r[j].from
      PROVE  Append(q, f)[i].n < r[j].n
  <2>1. CASE i \in 1 .. Len(q)
    BY <1>1, <2>1, AppendFacts DEF Below
  <2>2. CASE i = Len(q) + 1
    BY <1>1, <2>2, AppendFacts
  <2> QED
    BY <2>1, <2>2, AppendFacts
<1>2. ASSUME \A i \in 1 .. Len(q) : q[i].from = f.from => q[i].n < f.n,
             NEW i \in 1 .. Len(q), NEW j \in 1 .. Len(Append(r, f)),
             q[i].from = Append(r, f)[j].from
      PROVE  q[i].n < Append(r, f)[j].n
  <2>1. CASE j \in 1 .. Len(r)
    BY <1>2, <2>1, AppendFacts DEF Below
  <2>2. CASE j = Len(r) + 1
    BY <1>2, <2>2, AppendFacts
  <2> QED
    BY <2>1, <2>2, AppendFacts
<1> QED
  BY <1>1, <1>2 DEF Below

-----------------------------------------------------------------------------
(* The variables that matter to the argument stay in their types.          *)

LEMMA FrameTyped ==
  ASSUME NEW e \in Endpoint, NEW n \in Nat
  PROVE  Frame(e, n) \in FrameType /\ Frame(e, n).from = e /\ Frame(e, n).n = n
BY DEF Frame, FrameType

pathVars == <<sends, queue, encoding, up, down, recv, last>>

LEMMA Quiet ==
  ASSUME NEW e \in Endpoint,
         Close(e) \/ Open(e) \/ Closed(e) \/ Admit(e) \/ HearClose(e) \/ HearClosed(e)
  PROVE  UNCHANGED pathVars
BY DEF pathVars, Close, Open, Closed, SocketBecomes, Admit, HearClose, HearClosed,
       sending, net

LEMMA TypeStep == PathTypeOK /\ QueueInv /\ [RoomNext]_roomVars => PathTypeOK'
<1> SUFFICES ASSUME PathTypeOK, QueueInv, [RoomNext]_roomVars PROVE PathTypeOK'
  OBVIOUS
<1> USE DEF PathTypeOK
<1>1. CASE UNCHANGED roomVars
  BY <1>1 DEF roomVars, sending, net, relay
<1>2. ASSUME NEW e \in Endpoint, Serve(e) \/ Send(e) \/ Close(e) \/ Break(e)
      PROVE  PathTypeOK'
  <2>1. CASE Send(e)
    <3>1. Append(queue[e], sends[e] + 1) \in Seq(Nat) /\ sends[e] + 1 \in Nat
      BY AppendFacts
    <3> QED
      BY <2>1, <3>1 DEF Send, net, relay
  <2>2. CASE DropHead(e)
    <3>1. Tail(queue[e]) \in Seq(Nat)
      BY <2>2, TailFacts DEF DropHead, Runs
    <3> QED
      BY <2>2, <3>1 DEF DropHead, net, relay
  <2>3. CASE StartHead(e)
    BY <2>3 DEF StartHead, net, relay
  <2>4. CASE FinishHead(e)
    <3>1. queue[e] # <<>>
      BY <2>4 DEF FinishHead, QueueInv
    <3>2. Tail(queue[e]) \in Seq(Nat) /\ Head(queue[e]) \in Nat
      BY <3>1, TailFacts
    <3>3. Append(up[e], Frame(e, Head(queue[e]))) \in Seq(FrameType)
      BY <3>2, FrameTyped, AppendFacts
    <3> QED
      BY <2>4, <3>2, <3>3 DEF FinishHead, relay
  <2>5. CASE Arrive(e)
    <3>1. Tail(down[e]) \in Seq(FrameType) /\ Head(down[e]) \in FrameType
      BY <2>5, TailFacts DEF Arrive
    <3>2. Append(recv[e], Head(down[e])) \in Seq(FrameType)
      BY <3>1, AppendFacts
    <3> QED
      BY <2>5, <3>1, <3>2 DEF Arrive, Waits, sending, relay
  <2>6. CASE Decode(e)
    <3>1. Tail(recv[e]) \in Seq(FrameType) /\ Head(recv[e]) \in FrameType
      BY <2>6, TailFacts DEF Decode
    <3>2. Head(recv[e]).from \in Endpoint /\ Head(recv[e]).n \in Nat
      BY <3>1 DEF FrameType
    <3>3. last' = last \/ last' = [last EXCEPT ![e][Head(recv[e]).from] = Head(recv[e]).n]
      BY <2>6 DEF Decode
    <3>4. \A f \in Endpoint, n \in Nat :
            [last EXCEPT ![e][f] = n] \in [Endpoint -> [Endpoint -> Nat]]
      <4> TAKE f \in Endpoint, n \in Nat
      <4>1. last[e] \in [Endpoint -> Nat]
        OBVIOUS
      <4>2. [last[e] EXCEPT ![f] = n] \in [Endpoint -> Nat]
        BY <4>1
      <4> QED
        BY <4>2
    <3>5. last' \in [Endpoint -> [Endpoint -> Nat]]
      <4>1. CASE last' = last
        BY <4>1
      <4>2. CASE last' = [last EXCEPT ![e][Head(recv[e]).from] = Head(recv[e]).n]
        <5> DEFINE f == Head(recv[e]).from
                   n == Head(recv[e]).n
        <5>1. f \in Endpoint /\ n \in Nat /\ last' = [last EXCEPT ![e][f] = n]
          BY <3>2, <4>2
        <5> HIDE DEF f, n
        <5> QED
          BY <3>4, <5>1
      <4> QED
        BY <3>3, <4>1, <4>2
    <3> QED
      BY <2>6, <3>1, <3>5 DEF Decode, sending, net, relay
  <2>7. CASE Close(e) \/ Open(e) \/ Closed(e)
    BY <2>7 DEF Close, Open, Closed, SocketBecomes, sending, net, relay
  <2>8. CASE Break(e)
    <3>1. <<>> \in Seq(FrameType)
      OBVIOUS
    <3> QED
      BY <2>8, <3>1 DEF Break, sending, relay
  <2>9. CASE Admit(e) \/ HearClose(e) \/ HearClosed(e)
    BY <2>9 DEF Admit, HearClose, HearClosed, Removed, sending, net
  <2>10. CASE Relay(e)
    <3>1. Tail(up[e]) \in Seq(FrameType) /\ Head(up[e]) \in FrameType
      BY <2>10, TailFacts DEF Relay
    <3>2. \A t \in Endpoint : Append(down[t], Head(up[e])) \in Seq(FrameType)
      BY <3>1, AppendFacts
    <3>3. down' \in [Endpoint -> Seq(FrameType)]
      BY <2>10, <3>2 DEF Relay
    <3> QED
      BY <2>10, <3>1, <3>3 DEF Relay, sending, relay
  <2> QED
    BY <1>2, <2>1, <2>2, <2>3, <2>4, <2>5, <2>6, <2>7, <2>8, <2>9, <2>10 DEF Serve
<1> QED
  BY <1>1, <1>2 DEF RoomNext
-----------------------------------------------------------------------------
(* The order along the path.                                               *)

LEMMA QueueGrows ==
  ASSUME NEW n \in Nat, NEW q \in Seq(Nat), Len(q) <= n,
         \A i \in 1 .. Len(q) : q[i] = n - Len(q) + i
  PROVE  /\ Append(q, n + 1) # <<>> /\ Len(Append(q, n + 1)) = Len(q) + 1
         /\ \A i \in 1 .. Len(Append(q, n + 1)) :
              Append(q, n + 1)[i] = n + 1 - Len(Append(q, n + 1)) + i
         /\ n - Len(q) \in Nat /\ n + 1 - Len(Append(q, n + 1)) = n - Len(q)
<1>1. /\ Append(q, n + 1) \in Seq(Nat) /\ Len(Append(q, n + 1)) = Len(q) + 1
      /\ Append(q, n + 1)[Len(q) + 1] = n + 1 /\ Len(q) \in Nat
      /\ \A i \in 1 .. Len(q) : Append(q, n + 1)[i] = q[i]
  BY AppendFacts
<1>2. ASSUME NEW i \in 1 .. Len(q) + 1 PROVE Append(q, n + 1)[i] = n - Len(q) + i
  <2>1. CASE i = Len(q) + 1
    BY <1>1, <2>1
  <2>2. CASE i \in 1 .. Len(q)
    BY <1>1, <2>2
  <2> QED
    BY <1>1, <2>1, <2>2
<1>3. Append(q, n + 1) # <<>>
  <2>1. Len(Append(q, n + 1)) # Len(<<>>)
    BY <1>1
  <2> QED
    BY <2>1
<1> QED
  BY <1>1, <1>2, <1>3

LEMMA QueueShrinks ==
  ASSUME NEW n \in Nat, NEW q \in Seq(Nat), Len(q) <= n, q # <<>>,
         \A i \in 1 .. Len(q) : q[i] = n - Len(q) + i
  PROVE  /\ Len(Tail(q)) = Len(q) - 1 /\ Len(Tail(q)) \in Nat
         /\ \A i \in 1 .. Len(Tail(q)) : Tail(q)[i] = n - Len(Tail(q)) + i
         /\ n - Len(q) \in Nat /\ n - Len(Tail(q)) = n - Len(q) + 1
<1>1. /\ Tail(q) \in Seq(Nat) /\ Len(Tail(q)) = Len(q) - 1 /\ Len(q) \in Nat \ {0}
      /\ \A i \in 1 .. Len(Tail(q)) : i + 1 \in 1 .. Len(q) /\ Tail(q)[i] = q[i + 1]
  BY TailFacts
<1>2. ASSUME NEW i \in 1 .. Len(Tail(q)) PROVE Tail(q)[i] = n - Len(Tail(q)) + i
  BY <1>1
<1> QED
  BY <1>1, <1>2

LEMMA QueueStep == PathTypeOK /\ QueueInv /\ [RoomNext]_roomVars =>
                     QueueInv' /\ \A e \in Endpoint : Out(e) \in Nat /\ Out(e)' \in Nat
                                                      /\ Out(e) <= Out(e)'
<1> SUFFICES ASSUME PathTypeOK, QueueInv, [RoomNext]_roomVars, NEW x \in Endpoint
             PROVE  /\ Len(queue[x])' <= sends'[x]
                    /\ \A i \in 1 .. Len(queue[x])' : queue'[x][i] = Out(x)' + i
                    /\ encoding'[x] => queue'[x] # <<>>
                    /\ Out(x) \in Nat /\ Out(x)' \in Nat /\ Out(x) <= Out(x)'
  BY DEF QueueInv
<1>0. /\ sends[x] \in Nat /\ queue[x] \in Seq(Nat) /\ Len(queue[x]) \in Nat
      /\ Len(queue[x]) <= sends[x]
      /\ \A i \in 1 .. Len(queue[x]) : queue[x][i] = Out(x) + i
      /\ encoding[x] => queue[x] # <<>>
  BY DEF PathTypeOK, QueueInv
<1>1. CASE sends'[x] = sends[x] /\ queue'[x] = queue[x]
           /\ (encoding'[x] => encoding[x] \/ queue[x] # <<>>)
  BY <1>0, <1>1 DEF Out
<1>2. CASE sends'[x] = sends[x] + 1 /\ queue'[x] = Append(queue[x], sends[x] + 1)
  <2> DEFINE r == Append(queue[x], sends[x] + 1)
  <2>1. /\ r # <<>> /\ Len(r) = Len(queue[x]) + 1
        /\ \A i \in 1 .. Len(r) : r[i] = sends[x] + 1 - Len(r) + i
        /\ sends[x] - Len(queue[x]) \in Nat
        /\ sends[x] + 1 - Len(r) = sends[x] - Len(queue[x])
    BY <1>0, QueueGrows DEF Out
  <2>2. queue'[x] = r /\ sends'[x] = sends[x] + 1
    BY <1>2
  <2> HIDE DEF r
  <2> QED
    BY <1>0, <2>1, <2>2 DEF Out
<1>3. CASE sends'[x] = sends[x] /\ queue[x] # <<>> /\ queue'[x] = Tail(queue[x])
           /\ ~encoding'[x]
  <2> DEFINE r == Tail(queue[x])
  <2>1. /\ Len(r) = Len(queue[x]) - 1 /\ Len(r) \in Nat
        /\ \A i \in 1 .. Len(r) : r[i] = sends[x] - Len(r) + i
        /\ sends[x] - Len(queue[x]) \in Nat
        /\ sends[x] - Len(r) = sends[x] - Len(queue[x]) + 1
    BY <1>0, <1>3, QueueShrinks DEF Out
  <2>2. queue'[x] = r /\ sends'[x] = sends[x]
    BY <1>3
  <2> HIDE DEF r
  <2> QED
    BY <1>0, <1>3, <2>1, <2>2, SMTT(60) DEF Out
<1>4. \/ UNCHANGED <<sends, queue, encoding>>
      \/ \E e \in Endpoint : Send(e) \/ DropHead(e) \/ StartHead(e) \/ FinishHead(e)
  BY DEF RoomNext, Serve, roomVars, sending, Close, Open, Closed, SocketBecomes, Admit,
         HearClose, HearClosed, Relay, Break, Arrive, Decode
<1>5. CASE UNCHANGED <<sends, queue, encoding>>
  BY <1>1, <1>5
<1>6. ASSUME NEW e \in Endpoint, Send(e)
      PROVE  \/ sends'[x] = sends[x] /\ queue'[x] = queue[x] /\ encoding'[x] = encoding[x]
             \/ sends'[x] = sends[x] + 1 /\ queue'[x] = Append(queue[x], sends[x] + 1)
  BY <1>6 DEF Send, PathTypeOK
<1>7. ASSUME NEW e \in Endpoint, DropHead(e) \/ FinishHead(e)
      PROVE  \/ sends'[x] = sends[x] /\ queue'[x] = queue[x] /\ encoding'[x] = encoding[x]
             \/ /\ sends'[x] = sends[x] /\ queue[x] # <<>>
                /\ queue'[x] = Tail(queue[x]) /\ ~encoding'[x]
  BY <1>0, <1>7 DEF DropHead, FinishHead, Runs, PathTypeOK
<1>8. ASSUME NEW e \in Endpoint, StartHead(e)
      PROVE  sends'[x] = sends[x] /\ queue'[x] = queue[x]
             /\ (encoding'[x] => encoding[x] \/ queue[x] # <<>>)
  BY <1>8 DEF StartHead, Runs, PathTypeOK
<1> QED
  BY <1>1, <1>2, <1>3, <1>4, <1>5, <1>6, <1>7, <1>8

(* What a step may do to the frames on the path.                           *)
UpGrows(e) ==
  /\ queue[e] # <<>>
  /\ up' = [up EXCEPT ![e] = Append(@, Frame(e, Head(queue[e])))]
  /\ Out(e)' = Out(e) + 1 /\ Head(queue[e]) = Out(e) + 1
  /\ UNCHANGED <<down, recv, last>>

Relayed(e) ==
  /\ up[e] # <<>> /\ up' = [up EXCEPT ![e] = Tail(@)]
  /\ \A t \in Endpoint :
       \/ down'[t] = down[t]
       \/ Role[t] # Role[e] /\ down'[t] = Append(down[t], Head(up[e]))
  /\ UNCHANGED <<recv, last>>

Arrived(t) ==
  /\ down[t] # <<>> /\ down' = [down EXCEPT ![t] = Tail(@)]
  /\ recv' = recv \/ recv' = [recv EXCEPT ![t] = Append(@, Head(down[t]))]
  /\ UNCHANGED <<up, last>>

Handled(t) ==
  /\ recv[t] # <<>> /\ recv' = [recv EXCEPT ![t] = Tail(@)]
  /\ last' = last \/ last' = [last EXCEPT ![t][Head(recv[t]).from] = Head(recv[t]).n]
  /\ UNCHANGED <<up, down>>

Emptied(e) ==
  /\ up' = [up EXCEPT ![e] = <<>>] /\ down' = [down EXCEPT ![e] = <<>>]
  /\ UNCHANGED <<recv, last>>

LEMMA PathStep ==
  PathTypeOK /\ QueueInv /\ [RoomNext]_roomVars =>
    \/ UNCHANGED <<up, down, recv, last>>
    \/ \E e \in Endpoint :
         UpGrows(e) \/ Relayed(e) \/ Arrived(e) \/ Handled(e) \/ Emptied(e)
<1> SUFFICES ASSUME PathTypeOK, QueueInv, [RoomNext]_roomVars
             PROVE  \/ UNCHANGED <<up, down, recv, last>>
                    \/ \E e \in Endpoint : UpGrows(e) \/ Relayed(e) \/ Arrived(e)
                                           \/ Handled(e) \/ Emptied(e)
  OBVIOUS
<1>1. CASE UNCHANGED roomVars
  BY <1>1 DEF roomVars, net
<1>2. ASSUME NEW e \in Endpoint, Serve(e) \/ Send(e) \/ Close(e) \/ Break(e)
      PROVE  \/ UNCHANGED <<up, down, recv, last>>
             \/ UpGrows(e) \/ Relayed(e) \/ Arrived(e) \/ Handled(e) \/ Emptied(e)
  <2>1. CASE FinishHead(e)
    <3>1. /\ queue[e] # <<>> /\ queue[e] \in Seq(Nat) /\ sends[e] \in Nat
          /\ Head(queue[e]) = Out(e) + 1
      BY <2>1, TailFacts DEF FinishHead, QueueInv, PathTypeOK
    <3>2. Out(e)' = Out(e) + 1
      BY <2>1, <3>1, TailFacts DEF FinishHead, PathTypeOK, Out
    <3> QED
      BY <2>1, <3>1, <3>2 DEF FinishHead, UpGrows
  <2>2. CASE Relay(e)
    <3> DEFINE to == IF <<e, Head(up[e]).n>> \in Oversize THEN {}
                     ELSE {t \in Targets(e) : Takes(t)}
    <3>1. \A t \in Endpoint : t \in to => Role[t] # Role[e]
      BY DEF Targets, Others
    <3>2. \A t \in Endpoint : down'[t] = IF t \in to /\ link[t]
                                         THEN Append(down[t], Head(up[e])) ELSE down[t]
      BY <2>2 DEF Relay
    <3> HIDE DEF to
    <3> QED
      BY <2>2, <3>1, <3>2 DEF Relay, Relayed
  <2>3. CASE Arrive(e)
    BY <2>3 DEF Arrive, Waits, Arrived
  <2>4. CASE Decode(e)
    BY <2>4 DEF Decode, Handled, net
  <2>5. CASE Break(e)
    BY <2>5 DEF Break, Emptied
  <2>6. CASE Send(e) \/ DropHead(e) \/ StartHead(e)
    BY <2>6 DEF Send, DropHead, StartHead, net
  <2>7. CASE Close(e) \/ Open(e) \/ Closed(e) \/ Admit(e) \/ HearClose(e) \/ HearClosed(e)
    BY <2>7, Quiet DEF pathVars
  <2> QED
    BY <1>2, <2>1, <2>2, <2>3, <2>4, <2>5, <2>6, <2>7 DEF Serve
<1> QED
  BY <1>1, <1>2 DEF RoomNext
LEMMA OrderTyped ==
  ASSUME PathTypeOK, NEW e \in Endpoint
  PROVE  up[e] \in Seq(FrameType) /\ down[e] \in Seq(FrameType)
         /\ recv[e] \in Seq(FrameType) /\ last[e] \in [Endpoint -> Nat]
BY DEF PathTypeOK

(* A frame known stays known: no message returns to a send queue.          *)
OutNext(e) == sends'[e] - Len(queue'[e])

KnownNext(q) == \A i \in 1 .. Len(q) : q[i].n <= OutNext(q[i].from)

(* A state whose queues are in order, known and below one another, written *)
(* with the next values outside: the invariant in that state.              *)
LEMMA DownNext ==
  ASSUME \A t \in Endpoint :
           /\ Rising(down'[t]) /\ KnownNext(down'[t]) /\ Opposite(t, down'[t])
           /\ \A x \in Endpoint : Below(down'[t], up'[x])
  PROVE  DownInv'
<1> SUFFICES ASSUME NEW t \in Endpoint
             PROVE  /\ Rising(down[t])' /\ Known(down[t])' /\ Opposite(t, down[t])'
                    /\ \A x \in Endpoint : Below(down[t], up[x])'
  BY DEF DownInv
<1>1. Rising(down[t])' /\ Opposite(t, down[t])'
  BY DEF Rising, Opposite
<1>2. Known(down[t])'
  BY DEF Known, KnownNext, Out, OutNext
<1>3. \A x \in Endpoint : Below(down[t], up[x])'
  BY DEF Below
<1> QED
  BY <1>1, <1>2, <1>3

LEMMA RecvNext ==
  ASSUME \A t \in Endpoint :
           /\ Rising(recv'[t]) /\ KnownNext(recv'[t]) /\ Opposite(t, recv'[t])
           /\ Below(recv'[t], down'[t])
           /\ \A x \in Endpoint : Below(recv'[t], up'[x])
  PROVE  RecvInv'
<1> SUFFICES ASSUME NEW t \in Endpoint
             PROVE  /\ Rising(recv[t])' /\ Known(recv[t])' /\ Opposite(t, recv[t])'
                    /\ Below(recv[t], down[t])'
                    /\ \A x \in Endpoint : Below(recv[t], up[x])'
  BY DEF RecvInv
<1>1. Rising(recv[t])' /\ Opposite(t, recv[t])'
  BY DEF Rising, Opposite
<1>2. Known(recv[t])'
  BY DEF Known, KnownNext, Out, OutNext
<1>3. Below(recv[t], down[t])' /\ \A x \in Endpoint : Below(recv[t], up[x])'
  BY DEF Below
<1> QED
  BY <1>1, <1>2, <1>3

OutGrows == \A e \in Endpoint : Out(e) \in Nat /\ OutNext(e) \in Nat /\ Out(e) <= OutNext(e)

LEMMA KnownStays ==
  ASSUME OutGrows, NEW q \in Seq(FrameType), Known(q)
  PROVE  KnownNext(q)
BY FramesOf DEF OutGrows, Known, KnownNext

LEMMA LastStays ==
  ASSUME PathTypeOK, OutGrows, LastInv, UNCHANGED last, NEW t \in Endpoint, NEW e \in Endpoint
  PROVE  last'[t][e] <= OutNext(e)
<1>1. last[t][e] \in Nat /\ last[t][e] <= Out(e)
  BY OrderTyped DEF LastInv
<1> QED
  BY <1>1 DEF OutGrows

LEMMA StutterOrder ==
  PathTypeOK /\ OutGrows /\ UpInv /\ DownInv /\ RecvInv /\ LastInv
    /\ UNCHANGED <<up, down, recv, last>> => (UpInv /\ DownInv /\ RecvInv /\ LastInv)'
<1> SUFFICES ASSUME PathTypeOK, OutGrows, UpInv, DownInv, RecvInv, LastInv,
                    UNCHANGED <<up, down, recv, last>>
             PROVE  (UpInv /\ DownInv /\ RecvInv /\ LastInv)'
  OBVIOUS
<1>1. \A e \in Endpoint : KnownNext(up[e]) /\ KnownNext(down[e]) /\ KnownNext(recv[e])
  BY KnownStays, OrderTyped DEF UpInv, DownInv, RecvInv
<1>2. UpInv' /\ DownInv' /\ RecvInv'
  <2>1. UpInv'
    BY <1>1 DEF UpInv, Known, KnownNext, Rising, Out, OutNext
  <2>2. DownInv'
    BY <1>1, DownNext DEF DownInv
  <2>3. RecvInv'
    BY <1>1, RecvNext DEF RecvInv
  <2> QED
    BY <2>1, <2>2, <2>3
<1>3. LastInv'
  BY LastStays DEF LastInv, Unseen, Out, OutNext
<1> QED
  BY <1>2, <1>3

LEMMA UpGrowsOrder ==
  ASSUME PathTypeOK, OutGrows, UpInv, DownInv, RecvInv, LastInv,
         NEW e \in Endpoint, UpGrows(e)
  PROVE  (UpInv /\ DownInv /\ RecvInv /\ LastInv)'
<1> DEFINE f == Frame(e, Head(queue[e]))
           q == Append(up[e], f)
<1>1. f \in FrameType /\ f.from = e /\ f.n = Out(e) + 1 /\ Out(e) \in Nat
  <2>1. Head(queue[e]) = Out(e) + 1 /\ Out(e) \in Nat
    BY DEF UpGrows, OutGrows
  <2>2. Out(e) + 1 \in Nat
    BY <2>1
  <2> QED
    BY <2>1, <2>2, FrameTyped
<1>2. /\ up' = [up EXCEPT ![e] = q] /\ OutNext(e) = f.n
      /\ UNCHANGED <<down, recv, last>>
  BY <1>1 DEF UpGrows, Out, OutNext
<1>3. up[e] \in Seq(FrameType)
  BY OrderTyped
<1> HIDE DEF f
<1>4. /\ q \in Seq(FrameType) /\ Len(q) = Len(up[e]) + 1 /\ Len(up[e]) \in Nat
      /\ q[Len(up[e]) + 1] = f /\ \A i \in 1 .. Len(up[e]) : q[i] = up[e][i]
  BY <1>1, <1>3, AppendFacts
<1>6. \A r \in Seq(FrameType) : Known(r) =>
        \A i \in 1 .. Len(r) : r[i].from = f.from => r[i].n < f.n
  <2> SUFFICES ASSUME NEW r \in Seq(FrameType), Known(r), NEW i \in 1 .. Len(r),
                      r[i].from = f.from
               PROVE  r[i].n < f.n
    OBVIOUS
  <2>1. r[i].n \in Nat /\ r[i].n <= Out(e)
    BY <1>1, FramesOf DEF Known
  <2> QED
    BY <1>1, <2>1
<1>7. Rising(q)
  BY <1>1, <1>3, <1>6, AppendRises DEF UpInv
<1>8. \A r \in Seq(FrameType) : Known(r) /\ Below(r, up[e]) => Below(r, q)
  BY <1>1, <1>3, <1>6, AppendBelow
<1> HIDE DEF q
<1>5. \A i \in 1 .. Len(q) : \/ i \in 1 .. Len(up[e]) /\ q[i] = up[e][i]
                             \/ i = Len(up[e]) + 1 /\ q[i] = f
  BY <1>4
<1>9. \A i \in 1 .. Len(q) : q[i].from = e
  BY <1>1, <1>5 DEF UpInv
<1>10. KnownNext(q)
  <2>1. KnownNext(up[e])
    BY <1>3, KnownStays DEF UpInv
  <2> SUFFICES ASSUME NEW i \in 1 .. Len(q)
               PROVE  q[i].n <= OutNext(q[i].from)
    BY DEF KnownNext
  <2>2. CASE i \in 1 .. Len(up[e]) /\ q[i] = up[e][i]
    BY <2>1, <2>2 DEF KnownNext
  <2>3. CASE q[i] = f
    BY <1>1, <1>2, <2>3
  <2> QED
    BY <1>5, <2>2, <2>3
<1>11. \A t \in Endpoint : Unseen(t, q)
  <2> SUFFICES ASSUME NEW t \in Endpoint, NEW i \in 1 .. Len(q)
               PROVE  last[t][q[i].from] < q[i].n
    BY DEF Unseen
  <2>1. CASE i \in 1 .. Len(up[e]) /\ q[i] = up[e][i]
    BY <2>1 DEF LastInv, Unseen
  <2>2. CASE q[i] = f
    <3>1. last[t][e] <= Out(e) /\ last[t][e] \in Nat
      BY OrderTyped DEF LastInv
    <3> QED
      BY <1>1, <2>2, <3>1
  <2> QED
    BY <1>5, <2>1, <2>2
<1>12. \A x \in Endpoint : up'[x] = IF x = e THEN q ELSE up[x]
  BY <1>2 DEF PathTypeOK
<1>13. \A x \in Endpoint : KnownNext(up'[x]) /\ KnownNext(down[x]) /\ KnownNext(recv[x])
  BY <1>10, <1>12, KnownStays, OrderTyped DEF UpInv, DownInv, RecvInv
<1>14. UpInv'
  BY <1>7, <1>9, <1>12, <1>13 DEF UpInv, Known, KnownNext, Rising, Out, OutNext
<1>15. \A r \in Seq(FrameType), x \in Endpoint :
         Known(r) /\ (\A y \in Endpoint : Below(r, up[y])) => Below(r, up'[x])
  BY <1>8, <1>12
<1>16. \A t, x \in Endpoint : Below(down[t], up'[x]) /\ Below(recv[t], up'[x])
  BY <1>15, OrderTyped DEF DownInv, RecvInv
<1>17. DownInv'
  BY <1>2, <1>13, <1>16, DownNext DEF DownInv
<1>20. \A t \in Endpoint :
         /\ Rising(recv'[t]) /\ KnownNext(recv'[t]) /\ Opposite(t, recv'[t])
         /\ Below(recv'[t], down'[t]) /\ \A x \in Endpoint : Below(recv'[t], up'[x])
  BY <1>2, <1>13, <1>16 DEF RecvInv
<1>18. RecvInv'
  BY <1>20, RecvNext
<1>19. LastInv'
  BY <1>2, <1>11, <1>12, LastStays, SMTT(30) DEF LastInv, Unseen, Out, OutNext
<1> QED
  BY <1>14, <1>17, <1>18, <1>19
LEMMA RelayedOrder ==
  ASSUME PathTypeOK, OutGrows, UpInv, DownInv, RecvInv, LastInv,
         NEW e \in Endpoint, Relayed(e)
  PROVE  (UpInv /\ DownInv /\ RecvInv /\ LastInv)'
<1> DEFINE f == Head(up[e])
           r == Tail(up[e])
           q(t) == Append(down[t], f)
<1>1. /\ up[e] \in Seq(FrameType) /\ up[e] # <<>> /\ up' = [up EXCEPT ![e] = r]
      /\ UNCHANGED <<recv, last>>
  BY OrderTyped DEF Relayed
<1>2. /\ f \in FrameType /\ f = up[e][1] /\ Len(up[e]) \in Nat \ {0}
      /\ r \in Seq(FrameType) /\ Len(r) = Len(up[e]) - 1
      /\ \A i \in 1 .. Len(r) : i + 1 \in 1 .. Len(up[e]) /\ r[i] = up[e][i + 1]
  BY <1>1, TailFacts
<1>3. Rising(r) /\ \A t \in Endpoint : Below(down[t], r) /\ Below(recv[t], r)
  BY <1>1, TailOrder, OrderTyped DEF UpInv, DownInv, RecvInv
<1>4. KnownNext(up[e])
  BY <1>1, KnownStays DEF UpInv
<1> HIDE DEF f, r
<1>5. f.from = e /\ f.n <= OutNext(e) /\ f.n \in Nat /\ 1 \in 1 .. Len(up[e])
  BY <1>2, <1>4 DEF UpInv, KnownNext, FrameType
<1>6. \A i \in 1 .. Len(r) : r[i].from = e /\ f.n < r[i].n /\ r[i].n <= OutNext(e)
  <2> TAKE i \in 1 .. Len(r)
  <2>1. i + 1 \in 1 .. Len(up[e]) /\ r[i] = up[e][i + 1] /\ 1 < i + 1
    BY <1>2
  <2>2. up[e][i + 1].from = e /\ up[e][1].from = e
    BY <1>5, <2>1 DEF UpInv
  <2>3. up[e][1].n < up[e][i + 1].n /\ up[e][i + 1].n <= OutNext(e)
    BY <1>4, <1>5, <2>1, <2>2 DEF UpInv, Rising, KnownNext
  <2> QED
    BY <1>2, <2>1, <2>2, <2>3
<1>7. \A x \in Endpoint : up'[x] = IF x = e THEN r ELSE up[x]
  BY <1>1 DEF PathTypeOK
<1>8. \A t \in Endpoint : last[t][e] < f.n /\ Unseen(t, r)
  BY <1>2, <1>5 DEF LastInv, Unseen
<1>9. ASSUME NEW t \in Endpoint, Role[t] # Role[e]
      PROVE  /\ Rising(q(t)) /\ KnownNext(q(t)) /\ Opposite(t, q(t)) /\ Unseen(t, q(t))
             /\ Below(recv[t], q(t)) /\ \A x \in Endpoint : Below(q(t), up'[x])
  <2>1. down[t] \in Seq(FrameType) /\ recv[t] \in Seq(FrameType)
    BY OrderTyped
  <2>2. \A i \in 1 .. Len(down[t]) : down[t][i].from = f.from => down[t][i].n < f.n
    BY <1>2, <1>5 DEF DownInv, Below
  <2>3. \A i \in 1 .. Len(recv[t]) : recv[t][i].from = f.from => recv[t][i].n < f.n
    BY <1>2, <1>5 DEF RecvInv, Below
  <2>4. Rising(q(t))
    BY <1>2, <2>1, <2>2, AppendRises DEF DownInv
  <2>5. Below(recv[t], q(t))
    BY <1>2, <2>1, <2>3, AppendBelow DEF RecvInv
  <2>6. \A x \in Endpoint : Below(down[t], up'[x])
    BY <1>3, <1>7 DEF DownInv
  <2>7. \A x \in Endpoint : \A j \in 1 .. Len(up'[x]) :
          f.from = up'[x][j].from => f.n < up'[x][j].n
    BY <1>5, <1>6, <1>7 DEF UpInv
  <2>8. \A x \in Endpoint : up'[x] \in Seq(FrameType)
    BY <1>2, <1>7, OrderTyped
  <2>9. \A x \in Endpoint : Below(q(t), up'[x])
    BY <1>2, <2>1, <2>6, <2>7, <2>8, AppendBelow
  <2>10. /\ Len(q(t)) = Len(down[t]) + 1 /\ Len(down[t]) \in Nat
         /\ q(t)[Len(down[t]) + 1] = f
         /\ \A i \in 1 .. Len(down[t]) : q(t)[i] = down[t][i]
    BY <1>2, <2>1, AppendFacts
  <2>11. KnownNext(down[t])
    BY <2>1, KnownStays DEF DownInv
  <2> HIDE DEF q
  <2>12. \A i \in 1 .. Len(q(t)) : \/ i \in 1 .. Len(down[t]) /\ q(t)[i] = down[t][i]
                                   \/ q(t)[i] = f
    BY <2>10
  <2>13. KnownNext(q(t))
    BY <1>5, <2>11, <2>12 DEF KnownNext
  <2>14. Opposite(t, q(t))
    BY <1>5, <1>9, <2>12 DEF DownInv, Opposite
  <2>15. Unseen(t, q(t))
    BY <1>5, <1>8, <2>12 DEF LastInv, Unseen
  <2> QED
    BY <2>4, <2>5, <2>9, <2>13, <2>14, <2>15
<1>10. ASSUME NEW t \in Endpoint
       PROVE  /\ Rising(down[t]) /\ KnownNext(down[t]) /\ Opposite(t, down[t])
              /\ Unseen(t, down[t]) /\ Below(recv[t], down[t])
              /\ \A x \in Endpoint : Below(down[t], up'[x])
  BY <1>3, <1>7, KnownStays, OrderTyped DEF DownInv, RecvInv, LastInv
<1>11. \A t \in Endpoint :
         \/ down'[t] = down[t]
         \/ Role[t] # Role[e] /\ down'[t] = q(t)
  BY DEF Relayed, f
<1> HIDE DEF q
<1>12. \A t \in Endpoint :
         /\ Rising(down'[t]) /\ KnownNext(down'[t]) /\ Opposite(t, down'[t])
         /\ Unseen(t, down'[t]) /\ Below(recv[t], down'[t])
         /\ \A x \in Endpoint : Below(down'[t], up'[x])
  BY <1>9, <1>10, <1>11
<1>13. UpInv'
  <2>1. \A x \in Endpoint : /\ Rising(up'[x]) /\ KnownNext(up'[x])
                            /\ \A i \in 1 .. Len(up'[x]) : up'[x][i].from = x
    BY <1>3, <1>6, <1>7, KnownStays, OrderTyped DEF UpInv, KnownNext
  <2> QED
    BY <2>1 DEF UpInv, Rising, Known, KnownNext, Out, OutNext
<1>14. DownInv'
  BY <1>12, DownNext
<1>15. RecvInv'
  <2>1. \A t \in Endpoint : KnownNext(recv[t])
    BY KnownStays, OrderTyped DEF RecvInv
  <2>2. \A t, x \in Endpoint : Below(recv[t], up'[x])
    BY <1>3, <1>7 DEF RecvInv
  <2> QED
    <3>1. \A t \in Endpoint : Rising(recv[t]) /\ Opposite(t, recv[t])
                              /\ Below(recv[t], down'[t])
      BY <1>12 DEF RecvInv
    <3>2. recv' = recv
      BY <1>1
    <3> QED
      BY <2>1, <2>2, <3>1, <3>2, RecvNext
<1>16. LastInv'
  <2>1. \A t, x \in Endpoint : Unseen(t, up'[x])
    BY <1>7, <1>8 DEF LastInv
  <2> QED
    BY <1>1, <1>12, <2>1, LastStays DEF LastInv, Unseen, Out, OutNext
<1> QED
  BY <1>13, <1>14, <1>15, <1>16

LEMMA ArrivedOrder ==
  ASSUME PathTypeOK, OutGrows, UpInv, DownInv, RecvInv, LastInv,
         NEW e \in Endpoint, Arrived(e)
  PROVE  (UpInv /\ DownInv /\ RecvInv /\ LastInv)'
<1> DEFINE f == Head(down[e])
           r == Tail(down[e])
           q == Append(recv[e], f)
<1>1. /\ down[e] \in Seq(FrameType) /\ down[e] # <<>> /\ down' = [down EXCEPT ![e] = r]
      /\ recv[e] \in Seq(FrameType)
      /\ recv' = recv \/ recv' = [recv EXCEPT ![e] = q]
      /\ UNCHANGED <<up, last>>
  BY OrderTyped DEF Arrived
<1>2. /\ f \in FrameType /\ f = down[e][1] /\ Len(down[e]) \in Nat \ {0}
      /\ r \in Seq(FrameType) /\ Len(r) = Len(down[e]) - 1
      /\ \A i \in 1 .. Len(r) : i + 1 \in 1 .. Len(down[e]) /\ r[i] = down[e][i + 1]
  BY <1>1, TailFacts
<1>3. /\ Rising(r) /\ \A x \in Endpoint : Below(r, up[x])
      /\ Below(recv[e], r)
  BY <1>1, TailOrder, OrderTyped DEF DownInv, RecvInv
<1>4. KnownNext(down[e]) /\ KnownNext(recv[e])
  BY <1>1, KnownStays DEF DownInv, RecvInv
<1> HIDE DEF f, r
<1>5. /\ f.n <= OutNext(f.from) /\ f.n \in Nat /\ 1 \in 1 .. Len(down[e])
      /\ Role[f.from] # Role[e] /\ last[e][f.from] < f.n
  BY <1>2, <1>4 DEF DownInv, LastInv, KnownNext, Opposite, Unseen, FrameType
<1>6. \A i \in 1 .. Len(r) :
        /\ r[i].n <= OutNext(r[i].from) /\ Role[r[i].from] # Role[e]
        /\ last[e][r[i].from] < r[i].n /\ (r[i].from = f.from => f.n < r[i].n)
  <2> TAKE i \in 1 .. Len(r)
  <2>1. i + 1 \in 1 .. Len(down[e]) /\ r[i] = down[e][i + 1] /\ 1 < i + 1
    BY <1>2
  <2>2. down[e][i + 1].from = f.from => f.n < down[e][i + 1].n
    BY <1>2, <1>5, <2>1 DEF DownInv, Rising
  <2> QED
    BY <1>4, <2>1, <2>2 DEF DownInv, LastInv, KnownNext, Opposite, Unseen
<1>7. \A i \in 1 .. Len(recv[e]) : recv[e][i].from = f.from => recv[e][i].n < f.n
  BY <1>2, <1>5 DEF RecvInv, Below
<1>8. Rising(q)
  BY <1>1, <1>2, <1>7, AppendRises DEF RecvInv
<1>9. Below(q, r)
  BY <1>1, <1>2, <1>3, <1>6, AppendBelow
<1>10. \A x \in Endpoint : Below(q, up[x])
  <2> TAKE x \in Endpoint
  <2>1. up[x] \in Seq(FrameType) /\ Below(recv[e], up[x])
    BY OrderTyped DEF RecvInv
  <2>2. \A j \in 1 .. Len(up[x]) : f.from = up[x][j].from => f.n < up[x][j].n
    BY <1>2, <1>5 DEF DownInv, Below
  <2> QED
    BY <1>1, <1>2, <2>1, <2>2, AppendBelow
<1>11. /\ Len(q) = Len(recv[e]) + 1 /\ Len(recv[e]) \in Nat /\ q[Len(recv[e]) + 1] = f
       /\ \A i \in 1 .. Len(recv[e]) : q[i] = recv[e][i]
  BY <1>1, <1>2, AppendFacts
<1> HIDE DEF q
<1>12. \A i \in 1 .. Len(q) : \/ i \in 1 .. Len(recv[e]) /\ q[i] = recv[e][i]
                              \/ q[i] = f
  BY <1>11
<1>13. KnownNext(q) /\ Opposite(e, q) /\ Unseen(e, q)
  BY <1>4, <1>5, <1>12 DEF RecvInv, LastInv, KnownNext, Opposite, Unseen
<1>14. \A x \in Endpoint : down'[x] = IF x = e THEN r ELSE down[x]
  BY <1>1 DEF PathTypeOK
<1>15. \A x \in Endpoint : \/ recv'[x] = recv[x]
                           \/ x = e /\ recv'[x] = q
  BY <1>1 DEF PathTypeOK
<1>16. \A x \in Endpoint : KnownNext(up[x]) /\ KnownNext(down[x]) /\ KnownNext(recv[x])
  BY KnownStays, OrderTyped DEF UpInv, DownInv, RecvInv
<1>17. UpInv'
  BY <1>1, <1>16 DEF UpInv, Rising, Known, KnownNext, Out, OutNext
<1>18. \A t \in Endpoint :
         /\ Rising(down'[t]) /\ KnownNext(down'[t]) /\ Opposite(t, down'[t])
         /\ Unseen(t, down'[t]) /\ \A x \in Endpoint : Below(down'[t], up[x])
  <2>1. KnownNext(r) /\ Opposite(e, r) /\ Unseen(e, r)
    BY <1>6 DEF KnownNext, Opposite, Unseen
  <2> QED
    BY <1>3, <1>14, <1>16, <2>1 DEF DownInv, LastInv
<1>19. \A t \in Endpoint :
         /\ Rising(recv'[t]) /\ KnownNext(recv'[t]) /\ Opposite(t, recv'[t])
         /\ Unseen(t, recv'[t]) /\ Below(recv'[t], down'[t])
         /\ \A x \in Endpoint : Below(recv'[t], up[x])
  <2> TAKE t \in Endpoint
  <2>1. CASE t = e /\ recv'[t] = q
    BY <1>8, <1>9, <1>10, <1>13, <1>14, <2>1
  <2>2. CASE recv'[t] = recv[t]
    BY <1>3, <1>14, <1>16, <2>2 DEF RecvInv, LastInv
  <2> QED
    BY <1>15, <2>1, <2>2
<1>20. DownInv'
  BY <1>1, <1>18, DownNext
<1>21. RecvInv'
  BY <1>1, <1>19, RecvNext
<1>22. LastInv'
  BY <1>1, <1>18, <1>19, LastStays DEF LastInv, Unseen, Out, OutNext
<1> QED
  BY <1>17, <1>20, <1>21, <1>22
LEMMA HandledOrder ==
  ASSUME PathTypeOK, OutGrows, UpInv, DownInv, RecvInv, LastInv,
         NEW e \in Endpoint, Handled(e)
  PROVE  (UpInv /\ DownInv /\ RecvInv /\ LastInv)'
<1> DEFINE f == Head(recv[e])
           r == Tail(recv[e])
<1>1. /\ recv[e] \in Seq(FrameType) /\ recv[e] # <<>> /\ recv' = [recv EXCEPT ![e] = r]
      /\ last' = last \/ last' = [last EXCEPT ![e][f.from] = f.n]
      /\ UNCHANGED <<up, down>>
  BY OrderTyped DEF Handled
<1>2. /\ f \in FrameType /\ f = recv[e][1] /\ Len(recv[e]) \in Nat \ {0}
      /\ r \in Seq(FrameType) /\ Len(r) = Len(recv[e]) - 1
      /\ \A i \in 1 .. Len(r) : i + 1 \in 1 .. Len(recv[e]) /\ r[i] = recv[e][i + 1]
  BY <1>1, TailFacts
<1>3. Rising(r) /\ Below(r, down[e]) /\ \A x \in Endpoint : Below(r, up[x])
  BY <1>1, TailOrder, OrderTyped DEF RecvInv
<1>4. KnownNext(recv[e])
  BY <1>1, KnownStays DEF RecvInv
<1> HIDE DEF f, r
<1>5. /\ f.from \in Endpoint /\ f.n \in Nat /\ f.n <= OutNext(f.from)
      /\ 1 \in 1 .. Len(recv[e])
  BY <1>2, <1>4 DEF KnownNext, FrameType
<1>6. \A i \in 1 .. Len(r) :
        /\ r[i].n <= OutNext(r[i].from) /\ Role[r[i].from] # Role[e]
        /\ last[e][r[i].from] < r[i].n /\ (r[i].from = f.from => f.n < r[i].n)
  <2> TAKE i \in 1 .. Len(r)
  <2>1. i + 1 \in 1 .. Len(recv[e]) /\ r[i] = recv[e][i + 1] /\ 1 < i + 1
    BY <1>2
  <2>2. recv[e][i + 1].from = f.from => f.n < recv[e][i + 1].n
    BY <1>2, <1>5, <2>1 DEF RecvInv, Rising
  <2> QED
    BY <1>4, <2>1, <2>2 DEF RecvInv, LastInv, KnownNext, Opposite, Unseen
<1>7. \A t, x \in Endpoint :
        \/ last'[t][x] = last[t][x]
        \/ t = e /\ x = f.from /\ last'[t][x] = f.n
  <2> TAKE t \in Endpoint, x \in Endpoint
  <2>1. CASE last' = last
    BY <2>1
  <2>2. CASE last' = [last EXCEPT ![e][f.from] = f.n]
    <3>1. last'[t] = IF t = e THEN [last[e] EXCEPT ![f.from] = f.n] ELSE last[t]
      BY <2>2 DEF PathTypeOK
    <3>2. last[e] \in [Endpoint -> Nat]
      BY OrderTyped
    <3> QED
      BY <3>1, <3>2
  <2> QED
    BY <1>1, <2>1, <2>2
<1>8. \A x \in Endpoint : recv'[x] = IF x = e THEN r ELSE recv[x]
  BY <1>1 DEF PathTypeOK
<1>9. \A x \in Endpoint : KnownNext(up[x]) /\ KnownNext(down[x]) /\ KnownNext(recv[x])
  BY KnownStays, OrderTyped DEF UpInv, DownInv, RecvInv
<1>10. KnownNext(r) /\ Opposite(e, r)
  BY <1>6 DEF KnownNext, Opposite
<1>11. UpInv'
  BY <1>1, <1>9 DEF UpInv, Rising, Known, KnownNext, Out, OutNext
<1>12. DownInv'
  BY <1>1, <1>9, DownNext DEF DownInv
<1>13. RecvInv'
  <2>1. \A t \in Endpoint :
          /\ Rising(recv'[t]) /\ KnownNext(recv'[t]) /\ Opposite(t, recv'[t])
          /\ Below(recv'[t], down[t]) /\ \A x \in Endpoint : Below(recv'[t], up[x])
    BY <1>3, <1>8, <1>9, <1>10 DEF RecvInv
  <2>2. up' = up /\ down' = down
    BY <1>1
  <2> QED
    BY <2>1, <2>2, RecvNext
<1>14. \A i \in 1 .. Len(down[e]) : down[e][i].from = f.from => f.n < down[e][i].n
  BY <1>2, <1>5 DEF RecvInv, Below
<1>15. \A x \in Endpoint : \A i \in 1 .. Len(up[x]) :
         up[x][i].from = f.from => f.n < up[x][i].n
  BY <1>2, <1>5 DEF RecvInv, Below
<1>16. ASSUME NEW t \in Endpoint, NEW q \in Seq(FrameType), Unseen(t, q),
              t = e => \A i \in 1 .. Len(q) : q[i].from = f.from => f.n < q[i].n
       PROVE  \A i \in 1 .. Len(q) : last'[t][q[i].from] < q[i].n
  <2> TAKE i \in 1 .. Len(q)
  <2>1. q[i].from \in Endpoint /\ last[t][q[i].from] < q[i].n
    BY <1>16, FramesOf DEF Unseen
  <2> QED
    BY <1>7, <1>16, <2>1
<1>17. \A t \in Endpoint : \A i \in 1 .. Len(recv'[t]) :
         last'[t][recv'[t][i].from] < recv'[t][i].n
  <2> TAKE t \in Endpoint
  <2>1. CASE t = e
    <3>1. Unseen(e, r) /\ \A i \in 1 .. Len(r) : r[i].from = f.from => f.n < r[i].n
      BY <1>6 DEF Unseen
    <3> QED
      BY <1>2, <1>8, <1>16, <2>1, <3>1
  <2>2. CASE t # e
    BY <1>8, <1>16, <2>2, OrderTyped DEF LastInv
  <2> QED
    BY <2>1, <2>2
<1>18. \A t \in Endpoint : \A i \in 1 .. Len(down[t]) :
         last'[t][down[t][i].from] < down[t][i].n
  BY <1>14, <1>16, OrderTyped DEF LastInv
<1>19. \A t, x \in Endpoint : \A i \in 1 .. Len(up[x]) :
         last'[t][up[x][i].from] < up[x][i].n
  BY <1>15, <1>16, OrderTyped DEF LastInv
<1>20. \A t, x \in Endpoint : last'[t][x] <= OutNext(x)
  <2> TAKE t \in Endpoint, x \in Endpoint
  <2>1. last[t][x] \in Nat /\ last[t][x] <= Out(x)
    BY OrderTyped DEF LastInv
  <2> QED
    BY <1>5, <1>7, <2>1 DEF OutGrows
<1>21. LastInv'
  BY <1>1, <1>17, <1>18, <1>19, <1>20 DEF LastInv, Unseen, Out, OutNext
<1> QED
  BY <1>11, <1>12, <1>13, <1>21

LEMMA EmptiedOrder ==
  ASSUME PathTypeOK, OutGrows, UpInv, DownInv, RecvInv, LastInv,
         NEW e \in Endpoint, Emptied(e)
  PROVE  (UpInv /\ DownInv /\ RecvInv /\ LastInv)'
<1>1. UNCHANGED <<recv, last>>
  BY DEF Emptied
<1>2. \A x \in Endpoint : /\ up'[x] = up[x] \/ up'[x] = <<>>
                          /\ down'[x] = down[x] \/ down'[x] = <<>>
  BY DEF Emptied, PathTypeOK
<1>3. \A x \in Endpoint : KnownNext(up[x]) /\ KnownNext(down[x]) /\ KnownNext(recv[x])
  BY KnownStays, OrderTyped DEF UpInv, DownInv, RecvInv
<1>4. /\ Rising(<<>>) /\ KnownNext(<<>>)
      /\ \A q : Below(<<>>, q) /\ Below(q, <<>>)
      /\ \A t : Opposite(t, <<>>) /\ Unseen(t, <<>>)
  BY DEF Rising, KnownNext, Below, Opposite, Unseen
<1>5. UpInv'
  <2>1. \A x \in Endpoint : /\ Rising(up'[x]) /\ KnownNext(up'[x])
                            /\ \A i \in 1 .. Len(up'[x]) : up'[x][i].from = x
    BY <1>2, <1>3, <1>4 DEF UpInv
  <2> QED
    BY <2>1 DEF UpInv, Rising, Known, KnownNext, Out, OutNext
<1>6. DownInv'
  <2>1. \A t \in Endpoint :
          /\ Rising(down'[t]) /\ KnownNext(down'[t]) /\ Opposite(t, down'[t])
          /\ \A x \in Endpoint : Below(down'[t], up'[x])
    BY <1>2, <1>3, <1>4 DEF DownInv
  <2> QED
    BY <2>1, DownNext
<1>7. RecvInv'
  <2>1. \A t \in Endpoint :
          /\ Rising(recv[t]) /\ KnownNext(recv[t]) /\ Opposite(t, recv[t])
          /\ Below(recv[t], down'[t]) /\ \A x \in Endpoint : Below(recv[t], up'[x])
    BY <1>2, <1>3, <1>4 DEF RecvInv
  <2> QED
    BY <1>1, <2>1, RecvNext
<1>8. LastInv'
  <2>1. \A t \in Endpoint :
          Unseen(t, recv[t]) /\ Unseen(t, down'[t]) /\ \A x \in Endpoint : Unseen(t, up'[x])
    BY <1>2, <1>4 DEF LastInv
  <2> QED
    BY <1>1, <2>1, LastStays DEF LastInv, Unseen, Out, OutNext
<1> QED
  BY <1>5, <1>6, <1>7, <1>8

LEMMA OrderStep == PathTypeOK /\ OrderInv /\ [RoomNext]_roomVars => OrderInv'
<1> SUFFICES ASSUME PathTypeOK, QueueInv, UpInv, DownInv, RecvInv, LastInv, [RoomNext]_roomVars
             PROVE  OrderInv'
  BY DEF OrderInv
<1>1. QueueInv' /\ OutGrows
  BY QueueStep DEF OutGrows, Out, OutNext
<1>2. (UpInv /\ DownInv /\ RecvInv /\ LastInv)'
  <2>1. CASE UNCHANGED <<up, down, recv, last>>
    BY <1>1, <2>1, StutterOrder
  <2>2. ASSUME NEW e \in Endpoint,
               UpGrows(e) \/ Relayed(e) \/ Arrived(e) \/ Handled(e) \/ Emptied(e)
        PROVE  (UpInv /\ DownInv /\ RecvInv /\ LastInv)'
    BY <1>1, <2>2, UpGrowsOrder, RelayedOrder, ArrivedOrder, HandledOrder, EmptiedOrder
  <2> QED
    BY <2>1, <2>2, PathStep
<1> QED
  BY <1>1, <1>2 DEF OrderInv

(* At every moment the frames between any two ends lie in order along the  *)
(* path, and none of them was given to the receiver before.                *)
THEOREM PathOrder == RoomSpec => [](PathTypeOK /\ OrderInv)
<1>1. RoomInit => PathTypeOK /\ OrderInv
  <2> SUFFICES ASSUME RoomInit PROVE PathTypeOK /\ OrderInv
    OBVIOUS
  <2>1. <<>> \in Seq(Nat) /\ <<>> \in Seq(FrameType) /\ Len(<<>>) = 0
    OBVIOUS
  <2>2. PathTypeOK
    BY <2>1 DEF RoomInit, PathTypeOK
  <2>3. QueueInv /\ UpInv /\ DownInv /\ RecvInv /\ LastInv
    BY <2>1 DEF RoomInit, QueueInv, UpInv, DownInv, RecvInv, LastInv, Rising, Known,
           Opposite, Below, Unseen, Out
  <2> QED
    BY <2>2, <2>3 DEF OrderInv
<1>2. (PathTypeOK /\ OrderInv) /\ [RoomNext]_roomVars => (PathTypeOK /\ OrderInv)'
  BY TypeStep, OrderStep DEF OrderInv
<1> QED
  BY <1>1, <1>2, PTL DEF RoomSpec

-----------------------------------------------------------------------------
(* The room of the relay, with a transport at each of its ends and any     *)
(* faults, implements the lossy channel: each message reaches each end of  *)
(* the opposite role at most once and in the order sent.                   *)
THEOREM RoomIsLossyChannel == RoomSpec => InOrder
<1>1. RoomInit => Channel!Init
  BY DEF RoomInit, Channel!Init
<1>2. PathTypeOK /\ OrderInv /\ [RoomNext]_roomVars => [Channel!Next]_(Channel!vars)
  <2> SUFFICES ASSUME PathTypeOK, OrderInv, [RoomNext]_roomVars
               PROVE  Channel!Next \/ UNCHANGED Channel!vars
    OBVIOUS
  <2>1. ASSUME NEW e \in Endpoint, Send(e)
        PROVE  Channel!Next
    BY <2>1 DEF Send, Channel!Next, Channel!Send
  <2>2. ASSUME NEW t \in Endpoint, Decode(t)
        PROVE  Channel!Next \/ UNCHANGED Channel!vars
    <3> DEFINE f == Head(recv[t])
    <3>1. recv[t] # <<>> /\ sends' = sends
      BY <2>2 DEF Decode, sending
    <3>2. /\ f \in FrameType /\ f = recv[t][1] /\ 1 \in 1 .. Len(recv[t])
      BY <3>1, TailFacts, OrderTyped
    <3>3. /\ f.from \in Endpoint /\ f.n \in Nat /\ Role[f.from] # Role[t]
          /\ last[t][f.from] < f.n /\ f.n <= Out(f.from)
      BY <3>2 DEF OrderInv, RecvInv, LastInv, Known, Opposite, Unseen, FrameType
    <3>4. Out(f.from) <= sends[f.from] /\ sends[f.from] \in Nat
          /\ last[t][f.from] \in Nat /\ Out(f.from) \in Int
      BY <3>3, OrderTyped, SMTT(60) DEF PathTypeOK, Out
    <3>5. f.n \in last[t][f.from] + 1 .. sends[f.from]
      BY <3>3, <3>4
    <3>6. last' = last \/ last' = [last EXCEPT ![t][f.from] = f.n]
      BY <2>2 DEF Decode
    <3> HIDE DEF f
    <3>7. CASE last' = last
      BY <3>1, <3>7 DEF Channel!vars
    <3>8. CASE last' = [last EXCEPT ![t][f.from] = f.n]
      BY <3>1, <3>3, <3>5, <3>8 DEF Channel!Next, Channel!Deliver
    <3> QED
      BY <3>6, <3>7, <3>8
  <2>3. ASSUME NEW e \in Endpoint,
               \/ DropHead(e) \/ StartHead(e) \/ FinishHead(e) \/ Arrive(e) \/ Relay(e)
               \/ Break(e) \/ Close(e) \/ Open(e) \/ Closed(e) \/ Admit(e)
               \/ HearClose(e) \/ HearClosed(e)
        PROVE  UNCHANGED Channel!vars
    BY <2>3, Quiet DEF pathVars, DropHead, StartHead, FinishHead, Arrive, Relay, Break,
           sending, Channel!vars
  <2>4. CASE UNCHANGED roomVars
    BY <2>4 DEF roomVars, sending, Channel!vars
  <2> QED
    BY <2>1, <2>2, <2>3, <2>4 DEF RoomNext, Serve
<1> QED
  BY <1>1, <1>2, PathOrder, PTL DEF RoomSpec, InOrder, Channel!Spec
=============================================================================
