------------------------ MODULE ViewerLifecycleProofs ------------------------
(***************************************************************************)
(* Proofs about ViewerLifecycle, for any regions, limits and bounds: a     *)
(* viewer only gives a stream up when its socket is closed, a region is    *)
(* only filled in by the answer to its own pending request, and once all   *)
(* is delivered a region that was fetched shows the page, whatever other   *)
(* frames and requests the relay dropped.                                  *)
(*                                                                         *)
(* DisconnectIsReal is inductive together with the type of the socket: the *)
(* one step that could break it is a socket that opens again, and a closed *)
(* one does not.  PatchIsOurs is a fact about one step.                    *)
(*                                                                         *)
(* FetchedShowsPage speaks of the end, so its invariant (FetchInv) must    *)
(* speak of the way there, which is one line of frames: those received and *)
(* not yet handled, then those on the wire.  Every edit is on it at most   *)
(* once (Once), and no frame of a session to come (Aged); an answer agrees *)
(* with the page but for the edits behind it (AnswersAgree), and the       *)
(* mirror but for those still in line (Synced), which at the end of the    *)
(* line is the property.                                                   *)
(***************************************************************************)
EXTENDS ViewerLifecycle, SequenceTheorems, WellFoundedInduction, TLAPS

LifecycleTypeOK ==
  /\ sock \in {"connecting", "open", "closed"}
  /\ public \in {"connecting", "live", "stale", "disconnected"}
  /\ timer \in BOOLEAN /\ detached \in BOOLEAN

LifecycleInv == LifecycleTypeOK /\ DisconnectIsReal

-----------------------------------------------------------------------------
(* What the handlers do to the public state and the timer.                 *)

(* The status a handler leaves, where it does not hear of the socket: the  *)
(* same, or live or stale with no timer started.                           *)
Shows == UNCHANGED status \/ \E s \in {"live", "stale"} : SetPublicState(s)

(* The viewer's handlers never start the timer.                            *)
LEMMA DispatchShows ==
  ASSUME Dispatch
  PROVE  /\ UNCHANGED <<sock, detached>>
         /\ Shows \/ (~detached /\ TransportStatus("error"))
<1> DEFINE m == Head(inbox)
<1>1. UNCHANGED <<sock, detached>>
  BY DEF Dispatch
<1>2. CASE detached
  BY <1>1, <1>2 DEF Dispatch, Shows
<1>3. CASE ~detached /\ HandleSnapshot(m)
  BY <1>1, <1>3 DEF HandleSnapshot, Shows
<1>4. CASE ~detached /\ HandleMutations(m)
  BY <1>1, <1>4, Zenon DEF HandleMutations, Shows
<1>5. CASE ~detached /\ HandleSubtreeResponse(m)
  BY <1>1, <1>5, Zenon DEF HandleSubtreeResponse, Shows, status
<1>6. CASE ~detached /\ HandleSide(m)
  BY <1>1, <1>6 DEF HandleSide, Shows
<1>7. CASE ~detached /\ TransportStatus("error")
  BY <1>1, <1>7
<1>8. \/ detached
      \/ ~detached /\ \/ HandleSnapshot(m) \/ HandleMutations(m)
                      \/ HandleSubtreeResponse(m) \/ HandleSide(m)
                      \/ TransportStatus("error")
  BY DEF Dispatch
<1> QED
  BY <1>1, <1>2, <1>3, <1>4, <1>5, <1>6, <1>7, <1>8

LEMMA ShowsKeeps ==
  ASSUME LifecycleInv, Shows, UNCHANGED <<sock, detached>>
  PROVE  LifecycleInv'
BY DEF LifecycleInv, LifecycleTypeOK, DisconnectIsReal, Shows, SetPublicState, status

(* An error arms no timer.                                                 *)
LEMMA ErrorKeeps ==
  ASSUME LifecycleInv, TransportStatus("error"), UNCHANGED <<sock, detached>>
  PROVE  LifecycleInv'
BY DEF LifecycleInv, LifecycleTypeOK, DisconnectIsReal, TransportStatus, Arms, status

-----------------------------------------------------------------------------
LEMMA LifecycleInit == Init => LifecycleInv
BY DEF Init, StatusReplayed, LifecycleInv, LifecycleTypeOK, DisconnectIsReal

LEMMA LifecycleStep == LifecycleInv /\ [Next]_vars => LifecycleInv'
<1> SUFFICES ASSUME LifecycleInv, [Next]_vars PROVE LifecycleInv'
  OBVIOUS
<1>1. ASSUME UNCHANGED <<status, sock, detached>> PROVE LifecycleInv'
  BY <1>1 DEF LifecycleInv, LifecycleTypeOK, DisconnectIsReal, status
<1>2. ASSUME NEW n \in Nid,
             Grow(n) \/ Leave(n) \/ OtherViewerAsks(n) \/ RequestSubtree(n)
      PROVE  LifecycleInv'
  BY <1>1, <1>2 DEF Grow, Leave, OtherViewerAsks, RequestSubtree, net
<1>3. CASE Flush \/ Start \/ Stop \/ SideFrame
  BY <1>1, <1>3 DEF Flush, Start, Stop, SideFrame
<1>4. CASE HandleSubtreeRequest \/ HandleStartRequest
  BY <1>1, <1>4 DEF HandleSubtreeRequest, HandleStartRequest
<1>5. CASE Connected
  BY <1>5 DEF Connected, TransportStatus, SetPublicState, status,
              LifecycleInv, LifecycleTypeOK, DisconnectIsReal
<1>6. CASE Closed
  BY <1>6 DEF Closed, TransportStatus, Arms, status,
              LifecycleInv, LifecycleTypeOK, DisconnectIsReal
<1>7. CASE Arrive \/ Garble \/ Load \/ LateLoad \/ RelayDropsFrame \/ RelayDropsRequest
  BY <1>1, <1>7 DEF Arrive, Garble, Load, LateLoad, RelayDropsFrame, RelayDropsRequest, net
<1>8. CASE RunSend
  BY <1>1, <1>8, ErrorKeeps DEF RunSend
<1>9. CASE Dispatch
  BY <1>9, DispatchShows, ShowsKeeps, ErrorKeeps
<1>10. CASE Detach \/ Destroy
  BY <1>10 DEF Detach, Destroy, net, LifecycleInv, LifecycleTypeOK, DisconnectIsReal
<1>11. CASE DisconnectTimer
  BY <1>11 DEF DisconnectTimer, net, LifecycleInv, LifecycleTypeOK, DisconnectIsReal
<1>12. CASE UNCHANGED vars
  BY <1>1, <1>12 DEF vars, net
<1> QED
  BY <1>2, <1>3, <1>4, <1>5, <1>6, <1>7, <1>8, <1>9, <1>10, <1>11, <1>12 DEF Next

(* Whatever order statuses, queued frames, the timer and detach() come in, *)
(* a running timer belongs to an attached viewer of a closed socket, and   *)
(* "disconnected" is only ever said of a closed socket                     *)
(* (handleTransportStatus, setPublicState, src/src/renderer/index.js).     *)
THEOREM DisconnectAlwaysReal == Spec => []DisconnectIsReal
<1>1. LifecycleInv => DisconnectIsReal
  BY DEF LifecycleInv
<1> QED
  BY LifecycleInit, LifecycleStep, <1>1, PTL DEF Spec

-----------------------------------------------------------------------------
(* Counting.  The library states induction over the natural numbers for an *)
(* operator; here it is for a set, from the well-founded order.            *)

LEMMA LeastElement ==
  ASSUME NEW T \in SUBSET Nat, T # {}
  PROVE  \E x \in T : \A y \in T : x <= y
<1>1. \E R : /\ IsWellFoundedOn(R, Nat)
             /\ \A x \in Nat, y \in Nat : y < x => <<y, x>> \in R
  <2>1. \A x \in Nat, y \in Nat : y < x => <<y, x>> \in OpToRel(<, Nat)
    BY DEF OpToRel
  <2> QED
    BY <2>1, NatLessThanWellFounded, Zenon
<1>2. PICK R : /\ IsWellFoundedOn(R, Nat)
               /\ \A x \in Nat, y \in Nat : y < x => <<y, x>> \in R
  BY <1>1, Zenon
<1>3. PICK x \in T : \A y \in T : ~ (<<y, x>> \in R)
  BY <1>2, WFMin, Zenon
<1>4. ASSUME NEW y \in T PROVE x <= y
  <2>1. x \in Nat /\ y \in Nat
    OBVIOUS
  <2>2. ~ (y < x)
    BY <1>2, <1>3, <2>1
  <2> QED
    BY <2>1, <2>2
<1> QED
  BY <1>4

LEMMA Induction ==
  ASSUME NEW T \in SUBSET Nat, 0 \in T, \A i \in T : i + 1 \in T
  PROVE  T = Nat
<1> SUFFICES ASSUME Nat \ T # {} PROVE FALSE
  OBVIOUS
<1>1. PICK x \in Nat \ T : \A y \in Nat \ T : x <= y
  BY LeastElement
<1>2. x - 1 \in Nat /\ x - 1 \notin Nat \ T
  BY <1>1
<1> QED
  BY <1>1, <1>2

-----------------------------------------------------------------------------
(* The operations of one frame, applied to the index.                      *)

Op == {"grow", "drop"} \X Nid
Region == {"none", "stub", "full", "other"}
Index == [mirror : [Nid -> Region], shown : [Nid -> Nat], misses : Nat]

LEMMA ApplyOpTyped ==
  ASSUME NEW v \in Index, NEW op \in Op
  PROVE  /\ ApplyOp(v, op) \in Index
         /\ \A n \in Nid : n # op[2] => /\ ApplyOp(v, op).mirror[n] = v.mirror[n]
                                       /\ ApplyOp(v, op).shown[n] = v.shown[n]
         /\ v.mirror[op[2]] = "none" => ApplyOp(v, op).mirror[op[2]] = "none"
         /\ op[1] = "drop" => ApplyOp(v, op).mirror[op[2]] = "none"
         /\ op[1] = "grow" =>
              /\ ApplyOp(v, op).mirror[op[2]] = v.mirror[op[2]]
              /\ v.mirror[op[2]] # "none" => ApplyOp(v, op).shown[op[2]] = v.shown[op[2]] + 1
<1> DEFINE n == op[2]
<1>1. n \in Nid /\ op[1] \in {"grow", "drop"}
  BY DEF Op
<1>2. /\ v = [mirror |-> v.mirror, shown |-> v.shown, misses |-> v.misses]
      /\ v.mirror \in [Nid -> Region] /\ v.shown \in [Nid -> Nat] /\ v.misses \in Nat
  BY DEF Index
<1> HIDE DEF n
<1>3. CASE v.mirror[n] = "none"
  BY <1>1, <1>2, <1>3 DEF ApplyOp, Index, n
<1>4. CASE v.mirror[n] # "none" /\ op[1] = "grow"
  <2>1. ApplyOp(v, op) = [v EXCEPT !.shown[n] = @ + 1]
    BY <1>4 DEF ApplyOp, n
  <2>2. ApplyOp(v, op) = [mirror |-> v.mirror, shown |-> [v.shown EXCEPT ![n] = @ + 1],
                          misses |-> v.misses]
    BY <1>2, <2>1
  <2> QED
    BY <1>1, <1>2, <1>4, <2>2 DEF Index, n
<1>5. CASE v.mirror[n] # "none" /\ op[1] = "drop"
  <2>1. ApplyOp(v, op) = [v EXCEPT !.mirror[n] = "none", !.shown[n] = 0]
    BY <1>5 DEF ApplyOp, n
  <2>2. ApplyOp(v, op) = [mirror |-> [v.mirror EXCEPT ![n] = "none"],
                          shown |-> [v.shown EXCEPT ![n] = 0], misses |-> v.misses]
    BY <1>2, <2>1
  <2> QED
    BY <1>1, <1>2, <1>5, <2>2 DEF Index, Region, n
<1> QED
  BY <1>1, <1>3, <1>4, <1>5

(* The recursive function of Applied exists, so that it is what it says.   *)
StepsThrough(f, ops, k) ==
  f = [i \in 0 .. k |-> IF i = 0 THEN [mirror |-> mirror, shown |-> shown, misses |-> misses]
                        ELSE ApplyOp(f[i - 1], ops[i])]

LEMMA AppliedSteps ==
  ASSUME NEW ops \in Seq(Op)
  PROVE  \E f : StepsThrough(f, ops, Len(ops)) /\ Applied(ops) = f[Len(ops)]
<1> DEFINE start == [mirror |-> mirror, shown |-> shown, misses |-> misses]
           T == {k \in Nat : \E f : StepsThrough(f, ops, k)}
<1>1. 0 \in T
  <2>1. StepsThrough([i \in 0 .. 0 |-> start], ops, 0)
    BY DEF StepsThrough
  <2> QED
    BY <2>1
<1>2. ASSUME NEW k \in T PROVE k + 1 \in T
  <2>1. PICK g : StepsThrough(g, ops, k)
    OBVIOUS
  <2> DEFINE h == [i \in 0 .. k + 1 |-> IF i = k + 1 THEN ApplyOp(g[k], ops[k + 1]) ELSE g[i]]
  <2>2. /\ k \in Nat
        /\ \A i \in 0 .. k + 1 : h[i] = IF i = k + 1 THEN ApplyOp(g[k], ops[k + 1]) ELSE g[i]
        /\ \A i \in 0 .. k : g[i] = IF i = 0 THEN start ELSE ApplyOp(g[i - 1], ops[i])
    BY <2>1 DEF StepsThrough
  <2>3. h = [i \in 0 .. k + 1 |-> h[i]]
    OBVIOUS
  <2> HIDE DEF h, start
  <2>4. ASSUME NEW i \in 0 .. k + 1
        PROVE  h[i] = IF i = 0 THEN start ELSE ApplyOp(h[i - 1], ops[i])
    <3>1. CASE i = 0
      BY <2>2, <3>1
    <3>2. CASE i \in 1 .. k
      <4>1. h[i] = g[i] /\ i - 1 \in 0 .. k /\ h[i - 1] = g[i - 1]
        BY <2>2, <3>2
      <4> QED
        BY <2>2, <3>2, <4>1
    <3>3. CASE i = k + 1
      <4>1. h[i - 1] = g[k]
        BY <2>2, <3>3
      <4> QED
        BY <2>2, <3>3, <4>1
    <3> QED
      BY <2>2, <3>1, <3>2, <3>3
  <2>5. StepsThrough(h, ops, k + 1)
    BY <2>3, <2>4 DEF StepsThrough, start
  <2> QED
    BY <2>2, <2>5
<1>3. T = Nat
  <2>1. T \in SUBSET Nat
    OBVIOUS
  <2> HIDE DEF T
  <2> QED
    BY <1>1, <1>2, <2>1, Induction
<1>4. \E f : StepsThrough(f, ops, Len(ops))
  BY <1>3, LenProperties
<1> QED
  BY <1>4, Zenon DEF Applied, StepsThrough

(* What holds of the index at first and is kept by every operation, where  *)
(* it may depend on how many were applied, holds of the outcome.           *)
LEMMA AppliedIn ==
  ASSUME NEW ops \in Seq(Op), NEW Good,
         [mirror |-> mirror, shown |-> shown, misses |-> misses] \in Good[0],
         \A i \in 1 .. Len(ops) : \A v \in Good[i - 1] : ApplyOp(v, ops[i]) \in Good[i]
  PROVE  Applied(ops) \in Good[Len(ops)]
<1>1. PICK f : StepsThrough(f, ops, Len(ops)) /\ Applied(ops) = f[Len(ops)]
  BY AppliedSteps
<1> DEFINE start == [mirror |-> mirror, shown |-> shown, misses |-> misses]
           T == {k \in Nat : k <= Len(ops) => f[k] \in Good[k]}
<1>2. /\ Len(ops) \in Nat
      /\ \A i \in 0 .. Len(ops) : f[i] = IF i = 0 THEN start ELSE ApplyOp(f[i - 1], ops[i])
  BY <1>1, LenProperties DEF StepsThrough
<1> HIDE DEF start
<1>3. 0 \in T
  BY <1>2 DEF start
<1>4. ASSUME NEW k \in T PROVE k + 1 \in T
  <2>1. SUFFICES ASSUME k + 1 <= Len(ops) PROVE f[k + 1] \in Good[k + 1]
    OBVIOUS
  <2>2. k + 1 \in 1 .. Len(ops) /\ f[k] \in Good[k] /\ (k + 1) - 1 = k
    BY <1>2, <2>1
  <2>3. f[k + 1] = ApplyOp(f[k], ops[k + 1])
    BY <1>2, <2>2
  <2> QED
    BY <2>2, <2>3
<1>5. T \in SUBSET Nat
  OBVIOUS
<1>6. T = Nat
  <2> HIDE DEF T
  <2> QED
    BY <1>3, <1>4, <1>5, Induction
<1> QED
  BY <1>1, <1>2, <1>6

IndexTypeOK == mirror \in [Nid -> Region] /\ shown \in [Nid -> Nat] /\ misses \in Nat

(* A frame's operations leave a region as it was or drop it.               *)
LEMMA AppliedTyped ==
  ASSUME NEW ops \in Seq(Op), IndexTypeOK
  PROVE  /\ Applied(ops) \in Index
         /\ \A n \in Nid : Applied(ops).mirror[n] \in {mirror[n], "none"}
<1> DEFINE Good == [i \in Nat |-> {v \in Index : \A n \in Nid : v.mirror[n] \in {mirror[n], "none"}}]
<1>1. [mirror |-> mirror, shown |-> shown, misses |-> misses] \in Good[0]
  BY DEF IndexTypeOK, Index
<1>2. ASSUME NEW i \in 1 .. Len(ops), NEW v \in Good[i - 1]
      PROVE  ApplyOp(v, ops[i]) \in Good[i]
  <2>1. /\ ops[i] \in Op /\ ops[i][2] \in Nid /\ ops[i][1] \in {"grow", "drop"}
        /\ i \in Nat /\ i - 1 \in Nat
    BY DEF Op
  <2>2. v \in Index /\ \A n \in Nid : v.mirror[n] \in {mirror[n], "none"}
    BY <2>1
  <2>3. ASSUME NEW n \in Nid PROVE ApplyOp(v, ops[i]).mirror[n] \in {v.mirror[n], "none"}
    <3>1. CASE n # ops[i][2]
      BY <2>1, <2>2, <3>1, ApplyOpTyped
    <3>2. CASE n = ops[i][2]
      BY <2>1, <2>2, <3>2, ApplyOpTyped
    <3> QED
      BY <3>1, <3>2
  <2>4. ApplyOp(v, ops[i]) \in Index
    BY <2>1, <2>2, ApplyOpTyped
  <2> QED
    BY <2>1, <2>2, <2>3, <2>4
<1>3. Len(ops) \in Nat
  BY LenProperties
<1>4. Applied(ops) \in Good[Len(ops)]
  <2> HIDE DEF Good
  <2> QED
    BY <1>1, <1>2, AppliedIn
<1> QED
  BY <1>3, <1>4

(* What it does to a region no operation of which is in it; to one that it *)
(* drops; and to one that it only grows, once.                             *)
LEMMA AppliedElsewhere ==
  ASSUME NEW ops \in Seq(Op), IndexTypeOK, NEW n \in Nid,
         \A i \in 1 .. Len(ops) : ops[i][2] # n
  PROVE  Applied(ops).mirror[n] = mirror[n] /\ Applied(ops).shown[n] = shown[n]
<1> DEFINE Good == [i \in Nat |-> {v \in Index : v.mirror[n] = mirror[n] /\ v.shown[n] = shown[n]}]
<1>1. [mirror |-> mirror, shown |-> shown, misses |-> misses] \in Good[0]
  BY DEF IndexTypeOK, Index
<1>2. ASSUME NEW i \in 1 .. Len(ops), NEW v \in Good[i - 1]
      PROVE  ApplyOp(v, ops[i]) \in Good[i]
  <2>1. ops[i] \in Op /\ i \in Nat /\ i - 1 \in Nat
    OBVIOUS
  <2> QED
    BY <2>1, ApplyOpTyped
<1>3. Len(ops) \in Nat
  BY LenProperties
<1>4. Applied(ops) \in Good[Len(ops)]
  <2> HIDE DEF Good
  <2> QED
    BY <1>1, <1>2, AppliedIn
<1> QED
  BY <1>3, <1>4

LEMMA AppliedDrop ==
  ASSUME NEW ops \in Seq(Op), IndexTypeOK, NEW n \in Nid,
         NEW d \in 1 .. Len(ops), ops[d] = <<"drop", n>>
  PROVE  Applied(ops).mirror[n] = "none"
<1> DEFINE Good == [i \in Nat |-> {v \in Index : i >= d => v.mirror[n] = "none"}]
<1>1. [mirror |-> mirror, shown |-> shown, misses |-> misses] \in Good[0]
  BY DEF IndexTypeOK, Index
<1>2. ASSUME NEW i \in 1 .. Len(ops), NEW v \in Good[i - 1]
      PROVE  ApplyOp(v, ops[i]) \in Good[i]
  <2>1. ops[i] \in Op /\ i \in Nat /\ i - 1 \in Nat /\ d \in Nat
    OBVIOUS
  <2>2. v \in Index /\ (i - 1 >= d => v.mirror[n] = "none")
    BY <2>1
  <2>3. ApplyOp(v, ops[i]) \in Index
    BY <2>1, <2>2, ApplyOpTyped
  <2>4. ASSUME i >= d PROVE ApplyOp(v, ops[i]).mirror[n] = "none"
    <3>1. CASE i = d
      <4>1. ops[i][1] = "drop" /\ ops[i][2] = n
        BY <3>1
      <4> QED
        BY <2>1, <2>2, <4>1, ApplyOpTyped
    <3>2. CASE i # d
      <4>1. v.mirror[n] = "none"
        BY <2>1, <2>2, <2>4, <3>2
      <4>2. CASE ops[i][2] = n
        BY <2>1, <2>2, <4>1, <4>2, ApplyOpTyped
      <4>3. CASE ops[i][2] # n
        BY <2>1, <2>2, <4>1, <4>3, ApplyOpTyped
      <4> QED
        BY <4>2, <4>3
    <3> QED
      BY <3>1, <3>2
  <2> QED
    BY <2>1, <2>3, <2>4
<1>3. Len(ops) \in Nat
  BY LenProperties
<1>4. Applied(ops) \in Good[Len(ops)]
  <2> HIDE DEF Good
  <2> QED
    BY <1>1, <1>2, AppliedIn
<1> QED
  BY <1>3, <1>4

LEMMA AppliedGrow ==
  ASSUME NEW ops \in Seq(Op), IndexTypeOK, NEW n \in Nid,
         NEW d \in 1 .. Len(ops), ops[d] = <<"grow", n>>, mirror[n] # "none",
         \A i \in 1 .. Len(ops) : i # d => ops[i][2] # n
  PROVE  Applied(ops).mirror[n] = mirror[n] /\ Applied(ops).shown[n] = shown[n] + 1
<1> DEFINE Good == [i \in Nat |-> {v \in Index :
                      /\ v.mirror[n] = mirror[n]
                      /\ v.shown[n] = IF i < d THEN shown[n] ELSE shown[n] + 1}]
<1>1. [mirror |-> mirror, shown |-> shown, misses |-> misses] \in Good[0]
  BY DEF IndexTypeOK, Index
<1>2. ASSUME NEW i \in 1 .. Len(ops), NEW v \in Good[i - 1]
      PROVE  ApplyOp(v, ops[i]) \in Good[i]
  <2>1. ops[i] \in Op /\ i \in Nat /\ i - 1 \in Nat /\ d \in Nat
    OBVIOUS
  <2>2. /\ v \in Index /\ v.mirror[n] = mirror[n]
        /\ v.shown[n] = IF i - 1 < d THEN shown[n] ELSE shown[n] + 1
    BY <2>1
  <2>3. ApplyOp(v, ops[i]) \in Index
    BY <2>1, <2>2, ApplyOpTyped
  <2>4. CASE i = d
    <3>1. ops[i][1] = "grow" /\ ops[i][2] = n
      BY <2>4
    <3>2. /\ ApplyOp(v, ops[i]).mirror[n] = v.mirror[n]
          /\ ApplyOp(v, ops[i]).shown[n] = v.shown[n] + 1
      BY <2>1, <2>2, <3>1, ApplyOpTyped
    <3> QED
      BY <2>1, <2>2, <2>3, <2>4, <3>2
  <2>5. CASE i # d
    <3>1. /\ ApplyOp(v, ops[i]).mirror[n] = v.mirror[n]
          /\ ApplyOp(v, ops[i]).shown[n] = v.shown[n]
      BY <2>1, <2>2, <2>5, ApplyOpTyped
    <3> QED
      BY <2>1, <2>2, <2>3, <2>5, <3>1
  <2> QED
    BY <2>4, <2>5
<1>3. Len(ops) \in Nat
  BY LenProperties
<1>4. Applied(ops) \in Good[Len(ops)]
  <2> HIDE DEF Good
  <2> QED
    BY <1>1, <1>2, AppliedIn
<1> QED
  BY <1>3, <1>4

-----------------------------------------------------------------------------
(* Messages.  A frame with content names a session; a subtree response     *)
(* with content does, too.                                                 *)

Ask == [k : {"ask"}, n : Nid, g : Nat, id : Nat]
Request == Ask \cup {StartRequest}

Snapshots == [k : {"snapshot"}, g : Nat \ {0}, regions : SUBSET Nid]
Mutations == [k : {"mutations"}, g : Nat \ {0}, ops : Seq(Op)]
Responses == {m \in [k : {"subtree"}, g : Nat, n : Nid, id : Nat, ok : BOOLEAN, kids : Nat] :
                m.ok => m.g # 0}
Sides     == [k : {"side"}, g : Nat] \cup [k : {"garbled"}]
Frame     == Snapshots \cup Mutations \cup Responses\cup Sides

Document  == [g : Nat \ {0}, regions : SUBSET Nid]

TypeOK ==
  /\ gen \in Nat /\ capturing \in BOOLEAN /\ page \in [Nid -> 0 .. Gone]
  /\ pend \in Seq(Op) /\ raced \in SUBSET Nid
  /\ control \in Seq(Request) /\ outbox \in Seq(Request)
  /\ wire \in Seq(Frame) /\ inbox \in Seq(Frame)
  /\ loading \in Seq(Document) /\ doc \in Nat
  /\ active \in Nat /\ streaming \in BOOLEAN /\ resync \in BOOLEAN
  /\ IndexTypeOK
  /\ latch \in [Nid -> Nat] /\ asked \in Nat /\ detached \in BOOLEAN

(* Edits belong to a session; the session of an attached viewer is that of *)
(* the newest document written, and an index is of it unless a document is *)
(* still to load.                                                          *)
SessionOK ==
  /\ capturing => gen # 0
  /\ pend # <<>> => capturing
  /\ loading # <<>> /\ ~detached => active = loading[Len(loading)].g
  /\ \A n \in Nid : mirror[n] # "none" =>
       active # 0 /\ streaming /\ (loading # <<>> \/ doc = active)

LEMMA FrameKinds ==
  ASSUME NEW m \in Frame
  PROVE  /\ m.k = "snapshot" => m \in Snapshots
         /\ m.k = "mutations" => m \in Mutations
         /\ m.k = "subtree" => m \in Responses
         /\ m.k = "side" => m.g \in Nat
BY DEF Frame, Snapshots, Mutations, Responses, Sides

LEMMA RequestKinds ==
  ASSUME NEW r \in Request
  PROVE  r.k = "ask" => r \in Ask
BY DEF Request, Ask, StartRequest

LEMMA TailFacts ==
  ASSUME NEW S, NEW q \in Seq(S), q # <<>>
  PROVE  /\ Head(q) \in S /\ Head(q) = q[1] /\ Len(q) \in Nat \ {0}
         /\ Tail(q) \in Seq(S) /\ Len(Tail(q)) = Len(q) - 1
         /\ \A i \in 1 .. Len(Tail(q)) : i + 1 \in 1 .. Len(q) /\ Tail(q)[i] = q[i + 1]
OBVIOUS

LEMMA AppendFacts ==
  ASSUME NEW S, NEW q \in Seq(S), NEW x \in S
  PROVE  /\ Append(q, x) \in Seq(S) /\ Len(Append(q, x)) = Len(q) + 1 /\ Len(q) \in Nat
         /\ Append(q, x)[Len(q) + 1] = x
         /\ \A i \in 1 .. Len(q) : Append(q, x)[i] = q[i]
OBVIOUS

LEMMA DrainedTyped ==
  ASSUME TypeOK, SessionOK
  PROVE  Drained \in Seq(Frame)
<1>1. CASE pend = <<>>
  BY <1>1 DEF Drained
<1>2. CASE pend # <<>>
  <2>1. [k |-> "mutations", g |-> gen, ops |-> pend] \in Frame
    BY <1>2 DEF TypeOK, SessionOK, Frame, Mutations
  <2> HIDE DEF Frame
  <2>2. <<[k |-> "mutations", g |-> gen, ops |-> pend]>> \in Seq(Frame)
    BY <2>1
  <2> QED
    BY <1>2, <2>2 DEF Drained
<1> QED
  BY <1>1, <1>2

LEMMA SnapshotTyped ==
  ASSUME TypeOK
  PROVE  SnapshotOf(gen + 1) \in Frame
<1> DEFINE there == {n \in Nid : page[n] # Gone}
           next == gen + 1
<1>1. next \in Nat \ {0} /\ there \in SUBSET Nid
  BY DEF TypeOK
<1>2. SnapshotOf(gen + 1) = [k |-> "snapshot", g |-> next, regions |-> there]
  BY DEF SnapshotOf
<1> HIDE DEF there, next
<1>3. [k |-> "snapshot", g |-> next, regions |-> there] \in Snapshots
  BY <1>1 DEF Snapshots
<1> QED
  BY <1>2, <1>3 DEF Frame

LEMMA ResponseTyped ==
  ASSUME TypeOK, NEW r \in Ask
  PROVE  SubtreeResponse(r) \in Responses
<1>0. page \in [Nid -> 0 .. 2] /\ r.g \in Nat /\ r.id \in Nat /\ r.n \in Nid
  BY DEF TypeOK, Ask, Gone
<1>1. page[r.n] \in Nat /\ r.g \in Nat /\ r.id \in Nat /\ r.n \in Nid
  BY <1>0
<1>2. Found(r) \in BOOLEAN /\ (Found(r) => gen # 0) /\ gen \in Nat
  BY DEF Found, TypeOK
<1> DEFINE ok == Found(r)
           kids == IF ok THEN page[r.n] ELSE 0
<1>3. SubtreeResponse(r) = [k |-> "subtree", g |-> gen, n |-> r.n, id |-> r.id, ok |-> ok,
                            kids |-> kids]
  BY DEF SubtreeResponse
<1>4. kids \in Nat
  BY <1>1
<1> HIDE DEF ok, kids
<1> QED
  BY <1>1, <1>2, <1>3, <1>4 DEF Responses, ok

LEMMA DeliverTyped ==
  ASSUME TypeOK, NEW msgs \in Seq(Frame)
  PROVE  Deliver(wire, msgs) \in Seq(Frame)
BY ConcatProperties DEF TypeOK, Deliver

(* The regions whose edits a lost frame held.                              *)
LEMMA LostTyped ==
  ASSUME NEW m \in Frame
  PROVE  /\ LostEdits(m) \in SUBSET Nid
         /\ \A op : m.k = "mutations" /\ m.g = gen /\ (\E i \in 1 .. Len(m.ops) : m.ops[i] = op) =>
              op[2] \in LostEdits(m)
<1>1. CASE m.k = "mutations" /\ m.g = gen
  <2>1. m.ops \in Seq(Op)
    BY <1>1, FrameKinds DEF Mutations
  <2>2. DOMAIN m.ops = 1 .. Len(m.ops) /\ \A i \in 1 .. Len(m.ops) : m.ops[i][2] \in Nid
    BY <2>1, LenProperties DEF Op
  <2>3. LostEdits(m) = {m.ops[i][2] : i \in DOMAIN m.ops}
    BY <1>1 DEF LostEdits
  <2> QED
    BY <2>2, <2>3
<1>2. CASE ~(m.k = "mutations" /\ m.g = gen)
  BY <1>2 DEF LostEdits
<1> QED
  BY <1>1, <1>2

-----------------------------------------------------------------------------
LEMMA TypeInit == Init => TypeOK /\ SessionOK
<1> SUFFICES ASSUME Init PROVE TypeOK /\ SessionOK
  OBVIOUS
<1>1. /\ mirror \in [Nid -> Region] /\ \A n \in Nid : mirror[n] = "none"
      /\ shown \in [Nid -> Nat] /\ latch \in [Nid -> Nat] /\ page \in [Nid -> 0 .. Gone]
  BY DEF Init, Region, NoRegions, Nothing, Gone
<1>2. /\ pend \in Seq(Op) /\ control \in Seq(Request) /\ outbox \in Seq(Request)
      /\ wire \in Seq(Frame) /\ inbox \in Seq(Frame) /\ raced \in SUBSET Nid
      /\ loading \in Seq(Document)
  BY DEF Init
<1> QED
  BY <1>1, <1>2 DEF Init, TypeOK, SessionOK, IndexTypeOK

(* A start of the capture.                                                 *)
LEMMA RestartedTyped ==
  ASSUME TypeOK, SessionOK, Restarted
  PROVE  /\ gen' \in Nat \ {0} /\ capturing' = TRUE /\ pend' = <<>> /\ raced' = {}
         /\ page' = page /\ wire' \in Seq(Frame)
<1>1. Append(Drained, SnapshotOf(gen + 1)) \in Seq(Frame)
  BY DrainedTyped, SnapshotTyped, AppendFacts
<1>2. wire' \in Seq(Frame)
  BY <1>1, DeliverTyped, Zenon DEF Restarted
<1>3. gen \in Nat
  BY DEF TypeOK
<1> QED
  BY <1>2, <1>3 DEF Restarted

LEMMA CaptureTyped ==
  ASSUME TypeOK, SessionOK,
         \/ \E n \in Nid : Grow(n) \/ Leave(n)
         \/ Flush \/ Start \/ Stop \/ SideFrame \/ HandleSubtreeRequest \/ HandleStartRequest
  PROVE  TypeOK' /\ SessionOK'
<1>1. ASSUME UNCHANGED <<inbox, outbox, mirroring, resync, asking, detached>>,
             gen' \in Nat, capturing' \in BOOLEAN, page' \in [Nid -> 0 .. Gone],
             pend' \in Seq(Op), raced' \in SUBSET Nid, control' \in Seq(Request),
             wire' \in Seq(Frame), capturing' => gen' # 0, pend' # <<>> => capturing'
      PROVE  TypeOK' /\ SessionOK'
  BY <1>1 DEF TypeOK, SessionOK, IndexTypeOK, mirroring, asking
<1>2. ASSUME NEW n \in Nid, Grow(n) \/ Leave(n) PROVE TypeOK' /\ SessionOK'
  <2>1. <<"grow", n>> \in Op /\ <<"drop", n>> \in Op
    BY DEF Op
  <2>2. pend' \in Seq(Op)
    <3>1. pend \in Seq(Op)
      BY DEF TypeOK
    <3>2. pend' = Append(pend, <<"grow", n>>) \/ pend' = Append(pend, <<"drop", n>>)
      BY <1>2 DEF Grow, Leave
    <3> QED
      BY <2>1, <3>1, <3>2, AppendFacts
  <2>3. page' \in [Nid -> 0 .. Gone]
    <3>1. page \in [Nid -> 0 .. Gone] /\ 1 \in 0 .. Gone /\ Gone \in 0 .. Gone
      BY DEF TypeOK, Gone
    <3>2. page' = [page EXCEPT ![n] = 1] \/ page' = [page EXCEPT ![n] = Gone]
      BY <1>2 DEF Grow, Leave
    <3> QED
      BY <3>1, <3>2
  <2>4. UNCHANGED <<gen, capturing, raced, control, wire, outbox>> /\ capturing
    BY <1>2 DEF Grow, Leave, net
  <2>5. UNCHANGED <<inbox, mirroring, resync, asking, detached>>
    BY <1>2 DEF Grow, Leave
  <2>6. /\ gen' \in Nat /\ capturing' \in BOOLEAN /\ raced' \in SUBSET Nid
        /\ control' \in Seq(Request) /\ wire' \in Seq(Frame)
        /\ capturing' => gen' # 0
    BY <2>4 DEF TypeOK, SessionOK
  <2>7. capturing'
    BY <2>4
  <2>8. UNCHANGED <<inbox, outbox, mirroring, resync, asking, detached>>
    BY <2>4, <2>5
  <2> QED
    BY <1>1, <2>2, <2>3, <2>6, <2>7, <2>8
<1>3. CASE Flush \/ Stop
  <2>1. wire' \in Seq(Frame)
    BY <1>3, DrainedTyped, DeliverTyped DEF Flush, Stop
  <2>2. /\ UNCHANGED <<gen, page, raced, control>>
        /\ UNCHANGED capturing \/ capturing' = FALSE
        /\ UNCHANGED <<inbox, outbox, mirroring, resync, asking, detached>>
    BY <1>3 DEF Flush, Stop
  <2>3. pend' = <<>>
    BY <1>3 DEF Flush, Stop
  <2>5. pend' \in Seq(Op)
    BY <2>3
  <2>4. /\ gen' \in Nat /\ page' \in [Nid -> 0 .. Gone]
        /\ raced' \in SUBSET Nid /\ control' \in Seq(Request)
    BY <2>2 DEF TypeOK
  <2>6. capturing' \in BOOLEAN /\ (capturing' => gen' # 0)
    <3>1. capturing \in BOOLEAN /\ (capturing => gen # 0) /\ gen' = gen
      BY <2>2 DEF TypeOK, SessionOK
    <3>2. CASE capturing' = capturing
      BY <3>1, <3>2, Zenon
    <3>3. CASE capturing' = FALSE
      BY <3>3
    <3> QED
      BY <2>2, <3>2, <3>3
  <2> QED
    BY <1>1, <2>1, <2>2, <2>3, <2>4, <2>5, <2>6, Zenon
<1>8. ASSUME Restarted, control' \in Seq(Request),
             UNCHANGED <<inbox, outbox, mirroring, resync, asking, detached>>
      PROVE  TypeOK' /\ SessionOK'
  <2>1. /\ gen' \in Nat /\ gen' # 0 /\ capturing' = TRUE /\ pend' = <<>> /\ raced' = {}
        /\ page' = page /\ wire' \in Seq(Frame) /\ page \in [Nid -> 0 .. Gone]
    BY <1>8, RestartedTyped DEF TypeOK
  <2>2. pend' \in Seq(Op)
    BY <2>1
  <2> QED
    BY <1>1, <1>8, <2>1, <2>2
<1>4. CASE Start
  BY <1>4, <1>8 DEF Start, TypeOK
<1>5. CASE SideFrame
  <2>1. PICK g \in {0, gen} : wire' = Deliver(wire, <<[k |-> "side", g |-> g]>>)
    BY <1>5 DEF SideFrame
  <2>2. [k |-> "side", g |-> g] \in Frame
    BY DEF Frame, Sides, TypeOK
  <2>3. <<[k |-> "side", g |-> g]>> \in Seq(Frame)
    BY <2>2
  <2>4. wire' \in Seq(Frame)
    BY <2>1, <2>3, DeliverTyped
  <2> QED
    BY <1>1, <1>5, <2>4 DEF SideFrame, source, TypeOK, SessionOK
<1>6. CASE HandleSubtreeRequest
  <2> DEFINE r == Head(control)
  <2>1. r \in Ask /\ control' \in Seq(Request)
    BY <1>6, RequestKinds, TailFacts DEF HandleSubtreeRequest, TypeOK
  <2>2. SubtreeResponse(r) \in Frame
    BY <2>1, ResponseTyped DEF Frame
  <2>3. <<SubtreeResponse(r)>> \in Seq(Frame) /\ <<>> \in Seq(Frame)
    BY <2>2
  <2>4. wire' \in Seq(Frame)
    BY <1>6, <2>3, DeliverTyped DEF HandleSubtreeRequest
  <2>5. r.n \in Nid /\ raced' \in SUBSET Nid
    BY <1>6, <2>1 DEF HandleSubtreeRequest, TypeOK, Ask
  <2> QED
    BY <1>1, <1>6, <2>1, <2>4, <2>5 DEF HandleSubtreeRequest, TypeOK, SessionOK
<1>7. CASE HandleStartRequest
  <2>1. control' \in Seq(Request)
    BY <1>7, TailFacts DEF HandleStartRequest, TypeOK
  <2>2. CASE gen < MaxSessions
    BY <1>7, <1>8, <2>1, <2>2 DEF HandleStartRequest
  <2>3. CASE ~(gen < MaxSessions)
    BY <1>1, <1>7, <2>1, <2>3 DEF HandleStartRequest, source, TypeOK, SessionOK
  <2> QED
    BY <2>2, <2>3
<1> QED
  BY <1>2, <1>3, <1>4, <1>5, <1>6, <1>7

LEMMA TransportTyped ==
  ASSUME TypeOK, SessionOK,
         \/ \E n \in Nid : OtherViewerAsks(n) \/ RequestSubtree(n)
         \/ Connected \/ Closed \/ Arrive \/ Garble \/ RunSend \/ Detach \/ DisconnectTimer
         \/ RelayDropsFrame \/ RelayDropsRequest
  PROVE  TypeOK' /\ SessionOK'
<1>1. ASSUME UNCHANGED <<gen, capturing, page, pend, mirroring, resync>>, raced' \in SUBSET Nid,
             detached' \in BOOLEAN, detached => detached', latch' \in [Nid -> Nat], asked' \in Nat,
             control' \in Seq(Request), outbox' \in Seq(Request),
             wire' \in Seq(Frame), inbox' \in Seq(Frame)
      PROVE  TypeOK' /\ SessionOK'
  <2>1. TypeOK'
    BY <1>1 DEF TypeOK, IndexTypeOK, mirroring
  <2>2. SessionOK'
    BY <1>1 DEF SessionOK, mirroring
  <2> QED
    BY <2>1, <2>2
<1> USE DEF TypeOK
<1>2. ASSUME NEW n \in Nid, OtherViewerAsks(n) PROVE TypeOK' /\ SessionOK'
  <2>1. [k |-> "ask", n |-> n, g |-> gen, id |-> 0] \in Request
    BY DEF Request, Ask
  <2>2. control' \in Seq(Request)
    BY <1>2, <2>1, AppendFacts DEF OtherViewerAsks
  <2> QED
    BY <1>1, <1>2, <2>2 DEF OtherViewerAsks, source, asking
<1>3. ASSUME NEW n \in Nid, RequestSubtree(n) PROVE TypeOK' /\ SessionOK'
  <2>1. [k |-> "ask", n |-> n, g |-> active, id |-> asked + 1] \in Request
    BY DEF Request, Ask
  <2>2. outbox' \in Seq(Request)
    BY <1>3, <2>1, AppendFacts DEF RequestSubtree, SafeSend
  <2>3. latch' \in [Nid -> Nat] /\ asked' \in Nat
    BY <1>3 DEF RequestSubtree
  <2>4. UNCHANGED <<gen, capturing, page, pend, raced, mirroring, resync, detached,
                    control, wire, inbox>>
    BY <1>3 DEF RequestSubtree, source
  <2> QED
    BY <1>1, <2>2, <2>3, <2>4
<1>4. CASE Connected \/ DisconnectTimer
  BY <1>1, <1>4 DEF Connected, DisconnectTimer, source, net, asking
<1>5. CASE Closed
  <2>1. wire' \in Seq(Frame) /\ control' \in Seq(Request)
    BY <1>5 DEF Closed
  <2> QED
    BY <1>1, <1>5, <2>1 DEF Closed, source, asking
<1>6. CASE Arrive
  <2>1. wire' \in Seq(Frame) /\ inbox' \in Seq(Frame)
    BY <1>6, TailFacts, AppendFacts DEF Arrive
  <2> QED
    BY <1>1, <1>6, <2>1 DEF Arrive, source, asking
<1>7. CASE Garble
  <2>1. [k |-> "garbled"] \in Frame
    BY DEF Frame, Sides
  <2>2. inbox' \in Seq(Frame)
    BY <1>7, <2>1, AppendFacts DEF Garble
  <2> QED
    BY <1>1, <1>7, <2>2 DEF Garble, source, net, asking
<1>8. CASE RunSend
  <2>1. Tail(outbox) \in Seq(Request) /\ Append(control, Head(outbox)) \in Seq(Request)
    BY <1>8, TailFacts, AppendFacts DEF RunSend
  <2>2. control' \in Seq(Request) /\ outbox' \in Seq(Request)
    BY <1>8, <2>1 DEF RunSend
  <2> QED
    BY <1>1, <1>8, <2>2 DEF RunSend, source, asking
<1>9. CASE Detach
  BY <1>1, <1>9 DEF Detach, source, net, asking
<1>10. CASE RelayDropsFrame
  <2>1. Head(wire) \in Frame /\ wire' \in Seq(Frame)
    BY <1>10, TailFacts DEF RelayDropsFrame
  <2>2. raced' \in SUBSET Nid
    BY <1>10, <2>1, LostTyped DEF RelayDropsFrame
  <2> QED
    BY <1>1, <1>10, <2>1, <2>2 DEF RelayDropsFrame
<1>11. CASE RelayDropsRequest
  <2>1. control' \in Seq(Request)
    BY <1>11, TailFacts DEF RelayDropsRequest
  <2> QED
    BY <1>1, <1>11, <2>1 DEF RelayDropsRequest, source
<1> QED
  BY <1>2, <1>3, <1>4, <1>5, <1>6, <1>7, <1>8, <1>9, <1>10, <1>11

(* The handlers of frames.                                                 *)
LEMMA DispatchTyped ==
  ASSUME TypeOK, SessionOK, Dispatch
  PROVE  TypeOK' /\ SessionOK'
<1> DEFINE m == Head(inbox)
<1>1. m \in Frame /\ inbox' \in Seq(Frame)
  BY TailFacts DEF Dispatch, TypeOK
<1>2. UNCHANGED <<gen, capturing, page, pend, raced, control, wire, detached>>
  BY DEF Dispatch, source
<1>3. ASSUME loading' \in Seq(Document), doc' \in Nat, active' \in Nat,
             streaming' \in BOOLEAN, resync' \in BOOLEAN, IndexTypeOK',
             latch' \in [Nid -> Nat], asked' \in Nat, outbox' \in Seq(Request),
             loading' # <<>> /\ ~detached' => active' = loading'[Len(loading')].g,
             \A n \in Nid : mirror'[n] # "none" =>
               active' # 0 /\ streaming' /\ (loading' # <<>> \/ doc' = active')
      PROVE  TypeOK' /\ SessionOK'
  <2>1. TypeOK'
    BY <1>1, <1>2, <1>3 DEF TypeOK
  <2>2. SessionOK'
    BY <1>2, <1>3 DEF SessionOK
  <2> QED
    BY <2>1, <2>2
<1>4. ASSUME UNCHANGED <<mirroring, resync, latch, asked, outbox>>
      PROVE  TypeOK' /\ SessionOK'
  <2>1. IndexTypeOK'
    BY <1>4 DEF TypeOK, IndexTypeOK, mirroring
  <2> QED
    BY <1>2, <1>3, <1>4, <2>1 DEF TypeOK, SessionOK, mirroring
<1>5. CASE m.k = "snapshot" /\ HandleSnapshot(m)
  <2>1. m.g \in Nat \ {0} /\ m.regions \in SUBSET Nid
    BY <1>1, <1>5, FrameKinds DEF Snapshots
  <2>2. /\ mirror' \in [Nid -> Region] /\ \A n \in Nid : mirror'[n] = "none"
        /\ shown' \in [Nid -> Nat] /\ latch' \in [Nid -> Nat] /\ misses' \in Nat
    BY <1>5 DEF HandleSnapshot, NoRegions, Nothing, Region
  <2>3. /\ loading' \in Seq(Document) /\ active' \in Nat
        /\ active' = loading'[Len(loading')].g
    <3> DEFINE d == [g |-> m.g, regions |-> m.regions]
    <3>1. d \in Document /\ d.g = m.g
      BY <2>1 DEF Document
    <3>2. loading' = Append(loading, d) /\ active' = m.g
      BY <1>5 DEF HandleSnapshot
    <3>3. loading \in Seq(Document)
      BY DEF TypeOK
    <3> HIDE DEF d
    <3> QED
      BY <2>1, <3>1, <3>2, <3>3, AppendFacts
  <2>4. UNCHANGED <<doc, streaming, asked, outbox>> /\ resync' = FALSE
    BY <1>5 DEF HandleSnapshot
  <2> QED
    BY <1>3, <2>2, <2>3, <2>4 DEF IndexTypeOK, TypeOK
<1>6. CASE m.k = "mutations" /\ HandleMutations(m)
  <2>1. m.ops \in Seq(Op)
    BY <1>1, <1>6, FrameKinds DEF Mutations
  <2>2. CASE ~streaming \/ ~IsCurrentStream(m)
    BY <1>4, <1>6, <2>2 DEF HandleMutations, asking
  <2>3. CASE ~(~streaming \/ ~IsCurrentStream(m))
    <3> DEFINE v == Applied(m.ops)
               asks == v.misses > StaleLimit /\ ~resync /\ v.misses > misses
    <3>1. /\ mirror' = v.mirror /\ shown' = v.shown /\ misses' = v.misses
          /\ resync' = (resync \/ asks)
          /\ outbox' = IF asks THEN SafeSend(StartRequest) ELSE outbox
          /\ UNCHANGED <<loading, doc, streaming, active, asking>>
      BY <1>6, <2>3 DEF HandleMutations
    <3>2. v \in Index /\ \A n \in Nid : v.mirror[n] \in {mirror[n], "none"}
      BY <2>1, AppliedTyped DEF TypeOK
    <3> HIDE DEF v
    <3>3. IndexTypeOK'
      BY <3>1, <3>2 DEF IndexTypeOK, Index
    <3>4. outbox' \in Seq(Request)
      BY <3>1, AppendFacts DEF SafeSend, Request, TypeOK
    <3>5. resync' \in BOOLEAN
      BY <3>1
    <3>6. \A n \in Nid : mirror'[n] # "none" =>
            active' # 0 /\ streaming' /\ (loading' # <<>> \/ doc' = active')
      BY <3>1, <3>2 DEF SessionOK
    <3> QED
      BY <1>2, <1>3, <3>1, <3>3, <3>4, <3>5, <3>6 DEF TypeOK, SessionOK, asking
  <2> QED
    BY <2>2, <2>3
<1>7. CASE m.k = "subtree" /\ HandleSubtreeResponse(m)
  <2>1. m.n \in Nid /\ m.id \in Nat /\ m.kids \in Nat
    BY <1>1, <1>7, FrameKinds DEF Responses
  <2>2. latch' \in [Nid -> Nat]
    BY <1>7, <2>1 DEF HandleSubtreeResponse, TypeOK
  <2>3. UNCHANGED <<loading, doc, streaming, active, misses, asked, resync, outbox>>
    BY <1>7 DEF HandleSubtreeResponse
  <2>4. /\ IndexTypeOK'
        /\ \A n \in Nid : mirror'[n] # "none" => mirror[n] # "none"
    BY <1>7, <2>1, <2>3
       DEF HandleSubtreeResponse, Patches, Replaced, TypeOK, IndexTypeOK, Region
  <2> QED
    BY <1>2, <1>3, <2>2, <2>3, <2>4 DEF TypeOK, SessionOK
<1>8. CASE HandleSide(m)
  BY <1>4, <1>8 DEF HandleSide, asking
<1>9. CASE UNCHANGED <<mirroring, resync, asking, outbox>>
  BY <1>4, <1>9 DEF asking
<1> QED
  BY <1>5, <1>6, <1>7, <1>8, <1>9 DEF Dispatch

LEMMA DocumentTyped ==
  ASSUME TypeOK, SessionOK, Load \/ LateLoad \/ Destroy
  PROVE  TypeOK' /\ SessionOK'
<1> DEFINE last == loading[Len(loading)]
<1>0. ASSUME loading # <<>>
      PROVE  last \in Document /\ last.g \in Nat \ {0} /\ Len(loading) \in Nat \ {0}
  <2>1. Len(loading) \in Nat \ {0} /\ last \in Document
    BY <1>0 DEF TypeOK
  <2> QED
    BY <2>1 DEF Document
<1>1. CASE Load
  <2>0. loading # <<>> /\ ~detached /\ doc' = last.g
    BY <1>1 DEF Load
  <2>5. active = last.g /\ active # 0 /\ doc' \in Nat
    BY <1>0, <2>0 DEF SessionOK
  <2>1. /\ mirror' \in [Nid -> Region] /\ shown' \in [Nid -> Nat]
        /\ loading' = <<>> /\ streaming' = TRUE /\ UNCHANGED active
    BY <1>1 DEF Load, Region, Nothing
  <2>2. UNCHANGED <<source, net, inbox, resync, asking, detached, misses>>
    BY <1>1 DEF Load
  <2>6. loading' \in Seq(Document)
    BY <2>1
  <2> HIDE DEF last
  <2>3. TypeOK'
    BY <2>1, <2>2, <2>5, <2>6 DEF TypeOK, IndexTypeOK, source, net, asking
  <2>4. SessionOK'
    BY <2>0, <2>1, <2>2, <2>5 DEF SessionOK, source
  <2> QED
    BY <2>3, <2>4
<1>3. CASE LateLoad
  <2>0. Len(loading) > 1 /\ ~detached
    BY <1>3 DEF LateLoad
  <2>7. loading # <<>> /\ Len(loading) \in Nat /\ loading \in Seq(Document)
    BY <2>0 DEF TypeOK
  <2>5. active = last.g /\ active # 0
    BY <1>0, <2>0, <2>7 DEF SessionOK
  <2>1. /\ mirror' \in [Nid -> {"none", "stub", "other"}] /\ shown' = Nothing
        /\ streaming' = TRUE /\ UNCHANGED active
    BY <1>3 DEF LateLoad
  <2>8. mirror' \in [Nid -> Region] /\ shown' \in [Nid -> Nat]
    BY <2>1 DEF Region, Nothing
  <2>2. UNCHANGED <<source, net, inbox, resync, asking, detached, misses>>
    BY <1>3 DEF LateLoad
  <2>6. PICK i \in 1 .. Len(loading) - 1 :
          doc' = loading[i].g /\ loading' = SubSeq(loading, i + 1, Len(loading))
    BY <1>3 DEF LateLoad
  <2>9. doc' \in Nat
    <3>1. i \in 1 .. Len(loading)
      BY <2>7
    <3>2. loading[i] \in Document
      BY <2>7, <3>1
    <3> QED
      BY <2>6, <3>2 DEF Document
  <2>10. loading' \in Seq(Document) /\ loading' # <<>> /\ loading'[Len(loading')] = last
    <3>1. i + 1 \in 1 .. Len(loading) /\ Len(loading) \in i .. Len(loading)
      BY <2>7
    <3>2. /\ loading' \in Seq(Document) /\ Len(loading') = Len(loading) - i
          /\ \A j \in 1 .. Len(loading) - i : loading'[j] = loading[(i + 1) + j - 1]
      BY <2>6, <2>7, <3>1, SubSeqProperties
    <3>3. Len(loading) - i \in 1 .. Len(loading) - i /\ Len(loading) - i # 0
          /\ (i + 1) + (Len(loading) - i) - 1 = Len(loading)
      BY <2>7
    <3>4. loading'[Len(loading) - i] = loading[(i + 1) + (Len(loading) - i) - 1]
      BY <3>2, <3>3
    <3> QED
      BY <3>2, <3>3, <3>4
  <2> HIDE DEF last
  <2>3. TypeOK'
    BY <2>1, <2>2, <2>8, <2>9, <2>10 DEF TypeOK, IndexTypeOK, source, net, asking
  <2>4. SessionOK'
    BY <2>0, <2>1, <2>2, <2>5, <2>10 DEF SessionOK, source
  <2> QED
    BY <2>3, <2>4
<1>2. CASE Destroy
  <2>1. /\ mirror' \in [Nid -> Region] /\ \A n \in Nid : mirror'[n] = "none"
        /\ shown' \in [Nid -> Nat] /\ latch' \in [Nid -> Nat]
    BY <1>2 DEF Destroy, NoRegions, Nothing, Region
  <2>2. /\ UNCHANGED <<source, net, inbox, loading, asked>>
        /\ detached' = TRUE /\ active' = 0 /\ misses' = 0 /\ resync' = FALSE /\ streaming' = FALSE
        /\ doc' = 0
    BY <1>2 DEF Destroy
  <2>3. TypeOK'
    BY <2>1, <2>2 DEF TypeOK, IndexTypeOK, source, net
  <2>4. SessionOK'
    BY <2>1, <2>2 DEF SessionOK, source
  <2> QED
    BY <2>3, <2>4
<1> QED
  BY <1>1, <1>2, <1>3

LEMMA TypeStep == TypeOK /\ SessionOK /\ [Next]_vars => TypeOK' /\ SessionOK'
<1> SUFFICES ASSUME TypeOK, SessionOK, [Next]_vars PROVE TypeOK' /\ SessionOK'
  OBVIOUS
<1>1. CASE UNCHANGED vars
  <2>1. TypeOK'
    BY <1>1 DEF TypeOK, IndexTypeOK, vars, source, net, mirroring, asking
  <2>2. SessionOK'
    BY <1>1 DEF SessionOK, vars, source, mirroring
  <2> QED
    BY <2>1, <2>2
<1> QED
  BY <1>1, CaptureTyped, TransportTyped, DispatchTyped, DocumentTyped DEF Next

(* In every state the variables hold what the code puts there: in          *)
(* particular an index is of the session of the newest document written    *)
(* or is about to be paired anew, frames with content name a session, and  *)
(* no operation leaves an index that is not one.                           *)
THEOREM TypeCorrect == Spec => [](TypeOK /\ SessionOK)
<1>1. Init => TypeOK /\ SessionOK
  BY TypeInit
<1>2. TypeOK /\ SessionOK /\ [Next]_vars => TypeOK' /\ SessionOK'
  BY TypeStep
<1> QED
  BY <1>1, <1>2, PTL DEF Spec

-----------------------------------------------------------------------------
(* What a step may never do to a cut region.                               *)

OursNow(n) ==
  /\ latch[n] # 0 /\ latch'[n] = 0 /\ Head(inbox).id = latch[n]
  /\ Head(inbox).g = doc \/ loading # <<>>

(* Whatever is not a frame leaves cut regions cut, or starts them anew.    *)
LEMMA OthersFillNothing ==
  ASSUME Next, ~Dispatch, NEW n \in Nid, mirror[n] = "stub"
  PROVE  mirror'[n] # "full"
<1>1. CASE UNCHANGED mirror
  BY <1>1
<1>2. CASE Load
  BY <1>2 DEF Load
<1>7. CASE LateLoad
  BY <1>7 DEF LateLoad
<1>3. CASE Destroy
  BY <1>3 DEF Destroy, NoRegions
<1>4. ASSUME NEW x \in Nid, Grow(x) \/ Leave(x) \/ OtherViewerAsks(x) \/ RequestSubtree(x)
      PROVE  UNCHANGED mirror
  BY <1>4 DEF Grow, Leave, OtherViewerAsks, RequestSubtree, mirroring
<1>5. ASSUME Flush \/ Start \/ Stop \/ SideFrame \/ HandleSubtreeRequest \/ HandleStartRequest
      PROVE  UNCHANGED mirror
  BY <1>5 DEF Flush, Start, Stop, SideFrame, HandleSubtreeRequest, HandleStartRequest, mirroring
<1>6. ASSUME \/ Connected \/ Closed \/ Arrive \/ Garble \/ RunSend \/ Detach \/ DisconnectTimer
             \/ RelayDropsFrame \/ RelayDropsRequest
      PROVE  UNCHANGED mirror
  BY <1>6 DEF Connected, Closed, Arrive, Garble, RunSend, Detach, DisconnectTimer,
              RelayDropsFrame, RelayDropsRequest, mirroring
<1> QED
  BY <1>1, <1>2, <1>3, <1>4, <1>5, <1>6, <1>7 DEF Next

LEMMA PatchStep ==
  ASSUME TypeOK, SessionOK, [Next]_vars,
         NEW n \in Nid, mirror[n] = "stub", mirror'[n] = "full"
  PROVE  OursNow(n)
<1> DEFINE m == Head(inbox)
<1>1. Dispatch
  BY OthersFillNothing DEF vars, mirroring
<1>2. m \in Frame
  BY <1>1, TailFacts DEF Dispatch, TypeOK
<1>3. mirror' # mirror
  OBVIOUS
<1>4. \/ m.k = "snapshot" /\ HandleSnapshot(m)
      \/ m.k = "mutations" /\ HandleMutations(m)
      \/ m.k = "subtree" /\ HandleSubtreeResponse(m)
  BY <1>1, <1>3, Zenon DEF Dispatch, HandleSide, mirroring
<1>5. CASE m.k = "snapshot" /\ HandleSnapshot(m)
  BY <1>5 DEF HandleSnapshot, NoRegions
<1>6. CASE m.k = "mutations" /\ HandleMutations(m)
  <2>1. mirror' = Applied(m.ops).mirror
    BY <1>3, <1>6, Zenon DEF HandleMutations, mirroring
  <2>2. m.ops \in Seq(Op)
    BY <1>2, <1>6, FrameKinds DEF Mutations
  <2>3. mirror'[n] \in {mirror[n], "none"}
    BY <2>1, <2>2, AppliedTyped DEF TypeOK
  <2> QED
    BY <2>3
<1>7. CASE m.k = "subtree" /\ HandleSubtreeResponse(m)
  <2>1. m \in Responses
    BY <1>2, <1>7, FrameKinds
  <2>2. Patches(m) /\ mirror' = [mirror EXCEPT ![m.n] = "full"]
    BY <1>3, <1>7 DEF HandleSubtreeResponse
  <2>3. m.n = n
    BY <2>1, <2>2 DEF TypeOK, IndexTypeOK, Responses
  <2>4. /\ m.id # 0 /\ latch[n] = m.id /\ m.ok /\ IsCurrentStream(m)
        /\ latch' = [latch EXCEPT ![n] = 0]
    BY <1>7, <2>2, <2>3 DEF Patches, MatchesLatch, HandleSubtreeResponse
  <2>5. m.g # 0 /\ active # 0
    BY <2>1, <2>4 DEF Responses, SessionOK
  <2>6. m.g = active
    BY <2>4, <2>5 DEF IsCurrentStream
  <2>7. latch'[n] = 0
    BY <2>4 DEF TypeOK
  <2>8. loading # <<>> \/ doc = active
    BY DEF SessionOK
  <2> QED
    BY <2>4, <2>6, <2>7, <2>8 DEF OursNow
<1> QED
  BY <1>4, <1>5, <1>6, <1>7

(* A cut region is filled in only by the answer to the request that is     *)
(* pending for it, with the content of the session whose document is shown *)
(* or, while a newer document is still to load, of the newest one          *)
(* (handleSubtreeResponse, src/src/renderer/index.js): no late load event, *)
(* lost request or lost answer brings a region another session's content   *)
(* once its document is the one indexed.                                   *)
THEOREM PatchAlwaysOurs == Spec => PatchIsOurs
<1>1. TypeOK /\ SessionOK /\ [Next]_vars =>
        [\A n \in Nid : mirror[n] = "stub" /\ mirror'[n] = "full" => OursNow(n)]_vars
  BY PatchStep
<1>2. PatchIsOurs <=>
        [][\A n \in Nid : mirror[n] = "stub" /\ mirror'[n] = "full" => OursNow(n)]_vars
  BY DEF PatchIsOurs, OursNow
<1>3. Spec => [](TypeOK /\ SessionOK)
  BY TypeCorrect
<1> QED
  BY <1>1, <1>2, <1>3, PTL DEF Spec
-----------------------------------------------------------------------------
(* A region that was fetched shows the page.  The argument is about the    *)
(* line of frames on their way, and the edits that wait behind it: seen    *)
(* from any answer in it, or from the mirror at its front, the content of  *)
(* a region is the page's but for an edit that is still to come, and every *)
(* edit comes once.                                                        *)

Line == inbox \o wire

Holds(f, op) == f.k = "mutations" /\ \E p \in 1 .. Len(f.ops) : f.ops[p] = op
Within(ops, op) == \E p \in 1 .. Len(ops) : ops[p] = op

(* An operation of session g is still to come, from the j-th frame of line *)
(* q on, with the edits in rest behind the line.                           *)
ToCome(q, rest, g, j, op) ==
  Within(rest, op) \/ \E i \in j .. Len(q) : Holds(q[i], op) /\ q[i].g = g

(* The content kids of region n agrees with page pg from there.            *)
Agrees(q, rest, g, pg, j, n, kids) ==
  IF pg[n] = Gone THEN ToCome(q, rest, g, j, <<"drop", n>>)
  ELSE kids = IF ToCome(q, rest, g, j, <<"grow", n>>) THEN 0 ELSE pg[n]

(* An operation that is on its way was done to the page, and is there once.*)
Done(pg, op) == IF op[1] = "grow" THEN pg[op[2]] # 0 ELSE pg[op[2]] = Gone
Distinct(ops) == \A p, r \in 1 .. Len(ops) : ops[p] = ops[r] => p = r
Once(q, rest, pg) ==
  /\ Distinct(rest) /\ \A op \in Op : Within(rest, op) => Done(pg, op)
  /\ \A i \in 1 .. Len(q) : q[i].k = "mutations" => Distinct(q[i].ops)
  /\ \A i \in 1 .. Len(q), op \in Op : Holds(q[i], op) =>
       /\ Done(pg, op) /\ ~Within(rest, op)
       /\ \A j \in 1 .. Len(q) : Holds(q[j], op) => i = j

(* Every answer of session g in the line agrees with the page, but for the *)
(* regions in skip.                                                        *)
AnswersAgree(q, rest, g, pg, skip) ==
  \A j \in 1 .. Len(q) :
    q[j].k = "subtree" /\ q[j].ok /\ q[j].g = g /\ q[j].n \notin skip =>
      Agrees(q, rest, g, pg, j + 1, q[j].n, q[j].kids)

Synced(q, rest, g, pg, skip) ==
  /\ AnswersAgree(q, rest, g, pg, skip)
  /\ active = g => \A n \in Nid \ skip : mirror[n] = "full" =>
                     Agrees(q, rest, g, pg, 1, n, shown[n])

(* No frame is of a session to come.                                       *)
Aged(q, g) == \A j \in 1 .. Len(q) : q[j].k \in {"snapshot", "mutations", "subtree"} => q[j].g <= g

FetchInv ==
  /\ active <= gen /\ Aged(Line, gen)
  /\ sock = "connecting" => Line = <<>> /\ loading = <<>> /\ mirror = NoRegions
  /\ Once(Line, pend, page)
  /\ sock = "open" /\ ~detached => Synced(Line, pend, gen, page, raced)
-----------------------------------------------------------------------------
(* What a frame that joins the line, the edits that are flushed into it, a *)
(* frame that leaves it and an edit do to what is to come.                 *)

Edited(g, ops) == [k |-> "mutations", g |-> g, ops |-> ops]

LEMMA JoinFacts ==
  ASSUME NEW q \in Seq(Frame), NEW f \in Frame, f.k # "mutations",
         NEW rest \in Seq(Op), NEW g \in Nat, NEW pg,
         Once(q, rest, pg)
  PROVE  /\ Once(Append(q, f), rest, pg)
         /\ \A j \in 1 .. Len(q) + 1 : \A op :
              ToCome(Append(q, f), rest, g, j, op) <=> ToCome(q, rest, g, j, op)
         /\ \A op : ToCome(Append(q, f), rest, g, Len(q) + 2, op) <=> Within(rest, op)
<1> DEFINE r == Append(q, f)
<1>1. /\ Len(r) = Len(q) + 1 /\ Len(q) \in Nat /\ r[Len(q) + 1] = f
      /\ \A i \in 1 .. Len(q) : r[i] = q[i]
  BY AppendFacts
<1> HIDE DEF r
<1>2. \A op : ~Holds(r[Len(q) + 1], op)
  BY <1>1 DEF Holds
<1>3. ASSUME NEW i \in 1 .. Len(r), i # Len(q) + 1 PROVE i \in 1 .. Len(q) /\ r[i] = q[i]
  <2>1. i \in 1 .. Len(q)
    BY <1>1, <1>3
  <2> QED
    BY <1>1, <2>1
<1>4. Once(r, rest, pg)
  <2>1. ASSUME NEW i \in 1 .. Len(r), r[i].k = "mutations" PROVE Distinct(r[i].ops)
    BY <1>1, <1>3, <2>1 DEF Once
  <2>2. ASSUME NEW i \in 1 .. Len(r), NEW op \in Op, Holds(r[i], op)
        PROVE  /\ Done(pg, op) /\ ~Within(rest, op)
               /\ \A j \in 1 .. Len(r) : Holds(r[j], op) => i = j
    BY <1>2, <1>3, <2>2 DEF Once
  <2> QED
    BY <2>1, <2>2 DEF Once
<1>5. ASSUME NEW op, NEW j \in 1 .. Len(q) + 1
      PROVE  ToCome(r, rest, g, j, op) <=> ToCome(q, rest, g, j, op)
  <2>1. ASSUME NEW i \in j .. Len(r), Holds(r[i], op) PROVE i \in j .. Len(q) /\ r[i] = q[i]
    BY <1>1, <1>2, <2>1
  <2>2. \A i \in j .. Len(q) : i \in j .. Len(r) /\ r[i] = q[i]
    BY <1>1
  <2> QED
    BY <2>1, <2>2, Zenon DEF ToCome
<1>6. \A op : ToCome(r, rest, g, Len(q) + 2, op) <=> Within(rest, op)
  <2>1. ~ \E i \in Len(q) + 2 .. Len(r) : TRUE
    BY <1>1
  <2> QED
    BY <2>1, Zenon DEF ToCome
<1> QED
  BY <1>4, <1>5, <1>6 DEF r

LEMMA FlushFacts ==
  ASSUME NEW q \in Seq(Frame), NEW rest \in Seq(Op), NEW g \in Nat \ {0}, NEW pg,
         Once(q, rest, pg)
  PROVE  /\ Once(Append(q, Edited(g, rest)), <<>>, pg)
         /\ \A j \in 1 .. Len(q) + 1 : \A op :
              ToCome(Append(q, Edited(g, rest)), <<>>, g, j, op) <=> ToCome(q, rest, g, j, op)
<1> DEFINE f == Edited(g, rest)
           r == Append(q, f)
<1>0. f \in Frame /\ f.k = "mutations" /\ f.g = g /\ f.ops = rest
  BY DEF Edited, Frame, Mutations
<1>1. /\ Len(r) = Len(q) + 1 /\ Len(q) \in Nat /\ r[Len(q) + 1] = f
      /\ \A i \in 1 .. Len(q) : r[i] = q[i]
  BY <1>0, AppendFacts
<1> HIDE DEF r, f
<1>2. \A op : Holds(r[Len(q) + 1], op) <=> Within(rest, op)
  BY <1>0, <1>1 DEF Holds, Within
<1>3. ASSUME NEW i \in 1 .. Len(r), i # Len(q) + 1 PROVE i \in 1 .. Len(q) /\ r[i] = q[i]
  <2>1. i \in 1 .. Len(q)
    BY <1>1, <1>3
  <2> QED
    BY <1>1, <2>1
<1>7. \A op : ~Within(<<>>, op)
  BY DEF Within
<1>4. Once(r, <<>>, pg)
  <2>1. ASSUME NEW i \in 1 .. Len(r), r[i].k = "mutations" PROVE Distinct(r[i].ops)
    BY <1>0, <1>1, <1>3, <2>1 DEF Once
  <2>2. ASSUME NEW i \in 1 .. Len(r), NEW op \in Op, Holds(r[i], op)
        PROVE  /\ Done(pg, op) /\ ~Within(<<>>, op)
               /\ \A j \in 1 .. Len(r) : Holds(r[j], op) => i = j
    <3>1. CASE i = Len(q) + 1
      BY <1>2, <1>3, <1>7, <2>2, <3>1 DEF Once
    <3>2. CASE i # Len(q) + 1
      BY <1>2, <1>3, <1>7, <2>2, <3>2 DEF Once
    <3> QED
      BY <3>1, <3>2
  <2>3. Distinct(<<>>)
    BY DEF Distinct
  <2> QED
    BY <2>1, <2>2, <2>3, <1>7 DEF Once
<1>5. ASSUME NEW op, NEW j \in 1 .. Len(q) + 1
      PROVE  ToCome(r, <<>>, g, j, op) <=> ToCome(q, rest, g, j, op)
  <2>1. ASSUME NEW i \in j .. Len(r), Holds(r[i], op), r[i].g = g
        PROVE Within(rest, op) \/ (i \in j .. Len(q) /\ r[i] = q[i])
    BY <1>1, <1>2, <2>1
  <2>2. \A i \in j .. Len(q) : i \in j .. Len(r) /\ r[i] = q[i]
    BY <1>1
  <2>3. Len(q) + 1 \in j .. Len(r) /\ r[Len(q) + 1].g = g
    BY <1>0, <1>1
  <2> QED
    BY <1>2, <1>7, <2>1, <2>2, <2>3, Zenon DEF ToCome
<1> QED
  BY <1>4, <1>5 DEF r, f

LEMMA LeaveFacts ==
  ASSUME NEW q \in Seq(Frame), q # <<>>, NEW rest \in Seq(Op), NEW g \in Nat, NEW pg,
         Once(q, rest, pg)
  PROVE  /\ Once(Tail(q), rest, pg)
         /\ \A j \in 1 .. Len(q) : \A op : ToCome(Tail(q), rest, g, j, op) <=> ToCome(q, rest, g, j + 1, op)
         /\ \A op : ToCome(q, rest, g, 1, op) <=>
                     ToCome(Tail(q), rest, g, 1, op) \/ (Holds(Head(q), op) /\ Head(q).g = g)
<1> DEFINE r == Tail(q)
<1>1. /\ Head(q) = q[1] /\ Len(q) \in Nat \ {0} /\ Len(r) = Len(q) - 1
      /\ \A i \in 1 .. Len(r) : i + 1 \in 1 .. Len(q) /\ r[i] = q[i + 1]
  BY TailFacts
<1> HIDE DEF r
<1>4. Once(r, rest, pg)
  <2>1. ASSUME NEW i \in 1 .. Len(r), r[i].k = "mutations" PROVE Distinct(r[i].ops)
    BY <1>1, <2>1 DEF Once
  <2>2. ASSUME NEW i \in 1 .. Len(r), NEW op \in Op, Holds(r[i], op)
        PROVE  /\ Done(pg, op) /\ ~Within(rest, op)
               /\ \A j \in 1 .. Len(r) : Holds(r[j], op) => i = j
    <3>1. i + 1 \in 1 .. Len(q) /\ Holds(q[i + 1], op)
      BY <1>1, <2>2
    <3>2. ASSUME NEW j \in 1 .. Len(r), Holds(r[j], op) PROVE i = j
      <4>1. j + 1 \in 1 .. Len(q) /\ Holds(q[j + 1], op)
        BY <1>1, <3>2
      <4>2. i + 1 = j + 1
        BY <3>1, <4>1 DEF Once
      <4> QED
        BY <1>1, <4>2
    <3> QED
      BY <3>1, <3>2 DEF Once
  <2> QED
    BY <2>1, <2>2 DEF Once
<1>5. ASSUME NEW op, NEW j \in 1 .. Len(q)
      PROVE  ToCome(r, rest, g, j, op) <=> ToCome(q, rest, g, j + 1, op)
  <2>1. \A i \in j .. Len(r) : i + 1 \in j + 1 .. Len(q) /\ r[i] = q[i + 1]
    BY <1>1
  <2>2. ASSUME NEW i \in j + 1 .. Len(q) PROVE i - 1 \in j .. Len(r) /\ r[i - 1] = q[i]
    <3>1. i - 1 \in 1 .. Len(r) /\ (i - 1) + 1 = i /\ i - 1 \in j .. Len(r)
      BY <1>1
    <3> QED
      BY <1>1, <3>1
  <2> QED
    BY <2>1, <2>2, Zenon DEF ToCome
<1>6. ASSUME NEW op
      PROVE  ToCome(q, rest, g, 1, op) <=>
               ToCome(r, rest, g, 1, op) \/ (Holds(Head(q), op) /\ Head(q).g = g)
  <2>1. ToCome(r, rest, g, 1, op) <=> ToCome(q, rest, g, 2, op)
    <3>1. 1 \in 1 .. Len(q) /\ 1 + 1 = 2
      BY <1>1
    <3> QED
      BY <1>5, <3>1
  <2>2. \A i \in 1 .. Len(q) : i = 1 \/ i \in 2 .. Len(q)
    BY <1>1
  <2>3. 1 \in 1 .. Len(q) /\ \A i \in 2 .. Len(q) : i \in 1 .. Len(q)
    BY <1>1
  <2>4. q[1] = Head(q)
    BY <1>1
  <2> QED
    BY <2>1, <2>2, <2>3, <2>4, Zenon DEF ToCome
<1> QED
  BY <1>4, <1>5, <1>6 DEF r

LEMMA EditFacts ==
  ASSUME NEW q \in Seq(Frame), NEW rest \in Seq(Op), NEW g \in Nat, NEW pg \in [Nid -> 0 .. Gone],
         NEW n \in Nid, NEW op, NEW new,
         \/ op = <<"grow", n>> /\ pg[n] = 0 /\ new = [pg EXCEPT ![n] = 1]
         \/ op = <<"drop", n>> /\ pg[n] # Gone /\ new = [pg EXCEPT ![n] = Gone],
         Once(q, rest, pg)
  PROVE  /\ Once(q, Append(rest, op), new)
         /\ \A j \in Nat, x \in Nid : \A kids : Agrees(q, rest, g, pg, j, x, kids) =>
              Agrees(q, Append(rest, op), g, new, j, x, kids)
<1> DEFINE more == Append(rest, op)
<1>1. op \in Op /\ op[2] = n /\ ~Done(pg, op) /\ Done(new, op)
  BY DEF Op, Done, Gone
<1>2. ASSUME NEW o \in Op, Done(pg, o) PROVE Done(new, o) /\ o # op
  <2>1. Done(new, o)
    <3>1. o[1] \in {"grow", "drop"} /\ o[2] \in Nid
      BY DEF Op
    <3>2. CASE o[2] = n
      BY <1>2, <3>1, <3>2 DEF Done, Gone
    <3>3. CASE o[2] # n
      BY <1>2, <3>1, <3>3 DEF Done
    <3> QED
      BY <3>2, <3>3
  <2> QED
    BY <1>1, <1>2, <2>1
<1>3. /\ Len(more) = Len(rest) + 1 /\ Len(rest) \in Nat /\ more[Len(rest) + 1] = op
      /\ \A i \in 1 .. Len(rest) : more[i] = rest[i]
  BY <1>1, AppendFacts
<1> HIDE DEF more
<1>4. \A o : Within(more, o) <=> Within(rest, o) \/ o = op
  <2>1. \A i \in 1 .. Len(more) : i \in 1 .. Len(rest) \/ i = Len(rest) + 1
    BY <1>3
  <2>2. \A i \in 1 .. Len(rest) : i \in 1 .. Len(more)
    BY <1>3
  <2>3. Len(rest) + 1 \in 1 .. Len(more)
    BY <1>3
  <2> QED
    BY <1>3, <2>1, <2>2, <2>3, Zenon DEF Within
<1>5. ~Within(rest, op) /\ \A i \in 1 .. Len(q) : ~Holds(q[i], op)
  BY <1>1 DEF Once
<1>6. Once(q, more, new)
  <2>1. Distinct(more)
    <3>1. SUFFICES ASSUME NEW i \in 1 .. Len(more), NEW j \in 1 .. Len(more), more[i] = more[j]
                   PROVE  i = j
      BY DEF Distinct
    <3>2. CASE i \in 1 .. Len(rest) /\ j \in 1 .. Len(rest)
      BY <1>3, <3>1, <3>2 DEF Once, Distinct
    <3>3. CASE i = Len(rest) + 1 /\ j \in 1 .. Len(rest)
      BY <1>3, <1>5, <3>1, <3>3 DEF Within
    <3>4. CASE j = Len(rest) + 1 /\ i \in 1 .. Len(rest)
      BY <1>3, <1>5, <3>1, <3>4 DEF Within
    <3>5. /\ i \in 1 .. Len(rest) \/ i = Len(rest) + 1
          /\ j \in 1 .. Len(rest) \/ j = Len(rest) + 1
      BY <1>3
    <3> QED
      BY <3>2, <3>3, <3>4, <3>5
  <2>2. ASSUME NEW o \in Op, Within(more, o) PROVE Done(new, o)
    BY <1>1, <1>2, <1>4, <2>2 DEF Once
  <2>3. ASSUME NEW i \in 1 .. Len(q), NEW o \in Op, Holds(q[i], o)
        PROVE  /\ Done(new, o) /\ ~Within(more, o)
               /\ \A j \in 1 .. Len(q) : Holds(q[j], o) => i = j
    BY <1>2, <1>4, <2>3 DEF Once
  <2> QED
    BY <2>1, <2>2, <2>3 DEF Once
<1>7. ASSUME NEW j \in Nat, NEW x \in Nid, NEW kids, Agrees(q, rest, g, pg, j, x, kids)
      PROVE  Agrees(q, more, g, new, j, x, kids)
  <2>1. \A o : ToCome(q, more, g, j, o) <=> ToCome(q, rest, g, j, o) \/ o = op
    BY <1>4, Zenon DEF ToCome
  <2>2. CASE x # n
    <3>1. <<"grow", x>> # op /\ <<"drop", x>> # op /\ new[x] = pg[x]
      BY <1>1, <2>2
    <3> QED
      BY <1>7, <2>1, <3>1, Zenon DEF Agrees
  <2>3. CASE x = n /\ op = <<"drop", n>>
    BY <2>1, <2>3 DEF Agrees
  <2>4. CASE x = n /\ op = <<"grow", n>>
    <3>1. kids = 0 /\ new[x] = 1
      BY <1>7, <2>4 DEF Agrees, Gone
    <3> QED
      BY <2>1, <2>4, <3>1 DEF Agrees, Gone
  <2> QED
    BY <2>2, <2>3, <2>4
<1> QED
  BY <1>6, <1>7 DEF more

LEMMA SyncedJoin ==
  ASSUME NEW q \in Seq(Frame), NEW f \in Frame, f.k # "mutations",
         NEW rest \in Seq(Op), NEW g \in Nat, NEW pg, NEW skip,
         Once(q, rest, pg), Synced(q, rest, g, pg, skip),
         f.k = "subtree" /\ f.ok /\ f.g = g /\ f.n \notin skip =>
           pg[f.n] # Gone /\ f.kids = pg[f.n] /\ ~Within(rest, <<"grow", f.n>>)
  PROVE  Synced(Append(q, f), rest, g, pg, skip)
<1> DEFINE r == Append(q, f)
<1>1. /\ Len(r) = Len(q) + 1 /\ Len(q) \in Nat /\ r[Len(q) + 1] = f
      /\ \A i \in 1 .. Len(q) : r[i] = q[i]
  BY AppendFacts
<1>2. /\ \A j \in 1 .. Len(q) + 1 : \A op : ToCome(r, rest, g, j, op) <=> ToCome(q, rest, g, j, op)
      /\ \A op : ToCome(r, rest, g, Len(q) + 2, op) <=> Within(rest, op)
  BY JoinFacts
<1> HIDE DEF r
<1>3. \A j \in 1 .. Len(q) + 1 : \A x, kids :
        Agrees(q, rest, g, pg, j, x, kids) <=> Agrees(r, rest, g, pg, j, x, kids)
  BY <1>2, Zenon DEF Agrees
<1>4. ASSUME NEW j \in 1 .. Len(r), r[j].k = "subtree", r[j].ok, r[j].g = g, r[j].n \notin skip
      PROVE  Agrees(r, rest, g, pg, j + 1, r[j].n, r[j].kids)
  <2>1. CASE j \in 1 .. Len(q)
    <3>1. r[j] = q[j] /\ j + 1 \in 1 .. Len(q) + 1
      BY <1>1, <2>1
    <3>2. Agrees(q, rest, g, pg, j + 1, q[j].n, q[j].kids)
      BY <1>4, <2>1, <3>1 DEF Synced, AnswersAgree
    <3> QED
      BY <1>3, <3>1, <3>2
  <2>2. CASE j = Len(q) + 1
    <3>1. r[j] = f /\ j + 1 = Len(q) + 2
      BY <1>1, <2>2
    <3>2. pg[f.n] # Gone /\ f.kids = pg[f.n] /\ ~Within(rest, <<"grow", f.n>>)
      BY <1>4, <3>1
    <3> QED
      BY <1>2, <3>1, <3>2 DEF Agrees
  <2> QED
    BY <1>1, <2>1, <2>2
<1>5. 1 \in 1 .. Len(q) + 1
  BY <1>1
<1>6. ASSUME active = g, NEW n \in Nid \ skip, mirror[n] = "full"
      PROVE  Agrees(r, rest, g, pg, 1, n, shown[n])
  BY <1>3, <1>5, <1>6 DEF Synced
<1> QED
  BY <1>4, <1>6 DEF Synced, AnswersAgree, r

LEMMA SyncedFlush ==
  ASSUME NEW q \in Seq(Frame), NEW rest \in Seq(Op), NEW g \in Nat \ {0}, NEW pg, NEW skip,
         Once(q, rest, pg), Synced(q, rest, g, pg, skip)
  PROVE  Synced(Append(q, Edited(g, rest)), <<>>, g, pg, skip)
<1> DEFINE f == Edited(g, rest)
           r == Append(q, f)
<1>0. f \in Frame /\ f.k = "mutations"
  BY DEF Edited, Frame, Mutations
<1>1. /\ Len(r) = Len(q) + 1 /\ Len(q) \in Nat /\ r[Len(q) + 1] = f
      /\ \A i \in 1 .. Len(q) : r[i] = q[i]
  BY <1>0, AppendFacts
<1>2. \A j \in 1 .. Len(q) + 1 : \A op : ToCome(r, <<>>, g, j, op) <=> ToCome(q, rest, g, j, op)
  BY FlushFacts
<1> HIDE DEF r, f
<1>3. \A j \in 1 .. Len(q) + 1 : \A x, kids :
        Agrees(q, rest, g, pg, j, x, kids) <=> Agrees(r, <<>>, g, pg, j, x, kids)
  BY <1>2, Zenon DEF Agrees
<1>4. ASSUME NEW j \in 1 .. Len(r), r[j].k = "subtree", r[j].ok, r[j].g = g, r[j].n \notin skip
      PROVE  Agrees(r, <<>>, g, pg, j + 1, r[j].n, r[j].kids)
  <2>1. j \in 1 .. Len(q)
    BY <1>0, <1>1, <1>4
  <2>2. r[j] = q[j] /\ j + 1 \in 1 .. Len(q) + 1
    BY <1>1, <2>1
  <2>3. Agrees(q, rest, g, pg, j + 1, q[j].n, q[j].kids)
    BY <1>4, <2>1, <2>2 DEF Synced, AnswersAgree
  <2> QED
    BY <1>3, <2>2, <2>3
<1>5. 1 \in 1 .. Len(q) + 1
  BY <1>1
<1>6. ASSUME active = g, NEW n \in Nid \ skip, mirror[n] = "full"
      PROVE  Agrees(r, <<>>, g, pg, 1, n, shown[n])
  BY <1>3, <1>5, <1>6 DEF Synced
<1> QED
  BY <1>4, <1>6 DEF Synced, AnswersAgree, r, f

LEMMA SyncedLeave ==
  ASSUME NEW q \in Seq(Frame), q # <<>>, NEW rest \in Seq(Op), NEW g \in Nat, NEW pg, NEW skip,
         Once(q, rest, pg), AnswersAgree(q, rest, g, pg, skip)
  PROVE  AnswersAgree(Tail(q), rest, g, pg, skip)
<1> DEFINE r == Tail(q)
<1>1. /\ Len(q) \in Nat \ {0} /\ Len(r) = Len(q) - 1
      /\ \A i \in 1 .. Len(r) : i + 1 \in 1 .. Len(q) /\ r[i] = q[i + 1]
  BY TailFacts
<1>2. \A j \in 1 .. Len(q) : \A op : ToCome(r, rest, g, j, op) <=> ToCome(q, rest, g, j + 1, op)
  BY LeaveFacts
<1> HIDE DEF r
<1>3. ASSUME NEW j \in 1 .. Len(r), r[j].k = "subtree", r[j].ok, r[j].g = g, r[j].n \notin skip
      PROVE  Agrees(r, rest, g, pg, j + 1, r[j].n, r[j].kids)
  <2>1. j + 1 \in 1 .. Len(q) /\ r[j] = q[j + 1]
    BY <1>1
  <2>2. Agrees(q, rest, g, pg, (j + 1) + 1, r[j].n, r[j].kids)
    BY <1>3, <2>1 DEF AnswersAgree
  <2>3. \A op : ToCome(r, rest, g, j + 1, op) <=> ToCome(q, rest, g, (j + 1) + 1, op)
    BY <1>2, <2>1
  <2> QED
    BY <2>2, <2>3, Zenon DEF Agrees
<1> QED
  BY <1>3 DEF AnswersAgree, r

-----------------------------------------------------------------------------
(* The line in the states of the system.                                   *)

LEMMA LineTyped == TypeOK => Line \in Seq(Frame)
BY ConcatProperties DEF TypeOK, Line

LEMMA OneMore ==
  ASSUME NEW q \in Seq(Frame), NEW f \in Frame
  PROVE  q \o <<f>> = Append(q, f)
<1>1. <<f>> \in Seq(Frame) /\ Len(<<f>>) = 1 /\ <<f>>[1] = f
  OBVIOUS
<1>2. /\ q \o <<f>> \in Seq(Frame) /\ Len(q \o <<f>>) = Len(q) + 1
      /\ \A i \in 1 .. Len(q) + 1 : (q \o <<f>>)[i] = IF i <= Len(q) THEN q[i] ELSE f
  <2>1. \A i \in 1 .. Len(q) + 1 : i <= Len(q) \/ i - Len(q) = 1
    BY LenProperties
  <2> QED
    BY <1>1, <2>1, ConcatProperties
<1>3. /\ Append(q, f) \in Seq(Frame) /\ Len(Append(q, f)) = Len(q) + 1 /\ Len(q) \in Nat
      /\ \A i \in 1 .. Len(q) + 1 : Append(q, f)[i] = IF i <= Len(q) THEN q[i] ELSE f
  BY AppendFacts
<1> QED
  BY <1>2, <1>3, SeqEqual

LEMMA Delivered ==
  ASSUME TypeOK, NEW msgs \in Seq(Frame), inbox' = inbox, wire' = Deliver(wire, msgs)
  PROVE  Line' = IF sock = "open" THEN Line \o msgs ELSE Line
<1>1. inbox \in Seq(Frame) /\ wire \in Seq(Frame)
  BY DEF TypeOK
<1> QED
  BY <1>1, ConcatAssociative DEF Line, Deliver

LEMMA AgedAppend ==
  ASSUME NEW q \in Seq(Frame), NEW f \in Frame, NEW g \in Nat, Aged(q, g),
         f.k \in {"snapshot", "mutations", "subtree"} => f.g <= g
  PROVE  Aged(Append(q, f), g)
<1>1. /\ Len(Append(q, f)) = Len(q) + 1 /\ Len(q) \in Nat /\ Append(q, f)[Len(q) + 1] = f
      /\ \A i \in 1 .. Len(q) : Append(q, f)[i] = q[i]
  BY AppendFacts
<1>2. \A i \in 1 .. Len(Append(q, f)) : i \in 1 .. Len(q) \/ i = Len(q) + 1
  BY <1>1
<1> QED
  BY <1>1, <1>2, Zenon DEF Aged

LEMMA AgedOlder ==
  ASSUME NEW q \in Seq(Frame), NEW g \in Nat, Aged(q, g)
  PROVE  /\ Aged(q, g + 1)
         /\ \A rest, pg, skip : AnswersAgree(q, rest, g + 1, pg, skip)
<1>1. ASSUME NEW j \in 1 .. Len(q), q[j].k \in {"snapshot", "mutations", "subtree"}
      PROVE  q[j].g \in Nat /\ q[j].g <= g
  <2>1. q[j] \in Frame
    BY LenProperties
  <2>2. q[j].g \in Nat
    BY <1>1, <2>1, FrameKinds DEF Snapshots, Mutations, Responses
  <2> QED
    BY <1>1, <2>2 DEF Aged
<1>2. \A j \in 1 .. Len(q) : q[j].k \in {"snapshot", "mutations", "subtree"} =>
                              q[j].g <= g + 1 /\ q[j].g # g + 1
  BY <1>1
<1> QED
  BY <1>2 DEF Aged, AnswersAgree

(* The edits that waited join the line, or are lost with the socket.       *)
DrainedLine == IF sock = "open" THEN Line \o Drained ELSE Line

LEMMA Drains ==
  ASSUME TypeOK, SessionOK, FetchInv
  PROVE  /\ DrainedLine \in Seq(Frame)
         /\ Once(DrainedLine, <<>>, page)
         /\ Aged(DrainedLine, gen)
         /\ sock # "open" => DrainedLine = Line
         /\ sock = "open" /\ ~detached => Synced(DrainedLine, <<>>, gen, page, raced)
<1>0. Line \in Seq(Frame) /\ pend \in Seq(Op) /\ gen \in Nat
  BY LineTyped DEF TypeOK
<1>1. CASE sock = "open" /\ pend # <<>>
  <2>1. gen \in Nat \ {0} /\ Drained = <<Edited(gen, pend)>>
    BY <1>0, <1>1 DEF SessionOK, Drained, Edited
  <2>2. /\ Edited(gen, pend) \in Frame /\ Edited(gen, pend).g = gen
        /\ DrainedLine = Append(Line, Edited(gen, pend))
    <3>1. Edited(gen, pend) \in Frame /\ Edited(gen, pend).g = gen
      BY <1>0, <2>1 DEF Edited, Frame, Mutations
    <3> QED
      BY <1>0, <1>1, <2>1, <3>1, OneMore DEF DrainedLine
  <2>3. Append(Line, Edited(gen, pend)) \in Seq(Frame)
    BY <1>0, <2>2, AppendFacts
  <2>4. Once(Append(Line, Edited(gen, pend)), <<>>, page)
    BY <1>0, <2>1, FlushFacts DEF FetchInv
  <2>5. Aged(Append(Line, Edited(gen, pend)), gen)
    BY <1>0, <2>2, AgedAppend DEF FetchInv
  <2>6. ~detached => Synced(Append(Line, Edited(gen, pend)), <<>>, gen, page, raced)
    BY <1>0, <1>1, <2>1, SyncedFlush DEF FetchInv
  <2> QED
    BY <1>1, <2>2, <2>3, <2>4, <2>5, <2>6
<1>2. CASE sock = "open" /\ pend = <<>>
  <2>1. DrainedLine = Line
    BY <1>0, <1>2, ConcatEmptySeq DEF DrainedLine, Drained
  <2> QED
    BY <1>0, <1>2, <2>1 DEF FetchInv
<1>3. CASE sock # "open"
  <2>1. DrainedLine = Line
    BY <1>3 DEF DrainedLine
  <2>2. Distinct(<<>>) /\ \A op : ~Within(<<>>, op)
    BY DEF Distinct, Within
  <2>3. Once(Line, <<>>, page)
    BY <2>2 DEF FetchInv, Once
  <2> QED
    BY <1>0, <1>3, <2>1, <2>3 DEF FetchInv
<1> QED
  BY <1>1, <1>2, <1>3

-----------------------------------------------------------------------------
(* The steps.                                                              *)

Viewing == <<active, loading, mirror, shown, sock, detached>>

LEMMA FetchSame ==
  ASSUME FetchInv, UNCHANGED Viewing, active <= gen', Aged(Line', gen'),
         sock = "connecting" => Line' = <<>>, Once(Line', pend', page'),
         sock = "open" /\ ~detached => Synced(Line', pend', gen', page', raced')
  PROVE  FetchInv'
<1>1. sock = "open" /\ ~detached => Synced(Line, pend, gen, page, raced)'
  BY DEF Viewing, Synced
<1> QED
  BY <1>1 DEF Viewing, FetchInv, NoRegions

LEMMA FetchStutter ==
  ASSUME FetchInv, UNCHANGED <<source, net, inbox, mirroring, detached>>
  PROVE  FetchInv'
<1>1. UNCHANGED <<Viewing, Line, pend, gen, page, raced>>
  BY DEF Viewing, Line, source, net, mirroring
<1> QED
  BY <1>1, FetchSame DEF FetchInv

LEMMA FetchEdit ==
  ASSUME TypeOK, SessionOK, FetchInv, NEW n \in Nid, Grow(n) \/ Leave(n)
  PROVE  FetchInv'
<1>0. Line \in Seq(Frame) /\ pend \in Seq(Op) /\ gen \in Nat /\ page \in [Nid -> 0 .. Gone]
  BY LineTyped DEF TypeOK
<1>1. UNCHANGED <<Viewing, Line, gen, raced>>
  BY DEF Grow, Leave, net, mirroring, Viewing, Line
<1>2. PICK op : /\ pend' = Append(pend, op)
                /\ \/ op = <<"grow", n>> /\ page[n] = 0 /\ page' = [page EXCEPT ![n] = 1]
                   \/ op = <<"drop", n>> /\ page[n] # Gone /\ page' = [page EXCEPT ![n] = Gone]
  BY DEF Grow, Leave
<1>3. /\ Once(Line, pend', page')
      /\ \A j \in Nat, x \in Nid : \A kids :
           Agrees(Line, pend, gen, page, j, x, kids) => Agrees(Line, pend', gen, page', j, x, kids)
  BY <1>0, <1>2, EditFacts DEF FetchInv
<1>4. ASSUME sock = "open", ~detached PROVE Synced(Line, pend', gen, page', raced)
  <2>1. AnswersAgree(Line, pend', gen, page', raced)
    <3>1. SUFFICES ASSUME NEW j \in 1 .. Len(Line), Line[j].k = "subtree", Line[j].ok,
                          Line[j].g = gen, Line[j].n \notin raced
                   PROVE  Agrees(Line, pend', gen, page', j + 1, Line[j].n, Line[j].kids)
      BY DEF AnswersAgree
    <3>2. Line[j].n \in Nid /\ j + 1 \in Nat
      <4>1. Line[j] \in Frame
        BY <1>0, LenProperties
      <4> QED
        BY <3>1, <4>1, FrameKinds DEF Responses
    <3>3. Agrees(Line, pend, gen, page, j + 1, Line[j].n, Line[j].kids)
      BY <1>4, <3>1 DEF FetchInv, Synced, AnswersAgree
    <3> QED
      BY <1>3, <3>2, <3>3
  <2>2. ASSUME active = gen, NEW x \in Nid \ raced, mirror[x] = "full"
        PROVE  Agrees(Line, pend', gen, page', 1, x, shown[x])
    BY <1>3, <1>4, <2>2 DEF FetchInv, Synced
  <2> QED
    BY <2>1, <2>2 DEF Synced
<1> QED
  BY <1>1, <1>3, <1>4, FetchSame DEF FetchInv

LEMMA FetchFlush ==
  ASSUME TypeOK, SessionOK, FetchInv, Flush \/ Stop
  PROVE  FetchInv'
<1>1. UNCHANGED <<Viewing, gen, page, raced, inbox>> /\ pend' = <<>> /\ wire' = Deliver(wire, Drained)
  BY DEF Flush, Stop, mirroring, Viewing
<1>2. Line' = DrainedLine
  BY <1>1, Delivered, DrainedTyped DEF DrainedLine
<1> QED
  BY <1>1, <1>2, Drains, FetchSame DEF FetchInv

LEMMA FetchRestart ==
  ASSUME TypeOK, SessionOK, FetchInv, Restarted, UNCHANGED <<Viewing, inbox>>
  PROVE  FetchInv'
<1> DEFINE f == SnapshotOf(gen + 1)
<1>0. /\ Line \in Seq(Frame) /\ gen \in Nat /\ f \in Frame /\ Drained \in Seq(Frame)
      /\ f.k = "snapshot" /\ f.g = gen + 1 /\ active <= gen /\ active \in Nat
  BY LineTyped, SnapshotTyped, DrainedTyped DEF TypeOK, SnapshotOf, FetchInv
<1>1. gen' = gen + 1 /\ pend' = <<>> /\ raced' = {} /\ page' = page
  BY DEF Restarted
<1> HIDE DEF f
<1>2. Line' = IF sock = "open" THEN Append(DrainedLine, f) ELSE DrainedLine
  <2>1. Append(Drained, f) \in Seq(Frame)
    BY <1>0, AppendFacts
  <2>2. Line' = IF sock = "open" THEN Line \o Append(Drained, f) ELSE Line
    BY <2>1, Delivered DEF Restarted, f
  <2>3. Line \o Append(Drained, f) = Append(Line \o Drained, f)
    <3>1. <<f>> \in Seq(Frame) /\ Line \o Drained \in Seq(Frame)
      BY <1>0, ConcatProperties
    <3>2. Append(Drained, f) = Drained \o <<f>> /\ Append(Line \o Drained, f) = (Line \o Drained) \o <<f>>
      BY <1>0, <3>1, OneMore
    <3> QED
      BY <1>0, <3>1, <3>2, ConcatAssociative
  <2> QED
    BY <2>2, <2>3 DEF DrainedLine
<1>3. /\ DrainedLine \in Seq(Frame) /\ Once(DrainedLine, <<>>, page) /\ Aged(DrainedLine, gen + 1)
      /\ \A rest, pg, skip : AnswersAgree(DrainedLine, rest, gen + 1, pg, skip)
  BY <1>0, Drains, AgedOlder
<1>4. Once(Append(DrainedLine, f), <<>>, page) /\ Aged(Append(DrainedLine, f), gen + 1)
  <2>1. <<>> \in Seq(Op) /\ gen + 1 \in Nat
    BY <1>0
  <2>2. Once(Append(DrainedLine, f), <<>>, page)
    BY <1>0, <1>3, <2>1, f.k # "mutations", JoinFacts
  <2>3. Aged(Append(DrainedLine, f), gen + 1)
    BY <1>0, <1>3, <2>1, AgedAppend
  <2> QED
    BY <2>2, <2>3
<1>5. active # gen + 1 /\ active <= gen + 1
  BY <1>0
<1>6. Synced(DrainedLine, <<>>, gen + 1, page, {})
  BY <1>3, <1>5 DEF Synced
<1>7. Synced(Append(DrainedLine, f), <<>>, gen + 1, page, {})
  <2>1. <<>> \in Seq(Op) /\ gen + 1 \in Nat
    BY <1>0
  <2> QED
    BY <1>0, <1>3, <1>6, <2>1, SyncedJoin
<1>8. Aged(Line', gen') /\ Once(Line', pend', page') /\ Synced(Line', pend', gen', page', raced')
  BY <1>1, <1>2, <1>3, <1>4, <1>6, <1>7
<1>9. sock = "connecting" => Line' = <<>>
  BY <1>2, Drains DEF FetchInv
<1> QED
  BY <1>1, <1>5, <1>8, <1>9, FetchSame

(* A frame of the capture side that carries no edits.                      *)
LEMMA FetchFrame ==
  ASSUME TypeOK, FetchInv, UNCHANGED <<Viewing, inbox, gen, pend, page>>, raced \subseteq raced',
         NEW f \in Frame, f.k \notin {"mutations", "snapshot"}, f.k = "subtree" => f.g <= gen,
         wire' = Deliver(wire, <<f>>),
         f.k = "subtree" /\ f.ok /\ f.g = gen /\ f.n \notin raced' =>
           page[f.n] # Gone /\ f.kids = page[f.n] /\ ~Within(pend, <<"grow", f.n>>)
  PROVE  FetchInv'
<1>0. Line \in Seq(Frame) /\ gen \in Nat /\ pend \in Seq(Op) /\ <<f>> \in Seq(Frame)
  BY LineTyped DEF TypeOK
<1>1. Line' = IF sock = "open" THEN Append(Line, f) ELSE Line
  BY <1>0, Delivered, OneMore
<1>2. ASSUME sock = "open", ~detached PROVE Synced(Line, pend, gen, page, raced')
  BY <1>2 DEF FetchInv, Synced, AnswersAgree
<1>3. /\ Once(Append(Line, f), pend, page) /\ Aged(Append(Line, f), gen)
      /\ sock = "open" /\ ~detached => Synced(Append(Line, f), pend, gen, page, raced')
  <2>1. Once(Append(Line, f), pend, page)
    BY <1>0, JoinFacts DEF FetchInv
  <2>2. Aged(Append(Line, f), gen)
    BY <1>0, AgedAppend DEF FetchInv
  <2>3. ASSUME sock = "open", ~detached
        PROVE Synced(Append(Line, f), pend, gen, page, raced')
    <3>1. Synced(Line, pend, gen, page, raced')
      BY <1>2, <2>3
    <3> QED
      BY <1>0, <3>1, SyncedJoin DEF FetchInv
  <2> QED
    BY <2>1, <2>2, <2>3
<1>4. /\ Aged(Line', gen') /\ Once(Line', pend', page') /\ active <= gen'
      /\ sock = "connecting" => Line' = <<>>
      /\ sock = "open" /\ ~detached => Synced(Line', pend', gen', page', raced')
  BY <1>1, <1>2, <1>3 DEF FetchInv
<1> QED
  BY <1>4, FetchSame

LEMMA FetchCapture ==
  ASSUME TypeOK, SessionOK, FetchInv,
         \/ \E n \in Nid : Grow(n) \/ Leave(n)
         \/ Flush \/ Start \/ Stop \/ SideFrame \/ HandleSubtreeRequest \/ HandleStartRequest
  PROVE  FetchInv'
<1>1. ASSUME NEW n \in Nid, Grow(n) \/ Leave(n) PROVE FetchInv'
  BY <1>1, FetchEdit
<1>2. CASE Flush \/ Stop
  BY <1>2, FetchFlush
<1>3. CASE Start
  BY <1>3, FetchRestart DEF Start, mirroring, Viewing
<1>4. CASE SideFrame
  <2>1. PICK g \in {0, gen} : wire' = Deliver(wire, <<[k |-> "side", g |-> g]>>)
    BY <1>4 DEF SideFrame
  <2> DEFINE f == [k |-> "side", g |-> g]
  <2>2. f \in Frame /\ f.k = "side"
    BY DEF Frame, Sides, TypeOK
  <2>3. UNCHANGED <<Viewing, inbox, gen, pend, page, raced>>
    BY <1>4 DEF SideFrame, source, mirroring, Viewing
  <2>4. wire' = Deliver(wire, <<f>>)
    BY <2>1
  <2> HIDE DEF f
  <2> QED
    BY <2>2, <2>3, <2>4, FetchFrame
<1>5. CASE HandleSubtreeRequest
  <2> DEFINE r == Head(control)
             f == SubtreeResponse(r)
  <2>1. r \in Ask
    BY <1>5, RequestKinds, TailFacts DEF HandleSubtreeRequest, TypeOK
  <2>2. f \in Frame /\ f.k = "subtree" /\ f.g = gen /\ f.n = r.n
    BY <2>1, ResponseTyped DEF Frame, SubtreeResponse
  <2>3. wire' = Deliver(wire, <<f>>)
    BY <1>5 DEF HandleSubtreeRequest, Answers
  <2>4. UNCHANGED <<Viewing, inbox, gen, pend, page>>
    BY <1>5 DEF HandleSubtreeRequest, mirroring, Viewing
  <2>5. raced \subseteq raced' /\ (Within(pend, <<"grow", r.n>>) => r.n \in raced')
    <3>1. DOMAIN pend = 1 .. Len(pend)
      BY LenProperties DEF TypeOK
    <3>2. raced' = raced \cup {n \in {r.n} : <<"grow", n>> \in {pend[i] : i \in DOMAIN pend}}
      BY <1>5 DEF HandleSubtreeRequest
    <3> QED
      BY <3>1, <3>2 DEF Within
  <2>6. f.ok => page[f.n] # Gone /\ f.kids = page[f.n]
    BY <2>2 DEF SubtreeResponse, Found
  <2>7. gen \in Nat
    BY DEF TypeOK
  <2> HIDE DEF f, r
  <2>8. f.k = "subtree" => f.g <= gen
    BY <2>2, <2>7
  <2> QED
    BY <2>2, <2>3, <2>4, <2>5, <2>6, <2>8, FetchFrame
<1>6. CASE HandleStartRequest
  <2>1. CASE gen < MaxSessions
    BY <1>6, <2>1, FetchRestart DEF HandleStartRequest, mirroring, Viewing
  <2>2. CASE ~(gen < MaxSessions)
    <3>1. UNCHANGED <<Viewing, Line, gen, pend, page, raced>>
      BY <1>6, <2>2 DEF HandleStartRequest, source, mirroring, Viewing, Line
    <3> QED
      BY <3>1, FetchSame DEF FetchInv
  <2> QED
    BY <2>1, <2>2
<1> QED
  BY <1>1, <1>2, <1>3, <1>4, <1>5, <1>6

-----------------------------------------------------------------------------
(* A place in the line that is taken by a frame that cannot be decoded, or *)
(* that is left by one the relay drops: r is q with f in place k + 1.      *)
Slipped(r, q, k, f) ==
  /\ k \in 0 .. Len(q) /\ Len(r) = Len(q) + 1
  /\ \A i \in 1 .. k : r[i] = q[i]
  /\ r[k + 1] = f
  /\ \A i \in k + 1 .. Len(q) : r[i + 1] = q[i]

At(k, i) == IF i <= k THEN i ELSE i + 1
From(k, i) == IF i <= k THEN i ELSE i - 1

LEMMA SlipPlaces ==
  ASSUME NEW q \in Seq(Frame), NEW r \in Seq(Frame), NEW f, NEW k, Slipped(r, q, k, f)
  PROVE  /\ Len(q) \in Nat /\ Len(r) = Len(q) + 1 /\ k \in 0 .. Len(q) /\ r[k + 1] = f
         /\ \A i \in 1 .. Len(q) :
              /\ At(k, i) \in 1 .. Len(r) /\ r[At(k, i)] = q[i] /\ At(k, i) # k + 1
              /\ From(k, At(k, i)) = i
         /\ \A i \in 1 .. Len(r) : i # k + 1 =>
              /\ From(k, i) \in 1 .. Len(q) /\ q[From(k, i)] = r[i]
              /\ At(k, From(k, i)) = i
<1>1. Len(q) \in Nat /\ Len(r) = Len(q) + 1 /\ k \in 0 .. Len(q) /\ r[k + 1] = f
  BY LenProperties DEF Slipped
<1>2. ASSUME NEW i \in 1 .. Len(q)
      PROVE  /\ At(k, i) \in 1 .. Len(r) /\ r[At(k, i)] = q[i] /\ At(k, i) # k + 1
             /\ From(k, At(k, i)) = i
  <2>1. CASE i <= k
    <3>1. At(k, i) = i /\ From(k, i) = i /\ i \in 1 .. k
      BY <1>1, <2>1 DEF At, From
    <3> QED
      BY <1>1, <3>1 DEF Slipped
  <2>2. CASE i > k
    <3>1. i \in k + 1 .. Len(q) /\ i + 1 \in 1 .. Len(r) /\ At(k, i) = i + 1
          /\ From(k, i + 1) = i /\ i + 1 # k + 1
      BY <1>1, <2>2 DEF At, From
    <3> QED
      BY <3>1 DEF Slipped
  <2> QED
    BY <1>1, <2>1, <2>2
<1>3. ASSUME NEW i \in 1 .. Len(r), i # k + 1
      PROVE  /\ From(k, i) \in 1 .. Len(q) /\ q[From(k, i)] = r[i]
             /\ At(k, From(k, i)) = i
  <2>1. CASE i <= k
    <3>1. At(k, i) = i /\ From(k, i) = i /\ i \in 1 .. k /\ i \in 1 .. Len(q)
      BY <1>1, <2>1 DEF At, From
    <3> QED
      BY <3>1 DEF Slipped
  <2>2. CASE i > k
    <3>1. i - 1 \in k + 1 .. Len(q) /\ (i - 1) + 1 = i /\ From(k, i) = i - 1
          /\ At(k, i - 1) = i /\ i - 1 \in 1 .. Len(q)
      BY <1>1, <1>3, <2>2 DEF At, From
    <3>2. r[(i - 1) + 1] = q[i - 1]
      BY <3>1 DEF Slipped
    <3> QED
      BY <3>1, <3>2
  <2> QED
    BY <1>1, <2>1, <2>2
<1> QED
  BY <1>1, <1>2, <1>3

(* It changes nothing of what is to come but for the operations that frame *)
(* itself holds.                                                           *)
LEMMA SlipToCome ==
  ASSUME NEW q \in Seq(Frame), NEW r \in Seq(Frame), NEW f, NEW k, Slipped(r, q, k, f),
         NEW rest, NEW g, NEW op, ~(Holds(f, op) /\ f.g = g)
  PROVE  /\ ToCome(r, rest, g, 1, op) <=> ToCome(q, rest, g, 1, op)
         /\ \A j \in 1 .. Len(q) :
              ToCome(r, rest, g, At(k, j) + 1, op) <=> ToCome(q, rest, g, j + 1, op)
<1>1. /\ Len(q) \in Nat /\ Len(r) = Len(q) + 1 /\ k \in 0 .. Len(q) /\ r[k + 1] = f
      /\ \A i \in 1 .. Len(q) : At(k, i) \in 1 .. Len(r) /\ r[At(k, i)] = q[i]
      /\ \A i \in 1 .. Len(r) : i # k + 1 => From(k, i) \in 1 .. Len(q) /\ q[From(k, i)] = r[i]
  BY SlipPlaces
<1>2. ASSUME NEW x \in 1 .. Len(q) + 1, NEW y \in 1 .. Len(r) + 1,
             \A i \in x .. Len(q) : At(k, i) \in y .. Len(r),
             \A i \in y .. Len(r) : i # k + 1 => From(k, i) \in x .. Len(q)
      PROVE  ToCome(r, rest, g, y, op) <=> ToCome(q, rest, g, x, op)
  <2>1. \A i \in x .. Len(q) : At(k, i) \in y .. Len(r) /\ r[At(k, i)] = q[i]
    BY <1>1, <1>2
  <2>2. \A i \in y .. Len(r) : i # k + 1 => From(k, i) \in x .. Len(q) /\ r[i] = q[From(k, i)]
    BY <1>1, <1>2
  <2>3. ASSUME NEW i \in y .. Len(r), Holds(r[i], op), r[i].g = g
        PROVE  \E j \in x .. Len(q) : Holds(q[j], op) /\ q[j].g = g
    <3>1. i # k + 1
      BY <1>1, <2>3
    <3> QED
      BY <2>2, <2>3, <3>1, Zenon
  <2>4. ASSUME NEW i \in x .. Len(q), Holds(q[i], op), q[i].g = g
        PROVE  \E j \in y .. Len(r) : Holds(r[j], op) /\ r[j].g = g
    BY <2>1, <2>4, Zenon
  <2> QED
    BY <2>3, <2>4, Zenon DEF ToCome
<1>3. ToCome(r, rest, g, 1, op) <=> ToCome(q, rest, g, 1, op)
  <2>1. 1 \in 1 .. Len(r) + 1 /\ 1 \in 1 .. Len(q) + 1
    BY <1>1
  <2> QED
    BY <1>1, <1>2, <2>1
<1>4. ASSUME NEW j \in 1 .. Len(q)
      PROVE  ToCome(r, rest, g, At(k, j) + 1, op) <=> ToCome(q, rest, g, j + 1, op)
  <2>1. /\ At(k, j) + 1 \in 1 .. Len(r) + 1 /\ j + 1 \in 1 .. Len(q) + 1
        /\ \A i \in j + 1 .. Len(q) : At(k, i) \in At(k, j) + 1 .. Len(r)
        /\ \A i \in At(k, j) + 1 .. Len(r) : i # k + 1 => From(k, i) \in j + 1 .. Len(q)
    BY <1>1 DEF At, From
  <2> QED
    BY <1>2, <2>1
<1> QED
  BY <1>3, <1>4

LEMMA SlipFacts ==
  ASSUME NEW q \in Seq(Frame), NEW r \in Seq(Frame), NEW f, NEW k, Slipped(r, q, k, f),
         f.k \notin {"mutations", "subtree", "snapshot"},
         NEW rest \in Seq(Op), NEW g \in Nat, NEW pg, NEW skip, Once(q, rest, pg)
  PROVE  /\ Once(r, rest, pg)
         /\ Aged(q, g) => Aged(r, g)
         /\ Synced(q, rest, g, pg, skip) => Synced(r, rest, g, pg, skip)
<1>1. /\ Len(q) \in Nat /\ Len(r) = Len(q) + 1 /\ k \in 0 .. Len(q) /\ r[k + 1] = f
      /\ \A i \in 1 .. Len(r) : i # k + 1 =>
           /\ From(k, i) \in 1 .. Len(q) /\ q[From(k, i)] = r[i]
           /\ At(k, From(k, i)) = i
  BY SlipPlaces
<1>2. \A op : ~Holds(f, op)
  BY DEF Holds
<1>3. Once(r, rest, pg)
  <2>1. ASSUME NEW i \in 1 .. Len(r), r[i].k = "mutations" PROVE Distinct(r[i].ops)
    BY <1>1, <2>1 DEF Once
  <2>2. ASSUME NEW i \in 1 .. Len(r), NEW op \in Op, Holds(r[i], op)
        PROVE  /\ Done(pg, op) /\ ~Within(rest, op)
               /\ \A j \in 1 .. Len(r) : Holds(r[j], op) => i = j
    <3>1. From(k, i) \in 1 .. Len(q) /\ Holds(q[From(k, i)], op) /\ At(k, From(k, i)) = i
      BY <1>1, <1>2, <2>2
    <3>2. ASSUME NEW j \in 1 .. Len(r), Holds(r[j], op) PROVE i = j
      <4>1. From(k, j) \in 1 .. Len(q) /\ Holds(q[From(k, j)], op) /\ At(k, From(k, j)) = j
        BY <1>1, <1>2, <3>2
      <4>2. From(k, i) = From(k, j)
        BY <3>1, <4>1 DEF Once
      <4> QED
        BY <3>1, <4>1, <4>2
    <3> QED
      BY <3>1, <3>2 DEF Once
  <2> QED
    BY <2>1, <2>2 DEF Once
<1>4. ASSUME Aged(q, g) PROVE Aged(r, g)
  BY <1>1, <1>4 DEF Aged
<1>5. ASSUME Synced(q, rest, g, pg, skip) PROVE Synced(r, rest, g, pg, skip)
  <2>1. ASSUME NEW i \in 1 .. Len(r), r[i].k = "subtree", r[i].ok, r[i].g = g, r[i].n \notin skip
        PROVE  Agrees(r, rest, g, pg, i + 1, r[i].n, r[i].kids)
    <3>1. PICK j \in 1 .. Len(q) : q[j] = r[i] /\ At(k, j) = i
      BY <1>1, <2>1
    <3>2. Agrees(q, rest, g, pg, j + 1, r[i].n, r[i].kids)
      BY <1>5, <2>1, <3>1 DEF Synced, AnswersAgree
    <3>3. \A op : ToCome(r, rest, g, i + 1, op) <=> ToCome(q, rest, g, j + 1, op)
      BY <1>2, <3>1, SlipToCome
    <3> QED
      BY <3>2, <3>3, Zenon DEF Agrees
  <2>2. ASSUME active = g, NEW n \in Nid \ skip, mirror[n] = "full"
        PROVE  Agrees(r, rest, g, pg, 1, n, shown[n])
    <3>1. Agrees(q, rest, g, pg, 1, n, shown[n])
      BY <1>5, <2>2 DEF Synced
    <3>2. \A op : ToCome(r, rest, g, 1, op) <=> ToCome(q, rest, g, 1, op)
      BY <1>2, SlipToCome
    <3> QED
      BY <3>1, <3>2, Zenon DEF Agrees
  <2> QED
    BY <2>1, <2>2 DEF Synced, AnswersAgree
<1> QED
  BY <1>3, <1>4, <1>5

(* A frame that is lost takes its edits with it; the other regions are as  *)
(* they were.                                                              *)
LEMMA LossFacts ==
  ASSUME NEW q \in Seq(Frame), NEW r \in Seq(Frame), NEW f, NEW k, Slipped(r, q, k, f),
         NEW rest \in Seq(Op), NEW g \in Nat, NEW pg, NEW skip, NEW lost,
         \A op : Holds(f, op) /\ f.g = g => op[2] \in lost,
         Once(r, rest, pg)
  PROVE  /\ Once(q, rest, pg)
         /\ Aged(r, g) => Aged(q, g)
         /\ Synced(r, rest, g, pg, skip) => Synced(q, rest, g, pg, skip \cup lost)
<1>1. \A i \in 1 .. Len(q) :
        At(k, i) \in 1 .. Len(r) /\ r[At(k, i)] = q[i] /\ From(k, At(k, i)) = i
  BY SlipPlaces
<1>2. Once(q, rest, pg)
  <2>1. ASSUME NEW i \in 1 .. Len(q), q[i].k = "mutations" PROVE Distinct(q[i].ops)
    BY <1>1, <2>1 DEF Once
  <2>2. ASSUME NEW i \in 1 .. Len(q), NEW op \in Op, Holds(q[i], op)
        PROVE  /\ Done(pg, op) /\ ~Within(rest, op)
               /\ \A j \in 1 .. Len(q) : Holds(q[j], op) => i = j
    <3>1. At(k, i) \in 1 .. Len(r) /\ Holds(r[At(k, i)], op) /\ From(k, At(k, i)) = i
      BY <1>1, <2>2
    <3>2. ASSUME NEW j \in 1 .. Len(q), Holds(q[j], op) PROVE i = j
      <4>1. At(k, j) \in 1 .. Len(r) /\ Holds(r[At(k, j)], op) /\ From(k, At(k, j)) = j
        BY <1>1, <3>2
      <4>2. At(k, i) = At(k, j)
        BY <3>1, <4>1 DEF Once
      <4> QED
        BY <3>1, <4>1, <4>2
    <3> QED
      BY <3>1, <3>2 DEF Once
  <2> QED
    BY <2>1, <2>2 DEF Once
<1>3. ASSUME Aged(r, g) PROVE Aged(q, g)
  BY <1>1, <1>3 DEF Aged
<1>4. ASSUME Synced(r, rest, g, pg, skip) PROVE Synced(q, rest, g, pg, skip \cup lost)
  <2>1. ASSUME NEW i \in 1 .. Len(q), q[i].k = "subtree", q[i].ok, q[i].g = g,
               q[i].n \notin skip \cup lost
        PROVE  Agrees(q, rest, g, pg, i + 1, q[i].n, q[i].kids)
    <3>1. At(k, i) \in 1 .. Len(r) /\ r[At(k, i)] = q[i]
      BY <1>1
    <3>2. Agrees(r, rest, g, pg, At(k, i) + 1, q[i].n, q[i].kids)
      BY <1>4, <2>1, <3>1 DEF Synced, AnswersAgree
    <3>8. \A op : op[2] = q[i].n => ~(Holds(f, op) /\ f.g = g)
      BY <2>1
    <3>3. \A op : op[2] = q[i].n =>
            (ToCome(r, rest, g, At(k, i) + 1, op) <=> ToCome(q, rest, g, i + 1, op))
      BY <3>8, SlipToCome
    <3> DEFINE n == q[i].n
    <3>4. <<"grow", n>>[2] = n /\ <<"drop", n>>[2] = n
      OBVIOUS
    <3>5. \A op : op \in {<<"grow", n>>, <<"drop", n>>} =>
            (ToCome(r, rest, g, At(k, i) + 1, op) <=> ToCome(q, rest, g, i + 1, op))
      BY <3>3, <3>4
    <3> HIDE DEF n
    <3>6. Agrees(r, rest, g, pg, At(k, i) + 1, n, q[i].kids)
      BY <3>2 DEF n
    <3>7. Agrees(q, rest, g, pg, i + 1, n, q[i].kids)
      BY <3>5, <3>6 DEF Agrees
    <3> QED
      BY <3>7 DEF n
  <2>2. ASSUME active = g, NEW n \in Nid \ (skip \cup lost), mirror[n] = "full"
        PROVE  Agrees(q, rest, g, pg, 1, n, shown[n])
    <3>1. Agrees(r, rest, g, pg, 1, n, shown[n])
      BY <1>4, <2>2 DEF Synced
    <3>2. \A op : op[2] = n => (ToCome(r, rest, g, 1, op) <=> ToCome(q, rest, g, 1, op))
      BY <2>2, SlipToCome
    <3>3. <<"grow", n>>[2] = n /\ <<"drop", n>>[2] = n
      OBVIOUS
    <3> QED
      BY <3>1, <3>2, <3>3, Zenon DEF Agrees
  <2> QED
    BY <2>1, <2>2 DEF Synced, AnswersAgree
<1> QED
  BY <1>2, <1>3, <1>4

LEMMA GarbleSlips ==
  ASSUME TypeOK, NEW f \in Frame, inbox' = Append(inbox, f), wire' = wire
  PROVE  Line' \in Seq(Frame) /\ Slipped(Line', Line, Len(inbox), f)
<1>1. inbox \in Seq(Frame) /\ wire \in Seq(Frame) /\ Len(inbox) \in Nat /\ Len(wire) \in Nat
  BY LenProperties DEF TypeOK
<1>2. /\ inbox' \in Seq(Frame) /\ Len(inbox') = Len(inbox) + 1 /\ inbox'[Len(inbox) + 1] = f
      /\ \A i \in 1 .. Len(inbox) : inbox'[i] = inbox[i]
  BY <1>1, AppendFacts
<1>3. /\ Line \in Seq(Frame) /\ Len(Line) = Len(inbox) + Len(wire)
      /\ \A i \in 1 .. Len(inbox) + Len(wire) :
           Line[i] = IF i <= Len(inbox) THEN inbox[i] ELSE wire[i - Len(inbox)]
  BY <1>1, ConcatProperties DEF Line
<1>4. /\ Line' \in Seq(Frame) /\ Len(Line') = Len(inbox) + 1 + Len(wire)
      /\ \A i \in 1 .. Len(inbox) + 1 + Len(wire) :
           Line'[i] = IF i <= Len(inbox) + 1 THEN inbox'[i] ELSE wire[i - (Len(inbox) + 1)]
  BY <1>1, <1>2, ConcatProperties DEF Line
<1>5. ASSUME NEW i \in 1 .. Len(inbox) PROVE Line'[i] = Line[i]
  <2>1. /\ i <= Len(inbox) /\ i <= Len(inbox) + 1 /\ i \in 1 .. Len(inbox) + Len(wire)
        /\ i \in 1 .. Len(inbox) + 1 + Len(wire)
    BY <1>1
  <2>2. Line[i] = inbox[i] /\ Line'[i] = inbox'[i]
    BY <1>3, <1>4, <2>1
  <2> QED
    BY <1>2, <2>2
<1>6. Line'[Len(inbox) + 1] = f
  BY <1>1, <1>2, <1>4
<1>7. ASSUME NEW i \in Len(inbox) + 1 .. Len(Line) PROVE Line'[i + 1] = Line[i]
  <2>1. /\ i + 1 \in 1 .. Len(inbox) + 1 + Len(wire) /\ ~(i + 1 <= Len(inbox) + 1)
        /\ i \in 1 .. Len(inbox) + Len(wire) /\ ~(i <= Len(inbox))
        /\ (i + 1) - (Len(inbox) + 1) = i - Len(inbox)
    BY <1>1, <1>3
  <2>2. Line'[i + 1] = wire[(i + 1) - (Len(inbox) + 1)]
    BY <1>4, <2>1
  <2>3. Line[i] = wire[i - Len(inbox)]
    BY <1>3, <2>1
  <2> QED
    BY <2>1, <2>2, <2>3
<1> QED
  BY <1>1, <1>3, <1>4, <1>5, <1>6, <1>7 DEF Slipped

LEMMA LossSlips ==
  ASSUME TypeOK, wire # <<>>, inbox' = inbox, wire' = Tail(wire)
  PROVE  Line' \in Seq(Frame) /\ Slipped(Line, Line', Len(inbox), Head(wire))
<1>1. inbox \in Seq(Frame) /\ wire \in Seq(Frame) /\ Len(inbox) \in Nat
  BY LenProperties DEF TypeOK
<1>2. /\ wire' \in Seq(Frame) /\ Head(wire) = wire[1] /\ Len(wire) \in Nat \ {0}
      /\ Len(wire') = Len(wire) - 1
      /\ \A i \in 1 .. Len(wire') : i + 1 \in 1 .. Len(wire) /\ wire'[i] = wire[i + 1]
  BY <1>1, TailFacts
<1>3. /\ Line \in Seq(Frame) /\ Len(Line) = Len(inbox) + Len(wire)
      /\ \A i \in 1 .. Len(inbox) + Len(wire) :
           Line[i] = IF i <= Len(inbox) THEN inbox[i] ELSE wire[i - Len(inbox)]
  BY <1>1, ConcatProperties DEF Line
<1>4. /\ Line' \in Seq(Frame) /\ Len(Line') = Len(inbox) + Len(wire')
      /\ \A i \in 1 .. Len(inbox) + Len(wire') :
           Line'[i] = IF i <= Len(inbox) THEN inbox[i] ELSE wire'[i - Len(inbox)]
  BY <1>1, <1>2, ConcatProperties DEF Line
<1>5. ASSUME NEW i \in 1 .. Len(inbox) PROVE Line[i] = Line'[i]
  <2>1. i <= Len(inbox) /\ i \in 1 .. Len(inbox) + Len(wire) /\ i \in 1 .. Len(inbox) + Len(wire')
    BY <1>1, <1>2
  <2> QED
    BY <1>3, <1>4, <2>1
<1>6. Line[Len(inbox) + 1] = Head(wire)
  <2>1. /\ Len(inbox) + 1 \in 1 .. Len(inbox) + Len(wire) /\ ~(Len(inbox) + 1 <= Len(inbox))
        /\ (Len(inbox) + 1) - Len(inbox) = 1
    BY <1>1, <1>2
  <2>2. Line[Len(inbox) + 1] = wire[(Len(inbox) + 1) - Len(inbox)]
    BY <1>3, <2>1
  <2> QED
    BY <1>2, <2>1, <2>2
<1>7. ASSUME NEW i \in Len(inbox) + 1 .. Len(Line') PROVE Line[i + 1] = Line'[i]
  <2>1. /\ i + 1 \in 1 .. Len(inbox) + Len(wire) /\ ~(i + 1 <= Len(inbox))
        /\ i \in 1 .. Len(inbox) + Len(wire') /\ ~(i <= Len(inbox))
        /\ (i + 1) - Len(inbox) = (i - Len(inbox)) + 1 /\ i - Len(inbox) \in 1 .. Len(wire')
    BY <1>1, <1>2, <1>4
  <2>2. Line[i + 1] = wire[(i + 1) - Len(inbox)]
    BY <1>3, <2>1
  <2>3. Line'[i] = wire'[i - Len(inbox)]
    BY <1>4, <2>1
  <2>4. wire'[i - Len(inbox)] = wire[(i - Len(inbox)) + 1]
    BY <1>2, <2>1
  <2> QED
    BY <2>1, <2>2, <2>3, <2>4
<1>8. Len(Line) = Len(Line') + 1 /\ Len(inbox) \in 0 .. Len(Line')
  BY <1>1, <1>2, <1>3, <1>4
<1> QED
  BY <1>4, <1>5, <1>6, <1>7, <1>8 DEF Slipped

LEMMA ArriveKeepsLine ==
  ASSUME TypeOK, wire # <<>>, inbox' = Append(inbox, Head(wire)), wire' = Tail(wire)
  PROVE  Line' = Line
<1>1. inbox \in Seq(Frame) /\ wire \in Seq(Frame)
  BY DEF TypeOK
<1>2. Head(wire) \in Frame /\ Tail(wire) \in Seq(Frame) /\ <<Head(wire)>> \in Seq(Frame)
  BY <1>1, TailFacts
<1>3. wire = <<Head(wire)>> \o Tail(wire)
  BY <1>1
<1>4. Append(inbox, Head(wire)) = inbox \o <<Head(wire)>>
  BY <1>1, <1>2, OneMore
<1>5. (inbox \o <<Head(wire)>>) \o Tail(wire) = inbox \o (<<Head(wire)>> \o Tail(wire))
  BY <1>1, <1>2, ConcatAssociative
<1> QED
  BY <1>3, <1>4, <1>5 DEF Line

(* What had arrived before the socket closed.                              *)
LEMMA ClosedLine ==
  ASSUME TypeOK, FetchInv, inbox' = inbox, wire' = <<>>, UNCHANGED <<pend, page, gen>>
  PROVE  Once(Line', pend', page') /\ Aged(Line', gen')
<1>1. inbox \in Seq(Frame) /\ wire \in Seq(Frame) /\ Len(inbox) \in Nat /\ Len(wire) \in Nat
  BY LenProperties DEF TypeOK
<1>2. Line' = inbox
  BY <1>1, ConcatEmptySeq DEF Line
<1>3. \A i \in 1 .. Len(inbox) : i \in 1 .. Len(Line) /\ Line[i] = inbox[i]
  BY <1>1, ConcatProperties DEF Line
<1>4. Once(inbox, pend, page)
  <2>1. \A i \in 1 .. Len(inbox) : inbox[i].k = "mutations" => Distinct(inbox[i].ops)
    BY <1>3 DEF FetchInv, Once
  <2>2. ASSUME NEW i \in 1 .. Len(inbox), NEW op \in Op, Holds(inbox[i], op)
        PROVE  /\ Done(page, op) /\ ~Within(pend, op)
               /\ \A j \in 1 .. Len(inbox) : Holds(inbox[j], op) => i = j
    BY <1>3, <2>2 DEF FetchInv, Once
  <2> QED
    BY <2>1, <2>2 DEF FetchInv, Once
<1>5. Aged(inbox, gen)
  BY <1>3 DEF FetchInv, Aged
<1> QED
  BY <1>2, <1>4, <1>5

LEMMA FetchTransport ==
  ASSUME TypeOK, FetchInv,
         \/ \E n \in Nid : OtherViewerAsks(n) \/ RequestSubtree(n)
         \/ Connected \/ Closed \/ Arrive \/ Garble \/ RunSend \/ Detach \/ DisconnectTimer
         \/ RelayDropsFrame \/ RelayDropsRequest
  PROVE  FetchInv'
<1>1. ASSUME UNCHANGED <<source, Line, sock, mirroring, detached>> PROVE FetchInv'
  <2>1. UNCHANGED <<Viewing, Line, gen, pend, page, raced>>
    BY <1>1 DEF source, mirroring, Viewing
  <2> QED
    BY <2>1, FetchSame DEF FetchInv
<1>2. ASSUME NEW n \in Nid, OtherViewerAsks(n) \/ RequestSubtree(n) PROVE FetchInv'
  BY <1>1, <1>2 DEF OtherViewerAsks, RequestSubtree, Line
<1>3. CASE Connected
  <2>1. UNCHANGED <<source, Line, active, mirror, shown, loading, detached>> /\ Line = <<>>
        /\ mirror = NoRegions /\ sock' = "open"
    BY <1>3 DEF Connected, FetchInv, Line, mirroring
  <2>2. UNCHANGED <<gen, pend, page, raced>>
    BY <2>1 DEF source
  <2>3. AnswersAgree(<<>>, pend, gen, page, raced)
    BY DEF AnswersAgree
  <2>4. \A n \in Nid : mirror[n] # "full"
    BY <2>1 DEF NoRegions
  <2>5. Synced(Line, pend, gen, page, raced)'
    BY <2>1, <2>2, <2>3, <2>4 DEF Synced
  <2> QED
    BY <2>1, <2>2, <2>5 DEF FetchInv
<1>4. CASE Closed
  <2>1. /\ inbox' = inbox /\ wire' = <<>> /\ sock' = "closed"
        /\ UNCHANGED <<pend, page, gen, active>>
    BY <1>4 DEF Closed, source, mirroring
  <2>2. Once(Line', pend', page') /\ Aged(Line', gen')
    BY <2>1, ClosedLine
  <2> QED
    BY <2>1, <2>2 DEF FetchInv
<1>5. CASE Arrive
  <2>1. UNCHANGED Line
    BY <1>5, ArriveKeepsLine DEF Arrive
  <2> QED
    BY <1>1, <1>5, <2>1 DEF Arrive
<1>6. CASE Garble
  <2> DEFINE f == [k |-> "garbled"]
  <2>1. f \in Frame /\ f.k = "garbled"
    BY DEF Frame, Sides
  <2>2. inbox' = Append(inbox, f) /\ wire' = wire /\ sock = "open"
    BY <1>6 DEF Garble, net
  <2>3. UNCHANGED <<Viewing, gen, pend, page, raced>>
    BY <1>6 DEF Garble, source, net, mirroring, Viewing
  <2> HIDE DEF f
  <2>4. Line' \in Seq(Frame) /\ Slipped(Line', Line, Len(inbox), f) /\ Line \in Seq(Frame)
    BY <2>1, <2>2, GarbleSlips, LineTyped
  <2>5. gen \in Nat /\ pend \in Seq(Op)
    BY DEF TypeOK
  <2>6. /\ Once(Line', pend, page) /\ Aged(Line', gen)
        /\ ~detached => Synced(Line', pend, gen, page, raced)
    BY <2>1, <2>2, <2>4, <2>5, SlipFacts DEF FetchInv
  <2> QED
    BY <2>2, <2>3, <2>6, FetchSame DEF FetchInv
<1>7. CASE RunSend \/ DisconnectTimer
  BY <1>1, <1>7 DEF RunSend, DisconnectTimer, Line, net
<1>8. CASE Detach
  BY <1>8 DEF Detach, FetchInv, Line, source, net, mirroring
<1>9. CASE RelayDropsFrame
  <2> DEFINE f == Head(wire)
  <2>1. /\ wire # <<>> /\ inbox' = inbox /\ wire' = Tail(wire) /\ raced' = raced \cup LostEdits(f)
        /\ UNCHANGED <<Viewing, gen, pend, page>>
    BY <1>9 DEF RelayDropsFrame, mirroring, Viewing
  <2>2. f \in Frame
    BY <2>1, TailFacts DEF TypeOK
  <2>3. \A op : Holds(f, op) /\ f.g = gen => op[2] \in LostEdits(f)
    BY <2>2, LostTyped DEF Holds
  <2>4. /\ Line' \in Seq(Frame) /\ Line \in Seq(Frame) /\ Slipped(Line, Line', Len(inbox), f)
        /\ gen \in Nat /\ pend \in Seq(Op)
    BY <2>1, LossSlips, LineTyped DEF TypeOK
  <2> HIDE DEF f
  <2>5. /\ Once(Line', pend, page) /\ Aged(Line', gen)
        /\ sock = "open" /\ ~detached => Synced(Line', pend, gen, page, raced \cup LostEdits(f))
    <3>1. Once(Line, pend, page) /\ Aged(Line, gen)
      BY DEF FetchInv
    <3>2. Once(Line', pend, page) /\ Aged(Line', gen)
      BY <2>3, <2>4, <3>1, LossFacts
    <3>3. ASSUME sock = "open", ~detached
          PROVE  Synced(Line', pend, gen, page, raced \cup LostEdits(f))
      <4>1. Synced(Line, pend, gen, page, raced)
        BY <3>3 DEF FetchInv
      <4> QED
        BY <2>3, <2>4, <3>1, <4>1, LossFacts
    <3> QED
      BY <3>2, <3>3
  <2>6. sock # "connecting"
    <3>1. Len(Line) # 0
      BY <2>4, SlipPlaces
    <3> QED
      BY <3>1 DEF FetchInv
  <2> QED
    BY <2>1, <2>5, <2>6, FetchSame DEF FetchInv
<1>10. CASE RelayDropsRequest
  BY <1>1, <1>10 DEF RelayDropsRequest, Line
<1> QED
  BY <1>2, <1>3, <1>4, <1>5, <1>6, <1>7, <1>8, <1>9, <1>10

-----------------------------------------------------------------------------
(* The viewer takes a frame.                                               *)

LEMMA DispatchLine ==
  ASSUME TypeOK, inbox # <<>>, inbox' = Tail(inbox), wire' = wire
  PROVE  Line # <<>> /\ Line' = Tail(Line) /\ Head(Line) = Head(inbox)
<1>1. inbox \in Seq(Frame) /\ wire \in Seq(Frame)
  BY DEF TypeOK
<1>2. Head(inbox) \in Frame /\ Tail(inbox) \in Seq(Frame) /\ <<Head(inbox)>> \in Seq(Frame)
  BY <1>1, TailFacts
<1>3. inbox = <<Head(inbox)>> \o Tail(inbox)
  BY <1>1
<1>4. Line = <<Head(inbox)>> \o (Tail(inbox) \o wire)
  BY <1>1, <1>2, <1>3, ConcatAssociative DEF Line
<1>5. Tail(inbox) \o wire \in Seq(Frame)
  BY <1>1, <1>2, ConcatProperties
<1>6. ASSUME NEW x \in Frame, NEW r \in Seq(Frame)
      PROVE  <<x>> \o r # <<>> /\ Tail(<<x>> \o r) = r /\ Head(<<x>> \o r) = x
  <2> DEFINE z == <<x>> \o r
  <2>1. /\ z \in Seq(Frame) /\ Len(z) = Len(r) + 1 /\ Len(r) \in Nat /\ z[1] = x
        /\ \A i \in 1 .. Len(r) : z[i + 1] = r[i]
    <3>1. <<x>> \in Seq(Frame) /\ Len(<<x>>) = 1 /\ <<x>>[1] = x
      OBVIOUS
    <3>2. /\ z \in Seq(Frame) /\ Len(z) = 1 + Len(r) /\ Len(r) \in Nat
          /\ \A i \in 1 .. 1 + Len(r) : z[i] = IF i <= 1 THEN <<x>>[i] ELSE r[i - 1]
      BY <3>1, ConcatProperties, LenProperties
    <3>3. ASSUME NEW i \in 1 .. Len(r) PROVE z[i + 1] = r[i]
      <4>1. i + 1 \in 1 .. 1 + Len(r) /\ ~(i + 1 <= 1) /\ (i + 1) - 1 = i
        BY <3>2
      <4> QED
        BY <3>2, <4>1
    <3> QED
      BY <3>1, <3>2, <3>3
  <2> HIDE DEF z
  <2>2. z # <<>>
    BY <2>1
  <2>3. /\ Head(z) = x /\ Tail(z) \in Seq(Frame) /\ Len(Tail(z)) = Len(r)
        /\ \A i \in 1 .. Len(Tail(z)) : Tail(z)[i] = r[i]
    BY <2>1, <2>2, TailFacts
  <2>4. Tail(z) = r
    BY <2>3, SeqEqual
  <2> QED
    BY <2>2, <2>3, <2>4 DEF z
<1> QED
  BY <1>2, <1>4, <1>5, <1>6 DEF Line

(* The operations of a frame take from what is to come what they put in    *)
(* the mirror.                                                             *)
LEMMA AppliedAgrees ==
  ASSUME NEW q \in Seq(Frame), q # <<>>, NEW rest \in Seq(Op), NEW g \in Nat,
         NEW pg \in [Nid -> 0 .. Gone], Once(q, rest, pg), IndexTypeOK,
         Head(q) \in Mutations, Head(q).g = g, NEW n \in Nid,
         Agrees(q, rest, g, pg, 1, n, shown[n]), mirror[n] # "none",
         Applied(Head(q).ops).mirror[n] # "none"
  PROVE  Agrees(Tail(q), rest, g, pg, 1, n, Applied(Head(q).ops).shown[n])
<1> DEFINE m == Head(q)
           grow == <<"grow", n>>
           drop == <<"drop", n>>
<1>1. /\ m.ops \in Seq(Op) /\ m.k = "mutations" /\ m = q[1] /\ Len(q) \in Nat \ {0}
      /\ grow \in Op /\ drop \in Op
  BY TailFacts DEF Mutations, Op
<1>2. \A op : ToCome(q, rest, g, 1, op) <=> ToCome(Tail(q), rest, g, 1, op) \/ Holds(m, op)
  BY LeaveFacts
<1>3. ~Holds(m, drop)
  BY <1>1, AppliedDrop DEF Holds
<1>4. ASSUME Holds(m, grow) PROVE ~ToCome(Tail(q), rest, g, 1, grow)
  <2>1. Once(Tail(q), rest, pg)
    BY LeaveFacts
  <2>2. 1 \in 1 .. Len(q) /\ Holds(q[1], grow)
    BY <1>1, <1>4
  <2>3. ~Within(rest, grow)
    BY <1>1, <2>2 DEF Once
  <2>4. ASSUME NEW i \in 1 .. Len(Tail(q)), Holds(Tail(q)[i], grow) PROVE FALSE
    <3>1. i + 1 \in 1 .. Len(q) /\ Holds(q[i + 1], grow)
      BY <2>4, TailFacts
    <3>2. 1 = i + 1
      BY <1>1, <2>2, <3>1 DEF Once
    <3> QED
      BY <3>2
  <2> QED
    BY <2>3, <2>4 DEF ToCome
<1>5. ASSUME NEW p \in 1 .. Len(m.ops), m.ops[p][2] = n PROVE m.ops[p] = grow
  <2>1. m.ops[p] \in Op
    BY <1>1, LenProperties
  <2>2. m.ops[p] = grow \/ m.ops[p] = drop
    BY <1>5, <2>1 DEF Op
  <2> QED
    BY <1>1, <1>3, <2>2 DEF Holds
<1>6. CASE Holds(m, grow)
  <2>1. PICK d \in 1 .. Len(m.ops) : m.ops[d] = grow
    BY <1>6 DEF Holds
  <2>2. Distinct(m.ops) /\ Done(pg, grow)
    BY <1>1, <1>6 DEF Once
  <2>3. \A i \in 1 .. Len(m.ops) : i # d => m.ops[i][2] # n
    BY <1>5, <2>1, <2>2 DEF Distinct
  <2>4. Applied(m.ops).shown[n] = shown[n] + 1
    BY <1>1, <2>1, <2>3, AppliedGrow
  <2>5. pg[n] # 0 /\ pg[n] \in 0 .. Gone
    BY <2>2 DEF Done
  <2>6. CASE pg[n] = Gone
    BY <1>2, <1>3, <2>6 DEF Agrees
  <2>7. CASE pg[n] # Gone
    <3>1. shown[n] = 0 /\ pg[n] = 1
      BY <1>2, <1>6, <2>5, <2>7 DEF Agrees, Gone
    <3> QED
      BY <1>4, <1>6, <2>4, <2>7, <3>1 DEF Agrees
  <2> QED
    BY <2>6, <2>7
<1>7. CASE ~Holds(m, grow)
  <2>1. \A i \in 1 .. Len(m.ops) : m.ops[i][2] # n
    BY <1>1, <1>5, <1>7 DEF Holds
  <2>2. Applied(m.ops).shown[n] = shown[n]
    BY <1>1, <2>1, AppliedElsewhere
  <2> QED
    BY <1>2, <1>3, <1>7, <2>2 DEF Agrees
<1> QED
  BY <1>6, <1>7

LEMMA FetchDispatch ==
  ASSUME TypeOK, SessionOK, FetchInv, Dispatch
  PROVE  FetchInv'
<1> DEFINE m == Head(inbox)
           Mirrors == active' = gen => \A n \in Nid \ raced : mirror'[n] = "full" =>
                        Agrees(Tail(Line), pend, gen, page, 1, n, shown'[n])
<1>1. /\ UNCHANGED <<gen, pend, page, raced, sock, detached, wire>> /\ inbox' = Tail(inbox)
      /\ inbox # <<>>
  BY DEF Dispatch, source
<1>2. /\ Line # <<>> /\ Line' = Tail(Line) /\ Head(Line) = m
      /\ Line \in Seq(Frame) /\ pend \in Seq(Op) /\ gen \in Nat /\ page \in [Nid -> 0 .. Gone]
      /\ m \in Frame /\ m = Line[1] /\ Len(Line) \in Nat \ {0}
  BY <1>1, DispatchLine, LineTyped, TailFacts DEF TypeOK
<1>3. Once(Tail(Line), pend, page) /\ sock # "connecting"
  BY <1>2, LeaveFacts DEF FetchInv
<1>4. Aged(Tail(Line), gen)
  <2>1. \A i \in 1 .. Len(Tail(Line)) : i + 1 \in 1 .. Len(Line) /\ Tail(Line)[i] = Line[i + 1]
    BY <1>2, TailFacts
  <2> QED
    BY <2>1, Zenon DEF FetchInv, Aged
<1>5. sock = "open" /\ ~detached => AnswersAgree(Tail(Line), pend, gen, page, raced)
  BY <1>2, SyncedLeave DEF FetchInv, Synced
<1>6. ASSUME active' <= gen, sock = "open" /\ ~detached => Mirrors
      PROVE  FetchInv'
  <2>1. sock = "open" /\ ~detached => Synced(Line, pend, gen, page, raced)'
    BY <1>1, <1>2, <1>5, <1>6 DEF Synced
  <2> QED
    BY <1>1, <1>2, <1>3, <1>4, <1>6, <2>1 DEF FetchInv
<1>7. \A op : ToCome(Line, pend, gen, 1, op) <=>
              ToCome(Tail(Line), pend, gen, 1, op) \/ (Holds(m, op) /\ m.g = gen)
  BY <1>2, LeaveFacts DEF FetchInv
<1> HIDE DEF m
<1>8. ASSUME ~(m.k = "mutations" /\ m.g = gen), UNCHANGED active,
             \A n \in Nid : mirror'[n] = "full" => mirror[n] = "full" /\ shown'[n] = shown[n]
      PROVE  FetchInv'
  <2>1. \A op : ToCome(Line, pend, gen, 1, op) <=> ToCome(Tail(Line), pend, gen, 1, op)
    BY <1>7, <1>8, Zenon DEF Holds
  <2>2. ASSUME sock = "open", ~detached, active' = gen, NEW n \in Nid \ raced, mirror'[n] = "full"
        PROVE  Agrees(Tail(Line), pend, gen, page, 1, n, shown'[n])
    <3>1. Agrees(Line, pend, gen, page, 1, n, shown[n])
      BY <1>8, <2>2 DEF FetchInv, Synced
    <3>2. shown'[n] = shown[n]
      BY <1>8, <2>2
    <3> QED
      BY <2>1, <3>1, <3>2, Zenon DEF Agrees
  <2>3. active' <= gen
    BY <1>8 DEF FetchInv
  <2> QED
    BY <1>6, <2>2, <2>3
<1>9. CASE detached
  <2>1. UNCHANGED active
    BY <1>9 DEF Dispatch, mirroring
  <2> QED
    BY <1>6, <1>9, <2>1 DEF FetchInv
<1>10. CASE m.k = "snapshot" /\ HandleSnapshot(m)
  <2>1. /\ active' = m.g /\ \A n \in Nid : mirror'[n] = "none"
    BY <1>10 DEF HandleSnapshot, NoRegions
  <2>2. m.g <= gen
    BY <1>2, <1>10 DEF FetchInv, Aged
  <2> QED
    BY <1>6, <2>1, <2>2
<1>11. CASE m.k = "mutations" /\ HandleMutations(m)
  <2>1. m \in Mutations /\ m.g # 0
    BY <1>2, <1>11, FrameKinds DEF Mutations
  <2>2. CASE ~streaming \/ ~IsCurrentStream(m)
    <3>1. UNCHANGED <<active, mirror, shown>>
      BY <1>11, <2>2 DEF HandleMutations, mirroring
    <3>2. active' = gen => \A n \in Nid : mirror[n] = "full" => m.g # gen
      BY <2>1, <2>2, <3>1 DEF SessionOK, IsCurrentStream
    <3>3. ASSUME sock = "open", ~detached, active' = gen, NEW n \in Nid \ raced, mirror'[n] = "full"
          PROVE  Agrees(Tail(Line), pend, gen, page, 1, n, shown'[n])
      <4>1. Agrees(Line, pend, gen, page, 1, n, shown[n])
        BY <3>1, <3>3 DEF FetchInv, Synced
      <4>2. m.g # gen
        BY <3>1, <3>2, <3>3
      <4>3. \A op : ToCome(Line, pend, gen, 1, op) <=> ToCome(Tail(Line), pend, gen, 1, op)
        BY <1>7, <4>2, Zenon
      <4>4. shown'[n] = shown[n]
        BY <3>1
      <4> QED
        BY <4>1, <4>3, <4>4, Zenon DEF Agrees
    <3> QED
      BY <1>6, <3>1, <3>3 DEF FetchInv
  <2>3. CASE ~(~streaming \/ ~IsCurrentStream(m))
    <3>1. /\ mirror' = Applied(m.ops).mirror /\ shown' = Applied(m.ops).shown
          /\ UNCHANGED active
      BY <1>11, <2>3, Zenon DEF HandleMutations
    <3>2. ASSUME sock = "open", ~detached, active' = gen, NEW n \in Nid \ raced, mirror'[n] = "full"
          PROVE  Agrees(Tail(Line), pend, gen, page, 1, n, shown'[n])
      <4>1. m.ops \in Seq(Op) /\ IndexTypeOK
        BY <2>1 DEF Mutations, TypeOK
      <4>2. mirror[n] = "full"
        BY <3>1, <3>2, <4>1, AppliedTyped
      <4>3. Agrees(Line, pend, gen, page, 1, n, shown[n])
        BY <3>1, <3>2, <4>2 DEF FetchInv, Synced
      <4>4. m.g = gen
        BY <2>1, <2>3, <3>1, <3>2, <4>2 DEF IsCurrentStream, SessionOK
      <4>5. Agrees(Tail(Line), pend, gen, page, 1, n, Applied(m.ops).shown[n])
        <5>1. Once(Line, pend, page) /\ n \in Nid /\ mirror[n] # "none" /\ Applied(m.ops).mirror[n] # "none"
          BY <3>1, <3>2, <4>2 DEF FetchInv
        <5> QED
          BY <1>2, <2>1, <4>1, <4>3, <4>4, <5>1, AppliedAgrees
      <4> QED
        BY <3>1, <4>5
    <3> QED
      BY <1>6, <3>1, <3>2 DEF FetchInv
  <2> QED
    BY <2>2, <2>3
<1>12. CASE m.k = "subtree" /\ HandleSubtreeResponse(m)
  <2>1. m \in Responses /\ UNCHANGED active
    BY <1>2, <1>12, FrameKinds DEF HandleSubtreeResponse
  <2>2. CASE ~Patches(m)
    <3>1. UNCHANGED <<mirror, shown>>
      BY <1>12, <2>2 DEF HandleSubtreeResponse
    <3> QED
      BY <1>8, <1>12, <2>1, <3>1
  <2>3. CASE Patches(m)
    <3>1. /\ mirror' = [mirror EXCEPT ![m.n] = "full"] /\ shown' = [shown EXCEPT ![m.n] = m.kids]
          /\ m.ok /\ mirror[m.n] = "stub" /\ IsCurrentStream(m)
      BY <1>12, <2>3 DEF HandleSubtreeResponse, Patches, Replaced
    <3>2. m.n \in Nid /\ m.g # 0 /\ active # 0 /\ m.g = active
      BY <2>1, <3>1 DEF Responses, SessionOK, IsCurrentStream
    <3>3. \A op : ToCome(Line, pend, gen, 1, op) <=> ToCome(Tail(Line), pend, gen, 1, op)
      BY <1>7, <1>12, Zenon DEF Holds
    <3>4. ASSUME sock = "open", ~detached, active' = gen, NEW n \in Nid \ raced, mirror'[n] = "full"
          PROVE  Agrees(Tail(Line), pend, gen, page, 1, n, shown'[n])
      <4>1. CASE n = m.n
        <5>1. shown'[n] = m.kids
          BY <3>1, <3>2, <4>1 DEF TypeOK, IndexTypeOK
        <5>2. 1 \in 1 .. Len(Line) /\ m = Line[1] /\ m.g = gen /\ m.n \notin raced
          BY <1>2, <2>1, <3>2, <3>4, <4>1
        <5>3. Agrees(Line, pend, gen, page, 1 + 1, n, m.kids)
          BY <1>12, <3>1, <3>4, <4>1, <5>2 DEF FetchInv, Synced, AnswersAgree
        <5>4. \A op : ToCome(Line, pend, gen, 1 + 1, op) <=> ToCome(Tail(Line), pend, gen, 1, op)
          BY <1>2, <5>2, LeaveFacts DEF FetchInv
        <5> QED
          BY <5>1, <5>3, <5>4, Zenon DEF Agrees
      <4>2. CASE n # m.n
        <5>1. mirror[n] = "full" /\ shown'[n] = shown[n]
          BY <3>1, <3>2, <3>4, <4>2 DEF TypeOK, IndexTypeOK
        <5>2. Agrees(Line, pend, gen, page, 1, n, shown[n])
          BY <2>1, <3>4, <5>1 DEF FetchInv, Synced
        <5> QED
          BY <3>3, <5>1, <5>2, Zenon DEF Agrees
      <4> QED
        BY <4>1, <4>2
    <3> QED
      BY <1>6, <2>1, <3>4 DEF FetchInv
  <2> QED
    BY <2>2, <2>3
<1>13. CASE m.k \in {"side", "garbled"} /\ UNCHANGED <<active, mirror, shown>>
  BY <1>8, <1>13
<1>14. \/ detached
       \/ m.k = "snapshot" /\ HandleSnapshot(m)
       \/ m.k = "mutations" /\ HandleMutations(m)
       \/ m.k = "subtree" /\ HandleSubtreeResponse(m)
       \/ m.k \in {"side", "garbled"} /\ UNCHANGED <<active, mirror, shown>>
  BY Zenon DEF Dispatch, HandleSide, mirroring, m
<1> QED
  BY <1>9, <1>10, <1>11, <1>12, <1>13, <1>14

LEMMA FetchDocument ==
  ASSUME TypeOK, FetchInv, Load \/ LateLoad \/ Destroy
  PROVE  FetchInv'
<1>1. CASE Load \/ LateLoad
  <2>1. UNCHANGED <<active, Line, sock, detached, gen, pend, page, raced>> /\ loading # <<>>
    <3>1. UNCHANGED <<source, net, inbox, active, detached>>
      BY <1>1 DEF Load, LateLoad
    <3>2. loading # <<>>
      BY <1>1 DEF Load, LateLoad, TypeOK
    <3> QED
      BY <3>1, <3>2 DEF source, net, Line
  <2>2. \A n \in Nid : mirror'[n] # "full"
    BY <1>1 DEF Load, LateLoad
  <2>3. sock = "open" /\ ~detached => Synced(Line, pend, gen, page, raced)'
    BY <2>1, <2>2 DEF FetchInv, Synced
  <2> QED
    BY <2>1, <2>3 DEF FetchInv
<1>2. CASE Destroy
  <2>1. /\ UNCHANGED <<Line, sock, loading, gen, pend, page, raced>>
        /\ detached' = TRUE /\ active' = 0 /\ mirror' = NoRegions
    BY <1>2 DEF Destroy, source, net, Line
  <2>2. NoRegions' = NoRegions
    BY DEF NoRegions
  <2>3. 0 <= gen
    BY DEF TypeOK
  <2> QED
    BY <2>1, <2>2, <2>3 DEF FetchInv
<1> QED
  BY <1>1, <1>2

LEMMA FetchInit == Init => FetchInv
<1> SUFFICES ASSUME Init PROVE FetchInv
  OBVIOUS
<1>1. Line = <<>> /\ pend = <<>> /\ active = 0 /\ gen = 0 /\ mirror = NoRegions /\ loading = <<>>
  BY DEF Init, Line
<1>2. Aged(<<>>, gen) /\ Once(<<>>, <<>>, page)
  BY DEF Aged, Once, Distinct, Within
<1>3. AnswersAgree(<<>>, <<>>, gen, page, raced)
  BY DEF AnswersAgree
<1>4. \A n \in Nid : mirror[n] # "full"
  BY <1>1 DEF NoRegions
<1> QED
  BY <1>1, <1>2, <1>3, <1>4 DEF FetchInv, Synced

LEMMA FetchStep == TypeOK /\ SessionOK /\ FetchInv /\ [Next]_vars => FetchInv'
<1> SUFFICES ASSUME TypeOK, SessionOK, FetchInv, [Next]_vars PROVE FetchInv'
  OBVIOUS
<1>1. CASE UNCHANGED vars
  BY <1>1, FetchStutter DEF vars
<1> QED
  BY <1>1, FetchCapture, FetchTransport, FetchDispatch, FetchDocument DEF Next

(* Nothing is to come any more in a settled system.                        *)
LEMMA FetchSettled == TypeOK /\ SessionOK /\ FetchInv => FetchedShowsPage
<1> SUFFICES ASSUME TypeOK, SessionOK, FetchInv, Settled, NEW n \in Nid \ raced, mirror[n] = "full"
             PROVE  shown[n] = page[n]
  BY DEF FetchedShowsPage
<1>1. Line = <<>> /\ pend = <<>> /\ sock = "open" /\ ~detached /\ active = gen
  BY DEF Settled, Line
<1>2. Agrees(<<>>, <<>>, gen, page, 1, n, shown[n])
  BY <1>1 DEF FetchInv, Synced
<1>3. \A op : ~ToCome(<<>>, <<>>, gen, 1, op)
  BY DEF ToCome, Within
<1> QED
  BY <1>2, <1>3 DEF Agrees

(* Once everything is delivered, a region that was fetched shows the page, *)
(* whatever edits came before, between and after its answer, in however    *)
(* many sessions, with however many viewers asking, whichever documents    *)
(* loaded late and whatever the relay dropped of other regions' edits, of  *)
(* requests and of answers (handleSubtreeResponse in                       *)
(* src/src/renderer/index.js, serializeRequestedSubtree in                 *)
(* src/src/capture/index.js).                                              *)
THEOREM FetchedAlwaysShowsPage == Spec => []FetchedShowsPage
<1>1. Init => TypeOK /\ SessionOK /\ FetchInv
  BY TypeInit, FetchInit
<1>2. (TypeOK /\ SessionOK /\ FetchInv) /\ [Next]_vars => (TypeOK /\ SessionOK /\ FetchInv)'
  BY TypeStep, FetchStep
<1> QED
  BY <1>1, <1>2, FetchSettled, PTL DEF Spec
=============================================================================
