------------------------- MODULE CssomStylesProofs -------------------------
(***************************************************************************)
(* Proofs about CssomStyles, for any sheets, changes and sessions.         *)
(*                                                                         *)
(* StylesMatch speaks of the moments at which nothing is under way.  The   *)
(* invariant speaks of all of them, through W: the viewer once everything  *)
(* on the wire is applied.  While the stream runs, every name W has is in  *)
(* the registry or in the pool (NamesKnown), and a scope with changes in   *)
(* the pool is pooled whole: what it has is replaced, in cascade order     *)
(* unless the page reordered its sheets, what it had is removed            *)
(* (PoolFits).  So once the pool is sent W shows each scope's list,        *)
(* in order.  A batch is followed op by op, and a record by its ops, by    *)
(* induction on their number.                                              *)
(***************************************************************************)
EXTENDS CssomStyles, SequenceTheorems, FiniteSetTheorems, WellFoundedInduction, TLAPS

(* The values of the state.                                                *)
Id     == Scope \X Nat \X {"style", "link", "adopted", "fallback"}
Src    == [id : Id, text : Nat]
Change == [action : {"replace", "remove"}, source : Src]
PageOp == [action : {"host", "added"}]
Op     == Change \cup PageOp
Page   == [sheets : [Scope -> Seq(Sheet)], css : [Sheet -> Nat],
           host : BOOLEAN, added : BOOLEAN]
Mirror == [sources : [Scope -> Seq(Src)], host : BOOLEAN, copies : Nat, misses : Nat]
Picture == [kind : {"snapshot"}, host : BOOLEAN, copies : 0 .. 1,
            sources : [Scope -> Seq(Src)]]
Record  == {"head", "host", "added"} \cup Sheet

(* A list of sources without a name twice, all of the scope.               *)
Listed(list, scope) ==
  /\ list \in Seq(Src)
  /\ \A i \in 1 .. Len(list) : list[i].id[1] = scope
  /\ \A i, j \in 1 .. Len(list) : list[i].id = list[j].id => i = j

(* A Map: no key twice.                                                    *)
Keyed(q) ==
  /\ q \in Seq(Change)
  /\ \A i, j \in 1 .. Len(q) : q[i].source.id = q[j].source.id => i = j
Keys(q) == {q[i].source.id : i \in 1 .. Len(q)}

(* A batch: ops on the page, and the pool behind them.                     *)
BatchOps ==
  {o \in Seq(Op) : \E a \in Seq(PageOp), q \in Seq(Change) : Keyed(q) /\ o = a \o q}
Batch == [kind : {"mutations"}, ops : BatchOps]

(* What is pooled of a scope whose sources are now list: it is replaced    *)
(* what the scope has and removed what it no longer has, all of it if any, *)
(* and in cascade order.                                                   *)
PoolFits(q, list, scope) ==
  /\ \A i \in 1 .. Len(q) : q[i].source.id[1] = scope =>
       /\ (q[i].action = "replace") <=> (q[i].source.id \in Ids(list))
       /\ Ids(list) \subseteq Keys(q)
  /\ \A i, j \in 1 .. Len(q), k, l \in 1 .. Len(list) :
       q[i].source.id = list[k].id /\ q[j].source.id = list[l].id /\ k < l => i < j

(* What the viewer will be once it has received all that is under way.     *)
Outcome(v, w) ==
  IF w = <<>> THEN v
  ELSE Receive(IF Len(w) = 1 THEN v ELSE Receive(v, w[Len(w) - 1]), w[Len(w)])
W == Outcome(viewer, wire)

(* Only the last message may be a batch.                                   *)
WireOK(w) ==
  /\ w \in Seq(Picture \cup Batch)
  /\ \A i \in 1 .. Len(w) - 1 : w[i].kind = "snapshot"

Typed ==
  /\ page \in Page /\ records \in Seq(Record)
  /\ registry \in SUBSET Id /\ IsFiniteSet(registry) /\ scopes \in SUBSET Scope
  /\ Keyed(pending)
  /\ {timer, streaming, unseen, reordered, resnapped} \subseteq BOOLEAN
  /\ viewer \in Mirror /\ WireOK(wire) /\ writes \in Nat /\ sessions \in Nat
  /\ ~streaming => records = <<>>

(* Each name the viewer has is in the registry or pooled; what is pooled   *)
(* for replacement is in the registry.                                     *)
NamesKnown(v, pg, reg, q) ==
  /\ \A scope \in Present(pg) :
       Listed(v.sources[scope], scope) /\ Ids(v.sources[scope]) \subseteq reg \cup Keys(q)
  /\ \A i \in 1 .. Len(q) : q[i].action = "replace" => q[i].source.id \in reg
  /\ pg.host => v.host

StylesOK ==
  /\ Present(page) \subseteq scopes
  /\ NamesKnown(W, page, registry, pending)
  /\ \A i \in 1 .. Len(records) : records[i] = "host" => ~page.host
  /\ ~reordered => \A scope \in Scope : PoolFits(pending, Collected(page, scope), scope)
  /\ records = <<>> /\ pending = <<>> /\ ~unseen /\ ~reordered =>
       \A scope \in Present(page) : W.sources[scope] = Collected(page, scope)

(* The record of the element, and what the viewer shows of it.             *)
ElementOK ==
  /\ \A i, j \in 1 .. Len(records) : records[i] = "added" /\ records[j] = "added" => i = j
  /\ \A i \in 1 .. Len(records) : records[i] = "added" => page.added
  /\ ~resnapped =>
       /\ W.copies <= 1
       /\ ~page.added => W.copies = 0
       /\ \A i \in 1 .. Len(records) : records[i] = "added" => W.copies = 0

Inv == Typed /\ (streaming => StylesOK /\ ElementOK /\ PoolLeaves)

-----------------------------------------------------------------------------
(* Sequences.                                                              *)

LEMMA SeqFacts ==
  ASSUME NEW T, NEW s \in Seq(T)
  PROVE  /\ Len(s) \in Nat /\ DOMAIN s = 1 .. Len(s)
         /\ \A i \in 1 .. Len(s) : s[i] \in T
         /\ s = <<>> <=> Len(s) = 0
  OBVIOUS

LEMMA AppendFacts ==
  ASSUME NEW T, NEW s \in Seq(T), NEW x \in T
  PROVE  /\ Append(s, x) \in Seq(T) /\ Len(Append(s, x)) = Len(s) + 1
         /\ \A i \in 1 .. Len(s) : Append(s, x)[i] = s[i]
         /\ Append(s, x)[Len(s) + 1] = x
  OBVIOUS

LEMMA ConcatFacts ==
  ASSUME NEW T, NEW a \in Seq(T), NEW b \in Seq(T)
  PROVE  /\ a \o b \in Seq(T) /\ Len(a \o b) = Len(a) + Len(b)
         /\ \A i \in 1 .. Len(a) : (a \o b)[i] = a[i]
         /\ \A i \in 1 .. Len(b) : (a \o b)[Len(a) + i] = b[i]
  OBVIOUS

LEMMA RemoveAtFacts ==
  ASSUME NEW T, NEW s \in Seq(T), NEW k \in 1 .. Len(s)
  PROVE  /\ RemoveAt(s, k) \in Seq(T) /\ Len(RemoveAt(s, k)) = Len(s) - 1
         /\ \A i \in 1 .. Len(s) - 1 : RemoveAt(s, k)[i] = IF i < k THEN s[i] ELSE s[i + 1]
<1> DEFINE a == SubSeq(s, 1, k - 1)
           b == SubSeq(s, k + 1, Len(s))
<1>1. /\ a \in Seq(T) /\ Len(a) = k - 1 /\ \A i \in 1 .. k - 1 : a[i] = s[i]
  OBVIOUS
<1>2. /\ b \in Seq(T) /\ Len(b) = Len(s) - k /\ \A i \in 1 .. Len(s) - k : b[i] = s[k + i]
  OBVIOUS
<1>3. RemoveAt(s, k) = a \o b
  BY DEF RemoveAt
<1> HIDE DEF a, b
<1>4. /\ a \o b \in Seq(T) /\ Len(a \o b) = Len(s) - 1
  <2>1. a \o b \in Seq(T) /\ Len(a \o b) = Len(a) + Len(b)
    BY <1>1, <1>2, ConcatFacts
  <2> QED
    BY <1>1, <1>2, <2>1
<1>5. ASSUME NEW i \in 1 .. Len(s) - 1
      PROVE  (a \o b)[i] = IF i < k THEN s[i] ELSE s[i + 1]
  <2>1. CASE i < k
    BY <1>1, <1>2, <2>1
  <2>2. CASE ~(i < k)
    <3>1. (a \o b)[i] = b[i - (k - 1)] /\ i - (k - 1) \in 1 .. Len(s) - k
      BY <1>1, <1>2, <2>2
    <3> QED
      BY <1>2, <2>2, <3>1
  <2> QED
    BY <2>1, <2>2
<1> QED
  BY <1>3, <1>4, <1>5

-----------------------------------------------------------------------------
(* Sources.                                                                *)

LEMMA CollectedFacts ==
  ASSUME NEW pg \in Page, NEW scope \in Scope
  PROVE  /\ Listed(Collected(pg, scope), scope) /\ Len(Collected(pg, scope)) >= 1
         /\ Ids(Collected(pg, scope)) \in SUBSET Id
<1> DEFINE here == pg.sheets[scope]
           C == Collected(pg, scope)
<1>1. here \in Seq(Sheet) /\ pg.css \in [Sheet -> Nat]
  BY DEF Page
<1>2. CASE here = <<>>
  <2> DEFINE x == Source(<<scope, 0, "fallback">>, 0)
  <2>1. C = <<x>>
    BY <1>2 DEF Collected
  <2>2. x.id = <<scope, 0, "fallback">> /\ x \in Src /\ x.id[1] = scope /\ x.id \in Id
    BY DEF Source, Src, Id
  <2> HIDE DEF x
  <2>3. C \in Seq(Src) /\ Len(C) = 1 /\ C[1] = x /\ DOMAIN C = 1 .. 1
    BY <2>1, <2>2
  <2> HIDE DEF C
  <2>4. Listed(C, scope)
    BY <2>2, <2>3 DEF Listed
  <2>5. Ids(C) \subseteq Id
    BY <2>2, <2>3 DEF Ids
  <2> QED
    BY <2>3, <2>4, <2>5 DEF C
<1>3. CASE here # <<>>
  <2> DEFINE x(i) == Source(<<scope, i - 1, Kind[here[i]]>>, pg.css[here[i]])
  <2>1. C = [i \in 1 .. Len(here) |-> x(i)] /\ Len(here) \in Nat /\ Len(here) >= 1
    BY <1>1, <1>3 DEF Collected
  <2>2. ASSUME NEW i \in 1 .. Len(here)
        PROVE  /\ x(i).id = <<scope, i - 1, Kind[here[i]]>> /\ x(i) \in Src
               /\ x(i).id[1] = scope /\ x(i).id[2] = i - 1 /\ x(i).id \in Id
    <3>1. here[i] \in Sheet /\ i - 1 \in Nat /\ Kind[here[i]] \in {"style", "link", "adopted"}
      BY <1>1, CssomAssumption
    <3> QED
      BY <1>1, <3>1 DEF Source, Src, Id
  <2> HIDE DEF x
  <2>3. C \in Seq(Src) /\ Len(C) = Len(here) /\ DOMAIN C = 1 .. Len(here)
        /\ \A i \in 1 .. Len(here) : C[i] = x(i)
    BY <2>1, <2>2
  <2> HIDE DEF C, here
  <2>4. \A i, j \in 1 .. Len(C) : C[i].id = C[j].id => i = j
    <3> SUFFICES ASSUME NEW i \in 1 .. Len(C), NEW j \in 1 .. Len(C), C[i].id = C[j].id
                 PROVE  i = j
      OBVIOUS
    <3>1. i - 1 = j - 1
      BY <2>2, <2>3
    <3> QED
      BY <2>1, <2>3, <3>1
  <2>5. Listed(C, scope)
    BY <2>2, <2>3, <2>4 DEF Listed
  <2>6. Ids(C) \subseteq Id
    BY <2>2, <2>3 DEF Ids
  <2> QED
    BY <2>1, <2>3, <2>5, <2>6 DEF C
<1> QED
  BY <1>2, <1>3

-----------------------------------------------------------------------------
(* Induction over the natural numbers: the library states it for an        *)
(* operator, here it is for a set, from the well-founded order.            *)

LEMMA LeastElement ==
  ASSUME NEW T \in SUBSET Nat, T # {}
  PROVE  \E x \in T : \A y \in T : x <= y
<1>1. \E R : /\ IsWellFoundedOn(R, Nat)
             /\ \A x \in Nat, y \in Nat : y < x => <<y, x>> \in R
  <2>1. \A x \in Nat, y \in Nat : y < x => <<y, x>> \in OpToRel(<, Nat)
    BY DEF OpToRel
  <2> QED
    BY <2>1, NatLessThanWellFounded, Zenon
<1>2. PICK R : /\ IsWellFoundedOn(R, Nat)
               /\ \A x \in Nat, y \in Nat : y < x => <<y, x>> \in R
  BY <1>1, Zenon
<1>3. PICK x \in T : \A y \in T : ~ (<<y, x>> \in R)
  BY <1>2, WFMin, Zenon
<1>4. ASSUME NEW y \in T PROVE x <= y
  <2>1. x \in Nat /\ y \in Nat
    OBVIOUS
  <2>2. ~ (y < x)
    BY <1>2, <1>3, <2>1
  <2> QED
    BY <2>1, <2>2
<1> QED
  BY <1>4

LEMMA Induction ==
  ASSUME NEW T \in SUBSET Nat, 0 \in T, \A i \in T : i + 1 \in T
  PROVE  T = Nat
<1> SUFFICES ASSUME Nat \ T # {} PROVE FALSE
  OBVIOUS
<1>1. PICK x \in Nat \ T : \A y \in Nat \ T : x <= y
  BY LeastElement
<1>2. x - 1 \in Nat /\ x - 1 \notin Nat \ T
  BY <1>1
<1> QED
  BY <1>1, <1>2

-----------------------------------------------------------------------------
(* The pool, a Map: a known key keeps its place, a new one goes behind.    *)

QueuedOne(q, r, c) ==
  /\ Keyed(r) /\ Len(r) >= Len(q)
  /\ \A i \in 1 .. Len(q) : /\ r[i].source.id = q[i].source.id
                            /\ q[i].source.id # c.source.id => r[i] = q[i]
  /\ \A i \in 1 .. Len(r) : r[i].source.id = c.source.id => r[i] = c
  /\ \A i \in Len(q) + 1 .. Len(r) : i = Len(q) + 1 /\ r[i] = c
  /\ \E i \in 1 .. Len(r) : r[i] = c

LEMMA QueueOne ==
  ASSUME NEW q, Keyed(q), NEW c \in Change
  PROVE  QueuedOne(q, Queue(q, c), c)
<1>1. /\ q \in Seq(Change) /\ Len(q) \in Nat /\ DOMAIN q = 1 .. Len(q)
      /\ \A i \in 1 .. Len(q) : q[i] \in Change
      /\ \A i, j \in 1 .. Len(q) : q[i].source.id = q[j].source.id => i = j
  BY DEF Keyed
<1>2. CASE \A i \in 1 .. Len(q) : q[i].source.id # c.source.id
  <2>1. SelectInSeq(q, LAMBDA d : d.source.id = c.source.id) = 0
    BY <1>1, <1>2 DEF SelectInSeq
  <2>2. Queue(q, c) = Append(q, c)
    BY <2>1 DEF Queue
  <2> DEFINE r == Append(q, c)
  <2>3. /\ r \in Seq(Change) /\ Len(r) = Len(q) + 1
        /\ \A i \in 1 .. Len(q) : r[i] = q[i]
        /\ r[Len(q) + 1] = c
    BY <1>1, AppendFacts
  <2> HIDE DEF r
  <2>4. \A i, j \in 1 .. Len(r) : r[i].source.id = r[j].source.id => i = j
    <3> SUFFICES ASSUME NEW i \in 1 .. Len(r), NEW j \in 1 .. Len(r),
                        r[i].source.id = r[j].source.id
                 PROVE  i = j
      OBVIOUS
    <3>1. CASE i \in 1 .. Len(q) /\ j \in 1 .. Len(q)
      BY <1>1, <2>3, <3>1
    <3>2. CASE i \in 1 .. Len(q) /\ j = Len(q) + 1
      BY <1>1, <1>2, <2>3, <3>2
    <3>3. CASE i = Len(q) + 1 /\ j \in 1 .. Len(q)
      BY <1>1, <1>2, <2>3, <3>3
    <3> QED
      BY <1>1, <2>3, <3>1, <3>2, <3>3
  <2>5. Keyed(r)
    BY <2>3, <2>4 DEF Keyed
  <2>6. \A i \in 1 .. Len(r) : r[i].source.id = c.source.id => r[i] = c
    <3> SUFFICES ASSUME NEW i \in 1 .. Len(r), r[i].source.id = c.source.id PROVE r[i] = c
      OBVIOUS
    <3>1. i \notin 1 .. Len(q)
      BY <1>1, <1>2, <2>3
    <3> QED
      BY <1>1, <2>3, <3>1
  <2>7. \A i \in Len(q) + 1 .. Len(r) : i = Len(q) + 1 /\ r[i] = c
    BY <1>1, <2>3
  <2>8. Len(q) + 1 \in 1 .. Len(r) /\ Len(r) >= Len(q)
    BY <1>1, <2>3
  <2>9. QueuedOne(q, r, c)
    BY <2>3, <2>5, <2>6, <2>7, <2>8 DEF QueuedOne
  <2> QED
    BY <2>2, <2>9 DEF r
<1>3. ASSUME NEW k \in 1 .. Len(q), q[k].source.id = c.source.id
      PROVE  QueuedOne(q, Queue(q, c), c)
  <2>1. SelectInSeq(q, LAMBDA d : d.source.id = c.source.id) = k
    BY <1>1, <1>3 DEF SelectInSeq, Min
  <2>2. Queue(q, c) = [q EXCEPT ![k] = c]
    <3>1. k # 0
      BY <1>1
    <3> QED
      BY <2>1, <3>1, Zenon DEF Queue
  <2> DEFINE r == [q EXCEPT ![k] = c]
  <2>3. /\ r \in Seq(Change) /\ Len(r) = Len(q) /\ r[k] = c
        /\ \A i \in 1 .. Len(q) : i # k => r[i] = q[i]
    BY <1>1
  <2> HIDE DEF r
  <2>4. \A i \in 1 .. Len(q) : r[i].source.id = q[i].source.id
    BY <1>3, <2>3
  <2>5. Keyed(r)
    BY <1>1, <2>3, <2>4 DEF Keyed
  <2>6. \A i \in 1 .. Len(q) : q[i].source.id # c.source.id => r[i] = q[i]
    BY <1>3, <2>3
  <2>7. \A i \in 1 .. Len(r) : r[i].source.id = c.source.id => r[i] = c
    BY <1>1, <1>3, <2>3, <2>4
  <2>8. \A i \in Len(q) + 1 .. Len(r) : i = Len(q) + 1 /\ r[i] = c
    BY <1>1, <2>3
  <2>9. QueuedOne(q, r, c)
    <3>1. k \in 1 .. Len(r) /\ Len(r) >= Len(q)
      BY <1>1, <2>3
    <3> QED
      BY <2>3, <2>4, <2>5, <2>6, <2>7, <2>8, <3>1 DEF QueuedOne
  <2> QED
    BY <2>2, <2>9 DEF r
<1> QED
  BY <1>2, <1>3

(* A list of sources without a name twice.                                 *)
Distinct(list) ==
  /\ list \in Seq(Src)
  /\ \A i, j \in 1 .. Len(list) : list[i].id = list[j].id => i = j

(* What the first k of a list's sources do to the pool.                    *)
QueuedUpto(q, r, action, list, k) ==
  /\ Keyed(r) /\ Len(r) >= Len(q)
  /\ \A i \in 1 .. Len(q) : r[i].source.id = q[i].source.id
  /\ \A i \in 1 .. Len(r) :
       \/ i <= Len(q) /\ r[i] = q[i] /\ \A j \in 1 .. k : r[i].source.id # list[j].id
       \/ \E j \in 1 .. k : r[i] = [action |-> action, source |-> list[j]]
  /\ \A j \in 1 .. k : \E i \in 1 .. Len(r) : r[i] = [action |-> action, source |-> list[j]]
  /\ \A i, j \in Len(q) + 1 .. Len(r), a, b \in 1 .. k :
       r[i].source.id = list[a].id /\ r[j].source.id = list[b].id /\ a < b => i < j

LEMMA QueuedNext ==
  ASSUME NEW q, Keyed(q), NEW r, NEW action \in {"replace", "remove"},
         NEW list, Distinct(list), NEW k \in 0 .. Len(list) - 1,
         QueuedUpto(q, r, action, list, k)
  PROVE  QueuedUpto(q, Queue(r, [action |-> action, source |-> list[k + 1]]), action, list, k + 1)
<1> DEFINE c == [action |-> action, source |-> list[k + 1]]
           n == Queue(r, c)
<1>1. /\ Len(list) \in Nat /\ k \in Nat /\ k + 1 \in 1 .. Len(list)
      /\ \A j \in 1 .. Len(list) : list[j] \in Src
      /\ \A i, j \in 1 .. Len(list) : list[i].id = list[j].id => i = j
      /\ Len(q) \in Nat /\ Len(r) \in Nat
  BY DEF Distinct, QueuedUpto, Keyed
<1>2. c \in Change /\ c.source = list[k + 1]
  BY <1>1 DEF Change
<1>3. QueuedOne(r, n, c)
  BY <1>2, QueueOne DEF QueuedUpto
<1>4. /\ Keyed(n) /\ Len(n) \in Nat /\ Len(n) >= Len(r) /\ Len(r) >= Len(q)
      /\ \A i, j \in 1 .. Len(n) : n[i].source.id = n[j].source.id => i = j
  BY <1>3, SMTT(60) DEF QueuedOne, QueuedUpto, Keyed
<1> HIDE DEF c, n
<1>5. \A i \in 1 .. Len(q) : n[i].source.id = q[i].source.id
  <2>1. ASSUME NEW i \in 1 .. Len(q) PROVE n[i].source.id = q[i].source.id
    <3>1. i \in 1 .. Len(r)
      BY <1>1, <1>4
    <3> QED
      BY <1>3, <3>1 DEF QueuedOne, QueuedUpto
  <2> QED
    BY <2>1
<1>6. ASSUME NEW i \in 1 .. Len(n)
      PROVE  \/ i <= Len(q) /\ n[i] = q[i] /\ \A j \in 1 .. k + 1 : n[i].source.id # list[j].id
             \/ \E j \in 1 .. k + 1 : n[i] = [action |-> action, source |-> list[j]]
  <2>1. CASE n[i] = c
    BY <1>1, <2>1 DEF c
  <2>2. CASE n[i] # c
    <3>1. i \in 1 .. Len(r) /\ n[i].source.id # c.source.id
      <4>1. i \notin Len(r) + 1 .. Len(n)
        BY <1>3, <2>2 DEF QueuedOne
      <4> QED
        BY <1>1, <1>3, <1>4, <2>2, <4>1 DEF QueuedOne
    <3>2. n[i] = r[i]
      BY <1>3, <3>1 DEF QueuedOne
    <3>3. CASE i <= Len(q) /\ r[i] = q[i] /\ \A j \in 1 .. k : r[i].source.id # list[j].id
      <4>1. \A j \in 1 .. k + 1 : j \in 1 .. k \/ j = k + 1
        BY <1>1
      <4> QED
        BY <1>2, <3>1, <3>2, <3>3, <4>1
    <3>4. CASE \E j \in 1 .. k : r[i] = [action |-> action, source |-> list[j]]
      <4>1. \A j \in 1 .. k : j \in 1 .. k + 1
        BY <1>1
      <4> QED
        BY <3>2, <3>4, <4>1
    <3> QED
      BY <3>1, <3>3, <3>4 DEF QueuedUpto
  <2> QED
    BY <2>1, <2>2
<1>7. ASSUME NEW j \in 1 .. k + 1
      PROVE  \E i \in 1 .. Len(n) : n[i] = [action |-> action, source |-> list[j]]
  <2>1. CASE j = k + 1
    BY <1>3, <2>1 DEF QueuedOne, c
  <2>2. CASE j \in 1 .. k
    <3>1. PICK i \in 1 .. Len(r) : r[i] = [action |-> action, source |-> list[j]]
      BY <2>2 DEF QueuedUpto
    <3>2. list[j].id # list[k + 1].id
      BY <1>1, <2>2
    <3>3. r[i].source.id # c.source.id
      BY <1>2, <3>1, <3>2
    <3>4. n[i] = r[i] /\ i \in 1 .. Len(n)
      BY <1>1, <1>3, <1>4, <3>3 DEF QueuedOne
    <3> QED
      BY <3>1, <3>4
  <2> QED
    BY <1>1, <2>1, <2>2
<1>8. ASSUME NEW i \in Len(q) + 1 .. Len(n), NEW j \in Len(q) + 1 .. Len(n),
             NEW a \in 1 .. k + 1, NEW b \in 1 .. k + 1,
             n[i].source.id = list[a].id, n[j].source.id = list[b].id, a < b
      PROVE  i < j
  <2>1. a \in 1 .. k /\ a \in 1 .. Len(list) /\ b \in 1 .. Len(list)
    BY <1>1, <1>8
  <2>2. list[a].id # list[k + 1].id
    BY <1>1, <2>1
  <2>3. n[i] # c /\ n[i].source.id # c.source.id
    BY <1>2, <1>8, <2>2
  <2>4. i \notin Len(r) + 1 .. Len(n)
    BY <1>3, <2>3 DEF QueuedOne
  <2>5. i \in 1 .. Len(r) /\ i \in Len(q) + 1 .. Len(r)
    BY <1>1, <1>4, <2>4
  <2>6. n[i] = r[i]
    <3>1. r[i].source.id = n[i].source.id
      BY <1>3, <2>5 DEF QueuedOne
    <3> QED
      BY <1>3, <2>3, <2>5, <3>1 DEF QueuedOne
  <2>7. CASE j \in Len(r) + 1 .. Len(n)
    BY <1>1, <1>4, <2>5, <2>7
  <2>8. CASE j \in Len(q) + 1 .. Len(r)
    <3>1. j \in 1 .. Len(r)
      BY <1>1, <2>8
    <3>2. n[j].source.id = r[j].source.id
      BY <1>3, <3>1 DEF QueuedOne
    <3>3. PICK d \in 1 .. k : r[j] = [action |-> action, source |-> list[d]]
      <4>1. ~(j <= Len(q))
        BY <1>1, <2>8
      <4> QED
        BY <3>1, <4>1, Zenon DEF QueuedUpto
    <3>4. list[d].id = list[b].id /\ d \in 1 .. Len(list)
      BY <1>1, <1>8, <3>2, <3>3
    <3>5. d = b
      BY <1>1, <2>1, <3>4
    <3>6. r[i].source.id = list[a].id /\ r[j].source.id = list[b].id /\ b \in 1 .. k
      BY <1>8, <2>6, <3>2, <3>5
    <3> QED
      BY <1>8, <2>1, <2>5, <2>8, <3>6 DEF QueuedUpto
  <2> QED
    BY <1>1, <1>4, <2>7, <2>8
<1>9. Len(n) >= Len(q)
  BY <1>1, <1>4
<1>10. QueuedUpto(q, n, action, list, k + 1)
  BY <1>4, <1>5, <1>6, <1>7, <1>8, <1>9 DEF QueuedUpto
<1> QED
  BY <1>10 DEF n, c

(* The function of QueueAll, which exists.                                 *)
QueueSteps(f, q, action, list, k) ==
  f = [i \in 0 .. k |-> IF i = 0 THEN q
                        ELSE Queue(f[i - 1], [action |-> action, source |-> list[i]])]

LEMMA QueueAllSteps ==
  ASSUME NEW q, NEW action, NEW list, Len(list) \in Nat
  PROVE  \E f : QueueSteps(f, q, action, list, Len(list)) /\ QueueAll(q, action, list) = f[Len(list)]
<1> DEFINE N(x, i) == Queue(x, [action |-> action, source |-> list[i]])
           S(f, k) == QueueSteps(f, q, action, list, k)
           T == {k \in Nat : \E f : S(f, k)}
<1>1. \A f, k : S(f, k) <=> f = [i \in 0 .. k |-> IF i = 0 THEN q ELSE N(f[i - 1], i)]
  BY DEF QueueSteps
<1> HIDE DEF N, S
<1>2. 0 \in T
  <2>1. S([i \in 0 .. 0 |-> q], 0)
    <3>1. QueueSteps([i \in 0 .. 0 |-> q], q, action, list, 0)
      BY DEF QueueSteps
    <3> QED
      BY <3>1 DEF S
  <2> QED
    BY <2>1
<1>3. ASSUME NEW k \in T PROVE k + 1 \in T
  <2>1. PICK g : S(g, k)
    OBVIOUS
  <2> DEFINE h == [i \in 0 .. k + 1 |-> IF i = k + 1 THEN N(g[k], k + 1) ELSE g[i]]
  <2>2. /\ k \in Nat
        /\ \A i \in 0 .. k + 1 : h[i] = IF i = k + 1 THEN N(g[k], k + 1) ELSE g[i]
        /\ \A i \in 0 .. k : g[i] = IF i = 0 THEN q ELSE N(g[i - 1], i)
    BY <1>1, <2>1
  <2>3. h = [i \in 0 .. k + 1 |-> h[i]]
    OBVIOUS
  <2> HIDE DEF h
  <2>4. ASSUME NEW i \in 0 .. k + 1
        PROVE  h[i] = IF i = 0 THEN q ELSE N(h[i - 1], i)
    <3>1. CASE i = 0
      BY <2>2, <3>1
    <3>2. CASE i \in 1 .. k
      <4>1. h[i] = g[i] /\ i - 1 \in 0 .. k /\ h[i - 1] = g[i - 1]
        BY <2>2, <3>2
      <4> QED
        BY <2>2, <3>2, <4>1
    <3>3. CASE i = k + 1
      <4>1. h[i - 1] = g[k]
        BY <2>2, <3>3
      <4> QED
        BY <2>2, <3>3, <4>1
    <3> QED
      BY <2>2, <3>1, <3>2, <3>3
  <2>5. S(h, k + 1)
    BY <1>1, <2>3, <2>4
  <2> QED
    BY <2>2, <2>5
<1>4. T = Nat
  <2>1. T \in SUBSET Nat
    OBVIOUS
  <2> HIDE DEF T
  <2> QED
    BY <1>2, <1>3, <2>1, Induction
<1>5. \E f : QueueSteps(f, q, action, list, Len(list))
  BY <1>4 DEF S
<1> QED
  BY <1>5, Zenon DEF QueueAll, QueueSteps

LEMMA QueueAllFacts ==
  ASSUME NEW q, Keyed(q), NEW action \in {"replace", "remove"}, NEW list, Distinct(list)
  PROVE  QueuedUpto(q, QueueAll(q, action, list), action, list, Len(list))
<1>1. Len(list) \in Nat
  BY DEF Distinct
<1>2. PICK f : QueueSteps(f, q, action, list, Len(list)) /\ QueueAll(q, action, list) = f[Len(list)]
  BY <1>1, QueueAllSteps
<1>3. /\ f[0] = q
      /\ \A i \in 1 .. Len(list) : f[i] = Queue(f[i - 1], [action |-> action, source |-> list[i]])
  <2>1. \A i \in 0 .. Len(list) :
          f[i] = IF i = 0 THEN q ELSE Queue(f[i - 1], [action |-> action, source |-> list[i]])
    BY <1>2, Zenon DEF QueueSteps
  <2>2. 0 \in 0 .. Len(list) /\ \A i \in 1 .. Len(list) : i \in 0 .. Len(list) /\ i # 0
    BY <1>1
  <2> QED
    BY <2>1, <2>2, Zenon
<1> DEFINE T == {k \in Nat : k <= Len(list) => QueuedUpto(q, f[k], action, list, k)}
<1>4. 0 \in T
  <2>1. QueuedUpto(q, q, action, list, 0)
    BY DEF QueuedUpto, Keyed
  <2> QED
    BY <1>3, <2>1
<1>5. ASSUME NEW k \in T PROVE k + 1 \in T
  <2>1. SUFFICES ASSUME k + 1 <= Len(list) PROVE QueuedUpto(q, f[k + 1], action, list, k + 1)
    OBVIOUS
  <2>2. k \in 0 .. Len(list) - 1 /\ QueuedUpto(q, f[k], action, list, k)
    BY <1>1, <2>1
  <2>3. f[k + 1] = Queue(f[k], [action |-> action, source |-> list[k + 1]])
    <3>1. k + 1 \in 1 .. Len(list) /\ (k + 1) - 1 = k
      BY <1>1, <2>2
    <3> QED
      BY <1>3, <3>1
  <2> QED
    BY <2>2, <2>3, QueuedNext
<1>6. T = Nat
  <2>1. T \in SUBSET Nat
    OBVIOUS
  <2> HIDE DEF T
  <2> QED
    BY <1>4, <1>5, <2>1, Induction
<1> QED
  BY <1>1, <1>2, <1>6

(* The names that are removed, as the sequence the pool takes.             *)
LEMMA RemovedFacts ==
  ASSUME NEW gone \in SUBSET Id, IsFiniteSet(gone),
         NEW list, list = SetToSeq({Source(id, 0) : id \in gone})
  PROVE  Distinct(list) /\ Ids(list) = gone
<1> DEFINE S == {Source(id, 0) : id \in gone}
           g == [id \in gone |-> Source(id, 0)]
<1>1. \A id : Source(id, 0).id = id
  BY DEF Source
<1>2. S \subseteq Src
  BY DEF Source, Src
<1>3. g \in Bijection(gone, S)
  BY <1>1 DEF Bijection, Injection, Surjection, IsInjective
<1>4. IsFiniteSet(S)
  BY <1>3, FS_Bijection DEF ExistsBijection
<1> DEFINE n == Cardinality(S)
<1>5. n \in Nat /\ \E f \in [1 .. n -> S] : IsInjective(f)
  BY <1>4, FS_CardinalityType, Zenon DEF ExistsBijection, Bijection, Injection
<1>6. list \in [1 .. n -> S] /\ IsInjective(list)
  BY <1>5, Zenon DEF SetToSeq
<1>7. \A x \in S : \E i \in 1 .. n : list[i] = x
  <2>1. IsFiniteSet(1 .. n) /\ Cardinality(1 .. n) = n
    BY <1>5, FS_Interval
  <2>2. list \in Injection(1 .. n, S)
    BY <1>6, Zenon DEF Injection
  <2>3. list \in Surjection(1 .. n, S)
    BY <1>4, <2>1, <2>2, FS_Injection, Zenon
  <2> QED
    BY <2>3, Zenon DEF Surjection
<1> HIDE DEF n
<1>8. Len(list) = n /\ list \in Seq(Src) /\ DOMAIN list = 1 .. n /\ \A i \in 1 .. n : list[i] \in S
  <2> HIDE DEF S
  <2>1. DOMAIN list = 1 .. n /\ \A i \in 1 .. n : list[i] \in S
    BY <1>6
  <2>2. list \in [1 .. n -> Src]
    BY <1>2, <1>6
  <2>3. list \in Seq(Src)
    BY <1>5, <2>2
  <2>4. Len(list) = n
    <3>1. DOMAIN list = 1 .. Len(list) /\ Len(list) \in Nat
      BY <2>3, LenProperties
    <3> QED
      BY <1>5, <2>1, <3>1
  <2> QED
    BY <2>1, <2>3, <2>4
<1>9. \A i \in 1 .. n : list[i].id \in gone /\ list[i] = Source(list[i].id, 0)
  BY <1>1, <1>8
<1>10. Distinct(list)
  <2>1. ASSUME NEW i \in 1 .. Len(list), NEW j \in 1 .. Len(list), list[i].id = list[j].id
        PROVE  i = j
    <3>1. list[i] = list[j]
      BY <1>8, <1>9, <2>1
    <3> QED
      BY <1>6, <1>8, <3>1 DEF IsInjective
  <2> QED
    BY <1>8, <2>1 DEF Distinct
<1>11. Ids(list) = gone
  <2>1. Ids(list) \subseteq gone
    BY <1>8, <1>9 DEF Ids
  <2>2. ASSUME NEW id \in gone PROVE id \in Ids(list)
    <3>1. PICK i \in 1 .. n : list[i] = Source(id, 0)
      BY <1>7
    <3> QED
      BY <1>1, <1>8, <3>1 DEF Ids
  <2> QED
    BY <2>1, <2>2
<1> QED
  BY <1>10, <1>11

LEMMA IdsFinite ==
  ASSUME NEW list, Distinct(list)
  PROVE  IsFiniteSet(Ids(list)) /\ Ids(list) \subseteq Id
<1> DEFINE g == [i \in 1 .. Len(list) |-> list[i].id]
<1>1. /\ Len(list) \in Nat /\ DOMAIN list = 1 .. Len(list)
      /\ \A i \in 1 .. Len(list) : list[i] \in Src
      /\ \A i, j \in 1 .. Len(list) : list[i].id = list[j].id => i = j
  BY DEF Distinct
<1>2. g \in Bijection(1 .. Len(list), Ids(list))
  BY <1>1 DEF Bijection, Injection, Surjection, IsInjective, Ids
<1>3. IsFiniteSet(1 .. Len(list))
  BY <1>1, FS_Interval
<1>4. Ids(list) \subseteq Id
  BY <1>1 DEF Ids, Src
<1> QED
  BY <1>2, <1>3, <1>4, FS_Bijection DEF ExistsBijection

-----------------------------------------------------------------------------
(* What a handler accumulates.                                             *)

AccFields == {"page", "registry", "owner", "scopes", "pending", "ops", "sent"}

Acc(p) ==
  /\ DOMAIN p = AccFields /\ p.page \in Page
  /\ p.registry \in SUBSET Id /\ IsFiniteSet(p.registry) /\ p.scopes \in SUBSET Scope
  /\ Keyed(p.pending) /\ p.ops \in Seq(Op) /\ p.sent \in Seq(Picture \cup Batch)

LEMMA RegisterFacts ==
  ASSUME NEW p, Acc(p), NEW scope \in Scope, NEW n, n = Register(p, scope)
  PROVE  /\ Acc(n) /\ n.page = p.page /\ n.pending = p.pending /\ n.ops = p.ops /\ n.sent = p.sent
         /\ n.registry = p.registry \cup Ids(Collected(p.page, scope))
         /\ n.scopes = p.scopes \cup {scope}
<1> DEFINE C == Collected(p.page, scope)
           here == p.page.sheets[scope]
           o(old) == [s \in Sheet |->
                        IF s \in ToSet(here)
                        THEN C[SelectInSeq(here, LAMBDA t : t = s)].id ELSE old[s]]
<1>1. n = [p EXCEPT !.registry = @ \cup Ids(C), !.owner = o(@), !.scopes = @ \cup {scope}]
  BY Zenon DEF Register
<1>2. Distinct(C)
  BY CollectedFacts DEF Acc, Listed, Distinct
<1> HIDE DEF o, C
<1>3. /\ DOMAIN n = AccFields /\ n.page = p.page /\ n.pending = p.pending
      /\ n.ops = p.ops /\ n.sent = p.sent
      /\ n.registry = p.registry \cup Ids(C) /\ n.scopes = p.scopes \cup {scope}
  BY <1>1 DEF Acc, AccFields
<1>4. n.registry \in SUBSET Id /\ IsFiniteSet(n.registry)
  <2>1. IsFiniteSet(Ids(C)) /\ Ids(C) \subseteq Id
    BY <1>2, IdsFinite
  <2> QED
    <3>1. IsFiniteSet(p.registry \cup Ids(C))
      BY <2>1, FS_Union, Zenon DEF Acc
    <3> QED
      BY <1>3, <2>1, <3>1 DEF Acc
<1>5. Acc(n)
  BY <1>3, <1>4 DEF Acc
<1> QED
  BY <1>3, <1>5 DEF C

(* What the replacement of a scope does.                                   *)
Replacing(c) == [action |-> "replace", source |-> c]

Replaced(p, n, scope) ==
  LET C == Collected(p.page, scope)
      q == p.pending
      r == n.pending
  IN  /\ Acc(n) /\ n.page = p.page /\ n.ops = p.ops /\ n.sent = p.sent
      /\ n.scopes = p.scopes \cup {scope}
      /\ n.registry = {id \in p.registry : id[1] # scope} \cup Ids(C)
      /\ Len(r) >= Len(q)
      /\ \A i \in 1 .. Len(q) : r[i].source.id = q[i].source.id
      /\ \A i \in 1 .. Len(r) :
           \/ \E j \in 1 .. Len(C) : r[i] = Replacing(C[j])
           \/ r[i].action = "remove" /\ r[i].source.id \in Vanished(p, scope)
           \/ /\ i <= Len(q) /\ r[i] = q[i]
              /\ r[i].source.id \notin Ids(C) /\ r[i].source.id \notin Vanished(p, scope)
      /\ \A j \in 1 .. Len(C) : \E i \in 1 .. Len(r) : r[i] = Replacing(C[j])
      /\ Vanished(p, scope) \subseteq Keys(r)
      /\ \A i, j \in Len(q) + 1 .. Len(r), a, b \in 1 .. Len(C) :
           r[i].source.id = C[a].id /\ r[j].source.id = C[b].id /\ a < b => i < j

LEMMA ReplaceScopeFacts ==
  ASSUME NEW p, Acc(p), NEW scope \in Scope, NEW n, n = ReplaceScope(p, scope)
  PROVE  Replaced(p, n, scope)
<1> DEFINE C == Collected(p.page, scope)
           V == Vanished(p, scope)
           q == p.pending
           gone == SetToSeq({Source(id, 0) : id \in V})
           m == QueueAll(q, "replace", C)
           r == QueueAll(m, "remove", gone)
           x == Register(p, scope)
<1>1. n = [x EXCEPT !.registry = @ \ V, !.pending = r]
  BY Zenon DEF ReplaceScope
<1>2. /\ Acc(x) /\ x.page = p.page /\ x.ops = p.ops /\ x.sent = p.sent
      /\ x.registry = p.registry \cup Ids(C) /\ x.scopes = p.scopes \cup {scope}
  BY RegisterFacts
<1>3. Listed(C, scope) /\ Distinct(C) /\ Ids(C) \subseteq Id
  BY CollectedFacts DEF Acc, Listed, Distinct
<1>4. V = {id \in p.registry : id[1] = scope} \ Ids(C)
  BY DEF Vanished
<1>5. IsFiniteSet(V) /\ V \in SUBSET Id
  BY <1>4, FS_Subset DEF Acc
<1>6. Distinct(gone) /\ Ids(gone) = V
  BY <1>5, RemovedFacts
<1>7. Keyed(q)
  BY DEF Acc
<1>8. QueuedUpto(q, m, "replace", C, Len(C))
  BY <1>3, <1>7, QueueAllFacts
<1>9. QueuedUpto(m, r, "remove", gone, Len(gone))
  <2>1. Keyed(m)
    BY <1>8 DEF QueuedUpto
  <2> HIDE DEF m, gone
  <2> QED
    BY <1>6, <2>1, QueueAllFacts
<1> HIDE DEF x, r, m, gone, q, V, C
<1>10. Keyed(r) /\ Keyed(m) /\ Keyed(q)
  BY <1>7, <1>8, <1>9 DEF QueuedUpto
<1>11. /\ Len(q) \in Nat /\ Len(m) \in Nat /\ Len(r) \in Nat /\ Len(C) \in Nat /\ Len(gone) \in Nat
       /\ Len(m) >= Len(q) /\ Len(r) >= Len(m)
  BY <1>3, <1>6, <1>8, <1>9, <1>10 DEF QueuedUpto, Keyed, Distinct
<1>12. /\ DOMAIN n = AccFields /\ n.page = p.page /\ n.pending = r /\ n.ops = p.ops
       /\ n.sent = p.sent /\ n.scopes = p.scopes \cup {scope}
       /\ n.registry = (p.registry \cup Ids(C)) \ V
  BY <1>1, <1>2 DEF Acc, AccFields
<1>13. n.registry = {id \in p.registry : id[1] # scope} \cup Ids(C)
  <2>1. \A id \in Ids(C) : id[1] = scope
    BY <1>3 DEF Listed, Ids
  <2> QED
    BY <1>4, <1>12, <2>1
<1>14. Acc(n)
  <2>1. n.registry \in SUBSET Id /\ IsFiniteSet(n.registry)
    <3>1. n.registry \in SUBSET x.registry
      BY <1>2, <1>12
    <3> QED
      BY <1>2, <3>1, FS_Subset DEF Acc
  <2>2. n.scopes \in SUBSET Scope
    BY <1>12 DEF Acc
  <2> QED
    BY <1>10, <1>12, <2>1, <2>2 DEF Acc
<1>15. DOMAIN C = 1 .. Len(C) /\ DOMAIN gone = 1 .. Len(gone)
  BY <1>3, <1>6 DEF Distinct
<1>16. \A i \in 1 .. Len(q) : r[i].source.id = q[i].source.id
  <2>1. \A i \in 1 .. Len(q) : i \in 1 .. Len(m)
    BY <1>11
  <2> QED
    BY <1>8, <1>9, <2>1 DEF QueuedUpto
<1>17. ASSUME NEW i \in 1 .. Len(r)
       PROVE  \/ \E j \in 1 .. Len(C) : r[i] = Replacing(C[j])
              \/ r[i].action = "remove" /\ r[i].source.id \in V
              \/ /\ i <= Len(q) /\ r[i] = q[i]
                 /\ r[i].source.id \notin Ids(C) /\ r[i].source.id \notin V
  <2>1. CASE \E j \in 1 .. Len(gone) : r[i] = [action |-> "remove", source |-> gone[j]]
    BY <1>6, <1>15, <2>1 DEF Ids
  <2>2. CASE i <= Len(m) /\ r[i] = m[i] /\ \A j \in 1 .. Len(gone) : r[i].source.id # gone[j].id
    <3>1. i \in 1 .. Len(m) /\ r[i].source.id \notin V
      BY <1>6, <1>11, <1>15, <2>2 DEF Ids
    <3>2. CASE \E j \in 1 .. Len(C) : m[i] = [action |-> "replace", source |-> C[j]]
      BY <2>2, <3>2 DEF Replacing
    <3>3. CASE i <= Len(q) /\ m[i] = q[i] /\ \A j \in 1 .. Len(C) : m[i].source.id # C[j].id
      BY <1>15, <2>2, <3>1, <3>3 DEF Ids
    <3> QED
      BY <1>8, <3>1, <3>2, <3>3 DEF QueuedUpto
  <2> QED
    BY <1>9, <2>1, <2>2 DEF QueuedUpto
<1>18. ASSUME NEW j \in 1 .. Len(C)
       PROVE  \E i \in 1 .. Len(r) : r[i] = Replacing(C[j])
  <2>1. PICK i \in 1 .. Len(m) : m[i] = Replacing(C[j])
    BY <1>8 DEF QueuedUpto, Replacing
  <2>2. i \in 1 .. Len(r) /\ r[i].source.id = m[i].source.id
    BY <1>9, <1>11 DEF QueuedUpto
  <2>3. r[i].source.id = C[j].id /\ C[j].id \in Ids(C)
    BY <1>15, <2>1, <2>2 DEF Replacing, Ids
  <2>4. \A k \in 1 .. Len(gone) : gone[k].id \notin Ids(C)
    BY <1>4, <1>6, <1>15 DEF Ids
  <2>5. r[i] = m[i]
    <3>1. \A k \in 1 .. Len(gone) : r[i] # [action |-> "remove", source |-> gone[k]]
      BY <2>3, <2>4
    <3> QED
      BY <1>9, <2>2, <3>1, Zenon DEF QueuedUpto
  <2> QED
    BY <2>1, <2>2, <2>5
<1>19. V \subseteq Keys(r)
  <2>1. ASSUME NEW id \in V PROVE id \in Keys(r)
    <3>1. PICK j \in 1 .. Len(gone) : gone[j].id = id
      BY <1>6, <1>15 DEF Ids
    <3>2. PICK i \in 1 .. Len(r) : r[i] = [action |-> "remove", source |-> gone[j]]
      BY <1>9 DEF QueuedUpto
    <3> QED
      BY <3>1, <3>2 DEF Keys
  <2> QED
    BY <2>1
<1>20. ASSUME NEW i \in Len(q) + 1 .. Len(r), NEW j \in Len(q) + 1 .. Len(r),
              NEW a \in 1 .. Len(C), NEW b \in 1 .. Len(C),
              r[i].source.id = C[a].id, r[j].source.id = C[b].id, a < b
       PROVE  i < j
  <2>1. C[a].id \notin V /\ C[b].id \notin V
    BY <1>4, <1>15 DEF Ids
  <2>2. ASSUME NEW k \in Len(m) + 1 .. Len(r) PROVE r[k].source.id \in V
    <3>1. k \in 1 .. Len(r) /\ ~(k <= Len(m))
      BY <1>11
    <3>2. PICK d \in 1 .. Len(gone) : r[k] = [action |-> "remove", source |-> gone[d]]
      BY <1>9, <3>1, Zenon DEF QueuedUpto
    <3> QED
      BY <1>6, <1>15, <3>2 DEF Ids
  <2>3. i \in Len(q) + 1 .. Len(m) /\ j \in Len(q) + 1 .. Len(m)
    BY <1>11, <1>20, <2>1, <2>2, SMTT(60)
  <2>4. m[i].source.id = r[i].source.id /\ m[j].source.id = r[j].source.id
    <3>1. i \in 1 .. Len(m) /\ j \in 1 .. Len(m)
      BY <1>11, <2>3
    <3> QED
      BY <1>9, <3>1 DEF QueuedUpto
  <2> QED
    BY <1>8, <1>20, <2>3, <2>4 DEF QueuedUpto
<1>21. Len(r) >= Len(q)
  BY <1>11
<1> QED
  BY <1>12, <1>13, <1>14, <1>16, <1>17, <1>18, <1>19, <1>20, <1>21 DEF Replaced, C, V, q

(* The scope's names and their changes, once all of the scope is pooled.   *)
Fresh(p, scope) ==
  LET C == Collected(p.page, scope)
  IN  /\ \A id \in p.registry : id[1] = scope => id \in Ids(C)
      /\ \A j \in 1 .. Len(C) : \E i \in 1 .. Len(p.pending) : p.pending[i] = Replacing(C[j])

Fits(p) == \A scope \in Scope : PoolFits(p.pending, Collected(p.page, scope), scope)

LEMMA FreshAfter ==
  ASSUME NEW p, Acc(p), NEW scope \in Scope, NEW n, Replaced(p, n, scope)
  PROVE  /\ Fresh(n, scope)
         /\ \A s \in Scope : s # scope /\ Fresh(p, s) => Fresh(n, s)
<1>1. Fresh(n, scope)
  BY DEF Replaced, Fresh
<1>2. ASSUME NEW s \in Scope, s # scope, Fresh(p, s)
      PROVE  Fresh(n, s)
  <2> DEFINE C == Collected(p.page, scope)
             D == Collected(p.page, s)
             q == p.pending
             r == n.pending
  <2>1. Listed(C, scope) /\ Listed(D, s)
    BY CollectedFacts DEF Acc
  <2>2. \A id \in Ids(C) : id[1] = scope
    BY <2>1 DEF Listed, Ids
  <2>3. n.page = p.page /\ n.registry = {id \in p.registry : id[1] # scope} \cup Ids(C)
    BY DEF Replaced
  <2>4. \A id \in n.registry : id[1] = s => id \in Ids(D)
    BY <1>2, <2>2, <2>3 DEF Fresh
  <2>5. ASSUME NEW j \in 1 .. Len(D) PROVE \E i \in 1 .. Len(r) : r[i] = Replacing(D[j])
    <3>1. PICK i \in 1 .. Len(q) : q[i] = Replacing(D[j])
      BY <1>2 DEF Fresh
    <3>2. q[i].source.id[1] = s
      BY <2>1, <3>1 DEF Listed, Replacing
    <3>3. i \in 1 .. Len(r)
      BY DEF Replaced, Acc, Keyed
    <3>4. r[i].source.id = q[i].source.id
      BY DEF Replaced
    <3>5. r[i].source.id \notin Ids(C) /\ r[i].source.id \notin Vanished(p, scope)
      BY <1>2, <2>2, <3>2, <3>4 DEF Vanished
    <3>6. \A k \in 1 .. Len(C) : r[i] # Replacing(C[k])
      BY <2>1, <3>5 DEF Listed, Ids, Replacing
    <3>7. r[i] = q[i]
      BY <3>3, <3>5, <3>6, Zenon DEF Replaced
    <3> QED
      BY <3>1, <3>3, <3>7
  <2> QED
    BY <2>3, <2>4, <2>5 DEF Fresh
<1> QED
  BY <1>1, <1>2

(* What the pool replaces is in the registry.                              *)
Named(p) == \A i \in 1 .. Len(p.pending) :
              p.pending[i].action = "replace" => p.pending[i].source.id \in p.registry

LEMMA NamedAfter ==
  ASSUME NEW p, Acc(p), Named(p), NEW scope \in Scope, NEW n, Replaced(p, n, scope)
  PROVE  Named(n)
<1> DEFINE C == Collected(p.page, scope)
           r == n.pending
<1>1. n.registry = {id \in p.registry : id[1] # scope} \cup Ids(C)
  BY DEF Replaced
<1>2. Listed(C, scope) /\ DOMAIN C = 1 .. Len(C)
  BY CollectedFacts DEF Acc, Listed
<1> SUFFICES ASSUME NEW i \in 1 .. Len(r), r[i].action = "replace"
             PROVE  r[i].source.id \in n.registry
  BY DEF Named
<1>3. CASE \E j \in 1 .. Len(C) : r[i] = Replacing(C[j])
  BY <1>1, <1>2, <1>3 DEF Replacing, Ids
<1>4. CASE /\ i <= Len(p.pending) /\ r[i] = p.pending[i]
           /\ r[i].source.id \notin Ids(C) /\ r[i].source.id \notin Vanished(p, scope)
  <2>1. i \in 1 .. Len(p.pending)
    BY <1>4 DEF Acc, Replaced, Keyed
  <2>2. r[i].source.id \in p.registry
    BY <1>4, <2>1 DEF Named
  <2>3. r[i].source.id[1] # scope
    BY <1>4, <2>2 DEF Vanished
  <2> QED
    BY <1>1, <2>2, <2>3
<1> QED
  BY <1>3, <1>4 DEF Replaced

LEMMA KeysAfter ==
  ASSUME NEW p, Acc(p), NEW scope \in Scope, NEW n, Replaced(p, n, scope)
  PROVE  p.registry \cup Keys(p.pending) \subseteq n.registry \cup Keys(n.pending)
<1>1. Keys(p.pending) \subseteq Keys(n.pending)
  <2>1. ASSUME NEW i \in 1 .. Len(p.pending)
        PROVE  i \in 1 .. Len(n.pending) /\ n.pending[i].source.id = p.pending[i].source.id
    <3>1. i \in 1 .. Len(n.pending)
      BY DEF Replaced, Acc, Keyed
    <3> QED
      BY <3>1 DEF Replaced
  <2> QED
    BY <2>1 DEF Keys
<1>2. p.registry \subseteq n.registry \cup Keys(n.pending)
  BY DEF Replaced, Vanished
<1> QED
  BY <1>1, <1>2

LEMMA FitsAfter ==
  ASSUME NEW p, Acc(p), Named(p), Fits(p), NEW scope \in Scope, NEW n, Replaced(p, n, scope)
  PROVE  Fits(n)
<1> SUFFICES ASSUME NEW s \in Scope
             PROVE  PoolFits(n.pending, Collected(p.page, s), s)
  BY DEF Fits, Replaced
<1> DEFINE C == Collected(p.page, scope)
           D == Collected(p.page, s)
           q == p.pending
           r == n.pending
<1>1. /\ Listed(C, scope) /\ Listed(D, s) /\ DOMAIN C = 1 .. Len(C) /\ DOMAIN D = 1 .. Len(D)
      /\ Len(C) \in Nat /\ Len(D) \in Nat
  BY CollectedFacts DEF Acc, Listed
<1>2. /\ Keyed(q) /\ Keyed(r) /\ Len(q) \in Nat /\ Len(r) \in Nat /\ Len(r) >= Len(q)
      /\ \A i, j \in 1 .. Len(q) : q[i].source.id = q[j].source.id => i = j
      /\ \A i, j \in 1 .. Len(r) : r[i].source.id = r[j].source.id => i = j
      /\ \A i \in 1 .. Len(q) : i \in 1 .. Len(r) /\ r[i].source.id = q[i].source.id
  BY DEF Replaced, Acc, Keyed
<1>3. \A id \in Ids(C) : id[1] = scope
  BY <1>1 DEF Listed, Ids
<1>4. PoolFits(q, D, s)
  BY DEF Fits
<1>5. ASSUME NEW i \in 1 .. Len(r)
      PROVE  \/ \E j \in 1 .. Len(C) : r[i] = Replacing(C[j])
             \/ r[i].action = "remove" /\ r[i].source.id \in Vanished(p, scope)
             \/ /\ i \in 1 .. Len(q) /\ r[i] = q[i]
                /\ r[i].source.id \notin Ids(C) /\ r[i].source.id \notin Vanished(p, scope)
  BY <1>2 DEF Replaced
<1>6. Keys(q) \subseteq Keys(r)
  BY <1>2 DEF Keys
<1>7. CASE s # scope
  <2>1. ASSUME NEW i \in 1 .. Len(r), r[i].source.id[1] = s
        PROVE  i \in 1 .. Len(q) /\ r[i] = q[i]
    <3>1. r[i].source.id \notin Ids(C) /\ r[i].source.id \notin Vanished(p, scope)
      BY <1>3, <1>7, <2>1 DEF Vanished
    <3>2. \A j \in 1 .. Len(C) : r[i] # Replacing(C[j])
      BY <1>1, <3>1 DEF Ids, Replacing
    <3> QED
      BY <1>5, <3>1, <3>2
  <2>2. ASSUME NEW i \in 1 .. Len(r), r[i].source.id[1] = s
        PROVE  ((r[i].action = "replace") <=> (r[i].source.id \in Ids(D))) /\ Ids(D) \subseteq Keys(r)
    <3>1. i \in 1 .. Len(q) /\ r[i] = q[i]
      BY <2>1, <2>2
    <3> QED
      BY <1>4, <1>6, <2>2, <3>1 DEF PoolFits
  <2>3. ASSUME NEW i \in 1 .. Len(r), NEW j \in 1 .. Len(r), NEW k \in 1 .. Len(D), NEW l \in 1 .. Len(D),
               r[i].source.id = D[k].id, r[j].source.id = D[l].id, k < l
        PROVE  i < j
    <3>1. r[i].source.id[1] = s /\ r[j].source.id[1] = s
      BY <1>1, <2>3 DEF Listed
    <3>2. i \in 1 .. Len(q) /\ r[i] = q[i] /\ j \in 1 .. Len(q) /\ r[j] = q[j]
      BY <2>1, <3>1
    <3> QED
      BY <1>4, <2>3, <3>2 DEF PoolFits
  <2> QED
    BY <2>2, <2>3 DEF PoolFits
<1>8. CASE s = scope
  <2>1. D = C
    BY <1>8
  <2>2. Ids(C) \subseteq Keys(r)
    <3>1. ASSUME NEW j \in 1 .. Len(C) PROVE C[j].id \in Keys(r)
      <4>1. PICK i \in 1 .. Len(r) : r[i] = Replacing(C[j])
        BY DEF Replaced
      <4> QED
        BY <4>1 DEF Keys, Replacing
    <3> QED
      BY <1>1, <3>1 DEF Ids
  <2>3. ASSUME NEW i \in 1 .. Len(r), r[i].source.id[1] = s
        PROVE  (r[i].action = "replace") <=> (r[i].source.id \in Ids(C))
    <3>1. CASE \E j \in 1 .. Len(C) : r[i] = Replacing(C[j])
      BY <1>1, <3>1 DEF Replacing, Ids
    <3>2. CASE r[i].action = "remove" /\ r[i].source.id \in Vanished(p, scope)
      BY <3>2 DEF Vanished
    <3>3. CASE /\ i \in 1 .. Len(q) /\ r[i] = q[i]
               /\ r[i].source.id \notin Ids(C) /\ r[i].source.id \notin Vanished(p, scope)
      <4>1. q[i].source.id \notin p.registry
        BY <1>8, <2>3, <3>3 DEF Vanished
      <4>2. r[i].action # "replace"
        BY <3>3, <4>1 DEF Named
      <4> QED
        BY <3>3, <4>2
    <3> QED
      BY <1>5, <3>1, <3>2, <3>3
  <2>4. ASSUME NEW i \in 1 .. Len(r), NEW j \in 1 .. Len(r), NEW k \in 1 .. Len(C), NEW l \in 1 .. Len(C),
               r[i].source.id = C[k].id, r[j].source.id = C[l].id, k < l
        PROVE  i < j
    <3>1. CASE i \in 1 .. Len(q) /\ j \in 1 .. Len(q)
      BY <1>2, <1>4, <2>1, <2>4, <3>1 DEF PoolFits
    <3>2. CASE i \in Len(q) + 1 .. Len(r) /\ j \in Len(q) + 1 .. Len(r)
      BY <2>4, <3>2 DEF Replaced
    <3>3. ASSUME NEW a \in 1 .. Len(q), NEW b \in Len(q) + 1 .. Len(r),
                 r[a].source.id \in Ids(C), r[b].source.id \in Ids(C)
          PROVE  FALSE
      <4>1. q[a].source.id[1] = s /\ r[b].source.id \in Keys(q)
        BY <1>2, <1>3, <1>4, <1>8, <2>1, <3>3 DEF PoolFits
      <4>2. PICK d \in 1 .. Len(q) : r[b].source.id = q[d].source.id
        BY <4>1 DEF Keys
      <4>3. b \in 1 .. Len(r) /\ d \in 1 .. Len(r) /\ r[d].source.id = r[b].source.id /\ d # b
        BY <1>2, <4>2
      <4> QED
        BY <1>2, <4>3
    <3>4. r[i].source.id \in Ids(C) /\ r[j].source.id \in Ids(C)
      BY <1>1, <2>4 DEF Ids
    <3> QED
      BY <1>2, <3>1, <3>2, <3>3, <3>4
  <2> QED
    BY <2>1, <2>2, <2>3, <2>4 DEF PoolFits
<1> QED
  BY <1>7, <1>8

-----------------------------------------------------------------------------
(* Snapshots, and what the viewer will be.                                 *)

(* What a snapshot of the page makes of the viewer.                        *)
Shot(pg) ==
  [sources |-> [s \in Scope |-> IF s \in Present(pg) THEN Collected(pg, s) ELSE <<>>],
   host |-> pg.host, copies |-> IF pg.added THEN 1 ELSE 0, misses |-> 0]

LEMMA ShotFacts ==
  ASSUME NEW pg \in Page
  PROVE  /\ Shot(pg) \in Mirror
         /\ \A s \in Present(pg) : Shot(pg).sources[s] = Collected(pg, s)
<1>1. \A s \in Scope : Collected(pg, s) \in Seq(Src)
  BY CollectedFacts DEF Listed
<1>2. pg.host \in BOOLEAN /\ Present(pg) \subseteq Scope
  BY DEF Page, Present, Scope
<1>3. [s \in Scope |-> IF s \in Present(pg) THEN Collected(pg, s) ELSE <<>>] \in [Scope -> Seq(Src)]
  <2>1. <<>> \in Seq(Src)
    OBVIOUS
  <2> QED
    BY <1>1, <2>1
<1> DEFINE c == IF pg.added THEN 1 ELSE 0
<1>4. c \in Nat
  OBVIOUS
<1> HIDE DEF c
<1>5. Shot(pg) \in Mirror
  BY <1>2, <1>3, <1>4 DEF Shot, Mirror, c
<1> QED
  BY <1>2, <1>5 DEF Shot

(* The handler sends one snapshot of the page.                             *)
SendsShot(p, n) ==
  \E m \in Picture : n.sent = Append(p.sent, m) /\ \A v : Receive(v, m) = Shot(p.page)

LEMMA SerializeFacts ==
  ASSUME NEW p, Acc(p), NEW n, n = Serialize(p)
  PROVE  /\ Acc(n) /\ n.page = p.page /\ n.pending = p.pending /\ n.ops = p.ops
         /\ p.registry \subseteq n.registry
         /\ \A s \in Present(p.page) : Ids(Collected(p.page, s)) \subseteq n.registry
         /\ n.scopes = p.scopes \cup Present(p.page)
         /\ SendsShot(p, n)
<1> DEFINE pg == p.page
           body == Register(p, "document")
           known == IF pg.host THEN Register(body, "shadow") ELSE body
           c == IF pg.added THEN 1 ELSE 0
           src == [scope \in Scope |-> IF scope \in Present(pg) THEN Collected(pg, scope) ELSE <<>>]
           m == [kind |-> "snapshot", host |-> pg.host, copies |-> c, sources |-> src]
<1>0. body.page = pg
  BY RegisterFacts DEF Scope
<1>1. known = IF pg.host THEN Register(body, "shadow") ELSE body
  OBVIOUS
<1>2. n = [known EXCEPT !.sent = Append(@, m)]
  BY Zenon DEF Serialize
<1>3. /\ Acc(body) /\ body.page = pg /\ body.pending = p.pending /\ body.ops = p.ops
      /\ body.sent = p.sent
      /\ body.registry = p.registry \cup Ids(Collected(pg, "document"))
      /\ body.scopes = p.scopes \cup {"document"}
  BY RegisterFacts DEF Scope
<1>4. pg.host \in BOOLEAN /\ Present(pg) = IF pg.host THEN {"document", "shadow"} ELSE {"document"}
  BY DEF Acc, Page, Present
<1>5. /\ Acc(known) /\ known.page = pg /\ known.pending = p.pending /\ known.ops = p.ops
      /\ known.sent = p.sent
      /\ p.registry \subseteq known.registry
      /\ \A s \in Present(pg) : Ids(Collected(pg, s)) \subseteq known.registry
      /\ known.scopes = p.scopes \cup Present(pg)
  <2>1. CASE pg.host
    <3> DEFINE y == Register(body, "shadow")
    <3>1. /\ Acc(y) /\ y.page = pg /\ y.pending = p.pending /\ y.ops = p.ops
          /\ y.sent = p.sent
          /\ y.registry = body.registry \cup Ids(Collected(pg, "shadow"))
          /\ y.scopes = body.scopes \cup {"shadow"}
      BY <1>3, RegisterFacts DEF Scope
    <3>2. known = y
      BY <2>1
    <3> HIDE DEF y, known, body
    <3> QED
      BY <1>3, <1>4, <2>1, <3>1, <3>2
  <2>2. CASE ~pg.host
    <3>1. known = body
      BY <2>2
    <3> HIDE DEF known, body
    <3> QED
      BY <1>3, <1>4, <2>2, <3>1
  <2> QED
    BY <1>4, <2>1, <2>2
<1>6. pg \in Page
  BY DEF Acc
<1>7. Shot(pg).sources = src /\ Shot(pg).host = pg.host /\ Shot(pg).copies = c
      /\ Shot(pg) = [sources |-> src, host |-> pg.host, copies |-> c, misses |-> 0]
  BY DEF Shot
<1>8. m \in Picture
  <2>1. src \in [Scope -> Seq(Src)] /\ c \in 0 .. 1
    BY <1>6, <1>7, ShotFacts DEF Mirror
  <2> HIDE DEF src, c
  <2> QED
    BY <1>4, <2>1 DEF Picture
<1>9. \A v : Receive(v, m) = Shot(pg)
  <2>1. m.kind = "snapshot" /\ m.sources = src /\ m.host = pg.host /\ m.copies = c
    OBVIOUS
  <2> HIDE DEF m, src, c
  <2> QED
    BY <1>7, <2>1 DEF Receive
<1> HIDE DEF m, known
<1>10. /\ DOMAIN n = AccFields /\ n.page = pg /\ n.pending = p.pending /\ n.ops = p.ops
       /\ n.registry = known.registry /\ n.scopes = known.scopes /\ n.sent = Append(p.sent, m)
  BY <1>2, <1>5 DEF Acc, AccFields
<1>11. Append(p.sent, m) \in Seq(Picture \cup Batch)
  BY <1>8, AppendFacts DEF Acc
<1>12. Acc(n)
  BY <1>5, <1>10, <1>11 DEF Acc
<1>13. SendsShot(p, n)
  BY <1>8, <1>9, <1>10 DEF SendsShot
<1> QED
  BY <1>5, <1>10, <1>12, <1>13

LEMMA OutcomeAppend ==
  ASSUME NEW v, NEW w, w \in Seq(Picture), NEW m
  PROVE  Outcome(v, Append(w, m)) = Receive(Outcome(v, w), m)
<1> DEFINE x == Append(w, m)
<1>1. /\ Len(w) \in Nat /\ Len(x) = Len(w) + 1 /\ x[Len(x)] = m /\ x # <<>>
      /\ \A i \in 1 .. Len(w) : x[i] = w[i] /\ w[i] \in Picture
      /\ w = <<>> <=> Len(w) = 0
  OBVIOUS
<1> HIDE DEF x
<1>2. CASE w = <<>>
  <2>1. Len(x) = 1
    BY <1>1, <1>2
  <2> QED
    BY <1>1, <1>2, <2>1 DEF Outcome, x
<1>3. CASE w # <<>>
  <2> DEFINE l == w[Len(w)]
  <2>1. Len(x) # 1 /\ Len(x) - 1 = Len(w) /\ Len(w) \in 1 .. Len(w)
    BY <1>1, <1>3
  <2>2. l.kind = "snapshot" /\ x[Len(w)] = l
    BY <1>1, <2>1 DEF Picture
  <2>3. Outcome(v, x) = Receive(Receive(v, l), m)
    BY <1>1, <2>1, <2>2 DEF Outcome
  <2>4. \A y, z : Receive(y, l) = Receive(z, l)
    BY <2>2 DEF Receive
  <2>5. Outcome(v, w) = Receive(IF Len(w) = 1 THEN v ELSE Receive(v, w[Len(w) - 1]), l)
    BY <1>3 DEF Outcome
  <2>6. Outcome(v, w) = Receive(v, l)
    BY <2>4, <2>5
  <2> QED
    BY <2>3, <2>6 DEF x
<1> QED
  BY <1>2, <1>3

-----------------------------------------------------------------------------
(* What an accumulator keeps to while the stream runs, v the viewer once   *)
(* it has received what was sent so far.                                   *)

Held(p, v) ==
  /\ NamesKnown(v, p.page, p.registry, p.pending)
  /\ Present(p.page) \subseteq p.scopes
  /\ ~reordered => Fits(p)

(* What was sent by the handler so far are snapshots.                      *)
Shots(p) ==
  /\ Acc(p) /\ p.sent \in Seq(Picture)
  /\ Outcome(viewer, p.sent) = IF p.sent = <<>> THEN viewer ELSE Shot(p.page)

LEMMA HeldReplaced ==
  ASSUME NEW p, Acc(p), NEW v, Held(p, v), NEW scope \in Scope, NEW n, Replaced(p, n, scope)
  PROVE  Held(n, v) /\ n.pending # <<>>
<1>1. n.page = p.page /\ n.scopes = p.scopes \cup {scope} /\ Acc(n)
  BY DEF Replaced
<1>2. p.registry \cup Keys(p.pending) \subseteq n.registry \cup Keys(n.pending)
  BY KeysAfter
<1>3. Named(p)
  BY DEF Held, NamesKnown, Named
<1>4. Named(n)
  BY <1>3, NamedAfter
<1>5. NamesKnown(v, n.page, n.registry, n.pending)
  BY <1>1, <1>2, <1>4 DEF Held, NamesKnown, Named
<1>6. ~reordered => Fits(n)
  BY <1>3, FitsAfter DEF Held
<1>7. n.pending # <<>>
  <2>1. Len(Collected(p.page, scope)) >= 1 /\ Len(Collected(p.page, scope)) \in Nat
    BY CollectedFacts DEF Acc, Listed
  <2>2. 1 \in 1 .. Len(Collected(p.page, scope))
    BY <2>1
  <2>3. PICK i \in 1 .. Len(n.pending) : n.pending[i] = Replacing(Collected(p.page, scope)[1])
    BY <2>2 DEF Replaced
  <2>4. n.pending # <<>> \/ Len(n.pending) = 0
    OBVIOUS
  <2> QED
    BY <2>3, <2>4
<1> QED
  BY <1>1, <1>5, <1>6, <1>7 DEF Held

LEMMA ShotsReplaced ==
  ASSUME NEW p, Shots(p), NEW scope \in Scope, NEW n, Replaced(p, n, scope)
  PROVE  Shots(n)
BY DEF Shots, Replaced

LEMMA SerializeSteps ==
  ASSUME NEW p, Shots(p), NEW n, n = Serialize(p)
  PROVE  /\ Shots(n) /\ n.page = p.page /\ n.pending = p.pending /\ n.ops = p.ops
         /\ Len(n.sent) = Len(p.sent) + 1 /\ n.sent # <<>>
         /\ \A v : Held(p, v) => Held(n, Outcome(viewer, n.sent))
<1>1. /\ Acc(n) /\ n.page = p.page /\ n.pending = p.pending /\ n.ops = p.ops
      /\ p.registry \subseteq n.registry
      /\ \A s \in Present(p.page) : Ids(Collected(p.page, s)) \subseteq n.registry
      /\ n.scopes = p.scopes \cup Present(p.page)
  BY SerializeFacts DEF Shots
<1>2. PICK m \in Picture : /\ n.sent = Append(p.sent, m)
                           /\ \A v : Receive(v, m) = Shot(p.page)
  <2>1. SendsShot(p, n)
    BY SerializeFacts DEF Shots
  <2> QED
    BY <2>1, Zenon DEF SendsShot
<1>3. /\ n.sent \in Seq(Picture) /\ Len(n.sent) = Len(p.sent) + 1 /\ n.sent # <<>>
  <2>1. p.sent \in Seq(Picture)
    BY DEF Shots
  <2>2. Append(p.sent, m) \in Seq(Picture) /\ Len(Append(p.sent, m)) = Len(p.sent) + 1
    BY <2>1
  <2>3. Len(p.sent) \in Nat /\ Len(<<>>) = 0
    BY <2>1
  <2> DEFINE l == Append(p.sent, m)
  <2>4. n.sent = l
    BY <1>2
  <2> HIDE DEF l
  <2>5. l \in Seq(Picture) /\ Len(l) = Len(p.sent) + 1
    BY <2>2 DEF l
  <2>6. l # <<>>
    BY <2>3, <2>5
  <2> QED
    BY <2>4, <2>5, <2>6
<1>4. Outcome(viewer, n.sent) = Shot(p.page)
  BY <1>2, OutcomeAppend DEF Shots
<1>5. Shots(n)
  BY <1>1, <1>3, <1>4 DEF Shots
<1>6. ASSUME NEW v, Held(p, v)
      PROVE  Held(n, Shot(p.page))
  <2> DEFINE S == Shot(p.page)
  <2>1. p.page \in Page
    BY DEF Shots, Acc
  <2>2. \A s \in Present(p.page) : S.sources[s] = Collected(p.page, s) /\ s \in Scope
    BY <2>1, ShotFacts DEF Present, Scope
  <2>3. S.host = p.page.host
    BY DEF Shot
  <2> HIDE DEF S
  <2>4. \A s \in Present(p.page) :
          Listed(S.sources[s], s) /\ Ids(S.sources[s]) \subseteq n.registry
    BY <1>1, <2>1, <2>2, CollectedFacts
  <2>5. \A i \in 1 .. Len(n.pending) : n.pending[i].action = "replace" => n.pending[i].source.id \in n.registry
    BY <1>1, <1>6 DEF Held, NamesKnown
  <2>6. NamesKnown(S, n.page, n.registry, n.pending)
    BY <1>1, <2>3, <2>4, <2>5 DEF NamesKnown
  <2>7. Present(n.page) \subseteq n.scopes
    BY <1>1
  <2>8. ~reordered => Fits(n)
    BY <1>1, <1>6 DEF Held, Fits
  <2> QED
    BY <2>6, <2>7, <2>8 DEF Held, S
<1> QED
  BY <1>1, <1>3, <1>4, <1>5, <1>6

(* A dirty owner: its scope is replaced, or it costs a snapshot.           *)
LEMMA MarkFacts ==
  ASSUME NEW p, Shots(p), NEW s, NEW n, n = MarkOwnerDirty(p, s)
  PROVE  /\ Shots(n) /\ n.page = p.page /\ n.ops = p.ops
         /\ streaming /\ Held(p, Outcome(viewer, p.sent)) => Held(n, Outcome(viewer, n.sent))
         /\ \/ streaming /\ Len(n.sent) = Len(p.sent) + 1 /\ n.sent # <<>> /\ n.pending = p.pending
            \/ ~streaming /\ n = p
            \/ n.sent = p.sent /\ (Held(p, Outcome(viewer, p.sent)) => n.pending # <<>>)
<1>1. CASE p.owner[s] \in p.registry
  <2> DEFINE scope == p.owner[s][1]
  <2>1. scope \in Scope
    BY <1>1 DEF Shots, Acc, Id
  <2>2. n = ReplaceScope(p, scope)
    BY <1>1, Zenon DEF MarkOwnerDirty
  <2> HIDE DEF scope
  <2>3. Replaced(p, n, scope)
    BY <2>1, <2>2, ReplaceScopeFacts DEF Shots
  <2>4. Shots(n)
    BY <2>1, <2>3, ShotsReplaced
  <2>5. n.page = p.page /\ n.ops = p.ops /\ n.sent = p.sent
    BY <2>3 DEF Replaced
  <2>6. Held(p, Outcome(viewer, p.sent)) => Held(n, Outcome(viewer, p.sent)) /\ n.pending # <<>>
    BY <2>1, <2>3, HeldReplaced DEF Shots
  <2> QED
    BY <2>4, <2>5, <2>6
<1>2. CASE p.owner[s] \notin p.registry /\ streaming
  <2>1. n = Serialize(p)
    BY <1>2, Zenon DEF MarkOwnerDirty, FreshSnapshot
  <2> QED
    BY <1>2, <2>1, SerializeSteps
<1>3. CASE p.owner[s] \notin p.registry /\ ~streaming
  <2>1. n = p
    BY <1>3, Zenon DEF MarkOwnerDirty, FreshSnapshot
  <2> QED
    BY <1>3, <2>1
<1> QED
  BY <1>1, <1>2, <1>3

(* All known scopes.                                                       *)
LEMMA ReconcileFacts ==
  ASSUME NEW p, Shots(p), NEW n, n = Reconcile(p)
  PROVE  /\ Shots(n) /\ n.page = p.page /\ n.ops = p.ops /\ n.sent = p.sent
         /\ \A v : Held(p, v) => Held(n, v)
         /\ \A scope \in p.scopes : Fresh(n, scope)
<1> DEFINE m == ReplaceKnown(p, "document")
<1>1. n = ReplaceKnown(m, "shadow")
  BY DEF Reconcile
<1>2. p.scopes \subseteq Scope /\ Scope = {"document", "shadow"}
  BY DEF Shots, Acc, Scope
<1>3. ASSUME NEW x, Shots(x), NEW scope \in Scope, NEW y, y = ReplaceKnown(x, scope)
      PROVE  /\ Shots(y) /\ y.page = x.page /\ y.ops = x.ops /\ y.sent = x.sent
             /\ y.scopes = x.scopes
             /\ \A v : Held(x, v) => Held(y, v)
             /\ scope \in x.scopes => Fresh(y, scope)
             /\ \A s \in Scope : s # scope /\ Fresh(x, s) => Fresh(y, s)
  <2>1. CASE scope \in x.scopes
    <3>1. y = ReplaceScope(x, scope)
      BY <1>3, <2>1 DEF ReplaceKnown
    <3>2. Replaced(x, y, scope)
      BY <1>3, <3>1, ReplaceScopeFacts DEF Shots
    <3>3. Shots(y)
      BY <1>3, <3>2, ShotsReplaced
    <3>4. /\ y.page = x.page /\ y.ops = x.ops /\ y.sent = x.sent
          /\ y.scopes = x.scopes \cup {scope}
      BY <3>2 DEF Replaced
    <3>5. y.scopes = x.scopes
      BY <2>1, <3>4
    <3>6. \A v : Held(x, v) => Held(y, v)
      BY <1>3, <3>2, HeldReplaced DEF Shots
    <3>7. Fresh(y, scope) /\ \A s \in Scope : s # scope /\ Fresh(x, s) => Fresh(y, s)
      BY <1>3, <3>2, FreshAfter DEF Shots
    <3> QED
      BY <3>3, <3>4, <3>5, <3>6, <3>7
  <2>2. CASE scope \notin x.scopes
    <3>1. y = x
      BY <1>3, <2>2 DEF ReplaceKnown
    <3> QED
      BY <1>3, <2>2, <3>1
  <2> QED
    BY <2>1, <2>2
<1> HIDE DEF m
<1>4. /\ Shots(m) /\ m.page = p.page /\ m.ops = p.ops /\ m.sent = p.sent /\ m.scopes = p.scopes
      /\ \A v : Held(p, v) => Held(m, v)
      /\ "document" \in p.scopes => Fresh(m, "document")
  BY <1>2, <1>3 DEF m
<1>5. /\ Shots(n) /\ n.page = m.page /\ n.ops = m.ops /\ n.sent = m.sent
      /\ \A v : Held(m, v) => Held(n, v)
      /\ "shadow" \in m.scopes => Fresh(n, "shadow")
      /\ Fresh(m, "document") => Fresh(n, "document")
  BY <1>1, <1>2, <1>3, <1>4
<1> QED
  BY <1>2, <1>4, <1>5

-----------------------------------------------------------------------------
(* A batch of records.                                                     *)

(* An element's addition is in the records once.                           *)
OneAdded == \A i, j \in 1 .. Len(records) : records[i] = "added" /\ records[j] = "added" => i = j

(* The accumulator o has become p by the first k records.                  *)
BatchUpto(o, p, k) ==
  /\ Shots(p) /\ p.page = o.page /\ p.ops \in Seq(PageOp)
  /\ \A i \in 1 .. Len(p.ops) : \E j \in 1 .. k : records[j] = p.ops[i].action
  /\ OneAdded => \A i, j \in 1 .. Len(p.ops) :
                   p.ops[i].action = "added" /\ p.ops[j].action = "added" => i = j
  /\ streaming /\ Held(o, Outcome(viewer, o.sent)) => Held(p, Outcome(viewer, p.sent))

LEMMA PageOpFacts ==
  ASSUME NEW p, Shots(p), p.ops \in Seq(PageOp), NEW r \in {"host", "added"},
         NEW n, n = [p EXCEPT !.ops = Append(@, [action |-> r])]
  PROVE  /\ Shots(n) /\ n.page = p.page /\ n.sent = p.sent /\ n.ops \in Seq(PageOp)
         /\ n.ops = Append(p.ops, [action |-> r])
         /\ \A v : Held(p, v) => Held(n, v)
<1>1. [action |-> r] \in PageOp
  BY DEF PageOp
<1>2. /\ DOMAIN n = AccFields /\ n.page = p.page /\ n.sent = p.sent /\ n.pending = p.pending
      /\ n.registry = p.registry /\ n.scopes = p.scopes
      /\ n.ops = Append(p.ops, [action |-> r])
  BY DEF Shots, Acc, AccFields
<1>3. n.ops \in Seq(PageOp) /\ n.ops \in Seq(Op)
  <2>1. \A x \in PageOp : x \in Op
    BY DEF Op
  <2>2. p.ops \in Seq(Op)
    BY DEF Shots, Acc
  <2> QED
    BY <1>1, <1>2, <2>1, <2>2, AppendFacts
<1>4. Shots(n)
  BY <1>2, <1>3 DEF Shots, Acc
<1>5. \A v : Held(p, v) => Held(n, v)
  BY <1>2 DEF Held, Fits
<1> QED
  BY <1>2, <1>3, <1>4, <1>5

LEMMA RecordStep ==
  ASSUME NEW o, NEW p, NEW k \in 0 .. Len(records) - 1, records \in Seq(Record),
         BatchUpto(o, p, k), NEW n, n = RecordOps(p, records[k + 1])
  PROVE  BatchUpto(o, n, k + 1)
<1> DEFINE r == records[k + 1]
<1>1. /\ Len(records) \in Nat /\ k \in Nat /\ k + 1 \in 1 .. Len(records)
      /\ r \in {"head", "host", "added"} \cup Sheet
  BY DEF Record
<1>2. \A j \in 1 .. k : j \in 1 .. k + 1
  BY <1>1
<1>3. CASE r = "head"
  <2>1. n = p
    BY <1>3 DEF RecordOps
  <2> QED
    BY <1>2, <2>1 DEF BatchUpto
<1>4. CASE r \in {"host", "added"}
  <2>1. n = [p EXCEPT !.ops = Append(@, [action |-> r])]
    BY <1>4 DEF RecordOps
  <2>2. Shots(p) /\ p.ops \in Seq(PageOp) /\ Len(p.ops) \in Nat
    BY DEF BatchUpto
  <2> HIDE DEF r
  <2>3. /\ Shots(n) /\ n.page = p.page /\ n.sent = p.sent /\ n.ops \in Seq(PageOp)
        /\ n.ops = Append(p.ops, [action |-> r])
        /\ \A v : Held(p, v) => Held(n, v)
    BY <1>4, <2>1, <2>2, PageOpFacts, SMTT(60)
  <2>4. /\ Len(n.ops) = Len(p.ops) + 1 /\ n.ops[Len(p.ops) + 1].action = r
        /\ \A i \in 1 .. Len(p.ops) : n.ops[i] = p.ops[i]
    BY <2>2, <2>3
  <2>5. ASSUME NEW i \in 1 .. Len(n.ops)
        PROVE  \E j \in 1 .. k + 1 : records[j] = n.ops[i].action
    <3>1. CASE i = Len(p.ops) + 1
      BY <1>1, <2>4, <3>1 DEF r
    <3>2. CASE i \in 1 .. Len(p.ops)
      BY <1>2, <2>4, <3>2 DEF BatchUpto
    <3> QED
      BY <2>2, <2>4, <3>1, <3>2
  <2>6. ASSUME OneAdded, NEW i \in 1 .. Len(n.ops), NEW j \in 1 .. Len(n.ops),
               n.ops[i].action = "added", n.ops[j].action = "added"
        PROVE  i = j
    <3>1. ASSUME NEW a \in 1 .. Len(p.ops), n.ops[a].action = "added", r = "added"
          PROVE  FALSE
      <4>1. PICK d \in 1 .. k : records[d] = "added"
        BY <2>4, <3>1 DEF BatchUpto
      <4>2. d \in 1 .. Len(records) /\ d # k + 1
        BY <1>1
      <4> QED
        BY <1>1, <2>6, <3>1, <4>1, <4>2 DEF OneAdded, r
    <3>2. CASE i \in 1 .. Len(p.ops) /\ j \in 1 .. Len(p.ops)
      BY <2>4, <2>6, <3>2 DEF BatchUpto
    <3>3. (i \in 1 .. Len(p.ops) \/ i = Len(p.ops) + 1) /\ (j \in 1 .. Len(p.ops) \/ j = Len(p.ops) + 1)
      BY <2>2, <2>4
    <3> QED
      BY <2>4, <2>6, <3>1, <3>2, <3>3
  <2> QED
    BY <2>3, <2>5, <2>6 DEF BatchUpto
<1>5. CASE r \in Sheet
  <2>1. r \notin {"head", "host", "added"}
    BY <1>5, CssomAssumption
  <2>2. n = MarkOwnerDirty(p, r)
    BY <2>1 DEF RecordOps
  <2> HIDE DEF r
  <2>3. /\ Shots(n) /\ n.page = p.page /\ n.ops = p.ops
        /\ streaming /\ Held(p, Outcome(viewer, p.sent)) => Held(n, Outcome(viewer, n.sent))
    BY <2>2, MarkFacts DEF BatchUpto
  <2> QED
    BY <1>2, <2>3 DEF BatchUpto
<1> QED
  BY <1>1, <1>3, <1>4, <1>5

(* The function of ProcessMutationBatch, which exists.                     *)
BatchSteps(f, p, k) ==
  f = [i \in 0 .. k |-> IF i = 0 THEN p ELSE RecordOps(f[i - 1], records[i])]

LEMMA BatchHasSteps ==
  ASSUME NEW p, Len(records) \in Nat
  PROVE  \E f : BatchSteps(f, p, Len(records)) /\ ProcessMutationBatch(p) = f[Len(records)]
<1> DEFINE N(x, i) == RecordOps(x, records[i])
           S(f, k) == BatchSteps(f, p, k)
           T == {k \in Nat : \E f : S(f, k)}
<1>1. \A f, k : S(f, k) <=> f = [i \in 0 .. k |-> IF i = 0 THEN p ELSE N(f[i - 1], i)]
  BY DEF BatchSteps
<1> HIDE DEF N, S
<1>2. 0 \in T
  <2>1. S([i \in 0 .. 0 |-> p], 0)
    <3>1. BatchSteps([i \in 0 .. 0 |-> p], p, 0)
      BY DEF BatchSteps
    <3> QED
      BY <3>1 DEF S
  <2> QED
    BY <2>1
<1>3. ASSUME NEW k \in T PROVE k + 1 \in T
  <2>1. PICK g : S(g, k)
    OBVIOUS
  <2> DEFINE h == [i \in 0 .. k + 1 |-> IF i = k + 1 THEN N(g[k], k + 1) ELSE g[i]]
  <2>2. /\ k \in Nat
        /\ \A i \in 0 .. k + 1 : h[i] = IF i = k + 1 THEN N(g[k], k + 1) ELSE g[i]
        /\ \A i \in 0 .. k : g[i] = IF i = 0 THEN p ELSE N(g[i - 1], i)
    BY <1>1, <2>1
  <2>3. h = [i \in 0 .. k + 1 |-> h[i]]
    OBVIOUS
  <2> HIDE DEF h
  <2>4. ASSUME NEW i \in 0 .. k + 1
        PROVE  h[i] = IF i = 0 THEN p ELSE N(h[i - 1], i)
    <3>1. CASE i = 0
      BY <2>2, <3>1
    <3>2. CASE i \in 1 .. k
      <4>1. h[i] = g[i] /\ i - 1 \in 0 .. k /\ h[i - 1] = g[i - 1]
        BY <2>2, <3>2
      <4> QED
        BY <2>2, <3>2, <4>1
    <3>3. CASE i = k + 1
      <4>1. h[i - 1] = g[k]
        BY <2>2, <3>3
      <4> QED
        BY <2>2, <3>3, <4>1
    <3> QED
      BY <2>2, <3>1, <3>2, <3>3
  <2>5. S(h, k + 1)
    BY <1>1, <2>3, <2>4
  <2> QED
    BY <2>2, <2>5
<1>4. T = Nat
  <2>1. T \in SUBSET Nat
    OBVIOUS
  <2> HIDE DEF T
  <2> QED
    BY <1>2, <1>3, <2>1, Induction
<1>5. \E f : BatchSteps(f, p, Len(records))
  BY <1>4 DEF S
<1> QED
  BY <1>5, Zenon DEF ProcessMutationBatch, BatchSteps

LEMMA BatchFacts ==
  ASSUME records \in Seq(Record), NEW o, BatchUpto(o, o, 0)
  PROVE  BatchUpto(o, ProcessMutationBatch(o), Len(records))
<1>1. Len(records) \in Nat
  OBVIOUS
<1>2. PICK f : BatchSteps(f, o, Len(records)) /\ ProcessMutationBatch(o) = f[Len(records)]
  BY <1>1, BatchHasSteps
<1>3. /\ f[0] = o
      /\ \A i \in 1 .. Len(records) : f[i] = RecordOps(f[i - 1], records[i])
  <2>1. \A i \in 0 .. Len(records) : f[i] = IF i = 0 THEN o ELSE RecordOps(f[i - 1], records[i])
    BY <1>2, Zenon DEF BatchSteps
  <2>2. 0 \in 0 .. Len(records) /\ \A i \in 1 .. Len(records) : i \in 0 .. Len(records) /\ i # 0
    BY <1>1
  <2> QED
    BY <2>1, <2>2, Zenon
<1> DEFINE T == {k \in Nat : k <= Len(records) => BatchUpto(o, f[k], k)}
<1>4. 0 \in T
  BY <1>3
<1>5. ASSUME NEW k \in T PROVE k + 1 \in T
  <2>1. SUFFICES ASSUME k + 1 <= Len(records) PROVE BatchUpto(o, f[k + 1], k + 1)
    OBVIOUS
  <2>2. k \in 0 .. Len(records) - 1 /\ BatchUpto(o, f[k], k)
    BY <1>1, <2>1
  <2>3. f[k + 1] = RecordOps(f[k], records[k + 1])
    <3>1. k + 1 \in 1 .. Len(records) /\ (k + 1) - 1 = k
      BY <1>1, <2>2
    <3> QED
      BY <1>3, <3>1
  <2> QED
    BY <2>2, <2>3, RecordStep
<1>6. T = Nat
  <2>1. T \in SUBSET Nat
    OBVIOUS
  <2> HIDE DEF T
  <2> QED
    BY <1>4, <1>5, <2>1, Induction
<1> QED
  BY <1>1, <1>2, <1>6

-----------------------------------------------------------------------------
(* One op at the viewer.                                                   *)

(* rest is s without the source of that name, if there is one.             *)
Without(s, rest, id) ==
  \/ rest = s /\ \A i \in 1 .. Len(s) : s[i].id # id
  \/ \E k \in 1 .. Len(s) : s[k].id = id /\ rest = RemoveAt(s, k)

Applied(s, t, m) ==
  \E rest : /\ Without(s, rest, m.source.id)
            /\ t = IF m.action = "remove" THEN rest ELSE Append(rest, m.source)

FirstRemoved(s, id) == RemoveFirstMatch(s, LAMBDA x : x.id = id)

LEMMA RemoveFirstFacts ==
  ASSUME NEW s \in Seq(Src), NEW id
  PROVE  Without(s, FirstRemoved(s, id), id) /\ FirstRemoved(s, id) \in Seq(Src)
<1> DEFINE n == FirstRemoved(s, id)
<1>1. CASE \A i \in 1 .. Len(s) : s[i].id # id
  <2>1. n = s
    BY <1>1 DEF FirstRemoved, RemoveFirstMatch
  <2> QED
    BY <1>1, <2>1 DEF Without
<1>2. CASE \E i \in 1 .. Len(s) : s[i].id = id
  <2> DEFINE T == {i \in 1 .. Len(s) : s[i].id = id}
  <2>1. T \in SUBSET Nat /\ T # {}
    BY <1>2
  <2>2. PICK k \in T : \A i \in T : k <= i
    BY <2>1, LeastElement
  <2>3. k \in 1 .. Len(s) /\ s[k].id = id /\ Len(s) \in Nat
    OBVIOUS
  <2>4. \A i \in 1 .. k - 1 : s[i].id # id
    BY <2>2, <2>3
  <2>5. SelectInSeq(s, LAMBDA x : x.id = id) = k
    BY <2>3, <2>4 DEF SelectInSeq, Min
  <2>6. n = RemoveAt(s, k)
    BY <2>3, <2>5 DEF FirstRemoved, RemoveFirstMatch
  <2>7. n \in Seq(Src)
    BY <2>3, <2>6, RemoveAtFacts
  <2> QED
    BY <2>3, <2>6, <2>7 DEF Without
<1> QED
  BY <1>1, <1>2

LEMMA StyleFacts ==
  ASSUME NEW v \in Mirror, NEW m \in Change, NEW n, n = ApplyStyle(v, m)
  PROVE  /\ n \in Mirror /\ n.host = v.host /\ n.copies = v.copies
         /\ \A s \in Scope : s # m.source.id[1] => n.sources[s] = v.sources[s]
         /\ \A s \in Scope : s = m.source.id[1] =>
              (s = "shadow" /\ ~v.host) \/ Applied(v.sources[s], n.sources[s], m)
<1> DEFINE scope == m.source.id[1]
           rest == FirstRemoved(v.sources[scope], m.source.id)
           t == IF m.action = "remove" THEN rest ELSE Append(rest, m.source)
<1>1. n = IF scope = "shadow" /\ ~v.host THEN [v EXCEPT !.misses = @ + 1]
          ELSE [v EXCEPT !.sources[scope] = t]
  BY Zenon DEF ApplyStyle, FirstRemoved
<1>2. scope \in Scope /\ m.source \in Src /\ v.sources[scope] \in Seq(Src)
  BY DEF Change, Src, Id, Mirror
<1>3. Without(v.sources[scope], rest, m.source.id) /\ rest \in Seq(Src)
  BY <1>2, RemoveFirstFacts
<1> HIDE DEF rest
<1>4. t \in Seq(Src) /\ Applied(v.sources[scope], t, m)
  BY <1>2, <1>3, AppendFacts DEF Applied
<1> HIDE DEF t, scope
<1>5. CASE scope = "shadow" /\ ~v.host
  <2>1. n = [v EXCEPT !.misses = @ + 1]
    BY <1>1, <1>5
  <2> QED
    BY <1>5, <2>1 DEF Mirror, scope
<1>6. CASE ~(scope = "shadow" /\ ~v.host)
  <2>1. n = [v EXCEPT !.sources[scope] = t]
    BY <1>1, <1>6
  <2>2. n \in Mirror /\ n.host = v.host /\ n.copies = v.copies
    BY <1>2, <1>4, <2>1 DEF Mirror
  <2>3. n.sources[scope] = t /\ \A s \in Scope : s # scope => n.sources[s] = v.sources[s]
    BY <1>2, <2>1 DEF Mirror
  <2> QED
    BY <1>4, <2>2, <2>3 DEF scope
<1> QED
  BY <1>5, <1>6

LEMMA WithoutFacts ==
  ASSUME NEW s, NEW scope, Listed(s, scope), NEW id, NEW rest, Without(s, rest, id)
  PROVE  /\ Listed(rest, scope)
         /\ \A i \in 1 .. Len(rest) : rest[i].id # id /\ \E j \in 1 .. Len(s) : rest[i] = s[j]
<1>1. /\ s \in Seq(Src) /\ Len(s) \in Nat
      /\ \A i \in 1 .. Len(s) : s[i].id[1] = scope
      /\ \A i, j \in 1 .. Len(s) : s[i].id = s[j].id => i = j
  BY DEF Listed
<1>2. CASE rest = s /\ \A i \in 1 .. Len(s) : s[i].id # id
  BY <1>2
<1>3. ASSUME NEW k \in 1 .. Len(s), s[k].id = id, rest = RemoveAt(s, k)
      PROVE  /\ Listed(rest, scope)
             /\ \A i \in 1 .. Len(rest) : rest[i].id # id /\ \E j \in 1 .. Len(s) : rest[i] = s[j]
  <2>1. /\ rest \in Seq(Src) /\ Len(rest) = Len(s) - 1
        /\ \A i \in 1 .. Len(s) - 1 : rest[i] = IF i < k THEN s[i] ELSE s[i + 1]
    BY <1>1, <1>3, RemoveAtFacts
  <2>2. ASSUME NEW i \in 1 .. Len(rest)
        PROVE  /\ i < k => i \in 1 .. Len(s) /\ rest[i] = s[i] /\ i # k
               /\ ~(i < k) => i + 1 \in 1 .. Len(s) /\ rest[i] = s[i + 1] /\ i + 1 # k
    BY <1>1, <2>1
  <2>3. ASSUME NEW i \in 1 .. Len(rest)
        PROVE  rest[i].id # id /\ rest[i].id[1] = scope /\ \E j \in 1 .. Len(s) : rest[i] = s[j]
    <3>1. PICK j \in 1 .. Len(s) : rest[i] = s[j] /\ j # k
      BY <2>2
    <3>2. s[j].id # id
      BY <1>1, <1>3, <3>1
    <3> QED
      BY <1>1, <3>1, <3>2
  <2>4. ASSUME NEW i \in 1 .. Len(rest), NEW j \in 1 .. Len(rest), rest[i].id = rest[j].id
        PROVE  i = j
    <3>1. CASE i < k /\ j < k
      BY <1>1, <2>2, <2>4, <3>1
    <3>2. CASE i < k /\ ~(j < k)
      <4>1. i = j + 1
        BY <1>1, <2>2, <2>4, <3>2
      <4> QED
        BY <3>2, <4>1
    <3>3. CASE ~(i < k) /\ j < k
      <4>1. i + 1 = j
        BY <1>1, <2>2, <2>4, <3>3
      <4> QED
        BY <3>3, <4>1
    <3>4. CASE ~(i < k) /\ ~(j < k)
      <4>1. i + 1 = j + 1
        BY <1>1, <2>2, <2>4, <3>4
      <4> QED
        BY <4>1
    <3> QED
      BY <3>1, <3>2, <3>3, <3>4
  <2> QED
    BY <2>1, <2>3, <2>4 DEF Listed
<1> QED
  BY <1>2, <1>3 DEF Without

LEMMA AppliedFacts ==
  ASSUME NEW s, NEW scope, Listed(s, scope), NEW m \in Change, m.source.id[1] = scope,
         NEW t, Applied(s, t, m)
  PROVE  /\ Listed(t, scope)
         /\ \A id \in Ids(t) : \/ id \in Ids(s) /\ id # m.source.id
                               \/ m.action = "replace" /\ id = m.source.id
<1>1. PICK rest : /\ Without(s, rest, m.source.id)
                  /\ t = IF m.action = "remove" THEN rest ELSE Append(rest, m.source)
  BY DEF Applied
<1>2. /\ Listed(rest, scope)
      /\ \A i \in 1 .. Len(rest) : rest[i].id # m.source.id /\ \E j \in 1 .. Len(s) : rest[i] = s[j]
  BY <1>1, WithoutFacts
<1>3. rest \in Seq(Src) /\ DOMAIN rest = 1 .. Len(rest) /\ DOMAIN s = 1 .. Len(s) /\ Len(rest) \in Nat
  BY <1>2 DEF Listed
<1>4. m.source \in Src /\ m.action \in {"replace", "remove"}
  BY DEF Change
<1>5. \A i \in 1 .. Len(rest) : rest[i].id \in Ids(s)
  BY <1>2, <1>3 DEF Ids
<1>6. CASE m.action = "remove"
  BY <1>1, <1>2, <1>3, <1>5, <1>6 DEF Ids
<1>7. CASE m.action = "replace"
  <2>1. t = Append(rest, m.source)
    BY <1>1, <1>7
  <2>2. /\ t \in Seq(Src) /\ Len(t) = Len(rest) + 1 /\ t[Len(rest) + 1] = m.source
        /\ \A i \in 1 .. Len(rest) : t[i] = rest[i]
        /\ DOMAIN t = 1 .. Len(t)
    BY <1>3, <1>4, <2>1, AppendFacts
  <2>3. \A i \in 1 .. Len(t) : i \in 1 .. Len(rest) \/ i = Len(rest) + 1
    BY <1>3, <2>2
  <2>4. \A i \in 1 .. Len(t) : t[i].id[1] = scope
    BY <1>2, <2>2, <2>3 DEF Listed
  <2>5. \A i, j \in 1 .. Len(t) : t[i].id = t[j].id => i = j
    BY <1>2, <2>2, <2>3 DEF Listed
  <2>6. \A i \in 1 .. Len(t) :
          (t[i].id \in Ids(s) /\ t[i].id # m.source.id) \/ t[i].id = m.source.id
    BY <1>2, <1>5, <2>2, <2>3
  <2> QED
    BY <1>7, <2>2, <2>4, <2>5, <2>6 DEF Listed, Ids
<1> QED
  BY <1>4, <1>6, <1>7

(* After the first k of the pool: behind what none of them named stand the *)
(* first c of the scope's sources, those that were named.                  *)
ExactAt(s, q, list, k, c) ==
  /\ c <= Len(s)
  /\ \A t \in 1 .. c : s[Len(s) - c + t] = list[t]
  /\ \A t \in 1 .. Len(s) - c, j \in 1 .. k : s[t].id # q[j].source.id
  /\ \A t \in 1 .. c : \E j \in 1 .. k : q[j].source.id = list[t].id
  /\ \A j \in 1 .. k, t \in 1 .. Len(list) : q[j].source.id = list[t].id => t <= c

Exact(s, q, list, k) == \E c \in 0 .. Len(list) : ExactAt(s, q, list, k, c)

(* All of the scope's sources are pooled, as they are now.                 *)
Complete(q, list, scope) ==
  /\ Keyed(q) /\ Listed(list, scope) /\ PoolFits(q, list, scope)
  /\ \A j \in 1 .. Len(list) : \E i \in 1 .. Len(q) : q[i] = Replacing(list[j])

LEMMA ExactOther ==
  ASSUME NEW q, NEW list, NEW scope, Complete(q, list, scope), NEW k \in 0 .. Len(q) - 1,
         NEW s, Listed(s, scope), Exact(s, q, list, k), q[k + 1].source.id[1] # scope
  PROVE  Exact(s, q, list, k + 1)
<1>1. PICK c \in 0 .. Len(list) : ExactAt(s, q, list, k, c)
  BY DEF Exact
<1>2. /\ Len(q) \in Nat /\ Len(s) \in Nat /\ k \in Nat /\ c \in Nat /\ Len(list) \in Nat
      /\ \A t \in 1 .. Len(s) : s[t].id[1] = scope
      /\ \A t \in 1 .. Len(list) : list[t].id[1] = scope
  BY DEF Complete, Keyed, Listed
<1>3. \A j \in 1 .. k + 1 : j \in 1 .. k \/ j = k + 1
  BY <1>2
<1>4. \A j \in 1 .. k : j \in 1 .. k + 1
  BY <1>2
<1>5. \A t \in 1 .. Len(s) - c : t \in 1 .. Len(s)
  BY <1>2
<1>6. /\ \A t \in 1 .. Len(s) - c : s[t].id # q[k + 1].source.id
      /\ \A t \in 1 .. Len(list) : list[t].id # q[k + 1].source.id
  BY <1>2, <1>5
<1>7. /\ \A t \in 1 .. Len(s) - c, j \in 1 .. k + 1 : s[t].id # q[j].source.id
      /\ \A j \in 1 .. k + 1, t \in 1 .. Len(list) : q[j].source.id = list[t].id => t <= c
  BY <1>1, <1>3, <1>6 DEF ExactAt
<1>8. \A t \in 1 .. c : \E j \in 1 .. k + 1 : q[j].source.id = list[t].id
  BY <1>1, <1>4 DEF ExactAt
<1>9. ExactAt(s, q, list, k + 1, c)
  BY <1>1, <1>7, <1>8 DEF ExactAt
<1> QED
  BY <1>9 DEF Exact

LEMMA ExactStep ==
  ASSUME NEW q, NEW list, NEW scope, Complete(q, list, scope), NEW k \in 0 .. Len(q) - 1,
         NEW s, Listed(s, scope), Exact(s, q, list, k), q[k + 1].source.id[1] = scope,
         NEW n, Applied(s, n, q[k + 1])
  PROVE  Exact(n, q, list, k + 1)
<1> DEFINE m == q[k + 1]
           x == m.source.id
<1>1. PICK c \in 0 .. Len(list) : ExactAt(s, q, list, k, c)
  BY DEF Exact
<1>2. /\ Len(q) \in Nat /\ Len(s) \in Nat /\ k \in Nat /\ c \in Nat /\ Len(list) \in Nat
      /\ s \in Seq(Src) /\ list \in Seq(Src) /\ k + 1 \in 1 .. Len(q)
      /\ \A i \in 1 .. Len(q) : q[i] \in Change
      /\ \A i, j \in 1 .. Len(q) : q[i].source.id = q[j].source.id => i = j
      /\ \A i, j \in 1 .. Len(list) : list[i].id = list[j].id => i = j
      /\ \A i \in 1 .. Len(list) : list[i] \in Src
      /\ DOMAIN list = 1 .. Len(list)
  BY DEF Complete, Keyed, Listed
<1>3. /\ c <= Len(s)
      /\ \A t \in 1 .. c : s[Len(s) - c + t] = list[t]
      /\ \A t \in 1 .. Len(s) - c, j \in 1 .. k : s[t].id # q[j].source.id
      /\ \A t \in 1 .. c : \E j \in 1 .. k : q[j].source.id = list[t].id
      /\ \A j \in 1 .. k, t \in 1 .. Len(list) : q[j].source.id = list[t].id => t <= c
  BY <1>1 DEF ExactAt
<1>4. PICK rest : /\ Without(s, rest, x)
                  /\ n = IF m.action = "remove" THEN rest ELSE Append(rest, m.source)
  BY DEF Applied
<1>5. m \in Change /\ m.source \in Src /\ m.action \in {"replace", "remove"}
  BY <1>2 DEF Change
<1>6. \A t \in 1 .. c : list[t].id # x
  <2>1. SUFFICES ASSUME NEW t \in 1 .. c, list[t].id = x PROVE FALSE
    OBVIOUS
  <2>2. PICK j \in 1 .. k : q[j].source.id = x
    BY <1>3, <2>1
  <2>3. j \in 1 .. Len(q) /\ j # k + 1
    BY <1>2
  <2> QED
    BY <1>2, <2>2, <2>3
<1> HIDE DEF m, x
<1>7. /\ rest \in Seq(Src) /\ Len(rest) \in Nat /\ c <= Len(rest)
      /\ \A t \in 1 .. c : rest[Len(rest) - c + t] = list[t]
      /\ \A t \in 1 .. Len(rest) - c, j \in 1 .. k : rest[t].id # q[j].source.id
      /\ \A t \in 1 .. Len(rest) : rest[t].id # x
  <2>1. \A t \in 1 .. Len(rest) : rest[t].id # x
    BY <1>4, WithoutFacts
  <2>2. CASE rest = s
    BY <1>2, <1>3, <2>1, <2>2
  <2>3. ASSUME NEW d \in 1 .. Len(s), s[d].id = x, rest = RemoveAt(s, d)
        PROVE  /\ rest \in Seq(Src) /\ Len(rest) \in Nat /\ c <= Len(rest)
               /\ \A t \in 1 .. c : rest[Len(rest) - c + t] = list[t]
               /\ \A t \in 1 .. Len(rest) - c, j \in 1 .. k : rest[t].id # q[j].source.id
    <3>1. d <= Len(s) - c
      <4>1. SUFFICES ASSUME ~(d <= Len(s) - c) PROVE FALSE
        OBVIOUS
      <4> DEFINE t == d - (Len(s) - c)
      <4>2. t \in 1 .. c /\ Len(s) - c + t = d
        BY <1>2, <1>3, <4>1
      <4> HIDE DEF t
      <4>3. s[d] = list[t]
        BY <1>3, <4>2
      <4> QED
        BY <1>6, <2>3, <4>2, <4>3
    <3>2. /\ rest \in Seq(Src) /\ Len(rest) = Len(s) - 1
          /\ \A i \in 1 .. Len(s) - 1 : rest[i] = IF i < d THEN s[i] ELSE s[i + 1]
      <4>1. s \in Seq(Src) /\ d \in 1 .. Len(s) /\ rest = RemoveAt(s, d)
        BY <1>2, <2>3
      <4> QED
        BY <4>1, RemoveAtFacts
    <3>3. c <= Len(rest) /\ Len(rest) \in Nat
      BY <1>2, <3>1, <3>2
    <3>4. ASSUME NEW t \in 1 .. c PROVE rest[Len(rest) - c + t] = list[t]
      <4>1. /\ Len(rest) - c + t \in 1 .. Len(s) - 1 /\ ~(Len(rest) - c + t < d)
            /\ (Len(rest) - c + t) + 1 = Len(s) - c + t
        BY <1>2, <3>1, <3>2
      <4>2. rest[Len(rest) - c + t] = s[Len(s) - c + t]
        BY <3>2, <4>1
      <4> QED
        BY <1>3, <4>2
    <3>5. ASSUME NEW t \in 1 .. Len(rest) - c, NEW j \in 1 .. k PROVE rest[t].id # q[j].source.id
      <4>1. t \in 1 .. Len(s) - 1 /\ t \in 1 .. Len(s) - c /\ t + 1 \in 1 .. Len(s) - c
        BY <1>2, <3>2, <3>3
      <4>2. rest[t] = s[t] \/ rest[t] = s[t + 1]
        BY <3>2, <4>1
      <4> QED
        BY <1>3, <4>1, <4>2
    <3> QED
      BY <3>2, <3>3, <3>4, <3>5
  <2> QED
    BY <1>4, <2>1, <2>2, <2>3 DEF Without
<1>8. \A j \in 1 .. k + 1 : j \in 1 .. k \/ j = k + 1
  BY <1>2
<1>9. \A j \in 1 .. k : j \in 1 .. k + 1
  BY <1>2
<1>10. (m.action = "replace") <=> (x \in Ids(list))
  BY <1>2 DEF Complete, PoolFits, m, x
<1>11. q[k + 1].source.id = x
  BY DEF x, m
<1>12. CASE m.action = "remove"
  <2>1. n = rest
    BY <1>4, <1>12
  <2>2. \A t \in 1 .. Len(list) : list[t].id # x
    BY <1>2, <1>10, <1>12 DEF Ids
  <2>3. \A t \in 1 .. Len(rest) - c : t \in 1 .. Len(rest)
    BY <1>2, <1>7
  <2>4. ExactAt(n, q, list, k + 1, c)
    BY <1>3, <1>7, <1>8, <1>9, <1>11, <2>1, <2>2, <2>3 DEF ExactAt
  <2> QED
    BY <2>4 DEF Exact
<1>13. CASE m.action = "replace"
  <2>1. PICK d \in 1 .. Len(list) : list[d].id = x
    BY <1>2, <1>10, <1>13 DEF Ids
  <2>2. m.source = list[d]
    <3>1. PICK i \in 1 .. Len(q) : q[i] = Replacing(list[d])
      BY DEF Complete
    <3>2. q[i].source.id = x
      BY <2>1, <3>1 DEF Replacing
    <3>3. i = k + 1
      BY <1>2, <1>11, <3>2
    <3> QED
      BY <3>1, <3>3 DEF m, Replacing
  <2>3. d = c + 1
    <3>1. d > c
      BY <1>2, <1>6, <2>1
    <3>2. SUFFICES ASSUME d > c + 1 PROVE FALSE
      BY <1>2, <3>1
    <3>3. c + 1 \in 1 .. Len(list) /\ c + 1 < d
      BY <1>2, <3>2
    <3>4. PICK i \in 1 .. Len(q) : q[i] = Replacing(list[c + 1])
      BY <3>3 DEF Complete
    <3>5. q[i].source.id = list[c + 1].id
      BY <3>4 DEF Replacing
    <3>6. i < k + 1
      BY <1>2, <1>11, <2>1, <3>3, <3>5 DEF Complete, PoolFits
    <3>7. i \in 1 .. k
      BY <1>2, <3>6
    <3>8. c + 1 <= c
      BY <1>3, <3>3, <3>5, <3>7
    <3> QED
      BY <1>2, <3>8
  <2>4. n = Append(rest, list[d])
    BY <1>4, <1>13, <2>2
  <2>5. /\ Len(n) = Len(rest) + 1 /\ n[Len(rest) + 1] = list[d]
        /\ \A i \in 1 .. Len(rest) : n[i] = rest[i]
    BY <1>2, <1>7, <2>4, AppendFacts
  <2>6. c + 1 \in 0 .. Len(list) /\ c + 1 <= Len(n) /\ Len(n) - (c + 1) = Len(rest) - c
    BY <1>2, <1>7, <2>3, <2>5
  <2>7. ASSUME NEW t \in 1 .. c + 1 PROVE n[Len(n) - (c + 1) + t] = list[t]
    <3>1. CASE t = c + 1
      <4>1. Len(n) - (c + 1) + t = Len(rest) + 1
        <5>1. Len(n) \in Nat /\ c \in Nat /\ Len(n) = Len(rest) + 1
          BY <1>2, <1>7, <2>5
        <5> QED
          BY <3>1, <5>1
      <4> QED
        BY <2>3, <2>5, <3>1, <4>1
    <3>2. CASE t \in 1 .. c
      <4>1. Len(n) - (c + 1) + t = Len(rest) - c + t /\ Len(rest) - c + t \in 1 .. Len(rest)
        <5>1. \A a, b \in Nat : a + 1 - (b + 1) + t = a - b + t
          OBVIOUS
        <5>2. Len(rest) - c + t \in 1 .. Len(rest)
          BY <1>2, <1>7, <3>2
        <5> QED
          BY <1>2, <1>7, <2>5, <5>1, <5>2
      <4> QED
        BY <1>7, <2>5, <3>2, <4>1
    <3> QED
      BY <1>2, <3>1, <3>2
  <2>8. ASSUME NEW t \in 1 .. Len(n) - (c + 1), NEW j \in 1 .. k + 1
        PROVE  n[t].id # q[j].source.id
    <3>1. t \in 1 .. Len(rest) /\ t \in 1 .. Len(rest) - c
      BY <1>2, <1>7, <2>6
    <3> QED
      BY <1>7, <1>8, <1>11, <2>5, <3>1
  <2>9. ASSUME NEW t \in 1 .. c + 1 PROVE \E j \in 1 .. k + 1 : q[j].source.id = list[t].id
    <3>1. k + 1 \in 1 .. k + 1
      BY <1>2
    <3>2. CASE t = c + 1
      BY <1>11, <2>1, <2>3, <3>1, <3>2
    <3>3. CASE t \in 1 .. c
      BY <1>3, <1>9, <3>3
    <3> QED
      BY <1>2, <3>2, <3>3
  <2>10. ASSUME NEW j \in 1 .. k + 1, NEW t \in 1 .. Len(list), q[j].source.id = list[t].id
         PROVE  t <= c + 1
    <3>1. CASE j = k + 1
      BY <1>2, <1>11, <2>1, <2>3, <2>10, <3>1
    <3>2. CASE j \in 1 .. k
      BY <1>2, <1>3, <2>10, <3>2
    <3> QED
      BY <1>8, <3>1, <3>2
  <2>11. ExactAt(n, q, list, k + 1, c + 1)
    BY <2>6, <2>7, <2>8, <2>9, <2>10 DEF ExactAt
  <2> QED
    BY <2>6, <2>11 DEF Exact
<1> QED
  BY <1>5, <1>12, <1>13

-----------------------------------------------------------------------------
(* A message at the viewer: the ops on the page a, then the pool q.        *)

(* What the first i page ops may change.                                   *)
PageKept(v, x, a, i) ==
  /\ x \in Mirror /\ x.sources["document"] = v.sources["document"]
  /\ (\A j \in 1 .. i : a[j].action # "host") => x.host = v.host /\ x.sources = v.sources
  /\ (\A j \in 1 .. i : a[j].action # "added") => x.copies = v.copies
  /\ (\A j, k \in 1 .. Len(a) : a[j].action = "added" /\ a[k].action = "added" => j = k)
       => x.copies <= v.copies + 1

(* A scope whose root is in the mirror, and no name of which is there      *)
(* twice.                                                                  *)
Held1(y, s) == (s = "shadow" => y.host) /\ Listed(y.sources[s], s)

(* What the first k of the pool make of a scope: a name is there since     *)
(* before and was not named, or it was replaced.                           *)
ScopeKept(y, x, q, k, s) ==
  /\ Listed(x.sources[s], s)
  /\ \A id \in Ids(x.sources[s]) :
       \/ id \in Ids(y.sources[s]) /\ \A j \in 1 .. k : q[j].source.id # id
       \/ \E j \in 1 .. k : q[j].action = "replace" /\ q[j].source.id = id
  /\ \A list : Complete(q, list, s) => Exact(x.sources[s], q, list, k)

PoolKept(y, x, q, k) ==
  /\ x \in Mirror /\ x.host = y.host /\ x.copies = y.copies
  /\ \A s \in Scope : Held1(y, s) => ScopeKept(y, x, q, k, s)

LEMMA PageStep ==
  ASSUME NEW v \in Mirror, NEW a \in Seq(PageOp), NEW i \in 0 .. Len(a) - 1, NEW x,
         PageKept(v, x, a, i), NEW n, n = ApplyOp(x, a[i + 1])
  PROVE  PageKept(v, n, a, i + 1)
<1>1. /\ Len(a) \in Nat /\ i \in Nat /\ i + 1 \in 1 .. Len(a) /\ i + 1 \in 1 .. i + 1
      /\ a[i + 1].action \in {"host", "added"}
      /\ \A j \in 1 .. i : j \in 1 .. i + 1 /\ j \in 1 .. Len(a) /\ j # i + 1
  <2>1. Len(a) \in Nat /\ \A j \in 1 .. Len(a) : a[j] \in PageOp
    OBVIOUS
  <2>2. i \in Nat /\ i + 1 \in 1 .. Len(a) /\ i + 1 \in 1 .. i + 1
    BY <2>1
  <2>3. \A j \in 1 .. i : j \in 1 .. i + 1 /\ j \in 1 .. Len(a) /\ j # i + 1
    BY <2>1, <2>2
  <2>4. \A o \in PageOp : o.action \in {"host", "added"}
    BY DEF PageOp
  <2> QED
    BY <2>1, <2>2, <2>3, <2>4
<1>2. x \in Mirror /\ x.copies \in Nat /\ v.copies \in Nat /\ "shadow" \in Scope /\ "document" \in Scope
  BY DEF PageKept, Mirror, Scope
<1>3. CASE a[i + 1].action = "added"
  <2>1. n = [x EXCEPT !.copies = @ + 1]
    BY <1>3 DEF ApplyOp
  <2>2. n \in Mirror /\ n.host = x.host /\ n.sources = x.sources /\ n.copies = x.copies + 1
    <3>1. x.copies + 1 \in Nat
      BY <1>2
    <3>2. DOMAIN x = {"sources", "host", "copies", "misses"}
      BY <1>2 DEF Mirror
    <3>3. /\ n.host = x.host /\ n.sources = x.sources /\ n.copies = x.copies + 1
          /\ n = [x EXCEPT !.copies = n.copies]
      BY <2>1, <3>2
    <3> QED
      BY <1>2, <3>1, <3>3 DEF Mirror
  <2>3. ASSUME \A j, k \in 1 .. Len(a) : a[j].action = "added" /\ a[k].action = "added" => j = k
        PROVE  n.copies <= v.copies + 1
    <3>1. \A j \in 1 .. i : a[j].action # "added"
      BY <1>1, <1>3, <2>3
    <3>2. x.copies = v.copies
      BY <3>1 DEF PageKept
    <3> QED
      BY <1>2, <2>2, <3>2
  <2> QED
    BY <1>1, <1>3, <2>2, <2>3 DEF PageKept
<1>4. CASE a[i + 1].action = "host"
  <2>1. n = [x EXCEPT !.host = FALSE, !.sources["shadow"] = <<>>]
    BY <1>4 DEF ApplyOp
  <2>2. <<>> \in Seq(Src)
    OBVIOUS
  <2> DEFINE u == [x.sources EXCEPT !["shadow"] = <<>>]
  <2>3. u \in [Scope -> Seq(Src)] /\ u["document"] = x.sources["document"]
    BY <1>2, <2>2 DEF Mirror
  <2>4. DOMAIN x = {"sources", "host", "copies", "misses"}
    BY <1>2 DEF Mirror
  <2>5. n = [x EXCEPT !.host = FALSE, !.sources = u]
    BY <2>1, <2>4
  <2> HIDE DEF u
  <2>6. n \in Mirror /\ n.sources["document"] = x.sources["document"] /\ n.copies = x.copies
    BY <1>2, <2>3, <2>5 DEF Mirror
  <2> QED
    BY <1>1, <1>4, <2>6 DEF PageKept
<1> QED
  BY <1>1, <1>3, <1>4

LEMMA PoolStep ==
  ASSUME NEW y \in Mirror, NEW q, Keyed(q), NEW k \in 0 .. Len(q) - 1, NEW x,
         PoolKept(y, x, q, k), NEW n, n = ApplyOp(x, q[k + 1])
  PROVE  PoolKept(y, n, q, k + 1)
<1> DEFINE m == q[k + 1]
<1>1. /\ Len(q) \in Nat /\ k \in Nat /\ k + 1 \in 1 .. Len(q) /\ k + 1 \in 1 .. k + 1
      /\ m \in Change /\ m.action \in {"replace", "remove"}
      /\ \A j \in 1 .. k : j \in 1 .. k + 1
      /\ \A j \in 1 .. k + 1 : j \in 1 .. k \/ j = k + 1
  <2>1. Len(q) \in Nat /\ \A j \in 1 .. Len(q) : q[j] \in Change
    BY DEF Keyed
  <2>2. k \in Nat /\ k + 1 \in 1 .. Len(q) /\ k + 1 \in 1 .. k + 1
    BY <2>1
  <2>3. /\ \A j \in 1 .. k : j \in 1 .. k + 1
        /\ \A j \in 1 .. k + 1 : j \in 1 .. k \/ j = k + 1
    BY <2>2
  <2>4. \A o \in Change : o.action \in {"replace", "remove"}
    BY DEF Change
  <2> QED
    BY <2>1, <2>2, <2>3, <2>4
<1>2. n = ApplyStyle(x, m)
  BY <1>1 DEF ApplyOp
<1>3. x \in Mirror /\ x.host = y.host /\ x.copies = y.copies
  BY DEF PoolKept
<1>4. /\ n \in Mirror /\ n.host = x.host /\ n.copies = x.copies
      /\ \A s \in Scope : s # m.source.id[1] => n.sources[s] = x.sources[s]
      /\ \A s \in Scope : s = m.source.id[1] =>
           (s = "shadow" /\ ~x.host) \/ Applied(x.sources[s], n.sources[s], m)
  <2> HIDE DEF m
  <2> QED
    BY <1>1, <1>2, <1>3, StyleFacts
<1>5. ASSUME NEW s \in Scope, Held1(y, s)
      PROVE  ScopeKept(y, n, q, k + 1, s)
  <2> DEFINE c == x.sources[s]
             d == n.sources[s]
  <2>1. ScopeKept(y, x, q, k, s)
    BY <1>5 DEF PoolKept
  <2>2. /\ Listed(c, s)
        /\ \A id \in Ids(c) :
             \/ id \in Ids(y.sources[s]) /\ \A j \in 1 .. k : q[j].source.id # id
             \/ \E j \in 1 .. k : q[j].action = "replace" /\ q[j].source.id = id
        /\ \A list : Complete(q, list, s) => Exact(c, q, list, k)
    BY <2>1 DEF ScopeKept
  <2>3. CASE s = m.source.id[1]
    <3>1. Applied(c, d, m)
      BY <1>3, <1>4, <1>5, <2>3 DEF Held1
    <3>2. /\ Listed(d, s)
          /\ \A id \in Ids(d) : \/ id \in Ids(c) /\ id # m.source.id
                                \/ m.action = "replace" /\ id = m.source.id
      <4> HIDE DEF m, c, d
      <4> QED
        BY <1>1, <2>2, <2>3, <3>1, AppliedFacts
    <3>3. ASSUME NEW id \in Ids(d)
          PROVE  \/ id \in Ids(y.sources[s]) /\ \A j \in 1 .. k + 1 : q[j].source.id # id
                 \/ \E j \in 1 .. k + 1 : q[j].action = "replace" /\ q[j].source.id = id
      BY <1>1, <2>2, <3>2
    <3>4. ASSUME NEW list, Complete(q, list, s) PROVE Exact(d, q, list, k + 1)
      <4>1. Exact(c, q, list, k)
        BY <2>2, <3>4
      <4> HIDE DEF c, d
      <4> QED
        BY <2>2, <2>3, <3>1, <3>4, <4>1, ExactStep
    <3> QED
      BY <3>2, <3>3, <3>4 DEF ScopeKept
  <2>4. CASE s # m.source.id[1]
    <3>1. d = c
      BY <1>4, <2>4
    <3>2. ASSUME NEW id \in Ids(c)
          PROVE  \/ id \in Ids(y.sources[s]) /\ \A j \in 1 .. k + 1 : q[j].source.id # id
                 \/ \E j \in 1 .. k + 1 : q[j].action = "replace" /\ q[j].source.id = id
      <4>1. id[1] = s
        BY <2>2 DEF Listed, Ids
      <4> QED
        BY <1>1, <2>2, <2>4, <4>1
    <3>3. ASSUME NEW list, Complete(q, list, s) PROVE Exact(c, q, list, k + 1)
      <4>1. Exact(c, q, list, k)
        BY <2>2, <3>3
      <4> HIDE DEF c, d
      <4> QED
        BY <2>2, <2>4, <3>3, <4>1, ExactOther
    <3> QED
      BY <2>2, <3>1, <3>2, <3>3 DEF ScopeKept
  <2> QED
    BY <2>3, <2>4
<1> QED
  BY <1>3, <1>4, <1>5 DEF PoolKept

(* The function of ApplyMutations, which exists.                           *)
OpSteps(f, v, ops, k) ==
  f = [i \in 0 .. k |-> IF i = 0 THEN v ELSE ApplyOp(f[i - 1], ops[i])]

LEMMA OpsHaveSteps ==
  ASSUME NEW v, NEW ops, Len(ops) \in Nat
  PROVE  \E f : OpSteps(f, v, ops, Len(ops)) /\ ApplyMutations(v, ops) = f[Len(ops)]
<1> DEFINE N(x, i) == ApplyOp(x, ops[i])
           S(f, k) == OpSteps(f, v, ops, k)
           T == {k \in Nat : \E f : S(f, k)}
<1>1. \A f, k : S(f, k) <=> f = [i \in 0 .. k |-> IF i = 0 THEN v ELSE N(f[i - 1], i)]
  BY DEF OpSteps
<1> HIDE DEF N, S
<1>2. 0 \in T
  <2>1. S([i \in 0 .. 0 |-> v], 0)
    <3>1. OpSteps([i \in 0 .. 0 |-> v], v, ops, 0)
      BY DEF OpSteps
    <3> QED
      BY <3>1 DEF S
  <2> QED
    BY <2>1
<1>3. ASSUME NEW k \in T PROVE k + 1 \in T
  <2>1. PICK g : S(g, k)
    OBVIOUS
  <2> DEFINE h == [i \in 0 .. k + 1 |-> IF i = k + 1 THEN N(g[k], k + 1) ELSE g[i]]
  <2>2. /\ k \in Nat
        /\ \A i \in 0 .. k + 1 : h[i] = IF i = k + 1 THEN N(g[k], k + 1) ELSE g[i]
        /\ \A i \in 0 .. k : g[i] = IF i = 0 THEN v ELSE N(g[i - 1], i)
    BY <1>1, <2>1
  <2>3. h = [i \in 0 .. k + 1 |-> h[i]]
    OBVIOUS
  <2> HIDE DEF h
  <2>4. ASSUME NEW i \in 0 .. k + 1
        PROVE  h[i] = IF i = 0 THEN v ELSE N(h[i - 1], i)
    <3>1. CASE i = 0
      BY <2>2, <3>1
    <3>2. CASE i \in 1 .. k
      <4>1. h[i] = g[i] /\ i - 1 \in 0 .. k /\ h[i - 1] = g[i - 1]
        BY <2>2, <3>2
      <4> QED
        BY <2>2, <3>2, <4>1
    <3>3. CASE i = k + 1
      <4>1. h[i - 1] = g[k]
        BY <2>2, <3>3
      <4> QED
        BY <2>2, <3>3, <4>1
    <3> QED
      BY <2>2, <3>1, <3>2, <3>3
  <2>5. S(h, k + 1)
    BY <1>1, <2>3, <2>4
  <2> QED
    BY <2>2, <2>5
<1>4. T = Nat
  <2>1. T \in SUBSET Nat
    OBVIOUS
  <2> HIDE DEF T
  <2> QED
    BY <1>2, <1>3, <2>1, Induction
<1>5. \E f : OpSteps(f, v, ops, Len(ops))
  BY <1>4 DEF S
<1> QED
  BY <1>5, Zenon DEF ApplyMutations, OpSteps

LEMMA MutationFacts ==
  ASSUME NEW v \in Mirror, NEW a \in Seq(PageOp), NEW q, Keyed(q),
         NEW x, x = ApplyMutations(v, a \o q)
  PROVE  \E y \in Mirror : PageKept(v, y, a, Len(a)) /\ PoolKept(y, x, q, Len(q))
<1> DEFINE ops == a \o q
<1>1. a \in Seq(Op) /\ q \in Seq(Op)
  BY DEF Keyed, Op
<1>2. /\ Len(a) \in Nat /\ Len(q) \in Nat /\ Len(ops) = Len(a) + Len(q)
      /\ \A i \in 1 .. Len(a) : ops[i] = a[i]
      /\ \A i \in 1 .. Len(q) : ops[Len(a) + i] = q[i]
  BY <1>1, ConcatFacts
<1> HIDE DEF ops
<1>3. PICK f : OpSteps(f, v, ops, Len(ops)) /\ x = f[Len(ops)]
  <2>1. Len(ops) \in Nat /\ x = ApplyMutations(v, ops)
    BY <1>2 DEF ops
  <2> QED
    BY <2>1, OpsHaveSteps
<1>4. /\ f[0] = v
      /\ \A i \in 1 .. Len(ops) : f[i] = ApplyOp(f[i - 1], ops[i])
  <2>1. \A i \in 0 .. Len(ops) : f[i] = IF i = 0 THEN v ELSE ApplyOp(f[i - 1], ops[i])
    BY <1>3, Zenon DEF OpSteps
  <2>2. 0 \in 0 .. Len(ops) /\ \A i \in 1 .. Len(ops) : i \in 0 .. Len(ops) /\ i # 0
    BY <1>2
  <2> QED
    BY <2>1, <2>2, Zenon
<1> DEFINE y == f[Len(a)]
           T == {i \in Nat : i <= Len(a) => PageKept(v, f[i], a, i)}
           U == {k \in Nat : k <= Len(q) => PoolKept(y, f[Len(a) + k], q, k)}
<1>5. 0 \in T
  <2>1. PageKept(v, v, a, 0)
    BY DEF PageKept, Mirror
  <2> QED
    BY <1>4, <2>1
<1>6. ASSUME NEW i \in T PROVE i + 1 \in T
  <2>1. SUFFICES ASSUME i + 1 <= Len(a) PROVE PageKept(v, f[i + 1], a, i + 1)
    OBVIOUS
  <2>2. i \in 0 .. Len(a) - 1 /\ PageKept(v, f[i], a, i)
    BY <1>2, <2>1
  <2>3. f[i + 1] = ApplyOp(f[i], a[i + 1])
    <3>1. i + 1 \in 1 .. Len(ops) /\ (i + 1) - 1 = i /\ i + 1 \in 1 .. Len(a)
      BY <1>2, <2>2
    <3> QED
      BY <1>2, <1>4, <3>1
  <2> QED
    BY <2>2, <2>3, PageStep
<1>7. T = Nat
  <2>1. T \in SUBSET Nat
    OBVIOUS
  <2> HIDE DEF T
  <2> QED
    BY <1>5, <1>6, <2>1, Induction
<1>8. PageKept(v, y, a, Len(a)) /\ y \in Mirror
  BY <1>2, <1>7 DEF PageKept
<1> HIDE DEF y
<1>9. 0 \in U
  <2>1. f[Len(a) + 0] = y
    BY <1>2 DEF y
  <2>2. ASSUME NEW s \in Scope, Held1(y, s) PROVE ScopeKept(y, y, q, 0, s)
    <3>1. Listed(y.sources[s], s) /\ Len(y.sources[s]) \in Nat
      BY <2>2 DEF Held1, Listed
    <3>2. ASSUME NEW list, Complete(q, list, s) PROVE Exact(y.sources[s], q, list, 0)
      <4>1. ExactAt(y.sources[s], q, list, 0, 0) /\ 0 \in 0 .. Len(list)
        BY <3>1, <3>2 DEF ExactAt, Complete, Listed
      <4> QED
        BY <4>1 DEF Exact
    <3> QED
      BY <3>1, <3>2 DEF ScopeKept
  <2>3. PoolKept(y, y, q, 0)
    BY <1>8, <2>2 DEF PoolKept
  <2> QED
    BY <2>1, <2>3
<1>10. ASSUME NEW k \in U PROVE k + 1 \in U
  <2>1. SUFFICES ASSUME k + 1 <= Len(q) PROVE PoolKept(y, f[Len(a) + (k + 1)], q, k + 1)
    OBVIOUS
  <2>2. k \in 0 .. Len(q) - 1 /\ PoolKept(y, f[Len(a) + k], q, k)
    BY <1>2, <2>1
  <2>3. f[Len(a) + (k + 1)] = ApplyOp(f[Len(a) + k], q[k + 1])
    <3>1. /\ Len(a) + (k + 1) \in 1 .. Len(ops) /\ (Len(a) + (k + 1)) - 1 = Len(a) + k
          /\ k + 1 \in 1 .. Len(q)
      BY <1>2, <2>2
    <3> QED
      BY <1>2, <1>4, <3>1
  <2> QED
    BY <1>8, <2>2, <2>3, PoolStep
<1>11. U = Nat
  <2>1. U \in SUBSET Nat
    OBVIOUS
  <2> HIDE DEF U
  <2> QED
    BY <1>9, <1>10, <2>1, Induction
<1>12. PoolKept(y, x, q, Len(q))
  BY <1>2, <1>3, <1>11
<1> QED
  BY <1>8, <1>12

(* Once all of a scope is replaced and every name it had was named, it is  *)
(* the scope of the page.                                                  *)
LEMMA ExactlyShown ==
  ASSUME NEW y \in Mirror, NEW x, NEW q, PoolKept(y, x, q, Len(q)), NEW s \in Scope,
         Held1(y, s), NEW list, Complete(q, list, s), Ids(y.sources[s]) \subseteq Keys(q)
  PROVE  x.sources[s] = list
<1> DEFINE d == x.sources[s]
<1>1. ScopeKept(y, x, q, Len(q), s)
  BY DEF PoolKept
<1>2. /\ Listed(d, s) /\ Exact(d, q, list, Len(q)) /\ Listed(list, s)
      /\ \A id \in Ids(d) : id \in Keys(q)
  <2>1. \A id \in Ids(d) : \/ id \in Ids(y.sources[s])
                           \/ \E j \in 1 .. Len(q) : q[j].source.id = id
    BY <1>1 DEF ScopeKept
  <2> QED
    BY <1>1, <2>1 DEF ScopeKept, Complete, Keys
<1>3. /\ d \in Seq(Src) /\ list \in Seq(Src) /\ Len(d) \in Nat /\ Len(list) \in Nat
      /\ DOMAIN d = 1 .. Len(d)
  BY <1>2 DEF Listed
<1>4. PICK c \in 0 .. Len(list) : ExactAt(d, q, list, Len(q), c)
  BY <1>2 DEF Exact
<1> HIDE DEF d
<1>5. Len(d) = c
  <2>0. c <= Len(d) /\ c \in Nat /\ Len(d) \in Nat
    BY <1>3, <1>4 DEF ExactAt
  <2>1. SUFFICES ASSUME Len(d) # c PROVE FALSE
    OBVIOUS
  <2>2. 1 \in 1 .. Len(d) - c /\ 1 \in 1 .. Len(d)
    BY <2>0, <2>1
  <2>3. d[1].id \in Keys(q)
    BY <1>2, <1>3, <2>2 DEF Ids
  <2> QED
    BY <1>4, <2>2, <2>3 DEF ExactAt, Keys
<1>6. Len(list) = c
  <2>1. SUFFICES ASSUME Len(list) > c PROVE FALSE
    BY <1>3, <1>4
  <2>2. Len(list) \in 1 .. Len(list)
    BY <1>3, <2>1
  <2>3. PICK i \in 1 .. Len(q) : q[i] = Replacing(list[Len(list)])
    BY <2>2 DEF Complete
  <2>4. q[i].source.id = list[Len(list)].id
    BY <2>3 DEF Replacing
  <2>5. Len(list) <= c
    BY <1>4, <2>2, <2>4 DEF ExactAt
  <2> QED
    BY <1>3, <2>1, <2>5
<1>7. \A t \in 1 .. c : d[t] = list[t]
  <2>1. \A t \in 1 .. c : Len(d) - c + t = t
    BY <1>3, <1>5
  <2> QED
    BY <1>4, <2>1 DEF ExactAt
<1>8. d = list
  BY <1>3, <1>5, <1>6, <1>7, SeqEqual
<1> QED
  BY <1>8 DEF d

-----------------------------------------------------------------------------
(* What a flush sends, o the accumulator it begins with.                   *)

Flushed(o, n) ==
  LET w == Outcome(viewer, n.sent)
  IN  /\ NamesKnown(w, page, n.registry, n.pending)
      /\ Present(page) \subseteq n.scopes
      /\ ~reordered => \A s \in Present(page) : w.sources[s] = Collected(page, s)
      /\ OneAdded /\ Len(n.sent) <= 1 => w.copies <= viewer.copies + 1
      /\ OneAdded /\ Len(n.sent) <= 1 /\ (\A i \in 1 .. Len(records) : records[i] # "added")
           => w.copies = viewer.copies

LEMMA DrainTypes ==
  ASSUME NEW p, Shots(p), p.ops \in Seq(PageOp), p.page = page, NEW n, NEW d, d = Drain(p),
         n = [d EXCEPT !.sent = IF d.ops = <<>> THEN @
                                ELSE Append(@, [kind |-> "mutations", ops |-> d.ops])]
  PROVE  /\ Acc(n) /\ WireOK(n.sent) /\ n.pending = <<>> /\ n.page = page
         /\ n.registry = p.registry /\ n.scopes = p.scopes
         /\ p.pending # <<>> =>
              /\ Len(n.sent) = Len(p.sent) + 1
              /\ Outcome(viewer, n.sent) =
                   ApplyMutations(Outcome(viewer, p.sent), p.ops \o p.pending)
<1> DEFINE ops == p.ops \o p.pending
           m == [kind |-> "mutations", ops |-> ops]
<1>1. Acc(p) /\ Keyed(p.pending) /\ p.pending \in Seq(Change) /\ p.sent \in Seq(Picture)
  BY DEF Shots, Acc, Keyed
<1>2. ops \in Seq(Op) /\ Len(ops) = Len(p.ops) + Len(p.pending) /\ Len(p.ops) \in Nat /\ Len(p.pending) \in Nat
  <2>1. p.ops \in Seq(Op) /\ p.pending \in Seq(Op)
    BY <1>1 DEF Op
  <2> QED
    BY <2>1, ConcatFacts
<1>3. m \in Batch
  <2>1. ops \in BatchOps
    BY <1>1, <1>2 DEF BatchOps
  <2> HIDE DEF ops
  <2> QED
    BY <2>1 DEF Batch
<1>4. /\ DOMAIN d = AccFields /\ d.page = p.page /\ d.registry = p.registry
      /\ d.scopes = p.scopes /\ d.sent = p.sent /\ d.ops = ops /\ d.pending = <<>>
  BY <1>1 DEF Drain, Acc, AccFields
<1> HIDE DEF ops
<1>5. /\ DOMAIN n = AccFields /\ n.page = p.page /\ n.registry = p.registry
      /\ n.scopes = p.scopes /\ n.ops = ops /\ n.pending = <<>>
      /\ n.sent = IF ops = <<>> THEN p.sent ELSE Append(p.sent, m)
  <2> HIDE DEF m
  <2>1. n = [d EXCEPT !.sent = IF d.ops = <<>> THEN @ ELSE Append(@, m)]
    BY <1>4 DEF m
  <2> QED
    BY <1>4, <2>1 DEF AccFields
<1> HIDE DEF m
<1>6. /\ m.kind = "mutations" /\ m.ops = ops
      /\ \A i \in 1 .. Len(p.sent) : p.sent[i].kind = "snapshot"
  <2>1. m.kind = "mutations" /\ m.ops = ops
    BY DEF m
  <2>2. \A l \in Picture : l.kind = "snapshot"
    BY DEF Picture
  <2>3. \A i \in 1 .. Len(p.sent) : p.sent[i] \in Picture
    BY <1>1
  <2> QED
    BY <2>1, <2>2, <2>3
<1>7. WireOK(n.sent) /\ n.sent \in Seq(Picture \cup Batch)
  <2>1. CASE ops = <<>>
    BY <1>1, <1>5, <1>6, <2>1 DEF WireOK
  <2>2. CASE ops # <<>>
    <3> DEFINE w == Append(p.sent, m)
    <3>1. p.sent \in Seq(Picture \cup Batch) /\ m \in Picture \cup Batch
      BY <1>1, <1>3
    <3>2. w \in Seq(Picture \cup Batch) /\ Len(w) = Len(p.sent) + 1 /\ Len(p.sent) \in Nat
          /\ \A i \in 1 .. Len(p.sent) : w[i] = p.sent[i]
      BY <3>1, AppendFacts
    <3>3. n.sent = w
      BY <1>5, <2>2
    <3> HIDE DEF w
    <3>4. \A i \in 1 .. Len(w) - 1 : w[i].kind = "snapshot"
      BY <1>6, <3>2
    <3> QED
      BY <3>2, <3>3, <3>4 DEF WireOK
  <2> QED
    BY <2>1, <2>2
<1>8. Keyed(<<>>)
  BY DEF Keyed
<1>9. Acc(n)
  BY <1>1, <1>2, <1>5, <1>7, <1>8 DEF Acc
<1>10. ASSUME p.pending # <<>>
       PROVE  /\ Len(n.sent) = Len(p.sent) + 1
              /\ Outcome(viewer, n.sent) = ApplyMutations(Outcome(viewer, p.sent), ops)
  <2>1. ops # <<>>
    <3>1. Len(p.pending) # 0
      BY <1>1, <1>10
    <3>2. Len(ops) >= 1
      <4> DEFINE c == Len(p.ops)
                 e == Len(p.pending)
      <4>1. c \in Nat /\ e \in Nat /\ e # 0 /\ Len(ops) = c + e
        BY <1>2, <3>1
      <4> HIDE DEF c, e
      <4> QED
        BY <4>1
    <3>3. ASSUME ops = <<>> PROVE FALSE
      <4>1. Len(ops) = 0
        BY <3>3
      <4> QED
        BY <3>2, <4>1
    <3> QED
      BY <3>3
  <2>2. n.sent = Append(p.sent, m)
    BY <1>5, <2>1
  <2>3. Outcome(viewer, n.sent) = Receive(Outcome(viewer, p.sent), m)
    <3>1. Outcome(viewer, Append(p.sent, m)) = Receive(Outcome(viewer, p.sent), m)
      BY <1>1, OutcomeAppend
    <3> QED
      BY <2>2, <3>1
  <2> QED
    BY <1>1, <1>6, <2>2, <2>3 DEF Receive
<1> QED
  BY <1>5, <1>7, <1>9, <1>10 DEF ops

LEMMA DrainedFacts ==
  ASSUME Typed, wire = <<>>, NEW n, n = Drained(page)
  PROVE  /\ Acc(n) /\ WireOK(n.sent) /\ n.pending = <<>> /\ n.page = page
         /\ streaming /\ StylesOK => Flushed(Before(page), n)
<1> DEFINE o == Before(page)
           b == ProcessMutationBatch(o)
           p == Reconcile(b)
           d == Drain(p)
           a == p.ops
           q == p.pending
           v == Outcome(viewer, p.sent)
<1>1. /\ DOMAIN o = AccFields /\ o.page = page /\ o.registry = registry /\ o.scopes = scopes
      /\ o.pending = pending /\ o.ops = <<>> /\ o.sent = <<>>
  BY DEF Before, AccFields
<1>2. /\ n = [d EXCEPT !.sent = IF d.ops = <<>> THEN @
                                ELSE Append(@, [kind |-> "mutations", ops |-> d.ops])]
  BY Zenon DEF Drained
<1> HIDE DEF o
<1>3. Outcome(viewer, o.sent) = viewer
  BY <1>1 DEF Outcome
<1>4. Shots(o) /\ o.ops \in Seq(PageOp)
  <2>1. o.ops \in Seq(PageOp) /\ o.ops \in Seq(Op) /\ o.sent \in Seq(Picture) /\ o.sent \in Seq(Picture \cup Batch)
    BY <1>1
  <2>2. Acc(o)
    BY <1>1, <2>1 DEF Acc, Typed
  <2> QED
    BY <1>1, <1>3, <2>1, <2>2 DEF Shots
<1>5. records \in Seq(Record) /\ Len(records) \in Nat
  BY DEF Typed
<1>6. BatchUpto(o, o, 0)
  BY <1>1, <1>4 DEF BatchUpto
<1>7. BatchUpto(o, b, Len(records))
  BY <1>5, <1>6, BatchFacts
<1> HIDE DEF b
<1>8. /\ Shots(b) /\ b.page = page /\ b.ops \in Seq(PageOp)
      /\ \A i \in 1 .. Len(b.ops) : \E j \in 1 .. Len(records) : records[j] = b.ops[i].action
      /\ OneAdded => \A i, j \in 1 .. Len(b.ops) :
                       b.ops[i].action = "added" /\ b.ops[j].action = "added" => i = j
      /\ streaming /\ Held(o, viewer) => Held(b, Outcome(viewer, b.sent))
  BY <1>1, <1>3, <1>7 DEF BatchUpto
<1>9. /\ Shots(p) /\ p.page = page /\ p.ops = b.ops /\ p.sent = b.sent
      /\ \A x : Held(b, x) => Held(p, x)
      /\ \A scope \in b.scopes : Fresh(p, scope)
  BY <1>8, ReconcileFacts
<1> HIDE DEF p
<1>10. /\ Acc(n) /\ WireOK(n.sent) /\ n.pending = <<>> /\ n.page = page
       /\ n.registry = p.registry /\ n.scopes = p.scopes
       /\ q # <<>> =>
              /\ Len(n.sent) = Len(p.sent) + 1
              /\ Outcome(viewer, n.sent) = ApplyMutations(v, a \o q)
  <2> HIDE DEF d
  <2>1. d = Drain(p) /\ p.ops \in Seq(PageOp)
    BY <1>8, <1>9 DEF d
  <2> QED
    BY <1>2, <1>9, <2>1, DrainTypes, ZenonT(60)
<1>11. ASSUME streaming, StylesOK
       PROVE  Flushed(o, n)
  <2>1. Held(o, viewer)
    <3>1. W = viewer
      BY DEF W, Outcome
    <3> QED
      BY <1>1, <1>11, <3>1 DEF StylesOK, Held, Fits
  <2>2. Held(b, v) /\ Held(p, v)
    BY <1>8, <1>9, <1>11, <2>1
  <2>3. page \in Page /\ Present(page) \subseteq Scope /\ "document" \in Present(page)
        /\ (~page.host => Present(page) = {"document"}) /\ Scope = {"document", "shadow"}
    BY DEF Typed, Present, Scope
  <2>4. \A s \in Present(page) : Fresh(p, s)
    BY <1>8, <1>9, <2>2 DEF Held
  <2>5. Keyed(q) /\ a \in Seq(PageOp) /\ v \in Mirror /\ Acc(p)
    <3>1. v = IF p.sent = <<>> THEN viewer ELSE Shot(page)
      BY <1>9 DEF Shots
    <3>2. v \in Mirror
      BY <2>3, <3>1, ShotFacts DEF Typed
    <3> QED
      BY <1>8, <1>9, <3>2 DEF Shots, Acc
  <2>6. q # <<>>
    <3> DEFINE C == Collected(page, "document")
    <3>1. Len(C) \in Nat /\ Len(C) >= 1
      BY <2>3, CollectedFacts DEF Listed
    <3>2. 1 \in 1 .. Len(C)
      BY <3>1
    <3>3. PICK i \in 1 .. Len(q) : q[i] = Replacing(C[1])
      BY <1>9, <2>3, <2>4, <3>2 DEF Fresh
    <3>4. q # <<>> \/ Len(q) = 0
      OBVIOUS
    <3> QED
      BY <3>3, <3>4
  <2> DEFINE x == Outcome(viewer, n.sent)
  <2>7. Len(n.sent) = Len(p.sent) + 1 /\ x = ApplyMutations(v, a \o q)
    BY <1>10, <2>6
  <2>8. PICK y \in Mirror : PageKept(v, y, a, Len(a)) /\ PoolKept(y, x, q, Len(q))
    <3> HIDE DEF x, v, a, q
    <3> QED
      BY <2>5, <2>7, MutationFacts
  <2> HIDE DEF x, v
  <2>9. /\ \A s \in Present(page) : y.sources[s] = v.sources[s]
        /\ page.host => y.host
    <3>1. CASE page.host
      <4>1. \A i \in 1 .. Len(a) : a[i].action # "host"
        BY <1>8, <1>9, <1>11, <3>1 DEF StylesOK
      <4>2. y.host = v.host /\ y.sources = v.sources
        BY <2>8, <4>1 DEF PageKept
      <4> QED
        BY <1>9, <2>2, <3>1, <4>2 DEF Held, NamesKnown
    <3>2. CASE ~page.host
      BY <2>3, <2>8, <3>2 DEF PageKept
    <3> QED
      BY <3>1, <3>2
  <2>10. \A s \in Present(page) : Listed(v.sources[s], s) /\ Ids(v.sources[s]) \subseteq p.registry \cup Keys(q)
    BY <1>9, <2>2 DEF Held, NamesKnown
  <2>11. \A s \in Present(page) : s \in Scope /\ Held1(y, s)
    BY <2>3, <2>9, <2>10 DEF Held1
  <2>12. \A i \in 1 .. Len(q) : q[i].action = "replace" => q[i].source.id \in p.registry
    BY <2>2 DEF Held, NamesKnown
  <2>13. ASSUME NEW s \in Present(page)
         PROVE  Listed(x.sources[s], s) /\ Ids(x.sources[s]) \subseteq p.registry
    <3>1. ScopeKept(y, x, q, Len(q), s)
      BY <2>8, <2>11 DEF PoolKept
    <3>2. ASSUME NEW id \in Ids(x.sources[s]) PROVE id \in p.registry
      <4>1. CASE id \in Ids(y.sources[s]) /\ \A j \in 1 .. Len(q) : q[j].source.id # id
        BY <2>9, <2>10, <4>1 DEF Keys
      <4>2. CASE \E j \in 1 .. Len(q) : q[j].action = "replace" /\ q[j].source.id = id
        BY <2>12, <4>2
      <4> QED
        BY <3>1, <4>1, <4>2 DEF ScopeKept
    <3> QED
      BY <3>1, <3>2 DEF ScopeKept
  <2>14. NamesKnown(x, page, n.registry, n.pending)
    <3>1. x.host = y.host
      BY <2>8 DEF PoolKept
    <3>2. \A s \in Present(page) : Listed(x.sources[s], s) /\ Ids(x.sources[s]) \subseteq n.registry
      BY <1>10, <2>13
    <3>3. n.pending = <<>>
      BY <1>10
    <3> QED
      BY <2>9, <3>1, <3>2, <3>3 DEF NamesKnown
  <2>15. Present(page) \subseteq n.scopes
    BY <1>9, <1>10, <2>2 DEF Held
  <2>16. ASSUME ~reordered, NEW s \in Present(page)
         PROVE  x.sources[s] = Collected(page, s)
    <3> DEFINE C == Collected(page, s)
    <3>1. Listed(C, s) /\ DOMAIN C = 1 .. Len(C)
      <4>1. s \in Scope /\ page \in Page
        BY <2>3
      <4>2. Listed(C, s)
        BY <4>1, CollectedFacts
      <4> QED
        BY <4>2 DEF Listed
    <3>2. /\ \A id \in p.registry : id[1] = s => id \in Ids(C)
          /\ \A j \in 1 .. Len(C) : \E i \in 1 .. Len(q) : q[i] = Replacing(C[j])
      BY <1>9, <2>4 DEF Fresh
    <3>3. PoolFits(q, C, s)
      BY <1>9, <2>2, <2>3, <2>16 DEF Held, Fits
    <3> HIDE DEF C
    <3>4. Complete(q, C, s)
      BY <2>5, <3>1, <3>2, <3>3 DEF Complete
    <3>5. Ids(C) \subseteq Keys(q)
      <4>1. ASSUME NEW j \in 1 .. Len(C) PROVE C[j].id \in Keys(q)
        <5>1. PICK i \in 1 .. Len(q) : q[i] = Replacing(C[j])
          BY <3>2
        <5> QED
          BY <5>1 DEF Keys, Replacing
      <4> QED
        BY <3>1, <4>1 DEF Ids
    <3>6. \A id \in Ids(v.sources[s]) : id[1] = s
      BY <2>10 DEF Listed, Ids
    <3>7. Ids(y.sources[s]) \subseteq Keys(q)
      BY <2>9, <2>10, <3>2, <3>5, <3>6
    <3>8. x.sources[s] = C
      BY <2>8, <2>11, <3>4, <3>7, ExactlyShown
    <3> QED
      BY <3>8 DEF C
  <2>17. ASSUME OneAdded, Len(n.sent) <= 1
         PROVE  /\ x.copies <= viewer.copies + 1
                /\ (\A i \in 1 .. Len(records) : records[i] # "added") => x.copies = viewer.copies
    <3>1. v = viewer
      <4>1. p.sent \in Seq(Picture) /\ Len(p.sent) \in Nat
        BY <1>9 DEF Shots
      <4>2. p.sent = <<>>
        BY <2>7, <2>17, <4>1
      <4> QED
        BY <1>9, <4>2 DEF Shots, v
    <3>2. x.copies = y.copies
      BY <2>8 DEF PoolKept
    <3>3. \A i, j \in 1 .. Len(a) : a[i].action = "added" /\ a[j].action = "added" => i = j
      BY <1>8, <1>9, <2>17
    <3>4. y.copies <= v.copies + 1
      BY <2>8, <3>3 DEF PageKept
    <3>5. ASSUME \A i \in 1 .. Len(records) : records[i] # "added" PROVE y.copies = v.copies
      <4>1. \A i \in 1 .. Len(a) : a[i].action # "added"
        BY <1>8, <1>9, <3>5
      <4> QED
        BY <2>8, <4>1 DEF PageKept
    <3> QED
      BY <3>1, <3>2, <3>4, <3>5
  <2> QED
    BY <2>14, <2>15, <2>16, <2>17 DEF Flushed, x
<1> QED
  BY <1>10, <1>11 DEF o

-----------------------------------------------------------------------------
(* Changes of the page.                                                    *)

(* The names of a scope come from its sheets.                              *)
LEMMA NamesOfSheets ==
  ASSUME NEW pg \in Page, NEW new \in Page, new.sheets = pg.sheets,
         NEW q, NEW s \in Scope, PoolFits(q, Collected(pg, s), s)
  PROVE  PoolFits(q, Collected(new, s), s)
<1> DEFINE C == Collected(pg, s)
           D == Collected(new, s)
           here == pg.sheets[s]
<1>1. Listed(C, s) /\ Listed(D, s)
  BY CollectedFacts
<1>2. /\ Len(C) \in Nat /\ DOMAIN C = 1 .. Len(C) /\ Len(D) \in Nat /\ DOMAIN D = 1 .. Len(D)
  BY <1>1 DEF Listed
<1>3. here \in Seq(Sheet) /\ new.sheets[s] = here
  BY DEF Page
<1>4. DOMAIN C = DOMAIN D /\ \A i \in DOMAIN C : C[i].id = D[i].id
  <2>1. CASE here = <<>>
    BY <1>3, <2>1 DEF Collected
  <2>2. CASE here # <<>>
    <3>1. /\ C = [i \in DOMAIN here |-> Source(<<s, i - 1, Kind[here[i]]>>, pg.css[here[i]])]
          /\ D = [i \in DOMAIN here |-> Source(<<s, i - 1, Kind[here[i]]>>, new.css[here[i]])]
      BY <1>3, <2>2 DEF Collected
    <3>2. \A a, b : Source(a, b).id = a
      BY DEF Source
    <3> HIDE DEF C, D
    <3>3. /\ DOMAIN C = DOMAIN here /\ DOMAIN D = DOMAIN here
          /\ \A i \in DOMAIN here :
               /\ C[i] = Source(<<s, i - 1, Kind[here[i]]>>, pg.css[here[i]])
               /\ D[i] = Source(<<s, i - 1, Kind[here[i]]>>, new.css[here[i]])
      BY <3>1
    <3>4. ASSUME NEW i \in DOMAIN C PROVE C[i].id = D[i].id
      <4>1. i \in DOMAIN here
        BY <3>3
      <4>2. /\ C[i] = Source(<<s, i - 1, Kind[here[i]]>>, pg.css[here[i]])
            /\ D[i] = Source(<<s, i - 1, Kind[here[i]]>>, new.css[here[i]])
        BY <3>3, <4>1
      <4>3. C[i].id = <<s, i - 1, Kind[here[i]]>>
        BY <3>2, <4>2, Zenon
      <4>4. D[i].id = <<s, i - 1, Kind[here[i]]>>
        BY <3>2, <4>2, Zenon
      <4> QED
        BY <4>3, <4>4
    <3> QED
      BY <3>3, <3>4
  <2> QED
    BY <2>1, <2>2
<1> HIDE DEF C, D
<1>5. Len(C) = Len(D)
  <2>1. \A a, b \in Nat : 1 .. a = 1 .. b => a = b
    <3>1. SUFFICES ASSUME NEW a \in Nat, NEW b \in Nat, 1 .. a = 1 .. b, a < b PROVE FALSE
      OBVIOUS
    <3>2. b \in 1 .. b /\ b \notin 1 .. a
      BY <3>1
    <3> QED
      BY <3>1, <3>2
  <2> QED
    BY <1>2, <1>4, <2>1
<1>6. Ids(C) = Ids(D)
  BY <1>4 DEF Ids
<1>7. PoolFits(q, C, s)
  BY DEF C
<1>8. PoolFits(q, D, s)
  BY <1>2, <1>4, <1>5, <1>6, <1>7 DEF PoolFits
<1> QED
  BY <1>8 DEF D

LEMMA ObserveFacts ==
  ASSUME records \in Seq(Record), NEW r \in Record, Observe(r), timer \in BOOLEAN,
         ~streaming => records = <<>>
  PROVE  /\ records' \in Seq(Record) /\ timer' \in BOOLEAN
         /\ ~streaming => records' = <<>>
         /\ timer => timer'
         /\ streaming => /\ records' # <<>> /\ timer' /\ Len(records') = Len(records) + 1
                         /\ records'[Len(records) + 1] = r
                         /\ \A i \in 1 .. Len(records) : records'[i] = records[i]
<1>1. CASE streaming
  <2>1. records' = Append(records, r) /\ timer' = TRUE
    BY <1>1 DEF Observe
  <2> QED
    BY <1>1, <2>1, AppendFacts
<1>2. CASE ~streaming
  <2>1. records' = records /\ timer' = timer
    BY <1>2 DEF Observe
  <2> QED
    BY <1>2, <2>1
<1> QED
  BY <1>1, <1>2

(* A change of the page that is recorded and leaves the names alone.       *)
LEMMA RecordedChange ==
  ASSUME Inv, NEW r \in Record, Observe(r), page' \in Page,
         page'.sheets = page.sheets, page'.host => page.host,
         r = "host" => ~page'.host,
         r # "added" => page'.added = page.added,
         r = "added" => ~page.added /\ page'.added,
         writes' \in Nat,
         UNCHANGED <<registry, scopes, pending, streaming, wire, viewer, sessions, unseen,
                     reordered, resnapped>>
  PROVE  Inv'
<1>1. /\ records' \in Seq(Record) /\ timer' \in BOOLEAN
      /\ ~streaming => records' = <<>>
      /\ timer => timer'
      /\ streaming => /\ records' # <<>> /\ timer' /\ Len(records') = Len(records) + 1
                      /\ records'[Len(records) + 1] = r
                      /\ \A i \in 1 .. Len(records) : records'[i] = records[i]
  <2>1. /\ records \in Seq(Record) /\ timer \in BOOLEAN /\ (~streaming => records = <<>>)
    BY DEF Inv, Typed
  <2> QED
    BY <2>1, ObserveFacts
<1>2. Typed'
  BY <1>1 DEF Inv, Typed
<1>3. SUFFICES ASSUME streaming
               PROVE  StylesOK' /\ ElementOK' /\ PoolLeaves'
  BY <1>2 DEF Inv
<1>4. StylesOK /\ ElementOK /\ page \in Page /\ Len(records) \in Nat /\ W' = W
  BY <1>3 DEF Inv, Typed, W
<1>5. \A i \in 1 .. Len(records') : i \in 1 .. Len(records) \/ i = Len(records) + 1
  BY <1>1, <1>3, <1>4
<1>6. Present(page') \subseteq Present(page) /\ Present(page) \subseteq Scope
  BY DEF Present, Scope
<1>7. StylesOK'
  <2>1. Present(page') \subseteq scopes'
    BY <1>4, <1>6 DEF StylesOK
  <2>2. NamesKnown(W', page', registry', pending')
    BY <1>4, <1>6 DEF StylesOK, NamesKnown
  <2>3. \A i \in 1 .. Len(records') : records'[i] = "host" => ~page'.host
    BY <1>1, <1>3, <1>4, <1>5 DEF StylesOK
  <2>4. ~reordered' => \A s \in Scope : PoolFits(pending', Collected(page', s), s)
    <3>1. ~reordered => \A s \in Scope : PoolFits(pending, Collected(page, s), s)
      BY <1>4 DEF StylesOK
    <3> QED
      BY <1>4, <3>1, NamesOfSheets
  <2>5. records' # <<>>
    BY <1>1, <1>3
  <2> QED
    BY <2>1, <2>2, <2>3, <2>4, <2>5 DEF StylesOK
<1>8. ElementOK'
  <2>1. /\ \A i, j \in 1 .. Len(records) : records[i] = "added" /\ records[j] = "added" => i = j
        /\ \A i \in 1 .. Len(records) : records[i] = "added" => page.added
        /\ ~resnapped =>
             /\ W.copies <= 1
             /\ ~page.added => W.copies = 0
             /\ \A i \in 1 .. Len(records) : records[i] = "added" => W.copies = 0
    BY <1>4 DEF ElementOK
  <2>2. CASE r = "added"
    <3>1. \A i \in 1 .. Len(records) : records[i] # "added"
      BY <2>1, <2>2
    <3> QED
      BY <1>1, <1>3, <1>4, <1>5, <2>1, <2>2, <3>1 DEF ElementOK
  <2>3. CASE r # "added"
    BY <1>1, <1>3, <1>4, <1>5, <2>1, <2>3 DEF ElementOK
  <2> QED
    BY <2>2, <2>3
<1>9. PoolLeaves'
  BY <1>1, <1>3 DEF PoolLeaves
<1> QED
  BY <1>7, <1>8, <1>9

(* A sheet joins or leaves.                                                *)
LEMMA SheetsChange ==
  ASSUME Inv, NEW s \in Sheet, NEW after \in [Scope -> Seq(Sheet)], Written,
         ChangeSheets(s, after)
  PROVE  Inv'
<1>1. /\ page' = [page EXCEPT !.sheets = after]
      /\ reordered' = (reordered \/ pending # <<>>)
      /\ UNCHANGED <<replacing, registry, owner, scopes, pending, streaming, wire,
                     viewer, sessions, resnapped>>
      /\ wire = <<>> /\ writes' = writes + 1
      /\ \/ unseen' = TRUE /\ records' = records /\ timer' = timer
         \/ Observe("head") /\ unseen' = unseen
  BY DEF ChangeSheets, Written
<1>2. /\ records \in Seq(Record) /\ timer \in BOOLEAN /\ (~streaming => records = <<>>)
      /\ page \in Page /\ writes \in Nat /\ {unseen, reordered} \subseteq BOOLEAN
  BY DEF Inv, Typed
<1>3. /\ page' \in Page /\ page'.host = page.host /\ page'.added = page.added
  BY <1>1, <1>2 DEF Page
<1>4. /\ records' \in Seq(Record) /\ timer' \in BOOLEAN
      /\ ~streaming => records' = <<>>
      /\ timer => timer'
      /\ streaming => /\ unseen' \/ records' # <<>>
                      /\ \A i \in 1 .. Len(records') : \/ i \in 1 .. Len(records) /\ records'[i] = records[i]
                                                       \/ records'[i] = "head"
  <2>1. CASE unseen' = TRUE /\ records' = records /\ timer' = timer
    BY <1>2, <2>1
  <2>2. CASE Observe("head") /\ unseen' = unseen
    <3>1. "head" \in Record
      BY DEF Record
    <3>2. /\ records' \in Seq(Record) /\ timer' \in BOOLEAN
          /\ ~streaming => records' = <<>>
          /\ timer => timer'
          /\ streaming => /\ records' # <<>> /\ timer' /\ Len(records') = Len(records) + 1
                          /\ records'[Len(records) + 1] = "head"
                          /\ \A i \in 1 .. Len(records) : records'[i] = records[i]
      BY <1>2, <2>2, <3>1, ObserveFacts
    <3>3. Len(records) \in Nat
      BY <1>2
    <3>4. streaming => \A i \in 1 .. Len(records') : i \in 1 .. Len(records) \/ i = Len(records) + 1
      BY <3>2, <3>3
    <3> QED
      BY <3>2, <3>4
  <2> QED
    BY <1>1, <2>1, <2>2
<1>5. Typed'
  <2>1. unseen' \in BOOLEAN /\ reordered' \in BOOLEAN /\ writes' \in Nat
    <3>1. reordered' \in BOOLEAN
      BY <1>1, Zenon
    <3>2. unseen' \in BOOLEAN
      BY <1>1, <1>2, Zenon
    <3>3. writes' \in Nat
      BY <1>1, <1>2
    <3> QED
      BY <3>1, <3>2, <3>3
  <2> QED
    BY <1>1, <1>3, <1>4, <2>1 DEF Inv, Typed
<1>6. SUFFICES ASSUME streaming
               PROVE  StylesOK' /\ ElementOK' /\ PoolLeaves'
  BY <1>1, <1>5 DEF Inv
<1>7. StylesOK /\ ElementOK /\ PoolLeaves /\ W' = W
  BY <1>1, <1>6 DEF Inv, W
<1>8. Present(page') = Present(page)
  BY <1>3 DEF Present
<1>9. StylesOK'
  <2>1. Present(page') \subseteq scopes'
    BY <1>1, <1>7, <1>8 DEF StylesOK
  <2>2. NamesKnown(W', page', registry', pending')
    BY <1>1, <1>3, <1>7, <1>8 DEF StylesOK, NamesKnown
  <2>3. \A i \in 1 .. Len(records') : records'[i] = "host" => ~page'.host
    BY <1>3, <1>4, <1>6, <1>7 DEF StylesOK
  <2>4. ~reordered' => \A t \in Scope : PoolFits(pending', Collected(page', t), t)
    <3>1. ~reordered' => pending' = <<>>
      BY <1>1
    <3> QED
      BY <3>1 DEF PoolFits
  <2>5. unseen' \/ records' # <<>>
    BY <1>4, <1>6
  <2> QED
    BY <2>1, <2>2, <2>3, <2>4, <2>5 DEF StylesOK
<1>10. ElementOK'
  BY <1>1, <1>3, <1>4, <1>6, <1>7, SMTT(60) DEF ElementOK
<1>11. PoolLeaves'
  BY <1>1, <1>4, <1>7 DEF PoolLeaves
<1> QED
  BY <1>9, <1>10, <1>11

LEMMA AddSheetStep ==
  ASSUME Inv, NEW scope \in Scope, NEW s \in Sheet, NEW i \in 1 .. Cardinality(Sheet),
         AddSheet(scope, s, i)
  PROVE  Inv'
<1> DEFINE here == page.sheets[scope]
           after == [page.sheets EXCEPT ![scope] = InsertAt(@, i, s)]
<1>1. page.sheets \in [Scope -> Seq(Sheet)] /\ here \in Seq(Sheet)
  BY DEF Inv, Typed, Page
<1>2. Written /\ i \in 1 .. Len(here) + 1 /\ ChangeSheets(s, after)
  BY Zenon DEF AddSheet
<1> HIDE DEF here
<1>3. InsertAt(here, i, s) \in Seq(Sheet)
  <2>1. SubSeq(here, 1, i - 1) \in Seq(Sheet) /\ SubSeq(here, i, Len(here)) \in Seq(Sheet)
    BY <1>1, <1>2
  <2>2. <<s>> \in Seq(Sheet)
    OBVIOUS
  <2> HIDE DEF here
  <2> QED
    BY <2>1, <2>2, ConcatFacts DEF InsertAt
<1>4. after \in [Scope -> Seq(Sheet)]
  BY <1>1, <1>3 DEF here
<1> HIDE DEF after
<1> QED
  BY <1>2, <1>4, SheetsChange

LEMMA RemoveSheetStep ==
  ASSUME Inv, NEW scope \in Scope, NEW i \in 1 .. Cardinality(Sheet), RemoveSheet(scope, i)
  PROVE  Inv'
<1> DEFINE here == page.sheets[scope]
           after == [page.sheets EXCEPT ![scope] = RemoveAt(@, i)]
<1>1. page.sheets \in [Scope -> Seq(Sheet)] /\ here \in Seq(Sheet)
  BY DEF Inv, Typed, Page
<1>2. Written /\ i \in DOMAIN here /\ ChangeSheets(here[i], after)
  BY Zenon DEF RemoveSheet
<1>3. here[i] \in Sheet /\ i \in 1 .. Len(here)
  BY <1>1, <1>2
<1>4. RemoveAt(here, i) \in Seq(Sheet)
  BY <1>1, <1>3, RemoveAtFacts
<1>5. after \in [Scope -> Seq(Sheet)]
  BY <1>1, <1>4
<1> HIDE DEF after, here
<1> QED
  BY <1>2, <1>3, <1>5, SheetsChange

LEMMA MutateTextStep ==
  ASSUME Inv, NEW s \in Sheet, MutateText(s)
  PROVE  Inv'
<1>1. /\ page' = [page EXCEPT !.css[s] = writes'] /\ Observe(s) /\ writes' = writes + 1
      /\ UNCHANGED <<registry, scopes, pending, streaming, wire, viewer, sessions, unseen,
                     reordered, resnapped>>
  BY DEF MutateText, Written
<1>2. page \in Page /\ writes \in Nat
  BY DEF Inv, Typed
<1>3. /\ page' \in Page /\ page'.sheets = page.sheets /\ page'.host = page.host
      /\ page'.added = page.added
  <2>1. writes' \in Nat
    BY <1>1, <1>2
  <2> QED
    BY <1>1, <1>2, <2>1 DEF Page
<1>4. s \in Record /\ s # "host" /\ s # "added" /\ writes' \in Nat
  BY <1>1, <1>2, CssomAssumption DEF Record
<1> QED
  BY <1>1, <1>3, <1>4, RecordedChange

LEMMA AddElementStep ==
  ASSUME Inv, AddElement
  PROVE  Inv'
<1>1. /\ page' = [page EXCEPT !.added = TRUE] /\ Observe("added") /\ writes' = writes + 1
      /\ ~page.added
      /\ UNCHANGED <<registry, scopes, pending, streaming, wire, viewer, sessions, unseen,
                     reordered, resnapped>>
  BY DEF AddElement, Written
<1>2. page \in Page /\ writes \in Nat /\ "added" \in Record
  BY DEF Inv, Typed, Record
<1>3. /\ page' \in Page /\ page'.sheets = page.sheets /\ page'.host = page.host
      /\ page'.added /\ writes' \in Nat
  <2>1. DOMAIN page = {"sheets", "css", "host", "added"}
    BY <1>2 DEF Page
  <2>2. /\ page'.sheets = page.sheets /\ page'.css = page.css /\ page'.host = page.host
        /\ page'.added = TRUE /\ DOMAIN page' = {"sheets", "css", "host", "added"}
        /\ page' = [sheets |-> page.sheets, css |-> page.css, host |-> page.host, added |-> TRUE]
    BY <1>1, <1>2, <2>1 DEF Page
  <2>3. page' \in Page
    BY <1>2, <2>2, Zenon DEF Page
  <2> QED
    BY <1>1, <1>2, <2>2, <2>3
<1> QED
  BY <1>1, <1>2, <1>3, RecordedChange

LEMMA RemoveHostStep ==
  ASSUME Inv, RemoveHost
  PROVE  Inv'
<1>1. /\ page' = [page EXCEPT !.host = FALSE] /\ Observe("host") /\ writes' = writes + 1
      /\ UNCHANGED <<registry, scopes, pending, streaming, wire, viewer, sessions, unseen,
                     reordered, resnapped>>
  BY DEF RemoveHost, Written
<1>2. page \in Page /\ writes \in Nat /\ "host" \in Record
  BY DEF Inv, Typed, Record
<1>3. /\ page' \in Page /\ page'.sheets = page.sheets /\ ~page'.host
      /\ page'.added = page.added /\ writes' \in Nat
  <2>1. DOMAIN page = {"sheets", "css", "host", "added"}
    BY <1>2 DEF Page
  <2>2. /\ page'.sheets = page.sheets /\ page'.css = page.css /\ page'.host = FALSE
        /\ page'.added = page.added /\ DOMAIN page' = {"sheets", "css", "host", "added"}
        /\ page' = [sheets |-> page.sheets, css |-> page.css, host |-> FALSE, added |-> page.added]
    BY <1>1, <1>2, <2>1 DEF Page
  <2>3. page' \in Page
    BY <1>2, <2>2, Zenon DEF Page
  <2> QED
    BY <1>1, <1>2, <2>2, <2>3
<1> QED
  BY <1>1, <1>2, <1>3, RecordedChange

LEMMA CallReplaceStep ==
  ASSUME Inv, NEW s \in Sheet, CallReplace(s)
  PROVE  Inv'
<1>1. /\ writes' = writes + 1 /\ writes \in Nat
      /\ UNCHANGED <<page, records, registry, owner, scopes, pending, timer,
                     streaming, wire, viewer, sessions, unseen, reordered, resnapped>>
  BY DEF CallReplace, Written, Inv, Typed
<1>2. Typed'
  BY <1>1 DEF Inv, Typed
<1>3. W' = W
  BY <1>1 DEF W
<1>4. (StylesOK' <=> StylesOK) /\ (ElementOK' <=> ElementOK) /\ (PoolLeaves' <=> PoolLeaves)
  BY <1>1, <1>3 DEF StylesOK, ElementOK, PoolLeaves
<1> QED
  BY <1>1, <1>2, <1>4 DEF Inv

-----------------------------------------------------------------------------
(* What a patched method reports.                                          *)

LEMMA ReportFacts ==
  ASSUME Inv, wire = <<>>, NEW s, page' \in Page, page'.sheets = page.sheets,
         page'.host = page.host, page'.added = page.added, Report(page', s),
         writes' \in Nat, UNCHANGED <<records, streaming, viewer, sessions>>
  PROVE  Inv'
<1>01. PICK o : o = Before(page')
  OBVIOUS
<1>02. PICK p : p = MarkOwnerDirty(o, s)
  OBVIOUS
<1>1. /\ registry' = p.registry /\ scopes' = p.scopes /\ pending' = p.pending /\ wire' = p.sent
      /\ timer' = (timer \/ p.pending # pending)
      /\ unseen' = (unseen /\ p.sent = <<>>)
      /\ reordered' = (reordered /\ (p.sent = <<>> \/ pending # <<>>))
      /\ resnapped' = (resnapped \/ (p.sent # <<>> /\ records # <<>>))
  BY <1>01, <1>02, Zenon DEF Report, After
<1>2. /\ DOMAIN o = AccFields /\ o.page = page' /\ o.registry = registry /\ o.scopes = scopes
      /\ o.pending = pending /\ o.ops = <<>> /\ o.sent = <<>>
  BY <1>01 DEF Before, AccFields
<1>3. Outcome(viewer, o.sent) = viewer /\ W = viewer
  BY <1>2 DEF Outcome, W
<1>4. Shots(o)
  <2>1. o.ops \in Seq(Op) /\ o.sent \in Seq(Picture) /\ o.sent \in Seq(Picture \cup Batch)
    BY <1>2
  <2>2. Acc(o)
    BY <1>2, <2>1 DEF Acc, Inv, Typed
  <2> QED
    BY <1>2, <1>3, <2>1, <2>2 DEF Shots
<1>5. /\ Shots(p) /\ p.page = page' /\ p.ops = <<>>
      /\ streaming /\ Held(o, viewer) => Held(p, Outcome(viewer, p.sent))
      /\ \/ streaming /\ Len(p.sent) = 1 /\ p.sent # <<>> /\ p.pending = pending
         \/ ~streaming /\ p = o
         \/ p.sent = <<>> /\ (Held(o, viewer) => p.pending # <<>>)
  <2>2. Len(o.sent) + 1 = 1
    BY <1>2
  <2>3. /\ Shots(p) /\ p.page = o.page /\ p.ops = o.ops
        /\ streaming /\ Held(o, Outcome(viewer, o.sent)) => Held(p, Outcome(viewer, p.sent))
        /\ \/ streaming /\ Len(p.sent) = Len(o.sent) + 1 /\ p.sent # <<>> /\ p.pending = o.pending
           \/ ~streaming /\ p = o
           \/ p.sent = o.sent /\ (Held(o, Outcome(viewer, o.sent)) => p.pending # <<>>)
    BY <1>4, <1>02, MarkFacts
  <2> QED
    BY <1>2, <1>3, <2>2, <2>3
<1>6. Typed'
  <2>1. {timer', unseen', reordered', resnapped'} \subseteq BOOLEAN
    BY <1>1, Zenon
  <2>2. WireOK(wire')
    <3>1. p.sent \in Seq(Picture) /\ p.sent \in Seq(Picture \cup Batch)
      BY <1>5 DEF Shots, Acc
    <3>2. \A l \in Picture : l.kind = "snapshot"
      BY DEF Picture
    <3>3. Len(p.sent) \in Nat /\ \A i \in 1 .. Len(p.sent) : p.sent[i] \in Picture
      BY <3>1
    <3>4. \A i \in 1 .. Len(p.sent) - 1 : p.sent[i].kind = "snapshot"
      BY <3>2, <3>3
    <3> QED
      BY <1>1, <3>1, <3>4 DEF WireOK
  <2> QED
    BY <1>1, <1>5, <2>1, <2>2 DEF Inv, Typed, Shots, Acc
<1>7. SUFFICES ASSUME streaming
               PROVE  StylesOK' /\ ElementOK' /\ PoolLeaves'
  BY <1>6 DEF Inv
<1>8. StylesOK /\ ElementOK /\ PoolLeaves /\ page \in Page
  BY <1>7 DEF Inv, Typed
<1>9. Present(page') = Present(page)
  BY DEF Present
<1>10. Held(o, viewer)
  <2>1. NamesKnown(viewer, page', registry, pending)
    BY <1>3, <1>8, <1>9 DEF StylesOK, NamesKnown
  <2>2. Present(page') \subseteq scopes
    BY <1>8, <1>9 DEF StylesOK
  <2>3. ~reordered => \A t \in Scope : PoolFits(pending, Collected(page', t), t)
    BY <1>8, NamesOfSheets DEF StylesOK
  <2> QED
    BY <1>2, <2>1, <2>2, <2>3 DEF Held, Fits
<1>11. /\ Held(p, W') /\ W' = IF p.sent = <<>> THEN viewer ELSE Shot(page')
  <2>1. W' = Outcome(viewer, p.sent)
    BY <1>1 DEF W
  <2> QED
    BY <1>5, <1>7, <1>10, <2>1 DEF Shots
<1>12. StylesOK'
  <2>1. Present(page') \subseteq scopes'
    BY <1>1, <1>5, <1>11 DEF Held
  <2>2. NamesKnown(W', page', registry', pending')
    BY <1>1, <1>5, <1>11 DEF Held
  <2>3. \A i \in 1 .. Len(records') : records'[i] = "host" => ~page'.host
    BY <1>8 DEF StylesOK
  <2>4. ~reordered' => \A t \in Scope : PoolFits(pending', Collected(page', t), t)
    <3>1. CASE ~reordered
      BY <1>1, <1>5, <1>11, <3>1 DEF Held, Fits
    <3>2. CASE reordered
      <4>1. ~reordered' => p.sent # <<>> /\ pending = <<>>
        BY <1>1, <3>2, Zenon
      <4>2. p.sent # <<>> => p.pending = pending
        BY <1>2, <1>5
      <4>3. ~reordered' => pending' = <<>>
        BY <1>1, <4>1, <4>2
      <4> QED
        BY <4>3 DEF PoolFits
    <3> QED
      BY <3>1, <3>2
  <2>5. ASSUME pending' = <<>>
        PROVE  \A t \in Present(page') : W'.sources[t] = Collected(page', t)
    <3>1. p.sent # <<>>
      BY <1>1, <1>5, <1>7, <1>10, <2>5
    <3> QED
      BY <1>11, <3>1, ShotFacts
  <2> QED
    BY <2>1, <2>2, <2>3, <2>4, <2>5 DEF StylesOK
<1>13. ElementOK'
  <2>1. CASE p.sent = <<>>
    <3>1. W' = W /\ (resnapped' <=> resnapped)
      BY <1>1, <1>3, <1>11, <2>1
    <3> QED
      BY <1>8, <3>1 DEF ElementOK
  <2>2. CASE p.sent # <<>>
    <3>1. ~resnapped' => records' = <<>>
      BY <1>1, <2>2
    <3>2. W'.copies = IF page'.added THEN 1 ELSE 0
      BY <1>11, <2>2 DEF Shot
    <3>3. records' = <<>> => \A i \in 1 .. Len(records') : FALSE
      OBVIOUS
    <3> QED
      BY <1>8, <3>1, <3>2, <3>3 DEF ElementOK
  <2> QED
    BY <2>1, <2>2
<1>14. PoolLeaves'
  BY <1>1, <1>7, <1>8 DEF PoolLeaves
<1> QED
  BY <1>12, <1>13, <1>14

LEMMA CssChange ==
  ASSUME page \in Page, NEW s \in Sheet, NEW t \in Nat, page' = [page EXCEPT !.css[s] = t]
  PROVE  /\ page' \in Page /\ page'.sheets = page.sheets /\ page'.host = page.host
         /\ page'.added = page.added
BY DEF Page

LEMMA ReplaceSettlesStep ==
  ASSUME Inv, NEW s \in Sheet, ReplaceSettles(s)
  PROVE  Inv'
<1>1. /\ wire = <<>> /\ page' = [page EXCEPT !.css[s] = writes + 1] /\ writes' = writes + 1
      /\ Report(page', s) /\ UNCHANGED <<records, streaming, viewer, sessions>>
  BY DEF ReplaceSettles
<1>2. page \in Page /\ writes + 1 \in Nat
  BY DEF Inv, Typed
<1>3. /\ page' \in Page /\ page'.sheets = page.sheets /\ page'.host = page.host
      /\ page'.added = page.added
  BY <1>1, <1>2, CssChange
<1> QED
  BY <1>1, <1>2, <1>3, ReportFacts

LEMMA MutateRulesStep ==
  ASSUME Inv, NEW s \in Sheet, MutateRules(s)
  PROVE  Inv'
<1>1. /\ wire = <<>> /\ page' = [page EXCEPT !.css[s] = writes'] /\ writes' = writes + 1
      /\ UNCHANGED <<records, replacing, streaming, viewer, sessions>>
  BY DEF MutateRules, Written
<1>2. page \in Page /\ writes' \in Nat
  BY <1>1 DEF Inv, Typed
<1>3. /\ page' \in Page /\ page'.sheets = page.sheets /\ page'.host = page.host
      /\ page'.added = page.added
  BY <1>1, <1>2, CssChange
<1>4. CASE streaming
  <2>1. Report(page', s)
    BY <1>4 DEF MutateRules
  <2> QED
    BY <1>1, <1>2, <1>3, <2>1, ReportFacts
<1>5. CASE ~streaming
  <2>1. UNCHANGED <<registry, owner, scopes, pending, wire, timer, unseen, reordered, resnapped>>
    BY <1>5 DEF MutateRules
  <2> QED
    BY <1>1, <1>2, <1>3, <1>5, <2>1 DEF Inv, Typed
<1> QED
  BY <1>4, <1>5

-----------------------------------------------------------------------------
(* The capture and the viewer.                                             *)

LEMMA FlushStep ==
  ASSUME Inv, Flush
  PROVE  Inv'
<1>1. /\ timer /\ wire = <<>> /\ timer' = FALSE
      /\ UNCHANGED <<page, replacing, streaming, viewer, writes, sessions, reordered>>
  BY DEF Flush
<1>2. CASE records = <<>> /\ pending = <<>>
  <2>1. UNCHANGED <<registry, owner, scopes, pending, wire, records, unseen, resnapped>>
    BY <1>2 DEF Flush
  <2>2. W' = W
    BY <1>1, <2>1 DEF W
  <2>3. Typed'
    BY <1>1, <2>1 DEF Inv, Typed
  <2>4. streaming => StylesOK' /\ ElementOK'
    BY <1>1, <2>1, <2>2 DEF Inv, StylesOK, ElementOK
  <2>5. PoolLeaves'
    BY <1>2, <2>1 DEF PoolLeaves
  <2> QED
    BY <1>1, <2>3, <2>4, <2>5 DEF Inv
<1>3. CASE ~(records = <<>> /\ pending = <<>>)
  <2> DEFINE p == Drained(page)
  <2>1. /\ registry' = p.registry /\ scopes' = p.scopes /\ pending' = p.pending /\ wire' = p.sent
        /\ records' = <<>> /\ unseen' = FALSE
        /\ resnapped' = (resnapped \/ Len(p.sent) > 1)
    BY <1>3, Zenon DEF Flush, After
  <2>2. /\ Acc(p) /\ WireOK(p.sent) /\ p.pending = <<>> /\ p.page = page
        /\ streaming /\ StylesOK => Flushed(Before(page), p)
    BY <1>1, DrainedFacts DEF Inv
  <2> HIDE DEF p
  <2>3. Typed'
    <3>1. resnapped' \in BOOLEAN
      BY <2>1, Zenon
    <3>2. <<>> \in Seq(Record)
      OBVIOUS
    <3> QED
      BY <1>1, <2>1, <2>2, <3>1, <3>2 DEF Inv, Typed, Acc
  <2>4. SUFFICES ASSUME streaming
                 PROVE  StylesOK' /\ ElementOK' /\ PoolLeaves'
    BY <1>1, <2>3 DEF Inv
  <2>5. StylesOK /\ ElementOK /\ Flushed(Before(page), p)
    BY <2>2, <2>4 DEF Inv
  <2>6. W = viewer /\ W' = Outcome(viewer, p.sent)
    BY <1>1, <2>1 DEF W, Outcome
  <2>7. /\ NamesKnown(W', page, registry', pending')
        /\ Present(page) \subseteq scopes'
        /\ ~reordered => \A s \in Present(page) : W'.sources[s] = Collected(page, s)
        /\ OneAdded /\ Len(p.sent) <= 1 => W'.copies <= viewer.copies + 1
        /\ OneAdded /\ Len(p.sent) <= 1 /\ (\A i \in 1 .. Len(records) : records[i] # "added")
             => W'.copies = viewer.copies
    BY <2>1, <2>5, <2>6 DEF Flushed
  <2>8. \A i \in 1 .. Len(records') : FALSE
    BY <2>1
  <2>9. StylesOK'
    <3>1. \A s \in Scope : PoolFits(pending', Collected(page', s), s)
      BY <2>1, <2>2 DEF PoolFits
    <3> QED
      BY <1>1, <2>7, <2>8, <3>1 DEF StylesOK
  <2>10. ElementOK'
    <3>1. SUFFICES ASSUME ~resnapped' PROVE W'.copies <= 1 /\ (~page.added => W'.copies = 0)
      BY <1>1, <2>8 DEF ElementOK
    <3>2. ~resnapped /\ Len(p.sent) <= 1 /\ OneAdded
      <4>1. Len(p.sent) \in Nat
        BY <2>2 DEF Acc
      <4>2. ~resnapped /\ ~(Len(p.sent) > 1)
        BY <2>1, <3>1, Zenon
      <4>3. OneAdded
        BY <2>5, Zenon DEF ElementOK, OneAdded
      <4> QED
        BY <4>1, <4>2, <4>3
    <3>3. /\ viewer.copies <= 1 /\ (~page.added => viewer.copies = 0) /\ viewer.copies \in Nat
          /\ \A i \in 1 .. Len(records) : records[i] = "added" => page.added /\ viewer.copies = 0
      BY <2>5, <2>6, <3>2 DEF ElementOK, Inv, Typed, Mirror
    <3>4. CASE \A i \in 1 .. Len(records) : records[i] # "added"
      BY <2>7, <3>2, <3>3, <3>4
    <3>5. CASE \E i \in 1 .. Len(records) : records[i] = "added"
      <4>1. page.added /\ viewer.copies = 0
        BY <3>3, <3>5
      <4>2. W'.copies <= viewer.copies + 1
        BY <2>7, <3>2
      <4> QED
        BY <4>1, <4>2
    <3> QED
      BY <3>4, <3>5
  <2>11. PoolLeaves'
    BY <2>1, <2>2 DEF PoolLeaves
  <2> QED
    BY <2>9, <2>10, <2>11
<1> QED
  BY <1>2, <1>3

LEMMA StopStep ==
  ASSUME Inv, Stop
  PROVE  Inv'
<1>1. /\ wire = <<>> /\ records' = <<>> /\ timer' = FALSE /\ streaming' = FALSE
      /\ UNCHANGED <<page, replacing, viewer, writes, sessions, unseen, reordered, resnapped>>
  BY DEF Stop
<1>2. CASE records = <<>>
  <2>1. UNCHANGED <<registry, owner, scopes, pending, wire>>
    BY <1>2 DEF Stop
  <2> QED
    BY <1>1, <1>2, <2>1 DEF Inv, Typed
<1>3. CASE records # <<>>
  <2> DEFINE p == Drained(page)
  <2>1. registry' = p.registry /\ scopes' = p.scopes /\ pending' = p.pending /\ wire' = p.sent
    BY <1>3, Zenon DEF Stop, After
  <2>2. Acc(p) /\ WireOK(p.sent)
    BY <1>1, DrainedFacts DEF Inv
  <2> HIDE DEF p
  <2>3. <<>> \in Seq(Record)
    OBVIOUS
  <2> QED
    BY <1>1, <2>1, <2>2, <2>3 DEF Inv, Typed, Acc
<1> QED
  BY <1>2, <1>3

LEMMA StartStep ==
  ASSUME Inv, Start
  PROVE  Inv'
<1> DEFINE o == [page |-> page, registry |-> {}, scopes |-> {},
                 owner |-> [s \in Sheet |-> Unnamed], pending |-> <<>>,
                 ops |-> <<>>, sent |-> <<>>]
           p == Serialize(o)
<1>1. /\ ~streaming /\ wire = <<>> /\ sessions' = sessions + 1 /\ streaming' = TRUE
      /\ unseen' = FALSE /\ reordered' = FALSE /\ resnapped' = FALSE
      /\ UNCHANGED <<page, records, timer, replacing, viewer, writes>>
      /\ registry' = p.registry /\ scopes' = p.scopes /\ pending' = p.pending /\ wire' = p.sent
  BY Zenon DEF Start, After
<1>2. /\ DOMAIN o = AccFields /\ o.page = page /\ o.registry = {} /\ o.scopes = {}
      /\ o.pending = <<>> /\ o.ops = <<>> /\ o.sent = <<>>
  BY DEF AccFields
<1> HIDE DEF o
<1>3. Shots(o) /\ page \in Page
  <2>1. o.ops \in Seq(Op) /\ o.sent \in Seq(Picture) /\ o.sent \in Seq(Picture \cup Batch)
    BY <1>2
  <2>2. Keyed(o.pending)
    BY <1>2 DEF Keyed
  <2>3. IsFiniteSet(o.registry)
    BY <1>2, FS_EmptySet
  <2>4. page \in Page
    BY DEF Inv, Typed
  <2>5. Acc(o)
    BY <1>2, <2>1, <2>2, <2>3, <2>4 DEF Acc
  <2> QED
    BY <1>2, <2>1, <2>4, <2>5 DEF Shots, Outcome
<1>4. /\ Shots(p) /\ p.page = page /\ p.pending = <<>> /\ Len(p.sent) = 1 /\ p.sent # <<>>
      /\ p.scopes = Present(page)
      /\ \A s \in Present(page) : Ids(Collected(page, s)) \subseteq p.registry
  <2> HIDE DEF p
  <2>1. p = Serialize(o) /\ Acc(o) /\ Len(o.sent) = 0
    BY <1>2, <1>3 DEF p, Shots
  <2>2. /\ Shots(p) /\ p.page = o.page /\ p.pending = o.pending
        /\ Len(p.sent) = Len(o.sent) + 1 /\ p.sent # <<>>
    BY <1>3, <2>1, SerializeSteps
  <2>3. /\ \A s \in Present(o.page) : Ids(Collected(o.page, s)) \subseteq p.registry
        /\ p.scopes = o.scopes \cup Present(o.page)
    BY <2>1, SerializeFacts
  <2> QED
    BY <1>2, <2>1, <2>2, <2>3
<1> HIDE DEF p
<1>5. W' = Shot(page)
  BY <1>1, <1>4 DEF W, Shots
<1>6. Typed'
  <2>1. WireOK(wire')
    <3>1. p.sent \in Seq(Picture \cup Batch)
      BY <1>4 DEF Shots, Acc
    <3>2. \A i \in 1 .. Len(p.sent) - 1 : FALSE
      BY <1>4
    <3> QED
      BY <1>1, <3>1, <3>2 DEF WireOK
  <2>2. sessions' \in Nat
    BY <1>1 DEF Inv, Typed
  <2> QED
    BY <1>1, <1>4, <2>1, <2>2 DEF Inv, Typed, Shots, Acc
<1>7. records' = <<>> /\ \A i \in 1 .. Len(records') : FALSE
  BY <1>1 DEF Inv, Typed
<1>8. \A s \in Present(page) : W'.sources[s] = Collected(page, s) /\ s \in Scope
  BY <1>3, <1>5, ShotFacts DEF Present, Scope
<1>9. StylesOK'
  <2>1. NamesKnown(W', page', registry', pending')
    <3>1. \A s \in Present(page) : Listed(W'.sources[s], s) /\ Ids(W'.sources[s]) \subseteq registry'
      BY <1>1, <1>3, <1>4, <1>8, CollectedFacts
    <3>2. W'.host = page.host
      BY <1>5 DEF Shot
    <3> QED
      BY <1>1, <1>4, <3>1, <3>2 DEF NamesKnown
  <2>2. \A s \in Scope : PoolFits(pending', Collected(page', s), s)
    BY <1>1, <1>4 DEF PoolFits
  <2> QED
    BY <1>1, <1>4, <1>7, <1>8, <2>1, <2>2 DEF StylesOK
<1>10. ElementOK'
  <2>1. W'.copies = IF page.added THEN 1 ELSE 0
    BY <1>5 DEF Shot
  <2> QED
    BY <1>1, <1>7, <2>1 DEF ElementOK
<1>11. PoolLeaves'
  BY <1>1, <1>4 DEF PoolLeaves
<1> QED
  BY <1>6, <1>9, <1>10, <1>11 DEF Inv

LEMMA ReceiveTypes ==
  ASSUME NEW v \in Mirror, NEW m \in Picture \cup Batch
  PROVE  Receive(v, m) \in Mirror
<1>1. CASE m \in Picture
  <2>1. /\ m.kind = "snapshot" /\ m.host \in BOOLEAN /\ m.copies \in Nat
        /\ m.sources \in [Scope -> Seq(Src)]
    BY <1>1 DEF Picture
  <2>2. Receive(v, m) = [sources |-> m.sources, host |-> m.host, copies |-> m.copies, misses |-> 0]
    BY <2>1 DEF Receive
  <2> QED
    BY <2>1, <2>2 DEF Mirror
<1>2. CASE m \in Batch
  <2>1. m.kind = "mutations" /\ m.ops \in BatchOps
    BY <1>2 DEF Batch
  <2>2. PICK a \in Seq(PageOp), q \in Seq(Change) : Keyed(q) /\ m.ops = a \o q
    BY <2>1 DEF BatchOps
  <2> DEFINE x == ApplyMutations(v, m.ops)
  <2>3. x = ApplyMutations(v, a \o q)
    BY <2>2
  <2>4. Receive(v, m) = x
    BY <2>1 DEF Receive
  <2> HIDE DEF x
  <2>5. \E y \in Mirror : PageKept(v, y, a, Len(a)) /\ PoolKept(y, x, q, Len(q))
    BY <2>2, <2>3, MutationFacts
  <2> QED
    BY <2>4, <2>5 DEF PoolKept
<1> QED
  BY <1>1, <1>2

LEMMA TailFacts ==
  ASSUME NEW T, NEW s \in Seq(T), s # <<>>
  PROVE  /\ Tail(s) \in Seq(T) /\ Len(Tail(s)) = Len(s) - 1
         /\ \A i \in 1 .. Len(s) - 1 : Tail(s)[i] = s[i + 1]
         /\ Head(s) = s[1] /\ s[1] \in T
         /\ Tail(s) = <<>> <=> Len(s) = 1
<1>1. Len(s) \in Nat /\ Len(s) # 0
  OBVIOUS
<1>2. Tail(s) \in Seq(T) /\ Len(Tail(s)) = Len(s) - 1
  OBVIOUS
<1>3. \A i \in 1 .. Len(s) - 1 : Tail(s)[i] = s[i + 1]
  OBVIOUS
<1>4. Head(s) = s[1] /\ s[1] \in T
  BY <1>1
<1>5. Tail(s) = <<>> <=> Len(s) = 1
  BY <1>1, <1>2
<1> QED
  BY <1>2, <1>3, <1>4, <1>5

LEMMA DeliverStep ==
  ASSUME Inv, Deliver
  PROVE  Inv'
<1>1. /\ wire # <<>> /\ viewer' = Receive(viewer, Head(wire)) /\ wire' = Tail(wire)
      /\ UNCHANGED <<page, records, replacing, registry, owner, scopes, pending,
                     timer, streaming, writes, sessions, unseen, reordered, resnapped>>
  BY DEF Deliver
<1>2. /\ wire \in Seq(Picture \cup Batch) /\ Len(wire) \in Nat /\ Len(wire) # 0
      /\ \A i \in 1 .. Len(wire) - 1 : wire[i].kind = "snapshot"
      /\ viewer \in Mirror
  BY <1>1 DEF Inv, Typed, WireOK
<1> DEFINE w == wire
           t == Tail(wire)
<1>3. /\ t \in Seq(Picture \cup Batch) /\ Len(t) = Len(w) - 1
      /\ \A i \in 1 .. Len(w) - 1 : t[i] = w[i + 1]
      /\ Head(w) = w[1] /\ w[1] \in Picture \cup Batch
      /\ t = <<>> <=> Len(w) = 1
  BY <1>1, <1>2, TailFacts
<1>4. viewer' \in Mirror
  BY <1>1, <1>2, <1>3, ReceiveTypes
<1>5. WireOK(t)
  <2>1. \A i \in 1 .. Len(t) - 1 : t[i] = w[i + 1] /\ i + 1 \in 1 .. Len(w) - 1
    BY <1>2, <1>3
  <2> QED
    BY <1>2, <1>3, <2>1 DEF WireOK
<1>6. Typed'
  BY <1>1, <1>4, <1>5 DEF Inv, Typed
<1>7. W' = W
  <2>1. W = Receive(IF Len(w) = 1 THEN viewer ELSE Receive(viewer, w[Len(w) - 1]), w[Len(w)])
    BY <1>1 DEF W, Outcome
  <2>2. W' = Outcome(viewer', t)
    BY <1>1 DEF W
  <2>3. CASE Len(w) = 1
    <3>1. W' = viewer'
      BY <1>3, <2>2, <2>3 DEF Outcome
    <3> QED
      BY <1>1, <1>3, <2>1, <2>3, <3>1
  <2>4. CASE Len(w) # 1
    <3>1. t # <<>> /\ t[Len(t)] = w[Len(w)]
      BY <1>2, <1>3, <2>4
    <3>2. W' = Receive(IF Len(t) = 1 THEN viewer' ELSE Receive(viewer', t[Len(t) - 1]), w[Len(w)])
      BY <2>2, <3>1 DEF Outcome
    <3>3. CASE Len(t) = 1
      <4>1. Len(w) - 1 = 1
        BY <1>2, <1>3, <3>3
      <4> QED
        BY <1>1, <1>3, <2>1, <2>4, <3>2, <3>3, <4>1
    <3>4. CASE Len(t) # 1
      <4>1. /\ t[Len(t) - 1] = w[Len(w) - 1] /\ w[Len(w) - 1].kind = "snapshot"
        <5>1. Len(t) - 1 \in 1 .. Len(w) - 1 /\ (Len(t) - 1) + 1 = Len(w) - 1
              /\ Len(w) - 1 \in 1 .. Len(w) - 1
          BY <1>2, <1>3, <2>4, <3>4
        <5> QED
          BY <1>2, <1>3, <5>1
      <4> DEFINE l == w[Len(w) - 1]
      <4>2. \A y, z : Receive(y, l) = Receive(z, l)
        BY <4>1 DEF Receive
      <4>3. W' = Receive(Receive(viewer', l), w[Len(w)]) /\ W = Receive(Receive(viewer, l), w[Len(w)])
        BY <2>1, <2>4, <3>2, <3>4, <4>1
      <4> HIDE DEF l
      <4> QED
        BY <4>2, <4>3
    <3> QED
      BY <3>3, <3>4
  <2> QED
    BY <2>3, <2>4
<1>8. (StylesOK' <=> StylesOK) /\ (ElementOK' <=> ElementOK) /\ (PoolLeaves' <=> PoolLeaves)
  BY <1>1, <1>7 DEF StylesOK, ElementOK, PoolLeaves
<1> QED
  BY <1>1, <1>6, <1>8 DEF Inv

-----------------------------------------------------------------------------
(* The invariant.                                                          *)

LEMMA InitInv ==
  ASSUME Init
  PROVE  Inv
<1>1. /\ page = [sheets |-> FirstSheets, css |-> [s \in Sheet |-> 0],
                 host |-> TRUE, added |-> FALSE]
      /\ records = <<>> /\ registry = {} /\ scopes = {} /\ pending = <<>>
      /\ timer = FALSE /\ streaming = FALSE /\ wire = <<>>
      /\ viewer = [sources |-> [scope \in Scope |-> <<>>], host |-> FALSE,
                   copies |-> 0, misses |-> 0]
      /\ writes = 0 /\ sessions = 0
      /\ unseen = FALSE /\ reordered = FALSE /\ resnapped = FALSE
  BY DEF Init
<1>2. page \in Page
  BY <1>1, CssomAssumption DEF Page
<1>3. viewer \in Mirror
  BY <1>1 DEF Mirror
<1>4. WireOK(wire) /\ Keyed(pending)
  BY <1>1 DEF WireOK, Keyed
<1>5. IsFiniteSet(registry)
  BY <1>1, FS_EmptySet
<1>9. <<>> \in Seq(Record)
  OBVIOUS
<1>6. records \in Seq(Record) /\ {timer, streaming, unseen, reordered, resnapped} \subseteq BOOLEAN
  BY <1>1, <1>9
<1>7. registry \in SUBSET Id /\ scopes \in SUBSET Scope /\ writes \in Nat /\ sessions \in Nat
  BY <1>1
<1>8. Typed
  BY <1>1, <1>2, <1>3, <1>4, <1>5, <1>6, <1>7 DEF Typed
<1> QED
  BY <1>1, <1>8 DEF Inv

LEMMA NextInv ==
  ASSUME Inv, [Next]_vars
  PROVE  Inv'
<1>1. ASSUME NEW scope \in Scope, NEW s \in Sheet, NEW i \in 1 .. Cardinality(Sheet),
             AddSheet(scope, s, i)
      PROVE  Inv'
  BY <1>1, AddSheetStep
<1>2. ASSUME NEW scope \in Scope, NEW i \in 1 .. Cardinality(Sheet), RemoveSheet(scope, i)
      PROVE  Inv'
  BY <1>2, RemoveSheetStep
<1>3. ASSUME NEW s \in Sheet, MutateRules(s) PROVE Inv'
  BY <1>3, MutateRulesStep
<1>4. ASSUME NEW s \in Sheet, CallReplace(s) PROVE Inv'
  BY <1>4, CallReplaceStep
<1>5. ASSUME NEW s \in Sheet, ReplaceSettles(s) PROVE Inv'
  BY <1>5, ReplaceSettlesStep
<1>6. ASSUME NEW s \in Sheet, MutateText(s) PROVE Inv'
  BY <1>6, MutateTextStep
<1>7. CASE AddElement
  BY <1>7, AddElementStep
<1>8. CASE RemoveHost
  BY <1>8, RemoveHostStep
<1>9. CASE Flush
  BY <1>9, FlushStep
<1>10. CASE Stop
  BY <1>10, StopStep
<1>11. CASE Start
  BY <1>11, StartStep
<1>12. CASE Deliver
  BY <1>12, DeliverStep
<1>13. CASE UNCHANGED vars
  <2>1. UNCHANGED vars
    BY <1>13
  <2>2. W' = W
    BY <2>1 DEF W, vars
  <2>3. (Typed' <=> Typed) /\ (StylesOK' <=> StylesOK) /\ (ElementOK' <=> ElementOK)
        /\ (PoolLeaves' <=> PoolLeaves)
    BY <2>1, <2>2 DEF vars, Typed, StylesOK, ElementOK, PoolLeaves
  <2> QED
    BY <2>1, <2>3 DEF Inv, vars
<1> QED
  BY <1>1, <1>2, <1>3, <1>4, <1>5, <1>6, <1>7, <1>8, <1>9, <1>10, <1>11, <1>12, <1>13 DEF Next

LEMMA AlwaysInv == Spec => []Inv
<1>1. Init => Inv
  BY InitInv
<1>2. Inv /\ [Next]_vars => Inv'
  BY NextInv
<1> QED
  BY <1>1, <1>2, PTL DEF Spec

(* Whatever rule changes, replacements, records, snapshots and flushes     *)
(* were interleaved, once the pools are empty the viewer shows the sheets  *)
(* of every scope in the page's cascade order, but for the two gaps that   *)
(* StylesMatch names: reconcileAdoptedStyleSheetsForScope and              *)
(* queueStyleScopeReplacement, against the viewer's replacement of styles. *)
THEOREM StylesAlwaysMatch == Spec => []StylesMatch
<1>1. Inv => StylesMatch
  <2>1. ASSUME Inv, Settled, ~unseen, ~reordered, NEW scope \in Present(page)
        PROVE  viewer.sources[scope] = Collected(page, scope)
    <3>1. streaming /\ records = <<>> /\ pending = <<>> /\ W = viewer
      BY <2>1 DEF Settled, W, Outcome
    <3> QED
      BY <2>1, <3>1 DEF Inv, StylesOK
  <2> QED
    BY <2>1 DEF StylesMatch
<1> QED
  BY <1>1, AlwaysInv, PTL

(* While the stream runs, no pooled style change is without a flush to     *)
(* come: queueStyleSourceChange schedules one, a batch drains what is      *)
(* pooled inside it, and start() begins with an empty pool.                *)
THEOREM PoolAlwaysLeaves == Spec => []PoolLeaves
<1>1. Inv => PoolLeaves
  BY DEF Inv, PoolLeaves
<1> QED
  BY <1>1, AlwaysInv, PTL

(* The viewer shows an element added once more than once only where a      *)
(* snapshot of sendCssomFreshSnapshot left pooled records behind it.       *)
THEOREM ElementAlwaysShownOnce == Spec => []ElementShownOnce
<1>1. Inv => ElementShownOnce
  <2>1. ASSUME Inv, Settled, ~resnapped PROVE ~(viewer.copies > 1)
    <3>1. streaming /\ W = viewer /\ viewer.copies \in Nat
      BY <2>1 DEF Settled, W, Outcome, Inv, Typed, Mirror
    <3>2. W.copies <= 1
      BY <2>1, <3>1 DEF Inv, ElementOK
    <3> QED
      BY <3>1, <3>2
  <2> QED
    BY <2>1 DEF ElementShownOnce
<1> QED
  BY <1>1, AlwaysInv, PTL
=============================================================================
