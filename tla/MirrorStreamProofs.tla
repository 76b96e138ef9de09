------------------------- MODULE MirrorStreamProofs -------------------------
(***************************************************************************)
(* Proofs about MirrorStream.                                              *)
(***************************************************************************)
EXTENDS MirrorStream, FiniteSetTheorems, SequenceTheorems,
        WellFoundedInduction, TLAPS

-----------------------------------------------------------------------------
(* Places in a sequence.  Rank is how many of S come before a place.       *)

Rank(S, i) == Cardinality({j \in S : j < i})

LEMMA Counted ==
  ASSUME NEW n \in Nat, NEW S \in SUBSET (1 .. n), NEW T \in SUBSET S
  PROVE  /\ IsFiniteSet(T) /\ Cardinality(T) \in Nat /\ Cardinality(S) \in Nat
         /\ Cardinality(T) <= Cardinality(S)
<1>1. IsFiniteSet(1 .. n)
  BY FS_Interval
<1>2. IsFiniteSet(S)
  BY <1>1, FS_Subset
<1> QED
  BY <1>2, FS_Subset, FS_CardinalityType

LEMMA RankBelow ==
  ASSUME NEW n \in Nat, NEW S \in SUBSET (1 .. n), NEW i \in S, NEW k \in Nat, i < k
  PROVE  Rank(S, i) \in Nat /\ Rank(S, k) \in Nat /\ Rank(S, i) < Rank(S, k)
<1> DEFINE A == {j \in S : j < i}
           B == {j \in S : j < k}
<1>0. \A j \in S : j \in Nat
  OBVIOUS
<1>1. /\ IsFiniteSet(A) /\ Cardinality(A) \in Nat
      /\ IsFiniteSet(B) /\ Cardinality(B) \in Nat
  BY Counted
<1>2. i \notin A /\ A \cup {i} \in SUBSET B
  <2>1. \A j \in A : j \in S /\ j < k /\ j # i
    BY <1>0
  <2>2. i \in B
    OBVIOUS
  <2> QED
    BY <2>1, <2>2
<1>3. Cardinality(A \cup {i}) = Cardinality(A) + 1
  BY <1>1, <1>2, FS_AddElement
<1>4. Cardinality(A \cup {i}) <= Cardinality(B)
  BY <1>1, <1>2, FS_Subset
<1> QED
  BY <1>1, <1>3, <1>4 DEF Rank

LEMMA RankRange ==
  ASSUME NEW n \in Nat, NEW S \in SUBSET (1 .. n), NEW i \in S
  PROVE  Rank(S, i) \in 0 .. Cardinality(S) - 1
<1>0. n + 1 \in Nat /\ \A j \in S : j \in Nat /\ j < n + 1
  OBVIOUS
<1>1. Rank(S, i) < Rank(S, n + 1) /\ Rank(S, i) \in Nat
  BY <1>0, RankBelow
<1>2. {j \in S : j < n + 1} = S
  BY <1>0
<1>3. Rank(S, n + 1) = Cardinality(S) /\ Cardinality(S) \in Nat
  BY <1>2, Counted DEF Rank
<1> QED
  BY <1>1, <1>3

(* Every rank is that of one place.                                        *)
LEMMA RankHit ==
  ASSUME NEW n \in Nat, NEW S \in SUBSET (1 .. n), NEW k \in 1 .. Cardinality(S)
  PROVE  \E i \in S : Rank(S, i) = k - 1
<1> DEFINE c == Cardinality(S)
           f == [i \in S |-> Rank(S, i)]
<1>1. c \in Nat /\ IsFiniteSet(S)
  BY Counted
<1>2. f \in [S -> 0 .. c - 1]
  BY RankRange
<1>3. \A i, j \in S : f[i] = f[j] => i = j
  <2>0. \A j \in S : j \in Nat
    OBVIOUS
  <2> SUFFICES ASSUME NEW i \in S, NEW j \in S, i < j PROVE f[i] # f[j]
    BY <2>0
  <2>1. Rank(S, i) \in Nat /\ Rank(S, j) \in Nat /\ Rank(S, i) < Rank(S, j)
    BY <2>0, RankBelow
  <2> QED
    BY <2>1
<1>4. f \in Injection(S, 0 .. c - 1)
  BY <1>2, <1>3 DEF Injection, IsInjective
<1>5. IsFiniteSet(0 .. c - 1) /\ Cardinality(0 .. c - 1) = c
  <2> HIDE DEF c
  <2>1. c \in Nat
    BY <1>1 DEF c
  <2> QED
    BY <2>1, FS_Interval
<1>6. f \in Surjection(S, 0 .. c - 1)
  BY <1>4, <1>5, FS_Injection
<1>7. k - 1 \in 0 .. c - 1
  BY <1>1
<1> QED
  BY <1>6, <1>7 DEF Surjection

LEMMA NthFacts ==
  ASSUME NEW n \in Nat, NEW S \in SUBSET (1 .. n)
  PROVE  /\ Cardinality(S) \in Nat
         /\ \A k \in 1 .. Cardinality(S) : Nth(S, k) \in S /\ Rank(S, Nth(S, k)) = k - 1
         /\ \A k, l \in 1 .. Cardinality(S) : k < l => Nth(S, k) < Nth(S, l)
         /\ \A k \in S : 1 .. k \subseteq S =>
              k \in 1 .. Cardinality(S) /\ Nth(S, k) = k
<1>0. \A j \in S : j \in 1 .. n /\ j \in Nat
  OBVIOUS
<1>1. Cardinality(S) \in Nat
  BY Counted
<1>2. ASSUME NEW k \in 1 .. Cardinality(S)
      PROVE  Nth(S, k) \in S /\ Rank(S, Nth(S, k)) = k - 1
  BY RankHit DEF Nth, Rank
<1>3. ASSUME NEW k \in 1 .. Cardinality(S), NEW l \in 1 .. Cardinality(S), k < l
      PROVE  Nth(S, k) < Nth(S, l)
  <2>1. /\ Nth(S, k) \in S /\ Rank(S, Nth(S, k)) = k - 1
        /\ Nth(S, l) \in S /\ Rank(S, Nth(S, l)) = l - 1
    BY <1>2
  <2>2. CASE Nth(S, l) < Nth(S, k)
    <3>1. Rank(S, Nth(S, l)) < Rank(S, Nth(S, k))
      BY <1>0, <2>1, <2>2, RankBelow
    <3> QED
      BY <1>1, <1>3, <2>1, <3>1
  <2>3. CASE Nth(S, l) = Nth(S, k)
    BY <1>1, <1>3, <2>1, <2>3
  <2>4. Nth(S, k) \in Nat /\ Nth(S, l) \in Nat
    BY <1>0, <2>1
  <2> QED
    BY <2>2, <2>3, <2>4
<1>4. ASSUME NEW k \in S, 1 .. k \subseteq S
      PROVE  k \in 1 .. Cardinality(S) /\ Nth(S, k) = k
  <2>0. k \in 1 .. n
    BY <1>0
  <2>1. {j \in S : j < k} = 1 .. k - 1
    <3>1. \A j \in S : j < k => j \in 1 .. k - 1
      BY <1>0, <2>0
    <3>2. \A j \in 1 .. k - 1 : j \in 1 .. k /\ j < k
      BY <2>0
    <3> QED
      BY <1>4, <3>1, <3>2
  <2>2. Rank(S, k) = k - 1
    <3>1. Cardinality(1 .. k - 1) = k - 1
      BY <2>0, FS_Interval
    <3> QED
      BY <2>1, <3>1 DEF Rank
  <2>3. k \in 1 .. Cardinality(S)
    <3>1. Rank(S, k) \in 0 .. Cardinality(S) - 1
      BY RankRange
    <3> QED
      BY <1>1, <2>0, <2>2, <3>1
  <2>4. Nth(S, k) \in S /\ Rank(S, Nth(S, k)) = Rank(S, k)
    BY <1>2, <2>2, <2>3
  <2>5. Nth(S, k) \in Nat /\ k \in Nat
    BY <1>0, <2>4
  <2>6. CASE Nth(S, k) < k
    <3>1. Rank(S, Nth(S, k)) < Rank(S, k) /\ Rank(S, k) \in Nat
      BY <2>4, <2>5, <2>6, RankBelow
    <3> QED
      BY <2>4, <3>1
  <2>7. CASE k < Nth(S, k)
    <3>1. Rank(S, k) < Rank(S, Nth(S, k)) /\ Rank(S, k) \in Nat
      BY <2>4, <2>5, <2>7, RankBelow
    <3> QED
      BY <2>4, <3>1
  <2> QED
    BY <2>3, <2>5, <2>6, <2>7
<1> QED
  BY <1>1, <1>2, <1>3, <1>4

-----------------------------------------------------------------------------
(* The order of the page's elements.  Spot is an element's place in it.    *)

Spot(x) == CHOOSE i \in DOMAIN Order : Order[i] = x

LEMMA Worked == ASSUME NEW f PROVE Evaluated(f) = f
  BY DEF Evaluated

LEMMA OrderFacts ==
  /\ Len(Order) \in Nat /\ DOMAIN Order = 1 .. Len(Order)
  /\ \A i \in 1 .. Len(Order) : Order[i] \in Element
  /\ \A i, j \in 1 .. Len(Order) : Order[i] = Order[j] => i = j
  /\ Top \in Element
<1>1. Order \in Seq(Element) /\ Order # <<>> /\ IsInjective(Order)
  BY PageAssumption
<1>2. Len(Order) \in Nat \ {0} /\ DOMAIN Order = 1 .. Len(Order)
  BY <1>1, EmptySeq
<1>3. \A i \in 1 .. Len(Order) : Order[i] \in Element
  BY <1>1
<1>4. 1 \in 1 .. Len(Order)
  BY <1>2
<1> QED
  BY <1>1, <1>2, <1>3, <1>4 DEF IsInjective, Top

LEMMA SpotFacts ==
  /\ \A x \in Element : Spot(x) \in 1 .. Len(Order) /\ Order[Spot(x)] = x
  /\ \A i \in 1 .. Len(Order) : Spot(Order[i]) = i
<1>1. ASSUME NEW x \in Element PROVE Spot(x) \in 1 .. Len(Order) /\ Order[Spot(x)] = x
  <2>1. \E i \in DOMAIN Order : Order[i] = x
    BY DEF Element, ToSet
  <2> QED
    BY <2>1, OrderFacts DEF Spot
<1> QED
  BY <1>1, OrderFacts

(* What an element is in comes before it.                                  *)
LEMMA BelowFacts ==
  ASSUME NEW y, NEW x \in Below(y)
  PROVE  x \in Element /\ y \in Element /\ x # y /\ Spot(y) < Spot(x)
<1>1. x \in Element /\ x # y /\ y \in Chain[x]
  BY DEF Below
<1>2. Spot(x) \in 1 .. Len(Order) /\ Order[Spot(x)] = x
  BY <1>1, SpotFacts
<1>3. PICK j \in 1 .. Spot(x) : Order[j] = y
  BY <1>1, <1>2, OrderFacts, PageAssumption
<1>4. j \in 1 .. Len(Order)
  BY <1>2, <1>3, OrderFacts
<1> QED
  BY <1>1, <1>2, <1>3, <1>4, OrderFacts, SpotFacts

LEMMA AfterFacts ==
  ASSUME NEW S, NEW y \in S, y \in Element, NEW x \in Element, Spot(y) < Spot(x)
  PROVE  x \in After(S)
<1>1. Spot(x) \in DOMAIN Order /\ Order[Spot(x)] = x
  BY SpotFacts, OrderFacts
<1>2. Spot(y) \in 1 .. Spot(x) - 1 /\ Order[Spot(y)] = y
  BY SpotFacts, OrderFacts
<1> QED
  BY <1>1, <1>2 DEF After

-----------------------------------------------------------------------------
(* Markup.                                                                 *)

IsNode(n) ==
  /\ n = [f \in {"el", "box", "has"} |-> n[f]]
  /\ n.has = [a \in Attr |-> n.has[a]]
  /\ n.el \in Element \cup {Stray} /\ n.box \in BOOLEAN

IsSeq(s) == Len(s) \in Nat /\ s = [i \in 1 .. Len(s) |-> s[i]]
IsMarkup(nodes) == IsSeq(nodes) /\ \A i \in 1 .. Len(nodes) : IsNode(nodes[i])

LEMMA SeqOfFunction ==
  ASSUME NEW n \in Nat, NEW f, DOMAIN f = 1 .. n, f = [i \in 1 .. n |-> f[i]]
  PROVE  IsSeq(f) /\ Len(f) = n
<1>1. f \in Seq({f[i] : i \in 1 .. n})
  OBVIOUS
<1>2. Len(f) = n
  BY <1>1
<1> QED
  BY <1>2 DEF IsSeq

(* The elements of a set, in their order, and those at a start of it.      *)
LEMMA PickFacts ==
  ASSUME NEW s, IsSeq(s), NEW S \in SUBSET (1 .. Len(s))
  PROVE  /\ IsSeq(Pick(s, S)) /\ Len(Pick(s, S)) = Cardinality(S)
         /\ \A k \in 1 .. Len(Pick(s, S)) : Nth(S, k) \in S /\ Pick(s, S)[k] = s[Nth(S, k)]
         /\ \A k \in S : 1 .. k \subseteq S => k \in 1 .. Len(Pick(s, S)) /\ Pick(s, S)[k] = s[k]
<1> DEFINE f == Pick(s, S)
           n == Cardinality(S)
<1>1. Len(s) \in Nat
  BY DEF IsSeq
<1>2. /\ n \in Nat
      /\ \A k \in 1 .. n : Nth(S, k) \in S
      /\ \A k \in S : 1 .. k \subseteq S => k \in 1 .. n /\ Nth(S, k) = k
  BY <1>1, NthFacts
<1>3. f = [k \in 1 .. n |-> s[Nth(S, k)]]
  BY DEF Pick
<1> HIDE DEF f, n
<1>4. DOMAIN f = 1 .. n /\ f = [i \in 1 .. n |-> f[i]]
  BY <1>3
<1>5. IsSeq(f) /\ Len(f) = n
  BY <1>2, <1>4, SeqOfFunction
<1> QED
  BY <1>2, <1>3, <1>5 DEF f, n

(* The first of a set of places, and the last.                             *)
LEMMA FirstAndLast ==
  ASSUME NEW n \in Nat, NEW S \in SUBSET (1 .. n), S # {}
  PROVE  /\ \E i \in S : \A j \in S : i <= j
         /\ \E i \in S : \A j \in S : j <= i
<1>0. \A j \in S : j \in Nat /\ j \in 1 .. n
  OBVIOUS
<1>1. Cardinality(S) \in Nat /\ IsFiniteSet(S)
  BY Counted
<1>2. Cardinality(S) # 0
  BY <1>1, FS_EmptySet
<1> DEFINE c == Cardinality(S)
<1>3. 1 \in 1 .. c /\ c \in 1 .. c
  BY <1>1, <1>2
<1>4. \A k \in 1 .. c : Nth(S, k) \in S /\ Rank(S, Nth(S, k)) = k - 1
  BY NthFacts
<1>5. ASSUME NEW j \in S PROVE Nth(S, 1) <= j
  <2>1. Nth(S, 1) \in S /\ Rank(S, Nth(S, 1)) = 0
    BY <1>3, <1>4
  <2>2. CASE j < Nth(S, 1)
    <3>1. Rank(S, j) \in Nat /\ Rank(S, j) < Rank(S, Nth(S, 1))
      BY <1>0, <2>1, <2>2, RankBelow
    <3> QED
      BY <2>1, <3>1
  <2>3. Nth(S, 1) \in Nat /\ j \in Nat
    BY <1>0, <2>1
  <2> QED
    BY <2>2, <2>3
<1>6. ASSUME NEW j \in S PROVE j <= Nth(S, c)
  <2>1. Nth(S, c) \in S /\ Rank(S, Nth(S, c)) = c - 1
    BY <1>3, <1>4
  <2>2. CASE Nth(S, c) < j
    <3>1. Rank(S, Nth(S, c)) < Rank(S, j)
      BY <1>0, <2>1, <2>2, RankBelow
    <3>2. Rank(S, j) \in 0 .. c - 1
      BY RankRange
    <3> QED
      BY <1>1, <2>1, <3>1, <3>2
  <2>3. Nth(S, c) \in Nat /\ j \in Nat
    BY <1>0, <2>1
  <2> QED
    BY <2>2, <2>3
<1> QED
  BY <1>3, <1>4, <1>5, <1>6

LEMMA NodeShape ==
  ASSUME NEW x \in Element \cup {Stray}, NEW b \in BOOLEAN, NEW h, h = [a \in Attr |-> h[a]]
  PROVE  IsNode([el |-> x, box |-> b, has |-> h])
  BY DEF IsNode

(* What the gates may make of a node.                                      *)
LEMMA UnavailableKeeps ==
  ASSUME NEW n, IsNode(n)
  PROVE  /\ IsNode(AssetUnavailable(n))
         /\ AssetUnavailable(n).el = n.el /\ AssetUnavailable(n).box
  BY DEF IsNode, AssetUnavailable, NoAssets

-----------------------------------------------------------------------------
(* The gates.  A node is clean if it has no url the rules deny it; only    *)
(* what is not in S may be a source with a srcset nobody looked at.        *)

Clean(r, n, S) ==
  /\ IsNode(n)
  /\ \A attr \in Fetched(n) :
       Denied(r, n, attr) => n.el \notin S /\ Tag[n.el] = "source" /\ attr = "srcset"

LEMMA FetchedFacts ==
  ASSUME NEW n
  PROVE  /\ Fetched(n) \in SUBSET Attr
         /\ n.box \/ n.el = Stray => Fetched(n) = {}
         /\ \A attr \in Fetched(n) :
              \/ Tag[n.el] = "video" /\ attr \in {"src", "poster"}
              \/ Tag[n.el] = "img" /\ attr \in {"src", "srcset"}
              \/ Tag[n.el] = "source" /\ attr \in {"src", "srcset"}
<1>1. Fetched(n) \in SUBSET Attr
  BY DEF Fetched, Attr
<1>2. n.box \/ n.el = Stray => Fetched(n) = {}
  BY DEF Fetched
<1>3. ASSUME NEW attr \in Fetched(n)
      PROVE  \/ Tag[n.el] = "video" /\ attr \in {"src", "poster"}
             \/ Tag[n.el] = "img" /\ attr \in {"src", "srcset"}
             \/ Tag[n.el] = "source" /\ attr \in {"src", "srcset"}
  BY DEF Fetched
<1> QED
  BY <1>1, <1>2, <1>3

LEMMA NotDenied ==
  ASSUME NEW r, NEW n, NEW attr,
         \/ n.has[attr] = ""
         \/ GateAssetUrl(r, n.has[attr], Kind(Tag[n.el], attr)) = "ok"
  PROVE  ~Denied(r, n, attr)
  BY DEF Denied, Verdict, Has

LEMMA SameDenied ==
  ASSUME NEW r, NEW n, NEW o, NEW attr, o.el = n.el, o.has[attr] = n.has[attr]
  PROVE  Denied(r, o, attr) <=> Denied(r, n, attr)
<1>1. Verdict(r, o, attr) = Verdict(r, n, attr)
  BY DEF Verdict, Has
<1> QED
  BY <1>1 DEF Denied

LEMMA SameFetched ==
  ASSUME NEW n, NEW o, o.el = n.el, o.box = n.box
  PROVE  Fetched(o) = Fetched(n)
  BY DEF Fetched

LEMMA BoxIsClean ==
  ASSUME NEW r, NEW n, IsNode(n), NEW S
  PROVE  /\ n.box \/ n.el = Stray => Clean(r, n, S)
         /\ Clean(r, AssetUnavailable(n), S)
         /\ Clean(r, StrayNode, S) /\ StrayNode.el = Stray
<1>1. ASSUME NEW m, IsNode(m), m.box \/ m.el = Stray PROVE Clean(r, m, S)
  BY <1>1, FetchedFacts DEF Clean
<1>2. IsNode(AssetUnavailable(n)) /\ AssetUnavailable(n).box
  BY UnavailableKeeps
<1>3. IsNode(StrayNode) /\ StrayNode.el = Stray
  <2>1. NoAssets = [a \in Attr |-> NoAssets[a]]
    BY DEF NoAssets
  <2> QED
    BY <2>1, NodeShape DEF StrayNode
<1> QED
  BY <1>1, <1>2, <1>3

(* Taking away an attribute leaves a clean node clean, and a denied one    *)
(* without what it was denied for.                                         *)
LEMMA StripFacts ==
  ASSUME NEW r, NEW n, IsNode(n), NEW attr \in Attr, NEW m, m = Strip(n, attr)
  PROVE  /\ IsNode(m) /\ m.el = n.el /\ m.box = n.box /\ Fetched(m) = Fetched(n)
         /\ ~Denied(r, m, attr)
         /\ \A a \in Attr \ {attr} :
              m.has[a] = n.has[a] /\ (Denied(r, m, a) <=> Denied(r, n, a))
<1>1. /\ IsNode(m) /\ m.el = n.el /\ m.box = n.box
      /\ m.has[attr] = "" /\ \A a \in Attr \ {attr} : m.has[a] = n.has[a]
  BY DEF IsNode, Strip
<1>2. Fetched(m) = Fetched(n)
  BY <1>1, SameFetched
<1>3. ~Denied(r, m, attr)
  BY <1>1, NotDenied
<1>4. ASSUME NEW a \in Attr \ {attr} PROVE Denied(r, m, a) <=> Denied(r, n, a)
  <2>1. m.has[a] = n.has[a] /\ m.el = n.el
    BY <1>1
  <2> QED
    BY <2>1, SameDenied
<1> QED
  BY <1>1, <1>2, <1>3, <1>4

(* What the string gate leaves of a tag is clean: it takes away, or makes  *)
(* a placeholder of, whatever has a url the rules deny.                    *)
LEMMA GateImgClean ==
  ASSUME NEW r, NEW n, IsNode(n), Tag[n.el] = "img", NEW m, m = GateOneImgTag(r, n)
  PROVE  IsNode(m) /\ m.el = n.el /\ Clean(r, m, Element)
<1>1. CASE m = AssetUnavailable(n)
  BY <1>1, UnavailableKeeps, BoxIsClean
<1>2. CASE m = n /\ ~Denied(r, n, "src") /\ ~Denied(r, n, "srcset")
  <2>1. \A attr \in Fetched(n) : attr \in {"src", "srcset"}
    BY FetchedFacts
  <2> QED
    BY <1>2, <2>1 DEF Clean
<1>3. CASE m = Strip(n, "srcset") /\ ~Denied(r, n, "src")
  <2>1. "src" \in Attr \ {"srcset"} /\ "srcset" \in Attr
    BY DEF Attr
  <2>2. /\ IsNode(m) /\ m.el = n.el /\ Fetched(m) = Fetched(n) /\ ~Denied(r, m, "srcset")
        /\ \A a \in Attr \ {"srcset"} : Denied(r, m, a) <=> Denied(r, n, a)
    BY <1>3, <2>1, StripFacts
  <2>3. ~Denied(r, m, "src")
    BY <1>3, <2>1, <2>2
  <2>4. \A attr \in Fetched(n) : attr \in {"src", "srcset"}
    BY FetchedFacts
  <2> QED
    BY <2>2, <2>3, <2>4 DEF Clean
<1> QED
  BY <1>1, <1>2, <1>3 DEF GateOneImgTag, SrcsetHasBlockedCandidate

LEMMA GateMediaClean ==
  ASSUME NEW r, NEW n, IsNode(n), Tag[n.el] \in {"video", "source"},
         NEW m, m = GateOneMediaTag(r, n)
  PROVE  IsNode(m) /\ m.el = n.el /\ Clean(r, m, Element)
<1> DEFINE shown == IF Denied(r, n, "src") THEN Strip(n, "src") ELSE n
<1>0. "src" \in Attr /\ "srcset" \in Attr /\ "poster" \in Attr
  BY DEF Attr
<1>1. /\ IsNode(shown) /\ shown.el = n.el /\ shown.box = n.box /\ ~Denied(r, shown, "src")
      /\ Denied(r, shown, "poster") <=> Denied(r, n, "poster")
      /\ Denied(r, shown, "srcset") <=> Denied(r, n, "srcset")
  <2>1. CASE Denied(r, n, "src")
    <3>1. shown = Strip(n, "src")
      BY <2>1
    <3> HIDE DEF shown
    <3>2. /\ IsNode(shown) /\ shown.el = n.el /\ shown.box = n.box
          /\ ~Denied(r, shown, "src")
          /\ \A a \in Attr \ {"src"} : Denied(r, shown, a) <=> Denied(r, n, a)
      BY <1>0, <3>1, StripFacts
    <3>3. "poster" \in Attr \ {"src"} /\ "srcset" \in Attr \ {"src"}
      BY DEF Attr
    <3> QED
      BY <3>2, <3>3
  <2> QED
    BY <2>1
<1>2. CASE m = AssetUnavailable(n)
  BY <1>2, UnavailableKeeps, BoxIsClean
<1>3. CASE m = shown /\ ~Denied(r, n, "poster") /\ ~Denied(r, n, "srcset")
  <2> HIDE DEF shown
  <2>1. \A attr \in Fetched(m) : attr \in {"src", "srcset", "poster"}
    BY FetchedFacts
  <2> QED
    BY <1>1, <1>3, <2>1 DEF Clean
<1>4. CASE m = Strip(shown, "srcset") /\ ~Denied(r, n, "poster")
  <2> HIDE DEF shown
  <2>1. /\ IsNode(m) /\ m.el = shown.el /\ ~Denied(r, m, "srcset")
        /\ \A a \in Attr \ {"srcset"} : Denied(r, m, a) <=> Denied(r, shown, a)
    BY <1>0, <1>1, <1>4, StripFacts
  <2>2. "src" \in Attr \ {"srcset"} /\ "poster" \in Attr \ {"srcset"}
    BY DEF Attr
  <2>3. ~Denied(r, m, "src") /\ ~Denied(r, m, "poster")
    BY <1>1, <1>4, <2>1, <2>2
  <2>4. \A attr \in Fetched(m) : attr \in {"src", "srcset", "poster"}
    BY FetchedFacts
  <2> QED
    BY <1>1, <2>1, <2>3, <2>4 DEF Clean
<1>5. \/ m = AssetUnavailable(n)
      \/ m = shown /\ ~Denied(r, n, "poster") /\ ~Denied(r, n, "srcset")
      \/ m = Strip(shown, "srcset") /\ ~Denied(r, n, "poster")
  <2>1. m = GateOneMediaTag(r, n)
    OBVIOUS
  <2> QED
    BY <2>1 DEF GateOneMediaTag, SrcsetHasBlockedCandidate
<1> QED
  BY <1>2, <1>3, <1>4, <1>5

LEMMA GateTagClean ==
  ASSUME NEW r, NEW n, IsNode(n)
  PROVE  /\ IsNode(GateTag(r, n)) /\ GateTag(r, n).el = n.el
         /\ Clean(r, GateTag(r, n), Element)
<1>1. CASE n.box
  BY <1>1, BoxIsClean DEF GateTag
<1>2. CASE ~n.box /\ Tag[n.el] = "img"
  BY <1>2, GateImgClean DEF GateTag
<1>3. CASE ~n.box /\ Tag[n.el] \in {"video", "source"}
  <2>1. GateTag(r, n) = GateOneMediaTag(r, n)
    BY <1>3 DEF GateTag
  <2> QED
    BY <1>3, <2>1, GateMediaClean
<1>4. CASE ~n.box /\ Tag[n.el] \notin {"img", "video", "source"}
  <2>1. GateTag(r, n) = n
    BY <1>4 DEF GateTag
  <2>2. Fetched(n) = {}
    BY <1>4 DEF Fetched
  <2> QED
    BY <2>1, <2>2 DEF Clean
<1> QED
  BY <1>1, <1>2, <1>3, <1>4

(* The gate on the tree overlooks the srcset of a source, and nothing else *)
LEMMA GateFragmentImgClean ==
  ASSUME NEW r, NEW n, IsNode(n), Tag[n.el] = "img", NEW m, m = GateFragmentImg(r, n)
  PROVE  IsNode(m) /\ m.el = n.el /\ Clean(r, m, Element)
<1>1. CASE m = AssetUnavailable(n)
  BY <1>1, UnavailableKeeps, BoxIsClean
<1>2. CASE m = n /\ ~Denied(r, n, "src") /\ ~Denied(r, n, "srcset")
  <2>1. \A attr \in Fetched(n) : attr \in {"src", "srcset"}
    BY FetchedFacts
  <2> QED
    BY <1>2, <2>1 DEF Clean
<1>3. CASE m = Strip(n, "srcset") /\ ~Denied(r, n, "src")
  <2>1. "src" \in Attr \ {"srcset"} /\ "srcset" \in Attr
    BY DEF Attr
  <2>2. /\ IsNode(m) /\ m.el = n.el /\ Fetched(m) = Fetched(n) /\ ~Denied(r, m, "srcset")
        /\ \A a \in Attr \ {"srcset"} : Denied(r, m, a) <=> Denied(r, n, a)
    BY <1>3, <2>1, StripFacts
  <2>3. ~Denied(r, m, "src")
    BY <1>3, <2>1, <2>2
  <2>4. \A attr \in Fetched(n) : attr \in {"src", "srcset"}
    BY FetchedFacts
  <2> QED
    BY <2>2, <2>3, <2>4 DEF Clean
<1>4. \/ m = AssetUnavailable(n)
      \/ m = n /\ ~Denied(r, n, "src") /\ ~Denied(r, n, "srcset")
      \/ m = Strip(n, "srcset") /\ ~Denied(r, n, "src")
  <2>1. m = GateFragmentImg(r, n)
    OBVIOUS
  <2> QED
    BY <2>1 DEF GateFragmentImg, BuildAssetPlaceholderEl, ElSrcsetHasBlockedCandidate
<1> QED
  BY <1>1, <1>2, <1>3, <1>4

(* Stripping what is denied, a step of the gate on media.                  *)
LEMMA StripDenied ==
  ASSUME NEW r, NEW n, IsNode(n), NEW attr \in Attr,
         NEW m, m = IF Denied(r, n, attr) THEN Strip(n, attr) ELSE n
  PROVE  /\ IsNode(m) /\ m.el = n.el /\ m.box = n.box /\ Fetched(m) = Fetched(n)
         /\ ~Denied(r, m, attr)
         /\ \A a \in Attr \ {attr} : Denied(r, m, a) <=> Denied(r, n, a)
<1>1. CASE Denied(r, n, attr)
  <2>1. m = Strip(n, attr)
    BY <1>1
  <2> QED
    BY <2>1, StripFacts
<1>2. CASE ~Denied(r, n, attr)
  <2>1. m = n
    BY <1>2
  <2> QED
    BY <1>2, <2>1
<1> QED
  BY <1>1, <1>2

LEMMA GateFragmentMediaClean ==
  ASSUME NEW r, NEW n, IsNode(n), Tag[n.el] \in {"video", "source"},
         NEW m, m = GateFragmentMedia(r, n), NEW S,
         Clean(r, n, S) \/ n.el \notin S
  PROVE  IsNode(m) /\ m.el = n.el /\ Clean(r, m, S)
<1> DEFINE shown == IF Denied(r, n, "src") THEN Strip(n, "src") ELSE n
<1>0. "src" \in Attr /\ "srcset" \in Attr /\ "poster" \in Attr
  BY DEF Attr
<1>1. m = IF Denied(r, n, "poster") THEN Strip(shown, "poster") ELSE shown
  BY DEF GateFragmentMedia
<1>2. /\ IsNode(shown) /\ shown.el = n.el /\ shown.box = n.box /\ Fetched(shown) = Fetched(n)
      /\ ~Denied(r, shown, "src")
      /\ \A a \in Attr \ {"src"} : Denied(r, shown, a) <=> Denied(r, n, a)
  BY <1>0, StripDenied
<1> HIDE DEF shown
<1>3. Denied(r, shown, "poster") <=> Denied(r, n, "poster")
  BY <1>0, <1>2
<1>4. m = IF Denied(r, shown, "poster") THEN Strip(shown, "poster") ELSE shown
  BY <1>1, <1>3
<1>5. /\ IsNode(m) /\ m.el = shown.el /\ m.box = shown.box /\ Fetched(m) = Fetched(shown)
      /\ ~Denied(r, m, "poster")
      /\ \A a \in Attr \ {"poster"} : Denied(r, m, a) <=> Denied(r, shown, a)
  BY <1>0, <1>2, <1>4, StripDenied
<1>6. ~Denied(r, m, "src") /\ ~Denied(r, m, "poster")
  BY <1>0, <1>2, <1>5
<1>7. Denied(r, m, "srcset") <=> Denied(r, n, "srcset")
  BY <1>0, <1>2, <1>5
<1>8. ASSUME NEW attr \in Fetched(m), Denied(r, m, attr)
      PROVE  m.el \notin S /\ Tag[m.el] = "source" /\ attr = "srcset"
  <2>0. attr # "src" /\ attr # "poster" /\ Tag[m.el] \in {"video", "source"}
    BY <1>2, <1>5, <1>6, <1>8
  <2>1. attr = "srcset" /\ Tag[m.el] = "source"
    BY <1>8, <2>0, FetchedFacts
  <2>2. Denied(r, n, "srcset") /\ "srcset" \in Fetched(n)
    BY <1>2, <1>5, <1>7, <1>8, <2>1
  <2>3. n.el \notin S
    BY <2>2 DEF Clean
  <2> QED
    BY <1>2, <1>5, <2>1, <2>3
<1> QED
  BY <1>2, <1>5, <1>8 DEF Clean

LEMMA GateFragmentTagClean ==
  ASSUME NEW r, NEW n, IsNode(n)
  PROVE  /\ IsNode(GateFragmentTag(r, n)) /\ GateFragmentTag(r, n).el = n.el
         /\ \A S \in SUBSET Element :
              Clean(r, n, S) \/ n.el \notin S => Clean(r, GateFragmentTag(r, n), S)
<1> DEFINE m == GateFragmentTag(r, n)
<1> SUFFICES ASSUME NEW S \in SUBSET Element
             PROVE  /\ IsNode(m) /\ m.el = n.el
                    /\ Clean(r, n, S) \/ n.el \notin S => Clean(r, m, S)
  OBVIOUS
<1>1. CASE n.box \/ n.el = Stray
  <2>1. m = n
    BY <1>1 DEF GateFragmentTag
  <2> QED
    BY <1>1, <2>1, BoxIsClean
<1>2. CASE ~n.box /\ n.el # Stray /\ Tag[n.el] = "img"
  <2>1. m = GateFragmentImg(r, n)
    BY <1>2 DEF GateFragmentTag
  <2>2. IsNode(m) /\ m.el = n.el /\ Clean(r, m, Element)
    BY <1>2, <2>1, GateFragmentImgClean
  <2>3. \A attr \in Fetched(m) : ~Denied(r, m, attr)
    <3>1. m.el \in Element \/ Fetched(m) = {}
      BY <2>2, FetchedFacts DEF IsNode
    <3> QED
      BY <2>2, <3>1 DEF Clean
  <2> QED
    BY <2>2, <2>3 DEF Clean
<1>3. CASE ~n.box /\ n.el # Stray /\ Tag[n.el] \in {"video", "source"}
  <2>1. m = GateFragmentMedia(r, n)
    BY <1>3 DEF GateFragmentTag
  <2>2. IsNode(m) /\ m.el = n.el
    <3>1. n.el \notin {}
      OBVIOUS
    <3> QED
      BY <1>3, <2>1, <3>1, GateFragmentMediaClean
  <2> QED
    BY <1>3, <2>1, <2>2, GateFragmentMediaClean
<1>4. CASE ~n.box /\ n.el # Stray /\ Tag[n.el] \notin {"img", "video", "source"}
  <2>1. m = n
    BY <1>4 DEF GateFragmentTag
  <2>2. Fetched(n) = {}
    BY <1>4 DEF Fetched
  <2> QED
    BY <2>1, <2>2 DEF Clean
<1> QED
  BY <1>1, <1>2, <1>3, <1>4

(* A node that is clean wherever it is, is so for any exception.           *)
LEMMA CleanAnywhere ==
  ASSUME NEW r, NEW n, Clean(r, n, Element), NEW S
  PROVE  Clean(r, n, S)
<1>1. n.el \in Element \/ Fetched(n) = {}
  BY FetchedFacts DEF IsNode, Clean
<1> QED
  BY <1>1 DEF Clean

LEMMA WriteClean ==
  ASSUME NEW r, NEW n, IsNode(n), NEW attr, NEW url,
         NEW m, m = WriteAttribute(r, n, attr, url)
  PROVE  /\ IsNode(m) /\ m.el = n.el
         /\ \A S : Clean(r, n, S) => Clean(r, m, S)
<1> SUFFICES ASSUME NEW S
             PROVE  IsNode(m) /\ m.el = n.el /\ (Clean(r, n, S) => Clean(r, m, S))
  OBVIOUS
<1>1. CASE m = n
  BY <1>1
<1>2. CASE attr \in Fetched(n) /\ m = Strip(n, attr)
  <2>1. attr \in Attr
    BY <1>2, FetchedFacts
  <2>2. /\ IsNode(m) /\ m.el = n.el /\ m.box = n.box /\ Fetched(m) = Fetched(n)
        /\ ~Denied(r, m, attr)
        /\ \A a \in Attr \ {attr} : Denied(r, m, a) <=> Denied(r, n, a)
    BY <1>2, <2>1, StripFacts
  <2>3. \A a \in Fetched(m) : Denied(r, m, a) => a \in Fetched(n) /\ Denied(r, n, a)
    BY <2>2, FetchedFacts
  <2> QED
    BY <2>2, <2>3 DEF Clean
<1>3. CASE /\ attr \in Fetched(n) /\ m = [n EXCEPT !.has[attr] = url]
           /\ GateAssetUrl(r, url, AssetKind(n, attr)) = "ok"
  <2>1. attr \in Attr
    BY <1>3, FetchedFacts
  <2>2. /\ IsNode(m) /\ m.el = n.el /\ m.box = n.box
        /\ m.has[attr] = url /\ \A a \in Attr \ {attr} : m.has[a] = n.has[a]
    <3>1. m = [n EXCEPT !.has[attr] = url]
      BY <1>3
    <3> QED
      BY <2>1, <3>1 DEF IsNode
  <2>3. Fetched(m) = Fetched(n)
    BY <2>2, SameFetched
  <2>4. ~Denied(r, m, attr)
    BY <1>3, <2>2, NotDenied DEF AssetKind
  <2>5. ASSUME NEW a \in Attr \ {attr} PROVE Denied(r, m, a) <=> Denied(r, n, a)
    <3>1. m.el = n.el /\ m.has[a] = n.has[a]
      BY <2>2
    <3> QED
      BY <3>1, SameDenied
  <2>6. \A a \in Fetched(m) : Denied(r, m, a) => a \in Fetched(n) /\ Denied(r, n, a)
    BY <2>3, <2>4, <2>5, FetchedFacts
  <2> QED
    BY <2>2, <2>6 DEF Clean
<1>4. \/ m = n
      \/ attr \in Fetched(n) /\ m = Strip(n, attr)
      \/ /\ attr \in Fetched(n) /\ m = [n EXCEPT !.has[attr] = url]
         /\ GateAssetUrl(r, url, AssetKind(n, attr)) = "ok"
  <2>1. m = WriteAttribute(r, n, attr, url)
    OBVIOUS
  <2> QED
    BY <2>1 DEF WriteAttribute
<1> QED
  BY <1>1, <1>2, <1>3, <1>4

-----------------------------------------------------------------------------
(* Markup, and what the gates and the parser make of it.                   *)

(* The markup M of elements of S, in document order, and its nids.         *)
IsMarkupOf(M, S, r) ==
  /\ IsMarkup(M)
  /\ \A i \in 1 .. Len(M) : M[i].el \in S /\ (M[i].box <=> M[i].el \in r.held)
  /\ \A i, j \in 1 .. Len(M) : i < j => Spot(M[i].el) < Spot(M[j].el)
  /\ IsSeq(NodeIds(M)) /\ Len(NodeIds(M)) = Len(M)
  /\ \A i \in 1 .. Len(M) : NodeIds(M)[i] = M[i].el

LEMMA MarkupFacts ==
  ASSUME NEW r, NEW S \in SUBSET Element, NEW edits
  PROVE  IsMarkupOf(Markup(r, S, edits), S, r)
<1> DEFINE M == Markup(r, S, edits)
           X == {x \in S : (Chain[x] \ {x}) \cap r.held = {}}
           T == {i \in DOMAIN Order : Order[i] \in X}
           kept == Sent(r, S)
           node(x) == [el |-> x, box |-> x \in r.held,
                       has |-> IF x \in r.held THEN NoAssets ELSE Attributes(x, edits)]
<1>1. IsSeq(Order) /\ T \in SUBSET (1 .. Len(Order))
  <2>1. Order \in Seq(Element)
    BY PageAssumption
  <2>2. Order = [i \in 1 .. Len(Order) |-> Order[i]]
    BY <2>1
  <2> QED
    BY <2>2, OrderFacts DEF IsSeq
<1>2. kept = Pick(Order, T)
  BY DEF Sent, DocumentOrder
<1>3. T \subseteq DOMAIN Order /\ \A i \in T : Order[i] \in X
  OBVIOUS
<1> HIDE DEF T, kept
<1>4. /\ IsSeq(kept)
      /\ \A k \in 1 .. Len(kept) : Nth(T, k) \in T /\ kept[k] = Order[Nth(T, k)]
      /\ Len(kept) = Cardinality(T)
  BY <1>1, <1>2, PickFacts
<1>5. \A k \in 1 .. Len(kept) : kept[k] \in S /\ Spot(kept[k]) = Nth(T, k)
  BY <1>1, <1>3, <1>4, SpotFacts
<1>6. \A i, j \in 1 .. Len(kept) : i < j => Spot(kept[i]) < Spot(kept[j])
  <2>1. Len(Order) \in Nat
    BY OrderFacts
  <2>2. \A i, j \in 1 .. Cardinality(T) : i < j => Nth(T, i) < Nth(T, j)
    BY <1>1, <2>1, NthFacts
  <2> QED
    BY <1>4, <1>5, <2>2
<1>7. M = [i \in DOMAIN kept |-> node(kept[i])]
  <2>1. Evaluated(kept) = kept
    BY Worked
  <2>2. M = Evaluated([i \in DOMAIN kept |-> node(kept[i])])
    BY <2>1 DEF Markup, kept
  <2> HIDE DEF node
  <2> QED
    BY <2>2, Worked
<1>8. ASSUME NEW x \in S
      PROVE  IsNode(node(x)) /\ node(x).el = x /\ (node(x).box <=> x \in r.held)
  <2> DEFINE b == x \in r.held
             h == IF x \in r.held THEN NoAssets ELSE Attributes(x, edits)
  <2>1. h = [a \in Attr |-> h[a]]
    BY Worked DEF Attributes, NoAssets
  <2>2. x \in Element \cup {Stray} /\ b \in BOOLEAN
    BY <1>8
  <2>3. node(x) = [el |-> x, box |-> b, has |-> h]
    OBVIOUS
  <2> HIDE DEF h, b, node
  <2>4. IsNode(node(x))
    BY <2>1, <2>2, <2>3, NodeShape
  <2>5. node(x).el = x /\ node(x).box = b
    BY <2>3
  <2> QED
    BY <2>4, <2>5 DEF b
<1> HIDE DEF node
<1>9. DOMAIN kept = 1 .. Len(kept)
  BY <1>4 DEF IsSeq
<1>10. Len(kept) \in Nat
  BY <1>4 DEF IsSeq
<1>11. IsSeq(M) /\ Len(M) = Len(kept) /\ \A i \in 1 .. Len(M) : M[i] = node(kept[i])
  <2>1. DOMAIN M = 1 .. Len(kept) /\ M = [i \in 1 .. Len(kept) |-> M[i]]
    BY <1>7, <1>9
  <2>2. IsSeq(M) /\ Len(M) = Len(kept)
    BY <1>10, <2>1, SeqOfFunction
  <2> QED
    BY <1>7, <1>9, <2>2
<1>12. \A i \in 1 .. Len(M) :
         IsNode(M[i]) /\ M[i].el = kept[i] /\ (M[i].box <=> M[i].el \in r.held)
  BY <1>5, <1>8, <1>11
<1>13. NodeIds(M) = [i \in 1 .. Len(M) |-> M[i].el]
  <2>1. DOMAIN M = 1 .. Len(M)
    BY <1>11 DEF IsSeq
  <2> QED
    BY <2>1, Worked DEF NodeIds
<1>14. IsSeq(NodeIds(M)) /\ Len(NodeIds(M)) = Len(M)
  <2> DEFINE ids == NodeIds(M)
  <2>1. DOMAIN ids = 1 .. Len(M) /\ ids = [i \in 1 .. Len(M) |-> ids[i]]
    BY <1>13
  <2> HIDE DEF ids
  <2>2. IsSeq(ids) /\ Len(ids) = Len(M)
    BY <1>10, <1>11, <2>1, SeqOfFunction
  <2> QED
    BY <2>2 DEF ids
<1>15. IsMarkup(M)
  BY <1>11, <1>12 DEF IsMarkup
<1>16. ASSUME NEW i \in 1 .. Len(M), NEW j \in 1 .. Len(M), i < j
       PROVE  Spot(M[i].el) < Spot(M[j].el)
  BY <1>6, <1>11, <1>12, <1>16
<1>17. M = Markup(r, S, edits)
  OBVIOUS
<1> HIDE DEF M
<1>18. IsMarkupOf(M, S, r)
  BY <1>5, <1>11, <1>12, <1>13, <1>14, <1>15, <1>16 DEF IsMarkupOf
<1> QED
  BY <1>17, <1>18

(* The parser puts its own nodes between those it is given; before the     *)
(* first of them nothing moves.                                            *)
LEMMA ParseFacts ==
  ASSUME NEW nodes, IsMarkup(nodes), NEW P, P = Parse(nodes)
  PROVE  /\ IsSeq(P)
         /\ \A k \in 1 .. Len(P) : P[k] = StrayNode \/ \E i \in 1 .. Len(nodes) : P[k] = nodes[i]
         /\ \A k \in 1 .. Len(nodes) :
              (\A j \in Ends(nodes) : ~(j < k)) => k \in 1 .. Len(P) /\ P[k] = nodes[k]
<1> DEFINE n == Len(nodes)
           ends == Ends(nodes)
           place(i) == i + Rank(ends, i)
           last == n + Cardinality(ends)
           at(k) == CHOOSE i \in 1 .. n : place(i) = k
<1>1. n \in Nat /\ DOMAIN nodes = 1 .. n
  BY DEF IsMarkup, IsSeq
<1>2. ends \in SUBSET (1 .. n)
  BY <1>1 DEF Ends, Inside
<1>3. Cardinality(ends) \in Nat /\ last \in Nat
  <2> HIDE DEF ends
  <2>1. Cardinality(ends) \in Nat
    BY <1>1, <1>2, Counted
  <2> QED
    BY <1>1, <2>1
<1>4. P = [k \in 1 .. last |-> IF \E i \in 1 .. n : place(i) = k THEN nodes[at(k)] ELSE StrayNode]
  <2> DEFINE f == [k \in 1 .. last |->
                     IF \E i \in 1 .. n : place(i) = k THEN nodes[at(k)] ELSE StrayNode]
  <2>1. Parse(nodes) = Evaluated(f)
    BY <1>1 DEF Parse, Rank
  <2> HIDE DEF f
  <2> QED
    BY <2>1, Worked DEF f
<1> HIDE DEF last, ends
<1>5. \A i \in 1 .. n + 1 : Rank(ends, i) \in Nat
  <2>1. ASSUME NEW i \in 1 .. n + 1 PROVE Rank(ends, i) \in Nat
    BY <1>1, <1>2, Counted DEF Rank
  <2> QED
    BY <2>1
<1>6. ASSUME NEW i \in 1 .. n, NEW k \in 1 .. n, i < k PROVE place(i) < place(k)
  <2> DEFINE A == {j \in ends : j < i}
             B == {j \in ends : j < k}
  <2>1. B \in SUBSET (1 .. n)
    BY <1>2
  <2>2. A \in SUBSET B
    <3>1. \A j \in ends : j \in 1 .. n
      BY <1>2
    <3>2. \A j \in ends : j < i => j < k
      BY <1>1, <1>6, <3>1
    <3> QED
      BY <3>2
  <2>3. Cardinality(A) <= Cardinality(B) /\ Cardinality(A) \in Nat /\ Cardinality(B) \in Nat
    <3> HIDE DEF A, B
    <3> QED
      BY <1>1, <2>1, <2>2, Counted
  <2>4. Rank(ends, i) <= Rank(ends, k) /\ Rank(ends, i) \in Nat /\ Rank(ends, k) \in Nat
    BY <2>3 DEF Rank
  <2> HIDE DEF A, B
  <2> QED
    BY <1>1, <1>6, <2>4
<1>7. \A i, k \in 1 .. n : place(i) = place(k) => i = k
  <2> SUFFICES ASSUME NEW i \in 1 .. n, NEW k \in 1 .. n, i < k PROVE place(i) # place(k)
    BY <1>1
  <2>1. place(i) < place(k) /\ Rank(ends, i) \in Nat /\ Rank(ends, k) \in Nat
    BY <1>1, <1>5, <1>6
  <2> QED
    BY <1>1, <2>1
<1>8. IsSeq(P) /\ Len(P) = last
  <2>1. DOMAIN P = 1 .. last /\ P = [i \in 1 .. last |-> P[i]]
    BY <1>4
  <2> QED
    BY <1>3, <2>1, SeqOfFunction
<1>9. ASSUME NEW k \in 1 .. Len(P)
      PROVE  P[k] = StrayNode \/ \E i \in 1 .. Len(nodes) : P[k] = nodes[i]
  BY <1>4, <1>8
<1>10. ASSUME NEW k \in 1 .. n, \A j \in ends : ~(j < k)
       PROVE  k \in 1 .. Len(P) /\ P[k] = nodes[k]
  <2>1. {j \in ends : j < k} = {}
    BY <1>10
  <2>2. Rank(ends, k) = 0
    BY <2>1, FS_EmptySet DEF Rank
  <2>3. place(k) = k
    BY <1>1, <2>2
  <2>4. k \in 1 .. last
    BY <1>1, <1>2, <1>3, Counted DEF last
  <2>5. at(k) = k
    BY <1>7, <2>3
  <2> HIDE DEF place
  <2> QED
    BY <1>4, <1>8, <2>3, <2>4, <2>5
<1> QED
  BY <1>8, <1>9, <1>10 DEF ends

(* What the parser closes it closes after the start of the element.        *)
LEMMA EndFacts ==
  ASSUME NEW nodes, IsMarkup(nodes), NEW j \in Ends(nodes)
  PROVE  /\ j \in 1 .. Len(nodes)
         /\ \E i \in Split(nodes) :
              nodes[i].el \in Element /\ Spot(nodes[i].el) < Spot(nodes[j].el)
<1>1. DOMAIN nodes = 1 .. Len(nodes)
  BY DEF IsMarkup, IsSeq
<1>2. PICK i \in Split(nodes) : j \in Inside(nodes, i)
  BY DEF Ends
<1>3. j \in 1 .. Len(nodes) /\ nodes[j].el \in Below(nodes[i].el)
  BY <1>1, <1>2 DEF Inside
<1>4. nodes[i].el \in Element /\ Spot(nodes[i].el) < Spot(nodes[j].el)
  BY <1>3, BelowFacts
<1> QED
  BY <1>2, <1>3, <1>4

(* The parser leaves in place whatever is not after an element it upsets.  *)
LEMMA ParseInPlace ==
  ASSUME NEW nodes, IsMarkup(nodes), NEW k \in 1 .. Len(nodes),
         \A j \in 1 .. k : Spot(nodes[j].el) <= Spot(nodes[k].el),
         nodes[k].el \in Element, nodes[k].el \notin After(Upset(nodes))
  PROVE  k \in 1 .. Len(Parse(nodes)) /\ Parse(nodes)[k] = nodes[k]
<1>1. ASSUME NEW j \in Ends(nodes), j < k PROVE FALSE
  <2>1. j \in 1 .. Len(nodes)
    BY EndFacts
  <2>2. PICK i \in Split(nodes) :
          nodes[i].el \in Element /\ Spot(nodes[i].el) < Spot(nodes[j].el)
    BY EndFacts
  <2>3. nodes[i].el \in Upset(nodes)
    BY <2>2 DEF Upset
  <2>4. Len(nodes) \in Nat
    BY DEF IsMarkup, IsSeq
  <2>5. Spot(nodes[j].el) <= Spot(nodes[k].el) /\ j \in 1 .. k
    BY <1>1, <2>1, <2>4
  <2>6. nodes[j].el \in Element \/ Spot(nodes[j].el) \in Nat
    <3>1. PICK h \in Split(nodes) : j \in Inside(nodes, h)
      BY DEF Ends
    <3> QED
      BY <3>1, BelowFacts DEF Inside
  <2>7. Spot(nodes[i].el) \in Nat /\ Spot(nodes[j].el) \in Nat /\ Spot(nodes[k].el) \in Nat
    BY <2>2, <2>6, SpotFacts, OrderFacts
  <2>8. Spot(nodes[i].el) < Spot(nodes[k].el)
    BY <2>2, <2>5, <2>7
  <2> QED
    BY <2>2, <2>3, <2>8, AfterFacts
<1> QED
  BY <1>1, ParseFacts

(* The string gate drops nothing before the first placeholder of a video   *)
(* with something in it, and that is where the nids begin to shift.        *)
LEMMA GateSnapshotFacts ==
  ASSUME NEW r, NEW M, IsMarkup(M), \A i \in 1 .. Len(M) : M[i].el \in Element,
         \A i, j \in 1 .. Len(M) : i < j => Spot(M[i].el) < Spot(M[j].el),
         NEW G, G = GateSnapshotAssets(r, M)
  PROVE  /\ IsMarkup(G)
         /\ \A k \in 1 .. Len(G) : Clean(r, G[k], Element)
         /\ \A k \in 1 .. Len(M) : M[k].el \notin After(Upset(G)) =>
              k \in 1 .. Len(G) /\ \A i \in 1 .. k : G[i].el = M[i].el
<1> DEFINE n == Len(M)
           skipped == FindMatchingCloseTag(r, M)
           K == {i \in DOMAIN M : M[i].el \notin skipped}
           kept == Pick(M, K)
<1>1. n \in Nat /\ DOMAIN M = 1 .. n /\ IsSeq(M)
  BY DEF IsMarkup, IsSeq
<1>2. K \in SUBSET (1 .. n)
  BY <1>1
<1>3. G = [i \in DOMAIN kept |-> GateTag(r, kept[i])]
  <2> DEFINE f == [i \in DOMAIN kept |-> GateTag(r, kept[i])]
  <2>1. Evaluated(kept) = kept
    BY Worked
  <2>2. G = Evaluated(f)
    BY <2>1 DEF GateSnapshotAssets
  <2> HIDE DEF f
  <2> QED
    BY <2>2, Worked DEF f
<1>4. /\ IsSeq(kept) /\ Len(kept) = Cardinality(K)
      /\ \A k \in 1 .. Len(kept) : Nth(K, k) \in K /\ kept[k] = M[Nth(K, k)]
      /\ \A k \in K : 1 .. k \subseteq K => k \in 1 .. Len(kept) /\ kept[k] = M[k]
  <2> HIDE DEF K
  <2> QED
    BY <1>1, <1>2, PickFacts
<1>5. \A k \in 1 .. Len(kept) : IsNode(kept[k])
  BY <1>1, <1>2, <1>4 DEF IsMarkup
<1> HIDE DEF kept
<1>6. DOMAIN kept = 1 .. Len(kept) /\ Len(kept) \in Nat
  BY <1>4 DEF IsSeq
<1>7. IsSeq(G) /\ Len(G) = Len(kept)
  <2>1. DOMAIN G = 1 .. Len(kept) /\ G = [i \in 1 .. Len(kept) |-> G[i]]
    BY <1>3, <1>6
  <2> QED
    BY <1>6, <2>1, SeqOfFunction
<1>8. ASSUME NEW k \in 1 .. Len(G)
      PROVE  IsNode(G[k]) /\ G[k].el = kept[k].el /\ Clean(r, G[k], Element)
  <2>1. G[k] = GateTag(r, kept[k]) /\ IsNode(kept[k])
    BY <1>3, <1>5, <1>6, <1>7
  <2> QED
    BY <2>1, GateTagClean
<1>9. ASSUME NEW k \in 1 .. n, M[k].el \notin After(Upset(G))
      PROVE  k \in 1 .. Len(G) /\ \A i \in 1 .. k : G[i].el = M[i].el
  <2> DEFINE Gone == (1 .. k) \ K
  <2>1. Gone = {}
    <3> SUFFICES ASSUME Gone # {} PROVE FALSE
      OBVIOUS
    <3>1. Gone \in SUBSET (1 .. n) /\ k \in Nat
      BY <1>1, <1>9
    <3>2. PICK i \in Gone : \A j \in Gone : i <= j
      <4> HIDE DEF Gone
      <4> QED
        BY <1>1, <3>1, FirstAndLast
    <3>3. i \in 1 .. n /\ M[i].el \in skipped /\ i <= k
      BY <1>1, <3>1, <3>2
    <3>4. PICK j \in 1 .. n : /\ Tag[M[j].el] = "video" /\ GateTag(r, M[j]).box
                              /\ M[i].el \in Below(M[j].el)
      BY <1>1, <3>3 DEF FindMatchingCloseTag
    <3>5. Spot(M[j].el) < Spot(M[i].el) /\ M[j].el \in Element /\ M[i].el \in Element
      BY <3>4, BelowFacts
    <3>6. Spot(M[j].el) \in Nat /\ Spot(M[i].el) \in Nat
      BY <3>5, SpotFacts, OrderFacts
    <3>7. j < i
      <4>1. CASE i < j
        <5>1. Spot(M[i].el) < Spot(M[j].el)
          BY <3>3, <4>1
        <5> QED
          BY <3>5, <3>6, <5>1
      <4>2. CASE i = j
        BY <3>5, <3>6, <4>2
      <4> QED
        BY <3>3, <4>1, <4>2
    <3>8. 1 .. j \subseteq K /\ j \in K
      <4>1. ASSUME NEW h \in 1 .. j PROVE h \in K
        <5>1. h \in 1 .. k /\ h < i
          BY <3>1, <3>3, <3>7
        <5>2. h \notin Gone
          BY <3>2, <3>3, <5>1
        <5> QED
          BY <5>1, <5>2
      <4> QED
        BY <4>1
    <3>9. j \in 1 .. Len(kept) /\ kept[j] = M[j]
      BY <1>4, <3>8
    <3>10. G[j] = GateTag(r, M[j]) /\ j \in 1 .. Len(G) /\ j \in DOMAIN G
      BY <1>3, <1>6, <1>7, <3>9
    <3>11. G[j].el = M[j].el /\ G[j].box
      BY <1>8, <3>4, <3>9, <3>10
    <3>12. M[j].el \in Upset(G)
      BY <3>4, <3>10, <3>11 DEF Upset
    <3>13. Spot(M[i].el) <= Spot(M[k].el)
      <4>1. CASE i < k
        BY <3>3, <4>1, <3>6, SpotFacts, OrderFacts
      <4>2. CASE i = k
        BY <3>6, <4>2
      <4> QED
        BY <3>1, <3>3, <4>1, <4>2
    <3>14. Spot(M[k].el) \in Nat /\ M[k].el \in Element
      BY SpotFacts, OrderFacts
    <3>15. Spot(M[j].el) < Spot(M[k].el)
      BY <3>5, <3>6, <3>13, <3>14
    <3> QED
      BY <1>9, <3>5, <3>12, <3>14, <3>15, AfterFacts
  <2>2. ASSUME NEW i \in 1 .. k PROVE i \in 1 .. Len(G) /\ G[i].el = M[i].el
    <3>1. 1 .. i \subseteq K /\ i \in K
      BY <2>1
    <3>2. i \in 1 .. Len(kept) /\ kept[i] = M[i]
      BY <1>4, <3>1
    <3> QED
      BY <1>7, <1>8, <3>2
  <2>3. k \in 1 .. k
    BY <1>9
  <2> HIDE DEF Gone
  <2> QED
    BY <2>2, <2>3
<1> QED
  BY <1>7, <1>8, <1>9 DEF IsMarkup

LEMMA GateFragmentFacts ==
  ASSUME NEW r, NEW nodes, IsMarkup(nodes), NEW N, N = GateFragmentAssets(r, nodes)
  PROVE  /\ IsMarkup(N) /\ Len(N) = Len(nodes)
         /\ \A k \in 1 .. Len(N) :
              /\ N[k].el = nodes[k].el
              /\ \A S \in SUBSET Element :
                   Clean(r, nodes[k], S) \/ nodes[k].el \notin S => Clean(r, N[k], S)
<1>1. DOMAIN nodes = 1 .. Len(nodes) /\ Len(nodes) \in Nat
  BY DEF IsMarkup, IsSeq
<1>2. N = [i \in 1 .. Len(nodes) |-> GateFragmentTag(r, nodes[i])]
  <2> DEFINE f == [i \in 1 .. Len(nodes) |-> GateFragmentTag(r, nodes[i])]
  <2>1. N = Evaluated(f)
    BY <1>1 DEF GateFragmentAssets
  <2> HIDE DEF f
  <2> QED
    BY <2>1, Worked DEF f
<1>3. IsSeq(N) /\ Len(N) = Len(nodes)
  <2>1. DOMAIN N = 1 .. Len(nodes) /\ N = [i \in 1 .. Len(nodes) |-> N[i]]
    BY <1>2
  <2> QED
    BY <1>1, <2>1, SeqOfFunction
<1>4. ASSUME NEW k \in 1 .. Len(nodes)
      PROVE  /\ IsNode(N[k]) /\ N[k].el = nodes[k].el
             /\ \A S \in SUBSET Element :
                  Clean(r, nodes[k], S) \/ nodes[k].el \notin S => Clean(r, N[k], S)
  <2>1. N[k] = GateFragmentTag(r, nodes[k]) /\ IsNode(nodes[k])
    BY <1>2 DEF IsMarkup
  <2> QED
    BY <2>1, GateFragmentTagClean
<1> QED
  BY <1>3, <1>4 DEF IsMarkup

(* Whether the nodes are those the nids name, but for the nids in X.       *)
InPlace(nodes, ids, X) ==
  \A k \in 1 .. Len(nodes) : k \in 1 .. Len(ids) => nodes[k].el = ids[k] \/ ids[k] \in X

LEMMA PairFacts ==
  ASSUME NEW nodes, IsMarkup(nodes), NEW ids, IsSeq(ids),
         \A i, j \in 1 .. Len(ids) : ids[i] = ids[j] => i = j,
         NEW X, InPlace(nodes, ids, X), NEW N, N = PairIdentityElements(nodes, ids)
  PROVE  /\ \A x \in DOMAIN N : N[x] = x \/ x \in X
         /\ Len(nodes) = 0 => DOMAIN N = {}
         /\ \A x \in DOMAIN N : \E k \in 1 .. Len(ids) : ids[k] = x
<1> DEFINE n == IF Len(ids) < Len(nodes) THEN Len(ids) ELSE Len(nodes)
           D == {ids[i] : i \in 1 .. n}
<1>1. Len(nodes) \in Nat /\ Len(ids) \in Nat
  BY DEF IsMarkup, IsSeq
<1>2. N = [x \in D |-> nodes[CHOOSE i \in 1 .. n : ids[i] = x].el]
  <2> DEFINE f == [x \in D |-> nodes[CHOOSE i \in 1 .. n : ids[i] = x].el]
  <2>1. N = Evaluated(f)
    BY DEF PairIdentityElements
  <2> HIDE DEF f
  <2> QED
    BY <2>1, Worked DEF f
<1>3. \A i \in 1 .. n : i \in 1 .. Len(ids) /\ i \in 1 .. Len(nodes)
  BY <1>1
<1>4. Len(nodes) = 0 => 1 .. n = {}
  BY <1>1
<1> HIDE DEF n
<1>5. ASSUME NEW x \in D PROVE (N[x] = x \/ x \in X) /\ \E k \in 1 .. Len(ids) : ids[k] = x
  <2> DEFINE i == CHOOSE j \in 1 .. n : ids[j] = x
  <2>1. \E j \in 1 .. n : ids[j] = x
    BY <1>5
  <2>2. i \in 1 .. n /\ ids[i] = x
    BY <2>1
  <2>3. N[x] = nodes[i].el
    BY <1>2, <1>5
  <2> HIDE DEF i
  <2>4. i \in 1 .. Len(ids) /\ i \in 1 .. Len(nodes)
    BY <1>3, <2>2
  <2> QED
    BY <2>2, <2>3, <2>4 DEF InPlace
<1> QED
  BY <1>2, <1>4, <1>5

LEMMA AddsFacts ==
  /\ \A e \in DOMAIN Script : Adds(e) \in SUBSET Element
  /\ \A edits \in SUBSET DOMAIN Script : Present(edits) \in SUBSET Element
  /\ \A edits \in SUBSET DOMAIN Script : \A e \in DOMAIN Script \ edits :
       Adds(e) \cap Present(edits) = {}
<1>1. ASSUME NEW e \in DOMAIN Script PROVE Adds(e) \in SUBSET Element
  <2>1. Script[e].el \in Element /\ Below(Script[e].el) \in SUBSET Element
    BY PageAssumption DEF Below
  <2> QED
    BY <2>1 DEF Adds
<1>2. Base \in SUBSET Element /\ \A e \in DOMAIN Script : Adds(e) \cap Base = {}
  BY DEF Base
<1>3. ASSUME NEW edits \in SUBSET DOMAIN Script PROVE Present(edits) \in SUBSET Element
  BY <1>1, <1>2 DEF Present
<1>4. ASSUME NEW edits \in SUBSET DOMAIN Script, NEW e \in DOMAIN Script \ edits
      PROVE  Adds(e) \cap Present(edits) = {}
  <2>1. \A f \in edits : Adds(e) \cap Adds(f) = {}
    BY PageAssumption
  <2> QED
    BY <1>2, <2>1 DEF Present
<1> QED
  BY <1>1, <1>3, <1>4

(* A document: nothing in it has a url it is denied, and each nid that is  *)
(* sent beside it is paired with its element, or known to be displaced.    *)
LEMMA SnapshotFacts ==
  ASSUME NEW r, NEW edits \in SUBSET DOMAIN Script, NEW D, D = SnapshotOf(r, edits)
  PROVE  /\ IsMarkup(D.nodes)
         /\ \A k \in 1 .. Len(D.nodes) : Clean(r, D.nodes[k], Element)
         /\ IsSeq(D.ids) /\ \A i, j \in 1 .. Len(D.ids) : D.ids[i] = D.ids[j] => i = j
         /\ InPlace(D.nodes, D.ids,
              After(Upset(GateSnapshotAssets(r, Markup(r, Present(edits), edits))))
                \cap ToSet(D.ids))
<1> DEFINE M == Markup(r, Present(edits), edits)
           G == GateSnapshotAssets(r, M)
           X == After(Upset(G)) \cap ToSet(D.ids)
<1>1. Present(edits) \in SUBSET Element
  BY AddsFacts
<1>2. D.nodes = Parse(G) /\ D.ids = NodeIds(M)
  BY DEF SnapshotOf, SnapshotDocument
<1>3. /\ IsMarkup(M) /\ \A i \in 1 .. Len(M) : M[i].el \in Element
      /\ \A i, j \in 1 .. Len(M) : i < j => Spot(M[i].el) < Spot(M[j].el)
      /\ IsSeq(D.ids) /\ Len(D.ids) = Len(M)
      /\ \A i \in 1 .. Len(M) : D.ids[i] = M[i].el
  <2>1. M = Markup(r, Present(edits), edits)
    OBVIOUS
  <2> HIDE DEF M
  <2>2. /\ IsMarkup(M) /\ \A i \in 1 .. Len(M) : M[i].el \in Present(edits)
        /\ \A i, j \in 1 .. Len(M) : i < j => Spot(M[i].el) < Spot(M[j].el)
        /\ IsSeq(NodeIds(M)) /\ Len(NodeIds(M)) = Len(M)
        /\ \A i \in 1 .. Len(M) : NodeIds(M)[i] = M[i].el
    <3>1. IsMarkupOf(M, Present(edits), r)
      BY <1>1, <2>1, MarkupFacts
    <3> QED
      BY <3>1 DEF IsMarkupOf
  <2> QED
    BY <1>1, <1>2, <2>2
<1> HIDE DEF M
<1>4. /\ IsMarkup(G)
      /\ \A k \in 1 .. Len(G) : Clean(r, G[k], Element)
      /\ \A k \in 1 .. Len(M) : M[k].el \notin After(Upset(G)) =>
           k \in 1 .. Len(G) /\ \A i \in 1 .. k : G[i].el = M[i].el
  BY <1>3, GateSnapshotFacts
<1> HIDE DEF G
<1>5. IsMarkup(D.nodes) /\ \A k \in 1 .. Len(D.nodes) : Clean(r, D.nodes[k], Element)
  <2>1. /\ IsSeq(D.nodes)
        /\ \A k \in 1 .. Len(D.nodes) :
             D.nodes[k] = StrayNode \/ \E i \in 1 .. Len(G) : D.nodes[k] = G[i]
    BY <1>2, <1>4, ParseFacts
  <2>2. Clean(r, StrayNode, Element)
    <3>1. IsNode(StrayNode)
      <4>1. NoAssets = [a \in Attr |-> NoAssets[a]]
        BY DEF NoAssets
      <4> QED
        BY <4>1, NodeShape DEF StrayNode
    <3> QED
      BY <3>1, BoxIsClean
  <2>3. \A k \in 1 .. Len(D.nodes) : Clean(r, D.nodes[k], Element)
    BY <1>4, <2>1, <2>2
  <2>4. \A k \in 1 .. Len(D.nodes) : IsNode(D.nodes[k])
    BY <2>3 DEF Clean
  <2> QED
    BY <2>1, <2>3, <2>4 DEF IsMarkup
<1>6. ASSUME NEW i \in 1 .. Len(M), NEW j \in 1 .. Len(M), M[i].el = M[j].el PROVE i = j
  <2>1. Spot(M[i].el) \in Nat
    BY <1>3, SpotFacts, OrderFacts
  <2>2. ~(i < j) /\ ~(j < i)
    BY <1>3, <1>6, <2>1
  <2>3. i \in Nat /\ j \in Nat
    BY <1>3 DEF IsSeq
  <2> QED
    BY <2>2, <2>3
<1>7. ASSUME NEW k \in 1 .. Len(D.nodes), k \in 1 .. Len(D.ids),
             D.ids[k] \notin After(Upset(G))
      PROVE  D.nodes[k].el = D.ids[k]
  <2>1. k \in 1 .. Len(M) /\ M[k].el \notin After(Upset(G))
    BY <1>3, <1>7
  <2>2. k \in 1 .. Len(G) /\ \A i \in 1 .. k : G[i].el = M[i].el
    BY <1>4, <2>1
  <2>3. k \in Nat /\ k \in 1 .. k /\ \A i \in 1 .. k : i \in 1 .. Len(M) /\ i <= k
    BY <1>3, <2>1 DEF IsMarkup, IsSeq
  <2>4. ASSUME NEW i \in 1 .. k PROVE Spot(G[i].el) <= Spot(G[k].el)
    <3>1. G[i].el = M[i].el /\ G[k].el = M[k].el
      BY <2>2, <2>3
    <3>2. Spot(M[i].el) \in Nat /\ Spot(M[k].el) \in Nat
      BY <1>3, <2>1, <2>3, SpotFacts, OrderFacts
    <3>3. i < k => Spot(M[i].el) < Spot(M[k].el)
      BY <1>3, <2>1, <2>3
    <3>4. i < k \/ i = k
      BY <2>3
    <3> QED
      BY <3>1, <3>2, <3>3, <3>4
  <2>5. G[k].el \in Element /\ G[k].el \notin After(Upset(G)) /\ G[k].el = M[k].el
    BY <1>3, <2>1, <2>2, <2>3
  <2>6. Parse(G)[k] = G[k]
    BY <1>4, <2>2, <2>4, <2>5, ParseInPlace
  <2> QED
    BY <1>2, <1>3, <2>1, <2>5, <2>6
<1>8. \A k \in 1 .. Len(D.ids) : D.ids[k] \in ToSet(D.ids)
  <2>1. DOMAIN D.ids = 1 .. Len(D.ids)
    BY <1>3 DEF IsSeq
  <2> QED
    BY <2>1 DEF ToSet
<1>9. InPlace(D.nodes, D.ids, X)
  BY <1>7, <1>8 DEF InPlace
<1>10. \A i, j \in 1 .. Len(D.ids) : D.ids[i] = D.ids[j] => i = j
  BY <1>3, <1>6
<1> QED
  BY <1>3, <1>5, <1>9, <1>10 DEF G, M

(* Which elements are upset does not depend on what was written to them.   *)
LEMMA UpsetFacts ==
  ASSUME NEW r, NEW S, NEW edits, NEW other
  PROVE  Upset(Markup(r, S, edits)) = Upset(Markup(r, S, other))
<1> DEFINE M == Markup(r, S, edits)
           N == Markup(r, S, other)
           kept == Sent(r, S)
<1>1. ASSUME NEW any
      PROVE  /\ DOMAIN Markup(r, S, any) = DOMAIN kept
             /\ \A i \in DOMAIN kept : /\ Markup(r, S, any)[i].el = kept[i]
                                       /\ Markup(r, S, any)[i].box = (kept[i] \in r.held)
  <2> DEFINE f == [i \in DOMAIN kept |->
                     [el |-> kept[i], box |-> kept[i] \in r.held,
                      has |-> IF kept[i] \in r.held THEN NoAssets ELSE Attributes(kept[i], any)]]
  <2>1. Evaluated(kept) = kept
    BY Worked
  <2>2. Markup(r, S, any) = Evaluated(f)
    BY <2>1 DEF Markup
  <2>3. Evaluated(f) = f
    <3> HIDE DEF f
    <3> QED
      BY Worked
  <2> HIDE DEF kept
  <2> QED
    BY <2>2, <2>3
<1>2. /\ DOMAIN M = DOMAIN kept /\ DOMAIN N = DOMAIN kept
      /\ \A i \in DOMAIN kept : M[i].el = N[i].el /\ M[i].box = N[i].box
  BY <1>1
<1> HIDE DEF M, N, kept
<1>3. \A i \in DOMAIN kept : Inside(M, i) = Inside(N, i)
  BY <1>2 DEF Inside
<1>4. Split(M) = Split(N)
  <2>1. \A i : i \in Split(M) => i \in Split(N)
    BY <1>2, <1>3 DEF Split, Inside
  <2>2. \A i : i \in Split(N) => i \in Split(M)
    BY <1>2, <1>3 DEF Split, Inside
  <2> QED
    BY <2>1, <2>2
<1>5. Split(M) \subseteq DOMAIN kept
  BY <1>2 DEF Split
<1>6. Upset(M) = Upset(N)
  <2>1. \A x : x \in Upset(M) => x \in Upset(N)
    BY <1>2, <1>4, <1>5 DEF Upset
  <2>2. \A x : x \in Upset(N) => x \in Upset(M)
    BY <1>2, <1>4, <1>5 DEF Upset
  <2> QED
    BY <2>1, <2>2
<1> QED
  BY <1>6 DEF M, N

(* Of a paragraph that is split, what comes before the first placeholder.  *)
LEMMA FirstElementFacts ==
  ASSUME NEW M, IsMarkup(M), \A i \in 1 .. Len(M) : M[i].el \in Element,
         \A i, j \in 1 .. Len(M) : i < j => Spot(M[i].el) < Spot(M[j].el),
         NEW F, F = FirstElement(M)
  PROVE  /\ IsSeq(F)
         /\ \A k \in 1 .. Len(F) : F[k] = StrayNode \/ \E i \in 1 .. Len(M) : F[k] = M[i]
         /\ \A k \in 1 .. Len(F) : k \in 1 .. Len(M) =>
              F[k].el = M[k].el \/ M[k].el \in After(Upset(M))
<1>1. Len(M) \in Nat /\ DOMAIN M = 1 .. Len(M) /\ IsSeq(M)
  BY DEF IsMarkup, IsSeq
<1>2. CASE 1 \in Split(M)
  <2> DEFINE boxes == {j \in DOMAIN M : M[j].box}
             b == CHOOSE j \in boxes : \A k \in boxes : j <= k
  <2>1. boxes # {} /\ boxes \in SUBSET (1 .. Len(M))
    BY <1>1, <1>2 DEF Split, Inside
  <2>2. b \in boxes
    <3> HIDE DEF boxes
    <3>1. \E i \in boxes : \A j \in boxes : i <= j
      BY <1>1, <2>1, FirstAndLast
    <3> QED
      BY <3>1
  <2>3. F = SubSeq(M, 1, b - 1)
    BY <1>2 DEF FirstElement
  <2>4. b \in 1 .. Len(M)
    BY <2>1, <2>2
  <2> HIDE DEF b, boxes
  <2>5. M \in Seq({M[i] : i \in 1 .. Len(M)})
    BY <1>1 DEF IsSeq
  <2>6. IsSeq(F) /\ \A k \in 1 .. Len(F) : k \in 1 .. Len(M) /\ F[k] = M[k]
    <3>1. b - 1 \in Int /\ b - 1 \in Nat /\ \A k \in 1 .. b - 1 : k \in 1 .. Len(M)
      BY <1>1, <2>4
    <3> DEFINE T == {M[i] : i \in 1 .. Len(M)}
    <3>2. \A k \in 1 .. b - 1 : M[k] \in T
      BY <3>1
    <3> HIDE DEF T
    <3>3. /\ F \in Seq(T) /\ Len(F) = IF 1 <= b - 1 THEN b - 1 - 1 + 1 ELSE 0
          /\ \A i \in 1 .. b - 1 - 1 + 1 : F[i] = M[1 + i - 1]
      BY <2>3, <3>1, <3>2, SubSeqProperties
    <3>4. Len(F) = b - 1 /\ \A i \in 1 .. b - 1 : F[i] = M[i]
      <4>1. Len(F) = b - 1
        BY <3>1, <3>3
      <4>2. ASSUME NEW i \in 1 .. b - 1 PROVE F[i] = M[i]
        <5>1. i \in 1 .. b - 1 - 1 + 1 /\ 1 + i - 1 = i
          BY <3>1
        <5> QED
          BY <3>3, <5>1
      <4> QED
        BY <4>1, <4>2
    <3>5. IsSeq(F)
      <4>1. F \in Seq(T)
        BY <3>3
      <4> QED
        BY <4>1 DEF IsSeq
    <3> QED
      BY <3>1, <3>4, <3>5
  <2> QED
    BY <2>6
<1>3. CASE 1 \notin Split(M)
  <2>1. F = Parse(M)
    BY <1>3 DEF FirstElement
  <2>2. /\ IsSeq(F)
        /\ \A k \in 1 .. Len(F) : F[k] = StrayNode \/ \E i \in 1 .. Len(M) : F[k] = M[i]
    BY <2>1, ParseFacts
  <2>3. ASSUME NEW k \in 1 .. Len(M), M[k].el \notin After(Upset(M)) PROVE F[k] = M[k]
    <3>1. ASSUME NEW j \in 1 .. k PROVE Spot(M[j].el) <= Spot(M[k].el)
      <4>1. j \in 1 .. Len(M) /\ (j < k \/ j = k)
        BY <1>1
      <4>2. Spot(M[j].el) \in Nat /\ Spot(M[k].el) \in Nat
        BY <4>1, SpotFacts, OrderFacts
      <4> QED
        BY <4>1, <4>2
    <3> QED
      BY <2>1, <2>3, <3>1, ParseInPlace
  <2> QED
    BY <2>2, <2>3
<1> QED
  BY <1>2, <1>3

(* An added subtree: the same, but for the srcset of a source.             *)
LEMMA AddedFacts ==
  ASSUME NEW r, NEW e \in DOMAIN Script, NEW edits, NEW A, A = Added(r, e, edits)
  PROVE  /\ IsMarkup(A.nodes)
         /\ \A S \in SUBSET Element : S \cap Adds(e) = {} =>
              \A k \in 1 .. Len(A.nodes) : Clean(r, A.nodes[k], S)
         /\ DOMAIN A.index \subseteq Adds(e)
         /\ \A x \in DOMAIN A.index :
              A.index[x] = x \/ x \in After(Upset(Markup(r, Adds(e), {}))) \cap Adds(e)
<1> DEFINE M == Markup(r, Adds(e), edits)
           F == FirstElement(M)
           ids == NodeIds(M)
           X == After(Upset(Markup(r, Adds(e), {}))) \cap Adds(e)
<1>1. /\ A.nodes = GateFragmentAssets(r, F)
      /\ A.index = PairIdentityElements(A.nodes, ids)
  BY DEF Added, Fragment
<1>2. Upset(M) = Upset(Markup(r, Adds(e), {}))
  BY UpsetFacts
<1>3. Adds(e) \in SUBSET Element
  BY AddsFacts
<1>4. /\ IsMarkup(M)
      /\ \A i \in 1 .. Len(M) : M[i].el \in Adds(e)
      /\ \A i, j \in 1 .. Len(M) : i < j => Spot(M[i].el) < Spot(M[j].el)
      /\ IsSeq(ids) /\ Len(ids) = Len(M)
      /\ \A i \in 1 .. Len(M) : ids[i] = M[i].el
  <2>1. M = Markup(r, Adds(e), edits)
    OBVIOUS
  <2>2. IsMarkupOf(Markup(r, Adds(e), edits), Adds(e), r)
    BY <1>3, MarkupFacts
  <2> HIDE DEF M
  <2> QED
    BY <2>1, <2>2 DEF IsMarkupOf
<1> HIDE DEF M
<1>5. /\ IsSeq(F)
      /\ \A k \in 1 .. Len(F) : F[k] = StrayNode \/ \E i \in 1 .. Len(M) : F[k] = M[i]
      /\ \A k \in 1 .. Len(F) : k \in 1 .. Len(M) =>
           F[k].el = M[k].el \/ M[k].el \in After(Upset(M))
  <2>1. \A i \in 1 .. Len(M) : M[i].el \in Element
    BY <1>3, <1>4
  <2> QED
    BY <1>4, <2>1, FirstElementFacts
<1> HIDE DEF F, ids
<1>6. ASSUME NEW k \in 1 .. Len(F) PROVE IsNode(F[k]) /\ F[k].el \in Adds(e) \cup {Stray}
  <2>1. IsNode(StrayNode) /\ StrayNode.el = Stray
    <3>1. NoAssets = [a \in Attr |-> NoAssets[a]]
      BY DEF NoAssets
    <3> QED
      BY <3>1, NodeShape DEF StrayNode
  <2>2. \A i \in 1 .. Len(M) : IsNode(M[i])
    BY <1>4 DEF IsMarkup
  <2> QED
    BY <1>4, <1>5, <2>1, <2>2
<1>7. IsMarkup(F)
  BY <1>5, <1>6 DEF IsMarkup
<1>8. /\ IsMarkup(A.nodes) /\ Len(A.nodes) = Len(F)
      /\ \A k \in 1 .. Len(F) :
           /\ A.nodes[k].el = F[k].el
           /\ \A S \in SUBSET Element :
                Clean(r, F[k], S) \/ F[k].el \notin S => Clean(r, A.nodes[k], S)
  BY <1>1, <1>7, GateFragmentFacts
<1>9. ASSUME NEW S \in SUBSET Element, S \cap Adds(e) = {}, NEW k \in 1 .. Len(A.nodes)
      PROVE  Clean(r, A.nodes[k], S)
  <2>1. Stray \notin S
    BY PageAssumption
  <2>2. F[k].el \notin S
    BY <1>6, <1>8, <1>9, <2>1
  <2> QED
    BY <1>8, <2>2
<1>10. InPlace(A.nodes, ids, X)
  BY <1>2, <1>4, <1>5, <1>8 DEF InPlace
<1>11. ASSUME NEW i \in 1 .. Len(ids), NEW j \in 1 .. Len(ids), ids[i] = ids[j] PROVE i = j
  <2>1. Spot(M[i].el) \in Nat
    BY <1>3, <1>4, SpotFacts, OrderFacts
  <2>2. ~(i < j) /\ ~(j < i)
    BY <1>4, <1>11, <2>1
  <2>3. i \in Nat /\ j \in Nat
    BY <1>4 DEF IsSeq
  <2> QED
    BY <2>2, <2>3
<1> HIDE DEF X
<1>12. /\ \A x \in DOMAIN A.index : A.index[x] = x \/ x \in X
       /\ \A x \in DOMAIN A.index : \E k \in 1 .. Len(ids) : ids[k] = x
  BY <1>1, <1>4, <1>8, <1>10, <1>11, PairFacts
<1>13. DOMAIN A.index \subseteq Adds(e)
  BY <1>4, <1>12
<1> QED
  BY <1>8, <1>9, <1>12, <1>13 DEF X

-----------------------------------------------------------------------------
(* The tables.                                                             *)

LEMMA ScriptFacts == Len(Script) \in Nat /\ DOMAIN Script = 1 .. Len(Script)
<1>1. Script \in Seq(ToSet(Script))
  BY PageAssumption
<1> QED
  BY <1>1

LEMMA TableFacts ==
  ASSUME NEW r \in Rules, NEW edits \in Batches
  PROVE  /\ Documents[r][edits] = SnapshotOf(r, edits)
         /\ Displacements[r][edits] = DisplacedBy(r, edits)
         /\ \A e \in DOMAIN Script : IsAdd(e) => Subtrees[r][e][edits] = Added(r, e, edits)
<1>1. Documents[r][edits] = SnapshotOf(r, edits)
  <2> DEFINE row(q) == [x \in Batches |-> SnapshotOf(q, x)]
             all    == [q \in Rules |-> Evaluated(row(q))]
  <2>1. Documents = Evaluated(all)
    BY DEF Documents
  <2>2. Documents = all
    <3> HIDE DEF all
    <3> QED
      BY <2>1, Worked
  <2>3. Documents[r] = Evaluated(row(r))
    BY <2>2
  <2>4. Documents[r] = row(r)
    <3> HIDE DEF row
    <3> QED
      BY <2>3, Worked
  <2> QED
    BY <2>4
<1>2. Displacements[r][edits] = DisplacedBy(r, edits)
  <2> DEFINE row(q) == [x \in Batches |-> DisplacedBy(q, x)]
             all    == [q \in Rules |-> Evaluated(row(q))]
  <2>1. Displacements = Evaluated(all)
    BY DEF Displacements
  <2>2. Displacements = all
    <3> HIDE DEF all
    <3> QED
      BY <2>1, Worked
  <2>3. Displacements[r] = Evaluated(row(r))
    BY <2>2
  <2>4. Displacements[r] = row(r)
    <3> HIDE DEF row
    <3> QED
      BY <2>3, Worked
  <2> QED
    BY <2>4
<1>3. ASSUME NEW e \in DOMAIN Script, IsAdd(e)
      PROVE  Subtrees[r][e][edits] = Added(r, e, edits)
  <2> DEFINE cell(q, f) == [x \in Batches |-> Added(q, f, x)]
             row(q) == [f \in {g \in DOMAIN Script : IsAdd(g)} |-> Evaluated(cell(q, f))]
             all    == [q \in Rules |-> Evaluated(row(q))]
  <2>1. Subtrees = Evaluated(all)
    BY DEF Subtrees
  <2>2. Subtrees = all
    <3> HIDE DEF all
    <3> QED
      BY <2>1, Worked
  <2>3. Subtrees[r] = Evaluated(row(r))
    BY <2>2
  <2>4. Subtrees[r] = row(r)
    <3> HIDE DEF row
    <3> QED
      BY <2>3, Worked
  <2>5. Subtrees[r][e] = Evaluated(cell(r, e))
    BY <1>3, <2>4
  <2>6. Subtrees[r][e] = cell(r, e)
    <3> HIDE DEF cell
    <3> QED
      BY <2>5, Worked
  <2> QED
    BY <2>6
<1> QED
  BY <1>1, <1>2, <1>3

(* A document D right under the rules r, but for the nids in X.            *)
IsDocument(D, r, X) ==
  /\ IsMarkup(D.nodes)
  /\ \A k \in 1 .. Len(D.nodes) : Clean(r, D.nodes[k], Element)
  /\ IsSeq(D.ids) /\ \A i, j \in 1 .. Len(D.ids) : D.ids[i] = D.ids[j] => i = j
  /\ InPlace(D.nodes, D.ids, X)

LEMMA DocumentRight ==
  ASSUME NEW r \in Rules, NEW edits \in Batches
  PROVE  IsDocument(Documents[r][edits], r, Displacements[r][edits])
<1> DEFINE D == Documents[r][edits]
           X == After(Upset(GateSnapshotAssets(r, Markup(r, Present(edits), edits))))
                  \cap ToSet(D.ids)
<1>1. D = SnapshotOf(r, edits) /\ edits \in SUBSET DOMAIN Script /\ D = Documents[r][edits]
  BY TableFacts DEF Batches
<1> HIDE DEF D
<1>2. /\ IsMarkup(D.nodes)
      /\ \A k \in 1 .. Len(D.nodes) : Clean(r, D.nodes[k], Element)
      /\ IsSeq(D.ids) /\ \A i, j \in 1 .. Len(D.ids) : D.ids[i] = D.ids[j] => i = j
      /\ InPlace(D.nodes, D.ids, X)
  BY <1>1, SnapshotFacts
<1>3. X \subseteq Displacements[r][edits]
  <2>1. Displacements[r][edits] = DisplacedBy(r, edits) /\ D = Documents[r][edits]
    BY <1>1, TableFacts
  <2> QED
    BY <2>1 DEF DisplacedBy
<1> HIDE DEF X
<1>4. InPlace(D.nodes, D.ids, Displacements[r][edits])
  BY <1>2, <1>3 DEF InPlace
<1>5. IsDocument(D, r, Displacements[r][edits])
  BY <1>2, <1>4 DEF IsDocument
<1> QED
  BY <1>1, <1>5

LEMMA SubtreeRight ==
  ASSUME NEW r \in Rules, NEW e \in DOMAIN Script, IsAdd(e), NEW edits \in Batches,
         NEW A, A = Subtrees[r][e][edits]
  PROVE  /\ IsMarkup(A.nodes)
         /\ \A S \in SUBSET Element : S \cap Adds(e) = {} =>
              \A k \in 1 .. Len(A.nodes) : Clean(r, A.nodes[k], S)
         /\ DOMAIN A.index \subseteq Adds(e)
         /\ \A any \in Batches : \A x \in DOMAIN A.index :
              A.index[x] = x \/ x \in Displacements[r][any]
<1> DEFINE X == After(Upset(Markup(r, Adds(e), {}))) \cap Adds(e)
<1>1. A = Added(r, e, edits)
  BY TableFacts
<1>2. /\ IsMarkup(A.nodes)
      /\ \A S \in SUBSET Element : S \cap Adds(e) = {} =>
           \A k \in 1 .. Len(A.nodes) : Clean(r, A.nodes[k], S)
      /\ DOMAIN A.index \subseteq Adds(e)
      /\ \A x \in DOMAIN A.index : A.index[x] = x \/ x \in X
  BY <1>1, AddedFacts
<1>3. ASSUME NEW any \in Batches PROVE X \subseteq Displacements[r][any]
  <2>1. Displacements[r][any] = DisplacedBy(r, any)
    BY TableFacts
  <2> QED
    BY <2>1 DEF DisplacedBy
<1> HIDE DEF X
<1> QED
  BY <1>2, <1>3

-----------------------------------------------------------------------------
(* The log.  Each session begins with a snapshot of all that was shown     *)
(* before, so nothing a snapshot shows is ever sent again.                 *)

Message == [kind : {"snapshot", "mutations"}, session : Nat, edits : SUBSET Nat]

(* What can be in a message when n edits have been made.                   *)
Sendable(n) == (1 .. n) \ NoDiff

LogOK(log, n, s) ==
  /\ log \in Seq(Message)
  /\ \A i \in 1 .. Len(log) :
       /\ log[i].edits \subseteq Sendable(n) /\ log[i].session <= s
       /\ log[i].kind = "snapshot" => log[i].session >= 1
  /\ \A i, j \in 1 .. Len(log) : i < j =>
       /\ log[i].session <= log[j].session
       /\ log[j].kind = "snapshot" => log[i].session < log[j].session
       /\ log[i].kind = "snapshot" /\ log[j].kind = "mutations" =>
            log[i].edits \cap log[j].edits = {}
  /\ s >= 1 => \E i \in 1 .. Len(log) :
       /\ log[i].kind = "snapshot" /\ log[i].session = s
       /\ \A q \in 1 .. Len(log) : log[q].kind = "snapshot" => log[q].edits \subseteq log[i].edits

(* A longer log.                                                           *)
Extends(new, old) ==
  /\ Len(new) \in Nat /\ Len(old) \in Nat /\ Len(old) <= Len(new)
  /\ \A i \in 1 .. Len(old) : new[i] = old[i]

(* Nothing in E is shown by a snapshot of the log.                         *)
NeverShown(log, E) ==
  \A i \in 1 .. Len(log) : log[i].kind = "snapshot" => log[i].edits \cap E = {}

LEMMA OneMore ==
  ASSUME NEW log \in Seq(Message), NEW m \in Message, NEW new, new = log \o <<m>>
  PROVE  /\ new \in Seq(Message) /\ Len(log) \in Nat /\ Len(new) = Len(log) + 1
         /\ \A i \in 1 .. Len(log) : new[i] = log[i]
         /\ new[Len(log) + 1] = m
<1>1. <<m>> \in Seq(Message) /\ Len(<<m>>) = 1 /\ <<m>>[1] = m
  OBVIOUS
<1>2. /\ new \in Seq(Message)
      /\ Len(new) = Len(log) + 1
      /\ \A i \in 1 .. (Len(log) + 1) :
           new[i] = IF i <= Len(log) THEN log[i] ELSE <<m>>[i - Len(log)]
  BY <1>1, ConcatProperties
<1>3. Len(log) \in Nat
  BY LenProperties
<1>4. \A i \in 1 .. Len(log) : new[i] = log[i]
  BY <1>2, <1>3
<1>5. new[Len(log) + 1] = m
  <2>1. (Len(log) + 1) - Len(log) = 1 /\ ~(Len(log) + 1 <= Len(log))
    BY <1>3
  <2> QED
    BY <1>1, <1>2, <1>3, <2>1
<1> QED
  BY <1>2, <1>3, <1>4, <1>5

LEMMA MessageFacts ==
  ASSUME NEW log \in Seq(Message), NEW i \in 1 .. Len(log)
  PROVE  /\ log[i].session \in Nat /\ log[i].edits \subseteq Nat
         /\ log[i].kind \in {"snapshot", "mutations"}
<1>1. log[i] \in Message
  BY ElementOfSeq
<1> QED
  BY <1>1 DEF Message

(* Diffs of the current session that no snapshot shows may follow.         *)
LEMMA AppendDiffs ==
  ASSUME NEW log, NEW n \in Nat, NEW s \in Nat, LogOK(log, n, s),
         NEW E \in SUBSET Sendable(n), NeverShown(log, E),
         NEW msgs \in Seq(Message),
         \A i \in 1 .. Len(msgs) : /\ msgs[i].kind = "mutations"
                                 /\ msgs[i].session = s
                                 /\ msgs[i].edits \subseteq E,
         NEW new, new = log \o msgs
  PROVE  LogOK(new, n, s) /\ Extends(new, log)
<1> DEFINE L == Len(log)
           k == Len(msgs)
<1>1. log \in Seq(Message) /\ L \in Nat /\ k \in Nat
  BY DEF LogOK
<1>2. /\ new \in Seq(Message) /\ Len(new) = L + k
      /\ \A i \in 1 .. (L + k) : new[i] = IF i <= L THEN log[i] ELSE msgs[i - L]
  BY <1>1, ConcatProperties
<1>3. \A i \in 1 .. L : i \in 1 .. Len(new) /\ new[i] = log[i]
  BY <1>1, <1>2
<1>4. ASSUME NEW i \in 1 .. Len(new), i \notin 1 .. L
      PROVE  /\ i > L /\ new[i].kind = "mutations" /\ new[i].session = s
             /\ new[i].edits \subseteq E
  <2>1. i > L /\ i - L \in 1 .. k /\ new[i] = msgs[i - L]
    BY <1>1, <1>2, <1>4
  <2> QED
    BY <2>1
<1> HIDE DEF L, k
<1>5. \A i \in 1 .. L : log[i].session <= s
  BY DEF LogOK, L
<1>6. ASSUME NEW i \in 1 .. Len(new)
      PROVE  /\ new[i].edits \subseteq Sendable(n) /\ new[i].session <= s
             /\ new[i].kind = "snapshot" => new[i].session >= 1 /\ i \in 1 .. L
  <2>1. CASE i \in 1 .. L
    BY <1>3, <2>1 DEF LogOK, L
  <2>2. CASE i \notin 1 .. L
    <3>1. s <= s
      OBVIOUS
    <3> QED
      BY <1>4, <2>2, <3>1
  <2> QED
    BY <2>1, <2>2
<1>7. ASSUME NEW i \in 1 .. Len(new), NEW j \in 1 .. Len(new), i < j
      PROVE  /\ new[i].session <= new[j].session
             /\ new[j].kind = "snapshot" => new[i].session < new[j].session
             /\ new[i].kind = "snapshot" /\ new[j].kind = "mutations" =>
                  new[i].edits \cap new[j].edits = {}
  <2>1. CASE j \in 1 .. L
    <3>1. i \in 1 .. L
      BY <1>1, <1>7, <2>1
    <3> QED
      BY <1>3, <1>7, <2>1, <3>1 DEF LogOK, L
  <2>2. CASE j \notin 1 .. L
    <3>1. new[j].session = s /\ new[j].kind = "mutations" /\ new[j].edits \subseteq E
      BY <1>4, <2>2
    <3>2. new[i].session <= s /\ (new[i].kind = "snapshot" => i \in 1 .. L)
      BY <1>6
    <3>3. ASSUME new[i].kind = "snapshot" PROVE new[i].edits \cap E = {}
      BY <1>3, <3>2, <3>3 DEF NeverShown, L
    <3> QED
      BY <3>1, <3>2, <3>3
  <2> QED
    BY <2>1, <2>2
<1>8. ASSUME s >= 1
      PROVE  \E i \in 1 .. Len(new) :
               /\ new[i].kind = "snapshot" /\ new[i].session = s
               /\ \A q \in 1 .. Len(new) :
                    new[q].kind = "snapshot" => new[q].edits \subseteq new[i].edits
  <2>1. PICK i \in 1 .. L :
          /\ log[i].kind = "snapshot" /\ log[i].session = s
          /\ \A q \in 1 .. L : log[q].kind = "snapshot" => log[q].edits \subseteq log[i].edits
    BY <1>8 DEF LogOK, L
  <2>2. i \in 1 .. Len(new) /\ new[i] = log[i]
    BY <1>3, <2>1
  <2>3. \A q \in 1 .. Len(new) : new[q].kind = "snapshot" => new[q].edits \subseteq new[i].edits
    BY <1>3, <1>6, <2>1, <2>2
  <2> QED
    BY <2>1, <2>2, <2>3
<1>10. Extends(new, log)
  BY <1>1, <1>2, <1>3 DEF Extends, L
<1> QED
  BY <1>2, <1>6, <1>7, <1>8, <1>10 DEF LogOK

LEMMA AppendSnapshot ==
  ASSUME NEW log, NEW n \in Nat, NEW s \in Nat, LogOK(log, n, s),
         NEW E \in SUBSET Sendable(n),
         \A i \in 1 .. Len(log) : log[i].kind = "snapshot" => log[i].edits \subseteq E,
         NEW m \in Message, m.kind = "snapshot", m.session = s + 1, m.edits = E,
         NEW new, new = log \o <<m>>
  PROVE  LogOK(new, n, s + 1) /\ Extends(new, log)
<1> DEFINE L == Len(log)
<1>1. log \in Seq(Message)
  BY DEF LogOK
<1>2. m.kind = "snapshot" /\ m.session = s + 1 /\ m.edits = E
  OBVIOUS
<1>3. /\ new \in Seq(Message) /\ L \in Nat /\ Len(new) = L + 1
      /\ \A i \in 1 .. L : new[i] = log[i]
      /\ new[L + 1] = m
  BY <1>1, OneMore
<1>4. \A i \in 1 .. Len(new) : i \in 1 .. L \/ i = L + 1
  BY <1>3
<1>5. \A i \in 1 .. L : log[i].session <= s /\ log[i].session \in Nat
  BY <1>1, MessageFacts DEF LogOK
<1>6. \A i \in 1 .. Len(new) :
        /\ new[i].edits \subseteq Sendable(n) /\ new[i].session <= s + 1
        /\ new[i].kind = "snapshot" => new[i].session >= 1
  <2>1. ASSUME NEW i \in 1 .. L
        PROVE  /\ new[i].edits \subseteq Sendable(n) /\ new[i].session <= s + 1
               /\ new[i].kind = "snapshot" => new[i].session >= 1
    <3>1. new[i] = log[i] /\ log[i].session <= s /\ log[i].session \in Nat
      BY <1>3, <1>5
    <3> QED
      BY <3>1 DEF LogOK
  <2>2. /\ new[L + 1].edits \subseteq Sendable(n) /\ new[L + 1].session <= s + 1
        /\ new[L + 1].session >= 1
    <3>1. new[L + 1] = m
      BY <1>3
    <3>2. m.session <= s + 1 /\ m.session >= 1
      BY <1>2
    <3> QED
      BY <1>2, <3>1, <3>2
  <2> SUFFICES ASSUME NEW i \in 1 .. Len(new)
               PROVE  /\ new[i].edits \subseteq Sendable(n) /\ new[i].session <= s + 1
                      /\ new[i].kind = "snapshot" => new[i].session >= 1
    OBVIOUS
  <2>3. CASE i \in 1 .. L
    BY <2>1, <2>3
  <2>4. CASE i = L + 1
    BY <2>2, <2>4
  <2> QED
    BY <1>4, <2>3, <2>4
<1>7. ASSUME NEW i \in 1 .. Len(new), NEW j \in 1 .. Len(new), i < j
      PROVE  /\ new[i].session <= new[j].session
             /\ new[j].kind = "snapshot" => new[i].session < new[j].session
             /\ new[i].kind = "snapshot" /\ new[j].kind = "mutations" =>
                  new[i].edits \cap new[j].edits = {}
  <2>1. i \in 1 .. L
    BY <1>3, <1>7
  <2>2. CASE j \in 1 .. L
    BY <1>3, <1>7, <2>1, <2>2 DEF LogOK
  <2>3. CASE j = L + 1
    BY <1>2, <1>3, <1>5, <2>1, <2>3
  <2> QED
    BY <1>4, <2>2, <2>3
<1>8. \E i \in 1 .. Len(new) :
        /\ new[i].kind = "snapshot" /\ new[i].session = s + 1
        /\ \A q \in 1 .. Len(new) :
             new[q].kind = "snapshot" => new[q].edits \subseteq new[i].edits
  <2>1. L + 1 \in 1 .. Len(new)
    BY <1>3
  <2>2. \A q \in 1 .. Len(new) : new[q].kind = "snapshot" => new[q].edits \subseteq E
    BY <1>2, <1>3, <1>4
  <2> QED
    BY <1>2, <1>3, <2>1, <2>2
<1>9. Extends(new, log)
  BY <1>3 DEF Extends
<1> QED
  BY <1>3, <1>6, <1>7, <1>8, <1>9 DEF LogOK

LEMMA AppendBatch ==
  ASSUME session \in Nat, NEW n \in Nat, LogOK(sent, n, session),
         NEW E \in SUBSET Sendable(n), NeverShown(sent, E), NEW k \in Nat, NEW place
  PROVE  /\ Batch(E, k, place) \in Seq(Message)
         /\ LogOK(sent \o Batch(E, k, place), n, session)
         /\ Extends(sent \o Batch(E, k, place), sent)
<1> DEFINE msgs == Batch(E, k, place)
<1>1. ASSUME NEW i \in 1 .. k
      PROVE  /\ msgs[i] \in Message /\ msgs[i].kind = "mutations"
             /\ msgs[i].session = session /\ msgs[i].edits \subseteq E
  <2> DEFINE F == {e \in E : place[e] = i}
  <2>1. msgs[i] = [kind |-> "mutations", session |-> session, edits |-> F]
    BY DEF Batch, Diff
  <2>2. F \subseteq E /\ F \in SUBSET Nat
    <3>1. E \subseteq Nat
      BY DEF Sendable
    <3> QED
      BY <3>1
  <2> HIDE DEF F, msgs
  <2> QED
    BY <2>1, <2>2 DEF Message
<1>2. msgs = [i \in 1 .. k |-> msgs[i]]
  BY DEF Batch
<1> HIDE DEF msgs
<1>3. msgs \in Seq(Message) /\ Len(msgs) = k
  BY <1>1, <1>2
<1>4. LogOK(sent \o msgs, n, session) /\ Extends(sent \o msgs, sent)
  BY <1>1, <1>3, AppendDiffs
<1> QED
  BY <1>3, <1>4 DEF msgs

(* What has not been delivered has not been shown by a snapshot either.    *)
LEMMA UndeliveredNeverShown ==
  ASSUME session \in Nat, LogOK(sent, page, session), NEW E, Undelivered(E)
  PROVE  NeverShown(sent, E) /\ E \in SUBSET Sendable(page)
<1>1. E \in SUBSET Sendable(page)
  BY DEF Undelivered, Showing, Sendable
<1>2. sent \in Seq(Message) /\ DOMAIN sent = 1 .. Len(sent)
  BY DEF LogOK
<1>3. ASSUME NEW q \in 1 .. Len(sent), sent[q].kind = "snapshot"
      PROVE  sent[q].edits \cap E = {}
  <2>1. sent[q].session >= 1 /\ sent[q].session <= session /\ sent[q].session \in Nat
    BY <1>2, <1>3, MessageFacts DEF LogOK
  <2>2. session >= 1
    BY <2>1
  <2>3. PICK i \in 1 .. Len(sent) :
          /\ sent[i].session = session
          /\ \A p \in 1 .. Len(sent) : sent[p].kind = "snapshot" => sent[p].edits \subseteq sent[i].edits
    BY <2>2 DEF LogOK
  <2>4. \A a \in sent[i].edits, b \in E : a < b
    BY <1>2, <2>3 DEF Undelivered
  <2>5. sent[i].edits \subseteq Nat
    BY <1>2, MessageFacts
  <2>6. sent[i].edits \cap E = {}
    BY <2>4, <2>5
  <2> QED
    BY <1>3, <2>3, <2>6
<1> QED
  BY <1>1, <1>3 DEF NeverShown

FeedOK == page \in 0 .. Len(Script) /\ session \in Nat /\ LogOK(sent, page, session)

LEMMA FeedInitOK == FeedInit => FeedOK
<1> SUFFICES ASSUME FeedInit PROVE FeedOK
  OBVIOUS
<1>1. page = 0 /\ session = 0 /\ sent = <<>>
  BY DEF FeedInit
<1>2. <<>> \in Seq(Message) /\ Len(<<>>) = 0
  OBVIOUS
<1>3. LogOK(sent, page, session)
  BY <1>1, <1>2 DEF LogOK
<1>4. page \in 0 .. Len(Script)
  BY <1>1, ScriptFacts
<1> QED
  BY <1>1, <1>3, <1>4 DEF FeedOK

LEMMA FeedStep ==
  ASSUME FeedOK, (page < Len(Script) /\ Advance) \/ Deliver \/ Begin
  PROVE  FeedOK' /\ Extends(sent', sent)
<1>1. /\ page \in 0 .. Len(Script) /\ page \in Nat /\ session \in Nat
      /\ LogOK(sent, page, session) /\ sent \in Seq(Message) /\ Len(sent) \in Nat
  BY ScriptFacts DEF FeedOK, LogOK
<1>2. CASE page < Len(Script) /\ Advance
  <2>1. page' = page + 1 /\ session' = session /\ sent' = sent
    BY <1>2 DEF Advance
  <2>2. Sendable(page) \subseteq Sendable(page + 1)
    BY <1>1 DEF Sendable
  <2>3. LogOK(sent, page + 1, session)
    BY <1>1, <2>2 DEF LogOK
  <2>4. page + 1 \in 0 .. Len(Script)
    BY <1>1, <1>2, ScriptFacts
  <2>5. Extends(sent, sent)
    BY <1>1 DEF Extends
  <2> QED
    BY <1>1, <2>1, <2>3, <2>4, <2>5 DEF FeedOK
<1>3. CASE Deliver
  <2>1. PICK E \in SUBSET Showing, k \in 0 .. page :
          Undelivered(E) /\ \E place : sent' = sent \o Batch(E, k, place)
    BY <1>3 DEF Deliver
  <2>4. PICK place : sent' = sent \o Batch(E, k, place)
    BY <2>1
  <2>2. page' = page /\ session' = session
    BY <1>3 DEF Deliver
  <2>3. LogOK(sent', page, session) /\ Extends(sent', sent)
    BY <1>1, <2>1, <2>4, UndeliveredNeverShown, AppendBatch
  <2> QED
    BY <1>1, <2>2, <2>3 DEF FeedOK
<1>4. CASE Begin
  <2> DEFINE m == [kind |-> "snapshot", session |-> session + 1, edits |-> Showing]
  <2>0. PICK E \in SUBSET Showing, k \in 0 .. page :
          Undelivered(E) /\ \E place : sent' = sent \o Batch(E, k, place) \o <<m>>
    BY <1>4 DEF Begin
  <2>1. PICK place : sent' = sent \o Batch(E, k, place) \o <<m>>
    BY <2>0
  <2>2. page' = page /\ session' = session + 1
    BY <1>4 DEF Begin
  <2>3. /\ Batch(E, k, place) \in Seq(Message)
        /\ LogOK(sent \o Batch(E, k, place), page, session)
        /\ Extends(sent \o Batch(E, k, place), sent)
    BY <1>1, <2>0, UndeliveredNeverShown, AppendBatch
  <2> DEFINE log == sent \o Batch(E, k, place)
  <2>4. Showing = Sendable(page) /\ sent' = log \o <<m>>
    BY <2>1 DEF Showing, Sendable
  <2>5. \A i \in 1 .. Len(log) : log[i].edits \subseteq Sendable(page)
    BY <2>3 DEF LogOK
  <2>6. /\ m \in Message /\ m.kind = "snapshot" /\ m.session = session + 1
        /\ m.edits = Sendable(page)
    BY <1>1, <2>4 DEF Message, Sendable
  <2>7. LogOK(log, page, session) /\ Extends(log, sent)
    BY <2>3
  <2> HIDE DEF log, m
  <2>8. LogOK(sent', page, session + 1) /\ Extends(sent', log)
    BY <1>1, <2>4, <2>5, <2>6, <2>7, AppendSnapshot
  <2>9. Extends(sent', sent)
    BY <2>7, <2>8 DEF Extends
  <2> QED
    BY <1>1, <2>2, <2>8, <2>9 DEF FeedOK
<1> QED
  BY <1>2, <1>3, <1>4

-----------------------------------------------------------------------------
(* The invariant of a viewer's record w, in its parts, over a log and      *)
(* under rules r.                                                          *)

Fields == {"open", "pos", "active", "streaming", "snapshot", "nav", "doc", "loading",
           "index", "misses", "resync", "gap", "mixed"}

TypedViewer(w) ==
  /\ w = [f \in Fields |-> w[f]]
  /\ w.doc = [f \in {"from", "nodes", "ops"} |-> w.doc[f]]
  /\ w.index = [f \in {"node", "from"} |-> w.index[f]]
  /\ w.open \in BOOLEAN /\ w.streaming \in BOOLEAN /\ w.loading \in BOOLEAN
  /\ w.resync \in BOOLEAN /\ w.gap \in BOOLEAN /\ w.mixed \in BOOLEAN
  /\ w.pos \in Nat /\ w.active \in Nat /\ w.snapshot \in Nat /\ w.nav \in Nat
  /\ w.misses \in Nat /\ w.doc.from \in Nat /\ w.index.from \in Nat
  /\ IsMarkup(w.doc.nodes)

Filled(w) == DOMAIN w.index.node # {}

(* The index is of a document no younger than the one on show, which is no *)
(* younger than the last snapshot.  They can differ only while that        *)
(* snapshot is being navigated to.                                         *)
Positions(w, log) ==
  /\ w.snapshot <= w.pos /\ w.pos <= Len(log) /\ w.index.from <= w.doc.from
  /\ w.nav = 0 => w.doc.from = w.snapshot
  /\ w.nav # 0 => w.nav = w.snapshot /\ w.doc.from < w.snapshot
  /\ w.snapshot # 0 => log[w.snapshot].kind = "snapshot" /\ w.active = log[w.snapshot].session
  /\ w.doc.from # 0 => log[w.doc.from].kind = "snapshot"
  /\ w.snapshot = 0 => ~w.streaming
  /\ ~w.open => w.snapshot = 0
  /\ w.mixed => w.nav # 0

(* Nothing lands in a document before its own load event.                  *)
Untouched(w, log, r) ==
  /\ w.doc.from = 0 => Len(w.doc.nodes) = 0 /\ w.doc.ops = {} /\ ~Filled(w)
  /\ w.loading =>
       /\ w.doc.ops = {}
       /\ w.index.from < w.doc.from \/ ~Filled(w)
       /\ w.doc.from # 0 => w.doc.nodes = Documents[r][log[w.doc.from].edits].nodes

IndexRight(w, log, r) ==
  Filled(w) /\ w.index.from = w.doc.from /\ ~w.mixed =>
    /\ w.nav = 0
    /\ \A x \in DOMAIN w.index.node :
         w.index.node[x] = x \/ x \in Displacements[r][log[w.doc.from].edits]

OpsOwn(w, log, r) ==
  ~w.mixed => \A op \in w.doc.ops :
    /\ w.doc.from # 0
    /\ op[1] = log[w.doc.from].session
    /\ op[3] = Target(op[2]) \/ Target(op[2]) \in Displacements[r][log[w.doc.from].edits]

NodesClean(w, log, r) ==
  \A i \in 1 .. Len(w.doc.nodes) : Clean(r, w.doc.nodes[i], Present(log[w.doc.from].edits))

(* The edits of its session that have reached the viewer since the last    *)
(* snapshot, and those that landed in the document on show.                *)
Got(w, log) ==
  UNION {log[i].edits : i \in {j \in w.snapshot + 1 .. w.pos : log[j].session = w.active}}
Landed(w) == {op[2] : op \in w.doc.ops}

LossSeen(w, log) ==
  w.snapshot # 0 /\ ~w.gap /\ w.misses = 0 =>
    IF w.nav # 0 \/ w.loading THEN Got(w, log) = {}
    ELSE w.index.from = w.doc.from /\ Landed(w) = Got(w, log)

(* All of it but what it says of losses, and all of it.                    *)
Sound(w, log, r) ==
  /\ TypedViewer(w) /\ Positions(w, log) /\ Untouched(w, log, r) /\ IndexRight(w, log, r)
  /\ OpsOwn(w, log, r) /\ NodesClean(w, log, r)
ViewerOK(w, log, r) == Sound(w, log, r) /\ LossSeen(w, log)

-----------------------------------------------------------------------------
(* One op.                                                                 *)

(* What no op changes.                                                     *)
SameFrame(w, x) ==
  /\ x.open = w.open /\ x.pos = w.pos /\ x.active = w.active /\ x.streaming = w.streaming
  /\ x.snapshot = w.snapshot /\ x.nav = w.nav /\ x.loading = w.loading /\ x.mixed = w.mixed
  /\ x.doc.from = w.doc.from /\ x.index.from = w.index.from

LEMMA MissFields ==
  ASSUME NEW w, TypedViewer(w), NEW x, x = RecordStaleMiss(w)
  PROVE  /\ TypedViewer(x) /\ SameFrame(w, x) /\ x.doc = w.doc /\ x.index = w.index
         /\ x.gap = w.gap /\ x.misses # 0
<1>0. MissLimit \in Nat \ {0}
  BY MirrorAssumption
<1>1. CASE w.misses + 1 >= MissLimit
  <2>1. x = [w EXCEPT !.misses = MissLimit, !.resync = TRUE]
    BY <1>1 DEF RecordStaleMiss
  <2> QED
    BY <1>0, <2>1 DEF TypedViewer, SameFrame, Fields
<1>2. CASE ~(w.misses + 1 >= MissLimit)
  <2>1. x = [w EXCEPT !.misses = w.misses + 1]
    BY <1>2 DEF RecordStaleMiss
  <2> QED
    BY <1>0, <2>1 DEF TypedViewer, SameFrame, Fields
<1> QED
  BY <1>1, <1>2

LEMMA MemberIsSeq == ASSUME NEW T, NEW s \in Seq(T) PROVE IsSeq(s)
  BY DEF IsSeq

(* c is markup, each node of it from a or from b.                          *)
MadeOf(c, a, b) ==
  /\ IsMarkup(c)
  /\ \A k \in 1 .. Len(c) : \/ \E i \in 1 .. Len(a) : c[k] = a[i]
                           \/ \E i \in 1 .. Len(b) : c[k] = b[i]

LEMMA ConcatMarkup == ASSUME NEW a, IsMarkup(a), NEW b, IsMarkup(b) PROVE MadeOf(a \o b, a, b)
<1> DEFINE c == a \o b
           T == {a[i] : i \in 1 .. Len(a)} \cup {b[i] : i \in 1 .. Len(b)}
<1>1. /\ a = [i \in 1 .. Len(a) |-> a[i]] /\ Len(a) \in Nat
      /\ b = [i \in 1 .. Len(b) |-> b[i]] /\ Len(b) \in Nat
  BY DEF IsMarkup, IsSeq
<1>2. (\A i \in 1 .. Len(a) : a[i] \in T) /\ (\A i \in 1 .. Len(b) : b[i] \in T)
  OBVIOUS
<1>3. \A t \in T : (\E i \in 1 .. Len(a) : t = a[i]) \/ (\E i \in 1 .. Len(b) : t = b[i])
  OBVIOUS
<1> HIDE DEF T
<1>4. a \in Seq(T) /\ b \in Seq(T)
  <2>1. a \in Seq(T)
    BY <1>1, <1>2
  <2>2. b \in Seq(T)
    BY <1>1, <1>2
  <2> QED
    BY <2>1, <2>2
<1>5. c \in Seq(T)
  BY <1>4
<1> HIDE DEF c
<1>6. \A k \in 1 .. Len(c) : c[k] \in T
  BY <1>5, ElementOfSeq
<1>7. IsSeq(c)
  BY <1>5, MemberIsSeq
<1>8. ASSUME NEW t \in T PROVE IsNode(t)
  <2>1. CASE \E i \in 1 .. Len(a) : t = a[i]
    BY <2>1 DEF IsMarkup
  <2>2. CASE \E i \in 1 .. Len(b) : t = b[i]
    BY <2>2 DEF IsMarkup
  <2> QED
    BY <1>3, <2>1, <2>2
<1>9. IsMarkup(c)
  BY <1>6, <1>7, <1>8 DEF IsMarkup
<1>10. \A k \in 1 .. Len(c) : \/ \E i \in 1 .. Len(a) : c[k] = a[i]
                              \/ \E i \in 1 .. Len(b) : c[k] = b[i]
  BY <1>3, <1>6
<1>11. MadeOf(c, a, b)
  BY <1>9, <1>10 DEF MadeOf
<1> QED
  BY <1>11 DEF c

(* An op whose target is indexed: what it does to the document on show and *)
(* to the index.                                                           *)
Lands(w, e, m, x) ==
  /\ TypedViewer(x) /\ SameFrame(w, x) /\ Filled(x)
  /\ x.misses = w.misses /\ x.gap = (w.gap \/ w.index.from # w.snapshot)
  /\ x.doc.ops = IF w.index.from = w.doc.from
                 THEN w.doc.ops \cup {<<m.session, e, w.index.node[Target(e)]>>}
                 ELSE w.doc.ops
  /\ w.index.from # w.doc.from => x.doc.nodes = w.doc.nodes
  /\ \A S \in SUBSET Element :
       S \cap Adds(e) = {} /\ (\A i \in 1 .. Len(w.doc.nodes) : Clean(rules, w.doc.nodes[i], S)) =>
       (\A i \in 1 .. Len(x.doc.nodes) : Clean(rules, x.doc.nodes[i], S))
  /\ \A any \in Batches :
       (\A y \in DOMAIN w.index.node :
          w.index.node[y] = y \/ y \in Displacements[rules][any]) =>
       (\A y \in DOMAIN x.index.node :
          x.index.node[y] = y \/ y \in Displacements[rules][any])

LEMMA OpLands ==
  ASSUME rules \in Rules, NEW w, TypedViewer(w), NEW e \in DOMAIN Script, NEW m,
         m.edits \in Batches, Target(e) \in DOMAIN w.index.node,
         NEW x, x = ApplyOp(w, e, m)
  PROVE  Lands(w, e, m, x)
<1> DEFINE z == IF IsAdd(e) THEN ApplyAdd(w, e, m.edits) ELSE ApplyAttr(w, e)
           ops == IF OnShow(w)
                  THEN w.doc.ops \cup {<<m.session, e, w.index.node[Target(e)]>>}
                  ELSE w.doc.ops
           gap == w.gap \/ w.index.from # w.snapshot
<1>1. x = [z EXCEPT !.doc.ops = IF OnShow(w)
                                THEN z.doc.ops \cup {<<m.session, e, w.index.node[Target(e)]>>}
                                ELSE z.doc.ops,
                    !.gap = z.gap \/ w.index.from # w.snapshot]
  BY DEF ApplyOp
<1>2. /\ TypedViewer(z) /\ SameFrame(w, z)
      /\ z.doc.ops = w.doc.ops /\ z.gap = w.gap /\ z.misses = w.misses
      /\ DOMAIN w.index.node \subseteq DOMAIN z.index.node
      /\ w.index.from # w.doc.from => z.doc.nodes = w.doc.nodes
      /\ \A S \in SUBSET Element :
           S \cap Adds(e) = {} /\ (\A i \in 1 .. Len(w.doc.nodes) : Clean(rules, w.doc.nodes[i], S)) =>
           (\A i \in 1 .. Len(z.doc.nodes) : Clean(rules, z.doc.nodes[i], S))
      /\ \A any \in Batches :
           (\A y \in DOMAIN w.index.node :
              w.index.node[y] = y \/ y \in Displacements[rules][any]) =>
           (\A y \in DOMAIN z.index.node :
              z.index.node[y] = y \/ y \in Displacements[rules][any])
  <2>0. IsMarkup(w.doc.nodes)
    BY DEF TypedViewer
  <2>1. CASE IsAdd(e)
    <3> DEFINE A == Subtrees[rules][e][m.edits]
               nodes == IF OnShow(w) THEN w.doc.nodes \o A.nodes ELSE w.doc.nodes
               node == Over(A.index, w.index.node)
    <3>1. z = [w EXCEPT !.doc.nodes = nodes, !.index.node = node]
      BY <2>1 DEF ApplyAdd
    <3>2. /\ IsMarkup(A.nodes)
          /\ \A S \in SUBSET Element : S \cap Adds(e) = {} =>
               \A k \in 1 .. Len(A.nodes) : Clean(rules, A.nodes[k], S)
          /\ \A any \in Batches : \A y \in DOMAIN A.index :
               A.index[y] = y \/ y \in Displacements[rules][any]
      BY <2>1, SubtreeRight
    <3> HIDE DEF A
    <3>3. /\ DOMAIN node = DOMAIN A.index \cup DOMAIN w.index.node
          /\ \A y \in DOMAIN node : IF y \in DOMAIN A.index THEN node[y] = A.index[y]
                                                            ELSE node[y] = w.index.node[y]
      BY DEF Over
    <3>4. MadeOf(nodes, w.doc.nodes, A.nodes)
      <4>1. CASE OnShow(w)
        <5>1. nodes = w.doc.nodes \o A.nodes
          BY <4>1
        <5>2. MadeOf(w.doc.nodes \o A.nodes, w.doc.nodes, A.nodes)
          BY <2>0, <3>2, ConcatMarkup
        <5> QED
          BY <5>1, <5>2
      <4>2. CASE ~OnShow(w)
        BY <2>0, <4>2 DEF MadeOf
      <4> QED
        BY <4>1, <4>2
    <3>5. w.index.from # w.doc.from => nodes = w.doc.nodes
      BY DEF OnShow
    <3> HIDE DEF nodes, node, z
    <3>6. /\ TypedViewer(z) /\ SameFrame(w, z)
          /\ z.doc.nodes = nodes /\ z.doc.ops = w.doc.ops /\ z.index.node = node
          /\ z.gap = w.gap /\ z.misses = w.misses
      BY <3>1, <3>4 DEF TypedViewer, SameFrame, Fields, MadeOf
    <3>7. ASSUME NEW S \in SUBSET Element, S \cap Adds(e) = {},
                 \A i \in 1 .. Len(w.doc.nodes) : Clean(rules, w.doc.nodes[i], S),
                 NEW k \in 1 .. Len(nodes)
          PROVE  Clean(rules, nodes[k], S)
      <4>1. \A i \in 1 .. Len(A.nodes) : Clean(rules, A.nodes[i], S)
        BY <3>2, <3>7
      <4> QED
        BY <3>4, <3>7, <4>1 DEF MadeOf
    <3>8. ASSUME NEW any \in Batches,
                 \A y \in DOMAIN w.index.node :
                   w.index.node[y] = y \/ y \in Displacements[rules][any],
                 NEW y \in DOMAIN node
          PROVE  node[y] = y \/ y \in Displacements[rules][any]
      BY <3>2, <3>3, <3>8
    <3> QED
      BY <3>3, <3>5, <3>6, <3>7, <3>8
  <2>2. CASE ~IsAdd(e)
    <3> DEFINE Written(n) == IF n.el = w.index.node[Script[e].el]
                             THEN WriteAttribute(rules, n, Script[e].attr, Script[e].url) ELSE n
               nodes == [i \in DOMAIN w.doc.nodes |-> Written(w.doc.nodes[i])]
    <3>1. z = IF OnShow(w) THEN [w EXCEPT !.doc.nodes = nodes] ELSE w
      BY <2>2 DEF ApplyAttr
    <3>2. ASSUME NEW n, IsNode(n)
          PROVE  IsNode(Written(n)) /\ \A S : Clean(rules, n, S) => Clean(rules, Written(n), S)
      BY <3>2, WriteClean
    <3> HIDE DEF Written
    <3>3. /\ DOMAIN w.doc.nodes = 1 .. Len(w.doc.nodes) /\ Len(w.doc.nodes) \in Nat
          /\ \A i \in 1 .. Len(w.doc.nodes) : IsNode(w.doc.nodes[i])
      BY <2>0 DEF IsMarkup, IsSeq
    <3>4. IsSeq(nodes) /\ Len(nodes) = Len(w.doc.nodes)
      <4>1. DOMAIN nodes = 1 .. Len(w.doc.nodes)
            /\ nodes = [i \in 1 .. Len(w.doc.nodes) |-> nodes[i]]
        BY <3>3
      <4> HIDE DEF nodes
      <4> QED
        BY <3>3, <4>1, SeqOfFunction
    <3>5. \A i \in 1 .. Len(nodes) : nodes[i] = Written(w.doc.nodes[i])
      BY <3>3, <3>4
    <3>6. IsMarkup(nodes)
      BY <3>2, <3>3, <3>4, <3>5 DEF IsMarkup
    <3>7. ASSUME NEW S,
                 \A i \in 1 .. Len(w.doc.nodes) : Clean(rules, w.doc.nodes[i], S),
                 NEW k \in 1 .. Len(nodes)
          PROVE  Clean(rules, nodes[k], S)
      BY <3>2, <3>3, <3>4, <3>5, <3>7
    <3> HIDE DEF nodes, z
    <3>8. CASE OnShow(w)
      <4>1. /\ TypedViewer(z) /\ SameFrame(w, z)
            /\ z.doc.nodes = nodes /\ z.doc.ops = w.doc.ops /\ z.index.node = w.index.node
            /\ z.gap = w.gap /\ z.misses = w.misses
        BY <3>1, <3>6, <3>8 DEF TypedViewer, SameFrame, Fields
      <4> QED
        BY <3>7, <3>8, <4>1 DEF OnShow
    <3>9. CASE ~OnShow(w)
      BY <3>1, <3>9 DEF SameFrame
    <3> QED
      BY <3>8, <3>9
  <2> QED
    BY <2>1, <2>2
<1> HIDE DEF z
<1>3. x = [z EXCEPT !.doc.ops = ops, !.gap = gap]
  BY <1>1, <1>2
<1>4. gap \in BOOLEAN
  BY DEF TypedViewer
<1>5. ops = IF w.index.from = w.doc.from
            THEN w.doc.ops \cup {<<m.session, e, w.index.node[Target(e)]>>}
            ELSE w.doc.ops
  BY DEF OnShow
<1>6. gap = (w.gap \/ w.index.from # w.snapshot)
  OBVIOUS
<1> HIDE DEF gap, ops
<1>7. /\ TypedViewer(x) /\ SameFrame(z, x)
      /\ x.doc.nodes = z.doc.nodes /\ x.doc.ops = ops /\ x.index.node = z.index.node
      /\ x.gap = gap /\ x.misses = z.misses
  <2>1. TypedViewer(z)
    BY <1>2
  <2>2. /\ x = [f \in Fields |-> x[f]]
        /\ x.doc = [z.doc EXCEPT !.ops = ops] /\ x.gap = gap
        /\ x.open = z.open /\ x.pos = z.pos /\ x.active = z.active
        /\ x.streaming = z.streaming /\ x.snapshot = z.snapshot /\ x.nav = z.nav
        /\ x.loading = z.loading /\ x.mixed = z.mixed /\ x.index = z.index
        /\ x.misses = z.misses /\ x.resync = z.resync
    BY <1>3, <2>1 DEF TypedViewer, Fields
  <2>3. /\ x.doc = [f \in {"from", "nodes", "ops"} |-> x.doc[f]]
        /\ x.doc.from = z.doc.from /\ x.doc.nodes = z.doc.nodes /\ x.doc.ops = ops
    BY <2>1, <2>2 DEF TypedViewer
  <2>4. TypedViewer(x)
    BY <1>4, <2>1, <2>2, <2>3, Zenon DEF TypedViewer
  <2> QED
    BY <2>2, <2>3, <2>4, Zenon DEF SameFrame
<1>8. SameFrame(w, x)
  BY <1>2, <1>7 DEF SameFrame
<1>9. Filled(x)
  BY <1>2, <1>7 DEF Filled
<1> QED
  BY <1>2, <1>5, <1>6, <1>7, <1>8, <1>9 DEF Lands

(* From w to x, the edits E have been applied: each has landed, unless     *)
(* something tells of it.                                                  *)
Advanced(w, x, E) ==
  /\ SameFrame(w, x)
  /\ x.misses = 0 => w.misses = 0
  /\ ~x.gap => ~w.gap
  /\ x.misses = 0 /\ ~x.gap =>
       IF w.nav # 0 \/ w.loading THEN E = {}
       ELSE E # {} => w.index.from = w.doc.from /\ Landed(x) = Landed(w) \cup E
  /\ E = {} => Landed(x) = Landed(w)

(* A message that may be applied to w: of the session w has adopted, and   *)
(* with no edit that its document was made of.                             *)
Fits(w, log, m) ==
  /\ w.snapshot # 0 /\ m.edits \in Batches /\ m.session = w.active
  /\ w.doc.from # 0 => log[w.doc.from].edits \in Batches
  /\ w.doc.from # 0 => log[w.doc.from].edits \cap m.edits = {}

LEMMA OneOp ==
  ASSUME rules \in Rules, NEW log, NEW w, Sound(w, log, rules), NEW m, Fits(w, log, m),
         NEW e \in m.edits, NEW x, x = ApplyOp(w, e, m)
  PROVE  Sound(x, log, rules) /\ Advanced(w, x, {e})
<1>1. TypedViewer(w) /\ e \in DOMAIN Script /\ m.edits \in Batches
  BY DEF Sound, Fits, Batches
<1>2. CASE Target(e) \notin DOMAIN w.index.node
  <2>1. x = RecordStaleMiss(w)
    BY <1>2 DEF ApplyOp
  <2>2. /\ TypedViewer(x) /\ SameFrame(w, x) /\ x.doc = w.doc /\ x.index = w.index
        /\ x.gap = w.gap /\ x.misses # 0
    BY <1>1, <2>1, MissFields
  <2>3. Positions(x, log) /\ Untouched(x, log, rules)
    BY <2>2 DEF Sound, SameFrame, Positions, Untouched, Filled
  <2>4. IndexRight(x, log, rules) /\ OpsOwn(x, log, rules) /\ NodesClean(x, log, rules)
    BY <2>2 DEF Sound, SameFrame, IndexRight, OpsOwn, NodesClean, Filled
  <2>5. Advanced(w, x, {e})
    BY <2>2 DEF Advanced
  <2> QED
    BY <2>2, <2>3, <2>4, <2>5 DEF Sound
<1>3. CASE Target(e) \in DOMAIN w.index.node
  <2> DEFINE op == <<m.session, e, w.index.node[Target(e)]>>
             from == log[w.doc.from].edits
  <2>0. Lands(w, e, m, x)
    BY <1>1, <1>3, OpLands
  <2>1. /\ TypedViewer(x) /\ SameFrame(w, x) /\ Filled(x)
        /\ x.misses = w.misses /\ x.gap = (w.gap \/ w.index.from # w.snapshot)
        /\ x.doc.ops = IF w.index.from = w.doc.from THEN w.doc.ops \cup {op} ELSE w.doc.ops
        /\ w.index.from # w.doc.from => x.doc.nodes = w.doc.nodes
    BY <2>0 DEF Lands
  <2>2. \A S \in SUBSET Element :
          S \cap Adds(e) = {} /\ (\A i \in 1 .. Len(w.doc.nodes) : Clean(rules, w.doc.nodes[i], S)) =>
          (\A i \in 1 .. Len(x.doc.nodes) : Clean(rules, x.doc.nodes[i], S))
    BY <2>0 DEF Lands
  <2>3. \A any \in Batches :
          (\A y \in DOMAIN w.index.node :
             w.index.node[y] = y \/ y \in Displacements[rules][any]) =>
          (\A y \in DOMAIN x.index.node :
             x.index.node[y] = y \/ y \in Displacements[rules][any])
    BY <2>0 DEF Lands
  <2>4. Filled(w) /\ w.doc.from # 0 /\ from \in Batches /\ e \notin from
    BY <1>3 DEF Filled, Sound, Untouched, Fits
  <2>5. Positions(x, log)
    BY <2>1 DEF Sound, SameFrame, Positions
  <2>6. Untouched(x, log, rules)
    <3>1. w.loading => w.index.from < w.doc.from
      BY <2>4 DEF Sound, Untouched
    <3>2. w.loading => w.index.from # w.doc.from
      BY <1>1, <3>1 DEF TypedViewer
    <3> QED
      BY <2>1, <2>4, <3>1, <3>2 DEF Sound, SameFrame, Untouched
  <2>7. IndexRight(x, log, rules)
    <3> SUFFICES ASSUME x.index.from = x.doc.from, ~x.mixed
                 PROVE  /\ x.nav = 0
                        /\ \A y \in DOMAIN x.index.node :
                             x.index.node[y] = y \/ y \in Displacements[rules][log[x.doc.from].edits]
      BY DEF IndexRight
    <3>1. w.index.from = w.doc.from /\ ~w.mixed /\ x.nav = w.nav /\ x.doc.from = w.doc.from
      BY <2>1 DEF SameFrame
    <3>2. /\ w.nav = 0
          /\ \A y \in DOMAIN w.index.node :
               w.index.node[y] = y \/ y \in Displacements[rules][from]
      BY <2>4, <3>1 DEF Sound, IndexRight
    <3> QED
      BY <2>3, <2>4, <3>1, <3>2
  <2>8. OpsOwn(x, log, rules)
    <3> SUFFICES ASSUME ~x.mixed, NEW o \in x.doc.ops
                 PROVE  /\ x.doc.from # 0
                        /\ o[1] = log[x.doc.from].session
                        /\ \/ o[3] = Target(o[2])
                           \/ Target(o[2]) \in Displacements[rules][log[x.doc.from].edits]
      BY DEF OpsOwn
    <3>1. ~w.mixed /\ x.doc.from = w.doc.from
      BY <2>1 DEF SameFrame
    <3>2. CASE o \in w.doc.ops
      BY <3>1, <3>2 DEF Sound, OpsOwn
    <3>3. CASE w.index.from = w.doc.from /\ o = op
      <4>1. o[1] = m.session /\ o[2] = e /\ o[3] = w.index.node[Target(e)]
        BY <3>3
      <4>2. /\ w.nav = 0
            /\ \/ w.index.node[Target(e)] = Target(e)
               \/ Target(e) \in Displacements[rules][from]
        BY <1>3, <2>4, <3>1, <3>3 DEF Sound, IndexRight
      <4>3. m.session = log[w.doc.from].session
        BY <4>2 DEF Sound, Positions, Fits
      <4> QED
        BY <2>4, <3>1, <4>1, <4>2, <4>3
    <3> QED
      BY <2>1, <3>2, <3>3
  <2>9. NodesClean(x, log, rules)
    <3>1. Present(from) \in SUBSET Element /\ Present(from) \cap Adds(e) = {}
      BY <1>1, <2>4, AddsFacts DEF Batches
    <3>2. \A i \in 1 .. Len(w.doc.nodes) : Clean(rules, w.doc.nodes[i], Present(from))
      BY DEF Sound, NodesClean
    <3>3. \A i \in 1 .. Len(x.doc.nodes) : Clean(rules, x.doc.nodes[i], Present(from))
      BY <2>2, <3>1, <3>2
    <3> QED
      BY <2>1, <3>3 DEF NodesClean, SameFrame
  <2>10. Advanced(w, x, {e})
    <3>1. ASSUME ~x.gap
          PROVE  /\ w.nav = 0 /\ ~w.loading
                 /\ w.index.from = w.doc.from /\ Landed(x) = Landed(w) \cup {e}
      <4>1. w.index.from = w.snapshot
        BY <2>1, <3>1
      <4>2. /\ w.snapshot \in Nat /\ w.doc.from \in Nat /\ w.index.from <= w.doc.from
            /\ w.nav # 0 => w.doc.from < w.snapshot
            /\ w.nav = 0 => w.doc.from = w.snapshot
        BY <1>1 DEF Sound, Positions, TypedViewer
      <4>3. w.nav = 0 /\ w.index.from = w.doc.from
        BY <4>1, <4>2
      <4>4. ~w.loading
        BY <2>4, <4>2, <4>3 DEF Sound, Untouched
      <4>5. x.doc.ops = w.doc.ops \cup {op} /\ op[2] = e
        BY <2>1, <4>3
      <4> QED
        BY <4>3, <4>4, <4>5 DEF Landed
    <3>2. x.misses = w.misses /\ (~x.gap => ~w.gap) /\ SameFrame(w, x)
      BY <2>1
    <3> HIDE DEF op, from
    <3> QED
      BY <3>1, <3>2 DEF Advanced
  <2> QED
    BY <2>1, <2>5, <2>6, <2>7, <2>8, <2>9, <2>10 DEF Sound
<1> QED
  BY <1>2, <1>3

-----------------------------------------------------------------------------
(* The ops of a message, by counting them.  The library states induction   *)
(* over the natural numbers for an operator; here it is for a set, from    *)
(* the well-founded order.                                                 *)

LEMMA LeastElement ==
  ASSUME NEW T \in SUBSET Nat, T # {}
  PROVE  \E x \in T : \A y \in T : x <= y
<1>1. \E R : /\ IsWellFoundedOn(R, Nat)
             /\ \A x \in Nat, y \in Nat : y < x => <<y, x>> \in R
  <2>1. \A x \in Nat, y \in Nat : y < x => <<y, x>> \in OpToRel(<, Nat)
    BY DEF OpToRel
  <2> QED
    BY <2>1, NatLessThanWellFounded, Zenon
<1>2. PICK R : /\ IsWellFoundedOn(R, Nat)
               /\ \A x \in Nat, y \in Nat : y < x => <<y, x>> \in R
  BY <1>1, Zenon
<1>3. PICK x \in T : \A y \in T : ~ (<<y, x>> \in R)
  BY <1>2, WFMin, Zenon
<1>4. ASSUME NEW y \in T PROVE x <= y
  <2>1. x \in Nat /\ y \in Nat
    OBVIOUS
  <2>2. ~ (y < x)
    BY <1>2, <1>3, <2>1
  <2> QED
    BY <2>1, <2>2
<1> QED
  BY <1>4

LEMMA Induction ==
  ASSUME NEW T \in SUBSET Nat, 0 \in T, \A i \in T : i + 1 \in T
  PROVE  T = Nat
<1> SUFFICES ASSUME Nat \ T # {} PROVE FALSE
  OBVIOUS
<1>1. PICK x \in Nat \ T : \A y \in Nat \ T : x <= y
  BY LeastElement
<1>2. x - 1 \in Nat /\ x - 1 \notin Nat \ T
  BY <1>1
<1> QED
  BY <1>1, <1>2

(* What the outcomes X before edit e become, and the function of           *)
(* ApplyMutations, which exists.                                           *)
Onward(X, e, m) == IF e \in m.edits THEN {ApplyOp(x, e, m) : x \in X} ELSE X
StepsThrough(f, w, m, k) ==
  f = [e \in 0 .. k |-> IF e = 0 THEN {w} ELSE Onward(f[e - 1], e, m)]

LEMMA MutationSteps ==
  ASSUME NEW w, NEW m
  PROVE  \E f : StepsThrough(f, w, m, Len(Script)) /\ ApplyMutations(w, m) = f[Len(Script)]
<1> DEFINE T == {k \in Nat : \E f : StepsThrough(f, w, m, k)}
<1>1. 0 \in T
  <2>1. StepsThrough([i \in 0 .. 0 |-> {w}], w, m, 0)
    BY DEF StepsThrough
  <2> QED
    BY <2>1
<1>2. ASSUME NEW k \in T PROVE k + 1 \in T
  <2>1. PICK g : StepsThrough(g, w, m, k)
    OBVIOUS
  <2> DEFINE h == [i \in 0 .. k + 1 |-> IF i = k + 1 THEN Onward(g[k], k + 1, m) ELSE g[i]]
  <2>2. /\ k \in Nat
        /\ \A i \in 0 .. k + 1 : h[i] = IF i = k + 1 THEN Onward(g[k], k + 1, m) ELSE g[i]
        /\ \A i \in 0 .. k : g[i] = IF i = 0 THEN {w} ELSE Onward(g[i - 1], i, m)
    BY <2>1 DEF StepsThrough
  <2>3. h = [i \in 0 .. k + 1 |-> h[i]]
    OBVIOUS
  <2> HIDE DEF h
  <2>4. ASSUME NEW i \in 0 .. k + 1
        PROVE  h[i] = IF i = 0 THEN {w} ELSE Onward(h[i - 1], i, m)
    <3>1. CASE i = 0
      BY <2>2, <3>1
    <3>2. CASE i \in 1 .. k
      <4>1. h[i] = g[i] /\ i - 1 \in 0 .. k /\ h[i - 1] = g[i - 1]
        BY <2>2, <3>2
      <4> QED
        BY <2>2, <3>2, <4>1
    <3>3. CASE i = k + 1
      <4>1. h[i - 1] = g[k]
        BY <2>2, <3>3
      <4> QED
        BY <2>2, <3>3, <4>1
    <3> QED
      BY <2>2, <3>1, <3>2, <3>3
  <2>5. StepsThrough(h, w, m, k + 1)
    BY <2>3, <2>4 DEF StepsThrough
  <2> QED
    BY <2>2, <2>5
<1>3. T = Nat
  <2>1. T \in SUBSET Nat
    OBVIOUS
  <2> HIDE DEF T
  <2> QED
    BY <1>1, <1>2, <2>1, Induction
<1>4. \E f : StepsThrough(f, w, m, Len(Script))
  BY <1>3, ScriptFacts
<1> QED
  BY <1>4, Zenon DEF ApplyMutations, StepsThrough, Onward

LEMMA AllOps ==
  ASSUME rules \in Rules, NEW log, NEW w, Sound(w, log, rules), NEW m, Fits(w, log, m),
         NEW x \in ApplyMutations(w, m)
  PROVE  Sound(x, log, rules) /\ Advanced(w, x, m.edits)
<1> DEFINE Upto(k) == {e \in m.edits : e <= k}
           OK(y, E) == Sound(y, log, rules) /\ Advanced(w, y, E)
<1>1. PICK f : StepsThrough(f, w, m, Len(Script)) /\ ApplyMutations(w, m) = f[Len(Script)]
  BY MutationSteps
<1> DEFINE T == {k \in Nat : k <= Len(Script) => \A y \in f[k] : OK(y, Upto(k))}
<1>2. /\ Len(Script) \in Nat /\ m.edits \subseteq 1 .. Len(Script)
      /\ f[0] = {w}
      /\ \A e \in 1 .. Len(Script) : f[e] = Onward(f[e - 1], e, m)
  <2>1. Len(Script) \in Nat /\ m.edits \subseteq 1 .. Len(Script)
    BY ScriptFacts DEF Fits, Batches
  <2>2. /\ 0 \in 0 .. Len(Script)
        /\ \A e \in 1 .. Len(Script) : e \in 0 .. Len(Script) /\ e # 0
    BY <2>1
  <2>3. \A e \in 0 .. Len(Script) : f[e] = IF e = 0 THEN {w} ELSE Onward(f[e - 1], e, m)
    BY <1>1 DEF StepsThrough
  <2> QED
    BY <2>1, <2>2, <2>3
<1>3. 0 \in T
  <2>1. Upto(0) = {}
    BY <1>2
  <2>2. OK(w, {})
    BY DEF Advanced, SameFrame
  <2> HIDE DEF Upto, OK
  <2> QED
    BY <1>2, <2>1, <2>2
<1>4. ASSUME NEW k \in T PROVE k + 1 \in T
  <2>1. SUFFICES ASSUME k + 1 <= Len(Script), NEW y \in f[k + 1] PROVE OK(y, Upto(k + 1))
    OBVIOUS
  <2>2. k \in Nat /\ k + 1 \in 1 .. Len(Script) /\ (k + 1) - 1 = k /\ k <= Len(Script)
    BY <1>2, <2>1
  <2>3. f[k + 1] = Onward(f[k], k + 1, m) /\ \A z \in f[k] : OK(z, Upto(k))
    BY <1>2, <2>2
  <2>4. CASE k + 1 \notin m.edits
    <3>1. Upto(k + 1) = Upto(k)
      BY <1>2, <2>2, <2>4
    <3>2. y \in f[k]
      BY <2>1, <2>3, <2>4 DEF Onward
    <3> QED
      BY <2>3, <3>1, <3>2
  <2>5. CASE k + 1 \in m.edits
    <3>1. Upto(k + 1) = Upto(k) \cup {k + 1}
      BY <1>2, <2>2, <2>5
    <3>2. PICK z \in f[k] : y = ApplyOp(z, k + 1, m)
      BY <2>1, <2>3, <2>5 DEF Onward
    <3>3. Sound(z, log, rules) /\ Advanced(w, z, Upto(k))
      BY <2>3
    <3>4. Fits(z, log, m)
      BY <3>3 DEF Fits, Advanced, SameFrame
    <3>5. Sound(y, log, rules) /\ Advanced(z, y, {k + 1})
      BY <2>5, <3>2, <3>3, <3>4, OneOp
    <3> HIDE DEF Upto
    <3>6. Advanced(w, y, Upto(k) \cup {k + 1})
      BY <3>3, <3>5 DEF Advanced, SameFrame
    <3> QED
      BY <3>1, <3>5, <3>6
  <2> QED
    BY <2>4, <2>5
<1>5. T = Nat
  <2>1. T \in SUBSET Nat
    OBVIOUS
  <2> HIDE DEF T
  <2> QED
    BY <1>3, <1>4, <2>1, Induction
<1>6. Upto(Len(Script)) = m.edits
  BY <1>2
<1>7. OK(x, Upto(Len(Script)))
  BY <1>1, <1>2, <1>5
<1> QED
  BY <1>6, <1>7

-----------------------------------------------------------------------------
(* The other steps of a viewer.                                            *)

(* What stays as it is when a message passes by.                           *)
Kept(w, x) ==
  /\ x.active = w.active /\ x.streaming = w.streaming /\ x.snapshot = w.snapshot
  /\ x.nav = w.nav /\ x.loading = w.loading /\ x.mixed = w.mixed
  /\ x.doc = w.doc /\ x.index = w.index

LEMMA KeptSound ==
  ASSUME NEW log, Len(log) \in Nat, NEW r, NEW w, Sound(w, log, r),
         NEW x, TypedViewer(x), Kept(w, x), x.open \/ x.open = w.open,
         w.pos <= x.pos, x.pos <= Len(log)
  PROVE  Sound(x, log, r)
<1>1. Positions(x, log)
  <2>1. w.snapshot <= w.pos /\ w.pos \in Nat /\ x.pos \in Nat /\ w.snapshot \in Nat
    BY DEF Sound, Positions, TypedViewer
  <2>2. x.snapshot <= x.pos
    BY <2>1 DEF Kept
  <2> QED
    BY <2>2 DEF Sound, Positions, Kept
<1>2. Untouched(x, log, r) /\ IndexRight(x, log, r)
  BY DEF Sound, Untouched, IndexRight, Filled, Kept
<1>3. OpsOwn(x, log, r) /\ NodesClean(x, log, r)
  BY DEF Sound, OpsOwn, NodesClean, Kept
<1> QED
  BY <1>1, <1>2, <1>3 DEF Sound

LEMMA GotGrows ==
  ASSUME NEW log, NEW w, TypedViewer(w), w.snapshot <= w.pos,
         NEW x, x.snapshot = w.snapshot, x.active = w.active, x.pos = w.pos + 1
  PROVE  Got(x, log) = Got(w, log) \cup
           (IF log[w.pos + 1].session = w.active THEN log[w.pos + 1].edits ELSE {})
<1>1. w.snapshot \in Nat /\ w.pos \in Nat
  BY DEF TypedViewer
<1>2. \A j : j \in x.snapshot + 1 .. x.pos <=> j \in w.snapshot + 1 .. w.pos \/ j = w.pos + 1
  BY <1>1
<1> QED
  BY <1>2 DEF Got

(* A longer log.                                                           *)
LEMMA ExtendedLog ==
  ASSUME NEW old, NEW new, Extends(new, old), NEW r, NEW w, ViewerOK(w, old, r)
  PROVE  ViewerOK(w, new, r)
<1>1. /\ TypedViewer(w) /\ Positions(w, old) /\ Untouched(w, old, r)
      /\ IndexRight(w, old, r) /\ OpsOwn(w, old, r) /\ NodesClean(w, old, r)
      /\ LossSeen(w, old)
  BY DEF ViewerOK, Sound
<1>2. /\ w.snapshot \in Nat /\ w.doc.from \in Nat /\ w.pos \in Nat
      /\ w.snapshot <= w.pos /\ w.pos <= Len(old) /\ w.doc.from <= w.snapshot
      /\ Len(old) \in Nat /\ Len(new) \in Nat /\ Len(old) <= Len(new)
      /\ \A i \in 1 .. Len(old) : new[i] = old[i]
  BY <1>1 DEF TypedViewer, Positions, Extends
<1>3. /\ w.pos <= Len(new)
      /\ w.snapshot # 0 => new[w.snapshot] = old[w.snapshot]
      /\ w.doc.from # 0 => new[w.doc.from] = old[w.doc.from]
      /\ \A i \in w.snapshot + 1 .. w.pos : new[i] = old[i]
  BY <1>2
<1>4. Positions(w, new)
  BY <1>1, <1>3 DEF Positions
<1>5. Untouched(w, new, r)
  BY <1>1, <1>3 DEF Untouched
<1>6. IndexRight(w, new, r)
  BY <1>1, <1>3 DEF IndexRight, Untouched
<1>7. OpsOwn(w, new, r)
  BY <1>1, <1>3 DEF OpsOwn
<1>8. NodesClean(w, new, r)
  <2>1. CASE w.doc.from = 0
    <3>1. Len(w.doc.nodes) = 0
      BY <1>1, <2>1 DEF Untouched
    <3>2. 1 .. Len(w.doc.nodes) = {}
      BY <3>1
    <3> QED
      BY <3>2 DEF NodesClean
  <2>2. CASE w.doc.from # 0
    BY <1>1, <1>3, <2>2 DEF NodesClean
  <2> QED
    BY <2>1, <2>2
<1>9. LossSeen(w, new)
  <2>1. Got(w, new) = Got(w, old)
    BY <1>3 DEF Got
  <2> QED
    BY <1>1, <2>1 DEF LossSeen
<1> QED
  BY <1>1, <1>4, <1>5, <1>6, <1>7, <1>8, <1>9 DEF ViewerOK, Sound

(* Joining, and a message that the relay drops.                            *)
Joined(w) == [w EXCEPT !.open = TRUE, !.pos = Len(sent)]
PassedBy(w) == [w EXCEPT !.pos = w.pos + 1, !.gap = TRUE]

LEMMA JoinedOK ==
  ASSUME NEW r, Len(sent) \in Nat, NEW w, ViewerOK(w, sent, r), ~w.open
  PROVE  ViewerOK(Joined(w), sent, r)
<1> DEFINE x == Joined(w)
<1>1. TypedViewer(w) /\ Positions(w, sent) /\ Sound(w, sent, r)
  BY DEF ViewerOK, Sound
<1>2. TypedViewer(x) /\ Kept(w, x) /\ x.open /\ x.pos = Len(sent)
  BY <1>1 DEF TypedViewer, Kept, Fields, Joined
<1>3. w.snapshot = 0 /\ w.pos <= Len(sent) /\ Len(sent) <= Len(sent)
  BY <1>1 DEF Positions
<1> HIDE DEF x
<1>4. Sound(x, sent, r)
  BY <1>1, <1>2, <1>3, KeptSound
<1>5. LossSeen(x, sent)
  BY <1>2, <1>3 DEF LossSeen, Kept
<1> QED
  BY <1>4, <1>5 DEF ViewerOK, x

LEMMA PassedByOK ==
  ASSUME NEW r, Len(sent) \in Nat, NEW w, ViewerOK(w, sent, r), w.pos < Len(sent)
  PROVE  ViewerOK(PassedBy(w), sent, r)
<1> DEFINE x == PassedBy(w)
<1>1. TypedViewer(w) /\ Sound(w, sent, r)
  BY DEF ViewerOK, Sound
<1>2. TypedViewer(x) /\ Kept(w, x) /\ x.open = w.open /\ x.pos = w.pos + 1 /\ x.gap
  <2>1. w.pos + 1 \in Nat
    BY <1>1 DEF TypedViewer
  <2> DEFINE q == w.pos + 1
  <2>2. x = [w EXCEPT !.pos = q, !.gap = TRUE] /\ q \in Nat
    BY <2>1 DEF PassedBy
  <2> HIDE DEF x, q
  <2>3. TypedViewer(x) /\ Kept(w, x) /\ x.open = w.open /\ x.pos = q /\ x.gap
    BY <1>1, <2>2 DEF TypedViewer, Kept, Fields
  <2> QED
    BY <2>3 DEF q
<1>3. w.pos <= w.pos + 1 /\ w.pos + 1 <= Len(sent)
  BY <1>1 DEF TypedViewer
<1> HIDE DEF x
<1>4. Sound(x, sent, r)
  BY <1>1, <1>2, <1>3, KeptSound
<1>5. LossSeen(x, sent)
  BY <1>2 DEF LossSeen
<1> QED
  BY <1>4, <1>5 DEF ViewerOK, x

(* A snapshot: the document it replaces stays, without an index.           *)
LEMMA SnapshotOK ==
  ASSUME NEW r, sent \in Seq(Message), NEW w, ViewerOK(w, sent, r), w.open,
         NEW p \in 1 .. Len(sent), p = w.pos + 1, sent[p].kind = "snapshot"
  PROVE  ViewerOK([HandleSnapshot(w, p) EXCEPT !.pos = p], sent, r)
<1> DEFINE x == [HandleSnapshot(w, p) EXCEPT !.pos = p]
<1>1. /\ TypedViewer(w) /\ Positions(w, sent) /\ Untouched(w, sent, r)
      /\ OpsOwn(w, sent, r) /\ NodesClean(w, sent, r)
  BY DEF ViewerOK, Sound
<1>2. sent[p].session \in Nat /\ Len(sent) \in Nat
  BY MessageFacts
<1>3. /\ TypedViewer(x)
      /\ x.open = w.open /\ x.pos = p /\ x.active = sent[p].session /\ x.snapshot = p
      /\ x.streaming = w.streaming /\ x.nav = p /\ x.doc = w.doc /\ x.loading = w.loading
      /\ x.mixed = w.mixed /\ x.index = NoIndex
  <2> DEFINE s == sent[p].session
             none == NoIndex
  <2>1. /\ s \in Nat /\ p \in Nat /\ none.from \in Nat
        /\ none = [f \in {"node", "from"} |-> none[f]]
    BY <1>2 DEF NoIndex
  <2>2. x = [w EXCEPT !.active = s, !.misses = 0, !.resync = FALSE, !.gap = FALSE,
                      !.snapshot = p, !.index = none, !.nav = p, !.pos = p]
    BY DEF HandleSnapshot
  <2> HIDE DEF x, s, none
  <2>3. /\ x = [f \in Fields |-> x[f]]
        /\ x.open = w.open /\ x.pos = p /\ x.active = s /\ x.snapshot = p
        /\ x.streaming = w.streaming /\ x.nav = p /\ x.doc = w.doc /\ x.loading = w.loading
        /\ x.mixed = w.mixed /\ x.index = none
        /\ x.misses = 0 /\ x.resync = FALSE /\ x.gap = FALSE
    BY <1>1, <2>2 DEF TypedViewer, Fields
  <2>4. /\ x.doc = [f \in {"from", "nodes", "ops"} |-> x.doc[f]]
        /\ x.index = [f \in {"node", "from"} |-> x.index[f]]
    <3>1. w.doc = [f \in {"from", "nodes", "ops"} |-> w.doc[f]]
      BY <1>1 DEF TypedViewer
    <3> QED
      BY <2>1, <2>3, <3>1, Zenon
  <2>5. /\ x.open \in BOOLEAN /\ x.streaming \in BOOLEAN /\ x.loading \in BOOLEAN
        /\ x.resync \in BOOLEAN /\ x.gap \in BOOLEAN /\ x.mixed \in BOOLEAN
        /\ x.pos \in Nat /\ x.active \in Nat /\ x.snapshot \in Nat /\ x.nav \in Nat
        /\ x.misses \in Nat /\ x.doc.from \in Nat /\ x.index.from \in Nat
        /\ IsMarkup(x.doc.nodes)
    <3>1. /\ w.open \in BOOLEAN /\ w.streaming \in BOOLEAN /\ w.loading \in BOOLEAN
          /\ w.mixed \in BOOLEAN /\ w.doc.from \in Nat /\ IsMarkup(w.doc.nodes)
      BY <1>1 DEF TypedViewer
    <3>2. FALSE \in BOOLEAN /\ 0 \in Nat
      OBVIOUS
    <3> QED
      BY <2>1, <2>3, <3>1, <3>2, Zenon
  <2>6. TypedViewer(x)
    BY <2>3, <2>4, <2>5 DEF TypedViewer
  <2> QED
    BY <2>3, <2>6 DEF s, none
<1>4. x.index.from = 0 /\ ~Filled(x)
  BY <1>3 DEF NoIndex, Filled
<1>5. w.doc.from < p /\ p # 0 /\ w.doc.from \in Nat /\ p <= Len(sent) /\ p \in Nat
  BY <1>1, <1>2 DEF Positions, TypedViewer
<1> HIDE DEF x
<1>6. Positions(x, sent)
  BY <1>1, <1>3, <1>4, <1>5 DEF Positions
<1>7. Untouched(x, sent, r) /\ IndexRight(x, sent, r)
  BY <1>1, <1>3, <1>4 DEF Untouched, IndexRight
<1>8. OpsOwn(x, sent, r) /\ NodesClean(x, sent, r)
  BY <1>1, <1>3 DEF OpsOwn, NodesClean
<1>9. LossSeen(x, sent)
  <2>1. x.snapshot + 1 .. x.pos = {}
    BY <1>3, <1>5
  <2>2. Got(x, sent) = {}
    BY <2>1 DEF Got
  <2> QED
    BY <1>3, <1>5, <2>2 DEF LossSeen
<1> QED
  BY <1>3, <1>6, <1>7, <1>8, <1>9 DEF ViewerOK, Sound, x

(* Mutations: those of another session are ignored, those that come before *)
(* anything streams are not.                                               *)
LEMMA MutationsOK ==
  ASSUME FeedOK, rules \in Rules, NEW w, ViewerOK(w, sent, rules), w.pos < Len(sent),
         NEW p, p = w.pos + 1, sent[p].kind = "mutations",
         NEW y \in HandleMutations(w, sent[p])
  PROVE  ViewerOK([y EXCEPT !.pos = p], sent, rules)
<1> DEFINE x == [y EXCEPT !.pos = p]
           m == sent[p]
<1>1. /\ TypedViewer(w) /\ Positions(w, sent) /\ Sound(w, sent, rules) /\ LossSeen(w, sent)
  BY DEF ViewerOK, Sound
<1>2. /\ sent \in Seq(Message) /\ Len(sent) \in Nat /\ LogOK(sent, page, session)
      /\ page \in 0 .. Len(Script)
  BY DEF FeedOK, LogOK
<1>3. /\ p \in 1 .. Len(sent) /\ w.pos \in Nat /\ w.pos <= p /\ p <= Len(sent) /\ p \in Nat
      /\ w.snapshot \in Nat /\ w.snapshot < p /\ w.doc.from \in Nat /\ w.doc.from <= w.snapshot
  BY <1>1, <1>2 DEF TypedViewer, Positions
<1>4. \A i \in 1 .. Len(sent) : sent[i].edits \in Batches
  BY <1>2, ScriptFacts DEF LogOK, Sendable, Batches
<1>5. m.session \in Nat
  BY <1>2, <1>3, MessageFacts
<1>6. CASE ~w.streaming
  <2>1. y = [w EXCEPT !.gap = TRUE]
    BY <1>6 DEF HandleMutations
  <2>2. TypedViewer(x) /\ Kept(w, x) /\ x.open = w.open /\ x.pos = p /\ x.gap
    BY <1>1, <1>3, <2>1 DEF TypedViewer, Kept, Fields
  <2> HIDE DEF x
  <2>3. Sound(x, sent, rules)
    BY <1>1, <1>2, <1>3, <2>2, KeptSound
  <2> QED
    BY <2>2, <2>3 DEF ViewerOK, LossSeen, x
<1>7. CASE w.streaming /\ ~IsCurrentStream(m.session, w.active)
  <2>1. y = w
    BY <1>7 DEF HandleMutations
  <2>2. /\ TypedViewer(x) /\ Kept(w, x) /\ x.open = w.open /\ x.pos = p
        /\ x.gap = w.gap /\ x.misses = w.misses
    BY <1>1, <1>3, <2>1 DEF TypedViewer, Kept, Fields
  <2>3. m.session # w.active
    BY <1>7 DEF IsCurrentStream
  <2> HIDE DEF x
  <2>4. Sound(x, sent, rules)
    BY <1>1, <1>2, <1>3, <2>2, KeptSound
  <2>5. Got(x, sent) = Got(w, sent)
    <3>1. /\ x.snapshot = w.snapshot /\ x.active = w.active /\ x.pos = w.pos + 1
          /\ w.snapshot <= w.pos /\ sent[w.pos + 1].session # w.active
      BY <1>1, <2>2, <2>3 DEF Kept, Positions
    <3>2. Got(x, sent) = Got(w, sent) \cup
            (IF sent[w.pos + 1].session = w.active THEN sent[w.pos + 1].edits ELSE {})
      BY <1>1, <3>1, GotGrows
    <3> QED
      BY <3>1, <3>2
  <2>6. Landed(x) = Landed(w)
    BY <2>2 DEF Landed, Kept
  <2>7. LossSeen(x, sent)
    BY <1>1, <2>2, <2>5, <2>6 DEF LossSeen, Kept
  <2> QED
    BY <2>4, <2>7 DEF ViewerOK, x
<1>8. CASE w.streaming /\ IsCurrentStream(m.session, w.active)
  <2>1. y \in ApplyMutations(w, m)
    BY <1>8 DEF HandleMutations
  <2>2. /\ w.snapshot # 0 /\ w.snapshot \in 1 .. Len(sent)
        /\ sent[w.snapshot].kind = "snapshot" /\ w.active = sent[w.snapshot].session
    BY <1>1, <1>2, <1>3, <1>8 DEF Positions
  <2>3. w.active >= 1 /\ w.active <= m.session /\ w.active \in Nat
    BY <1>1, <1>2, <1>3, <2>2 DEF LogOK, TypedViewer
  <2>4. m.session = w.active
    BY <1>5, <1>8, <2>3 DEF IsCurrentStream
  <2>5. Fits(w, sent, m)
    <3>1. w.doc.from # 0 => sent[w.doc.from].edits \cap m.edits = {}
      <4>1. ASSUME w.doc.from # 0
            PROVE  /\ w.doc.from \in 1 .. Len(sent) /\ w.doc.from < p
                   /\ sent[w.doc.from].kind = "snapshot"
        BY <1>1, <1>2, <1>3, <4>1 DEF Positions
      <4> QED
        BY <1>2, <1>3, <4>1 DEF LogOK
    <3>2. w.doc.from # 0 => sent[w.doc.from].edits \in Batches
      BY <1>2, <1>3, <1>4
    <3> QED
      BY <1>3, <1>4, <2>2, <2>4, <3>1, <3>2 DEF Fits
  <2>6. Sound(y, sent, rules) /\ Advanced(w, y, m.edits)
    <3> HIDE DEF m
    <3> QED
      BY <1>1, <2>1, <2>5, AllOps
  <2>7. TypedViewer(y) /\ SameFrame(w, y)
    BY <2>6 DEF Sound, Advanced
  <2>8. /\ TypedViewer(x) /\ Kept(y, x) /\ x.open = y.open /\ x.pos = p
        /\ x.gap = y.gap /\ x.misses = y.misses
    BY <1>3, <2>7 DEF TypedViewer, Kept, Fields
  <2>9. y.pos = w.pos /\ y.pos <= x.pos /\ x.pos <= Len(sent)
    BY <1>3, <2>7, <2>8 DEF SameFrame
  <2> HIDE DEF x
  <2>10. Sound(x, sent, rules)
    BY <1>2, <2>6, <2>8, <2>9, KeptSound
  <2>11. /\ x.snapshot = w.snapshot /\ x.active = w.active /\ x.pos = w.pos + 1
         /\ x.nav = w.nav /\ x.loading = w.loading /\ x.doc = y.doc
         /\ x.index.from = w.index.from /\ x.doc.from = w.doc.from
    BY <2>7, <2>8 DEF SameFrame, Kept
  <2>12. Got(x, sent) = Got(w, sent) \cup m.edits
    BY <1>1, <1>3, <2>4, <2>11, GotGrows
  <2>13. Landed(x) = Landed(y)
    BY <2>11 DEF Landed
  <2>14. LossSeen(x, sent)
    <3> SUFFICES ASSUME x.snapshot # 0, ~x.gap, x.misses = 0
                 PROVE  IF x.nav # 0 \/ x.loading THEN Got(x, sent) = {}
                        ELSE x.index.from = x.doc.from /\ Landed(x) = Got(x, sent)
      BY DEF LossSeen
    <3>1. ~w.gap /\ w.misses = 0
      BY <2>6, <2>8 DEF Advanced
    <3>2. IF w.nav # 0 \/ w.loading THEN Got(w, sent) = {}
          ELSE w.index.from = w.doc.from /\ Landed(w) = Got(w, sent)
      BY <1>1, <2>2, <3>1 DEF LossSeen
    <3>3. IF w.nav # 0 \/ w.loading THEN m.edits = {}
          ELSE Landed(y) = Landed(w) \cup m.edits
      <4> HIDE DEF m
      <4>1. y.misses = 0 /\ ~y.gap
        BY <2>8
      <4> QED
        BY <2>6, <4>1 DEF Advanced
    <3> HIDE DEF m
    <3> QED
      BY <2>11, <2>12, <2>13, <3>2, <3>3
  <2> QED
    BY <2>10, <2>14 DEF ViewerOK, x
<1> QED
  BY <1>6, <1>7, <1>8

(* The new document: as it was parsed, before its load event.              *)
Committed(w) ==
  [w EXCEPT !.doc = [from |-> w.nav, ops |-> {},
                     nodes |-> Documents[rules][sent[w.nav].edits].nodes],
            !.nav = 0, !.mixed = FALSE, !.loading = TRUE]

LEMMA CommittedOK ==
  ASSUME FeedOK, rules \in Rules, NEW w, ViewerOK(w, sent, rules), w.nav # 0
  PROVE  ViewerOK(Committed(w), sent, rules)
<1> DEFINE x == Committed(w)
           nodes == Documents[rules][sent[w.nav].edits].nodes
<1>1. /\ TypedViewer(w) /\ Positions(w, sent) /\ LossSeen(w, sent)
  BY DEF ViewerOK, Sound
<1>2. sent \in Seq(Message) /\ Len(sent) \in Nat /\ LogOK(sent, page, session)
  BY DEF FeedOK, LogOK
<1>3. /\ w.nav = w.snapshot /\ w.doc.from < w.snapshot /\ w.index.from < w.snapshot
      /\ w.snapshot \in 1 .. Len(sent) /\ w.snapshot \in Nat /\ w.nav \in Nat
  BY <1>1, <1>2 DEF TypedViewer, Positions
<1>4. sent[w.nav].edits \in Batches
  BY <1>2, <1>3, ScriptFacts DEF FeedOK, LogOK, Sendable, Batches
<1>5. IsMarkup(nodes) /\ \A k \in 1 .. Len(nodes) : Clean(rules, nodes[k], Element)
  BY <1>4, DocumentRight DEF IsDocument
<1>6. /\ TypedViewer(x)
      /\ x.open = w.open /\ x.pos = w.pos /\ x.active = w.active /\ x.snapshot = w.snapshot
      /\ x.streaming = w.streaming /\ x.nav = 0 /\ x.loading = TRUE /\ x.mixed = FALSE
      /\ x.doc.from = w.snapshot /\ x.doc.ops = {} /\ x.doc.nodes = nodes
      /\ x.index = w.index /\ x.gap = w.gap /\ x.misses = w.misses
  <2> DEFINE d == [from |-> w.nav, ops |-> {}, nodes |-> nodes]
  <2>1. /\ d = [f \in {"from", "nodes", "ops"} |-> d[f]]
        /\ d.from = w.snapshot /\ d.ops = {} /\ d.nodes = nodes
    BY <1>3
  <2>2. x = [w EXCEPT !.doc = d, !.nav = 0, !.mixed = FALSE, !.loading = TRUE]
    BY DEF Committed
  <2> HIDE DEF x, d, nodes
  <2>3. /\ x = [f \in Fields |-> x[f]]
        /\ x.open = w.open /\ x.pos = w.pos /\ x.active = w.active /\ x.snapshot = w.snapshot
        /\ x.streaming = w.streaming /\ x.nav = 0 /\ x.loading = TRUE /\ x.mixed = FALSE
        /\ x.doc = d /\ x.index = w.index /\ x.gap = w.gap /\ x.misses = w.misses
        /\ x.resync = w.resync
    BY <1>1, <2>2 DEF TypedViewer, Fields
  <2>4. /\ w.index = [f \in {"node", "from"} |-> w.index[f]]
        /\ w.open \in BOOLEAN /\ w.streaming \in BOOLEAN /\ w.resync \in BOOLEAN
        /\ w.gap \in BOOLEAN /\ w.pos \in Nat /\ w.active \in Nat /\ w.snapshot \in Nat
        /\ w.misses \in Nat /\ w.index.from \in Nat
        /\ FALSE \in BOOLEAN /\ TRUE \in BOOLEAN /\ 0 \in Nat
    BY <1>1 DEF TypedViewer
  <2>5. TypedViewer(x)
    BY <1>5, <2>1, <2>3, <2>4, Zenon DEF TypedViewer
  <2> QED
    BY <2>1, <2>3, <2>5
<1>7. x.snapshot # 0 /\ x.index.from < x.doc.from /\ x.index.from <= x.doc.from
  BY <1>1, <1>3, <1>6 DEF TypedViewer
<1>8. x.index.from # x.doc.from
  BY <1>3, <1>6, <1>7 DEF TypedViewer
<1> HIDE DEF x, nodes
<1>9. Positions(x, sent)
  BY <1>1, <1>3, <1>6, <1>7 DEF Positions
<1>10. Untouched(x, sent, rules)
  BY <1>3, <1>6, <1>7 DEF Untouched, nodes
<1>11. IndexRight(x, sent, rules) /\ OpsOwn(x, sent, rules)
  BY <1>6, <1>8 DEF IndexRight, OpsOwn
<1>12. NodesClean(x, sent, rules)
  BY <1>5, <1>6, CleanAnywhere DEF NodesClean
<1>13. LossSeen(x, sent)
  <2>1. Got(x, sent) = Got(w, sent)
    BY <1>6 DEF Got
  <2> QED
    BY <1>1, <1>6, <2>1 DEF LossSeen
<1> QED
  BY <1>6, <1>9, <1>10, <1>11, <1>12, <1>13 DEF ViewerOK, Sound, x

(* A load event: of the document of the last snapshot, or of an older one. *)
LEMMA LoadedOK ==
  ASSUME FeedOK, rules \in Rules, NEW w, ViewerOK(w, sent, rules), w.loading,
         NEW x \in Loaded(w)
  PROVE  ViewerOK(x, sent, rules)
<1>1. /\ TypedViewer(w) /\ Positions(w, sent) /\ Untouched(w, sent, rules)
      /\ OpsOwn(w, sent, rules) /\ NodesClean(w, sent, rules) /\ LossSeen(w, sent)
      /\ IndexRight(w, sent, rules)
  BY DEF ViewerOK, Sound
<1>2. sent \in Seq(Message) /\ Len(sent) \in Nat /\ LogOK(sent, page, session)
  <2>1. LogOK(sent, page, session)
    BY DEF FeedOK
  <2>2. sent \in Seq(Message)
    BY <2>1 DEF LogOK
  <2> QED
    BY <2>1, <2>2, LenProperties
<1>3. CASE w.snapshot = 0
  <2>1. x = [w EXCEPT !.loading = FALSE]
    BY <1>3 DEF Loaded
  <2>2. /\ TypedViewer(x)
        /\ x.open = w.open /\ x.pos = w.pos /\ x.active = w.active /\ x.snapshot = w.snapshot
        /\ x.streaming = w.streaming /\ x.nav = w.nav /\ x.loading = FALSE
        /\ x.mixed = w.mixed /\ x.doc = w.doc /\ x.index = w.index
    BY <1>1, <2>1 DEF TypedViewer, Fields
  <2>3. Positions(x, sent) /\ Untouched(x, sent, rules) /\ IndexRight(x, sent, rules)
    BY <1>1, <2>2 DEF Positions, Untouched, IndexRight, Filled
  <2>4. OpsOwn(x, sent, rules) /\ NodesClean(x, sent, rules) /\ LossSeen(x, sent)
    BY <1>1, <1>3, <2>2 DEF OpsOwn, NodesClean, LossSeen
  <2> QED
    BY <2>2, <2>3, <2>4 DEF ViewerOK, Sound
<1>4. CASE w.snapshot # 0
  <2> DEFINE N == GateFragmentAssets(rules, w.doc.nodes)
             D == Documents[rules][sent[w.snapshot].edits]
             paired == PairIdentityElements(N, D.ids)
             here == Displacements[rules][sent[w.snapshot].edits]
             X == IF w.doc.from = w.snapshot THEN here ELSE {D.ids[i] : i \in 1 .. Len(D.ids)}
  <2>1. x = LoadedWith(w, N)
    BY <1>4 DEF Loaded
  <2>2. /\ w.snapshot \in 1 .. Len(sent) /\ w.snapshot \in Nat /\ w.doc.from \in Nat
        /\ w.doc.from <= w.snapshot
    BY <1>1, <1>2, <1>4 DEF TypedViewer, Positions
  <2>3. \A i \in 1 .. Len(sent) : sent[i].edits \in Batches
    BY <1>2, ScriptFacts DEF FeedOK, LogOK, Sendable, Batches
  <2>4. /\ IsMarkup(N) /\ Len(N) = Len(w.doc.nodes)
        /\ \A k \in 1 .. Len(N) :
             /\ N[k].el = w.doc.nodes[k].el
             /\ \A S \in SUBSET Element :
                  Clean(rules, w.doc.nodes[k], S) \/ w.doc.nodes[k].el \notin S => Clean(rules, N[k], S)
    <3> DEFINE nodes == w.doc.nodes
    <3>1. IsMarkup(nodes) /\ N = GateFragmentAssets(rules, nodes)
      BY <1>1 DEF TypedViewer
    <3> HIDE DEF N, nodes
    <3>2. /\ IsMarkup(N) /\ Len(N) = Len(nodes)
          /\ \A k \in 1 .. Len(N) :
               /\ N[k].el = nodes[k].el
               /\ \A S \in SUBSET Element :
                    Clean(rules, nodes[k], S) \/ nodes[k].el \notin S => Clean(rules, N[k], S)
      BY <3>1, GateFragmentFacts
    <3> QED
      BY <3>2 DEF nodes
  <2>5. /\ IsSeq(D.ids) /\ \A i, j \in 1 .. Len(D.ids) : D.ids[i] = D.ids[j] => i = j
        /\ InPlace(D.nodes, D.ids, here)
    BY <2>2, <2>3, DocumentRight DEF IsDocument
  <2>6. w.doc.from = w.snapshot => w.doc.nodes = D.nodes
    BY <1>1, <1>4 DEF Untouched
  <2> HIDE DEF N, D, here
  <2>7. InPlace(N, D.ids, X)
    BY <2>4, <2>5, <2>6 DEF InPlace
  <2>8. /\ \A y \in DOMAIN paired : paired[y] = y \/ y \in X
        /\ Len(N) = 0 => DOMAIN paired = {}
    <3> HIDE DEF X, paired
    <3> QED
      BY <2>4, <2>5, <2>7, PairFacts DEF paired
  <2>9. /\ TypedViewer(x)
        /\ x.open = w.open /\ x.pos = w.pos /\ x.active = w.active /\ x.snapshot = w.snapshot
        /\ x.streaming = TRUE /\ x.nav = w.nav /\ x.loading = FALSE
        /\ (x.mixed <=> w.mixed \/ w.doc.from # w.snapshot)
        /\ x.doc.from = w.doc.from /\ x.doc.ops = w.doc.ops /\ x.doc.nodes = N
        /\ x.index.node = paired /\ x.index.from = w.doc.from
        /\ x.gap = w.gap /\ x.misses = w.misses
    <3> DEFINE i == [node |-> paired, from |-> w.doc.from]
               mixed == w.mixed \/ w.doc.from # w.snapshot
    <3>1. /\ i = [f \in {"node", "from"} |-> i[f]] /\ i.node = paired /\ i.from = w.doc.from
          /\ mixed \in BOOLEAN
      BY <1>1 DEF TypedViewer
    <3>2. x = [w EXCEPT !.loading = FALSE, !.streaming = TRUE, !.doc.nodes = N, !.index = i,
                        !.mixed = mixed]
      BY <2>1 DEF LoadedWith, D
    <3> HIDE DEF i, mixed, paired
    <3>3. /\ x = [f \in Fields |-> x[f]]
          /\ x.open = w.open /\ x.pos = w.pos /\ x.active = w.active
          /\ x.snapshot = w.snapshot /\ x.streaming = TRUE /\ x.nav = w.nav
          /\ x.loading = FALSE /\ x.mixed = mixed
          /\ x.doc = [w.doc EXCEPT !.nodes = N] /\ x.index = i
          /\ x.gap = w.gap /\ x.misses = w.misses /\ x.resync = w.resync
      BY <1>1, <3>2 DEF TypedViewer, Fields
    <3>4. /\ w.doc = [f \in {"from", "nodes", "ops"} |-> w.doc[f]]
          /\ w.open \in BOOLEAN /\ w.resync \in BOOLEAN
          /\ w.gap \in BOOLEAN /\ w.pos \in Nat /\ w.active \in Nat /\ w.snapshot \in Nat
          /\ w.nav \in Nat /\ w.misses \in Nat /\ w.doc.from \in Nat
          /\ FALSE \in BOOLEAN /\ TRUE \in BOOLEAN
      BY <1>1 DEF TypedViewer
    <3>5. /\ x.doc = [f \in {"from", "nodes", "ops"} |-> x.doc[f]]
          /\ x.doc.from = w.doc.from /\ x.doc.ops = w.doc.ops /\ x.doc.nodes = N
      BY <3>3, <3>4
    <3>6. TypedViewer(x)
      BY <2>4, <3>1, <3>3, <3>4, <3>5, Zenon DEF TypedViewer
    <3> QED
      BY <3>1, <3>3, <3>5, <3>6 DEF mixed
  <2>10. Positions(x, sent)
    BY <1>1, <1>4, <2>2, <2>9 DEF Positions
  <2>11. Untouched(x, sent, rules)
    BY <1>1, <2>4, <2>8, <2>9 DEF Untouched, Filled
  <2>12. IndexRight(x, sent, rules)
    <3>1. ASSUME ~x.mixed
          PROVE  w.doc.from = w.snapshot /\ x.nav = 0 /\ X = here
      BY <1>1, <1>4, <2>2, <2>9, <3>1 DEF Positions
    <3> QED
      BY <2>8, <2>9, <3>1 DEF IndexRight, here
  <2>13. OpsOwn(x, sent, rules)
    BY <1>1, <2>9 DEF OpsOwn
  <2>14. NodesClean(x, sent, rules)
    <3>1. CASE w.doc.from = 0
      <4>1. 1 .. Len(N) = {}
        BY <1>1, <2>4, <3>1 DEF Untouched
      <4> QED
        BY <2>9, <4>1 DEF NodesClean
    <3>2. CASE w.doc.from # 0
      <4>1. w.doc.from \in 1 .. Len(sent)
        BY <2>2, <3>2
      <4>2. Present(sent[w.doc.from].edits) \in SUBSET Element
        BY <2>3, <4>1, AddsFacts DEF Batches
      <4> QED
        BY <1>1, <2>4, <2>9, <4>2 DEF NodesClean
    <3> QED
      BY <3>1, <3>2
  <2>15. LossSeen(x, sent)
    <3>1. Got(x, sent) = Got(w, sent) /\ Landed(x) = {}
      BY <1>1, <2>9 DEF Got, Landed, Untouched
    <3> QED
      BY <1>1, <2>9, <3>1 DEF LossSeen
  <2> QED
    BY <2>9, <2>10, <2>11, <2>12, <2>13, <2>14, <2>15 DEF ViewerOK, Sound
<1> QED
  BY <1>3, <1>4

-----------------------------------------------------------------------------
(* The invariant.                                                          *)

Inv ==
  /\ FeedOK
  /\ rules \in Rules
  /\ view = [v \in Viewer |-> view[v]]
  /\ \A v \in Viewer : ViewerOK(view[v], sent, rules)

LEMMA NewViewerOK ==
  ASSUME sent = <<>>, NEW r
  PROVE  ViewerOK(NewViewer, sent, r)
<1> DEFINE w == NewViewer
<1>1. Len(sent) = 0
  BY LenProperties
<1>2. IsMarkup(<<>>) /\ 1 .. Len(<<>>) = {} /\ Len(<<>>) = 0
  <2>1. <<>> \in Seq({}) /\ Len(<<>>) = 0
    OBVIOUS
  <2>2. IsSeq(<<>>)
    BY <2>1, MemberIsSeq
  <2>3. 1 .. Len(<<>>) = {}
    BY <2>1
  <2> QED
    BY <2>1, <2>2, <2>3 DEF IsMarkup
<1>3. /\ Blank = [f \in {"from", "nodes", "ops"} |-> Blank[f]]
      /\ Blank.from = 0 /\ Blank.nodes = <<>> /\ Blank.ops = {}
  BY DEF Blank
<1>4. /\ NoIndex = [f \in {"node", "from"} |-> NoIndex[f]]
      /\ NoIndex.from = 0 /\ DOMAIN NoIndex.node = {}
  BY DEF NoIndex
<1>5. /\ w = [f \in Fields |-> w[f]]
      /\ w.open = FALSE /\ w.pos = 0 /\ w.active = 0 /\ w.streaming = FALSE /\ w.snapshot = 0
      /\ w.nav = 0 /\ w.doc = Blank /\ w.loading = TRUE /\ w.index = NoIndex /\ w.misses = 0
      /\ w.resync = FALSE /\ w.gap = FALSE /\ w.mixed = FALSE
  BY DEF NewViewer, Fields
<1> HIDE DEF w
<1>6. TypedViewer(w)
  <2>1. FALSE \in BOOLEAN /\ TRUE \in BOOLEAN /\ 0 \in Nat
    OBVIOUS
  <2> QED
    BY <1>2, <1>3, <1>4, <1>5, <2>1, Zenon DEF TypedViewer
<1>7. ~Filled(w)
  BY <1>4, <1>5 DEF Filled
<1>8. Positions(w, sent)
  BY <1>1, <1>3, <1>4, <1>5 DEF Positions
<1>9. Untouched(w, sent, r) /\ IndexRight(w, sent, r)
  BY <1>2, <1>3, <1>5, <1>7 DEF Untouched, IndexRight
<1>10. OpsOwn(w, sent, r) /\ NodesClean(w, sent, r) /\ LossSeen(w, sent)
  BY <1>2, <1>3, <1>5 DEF OpsOwn, NodesClean, LossSeen
<1> QED
  BY <1>6, <1>8, <1>9, <1>10 DEF ViewerOK, Sound, w

LEMMA InitOK == MirrorInit => Inv
<1> SUFFICES ASSUME MirrorInit PROVE Inv
  OBVIOUS
<1>1. FeedOK /\ sent = <<>> /\ rules \in Rules
  BY FeedInitOK DEF MirrorInit, FeedInit
<1>2. view = [v \in Viewer |-> NewViewer]
  BY DEF MirrorInit
<1>3. ViewerOK(NewViewer, sent, rules)
  BY <1>1, NewViewerOK
<1> HIDE DEF MirrorInit
<1>4. view = [v \in Viewer |-> view[v]] /\ \A v \in Viewer : view[v] = NewViewer
  BY <1>2
<1> QED
  BY <1>1, <1>3, <1>4 DEF Inv

(* A step of one viewer.                                                   *)
LEMMA OneViewer ==
  ASSUME Inv, UNCHANGED <<feedVars, rules>>, NEW u \in Viewer, NEW x, ViewerOK(x, sent, rules),
         view' = [view EXCEPT ![u] = x]
  PROVE  Inv'
<1>1. page' = page /\ session' = session /\ sent' = sent /\ rules' = rules
  BY DEF feedVars
<1>2. FeedOK'
  BY <1>1 DEF Inv, FeedOK
<1>3. /\ view' = [v \in Viewer |-> view'[v]]
      /\ \A v \in Viewer : view'[v] = IF v = u THEN x ELSE view[v]
  BY DEF Inv
<1>4. \A v \in Viewer : ViewerOK(view'[v], sent, rules)
  BY <1>3 DEF Inv
<1> QED
  BY <1>1, <1>2, <1>3, <1>4 DEF Inv

(* A step of the host or its capture.                                      *)
LEMMA FeedOnly ==
  ASSUME Inv, UNCHANGED <<rules, view>>, FeedOK', Extends(sent', sent)
  PROVE  Inv'
<1>1. \A v \in Viewer : ViewerOK(view[v], sent', rules)
  BY ExtendedLog DEF Inv
<1> QED
  BY <1>1 DEF Inv

LEMMA StepOK == Inv /\ [MirrorNext]_mirrorVars => Inv'
<1> SUFFICES ASSUME Inv, [MirrorNext]_mirrorVars PROVE Inv'
  OBVIOUS
<1>1. /\ FeedOK /\ rules \in Rules /\ view = [v \in Viewer |-> view[v]]
      /\ \A v \in Viewer : ViewerOK(view[v], sent, rules)
      /\ sent \in Seq(Message) /\ Len(sent) \in Nat
  BY DEF Inv, FeedOK, LogOK
<1>2. ASSUME NEW v \in Viewer, Join(v) PROVE Inv'
  <2>1. view' = [view EXCEPT ![v] = Joined(view[v])] /\ UNCHANGED <<feedVars, rules>>
    BY <1>1, <1>2 DEF Join, Joined
  <2>2. ViewerOK(Joined(view[v]), sent, rules)
    BY <1>1, <1>2, JoinedOK DEF Join
  <2> QED
    BY <2>1, <2>2, OneViewer
<1>3. ASSUME NEW v \in Viewer, Receive(v) PROVE Inv'
  <2> DEFINE p == view[v].pos + 1
  <2>1. /\ view[v].open /\ view[v].pos < Len(sent) /\ UNCHANGED <<feedVars, rules>>
        /\ \E x \in Dispatch(view[v], p) : view' = [view EXCEPT ![v] = x]
    BY <1>3 DEF Receive
  <2>2. PICK x \in Dispatch(view[v], p) : view' = [view EXCEPT ![v] = x]
    BY <2>1
  <2>3. view[v].pos \in Nat /\ ViewerOK(view[v], sent, rules)
    BY <1>1 DEF ViewerOK, Sound, TypedViewer
  <2>4. p \in 1 .. Len(sent) /\ p = view[v].pos + 1
    BY <1>1, <2>1, <2>3
  <2>5. sent[p].kind \in {"snapshot", "mutations"}
    BY <1>1, <2>4, MessageFacts
  <2>6. PICK y \in IF sent[p].kind = "snapshot" THEN {HandleSnapshot(view[v], p)}
                   ELSE HandleMutations(view[v], sent[p]) : x = [y EXCEPT !.pos = p]
    BY <2>2 DEF Dispatch
  <2> HIDE DEF p
  <2>7. ViewerOK(x, sent, rules)
    <3>1. CASE sent[p].kind = "snapshot"
      <4>1. x = [HandleSnapshot(view[v], p) EXCEPT !.pos = p]
        BY <2>6, <3>1
      <4>2. ViewerOK([HandleSnapshot(view[v], p) EXCEPT !.pos = p], sent, rules)
        BY <1>1, <2>1, <2>3, <2>4, <3>1, SnapshotOK
      <4> QED
        BY <4>1, <4>2
    <3>2. CASE sent[p].kind = "mutations"
      <4>1. y \in HandleMutations(view[v], sent[p])
        BY <2>6, <3>2
      <4>2. ViewerOK([y EXCEPT !.pos = p], sent, rules)
        BY <1>1, <2>1, <2>3, <2>4, <3>2, <4>1, MutationsOK
      <4> QED
        BY <2>6, <4>2
    <3> QED
      BY <2>5, <3>1, <3>2
  <2> QED
    BY <2>1, <2>2, <2>7, OneViewer
<1>4. ASSUME NEW v \in Viewer, Lose(v) PROVE Inv'
  <2>1. view' = [view EXCEPT ![v] = PassedBy(view[v])] /\ UNCHANGED <<feedVars, rules>>
    BY <1>1, <1>4 DEF Lose, PassedBy
  <2>2. ViewerOK(PassedBy(view[v]), sent, rules)
    BY <1>1, <1>4, PassedByOK DEF Lose
  <2> QED
    BY <2>1, <2>2, OneViewer
<1>5. ASSUME NEW v \in Viewer, Commit(v) PROVE Inv'
  <2>1. view' = [view EXCEPT ![v] = Committed(view[v])] /\ UNCHANGED <<feedVars, rules>>
    <3> DEFINE d == [from |-> view[v].nav, ops |-> {},
                     nodes |-> Documents[rules][sent[view[v].nav].edits].nodes]
    <3>1. /\ view' = [view EXCEPT ![v].doc = d, ![v].nav = 0, ![v].mixed = FALSE,
                                  ![v].loading = TRUE]
          /\ UNCHANGED <<feedVars, rules>>
      BY <1>5 DEF Commit
    <3>2. Committed(view[v]) = [view[v] EXCEPT !.doc = d, !.nav = 0, !.mixed = FALSE,
                                               !.loading = TRUE]
      BY DEF Committed
    <3> HIDE DEF d
    <3> QED
      BY <1>1, <3>1, <3>2
  <2>2. ViewerOK(Committed(view[v]), sent, rules)
    BY <1>1, <1>5, CommittedOK DEF Commit
  <2> QED
    BY <2>1, <2>2, OneViewer
<1>6. ASSUME NEW v \in Viewer, Load(v) PROVE Inv'
  <2>1. PICK x \in Loaded(view[v]) : view' = [view EXCEPT ![v] = x]
    BY <1>6 DEF Load
  <2>2. view[v].loading /\ UNCHANGED <<feedVars, rules>>
    BY <1>6 DEF Load
  <2>3. ViewerOK(x, sent, rules)
    BY <1>1, <2>1, <2>2, LoadedOK
  <2> QED
    BY <2>1, <2>2, <2>3, OneViewer
<1>7. CASE HostControl \/ CaptureStep
  <2>1. /\ (page < Len(Script) /\ Advance) \/ Deliver \/ Begin
        /\ UNCHANGED <<rules, view>>
    BY <1>7 DEF HostControl, CaptureStep, Start
  <2>2. FeedOK' /\ Extends(sent', sent)
    BY <1>1, <2>1, FeedStep
  <2> QED
    BY <2>1, <2>2, FeedOnly
<1>8. CASE LoseControl \/ UNCHANGED mirrorVars
  <2>1. UNCHANGED <<feedVars, rules, view>>
    BY <1>8 DEF LoseControl, mirrorVars
  <2> QED
    BY <2>1 DEF Inv, FeedOK, feedVars
<1> QED
  BY <1>2, <1>3, <1>4, <1>5, <1>6, <1>7, <1>8 DEF MirrorNext

-----------------------------------------------------------------------------
(* The theorems.                                                           *)

(* Whatever order snapshots, diffs, navigations and load events come in,   *)
(* and whatever the relay drops, an op lands in a document of its own      *)
(* session and on its own element, unless a placeholder displaced it or    *)
(* the document was paired by the load event of another snapshot           *)
(* (applyMutations in src/src/renderer/diff.js, buildIdentityIndex in      *)
(* src/src/renderer/index.js).                                             *)
THEOREM NeverForeignOps == MirrorSpec => []NoForeignOps
<1>1. Inv => NoForeignOps
  BY DEF Inv, ViewerOK, Sound, OpsOwn, NoForeignOps, Displaced
<1> QED
  BY InitOK, StepOK, <1>1, PTL DEF MirrorSpec

(* However many edits, sessions and viewers there are: a viewer that has   *)
(* received and loaded everything shows just the edits its session sent,   *)
(* or a miss is counted, or a message did not reach it, or an element is   *)
(* displaced (recordStaleMiss, handleSnapshot, handleMutations).           *)
THEOREM LossAlwaysCounted == MirrorSpec => []LossIsCounted
<1>1. Inv => LossIsCounted
  <2> SUFFICES ASSUME Inv, NEW v \in Viewer, view[v].misses = 0, ~view[v].gap,
                      Settled(view[v]),
                      ~(view[v].doc.from # 0 /\ Displaced(view[v]) # {})
               PROVE  Shown(view[v]) = SentIn(view[v].active)
    BY DEF LossIsCounted, Drifted
  <2> DEFINE w == view[v]
             s == w.snapshot
  <2>1. /\ TypedViewer(w) /\ Positions(w, sent) /\ OpsOwn(w, sent, rules) /\ LossSeen(w, sent)
        /\ LogOK(sent, page, session) /\ sent \in Seq(Message)
    BY DEF Inv, ViewerOK, Sound, FeedOK, LogOK
  <2>2. w.pos = Len(sent) /\ s # 0 /\ w.nav = 0 /\ ~w.loading /\ w.misses = 0 /\ ~w.gap
    BY DEF Settled
  <2>3. /\ w.doc.from = s /\ ~w.mixed /\ w.active = sent[s].session
        /\ sent[s].kind = "snapshot" /\ s \in Nat /\ s <= Len(sent) /\ Len(sent) \in Nat
    BY <2>1, <2>2 DEF Positions, TypedViewer
  <2>4. s \in 1 .. Len(sent)
    BY <2>2, <2>3
  <2>5. Displacements[rules][sent[w.doc.from].edits] = {}
    BY <2>2, <2>3 DEF Displaced
  <2>6. \A o \in w.doc.ops : o[3] = Target(o[2])
    BY <2>1, <2>3, <2>5 DEF OpsOwn
  <2>7. Landed(w) = Got(w, sent)
    BY <2>1, <2>2 DEF LossSeen
  <2>8. Shown(w) = sent[s].edits \cup Got(w, sent)
    <3>1. {o \in w.doc.ops : o[3] = Target(o[2])} = w.doc.ops
      BY <2>6
    <3> HIDE DEF w, s
    <3> QED
      BY <2>2, <2>3, <2>7, <3>1 DEF Shown, Landed
  <2>9. ASSUME NEW i \in 1 .. Len(sent), sent[i].session = w.active
        PROVE  i = s \/ i \in s + 1 .. w.pos
    <3>1. i < s => sent[i].session < sent[s].session
      BY <2>1, <2>3, <2>4 DEF LogOK
    <3>2. sent[s].session \in Nat
      BY <2>1, <2>4, MessageFacts
    <3>3. ~(i < s)
      BY <2>3, <2>9, <3>1, <3>2
    <3> QED
      BY <2>2, <2>3, <3>3
  <2>10. \A i \in s + 1 .. w.pos : i \in 1 .. Len(sent)
    BY <2>2, <2>3
  <2>11. DOMAIN sent = 1 .. Len(sent)
    BY <2>1
  <2>12. SentIn(w.active) = sent[s].edits \cup Got(w, sent)
    <3> HIDE DEF w, s
    <3>1. {j \in DOMAIN sent : sent[j].session = w.active}
            = {s} \cup {j \in s + 1 .. w.pos : sent[j].session = w.active}
      BY <2>3, <2>4, <2>9, <2>10, <2>11
    <3>2. w.snapshot = s
      BY DEF s
    <3> QED
      BY <3>1, <3>2 DEF SentIn, Got
  <2> QED
    BY <2>8, <2>12
<1> QED
  BY InitOK, StepOK, <1>1, PTL DEF MirrorSpec

(* By every path a node can come into a mirror, or be written in it, it    *)
(* never has a url that the rules deny it, but for the srcset of an added  *)
(* source (gateAssetUrl, gateSnapshotAssets, gateFragmentAssets and the    *)
(* attribute ops).                                                         *)
THEOREM PostureAlwaysUniform == MirrorSpec => []PostureIsUniform
<1>1. Inv => PostureIsUniform
  <2> SUFFICES ASSUME Inv, NEW v \in Viewer, NEW i \in DOMAIN view[v].doc.nodes,
                      NEW attr \in Fetched(view[v].doc.nodes[i]),
                      Denied(rules, view[v].doc.nodes[i], attr)
               PROVE  /\ Tag[view[v].doc.nodes[i].el] = "source" /\ attr = "srcset"
                      /\ view[v].doc.nodes[i].el
                           \notin Present(sent[view[v].doc.from].edits)
    BY DEF PostureIsUniform
  <2>1. /\ IsMarkup(view[v].doc.nodes) /\ NodesClean(view[v], sent, rules)
    BY DEF Inv, ViewerOK, Sound, TypedViewer
  <2>2. i \in 1 .. Len(view[v].doc.nodes)
    BY <2>1 DEF IsMarkup, IsSeq
  <2> QED
    BY <2>1, <2>2 DEF NodesClean, Clean
<1> QED
  BY InitOK, StepOK, <1>1, PTL DEF MirrorSpec
=============================================================================
