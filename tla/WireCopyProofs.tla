--------------------------- MODULE WireCopyProofs ---------------------------
(***************************************************************************)
(* Proofs about WireCopy, for every tree, every rule and every number of   *)
(* edits.                                                                  *)
(*                                                                         *)
(* Neither property is inductive alone.  The invariant is                  *)
(*   Typed         the state is well typed                                 *)
(*   Closed        what is present, and what is tracked, is so with all    *)
(*                 that it is in                                           *)
(*   Returned      what is present though a waiting record removes it, or  *)
(*                 what it is in, comes with a later record                *)
(*   Accounted     a tracked element on the page that ought to be shown is *)
(*                 in the mirror, below a placeholder of the mirror,       *)
(*                 orphaned, or added by a record that waits               *)
(* with PathsAgree and KnownTargets.  That the paths agree needs, per      *)
(* path, that it asks the rules of the ancestors serializeDOM asks them    *)
(* of, and for added and requested subtrees the pairing lemma: a clone and *)
(* its live element have the same place unless an asset became a           *)
(* placeholder before it.  The loops of the cuts and of a flush are        *)
(* recursive functions: that they are functions, and what they keep, is by *)
(* induction on the number of steps.                                       *)
(***************************************************************************)
EXTENDS WireCopy, FiniteSetTheorems, WellFoundedInduction, TLAPS

-----------------------------------------------------------------------------
(* The tree.                                                               *)

LEMMA Places ==
  /\ Top \in Element
  /\ \A e \in Element : At(e) \in 1 .. Len(Order) /\ Order[At(e)] = e
  /\ \A i \in 1 .. Len(Order) : Order[i] \in Element /\ At(Order[i]) = i
  /\ Len(Order) \in Nat /\ DOMAIN Order = 1 .. Len(Order)
<1>1. /\ Order \in Seq(Element) /\ Order # <<>>
      /\ \A i, j \in DOMAIN Order : Order[i] = Order[j] => i = j
  BY TreeAssumption DEF IsInjective
<1>2. Len(Order) \in Nat /\ DOMAIN Order = 1 .. Len(Order) /\ Len(Order) > 0
  BY <1>1
<1>3. Top \in Element
  BY <1>1, <1>2 DEF Top
<1>4. ASSUME NEW e \in Element PROVE At(e) \in 1 .. Len(Order) /\ Order[At(e)] = e
  <2>1. PICK i \in DOMAIN Order : Order[i] = e
    BY DEF Element, ToSet
  <2> QED
    BY <1>2, <2>1, Zenon DEF At
<1>5. ASSUME NEW i \in 1 .. Len(Order) PROVE Order[i] \in Element /\ At(Order[i]) = i
  <2>1. Order[i] \in Element
    BY <1>1, <1>2
  <2>2. At(Order[i]) \in DOMAIN Order /\ Order[At(Order[i])] = Order[i]
    BY <1>2, <1>4, <2>1
  <2> QED
    BY <1>1, <1>2, <2>1, <2>2
<1> QED
  BY <1>2, <1>3, <1>4, <1>5

LEMMA Chains ==
  ASSUME NEW e \in Element
  PROVE  /\ e \in Chain[e] /\ Chain[e] \subseteq Element
         /\ \A x \in Chain[e] : Chain[x] \subseteq Chain[e]
         /\ \A x, y \in Chain[e] : x \in Chain[y] \/ y \in Chain[x]
         /\ e # Top => Parent[e] \in Element /\ Above(e) = Chain[Parent[e]]
<1>1. CASE e = Top
  BY <1>1, TreeAssumption
<1>2. CASE e # Top
  <2>1. Parent[e] \in Element /\ Chain[e] = {e} \cup Chain[Parent[e]] /\ e \notin Chain[Parent[e]]
    BY <1>2, TreeAssumption
  <2>2. Above(e) = Chain[Parent[e]]
    BY <2>1 DEF Above
  <2> QED
    BY <1>2, <2>1, <2>2, TreeAssumption
<1> QED
  BY <1>1, <1>2

LEMMA AboveFacts ==
  ASSUME NEW e \in Element, NEW x \in Above(e)
  PROVE  /\ x \in Element /\ x # e /\ x \in Chain[e] /\ At(x) < At(e)
         /\ e \notin Chain[x] /\ Chain[x] \subseteq Above(e) /\ Above(x) \subseteq Above(e)
<1>1. x \in Element /\ x # e /\ x \in Chain[e] /\ Chain[x] \subseteq Chain[e]
  BY Chains DEF Above
<1>2. ASSUME NEW a \in Element, NEW b \in Chain[a] PROVE b \in Element /\ At(b) <= At(a)
  <2>1. b \in Element
    BY Chains
  <2>2. At(a) \in 1 .. Len(Order) /\ Order[At(a)] = a /\ Len(Order) \in Nat
        /\ DOMAIN Order = 1 .. Len(Order)
    BY Places
  <2>3. PICK j \in 1 .. At(a) : Order[j] = b
    BY <2>2, TreeAssumption
  <2>4. At(b) = j
    BY <2>2, <2>3, Places
  <2> QED
    BY <2>1, <2>2, <2>3, <2>4
<1>3. At(x) # At(e) /\ At(x) \in Nat /\ At(e) \in Nat
  BY <1>1, Places
<1>4. At(x) < At(e)
  BY <1>1, <1>2, <1>3
<1>5. e \notin Chain[x]
  BY <1>1, <1>2, <1>3, <1>4
<1> QED
  BY <1>1, <1>4, <1>5 DEF Above

(* An element with what is below it.                                       *)
Within(r) == {x \in Element : r \in Chain[x]}

LEMMA WithinFacts ==
  ASSUME NEW r \in Element
  PROVE  /\ {r} \cup Below(r) = Within(r) /\ r \in Within(r) /\ r \notin Below(r)
         /\ Below(r) \subseteq Element
         /\ \A x \in Within(r) : \A e \in Element : x \in Chain[e] => e \in Within(r)
         /\ \A x \in Below(r) : r \in Above(x)
         /\ \A e \in Element : r \in Above(e) => e \in Below(r)
  BY Chains DEF Within, Below, Above

(* Of some elements, one is below none of the others.                      *)
LEMMA LeastElement ==
  ASSUME NEW T \in SUBSET Nat, T # {}
  PROVE  \E x \in T : \A y \in T : x <= y
<1>1. \E R : /\ IsWellFoundedOn(R, Nat)
             /\ \A x \in Nat, y \in Nat : y < x => <<y, x>> \in R
  <2>1. \A x \in Nat, y \in Nat : y < x => <<y, x>> \in OpToRel(<, Nat)
    BY DEF OpToRel
  <2> QED
    BY <2>1, NatLessThanWellFounded, Zenon
<1>2. PICK R : /\ IsWellFoundedOn(R, Nat)
               /\ \A x \in Nat, y \in Nat : y < x => <<y, x>> \in R
  BY <1>1, Zenon
<1>3. PICK x \in T : \A y \in T : ~ (<<y, x>> \in R)
  BY <1>2, WFMin, Zenon
<1>4. ASSUME NEW y \in T PROVE x <= y
  <2>1. x \in Nat /\ y \in Nat
    OBVIOUS
  <2>2. ~ (y < x)
    BY <1>2, <1>3, <2>1
  <2> QED
    BY <2>1, <2>2
<1> QED
  BY <1>4

LEMMA Induction ==
  ASSUME NEW T \in SUBSET Nat, 0 \in T, \A i \in T : i + 1 \in T
  PROVE  T = Nat
<1> SUFFICES ASSUME Nat \ T # {} PROVE FALSE
  OBVIOUS
<1>1. PICK x \in Nat \ T : \A y \in Nat \ T : x <= y
  BY LeastElement
<1>2. x - 1 \in Nat /\ x - 1 \notin Nat \ T
  BY <1>1
<1> QED
  BY <1>1, <1>2

LEMMA Topmost ==
  ASSUME NEW S \in SUBSET Element, S # {}
  PROVE  \E x \in S : \A y \in S : y \notin Above(x)
<1> DEFINE T == {At(x) : x \in S}
<1>1. T \in SUBSET Nat /\ T # {}
  BY Places
<1>2. PICK i \in T : \A j \in T : i <= j
  BY <1>1, LeastElement
<1>3. PICK x \in S : At(x) = i
  BY <1>2
<1>4. ASSUME NEW y \in S, y \in Above(x) PROVE FALSE
  <2>1. At(y) < At(x) /\ At(y) \in Nat /\ At(x) \in Nat
    BY <1>4, AboveFacts, Places
  <2> QED
    BY <1>2, <1>3, <2>1
<1> QED
  BY <1>4

-----------------------------------------------------------------------------
(* Folds.  The functions by which the code's loops are defined exist, and  *)
(* are what the loops compute.                                             *)

Step(loop, x, i) ==
  CASE loop = "fold"   -> CutIfBelowFold(x, Order[Len(Order) + 1 - i])
    [] loop = "budget" -> CutUnlessFits(x, Order[Len(Order) + 1 - i])
    [] loop = "shed"   -> ShedUnlessFits(x, Order[Len(Order) + 1 - i])
    [] loop = "batch"  -> RecordOp(x, pool[i])

Steps(f, loop, first, n) ==
  f = [i \in 0 .. n |-> IF i = 0 THEN first ELSE Step(loop, f[i - 1], i)]

LEMMA StepsExist ==
  ASSUME NEW loop, NEW first, NEW n \in Nat
  PROVE  \E f : Steps(f, loop, first, n)
<1> DEFINE N(x, i) == Step(loop, x, i)
           S(f, k) == Steps(f, loop, first, k)
           T == {k \in Nat : \E f : S(f, k)}
<1>1. \A f, k : S(f, k) <=> f = [i \in 0 .. k |-> IF i = 0 THEN first ELSE N(f[i - 1], i)]
  BY DEF Steps
<1> HIDE DEF N, S
<1>2. 0 \in T
  <2>1. S([i \in 0 .. 0 |-> first], 0)
    <3>1. Steps([i \in 0 .. 0 |-> first], loop, first, 0)
      BY DEF Steps
    <3> QED
      BY <3>1 DEF S
  <2> QED
    BY <2>1
<1>3. ASSUME NEW k \in T PROVE k + 1 \in T
  <2>1. PICK g : S(g, k)
    OBVIOUS
  <2> DEFINE h == [i \in 0 .. k + 1 |-> IF i = k + 1 THEN N(g[k], k + 1) ELSE g[i]]
  <2>2. /\ k \in Nat
        /\ \A i \in 0 .. k + 1 : h[i] = IF i = k + 1 THEN N(g[k], k + 1) ELSE g[i]
        /\ \A i \in 0 .. k : g[i] = IF i = 0 THEN first ELSE N(g[i - 1], i)
    BY <1>1, <2>1
  <2>3. h = [i \in 0 .. k + 1 |-> h[i]]
    OBVIOUS
  <2> HIDE DEF h
  <2>4. ASSUME NEW i \in 0 .. k + 1
        PROVE  h[i] = IF i = 0 THEN first ELSE N(h[i - 1], i)
    <3>1. CASE i = 0
      BY <2>2, <3>1
    <3>2. CASE i \in 1 .. k
      <4>1. h[i] = g[i] /\ i - 1 \in 0 .. k /\ h[i - 1] = g[i - 1]
        BY <2>2, <3>2
      <4> QED
        BY <2>2, <3>2, <4>1
    <3>3. CASE i = k + 1
      <4>1. h[i - 1] = g[k]
        BY <2>2, <3>3
      <4> QED
        BY <2>2, <3>3, <4>1
    <3> QED
      BY <2>2, <3>1, <3>2, <3>3
  <2>5. S(h, k + 1)
    BY <1>1, <2>3, <2>4
  <2> QED
    BY <2>2, <2>5
<1>4. T = Nat
  <2>1. T \in SUBSET Nat
    OBVIOUS
  <2> HIDE DEF T
  <2> QED
    BY <1>2, <1>3, <2>1, Induction
<1> QED
  BY <1>4 DEF S

LEMMA LoopsAreSteps ==
  ASSUME NEW first
  PROVE  /\ \E f : Steps(f, "fold", first, Len(Order)) /\ CutBelowFold(first) = f[Len(Order)]
         /\ \E f : Steps(f, "budget", first, Len(Order)) /\ CutUntilFits(first) = f[Len(Order)]
         /\ \A media :
              LET p == [copy |-> first, media |-> media]
              IN  \E f : Steps(f, "shed", p, Len(Order))
                         /\ FitForBudget(first, media) = f[Len(Order)]
<1> DEFINE n == Len(Order)
<1>1. n \in Nat
  BY Places
<1>2. ASSUME NEW f, NEW x
      PROVE  /\ Steps(f, "fold", x, n) <=>
                  f = [i \in 0 .. n |->
                         IF i = 0 THEN x ELSE CutIfBelowFold(f[i - 1], Order[n + 1 - i])]
             /\ Steps(f, "budget", x, n) <=>
                  f = [i \in 0 .. n |->
                         IF i = 0 THEN x ELSE CutUnlessFits(f[i - 1], Order[n + 1 - i])]
             /\ Steps(f, "shed", x, n) <=>
                  f = [i \in 0 .. n |->
                         IF i = 0 THEN x ELSE ShedUnlessFits(f[i - 1], Order[n + 1 - i])]
  <2>1. \A y, i : /\ Step("fold", y, i) = CutIfBelowFold(y, Order[n + 1 - i])
                  /\ Step("budget", y, i) = CutUnlessFits(y, Order[n + 1 - i])
                  /\ Step("shed", y, i) = ShedUnlessFits(y, Order[n + 1 - i])
    BY DEF Step
  <2>2. [i \in 0 .. n |-> IF i = 0 THEN x ELSE Step("fold", f[i - 1], i)]
        = [i \in 0 .. n |-> IF i = 0 THEN x ELSE CutIfBelowFold(f[i - 1], Order[n + 1 - i])]
    BY <2>1
  <2>3. [i \in 0 .. n |-> IF i = 0 THEN x ELSE Step("budget", f[i - 1], i)]
        = [i \in 0 .. n |-> IF i = 0 THEN x ELSE CutUnlessFits(f[i - 1], Order[n + 1 - i])]
    BY <2>1
  <2>4. [i \in 0 .. n |-> IF i = 0 THEN x ELSE Step("shed", f[i - 1], i)]
        = [i \in 0 .. n |-> IF i = 0 THEN x ELSE ShedUnlessFits(f[i - 1], Order[n + 1 - i])]
    BY <2>1
  <2> QED
    BY <2>2, <2>3, <2>4, Zenon DEF Steps
<1>3. \E f : Steps(f, "fold", first, n) /\ CutBelowFold(first) = f[n]
  <2>0. PICK g : Steps(g, "fold", first, n)
    BY <1>1, StepsExist
  <2>1. g = [i \in 0 .. n |-> IF i = 0 THEN first ELSE CutIfBelowFold(g[i - 1], Order[n + 1 - i])]
    BY <1>2, <2>0
  <2>2. \E f : /\ f = [i \in 0 .. n |->
                         IF i = 0 THEN first ELSE CutIfBelowFold(f[i - 1], Order[n + 1 - i])]
               /\ CutBelowFold(first) = f[n]
    BY <2>1, Zenon DEF CutBelowFold, LastToFirst
  <2> QED
    BY <1>2, <2>2, Zenon
<1>4. \E f : Steps(f, "budget", first, n) /\ CutUntilFits(first) = f[n]
  <2>0. PICK g : Steps(g, "budget", first, n)
    BY <1>1, StepsExist
  <2>1. g = [i \in 0 .. n |-> IF i = 0 THEN first ELSE CutUnlessFits(g[i - 1], Order[n + 1 - i])]
    BY <1>2, <2>0
  <2>2. \E f : /\ f = [i \in 0 .. n |->
                         IF i = 0 THEN first ELSE CutUnlessFits(f[i - 1], Order[n + 1 - i])]
               /\ CutUntilFits(first) = f[n]
    BY <2>1, Zenon DEF CutUntilFits, LastToFirst
  <2> QED
    BY <1>2, <2>2, Zenon
<1>5. ASSUME NEW media
      PROVE  LET p == [copy |-> first, media |-> media]
             IN  \E f : Steps(f, "shed", p, n) /\ FitForBudget(first, media) = f[n]
  <2>1. PICK p : p = [copy |-> first, media |-> media]
    OBVIOUS
  <2>0. PICK g : Steps(g, "shed", p, n)
    BY <1>1, StepsExist
  <2>2. g = [i \in 0 .. n |-> IF i = 0 THEN p ELSE ShedUnlessFits(g[i - 1], Order[n + 1 - i])]
    BY <1>2, <2>0
  <2>3. FitForBudget(first, media) = LastToFirst(ShedUnlessFits, p)
    BY <2>1 DEF FitForBudget
  <2>4. \E f : /\ f = [i \in 0 .. n |->
                         IF i = 0 THEN p ELSE ShedUnlessFits(f[i - 1], Order[n + 1 - i])]
               /\ FitForBudget(first, media) = f[n]
    BY <2>2, <2>3, Zenon DEF LastToFirst
  <2> QED
    BY <1>2, <2>1, <2>4, Zenon
<1> QED
  BY <1>3, <1>4, <1>5

-----------------------------------------------------------------------------
(* A copy of the page and what is cut from it.                             *)

(* An element is in a copy, or below a placeholder of it.                  *)
Shown(copy, e) ==
  \/ e \in DOMAIN copy
  \/ \E x \in Above(e) \cap DOMAIN copy : copy[x] \in Placeholder

Closed(S) == \A e \in S : Chain[e] \subseteq S

IsCut(copy) ==
  /\ DOMAIN copy \subseteq DOMAIN Uncut
  /\ \A x \in DOMAIN copy : copy[x] \in {Uncut[x], Truncated}
  /\ \A e \in NamedBySnapshot : Shown(copy, e)

LEMMA CutShows ==
  ASSUME NEW copy, DOMAIN copy \subseteq Element, NEW e \in DOMAIN copy
  PROVE  /\ DOMAIN Cut(copy, e) = DOMAIN copy \ Below(e)
         /\ \A x \in DOMAIN Cut(copy, e) :
              Cut(copy, e)[x] = IF x = e THEN Truncated ELSE copy[x]
         /\ \A f \in Element : Shown(copy, f) => Shown(Cut(copy, e), f)
<1>1. e \in Element /\ e \notin Below(e)
  BY WithinFacts
<1>2. /\ DOMAIN Cut(copy, e) = DOMAIN copy \ Below(e)
      /\ \A x \in DOMAIN Cut(copy, e) :
           Cut(copy, e)[x] = IF x = e THEN Truncated ELSE copy[x]
  BY <1>1 DEF Cut, Without
<1>3. ASSUME NEW f \in Element, Shown(copy, f) PROVE Shown(Cut(copy, e), f)
  <2>1. CASE e \in Above(f)
    BY <1>1, <1>2, <2>1 DEF Shown, Placeholder
  <2>2. CASE e \notin Above(f) /\ f \in DOMAIN copy
    <3>1. f \notin Below(e)
      BY <1>1, <2>2, WithinFacts
    <3> QED
      BY <1>2, <2>2, <3>1 DEF Shown
  <2>3. CASE e \notin Above(f) /\ f \notin DOMAIN copy
    <3>1. PICK x \in Above(f) \cap DOMAIN copy : copy[x] \in Placeholder
      BY <1>3, <2>3 DEF Shown
    <3>2. x # e /\ x \in Element /\ Above(x) \subseteq Above(f)
      BY <2>3, <3>1, AboveFacts
    <3>3. x \notin Below(e)
      BY <1>1, <2>3, <3>2, WithinFacts
    <3> QED
      BY <1>2, <3>1, <3>2, <3>3 DEF Shown
  <2> QED
    BY <2>1, <2>2, <2>3
<1> QED
  BY <1>2, <1>3

LEMMA UncutElements ==
  ASSUME present \subseteq Element
  PROVE  /\ DOMAIN Uncut = {x \in NamedBySnapshot : Above(x) \cap Unshareable = {}}
         /\ \A x \in DOMAIN Uncut : Uncut[x] = SnapshotForm(x)
         /\ NamedBySnapshot \subseteq present /\ DOMAIN Uncut \subseteq Element
  BY DEF Uncut, NamedBySnapshot

LEMMA CutStays ==
  ASSUME present \subseteq Element, NEW copy, IsCut(copy), NEW e \in DOMAIN copy
  PROVE  IsCut(Cut(copy, e))
<1>1. DOMAIN copy \subseteq Element /\ NamedBySnapshot \subseteq Element
  BY UncutElements DEF IsCut
<1>2. /\ DOMAIN Cut(copy, e) \subseteq DOMAIN copy
      /\ \A x \in DOMAIN Cut(copy, e) : Cut(copy, e)[x] \in {copy[x], Truncated}
  BY <1>1, CutShows
<1>3. \A f \in NamedBySnapshot : Shown(Cut(copy, e), f)
  BY <1>1, CutShows DEF IsCut
<1> QED
  BY <1>2, <1>3 DEF IsCut

(* An unshareable asset above hides what has a nid: the first of them is   *)
(* in the copy.                                                            *)
LEMMA UncutIsCut ==
  ASSUME present \subseteq Element, Closed(present)
  PROVE  IsCut(Uncut)
<1>1. ASSUME NEW e \in NamedBySnapshot PROVE Shown(Uncut, e)
  <2>1. CASE Above(e) \cap Unshareable = {}
    BY <2>1, UncutElements DEF Shown
  <2>2. CASE Above(e) \cap Unshareable # {}
    <3>1. e \in Element /\ e \in present
      BY UncutElements
    <3>2. Above(e) \cap Unshareable \subseteq Element
      BY <3>1, AboveFacts
    <3>3. PICK u \in Above(e) \cap Unshareable :
            \A y \in Above(e) \cap Unshareable : y \notin Above(u)
      BY <2>2, <3>2, Topmost
    <3>4. /\ u \in Element /\ u \in Chain[e] /\ Above(u) \subseteq Above(e)
          /\ Chain[u] \subseteq Above(e) /\ u \in Chain[u] /\ Chain[u] \subseteq Chain[e]
      BY <3>1, <3>3, AboveFacts, Chains
    <3>5. u \in NamedBySnapshot
      BY <3>1, <3>4 DEF NamedBySnapshot, Closed, Skipped, Marked
    <3>6. u \in DOMAIN Uncut
      BY <3>3, <3>4, <3>5, UncutElements
    <3>7. mark[u] \notin {"block", "media"}
      BY <3>3 DEF NamedBySnapshot, Marked
    <3>8. Uncut[u] = Unavailable
      BY <3>3, <3>6, <3>7, UncutElements DEF SnapshotForm
    <3> QED
      BY <3>3, <3>6, <3>8 DEF Shown, Placeholder
  <2> QED
    BY <2>1, <2>2
<1> QED
  BY <1>1 DEF IsCut

LEMMA TrimmedIsCut ==
  ASSUME present \subseteq Element, NEW copy, IsCut(copy)
  PROVE  IsCut(Trimmed(copy))
<1> DEFINE n == Len(Order)
<1>1. n \in Nat
  BY Places
<1>2. ASSUME NEW f, NEW first, IsCut(first), NEW loop \in {"fold", "budget"},
             Steps(f, loop, first, n)
      PROVE  IsCut(f[n])
  <2> DEFINE T == {i \in Nat : i <= n => IsCut(f[i])}
  <2>1. f[0] = first /\ \A i \in 1 .. n : f[i] = Step(loop, f[i - 1], i)
    BY <1>1, <1>2 DEF Steps
  <2>2. 0 \in T
    BY <1>2, <2>1
  <2>3. ASSUME NEW i \in T PROVE i + 1 \in T
    <3>1. SUFFICES ASSUME i + 1 <= n PROVE IsCut(f[i + 1])
      OBVIOUS
    <3>2. i \in Nat /\ IsCut(f[i]) /\ f[i + 1] = Step(loop, f[i], i + 1)
      BY <1>1, <2>1, <2>3, <3>1
    <3>3. PICK e : \/ Step(loop, f[i], i + 1) = f[i]
                   \/ e \in DOMAIN f[i] /\ Step(loop, f[i], i + 1) = Cut(f[i], e)
      <4>1. CASE loop = "fold"
        BY <4>1 DEF Step, CutIfBelowFold
      <4>2. CASE loop = "budget"
        BY <4>2 DEF Step, CutUnlessFits
      <4> QED
        BY <1>2, <4>1, <4>2
    <3> QED
      BY <3>2, <3>3, CutStays
  <2>4. T = Nat
    <3>1. T \in SUBSET Nat
      OBVIOUS
    <3> HIDE DEF T
    <3> QED
      BY <2>2, <2>3, <3>1, Induction
  <2> QED
    BY <1>1, <2>4
<1>3. IsCut(CutBelowFold(copy))
  BY <1>2, LoopsAreSteps
<1>4. IsCut(CutUntilFits(CutBelowFold(copy)))
  <2>1. PICK c : c = CutBelowFold(copy)
    OBVIOUS
  <2>2. IsCut(c)
    BY <1>3, <2>1
  <2>3. IsCut(CutUntilFits(c))
    BY <1>2, <2>2, LoopsAreSteps
  <2> QED
    BY <2>1, <2>3
<1> QED
  BY <1>4 DEF Trimmed

IsPayload(p) == \E c, m : p = [copy |-> c, media |-> m] /\ IsCut(c)

(* The payload of a snapshot is a cut copy, with the media in it.          *)
LEMMA PayloadFacts ==
  ASSUME present \subseteq Element, Closed(present)
  PROVE  \E c, m : /\ SnapshotPayload = [copy |-> c, media |-> m]
                   /\ IsCut(c) /\ m \subseteq DOMAIN c
<1> DEFINE n == Len(Order)
<1>1. n \in Nat
  BY Places
<1>2. PICK t : t = Trimmed(Uncut)
  OBVIOUS
<1>3. IsCut(t)
  BY <1>2, UncutIsCut, TrimmedIsCut
<1>4. PICK f : /\ Steps(f, "shed", [copy |-> t, media |-> TrackedMedia], n)
               /\ FitForBudget(t, TrackedMedia) = f[n]
  BY LoopsAreSteps
<1> DEFINE T == {i \in Nat : i <= n => IsPayload(f[i])}
<1>5. f[0] = [copy |-> t, media |-> TrackedMedia]
      /\ \A i \in 1 .. n : f[i] = Step("shed", f[i - 1], i)
  BY <1>1, <1>4 DEF Steps
<1>6. 0 \in T
  BY <1>3, <1>5 DEF IsPayload
<1>7. ASSUME NEW i \in T PROVE i + 1 \in T
  <2>1. SUFFICES ASSUME i + 1 <= n PROVE IsPayload(f[i + 1])
    OBVIOUS
  <2>2. i \in Nat /\ IsPayload(f[i]) /\ f[i + 1] = Step("shed", f[i], i + 1)
    BY <1>1, <1>5, <1>7, <2>1
  <2>3. PICK c, m : f[i] = [copy |-> c, media |-> m] /\ IsCut(c)
    BY <2>2 DEF IsPayload
  <2>4. PICK e : e = Order[n + 1 - (i + 1)]
    OBVIOUS
  <2>5. f[i + 1] = ShedUnlessFits(f[i], e)
    BY <2>2, <2>4 DEF Step
  <2>6. CASE f[i + 1] = f[i]
    BY <2>2, <2>6
  <2>7. CASE f[i + 1] # f[i]
    <3>1. e \in DOMAIN c
          /\ f[i + 1] = [copy |-> Cut(c, e), media |-> m \cap DOMAIN Cut(c, e)]
      BY <2>3, <2>5, <2>7 DEF ShedUnlessFits
    <3>2. IsCut(Cut(c, e))
      BY <2>3, <3>1, CutStays
    <3> QED
      BY <3>1, <3>2 DEF IsPayload
  <2> QED
    BY <2>6, <2>7
<1>8. T = Nat
  <2>1. T \in SUBSET Nat
    OBVIOUS
  <2> HIDE DEF T
  <2> QED
    BY <1>6, <1>7, <2>1, Induction
<1>9. PICK c, m : f[n] = [copy |-> c, media |-> m] /\ IsCut(c)
  <2>1. IsPayload(f[n])
    BY <1>1, <1>8
  <2> QED
    BY <2>1 DEF IsPayload
<1>10. SnapshotPayload = PruneMedia(f[n])
  BY <1>2, <1>4 DEF SnapshotPayload
<1>11. SnapshotPayload = [copy |-> c, media |-> m \cap DOMAIN c]
  <2>1. PruneMedia([copy |-> c, media |-> m]) = [copy |-> c, media |-> m \cap DOMAIN c]
    BY DEF PruneMedia
  <2> QED
    BY <1>9, <1>10, <2>1
<1> QED
  BY <1>9, <1>11

-----------------------------------------------------------------------------
(* The pairing of an added subtree with what is live.                      *)

LEMMA ElementsAreFinite == IsFiniteSet(Element)
<1>1. Order \in [1 .. Len(Order) -> Element] /\ Len(Order) \in Nat
  BY TreeAssumption, Places
<1>2. \A e \in Element : \E i \in 1 .. Len(Order) : Order[i] = e
  BY Places
<1>3. Order \in Surjection(1 .. Len(Order), Element)
  BY <1>1, <1>2 DEF Surjection
<1>4. IsFiniteSet(1 .. Len(Order))
  BY <1>1, FS_Interval
<1> QED
  BY <1>3, <1>4, FS_Surjection

LEMMA EarlierGrows ==
  ASSUME NEW S \in SUBSET Element, NEW a \in S, NEW b \in S, At(a) < At(b)
  PROVE  Cardinality(Earlier(S, a)) # Cardinality(Earlier(S, b))
<1>1. a \notin Earlier(S, a) /\ a \in Earlier(S, b) /\ Earlier(S, a) \in SUBSET Earlier(S, b)
  BY Places DEF Earlier
<1>2. IsFiniteSet(Earlier(S, b))
  BY ElementsAreFinite, FS_Subset DEF Earlier
<1> QED
  BY <1>1, <1>2, FS_Subset

LEMMA PairedWithItself ==
  ASSUME present \subseteq Element, NEW r, NEW x \in ClonedBelow(r),
         Earlier(ClonedBelow(r), x) = Earlier(LiveBelow(r), x)
  PROVE  Counterpart(r, x) = x
<1> DEFINE L == LiveBelow(r)
           k == Cardinality(Earlier(ClonedBelow(r), x))
           y == Counterpart(r, x)
<1>1. x \in L /\ L \subseteq Element
  BY DEF ClonedBelow, LiveBelow
<1>2. Cardinality(Earlier(L, x)) = k
  OBVIOUS
<1>3. y \in L /\ Cardinality(Earlier(L, y)) = k
  BY <1>1, <1>2, Zenon DEF Counterpart
<1>4. SUFFICES ASSUME y # x PROVE FALSE
  OBVIOUS
<1>5. At(x) \in Nat /\ At(y) \in Nat /\ At(x) # At(y)
  BY <1>1, <1>3, <1>4, Places
<1>6. At(x) < At(y) \/ At(y) < At(x)
  BY <1>5
<1> QED
  BY <1>1, <1>2, <1>3, <1>6, EarlierGrows

-----------------------------------------------------------------------------
(* The answer to an added element or to a request.                         *)

LEMMA SubtreeFacts ==
  ASSUME NEW r \in Element
  PROVE  /\ DOMAIN SubtreeDispatch(r) =
              {r} \cup {x \in ClonedBelow(r) :
                          \A y \in ClonedBelow(r) :
                            x \in Below(y) => ScrubbedForm(r, y) # Hidden}
         /\ SubtreeDispatch(r)[r] = ElementDispatch(r, r)
         /\ \A x \in DOMAIN SubtreeDispatch(r) \ {r} :
              SubtreeDispatch(r)[x] = ScrubbedForm(r, x)
<1> DEFINE form == [x \in ClonedBelow(r) |-> ScrubbedForm(r, x)]
           gone == UNION {Below(x) : x \in {y \in DOMAIN form : form[y] = Hidden}}
           root == [x \in {r} |-> ElementDispatch(r, r)]
           rest == Without(form, gone)
<1>1. SubtreeDispatch(r) = Over(root, rest)
  BY DEF SubtreeDispatch
<1>2. \A x : x \in gone <=> \E y \in ClonedBelow(r) : ScrubbedForm(r, y) = Hidden /\ x \in Below(y)
  OBVIOUS
<1>3. /\ DOMAIN rest = {x \in ClonedBelow(r) : x \notin gone}
      /\ \A x \in DOMAIN rest : rest[x] = ScrubbedForm(r, x)
  <2>1. DOMAIN form = ClonedBelow(r) /\ \A x \in ClonedBelow(r) : form[x] = ScrubbedForm(r, x)
    OBVIOUS
  <2> HIDE DEF form, gone
  <2> QED
    BY <2>1 DEF Without
<1>4. DOMAIN root = {r} /\ root[r] = ElementDispatch(r, r)
  OBVIOUS
<1> HIDE DEF form, gone, root, rest
<1>5. /\ DOMAIN Over(root, rest) = {r} \cup DOMAIN rest
      /\ Over(root, rest)[r] = root[r]
      /\ \A x \in DOMAIN rest \ {r} : Over(root, rest)[x] = rest[x]
  BY <1>4 DEF Over
<1> QED
  BY <1>1, <1>2, <1>3, <1>4, <1>5

(* What is above an element below r.                                       *)
LEMMA AboveWithin ==
  ASSUME NEW r \in Element, NEW e \in Below(r), NEW z \in Above(e)
  PROVE  z \in Above(r) \/ z = r \/ z \in Below(r)
<1>1. e \in Element /\ r \in Chain[e] /\ z \in Chain[e] /\ z \in Element
  BY AboveFacts, WithinFacts DEF Above, Below
<1>2. z \in Chain[r] \/ r \in Chain[z]
  BY <1>1, Chains
<1> QED
  BY <1>1, <1>2, WithinFacts DEF Above

(* Everything live below r is in the answer, or below a placeholder of it. *)
LEMMA NodeShows ==
  ASSUME present \subseteq Element, Closed(present), NEW r \in present
  PROVE  /\ r \in DOMAIN ProcessAddedNode(r)
         /\ DOMAIN ProcessAddedNode(r) \subseteq Within(r)
         /\ \A e \in present \cap Within(r) : Shown(ProcessAddedNode(r), e)
<1>0. r \in Element
  OBVIOUS
<1>1. CASE mark[r] = "block" \/ r \in Unshareable
  <2>1. PICK p \in Placeholder : ProcessAddedNode(r) = [x \in {r} |-> p]
    BY <1>1 DEF ProcessAddedNode, Placeholder
  <2>2. \A e \in Within(r) : e = r \/ r \in Above(e)
    BY DEF Within, Above
  <2> QED
    BY <1>0, <2>1, <2>2, WithinFacts DEF Shown
<1>2. CASE mark[r] # "block" /\ r \notin Unshareable
  <2> DEFINE D == SubtreeDispatch(r)
             C == ClonedBelow(r)
  <2>1. ProcessAddedNode(r) = D
    BY <1>2 DEF ProcessAddedNode
  <2>2. /\ DOMAIN D = {r} \cup {x \in C : \A y \in C : x \in Below(y) => ScrubbedForm(r, y) # Hidden}
        /\ \A x \in DOMAIN D \ {r} : D[x] = ScrubbedForm(r, x)
    BY <1>0, SubtreeFacts
  <2>3. C \subseteq Below(r) /\ C \subseteq present
    BY DEF ClonedBelow, LiveBelow
  <2>4. Below(r) \subseteq Within(r) /\ r \in Within(r) /\ r \notin Below(r)
    BY <1>0, WithinFacts
  <2> HIDE DEF C, D
  <2>5. ASSUME NEW e \in present \cap Within(r) PROVE Shown(D, e)
    <3>1. SUFFICES ASSUME e \notin DOMAIN D PROVE \E x \in Above(e) \cap DOMAIN D : D[x] \in Placeholder
      BY DEF Shown
    <3>2. e \in Below(r) /\ e \in Element
      BY <1>0, <2>2, <3>1, WithinFacts
    <3> DEFINE Z == {x \in Above(e) \cap C : ScrubbedForm(r, x) \in Placeholder}
    <3>3. Z # {}
      <4>1. CASE e \in C
        <5>1. PICK y \in C : e \in Below(y) /\ ScrubbedForm(r, y) = Hidden
          BY <2>2, <3>1, <4>1
        <5>2. y \in Above(e)
          BY <2>3, <5>1, WithinFacts
        <5> QED
          BY <5>1, <5>2 DEF Placeholder
      <4>2. CASE e \notin C
        <5> DEFINE U == Above(e) \cap Below(r) \cap Unshareable
        <5>1. U # {}
          BY <3>2, <4>2 DEF C, ClonedBelow, LiveBelow
        <5>2. U \subseteq Element
          BY <3>2, AboveFacts
        <5>3. PICK u \in U : \A y \in U : y \notin Above(u)
          BY <5>1, <5>2, Topmost
        <5>4. u \in present /\ Above(u) \subseteq Above(e)
          BY <3>2, <5>3, AboveFacts DEF Closed
        <5>5. u \in C
          BY <5>3, <5>4 DEF C, ClonedBelow, LiveBelow
        <5>6. ScrubbedForm(r, u) \in {Hidden, Unavailable}
          BY <5>3 DEF ScrubbedForm
        <5> QED
          BY <5>3, <5>5, <5>6 DEF Placeholder
      <4> QED
        BY <4>1, <4>2
    <3>4. Z \subseteq Element
      BY <3>2, AboveFacts
    <3>5. PICK z \in Z : \A y \in Z : y \notin Above(z)
      BY <3>3, <3>4, Topmost
    <3>6. z \in DOMAIN D
      <4>1. SUFFICES ASSUME NEW y \in C, z \in Below(y), ScrubbedForm(r, y) = Hidden PROVE FALSE
        BY <2>2, <3>5
      <4>2. y \in Above(z) /\ Above(z) \subseteq Above(e)
        BY <2>3, <3>2, <3>5, <4>1, WithinFacts, AboveFacts
      <4> QED
        BY <3>5, <4>1, <4>2 DEF Placeholder
    <3>7. z # r
      BY <2>3, <2>4, <3>5
    <3> QED
      BY <2>2, <3>5, <3>6, <3>7
  <2> QED
    BY <2>1, <2>2, <2>3, <2>4, <2>5
<1> QED
  BY <1>1, <1>2

LEMMA BoundShows ==
  ASSUME present \subseteq Element, Closed(present), NEW r \in present
  PROVE  /\ r \in DOMAIN BoundAdd(r)
         /\ DOMAIN BoundAdd(r) \subseteq Within(r)
         /\ \A e \in present \cap Within(r) : Shown(BoundAdd(r), e)
<1>1. CASE BoundAdd(r) = ProcessAddedNode(r)
  BY <1>1, NodeShows
<1>2. CASE BoundAdd(r) = [x \in {r} |-> Truncated]
  <2>1. \A e \in Within(r) : e = r \/ r \in Above(e)
    BY DEF Within, Above
  <2> QED
    BY <1>2, <2>1, WithinFacts DEF Shown, Placeholder
<1> QED
  BY <1>1, <1>2 DEF BoundAdd

-----------------------------------------------------------------------------
(* Every path agrees with a snapshot.                                      *)

(* What a snapshot shows: no rule keeps the element out.                   *)
LEMMA ShownBySnapshot ==
  ASSUME present \subseteq Element, NEW e \in present, ~Skipped(e),
         ~Marked(Above(e), {"block", "media"}), Above(e) \cap Unshareable = {}
  PROVE  e \in DOMAIN Uncut /\ Uncut[e] = SnapshotForm(e)
  BY UncutElements DEF NamedBySnapshot

LEMMA RootAgrees ==
  ASSUME present \subseteq Element, NEW r \in present, ~Skipped(r),
         ~Marked(Above(r), {"block"}), ~Marked(Chain[r], {"media"}),
         Above(r) \cap Unshareable = {}
  PROVE  r \in DOMAIN Uncut /\ ProcessAddedNode(r)[r] = Uncut[r]
<1>1. r \in Element /\ r \in Chain[r] /\ Above(r) \subseteq Chain[r]
  BY Chains DEF Above
<1>2. ~Marked(Above(r), {"block", "media"}) /\ mark[r] # "media"
  BY <1>1 DEF Marked
<1>3. r \in DOMAIN Uncut /\ Uncut[r] = SnapshotForm(r)
  BY <1>2, ShownBySnapshot
<1>4. CASE mark[r] = "block"
  BY <1>3, <1>4 DEF ProcessAddedNode, SnapshotForm
<1>5. CASE mark[r] # "block" /\ r \in Unshareable
  BY <1>2, <1>3, <1>5 DEF ProcessAddedNode, SnapshotForm
<1>6. CASE mark[r] # "block" /\ r \notin Unshareable
  <2>1. ProcessAddedNode(r)[r] = ElementDispatch(r, r)
    BY <1>1, <1>6, SubtreeFacts DEF ProcessAddedNode
  <2> QED
    BY <1>2, <1>3, <1>6, <2>1 DEF SnapshotForm
<1> QED
  BY <1>4, <1>5, <1>6

(* Below the root, as long as nothing before it has shifted the pairing:   *)
(* then whatever hides it is hidden itself.                                *)
LEMMA DescendantAgrees ==
  ASSUME present \subseteq Element, Closed(present), NEW r \in present, ~Skipped(r),
         ~Marked(Above(r), {"block"}), ~Marked(Chain[r], {"media"}),
         Above(r) \cap Unshareable = {},
         NEW e \in DOMAIN ProcessAddedNode(r), e # r,
         ~Marked(Chain[e] \ Chain[r], {"skip"}),
         Earlier(ClonedBelow(r), e) = Earlier(LiveBelow(r), e)
  PROVE  e \in DOMAIN Uncut /\ ProcessAddedNode(r)[e] = Uncut[e]
<1> DEFINE C == ClonedBelow(r)
<1>1. r \in Element /\ r \in Chain[r] /\ Above(r) \subseteq Chain[r]
  BY Chains DEF Above
<1>2. mark[r] # "block" /\ r \notin Unshareable /\ ProcessAddedNode(r) = SubtreeDispatch(r)
  BY DEF ProcessAddedNode
<1>3. /\ e \in C
      /\ \A y \in C : e \in Below(y) => ScrubbedForm(r, y) # Hidden
      /\ ProcessAddedNode(r)[e] = ScrubbedForm(r, e)
  BY <1>1, <1>2, SubtreeFacts
<1>4. /\ C \subseteq LiveBelow(r) /\ C \subseteq present /\ C \subseteq Below(r)
      /\ \A x \in LiveBelow(r) : Above(x) \cap Below(r) \cap Unshareable = {} => x \in C
      /\ Above(e) \cap Below(r) \cap Unshareable = {}
      /\ LiveBelow(r) = present \cap Below(r)
  BY <1>3 DEF ClonedBelow, LiveBelow
<1>5. ASSUME NEW z \in Above(e) PROVE mark[z] \notin {"block", "media"}
  <2>1. CASE z \in Chain[r]
    BY <1>1, <1>2, <2>1 DEF Marked, Above
  <2>2. CASE z \in Below(r)
    <3>0. PICK S : S = {x \in Above(e) \cap Below(r) : mark[x] \in {"block", "media"}}
      OBVIOUS
    <3>1. SUFFICES ASSUME S # {} PROVE FALSE
      BY <2>2, <3>0
    <3>2. e \in Element /\ S \subseteq Element
      BY <1>3, <1>4, <3>0, AboveFacts
    <3>3. PICK w \in S : \A y \in S : y \notin Above(w)
      BY <3>1, <3>2, Topmost
    <3>4. /\ w \in Element /\ Above(w) \subseteq Above(e) /\ At(w) < At(e)
          /\ w \in Chain[e] /\ w \in Below(r)
      BY <3>0, <3>2, <3>3, AboveFacts
    <3>5. w \in C
      BY <1>3, <1>4, <3>4 DEF Closed
    <3>6. \A x \in Element : At(x) < At(w) => At(x) < At(e)
      BY <3>2, <3>4, Places
    <3>7. LiveBelow(r) \subseteq Element
      BY <1>4
    <3>8. Earlier(C, w) = Earlier(LiveBelow(r), w)
      <4>1. \A x \in Earlier(C, w) : x \in Earlier(LiveBelow(r), w)
        BY <1>4 DEF Earlier
      <4>2. ASSUME NEW x \in Earlier(LiveBelow(r), w) PROVE x \in Earlier(C, w)
        <5>1. x \in LiveBelow(r) /\ At(x) < At(w)
          BY DEF Earlier
        <5>2. x \in Earlier(LiveBelow(r), e)
          BY <3>6, <3>7, <5>1 DEF Earlier
        <5>3. x \in Earlier(C, e)
          BY <5>2
        <5> QED
          BY <5>1, <5>3 DEF Earlier
      <4> QED
        BY <4>1, <4>2 DEF Earlier
    <3>9. Counterpart(r, w) = w
      BY <3>5, <3>8, PairedWithItself
    <3>10. ~Marked(Above(w), {"block", "media"})
      <4>1. SUFFICES ASSUME NEW x \in Above(w), mark[x] \in {"block", "media"} PROVE FALSE
        BY DEF Marked
      <4>2. x \in Above(r) \/ x = r \/ x \in Below(r)
        BY <1>1, <3>4, <4>1, AboveWithin
      <4>3. x \in Chain[r]
        BY <1>1, <3>0, <3>3, <3>4, <4>1, <4>2
      <4> QED
        BY <1>1, <1>2, <4>1, <4>3 DEF Marked, Above
    <3>11. ScrubbedForm(r, w) = Hidden
      BY <3>0, <3>3, <3>9, <3>10 DEF ScrubbedForm
    <3>12. e \in Below(w)
      BY <3>0, <3>2, <3>3, <3>4, WithinFacts
    <3> QED
      BY <1>3, <3>5, <3>11, <3>12
  <2> QED
    BY <1>1, <1>3, <1>4, <2>1, <2>2, AboveWithin DEF Above
<1>6. ~Skipped(e)
  BY DEF Skipped, Marked
<1>7. Above(e) \cap Unshareable = {}
  <2>1. SUFFICES ASSUME NEW z \in Above(e) \cap Unshareable PROVE FALSE
    OBVIOUS
  <2>2. z \in Above(r) \/ z = r \/ z \in Below(r)
    BY <1>1, <1>3, <1>4, AboveWithin
  <2> QED
    BY <1>2, <1>4, <2>1, <2>2
<1>8. ~Marked(Above(e), {"block", "media"})
  BY <1>5 DEF Marked
<1>9. e \in DOMAIN Uncut /\ Uncut[e] = SnapshotForm(e)
  BY <1>3, <1>4, <1>6, <1>7, <1>8, ShownBySnapshot
<1>10. Counterpart(r, e) = e
  BY <1>3, PairedWithItself
<1>11. ScrubbedForm(r, e) = SnapshotForm(e)
  BY <1>8, <1>10 DEF ScrubbedForm, SnapshotForm
<1> QED
  BY <1>3, <1>9, <1>11

LEMMA NodeAgrees ==
  ASSUME present \subseteq Element, Closed(present), NEW r \in present, ~Skipped(r),
         ~Marked(Above(r), {"block"}), NEW path \in {"add", "subtree"},
         NEW s \in Sending(ProcessAddedNode(r), path, r)
  PROVE  Agrees(s)
<1>1. /\ s.el \in DOMAIN ProcessAddedNode(r) /\ s.form = ProcessAddedNode(r)[s.el]
      /\ s.path = path /\ s.root = r
  BY DEF Sending
<1>2. SUFFICES ASSUME ~InMaskedMedia(s), ~InUnavailable(s), ~SkippedInside(s), ~Shifted(s)
               PROVE  s.el \in DOMAIN Uncut /\ s.form = Uncut[s.el]
  BY <1>1 DEF Agrees
<1>3. ~Marked(Chain[r], {"media"}) /\ Above(r) \cap Unshareable = {}
  BY <1>1, <1>2 DEF InMaskedMedia, InUnavailable
<1>4. CASE s.el = r
  BY <1>1, <1>3, <1>4, RootAgrees
<1>5. CASE s.el # r
  <2>1. /\ ~Marked(Chain[s.el] \ Chain[r], {"skip"})
        /\ Earlier(ClonedBelow(r), s.el) = Earlier(LiveBelow(r), s.el)
    BY <1>1, <1>2, <1>5 DEF SkippedInside, Shifted
  <2> QED
    BY <1>1, <1>3, <1>5, <2>1, DescendantAgrees
<1> QED
  BY <1>4, <1>5

LEMMA BoundAgrees ==
  ASSUME present \subseteq Element, Closed(present), NEW r \in present, ~Skipped(r),
         ~Marked(Above(r), {"block"}), NEW s \in Sending(BoundAdd(r), "add", r)
  PROVE  Agrees(s)
<1>1. CASE BoundAdd(r) = ProcessAddedNode(r)
  BY <1>1, NodeAgrees
<1>2. CASE BoundAdd(r) = [x \in {r} |-> Truncated]
  BY <1>2 DEF Sending, Agrees
<1> QED
  BY <1>1, <1>2 DEF BoundAdd

(* The mask that a content path puts on is the one of a snapshot.          *)
RulesTyped ==
  /\ rules.control \in {"textarea", "password"}
  /\ rules.dead \subseteq Media

LEMMA ContentAgrees ==
  ASSUME RulesTyped, present \subseteq Element, NEW e \in present \ Media,
         ~Skipped(e), ~Blocked(e), NEW path, NEW form,
         \/ path = "text" /\ form = TextDispatch(e)
         \/ path = "attr" /\ form = AttrDispatch(e) /\ e \in Control
              /\ rules.control = "password"
         \/ path = "value" /\ form = InputDispatch(e) /\ e \in Control
  PROVE  \A s \in Sending([x \in {e} |-> form], path, e) : Agrees(s)
<1>1. SUFFICES ASSUME NEW s \in Sending([x \in {e} |-> form], path, e),
                      ~InMaskedMedia(s), ~InUnavailable(s), ~TextareaContent(s)
               PROVE  e \in DOMAIN Uncut /\ form = Uncut[e]
  BY DEF Sending, Agrees
<1>2. s.el = e /\ s.path = path /\ s.root = e
  BY DEF Sending
<1>3. e \in Element /\ e \in Chain[e] /\ Above(e) \subseteq Chain[e]
  BY Chains DEF Above
<1>4. /\ ~Marked(Above(e), {"block", "media"}) /\ mark[e] \notin {"block", "media"}
      /\ Above(e) \cap Unshareable = {}
  BY <1>1, <1>2, <1>3 DEF InMaskedMedia, InUnavailable, Blocked, Marked
<1>5. e \notin Unshareable
  BY DEF Unshareable, RulesTyped
<1>6. e \in DOMAIN Uncut /\ Uncut[e] = ElementDispatch(e, e)
  BY <1>4, <1>5, ShownBySnapshot DEF SnapshotForm
<1>7. ElementDispatch(e, e) = ValueMask(e, e) \o TextMask(e, e)
  BY DEF ElementDispatch
<1>8. /\ <<>> \o <<>> = <<>> /\ SafeMaskInput \o <<>> = SafeMaskInput
      /\ <<>> \o SafeMaskText = SafeMaskText
  BY DEF SafeMaskInput, SafeMaskText
<1>9. CASE ShouldMaskInput(e)
  <2>1. e \in Control /\ ValueMask(e, e) = SafeMaskInput /\ form = SafeMaskInput
    BY <1>9 DEF ShouldMaskInput, ValueMask, TextDispatch, AttrDispatch, InputDispatch
  <2>2. TextMask(e, e) = <<>>
    BY <1>1, <1>2, <2>1 DEF TextMask, TextareaContent
  <2> QED
    BY <1>6, <1>7, <1>8, <2>1, <2>2
<1>10. CASE ~ShouldMaskInput(e)
  <2>1. ValueMask(e, e) = <<>>
    BY <1>10 DEF ValueMask
  <2>2. form = TextMask(e, e)
    <3>1. CASE e \in Control
      <4>1. rules.control = "textarea" /\ path # "attr"
        BY <1>10, <3>1 DEF ShouldMaskInput, RulesTyped
      <4>2. ~MaskTextMatches(e)
        BY <1>1, <1>2, <3>1, <4>1 DEF TextareaContent
      <4> QED
        BY <1>10, <4>1, <4>2 DEF TextMask, TextDispatch, InputDispatch
    <3>2. CASE e \notin Control
      BY <1>10, <3>2 DEF TextMask, TextDispatch
    <3> QED
      BY <3>1, <3>2
  <2>3. TextMask(e, e) \in {<<>>, SafeMaskText}
    BY DEF TextMask
  <2> QED
    BY <1>6, <1>7, <1>8, <2>1, <2>2, <2>3
<1> QED
  BY <1>9, <1>10

LEMMA SnapshotAgrees ==
  ASSUME NEW copy, IsCut(copy), NEW s \in Sending(copy, "snapshot", Top)
  PROVE  Agrees(s)
  BY DEF Sending, IsCut, Agrees

-----------------------------------------------------------------------------
(* The inductive invariant.                                                *)

Record == [type : {"add", "rm", "text", "data", "attr"}, el : Element]

PoolTyped(q) ==
  /\ q \in Seq(Record)
  /\ \A i \in 1 .. Len(q) :
       /\ q[i].type \in {"add", "rm"} => q[i].el # Top
       /\ q[i].type \in {"text", "data"} => q[i].el \notin Media
       /\ q[i].type = "attr" => q[i].el \in Control /\ rules.control = "password"

Typed ==
  /\ RulesTyped /\ PoolTyped(pool)
  /\ present \subseteq Element /\ tracked \subseteq Element
  /\ DOMAIN mirror \subseteq Element

(* After the first k of the records q, one is left that adds e.            *)
Comes(q, e, k) ==
  \E i \in k + 1 .. Len(q) : q[i].type = "add" /\ q[i].el \in Chain[e]

(* What a record of q removes, and is on the page P, a later one adds.     *)
Returned(q, P) ==
  \A k \in 1 .. Len(q) :
    q[k].type = "rm" => \A e \in P : q[k].el \in Chain[e] => Comes(q, e, k)

(* What is tracked (T) and on the page P, the mirror m shows, or it is     *)
(* orphaned (w), or it comes.                                              *)
Accounted(T, m, w, q, P, k) ==
  \A e \in T \cap P : Shown(m, e) \/ Chain[e] \cap w # {} \/ Comes(q, e, k)

Inv ==
  /\ Typed /\ Closed(present) /\ Closed(tracked)
  /\ Returned(pool, present)
  /\ Accounted(tracked, mirror, orphaned, pool, present, 0)
  /\ PathsAgree /\ KnownTargets

LEMMA RecordFacts ==
  ASSUME Typed, NEW k \in Nat, k + 1 <= Len(pool)
  PROVE  LET c == pool[k + 1]
         IN  /\ c.type \in {"add", "rm", "text", "data", "attr"} /\ c.el \in Element
             /\ c.type \in {"add", "rm"} => c.el # Top
             /\ c.type \in {"text", "data"} => c.el \notin Media
             /\ c.type = "attr" => c.el \in Control /\ rules.control = "password"
             /\ RulesTyped /\ PoolTyped(pool) /\ pool \in Seq(Record)
             /\ present \subseteq Element
<1>1. pool \in Seq(Record) /\ Len(pool) \in Nat
  BY DEF Typed, PoolTyped
<1>2. k + 1 \in 1 .. Len(pool)
  BY <1>1
<1>3. pool[k + 1] \in Record
  BY <1>1, <1>2
<1>4. pool[k + 1].type \in {"add", "rm", "text", "data", "attr"} /\ pool[k + 1].el \in Element
  BY <1>3 DEF Record
<1> QED
  BY <1>1, <1>2, <1>4 DEF Typed, PoolTyped

LEMMA ComesNext ==
  ASSUME NEW q \in Seq(Record), NEW k \in Nat, k + 1 <= Len(q), NEW e, Comes(q, e, k)
  PROVE  \/ q[k + 1].type = "add" /\ q[k + 1].el \in Chain[e]
         \/ Comes(q, e, k + 1)
  BY DEF Comes

LEMMA ComesLater ==
  ASSUME NEW q \in Seq(Record), NEW m \in Record, NEW k \in 0 .. Len(q), NEW e
  PROVE  /\ Comes(q, e, k) => Comes(Append(q, m), e, k)
         /\ m.type = "add" /\ m.el \in Chain[e] => Comes(Append(q, m), e, k)
  BY DEF Comes

LEMMA ComesWith ==
  ASSUME NEW q, NEW k, NEW e \in Element, NEW a \in Chain[e], Comes(q, a, k)
  PROVE  Comes(q, e, k)
  BY Chains DEF Comes

-----------------------------------------------------------------------------
(* A batch.                                                                *)

Batch(acc, k) ==
  /\ \E t, m, w, s, x, r :
       acc = [tracked |-> t, mirror |-> m, orphaned |-> w,
              sent |-> s, missed |-> x, removed |-> r]
  /\ acc.tracked \subseteq Element /\ DOMAIN acc.mirror \subseteq Element
  /\ acc.removed \subseteq Element
  /\ Closed(acc.tracked)
  /\ Accounted(acc.tracked, acc.mirror, acc.orphaned, pool, present, k)
  /\ acc.missed \subseteq acc.tracked
  /\ \A s \in acc.sent : Agrees(s)

LEMMA BatchOf ==
  ASSUME NEW t \in SUBSET Element, NEW m, DOMAIN m \subseteq Element, NEW w, NEW s,
         NEW x \in SUBSET t, NEW g \in SUBSET Element, NEW k, Closed(t),
         Accounted(t, m, w, pool, present, k), \A c \in s : Agrees(c)
  PROVE  Batch([tracked |-> t, mirror |-> m, orphaned |-> w,
                sent |-> s, missed |-> x, removed |-> g], k)
<1> DEFINE acc == [tracked |-> t, mirror |-> m, orphaned |-> w,
                   sent |-> s, missed |-> x, removed |-> g]
<1>1. /\ acc.tracked = t /\ acc.mirror = m /\ acc.orphaned = w
      /\ acc.sent = s /\ acc.missed = x /\ acc.removed = g
  OBVIOUS
<1>2. \E a, b, c, d, e, f : acc = [tracked |-> a, mirror |-> b, orphaned |-> c,
                                  sent |-> d, missed |-> e, removed |-> f]
  BY Zenon
<1> HIDE DEF acc
<1>3. Batch(acc, k)
  BY <1>1, <1>2 DEF Batch
<1> QED
  BY <1>3 DEF acc

(* A copy put in the place of r and of what is below it.                   *)
LEMMA Replaced ==
  ASSUME NEW m, DOMAIN m \subseteq Element, NEW r \in Element,
         NEW copy, DOMAIN copy \subseteq Within(r), r \in DOMAIN copy
  PROVE  /\ DOMAIN Over(copy, Without(m, Below(r))) \subseteq Element
         /\ \A e \in Element :
              Shown(copy, e) => Shown(Over(copy, Without(m, Below(r))), e)
         /\ \A e \in Element \ Within(r) :
              Shown(m, e) => Shown(Over(copy, Without(m, Below(r))), e)
<1> DEFINE M == Over(copy, Without(m, Below(r)))
<1>1. /\ DOMAIN M = DOMAIN copy \cup (DOMAIN m \ Below(r))
      /\ \A x \in DOMAIN copy : M[x] = copy[x]
      /\ \A x \in (DOMAIN m \ Below(r)) \ DOMAIN copy : M[x] = m[x]
  BY DEF Over, Without
<1>2. Within(r) \subseteq Element /\ Below(r) \subseteq Within(r)
  BY WithinFacts
<1> HIDE DEF M
<1>3. \A e \in Element : Shown(copy, e) => Shown(M, e)
  BY <1>1 DEF Shown
<1>4. ASSUME NEW e \in Element \ Within(r), Shown(m, e) PROVE Shown(M, e)
  <2>1. CASE e \in DOMAIN m
    BY <1>1, <1>2, <2>1 DEF Shown
  <2>2. CASE e \notin DOMAIN m
    <3>1. PICK x \in Above(e) \cap DOMAIN m : m[x] \in Placeholder
      BY <1>4, <2>2 DEF Shown
    <3>2. x \in Chain[e]
      BY <3>1 DEF Above
    <3>3. x \notin Within(r)
      BY <3>2, WithinFacts
    <3> QED
      BY <1>1, <1>2, <3>1, <3>3 DEF Shown
  <2> QED
    BY <2>1, <2>2
<1> QED
  BY <1>1, <1>2, <1>3, <1>4 DEF M

LEMMA NamedBelow ==
  ASSUME present \subseteq Element, Closed(present), NEW r \in present,
         NEW T, Closed(T), Above(r) \subseteq T
  PROVE  /\ NamedByAdd(r) \subseteq Within(r) \cap present
         /\ Closed(T \cup NamedByAdd(r))
<1>1. r \in Element /\ r \in Chain[r]
  BY Chains
<1>2. NamedByAdd(r) \subseteq Within(r) \cap present /\ r \in NamedByAdd(r)
  BY <1>1, WithinFacts DEF NamedByAdd
<1>3. ASSUME NEW e \in NamedByAdd(r), NEW x \in Chain[e] PROVE x \in T \cup NamedByAdd(r)
  <2>1. e \in Element /\ e \in present /\ r \in Chain[e] /\ x \in present /\ x \in Element
    BY <1>2, <1>3 DEF Within, Closed
  <2>2. x \in Chain[r] \/ r \in Chain[x]
    BY <1>3, <2>1, Chains
  <2>3. CASE x \in Chain[r]
    <3>1. x = r \/ x \in Above(r)
      BY <2>3 DEF Above
    <3> QED
      BY <1>2, <3>1
  <2>4. CASE r \in Chain[x] /\ x \notin Chain[r]
    <3>1. x # r /\ x \in Below(r)
      BY <1>1, <2>1, <2>4, WithinFacts DEF Above
    <3>2. e # r
      BY <1>3, <2>4
    <3>3. mark[r] # "block" /\ ~Marked(Above(e), {"block"})
      BY <3>2 DEF NamedByAdd
    <3>4. Above(x) \subseteq Above(e)
      <4>1. CASE x = e
        BY <4>1
      <4>2. CASE x # e
        <5>1. x \in Above(e)
          BY <1>3, <4>2 DEF Above
        <5> QED
          BY <2>1, <5>1, AboveFacts
      <4> QED
        BY <4>1, <4>2
    <3> QED
      BY <2>1, <3>1, <3>3, <3>4 DEF NamedByAdd, Marked
  <2> QED
    BY <2>2, <2>3, <2>4
<1> QED
  BY <1>2, <1>3 DEF Closed

(* Records that add nothing leave what comes.                              *)
LEMMA SameComes ==
  ASSUME PoolTyped(pool), NEW k \in Nat, k + 1 <= Len(pool), NEW acc, Batch(acc, k),
         \A e \in present \cap acc.tracked :
            pool[k + 1].type = "add" => pool[k + 1].el \notin Chain[e]
  PROVE  Batch(acc, k + 1)
<1>1. pool \in Seq(Record)
  BY DEF PoolTyped
<1>2. Accounted(acc.tracked, acc.mirror, acc.orphaned, pool, present, k + 1)
  BY <1>1, ComesNext DEF Batch, Accounted
<1> QED
  BY <1>2 DEF Batch

LEMMA AddedStep ==
  ASSUME Typed, Closed(present), NEW k \in Nat, k + 1 <= Len(pool), NEW acc, Batch(acc, k),
         NEW r \in present, r # Top, ~KeptOut(r), Parent[r] \in acc.tracked,
         pool[k + 1].el = r
  PROVE  Batch(Added(acc, r), k + 1)
<1>0. pool \in Seq(Record) /\ present \subseteq Element
  BY DEF Typed, PoolTyped
<1>1. PICK t, m, w, s, x, g :
         acc = [tracked |-> t, mirror |-> m, orphaned |-> w,
                sent |-> s, missed |-> x, removed |-> g]
  BY DEF Batch
<1>2. /\ t \subseteq Element /\ DOMAIN m \subseteq Element /\ g \subseteq Element
      /\ Closed(t) /\ Accounted(t, m, w, pool, present, k) /\ x \subseteq t
      /\ \A c \in s : Agrees(c)
  BY <1>1 DEF Batch
<1>3. /\ r \in Element /\ Parent[r] \in Element /\ Above(r) = Chain[Parent[r]]
      /\ Parent[r] \in Chain[Parent[r]] /\ r \in Chain[r]
  <2>1. r \in Element
    BY <1>0
  <2>2. Parent[r] \in Element /\ Above(r) = Chain[Parent[r]] /\ r \in Chain[r]
    BY <2>1, Chains
  <2> QED
    BY <2>1, <2>2, Chains
<1>4. Parent[r] \in t
  BY <1>1
<1> DEFINE N == NamedByAdd(r)
           p == Parent[r]
<1>5. N \subseteq Within(r) \cap present /\ Closed(t \cup N)
  <2>1. Above(r) \subseteq t
    BY <1>2, <1>3, <1>4 DEF Closed
  <2> QED
    BY <1>0, <1>2, <2>1, NamedBelow
<1>6. \A e \in t \cap present : e \notin Within(r) =>
        Shown(m, e) \/ Chain[e] \cap w # {} \/ Comes(pool, e, k + 1)
  BY <1>0, <1>2, ComesNext DEF Accounted, Within
<1>7. Within(r) \subseteq Element /\ {r} \cup Below(r) = Within(r)
      /\ \A e \in Element, y \in Within(r) : y \in Chain[e] => e \in Within(r)
  BY <1>3, WithinFacts DEF Within
<1>8. CASE p \notin DOMAIN m
  <2>1. Added(acc, r) = [tracked |-> t \cup N, mirror |-> m, orphaned |-> w,
                         sent |-> s, missed |-> x \cup {p}, removed |-> g]
    BY <1>1, <1>8 DEF Added
  <2>2. p \in present /\ r \notin Chain[p]
    BY <1>3 DEF Closed, Above
  <2>3. ASSUME NEW e \in Within(r)
        PROVE  Shown(m, e) \/ Chain[e] \cap w # {} \/ Comes(pool, e, k + 1)
    <3>1. e \in Element /\ p \in Chain[e] /\ Chain[p] \subseteq Above(e)
      <4>1. e \in Element /\ r \in Chain[e]
        BY DEF Within
      <4>2. Above(r) \subseteq Above(e)
        <5>1. CASE e = r
          BY <5>1
        <5>2. CASE e # r
          <6>1. r \in Above(e)
            BY <4>1, <5>2 DEF Above
          <6> QED
            BY <4>1, <6>1, AboveFacts
        <5> QED
          BY <5>1, <5>2
      <4> QED
        BY <1>3, <4>1, <4>2 DEF Above
    <3>2. \/ Shown(m, p) \/ Chain[p] \cap w # {} \/ Comes(pool, p, k + 1)
      BY <1>0, <1>2, <1>4, <2>2, ComesNext DEF Accounted
    <3>3. CASE Shown(m, p)
      BY <1>8, <3>1, <3>3 DEF Shown, Above
    <3>4. CASE Chain[p] \cap w # {}
      BY <3>1, <3>4 DEF Above
    <3>5. CASE Comes(pool, p, k + 1)
      BY <3>1, <3>5, ComesWith
    <3> QED
      BY <3>2, <3>3, <3>4, <3>5
  <2>4. Accounted(t \cup N, m, w, pool, present, k + 1)
    BY <1>5, <1>6, <2>3 DEF Accounted
  <2>5. t \cup N \in SUBSET Element /\ x \cup {p} \in SUBSET (t \cup N)
    BY <1>2, <1>4, <1>5, <1>7
  <2>6. PICK u, y : u = t \cup N /\ y = x \cup {p}
    OBVIOUS
  <2>7. /\ u \in SUBSET Element /\ y \in SUBSET u /\ Closed(u)
        /\ Accounted(u, m, w, pool, present, k + 1)
    BY <1>5, <2>4, <2>5, <2>6
  <2>8. Batch([tracked |-> u, mirror |-> m, orphaned |-> w,
               sent |-> s, missed |-> y, removed |-> g], k + 1)
    BY <1>2, <2>7, BatchOf
  <2> QED
    BY <2>1, <2>6, <2>8
<1>9. CASE p \in DOMAIN m
  <2> DEFINE copy == BoundAdd(r)
             M == Over(copy, Without(m, Below(r)))
             W == w \ ({r} \cup Below(r))
             new == Sending(copy, "add", r)
  <2>1. Added(acc, r) = [tracked |-> t \cup N, mirror |-> M, orphaned |-> W,
                         sent |-> s \cup new, missed |-> x, removed |-> g]
    BY <1>1, <1>9 DEF Added
  <2>2. /\ r \in DOMAIN copy /\ DOMAIN copy \subseteq Within(r)
        /\ \A e \in present \cap Within(r) : Shown(copy, e)
    BY <1>0, BoundShows
  <2>3. /\ DOMAIN M \subseteq Element
        /\ \A e \in Element : Shown(copy, e) => Shown(M, e)
        /\ \A e \in Element \ Within(r) : Shown(m, e) => Shown(M, e)
    BY <1>2, <1>3, <2>2, Replaced
  <2>4. ~Skipped(r) /\ ~Marked(Above(r), {"block"})
    BY <1>3 DEF KeptOut, Blocked
  <2>5. \A c \in new : Agrees(c)
    BY <1>0, <2>4, BoundAgrees
  <2> HIDE DEF copy, M, new, N
  <2>6. ASSUME NEW e \in (t \cup N) \cap present
        PROVE  Shown(M, e) \/ Chain[e] \cap W # {} \/ Comes(pool, e, k + 1)
    <3>1. e \in Element
      BY <1>0
    <3>2. CASE e \in Within(r)
      BY <2>2, <2>3, <3>1, <3>2
    <3>3. CASE e \notin Within(r)
      <4>1. Shown(m, e) \/ Chain[e] \cap w # {} \/ Comes(pool, e, k + 1)
        BY <1>5, <1>6, <3>3
      <4>2. Chain[e] \cap w # {} => Chain[e] \cap W # {}
        BY <1>7, <3>1, <3>3
      <4> QED
        BY <2>3, <3>1, <3>3, <4>1, <4>2
    <3> QED
      BY <3>2, <3>3
  <2>7. Accounted(t \cup N, M, W, pool, present, k + 1)
    BY <2>6 DEF Accounted
  <2>8. t \cup N \in SUBSET Element /\ x \in SUBSET (t \cup N)
    BY <1>2, <1>5, <1>7
  <2>9. Closed(t \cup N) /\ \A c \in s \cup new : Agrees(c)
    BY <1>2, <1>5, <2>5 DEF N
  <2>10. PICK u, v, y, c : u = t \cup N /\ v = M /\ y = W /\ c = s \cup new
    OBVIOUS
  <2>11. /\ u \in SUBSET Element /\ x \in SUBSET u /\ Closed(u) /\ DOMAIN v \subseteq Element
         /\ Accounted(u, v, y, pool, present, k + 1) /\ \A b \in c : Agrees(b)
    BY <2>3, <2>7, <2>8, <2>9, <2>10
  <2>12. Batch([tracked |-> u, mirror |-> v, orphaned |-> y,
                sent |-> c, missed |-> x, removed |-> g], k + 1)
    BY <1>2, <2>11, BatchOf
  <2> QED
    BY <2>1, <2>10, <2>12
<1> QED
  BY <1>8, <1>9

LEMMA AddStep ==
  ASSUME Typed, Closed(present), NEW k \in Nat, k + 1 <= Len(pool), NEW acc, Batch(acc, k),
         pool[k + 1].type = "add"
  PROVE  Batch(AddOp(acc, pool[k + 1].el), k + 1)
<1>0. PICK r : r = pool[k + 1].el
  OBVIOUS
<1>1. /\ PoolTyped(pool) /\ pool \in Seq(Record) /\ present \subseteq Element
      /\ r \in Element /\ r # Top
  BY <1>0, RecordFacts
<1>2. /\ r \in Chain[r] /\ Parent[r] \in Element /\ Above(r) = Chain[Parent[r]]
  BY <1>1, Chains
<1>3. CASE r \notin present
  <2>1. \A e \in present : r \notin Chain[e]
    BY <1>3 DEF Closed
  <2> QED
    BY <1>0, <1>1, <1>3, <2>1, SameComes DEF AddOp
<1>4. CASE r \in present /\ KeptOut(r)
  <2>1. PICK t, m, w, s, x, g :
           acc = [tracked |-> t, mirror |-> m, orphaned |-> w,
                  sent |-> s, missed |-> x, removed |-> g]
    BY DEF Batch
  <2>2. /\ t \subseteq Element /\ DOMAIN m \subseteq Element /\ g \subseteq Element
        /\ Closed(t) /\ Accounted(t, m, w, pool, present, k) /\ x \subseteq t
        /\ \A c \in s : Agrees(c)
    BY <2>1 DEF Batch
  <2>3. PICK y : y = w \cup ((({r} \cup Below(r)) \cap t) \ DOMAIN m)
    OBVIOUS
  <2>4. AddOp(acc, r) = [tracked |-> t, mirror |-> m, orphaned |-> y,
                         sent |-> s, missed |-> x, removed |-> g]
    BY <1>4, <2>1, <2>3 DEF AddOp, Withheld
  <2>5. ASSUME NEW e \in t \cap present
        PROVE  Shown(m, e) \/ Chain[e] \cap y # {} \/ Comes(pool, e, k + 1)
    <3>1. e \in Element /\ e \in Chain[e]
      BY <1>1, Chains
    <3>2. \/ Shown(m, e) \/ Chain[e] \cap w # {} \/ Comes(pool, e, k + 1) \/ r \in Chain[e]
      BY <1>0, <1>1, <2>2, ComesNext DEF Accounted
    <3>3. CASE r \in Chain[e]
      <4>1. e \in {r} \cup Below(r)
        BY <1>1, <3>1, <3>3, WithinFacts DEF Within
      <4> QED
        BY <2>3, <3>1, <4>1 DEF Shown
    <3> QED
      BY <2>3, <3>2, <3>3
  <2>6. Accounted(t, m, y, pool, present, k + 1)
    BY <2>5 DEF Accounted
  <2>7. Batch([tracked |-> t, mirror |-> m, orphaned |-> y,
               sent |-> s, missed |-> x, removed |-> g], k + 1)
    BY <2>2, <2>6, BatchOf
  <2> QED
    BY <1>0, <2>4, <2>7
<1>5. CASE r \in present /\ ~KeptOut(r) /\ Parent[r] \notin acc.tracked
  <2>1. Closed(acc.tracked) /\ acc.tracked \subseteq Element
    BY DEF Batch
  <2>2. ASSUME NEW e \in acc.tracked PROVE r \notin Chain[e]
    <3>1. Chain[e] \subseteq acc.tracked
      BY <2>1 DEF Closed
    <3>2. r \in acc.tracked => Parent[r] \in acc.tracked
      <4>1. Parent[r] \in Chain[r]
        BY <1>2, Chains DEF Above
      <4> QED
        BY <2>1, <4>1 DEF Closed
    <3> QED
      BY <1>5, <3>1, <3>2
  <2>3. AddOp(acc, r) = acc
    BY <1>5 DEF AddOp
  <2> QED
    BY <1>0, <1>1, <2>2, <2>3, SameComes
<1>6. CASE r \in present /\ ~KeptOut(r) /\ Parent[r] \in acc.tracked
  BY <1>0, <1>1, <1>6, AddedStep DEF AddOp
<1> QED
  BY <1>3, <1>4, <1>5, <1>6

LEMMA RemoveStep ==
  ASSUME Typed, Closed(present), Returned(pool, present),
         NEW k \in Nat, k + 1 <= Len(pool), NEW acc, Batch(acc, k),
         pool[k + 1].type = "rm"
  PROVE  Batch(RemoveOp(acc, pool[k + 1].el), k + 1)
<1>0. PICK r : r = pool[k + 1].el
  OBVIOUS
<1>1. PoolTyped(pool) /\ pool \in Seq(Record) /\ present \subseteq Element /\ r \in Element
  BY <1>0, RecordFacts
<1>2. CASE RemoveOp(acc, r) = acc
  BY <1>0, <1>1, <1>2, SameComes
<1>3. CASE RemoveOp(acc, r) # acc
  <2>1. PICK t, m, w, s, x, g :
           acc = [tracked |-> t, mirror |-> m, orphaned |-> w,
                  sent |-> s, missed |-> x, removed |-> g]
    BY DEF Batch
  <2>2. /\ t \subseteq Element /\ DOMAIN m \subseteq Element /\ g \subseteq Element
        /\ Closed(t) /\ Accounted(t, m, w, pool, present, k) /\ x \subseteq t
        /\ \A c \in s : Agrees(c)
    BY <2>1 DEF Batch
  <2>3. PICK n, y, h : /\ n = Without(m, {r} \cup Below(r))
                       /\ y = x \cup ({r} \ DOMAIN m) /\ h = g \cup {r}
    OBVIOUS
  <2>4. /\ r \in t
        /\ RemoveOp(acc, r) = [tracked |-> t, mirror |-> n, orphaned |-> w,
                               sent |-> s, missed |-> y, removed |-> h]
    BY <1>3, <2>1, <2>3 DEF RemoveOp
  <2>5. /\ DOMAIN n = DOMAIN m \ Within(r)
        /\ \A z \in DOMAIN n : n[z] = m[z]
    BY <1>1, <2>3, WithinFacts DEF Without
  <2>6. ASSUME NEW e \in t \cap present
        PROVE  Shown(n, e) \/ Chain[e] \cap w # {} \/ Comes(pool, e, k + 1)
    <3>1. e \in Element
      BY <1>1
    <3>2. CASE r \in Chain[e]
      <4>1. k + 1 \in 1 .. Len(pool)
        BY <1>1
      <4> QED
        BY <1>0, <3>2, <4>1 DEF Returned
    <3>3. CASE r \notin Chain[e] /\ Shown(m, e)
      <4>1. \A z \in Chain[e] : z \notin Within(r)
        BY <1>1, <3>1, <3>3, WithinFacts DEF Within
      <4>2. e \in Chain[e] /\ Above(e) \subseteq Chain[e]
        BY <3>1, Chains DEF Above
      <4> QED
        BY <2>5, <3>3, <4>1, <4>2 DEF Shown
    <3>4. CASE ~Shown(m, e)
      BY <1>1, <2>2, <3>4, ComesNext DEF Accounted
    <3> QED
      BY <3>2, <3>3, <3>4
  <2>7. Accounted(t, n, w, pool, present, k + 1)
    BY <2>6 DEF Accounted
  <2>8. y \in SUBSET t /\ h \in SUBSET Element /\ DOMAIN n \subseteq Element
    BY <1>1, <2>2, <2>3, <2>4, <2>5
  <2>9. Batch([tracked |-> t, mirror |-> n, orphaned |-> w,
               sent |-> s, missed |-> y, removed |-> h], k + 1)
    BY <2>2, <2>7, <2>8, BatchOf
  <2> QED
    BY <1>0, <2>4, <2>9
<1> QED
  BY <1>2, <1>3

LEMMA WriteStep ==
  ASSUME Typed, NEW k, NEW acc, Batch(acc, k), NEW e \in acc.tracked, NEW form, NEW path,
         \A c \in Sending([x \in {e} |-> form], path, e) : Agrees(c)
  PROVE  Batch(WriteContent(acc, e, form, path), k)
<1>1. CASE Weight(e, form) > Limit
  BY <1>1 DEF WriteContent
<1>2. CASE ~(Weight(e, form) > Limit)
  <2>1. PICK t, m, w, s, x, g :
           acc = [tracked |-> t, mirror |-> m, orphaned |-> w,
                  sent |-> s, missed |-> x, removed |-> g]
    BY DEF Batch
  <2>2. /\ t \subseteq Element /\ DOMAIN m \subseteq Element /\ g \subseteq Element
        /\ Closed(t) /\ Accounted(t, m, w, pool, present, k) /\ x \subseteq t
        /\ \A c \in s : Agrees(c)
    BY <2>1 DEF Batch
  <2>3. CASE e \notin DOMAIN m
    <3>1. PICK y : y = x \cup {e}
      OBVIOUS
    <3>2. WriteContent(acc, e, form, path)
            = [tracked |-> t, mirror |-> m, orphaned |-> w,
               sent |-> s, missed |-> y, removed |-> g]
      BY <1>2, <2>1, <2>3, <3>1 DEF WriteContent
    <3>3. y \in SUBSET t
      BY <2>1, <2>2, <3>1
    <3>4. Batch([tracked |-> t, mirror |-> m, orphaned |-> w,
                 sent |-> s, missed |-> y, removed |-> g], k)
      BY <2>2, <3>3, BatchOf
    <3> QED
      BY <3>2, <3>4
  <2>4. CASE e \in DOMAIN m
    <3>1. PICK h, v : /\ h = IF path # "text" THEN m ELSE Without(m, Below(e))
                      /\ v = IF path # "text" THEN w
                             ELSE w \cup (Below(e) \cap present \cap t)
      OBVIOUS
    <3>2. PICK q : q = Cleared(acc, e, path)
      OBVIOUS
    <3>3. /\ q = [tracked |-> t, mirror |-> h, orphaned |-> v,
                  sent |-> s, missed |-> x, removed |-> g]
          /\ q.mirror = h /\ q.sent = s
      BY <2>1, <3>1, <3>2 DEF Cleared
    <3>4. PICK n, c : /\ n = [q.mirror EXCEPT ![e] = IF @ \in Placeholder THEN @ ELSE form]
                      /\ c = q.sent \cup Sending([z \in {e} |-> form], path, e)
      OBVIOUS
    <3>5. WriteContent(acc, e, form, path)
             = [tracked |-> t, mirror |-> n, orphaned |-> v,
                sent |-> c, missed |-> x, removed |-> g]
      <4>1. acc.mirror = m
        BY <2>1
      <4>2. WriteContent(acc, e, form, path)
              = [q EXCEPT !.mirror[e] = IF @ \in Placeholder THEN @ ELSE form,
                          !.sent = @ \cup Sending([z \in {e} |-> form], path, e)]
        BY <1>2, <2>4, <3>2, <4>1 DEF WriteContent
      <4>3. WriteContent(acc, e, form, path) = [q EXCEPT !.mirror = n, !.sent = c]
        BY <3>4, <4>2
      <4> QED
        BY <3>3, <4>3
    <3>6. /\ DOMAIN n = DOMAIN h /\ DOMAIN h \subseteq DOMAIN m
          /\ \A z \in DOMAIN h : h[z] = m[z]
          /\ \A z \in DOMAIN m : z \in DOMAIN h \/ (path = "text" /\ z \in Below(e))
          /\ \A z \in DOMAIN h : m[z] \in Placeholder => n[z] \in Placeholder
      BY <3>1, <3>3, <3>4 DEF Without
    <3>7. ASSUME NEW f \in t \cap present, Shown(m, f)
          PROVE  Shown(n, f) \/ Chain[f] \cap v # {}
      <4>1. f \in Element /\ e \in Element /\ f \in Chain[f]
        BY <2>1, <2>2, Chains
      <4>2. CASE path = "text" /\ f \in Below(e)
        BY <3>1, <4>1, <4>2
      <4>3. CASE ~(path = "text" /\ f \in Below(e))
        <5>1. \A z \in Above(f) : path = "text" => z \notin Below(e)
          <6>1. \A z \in Below(e) : e \in Above(z)
            BY <4>1, WithinFacts
          <6>2. \A z \in Above(f) : Above(z) \subseteq Above(f)
            BY <4>1, AboveFacts
          <6>3. e \in Above(f) => f \in Below(e)
            BY <4>1, WithinFacts
          <6> QED
            BY <4>3, <6>1, <6>2, <6>3
        <5> QED
          BY <3>6, <3>7, <4>3, <5>1 DEF Shown
      <4> QED
        BY <4>2, <4>3
    <3>8. Accounted(t, n, v, pool, present, k)
      <4>1. w \subseteq v
        BY <3>1
      <4> QED
        BY <2>2, <3>7, <4>1 DEF Accounted
    <3>9. \A b \in c : Agrees(b)
      BY <2>2, <3>3, <3>4
    <3>10. DOMAIN n \subseteq Element
      BY <2>2, <3>6
    <3>11. Batch([tracked |-> t, mirror |-> n, orphaned |-> v,
                 sent |-> c, missed |-> x, removed |-> g], k)
      BY <2>2, <3>8, <3>9, <3>10, BatchOf
    <3> QED
      BY <3>11, <3>5
  <2> QED
    BY <2>3, <2>4
<1> QED
  BY <1>1, <1>2

LEMMA RecordStep ==
  ASSUME Typed, Closed(present), Returned(pool, present),
         NEW k \in Nat, k + 1 <= Len(pool), NEW acc, Batch(acc, k)
  PROVE  Batch(RecordOp(acc, pool[k + 1]), k + 1)
<1>0. PICK c : c = pool[k + 1]
  OBVIOUS
<1>1. /\ PoolTyped(pool) /\ RulesTyped /\ present \subseteq Element
      /\ c.type \in {"add", "rm", "text", "data", "attr"} /\ c.el \in Element
      /\ c.type \in {"text", "data"} => c.el \notin Media
      /\ c.type = "attr" => c.el \in Control /\ rules.control = "password"
  BY <1>0, RecordFacts
<1>2. CASE c.type = "add"
  BY <1>0, <1>2, AddStep DEF RecordOp
<1>3. CASE c.type = "rm"
  BY <1>0, <1>3, RemoveStep DEF RecordOp
<1>4. CASE c.type \in {"text", "data"}
  <2>1. Batch(acc, k + 1)
    BY <1>0, <1>1, <1>4, SameComes
  <2>2. RecordOp(acc, c) = TextOp(acc, c.el) \/ RecordOp(acc, c) = acc
    BY <1>4 DEF RecordOp
  <2>3. CASE Writable(acc, c.el)
    <3>1. c.el \in present \ Media /\ c.el \in acc.tracked /\ ~Skipped(c.el) /\ ~Blocked(c.el)
      BY <1>1, <1>4, <2>3 DEF Writable
    <3>2. \A s \in Sending([x \in {c.el} |-> TextDispatch(c.el)], "text", c.el) : Agrees(s)
      BY <1>1, <3>1, ContentAgrees
    <3>3. Batch(WriteContent(acc, c.el, TextDispatch(c.el), "text"), k + 1)
      BY <2>1, <3>1, <3>2, WriteStep
    <3> QED
      BY <1>0, <2>1, <2>2, <2>3, <3>3 DEF TextOp
  <2> QED
    BY <1>0, <2>1, <2>2, <2>3 DEF TextOp
<1>5. CASE c.type = "attr"
  <2>1. Batch(acc, k + 1)
    BY <1>0, <1>1, <1>5, SameComes
  <2>2. RecordOp(acc, c) = AttrOp(acc, c.el)
    BY <1>5 DEF RecordOp
  <2>3. CASE Writable(acc, c.el)
    <3>1. /\ c.el \in present \ Media /\ c.el \in acc.tracked /\ ~Skipped(c.el) /\ ~Blocked(c.el)
          /\ c.el \in Control /\ rules.control = "password"
      BY <1>1, <1>5, <2>3, WireAssumption DEF Writable
    <3>2. \A s \in Sending([x \in {c.el} |-> AttrDispatch(c.el)], "attr", c.el) : Agrees(s)
      BY <1>1, <3>1, ContentAgrees
    <3>3. Batch(WriteContent(acc, c.el, AttrDispatch(c.el), "attr"), k + 1)
      BY <2>1, <3>1, <3>2, WriteStep
    <3> QED
      BY <1>0, <2>2, <2>3, <3>3 DEF AttrOp
  <2> QED
    BY <1>0, <2>1, <2>2, <2>3 DEF AttrOp
<1> QED
  BY <1>1, <1>2, <1>3, <1>4, <1>5

LEMMA BatchStarts ==
  ASSUME Typed, Closed(tracked), Accounted(tracked, mirror, orphaned, pool, present, 0)
  PROVE  Batch(Start, 0)
<1>1. PICK t, m, w : t = tracked /\ m = mirror /\ w = orphaned
  OBVIOUS
<1>2. /\ t \in SUBSET Element /\ DOMAIN m \subseteq Element /\ Closed(t)
      /\ Accounted(t, m, w, pool, present, 0)
  BY <1>1 DEF Typed
<1>3. {} \in SUBSET t /\ {} \in SUBSET Element /\ \A c \in {} : Agrees(c)
  OBVIOUS
<1>4. Batch([tracked |-> t, mirror |-> m, orphaned |-> w,
             sent |-> {}, missed |-> {}, removed |-> {}], 0)
  BY <1>2, <1>3, BatchOf
<1> QED
  BY <1>1, <1>4 DEF Start

(* The end of the batch: what it removed and is not back is forgotten.     *)
LEMMA BatchEnds ==
  ASSUME Typed, Closed(present), Closed(tracked), Returned(pool, present),
         Accounted(tracked, mirror, orphaned, pool, present, 0)
  PROVE  LET acc == ProcessMutationBatch
         IN  /\ acc.tracked \subseteq Element /\ DOMAIN acc.mirror \subseteq Element
             /\ Closed(acc.tracked)
             /\ \A e \in acc.tracked \cap present :
                  Shown(acc.mirror, e) \/ Chain[e] \cap acc.orphaned \cap acc.tracked # {}
             /\ acc.missed \cap present \subseteq acc.tracked
             /\ \A s \in acc.sent : Agrees(s)
<1> DEFINE n == Len(pool)
<1>1. n \in Nat /\ present \subseteq Element
  BY DEF Typed, PoolTyped
<1>2. PICK f : Steps(f, "batch", Start, n)
  BY <1>1, StepsExist
<1>3. \A x, i : Step("batch", x, i) = RecordOp(x, pool[i])
  BY DEF Step
<1>4. f = [i \in 0 .. n |-> IF i = 0 THEN Start ELSE RecordOp(f[i - 1], pool[i])]
  <2>1. [i \in 0 .. n |-> IF i = 0 THEN Start ELSE Step("batch", f[i - 1], i)]
        = [i \in 0 .. n |-> IF i = 0 THEN Start ELSE RecordOp(f[i - 1], pool[i])]
    BY <1>3
  <2> QED
    BY <1>2, <2>1 DEF Steps
<1>5. \E g : /\ g = [i \in 0 .. n |-> IF i = 0 THEN Start ELSE RecordOp(g[i - 1], pool[i])]
             /\ ProcessMutationBatch =
                  LET acc  == g[n]
                      gone == acc.removed \ present
                  IN  [acc EXCEPT !.tracked = @ \ UNION {{r} \cup Below(r) : r \in gone}]
  BY <1>4, Zenon DEF ProcessMutationBatch
<1>6. PICK g : /\ g = [i \in 0 .. n |-> IF i = 0 THEN Start ELSE RecordOp(g[i - 1], pool[i])]
               /\ ProcessMutationBatch =
                    LET acc  == g[n]
                        gone == acc.removed \ present
                    IN  [acc EXCEPT !.tracked = @ \ UNION {{r} \cup Below(r) : r \in gone}]
  BY <1>5
<1> DEFINE T == {i \in Nat : i <= n => Batch(g[i], i)}
<1>7. g[0] = Start /\ \A i \in 1 .. n : g[i] = RecordOp(g[i - 1], pool[i])
  BY <1>1, <1>6
<1>8. 0 \in T
  BY <1>7, BatchStarts
<1>9. ASSUME NEW i \in T PROVE i + 1 \in T
  <2>1. SUFFICES ASSUME i + 1 <= n PROVE Batch(g[i + 1], i + 1)
    OBVIOUS
  <2>2. i \in Nat /\ Batch(g[i], i) /\ g[i + 1] = RecordOp(g[i], pool[i + 1])
    BY <1>1, <1>7, <1>9, <2>1
  <2> QED
    BY <2>1, <2>2, RecordStep
<1>10. T = Nat
  <2>1. T \in SUBSET Nat
    OBVIOUS
  <2> HIDE DEF T
  <2> QED
    BY <1>8, <1>9, <2>1, Induction
<1>11. PICK acc : acc = g[n] /\ Batch(acc, n)
  BY <1>1, <1>10
<1>12. PICK gone : gone = acc.removed \ present
  OBVIOUS
<1>13. PICK t, m, w, s, x, h :
         acc = [tracked |-> t, mirror |-> m, orphaned |-> w,
                sent |-> s, missed |-> x, removed |-> h]
  BY <1>11 DEF Batch
<1>14. /\ t \subseteq Element /\ DOMAIN m \subseteq Element /\ h \subseteq Element
       /\ Closed(t) /\ Accounted(t, m, w, pool, present, n) /\ x \subseteq t
       /\ \A c \in s : Agrees(c)
  BY <1>11, <1>13 DEF Batch
<1>15. PICK u : u = t \ UNION {{r} \cup Below(r) : r \in gone}
  OBVIOUS
<1>16. ProcessMutationBatch = [tracked |-> u, mirror |-> m, orphaned |-> w,
                               sent |-> s, missed |-> x, removed |-> h]
  <2>1. ProcessMutationBatch = [acc EXCEPT !.tracked = @ \ UNION {{r} \cup Below(r) : r \in gone}]
    BY <1>6, <1>11, <1>12
  <2>2. PICK lost : lost = UNION {{r} \cup Below(r) : r \in gone}
    OBVIOUS
  <2>3. ProcessMutationBatch = [acc EXCEPT !.tracked = @ \ lost]
    BY <2>1, <2>2
  <2> QED
    BY <1>13, <1>15, <2>2, <2>3
<1>17. gone \subseteq Element /\ gone \cap present = {}
  BY <1>12, <1>13, <1>14
<1>18. \A e : e \in u <=> e \in t /\ \A r \in gone : e \notin Within(r)
  <2>1. \A r \in gone : {r} \cup Below(r) = Within(r)
    BY <1>17, WithinFacts
  <2> QED
    BY <1>15, <2>1
<1>19. \A e \in t \cap present : e \in u
  BY <1>17, <1>18 DEF Closed, Within
<1>20. ASSUME NEW e \in u, NEW y \in Chain[e] PROVE y \in u
  <2>1. e \in Element /\ y \in t /\ e \in t
    BY <1>14, <1>18 DEF Closed
  <2>2. \A r \in gone : y \notin Within(r)
    BY <1>17, <1>18, <2>1, WithinFacts
  <2> QED
    BY <1>18, <2>1, <2>2
<1>21. \A e : ~Comes(pool, e, n)
  BY <1>1 DEF Comes
<1>22. \A e \in u \cap present : Shown(m, e) \/ Chain[e] \cap w \cap u # {}
  <2>1. \A e \in u : e \in t
    BY <1>18
  <2> QED
    BY <1>14, <1>20, <1>21, <2>1 DEF Accounted
<1>23. u \subseteq Element /\ Closed(u) /\ x \cap present \subseteq u
  BY <1>14, <1>18, <1>19, <1>20 DEF Closed
<1> QED
  BY <1>14, <1>16, <1>22, <1>23

-----------------------------------------------------------------------------
(* What a snapshot leaves.                                                 *)

LEMMA SnapshotTracks ==
  ASSUME present \subseteq Element, Closed(present)
  PROVE  /\ NamedBySnapshot \cup TrackedMedia = NamedBySnapshot
         /\ NamedBySnapshot \subseteq Element /\ Closed(NamedBySnapshot)
<1>1. ASSUME NEW e \in TrackedMedia PROVE e \in NamedBySnapshot
  <2>1. e \in present /\ ~Skipped(e) /\ ~Blocked(e) /\ ~MediaMasked(e)
    BY DEF TrackedMedia
  <2>2. Above(e) \subseteq Chain[e]
    BY DEF Above
  <2> QED
    BY <2>1, <2>2 DEF NamedBySnapshot, Blocked, MediaMasked, Marked
<1>2. ASSUME NEW e \in NamedBySnapshot, NEW x \in Chain[e] PROVE x \in NamedBySnapshot
  <2>1. e \in Element /\ e \in present /\ x \in present /\ x \in Element
    BY DEF NamedBySnapshot, Closed
  <2>2. Chain[x] \subseteq Chain[e]
    BY <2>1, Chains
  <2>3. Above(x) \subseteq Above(e)
    <3>1. CASE x = e
      BY <3>1
    <3>2. CASE x # e
      <4>1. x \in Above(e)
        BY <1>2, <3>2 DEF Above
      <4> QED
        BY <2>1, <4>1, AboveFacts
    <3> QED
      BY <3>1, <3>2
  <2> QED
    BY <2>1, <2>2, <2>3 DEF NamedBySnapshot, Skipped, Marked
<1> QED
  BY <1>1, <1>2, UncutElements DEF Closed

LEMMA SnapshotSettles ==
  ASSUME present \subseteq Element, Closed(present)
  PROVE  LET T == NamedBySnapshot \cup TrackedMedia
             p == SnapshotPayload
         IN  /\ T \subseteq Element /\ Closed(T) /\ DOMAIN p.copy \subseteq Element
             /\ Accounted(T, p.copy, {}, <<>>, present, 0)
             /\ p.media \subseteq DOMAIN p.copy
             /\ \A s \in Sending(p.copy, "snapshot", Top) : Agrees(s)
<1>1. PICK c, m : /\ SnapshotPayload = [copy |-> c, media |-> m]
                  /\ IsCut(c) /\ m \subseteq DOMAIN c
  BY PayloadFacts
<1>2. PICK T : T = NamedBySnapshot \cup TrackedMedia
  OBVIOUS
<1>3. T = NamedBySnapshot /\ T \subseteq Element /\ Closed(T)
  BY <1>2, SnapshotTracks
<1>4. Accounted(T, c, {}, <<>>, present, 0)
  BY <1>1, <1>3 DEF Accounted, IsCut
<1>5. DOMAIN c \subseteq Element
  BY <1>1, UncutElements DEF IsCut
<1>6. \A s \in Sending(c, "snapshot", Top) : Agrees(s)
  BY <1>1, SnapshotAgrees
<1> QED
  BY <1>1, <1>2, <1>3, <1>4, <1>5, <1>6

-----------------------------------------------------------------------------
(* The invariant holds at the start and is kept by every step.             *)

LEMMA InitInv == Init => Inv
<1> SUFFICES ASSUME Init PROVE Inv
  OBVIOUS
<1>1. RulesTyped /\ present = Element /\ pool = <<>> /\ missed = {} /\ orphaned = {}
  BY DEF Init, RulesTyped
<1>2. Closed(present)
  BY <1>1, Chains DEF Closed
<1>3. PICK p : p = SnapshotPayload
  OBVIOUS
<1>4. /\ tracked = NamedBySnapshot \cup TrackedMedia /\ mirror = p.copy /\ baseline = p.media
      /\ sent = Sending(p.copy, "snapshot", Top)
  BY <1>3 DEF Init
<1>5. /\ tracked \subseteq Element /\ Closed(tracked) /\ DOMAIN mirror \subseteq Element
      /\ Accounted(tracked, mirror, {}, <<>>, present, 0)
      /\ baseline \subseteq DOMAIN mirror
      /\ \A s \in sent : Agrees(s)
  BY <1>1, <1>2, <1>3, <1>4, SnapshotSettles
<1>6. PoolTyped(pool) /\ Returned(pool, present)
  BY <1>1 DEF PoolTyped, Returned
<1> QED
  BY <1>1, <1>2, <1>5, <1>6 DEF Inv, Typed, PathsAgree, KnownTargets

(* As long as the page and the marks stay, so does what a snapshot shows.  *)
LEMMA SamePage ==
  ASSUME UNCHANGED <<rules, mark, present, long>>
  PROVE  /\ Uncut' = Uncut
         /\ \A s : Agrees(s)' <=> Agrees(s)
<1>1. Uncut' = Uncut
  BY DEF Uncut, NamedBySnapshot, Skipped, Marked, SnapshotForm, Unshareable,
         ElementDispatch, ValueMask, TextMask, ShouldMaskInput, MaskTextMatches
<1>2. ASSUME NEW s
      PROVE  /\ InMaskedMedia(s)' <=> InMaskedMedia(s)
             /\ InUnavailable(s)' <=> InUnavailable(s)
             /\ SkippedInside(s)' <=> SkippedInside(s)
             /\ TextareaContent(s)' <=> TextareaContent(s)
             /\ Shifted(s)' <=> Shifted(s)
  BY DEF InMaskedMedia, InUnavailable, SkippedInside, TextareaContent, Shifted,
         Marked, Unshareable, MaskTextMatches, ClonedBelow, LiveBelow
<1> QED
  BY <1>1, <1>2 DEF Agrees

(* A step of the capture that applies ops.                                 *)
LEMMA CaptureStep ==
  ASSUME Inv, UNCHANGED <<rules, mark, present, long>>, baseline' = {},
         PoolTyped(pool'), Returned(pool', present),
         tracked' \subseteq Element, DOMAIN mirror' \subseteq Element, Closed(tracked'),
         Accounted(tracked', mirror', orphaned', pool', present, 0),
         missed' \cap present \subseteq tracked', \A s \in sent' : Agrees(s)
  PROVE  Inv'
<1>1. Typed'
  BY DEF Inv, Typed, RulesTyped, PoolTyped
<1>2. Closed(present)' /\ Closed(tracked)' /\ Returned(pool, present)'
      /\ Accounted(tracked, mirror, orphaned, pool, present, 0)'
  BY DEF Inv
<1>3. PathsAgree'
  BY SamePage DEF PathsAgree
<1>4. KnownTargets'
  <2>1. Uncut' = Uncut /\ DOMAIN Uncut \subseteq present
    BY SamePage, UncutElements DEF Inv, Typed
  <2>2. ASSUME NEW e \in (missed' \cap DOMAIN Uncut') \ DOMAIN mirror'
        PROVE  \/ \E x \in Above(e) \cap DOMAIN mirror' : mirror'[x] \in Placeholder
               \/ Chain[e] \cap orphaned' # {}
               \/ AddWaits(e)'
    <3>1. e \in tracked' \cap present
      BY <2>1, <2>2
    <3>2. Shown(mirror', e) \/ Chain[e] \cap orphaned' # {} \/ Comes(pool', e, 0)
      BY <3>1 DEF Accounted
    <3>3. Comes(pool', e, 0) => AddWaits(e)'
      <4>1. DOMAIN pool' = 0 + 1 .. Len(pool')
        BY DEF PoolTyped
      <4> QED
        BY <4>1 DEF Comes, AddWaits
    <3> QED
      BY <2>2, <3>2, <3>3 DEF Shown
  <2> QED
    BY <2>2 DEF KnownTargets
<1> QED
  BY <1>1, <1>2, <1>3, <1>4 DEF Inv

(* A step of the page that leaves a record.                                *)
LEMMA PageStep ==
  ASSUME Inv, Silent, UNCHANGED <<rules, tracked, mirror, orphaned>>,
         NEW c \in Record, pool' = Append(pool, c),
         c.type \in {"add", "rm"} => c.el # Top,
         c.type \in {"text", "data"} => c.el \notin Media,
         c.type = "attr" => c.el \in Control /\ rules.control = "password",
         present' \subseteq Element, Closed(present'),
         \A e \in present' : e \in present \/ (c.type = "add" /\ c.el \in Chain[e]),
         c.type = "rm" => \A e \in present' : c.el \notin Chain[e]
  PROVE  Inv'
<1>1. /\ pool \in Seq(Record) /\ Len(pool) \in Nat /\ Len(pool') = Len(pool) + 1
      /\ \A i \in 1 .. Len(pool) : pool'[i] = pool[i]
      /\ pool'[Len(pool) + 1] = c /\ pool' \in Seq(Record)
  BY DEF Inv, Typed, PoolTyped
<1>2. PoolTyped(pool)'
  BY <1>1 DEF Inv, Typed, PoolTyped
<1>3. Typed'
  BY <1>2 DEF Inv, Typed, RulesTyped
<1>4. ASSUME NEW k \in 1 .. Len(pool'), pool'[k].type = "rm",
             NEW e \in present', pool'[k].el \in Chain[e]
      PROVE  Comes(pool', e, k)
  <2>1. CASE k = Len(pool) + 1
    BY <1>1, <1>4, <2>1
  <2>2. CASE k # Len(pool) + 1
    <3>1. k \in 1 .. Len(pool) /\ k \in 0 .. Len(pool) /\ pool'[k] = pool[k]
      BY <1>1, <2>2
    <3>2. CASE e \in present
      <4>1. Comes(pool, e, k)
        BY <1>4, <3>1, <3>2 DEF Inv, Returned
      <4> QED
        BY <1>1, <3>1, <4>1, ComesLater
    <3>3. CASE e \notin present
      BY <1>1, <3>1, <3>3, ComesLater
    <3> QED
      BY <3>2, <3>3
  <2> QED
    BY <2>1, <2>2
<1>5. ASSUME NEW e \in tracked \cap present'
      PROVE  Shown(mirror, e) \/ Chain[e] \cap orphaned # {} \/ Comes(pool', e, 0)
  <2>1. 0 \in 0 .. Len(pool)
    BY <1>1
  <2>2. CASE e \in present
    <3>1. Shown(mirror, e) \/ Chain[e] \cap orphaned # {} \/ Comes(pool, e, 0)
      BY <1>5, <2>2 DEF Inv, Accounted
    <3> QED
      BY <1>1, <2>1, <3>1, ComesLater
  <2>3. CASE e \notin present
    BY <1>1, <1>5, <2>1, <2>3, ComesLater
  <2> QED
    BY <2>2, <2>3
<1>6. Closed(present)' /\ Closed(tracked)'
  BY DEF Inv
<1>7. Returned(pool, present)'
  BY <1>4 DEF Returned
<1>8. Accounted(tracked, mirror, orphaned, pool, present, 0)'
  BY <1>5 DEF Accounted
<1>9. PathsAgree' /\ KnownTargets'
  BY DEF Silent, PathsAgree, KnownTargets
<1> QED
  BY <1>3, <1>6, <1>7, <1>8, <1>9 DEF Inv

LEMMA RequestStep ==
  ASSUME Inv, NEW r \in Element, SubtreeRequest(r)
  PROVE  Inv'
<1>1. /\ UNCHANGED <<rules, mark, present, long>> /\ pool' = pool /\ baseline' = {}
      /\ missed' = {} /\ r \in DOMAIN mirror /\ mirror[r] = Truncated
  BY DEF SubtreeRequest
<1>2. PICK t, m, w : t = tracked /\ m = mirror /\ w = orphaned
  OBVIOUS
<1>3. /\ present \subseteq Element /\ t \subseteq Element /\ DOMAIN m \subseteq Element
      /\ Closed(present) /\ Closed(t) /\ Accounted(t, m, w, pool, present, 0)
      /\ PoolTyped(pool) /\ Returned(pool, present)
  BY <1>2 DEF Inv, Typed
<1>4. CASE r \in tracked /\ r \in present /\ ~Skipped(r) /\ ~Blocked(r)
  <2> DEFINE copy == ProcessAddedNode(r)
             M == Over(copy, Without(m, Below(r)))
  <2>1. PICK N : N = NamedByAdd(r)
    OBVIOUS
  <2>2. Above(r) \subseteq t
    BY <1>2, <1>3, <1>4 DEF Closed, Above
  <2>3. N \subseteq Within(r) \cap present /\ Closed(t \cup N)
    BY <1>3, <1>4, <2>1, <2>2, NamedBelow
  <2>4. \A e \in Within(r) : e \in Element /\ (e = r \/ r \in Above(e))
    BY DEF Within, Above
  <2>5. CASE Size(copy) > Limit
    <3>1. tracked' = t \cup N /\ sent' = {} /\ mirror' = m /\ orphaned' = w
      BY <1>2, <1>4, <2>1, <2>5 DEF SubtreeRequest
    <3>2. \A e \in Within(r) : Shown(m, e)
      BY <1>1, <1>2, <2>4 DEF Shown, Placeholder
    <3>3. Accounted(t \cup N, m, w, pool, present, 0)
      BY <1>3, <2>3, <3>2 DEF Accounted
    <3>4. t \cup N \subseteq Element
      BY <1>3, <2>3
    <3> QED
      BY <1>1, <1>3, <2>3, <3>1, <3>3, <3>4, CaptureStep
  <2>6. CASE ~(Size(copy) > Limit)
    <3>1. /\ tracked' = t \cup N /\ sent' = Sending(copy, "subtree", r) /\ mirror' = M
          /\ orphaned' = w \ ({r} \cup Below(r))
      BY <1>2, <1>4, <2>1, <2>6 DEF SubtreeRequest
    <3>2. /\ r \in DOMAIN copy /\ DOMAIN copy \subseteq Within(r)
          /\ \A e \in present \cap Within(r) : Shown(copy, e)
      BY <1>3, <1>4, NodeShows
    <3>3. /\ DOMAIN M \subseteq Element
          /\ \A e \in Element : Shown(copy, e) => Shown(M, e)
          /\ \A e \in Element \ Within(r) : Shown(m, e) => Shown(M, e)
      BY <1>3, <3>2, Replaced
    <3>4. ~Marked(Above(r), {"block"})
      BY <1>4 DEF Blocked, Marked, Above
    <3>5. \A c \in sent' : Agrees(c)
      BY <1>3, <1>4, <3>1, <3>4, NodeAgrees
    <3> HIDE DEF copy, M
    <3>6. {r} \cup Below(r) = Within(r)
          /\ \A e \in Element, y \in Within(r) : y \in Chain[e] => e \in Within(r)
      BY WithinFacts
    <3>7. ASSUME NEW e \in (t \cup N) \cap present
          PROVE  Shown(M, e) \/ Chain[e] \cap orphaned' # {} \/ Comes(pool, e, 0)
      <4>1. CASE e \in Within(r)
        BY <1>3, <3>2, <3>3, <4>1
      <4>2. CASE e \notin Within(r)
        <5>1. Shown(m, e) \/ Chain[e] \cap w # {} \/ Comes(pool, e, 0)
          BY <1>3, <2>3, <4>2 DEF Accounted
        <5>2. Chain[e] \cap w # {} => Chain[e] \cap orphaned' # {}
          BY <1>3, <3>1, <3>6, <4>2
        <5> QED
          BY <1>3, <3>3, <4>2, <5>1, <5>2
      <4> QED
        BY <4>1, <4>2
    <3>8. Accounted(tracked', mirror', orphaned', pool, present, 0)
      BY <3>1, <3>7 DEF Accounted
    <3>9. tracked' \subseteq Element /\ Closed(tracked') /\ DOMAIN mirror' \subseteq Element
      BY <1>3, <2>3, <2>4, <3>1, <3>3
    <3> QED
      BY <1>1, <1>3, <3>5, <3>8, <3>9, CaptureStep
  <2> QED
    BY <2>5, <2>6
<1>5. CASE ~(r \in tracked /\ r \in present /\ ~Skipped(r) /\ ~Blocked(r))
  <2>1. sent' = {} /\ tracked' = t /\ mirror' = m /\ orphaned' = w
    BY <1>2, <1>5 DEF SubtreeRequest
  <2> QED
    BY <1>1, <1>3, <2>1, CaptureStep
<1> QED
  BY <1>4, <1>5

LEMMA FlushStep == ASSUME Inv, Flush PROVE Inv'
<1>1. PICK acc : acc = ProcessMutationBatch
  OBVIOUS
<1>2. /\ UNCHANGED <<rules, mark, present, long>> /\ pool' = <<>> /\ baseline' = {}
      /\ tracked' = acc.tracked /\ mirror' = acc.mirror /\ sent' = acc.sent
      /\ missed' = acc.missed /\ orphaned' = acc.orphaned \cap acc.tracked
  BY <1>1 DEF Flush, After
<1>3. /\ acc.tracked \subseteq Element /\ DOMAIN acc.mirror \subseteq Element
      /\ Closed(acc.tracked)
      /\ \A e \in acc.tracked \cap present :
           Shown(acc.mirror, e) \/ Chain[e] \cap acc.orphaned \cap acc.tracked # {}
      /\ acc.missed \cap present \subseteq acc.tracked
      /\ \A s \in acc.sent : Agrees(s)
  BY <1>1, BatchEnds DEF Inv
<1>4. PoolTyped(pool') /\ Returned(pool', present)
  BY <1>2 DEF PoolTyped, Returned
<1>5. Accounted(tracked', mirror', orphaned', pool', present, 0)
  <2>1. \A e \in acc.tracked \cap present :
          Shown(acc.mirror, e) \/ Chain[e] \cap (acc.orphaned \cap acc.tracked) # {}
    BY <1>3
  <2> QED
    BY <1>2, <2>1 DEF Accounted
<1> QED
  BY <1>2, <1>3, <1>4, <1>5, CaptureStep

LEMMA ValueStep == ASSUME Inv, NEW e \in Control, TypeValue(e) PROVE Inv'
<1>1. PICK acc : acc = IF Writable(Start, e)
                       THEN WriteContent(Start, e, InputDispatch(e), "value")
                       ELSE Start
  OBVIOUS
<1>2. /\ UNCHANGED <<rules, mark, present, long>> /\ pool' = pool /\ baseline' = {}
      /\ tracked' = acc.tracked /\ mirror' = acc.mirror /\ sent' = acc.sent
      /\ missed' = acc.missed /\ orphaned' = acc.orphaned \cap acc.tracked
  BY <1>1 DEF TypeValue, After
<1>3. Batch(Start, 0)
  BY BatchStarts DEF Inv
<1>4. Batch(acc, 0)
  <2>1. CASE Writable(Start, e)
    <3>1. /\ e \in present \ Media /\ e \in Start.tracked /\ ~Skipped(e) /\ ~Blocked(e)
          /\ RulesTyped /\ present \subseteq Element
      BY <2>1, WireAssumption DEF Writable, Inv, Typed
    <3>2. \A s \in Sending([x \in {e} |-> InputDispatch(e)], "value", e) : Agrees(s)
      BY <3>1, ContentAgrees
    <3> QED
      BY <1>1, <1>3, <2>1, <3>1, <3>2, WriteStep DEF Inv
  <2>2. CASE ~Writable(Start, e)
    BY <1>1, <1>3, <2>2
  <2> QED
    BY <2>1, <2>2
<1>5. /\ acc.tracked \subseteq Element /\ DOMAIN acc.mirror \subseteq Element
      /\ Closed(acc.tracked)
      /\ Accounted(acc.tracked, acc.mirror, acc.orphaned, pool, present, 0)
      /\ acc.missed \subseteq acc.tracked
      /\ \A s \in acc.sent : Agrees(s)
  BY <1>4 DEF Batch
<1>6. Accounted(tracked', mirror', orphaned', pool', present, 0)
  <2>1. \A f \in acc.tracked : Chain[f] \cap acc.orphaned \subseteq acc.tracked
    BY <1>5 DEF Closed
  <2> QED
    BY <1>2, <1>5, <2>1 DEF Accounted
<1>7. PoolTyped(pool') /\ Returned(pool', present)
  BY <1>2 DEF Inv, Typed
<1> QED
  BY <1>2, <1>5, <1>6, <1>7, CaptureStep

LEMMA SnapshotStep == ASSUME Inv, Snapshot PROVE Inv'
<1>1. PICK p : p = SnapshotPayload
  OBVIOUS
<1>2. /\ UNCHANGED <<rules, mark, present, long>> /\ pool' = <<>> /\ baseline' = p.media
      /\ tracked' = NamedBySnapshot \cup TrackedMedia /\ mirror' = p.copy
      /\ sent' = Sending(p.copy, "snapshot", Top) /\ missed' = {} /\ orphaned' = {}
  BY <1>1 DEF Snapshot
<1>3. /\ tracked' \subseteq Element /\ Closed(tracked') /\ DOMAIN mirror' \subseteq Element
      /\ Accounted(tracked', mirror', {}, <<>>, present, 0)
      /\ baseline' \subseteq DOMAIN mirror'
      /\ \A s \in sent' : Agrees(s)
  BY <1>1, <1>2, SnapshotSettles DEF Inv, Typed
<1>4. Typed'
  BY <1>2, <1>3 DEF Inv, Typed, RulesTyped, PoolTyped
<1>5. Closed(present)' /\ Closed(tracked)' /\ Returned(pool, present)'
  BY <1>2, <1>3 DEF Inv, Returned
<1>6. Accounted(tracked, mirror, orphaned, pool, present, 0)'
  BY <1>2, <1>3
<1>7. PathsAgree'
  BY <1>2, <1>3, SamePage DEF PathsAgree
<1>8. KnownTargets'
  BY <1>2, <1>3 DEF KnownTargets
<1> QED
  BY <1>4, <1>5, <1>6, <1>7, <1>8 DEF Inv

LEMMA AddElementStep ==
  ASSUME Inv, NEW e \in Element \ {Top}, AddElement(e)
  PROVE  Inv'
<1>1. PICK c : c = [type |-> "add", el |-> e]
  OBVIOUS
<1>2. /\ Silent /\ UNCHANGED <<rules, tracked, mirror, orphaned>> /\ pool' = Append(pool, c)
      /\ present' = present \cup {e} \cup Below(e) /\ Parent[e] \in present
  BY <1>1 DEF AddElement, Recorded
<1>3. /\ c \in Record /\ c.type = "add" /\ c.el = e
  BY <1>1 DEF Record
<1>4. {e} \cup Below(e) = Within(e) /\ Within(e) \subseteq Element
  BY WithinFacts DEF Within
<1>5. present \subseteq Element /\ Closed(present) /\ Above(e) = Chain[Parent[e]]
  BY Chains DEF Inv, Typed
<1>6. present' = present \cup Within(e) /\ present' \subseteq Element
  BY <1>2, <1>4, <1>5
<1>7. ASSUME NEW f \in Within(e), NEW x \in Chain[f] PROVE x \in present'
  <2>1. f \in Element /\ e \in Chain[f]
    BY DEF Within
  <2>2. x \in Element /\ (x \in Chain[e] \/ e \in Chain[x])
    BY <1>7, <2>1, Chains
  <2>3. x \in Chain[e] => x = e \/ x \in Above(e)
    BY DEF Above
  <2>4. Above(e) \subseteq present
    BY <1>2, <1>5 DEF Closed
  <2>5. e \in Within(e)
    BY WithinFacts
  <2>6. e \in Chain[x] => x \in Within(e)
    BY <2>2 DEF Within
  <2> QED
    BY <1>6, <2>2, <2>3, <2>4, <2>5, <2>6
<1>8. Closed(present')
  BY <1>5, <1>6, <1>7 DEF Closed
<1>9. \A f \in present' : f \in present \/ (c.type = "add" /\ c.el \in Chain[f])
  BY <1>3, <1>6 DEF Within
<1> QED
  BY <1>2, <1>3, <1>6, <1>8, <1>9, PageStep

LEMMA RemoveElementStep ==
  ASSUME Inv, NEW e \in Element \ {Top}, RemoveElement(e)
  PROVE  Inv'
<1>1. PICK c : c = [type |-> "rm", el |-> e]
  OBVIOUS
<1>2. /\ Silent /\ UNCHANGED <<rules, tracked, mirror, orphaned>> /\ pool' = Append(pool, c)
      /\ present' = present \ ({e} \cup Below(e))
  BY <1>1 DEF RemoveElement, Recorded
<1>3. c \in Record /\ c.type = "rm" /\ c.el = e
  BY <1>1 DEF Record
<1>4. /\ {e} \cup Below(e) = Within(e)
      /\ \A f \in Element, x \in Within(e) : x \in Chain[f] => f \in Within(e)
  BY WithinFacts
<1>5. present \subseteq Element /\ Closed(present)
  BY DEF Inv, Typed
<1>6. present' = present \ Within(e) /\ present' \subseteq Element
  BY <1>2, <1>4, <1>5
<1>7. Closed(present')
  BY <1>4, <1>5, <1>6 DEF Closed
<1>8. \A f \in present' : f \in present /\ e \notin Chain[f]
  BY <1>5, <1>6 DEF Within
<1> QED
  BY <1>2, <1>3, <1>6, <1>7, <1>8, PageStep

LEMMA WriteTextStep ==
  ASSUME Inv, NEW e \in Element, WriteText(e) \/ ChangeData(e)
  PROVE  Inv'
<1>1. PICK c : /\ c = [type |-> c.type, el |-> e] /\ c.type \in {"text", "data"}
               /\ pool' = Append(pool, c)
  <2>1. CASE WriteText(e)
    <3>1. pool' = Append(pool, [type |-> "text", el |-> e])
      BY <2>1 DEF WriteText, Recorded
    <3> QED
      BY <3>1
  <2>2. CASE ChangeData(e)
    <3>1. pool' = Append(pool, [type |-> "data", el |-> e])
      BY <2>2 DEF ChangeData, Recorded
    <3> QED
      BY <3>1
  <2> QED
    BY <2>1, <2>2
<1>2. /\ Silent /\ UNCHANGED <<rules, tracked, mirror, orphaned>>
      /\ present' = present /\ e \notin Media
  BY DEF WriteText, ChangeData, WithText
<1>3. c \in Record /\ c.type \in {"text", "data"} /\ c.el = e
  BY <1>1 DEF Record
<1>4. present' \subseteq Element /\ Closed(present')
  BY <1>2 DEF Inv, Typed
<1> QED
  BY <1>1, <1>2, <1>3, <1>4, PageStep

LEMMA WriteAttributeStep ==
  ASSUME Inv, NEW e \in Control, WriteValueAttribute(e)
  PROVE  Inv'
<1>1. PICK c : c = [type |-> "attr", el |-> e]
  OBVIOUS
<1>2. /\ Silent /\ UNCHANGED <<rules, tracked, mirror, orphaned>> /\ pool' = Append(pool, c)
      /\ present' = present /\ rules.control = "password" /\ e \in Element
  BY <1>1, WireAssumption DEF WriteValueAttribute, Recorded
<1>3. c \in Record /\ c.type = "attr" /\ c.el = e
  BY <1>1, <1>2 DEF Record
<1>4. present' \subseteq Element /\ Closed(present')
  BY <1>2 DEF Inv, Typed
<1> QED
  BY <1>2, <1>3, <1>4, PageStep

LEMMA MarkStep ==
  ASSUME Inv, NEW e \in Element, NEW m \in Mark, ChangeMark(e, m)
  PROVE  Inv'
<1>1. /\ Silent /\ UNCHANGED <<rules, present, pool, tracked, mirror, orphaned>>
  BY DEF ChangeMark
<1>2. PathsAgree' /\ KnownTargets'
  BY <1>1 DEF Silent, PathsAgree, KnownTargets
<1>3. Typed'
  BY <1>1 DEF Inv, Typed, RulesTyped, PoolTyped
<1> QED
  BY <1>1, <1>2, <1>3 DEF Inv

LEMMA Stutter ==
  ASSUME Inv, UNCHANGED vars
  PROVE  Inv'
<1>1. /\ UNCHANGED <<rules, mark, present, long>> /\ pool' = pool /\ tracked' = tracked
      /\ mirror' = mirror /\ sent' = sent /\ missed' = missed /\ baseline' = baseline
      /\ orphaned' = orphaned
  BY DEF vars
<1>2. PathsAgree'
  BY <1>1, SamePage DEF Inv, PathsAgree
<1>3. KnownTargets'
  BY <1>1, SamePage DEF Inv, KnownTargets, AddWaits
<1>4. Typed'
  BY <1>1 DEF Inv, Typed, RulesTyped, PoolTyped
<1> QED
  BY <1>1, <1>2, <1>3, <1>4 DEF Inv

LEMMA NextInv == Inv /\ [Next]_vars => Inv'
<1> SUFFICES ASSUME Inv, [Next]_vars PROVE Inv'
  OBVIOUS
<1>1. CASE \E e \in Element \ {Top} : AddElement(e)
  BY <1>1, AddElementStep
<1>2. CASE \E e \in Element \ {Top} : RemoveElement(e)
  BY <1>2, RemoveElementStep
<1>3. CASE \E e \in Element : WriteText(e) \/ ChangeData(e)
  BY <1>3, WriteTextStep
<1>4. CASE \E e \in Element, m \in Mark : ChangeMark(e, m)
  BY <1>4, MarkStep
<1>5. CASE \E e \in Control : TypeValue(e)
  BY <1>5, ValueStep
<1>6. CASE \E e \in Control : WriteValueAttribute(e)
  BY <1>6, WriteAttributeStep
<1>7. CASE Flush
  BY <1>7, FlushStep
<1>8. CASE Snapshot
  BY <1>8, SnapshotStep
<1>9. CASE \E e \in Element : SubtreeRequest(e)
  BY <1>9, RequestStep
<1>10. CASE UNCHANGED vars
  BY <1>10, Stutter
<1> QED
  BY <1>1, <1>2, <1>3, <1>4, <1>5, <1>6, <1>7, <1>8, <1>9, <1>10 DEF Next

(* The invariant holds for every tree, rule, budget and number of edits.   *)
LEMMA InvAlways == Spec => []Inv
  BY InitInv, NextInv, PTL DEF Spec

(* However the page and the marks have changed since an element was last   *)
(* sent, each of the six paths of serializeDOM, processAddedNode, the      *)
(* text, attribute and value ops and serializeRequestedSubtree sends it in *)
(* the form a snapshot taken now would give it, or in one of the named     *)
(* cases.                                                                  *)
THEOREM PathsAlwaysAgree == Spec => []PathsAgree
<1>1. Inv => PathsAgree
  BY DEF Inv
<1> QED
  BY <1>1, InvAlways, PTL

(* No path tracks an element that ought to be shown and leaves it out of   *)
(* the mirror with no placeholder above it, but for what came back while a *)
(* rule kept it out, what a text was written over, and what a later record *)
(* of the same batch adds; and whatever the two budgets cut, a playback    *)
(* state of a snapshot names an element that kept its nid in it.           *)
THEOREM TargetsAlwaysKnown == Spec => []KnownTargets
<1>1. Inv => KnownTargets
  BY DEF Inv
<1> QED
  BY <1>1, InvAlways, PTL
=============================================================================
