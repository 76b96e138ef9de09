----------------------------- MODULE PageScript -----------------------------
(***************************************************************************)
(* The page behind a mirror, as its markup: the elements in document       *)
(* order, the urls their attributes make a browser fetch, and the edits    *)
(* the page makes in turn.  An edit adds an element, with all below it, at *)
(* the end of its parent, or writes an attribute (or anything else: attr   *)
(* is "other").                                                            *)
(***************************************************************************)
EXTENDS Naturals, FiniteSets, SequencesExt

CONSTANTS
  Order,   \* the elements of the page, now and later, in document order
  Chain,   \* per element: those it is in, itself included
  Tag,     \* "p", "img", "video", "source", or "div" for any other
  Assets,  \* per element: the urls of its attributes when it is made
  Script   \* the edits, in page order, with their op and element

Element == ToSet(Order)
Attr    == {"src", "srcset", "poster"}
Stray   == "stray"  \* an element that is not of the page
Top     == Order[1]
NoAssets == [a \in Attr |-> ""]

(* f, as TLC keeps it: with every value worked out.                        *)
Evaluated(f) == CHOOSE g \in {f} : g = f

(* The elements of seq at the places in S, in their order.                 *)
Nth(S, k) == CHOOSE i \in S : Cardinality({j \in S : j < i}) = k - 1
Pick(seq, S) == [k \in 1 .. Cardinality(S) |-> seq[Nth(S, k)]]
DocumentOrder(S) == Pick(Order, {i \in DOMAIN Order : Order[i] \in S})

Below(x) == {y \in Element \ {x} : x \in Chain[y]}

IsAdd(e) == Script[e].op = "add"
Adds(e)  == IF IsAdd(e) THEN {Script[e].el} \cup Below(Script[e].el) ELSE {}
Base     == Element \ UNION {Adds(e) : e \in DOMAIN Script}
Present(edits) == Base \cup UNION {Adds(e) : e \in edits}

ASSUME PageAssumption ==
  /\ Order \in Seq(Element) \ {<<>>} /\ IsInjective(Order) /\ Stray \notin Element
  /\ \A i \in DOMAIN Order : \A x \in Chain[Order[i]] : \E j \in 1 .. i : Order[j] = x
  /\ Script \in Seq(ToSet(Script))
  /\ \A e \in DOMAIN Script : Script[e].el \in Element
  /\ \A e, f \in DOMAIN Script : e # f => Adds(e) \cap Adds(f) = {}

(* The urls of the attributes of x, "" where it has none, once these edits *)
(* are made.                                                               *)
Attributes(x, edits) ==
  LET writes == {e \in edits : Script[e].op = "set" /\ Script[e].el = x
                                                    /\ Script[e].attr \in Attr}
      last(a) == {e \in writes : Script[e].attr = a
                    /\ \A f \in writes : Script[f].attr = a => f <= e}
      written == {Script[e].attr : e \in writes}
  IN  Evaluated([a \in Attr |->
        IF a \in written THEN Script[CHOOSE e \in last(a) : TRUE].url
                         ELSE Assets[x][a]])
=============================================================================
