--------------------------- MODULE MirrorDocument ---------------------------
(***************************************************************************)
(* What a viewer makes of the markup it is sent (src/renderer/snapshot.js, *)
(* gateAssetUrl and the fragment gates of src/renderer/index.js, the asset *)
(* guards of src/renderer/diff.js).                                        *)
(*                                                                         *)
(* The markup of a page is the sequence of its elements in document order, *)
(* and beside it travels the sequence of their nids.  Assets are gated on  *)
(* three paths: on the string before a snapshot is parsed, on the tree of  *)
(* an added fragment and of a document that has loaded, and on each        *)
(* attribute written.  A refused asset becomes a <div>.  Then elements and *)
(* nids are paired by their place.                                         *)
(*                                                                         *)
(* Data abstraction.  An element has the attributes that make a browser    *)
(* fetch, with one url each (the one pinned by data-ps-currentsrc, where   *)
(* an img has one).  Of the parser one rule is kept: a <div> closes the    *)
(* paragraph it is in, whose end tag then makes a paragraph of its own.    *)
(* Markup that a DOM does not serialize to (unbalanced quotes, elements    *)
(* without an end) is left out, and so is audio, which is a video without  *)
(* a poster.                                                               *)
(***************************************************************************)
EXTENDS PageScript

(* The rules r of the host and its page.  mode: mediaMode; private: the    *)
(* urls the classifier denies; listed: the hosts of allowAssetOrigins;     *)
(* refused: by assetOriginPolicy; held: the elements the capture itself    *)
(* sends as a placeholder; ticked: those with an odd number of backticks   *)
(* in their attributes.                                                    *)

-----------------------------------------------------------------------------
(* The verdict on a url, for what it is fetched as.                        *)

Widened(r, url) == url \in r.listed
IsPrivateOrLocalHost(r, url) == url \in r.private
ClassifyAssetOrigin(r, url) == ~IsPrivateOrLocalHost(r, url)
HostHook(r, url) == url \notin r.refused

GateAssetUrl(r, url, kind) ==
  IF r.mode = "off" THEN "media-off"
  ELSE IF ~Widened(r, url) /\ ~ClassifyAssetOrigin(r, url) THEN "private-host"
  ELSE IF ~HostHook(r, url) THEN "hook-denied"
  ELSE IF r.mode = "poster" /\ kind = "media" THEN "poster-mode-media"
  ELSE "ok"

(* What an attribute is fetched as.  A source's src is media, too.         *)
Kind(tag, attr) ==
  IF attr = "poster" THEN "poster"
  ELSE IF attr = "src" /\ tag \in {"video", "source"} THEN "media" ELSE "image"

-----------------------------------------------------------------------------
(* Nodes: an element of the page or a paragraph that no element made, the  *)
(* attributes it was given, and whether it is a placeholder.               *)

StrayNode == [el |-> Stray, box |-> FALSE, has |-> NoAssets]
AssetUnavailable(n) == [n EXCEPT !.box = TRUE, !.has = NoAssets]
Strip(n, attr)      == [n EXCEPT !.has[attr] = ""]

Has(n, attr) == n.has[attr] # ""
Verdict(r, n, attr) ==
  IF Has(n, attr) THEN GateAssetUrl(r, n.has[attr], Kind(Tag[n.el], attr)) ELSE "ok"
Denied(r, n, attr) == Verdict(r, n, attr) # "ok"

(* The capture's markup of some elements.  What it holds back itself is a  *)
(* <div> without children.                                                 *)
Sent(r, S) == DocumentOrder({x \in S : (Chain[x] \ {x}) \cap r.held = {}})
Markup(r, S, edits) ==
  LET kept == Evaluated(Sent(r, S))
  IN  Evaluated([i \in DOMAIN kept |->
        [el |-> kept[i], box |-> kept[i] \in r.held,
         has |-> IF kept[i] \in r.held THEN NoAssets ELSE Attributes(kept[i], edits)]])

NodeIds(nodes) == Evaluated([i \in DOMAIN nodes |-> nodes[i].el])

-----------------------------------------------------------------------------
(* On the string, before a snapshot is parsed.                             *)

SrcsetHasBlockedCandidate(r, n) == Denied(r, n, "srcset")
AttrsBlobIsUnreliable(r, n) == n.el \in r.ticked

GateOneImgTag(r, n) ==
  IF AttrsBlobIsUnreliable(r, n) \/ Denied(r, n, "src") THEN AssetUnavailable(n)
  ELSE IF ~SrcsetHasBlockedCandidate(r, n) THEN n
  ELSE IF Has(n, "src") THEN Strip(n, "srcset") ELSE AssetUnavailable(n)

(* Poster mode takes away the src and leaves the element.                  *)
GateOneMediaTag(r, n) ==
  LET shown == IF Denied(r, n, "src") THEN Strip(n, "src") ELSE n
  IN  IF \/ AttrsBlobIsUnreliable(r, n)
         \/ Verdict(r, n, "src") \notin {"ok", "poster-mode-media"}
         \/ Denied(r, n, "poster")
      THEN AssetUnavailable(n)
      ELSE IF ~SrcsetHasBlockedCandidate(r, n) THEN shown
      ELSE IF Has(shown, "src") THEN Strip(shown, "srcset")
      ELSE AssetUnavailable(n)

GateTag(r, n) ==
  IF n.box THEN n
  ELSE CASE Tag[n.el] = "img" -> GateOneImgTag(r, n)
         [] Tag[n.el] \in {"video", "source"} -> GateOneMediaTag(r, n)
         [] OTHER -> n

(* A video that became a placeholder is skipped up to its end tag.         *)
FindMatchingCloseTag(r, nodes) ==
  UNION {Below(nodes[i].el) :
           i \in {j \in DOMAIN nodes : /\ Tag[nodes[j].el] = "video"
                                       /\ GateTag(r, nodes[j]).box}}
GateSnapshotAssets(r, nodes) ==
  LET skipped == FindMatchingCloseTag(r, nodes)
      kept    == Evaluated(Pick(nodes, {i \in DOMAIN nodes : nodes[i].el \notin skipped}))
  IN  Evaluated([i \in DOMAIN kept |-> GateTag(r, kept[i])])

(* A placeholder in a paragraph ends it: the paragraph's end tag comes     *)
(* after the last of what was in it, and makes another.                    *)
Inside(nodes, i) == {j \in DOMAIN nodes : nodes[j].el \in Below(nodes[i].el)}
Split(nodes) ==
  {i \in DOMAIN nodes :
     /\ ~nodes[i].box /\ Tag[nodes[i].el] = "p"
     /\ \E j \in Inside(nodes, i) : nodes[j].box}
Ends(nodes) ==
  {j \in DOMAIN nodes : \E i \in Split(nodes) :
     j \in Inside(nodes, i) /\ \A k \in Inside(nodes, i) : k <= j}
Parse(nodes) ==
  LET ends     == Ends(nodes)
      place(i) == i + Cardinality({j \in ends : j < i})
  IN  Evaluated([k \in 1 .. Len(nodes) + Cardinality(ends) |->
        IF \E i \in DOMAIN nodes : place(i) = k
        THEN nodes[CHOOSE i \in DOMAIN nodes : place(i) = k] ELSE StrayNode])

(* buildSnapshotHtml: the document a snapshot is parsed into.              *)
SnapshotDocument(r, edits) ==
  Parse(GateSnapshotAssets(r, Markup(r, Present(edits), edits)))

-----------------------------------------------------------------------------
(* On the tree.                                                            *)

(* The renderer has a placeholder and a srcset check of its own.           *)
BuildAssetPlaceholderEl(n) == AssetUnavailable(n)
ElSrcsetHasBlockedCandidate(r, n) == Denied(r, n, "srcset")

(* A source's srcset is not looked at here, and a video stays a video.     *)
GateFragmentImg(r, n) ==
  IF Denied(r, n, "src") \/ (ElSrcsetHasBlockedCandidate(r, n) /\ ~Has(n, "src"))
  THEN BuildAssetPlaceholderEl(n)
  ELSE IF ElSrcsetHasBlockedCandidate(r, n) THEN Strip(n, "srcset") ELSE n
GateFragmentMedia(r, n) ==
  LET shown == IF Denied(r, n, "src") THEN Strip(n, "src") ELSE n
  IN  IF Denied(r, n, "poster") THEN Strip(shown, "poster") ELSE shown
GateFragmentTag(r, n) ==
  IF n.box \/ n.el = Stray THEN n
  ELSE CASE Tag[n.el] = "img" -> GateFragmentImg(r, n)
         [] Tag[n.el] \in {"video", "source"} -> GateFragmentMedia(r, n)
         [] OTHER -> n
GateFragmentAssets(r, nodes) ==
  Evaluated([i \in DOMAIN nodes |-> GateFragmentTag(r, nodes[i])])

(* An added subtree.  Of what the parser makes of it, the viewer takes the *)
(* first element: a paragraph that is split loses what follows in it.      *)
FirstElement(nodes) ==
  IF 1 \in Split(nodes)
  THEN LET boxes == {j \in DOMAIN nodes : nodes[j].box}
       IN  SubSeq(nodes, 1, (CHOOSE j \in boxes : \A k \in boxes : j <= k) - 1)
  ELSE Parse(nodes)
Fragment(r, e, edits) == GateFragmentAssets(r, FirstElement(Markup(r, Adds(e), edits)))

(* An attribute of a node the viewer shows.                                *)
Fetched(n) ==
  IF n.box \/ n.el = Stray THEN {}
  ELSE CASE Tag[n.el] = "video" -> {"src", "poster"}
         [] Tag[n.el] \in {"img", "source"} -> {"src", "srcset"}
         [] OTHER -> {}
KindAlwaysImage(n, attr) == "image"
AssetKind(n, attr) == Kind(Tag[n.el], attr)
WriteAttribute(r, n, attr, url) ==
  IF attr \notin Fetched(n) THEN n
  ELSE IF GateAssetUrl(r, url, AssetKind(n, attr)) = "ok"
  THEN [n EXCEPT !.has[attr] = url]
  ELSE Strip(n, attr)

-----------------------------------------------------------------------------
(* Each nid stands for the node at its place, whatever that is.            *)
PairIdentityElements(nodes, ids) ==
  LET n == IF Len(ids) < Len(nodes) THEN Len(ids) ELSE Len(nodes)
  IN  Evaluated([x \in {ids[i] : i \in 1 .. n} |->
        nodes[CHOOSE i \in 1 .. n : ids[i] = x].el])
=============================================================================
