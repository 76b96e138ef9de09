--------------------------- MODULE MCMirrorStream ---------------------------
(* Values for TLC.  The page: a paragraph p with an img g.  It then adds a *)
(* video v with a source k, and an element n, and writes to v.  The rules: *)
(* poster mode; the capture's own placeholder for the img, and a backtick  *)
(* on the video; near urls denied, those of the page's own host allowed by *)
(* name, and far ones refused by the host's hook.                          *)
EXTENDS MirrorStream

MCOrder  == <<"t", "p", "g", "v", "k", "n">>
MCChain ==
  [t |-> {"t"}, p |-> {"t", "p"}, g |-> {"t", "p", "g"}, v |-> {"t", "v"},
   k |-> {"t", "v", "k"}, n |-> {"t", "n"}]
MCTag == [t |-> "div", p |-> "p", g |-> "img", v |-> "video", k |-> "source",
          n |-> "div"]
MCAssets ==
  [x \in {"t", "p", "n"} |-> NoAssets] @@
  [g |-> [NoAssets EXCEPT !["src"] = "near"],
   v |-> [NoAssets EXCEPT !["src"] = "own", !["poster"] = "far"],
   k |-> [NoAssets EXCEPT !["src"] = "own", !["srcset"] = "near"]]
MCScript ==
  <<[op |-> "add", el |-> "v"], [op |-> "add", el |-> "n"],
    [op |-> "set", el |-> "v", attr |-> "src", url |-> "near"]>>

Free == [mode |-> "reference", private |-> {}, listed |-> {}, refused |-> {},
         held |-> {}, ticked |-> {}]
MCRules ==
  {[Free EXCEPT !.mode = "poster"],
   [Free EXCEPT !.held = {"g"}, !.ticked = {"v"}],
   [Free EXCEPT !.private = {"near", "own"}, !.listed = {"own"}, !.refused = {"far"}]}
=============================================================================
