----------------------------- MODULE MCWireCopy -----------------------------
EXTENDS WireCopy

(* A page with a box in which a video, with a fallback paragraph, comes    *)
(* before a form control.                                                  *)
MCOrder  == <<"t", "p", "a", "c", "i">>
MCParent == [e \in {"p", "a", "c", "i"} |->
               CASE e = "p" -> "t" [] e = "c" -> "a" [] OTHER -> "p"]
MCChain  == [e \in {"t", "p", "a", "c", "i"} |->
               CASE e = "t" -> {"t"} [] e = "p" -> {"t", "p"}
                 [] e = "c" -> {"t", "p", "a", "c"} [] OTHER -> {"t", "p", e}]
=============================================================================
