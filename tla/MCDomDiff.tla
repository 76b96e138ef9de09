----------------------------- MODULE MCDomDiff -----------------------------
EXTENDS DomDiff
CONSTANTS a, b, c, s
MCTree == [x \in Node |-> CASE x = Body -> <<a>> [] x = a -> <<b, s>> [] OTHER -> <<>>]
=============================================================================
