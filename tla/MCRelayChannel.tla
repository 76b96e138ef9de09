--------------------------- MODULE MCRelayChannel --------------------------
EXTENDS RelayChannel
CONSTANTS s, v, w
MCRole == [e \in Endpoint |-> IF e = s THEN "source" ELSE "viewer"]
MCSends == [e \in Endpoint |-> CASE e = s -> 3 [] e = v -> 1 [] e = w -> 0]
MCLarge == {<<s, 2>>}
MCOversize == {<<v, 1>>}
=============================================================================
