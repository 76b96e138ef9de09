----------------------------- MODULE OrderedFeed -----------------------------
(***************************************************************************)
(* What a capture promises whoever mirrors its page, without observer,     *)
(* pool or lifecycle: a log of messages in sessions.  A session begins     *)
(* with a snapshot of all the page shows at that moment.  From then on the *)
(* log gains batches of edits, each younger than all before it; some edits *)
(* it never gains (made while the host paused, or without a diff), but     *)
(* none that it holds already or has passed over is ever delivered later.  *)
(* A batch is cut into messages in page order, but for the edits inside    *)
(* shadow roots, which it has at its end.                                  *)
(***************************************************************************)
EXTENDS Naturals, Sequences

CONSTANTS
  NoDiff,     \* the edits that never reach the wire
  InShadow    \* the edits inside shadow roots

VARIABLES
  page,     \* number of edits made to the page
  session,  \* number of sessions begun
  sent      \* the log

feedVars == <<page, session, sent>>

Showing == (1 .. page) \ NoDiff

FeedInit == page = 0 /\ session = 0 /\ sent = <<>>

Diff(edits) == [kind |-> "mutations", session |-> session, edits |-> edits]

(* A batch of edits in k messages, none empty; edit e is in the one at     *)
(* place[e].                                                               *)
Places(edits, k) ==
  {place \in [edits -> 1 .. k] :
     /\ \A a, b \in edits :
          place[a] < place[b] => b \in InShadow \/ (a \notin InShadow /\ a < b)
     /\ \A i \in 1 .. k : \E e \in edits : place[e] = i}
Batch(edits, k, place) == [i \in 1 .. k |-> Diff({e \in edits : place[e] = i})]

(* Edits of the page younger than all the session has delivered.           *)
Undelivered(edits) ==
  /\ edits \subseteq Showing
  /\ \A i \in DOMAIN sent :
       sent[i].session = session => \A a \in sent[i].edits, b \in edits : a < b

Advance ==
  /\ page' = page + 1
  /\ UNCHANGED <<session, sent>>

Deliver ==
  /\ \E edits \in SUBSET Showing, k \in 0 .. page :
       /\ Undelivered(edits)
       /\ \E place \in Places(edits, k) : sent' = sent \o Batch(edits, k, place)
  /\ UNCHANGED <<page, session>>

(* The last of a session is delivered before the next one begins.          *)
Begin ==
  /\ \E edits \in SUBSET Showing, k \in 0 .. page :
       /\ Undelivered(edits)
       /\ \E place \in Places(edits, k) :
            sent' = sent \o Batch(edits, k, place)
                         \o <<[kind    |-> "snapshot",
                               session |-> session + 1,
                               edits   |-> Showing]>>
  /\ session' = session + 1
  /\ UNCHANGED page

FeedNext == Advance \/ Deliver \/ Begin

FeedSpec == FeedInit /\ [][FeedNext]_feedVars
=============================================================================
