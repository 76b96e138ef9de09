--------------------------- MODULE RelayChannel ----------------------------
(***************************************************************************)
(* The path of a message between two ends of one room: the send queue and  *)
(* the decode queue of src/transport/websocket.js at both ends, and the    *)
(* room of src/relay/relay.js behind src/relay/backends/ws.js between.     *)
(*                                                                         *)
(* An endpoint's sends run one after the other on a promise chain; a send  *)
(* issued before the socket opens waits at the open gate.  The relay gives *)
(* each frame to every open member of the opposite role.  Frames that      *)
(* arrive are decoded one after the other, also after close().             *)
(*                                                                         *)
(* Data abstraction.  A message is its sender and its number; its form on  *)
(* the wire is plain or compressed.  The bytes buffered for a slow member  *)
(* are the frames not yet delivered to it.  Statuses (they are modelled in *)
(* ViewerLifecycle), counters and diagnostic events are left out, and so   *)
(* are the keep-alive frames the backend answers itself.  A transport is   *)
(* never reused: a host that reconnects makes a new one.                   *)
(***************************************************************************)
EXTENDS Naturals, FiniteSets, Sequences

CONSTANTS
  Endpoint,    \* the two ends of every connection to the room
  Role,        \* "source" or "viewer", of every endpoint
  MaxSends,    \* bound: calls of send(), of every endpoint
  Large,       \* messages <<e, n>> over the compression threshold
  Oversize,    \* messages <<e, n>> over the relay's cap
  Deflating,   \* endpoints whose runtime has CompressionStream
  Inflating,   \* endpoints whose runtime has DecompressionStream
  BufferLimit, \* BACKPRESSURE_BUFFER_LIMIT_BYTES
  MaxFaults    \* bound: connections that break

ASSUME RelayAssumption ==
  /\ Role \in [Endpoint -> {"source", "viewer"}]
  /\ MaxSends \in [Endpoint -> Nat]
  /\ Large \subseteq Endpoint \X Nat /\ Oversize \subseteq Endpoint \X Nat
  /\ Deflating \subseteq Endpoint /\ Inflating \subseteq Endpoint
  /\ BufferLimit \in Nat /\ MaxFaults \in Nat

VARIABLES
  sends,    \* calls of send() so far
  queue,    \* sendQueue: messages whose task has not finished
  parked,   \* the first task of the queue waits for the open gate
  encoding, \* the first task of the queue awaits its compression
  gate,     \* openGateSettled
  client,   \* readyState of the endpoint's socket
  listens,  \* the socket's listeners are attached: close() was not called
  link,     \* the network still carries the connection
  up,       \* frames on their way to the relay
  server,   \* readyState of the relay's socket for the endpoint
  room,     \* members of the room
  down,     \* frames sent by the relay's socket, not yet at the endpoint
  recv,     \* receiveQueue: frames to be decoded
  last,     \* last[t][e]: the last message of e given to t's handlers
  faults,   \* connections that broke
  excused   \* history: <<t, e>> such that t may miss messages of e

sending == <<sends, queue, parked, encoding>>
socket == <<gate, client, listens>>
relay == <<server, room>>
net == <<link, up, down, faults>>
roomVars == <<sending, socket, relay, net, recv, last, excused>>

Others(e) == {t \in Endpoint : Role[t] # Role[e]}

-----------------------------------------------------------------------------
(* Frames.                                                                 *)

(* encodeWireMessage: a large message is compressed where the runtime can, *)
(* and goes out as plain JSON where it cannot.                             *)
Frame(e, n) ==
  [from |-> e, n |-> n,
   form |-> IF <<e, n>> \in Large /\ e \in Deflating THEN "deflate-raw" ELSE "plain"]

(* decodeWireMessage.                                                      *)
Readable(t, f) == f.form = "deflate-raw" => t \in Inflating

-----------------------------------------------------------------------------
(* The transport.                                                          *)

(* A task that starts while the socket is connecting parks at the gate.    *)
NeverParks(e) == FALSE
Parks(e) == client[e] = "connecting" /\ ~gate[e]

Send(e) ==
  /\ sends[e] < MaxSends[e]
  /\ sends' = [sends EXCEPT ![e] = @ + 1]
  /\ queue' = [queue EXCEPT ![e] = Append(@, sends[e] + 1)]
  /\ parked' = [parked EXCEPT ![e] = IF queue[e] = <<>> THEN Parks(e) ELSE @]
  /\ UNCHANGED <<encoding, socket, relay, net, recv, last, excused>>

Runs(e) == queue[e] # <<>> /\ ~encoding[e] /\ (parked[e] => gate[e])

(* The task finds the socket not open: the message is dropped.             *)
DropHead(e) ==
  /\ Runs(e) /\ client[e] # "open"
  /\ queue' = [queue EXCEPT ![e] = Tail(@)]
  /\ parked' = [parked EXCEPT ![e] = FALSE]
  /\ UNCHANGED <<sends, encoding, socket, relay, net, recv, last, excused>>

StartHead(e) ==
  /\ Runs(e) /\ client[e] = "open"
  /\ encoding' = [encoding EXCEPT ![e] = TRUE]
  /\ parked' = [parked EXCEPT ![e] = FALSE]
  /\ UNCHANGED <<sends, queue, socket, relay, net, recv, last, excused>>

(* The frame is ready.  A socket that left OPEN meanwhile swallows it, and *)
(* the message counts as sent.                                             *)
FinishHead(e) ==
  /\ encoding[e]
  /\ encoding' = [encoding EXCEPT ![e] = FALSE]
  /\ queue' = [queue EXCEPT ![e] = Tail(@)]
  /\ up' = IF client[e] = "open" /\ link[e]
           THEN [up EXCEPT ![e] = Append(@, Frame(e, Head(queue[e])))] ELSE up
  /\ UNCHANGED <<sends, parked, socket, relay, link, down, faults, recv, last,
                 excused>>

(* The message event: the frame joins the decode queue.                    *)
Overtakes(q, f) == <<f>> \o q
Waits(q, f) == Append(q, f)

Arrive(t) ==
  /\ down[t] # <<>> /\ client[t] # "connecting"
  /\ down' = [down EXCEPT ![t] = Tail(@)]
  /\ recv' = IF client[t] = "open" /\ listens[t]
             THEN [recv EXCEPT ![t] = Waits(@, Head(down[t]))] ELSE recv
  /\ UNCHANGED <<sending, socket, relay, link, up, faults, last, excused>>

(* handleMessage, also after close(): a frame that this runtime cannot     *)
(* read is lost.                                                           *)
Decode(t) ==
  /\ recv[t] # <<>>
  /\ recv' = [recv EXCEPT ![t] = Tail(@)]
  /\ LET f == Head(recv[t])
     IN  IF Readable(t, f)
         THEN last' = [last EXCEPT ![t][f.from] = f.n] /\ UNCHANGED excused
         ELSE excused' = excused \cup {<<t, f.from>>} /\ UNCHANGED last
  /\ UNCHANGED <<sending, socket, relay, net>>

(* close() detaches the listeners, so it settles the gate itself.          *)
GateLeft(e) == gate[e]
GateAfterClose(e) == TRUE

Excuse(e) == excused' = excused \cup (Others(e) \X {e}) \cup ({e} \X Others(e))

Close(e) ==
  /\ listens[e]
  /\ listens' = [listens EXCEPT ![e] = FALSE]
  /\ gate' = [gate EXCEPT ![e] = GateAfterClose(e)]
  /\ client' = [client EXCEPT ![e] = IF @ = "closed" THEN @ ELSE "closing"]
  /\ Excuse(e)
  /\ UNCHANGED <<sending, relay, net, recv, last>>

(* The open event, and the close event (an error event comes just before   *)
(* it): they settle the gate if they are still heard.                      *)
SocketBecomes(e, state) ==
  /\ client' = [client EXCEPT ![e] = state]
  /\ gate' = [gate EXCEPT ![e] = @ \/ listens[e]]
  /\ UNCHANGED <<sending, listens, relay, net, recv, last, excused>>

Open(e) ==
  /\ client[e] = "connecting" /\ server[e] = "open" /\ link[e]
  /\ SocketBecomes(e, "open")

Closed(e) ==
  /\ client[e] # "closed"
  /\ \/ ~link[e]
     \/ client[e] = "closing" /\ server[e] \in {"none", "closed"} /\ down[e] = <<>>
  /\ SocketBecomes(e, "closed")

-----------------------------------------------------------------------------
(* The network and the relay.                                              *)

(* A connection is refused or breaks; each end hears of it in its time.    *)
Break(e) ==
  /\ faults < MaxFaults /\ faults' = faults + 1
  /\ link[e] /\ client[e] # "closed"
  /\ link' = [link EXCEPT ![e] = FALSE]
  /\ up' = [up EXCEPT ![e] = <<>>] /\ down' = [down EXCEPT ![e] = <<>>]
  /\ Excuse(e)
  /\ UNCHANGED <<sending, socket, relay, recv, last>>

(* The connection event: addClient.                                        *)
Admit(e) ==
  /\ server[e] = "none" /\ client[e] = "connecting" /\ link[e]
  /\ server' = [server EXCEPT ![e] = "open"]
  /\ room' = room \cup {e}
  /\ UNCHANGED <<sending, socket, net, recv, last, excused>>

(* sendToTargets: members that are open and not over the buffer limit.     *)
Takes(t) == server[t] = "open" /\ Len(down[t]) <= BufferLimit
Targets(e) == room \cap Others(e)

(* receive: an oversize frame goes to nobody.                              *)
Relay(e) ==
  /\ up[e] # <<>> /\ server[e] = "open"
  /\ LET f  == Head(up[e])
         to == IF <<e, f.n>> \in Oversize THEN {} ELSE {t \in Targets(e) : Takes(t)}
     IN  /\ down' = [t \in Endpoint |->
              IF t \in to /\ link[t] THEN Append(down[t], f) ELSE down[t]]
         /\ excused' = excused \cup ((Others(e) \ to) \X {e})
  /\ up' = [up EXCEPT ![e] = Tail(@)]
  /\ UNCHANGED <<sending, socket, relay, link, faults, recv, last>>

(* removeClient.                                                           *)
Removed(e) == room \ {e}

(* The socket's error event, then its close event; both remove the member. *)
HearClose(e) ==
  /\ server[e] = "open"
  /\ \/ ~link[e] /\ room' = Removed(e)
     \/ link[e] /\ client[e] = "closing" /\ up[e] = <<>> /\ UNCHANGED room
  /\ server' = [server EXCEPT ![e] = "closing"]
  /\ UNCHANGED <<sending, socket, net, recv, last, excused>>

HearClosed(e) ==
  /\ server[e] = "closing"
  /\ server' = [server EXCEPT ![e] = "closed"]
  /\ room' = Removed(e)
  /\ UNCHANGED <<sending, socket, net, recv, last, excused>>

-----------------------------------------------------------------------------
RoomInit ==
  /\ sends = [e \in Endpoint |-> 0] /\ queue = [e \in Endpoint |-> <<>>]
  /\ parked = [e \in Endpoint |-> FALSE] /\ encoding = [e \in Endpoint |-> FALSE]
  /\ gate = [e \in Endpoint |-> FALSE] /\ listens = [e \in Endpoint |-> TRUE]
  /\ client = [e \in Endpoint |-> "connecting"]
  /\ link = [e \in Endpoint |-> TRUE] /\ faults = 0
  /\ up = [e \in Endpoint |-> <<>>] /\ down = [e \in Endpoint |-> <<>>]
  /\ server = [e \in Endpoint |-> "none"] /\ room = {}
  /\ recv = [e \in Endpoint |-> <<>>]
  /\ last = [t \in Endpoint |-> [e \in Endpoint |-> 0]]
  /\ excused = {}

Serve(e) ==
  \/ DropHead(e) \/ StartHead(e) \/ FinishHead(e) \/ Arrive(e) \/ Decode(e)
  \/ Open(e) \/ Closed(e) \/ Admit(e) \/ Relay(e) \/ HearClose(e) \/ HearClosed(e)

RoomNext == \E e \in Endpoint : Serve(e) \/ Send(e) \/ Close(e) \/ Break(e)

(* Promise tasks, socket events and the relay's handlers run when they can. *)
Fairness ==
  \A e \in Endpoint :
    /\ WF_roomVars(DropHead(e) \/ StartHead(e) \/ FinishHead(e))
    /\ WF_roomVars(Arrive(e)) /\ WF_roomVars(Decode(e))
    /\ WF_roomVars(Open(e)) /\ WF_roomVars(Closed(e)) /\ WF_roomVars(Admit(e))
    /\ WF_roomVars(Relay(e)) /\ WF_roomVars(HearClose(e) \/ HearClosed(e))

RoomSpec == RoomInit /\ [][RoomNext]_roomVars
FairSpec == RoomSpec /\ Fairness

-----------------------------------------------------------------------------
Channel ==
  INSTANCE LossyChannel WITH Endpoint <- Endpoint, Role <- Role,
                             sent <- sends, last <- last

(* The room is a lossy channel: across the send queue, two sockets, the    *)
(* relay and the decode queue, no pair of ends sees a message twice, out   *)
(* of order, invented, or from its own side.                               *)
InOrder == Channel!Spec

(* A send is never parked for good: whatever becomes of the socket, and    *)
(* whenever close() is called, the queue drains (flush() resolves).        *)
QueueDrains == \A e \in Endpoint : queue[e] # <<>> ~> queue[e] = <<>>

(* Every message gets through, those sent before the socket opened         *)
(* included, unless one of the ends closed or lost its connection or the   *)
(* relay had a reason to withhold it.                                      *)
AllArrive ==
  \A e \in Endpoint : \A t \in Others(e) : \A n \in 1 .. MaxSends[e] :
    sends[e] = n ~> last[t][e] >= n \/ <<t, e>> \in excused
=============================================================================
