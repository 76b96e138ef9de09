---------------------------- MODULE AdapterProofs ----------------------------
(***************************************************************************)
(* Proofs about the two browser adapters, for any bounds: RemoteControl,   *)
(* the control of a page through the Playwright adapter, and               *)
(* ExtensionWatchdog, the MV3 adapter's worker.  The two share no state.   *)
(*                                                                         *)
(* RemoteControl: a button that a click holds down comes up, a quiet page  *)
(* stays quiet, and the viewer agrees with the adapter once everything is  *)
(* delivered.  Each takes what the property leaves out.  A task never      *)
(* shares its number with another, so that a call of one click does not    *)
(* release the button of the next.  A quiet adapter is either not in       *)
(* control or will never listen again, also when it was disposed of before *)
(* install() was through.  A viewer that disagrees with the adapter has an *)
(* event on its way to it, or a frame under way that will be answered with *)
(* one.                                                                    *)
(*                                                                         *)
(* ExtensionWatchdog: type correctness, that a worker that has caught up   *)
(* always holds the alarm for a stored stream, and that commands that      *)
(* overlap leave the intent of the last of them stored.  AlarmCoversIntent *)
(* is not inductive: a worker may be ended between storing an active       *)
(* intent and arming the alarm.  What closes the gap is install(): as long *)
(* as there is no alarm for a stored stream, its read is the first call in *)
(* flight, and nothing in flight could store an intent without arming.     *)
(***************************************************************************)
EXTENDS RemoteControl, ExtensionWatchdog, SequenceTheorems, TLAPS

USE RemoteAssumption

States == {"locked", "requesting", "active", "denied", "stopped"}
Task   == [id : Nat \ {0}, kind : Kinds \ {"bad"}, step : 0 .. 2]
Frame  == Kinds \cup {"request", "stop"}

TypeOK ==
  /\ vstate \in States /\ state \in States
  /\ frames \in Seq(Frame) /\ events \in Seq(States)
  /\ driver \in {"cdp", "page", "asking"} /\ install \in {"no", "waits", "done"}
  /\ listens \in BOOLEAN /\ disposed \in BOOLEAN /\ quiet \in BOOLEAN
  /\ asking \in Nat /\ taken \in Nat /\ input \in Nat
  /\ requests \in Nat /\ actions \in Nat /\ noise \in Nat /\ failures \in Nat
  /\ tasks \subseteq Task /\ held \subseteq Nat /\ failed \subseteq Nat

-----------------------------------------------------------------------------
(* The driver's calls.                                                     *)

OverCdp(t) == driver = "cdp" /\ t.kind = "click"

LEMMA CallsOf ==
  ASSUME NEW t \in Task
  PROVE  /\ OverCdp(t) =>
              /\ Calls(t.kind)[1] = "move" /\ Calls(t.kind)[2] = "press"
              /\ Calls(t.kind)[3] = "release" /\ Len(Calls(t.kind)) = 3
         /\ ~OverCdp(t) =>
              /\ Calls(t.kind)[1] = t.kind /\ Len(Calls(t.kind)) = 1
              /\ t.kind \notin {"move", "press", "release"}
BY DEF Task, Kinds, OverCdp, Calls

(* Tasks have numbers of their own, their calls left to make, and the      *)
(* button down between press and release.                                  *)
TasksOK ==
  /\ \A t \in tasks : t.id <= taken /\ t.step < Len(Calls(t.kind))
  /\ \A t, u \in tasks : t.id = u.id => t = u
  /\ \A i \in held : i <= taken
  /\ \A t \in tasks : t.id \in held <=> OverCdp(t) /\ t.step = 2
  /\ \A i \in held \ {0} : i \in failed \/ \E t \in tasks : t.id = i

(* One call, or its failure, of a task that is under way or just taken.    *)
Others(t) == {u \in tasks : u.id # t.id}

LEMMA CallKeeps ==
  ASSUME TypeOK, TasksOK, NEW t \in Task,
         t \in tasks \/ (t.id = taken + 1 /\ t.step = 0),
         taken' \in {taken, taken + 1}, t.id <= taken', driver' = driver,
         MakesCall(t) \/ CallRejects(t)
  PROVE  /\ tasks' \subseteq Task /\ held' \subseteq Nat /\ failed' \subseteq Nat
         /\ input' \in Nat /\ failures' \in Nat
         /\ TasksOK'
<1> DEFINE n == Len(Calls(t.kind))
           next == [t EXCEPT !.step = @ + 1]
<1>0. /\ t.id \in Nat \ {0} /\ t.step \in 0 .. 2 /\ taken \in Nat /\ taken' \in Nat
      /\ taken <= taken' /\ held \subseteq Nat /\ failed \subseteq Nat /\ tasks \subseteq Task
  BY DEF TypeOK, Task
<1>1. /\ t.step < n /\ n \in {1, 3} /\ (n = 3 <=> OverCdp(t))
      /\ t.id \in held <=> OverCdp(t) /\ t.step = 2
  <2>1. n \in {1, 3} /\ (n = 3 <=> OverCdp(t))
    BY CallsOf
  <2>2. CASE t \in tasks
    BY <2>1, <2>2 DEF TasksOK
  <2>3. CASE t.id = taken + 1 /\ t.step = 0
    <3>1. t.id \notin held
      BY <1>0, <2>3 DEF TasksOK
    <3> HIDE DEF n
    <3>2. t.step < n
      BY <2>1, <2>3
    <3> QED
      BY <2>1, <2>3, <3>1, <3>2
  <2> QED
    BY <2>1, <2>2, <2>3
<1>2. /\ tasks \ {t} = Others(t)
      /\ \A u \in tasks : Calls(u.kind)' = Calls(u.kind) /\ (OverCdp(u)' <=> OverCdp(u))
  <2>1. \A u \in tasks : u.id = t.id => u = t
    BY <1>0 DEF TasksOK
  <2> QED
    BY <2>1 DEF Others, Calls, OverCdp
<1>3. /\ next \in [id : Nat \ {0}, kind : Kinds \ {"bad"}, step : 0 .. 3]
      /\ next.id = t.id /\ next.kind = t.kind /\ next.step = t.step + 1
      /\ next.step # n => next \in Task
  <2>1. t = [id |-> t.id, kind |-> t.kind, step |-> t.step] /\ t.kind \in Kinds \ {"bad"}
    BY DEF Task
  <2>2. next = [id |-> t.id, kind |-> t.kind, step |-> t.step + 1]
    BY <2>1
  <2> HIDE DEF n, next
  <2>3. t.step + 1 # n => t.step + 1 \in 0 .. 2
    BY <1>0, <1>1
  <2> QED
    BY <1>0, <2>1, <2>2, <2>3 DEF Task
<1> HIDE DEF n, next
<1>4. CASE CallRejects(t)
  <2>1. /\ tasks' = Others(t) /\ failed' = failed \cup {t.id} /\ held' = held /\ input' = input
        /\ failures' = failures + 1
    BY <1>2, <1>4 DEF CallRejects
  <2>2. TasksOK'
    <3>1. \A u \in tasks' : u \in tasks /\ u.id <= taken' /\ u.step < Len(Calls(u.kind))'
      BY <1>0, <1>2, <2>1 DEF TasksOK, Others, Task
    <3>2. \A u \in tasks' : (u.id \in held' <=> OverCdp(u)' /\ u.step = 2)
      BY <1>2, <2>1 DEF TasksOK, Others
    <3>3. \A i \in held' : i <= taken'
      BY <1>0, <2>1 DEF TasksOK
    <3>4. \A i \in held' \ {0} : i \in failed' \/ \E u \in tasks' : u.id = i
      BY <2>1 DEF TasksOK, Others
    <3>5. \A u, v \in tasks' : u.id = v.id => u = v
      BY <3>1 DEF TasksOK
    <3> QED
      BY <3>1, <3>2, <3>3, <3>4, <3>5 DEF TasksOK
  <2>3. input' \in Nat /\ failures' \in Nat
    BY <2>1 DEF TypeOK
  <2>4. tasks' \subseteq Task /\ held' \subseteq Nat /\ failed' \subseteq Nat
    BY <1>0, <2>1 DEF Others
  <2> QED
    BY <2>2, <2>3, <2>4
<1>5. CASE MakesCall(t)
  <2>1. /\ held' = Effect(Calls(t.kind)[t.step + 1], t.id) /\ input' = input + 1
        /\ tasks' = Others(t) \cup Left(next) /\ UNCHANGED <<failed, failures>>
    BY <1>2, <1>5, Zenon DEF MakesCall, next
  <2>2. Left(next) = IF next.step = n THEN {} ELSE {next}
    BY <1>3 DEF Left, n
  <2>3. /\ held' \subseteq held \cup {0, t.id}
        /\ held \ {0, t.id} \subseteq held'
    BY <2>1 DEF Effect
  <2>4. t.id \in held' <=> OverCdp(t) /\ t.step = 1
    <3>1. CASE ~OverCdp(t)
      <4>1. t.step = 0 /\ Calls(t.kind)[t.step + 1] \notin {"press", "release"} /\ t.id \notin held
        BY <1>0, <1>1, <3>1, CallsOf
      <4>2. t.id # 0
        BY <1>0
      <4> QED
        BY <2>1, <3>1, <4>1, <4>2 DEF Effect
    <3>2. CASE OverCdp(t) /\ t.step = 0
      BY <1>1, <2>1, <3>2, CallsOf DEF Effect
    <3>3. CASE OverCdp(t) /\ t.step = 1
      BY <1>1, <2>1, <3>3, CallsOf DEF Effect
    <3>4. CASE OverCdp(t) /\ t.step = 2
      BY <1>1, <2>1, <3>4, CallsOf DEF Effect
    <3> QED
      BY <1>0, <3>1, <3>2, <3>3, <3>4
  <2>5. tasks' \subseteq Task /\ \A u \in tasks' : u \in Others(t) \/ (u = next /\ next.step # n)
    <3>1. \A u \in tasks' : u \in Others(t) \/ (u = next /\ next.step # n)
      <4>1. CASE next.step = n
        BY <2>1, <2>2, <4>1
      <4>2. CASE next.step # n
        BY <2>1, <2>2, <4>2
      <4> QED
        BY <4>1, <4>2
    <3>2. Others(t) \subseteq Task
      BY <1>0 DEF Others
    <3>3. next.step # n => next \in Task
      BY <1>3
    <3>4. tasks' \subseteq Task
      BY <3>1, <3>2, <3>3, Zenon
    <3> QED
      BY <3>1, <3>4
  <2>6. next.step # n => next \in tasks'
    BY <2>1, <2>2
  <2>7. TasksOK'
    <3>1. (Len(Calls(next.kind)) = n)' /\ (OverCdp(next)' <=> OverCdp(t)) /\ Len(Calls(next.kind))' = n
      BY <1>3 DEF Calls, OverCdp, n
    <3>2. \A u \in Others(t) : u \in tasks /\ u.id # t.id /\ u.id # 0 /\ u.id \in Nat
      BY <1>0 DEF Others, Task
    <3>3. \A u \in tasks' : u.id <= taken' /\ u.step < Len(Calls(u.kind))'
      <4>1. \A u \in Others(t) : u.id <= taken' /\ u.step < Len(Calls(u.kind))'
        BY <1>0, <1>2, <3>2 DEF TasksOK
      <4>2. next.step # n => next.id <= taken' /\ next.step < Len(Calls(next.kind))'
        BY <1>0, <1>1, <1>3, <3>1
      <4> QED
        BY <2>5, <4>1, <4>2
    <3>4. \A u \in tasks' : (u.id \in held' <=> OverCdp(u)' /\ u.step = 2)
      <4>1. ASSUME NEW u \in Others(t) PROVE u.id \in held' <=> OverCdp(u)' /\ u.step = 2
        <5>1. u.id \in held' <=> u.id \in held
          BY <2>3, <3>2
        <5> QED
          BY <1>2, <3>2, <5>1 DEF TasksOK
      <4>2. next.step # n => (next.id \in held' <=> OverCdp(next)' /\ next.step = 2)
        BY <1>0, <1>1, <1>3, <2>4, <3>1
      <4> QED
        BY <2>5, <4>1, <4>2
    <3>5. \A i \in held' : i <= taken'
      BY <1>0, <2>3 DEF TasksOK
    <3>6. ASSUME NEW i \in held' \ {0} PROVE i \in failed' \/ \E u \in tasks' : u.id = i
      <4>1. CASE i = t.id
        <5>1. OverCdp(t) /\ t.step = 1
          BY <2>4, <4>1
        <5>2. next.step # n
          BY <1>1, <1>3, <5>1
        <5> QED
          BY <1>3, <2>6, <4>1, <5>2
      <4>2. CASE i # t.id
        <5>1. i \in held \ {0}
          BY <2>3, <4>2
        <5>2. i \in failed \/ \E u \in tasks : u.id = i
          BY <5>1 DEF TasksOK
        <5> QED
          BY <2>1, <4>2, <5>2 DEF Others
      <4> QED
        BY <4>1, <4>2
    <3>7. \A u, v \in tasks' : u.id = v.id => u = v
      BY <1>3, <2>5, <3>2 DEF TasksOK
    <3> QED
      BY <3>3, <3>4, <3>5, <3>6, <3>7 DEF TasksOK
  <2>8. held' \subseteq Nat
    BY <1>0, <2>3
  <2> QED
    BY <1>0, <2>1, <2>5, <2>7, <2>8 DEF TypeOK
<1> QED
  BY <1>4, <1>5

(* An action that is let in, and one that goes on.                         *)
LEMMA ActionsKeep ==
  ASSUME TypeOK, TasksOK, TakeAction \/ Continue
  PROVE  /\ tasks' \subseteq Task /\ held' \subseteq Nat /\ failed' \subseteq Nat
         /\ input' \in Nat /\ failures' \in Nat /\ taken' \in Nat
         /\ TasksOK'
<1>0. taken \in Nat /\ tasks \subseteq Task /\ driver' = driver
  BY DEF TypeOK, TakeAction, Continue, life
<1>1. CASE Continue
  <2>1. PICK t \in tasks : MakesCall(t) \/ CallRejects(t)
    BY <1>1 DEF Continue
  <2>2. t \in Task /\ taken' = taken /\ t.id <= taken
    BY <1>0, <1>1, <2>1 DEF Continue, TasksOK
  <2> QED
    BY <1>0, <2>1, <2>2, CallKeeps
<1>2. CASE TakeAction
  <2>1. PICK k \in Kinds \ {"bad"} :
          LET t == [id |-> taken + 1, kind |-> k, step |-> 0]
          IN IF driver = "asking"
             THEN tasks' = tasks \cup {t} /\ UNCHANGED <<held, input, failed, failures, state, events>>
             ELSE MakesCall(t) \/ CallRejects(t)
    BY <1>2 DEF TakeAction
  <2> DEFINE t == [id |-> taken + 1, kind |-> k, step |-> 0]
  <2>2. /\ t \in Task /\ t.id = taken + 1 /\ t.step = 0 /\ t.kind = k /\ taken' = taken + 1
        /\ IF driver = "asking"
           THEN tasks' = tasks \cup {t} /\ UNCHANGED <<held, input, failed, failures, state, events>>
           ELSE MakesCall(t) \/ CallRejects(t)
    BY <1>0, <1>2, <2>1 DEF TakeAction, Task
  <2> HIDE DEF t
  <2>3. CASE driver # "asking"
    <3>1. MakesCall(t) \/ CallRejects(t)
      BY <2>2, <2>3
    <3>2. t.id <= taken' /\ taken' \in {taken, taken + 1} /\ taken' \in Nat
      BY <1>0, <2>2
    <3> QED
      BY <1>0, <2>2, <3>1, <3>2, CallKeeps
  <2>4. CASE driver = "asking"
    <3>1. tasks' = tasks \cup {t} /\ UNCHANGED <<held, input, failed, failures>>
      BY <2>2, <2>4
    <3>2. /\ \A u \in tasks' : u \in Task /\ (u \in tasks \/ u = t)
          /\ \A u \in tasks : u.id \in Nat /\ u.id <= taken /\ u \in tasks'
      BY <1>0, <2>2, <3>1 DEF TasksOK, Task
    <3>3. t.id \notin held
      BY <1>0, <2>2 DEF TasksOK, TypeOK
    <3>4. Len(Calls(t.kind)) \in {1, 3}
      BY <2>2, CallsOf
    <3>5. \A u \in tasks' : u.id <= taken' /\ u.step < Len(Calls(u.kind))'
      <4>1. \A u \in tasks' : Len(Calls(u.kind))' = Len(Calls(u.kind))
        BY <1>0 DEF Calls
      <4> QED
        BY <1>0, <2>2, <3>2, <3>4, <4>1 DEF TasksOK
    <3>6. \A u \in tasks' : (u.id \in held' <=> OverCdp(u)' /\ u.step = 2)
      <4>1. \A u \in tasks' : OverCdp(u)' <=> OverCdp(u)
        BY <1>0 DEF OverCdp
      <4> QED
        BY <2>2, <3>1, <3>2, <3>3, <4>1 DEF TasksOK
    <3>7. \A u, v \in tasks' : u.id = v.id => u = v
      BY <1>0, <2>2, <3>2 DEF TasksOK
    <3>8. \A i \in held' : i <= taken'
      BY <1>0, <2>2, <3>1 DEF TasksOK, TypeOK
    <3>9. \A i \in held' \ {0} : i \in failed' \/ \E u \in tasks' : u.id = i
      BY <3>1, <3>2 DEF TasksOK
    <3>10. TasksOK'
      BY <3>5, <3>6, <3>7, <3>8, <3>9 DEF TasksOK
    <3> QED
      BY <1>0, <2>2, <3>1, <3>2, <3>10 DEF TypeOK
  <2> QED
    BY <2>3, <2>4
<1> QED
  BY <1>1, <1>2

-----------------------------------------------------------------------------
(* Type correctness.                                                       *)

LEMMA Sent ==
  ASSUME NEW S, NEW q \in Seq(S), NEW x \in S
  PROVE  /\ Append(q, x) \in Seq(S) /\ Append(q, x) # <<>> /\ Len(q) \in Nat
         /\ Len(Append(q, x)) = Len(q) + 1 /\ Append(q, x)[Len(q) + 1] = x
         /\ \A i \in 1 .. Len(q) : Append(q, x)[i] = q[i]
OBVIOUS

LEMMA Taken ==
  ASSUME NEW S, NEW q \in Seq(S), q # <<>>
  PROVE  /\ Head(q) \in S /\ Head(q) = q[1] /\ Tail(q) \in Seq(S)
         /\ Len(q) \in Nat \ {0} /\ Len(Tail(q)) = Len(q) - 1
         /\ \A i \in 1 .. Len(Tail(q)) : i + 1 \in 1 .. Len(q) /\ Tail(q)[i] = q[i + 1]
OBVIOUS

LEMMA CallTyped ==
  ASSUME TypeOK, NEW t, MakesCall(t) \/ CallRejects(t)
  PROVE  state' \in States /\ events' \in Seq(States)
<1>1. CASE UNCHANGED <<state, events>>
  BY <1>1 DEF TypeOK
<1>2. CASE state' = state /\ events' = Append(events, state)
  BY <1>2, Sent DEF TypeOK
<1> QED
  BY <1>1, <1>2, Zenon DEF MakesCall, CallRejects, SetControlState

LEMMA RemoteInit == Init => TypeOK /\ TasksOK
<1> SUFFICES ASSUME Init PROVE TypeOK /\ TasksOK
  OBVIOUS
<1>1. <<>> \in Seq(Frame) /\ <<>> \in Seq(States)
  OBVIOUS
<1> QED
  BY <1>1 DEF Init, TypeOK, TasksOK, States

LEMMA RemoteStep == TypeOK /\ TasksOK /\ [Next]_vars => TypeOK' /\ TasksOK'
<1> SUFFICES ASSUME TypeOK, TasksOK, [Next]_vars PROVE TypeOK' /\ TasksOK'
  OBVIOUS
<1> USE DEF TypeOK
<1>1. ASSUME UNCHANGED <<taken, tasks, held, input, failed, driver>>, failures' \in Nat,
             vstate' \in States, state' \in States, frames' \in Seq(Frame), events' \in Seq(States),
             install' \in {"no", "waits", "done"}, listens' \in BOOLEAN, disposed' \in BOOLEAN,
             quiet' \in BOOLEAN, asking' \in Nat,
             requests' \in Nat, actions' \in Nat, noise' \in Nat
      PROVE  TypeOK' /\ TasksOK'
  <2>1. TypeOK'
    BY <1>1
  <2>2. TasksOK'
    BY <1>1 DEF TasksOK, Calls, OverCdp
  <2> QED
    BY <2>1, <2>2
<1>2. ASSUME NEW f \in Frame, frames' = Append(frames, f) PROVE frames' \in Seq(Frame)
  BY <1>2, Sent
<1>3. CASE Request \/ StopPressed
  <2>1. frames' \in Seq(Frame)
    BY <1>3, <1>2 DEF Request, StopPressed, Frame
  <2>2. /\ UNCHANGED <<events, life, consent, page, quiet, actions, noise>>
        /\ requests' \in Nat /\ vstate' \in States
    BY <1>3 DEF Request, StopPressed, States
  <2> QED
    BY <1>1, <2>1, <2>2 DEF life, consent, page
<1>4. CASE Act \/ OtherViewer
  <2>1. frames' \in Seq(Frame)
    BY <1>4, <1>2 DEF Act, OtherViewer, Frame, Kinds
  <2>2. /\ UNCHANGED <<events, life, consent, page, quiet, vstate, requests>>
        /\ actions' \in Nat /\ noise' \in Nat
    BY <1>4 DEF Act, OtherViewer
  <2> QED
    BY <1>1, <2>1, <2>2 DEF life, consent, page
<1>5. CASE HearState
  <2>1. events' \in Seq(States) /\ vstate' \in States
    BY <1>5, Taken DEF HearState
  <2> QED
    BY <1>1, <1>5, <2>1 DEF HearState, life, consent, page
<1>6. CASE Install \/ Installed \/ Dispose
  BY <1>1, <1>6 DEF Install, Installed, Dispose, viewer, consent, page
<1>7. CASE Unheard
  <2>1. frames' \in Seq(Frame)
    BY <1>7, Taken DEF Unheard
  <2> QED
    BY <1>1, <1>7, <2>1 DEF Unheard, viewer, life, consent, page
<1>8. ASSUME NEW k, Takes(k) PROVE frames' \in Seq(Frame)
  BY <1>8, Taken DEF Takes
<1>9. ASSUME NEW x \in States, SetControlState(x) PROVE state' \in States /\ events' \in Seq(States)
  BY <1>9, Sent DEF SetControlState
<1>10. CASE TakeRequest \/ TakeStop
  <2>1. frames' \in Seq(Frame)
    BY <1>8, <1>10 DEF TakeRequest, TakeStop
  <2>2. state' \in States /\ events' \in Seq(States)
    BY <1>9, <1>10 DEF TakeRequest, TakeStop, StopControl, States
  <2>3. asking' \in {asking, asking + 1}
    BY <1>10, Zenon DEF TakeRequest, TakeStop
  <2>4. asking' \in Nat
    BY <2>3
  <2>5. quiet' \in BOOLEAN
    BY <1>10, Zenon DEF TakeRequest, TakeStop
  <2> QED
    BY <1>1, <1>10, <2>1, <2>2, <2>4, <2>5 DEF TakeRequest, TakeStop, viewer, life, page
<1>11. CASE Decide \/ HookThrows
  <2>1. state' \in States /\ events' \in Seq(States)
    BY <1>9, <1>11 DEF Decide, HookThrows, CaughtThrow, States
  <2>2. asking' \in Nat /\ failures' \in Nat
    BY <1>11 DEF Decide, HookThrows, page
  <2> QED
    BY <1>1, <1>11, <2>1, <2>2 DEF Decide, HookThrows, viewer, life, page
<1>12. CASE TakeRefused
  <2>1. frames' \in Seq(Frame)
    BY <1>8, <1>12 DEF TakeRefused
  <2>2. state' \in States /\ events' \in Seq(States)
    BY <1>9, <1>12 DEF TakeRefused
  <2> QED
    BY <1>1, <1>12, <2>1, <2>2 DEF TakeRefused, viewer, life, page
<1>13. CASE TakeAction \/ Continue
  <2>1. /\ tasks' \subseteq Task /\ held' \subseteq Nat /\ failed' \subseteq Nat
        /\ input' \in Nat /\ failures' \in Nat /\ taken' \in Nat /\ TasksOK'
    BY <1>13, ActionsKeep
  <2>2. frames' \in Seq(Frame)
    BY <1>8, <1>13 DEF TakeAction, Continue
  <2>3. state' \in States /\ events' \in Seq(States)
    <3>1. \/ UNCHANGED <<state, events>>
          \/ \E t : MakesCall(t) \/ CallRejects(t)
      BY <1>13, Zenon DEF TakeAction, Continue
    <3> QED
      BY <3>1, CallTyped
  <2>4. UNCHANGED <<viewer, life, asking, quiet>>
    BY <1>13 DEF TakeAction, Continue
  <2> QED
    BY <2>1, <2>2, <2>3, <2>4 DEF viewer, life
<1>14. CASE UNCHANGED vars
  BY <1>1, <1>14 DEF vars, viewer, life, consent, page
<1> QED
  BY <1>3, <1>4, <1>5, <1>6, <1>7, <1>10, <1>11, <1>12, <1>13, <1>14 DEF Next

(* Whatever stops, denies or interrupts control between the press and the  *)
(* release, and however many clicks overlap, a button that is down is that *)
(* of a click under way or of one whose driver call failed                 *)
(* (dispatchRemoteAction in src/src/adapters/playwright.js).               *)
THEOREM ButtonsAlwaysComeUp == Spec => []ButtonsComeUp
<1>1. TypeOK /\ TasksOK => ButtonsComeUp
  <2> SUFFICES ASSUME TypeOK, TasksOK PROVE ButtonsComeUp
    OBVIOUS
  <2>1. held \ {0} \subseteq {t.id : t \in tasks} \cup failed
    BY DEF TasksOK
  <2>2. ASSUME NEW t \in tasks, Calls(t.kind)[1] = "move" PROVE t.id \in held <=> t.step = 2
    <3>1. OverCdp(t)
      BY <2>2, CallsOf DEF TypeOK
    <3> QED
      BY <3>1 DEF TasksOK
  <2> QED
    BY <2>1, <2>2 DEF ButtonsComeUp
<1> QED
  BY <1>1, RemoteInit, RemoteStep, PTL DEF Spec

-----------------------------------------------------------------------------
(* A quiet page.                                                           *)

(* Nothing is under way, and nothing will be: control is not held, or the  *)
(* adapter, once installed and disposed of, never listens again.           *)
QuietOK ==
  /\ quiet => /\ tasks = {} /\ asking = 0
              /\ state # "active" \/ (disposed /\ install = "done" /\ ~listens)
  /\ install # "done" => /\ ~listens /\ state = "locked" /\ vstate = "locked"
                         /\ asking = 0 /\ tasks = {} /\ events = <<>>

LEMMA QuietStep == TypeOK /\ QuietOK /\ [Next]_vars => QuietOK'
<1> SUFFICES ASSUME TypeOK, QuietOK, [Next]_vars PROVE QuietOK'
  OBVIOUS
<1> USE DEF QuietOK
<1>1. ASSUME UNCHANGED <<tasks, asking, state, quiet>>, UNCHANGED life,
             install = "done" \/ UNCHANGED <<vstate, events>>
      PROVE  QuietOK'
  BY <1>1 DEF life
<1>2. CASE Request \/ StopPressed \/ Act \/ OtherViewer \/ HearState \/ Unheard
  <2>1. UNCHANGED <<tasks, asking, state, quiet>> /\ UNCHANGED life
    BY <1>2 DEF Request, StopPressed, Act, OtherViewer, HearState, Unheard, consent, page
  <2>2. install = "done" \/ UNCHANGED <<vstate, events>>
    <3>1. CASE Request \/ StopPressed \/ HearState
      BY <3>1 DEF Request, StopPressed, HearState
    <3>2. CASE Act \/ OtherViewer \/ Unheard
      BY <3>2 DEF Act, OtherViewer, Unheard, viewer
    <3> QED
      BY <1>2, <3>1, <3>2
  <2> QED
    BY <1>1, <2>1, <2>2
<1>3. CASE Install
  BY <1>3 DEF Install, viewer, consent, page
<1>4. CASE Installed
  <2>1. /\ install = "waits" /\ install' = "done" /\ UNCHANGED <<tasks, asking, state, quiet>>
    BY <1>4 DEF Installed, consent, page
  <2> QED
    BY <2>1
<1>5. CASE Dispose
  <2>1. /\ disposed' = TRUE /\ listens' = FALSE /\ (quiet' => quiet \/ (Idle /\ install # "waits"))
        /\ UNCHANGED <<install, tasks, asking, state, vstate, events>>
    BY <1>5 DEF Dispose, viewer, consent, page
  <2>2. install \in {"no", "waits", "done"}
    BY DEF TypeOK
  <2> QED
    BY <2>1, <2>2 DEF Idle
<1>6. ASSUME listens, install' = install PROVE install = "done" /\ install' = "done"
  BY <1>6
<1>7. CASE TakeRequest
  <2>1. listens /\ UNCHANGED install /\ quiet' = FALSE
    BY <1>7 DEF TakeRequest, Takes, life
  <2> QED
    BY <1>6, <2>1
<1>8. CASE TakeStop
  <2>1. /\ listens /\ UNCHANGED <<install, asking, tasks>> /\ state' = "stopped"
        /\ (quiet' => quiet \/ Idle)
    BY <1>8 DEF TakeStop, Takes, life, page, StopControl, SetControlState
  <2> QED
    BY <1>6, <2>1 DEF Idle
<1>9. CASE Decide \/ HookThrows
  <2>1. asking > 0 /\ UNCHANGED <<install, quiet>> /\ asking \in Nat
    BY <1>9 DEF Decide, HookThrows, life, TypeOK
  <2>2. ~quiet /\ install = "done"
    BY <2>1
  <2> QED
    BY <2>1, <2>2
<1>10. CASE TakeRefused
  <2>1. listens /\ UNCHANGED <<install, disposed, listens, quiet, asking, tasks, state>>
    BY <1>10 DEF TakeRefused, Takes, life, page, SetControlState
  <2> QED
    BY <1>6, <2>1
<1>11. CASE TakeAction
  <2>1. listens /\ LetsIn /\ UNCHANGED <<install, quiet>>
    BY <1>11 DEF TakeAction, Takes, life
  <2> QED
    BY <1>6, <2>1 DEF LetsIn
<1>12. CASE Continue
  <2>1. tasks # {} /\ UNCHANGED <<install, quiet>>
    BY <1>12 DEF Continue, life
  <2> QED
    BY <2>1
<1>13. CASE UNCHANGED vars
  BY <1>1, <1>13 DEF vars, viewer, consent, page
<1> QED
  BY <1>2, <1>3, <1>4, <1>5, <1>7, <1>8, <1>9, <1>10, <1>11, <1>12, <1>13 DEF Next

LEMMA QuietInputs == TypeOK /\ QuietOK /\ [Next]_vars => (quiet => input' = input)
<1> SUFFICES ASSUME QuietOK, [Next]_vars, quiet PROVE input' = input
  OBVIOUS
<1>1. ~TakeAction
  BY DEF QuietOK, TakeAction, Takes, LetsIn
<1>2. ~Continue
  BY DEF QuietOK, Continue
<1>3. CASE Request \/ StopPressed \/ Act \/ OtherViewer \/ HearState
  BY <1>3 DEF Request, StopPressed, Act, OtherViewer, HearState, page
<1>4. CASE Install \/ Installed \/ Dispose \/ Unheard
  BY <1>4 DEF Install, Installed, Dispose, Unheard, page
<1>5. CASE TakeRequest \/ Decide \/ HookThrows \/ TakeStop \/ TakeRefused
  BY <1>5 DEF TakeRequest, Decide, HookThrows, TakeStop, TakeRefused, page
<1>6. CASE UNCHANGED vars
  BY <1>6 DEF vars, page
<1> QED
  BY <1>1, <1>2, <1>3, <1>4, <1>5, <1>6 DEF Next

LEMMA QuietInit == Init => QuietOK
BY DEF Init, QuietOK

(* After a stop or a dispose that found nothing under way no input reaches *)
(* the page until control is requested anew, whatever frames, decisions    *)
(* and viewers follow, and also when install() is through only afterwards  *)
(* (stop and dispose of src/src/adapters/playwright.js).                   *)
THEOREM QuietStaysQuiet == Spec => QuietPage
<1>1. Init => TypeOK /\ TasksOK /\ QuietOK
  BY RemoteInit, QuietInit
<1>2. (TypeOK /\ TasksOK /\ QuietOK) /\ [Next]_vars => (TypeOK /\ TasksOK /\ QuietOK)'
  BY RemoteStep, QuietStep
<1>3. TypeOK /\ TasksOK /\ QuietOK /\ [Next]_vars => [quiet => input' = input]_vars
  BY QuietInputs
<1> QED
  BY <1>1, <1>2, <1>3, PTL DEF Spec, QuietPage

-----------------------------------------------------------------------------
(* Agreement.                                                              *)

(* The state is the last event on its way to the viewer; without one, the  *)
(* viewer has it, or a frame under way will be answered with an event.     *)
Answered(q) == \E i \in 1 .. Len(q) : q[i] \in {"request", "stop"}
Told ==
  listens => IF events = <<>> THEN vstate = state \/ Answered(frames)
             ELSE events[Len(events)] = state

LEMMA FramesPass ==
  ASSUME NEW q \in Seq(Frame)
  PROVE  /\ \A f \in Frame : (Answered(q) \/ f \in {"request", "stop"}) => Answered(Append(q, f))
         /\ q # <<>> /\ Answered(q) => Head(q) \in {"request", "stop"} \/ Answered(Tail(q))
<1>1. ASSUME NEW f \in Frame, Answered(q) \/ f \in {"request", "stop"}
      PROVE  Answered(Append(q, f))
  <2> DEFINE r == Append(q, f)
  <2>1. /\ Len(q) \in Nat /\ Len(r) = Len(q) + 1 /\ r[Len(q) + 1] = f
        /\ \A i \in 1 .. Len(q) : r[i] = q[i]
    BY Sent
  <2> HIDE DEF r
  <2>2. Len(q) + 1 \in 1 .. Len(r) /\ \A i \in 1 .. Len(q) : i \in 1 .. Len(r)
    BY <2>1
  <2>3. Answered(r)
    BY <1>1, <2>1, <2>2 DEF Answered
  <2> QED
    BY <2>3 DEF r
<1>2. ASSUME q # <<>>, Answered(q), Head(q) \notin {"request", "stop"} PROVE Answered(Tail(q))
  <2> DEFINE r == Tail(q)
  <2>1. /\ Head(q) = q[1] /\ Len(q) \in Nat \ {0} /\ Len(r) = Len(q) - 1
        /\ \A i \in 1 .. Len(r) : r[i] = q[i + 1]
    BY <1>2, Taken
  <2> HIDE DEF r
  <2>2. PICK i \in 1 .. Len(q) : q[i] \in {"request", "stop"}
    BY <1>2 DEF Answered
  <2>3. i - 1 \in 1 .. Len(r) /\ (i - 1) + 1 = i
    BY <1>2, <2>1, <2>2
  <2>4. r[i - 1] = q[i]
    BY <2>1, <2>3
  <2>5. Answered(r)
    BY <2>2, <2>3, <2>4 DEF Answered
  <2> QED
    BY <2>5 DEF r
<1> QED
  BY <1>1, <1>2

LEMMA Announced ==
  ASSUME TypeOK, NEW x \in States, SetControlState(x)
  PROVE  Told'
<1>1. /\ events \in Seq(States) /\ events' = Append(events, x) /\ state' = x
  BY DEF TypeOK, SetControlState
<1>2. events' # <<>> /\ Len(events') = Len(events) + 1 /\ events'[Len(events) + 1] = x
  BY <1>1, Sent
<1> QED
  BY <1>1, <1>2 DEF Told

LEMMA TellingCalls ==
  ASSUME TypeOK, NEW t, MakesCall(t) \/ CallRejects(t)
  PROVE  UNCHANGED <<state, events>> \/ SetControlState(state)
BY DEF MakesCall, CallRejects

LEMMA ToldStep == TypeOK /\ QuietOK /\ Told /\ [Next]_vars => Told'
<1> SUFFICES ASSUME TypeOK, QuietOK, Told, [Next]_vars PROVE Told'
  OBVIOUS
<1>0. frames \in Seq(Frame) /\ events \in Seq(States) /\ state \in States
  BY DEF TypeOK
<1>1. ASSUME UNCHANGED <<events, state, listens>>, UNCHANGED vstate \/ Answered(frames'),
             listens /\ Answered(frames) => Answered(frames')
      PROVE  Told'
  BY <1>1 DEF Told
<1>2. CASE Request \/ StopPressed
  <2>1. UNCHANGED <<events, state, listens>>
    BY <1>2 DEF Request, StopPressed, consent, life
  <2>2. Answered(frames')
    BY <1>0, <1>2, FramesPass DEF Request, StopPressed, Frame
  <2> QED
    BY <1>1, <2>1, <2>2
<1>3. CASE Act \/ OtherViewer
  <2>1. UNCHANGED <<events, state, listens, vstate>>
    BY <1>3 DEF Act, OtherViewer, consent, life
  <2>2. Answered(frames) => Answered(frames')
    BY <1>0, <1>3, FramesPass DEF Act, OtherViewer, Frame, Kinds
  <2> QED
    BY <1>1, <2>1, <2>2
<1>4. CASE HearState
  <2>1. /\ events # <<>> /\ events' = Tail(events) /\ vstate' = Head(events)
        /\ UNCHANGED <<frames, state, listens>>
    BY <1>4 DEF HearState, consent, life
  <2>2. /\ Head(events) = events[1] /\ Len(events) \in Nat \ {0}
        /\ events' \in Seq(States) /\ Len(events') = Len(events) - 1
        /\ \A i \in 1 .. Len(events') : events'[i] = events[i + 1]
    BY <1>0, <2>1, Taken
  <2>3. CASE events' = <<>>
    <3>1. Len(events) = 1
      BY <2>2, <2>3
    <3> QED
      BY <2>1, <2>2, <2>3, <3>1 DEF Told
  <2>4. CASE events' # <<>>
    <3>1. Len(events') \in 1 .. Len(events') /\ Len(events') + 1 = Len(events)
      BY <2>2, <2>4
    <3>2. events'[Len(events')] = events[Len(events)]
      BY <2>2, <3>1
    <3> QED
      BY <2>1, <2>4, <3>2 DEF Told
  <2> QED
    BY <2>3, <2>4
<1>5. CASE Install
  BY <1>1, <1>5 DEF Install, viewer, consent
<1>6. CASE Installed
  <2>1. /\ events = <<>> /\ vstate = state
        /\ UNCHANGED <<events, vstate, state>>
    BY <1>6 DEF Installed, QuietOK, viewer, consent
  <2> QED
    BY <2>1 DEF Told
<1>7. CASE Dispose
  BY <1>7 DEF Dispose, Told
<1>8. CASE Unheard
  BY <1>1, <1>8 DEF Unheard, viewer, life, consent
<1>9. CASE TakeRequest \/ TakeStop \/ Decide \/ HookThrows \/ TakeRefused
  <2>1. PICK x \in States : SetControlState(x)
    <3>1. {"requesting", "stopped", "active", "denied"} \subseteq States
      BY DEF States
    <3> QED
      BY <1>0, <1>9, <3>1 DEF TakeRequest, TakeStop, Decide, HookThrows, TakeRefused,
                              StopControl, CaughtThrow
  <2> QED
    BY <2>1, Announced
<1>10. CASE TakeAction \/ Continue
  <2>1. UNCHANGED <<state, events>> \/ SetControlState(state)
    <3>1. UNCHANGED <<state, events>> \/ \E t : MakesCall(t) \/ CallRejects(t)
      BY <1>10, Zenon DEF TakeAction, Continue
    <3> QED
      BY <3>1, TellingCalls
  <2>2. UNCHANGED <<listens, vstate>>
    BY <1>10 DEF TakeAction, Continue, viewer, life
  <2>3. Answered(frames) => Answered(frames')
    <3>1. CASE TakeAction
      <4>1. frames # <<>> /\ frames' = Tail(frames) /\ Head(frames) \notin {"request", "stop"}
        BY <3>1 DEF TakeAction, Takes, Kinds
      <4> QED
        BY <1>0, <4>1, FramesPass
    <3>2. CASE Continue
      BY <3>2 DEF Continue
    <3> QED
      BY <1>10, <3>1, <3>2
  <2> QED
    BY <1>0, <1>1, <2>1, <2>2, <2>3, Announced
<1>11. CASE UNCHANGED vars
  BY <1>1, <1>11 DEF vars, viewer, life, consent
<1> QED
  BY <1>2, <1>3, <1>4, <1>5, <1>6, <1>7, <1>8, <1>9, <1>10, <1>11 DEF Next

(* Once every frame and event is delivered the viewer sees the state of an *)
(* adapter that listens: the changes a viewer makes before it is told, the *)
(* requests and stops that cross a decision and another viewer's frames    *)
(* leave no difference (setControlState in src/src/adapters/playwright.js).*)
THEOREM ViewerAlwaysAgrees == Spec => []ViewerAgrees
<1>1. Init => TypeOK /\ TasksOK /\ QuietOK /\ Told
  BY RemoteInit, QuietInit DEF Init, Told
<1>2. (TypeOK /\ TasksOK /\ QuietOK /\ Told) /\ [Next]_vars
        => (TypeOK /\ TasksOK /\ QuietOK /\ Told)'
  BY RemoteStep, QuietStep, ToldStep
<1>3. Told => ViewerAgrees
  BY DEF Told, ViewerAgrees, Answered
<1> QED
  BY <1>1, <1>2, <1>3, PTL DEF Spec

-----------------------------------------------------------------------------
(* The MV3 adapter.                                                        *)

HIDE RemoteAssumption
USE ExtensionAssumption

-----------------------------------------------------------------------------
(* The calls in flight.                                                    *)

InstallRead  == Read("install")
WatchdogRead == Read("watchdog")
Forwards == [op : {"set"}, intent : Intent, command : Command]
Restarts == [op : {"set"}, intent : Intent,
             command : [type : {"restart"}, tab : BOOLEAN]]

(* After the first: install() reads before anything else is asked for.     *)
Following == {WatchdogRead} \cup Forwards \cup Restarts
(* What a worker without an alarm has in flight.                           *)
Unalarmed == {InstallRead} \cup Forwards

QueueOK ==
  /\ calls \in Seq({InstallRead} \cup Following)
  /\ calls # <<>> => Tail(calls) \in Seq(Following)
  /\ Len(calls) <= MaxCalls

StateOK ==
  /\ alive \in BOOLEAN
  /\ sessionState \in Intent
  /\ stored \in Intent
  /\ alarm \in BOOLEAN
  /\ age \in 0 .. Period
  /\ content \in {"live", "paused", "off"}
  /\ wish \in BOOLEAN
  /\ raced \subseteq {"command", "request", "eviction"}

GapIsCovered ==
  /\ ~alive => calls = <<>>
  /\ ~alarm => calls \in Seq(Unalarmed)
  /\ (alive /\ stored.active /\ ~alarm) => (calls # <<>> /\ Head(calls) = InstallRead)

ExtensionInv == StateOK /\ QueueOK /\ GapIsCovered

-----------------------------------------------------------------------------
(* The kinds of call tell each other apart.                                *)
LEMMA CallKinds ==
  /\ InstallRead # WatchdogRead
  /\ InstallRead.op = "get" /\ WatchdogRead.op = "get"
  /\ InstallRead \notin Following
  /\ WatchdogRead \notin Unalarmed
  /\ \A t \in Forwards : t.op = "set" /\ t.intent \in Intent /\ t.command \in Command
                         /\ t.command.type # "restart"
  /\ \A t \in Restarts : t.op = "set" /\ t.intent \in Intent
                         /\ t.command.type = "restart"
<1>1. /\ InstallRead = [op |-> "get", of |-> "install"]
      /\ WatchdogRead = [op |-> "get", of |-> "watchdog"]
  BY DEF InstallRead, WatchdogRead, Read
<1>2. /\ InstallRead.op = "get" /\ InstallRead.of = "install"
      /\ WatchdogRead.op = "get" /\ WatchdogRead.of = "watchdog"
  BY <1>1
<1>3. \A t \in Forwards : t.op = "set" /\ t.intent \in Intent /\ t.command \in Command
                          /\ t.command.type # "restart"
  BY DEF Forwards, Command, Lifecycle
<1>4. \A t \in Restarts : t.op = "set" /\ t.intent \in Intent
                          /\ t.command.type = "restart"
  BY DEF Restarts
<1>5. InstallRead # WatchdogRead
  BY <1>2
<1>6. InstallRead \notin Following /\ WatchdogRead \notin Unalarmed
  BY <1>2, <1>3, <1>4, <1>5 DEF Following, Unalarmed
<1> QED
  BY <1>2, <1>3, <1>4, <1>5, <1>6

(* A queue of calls none of which is install()'s is well-formed.           *)
LEMMA TailOfFollowing ==
  ASSUME NEW q \in Seq(Following)
  PROVE  /\ q \in Seq({InstallRead} \cup Following)
         /\ q # <<>> => Tail(q) \in Seq(Following)
<1>1. q \in Seq({InstallRead} \cup Following)
  OBVIOUS
<1>2. q # <<>> => Tail(q) \in Seq(Following)
  BY HeadTailProperties
<1> QED
  BY <1>1, <1>2

(* The queue in the form WorkerTypeOK states it.                                 *)
LEMMA QueueIsTyped ==
  ASSUME QueueOK
  PROVE  \A i \in DOMAIN calls :
           \/ calls[i] = InstallRead /\ i = 1
           \/ calls[i] = WatchdogRead
           \/ calls[i].op = "set" /\ calls[i].intent \in Intent
<1> SUFFICES ASSUME NEW i \in DOMAIN calls
             PROVE  \/ calls[i] = InstallRead /\ i = 1
                    \/ calls[i] = WatchdogRead
                    \/ calls[i].op = "set" /\ calls[i].intent \in Intent
  OBVIOUS
<1>1. /\ calls \in Seq({InstallRead} \cup Following)
      /\ Len(calls) \in Nat /\ DOMAIN calls = 1 .. Len(calls)
  BY LenProperties DEF QueueOK
<1>2. calls[i] \in {InstallRead} \cup Following
  BY <1>1, ElementOfSeq
<1>3. CASE i = 1
  BY <1>2, <1>3, CallKinds DEF Following
<1>4. CASE i # 1
  <2>1. calls # <<>> /\ i - 1 \in 1 .. (Len(calls) - 1) /\ (i - 1) + 1 = i
    BY <1>1, <1>4
  <2>2. /\ Tail(calls) \in Seq(Following)
        /\ Len(Tail(calls)) = Len(calls) - 1
        /\ Tail(calls)[i - 1] = calls[i]
    BY <1>1, <2>1, HeadTailProperties DEF QueueOK
  <2>3. Tail(calls)[i - 1] \in Following
    BY <2>1, <2>2, ElementOfSeq
  <2> QED
    BY <2>2, <2>3, CallKinds DEF Following
<1> QED
  BY <1>3, <1>4

(* Queueing one more call keeps a queue well-formed and its head.          *)
LEMMA Queued ==
  ASSUME QueueOK, NEW t \in Following
  PROVE  /\ Append(calls, t) \in Seq({InstallRead} \cup Following)
         /\ Tail(Append(calls, t)) \in Seq(Following)
         /\ Append(calls, t) # <<>>
         /\ Len(Append(calls, t)) = Len(calls) + 1
         /\ calls # <<>> => Head(Append(calls, t)) = Head(calls)
<1>1. calls \in Seq({InstallRead} \cup Following) /\ t \in {InstallRead} \cup Following
  BY DEF QueueOK
<1>2. /\ Append(calls, t) \in Seq({InstallRead} \cup Following)
      /\ Append(calls, t) # <<>>
      /\ Len(Append(calls, t)) = Len(calls) + 1
  BY <1>1, AppendProperties
<1>3. /\ calls # <<>> => Head(Append(calls, t)) = Head(calls)
      /\ Tail(Append(calls, t)) = IF calls = <<>> THEN <<>> ELSE Append(Tail(calls), t)
  BY <1>1, HeadTailAppend
<1>4. calls # <<>> => Append(Tail(calls), t) \in Seq(Following)
  BY AppendProperties DEF QueueOK
<1>5. CASE calls = <<>>
  BY <1>2, <1>3, <1>5, EmptySeq
<1>6. CASE calls # <<>>
  BY <1>2, <1>3, <1>4, <1>6
<1> QED
  BY <1>5, <1>6

(* Serving the first call keeps a queue well-formed, and what a worker     *)
(* without an alarm may have in flight.                                    *)
LEMMA Served ==
  ASSUME QueueOK, calls # <<>>
  PROVE  /\ Head(calls) \in {InstallRead} \cup Following
         /\ Tail(calls) \in Seq(Following)
         /\ Tail(calls) \in Seq({InstallRead} \cup Following)
         /\ Tail(calls) # <<>> => Tail(Tail(calls)) \in Seq(Following)
         /\ Len(Tail(calls)) = Len(calls) - 1 /\ Len(calls) \in Nat
         /\ calls \in Seq(Unalarmed) =>
              Head(calls) \in Unalarmed /\ Tail(calls) \in Seq(Unalarmed)
<1>1. /\ calls \in Seq({InstallRead} \cup Following)
      /\ Tail(calls) \in Seq(Following)
  BY DEF QueueOK
<1>2. Head(calls) \in {InstallRead} \cup Following /\ Len(Tail(calls)) = Len(calls) - 1
  BY <1>1, HeadTailProperties
<1>3. Len(calls) \in Nat
  BY <1>1, LenProperties
<1>4. /\ Tail(calls) \in Seq({InstallRead} \cup Following)
      /\ Tail(calls) # <<>> => Tail(Tail(calls)) \in Seq(Following)
  BY <1>1, TailOfFollowing
<1>5. calls \in Seq(Unalarmed) =>
        Head(calls) \in Unalarmed /\ Tail(calls) \in Seq(Unalarmed)
  BY HeadTailProperties
<1> QED
  BY <1>1, <1>2, <1>3, <1>4, <1>5

(* The helpers of the handlers return intents and content states.          *)
LEMMA Helpers ==
  ASSUME StateOK, NEW command \in Command
  PROVE  /\ GetStreamIntent(command, sessionState) \in Intent
         /\ Write(GetStreamIntent(command, sessionState), command) \in Forwards
<1>1. GetStreamIntent(command, sessionState) \in Intent
  BY DEF StateOK, Intent, GetStreamIntent, Command
<1> QED
  BY <1>1 DEF Write, Forwards

LEMMA ForwardTyped ==
  ASSUME StateOK, NEW command, Forward(command)
  PROVE  content' \in {"live", "paused", "off"}
BY DEF StateOK, Forward, Obey

-----------------------------------------------------------------------------
LEMMA ExtensionInvInit == WorkerInit => ExtensionInv
<1> SUFFICES ASSUME WorkerInit PROVE ExtensionInv
  OBVIOUS
<1>0. age \in 0 .. Period
  BY DEF WorkerInit
<1>1. StateOK
  BY <1>0 DEF WorkerInit, StateOK, NoIntent, Intent
<1>2. QueueOK
  BY EmptySeq DEF WorkerInit, QueueOK
<1>3. GapIsCovered
  BY EmptySeq DEF WorkerInit, GapIsCovered
<1> QED
  BY <1>1, <1>2, <1>3 DEF ExtensionInv

LEMMA NewWorkersQueue ==
  /\ <<InstallRead>> \in Seq({InstallRead} \cup Following) /\ Tail(<<InstallRead>>) \in Seq(Following)
  /\ <<InstallRead>> \in Seq(Unalarmed)
  /\ <<InstallRead>> # <<>> /\ Len(<<InstallRead>>) = 1 /\ Head(<<InstallRead>>) = InstallRead
  /\ <<InstallRead, WatchdogRead>> \in Seq({InstallRead} \cup Following)
  /\ Tail(<<InstallRead, WatchdogRead>>) \in Seq(Following)
  /\ Len(<<InstallRead, WatchdogRead>>) = 2
<1>1. InstallRead \in Unalarmed /\ WatchdogRead \in Following
  BY DEF Unalarmed, Following
<1>2. Tail(<<InstallRead>>) = <<>> /\ Tail(<<InstallRead, WatchdogRead>>) = <<WatchdogRead>>
  OBVIOUS
<1>3. <<>> \in Seq(Following) /\ <<WatchdogRead>> \in Seq(Following)
  BY <1>1
<1> QED
  BY <1>1, <1>2, <1>3

(* The browser's and the browser-driven steps that fill an empty queue.    *)
LEMMA WakeStep ==
  ASSUME ExtensionInv, WakeForMessage
  PROVE  ExtensionInv'
<1>1. StateOK'
  BY DEF ExtensionInv, WakeForMessage, StateOK, NoIntent, Intent
<1>2. calls' = <<InstallRead>> /\ alarm' = alarm
  BY DEF WakeForMessage, InstallRead
<1>3. QueueOK'
  BY <1>2, NewWorkersQueue DEF QueueOK
<1>4. GapIsCovered'
  BY <1>2, NewWorkersQueue DEF GapIsCovered, WakeForMessage
<1> QED
  BY <1>1, <1>3, <1>4 DEF ExtensionInv

LEMMA AlarmStep ==
  ASSUME ExtensionInv, Alarm
  PROVE  ExtensionInv'
<1>1. StateOK'
  BY DEF ExtensionInv, Alarm, RunWatchdog, StateOK, NoIntent, Intent
<1>2. alarm /\ alarm' = alarm /\ alive' = TRUE /\ Len(calls) < MaxCalls
  BY DEF Alarm, RunWatchdog
<1>3. GapIsCovered'
  BY <1>2 DEF GapIsCovered
<1>4. CASE alive
  <2>1. calls' = Append(calls, WatchdogRead)
    BY <1>4 DEF Alarm, RunWatchdog, WatchdogRead
  <2>2. WatchdogRead \in Following
    BY DEF Following
  <2>3. QueueOK
    BY DEF ExtensionInv
  <2>4. Len(calls) \in Nat
    BY <2>3, LenProperties DEF QueueOK
  <2>5. QueueOK'
    BY <1>2, <2>1, <2>2, <2>3, <2>4, Queued DEF QueueOK
  <2> QED
    BY <1>1, <1>3, <2>5 DEF ExtensionInv
<1>5. CASE ~alive
  <2>1. calls' = <<InstallRead, WatchdogRead>>
    BY <1>5 DEF Alarm, RunWatchdog, InstallRead, WatchdogRead
  <2>2. QueueOK'
    BY <2>1, NewWorkersQueue DEF QueueOK
  <2> QED
    BY <1>1, <1>3, <2>2 DEF ExtensionInv
<1> QED
  BY <1>4, <1>5

LEMMA ControlStep ==
  ASSUME ExtensionInv, NEW command \in Command, Control(command)
  PROVE  ExtensionInv'
<1> DEFINE next == GetStreamIntent(command, sessionState)
           task == Write(next, command)
<1>1. StateOK /\ QueueOK /\ GapIsCovered
  BY DEF ExtensionInv
<1>2. next \in Intent /\ task \in Forwards
  BY <1>1, Helpers
<1>3. /\ alive /\ alive' = alive /\ stored' = stored /\ alarm' = alarm
      /\ content' = content /\ Len(calls) < MaxCalls
      /\ sessionState' = next /\ calls' = Append(calls, task) /\ age' = age
  BY DEF Control
<1>4. wish' \in BOOLEAN /\ raced' \subseteq {"command", "request", "eviction"}
  <2>1. wish' \in BOOLEAN
    BY <1>1 DEF Control, StateOK
  <2>2. raced' \subseteq {"command", "request", "eviction"}
    BY <1>1 DEF Control, StateOK
  <2> QED
    BY <2>1, <2>2
<1>5. StateOK'
  BY <1>1, <1>2, <1>3, <1>4 DEF StateOK
<1>6. Len(calls) \in Nat
  BY <1>1, LenProperties DEF QueueOK
<1>7. task \in Following
  BY <1>2 DEF Following
<1>8. QueueOK'
  BY <1>1, <1>3, <1>6, <1>7, Queued DEF QueueOK
<1>9. GapIsCovered'
  <2>1. calls # <<>> => Head(calls') = Head(calls) /\ calls' # <<>>
    BY <1>1, <1>3, <1>7, Queued
  <2>2. ~alarm => calls' \in Seq(Unalarmed)
    BY <1>1, <1>2, <1>3, AppendProperties DEF GapIsCovered, Unalarmed
  <2> QED
    BY <1>1, <1>3, <2>1, <2>2 DEF GapIsCovered
<1> QED
  BY <1>5, <1>8, <1>9 DEF ExtensionInv

(* A continuation that queues nothing keeps the queue well-formed.         *)
LEMMA ServedQueue ==
  ASSUME QueueOK, calls # <<>>, calls' = Tail(calls)
  PROVE  QueueOK'
<1>1. /\ calls' \in Seq({InstallRead} \cup Following)
      /\ calls' # <<>> => Tail(calls') \in Seq(Following)
  BY Served
<1>2. Len(calls') <= MaxCalls
  BY Served DEF QueueOK
<1> QED
  BY <1>1, <1>2 DEF QueueOK

LEMMA RestoreStep ==
  ASSUME ExtensionInv, Restore
  PROVE  ExtensionInv'
<1>1. StateOK /\ QueueOK /\ GapIsCovered
  BY DEF ExtensionInv
<1>2. /\ calls # <<>> /\ calls' = Tail(calls)
      /\ alarm' = (alarm \/ stored.active)
      /\ alive' = alive /\ stored' = stored
  BY DEF Restore, ArmWatchdog
<1>3. StateOK'
  BY <1>1 DEF Restore, ArmWatchdog, StateOK, Intent
<1>4. QueueOK'
  BY <1>1, <1>2, ServedQueue
<1>5. GapIsCovered'
  <2>1. alive
    BY <1>1, <1>2 DEF GapIsCovered
  <2>2. ~alarm' => calls' \in Seq(Unalarmed)
    BY <1>1, <1>2, Served DEF GapIsCovered
  <2>3. ~(alive' /\ stored'.active /\ ~alarm')
    BY <1>2
  <2> QED
    BY <1>2, <2>1, <2>2, <2>3 DEF GapIsCovered
<1> QED
  BY <1>3, <1>4, <1>5 DEF ExtensionInv

(* The watchdog runs only under an alarm, and no continuation clears it.   *)
LEMMA RescueStep ==
  ASSUME ExtensionInv, Rescue
  PROVE  ExtensionInv'
<1> DEFINE task == Write(stored, [type |-> "restart", tab |-> stored.tab])
<1>1. StateOK /\ QueueOK /\ GapIsCovered
  BY DEF ExtensionInv
<1>2. /\ calls # <<>> /\ Head(calls) = WatchdogRead
      /\ calls' = Tail(calls) \o (IF stored.active THEN <<task>> ELSE <<>>)
      /\ alarm' = alarm /\ alive' = alive
  BY DEF Rescue, WatchdogRead
<1>3. alarm /\ alive
  BY <1>1, <1>2, Served, CallKinds DEF GapIsCovered, StateOK
<1>4. StateOK'
  BY <1>1 DEF Rescue, StateOK, Intent
<1>5. task \in Following
  BY <1>1 DEF StateOK, Intent, Write, Restarts, Following
<1>6. /\ Tail(calls) \in Seq(Following)
      /\ Len(Tail(calls)) = Len(calls) - 1 /\ Len(calls) \in Nat
      /\ Len(calls) <= MaxCalls
  BY <1>1, <1>2, Served DEF QueueOK
<1>7. calls' \in Seq(Following) /\ Len(calls') <= MaxCalls
  <2>1. CASE stored.active
    <3>1. calls' = Append(Tail(calls), task)
      BY <1>2, <1>5, <1>6, <2>1, AppendIsConcat
    <3> QED
      BY <1>5, <1>6, <3>1, AppendProperties
  <2>2. CASE ~stored.active
    <3>1. calls' = Tail(calls)
      BY <1>2, <1>6, <2>2, ConcatEmptySeq
    <3> QED
      BY <1>6, <3>1
  <2> QED
    BY <2>1, <2>2
<1>8. QueueOK'
  BY <1>7, TailOfFollowing DEF QueueOK
<1>9. GapIsCovered'
  BY <1>2, <1>3 DEF GapIsCovered
<1> QED
  BY <1>4, <1>8, <1>9 DEF ExtensionInv

LEMMA PersistedStep ==
  ASSUME ExtensionInv, Persisted
  PROVE  ExtensionInv'
<1>1. StateOK /\ QueueOK /\ GapIsCovered
  BY DEF ExtensionInv
<1>2. /\ calls # <<>> /\ calls' = Tail(calls) /\ Head(calls).op = "set"
      /\ alarm' = (alarm \/ Head(calls).intent.active)
      /\ stored' = Head(calls).intent
      /\ alive' = alive /\ sessionState' = sessionState
      /\ wish' = wish /\ raced' = raced /\ age' \in {0, age}
  BY DEF Persisted, Written, ArmWatchdog
<1>3. Head(calls).intent \in Intent
  BY <1>1, <1>2, Served, CallKinds DEF Following
<1>4. content' \in {"live", "paused", "off"}
  BY <1>1, ForwardTyped DEF Persisted
<1>5. StateOK'
  BY <1>1, <1>2, <1>3, <1>4 DEF StateOK, Intent
<1>6. QueueOK'
  BY <1>1, <1>2, ServedQueue
<1>7. GapIsCovered'
  <2>1. alive
    BY <1>1, <1>2 DEF GapIsCovered
  <2>2. ~alarm' => calls' \in Seq(Unalarmed)
    BY <1>1, <1>2, Served DEF GapIsCovered
  <2>3. ~(alive' /\ stored'.active /\ ~alarm')
    BY <1>2
  <2> QED
    BY <1>2, <2>1, <2>2, <2>3 DEF GapIsCovered
<1> QED
  BY <1>5, <1>6, <1>7 DEF ExtensionInv

LEMMA RescuePersistedStep ==
  ASSUME ExtensionInv, RescuePersisted
  PROVE  ExtensionInv'
<1>1. StateOK /\ QueueOK /\ GapIsCovered
  BY DEF ExtensionInv
<1>2. /\ calls # <<>> /\ calls' = Tail(calls) /\ Head(calls).op = "set"
      /\ Head(calls).command.type = "restart"
      /\ alarm' = alarm /\ stored' = Head(calls).intent
      /\ alive' = alive /\ sessionState' = sessionState
      /\ wish' = wish /\ raced' = raced /\ age' = age
  BY DEF RescuePersisted, Written
<1>3. Head(calls).intent \in Intent
  BY <1>1, <1>2, Served, CallKinds DEF Following
<1>4. content' \in {"live", "paused", "off"}
  BY <1>1, ForwardTyped DEF RescuePersisted
<1>5. StateOK'
  BY <1>1, <1>2, <1>3, <1>4 DEF StateOK
<1>6. QueueOK'
  BY <1>1, <1>2, ServedQueue
<1>7. alarm /\ alive
  <2>1. Head(calls) \notin Unalarmed
    BY <1>2, CallKinds DEF Unalarmed
  <2> QED
    BY <1>1, <1>2, <2>1, Served DEF GapIsCovered, StateOK
<1>8. GapIsCovered'
  BY <1>2, <1>7 DEF GapIsCovered
<1> QED
  BY <1>5, <1>6, <1>8 DEF ExtensionInv

LEMMA EvictStep ==
  ASSUME ExtensionInv, Evict
  PROVE  ExtensionInv'
<1>1. StateOK /\ QueueOK
  BY DEF ExtensionInv
<1>2. stored' \in Intent
  <2>1. CASE stored' = stored
    BY <1>1, <2>1 DEF StateOK
  <2>2. CASE \E i \in DOMAIN calls : calls[i].op = "set" /\ stored' = calls[i].intent
    <3>1. PICK i \in DOMAIN calls : calls[i].op = "set" /\ stored' = calls[i].intent
      BY <2>2
    <3> QED
      BY <1>1, <3>1, QueueIsTyped, CallKinds
  <2> QED
    BY <2>1, <2>2 DEF Evict
<1>3. calls' = <<>> /\ alive' = FALSE
  BY DEF Evict
<1>4. StateOK'
  <2>1. raced' \subseteq {"command", "request", "eviction"}
    BY <1>1 DEF Evict, StateOK
  <2> QED
    BY <1>1, <1>2, <2>1 DEF Evict, StateOK, NoIntent, Intent
<1>5. QueueOK'
  BY <1>3, EmptySeq DEF QueueOK
<1>6. GapIsCovered'
  BY <1>3, EmptySeq DEF GapIsCovered
<1> QED
  BY <1>4, <1>5, <1>6 DEF ExtensionInv

LEMMA StrandStep ==
  ASSUME ExtensionInv, Strand
  PROVE  ExtensionInv'
<1>1. StateOK'
  BY DEF ExtensionInv, Strand, workerVars, StateOK
<1>2. QueueOK' /\ GapIsCovered'
  BY DEF ExtensionInv, Strand, workerVars, QueueOK, GapIsCovered
<1> QED
  BY <1>1, <1>2 DEF ExtensionInv

LEMMA TickStep ==
  ASSUME ExtensionInv, Tick
  PROVE  ExtensionInv'
<1>1. StateOK'
  BY DEF ExtensionInv, Tick, StateOK
<1>2. QueueOK' /\ GapIsCovered'
  BY DEF ExtensionInv, Tick, QueueOK, GapIsCovered
<1> QED
  BY <1>1, <1>2 DEF ExtensionInv

-----------------------------------------------------------------------------
LEMMA ExtensionInvStep == ExtensionInv /\ [WorkerNext]_allVars => ExtensionInv'
<1> SUFFICES ASSUME ExtensionInv, [WorkerNext]_allVars PROVE ExtensionInv'
  OBVIOUS
<1>1. CASE WakeForMessage
  BY <1>1, WakeStep
<1>2. CASE Alarm
  BY <1>2, AlarmStep
<1>3. CASE \E command \in Command : Control(command)
  BY <1>3, ControlStep
<1>4. CASE Restore
  BY <1>4, RestoreStep
<1>5. CASE Rescue
  BY <1>5, RescueStep
<1>6. CASE Persisted
  BY <1>6, PersistedStep
<1>7. CASE RescuePersisted
  BY <1>7, RescuePersistedStep
<1>8. CASE Evict
  BY <1>8, EvictStep
<1>9. CASE Strand
  BY <1>9, StrandStep
<1>10. CASE Tick
  BY <1>10, TickStep
<1>11. CASE UNCHANGED allVars
  <2>1. StateOK'
    BY <1>11 DEF ExtensionInv, allVars, workerVars, StateOK
  <2>2. QueueOK' /\ GapIsCovered'
    BY <1>11 DEF ExtensionInv, allVars, workerVars, QueueOK, GapIsCovered
  <2> QED
    BY <2>1, <2>2 DEF ExtensionInv
<1> QED
  BY <1>1, <1>2, <1>3, <1>4, <1>5, <1>6, <1>7, <1>8, <1>9, <1>10, <1>11
     DEF WorkerNext

LEMMA ExtensionInvAlways == WorkerSpec => []ExtensionInv
BY ExtensionInvInit, ExtensionInvStep, PTL DEF WorkerSpec

(* The worker's state is well-typed and install()'s read is only ever the  *)
(* first call in flight, however evictions, alarms and commands interleave.*)
THEOREM ExtensionTypeCorrect == WorkerSpec => []WorkerTypeOK
<1>1. ExtensionInv => WorkerTypeOK
  <2> SUFFICES ASSUME ExtensionInv PROVE WorkerTypeOK
    OBVIOUS
  <2>1. StateOK /\ QueueOK
    BY DEF ExtensionInv
  <2>2. \A i \in DOMAIN calls :
          \/ calls[i] = Read("install") /\ i = 1
          \/ calls[i] = Read("watchdog")
          \/ calls[i].op = "set" /\ calls[i].intent \in Intent
    BY <2>1, QueueIsTyped DEF InstallRead, WatchdogRead
  <2> QED
    BY <2>1, <2>2 DEF WorkerTypeOK, StateOK, QueueOK
<1> QED
  BY <1>1, ExtensionInvAlways, PTL

(* A worker that has caught up with its storage calls holds the alarm for  *)
(* every stored stream, wherever evictions cut its handlers.               *)
THEOREM AlarmAlwaysCoversIntent == WorkerSpec => []AlarmCoversIntent
<1>1. ExtensionInv => AlarmCoversIntent
  BY DEF ExtensionInv, GapIsCovered, AlarmCoversIntent, Quiet
<1> QED
  BY <1>1, ExtensionInvAlways, PTL

-----------------------------------------------------------------------------
(* The intent of the last command.  IntentSurvives is about quiet workers; *)
(* before that, the intent is in the last write in flight: what follows    *)
(* that write only reads, or writes the intent it reads.                   *)

Unraced == wish /\ raced \cap {"request", "eviction"} = {}

(* Storage ends up with an active intent once the queue q is served.       *)
EndsActive(q, s) ==
  \/ \E i \in 1 .. Len(q) : /\ q[i].op = "set" /\ q[i].intent.active
                           /\ \A j \in i + 1 .. Len(q) : q[j].op # "set"
  \/ s.active /\ \A j \in 1 .. Len(q) : q[j].op # "set"

IntentIsOnItsWay == Unraced => EndsActive(calls, stored)

LEMMA EndsActiveQueued ==
  ASSUME NEW S, NEW q \in Seq(S), NEW t \in S, NEW s,
         \/ t.op = "set" /\ t.intent.active
         \/ t.op # "set" /\ EndsActive(q, s)
  PROVE  EndsActive(Append(q, t), s)
<1> DEFINE r == Append(q, t)
<1>1. /\ Len(r) = Len(q) + 1 /\ Len(q) \in Nat /\ r[Len(q) + 1] = t
      /\ \A i \in 1 .. Len(q) : r[i] = q[i]
  BY AppendProperties, LenProperties
<1> HIDE DEF r
<1>2. CASE t.op = "set" /\ t.intent.active
  <2>1. Len(q) + 1 \in 1 .. Len(r) /\ \A j \in Len(q) + 1 + 1 .. Len(r) : r[j].op # "set"
    BY <1>1
  <2> QED
    BY <1>1, <1>2, <2>1 DEF EndsActive, r
<1>3. CASE t.op # "set" /\ EndsActive(q, s)
  <2>1. ASSUME NEW i \in 0 .. Len(q), \A j \in i + 1 .. Len(q) : q[j].op # "set"
        PROVE  \A j \in i + 1 .. Len(r) : r[j].op # "set"
    <3>1. \A j \in i + 1 .. Len(r) : j \in i + 1 .. Len(q) \/ j = Len(q) + 1
      BY <1>1
    <3>2. \A j \in i + 1 .. Len(q) : r[j] = q[j]
      BY <1>1
    <3> QED
      BY <1>1, <1>3, <2>1, <3>1, <3>2
  <2>2. CASE \E i \in 1 .. Len(q) : /\ q[i].op = "set" /\ q[i].intent.active
                                   /\ \A j \in i + 1 .. Len(q) : q[j].op # "set"
    <3>1. PICK i \in 1 .. Len(q) : /\ q[i].op = "set" /\ q[i].intent.active
                                   /\ \A j \in i + 1 .. Len(q) : q[j].op # "set"
      BY <2>2
    <3>2. i \in 1 .. Len(r) /\ r[i] = q[i] /\ \A j \in i + 1 .. Len(r) : r[j].op # "set"
      BY <1>1, <2>1, <3>1
    <3> QED
      BY <3>1, <3>2 DEF EndsActive, r
  <2>3. CASE s.active /\ \A j \in 1 .. Len(q) : q[j].op # "set"
    <3>1. \A j \in 0 + 1 .. Len(r) : r[j].op # "set"
      <4>1. 0 \in 0 .. Len(q) /\ \A j \in 0 + 1 .. Len(q) : q[j].op # "set"
        BY <1>1, <2>3
      <4> QED
        BY <2>1, <4>1
    <3> QED
      BY <2>3, <3>1 DEF EndsActive, r
  <2> QED
    BY <1>3, <2>2, <2>3 DEF EndsActive
<1> QED
  BY <1>2, <1>3

(* The first call is served: a read changes nothing, a write leaves what   *)
(* it writes.                                                              *)
LEMMA EndsActiveServed ==
  ASSUME NEW S, NEW q \in Seq(S), q # <<>>, NEW s, EndsActive(q, s)
  PROVE  /\ Head(q).op # "set" => EndsActive(Tail(q), s)
         /\ Head(q).op = "set" => EndsActive(Tail(q), Head(q).intent)
<1> DEFINE r == Tail(q)
<1>1. /\ Len(r) = Len(q) - 1 /\ Len(q) \in Nat \ {0} /\ Head(q) = q[1]
      /\ \A i \in 1 .. Len(r) : r[i] = q[i + 1]
  BY HeadTailProperties, EmptySeq
<1> HIDE DEF r
<1>2. ASSUME NEW i \in 1 .. Len(q), \A j \in i + 1 .. Len(q) : q[j].op # "set"
      PROVE  \A j \in i .. Len(r) : r[j].op # "set"
  <2>1. \A j \in i .. Len(r) : j + 1 \in i + 1 .. Len(q) /\ r[j] = q[j + 1]
    BY <1>1
  <2> QED
    BY <1>2, <2>1
<1>3. CASE \E i \in 1 .. Len(q) : /\ q[i].op = "set" /\ q[i].intent.active
                                 /\ \A j \in i + 1 .. Len(q) : q[j].op # "set"
  <2>1. PICK i \in 1 .. Len(q) : /\ q[i].op = "set" /\ q[i].intent.active
                                 /\ \A j \in i + 1 .. Len(q) : q[j].op # "set"
    BY <1>3
  <2>2. CASE i = 1
    BY <1>1, <1>2, <2>1, <2>2 DEF EndsActive, r
  <2>3. CASE i # 1
    <3>1. i - 1 \in 1 .. Len(r) /\ r[i - 1] = q[i] /\ (i - 1) + 1 = i
      BY <1>1, <2>3
    <3>2. \A j \in (i - 1) + 1 .. Len(r) : r[j].op # "set"
      BY <1>2, <2>1, <3>1
    <3> QED
      BY <2>1, <3>1, <3>2 DEF EndsActive, r
  <2> QED
    BY <2>2, <2>3
<1>4. CASE s.active /\ \A j \in 1 .. Len(q) : q[j].op # "set"
  <2>1. 1 \in 1 .. Len(q) /\ \A j \in 1 + 1 .. Len(q) : q[j].op # "set"
    BY <1>1, <1>4
  <2>2. \A j \in 1 .. Len(r) : r[j].op # "set"
    BY <1>2, <2>1
  <2> QED
    BY <1>1, <1>4, <2>1, <2>2 DEF EndsActive, r
<1> QED
  BY <1>3, <1>4 DEF EndsActive

LEMMA EndsActiveAtRest ==
  ASSUME NEW s
  PROVE  /\ EndsActive(<<>>, s) <=> s.active
         /\ s.active => EndsActive(<<InstallRead>>, s) /\ EndsActive(<<InstallRead, WatchdogRead>>, s)
<1>1. /\ <<InstallRead>>[1].op # "set"
      /\ \A i \in 1 .. 2 : <<InstallRead, WatchdogRead>>[i].op # "set"
  BY CallKinds
<1> QED
  BY <1>1 DEF EndsActive

LEMMA IntentInit == WorkerInit => IntentIsOnItsWay
BY DEF WorkerInit, IntentIsOnItsWay, Unraced

LEMMA ControlKeepsIntent ==
  ASSUME ExtensionInv, IntentIsOnItsWay, NEW command \in Command, Control(command)
  PROVE  IntentIsOnItsWay'
<1> DEFINE next == GetStreamIntent(command, sessionState)
           task == Write(next, command)
<1>1. StateOK /\ QueueOK
  BY DEF ExtensionInv
<1>2. /\ task.op = "set" /\ task.intent = next /\ task \in {InstallRead} \cup Following
      /\ calls \in Seq({InstallRead} \cup Following)
      /\ calls' = Append(calls, task) /\ stored' = stored
  BY <1>1, Helpers DEF Control, Write, Following, QueueOK
<1>3. CASE command.type \in {"start", "resume"}
  <2>1. next.active
    BY <1>3 DEF GetStreamIntent
  <2>2. EndsActive(calls', stored)
    BY <1>2, <2>1, EndsActiveQueued
  <2> QED
    BY <1>2, <2>2 DEF IntentIsOnItsWay
<1>4. CASE command.type \in {"stop", "pause"}
  BY <1>4 DEF Control, IntentIsOnItsWay, Unraced
<1>5. CASE command.type = "request" /\ ~InStep
  BY <1>5 DEF Control, IntentIsOnItsWay, Unraced, Lifecycle
<1>6. CASE command.type = "request" /\ InStep
  <2>1. wish' = wish /\ raced' = raced /\ calls = <<>> /\ sessionState = stored
    BY <1>6 DEF Control, InStep, Quiet, Lifecycle
  <2>2. ASSUME Unraced PROVE EndsActive(calls', stored)
    <3>1. stored.active
      BY <2>1, <2>2, EndsActiveAtRest DEF IntentIsOnItsWay
    <3>2. next.active
      BY <1>6, <2>1, <3>1 DEF GetStreamIntent
    <3> QED
      BY <1>2, <3>2, EndsActiveQueued
  <2> QED
    BY <1>2, <2>1, <2>2 DEF IntentIsOnItsWay, Unraced
<1> QED
  BY <1>3, <1>4, <1>5, <1>6 DEF Command, Lifecycle

LEMMA RescueKeepsIntent ==
  ASSUME ExtensionInv, IntentIsOnItsWay, Rescue
  PROVE  IntentIsOnItsWay'
<1> DEFINE task == Write(stored, [type |-> "restart", tab |-> stored.tab])
<1>1. /\ calls \in Seq({InstallRead} \cup Following) /\ stored \in Intent
      /\ calls # <<>> /\ Head(calls).op # "set"
      /\ calls' = Tail(calls) \o (IF stored.active THEN <<task>> ELSE <<>>)
      /\ UNCHANGED <<stored, wish, raced>>
  BY CallKinds DEF ExtensionInv, StateOK, QueueOK, Rescue, WatchdogRead
<1>2. Tail(calls) \in Seq({InstallRead} \cup Following)
  BY <1>1, HeadTailProperties
<1>3. CASE stored.active
  <2>1. task.op = "set" /\ task.intent = stored /\ task \in {InstallRead} \cup Following
    BY <1>1 DEF Intent, Write, Restarts, Following
  <2>2. calls' = Append(Tail(calls), task)
    BY <1>1, <1>2, <1>3, <2>1, AppendIsConcat
  <2> HIDE DEF task
  <2>3. EndsActive(Append(Tail(calls), task), stored)
    BY <1>2, <1>3, <2>1, EndsActiveQueued
  <2> QED
    BY <1>1, <2>2, <2>3 DEF IntentIsOnItsWay
<1>4. CASE ~stored.active
  <2>1. calls' = Tail(calls)
    BY <1>1, <1>2, <1>4, ConcatEmptySeq
  <2> QED
    BY <1>1, <2>1, EndsActiveServed DEF IntentIsOnItsWay, Unraced
<1> QED
  BY <1>3, <1>4

LEMMA IntentStep == ExtensionInv /\ IntentIsOnItsWay /\ [WorkerNext]_allVars => IntentIsOnItsWay'
<1> SUFFICES ASSUME ExtensionInv, IntentIsOnItsWay, [WorkerNext]_allVars PROVE IntentIsOnItsWay'
  OBVIOUS
<1>0. /\ calls \in Seq({InstallRead} \cup Following)
      /\ ~alive => calls = <<>>
      /\ WatchdogRead \in {InstallRead} \cup Following /\ WatchdogRead.op # "set"
  BY CallKinds DEF ExtensionInv, QueueOK, GapIsCovered, Following
<1>1. CASE WakeForMessage
  <2>1. calls = <<>> /\ calls' = <<InstallRead>> /\ UNCHANGED <<stored, wish, raced>>
    BY <1>0, <1>1 DEF WakeForMessage, InstallRead
  <2> QED
    BY <2>1, EndsActiveAtRest DEF IntentIsOnItsWay, Unraced
<1>2. CASE Alarm
  <2>1. UNCHANGED <<stored, wish, raced>>
    BY <1>2 DEF Alarm, RunWatchdog
  <2>2. CASE alive
    <3>1. calls' = Append(calls, WatchdogRead)
      BY <1>2, <2>2 DEF Alarm, RunWatchdog, WatchdogRead
    <3> QED
      BY <1>0, <2>1, <3>1, EndsActiveQueued DEF IntentIsOnItsWay, Unraced
  <2>3. CASE ~alive
    <3>1. calls = <<>> /\ calls' = <<InstallRead, WatchdogRead>>
      BY <1>0, <1>2, <2>3 DEF Alarm, RunWatchdog, InstallRead, WatchdogRead
    <3> QED
      BY <2>1, <3>1, EndsActiveAtRest DEF IntentIsOnItsWay, Unraced
  <2> QED
    BY <2>2, <2>3
<1>3. CASE \E command \in Command : Control(command)
  BY <1>3, ControlKeepsIntent
<1>4. CASE Restore
  <2>1. /\ calls # <<>> /\ Head(calls).op # "set" /\ calls' = Tail(calls)
        /\ UNCHANGED <<stored, wish, raced>>
    BY <1>4, CallKinds DEF Restore, InstallRead
  <2> QED
    BY <1>0, <2>1, EndsActiveServed DEF IntentIsOnItsWay, Unraced
<1>5. CASE Rescue
  BY <1>5, RescueKeepsIntent
<1>6. CASE Persisted \/ RescuePersisted
  <2>1. /\ calls # <<>> /\ Head(calls).op = "set" /\ calls' = Tail(calls)
        /\ stored' = Head(calls).intent /\ UNCHANGED <<wish, raced>>
    BY <1>6 DEF Persisted, RescuePersisted, Written
  <2> QED
    BY <1>0, <2>1, EndsActiveServed DEF IntentIsOnItsWay, Unraced
<1>7. CASE Evict
  <2>1. CASE Quiet
    <3>1. UNCHANGED <<calls, stored, wish, raced>>
      <4>1. DOMAIN calls = {}
        BY <2>1 DEF Quiet
      <4> QED
        BY <1>7, <2>1, <4>1 DEF Evict, Quiet
    <3> QED
      BY <3>1 DEF IntentIsOnItsWay, Unraced
  <2>2. CASE ~Quiet
    BY <1>7, <2>2 DEF Evict, IntentIsOnItsWay, Unraced
  <2> QED
    BY <2>1, <2>2
<1>8. CASE Strand \/ Tick \/ UNCHANGED allVars
  BY <1>8 DEF Strand, Tick, allVars, workerVars, IntentIsOnItsWay, Unraced
<1> QED
  BY <1>1, <1>2, <1>3, <1>4, <1>5, <1>6, <1>7, <1>8 DEF WorkerNext

(* Lifecycle commands that overlap with each other, with install() and     *)
(* with the watchdog never lose the intent of the last of them: a quiet    *)
(* worker that was last told to stream has it stored, unless a viewer's    *)
(* request or an eviction came between (handleControl, handleWatchdog,     *)
(* writeSessionState in src/src/adapters/extension.js).                    *)
THEOREM IntentAlwaysSurvives == WorkerSpec => []IntentSurvives
<1>1. IntentIsOnItsWay => IntentSurvives
  BY EndsActiveAtRest DEF IntentIsOnItsWay, IntentSurvives, Unraced, Quiet
<1>2. WorkerSpec => []IntentIsOnItsWay
  BY IntentInit, IntentStep, ExtensionInvAlways, PTL DEF WorkerSpec
<1> QED
  BY <1>1, <1>2, PTL
=============================================================================
