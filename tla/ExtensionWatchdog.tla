------------------------- MODULE ExtensionWatchdog -------------------------
(***************************************************************************)
(* The MV3 adapter of src/adapters/extension.js: a service worker that the *)
(* browser evicts at will, the stream intent it keeps in memory and in     *)
(* chrome.storage.session, and the alarm that restarts a stranded capture. *)
(*                                                                         *)
(* Every handler is asynchronous: it runs up to its storage call, and its  *)
(* continuation runs when storage answers, with whatever other handlers    *)
(* did in between.  Storage serves calls in order, so a call's effect and  *)
(* its continuation are one step; an eviction may cut the two apart.       *)
(*                                                                         *)
(* Data abstraction.  An intent is streamingActive and whether tabId is    *)
(* known (one tab); no intent behaves as the inactive one without a tab.   *)
(* The content script is live, paused or off; it obeys what reaches its    *)
(* tab, and what is sent without a tab id reaches no content script.  The  *)
(* stream frames the worker relays and media-hint discovery are left out.  *)
(***************************************************************************)
EXTENDS Naturals, Sequences

CONSTANTS
  MaxCalls,  \* bound: storage calls in flight
  Period     \* of the alarm, in ticks; arming may come between two ticks

ASSUME ExtensionAssumption == /\ MaxCalls \in Nat \ {0, 1}
                              /\ Period \in Nat \ {0, 1}

VARIABLES
  alive,         \* the worker runs, install() has been called
  sessionState,  \* the adapter's intent in memory
  stored,        \* the intent in chrome.storage.session
  alarm,         \* the watchdog alarm exists
  age,           \* ticks since the alarm was armed or last fired
  calls,         \* storage calls in flight, each with its continuation
  content,       \* what the content script's capture is doing
  wish,          \* history: the last lifecycle command asked for a stream
  raced          \* history: what has come to a worker with a storage call
                 \* in flight or a memory that differs from storage, since a
                 \* lifecycle command for a known tab last came to one in
                 \* step: "command", "request", "eviction"

workerVars == <<alive, sessionState, stored, alarm, age, calls>>
allVars == <<workerVars, content, wish, raced>>

Intent   == [active : BOOLEAN, tab : BOOLEAN]
NoIntent == [active |-> FALSE, tab |-> FALSE]

(* The controls; "request" is the viewer's subtree request.  A command     *)
(* names its tab, or comes from it, or neither.                            *)
Lifecycle == {"start", "stop", "pause", "resume"}
Command   == [type : Lifecycle \cup {"request"}, tab : BOOLEAN]

Quiet  == calls = <<>>
InStep == Quiet /\ sessionState = stored

(* A storage call and the continuation that awaits it: readSessionState of *)
(* install or handleWatchdog, or writeSessionState of a forwarded command. *)
Read(of) == [op |-> "get", of |-> of]
Write(intent, command) == [op |-> "set", intent |-> intent, command |-> command]

WorkerInit ==
  /\ alive = FALSE
  /\ sessionState = NoIntent
  /\ stored = NoIntent
  /\ alarm = FALSE
  /\ age = 0
  /\ calls = <<>>
  /\ content = "off"
  /\ wish = FALSE
  /\ raced = {}

-----------------------------------------------------------------------------
(* Helpers of the handlers.                                                *)

IntentOfTypeOnly(command, prior) ==
  [active |-> command.type \in {"start", "resume"},
   tab    |-> command.tab \/ prior.tab]
GetStreamIntent(command, prior) ==
  [active |-> \/ command.type \in {"start", "resume"}
              \/ command.type = "request" /\ prior.active,
   tab    |-> command.tab \/ prior.tab]

(* What the content script's capture makes of a command.                   *)
Obey(type, state) ==
  CASE type = "start"                       -> "live"
    [] type = "stop"                        -> "off"
    [] type = "pause"  /\ state = "live"    -> "paused"
    [] type = "resume" /\ state = "paused"  -> "live"
    [] OTHER                                -> state

(* armWatchdog: an alarm of the name there is already is replaced, and its *)
(* period starts again.                                                    *)
ArmWatchdog(wanted) ==
  /\ alarm' = (alarm \/ wanted)
  /\ age' = IF wanted THEN 0 ELSE age

(* forwardControlToContent: the tab is the command's own, or else the one  *)
(* known to memory by now.                                                 *)
Forward(command) ==
  content' = IF command.tab \/ sessionState.tab
             THEN Obey(command.type, content)
             ELSE content

-----------------------------------------------------------------------------
(* The handlers, up to their storage call.                                 *)

(* install() in a new worker: memory starts empty.                         *)
WakeForMessage ==
  /\ ~alive
  /\ alive' = TRUE
  /\ sessionState' = NoIntent
  /\ calls' = <<Read("install")>>
  /\ UNCHANGED <<stored, alarm, age, content, wish, raced>>

(* The alarm's event, which wakes an evicted worker: handleWatchdog.       *)
RunWatchdog ==
  /\ Len(calls) < MaxCalls
  /\ alive' = TRUE
  /\ sessionState' = IF alive THEN sessionState ELSE NoIntent
  /\ calls' = IF alive THEN Append(calls, Read("watchdog"))
                       ELSE <<Read("install"), Read("watchdog")>>
  /\ age' = 0
  /\ UNCHANGED <<stored, content, wish, raced>>

AlarmOnce ==
  /\ alarm /\ age = Period
  /\ RunWatchdog
  /\ alarm' = FALSE
(* The alarm is periodic: it fires a period after it was armed or fired.   *)
Alarm ==
  /\ alarm /\ age = Period
  /\ RunWatchdog
  /\ UNCHANGED alarm

(* handleControl: memory is written before the storage call is awaited.    *)
Control(command) ==
  /\ alive
  /\ Len(calls) < MaxCalls
  /\ LET next == GetStreamIntent(command, sessionState) IN
       /\ sessionState' = next
       /\ calls' = Append(calls, Write(next, command))
  /\ wish' = CASE command.type \in {"start", "resume"} -> TRUE
               [] command.type \in {"stop", "pause"}   -> FALSE
               [] OTHER                                -> wish
  /\ raced' = CASE ~InStep /\ command.type \in Lifecycle -> raced \cup {"command"}
                [] ~InStep                        -> raced \cup {"request"}
                [] command.type \in Lifecycle /\ sessionState'.tab -> {}
                [] OTHER                          -> raced
  /\ UNCHANGED <<alive, stored, alarm, age, content>>

-----------------------------------------------------------------------------
(* The continuations.                                                      *)

RestoreWithoutArming ==
  /\ calls # <<>> /\ Head(calls) = Read("install")
  /\ sessionState' = stored
  /\ calls' = Tail(calls)
  /\ UNCHANGED <<alive, stored, alarm, age, content, wish, raced>>
Restore ==
  /\ calls # <<>> /\ Head(calls) = Read("install")
  /\ sessionState' = stored
  /\ ArmWatchdog(stored.active)
  /\ calls' = Tail(calls)
  /\ UNCHANGED <<alive, stored, content, wish, raced>>

(* The watchdog asks for a fresh snapshot if streaming should be active.   *)
Rescue ==
  /\ calls # <<>> /\ Head(calls) = Read("watchdog")
  /\ sessionState' = stored
  /\ calls' = Tail(calls) \o
       (IF stored.active
        THEN <<Write(stored, [type |-> "restart", tab |-> stored.tab])>>
        ELSE <<>>)
  /\ UNCHANGED <<alive, stored, alarm, age, content, wish, raced>>

(* An intent is written; then the command it belongs to is forwarded.      *)
Written(task) ==
  /\ stored' = task.intent
  /\ calls' = Tail(calls)
  /\ UNCHANGED <<alive, sessionState, wish, raced>>

Persisted ==
  /\ calls # <<>> /\ Head(calls).op = "set"
  /\ Head(calls).command.type # "restart"
  /\ Written(Head(calls))
  /\ ArmWatchdog(Head(calls).intent.active)
  /\ Forward(Head(calls).command)

RescuePersisted ==
  /\ calls # <<>> /\ Head(calls).op = "set"
  /\ Head(calls).command.type = "restart"
  /\ Written(Head(calls))
  /\ Forward([Head(calls).command EXCEPT !.type = "start"])
  /\ UNCHANGED <<alarm, age>>

-----------------------------------------------------------------------------
(* The browser and the page.                                               *)

(* The worker is ended.  Of the calls under way the first few, in order,   *)
(* may still take effect: the last write among them stays.                 *)
Evict ==
  /\ alive
  /\ \/ stored' = stored
     \/ \E i \in DOMAIN calls : calls[i].op = "set" /\ stored' = calls[i].intent
  /\ alive' = FALSE
  /\ sessionState' = NoIntent
  /\ calls' = <<>>
  /\ raced' = IF Quiet THEN raced ELSE raced \cup {"eviction"}
  /\ UNCHANGED <<alarm, age, content, wish>>

(* The page reloads or its content script is wedged.                       *)
Strand ==
  /\ content # "off"
  /\ content' = "off"
  /\ UNCHANGED <<workerVars, wish, raced>>

(* Time passes, be the worker there or not.                                *)
Tick ==
  /\ alarm /\ age < Period
  /\ age' = age + 1
  /\ UNCHANGED <<alive, sessionState, stored, alarm, calls, content, wish, raced>>

-----------------------------------------------------------------------------
WorkerNext ==
  \/ WakeForMessage
  \/ Alarm
  \/ \E command \in Command : Control(command)
  \/ Restore
  \/ Rescue
  \/ Persisted
  \/ RescuePersisted
  \/ Evict
  \/ Strand
  \/ Tick

(* Storage answers, time passes, and an alarm that is due fires.  The      *)
(* strong form is for the bound on the calls in flight and for an arming   *)
(* in the very instant the alarm is due; it says nothing of an alarm that  *)
(* is armed again before it is due, and again.                             *)
WorkerFairness ==
  /\ WF_allVars(Tick)
  /\ SF_allVars(Alarm)
  /\ WF_allVars(Restore \/ Rescue \/ Persisted \/ RescuePersisted)

WorkerSpec == WorkerInit /\ [][WorkerNext]_allVars /\ WorkerFairness

-----------------------------------------------------------------------------
WorkerTypeOK ==
  /\ alive \in BOOLEAN
  /\ sessionState \in Intent
  /\ stored \in Intent
  /\ alarm \in BOOLEAN
  /\ age \in 0..Period
  /\ Len(calls) <= MaxCalls
  /\ \A i \in DOMAIN calls :
       \/ calls[i] = Read("install") /\ i = 1
       \/ calls[i] = Read("watchdog")
       \/ calls[i].op = "set" /\ calls[i].intent \in Intent
  /\ content \in {"live", "paused", "off"}
  /\ wish \in BOOLEAN
  /\ raced \subseteq {"command", "request", "eviction"}

(* A worker that has caught up never holds a stored stream without the     *)
(* alarm to recover it, even when earlier workers were ended between       *)
(* writing the intent and arming the alarm.                                *)
AlarmCoversIntent == (alive /\ Quiet /\ stored.active) => alarm

(* Only a STOP or PAUSE ends the recovery: lifecycle commands that overlap *)
(* with each other, with install() and with the watchdog never erase the   *)
(* intent of the last command; nor do requests while nothing has raced.    *)
IntentSurvives ==
  (Quiet /\ wish /\ raced \cap {"request", "eviction"} = {}) => stored.active

(* Every install() under a stored stream and every control under an active *)
(* intent, the viewer's subtree requests among them, puts the alarm off.   *)
(* Coming faster than the period, they keep it from ever being due.        *)
PutOffForever == <>[](alarm /\ age < Period)

(* A capture that strands under an active intent is restarted, however     *)
(* often the worker is evicted and the page strands, unless wake-ups or    *)
(* requests put the alarm off for ever.                                    *)
StrandRecovers ==
  \/ PutOffForever
  \/ (stored.active /\ stored.tab /\ content = "off" /\ raced = {})
       ~> (content = "live" \/ ~stored.active \/ raced # {})
=============================================================================
