--------------------------- MODULE RemoteControl ---------------------------
(***************************************************************************)
(* Remote control of a driven page: the adapter of                         *)
(* src/adapters/playwright.js that asks its host for consent and replays   *)
(* a viewer's frames as input, and the viewer page of                      *)
(* examples/playwright-demo/viewer.js that sends them.                     *)
(*                                                                         *)
(* The transport's frames come in order and each starts a handler, but     *)
(* nothing waits for a handler to end: a request awaits the host's         *)
(* authorizeControl, a click awaits three driver calls, and further frames *)
(* are handled meanwhile.                                                  *)
(*                                                                         *)
(* Data abstraction.  An action is a click, the press or the release of    *)
(* one key, or a text, which stands for a scroll too; "bad" is a frame     *)
(* that fails validation.  The page keeps what is held down and counts     *)
(* the input it got.  Coordinates, counters, reasons and logs are left     *)
(* out, as is the stream the adapter forwards.                             *)
(***************************************************************************)
EXTENDS Naturals, Sequences, FiniteSets

CONSTANTS
  MaxRequests, \* bound: requests of the viewer
  MaxActions,  \* bound: actions, valid or not, of the viewer
  MaxNoise,    \* bound: frames of the room's other viewer
  MaxFailures  \* bound: driver calls that fail, hosts' hooks that throw

ASSUME RemoteAssumption ==
  MaxRequests \in Nat /\ MaxActions \in Nat /\ MaxNoise \in Nat /\ MaxFailures \in Nat

VARIABLES
  vstate,   \* viewer: controlState
  frames,   \* frames on their way to the adapter
  events,   \* REMOTE_CONTROL.STATE events on their way to the viewer
  driver,   \* what ensureCDPSession yields: "cdp" a session at once, "page"
            \* nothing at once, "asking" nothing after the host's factory answered
  install,  \* install(): "no", "waits" for the CDP session, "done"
  listens,  \* the adapter is subscribed to the transport
  disposed, \* disposed
  state,    \* controlState
  asking,   \* requests that wait for authorizeControl
  taken,    \* actions let in so far; each is a task with that number
  tasks,    \* tasks under way: their kind and the driver calls made
  held,     \* what the page holds down: the key (0), the button of a task
  input,    \* driver calls made so far
  failed,   \* history: tasks whose driver call failed
  requests, actions, noise, failures, \* counters of the bounds
  quiet     \* history: stopped or disposed with nothing under way, not asked since

viewer == <<vstate, requests, actions, noise>>
consent == <<state, asking>>
life == <<driver, install, listens, disposed>>
page == <<taken, tasks, held, input, failed, failures>>
vars == <<viewer, frames, events, life, consent, page, quiet>>

Kinds == {"click", "down", "up", "text", "bad"}
Idle == tasks = {} /\ asking = 0

-----------------------------------------------------------------------------
(* The viewer's page.                                                      *)

(* The viewer asks once it is live: the page streams after install().      *)
Request ==
  /\ requests < MaxRequests /\ vstate # "requesting" /\ install = "done"
  /\ requests' = requests + 1
  /\ vstate' = "requesting"
  /\ frames' = Append(frames, "request")
  /\ UNCHANGED <<actions, noise, events, life, consent, page, quiet>>

(* The stop button, and the escape key.                                    *)
StopPressed ==
  /\ vstate = "active"
  /\ vstate' = "stopped"
  /\ frames' = Append(frames, "stop")
  /\ UNCHANGED <<requests, actions, noise, events, life, consent, page, quiet>>

(* A click, a key or a text: sent only while the viewer sees itself in     *)
(* control.                                                                *)
Act ==
  /\ vstate = "active" /\ actions < MaxActions
  /\ actions' = actions + 1
  /\ \E k \in Kinds : frames' = Append(frames, k)
  /\ UNCHANGED <<vstate, requests, noise, events, life, consent, page, quiet>>

(* Another viewer of the room sends what it likes.                         *)
OtherViewer ==
  /\ noise < MaxNoise
  /\ noise' = noise + 1
  /\ \E k \in {"request", "stop", "click"} : frames' = Append(frames, k)
  /\ UNCHANGED <<vstate, requests, actions, events, life, consent, page, quiet>>

HearState ==
  /\ events # <<>>
  /\ events' = Tail(events)
  /\ vstate' = Head(events)
  /\ UNCHANGED <<requests, actions, noise, frames, life, consent, page, quiet>>

-----------------------------------------------------------------------------
(* install() and dispose().                                                *)

Install ==
  /\ install = "no"
  /\ install' = "waits"
  /\ UNCHANGED <<viewer, frames, events, driver, listens, disposed, consent, page, quiet>>

(* The awaits of install() are over: it subscribes, whether or not the     *)
(* adapter was disposed of meanwhile.                                      *)
Installed ==
  /\ install = "waits"
  /\ install' = "done" /\ listens' = TRUE
  /\ UNCHANGED <<viewer, frames, events, driver, disposed, consent, page, quiet>>

Dispose ==
  /\ ~disposed
  /\ disposed' = TRUE
  /\ listens' = FALSE
  /\ quiet' = (quiet \/ (Idle /\ install # "waits"))
  /\ UNCHANGED <<viewer, frames, events, driver, install, consent, page>>

(* The room delivers to a subscribed adapter only.                         *)
Unheard ==
  /\ frames # <<>> /\ ~listens
  /\ frames' = Tail(frames)
  /\ UNCHANGED <<viewer, events, life, consent, page, quiet>>

-----------------------------------------------------------------------------
(* Consent.                                                                *)

(* setControlState: every state, also one that did not change, is sent.    *)
SetControlState(s) == state' = s /\ events' = Append(events, s)

Takes(k) == listens /\ frames # <<>> /\ Head(frames) = k /\ frames' = Tail(frames)

TakeRequest ==
  /\ Takes("request")
  /\ asking' = asking + 1
  /\ SetControlState("requesting")
  /\ quiet' = FALSE
  /\ UNCHANGED <<viewer, life, page>>

(* authorizeControl resolves.                                              *)
Decide ==
  /\ asking > 0
  /\ asking' = asking - 1
  /\ \E answer \in {"active", "denied"} : SetControlState(answer)
  /\ UNCHANGED <<viewer, frames, life, page, quiet>>

(* authorizeControl throws: that is a denial.                              *)
UncaughtThrow == UNCHANGED <<state, events>>
CaughtThrow == SetControlState("denied")
HookThrows ==
  /\ asking > 0 /\ failures < MaxFailures
  /\ asking' = asking - 1 /\ failures' = failures + 1
  /\ CaughtThrow
  /\ UNCHANGED <<viewer, frames, life, taken, tasks, held, input, failed, quiet>>

SilentStop == state' = "stopped" /\ UNCHANGED events
StopControl == SetControlState("stopped")
TakeStop ==
  /\ Takes("stop")
  /\ StopControl
  /\ quiet' = (quiet \/ Idle)
  /\ UNCHANGED <<viewer, life, asking, page>>

-----------------------------------------------------------------------------
(* Actions.                                                                *)

(* dispatchRemoteAction lets an action in only while control is active.    *)
LetsAllIn == TRUE
LetsIn == state = "active"

TakeRefused ==
  /\ \E k \in Kinds : Takes(k) /\ (k = "bad" \/ ~LetsIn)
  /\ SetControlState(state)
  /\ UNCHANGED <<viewer, life, asking, page, quiet>>

(* The driver's calls for an action.  A click over CDP is three calls,     *)
(* each awaited; Playwright's own click is one.                            *)
Calls(kind) ==
  IF driver = "cdp" /\ kind = "click" THEN <<"move", "press", "release">> ELSE <<kind>>

Effect(call, id) ==
  CASE call = "press" -> held \cup {id}
    [] call = "release" -> held \ {id}
    [] call = "down" -> held \cup {0}
    [] call = "up" -> held \ {0}
    [] OTHER -> held

(* What is left of a task after a call, whatever became of the consent.    *)
LeftWhileActive(t) == IF state # "active" \/ t.step = Len(Calls(t.kind)) THEN {} ELSE {t}
Left(t) == IF t.step = Len(Calls(t.kind)) THEN {} ELSE {t}

(* The task's next driver call.  One that rejects ends the task; its       *)
(* handler's catch tells the viewer.                                       *)
MakesCall(t) ==
  LET call == Calls(t.kind)[t.step + 1]
  IN /\ held' = Effect(call, t.id) /\ input' = input + 1
     /\ tasks' = (tasks \ {t}) \cup Left([t EXCEPT !.step = @ + 1])
     /\ UNCHANGED <<failed, failures, state, events>>

CallRejects(t) ==
  /\ failures < MaxFailures /\ failures' = failures + 1
  /\ tasks' = tasks \ {t} /\ failed' = failed \cup {t.id}
  /\ SetControlState(state)
  /\ UNCHANGED <<held, input>>

(* The first call comes at once, unless the host's factory is asked first: *)
(* the task then waits, and does not look at the state again.              *)
TakeAction ==
  /\ \E k \in Kinds \ {"bad"} :
       /\ Takes(k) /\ LetsIn
       /\ LET t == [id |-> taken + 1, kind |-> k, step |-> 0]
          IN IF driver = "asking"
             THEN tasks' = tasks \cup {t} /\ UNCHANGED <<held, input, failed, failures, state, events>>
             ELSE MakesCall(t) \/ CallRejects(t)
  /\ taken' = taken + 1
  /\ UNCHANGED <<viewer, life, asking, quiet>>

Continue ==
  /\ \E t \in tasks : MakesCall(t) \/ CallRejects(t)
  /\ UNCHANGED <<viewer, frames, life, asking, taken, quiet>>

-----------------------------------------------------------------------------
Init ==
  /\ vstate = "locked" /\ frames = <<>> /\ events = <<>>
  /\ driver \in {"cdp", "page", "asking"}
  /\ install = "no" /\ listens = FALSE /\ disposed = FALSE
  /\ state = "locked" /\ asking = 0
  /\ taken = 0 /\ tasks = {} /\ held = {} /\ input = 0 /\ failed = {}
  /\ requests = 0 /\ actions = 0 /\ noise = 0 /\ failures = 0
  /\ quiet = FALSE

Next ==
  \/ Request \/ StopPressed \/ Act \/ OtherViewer \/ HearState
  \/ Install \/ Installed \/ Dispose \/ Unheard
  \/ TakeRequest \/ Decide \/ HookThrows \/ TakeStop
  \/ TakeRefused \/ TakeAction \/ Continue

(* Hosts answer, driver calls return and frames are delivered.             *)
Fairness == WF_vars(Decide) /\ WF_vars(Continue) /\ WF_vars(HearState)

Spec == Init /\ [][Next]_vars /\ Fairness

-----------------------------------------------------------------------------
(* A button the page holds down is that of a click still under way, or of  *)
(* one whose driver call failed: whatever stops or denies control between  *)
(* the press and the release, and however many clicks overlap, the button  *)
(* comes up.                                                               *)
ButtonsComeUp ==
  /\ held \ {0} \subseteq {t.id : t \in tasks} \cup failed
  /\ \A t \in tasks : Calls(t.kind)[1] = "move" => (t.id \in held <=> t.step = 2)

(* Once every frame and event is delivered the viewer sees the adapter's   *)
(* state: a viewer that changed its own state first, requests and stops    *)
(* that cross a decision, and another viewer's frames leave no difference. *)
(* A disposed adapter no longer answers.                                   *)
ViewerAgrees ==
  frames = <<>> /\ events = <<>> /\ listens => vstate = state

(* After a stop or a dispose that found nothing under way, no input        *)
(* reaches the page until control was requested anew.                      *)
QuietPage == [][quiet => input' = input]_vars

(* A request is decided, also when the host's hook throws: control never   *)
(* stays in "requesting", which would keep every viewer from asking again. *)
RequestsAreDecided == state = "requesting" ~> state # "requesting"
=============================================================================
