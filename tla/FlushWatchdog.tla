--------------------------- MODULE FlushWatchdog ---------------------------
(***************************************************************************)
(* When the capture's pool is flushed: the animation frame the observer's  *)
(* callback asks for, and the watchdog that flushes a pool no frame has    *)
(* drained (src/capture/index.js, scheduleMutationFlush, flushMutations    *)
(* and the watchdog of startMutationStream).                               *)
(*                                                                         *)
(* CaptureSession says what a flush sends; here its actions are scheduled. *)
(* A frame is FrameBegin, the callbacks that were requested before it, and *)
(* FrameEnd.  The page may mutate itself in a frame callback of its own;   *)
(* the observer's microtask then runs between two callbacks of that frame. *)
(* Frames need never come: a hidden tab gets none.  Time is counted in     *)
(* ticks of WATCHDOG_TICK_MS and passes when the watchdog's timer fires,   *)
(* which may be late.                                                      *)
(***************************************************************************)
EXTENDS CaptureSession

CONSTANTS
  StaleTicks,    \* MUTATION_STALE_THRESHOLD_MS / WATCHDOG_TICK_MS
  TickLength     \* the lengths a tick may have, 1 when the timer is punctual

ASSUME WatchdogAssumption ==
  /\ StaleTicks \in Nat
  /\ TickLength \subseteq Nat \ {0}

VARIABLES
  batchTimer,       \* the requested frame callback: none, for the next frame,
                    \* or due in the frame being painted
  painting,         \* a frame is being painted
  armed,            \* watchdogTimer is set
  sinceDrain,       \* Date.now() - lastDrainTs, up to StaleTicks + 1
  staleFlushCount,
  waited,           \* history: how long the oldest pooled record has waited
  carried,          \* history: the pool when the last frame began
  disturbed         \* history: the observer has run inside this frame

timerVars    == <<batchTimer, painting, armed, sinceDrain, staleFlushCount>>
historyVars  == <<waited, carried, disturbed>>
scheduleVars == <<timerVars, historyVars>>
watchdogVars == <<captureVars, scheduleVars>>

Later(ticks, d) == IF ticks + d > StaleTicks THEN StaleTicks + 1 ELSE ticks + d

WatchdogInit ==
  /\ Init
  /\ batchTimer = "none"
  /\ painting = FALSE
  /\ armed = FALSE
  /\ sinceDrain = 0
  /\ staleFlushCount = 0
  /\ waited = 0
  /\ carried = {}
  /\ disturbed = FALSE

-----------------------------------------------------------------------------
(* The page, the observer and the frames.                                  *)

PageEdit == Edit /\ UNCHANGED scheduleVars

(* scheduleMutationFlush: a request still outstanding is cancelled and     *)
(* made anew, for the next frame.                                          *)
RequestFrame == batchTimer' = "next"

Drained == Diffs(pending) # {}

(* The tail of flushMutations, skipped when the batch yielded no op.       *)
CountAsDrain ==
  IF Drained THEN sinceDrain' = 0 /\ staleFlushCount' = 0
             ELSE UNCHANGED <<sinceDrain, staleFlushCount>>

CallbackAsDrain ==
  /\ ObserverCallback
  /\ RequestFrame
  /\ sinceDrain' = 0
  /\ waited' = IF pending = {} THEN 0 ELSE waited
  /\ disturbed' = (disturbed \/ painting)
  /\ UNCHANGED <<painting, armed, staleFlushCount, carried>>
Callback ==
  /\ ObserverCallback
  /\ RequestFrame
  /\ waited' = IF pending = {} THEN 0 ELSE waited
  /\ disturbed' = (disturbed \/ painting)
  /\ UNCHANGED <<painting, armed, sinceDrain, staleFlushCount, carried>>

FrameBegin ==
  /\ ~painting /\ queued = {}
  /\ painting' = TRUE
  /\ batchTimer' = IF batchTimer = "next" THEN "due" ELSE batchTimer
  /\ carried' = pending
  /\ disturbed' = FALSE
  /\ UNCHANGED <<captureVars, armed, sinceDrain, staleFlushCount, waited>>

FrameFlush ==
  /\ batchTimer = "due" /\ queued = {}
  /\ batchTimer' = "none"
  /\ Flush \/ (pending = {} /\ UNCHANGED captureVars)
  /\ CountAsDrain
  /\ UNCHANGED <<painting, armed, historyVars>>

FrameEnd ==
  /\ painting /\ batchTimer # "due" /\ queued = {}
  /\ painting' = FALSE
  /\ UNCHANGED <<captureVars, batchTimer, armed, sinceDrain, staleFlushCount,
                 historyVars>>

-----------------------------------------------------------------------------
(* The watchdog's timer fires and is set again.                            *)

TickCancellingFrame(d) ==
  /\ Later(sinceDrain, d) <= StaleTicks \/ pending = {}
  /\ batchTimer' = "none"
  /\ sinceDrain' = Later(sinceDrain, d)
  /\ waited' = IF pending = {} THEN 0 ELSE Later(waited, d)
  /\ UNCHANGED <<captureVars, painting, armed, staleFlushCount, carried, disturbed>>
Tick(d) ==
  /\ Later(sinceDrain, d) <= StaleTicks \/ pending = {}
  /\ sinceDrain' = Later(sinceDrain, d)
  /\ waited' = IF pending = {} THEN 0 ELSE Later(waited, d)
  /\ UNCHANGED <<captureVars, batchTimer, painting, armed, staleFlushCount,
                 carried, disturbed>>

(* A pool is flushed by force when the last drain is too long ago.         *)
RescueWithoutRearming(d) ==
  /\ Later(sinceDrain, d) > StaleTicks /\ pending # {}
  /\ Flush
  /\ batchTimer' = "none"
  /\ armed' = FALSE
  /\ sinceDrain' = IF Drained THEN 0 ELSE Later(sinceDrain, d)
  /\ staleFlushCount' = IF Drained THEN 0 ELSE staleFlushCount + 1
  /\ UNCHANGED <<painting, historyVars>>
Rescue(d) ==
  /\ Later(sinceDrain, d) > StaleTicks /\ pending # {}
  /\ Flush
  /\ batchTimer' = "none"
  /\ sinceDrain' = IF Drained THEN 0 ELSE Later(sinceDrain, d)
  /\ staleFlushCount' = IF Drained THEN 0 ELSE staleFlushCount + 1
  /\ UNCHANGED <<painting, armed, historyVars>>

WatchdogTick ==
  /\ armed /\ ~painting /\ queued = {}
  /\ \E d \in TickLength : Tick(d) \/ Rescue(d)

-----------------------------------------------------------------------------
(* The lifecycle.                                                          *)

(* startMutationStream counts from now and leaves a requested frame alone. *)
Arm ==
  /\ armed' = TRUE
  /\ sinceDrain' = 0
  /\ UNCHANGED <<painting, staleFlushCount, historyVars>>

(* stopMutationStream cancels the frame and the watchdog.                  *)
Disarm ==
  /\ armed' = FALSE
  /\ batchTimer' = "none"
  /\ UNCHANGED <<painting, sinceDrain, staleFlushCount, historyVars>>

HostStart ==
  /\ Start
  /\ batchTimer' = IF streaming THEN "none" ELSE batchTimer
  /\ Arm
HostResume == Resume /\ Arm /\ UNCHANGED batchTimer
HostStop   == Stop /\ Disarm
HostPause  == Pause /\ Disarm

-----------------------------------------------------------------------------
WatchdogNext ==
  \/ PageEdit
  \/ Callback
  \/ FrameBegin
  \/ FrameFlush
  \/ FrameEnd
  \/ WatchdogTick
  \/ HostStart
  \/ HostResume
  \/ HostStop
  \/ HostPause

(* The browser delivers records in the microtask of the task that made     *)
(* them, finishes a frame it began and fires timers.  It owes nobody a     *)
(* frame, and the host and the page owe nothing.                           *)
WatchdogFairness ==
  /\ WF_watchdogVars(Callback)
  /\ WF_watchdogVars(FrameFlush)
  /\ WF_watchdogVars(FrameEnd)
  /\ WF_watchdogVars(WatchdogTick)

WatchdogSpec ==
  WatchdogInit /\ [][WatchdogNext]_watchdogVars /\ WatchdogFairness

-----------------------------------------------------------------------------
(* A pool is never left without a frame to flush it: no path that clears   *)
(* batchTimer leaves records behind.                                       *)
PoolIsScheduled == pending # {} => batchTimer # "none"

(* No record outlives the staleness threshold in the pool by more than the *)
(* tick that finds it, though the watchdog compares the threshold with the *)
(* time since the last drain and not with the age of the pool, and flushes *)
(* without ops, pauses and resumes come in between.                        *)
NothingOverstays == pending # {} => waited <= StaleTicks

(* The mirror follows the page's frames as long as the page does not       *)
(* mutate itself inside them: what was pooled when a frame began has been  *)
(* flushed when it ends, whatever the watchdog and the host do meanwhile.  *)
QuietFramesFlush == (~painting /\ ~disturbed) => carried \cap pending = {}

(* Every record leaves the observer and the pool although frames may never *)
(* come: the watchdog alone drains the pool, again and again.              *)
EveryEditLeaves ==
  \A e \in 1 .. MaxEdits :
    e \in queued \cup pending ~> e \notin queued \cup pending
=============================================================================
