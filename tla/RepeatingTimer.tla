--------------------------- MODULE RepeatingTimer ---------------------------
(***************************************************************************)
(* run_loop_timer: a Timer that schedules its next tick after every one,   *)
(* on top of the one-shot timers of module Timers.  One repeating timer    *)
(* and the one-shot timers of other code share the run loop; the callback  *)
(* of a tick is user code and may stop, restart or drop the very timer, or *)
(* block_on.                                                               *)
(***************************************************************************)
EXTENDS Timers

CONSTANTS
    Ticks,          \* handles that the repeating timer uses, again and again
    Interval        \* in ticks of the clock

ASSUME RepeatingTimerAssumption == Ticks \subseteq Timers /\ Interval \in Delays

VARIABLES
    exists,         \* the Timer has not been dropped
    isRunning,      \* TimerInner::is_running
    current,        \* TimerInner::current_handle: a set of at most one handle
    executing       \* ticks whose callback is on the stack

timer == <<exists, isRunning, current, executing>>
all == <<vars, timer>>

RTInit ==
    /\ Init
    /\ exists = TRUE
    /\ isRunning = FALSE
    /\ current = {}
    /\ executing = {}

\* A tick has fired and its run_timer_tick is about to test is_running.
Entering == Top("user") /\ Head(stack).of \intersect (Ticks \ executing) # {}
Executing == Top("user") /\ Head(stack).of \intersect executing # {}
RTUserCode == InUserCode /\ ~Entering

\* A handle that neither the map nor a drain nor a frame knows any more.
Idle(t) ==
    /\ left[t] = Never
    /\ t \notin current
    /\ \A i \in Frames("drain") : t \notin stack[i].ts
    /\ \A i \in Frames("user") : t \notin stack[i].of
Fresh == IF \E t \in Ticks : Idle(t) THEN {CHOOSE t \in Ticks : Idle(t)} ELSE {}

\* The tick timers `scheduled` are scheduled and the current Handle is dropped, which
\* unschedules its timer if that is still in the map; `kept` is what current_handle becomes.
ReplaceHandle(scheduled, kept) ==
    /\ left' = [t \in Timers |->
                  IF t \in scheduled THEN Interval
                  ELSE IF t \in current THEN Never ELSE left[t]]
    /\ native' = IF scheduled \union current = {} THEN native ELSE Rearm(left', posts)
    /\ life' = [t \in Timers |->
                  IF t \in scheduled THEN "pending"
                  ELSE IF t \in current /\ life[t] = "pending" THEN "cancelled" ELSE life[t]]
    /\ current' = kept

Start ==
    /\ RTUserCode
    /\ exists
    /\ ~isRunning
    /\ Fresh # {}
    /\ isRunning' = TRUE
    /\ ReplaceHandle(Fresh, Fresh)
    /\ UNCHANGED <<backend, posts, posted, stack, held, exists, executing>>

\* stop(), and the Timer's Drop when it `remains` no longer.
Stop(remains) ==
    /\ RTUserCode
    /\ exists
    /\ exists' = remains
    /\ isRunning' = FALSE
    /\ ReplaceHandle({}, {})
    /\ UNCHANGED <<backend, posts, posted, stack, held, executing>>

\* run_timer_tick finds the timer dropped or stopped.
TickDiscarded ==
    /\ Entering
    /\ ~isRunning
    /\ stack' = Tail(stack)
    /\ UNCHANGED <<backend, left, native, posts, posted, life, held, timer>>

TickExecutes ==
    /\ Entering
    /\ isRunning
    /\ executing' = executing \union Head(stack).of
    /\ UNCHANGED <<vars, exists, isRunning, current>>

TickFinishesUnscheduled ==         \* variant: only a tick that was not restarted goes on
    /\ Executing
    /\ IF current \subseteq Head(stack).of
       THEN ReplaceHandle({}, {})
       ELSE UNCHANGED <<left, native, life, current>>
    /\ stack' = Tail(stack)
    /\ executing' = executing \ Head(stack).of
    /\ UNCHANGED <<backend, posts, posted, held, exists, isRunning>>

\* The callback returned: the next tick is scheduled, whatever the callback did to the
\* timer.  If it dropped it, the last tick on the stack drops TimerInner and with it the
\* handle it has just stored.
TickFinishes ==
    LET last == executing = Head(stack).of
    IN  /\ Executing
        /\ Fresh # {}
        /\ IF ~exists /\ last THEN ReplaceHandle({}, {}) ELSE ReplaceHandle(Fresh, Fresh)
        /\ stack' = Tail(stack)
        /\ executing' = executing \ Head(stack).of
        /\ UNCHANGED <<backend, posts, posted, held, exists, isRunning>>

\* What one-shot timers and the platform do, between the steps of run_timer_tick.
Others ==
    /\ UNCHANGED timer
    /\ \/ Dispatch \/ Post \/ Tick
       \/ RTUserCode /\ UserStep(Timers \ Ticks)
       \/ ~Entering /\ ~Executing /\ FinishUser

TimerStep == TickDiscarded \/ TickExecutes \/ TickFinishes

RTNext == Others \/ TimerStep \/ Start \/ Stop(TRUE) \/ Stop(FALSE)

LoopGoesOn == (UNCHANGED timer /\ (Dispatch \/ (~Entering /\ ~Executing /\ FinishUser))) \/ TimerStep

\* As in Timers; a tick's callback returns.
RTFairness ==
    /\ WF_all(UNCHANGED timer /\ Tick)
    /\ WF_all(LoopGoesOn)
    /\ \A t \in Timers \ Ticks : SF_all(UNCHANGED timer /\ LinuxTimer(t))
    /\ SF_all(UNCHANGED timer /\ \E t \in Ticks : LinuxTimer(t))

RTSpec == RTInit /\ [][RTNext]_all /\ RTFairness

-----------------------------------------------------------------------------
(* Properties. *)

\* The shape of the state.
RTTypeOK ==
    /\ TypeOK
    /\ exists \in BOOLEAN
    /\ isRunning \in BOOLEAN
    /\ current \subseteq Ticks
    /\ Cardinality(current) <= 1
    /\ executing \subseteq Ticks

\* However its callback stops and restarts it, a repeating timer never has two ticks in the
\* map: its rate does not double (start, run_timer_tick).
OneTickScheduled == Cardinality({t \in Ticks : left[t] # Never}) <= 1

\* A running timer has a tick to come: in the map and under its current handle, taken by a
\* drain, or with run_timer_tick on the stack, which will schedule the next.
RunningTimerHasTick ==
    isRunning =>
        \/ \E t \in current : left[t] # Never
        \/ \E i \in Frames("drain") : stack[i].ts \intersect Ticks # {}
        \/ \E i \in Frames("user") : stack[i].of \intersect Ticks # {}

\* A dropped timer leaves nothing scheduled once no tick of it is on the stack.
DroppedTimerIsGone ==
    ~exists /\ executing = {} => \A t \in Ticks : left[t] = Never

\* A repeating timer and its one tick belong together, whatever its callback does to it: the parts
\* above.
TicksInv == RTTypeOK /\ OneTickScheduled /\ RunningTimerHasTick /\ DroppedTimerIsGone

\* Linux and Win32: a timer fires unless it is cancelled, a one-shot timer beside a repeating one
\* and the tick of that, and so a running timer executes its callback (RunningTimerHasTick); also
\* while a callback dispatched with it drives the loop in block_on.
TimerFires ==
    \A t \in Timers :
        (backend \in {"linux", "win32"} /\ life[t] = "pending") ~> life[t] # "pending"
=============================================================================
