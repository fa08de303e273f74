------------------------------- MODULE Timers -------------------------------
(***************************************************************************)
(* One-shot timers: RunLoopLocal::schedule, Handle and RunLoopLocal::delay *)
(* over the four platform backends, on the run loop thread.                *)
(*                                                                         *)
(* Darwin, Win32 and Android keep the timers in a map and arm one native   *)
(* timer for the earliest; Linux gives each timer a GSource of its own.    *)
(* They differ in how the native timer is armed, in what a drain takes out *)
(* of the map before it runs the first callback, and in when they arm the  *)
(* native timer again.  A callback may schedule, cancel and block_on.      *)
(*                                                                         *)
(* Time is relative: a timer has the ticks left until it is due.           *)
(***************************************************************************)
EXTENDS Naturals, Sequences, FiniteSets, FiniteSetsExt

CONSTANTS
    Timers,         \* timer handles
    Delays,         \* delays to schedule with, in ticks
    Backends,       \* subset of {"darwin", "linux", "win32", "android"}
    MaxPosts        \* bound: callbacks posted

ASSUME TimersAssumption ==
    /\ IsFiniteSet(Timers)
    /\ IsFiniteSet(Delays)
    /\ Delays \subseteq Nat
    /\ Backends \subseteq {"darwin", "linux", "win32", "android"}
    /\ MaxPosts \in Nat

\* Not in the map; not armed.  Later than any delay.
Never == Max(Delays \union {0}) + 1

VARIABLES
    backend,
    left,           \* State::timers: ticks left, Never when not in the map
    native,         \* ticks until the native timer expires, Never when disarmed
    posts,          \* callbacks in the platform queue
    posted,         \* callbacks posted so far
    stack,          \* activations on the run loop thread, the innermost first
    life,           \* "unused", "pending", "cancelled" or "fired"
    held            \* timers whose Handle is held by user code

vars == <<backend, left, native, posts, posted, stack, life, held>>

\* A drain has n posted callbacks and a set of timers still to run; `timed` if it began with
\* the native timer.
Drain(n, ts, timed) == [kind |-> "drain", cbs |-> n, ts |-> ts, timed |-> timed]
User(t) == [kind |-> "user", of |-> {t}]
PostedUser == [kind |-> "user", of |-> {}]
Block(t) == [kind |-> "block", on |-> t]

Top(kind) == stack # <<>> /\ Head(stack).kind = kind
Frames(kind) == {i \in DOMAIN stack : stack[i].kind = kind}
Due == {t \in Timers : left[t] = 0}

\* User code is running; the thread is in the host's loop or in block_on's poll_once.
InUserCode == stack = <<>> \/ Top("user")
Pumping == stack = <<>> \/ Top("block")

-----------------------------------------------------------------------------
Earliest(timers) == Min({timers[t] : t \in Timers} \union {Never})

RearmDueDisarms(timers, callbacks) ==      \* variant: nothing left to wait disarms
    IF backend = "linux" \/ Earliest(timers) = 0 THEN Never ELSE Earliest(timers)

\* What arming the native timer for the earliest deadline comes to.  Darwin's schedule()
\* signals the source instead while callbacks are queued; timerfd_settime with nothing left
\* to wait disarms the descriptor, and an expiration not yet read is gone.
Rearm(timers, callbacks) ==
    CASE backend = "darwin" -> IF callbacks > 0 THEN Never ELSE Earliest(timers)
      [] backend = "win32" -> Earliest(timers)
      [] backend = "android" -> IF Earliest(timers) = 0 THEN Never ELSE Earliest(timers)
      [] backend = "linux" -> Never

Init ==
    /\ backend \in Backends
    /\ left = [t \in Timers |-> Never]
    /\ native = Never
    /\ posts = 0
    /\ posted = 0
    /\ stack = <<>>
    /\ life = [t \in Timers |-> "unused"]
    /\ held = {}

-----------------------------------------------------------------------------
(* User code. *)

\* schedule; the Handle is kept, or detached as delay() does.
Schedule(t, delay, keep) ==
    /\ InUserCode
    /\ life[t] = "unused"
    /\ left' = [left EXCEPT ![t] = delay]
    /\ native' = Rearm(left', posts)
    /\ life' = [life EXCEPT ![t] = "pending"]
    /\ held' = IF keep THEN held \union {t} ELSE held
    /\ UNCHANGED <<backend, posts, posted, stack>>

CancelKeepsTimer(t) ==             \* variant: unschedule does not take it from the map
    /\ InUserCode
    /\ t \in held
    /\ native' = Rearm(left, posts)
    /\ life' = [life EXCEPT ![t] = IF @ = "pending" THEN "cancelled" ELSE @]
    /\ held' = held \ {t}
    /\ UNCHANGED <<backend, left, posts, posted, stack>>

\* Handle::cancel or its Drop: unschedule, which arms the native timer anew even when the
\* timer is no longer in the map.
Cancel(t) ==
    /\ InUserCode
    /\ t \in held
    /\ left' = [left EXCEPT ![t] = Never]
    /\ native' = Rearm(left', posts)
    /\ life' = [life EXCEPT ![t] = IF @ = "pending" THEN "cancelled" ELSE @]
    /\ held' = held \ {t}
    /\ UNCHANGED <<backend, posts, posted, stack>>

\* block_on of a delay() that is under way; it is not nested.
StartBlockOn(t) ==
    /\ InUserCode
    /\ Frames("block") = {}
    /\ life[t] = "pending"
    /\ t \notin held
    /\ stack' = <<Block(t)>> \o stack
    /\ UNCHANGED <<backend, left, native, posts, posted, life, held>>

BlockReturn ==
    /\ Top("block")
    /\ life[Head(stack).on] # "pending"
    /\ stack' = Tail(stack)
    /\ UNCHANGED <<backend, left, native, posts, posted, life, held>>

\* A timer's or a posted callback returns.
FinishUser ==
    /\ Top("user")
    /\ stack' = Tail(stack)
    /\ UNCHANGED <<backend, left, native, posts, posted, life, held>>

-----------------------------------------------------------------------------
(* The platform loop dispatches. *)

\* Darwin, on_source or on_timer: callbacks and due timers leave the state together.
DarwinDrain ==
    /\ backend = "darwin"
    /\ Pumping
    /\ posts > 0 \/ native = 0
    /\ stack' = <<Drain(posts, Due, TRUE)>> \o stack
    /\ left' = [t \in Timers |-> IF t \in Due THEN Never ELSE left[t]]
    /\ native' = Never
    /\ posts' = 0
    /\ UNCHANGED <<backend, posted, life, held>>

\* WM_TIMER, which repeats until the timer is set again; Android's timerfd, which does not.
NativeTimer ==
    /\ backend \in {"win32", "android"}
    /\ Pumping
    /\ native = 0
    /\ native' = IF backend = "win32" THEN native ELSE Never
    /\ stack' = <<Drain(0, Due, TRUE)>> \o stack
    /\ UNCHANGED <<backend, left, posts, posted, life, held>>

\* WM_USER, the looper's pipe, a GSource: posted callbacks.
PostedCallbacks ==
    /\ backend # "darwin"
    /\ Pumping
    /\ posts > 0
    /\ LET n == IF backend = "linux" THEN 1 ELSE posts
       IN  /\ posts' = posts - n
           /\ stack' = <<Drain(n, {}, FALSE)>> \o stack
    /\ UNCHANGED <<backend, left, native, posted, life, held>>

\* Linux: the timer's own GSource.
LinuxTimer(t) ==
    /\ backend = "linux"
    /\ Pumping
    /\ left[t] = 0
    /\ left' = [left EXCEPT ![t] = Never]
    /\ life' = [life EXCEPT ![t] = "fired"]
    /\ stack' = <<User(t)>> \o stack
    /\ UNCHANGED <<backend, native, posts, posted, held>>

RunCallback ==
    /\ Top("drain")
    /\ Head(stack).cbs > 0
    /\ stack' = <<PostedUser, [Head(stack) EXCEPT !.cbs = @ - 1]>> \o Tail(stack)
    /\ UNCHANGED <<backend, left, native, posts, posted, life, held>>

\* The next timer of the drain, in the order of a hash map.  Darwin holds its closure
\* already; the others look it up again and skip it if it is gone.
RunTimer(t) ==
    /\ Top("drain")
    /\ Head(stack).cbs = 0
    /\ t \in Head(stack).ts
    /\ LET rest == [Head(stack) EXCEPT !.ts = @ \ {t}]
       IN  IF backend = "darwin" \/ left[t] # Never
           THEN /\ stack' = <<User(t), rest>> \o Tail(stack)
                /\ left' = [left EXCEPT ![t] = Never]
                /\ life' = [life EXCEPT ![t] = "fired"]
           ELSE /\ stack' = <<rest>> \o Tail(stack)
                /\ UNCHANGED <<left, life>>
    /\ UNCHANGED <<backend, native, posts, posted, held>>

EndDrainUnarmed ==                 \* variant: the next timer is not armed after a drain
    /\ Top("drain")
    /\ Head(stack).cbs = 0
    /\ Head(stack).ts = {}
    /\ stack' = Tail(stack)
    /\ UNCHANGED <<backend, left, native, posts, posted, life, held>>

\* Darwin arms the next timer if there is one; process_timers looks again for due timers
\* and arms the next.  A drain of posted callbacks leaves the timers alone.
EndDrain ==
    /\ Top("drain")
    /\ Head(stack).cbs = 0
    /\ Head(stack).ts = {}
    /\ stack' = IF Head(stack).timed /\ backend # "darwin" /\ Due # {}
                THEN <<Drain(0, Due, TRUE)>> \o Tail(stack)
                ELSE Tail(stack)
    /\ native' = IF Head(stack).timed /\ (backend = "darwin" => Earliest(left) # Never)
                 THEN Rearm(left, posts) ELSE native
    /\ UNCHANGED <<backend, left, posts, posted, life, held>>

-----------------------------------------------------------------------------
(* The outside. *)

\* Another thread posts a callback; Darwin's send goes through schedule().
Post ==
    /\ posted < MaxPosts
    /\ posted' = posted + 1
    /\ posts' = posts + 1
    /\ native' = IF backend = "darwin" THEN Rearm(left, posts') ELSE native
    /\ UNCHANGED <<backend, left, stack, life, held>>

\* Time goes by.
Elapse(n) == IF n \in {0, Never} THEN n ELSE n - 1

Tick ==
    /\ \E n \in {left[t] : t \in Timers} \union {native} : n \notin {0, Never}
    /\ left' = [t \in Timers |-> Elapse(left[t])]
    /\ native' = Elapse(native)
    /\ UNCHANGED <<backend, posts, posted, stack, life, held>>

-----------------------------------------------------------------------------
Dispatch ==
    \/ DarwinDrain \/ NativeTimer \/ PostedCallbacks
    \/ \E t \in Timers : LinuxTimer(t) \/ RunTimer(t)
    \/ RunCallback \/ EndDrain \/ BlockReturn

UserStep(own) ==
    \E t \in own :
        \/ \E delay \in Delays, keep \in BOOLEAN : Schedule(t, delay, keep)
        \/ Cancel(t)
        \/ StartBlockOn(t)

Next == Dispatch \/ UserStep(Timers) \/ FinishUser \/ Post \/ Tick

\* Time goes by; the thread pumps its loop, callbacks return, and a GSource that stays ready
\* is dispatched, also between others.
Fairness ==
    /\ WF_vars(Tick)
    /\ WF_vars(Dispatch \/ FinishUser)
    /\ \A t \in Timers : SF_vars(LinuxTimer(t))

Spec == Init /\ [][Next]_vars /\ Fairness

-----------------------------------------------------------------------------
(* Properties. *)

\* The shape of the state: what is in the map is pending, and block_on is not nested.
TypeOK ==
    /\ backend \in Backends
    /\ left \in [Timers -> 0 .. Never]
    /\ native \in 0 .. Never
    /\ posts \in 0 .. posted
    /\ posted \in 0 .. MaxPosts
    /\ \A i \in DOMAIN stack :
          \/ /\ stack[i].kind = "drain"
             /\ stack[i].cbs \in 0 .. MaxPosts
             /\ stack[i].ts \subseteq Timers
          \/ stack[i].kind = "user" /\ stack[i].of \subseteq Timers
          \/ stack[i].kind = "block" /\ stack[i].on \in Timers
    /\ Cardinality(Frames("block")) <= 1
    /\ life \in [Timers -> {"unused", "pending", "cancelled", "fired"}]
    /\ held \subseteq Timers
    /\ \A t \in Timers : left[t] # Never => life[t] = "pending"

\* When the thread is back in the host's loop, the earliest timer has a native timer that
\* expires no later, or Darwin's source will get to it (State::schedule, wake_up_at).
EarliestTimerArmed ==
    stack = <<>> /\ backend \in {"darwin", "win32"}
        => native <= Earliest(left) \/ (backend = "darwin" /\ posts > 0)

\* A timer that was cancelled fires only if it was one of those that a drain of Darwin's
\* had already taken, and then within that drain.
CancelIsFinal ==
    [][\A t \in Timers :
          life[t] = "cancelled" /\ life'[t] = "fired" =>
              backend = "darwin" /\ Top("drain") /\ t \in Head(stack).ts]_vars

\* What run_loop.rs says of schedule, of every backend: the callback is executed after
\* in_time, unless it is cancelled.
EveryTimerFires == \A t \in Timers : life[t] = "pending" ~> life[t] # "pending"
=============================================================================
