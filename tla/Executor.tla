------------------------------ MODULE Executor ------------------------------
(***************************************************************************)
(* The executor of crates/run_loop: spawned tasks (task.rs), their join    *)
(* handles and RunLoopLocal::block_on (run_loop.rs), on the one thread     *)
(* that owns the run loop.  Everything a task does goes through the        *)
(* platform queue: a wake is a closure sent to the loop, and the closure   *)
(* polls the task.                                                         *)
(*                                                                         *)
(* The thread is a stack of activations: a drain of the queue, in it a     *)
(* poll or a posted callback, in a callback a block_on that drives the     *)
(* queue again.  Background threads post callbacks, fire the events that   *)
(* futures wait for and wake wakers that were kept too long.               *)
(*                                                                         *)
(* A future is what its polls do: spawn, abort or await a task it holds    *)
(* the handle of, wait for an event, yield, finish, panic.                 *)
(***************************************************************************)
EXTENDS Naturals, Sequences

CONSTANTS
    Tasks,          \* tasks that may be spawned
    Main,           \* the code of the run loop thread outside tasks; the block_on future
    Ext,            \* an event from outside the executor
    Stale,          \* the waker of a block_on that has returned
    NoOne,
    Backends,       \* subset of BOOLEAN: does a drain take the whole queue into a local list
                    \* first (Darwin, Win32, Android) or one closure at a time (Linux)
    TimedWaits,     \* subset of BOOLEAN: may block_on give up a handle when an event comes first
    MaxCallbacks,   \* bound: callbacks posted
    MaxBlocks,      \* bound: calls of block_on
    MaxRewakes      \* bound: redundant wakes

ASSUME ExecutorAssumption ==
    /\ {Main, Ext, Stale, NoOne} \intersect Tasks = {}
    /\ NoOne \notin {Main, Ext, Stale}
    /\ Backends \subseteq BOOLEAN
    /\ TimedWaits \subseteq BOOLEAN
    /\ MaxCallbacks \in Nat
    /\ MaxBlocks \in Nat
    /\ MaxRewakes \in Nat

VARIABLES
    batch,          \* the backend: TRUE takes the whole queue at once
    queue,          \* the platform queue: closures in the order sent
    stack,          \* activations on the run loop thread, the innermost first
    fut,            \* Task::future: "unspawned", "live", "done" (completed), "dropped"
    value,          \* Task::value: "none", "ok" or "panic"
    aborted,        \* Task::aborted
    joinWaker,      \* Task::waker: the task or block_on to wake
    handle,         \* who holds the JoinHandle
    waits,          \* what the last poll was pending on: Ext, a task, NoOne when runnable
    blockPhase,     \* block_on: "none", "check" (take_queued), "poll", "pump" (poll_once)
    blockOn,        \* block_on: the task whose handle it awaits, Ext, or NoOne
    blockTimed,     \* block_on: the event ends the wait for the handle as well
    blockQueued,    \* BlockOnWaker::queued
    blockExt,       \* block_on: its event: "idle", "armed" (waker kept) or "fired"
    sending,        \* wakes between BlockOnWaker's swap of `queued` and its send
    down,           \* the run loop has shut down
    posted,         \* callbacks posted so far
    blocks,         \* calls of block_on so far
    rewakes         \* redundant wakes so far

tasks == <<fut, value, aborted, joinWaker, handle, waits>>
block == <<blockPhase, blockOn, blockTimed, blockQueued, blockExt>>
outside == <<batch, sending, down, posted, blocks, rewakes>>
vars == <<queue, stack, tasks, block, outside>>

Wake(t) == <<"wake", t>>
Callback == <<"callback", Main>>
Nudge == <<"nudge", Main>>
Closures == {Wake(t) : t \in Tasks} \union {Callback, Nudge}

BatchFrame(cs) == [kind |-> "batch", left |-> cs]
PollFrame(t) == [kind |-> "poll", task |-> t]
CallbackFrame == [kind |-> "callback"]
BlockFrame == [kind |-> "block"]

Entries(s) == {s[i] : i \in DOMAIN s}

-----------------------------------------------------------------------------
(* Derived state. *)

Top(kind) == stack # <<>> /\ Head(stack).kind = kind
Polling(t) == Top("poll") /\ Head(stack).task = t
Frames(kind) == {i \in DOMAIN stack : stack[i].kind = kind}

\* User code of agent a is running: the host or a callback, or the poll of a task.
Running(a) ==
    IF a = Main THEN stack = <<>> \/ Top("callback") ELSE Polling(a) /\ fut[a] = "live"

\* A wake of t is queued, or in a drain's local list.
Scheduled(t) ==
    \/ Wake(t) \in Entries(queue)
    \/ \E i \in Frames("batch") : Wake(t) \in Entries(stack[i].left)

\* JoinHandle::poll of t returns Ready.
Resolved(t) == aborted[t] \/ value[t] # "none"

\* RunLoopSender::send to this loop.
Send(cs) == queue' = IF down THEN queue ELSE queue \o cs

-----------------------------------------------------------------------------
Init ==
    /\ batch \in Backends
    /\ queue = <<>>
    /\ stack = <<>>
    /\ fut = [t \in Tasks |-> "unspawned"]
    /\ value = [t \in Tasks |-> "none"]
    /\ aborted = [t \in Tasks |-> FALSE]
    /\ joinWaker = [t \in Tasks |-> NoOne]
    /\ handle = [t \in Tasks |-> NoOne]
    /\ waits = [t \in Tasks |-> NoOne]
    /\ blockPhase = "none"
    /\ blockOn = NoOne
    /\ blockTimed = FALSE
    /\ blockQueued = FALSE
    /\ blockExt = "idle"
    /\ sending = 0
    /\ down = FALSE
    /\ posted = 0
    /\ blocks = 0
    /\ rewakes = 0

-----------------------------------------------------------------------------
(* The platform loop. *)

DrainOnlyAtTop ==                  \* variant: block_on does not drive the queue
    /\ queue # <<>>
    /\ stack = <<>>
    /\ stack' = <<BatchFrame(IF batch THEN queue ELSE <<Head(queue)>>)>> \o stack
    /\ queue' = IF batch THEN <<>> ELSE Tail(queue)
    /\ UNCHANGED <<tasks, block, outside>>

\* The host, run() or block_on's poll_once pumps the platform loop.
Drain ==
    /\ queue # <<>>
    /\ stack = <<>> \/ (Top("block") /\ blockPhase = "pump")
    /\ stack' = <<BatchFrame(IF batch THEN queue ELSE <<Head(queue)>>)>> \o stack
    /\ queue' = IF batch THEN <<>> ELSE Tail(queue)
    /\ UNCHANGED <<tasks, block, outside>>

EndBatch ==
    /\ Top("batch")
    /\ Head(stack).left = <<>>
    /\ stack' = Tail(stack)
    /\ blockPhase' = IF blockPhase = "pump" THEN "check" ELSE blockPhase
    /\ UNCHANGED <<queue, tasks, blockOn, blockTimed, blockQueued, blockExt, outside>>

NextClosure == Top("batch") /\ Head(stack).left # <<>>
Closure == Head(Head(stack).left)
Rest == <<BatchFrame(Tail(Head(stack).left))>> \o Tail(stack)

NotifyJoinerUnqueued(t) ==         \* variant: BlockOnWaker sends without setting `queued`
    /\ joinWaker' = [joinWaker EXCEPT ![t] = NoOne]
    /\ Send(CASE joinWaker[t] \in Tasks -> <<Wake(joinWaker[t])>>
              [] joinWaker[t] = Main /\ ~blockQueued -> <<Nudge>>
              [] OTHER -> <<>>)
    /\ UNCHANGED blockQueued

\* The waker a JoinHandle left with the task is taken and woken: a wake of the joining
\* task, or BlockOnWaker's, which sends an empty callback unless one is under way.
NotifyJoiner(t) ==
    /\ joinWaker' = [joinWaker EXCEPT ![t] = NoOne]
    /\ Send(CASE joinWaker[t] \in Tasks -> <<Wake(joinWaker[t])>>
              [] joinWaker[t] = Main /\ ~blockQueued -> <<Nudge>>
              [] OTHER -> <<>>)
    /\ blockQueued' = (blockQueued \/ joinWaker[t] = Main)

\* The closure of a wake polls the task unless it has a value or is aborted.
RunWake(t) ==
    /\ NextClosure
    /\ Closure = Wake(t)
    /\ value[t] = "none"
    /\ ~aborted[t]
    /\ stack' = <<PollFrame(t)>> \o Rest
    /\ waits' = [waits EXCEPT ![t] = NoOne]
    /\ UNCHANGED <<queue, fut, value, aborted, joinWaker, handle, block, outside>>

\* Otherwise it only wakes whoever joined meanwhile.
RunRedundantWake(t) ==
    /\ NextClosure
    /\ Closure = Wake(t)
    /\ Resolved(t)
    /\ stack' = Rest
    /\ NotifyJoiner(t)
    /\ UNCHANGED <<fut, value, aborted, handle, waits, blockPhase, blockOn, blockTimed,
                   blockExt, outside>>

\* A posted callback is skipped when current_local() fails.
RunCallback ==
    /\ NextClosure
    /\ Closure = Callback
    /\ stack' = (IF down THEN <<>> ELSE <<CallbackFrame>>) \o Rest
    /\ UNCHANGED <<queue, tasks, block, outside>>

RunNudge ==
    /\ NextClosure
    /\ Closure = Nudge
    /\ stack' = Rest
    /\ UNCHANGED <<queue, tasks, block, outside>>

FinishCallback ==
    /\ Top("callback")
    /\ stack' = Tail(stack)
    /\ UNCHANGED <<queue, tasks, block, outside>>

-----------------------------------------------------------------------------
(* Task::poll, by what the future does in it. *)

PollFinishUnnoticed(t, result) ==  \* variant: the joiner's waker is left where it is
    /\ Polling(t)
    /\ fut[t] = "live"
    /\ fut' = [fut EXCEPT ![t] = "done"]
    /\ value' = [value EXCEPT ![t] = result]
    /\ stack' = Tail(stack)
    /\ UNCHANGED <<queue, aborted, joinWaker, handle, waits, block, outside>>

\* Ready, or a panic, which is caught and kept as the result.
PollFinish(t, result) ==
    /\ Polling(t)
    /\ fut[t] = "live"
    /\ fut' = [fut EXCEPT ![t] = "done"]
    /\ value' = [value EXCEPT ![t] = result]
    /\ stack' = Tail(stack)
    /\ NotifyJoiner(t)
    /\ UNCHANGED <<aborted, handle, waits, blockPhase, blockOn, blockTimed, blockExt, outside>>

\* The future had completed and its value has been taken: an async block panics when it
\* is polled again.
PollAgain(t) ==
    /\ Polling(t)
    /\ fut[t] = "done"
    /\ value' = [value EXCEPT ![t] = "panic"]
    /\ stack' = Tail(stack)
    /\ NotifyJoiner(t)
    /\ UNCHANGED <<fut, aborted, handle, waits, blockPhase, blockOn, blockTimed, blockExt,
                   outside>>

\* Pending on an event that keeps the task's waker.
PollPend(t) ==
    /\ Polling(t)
    /\ fut[t] = "live"
    /\ waits' = [waits EXCEPT ![t] = Ext]
    /\ stack' = Tail(stack)
    /\ UNCHANGED <<queue, fut, value, aborted, joinWaker, handle, block, outside>>

\* Pending after waking itself.
PollYield(t) ==
    /\ Polling(t)
    /\ fut[t] = "live"
    /\ Send(<<Wake(t)>>)
    /\ stack' = Tail(stack)
    /\ UNCHANGED <<tasks, block, outside>>

\* JoinHandle::poll of u, ready: the value is taken and the future goes on.
PollJoined(t, u) ==
    /\ Polling(t)
    /\ fut[t] = "live"
    /\ handle[u] = t
    /\ Resolved(u)
    /\ value' = IF aborted[u] THEN value ELSE [value EXCEPT ![u] = "none"]
    /\ handle' = [handle EXCEPT ![u] = NoOne]
    /\ UNCHANGED <<queue, stack, fut, aborted, joinWaker, waits, block, outside>>

PollJoinUnregistered(t, u) ==      \* variant: pending, but no waker is left with u
    /\ Polling(t)
    /\ fut[t] = "live"
    /\ handle[u] = t
    /\ ~Resolved(u)
    /\ waits' = [waits EXCEPT ![t] = u]
    /\ stack' = Tail(stack)
    /\ UNCHANGED <<queue, fut, value, aborted, joinWaker, handle, block, outside>>

\* get_or_insert: a waker that is already there stays.
Register(t, u) ==
    joinWaker' = [joinWaker EXCEPT ![u] = IF @ = NoOne THEN t ELSE @]

\* JoinHandle::poll of u, pending.
PollJoin(t, u) ==
    /\ Polling(t)
    /\ fut[t] = "live"
    /\ handle[u] = t
    /\ ~Resolved(u)
    /\ Register(t, u)
    /\ waits' = [waits EXCEPT ![t] = u]
    /\ stack' = Tail(stack)
    /\ UNCHANGED <<queue, fut, value, aborted, handle, block, outside>>

-----------------------------------------------------------------------------
(* User code. *)

\* spawn: the first poll is a wake like the others.  The handle is dropped, kept, or
\* moved into a task still to be spawned.
Spawn(a, t, holder) ==
    /\ Running(a)
    /\ ~down
    /\ fut[t] = "unspawned"
    /\ holder \in {NoOne, a} \union {u \in Tasks \ {t} : fut[u] = "unspawned"}
    /\ fut' = [fut EXCEPT ![t] = "live"]
    /\ handle' = [handle EXCEPT ![t] = holder]
    /\ Send(<<Wake(t)>>)
    /\ UNCHANGED <<stack, value, aborted, joinWaker, waits, block, outside>>

\* JoinHandle::abort.  The holder is not awaiting the handle: it is running.
Abort(a, t) ==
    /\ Running(a)
    /\ handle[t] = a
    /\ blockOn # t
    /\ ~aborted[t]
    /\ aborted' = [aborted EXCEPT ![t] = TRUE]
    /\ fut' = [fut EXCEPT ![t] = "dropped"]
    /\ UNCHANGED <<queue, stack, value, joinWaker, handle, waits, block, outside>>

ShutdownWithoutAbort ==            \* variant: the task list is cleared but not aborted
    /\ Running(Main)
    /\ ~down
    /\ down' = TRUE
    /\ UNCHANGED <<queue, stack, tasks, block, batch, sending, posted, blocks, rewakes>>

\* The last guard goes: every task is aborted.  What is queued still runs.
Shutdown ==
    /\ Running(Main)
    /\ ~down
    /\ down' = TRUE
    /\ aborted' = [t \in Tasks |-> aborted[t] \/ fut[t] # "unspawned"]
    /\ fut' = [t \in Tasks |-> IF fut[t] = "unspawned" THEN fut[t] ELSE "dropped"]
    /\ UNCHANGED <<queue, stack, value, joinWaker, handle, waits, block, batch, sending,
                   posted, blocks, rewakes>>

-----------------------------------------------------------------------------
(* block_on. *)

\* A nested block_on panics.
StartBlockOn(target, timed) ==
    /\ Running(Main)
    /\ ~down
    /\ blocks < MaxBlocks
    /\ blockPhase = "none"
    /\ target = Ext \/ (target \in Tasks /\ handle[target] = Main)
    /\ stack' = <<BlockFrame>> \o stack
    /\ blockPhase' = "check"
    /\ blockOn' = target
    /\ blockTimed' = (timed /\ target # Ext)
    /\ blockQueued' = TRUE
    /\ blockExt' = "idle"
    /\ blocks' = blocks + 1
    /\ UNCHANGED <<queue, tasks, batch, sending, down, posted, rewakes>>

\* take_queued decides whether the future is polled in this turn of the loop.
BlockCheck ==
    /\ Top("block")
    /\ blockPhase = "check"
    /\ blockPhase' = IF blockQueued THEN "poll" ELSE "pump"
    /\ blockQueued' = FALSE
    /\ UNCHANGED <<queue, stack, tasks, blockOn, blockTimed, blockExt, outside>>

BlockReady == blockExt = "fired" \/ (blockOn \in Tasks /\ Resolved(blockOn))

\* The future is pending: its waker stays with the task and with the event.
BlockPend ==
    /\ Top("block")
    /\ blockPhase = "poll"
    /\ ~BlockReady
    /\ blockPhase' = "pump"
    /\ IF blockOn \in Tasks THEN Register(Main, blockOn) ELSE UNCHANGED joinWaker
    /\ blockExt' = IF blockOn = Ext \/ blockTimed THEN "armed" ELSE blockExt
    /\ UNCHANGED <<queue, stack, fut, value, aborted, handle, waits, blockOn, blockTimed,
                   blockQueued, outside>>

\* It is ready: block_on returns, and a waker it left somewhere is one nobody listens to.
BlockReturn ==
    LET joined == blockOn \in Tasks /\ Resolved(blockOn)
    IN  /\ Top("block")
        /\ blockPhase = "poll"
        /\ BlockReady
        /\ value' = IF joined /\ ~aborted[blockOn]
                    THEN [value EXCEPT ![blockOn] = "none"] ELSE value
        /\ handle' = IF joined THEN [handle EXCEPT ![blockOn] = NoOne] ELSE handle
        /\ joinWaker' = [t \in Tasks |-> IF joinWaker[t] = Main THEN Stale ELSE joinWaker[t]]
        /\ stack' = Tail(stack)
        /\ blockPhase' = "none"
        /\ blockOn' = NoOne
        /\ blockTimed' = FALSE
        /\ blockQueued' = FALSE
        /\ blockExt' = "idle"
        /\ UNCHANGED <<queue, fut, aborted, waits, outside>>

-----------------------------------------------------------------------------
(* Background threads. *)

Post ==
    /\ posted < MaxCallbacks
    /\ posted' = posted + 1
    /\ Send(<<Callback>>)
    /\ UNCHANGED <<stack, tasks, block, batch, sending, down, blocks, rewakes>>

\* The event a task waits for.
Fire(t) ==
    /\ waits[t] = Ext
    /\ fut[t] = "live"
    /\ waits' = [waits EXCEPT ![t] = NoOne]
    /\ Send(<<Wake(t)>>)
    /\ UNCHANGED <<stack, fut, value, aborted, joinWaker, handle, block, outside>>

\* A waker of t that is no longer needed is woken.
Rewake(t) ==
    /\ rewakes < MaxRewakes
    /\ fut[t] = "done" \/ (fut[t] = "live" /\ waits[t] # NoOne)
    /\ rewakes' = rewakes + 1
    /\ Send(<<Wake(t)>>)
    /\ UNCHANGED <<stack, tasks, block, batch, sending, down, posted, blocks>>

\* The event block_on's future waits for; BlockOnWaker::wake swaps `queued` ...
FireBlock ==
    /\ blockPhase # "none"
    /\ blockOn = Ext \/ blockTimed
    /\ blockExt # "fired"
    /\ blockExt' = "fired"
    /\ IF blockExt = "armed" /\ ~blockQueued
       THEN blockQueued' = TRUE /\ sending' = sending + 1
       ELSE UNCHANGED <<blockQueued, sending>>
    /\ UNCHANGED <<queue, stack, tasks, blockPhase, blockOn, blockTimed, batch, down, posted,
                   blocks, rewakes>>

\* ... and sends an empty callback if it was not set.
SendNudge ==
    /\ sending > 0
    /\ sending' = sending - 1
    /\ Send(<<Nudge>>)
    /\ UNCHANGED <<stack, tasks, block, batch, down, posted, blocks, rewakes>>

-----------------------------------------------------------------------------
PollEnds(t) ==
    \/ \E result \in {"ok", "panic"} : PollFinish(t, result)
    \/ PollAgain(t) \/ PollPend(t) \/ PollYield(t)
    \/ \E u \in Tasks : PollJoin(t, u)

\* What the thread does without a decision of user code to start something.
LoopStep ==
    \/ Drain \/ EndBatch
    \/ \E t \in Tasks : RunWake(t) \/ RunRedundantWake(t) \/ PollEnds(t)
    \/ RunCallback \/ RunNudge \/ FinishCallback
    \/ BlockCheck \/ BlockPend \/ BlockReturn

UserStep ==
    \/ \E a \in Tasks \union {Main}, t \in Tasks :
          \/ \E holder \in Tasks \union {NoOne, Main} : Spawn(a, t, holder)
          \/ Abort(a, t)
    \/ \E t, u \in Tasks : PollJoined(t, u)
    \/ \E target \in Tasks \union {Ext}, timed \in TimedWaits : StartBlockOn(target, timed)
    \/ Shutdown

Background ==
    \/ Post \/ FireBlock \/ SendNudge
    \/ \E t \in Tasks : Fire(t) \/ Rewake(t)

Next == LoopStep \/ UserStep \/ Background

\* The thread pumps its loop, polls and callbacks return, a wake that has swapped `queued`
\* is sent.  Events need not come and user code need not start anything; a future that
\* awaits a handle does take the result once it is polled again.
Fairness ==
    /\ WF_vars(LoopStep)
    /\ WF_vars(SendNudge)

Spec == Init /\ [][Next]_vars
FairSpec == Spec /\ Fairness

-----------------------------------------------------------------------------
(* Properties. *)

\* The shape of the state; block_on is on the stack at most once (BLOCK_ON_ACTIVE).
TypeOK ==
    /\ batch \in BOOLEAN
    /\ queue \in Seq(Closures)
    /\ \A i \in DOMAIN stack :
          \/ stack[i].kind = "batch" /\ stack[i].left \in Seq(Closures)
          \/ stack[i].kind = "poll" /\ stack[i].task \in Tasks
          \/ stack[i].kind \in {"callback", "block"}
    /\ \A i, j \in Frames("block") : i = j
    /\ (blockPhase = "none") <=> (Frames("block") = {})
    /\ fut \in [Tasks -> {"unspawned", "live", "done", "dropped"}]
    /\ value \in [Tasks -> {"none", "ok", "panic"}]
    /\ aborted \in [Tasks -> BOOLEAN]
    /\ joinWaker \in [Tasks -> Tasks \union {Main, Stale, NoOne}]
    /\ handle \in [Tasks -> Tasks \union {Main, NoOne}]
    /\ waits \in [Tasks -> Tasks \union {Ext, NoOne}]
    /\ blockPhase \in {"none", "check", "poll", "pump"}
    /\ blockOn \in Tasks \union {Ext, NoOne}
    /\ blockTimed \in BOOLEAN
    /\ blockQueued \in BOOLEAN
    /\ blockExt \in {"idle", "armed", "fired"}
    /\ sending \in Nat
    /\ down \in BOOLEAN
    /\ posted \in 0 .. MaxCallbacks
    /\ blocks \in 0 .. MaxBlocks
    /\ rewakes \in 0 .. MaxRewakes

\* No wake is lost between a task and what it waits for (ArcWake for Task, JoinHandle's
\* poll): a live task that can go on, because its event fired or the task it joins has
\* finished, is queued to be polled or being polled.
NoLostWake ==
    \A t \in Tasks :
        /\ fut[t] = "live"
        /\ ~down
        /\ \/ waits[t] = NoOne
           \/ waits[t] \in Tasks /\ Resolved(waits[t])
        => Scheduled(t) \/ \E i \in Frames("poll") : stack[i].task = t

\* poll_once never sleeps on a wake: while block_on drives the loop with `queued` set, the
\* empty callback that ends the sleep is queued, being sent or already taken by the drain.
NudgeArrives ==
    blockPhase = "pump" /\ Top("block") /\ blockQueued /\ ~down
        => Nudge \in Entries(queue) \/ sending > 0

\* After the shutdown of the run loop no future is polled any more: its tasks are aborted
\* and whatever wakes them finds them so (shutdown, Task::poll).
ShutdownSilencesTasks == down => Frames("poll") = {}

\* No wake is lost on the way, neither a task's nor that of a blocking poll_once, and none leads to
\* a poll after shutdown: the parts above.
ExecutorInv == TypeOK /\ NoLostWake /\ NudgeArrives /\ ShutdownSilencesTasks

\* A woken task is polled: the callbacks that run meanwhile, and the block_on in them, drive
\* the queue it is in (what block_on says of the tasks it lets make progress).
WokenTaskIsPolled ==
    \A t \in Tasks :
        (Scheduled(t) /\ fut[t] = "live") ~> (Polling(t) \/ fut[t] = "dropped")

\* A task that awaits a handle goes on once the task it joins has a result.
JoinerResumes ==
    \A t \in Tasks : \A u \in Tasks \ {t} :
        (fut[t] = "live" /\ waits[t] = u /\ value[u] # "none")
            ~> (waits[t] # u \/ fut[t] = "dropped")

\* block_on returns once the task whose handle it awaits has a result.
BlockOnReturns ==
    \A u \in Tasks :
        (blockOn = u /\ value[u] # "none") ~> (blockOn # u \/ down)
=============================================================================
