------------------------------- MODULE RunLoop -------------------------------
(***************************************************************************)
(* The process-wide run loop of crates/run_loop: the reference-counted     *)
(* life of the singleton (RunLoop::init, RunLoopGuard's Drop, initialize,  *)
(* shutdown), and the two ways to reach it from another thread             *)
(* (RunLoop::post and the blocking RunLoop::call), at the grain at which   *)
(* the threads interleave: one action per access to a static, a mutex or   *)
(* an atomic.                                                              *)
(*                                                                         *)
(* A generation is one RunLoopInner, from an INIT_COUNT transition 0 -> 1  *)
(* to the release of its last Arc.  Calls and Posts are operations that    *)
(* background threads issue; a thread that issues several is one of the    *)
(* interleavings of as many threads that issue one each.                   *)
(***************************************************************************)
EXTENDS Naturals, FiniteSets

CONSTANTS
    Hosts,          \* threads that may call RunLoop::init, and pump if they own the loop
    Calls,          \* cross-thread RunLoop::call operations
    Posts,          \* cross-thread RunLoop::post operations
    NoOne,          \* no thread, no operation
    MaxGens,        \* bound: generations created
    MaxGuards,      \* bound: guards a thread holds at once
    HostContext     \* the queue belongs to the host (Linux: a shared GMainContext) and
                    \* survives the loop; otherwise it goes with the platform loop

Ops == Calls \union Posts
Gens == 1 .. MaxGens

ASSUME RunLoopAssumption ==
    /\ NoOne \notin Hosts \union Ops
    /\ Calls \intersect Posts = {}
    /\ MaxGens \in Nat
    /\ MaxGuards \in Nat
    /\ HostContext \in BOOLEAN

VARIABLES
    initMutex,      \* holder of INIT_MUTEX
    initCount,      \* INIT_COUNT
    instance,       \* RUN_LOOP_INSTANCE: a generation, 0 for None
    sender,         \* RUN_LOOP_SENDER: the generation it targets, 0 for None
    threadId,       \* RUN_LOOP_THREAD_ID
    created,        \* generations created so far
    owner,          \* per generation, the thread whose platform loop it is
    hasShutdown,    \* generations whose has_shutdown is set
    token,          \* generations whose shutdown_token is set
    pendingCalls,   \* PENDING_CALLS
    taken,          \* the list shutdown() took from PENDING_CALLS and still has to cancel
    pc,             \* per host, where it is in init or in the Drop of a guard
    guards,         \* per host, the RunLoopGuards it holds
    guardGen,       \* per host, the generation its guards' `local` refers to
    running,        \* per host, the operation whose callback it is running
    local,          \* per host, the generation of that callback's RunLoopLocal
    queue,          \* operations whose closure is in a platform queue
    opPc,           \* per operation, where its issuer is
    opGen,          \* per operation, the generation of the RunLoopSender it cloned
    answer,         \* per call, its BlockingVariable; "none" as long as `completed` is false
    callback,       \* per operation, "no", "running" or "done"
    sawDown         \* history: operations that overlapped an instant without a live loop

lifecycle == <<initMutex, initCount, instance, sender, threadId, created, owner,
               hasShutdown, token, taken, pc, guards, guardGen>>
closures == <<queue, running, local, callback>>
issuers == <<opPc, opGen, sawDown>>
vars == <<lifecycle, pendingCalls, closures, issuers, answer>>

-----------------------------------------------------------------------------
(* Derived state. *)

\* What post and call can reach: a sender is published and its loop is not shut down.
Live == sender # 0 /\ sender \notin token

\* Hosts in the Drop of their last guard.
Releasing == {"shutdown", "flagged", "tokenSet", "cancelling", "unbound", "uninstalled",
              "released"}

\* RunLoopInner's strong references: the static, the `local` of guards (that of the last
\* guard is dropped after release_guard returns), and a running callback's RunLoopLocal.
RefHolders(g) ==
    {h \in Hosts : (guards[h] > 0 \/ pc[h] \in Releasing) /\ guardGen[h] = g}

Alive(g) ==
    \/ instance = g
    \/ RefHolders(g) # {}
    \/ \E h \in Hosts : running[h] # NoOne /\ local[h] = g

InCall(k) == opPc[k] \in {"register", "check", "push", "recheck", "waiting"}

\* The CallCompletion of k has a strong reference: the caller's stack (`pending_call` lives
\* until call returns), the queued closure, or the running one.
Upgradeable(k) == InCall(k) \/ k \in queue \/ callback[k] = "running"

\* RunLoop::current_local on thread h: a generation, or 0 for an error.
CurrentLocal(h) ==
    IF threadId = h /\ instance # 0 /\ instance \notin hasShutdown THEN instance ELSE 0

\* CallCompletion::complete and ::cancel: the first of them fixes the answer.
Settle(ks, result) ==
    answer' = [k \in Calls |->
                 IF k \in ks /\ answer[k] = "none" THEN result ELSE answer[k]]

\* PlatformRunLoop's Drop once the last strong reference of g is gone: a host-owned queue
\* keeps its sources, any other keeps only the closures a drain in progress has already
\* moved to its local batch.
DropQueue(g, inBatch) ==
    LET own == {k \in queue : opGen[k] = g}
    IN  IF HostContext THEN UNCHANGED queue
        ELSE \E kept \in SUBSET (IF inBatch THEN own ELSE {}) :
                queue' = (queue \ own) \union kept

-----------------------------------------------------------------------------
Init ==
    /\ initMutex = NoOne
    /\ initCount = 0
    /\ instance = 0
    /\ sender = 0
    /\ threadId = NoOne
    /\ created = 0
    /\ owner = [g \in Gens |-> NoOne]
    /\ hasShutdown = {}
    /\ token = {}
    /\ pendingCalls = {}
    /\ taken = {}
    /\ pc = [h \in Hosts |-> "idle"]
    /\ guards = [h \in Hosts |-> 0]
    /\ guardGen = [h \in Hosts |-> 0]
    /\ running = [h \in Hosts |-> NoOne]
    /\ local = [h \in Hosts |-> 0]
    /\ queue = {}
    /\ opPc = [k \in Ops |-> "idle"]
    /\ opGen = [k \in Ops |-> 0]
    /\ answer = [k \in Calls |-> "none"]
    /\ callback = [k \in Ops |-> "no"]
    /\ sawDown = {}

Goto(h, label) == pc' = [pc EXCEPT ![h] = label]

-----------------------------------------------------------------------------
(* RunLoop::init. *)

InitLock(h) ==
    /\ pc[h] = "idle"
    /\ initMutex = NoOne
    /\ guards[h] < MaxGuards
    /\ initCount > 0 \/ created < MaxGens
    /\ initMutex' = h
    /\ Goto(h, "init")
    /\ UNCHANGED <<initCount, instance, sender, threadId, created, owner, hasShutdown,
                   token, taken, guards, guardGen, pendingCalls, closures, issuers, answer>>

\* Err(NotRunLoopThread), or AlreadyInitialized were the static still occupied.
InitRefuse(h) ==
    /\ pc[h] = "init"
    /\ IF initCount > 0 THEN threadId # h ELSE instance # 0
    /\ initMutex' = NoOne
    /\ Goto(h, "idle")
    /\ UNCHANGED <<initCount, instance, sender, threadId, created, owner, hasShutdown,
                   token, taken, guards, guardGen, pendingCalls, closures, issuers, answer>>

\* The count goes up before current_local() is tried: were it to fail, the reference
\* would be lost without a guard.
TakeGuard(h, count) ==
    /\ initCount' = count
    /\ IF CurrentLocal(h) = 0
       THEN UNCHANGED <<guards, guardGen>>
       ELSE /\ guards' = [guards EXCEPT ![h] = @ + 1]
            /\ guardGen' = [guardGen EXCEPT ![h] = CurrentLocal(h)]
    /\ initMutex' = NoOne
    /\ Goto(h, "idle")
    /\ UNCHANGED <<instance, sender, threadId, created, owner, hasShutdown, token, taken,
                   pendingCalls, closures, issuers, answer>>

InitAgain(h) ==
    /\ pc[h] = "init"
    /\ initCount > 0
    /\ threadId = h
    /\ TakeGuard(h, initCount + 1)

\* initialize(): a new RunLoopInner goes into the static.
Install(h) ==
    /\ pc[h] = "init"
    /\ initCount = 0
    /\ instance = 0
    /\ created' = created + 1
    /\ owner' = [owner EXCEPT ![created + 1] = h]
    /\ instance' = created + 1
    /\ Goto(h, "installed")
    /\ UNCHANGED <<initMutex, initCount, sender, threadId, hasShutdown, token, taken,
                   guards, guardGen, pendingCalls, closures, issuers, answer>>

PublishSender(h) ==
    /\ pc[h] = "installed"
    /\ sender' = instance
    /\ Goto(h, "published")
    /\ UNCHANGED <<initMutex, initCount, instance, threadId, created, owner, hasShutdown,
                   token, taken, guards, guardGen, pendingCalls, closures, issuers, answer>>

PublishThreadForgotten(h) ==       \* variant: the owner is never recorded
    /\ pc[h] = "published"
    /\ Goto(h, "bound")
    /\ UNCHANGED <<initMutex, initCount, instance, sender, threadId, created, owner,
                   hasShutdown, token, taken, guards, guardGen, pendingCalls, closures,
                   issuers, answer>>

PublishThread(h) ==
    /\ pc[h] = "published"
    /\ threadId' = h
    /\ Goto(h, "bound")
    /\ UNCHANGED <<initMutex, initCount, instance, sender, created, owner, hasShutdown,
                   token, taken, guards, guardGen, pendingCalls, closures, issuers, answer>>

InitFirstUncounted(h) ==           \* variant: INIT_COUNT is not set to 1
    /\ pc[h] = "bound"
    /\ TakeGuard(h, 0)

InitFirst(h) ==
    /\ pc[h] = "bound"
    /\ TakeGuard(h, 1)

-----------------------------------------------------------------------------
(* RunLoopGuard's Drop: release_guard, then the guard's own `local`. *)

ReleaseOffByOne(h) ==              \* variant: fetch_sub's result taken for the new count
    /\ pc[h] = "idle"
    /\ guards[h] > 0
    /\ initMutex = NoOne
    /\ initCount' = initCount - 1
    /\ guards' = [guards EXCEPT ![h] = @ - 1]
    /\ IF initCount = 2
       THEN initMutex' = h /\ Goto(h, "shutdown")
       ELSE UNCHANGED <<initMutex, pc>>
    /\ UNCHANGED <<instance, sender, threadId, created, owner, hasShutdown, token, taken,
                   guardGen, pendingCalls, closures, issuers, answer>>

Release(h) ==
    /\ pc[h] = "idle"
    /\ guards[h] > 0
    /\ initMutex = NoOne
    /\ initCount' = initCount - 1
    /\ guards' = [guards EXCEPT ![h] = @ - 1]
    /\ IF initCount = 1
       THEN initMutex' = h /\ Goto(h, "shutdown")
       ELSE UNCHANGED <<initMutex, pc>>
    /\ UNCHANGED <<instance, sender, threadId, created, owner, hasShutdown, token, taken,
                   guardGen, pendingCalls, closures, issuers, answer>>

\* shutdown(): has_shutdown, then the token the senders look at.
SetHasShutdown(h) ==
    /\ pc[h] = "shutdown"
    /\ hasShutdown' = hasShutdown \union ({instance} \ {0})
    /\ Goto(h, "flagged")
    /\ UNCHANGED <<initMutex, initCount, instance, sender, threadId, created, owner,
                   token, taken, guards, guardGen, pendingCalls, closures, issuers, answer>>

SetTokenForgotten(h) ==            \* variant: only has_shutdown is set
    /\ pc[h] = "flagged"
    /\ Goto(h, "tokenSet")
    /\ UNCHANGED <<initMutex, initCount, instance, sender, threadId, created, owner,
                   hasShutdown, token, taken, guards, guardGen, pendingCalls, closures,
                   issuers, answer>>

SetToken(h) ==
    /\ pc[h] = "flagged"
    /\ token' = token \union ({instance} \ {0})
    /\ sawDown' = sawDown \union {k \in Ops : InCall(k)}
    /\ Goto(h, "tokenSet")
    /\ UNCHANGED <<initMutex, initCount, instance, sender, threadId, created, owner,
                   hasShutdown, taken, guards, guardGen, pendingCalls, closures, opPc,
                   opGen, answer>>

TakePending(h) ==
    /\ pc[h] = "tokenSet"
    /\ taken' = {k \in pendingCalls : Upgradeable(k)}
    /\ pendingCalls' = {}
    /\ Goto(h, "cancelling")
    /\ UNCHANGED <<initMutex, initCount, instance, sender, threadId, created, owner,
                   hasShutdown, token, guards, guardGen, closures, issuers, answer>>

CancelPending(h, k) ==
    /\ pc[h] = "cancelling"
    /\ k \in taken
    /\ taken' = taken \ {k}
    /\ Settle({k}, "err")
    /\ UNCHANGED <<initMutex, initCount, instance, sender, threadId, created, owner,
                   hasShutdown, token, pc, guards, guardGen, pendingCalls, closures, issuers>>

ClearThreadForgotten(h) ==         \* variant: RUN_LOOP_THREAD_ID keeps the old owner
    /\ pc[h] = "cancelling"
    /\ taken = {}
    /\ Goto(h, "unbound")
    /\ UNCHANGED <<initMutex, initCount, instance, sender, threadId, created, owner,
                   hasShutdown, token, taken, guards, guardGen, pendingCalls, closures,
                   issuers, answer>>

\* The task list is aborted here, under INIT_MUTEX; tasks are module Executor's.
ClearThread(h) ==
    /\ pc[h] = "cancelling"
    /\ taken = {}
    /\ threadId' = NoOne
    /\ Goto(h, "unbound")
    /\ UNCHANGED <<initMutex, initCount, instance, sender, created, owner, hasShutdown,
                   token, taken, guards, guardGen, pendingCalls, closures, issuers, answer>>

ClearInstance(h) ==
    /\ pc[h] = "unbound"
    /\ instance' = 0
    /\ Goto(h, "uninstalled")
    /\ UNCHANGED <<initMutex, initCount, sender, threadId, created, owner, hasShutdown,
                   token, taken, guards, guardGen, pendingCalls, closures, issuers, answer>>

\* RUN_LOOP_SENDER goes last; returning from release_guard unlocks INIT_MUTEX.
ClearSender(h) ==
    /\ pc[h] = "uninstalled"
    /\ sender' = 0
    /\ initMutex' = NoOne
    /\ Goto(h, "released")
    /\ UNCHANGED <<initCount, instance, threadId, created, owner, hasShutdown, token,
                   taken, guards, guardGen, pendingCalls, closures, issuers, answer>>

\* The guard's `local` goes, outside INIT_MUTEX.  A callback of the same generation that
\* this Drop runs in keeps the platform loop.
DropLocal(h) ==
    LET g == guardGen[h]
    IN  /\ pc[h] = "released"
        /\ Goto(h, "idle")
        /\ IF running[h] # NoOne /\ local[h] = g
           THEN UNCHANGED queue
           ELSE DropQueue(g, FALSE)
        /\ UNCHANGED <<initMutex, initCount, instance, sender, threadId, created, owner,
                       hasShutdown, token, taken, guards, guardGen, pendingCalls, running,
                       local, callback, issuers, answer>>

-----------------------------------------------------------------------------
(* The run loop thread takes a closure from its queue. *)

RunClosureAnswersFirst(h, k) ==    \* variant: the answer is given before the callback runs
    /\ pc[h] = "idle"
    /\ running[h] = NoOne
    /\ k \in queue
    /\ owner[opGen[k]] = h
    /\ CurrentLocal(h) # 0
    /\ queue' = queue \ {k}
    /\ running' = [running EXCEPT ![h] = k]
    /\ local' = [local EXCEPT ![h] = CurrentLocal(h)]
    /\ callback' = [callback EXCEPT ![k] = "running"]
    /\ Settle({k} \intersect Calls, "ok")
    /\ UNCHANGED <<lifecycle, pendingCalls, issuers>>

\* current_local() decides under which loop, if any, the callback runs: not the one it
\* was sent to, the one installed now.
RunClosure(h, k) ==
    /\ pc[h] = "idle"
    /\ running[h] = NoOne
    /\ k \in queue
    /\ owner[opGen[k]] = h
    /\ queue' = queue \ {k}
    /\ IF CurrentLocal(h) # 0
       THEN /\ running' = [running EXCEPT ![h] = k]
            /\ local' = [local EXCEPT ![h] = CurrentLocal(h)]
            /\ callback' = [callback EXCEPT ![k] = "running"]
            /\ UNCHANGED answer
       ELSE /\ Settle({k} \intersect Calls, "err")
            /\ UNCHANGED <<running, local, callback>>
    /\ UNCHANGED <<lifecycle, pendingCalls, issuers>>

FinishUnanswered(h) ==             \* variant: the completion is lost with the closure
    /\ pc[h] = "idle"
    /\ running[h] # NoOne
    /\ running' = [running EXCEPT ![h] = NoOne]
    /\ callback' = [callback EXCEPT ![running[h]] = "done"]
    /\ UNCHANGED <<lifecycle, pendingCalls, local, queue, issuers, answer>>

\* The callback returns; a call completes; the RunLoopLocal goes, and with it the
\* generation if it was the last reference.
FinishCallback(h) ==
    LET k == running[h]
        g == local[h]
    IN  /\ pc[h] = "idle"
        /\ k # NoOne
        /\ running' = [running EXCEPT ![h] = NoOne]
        /\ callback' = [callback EXCEPT ![k] = "done"]
        /\ Settle({k} \intersect Calls, "ok")
        /\ IF instance # g /\ RefHolders(g) = {} THEN DropQueue(g, TRUE) ELSE UNCHANGED queue
        /\ UNCHANGED <<lifecycle, pendingCalls, local, issuers>>

-----------------------------------------------------------------------------
(* RunLoop::post and RunLoop::call. *)

Step(k, label) == opPc' = [opPc EXCEPT ![k] = label]

\* call() on the run loop thread: the callback runs in place.
CallInline(h, k) ==
    /\ opPc[k] = "idle"
    /\ pc[h] = "idle"
    /\ threadId = h
    /\ IF CurrentLocal(h) # 0
       THEN Step(k, "ok") /\ callback' = [callback EXCEPT ![k] = "done"]
       ELSE Step(k, "err") /\ UNCHANGED callback
    /\ UNCHANGED <<lifecycle, pendingCalls, queue, running, local, opGen, sawDown, answer>>

\* sender() clones RUN_LOOP_SENDER.
GetSender(k) ==
    /\ opPc[k] = "idle"
    /\ opGen' = [opGen EXCEPT ![k] = sender]
    /\ sawDown' = IF Live THEN sawDown ELSE sawDown \union {k}
    /\ Step(k, IF sender = 0 THEN "err" ELSE IF k \in Calls THEN "register" ELSE "check")
    /\ UNCHANGED <<lifecycle, pendingCalls, closures, answer>>

RegisterPrunesUnsent(k) ==         \* variant: a call not yet queued counts as finished
    /\ opPc[k] = "register"
    /\ pendingCalls' = {j \in pendingCalls : j \in queue} \union {k}
    /\ Step(k, "check")
    /\ UNCHANGED <<lifecycle, closures, opGen, sawDown, answer>>

\* PENDING_CALLS: retain what is still referenced, push this call.
Register(k) ==
    /\ opPc[k] = "register"
    /\ pendingCalls' = {j \in pendingCalls : Upgradeable(j)} \union {k}
    /\ Step(k, "check")
    /\ UNCHANGED <<lifecycle, closures, opGen, sawDown, answer>>

\* RunLoopSender::send, the test before the platform send.
CheckToken(k) ==
    /\ opPc[k] = "check"
    /\ Step(k, IF Alive(opGen[k]) /\ opGen[k] \notin token THEN "push" ELSE "err")
    /\ UNCHANGED <<lifecycle, pendingCalls, closures, opGen, sawDown, answer>>

\* PlatformRunLoopSender::send.  The platform loop may have gone since the test: the
\* closure is queued if the queue was pinned before that, dropped otherwise.
Push(k) ==
    /\ opPc[k] = "push"
    /\ \/ queue' = queue \union {k}
       \/ ~Alive(opGen[k]) /\ UNCHANGED queue
    /\ Step(k, "recheck")
    /\ UNCHANGED <<lifecycle, pendingCalls, running, local, callback, opGen, sawDown, answer>>

\* The test after it.
RecheckToken(k) ==
    /\ opPc[k] = "recheck"
    /\ Step(k, IF opGen[k] \in token THEN "err"
               ELSE IF k \in Calls THEN "waiting" ELSE "ok")
    /\ UNCHANGED <<lifecycle, pendingCalls, closures, opGen, sawDown, answer>>

\* BlockingVariable::get_blocking returns.
Return(k) ==
    /\ opPc[k] = "waiting"
    /\ answer[k] # "none"
    /\ Step(k, answer[k])
    /\ UNCHANGED <<lifecycle, pendingCalls, closures, opGen, sawDown, answer>>

-----------------------------------------------------------------------------
HostStep(h) ==
    \/ InitLock(h) \/ InitRefuse(h) \/ InitAgain(h)
    \/ Install(h) \/ PublishSender(h) \/ PublishThread(h) \/ InitFirst(h)
    \/ Release(h) \/ SetHasShutdown(h) \/ SetToken(h) \/ TakePending(h)
    \/ \E k \in Calls : CancelPending(h, k)
    \/ ClearThread(h) \/ ClearInstance(h) \/ ClearSender(h) \/ DropLocal(h)
    \/ \E k \in Ops : RunClosure(h, k)
    \/ FinishCallback(h)
    \/ \E k \in Calls : CallInline(h, k)

OpStep(k) ==
    \/ GetSender(k) \/ CheckToken(k) \/ Push(k) \/ RecheckToken(k)

CallStep(k) == Register(k) \/ Return(k)

Next ==
    \/ \E h \in Hosts : HostStep(h)
    \/ \E k \in Ops : OpStep(k)
    \/ \E k \in Calls : CallStep(k)

\* A thread inside init or a guard's Drop goes on; a callback returns and the owner of a
\* live loop comes back to pump it, whatever inits and drops it makes between (hence SF);
\* an issuer goes on once it has a sender.  Nobody has to call init, drop a guard or issue
\* an operation.
Fairness ==
    /\ \A h \in Hosts :
          /\ WF_vars(pc[h] # "idle" /\ HostStep(h))
          /\ SF_vars(FinishCallback(h))
          /\ \A k \in Ops : SF_vars(opGen[k] \notin token /\ RunClosure(h, k))
    /\ \A k \in Ops : WF_vars(opPc[k] # "idle" /\ OpStep(k))
    /\ \A k \in Calls : WF_vars(CallStep(k))

Spec == Init /\ [][Next]_vars
FairSpec == Spec /\ Fairness

-----------------------------------------------------------------------------
(* Properties. *)

\* The shape of the state.
TypeOK ==
    /\ initMutex \in Hosts \union {NoOne}
    /\ initCount \in Nat
    /\ instance \in Gens \union {0}
    /\ sender \in Gens \union {0}
    /\ threadId \in Hosts \union {NoOne}
    /\ created \in 0 .. MaxGens
    /\ owner \in [Gens -> Hosts \union {NoOne}]
    /\ hasShutdown \subseteq Gens
    /\ token \subseteq Gens
    /\ pendingCalls \subseteq Calls
    /\ taken \subseteq Calls
    /\ pc \in [Hosts -> {"idle", "init", "installed", "published", "bound"} \union Releasing]
    /\ guards \in [Hosts -> Nat]
    /\ guardGen \in [Hosts -> Gens \union {0}]
    /\ running \in [Hosts -> Ops \union {NoOne}]
    /\ local \in [Hosts -> Gens \union {0}]
    /\ queue \subseteq Ops
    /\ opPc \in [Ops -> {"idle", "register", "check", "push", "recheck", "waiting",
                          "ok", "err"}]
    /\ opGen \in [Ops -> Gens \union {0}]
    /\ answer \in [Calls -> {"none", "ok", "err"}]
    /\ callback \in [Ops -> {"no", "running", "done"}]
    /\ sawDown \subseteq Ops

\* As long as a thread holds a guard, the run loop it initialized is the live loop of the
\* process, bound to that thread, reachable by its sender and counted exactly: no other
\* thread's init or guard, and none of its own earlier ones, can have taken it down
\* (RunLoop::init, release_guard).
GuardedLoop ==
    \A h \in Hosts :
        guards[h] > 0 /\ pc[h] \in {"idle", "init"} =>
            /\ threadId = h
            /\ instance = guardGen[h]
            /\ instance \notin hasShutdown \union token
            /\ sender = instance
            /\ initCount = guards[h]

\* The claim that makes RunLoopThreadOnly sound: while a thread writes RUN_LOOP_INSTANCE
\* (initialize, shutdown), no other thread can pass the thread test of current_local and
\* read it.
InstanceThreadOnly ==
    \A h, j \in Hosts :
        \/ pc[h] = "init" /\ initCount = 0
        \/ pc[h] \in {"shutdown", "unbound"}
        => h = j \/ threadId # j

\* A caller blocked in get_blocking always has somebody who will answer it: the answer is
\* there, or its callback is running, or a shutdown in progress has it on its list, or its
\* closure is queued on the installed loop and in PENDING_CALLS, which the shutdown of that
\* loop has not taken yet.
NoStrandedCaller ==
    \A k \in Calls :
        opPc[k] = "waiting" /\ answer[k] = "none" =>
            \/ \E h \in Hosts : running[h] = k
            \/ k \in taken
            \/ /\ k \in queue \intersect pendingCalls
               /\ opGen[k] = instance
               /\ \A h \in Hosts : pc[h] \notin {"cancelling", "unbound"}

\* post and call return an error only if at some instant of the operation there was no
\* live run loop: a thread that overlaps nothing but a live loop is always served, also
\* when one loop goes and the next comes.
ErrMeansDown == \A k \in Ops : opPc[k] = "err" => k \in sawDown

\* What run_loop.rs says of call: it returns an error if there is no run loop, or if the
\* run loop shuts down before the queued callback starts.  A callback that ran belongs to
\* a call that did not return an error.
ErrMeansNotRun == \A k \in Calls : opPc[k] = "err" => callback[k] = "no"

\* Every cross-thread call returns, whatever becomes of the run loop meanwhile.
EveryCallReturns ==
    \A k \in Calls : opPc[k] # "idle" ~> opPc[k] \in {"ok", "err"}

\* A post that returned Ok runs, unless the loop it was accepted by shuts down.
AcceptedPostRuns ==
    \A k \in Posts : opPc[k] = "ok" ~> callback[k] # "no" \/ opGen[k] \in token

\* What RunLoop shows of its state to a user of RunLoopService.
Service == INSTANCE RunLoopService WITH
    live <- Live,
    caller <- [k \in Calls |-> IF InCall(k) THEN "asked" ELSE opPc[k]],
    callback <- [k \in Calls |-> callback[k]],
    down <- sawDown \intersect Calls

\* The steps of RunLoop are steps of the service.
ServiceSteps == Service!Init /\ [][Service!Next]_(Service!vars)

\* They are, and the service keeps its promise to answer.
ServiceSpec == Service!Spec
=============================================================================
