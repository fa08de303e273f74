------------------------------- MODULE Command -------------------------------
(***************************************************************************)
(* wxp's command bridge: invoke() in a page, its message to the native     *)
(* side, the task that runs the command on the run loop, and the script    *)
(* that settles the promise (wxp_command, and initialization.rs).          *)
(*                                                                         *)
(* The handler outlives the views: it is an Rc that a program gives to the *)
(* builder of one view after the other, and it keeps the dispatch handle   *)
(* of the last one only.  A page numbers its callbacks from 0, so a number *)
(* means something else in another view or after a navigation.             *)
(*                                                                         *)
(* Everything native happens on the run loop thread.  The two callbacks of *)
(* an invoke, for its result and for its error, are one id here: each      *)
(* invoke takes the next pair.  What a command computes is left out.       *)
(***************************************************************************)
EXTENDS WebViewDispatch

CONSTANTS
    MaxInvokes,     \* bound: invokes
    MaxPages,       \* bound: pages a view shows one after the other
    Parses          \* subset of BOOLEAN: is the message an InvokeRequest (args may be no object)

NoView == 0

ASSUME CommandAssumption ==
    /\ Views \subseteq Nat \ {NoView}     \* numbered in the order in which they are built
    /\ MaxInvokes \in Nat
    /\ MaxPages \in Nat \ {0}
    /\ Parses \subseteq BOOLEAN

VARIABLES
    built,          \* views built so far
    bound,          \* WxpCommandHandler::webview
    page,           \* per view, the number of its page
    bridge,         \* views whose page has window.ipc
    counter,        \* per view, its page's callbackIdCounter
    ipcQueue,       \* per view, invokes that wait for window.ipc
    ipc,            \* per view, messages on their way to the native IPC handler
    jobs,           \* the run loop's queue: <<"post", r>> spawns r's task, <<"task", r>> polls it
    stage,          \* per invoke: "unused", "sent", "queued", "running", "over", "lost"
    home,           \* per invoke, its view and page
    id,             \* per invoke, its callback id
    waited,         \* history: invokes that had to wait for window.ipc
    context,        \* per invoke, the view its command was given
    settledBy,      \* per invoke, the invoke whose response settled its promise; 0 if pending
    mute            \* history: invokes whose response could not be produced or evaluated

pages == <<page, bridge, counter, ipcQueue, ipc>>
requests == <<stage, home, id, waited, context, mute>>
vars == <<dispatch, built, bound, pages, jobs, requests, settledBy>>

Invokes == 1 .. MaxInvokes
Entry(w) == <<w, page[w]>>
Settle(r) == Op(bound, <<"settle", r>>, {})

Init ==
    /\ DispatchInit({})
    /\ built = {}
    /\ bound = NoView
    /\ page = [w \in Views |-> 1]
    /\ bridge = {}
    /\ counter = [w \in Views |-> 0]
    /\ ipcQueue = [w \in Views |-> <<>>]
    /\ ipc = [w \in Views |-> <<>>]
    /\ jobs = <<>>
    /\ stage = [r \in Invokes |-> "unused"]
    /\ home = [r \in Invokes |-> <<NoView, 0>>]
    /\ id = [r \in Invokes |-> 0]
    /\ waited = {}
    /\ context = [r \in Invokes |-> NoView]
    /\ settledBy = [r \in Invokes |-> 0]
    /\ mute = {}

Becomes(rs, label) == stage' = [r \in Invokes |-> IF r \in rs THEN label ELSE stage[r]]

-----------------------------------------------------------------------------
(* Views and pages. *)

\* build_as_child: the handler is given the new view's dispatch handle.
Build(w) ==
    /\ w \notin built
    /\ \A v \in Views : v < w => v \in built
    /\ up
    /\ built' = built \union {w}
    /\ alive' = alive \union {w}
    /\ bound' = w
    /\ UNCHANGED <<up, queue, scripts, store, abandoned, pages, jobs, requests, settledBy>>

\* The view shows another page, which starts from the initialization scripts; window.ipc may
\* appear later.  Messages on their way and scripts that the view has are not taken back.
Navigate(w) ==
    /\ w \in alive
    /\ page[w] < MaxPages
    /\ page' = [page EXCEPT ![w] = @ + 1]
    /\ bridge' = bridge \ {w}
    /\ counter' = [counter EXCEPT ![w] = 0]
    /\ ipcQueue' = [ipcQueue EXCEPT ![w] = <<>>]
    /\ Becomes(Entries(ipcQueue[w]), "lost")
    /\ UNCHANGED <<dispatch, built, bound, ipc, jobs, home, id, waited, context, settledBy, mute>>

CloseView(w) ==
    /\ DropOwner(w)
    /\ bridge' = bridge \ {w}
    /\ counter' = [counter EXCEPT ![w] = 0]
    /\ ipcQueue' = [ipcQueue EXCEPT ![w] = <<>>]
    /\ ipc' = [ipc EXCEPT ![w] = <<>>]
    /\ Becomes(Entries(ipcQueue[w]) \union Entries(ipc[w]), "lost")
    /\ UNCHANGED <<abandoned, built, bound, page, jobs, home, id, waited,
                   context, settledBy, mute>>

BridgeAppears(w) ==
    /\ w \in alive \ bridge
    /\ bridge' = bridge \union {w}
    /\ UNCHANGED <<dispatch, built, bound, page, counter, ipcQueue, ipc, jobs, requests, settledBy>>

InvokeSharesId(w, r) ==            \* variant: callbackIdCounter stays
    /\ w \in alive
    /\ stage[r] = "unused"
    /\ \A q \in 1 .. r - 1 : stage[q] # "unused"
    /\ home' = [home EXCEPT ![r] = Entry(w)]
    /\ id' = [id EXCEPT ![r] = counter[w]]
    /\ Becomes({r}, "sent")
    /\ IF w \in bridge
       THEN ipc' = [ipc EXCEPT ![w] = Append(@, r)] /\ UNCHANGED <<ipcQueue, waited>>
       ELSE /\ ipcQueue' = [ipcQueue EXCEPT ![w] = Append(@, r)]
            /\ waited' = waited \union {r}
            /\ UNCHANGED ipc
    /\ UNCHANGED <<dispatch, built, bound, page, bridge, counter, jobs, context, settledBy, mute>>

\* invoke() takes the next callback ids and posts the message, or keeps it until window.ipc
\* is there.
Invoke(w, r) ==
    /\ w \in alive
    /\ stage[r] = "unused"
    /\ \A q \in 1 .. r - 1 : stage[q] # "unused"
    /\ home' = [home EXCEPT ![r] = Entry(w)]
    /\ id' = [id EXCEPT ![r] = counter[w]]
    /\ counter' = [counter EXCEPT ![w] = @ + 1]
    /\ Becomes({r}, "sent")
    /\ IF w \in bridge
       THEN ipc' = [ipc EXCEPT ![w] = Append(@, r)] /\ UNCHANGED <<ipcQueue, waited>>
       ELSE /\ ipcQueue' = [ipcQueue EXCEPT ![w] = Append(@, r)]
            /\ waited' = waited \union {r}
            /\ UNCHANGED ipc
    /\ UNCHANGED <<dispatch, built, bound, page, bridge, jobs, context, settledBy, mute>>

FlushFromEnd(w) ==                 \* variant: the queue is emptied by pop()
    /\ w \in bridge
    /\ ipcQueue[w] # <<>>
    /\ LET n == Len(ipcQueue[w])
       IN  ipc' = [ipc EXCEPT ![w] = @ \o [i \in 1 .. n |-> ipcQueue[w][n + 1 - i]]]
    /\ ipcQueue' = [ipcQueue EXCEPT ![w] = <<>>]
    /\ UNCHANGED <<dispatch, built, bound, page, bridge, counter, jobs, requests, settledBy>>

FlushForgotten(w) ==               \* variant: only the call that finds window.ipc is sent
    /\ w \in bridge
    /\ ipcQueue[w] # <<>>
    /\ ipc' = [ipc EXCEPT ![w] = Append(@, Head(ipcQueue[w]))]
    /\ ipcQueue' = [ipcQueue EXCEPT ![w] = <<>>]
    /\ UNCHANGED <<dispatch, built, bound, page, bridge, counter, jobs, requests, settledBy>>

\* waitForIpc looks every 50 ms, so that an invoke may get past those in the queue.
Flush(w) ==
    /\ w \in bridge
    /\ ipcQueue[w] # <<>>
    /\ ipc' = [ipc EXCEPT ![w] = @ \o ipcQueue[w]]
    /\ ipcQueue' = [ipcQueue EXCEPT ![w] = <<>>]
    /\ UNCHANGED <<dispatch, built, bound, page, bridge, counter, jobs, requests, settledBy>>

\* The page runs `invoke[id](..)`: the promise of this page with that id, if it has one, is
\* settled unless it already was.
EvalScript(w) ==
    LET r == Head(scripts[w]).script[2]
        target == {q \in Invokes : home[q] = Entry(w) /\ id[q] = id[r] /\ settledBy[q] = 0}
    IN  /\ scripts[w] # <<>>
        /\ scripts' = [scripts EXCEPT ![w] = Tail(@)]
        /\ settledBy' = [q \in Invokes |-> IF q \in target THEN r ELSE settledBy[q]]
        /\ UNCHANGED <<alive, up, queue, store, abandoned, built, bound, pages, jobs, requests>>

-----------------------------------------------------------------------------
(* The run loop thread. *)

\* The IPC handler posts to the run loop; without one the message is dropped.
IpcArrives(w) ==
    /\ ipc[w] # <<>>
    /\ ipc' = [ipc EXCEPT ![w] = Tail(@)]
    /\ LET r == Head(ipc[w])
       IN  IF up
           THEN jobs' = Append(jobs, <<"post", r>>) /\ Becomes({r}, "queued")
           ELSE Becomes({r}, "lost") /\ UNCHANGED jobs
    /\ UNCHANGED <<dispatch, built, bound, page, bridge, counter, ipcQueue, home, id, waited,
                   context, settledBy, mute>>

\* The posted closure spawns the task and detaches it: its first poll is queued.
SpawnTask ==
    /\ jobs # <<>>
    /\ Head(jobs)[1] = "post"
    /\ jobs' = Append(Tail(jobs), <<"task", Head(jobs)[2]>>)
    /\ UNCHANGED <<dispatch, built, bound, pages, requests, settledBy>>

\* handle_ipc hands a response to the view that the handler holds by now.
Respond(r, fails) ==
    /\ IF bound \in alive THEN PostInline(Settle(r), fails) ELSE Refuse(Settle(r))
    /\ mute' = IF bound \in alive /\ fails THEN mute \union {r} ELSE mute
    /\ Becomes({r}, "over")

NextTask(r) == jobs # <<>> /\ Head(jobs) = <<"task", r>> /\ jobs' = Tail(jobs)

\* A body that is not a request: the task ends without a response.
RejectBody(r) ==
    /\ NextTask(r)
    /\ FALSE \in Parses
    /\ Becomes({r}, "over")
    /\ mute' = mute \union {r}
    /\ UNCHANGED <<dispatch, built, bound, pages, home, id, waited, context, settledBy>>

\* invoke() in handler.rs: the handler's view is gone, or there is no such command.
StartFails(r, fails) ==
    /\ NextTask(r)
    /\ Respond(r, fails)
    /\ UNCHANGED <<built, bound, pages, home, id, waited, context, settledBy>>

\* The command runs, with the dispatch handle that the handler holds now.
StartCommand(r) ==
    /\ NextTask(r)
    /\ bound \in alive
    /\ Becomes({r}, "running")
    /\ context' = [context EXCEPT ![r] = bound]
    /\ UNCHANGED <<dispatch, built, bound, pages, home, id, waited, settledBy, mute>>

\* The command has a result or an error, at once or in a later poll of its task.
Finish(r, fails) ==
    /\ stage[r] = "running"
    /\ Respond(r, fails)
    /\ UNCHANGED <<built, bound, pages, jobs, home, id, waited, context, settledBy>>

\* It panics: the task keeps the panic for a JoinHandle that nobody has.
Panic(r) ==
    /\ stage[r] = "running"
    /\ Becomes({r}, "over")
    /\ mute' = mute \union {r}
    /\ UNCHANGED <<dispatch, built, bound, pages, jobs, home, id, waited, context, settledBy>>

\* The run loop shuts down: its tasks are aborted, and what is queued has no effect.
StopRunLoop ==
    /\ StopLoop
    /\ jobs' = <<>>
    /\ Becomes({r \in Invokes : stage[r] \in {"queued", "running"}}, "lost")
    /\ UNCHANGED <<built, bound, pages, home, id, waited, context, settledBy, mute>>

-----------------------------------------------------------------------------
RunJob ==
    \/ SpawnTask
    \/ \E r \in Invokes :
          \/ RejectBody(r) \/ StartCommand(r)
          \/ \E fails \in EvalFails : StartFails(r, fails)

EndCommand(r) == Panic(r) \/ \E fails \in EvalFails : Finish(r, fails)

Next ==
    \/ \E w \in Views :
          \/ Build(w) \/ Navigate(w) \/ CloseView(w) \/ BridgeAppears(w)
          \/ \E r \in Invokes : Invoke(w, r)
          \/ Flush(w) \/ EvalScript(w) \/ IpcArrives(w)
    \/ RunJob
    \/ \E r \in Invokes : EndCommand(r)
    \/ StopRunLoop

\* The bridge is injected, the page's timer fires, it runs its scripts; the native side gets
\* its messages; the run loop is pumped; commands end.
Fairness ==
    /\ \A w \in Views :
          /\ WF_vars(BridgeAppears(w))
          /\ WF_vars(Flush(w))
          /\ WF_vars(EvalScript(w))
          /\ WF_vars(IpcArrives(w))
    /\ WF_vars(RunJob)
    /\ \A r \in Invokes : WF_vars(EndCommand(r))

Spec == Init /\ [][Next]_vars /\ Fairness

-----------------------------------------------------------------------------
(* Properties. *)

\* The shape of the state; a queued job belongs to an invoke that waits for it, and no
\* promise of a page is pending under an id that its counter has still to give out.
TypeOK ==
    /\ DispatchTypeOK({"settle"} \X Invokes, {})
    /\ built \subseteq Views /\ alive \subseteq built
    /\ bound \in Views \union {NoView}
    /\ page \in [Views -> 1 .. MaxPages]
    /\ bridge \subseteq Views
    /\ counter \in [Views -> 0 .. MaxInvokes]
    /\ ipcQueue \in [Views -> Seq(Invokes)]
    /\ ipc \in [Views -> Seq(Invokes)]
    /\ jobs \in Seq({"post", "task"} \X Invokes)
    /\ \A j \in Entries(jobs) : stage[j[2]] = "queued"
    /\ stage \in [Invokes -> {"unused", "sent", "queued", "running", "over", "lost"}]
    /\ home \in [Invokes -> (Views \union {NoView}) \X (0 .. MaxPages)]
    /\ id \in [Invokes -> 0 .. MaxInvokes]
    /\ \A r \in Invokes, w \in alive : home[r] = Entry(w) => id[r] < counter[w]
    /\ waited \subseteq Invokes
    /\ context \in [Invokes -> Views \union {NoView}]
    /\ settledBy \in [Invokes -> 0 .. MaxInvokes]
    /\ mute \subseteq Invokes

\* A response settles one promise at most, once its command has ended, and a promise with its
\* own callback id: that of its invoke.  Only a response that comes late can settle another
\* one, and only forward: a promise of a later page of its view, or one of a page in a view
\* that was built later and given the same handler; never that of another invoke of its page,
\* whatever the order in which their commands end.
AnswersAreNotMixed ==
    \A q, r \in Invokes : settledBy[q] = r =>
        /\ stage[r] = "over"
        /\ id[q] = id[r]
        /\ \A p \in Invokes : settledBy[p] = r => p = q
        /\ r # q => \/ home[r][1] < home[q][1]
                    \/ home[r][1] = home[q][1] /\ home[r][2] < home[q][2]

\* The invokes of the pages are kept apart: the parts above.
CommandInv == TypeOK /\ AnswersAreNotMixed

\* Commands of one page start in the order of its invokes, through the page's queue, the
\* native one and the run loop's, except that one that finds window.ipc may get past those
\* that waited for it.
CommandsStartInOrder ==
    \A q, r \in Invokes :
        /\ q < r
        /\ home[q] = home[r]
        /\ q \in waited <=> r \in waited
        /\ stage[r] \in {"running", "over"}
        => stage[q] \in {"running", "over", "lost"}

\* Every invoke settles its promise as long as its page, its view and the run loop are there
\* and the handler is still that view's: unless its arguments are no object, its command
\* panics or the script with the response cannot be evaluated.
EveryInvokeSettles ==
    \A r \in Invokes :
        stage[r] # "unused" ~>
            \/ settledBy[r] # 0
            \/ r \in mute
            \/ ~up \/ bound # home[r][1] \/ bound \notin alive
            \/ home[r] # Entry(home[r][1])

\* What context.rs says of CommandContext::webview: it is the view that invoked the command.
ContextIsInvoker ==
    \A r \in Invokes : context[r] \in {NoView, home[r][1]}
=============================================================================
