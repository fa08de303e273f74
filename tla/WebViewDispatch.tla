--------------------------- MODULE WebViewDispatch ---------------------------
(***************************************************************************)
(* WxpWebView and WebViewDispatch (crates/wxp): operations that any thread *)
(* posts to a native WebView it does not own.  The dispatch handle is weak *)
(* and its closures travel through the run loop; an operation may come     *)
(* with side data that a cleanup takes back when nobody will read it.      *)
(*                                                                         *)
(* The actions here are steps of the modules that extend this one.  The    *)
(* run loop is the one generation the handle's sender belongs to; what its *)
(* send does at a finer grain is module RunLoop's.                         *)
(***************************************************************************)
EXTENDS Naturals, Sequences

CONSTANTS
    Views,          \* native WebViews
    EvalFails       \* subset of BOOLEAN: may evaluate_script return an error

ASSUME WebViewDispatchAssumption == EvalFails \subseteq BOOLEAN /\ EvalFails # {}

VARIABLES
    alive,          \* views whose WxpWebView exists
    up,             \* the run loop has not shut down
    queue,          \* operations posted to the run loop
    scripts,        \* per view, the operations whose script its page has still to run
    store,          \* side data: CHANNEL_DATA_STORE
    abandoned       \* history: side data left in the store by an operation that is no more

dispatch == <<alive, up, queue, scripts, store, abandoned>>

\* A script for a view, and the side data that its cleanup would remove.
Op(view, script, data) == [view |-> view, script |-> script, data |-> data]

Entries(s) == {s[i] : i \in DOMAIN s}
DataOf(ops) == UNION {op.data : op \in ops}

DispatchInit(views) ==
    /\ alive = views
    /\ up = TRUE
    /\ queue = <<>>
    /\ scripts = [w \in Views |-> <<>>]
    /\ store = {}
    /\ abandoned = {}

RunUncleaned(op, fails) ==         \* variant: no cleanup if the view has gone
    /\ scripts' = IF op.view \in alive /\ ~fails
                  THEN [scripts EXCEPT ![op.view] = Append(@, op)] ELSE scripts
    /\ abandoned' = IF op.view \in alive /\ fails THEN abandoned \union op.data ELSE abandoned
    /\ UNCHANGED store

\* The closure `run` on the run loop thread: it evaluates the script if the view is still
\* there, and the cleanup is disarmed also when that fails; otherwise the cleanup runs.
Run(op, fails) ==
    IF op.view \in alive
    THEN /\ scripts' = IF fails THEN scripts
                       ELSE [scripts EXCEPT ![op.view] = Append(@, op)]
         /\ abandoned' = IF fails THEN abandoned \union op.data ELSE abandoned
         /\ UNCHANGED store
    ELSE /\ store' = store \ op.data
         /\ UNCHANGED <<scripts, abandoned>>

\* post_webview_op_or_else finds the view gone.
Refuse(op) ==
    /\ op.view \notin alive
    /\ store' = store \ op.data
    /\ UNCHANGED <<alive, up, queue, scripts, abandoned>>

\* It found it alive, on the run loop thread: the closure runs in place.
PostInline(op, fails) == Run(op, fails) /\ UNCHANGED <<alive, up, queue>>

\* On another thread: the closure is sent.  If the run loop has shut down it is dropped
\* without having run, and the cleanup with it.
PostRemote(op) ==
    /\ queue' = IF up THEN Append(queue, op) ELSE queue
    /\ abandoned' = IF up THEN abandoned ELSE abandoned \union op.data
    /\ UNCHANGED <<alive, up, scripts, store>>

RunPosted(fails) ==
    /\ queue # <<>>
    /\ queue' = Tail(queue)
    /\ Run(Head(queue), fails)
    /\ UNCHANGED <<alive, up>>

\* The WxpWebView is dropped, and with it the native view and its page.
DropOwner(w) ==
    /\ w \in alive
    /\ alive' = alive \ {w}
    /\ scripts' = [scripts EXCEPT ![w] = <<>>]
    /\ UNCHANGED <<up, queue, store>>

\* The run loop shuts down.  A queue that the host owns still runs, any other is dropped.
StopLoop ==
    /\ up
    /\ up' = FALSE
    /\ \/ UNCHANGED <<queue, abandoned>>
       \/ queue' = <<>> /\ abandoned' = abandoned \union DataOf(Entries(queue))
    /\ UNCHANGED <<alive, scripts, store>>

DispatchTypeOK(scriptSet, data) ==
    LET Ops == [view : Views, script : scriptSet, data : SUBSET data]
    IN  /\ alive \subseteq Views
        /\ up \in BOOLEAN
        /\ queue \in Seq(Ops)
        /\ scripts \in [Views -> Seq(Ops)]
        /\ store \subseteq data
        /\ abandoned \subseteq data
=============================================================================
