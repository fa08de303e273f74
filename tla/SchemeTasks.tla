----------------------------- MODULE SchemeTasks -----------------------------
(***************************************************************************)
(* Custom protocols: what a page and its resources load from the host.     *)
(* The handler gets a responder, which it may call on any thread, late or  *)
(* never, while the page that waits may have gone and the web view too.    *)
(*                                                                         *)
(*   wk        class/url_scheme_handler.rs: a task is known by its address *)
(*             in custom_protocol_task_ids; the responder checks that      *)
(*             before each of the three calls that make up a response      *)
(*   gtk       webkitgtk/web_context.rs: the responder goes to the main    *)
(*             context                                                     *)
(*   webview2  attach_custom_protocol_handler: the responder posts to the  *)
(*             view's window unless it is on the main thread               *)
(*                                                                         *)
(* Task n up to MaxLoads is the main resource of load n, a later one is a  *)
(* resource of the document that asks for it.                              *)
(***************************************************************************)
EXTENDS WebPage, FiniteSets

CONSTANTS MaxResources  \* bound: resources that documents ask for

ASSUME SchemeTasksAssumption == MaxResources \in Nat

Tasks == 1..(MaxLoads + MaxResources)

VARIABLES
    task,   \* phase, the load it belongs to, its address, what the page was told, its responder
    keys    \* custom_protocol_task_ids: an address and the task (its uuid) that it stands for

taskVars == <<task, keys>>
NoTask == 0

TasksInit ==
    /\ task = [t \in Tasks |-> [phase |-> "none", load |-> 0, address |-> 0, told |-> 0, at |-> "none"]]
    /\ keys = [a \in Tasks |-> NoTask]

Waiting(t) == task[t].phase = "waiting"
Held(t) == task[t].at \notin {"none", "gone"}

\* A task that neither WebKit nor a responder holds is freed: of what it was, its phase remains.
Freed(r) ==
    IF r.phase # "waiting" /\ r.at = "gone"
    THEN [phase |-> r.phase, load |-> 0, address |-> 0, told |-> 0, at |-> "gone"]
    ELSE r

-----------------------------------------------------------------------------
(* The page starts and stops tasks.                                        *)

\* variant: the responder does not retain its task
InUseUnretained(a) == \E t \in Tasks : task[t].address = a /\ Waiting(t)

\* An address is taken until the task there is freed.
InUse(a) == \E t \in Tasks : task[t].address = a

FreeAddress == CHOOSE a \in Tasks : ~InUse(a) /\ \A b \in 1..(a - 1) : InUse(b)

\* variant: a key that is there is kept
AddKeyOnce(a, t) == keys' = IF keys[a] = NoTask THEN [keys EXCEPT ![a] = t] ELSE keys

\* add_custom_task_key
AddKey(a, t) == keys' = [keys EXCEPT ![a] = t]

\* The handler gets its responder.
Handed(t, load) ==
    task' = [task EXCEPT ![t] = [phase |-> "waiting", load |-> load, address |-> FreeAddress,
                                 told |-> 0, at |-> "held"]]

\* A request that cannot be built is answered at once.
Refused(t, load, phase) ==
    task' = [task EXCEPT ![t] = Freed([phase |-> phase, load |-> load, address |-> FreeAddress,
                                       told |-> 0, at |-> "gone"])]

\* The error page is a page; the key stays.
RespondWith404(t, load) == Refused(t, load, "finished")

\* start_task
StartTask(t, load) ==
    /\ Wk
    /\ AddKey(FreeAddress, t)
    /\ Handed(t, load) \/ RespondWith404(t, load)

\* The callback of register_uri_scheme; finish_error fails the load.
UriSchemeRequest(t, load) ==
    /\ Gtk
    /\ Handed(t, load) \/ Refused(t, load, "failed")
    /\ UNCHANGED keys

\* prepare_request fails: 400 Bad Request
BadRequest(t, load) == Refused(t, load, "finished")

WebResourceRequested(t, load) ==
    /\ WebView2
    /\ Handed(t, load) \/ BadRequest(t, load)
    /\ UNCHANGED keys

Start(t, load) ==
    /\ task[t].phase = "none"
    /\ StartTask(t, load) \/ UriSchemeRequest(t, load) \/ WebResourceRequested(t, load)
    /\ UNCHANGED pageVars

StartMain == Alive /\ ui.load # 0 /\ Start(ui.load, ui.load)

StartResource(t) ==
    /\ t > MaxLoads
    /\ Alive /\ web.alive /\ web.doc # 0
    /\ \A u \in Tasks : u > MaxLoads /\ u < t => task[u].phase # "none"
    /\ Start(t, web.doc)

\* The page of a task is gone: replaced, closed with its view, or dead with its process.
Superseded(t) ==
    \/ ~Alive
    \/ ~web.alive
    \/ t <= MaxLoads /\ ui.load # t
    \/ t > MaxLoads /\ web.doc # task[t].load

\* remove_custom_task_key
RemoveKey(t) == keys' = [keys EXCEPT ![task[t].address] = NoTask]

\* stop_task on wk; the other backends cancel the request themselves.
Stop(t) ==
    /\ Waiting(t)
    /\ Superseded(t)
    /\ task' = [task EXCEPT ![t] = Freed([@ EXCEPT !.phase = "stopped"])]
    /\ IF Wk THEN RemoveKey(t) ELSE UNCHANGED keys
    /\ UNCHANGED pageVars

-----------------------------------------------------------------------------
(* The responder.                                                          *)

At(t, at) == task[t].at = at
Goes(t, at) == task' = [task EXCEPT ![t] = Freed([@ EXCEPT !.at = at])]

\* A page that still waits is told; one that does not, not.
Tell(t) ==
    task' = [task EXCEPT ![t] = Freed(
        [task[t] EXCEPT !.at = "gone", !.phase = IF Waiting(t) THEN "finished" ELSE task[t].phase])]

\* The closure that MainContext::invoke runs: at once on the main thread, or later.
GtkRespond(t) == Gtk /\ (Tell(t) \/ Goes(t, "queued"))

\* It runs on the main thread, or dispatch_handler posts it to the view's window.
WebView2Respond(t) == WebView2 /\ (Tell(t) \/ Goes(t, "queued"))

WkRespond(t) == Wk /\ Goes(t, "check")

Respond(t) ==
    /\ At(t, "held")
    /\ GtkRespond(t) \/ WebView2Respond(t) \/ WkRespond(t)
    /\ UNCHANGED <<pageVars, keys>>

\* The handler forgets its responder, which has no Drop: the page waits until it is stopped.
Forget(t) ==
    /\ At(t, "held")
    /\ Goes(t, "gone")
    /\ UNCHANGED <<pageVars, keys>>

\* finish_with_response, in the main context
FinishWithResponse(t) == Gtk /\ Tell(t)

\* EXEC_MSG_ID in main_thread_dispatcher_proc.  The message is lost with the window.
DispatcherProc(t) == WebView2 /\ IF Alive THEN Tell(t) ELSE Goes(t, "gone")

RunQueued(t) ==
    /\ At(t, "queued")
    /\ FinishWithResponse(t) \/ DispatcherProc(t)
    /\ UNCHANGED <<pageVars, keys>>

\* check_webview_id_valid and check_task_is_valid
Valid(t) == Alive /\ keys[task[t].address] = t

\* The check and the call after it are two steps: stop_task runs on the main thread.
Check(t) ==
    /\ At(t, "check")
    /\ Goes(t, IF Valid(t) THEN "call" ELSE "gone")
    /\ UNCHANGED <<pageVars, keys>>

\* didReceiveResponse, didReceiveData, didFinish.  A task that was stopped meanwhile throws, which
\* is caught and ends the responder.
Call(t) ==
    /\ At(t, "call")
    /\ IF Waiting(t)
       THEN task' = [task EXCEPT ![t].told = @ + 1,
                                 ![t].phase = IF task[t].told = 2 THEN "finished" ELSE @,
                                 ![t].at = IF task[t].told = 2 THEN "remove" ELSE "check"]
       ELSE Goes(t, "gone")
    /\ UNCHANGED <<pageVars, keys>>

\* The key goes if the view is still there; then the task is released.
Finish(t) ==
    /\ At(t, "remove")
    /\ IF Alive THEN RemoveKey(t) ELSE UNCHANGED keys
    /\ Goes(t, "gone")
    /\ UNCHANGED pageVars

Responding(t) == RunQueued(t) \/ Check(t) \/ Call(t) \/ Finish(t)

-----------------------------------------------------------------------------
\* A load commits when its main resource is there, and fails with it.
LoadCommits == ui.load # 0 /\ task[ui.load].phase = "finished" /\ WebCommits /\ UNCHANGED taskVars

LoadFails ==
    /\ ui.load # 0 /\ task[ui.load].phase = "failed"
    /\ ui' = [ui EXCEPT !.load = 0]
    /\ UNCHANGED <<desktopVars, pending, web, toWeb, toUi, loads, evals, posts, early, ran, heard,
                   terminated, task, keys>>

TaskStep ==
    \/ StartMain
    \/ \E t \in Tasks :
        StartResource(t) \/ Stop(t) \/ Respond(t) \/ Forget(t) \/ Responding(t)

\* The shape of the state.
TasksTypeOK ==
    /\ task \in [Tasks -> [phase : {"none", "waiting", "finished", "failed", "stopped"},
                           load : 0..MaxLoads, address : Tasks \union {0}, told : 0..3,
                           at : {"none", "held", "queued", "check", "call", "remove", "gone"}]]
    /\ keys \in [Tasks -> Tasks \union {NoTask}]

\* On wk a task that waits for its responder has its address to itself in
\* custom_protocol_task_ids: neither the end of an older task at that address nor one that was
\* stopped takes the key from it.
KeyOfRunningTask ==
    Wk /\ Alive => \A t \in Tasks : Waiting(t) /\ Held(t) => keys[task[t].address] = t

\* The answer to a page that waits for it arrives, unless the page is stopped or the view dropped,
\* whatever thread it comes from.
AnswerArrives ==
    \A t \in Tasks : (Waiting(t) /\ Held(t) /\ ~At(t, "held")) ~> (~Waiting(t) \/ ~Alive)
=============================================================================
