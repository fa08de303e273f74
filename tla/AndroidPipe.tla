----------------------------- MODULE AndroidPipe -----------------------------
(***************************************************************************)
(* Web views on Android: every call of the host becomes a message in a     *)
(* bounded channel and a byte in a pipe that wakes the looper of the main  *)
(* thread (android/main_pipe.rs).  The activity around a view may be       *)
(* destroyed and created again meanwhile, and the handlers of a view run   *)
(* under locks that building and destroying a view takes too               *)
(* (android/mod.rs, android/binding.rs).                                   *)
(*                                                                         *)
(* Threads: "host" builds views and calls them, "bridge" brings ipc        *)
(* messages of the page, "network" its requests to custom protocols,       *)
(* "main" is the looper.  A panic of the main thread ends the process.     *)
(***************************************************************************)
EXTENDS Naturals, Sequences, FiniteSets

CONSTANTS
    Views,
    Capacity,   \* of CHANNEL: bounded(8)
    MaxCalls,   \* bound: calls by the host and by handlers
    MaxLives    \* bound: times the activity is created

None == "none"

ASSUME AndroidAssumption ==
    /\ IsFiniteSet(Views) /\ None \notin Views
    /\ Capacity \in Nat \ {0} /\ MaxCalls \in Nat /\ MaxLives \in Nat \ {0}

Threads == {"host", "bridge", "network", "main"}
Tables == {"request", "ipc", "page"}    \* REQUEST_HANDLER, IPC; "page": the other handlers

VARIABLES
    channel,    \* CHANNEL
    bytes,      \* wake bytes in MAIN_PIPE
    looper,     \* whether wryCreate's callback is registered with the looper
    proxy,      \* the activity's entry in ACTIVITY_PROXY; its webview, made in which life
    attributes, \* the activity's entry in WEBVIEW_ATTRIBUTES
    handlers,   \* the static tables: the views that each has a handler of
    locks,      \* the thread whose handler runs under a table's lock
    activity,   \* the Kotlin activity: how often created, alive, lost for good, mWebView
    thread,     \* what a thread is at, the message it sends, where it goes on
    waiting,    \* the receivers of answers that have not been dropped
    timedOut,   \* history: an asker gave up
    built,      \* views the host has an InnerWebView of, or is making one
    calls, crashed

vars == <<channel, bytes, looper, proxy, attributes, handlers, locks, activity,
          thread, waiting, timedOut, built, calls, crashed>>
pipe == <<channel, bytes, looper>>
tables == <<proxy, attributes, handlers>>
asking == <<waiting, timedOut>>

NoMessage == [type |-> None]
At(t, at) == thread[t].at = at
Goes(t, at) == thread' = [thread EXCEPT ![t].at = at]
Rests(t, at) == thread' = [thread EXCEPT ![t] = [at |-> at, message |-> NoMessage, next |-> None]]

\* `t` goes on with MainPipe::send and comes to `next` after it.
SendsFrom(t, message, next) ==
    thread' = [thread EXCEPT ![t] = [at |-> "send", message |-> message, next |-> next]]

Init ==
    /\ channel = <<>> /\ bytes = 0 /\ looper = TRUE
    /\ proxy = [there |-> FALSE, webview |-> None, life |-> 0]
    /\ attributes = None
    /\ handlers = [k \in Tables |-> {}]
    /\ locks = [k \in Tables |-> None]
    /\ activity = [life |-> 0, alive |-> FALSE, lost |-> FALSE, webview |-> None]
    /\ thread = [t \in Threads |-> [at |-> IF t = "main" THEN "looper" ELSE "idle",
                                    message |-> NoMessage, next |-> None]]
    /\ waiting = {} /\ timedOut = FALSE /\ built = {} /\ calls = 0 /\ crashed = FALSE

-----------------------------------------------------------------------------
(* MainPipe::send, and the calls that wait for an answer.                  *)

\* variant: the byte is written before the message is in the channel
SendWakeFirst(t) ==
    /\ At(t, "send")
    /\ bytes' = bytes + 1
    /\ Goes(t, "write")
    /\ UNCHANGED <<channel, looper, proxy, attributes, handlers, locks, activity, waiting, timedOut,
                   built, calls, crashed>>

\* CHANNEL.0.send blocks while the channel is full.
Send(t) ==
    /\ At(t, "send")
    /\ Len(channel) < Capacity
    /\ channel' = Append(channel, thread[t].message)
    /\ Goes(t, "write")
    /\ UNCHANGED <<bytes, looper, tables, locks, activity, asking, built, calls, crashed>>

Write(t) ==
    /\ At(t, "write")
    /\ bytes' = bytes + 1
    /\ IF thread[t].message.type = "ask" THEN Goes(t, "answer") ELSE Rests(t, thread[t].next)
    /\ UNCHANGED <<channel, looper, tables, locks, activity, asking, built, calls, crashed>>

\* recv_timeout returns: with the answer or because the sender is gone, which both take the asker
\* out of `waiting`, or after ten seconds.
Answered(t) ==
    /\ At(t, "answer")
    /\ Rests(t, thread[t].next)
    /\ waiting' = waiting \ {thread[t].message.receiver}
    /\ timedOut' = (timedOut \/ thread[t].message.receiver \in waiting)
    /\ UNCHANGED <<pipe, tables, locks, activity, built, calls, crashed>>

\* A method of InnerWebView, JniHandle::exec, dispatch or platform_webview_version, called from
\* where t is.  It asks and waits for an answer, or it does not; which message it sends is of no
\* account before that is handled, and left open until then.
Call(t) ==
    /\ calls < MaxCalls
    /\ calls' = calls + 1
    /\ \E type \in {"tell", "ask"} :
        /\ SendsFrom(t, [type |-> type, receiver |-> calls], thread[t].at)
        /\ waiting' = IF type = "ask" THEN waiting \union {calls} ELSE waiting
    /\ UNCHANGED <<pipe, tables, locks, activity, timedOut, built, crashed>>

-----------------------------------------------------------------------------
(* InnerWebView::new, on the host's thread: a handler into each table,     *)
(* under its lock, then the attributes and the message.  The last of the   *)
(* three tables stands for title, url loading and page load.               *)

New(v) ==
    /\ At("host", "idle")
    /\ proxy.there
    /\ v \notin built
    /\ locks["request"] = None
    /\ built' = built \union {v}
    /\ handlers' = [handlers EXCEPT !["request"] = @ \union {v}]
    /\ thread' = [thread EXCEPT !["host"] =
                    [at |-> "new ipc", message |-> [type |-> "create", view |-> v], next |-> "idle"]]
    /\ UNCHANGED <<pipe, proxy, attributes, locks, activity, asking, calls, crashed>>

\* android_setup has WEBVIEW_ATTRIBUTES locked until its message and the byte have been sent.
SetupSends == thread["main"].message.type = "create"

NewIpc ==
    /\ At("host", "new ipc")
    /\ locks["ipc"] = None
    /\ handlers' = [handlers EXCEPT !["ipc"] = @ \union {thread["host"].message.view}]
    /\ Goes("host", "new page")
    /\ UNCHANGED <<pipe, proxy, attributes, locks, activity, asking, built, calls, crashed>>

NewPage ==
    /\ At("host", "new page")
    /\ locks["page"] = None
    /\ ~SetupSends
    /\ handlers' = [handlers EXCEPT !["page"] = @ \union {thread["host"].message.view}]
    /\ attributes' = thread["host"].message.view
    /\ Goes("host", "send")
    /\ UNCHANGED <<pipe, proxy, locks, activity, asking, built, calls, crashed>>

-----------------------------------------------------------------------------
(* Handlers run under the lock of the table they are in, and may call the  *)
(* view.                                                                   *)

Handling == [t \in {"bridge", "network", "main"} |->
                CASE t = "bridge" -> "ipc" [] t = "network" -> "request" [] OTHER -> "page"]

Resting(t) == IF t = "main" THEN "looper" ELSE "idle"

\* The page asks or tells something through RustWebViewClient or Ipc.
HandlerStarts(t) ==
    LET k == Handling[t] IN
    /\ At(t, Resting(t))
    /\ locks[k] = None
    /\ activity.webview \in handlers[k]
    /\ locks' = [locks EXCEPT ![k] = t]
    /\ Goes(t, "handler")
    /\ UNCHANGED <<pipe, tables, activity, asking, built, calls, crashed>>

HandleRequest == HandlerStarts("network")
IpcMessage == HandlerStarts("bridge")
\* onPageLoading, onPageLoaded, handleReceivedTitle, and shouldOverride for a link
PageCallback == HandlerStarts("main")

Releases(t) ==
    /\ At(t, "handler")
    /\ locks' = [locks EXCEPT ![Handling[t]] = None]
    /\ Goes(t, Resting(t))
    /\ UNCHANGED <<pipe, tables, activity, asking, built, calls, crashed>>

\* variant: the request waits for its responder, which may never be called
ReturnsWhenAnswered(t) == t # "network" /\ Releases(t)

\* The request's handler waits for the responder, thirty seconds at most.
HandlerReturns(t) == Releases(t)

-----------------------------------------------------------------------------
(* The life of the activity, on the main thread.                           *)

\* variant: the view is left to whoever built it
SetupOnly ==
    /\ proxy' = [proxy EXCEPT !.there = TRUE]
    /\ Goes("main", "looper")

\* A new entry, or the old one, webview included, for the new activity.
RegisterActivityProxy == proxy' = [proxy EXCEPT !.there = TRUE]

\* android_setup: the view the activity had before is asked for again.
Setup ==
    /\ RegisterActivityProxy
    /\ IF attributes = None THEN Goes("main", "looper")
       ELSE SendsFrom("main", [type |-> "create", view |-> attributes], "looper")

\* Started for the first time, after a configuration change, or restored under its old id.
ActivityCreated ==
    /\ At("main", "relaunch") \/ (At("main", "looper") /\ ~activity.alive)
    /\ activity.life < MaxLives
    /\ activity' = [activity EXCEPT !.life = @ + 1, !.alive = TRUE, !.webview = None]
    /\ Setup
    /\ UNCHANGED <<pipe, attributes, handlers, locks, asking, built, calls, crashed>>

\* onWebviewDestroy: after a configuration change the system creates the activity again at once.
ActivityDestroyed(changing) ==
    /\ At("main", "looper")
    /\ activity.alive
    /\ changing => activity.life < MaxLives
    /\ activity' = [activity EXCEPT !.alive = FALSE, !.lost = @ \/ ~changing]
    /\ SendsFrom("main", [type |-> "destroy", view |-> activity.webview, changing |-> changing],
                 IF changing THEN "relaunch" ELSE "looper")
    /\ UNCHANGED <<pipe, tables, locks, asking, built, calls, crashed>>

-----------------------------------------------------------------------------
(* MainPipe::recv.  A call into Java may fail: the error unregisters the   *)
(* looper's callback.                                                      *)

Done == Rests("main", "looper")

SetWebView(v) == activity' = [activity EXCEPT !.webview = v]

\* The view is the activity's content, and the proxy's webview from now on.
WebViewCreated(v) ==
    /\ SetWebView(v)
    /\ proxy' = [proxy EXCEPT !.webview = v, !.life = activity.life]
    /\ UNCHANGED looper

CreateFails(v) ==
    /\ looper' = FALSE
    /\ UNCHANGED activity \/ SetWebView(v)
    /\ UNCHANGED proxy

CreateWebView(v) ==
    /\ IF proxy.there THEN WebViewCreated(v) \/ CreateFails(v)
       ELSE UNCHANGED <<looper, proxy, activity>>
    /\ Done
    /\ UNCHANGED <<attributes, handlers, locks, asking, crashed>>

\* get_webview unwraps the activity's entry; without a webview the message is dropped.
GetWebView ==
    /\ crashed' = ~proxy.there
    /\ looper' \in IF proxy.there /\ proxy.webview # None THEN BOOLEAN ELSE {TRUE}

\* Eval, SetBackgroundColor, LoadHtml, Reload and ClearAllBrowsingData
Operate ==
    /\ GetWebView
    /\ Done
    /\ UNCHANGED <<tables, locks, activity, asking>>

\* RustWebView.loadUrl calls back before it loads: the navigation handler runs inside of recv.
ShouldOverride ==
    /\ proxy.webview \in handlers["page"]
    /\ locks["page"] = None
    /\ locks' = [locks EXCEPT !["page"] = "main"]
    /\ Rests("main", "handler")

LoadUrl ==
    /\ GetWebView
    /\ ShouldOverride \/ (Done /\ UNCHANGED locks)
    /\ UNCHANGED <<tables, activity, asking>>

\* GetUrl and GetCookies.  The answer to an asker that has given up is unwrapped.  The string for
\* getCookies may fail.
Answer(receiver) ==
    /\ \/ /\ crashed' = (~proxy.there \/ (proxy.webview # None /\ receiver \notin waiting))
          /\ UNCHANGED looper
       \/ /\ proxy.there /\ proxy.webview # None
          /\ looper' = FALSE
          /\ UNCHANGED crashed
    /\ waiting' = waiting \ {receiver}
    /\ Done
    /\ UNCHANGED <<tables, locks, activity, timedOut>>

\* GetWebViewVersion answers also where there is no activity.
AnswerVersion(receiver) ==
    /\ crashed' = (receiver \notin waiting)
    /\ waiting' = waiting \ {receiver}
    /\ Done
    /\ UNCHANGED <<looper, tables, locks, activity, timedOut>>

\* Jni: the closure runs, with whatever there is of activity and webview.
RunJni == Done /\ UNCHANGED <<looper, tables, locks, activity, asking, crashed>>

\* variant: a configuration change removes what a destroyed activity leaves
DestroyAlways(m) ==
    /\ attributes' = None
    /\ thread' = [thread EXCEPT !["main"] = [at |-> "destroy ipc", message |-> m, next |-> "looper"]]
    /\ UNCHANGED <<looper, proxy, handlers, locks, activity, asking, crashed>>

\* OnDestroy, for good: destroy_webview starts with the attributes.
Destroy(m) ==
    /\ IF m.changing THEN Done /\ UNCHANGED attributes
       ELSE /\ attributes' = None
            /\ thread' = [thread EXCEPT !["main"] =
                            [at |-> "destroy ipc", message |-> m, next |-> "looper"]]
    /\ UNCHANGED <<looper, proxy, handlers, locks, activity, asking, crashed>>

\* ... goes on with the tables, each under its lock; the last ones are free, for their handlers run
\* on this thread ...
DestroyIpc ==
    /\ At("main", "destroy ipc")
    /\ locks["ipc"] = None
    /\ handlers' = [handlers EXCEPT !["ipc"] = @ \ {thread["main"].message.view}]
    /\ Goes("main", "destroy request")
    /\ UNCHANGED <<pipe, proxy, attributes, locks, activity, asking, built, calls, crashed>>

\* ... and ends with the activity's entry.
DestroyRequest ==
    /\ At("main", "destroy request")
    /\ locks["request"] = None
    /\ handlers' = [handlers EXCEPT !["request"] = @ \ {thread["main"].message.view},
                                    !["page"] = @ \ {thread["main"].message.view}]
    /\ proxy' = [there |-> FALSE, webview |-> None, life |-> 0]
    /\ Done
    /\ UNCHANGED <<pipe, attributes, locks, activity, asking, built, calls, crashed>>

Handle(m) ==
    \/ m.type = "create" /\ CreateWebView(m.view)
    \/ m.type = "tell" /\ (Operate \/ LoadUrl \/ RunJni)
    \/ m.type = "ask" /\ (Answer(m.receiver) \/ AnswerVersion(m.receiver))
    \/ m.type = "destroy" /\ Destroy(m)

\* The looper's callback: one byte, one message.
Wake ==
    /\ At("main", "looper") /\ looper /\ bytes > 0 /\ channel # <<>>
    /\ bytes' = bytes - 1
    /\ channel' = Tail(channel)
    /\ Handle(Head(channel))
    /\ UNCHANGED <<built, calls>>

-----------------------------------------------------------------------------
Steps(t) == Send(t) \/ Write(t) \/ Answered(t)

MainSteps == Wake \/ DestroyIpc \/ DestroyRequest

Running ==
    \/ \E t \in Threads : Steps(t)
    \/ HandleRequest \/ IpcMessage \/ PageCallback
    \/ \E t \in {"bridge", "network", "main"} :
        \/ HandlerReturns(t)
        \/ At(t, "handler") /\ Call(t)
    \/ At("host", "idle") /\ built # {} /\ Call("host")
    \/ \E v \in Views : New(v)
    \/ NewIpc
    \/ NewPage
    \/ ActivityCreated
    \/ \E changing \in BOOLEAN : ActivityDestroyed(changing)
    \/ MainSteps

Next == ~crashed /\ Running

\* What a thread does when it goes on from where it is: a handler returns, a view gets built, an
\* activity is created again.
Proceeds(t) ==
    \/ Steps(t)
    \/ t # "host" /\ HandlerReturns(t)
    \/ t = "host" /\ (NewIpc \/ NewPage)
    \/ t = "main" /\ At("main", "relaunch") /\ ActivityCreated

\* Threads go on, and the looper polls its pipe between Java's messages: a wake that stays possible
\* is not put off for ever, nor a table that gets free again and again.
Fairness ==
    /\ \A t \in Threads : WF_vars(~crashed /\ Proceeds(t))
    /\ SF_vars(~crashed /\ MainSteps)

Spec == Init /\ [][Next]_vars /\ Fairness

-----------------------------------------------------------------------------
\* The shape of the state; the channel holds no more than its capacity.
TypeOK ==
    /\ Len(channel) <= Capacity /\ bytes \in Nat /\ looper \in BOOLEAN
    /\ proxy \in [there : BOOLEAN, webview : Views \union {None}, life : 0..MaxLives]
    /\ attributes \in Views \union {None}
    /\ handlers \in [Tables -> SUBSET Views]
    /\ locks \in [Tables -> Threads \union {None}]
    /\ activity \in [life : 0..MaxLives, alive : BOOLEAN, lost : BOOLEAN,
                    webview : Views \union {None}]
    /\ DOMAIN thread = Threads
    /\ waiting \subseteq 0..MaxCalls /\ built \subseteq Views
    /\ timedOut \in BOOLEAN /\ crashed \in BOOLEAN /\ calls \in 0..MaxCalls

\* Each message in the channel has its byte in the pipe or a sender that is about to write it: the
\* main thread's recv never blocks, and no message is left without a wake.
WakesMatchMessages ==
    bytes + Cardinality({t \in Threads : At(t, "write")}) = Len(channel)

\* The shape of the state, and of the pipe: the parts above.
PipeInv == TypeOK /\ WakesMatchMessages

Sending(m) == \E t \in Threads : At(t, "send") /\ thread[t].message = m
Creating(v) ==
    LET m == [type |-> "create", view |-> v]
    IN  Sending(m) \/ \E i \in DOMAIN channel : channel[i] = m

\* main_pipe.rs keeps "our webview references (callbacks etc) alive if the activity is going to be
\* recreated due to configuration changes": an activity that was never destroyed for good has the
\* view it was given, with its handlers, in its present life, or a message to create it is under
\* way; unless an error in Java has stopped the pipe.
ConfigurationChangeKeepsView ==
    activity.alive /\ ~activity.lost /\ attributes # None /\ looper =>
        /\ \A k \in Tables : attributes \in handlers[k]
        /\ \/ proxy.webview = attributes /\ proxy.life = activity.life
           \/ Creating(attributes)

\* The main thread panics only for an answer that comes too late, or for an activity that was
\* destroyed for good: never in a configuration change, whatever the host calls meanwhile.
PanicsOnlyLate == crashed => timedOut \/ activity.lost

\* Nobody but the main thread empties the channel.  It cannot while it sends itself, or waits for
\* the lock of a table from which a handler is running that sends.
MainIsStuck ==
    \/ At("main", "send")
    \/ At("main", "destroy ipc") /\ locks["ipc"] # None /\ At(locks["ipc"], "send")
    \/ At("main", "destroy request") /\ locks["request"] # None /\ At(locks["request"], "send")

\* A send that found the channel full returns, unless the process or the pipe is dead: a full
\* channel can block the threads for good in no other way than the two above.  As calls are bounded,
\* that each send returns comes to this: again and again there is no thread in one.
SendReturns ==
    []<>(\A t \in Threads : At(t, "send") => crashed \/ ~looper \/ MainIsStuck)
=============================================================================
