------------------------------- MODULE WebPage -------------------------------
(***************************************************************************)
(* One web view, its page and its scripts.  The page lives in a process of *)
(* its own: scripts go there, commits and messages come back, in order and *)
(* each with a delay.  SchemeTasks adds what the page loads from custom    *)
(* protocols.                                                              *)
(***************************************************************************)
EXTENDS Desktop, Naturals, Sequences

CONSTANTS
    MaxLoads,   \* bound: loads that are begun
    MaxEvals,   \* bound: scripts that the host evaluates
    MaxPosts    \* bound: messages that pages post with window.ipc

ASSUME WebPageAssumption == MaxLoads \in Nat \ {0} /\ MaxEvals \in Nat /\ MaxPosts \in Nat

VARIABLES
    pending,    \* pending_scripts: whether it is Some, and the scripts
    ui,         \* what the UI process knows: the committed document, the load under way or 0
    web,        \* the page's process: its document, 0 for the initial one, and whether it lives
    toWeb,      \* scripts on their way to the page
    toUi,       \* commits and messages on their way back
    loads, evals, posts,
    early,      \* history: scripts that were put into pending
    ran,        \* history: scripts that ran, with the document they ran in
    heard,      \* history: requests to ipc_handler: the document that posted it, its uri
    terminated  \* history: the page's process died

pageVars == <<desktopVars, pending, ui, web, toWeb, toUi, loads, evals, posts, early, ran, heard,
              terminated>>

NoScripts == [open |-> FALSE, scripts |-> <<>>]

\* pending_scripts of a new view
GtkView == [open |-> TRUE, scripts |-> <<>>]
WkView == [open |-> TRUE, scripts |-> <<>>]
WebView2View == NoScripts

PageInit ==
    /\ DesktopInit
    /\ pending = CASE Gtk -> GtkView [] Wk -> WkView [] WebView2 -> WebView2View
    /\ ui = [doc |-> 0, load |-> 0]
    /\ web = [doc |-> 0, alive |-> TRUE]
    /\ toWeb = <<>> /\ toUi = <<>>
    /\ loads = 0 /\ evals = 0 /\ posts = 0
    /\ early = {} /\ ran = <<>> /\ heard = <<>> /\ terminated = FALSE

-----------------------------------------------------------------------------
(* Navigation.                                                             *)

\* load_url and the like, reload, or a link in the page: the load takes the place of one that has
\* not committed, unless the navigation handler refuses it.
Begin ==
    \/ UNCHANGED <<loads, ui, web>>
    \/ /\ loads' = loads + 1
       /\ ui' = [ui EXCEPT !.load = loads']
       /\ web' = [web EXCEPT !.alive = TRUE]

GtkNavigate == Gtk /\ Begin         \* connect_decide_policy
WkNavigate == Wk /\ Begin           \* navigation_policy; a download leaves the page where it is
WebView2Navigate == WebView2 /\ Begin   \* NavigationStarting

Navigate ==
    /\ Alive /\ loads < MaxLoads
    /\ GtkNavigate \/ WkNavigate \/ WebView2Navigate
    /\ UNCHANGED <<desktopVars, pending, toWeb, toUi, evals, posts, early, ran, heard, terminated>>

\* The page's process commits the load it was given last.
WebCommits ==
    /\ Alive /\ web.alive
    /\ ui.load > web.doc
    /\ web' = [web EXCEPT !.doc = ui.load]
    /\ toUi' = Append(toUi, [kind |-> "commit", doc |-> ui.load])
    /\ UNCHANGED <<desktopVars, pending, ui, toWeb, loads, evals, posts, early, ran, heard, terminated>>

-----------------------------------------------------------------------------
(* Commits.  The page load handler may evaluate a script (`more`).         *)

Pushed(more) == IF more THEN Append(pending.scripts, evals + 1) ELSE pending.scripts

\* variant: the pending scripts are taken before the page load handler adds one
FlushBeforeHandler(more) ==
    /\ pending' = NoScripts
    /\ IF pending.open
       THEN /\ toWeb' = toWeb \o pending.scripts
            /\ early' = IF more THEN early \union {evals + 1} ELSE early
       ELSE /\ toWeb' = toWeb \o Pushed(more)
            /\ UNCHANGED early

\* variant: the scripts stay pending after they were run
FlushKeeps(more) ==
    IF pending.open
    THEN /\ pending' = [pending EXCEPT !.scripts = Pushed(more)]
         /\ toWeb' = toWeb \o Pushed(more)
         /\ early' = IF more THEN early \union {evals + 1} ELSE early
    ELSE /\ toWeb' = toWeb \o Pushed(more)
         /\ UNCHANGED <<pending, early>>

\* The page load handler comes first; then the pending scripts are evaluated, with the one that it
\* evaluated among them, and none is pending any more.
Flush(more) ==
    /\ pending' = NoScripts
    /\ toWeb' = toWeb \o Pushed(more)
    /\ early' = IF more /\ pending.open THEN early \union {evals + 1} ELSE early

GtkCommitted(more) == Gtk /\ Flush(more)        \* connect_load_changed, twice
WkCommitted(more) == Wk /\ Flush(more)          \* did_commit_navigation
ContentLoading(more) == WebView2 /\ Flush(more) \* nothing is ever pending here

UiCommits ==
    /\ Alive
    /\ toUi # <<>> /\ Head(toUi).kind = "commit"
    /\ toUi' = Tail(toUi)
    /\ LET doc == Head(toUi).doc IN
       ui' = [doc |-> doc, load |-> IF ui.load = doc THEN 0 ELSE ui.load]
    /\ \E more \in BOOLEAN :
        /\ more => evals < MaxEvals
        /\ evals' = IF more THEN evals + 1 ELSE evals
        /\ GtkCommitted(more) \/ WkCommitted(more) \/ ContentLoading(more)
    /\ UNCHANGED <<desktopVars, web, loads, posts, ran, heard, terminated>>

-----------------------------------------------------------------------------
(* Scripts.                                                                *)

\* A script for a process that has died is lost.
RunScript ==
    /\ toWeb' = IF web.alive THEN Append(toWeb, evals') ELSE toWeb
    /\ UNCHANGED <<pending, early>>

Pend ==
    /\ pending' = [pending EXCEPT !.scripts = Append(@, evals')]
    /\ early' = early \union {evals'}
    /\ UNCHANGED toWeb

GtkEval == Gtk /\ IF pending.open THEN Pend ELSE RunScript
WkEval == Wk /\ IF pending.open THEN Pend ELSE RunScript
WebView2Eval == WebView2 /\ RunScript

Eval ==
    /\ Alive /\ evals < MaxEvals
    /\ evals' = evals + 1
    /\ GtkEval \/ WkEval \/ WebView2Eval
    /\ UNCHANGED <<desktopVars, ui, web, toUi, loads, posts, ran, heard, terminated>>

WebRuns ==
    /\ Alive
    /\ toWeb # <<>>
    /\ toWeb' = Tail(toWeb)
    /\ ran' = Append(ran, [script |-> Head(toWeb), doc |-> web.doc])
    /\ UNCHANGED <<desktopVars, pending, ui, web, toUi, loads, evals, posts, early, heard, terminated>>

-----------------------------------------------------------------------------
(* window.ipc.postMessage, and the request that ipc_handler gets.          *)

WebPosts ==
    /\ Alive /\ web.alive /\ web.doc # 0
    /\ posts < MaxPosts
    /\ posts' = posts + 1
    /\ toUi' = Append(toUi, [kind |-> "ipc", doc |-> web.doc])
    /\ UNCHANGED <<desktopVars, pending, ui, web, toWeb, loads, evals, early, ran, heard, terminated>>

\* webview.uri(), which is that of the load under way if there is one
GtkMessage(doc) == IF ui.load # 0 THEN ui.load ELSE ui.doc
\* msg.frameInfo().request().URL()
WkMessage(doc) == doc
\* args.Source()
WebMessageReceived(doc) == doc

UiHears ==
    /\ Alive
    /\ toUi # <<>> /\ Head(toUi).kind = "ipc"
    /\ toUi' = Tail(toUi)
    /\ LET doc == Head(toUi).doc IN
       heard' = Append(heard, [doc |-> doc, load |-> ui.load,
            uri |-> CASE Gtk -> GtkMessage(doc) [] Wk -> WkMessage(doc) [] WebView2 -> WebMessageReceived(doc)])
    /\ UNCHANGED <<desktopVars, pending, ui, web, toWeb, loads, evals, posts, early, ran, terminated>>

\* web_content_process_did_terminate on wk; the other backends have no handler for it.
ProcessTerminates ==
    /\ Alive /\ web.alive /\ ~terminated
    /\ terminated' = TRUE
    /\ web' = [web EXCEPT !.alive = FALSE]
    /\ ui' = [ui EXCEPT !.load = 0]
    /\ toWeb' = <<>> /\ toUi' = <<>>
    /\ UNCHANGED <<desktopVars, pending, loads, evals, posts, early, ran, heard>>

DropPage ==
    /\ DropView
    /\ UNCHANGED <<pending, ui, web, toWeb, toUi, loads, evals, posts, early, ran, heard, terminated>>

\* Commits, scripts and messages arrive, and a load commits.
PageMoves == UiCommits \/ WebRuns \/ UiHears

\* The shape of the state.
PageTypeOK ==
    /\ backend \in Backends /\ owner \in {"alive", "dropped"}
    /\ pending \in [open : BOOLEAN, scripts : Seq(1..MaxEvals)]
    /\ ui \in [doc : 0..MaxLoads, load : 0..MaxLoads]
    /\ web \in [doc : 0..MaxLoads, alive : BOOLEAN]
    /\ toWeb \in Seq(1..MaxEvals)
    /\ toUi \in Seq([kind : {"commit", "ipc"}, doc : 1..MaxLoads])

\* Scripts run once and in the order in which they were evaluated, whether they had to wait or not
\* and whichever of them a page load handler evaluated; and one that waited for the first page does
\* not run in the empty document before it.
ScriptsReachTheirPage ==
    /\ \A i, j \in DOMAIN ran : i < j => ran[i].script < ran[j].script
    /\ \A i \in DOMAIN ran : ran[i].script \in early => ran[i].doc > 0

\* A message that a page posts is handled under the url of that page, also when the view has gone on
\* to another.  On gtk the url is asked of the view: there it may be that of the load under way.
MessageNamesItsPage ==
    \A i \in DOMAIN heard : heard[i].uri # heard[i].doc => Gtk /\ heard[i].uri = heard[i].load

\* A script that was evaluated runs as soon as there is a page, unless the view is dropped or the
\* page's process dies.
EvalRuns ==
    \A s \in 1..MaxEvals :
        (evals >= s /\ ui.doc > 0)
            ~> (~Alive \/ terminated \/ \E i \in DOMAIN ran : ran[i].script = s)
=============================================================================
