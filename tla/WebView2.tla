------------------------------ MODULE WebView2 ------------------------------
(***************************************************************************)
(* The life of a web view on Windows: webview2/mod.rs creates it without   *)
(* pumping messages.  InnerWebView::new returns at once, the creation goes *)
(* on in WebView2's completion callbacks, controllers are created one at a *)
(* time per thread, and what is asked of a view before it is ready is      *)
(* kept and replayed.  The owner may drop the view at any point of this.   *)
(*                                                                         *)
(* Everything happens on one UI thread: an action is one call from the     *)
(* host, one completion callback or one window message.                    *)
(***************************************************************************)
EXTENDS Naturals, Sequences, FiniteSets, SequencesExt

CONSTANTS
    Views,          \* views that may be built on the thread
    Children,       \* those built with new_as_child; the others fill their parent
    Parents,        \* host windows
    Sizes, Pages,   \* bounds and pages to ask for
    Failures,       \* native calls that may fail, see below
    MaxRequests     \* bound: calls and resizes by the host after construction

None == "none"

ASSUME WebView2Assumption ==
    /\ IsFiniteSet(Views) /\ Children \subseteq Views
    /\ Failures \subseteq {"position", "env", "env callback", "controller",
                           "controller callback", "init", "focus"}
    /\ MaxRequests \in Nat
    /\ Sizes # {}
    /\ None \notin Views \union Sizes \union Pages

VARIABLES
    owner,      \* the InnerWebView: "none", "alive", "dropped", or "error" from new
    parent,     \* InnerWebView::parent
    start,      \* what PendingWebViewCreation holds: the parent, the url to load first
    state,      \* WebViewState
    step,       \* the creation: "none", "env", "queued", "controller", "done"
    queue,      \* WEBVIEW2_CONTROLLER_CREATION_QUEUE
    native,     \* the controller and its page, as WebView2 has them
    subclass,   \* dwrefdata of a parent's subclass: the view whose controller it boxes
    size,       \* client size of the parents
    asked,      \* history: the last bounds, page and visibility the host asked for
    requests

vars == <<owner, parent, start, state, step, queue, native, subclass, size, asked, requests>>

Fresh(v, visible) ==
    [alive |-> TRUE, visible |-> visible, ready |-> FALSE, bounds |-> None, page |-> None]

Init ==
    /\ owner = [v \in Views |-> "none"]
    /\ parent = [v \in Views |-> None]
    /\ start = [v \in Views |-> [parent |-> None, page |-> None]]
    /\ state = [v \in Views |-> Fresh(v, TRUE)]
    /\ step = [v \in Views |-> "none"]
    /\ queue = [active |-> FALSE, pending |-> <<>>]
    /\ native = [v \in Views |-> [controller |-> "none", visible |-> FALSE,
                                  bounds |-> None, page |-> None]]
    /\ subclass = [p \in Parents |-> None]
    /\ size = [p \in Parents |-> CHOOSE b \in Sizes : TRUE]
    /\ asked = [v \in Views |-> [bounds |-> None, page |-> None, visible |-> TRUE]]
    /\ requests = 0

-----------------------------------------------------------------------------
(* The creation queue.  `steps` is step as the caller leaves it.           *)

\* variant: a task whose owner is gone does not continue with the next one
NextCreationStuck(q, steps) ==
    /\ queue' = [active |-> q # <<>>, pending |-> IF q = <<>> THEN q ELSE Tail(q)]
    /\ step' = [v \in Views |-> IF q # <<>> /\ v = Head(q)
                                THEN IF state[v].alive THEN "controller" ELSE "done"
                                ELSE steps[v]]

\* Takes tasks off the queue until one of them has asked WebView2 for a controller: a task whose
\* owner is gone, or whose request fails at once, continues with the next one itself.
NextCreation(q, steps) ==
    \E n \in 0..Len(q) :
        /\ \A i \in 1..n : state[q[i]].alive => "controller" \in Failures
        /\ n < Len(q) => state[q[n + 1]].alive
        /\ queue' = IF n = Len(q) THEN [active |-> FALSE, pending |-> <<>>]
                                  ELSE [active |-> TRUE, pending |-> SubSeq(q, n + 2, Len(q))]
        /\ step' = [v \in Views |-> IF \E i \in 1..n : q[i] = v THEN "done"
                                    ELSE IF n < Len(q) /\ v = q[n + 1] THEN "controller"
                                    ELSE steps[v]]

Enqueue(v) ==
    IF queue.active
    THEN /\ queue' = [queue EXCEPT !.pending = Append(@, v)]
         /\ step' = [step EXCEPT ![v] = "queued"]
    ELSE NextCreation(<<v>>, step)

\* complete_controller_creation, when v's request has come to its end.
Complete(v) == NextCreation(queue.pending, [step EXCEPT ![v] = "done"])

-----------------------------------------------------------------------------
(* Construction.                                                           *)

\* CreateWindowExW fails before there is a window; a failing SetWindowPos, or a request for the
\* environment that fails at once, returns the error and leaves the window to its parent.
NewFails(v, p) ==
    /\ Failures \intersect {"position", "env"} # {}
    /\ owner' = [owner EXCEPT ![v] = "error"]
    /\ UNCHANGED <<parent, start, state, step, queue, native, subclass, size, asked, requests>>

\* bounds of a child: as given; otherwise the parent's client area (resize_to_parent).
FirstBounds(v, p, b) == IF v \in Children THEN b ELSE size[p]

\* `shared`: pl_attrs.environment is there, so that the controller is enqueued at once.
New(v, p, page, b, visible, shared) ==
    /\ LET bounds == FirstBounds(v, p, b) IN
       /\ state' = [state EXCEPT ![v] = [Fresh(v, visible) EXCEPT !.bounds = bounds]]
       /\ asked' = [asked EXCEPT ![v] = [bounds |-> bounds, page |-> page, visible |-> visible]]
    /\ owner' = [owner EXCEPT ![v] = "alive"]
    /\ parent' = [parent EXCEPT ![v] = p]
    /\ start' = [start EXCEPT ![v] = [parent |-> p, page |-> page]]
    /\ IF shared THEN Enqueue(v)
       ELSE /\ step' = [step EXCEPT ![v] = "env"]
            /\ UNCHANGED queue
    /\ UNCHANGED <<native, subclass, size, requests>>

\* One initial size and visibility stand for all: a request replaces them whatever they are.
Construct(v) ==
    /\ owner[v] = "none"
    /\ \E p \in Parents :
        \/ NewFails(v, p)
        \/ \E page \in Pages \union {None}, shared \in BOOLEAN : New(v, p, page, size[p], TRUE, shared)

\* The callback of CreateCoreWebView2EnvironmentWithOptions.  An error is logged and nothing else.
EnvironmentCompletes(v) ==
    /\ step[v] = "env"
    /\ \/ Enqueue(v)
       \/ /\ "env callback" \in Failures
          /\ step' = [step EXCEPT ![v] = "done"]
          /\ UNCHANGED queue
    /\ UNCHANGED <<owner, parent, start, state, native, subclass, size, asked, requests>>

-----------------------------------------------------------------------------
(* init_webview: settings, handlers, scripts, the first page, the parent's *)
(* subclass, visibility, focus, extensions.  A failing call closes the     *)
(* controller; one after the subclass leaves the subclass.                 *)

Built(v) == [controller |-> "open", visible |-> state[v].visible, bounds |-> None,
             page |-> start[v].page]

AttachToParent(v) ==
    IF v \in Children THEN UNCHANGED subclass
    ELSE subclass' = [subclass EXCEPT ![start[v].parent] = v]

InitFails(v) ==
    /\ native' = [native EXCEPT ![v].controller = "closed"]
    /\ \/ "init" \in Failures /\ UNCHANGED subclass
       \/ "focus" \in Failures /\ AttachToParent(v)
    /\ UNCHANGED state

\* variant: init_webview's visibility and page stand, whatever was asked for since
ReplayOnlyBounds(v, w) == [w EXCEPT !.visible = asked[v].visible, !.bounds = state[v].bounds]

\* What was asked for before the view was ready, on top of what init_webview has set up.
Replay(v, w) ==
    [w EXCEPT !.visible = state[v].visible,
              !.bounds = IF state[v].bounds = None THEN @ ELSE state[v].bounds,
              !.page = IF state[v].page = None THEN @ ELSE state[v].page]

InitSucceeds(v) ==
    /\ AttachToParent(v)
    /\ native' = [native EXCEPT ![v] = Replay(v, Built(v))]
    /\ state' = [state EXCEPT ![v].ready = TRUE, ![v].bounds = None, ![v].page = None]

\* variant: a controller that comes too late is set up all the same
FinishAnyway(v) == InitSucceeds(v) \/ InitFails(v)

\* finish_create_controller.  It asks again after init_webview whether the owner is there; nothing
\* runs in between.
Finish(v) ==
    \/ /\ ~state[v].alive
       /\ native' = [native EXCEPT ![v].controller = "closed"]
       /\ UNCHANGED <<state, subclass>>
    \/ /\ state[v].alive
       /\ InitSucceeds(v) \/ InitFails(v)

\* The callback of CreateCoreWebView2Controller: the next creation starts before this one is set up.
ControllerCompletes(v) ==
    /\ step[v] = "controller"
    /\ Complete(v)
    /\ \/ Finish(v)
       \/ /\ "controller callback" \in Failures
          /\ UNCHANGED <<state, native, subclass>>
    /\ UNCHANGED <<owner, parent, start, size, asked, requests>>

-----------------------------------------------------------------------------
(* Calls by the host, and messages to the parent's window.                 *)

Request(v) ==
    /\ owner[v] = "alive"
    /\ requests < MaxRequests
    /\ requests' = requests + 1
    /\ UNCHANGED <<owner, start, step, queue>>

SetBounds(v, b) ==
    /\ Request(v)
    /\ v \in Children
    /\ IF state[v].ready
       THEN native' = [native EXCEPT ![v].bounds = b] /\ UNCHANGED state
       ELSE state' = [state EXCEPT ![v].bounds = b] /\ UNCHANGED native
    /\ asked' = [asked EXCEPT ![v].bounds = b]
    /\ UNCHANGED <<parent, subclass, size>>

SetVisible(v, visible) ==
    /\ Request(v)
    /\ state' = [state EXCEPT ![v].visible = visible]
    /\ native' = IF state[v].ready THEN [native EXCEPT ![v].visible = visible] ELSE native
    /\ asked' = [asked EXCEPT ![v].visible = visible]
    /\ UNCHANGED <<parent, subclass, size>>

\* load_url, load_url_with_headers and load_html
Load(v, page) ==
    /\ Request(v)
    /\ IF state[v].ready
       THEN native' = [native EXCEPT ![v].page = page] /\ UNCHANGED state
       ELSE state' = [state EXCEPT ![v].page = page] /\ UNCHANGED native
    /\ asked' = [asked EXCEPT ![v].page = page]
    /\ UNCHANGED <<parent, subclass, size>>

\* PARENT_DESTROY_MESSAGE and RemoveWindowSubclass drop whichever controller the parent's subclass
\* holds; SetWindowSubclass with the same id replaces it.
Reparent(v, p) ==
    /\ Request(v)
    /\ v \notin Children
    /\ parent' = [parent EXCEPT ![v] = p]
    /\ LET detached == [subclass EXCEPT ![parent[v]] = None]
       IN  subclass' = IF state[v].ready THEN [detached EXCEPT ![p] = v] ELSE detached
    /\ IF state[v].ready
       THEN native' = [native EXCEPT ![v].bounds = size[p]] /\ UNCHANGED state
       ELSE state' = [state EXCEPT ![v].bounds = size[p]] /\ UNCHANGED native
    /\ asked' = [asked EXCEPT ![v].bounds = size[p]]
    /\ UNCHANGED size

\* WM_SIZE in parent_subclass_proc
ParentResized(p, b) ==
    /\ requests < MaxRequests
    /\ b # size[p]
    /\ requests' = requests + 1
    /\ size' = [size EXCEPT ![p] = b]
    /\ native' = [v \in Views |->
                    IF subclass[p] = v /\ native[v].controller = "open"
                    THEN [native[v] EXCEPT !.bounds = b] ELSE native[v]]
    /\ UNCHANGED <<owner, parent, start, state, step, queue, subclass, asked>>

\* InnerWebView's Drop
Drop(v) ==
    /\ owner[v] = "alive"
    /\ owner' = [owner EXCEPT ![v] = "dropped"]
    /\ state' = [state EXCEPT ![v].alive = FALSE, ![v].ready = FALSE]
    /\ native' = IF state[v].ready THEN [native EXCEPT ![v].controller = "closed"] ELSE native
    /\ subclass' = IF v \in Children THEN subclass ELSE [subclass EXCEPT ![parent[v]] = None]
    /\ UNCHANGED <<parent, start, step, queue, size, asked, requests>>

-----------------------------------------------------------------------------
Next ==
    \/ \E v \in Views :
        \/ Construct(v)
        \/ EnvironmentCompletes(v)
        \/ ControllerCompletes(v)
        \/ \E b \in Sizes : SetBounds(v, b)
        \/ \E visible \in BOOLEAN : SetVisible(v, visible)
        \/ \E page \in Pages : Load(v, page)
        \/ \E p \in Parents : Reparent(v, p)
        \/ Drop(v)
    \/ \E p \in Parents, b \in Sizes : ParentResized(p, b)

\* WebView2 calls a completion handler back in the end, with an error where there is nothing to
\* report but that.  The host calls and drops as it likes.
Fairness == \A v \in Views : WF_vars(EnvironmentCompletes(v)) /\ WF_vars(ControllerCompletes(v))

Spec == Init /\ [][Next]_vars /\ Fairness

-----------------------------------------------------------------------------
\* The shape of the state.
TypeOK ==
    /\ owner \in [Views -> {"none", "alive", "dropped", "error"}]
    /\ step \in [Views -> {"none", "env", "queued", "controller", "done"}]
    /\ queue \in [active : BOOLEAN, pending : Seq(Views)]
    /\ state \in [Views -> [alive : BOOLEAN, visible : BOOLEAN, ready : BOOLEAN,
                            bounds : Sizes \union {None}, page : Pages \union {None}]]
    /\ native \in [Views -> [controller : {"none", "open", "closed"}, visible : BOOLEAN,
                             bounds : Sizes \union {None}, page : Pages \union {None}]]
    /\ subclass \in [Parents -> Views \union {None}]
    /\ size \in [Parents -> Sizes]
    /\ parent \in [Views -> Parents \union {None}]
    /\ start \in [Views -> [parent : Parents \union {None}, page : Pages \union {None}]]
    /\ asked \in [Views -> [bounds : Sizes \union {None}, page : Pages \union {None},
                            visible : BOOLEAN]]
    /\ requests \in 0 .. MaxRequests

\* A view that is ready shows the page, the visibility and, if it is a child, the bounds that the
\* host asked for last, also when it asked while the view was being created.
LastRequestHolds ==
    \A v \in Views : owner[v] = "alive" /\ native[v].controller = "open" =>
        /\ native[v].visible = asked[v].visible
        /\ native[v].page = asked[v].page
        /\ v \in Children => native[v].bounds = asked[v].bounds

\* A controller is open only under an owner that holds it: one that comes after its owner was
\* dropped, or whose set-up fails, is closed.
OpenControllerIsOwned ==
    \A v \in Views : native[v].controller = "open" => owner[v] = "alive" /\ state[v].ready

\* Controllers are created one at a time, and the queue is active exactly while one is: each
\* creation waits in the queue once, and for a creation that will continue it.
OneCreationAtATime ==
    /\ Cardinality({v \in Views : step[v] = "controller"}) = IF queue.active THEN 1 ELSE 0
    /\ ToSet(queue.pending) = {v \in Views : step[v] = "queued"}
    /\ IsInjective(queue.pending)

\* Controllers come one by one and for an owner: the parts above.
ControllersInv == TypeOK /\ OpenControllerIsOwned /\ OneCreationAtATime

\* Every creation comes to an end, whatever fails and whoever is dropped before it in the queue.
CreationEnds == \A v \in Views : (step[v] # "none") ~> (step[v] = "done")

\* lib.rs: reparent "attaches this webview to the given HWND and removes it from the current one".
\* The subclass of a parent the view has left no longer drives it.
LeavesItsParent ==
    \A p \in Parents : subclass[p] # None => parent[subclass[p]] = p
=============================================================================
