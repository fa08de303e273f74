------------------------------ MODULE NewWindows ------------------------------
(***************************************************************************)
(* window.open: the request to the host's handler, and the windows and web *)
(* views that the default implementation opens.                            *)
(*                                                                         *)
(*   gtk       connect_create keeps the new InnerWebView in                *)
(*             related_webviews under the id of the opener's window, which *)
(*             is the same for all its popups                              *)
(*   wk        create_web_view_for_navigation_action keeps it in           *)
(*             new_windows until the window closes                         *)
(*   webview2  NewWindowRequested takes a deferral and asks the handler    *)
(*             from the message loop; the window that WebView2 opens is    *)
(*             its own                                                     *)
(*                                                                         *)
(* A panic in a callback of gtk ends the process.                          *)
(***************************************************************************)
EXTENDS Desktop, Naturals

CONSTANTS MaxPopups  \* bound: calls of window.open

ASSUME NewWindowsAssumption == MaxPopups \in Nat

Popups == 1..MaxPopups

VARIABLES
    request,    \* window.open: "none", "deferred", "answered" or "panicked"
    popup,      \* its window: "none", "open" or "closed"
    popupView,  \* the web view in it: "none", "live", "destroyed" or, by its own script, "closed"
    kept        \* popups whose view is in related_webviews or new_windows

popupVars == <<request, popup, popupView, kept>>

NewWindowsInit ==
    /\ request = [p \in Popups |-> "none"]
    /\ popup = [p \in Popups |-> "none"]
    /\ popupView = [p \in Popups |-> "none"]
    /\ kept = {}

Panicked == \E p \in Popups : request[p] = "panicked"

Destroyed(views) == popupView' = [p \in Popups |-> IF p \in views THEN "destroyed" ELSE popupView[p]]

-----------------------------------------------------------------------------
\* Deny, or Create with a web view of the host's own
Answer(p) ==
    /\ request' = [request EXCEPT ![p] = "answered"]
    /\ UNCHANGED <<popup, popupView, kept>>

\* NewWindowResponse::Allow where the opener's toplevel is no ApplicationWindow, as that of new_x11,
\* or has no application: an unwrap.
GtkPanics(p) ==
    /\ request' = [request EXCEPT ![p] = "panicked"]
    /\ UNCHANGED <<popup, popupView, kept>>

\* NewWindowResponse::Allow.  If new_gtk fails an empty window stays.  Otherwise the view takes the
\* place of an older popup's, which is dropped and so destroyed.
GtkAllow(p) ==
    /\ request' = [request EXCEPT ![p] = "answered"]
    /\ popup' = [popup EXCEPT ![p] = "open"]
    /\ \/ UNCHANGED <<popupView, kept>>
       \/ /\ kept' = {p}
          /\ popupView' = [q \in Popups |->
                IF q = p THEN "live" ELSE IF q \in kept THEN "destroyed" ELSE popupView[q]]

WkAllow(p) ==
    /\ request' = [request EXCEPT ![p] = "answered"]
    /\ popup' = [popup EXCEPT ![p] = "open"]
    /\ popupView' = [popupView EXCEPT ![p] = "live"]
    /\ kept' = kept \union {p}

GtkCreate(p) == Gtk /\ (Answer(p) \/ GtkAllow(p) \/ GtkPanics(p))
WkCreate(p) == Wk /\ (Answer(p) \/ WkAllow(p))

\* The handler may build web views, so it is not called inside this event: dispatch_handler.
NewWindowRequested(p) ==
    /\ WebView2
    /\ request' = [request EXCEPT ![p] = "deferred"]
    /\ UNCHANGED <<popup, popupView, kept>>

WindowOpen(p) ==
    /\ Alive
    /\ request[p] = "none" /\ \A q \in 1..(p - 1) : request[q] # "none"
    /\ GtkCreate(p) \/ WkCreate(p) \/ NewWindowRequested(p)
    /\ UNCHANGED desktopVars

\* The handler runs and the deferral completes, whatever it answers, as long as there is a window
\* to dispatch the message to.
DispatchRequest(p) ==
    /\ Alive
    /\ request[p] = "deferred"
    /\ Answer(p)
    /\ UNCHANGED desktopVars

-----------------------------------------------------------------------------
\* connect_destroy removes what is under the id of the opener's window, whichever popup's it is; the
\* view in the window goes with it.
GtkWindowDestroyed(p) == kept' = {} /\ Destroyed({q \in Popups : popupView[q] = "live" /\ q \in kept \union {p}})

\* variant: all but the one that closes are removed
WkRetainsIt(p) == kept' = kept \intersect {p} /\ Destroyed(kept \ {p})

\* windowWillClose retains the others.
WkWillClose(p) == kept' = kept \ {p} /\ Destroyed({p})

WindowCloses(p) ==
    /\ popup[p] = "open"
    /\ popup' = [popup EXCEPT ![p] = "closed"]
    /\ (Gtk /\ GtkWindowDestroyed(p)) \/ (Wk /\ WkWillClose(p))
    /\ UNCHANGED <<desktopVars, request>>

\* window.close() in the popup: connect_close destroys the view and leaves the window.  On wk the
\* delegate has no webViewDidClose.
GtkScriptCloses(p) ==
    /\ Gtk
    /\ popupView[p] = "live"
    /\ popupView' = [popupView EXCEPT ![p] = "closed"]
    /\ UNCHANGED <<desktopVars, request, popup, kept>>

\* The popups of a view that is dropped stay.
DropOpenerOfPopups == ~Panicked /\ DropView /\ UNCHANGED popupVars

PopupStep ==
    ~Panicked /\ \E p \in Popups :
        WindowOpen(p) \/ DispatchRequest(p) \/ WindowCloses(p) \/ GtkScriptCloses(p)

\* The shape of the state.
NewWindowsTypeOK ==
    /\ request \in [Popups -> {"none", "deferred", "answered", "panicked"}]
    /\ popup \in [Popups -> {"none", "open", "closed"}]
    /\ popupView \in [Popups -> {"none", "live", "destroyed", "closed"}]
    /\ kept \in SUBSET Popups

\* A web view that was opened for a popup lives only while something keeps it, and nothing keeps one
\* whose window has closed, in whatever order the windows of several popups open and close.  On wk,
\* a window that is open has its view; on gtk it has had it until the page closed it, a later popup
\* was opened or another one closed.
ViewGoesWithItsWindow ==
    /\ \A p \in Popups : popupView[p] = "live" => p \in kept
    /\ \A p \in kept : popup[p] = "open"
    /\ Wk => \A p \in Popups : popup[p] = "open" => popupView[p] = "live"
    /\ \A p \in Popups :
        popup[p] = "open" /\ popupView[p] = "destroyed" =>
            \E q \in Popups : popup[q] = "closed" \/ (q > p /\ popupView[q] # "none")
=============================================================================
