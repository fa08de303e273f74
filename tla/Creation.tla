------------------------------- MODULE Creation -------------------------------
(***************************************************************************)
(* How views come and go on gtk and wk: creation runs on the main thread   *)
(* in one go, but each of its parts may fail when others have taken        *)
(* effect, and views share tables.                                         *)
(*                                                                         *)
(*   gtk   the views of one WebContext share custom_protocols; a child     *)
(*         has an X11 container of its own in a window of the host, any    *)
(*         other view has the window itself                                *)
(*   wk    all views share WEBVIEW_STATE, by id; a view that takes over    *)
(*         the configuration of its opener shares its message handler, and *)
(*         the handlers of the schemes that it has registered              *)
(***************************************************************************)
EXTENDS Desktop, Naturals

CONSTANTS
    MaxViews,   \* bound: creations
    ViewIds,    \* ids the host chooses
    Protocols,  \* names of custom protocols
    Windows     \* gtk: the host's windows

ASSUME CreationAssumption == MaxViews \in Nat /\ ViewIds # {} /\ Windows # {}

Made == 1..MaxViews
Nobody == 0

VARIABLES
    view,           \* phase, id, the view whose content controller it shares, whether it has
                    \* ipc_handler, the host's window that it is in, whether as a child (is_child)
    registered,     \* gtk: custom_protocols of the context
    windows,        \* gtk: windows of the host that exist
    containers,     \* gtk: views whose container exists
    state,          \* wk: WEBVIEW_STATE, the view that each id stands for
    schemes,        \* wk: the view that made the handler of a scheme in a view's configuration
    listener        \* wk: the view whose delegate a content controller has

creationVars == <<view, registered, windows, containers, state, schemes, listener>>

NoSchemes == [p \in Protocols |-> Nobody]

CreationInit ==
    /\ view = [v \in Made |-> [phase |-> "none", id |-> CHOOSE i \in ViewIds : TRUE, group |-> v, ipc |-> FALSE,
                              window |-> CHOOSE w \in Windows : TRUE, child |-> TRUE]]
    /\ registered = {} /\ windows = Windows /\ containers = {}
    /\ state = [i \in ViewIds |-> Nobody]
    /\ schemes = [v \in Made |-> NoSchemes]
    /\ listener = [v \in Made |-> Nobody]

Becomes(v, phase) == view' = [view EXCEPT ![v].phase = phase]
Live(v) == view[v].phase = "live"

-----------------------------------------------------------------------------
(* webkitgtk                                                               *)

\* register_custom_protocol refuses a name that the context has; the names come in no certain
\* order, and those before the refused one stay.
RegisterProtocols(wanted) ==
    IF wanted \intersect registered = {}
    THEN registered' = registered \union wanted
    ELSE \E some \in SUBSET (wanted \ registered) : registered' = registered \union some

\* new_gtk fails for a protocol; the web view is destroyed.
NewGtk(v, wanted, window, child) ==
    /\ RegisterProtocols(wanted)
    /\ view' = [view EXCEPT ![v].phase = IF wanted \intersect registered = {} THEN "live" ELSE "failed",
                            ![v].window = window, ![v].child = child]

\* create_container_x11_window: X11Data, which would destroy it, is made only when new_gtk has
\* succeeded.
CreateContainer(v) == containers' = containers \union {v}

\* new_x11: without a display there is nothing yet.  The host gives a window that is there.
NewX11(v) ==
    /\ Gtk
    /\ \/ Becomes(v, "failed") /\ UNCHANGED <<registered, containers>>
       \/ \E wanted \in SUBSET Protocols, window \in windows, child \in BOOLEAN :
            /\ IF child THEN CreateContainer(v) ELSE UNCHANGED containers
            /\ NewGtk(v, wanted, window, child)
    /\ UNCHANGED <<windows, state, schemes, listener>>

\* XDestroyWindow takes what is in the window with it.
DestroyWindow(window) ==
    /\ windows' = windows \ {window}
    /\ containers' = {u \in containers : view[u].window # window}

\* Drop of X11Data: x11_window goes, which is the host's window unless the view is a child.  The
\* names stay with the context.
X11DataDrop(v) ==
    /\ Gtk
    /\ IF view[v].child
       THEN containers' = containers \ {v} /\ UNCHANGED windows
       ELSE DestroyWindow(view[v].window)
    /\ Becomes(v, "dropped")
    /\ UNCHANGED <<registered, state, schemes, listener>>

-----------------------------------------------------------------------------
(* wkwebview                                                               *)

\* The view has the content controller of `opener`, or one of its own.
GroupOf(v, opener) == IF opener = Nobody THEN v ELSE view[opener].group

\* The configuration of the opener, which v gets a copy of, keeps the handlers that it has.
SchemesWith(v, opener, wanted) ==
    [p \in Protocols |->
        IF opener # Nobody /\ schemes[opener][p] # Nobody THEN schemes[opener][p]
        ELSE IF p \in wanted THEN v ELSE Nobody]

\* WryWebViewDelegate::new: a second handler under the same name raises, which is caught.
AddMessageHandler(v, group, ipc) ==
    listener' = IF ipc /\ listener[group] = Nobody THEN [listener EXCEPT ![group] = v] ELSE listener

WkBecomes(v, phase, id, group, ipc) ==
    view' = [view EXCEPT ![v].phase = phase, ![v].id = id, ![v].group = group, ![v].ipc = ipc]

\* The parts that a view has when all goes well.
WkComplete(v, id, opener, ipc, wanted) ==
    /\ WkBecomes(v, "live", id, GroupOf(v, opener), ipc)
    /\ state' = [state EXCEPT ![id] = v]
    /\ schemes' = [schemes EXCEPT ![v] = SchemesWith(v, opener, wanted)]
    /\ AddMessageHandler(v, GroupOf(v, opener), ipc)

\* variant: the state is there before the schemes are
NewNsViewStateFirst(v, id, opener, ipc, wanted) ==
    \/ WkComplete(v, id, opener, ipc, wanted)
    \/ /\ WkBecomes(v, "failed", id, GroupOf(v, opener), ipc)
       /\ state' = [state EXCEPT ![id] = v]
       /\ UNCHANGED <<schemes, listener>>

\* new_ns_view: a scheme that WebKit has itself raises before there is any state.
NewNsView(v, id, opener, ipc, wanted) ==
    \/ WkComplete(v, id, opener, ipc, wanted)
    \/ /\ WkBecomes(v, "failed", id, GroupOf(v, opener), ipc)
       /\ UNCHANGED <<state, schemes, listener>>

\* Without an NSWindow, or with a url that does not parse, what has been built is dropped: that is
\* Drop, on a view that the host never had.
NewNsViewLate(v, id, opener, ipc) ==
    /\ WkBecomes(v, "failed", id, GroupOf(v, opener), ipc)
    /\ state' = [state EXCEPT ![id] = Nobody]
    /\ listener' = IF ipc THEN [listener EXCEPT ![GroupOf(v, opener)] = Nobody] ELSE listener
    /\ UNCHANGED schemes

\* new and new_as_child, alone or with the configuration that WebKit made for a popup of a view
WkNew(v) ==
    /\ Wk
    /\ \E id \in ViewIds, ipc \in BOOLEAN, opener \in {Nobody} \union {u \in Made : Live(u)} :
        \/ \E wanted \in SUBSET Protocols : NewNsView(v, id, opener, ipc, wanted)
        \/ NewNsViewLate(v, id, opener, ipc)
    /\ UNCHANGED <<registered, windows, containers>>

\* Drop takes what is under the id, and the handler of the controller, whosever they are.
WkViewDrop(v) ==
    /\ Wk
    /\ state' = [state EXCEPT ![view[v].id] = Nobody]
    /\ listener' = IF view[v].ipc THEN [listener EXCEPT ![view[v].group] = Nobody] ELSE listener
    /\ Becomes(v, "dropped")
    /\ UNCHANGED <<registered, windows, containers, schemes>>

-----------------------------------------------------------------------------
CreateView(v) ==
    /\ view[v].phase = "none" /\ \A u \in 1..(v - 1) : view[u].phase # "none"
    /\ NewX11(v) \/ WkNew(v)
    /\ UNCHANGED desktopVars

DropCreated(v) ==
    /\ Live(v)
    /\ X11DataDrop(v) \/ WkViewDrop(v)
    /\ UNCHANGED desktopVars

CreationStep == \E v \in Made : CreateView(v) \/ DropCreated(v)

\* The shape of the state.
CreationTypeOK ==
    /\ view \in [Made -> [phase : {"none", "live", "failed", "dropped"}, id : ViewIds, group : Made,
                          ipc : BOOLEAN, window : Windows, child : BOOLEAN]]
    /\ registered \subseteq Protocols /\ windows \subseteq Windows /\ containers \subseteq Made
    /\ state \in [ViewIds -> Made \union {Nobody}] /\ listener \in [Made -> Made \union {Nobody}]
    /\ schemes \in [Made -> [Protocols -> Made \union {Nobody}]]

\* A view that had the window itself, not a container in it, has been dropped.
WindowTaken(window) ==
    \E u \in Made : view[u].phase = "dropped" /\ ~view[u].child /\ view[u].window = window

\* Another view was given the same id, or a handler for the same controller.
SharesId(v) == \E u \in Made \ {v} : view[u].phase # "none" /\ view[u].id = view[v].id
SharesHandler(v) == \E u \in Made \ {v} : view[u].phase # "none" /\ view[u].ipc /\ view[u].group = view[v].group

\* The host's windows stay, a child has its container in one, and the container goes with it.  A
\* view that is no child takes the host's window when it is dropped, and all that is in it.
WindowsAreKept ==
    /\ \A w \in Windows : w \in windows \/ WindowTaken(w)
    /\ \A v \in Made :
        /\ Live(v) => view[v].window \in windows \/ WindowTaken(view[v].window)
        /\ Live(v) /\ view[v].child => v \in containers \/ WindowTaken(view[v].window)
        /\ view[v].phase = "dropped" => v \notin containers

\* The protocols of a view are looked up in the state of the view that registered them: its own,
\* or that of an opener whose configuration it took over, which must not have been dropped.
ProtocolsAreServed ==
    \A v \in Made, p \in Protocols :
        LET r == schemes[v][p] IN
        Live(v) /\ r # Nobody =>
            state[view[r].id] = r \/ SharesId(r) \/ (r # v /\ view[r].phase = "dropped")

\* Messages come to the delegate of the view, and nothing that is dropped or has failed is left in
\* the tables.
TablesAreKept ==
    \A v \in Made :
        /\ Live(v) => state[view[v].id] = v \/ SharesId(v)
        /\ Live(v) /\ view[v].ipc => listener[view[v].group] = v \/ SharesHandler(v)
        /\ ~Live(v) => (\A i \in ViewIds : state[i] # v) /\ (\A g \in Made : listener[g] # v)

\* A view keeps what it was created with as long as it lives and no longer, whatever other views
\* are created, fail half way or are dropped, but for what they share: on gtk the window of the
\* host, on wk an id, the controller of an opener's configuration and its schemes.
ViewKeepsItsParts ==
    /\ Gtk => WindowsAreKept
    /\ Wk => ProtocolsAreServed /\ TablesAreKept
=============================================================================
