------------------------------- MODULE DragDrop -------------------------------
(***************************************************************************)
(* Drags over a web view and the DragDropEvents that the host's handler is *)
(* called with.  Drag d brings the paths d, or is of something else than   *)
(* files.  The toolkit moves a drag in, over and out or drops it; what     *)
(* each backend makes of it is the code of its drag_drop.rs.               *)
(***************************************************************************)
EXTENDS Desktop, Naturals, Sequences

CONSTANTS MaxDrags  \* bound: drags

ASSUME DragDropAssumption == MaxDrags \in Nat

Drags == 1..MaxDrags

VARIABLES
    drag,       \* the last drag: its number, of files or not, over the view or not
    gtk,        \* DragDropController: state, paths (0: None); Leave closures that are idle, drags
                \* whose data WebKitGTK has asked for
    valid,      \* webview2: enter_is_valid
    events,     \* history: the events, with their paths and the drag that they are about; of Overs
                \* in a row only the first
    crossed     \* history, gtk: drags that came in before the one before them had been told to be
                \* over, or whose data came late or was overtaken by that of an older one

dragVars == <<drag, gtk, valid, events, crossed>>

DragDropInit ==
    /\ drag = [n |-> 0, files |-> FALSE, over |-> FALSE]
    /\ gtk = [state |-> "Left", paths |-> 0, idle |-> 0, awaited |-> {}]
    /\ valid = FALSE
    /\ events = <<>>
    /\ crossed = {}

\* A handler call, about the drag d.
Emits(kind, paths, d) ==
    LET event == [kind |-> kind, paths |-> paths, of |-> d]
    IN  events' = IF events # <<>> /\ kind = "Over" /\ events[Len(events)] = event
                  THEN events ELSE Append(events, event)

\* The paths that collect_paths and iterate_filenames find.
Paths == IF drag'.files THEN drag'.n ELSE 0

-----------------------------------------------------------------------------
(* webkitgtk/drag_drop.rs                                                  *)

\* connect_drag_motion
GtkMotion == IF gtk.state = "Entered" THEN Emits("Over", 0, drag'.n) ELSE UNCHANGED events

\* connect_drag_data_received with info 2; it may come when the drag has gone.
GtkDataReceived(d) ==
    /\ Alive /\ d \in gtk.awaited
    /\ gtk' = [gtk EXCEPT !.state = "Entered", !.paths = d, !.awaited = @ \ {d}]
    /\ Emits("Enter", d, d)
    /\ crossed' = IF d = drag.n /\ drag.over THEN crossed ELSE crossed \union {d, drag.n}
    /\ UNCHANGED <<desktopVars, drag, valid>>

\* connect_drag_leave: Leave is told from an idle callback, for a drop is left first.
GtkLeft == IF gtk.state = "Left" THEN gtk ELSE [gtk EXCEPT !.state = "Leaving", !.idle = @ + 1]

GtkLeave == gtk' = GtkLeft /\ UNCHANGED events

\* The drag that left last
Gone == IF drag.over THEN drag.n - 1 ELSE drag.n

GtkIdle ==
    /\ Gtk /\ gtk.idle > 0
    /\ IF gtk.state = "Leaving"
       THEN gtk' = [gtk EXCEPT !.idle = @ - 1, !.state = "Left"] /\ Emits("Leave", 0, Gone)
       ELSE gtk' = [gtk EXCEPT !.idle = @ - 1] /\ UNCHANGED events
    /\ UNCHANGED <<desktopVars, drag, valid, crossed>>

\* variant: a drop does not end the leaving
GtkDropStillLeaving ==
    IF GtkLeft.state = "Leaving" /\ gtk.paths # 0
    THEN gtk' = [GtkLeft EXCEPT !.paths = 0] /\ Emits("Drop", gtk.paths, drag.n)
    ELSE gtk' = GtkLeft /\ UNCHANGED events

\* connect_drag_drop, after the drag-leave that GTK emits with it
GtkDropped ==
    IF GtkLeft.state = "Leaving" /\ gtk.paths # 0
    THEN gtk' = [GtkLeft EXCEPT !.paths = 0, !.state = "Left"] /\ Emits("Drop", gtk.paths, drag.n)
    ELSE gtk' = GtkLeft /\ UNCHANGED events

-----------------------------------------------------------------------------
(* wkwebview/drag_drop.rs: each call of the view is one of the handler.    *)

DraggingEntered == Emits("Enter", Paths, drag'.n)
DraggingUpdated == Emits("Over", 0, drag'.n)
DraggingExited == Emits("Leave", 0, drag.n)
PerformDragOperation == Emits("Drop", Paths, drag.n)

-----------------------------------------------------------------------------
(* webview2/drag_drop.rs: enter_is_valid is set and never reset.           *)

DragEnter ==
    IF drag'.files
    THEN valid' = TRUE /\ Emits("Enter", Paths, drag'.n)
    ELSE UNCHANGED <<valid, events>>

DragOver == IF valid THEN Emits("Over", 0, drag'.n) ELSE UNCHANGED events
DragLeave == IF valid THEN Emits("Leave", 0, drag.n) ELSE UNCHANGED events
DropFiles == IF valid THEN Emits("Drop", Paths, drag.n) ELSE UNCHANGED events

-----------------------------------------------------------------------------
DragIn(files) ==
    /\ Alive
    /\ ~drag.over /\ drag.n < MaxDrags
    /\ drag' = [n |-> drag.n + 1, files |-> files, over |-> TRUE]
    /\ gtk' = IF Gtk /\ files THEN [gtk EXCEPT !.awaited = @ \union {drag.n + 1}] ELSE gtk
    /\ \/ Gtk /\ GtkMotion /\ UNCHANGED valid
       \/ Wk /\ DraggingEntered /\ UNCHANGED valid
       \/ WebView2 /\ DragEnter
    /\ crossed' = IF gtk.state = "Left" THEN crossed ELSE crossed \union {drag.n + 1}
    /\ UNCHANGED desktopVars

DragMoves ==
    /\ Alive /\ drag.over
    /\ UNCHANGED <<desktopVars, drag, gtk, valid, crossed>>
    /\ (Gtk /\ GtkMotion) \/ (Wk /\ DraggingUpdated) \/ (WebView2 /\ DragOver)

DragOut ==
    /\ Alive /\ drag.over
    /\ drag' = [drag EXCEPT !.over = FALSE]
    /\ \/ Gtk /\ GtkLeave
       \/ Wk /\ DraggingExited /\ UNCHANGED gtk
       \/ WebView2 /\ DragLeave /\ UNCHANGED gtk
    /\ UNCHANGED <<desktopVars, valid, crossed>>

Dropping ==
    /\ Alive /\ drag.over
    /\ drag' = [drag EXCEPT !.over = FALSE]
    /\ \/ Gtk /\ GtkDropped
       \/ Wk /\ PerformDragOperation /\ UNCHANGED gtk
       \/ WebView2 /\ DropFiles /\ UNCHANGED gtk
    /\ UNCHANGED <<desktopVars, valid, crossed>>

DropDragged == DropView /\ UNCHANGED dragVars

DragStep ==
    \/ \E files \in BOOLEAN : DragIn(files)
    \/ DragMoves \/ DragOut \/ Dropping
    \/ \E d \in Drags : GtkDataReceived(d)
    \/ GtkIdle

\* The shape of the state.
DragDropTypeOK ==
    /\ drag \in [n : 0..MaxDrags, files : BOOLEAN, over : BOOLEAN]
    /\ gtk \in [state : {"Entered", "Leaving", "Left"}, paths : 0..MaxDrags, idle : Nat,
               awaited : SUBSET Drags]
    /\ valid \in BOOLEAN
    /\ events \in Seq([kind : {"Enter", "Over", "Leave", "Drop"}, paths : 0..MaxDrags, of : 0..MaxDrags])
    /\ crossed \subseteq 0..MaxDrags

Ends(i) == events[i].kind \in {"Leave", "Drop"}

\* The Enter that the event i belongs to.
EnterOf(i) ==
    {j \in 1..(i - 1) :
        /\ events[j].kind = "Enter"
        /\ \A k \in (j + 1)..(i - 1) : events[k].kind # "Enter" /\ ~Ends(k)}

\* The drag that the handler has been told is over the view.
ToldOver ==
    IF events = <<>> \/ Ends(Len(events)) THEN 0 ELSE events[Len(events)].of

\* gtk: the data of the drag has been asked for, or the Leave is idle.
Underway == drag.n \in gtk.awaited \/ (gtk.idle > 0 /\ gtk.state = "Leaving")

\* After an Enter the handler is told of Overs and of one Leave or Drop, not of a second end from
\* the idle callback that a drop overtook; a Drop has the paths that the Enter had.  On webview2
\* this is so up to the end of the first drag of files.
EveryEndHasItsEnter ==
    \A i \in DOMAIN events :
        \/ events[i].kind = "Enter"
        \/ \E j \in EnterOf(i) : /\ events[i].kind = "Drop" => events[i].paths = events[j].paths
                                 /\ \/ events[i].of = events[j].of
                                    \/ {events[i].of, events[j].of} \intersect crossed # {}
        \/ WebView2 /\ \E k \in 1..(i - 1) : Ends(k)

\* Paths are those of the drag that the event is about.
PathsAreTheDrags ==
    \A i \in DOMAIN events : events[i].paths \in {0, events[i].of} \/ events[i].of \in crossed

\* What the handler was told last is so: a drag of files that is over the view has entered, and
\* when there is none the handler does not think so.
HostKnowsTheDrag ==
    ~Underway /\ drag.n \notin crossed =>
        IF drag.over THEN drag.files => ToldOver = drag.n ELSE ToldOver = 0

\* The handler is told of each drag, and of no other, what becomes of it: its events follow its
\* Enter and end once, a Drop has its own paths, and the last event is true of what is over the
\* view.  On gtk a drag may be told as the end of another where the two cross: it came in before
\* the Leave of the one before it, or data came late.
EventsTellOfTheirDrag == EveryEndHasItsEnter /\ PathsAreTheDrags /\ HostKnowsTheDrag
=============================================================================
