--------------------------- MODULE PageEventsProofs ---------------------------
(***************************************************************************)
(* The safety invariants of PageEvents hold for every number of loads,     *)
(* scripts, messages, resources, downloads, windows, drags, calls and      *)
(* views.  Each scene has an inductive invariant of its own; the steps of  *)
(* the other scenes leave its variables alone, and the owner of the web    *)
(* view, which all share, can only be dropped.                             *)
(***************************************************************************)
EXTENDS PageEvents, TLAPS, FiniteSetTheorems, SequenceTheorems, WellFoundedInduction

\* The backend is one of three and never changes; a view that is dropped stays dropped.
DesktopOK == backend \in Backends /\ owner \in {"alive", "dropped"}

OnlyDrops == backend' = backend /\ (Alive' => Alive) /\ owner' \in {"alive", "dropped"}

LEMMA Backend ==
    ASSUME DesktopOK
    PROVE  /\ backend \in {"gtk", "wk", "webview2"}
           /\ Gtk => ~Wk /\ ~WebView2
           /\ Wk => ~Gtk /\ ~WebView2
           /\ WebView2 => ~Gtk /\ ~Wk
BY DesktopAssumption DEF DesktopOK, Gtk, Wk, WebView2

LEMMA DropOnlyDrops ==
    ASSUME DesktopOK, DropView \/ UNCHANGED desktopVars
    PROVE  OnlyDrops /\ Gtk' = Gtk /\ Wk' = Wk /\ WebView2' = WebView2
<1>1. OnlyDrops
  BY DEF DesktopOK, DropView, GtkDrop, WkDrop, WebView2Drop, Dropped, desktopVars, OnlyDrops, Alive
<1> QED BY <1>1 DEF OnlyDrops, Gtk, Wk, WebView2

-----------------------------------------------------------------------------
(* Downloads: what has not ended is not reported, and on gtk a flag is set *)
(* only when a download has failed.                                        *)

NotReportedEarly ==
    \A d \in Downloads, v \in Openers :
        /\ download[d].phase \notin {"succeeded", "failed"} => completed[d][v] = "nothing"
        /\ completed[d][v] = "succeeded" => InPhase(d, "succeeded")

FlagMeansFailure == \A v \in Openers : failed[v] => Gtk /\ \E e \in Downloads : InPhase(e, "failed")

FailureMeansFlag ==
    \A d \in Downloads, v \in Openers :
        completed[d][v] = "failed" /\ InPhase(d, "succeeded") => Gtk /\ \E e \in Downloads : InPhase(e, "failed")

EndIsReported ==
    \A d \in Downloads :
        download[d].phase \in {"succeeded", "failed"} /\ Alive => completed[d][download[d].view] # "nothing"

DownloadsInv == DownloadsTypeOK /\ NotReportedEarly /\ FlagMeansFailure /\ FailureMeansFlag /\ EndIsReported

LEMMA DownloadsInitially == ASSUME DownloadsInit PROVE DownloadsInv
<1>1. DownloadsTypeOK
  BY DEF DownloadsInit, DownloadsTypeOK, Openers
<1>2. \A d \in Downloads : InPhase(d, "none") /\ \A v \in Openers : completed[d][v] = "nothing" /\ ~failed[v]
  BY DEF DownloadsInit, InPhase
<1>3. NotReportedEarly /\ FailureMeansFlag
  BY <1>2 DEF NotReportedEarly, FailureMeansFlag, InPhase
<1>4. FlagMeansFailure
  BY DEF DownloadsInit, FlagMeansFailure
<1>5. EndIsReported
  BY <1>2 DEF EndIsReported, InPhase
<1> QED BY <1>1, <1>3, <1>4, <1>5 DEF DownloadsInv

LEMMA DownloadsFrame ==
    ASSUME DownloadsInv, OnlyDrops, UNCHANGED downloadVars
    PROVE  DownloadsInv'
BY DEF DownloadsInv, DownloadsTypeOK, NotReportedEarly, FlagMeansFailure, FailureMeansFlag, EndIsReported,
       InPhase, OnlyDrops, downloadVars, Gtk

\* What a phase change does to the downloads.
LEMMA MovesEffect ==
    ASSUME DownloadsTypeOK, NEW d \in Downloads, NEW phase, Moves(d, phase),
           phase \in {"running", "cancelled", "succeeded", "failed"}
    PROVE  /\ download' \in [Downloads -> [phase : {"none", "asked", "running", "cancelled", "succeeded",
                                                    "failed"}, view : Openers]]
           /\ \A e \in Downloads : /\ download'[e].view = download[e].view
                                   /\ download'[e].phase = IF e = d THEN phase ELSE download[e].phase
BY DEF DownloadsTypeOK, Moves

\* A completion handler is told of one download.
LEMMA ToldEffect ==
    ASSUME DownloadsTypeOK, NEW d \in Downloads, NEW views, NEW success, Told(d, views, success),
           \A v \in Openers : success[v] \in {"succeeded", "failed"}
    PROVE  /\ completed' \in [Downloads -> [Openers -> {"nothing", "succeeded", "failed"}]]
           /\ \A e \in Downloads, v \in Openers :
                completed'[e][v] = IF e = d /\ v \in views THEN success[v] ELSE completed[e][v]
<1>1. completed \in [Downloads -> [Openers -> {"nothing", "succeeded", "failed"}]]
  BY DEF DownloadsTypeOK
<1>2. completed' = [completed EXCEPT ![d] = [v \in Openers |-> IF v \in views THEN success[v] ELSE completed[d][v]]]
  BY DEF Told
<1>3. completed[d] \in [Openers -> {"nothing", "succeeded", "failed"}]
  BY <1>1
<1>4. [v \in Openers |-> IF v \in views THEN success[v] ELSE completed[d][v]]
        \in [Openers -> {"nothing", "succeeded", "failed"}]
  BY <1>3
<1> QED BY <1>1, <1>2, <1>4

\* Starting and deciding end nothing.
LEMMA UnendedStep ==
    ASSUME DownloadsInv, NEW d \in Downloads, UNCHANGED <<desktopVars, failed, completed>>,
           download' \in [Downloads -> [phase : {"none", "asked", "running", "cancelled", "succeeded",
                                                 "failed"}, view : Openers]],
           \A e \in Downloads : e # d => download'[e] = download[e],
           download[d].phase \notin {"succeeded", "failed"},
           download'[d].phase \notin {"succeeded", "failed"}
    PROVE  DownloadsInv'
<1>1. DownloadsTypeOK'
  BY DEF DownloadsInv, DownloadsTypeOK
<1>2. \A e \in Downloads : /\ InPhase(e, "succeeded")' <=> InPhase(e, "succeeded")
                           /\ InPhase(e, "failed")' <=> InPhase(e, "failed")
                           /\ download'[e].phase \in {"succeeded", "failed"}
                                => download[e].phase \in {"succeeded", "failed"} /\ download'[e] = download[e]
                           /\ download[e].phase \in {"succeeded", "failed"}
                                => download'[e].phase \in {"succeeded", "failed"}
  BY DEF InPhase
<1>3. Gtk' = Gtk /\ Alive' = Alive
  BY DEF desktopVars, Gtk, Alive
<1>4. NotReportedEarly' /\ FlagMeansFailure' /\ FailureMeansFlag' /\ EndIsReported'
  BY <1>2, <1>3 DEF DownloadsInv, NotReportedEarly, FlagMeansFailure, FailureMeansFlag, EndIsReported
<1> QED BY <1>1, <1>4 DEF DownloadsInv

\* What the end of a download tells whom: a failure noted on gtk is a failure.
LEMMA EndedStep ==
    ASSUME DownloadsInv, DesktopOK, NEW d \in Downloads, NEW phase \in {"succeeded", "failed"}, NEW views, NEW success,
           UNCHANGED desktopVars, Moves(d, phase), Told(d, views, success),
           download[d].phase \notin {"succeeded", "failed"},
           failed' \in [Openers -> BOOLEAN],
           \A v \in Openers : failed'[v] => failed[v] \/ (Gtk /\ phase = "failed"),
           \A v \in Openers : success[v] \in {"succeeded", "failed"},
           phase = "failed" => \A v \in Openers : success[v] = "failed",
           phase = "succeeded" => \A v \in Openers : success[v] = "failed" => failed[v],
           Alive => download[d].view \in views
    PROVE  DownloadsInv'
<1>1. DownloadsTypeOK
  BY DEF DownloadsInv
<1>2. /\ download' \in [Downloads -> [phase : {"none", "asked", "running", "cancelled", "succeeded",
                                               "failed"}, view : Openers]]
      /\ \A e \in Downloads : /\ download'[e].view = download[e].view
                              /\ download'[e].phase = IF e = d THEN phase ELSE download[e].phase
  BY <1>1, MovesEffect
<1>3. /\ completed' \in [Downloads -> [Openers -> {"nothing", "succeeded", "failed"}]]
      /\ \A e \in Downloads, v \in Openers :
            completed'[e][v] = IF e = d /\ v \in views THEN success[v] ELSE completed[e][v]
  BY <1>1, ToldEffect
<1>4. DownloadsTypeOK'
  BY <1>2, <1>3 DEF DownloadsTypeOK
<1>5. Gtk' = Gtk /\ Alive' = Alive
  BY DEF desktopVars, Gtk, Alive
<1>6. (\E e \in Downloads : InPhase(e, "failed")) \/ phase = "failed" => \E e \in Downloads : InPhase(e, "failed")'
  BY <1>2 DEF InPhase
<1>7. NotReportedEarly'
  BY <1>2, <1>3 DEF DownloadsInv, NotReportedEarly, InPhase
<1>8. FlagMeansFailure'
  BY <1>5, <1>6 DEF DownloadsInv, FlagMeansFailure
<1>9. FailureMeansFlag'
  <2>1. ASSUME NEW e \in Downloads, NEW v \in Openers, completed'[e][v] = "failed", InPhase(e, "succeeded")'
        PROVE  Gtk /\ \E x \in Downloads : InPhase(x, "failed")
    <3>1. CASE e # d
      BY <1>2, <1>3, <2>1, <3>1 DEF DownloadsInv, FailureMeansFlag, InPhase
    <3>2. CASE e = d
      <4>1. completed[e][v] = "nothing"
        BY <3>2 DEF DownloadsInv, NotReportedEarly
      <4>2. phase = "succeeded" /\ success[v] = "failed"
        BY <1>2, <1>3, <2>1, <3>2, <4>1 DEF InPhase
      <4> QED BY <4>2 DEF DownloadsInv, FlagMeansFailure
    <3> QED BY <3>1, <3>2
  <2> QED BY <1>5, <1>6, <2>1 DEF FailureMeansFlag
<1>10. EndIsReported'
  <2>1. ASSUME NEW e \in Downloads, download'[e].phase \in {"succeeded", "failed"}, Alive
        PROVE  completed'[e][download'[e].view] # "nothing"
    <3>1. download[e].view \in Openers
      BY <1>1 DEF DownloadsTypeOK
    <3>2. CASE e # d
      BY <1>2, <1>3, <2>1, <3>1, <3>2, SMTT(30) DEF DownloadsInv, EndIsReported
    <3>3. CASE e = d
      BY <1>2, <1>3, <2>1, <3>1, <3>3
    <3> QED BY <3>2, <3>3
  <2> QED BY <1>5, <2>1 DEF EndIsReported
<1> QED BY <1>4, <1>7, <1>8, <1>9, <1>10 DEF DownloadsInv

LEMMA DownloadsNext ==
    ASSUME DownloadsInv, DesktopOK, DownloadStep
    PROVE  DownloadsInv' /\ UNCHANGED desktopVars
<1>1. DownloadsTypeOK
  BY DEF DownloadsInv
<1>2. PICK d \in Downloads : (\E v \in Openers : DownloadStarts(d, v)) \/ Decide(d) \/ Succeeds(d) \/ Fails(d)
  BY DEF DownloadStep
<1>3. download[d].view \in Openers
  BY <1>1 DEF DownloadsTypeOK
<1>4. Alive => download[d].view \in GtkRegistrations(d) /\ download[d].view \in WkDelegates(d)
                /\ download[d].view \in WebView2Handlers(d)
  BY <1>3 DEF GtkRegistrations, WkDelegates, WebView2Handlers
<1>5. failed \in [Openers -> BOOLEAN]
  BY <1>1 DEF DownloadsTypeOK
<1>6. CASE \E v \in Openers : DownloadStarts(d, v)
  <2>1. PICK v \in Openers : DownloadStarts(d, v)
    BY <1>6
  <2>2. /\ UNCHANGED <<desktopVars, failed, completed>>
        /\ download' = [download EXCEPT ![d] = [phase |-> "asked", view |-> v]]
        /\ download[d].phase = "none"
    BY <2>1 DEF DownloadStarts, InPhase
  <2>3. /\ download' \in [Downloads -> [phase : {"none", "asked", "running", "cancelled", "succeeded",
                                                 "failed"}, view : Openers]]
        /\ \A e \in Downloads : e # d => download'[e] = download[e]
        /\ download'[d].phase = "asked"
    BY <1>1, <2>2 DEF DownloadsTypeOK
  <2> QED BY <2>2, <2>3, UnendedStep
<1>7. CASE Decide(d)
  <2>1. /\ UNCHANGED <<desktopVars, failed, completed>>
        /\ Moves(d, "running") \/ Moves(d, "cancelled")
        /\ download[d].phase = "asked"
    BY <1>7 DEF Decide, GtkDecides, WkDecides, WebView2Decides, InPhase
  <2>2. /\ download' \in [Downloads -> [phase : {"none", "asked", "running", "cancelled", "succeeded",
                                                 "failed"}, view : Openers]]
        /\ \A e \in Downloads : e # d => download'[e] = download[e]
        /\ download'[d].phase \in {"running", "cancelled"}
    <3>1. ASSUME NEW phase \in {"running", "cancelled"}, Moves(d, phase)
          PROVE  /\ download' \in [Downloads -> [phase : {"none", "asked", "running", "cancelled", "succeeded",
                                                          "failed"}, view : Openers]]
                 /\ \A e \in Downloads : e # d => download'[e] = download[e]
                 /\ download'[d].phase = phase
      BY <1>1, <3>1 DEF DownloadsTypeOK, Moves
    <3> QED BY <2>1, <3>1
  <2> QED BY <2>1, <2>2, UnendedStep
<1>8. CASE Succeeds(d)
  <2>1. UNCHANGED <<desktopVars, failed>> /\ Moves(d, "succeeded") /\ download[d].phase = "running"
    BY <1>8 DEF Succeeds, InPhase
  <2>2. \E views, success : /\ Told(d, views, success)
                            /\ Alive => download[d].view \in views
                            /\ \A v \in Openers : success[v] \in {"succeeded", "failed"}
                            /\ \A v \in Openers : success[v] = "failed" => failed[v]
    <3>1. CASE Gtk /\ GtkFinished(d)
      <4> DEFINE s == [v \in Openers |-> IF failed'[v] THEN "failed" ELSE "succeeded"]
      <4>1. Told(d, GtkRegistrations(d), s)
        BY <3>1 DEF GtkFinished
      <4>2. \A v \in Openers : s[v] \in {"succeeded", "failed"} /\ (s[v] = "failed" => failed[v])
        BY <2>1
      <4> HIDE DEF s
      <4> QED BY <1>4, <4>1, <4>2
    <3>2. CASE WkDidFinish(d) \/ StateChanged(d, "succeeded")
      <4> DEFINE s == [v \in Openers |-> "succeeded"]
      <4>1. Told(d, WkDelegates(d), s) \/ Told(d, WebView2Handlers(d), s)
        BY <3>2 DEF WkDidFinish, StateChanged
      <4>2. \A v \in Openers : s[v] = "succeeded"
        OBVIOUS
      <4> HIDE DEF s
      <4> QED BY <1>4, <4>1, <4>2
    <3> QED BY <1>8, <3>1, <3>2 DEF Succeeds
  <2> QED BY <1>5, <2>1, <2>2, EndedStep
<1>9. CASE Fails(d)
  <2>1. UNCHANGED desktopVars /\ Moves(d, "failed") /\ download[d].phase \in {"running", "cancelled"}
    BY <1>9 DEF Fails, InPhase
  <2>2. \E views, success : /\ Told(d, views, success)
                            /\ Alive => download[d].view \in views
                            /\ \A v \in Openers : success[v] = "failed"
                            /\ failed' \in [Openers -> BOOLEAN]
                            /\ \A v \in Openers : failed'[v] => failed[v] \/ Gtk
    <3>1. CASE Gtk /\ GtkFails(d) /\ GtkFinished(d)
      <4> DEFINE s == [v \in Openers |-> IF failed'[v] THEN "failed" ELSE "succeeded"]
      <4>1. Told(d, GtkRegistrations(d), s)
        BY <3>1 DEF GtkFinished
      <4>2. failed' = [v \in Openers |-> TRUE]
        BY <3>1 DEF GtkFails
      <4>3. (\A v \in Openers : s[v] = "failed") /\ failed' \in [Openers -> BOOLEAN]
        BY <4>2
      <4> HIDE DEF s
      <4> QED BY <1>4, <3>1, <4>1, <4>3
    <3>2. CASE (WkDidFail(d) \/ StateChanged(d, "failed")) /\ UNCHANGED failed
      <4> DEFINE s == [v \in Openers |-> "failed"]
      <4>1. Told(d, WkDelegates(d), s) \/ Told(d, WebView2Handlers(d), s)
        BY <3>2 DEF WkDidFail, StateChanged
      <4>2. \A v \in Openers : s[v] = "failed"
        OBVIOUS
      <4> HIDE DEF s
      <4> QED BY <1>4, <1>5, <3>2, <4>1, <4>2
    <3> QED BY <1>9, <3>1, <3>2 DEF Fails
  <2> QED BY <2>1, <2>2, EndedStep
<1> QED BY <1>2, <1>6, <1>7, <1>8, <1>9

-----------------------------------------------------------------------------
(* New windows: requests come in the order of their numbers, so that a     *)
(* view that takes the place of another is a later one's.                  *)

RequestsInOrder ==
    /\ \A p \in Popups : popup[p] # "none" => request[p] # "none"
    /\ \A p \in Popups : popupView[p] # "none" => popup[p] # "none"
    /\ \A p \in Popups : \A q \in 1..(p - 1) : request[p] # "none" => request[q] # "none"

WindowsInv == NewWindowsTypeOK /\ ViewGoesWithItsWindow /\ RequestsInOrder

Requests == {"none", "deferred", "answered", "panicked"}
PopupViews == {"none", "live", "destroyed", "closed"}

LEMMA WindowsInitially == ASSUME NewWindowsInit PROVE WindowsInv
BY DEF NewWindowsInit, WindowsInv, NewWindowsTypeOK, ViewGoesWithItsWindow, RequestsInOrder, Popups

LEMMA WindowsFrame ==
    ASSUME WindowsInv, OnlyDrops, UNCHANGED popupVars
    PROVE  WindowsInv'
BY DEF WindowsInv, NewWindowsTypeOK, ViewGoesWithItsWindow, RequestsInOrder, OnlyDrops, popupVars, Wk

LEMMA DestroyedEffect ==
    ASSUME NewWindowsTypeOK, NEW views, Destroyed(views)
    PROVE  /\ popupView' \in [Popups -> PopupViews]
           /\ \A p \in Popups : popupView'[p] = IF p \in views THEN "destroyed" ELSE popupView[p]
BY DEF NewWindowsTypeOK, Destroyed, PopupViews

\* A request moves on, of which the earlier ones have come.
LEMMA RequestMoves ==
    ASSUME NewWindowsTypeOK, RequestsInOrder, NEW p \in Popups, NEW to \in Requests, to # "none",
           request' = [request EXCEPT ![p] = to], \A q \in 1..(p - 1) : request[q] # "none"
    PROVE  /\ request' \in [Popups -> Requests]
           /\ \A q \in Popups : request[q] # "none" \/ q = p => request'[q] # "none"
           /\ \A r \in Popups : \A q \in 1..(r - 1) : request'[r] # "none" => request'[q] # "none"
<1>1. /\ request' \in [Popups -> Requests]
      /\ \A q \in Popups : request'[q] = IF q = p THEN to ELSE request[q]
  BY DEF NewWindowsTypeOK, Requests
<1>2. \A r \in Popups : \A q \in 1..(r - 1) : q \in Popups
  BY NewWindowsAssumption DEF Popups
<1>3. \A r \in Popups : \A q \in 1..(r - 1) : request[r] # "none" => request[q] # "none"
  BY DEF RequestsInOrder
<1>4. ASSUME NEW r \in Popups, NEW q \in 1..(r - 1), request'[r] # "none" PROVE request'[q] # "none"
  BY <1>1, <1>2, <1>3, <1>4
<1> QED BY <1>1, <1>4

LEMMA WindowsNext ==
    ASSUME WindowsInv, DesktopOK, PopupStep
    PROVE  WindowsInv' /\ UNCHANGED desktopVars
<1>1. /\ NewWindowsTypeOK /\ RequestsInOrder
      /\ \A p \in Popups : popupView[p] = "live" => p \in kept
      /\ \A p \in kept : popup[p] = "open"
      /\ Wk => \A p \in Popups : popup[p] = "open" => popupView[p] = "live"
      /\ \A p \in Popups :
            popup[p] = "open" /\ popupView[p] = "destroyed" =>
                \E q \in Popups : popup[q] = "closed" \/ (q > p /\ popupView[q] # "none")
  BY DEF WindowsInv, ViewGoesWithItsWindow
<1>2. PICK p \in Popups : WindowOpen(p) \/ DispatchRequest(p) \/ WindowCloses(p) \/ GtkScriptCloses(p)
  BY DEF PopupStep
<1>3. UNCHANGED desktopVars
  BY <1>2 DEF WindowOpen, DispatchRequest, WindowCloses, GtkScriptCloses
<1>4. Wk' = Wk /\ Gtk' = Gtk /\ (Gtk => ~Wk)
  BY <1>3, Backend DEF desktopVars, Wk, Gtk
<1> SUFFICES WindowsInv'
  BY <1>3
<1>5. /\ request \in [Popups -> Requests] /\ popupView \in [Popups -> PopupViews]
      /\ popup \in [Popups -> {"none", "open", "closed"}] /\ kept \in SUBSET Popups
  BY <1>1 DEF NewWindowsTypeOK, Requests, PopupViews
<1>6. ASSUME request' \in [Popups -> Requests], popupView' \in [Popups -> PopupViews],
             popup' \in [Popups -> {"none", "open", "closed"}], kept' \in SUBSET Popups
      PROVE  NewWindowsTypeOK'
  BY <1>6 DEF NewWindowsTypeOK, Requests, PopupViews
<1>7. ASSUME WindowOpen(p) \/ DispatchRequest(p) PROVE \A q \in 1..(p - 1) : request[q] # "none"
  BY <1>1, <1>7 DEF WindowOpen, DispatchRequest, RequestsInOrder
<1>8. ASSUME WindowOpen(p) \/ DispatchRequest(p), Answer(p) \/ NewWindowRequested(p) \/ GtkPanics(p)
      PROVE  WindowsInv'
  <2>1. PICK to \in Requests : to # "none" /\ request' = [request EXCEPT ![p] = to]
    BY <1>8 DEF Answer, NewWindowRequested, GtkPanics, Requests
  <2>2. UNCHANGED <<popup, popupView, kept>>
    BY <1>8 DEF Answer, NewWindowRequested, GtkPanics
  <2>3. /\ request' \in [Popups -> Requests]
        /\ \A q \in Popups : request[q] # "none" => request'[q] # "none"
        /\ \A r \in Popups : \A q \in 1..(r - 1) : request'[r] # "none" => request'[q] # "none"
    BY <1>1, <1>7, <1>8, <2>1, RequestMoves
  <2>4. RequestsInOrder'
    BY <1>1, <2>2, <2>3 DEF RequestsInOrder
  <2>5. ViewGoesWithItsWindow'
    BY <1>1, <1>4, <2>2 DEF ViewGoesWithItsWindow
  <2> QED BY <1>5, <1>6, <2>2, <2>3, <2>4, <2>5 DEF WindowsInv
<1>9. ASSUME WindowOpen(p), (Gtk /\ GtkAllow(p)) \/ (Wk /\ WkAllow(p)) PROVE WindowsInv'
  <2>1. /\ request' = [request EXCEPT ![p] = "answered"]
        /\ popup' = [popup EXCEPT ![p] = "open"]
        /\ request[p] = "none"
    BY <1>9 DEF GtkAllow, WkAllow, WindowOpen
  <2>2. /\ request' \in [Popups -> Requests]
        /\ \A q \in Popups : request[q] # "none" \/ q = p => request'[q] # "none"
        /\ \A r \in Popups : \A q \in 1..(r - 1) : request'[r] # "none" => request'[q] # "none"
    <3>1. "answered" \in Requests
      BY DEF Requests
    <3> QED BY <1>1, <1>7, <1>9, <2>1, <3>1, RequestMoves
  <2>3. popup[p] = "none" /\ popupView[p] = "none" /\ p \notin kept
    BY <1>1, <2>1 DEF RequestsInOrder
  <2>4. \A q \in kept : p > q
    <3> SUFFICES ASSUME NEW q \in Popups, q \in kept PROVE p > q
      BY <1>5
    <3>1. popup[q] = "open" /\ request[q] # "none" /\ q # p
      BY <1>1, <2>3 DEF RequestsInOrder
    <3>2. p \notin 1..(q - 1)
      BY <1>1, <2>1, <3>1 DEF RequestsInOrder
    <3> QED BY <3>1, <3>2, NewWindowsAssumption DEF Popups
  <2>5. /\ popup' \in [Popups -> {"none", "open", "closed"}]
        /\ popup'[p] = "open"
        /\ \A q \in Popups : q # p => popup'[q] = popup[q]
    BY <1>5, <2>1
  <2>6. /\ popupView' \in [Popups -> PopupViews] /\ kept' \in SUBSET Popups
        /\ \A q \in Popups : q # p => \/ popupView'[q] = popupView[q]
                                      \/ q \in kept /\ popupView'[q] = "destroyed" /\ popupView'[p] = "live"
        /\ \A q \in Popups : popupView'[q] = "live" => q \in kept'
        /\ \A q \in kept' : q = p \/ q \in kept
        /\ popupView'[p] \in {"none", "live"}
        /\ Wk => popupView'[p] = "live" /\ \A q \in Popups : q # p => popupView'[q] = popupView[q]
    <3>1. CASE Gtk /\ GtkAllow(p) /\ UNCHANGED <<popupView, kept>>
      BY <1>1, <1>4, <1>5, <2>3, <3>1
    <3>2. CASE /\ Gtk /\ kept' = {p}
               /\ popupView' = [q \in Popups |->
                      IF q = p THEN "live" ELSE IF q \in kept THEN "destroyed" ELSE popupView[q]]
      BY <1>1, <1>4, <1>5, <3>2 DEF PopupViews
    <3>3. CASE Wk /\ WkAllow(p)
      BY <1>1, <1>5, <3>3 DEF WkAllow, PopupViews
    <3> QED BY <1>9, <3>1, <3>2, <3>3 DEF GtkAllow
  <2>7. RequestsInOrder'
    <3>1. \A q \in Popups : popup'[q] # "none" => request'[q] # "none"
      BY <1>1, <2>2, <2>5 DEF RequestsInOrder
    <3>2. \A q \in Popups : popupView'[q] # "none" => popup'[q] # "none"
      BY <1>1, <2>5, <2>6 DEF RequestsInOrder
    <3> QED BY <2>2, <3>1, <3>2 DEF RequestsInOrder
  <2>8. ASSUME NEW q \in Popups, popup'[q] = "open", popupView'[q] = "destroyed"
        PROVE  \E r \in Popups : popup'[r] = "closed" \/ (r > q /\ popupView'[r] # "none")
    <3>1. q # p
      BY <2>6, <2>8
    <3>2. CASE q \in kept /\ popupView'[q] = "destroyed" /\ popupView'[p] = "live"
      BY <2>4, <3>2
    <3>3. CASE popupView'[q] = popupView[q]
      <4>1. PICK r \in Popups : popup[r] = "closed" \/ (r > q /\ popupView[r] # "none")
        BY <1>1, <2>5, <2>8, <3>1, <3>3
      <4>2. r # p /\ popup'[r] = popup[r]
        BY <2>3, <2>5, <4>1
      <4>3. popupView[r] # "none" => popupView'[r] # "none"
        BY <2>6, <4>2
      <4> QED BY <4>1, <4>2, <4>3
    <3> QED BY <2>6, <3>1, <3>2, <3>3
  <2>9. /\ \A q \in kept' : popup'[q] = "open"
        /\ Wk => \A q \in Popups : popup'[q] = "open" => popupView'[q] = "live"
    BY <1>1, <1>5, <2>5, <2>6
  <2>10. ViewGoesWithItsWindow'
    BY <1>4, <2>6, <2>8, <2>9 DEF ViewGoesWithItsWindow
  <2> QED BY <1>6, <2>2, <2>5, <2>6, <2>7, <2>10 DEF WindowsInv
<1>10. ASSUME WindowCloses(p) PROVE WindowsInv'
  <2>1. /\ popup' = [popup EXCEPT ![p] = "closed"] /\ UNCHANGED request /\ popup[p] = "open"
        /\ (Gtk /\ GtkWindowDestroyed(p)) \/ (Wk /\ WkWillClose(p))
    BY <1>10 DEF WindowCloses
  <2>2. /\ popup' \in [Popups -> {"none", "open", "closed"}]
        /\ popup'[p] = "closed"
        /\ \A q \in Popups : q # p => popup'[q] = popup[q]
    BY <1>5, <2>1
  <2>3. PICK views \in SUBSET Popups : /\ Destroyed(views)
                                       /\ \A q \in Popups : popupView[q] = "live" /\ q \notin views => q \in kept'
                                       /\ \A q \in views : popup[q] # "none"
                                       /\ Wk => views = {p}
                                       /\ kept' \subseteq kept \ {p}
    <3>1. CASE Gtk /\ GtkWindowDestroyed(p)
      <4> DEFINE views == {q \in Popups : popupView[q] = "live" /\ q \in kept \union {p}}
      <4>1. kept' = {} /\ Destroyed(views)
        BY <3>1 DEF GtkWindowDestroyed
      <4>2. \A q \in Popups : popupView[q] = "live" => q \in views
        BY <1>1
      <4>3. \A q \in views : popup[q] # "none"
        BY <1>1, <2>1
      <4>4. views \in SUBSET Popups
        OBVIOUS
      <4> HIDE DEF views
      <4> QED BY <1>4, <3>1, <4>1, <4>2, <4>3, <4>4
    <3>2. CASE Wk /\ WkWillClose(p)
      <4>1. kept' = kept \ {p} /\ Destroyed({p}) /\ {p} \in SUBSET Popups
        BY <3>2 DEF WkWillClose
      <4> QED BY <1>1, <2>1, <4>1
    <3> QED BY <2>1, <3>1, <3>2
  <2>4. /\ popupView' \in [Popups -> PopupViews]
        /\ \A q \in Popups : popupView'[q] = IF q \in views THEN "destroyed" ELSE popupView[q]
    BY <1>1, <2>3, DestroyedEffect
  <2>5. RequestsInOrder'
    <3>1. \A q \in Popups : popup'[q] # "none" => request'[q] # "none"
      BY <1>1, <2>1, <2>2 DEF RequestsInOrder
    <3>2. \A q \in Popups : popupView'[q] # "none" => popup'[q] # "none"
      BY <1>1, <2>2, <2>3, <2>4 DEF RequestsInOrder
    <3> QED BY <1>1, <2>1, <3>1, <3>2 DEF RequestsInOrder
  <2>6. ViewGoesWithItsWindow'
    <3>1. \A q \in Popups : popupView'[q] = "live" => q \in kept'
      BY <2>3, <2>4
    <3>2. \A q \in kept' : popup'[q] = "open"
      BY <1>1, <1>5, <2>2, <2>3
    <3>3. Wk => \A q \in Popups : popup'[q] = "open" => popupView'[q] = "live"
      BY <1>1, <2>2, <2>3, <2>4
    <3> QED BY <1>4, <2>2, <3>1, <3>2, <3>3 DEF ViewGoesWithItsWindow
  <2>7. kept' \in SUBSET Popups
    BY <1>5, <2>3
  <2> QED BY <1>5, <1>6, <2>1, <2>2, <2>4, <2>5, <2>6, <2>7 DEF WindowsInv
<1>11. ASSUME GtkScriptCloses(p) PROVE WindowsInv'
  <2>1. /\ Gtk /\ popupView' = [popupView EXCEPT ![p] = "closed"] /\ popupView[p] = "live"
        /\ UNCHANGED <<request, popup, kept>>
    BY <1>11 DEF GtkScriptCloses
  <2>2. /\ popupView' \in [Popups -> PopupViews]
        /\ popupView'[p] = "closed"
        /\ \A q \in Popups : q # p => popupView'[q] = popupView[q]
    BY <1>5, <2>1 DEF PopupViews
  <2>3. RequestsInOrder'
    BY <1>1, <2>1, <2>2 DEF RequestsInOrder
  <2>4. ASSUME NEW q \in Popups, popup[q] = "open", popupView'[q] = "destroyed"
        PROVE  \E r \in Popups : popup[r] = "closed" \/ (r > q /\ popupView'[r] # "none")
    <3>1. q # p /\ popupView[q] = "destroyed"
      BY <2>2, <2>4
    <3>2. PICK r \in Popups : popup[r] = "closed" \/ (r > q /\ popupView[r] # "none")
      BY <1>1, <2>4, <3>1
    <3> QED BY <2>2, <3>2
  <2>5. ViewGoesWithItsWindow'
    BY <1>1, <1>4, <2>1, <2>2, <2>4 DEF ViewGoesWithItsWindow
  <2> QED BY <1>5, <1>6, <2>1, <2>2, <2>3, <2>5 DEF WindowsInv
<1> QED
  BY <1>2, <1>8, <1>9, <1>10, <1>11 DEF WindowOpen, DispatchRequest, GtkCreate, WkCreate

-----------------------------------------------------------------------------
(* Creation.  gtk: a window of the host, or a container in one, goes only  *)
(* with its view or with a view that has the window.  wk: what is under an *)
(* id, or listens for a configuration, is a live view of that id and with  *)
(* a handler for that configuration, and schemes are of views that were    *)
(* made.                                                                   *)

ContainersAreKept ==
    \A v \in Made : /\ \A w \in Windows : Live(v) /\ view[v].child /\ view[v].window = w
                                            => v \in containers \/ WindowTaken(w)
                    /\ view[v].phase = "dropped" => v \notin containers

GtkKeeps == (\A w \in Windows : w \in windows \/ WindowTaken(w)) /\ ContainersAreKept

StateIsOfLive == \A i \in ViewIds : state[i] # Nobody => Live(state[i]) /\ view[state[i]].id = i

ListenerIsLive ==
    \A g \in Made : listener[g] # Nobody =>
        Live(listener[g]) /\ view[listener[g]].ipc /\ view[listener[g]].group = g

WkKeeps ==
    \A v \in Made : /\ Live(v) => state[view[v].id] = v \/ SharesId(v)
                    /\ Live(v) /\ view[v].ipc => listener[view[v].group] = v \/ SharesHandler(v)

WasMade(v) == view[v].phase \in {"live", "dropped"}

SchemesAreOfViews == \A v \in Made, p \in Protocols : schemes[v][p] # Nobody => WasMade(schemes[v][p])

CreationInv ==
    /\ CreationTypeOK
    /\ Gtk => GtkKeeps
    /\ Wk => StateIsOfLive /\ ListenerIsLive /\ WkKeeps /\ SchemesAreOfViews

Views == [phase : {"none", "live", "failed", "dropped"}, id : ViewIds, group : Made, ipc : BOOLEAN,
          window : Windows, child : BOOLEAN]
SomeView == Made \union {Nobody}

LEMMA CreationImplies == CreationInv => ViewKeepsItsParts
<1> SUFFICES ASSUME CreationInv PROVE ViewKeepsItsParts
  OBVIOUS
<1>1. \A v \in Made : v # Nobody
  BY CreationAssumption DEF Made, Nobody
<1>2. /\ \A v \in Made : view[v].window \in Windows
      /\ \A v \in Made, p \in Protocols : schemes[v][p] # Nobody => schemes[v][p] \in Made
  BY DEF CreationInv, CreationTypeOK
<1>3. Gtk => WindowsAreKept
  BY <1>2 DEF CreationInv, GtkKeeps, ContainersAreKept, WindowsAreKept
<1>4. Wk => TablesAreKept
  BY <1>1 DEF CreationInv, StateIsOfLive, ListenerIsLive, WkKeeps, TablesAreKept
<1>5. ASSUME Wk, NEW v \in Made, NEW p \in Protocols, NEW r \in Made, r = schemes[v][p], Live(v)
      PROVE  state[view[r].id] = r \/ SharesId(r) \/ (r # v /\ view[r].phase = "dropped")
  <2>1. WkKeeps /\ WasMade(r)
    BY <1>1, <1>5 DEF CreationInv, SchemesAreOfViews
  <2>2. Live(r) \/ (r # v /\ view[r].phase = "dropped")
    BY <1>5, <2>1 DEF WasMade, Live
  <2> QED BY <2>1, <2>2 DEF WkKeeps
<1>6. Wk => ProtocolsAreServed
  BY <1>2, <1>5 DEF ProtocolsAreServed
<1> QED BY <1>3, <1>4, <1>6 DEF ViewKeepsItsParts

LEMMA CreationInitially == ASSUME CreationInit PROVE CreationInv
<1>1. PICK first \in ViewIds : first = CHOOSE i \in ViewIds : TRUE
  BY CreationAssumption
<1>2. PICK some \in Windows : some = CHOOSE w \in Windows : TRUE
  BY CreationAssumption
<1>3. view = [v \in Made |-> [phase |-> "none", id |-> first, group |-> v, ipc |-> FALSE, window |-> some,
                             child |-> TRUE]]
  BY <1>1, <1>2, Zenon DEF CreationInit
<1>4. view \in [Made -> Views]
  BY <1>3 DEF Views
<1>5. CreationTypeOK
  BY <1>4 DEF CreationInit, CreationTypeOK, NoSchemes, Views
<1>6. \A v \in Made : ~Live(v) /\ view[v].phase # "dropped"
  BY <1>3 DEF Live
<1>7. GtkKeeps /\ WkKeeps
  BY <1>6 DEF CreationInit, GtkKeeps, ContainersAreKept, WkKeeps
<1>8. StateIsOfLive /\ ListenerIsLive /\ SchemesAreOfViews
  BY DEF CreationInit, StateIsOfLive, ListenerIsLive, SchemesAreOfViews, NoSchemes
<1> QED BY <1>5, <1>7, <1>8 DEF CreationInv

LEMMA CreationFrame ==
    ASSUME CreationInv, OnlyDrops, UNCHANGED creationVars
    PROVE  CreationInv'
<1>1. Gtk' = Gtk /\ Wk' = Wk
  BY DEF OnlyDrops, Gtk, Wk
<1>2. CreationTypeOK'
  BY DEF CreationInv, CreationTypeOK, creationVars
<1>3. \A v : (SharesId(v)' <=> SharesId(v)) /\ (SharesHandler(v)' <=> SharesHandler(v))
            /\ (WindowTaken(v)' <=> WindowTaken(v)) /\ (Live(v)' <=> Live(v)) /\ (WasMade(v)' <=> WasMade(v))
  BY DEF SharesId, SharesHandler, WindowTaken, Live, WasMade, creationVars
<1>4. GtkKeeps => GtkKeeps'
  BY <1>3 DEF GtkKeeps, ContainersAreKept, creationVars
<1>5. StateIsOfLive /\ ListenerIsLive /\ WkKeeps /\ SchemesAreOfViews
        => StateIsOfLive' /\ ListenerIsLive' /\ WkKeeps' /\ SchemesAreOfViews'
  BY <1>3 DEF StateIsOfLive, ListenerIsLive, WkKeeps, SchemesAreOfViews, creationVars
<1> QED BY <1>1, <1>2, <1>4, <1>5 DEF CreationInv

\* A step of gtk makes or drops one view; what it takes from others is taken with a window.
LEMMA GtkCreationStep ==
    ASSUME CreationInv, NEW v \in Made, Gtk, ~Wk, Gtk' = Gtk, Wk' = Wk,
           UNCHANGED <<state, schemes, listener>>, registered' \subseteq Protocols,
           view' \in [Made -> Views], \A u \in Made : u # v => view'[u] = view[u],
           view[v].phase # "dropped",
           windows' \subseteq windows, \A w \in windows : w \in windows' \/ WindowTaken(w)',
           containers' \subseteq Made,
           \A u \in Made, w \in Windows :
                u # v /\ u \in containers /\ view[u].window = w => u \in containers' \/ WindowTaken(w)',
           \A u \in Made : u # v /\ u \in containers' => u \in containers,
           Live(v)' /\ view'[v].child => v \in containers',
           view'[v].phase = "dropped" => v \notin containers'
    PROVE  CreationInv'
<1>1. CreationTypeOK /\ GtkKeeps
  BY DEF CreationInv
<1>2. CreationTypeOK'
  BY <1>1 DEF CreationTypeOK, Views
<1>3. ASSUME NEW w, WindowTaken(w) PROVE WindowTaken(w)'
  <2>1. PICK u \in Made : view[u].phase = "dropped" /\ ~view[u].child /\ view[u].window = w
    BY <1>3 DEF WindowTaken
  <2>2. view'[u] = view[u]
    BY <2>1
  <2> QED BY <2>1, <2>2 DEF WindowTaken
<1>4. \A w \in Windows : w \in windows' \/ WindowTaken(w)'
  BY <1>1, <1>3 DEF GtkKeeps
<1>5. ASSUME NEW u \in Made, u # v
      PROVE  /\ \A w \in Windows : Live(u)' /\ view'[u].child /\ view'[u].window = w
                                     => u \in containers' \/ WindowTaken(w)'
             /\ view'[u].phase = "dropped" => u \notin containers'
  <2>1. view'[u] = view[u] /\ (Live(u)' <=> Live(u))
    BY <1>5 DEF Live
  <2>2. view'[u].phase = "dropped" => u \notin containers'
    BY <1>1, <1>5, <2>1 DEF GtkKeeps, ContainersAreKept
  <2>3. ASSUME NEW w \in Windows, Live(u), view[u].child, view[u].window = w
        PROVE  u \in containers' \/ WindowTaken(w)'
    <3>1. u \in containers \/ WindowTaken(w)
      BY <1>1, <2>3 DEF GtkKeeps, ContainersAreKept
    <3> QED BY <1>3, <1>5, <2>3, <3>1
  <2> QED BY <2>1, <2>2, <2>3
<1>6. ContainersAreKept'
  <2>1. \A w \in Windows : Live(v)' /\ view'[v].child /\ view'[v].window = w
                            => v \in containers' \/ WindowTaken(w)'
    OBVIOUS
  <2> QED BY <1>5, <2>1 DEF ContainersAreKept
<1>7. GtkKeeps'
  BY <1>4, <1>6 DEF GtkKeeps
<1> QED BY <1>2, <1>7 DEF CreationInv

\* A view that is made or dropped leaves others that share with a view sharing, and shares itself
\* with those of its id, or its configuration and handler.
LEMMA SharingStays ==
    ASSUME NEW v \in Made, view \in [Made -> Views], view' \in [Made -> Views],
           \A u \in Made : u # v => view'[u] = view[u],
           view'[v].phase # "none",
           \/ view[v].phase = "none"
           \/ view'[v].id = view[v].id /\ view'[v].ipc = view[v].ipc /\ view'[v].group = view[v].group
    PROVE  \A u \in Made : u # v =>
                /\ SharesId(u) \/ view'[v].id = view[u].id => SharesId(u)'
                /\ SharesHandler(u) \/ (view'[v].ipc /\ view'[v].group = view[u].group) => SharesHandler(u)'
<1> SUFFICES ASSUME NEW u \in Made, u # v
             PROVE  /\ SharesId(u) \/ view'[v].id = view[u].id => SharesId(u)'
                    /\ SharesHandler(u) \/ (view'[v].ipc /\ view'[v].group = view[u].group) => SharesHandler(u)'
  OBVIOUS
<1>1. view'[u] = view[u] /\ v \in Made \ {u}
  OBVIOUS
<1>2. ASSUME view'[v].id = view[u].id PROVE SharesId(u)'
  BY <1>1, <1>2 DEF SharesId
<1>3. ASSUME SharesId(u) PROVE SharesId(u)'
  <2>1. PICK w \in Made \ {u} : view[w].phase # "none" /\ view[w].id = view[u].id
    BY <1>3 DEF SharesId
  <2>2. view'[w].phase # "none" /\ view'[w].id = view[u].id
    BY <2>1
  <2> QED BY <1>1, <2>2 DEF SharesId
<1>4. ASSUME view'[v].ipc, view'[v].group = view[u].group PROVE SharesHandler(u)'
  BY <1>1, <1>4 DEF SharesHandler
<1>5. ASSUME SharesHandler(u) PROVE SharesHandler(u)'
  <2>1. PICK w \in Made \ {u} : view[w].phase # "none" /\ view[w].ipc /\ view[w].group = view[u].group
    BY <1>5 DEF SharesHandler
  <2>2. view'[w].phase # "none" /\ view'[w].ipc /\ view'[w].group = view[u].group
    BY <2>1
  <2> QED BY <1>1, <2>2 DEF SharesHandler
<1> QED BY <1>2, <1>3, <1>4, <1>5

\* A step of wk takes the entries of a view that it makes or drops from whoever has them: it may give
\* them to the view if that lives now, and must if nobody has the handler.
LEMMA WkCreationStep ==
    ASSUME CreationInv, NEW v \in Made, Wk, ~Gtk, Gtk' = Gtk, Wk' = Wk,
           UNCHANGED <<registered, windows, containers>>,
           view' \in [Made -> Views], \A u \in Made : u # v => view'[u] = view[u],
           view'[v].phase # "none",
           \/ view[v].phase = "none"
           \/ /\ ~Live(v)' /\ WasMade(v)'
              /\ view'[v].id = view[v].id /\ view'[v].ipc = view[v].ipc /\ view'[v].group = view[v].group,
           state' \in [ViewIds -> SomeView], listener' \in [Made -> SomeView],
           schemes' \in [Made -> [Protocols -> SomeView]],
           \A i \in ViewIds : i # view'[v].id => state'[i] = state[i],
           \A g \in Made : ~view'[v].ipc \/ g # view'[v].group => listener'[g] = listener[g],
           Live(v)' => state'[view'[v].id] = v,
           ~Live(v)' => \/ state'[view'[v].id] = Nobody
                        \/ view[v].phase = "none" /\ state'[view'[v].id] = state[view'[v].id],
           view'[v].ipc =>
                \/ ~Live(v)' /\ listener'[view'[v].group] = Nobody
                \/ ~Live(v)' /\ view[v].phase = "none" /\ listener'[view'[v].group] = listener[view'[v].group]
                \/ Live(v)' /\ listener'[view'[v].group] = (IF listener[view'[v].group] = Nobody THEN v
                                                           ELSE listener[view'[v].group]),
           \A u \in Made, p \in Protocols :
                \/ schemes'[u][p] = Nobody
                \/ WasMade(schemes'[u][p])
                \/ schemes'[u][p] = v /\ Live(v)'
    PROVE  CreationInv'
<1>1. CreationTypeOK /\ StateIsOfLive /\ ListenerIsLive /\ WkKeeps /\ SchemesAreOfViews
  BY DEF CreationInv
<1>2. /\ view \in [Made -> Views]
      /\ state \in [ViewIds -> SomeView] /\ listener \in [Made -> SomeView]
  BY <1>1 DEF CreationTypeOK, Views, SomeView
<1>3. CreationTypeOK'
  BY <1>1 DEF CreationTypeOK, Views, SomeView
<1>4. \A u \in Made : u # Nobody
  BY CreationAssumption DEF Made, Nobody
<1>5. \A u \in Made : u # v =>
        /\ SharesId(u) \/ view'[v].id = view[u].id => SharesId(u)'
        /\ SharesHandler(u) \/ (view'[v].ipc /\ view'[v].group = view[u].group) => SharesHandler(u)'
  BY <1>2, SharingStays
<1>6. \A u \in Made : u # v => (Live(u)' <=> Live(u))
  BY DEF Live
<1>7. view'[v].id \in ViewIds /\ view'[v].group \in Made /\ (\A u \in Made : view[u].id \in ViewIds /\ view[u].group \in Made)
  BY <1>2 DEF Views
<1>8. StateIsOfLive'
  <2> SUFFICES ASSUME NEW i \in ViewIds, NEW u \in Made, u = state'[i]
               PROVE  Live(u)' /\ view'[u].id = i
    <3>1. \A i \in ViewIds : state'[i] # Nobody => state'[i] \in Made
      BY DEF SomeView
    <3> QED BY <3>1 DEF StateIsOfLive, Live
  <2>0. u # Nobody
    BY <1>4
  <2>1. CASE state'[i] = state[i]
    <3>1. Live(u) /\ view[u].id = i
      BY <1>1, <2>0, <2>1 DEF StateIsOfLive
    <3>2. CASE u # v
      BY <1>6, <3>1, <3>2
    <3>3. CASE u = v
      <4>1. view[v].phase # "none" /\ view'[v].id = i /\ ~Live(v)'
        BY <3>1, <3>3 DEF Live
      <4> QED BY <2>0, <3>3, <4>1
    <3> QED BY <3>2, <3>3
  <2>2. CASE state'[i] # state[i]
    <3>1. i = view'[v].id /\ u = v /\ Live(v)'
      BY <2>0, <2>2
    <3> QED BY <3>1
  <2> QED BY <2>1, <2>2
<1>9. ListenerIsLive'
  <2> SUFFICES ASSUME NEW g \in Made, NEW u \in Made, u = listener'[g]
               PROVE  Live(u)' /\ view'[u].ipc /\ view'[u].group = g
    <3>1. \A g \in Made : listener'[g] # Nobody => listener'[g] \in Made
      BY DEF SomeView
    <3> QED BY <3>1 DEF ListenerIsLive, Live
  <2>0. u # Nobody
    BY <1>4
  <2>1. CASE listener'[g] = listener[g]
    <3>1. Live(u) /\ view[u].ipc /\ view[u].group = g
      BY <1>1, <2>0, <2>1 DEF ListenerIsLive
    <3>2. CASE u # v
      BY <1>6, <3>1, <3>2
    <3>3. CASE u = v
      <4>1. view[v].phase # "none" /\ view'[v].ipc /\ view'[v].group = g /\ ~Live(v)'
        BY <3>1, <3>3 DEF Live
      <4> QED BY <2>0, <3>3, <4>1
    <3> QED BY <3>2, <3>3
  <2>2. CASE listener'[g] # listener[g]
    <3>1. view'[v].ipc /\ g = view'[v].group
      BY <2>2
    <3>2. Live(v)' /\ u = v
      BY <2>0, <2>2, <3>1
    <3> QED BY <3>1, <3>2
  <2> QED BY <2>1, <2>2
<1>10. WkKeeps'
  <2> SUFFICES ASSUME NEW u \in Made, Live(u)'
               PROVE  /\ state'[view'[u].id] = u \/ SharesId(u)'
                      /\ view'[u].ipc => listener'[view'[u].group] = u \/ SharesHandler(u)'
    BY DEF WkKeeps
  <2>1. CASE u # v
    <3>1. view'[u] = view[u] /\ Live(u)
      BY <1>6, <2>1
    <3>2. state'[view[u].id] = u \/ SharesId(u)'
      BY <1>1, <1>5, <1>7, <2>1, <3>1 DEF WkKeeps
    <3>3. ASSUME view[u].ipc PROVE listener'[view[u].group] = u \/ SharesHandler(u)'
      BY <1>1, <1>5, <1>7, <2>1, <3>1, <3>3 DEF WkKeeps
    <3> QED BY <3>1, <3>2, <3>3
  <2>2. CASE u = v
    <3>1. state'[view'[v].id] = v /\ view[v].phase = "none"
      BY <2>2
    <3>2. ASSUME view'[v].ipc, listener'[view'[v].group] # v PROVE SharesHandler(v)'
      <4> DEFINE g == view'[v].group
      <4>1. g \in Made /\ listener[g] # Nobody
        BY <1>7, <2>2, <3>2
      <4>2. PICK w \in Made : w = listener[g]
        BY <1>2, <4>1 DEF SomeView
      <4>3. Live(w) /\ view[w].ipc /\ view[w].group = g
        BY <1>1, <4>1, <4>2 DEF ListenerIsLive
      <4>4. w # v /\ view'[w] = view[w] /\ view[w].phase # "none"
        BY <3>1, <4>3 DEF Live
      <4>5. view'[w].phase # "none" /\ view'[w].ipc /\ view'[w].group = view'[v].group
        BY <4>3, <4>4
      <4> QED BY <4>4, <4>5 DEF SharesHandler
    <3> QED BY <2>2, <3>1, <3>2
  <2> QED BY <2>1, <2>2
<1>11. SchemesAreOfViews'
  <2> SUFFICES ASSUME NEW u \in Made, NEW p \in Protocols, NEW r \in Made, r = schemes'[u][p]
               PROVE  WasMade(r)'
    <3>1. \A u \in Made, p \in Protocols : schemes'[u][p] # Nobody => schemes'[u][p] \in Made
      BY DEF SomeView
    <3> QED BY <3>1 DEF SchemesAreOfViews, WasMade
  <2>1. WasMade(r) \/ (r = v /\ Live(v)')
    BY <1>4
  <2>2. CASE r = v /\ Live(v)'
    BY <2>2 DEF Live, WasMade
  <2>3. CASE r = v /\ WasMade(v)
    BY <2>3 DEF WasMade
  <2>4. CASE r # v /\ WasMade(r)
    BY <2>4 DEF WasMade
  <2> QED BY <2>1, <2>2, <2>3, <2>4
<1> QED BY <1>3, <1>8, <1>9, <1>10, <1>11 DEF CreationInv

\* What a new view is like.
LEMMA WkBecomesEffect ==
    ASSUME view \in [Made -> Views], NEW v \in Made, NEW phase \in {"live", "failed"}, NEW id \in ViewIds,
           NEW group \in Made, NEW ipc \in BOOLEAN, WkBecomes(v, phase, id, group, ipc)
    PROVE  /\ view' \in [Made -> Views] /\ \A u \in Made : u # v => view'[u] = view[u]
           /\ view'[v].phase = phase /\ view'[v].id = id /\ view'[v].group = group /\ view'[v].ipc = ipc
           /\ Live(v)' <=> phase = "live"
<1> DEFINE w == [view[v] EXCEPT !.phase = phase, !.id = id, !.group = group, !.ipc = ipc]
<1>1. view[v] \in Views
  OBVIOUS
<1>2. w \in Views /\ w.phase = phase /\ w.id = id /\ w.group = group /\ w.ipc = ipc
  BY <1>1 DEF Views
<1>3. view' = [view EXCEPT ![v] = w]
  BY DEF WkBecomes
<1> HIDE DEF w
<1>4. view' \in [Made -> Views] /\ view'[v] = w /\ \A u \in Made : u # v => view'[u] = view[u]
  BY <1>2, <1>3
<1> QED BY <1>2, <1>4 DEF Live

LEMMA NewGtkEffect ==
    ASSUME view \in [Made -> Views], NEW v \in Made, NEW wanted, NEW window \in Windows, NEW child \in BOOLEAN,
           NewGtk(v, wanted, window, child)
    PROVE  /\ view' \in [Made -> Views] /\ \A u \in Made : u # v => view'[u] = view[u]
           /\ view'[v].phase \in {"live", "failed"} /\ view'[v].child = child
<1>1. PICK phase \in {"live", "failed"} : phase = IF wanted \intersect registered = {} THEN "live" ELSE "failed"
  OBVIOUS
<1> DEFINE w == [view[v] EXCEPT !.phase = phase, !.window = window, !.child = child]
<1>2. view[v] \in Views
  OBVIOUS
<1>3. w \in Views /\ w.phase = phase /\ w.child = child
  BY <1>2 DEF Views
<1>4. view' = [view EXCEPT ![v] = w]
  BY <1>1 DEF NewGtk
<1> HIDE DEF w
<1> QED BY <1>3, <1>4

\* A view that fails at once or is dropped keeps what it was asked with.
LEMMA BecomesEffect ==
    ASSUME view \in [Made -> Views], NEW v \in Made, NEW phase \in {"failed", "dropped"}, Becomes(v, phase)
    PROVE  /\ view' \in [Made -> Views] /\ \A u \in Made : u # v => view'[u] = view[u]
           /\ view'[v] = [view[v] EXCEPT !.phase = phase]
           /\ view'[v].phase = phase /\ view'[v].id = view[v].id /\ view'[v].group = view[v].group
           /\ view'[v].ipc = view[v].ipc /\ view'[v].window = view[v].window /\ view'[v].child = view[v].child
           /\ ~Live(v)'
<1> DEFINE w == [view[v] EXCEPT !.phase = phase]
<1>1. view[v] \in Views
  OBVIOUS
<1>2. /\ w \in Views /\ w.phase = phase /\ w.id = view[v].id /\ w.group = view[v].group /\ w.ipc = view[v].ipc
      /\ w.window = view[v].window /\ w.child = view[v].child
  BY <1>1 DEF Views
<1>3. view' = [view EXCEPT ![v] = w]
  BY DEF Becomes
<1>4. view' \in [Made -> Views] /\ view'[v] = w /\ \A u \in Made : u # v => view'[u] = view[u]
  BY <1>2, <1>3
<1> QED BY <1>2, <1>4 DEF Live

LEMMA CreationNext ==
    ASSUME CreationInv, DesktopOK, CreationStep
    PROVE  CreationInv' /\ UNCHANGED desktopVars
<1>1. /\ CreationTypeOK /\ view \in [Made -> Views] /\ registered \subseteq Protocols
      /\ windows \subseteq Windows /\ containers \subseteq Made
      /\ state \in [ViewIds -> SomeView] /\ listener \in [Made -> SomeView]
      /\ schemes \in [Made -> [Protocols -> SomeView]]
  BY DEF CreationInv, CreationTypeOK, Views, SomeView
<1>2. PICK v \in Made : CreateView(v) \/ DropCreated(v)
  BY DEF CreationStep
<1>3. UNCHANGED desktopVars
  BY <1>2 DEF CreateView, DropCreated
<1>4. Wk' = Wk /\ Gtk' = Gtk /\ (Gtk => ~Wk)
  BY <1>3, Backend DEF desktopVars, Wk, Gtk
<1> SUFFICES CreationInv'
  BY <1>3
<1>5. CASE view[v].phase = "none" /\ NewX11(v)
  <2>1. Gtk /\ UNCHANGED <<windows, state, schemes, listener>>
    BY <1>5 DEF NewX11
  <2>2. CASE Becomes(v, "failed") /\ UNCHANGED <<registered, containers>>
    <3>1. /\ view' \in [Made -> Views] /\ \A u \in Made : u # v => view'[u] = view[u]
          /\ view'[v].phase = "failed" /\ ~Live(v)'
      BY <1>1, <2>2, BecomesEffect
    <3> QED BY <1>1, <1>4, <1>5, <2>1, <2>2, <3>1, GtkCreationStep
  <2>3. ASSUME NEW wanted \in SUBSET Protocols, NEW window \in windows, NEW child \in BOOLEAN,
               IF child THEN CreateContainer(v) ELSE UNCHANGED containers, NewGtk(v, wanted, window, child)
        PROVE  CreationInv'
    <3>1. /\ containers' \in {containers, containers \union {v}} /\ (child => v \in containers')
          /\ registered' \subseteq Protocols
      BY <1>1, <2>3 DEF CreateContainer, NewGtk, RegisterProtocols
    <3>2. /\ view' \in [Made -> Views] /\ \A u \in Made : u # v => view'[u] = view[u]
          /\ view'[v].phase \in {"live", "failed"} /\ view'[v].child = child
      BY <1>1, <2>3, NewGtkEffect
    <3> QED BY <1>1, <1>4, <1>5, <2>1, <3>1, <3>2, GtkCreationStep
  <2> QED BY <1>5, <2>2, <2>3 DEF NewX11
<1>6. CASE Live(v) /\ X11DataDrop(v)
  <2>1. Gtk /\ Becomes(v, "dropped") /\ UNCHANGED <<registered, state, schemes, listener>>
    BY <1>6 DEF X11DataDrop
  <2>2. /\ view' \in [Made -> Views] /\ \A u \in Made : u # v => view'[u] = view[u]
        /\ view'[v].phase = "dropped" /\ ~Live(v)'
        /\ view'[v].window = view[v].window /\ view'[v].child = view[v].child
    BY <1>1, <2>1, BecomesEffect
  <2>3. view[v].phase = "live"
    BY <1>6 DEF Live
  <2>4. CASE view[v].child
    <3>1. containers' = containers \ {v} /\ UNCHANGED windows
      BY <1>6, <2>4 DEF X11DataDrop
    <3> QED BY <1>1, <1>4, <2>1, <2>2, <2>3, <3>1, GtkCreationStep
  <2>5. CASE ~view[v].child
    <3>1. /\ windows' = windows \ {view[v].window}
          /\ containers' = {u \in containers : view[u].window # view[v].window}
      BY <1>6, <2>5 DEF X11DataDrop, DestroyWindow
    <3>2. \A w \in Windows : w = view[v].window => WindowTaken(w)'
      BY <2>2, <2>5 DEF WindowTaken
    <3>3. /\ windows' \subseteq windows /\ \A w \in windows : w \in windows' \/ WindowTaken(w)'
          /\ containers' \subseteq Made /\ v \notin containers'
          /\ \A u \in Made, w \in Windows :
                u \in containers /\ view[u].window = w => u \in containers' \/ WindowTaken(w)'
          /\ \A u \in Made : u \in containers' => u \in containers
      BY <1>1, <3>1, <3>2
    <3> QED BY <1>1, <1>4, <2>1, <2>2, <2>3, <3>3, GtkCreationStep
  <2> QED BY <2>4, <2>5
<1>7. CASE view[v].phase = "none" /\ WkNew(v)
  <2>1. Wk /\ UNCHANGED <<registered, windows, containers>>
    BY <1>7 DEF WkNew
  <2>2. PICK id \in ViewIds, ipc \in BOOLEAN, opener \in {Nobody} \union {u \in Made : Live(u)} :
            \/ \E wanted \in SUBSET Protocols : NewNsView(v, id, opener, ipc, wanted)
            \/ NewNsViewLate(v, id, opener, ipc)
    BY <1>7 DEF WkNew
  <2>3. PICK group \in Made : group = GroupOf(v, opener)
    BY <1>1 DEF GroupOf, Views
  <2>4. \A u \in Made, p \in Protocols : schemes[u][p] = Nobody \/ WasMade(schemes[u][p])
    BY <2>1 DEF CreationInv, SchemesAreOfViews
  <2>5. ASSUME NEW wanted \in SUBSET Protocols, WkComplete(v, id, opener, ipc, wanted) PROVE CreationInv'
    <3>1. /\ view' \in [Made -> Views] /\ \A u \in Made : u # v => view'[u] = view[u]
          /\ view'[v].phase = "live" /\ view'[v].id = id /\ view'[v].group = group /\ view'[v].ipc = ipc
          /\ Live(v)'
      BY <1>1, <2>3, <2>5, WkBecomesEffect DEF WkComplete
    <3>2. /\ state' = [state EXCEPT ![id] = v]
          /\ schemes' = [schemes EXCEPT ![v] = SchemesWith(v, opener, wanted)]
          /\ listener' = IF ipc /\ listener[group] = Nobody THEN [listener EXCEPT ![group] = v] ELSE listener
      BY <2>3, <2>5 DEF WkComplete, AddMessageHandler
    <3>3. /\ state' \in [ViewIds -> SomeView] /\ listener' \in [Made -> SomeView]
          /\ \A i \in ViewIds : state'[i] = IF i = id THEN v ELSE state[i]
          /\ \A g \in Made : listener'[g] = IF ipc /\ g = group /\ listener[g] = Nobody THEN v ELSE listener[g]
      BY <1>1, <3>2 DEF SomeView
    <3>4. /\ SchemesWith(v, opener, wanted) \in [Protocols -> SomeView]
          /\ \A p \in Protocols : LET r == SchemesWith(v, opener, wanted)[p] IN r = Nobody \/ WasMade(r) \/ r = v
      <4>1. opener # Nobody => opener \in Made
        OBVIOUS
      <4>2. \A p \in Protocols : /\ SchemesWith(v, opener, wanted)[p] \in SomeView
                                 /\ \/ SchemesWith(v, opener, wanted)[p] = Nobody
                                    \/ SchemesWith(v, opener, wanted)[p] = v
                                    \/ WasMade(SchemesWith(v, opener, wanted)[p])
        BY <1>1, <2>4, <4>1 DEF SchemesWith, SomeView
      <4>3. SchemesWith(v, opener, wanted) = [p \in Protocols |-> SchemesWith(v, opener, wanted)[p]]
        BY DEF SchemesWith
      <4> QED BY <4>2, <4>3
    <3>5. /\ schemes' \in [Made -> [Protocols -> SomeView]]
          /\ \A u \in Made, p \in Protocols :
                schemes'[u][p] = Nobody \/ WasMade(schemes'[u][p]) \/ schemes'[u][p] = v
      BY <1>1, <2>4, <3>2, <3>4
    <3>6. \A g \in Made : ~view'[v].ipc \/ g # view'[v].group => listener'[g] = listener[g]
      BY <3>1, <3>3
    <3>7. \A i \in ViewIds : i # view'[v].id => state'[i] = state[i]
      BY <3>1, <3>3
    <3>8. state'[view'[v].id] = v /\ view'[v].phase # "none"
      BY <3>1, <3>3
    <3>9. view'[v].ipc => listener'[view'[v].group] = (IF listener[view'[v].group] = Nobody THEN v
                                                       ELSE listener[view'[v].group])
      BY <3>1, <3>3
    <3> QED BY <1>4, <1>7, <2>1, <3>1, <3>3, <3>5, <3>6, <3>7, <3>8, <3>9, WkCreationStep
  <2>6. ASSUME WkBecomes(v, "failed", id, GroupOf(v, opener), ipc), UNCHANGED <<state, schemes, listener>>
        PROVE  CreationInv'
    <3>1. /\ view' \in [Made -> Views] /\ \A u \in Made : u # v => view'[u] = view[u]
          /\ view'[v].phase = "failed" /\ ~Live(v)'
      BY <1>1, <2>3, <2>6, WkBecomesEffect
    <3> QED BY <1>1, <1>4, <1>7, <2>1, <2>4, <2>6, <3>1, WkCreationStep
  <2>7. ASSUME NewNsViewLate(v, id, opener, ipc) PROVE CreationInv'
    <3>1. /\ WkBecomes(v, "failed", id, group, ipc)
          /\ state' = [state EXCEPT ![id] = Nobody]
          /\ listener' = IF ipc THEN [listener EXCEPT ![group] = Nobody] ELSE listener
          /\ UNCHANGED schemes
      BY <2>3, <2>7 DEF NewNsViewLate
    <3>2. /\ view' \in [Made -> Views] /\ \A u \in Made : u # v => view'[u] = view[u]
          /\ view'[v].phase = "failed" /\ view'[v].id = id /\ view'[v].group = group /\ view'[v].ipc = ipc
          /\ ~Live(v)'
      BY <1>1, <3>1, WkBecomesEffect
    <3>3. /\ state' \in [ViewIds -> SomeView] /\ listener' \in [Made -> SomeView]
          /\ \A i \in ViewIds : state'[i] = IF i = id THEN Nobody ELSE state[i]
          /\ \A g \in Made : listener'[g] = IF ipc /\ g = group THEN Nobody ELSE listener[g]
      BY <1>1, <3>1 DEF SomeView
    <3>4. \A g \in Made : ~view'[v].ipc \/ g # view'[v].group => listener'[g] = listener[g]
      BY <3>2, <3>3
    <3>5. \A i \in ViewIds : i # view'[v].id => state'[i] = state[i]
      BY <3>2, <3>3
    <3>6. state'[view'[v].id] = Nobody /\ (view'[v].ipc => listener'[view'[v].group] = Nobody)
      BY <3>2, <3>3
    <3>7. /\ schemes' \in [Made -> [Protocols -> SomeView]]
          /\ \A u \in Made, p \in Protocols : schemes'[u][p] = Nobody \/ WasMade(schemes'[u][p])
      BY <1>1, <2>4, <3>1
    <3>8. /\ view[v].phase = "none" /\ view'[v].phase # "none" /\ CreationInv
          /\ Wk /\ ~Gtk /\ Gtk' = Gtk /\ Wk' = Wk /\ UNCHANGED <<registered, windows, containers>>
      BY <1>4, <1>7, <2>1, <3>2
    <3> QED BY <3>2, <3>3, <3>4, <3>5, <3>6, <3>7, <3>8, WkCreationStep
  <2> QED BY <2>2, <2>5, <2>6, <2>7 DEF NewNsView
<1>8. CASE Live(v) /\ WkViewDrop(v)
  <2>1. /\ Wk /\ Becomes(v, "dropped") /\ UNCHANGED <<registered, windows, containers, schemes>>
        /\ state' = [state EXCEPT ![view[v].id] = Nobody]
        /\ listener' = IF view[v].ipc THEN [listener EXCEPT ![view[v].group] = Nobody] ELSE listener
    BY <1>8 DEF WkViewDrop
  <2>2. view[v] \in Views
    BY <1>1
  <2>3. view[v].id \in ViewIds /\ view[v].group \in Made /\ view[v].ipc \in BOOLEAN
    BY <2>2 DEF Views
  <2>4. /\ view' \in [Made -> Views] /\ \A u \in Made : u # v => view'[u] = view[u]
        /\ view'[v].phase = "dropped" /\ ~Live(v)'
        /\ view'[v].id = view[v].id /\ view'[v].ipc = view[v].ipc /\ view'[v].group = view[v].group
    BY <1>1, <2>1, BecomesEffect
  <2>5. /\ state' \in [ViewIds -> SomeView] /\ listener' \in [Made -> SomeView]
        /\ \A i \in ViewIds : state'[i] = IF i = view[v].id THEN Nobody ELSE state[i]
        /\ \A g \in Made : listener'[g] = IF view[v].ipc /\ g = view[v].group THEN Nobody ELSE listener[g]
    BY <1>1, <2>1, <2>3 DEF SomeView
  <2>6. WasMade(v)'
    BY <2>4 DEF WasMade
  <2>7. /\ \A g \in Made : ~view'[v].ipc \/ g # view'[v].group => listener'[g] = listener[g]
        /\ \A i \in ViewIds : i # view'[v].id => state'[i] = state[i]
        /\ state'[view'[v].id] = Nobody /\ (view'[v].ipc => listener'[view'[v].group] = Nobody)
    BY <2>3, <2>4, <2>5
  <2>8. \A u \in Made, p \in Protocols : schemes[u][p] = Nobody \/ WasMade(schemes[u][p])
    BY <2>1 DEF CreationInv, SchemesAreOfViews
  <2> QED BY <1>1, <1>4, <2>1, <2>4, <2>5, <2>6, <2>7, <2>8, WkCreationStep
<1> QED BY <1>2, <1>5, <1>6, <1>7, <1>8 DEF CreateView, DropCreated

-----------------------------------------------------------------------------
(* Drags: when a handler may still be told of an end, the last Enter is    *)
(* open and had the paths that a drop would bring.  As long as a drag has  *)
(* not crossed with another, what the controller is at is about that drag. *)

OpenEnters == EnterOf(Len(events) + 1)
SomeEnd == \E k \in DOMAIN events : Ends(k)
EnterOpen(paths, d) == \E j \in OpenEnters : events[j].paths = paths /\ events[j].of = d

\* gtk: the controller keeps step with a drag that has not crossed with another.
InStep ==
    /\ gtk.state # "Left" => gtk.paths = drag.n /\ ToldOver = drag.n
    /\ drag.over => gtk.state # "Leaving"
    /\ ~drag.over => gtk.state # "Entered"
    /\ drag.over /\ drag.files /\ drag.n \notin gtk.awaited => gtk.state # "Left"

GtkOpen ==
    /\ gtk.state # "Left" => EnterOpen(gtk.paths, gtk.paths)
    /\ gtk.state = "Left" => ToldOver = 0
    /\ gtk.state = "Leaving" => gtk.idle > 0
    /\ drag.n \notin crossed => InStep
    /\ drag.over /\ gtk.state = "Leaving" => gtk.paths = drag.n - 1 \/ drag.n - 1 \in crossed

WkOpen ==
    /\ drag.over => EnterOpen(IF drag.files THEN drag.n ELSE 0, drag.n)
    /\ ToldOver = IF drag.over THEN drag.n ELSE 0

WebView2Open ==
    /\ valid => SomeEnd \/ (drag.over /\ drag.files /\ EnterOpen(drag.n, drag.n))
    /\ drag.over /\ drag.files => valid /\ ToldOver = drag.n
    /\ ~drag.over \/ ~valid => ToldOver = 0

\* Only on gtk is the data of a drag asked for.
AwaitedOnGtk == gtk.awaited # {} => Gtk

History == EveryEndHasItsEnter /\ PathsAreTheDrags

DragsInv ==
    /\ DragDropTypeOK
    /\ AwaitedOnGtk
    /\ drag.over => drag.n > 0
    /\ History
    /\ Gtk => GtkOpen
    /\ Wk => WkOpen
    /\ WebView2 => WebView2Open

Event == [kind : {"Enter", "Over", "Leave", "Drop"}, paths : 0..MaxDrags, of : 0..MaxDrags]
Controller == [state : {"Entered", "Leaving", "Left"}, paths : 0..MaxDrags, idle : Nat, awaited : SUBSET Drags]
Drag == [n : 0..MaxDrags, files : BOOLEAN, over : BOOLEAN]

LEMMA DragsImply == ASSUME DragsInv, DesktopOK PROVE EventsTellOfTheirDrag
<1>1. HostKnowsTheDrag
  <2> SUFFICES ASSUME ~Underway, drag.n \notin crossed
               PROVE  IF drag.over THEN drag.files => ToldOver = drag.n ELSE ToldOver = 0
    BY DEF HostKnowsTheDrag
  <2>1. CASE Gtk
    <3>1. GtkOpen /\ InStep
      BY <2>1 DEF DragsInv, GtkOpen
    <3>2. drag.n \notin gtk.awaited /\ gtk.state # "Leaving"
      BY <3>1 DEF Underway, GtkOpen
    <3>3. gtk.state \in {"Entered", "Leaving", "Left"}
      BY DEF DragsInv, DragDropTypeOK
    <3> QED BY <3>1, <3>2, <3>3 DEF GtkOpen, InStep
  <2>2. CASE Wk
    BY <2>2 DEF DragsInv, WkOpen
  <2>3. CASE WebView2
    BY <2>3 DEF DragsInv, WebView2Open
  <2> QED BY <2>1, <2>2, <2>3, Backend DEF Gtk, Wk, WebView2
<1> QED BY <1>1 DEF DragsInv, History, EventsTellOfTheirDrag

LEMMA DragsInitially == ASSUME DragDropInit PROVE DragsInv
<1>0. 0 \in 0..MaxDrags
  BY DragDropAssumption
<1>1. DragDropTypeOK
  <2>1. drag \in [n : 0..MaxDrags, files : BOOLEAN, over : BOOLEAN]
    BY <1>0 DEF DragDropInit
  <2>2. gtk \in [state : {"Entered", "Leaving", "Left"}, paths : 0..MaxDrags, idle : Nat, awaited : SUBSET Drags]
    BY <1>0 DEF DragDropInit
  <2>3. events \in Seq([kind : {"Enter", "Over", "Leave", "Drop"}, paths : 0..MaxDrags, of : 0..MaxDrags])
    BY DEF DragDropInit
  <2> QED BY <2>1, <2>2, <2>3 DEF DragDropInit, DragDropTypeOK
<1>2. History
  BY DEF DragDropInit, History, EveryEndHasItsEnter, PathsAreTheDrags
<1>3. ToldOver = 0
  BY DEF DragDropInit, ToldOver
<1> QED BY <1>1, <1>2, <1>3 DEF DragDropInit, DragsInv, AwaitedOnGtk, GtkOpen, InStep, WkOpen, WebView2Open

LEMMA DragsFrame ==
    ASSUME DragsInv, OnlyDrops, UNCHANGED dragVars
    PROVE  DragsInv'
<1>1. Gtk' = Gtk /\ Wk' = Wk /\ WebView2' = WebView2
  BY DEF OnlyDrops, Gtk, Wk, WebView2
<1>2. UNCHANGED <<drag, gtk, valid, events, crossed>>
  BY DEF dragVars
<1>3. DragDropTypeOK'
  BY <1>2 DEF DragsInv, DragDropTypeOK
<1>4. \A i : EnterOf(i)' = EnterOf(i) /\ (Ends(i)' <=> Ends(i))
  BY <1>2 DEF EnterOf, Ends
<1>5. History'
  BY <1>1, <1>2, <1>4 DEF DragsInv, History, EveryEndHasItsEnter, PathsAreTheDrags
<1>6. OpenEnters' = OpenEnters /\ SomeEnd' = SomeEnd /\ ToldOver' = ToldOver
  BY <1>2 DEF OpenEnters, EnterOf, Ends, SomeEnd, ToldOver
<1>7. \A paths, d : EnterOpen(paths, d)' <=> EnterOpen(paths, d)
  BY <1>2, <1>6 DEF EnterOpen
<1>8. (Gtk => GtkOpen') /\ (Wk => WkOpen') /\ (WebView2 => WebView2Open')
  BY <1>2, <1>6, <1>7 DEF DragsInv, GtkOpen, InStep, WkOpen, WebView2Open, EnterOpen
<1> QED BY <1>1, <1>2, <1>3, <1>5, <1>8 DEF DragsInv, AwaitedOnGtk

\* An event that may follow: the Enter that is open had the paths of a Drop, and is of the same drag
\* unless one of the two has crossed with another.
Follows(kind, paths, d) ==
    \/ kind = "Enter"
    \/ \E j \in OpenEnters : /\ kind = "Drop" => paths = events[j].paths
                             /\ d = events[j].of \/ d \in crossed' \/ events[j].of \in crossed'
    \/ WebView2 /\ SomeEnd

\* What an event does to the history: an Enter opens, an Over leaves open, the others end.
LEMMA EmitsEffect ==
    ASSUME DragsInv, WebView2' = WebView2, crossed \subseteq crossed',
           NEW kind \in {"Enter", "Over", "Leave", "Drop"}, NEW paths \in 0..MaxDrags, NEW d \in 0..MaxDrags,
           Emits(kind, paths, d), Follows(kind, paths, d),
           paths \in {0, d} \/ d \in crossed'
    PROVE  /\ events' \in Seq(Event)
           /\ History'
           /\ kind = "Enter" => \E j \in OpenEnters' : events'[j].paths = paths /\ events'[j].of = d
           /\ kind = "Over" => \A j \in OpenEnters : j \in OpenEnters' /\ events'[j] = events[j]
           /\ kind \in {"Leave", "Drop"} => SomeEnd'
           /\ SomeEnd => SomeEnd'
           /\ ToldOver' = IF kind \in {"Leave", "Drop"} THEN 0 ELSE d
<1> DEFINE event == [kind |-> kind, paths |-> paths, of |-> d]
<1>1. events \in Seq(Event) /\ EveryEndHasItsEnter /\ PathsAreTheDrags
  BY DEF DragsInv, DragDropTypeOK, Event, History
<1>2. CASE /\ events # <<>> /\ kind = "Over" /\ events[Len(events)] = event /\ events' = events
  <2>1. EnterOf(0)' = EnterOf(0) /\ \A i : EnterOf(i)' = EnterOf(i) /\ (Ends(i)' <=> Ends(i))
    BY <1>2 DEF EnterOf, Ends
  <2>2. EveryEndHasItsEnter'
    <3> SUFFICES ASSUME NEW i \in DOMAIN events
                 PROVE  \/ events[i].kind = "Enter"
                        \/ \E j \in EnterOf(i) :
                            /\ events[i].kind = "Drop" => events[i].paths = events[j].paths
                            /\ events[i].of = events[j].of \/ events[i].of \in crossed' \/ events[j].of \in crossed'
                        \/ WebView2 /\ \E k \in 1..(i - 1) : Ends(k)
      BY <1>2, <2>1 DEF EveryEndHasItsEnter
    <3> QED BY <1>1 DEF EveryEndHasItsEnter
  <2>3. PathsAreTheDrags'
    BY <1>1, <1>2 DEF PathsAreTheDrags
  <2>4. OpenEnters' = OpenEnters /\ SomeEnd' = SomeEnd
    BY <1>2 DEF OpenEnters, EnterOf, Ends, SomeEnd
  <2>5. ToldOver' = d
    BY <1>2 DEF ToldOver, Ends
  <2> QED BY <1>1, <1>2, <2>2, <2>3, <2>4, <2>5 DEF History
<1>3. CASE events' = Append(events, event)
  <2>0. PICK n \in Nat : n = Len(events)
    BY <1>1
  <2>1. n \in Nat /\ DOMAIN events = 1..n
    BY <1>1, <2>0
  <2>2. event \in Event
    BY DEF Event
  <2>3. /\ events' \in Seq(Event) /\ Len(events') = n + 1 /\ DOMAIN events' = 1..(n + 1)
        /\ \A k \in 1..n : events'[k] = events[k]
        /\ events'[n + 1].kind = kind /\ events'[n + 1].paths = paths /\ events'[n + 1].of = d
    BY <1>1, <1>3, <2>0, <2>1, <2>2
  <2>4. \A k \in 1..n : Ends(k)' <=> Ends(k)
    BY <2>3 DEF Ends
  <2>5. Ends(n + 1)' <=> kind \in {"Leave", "Drop"}
    BY <2>3 DEF Ends
  <2>6. ASSUME NEW i \in 1..(n + 1) PROVE EnterOf(i)' = EnterOf(i)
    <3>1. \A j \in 1..(i - 1) : j \in 1..n
      BY <2>1
    <3>2. \A j \in 1..(i - 1) : \A k \in (j + 1)..(i - 1) : k \in 1..n
      BY <2>1
    <3>3. \A j \in 1..(i - 1) :
            (events'[j].kind = "Enter" /\ \A k \in (j + 1)..(i - 1) : events'[k].kind # "Enter" /\ ~Ends(k)')
            <=> (events[j].kind = "Enter" /\ \A k \in (j + 1)..(i - 1) : events[k].kind # "Enter" /\ ~Ends(k))
      BY <2>3, <2>4, <3>1, <3>2
    <3> QED BY <3>3 DEF EnterOf
  <2>7. OpenEnters = EnterOf(n + 1)
    BY <2>0 DEF OpenEnters
  <2>8. SomeEnd => \E k \in 1..n : Ends(k) /\ Ends(k)'
    BY <2>1, <2>4 DEF SomeEnd
  <2>9. SomeEnd => SomeEnd'
    BY <2>1, <2>3, <2>8 DEF SomeEnd
  <2>10. kind \in {"Leave", "Drop"} => SomeEnd'
    <3>1. n + 1 \in DOMAIN events'
      BY <2>1, <2>3
    <3> QED BY <2>5, <3>1 DEF SomeEnd
  <2>11. EveryEndHasItsEnter'
    <3> SUFFICES ASSUME NEW i \in 1..(n + 1)
                 PROVE  \/ events'[i].kind = "Enter"
                        \/ \E j \in EnterOf(i)' :
                            /\ events'[i].kind = "Drop" => events'[i].paths = events'[j].paths
                            /\ events'[i].of = events'[j].of \/ events'[i].of \in crossed' \/ events'[j].of \in crossed'
                        \/ WebView2 /\ \E k \in 1..(i - 1) : Ends(k)'
      BY <2>3 DEF EveryEndHasItsEnter
    <3>1. \A j \in EnterOf(i) : j \in 1..n
      BY <2>1 DEF EnterOf
    <3>2. \A k \in 1..(i - 1) : k \in 1..n
      BY <2>1
    <3>3. CASE i \in 1..n
      <4>1. \/ events[i].kind = "Enter"
            \/ \E j \in EnterOf(i) :
                /\ events[i].kind = "Drop" => events[i].paths = events[j].paths
                /\ events[i].of = events[j].of \/ events[i].of \in crossed \/ events[j].of \in crossed
            \/ WebView2 /\ \E k \in 1..(i - 1) : Ends(k)
        BY <1>1, <2>1, <3>3 DEF EveryEndHasItsEnter
      <4>2. CASE events[i].kind = "Enter"
        BY <2>3, <3>3, <4>2
      <4>3. CASE \E j \in EnterOf(i) :
                /\ events[i].kind = "Drop" => events[i].paths = events[j].paths
                /\ events[i].of = events[j].of \/ events[i].of \in crossed \/ events[j].of \in crossed
        <5>1. PICK j \in EnterOf(i) :
                /\ events[i].kind = "Drop" => events[i].paths = events[j].paths
                /\ events[i].of = events[j].of \/ events[i].of \in crossed \/ events[j].of \in crossed
          BY <4>3
        <5>2. j \in EnterOf(i)' /\ events'[j] = events[j] /\ events'[i] = events[i]
          BY <2>3, <2>6, <3>1, <3>3
        <5> QED BY <5>1, <5>2
      <4>4. CASE WebView2 /\ \E k \in 1..(i - 1) : Ends(k)
        BY <2>4, <3>2, <4>4
      <4> QED BY <4>1, <4>2, <4>3, <4>4
    <3>4. CASE i = n + 1
      <4>1. CASE kind = "Enter"
        BY <2>3, <3>4, <4>1
      <4>2. CASE \E j \in OpenEnters : /\ kind = "Drop" => paths = events[j].paths
                                       /\ d = events[j].of \/ d \in crossed' \/ events[j].of \in crossed'
        <5>1. PICK j \in EnterOf(i) : /\ kind = "Drop" => paths = events[j].paths
                                      /\ d = events[j].of \/ d \in crossed' \/ events[j].of \in crossed'
          BY <2>7, <3>4, <4>2
        <5>2. j \in EnterOf(i)' /\ events'[j] = events[j]
          BY <2>3, <2>6, <3>1
        <5> QED BY <2>3, <3>4, <5>1, <5>2
      <4>3. CASE WebView2 /\ SomeEnd
        <5>1. \A k \in 1..n : k \in 1..(i - 1)
          BY <2>1, <3>4
        <5> QED BY <2>8, <4>3, <5>1
      <4> QED BY <4>1, <4>2, <4>3 DEF Follows
    <3> QED BY <2>1, <3>3, <3>4
  <2>12. PathsAreTheDrags'
    <3> SUFFICES ASSUME NEW i \in 1..(n + 1)
                 PROVE  events'[i].paths \in {0, events'[i].of} \/ events'[i].of \in crossed'
      BY <2>3 DEF PathsAreTheDrags
    <3>1. CASE i \in 1..n
      BY <1>1, <2>1, <2>3, <3>1 DEF PathsAreTheDrags
    <3>2. CASE i = n + 1
      BY <2>3, <3>2
    <3> QED BY <2>1, <3>1, <3>2
  <2>13. OpenEnters' = {j \in 1..(n + 1) : events'[j].kind = "Enter" /\ \A k \in (j + 1)..(n + 1) : events'[k].kind # "Enter" /\ ~Ends(k)'}
    BY <2>1, <2>3 DEF OpenEnters, EnterOf
  <2>14. ASSUME kind = "Enter" PROVE \E j \in OpenEnters' : events'[j].paths = paths /\ events'[j].of = d
    <3>1. n + 1 \in OpenEnters'
      BY <2>1, <2>3, <2>13, <2>14
    <3> QED BY <2>3, <3>1
  <2>15. ASSUME kind = "Over", NEW j \in OpenEnters PROVE j \in OpenEnters' /\ events'[j] = events[j]
    <3>1. j \in 1..n /\ events[j].kind = "Enter" /\ \A k \in (j + 1)..n : events[k].kind # "Enter" /\ ~Ends(k)
      BY <2>1, <2>7 DEF EnterOf
    <3>2. \A k \in (j + 1)..(n + 1) : events'[k].kind # "Enter" /\ ~Ends(k)'
      BY <2>1, <2>3, <2>4, <2>5, <2>15, <3>1
    <3> QED BY <2>1, <2>3, <2>13, <3>1, <3>2
  <2>16. ToldOver' = IF kind \in {"Leave", "Drop"} THEN 0 ELSE d
    <3>1. events' # <<>>
      BY <2>1, <2>3
    <3> QED BY <2>3, <2>5, <3>1 DEF ToldOver
  <2> QED BY <2>3, <2>9, <2>10, <2>11, <2>12, <2>14, <2>15, <2>16 DEF History
<1> QED BY <1>2, <1>3 DEF Emits

\* A step that emits nothing leaves the history as it is.
LEMMA SilentEffect ==
    ASSUME DragsInv, WebView2' = WebView2, crossed \subseteq crossed', UNCHANGED events
    PROVE  /\ events' \in Seq(Event) /\ History'
           /\ OpenEnters' = OpenEnters /\ SomeEnd' = SomeEnd /\ ToldOver' = ToldOver
<1>1. events \in Seq(Event) /\ EveryEndHasItsEnter /\ PathsAreTheDrags
  BY DEF DragsInv, DragDropTypeOK, Event, History
<1>2. \A i : EnterOf(i)' = EnterOf(i) /\ (Ends(i)' <=> Ends(i))
  BY DEF EnterOf, Ends
<1>3. EveryEndHasItsEnter'
  <2> SUFFICES ASSUME NEW i \in DOMAIN events
               PROVE  \/ events[i].kind = "Enter"
                      \/ \E j \in EnterOf(i) :
                          /\ events[i].kind = "Drop" => events[i].paths = events[j].paths
                          /\ events[i].of = events[j].of \/ events[i].of \in crossed' \/ events[j].of \in crossed'
                      \/ WebView2 /\ \E k \in 1..(i - 1) : Ends(k)
    BY <1>2 DEF EveryEndHasItsEnter
  <2> QED BY <1>1 DEF EveryEndHasItsEnter
<1>4. PathsAreTheDrags'
  BY <1>1 DEF PathsAreTheDrags
<1>5. OpenEnters' = OpenEnters /\ SomeEnd' = SomeEnd /\ ToldOver' = ToldOver
  BY DEF OpenEnters, EnterOf, Ends, SomeEnd, ToldOver
<1> QED BY <1>1, <1>3, <1>4, <1>5 DEF History

\* A motion on gtk leaves the last Enter open.
LEMMA MotionEffect ==
    ASSUME DragsInv, WebView2' = WebView2, Gtk, GtkMotion, crossed \subseteq crossed',
           drag'.n \in 0..MaxDrags, gtk.state # "Left" => gtk.paths = drag'.n \/ drag'.n \in crossed'
    PROVE  /\ events' \in Seq(Event) /\ History'
           /\ gtk.state # "Left" => \E j \in OpenEnters' : events'[j].paths = gtk.paths /\ events'[j].of = gtk.paths
           /\ gtk.state = "Entered" => ToldOver' = drag'.n
           /\ gtk.state # "Entered" => ToldOver' = ToldOver
<1>1. gtk.state # "Left" => \E j \in OpenEnters : events[j].paths = gtk.paths /\ events[j].of = gtk.paths
  BY DEF DragsInv, GtkOpen, EnterOpen
<1>2. CASE gtk.state = "Entered"
  <2>1. Emits("Over", 0, drag'.n) /\ 0 \in 0..MaxDrags
    BY <1>2, DragDropAssumption DEF GtkMotion
  <2>2. PICK j \in OpenEnters : events[j].paths = gtk.paths /\ events[j].of = gtk.paths
    BY <1>1, <1>2
  <2>3. drag'.n = events[j].of \/ drag'.n \in crossed' \/ events[j].of \in crossed'
    BY <1>2, <2>2
  <2>4. Follows("Over", 0, drag'.n)
    BY <2>3 DEF Follows
  <2>5. /\ events' \in Seq(Event) /\ History' /\ ToldOver' = drag'.n
        /\ j \in OpenEnters' /\ events'[j] = events[j]
    BY <2>1, <2>4, EmitsEffect
  <2> QED BY <1>2, <2>2, <2>5
<1>3. CASE gtk.state # "Entered"
  <2>1. UNCHANGED events
    BY <1>3 DEF GtkMotion
  <2>2. events' \in Seq(Event) /\ History' /\ OpenEnters' = OpenEnters /\ ToldOver' = ToldOver
    BY <2>1, SilentEffect
  <2> QED BY <1>1, <1>3, <2>1, <2>2
<1> QED BY <1>2, <1>3

\* The invariant after a step on one backend.
LEMMA DragsAfter ==
    ASSUME DesktopOK, UNCHANGED desktopVars,
           drag' \in Drag, drag'.over => drag'.n > 0,
           gtk' \in Controller, gtk'.awaited # {} => Gtk,
           valid' \in BOOLEAN, events' \in Seq(Event), crossed' \subseteq 0..MaxDrags, History',
           (Gtk /\ GtkOpen') \/ (Wk /\ WkOpen') \/ (WebView2 /\ WebView2Open')
    PROVE  DragsInv'
<1>1. Gtk' = Gtk /\ Wk' = Wk /\ WebView2' = WebView2
  BY DEF desktopVars, Gtk, Wk, WebView2
<1>2. DragDropTypeOK'
  BY DEF DragDropTypeOK, Event, Drag, Controller
<1> QED BY <1>1, <1>2, Backend DEF DragsInv, AwaitedOnGtk

\* What a step of a drag may rest on.
DragsShape ==
    /\ drag \in Drag /\ (drag.over => drag.n > 0)
    /\ gtk \in Controller /\ (gtk.awaited # {} => Gtk)
    /\ valid \in BOOLEAN /\ events \in Seq(Event) /\ crossed \subseteq 0..MaxDrags
    /\ Gtk => GtkOpen
    /\ Wk => WkOpen
    /\ WebView2 => WebView2Open
    /\ 0 \in 0..MaxDrags /\ MaxDrags \in Nat
    /\ drag.n \in Nat /\ drag.n \in 0..MaxDrags
    /\ drag.n < MaxDrags => drag.n + 1 \in 1..MaxDrags /\ drag.n + 1 \in 0..MaxDrags

LEMMA DragsHaveShape == ASSUME DragsInv PROVE DragsShape
<1>1. drag \in Drag /\ gtk \in Controller /\ valid \in BOOLEAN /\ events \in Seq(Event) /\ crossed \subseteq 0..MaxDrags
  BY DEF DragsInv, DragDropTypeOK, Event, Drag, Controller
<1>2. drag.n \in 0..MaxDrags
  BY <1>1 DEF Drag
<1>3. MaxDrags \in Nat
  BY DragDropAssumption
<1>4. 0 \in 0..MaxDrags /\ (drag.n < MaxDrags => drag.n + 1 \in 1..MaxDrags /\ drag.n + 1 \in 0..MaxDrags)
  BY <1>2, <1>3
<1> QED BY <1>1, <1>2, <1>3, <1>4 DEF DragsInv, DragsShape, AwaitedOnGtk

LEMMA DragInStep ==
    ASSUME DragsInv, DesktopOK, UNCHANGED desktopVars, NEW files \in BOOLEAN, DragIn(files)
    PROVE  DragsInv'
<1>1. DragsShape
  BY DragsHaveShape
<1>2. WebView2' = WebView2
  BY DEF desktopVars, WebView2
<1>3. /\ ~drag.over /\ drag.n < MaxDrags
      /\ drag' = [n |-> drag.n + 1, files |-> files, over |-> TRUE]
      /\ gtk' = IF Gtk /\ files THEN [gtk EXCEPT !.awaited = @ \union {drag.n + 1}] ELSE gtk
      /\ crossed' = IF gtk.state = "Left" THEN crossed ELSE crossed \union {drag.n + 1}
  BY DEF DragIn
<1>4. /\ drag' \in Drag /\ drag'.over /\ drag'.files = files /\ drag'.n = drag.n + 1
      /\ drag'.n > 0 /\ drag'.n \in 0..MaxDrags /\ drag'.n - 1 = drag.n
  BY <1>1, <1>3 DEF DragsShape, Drag
<1>5. /\ gtk' \in Controller
      /\ gtk'.state = gtk.state /\ gtk'.paths = gtk.paths /\ gtk'.idle = gtk.idle
      /\ gtk'.awaited # {} => Gtk
      /\ Gtk /\ files => drag'.n \in gtk'.awaited
  BY <1>1, <1>3, <1>4 DEF DragsShape, Controller, Drags
<1>6. /\ crossed \subseteq crossed' /\ crossed' \subseteq 0..MaxDrags
      /\ gtk.state # "Left" => drag'.n \in crossed'
  BY <1>1, <1>3, <1>4 DEF DragsShape
<1>7. Paths = (IF files THEN drag'.n ELSE 0) /\ Paths \in 0..MaxDrags /\ Paths \in {0, drag'.n}
  BY <1>1, <1>4 DEF Paths, DragsShape
<1>8. CASE Gtk /\ GtkMotion /\ UNCHANGED valid
  <2>1. /\ events' \in Seq(Event) /\ History'
        /\ gtk.state # "Left" => \E j \in OpenEnters' : events'[j].paths = gtk.paths /\ events'[j].of = gtk.paths
        /\ gtk.state # "Entered" => ToldOver' = ToldOver
    BY <1>2, <1>4, <1>6, <1>8, MotionEffect
  <2>2. GtkOpen
    BY <1>1, <1>8 DEF DragsShape
  <2>3. gtk.state = "Left" => ToldOver' = 0
    BY <2>1, <2>2 DEF GtkOpen
  <2>4. gtk'.state # "Left" => EnterOpen(gtk.paths, gtk.paths)'
    BY <1>5, <2>1 DEF EnterOpen
  <2>5. gtk.state = "Leaving" => gtk.paths = drag'.n - 1 \/ drag'.n - 1 \in crossed'
    <3>1. gtk.state = "Leaving" /\ drag.n \notin crossed => gtk.paths = drag.n
      BY <2>2 DEF GtkOpen, InStep
    <3> QED BY <1>4, <1>6, <3>1
  <2>6. drag'.n \notin crossed' => InStep'
    BY <1>4, <1>5, <1>6, <1>8 DEF InStep
  <2>7. GtkOpen'
    BY <1>5, <2>2, <2>3, <2>4, <2>5, <2>6 DEF GtkOpen, EnterOpen
  <2> QED BY <1>1, <1>4, <1>5, <1>6, <1>8, <2>1, <2>7, DragsAfter DEF DragsShape
<1>9. CASE Wk /\ DraggingEntered /\ UNCHANGED valid
  <2>1. Emits("Enter", Paths, drag'.n) /\ Follows("Enter", Paths, drag'.n)
    BY <1>9 DEF DraggingEntered, Follows
  <2>2. /\ events' \in Seq(Event) /\ History' /\ ToldOver' = drag'.n
        /\ \E j \in OpenEnters' : events'[j].paths = Paths /\ events'[j].of = drag'.n
    BY <1>2, <1>4, <1>6, <1>7, <2>1, EmitsEffect
  <2>3. WkOpen'
    BY <1>4, <1>7, <2>2 DEF WkOpen, EnterOpen
  <2> QED BY <1>1, <1>4, <1>5, <1>6, <1>9, <2>2, <2>3, DragsAfter DEF DragsShape
<1>10. CASE WebView2 /\ DragEnter
  <2>1. CASE files
    <3>1. valid' = TRUE /\ Emits("Enter", Paths, drag'.n) /\ Follows("Enter", Paths, drag'.n)
      BY <1>4, <1>10, <2>1 DEF DragEnter, Follows
    <3>2. /\ events' \in Seq(Event) /\ History' /\ ToldOver' = drag'.n
          /\ \E j \in OpenEnters' : events'[j].paths = Paths /\ events'[j].of = drag'.n
      BY <1>2, <1>4, <1>6, <1>7, <3>1, EmitsEffect
    <3>3. WebView2Open'
      BY <1>4, <1>7, <2>1, <3>1, <3>2 DEF WebView2Open, EnterOpen
    <3> QED BY <1>4, <1>5, <1>6, <1>10, <3>1, <3>2, <3>3, DragsAfter
  <2>2. CASE ~files
    <3>1. UNCHANGED <<valid, events>>
      BY <1>4, <1>10, <2>2 DEF DragEnter
    <3>2. events' \in Seq(Event) /\ History' /\ SomeEnd' = SomeEnd /\ ToldOver' = ToldOver
      BY <1>2, <1>6, <3>1, SilentEffect
    <3>3. WebView2Open /\ ToldOver = 0
      BY <1>1, <1>3, <1>10 DEF DragsShape, WebView2Open
    <3>4. WebView2Open'
      BY <1>3, <1>4, <2>2, <3>1, <3>2, <3>3 DEF WebView2Open
    <3> QED BY <1>1, <1>4, <1>5, <1>6, <1>10, <3>1, <3>2, <3>4, DragsAfter DEF DragsShape
  <2> QED BY <2>1, <2>2
<1> QED BY <1>8, <1>9, <1>10 DEF DragIn

LEMMA DragMovesStep ==
    ASSUME DragsInv, DesktopOK, UNCHANGED desktopVars, DragMoves
    PROVE  DragsInv'
<1>1. DragsShape
  BY DragsHaveShape
<1>2. WebView2' = WebView2
  BY DEF desktopVars, WebView2
<1>3. drag.over /\ UNCHANGED <<drag, gtk, valid, crossed>> /\ crossed \subseteq crossed'
  BY DEF DragMoves
<1>4. CASE Gtk /\ GtkMotion
  <2>1. GtkOpen
    BY <1>1, <1>4 DEF DragsShape
  <2>2. gtk.state # "Left" => gtk.paths = drag'.n \/ drag'.n \in crossed'
    BY <1>3, <2>1 DEF GtkOpen, InStep
  <2>3. drag'.n \in 0..MaxDrags
    BY <1>1, <1>3 DEF DragsShape
  <2>4. /\ events' \in Seq(Event) /\ History'
        /\ gtk.state # "Left" => \E j \in OpenEnters' : events'[j].paths = gtk.paths /\ events'[j].of = gtk.paths
        /\ gtk.state = "Entered" => ToldOver' = drag'.n
        /\ gtk.state # "Entered" => ToldOver' = ToldOver
    BY <1>2, <1>3, <1>4, <2>2, <2>3, MotionEffect
  <2>5. drag'.n \notin crossed' => InStep'
    BY <1>3, <2>1, <2>4 DEF GtkOpen, InStep
  <2>6. GtkOpen'
    BY <1>3, <2>1, <2>4, <2>5 DEF GtkOpen, EnterOpen
  <2> QED BY <1>1, <1>3, <1>4, <2>4, <2>6, DragsAfter DEF DragsShape
<1>5. CASE Wk /\ DraggingUpdated
  <2>1. Emits("Over", 0, drag.n)
    BY <1>3, <1>5 DEF DraggingUpdated
  <2>2. PICK j \in OpenEnters : events[j].paths = (IF drag.files THEN drag.n ELSE 0) /\ events[j].of = drag.n
    BY <1>1, <1>3, <1>5 DEF DragsShape, WkOpen, EnterOpen
  <2>3. Follows("Over", 0, drag.n)
    BY <2>2 DEF Follows
  <2>4. /\ events' \in Seq(Event) /\ History' /\ ToldOver' = drag.n
        /\ j \in OpenEnters' /\ events'[j] = events[j]
    BY <1>1, <1>2, <1>3, <2>1, <2>3, EmitsEffect DEF DragsShape
  <2>5. WkOpen'
    BY <1>3, <2>2, <2>4 DEF WkOpen, EnterOpen
  <2> QED BY <1>1, <1>3, <1>5, <2>4, <2>5, DragsAfter DEF DragsShape
<1>6. CASE WebView2 /\ DragOver
  <2>1. WebView2Open
    BY <1>1, <1>6 DEF DragsShape
  <2>2. CASE valid
    <3>1. Emits("Over", 0, drag.n)
      BY <1>3, <1>6, <2>2 DEF DragOver
    <3>2. SomeEnd \/ (drag.files /\ EnterOpen(drag.n, drag.n))
      BY <2>1, <2>2 DEF WebView2Open
    <3>3. Follows("Over", 0, drag.n)
      BY <1>6, <3>2 DEF Follows, EnterOpen
    <3>4. /\ events' \in Seq(Event) /\ History' /\ ToldOver' = drag.n /\ (SomeEnd => SomeEnd')
          /\ \A j \in OpenEnters : j \in OpenEnters' /\ events'[j] = events[j]
      BY <1>1, <1>2, <1>3, <3>1, <3>3, EmitsEffect DEF DragsShape
    <3>5. EnterOpen(drag.n, drag.n) => EnterOpen(drag.n, drag.n)'
      BY <1>3, <3>4 DEF EnterOpen
    <3>6. WebView2Open'
      BY <1>3, <2>2, <3>2, <3>4, <3>5 DEF WebView2Open, EnterOpen
    <3> QED BY <1>1, <1>3, <1>6, <3>4, <3>6, DragsAfter DEF DragsShape
  <2>3. CASE ~valid
    <3>1. UNCHANGED events
      BY <1>6, <2>3 DEF DragOver
    <3>2. events' \in Seq(Event) /\ History' /\ ToldOver' = ToldOver
      BY <1>2, <1>3, <3>1, SilentEffect
    <3>3. WebView2Open'
      BY <1>3, <2>1, <2>3, <3>2 DEF WebView2Open
    <3> QED BY <1>1, <1>3, <1>6, <3>2, <3>3, DragsAfter DEF DragsShape
  <2> QED BY <2>2, <2>3
<1> QED BY <1>4, <1>5, <1>6 DEF DragMoves

\* On wk and webview2 the end of a drag is told at once.
LEMMA DragEndsStep ==
    ASSUME DragsInv, DesktopOK, UNCHANGED desktopVars, Wk \/ WebView2,
           drag.over, drag' = [drag EXCEPT !.over = FALSE], UNCHANGED <<gtk, valid, crossed>>,
           NEW kind \in {"Leave", "Drop"}, NEW paths, kind = "Leave" => paths = 0, kind = "Drop" => paths = Paths,
           Wk => Emits(kind, paths, drag.n),
           WebView2 => IF valid THEN Emits(kind, paths, drag.n) ELSE UNCHANGED events
    PROVE  DragsInv'
<1>1. DragsShape
  BY DragsHaveShape
<1>2. WebView2' = WebView2
  BY DEF desktopVars, WebView2
<1>3. drag' \in Drag /\ ~drag'.over /\ drag'.files = drag.files /\ drag'.n = drag.n
  BY <1>1 DEF DragsShape, Drag
<1>4. /\ paths \in 0..MaxDrags /\ paths \in {0, drag.n}
      /\ kind = "Drop" => paths = IF drag.files THEN drag.n ELSE 0
  BY <1>1, <1>3 DEF Paths, DragsShape
<1>5. crossed \subseteq crossed' /\ crossed' \subseteq 0..MaxDrags /\ drag.n \in 0..MaxDrags
  BY <1>1 DEF DragsShape
<1>6. CASE Wk
  <2>1. EnterOpen(IF drag.files THEN drag.n ELSE 0, drag.n)
    BY <1>1, <1>6 DEF DragsShape, WkOpen
  <2>2. Follows(kind, paths, drag.n) /\ Emits(kind, paths, drag.n)
    BY <1>4, <1>6, <2>1 DEF Follows, EnterOpen
  <2>3. events' \in Seq(Event) /\ History' /\ ToldOver' = 0
    BY <1>2, <1>4, <1>5, <2>2, EmitsEffect
  <2>4. WkOpen'
    BY <1>3, <2>3 DEF WkOpen
  <2> QED BY <1>1, <1>3, <1>5, <1>6, <2>3, <2>4, DragsAfter DEF DragsShape
<1>7. CASE WebView2 /\ valid
  <2>1. SomeEnd \/ (drag.files /\ EnterOpen(drag.n, drag.n))
    BY <1>1, <1>7 DEF DragsShape, WebView2Open
  <2>2. Follows(kind, paths, drag.n) /\ Emits(kind, paths, drag.n)
    BY <1>4, <1>7, <2>1 DEF Follows, EnterOpen
  <2>3. events' \in Seq(Event) /\ History' /\ ToldOver' = 0 /\ SomeEnd'
    BY <1>2, <1>4, <1>5, <2>2, EmitsEffect
  <2>4. WebView2Open'
    BY <1>3, <2>3 DEF WebView2Open
  <2> QED BY <1>1, <1>3, <1>5, <1>7, <2>3, <2>4, DragsAfter DEF DragsShape
<1>8. CASE WebView2 /\ ~valid
  <2>1. UNCHANGED events
    BY <1>8
  <2>2. events' \in Seq(Event) /\ History' /\ ToldOver' = ToldOver
    BY <1>2, <1>5, <2>1, SilentEffect
  <2>3. WebView2Open'
    BY <1>1, <1>3, <1>8, <2>2 DEF WebView2Open, DragsShape
  <2> QED BY <1>1, <1>3, <1>5, <1>8, <2>2, <2>3, DragsAfter DEF DragsShape
<1> QED BY <1>6, <1>7, <1>8

LEMMA GtkLeftEffect ==
    ASSUME DragsShape
    PROVE  /\ GtkLeft \in Controller
           /\ GtkLeft.paths = gtk.paths /\ GtkLeft.awaited = gtk.awaited
           /\ GtkLeft.state # "Left" <=> gtk.state # "Left"
           /\ GtkLeft.state # "Left" => GtkLeft.state = "Leaving" /\ GtkLeft.idle > 0
<1>1. CASE gtk.state = "Left"
  BY <1>1 DEF GtkLeft, DragsShape
<1>2. CASE gtk.state # "Left"
  <2>1. GtkLeft = [gtk EXCEPT !.state = "Leaving", !.idle = gtk.idle + 1] /\ gtk.idle \in Nat
    BY <1>2 DEF GtkLeft, DragsShape, Controller
  <2>2. gtk.idle + 1 \in Nat /\ gtk.idle + 1 > 0
    BY <2>1
  <2>3. /\ GtkLeft \in Controller
        /\ GtkLeft.state = "Leaving" /\ GtkLeft.paths = gtk.paths /\ GtkLeft.awaited = gtk.awaited
        /\ GtkLeft.idle = gtk.idle + 1
    BY <2>1, <2>2 DEF DragsShape, Controller
  <2> QED BY <1>2, <2>2, <2>3
<1> QED BY <1>1, <1>2

\* A drag leaves on gtk: nothing is told of it yet.
LEMMA GtkLeavesStep ==
    ASSUME DragsInv, DesktopOK, UNCHANGED desktopVars, Gtk,
           drag.over, drag' = [drag EXCEPT !.over = FALSE], UNCHANGED <<valid, crossed>>,
           gtk' = GtkLeft, UNCHANGED events
    PROVE  DragsInv'
<1>1. DragsShape /\ GtkOpen
  BY DragsHaveShape DEF DragsShape
<1>2. WebView2' = WebView2
  BY DEF desktopVars, WebView2
<1>3. drag' \in Drag /\ ~drag'.over /\ drag'.files = drag.files /\ drag'.n = drag.n
  BY <1>1 DEF DragsShape, Drag
<1>4. /\ gtk' \in Controller /\ gtk'.paths = gtk.paths /\ gtk'.awaited = gtk.awaited
      /\ gtk'.state # "Left" <=> gtk.state # "Left"
      /\ gtk'.state # "Left" => gtk'.state = "Leaving" /\ gtk'.idle > 0
  BY <1>1, GtkLeftEffect
<1>5. events' \in Seq(Event) /\ History' /\ OpenEnters' = OpenEnters /\ ToldOver' = ToldOver
  BY <1>2, SilentEffect
<1>6. gtk'.state # "Left" => EnterOpen(gtk.paths, gtk.paths)'
  BY <1>1, <1>4, <1>5 DEF GtkOpen, EnterOpen
<1>7. drag'.n \notin crossed' => InStep'
  BY <1>1, <1>3, <1>4, <1>5 DEF GtkOpen, InStep
<1>8. GtkOpen'
  BY <1>1, <1>3, <1>4, <1>5, <1>6, <1>7 DEF GtkOpen, EnterOpen
<1> QED BY <1>1, <1>3, <1>4, <1>5, <1>8, DragsAfter DEF DragsShape

LEMMA GtkDropsStep ==
    ASSUME DragsInv, DesktopOK, UNCHANGED desktopVars, Gtk,
           drag.over, drag' = [drag EXCEPT !.over = FALSE], UNCHANGED <<valid, crossed>>, GtkDropped
    PROVE  DragsInv'
<1>1. DragsShape /\ GtkOpen
  BY DragsHaveShape DEF DragsShape
<1>2. WebView2' = WebView2
  BY DEF desktopVars, WebView2
<1>3. /\ GtkLeft \in Controller
      /\ GtkLeft.paths = gtk.paths /\ GtkLeft.awaited = gtk.awaited
      /\ GtkLeft.state = "Leaving" <=> gtk.state # "Left"
  BY <1>1, GtkLeftEffect
<1>4. CASE gtk.state # "Left" /\ gtk.paths # 0
  <2>1. gtk' = [GtkLeft EXCEPT !.paths = 0, !.state = "Left"] /\ Emits("Drop", gtk.paths, drag.n)
    BY <1>3, <1>4 DEF GtkDropped
  <2>2. drag' \in Drag /\ ~drag'.over /\ drag'.n = drag.n
    BY <1>1 DEF DragsShape, Drag
  <2>3. gtk' \in Controller /\ gtk'.state = "Left" /\ gtk'.awaited = gtk.awaited
    BY <1>1, <1>3, <2>1 DEF DragsShape, Controller
  <2>4. gtk.paths = drag.n \/ drag.n \in crossed
    BY <1>1, <1>4 DEF GtkOpen, InStep
  <2>5. Follows("Drop", gtk.paths, drag.n)
    <3>1. PICK j \in OpenEnters : events[j].paths = gtk.paths /\ events[j].of = gtk.paths
      BY <1>1, <1>4 DEF GtkOpen, EnterOpen
    <3>2. drag.n = events[j].of \/ drag.n \in crossed' \/ events[j].of \in crossed'
      BY <2>4, <3>1
    <3> QED BY <3>1, <3>2 DEF Follows
  <2>6. gtk.paths \in 0..MaxDrags /\ drag.n \in 0..MaxDrags /\ (gtk.paths \in {0, drag.n} \/ drag.n \in crossed')
    BY <1>1, <2>4 DEF DragsShape, Controller
  <2>7. events' \in Seq(Event) /\ History' /\ ToldOver' = 0
    BY <1>2, <2>1, <2>5, <2>6, EmitsEffect
  <2>8. GtkOpen'
    BY <2>2, <2>3, <2>7 DEF GtkOpen, InStep
  <2> QED BY <1>1, <2>2, <2>3, <2>7, <2>8, DragsAfter DEF DragsShape
<1>5. CASE ~(gtk.state # "Left" /\ gtk.paths # 0)
  <2>1. gtk' = GtkLeft /\ UNCHANGED events
    BY <1>3, <1>5 DEF GtkDropped
  <2> QED BY <2>1, GtkLeavesStep
<1> QED BY <1>4, <1>5

LEMMA DataReceivedStep ==
    ASSUME DragsInv, DesktopOK, UNCHANGED desktopVars, NEW d \in Drags, GtkDataReceived(d)
    PROVE  DragsInv'
<1>1. DragsShape /\ Gtk /\ GtkOpen
  BY DragsHaveShape DEF DragsShape, GtkDataReceived
<1>2. WebView2' = WebView2
  BY DEF desktopVars, WebView2
<1>3. /\ gtk' = [gtk EXCEPT !.state = "Entered", !.paths = d, !.awaited = @ \ {d}]
      /\ Emits("Enter", d, d) /\ UNCHANGED <<drag, valid>>
      /\ crossed' = IF d = drag.n /\ drag.over THEN crossed ELSE crossed \union {d, drag.n}
  BY DEF GtkDataReceived
<1>4. d \in 0..MaxDrags
  BY DragDropAssumption DEF Drags
<1>5. crossed \subseteq crossed' /\ crossed' \subseteq 0..MaxDrags
  BY <1>1, <1>3, <1>4 DEF DragsShape
<1>6. gtk' \in Controller /\ gtk'.state = "Entered" /\ gtk'.paths = d
  BY <1>1, <1>3, <1>4 DEF DragsShape, Controller
<1>7. /\ events' \in Seq(Event) /\ History' /\ ToldOver' = d
      /\ \E j \in OpenEnters' : events'[j].paths = d /\ events'[j].of = d
  <2>1. Follows("Enter", d, d)
    BY DEF Follows
  <2> QED BY <1>2, <1>3, <1>4, <1>5, <2>1, EmitsEffect
<1>8. drag'.n \notin crossed' => InStep'
  BY <1>3, <1>6, <1>7 DEF InStep
<1>9. GtkOpen'
  BY <1>6, <1>7, <1>8 DEF GtkOpen, EnterOpen
<1> QED BY <1>1, <1>3, <1>5, <1>6, <1>7, <1>9, DragsAfter DEF DragsShape

LEMMA IdleStep ==
    ASSUME DragsInv, DesktopOK, UNCHANGED desktopVars, GtkIdle
    PROVE  DragsInv'
<1>1. DragsShape /\ Gtk /\ GtkOpen /\ gtk.idle > 0 /\ UNCHANGED <<drag, valid, crossed>>
  BY DragsHaveShape DEF DragsShape, GtkIdle
<1>2. WebView2' = WebView2
  BY DEF desktopVars, WebView2
<1>3. gtk.idle - 1 \in Nat
  BY <1>1 DEF DragsShape, Controller
<1>4. CASE gtk.state = "Leaving"
  <2>1. gtk' = [gtk EXCEPT !.idle = @ - 1, !.state = "Left"] /\ Emits("Leave", 0, Gone)
    BY <1>4 DEF GtkIdle
  <2>2. gtk' \in Controller /\ gtk'.state = "Left" /\ gtk'.awaited = gtk.awaited
    BY <1>1, <1>3, <2>1 DEF DragsShape, Controller
  <2>3. Gone \in 0..MaxDrags
    BY <1>1 DEF Gone, DragsShape
  <2>4. gtk.paths = Gone \/ Gone \in crossed
    BY <1>1, <1>4 DEF Gone, GtkOpen, InStep
  <2>5. Follows("Leave", 0, Gone)
    <3>1. PICK j \in OpenEnters : events[j].paths = gtk.paths /\ events[j].of = gtk.paths
      BY <1>1, <1>4 DEF GtkOpen, EnterOpen
    <3>2. Gone = events[j].of \/ Gone \in crossed' \/ events[j].of \in crossed'
      BY <1>1, <2>4, <3>1
    <3> QED BY <3>2 DEF Follows
  <2>6. events' \in Seq(Event) /\ History' /\ ToldOver' = 0
    BY <1>1, <1>2, <2>1, <2>3, <2>5, EmitsEffect DEF DragsShape
  <2>7. drag'.n \notin crossed' => InStep'
    BY <1>1, <1>4, <2>2 DEF GtkOpen, InStep
  <2>8. GtkOpen'
    BY <2>2, <2>6, <2>7 DEF GtkOpen
  <2> QED BY <1>1, <2>2, <2>6, <2>8, DragsAfter DEF DragsShape
<1>5. CASE gtk.state # "Leaving"
  <2>1. gtk' = [gtk EXCEPT !.idle = @ - 1] /\ UNCHANGED events
    BY <1>5 DEF GtkIdle
  <2>2. gtk' \in Controller /\ gtk'.state = gtk.state /\ gtk'.paths = gtk.paths /\ gtk'.awaited = gtk.awaited
    BY <1>1, <1>3, <2>1 DEF DragsShape, Controller
  <2>3. events' \in Seq(Event) /\ History' /\ OpenEnters' = OpenEnters /\ ToldOver' = ToldOver
    BY <1>1, <1>2, <2>1, SilentEffect
  <2>4. gtk'.state # "Left" => EnterOpen(gtk.paths, gtk.paths)'
    BY <1>1, <2>1, <2>2, <2>3 DEF GtkOpen, EnterOpen
  <2>5. drag'.n \notin crossed' => InStep'
    BY <1>1, <2>2, <2>3 DEF GtkOpen, InStep
  <2>6. GtkOpen'
    BY <1>1, <1>5, <2>2, <2>3, <2>4, <2>5 DEF GtkOpen, EnterOpen
  <2> QED BY <1>1, <2>2, <2>3, <2>6, DragsAfter DEF DragsShape
<1> QED BY <1>4, <1>5

LEMMA DragsNext ==
    ASSUME DragsInv, DesktopOK, DragStep
    PROVE  DragsInv' /\ UNCHANGED desktopVars
<1>1. UNCHANGED desktopVars
  BY DEF DragStep, DragIn, DragMoves, DragOut, Dropping, GtkDataReceived, GtkIdle
<1>2. ASSUME NEW files \in BOOLEAN, DragIn(files) PROVE DragsInv'
  BY <1>1, <1>2, DragInStep
<1>3. CASE DragMoves
  BY <1>1, <1>3, DragMovesStep
<1>4. CASE DragOut
  <2>1. drag.over /\ drag' = [drag EXCEPT !.over = FALSE] /\ UNCHANGED <<valid, crossed>>
    BY <1>4 DEF DragOut
  <2>2. CASE Gtk /\ GtkLeave
    BY <1>1, <2>1, <2>2, GtkLeavesStep DEF GtkLeave
  <2>3. CASE ((Wk /\ DraggingExited) \/ (WebView2 /\ DragLeave)) /\ UNCHANGED gtk
    <3>1. Wk => Emits("Leave", 0, drag.n)
      BY <2>3, Backend DEF DraggingExited
    <3>2. WebView2 => IF valid THEN Emits("Leave", 0, drag.n) ELSE UNCHANGED events
      BY <2>3, Backend DEF DragLeave
    <3> QED BY <1>1, <2>1, <2>3, <3>1, <3>2, DragEndsStep
  <2> QED BY <1>4, <2>2, <2>3 DEF DragOut
<1>5. CASE Dropping
  <2>1. drag.over /\ drag' = [drag EXCEPT !.over = FALSE] /\ UNCHANGED <<valid, crossed>>
    BY <1>5 DEF Dropping
  <2>2. CASE Gtk /\ GtkDropped
    BY <1>1, <2>1, <2>2, GtkDropsStep
  <2>3. CASE ((Wk /\ PerformDragOperation) \/ (WebView2 /\ DropFiles)) /\ UNCHANGED gtk
    <3>1. Wk => Emits("Drop", Paths, drag.n)
      BY <2>3, Backend DEF PerformDragOperation
    <3>2. WebView2 => IF valid THEN Emits("Drop", Paths, drag.n) ELSE UNCHANGED events
      BY <2>3, Backend DEF DropFiles
    <3> QED BY <1>1, <2>1, <2>3, <3>1, <3>2, DragEndsStep
  <2> QED BY <1>5, <2>2, <2>3 DEF Dropping
<1>6. ASSUME NEW d \in Drags, GtkDataReceived(d) PROVE DragsInv'
  BY <1>1, <1>6, DataReceivedStep
<1>7. CASE GtkIdle
  BY <1>1, <1>7, IdleStep
<1> QED BY <1>1, <1>2, <1>3, <1>4, <1>5, <1>6, <1>7 DEF DragStep

-----------------------------------------------------------------------------
(* Cookies: the shape of the calls.                                        *)

CallRecord == [op : CookieOps, answer : BOOLEAN, inside : BOOLEAN,
          phase : {"none", "unasked", "sent", "completed", "received", "returned", "timed out"}]

LEMMA CookiesInitially == ASSUME CookiesInit PROVE CookiesTypeOK
<1>1. calls \in [CookieCalls -> [op : CookieOps, answer : BOOLEAN, inside : BOOLEAN,
            phase : {"none", "unasked", "sent", "completed", "received", "returned", "timed out"}]]
  BY DEF CookiesInit, CookieOps
<1>2. waiting \in Seq(CookieCalls) /\ store \in Seq(CookieCalls)
  BY DEF CookiesInit
<1>3. jar \in BOOLEAN
  BY Zenon DEF CookiesInit
<1> QED BY <1>1, <1>2, <1>3 DEF CookiesTypeOK

LEMMA CookiesFrame ==
    ASSUME CookiesTypeOK, UNCHANGED cookieVars
    PROVE  CookiesTypeOK'
BY DEF CookiesTypeOK, cookieVars

LEMMA CookiesNext ==
    ASSUME CookiesTypeOK, DesktopOK, CookieStep
    PROVE  CookiesTypeOK' /\ UNCHANGED desktopVars
<1>1. /\ calls \in [CookieCalls -> CallRecord]
      /\ waiting \in Seq(CookieCalls) /\ store \in Seq(CookieCalls) /\ jar \in BOOLEAN
  BY DEF CookiesTypeOK, CallRecord
<1> SUFFICES /\ calls' \in [CookieCalls -> CallRecord]
             /\ waiting' \in Seq(CookieCalls) /\ store' \in Seq(CookieCalls) /\ jar' \in BOOLEAN
             /\ UNCHANGED desktopVars
  BY DEF CookiesTypeOK, CallRecord
<1>2. ASSUME NEW c \in CookieCalls, NEW phase \in {"received", "returned", "timed out"}, CallMoves(c, phase)
      PROVE  calls' \in [CookieCalls -> CallRecord]
  BY <1>1, <1>2 DEF CallMoves, CallRecord
<1>3. ASSUME NEW c \in CookieCalls, CookieCall(c)
      PROVE  /\ calls' \in [CookieCalls -> CallRecord]
             /\ waiting' \in Seq(CookieCalls) /\ store' \in Seq(CookieCalls) /\ jar' \in BOOLEAN
             /\ UNCHANGED desktopVars
  <2>1. store' \in {store, Append(store, c)} /\ UNCHANGED <<desktopVars, jar>>
    BY <1>3 DEF CookieCall
  <2>2. ASSUME NEW op \in CookieOps, Waits(c, op)
        PROVE  calls' \in [CookieCalls -> CallRecord] /\ waiting' \in Seq(CookieCalls)
    <3>1. PICK inside \in BOOLEAN :
            calls' = [calls EXCEPT ![c] = [op |-> op, phase |-> "sent", answer |-> FALSE, inside |-> inside]]
      BY <2>2 DEF Waits, WebView2
    <3>2. waiting' = Append(waiting, c)
      BY <2>2 DEF Waits
    <3>3. calls' \in [CookieCalls -> CallRecord]
      BY <1>1, <3>1 DEF CallRecord
    <3> QED BY <1>1, <3>2, <3>3
  <2>3. ASSUME NEW op \in CookieOps, WebView2SetCookie(c, op)
        PROVE  calls' \in [CookieCalls -> CallRecord] /\ waiting' \in Seq(CookieCalls)
    <3>1. /\ calls' = [calls EXCEPT ![c] = [op |-> op, phase |-> "returned", answer |-> FALSE, inside |-> FALSE]]
          /\ UNCHANGED waiting
      BY <2>3 DEF WebView2SetCookie
    <3> QED BY <1>1, <3>1 DEF CallRecord
  <2>4. ASSUME NEW op \in CookieOps, WithoutManager(c, op)
        PROVE  calls' \in [CookieCalls -> CallRecord] /\ waiting' \in Seq(CookieCalls)
    <3>1. /\ calls' = [calls EXCEPT ![c] = [op |-> op, phase |-> "unasked", answer |-> FALSE, inside |-> FALSE]]
          /\ waiting' = Append(waiting, c)
      BY <2>4 DEF WithoutManager
    <3>2. calls' \in [CookieCalls -> CallRecord]
      BY <1>1, <3>1 DEF CallRecord
    <3> QED BY <1>1, <3>1, <3>2
  <2>5. \E op \in CookieOps : Waits(c, op) \/ WithoutManager(c, op) \/ WebView2SetCookie(c, op)
    BY <1>3 DEF CookieCall, GtkCookies, GtkSetCookie, GtkDeleteCookie, WkCookies, WkSetCookie, WkDeleteCookie,
                WebView2Cookies, CookieOps
  <2>6. store' \in Seq(CookieCalls)
    BY <1>1, <2>1
  <2> QED BY <1>1, <2>1, <2>2, <2>3, <2>4, <2>5, <2>6
<1>4. ASSUME NEW c \in CookieCalls, CallTimesOut(c) \/ CallReturns(c)
      PROVE  /\ calls' \in [CookieCalls -> CallRecord]
             /\ waiting' \in Seq(CookieCalls) /\ store' \in Seq(CookieCalls) /\ jar' \in BOOLEAN
             /\ UNCHANGED desktopVars
  <2>1. /\ CallMoves(c, "timed out") \/ CallMoves(c, "returned")
        /\ waiting # <<>> /\ waiting' = SubSeq(waiting, 1, Len(waiting) - 1)
        /\ UNCHANGED <<desktopVars, store, jar>>
    BY <1>4 DEF CallTimesOut, CallReturns, Innermost
  <2>2. waiting' \in Seq(CookieCalls)
    <3>1. Len(waiting) \in Nat /\ \A i \in 1..Len(waiting) : waiting[i] \in CookieCalls
      BY <1>1
    <3>2. Len(waiting) - 1 \in Int /\ \A i \in 1..(Len(waiting) - 1) : waiting[i] \in CookieCalls
      BY <3>1
    <3>3. SubSeq(waiting, 1, Len(waiting) - 1) \in Seq(CookieCalls)
      BY <3>2, SubSeqProperties, 1 \in Int
    <3> QED BY <2>1, <3>3
  <2> QED BY <1>1, <1>2, <2>1, <2>2
<1>5. CASE StoreServes
  <2>1. /\ store # <<>> /\ store' = Tail(store) /\ UNCHANGED <<desktopVars, waiting>>
        /\ jar' = IF calls[Head(store)].op = "get" THEN jar ELSE calls[Head(store)].op = "set"
    BY <1>5 DEF StoreServes
  <2>2. PICK c \in CookieCalls : c = Head(store)
    BY <1>1, <2>1
  <2>3. calls' = [calls EXCEPT ![c].answer = jar',
                               ![c].phase = IF @ = "sent" THEN "completed" ELSE @]
    BY <1>5, <2>2 DEF StoreServes
  <2>4. jar' \in BOOLEAN
    <3>1. CASE calls[Head(store)].op = "get"
      BY <1>1, <2>1, <3>1, Zenon
    <3>2. CASE calls[Head(store)].op # "get"
      <4>1. jar' = (calls[Head(store)].op = "set")
        BY <2>1, <3>2, Zenon
      <4> QED BY <4>1, Zenon
    <3> QED BY <3>1, <3>2
  <2>5. calls[c] \in CallRecord
    BY <1>1
  <2>6. [[calls[c] EXCEPT !.answer = jar'] EXCEPT !.phase = IF @ = "sent" THEN "completed" ELSE @] \in CallRecord
    BY <2>4, <2>5 DEF CallRecord
  <2>7. calls' \in [CookieCalls -> CallRecord]
    BY <1>1, <2>3, <2>4, <2>5, <2>6
  <2> QED BY <1>1, <2>1, <2>4, <2>7
<1>6. ASSUME NEW c \in CookieCalls, Received(c)
      PROVE  /\ calls' \in [CookieCalls -> CallRecord]
             /\ waiting' \in Seq(CookieCalls) /\ store' \in Seq(CookieCalls) /\ jar' \in BOOLEAN
             /\ UNCHANGED desktopVars
  BY <1>1, <1>2, <1>6 DEF Received
<1>7. Pumping => \E c \in CookieCalls : Received(c)
  BY DEF Pumping, MainIteration, AcceptInput, WaitWithPump
<1> QED BY <1>3, <1>4, <1>5, <1>6, <1>7 DEF CookieStep, Returning

-----------------------------------------------------------------------------
(* Scripts.  A script is in one of three places: it ran, it is on its way  *)
(* to the page, or it waits for the first commit.  While any may wait none *)
(* is on its way, so the three follow each other in the order of the       *)
(* evaluations.                                                            *)

Run == [script : 1..MaxEvals, doc : 0..MaxLoads]
Message == [kind : {"commit", "ipc"}, doc : 1..MaxLoads]

PageShape ==
    /\ DesktopOK
    /\ pending \in [open : BOOLEAN, scripts : Seq(1..MaxEvals)]
    /\ ui \in [doc : 0..MaxLoads, load : 0..MaxLoads]
    /\ web \in [doc : 0..MaxLoads, alive : BOOLEAN]
    /\ toWeb \in Seq(1..MaxEvals)
    /\ toUi \in Seq(Message)
    /\ loads \in Nat /\ evals \in Nat
    /\ ran \in Seq(Run)

\* The scripts of a queue come in the order in which they were evaluated, after those that ran.
Queue(q) ==
    /\ \A i \in DOMAIN q : q[i] <= evals /\ \A k \in DOMAIN ran : ran[k].script < q[i]
    /\ \A i, j \in DOMAIN q : i < j => q[i] < q[j]

\* Scripts are pending until the first commit, and never on webview2.
OneQueue ==
    /\ ~pending.open => pending.scripts = <<>>
    /\ pending.open => toWeb = <<>> /\ ran = <<>>
    /\ WebView2 => ~pending.open

\* What the page's process reports, it reports of a document that it has committed; a script that had
\* to wait waited until then.
AfterCommit ==
    /\ toUi # <<>> => web.doc > 0
    /\ ~pending.open /\ early # {} => web.doc > 0

RanBefore == \A k \in DOMAIN ran : ran[k].script <= evals

ScriptsInv == OneQueue /\ Queue(toWeb) /\ Queue(pending.scripts) /\ AfterCommit /\ RanBefore /\ ScriptsReachTheirPage

LEMMA PageInitially == ASSUME PageInit PROVE PageShape /\ ScriptsInv /\ MessageNamesItsPage
<1>1. DesktopOK
  BY DEF PageInit, DesktopInit, DesktopOK
<1>2. PICK open \in BOOLEAN : pending = [open |-> open, scripts |-> <<>>] /\ (WebView2 => ~open)
  <2>1. CASE Gtk
    BY <1>1, <2>1, Backend DEF PageInit, GtkView
  <2>2. CASE Wk
    BY <1>1, <2>2, Backend DEF PageInit, WkView
  <2>3. CASE WebView2
    BY <1>1, <2>3, Backend DEF PageInit, WebView2View, NoScripts
  <2> QED BY <1>1, <2>1, <2>2, <2>3, Backend DEF Gtk, Wk, WebView2
<1>3. 0 \in 0..MaxLoads /\ <<>> \in Seq(1..MaxEvals) /\ <<>> \in Seq(Message) /\ <<>> \in Seq(Run)
  BY WebPageAssumption
<1>4. PageShape
  <2>1. ui \in [doc : 0..MaxLoads, load : 0..MaxLoads] /\ web \in [doc : 0..MaxLoads, alive : BOOLEAN]
    BY <1>3 DEF PageInit
  <2>2. pending \in [open : BOOLEAN, scripts : Seq(1..MaxEvals)]
    BY <1>2, <1>3
  <2> QED BY <1>1, <1>3, <2>1, <2>2 DEF PageInit, PageShape
<1>5. toWeb = <<>> /\ ran = <<>>
  BY DEF PageInit
<1>51. pending.scripts = <<>>
  BY <1>2
<1>52. OneQueue
  <2>1. WebView2 => ~pending.open
    BY <1>2
  <2> QED BY <1>5, <1>51, <2>1 DEF OneQueue
<1>6. Queue(toWeb) /\ Queue(pending.scripts)
  BY <1>5, <1>51 DEF Queue
<1>7. AfterCommit /\ RanBefore /\ ScriptsReachTheirPage /\ MessageNamesItsPage
  BY DEF PageInit, AfterCommit, RanBefore, ScriptsReachTheirPage, MessageNamesItsPage
<1> QED BY <1>4, <1>52, <1>6, <1>7 DEF ScriptsInv

\* The other scenes
LEMMA PageFrame ==
    ASSUME PageShape, ScriptsInv, MessageNamesItsPage, OnlyDrops, UNCHANGED pageOnly
    PROVE  PageShape' /\ ScriptsInv' /\ MessageNamesItsPage'
<1>1. UNCHANGED <<pending, ui, web, toWeb, toUi, loads, evals, posts, early, ran, heard, terminated>>
  BY DEF pageOnly
<1>2. backend' = backend /\ Gtk' = Gtk /\ Wk' = Wk /\ WebView2' = WebView2
  BY DEF OnlyDrops, Gtk, Wk, WebView2
<1>3. PageShape'
  BY <1>1, <1>2 DEF PageShape, DesktopOK, OnlyDrops
<1>4. Queue(toWeb)' /\ Queue(pending.scripts)'
  BY <1>1 DEF ScriptsInv, Queue
<1>5. OneQueue' /\ AfterCommit' /\ RanBefore' /\ ScriptsReachTheirPage'
  BY <1>1, <1>2 DEF ScriptsInv, OneQueue, AfterCommit, RanBefore, ScriptsReachTheirPage
<1>6. MessageNamesItsPage'
  BY <1>1, <1>2 DEF MessageNamesItsPage
<1> QED BY <1>3, <1>4, <1>5, <1>6 DEF ScriptsInv

\* All that can happen to the page in one of its two scenes
LoadEnds ==
    /\ ui.load # 0
    /\ ui' = [ui EXCEPT !.load = 0]
    /\ UNCHANGED <<desktopVars, pending, web, toWeb, toUi, loads, evals, posts, early, ran, heard, terminated>>

PageAction ==
    \/ Navigate \/ WebCommits \/ UiCommits \/ WebRuns \/ UiHears \/ Eval \/ WebPosts \/ ProcessTerminates
    \/ DropPage \/ LoadEnds

LEMMA PageKeepsDesktop == ASSUME DesktopOK, PageAction PROVE OnlyDrops /\ DesktopOK' /\ Gtk' = Gtk /\ Wk' = Wk /\ WebView2' = WebView2
<1>1. DropView \/ UNCHANGED desktopVars
  BY DEF PageAction, Navigate, WebCommits, UiCommits, WebRuns, UiHears, Eval, WebPosts, ProcessTerminates, DropPage, LoadEnds
<1>2. OnlyDrops /\ Gtk' = Gtk /\ Wk' = Wk /\ WebView2' = WebView2
  BY <1>1, DropOnlyDrops
<1> QED BY <1>2 DEF OnlyDrops, DesktopOK

\* Effects of the actions on what the scripts are about.
LEMMA BeginEffect ==
    ASSUME PageShape, Navigate
    PROVE  /\ loads' \in Nat
           /\ ui' \in [doc : 0..MaxLoads, load : 0..MaxLoads] /\ ui'.doc = ui.doc
           /\ web' \in [doc : 0..MaxLoads, alive : BOOLEAN] /\ web'.doc = web.doc
           /\ UNCHANGED <<ui, web>> \/ (ui'.load # 0 /\ web'.alive)
<1>1. Begin /\ loads < MaxLoads
  BY DEF Navigate, GtkNavigate, WkNavigate, WebView2Navigate
<1>2. CASE UNCHANGED <<loads, ui, web>>
  BY <1>2 DEF PageShape
<1>3. CASE /\ loads' = loads + 1
           /\ ui' = [ui EXCEPT !.load = loads']
           /\ web' = [web EXCEPT !.alive = TRUE]
  <2>1. loads' \in 1..MaxLoads
    BY <1>1, <1>3, WebPageAssumption DEF PageShape
  <2>2. loads' \in 0..MaxLoads /\ loads' # 0 /\ loads' \in Nat
    BY <2>1
  <2> QED BY <1>3, <2>2 DEF PageShape
<1> QED BY <1>1, <1>2, <1>3 DEF Begin

\* The scripts after a commit: those of one queue, and the one that the handler evaluates.
LEMMA CommitEffect ==
    ASSUME PageShape, ScriptsInv, UiCommits
    PROVE  /\ toUi # <<>> /\ Head(toUi).kind = "commit" /\ toUi' = Tail(toUi)
           /\ ui' = [doc |-> Head(toUi).doc, load |-> IF ui.load = Head(toUi).doc THEN 0 ELSE ui.load]
           /\ pending' = NoScripts
           /\ UNCHANGED <<web, loads, ran, heard>>
           /\ \E more \in BOOLEAN, q \in {toWeb, pending.scripts} :
                /\ more => evals + 1 \in 1..MaxEvals
                /\ evals' = IF more THEN evals + 1 ELSE evals
                /\ toWeb' = IF more THEN Append(q, evals + 1) ELSE q
                /\ early' = IF more /\ pending.open THEN early \union {evals + 1} ELSE early
<1>1. PICK more \in BOOLEAN :
        /\ more => evals < MaxEvals
        /\ evals' = IF more THEN evals + 1 ELSE evals
        /\ Flush(more)
  BY DEF UiCommits, GtkCommitted, WkCommitted, ContentLoading
<1>2. /\ pending' = NoScripts
      /\ toWeb' = toWeb \o (IF more THEN Append(pending.scripts, evals + 1) ELSE pending.scripts)
      /\ early' = IF more /\ pending.open THEN early \union {evals + 1} ELSE early
  BY <1>1 DEF Flush, Pushed
<1>3. toWeb \in Seq(Nat) /\ pending.scripts \in Seq(Nat) /\ evals \in Nat /\ evals + 1 \in Nat
  <2>1. toWeb \in Seq(1..MaxEvals) /\ pending.scripts \in Seq(1..MaxEvals) /\ evals \in Nat
    BY DEF PageShape
  <2>2. 1..MaxEvals \subseteq Nat
    BY WebPageAssumption
  <2>3. \A s \in Seq(1..MaxEvals) : s \in Seq(Nat)
    BY <2>2, SeqMonotonic
  <2> QED BY <2>1, <2>3
<1>4. more => evals + 1 \in 1..MaxEvals
  BY <1>1, <1>3, WebPageAssumption
<1>5. CASE pending.open
  <2>1. toWeb = <<>>
    BY <1>5 DEF ScriptsInv, OneQueue
  <2>2. Append(pending.scripts, evals + 1) \in Seq(Nat)
    BY <1>3
  <2>3. toWeb' = IF more THEN Append(pending.scripts, evals + 1) ELSE pending.scripts
    BY <1>2, <1>3, <2>1, <2>2, ConcatEmptySeq
  <2> QED BY <1>1, <1>2, <1>4, <2>3 DEF UiCommits
<1>6. CASE ~pending.open
  <2>1. pending.scripts = <<>>
    BY <1>6 DEF ScriptsInv, OneQueue
  <2>2. CASE more
    <3>1. toWeb' = toWeb \o Append(<<>>, evals + 1)
      BY <1>2, <2>1, <2>2
    <3>2. toWeb' = Append(toWeb, evals + 1)
      BY <1>3, <3>1
    <3> QED BY <1>1, <1>2, <1>4, <2>2, <3>2 DEF UiCommits
  <2>3. CASE ~more
    <3>1. toWeb' = toWeb
      BY <1>2, <1>3, <2>1, <2>3, ConcatEmptySeq
    <3> QED BY <1>1, <1>2, <1>4, <2>3, <3>1 DEF UiCommits
  <2> QED BY <2>2, <2>3
<1> QED BY <1>5, <1>6

LEMMA EvalEffect ==
    ASSUME PageShape, ScriptsInv, Eval
    PROVE  /\ evals' = evals + 1 /\ evals + 1 \in 1..MaxEvals
           /\ UNCHANGED <<ui, web, toUi, loads, ran, heard>>
           /\ \/ /\ pending.open
                 /\ pending' = [pending EXCEPT !.scripts = Append(@, evals + 1)]
                 /\ early' = early \union {evals + 1} /\ UNCHANGED toWeb
              \/ /\ ~pending.open
                 /\ toWeb' = IF web.alive THEN Append(toWeb, evals + 1) ELSE toWeb
                 /\ UNCHANGED <<pending, early>>
<1>1. evals' = evals + 1 /\ evals < MaxEvals /\ UNCHANGED <<ui, web, toUi, loads, ran, heard>>
  BY DEF Eval
<1>2. evals + 1 \in 1..MaxEvals
  BY <1>1, WebPageAssumption DEF PageShape
<1>3. (pending.open /\ Pend) \/ (~pending.open /\ RunScript)
  BY DEF Eval, GtkEval, WkEval, WebView2Eval, ScriptsInv, OneQueue
<1> QED BY <1>1, <1>2, <1>3 DEF Pend, RunScript

LEMMA TailFacts ==
    ASSUME NEW S, NEW s \in Seq(S), s # <<>>
    PROVE  /\ Len(s) \in Nat \ {0} /\ DOMAIN s = 1..Len(s)
           /\ Head(s) = s[1] /\ Head(s) \in S
           /\ Tail(s) \in Seq(S) /\ Len(Tail(s)) = Len(s) - 1 /\ DOMAIN Tail(s) = 1..(Len(s) - 1)
           /\ \A i \in 1..(Len(s) - 1) : Tail(s)[i] = s[i + 1]
<1>1. Len(s) \in Nat \ {0} /\ DOMAIN s = 1..Len(s)
  BY EmptySeq
<1>2. /\ Head(s) \in S /\ Tail(s) \in Seq(S) /\ Len(Tail(s)) = Len(s) - 1
      /\ \A i \in 1..Len(Tail(s)) : Tail(s)[i] = s[i + 1]
  BY HeadTailProperties
<1> QED BY <1>1, <1>2

LEMMA AppendFacts ==
    ASSUME NEW S, NEW s \in Seq(S), NEW e \in S
    PROVE  /\ Len(s) \in Nat /\ DOMAIN s = 1..Len(s)
           /\ Append(s, e) \in Seq(S) /\ DOMAIN Append(s, e) = 1..(Len(s) + 1) /\ Len(Append(s, e)) = Len(s) + 1
           /\ \A i \in 1..Len(s) : Append(s, e)[i] = s[i]
           /\ Append(s, e)[Len(s) + 1] = e
OBVIOUS

LEMMA PageShapeStep ==
    ASSUME PageShape, ScriptsInv, PageAction
    PROVE  PageShape'
<1>1. /\ DesktopOK
      /\ pending \in [open : BOOLEAN, scripts : Seq(1..MaxEvals)]
      /\ ui \in [doc : 0..MaxLoads, load : 0..MaxLoads]
      /\ web \in [doc : 0..MaxLoads, alive : BOOLEAN]
      /\ toWeb \in Seq(1..MaxEvals) /\ toUi \in Seq(Message)
      /\ loads \in Nat /\ evals \in Nat /\ ran \in Seq(Run)
  BY DEF PageShape
<1>2. DesktopOK'
  BY <1>1, PageKeepsDesktop
<1>3. CASE Navigate
  <2>1. UNCHANGED <<pending, toWeb, toUi, evals, ran>>
    BY <1>3 DEF Navigate
  <2>2. /\ loads' \in Nat
        /\ ui' \in [doc : 0..MaxLoads, load : 0..MaxLoads]
        /\ web' \in [doc : 0..MaxLoads, alive : BOOLEAN]
    BY <1>3, BeginEffect
  <2> QED BY <1>1, <1>2, <2>1, <2>2 DEF PageShape
<1>4. CASE WebCommits
  <2>1. /\ ui.load > web.doc
        /\ web' = [web EXCEPT !.doc = ui.load]
        /\ toUi' = Append(toUi, [kind |-> "commit", doc |-> ui.load])
        /\ UNCHANGED <<pending, ui, toWeb, loads, evals, ran>>
    BY <1>4 DEF WebCommits
  <2>2. ui.load \in 1..MaxLoads /\ ui.load \in 0..MaxLoads
    BY <1>1, <2>1, WebPageAssumption
  <2>3. [kind |-> "commit", doc |-> ui.load] \in Message
    BY <2>2 DEF Message
  <2>4. toUi' \in Seq(Message) /\ web' \in [doc : 0..MaxLoads, alive : BOOLEAN]
    <3>1. toUi' \in Seq(Message)
      BY <1>1, <2>1, <2>3, AppendFacts
    <3>2. web' \in [doc : 0..MaxLoads, alive : BOOLEAN]
      BY <1>1, <2>1, <2>2
    <3> QED BY <3>1, <3>2
  <2> QED BY <1>1, <1>2, <2>1, <2>4 DEF PageShape
<1>5. CASE UiCommits
  <2>1. /\ toUi # <<>> /\ toUi' = Tail(toUi)
        /\ ui' = [doc |-> Head(toUi).doc, load |-> IF ui.load = Head(toUi).doc THEN 0 ELSE ui.load]
        /\ pending' = NoScripts
        /\ UNCHANGED <<web, loads, ran>>
    BY <1>5, CommitEffect
  <2>2. PICK more \in BOOLEAN, q \in {toWeb, pending.scripts} :
                /\ more => evals + 1 \in 1..MaxEvals
                /\ evals' = IF more THEN evals + 1 ELSE evals
                /\ toWeb' = IF more THEN Append(q, evals + 1) ELSE q
    BY <1>5, CommitEffect
  <2>3. toUi' \in Seq(Message) /\ Head(toUi) \in Message
    BY <1>1, <2>1, TailFacts
  <2>4. Head(toUi).doc \in 0..MaxLoads /\ 0 \in 0..MaxLoads
    BY <2>3, WebPageAssumption DEF Message
  <2>5. ui' \in [doc : 0..MaxLoads, load : 0..MaxLoads]
    BY <1>1, <2>1, <2>4
  <2>6. pending' \in [open : BOOLEAN, scripts : Seq(1..MaxEvals)]
    BY <2>1 DEF NoScripts
  <2>7. q \in Seq(1..MaxEvals)
    BY <1>1
  <2>8. toWeb' \in Seq(1..MaxEvals) /\ evals' \in Nat
    <3>1. CASE more
      <4>1. Append(q, evals + 1) \in Seq(1..MaxEvals)
        BY <2>2, <2>7, <3>1, AppendFacts
      <4> QED BY <1>1, <2>2, <3>1, <4>1
    <3>2. CASE ~more
      BY <1>1, <2>2, <2>7, <3>2
    <3> QED BY <3>1, <3>2
  <2> QED BY <1>1, <1>2, <2>1, <2>3, <2>5, <2>6, <2>8 DEF PageShape
<1>6. CASE WebRuns
  <2>1. /\ toWeb # <<>> /\ toWeb' = Tail(toWeb)
        /\ ran' = Append(ran, [script |-> Head(toWeb), doc |-> web.doc])
        /\ UNCHANGED <<pending, ui, web, toUi, loads, evals>>
    BY <1>6 DEF WebRuns
  <2>2. toWeb' \in Seq(1..MaxEvals) /\ Head(toWeb) \in 1..MaxEvals
    BY <1>1, <2>1, TailFacts
  <2>3. ran' \in Seq(Run)
    <3>1. [script |-> Head(toWeb), doc |-> web.doc] \in Run
      BY <1>1, <2>2 DEF Run
    <3> QED BY <1>1, <2>1, <3>1
  <2> QED BY <1>1, <1>2, <2>1, <2>2, <2>3 DEF PageShape
<1>7. CASE UiHears
  <2>1. /\ toUi # <<>> /\ toUi' = Tail(toUi)
        /\ UNCHANGED <<pending, ui, web, toWeb, loads, evals, ran>>
    BY <1>7 DEF UiHears
  <2>2. toUi' \in Seq(Message)
    BY <1>1, <2>1, TailFacts
  <2> QED BY <1>1, <1>2, <2>1, <2>2 DEF PageShape
<1>8. CASE Eval
  <2>1. /\ evals' = evals + 1 /\ evals + 1 \in 1..MaxEvals
        /\ UNCHANGED <<ui, web, toUi, loads, ran>>
        /\ \/ /\ pending' = [pending EXCEPT !.scripts = Append(@, evals + 1)]
              /\ UNCHANGED toWeb
           \/ /\ toWeb' = IF web.alive THEN Append(toWeb, evals + 1) ELSE toWeb
              /\ UNCHANGED pending
    BY <1>8, EvalEffect
  <2>2. pending' \in [open : BOOLEAN, scripts : Seq(1..MaxEvals)] /\ toWeb' \in Seq(1..MaxEvals)
    <3>1. pending.scripts \in Seq(1..MaxEvals)
      BY <1>1
    <3>2. Append(pending.scripts, evals + 1) \in Seq(1..MaxEvals) /\ Append(toWeb, evals + 1) \in Seq(1..MaxEvals)
      BY <1>1, <2>1, <3>1, AppendFacts
    <3> QED BY <1>1, <2>1, <3>2
  <2> QED BY <1>1, <1>2, <2>1, <2>2 DEF PageShape
<1>9. CASE WebPosts
  <2>1. /\ web.doc # 0
        /\ toUi' = Append(toUi, [kind |-> "ipc", doc |-> web.doc])
        /\ UNCHANGED <<pending, ui, web, toWeb, loads, evals, ran>>
    BY <1>9 DEF WebPosts
  <2>2. [kind |-> "ipc", doc |-> web.doc] \in Message
    BY <1>1, <2>1 DEF Message
  <2>3. toUi' \in Seq(Message)
    BY <1>1, <2>1, <2>2
  <2> QED BY <1>1, <1>2, <2>1, <2>3 DEF PageShape
<1>10. CASE ProcessTerminates
  <2>1. /\ web' = [web EXCEPT !.alive = FALSE] /\ ui' = [ui EXCEPT !.load = 0]
        /\ toWeb' = <<>> /\ toUi' = <<>>
        /\ UNCHANGED <<pending, loads, evals, ran>>
    BY <1>10 DEF ProcessTerminates
  <2>2. /\ web' \in [doc : 0..MaxLoads, alive : BOOLEAN]
        /\ ui' \in [doc : 0..MaxLoads, load : 0..MaxLoads]
    <3>1. 0 \in 0..MaxLoads
      BY WebPageAssumption
    <3> QED BY <1>1, <2>1, <3>1
  <2> QED BY <1>1, <1>2, <2>1, <2>2 DEF PageShape
<1>11. CASE DropPage
  BY <1>1, <1>2, <1>11 DEF DropPage, PageShape
<1>12. CASE LoadEnds
  <2>1. ui' \in [doc : 0..MaxLoads, load : 0..MaxLoads]
    <3>1. 0 \in 0..MaxLoads
      BY WebPageAssumption
    <3> QED BY <1>1, <1>12, <3>1 DEF LoadEnds
  <2> QED BY <1>1, <1>2, <1>12, <2>1 DEF LoadEnds, PageShape
<1> QED BY <1>3, <1>4, <1>5, <1>6, <1>7, <1>8, <1>9, <1>10, <1>11, <1>12 DEF PageAction

\* A queue to which the next script is appended
LEMMA QueueGrows ==
    ASSUME PageShape, NEW q \in Seq(1..MaxEvals), Queue(q), RanBefore, UNCHANGED ran, evals' = evals + 1,
           NEW next, next = evals + 1, next \in 1..MaxEvals
    PROVE  (\A s : s = Append(q, next) => Queue(s))' /\ (\A s : s = q => Queue(s))' /\ RanBefore'
<1>0. evals \in Nat /\ ran \in Seq(Run) /\ (\A k \in DOMAIN ran : ran[k].script \in Nat)
  <2>1. evals \in Nat /\ ran \in Seq(Run)
    BY DEF PageShape
  <2>2. \A k \in DOMAIN ran : ran[k] \in Run
    BY <2>1
  <2> QED BY <2>1, <2>2, WebPageAssumption DEF Run
<1>1. RanBefore'
  BY <1>0 DEF RanBefore
<1>2. /\ Len(q) \in Nat /\ DOMAIN q = 1..Len(q)
      /\ DOMAIN Append(q, next) = 1..(Len(q) + 1)
      /\ \A i \in 1..Len(q) : Append(q, next)[i] = q[i]
      /\ Append(q, next)[Len(q) + 1] = next
  BY AppendFacts
<1>3. \A i \in 1..Len(q) : q[i] \in Nat /\ q[i] <= evals /\ q[i] < next
  <2>1. \A i \in 1..Len(q) : q[i] \in 1..MaxEvals
    BY ElementOfSeq
  <2>2. \A i \in 1..Len(q) : q[i] <= evals
    BY <1>2 DEF Queue
  <2> QED BY <1>0, <2>1, <2>2, WebPageAssumption
<1>4. ASSUME NEW s, s = q PROVE Queue(s)'
  <2>1. \A i \in DOMAIN s : s[i] <= evals' /\ \A k \in DOMAIN ran : ran[k].script < s[i]
    BY <1>0, <1>2, <1>3, <1>4 DEF Queue
  <2> QED BY <1>4, <2>1 DEF Queue
<1>5. ASSUME NEW s, s = Append(q, next) PROVE Queue(s)'
  <2>1. ASSUME NEW i \in DOMAIN s
        PROVE  s[i] <= evals' /\ \A k \in DOMAIN ran : ran[k].script < s[i]
    <3>1. CASE i \in 1..Len(q)
      BY <1>0, <1>2, <1>3, <1>5, <3>1 DEF Queue
    <3>2. CASE i = Len(q) + 1
      BY <1>0, <1>2, <1>5, <3>2 DEF RanBefore
    <3> QED BY <1>2, <1>5, <3>1, <3>2
  <2>2. ASSUME NEW i \in DOMAIN s, NEW j \in DOMAIN s, i < j
        PROVE  s[i] < s[j]
    <3>1. CASE j \in 1..Len(q)
      BY <1>2, <1>5, <2>2, <3>1 DEF Queue
    <3>2. CASE j = Len(q) + 1
      BY <1>2, <1>3, <1>5, <2>2, <3>2
    <3> QED BY <1>2, <1>5, <3>1, <3>2
  <2> QED BY <2>1, <2>2 DEF Queue
<1> QED BY <1>1, <1>4, <1>5

LEMMA EmptyQueue == ASSUME PageShape PROVE Queue(<<>>) /\ Queue(<<>>)'
BY DEF Queue

\* The script at the head of the queue runs: it is later than those that ran before.
LEMMA RunEffect ==
    ASSUME PageShape, ScriptsInv, WebRuns
    PROVE  ScriptsInv'
<1>1. /\ toWeb # <<>> /\ toWeb' = Tail(toWeb)
      /\ ran' = Append(ran, [script |-> Head(toWeb), doc |-> web.doc])
      /\ UNCHANGED <<backend, pending, ui, web, toUi, evals, early>>
  BY DEF WebRuns, desktopVars
<1>2. /\ toWeb \in Seq(1..MaxEvals) /\ ran \in Seq(Run) /\ web \in [doc : 0..MaxLoads, alive : BOOLEAN]
      /\ evals \in Nat
  BY DEF PageShape
<1>3. /\ Len(toWeb) \in Nat \ {0} /\ DOMAIN toWeb = 1..Len(toWeb)
      /\ Head(toWeb) = toWeb[1] /\ Head(toWeb) \in 1..MaxEvals
      /\ DOMAIN toWeb' = 1..(Len(toWeb) - 1)
      /\ \A i \in 1..(Len(toWeb) - 1) : toWeb'[i] = toWeb[i + 1]
  BY <1>1, <1>2, TailFacts
<1>4. PICK r \in Run : r = [script |-> Head(toWeb), doc |-> web.doc]
  BY <1>2, <1>3 DEF Run
<1>5. r.script = toWeb[1] /\ r.doc = web.doc
  BY <1>3, <1>4
<1>6. ran' = Append(ran, r)
  BY <1>1, <1>4
<1>7. PICK n \in Nat : n = Len(ran)
  BY <1>2
<1>8. /\ DOMAIN ran = 1..n /\ DOMAIN ran' = 1..(n + 1)
      /\ \A k \in 1..n : ran'[k] = ran[k]
      /\ ran'[n + 1] = r
  BY <1>2, <1>6, <1>7, AppendFacts
<1>9. Queue(toWeb) /\ RanBefore /\ ScriptsReachTheirPage /\ OneQueue /\ AfterCommit
  BY DEF ScriptsInv
<1>10. \A k \in 1..n : ran[k].script < toWeb[1]
  BY <1>3, <1>8, <1>9, SMTT(30) DEF Queue
<1>11. ~pending.open /\ pending.scripts = <<>>
  BY <1>1, <1>9 DEF OneQueue
<1>12. OneQueue'
  BY <1>1, <1>9, <1>11 DEF OneQueue, WebView2
<1>13. AfterCommit'
  BY <1>1, <1>9 DEF AfterCommit
<1>14. \A k \in DOMAIN ran' : ran'[k].script <= evals /\ ran'[k].script <= toWeb[1]
  <2>1. \A k \in 1..n : ran[k].script \in Nat
    <3>1. \A k \in 1..n : ran[k] \in Run
      BY <1>2, <1>7, <1>8
    <3> QED BY <3>1, WebPageAssumption DEF Run
  <2>2. ASSUME NEW k \in 1..n PROVE ran'[k].script <= evals /\ ran'[k].script <= toWeb[1]
    <3>1. ran[k].script <= evals /\ ran[k].script < toWeb[1] /\ ran[k].script \in Nat
      BY <1>8, <1>9, <1>10, <2>1 DEF RanBefore
    <3>2. toWeb[1] \in Nat
      BY <1>3, WebPageAssumption
    <3> QED BY <1>8, <3>1, <3>2
  <2>3. toWeb[1] <= evals /\ toWeb[1] \in Nat
    BY <1>3, <1>9, WebPageAssumption DEF Queue
  <2> QED BY <1>5, <1>8, <2>2, <2>3
<1>15. RanBefore'
  BY <1>1, <1>14 DEF RanBefore
<1>16. \A i \in 1..(Len(toWeb) - 1) : toWeb'[i] = toWeb[i + 1] /\ i + 1 \in 1..Len(toWeb) /\ 1 < i + 1
  BY <1>3
<1>17. Queue(toWeb)'
  <2>1. ASSUME NEW i \in DOMAIN toWeb' PROVE toWeb'[i] <= evals /\ \A k \in DOMAIN ran' : ran'[k].script < toWeb'[i]
    <3>1. toWeb'[i] = toWeb[i + 1] /\ i + 1 \in 1..Len(toWeb) /\ 1 \in 1..Len(toWeb) /\ 1 < i + 1
      BY <1>3, <1>16
    <3>2. toWeb[i + 1] <= evals /\ toWeb[1] < toWeb[i + 1]
      BY <1>3, <1>9, <3>1 DEF Queue
    <3>3. toWeb[1] \in Nat /\ toWeb[i + 1] \in Nat
      BY <1>2, <3>1, ElementOfSeq, WebPageAssumption
    <3>4. \A k \in DOMAIN ran' : ran'[k].script \in Nat
      <4>1. \A k \in 1..n : ran[k] \in Run
        BY <1>2, <1>7, <1>8
      <4>2. \A k \in 1..(n + 1) : ran'[k] \in Run
        BY <1>7, <1>8, <4>1
      <4> QED BY <1>8, <4>2, WebPageAssumption DEF Run
    <3> QED BY <1>14, <3>1, <3>2, <3>3, <3>4
  <2>2. ASSUME NEW i \in DOMAIN toWeb', NEW j \in DOMAIN toWeb', i < j PROVE toWeb'[i] < toWeb'[j]
    <3>1. i + 1 \in 1..Len(toWeb) /\ j + 1 \in 1..Len(toWeb) /\ i + 1 < j + 1
      BY <1>3, <2>2
    <3> QED BY <1>3, <1>9, <2>2, <3>1 DEF Queue
  <2> QED BY <1>1, <2>1, <2>2 DEF Queue
<1>18. Queue(pending.scripts)'
  <2>1. Queue(<<>>)'
    BY EmptyQueue
  <2> QED BY <1>1, <1>11, <2>1 DEF Queue
<1>19. ScriptsReachTheirPage'
  <2>1. ASSUME NEW i \in 1..(n + 1), NEW j \in 1..(n + 1), i < j PROVE ran'[i].script < ran'[j].script
    <3>1. i \in 1..n
      BY <1>7, <2>1
    <3>2. CASE j \in 1..n
      BY <1>8, <1>9, <2>1, <3>1, <3>2 DEF ScriptsReachTheirPage
    <3>3. CASE j = n + 1
      BY <1>5, <1>8, <1>10, <3>1, <3>3
    <3> QED BY <1>7, <3>2, <3>3
  <2>2. ASSUME NEW i \in 1..(n + 1), ran'[i].script \in early PROVE ran'[i].doc > 0
    <3>1. CASE i \in 1..n
      BY <1>8, <1>9, <2>2, <3>1 DEF ScriptsReachTheirPage
    <3>2. CASE i = n + 1
      <4>1. web.doc > 0
        BY <1>9, <1>11, <2>2 DEF AfterCommit
      <4> QED BY <1>5, <1>8, <3>2, <4>1
    <3> QED BY <1>7, <3>1, <3>2
  <2> QED BY <1>1, <1>8, <2>1, <2>2 DEF ScriptsReachTheirPage
<1> QED BY <1>12, <1>13, <1>15, <1>17, <1>18, <1>19 DEF ScriptsInv

\* Steps that evaluate nothing and run nothing, and may lose what is on its way
LEMMA ScriptsKept ==
    ASSUME PageShape, ScriptsInv, backend' = backend, UNCHANGED <<pending, evals, early, ran>>,
           toWeb' = toWeb \/ toWeb' = <<>>,
           web'.doc >= web.doc, web' \in [doc : 0..MaxLoads, alive : BOOLEAN],
           toUi' # <<>> => web'.doc > 0
    PROVE  ScriptsInv'
<1>1. web \in [doc : 0..MaxLoads, alive : BOOLEAN]
  BY DEF PageShape
<1>2. Queue(toWeb)' /\ Queue(pending.scripts)'
  <2>1. Queue(<<>>)'
    BY EmptyQueue
  <2> QED BY <2>1 DEF ScriptsInv, Queue
<1>3. OneQueue' /\ RanBefore' /\ ScriptsReachTheirPage'
  BY DEF ScriptsInv, OneQueue, RanBefore, ScriptsReachTheirPage, WebView2
<1>4. AfterCommit'
  BY <1>1, WebPageAssumption DEF ScriptsInv, AfterCommit
<1> QED BY <1>2, <1>3, <1>4 DEF ScriptsInv

LEMMA ScriptsStep ==
    ASSUME PageShape, ScriptsInv, PageAction
    PROVE  ScriptsInv'
<1>1. /\ ui \in [doc : 0..MaxLoads, load : 0..MaxLoads]
      /\ web \in [doc : 0..MaxLoads, alive : BOOLEAN]
      /\ toWeb \in Seq(1..MaxEvals) /\ pending.scripts \in Seq(1..MaxEvals)
      /\ toUi \in Seq(Message) /\ ran \in Seq(Run) /\ evals \in Nat /\ DesktopOK
  BY DEF PageShape
<1>2. /\ OneQueue /\ Queue(toWeb) /\ Queue(pending.scripts) /\ RanBefore /\ ScriptsReachTheirPage
      /\ toUi # <<>> => web.doc > 0
      /\ ~pending.open /\ early # {} => web.doc > 0
  BY DEF ScriptsInv, AfterCommit
<1>3. backend' = backend /\ WebView2' = WebView2
  BY <1>1, PageKeepsDesktop DEF OnlyDrops
<1>4. web.doc >= web.doc
  BY <1>1
<1>5. PageShape'
  BY PageShapeStep
<1>6. web' \in [doc : 0..MaxLoads, alive : BOOLEAN]
  BY <1>5 DEF PageShape
<1>7. CASE Navigate
  <2>1. UNCHANGED <<pending, toWeb, toUi, evals, early, ran>>
    BY <1>7 DEF Navigate
  <2>2. web'.doc = web.doc
    BY <1>7, BeginEffect
  <2> QED BY <1>2, <1>3, <1>4, <1>6, <2>1, <2>2, ScriptsKept
<1>8. CASE WebCommits
  <2>1. /\ ui.load > web.doc /\ web' = [web EXCEPT !.doc = ui.load]
        /\ UNCHANGED <<pending, toWeb, evals, early, ran>>
    BY <1>8 DEF WebCommits
  <2>2. web'.doc = ui.load /\ ui.load >= web.doc /\ ui.load > 0
    BY <1>1, <2>1
  <2> QED BY <1>3, <1>6, <2>1, <2>2, ScriptsKept
<1>9. CASE UiCommits
  <2>1. toUi # <<>> /\ pending' = NoScripts /\ UNCHANGED <<web, ran>>
    BY <1>9, CommitEffect
  <2>2. PICK more \in BOOLEAN, q \in {toWeb, pending.scripts} :
                /\ more => evals + 1 \in 1..MaxEvals
                /\ evals' = IF more THEN evals + 1 ELSE evals
                /\ toWeb' = IF more THEN Append(q, evals + 1) ELSE q
                /\ early' = IF more /\ pending.open THEN early \union {evals + 1} ELSE early
    BY <1>9, CommitEffect
  <2>3. pending'.open = FALSE /\ pending'.scripts = <<>>
    BY <2>1 DEF NoScripts
  <2>4. q \in Seq(1..MaxEvals) /\ Queue(q)
    BY <1>1, <1>2
  <2>5. AfterCommit'
    BY <1>2, <2>1 DEF AfterCommit
  <2>6. OneQueue'
    BY <2>3 DEF OneQueue
  <2>7. Queue(pending.scripts)'
    <3>1. Queue(<<>>)'
      BY EmptyQueue
    <3> QED BY <2>3, <3>1 DEF Queue
  <2>8. Queue(toWeb)' /\ RanBefore'
    <3>1. CASE more
      <4>1. PICK next \in 1..MaxEvals : next = evals + 1
        BY <2>2, <3>1
      <4>2. (\A s : s = Append(q, next) => Queue(s))' /\ RanBefore'
        BY <1>2, <2>1, <2>2, <2>4, <3>1, <4>1, QueueGrows
      <4>3. toWeb' = Append(q, next)
        BY <2>2, <3>1, <4>1
      <4> QED BY <4>2, <4>3 DEF Queue
    <3>2. CASE ~more
      <4>1. evals' = evals /\ ran' = ran /\ toWeb' = q
        BY <2>1, <2>2, <3>2
      <4> QED BY <1>2, <2>4, <4>1 DEF Queue, RanBefore
    <3> QED BY <3>1, <3>2
  <2>9. ScriptsReachTheirPage'
    <3>1. CASE pending.open
      <4>1. ran' = <<>>
        BY <1>2, <2>1, <3>1 DEF OneQueue
      <4> QED BY <4>1 DEF ScriptsReachTheirPage
    <3>2. CASE ~pending.open
      <4>1. early' = early /\ ran' = ran
        BY <2>1, <2>2, <3>2
      <4> QED BY <1>2, <4>1 DEF ScriptsReachTheirPage
    <3> QED BY <3>1, <3>2
  <2> QED BY <2>5, <2>6, <2>7, <2>8, <2>9 DEF ScriptsInv
<1>10. CASE WebRuns
  BY <1>10, RunEffect
<1>11. CASE UiHears
  <2>1. toUi # <<>> /\ UNCHANGED <<pending, web, toWeb, evals, early, ran>>
    BY <1>11 DEF UiHears
  <2> QED BY <1>2, <1>3, <1>4, <1>6, <2>1, ScriptsKept
<1>12. CASE Eval
  <2>1. /\ evals' = evals + 1 /\ evals + 1 \in 1..MaxEvals
        /\ UNCHANGED <<ui, web, toUi, ran>>
    BY <1>12, EvalEffect
  <2>2. PICK next \in 1..MaxEvals : next = evals + 1
    BY <2>1
  <2>3. ASSUME NEW q \in Seq(1..MaxEvals), Queue(q)
        PROVE  (\A s : s = Append(q, next) => Queue(s))' /\ (\A s : s = q => Queue(s))' /\ RanBefore'
    BY <1>2, <2>1, <2>2, <2>3, QueueGrows
  <2>4. RanBefore'
    BY <1>1, <1>2, <2>3
  <2>5. CASE /\ pending.open
             /\ pending' = [pending EXCEPT !.scripts = Append(@, evals + 1)]
             /\ early' = early \union {evals + 1} /\ UNCHANGED toWeb
    <3>1. PICK q \in Seq(1..MaxEvals) : q = pending.scripts
      BY <1>1
    <3>2. pending'.open /\ pending'.scripts = Append(q, next)
      <4>1. pending \in [open : BOOLEAN, scripts : Seq(1..MaxEvals)]
        BY DEF PageShape
      <4> QED BY <2>2, <2>5, <3>1, <4>1
    <3>3. Queue(pending.scripts)'
      BY <1>2, <2>3, <3>1, <3>2 DEF Queue
    <3>4. toWeb' = <<>> /\ ran' = <<>>
      BY <1>2, <2>1, <2>5 DEF OneQueue
    <3>5. Queue(toWeb)'
      <4>1. Queue(<<>>)'
        BY EmptyQueue
      <4> QED BY <3>4, <4>1 DEF Queue
    <3>6. OneQueue'
      BY <1>2, <1>3, <2>5, <3>2, <3>4 DEF OneQueue
    <3>7. AfterCommit' /\ ScriptsReachTheirPage'
      BY <1>2, <2>1, <3>2, <3>4 DEF AfterCommit, ScriptsReachTheirPage
    <3> QED BY <2>4, <3>3, <3>5, <3>6, <3>7 DEF ScriptsInv
  <2>6. CASE /\ ~pending.open
             /\ toWeb' = IF web.alive THEN Append(toWeb, evals + 1) ELSE toWeb
             /\ UNCHANGED <<pending, early>>
    <3>1. PICK q \in Seq(1..MaxEvals) : q = toWeb
      BY <1>1
    <3>2. toWeb' = Append(q, next) \/ toWeb' = q
      BY <2>2, <2>6, <3>1
    <3>3. Queue(toWeb)'
      BY <1>2, <2>3, <3>1, <3>2 DEF Queue
    <3>4. Queue(pending.scripts)'
      <4>1. Queue(<<>>)' /\ pending'.scripts = <<>>
        BY <1>2, <2>6, EmptyQueue DEF OneQueue
      <4> QED BY <4>1 DEF Queue
    <3>5. OneQueue' /\ AfterCommit' /\ ScriptsReachTheirPage'
      BY <1>2, <1>3, <2>1, <2>6 DEF OneQueue, AfterCommit, ScriptsReachTheirPage
    <3> QED BY <2>4, <3>3, <3>4, <3>5 DEF ScriptsInv
  <2> QED BY <1>12, <2>5, <2>6, EvalEffect
<1>13. CASE WebPosts
  <2>1. web.doc # 0 /\ UNCHANGED <<pending, web, toWeb, evals, early, ran>>
    BY <1>13 DEF WebPosts
  <2>2. web.doc > 0
    BY <1>1, <2>1
  <2> QED BY <1>3, <1>4, <1>6, <2>1, <2>2, ScriptsKept
<1>14. CASE ProcessTerminates
  <2>1. /\ web' = [web EXCEPT !.alive = FALSE] /\ toWeb' = <<>> /\ toUi' = <<>>
        /\ UNCHANGED <<pending, evals, early, ran>>
    BY <1>14 DEF ProcessTerminates
  <2>2. web'.doc = web.doc
    BY <1>1, <2>1
  <2> QED BY <1>3, <1>4, <1>6, <2>1, <2>2, ScriptsKept
<1>15. CASE DropPage \/ LoadEnds
  <2>1. UNCHANGED <<pending, web, toWeb, toUi, evals, early, ran>>
    BY <1>15 DEF DropPage, LoadEnds
  <2> QED BY <1>2, <1>3, <1>4, <1>6, <2>1, ScriptsKept
<1> QED BY <1>7, <1>8, <1>9, <1>10, <1>11, <1>12, <1>13, <1>14, <1>15 DEF PageAction

-----------------------------------------------------------------------------
(* Messages.  Once everything before the k-th report of the page's process *)
(* has been handled, the UI process knows of document d, or it has begun a *)
(* load since and names that.                                              *)

Knows(k, d) ==
    \E j \in 0..(k - 1) :
        /\ j = 0 => ui.doc = d \/ ui.load # 0
        /\ j # 0 => toUi[j].kind = "commit" /\ toUi[j].doc = d
        /\ \A i \in (j + 1)..(k - 1) : toUi[i].kind # "commit"

MessagesInv ==
    /\ \A k \in DOMAIN toUi : toUi[k].kind = "ipc" => Knows(k, toUi[k].doc)
    /\ IF web.alive THEN Knows(Len(toUi) + 1, web.doc) ELSE toUi = <<>>

LEMMA MessagesInitially == ASSUME PageInit PROVE MessagesInv
<1>1. toUi = <<>> /\ ui.doc = 0 /\ web.doc = 0 /\ web.alive
  BY DEF PageInit
<1>2. Knows(1, 0)
  BY <1>1 DEF Knows
<1>3. Len(toUi) + 1 = 1 /\ DOMAIN toUi = {}
  BY <1>1
<1> QED BY <1>1, <1>2, <1>3 DEF MessagesInv

LEMMA KnowsStays ==
    ASSUME NEW k \in Nat, NEW d, Knows(k, d), ui'.doc = ui.doc, ui'.load = ui.load \/ ui'.load # 0,
           \A i \in 1..(k - 1) : toUi'[i] = toUi[i]
    PROVE  Knows(k, d)'
<1>1. PICK j \in 0..(k - 1) :
        /\ j = 0 => ui.doc = d \/ ui.load # 0
        /\ j # 0 => toUi[j].kind = "commit" /\ toUi[j].doc = d
        /\ \A i \in (j + 1)..(k - 1) : toUi[i].kind # "commit"
  BY DEF Knows
<1>2. j # 0 => j \in 1..(k - 1)
  BY <1>1
<1>3. \A i \in (j + 1)..(k - 1) : i \in 1..(k - 1)
  BY <1>1
<1> QED BY <1>1, <1>2, <1>3 DEF Knows

\* The first report has been handled.
LEMMA KnowsAfterHead ==
    ASSUME PageShape, NEW k \in Nat, k >= 2, NEW d, Knows(k, d), toUi # <<>>, toUi' = Tail(toUi), k <= Len(toUi) + 1,
           \/ toUi[1].kind = "ipc" /\ ui' = ui
           \/ toUi[1].kind = "commit" /\ ui'.doc = toUi[1].doc
    PROVE  (\A m \in Nat : m = k - 1 => Knows(m, d))'
<1>0. toUi \in Seq(Message)
  BY DEF PageShape
<1>1. /\ Len(toUi) \in Nat \ {0}
      /\ \A i \in 1..(Len(toUi) - 1) : toUi'[i] = toUi[i + 1]
  BY <1>0, TailFacts
<1>2. PICK j \in 0..(k - 1) :
        /\ j = 0 => ui.doc = d \/ ui.load # 0
        /\ j # 0 => toUi[j].kind = "commit" /\ toUi[j].doc = d
        /\ \A i \in (j + 1)..(k - 1) : toUi[i].kind # "commit"
  BY DEF Knows
<1>3. k - 1 \in Nat
  OBVIOUS
<1>5. CASE j = 0
  <2>1. toUi[1].kind # "commit" /\ 1 \in (j + 1)..(k - 1)
    BY <1>2, <1>5
  <2>2. ui' = ui
    BY <2>1
  <2>3. \A i \in 1..(k - 2) : toUi'[i].kind # "commit"
    <3>1. ASSUME NEW i \in 1..(k - 2) PROVE toUi'[i].kind # "commit"
      <4>1. i \in 1..(Len(toUi) - 1) /\ i + 1 \in (j + 1)..(k - 1)
        BY <1>1, <1>5
      <4> QED BY <1>1, <1>2, <4>1
    <3> QED BY <3>1
  <2> QED BY <1>2, <1>3, <1>5, <2>2, <2>3 DEF Knows
<1>6. CASE j = 1
  <2>1. ui'.doc = d
    BY <1>2, <1>6
  <2>2. \A i \in 1..(k - 2) : toUi'[i].kind # "commit"
    <3>1. ASSUME NEW i \in 1..(k - 2) PROVE toUi'[i].kind # "commit"
      <4>1. i \in 1..(Len(toUi) - 1) /\ i + 1 \in (j + 1)..(k - 1)
        BY <1>1, <1>6
      <4> QED BY <1>1, <1>2, <4>1
    <3> QED BY <3>1
  <2> QED BY <1>3, <2>1, <2>2, SMTT(30) DEF Knows
<1>7. CASE j > 1
  <2>1. j - 1 \in 1..(k - 2) /\ j - 1 \in 1..(Len(toUi) - 1) /\ j - 1 # 0 /\ (j - 1) + 1 = j
    BY <1>1, <1>2, <1>7
  <2>2. toUi'[j - 1].kind = "commit" /\ toUi'[j - 1].doc = d
    BY <1>1, <1>2, <2>1
  <2>3. ASSUME NEW i \in ((j - 1) + 1)..(k - 2) PROVE toUi'[i].kind # "commit"
    <3>1. i \in 1..(Len(toUi) - 1) /\ i + 1 \in (j + 1)..(k - 1)
      BY <1>1, <1>2, <1>7
    <3> QED BY <1>1, <1>2, <3>1
  <2>4. j - 1 \in 0..((k - 1) - 1) /\ (k - 1) - 1 = k - 2
    BY <2>1
  <2> QED BY <1>3, <2>1, <2>2, <2>3, <2>4 DEF Knows
<1> QED BY <1>2, <1>5, <1>6, <1>7

\* A report is added: of what the page's process has committed, or a message under that.
LEMMA ReportAdded ==
    ASSUME PageShape, MessagesInv, NEW m \in Message, toUi' = Append(toUi, m), ui' = ui, web.alive, web'.alive,
           \/ m.kind = "commit" /\ web'.doc = m.doc
           \/ m.kind = "ipc" /\ m.doc = web.doc /\ web'.doc = web.doc
    PROVE  MessagesInv'
<1>1. toUi \in Seq(Message)
  BY DEF PageShape
<1>2. PICK n \in Nat : n = Len(toUi)
  BY <1>1
<1>3. /\ DOMAIN toUi = 1..n /\ DOMAIN toUi' = 1..(n + 1) /\ Len(toUi') = n + 1
      /\ \A i \in 1..n : toUi'[i] = toUi[i]
      /\ toUi'[n + 1] = m
  BY <1>1, <1>2, AppendFacts
<1>4. Knows(n + 1, web.doc)
  BY <1>2 DEF MessagesInv
<1>5. PICK d : d = web.doc
  OBVIOUS
<1>6. Knows(n + 1, d)'
  <2>1. n + 1 \in Nat /\ \A i \in 1..((n + 1) - 1) : toUi'[i] = toUi[i]
    BY <1>3
  <2> QED BY <1>4, <1>5, <2>1, KnowsStays
<1>7. ASSUME NEW k \in 1..(n + 1), toUi'[k].kind = "ipc" PROVE (\A e : e = toUi'[k].doc => Knows(k, e)')
  <2>1. CASE k \in 1..n
    <3>1. PICK e : e = toUi[k].doc
      OBVIOUS
    <3>2. Knows(k, e)
      BY <1>3, <1>7, <2>1, <3>1 DEF MessagesInv
    <3>3. k \in Nat /\ \A i \in 1..(k - 1) : toUi'[i] = toUi[i]
      BY <1>3, <2>1
    <3>4. Knows(k, e)'
      BY <3>2, <3>3, KnowsStays
    <3> QED BY <1>3, <2>1, <3>1, <3>4
  <2>2. CASE k = n + 1
    <3>1. toUi'[k].doc = d
      BY <1>3, <1>5, <1>7, <2>2
    <3> QED BY <1>6, <2>2, <3>1
  <2> QED BY <1>2, <2>1, <2>2
<1>8. ASSUME NEW e, e = web'.doc PROVE Knows(n + 2, e)'
  <2>1. CASE m.kind = "commit"
    <3>1. n + 1 \in 0..((n + 2) - 1) /\ n + 1 # 0 /\ ((n + 1) + 1)..((n + 2) - 1) = {}
      BY <1>2
    <3>2. toUi'[n + 1].kind = "commit" /\ toUi'[n + 1].doc = e
      BY <1>3, <1>8, <2>1
    <3> QED BY <3>1, <3>2 DEF Knows
  <2>2. CASE m.kind = "ipc"
    <3>1. e = d
      BY <1>5, <1>8, <2>2
    <3>2. PICK j \in 0..((n + 1) - 1) :
            /\ j = 0 => ui'.doc = d \/ ui'.load # 0
            /\ j # 0 => toUi'[j].kind = "commit" /\ toUi'[j].doc = d
            /\ \A i \in (j + 1)..((n + 1) - 1) : toUi'[i].kind # "commit"
      BY <1>6 DEF Knows
    <3>3. \A i \in (j + 1)..((n + 2) - 1) : toUi'[i].kind # "commit"
      <4>1. \A i \in (j + 1)..((n + 2) - 1) : i \in (j + 1)..((n + 1) - 1) \/ i = n + 1
        BY <1>2
      <4> QED BY <1>3, <2>2, <3>2, <4>1
    <3>4. j \in 0..((n + 2) - 1)
      BY <1>2
    <3> QED BY <3>1, <3>2, <3>3, <3>4 DEF Knows
  <2> QED BY <2>1, <2>2
<1>9. Len(toUi') + 1 = n + 2
  BY <1>2, <1>3
<1> QED BY <1>3, <1>7, <1>8, <1>9, SMTT(30) DEF MessagesInv, Knows

\* The first report is handled.
LEMMA ReportHandled ==
    ASSUME PageShape, MessagesInv, toUi # <<>>, toUi' = Tail(toUi), web' = web,
           \/ toUi[1].kind = "ipc" /\ ui' = ui
           \/ toUi[1].kind = "commit" /\ ui'.doc = toUi[1].doc
    PROVE  MessagesInv'
<1>1. toUi \in Seq(Message)
  BY DEF PageShape
<1>2. PICK n \in Nat \ {0} : n = Len(toUi)
  BY <1>1, TailFacts
<1>3. /\ DOMAIN toUi = 1..n /\ DOMAIN toUi' = 1..(n - 1) /\ Len(toUi') = n - 1
      /\ \A i \in 1..(n - 1) : toUi'[i] = toUi[i + 1]
  BY <1>1, <1>2, TailFacts
<1>4. web.alive /\ Knows(n + 1, web.doc)
  BY <1>2 DEF MessagesInv
<1>5. ASSUME NEW k \in 1..(n - 1), toUi'[k].kind = "ipc", NEW e, e = toUi'[k].doc PROVE Knows(k, e)'
  <2>1. k + 1 \in 1..n /\ k + 1 \in Nat /\ k + 1 >= 2 /\ (k + 1) - 1 = k /\ k \in Nat /\ k + 1 <= n + 1
    BY <1>2
  <2>2. Knows(k + 1, e)
    BY <1>3, <1>5, <2>1 DEF MessagesInv
  <2>3. (\A m \in Nat : m = (k + 1) - 1 => Knows(m, e))'
    BY <1>2, <2>1, <2>2, KnowsAfterHead
  <2> QED BY <2>1, <2>3
<1>6. ASSUME NEW e, e = web.doc PROVE Knows(n, e)'
  <2>1. n + 1 \in Nat /\ n + 1 >= 2 /\ (n + 1) - 1 = n /\ n \in Nat /\ n + 1 <= n + 1
    BY <1>2
  <2>2. (\A m \in Nat : m = (n + 1) - 1 => Knows(m, e))'
    BY <1>2, <1>4, <1>6, <2>1, KnowsAfterHead
  <2> QED BY <2>1, <2>2
<1>7. Len(toUi') + 1 = n
  BY <1>2, <1>3
<1>8. web'.alive /\ web'.doc = web.doc
  BY <1>4
<1>9. \A k \in DOMAIN toUi' : toUi'[k].kind = "ipc" => Knows(k, toUi[k].doc)'
  <2> SUFFICES ASSUME NEW k \in 1..(n - 1), toUi'[k].kind = "ipc" PROVE Knows(k, toUi[k].doc)'
    BY <1>3
  <2>1. PICK e : e = toUi'[k].doc
    OBVIOUS
  <2>2. Knows(k, e)'
    BY <1>5, <2>1
  <2> QED BY <2>1, <2>2 DEF Knows
<1>10. Knows(Len(toUi) + 1, web.doc)'
  BY <1>6, <1>7, <1>8 DEF Knows
<1> QED BY <1>8, <1>9, <1>10 DEF MessagesInv

\* Reports that are on their way stay what they were when a load begins.
LEMMA ReportsStay ==
    ASSUME PageShape, MessagesInv, toUi' = toUi, web'.doc = web.doc, ui'.doc = ui.doc,
           \/ ui'.load = ui.load /\ web'.alive = web.alive
           \/ ui'.load # 0 /\ web'.alive
    PROVE  MessagesInv'
<1>1. toUi \in Seq(Message)
  BY DEF PageShape
<1>2. PICK n \in Nat : n = Len(toUi)
  BY <1>1
<1>3. DOMAIN toUi = 1..n
  BY <1>1, <1>2
<1>4. ASSUME NEW k \in Nat, NEW e, Knows(k, e) PROVE Knows(k, e)'
  BY <1>4, KnowsStays
<1>5. ASSUME NEW k \in 1..n, toUi[k].kind = "ipc", NEW e, e = toUi[k].doc PROVE Knows(k, e)'
  BY <1>3, <1>4, <1>5 DEF MessagesInv
<1>6. ASSUME web'.alive, NEW e, e = web.doc PROVE Knows(n + 1, e)'
  <2>1. CASE web.alive
    BY <1>2, <1>4, <1>6, <2>1 DEF MessagesInv
  <2>2. CASE ~web.alive
    <3>0. toUi = <<>>
      BY <2>2 DEF MessagesInv
    <3>1. n = 0 /\ ui'.load # 0
      BY <1>2, <1>6, <2>2, <3>0
    <3> QED BY <3>1 DEF Knows
  <2> QED BY <2>1, <2>2
<1>7. ~web'.alive => toUi' = <<>>
  BY DEF MessagesInv
<1> QED BY <1>2, <1>3, <1>5, <1>6, <1>7 DEF MessagesInv, Knows

\* A message is heard under the url of its page, or of the load under way.
LEMMA HeardEffect ==
    ASSUME PageShape, MessagesInv, MessageNamesItsPage, UiHears,
           heard \in Seq([doc : 0..MaxLoads, load : 0..MaxLoads, uri : 0..MaxLoads])
    PROVE  /\ MessageNamesItsPage'
           /\ heard' \in Seq([doc : 0..MaxLoads, load : 0..MaxLoads, uri : 0..MaxLoads])
<1> DEFINE H == [doc : 0..MaxLoads, load : 0..MaxLoads, uri : 0..MaxLoads]
<1>1. DesktopOK /\ toUi \in Seq(Message) /\ ui \in [doc : 0..MaxLoads, load : 0..MaxLoads]
  BY DEF PageShape
<1>2. /\ toUi # <<>> /\ Head(toUi).kind = "ipc" /\ UNCHANGED desktopVars
      /\ heard' = Append(heard, [doc |-> Head(toUi).doc, load |-> ui.load,
            uri |-> CASE Gtk -> GtkMessage(Head(toUi).doc) [] Wk -> WkMessage(Head(toUi).doc)
                      [] WebView2 -> WebMessageReceived(Head(toUi).doc)])
  BY DEF UiHears
<1>3. Head(toUi) = toUi[1] /\ 1 \in DOMAIN toUi /\ Head(toUi) \in Message
  BY <1>1, <1>2, TailFacts
<1>4. PICK d \in 1..MaxLoads : d = Head(toUi).doc
  BY <1>3 DEF Message
<1>5. Knows(1, d)
  BY <1>2, <1>3, <1>4 DEF MessagesInv
<1>6. ui.load # 0 \/ ui.doc = d
  BY <1>5 DEF Knows
<1>7. \E uri \in 0..MaxLoads : /\ heard' = Append(heard, [doc |-> d, load |-> ui.load, uri |-> uri])
                               /\ uri # d => Gtk /\ uri = ui.load
  <2>1. CASE Gtk
    <3>1. heard' = Append(heard, [doc |-> d, load |-> ui.load, uri |-> GtkMessage(d)])
      BY <1>1, <1>2, <1>4, <2>1, Backend
    <3>2. GtkMessage(d) \in 0..MaxLoads /\ (GtkMessage(d) # d => GtkMessage(d) = ui.load)
      BY <1>1, <1>6 DEF GtkMessage
    <3> QED BY <2>1, <3>1, <3>2
  <2>2. CASE Wk
    <3>1. heard' = Append(heard, [doc |-> d, load |-> ui.load, uri |-> d])
      BY <1>1, <1>2, <1>4, <2>2, Backend DEF WkMessage
    <3>2. d \in 0..MaxLoads
      BY <1>4, WebPageAssumption
    <3> QED BY <3>1, <3>2
  <2>3. CASE WebView2
    <3>1. heard' = Append(heard, [doc |-> d, load |-> ui.load, uri |-> d])
      BY <1>1, <1>2, <1>4, <2>3, Backend DEF WebMessageReceived
    <3>2. d \in 0..MaxLoads
      BY <1>4, WebPageAssumption
    <3> QED BY <3>1, <3>2
  <2> QED BY <1>1, <2>1, <2>2, <2>3, Backend DEF Gtk, Wk, WebView2
<1>8. PICK uri \in 0..MaxLoads : /\ heard' = Append(heard, [doc |-> d, load |-> ui.load, uri |-> uri])
                                 /\ uri # d => Gtk /\ uri = ui.load
  BY <1>7
<1>9. PICK h \in H : h = [doc |-> d, load |-> ui.load, uri |-> uri]
  BY <1>1, <1>4, <1>8, WebPageAssumption
<1>10. h.uri # h.doc => Gtk /\ h.uri = h.load
  BY <1>8, <1>9
<1>11. heard' = Append(heard, h)
  BY <1>8, <1>9
<1> HIDE DEF H
<1>12. heard \in Seq(H)
  BY DEF H
<1>13. /\ heard' \in Seq(H) /\ DOMAIN heard' = 1..(Len(heard) + 1) /\ DOMAIN heard = 1..Len(heard)
       /\ \A i \in 1..Len(heard) : heard'[i] = heard[i]
       /\ heard'[Len(heard) + 1] = h
       /\ Len(heard) \in Nat
  BY <1>11, <1>12, AppendFacts
<1>14. Gtk' = Gtk
  BY <1>2 DEF desktopVars, Gtk
<1>15. ASSUME NEW i \in DOMAIN heard', heard'[i].uri # heard'[i].doc
       PROVE  Gtk /\ heard'[i].uri = heard'[i].load
  <2>1. CASE i \in 1..Len(heard)
    BY <1>13, <1>15, <2>1 DEF MessageNamesItsPage
  <2>2. CASE i = Len(heard) + 1
    BY <1>10, <1>13, <1>15, <2>2
  <2> QED BY <1>13, <2>1, <2>2
<1>16. MessageNamesItsPage'
  BY <1>14, <1>15 DEF MessageNamesItsPage
<1> QED BY <1>13, <1>16 DEF H

\* Where a message comes from is typed.
HeardShape == heard \in Seq([doc : 0..MaxLoads, load : 0..MaxLoads, uri : 0..MaxLoads])

LEMMA MessagesStep ==
    ASSUME PageShape, ScriptsInv, MessagesInv, MessageNamesItsPage, HeardShape,
           Navigate \/ WebCommits \/ PageMoves \/ Eval \/ WebPosts \/ ProcessTerminates \/ DropPage
    PROVE  MessagesInv' /\ MessageNamesItsPage' /\ HeardShape'
<1>1. /\ ui \in [doc : 0..MaxLoads, load : 0..MaxLoads]
      /\ web \in [doc : 0..MaxLoads, alive : BOOLEAN]
      /\ toUi \in Seq(Message) /\ DesktopOK
  BY DEF PageShape
<1>2. toUi # <<>> => Head(toUi) = toUi[1] /\ Head(toUi) \in Message
  BY <1>1, TailFacts
<1>3. Gtk' = Gtk
  BY <1>1, PageKeepsDesktop DEF PageAction, PageMoves
<1>4. UNCHANGED heard => MessageNamesItsPage' /\ HeardShape'
  BY <1>3 DEF MessageNamesItsPage, HeardShape
<1>5. CASE Navigate
  <2>1. UNCHANGED <<toUi, heard>>
    BY <1>5 DEF Navigate
  <2>2. /\ ui'.doc = ui.doc /\ web'.doc = web.doc
        /\ UNCHANGED <<ui, web>> \/ (ui'.load # 0 /\ web'.alive)
    BY <1>5, BeginEffect
  <2> QED BY <1>4, <2>1, <2>2, ReportsStay
<1>6. CASE WebCommits
  <2>1. /\ web.alive /\ ui.load > web.doc
        /\ web' = [web EXCEPT !.doc = ui.load]
        /\ toUi' = Append(toUi, [kind |-> "commit", doc |-> ui.load])
        /\ UNCHANGED <<ui, heard>>
    BY <1>6 DEF WebCommits
  <2>2. ui.load \in 1..MaxLoads
    BY <1>1, <2>1, WebPageAssumption
  <2>3. PICK m \in Message : m = [kind |-> "commit", doc |-> ui.load]
    BY <2>2 DEF Message
  <2>4. web'.alive /\ web'.doc = ui.load /\ m.kind = "commit" /\ m.doc = ui.load
    BY <1>1, <2>1, <2>3
  <2> QED BY <1>4, <2>1, <2>3, <2>4, ReportAdded
<1>7. CASE UiCommits
  <2>1. /\ toUi # <<>> /\ Head(toUi).kind = "commit" /\ toUi' = Tail(toUi)
        /\ ui' = [doc |-> Head(toUi).doc, load |-> IF ui.load = Head(toUi).doc THEN 0 ELSE ui.load]
        /\ UNCHANGED <<web, heard>>
    BY <1>7, CommitEffect
  <2>2. toUi[1].kind = "commit" /\ ui'.doc = toUi[1].doc
    BY <1>2, <2>1
  <2> QED BY <1>4, <2>1, <2>2, ReportHandled
<1>8. CASE WebRuns \/ DropPage
  <2>1. UNCHANGED <<ui, web, toUi, heard>>
    BY <1>8 DEF WebRuns, DropPage
  <2> QED BY <1>4, <2>1, ReportsStay
<1>9. CASE Eval
  <2>1. UNCHANGED <<ui, web, toUi, heard>>
    BY <1>9, EvalEffect
  <2> QED BY <1>4, <2>1, ReportsStay
<1>10. CASE UiHears
  <2>1. toUi # <<>> /\ toUi' = Tail(toUi) /\ Head(toUi).kind = "ipc" /\ UNCHANGED <<ui, web>>
    BY <1>10 DEF UiHears
  <2>2. MessagesInv'
    BY <1>2, <2>1, ReportHandled
  <2>3. MessageNamesItsPage' /\ HeardShape'
    BY <1>10, HeardEffect DEF HeardShape
  <2> QED BY <2>2, <2>3
<1>11. CASE WebPosts
  <2>1. /\ web.alive /\ web.doc # 0
        /\ toUi' = Append(toUi, [kind |-> "ipc", doc |-> web.doc])
        /\ UNCHANGED <<ui, web, heard>>
    BY <1>11 DEF WebPosts
  <2>2. PICK m \in Message : m = [kind |-> "ipc", doc |-> web.doc]
    BY <1>1, <2>1 DEF Message
  <2> QED BY <1>4, <2>1, <2>2, ReportAdded
<1>12. CASE ProcessTerminates
  <2>1. /\ web' = [web EXCEPT !.alive = FALSE] /\ toUi' = <<>> /\ UNCHANGED heard
    BY <1>12 DEF ProcessTerminates
  <2>2. ~web'.alive
    BY <1>1, <2>1
  <2> QED BY <1>4, <2>1, <2>2 DEF MessagesInv
<1> QED BY <1>5, <1>6, <1>7, <1>8, <1>9, <1>10, <1>11, <1>12 DEF PageMoves

-----------------------------------------------------------------------------
(* Custom protocols.  A task has an address as long as somebody holds it,  *)
(* and no other has the same; one that is waiting is held.                 *)

TaskRecord == [phase : {"none", "waiting", "finished", "failed", "stopped"},
               load : 0..MaxLoads, address : Tasks \union {0}, told : 0..3,
               at : {"none", "held", "queued", "check", "call", "remove", "gone"}]

\* A task that the page or a responder holds.
InMemory(r) == r.phase # "none" /\ (r.phase = "waiting" \/ r.at # "gone")

AddressWhileHeld == \A t \in Tasks : IF InMemory(task[t]) THEN task[t].address \in Tasks ELSE task[t].address = 0

OneTaskAtAnAddress == \A t, u \in Tasks : task[t].address # 0 /\ task[t].address = task[u].address => t = u

\* A responder goes with a request, and calls three times at most.
ResponderOfTask ==
    \A t \in Tasks : /\ task[t].phase = "none" <=> task[t].at = "none"
                     /\ Waiting(t) => task[t].told <= 2

TasksInv == TasksTypeOK /\ AddressWhileHeld /\ OneTaskAtAnAddress /\ ResponderOfTask /\ KeyOfRunningTask

LEMMA TasksShape == Tasks \subseteq Nat \ {0} /\ 0 \notin Tasks /\ 1..MaxLoads \subseteq Tasks /\ 0 \in 0..MaxLoads
BY WebPageAssumption, SchemeTasksAssumption DEF Tasks

LEMMA TasksInitially == ASSUME TasksInit PROVE TasksInv
<1>1. \A t \in Tasks : task[t] = [phase |-> "none", load |-> 0, address |-> 0, told |-> 0, at |-> "none"]
  BY DEF TasksInit
<1>2. [phase |-> "none", load |-> 0, address |-> 0, told |-> 0, at |-> "none"] \in TaskRecord
  BY TasksShape DEF TaskRecord
<1>3. TasksTypeOK
  <2>1. task \in [Tasks -> TaskRecord]
    BY <1>2 DEF TasksInit
  <2>2. keys \in [Tasks -> Tasks \union {NoTask}]
    BY DEF TasksInit
  <2> QED BY <2>1, <2>2 DEF TasksTypeOK, TaskRecord
<1>4. \A t \in Tasks : task[t].phase = "none" /\ task[t].at = "none" /\ task[t].address = 0
  BY <1>1
<1>5. AddressWhileHeld /\ OneTaskAtAnAddress /\ ResponderOfTask /\ KeyOfRunningTask
  BY <1>4 DEF AddressWhileHeld, InMemory, OneTaskAtAnAddress, ResponderOfTask, Waiting, KeyOfRunningTask
<1> QED BY <1>3, <1>5 DEF TasksInv

LEMMA TasksFrame ==
    ASSUME TasksInv, OnlyDrops, UNCHANGED taskVars
    PROVE  TasksInv'
<1>1. UNCHANGED <<task, keys>>
  BY DEF taskVars
<1>2. TasksTypeOK' /\ AddressWhileHeld' /\ OneTaskAtAnAddress' /\ ResponderOfTask'
  BY <1>1 DEF TasksInv, TasksTypeOK, AddressWhileHeld, InMemory, OneTaskAtAnAddress, ResponderOfTask, Waiting
<1>3. KeyOfRunningTask'
  BY <1>1 DEF TasksInv, KeyOfRunningTask, Waiting, Held, OnlyDrops, Wk
<1> QED BY <1>2, <1>3 DEF TasksInv

\* Freeing
LEMMA FreedEffect ==
    ASSUME NEW r \in TaskRecord, r.phase # "none"
    PROVE  /\ Freed(r) \in TaskRecord /\ Freed(r).phase = r.phase /\ Freed(r).at = r.at /\ Freed(r).told <= r.told
           /\ Freed(r).address = IF InMemory(r) THEN r.address ELSE 0
           /\ InMemory(Freed(r)) <=> InMemory(r)
<1>0. r.told \in 0..3 /\ r.phase \in {"none", "waiting", "finished", "failed", "stopped"}
  BY DEF TaskRecord
<1>1. CASE r.phase # "waiting" /\ r.at = "gone"
  <2>1. Freed(r) = [phase |-> r.phase, load |-> 0, address |-> 0, told |-> 0, at |-> "gone"]
    BY <1>1 DEF Freed
  <2> QED BY <1>0, <1>1, <2>1, TasksShape DEF TaskRecord, InMemory
<1>2. CASE ~(r.phase # "waiting" /\ r.at = "gone")
  <2>1. Freed(r) = r
    BY <1>2 DEF Freed
  <2> QED BY <1>0, <1>2, <2>1 DEF InMemory
<1> QED BY <1>1, <1>2

\* A task that is held moves on: it keeps its address as long as it is in memory, and its key as long
\* as the page waits for its responder.
LEMMA TaskMoves ==
    ASSUME TasksInv, UNCHANGED pageVars, NEW t \in Tasks, NEW r \in TaskRecord, task' = [task EXCEPT ![t] = r],
           InMemory(task[t]), r.phase # "none", r.at # "none",
           r.address = IF InMemory(r) THEN task[t].address ELSE 0,
           r.phase = "waiting" => Waiting(t) /\ r.told <= 2,
           r.at # "gone" => Held(t),
           \/ UNCHANGED keys
           \/ RemoveKey(t) /\ (r.phase # "waiting" \/ r.at = "gone")
    PROVE  TasksInv'
<1>1. task \in [Tasks -> TaskRecord] /\ keys \in [Tasks -> Tasks \union {NoTask}]
  BY DEF TasksInv, TasksTypeOK, TaskRecord
<1>2. \A u \in Tasks : task'[u] = IF u = t THEN r ELSE task[u]
  BY <1>1
<1>3. task[t].address \in Tasks /\ 0 \notin Tasks
  BY TasksShape DEF TasksInv, AddressWhileHeld
<1>4. /\ keys' \in [Tasks -> Tasks \union {NoTask}]
      /\ \A a \in Tasks : a # task[t].address => keys'[a] = keys[a]
  BY <1>1, <1>3 DEF RemoveKey
<1>5. TasksTypeOK'
  BY <1>1, <1>4 DEF TasksTypeOK, TaskRecord
<1>6. AddressWhileHeld'
  BY <1>2, <1>3 DEF TasksInv, AddressWhileHeld
<1>7. OneTaskAtAnAddress'
  <2> SUFFICES ASSUME NEW u \in Tasks, NEW w \in Tasks, task'[u].address # 0, task'[u].address = task'[w].address
               PROVE  u = w
    BY DEF OneTaskAtAnAddress
  <2>1. task[u].address = task'[u].address /\ task[w].address = task'[w].address
    BY <1>2, <1>3
  <2> QED BY <2>1 DEF TasksInv, OneTaskAtAnAddress
<1>8. ResponderOfTask'
  BY <1>2 DEF TasksInv, ResponderOfTask, Waiting
<1>9. KeyOfRunningTask'
  <2> SUFFICES ASSUME Wk, Alive, NEW u \in Tasks, task'[u].phase = "waiting", task'[u].at \notin {"none", "gone"}
               PROVE  keys'[task'[u].address] = u
    BY DEF KeyOfRunningTask, Waiting, Held, pageVars, desktopVars, Wk, Alive
  <2>1. Waiting(u) /\ Held(u)
    BY <1>2 DEF Waiting, Held
  <2>2. keys[task[u].address] = u
    BY <2>1 DEF TasksInv, KeyOfRunningTask
  <2>3. CASE u = t
    BY <1>2, <2>2, <2>3 DEF InMemory
  <2>4. CASE u # t
    <3>1. InMemory(task[u])
      BY <2>1 DEF InMemory, Waiting
    <3>2. task[u].address \in Tasks /\ task[u].address # 0
      BY <1>3, <3>1 DEF TasksInv, AddressWhileHeld
    <3>3. task[u].address # task[t].address
      BY <2>4, <3>2 DEF TasksInv, OneTaskAtAnAddress
    <3> QED BY <1>2, <1>4, <2>2, <2>4, <3>2, <3>3
  <2> QED BY <2>3, <2>4
<1> QED BY <1>5, <1>6, <1>7, <1>8, <1>9 DEF TasksInv

\* Strict inclusion is well-founded on finite sets: a set of naturals that is not empty has a
\* least element, which ends the smallest of the intervals from 0.
LEMMA LeastElement ==
    ASSUME NEW S \in SUBSET Nat, S # {}
    PROVE  \E m \in S : \A n \in S : m <= n
<1> DEFINE T == {0 .. n : n \in S}
<1>1. T # {}
  OBVIOUS
<1>2. T \subseteq FiniteSubsetsOf(Nat)
  <2>1. ASSUME NEW n \in S PROVE 0 .. n \in SUBSET Nat /\ IsFiniteSet(0 .. n)
    <3>1. n \in Int /\ 0 \in Int
      OBVIOUS
    <3> QED BY <3>1, FS_Interval
  <2> QED BY <2>1 DEF FiniteSubsetsOf
<1>3. IsWellFoundedOn(StrictSubsetOrdering(Nat), FiniteSubsetsOf(Nat))
  BY FS_StrictSubsetOrderingWellFounded
<1>4. \E x \in T : \A y \in T : ~ (<<y, x>> \in StrictSubsetOrdering(Nat))
  <2> HIDE DEF T
  <2> QED BY <1>1, <1>2, <1>3, WFMin
<1>5. PICK m \in S : \A n \in S : ~ (<<0 .. n, 0 .. m>> \in StrictSubsetOrdering(Nat))
  BY <1>4
<1>6. ASSUME NEW n \in S, n < m PROVE FALSE
  <2>1. n \in Nat /\ m \in Nat
    BY <1>5
  <2>2. 0 .. n \subseteq 0 .. m /\ m \in 0 .. m /\ m \notin 0 .. n
    BY <2>1, <1>6
  <2>3. <<0 .. n, 0 .. m>> \in StrictSubsetOrdering(Nat)
    BY <2>1, <2>2 DEF StrictSubsetOrdering
  <2> QED BY <1>5, <2>3
<1> QED BY <1>5, <1>6

\* There are as many addresses as tasks, so one that starts finds one that is free.
LEMMA AddressIsFree ==
    ASSUME TasksInv, NEW t \in Tasks, task[t].phase = "none"
    PROVE  FreeAddress \in Tasks /\ ~InUse(FreeAddress)
<1>1. IsFiniteSet(Tasks) /\ Cardinality(Tasks) \in Nat
  <2>1. IsFiniteSet(Tasks)
    BY FS_Interval, WebPageAssumption, SchemeTasksAssumption DEF Tasks
  <2> QED BY <2>1, FS_CardinalityType
<1>2. IsFiniteSet(Tasks \ {t}) /\ Cardinality(Tasks \ {t}) = Cardinality(Tasks) - 1
  BY <1>1, FS_RemoveElement
<1>3. task[t].address = 0 /\ 0 \notin Tasks
  BY TasksShape DEF TasksInv, AddressWhileHeld, InMemory
<1>4. \E a \in Tasks : ~InUse(a)
  <2> SUFFICES ASSUME \A a \in Tasks : InUse(a) PROVE FALSE
    OBVIOUS
  <2>1. \A a \in Tasks : \E u \in Tasks \ {t} : task[u].address = a
    BY <1>3 DEF InUse
  <2> DEFINE f == [a \in Tasks |-> CHOOSE u \in Tasks \ {t} : task[u].address = a]
  <2>2. \A a \in Tasks : f[a] \in Tasks \ {t} /\ task[f[a]].address = a
    BY <2>1
  <2>3. f \in [Tasks -> Tasks \ {t}]
    BY <2>2
  <2>4. Cardinality(Tasks \ {t}) < Cardinality(Tasks)
    BY <1>1, <1>2
  <2> HIDE DEF f
  <2>5. \E a, b \in Tasks : a # b /\ f[a] = f[b]
    BY <1>1, <1>2, <2>3, <2>4, FS_PigeonHole
  <2> QED BY <2>2, <2>5
<1> DEFINE S == {a \in Tasks : ~InUse(a)}
<1>5. S \in SUBSET Nat /\ S # {}
  BY <1>4, TasksShape
<1>6. PICK m \in S : \A a \in S : m <= a
  BY <1>5, LeastElement
<1>7. m \in Tasks /\ ~InUse(m) /\ \A b \in 1..(m - 1) : InUse(b)
  <2>1. \A b \in 1..(m - 1) : b \in Tasks /\ ~(m <= b)
    BY <1>6, WebPageAssumption, SchemeTasksAssumption DEF Tasks
  <2> QED BY <1>6, <2>1
<1> QED BY <1>7 DEF FreeAddress

\* A task starts at an address that nobody has.
LEMMA TaskStarts ==
    ASSUME TasksInv, UNCHANGED pageVars, NEW t \in Tasks, task[t].phase = "none",
           NEW r \in TaskRecord, task' = [task EXCEPT ![t] = r],
           r.phase # "none", r.at # "none", r.told <= 2,
           r.address = IF InMemory(r) THEN FreeAddress ELSE 0,
           IF Wk THEN AddKey(FreeAddress, t) ELSE UNCHANGED keys
    PROVE  TasksInv'
<1>1. task \in [Tasks -> TaskRecord] /\ keys \in [Tasks -> Tasks \union {NoTask}]
  BY DEF TasksInv, TasksTypeOK, TaskRecord
<1>2. \A u \in Tasks : task'[u] = IF u = t THEN r ELSE task[u]
  BY <1>1
<1>3. FreeAddress \in Tasks /\ 0 \notin Tasks /\ \A u \in Tasks : task[u].address # FreeAddress
  BY AddressIsFree, TasksShape DEF InUse
<1>4. PICK a \in Tasks : a = FreeAddress
  BY <1>3
<1>5. keys' \in [Tasks -> Tasks \union {NoTask}] /\ \A b \in Tasks : b # a => keys'[b] = keys[b]
  BY <1>1, <1>4 DEF AddKey
<1>6. Wk => keys'[a] = t
  BY <1>1, <1>4 DEF AddKey
<1>7. TasksTypeOK'
  BY <1>1, <1>5 DEF TasksTypeOK, TaskRecord
<1>8. AddressWhileHeld'
  BY <1>2, <1>3 DEF TasksInv, AddressWhileHeld
<1>9. OneTaskAtAnAddress'
  <2> SUFFICES ASSUME NEW u \in Tasks, NEW w \in Tasks, task'[u].address # 0, task'[u].address = task'[w].address
               PROVE  u = w
    BY DEF OneTaskAtAnAddress
  <2>1. CASE u # t /\ w # t
    BY <1>2, <2>1 DEF TasksInv, OneTaskAtAnAddress
  <2>2. CASE u = t /\ w # t
    BY <1>2, <1>3, <2>2
  <2>3. CASE u # t /\ w = t
    BY <1>2, <1>3, <2>3
  <2> QED BY <2>1, <2>2, <2>3
<1>10. ResponderOfTask'
  BY <1>2 DEF TasksInv, ResponderOfTask, Waiting
<1>11. KeyOfRunningTask'
  <2> SUFFICES ASSUME Wk, Alive, NEW u \in Tasks, task'[u].phase = "waiting", task'[u].at \notin {"none", "gone"}
               PROVE  keys'[task'[u].address] = u
    BY DEF KeyOfRunningTask, Waiting, Held, pageVars, desktopVars, Wk, Alive
  <2>1. CASE u = t
    BY <1>2, <1>4, <1>6, <2>1 DEF InMemory
  <2>2. CASE u # t
    <3>1. Waiting(u) /\ Held(u) /\ task'[u] = task[u]
      BY <1>2, <2>2 DEF Waiting, Held
    <3>2. keys[task[u].address] = u
      BY <3>1 DEF TasksInv, KeyOfRunningTask
    <3>3. task[u].address \in Tasks /\ task[u].address # a
      BY <1>3, <1>4, <3>1 DEF TasksInv, AddressWhileHeld, InMemory, Waiting
    <3> QED BY <1>5, <3>1, <3>2, <3>3
  <2> QED BY <2>1, <2>2
<1> QED BY <1>7, <1>8, <1>9, <1>10, <1>11 DEF TasksInv

LEMMA StartKeeps ==
    ASSUME TasksInv, DesktopOK, NEW t \in Tasks, NEW load \in 0..MaxLoads, Start(t, load)
    PROVE  TasksInv'
<1>1. task[t].phase = "none" /\ UNCHANGED pageVars
  BY DEF Start
<1>2. PICK a \in Tasks : a = FreeAddress
  BY <1>1, AddressIsFree
<1>3. IF Wk THEN AddKey(FreeAddress, t) ELSE UNCHANGED keys
  BY Backend DEF Start, StartTask, UriSchemeRequest, WebResourceRequested
<1>4. Handed(t, load) \/ Refused(t, load, "finished") \/ Refused(t, load, "failed")
  BY DEF Start, StartTask, UriSchemeRequest, WebResourceRequested, RespondWith404, BadRequest
<1>5. CASE Handed(t, load)
  <2>0. [phase |-> "waiting", load |-> load, address |-> a, told |-> 0, at |-> "held"] \in TaskRecord
    <3>1. 0 \in 0..3 /\ a \in Tasks \union {0}
      OBVIOUS
    <3> QED BY <3>1 DEF TaskRecord
  <2>1. PICK r \in TaskRecord : r = [phase |-> "waiting", load |-> load, address |-> a, told |-> 0, at |-> "held"]
    BY <2>0
  <2>2. task' = [task EXCEPT ![t] = r]
    BY <1>2, <1>5, <2>1 DEF Handed
  <2>3. /\ r.phase # "none" /\ r.at # "none" /\ r.told <= 2
        /\ r.address = IF InMemory(r) THEN FreeAddress ELSE 0
    BY <1>2, <2>1 DEF InMemory
  <2> QED BY <1>1, <1>3, <2>2, <2>3, TaskStarts
<1>6. ASSUME NEW phase \in {"finished", "failed"}, Refused(t, load, phase) PROVE TasksInv'
  <2>0. [phase |-> phase, load |-> load, address |-> a, told |-> 0, at |-> "gone"] \in TaskRecord
    <3>1. 0 \in 0..3 /\ a \in Tasks \union {0}
      OBVIOUS
    <3>2. phase \in {"none", "waiting", "finished", "failed", "stopped"}
      OBVIOUS
    <3> QED BY <3>1, <3>2 DEF TaskRecord
  <2>1. PICK r \in TaskRecord : r = [phase |-> phase, load |-> load, address |-> a, told |-> 0, at |-> "gone"]
    BY <2>0
  <2>2. r.phase # "none" /\ ~InMemory(r) /\ r.at = "gone" /\ r.told = 0
    BY <2>1 DEF InMemory
  <2>3. task' = [task EXCEPT ![t] = Freed(r)]
    BY <1>2, <1>6, <2>1 DEF Refused
  <2>4. /\ Freed(r) \in TaskRecord /\ Freed(r).phase # "none" /\ Freed(r).at # "none" /\ Freed(r).told <= 2
        /\ Freed(r).address = IF InMemory(Freed(r)) THEN FreeAddress ELSE 0
    <3>1. /\ Freed(r) \in TaskRecord /\ Freed(r).phase = r.phase /\ Freed(r).at = r.at /\ Freed(r).told <= r.told
          /\ Freed(r).address = IF InMemory(r) THEN r.address ELSE 0
          /\ InMemory(Freed(r)) <=> InMemory(r)
      BY <2>2, FreedEffect
    <3>2. Freed(r).told \in 0..3
      BY <3>1 DEF TaskRecord
    <3> QED BY <2>2, <3>1, <3>2
  <2>5. PICK f \in TaskRecord : f = Freed(r)
    BY <2>4
  <2> QED BY <1>1, <1>3, <2>3, <2>4, <2>5, TaskStarts
<1> QED BY <1>4, <1>5, <1>6

\* A responder's or the page's step, and the task freed if it was the last to hold it
LEMMA FreedMoves ==
    ASSUME TasksInv, UNCHANGED pageVars, NEW t \in Tasks, NEW s \in TaskRecord, task' = [task EXCEPT ![t] = Freed(s)],
           InMemory(task[t]), s.phase # "none", s.at # "none", s.address = task[t].address,
           s.phase = "waiting" => Waiting(t) /\ s.told <= 2,
           s.at # "gone" => Held(t),
           \/ UNCHANGED keys
           \/ RemoveKey(t) /\ (s.phase # "waiting" \/ s.at = "gone")
    PROVE  TasksInv'
<1>1. /\ Freed(s) \in TaskRecord /\ Freed(s).phase = s.phase /\ Freed(s).at = s.at /\ Freed(s).told <= s.told
      /\ Freed(s).address = IF InMemory(s) THEN s.address ELSE 0
      /\ InMemory(Freed(s)) <=> InMemory(s)
  BY FreedEffect
<1>2. PICK r \in TaskRecord : r = Freed(s)
  BY <1>1
<1>3. r.told \in 0..3 /\ s.told \in 0..3
  BY DEF TaskRecord
<1>4. r.phase = "waiting" => Waiting(t) /\ r.told <= 2
  BY <1>1, <1>2, <1>3
<1>5. /\ task' = [task EXCEPT ![t] = r]
      /\ r.phase # "none" /\ r.at # "none"
      /\ r.address = IF InMemory(r) THEN task[t].address ELSE 0
      /\ r.at # "gone" => Held(t)
      /\ \/ UNCHANGED keys
         \/ RemoveKey(t) /\ (r.phase # "waiting" \/ r.at = "gone")
  BY <1>1, <1>2
<1> QED BY <1>4, <1>5, TaskMoves

\* Where a responder goes.
LEMMA GoesKeeps ==
    ASSUME TasksInv, UNCHANGED pageVars, NEW t \in Tasks, Held(t),
           NEW at \in {"queued", "check", "call", "remove", "gone"}, Goes(t, at),
           \/ UNCHANGED keys
           \/ RemoveKey(t) /\ at = "gone"
    PROVE  TasksInv'
<1>1. task[t] \in TaskRecord
  BY DEF TasksInv, TasksTypeOK, TaskRecord
<1>2. task[t].phase # "none" /\ (Waiting(t) => task[t].told <= 2)
  BY DEF TasksInv, ResponderOfTask, Held
<1>3. PICK s \in TaskRecord : s = [task[t] EXCEPT !.at = at]
  BY <1>1 DEF TaskRecord
<1>4. s.phase = task[t].phase /\ s.address = task[t].address /\ s.told = task[t].told /\ s.at = at
  BY <1>1, <1>3 DEF TaskRecord
<1>5. task' = [task EXCEPT ![t] = Freed(s)]
  BY <1>3 DEF Goes
<1>6. InMemory(task[t])
  BY <1>2 DEF InMemory, Held
<1>7. s.phase # "none" /\ s.at # "none" /\ (s.phase = "waiting" => Waiting(t) /\ s.told <= 2)
  BY <1>2, <1>4 DEF Waiting
<1>8. UNCHANGED keys \/ (RemoveKey(t) /\ (s.phase # "waiting" \/ s.at = "gone"))
  BY <1>4
<1> QED BY <1>4, <1>5, <1>6, <1>7, <1>8, FreedMoves

LEMMA TellKeeps ==
    ASSUME TasksInv, UNCHANGED <<pageVars, keys>>, NEW t \in Tasks, Held(t), Tell(t)
    PROVE  TasksInv'
<1>1. task[t] \in TaskRecord
  BY DEF TasksInv, TasksTypeOK, TaskRecord
<1>2. task[t].phase # "none"
  BY DEF TasksInv, ResponderOfTask, Held
<1>3. PICK phase \in {"finished", "failed", "stopped"} : phase = IF Waiting(t) THEN "finished" ELSE task[t].phase
  BY <1>1, <1>2 DEF TaskRecord, Waiting
<1>4. PICK s \in TaskRecord : s = [task[t] EXCEPT !.at = "gone", !.phase = phase]
  BY <1>1 DEF TaskRecord
<1>5. s.phase = phase /\ s.address = task[t].address /\ s.at = "gone"
  BY <1>1, <1>4 DEF TaskRecord
<1>6. task' = [task EXCEPT ![t] = Freed(s)]
  <2>0. task \in [Tasks -> TaskRecord]
    BY DEF TasksInv, TasksTypeOK, TaskRecord
  <2>1. CASE Waiting(t)
    <3>1. phase = "finished" /\ task[t].phase = "waiting"
      BY <1>3, <2>1 DEF Waiting
    <3>2. s = [task[t] EXCEPT !.at = "gone", !.phase = IF Waiting(t) THEN "finished" ELSE task[t].phase]
      BY <1>4, <2>1, <3>1
    <3> QED BY <2>0, <3>2 DEF Tell
  <2>2. CASE ~Waiting(t)
    <3>1. phase = task[t].phase /\ task[t].phase # "waiting"
      BY <1>3, <2>2 DEF Waiting
    <3>2. s = [task[t] EXCEPT !.at = "gone", !.phase = IF Waiting(t) THEN "finished" ELSE task[t].phase]
      BY <1>4, <2>2, <3>1
    <3> QED BY <2>0, <3>2 DEF Tell
  <2> QED BY <2>1, <2>2
<1>7. InMemory(task[t])
  BY <1>2 DEF InMemory, Held
<1> QED BY <1>5, <1>6, <1>7, FreedMoves

LEMMA TasksNext ==
    ASSUME TasksInv, PageShape, TaskStep
    PROVE  TasksInv' /\ UNCHANGED pageVars
<1>0. UNCHANGED pageVars
  BY DEF TaskStep, StartMain, StartResource, Start, Stop, Respond, Forget, Responding, RunQueued, Check, Call, Finish
<1> SUFFICES TasksInv'
  BY <1>0
<1>1. DesktopOK /\ ui \in [doc : 0..MaxLoads, load : 0..MaxLoads] /\ web \in [doc : 0..MaxLoads, alive : BOOLEAN]
  BY DEF PageShape
<1>2. CASE StartMain
  <2>1. ui.load # 0 /\ Start(ui.load, ui.load)
    BY <1>2 DEF StartMain
  <2>2. ui.load \in 0..MaxLoads /\ ui.load \in Tasks
    BY <1>1, <2>1, WebPageAssumption, SchemeTasksAssumption DEF Tasks
  <2> QED BY <1>1, <2>1, <2>2, StartKeeps
<1>3. ASSUME NEW t \in Tasks, StartResource(t) PROVE TasksInv'
  <2>1. Start(t, web.doc) /\ web.doc \in 0..MaxLoads
    BY <1>1, <1>3 DEF StartResource
  <2> QED BY <1>1, <2>1, StartKeeps
<1>4. ASSUME NEW t \in Tasks PROVE task[t] \in TaskRecord
  BY <1>4 DEF TasksInv, TasksTypeOK, TaskRecord
<1>5. ASSUME NEW t \in Tasks, Stop(t) PROVE TasksInv'
  <2>1. task[t] \in TaskRecord
    BY <1>4
  <2>2. PICK s \in TaskRecord : s = [task[t] EXCEPT !.phase = "stopped"]
    BY <2>1 DEF TaskRecord
  <2>3. s.phase = "stopped" /\ s.at = task[t].at /\ s.address = task[t].address
    BY <2>1, <2>2 DEF TaskRecord
  <2>4. Waiting(t) /\ task' = [task EXCEPT ![t] = Freed(s)] /\ (UNCHANGED keys \/ RemoveKey(t))
    BY <1>5, <2>2 DEF Stop
  <2>5. InMemory(task[t]) /\ task[t].at # "none" /\ (s.at # "gone" => Held(t))
    BY <2>3, <2>4 DEF InMemory, Waiting, Held, TasksInv, ResponderOfTask
  <2> QED BY <1>0, <2>3, <2>4, <2>5, FreedMoves
<1>6. ASSUME NEW t \in Tasks, Respond(t) \/ Forget(t) PROVE TasksInv'
  <2>1. Held(t) /\ UNCHANGED keys
    BY <1>6 DEF Respond, Forget, At, Held
  <2>2. Tell(t) \/ Goes(t, "queued") \/ Goes(t, "check") \/ Goes(t, "gone")
    BY <1>6 DEF Respond, GtkRespond, WebView2Respond, WkRespond, Forget
  <2>3. CASE Tell(t)
    BY <1>0, <2>1, <2>3, TellKeeps
  <2>4. ASSUME NEW at \in {"queued", "check", "gone"}, Goes(t, at) PROVE TasksInv'
    BY <1>0, <2>1, <2>4, GoesKeeps
  <2> QED BY <2>2, <2>3, <2>4
<1>7. ASSUME NEW t \in Tasks, RunQueued(t) \/ Check(t) PROVE TasksInv'
  <2>1. Held(t) /\ UNCHANGED keys
    BY <1>7 DEF RunQueued, Check, At, Held
  <2>2. Tell(t) \/ Goes(t, "call") \/ Goes(t, "gone")
    BY <1>7 DEF RunQueued, FinishWithResponse, DispatcherProc, Check
  <2>3. CASE Tell(t)
    BY <1>0, <2>1, <2>3, TellKeeps
  <2>4. ASSUME NEW at \in {"call", "gone"}, Goes(t, at) PROVE TasksInv'
    BY <1>0, <2>1, <2>4, GoesKeeps
  <2> QED BY <2>2, <2>3, <2>4
<1>8. ASSUME NEW t \in Tasks, Call(t) PROVE TasksInv'
  <2>1. Held(t) /\ UNCHANGED keys /\ task[t].at = "call"
    BY <1>8 DEF Call, At, Held
  <2>2. CASE Waiting(t)
    <3>1. task[t] \in TaskRecord /\ task[t].told <= 2
      BY <1>4, <2>2 DEF TasksInv, ResponderOfTask
    <3>2. task[t].told \in 0..2
      BY <3>1 DEF TaskRecord
    <3>3. PICK n \in 0..3 : n = task[t].told + 1
      BY <3>2
    <3>4. PICK phase \in {"waiting", "finished"}, at \in {"check", "remove"} :
            /\ phase = IF task[t].told = 2 THEN "finished" ELSE "waiting"
            /\ at = IF task[t].told = 2 THEN "remove" ELSE "check"
      OBVIOUS
    <3>5. task' = [task EXCEPT ![t].told = n, ![t].phase = phase, ![t].at = at]
      <4>1. task' = [task EXCEPT ![t].told = @ + 1,
                                 ![t].phase = IF task[t].told = 2 THEN "finished" ELSE @,
                                 ![t].at = IF task[t].told = 2 THEN "remove" ELSE "check"]
        BY <1>8, <2>2 DEF Call
      <4> QED BY <2>2, <3>1, <3>3, <3>4, <4>1 DEF Waiting, TasksInv, TasksTypeOK, TaskRecord
    <3>6. PICK r \in TaskRecord : r = [task[t] EXCEPT !.told = n, !.phase = phase, !.at = at]
      BY <3>1 DEF TaskRecord
    <3>7. r.told = n /\ r.phase = phase /\ r.at = at /\ r.address = task[t].address
      BY <3>1, <3>6 DEF TaskRecord
    <3>8. task' = [task EXCEPT ![t] = r]
      BY <3>5, <3>6, <1>4 DEF TasksInv, TasksTypeOK
    <3>9. InMemory(task[t]) /\ InMemory(r)
      BY <2>2, <3>7 DEF InMemory, Waiting
    <3>10. r.phase = "waiting" => r.told <= 2
      BY <3>2, <3>3, <3>4, <3>7
    <3> QED BY <1>0, <2>1, <2>2, <3>7, <3>8, <3>9, <3>10, TaskMoves
  <2>3. CASE ~Waiting(t)
    <3>1. Goes(t, "gone")
      BY <1>8, <2>3 DEF Call
    <3> QED BY <1>0, <2>1, <3>1, GoesKeeps
  <2> QED BY <2>2, <2>3
<1>9. ASSUME NEW t \in Tasks, Finish(t) PROVE TasksInv'
  <2>1. Held(t) /\ Goes(t, "gone") /\ (UNCHANGED keys \/ RemoveKey(t))
    BY <1>9 DEF Finish, At, Held
  <2> QED BY <1>0, <2>1, GoesKeeps
<1> QED BY <1>2, <1>3, <1>5, <1>6, <1>7, <1>8, <1>9 DEF TaskStep, Responding

-----------------------------------------------------------------------------
(* The scenes together.  What the url of a message rests on is said of the *)
(* scene that has messages; the rest holds in every scene, of the parts    *)
(* that are played and of those that stand still.                          *)

PageParts == PageShape /\ ScriptsInv /\ MessageNamesItsPage /\ HeardShape

IInv ==
    /\ scene \in Scenes
    /\ PageParts
    /\ scene = "scripts" => MessagesInv
    /\ TasksInv /\ DownloadsInv /\ WindowsInv /\ DragsInv /\ CookiesTypeOK /\ CreationInv

LEMMA InitIInv == Init => IInv
<1> SUFFICES ASSUME Init PROVE IInv
  OBVIOUS
<1>1. PageShape /\ ScriptsInv /\ MessageNamesItsPage /\ MessagesInv
  BY PageInitially, MessagesInitially DEF Init
<1>2. HeardShape
  BY DEF Init, PageInit, HeardShape
<1>3. TasksInv /\ DownloadsInv /\ WindowsInv /\ DragsInv /\ CookiesTypeOK /\ CreationInv
  BY TasksInitially, DownloadsInitially, WindowsInitially, DragsInitially, CookiesInitially, CreationInitially DEF Init
<1>4. scene \in Scenes
  BY DEF Init
<1> QED BY <1>1, <1>2, <1>3, <1>4 DEF IInv, PageParts

\* A part whose variables stand still keeps its invariant, also when the view is dropped meanwhile.
LEMMA PartsStandStill ==
    ASSUME IInv, OnlyDrops
    PROVE  /\ UNCHANGED pageOnly => PageParts' /\ (MessagesInv => MessagesInv')
           /\ UNCHANGED taskVars => TasksInv'
           /\ UNCHANGED downloadVars => DownloadsInv'
           /\ UNCHANGED popupVars => WindowsInv'
           /\ UNCHANGED dragVars => DragsInv'
           /\ UNCHANGED cookieVars => CookiesTypeOK'
           /\ UNCHANGED creationVars => CreationInv'
<1>1. ASSUME UNCHANGED pageOnly PROVE PageParts'
  <2>1. PageShape' /\ ScriptsInv' /\ MessageNamesItsPage'
    BY <1>1, PageFrame DEF IInv, PageParts
  <2>2. HeardShape'
    BY <1>1 DEF IInv, PageParts, HeardShape, pageOnly
  <2> QED BY <2>1, <2>2 DEF PageParts
<1>2. ASSUME UNCHANGED pageOnly, MessagesInv PROVE MessagesInv'
  BY <1>2 DEF MessagesInv, Knows, pageOnly
<1>3. /\ UNCHANGED taskVars => TasksInv'
      /\ UNCHANGED downloadVars => DownloadsInv'
      /\ UNCHANGED popupVars => WindowsInv'
      /\ UNCHANGED dragVars => DragsInv'
      /\ UNCHANGED cookieVars => CookiesTypeOK'
      /\ UNCHANGED creationVars => CreationInv'
  BY TasksFrame, DownloadsFrame, WindowsFrame, DragsFrame, CookiesFrame, CreationFrame DEF IInv
<1> QED BY <1>1, <1>2, <1>3

LEMMA DropsOnly ==
    ASSUME IInv, DropView \/ UNCHANGED desktopVars
    PROVE  OnlyDrops
BY DropOnlyDrops DEF IInv, PageParts, PageShape

LEMMA ScriptSceneKeeps ==
    ASSUME IInv, ScriptScene
    PROVE  IInv'
<1>1. PageShape /\ ScriptsInv /\ MessagesInv /\ MessageNamesItsPage /\ HeardShape /\ DesktopOK
  BY DEF IInv, PageParts, PageShape, ScriptScene, InScripts
<1>2. Navigate \/ WebCommits \/ PageMoves \/ Eval \/ WebPosts \/ ProcessTerminates \/ DropPage
  BY DEF ScriptScene
<1>3. PageAction
  BY <1>2 DEF PageMoves, PageAction
<1>4. OnlyDrops
  BY <1>1, <1>3, PageKeepsDesktop
<1>5. PageParts' /\ MessagesInv'
  BY <1>1, <1>2, <1>3, PageShapeStep, ScriptsStep, MessagesStep DEF PageParts
<1>6. UNCHANGED <<taskVars, downloadVars, popupVars, dragVars, cookieVars, creationVars, scene>>
  BY DEF ScriptScene, InScripts
<1> QED BY <1>4, <1>5, <1>6, PartsStandStill DEF IInv

\* The steps of a page with custom protocols that are not a task's.
LEMMA PageOfTasksKeeps ==
    ASSUME IInv, InTasks, UNCHANGED <<taskVars, heard>>, PageAction
    PROVE  IInv'
<1>1. PageShape /\ ScriptsInv /\ MessageNamesItsPage /\ HeardShape /\ DesktopOK
  BY DEF IInv, PageParts, PageShape
<1>2. OnlyDrops /\ Gtk' = Gtk
  BY <1>1, PageKeepsDesktop
<1>3. MessageNamesItsPage' /\ HeardShape'
  BY <1>1, <1>2 DEF MessageNamesItsPage, HeardShape
<1>4. PageParts'
  BY <1>1, <1>3, PageShapeStep, ScriptsStep DEF PageParts
<1>5. UNCHANGED <<taskVars, downloadVars, popupVars, dragVars, cookieVars, creationVars, scene>> /\ scene # "scripts"
  BY DEF InTasks
<1> QED BY <1>2, <1>4, <1>5, PartsStandStill DEF IInv

LEMMA TaskSceneKeeps ==
    ASSUME IInv, TaskScene
    PROVE  IInv'
<1>1. InTasks
  BY DEF TaskScene, CommitInTasks
<1>2. CASE (Navigate \/ ProcessTerminates \/ DropPage) /\ UNCHANGED taskVars
  <2>1. UNCHANGED heard /\ PageAction
    BY <1>2 DEF Navigate, ProcessTerminates, DropPage, PageAction
  <2> QED BY <1>1, <1>2, <2>1, PageOfTasksKeeps
<1>3. CASE CommitInTasks
  <2>1. UNCHANGED <<heard, taskVars>> /\ PageAction
    BY <1>3 DEF CommitInTasks, UiCommits, PageAction
  <2> QED BY <1>1, <2>1, PageOfTasksKeeps
<1>4. CASE LoadCommits
  <2>1. UNCHANGED <<heard, taskVars>> /\ PageAction
    BY <1>4 DEF LoadCommits, WebCommits, PageAction
  <2> QED BY <1>1, <2>1, PageOfTasksKeeps
<1>5. CASE LoadFails
  <2>1. UNCHANGED <<heard, taskVars>> /\ LoadEnds
    BY <1>5 DEF LoadFails, LoadEnds, taskVars
  <2> QED BY <1>1, <2>1, PageOfTasksKeeps DEF PageAction
<1>6. CASE TaskStep
  <2>1. TasksInv' /\ UNCHANGED pageVars
    BY <1>6, TasksNext DEF IInv, PageParts
  <2>2. UNCHANGED <<desktopVars, pageOnly>>
    BY <2>1 DEF pageVars, pageOnly
  <2>3. UNCHANGED <<downloadVars, popupVars, dragVars, cookieVars, creationVars, scene>> /\ scene # "scripts"
    BY <1>1 DEF InTasks
  <2>4. OnlyDrops
    BY <2>2, DropsOnly
  <2> QED BY <2>1, <2>2, <2>3, <2>4, PartsStandStill DEF IInv
<1> QED BY <1>1, <1>2, <1>3, <1>4, <1>5, <1>6 DEF TaskScene

\* A step of one of the other scenes.
LEMMA OtherScenesKeep ==
    ASSUME IInv, DownloadScene \/ WindowScene \/ DragScene \/ CookieScene \/ CreationScene
    PROVE  IInv'
<1>1. DesktopOK
  BY DEF IInv, PageParts, PageShape
<1>2. CASE DownloadScene
  <2>1. UNCHANGED <<pageOnly, taskVars, popupVars, dragVars, cookieVars, creationVars, scene>> /\ scene # "scripts"
    BY <1>2 DEF DownloadScene, InDownloads
  <2>2. OnlyDrops /\ DownloadsInv'
    <3>1. CASE DownloadStep
      <4>1. DownloadsInv' /\ UNCHANGED desktopVars
        BY <1>1, <3>1, DownloadsNext DEF IInv
      <4> QED BY <4>1, DropsOnly
    <3>2. CASE DropOpener
      <4>1. OnlyDrops /\ UNCHANGED downloadVars
        BY <3>2, DropsOnly DEF DropOpener
      <4> QED BY <4>1, PartsStandStill
    <3> QED BY <1>2, <3>1, <3>2 DEF DownloadScene
  <2> QED BY <2>1, <2>2, PartsStandStill DEF IInv
<1>3. CASE WindowScene
  <2>1. UNCHANGED <<pageOnly, taskVars, downloadVars, dragVars, cookieVars, creationVars, scene>> /\ scene # "scripts"
    BY <1>3 DEF WindowScene, InWindows
  <2>2. OnlyDrops /\ WindowsInv'
    <3>1. CASE PopupStep
      <4>1. WindowsInv' /\ UNCHANGED desktopVars
        BY <1>1, <3>1, WindowsNext DEF IInv
      <4> QED BY <4>1, DropsOnly
    <3>2. CASE DropOpenerOfPopups
      <4>1. OnlyDrops /\ UNCHANGED popupVars
        BY <3>2, DropsOnly DEF DropOpenerOfPopups
      <4> QED BY <4>1, PartsStandStill
    <3> QED BY <1>3, <3>1, <3>2 DEF WindowScene
  <2> QED BY <2>1, <2>2, PartsStandStill DEF IInv
<1>4. CASE DragScene
  <2>1. UNCHANGED <<pageOnly, taskVars, downloadVars, popupVars, cookieVars, creationVars, scene>> /\ scene # "scripts"
    BY <1>4 DEF DragScene, InDrags
  <2>2. OnlyDrops /\ DragsInv'
    <3>1. CASE DragStep
      <4>1. DragsInv' /\ UNCHANGED desktopVars
        BY <1>1, <3>1, DragsNext DEF IInv
      <4> QED BY <4>1, DropsOnly
    <3>2. CASE DropDragged
      <4>1. OnlyDrops /\ UNCHANGED dragVars
        BY <3>2, DropsOnly DEF DropDragged
      <4> QED BY <4>1, PartsStandStill
    <3> QED BY <1>4, <3>1, <3>2 DEF DragScene
  <2> QED BY <2>1, <2>2, PartsStandStill DEF IInv
<1>5. CASE CookieScene
  <2>1. UNCHANGED <<pageOnly, taskVars, downloadVars, popupVars, dragVars, creationVars, scene>> /\ scene # "scripts"
    BY <1>5 DEF CookieScene, InCookies
  <2>2. CookiesTypeOK' /\ UNCHANGED desktopVars
    BY <1>1, <1>5, CookiesNext DEF IInv, CookieScene
  <2>3. OnlyDrops
    BY <2>2, DropsOnly
  <2> QED BY <2>1, <2>2, <2>3, PartsStandStill DEF IInv
<1>6. CASE CreationScene
  <2>1. UNCHANGED <<pageOnly, taskVars, downloadVars, popupVars, dragVars, cookieVars, scene>> /\ scene # "scripts"
    BY <1>6 DEF CreationScene, InCreation
  <2>2. CreationInv' /\ UNCHANGED desktopVars
    BY <1>1, <1>6, CreationNext DEF IInv, CreationScene
  <2>3. OnlyDrops
    BY <2>2, DropsOnly
  <2> QED BY <2>1, <2>2, <2>3, PartsStandStill DEF IInv
<1> QED BY <1>2, <1>3, <1>4, <1>5, <1>6

LEMMA NextIInv == IInv /\ [Next]_vars => IInv'
<1> SUFFICES ASSUME IInv, [Next]_vars PROVE IInv'
  OBVIOUS
<1>1. CASE Next
  BY <1>1, ScriptSceneKeeps, TaskSceneKeeps, OtherScenesKeep DEF Next
<1>2. CASE UNCHANGED vars
  <2>1. UNCHANGED <<desktopVars, pageOnly, taskVars, downloadVars, popupVars, dragVars, cookieVars, creationVars, scene>>
    BY <1>2 DEF vars, pageVars, pageOnly
  <2>2. OnlyDrops
    BY <2>1, DropsOnly
  <2> QED BY <2>1, <2>2, PartsStandStill DEF IInv
<1> QED BY <1>1, <1>2

\* The inductive invariant of the events of a page, on all desktop backends and in all scenes.
THEOREM Inductive == Spec => []IInv
<1>1. Spec => Init /\ [][Next]_vars
  BY DEF Spec
<1> QED BY <1>1, InitIInv, NextIInv, PTL

-----------------------------------------------------------------------------
\* Host and page hear of each other what they ought to (PageInv): on every backend a host's scripts run
\* once and in the order of evaluation, those that waited for the first page run in it, and a page's
\* messages come under its url; on gtk under that of a load under way at worst.
THEOREM PagesAndHostsHear == Spec => []PageInv
<1>1. IInv => PageInv
  <2> SUFFICES ASSUME IInv PROVE PageInv
    OBVIOUS
  <2>1. PageTypeOK
    BY DEF IInv, PageParts, PageShape, DesktopOK, PageTypeOK, Message
  <2>2. /\ TasksTypeOK /\ DownloadsTypeOK /\ NewWindowsTypeOK /\ DragDropTypeOK /\ CookiesTypeOK
        /\ CreationTypeOK
    BY DEF IInv, TasksInv, DownloadsInv, WindowsInv, DragsInv, CreationInv
  <2> QED BY <2>1, <2>2 DEF PageInv, TypeOK, IInv, PageParts, ScriptsInv
<1> QED BY <1>1, Inductive, PTL

\* The key that url_scheme_handler.rs looks a running task up by stays with it, however many tasks
\* came and went at its address (KeyOfRunningTask).
THEOREM TasksKeepTheirKeys == Spec => []KeyOfRunningTask
<1>1. IInv => KeyOfRunningTask
  BY DEF IInv, TasksInv
<1> QED BY <1>1, Inductive, PTL

\* Every view hears of the end of its downloads, and of no success that was none
\* (DownloadIsReported).
THEOREM DownloadsAreReported == Spec => []DownloadIsReported
<1>1. IInv => DownloadIsReported
  <2> SUFFICES ASSUME DownloadsInv PROVE DownloadIsReported
    BY DEF IInv
  <2> QED BY DEF DownloadsInv, NotReportedEarly, FailureMeansFlag, EndIsReported, DownloadIsReported, InPhase
<1> QED BY <1>1, Inductive, PTL

\* The web view of a popup lives as long as its window and no longer (ViewGoesWithItsWindow).
THEOREM PopupsGoWithTheirWindows == Spec => []ViewGoesWithItsWindow
<1>1. IInv => ViewGoesWithItsWindow
  BY DEF IInv, WindowsInv
<1> QED BY <1>1, Inductive, PTL

\* What the host is told of a drag is of that drag: its events follow its Enter and end once, a Drop
\* has its own paths, and the last event is true of what is over the view, but for drags of gtk that
\* cross, and on webview2 what follows the first end (EventsTellOfTheirDrag).
THEOREM DragsAreWhole == Spec => []EventsTellOfTheirDrag
<1>1. IInv => EventsTellOfTheirDrag
  BY DragsImply DEF IInv, PageParts, PageShape
<1> QED BY <1>1, Inductive, PTL

\* Whatever creations fail and whatever views are dropped, a view keeps its parts as long as it lives
\* and no longer.  On gtk: the host's windows and the containers of children in them, except in a
\* window that a dropped view which was no child has destroyed (X11Data::drop).  On wk: its entry in
\* WEBVIEW_STATE, its message handler and its protocols, except for an id or a controller that it
\* shares, and protocols that a dropped opener has registered (ViewKeepsItsParts).
THEOREM PartsAreKept == Spec => []ViewKeepsItsParts
<1>1. IInv => ViewKeepsItsParts
  BY CreationImplies DEF IInv
<1> QED BY <1>1, Inductive, PTL
=============================================================================
