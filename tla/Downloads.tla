------------------------------ MODULE Downloads ------------------------------
(***************************************************************************)
(* Downloads of two web views of one web context, and what the handlers of *)
(* the hosts are told.  View 1 is the one that may be dropped.             *)
(*                                                                         *)
(* On gtk a handler is registered with the context, not with the view:     *)
(* each registration hears of every download, the first decides for all,   *)
(* and each keeps one flag, `failed`, for all downloads.                   *)
(***************************************************************************)
EXTENDS Desktop, Naturals

CONSTANTS MaxDownloads  \* bound: downloads

ASSUME DownloadsAssumption == MaxDownloads \in Nat

Downloads == 1..MaxDownloads
Openers == {1, 2}

VARIABLES
    download,   \* its phase, and the view whose page asked for it
    failed,     \* gtk: the flag of each registration
    completed   \* history: what each view's completion handler was told of each download

downloadVars == <<download, failed, completed>>

DownloadsInit ==
    /\ download = [d \in Downloads |-> [phase |-> "none", view |-> 1]]
    /\ failed = [v \in Openers |-> FALSE]
    /\ completed = [d \in Downloads |-> [v \in Openers |-> "nothing"]]

InPhase(d, phase) == download[d].phase = phase
Moves(d, phase) == download' = [download EXCEPT ![d].phase = phase]

\* A registration with the context outlives its view; a delegate does not.
GtkRegistrations(d) == Openers
WkDelegates(d) == IF Alive THEN {download[d].view} ELSE {download[d].view} \ {1}
WebView2Handlers(d) == IF Alive THEN {download[d].view} ELSE {download[d].view} \ {1}

Told(d, views, success) ==
    completed' = [completed EXCEPT ![d] =
        [v \in Openers |-> IF v \in views THEN success[v] ELSE @[v]]]

-----------------------------------------------------------------------------
DownloadStarts(d, v) ==
    /\ v = 1 => Alive
    /\ InPhase(d, "none") /\ \A e \in 1..(d - 1) : ~InPhase(e, "none")
    /\ download' = [download EXCEPT ![d] = [phase |-> "asked", view |-> v]]
    /\ UNCHANGED <<desktopVars, failed, completed>>

\* decide-destination: the handler that was registered first allows or cancels.
GtkDecides(d) ==
    /\ Gtk
    /\ Moves(d, "running") \/ Moves(d, "cancelled")
    /\ UNCHANGED completed

\* download_policy; without a delegate nothing answers and WebKit cancels.
WkDecides(d) ==
    /\ Wk
    /\ (WkDelegates(d) # {} /\ Moves(d, "running")) \/ Moves(d, "cancelled")
    /\ UNCHANGED completed

\* DownloadStarting
WebView2Decides(d) ==
    /\ WebView2
    /\ (WebView2Handlers(d) # {} /\ Moves(d, "running")) \/ Moves(d, "cancelled")
    /\ UNCHANGED completed

Decide(d) ==
    /\ InPhase(d, "asked")
    /\ GtkDecides(d) \/ WkDecides(d) \/ WebView2Decides(d)
    /\ UNCHANGED <<desktopVars, failed>>

\* variant: a failure is not noted
GtkFailsUnnoted(d) == UNCHANGED failed

\* connect_failed sets the flag of every registration; connect_finished comes after it.
GtkFails(d) == failed' = [v \in Openers |-> TRUE]

\* connect_finished, with the flag as it is after `failed`
GtkFinished(d) ==
    Told(d, GtkRegistrations(d), [v \in Openers |-> IF failed'[v] THEN "failed" ELSE "succeeded"])

\* download_did_finish and download_did_fail
WkDidFinish(d) == Told(d, WkDelegates(d), [v \in Openers |-> "succeeded"])
WkDidFail(d) == Told(d, WkDelegates(d), [v \in Openers |-> "failed"])

\* StateChanged, with COMPLETED or INTERRUPTED
StateChanged(d, outcome) == Told(d, WebView2Handlers(d), [v \in Openers |-> outcome])

Succeeds(d) ==
    /\ InPhase(d, "running")
    /\ Moves(d, "succeeded")
    /\ UNCHANGED <<desktopVars, failed>>
    /\ \/ Gtk /\ GtkFinished(d)
       \/ Wk /\ WkDidFinish(d)
       \/ WebView2 /\ StateChanged(d, "succeeded")

\* The network, the disk, the user or the host's own handler ends it.
Fails(d) ==
    /\ InPhase(d, "running") \/ InPhase(d, "cancelled")
    /\ Moves(d, "failed")
    /\ \/ Gtk /\ GtkFails(d) /\ GtkFinished(d)
       \/ Wk /\ WkDidFail(d) /\ UNCHANGED failed
       \/ WebView2 /\ StateChanged(d, "failed") /\ UNCHANGED failed
    /\ UNCHANGED desktopVars

DropOpener == DropView /\ UNCHANGED downloadVars

DownloadStep ==
    \E d \in Downloads :
        (\E v \in Openers : DownloadStarts(d, v)) \/ Decide(d) \/ Succeeds(d) \/ Fails(d)

\* The shape of the state.
DownloadsTypeOK ==
    /\ download \in [Downloads -> [phase : {"none", "asked", "running", "cancelled", "succeeded", "failed"},
                                   view : Openers]]
    /\ failed \in [Openers -> BOOLEAN]
    /\ completed \in [Downloads -> [Openers -> {"nothing", "succeeded", "failed"}]]

\* The completion handler of a view is told of the end of its downloads, and never of a success that
\* was none: a download that a handler refused or that broke off is not taken for a file, also when
\* another view's download ends at the same time.  A success is told as a failure on gtk only, and
\* only when a download of the same context has failed before it.
DownloadIsReported ==
    \A d \in Downloads :
        /\ \A v \in Openers :
            /\ completed[d][v] = "succeeded" => InPhase(d, "succeeded")
            /\ completed[d][v] = "failed" /\ InPhase(d, "succeeded")
                => Gtk /\ \E e \in Downloads : InPhase(e, "failed")
        /\ download[d].phase \in {"succeeded", "failed"} /\ Alive
                => completed[d][download[d].view] # "nothing"

\* lib.rs:680-684: the handler gets "a `bool` indicating if the download succeeded".  On gtk the flag
\* `failed` is shared by all downloads and never reset.
SuccessIsReported ==
    \A d \in Downloads : InPhase(d, "succeeded") => \A v \in Openers : completed[d][v] # "failed"
=============================================================================
