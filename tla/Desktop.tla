------------------------------- MODULE Desktop -------------------------------
(***************************************************************************)
(* What the models of wry's three desktop backends share: which backend it *)
(* is, and the InnerWebView that the host owns and may drop at any time.   *)
(*                                                                         *)
(*   gtk       webkitgtk/mod.rs                                            *)
(*   wk        wkwebview/mod.rs                                            *)
(*   webview2  webview2/mod.rs, once the controller is there (WebView2     *)
(*             models how it gets there)                                   *)
(***************************************************************************)

CONSTANTS Backends  \* subset of {"gtk", "wk", "webview2"}

ASSUME DesktopAssumption == Backends \subseteq {"gtk", "wk", "webview2"}

VARIABLES
    backend,
    owner       \* InnerWebView: "alive" or "dropped"

desktopVars == <<backend, owner>>

Gtk == backend = "gtk"
Wk == backend = "wk"
WebView2 == backend = "webview2"
Alive == owner = "alive"

DesktopInit == backend \in Backends /\ owner = "alive"

Dropped == Alive /\ owner' = "dropped" /\ UNCHANGED backend

\* The widget is destroyed.
GtkDrop == Gtk /\ Dropped

\* The id leaves WEBVIEW_STATE, the script message handler goes, and the view leaves its window;
\* whoever retains the view keeps it.
WkDrop == Wk /\ Dropped

\* The controller is closed and the container window destroyed.
WebView2Drop == WebView2 /\ Dropped

DropView == GtkDrop \/ WkDrop \/ WebView2Drop
=============================================================================
