------------------------------- MODULE Cookies -------------------------------
(***************************************************************************)
(* cookies, set_cookie and delete_cookie look synchronous and are not: the *)
(* host's call sends a request to the cookie store and pumps the loop of   *)
(* the main thread until the completion has run there.  What else the loop *)
(* runs meanwhile may be a callback of the host that makes such a call     *)
(* itself, so the calls nest.                                              *)
(*                                                                         *)
(*   gtk       gtk::main_iteration, then try_recv, for ever                *)
(*   wk        wait_for_blocking_operation: recv_timeout and a turn of the *)
(*             main run loop, for about a second                           *)
(*   webview2  wait_with_pump for GetCookies; the other two do not wait    *)
(***************************************************************************)
EXTENDS Desktop, Naturals, Sequences

CONSTANTS MaxCookieCalls  \* bound: calls, which is also how deep they nest

ASSUME CookiesAssumption == MaxCookieCalls \in Nat

CookieCalls == 1..MaxCookieCalls
CookieOps == {"get", "set", "delete"}

VARIABLES
    calls,      \* each call: its operation and phase, the jar that it was answered with, and
                \* whether an event handler of WebView2 makes it
    waiting,    \* the calls on the stack, the innermost last
    store,      \* requests at the cookie store, in order
    jar         \* whether the cookie is there

cookieVars == <<calls, waiting, store, jar>>

CookiesInit ==
    /\ calls = [c \in CookieCalls |-> [op |-> "get", phase |-> "none", answer |-> FALSE,
                                     inside |-> FALSE]]
    /\ waiting = <<>> /\ store = <<>> /\ jar = FALSE

Innermost(c) == waiting # <<>> /\ waiting[Len(waiting)] = c
CallMoves(c, phase) == calls' = [calls EXCEPT ![c].phase = phase]

-----------------------------------------------------------------------------
\* The call waits for its completion.
Waits(c, op) ==
    /\ \E inside \in {FALSE, WebView2} :
        calls' = [calls EXCEPT ![c] = [op |-> op, phase |-> "sent", answer |-> FALSE, inside |-> inside]]
    /\ waiting' = Append(waiting, c)

\* Without a cookie manager nothing is asked, the sender is dropped, and the loop, which looks for a
\* message only, turns for ever.
WithoutManager(c, op) ==
    /\ calls' = [calls EXCEPT ![c] = [op |-> op, phase |-> "unasked", answer |-> FALSE, inside |-> FALSE]]
    /\ waiting' = Append(waiting, c)

GtkCookies(c) == Gtk /\ (Waits(c, "get") \/ WithoutManager(c, "get"))
GtkSetCookie(c) == Gtk /\ (Waits(c, "set") \/ WithoutManager(c, "set"))
GtkDeleteCookie(c) == Gtk /\ (Waits(c, "delete") \/ WithoutManager(c, "delete"))
WkCookies(c) == Wk /\ Waits(c, "get")
WkSetCookie(c) == Wk /\ Waits(c, "set")
WkDeleteCookie(c) == Wk /\ Waits(c, "delete")
WebView2Cookies(c) == WebView2 /\ Waits(c, "get")

\* AddOrUpdateCookie and DeleteCookie have no completion.
WebView2SetCookie(c, op) ==
    /\ WebView2
    /\ op \in {"set", "delete"}
    /\ calls' = [calls EXCEPT ![c] = [op |-> op, phase |-> "returned", answer |-> FALSE, inside |-> FALSE]]
    /\ UNCHANGED waiting

\* The host calls, on its own or from a callback that a pump runs.
CookieCall(c) ==
    /\ Alive
    /\ calls[c].phase = "none" /\ \A b \in 1..(c - 1) : calls[b].phase # "none"
    /\ \/ GtkCookies(c) \/ GtkSetCookie(c) \/ GtkDeleteCookie(c)
       \/ WkCookies(c) \/ WkSetCookie(c) \/ WkDeleteCookie(c)
       \/ WebView2Cookies(c) \/ \E op \in CookieOps : WebView2SetCookie(c, op)
    /\ store' = IF calls'[c].phase = "unasked" THEN store ELSE Append(store, c)
    /\ UNCHANGED <<desktopVars, jar>>

\* The store serves the requests in order and queues the completion on the main loop.
StoreServes ==
    /\ store # <<>>
    /\ store' = Tail(store)
    /\ LET c == Head(store) IN
       /\ jar' = IF calls[c].op = "get" THEN jar ELSE calls[c].op = "set"
       /\ calls' = [calls EXCEPT ![c].answer = jar',
                                 ![c].phase = IF @ = "sent" THEN "completed" ELSE @]
    /\ UNCHANGED <<desktopVars, waiting>>

\* WebView2 does not call back while one of its event handlers runs.
Blocked == \E i \in DOMAIN waiting : calls[waiting[i]].inside

Received(c) ==
    /\ calls[c].phase = "completed"
    /\ CallMoves(c, "received")
    /\ UNCHANGED <<desktopVars, waiting, store, jar>>

\* variant: the receiver waits without running the loop, which turns when nothing waits
RecvWithoutLoop(c) == Gtk /\ waiting = <<>> /\ Received(c)

\* A turn of the loop: a completion runs in whichever call is pumping and fills its own channel.
MainIteration(c) == Gtk /\ waiting # <<>> /\ Received(c)
AcceptInput(c) == Wk /\ waiting # <<>> /\ Received(c)
WaitWithPump(c) == WebView2 /\ waiting # <<>> /\ ~Blocked /\ Received(c)

\* The innermost call has its answer and returns to the callback that made it.
CallReturns(c) ==
    /\ Innermost(c)
    /\ calls[c].phase = "received"
    /\ CallMoves(c, "returned")
    /\ waiting' = SubSeq(waiting, 1, Len(waiting) - 1)
    /\ UNCHANGED <<desktopVars, store, jar>>

\* The second of wait_for_blocking_operation is over; what was asked of the store stays asked.
CallTimesOut(c) ==
    /\ Wk
    /\ Innermost(c)
    /\ calls[c].phase \in {"sent", "completed"}
    /\ CallMoves(c, "timed out")
    /\ waiting' = SubSeq(waiting, 1, Len(waiting) - 1)
    /\ UNCHANGED <<desktopVars, store, jar>>

Pumping == \E c \in CookieCalls : MainIteration(c) \/ AcceptInput(c) \/ WaitWithPump(c)
Returning == \E c \in CookieCalls : CallReturns(c)

CookieStep ==
    \/ \E c \in CookieCalls : CookieCall(c) \/ CallTimesOut(c)
    \/ StoreServes \/ Pumping \/ Returning

\* The shape of the state.
CookiesTypeOK ==
    /\ calls \in [CookieCalls -> [op : CookieOps, answer : BOOLEAN, inside : BOOLEAN,
            phase : {"none", "unasked", "sent", "completed", "received", "returned", "timed out"}]]
    /\ waiting \in Seq(CookieCalls) /\ store \in Seq(CookieCalls) /\ jar \in BOOLEAN

\* gtk: the loop of a call without a cookie manager is on the stack.
Endless == \E i \in DOMAIN waiting : calls[waiting[i]].phase = "unasked"

\* Every call that has asked the store returns, however calls nest: the pump of an inner call runs
\* the completions of the outer ones too, which find their answer when they get to look.  On
\* webview2 one that an event handler makes does not, nor do those that wait for it; on gtk, those
\* that wait for one that found no cookie manager.
CookieCallReturns ==
    \A c \in CookieCalls :
        calls[c].phase = "sent" ~> (calls[c].phase \in {"returned", "timed out"} \/ Blocked \/ Endless)
=============================================================================
