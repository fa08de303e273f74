--------------------------- MODULE RunLoopService ---------------------------
(***************************************************************************)
(* What RunLoop::call promises to a thread other than the run loop thread, *)
(* without saying how: a service that opens and closes, and calls that are *)
(* asked of it.  A callback starts at most once and only while the service *)
(* is open; a call returns Ok only after its callback has finished, and an *)
(* error only if the service was closed at some instant of the call; and   *)
(* every call returns.                                                     *)
(*                                                                         *)
(* The service does not promise that a call that returned an error never   *)
(* ran its callback: the code cannot (module RunLoop, ErrMeansNotRun).     *)
(***************************************************************************)
CONSTANT Calls

VARIABLES
    live,       \* the service is open
    caller,     \* per call: "idle", "asked", "ok", "err"
    callback,   \* per call: "no", "running", "done"
    down        \* calls during which the service was closed at some instant

vars == <<live, caller, callback, down>>

Init ==
    /\ live = FALSE
    /\ caller = [k \in Calls |-> "idle"]
    /\ callback = [k \in Calls |-> "no"]
    /\ down = {}

Open == ~live /\ live' = TRUE /\ UNCHANGED <<caller, callback, down>>

Close ==
    /\ live
    /\ live' = FALSE
    /\ down' = down \union {k \in Calls : caller[k] = "asked"}
    /\ UNCHANGED <<caller, callback>>

Ask(k) ==
    /\ caller[k] = "idle"
    /\ caller' = [caller EXCEPT ![k] = "asked"]
    /\ down' = IF live THEN down ELSE down \union {k}
    /\ UNCHANGED <<live, callback>>

\* There is no service to ask.
AskInVain(k) ==
    /\ caller[k] = "idle"
    /\ ~live
    /\ caller' = [caller EXCEPT ![k] = "err"]
    /\ down' = down \union {k}
    /\ UNCHANGED <<live, callback>>

\* The service thread calls itself: the callback runs in place.
AskInline(k) ==
    /\ caller[k] = "idle"
    /\ live
    /\ caller' = [caller EXCEPT ![k] = "ok"]
    /\ callback' = [callback EXCEPT ![k] = "done"]
    /\ UNCHANGED <<live, down>>

Start(k) ==
    /\ live
    /\ caller[k] # "idle"
    /\ callback[k] = "no"
    /\ callback' = [callback EXCEPT ![k] = "running"]
    /\ UNCHANGED <<live, caller, down>>

Finish(k) ==
    /\ callback[k] = "running"
    /\ callback' = [callback EXCEPT ![k] = "done"]
    /\ UNCHANGED <<live, caller, down>>

Answer(k) ==
    /\ caller[k] = "asked"
    /\ callback[k] = "done"
    /\ caller' = [caller EXCEPT ![k] = "ok"]
    /\ UNCHANGED <<live, callback, down>>

Refuse(k) ==
    /\ caller[k] = "asked"
    /\ k \in down
    /\ caller' = [caller EXCEPT ![k] = "err"]
    /\ UNCHANGED <<live, callback, down>>

Next ==
    \/ Open
    \/ Close
    \/ \E k \in Calls :
          \/ Ask(k) \/ AskInVain(k) \/ AskInline(k)
          \/ Start(k) \/ Finish(k)
          \/ Answer(k) \/ Refuse(k)

Fairness ==
    \A k \in Calls :
        /\ WF_vars(caller[k] = "asked" /\ Start(k))
        /\ WF_vars(Finish(k))
        /\ WF_vars(Answer(k) \/ Refuse(k))

Spec == Init /\ [][Next]_vars /\ Fairness
=============================================================================
