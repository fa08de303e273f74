------------------------------ MODULE MCTimers ------------------------------
(***************************************************************************)
(* Timers and RepeatingTimer on small instances.  Handles are numbers, so  *)
(* that Fresh is the same choice in every state.  Two one-shot timers can  *)
(* cancel each other within one drain; a tick, its restart and the next    *)
(* one need three handles, and one more when it is started inside          *)
(* block_on.                                                               *)
(***************************************************************************)
EXTENDS RepeatingTimer
=============================================================================
