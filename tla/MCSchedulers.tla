---------------------------- MODULE MCSchedulers ----------------------------
(* The second day of a ping that never ends, so that waiting for ever is    *)
(* possible, and a briefing whose day is over one instant later, so that a  *)
(* tick may begin before midnight and deliver after it.                     *)
EXTENDS Schedulers, TLC

CONSTANTS ping, brief

Opening == ping :> 1 @@ brief :> 1
Closing == ping :> Horizon + 1 @@ brief :> 2
=============================================================================
