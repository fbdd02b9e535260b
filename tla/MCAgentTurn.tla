---------------------------- MODULE MCAgentTurn ----------------------------
(* Three sets of tool calls, of one call, of two and of three.  A turn  *)
(* can end at each of its limits: the window, the count, the iterations.   *)
EXTENDS AgentTurn, TLC

MCCallsOf == "one" :> 1 @@ "two" :> 2 @@ "three" :> 3
=============================================================================
