---------------------------- MODULE MCSubagents ----------------------------
(* The users' turns are of another chat than the one spawn defaults to;    *)
(* a subagent has its chat from spawn, so that its first one is fixed.     *)
EXTENDS Subagents

MCInit ==
  /\ SubagentsInit
  /\ \A m \in Messages : chat[m] = DefaultOrigin(m) <=> m \notin Turns
MCSpec == MCInit /\ [][SubagentsNext]_subagentsVars /\ SubagentsFairness
=============================================================================
