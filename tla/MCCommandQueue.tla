--------------------------- MODULE MCCommandQueue ---------------------------
(* Two chats and a handful of messages, small enough for TLC. *)
EXTENDS CommandQueue

MCLanes == {"web", "cron"}
MCLaneLimits == {0, 2}
MCDrainers == {"stop"}
=============================================================================
