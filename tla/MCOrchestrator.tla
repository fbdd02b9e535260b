--------------------------- MODULE MCOrchestrator ---------------------------
(* Two chats and four messages: a lane has a queue while another works, and some come late. *)
EXTENDS Orchestrator

MCLanes == {"web", "cron"}
=============================================================================
