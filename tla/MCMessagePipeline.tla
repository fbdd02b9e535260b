-------------------------- MODULE MCMessagePipeline --------------------------
(* Two messages in one chat or in two, the first of them sent over HTTP. *)
EXTENDS MessagePipeline

CONSTANTS m1, m2

MCMessages == {m1, m2}
MCChats == {"direct", "team"}
MCBrokenMedia == {m2}

MCInit == Init /\ chat[m1] = "direct" /\ source[m1] = "http"
MCSpec == MCInit /\ [][Next]_vars /\ Fairness
=============================================================================
