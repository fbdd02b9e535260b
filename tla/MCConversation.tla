--------------------------- MODULE MCConversation ---------------------------
(* Three messages, the first a chat message; a consolidation is due with every second entry. *)
EXTENDS Conversation

CONSTANTS m1, m2, m3

MCMessages == {m1, m2, m3}

MCInit == Init /\ kind[m1] = "chat" /\ kind[m2] = "chat"
MCSpec == MCInit /\ [][Next]_vars
=============================================================================
