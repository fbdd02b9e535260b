--------------------------- MODULE MCBrowserTool ---------------------------
(* Two requests, of one agent (they share its tab) or of two; which agent  *)
(* the first belongs to makes no difference.                               *)
EXTENDS BrowserTool

MCCallers == {"first", "second"}

MCInit == Init /\ tool["first"] = "main"
MCSpec == MCInit /\ [][Next]_vars /\ Fairness
=============================================================================
