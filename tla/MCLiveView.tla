----------------------------- MODULE MCLiveView -----------------------------
(* One turn in the browser's own session; another one there, or in a       *)
(* Telegram chat, where Telegram's user asks.  That one may be /help.      *)
EXTENDS LiveView

MCInit ==
  /\ Init
  /\ session["first"] = Home /\ session["second"] \in {Home, "telegram:c"}
  /\ local["second"] = (session["second"] = Home)
  /\ help \subseteq {"second"}
MCSpec == MCInit /\ [][Next]_vars

(* Bound: the browser opens two sessions, another one of its own if all is asked in one. *)
Asked == {session[t] : t \in Turns}
MCOpened == current \in IF Asked = {Home} THEN WebSessions ELSE Asked
=============================================================================
