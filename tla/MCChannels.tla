----------------------------- MODULE MCChannels -----------------------------
(* The message "first" has any shape, all others are short texts.          *)
EXTENDS Channels

MCInit ==
  /\ ChannelsInit
  /\ \A m \in Messages : m # "first" => shape[m] = [parts |-> 1, media |-> FALSE, forwarded |-> FALSE]
MCSpec == MCInit /\ [][ChannelsNext]_channelsVars /\ WF_channelsVars(Send)
=============================================================================
