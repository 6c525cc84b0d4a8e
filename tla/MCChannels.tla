----------------------------- MODULE MCChannels -----------------------------
(* Instances of Channels for TLC: two nodes, two dials, and one message from *)
(* the accepting to the dialling node.                                      *)
EXTENDS Channels, TLC

CONSTANT a

Sender == a :> 2
Receiver == a :> 1
=============================================================================
