---------------------------- MODULE MCClientLink ----------------------------
(* Instances of ClientLink for TLC: one or two bridges, with and without a  *)
(* relay, and one command.                                                  *)
EXTENDS ClientLink

CONSTANTS h1, h2, c1, c2

OneHost == {h1}
TwoHosts == {h1, h2}
OneCommand == {c1}

Everywhere == [h \in Hosts |-> Modes]
OnlyLocal == [h \in Hosts |-> {"local"}]
ToFirst == [c \in Commands |-> h1]
=============================================================================
