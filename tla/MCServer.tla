------------------------------- MODULE MCServer -------------------------------
(***************************************************************************)
(* An instance of Server for TLC.                                          *)
(***************************************************************************)
EXTENDS Server

CONSTANTS h1, h2

MCHandlers == {h1, h2}

\* A pod with an address of its own, one with another address on the host's
\* network, and one without an address.
MCParameters ==
    {[ip |-> "ip1", host |-> FALSE, node |-> TRUE],
     [ip |-> "ip2", host |-> TRUE, node |-> FALSE],
     [ip |-> NoIP, host |-> FALSE, node |-> TRUE]}

MCSessionKinds == {"command", "tty", "attach", "forward"}

===============================================================================
