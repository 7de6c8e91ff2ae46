----------------------------- MODULE MCConnections -----------------------------
(* Two nodes on each other's UNL, the second with a peer without address before, *)
(* or one node that two others connect to.                                       *)
EXTENDS Connections

MCNetworks == {<< <<2>>, <<9, 1>> >>, << <<>>, <<1>>, <<1>> >>}
=============================================================================
