---------------------------- MODULE MCResponses -----------------------------
(* A contract that a reorganisation replaces by one without a function or  *)
(* with fewer parameters, and two neighbours, one of which has two         *)
(* addresses.                                                              *)
EXTENDS Responses, TLC

CONSTANTS x, y

MCABIs == {x :> 1, x :> 0, (x :> 1) @@ (y :> 0)}
MCCalls == {[function |-> x, args |-> 1], [function |-> y, args |-> 0]}

P == [key |-> "p", ip |-> "1"]
R == [key |-> "p", ip |-> "3"]
Q == [key |-> "q", ip |-> "2"]
MCNeighborEntries == {P, Q, R}
MCNeighbors ==
    [{"bootstrap", "sample", "inbound", "outbound"} -> {<<>>, <<P>>, <<R, Q>>, <<P, R>>}]
=============================================================================
