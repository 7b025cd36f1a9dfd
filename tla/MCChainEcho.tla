--------------------------- MODULE MCChainEcho ----------------------------
(* ChainReads with clients that echo: shown holds every block identifier   *)
(* the API has answered with.                                              *)
EXTENDS MCChainReads

VARIABLE shown

EchoInit == Init /\ shown = {}
EchoNext ==
    /\ Next
    /\ shown' = shown \cup {answer'[c].id : c \in {x \in Clients : AnsweredOk(x)'}}
EchoSpec == EchoInit /\ [][EchoNext]_<<vars, shown>>

\* README.md:93: "the API's own responses always include both index and hash, so
\* echoing an identifier back always works".
EchoAlwaysWorks ==
    \A c \in Clients :
        /\ Answered(c) /\ ~answer[c].ok
        /\ [index |-> ask[c].index, hash |-> ask[c].hash] \in shown
        => answer[c].code \notin {"blockNotFound", "invalidBlockIdentifier"}
=============================================================================
