------------------------ MODULE ChainReadsConsistent ------------------------
(***************************************************************************)
(* ChainReads implements ConsistentReads.  The variables the abstract      *)
(* specification needs, the looks at the node that a request may have had  *)
(* and the answers that they give, are history, and are kept beside the    *)
(* handlers here.                                                          *)
(***************************************************************************)
EXTENDS ChainReads

VARIABLES looks, may

history == <<looks, may>>

Reads == INSTANCE ConsistentReads WITH
    phase <- [c \in Clients |-> IF Waiting(c) THEN "pending" ELSE stage[c]],
    asked <- ask,
    reply <- answer

\* A waiting request remembers what the node would have answered in every state
\* since it came.
Remember ==
    /\ looks' = [c \in Clients |->
                   IF ~Waiting(c)' THEN {}
                   ELSE Reads!Looks(ask'[c], IF Waiting(c) THEN looks[c] ELSE {},
                                    Reads!TipLook')]
    /\ may' = [c \in Clients |->
                 IF ~Waiting(c)' THEN {}
                 ELSE (IF Waiting(c) THEN may[c] ELSE {})
                        \cup Reads!Answers(ask[c], looks[c])']

RememberInit ==
    /\ Init
    /\ looks = [c \in Clients |-> {}]
    /\ may = [c \in Clients |-> {}]
RememberNext == Next /\ Remember
RememberSpec == RememberInit /\ [][RememberNext]_<<vars, history>>
FairRememberSpec == RememberSpec /\ \A c \in Clients : WF_vars(Handle(c))

\* A request that names a block is answered as by a single look at the node between
\* request and answer, although its handler asks the node up to three times and the
\* node moves in between; one about the tip (/network/status, /account/balance
\* without block) as by two, the sync status with the height of the first.
ReadsAreConsistent == Reads!Spec
=============================================================================
