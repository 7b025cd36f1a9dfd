-------------------------- MODULE MCMetadataCache --------------------------
(* Two tokens, one of them without get-decimals, and a contract.        *)
EXTENDS MetadataCacheTable

CONSTANTS t1, t2, k1, r1, r2

MCBroken == [k \in {t1, t2, k1} |-> IF k = t2 THEN {"get-decimals"} ELSE {}]
\* Keys repeat within a block, and the second block overflows a one-entry cache.
MCBlocks == {<<k1, t1, t1>>, <<t1, t2, t1>>}
MCSmallBlocks == {<<k1, t2, t2>>}
=============================================================================
