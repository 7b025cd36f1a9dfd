------------------------ MODULE MetadataCacheTable ------------------------
(***************************************************************************)
(* MetadataCache implements MetadataTable: what the table knows is what    *)
(* the two caches hold, and a request is busy in all of its phases.        *)
(***************************************************************************)
EXTENDS MetadataCache

Table == INSTANCE MetadataTable WITH
    known <- [k \in Keys |-> cache[KindOf(k)].entry[k]],
    stage <- [r \in Requests |-> IF phase[r] = "idle" THEN "idle" ELSE "busy"],
    block <- items,
    next <- pos,
    told <- served,
    Unknown <- NoEntry

\* The two caches with their sizes, their order of use and the prefetch are, for those
\* who serialize blocks, one table that tells of a key what was fetched for it, as
\* long as that value deserves and once more, whatever the other requests do.
KeepsTheTable == Table!Spec
=============================================================================
