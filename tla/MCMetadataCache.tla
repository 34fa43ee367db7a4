-------------------------- MODULE MCMetadataCache --------------------------
(* One item of the cache, two callers and three loads. *)
EXTENDS MetadataCache, TLC

CONSTANTS t1, t2, l1, l2, l3

\* A list that is not kept in a file, and a version of the game.
MCItems == {[expires |-> TRUE, hashed |-> FALSE, cached |-> FALSE],
            [expires |-> FALSE, hashed |-> TRUE, cached |-> TRUE]}

MCTask == {t1, t2}
MCLoad == {l1, l2, l3}
=============================================================================
