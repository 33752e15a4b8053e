--------------------------- MODULE MCCacheCluster ---------------------------
(* Node 0 looks for its peers, one of which is modelled in detail, on a    *)
(* ring of seven hashes; virtual nodes of peers 1 and 2 collide.           *)
EXTENDS CacheCluster, TLC

MCVHash ==
    (0 :> {0, 4}) @@ (1 :> {1, 5}) @@ (2 :> {3, 5})
=============================================================================
