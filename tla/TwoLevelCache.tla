--------------------------- MODULE TwoLevelCache ---------------------------
(***************************************************************************)
(* The two-level Spring cache of common/cache: one Caffeine map per node   *)
(* (L1) in front of one Redis map shared by every node (L2).  Each operator*)
(* is one remote or local call, so that the callers of @Cacheable and      *)
(* @CacheEvict interleave between the two levels as the code lets them.    *)
(*                                                                         *)
(* Values are whatever the user of the module puts; NoEntry is a miss.  The*)
(* TTLs (60 s / 5 min for "accounts") are a nondeterministic expiry.       *)
(***************************************************************************)
CONSTANTS Nodes,      \* instances of the service, one L1 each
          Keys,       \* cache keys
          NoEntry     \* what a lookup answers on a miss

VARIABLES l1,         \* l1[m][k]: the Caffeine entry of node m
          l2          \* l2[k]: the Redis entry "<cacheName>::<key>"

cacheState == <<l1, l2>>

-----------------------------------------------------------------------------
CacheTypeOK(Values) ==
  /\ l1 \in [Nodes -> [Keys -> Values \cup {NoEntry}]]
  /\ l2 \in [Keys -> Values \cup {NoEntry}]

EmptyL1 == [k \in Keys |-> NoEntry]

CacheInit == l1 = [m \in Nodes |-> EmptyL1] /\ l2 = EmptyL1

-----------------------------------------------------------------------------
PutL1(m, k, v) == l1' = [l1 EXCEPT ![m] = [@ EXCEPT ![k] = v]] /\ UNCHANGED l2

PutL2(k, v) == l2' = [l2 EXCEPT ![k] = v] /\ UNCHANGED l1

EvictL1(m, k) == PutL1(m, k, NoEntry)

EvictL2(k) == PutL2(k, NoEntry)

\* A restarted node comes back with an empty Caffeine map.
RestartL1(m) == l1' = [l1 EXCEPT ![m] = EmptyL1] /\ UNCHANGED l2

ExpireL1(m, k) == l1[m][k] # NoEntry /\ EvictL1(m, k)

ExpireL2(k) == l2[k] # NoEntry /\ EvictL2(k)

CacheExpires == \/ \E m \in Nodes, k \in Keys : ExpireL1(m, k)
                \/ \E k \in Keys : ExpireL2(k)
=============================================================================
