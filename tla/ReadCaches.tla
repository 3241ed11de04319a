----------------------------- MODULE ReadCaches -----------------------------
(***************************************************************************)
(* Two caches in front of one vault's row: the Redis entry vault:<id>      *)
(* (cache/redis.ts, services/vault.ts) and the copy of the last anonymous  *)
(* answer kept in memory for database outages (staleResponse.ts).  A body  *)
(* is the version of the row it was read from and the time it has spent in *)
(* caches since.  The indexer deletes the Redis entry inside the           *)
(* transaction that changes the row, so before the change is visible.      *)
(***************************************************************************)
EXTENDS Integers

CONSTANTS Ttl,       \* TTL_BY_STATE, in Redis
          Fresh,     \* FRESH_MAX_AGE_SECONDS
          StaleTtl   \* staleTtlSeconds
ASSUME CacheAssumption == Ttl \in Nat \ {0} /\ Fresh \in Nat \ {0} /\ StaleTtl \in Nat

VARIABLES now,
          up,       \* which of "db" and "redis" answer
          version,  \* of the committed row
          writing,  \* a transaction of the indexer has deleted the entry
          entry,    \* in Redis
          copy      \* in memory, by URL
cacheVars == <<version, writing, entry, copy>>

Empty == [version |-> 0, age |-> 0, at |-> 0, until |-> 0]
CacheInit == /\ now = 0 /\ up = {"db", "redis"} /\ version = 1 /\ writing = FALSE
             /\ entry = Empty /\ copy = Empty

Keep(body, ttl) == [version |-> body.version, age |-> body.age, at |-> now, until |-> now + ttl]
Body(kept) == [version |-> kept.version, age |-> kept.age + (now - kept.at)]

\* cacheGet, cacheSet, cacheDel: without Redis nothing is found, kept or deleted.
Cached == "redis" \in up /\ now < entry.until
CacheSet(body) == entry' = IF "redis" \in up THEN Keep(body, Ttl) ELSE entry
CacheDel == entry' = IF "redis" \in up THEN Empty ELSE entry

\* staleTtlSeconds of zero switches the copies off.
RememberStaleResponse(body) == copy' = IF StaleTtl = 0 THEN copy ELSE Keep(body, Fresh + StaleTtl)
HasStaleResponse == now < copy.until

-----------------------------------------------------------------------------
\* The indexer changes the row; handleVaultStateChanged deletes no entry.
InvalidateVault ==
  /\ "db" \in up /\ ~writing /\ writing' = TRUE
  /\ CacheDel
  /\ UNCHANGED <<now, up, version, copy>>
CommitVault ==
  /\ "db" \in up /\ version' = version + 1 /\ writing' = FALSE
  /\ UNCHANGED <<now, up, entry, copy>>

ServiceFails(s) == s \in up /\ up' = up \ {s} /\ UNCHANGED <<now, cacheVars>>
ServiceReturns(s) == s \notin up /\ up' = up \cup {s} /\ UNCHANGED <<now, cacheVars>>
=============================================================================
