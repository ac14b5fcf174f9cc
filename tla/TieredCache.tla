------------------------------ MODULE TieredCache ------------------------------
(***************************************************************************)
(* MemoryCache and TieredCache of packages/core/src/cache.ts: a small      *)
(* cache in front of a larger one, both with expiry and eviction, and what *)
(* they are read through to.  A MemoryCache alone does what the second     *)
(* level does here.                                                        *)
(*                                                                         *)
(* All methods run in one turn but getOrSetAsync, which awaits the         *)
(* factory.  The values of a key are the versions of its source; whoever   *)
(* changes the source deletes the key in the same turn.                    *)
(***************************************************************************)
EXTENDS Naturals, FiniteSets, Sequences

CONSTANTS Keys,
          EmptyKey,     \* the key "", if it is one of them
          L1Size,       \* maxSize of the first level
          L2Size,       \* and of the second
          Policies,     \* the evictionPolicy options of both levels
          DefaultTtl,   \* defaultTtlMs of the first level
          Ttls,         \* the ttlMs of calls
          Loaders,      \* calls of getOrSetAsync under way
          Loadable,     \* the keys that are loaded with an await, from a source
                        \* that changes
          MaxChanges,   \* bound: changes of a key's source
          MaxUses,      \* bound: counted reads of an entry
          MaxTime,      \* bound: milliseconds that pass
          None

ASSUME CacheAssumption ==
    /\ L1Size \in Nat \ {0} /\ L2Size \in Nat \ {0}
    /\ Policies \subseteq {"fifo", "lfu", "lru"}
    /\ DefaultTtl \in Nat \ {0}
    /\ Ttls \subseteq Nat \ {0}
    /\ MaxChanges \in Nat /\ MaxUses \in Nat /\ MaxTime \in Nat
    /\ Loadable \subseteq Keys
    /\ IsFiniteSet(Keys)

VARIABLES level,     \* the entries and the insertOrder of both levels
          policy,    \* options.evictionPolicy
          now,       \* milliseconds
          source,    \* the version each key would be loaded in
          load,      \* the load each call awaits, or None
          raced      \* history: keys whose source changed during a load

vars == <<level, policy, now, source, load, raced>>

Version == 0..MaxChanges
\* The rank is what evict compares: accessCount for lfu, lastAccessedAt for lru.
\* until is history: when the value was to expire as it was set, before any
\* promotion.
Entry == [value: Version, expiresAt: Nat, rank: Nat, until: Nat]
Level == [entries: [Keys -> Entry \cup {None}], order: Seq(Keys)]
Load == [key: Loadable, ttl: Ttls, since: Version]

ASSUME NoneAssumption == None \notin Entry \cup Load

TypeOK ==
    /\ level \in [1..2 -> Level]
    /\ policy \in Policies
    /\ now \in 0..MaxTime
    /\ source \in [Keys -> Version]
    /\ load \in [Loaders -> Load \cup {None}]
    /\ raced \subseteq Keys

Size == <<L1Size, L2Size>>

EmptyLevel == [entries |-> [k \in Keys |-> None], order |-> <<>>]

Init ==
    /\ level = [n \in 1..2 |-> EmptyLevel]
    /\ policy \in Policies
    /\ now = 0
    /\ source = [k \in Keys |-> 0]
    /\ load = [l \in Loaders |-> None]
    /\ raced = {}

-----------------------------------------------------------------------------
(* One level.                                                              *)

Held(c) == {k \in Keys : c.entries[k] # None}
Expired(c, k) == k \in Held(c) /\ now >= c.entries[k].expiresAt
Live(c, k) == k \in Held(c) /\ ~Expired(c, k)

\* What is left of an order, written out because nothing can be proved about
\* SelectSeq.
Remaining(order, ks) ==
    LET rest[i \in 0..Len(order)] ==
          IF i = 0 THEN <<>>
          ELSE IF order[i] \in ks THEN rest[i - 1]
          ELSE Append(rest[i - 1], order[i])
    IN  rest[Len(order)]

\* A mistake in Without.
WithoutEntries(c, ks) ==
    [c EXCEPT !.entries = [k \in Keys |-> IF k \in ks THEN None ELSE c.entries[k]]]

\* The level without the keys ks, held or not.
Without(c, ks) ==
    [entries |-> [k \in Keys |-> IF k \in ks THEN None ELSE c.entries[k]],
     order |-> Remaining(c.order, ks)]

DropExpired(c, k) == IF Expired(c, k) THEN Without(c, {k}) ELSE c

\* What get does to a level.
Touched(c, k) ==
    IF Live(c, k)
    THEN [c EXCEPT !.entries[k].rank = CASE policy = "lfu"  -> @ + 1
                                         [] policy = "lru"  -> now
                                         [] policy = "fifo" -> @]
    ELSE DropExpired(c, k)

\* The key evict chooses; of several of the lowest rank, the code takes the one
\* that was inserted first.
Victims(c) ==
    IF policy = "fifo" THEN {Head(c.order)}
    ELSE {k \in Held(c) : \A j \in Held(c) : c.entries[k].rank <= c.entries[j].rank}

\* The empty string is no key to evict.
Evicted(c) == {Without(c, {k} \ {EmptyKey}) : k \in Victims(c)}

\* A mistake in Full.
FullLate(c, n) == Cardinality(Held(c)) > Size[n]

Full(c, n) == Cardinality(Held(c)) >= Size[n]

\* What set makes of c, the level n.
Stored(c, n, k, v, ttl, until) ==
    {[entries |-> [d.entries EXCEPT ![k] =
        [value |-> v, expiresAt |-> now + ttl, until |-> until,
         rank |-> IF policy = "lru" THEN now ELSE 0]],
      order |-> IF k \in Held(d) THEN d.order ELSE Append(d.order, k)] :
       d \in IF k \notin Held(c) /\ Full(c, n) THEN Evicted(c) ELSE {c}}

-----------------------------------------------------------------------------
(* Both levels.                                                            *)

\* The entry a get of k finds.
Readable(k) ==
    CASE Live(level[1], k) -> level[1].entries[k]
      [] ~Live(level[1], k) /\ Live(level[2], k) -> level[2].entries[k]
      [] OTHER -> None

MayUse(k) ==
    \A n \in 1..2 :
       Live(level[n], k) => policy # "lfu" \/ level[n].entries[k].rank < MaxUses

\* A mistake in Promoted: both levels are set.
PromotedToBoth(k) ==
    LET c1 == DropExpired(level[1], k)
        c2 == Touched(level[2], k)
        e == level[2].entries[k]
    IN  {<<d1, d2>> : d1 \in Stored(c1, 1, k, e.value, DefaultTtl, e.until),
                      d2 \in Stored(c2, 2, k, e.value, DefaultTtl, e.until)}

\* A value found in the second level only is set in the first, for its default
\* time.
Promoted(k) ==
    LET c1 == DropExpired(level[1], k)
        e == level[2].entries[k]
    IN  {<<d, Touched(level[2], k)>> :
           d \in Stored(c1, 1, k, e.value, DefaultTtl, e.until)}

Get(k) ==
    /\ MayUse(k)
    /\ CASE Live(level[1], k) ->
              level' = [level EXCEPT ![1] = Touched(@, k)]
         [] ~Live(level[1], k) /\ Live(level[2], k) ->
              level' \in Promoted(k)
         [] OTHER ->
              level' = [n \in 1..2 |-> DropExpired(level[n], k)]

\* A mistake in SetIn: the second level keeps what it has.
SetInMissing(c, k, v, ttl) ==
    \E d1 \in Stored(c[1], 1, k, v, ttl, now + ttl),
       d2 \in Stored(c[2], 2, k, v, ttl, now + ttl) :
         level' = <<d1, IF Live(c[2], k) THEN c[2] ELSE d2>>

\* Both levels are set, after a get if there was one.
SetIn(c, k, v, ttl) ==
    \E d1 \in Stored(c[1], 1, k, v, ttl, now + ttl),
       d2 \in Stored(c[2], 2, k, v, ttl, now + ttl) : level' = <<d1, d2>>

Read(k) ==
    /\ Get(k)
    /\ UNCHANGED <<policy, now, source, load, raced>>

\* has looks at the second level only if the first has no live entry.
HasKey(k) ==
    /\ level' = [n \in 1..2 |-> IF n = 2 /\ Live(level[1], k) THEN level[n]
                                ELSE DropExpired(level[n], k)]
    /\ UNCHANGED <<policy, now, source, load, raced>>

\* Whoever sets a key sets what the source has.
Set(k, ttl) ==
    /\ SetIn(level, k, source[k], ttl)
    /\ UNCHANGED <<policy, now, source, load, raced>>

\* getOrSet and wrap of a key that is not to be had.
GetOrSet(k, ttl) ==
    /\ Readable(k) = None
    /\ SetIn([n \in 1..2 |-> DropExpired(level[n], k)], k, source[k], ttl)
    /\ UNCHANGED <<policy, now, source, load, raced>>

\* getOrSetAsync of a key that is not to be had, up to its await.
GetOrSetAsync(l, k, ttl) ==
    /\ load[l] = None
    /\ Readable(k) = None
    /\ Get(k)
    /\ load' = [load EXCEPT ![l] = [key |-> k, ttl |-> ttl, since |-> source[k]]]
    /\ UNCHANGED <<policy, now, source, raced>>

\* A mistake in LoadedSince.
LoadedAhead(k, since) == since..source[k] + 1

\* The factory may have read its source at any time since it was called.
LoadedSince(k, since) == since..source[k]

\* The factory ends, or fails.
Loaded(l) ==
    /\ load[l] # None
    /\ load' = [load EXCEPT ![l] = None]
    /\ \/ \E v \in LoadedSince(load[l].key, load[l].since) :
            SetIn(level, load[l].key, v, load[l].ttl)
       \/ UNCHANGED level
    /\ UNCHANGED <<policy, now, source, raced>>

\* A mistake in Removed.
RemovedFromFirst(ks) == [level EXCEPT ![1] = Without(@, ks)]

Removed(ks) == [n \in 1..2 |-> Without(level[n], ks)]

\* delete, invalidate and clear, of keys whose sources may have changed.
Invalidate(ks, changed) ==
    /\ level' = Removed(ks)
    /\ source' = [k \in Keys |-> IF k \in changed THEN source[k] + 1 ELSE source[k]]
    /\ raced' = {k \in Keys :
                   IF k \in ks
                   THEN /\ k \in raced \cup changed
                        /\ \E l \in Loaders : load[l] # None /\ load[l].key = k
                   ELSE k \in raced}
    /\ UNCHANGED <<policy, now, load>>

Prune ==
    /\ level' = [n \in 1..2 |->
                   Without(level[n], {k \in Keys : Expired(level[n], k)})]
    /\ UNCHANGED <<policy, now, source, load, raced>>

Tick ==
    /\ now < MaxTime
    /\ now' = now + 1
    /\ UNCHANGED <<level, policy, source, load, raced>>

Next ==
    \/ \E k \in Keys :
         \/ Read(k) \/ HasKey(k)
         \/ \E ttl \in Ttls :
              \/ Set(k, ttl) \/ GetOrSet(k, ttl)
              \/ k \in Loadable /\ \E l \in Loaders : GetOrSetAsync(l, k, ttl)
    \/ \E l \in Loaders : Loaded(l)
    \/ \E ks \in SUBSET Keys :
         \E changed \in SUBSET {k \in ks \cap Loadable : source[k] < MaxChanges} :
           Invalidate(ks, changed)
    \/ Prune
    \/ Tick

Spec == Init /\ [][Next]_vars

-----------------------------------------------------------------------------
(* Properties.                                                             *)

\* insertOrder, from which fifo evicts, names each key of the level once, after
\* every mixture of expiry, eviction, overwriting and deletion.
OrderExact ==
    \A n \in 1..2 :
      /\ {level[n].order[i] : i \in DOMAIN level[n].order} = Held(level[n])
      /\ Len(level[n].order) = Cardinality(Held(level[n]))

\* A level that is full grows only while it holds the empty string as a key,
\* which evict never removes.
OnlyEmptyKeyOverflows ==
    [][\A n \in 1..2 :
         /\ Cardinality(Held(level'[n])) > Size[n]
         /\ Cardinality(Held(level'[n])) > Cardinality(Held(level[n]))
         => EmptyKey \in Held(level[n])]_vars

\* maxSize is the "Maximum number of entries".
SizeRespected == \A n \in 1..2 : Cardinality(Held(level[n])) <= Size[n]

\* Promotion prolongs the life of an entry, by less than the first level's
\* default time and never twice: however often a key moves between the levels,
\* nothing is read longer after the time it was set for.
StaleBounded ==
    \A k \in Keys : Readable(k) # None =>
      \/ now < Readable(k).until
      \/ now + 1 < Readable(k).until + DefaultTtl

\* Nothing is read after the time it was set for.
TtlRespected == \A k \in Keys : Readable(k) # None => now < Readable(k).until

\* What can be read is the source's present version, unless the source changed
\* while a load of it was under way.
OnlyRacingLoadServesStale ==
    \A k \in Keys :
      Readable(k) # None => Readable(k).value = source[k] \/ k \in raced

\* The levels never disagree about a key both can serve, so that what is read
\* does not depend on what was evicted.
LevelsAgree ==
    \A k \in Keys :
      Live(level[1], k) /\ Live(level[2], k) =>
        level[1].entries[k].value = level[2].entries[k].value

\* The state of both levels is typed, each evicts in the order of its policy,
\* and a level that is asked first never differs from the one behind it but by
\* what the code lets it keep.
CacheConsistent == TypeOK /\ OrderExact /\ LevelsAgree
=============================================================================
