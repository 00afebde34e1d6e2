---------------------------- MODULE ProjectCache ----------------------------
(***************************************************************************)
(* The authorization cache of crates/application/src/projects.rs: lookups  *)
(* of DSN keys (cached, CacheState) against the commands that change what  *)
(* a key may do and invalidate it (set_key_state and the others).          *)
(*                                                                         *)
(* Lookups run on many threads.  One that misses reads the generation,     *)
(* joins the load under way for its key or starts one, waits for it, and   *)
(* caches the result if the generation is still the one it read.  A        *)
(* command changes the store, raises the generation and removes the key.   *)
(*                                                                         *)
(* A time to live is an entry that may expire at any moment.  The          *)
(* generation of an entry and of its records in the order only tell which  *)
(* record of a key is its last: that is what is modelled.                  *)
(***************************************************************************)
EXTENDS Integers, Sequences, FiniteSets, SequencesExt

CONSTANTS
    Keys,         \* DSN keys
    Callers,      \* tasks that look keys up, again and again
    Cells,        \* identities of OnceCells: positive numbers
    None,         \* no key, no cell
    Capacity,     \* ProjectCacheConfig.capacity
    MaxInflight,  \* ProjectCacheConfig.max_inflight
    Managed,      \* keys that commands change
    MaxChanges    \* bound: commands

\* The checks of ProjectService::new.  There are cells enough for the lookups.
ASSUME CacheAssumption ==
    /\ IsFiniteSet(Keys) /\ Keys # {} /\ IsFiniteSet(Callers)
    /\ Cells = 1..Cardinality(Callers) + MaxInflight
    /\ None \notin Cells \cup Keys
    /\ Managed \subseteq Keys
    /\ Capacity \in Nat \ {0}
    /\ MaxInflight \in Nat \ {0}
    /\ MaxChanges \in Nat

VARIABLES
    store,      \* store[k]: what load_project answers for k
    generation, \* cache_generation
    changes,    \* counts towards MaxChanges
    changed,    \* keys whose command has changed the store ...
    raised,     \* ... and those whose command has raised the generation as well
    revoked,    \* keys whose last command took their access and has returned
    entries,    \* entries[k]: the cached result, "none" if there is none
    expired,    \* keys whose entry is past its time to live
    shared,     \* keys whose entry was cached by a lookup that did not load it
    order,      \* the order records, oldest first
    inflight,   \* inflight[k]: the cell of the load under way
    value,      \* value[o]: what cell o has been set to, "none" before
    pc,         \* pc[c]: where the lookup of c is
    key,        \* key[c]: the key it looks up
    seen,       \* seen[c]: the generation it read
    cell,       \* cell[c]: the cell it waits for
    loaded      \* loaded[c]: what it read from the store itself, "none" if nothing

storeVars == <<store, generation, changes, changed, raised, revoked>>
cacheVars == <<entries, expired, shared, order>>
cellVars == <<inflight, value>>
callerVars == <<pc, key, seen, cell, loaded>>

vars == <<storeVars, cacheVars, cellVars, callerVars>>

\* Unauthorized and UnknownKey are cached alike; Unavailable never is.
Answers == {"active", "denied"}
Results == Answers \cup {"unavailable"}

Steps == {"idle", "joining", "waiting", "loading"}

TypeOK ==
    /\ store \in [Keys -> Answers]
    /\ generation \in 0..MaxChanges
    /\ changes \in 0..MaxChanges
    /\ changed \in SUBSET Keys
    /\ raised \in SUBSET Keys
    /\ revoked \in SUBSET Keys
    /\ entries \in [Keys -> Answers \cup {"none"}]
    /\ expired \in SUBSET Keys
    /\ shared \in SUBSET Keys
    /\ order \in Seq(Keys)
    /\ inflight \in [Keys -> Cells \cup {None}]
    /\ value \in [Cells -> Results \cup {"none"}]
    /\ pc \in [Callers -> Steps]
    /\ key \in [Callers -> Keys \cup {None}]
    /\ seen \in [Callers -> 0..MaxChanges]
    /\ cell \in [Callers -> Cells \cup {None}]
    /\ loaded \in [Callers -> Results \cup {"none"}]

Cached(e) == {k \in Keys : e[k] # "none"}

Loads == {k \in Keys : inflight[k] # None}

-----------------------------------------------------------------------------
(* CacheState *)

\* The keys whose last record is among the first n.
LastAmong(records, n) ==
    ToSet(SubSeq(records, 1, n)) \ ToSet(SubSeq(records, n + 1, Len(records)))

\* Mutant: insert lets the entries exceed the capacity by one.
EvictionsLate(records, cached) ==
    CHOOSE n \in 0..Len(records) :
        /\ Cardinality(cached \ LastAmong(records, n)) <= Capacity + 1
        /\ Len(records) - n <= 2 * Capacity
        /\ \A m \in 0..n - 1 :
            \/ Cardinality(cached \ LastAmong(records, m)) > Capacity + 1
            \/ Len(records) - m > 2 * Capacity

\* evict_oldest, as often as insert and trim_order call it: until the entries fit
\* and the records are no more than twice as many.
Evictions(records, cached) ==
    CHOOSE n \in 0..Len(records) :
        /\ Cardinality(cached \ LastAmong(records, n)) <= Capacity
        /\ Len(records) - n <= 2 * Capacity
        /\ \A m \in 0..n - 1 :
            \/ Cardinality(cached \ LastAmong(records, m)) > Capacity
            \/ Len(records) - m > 2 * Capacity

\* The cache after a new record for k, given its entries, and the keys of which
\* something is noted.
Record(k, e, old, others) ==
    LET records == Append(order, k)
        n == Evictions(records, Cached(e))
        evicted == LastAmong(records, n)
    IN  /\ order' = SubSeq(records, n + 1, Len(records))
        /\ entries' = [j \in Keys |-> IF j \in evicted THEN "none" ELSE e[j]]
        /\ expired' = old \ evicted
        /\ shared' = others \ evicted

\* The entry of k, if there is one, is removed.
RemoveEntry(k) ==
    /\ entries' = [entries EXCEPT ![k] = "none"]
    /\ expired' = expired \ {k}
    /\ shared' = shared \ {k}
    /\ UNCHANGED order

\* Time passes.
Expire(k) ==
    /\ entries[k] # "none"
    /\ k \notin expired
    /\ expired' = expired \cup {k}
    /\ UNCHANGED <<storeVars, entries, shared, order, cellVars, callerVars>>

-----------------------------------------------------------------------------
(* cached *)

Leave(c) ==
    /\ pc' = [pc EXCEPT ![c] = "idle"]
    /\ key' = [key EXCEPT ![c] = None]
    /\ seen' = [seen EXCEPT ![c] = 0]
    /\ cell' = [cell EXCEPT ![c] = None]
    /\ loaded' = [loaded EXCEPT ![c] = "none"]

\* A cell nobody refers to is freed.
FreeCells ==
    value' = [o \in Cells |->
                IF \/ \E d \in Callers : cell'[d] = o
                   \/ \E k \in Keys : inflight'[k] = o
                THEN value[o] ELSE "none"]

\* get finds an entry.
Hit(c, k) ==
    /\ pc[c] = "idle"
    /\ entries[k] # "none"
    /\ k \notin expired
    /\ Record(k, entries, expired, shared)
    /\ UNCHANGED <<storeVars, cellVars, callerVars>>

\* get finds none, or one that has expired, and the lookup reads the generation.  It
\* does so after it has released the lock, but what happens in between could as well
\* have happened before or after both.
Miss(c, k) ==
    /\ pc[c] = "idle"
    /\ entries[k] = "none" \/ k \in expired
    /\ RemoveEntry(k)
    /\ pc' = [pc EXCEPT ![c] = "joining"]
    /\ key' = [key EXCEPT ![c] = k]
    /\ seen' = [seen EXCEPT ![c] = generation]
    /\ UNCHANGED <<storeVars, cellVars, cell, loaded>>

\* A load for the key is under way.
Coalesce(c) ==
    /\ pc[c] = "joining"
    /\ key[c] \in Loads
    /\ cell' = [cell EXCEPT ![c] = inflight[key[c]]]
    /\ pc' = [pc EXCEPT ![c] = "waiting"]
    /\ UNCHANGED <<storeVars, cacheVars, cellVars, key, seen, loaded>>

\* There is none, and room for one.
Enter(c) ==
    /\ pc[c] = "joining"
    /\ key[c] \notin Loads
    /\ Cardinality(Loads) < MaxInflight
    /\ LET used == {cell[d] : d \in Callers} \cup {inflight[k] : k \in Keys}
           new == CHOOSE o \in Cells \ used : \A p \in Cells \ used : o <= p
       IN  /\ inflight' = [inflight EXCEPT ![key[c]] = new]
           /\ cell' = [cell EXCEPT ![c] = new]
    /\ pc' = [pc EXCEPT ![c] = "waiting"]
    /\ UNCHANGED <<storeVars, cacheVars, value, key, seen, loaded>>

\* There is none, and no room.
RejectCapacity(c) ==
    /\ pc[c] = "joining"
    /\ key[c] \notin Loads
    /\ Cardinality(Loads) >= MaxInflight
    /\ Leave(c)
    /\ UNCHANGED <<storeVars, cacheVars, cellVars>>

\* get_or_init lets one lookup of an unset cell load at a time.
Loading(o) == \E d \in Callers : pc[d] = "loading" /\ cell[d] = o

\* The store reads the key, or fails.
Load(c) ==
    /\ pc[c] = "waiting"
    /\ value[cell[c]] = "none"
    /\ ~Loading(cell[c])
    /\ \E r \in {store[key[c]], "unavailable"} : loaded' = [loaded EXCEPT ![c] = r]
    /\ pc' = [pc EXCEPT ![c] = "loading"]
    /\ UNCHANGED <<storeVars, cacheVars, cellVars, key, seen, cell>>

\* Its answer arrives and sets the cell.
Loaded(c) ==
    /\ pc[c] = "loading"
    /\ value' = [value EXCEPT ![cell[c]] = loaded[c]]
    /\ pc' = [pc EXCEPT ![c] = "waiting"]
    /\ UNCHANGED <<storeVars, cacheVars, inflight, key, seen, cell, loaded>>

\* Mutant: the generation is not compared.
CacheableAlways(c) == value[cell[c]] \in Answers

\* The result may be cached.
Cacheable(c) == generation = seen[c] /\ value[cell[c]] \in Answers

\* insert, for a result that may be cached.
CacheResult(c) ==
    \/ /\ Cacheable(c)
       /\ Record(key[c], [entries EXCEPT ![key[c]] = value[cell[c]]],
                 expired \ {key[c]},
                 IF loaded[c] = "none" THEN shared \cup {key[c]}
                                       ELSE shared \ {key[c]})
    \/ ~Cacheable(c) /\ UNCHANGED cacheVars

\* Mutant: a set cell stays in the map.
FinishStaying(c) ==
    /\ pc[c] = "waiting"
    /\ value[cell[c]] # "none"
    /\ CacheResult(c)
    /\ Leave(c)
    /\ UNCHANGED <<storeVars, cellVars>>

\* Mutant: whatever cell the map has for the key is removed.
FinishRemovingAny(c) ==
    /\ pc[c] = "waiting"
    /\ value[cell[c]] # "none"
    /\ CacheResult(c)
    /\ inflight' = [inflight EXCEPT ![key[c]] = None]
    /\ Leave(c)
    /\ FreeCells
    /\ UNCHANGED storeVars

\* The cell is set: the lookup caches the result, removes the cell if it is still
\* the one of its key, and returns.
Finish(c) ==
    /\ pc[c] = "waiting"
    /\ value[cell[c]] # "none"
    /\ CacheResult(c)
    /\ inflight' = [inflight EXCEPT ![key[c]] = IF @ = cell[c] THEN None ELSE @]
    /\ Leave(c)
    /\ FreeCells
    /\ UNCHANGED storeVars

\* The lookup is dropped while it awaits the cell or the store (the one that has set
\* the cell goes on without awaiting): the map keeps its cell, and a load it had
\* begun is gone.
CancelLookup(c) ==
    /\ pc[c] = "loading" \/ (pc[c] = "waiting" /\ loaded[c] = "none")
    /\ Leave(c)
    /\ UNCHANGED inflight
    /\ FreeCells
    /\ UNCHANGED <<storeVars, cacheVars>>

-----------------------------------------------------------------------------
(* Commands *)

\* The store applies a command; one that fails after that invalidates nothing.
Change(k, a) ==
    /\ k \in Managed \ (changed \cup raised)
    /\ changes < MaxChanges
    /\ changes' = changes + 1
    /\ store' = [store EXCEPT ![k] = a]
    /\ changed' \in {changed, changed \cup {k}}
    /\ revoked' = revoked \ {k}
    /\ UNCHANGED <<generation, raised, cacheVars, cellVars, callerVars>>

RaiseGeneration(k) ==
    /\ k \in changed
    /\ generation' = generation + 1
    /\ changed' = changed \ {k}
    /\ raised' = raised \cup {k}
    /\ UNCHANGED <<store, changes, revoked, cacheVars, cellVars, callerVars>>

\* The entry is removed, and the command returns.
Invalidate(k) ==
    /\ k \in raised
    /\ raised' = raised \ {k}
    /\ revoked' = IF store[k] = "denied" THEN revoked \cup {k} ELSE revoked
    /\ RemoveEntry(k)
    /\ UNCHANGED <<store, generation, changes, changed, cellVars, callerVars>>

-----------------------------------------------------------------------------

Init ==
    /\ store = [k \in Keys |-> "active"]
    /\ generation = 0
    /\ changes = 0
    /\ changed = {}
    /\ raised = {}
    /\ revoked = {}
    /\ entries = [k \in Keys |-> "none"]
    /\ expired = {}
    /\ shared = {}
    /\ order = <<>>
    /\ inflight = [k \in Keys |-> None]
    /\ value = [o \in Cells |-> "none"]
    /\ pc = [c \in Callers |-> "idle"]
    /\ key = [c \in Callers |-> None]
    /\ seen = [c \in Callers |-> 0]
    /\ cell = [c \in Callers |-> None]
    /\ loaded = [c \in Callers |-> "none"]

\* What a lookup does once it has begun.
Lookup(c) ==
    \/ Coalesce(c) \/ Enter(c) \/ RejectCapacity(c)
    \/ Load(c) \/ Loaded(c) \/ Finish(c)

Next ==
    \/ \E c \in Callers :
        \/ \E k \in Keys : Hit(c, k) \/ Miss(c, k)
        \/ Lookup(c) \/ CancelLookup(c)
    \/ \E k \in Keys :
        \/ Expire(k)
        \/ \E a \in Answers : Change(k, a)
        \/ RaiseGeneration(k) \/ Invalidate(k)

Spec == Init /\ [][Next]_vars

\* A lookup that has begun is polled and the store answers it (its driver has a
\* deadline); entries expire.  Nothing is assumed of commands.
Fairness ==
    /\ \A c \in Callers : WF_vars(Lookup(c))
    /\ \A k \in Keys : WF_vars(Expire(k))

FairSpec == Spec /\ Fairness

-----------------------------------------------------------------------------
(* Properties *)

\* A lookup that hits k is told that it may.
Grants(k) == entries[k] = "active" /\ k \notin expired

\* Entries, their records and the loads under way stay within their limits, and
\* every entry has a record: without one evict_oldest could not find it, and the
\* loop of insert would not end.
CacheBounded ==
    /\ Cardinality(Cached(entries)) <= Capacity
    /\ Cached(entries) \subseteq ToSet(order)
    /\ Len(order) <= 2 * Capacity
    /\ Cardinality(Loads) <= MaxInflight

\* The misses of a key share one load, also when the lookup that began it is
\* cancelled and another takes over (OnceCell, the ptr_eq before a cell is removed).
OneLoadPerKey ==
    \A c, d \in Callers :
        pc[c] = "loading" /\ pc[d] = "loading" /\ key[c] = key[d] => c = d

\* A lookup that loads its key itself never caches access that a command has taken
\* away and invalidated: it reads the generation before the store, and compares it
\* under the lock that the command takes after it raised the generation.
OwnLoadNotStale ==
    \A k \in revoked : Grants(k) => k \in shared

\* The time to live as the backstop: a key whose access is gone for good is in the end
\* not granted any more, whatever loads were under way and whatever command failed
\* before it invalidated.
RevocationTakesEffect ==
    \A k \in Managed : <>[](store[k] = "denied") => <>[]~Grants(k)

-----------------------------------------------------------------------------
(* The inductive invariant of the proofs *)

\* What a lookup holds at each of its steps.
LookupsConsistent ==
    \A c \in Callers :
        /\ pc[c] # "idle" => key[c] \in Keys
        /\ pc[c] \in {"idle", "joining"} => cell[c] = None /\ loaded[c] = "none"
        /\ pc[c] \in {"waiting", "loading"} => cell[c] \in Cells
        /\ pc[c] = "loading" => value[cell[c]] = "none" /\ loaded[c] # "none"
        /\ pc[c] = "waiting" /\ loaded[c] # "none" => value[cell[c]] = loaded[c]
        /\ seen[c] <= generation

\* A cell belongs to one key, is loaded by one lookup at a time, and stays in the map
\* until it is set.
CellsConsistent ==
    /\ \A c, d \in Callers : cell[c] = cell[d] /\ cell[c] # None => key[c] = key[d]
    /\ \A c \in Callers, k \in Keys :
        inflight[k] = cell[c] /\ cell[c] # None => key[c] = k
    /\ \A j, k \in Keys : inflight[j] = inflight[k] /\ inflight[j] # None => j = k
    /\ \A c \in Callers :
        cell[c] # None => value[cell[c]] # "none" \/ inflight[key[c]] = cell[c]
    /\ \A c, d \in Callers :
        pc[c] = "loading" /\ pc[d] = "loading" /\ cell[c] = cell[d] => c = d

\* A command that takes access away has raised the generation past the lookups that
\* loaded before it, by the time it invalidates.
OwnLoadsFresh ==
    /\ \A k \in revoked : store[k] = "denied"
    /\ \A c \in Callers :
        /\ loaded[c] = "active" /\ seen[c] = generation
        /\ key[c] \in raised \cup revoked
        => store[key[c]] = "active"
    /\ \A k \in revoked : entries[k] = "active" => k \in shared

\* Each raise of the generation is that of a command.
RaisesCounted == generation + Cardinality(changed) <= changes

ProjectCacheInv ==
    /\ TypeOK
    /\ LookupsConsistent /\ CellsConsistent
    /\ OwnLoadsFresh /\ RaisesCounted
    /\ CacheBounded

=============================================================================
