----------------------------- MODULE ContextServices -----------------------------
(***************************************************************************)
(* The parts of context/ that remember: the evidence cache with its two    *)
(* indexes (cache.py), the registry of conflicts (conflict.py), the        *)
(* compression lineage (compression.py, with compress of                   *)
(* token_budgeter.py) and the plans a query planner keeps                  *)
(* (query_planner.py).  Every method is synchronous.                       *)
(*                                                                         *)
(* A cache key stands for the eight parts of cache_key; a demand for the   *)
(* inputs of one plan, of which identity is what the planner's key hashes; *)
(* a source of a conflict for the reference with the version it is of.     *)
(***************************************************************************)
EXTENDS Integers, FiniteSets, Sequences

CONSTANTS
  CacheKeys,
  SourceRefs,
  ScopeRefs,
  Claims,
  ClaimTexts,   \* statements of conflicts
  Identities,   \* planner: query, principal, purpose, scope, sources, policy, deadline
  Wants,        \* planner: run, freshness, citation and budget, which the key leaves out
  MaxHints,     \* bound: query hints of a demand
  MaxIntents,   \* QueryPlanner.max_intents
  MaxDepth,     \* CompressionLineage.max_depth
  MaxClock      \* bound of the clock

ASSUME ContextAssumption ==
  /\ MaxIntents \in Nat \ {0}
  /\ MaxDepth \in Nat
  /\ MaxHints \in Nat
  /\ MaxClock \in Nat

VARIABLES
  entries,      \* InMemoryContextCache._entries
  by_source,    \* keys under each source
  by_scope,     \* keys under each scope
  clock,
  conflicts,    \* ConflictRegistry._conflicts
  depth,        \* number of records of the lineage
  plans         \* QueryPlanner._plan_cache

cacheVars == <<entries, by_source, by_scope, clock>>
contextVars == <<entries, by_source, by_scope, clock, conflicts, depth, plans>>

NoEntry == [sources |-> {}, scope |-> "none", expires |-> 0]

Evidence == [sources : SUBSET SourceRefs, scope : ScopeRefs, expires : 1 .. MaxClock + 1]

NoConflict == [sources |-> {}, statement |-> "none"]

ClaimConflicts == [sources : (SUBSET SourceRefs) \ {{}}, statement : ClaimTexts]

NoPlan == [intents |-> 0, want |-> "none"]

Plans == [intents : 1 .. MaxIntents, want : Wants]

ContextTypeOK ==
  /\ entries \in [CacheKeys -> Evidence \union {NoEntry}]
  /\ by_source \in [SourceRefs -> SUBSET CacheKeys]
  /\ by_scope \in [ScopeRefs -> SUBSET CacheKeys]
  /\ clock \in 0 .. MaxClock
  /\ conflicts \in [Claims -> ClaimConflicts \union {NoConflict}]
  /\ depth \in 0 .. (IF MaxDepth < 2 THEN 2 ELSE MaxDepth)
  /\ plans \in [Identities -> Plans \union {NoPlan}]

ContextInit ==
  /\ entries = [key \in CacheKeys |-> NoEntry]
  /\ by_source = [source \in SourceRefs |-> {}]
  /\ by_scope = [scope \in ScopeRefs |-> {}]
  /\ clock = 0
  /\ conflicts = [claim \in Claims |-> NoConflict]
  /\ depth = 0
  /\ plans = [identity \in Identities |-> NoPlan]

-----------------------------------------------------------------------------
(* _remove, of several keys.                                               *)
Removed(keys) ==
  /\ entries' = [key \in CacheKeys |-> IF key \in keys THEN NoEntry ELSE entries[key]]
  /\ by_source' = [source \in SourceRefs |-> by_source[source] \ keys]
  /\ by_scope' = [scope \in ScopeRefs |-> by_scope[scope] \ keys]

(* get serves an entry before its end, and removes it from then on.        *)
GetExpired(key) ==
  /\ entries[key] # NoEntry
  /\ clock >= entries[key].expires
  /\ Removed({key})
  /\ UNCHANGED <<clock, conflicts, depth, plans>>

(* Mutant: a key that is there already is not indexed again.               *)
PutIndexedOnce(key, evidence) ==
  /\ entries' = [entries EXCEPT ![key] = evidence]
  /\ by_source' = [source \in SourceRefs |->
       IF source \in evidence.sources /\ entries[key] = NoEntry
         THEN by_source[source] \union {key} ELSE by_source[source]]
  /\ by_scope' = [by_scope EXCEPT ![evidence.scope] = @ \union {key}]
  /\ UNCHANGED <<clock, conflicts, depth, plans>>

(* put overwrites the entry and adds to the indexes; what the old entry    *)
(* was indexed by stays.                                                   *)
Put(key, evidence) ==
  /\ entries' = [entries EXCEPT ![key] = evidence]
  /\ by_source' = [source \in SourceRefs |-> IF source \in evidence.sources
                                               THEN by_source[source] \union {key}
                                               ELSE by_source[source]]
  /\ by_scope' = [by_scope EXCEPT ![evidence.scope] = @ \union {key}]
  /\ UNCHANGED <<clock, conflicts, depth, plans>>

InvalidateSource(source) ==
  /\ Removed(by_source[source])
  /\ UNCHANGED <<clock, conflicts, depth, plans>>

InvalidateScope(scope) ==
  /\ Removed(by_scope[scope])
  /\ UNCHANGED <<clock, conflicts, depth, plans>>

ClockTicks ==
  /\ clock < MaxClock
  /\ clock' = clock + 1
  /\ UNCHANGED <<entries, by_source, by_scope, conflicts, depth, plans>>

-----------------------------------------------------------------------------
(* register: a statement that differs is merged under the one that was     *)
(* there first; an equal one replaces the record, and its sources.         *)
Merged(old, new) ==
  IF old # NoConflict /\ old.statement # new.statement
    THEN [sources |-> old.sources \union new.sources, statement |-> old.statement]
    ELSE new

RegisterConflict(claim, conflict) ==
  /\ conflicts' = [conflicts EXCEPT ![claim] = Merged(@, conflict)]
  /\ UNCHANGED <<entries, by_source, by_scope, clock, depth, plans>>

(* compress: at the reference depth the lineage is cleared and begins with *)
(* one record made from the authoritative inputs.                          *)
Compress ==
  /\ depth' = IF depth >= MaxDepth THEN 2 ELSE depth + 1
  /\ UNCHANGED <<entries, by_source, by_scope, clock, conflicts, plans>>

-----------------------------------------------------------------------------
(* Mutant: the limit counts the hints only.                                *)
PlannedBeyond(hints, want) ==
  [intents |-> 1 + IF hints < MaxIntents THEN hints ELSE MaxIntents, want |-> want]

(* plan: the goal and each hint make an intent, up to the limit.           *)
Planned(hints, want) ==
  [intents |-> IF hints + 1 < MaxIntents THEN hints + 1 ELSE MaxIntents, want |-> want]

(* A plan made before for the same key is returned, whatever is wanted of  *)
(* this one.                                                               *)
Plan(identity, hints, want) ==
  /\ plans[identity] = NoPlan
  /\ plans' = [plans EXCEPT ![identity] = Planned(hints, want)]
  /\ UNCHANGED <<entries, by_source, by_scope, clock, conflicts, depth>>

CacheNext ==
  \/ \E key \in CacheKeys : \/ GetExpired(key)
                            \/ \E evidence \in Evidence : Put(key, evidence)
  \/ \E source \in SourceRefs : InvalidateSource(source)
  \/ \E scope \in ScopeRefs : InvalidateScope(scope)
  \/ ClockTicks

RecordNext ==
  \/ \E claim \in Claims, conflict \in ClaimConflicts : RegisterConflict(claim, conflict)
  \/ Compress
  \/ \E identity \in Identities, hints \in 0 .. MaxHints, want \in Wants :
       Plan(identity, hints, want)

ContextNext == CacheNext \/ RecordNext

ContextSpec == ContextInit /\ [][ContextNext]_contextVars

-----------------------------------------------------------------------------
(* RAG-007 and RAG-008: however entries were put, replaced, expired and    *)
(* removed, each entry is filed under its scope and under every source it  *)
(* was built from, so that to invalidate one of them reaches it.           *)
InvalidationReaches ==
  \A key \in CacheKeys : entries[key] # NoEntry =>
    /\ key \in by_scope[entries[key].scope]
    /\ \A source \in entries[key].sources : key \in by_source[source]

(* CTX-006: a later registration neither takes a conflict off the registry *)
(* nor makes it say something else, and one that says something else keeps *)
(* the sources of both.  (One that says the same replaces the record, and  *)
(* with it the sources it had: conflict.py 38.)                            *)
ConflictsStand ==
  [][\A claim \in Claims : conflicts[claim] # NoConflict =>
       /\ conflicts'[claim].statement = conflicts[claim].statement
       /\ \A conflict \in ClaimConflicts : RegisterConflict(claim, conflict) =>
            \/ conflict.statement = conflicts[claim].statement
            \/ conflicts[claim].sources \union conflict.sources
                 \subseteq conflicts'[claim].sources]_conflicts
=============================================================================
