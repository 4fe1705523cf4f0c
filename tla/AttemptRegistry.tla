--------------------------- MODULE AttemptRegistry ---------------------------
(***************************************************************************)
(* ConnectionAttemptRegistry (crates/registry/src/connection_registry.rs): *)
(* one u64 generation counter per connection id.  Each method of the Rust  *)
(* type is one critical section of one mutex, so each is one operator on   *)
(* the generation map; the modules that use the registry put them in their *)
(* actions.                                                                *)
(*                                                                         *)
(* GenModulus stands for 2^64: wrapping_add(1) is addition modulo it.      *)
(***************************************************************************)
EXTENDS Integers

CONSTANTS Ids,          \* connection ids (UUIDs)
          GenModulus    \* number of values of the generation counter

ASSUME GenModulusAssumption == GenModulus \in Nat /\ GenModulus > 1

Generation == 0 .. GenModulus - 1

\* The map has no entry for the id.
NoGeneration == -1

\* generations: HashMap::new()
EmptyGenerations == [id \in Ids |-> NoGeneration]

\* map_or(1, |generation| generation.wrapping_add(1))
NextGeneration(g) == IF g = NoGeneration THEN 1 ELSE (g + 1) % GenModulus

\* The map after begin(id); the token minted carries the entry's new value.
AfterBegin(gens, id) == [gens EXCEPT ![id] = NextGeneration(gens[id])]

\* Mutant: a cancelled attempt keeps the current generation.
InvalidateLost(gens, id) == gens

\* The map after invalidate(id).
AfterInvalidate(gens, id) == [gens EXCEPT ![id] = NextGeneration(gens[id])]

\* The map after forget(id).
AfterForget(gens, id) == [gens EXCEPT ![id] = NoGeneration]

\* is_current(token): the map's entry is the token's generation.
IsCurrent(gens, id, generation) == gens[id] = generation

=============================================================================
