------------------------------ MODULE AtomicMap ------------------------------
(***************************************************************************)
(* What a store on disk promises: a map of which one call changes one key. *)
(***************************************************************************)
CONSTANTS Keys, Values, NoValue
VARIABLE map

MapInit == map = [k \in Keys |-> NoValue]

Put(k, v) == map' = [map EXCEPT ![k] = v]

Delete(k) == map' = [map EXCEPT ![k] = NoValue]

MapNext == \E k \in Keys : Delete(k) \/ \E v \in Values : Put(k, v)

MapSpec == MapInit /\ [][MapNext]_map
=============================================================================
