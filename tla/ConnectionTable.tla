--------------------------- MODULE ConnectionTable ---------------------------
(***************************************************************************)
(* What the connection manager promises its callers: every id opens at     *)
(* most once and closes at most once, and get, list and status show        *)
(* exactly the ids that are open.                                          *)
(***************************************************************************)
CONSTANT Ids
VARIABLE table          \* id -> "fresh" | "open" | "closed"

TableInit == table = [id \in Ids |-> "fresh"]

Open(id) ==
    /\ table[id] = "fresh"
    /\ table' = [table EXCEPT ![id] = "open"]

Close(id) ==
    /\ table[id] = "open"
    /\ table' = [table EXCEPT ![id] = "closed"]

TableNext == \E id \in Ids : Open(id) \/ Close(id)

TableSpec == TableInit /\ [][TableNext]_table
=============================================================================
