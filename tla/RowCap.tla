------------------------------- MODULE RowCap -------------------------------
(***************************************************************************)
(* How execute_user_query collects rows under a cap, in the four shapes    *)
(* the drivers use:                                                        *)
(*                                                                         *)
(*   portal    PostgreSQL: fetches of at most BatchSize rows from a portal *)
(*   lines     ClickHouse SELECT: JSONEachRow lines out of body chunks     *)
(*   buffered  ClickHouse DDL/DML and Redis commands: all, then truncate   *)
(*   scan      Redis stream_rows: SCAN pages under EMERGENCY_MAX           *)
(*                                                                         *)
(* A result is the first `rows` of the `total` rows the statement has.     *)
(***************************************************************************)
EXTENDS Naturals

CONSTANTS EmergencyMax, \* RowLimits::EMERGENCY_MAX
          BatchSize,    \* PORTAL_BATCH_SIZE
          Totals,       \* sizes of result sets
          Requested,    \* row_cap arguments
          NoCap         \* row_cap: None

ASSUME RowCapAssumption ==
    /\ EmergencyMax \in Nat \ {0}
    /\ BatchSize \in Nat \ {0}
    /\ Totals \subseteq Nat
    /\ Requested \subseteq Nat \cup {NoCap}
    /\ NoCap \notin Nat

Paths == {"portal", "lines", "buffered", "scan"}

VARIABLES path,         \* which of the four
          row_cap,      \* what the caller asked for
          total,        \* rows the statement has
          rows,         \* rows collected
          arrived,      \* lines: rows that came in with their newline
          executed,     \* the server ran the statement
          is_truncated,
          outcome       \* of the call

vars == <<path, row_cap, total, rows, arrived, executed, is_truncated, outcome>>

Smaller(a, b) == IF a <= b THEN a ELSE b

\* row_cap.unwrap_or(EMERGENCY_MAX).min(EMERGENCY_MAX)
Clamped(r) == IF r = NoCap THEN EmergencyMax ELSE Smaller(r, EmergencyMax)

\* Redis stream_rows takes no cap of its own.
cap == IF path = "scan" THEN EmergencyMax ELSE Clamped(row_cap)

TypeOK ==
    /\ path \in Paths
    /\ row_cap \in Requested
    /\ total \in Totals
    /\ rows \in Nat /\ rows <= total
    /\ arrived \in Nat /\ arrived <= total
    /\ executed \in BOOLEAN
    /\ is_truncated \in BOOLEAN
    /\ outcome \in {"running", "ok", "error"}

Init ==
    /\ path \in Paths
    /\ row_cap \in Requested
    /\ total \in Totals
    /\ rows = 0
    /\ arrived = 0
    /\ executed = FALSE
    /\ is_truncated = FALSE
    /\ outcome = "running"

-----------------------------------------------------------------------------
(* PostgreSQL *)

\* if rows.len() >= cap { is_truncated = true; break; }
PortalAtCap ==
    /\ path = "portal" /\ outcome = "running"
    /\ rows >= cap
    /\ is_truncated' = TRUE
    /\ outcome' = "ok"
    /\ UNCHANGED <<path, row_cap, total, rows, arrived, executed>>

FetchSize == Smaller(cap - rows, BatchSize)

\* The server's Execute message: a size of zero means all that is left.
Fetched(size) == IF size = 0 THEN total - rows ELSE Smaller(size, total - rows)

\* Mutant: a full batch is taken for the last one.
PortalStopsEarly ==
    /\ path = "portal" /\ outcome = "running"
    /\ rows < cap
    /\ executed' = TRUE
    /\ rows' = rows + Fetched(FetchSize)
    /\ outcome' = IF Fetched(FetchSize) <= FetchSize THEN "ok" ELSE "running"
    /\ UNCHANGED <<path, row_cap, total, arrived, is_truncated>>

\* query_portal(&portal, fetch_size), and the end of the loop on a short batch
PortalFetch ==
    /\ path = "portal" /\ outcome = "running"
    /\ rows < cap
    /\ executed' = TRUE
    /\ rows' = rows + Fetched(FetchSize)
    /\ outcome' = IF Fetched(FetchSize) < FetchSize THEN "ok" ELSE "running"
    /\ UNCHANGED <<path, row_cap, total, arrived, is_truncated>>

-----------------------------------------------------------------------------
(* ClickHouse, row-returning statements *)

\* A chunk of the body completes any number of lines.
Chunk ==
    /\ path = "lines" /\ outcome = "running"
    /\ rows = arrived /\ arrived < total
    /\ executed' = TRUE
    /\ arrived' \in arrived .. total
    /\ UNCHANGED <<path, row_cap, total, rows, is_truncated, outcome>>

\* rows.push(..); if rows.len() >= cap { is_truncated = true; break 'outer; }
PushLine ==
    /\ path = "lines" /\ outcome = "running"
    /\ rows < arrived
    /\ rows' = rows + 1
    /\ \/ rows' >= cap /\ is_truncated' = TRUE /\ outcome' = "ok"
       \/ rows' < cap /\ UNCHANGED <<is_truncated, outcome>>
    /\ UNCHANGED <<path, row_cap, total, arrived, executed>>

\* The body ends; a last line without a newline is a row too.
BodyEnds ==
    /\ path = "lines" /\ outcome = "running"
    /\ rows = arrived /\ arrived + 1 >= total
    /\ executed' = TRUE
    /\ rows' = total
    /\ outcome' = "ok"
    /\ UNCHANGED <<path, row_cap, total, arrived, is_truncated>>

-----------------------------------------------------------------------------
(* ClickHouse, other statements, and Redis commands *)

\* Mutant: the flag is set from what is left after the truncation.
BufferedForgetsFlag ==
    /\ path = "buffered" /\ outcome = "running"
    /\ executed' = TRUE
    /\ rows' = Smaller(total, cap)
    /\ \/ rows' > cap /\ is_truncated' = TRUE
       \/ rows' <= cap /\ UNCHANGED is_truncated
    /\ outcome' = "ok"
    /\ UNCHANGED <<path, row_cap, total, arrived>>

\* is_truncated = rows.len() > cap; rows.truncate(cap)
Buffered ==
    /\ path = "buffered" /\ outcome = "running"
    /\ executed' = TRUE
    /\ rows' = Smaller(total, cap)
    /\ \/ total > cap /\ is_truncated' = TRUE
       \/ total <= cap /\ UNCHANGED is_truncated
    /\ outcome' = "ok"
    /\ UNCHANGED <<path, row_cap, total, arrived>>

-----------------------------------------------------------------------------
(* Redis stream_rows *)

\* A SCAN page, cut to what is left of the ceiling; the loop ends at the
\* ceiling or when the cursor is back at 0 (`last`), not on an empty page.
ScanPage ==
    /\ path = "scan" /\ outcome = "running"
    /\ rows < EmergencyMax
    /\ executed' = TRUE
    /\ \E page \in 0 .. total - rows, last \in BOOLEAN :
          /\ last => rows + page = total
          /\ rows' = Smaller(rows + page, EmergencyMax)
          /\ outcome' = IF rows' >= EmergencyMax \/ last THEN "ok" ELSE "running"
    /\ UNCHANGED <<path, row_cap, total, arrived, is_truncated>>

(* A `?` of any of them: the statement, a chunk or a line is refused. *)
Fails ==
    /\ outcome = "running"
    /\ outcome' = "error"
    /\ executed' \in {executed, TRUE}
    /\ UNCHANGED <<path, row_cap, total, rows, arrived, is_truncated>>

Returned == outcome = "ok"

Finished == outcome # "running" /\ UNCHANGED vars

Next ==
    \/ PortalAtCap \/ PortalFetch
    \/ Chunk \/ PushLine \/ BodyEnds
    \/ Buffered
    \/ ScanPage
    \/ Fails
    \/ Finished

Spec == Init /\ [][Next]_vars

-----------------------------------------------------------------------------
(* Properties *)

(***************************************************************************)
(* Guardrail #7 and the row_cap argument: a result never holds more than   *)
(* min(row_cap, EMERGENCY_MAX) rows, at no point of its collection (for a  *)
(* row_cap of zero the ClickHouse line loop still pushes its first row).   *)
(***************************************************************************)
CapRespected == rows <= cap \/ (path = "lines" /\ cap = 0 /\ rows = 1)

(***************************************************************************)
(* "it may mark an exact-cap result as truncated when it was not, but      *)
(* never the reverse" (driver-postgres/src/query.rs:134-135), for every    *)
(* path of execute_user_query: a short result says that it is short.       *)
(***************************************************************************)
NeverSilentlyShort == (Returned /\ path # "scan" /\ rows < total) => is_truncated

(***************************************************************************)
(* All paths return the same number of rows, whatever the batches, chunks  *)
(* and pages: min(cap, total), for a cap that is not zero.                 *)
(***************************************************************************)
ExactlyCapped == (Returned /\ cap # 0) => rows = Smaller(cap, total)

(***************************************************************************)
(* A statement that reports success was run: "a silently-rolled-back       *)
(* INSERT/UPDATE/DELETE would report success while persisting nothing"     *)
(* (driver-postgres/src/query.rs:216-220) is what committing rules out.    *)
(***************************************************************************)
SuccessMeansExecuted == Returned => executed
=============================================================================
