------------------------------ MODULE MCPostgres ------------------------------
(* TLC instance of PostgresQueries. *)
EXTENDS PostgresQueries

CONSTANTS u1, u2, r1, c1
MCUsers == {u1, u2}
MCReaders == {r1}
MCClosers == {c1}
=============================================================================
