----------------------------- MODULE MCFileStore -----------------------------
(* TLC instance of FileStore. *)
EXTENDS FileStore

CONSTANTS p1, p2, k1, k2, v1, v2
MCProcs == {p1, p2}
MCKeys == {k1, k2}
MCValues == {v1, v2}
=============================================================================
