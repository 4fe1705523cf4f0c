------------------------------ MODULE MCRowCap ------------------------------
(* TLC instance of RowCap: caps and totals on both sides of every limit. *)
EXTENDS RowCap

MCTotals == 0 .. 7
MCRequested == (0 .. 7) \cup {NoCap}
=============================================================================
