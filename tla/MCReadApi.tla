------------------------------ MODULE MCReadApi ------------------------------
(* Two threads and one slot; shared values that any passing of time makes expire.  Three rows
   with two sort keys, so that two of them tie, in pages of one.  Two series over a session of
   two minutes, so that one bar can be missing while a later one makes up the number. *)
EXTENDS ReadApi

OneUnit == [x \in {"overview", "schema", "markets"} |-> 1]
=============================================================================
