--------------------------- MODULE MCAdvertising ---------------------------
(* Values of the constants of Advertising for model checking.             *)
EXTENDS Advertising

\* The interface may learn of a grandmaster.  (The configuration index is adopted at start.)
OneGrandmaster == [gm |-> {7}, config |-> {}]
=============================================================================
