---------------------------- MODULE MCDiscovery ----------------------------
(* Values of the constants of Discovery for model checking.               *)
EXTENDS Discovery

\* Two entities with different lifetimes, and an EntityInfo without an id
TwoEntities == { [id |-> 0, valid |-> 1], [id |-> 1, valid |-> 1], [id |-> 2, valid |-> 2] }

EveryCall == {"available", "departing", "discover"}
=============================================================================
