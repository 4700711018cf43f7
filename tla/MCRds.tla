------------------------------- MODULE MCRds -------------------------------
(* Instances of Rds: one station, or two whose texts differ in version and *)
(* length.                                                                 *)
EXTENDS Rds

MCStations == {"s", "t"}
MCVersion == [x \in MCStations |-> IF x = "s" THEN "A" ELSE "B"]

(* A text that fills all its groups, and one whose carriage return comes   *)
(* in a group before the last.                                             *)
MixedLength == [x \in MCStations |-> IF x = "s" THEN 6 ELSE 1]

MCFlags ==
  [x \in MCStations |-> [pt |-> IF x = "s" THEN 10 ELSE 3, tp |-> x = "s", ta |-> FALSE, ms |-> TRUE]]
=============================================================================
