----------------------------- MODULE MCService -----------------------------
(* Instances of Service: two clients on the European band.                 *)
EXTENDS Service, TLC

EuropeTop == 205
MCStations == {5, 62}

(* Values alone and together, a volume beyond the maximum, and the seeks,  *)
(* of which the one down fails at the start of the band.                   *)
MCMessages ==
  { << Volume(200) >>, << Channel(937), Volume(3) >>, << SeekUp >>, << SeekDown >> }

ASSUME MCServiceAssumption == RequestsTunable

=============================================================================
