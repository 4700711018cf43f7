----------------------------- MODULE MCFmTuner -----------------------------
(* Instances of FmTuner: a few stations of the European band, and calls on *)
(* and off it.                                                             *)
EXTENDS FmTuner

EuropeTop == 205
MCStations == {5, 62, 148}

Call_(op, args) == [op : {op}, arg : args]
Getters == Call_("get_volume", {0}) \union Call_("get_channel", {0})
Seeks == Call_("seek", {FM_TUNER_SEEKUP, FM_TUNER_SEEKDOWN})

(* Volumes are clamped; a client may ask for any channel of 16 bits, and   *)
(* the handler asks for -1 after a channel that could not be read.         *)
AllCalls ==
  Getters \union Seeks \union Call_("set_volume", {7, 200})
    \union Call_("set_channel", {-1, 875, 937, 2000})

(* The calls that stay in the band. *)
BandCalls == Getters \union Seeks \union Call_("set_channel", {875, 937})
=============================================================================
