----------------------------- MODULE MCProcess -----------------------------
(* Instances of Process: a band of a few channels with a station on most   *)
(* of them, so that the list of the scan outgrows its first allocation.    *)
EXTENDS Process

MCStations == {0, 2, 3, 5, 7}
MCTop == 7

(* Those of the scan, and a volume. *)
MCCalls ==
  {[op |-> "set_channel", arg |-> FM_TUNER_CHANNEL_START], [op |-> "seek", arg |-> FM_TUNER_SEEKUP],
   [op |-> "set_channel", arg |-> 879], [op |-> "set_volume", arg |-> 9]}
=============================================================================
