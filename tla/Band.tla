-------------------------------- MODULE Band --------------------------------
(***************************************************************************)
(* The channels and volumes of the tuner, and the conversions fm_tuner.c   *)
(* makes between the numbers of its callers, channels of 100 kHz, and the  *)
(* registers of the chip, channels from the start of the band.             *)
(***************************************************************************)
EXTENDS Integers, FiniteSetsExt

CONSTANTS
  American,     \* AMERICAN_VERSION: channels are 200 kHz apart, not 100
  Top,          \* the last channel of the band, 205 or 102
  Stations      \* the channels where a seek stops

FM_TUNER_VOLUME_MIN    == 0
FM_TUNER_VOLUME_MAX    == 15
FM_TUNER_CHANNEL_START == 875
FM_TUNER_SEEKUP        == 1
FM_TUNER_SEEKDOWN      == 0
FM_TUNER_RSSI_MAX      == 75

ChannelRegister == 0..1023      \* ten bits, MASK_CHANNEL
VolumeRange == FM_TUNER_VOLUME_MIN..FM_TUNER_VOLUME_MAX

ASSUME BandAssumption ==
  /\ American \in BOOLEAN
  /\ Top \in ChannelRegister
  /\ Stations \subseteq 0..Top

-----------------------------------------------------------------------------
(* The conversions of fm_tuner.c.                                          *)

ClampVolume_None(v) == v
ClampVolume(v) ==
  IF v > FM_TUNER_VOLUME_MAX THEN FM_TUNER_VOLUME_MAX
  ELSE IF v < FM_TUNER_VOLUME_MIN THEN FM_TUNER_VOLUME_MIN ELSE v

(* The `/= 2` of C, which rounds towards zero. *)
Half(n) == IF n >= 0 THEN n \div 2 ELSE -((-n) \div 2)

(* fm_tuner_set_channel: whatever does not fit in ten bits is cut off. *)
RegisterOf(channel) ==
  LET rds_channel == channel - FM_TUNER_CHANNEL_START
  IN  (IF American THEN Half(rds_channel) ELSE rds_channel) % 1024

(* __get_channel *)
ChannelOf(readchan) ==
  (IF American THEN 2 * readchan ELSE readchan) + FM_TUNER_CHANNEL_START

(* Where a seek ends: SKMODE is set, so that it stops at the limit of the  *)
(* band, and SF/BL is set there even when the limit is a station.          *)
SeekEnd(from, direction) ==
  LET up == direction # FM_TUNER_SEEKDOWN
      ahead == {s \in Stations : IF up THEN from < s /\ s < Top ELSE 0 < s /\ s < from}
  IN  IF ahead = {}
      THEN [readchan |-> IF up THEN Top ELSE 0, sfbl |-> TRUE]
      ELSE [readchan |-> IF up THEN Min(ahead) ELSE Max(ahead), sfbl |-> FALSE]

-----------------------------------------------------------------------------
(* What a call may do to a tuner that may be at any channel of `from`, or  *)
(* has the volume `from`, and what it returns.  A call that fails may have *)
(* moved the tuner or not, at once or later: `shown` is what READCHAN says *)
(* meanwhile.  After a failed set_channel or seek, ~rest, the next one may *)
(* not move it though it reports success.                                  *)

SetVolumeOutcomes(from, v) ==
  {[volume |-> ClampVolume(v), ret |-> ClampVolume(v), failed |-> 0]}
    \union {[volume |-> w, ret |-> -1, failed |-> 1] : w \in {from, ClampVolume(v)}}

At(t, value, ok) == [tuned |-> t, shown |-> t, ret |-> value, success |-> ok, failed |-> 0]
FailedAt(from, ends) ==
  [tuned : from \union ends, shown : from \union ends, ret : {-1}, success : {FALSE}, failed : {1}]

SetChannelOutcomes(from, rest, channel) ==
  {At(t, channel, FALSE) : t \in {RegisterOf(channel)} \union IF rest THEN {} ELSE from}
    \union FailedAt(from, {RegisterOf(channel)})

SeekOutcomes(from, rest, direction) ==
  LET ends == {SeekEnd(f, direction) : f \in from}
  IN  {At(end.readchan, ChannelOf(end.readchan), ~end.sfbl) : end \in ends}
        \union (IF rest THEN {} ELSE {At(t, ChannelOf(t), ok) : t \in from, ok \in BOOLEAN})
        \union FailedAt(from, {end.readchan : end \in ends})

GetOutcomes(values) ==
  {[ret |-> value, failed |-> 0] : value \in values} \union {[ret |-> -1, failed |-> 1]}

=============================================================================
