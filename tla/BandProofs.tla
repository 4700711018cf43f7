----------------------------- MODULE BandProofs -----------------------------
(***************************************************************************)
(* The conversions of Band, on any band and with any stations: what they   *)
(* give fits in the registers of the chip.                                 *)
(***************************************************************************)
EXTENDS Band, FiniteSetsExt, FiniteSetTheorems, WellFoundedInduction, TLAPS

(* A finite non-empty set of integers has a maximum.  Order the sets       *)
(* "elements of S above x" by strict inclusion: a minimal one is empty.    *)
LEMMA MaxExists ==
  ASSUME NEW S \in SUBSET Int, IsFiniteSet(S), S # {}
  PROVE  /\ Max(S) \in S
         /\ \A y \in S : y <= Max(S)
<1> DEFINE Above(x) == {y \in S : y > x}
           All == {Above(x) : x \in S}
<1>1. IsWellFoundedOn(StrictSubsetOrdering(S), FiniteSubsetsOf(S))
  BY FS_StrictSubsetOrderingWellFounded
<1>2. All \subseteq FiniteSubsetsOf(S)
  BY FS_Subset DEF FiniteSubsetsOf
<1>3. All # {}
  OBVIOUS
<1>4. \E U \in All : \A V \in All : ~ (<<V, U>> \in StrictSubsetOrdering(S))
  <2> HIDE DEF All
  <2> QED  BY <1>1, <1>2, <1>3, WFMin
<1>5. PICK x \in S : \A V \in All : ~ (<<V, Above(x)>> \in StrictSubsetOrdering(S))
  BY <1>4
<1>6. \A z \in S : z <= x
  <2> SUFFICES ASSUME NEW z \in S, ~(z <= x) PROVE FALSE
    OBVIOUS
  <2>1. z \in Above(x) /\ z \notin Above(z)
    OBVIOUS
  <2>2. Above(z) \subseteq Above(x)
    <3>1. \A w \in S : w > z => w > x
      OBVIOUS
    <3> QED  BY <3>1, Zenon
  <2>3. <<Above(z), Above(x)>> \in StrictSubsetOrdering(S)
    BY <2>1, <2>2 DEF StrictSubsetOrdering
  <2> QED  BY <2>3, <1>5
<1> QED  BY <1>6 DEF Max

LEMMA MinExists ==
  ASSUME NEW S \in SUBSET Int, IsFiniteSet(S), S # {}
  PROVE  /\ Min(S) \in S
         /\ \A y \in S : Min(S) <= y
<1> DEFINE Below(x) == {y \in S : y < x}
           All == {Below(x) : x \in S}
<1>1. IsWellFoundedOn(StrictSubsetOrdering(S), FiniteSubsetsOf(S))
  BY FS_StrictSubsetOrderingWellFounded
<1>2. All \subseteq FiniteSubsetsOf(S)
  BY FS_Subset DEF FiniteSubsetsOf
<1>3. All # {}
  OBVIOUS
<1>4. \E U \in All : \A V \in All : ~ (<<V, U>> \in StrictSubsetOrdering(S))
  <2> HIDE DEF All
  <2> QED  BY <1>1, <1>2, <1>3, WFMin
<1>5. PICK x \in S : \A V \in All : ~ (<<V, Below(x)>> \in StrictSubsetOrdering(S))
  BY <1>4
<1>6. \A z \in S : x <= z
  <2> SUFFICES ASSUME NEW z \in S, ~(x <= z) PROVE FALSE
    OBVIOUS
  <2>1. z \in Below(x) /\ z \notin Below(z)
    OBVIOUS
  <2>2. Below(z) \subseteq Below(x)
    <3>1. \A w \in S : w < z => w < x
      OBVIOUS
    <3> QED  BY <3>1, Zenon
  <2>3. <<Below(z), Below(x)>> \in StrictSubsetOrdering(S)
    BY <2>1, <2>2 DEF StrictSubsetOrdering
  <2> QED  BY <2>3, <1>5
<1> QED  BY <1>6 DEF Min

LEMMA SeekEndType ==
  ASSUME NEW from \in ChannelRegister, NEW direction
  PROVE  /\ SeekEnd(from, direction).readchan \in 0..Top
         /\ SeekEnd(from, direction).readchan \in ChannelRegister
         /\ SeekEnd(from, direction).sfbl \in BOOLEAN
<1> DEFINE up == direction # FM_TUNER_SEEKDOWN
           ahead == {s \in Stations : IF up THEN from < s /\ s < Top ELSE 0 < s /\ s < from}
<1>1. Top \in 0..1023 /\ Top \in Nat /\ 0 \in 0..1023 /\ Stations \subseteq 0..Top
  BY BandAssumption DEF ChannelRegister
<1>2. ahead \subseteq Stations
  OBVIOUS
<1>3. /\ ahead \in SUBSET (0..1023) /\ ahead \in SUBSET Int
      /\ IsFiniteSet(ahead)
  <2> HIDE DEF ahead
  <2>1. ahead \in SUBSET (0..1023) /\ ahead \in SUBSET Int /\ ahead \in SUBSET (0..Top)
    BY <1>1, <1>2
  <2>2. IsFiniteSet(0..Top)
    BY <1>1, FS_Interval
  <2> QED BY <2>1, <2>2, FS_Subset
<1>4. ahead # {} => Min(ahead) \in 0..Top /\ Max(ahead) \in 0..Top
  <2> HIDE DEF ahead
  <2>1. ahead # {} => Min(ahead) \in ahead /\ Max(ahead) \in ahead
    BY <1>3, MinExists, MaxExists
  <2> QED BY <1>1, <1>2, <2>1
<1>5. SeekEnd(from, direction) =
        IF ahead = {} THEN [readchan |-> IF up THEN Top ELSE 0, sfbl |-> TRUE]
        ELSE [readchan |-> IF up THEN Min(ahead) ELSE Max(ahead), sfbl |-> FALSE]
  BY DEF SeekEnd
<1> HIDE DEF ahead, up
<1>6. SeekEnd(from, direction).readchan \in 0..Top
  BY <1>1, <1>4, <1>5
<1>7. SeekEnd(from, direction).sfbl \in BOOLEAN
  BY <1>5
<1>8. 0..Top \subseteq ChannelRegister
  BY <1>1 DEF ChannelRegister
<1> QED BY <1>6, <1>7, <1>8

LEMMA RegisterType ==
  ASSUME NEW channel \in Int
  PROVE  RegisterOf(channel) \in ChannelRegister
<1>1. Half(channel - FM_TUNER_CHANNEL_START) \in Int
  BY DEF Half, FM_TUNER_CHANNEL_START
<1>2. \A n \in Int : n % 1024 \in 0..1023
  OBVIOUS
<1> QED
  BY <1>1, <1>2 DEF RegisterOf, ChannelRegister, FM_TUNER_CHANNEL_START

LEMMA ChannelType ==
  ASSUME NEW readchan \in ChannelRegister
  PROVE  ChannelOf(readchan) \in Int /\ ChannelOf(readchan) # -1
BY DEF ChannelOf, ChannelRegister, FM_TUNER_CHANNEL_START

LEMMA VolumeType ==
  ASSUME NEW v \in Int
  PROVE  ClampVolume(v) \in VolumeRange
BY DEF ClampVolume, VolumeRange, FM_TUNER_VOLUME_MAX, FM_TUNER_VOLUME_MIN

(* A register survives the way to a channel of the callers and back. *)
LEMMA RegisterOfChannel ==
  ASSUME NEW readchan \in ChannelRegister
  PROVE  RegisterOf(ChannelOf(readchan)) = readchan
<1>1. readchan \in 0..1023 /\ readchan \in Int /\ readchan % 1024 = readchan
  BY DEF ChannelRegister
<1>2. American => ChannelOf(readchan) - FM_TUNER_CHANNEL_START = 2 * readchan
  BY <1>1 DEF ChannelOf, FM_TUNER_CHANNEL_START
<1>3. ~American => ChannelOf(readchan) - FM_TUNER_CHANNEL_START = readchan
  BY <1>1 DEF ChannelOf, FM_TUNER_CHANNEL_START
<1>4. Half(2 * readchan) = readchan
  BY <1>1 DEF Half
<1> QED BY <1>1, <1>2, <1>3, <1>4 DEF RegisterOf

-----------------------------------------------------------------------------
(* What the outcomes of the calls have in common.                          *)

Outcome == [tuned : ChannelRegister, shown : ChannelRegister, ret : Int, success : BOOLEAN, failed : {0, 1}]

LEMMA AtType ==
  ASSUME NEW t \in ChannelRegister, NEW value \in Int, NEW ok \in BOOLEAN
  PROVE  /\ At(t, value, ok) \in Outcome
         /\ At(t, value, ok).tuned = t /\ At(t, value, ok).shown = t
         /\ At(t, value, ok).ret = value /\ At(t, value, ok).failed = 0
BY DEF At, Outcome

LEMMA FailedAtType ==
  ASSUME NEW from \in SUBSET ChannelRegister, NEW ends \in SUBSET ChannelRegister,
         NEW o \in FailedAt(from, ends)
  PROVE  o \in Outcome /\ o.failed = 1 /\ o.ret = -1
<1>1. o.ret = -1 /\ o.failed = 1
  BY DEF FailedAt
<1>2. from \union ends \in SUBSET ChannelRegister /\ -1 \in Int
  OBVIOUS
<1>3. FailedAt(from, ends) \subseteq Outcome
  <2> HIDE DEF ChannelRegister
  <2> QED BY <1>2 DEF FailedAt, Outcome
<1> QED BY <1>1, <1>3

LEMMA SetVolumeOutcomesType ==
  ASSUME NEW from \in VolumeRange, NEW v \in Int, NEW o \in SetVolumeOutcomes(from, v)
  PROVE  /\ o.volume \in VolumeRange /\ o.failed \in {0, 1}
         /\ o.failed = 0 => o.ret = o.volume
         /\ o.failed = 1 => o.ret = -1
<1>1. ClampVolume(v) \in VolumeRange
  BY VolumeType
<1> QED BY <1>1 DEF SetVolumeOutcomes

LEMMA SetChannelOutcomesType ==
  ASSUME NEW from \in SUBSET ChannelRegister, NEW rest \in BOOLEAN, NEW channel \in Int,
         NEW o \in SetChannelOutcomes(from, rest, channel)
  PROVE  /\ o \in Outcome
         /\ o.failed = 0 => /\ o.ret = channel /\ o.shown = o.tuned
                            /\ rest => o.tuned = RegisterOf(channel)
         /\ o.failed = 1 => o.ret = -1
<1>1. RegisterOf(channel) \in ChannelRegister
  BY RegisterType
<1>2. CASE o \in FailedAt(from, {RegisterOf(channel)})
  <2>1. {RegisterOf(channel)} \in SUBSET ChannelRegister
    BY <1>1
  <2>2. o \in Outcome /\ o.failed = 1 /\ o.ret = -1
    BY <1>2, <2>1, FailedAtType
  <2> QED BY <2>2
<1>3. CASE o \notin FailedAt(from, {RegisterOf(channel)})
  <2>1. PICK t \in {RegisterOf(channel)} \union IF rest THEN {} ELSE from : o = At(t, channel, FALSE)
    BY <1>3 DEF SetChannelOutcomes
  <2>2. t \in ChannelRegister /\ (rest => t = RegisterOf(channel))
    BY <1>1, <2>1
  <2>3. o \in Outcome /\ o.tuned = t /\ o.shown = t /\ o.ret = channel /\ o.failed = 0
    BY <2>1, <2>2, AtType
  <2> QED BY <2>2, <2>3
<1> QED BY <1>2, <1>3

LEMMA SeekOutcomesType ==
  ASSUME NEW from \in SUBSET ChannelRegister, NEW rest, NEW direction,
         NEW o \in SeekOutcomes(from, rest, direction)
  PROVE  /\ o \in Outcome
         /\ o.failed = 0 => o.ret = ChannelOf(o.tuned) /\ o.shown = o.tuned
         /\ o.failed = 1 => o.ret = -1
<1> DEFINE ends == {SeekEnd(f, direction) : f \in from}
           places == {end.readchan : end \in ends}
<1>1. places \subseteq ChannelRegister /\ \A end \in ends : end.readchan \in ChannelRegister /\ end.sfbl \in BOOLEAN
  <2>1. \A f \in from : SeekEnd(f, direction).readchan \in ChannelRegister /\ SeekEnd(f, direction).sfbl \in BOOLEAN
    BY SeekEndType
  <2>2. \A end \in ends : end.readchan \in ChannelRegister /\ end.sfbl \in BOOLEAN
    BY <2>1, Zenon
  <2> HIDE DEF ends
  <2> QED BY <2>2
<1>2. SeekOutcomes(from, rest, direction) =
        {At(end.readchan, ChannelOf(end.readchan), ~end.sfbl) : end \in ends}
          \union (IF rest THEN {} ELSE {At(t, ChannelOf(t), ok) : t \in from, ok \in BOOLEAN})
          \union FailedAt(from, places)
  BY DEF SeekOutcomes
<1> HIDE DEF ends, places
<1>3. CASE o \in FailedAt(from, places)
  <2>1. o \in Outcome /\ o.failed = 1 /\ o.ret = -1
    BY <1>1, <1>3, FailedAtType
  <2> QED BY <2>1
<1>4. CASE o \notin FailedAt(from, places)
  <2>1. \E t \in ChannelRegister, ok \in BOOLEAN : o = At(t, ChannelOf(t), ok)
    <3>1. CASE o \in {At(end.readchan, ChannelOf(end.readchan), ~end.sfbl) : end \in ends}
      <4>1. PICK end \in ends : o = At(end.readchan, ChannelOf(end.readchan), ~end.sfbl)
        BY <3>1
      <4>2. end.readchan \in ChannelRegister /\ (~end.sfbl) \in BOOLEAN
        BY <1>1
      <4> QED BY <4>1, <4>2
    <3>2. CASE o \in {At(t, ChannelOf(t), ok) : t \in from, ok \in BOOLEAN}
      <4>1. PICK t \in from, ok \in BOOLEAN : o = At(t, ChannelOf(t), ok)
        BY <3>2
      <4> QED BY <4>1
    <3> QED BY <1>2, <1>4, <3>1, <3>2
  <2>2. PICK t \in ChannelRegister, ok \in BOOLEAN : o = At(t, ChannelOf(t), ok)
    BY <2>1
  <2> QED BY <2>2, AtType, ChannelType
<1> QED BY <1>3, <1>4
=============================================================================
