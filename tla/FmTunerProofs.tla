--------------------------- MODULE FmTunerProofs ---------------------------
(***************************************************************************)
(* Proofs about FmTuner: whatever transfers have failed, a call of the     *)
(* driver moves the tuner and returns in one of the ways the handlers      *)
(* assume; and until one fails, the handshakes with the chip implement     *)
(* Tuner.                                                                  *)
(***************************************************************************)
EXTENDS FmTuner, BandProofs

(* The inductive invariant, by its parts.                                  *)

(* What the driver does follows from the call. *)
OpInv ==
  /\ pc # "idle" => call \in Calls
  /\ pc = "write" => call.op = "set_volume"
  /\ pc \in {"write_high", "wait_high", "write_low", "wait_low"} => call.op \in {"set_channel", "seek"}

(* The chip works while STC is low, and clears STC only when it is high. *)
ChipInv ==
  /\ busy # "idle" => chip.stc = FALSE
  /\ clearing = TRUE => chip.stc = TRUE
  /\ busy = "seek" => chip.seek = TRUE
  /\ pc \in {"write_low", "wait_low"} => busy = "idle"

(* The driver has not missed a change of the writable registers since it   *)
(* has read them, and writes no other bit back than the one of its call.   *)
RegsInv ==
  /\ pc \in {"write", "write_high", "write_low"} =>
       /\ call.op # "set_volume" => regs.volume = chip.volume
       /\ call.op = "set_volume" => regs.volume = ClampVolume(call.arg)
       /\ call.op # "set_channel" => regs.tune = chip.tune
       /\ call.op # "set_channel" \/ pc = "write_low" => regs.channel = chip.channel
       /\ call.op # "seek" => regs.seek = chip.seek
       /\ call.op # "seek" \/ pc = "write_low" => regs.seekup = chip.seekup
  /\ pc = "write_high" =>
       /\ call.op = "set_channel" => regs.tune = TRUE /\ regs.channel = RegisterOf(call.arg)
       /\ call.op = "seek" => regs.seek = TRUE /\ regs.seekup = call.arg
  /\ pc = "write_low" =>
       /\ call.op = "set_channel" => regs.tune = FALSE
       /\ call.op = "seek" => regs.seek = FALSE

From == {before.tuned, before.shown}

(* Where the call may have moved the tuner, or left it. *)
Reach ==
  From \union IF call.op = "set_channel" THEN {RegisterOf(call.arg)}
              ELSE {SeekEnd(f, call.arg).readchan : f \in From}

(* Whatever the chip was doing when the call was made. *)
WhereInv ==
  /\ pc \in {"read", "write", "write_high"} =>
       Heading = before.tuned /\ chip.readchan \in From
  /\ pc \in {"wait_high", "write_low", "wait_low"} =>
       Heading \in Reach /\ chip.readchan \in Reach
  /\ pc # "idle" => chip.volume = before.volume

(* A seek that has left From has ended where it says. *)
SeekInv ==
  call.op = "seek" =>
    /\ pc = "wait_high" =>
         /\ busy = "seek" => chip.seekup = call.arg /\ chip.readchan \in From
         /\ busy = "tune" => chip.channel \in From
         /\ busy # "seek" /\ chip.stc = TRUE /\ chip.readchan \notin From =>
              \E f \in From : SeekEnd(f, call.arg).readchan = chip.readchan /\ SeekEnd(f, call.arg).sfbl = chip.sfbl
    /\ pc \in {"write_low", "wait_low"} /\ chip.readchan \notin From =>
         \E f \in From : SeekEnd(f, call.arg).readchan = chip.readchan /\ SeekEnd(f, call.arg).sfbl = ~success

Arrived ==
  IF call.op = "set_channel" THEN chip.readchan = RegisterOf(call.arg)
  ELSE chip.readchan = SeekEnd(before.tuned, call.arg).readchan

Bits(tune, seek) == chip.tune = tune /\ chip.seek = seek

(* A call that has found the chip at rest goes through the handshake.      *)
CleanInv ==
  before.clean = TRUE =>
    /\ pc \in {"read", "write", "write_high"} => AtRest /\ before.shown = before.tuned
    /\ pc = "wait_high" =>
         /\ clearing = FALSE
         /\ Bits(call.op = "set_channel", call.op = "seek")
         /\ chip.stc = TRUE => Arrived /\ (call.op = "seek" => chip.sfbl = SeekEnd(before.tuned, call.arg).sfbl)
         /\ chip.stc = FALSE =>
              /\ chip.readchan = before.tuned
              /\ call.op = "set_channel" => busy = "tune" /\ chip.channel = RegisterOf(call.arg)
              /\ call.op = "seek" => busy = "seek" /\ chip.seekup = call.arg
    /\ pc = "write_low" => chip.stc = TRUE /\ clearing = FALSE /\ Bits(call.op = "set_channel", call.op = "seek")
    /\ pc = "wait_low" => (chip.stc = TRUE => clearing = TRUE) /\ Bits(FALSE, FALSE)
    /\ pc \in {"write_low", "wait_low"} =>
         Arrived /\ (call.op = "seek" => success = ~SeekEnd(before.tuned, call.arg).sfbl)

(* Until a set_channel or a seek has failed, all calls find it so. *)
RestInv ==
  /\ failures = 0 => before.rest = TRUE
  /\ before.rest = TRUE => IF pc = "idle" THEN AtRest ELSE before.clean = TRUE

FmInv ==
  TypeOK /\ OpInv /\ ChipInv /\ RegsInv /\ WhereInv /\ SeekInv /\ CleanInv /\ RestInv
    /\ OutcomesAssumed /\ CleanCallIsEffective

-----------------------------------------------------------------------------
(* What the steps do to the registers, field by field.                     *)

LEMMA WrittenFields ==
  ASSUME chip \in Registers, NEW r \in Registers, Written(r)
  PROVE  /\ chip' \in Registers
         /\ chip'.volume = r.volume /\ chip'.channel = r.channel /\ chip'.seekup = r.seekup
         /\ chip'.tune = r.tune /\ chip'.seek = r.seek
         /\ chip'.stc = chip.stc /\ chip'.sfbl = chip.sfbl /\ chip'.readchan = chip.readchan
BY DEF Written, Registers

(* The writable registers and where the tuner is heading for are out of    *)
(* the chip's own reach.                                                   *)
LEMMA ChipStep ==
  ASSUME TypeOK, Chip
  PROVE  /\ chip' \in Registers
         /\ chip'.volume = chip.volume /\ chip'.channel = chip.channel /\ chip'.seekup = chip.seekup
         /\ chip'.tune = chip.tune /\ chip'.seek = chip.seek
         /\ Heading' = Heading
         /\ chip'.readchan \in {chip.readchan, Heading}
         /\ UNCHANGED << regs, pc, call, success, ret, failures, before >>
<1>1. chip.readchan \in ChannelRegister /\ chip.channel \in ChannelRegister
  BY DEF TypeOK, Registers
<1>2. CASE TuneDone
  BY <1>2 DEF TuneDone, TypeOK, Registers, Heading
<1>3. CASE SeekDone
  <2>1. /\ SeekEnd(chip.readchan, chip.seekup).readchan \in ChannelRegister
        /\ SeekEnd(chip.readchan, chip.seekup).sfbl \in BOOLEAN
    BY <1>1, SeekEndType
  <2> QED BY <1>3, <2>1 DEF SeekDone, TypeOK, Registers, Heading
<1>4. CASE StcCleared
  BY <1>4 DEF StcCleared, TypeOK, Registers, Heading
<1> QED BY <1>2, <1>3, <1>4 DEF Chip

LEMMA HeadingType ==
  ASSUME TypeOK
  PROVE  Heading \in ChannelRegister
BY SeekEndType DEF TypeOK, Registers, Heading

(* The chip that is not tuning or seeking stays where it is.               *)
LEMMA HeadingIdle ==
  ASSUME busy = "idle"
  PROVE  Heading = chip.readchan
BY DEF Heading

-----------------------------------------------------------------------------
(* The invariant holds at first, and every step preserves it.              *)

LEMMA FmInit == Init => FmInv
<1> SUFFICES ASSUME Init PROVE FmInv
  OBVIOUS
<1>1. TypeOK
  <2>1. 0 \in VolumeRange /\ 0 \in ChannelRegister
    BY DEF VolumeRange, FM_TUNER_VOLUME_MIN, FM_TUNER_VOLUME_MAX, ChannelRegister
  <2>2. chip \in Registers /\ regs \in Registers
    BY <2>1 DEF Init, Registers
  <2>3. before \in [clean : BOOLEAN, rest : BOOLEAN, tuned : ChannelRegister, shown : ChannelRegister,
                   volume : VolumeRange]
    BY <2>1 DEF Init
  <2>4. failures \in 0..MaxFailures /\ ret \in Int
    BY FmTunerAssumption DEF Init
  <2> QED BY <2>2, <2>3, <2>4 DEF Init, TypeOK
<1>2. OpInv /\ ChipInv /\ RegsInv /\ WhereInv /\ SeekInv /\ CleanInv
  BY DEF Init, NoCall, OpInv, ChipInv, RegsInv, WhereInv, SeekInv, CleanInv
<1>3. RestInv
  BY DEF Init, RestInv, AtRest
<1>4. OutcomesAssumed /\ CleanCallIsEffective
  BY DEF Init, NoCall, OutcomesAssumed, CleanCallIsEffective
<1> QED BY <1>1, <1>2, <1>3, <1>4 DEF FmInv

LEMMA CallKeeps ==
  ASSUME FmInv, Call
  PROVE  FmInv'
<1> USE DEF FmInv
<1>1. /\ pc = "idle" /\ pc' = "read" /\ call' \in Calls
      /\ UNCHANGED << regs, ret, chip, busy, clearing, failures >>
      /\ before' \in [clean : BOOLEAN, rest : BOOLEAN, tuned : ChannelRegister, shown : ChannelRegister,
                      volume : VolumeRange]
      /\ before'.clean = AtRest /\ before'.rest = before.rest /\ before'.tuned = Heading
      /\ before'.shown = chip.readchan /\ before'.volume = chip.volume
  BY HeadingType DEF Call, TypeOK, Registers, AtRest
<1>2. success' \in BOOLEAN
  BY DEF Call, TypeOK
<1>3. TypeOK'
  BY <1>1, <1>2 DEF TypeOK
<1>4. OpInv' /\ ChipInv' /\ RegsInv' /\ SeekInv'
  BY <1>1 DEF OpInv, ChipInv, RegsInv, SeekInv
<1>5. Heading' = Heading /\ AtRest' = AtRest
  BY <1>1 DEF Heading, AtRest
<1>6. WhereInv'
  BY <1>1, <1>5 DEF WhereInv, From
<1>7. CleanInv'
  BY <1>1, <1>5, HeadingIdle DEF CleanInv, AtRest
<1>8. RestInv'
  BY <1>1, <1>5 DEF RestInv
<1>9. OutcomesAssumed' /\ CleanCallIsEffective'
  BY <1>1 DEF OutcomesAssumed, CleanCallIsEffective
<1> QED BY <1>3, <1>4, <1>6, <1>7, <1>8, <1>9

(* The types that are enough to follow a step. *)
LEMMA Typed ==
  ASSUME TypeOK
  PROVE  /\ chip \in Registers /\ regs \in Registers
         /\ chip.volume \in VolumeRange /\ chip.readchan \in ChannelRegister
         /\ chip.stc \in BOOLEAN /\ chip.tune \in BOOLEAN /\ chip.seek \in BOOLEAN /\ chip.sfbl \in BOOLEAN
         /\ ret \in Int /\ success \in BOOLEAN /\ clearing \in BOOLEAN
BY DEF TypeOK, Registers

LEMMA CallTyped ==
  ASSUME call \in Calls
  PROVE  /\ call.op \in {"set_volume", "get_volume", "set_channel", "get_channel", "seek"}
         /\ call.op = "seek" => call.arg \in {FM_TUNER_SEEKUP, FM_TUNER_SEEKDOWN}
         /\ call.op # "seek" => call.arg \in Int
BY FmTunerAssumption

(* The outcomes a call may be found to have had.                           *)

LEMMA OutcomesByCall ==
  ASSUME NEW op, NEW arg
  PROVE  /\ op = "set_volume"  => OutcomesOf(op, arg) = SetVolumeOutcomes(before.volume, arg)
         /\ op = "set_channel" => OutcomesOf(op, arg) = SetChannelOutcomes(From, before.rest, arg)
         /\ op = "seek"        => OutcomesOf(op, arg) = SeekOutcomes(From, before.rest, arg)
         /\ op = "get_volume"  => OutcomesOf(op, arg) = GetOutcomes({before.volume})
         /\ op = "get_channel" => OutcomesOf(op, arg) = GetOutcomes({ChannelOf(f) : f \in From})
BY DEF OutcomesOf, From

LEMMA GetOutcome ==
  ASSUME NEW values
  PROVE  /\ \A v \in values : [ret |-> v, failed |-> 0] \in GetOutcomes(values)
         /\ [ret |-> -1, failed |-> 1] \in GetOutcomes(values)
BY DEF GetOutcomes

LEMMA SetVolumeOutcome ==
  ASSUME NEW from, NEW v
  PROVE  /\ [volume |-> ClampVolume(v), ret |-> ClampVolume(v), failed |-> 0] \in SetVolumeOutcomes(from, v)
         /\ \A w \in {from, ClampVolume(v)} :
              [volume |-> w, ret |-> -1, failed |-> 1] \in SetVolumeOutcomes(from, v)
BY DEF SetVolumeOutcomes

LEMMA SetChannelOutcome ==
  ASSUME NEW from, NEW rest, NEW channel, NEW t, t = RegisterOf(channel) \/ (~rest /\ t \in from)
  PROVE  At(t, channel, FALSE) \in SetChannelOutcomes(from, rest, channel)
BY DEF SetChannelOutcomes

LEMMA SeekOutcome ==
  ASSUME NEW from, NEW rest, NEW direction
  PROVE  /\ \A f \in from :
              At(SeekEnd(f, direction).readchan, ChannelOf(SeekEnd(f, direction).readchan),
                 ~SeekEnd(f, direction).sfbl) \in SeekOutcomes(from, rest, direction)
         /\ ~rest => \A t \in from, ok \in BOOLEAN : At(t, ChannelOf(t), ok) \in SeekOutcomes(from, rest, direction)
BY DEF SeekOutcomes

LEMMA FailedOutcome ==
  ASSUME NEW t \in Reach, NEW s \in Reach, NEW rest
  PROVE  /\ call.op = "set_channel" =>
              [tuned |-> t, shown |-> s, ret |-> -1, success |-> FALSE, failed |-> 1]
                \in SetChannelOutcomes(From, rest, call.arg)
         /\ call.op = "seek" =>
              [tuned |-> t, shown |-> s, ret |-> -1, success |-> FALSE, failed |-> 1]
                \in SeekOutcomes(From, rest, call.arg)
<1> DEFINE outcome == [tuned |-> t, shown |-> s, ret |-> -1, success |-> FALSE, failed |-> 1]
<1>1. ASSUME NEW from, NEW ends, {t, s} \subseteq from \union ends
      PROVE  outcome \in FailedAt(from, ends)
  BY <1>1 DEF FailedAt
<1>2. ASSUME call.op = "set_channel"
      PROVE  outcome \in SetChannelOutcomes(From, rest, call.arg)
  <2>1. {t, s} \subseteq From \union {RegisterOf(call.arg)}
    BY <1>2 DEF Reach
  <2>2. outcome \in FailedAt(From, {RegisterOf(call.arg)})
    BY <1>1, <2>1
  <2>3. FailedAt(From, {RegisterOf(call.arg)}) \subseteq SetChannelOutcomes(From, rest, call.arg)
    BY Zenon DEF SetChannelOutcomes
  <2> HIDE DEF outcome
  <2> QED BY <2>2, <2>3
<1>3. ASSUME call.op = "seek"
      PROVE  outcome \in SeekOutcomes(From, rest, call.arg)
  <2> DEFINE ends == {SeekEnd(f, call.arg) : f \in From}
             places == {end.readchan : end \in ends}
  <2>1. {t, s} \subseteq From \union places
    BY <1>3 DEF Reach
  <2>2. outcome \in FailedAt(From, places)
    <3> HIDE DEF places
    <3> QED BY <1>1, <2>1
  <2>3. FailedAt(From, places) \subseteq SeekOutcomes(From, rest, call.arg)
    <3>1. SeekOutcomes(From, rest, call.arg) =
            {At(end.readchan, ChannelOf(end.readchan), ~end.sfbl) : end \in ends}
              \union (IF rest THEN {} ELSE {At(p, ChannelOf(p), ok) : p \in From, ok \in BOOLEAN})
              \union FailedAt(From, places)
      BY DEF SeekOutcomes
    <3> HIDE DEF ends, places
    <3> QED BY <3>1
  <2> HIDE DEF outcome, places
  <2> QED BY <2>2, <2>3
<1> QED BY <1>2, <1>3

LEMMA ReadKeeps ==
  ASSUME FmInv, Read
  PROVE  FmInv'
<1> USE DEF FmInv
<1>1. /\ pc = "read" /\ call \in Calls
      /\ UNCHANGED << call, success, chip, busy, clearing, failures, before >>
  BY DEF Read, OpInv
<1>2. Heading' = Heading /\ AtRest' = AtRest /\ From' = From
  BY <1>1 DEF Heading, AtRest, From
<1>3. Heading = before.tuned /\ chip.readchan \in From /\ chip.volume = before.volume
  BY <1>1 DEF WhereInv
<1>4. /\ call.op \in {"get_volume", "get_channel"} => pc' = "idle"
      /\ call.op = "set_volume" => pc' = "write"
      /\ call.op \in {"set_channel", "seek"} => pc' = "write_high"
      /\ pc' \in {"idle", "write", "write_high"}
  BY DEF Read, Returns
<1>5. TypeOK'
  <2>1. ClampVolume(call.arg) \in VolumeRange \/ call.op # "set_volume"
    BY <1>1, CallTyped, VolumeType
  <2>2. RegisterOf(call.arg) \in ChannelRegister \/ call.op # "set_channel"
    BY <1>1, CallTyped, RegisterType
  <2>3. regs' \in Registers
    BY <1>1, <2>1, <2>2, CallTyped DEF Read, TypeOK, Registers
  <2>4. ret' \in Int
    <3>1. VolumeRange \subseteq Int
      BY DEF VolumeRange, FM_TUNER_VOLUME_MIN, FM_TUNER_VOLUME_MAX
    <3> QED BY <3>1, Typed, ChannelType DEF Read, Returns
  <2> QED BY <1>1, <1>4, <2>3, <2>4 DEF TypeOK
<1>6. OpInv' /\ ChipInv' /\ SeekInv'
  BY <1>1, <1>4, CallTyped DEF OpInv, ChipInv, SeekInv
<1>7. RegsInv'
  BY <1>1, <1>4, CallTyped, Typed DEF RegsInv, Read, Registers
<1>8. WhereInv'
  BY <1>1, <1>2, <1>3, <1>4 DEF WhereInv
<1>9. CleanInv' /\ RestInv'
  BY <1>1, <1>2, <1>4 DEF CleanInv, RestInv
<1>10. CleanCallIsEffective'
  BY <1>1, <1>4, CallTyped DEF CleanCallIsEffective
<1>11. OutcomesAssumed'
  <2> SUFFICES ASSUME pc' = "idle"
               PROVE  \E o \in OutcomesOf(call.op, call.arg) :
                        o.ret = ret' /\ chip.volume = before.volume /\ Heading = before.tuned
    BY <1>1, <1>2, <1>4, CallTyped DEF OutcomesAssumed, OutcomesOf
  <2>1. CASE call.op = "get_volume"
    <3>1. ret' = before.volume
      BY <1>3, <2>1 DEF Read, Returns
    <3>2. [ret |-> ret', failed |-> 0] \in OutcomesOf(call.op, call.arg)
      BY <2>1, <3>1, GetOutcome, OutcomesByCall
    <3> QED BY <1>3, <3>2
  <2>2. CASE call.op = "get_channel"
    <3>1. ret' \in {ChannelOf(f) : f \in From}
      BY <1>3, <2>2 DEF Read, Returns
    <3>2. [ret |-> ret', failed |-> 0] \in OutcomesOf(call.op, call.arg)
      BY <2>2, <3>1, GetOutcome, OutcomesByCall
    <3> QED BY <1>3, <3>2
  <2> QED BY <1>1, <1>4, <2>1, <2>2, CallTyped
<1> QED BY <1>5, <1>6, <1>7, <1>8, <1>9, <1>10, <1>11

(* A chip at rest does nothing. *)
LEMMA NothingAtRest ==
  ASSUME FmInv, AtRest
  PROVE  ~Chip
BY DEF FmInv, TypeOK, Registers, ChipInv, AtRest, Chip, TuneDone, SeekDone, StcCleared

LEMMA ChipKeeps ==
  ASSUME FmInv, Chip
  PROVE  FmInv'
<1> USE DEF FmInv
<1>1. /\ chip' \in Registers
      /\ chip'.volume = chip.volume /\ chip'.channel = chip.channel /\ chip'.seekup = chip.seekup
      /\ chip'.tune = chip.tune /\ chip'.seek = chip.seek
      /\ Heading' = Heading
      /\ chip'.readchan \in {chip.readchan, Heading}
      /\ UNCHANGED << regs, pc, call, success, ret, failures, before >>
  BY ChipStep
<1>2. \/ /\ TuneDone /\ busy = "tune" /\ busy' = "idle" /\ clearing' = clearing
         /\ chip'.stc = TRUE /\ chip'.sfbl = chip.sfbl /\ chip'.readchan = chip.channel
      \/ /\ SeekDone /\ busy = "seek" /\ busy' = "idle" /\ clearing' = clearing
         /\ chip'.stc = TRUE /\ chip'.sfbl = SeekEnd(chip.readchan, chip.seekup).sfbl
         /\ chip'.readchan = SeekEnd(chip.readchan, chip.seekup).readchan
      \/ /\ StcCleared /\ clearing = TRUE /\ clearing' = FALSE /\ busy' = busy
         /\ chip'.stc = FALSE /\ chip'.readchan = chip.readchan
  BY Typed DEF Chip, TuneDone, SeekDone, StcCleared, Registers
<1>3. TypeOK'
  BY <1>1, <1>2 DEF TypeOK
<1>4. OpInv' /\ RegsInv'
  BY <1>1 DEF OpInv, RegsInv
<1>5. ChipInv'
  BY <1>1, <1>2 DEF ChipInv
<1>6. From' = From /\ Reach' = Reach /\ before.tuned \in From
  BY <1>1 DEF From, Reach
<1>7. WhereInv'
  BY <1>1, <1>6 DEF WhereInv
<1>8. SeekInv'
  BY <1>1, <1>2, <1>6, Typed DEF SeekInv, ChipInv
<1>9. ~AtRest
  BY NothingAtRest
<1>10. CleanInv'
  <2> SUFFICES ASSUME before.clean = TRUE PROVE CleanInv'
    BY <1>1 DEF CleanInv
  <2>1. pc \notin {"read", "write", "write_high"}
    BY <1>9 DEF CleanInv
  <2>2. CASE pc = "idle"
    BY <1>1, <2>2 DEF CleanInv
  <2>3. CASE pc = "wait_high"
    <3>1. chip.stc = FALSE /\ clearing = FALSE /\ call.op \in {"set_channel", "seek"}
      BY <1>2, <2>3, Typed DEF CleanInv, ChipInv, OpInv
    <3>2. CASE call.op = "set_channel"
      BY <1>1, <1>2, <2>3, <3>1, <3>2 DEF CleanInv, Bits, Arrived
    <3>3. CASE call.op = "seek"
      BY <1>1, <1>2, <2>3, <3>1, <3>3 DEF CleanInv, Bits, Arrived
    <3> QED BY <3>1, <3>2, <3>3
  <2>4. CASE pc = "write_low"
    BY <1>2, <2>4 DEF CleanInv, ChipInv
  <2>5. CASE pc = "wait_low"
    BY <1>1, <1>2, <2>5 DEF CleanInv, ChipInv, Bits, Arrived
  <2> QED BY <2>1, <2>2, <2>3, <2>4, <2>5 DEF TypeOK
<1>11. RestInv' /\ CleanCallIsEffective'
  BY <1>1, <1>9 DEF RestInv, CleanCallIsEffective
<1>12. OutcomesAssumed'
  BY <1>1 DEF OutcomesAssumed, OutcomesOf
<1> QED BY <1>3, <1>4, <1>5, <1>7, <1>8, <1>10, <1>11, <1>12

-----------------------------------------------------------------------------
(* What the three writes of the driver do, whether they then report a      *)
(* failure or not.                                                         *)

LEMMA VolumeWritten ==
  ASSUME FmInv, pc = "write", Written(regs)
  PROVE  /\ chip' \in Registers
         /\ chip'.volume = ClampVolume(call.arg)
         /\ chip'.channel = chip.channel /\ chip'.tune = chip.tune /\ chip'.seek = chip.seek
         /\ chip'.seekup = chip.seekup /\ chip'.stc = chip.stc /\ chip'.sfbl = chip.sfbl
         /\ chip'.readchan = chip.readchan
         /\ UNCHANGED << busy, clearing >>
         /\ Heading' = Heading /\ AtRest' = AtRest
<1> USE DEF FmInv
<1>1. call.op = "set_volume"
  BY DEF OpInv
<1>2. /\ chip' \in Registers
      /\ chip'.volume = ClampVolume(call.arg)
      /\ chip'.channel = chip.channel /\ chip'.tune = chip.tune /\ chip'.seek = chip.seek
      /\ chip'.seekup = chip.seekup /\ chip'.stc = chip.stc /\ chip'.sfbl = chip.sfbl
      /\ chip'.readchan = chip.readchan
      /\ regs.tune = chip.tune /\ regs.seek = chip.seek
  BY <1>1, WrittenFields, Typed DEF RegsInv
<1>3. busy' = busy
  BY <1>2, Typed DEF Written, Begun, ChipInv, TypeOK
<1>4. clearing' = clearing
  BY <1>2, Typed DEF Written
<1>5. Heading' = Heading /\ AtRest' = AtRest
  BY <1>2, <1>3 DEF Heading, AtRest
<1> QED BY <1>2, <1>3, <1>4, <1>5

LEMMA HighWritten ==
  ASSUME FmInv, pc = "write_high", Written(regs)
  PROVE  /\ chip' \in Registers
         /\ chip'.volume = chip.volume
         /\ chip'.stc = chip.stc /\ chip'.sfbl = chip.sfbl /\ chip'.readchan = chip.readchan
         /\ UNCHANGED clearing
         /\ call.op = "set_channel" =>
              /\ chip'.channel = RegisterOf(call.arg) /\ chip'.tune = TRUE
              /\ chip'.seek = chip.seek /\ chip'.seekup = chip.seekup
              /\ busy' = IF busy = "idle" /\ ~chip.stc /\ ~chip.tune THEN "tune" ELSE busy
         /\ call.op = "seek" =>
              /\ chip'.seekup = call.arg /\ chip'.seek = TRUE
              /\ chip'.tune = chip.tune /\ chip'.channel = chip.channel
              /\ busy' = IF busy = "idle" /\ ~chip.stc /\ ~chip.seek THEN "seek" ELSE busy
         /\ call.op \in {"set_channel", "seek"}
         /\ Heading' \in Reach /\ chip'.readchan \in Reach
<1> USE DEF FmInv
<1>1. call.op \in {"set_channel", "seek"}
  BY DEF OpInv
<1>2. /\ chip' \in Registers
      /\ chip'.volume = regs.volume /\ chip'.channel = regs.channel /\ chip'.seekup = regs.seekup
      /\ chip'.tune = regs.tune /\ chip'.seek = regs.seek
      /\ chip'.stc = chip.stc /\ chip'.sfbl = chip.sfbl /\ chip'.readchan = chip.readchan
  BY WrittenFields, Typed
<1>3. /\ regs.volume = chip.volume
      /\ call.op = "set_channel" =>
           /\ regs.channel = RegisterOf(call.arg) /\ regs.tune = TRUE
           /\ regs.seek = chip.seek /\ regs.seekup = chip.seekup
      /\ call.op = "seek" =>
           /\ regs.seekup = call.arg /\ regs.seek = TRUE
           /\ regs.tune = chip.tune /\ regs.channel = chip.channel
  BY <1>1 DEF RegsInv
<1>4. clearing' = clearing
  BY <1>1, <1>3, Typed DEF Written
<1>5. call.op = "set_channel" =>
        busy' = IF busy = "idle" /\ ~chip.stc /\ ~chip.tune THEN "tune" ELSE busy
  <2> SUFFICES ASSUME call.op = "set_channel"
               PROVE  busy' = IF busy = "idle" /\ ~chip.stc /\ ~chip.tune THEN "tune" ELSE busy
    OBVIOUS
  <2>1. busy = "seek" => regs.seek = TRUE
    BY <1>3 DEF ChipInv
  <2>2. busy' = Begun(regs)
    BY <2>1 DEF Written
  <2>3. CASE busy # "idle" \/ chip.stc
    BY <2>2, <2>3 DEF Begun
  <2>4. CASE ~(busy # "idle" \/ chip.stc)
    <3>1. ~(~chip.seek /\ regs.seek)
      BY <1>3, Typed
    <3> QED BY <1>3, <2>2, <2>4, <3>1, Typed DEF Begun
  <2> QED BY <2>3, <2>4
<1>6. call.op = "seek" =>
        busy' = IF busy = "idle" /\ ~chip.stc /\ ~chip.seek THEN "seek" ELSE busy
  <2> SUFFICES ASSUME call.op = "seek"
               PROVE  busy' = IF busy = "idle" /\ ~chip.stc /\ ~chip.seek THEN "seek" ELSE busy
    OBVIOUS
  <2>1. busy = "seek" => regs.seek = TRUE
    BY <1>3 DEF ChipInv
  <2>2. busy' = Begun(regs)
    BY <2>1 DEF Written
  <2>3. CASE busy # "idle" \/ chip.stc
    BY <2>2, <2>3 DEF Begun
  <2>4. CASE ~(busy # "idle" \/ chip.stc)
    <3>1. ~(~chip.tune /\ regs.tune)
      BY <1>3, Typed
    <3> QED BY <1>3, <2>2, <2>4, <3>1, Typed DEF Begun
  <2> QED BY <2>3, <2>4
<1>7. Heading = before.tuned /\ chip.readchan \in From /\ before.tuned \in From
  BY DEF WhereInv, From
<1>8. chip'.readchan \in Reach
  BY <1>2, <1>7 DEF Reach
<1>9. Heading' \in Reach
  <2>1. CASE busy' = "idle"
    BY <1>8, <2>1 DEF Heading
  <2>2. CASE busy' = "tune"
    <3>1. CASE call.op = "set_channel"
      BY <1>2, <1>3, <2>2, <3>1 DEF Heading, Reach
    <3>2. CASE call.op = "seek"
      <4>1. busy = "tune" /\ chip'.channel = chip.channel
        BY <1>2, <1>3, <1>6, <2>2, <3>2
      <4> QED BY <1>7, <2>2, <4>1 DEF Heading, Reach
    <3> QED BY <1>1, <3>1, <3>2
  <2>3. CASE busy' = "seek"
    <3>1. CASE call.op = "set_channel"
      <4>1. busy = "seek" /\ chip'.seekup = chip.seekup
        BY <1>2, <1>3, <1>5, <2>3, <3>1
      <4> QED BY <1>2, <1>7, <2>3, <4>1 DEF Heading, Reach
    <3>2. CASE call.op = "seek"
      BY <1>2, <1>3, <1>7, <2>3, <3>2 DEF Heading, Reach
    <3> QED BY <1>1, <3>1, <3>2
  <2>4. busy' \in {"idle", "tune", "seek"}
    BY <1>1, <1>5, <1>6 DEF TypeOK
  <2> QED BY <2>1, <2>2, <2>3, <2>4
<1> QED BY <1>1, <1>2, <1>3, <1>4, <1>5, <1>6, <1>8, <1>9

LEMMA LowWritten ==
  ASSUME FmInv, pc = "write_low", Written(regs)
  PROVE  /\ chip' \in Registers
         /\ chip'.volume = chip.volume /\ chip'.channel = chip.channel /\ chip'.seekup = chip.seekup
         /\ chip'.stc = chip.stc /\ chip'.sfbl = chip.sfbl /\ chip'.readchan = chip.readchan
         /\ call.op = "set_channel" => chip'.tune = FALSE /\ chip'.seek = chip.seek
         /\ call.op = "seek" => chip'.seek = FALSE /\ chip'.tune = chip.tune
         /\ call.op \in {"set_channel", "seek"}
         /\ busy = "idle" /\ busy' = "idle"
         /\ clearing' = TRUE => chip.stc = TRUE
         /\ clearing = TRUE => clearing' = TRUE
         /\ chip.stc = TRUE /\ Bits(call.op = "set_channel", call.op = "seek") => clearing' = TRUE
         /\ clearing' \in BOOLEAN
         /\ Heading' = Heading
<1> USE DEF FmInv
<1>1. call.op \in {"set_channel", "seek"} /\ busy = "idle"
  BY DEF OpInv, ChipInv
<1>2. /\ chip' \in Registers
      /\ chip'.volume = regs.volume /\ chip'.channel = regs.channel /\ chip'.seekup = regs.seekup
      /\ chip'.tune = regs.tune /\ chip'.seek = regs.seek
      /\ chip'.stc = chip.stc /\ chip'.sfbl = chip.sfbl /\ chip'.readchan = chip.readchan
  BY WrittenFields, Typed
<1>3. /\ regs.volume = chip.volume /\ regs.channel = chip.channel /\ regs.seekup = chip.seekup
      /\ call.op = "set_channel" => regs.tune = FALSE /\ regs.seek = chip.seek
      /\ call.op = "seek" => regs.seek = FALSE /\ regs.tune = chip.tune
  BY <1>1 DEF RegsInv
<1>4. busy' = "idle"
  BY <1>1, <1>3, Typed DEF Written, Begun
<1>5. /\ clearing' = TRUE => chip.stc = TRUE
      /\ clearing = TRUE => clearing' = TRUE
      /\ chip.stc = TRUE /\ Bits(call.op = "set_channel", call.op = "seek") => clearing' = TRUE
      /\ clearing' \in BOOLEAN
  BY <1>1, <1>3, Typed DEF Written, Bits, ChipInv
<1>6. Heading' = Heading
  BY <1>1, <1>2, <1>4 DEF Heading
<1> QED BY <1>1, <1>2, <1>3, <1>4, <1>5, <1>6

-----------------------------------------------------------------------------

LEMMA WriteVolumeKeeps ==
  ASSUME FmInv, WriteVolume
  PROVE  FmInv'
<1> USE DEF FmInv
<1>1. /\ pc = "write" /\ Written(regs) /\ pc' = "idle" /\ ret' = regs.volume
      /\ UNCHANGED << regs, call, success, failures, before >>
  BY DEF WriteVolume, Returns
<1>2. /\ chip' \in Registers
      /\ chip'.volume = ClampVolume(call.arg)
      /\ chip'.seek = chip.seek /\ chip'.stc = chip.stc /\ chip'.readchan = chip.readchan
      /\ UNCHANGED << busy, clearing >>
      /\ Heading' = Heading /\ AtRest' = AtRest
  BY <1>1, VolumeWritten
<1>3. call.op = "set_volume" /\ call \in Calls /\ ret' = ClampVolume(call.arg)
  BY <1>1 DEF OpInv, RegsInv
<1>4. TypeOK'
  <2>1. VolumeRange \subseteq Int
    BY DEF VolumeRange, FM_TUNER_VOLUME_MIN, FM_TUNER_VOLUME_MAX
  <2> QED BY <1>1, <1>2, <2>1, Typed DEF TypeOK, Registers
<1>5. OpInv' /\ ChipInv' /\ RegsInv' /\ WhereInv' /\ SeekInv'
  BY <1>1, <1>2, <1>3 DEF OpInv, ChipInv, RegsInv, WhereInv, SeekInv
<1>6. CleanInv' /\ CleanCallIsEffective'
  BY <1>1, <1>3 DEF CleanInv, CleanCallIsEffective
<1>7. RestInv'
  BY <1>1, <1>2 DEF RestInv, CleanInv
<1>8. OutcomesAssumed'
  <2>1. [volume |-> ClampVolume(call.arg), ret |-> ClampVolume(call.arg), failed |-> 0]
          \in OutcomesOf(call.op, call.arg)
    BY <1>3, OutcomesByCall, SetVolumeOutcome
  <2>2. Heading' = before.tuned
    BY <1>1, <1>2 DEF WhereInv
  <2>3. OutcomesOf(call.op, call.arg)' = OutcomesOf(call.op, call.arg)
    BY <1>1 DEF OutcomesOf
  <2> QED BY <1>1, <1>2, <1>3, <2>1, <2>2, <2>3 DEF OutcomesAssumed
<1> QED BY <1>4, <1>5, <1>6, <1>7, <1>8

LEMMA WriteHighKeeps ==
  ASSUME FmInv, WriteHigh
  PROVE  FmInv'
<1> USE DEF FmInv
<1>1. /\ pc = "write_high" /\ Written(regs) /\ pc' = "wait_high"
      /\ UNCHANGED << regs, call, success, ret, failures, before >>
  BY DEF WriteHigh
<1>2. /\ chip' \in Registers
      /\ chip'.volume = chip.volume
      /\ chip'.stc = chip.stc /\ chip'.sfbl = chip.sfbl /\ chip'.readchan = chip.readchan
      /\ clearing' = clearing
      /\ call.op \in {"set_channel", "seek"}
      /\ Heading' \in Reach /\ chip'.readchan \in Reach
  BY <1>1, HighWritten
<1>3. call.op = "set_channel" =>
        /\ chip'.channel = RegisterOf(call.arg) /\ chip'.tune = TRUE
        /\ chip'.seek = chip.seek /\ chip'.seekup = chip.seekup
        /\ busy' = IF busy = "idle" /\ ~chip.stc /\ ~chip.tune THEN "tune" ELSE busy
  BY <1>1, HighWritten
<1>4. call.op = "seek" =>
        /\ chip'.seekup = call.arg /\ chip'.seek = TRUE
        /\ chip'.tune = chip.tune /\ chip'.channel = chip.channel
        /\ busy' = IF busy = "idle" /\ ~chip.stc /\ ~chip.seek THEN "seek" ELSE busy
  BY <1>1, HighWritten
<1>5. TypeOK' /\ OpInv' /\ RegsInv'
  BY <1>1, <1>2, <1>3, <1>4 DEF TypeOK, OpInv, RegsInv
<1>6. ChipInv'
  <2>1. CASE call.op = "set_channel"
    BY <1>1, <1>2, <1>3, <2>1 DEF ChipInv
  <2>2. CASE call.op = "seek"
    BY <1>1, <1>2, <1>4, <2>2 DEF ChipInv
  <2> QED BY <1>2, <2>1, <2>2
<1>7. From' = From /\ Reach' = Reach /\ before.tuned \in From
  BY <1>1 DEF From, Reach
<1>8. Heading = before.tuned /\ chip.readchan \in From
  BY <1>1 DEF WhereInv
<1>9. WhereInv'
  BY <1>1, <1>2, <1>7 DEF WhereInv
<1>10. SeekInv'
  <2> SUFFICES ASSUME call.op = "seek" PROVE SeekInv'
    BY <1>1 DEF SeekInv
  <2>1. busy' = "tune" => chip'.channel \in From
    BY <1>4, <1>7, <1>8 DEF Heading
  <2> QED BY <1>1, <1>2, <1>4, <1>7, <1>8, <2>1 DEF SeekInv
<1>11. CleanInv'
  <2> SUFFICES ASSUME before.clean = TRUE PROVE CleanInv'
    BY <1>1 DEF CleanInv
  <2>1. AtRest /\ before.shown = before.tuned
    BY <1>1 DEF CleanInv
  <2>2. chip.readchan = before.tuned /\ clearing = FALSE
    BY <1>8, <2>1, Typed DEF From, AtRest, ChipInv
  <2>3. CASE call.op = "set_channel"
    BY <1>1, <1>2, <1>3, <2>1, <2>2, <2>3, Typed DEF CleanInv, AtRest, Bits
  <2>4. CASE call.op = "seek"
    BY <1>1, <1>2, <1>4, <2>1, <2>2, <2>4, Typed DEF CleanInv, AtRest, Bits
  <2> QED BY <1>2, <2>3, <2>4
<1>12. RestInv' /\ OutcomesAssumed' /\ CleanCallIsEffective'
  BY <1>1 DEF RestInv, OutcomesAssumed, CleanCallIsEffective
<1> QED BY <1>5, <1>6, <1>9, <1>10, <1>11, <1>12

LEMMA WaitHighKeeps ==
  ASSUME FmInv, WaitHigh
  PROVE  FmInv'
<1> USE DEF FmInv
<1>1. /\ pc = "wait_high"
      /\ UNCHANGED << call, ret, chip, busy, clearing, failures, before >>
      /\ call.op \in {"set_channel", "seek"} /\ call \in Calls
  BY DEF WaitHigh, OpInv
<1>2. \/ /\ chip.stc = TRUE /\ pc' = "write_low"
         /\ call.op = "set_channel" => success' = success /\ regs' = [chip EXCEPT !.tune = FALSE]
         /\ call.op = "seek" => success' = ~chip.sfbl /\ regs' = [chip EXCEPT !.seek = FALSE]
      \/ chip.stc = FALSE /\ pc' = pc /\ regs' = chip /\ success' = success
  BY <1>1, Typed DEF WaitHigh
<1>3. regs' \in Registers /\ success' \in BOOLEAN
  BY <1>1, <1>2, Typed DEF Registers
<1>4. TypeOK' /\ OpInv'
  BY <1>1, <1>2, <1>3 DEF TypeOK, OpInv
<1>5. ChipInv'
  BY <1>1, <1>2 DEF ChipInv, TypeOK
<1>6. RegsInv'
  BY <1>1, <1>2, Typed DEF RegsInv, Registers
<1>7. From' = From /\ Reach' = Reach /\ Heading' = Heading
  BY <1>1 DEF From, Reach, Heading
<1>8. WhereInv'
  BY <1>1, <1>2, <1>7 DEF WhereInv
<1>9. SeekInv'
  BY <1>1, <1>2, <1>7, Typed DEF SeekInv, ChipInv
<1>10. CleanInv'
  BY <1>1, <1>2, Typed DEF CleanInv, Arrived, Bits
<1>11. RestInv' /\ OutcomesAssumed' /\ CleanCallIsEffective'
  BY <1>1, <1>2 DEF RestInv, OutcomesAssumed, CleanCallIsEffective
<1> QED BY <1>4, <1>5, <1>6, <1>8, <1>9, <1>10, <1>11

LEMMA WriteLowKeeps ==
  ASSUME FmInv, WriteLow
  PROVE  FmInv'
<1> USE DEF FmInv
<1>1. /\ pc = "write_low" /\ Written(regs) /\ pc' = "wait_low"
      /\ UNCHANGED << regs, call, success, ret, failures, before >>
  BY DEF WriteLow
<1>2. /\ chip' \in Registers
      /\ chip'.volume = chip.volume /\ chip'.channel = chip.channel /\ chip'.seekup = chip.seekup
      /\ chip'.stc = chip.stc /\ chip'.sfbl = chip.sfbl /\ chip'.readchan = chip.readchan
      /\ call.op = "set_channel" => chip'.tune = FALSE /\ chip'.seek = chip.seek
      /\ call.op = "seek" => chip'.seek = FALSE /\ chip'.tune = chip.tune
      /\ call.op \in {"set_channel", "seek"}
      /\ busy = "idle" /\ busy' = "idle"
      /\ clearing' = TRUE => chip.stc = TRUE
      /\ chip.stc = TRUE /\ Bits(call.op = "set_channel", call.op = "seek") => clearing' = TRUE
      /\ clearing' \in BOOLEAN
      /\ Heading' = Heading
  BY <1>1, LowWritten
<1>3. TypeOK' /\ OpInv' /\ RegsInv'
  BY <1>1, <1>2 DEF TypeOK, OpInv, RegsInv
<1>4. ChipInv'
  BY <1>1, <1>2 DEF ChipInv
<1>5. From' = From /\ Reach' = Reach
  BY <1>1 DEF From, Reach
<1>6. WhereInv' /\ SeekInv'
  BY <1>1, <1>2, <1>5 DEF WhereInv, SeekInv
<1>7. CleanInv'
  BY <1>1, <1>2 DEF CleanInv, Arrived, Bits
<1>8. RestInv' /\ OutcomesAssumed' /\ CleanCallIsEffective'
  BY <1>1 DEF RestInv, OutcomesAssumed, CleanCallIsEffective
<1> QED BY <1>3, <1>4, <1>6, <1>7, <1>8

LEMMA WaitLowKeeps ==
  ASSUME FmInv, WaitLow
  PROVE  FmInv'
<1> USE DEF FmInv
<1>1. /\ pc = "wait_low" /\ regs' = chip
      /\ UNCHANGED << call, success, chip, busy, clearing, failures, before >>
      /\ call.op \in {"set_channel", "seek"} /\ call \in Calls
  BY DEF WaitLow, OpInv
<1>2. \/ chip.stc = TRUE /\ pc' = pc /\ ret' = ret
      \/ /\ chip.stc = FALSE /\ pc' = "idle"
         /\ call.op = "set_channel" => ret' = call.arg
         /\ call.op = "seek" => ret' = ChannelOf(chip.readchan)
  BY <1>1, Typed DEF WaitLow, Returns
<1>3. From' = From /\ Reach' = Reach /\ Heading' = Heading /\ AtRest' = AtRest
  BY <1>1 DEF From, Reach, Heading, AtRest
<1>4. TypeOK'
  <2>1. ret' \in Int
    BY <1>1, <1>2, Typed, ChannelType, CallTyped
  <2> QED BY <1>1, <1>2, <2>1, Typed DEF TypeOK
<1>5. OpInv' /\ ChipInv' /\ RegsInv'
  BY <1>1, <1>2 DEF OpInv, ChipInv, RegsInv
<1>6. WhereInv' /\ SeekInv'
  BY <1>1, <1>2, <1>3 DEF WhereInv, SeekInv
<1>7. CleanInv'
  BY <1>1, <1>2 DEF CleanInv, Arrived, Bits
<1>8. chip.stc = FALSE /\ before.clean = TRUE => AtRest /\ Arrived
  BY <1>1, Typed DEF CleanInv, ChipInv, Bits, AtRest
<1>9. RestInv'
  BY <1>1, <1>2, <1>3, <1>8 DEF RestInv
<1>10. CleanCallIsEffective'
  BY <1>1, <1>2, <1>3, <1>8 DEF CleanCallIsEffective, Arrived
<1>11. OutcomesAssumed'
  <2> SUFFICES ASSUME chip.stc = FALSE
               PROVE  \E o \in OutcomesOf(call.op, call.arg) :
                        /\ o.ret = ret'
                        /\ o.tuned = Heading /\ chip.readchan = o.tuned
                        /\ call.op = "seek" => o.success = success
    <3>1. chip.volume = before.volume
      BY <1>1 DEF WhereInv
    <3>2. OutcomesOf(call.op, call.arg)' = OutcomesOf(call.op, call.arg)
      BY <1>1 DEF OutcomesOf
    <3> QED BY <1>1, <1>2, <1>3, <3>1, <3>2 DEF OutcomesAssumed
  <2>1. Heading = chip.readchan /\ chip.readchan \in Reach
    BY <1>1, HeadingIdle DEF ChipInv, WhereInv
  <2>2. before.rest = TRUE => before.clean = TRUE /\ Arrived
    BY <1>1, <1>8 DEF RestInv
  <2>3. CASE call.op = "set_channel"
    <3>1. chip.readchan = RegisterOf(call.arg) \/ (~before.rest /\ chip.readchan \in From)
      BY <2>1, <2>2, <2>3 DEF Reach, Arrived, TypeOK
    <3>2. At(chip.readchan, call.arg, FALSE) \in SetChannelOutcomes(From, before.rest, call.arg)
      BY <3>1, SetChannelOutcome
    <3>3. At(chip.readchan, call.arg, FALSE) \in OutcomesOf(call.op, call.arg)
      BY <2>3, <3>2, OutcomesByCall
    <3> QED BY <1>2, <2>1, <2>3, <3>3 DEF At
  <2>4. CASE call.op = "seek"
    <3>1. CASE ~before.rest /\ chip.readchan \in From
      <4>1. At(chip.readchan, ChannelOf(chip.readchan), success) \in SeekOutcomes(From, before.rest, call.arg)
        BY <3>1, SeekOutcome, Typed
      <4>2. At(chip.readchan, ChannelOf(chip.readchan), success) \in OutcomesOf(call.op, call.arg)
        BY <2>4, <4>1, OutcomesByCall
      <4> QED BY <1>2, <2>1, <2>4, <4>2 DEF At
    <3>2. CASE before.rest = TRUE \/ chip.readchan \notin From
      <4>1. PICK f \in From :
              SeekEnd(f, call.arg).readchan = chip.readchan /\ success = ~SeekEnd(f, call.arg).sfbl
        <5>1. CASE before.rest = TRUE
          <6>1. /\ chip.readchan = SeekEnd(before.tuned, call.arg).readchan
                /\ success = ~SeekEnd(before.tuned, call.arg).sfbl
                /\ before.tuned \in From
            BY <1>1, <2>2, <2>4, <5>1 DEF CleanInv, Arrived, From
          <6> QED BY <6>1
        <5>2. CASE chip.readchan \notin From
          <6>1. PICK f \in From :
                  SeekEnd(f, call.arg).readchan = chip.readchan /\ SeekEnd(f, call.arg).sfbl = ~success
            BY <1>1, <2>4, <5>2 DEF SeekInv
          <6>2. success = ~SeekEnd(f, call.arg).sfbl
            BY <6>1, Typed
          <6> QED BY <6>1, <6>2
        <5> QED BY <3>2, <5>1, <5>2
      <4>2. At(SeekEnd(f, call.arg).readchan, ChannelOf(SeekEnd(f, call.arg).readchan),
               ~SeekEnd(f, call.arg).sfbl) \in SeekOutcomes(From, before.rest, call.arg)
        BY SeekOutcome
      <4>3. At(chip.readchan, ChannelOf(chip.readchan), success) \in SeekOutcomes(From, before.rest, call.arg)
        BY <4>1, <4>2
      <4>4. At(chip.readchan, ChannelOf(chip.readchan), success) \in OutcomesOf(call.op, call.arg)
        BY <2>4, <4>3, OutcomesByCall
      <4> QED BY <1>2, <2>1, <2>4, <4>4 DEF At
    <3> QED BY <3>1, <3>2 DEF TypeOK
  <2> QED BY <1>1, <2>3, <2>4
<1> QED BY <1>4, <1>5, <1>6, <1>7, <1>9, <1>10, <1>11

LEMMA TransferFailsKeeps ==
  ASSUME FmInv, TransferFails
  PROVE  FmInv'
<1> USE DEF FmInv
<1>1. /\ pc # "idle" /\ pc' = "idle" /\ ret' = -1 /\ call \in Calls
      /\ failures < MaxFailures /\ failures' = failures + 1
      /\ UNCHANGED << regs, call, success >>
  BY DEF TransferFails, Returns, OpInv
<1>2. /\ before' \in [clean : BOOLEAN, rest : BOOLEAN, tuned : ChannelRegister, shown : ChannelRegister,
                      volume : VolumeRange]
      /\ before'.tuned = before.tuned /\ before'.shown = before.shown /\ before'.volume = before.volume
      /\ before'.rest = TRUE => before.rest = TRUE /\ call.op \notin {"set_channel", "seek"}
  BY DEF TransferFails, TypeOK
<1>3. \/ UNCHANGED << chip, busy, clearing >>
      \/ pc \in {"write", "write_high", "write_low"} /\ Written(regs)
  BY DEF TransferFails
<1>4. From' = From /\ Reach' = Reach /\ before.tuned \in From
  BY <1>1, <1>2 DEF From, Reach
<1>5. call.op \notin {"set_channel", "seek"} => pc \in {"read", "write"}
  BY <1>1 DEF OpInv, TypeOK
<1>6. /\ chip' \in Registers /\ busy' \in {"idle", "tune", "seek"} /\ clearing' \in BOOLEAN
      /\ busy' # "idle" => chip'.stc = FALSE
      /\ clearing' = TRUE => chip'.stc = TRUE
      /\ busy' = "seek" => chip'.seek = TRUE
      /\ call.op # "set_volume" => chip'.volume = before.volume
      /\ call.op = "set_volume" => chip'.volume \in {before.volume, ClampVolume(call.arg)}
      /\ call.op \notin {"set_channel", "seek"} => Heading' = before.tuned /\ AtRest' = AtRest
      /\ call.op \in {"set_channel", "seek"} => Heading' \in Reach /\ chip'.readchan \in Reach
  <2>1. CASE UNCHANGED << chip, busy, clearing >>
    <3>1. Heading' = Heading /\ AtRest' = AtRest
      BY <2>1 DEF Heading, AtRest
    <3>2. Heading \in Reach /\ chip.readchan \in Reach
      BY <1>1, <1>4 DEF WhereInv, Reach, TypeOK
    <3>3. chip.volume = before.volume /\ (call.op \notin {"set_channel", "seek"} => Heading = before.tuned)
      BY <1>1, <1>5 DEF WhereInv
    <3> QED BY <2>1, <3>1, <3>2, <3>3, Typed DEF ChipInv, TypeOK
  <2>2. CASE pc = "write" /\ Written(regs)
    <3>1. /\ chip' \in Registers /\ chip'.volume = ClampVolume(call.arg)
          /\ chip'.seek = chip.seek /\ chip'.stc = chip.stc
          /\ UNCHANGED << busy, clearing >>
          /\ Heading' = Heading /\ AtRest' = AtRest
      BY <2>2, VolumeWritten
    <3>2. call.op = "set_volume" /\ Heading = before.tuned
      BY <2>2 DEF OpInv, WhereInv
    <3> QED BY <3>1, <3>2, Typed DEF ChipInv, TypeOK
  <2>3. CASE pc = "write_high" /\ Written(regs)
    <3>1. UNCHANGED << call, before.tuned, before.shown >>
      BY <1>1, <1>2
    <3>2. /\ chip' \in Registers
          /\ chip'.volume = chip.volume
          /\ chip'.stc = chip.stc /\ clearing' = clearing
          /\ call.op \in {"set_channel", "seek"}
          /\ Heading' \in Reach /\ chip'.readchan \in Reach
      BY <2>3, HighWritten
    <3>3. call.op = "set_channel" =>
            /\ chip'.seek = chip.seek
            /\ busy' = IF busy = "idle" /\ ~chip.stc /\ ~chip.tune THEN "tune" ELSE busy
      BY <2>3, HighWritten
    <3>4. call.op = "seek" =>
            /\ chip'.seek = TRUE
            /\ busy' = IF busy = "idle" /\ ~chip.stc /\ ~chip.seek THEN "seek" ELSE busy
      BY <2>3, HighWritten
    <3>5. chip.volume = before.volume
      BY <1>1 DEF WhereInv
    <3>6. CASE call.op = "set_channel"
      BY <3>2, <3>3, <3>5, <3>6, Typed DEF ChipInv, TypeOK
    <3>7. CASE call.op = "seek"
      BY <3>2, <3>4, <3>5, <3>7, Typed DEF ChipInv, TypeOK
    <3> QED BY <3>2, <3>6, <3>7
  <2>4. CASE pc = "write_low" /\ Written(regs)
    <3>1. /\ chip' \in Registers
          /\ chip'.volume = chip.volume
          /\ chip'.stc = chip.stc /\ chip'.readchan = chip.readchan
          /\ call.op \in {"set_channel", "seek"}
          /\ busy' = "idle"
          /\ clearing' = TRUE => chip.stc = TRUE
          /\ clearing' \in BOOLEAN
          /\ Heading' = Heading
      BY <2>4, LowWritten
    <3>2. Heading \in Reach /\ chip.readchan \in Reach /\ chip.volume = before.volume
      BY <2>4 DEF WhereInv
    <3> QED BY <3>1, <3>2
  <2> QED BY <1>3, <2>1, <2>2, <2>3, <2>4
<1>7. TypeOK'
  <2>1. failures' \in 0..MaxFailures
    BY <1>1, FmTunerAssumption DEF TypeOK
  <2> QED BY <1>1, <1>2, <1>6, <2>1 DEF TypeOK
<1>8. OpInv' /\ ChipInv' /\ RegsInv' /\ WhereInv' /\ SeekInv' /\ CleanInv'
  BY <1>1, <1>6 DEF OpInv, ChipInv, RegsInv, WhereInv, SeekInv, CleanInv
<1>9. RestInv'
  <2>1. failures' # 0
    BY <1>1 DEF TypeOK
  <2>2. before'.rest = TRUE => AtRest
    BY <1>1, <1>2, <1>5 DEF RestInv, CleanInv
  <2> QED BY <1>1, <1>2, <1>6, <2>1, <2>2 DEF RestInv
<1>10. CleanCallIsEffective'
  BY <1>1 DEF CleanCallIsEffective
<1>11. OutcomesAssumed'
  <2> DEFINE outcomes == OutcomesOf(call.op, call.arg)'
  <2>1. /\ call.op = "set_volume"  => outcomes = SetVolumeOutcomes(before.volume, call.arg)
        /\ call.op = "set_channel" => outcomes = SetChannelOutcomes(From, before'.rest, call.arg)
        /\ call.op = "seek"        => outcomes = SeekOutcomes(From, before'.rest, call.arg)
        /\ call.op = "get_volume"  => outcomes = GetOutcomes({before.volume})
        /\ call.op = "get_channel" => outcomes = GetOutcomes({ChannelOf(f) : f \in From})
    BY <1>1, <1>2 DEF OutcomesOf, From
  <2> HIDE DEF outcomes
  <2> SUFFICES \E o \in outcomes :
                 /\ o.ret = -1
                 /\ IF call.op = "set_volume" THEN o.volume = chip'.volume ELSE chip'.volume = before.volume
                 /\ IF call.op \in {"set_channel", "seek"}
                    THEN o.tuned = Heading' /\ chip'.readchan \in {o.tuned, o.shown}
                    ELSE Heading' = before.tuned
    BY <1>1, <1>2 DEF OutcomesAssumed, outcomes
  <2>2. CASE call.op \in {"get_volume", "get_channel"}
    <3>1. [ret |-> -1, failed |-> 1] \in outcomes
      BY <2>1, <2>2, GetOutcome
    <3> QED BY <1>6, <2>2, <3>1
  <2>3. CASE call.op = "set_volume"
    <3>1. PICK w \in {before.volume, ClampVolume(call.arg)} : chip'.volume = w
      BY <1>6, <2>3
    <3>2. [volume |-> w, ret |-> -1, failed |-> 1] \in outcomes
      BY <2>1, <2>3, SetVolumeOutcome
    <3> QED BY <1>6, <2>3, <3>1, <3>2
  <2>4. CASE call.op \in {"set_channel", "seek"}
    <3>1. [tuned |-> Heading', shown |-> chip'.readchan, ret |-> -1, success |-> FALSE, failed |-> 1] \in outcomes
      BY <1>6, <2>1, <2>4, FailedOutcome
    <3> QED BY <1>6, <2>4, <3>1
  <2> QED BY <1>1, <2>2, <2>3, <2>4, CallTyped
<1> QED BY <1>7, <1>8, <1>9, <1>10, <1>11


-----------------------------------------------------------------------------

LEMMA FmStutter ==
  ASSUME FmInv, UNCHANGED vars
  PROVE  FmInv'
<1>1. /\ UNCHANGED << regs, pc, call, success, ret, chip, busy, clearing, failures, before >>
  BY DEF vars
<1>2. From' = From /\ Reach' = Reach /\ Heading' = Heading /\ AtRest' = AtRest
  BY <1>1 DEF From, Reach, Heading, AtRest
<1>3. TypeOK' /\ OpInv' /\ ChipInv' /\ RegsInv'
  BY <1>1 DEF FmInv, TypeOK, OpInv, ChipInv, RegsInv
<1>4. WhereInv' /\ SeekInv' /\ CleanInv' /\ RestInv'
  BY <1>1, <1>2 DEF FmInv, WhereInv, SeekInv, CleanInv, RestInv, Arrived, Bits
<1>5. OutcomesAssumed' /\ CleanCallIsEffective'
  BY <1>1, <1>2 DEF FmInv, OutcomesAssumed, OutcomesOf, CleanCallIsEffective
<1> QED BY <1>3, <1>4, <1>5 DEF FmInv

LEMMA FmStep ==
  ASSUME FmInv, [Next]_vars
  PROVE  FmInv'
BY CallKeeps, ReadKeeps, WriteVolumeKeeps, WriteHighKeeps, WaitHighKeeps, WriteLowKeeps, WaitLowKeeps,
   TransferFailsKeeps, ChipKeeps, FmStutter
   DEF Next, Driver

(* FmInv is an invariant: the chip and the driver, in whatever order they  *)
(* take their steps and whichever transfers fail, never leave it.          *)
THEOREM FmInvariance == Spec => []FmInv
<1>1. Init => FmInv
  BY FmInit
<1>2. FmInv /\ [Next]_vars => FmInv'
  BY FmStep
<1> QED BY <1>1, <1>2, PTL DEF Spec

(* The registers, the copy the driver has of them and its own state stay   *)
(* in their types: a channel never leaves the ten bits of its register.    *)
THEOREM FmTypeCorrect == Spec => []TypeOK
<1>1. FmInv => TypeOK
  BY DEF FmInv
<1> QED BY <1>1, FmInvariance, PTL

(* A set_channel that finds the chip at rest and reports no failure has    *)
(* tuned it and has left it at rest, whatever has failed before.           *)
THEOREM FmCleanCallIsEffective == Spec => []CleanCallIsEffective
<1>1. FmInv => CleanCallIsEffective
  BY DEF FmInv
<1> QED BY <1>1, FmInvariance, PTL

(* Whatever has failed, a call of the driver has one of the outcomes that  *)
(* Service has the handlers deal with (handler.c:82).                      *)
THEOREM FmOutcomesAssumed == Spec => []OutcomesAssumed
<1>1. FmInv => OutcomesAssumed
  BY DEF FmInv
<1> QED BY <1>1, FmInvariance, PTL

(* Until a transfer fails, TUNE and SEEK are set while STC is low and the  *)
(* chip is not tuning or seeking, as doc/AN230.pdf asks for.               *)
THEOREM FmHandshakeRespected == Spec => HandshakeRespected
<1>1. FmInv /\ [Next]_vars =>
        [(~chip.tune /\ chip'.tune) \/ (~chip.seek /\ chip'.seek)
           => failures > 0 \/ (busy = "idle" /\ ~chip.stc)]_vars
  <2> SUFFICES ASSUME FmInv, Next, (~chip.tune /\ chip'.tune) \/ (~chip.seek /\ chip'.seek), failures = 0
               PROVE  busy = "idle" /\ ~chip.stc
    BY DEF FmInv, TypeOK
  <2> USE DEF FmInv
  <2>1. chip' # chip
    OBVIOUS
  <2>2. before.rest = TRUE
    BY DEF RestInv
  <2>3. ~Chip
    BY ChipStep, Typed
  <2>4. pc \in {"write", "write_high", "write_low"} /\ Written(regs)
    BY <2>1, <2>3 DEF Next, Driver, Call, Read, WriteVolume, WriteHigh, WaitHigh, WriteLow, WaitLow,
       TransferFails
  <2>5. chip'.tune = regs.tune /\ chip'.seek = regs.seek
    BY <2>4, WrittenFields, Typed
  <2>6. pc # "write" /\ pc # "write_low"
    BY <2>5, Typed DEF RegsInv, OpInv
  <2> QED BY <2>2, <2>4, <2>6 DEF RestInv, CleanInv, AtRest
<1> QED BY <1>1, FmInvariance, PTL DEF Spec, HandshakeRespected


-----------------------------------------------------------------------------
(* FmTuner implements Tuner.                                               *)

(* Tuner converts channels and volumes as the driver does. *)
LEMMA SameBand ==
  /\ \A v : T!ClampVolume(v) = ClampVolume(v)
  /\ \A channel : T!RegisterOf(channel) = RegisterOf(channel)
  /\ \A readchan : T!ChannelOf(readchan) = ChannelOf(readchan)
  /\ \A from, direction : T!SeekEnd(from, direction) = SeekEnd(from, direction)
<1>1. \A v : T!ClampVolume(v) = ClampVolume(v)
  BY DEF T!ClampVolume, ClampVolume, T!FM_TUNER_VOLUME_MAX, FM_TUNER_VOLUME_MAX, T!FM_TUNER_VOLUME_MIN,
     FM_TUNER_VOLUME_MIN
<1>2. \A channel : T!RegisterOf(channel) = RegisterOf(channel)
  BY DEF T!RegisterOf, RegisterOf, T!Half, Half, T!FM_TUNER_CHANNEL_START, FM_TUNER_CHANNEL_START
<1>3. \A readchan : T!ChannelOf(readchan) = ChannelOf(readchan)
  BY DEF T!ChannelOf, ChannelOf, T!FM_TUNER_CHANNEL_START, FM_TUNER_CHANNEL_START
<1>4. \A from, direction : T!SeekEnd(from, direction) = SeekEnd(from, direction)
  <2>1. (\A S : T!Min(S) = Min(S)) /\ (\A S : T!Max(S) = Max(S))
    BY DEF T!Min, Min, T!Max, Max
  <2> QED BY <2>1 DEF T!SeekEnd, SeekEnd, T!FM_TUNER_SEEKDOWN, FM_TUNER_SEEKDOWN
<1> QED BY <1>1, <1>2, <1>3, <1>4

(* A step before any transfer has failed finds the chip at rest, or in the *)
(* handshake of the call.                                                  *)
LEMMA Unbroken ==
  ASSUME FmInv, failures = 0
  PROVE  /\ pc \in {"idle", "read", "write", "write_high"} => AtRest
         /\ before.clean = TRUE \/ pc = "idle"
BY DEF FmInv, RestInv, CleanInv


(* Tuner promises nothing from the first failure on. *)
LEMMA Broken ==
  ASSUME FmInv, Next, failures # 0 \/ failures' # 0
  PROVE  T!Break
<1>1. failures \in Nat /\ failures' \in {failures, failures + 1}
  <2>1. failures \in Nat
    BY DEF FmInv, TypeOK
  <2>2. Chip => failures' = failures
    BY DEF Chip, TuneDone, SeekDone, StcCleared
  <2>3. failures' \in {failures, failures + 1}
    BY <2>2 DEF Next, Call, Driver, Read, WriteVolume, WriteHigh, WaitHigh, WriteLow, WaitLow, TransferFails
  <2> QED BY <2>1, <2>3
<1> QED BY <1>1 DEF T!Break

(* Until then every step of FmTuner is one of Tuner or changes nothing in  *)
(* it.                                                                     *)
LEMMA CallImplements ==
  ASSUME FmInv, failures = 0, Call
  PROVE  T!Next
BY DEF Call, T!Next, T!Invoke, T!NoCall, NoCall

LEMMA ReadImplements ==
  ASSUME FmInv, failures = 0, Read
  PROVE  T!Next \/ UNCHANGED T!vars
<1> USE DEF FmInv
<1>1. /\ pc = "read" /\ call \in Calls /\ call # NoCall
      /\ UNCHANGED << call, success, chip, busy, clearing, failures, before >>
  BY CallTyped DEF Read, OpInv, NoCall
<1>2. CASE call.op = "get_volume"
  <2>1. pc' = "idle" /\ ret' = chip.volume
    BY <1>2 DEF Read, Returns
  <2> QED BY <1>1, <1>2, <2>1 DEF T!Next, T!Return, T!NoCall, NoCall
<1>3. CASE call.op = "get_channel"
  <2>1. pc' = "idle" /\ ret' = ChannelOf(chip.readchan)
    BY <1>3 DEF Read, Returns
  <2> QED BY <1>1, <1>3, <2>1, SameBand DEF T!Next, T!Return, T!NoCall, NoCall
<1>4. CASE call.op \in {"set_volume", "set_channel", "seek"}
  <2>1. pc' \in {"write", "write_high"} /\ ret' = ret
    BY <1>4 DEF Read
  <2> QED BY <1>1, <2>1 DEF T!vars
<1> QED BY <1>1, <1>2, <1>3, <1>4, CallTyped

LEMMA WriteVolumeImplements ==
  ASSUME FmInv, failures = 0, WriteVolume
  PROVE  T!Next
<1> USE DEF FmInv
<1>1. /\ pc = "write" /\ Written(regs) /\ pc' = "idle" /\ ret' = regs.volume
      /\ UNCHANGED << regs, call, success, failures, before >>
  BY DEF WriteVolume, Returns
<1>2. chip'.volume = ClampVolume(call.arg) /\ chip'.readchan = chip.readchan
  BY <1>1, VolumeWritten
<1>3. call.op = "set_volume" /\ call # NoCall /\ ret' = chip'.volume
  BY <1>1, <1>2 DEF OpInv, RegsInv, NoCall
<1>4. T!Effect
  BY <1>1, <1>2, <1>3, SameBand DEF T!Effect
<1> QED BY <1>1, <1>3, <1>4 DEF T!Next, T!Return, T!NoCall, NoCall

LEMMA WriteHighImplements ==
  ASSUME FmInv, failures = 0, WriteHigh
  PROVE  UNCHANGED T!vars
<1>1. /\ pc = "write_high" /\ Written(regs) /\ pc' = "wait_high"
      /\ UNCHANGED << regs, call, success, ret, failures, before >>
  BY DEF WriteHigh
<1>2. /\ chip'.volume = chip.volume /\ chip'.stc = chip.stc /\ chip'.readchan = chip.readchan
  BY <1>1, HighWritten
<1>3. ~chip.stc
  BY <1>1, Unbroken DEF AtRest
<1> QED BY <1>1, <1>2, <1>3 DEF T!vars

LEMMA WaitHighImplements ==
  ASSUME FmInv, failures = 0, WaitHigh
  PROVE  UNCHANGED T!vars
BY Typed DEF FmInv, WaitHigh, T!vars

LEMMA WriteLowImplements ==
  ASSUME FmInv, failures = 0, WriteLow
  PROVE  UNCHANGED T!vars
<1>1. /\ pc = "write_low" /\ Written(regs) /\ pc' = "wait_low"
      /\ UNCHANGED << regs, call, success, ret, failures, before >>
  BY DEF WriteLow
<1>2. /\ chip'.volume = chip.volume /\ chip'.stc = chip.stc /\ chip'.readchan = chip.readchan
  BY <1>1, LowWritten
<1> QED BY <1>1, <1>2 DEF T!vars

LEMMA WaitLowImplements ==
  ASSUME FmInv, failures = 0, WaitLow
  PROVE  T!Next \/ UNCHANGED T!vars
<1> USE DEF FmInv
<1>1. /\ pc = "wait_low"
      /\ UNCHANGED << call, success, chip, busy, clearing, failures, before >>
      /\ call.op \in {"set_channel", "seek"} /\ call # NoCall
  BY DEF WaitLow, OpInv, NoCall
<1>2. CASE chip.stc
  BY <1>1, <1>2 DEF WaitLow, T!vars
<1>3. CASE ~chip.stc
  <2>1. /\ pc' = "idle"
        /\ call.op = "set_channel" => ret' = call.arg
        /\ call.op = "seek" => ret' = ChannelOf(chip.readchan)
    BY <1>1, <1>3 DEF WaitLow, Returns
  <2> QED BY <1>1, <2>1, SameBand DEF T!Next, T!Return, T!NoCall, NoCall
<1> QED BY <1>2, <1>3

(* The tuner has moved when the chip says so with STC. *)
LEMMA ChipImplements ==
  ASSUME FmInv, failures = 0, Chip
  PROVE  T!Next \/ UNCHANGED T!vars
<1> USE DEF FmInv
<1>1. /\ chip'.volume = chip.volume
      /\ UNCHANGED << regs, pc, call, success, ret, failures, before >>
  BY ChipStep
<1>2. pc \in {"wait_high", "write_low", "wait_low"} /\ before.clean = TRUE
  BY NothingAtRest, Unbroken DEF TypeOK
<1>3. call.op \in {"set_channel", "seek"} /\ call # NoCall
  BY <1>2 DEF OpInv, NoCall
<1>4. CASE TuneDone
  <2>1. busy = "tune" /\ chip'.stc = TRUE /\ chip'.readchan = chip.channel /\ chip.stc = FALSE
    BY <1>4, Typed DEF TuneDone, Registers, ChipInv
  <2>2. pc = "wait_high"
    BY <1>2, <2>1 DEF ChipInv
  <2>3. call.op = "set_channel" /\ chip.channel = RegisterOf(call.arg)
    BY <1>2, <1>3, <2>1, <2>2 DEF CleanInv
  <2>4. T!Effect
    BY <1>1, <2>1, <2>2, <2>3, SameBand DEF T!Effect
  <2> QED BY <1>1, <1>3, <2>1, <2>2, <2>4 DEF T!Next, T!TakeEffect
<1>5. CASE SeekDone
  <2>1. /\ busy = "seek" /\ chip'.stc = TRUE /\ chip.stc = FALSE
        /\ chip'.readchan = SeekEnd(chip.readchan, chip.seekup).readchan
        /\ chip'.sfbl = SeekEnd(chip.readchan, chip.seekup).sfbl
    BY <1>5, Typed DEF SeekDone, Registers, ChipInv
  <2>2. pc = "wait_high"
    BY <1>2, <2>1 DEF ChipInv
  <2>3. call.op = "seek" /\ chip.seekup = call.arg
    BY <1>2, <1>3, <2>1, <2>2 DEF CleanInv
  <2>4. T!Effect
    BY <1>1, <2>1, <2>2, <2>3, SameBand DEF T!Effect
  <2> QED BY <1>1, <1>3, <2>1, <2>2, <2>4 DEF T!Next, T!TakeEffect
<1>6. CASE StcCleared
  <2>1. clearing = TRUE /\ chip'.readchan = chip.readchan /\ chip.stc = TRUE
    BY <1>6, Typed DEF StcCleared, Registers, ChipInv
  <2>2. pc = "wait_low"
    BY <1>2, <2>1 DEF CleanInv
  <2> QED BY <1>1, <2>1, <2>2 DEF T!vars
<1> QED BY <1>4, <1>5, <1>6 DEF Chip

(* The driver and the chip implement what fm_tuner.h promises: until a     *)
(* transfer fails each call moves the tuner once, before it returns, and   *)
(* returns where it has moved it to.                                       *)
THEOREM FmImplementsTuner == Spec => ImplementsTuner
<1>1. Init => T!Init
  BY DEF Init, T!Init, T!NoCall, NoCall
<1>2. FmInv /\ [Next]_vars => [T!Next]_(T!vars)
  <2>1. ASSUME FmInv, Next, failures # 0 \/ failures' # 0
        PROVE  T!Next
    BY <2>1, Broken DEF T!Next
  <2>2. ASSUME FmInv, Next, failures = 0, failures' = 0
        PROVE  T!Next \/ UNCHANGED T!vars
    <3>1. ~TransferFails
      BY <2>2 DEF TransferFails
    <3> QED BY <2>2, <3>1, CallImplements, ReadImplements, WriteVolumeImplements, WriteHighImplements,
          WaitHighImplements, WriteLowImplements, WaitLowImplements, ChipImplements DEF Next, Driver
  <2>3. ASSUME UNCHANGED vars PROVE UNCHANGED T!vars
    BY <2>3 DEF vars, T!vars
  <2> QED BY <2>1, <2>2, <2>3
<1> QED BY <1>1, <1>2, FmInvariance, PTL DEF Spec, ImplementsTuner, T!Spec

=============================================================================
