--------------------------- MODULE ProcessProofs ---------------------------
(***************************************************************************)
(* Proofs about Process: whatever an earlier life of the program has left  *)
(* in the pins and the chip, a new one finds the tuner ready; from then on *)
(* the invariant of FmTuner holds until the life ends.  A scan lists the   *)
(* stations of the band.                                                   *)
(***************************************************************************)
EXTENDS Process, FmTunerProofs, SequenceTheorems

(* The registers of a chip that has been reset.                            *)
ResetChip ==
  [volume |-> 0, channel |-> 0, tune |-> FALSE, seek |-> FALSE,
   seekup |-> FM_TUNER_SEEKDOWN, stc |-> FALSE, sfbl |-> FALSE, readchan |-> 0]

Quiet == chip = ResetChip /\ busy = "idle" /\ clearing = FALSE

Pins == [Pin -> [exported : BOOLEAN, out : BOOLEAN, high : BOOLEAN]]
IsLow(pin) == pins[pin].out = TRUE /\ pins[pin].high = FALSE

(* What __fm_tuner_init has achieved before each of its steps: the chip is *)
(* held in its reset from the direction of the first pin on (step 3), SDIO *)
(* is low (6), the chip has chosen the two-wire interface (8), and the     *)
(* driver has read the registers (10).                                     *)
Achieved ==
  /\ step \in 1..12
  /\ step > 2 => Quiet
  /\ step \in 3..7 => IsLow("rst")
  /\ step > 5 => IsLow("sdio")
  /\ step > 7 => i2c = TRUE
  /\ step > 9 => regs = ResetChip

LifeInv == pins \in Pins /\ (stage = "init" => Achieved)

-----------------------------------------------------------------------------
(* The system calls of __fm_tuner_init, step by step.                      *)

LEMMA TwelveSteps ==
  /\ InitSteps[1][1] = "open" /\ InitSteps[1][2] = "rst"
  /\ InitSteps[2][1] = "direction" /\ InitSteps[2][2] = "rst"
  /\ InitSteps[3][1] = "low" /\ InitSteps[3][2] = "rst"
  /\ InitSteps[4][1] = "open" /\ InitSteps[4][2] = "sdio"
  /\ InitSteps[5][1] = "direction" /\ InitSteps[5][2] = "sdio"
  /\ InitSteps[6][1] = "low" /\ InitSteps[6][2] = "sdio"
  /\ InitSteps[7][1] = "high" /\ InitSteps[7][2] = "rst"
  /\ InitSteps[8][1] = "open" /\ InitSteps[8][2] = "bus"
  /\ InitSteps[9][1] = "read" /\ InitSteps[9][2] = "bus"
  /\ InitSteps[10][1] = "oscillator" /\ InitSteps[10][2] = "bus"
  /\ InitSteps[11][1] = "read" /\ InitSteps[11][2] = "bus"
  /\ InitSteps[12][1] = "power up" /\ InitSteps[12][2] = "bus"
BY DEF InitSteps

(* What a step does to which device says where __fm_tuner_init is: only    *)
(* the read of the registers comes twice, around the oscillator's start.   *)
LEMMA WhichStep ==
  ASSUME step \in 1..12, NEW op, NEW device, AtStep(op, device)
  PROVE  /\ op = "open" /\ device = "rst" => step = 1
         /\ op = "open" /\ device = "sdio" => step = 4
         /\ op = "direction" /\ device = "rst" => step = 2
         /\ op = "direction" /\ device = "sdio" => step = 5
         /\ op = "low" /\ device = "rst" => step = 3
         /\ op = "low" /\ device = "sdio" => step = 6
         /\ op = "high" /\ device = "rst" => step = 7
         /\ op = "open" /\ device = "bus" => step = 8
         /\ op = "read" /\ device = "bus" => step \in {9, 11}
         /\ op = "oscillator" /\ device = "bus" => step = 10
         /\ op = "power up" /\ device = "bus" => step = 12
<1>1. InitSteps[step][1] = op /\ InitSteps[step][2] = device
  BY DEF AtStep
<1>2. \/ step = 1 \/ step = 2 \/ step = 3 \/ step = 4 \/ step = 5 \/ step = 6
      \/ step = 7 \/ step = 8 \/ step = 9 \/ step = 10 \/ step = 11 \/ step = 12
  OBVIOUS
<1> QED
  BY <1>1, <1>2, TwelveSteps

(* What a step does to the pins. *)
LEMMA EffectOnPins ==
  ASSUME pins \in Pins, StepTakesEffect
  PROVE  pins' \in Pins
<1>1. ASSUME NEW pin \in Pin, Export(pin) \/ Direct(pin) \/ PullLow(pin) PROVE pins' \in Pins
  <2>1. CASE Export(pin)
    BY <2>1 DEF Export, Pins
  <2>2. CASE Direct(pin)
    BY <2>2 DEF Direct, Pins
  <2>3. CASE PullLow(pin)
    BY <2>3 DEF PullLow, Pins
  <2> QED BY <1>1, <2>1, <2>2, <2>3
<1>2. CASE LeaveReset
  BY <1>2 DEF LeaveReset, Pins
<1>3. CASE StartOscillator \/ SwitchOn
  BY <1>3 DEF StartOscillator, SwitchOn
<1> QED BY <1>1, <1>2, <1>3 DEF StepTakesEffect

-----------------------------------------------------------------------------
(* Between any two steps of start-up __fm_tuner_init has achieved what its  *)
(* later steps build on, wherever an earlier life was cut off.             *)
THEOREM LifeInvariance == ProcessSpec => []LifeInv
<1>1. ProcessInit => LifeInv
  BY DEF ProcessInit, LifeInv, Pins, Pin, Unexported
<1>2. ASSUME LifeInv, [ProcessNext]_allVars PROVE LifeInv'
  <2> USE <1>2
  <2>1. CASE UNCHANGED allVars
    BY <2>1 DEF LifeInv, Achieved, IsLow, Quiet, allVars, vars, processVars
  <2>2. CASE OperatorStarts \/ SystemdRestarts
    BY <2>2 DEF LifeInv, Achieved, OperatorStarts, SystemdRestarts, Starts
  <2>3. CASE StartUp
    <3>1. stage = "init" /\ step \in 1..12
      BY <2>3 DEF LifeInv, Achieved, StartUp, PinOpen, Export, PinDirection, Direct, PinLow, PullLow,
                  ResetHigh, LeaveReset, I2cOpen, InitRead, Oscillator, StartOscillator, PowerUp,
                  SwitchOn, AtStep
    <3>2. ASSUME NEW pin \in Pin, PinOpen(pin) PROVE LifeInv'
      <4>1. step \in {1, 4}
        BY <3>1, <3>2, WhichStep DEF PinOpen, Export, Pin
      <4>2. /\ stage' = stage /\ step' = step + 1
            /\ pins' = [pins EXCEPT ![pin].exported = TRUE]
            /\ UNCHANGED << chip, busy, clearing, i2c, regs >>
        BY <3>2 DEF PinOpen, Export, NextStep, chipVars, driverVars
      <4>3. pins \in Pins /\ pins' \in Pins
        BY <4>2 DEF LifeInv, Pins
      <4>4. \A p \in Pin : IsLow(p) => IsLow(p)'
        BY <4>2, <4>3 DEF IsLow, Pins
      <4>5. Quiet => Quiet'
        BY <4>2 DEF Quiet
      <4>6. Achieved
        BY <3>1 DEF LifeInv
      <4>7. Achieved'
        BY <4>1, <4>2, <4>4, <4>5, <4>6 DEF Achieved, Pin
      <4> QED
        BY <4>3, <4>7 DEF LifeInv
    <3>3. ASSUME NEW pin \in Pin, PinDirection(pin) PROVE LifeInv'
      <4>1. /\ stage' = stage /\ step' = step + 1
            /\ pins' = [pins EXCEPT ![pin].out = TRUE, ![pin].high = FALSE]
            /\ regs' = regs
        BY <3>3 DEF PinDirection, Direct, NextStep, driverVars
      <4>2. pins \in Pins /\ pins' \in Pins
        BY <4>1 DEF LifeInv, Pins
      <4>3. Achieved
        BY <3>1 DEF LifeInv
      <4>4. CASE pin = "rst"
        <5>1. step = 2
          BY <3>1, <3>3, <4>4, WhichStep DEF PinDirection, Direct
        <5>2. IsLow("rst")'
          BY <4>1, <4>4, <4>2 DEF IsLow, Pins, Pin
        <5>3. Quiet'
          BY <3>3, <4>4, <5>2 DEF PinDirection, Direct, ChipFollows, Quiet, ResetChip, IsLow
        <5>4. Achieved'
          BY <4>1, <5>1, <5>2, <5>3 DEF Achieved
        <5> QED
          BY <4>2, <5>4 DEF LifeInv
      <4>5. CASE pin = "sdio"
        <5>1. step = 5
          BY <3>1, <3>3, <4>5, WhichStep DEF PinDirection, Direct
        <5>2. UNCHANGED << chip, busy, clearing, i2c >>
          BY <3>3, <4>5 DEF PinDirection, Direct, ChipFollows, chipVars
        <5>3. IsLow("sdio")' /\ (IsLow("rst") => IsLow("rst")')
          BY <4>2, <4>1, <4>5 DEF IsLow, Pins, Pin
        <5>4. Quiet'
          BY <4>3, <5>1, <5>2 DEF Achieved, Quiet
        <5>5. Achieved'
          BY <4>3, <4>1, <5>1, <5>3, <5>4 DEF Achieved
        <5> QED
          BY <4>2, <5>5 DEF LifeInv
      <4> QED BY <4>4, <4>5 DEF Pin
    <3>4. ASSUME NEW pin \in Pin, PinLow(pin) PROVE LifeInv'
      <4>1. /\ stage' = stage /\ step' = step + 1
            /\ pins' = [pins EXCEPT ![pin].high = FALSE]
            /\ regs' = regs
        BY <3>4 DEF PinLow, PullLow, NextStep, driverVars
      <4>2. pins \in Pins /\ pins' \in Pins
        BY <4>1 DEF LifeInv, Pins
      <4>3. Achieved
        BY <3>1 DEF LifeInv
      <4>4. CASE pin = "rst"
        <5>1. step = 3
          BY <3>1, <3>4, <4>4, WhichStep DEF PinLow, PullLow
        <5>2. IsLow("rst")'
          BY <4>2, <4>3, <4>1, <4>4, <5>1 DEF Achieved, IsLow, Pins, Pin
        <5>3. Quiet'
          BY <3>4, <4>4, <5>2 DEF PinLow, PullLow, ChipFollows, Quiet, ResetChip, IsLow
        <5>4. Achieved'
          BY <4>1, <5>1, <5>2, <5>3 DEF Achieved
        <5> QED
          BY <4>2, <5>4 DEF LifeInv
      <4>5. CASE pin = "sdio"
        <5>1. step = 6
          BY <3>1, <3>4, <4>5, WhichStep DEF PinLow, PullLow
        <5>2. UNCHANGED << chip, busy, clearing, i2c >>
          BY <3>4, <4>5 DEF PinLow, PullLow, ChipFollows, chipVars
        <5>3. IsLow("sdio")' /\ (IsLow("rst") => IsLow("rst")')
          BY <4>2, <4>3, <4>1, <4>5, <5>1 DEF Achieved, IsLow, Pins, Pin
        <5>4. Quiet'
          BY <4>3, <5>1, <5>2 DEF Achieved, Quiet
        <5>5. Achieved'
          BY <4>3, <4>1, <5>1, <5>3, <5>4 DEF Achieved
        <5> QED
          BY <4>2, <5>5 DEF LifeInv
      <4> QED BY <4>4, <4>5 DEF Pin
    <3>5. CASE ResetHigh
      <4>1. step = 7
        BY <3>1, <3>5, WhichStep DEF ResetHigh, LeaveReset
      <4>2. /\ stage' = stage /\ step' = step + 1
            /\ pins' = [pins EXCEPT !["rst"].high = TRUE]
            /\ UNCHANGED << chip, busy, clearing, regs >>
        BY <3>5 DEF ResetHigh, LeaveReset, NextStep, driverVars
      <4>3. Achieved
        BY <3>1 DEF LifeInv
      <4>4. i2c' = TRUE
        <5>1. i2c' = (pins["sdio"].out /\ ~pins["sdio"].high)
          BY <3>5 DEF ResetHigh, LeaveReset
        <5>2. pins["sdio"].out = TRUE /\ pins["sdio"].high = FALSE
          BY <4>1, <4>3 DEF Achieved, IsLow
        <5> QED
          BY <5>1, <5>2, Zenon
      <4>5. pins \in Pins /\ pins' \in Pins
        BY <4>2 DEF LifeInv, Pins
      <4>6. IsLow("sdio")'
        BY <4>1, <4>2, <4>3, <4>5 DEF Achieved, IsLow, Pins, Pin
      <4>7. Quiet'
        BY <4>1, <4>2, <4>3 DEF Achieved, Quiet
      <4>8. Achieved'
        BY <4>1, <4>2, <4>4, <4>6, <4>7 DEF Achieved
      <4> QED
        BY <4>5, <4>8 DEF LifeInv
    <3>6. CASE I2cOpen
      <4>1. step = 8
        BY <3>1, <3>6, WhichStep DEF I2cOpen
      <4>2. stage' = stage /\ step' = step + 1 /\ UNCHANGED << pins, chip, busy, clearing, i2c, regs >>
        BY <3>6 DEF I2cOpen, NextStep, chipVars, driverVars
      <4> QED
        BY <3>1, <4>1, <4>2 DEF LifeInv, Achieved, IsLow, Quiet
    <3>7. CASE InitRead
      <4>1. step \in {9, 11}
        BY <3>1, <3>7, WhichStep DEF InitRead
      <4>2. stage' = stage /\ step' = step + 1 /\ regs' = chip /\ UNCHANGED << pins, chip, busy, clearing, i2c >>
        BY <3>7 DEF InitRead, NextStep, chipVars
      <4> QED
        BY <3>1, <4>1, <4>2 DEF LifeInv, Achieved, IsLow, Quiet
    <3>8. CASE Oscillator
      <4>1. step = 10
        BY <3>1, <3>8, WhichStep DEF Oscillator, StartOscillator
      <4>2. regs = ResetChip /\ Quiet
        BY <3>1, <4>1 DEF LifeInv, Achieved
      <4>3. Quiet'
        BY <3>8, <4>2 DEF Oscillator, StartOscillator, Quiet, Written, Begun, ResetChip
      <4>4. stage' = stage /\ step' = step + 1 /\ UNCHANGED << pins, i2c, regs >>
        BY <3>8 DEF Oscillator, StartOscillator, NextStep, driverVars
      <4> QED
        BY <3>1, <4>1, <4>2, <4>3, <4>4 DEF LifeInv, Achieved, IsLow
    <3>9. CASE PowerUp
      BY <3>9 DEF LifeInv, PowerUp, SwitchOn
    <3> QED
      BY <2>3, <3>2, <3>3, <3>4, <3>5, <3>6, <3>7, <3>8, <3>9 DEF StartUp
  <2>4. CASE InitFails
    <3>1. pins' \in Pins
      BY <2>4, EffectOnPins DEF LifeInv, InitFails
    <3> QED BY <2>4, <3>1 DEF LifeInv, InitFails
  <2>5. CASE Served \/ DriverGoesOn \/ DriverFails
    BY <2>5 DEF LifeInv, Served, DriverGoesOn, DriverFails, Running, processVars
  <2>6. CASE ChipGoesOn
    <3>1. UNCHANGED << stage, step, pins, i2c, regs >>
      BY <2>6 DEF ChipGoesOn, Chip, TuneDone, SeekDone, StcCleared, processVars
    <3>2. ~Quiet
      BY <2>6 DEF ChipGoesOn, Chip, TuneDone, SeekDone, StcCleared, Quiet
    <3>3. stage = "init" => Achieved'
      BY <3>1, <3>2 DEF LifeInv, Achieved, IsLow
    <3> QED
      BY <3>1, <3>3 DEF LifeInv
  <2>7. CASE ServerStops \/ ServerFails
    BY <2>7 DEF LifeInv, ServerStops, ServerFails, Running, Exits
  <2>8. CASE Scan \/ MeasureFails
    BY <2>8 DEF LifeInv, Scan, ScanTune, ScanSeek, ScanMeasure, ScanReport, MeasureFails, ScanCall,
                SeekReturned, Running, Exits
  <2>9. CASE CloseRead \/ PowerDown \/ CloseFails
    BY <2>9 DEF LifeInv, CloseRead, PowerDown, CloseFails
  <2>10. CASE Killed
    BY <2>10 DEF LifeInv, Killed
  <2> QED
    BY <2>1, <2>2, <2>3, <2>4, <2>5, <2>6, <2>7, <2>8, <2>9, <2>10 DEF ProcessNext
<1> QED
  BY <1>1, <1>2, PTL DEF ProcessSpec

LEMMA PowerUpReady ==
  ASSUME LifeInv, PowerUp
  PROVE  Init' /\ power' = "on" /\ i2c'
<1>1. stage = "init" /\ step \in 1..12 /\ AtStep("power up", "bus")
  BY DEF PowerUp, SwitchOn, AtStep, LifeInv, Achieved
<1>2. Quiet /\ i2c = TRUE /\ regs = ResetChip
  <2>1. step = 12
    BY <1>1, WhichStep
  <2>2. Achieved
    BY <1>1 DEF LifeInv
  <2> QED
    BY <2>1, <2>2, SMT DEF Achieved
<1>3. regs' = ResetChip
  BY <1>2 DEF PowerUp, SwitchOn, PoweredUp, ResetChip
<1>4. Quiet'
  BY <1>2, <1>3 DEF PowerUp, SwitchOn, PoweredUp, Quiet, Written, Begun, ResetChip
<1> QED
  BY <1>2, <1>3, <1>4 DEF PowerUp, SwitchOn, Init, Quiet, ResetChip

(* Each life of the program starts with the tuner powered up, muted, and   *)
(* with nothing in it of an earlier life (fm_tuner.c:118), whenever that   *)
(* one has ended.                                                          *)
THEOREM EveryLifeStartsReady == ProcessSpec => LifeStartsReady
<1> DEFINE Ready == stage # "running" /\ stage' = "running" => Init' /\ power' = "on" /\ i2c'
<1>1. ASSUME LifeInv, [ProcessNext]_allVars PROVE [Ready]_allVars
  <2> SUFFICES ASSUME ProcessNext, stage # "running", stage' = "running"
               PROVE  Init' /\ power' = "on" /\ i2c'
    BY <1>1
  <2>1. PowerUp
    BY DEF ProcessNext, OperatorStarts, SystemdRestarts, Starts, StartUp, PinOpen, Export,
           PinDirection, Direct, PinLow, PullLow, NextStep, ResetHigh, LeaveReset, I2cOpen, InitRead,
           Oscillator, StartOscillator, InitFails, Served, DriverGoesOn, DriverFails, ChipGoesOn,
           ServerStops, ServerFails, Scan, ScanTune, ScanSeek, ScanMeasure, ScanReport, MeasureFails,
           ScanCall, SeekReturned, Running, Exits, CloseRead, PowerDown, CloseFails, Killed,
           processVars
  <2> QED
    BY <1>1, <2>1, PowerUpReady
<1> QED
  BY <1>1, LifeInvariance, PTL DEF ProcessSpec, LifeStartsReady

-----------------------------------------------------------------------------
(* From the power up to its end a life is a behaviour of FmTuner.          *)

InLife == stage \in {"running", "closing"}

Types ==
  /\ mode \in {"server", "seek"}
  /\ stage \in {"stopped", "init", "running", "closing"}
  /\ step \in 1..12
  /\ exit \in {"success", "failure", "killed", "interrupted"}
  /\ pins \in Pins
  /\ power \in {"off", "oscillator", "on"}
  /\ i2c \in BOOLEAN
  /\ scan \in {"tune", "seek", "measure", "report"}
  /\ faults \in 0..MaxFaults
  /\ kills \in 0..MaxKills

(* The channels of the band, all that a scan can come to. *)
BandChannels == {ChannelOf(r) : r \in 0..Top}

(* A scan tunes to the start of the band and seeks from there, so that it  *)
(* never leaves the band, whatever has failed.                             *)
ScanInv ==
  Running("seek") =>
    /\ chip.readchan \in 0..Top /\ chip.channel \in 0..Top
    /\ pc # "idle" => scan \in {"seek", "measure"}
    /\ scan = "seek" /\ pc # "idle" => call.op = "set_channel" /\ call.arg = FM_TUNER_CHANNEL_START
    /\ scan = "measure" => call.op = "seek"
    /\ scan = "measure" /\ pc = "idle" => ret \in {-1} \union BandChannels

ProcessInv ==
  /\ TypeOK
  /\ Types
  /\ InLife => FmInv
  /\ stage = "closing" => pc = "idle" /\ step \in {1, 2}
  /\ ScanInv
  /\ data \in Seq(BandChannels)


(* The registers the chip has in its reset. *)
LEMMA ResetTyped == ResetChip \in Registers
<1>1. 0 \in VolumeRange /\ 0 \in ChannelRegister
  BY DEF VolumeRange, FM_TUNER_VOLUME_MIN, FM_TUNER_VOLUME_MAX, ChannelRegister
<1> QED BY <1>1 DEF ResetChip, Registers

LEMMA WrittenTyped ==
  ASSUME TypeOK, NEW r \in Registers, Written(r)
  PROVE  chip' \in Registers /\ busy' \in {"idle", "tune", "seek"} /\ clearing' \in BOOLEAN
<1>1. chip' \in Registers
  BY WrittenFields, Typed
<1>2. busy' \in {"idle", "tune", "seek"}
  BY DEF Written, Begun, TypeOK
<1>3. clearing' \in BOOLEAN
  BY DEF Written
<1> QED BY <1>1, <1>2, <1>3

(* What a step of start-up does to the pins and to the chip. *)
LEMMA EffectTyped ==
  ASSUME TypeOK, Types, StepTakesEffect
  PROVE  /\ pins' \in Pins /\ power' \in {"off", "oscillator", "on"} /\ i2c' \in BOOLEAN
         /\ chip' \in Registers /\ busy' \in {"idle", "tune", "seek"} /\ clearing' \in BOOLEAN
<1>1. pins' \in Pins
  BY EffectOnPins DEF Types
<1> DEFINE Result ==
             /\ power' \in {"off", "oscillator", "on"} /\ i2c' \in BOOLEAN
             /\ chip' \in Registers /\ busy' \in {"idle", "tune", "seek"} /\ clearing' \in BOOLEAN
<1>2. ASSUME NEW pin \in Pin, Export(pin) \/ Direct(pin) \/ PullLow(pin)
      PROVE  Result
  <2>1. \/ UNCHANGED chipVars
        \/ chip' = ResetChip /\ busy' = "idle" /\ clearing' = FALSE /\ power' = "off" /\ i2c' = FALSE
    BY <1>2 DEF Export, Direct, PullLow, ChipFollows, ResetChip
  <2> QED BY <2>1, ResetTyped DEF chipVars, Types, TypeOK
<1>3. ASSUME LeaveReset PROVE Result
  <2>1. i2c' \in BOOLEAN
    BY <1>3 DEF LeaveReset
  <2> QED BY <1>3, <2>1 DEF LeaveReset, Types, TypeOK
<1>4. ASSUME StartOscillator PROVE Result
  <2>1. Written(regs) /\ power' = "oscillator" /\ UNCHANGED i2c
    BY <1>4 DEF StartOscillator
  <2>2. chip' \in Registers /\ busy' \in {"idle", "tune", "seek"} /\ clearing' \in BOOLEAN
    BY <2>1, WrittenTyped, Typed
  <2> QED BY <2>1, <2>2 DEF Types
<1>5. ASSUME SwitchOn PROVE Result
  <2>1. PoweredUp \in Registers
    <3>1. 0 \in VolumeRange /\ regs \in Registers
      BY Typed DEF VolumeRange, FM_TUNER_VOLUME_MIN, FM_TUNER_VOLUME_MAX
    <3> QED BY <3>1 DEF PoweredUp, Registers
  <2>2. Written(PoweredUp) /\ power' = "on" /\ UNCHANGED i2c
    BY <1>5 DEF SwitchOn
  <2>3. chip' \in Registers /\ busy' \in {"idle", "tune", "seek"} /\ clearing' \in BOOLEAN
    BY <2>1, <2>2, WrittenTyped
  <2> QED BY <2>2, <2>3 DEF Types
<1>6. Result
  <2> HIDE DEF Result
  <2> QED BY <1>2, <1>3, <1>4, <1>5 DEF StepTakesEffect
<1> QED BY <1>1, <1>6

(* The steps of start-up before the last one. *)
LEMMA StartUpKeeps ==
  ASSUME LifeInv, TypeOK, Types, StartUp, ~PowerUp
  PROVE  TypeOK' /\ Types' /\ stage' = "init" /\ UNCHANGED << pc, data, mode >>
<1>1. stage = "init" /\ step \in 1..12
  BY DEF LifeInv, Achieved, StartUp, PinOpen, Export, PinDirection, Direct, PinLow, PullLow, ResetHigh,
         LeaveReset, I2cOpen, InitRead, Oscillator, StartOscillator, PowerUp, SwitchOn,
         AtStep
<1>2. NextStep /\ step' \in 1..12
  <2>1. NextStep
    BY DEF StartUp, PinOpen, PinDirection, PinLow, ResetHigh, I2cOpen, InitRead, Oscillator
  <2>2. step # 12
    <3>1. ASSUME NEW pin \in Pin, AtStep("open", pin) PROVE step \in {1, 4}
      BY <1>1, <3>1, WhichStep DEF Pin
    <3>2. ASSUME NEW pin \in Pin, AtStep("direction", pin) PROVE step \in {2, 5}
      BY <1>1, <3>2, WhichStep DEF Pin
    <3>3. ASSUME NEW pin \in Pin, AtStep("low", pin) PROVE step \in {3, 6}
      BY <1>1, <3>3, WhichStep DEF Pin
    <3>4. AtStep("high", "rst") => step = 7
      BY <1>1, WhichStep
    <3>5. AtStep("open", "bus") => step = 8
      BY <1>1, WhichStep
    <3>6. AtStep("read", "bus") => step \in {9, 11}
      BY <1>1, WhichStep
    <3>7. AtStep("oscillator", "bus") => step = 10
      BY <1>1, WhichStep
    <3>8. step \in {1, 2, 3, 4, 5, 6, 7, 8, 9, 10, 11}
      BY <3>1, <3>2, <3>3, <3>4, <3>5, <3>6, <3>7
         DEF StartUp, PinOpen, Export, PinDirection, Direct, PinLow, PullLow, ResetHigh, LeaveReset,
             I2cOpen, InitRead, Oscillator, StartOscillator
    <3> QED BY <3>8
  <2> QED BY <1>1, <2>1, <2>2 DEF NextStep
<1> DEFINE Result ==
             /\ UNCHANGED << pc, call, success, ret, failures, before >>
             /\ pins' \in Pins /\ power' \in {"off", "oscillator", "on"} /\ i2c' \in BOOLEAN
             /\ regs' \in Registers /\ chip' \in Registers /\ busy' \in {"idle", "tune", "seek"}
             /\ clearing' \in BOOLEAN
<1>3. Result
  <2> USE DEF Types, TypeOK
  <2>1. CASE StepTakesEffect /\ UNCHANGED driverVars
    BY <2>1, EffectTyped DEF driverVars
  <2>2. CASE I2cOpen \/ InitRead
    BY <2>2 DEF I2cOpen, InitRead, chipVars, driverVars
  <2>3. \/ StepTakesEffect /\ UNCHANGED driverVars
        \/ I2cOpen \/ InitRead
    BY DEF StartUp, StepTakesEffect, PinOpen, PinDirection, PinLow, ResetHigh, Oscillator
  <2> QED BY <2>1, <2>2, <2>3
<1> QED BY <1>1, <1>2, <1>3 DEF NextStep, TypeOK, Types


(* What has been typed stays so outside of a life. *)
LEMMA OutOfLife ==
  ASSUME ProcessInv, TypeOK', Types', ~InLife', data' = data
  PROVE  ProcessInv'
BY DEF ProcessInv, ScanInv, Running, InLife


(* A scan stays in the band: the chip is told channels of the band only,   *)
(* and seeks end there.                                                    *)
LEMMA HeadingInBand ==
  ASSUME TypeOK, chip.readchan \in 0..Top, chip.channel \in 0..Top
  PROVE  Heading \in 0..Top
BY SeekEndType DEF TypeOK, Registers, Heading

LEMMA StartOfBand == RegisterOf(FM_TUNER_CHANNEL_START) = 0
BY DEF RegisterOf, Half, FM_TUNER_CHANNEL_START, BandAssumption

(* The steps of the driver and of the chip in a life. *)
LEMMA DriverKeeps ==
  ASSUME ProcessInv, stage = "running", Driver \/ TransferFails \/ Chip, UNCHANGED << processVars, power, i2c >>
  PROVE  ProcessInv'
<1> USE DEF ProcessInv
<1>1. FmInv /\ TypeOK
  BY DEF InLife
<1>2. FmInv'
  BY <1>1, FmStep DEF Next
<1>3. UNCHANGED << mode, stage, step, exit, pins, power, i2c, scan, data, faults, kills >>
  BY DEF processVars
<1>4. UNCHANGED call
  BY ChipStep, <1>1 DEF Driver, Read, WriteVolume, WriteHigh, WaitHigh, WriteLow, WaitLow, TransferFails
<1>5. ASSUME Running("seek")
      PROVE  /\ chip'.readchan \in 0..Top /\ chip'.channel \in 0..Top
             /\ pc' # "idle" => pc # "idle"
             /\ scan = "measure" /\ pc' = "idle" => ret' \in {-1} \union BandChannels
  <2> USE DEF ScanInv
  <2>1. chip.readchan \in 0..Top /\ chip.channel \in 0..Top /\ Heading \in 0..Top
    BY <1>1, <1>5, HeadingInBand
  <2>2. CASE Chip
    <3>1. /\ chip'.channel = chip.channel /\ chip'.readchan \in {chip.readchan, Heading}
          /\ UNCHANGED << pc, ret >>
      BY <1>1, <2>2, ChipStep
    <3> QED BY <1>5, <2>1, <3>1
  <2>3. CASE Driver \/ TransferFails
    <3>1. pc # "idle"
      BY <2>3 DEF Driver, Read, WriteVolume, WriteHigh, WaitHigh, WriteLow, WaitLow, TransferFails
    <3>2. UNCHANGED chip \/ (pc \in {"write", "write_high", "write_low"} /\ Written(regs))
      BY <2>3 DEF Driver, Read, WriteVolume, WriteHigh, WaitHigh, WriteLow, WaitLow, TransferFails
    <3>3. chip'.readchan \in 0..Top /\ chip'.channel \in 0..Top
      <4>1. CASE pc = "write" /\ Written(regs)
        BY <1>1, <2>1, <4>1, VolumeWritten
      <4>2. CASE pc = "write_high" /\ Written(regs)
        <5>1. chip'.readchan = chip.readchan /\ call.op \in {"set_channel", "seek"}
          BY <1>1, <4>2, HighWritten
        <5>2. call.op = "seek" => chip'.channel = chip.channel
          BY <1>1, <4>2, HighWritten
        <5>3. call.op = "set_channel" => chip'.channel = RegisterOf(call.arg) /\ call.arg = FM_TUNER_CHANNEL_START
          BY <1>1, <1>5, <3>1, <4>2, HighWritten
        <5>4. 0 \in 0..Top
          BY BandAssumption DEF ChannelRegister
        <5> QED BY <2>1, <5>1, <5>2, <5>3, <5>4, StartOfBand
      <4>3. CASE pc = "write_low" /\ Written(regs)
        BY <1>1, <2>1, <4>3, LowWritten
      <4> QED BY <2>1, <3>2, <4>1, <4>2, <4>3
    <3>4. scan = "measure" /\ pc' = "idle" => ret' \in {-1} \union BandChannels
      <4> SUFFICES ASSUME scan = "measure", pc' = "idle" PROVE ret' \in {-1} \union BandChannels
        OBVIOUS
      <4>1. call.op = "seek"
        BY <1>5
      <4>2. ret' = -1 \/ ret' = ChannelOf(chip.readchan)
        BY <1>1, <2>3, <3>1, <4>1 DEF Driver, Read, WriteVolume, WriteHigh, WaitHigh, WriteLow, WaitLow,
           TransferFails, Returns, FmInv, OpInv
      <4> QED BY <2>1, <4>2 DEF BandChannels
    <3> QED BY <3>1, <3>3, <3>4
  <2> QED BY <2>2, <2>3
<1>6. ScanInv'
  BY <1>3, <1>4, <1>5 DEF ScanInv, Running
<1> QED BY <1>2, <1>3, <1>6 DEF FmInv, Types, InLife


(* A call is made, of the service or of the scan. *)
LEMMA CallMade ==
  ASSUME ProcessInv, stage = "running", Call
  PROVE  /\ FmInv' /\ TypeOK' /\ pc = "idle" /\ pc' = "read"
         /\ chip' = chip /\ ret' = ret
BY FmStep DEF ProcessInv, InLife, FmInv, Next, Call

LEMMA ServedKeeps ==
  ASSUME ProcessInv, Served
  PROVE  ProcessInv'
<1>1. /\ stage = "running" /\ mode = "server" /\ Call
      /\ UNCHANGED << mode, stage, step, exit, pins, power, i2c, scan, data, faults, kills >>
  BY DEF Served, Running, processVars
<1> QED BY <1>1, CallMade DEF ProcessInv, Types, ScanInv, Running, InLife

LEMMA ScanKeeps ==
  ASSUME ProcessInv, Scan
  PROVE  ProcessInv'
<1> USE DEF ProcessInv
<1>1. stage = "running" /\ mode = "seek" /\ FmInv
  BY DEF Scan, ScanTune, ScanSeek, ScanMeasure, ScanReport, ScanCall, SeekReturned, Running, InLife
<1>2. CASE ScanTune \/ ScanSeek
  <2>1. /\ Call
        /\ UNCHANGED << mode, stage, step, exit, pins, power, i2c, data, faults, kills >>
        /\ \/ scan' = "seek" /\ call'.op = "set_channel" /\ call'.arg = FM_TUNER_CHANNEL_START
           \/ scan' = "measure" /\ call'.op = "seek"
    BY <1>2 DEF ScanTune, ScanSeek, ScanCall
  <2>2. /\ FmInv' /\ TypeOK' /\ pc' = "read" /\ chip' = chip
    BY <1>1, <2>1, CallMade
  <2>3. ScanInv'
    BY <1>1, <2>1, <2>2 DEF ScanInv, Running
  <2> QED BY <1>1, <2>1, <2>2, <2>3 DEF Types, InLife
<1>3. CASE ScanMeasure
  <2>1. /\ UNCHANGED << regs, pc, call, success, ret, chip, busy, clearing, failures, before >>
        /\ UNCHANGED << mode, stage, step, exit, pins, power, i2c, faults, kills >>
        /\ scan = "measure" /\ pc = "idle" /\ scan' \in {"seek", "report"}
    BY <1>3 DEF ScanMeasure, SeekReturned, chipVars, driverVars
  <2>2. FmInv'
    BY <1>1, <2>1, FmStep DEF vars
  <2>3. data' \in Seq(BandChannels)
    <3>1. CASE ret = -1
      BY <1>3, <3>1 DEF ScanMeasure
    <3>2. CASE ret \in BandChannels
      BY <1>3, <3>2 DEF ScanMeasure
    <3> QED BY <1>1, <2>1, <3>1, <3>2 DEF ScanInv, Running
  <2>4. ScanInv'
    BY <1>1, <2>1 DEF ScanInv, Running
  <2> QED BY <1>1, <2>1, <2>2, <2>3, <2>4 DEF Types, InLife, FmInv
<1>4. CASE ScanReport
  <2>1. /\ UNCHANGED << regs, pc, call, success, ret, chip, busy, clearing, failures, before >>
        /\ UNCHANGED << mode, pins, power, i2c, scan, data, faults, kills >>
        /\ stage' = "closing" /\ step' = 1 /\ exit' = "success" /\ scan = "report"
    BY <1>4 DEF ScanReport, Exits, chipVars, driverVars
  <2>2. FmInv'
    BY <1>1, <2>1, FmStep DEF vars
  <2>3. pc = "idle"
    BY <1>1, <2>1 DEF ScanInv, Running
  <2> QED BY <2>1, <2>2, <2>3 DEF Types, InLife, FmInv, ScanInv, Running
<1> QED BY <1>2, <1>3, <1>4 DEF Scan

(* The service or the scan ends, between two calls. *)
LEMMA ExitKeeps ==
  ASSUME ProcessInv, ServerStops \/ ServerFails \/ MeasureFails
  PROVE  ProcessInv'
<1> USE DEF ProcessInv
<1>1. /\ UNCHANGED << regs, pc, call, success, ret, chip, busy, clearing, failures, before >>
      /\ UNCHANGED << mode, pins, power, i2c, scan, data, kills >>
      /\ stage = "running" /\ stage' = "closing" /\ step' = 1 /\ exit' \in {"success", "failure"}
  BY DEF ServerStops, ServerFails, MeasureFails, SeekReturned, Running, Exits, chipVars, driverVars
<1>2. faults' \in 0..MaxFaults
  BY ProcessAssumption DEF ServerStops, ServerFails, MeasureFails, Types
<1>3. FmInv /\ FmInv'
  BY <1>1, FmStep DEF vars, InLife
<1>4. pc = "idle"
  <2>1. call = NoCall => pc = "idle"
    BY <1>3, CallTyped DEF FmInv, OpInv, NoCall
  <2> QED BY <2>1 DEF ServerStops, ServerFails, MeasureFails, SeekReturned
<1> QED BY <1>1, <1>2, <1>3, <1>4 DEF Types, FmInv, ScanInv, Running, InLife

LEMMA CloseKeeps ==
  ASSUME ProcessInv, CloseRead \/ PowerDown \/ CloseFails
  PROVE  ProcessInv'
<1> USE DEF ProcessInv
<1>1. stage = "closing" /\ FmInv /\ pc = "idle"
  BY DEF CloseRead, PowerDown, CloseFails, InLife
<1>2. CASE CloseRead
  <2>1. /\ UNCHANGED << pc, call, success, ret, chip, busy, clearing, failures, before >>
        /\ UNCHANGED << mode, stage, exit, pins, power, i2c, scan, data, faults, kills >>
        /\ regs' = chip /\ step' = 2
    BY <1>2 DEF CloseRead, chipVars
  <2>2. TypeOK'
    BY <2>1 DEF TypeOK
  <2>3. OpInv' /\ ChipInv' /\ RegsInv' /\ WhereInv' /\ SeekInv' /\ CleanInv'
    BY <1>1, <2>1 DEF FmInv, OpInv, ChipInv, RegsInv, WhereInv, SeekInv, CleanInv
  <2>4. AtRest' = AtRest /\ Heading' = Heading
    BY <2>1 DEF AtRest, Heading
  <2>5. RestInv' /\ OutcomesAssumed' /\ CleanCallIsEffective'
    BY <1>1, <2>1, <2>4 DEF FmInv, RestInv, OutcomesAssumed, OutcomesOf, CleanCallIsEffective
  <2> QED BY <1>1, <2>1, <2>2, <2>3, <2>5 DEF Types, FmInv, ScanInv, Running, InLife
<1>3. ASSUME SwitchOff
      PROVE  /\ chip' \in Registers /\ busy' \in {"idle", "tune", "seek"} /\ clearing' \in BOOLEAN
             /\ power' \in {"off", "oscillator", "on"} /\ i2c' \in BOOLEAN
  <2>1. /\ chip' = [chip EXCEPT !.seek = FALSE, !.seekup = FM_TUNER_SEEKDOWN]
        /\ busy' = "idle" /\ clearing' = FALSE /\ power' = "off" /\ i2c' = i2c
    BY <1>3 DEF SwitchOff
  <2>2. chip' \in Registers
    BY <2>1 DEF TypeOK, Registers
  <2> QED BY <2>1, <2>2 DEF Types
<1>4. CASE PowerDown
  <2>1. /\ SwitchOff /\ stage' = "stopped"
        /\ UNCHANGED << regs, pc, call, success, ret, failures, before >>
        /\ UNCHANGED << mode, step, exit, pins, scan, data, faults, kills >>
    BY <1>4 DEF PowerDown, driverVars
  <2> QED BY <1>3, <2>1, OutOfLife DEF TypeOK, Types, InLife
<1>5. CASE CloseFails
  <2>1. /\ stage' = "stopped" /\ faults' \in 0..MaxFaults
        /\ UNCHANGED << regs, pc, call, success, ret, failures, before >>
        /\ UNCHANGED << mode, step, exit, pins, scan, data, kills >>
    BY <1>5, ProcessAssumption DEF CloseFails, driverVars, Types
  <2>2. /\ chip' \in Registers /\ busy' \in {"idle", "tune", "seek"} /\ clearing' \in BOOLEAN
        /\ power' \in {"off", "oscillator", "on"} /\ i2c' \in BOOLEAN
    <3>1. CASE UNCHANGED << chip, busy, clearing, power, i2c >>
      BY <3>1 DEF TypeOK, Types
    <3>2. UNCHANGED << chip, busy, clearing, power, i2c >> \/ SwitchOff
      BY <1>5 DEF CloseFails, chipVars
    <3> QED BY <1>3, <3>1, <3>2
  <2> QED BY <2>1, <2>2, OutOfLife DEF TypeOK, Types, InLife
<1> QED BY <1>2, <1>4, <1>5

LEMMA OutsideKeeps ==
  ASSUME ProcessInv, OperatorStarts \/ SystemdRestarts \/ InitFails \/ Killed
  PROVE  ProcessInv'
<1> USE DEF ProcessInv
<1>1. stage' \in {"init", "stopped"} /\ UNCHANGED data
  BY DEF OperatorStarts, SystemdRestarts, Starts, InitFails, Killed
<1>2. CASE OperatorStarts \/ SystemdRestarts
  <2>1. /\ UNCHANGED << regs, pc, call, success, ret, chip, busy, clearing, failures, before >>
        /\ UNCHANGED << exit, pins, power, i2c, scan, faults, kills >>
        /\ mode' \in {"server", "seek"} /\ step' = 1
    BY <1>2 DEF OperatorStarts, SystemdRestarts, Starts, chipVars, driverVars
  <2> QED BY <1>1, <2>1, OutOfLife DEF TypeOK, Types, InLife
<1>3. CASE InitFails
  <2>1. /\ UNCHANGED << regs, pc, call, success, ret, failures, before >>
        /\ UNCHANGED << mode, step, scan, kills >>
        /\ exit' = "failure"
        /\ UNCHANGED << pins, chip, busy, clearing, power, i2c >> \/ StepTakesEffect
    BY <1>3 DEF InitFails, driverVars, chipVars
  <2>2. faults' \in 0..MaxFaults
    <3>1. faults < MaxFaults /\ faults' = faults + 1
      BY <1>3, Zenon DEF InitFails
    <3>2. faults \in 0..MaxFaults
      BY DEF Types
    <3> QED BY <3>1, <3>2, ProcessAssumption
  <2>3. /\ pins' \in Pins /\ power' \in {"off", "oscillator", "on"} /\ i2c' \in BOOLEAN
        /\ chip' \in Registers /\ busy' \in {"idle", "tune", "seek"} /\ clearing' \in BOOLEAN
    <3>1. CASE UNCHANGED << pins, chip, busy, clearing, power, i2c >>
      BY <3>1 DEF TypeOK, Types
    <3>2. CASE StepTakesEffect
      BY <3>2, EffectTyped
    <3> QED BY <2>1, <3>1, <3>2
  <2> QED BY <1>1, <2>1, <2>2, <2>3, OutOfLife DEF TypeOK, Types, InLife
<1>4. CASE Killed
  <2>1. /\ UNCHANGED << regs, pc, call, success, ret, chip, busy, clearing, failures, before >>
        /\ UNCHANGED << mode, step, pins, power, i2c, scan, faults >>
        /\ exit' \in {"killed", "interrupted"} /\ kills' \in 0..MaxKills
    BY <1>4, ProcessAssumption DEF Killed, chipVars, driverVars, Types
  <2> QED BY <1>1, <2>1, OutOfLife DEF TypeOK, Types, InLife
<1> QED BY <1>2, <1>3, <1>4

LEMMA StartUpOrPowerUpKeeps ==
  ASSUME LifeInv, ProcessInv, StartUp
  PROVE  ProcessInv'
<1>1. CASE ~PowerUp
  BY <1>1, StartUpKeeps, OutOfLife DEF ProcessInv, InLife
<1>2. CASE PowerUp
  <2>1. Init' /\ power' = "on" /\ i2c'
    BY <1>2, PowerUpReady
  <2>2. FmInv'
    <3>1. Init' => FmInv'
      BY FmInit, PTL
    <3> QED BY <2>1, <3>1
  <2>3. /\ stage' = "running" /\ scan' = "tune" /\ data' = << >>
        /\ i2c' \in BOOLEAN
        /\ UNCHANGED << mode, step, exit, pins, i2c, faults, kills >>
    BY <1>2 DEF PowerUp, SwitchOn, ProcessInv, Types
  <2>4. ScanInv'
    <3>1. chip'.readchan = 0 /\ chip'.channel = 0 /\ pc' = "idle"
      BY <2>1 DEF Init
    <3>2. 0 \in 0..Top
      BY BandAssumption DEF ChannelRegister
    <3> QED BY <2>3, <3>1, <3>2 DEF ScanInv
  <2> QED BY <2>1, <2>2, <2>3, <2>4 DEF ProcessInv, Types, InLife, FmInv
<1> QED BY <1>1, <1>2

(* The chip of a process that has ended, or is about to start, goes on.    *)
LEMMA ChipGoesOnKeeps ==
  ASSUME ProcessInv, ChipGoesOn
  PROVE  ProcessInv'
<1> USE DEF ProcessInv
<1>1. Chip /\ UNCHANGED << processVars, power, i2c >>
  BY DEF ChipGoesOn
<1>2. CASE stage = "running"
  BY <1>1, <1>2, DriverKeeps
<1>3. CASE stage # "running"
  <2>1. TypeOK' /\ pc' = pc
    BY <1>1, ChipStep DEF Chip, TuneDone, SeekDone, StcCleared, TypeOK
  <2>2. InLife => FmInv'
    BY <1>1, FmStep DEF Next
  <2> QED BY <1>1, <1>3, <2>1, <2>2 DEF processVars, Types, InLife, ScanInv, Running
<1> QED BY <1>2, <1>3

(* In every life of the program the driver and the chip stay within FmInv, *)
(* from the power up to the power down.                                    *)
THEOREM ProcessInvariance == ProcessSpec => [](LifeInv /\ ProcessInv)
<1>1. ProcessInit => ProcessInv
  <2> SUFFICES ASSUME ProcessInit PROVE ProcessInv
    OBVIOUS
  <2>1. FmInv
    BY FmInit DEF ProcessInit
  <2>2. faults \in 0..MaxFaults /\ kills \in 0..MaxKills
    BY ProcessAssumption DEF ProcessInit
  <2>3. pins \in Pins
    BY DEF ProcessInit, Pins, Unexported
  <2>4. Types
    <3>1. /\ mode = "server" /\ stage = "stopped" /\ step = 1 /\ exit = "success"
          /\ power = "off" /\ i2c = FALSE /\ scan = "tune"
      BY DEF ProcessInit
    <3>2. step \in 1..12
      BY <3>1
    <3>3. i2c \in BOOLEAN
      BY <3>1
    <3> QED BY <2>2, <2>3, <3>1, <3>2, <3>3, Zenon DEF Types
  <2>5. stage = "stopped" /\ data \in Seq(BandChannels)
    BY DEF ProcessInit
  <2> QED BY <2>1, <2>4, <2>5 DEF ProcessInv, FmInv, InLife, ScanInv, Running
<1>2. LifeInv /\ ProcessInv /\ [ProcessNext]_allVars => ProcessInv'
  <2> SUFFICES ASSUME LifeInv, ProcessInv, [ProcessNext]_allVars PROVE ProcessInv'
    OBVIOUS
  <2>1. CASE DriverGoesOn \/ DriverFails
    BY <2>1, DriverKeeps DEF DriverGoesOn, DriverFails
  <2>2. CASE UNCHANGED allVars
    <3>1. UNCHANGED vars /\ UNCHANGED << processVars, power, i2c >>
      BY <2>2 DEF allVars
    <3>2. InLife => FmInv'
      BY <3>1, FmStep DEF ProcessInv
    <3> QED BY <3>1, <3>2 DEF ProcessInv, TypeOK, Types, InLife, ScanInv, Running, vars, processVars
  <2> QED BY <2>1, <2>2, ServedKeeps, ScanKeeps, ExitKeeps, CloseKeeps, OutsideKeeps, StartUpOrPowerUpKeeps,
        ChipGoesOnKeeps DEF ProcessNext
<1> QED BY <1>1, <1>2, LifeInvariance, PTL DEF ProcessSpec

(* Through start-ups that fail, kills and restarts all of the state stays  *)
(* in its type; a scan records channels of the band only.                  *)
THEOREM ProcessTypeCorrect == ProcessSpec => []ProcessTypeOK
<1>1. ProcessInv => ProcessTypeOK
  <2>1. data \in Seq(BandChannels) => Range(data) \subseteq {ChannelOf(r) : r \in 0..Top}
    BY DEF Range, BandChannels
  <2>2. Len(InitSteps) = 12
    BY DEF InitSteps
  <2> QED BY <2>1, <2>2 DEF ProcessInv, ProcessTypeOK, Types, Pins
<1> QED BY <1>1, ProcessInvariance, PTL

(* exit powers the chip down between two operations of the tuner, as long  *)
(* as the bus works.                                                       *)
THEOREM PowerDownFindsRest == ProcessSpec => []PoweredDownAtRest
<1>1. ProcessInv => PoweredDownAtRest
  BY DEF ProcessInv, PoweredDownAtRest, InLife, FmInv, RestInv
<1> QED BY <1>1, ProcessInvariance, PTL


-----------------------------------------------------------------------------
(* The list of a scan.                                                     *)

(* The channels of the stations inside of the band up to c, which `data`   *)
(* has, in order. *)
Upto(c) == {ChannelOf(s) : s \in {t \in Stations : 0 < t /\ t < Top /\ t <= c}}
Ordered == \A i, j \in 1..Len(data) : i < j => data[i] < data[j]
Listed(c) == Range(data) = Upto(c) /\ Ordered

RoomInv == Len(data) <= room /\ \E n \in Nat : room = Preallocated * n

(* Until the first seek the tuner is at the start of the band, or tunes to *)
(* it, even when the set_channel that does so is cut off by a failure.     *)
AtStart == chip.readchan = 0 /\ chip.channel = 0

TuneOnly ==
  /\ chip.seek = FALSE /\ busy # "seek"
  /\ chip.tune = TRUE => clearing = FALSE /\ (busy = "tune" \/ chip.stc = TRUE)
  /\ chip.tune = FALSE => busy = "idle" /\ (chip.stc = TRUE => clearing = TRUE)

(* A first seek that follows such a failure either goes through its own    *)
(* handshake, or takes the STC of the tune for its own and stays there.    *)
Proper ==
  /\ chip.tune = FALSE
  /\ pc = "wait_high" => chip.seek = TRUE /\ clearing = FALSE /\ (busy = "seek" \/ chip.stc = TRUE)
  /\ pc = "write_low" => chip.seek = TRUE /\ chip.stc = TRUE /\ clearing = FALSE
  /\ pc = "wait_low" => chip.seek = FALSE /\ (chip.stc = TRUE => clearing = TRUE)

Aside == AtStart /\ busy # "seek"

FirstSeek ==
  /\ pc \in {"read", "write_high"} => AtStart /\ TuneOnly
  /\ pc \in {"wait_high", "write_low", "wait_low"} => Aside \/ Proper

(* A seek that has not failed and has not come to the start of the band    *)
(* has ended where it says, and the chip is at rest.                       *)
Ended ==
  /\ AtRest
  /\ ret = ChannelOf(chip.readchan)
  /\ chip.readchan = SeekEnd(before.tuned, FM_TUNER_SEEKUP).readchan
  /\ success = ~SeekEnd(before.tuned, FM_TUNER_SEEKUP).sfbl

MayGoOn == ret \notin {-1, FM_TUNER_CHANNEL_START}

TuneInv == AtRest /\ AtStart /\ Listed(0)
SetInv == AtStart /\ TuneOnly /\ Listed(0) /\ (pc # "idle" => before.clean = TRUE)
BetweenInv == AtRest /\ Listed(chip.readchan)
MeasureInv ==
  /\ call.op = "seek" /\ call.arg = FM_TUNER_SEEKUP
  /\ before.tuned \in 0..Top /\ before.shown = before.tuned
  /\ Listed(before.tuned)
  /\ pc # "idle" /\ before.clean # TRUE => before.tuned = 0 /\ FirstSeek
  /\ pc = "idle" /\ MayGoOn => Ended

ListInv ==
  Running("seek") =>
    /\ RoomInv
    /\ scan = "tune" => TuneInv
    /\ scan = "seek" /\ call.op = "set_channel" => SetInv
    /\ scan = "seek" /\ call.op # "set_channel" => BetweenInv
    /\ scan = "measure" => MeasureInv
    /\ scan = "report" => \E c \in 0..Top : Listed(c)

(* What a seek adds to the stations up to where it has begun. *)
LEMMA SeekAdds ==
  ASSUME NEW b \in 0..Top
  PROVE  /\ SeekEnd(b, FM_TUNER_SEEKUP).sfbl = TRUE => Upto(SeekEnd(b, FM_TUNER_SEEKUP).readchan) = Upto(b)
         /\ SeekEnd(b, FM_TUNER_SEEKUP).sfbl = FALSE =>
              /\ Upto(SeekEnd(b, FM_TUNER_SEEKUP).readchan)
                   = Upto(b) \union {ChannelOf(SeekEnd(b, FM_TUNER_SEEKUP).readchan)}
              /\ \A c \in Upto(b) : c \in Int /\ c < ChannelOf(SeekEnd(b, FM_TUNER_SEEKUP).readchan)
         /\ SeekEnd(b, FM_TUNER_SEEKUP).sfbl \in BOOLEAN
         /\ SeekEnd(b, FM_TUNER_SEEKUP).readchan \in 0..Top
<1> DEFINE ahead == {s \in Stations : b < s /\ s < Top}
           end == SeekEnd(b, FM_TUNER_SEEKUP)
<1>1. end = IF ahead = {} THEN [readchan |-> Top, sfbl |-> TRUE] ELSE [readchan |-> Min(ahead), sfbl |-> FALSE]
  BY DEF SeekEnd, FM_TUNER_SEEKUP, FM_TUNER_SEEKDOWN
<1>2. Top \in Nat /\ Top <= 1023 /\ Stations \subseteq 0..Top /\ b \in ChannelRegister
  BY BandAssumption DEF ChannelRegister
<1>3. end.readchan \in 0..Top /\ end.sfbl \in BOOLEAN
  BY <1>2, SeekEndType
<1>4. ahead # {} => Min(ahead) \in ahead /\ \A s \in ahead : Min(ahead) <= s
  <2>1. IsFiniteSet(0..Top)
    BY <1>2, FS_Interval
  <2>2. ahead \in SUBSET (0..Top) /\ ahead \in SUBSET Int
    <3>1. ahead \subseteq Stations /\ 0..Top \subseteq Int
      OBVIOUS
    <3> HIDE DEF ahead
    <3> QED BY <1>2, <3>1
  <2>3. IsFiniteSet(ahead)
    <3> HIDE DEF ahead
    <3> QED BY <2>1, <2>2, FS_Subset
  <2> HIDE DEF ahead
  <2> QED BY <2>2, <2>3, MinExists
<1>5. CASE ahead = {}
  <2>1. end.readchan = Top /\ end.sfbl = TRUE
    BY <1>1, <1>5
  <2>2. {t \in Stations : 0 < t /\ t < Top /\ t <= Top} = {t \in Stations : 0 < t /\ t < Top /\ t <= b}
    <3>1. \A t \in Stations : t < Top => (t <= Top <=> t <= b)
      BY <1>2, <1>5
    <3> QED BY <3>1
  <2> HIDE DEF end
  <2>3. Upto(end.readchan) = Upto(b)
    BY <2>1, <2>2 DEF Upto
  <2> QED BY <1>3, <2>1, <2>3 DEF end
<1>6. CASE ahead # {}
  <2> DEFINE m == Min(ahead)
  <2>1. end.readchan = m /\ end.sfbl = FALSE
    BY <1>1, <1>6
  <2>2. m \in ahead /\ \A s \in ahead : m <= s
    BY <1>4, <1>6
  <2> HIDE DEF m, end
  <2>3. m \in Stations /\ m \in Int /\ b < m /\ 0 < m /\ m < Top
    BY <1>2, <2>2
  <2>4. {t \in Stations : 0 < t /\ t < Top /\ t <= m} = {t \in Stations : 0 < t /\ t < Top /\ t <= b} \union {m}
    <3>1. \A t \in Stations : 0 < t /\ t < Top /\ t <= m <=> (0 < t /\ t < Top /\ t <= b) \/ t = m
      <4> SUFFICES ASSUME NEW t \in Stations
                   PROVE  0 < t /\ t < Top /\ t <= m <=> (0 < t /\ t < Top /\ t <= b) \/ t = m
        OBVIOUS
      <4>1. t \in Int /\ b \in Int
        BY <1>2
      <4>2. b < t /\ t < Top => m <= t
        BY <2>2
      <4> QED BY <1>2, <2>3, <4>1, <4>2
    <3> QED BY <2>3, <3>1
  <2>5. Upto(m) = Upto(b) \union {ChannelOf(m)}
    <3> DEFINE below(c) == {t \in Stations : 0 < t /\ t < Top /\ t <= c}
    <3>1. below(m) = below(b) \union {m}
      BY <2>4
    <3>2. \A c : Upto(c) = {ChannelOf(s) : s \in below(c)}
      BY DEF Upto
    <3> HIDE DEF below
    <3> QED BY <3>1, <3>2
  <2>6. \A c \in Upto(b) : c \in Int /\ c < ChannelOf(m)
    <3>1. ASSUME NEW s \in Stations, s <= b PROVE ChannelOf(s) \in Int /\ ChannelOf(s) < ChannelOf(m)
      <4>1. s \in Int /\ s < m
        BY <1>2, <2>3, <3>1
      <4> QED BY <2>3, <4>1 DEF ChannelOf, FM_TUNER_CHANNEL_START
    <3> QED BY <3>1 DEF Upto
  <2> QED BY <1>3, <2>1, <2>5, <2>6 DEF end
<1> QED BY <1>5, <1>6

(* The list grows at its end, and there is room. *)
LEMMA ListGrows ==
  ASSUME NEW b \in 0..Top, Listed(b), data \in Seq(BandChannels), NEW c \in BandChannels,
         \A x \in Upto(b) : x \in Int /\ x < c, data' = Append(data, c)
  PROVE  /\ Ordered' /\ Len(data') = Len(data) + 1
         /\ Range(data') = Upto(b) \union {c}
<1>1. /\ Len(data) \in Nat /\ Len(data') = Len(data) + 1 /\ DOMAIN data = 1..Len(data)
      /\ DOMAIN data' = 1..(Len(data) + 1)
      /\ \A i \in 1..Len(data) : data'[i] = data[i]
      /\ data'[Len(data) + 1] = c
  BY AppendProperties, LenProperties
<1>2. \A i \in 1..Len(data) : data[i] \in Upto(b)
  BY <1>1 DEF Listed, Range
<1>3. Ordered'
  <2> SUFFICES ASSUME NEW i \in 1..(Len(data) + 1), NEW j \in 1..(Len(data) + 1), i < j
               PROVE  data'[i] < data'[j]
    BY <1>1 DEF Ordered
  <2>1. i \in 1..Len(data)
    BY <1>1
  <2>2. CASE j \in 1..Len(data)
    BY <1>1, <2>1, <2>2 DEF Listed, Ordered
  <2>3. CASE j = Len(data) + 1
    BY <1>1, <1>2, <2>1, <2>3
  <2> QED BY <1>1, <2>2, <2>3
<1>4. Range(data') = Upto(b) \union {c}
  <2>1. Range(data') = {data'[i] : i \in 1..(Len(data) + 1)} /\ Upto(b) = {data[i] : i \in 1..Len(data)}
    BY <1>1 DEF Listed, Range
  <2>2. \A i \in 1..(Len(data) + 1) : i \in 1..Len(data) \/ i = Len(data) + 1
    BY <1>1
  <2>3. 1..Len(data) \subseteq 1..(Len(data) + 1) /\ Len(data) + 1 \in 1..(Len(data) + 1)
    BY <1>1
  <2> QED BY <1>1, <2>1, <2>2, <2>3
<1> QED BY <1>1, <1>3, <1>4

(* `room` is a multiple of Preallocated: when it is used up, so is the     *)
(* length of the list, and seek_utils makes more.                          *)
LEMMA Multiple ==
  ASSUME NEW p \in Nat \ {0}, NEW n \in Nat
  PROVE  (p * n) % p = 0
OBVIOUS

LEMMA MultipleOf ==
  ASSUME NEW p \in Nat \ {0}, NEW l \in Nat, l % p = 0
  PROVE  \E n \in Nat : l + p = p * n
<1> DEFINE d == l \div p
<1>1. d \in Nat /\ l = p * d
  OBVIOUS
<1> HIDE DEF d
<1>2. l + p = p * (d + 1) /\ d + 1 \in Nat
  BY <1>1
<1> QED BY <1>2

-----------------------------------------------------------------------------
(* The steps of the driver and the chip while a scan runs.                 *)

(* Of the chip's registers a step of the driver only writes those of its   *)
(* call, and of the rest of the state none but its own. *)
LEMMA DriverStep ==
  ASSUME FmInv, Driver \/ TransferFails, call.op \in {"set_channel", "seek"}
  PROVE  /\ pc # "idle" /\ UNCHANGED call
         /\ before'.clean = before.clean /\ before'.tuned = before.tuned /\ before'.shown = before.shown
         /\ \/ UNCHANGED << chip, busy, clearing >>
            \/ pc = "write_high" /\ Written(regs) /\ pc' \in {"wait_high", "idle"}
            \/ pc = "write_low" /\ Written(regs) /\ pc' \in {"wait_low", "idle"}
<1>1. pc # "write"
  BY DEF FmInv, OpInv
<1>2. before'.clean = before.clean /\ before'.tuned = before.tuned /\ before'.shown = before.shown
  BY DEF FmInv, TypeOK, Driver, Read, WriteVolume, WriteHigh, WaitHigh, WriteLow, WaitLow, TransferFails
<1> QED BY <1>1, <1>2 DEF Driver, Read, WriteVolume, WriteHigh, WaitHigh, WriteLow, WaitLow, TransferFails, Returns

(* A tune to the start of the band that goes on, or is left as it was. *)
LEMMA TuneOnlyGoesOn ==
  ASSUME FmInv, AtStart, TuneOnly, Chip
  PROVE  AtStart' /\ TuneOnly'
<1> USE DEF FmInv
<1>1. /\ chip'.channel = chip.channel /\ chip'.tune = chip.tune /\ chip'.seek = chip.seek
      /\ chip'.readchan \in {chip.readchan, Heading}
  BY ChipStep
<1>2. CASE TuneDone
  <2>1. busy = "tune" /\ busy' = "idle" /\ chip'.stc = TRUE /\ clearing' = clearing
        /\ chip'.readchan = chip.channel
    BY <1>2, Typed DEF TuneDone, Registers
  <2>2. chip.tune = TRUE
    BY <2>1, Typed DEF TuneOnly
  <2> QED BY <1>1, <2>1, <2>2 DEF AtStart, TuneOnly
<1>3. CASE SeekDone
  BY <1>3 DEF SeekDone, TuneOnly
<1>4. CASE StcCleared
  <2>1. clearing = TRUE /\ clearing' = FALSE /\ busy' = busy /\ chip'.stc = FALSE
        /\ chip'.readchan = chip.readchan
    BY <1>4, Typed DEF StcCleared, Registers
  <2> QED BY <1>1, <2>1 DEF AtStart, TuneOnly
<1> QED BY <1>2, <1>3, <1>4 DEF Chip

LEMMA SetGoesOn ==
  ASSUME FmInv, SetInv, call.op = "set_channel", call.arg = FM_TUNER_CHANNEL_START, data' = data,
         Driver \/ TransferFails \/ Chip
  PROVE  SetInv'
<1> USE DEF FmInv
<1>1. Listed(0)'
  BY DEF SetInv, Listed, Ordered, Upto
<1>2. CASE Chip
  <2>1. UNCHANGED << pc, before >>
    BY <1>2, ChipStep
  <2> QED BY <1>1, <1>2, <2>1, TuneOnlyGoesOn DEF SetInv
<1>3. CASE Driver \/ TransferFails
  <2>1. /\ pc # "idle" /\ before'.clean = before.clean
        /\ \/ UNCHANGED << chip, busy, clearing >>
           \/ pc = "write_high" /\ Written(regs)
           \/ pc = "write_low" /\ Written(regs)
    BY <1>3, DriverStep
  <2>2. before.clean = TRUE /\ AtStart /\ TuneOnly
    BY <2>1 DEF SetInv
  <2>3. CASE UNCHANGED << chip, busy, clearing >>
    BY <1>1, <2>1, <2>2, <2>3 DEF SetInv, AtStart, TuneOnly
  <2>4. CASE pc = "write_high" /\ Written(regs)
    <3>1. /\ chip'.channel = 0 /\ chip'.tune = TRUE /\ chip'.seek = chip.seek /\ chip'.readchan = chip.readchan
          /\ chip'.stc = chip.stc /\ UNCHANGED clearing
          /\ busy' = IF busy = "idle" /\ ~chip.stc /\ ~chip.tune THEN "tune" ELSE busy
      BY <2>4, HighWritten, StartOfBand
    <3>2. busy = "idle" /\ chip.stc = FALSE /\ chip.tune = FALSE /\ clearing = FALSE
      BY <2>2, <2>4, Typed DEF CleanInv, AtRest, ChipInv
    <3> QED BY <1>1, <2>1, <2>2, <3>1, <3>2 DEF SetInv, AtStart, TuneOnly
  <2>5. CASE pc = "write_low" /\ Written(regs)
    <3>1. /\ chip'.channel = chip.channel /\ chip'.tune = FALSE /\ chip'.seek = chip.seek
          /\ chip'.readchan = chip.readchan /\ chip'.stc = chip.stc /\ busy' = "idle"
          /\ clearing' = TRUE
      <4>1. chip.stc = TRUE /\ Bits(TRUE, FALSE)
        BY <2>2, <2>5 DEF CleanInv
      <4>2. (call.op = "set_channel") = TRUE /\ (call.op = "seek") = FALSE
        OBVIOUS
      <4>3. Bits(call.op = "set_channel", call.op = "seek")
        BY <2>2, <2>5 DEF CleanInv
      <4> QED BY <2>5, <4>1, <4>3, LowWritten
    <3> QED BY <1>1, <2>1, <2>2, <3>1 DEF SetInv, AtStart, TuneOnly
  <2> QED BY <2>1, <2>3, <2>4, <2>5
<1> QED BY <1>2, <1>3

(* A first seek after a set_channel that has failed. *)
LEMMA FirstSeekGoesOn ==
  ASSUME FmInv, FirstSeek, call.op = "seek", pc # "idle", Driver \/ Chip
  PROVE  pc' # "idle" => FirstSeek'
<1> USE DEF FmInv
<1>1. pc \in {"read", "write_high", "wait_high", "write_low", "wait_low"}
  BY DEF TypeOK, OpInv
<1>2. CASE Chip /\ pc \in {"read", "write_high"}
  <2>1. pc' = pc
    BY <1>2, ChipStep
  <2> QED BY <1>2, <2>1, TuneOnlyGoesOn DEF FirstSeek
<1>3. CASE Chip /\ pc \in {"wait_high", "write_low", "wait_low"}
  <2>1. /\ pc' = pc /\ chip'.channel = chip.channel /\ chip'.tune = chip.tune /\ chip'.seek = chip.seek
    BY <1>3, ChipStep
  <2>2. CASE TuneDone
    <3>1. busy = "tune" /\ busy' = "idle" /\ chip.stc = FALSE /\ chip'.readchan = chip.channel
      BY <2>2, Typed DEF TuneDone, Registers, ChipInv
    <3>2. ~Proper
      BY <1>3, <3>1 DEF Proper, ChipInv
    <3>3. Aside'
      BY <1>3, <2>1, <3>1, <3>2 DEF FirstSeek, Aside, AtStart
    <3> QED BY <1>3, <2>1, <3>3 DEF FirstSeek
  <2>3. CASE SeekDone
    <3>1. busy = "seek" /\ busy' = "idle" /\ clearing' = clearing /\ chip'.stc = TRUE
      BY <2>3, Typed DEF SeekDone, Registers
    <3>2. pc = "wait_high" /\ Proper
      BY <1>3, <3>1 DEF FirstSeek, Aside, ChipInv
    <3>3. Proper'
      BY <2>1, <3>1, <3>2 DEF Proper
    <3> QED BY <1>3, <2>1, <3>3 DEF FirstSeek
  <2>4. CASE StcCleared
    <3>1. clearing = TRUE /\ busy' = busy /\ chip'.stc = FALSE /\ clearing' = FALSE /\ chip'.readchan = chip.readchan
      BY <2>4, Typed DEF StcCleared, Registers
    <3>2. Aside => Aside'
      BY <2>1, <3>1 DEF Aside, AtStart
    <3>3. Proper => Proper'
      BY <1>3, <2>1, <3>1 DEF Proper
    <3> QED BY <1>3, <2>1, <3>2, <3>3 DEF FirstSeek
  <2> QED BY <1>3, <2>2, <2>3, <2>4 DEF Chip
<1>4. CASE Read
  <2>1. pc' = "write_high" /\ UNCHANGED << chip, busy, clearing >> /\ pc = "read"
    BY <1>4 DEF Read
  <2> QED BY <2>1 DEF FirstSeek, AtStart, TuneOnly
<1>5. CASE WriteHigh
  <2>1. /\ pc = "write_high" /\ pc' = "wait_high"
        /\ chip'.seek = TRUE /\ chip'.tune = chip.tune /\ chip'.channel = chip.channel
        /\ chip'.readchan = chip.readchan /\ chip'.stc = chip.stc /\ clearing' = clearing
        /\ busy' = IF busy = "idle" /\ ~chip.stc /\ ~chip.seek THEN "seek" ELSE busy
    BY <1>5, HighWritten DEF WriteHigh
  <2>2. AtStart /\ TuneOnly
    BY <2>1 DEF FirstSeek
  <2>3. CASE chip.tune = TRUE \/ chip.stc = TRUE
    <3>1. busy' = busy /\ busy # "seek"
      BY <2>1, <2>2, <2>3 DEF TuneOnly
    <3>2. Aside'
      BY <2>1, <2>2, <3>1 DEF Aside, AtStart
    <3> QED BY <2>1, <3>2 DEF FirstSeek
  <2>4. CASE chip.tune = FALSE /\ chip.stc = FALSE
    <3>1. busy' = "seek" /\ clearing' = FALSE
      BY <2>1, <2>2, <2>4, Typed DEF TuneOnly, ChipInv
    <3>2. Proper'
      BY <2>1, <2>4, <3>1 DEF Proper
    <3> QED BY <2>1, <3>2 DEF FirstSeek
  <2> QED BY <2>3, <2>4, Typed
<1>6. CASE WaitHigh
  <2>1. /\ pc = "wait_high" /\ UNCHANGED << chip, busy, clearing >>
        /\ pc' = "wait_high" \/ (pc' = "write_low" /\ chip.stc = TRUE)
    BY <1>6, Typed DEF WaitHigh
  <2>2. Aside => Aside'
    BY <2>1 DEF Aside, AtStart
  <2>3. Proper => Proper'
    BY <2>1 DEF Proper
  <2> QED BY <2>1, <2>2, <2>3 DEF FirstSeek
<1>7. CASE WriteLow
  <2>1. /\ pc = "write_low" /\ pc' = "wait_low" /\ busy' = "idle"
        /\ chip'.seek = FALSE /\ chip'.tune = chip.tune /\ chip'.channel = chip.channel
        /\ chip'.readchan = chip.readchan /\ chip'.stc = chip.stc
        /\ chip.stc = TRUE /\ Bits(call.op = "set_channel", call.op = "seek") => clearing' = TRUE
    BY <1>7, LowWritten DEF WriteLow
  <2>2. Aside => Aside'
    BY <2>1 DEF Aside, AtStart
  <2>3. Proper => Proper'
    <3>1. Proper => Bits(call.op = "set_channel", call.op = "seek")
      BY <2>1 DEF Proper, Bits
    <3> QED BY <2>1, <3>1 DEF Proper
  <2> QED BY <2>1, <2>2, <2>3 DEF FirstSeek
<1>8. CASE WaitLow
  <2>1. /\ pc = "wait_low" /\ UNCHANGED << chip, busy, clearing >>
        /\ pc' = "wait_low" \/ pc' = "idle"
    BY <1>8 DEF WaitLow, Returns
  <2> QED BY <2>1 DEF FirstSeek, Aside, AtStart, Proper
<1>9. ~WriteVolume
  BY <1>1 DEF WriteVolume
<1> QED BY <1>1, <1>2, <1>3, <1>4, <1>5, <1>6, <1>7, <1>8, <1>9 DEF Driver

(* A seek that returns where it may go on has ended at the next station,   *)
(* or at the end of the band, and has left the chip at rest.               *)
LEMMA SeekReturnsEnded ==
  ASSUME FmInv, MeasureInv, WaitLow, pc' = "idle", MayGoOn'
  PROVE  Ended'
<1> USE DEF FmInv
<1>1. /\ pc = "wait_low" /\ ~chip.stc /\ busy = "idle" /\ ret' = ChannelOf(chip.readchan)
      /\ call.op = "seek" /\ call.arg = FM_TUNER_SEEKUP
      /\ UNCHANGED << chip, busy, clearing, success, before >>
  BY DEF WaitLow, Returns, MeasureInv, ChipInv
<1>2. /\ chip.tune = FALSE /\ chip.seek = FALSE
      /\ chip.readchan = SeekEnd(before.tuned, FM_TUNER_SEEKUP).readchan
      /\ success = ~SeekEnd(before.tuned, FM_TUNER_SEEKUP).sfbl
  <2>1. CASE before.clean = TRUE
    <3>1. Bits(FALSE, FALSE) /\ Arrived /\ success = ~SeekEnd(before.tuned, call.arg).sfbl
      BY <1>1, <2>1, Zenon DEF CleanInv
    <3> QED BY <1>1, <3>1 DEF Bits, Arrived
  <2>2. CASE before.clean # TRUE
    <3>1. before.tuned = 0 /\ before.shown = 0 /\ (Aside \/ Proper)
      BY <1>1, <2>2 DEF MeasureInv, FirstSeek
    <3>2. chip.readchan # 0
      <4>1. ChannelOf(0) = FM_TUNER_CHANNEL_START
        BY DEF ChannelOf, FM_TUNER_CHANNEL_START
      <4> QED BY <1>1, <4>1 DEF MayGoOn
    <3>3. Proper
      BY <3>1, <3>2 DEF Aside, AtStart
    <3>4. From = {0}
      BY <3>1 DEF From
    <3>5. \E f \in From : SeekEnd(f, call.arg).readchan = chip.readchan /\ SeekEnd(f, call.arg).sfbl = ~success
      BY <1>1, <3>2, <3>4 DEF SeekInv
    <3>6. SeekEnd(0, FM_TUNER_SEEKUP).readchan = chip.readchan /\ SeekEnd(0, FM_TUNER_SEEKUP).sfbl = ~success
      BY <1>1, <3>4, <3>5
    <3>7. success = ~SeekEnd(0, FM_TUNER_SEEKUP).sfbl
      BY <3>6, Typed
    <3> QED BY <1>1, <3>1, <3>3, <3>6, <3>7 DEF Proper
  <2> QED BY <2>1, <2>2
<1>3. AtRest'
  BY <1>1, <1>2 DEF AtRest
<1> QED BY <1>1, <1>2, <1>3 DEF Ended

LEMMA MeasureGoesOn ==
  ASSUME FmInv, MeasureInv, data' = data, Driver \/ TransferFails \/ Chip
  PROVE  MeasureInv'
<1> USE DEF FmInv
<1>1. call.op = "seek" /\ call.arg = FM_TUNER_SEEKUP
  BY DEF MeasureInv
<1>2. /\ UNCHANGED call /\ before'.clean = before.clean /\ before'.tuned = before.tuned
      /\ before'.shown = before.shown
  BY <1>1, ChipStep, DriverStep
<1>3. Listed(before.tuned)'
  BY <1>2 DEF MeasureInv, Listed, Ordered, Upto
<1>4. pc' # "idle" /\ before'.clean # TRUE => before'.tuned = 0 /\ FirstSeek'
  <2> SUFFICES ASSUME pc' # "idle", before'.clean # TRUE PROVE before'.tuned = 0 /\ FirstSeek'
    OBVIOUS
  <2>1. pc # "idle" /\ (Driver \/ Chip)
    <3>1. ~TransferFails
      BY DEF TransferFails, Returns
    <3>2. Chip => pc' = pc
      BY ChipStep
    <3> QED BY <1>1, <3>1, <3>2, DriverStep
  <2> QED BY <1>1, <1>2, <2>1, FirstSeekGoesOn DEF MeasureInv
<1>5. pc' = "idle" /\ MayGoOn' => Ended'
  <2> SUFFICES ASSUME pc' = "idle", MayGoOn' PROVE Ended'
    OBVIOUS
  <2>1. CASE WaitLow
    BY <2>1, SeekReturnsEnded
  <2>2. CASE TransferFails
    BY <2>2 DEF TransferFails, Returns, MayGoOn
  <2>3. CASE Driver /\ ~WaitLow
    BY <1>1, <2>3 DEF Driver, Read, WriteVolume, WriteHigh, WaitHigh, WriteLow, OpInv
  <2>4. CASE Chip
    <3>1. pc = "idle" /\ ret' = ret
      BY <2>4, ChipStep
    <3>2. Ended
      BY <3>1 DEF MeasureInv, MayGoOn
    <3>3. FALSE
      BY <2>4, <3>2, NothingAtRest DEF Ended
    <3> QED BY <3>3
  <2> QED BY <2>1, <2>2, <2>3, <2>4
<1> QED BY <1>1, <1>2, <1>3, <1>4, <1>5 DEF MeasureInv

(* A step of the driver or the chip, during a scan. *)
LEMMA ListGoesOn ==
  ASSUME ProcessInv, ListInv, stage = "running", Driver \/ TransferFails \/ Chip,
         UNCHANGED << processVars, power, i2c >>
  PROVE  ListInv'
<1> SUFFICES ASSUME Running("seek")' PROVE ListInv'
  BY DEF ListInv
<1>1. /\ FmInv /\ Running("seek") /\ ScanInv
      /\ UNCHANGED << scan, data, room >>
  BY DEF ProcessInv, InLife, Running, processVars
<1>2. UNCHANGED call
  BY <1>1, ChipStep DEF FmInv, Driver, Read, WriteVolume, WriteHigh, WaitHigh, WriteLow, WaitLow, TransferFails
<1>3. RoomInv'
  BY <1>1 DEF ListInv, RoomInv
<1>4. ASSUME pc = "idle", AtRest PROVE FALSE
  <2>1. ~Driver /\ ~TransferFails
    BY <1>4 DEF Driver, Read, WriteVolume, WriteHigh, WaitHigh, WriteLow, WaitLow, TransferFails
  <2> QED BY <1>1, <1>4, <2>1, NothingAtRest DEF FmInv
<1>5. scan = "tune" => FALSE
  BY <1>1, <1>4 DEF ListInv, TuneInv, ScanInv
<1>6. scan = "seek" /\ call.op = "set_channel" => SetInv'
  <2> SUFFICES ASSUME scan = "seek", call.op = "set_channel" PROVE SetInv'
    OBVIOUS
  <2>1. SetInv
    BY <1>1 DEF ListInv
  <2>2. CASE pc # "idle"
    <3>1. call.arg = FM_TUNER_CHANNEL_START
      BY <1>1, <2>2 DEF ScanInv
    <3> QED BY <1>1, <2>1, <3>1, SetGoesOn
  <2>3. CASE pc = "idle"
    <3>1. Chip /\ pc' = pc
      BY <1>1, <2>3, ChipStep DEF FmInv, Driver, Read, WriteVolume, WriteHigh, WaitHigh, WriteLow, WaitLow,
                                  TransferFails
    <3>2. Listed(0)'
      BY <1>1, <2>1 DEF SetInv, Listed, Ordered, Upto
    <3> QED BY <1>1, <2>1, <2>3, <3>1, <3>2, TuneOnlyGoesOn DEF SetInv
  <2> QED BY <2>2, <2>3
<1>7. scan = "seek" /\ call.op # "set_channel" => FALSE
  BY <1>1, <1>4 DEF ListInv, BetweenInv, ScanInv
<1>8. scan = "measure" => MeasureInv'
  BY <1>1, MeasureGoesOn DEF ListInv
<1>9. scan = "report" => \E c \in 0..Top : Listed(c)'
  BY <1>1 DEF ListInv, Listed, Ordered, Upto
<1> QED BY <1>1, <1>2, <1>3, <1>5, <1>6, <1>7, <1>8, <1>9 DEF ListInv

-----------------------------------------------------------------------------
(* The steps of the scan itself.                                           *)

LEMMA ScanCallList ==
  ASSUME ProcessInv, ListInv, ScanTune \/ ScanSeek
  PROVE  ListInv'
<1>1. /\ Running("seek") /\ ScanInv /\ FmInv /\ Call /\ pc = "idle" /\ pc' = "read"
      /\ UNCHANGED << chip, busy, clearing, data, room, mode, stage >>
      /\ \/ scan = "tune" /\ scan' = "seek" /\ call'.op = "set_channel"
         \/ scan = "seek" /\ scan' = "measure" /\ call'.op = "seek" /\ call'.arg = FM_TUNER_SEEKUP
  <2>1. Running("seek") /\ ScanInv /\ FmInv
    BY DEF ProcessInv, InLife, ScanTune, ScanSeek, ScanCall, Running
  <2>2. /\ Call /\ UNCHANGED << mode, stage, data, room >>
        /\ \/ scan = "tune" /\ scan' = "seek" /\ call'.op = "set_channel"
           \/ scan = "seek" /\ scan' = "measure" /\ call'.op = "seek" /\ call'.arg = FM_TUNER_SEEKUP
    BY DEF ScanTune, ScanSeek, ScanCall
  <2>3. pc = "idle" /\ pc' = "read" /\ UNCHANGED << chip, busy, clearing >>
    BY <2>2 DEF Call
  <2> QED BY <2>1, <2>2, <2>3
<1>2. /\ before'.clean = AtRest /\ before'.tuned = Heading /\ before'.shown = chip.readchan
  BY <1>1 DEF Call, FmInv, TypeOK
<1>3. RoomInv' /\ \A c : Listed(c) => Listed(c)'
  BY <1>1 DEF ListInv, RoomInv, Listed, Ordered, Upto
<1>4. chip.readchan \in 0..Top
  BY <1>1 DEF ScanInv
<1>5. CASE scan = "tune"
  <2>1. TuneInv /\ scan' = "seek" /\ call'.op = "set_channel"
    BY <1>1, <1>5 DEF ListInv
  <2>2. TuneOnly /\ AtRest
    BY <1>1, <2>1, Typed DEF TuneInv, AtRest, TuneOnly, FmInv
  <2>3. SetInv'
    <3>1. before'.clean = TRUE
      BY <1>2, <2>2
    <3> QED BY <1>1, <1>3, <2>1, <2>2, <3>1 DEF TuneInv, SetInv, AtStart, TuneOnly
  <2> QED BY <1>3, <2>1, <2>3 DEF ListInv
<1>6. CASE scan = "seek"
  <2>1. scan' = "measure" /\ call'.op = "seek" /\ call'.arg = FM_TUNER_SEEKUP
    BY <1>1, <1>6
  <2>2. CASE call.op = "set_channel"
    <3>1. SetInv
      BY <1>1, <1>6, <2>2 DEF ListInv
    <3>2. Heading = 0 /\ chip.readchan = 0
      BY <3>1 DEF SetInv, AtStart, TuneOnly, Heading
    <3>3. FirstSeek'
      BY <1>1, <3>1 DEF SetInv, FirstSeek, AtStart, TuneOnly
    <3>4. Listed(0)'
      BY <1>3, <3>1 DEF SetInv
    <3>5. before'.tuned = 0 /\ before'.shown = 0
      BY <1>2, <3>2
    <3>6. Listed(before.tuned)'
      BY <3>4, <3>5 DEF Listed, Upto
    <3>7. MeasureInv'
      BY <1>1, <1>4, <2>1, <3>2, <3>3, <3>5, <3>6 DEF MeasureInv
    <3> QED BY <1>3, <2>1, <3>7 DEF ListInv
  <2>3. CASE call.op # "set_channel"
    <3>1. BetweenInv
      BY <1>1, <1>6, <2>3 DEF ListInv
    <3>2. Heading = chip.readchan /\ before'.clean = TRUE
      BY <1>2, <3>1, HeadingIdle DEF BetweenInv, AtRest
    <3>3. before'.tuned = chip.readchan /\ before'.shown = chip.readchan
      BY <1>2, <3>2
    <3>4. Listed(before.tuned)'
      BY <1>3, <3>1, <3>3 DEF BetweenInv, Listed, Upto
    <3>5. MeasureInv'
      BY <1>1, <1>4, <2>1, <3>2, <3>3, <3>4 DEF MeasureInv
    <3> QED BY <1>3, <2>1, <3>5 DEF ListInv
  <2> QED BY <2>2, <2>3
<1> QED BY <1>1, <1>5, <1>6

(* A station is recorded, in the room that is there or is made now. *)
LEMMA RoomMade ==
  ASSUME RoomInv, Len(data) \in Nat, Len(data') \in {Len(data), Len(data) + 1},
         room' = IF Len(data) % Preallocated = 0 THEN Len(data) + Preallocated ELSE room
  PROVE  RoomInv'
<1>1. Preallocated \in Nat \ {0}
  BY ProcessAssumption
<1>2. PICK n \in Nat : room = Preallocated * n
  BY DEF RoomInv
<1>3. CASE Len(data) % Preallocated = 0
  <2>1. \E k \in Nat : room' = Preallocated * k
    BY <1>1, <1>3, MultipleOf
  <2>2. Len(data') <= room'
    BY <1>1, <1>3
  <2> QED BY <2>1, <2>2 DEF RoomInv
<1>4. CASE Len(data) % Preallocated # 0
  <2>1. room % Preallocated = 0
    BY <1>1, <1>2, Multiple
  <2>2. Len(data) # room
    BY <1>4, <2>1
  <2>3. room \in Nat /\ Len(data) <= room
    BY <1>1, <1>2 DEF RoomInv
  <2>4. Len(data') <= room
    BY <2>2, <2>3
  <2>5. room' = room
    BY <1>4
  <2>6. \E k \in Nat : room' = Preallocated * k
    BY <1>2, <2>5
  <2> QED BY <2>4, <2>5, <2>6 DEF RoomInv
<1> QED BY <1>3, <1>4

LEMMA ScanMeasureList ==
  ASSUME ProcessInv, ProcessInv', ListInv, ScanMeasure
  PROVE  ListInv'
<1>1. /\ Running("seek") /\ scan = "measure" /\ pc = "idle" /\ FmInv /\ data \in Seq(BandChannels)
      /\ UNCHANGED << regs, pc, call, success, ret, chip, busy, clearing, failures, before >>
      /\ UNCHANGED << mode, stage >>
  BY DEF ProcessInv, InLife, ScanMeasure, SeekReturned, Running, chipVars, driverVars
<1>2. MeasureInv /\ RoomInv
  BY <1>1 DEF ListInv
<1> DEFINE b == before.tuned
           end == SeekEnd(before.tuned, FM_TUNER_SEEKUP)
<1>3. Listed(b) /\ b \in 0..Top
  BY <1>2 DEF MeasureInv
<1>4. CASE ~MayGoOn
  <2>1. scan' = "report" /\ UNCHANGED << data, room >>
    BY <1>4 DEF ScanMeasure, MayGoOn
  <2>2. Listed(b)' /\ RoomInv'
    BY <1>1, <1>2, <1>3, <2>1 DEF Listed, Ordered, Upto, RoomInv
  <2>3. \E c \in 0..Top : Listed(c)'
    BY <1>1, <1>3, <2>2 DEF Listed, Upto
  <2> QED BY <2>1, <2>2, <2>3 DEF ListInv
<1>5. CASE MayGoOn
  <2>1. /\ scan' = "seek"
        /\ room' = IF Len(data) % Preallocated = 0 THEN Len(data) + Preallocated ELSE room
        /\ data' = IF success THEN Append(data, ret) ELSE data
    BY <1>5 DEF ScanMeasure, MayGoOn
  <2>2. /\ AtRest /\ ret = ChannelOf(end.readchan) /\ chip.readchan = end.readchan /\ success = ~end.sfbl
    BY <1>1, <1>2, <1>5 DEF MeasureInv, Ended
  <2>3. end.readchan \in 0..Top /\ end.sfbl \in BOOLEAN
    BY <1>3, SeekAdds
  <2>4. Len(data) \in Nat
    BY <1>1, LenProperties
  <2>5. /\ Len(data') \in {Len(data), Len(data) + 1}
        /\ Ordered' /\ Range(data') = Upto(end.readchan)
    <3>1. CASE end.sfbl = TRUE
      <4>1. data' = data
        BY <2>1, <2>2, <3>1
      <4>2. Upto(end.readchan) = Upto(b)
        BY <1>3, <3>1, SeekAdds
      <4> HIDE DEF end, b
      <4> QED BY <1>3, <4>1, <4>2 DEF Listed, Ordered
    <3>2. CASE end.sfbl = FALSE
      <4>1. data' = Append(data, ChannelOf(end.readchan))
        BY <2>1, <2>2, <3>2
      <4>2. /\ Upto(end.readchan) = Upto(b) \union {ChannelOf(end.readchan)}
            /\ \A c \in Upto(b) : c \in Int /\ c < ChannelOf(end.readchan)
        BY <1>3, <3>2, SeekAdds
      <4>3. ChannelOf(end.readchan) \in BandChannels
        BY <2>3 DEF BandChannels
      <4> HIDE DEF end, b
      <4>4. Ordered' /\ Len(data') = Len(data) + 1 /\ Range(data') = Upto(b) \union {ChannelOf(end.readchan)}
        BY <1>1, <1>3, <4>1, <4>2, <4>3, ListGrows
      <4> QED BY <4>2, <4>4
    <3> QED BY <2>3, <3>1, <3>2
  <2>6. RoomInv'
    <3> HIDE DEF end, b
    <3> QED BY <1>2, <2>1, <2>4, <2>5, RoomMade
  <2>7. BetweenInv'
    <3>1. AtRest'
      BY <1>1, <2>2 DEF AtRest
    <3>2. chip'.readchan = end.readchan
      BY <1>1, <2>2
    <3>3. Listed(chip.readchan)'
      BY <2>5, <3>2 DEF Listed, Upto
    <3> QED BY <3>1, <3>3 DEF BetweenInv
  <2>8. call'.op # "set_channel"
    BY <1>1, <1>2 DEF MeasureInv
  <2> QED BY <2>1, <2>6, <2>7, <2>8 DEF ListInv
<1> QED BY <1>4, <1>5

(* The first life and every later one begins with an empty list. *)
LEMMA PowerUpList ==
  ASSUME LifeInv, PowerUp
  PROVE  ListInv'
<1>1. /\ Init' /\ scan' = "tune" /\ data' = << >> /\ room' = 0
  BY PowerUpReady DEF PowerUp
<1>2. AtRest' /\ AtStart'
  BY <1>1 DEF Init, AtRest, AtStart
<1>3. Listed(0)'
  <2>1. Upto(0) = {}
    <3>1. \A t \in Stations : ~(0 < t /\ t <= 0)
      BY BandAssumption
    <3> QED BY <3>1 DEF Upto
  <2>2. Range(data') = {} /\ Len(data') = 0
    BY <1>1 DEF Range
  <2>3. Ordered'
    BY <2>2 DEF Ordered
  <2> QED BY <2>1, <2>2, <2>3 DEF Listed, Upto
<1>4. RoomInv'
  <2>1. Len(data') <= room'
    BY <1>1
  <2>2. room' = Preallocated * 0 /\ 0 \in Nat
    BY <1>1, ProcessAssumption
  <2> QED BY <2>1, <2>2 DEF RoomInv
<1> QED BY <1>1, <1>2, <1>3, <1>4 DEF ListInv, TuneInv

(* Where a scan is (seek.c:36) says where the chip is, what is listed and  *)
(* how much room there is, whichever transfer has failed.                  *)
THEOREM ListInvariance == ProcessSpec => []ListInv
<1>1. ProcessInit => ListInv
  BY DEF ProcessInit, ListInv, Running
<1>2. LifeInv /\ ProcessInv /\ ProcessInv' /\ ListInv /\ [ProcessNext]_allVars => ListInv'
  <2> SUFFICES ASSUME LifeInv, ProcessInv, ProcessInv', ListInv, [ProcessNext]_allVars PROVE ListInv'
    OBVIOUS
  <2>1. CASE UNCHANGED allVars
    <3>1. UNCHANGED << regs, pc, call, success, ret, chip, busy, clearing, failures, before, mode, stage, scan,
                       data, room >>
      BY <2>1 DEF allVars, vars, processVars
    <3>2. UNCHANGED << AtRest, AtStart, TuneOnly, RoomInv, Ordered, FirstSeek, Ended, MayGoOn >>
      BY <3>1 DEF AtRest, AtStart, TuneOnly, RoomInv, Ordered, FirstSeek, Aside, Proper, Ended, MayGoOn
    <3>3. \A c : Listed(c)' <=> Listed(c)
      BY <3>1, <3>2 DEF Listed, Upto
    <3> QED BY <3>1, <3>2, <3>3 DEF ListInv, TuneInv, SetInv, BetweenInv, MeasureInv, Running
  <2>2. CASE DriverGoesOn \/ DriverFails
    BY <2>2, ListGoesOn DEF DriverGoesOn, DriverFails
  <2>3. CASE ChipGoesOn
    <3>1. CASE stage = "running"
      BY <2>3, <3>1, ListGoesOn DEF ChipGoesOn
    <3>2. CASE stage # "running"
      BY <2>3, <3>2 DEF ChipGoesOn, processVars, ListInv, Running
    <3> QED BY <3>1, <3>2
  <2>4. CASE Scan
    <3>1. CASE ScanReport
      BY <3>1 DEF ScanReport, Exits, ListInv, Running
    <3> QED BY <2>4, <3>1, ScanCallList, ScanMeasureList DEF Scan
  <2>5. CASE StartUp
    <3>1. CASE PowerUp
      BY <3>1, PowerUpList
    <3>2. CASE ~PowerUp
      <4>1. stage' = "init"
        BY <2>5, <3>2, StartUpKeeps DEF ProcessInv
      <4> QED BY <4>1 DEF ListInv, Running
    <3> QED BY <3>1, <3>2
  <2>6. CASE Served
    BY <2>6 DEF Served, Running, processVars, ListInv
  <2>7. CASE OperatorStarts \/ SystemdRestarts \/ InitFails \/ Killed
    BY <2>7 DEF OperatorStarts, SystemdRestarts, Starts, InitFails, Killed, ListInv, Running
  <2>8. CASE ServerStops \/ ServerFails \/ MeasureFails
    BY <2>8 DEF ServerStops, ServerFails, MeasureFails, Exits, ListInv, Running
  <2>9. CASE CloseRead \/ PowerDown \/ CloseFails
    BY <2>9 DEF CloseRead, PowerDown, CloseFails, ListInv, Running
  <2> QED BY <2>1, <2>2, <2>3, <2>4, <2>5, <2>6, <2>7, <2>8, <2>9 DEF ProcessNext
<1> QED BY <1>1, <1>2, ProcessInvariance, PTL DEF ProcessSpec

(* A scan lists the stations inside of the band in order, each once and    *)
(* none left out up to where it has come, whatever has failed before the   *)
(* first seek, and never beyond the room it has made (seek.c:64).          *)
THEOREM ScanLists == ProcessSpec => []ScanListsStations
<1>1. ProcessInv /\ ListInv => ScanListsStations
  <2> SUFFICES ASSUME ProcessInv, ListInv, Running("seek") PROVE ScanListsStations
    BY DEF ScanListsStations
  <2>1. PICK c \in 0..Top : /\ Listed(c)
                            /\ scan = "seek" /\ call.op = "seek" => c = chip.readchan
    <3>1. 0 \in 0..Top
      BY BandAssumption DEF ChannelRegister
    <3>2. scan \in {"tune", "seek", "measure", "report"} /\ chip.readchan \in 0..Top
      BY DEF ProcessInv, Types, ScanInv
    <3> QED BY <3>1, <3>2 DEF ListInv, TuneInv, SetInv, BetweenInv, MeasureInv
  <2>2. /\ data \in Seq(BandChannels) /\ Len(data) \in Nat /\ DOMAIN data = 1..Len(data)
    BY LenProperties DEF ProcessInv
  <2>3. Range(data) = Upto(c) /\ Ordered
    BY <2>1 DEF Listed
  <2>4. Upto(c) \subseteq StationsInside
    BY DEF Upto, StationsInside
  <2>5. ASSUME NEW s \in Stations, 0 < s, s < Top, NEW t \in 0..Top, t <= c, ChannelOf(s) <= ChannelOf(t)
        PROVE  ChannelOf(s) \in Upto(c)
    <3>1. s \in Int /\ t \in Int /\ c \in Int
      BY <2>5, BandAssumption DEF ChannelRegister
    <3>2. s <= t
      BY <2>5, <3>1 DEF ChannelOf, FM_TUNER_CHANNEL_START
    <3>3. s <= c
      BY <2>5, <3>1, <3>2
    <3> QED BY <2>5, <3>3 DEF Upto
  <2>6. \A t \in 0..Top : t <= c => AllUpTo(ChannelOf(t))
    BY <2>3, <2>5 DEF AllUpTo, StationsInside
  <2>7. \A i \in DOMAIN data : AllUpTo(data[i])
    <3> SUFFICES ASSUME NEW i \in DOMAIN data PROVE AllUpTo(data[i])
      OBVIOUS
    <3>1. data[i] \in Upto(c)
      BY <2>3 DEF Range
    <3>2. PICK s \in Stations : data[i] = ChannelOf(s) /\ s <= c
      BY <3>1 DEF Upto
    <3>3. s \in 0..Top
      BY BandAssumption
    <3> QED BY <2>6, <3>2, <3>3
  <2>8. Len(data) <= room
    BY DEF ListInv, RoomInv
  <2>9. scan = "seek" /\ call.op = "seek" => AllUpTo(ChannelOf(chip.readchan))
    <3>1. c <= c
      BY <2>1
    <3> QED BY <2>1, <2>6, <3>1
  <2> QED BY <2>2, <2>3, <2>4, <2>7, <2>8, <2>9 DEF ScanListsStations, Ordered
<1> QED BY <1>1, ProcessInvariance, ListInvariance, PTL
=============================================================================
