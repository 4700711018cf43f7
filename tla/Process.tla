------------------------------ MODULE Process ------------------------------
(***************************************************************************)
(* The life of the program, main.c, around the driver of FmTuner: it opens *)
(* two pins and the bus, resets the chip and powers it up, serves clients  *)
(* or scans the band (seek.c), and powers the chip down when it exits.     *)
(*                                                                         *)
(* It may be killed between any two steps, a call of the driver included,  *)
(* and is then started again: nothing of the process survives, but the     *)
(* pins stay exported and the chip goes on with what it was told.          *)
(***************************************************************************)
EXTENDS FmTuner, Sequences, Functions

CONSTANTS
  Preallocated,  \* the stations for which seek_utils makes room at a time, 10
  MaxFaults,     \* bound: failing steps outside of the calls of the driver
  MaxKills       \* bound: the times the process is killed

ASSUME ProcessAssumption ==
  /\ Preallocated \in Nat \ {0}
  /\ MaxFaults \in Nat
  /\ MaxKills \in Nat

VARIABLES
  mode,   \* MODE_SERVER or MODE_SEEK
  stage,  \* where main is
  step,   \* in __fm_tuner_init or __fm_tuner_close: the next step
  exit,   \* how the last life has ended
  pins,   \* the state of the two GPIO pins
  power,  \* the power state of the chip
  i2c,    \* the chip has selected the two-wire interface when it left its reset
  scan,   \* where seek_utils is
  data,   \* the channels seek_utils has recorded
  room,   \* the number of elements `data` is allocated for
  faults, kills

processVars == << mode, stage, step, exit, pins, scan, data, room, faults, kills >>
chipVars == << chip, busy, clearing, power, i2c >>
driverVars == << regs, pc, call, success, ret, failures, before >>
allVars == << vars, processVars, power, i2c >>

(* SDIO is only pulled low when the chip has left its reset. *)
InitSteps_ResetFirst ==
  << << "open", "rst" >>,  << "direction", "rst" >>,  << "low", "rst" >>, << "high", "rst" >>,
     << "open", "sdio" >>, << "direction", "sdio" >>, << "low", "sdio" >>,
     << "open", "bus" >>, << "read", "bus" >>, << "oscillator", "bus" >>,
     << "read", "bus" >>, << "power up", "bus" >> >>

(* __fm_tuner_init, system call by system call. *)
InitSteps ==
  << << "open", "rst" >>,  << "direction", "rst" >>,  << "low", "rst" >>,
     << "open", "sdio" >>, << "direction", "sdio" >>, << "low", "sdio" >>,
     << "high", "rst" >>,
     << "open", "bus" >>, << "read", "bus" >>, << "oscillator", "bus" >>,
     << "read", "bus" >>, << "power up", "bus" >> >>

AtStep(op, device) == stage = "init" /\ InitSteps[step] = << op, device >>

Pin == {"rst", "sdio"}
Unexported == [exported |-> FALSE, out |-> FALSE, high |-> FALSE]

ProcessTypeOK ==
  /\ TypeOK
  /\ mode \in {"server", "seek"}
  /\ stage \in {"stopped", "init", "running", "closing"}
  /\ step \in 1..Len(InitSteps)
  /\ exit \in {"success", "failure", "killed", "interrupted"}
  /\ pins \in [Pin -> [exported : BOOLEAN, out : BOOLEAN, high : BOOLEAN]]
  /\ power \in {"off", "oscillator", "on"}
  /\ i2c \in BOOLEAN
  /\ scan \in {"tune", "seek", "measure", "report"}
  /\ Range(data) \subseteq {ChannelOf(r) : r \in 0..Top}
  /\ faults \in 0..MaxFaults
  /\ kills \in 0..MaxKills

ProcessInit ==
  /\ Init
  /\ mode = "server"
  /\ stage = "stopped"
  /\ step = 1
  /\ exit = "success"
  /\ pins = [p \in Pin |-> Unexported]
  /\ power = "off"
  /\ i2c = FALSE
  /\ scan = "tune"
  /\ data = << >>
  /\ room = 0
  /\ faults = 0
  /\ kills = 0

-----------------------------------------------------------------------------
(* Start-up.  systemd (fmtuner.service, Restart=on-failure) starts the     *)
(* server again when it has failed or was killed, and not after SIGINT; an *)
(* operator may start it, or a scan, at any time.                          *)

Starts(m) ==
  /\ stage = "stopped"
  /\ mode' = m
  /\ stage' = "init"
  /\ step' = 1
  /\ UNCHANGED << chipVars, driverVars, exit, pins, scan, data, room, faults, kills >>

ServerToRestart == stage = "stopped" /\ mode = "server" /\ exit \in {"failure", "killed"}

SystemdRestarts == ServerToRestart /\ Starts("server")
OperatorStarts == ~ServerToRestart /\ \E m \in {"server", "seek"} : Starts(m)

NextStep == step' = step + 1 /\ UNCHANGED << mode, stage, exit, scan, data, room, faults, kills >>

(* What each of these system calls does to the pins and to the chip. *)
Export(p) ==
  /\ AtStep("open", p)
  /\ pins' = [pins EXCEPT ![p].exported = TRUE]
  /\ UNCHANGED chipVars

(* The chip is in its reset while `rst` is low: its registers are cleared  *)
(* and whatever it was doing is over.                                      *)
ChipFollows(p) ==
  IF p = "rst" /\ pins'["rst"].out /\ ~pins'["rst"].high
  THEN /\ chip' = [volume |-> 0, channel |-> 0, tune |-> FALSE, seek |-> FALSE,
                   seekup |-> FM_TUNER_SEEKDOWN, stc |-> FALSE, sfbl |-> FALSE, readchan |-> 0]
       /\ busy' = "idle"
       /\ clearing' = FALSE
       /\ power' = "off"
       /\ i2c' = FALSE
  ELSE UNCHANGED chipVars

(* The kernel drives a pin low that becomes an output. *)
Direct(p) ==
  /\ AtStep("direction", p)
  /\ pins' = [pins EXCEPT ![p].out = TRUE, ![p].high = FALSE]
  /\ ChipFollows(p)

PullLow(p) ==
  /\ AtStep("low", p)
  /\ pins' = [pins EXCEPT ![p].high = FALSE]
  /\ ChipFollows(p)

(* The chip leaves its reset and looks at SDIO to choose its interface. *)
LeaveReset ==
  /\ AtStep("high", "rst")
  /\ pins' = [pins EXCEPT !["rst"].high = TRUE]
  /\ i2c' = (pins["sdio"].out /\ ~pins["sdio"].high)
  /\ UNCHANGED << chip, busy, clearing, power >>

StartOscillator ==
  /\ AtStep("oscillator", "bus")
  /\ Written(regs)
  /\ power' = "oscillator"
  /\ UNCHANGED << pins, i2c >>

(* POWERCFG is overwritten and the volume set to zero. *)
PoweredUp == [regs EXCEPT !.seek = FALSE, !.seekup = FM_TUNER_SEEKDOWN, !.volume = 0]

SwitchOn ==
  /\ AtStep("power up", "bus")
  /\ Written(PoweredUp)
  /\ power' = "on"
  /\ UNCHANGED << pins, i2c >>

StepTakesEffect ==
  \/ \E p \in Pin : Export(p) \/ Direct(p) \/ PullLow(p)
  \/ LeaveReset \/ StartOscillator \/ SwitchOn

(* pin_open that always writes to `export`: refused for an exported pin. *)
PinOpen_Exports(p) ==
  /\ Export(p)
  /\ IF pins[p].exported
     THEN /\ stage' = "stopped"
          /\ exit' = "failure"
          /\ UNCHANGED << mode, step, scan, data, room, faults, kills >>
     ELSE NextStep
  /\ UNCHANGED driverVars

(* pin_open: a pin that is exported already, by an earlier life, is left as it is. *)
PinOpen(p) == Export(p) /\ NextStep /\ UNCHANGED driverVars

PinDirection(p) == Direct(p) /\ NextStep /\ UNCHANGED driverVars

PinLow(p) == PullLow(p) /\ NextStep /\ UNCHANGED driverVars

ResetHigh == LeaveReset /\ NextStep /\ UNCHANGED driverVars

I2cOpen ==
  /\ AtStep("open", "bus")
  /\ NextStep
  /\ UNCHANGED << chipVars, driverVars, pins >>

InitRead ==
  /\ AtStep("read", "bus")
  /\ regs' = chip
  /\ NextStep
  /\ UNCHANGED << chipVars, pins, pc, call, success, ret, failures, before >>

Oscillator == StartOscillator /\ NextStep /\ UNCHANGED driverVars

(* The tuner is there, and main goes on to the server or to the scan. *)
PowerUp ==
  /\ SwitchOn
  /\ regs' = PoweredUp
  /\ stage' = "running"
  /\ pc' = "idle"
  /\ call' = NoCall
  /\ success' = FALSE
  /\ ret' = -1
  /\ failures' = 0
  /\ before' = [clean |-> TRUE, rest |-> TRUE, tuned |-> 0, shown |-> 0, volume |-> 0]
  /\ scan' = "tune"
  /\ data' = << >>
  /\ room' = 0
  /\ UNCHANGED << mode, step, exit, faults, kills >>

(* Any step fails, and the process with it: fatal_error of fm_tuner_new,   *)
(* before __delete_tuner is registered.  What failed may have had its      *)
(* effect all the same: a write that the chip has taken though it is       *)
(* reported as cut short, or the close after a write to sysfs.             *)
InitFails ==
  /\ stage = "init"
  /\ faults < MaxFaults
  /\ faults' = faults + 1
  /\ stage' = "stopped"
  /\ exit' = "failure"
  /\ StepTakesEffect \/ UNCHANGED << pins, chipVars >>
  /\ UNCHANGED << driverVars, mode, step, scan, data, room, kills >>

StartUp ==
  \/ \E p \in Pin : PinOpen(p) \/ PinDirection(p) \/ PinLow(p)
  \/ ResetHigh \/ I2cOpen \/ InitRead \/ Oscillator \/ PowerUp

-----------------------------------------------------------------------------
(* The server makes calls of the driver one after the other.               *)

Running(m) == stage = "running" /\ mode = m

Served ==
  /\ Running("server")
  /\ Call
  /\ UNCHANGED << processVars, power, i2c >>

DriverGoesOn ==
  /\ stage = "running"
  /\ Driver
  /\ UNCHANGED << processVars, power, i2c >>

DriverFails ==
  /\ stage = "running"
  /\ TransferFails
  /\ UNCHANGED << processVars, power, i2c >>

(* The chip does not notice what becomes of the process. *)
ChipGoesOn == Chip /\ UNCHANGED << processVars, power, i2c >>

(* exit, which calls __delete_tuner. *)
Exits(status) ==
  /\ stage' = "closing"
  /\ step' = 1
  /\ exit' = status

(* The thread that waits for SIGINT calls exit itself. *)
ServerStops_Anytime ==
  /\ Running("server")
  /\ Exits("success")
  /\ UNCHANGED << chipVars, driverVars, mode, pins, scan, data, room, faults, kills >>

(* SIGINT: server_run returns at the end of a round, between two calls. *)
ServerStops ==
  /\ Running("server")
  /\ pc = "idle"
  /\ Exits("success")
  /\ UNCHANGED << chipVars, driverVars, mode, pins, scan, data, room, faults, kills >>

(* fatal_error of server_run, before its loop: no socket, no thread. That  *)
(* of the exit thread is left out, as sigaction(SIGINT) cannot fail.       *)
ServerFails ==
  /\ Running("server")
  /\ call = NoCall
  /\ faults < MaxFaults
  /\ faults' = faults + 1
  /\ Exits("failure")
  /\ UNCHANGED << chipVars, driverVars, mode, pins, scan, data, room, kills >>

-----------------------------------------------------------------------------
(* seek_utils.                                                             *)

ScanCall(op, arg) == Running("seek") /\ Call /\ call' = [op |-> op, arg |-> arg]

(* The return of fm_tuner_set_channel is not looked at. *)
ScanTune ==
  /\ scan = "tune"
  /\ ScanCall("set_channel", FM_TUNER_CHANNEL_START)
  /\ scan' = "seek"
  /\ UNCHANGED << mode, stage, step, exit, pins, data, room, faults, kills, power, i2c >>

ScanSeek ==
  /\ scan = "seek"
  /\ ScanCall("seek", FM_TUNER_SEEKUP)
  /\ scan' = "measure"
  /\ UNCHANGED << mode, stage, step, exit, pins, data, room, faults, kills, power, i2c >>

SeekReturned == Running("seek") /\ scan = "measure" /\ pc = "idle"

(* What a seek has returned is recorded, -1 too. *)
ScanMeasure_FailureIgnored ==
  /\ SeekReturned
  /\ scan' = "report"
  /\ room' = Len(data) + Preallocated
  /\ data' = Append(data, ret)
  /\ UNCHANGED << chipVars, driverVars, mode, stage, step, exit, pins, faults, kills >>

(* The scan tunes to the start of the band again after every station. *)
ScanMeasure_TuneAgain ==
  /\ SeekReturned
  /\ scan' = "tune"
  /\ UNCHANGED << chipVars, driverVars, mode, stage, step, exit, pins, data, room, faults, kills >>

(* Room is only made for the first stations. *)
ScanMeasure_RoomOnce ==
  /\ SeekReturned
  /\ scan' = IF ret \in {-1, FM_TUNER_CHANNEL_START} THEN "report" ELSE "seek"
  /\ room' = Preallocated
  /\ data' = IF success /\ scan' = "seek" THEN Append(data, ret) ELSE data
  /\ UNCHANGED << chipVars, driverVars, mode, stage, step, exit, pins, faults, kills >>

(* The signal is measured, and a station recorded; the loop ends when the  *)
(* seek has failed or has come back to the start of the band.              *)
ScanMeasure ==
  /\ SeekReturned
  /\ IF ret \in {-1, FM_TUNER_CHANNEL_START}
     THEN scan' = "report" /\ UNCHANGED << data, room >>
     ELSE /\ scan' = "seek"
          /\ room' = IF Len(data) % Preallocated = 0 THEN Len(data) + Preallocated ELSE room
          /\ data' = IF success THEN Append(data, ret) ELSE data
  /\ UNCHANGED << chipVars, driverVars, mode, stage, step, exit, pins, faults, kills >>

(* One of the ten fm_tuner_get_rssi fails: fatal_error, nothing is printed. *)
(* They read the chip and change nothing, so that it does not matter which. *)
MeasureFails ==
  /\ SeekReturned
  /\ ret \notin {-1, FM_TUNER_CHANNEL_START}
  /\ faults < MaxFaults
  /\ faults' = faults + 1
  /\ Exits("failure")
  /\ UNCHANGED << chipVars, driverVars, mode, pins, scan, data, room, kills >>

ScanReport ==
  /\ Running("seek")
  /\ scan = "report"
  /\ Exits("success")
  /\ UNCHANGED << chipVars, driverVars, mode, pins, scan, data, room, faults, kills >>

Scan == ScanTune \/ ScanSeek \/ ScanMeasure \/ ScanReport

-----------------------------------------------------------------------------
(* __fm_tuner_close, and the end without it.                               *)

CloseRead ==
  /\ stage = "closing"
  /\ step = 1
  /\ regs' = chip
  /\ step' = 2
  /\ UNCHANGED << chipVars, pc, call, success, ret, failures, before,
                  mode, stage, exit, pins, scan, data, room, faults, kills >>

(* The power down stops whatever the chip is doing. *)
SwitchOff ==
  /\ power' = "off"
  /\ chip' = [chip EXCEPT !.seek = FALSE, !.seekup = FM_TUNER_SEEKDOWN]
  /\ busy' = "idle"
  /\ clearing' = FALSE
  /\ UNCHANGED i2c

PowerDown ==
  /\ stage = "closing"
  /\ step = 2
  /\ SwitchOff
  /\ stage' = "stopped"
  /\ UNCHANGED << driverVars, mode, step, exit, pins, scan, data, room, faults, kills >>

(* What __fm_tuner_close returns is not looked at. *)
CloseFails ==
  /\ stage = "closing"
  /\ faults < MaxFaults
  /\ faults' = faults + 1
  /\ stage' = "stopped"
  /\ \/ UNCHANGED chipVars
     \/ step = 2 /\ SwitchOff
  /\ UNCHANGED << driverVars, mode, step, exit, pins, scan, data, room, kills >>

(* Nothing blocks SIGINT before server_run, nor in a scan. *)
SigintUnblocked ==
  mode = "server" => stage = "init" \/ (stage = "running" /\ call = NoCall)

(* SIGKILL or a crash, or SIGINT while it is not blocked: that ends the    *)
(* process on the spot too, but systemd takes it for a clean exit.         *)
Killed ==
  /\ stage # "stopped"
  /\ kills < MaxKills
  /\ kills' = kills + 1
  /\ stage' = "stopped"
  /\ \/ exit' = "killed"
     \/ exit' = "interrupted" /\ SigintUnblocked
  /\ UNCHANGED << chipVars, driverVars, mode, step, pins, scan, data, room, faults >>

ProcessNext ==
  \/ OperatorStarts \/ SystemdRestarts \/ StartUp \/ InitFails
  \/ Served \/ DriverGoesOn \/ DriverFails \/ ChipGoesOn
  \/ ServerStops \/ ServerFails \/ Scan \/ MeasureFails
  \/ CloseRead \/ PowerDown \/ CloseFails \/ Killed

ProcessSpec == ProcessInit /\ [][ProcessNext]_allVars

(* The process and the chip go on, and systemd does its work. *)
FairProcessSpec ==
  /\ ProcessSpec
  /\ WF_allVars(SystemdRestarts)
  /\ WF_allVars(StartUp)
  /\ WF_allVars(DriverGoesOn)
  /\ WF_allVars(ChipGoesOn)
  /\ WF_allVars(Scan)
  /\ WF_allVars(CloseRead \/ PowerDown)

-----------------------------------------------------------------------------
(* Properties.                                                             *)

(* Whatever an earlier life was doing when it ended, a new one finds the   *)
(* tuner as FmTuner has it at first (fm_tuner.c:118): powered up, muted,   *)
(* and with no tune or seek of the earlier life left in it.                *)
LifeStartsReady ==
  [][stage # "running" /\ stage' = "running" => Init' /\ power' = "on" /\ i2c']_allVars

(* The service that has failed or was killed is up again (fmtuner.service: *)
(* Restart=on-failure), with the pins its earlier life has exported,       *)
(* unless SIGINT ends it meanwhile.                                        *)
ServiceComesBack == ServerToRestart ~> Running("server") \/ exit = "interrupted"

(* exit (main.c:166) powers the chip down between two operations, and not  *)
(* in the middle of one, while the bus works.                              *)
PoweredDownAtRest == stage = "closing" /\ failures = 0 => AtRest

(* What seek_utils lists (seek.c:64) are the stations inside of the band   *)
(* in order and each once, all those up to the last one listed and up to   *)
(* where the last seek has ended, in the room it has made.  Stations at    *)
(* either limit are not among them.                                        *)
StationsInside == {ChannelOf(s) : s \in {t \in Stations : 0 < t /\ t < Top}}

AllUpTo(channel) == \A c \in StationsInside : c <= channel => c \in Range(data)

ScanListsStations ==
  Running("seek") =>
    /\ \A i, j \in DOMAIN data : i < j => data[i] < data[j]
    /\ Range(data) \subseteq StationsInside
    /\ \A i \in DOMAIN data : AllUpTo(data[i])
    /\ Len(data) <= room
    /\ scan = "seek" /\ pc = "idle" /\ call.op = "seek" => AllUpTo(ChannelOf(chip.readchan))

(* The scan goes through the whole band, unless something fails.           *)
ScanReachesTop ==
  Running("seek") /\ scan = "seek" ~> chip.readchan = Top \/ ~Running("seek") \/ failures > 0
=============================================================================
