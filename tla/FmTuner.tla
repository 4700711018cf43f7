------------------------------ MODULE FmTuner ------------------------------
(***************************************************************************)
(* The driver of the tuner, fm_tuner.c, and the registers of the Si4702    *)
(* chip it works on.  A call is a sequence of transfers on the I2C bus, of *)
(* all registers to the copy `regs` of the driver or of the writable ones  *)
(* back, and the chip works on its own between two of them.                *)
(*                                                                         *)
(* To tune, the driver sets TUNE, polls until the chip sets STC, clears    *)
(* TUNE and polls until the chip has cleared STC; a seek does the same     *)
(* with SEEK.  Any transfer may fail, in the middle of that as well: the   *)
(* call returns -1 and leaves the bits as they are.                        *)
(***************************************************************************)
EXTENDS Band

CONSTANTS
  Calls,          \* the calls that are made, of the form [op, arg]
  MaxFailures     \* bound: transfers that fail

ASSUME FmTunerAssumption ==
  /\ \A call \in Calls :
       /\ call.op \in {"set_volume", "get_volume", "set_channel", "get_channel", "seek"}
       /\ call.arg \in IF call.op = "seek" THEN {FM_TUNER_SEEKUP, FM_TUNER_SEEKDOWN} ELSE Int
  /\ MaxFailures \in Nat

VARIABLES
  regs,      \* Fm_tuner.regs, the registers as last read or about to be written
  pc,        \* the transfer the driver is about to make, or "idle"
  call,      \* the call in progress, or the last one
  success,   \* the *success of fm_tuner_seek
  ret,       \* what the last call has returned
  chip,      \* the registers of the chip
  busy,      \* what the chip is doing
  clearing,  \* TUNE or SEEK was set low, STC is about to follow
  failures,  \* transfers that have failed
  before     \* history: the tuner when the call was made

vars == << regs, pc, call, success, ret, chip, busy, clearing, failures, before >>

Registers ==
  [volume : VolumeRange, channel : ChannelRegister, tune : BOOLEAN, seek : BOOLEAN,
   seekup : {FM_TUNER_SEEKUP, FM_TUNER_SEEKDOWN}, stc : BOOLEAN, sfbl : BOOLEAN,
   readchan : ChannelRegister]

NoCall == [op |-> "none", arg |-> 0]

TypeOK ==
  /\ regs \in Registers
  /\ pc \in {"idle", "read", "write", "write_high", "wait_high", "write_low", "wait_low"}
  /\ call \in Calls \union {NoCall}
  /\ success \in BOOLEAN
  /\ ret \in Int
  /\ chip \in Registers
  /\ busy \in {"idle", "tune", "seek"}
  /\ clearing \in BOOLEAN
  /\ failures \in 0..MaxFailures
  /\ before \in [clean : BOOLEAN, rest : BOOLEAN, tuned : ChannelRegister, shown : ChannelRegister,
               volume : VolumeRange]

(* After fm_tuner_new: powered up, at the start of the band, muted. *)
Init ==
  /\ chip = [volume |-> 0, channel |-> 0, tune |-> FALSE, seek |-> FALSE,
             seekup |-> FM_TUNER_SEEKDOWN, stc |-> FALSE, sfbl |-> FALSE, readchan |-> 0]
  /\ regs = chip
  /\ pc = "idle"
  /\ call = NoCall
  /\ success = FALSE
  /\ ret = -1
  /\ busy = "idle"
  /\ clearing = FALSE
  /\ failures = 0
  /\ before = [clean |-> TRUE, rest |-> TRUE, tuned |-> 0, shown |-> 0, volume |-> 0]

-----------------------------------------------------------------------------
(* The chip (doc/Si4702-03-C19-1.pdf, registers 02h, 03h, 0Ah).  A tune or *)
(* a seek begins when its bit is set high, not before STC is low; setting  *)
(* the bit low makes the chip clear STC and SF/BL a little later.          *)

AtRest == busy = "idle" /\ ~chip.stc /\ ~chip.tune /\ ~chip.seek

(* Where the chip is, or is going. *)
Heading ==
  CASE busy = "tune" -> chip.channel
    [] busy = "seek" -> SeekEnd(chip.readchan, chip.seekup).readchan
    [] OTHER         -> chip.readchan

Begun(r) ==
  IF busy # "idle" \/ chip.stc THEN busy
  ELSE IF ~chip.tune /\ r.tune THEN "tune"
  ELSE IF ~chip.seek /\ r.seek THEN "seek" ELSE "idle"

(* Registers 02h to 07h reach the chip. *)
Written(r) ==
  /\ chip' = [chip EXCEPT !.volume = r.volume, !.channel = r.channel, !.tune = r.tune,
                          !.seek = r.seek, !.seekup = r.seekup]
  /\ busy' = IF busy = "seek" /\ ~r.seek THEN "idle" ELSE Begun(r)
  /\ clearing' = \/ clearing
                 \/ chip.stc /\ chip.tune /\ ~r.tune
                 \/ chip.stc /\ chip.seek /\ ~r.seek

TuneDone ==
  /\ busy = "tune"
  /\ busy' = "idle"
  /\ chip' = [chip EXCEPT !.readchan = chip.channel, !.stc = TRUE]
  /\ UNCHANGED << regs, pc, call, success, ret, clearing, failures, before >>

SeekDone ==
  LET end == SeekEnd(chip.readchan, chip.seekup)
  IN  /\ busy = "seek"
      /\ busy' = "idle"
      /\ chip' = [chip EXCEPT !.readchan = end.readchan, !.sfbl = end.sfbl, !.stc = TRUE]
      /\ UNCHANGED << regs, pc, call, success, ret, clearing, failures, before >>

StcCleared ==
  /\ clearing
  /\ clearing' = FALSE
  /\ chip' = [chip EXCEPT !.stc = FALSE, !.sfbl = FALSE]
  /\ UNCHANGED << regs, pc, call, success, ret, busy, failures, before >>

Chip == TuneDone \/ SeekDone \/ StcCleared

-----------------------------------------------------------------------------
(* The driver.                                                             *)

Call ==
  /\ pc = "idle"
  /\ call' \in Calls
  /\ success' = IF call'.op = "seek" THEN FALSE ELSE success
  /\ before' = [before EXCEPT !.clean = AtRest, !.tuned = Heading, !.shown = chip.readchan, !.volume = chip.volume]
  /\ pc' = "read"
  /\ UNCHANGED << regs, ret, chip, busy, clearing, failures >>

Returns(value) == pc' = "idle" /\ ret' = value

(* Every call begins with fm_tuner_read_registers. *)
Read ==
  /\ pc = "read"
  /\ \/ /\ call.op = "get_volume"
        /\ regs' = chip
        /\ Returns(chip.volume)
     \/ /\ call.op = "get_channel"
        /\ regs' = chip
        /\ Returns(ChannelOf(chip.readchan))
     \/ /\ call.op = "set_volume"
        /\ regs' = [chip EXCEPT !.volume = ClampVolume(call.arg)]
        /\ pc' = "write"
        /\ UNCHANGED ret
     \/ /\ call.op = "set_channel"
        /\ regs' = [chip EXCEPT !.channel = RegisterOf(call.arg), !.tune = TRUE]
        /\ pc' = "write_high"
        /\ UNCHANGED ret
     \/ /\ call.op = "seek"
        /\ regs' = [chip EXCEPT !.seekup = call.arg, !.seek = TRUE]
        /\ pc' = "write_high"
        /\ UNCHANGED ret
  /\ UNCHANGED << call, success, chip, busy, clearing, failures, before >>

WriteVolume ==
  /\ pc = "write"
  /\ Written(regs)
  /\ Returns(regs.volume)
  /\ UNCHANGED << regs, call, success, failures, before >>

WriteHigh ==
  /\ pc = "write_high"
  /\ Written(regs)
  /\ pc' = "wait_high"
  /\ UNCHANGED << regs, call, success, ret, failures, before >>

(* The reset of TUNE or SEEK forgotten. *)
WaitHigh_BitKept ==
  /\ pc = "wait_high"
  /\ regs' = chip
  /\ IF chip.stc
     THEN success' = (IF call.op = "seek" THEN ~chip.sfbl ELSE success) /\ pc' = "write_low"
     ELSE UNCHANGED << success, pc >>
  /\ UNCHANGED << call, ret, chip, busy, clearing, failures, before >>

(* SF/BL is looked at when STC has been cleared, and SF/BL with it. *)
WaitHigh_SfblLate ==
  /\ pc = "wait_high"
  /\ IF chip.stc
     THEN /\ regs' = [chip EXCEPT !.seek = FALSE, !.tune = FALSE]
          /\ success' = (call.op = "seek" \/ success)
          /\ pc' = "write_low"
     ELSE regs' = chip /\ UNCHANGED << success, pc >>
  /\ UNCHANGED << call, ret, chip, busy, clearing, failures, before >>

(* STC_DISABLED and STC_ENABLED taken one for the other. *)
WaitHigh_Swapped ==
  /\ pc = "wait_high"
  /\ ~chip.stc
  /\ regs' = [chip EXCEPT !.seek = FALSE, !.tune = FALSE]
  /\ pc' = "write_low"
  /\ UNCHANGED << call, success, ret, chip, busy, clearing, failures, before >>

(* __wait_stc(STC_ENABLED), then the bit of the call is set low in regs. *)
WaitHigh ==
  /\ pc = "wait_high"
  /\ IF chip.stc
     THEN /\ regs' = IF call.op = "seek" THEN [chip EXCEPT !.seek = FALSE]
                                        ELSE [chip EXCEPT !.tune = FALSE]
          /\ success' = IF call.op = "seek" THEN ~chip.sfbl ELSE success
          /\ pc' = "write_low"
     ELSE regs' = chip /\ UNCHANGED << success, pc >>
  /\ UNCHANGED << call, ret, chip, busy, clearing, failures, before >>

WriteLow ==
  /\ pc = "write_low"
  /\ Written(regs)
  /\ pc' = "wait_low"
  /\ UNCHANGED << regs, call, success, ret, failures, before >>

(* fm_tuner_set_channel and fm_tuner_seek that do not wait for STC to be   *)
(* low again.                                                              *)
WaitLow_Skipped ==
  /\ pc = "wait_low"
  /\ regs' = chip
  /\ Returns(IF call.op = "seek" THEN ChannelOf(chip.readchan) ELSE call.arg)
  /\ UNCHANGED << call, success, chip, busy, clearing, failures, before >>

(* __wait_stc(STC_DISABLED).  A seek returns the channel it has ended on,  *)
(* set_channel the one it was given.                                       *)
WaitLow ==
  /\ pc = "wait_low"
  /\ regs' = chip
  /\ IF chip.stc
     THEN UNCHANGED << pc, ret >>
     ELSE Returns(IF call.op = "seek" THEN ChannelOf(chip.readchan) ELSE call.arg)
  /\ UNCHANGED << call, success, chip, busy, clearing, failures, before >>

(* A transfer fails; a write may have reached the chip all the same.       *)
TransferFails ==
  /\ pc # "idle"
  /\ failures < MaxFailures
  /\ failures' = failures + 1
  /\ Returns(-1)
  /\ before' = [before EXCEPT !.rest = @ /\ call.op \notin {"set_channel", "seek"}]
  /\ \/ UNCHANGED << chip, busy, clearing >>
     \/ pc \in {"write", "write_high", "write_low"} /\ Written(regs)
  /\ UNCHANGED << regs, call, success >>

Driver == Read \/ WriteVolume \/ WriteHigh \/ WaitHigh \/ WriteLow \/ WaitLow

Next == Call \/ Driver \/ TransferFails \/ Chip

Spec == Init /\ [][Next]_vars

FairSpec == Spec /\ WF_vars(Driver) /\ WF_vars(Chip)

-----------------------------------------------------------------------------
(* Properties.                                                             *)

(* fm_tuner.h is implemented by the handshakes with the chip, until a      *)
(* transfer fails.                                                         *)
T == INSTANCE Tuner WITH
       call <- IF pc = "idle" THEN NoCall ELSE call,
       done <- pc \in {"write_low", "wait_low"} \/ (pc = "wait_high" /\ chip.stc),
       tuned <- chip.readchan,
       volume <- chip.volume,
       success <- IF pc = "wait_high" /\ call.op = "seek" /\ chip.stc
                  THEN ~chip.sfbl ELSE success,
       works <- (failures = 0)

ImplementsTuner == T!Spec

(* doc/AN230.pdf, page 22, which the comments of fm_tuner_set_channel and  *)
(* fm_tuner_seek refer to: TUNE and SEEK are not set before STC is low,    *)
(* as long as no transfer has failed.                                      *)
HandshakeRespected ==
  [][(~chip.tune /\ chip'.tune) \/ (~chip.seek /\ chip'.seek)
       => failures > 0 \/ (busy = "idle" /\ ~chip.stc)]_vars

(* No call polls the chip for ever (fm_tuner.c:104), unless a transfer has *)
(* failed, in this call or an earlier one.                                 *)
EveryCallReturns == pc # "idle" ~> pc = "idle" \/ failures > 0

(* Whatever has failed before: a set_channel that finds the chip at rest   *)
(* and reports no failure has tuned it, and has left it at rest for the    *)
(* next call.                                                              *)
CleanCallIsEffective ==
  pc = "idle" /\ call.op = "set_channel" /\ before.clean /\ ret # -1
    => chip.readchan = RegisterOf(call.arg) /\ AtRest

(* What the handlers assume of a call (handler.c:82): whatever has failed  *)
(* before, or fails now, it moves the tuner and returns in one of the ways *)
(* that Service has it do.                                                 *)
OutcomesOf(op, arg) ==
  LET from == {before.tuned, before.shown}
  IN  CASE op = "set_volume"  -> SetVolumeOutcomes(before.volume, arg)
        [] op = "set_channel" -> SetChannelOutcomes(from, before.rest, arg)
        [] op = "seek"        -> SeekOutcomes(from, before.rest, arg)
        [] op = "get_volume"  -> GetOutcomes({before.volume})
        [] op = "get_channel" -> GetOutcomes({ChannelOf(f) : f \in from})

OutcomesAssumed ==
  pc = "idle" /\ call # NoCall =>
    \E o \in OutcomesOf(call.op, call.arg) :
      /\ o.ret = ret
      /\ IF call.op = "set_volume" THEN o.volume = chip.volume ELSE chip.volume = before.volume
      /\ IF call.op \in {"set_channel", "seek"}
         THEN o.tuned = Heading /\ chip.readchan \in {o.tuned, o.shown}
         ELSE Heading = before.tuned
      /\ call.op = "seek" /\ ret # -1 => o.success = success
=============================================================================
