------------------------------- MODULE Tuner -------------------------------
(***************************************************************************)
(* What fm_tuner.h promises its callers: a call moves the tuner once,      *)
(* between the time it is made and the time it returns, and returns where  *)
(* the tuner has been moved to.  After the first transfer that fails on    *)
(* the bus nothing is promised any more.  How the registers of the chip    *)
(* are made to do it is in FmTuner, which implements this module.          *)
(***************************************************************************)
EXTENDS Band

CONSTANT Calls     \* the calls that are made, of the form [op, arg]

NoCall == [op |-> "none", arg |-> 0]

VARIABLES
  call,     \* the call in progress
  done,     \* it has had its effect
  tuned,    \* the channel the tuner is on
  volume,
  success,  \* the last seek ended on a station
  ret,      \* what the last call has returned
  works     \* no transfer has failed

vars == << call, done, tuned, volume, success, ret, works >>

Init ==
  /\ call = NoCall
  /\ done = FALSE
  /\ tuned = 0
  /\ volume = 0
  /\ success = FALSE
  /\ ret = -1
  /\ works = TRUE

Invoke ==
  /\ call = NoCall
  /\ call' \in Calls
  /\ done' = FALSE
  /\ success' = IF call'.op = "seek" THEN FALSE ELSE success
  /\ UNCHANGED << tuned, volume, ret >>

Effect ==
  \/ /\ call.op = "set_volume"
     /\ volume' = ClampVolume(call.arg)
     /\ UNCHANGED << tuned, success >>
  \/ /\ call.op = "set_channel"
     /\ tuned' = RegisterOf(call.arg)
     /\ UNCHANGED << volume, success >>
  \/ /\ call.op = "seek"
     /\ tuned' = SeekEnd(tuned, call.arg).readchan
     /\ success' = ~SeekEnd(tuned, call.arg).sfbl
     /\ UNCHANGED volume

TakeEffect ==
  /\ ~done
  /\ done' = TRUE
  /\ Effect
  /\ UNCHANGED << call, ret >>

(* A volume is returned in the step that sets it. *)
Return ==
  /\ call # NoCall
  /\ IF done \/ call.op \in {"get_volume", "get_channel"}
     THEN UNCHANGED << tuned, volume, success >>
     ELSE Effect
  /\ ret' = CASE call.op \in {"set_volume", "get_volume"} -> volume'
              [] call.op = "set_channel"                  -> call.arg
              [] OTHER                                    -> ChannelOf(tuned')
  /\ call' = NoCall
  /\ done' = FALSE

Break == works' = FALSE

Next ==
  \/ works' = works /\ (Invoke \/ TakeEffect \/ Return)
  \/ Break

Spec == Init /\ [][Next]_vars
=============================================================================
