------------------------------ MODULE Service ------------------------------
(***************************************************************************)
(* The handlers of net/handler.c: what the clients are told of the tuner.  *)
(*                                                                         *)
(* A client is sent all the values when it joins.  What clients ask for is *)
(* cached, message by message, and applied once per round of the event     *)
(* loop, when the values that were set and the RDS strings that changed    *)
(* are broadcast to everybody.  All handlers run in one thread, so that    *)
(* each of them is one step; the steps are those of Server, the calls of   *)
(* the tuner those of Tuner, which may fail here.                          *)
(***************************************************************************)
EXTENDS Protocol, Band

CONSTANTS
  Client,
  Messages,      \* the well formed messages clients send, as commands
  Names, Texts,  \* what the RDS decoder may come up with
  Empty,         \* the empty string
  None,          \* not in a message, or not known
  MaxRequests,   \* bound: messages the clients send
  MaxDecoded,    \* bound: times the RDS strings change
  MaxFailures,   \* bound: calls of the tuner that fail
  MaxQueue       \* messages under way to one client


(* What __parse_event caches: a volume of one byte, a channel of two. *)
Command ==
  [event : {EVENT_VOLUME}, value : Byte]
    \union [event : {EVENT_CHANNEL}, value : Word]
    \union [event : {EVENT_SEEKUP, EVENT_SEEKDOWN}, value : {0}]

ASSUME ServiceAssumption ==
  /\ \A cmds \in Messages : cmds \in Seq(Command)
  /\ Empty \in Names /\ Empty \in Texts
  /\ None \notin Names \union Texts \union Int
  /\ MaxRequests \in Nat /\ MaxDecoded \in Nat /\ MaxFailures \in Nat
  /\ MaxQueue \in Nat \ {0}

VARIABLES
  tuned, volume,          \* the tuner
  shown,                  \* the channel it may still show after a failed call
  rest,                   \* no call has been cut off: the next one is effective
  name, text,             \* Rds.radio_name and radio_text
  prev_name, prev_text,   \* what was broadcast of them last
  to_set, new_volume, new_channel,  \* Handler_value
  connected,
  queue,                  \* the messages under way to each client
  view,                   \* what each client knows
  trusted,                \* history: the fields on which no call has failed since they were last set
  requests, decoded, failures

tunerVars == << tuned, shown, volume, rest >>
rdsVars == << name, text, prev_name, prev_text >>
cacheVars == << to_set, new_volume, new_channel >>
clientVars == << connected, queue, view, trusted >>
vars == << tunerVars, rdsVars, cacheVars, clientVars, requests, decoded, failures >>

-----------------------------------------------------------------------------
(* A message gives a value to some of the fields.                          *)

Field == {"volume", "channel", "name", "text"}
Value == Word \union Names \union Texts \union {None}
Nothing == [f \in Field |-> None]

Applied(known, message) ==
  [f \in Field |-> IF message[f] = None THEN known[f] ELSE message[f]]

(* The fields of one and two bytes cut the -1 of a failure. *)
Uint8(v) == v % 256
Uint16(v) == v % 65536

Current ==
  [f \in Field |-> CASE f = "volume"  -> volume
                     [] f = "channel" -> ChannelOf(tuned)
                     [] f = "name"    -> name
                     [] f = "text"    -> text]

-----------------------------------------------------------------------------
(* The channels the tuner may be read at: one, until a call has failed. *)
Here == {tuned, shown}

(* What becomes of the channel in a round whose last call was `o`, after   *)
(* `failed` others that have failed.  Only a call that moves the tuner     *)
(* leaves it without `rest` when it fails; `calm` says the others have not. *)
Round(o, failed, calm) ==
  [tuned |-> o.tuned, shown |-> o.shown, ret |-> o.ret,
   failed |-> o.failed + failed, rest |-> calm /\ o.failed = 0]

Stays == [tuned |-> tuned, shown |-> shown, ret |-> -1, failed |-> 0, rest |-> TRUE]

(* A seek that does not succeed leaves the tuner where it has ended. *)
SeekOrReturn_Stay(direction) ==
  {Round([seek EXCEPT !.ret = IF seek.success THEN seek.ret ELSE -1], 0, TRUE) :
     seek \in SeekOutcomes(Here, rest, direction)}

(* __add_seek_to_buf: back to where it was when the seek does not succeed, *)
(* to channel -1 when it could not be read where that was.                 *)
SeekOrReturn(direction) ==
  UNION {UNION {
    IF seek.ret # -1 /\ seek.success
    THEN {Round(seek, get.failed, TRUE)}
    ELSE {Round(back, seek.failed + get.failed, seek.failed = 0) :
            back \in SetChannelOutcomes({seek.tuned, seek.shown}, rest /\ seek.failed = 0, get.ret)} :
    seek \in SeekOutcomes(Here, rest, direction)} :
    get \in GetOutcomes({ChannelOf(t) : t \in Here})}

-----------------------------------------------------------------------------
TypeOK ==
  /\ tuned \in ChannelRegister /\ shown \in ChannelRegister
  /\ volume \in VolumeRange
  /\ rest \in BOOLEAN
  /\ name \in Names /\ prev_name \in Names
  /\ text \in Texts /\ prev_text \in Texts
  /\ to_set \subseteq {EVENT_VOLUME, EVENT_CHANNEL, EVENT_SEEKUP, EVENT_SEEKDOWN}
  /\ new_volume \in Byte
  /\ new_channel \in Word
  /\ connected \subseteq Client
  /\ queue \in [Client -> Seq([Field -> Value])]
  /\ \A c \in Client : Len(queue[c]) <= MaxQueue
  /\ view \in [Client -> [Field -> Value]]
  /\ trusted \subseteq Field
  /\ requests \in 0..MaxRequests
  /\ decoded \in 0..MaxDecoded
  /\ failures \in 0..MaxFailures

Init ==
  /\ tuned = 0 /\ shown = 0
  /\ volume = 0
  /\ rest = TRUE
  /\ name = Empty /\ prev_name = Empty
  /\ text = Empty /\ prev_text = Empty
  /\ to_set = {}
  /\ new_volume = 0
  /\ new_channel = 0
  /\ connected = {}
  /\ queue = [c \in Client |-> << >>]
  /\ view = [c \in Client |-> Nothing]
  /\ trusted = Field
  /\ requests = 0
  /\ decoded = 0
  /\ failures = 0

FailedField(outcome, f) == IF outcome.failed = 0 THEN {} ELSE {f}

(* handler_join: the values as they are read from the tuner, or as they    *)
(* are not; a failed call is not told from another one.                    *)
Join(c) ==
  /\ c \notin connected
  /\ connected' = connected \union {c}
  /\ \E v \in GetOutcomes({volume}), ch \in GetOutcomes({ChannelOf(t) : t \in Here}) :
       /\ failures' = failures + v.failed + ch.failed
       /\ failures' <= MaxFailures
       /\ trusted' = trusted \ (FailedField(v, "volume") \union FailedField(ch, "channel"))
       /\ queue' = [queue EXCEPT ![c] =
                      << [f \in Field |-> CASE f = "volume"  -> Uint8(v.ret)
                                            [] f = "channel" -> Uint16(ch.ret)
                                            [] f = "name"    -> name
                                            [] f = "text"    -> text] >>]
  /\ view' = [view EXCEPT ![c] = Nothing]
  /\ UNCHANGED << tunerVars, rdsVars, cacheVars, requests, decoded >>

(* The client is gone: nothing reaches it any more. *)
Leave(c) ==
  /\ c \in connected
  /\ connected' = connected \ {c}
  /\ queue' = [queue EXCEPT ![c] = << >>]
  /\ view' = [view EXCEPT ![c] = Nothing]
  /\ UNCHANGED << trusted, tunerVars, rdsVars, cacheVars, requests, decoded, failures >>

(* The end of __parse_event: what an accepted message asks for is cached,  *)
(* the last value of each kind in the message and the last message win.    *)
LastValue(cmds, event, default) ==
  LET places == {k \in DOMAIN cmds : cmds[k].event = event}
  IN  IF places = {} THEN default ELSE cmds[Max(places)].value

Event(c) ==
  /\ c \in connected
  /\ requests < MaxRequests
  /\ requests' = requests + 1
  /\ \E cmds \in Messages :
       /\ to_set' = to_set \union {cmds[k].event : k \in DOMAIN cmds}
       /\ new_volume' = LastValue(cmds, EVENT_VOLUME, new_volume)
       /\ new_channel' = LastValue(cmds, EVENT_CHANNEL, new_channel)
  /\ UNCHANGED << tunerVars, rdsVars, clientVars, decoded, failures >>

(* __rds_decode, on to what Rds makes of the groups. *)
RdsDecode ==
  \/ /\ decoded < MaxDecoded
     /\ decoded' = decoded + 1
     /\ name' \in Names /\ text' \in Texts
     /\ << name', text' >> # << name, text >>
  \/ UNCHANGED << name, text, decoded >>

VolumeOutcomes ==
  IF EVENT_VOLUME \in to_set
  THEN SetVolumeOutcomes(volume, new_volume)
  ELSE {[volume |-> volume, ret |-> -1, failed |-> 0]}

(* A seek down is not looked at after a seek up, nor any seek after a channel. *)
ChannelOutcomes ==
  CASE EVENT_CHANNEL \in to_set ->
         {Round(o, 0, TRUE) : o \in SetChannelOutcomes(Here, rest, new_channel)}
    [] EVENT_SEEKUP \in to_set /\ EVENT_CHANNEL \notin to_set -> SeekOrReturn(FM_TUNER_SEEKUP)
    [] to_set \intersect {EVENT_CHANNEL, EVENT_SEEKUP} = {} /\ EVENT_SEEKDOWN \in to_set ->
         SeekOrReturn(FM_TUNER_SEEKDOWN)
    [] OTHER -> {Stays}

(* Strings sent whether they have changed or not. *)
IfChanged_Always(prev, value) == value

IfSet(ret, value) == IF ret = -1 THEN None ELSE value
IfChanged(prev, value) == IF prev = value THEN None ELSE value

(* One client is forgotten: a client that has messages under way. *)
Broadcast_Busy(message) ==
  queue' = [c \in Client |-> IF c \in connected /\ message # Nothing /\ queue[c] = << >>
                             THEN << message >> ELSE queue[c]]

(* __broadcast: to the sockets of all clients. *)
Broadcast(message) ==
  queue' = [c \in Client |-> IF c \in connected /\ message # Nothing
                             THEN Append(queue[c], message) ELSE queue[c]]

(* handler_loop: decode, set, broadcast and reset.  tcp_send blocks while  *)
(* a client does not take its messages.                                    *)
Loop ==
  /\ \A c \in connected : Len(queue[c]) < MaxQueue
  /\ RdsDecode
  /\ \E v \in VolumeOutcomes, ch \in ChannelOutcomes :
       /\ failures' = failures + v.failed + ch.failed
       /\ failures' <= MaxFailures
       /\ rest' = (rest /\ ch.rest)
       /\ volume' = v.volume
       /\ tuned' = ch.tuned
       /\ shown' = ch.shown
       /\ trusted' = (trusted \ (FailedField(v, "volume") \union FailedField(ch, "channel")))
                        \union (IF v.ret # -1 THEN {"volume"} ELSE {})
                        \union (IF rest' /\ ch.ret # -1 THEN {"channel"} ELSE {})
       /\ Broadcast([f \in Field |->
            CASE f = "volume"  -> IfSet(v.ret, Uint8(v.ret))
              [] f = "channel" -> IfSet(ch.ret, Uint16(ch.ret))
              [] f = "name"    -> IfChanged(prev_name, name')
              [] f = "text"    -> IfChanged(prev_text, text')])
  /\ prev_name' = name'
  /\ prev_text' = text'
  /\ to_set' = {}
  /\ UNCHANGED << new_volume, new_channel, connected, view, requests >>

(* The first message under way arrives. *)
Deliver(c) ==
  /\ queue[c] # << >>
  /\ queue' = [queue EXCEPT ![c] = Tail(@)]
  /\ view' = [view EXCEPT ![c] = Applied(@, Head(queue[c]))]
  /\ UNCHANGED << trusted, tunerVars, rdsVars, cacheVars, connected, requests, decoded, failures >>

Next ==
  \/ \E c \in Client : Join(c) \/ Leave(c) \/ Event(c) \/ Deliver(c)
  \/ Loop

Spec == Init /\ [][Next]_vars

FairSpec == Spec /\ WF_vars(Loop) /\ \A c \in Client : WF_vars(Deliver(c))

(* Clients ask for no channel but those the tuner can be at: set_channel   *)
(* reports the channel it was asked for, whatever register came of it.     *)
RequestsTunable ==
  \A cmds \in Messages : \A k \in DOMAIN cmds :
    cmds[k].event = EVENT_CHANNEL => \E t \in ChannelRegister : cmds[k].value = ChannelOf(t)

-----------------------------------------------------------------------------
(* Properties.                                                             *)

(* Client c will have v for f when all that is under way has arrived: v is *)
(* the last value under way, or the one it has when there is none.         *)
AddsUp(c, f, v) ==
  \/ \E k \in DOMAIN queue[c] :
       /\ queue[c][k][f] = v
       /\ v # None
       /\ \A j \in DOMAIN queue[c] : j > k => queue[c][j][f] = None
  \/ /\ \A j \in DOMAIN queue[c] : queue[c][j][f] = None
     /\ view[c][f] = v

(* README.md:3, the service "transmits RDS data to clients as well as      *)
(* information of the volume or the current channel": whenever it joined,  *)
(* and whoever asked for what, all that a client was sent adds up to what  *)
(* the tuner and the decoder are at. After a call that fails this is so    *)
(* again with the next volume that is set, and, for the channel, unless it *)
(* was a set_channel or a seek; names and texts are not touched by it.     *)
ViewsAgree ==
  \A c \in connected : \A f \in trusted : AddsUp(c, f, Current[f])

(* A client that stays learns what the tuner is at, when it is left alone. *)
ViewsSettle ==
  \A c \in Client : <>[](c \in connected /\ trusted = Field) => <>[](view[c] = Current)

(* README.md:7, a name "again parsed by the service" is "not returned": of *)
(* the names, or texts, a client has received and those under way to it,   *)
(* no two that follow one another are equal.                               *)
StringsNotRepeated ==
  \A c \in connected : \A f \in {"name", "text"} : \A k \in DOMAIN queue[c] :
    queue[c][k][f] # None =>
      LET before == {j \in 1..(k - 1) : queue[c][j][f] # None}
      IN  queue[c][k][f] # IF before = {} THEN view[c][f] ELSE queue[c][Max(before)][f]
=============================================================================
