------------------------------ MODULE Protocol ------------------------------
(***************************************************************************)
(* The wire format of the FM tuner service, net/handler.c and the          *)
(* (de)serialisation helpers of utils/socket.c.  A message is              *)
(*    MSG_LENGTH TYPE_1 VALUE_1 [TYPE_N VALUE_N ...]                       *)
(* where MSG_LENGTH counts itself.  The parser works on memory, not on a   *)
(* sequence: it can read past the message it was given, and what it finds  *)
(* there decides what it does.  Recursion is by recursive functions.       *)
(***************************************************************************)
EXTENDS Integers, Sequences

CONSTANT CharSigned     \* is `char` signed in this build? FALSE on ARM

ASSUME CharSignedAssumption == CharSigned \in BOOLEAN

EVENT_MALFORMED_MESSAGE == 0
EVENT_VOLUME            == 1
EVENT_CHANNEL           == 2
EVENT_SEEKUP            == 3
EVENT_SEEKDOWN          == 4
EVENT_RADIO_NAME        == 5
EVENT_RADIO_TEXT        == 6

Byte == 0..255
UINT16_MAX == 65535
Word == 0..UINT16_MAX

(* The value of a `char` that holds the byte b. *)
CharValue(b) == IF CharSigned /\ b > 127 THEN b - 256 ELSE b

SerializeUint16(v) == << (v \div 256) % 256, v % 256 >>

(* `buf[0] << 8 | buf[1]` stored in a uint16_t: a negative buf[1] has all  *)
(* its high bits set, and they win the `|`.                                *)
DeserializeUint16(hi, lo) ==
  IF CharValue(lo) < 0 THEN 65280 + lo ELSE 256 * hi + lo

-----------------------------------------------------------------------------
(* Commands: what a request asks for.  `value` is 0 for the two seeks.     *)

Parsed == [event : 0..6, value : Word]

Volume(v)  == [event |-> EVENT_VOLUME,   value |-> v]
Channel(v) == [event |-> EVENT_CHANNEL,  value |-> v]
SeekUp     == [event |-> EVENT_SEEKUP,   value |-> 0]
SeekDown   == [event |-> EVENT_SEEKDOWN, value |-> 0]

(* The command a parse ends in when the message is refused (return -1).    *)
Bad == [event |-> EVENT_MALFORMED_MESSAGE, value |-> 0]
Refused(cmds) == cmds # <<>> /\ cmds[Len(cmds)] = Bad

(* The first n of some sequences, one after the other. *)
Joined(parts, n) ==
  LET joined[i \in 0..Len(parts)] ==
        IF i = 0 THEN << >> ELSE joined[i - 1] \o parts[i]
  IN  joined[n]

(* The message that README.md describes for a sequence of commands, which  *)
(* is also what ServiceClient.setVolume and setChannel build.              *)
EncodeCommand(c) ==
  CASE c.event = EVENT_VOLUME  -> << EVENT_VOLUME, c.value >>
    [] c.event = EVENT_CHANNEL -> << EVENT_CHANNEL >> \o SerializeUint16(c.value)
    [] OTHER                   -> << c.event >>

EncodeFirst(cmds, n) == Joined([i \in DOMAIN cmds |-> EncodeCommand(cmds[i])], n)

Encode(cmds) ==
  LET body == EncodeFirst(cmds, Len(cmds))
  IN  << Len(body) + 1 >> \o body

-----------------------------------------------------------------------------
(* __parse_event: the commands found in the `length` bytes at `start`, the *)
(* last one being Bad when the message is refused.  The switch has already *)
(* stepped over the type when the two seek cases step once more, while     *)
(* `len` goes down by one: after a seek the parser is one byte ahead of    *)
(* the message.                                                            *)

(* The event at p, and those that `parse` finds after it. *)
ParseStep(mem, parse, p, len) ==
  CASE len <= 0 -> << >>
    [] len >= 2 /\ mem[p] = EVENT_VOLUME ->
         << Volume(mem[p + 1]) >> \o parse[<< p + 2, len - 2 >>]
    [] len >= 3 /\ mem[p] = EVENT_CHANNEL ->
         << Channel(DeserializeUint16(mem[p + 1], mem[p + 2])) >>
           \o parse[<< p + 3, len - 3 >>]
    [] len >= 1 /\ mem[p] = EVENT_SEEKUP ->
         << SeekUp >> \o parse[<< p + 2, len - 1 >>]
    [] len >= 1 /\ mem[p] = EVENT_SEEKDOWN ->
         << SeekDown >> \o parse[<< p + 2, len - 1 >>]
    [] OTHER -> << Bad >>

ParseEvent(mem, start, length) ==
  LET parse[at \in Nat \X Int] == ParseStep(mem, parse, at[1], at[2])
  IN  IF length <= 0 THEN << Bad >> ELSE parse[<< start, length >>]

(* The loop of handler_event, at p with msg_len bytes left; `handle` goes  *)
(* on after the message that is there.                                     *)
Stopped(ret, malformed) == [ret |-> ret, cmds |-> << >>, malformed |-> malformed]

(* A message is applied event by event, up to the one that has it refused. *)
HandleMessage_EventByEvent(mem, length, handle, p, msg_len) ==
  LET size == CharValue(mem[p])
      cmds == ParseEvent(mem, p + 1, size - 1)
  IN  IF Refused(cmds) THEN [Stopped(length, TRUE) EXCEPT !.cmds = SubSeq(cmds, 1, Len(cmds) - 1)]
      ELSE [handle[<< p + size, msg_len - size >>] EXCEPT !.cmds = cmds \o @]

HandleMessage(mem, length, handle, p, msg_len) ==
  LET size == CharValue(mem[p])
      cmds == ParseEvent(mem, p + 1, size - 1)
  IN  IF Refused(cmds) THEN Stopped(length, TRUE)
      ELSE [handle[<< p + size, msg_len - size >>] EXCEPT !.cmds = cmds \o @]

(* What is left is returned in place of what has been consumed. *)
HandleStep_ReturnsRest(mem, length, handle, p, msg_len) ==
  IF msg_len <= 0 \/ msg_len < CharValue(mem[p]) THEN Stopped(msg_len, FALSE)
  ELSE HandleMessage(mem, length, handle, p, msg_len)

(* The whole message is not waited for. *)
HandleStep_NoLengthCheck(mem, length, handle, p, msg_len) ==
  IF msg_len <= 0 THEN Stopped(length - msg_len, FALSE)
  ELSE HandleMessage(mem, length, handle, p, msg_len)

HandleStep(mem, length, handle, p, msg_len) ==
  IF msg_len <= 0 \/ msg_len < CharValue(mem[p]) THEN Stopped(length - msg_len, FALSE)
  ELSE HandleMessage(mem, length, handle, p, msg_len)

(* handler_event: parses the complete messages among the first `length`    *)
(* bytes of mem.  `ret` is the number of bytes consumed, `cmds` the        *)
(* commands of the accepted messages; a refused message stops the loop and *)
(* throws away all that is left.                                           *)
HandlerEvent(mem, length) ==
  LET handle[at \in Nat \X Int] == HandleStep(mem, length, handle, at[1], at[2])
  IN  handle[<< 0, length >>]
=============================================================================
