---------------------------- MODULE ClientBuffer ----------------------------
(***************************************************************************)
(* One entry of the server's client table: the 128 bytes of struct Client, *)
(* the TCP stream of the peer that currently owns the entry, and the call  *)
(* that moves bytes from one to the other, __handle_client.  TCP gives no  *)
(* message boundaries: recv returns any non-empty prefix of what the peer  *)
(* has sent, up to the room left in the buffer.                            *)
(*                                                                         *)
(* `sent`, `received` and `applied` are history variables: the messages    *)
(* the present peer sent, how many of their bytes recv has returned, and   *)
(* the commands handler_event accepted.                                    *)
(***************************************************************************)
EXTENDS Protocol

CONSTANTS
  CLIENT_BUFFER_SIZE,  \* the size of Client.buf, 128 in the code
  Messages,            \* what a peer may send: records [bytes, cmds]
  OverreadBytes,       \* what memory that nobody has written may hold
  MaxMessages,         \* bound: messages sent by one peer
  MaxJoins             \* bound: peers that use the entry one after the other

ASSUME ClientBufferAssumption ==
  /\ CLIENT_BUFFER_SIZE \in Nat \ {0}
  /\ \A m \in Messages : /\ m.bytes \in Seq(Byte) /\ m.bytes # << >>
                         /\ m.cmds \in Seq(Parsed)
  /\ OverreadBytes \in (SUBSET Byte) \ {{}}
  /\ MaxMessages \in Nat
  /\ MaxJoins \in Nat

VARIABLES
  buf,       \* Client.buf
  pos,       \* Client.pos
  wire,      \* sent by the peer, not yet returned by recv
  peer,      \* "none": free entry; "open"; "fin": closed; "rst": reset
  shut,      \* the server has called shutdown() on the connection
  joins, sent, received, applied

vars == << buf, pos, wire, peer, shut, joins, sent, received, applied >>

Index == 0..(CLIENT_BUFFER_SIZE - 1)
Zeroed == [i \in Index |-> 0]

TypeOK ==
  /\ buf \in [Index -> Byte]
  /\ pos \in Nat
  /\ peer # "none" => pos <= CLIENT_BUFFER_SIZE
  /\ wire \in Seq(Byte)
  /\ peer \in {"none", "open", "fin", "rst"}
  /\ shut \in BOOLEAN
  /\ joins \in 0..MaxJoins
  /\ sent \in Seq(Messages)
  /\ received \in Nat
  /\ applied \in Seq(Parsed)

(* pmalloc does not clear the entries: until a client is given the entry,  *)
(* its buffer and its position are whatever was there.                     *)
Init ==
  /\ buf \in [Index -> OverreadBytes]
  /\ pos \in OverreadBytes
  /\ wire = << >>
  /\ peer = "none"
  /\ shut = FALSE
  /\ joins = 0
  /\ sent = << >>
  /\ received = 0
  /\ applied = << >>

-----------------------------------------------------------------------------
(* The peer.                                                               *)

(* Join without the memset.                                                *)
Join_NoMemset ==
  /\ peer = "none"
  /\ joins < MaxJoins
  /\ peer' = "open"
  /\ joins' = joins + 1
  /\ UNCHANGED << buf, pos >>
  /\ wire' = << >>
  /\ shut' = FALSE
  /\ sent' = << >>
  /\ received' = 0
  /\ applied' = << >>

(* A new client is given the entry: its struct is zeroed.                  *)
Join ==
  /\ peer = "none"
  /\ joins < MaxJoins
  /\ peer' = "open"
  /\ joins' = joins + 1
  /\ buf' = Zeroed
  /\ pos' = 0
  /\ wire' = << >>
  /\ shut' = FALSE
  /\ sent' = << >>
  /\ received' = 0
  /\ applied' = << >>

Send(m) ==
  /\ peer = "open"
  /\ Len(sent) < MaxMessages
  /\ wire' = wire \o m.bytes
  /\ sent' = Append(sent, m)
  /\ UNCHANGED << buf, pos, peer, shut, joins, received, applied >>

(* The peer goes away, cleanly or not, perhaps in the middle of a message. *)
Leave ==
  /\ peer = "open"
  /\ peer' \in {"fin", "rst"}
  /\ \E k \in 0..Len(wire) : wire' = SubSeq(wire, 1, k)
  /\ UNCHANGED << buf, pos, shut, joins, sent, received, applied >>

-----------------------------------------------------------------------------
(* The server: __handle_client on a connection that select() reported.     *)

Room == CLIENT_BUFFER_SIZE - pos

(* memmove(buf, buf + ret, n) on the array b.                              *)
MoveDown(b, ret, n) == [i \in Index |-> IF i < n THEN b[i + ret] ELSE b[i]]

(* The two tests on the value the handler returned.                        *)
Clamp_None(ret, at) == ret
Clamp(ret, at) == IF ret > at THEN at ELSE IF ret < 0 THEN 0 ELSE ret

(* What follows a recv that is not a disconnection: `len` is added to pos  *)
(* (unsigned, so -1 takes one off), the handler parses buf[0..pos), and    *)
(* what it consumed is moved out.  A refusal shuts the connection down but *)
(* leaves it in the set.                                                   *)
Deliver(bytes, len) ==
  LET at == pos + len
      filled == [i \in Index |->
                   IF i >= pos /\ i < pos + Len(bytes) THEN bytes[i - pos + 1] ELSE buf[i]]
  IN  \E over \in OverreadBytes :
        LET mem == [i \in Nat |-> IF i \in Index THEN filled[i] ELSE over]
            result == HandlerEvent(mem, at)
            ret == Clamp(result.ret, at)
        IN  /\ buf' = MoveDown(filled, ret, at - ret)
            /\ pos' = at - ret
            /\ applied' = applied \o result.cmds
            /\ shut' = (shut \/ result.malformed)

RecvData ==
  /\ peer # "none"
  /\ \E k \in 1..Len(wire) :
       /\ k <= Room
       /\ Deliver(SubSeq(wire, 1, k), k)
       /\ wire' = SubSeq(wire, k + 1, Len(wire))
       /\ received' = received + k
  /\ UNCHANGED << peer, joins, sent >>

(* recv returns -1 once after a reset.  `(len = ...) <= 0` compares an     *)
(* unsigned: the connection is not removed here, but when the next recv    *)
(* returns 0.                                                              *)
RecvError ==
  /\ peer = "rst"
  /\ Deliver(<< >>, -1)
  /\ wire' = << >>
  /\ peer' = "fin"
  /\ UNCHANGED << joins, sent, received >>

(* recv returns 0: end of the stream, the read side shut down here, or no  *)
(* room left so that zero bytes were asked for.                            *)
Disconnected_RoomIgnored ==
  \/ peer = "fin" /\ wire = << >>
  \/ peer # "none" /\ shut

Disconnected ==
  \/ peer = "fin" /\ wire = << >>
  \/ peer # "none" /\ shut
  \/ peer # "none" /\ Room = 0 /\ wire # << >>

(* Without socket_set_remove. *)
RecvEof_Kept ==
  /\ Disconnected
  /\ UNCHANGED vars

RecvEof ==
  /\ Disconnected
  /\ peer' = "none"
  /\ wire' = << >>
  /\ UNCHANGED << buf, pos, shut, joins, sent, received, applied >>

HandleClient == RecvData \/ RecvError \/ RecvEof

Next ==
  \/ Join
  \/ \E m \in Messages : Send(m)
  \/ Leave
  \/ HandleClient

Spec == Init /\ [][Next]_vars

(* The event loop visits every entry that select() reports.                *)
FairSpec == Spec /\ WF_vars(HandleClient)

-----------------------------------------------------------------------------
(* Properties.                                                             *)

(* What the parser makes of the messages is what their senders mean, and   *)
(* what README.md says: commands with no seek before the last one, or some *)
(* commands that end in Bad, an unknown type or a value that is cut off.   *)
Decodable(c) ==
  \/ c = Volume(c.value) /\ c.value \in Byte
  \/ c = Channel(c.value) /\ c.value \in Word /\ CharValue(c.value % 256) >= 0
  \/ c \in {SeekUp, SeekDown}

CutOff(rest) ==
  /\ rest # << >>
  /\ \/ rest[1] \notin {EVENT_VOLUME, EVENT_CHANNEL, EVENT_SEEKUP, EVENT_SEEKDOWN}
     \/ rest[1] = EVENT_VOLUME /\ Len(rest) < 2
     \/ rest[1] = EVENT_CHANNEL /\ Len(rest) < 3

Legible(m) ==
  LET n == Len(m.cmds) - IF Refused(m.cmds) THEN 1 ELSE 0
      body == EncodeFirst(m.cmds, n)
      rest == SubSeq(m.bytes, Len(body) + 2, Len(m.bytes))
      size == CharValue(m.bytes[1])
  IN  /\ m.cmds # << >>
      /\ \A i \in 1..n : Decodable(m.cmds[i])
      /\ \A i \in 1..n : m.cmds[i] \in {SeekUp, SeekDown} => i = Len(m.cmds)
      /\ m.bytes = << m.bytes[1] >> \o body \o rest
      /\ IF Refused(m.cmds) THEN size <= 1 \/ (size = Len(m.bytes) /\ CutOff(rest))
                            ELSE size = Len(m.bytes) /\ rest = << >>

MessagesLegible == \A m \in Messages : Legible(m)

(* The end of the n-th message in the peer's byte stream.                  *)
EndOf(n) == Len(Joined([i \in DOMAIN sent |-> sent[i].bytes], n))

CommandsUpTo(n) == Joined([i \in DOMAIN sent |-> sent[i].cmds], n)

(* The commands of the messages recv has returned to the last byte.        *)
CompleteCommands ==
  LET complete == {n \in 0..Len(sent) : EndOf(n) <= received}
  IN  CommandsUpTo(CHOOSE n \in complete : \A o \in complete : o <= n)

(* However TCP cuts the stream, and whoever used the entry before, as long *)
(* as the server has not refused the peer it has applied exactly the       *)
(* commands of the messages it received in full, in order: none lost, none *)
(* twice, none read across a boundary (server.c __handle_client with       *)
(* handler.c handler_event).                                               *)
AppliedExactly ==
  peer # "none" /\ ~shut => applied = CompleteCommands

(* In the step that refuses a peer, whatever else is in the buffer, the    *)
(* messages before the one refused have been applied, each once, and the   *)
(* refused one, even in part, and those behind it have not (handler.c:238, *)
(* where __parse_event sets nothing before it has parsed all).             *)
AppliedUntilRefused ==
  [][~shut /\ shut' => \E n \in DOMAIN sent :
       Refused(sent[n].cmds) /\ applied' = CommandsUpTo(n - 1)]_vars

(* The comment at server.c:155, which says that the buffer of a client     *)
(* "should never" be full when __handle_client is entered: it is not as    *)
(* long as no message announces the size of the buffer or more, and none   *)
(* was refused.                                                            *)
BufferNeverFull ==
  peer # "none" /\ ~shut /\ pos = CLIENT_BUFFER_SIZE =>
    \E k \in DOMAIN sent : Len(sent[k].bytes) >= CLIENT_BUFFER_SIZE

(* A peer that only sends what README.md calls a message is not refused    *)
(* and disconnected as malformed.                                          *)
WellFormedNotRefused ==
  (\A i \in DOMAIN sent : ~Refused(sent[i].cmds)) => ~shut

(* A peer that left, or that was refused, frees its entry: recv returning  *)
(* -1 delays it by one round only.                                         *)
GoneIsForgotten == (peer \in {"fin", "rst"} \/ (shut /\ peer = "open")) ~> peer = "none"

(* A peer whose message does not fit in the buffer does not hold its entry *)
(* for ever: once the buffer is full the next recv, of zero bytes, is      *)
(* taken for a disconnection (server.c:161).                               *)
FullIsDropped ==
  (peer = "open" /\ pos = CLIENT_BUFFER_SIZE /\ wire # << >>) ~> peer = "none"
=============================================================================
