------------------------------ MODULE Delivery ------------------------------
(***************************************************************************)
(* A message on its way from tcp_send, of utils/socket.c, over a TCP       *)
(* stream to the receive buffer of the Node.js client, service-client.js.  *)
(*                                                                         *)
(* send may take a part of what it is given; TCP keeps the bytes and their *)
(* order but not where a message ends, and the client cuts the stream      *)
(* again with the length each message begins with.  A byte is known by the *)
(* message it comes from and its place in the buffer that was sent; the    *)
(* first one is the length.                                                *)
(***************************************************************************)
EXTENDS Integers, Sequences

CONSTANTS
  Sizes,        \* the lengths of messages, in bytes
  BufferSize,   \* of the client, 128
  WireSize,     \* bytes the two kernels hold
  MaxMessages,  \* bound: messages sent
  MaxCuts       \* bound: calls of send that take a part

ASSUME DeliveryAssumption ==
  /\ Sizes \subseteq 1..(BufferSize - 1)
  /\ BufferSize \in Nat \ {0}
  /\ WireSize \in Nat \ {0}
  /\ MaxMessages \in Nat
  /\ MaxCuts \in Nat

VARIABLES
  sent,      \* the messages given to tcp_send, by their sizes
  p, len,    \* of tcp_send: where it is in the buffer, and what is left
  taken,     \* what the call of send under way has taken
  wire,
  buf,       \* _buf of the client, up to _off
  parsing,   \* _onData is in its loop
  status,    \* of the client: "runs", "exited" or, in that loop for ever, "hangs"
  applied,   \* the messages the actions of the client were called for
  cuts

sendVars == << sent, p, len, taken, cuts >>
clientVars == << buf, parsing, status, applied >>
vars == << sendVars, wire, clientVars >>

Bytes(msg, from, n) == [k \in 1..n |-> [msg |-> msg, place |-> from + k - 1]]
Status == {"runs", "exited", "hangs"}

(* What the actions get to see of bytes that are not one message. *)
Garbled == 0

Init ==
  /\ sent = << >>
  /\ p = 0 /\ len = 0 /\ taken = 0
  /\ wire = << >>
  /\ buf = << >>
  /\ parsing = FALSE
  /\ status = "runs"
  /\ applied = << >>
  /\ cuts = 0

-----------------------------------------------------------------------------
(* tcp_send.                                                               *)

(* It is called with a message, from its first byte on. *)
SendStart ==
  /\ len = 0
  /\ Len(sent) < MaxMessages
  /\ \E size \in Sizes : sent' = Append(sent, size) /\ len' = size
  /\ p' = 0
  /\ UNCHANGED << taken, cuts, wire, clientVars >>

(* The kernel takes bytes from the buffer while it has room. *)
SendTakes ==
  /\ status # "exited"
  /\ \E n \in 1..(len - taken) :
       /\ Len(wire) + n <= WireSize
       /\ wire' = wire \o Bytes(Len(sent), p + taken, n)
       /\ taken' = taken + n
  /\ UNCHANGED << sent, p, len, cuts, clientVars >>

(* send returns how much it has taken: all of it, or a part when the       *)
(* process was stopped meanwhile. `p` is moved by what is left to send.    *)
SendReturns ==
  /\ taken > 0
  /\ IF taken = len THEN UNCHANGED cuts ELSE cuts < MaxCuts /\ cuts' = cuts + 1
  /\ len' = len - taken
  /\ p' = p + len'
  /\ taken' = 0
  /\ UNCHANGED << sent, wire, clientVars >>

(* send fails, the client being gone, and tcp_send ends. *)
SendFails ==
  /\ len > 0
  /\ status = "exited"
  /\ len' = 0
  /\ taken' = 0
  /\ UNCHANGED << sent, p, cuts, wire, clientVars >>

-----------------------------------------------------------------------------
(* ServiceClient.                                                          *)

(* The value of a byte: only that of a length is known here. *)
ValueOf(byte) == IF byte.place = 0 THEN {sent[byte.msg]} ELSE 0..BufferSize

(* _onData without the test of the size. *)
OnData_NotTested(data) ==
  /\ buf' = buf \o data
  /\ parsing' = TRUE
  /\ UNCHANGED << status, applied >>

(* _onData for which a message never comes in two pieces. *)
OnData_Alone(data) ==
  /\ buf' = data
  /\ IF Len(buf') >= BufferSize
     THEN status' = "exited" /\ UNCHANGED parsing
     ELSE parsing' = TRUE /\ UNCHANGED status
  /\ UNCHANGED applied

(* _onData: the data is added to the buffer, which may not be filled. *)
OnData(data) ==
  /\ buf' = buf \o data
  /\ IF Len(buf') >= BufferSize
     THEN status' = "exited" /\ UNCHANGED parsing
     ELSE parsing' = TRUE /\ UNCHANGED status
  /\ UNCHANGED applied

(* Any part of what has come is handed over at once. *)
Data ==
  /\ status = "runs" /\ ~parsing
  /\ \E n \in 1..Len(wire) :
       /\ wire' = SubSeq(wire, n + 1, Len(wire))
       /\ OnData(SubSeq(wire, 1, n))
  /\ UNCHANGED sendVars

(* What the bytes of a message are to _parseMsg. *)
Meaning(bytes) ==
  IF \E m \in DOMAIN sent : bytes = Bytes(m, 0, sent[m]) THEN bytes[1].msg ELSE Garbled

(* The loop of _onData that takes one message of each piece of data. *)
Parse_First ==
  /\ status = "runs" /\ parsing
  /\ IF buf = << >>
     THEN parsing' = FALSE /\ UNCHANGED << buf, status, applied >>
     ELSE \E size \in ValueOf(buf[1]) :
            IF size > Len(buf)
            THEN parsing' = FALSE /\ UNCHANGED << buf, status, applied >>
            ELSE /\ applied' = Append(applied, Meaning(SubSeq(buf, 1, size)))
                 /\ buf' = SubSeq(buf, size + 1, Len(buf))
                 /\ parsing' = FALSE
                 /\ UNCHANGED status
  /\ UNCHANGED << sendVars, wire >>

(* Once round the loop of _onData. _parseMsg throws at an unknown event,   *)
(* which exits; a length of zero is never passed.                          *)
Parse ==
  /\ status = "runs" /\ parsing
  /\ IF buf = << >>
     THEN parsing' = FALSE /\ UNCHANGED << buf, status, applied >>
     ELSE \E size \in ValueOf(buf[1]) :
            LET meaning == Meaning(SubSeq(buf, 1, size))
            IN  \/ /\ size > Len(buf)
                   /\ parsing' = FALSE
                   /\ UNCHANGED << buf, status, applied >>
                \/ /\ size = 0
                   /\ status' = "hangs"
                   /\ UNCHANGED << buf, parsing, applied >>
                \/ /\ size \in 1..Len(buf)
                   /\ applied' = Append(applied, meaning)
                   /\ buf' = SubSeq(buf, size + 1, Len(buf))
                   /\ UNCHANGED << parsing, status >>
                \/ /\ size \in 1..Len(buf)
                   /\ meaning = Garbled
                   /\ status' = "exited"
                   /\ UNCHANGED << buf, parsing, applied >>
  /\ UNCHANGED << sendVars, wire >>

Next == SendStart \/ SendTakes \/ SendReturns \/ SendFails \/ Data \/ Parse

Spec == Init /\ [][Next]_vars

(* The kernels pass on what they have; send and the client's thread run.   *)
FairSpec ==
  /\ Spec
  /\ WF_vars(SendTakes) /\ WF_vars(SendReturns) /\ WF_vars(SendFails)
  /\ WF_vars(Data) /\ WF_vars(Parse)

-----------------------------------------------------------------------------
(* Properties.                                                             *)

TypeOK ==
  /\ sent \in Seq(Sizes) /\ Len(sent) <= MaxMessages
  /\ len \in Nat /\ taken \in 0..len
  /\ p \in Nat
  /\ Len(wire) <= WireSize
  /\ status = "exited" \/ Len(buf) < BufferSize
  /\ parsing \in BOOLEAN
  /\ status \in Status
  /\ applied \in Seq(0..Len(sent))
  /\ cuts \in 0..MaxCuts

(* No send has taken a part, and there is somebody who reads. *)
Sound == cuts = 0 /\ status = "runs"

(* However the stream is cut, the client calls its actions for each        *)
(* message once, whole and in order: what Service takes for granted        *)
(* (Deliver), until send has taken a part or the client has given up.      *)
Way == INSTANCE Channel WITH
  Message <- 1..MaxMessages,
  queue   <- IF Sound THEN [k \in 1..(Len(sent) - Len(applied)) |-> Len(applied) + k] ELSE << >>,
  got     <- applied,
  open    <- Sound

ImplementsChannel == Way!ChanSpec

(* Nothing that was sent stays in the stream or in the buffer of a client  *)
(* that has not given up: the end of one message is no reason to wait for  *)
(* the next one (service-client.js:86).                                    *)
AllApplied ==
  \A n \in 1..MaxMessages :
    (Sound /\ Len(sent) >= n) ~> (~Sound \/ Len(applied) >= n)

(* README.md:37, the client "supports all messages currently sent by the   *)
(* service": it does not give up on them.                                  *)
SupportsAllMessages == status = "runs"
=============================================================================
