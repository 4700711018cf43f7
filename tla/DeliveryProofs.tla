--------------------------- MODULE DeliveryProofs ---------------------------
(***************************************************************************)
(* Proofs about Delivery: for any messages, buffers and pieces of the      *)
(* stream, the client finds the messages in it again, which implements     *)
(* Channel.                                                                *)
(***************************************************************************)
EXTENDS Delivery, TLAPS

(* The inductive invariant, by its parts.                                  *)

StreamByte == [msg : 1..Len(sent), place : Nat]

(* tcp_send, until send takes a part: p stays at the start of the message. *)
SendInv ==
  /\ len > 0 => Len(sent) > 0
  /\ cuts = 0 => p = 0
  /\ cuts = 0 /\ status # "exited" /\ len > 0 => len = sent[Len(sent)]

(* The byte at position i of what the client has not yet cut off is the    *)
(* one its message begins at `start` for.                                  *)
InPlace(byte, i, start) ==
  /\ byte.msg > Len(applied)
  /\ byte.place < sent[byte.msg]
  /\ i = start[byte.msg] + byte.place

(* The messages not yet applied follow one another in the stream, of which *)
(* the buffer of the client comes first; the last may not be in it yet.    *)
StreamInv(start) ==
  /\ Len(applied) <= Len(sent)
  /\ start[Len(applied) + 1] = 1
  /\ \A m \in (Len(applied) + 1)..Len(sent) : start[m + 1] = start[m] + sent[m]
  /\ \A m \in (Len(applied) + 1)..Len(sent) : \A o \in (m + 1)..(Len(sent) + 1) :
       start[m] + sent[m] <= start[o]
  /\ start[Len(sent) + 1] = Len(buf) + Len(wire) + 1 + (len - taken)
  /\ \A i \in DOMAIN buf : InPlace(buf[i], i, start)
  /\ \A j \in DOMAIN wire : InPlace(wire[j], Len(buf) + j, start)

Typed ==
  /\ TypeOK
  /\ buf \in Seq(StreamByte) /\ wire \in Seq(StreamByte)
  /\ SendInv

DeliveryInv ==
  /\ Typed
  /\ Sound => \E start \in [Nat -> Int] : StreamInv(start)

-----------------------------------------------------------------------------
(* About sequences, by what is at each place.                              *)

LEMMA AppendFacts ==
  ASSUME NEW S, NEW q \in Seq(S), NEW e \in S
  PROVE  /\ Append(q, e) \in Seq(S)
         /\ Len(Append(q, e)) = Len(q) + 1
         /\ \A k \in 1..Len(q) : Append(q, e)[k] = q[k]
         /\ Append(q, e)[Len(q) + 1] = e
OBVIOUS

LEMMA ConcatFacts ==
  ASSUME NEW S, NEW q \in Seq(S), NEW r \in Seq(S)
  PROVE  /\ q \o r \in Seq(S)
         /\ Len(q \o r) = Len(q) + Len(r)
         /\ \A k \in 1..Len(q) : (q \o r)[k] = q[k]
         /\ \A k \in 1..Len(r) : (q \o r)[Len(q) + k] = r[k]
OBVIOUS

(* A sequence in two parts, of which n elements are the first.             *)
LEMMA SplitFacts ==
  ASSUME NEW S, NEW q \in Seq(S), NEW n \in 0..Len(q)
  PROVE  /\ SubSeq(q, 1, n) \in Seq(S)
         /\ Len(SubSeq(q, 1, n)) = n
         /\ \A k \in 1..n : SubSeq(q, 1, n)[k] = q[k]
         /\ SubSeq(q, n + 1, Len(q)) \in Seq(S)
         /\ Len(SubSeq(q, n + 1, Len(q))) = Len(q) - n
         /\ \A k \in 1..(Len(q) - n) : SubSeq(q, n + 1, Len(q))[k] = q[n + k]
OBVIOUS

LEMMA TailFacts ==
  ASSUME NEW S, NEW q \in Seq(S), q # << >>
  PROVE  /\ Head(q) = q[1]
         /\ Tail(q) \in Seq(S) /\ Len(Tail(q)) = Len(q) - 1
         /\ \A k \in 1..(Len(q) - 1) : Tail(q)[k] = q[k + 1]
OBVIOUS

LEMMA SequenceDomain ==
  ASSUME NEW S, NEW q \in Seq(S)
  PROVE  /\ Len(q) \in Nat
         /\ DOMAIN q = 1..Len(q)
         /\ \A k \in 1..Len(q) : q[k] \in S
         /\ q = << >> <=> Len(q) = 0
OBVIOUS

(* A sequence of some elements is one of more of them.                     *)
LEMMA SequenceOfMore ==
  ASSUME NEW S, NEW R, S \subseteq R, NEW q \in Seq(S)
  PROVE  q \in Seq(R)
OBVIOUS

(* The bytes of a part of a message.                                       *)
LEMMA BytesFacts ==
  ASSUME NEW msg \in 1..Len(sent), NEW from \in Nat, NEW n \in Nat, Len(sent) \in Nat
  PROVE  /\ Bytes(msg, from, n) \in Seq(StreamByte)
         /\ Len(Bytes(msg, from, n)) = n
         /\ \A k \in 1..n : Bytes(msg, from, n)[k] = [msg |-> msg, place |-> from + k - 1]
<1>1. Bytes(msg, from, n) = [k \in 1..n |-> [msg |-> msg, place |-> from + k - 1]]
  BY DEF Bytes
<1>2. \A k \in 1..n : [msg |-> msg, place |-> from + k - 1] \in StreamByte
  BY DEF StreamByte
<1>3. Bytes(msg, from, n) \in [1..n -> StreamByte]
  BY <1>1, <1>2
<1>4. \A k \in 1..n : Bytes(msg, from, n)[k] = [msg |-> msg, place |-> from + k - 1]
  BY <1>1
<1> HIDE DEF StreamByte
<1>5. Bytes(msg, from, n) \in Seq(StreamByte) /\ Len(Bytes(msg, from, n)) = n
  BY <1>3
<1> QED  BY <1>4, <1>5

LEMMA SizesFacts ==
  /\ BufferSize \in Nat /\ BufferSize > 0
  /\ Sizes \subseteq Nat
  /\ \A size \in Sizes : size > 0 /\ size < BufferSize
BY DeliveryAssumption

-----------------------------------------------------------------------------
(* The types, one action after the other.                                  *)

LEMMA TypesOfInit == Init => Typed
<1> SUFFICES ASSUME Init PROVE Typed
  OBVIOUS
<1>1. sent = << >> /\ len = 0 /\ taken = 0 /\ p = 0 /\ wire = << >> /\ buf = << >>
      /\ parsing = FALSE /\ status = "runs" /\ applied = << >> /\ cuts = 0
  BY DEF Init
<1>2. Len(wire) <= WireSize /\ Len(buf) < BufferSize /\ Len(sent) <= MaxMessages /\ cuts \in 0..MaxCuts
  BY <1>1, DeliveryAssumption
<1>3. sent \in Seq(Sizes) /\ applied \in Seq(0..Len(sent)) /\ buf \in Seq(StreamByte) /\ wire \in Seq(StreamByte)
  BY <1>1
<1>4. TypeOK
  <2>1. len \in Nat /\ taken \in 0..len /\ p \in Nat
    BY <1>1
  <2>2. parsing \in BOOLEAN /\ status \in Status
    BY <1>1 DEF Status
  <2> QED  BY <2>1, <2>2, <1>2, <1>3 DEF TypeOK
<1> QED  BY <1>1, <1>3, <1>4 DEF Typed, SendInv

LEMMA TypesOfSendStart == Typed /\ SendStart => Typed'
<1> SUFFICES ASSUME Typed, SendStart PROVE Typed'
  OBVIOUS
<1>1. PICK size \in Sizes : sent' = Append(sent, size) /\ len' = size
  BY Zenon DEF SendStart
<1>2. /\ len = 0 /\ Len(sent) < MaxMessages
      /\ p' = 0 /\ taken' = taken /\ cuts' = cuts /\ wire' = wire
      /\ buf' = buf /\ parsing' = parsing /\ status' = status /\ applied' = applied
  BY Zenon DEF SendStart, clientVars
<1>3. TypeOK /\ buf \in Seq(StreamByte) /\ wire \in Seq(StreamByte)
  BY DEF Typed
<1>4. sent \in Seq(Sizes) /\ Len(sent) \in Nat /\ taken = 0 /\ applied \in Seq(0..Len(sent))
  BY <1>2, <1>3, SequenceDomain DEF TypeOK
<1>5. sent' \in Seq(Sizes) /\ Len(sent') = Len(sent) + 1 /\ sent'[Len(sent) + 1] = size
  BY <1>1, <1>4, AppendFacts
<1>6. applied' \in Seq(0..Len(sent'))
  <2>1. 0..Len(sent) \subseteq 0..Len(sent')
    BY <1>4, <1>5
  <2> QED  BY <2>1, <1>2, <1>4, SequenceOfMore
<1>7. buf' \in Seq(StreamByte') /\ wire' \in Seq(StreamByte')
  <2>1. StreamByte \subseteq StreamByte'
    BY <1>4, <1>5 DEF StreamByte
  <2> QED  BY <2>1, <1>2, <1>3, SequenceOfMore
<1>8. Len(sent') <= MaxMessages
  BY <1>2, <1>4, <1>5, DeliveryAssumption
<1>9. len' \in Nat /\ len' > 0 /\ taken' \in 0..len'
  BY <1>1, <1>2, <1>4, SizesFacts
<1>10. TypeOK'
  BY <1>2, <1>3, <1>5, <1>6, <1>8, <1>9 DEF TypeOK
<1>11. SendInv'
  BY <1>1, <1>2, <1>4, <1>5, <1>9 DEF SendInv
<1> QED  BY <1>7, <1>10, <1>11 DEF Typed

LEMMA TypesOfSendTakes == Typed /\ SendTakes => Typed'
<1> SUFFICES ASSUME Typed, SendTakes PROVE Typed'
  OBVIOUS
<1>1. PICK n \in 1..(len - taken) :
        /\ Len(wire) + n <= WireSize
        /\ wire' = wire \o Bytes(Len(sent), p + taken, n)
        /\ taken' = taken + n
  BY Zenon DEF SendTakes
<1>2. /\ sent' = sent /\ p' = p /\ len' = len /\ cuts' = cuts
      /\ buf' = buf /\ parsing' = parsing /\ status' = status /\ applied' = applied
  BY Zenon DEF SendTakes, clientVars
<1>3. TypeOK /\ SendInv /\ buf \in Seq(StreamByte) /\ wire \in Seq(StreamByte)
  BY DEF Typed
<1>4. /\ Len(sent) \in Nat /\ p \in Nat /\ taken \in Nat /\ len \in Nat /\ n \in Nat /\ n > 0
      /\ taken + n <= len /\ len > 0
  BY <1>1, <1>3, SequenceDomain DEF TypeOK
<1>5. Len(sent) \in 1..Len(sent)
  BY <1>3, <1>4 DEF SendInv
<1>6. /\ Bytes(Len(sent), p + taken, n) \in Seq(StreamByte)
      /\ Len(Bytes(Len(sent), p + taken, n)) = n
  <2>1. p + taken \in Nat
    BY <1>4
  <2> QED  BY <2>1, <1>4, <1>5, BytesFacts
<1>7. wire' \in Seq(StreamByte) /\ Len(wire') = Len(wire) + n
  BY <1>1, <1>3, <1>6, ConcatFacts
<1>8. StreamByte' = StreamByte
  BY <1>2 DEF StreamByte
<1>9. taken' \in 0..len' /\ Len(wire') <= WireSize
  BY <1>1, <1>2, <1>4, <1>7
<1>10. TypeOK'
  BY <1>2, <1>3, <1>9 DEF TypeOK
<1>11. SendInv'
  BY <1>2, <1>3 DEF SendInv
<1> QED  BY <1>2, <1>3, <1>7, <1>8, <1>10, <1>11 DEF Typed

LEMMA TypesOfSendReturns == Typed /\ SendReturns => Typed'
<1> SUFFICES ASSUME Typed, SendReturns PROVE Typed'
  OBVIOUS
<1>1. /\ taken > 0 /\ len' = len - taken /\ p' = p + len' /\ taken' = 0
      /\ sent' = sent /\ wire' = wire
      /\ buf' = buf /\ parsing' = parsing /\ status' = status /\ applied' = applied
  BY Zenon DEF SendReturns, clientVars
<1>2. IF taken = len THEN cuts' = cuts ELSE cuts < MaxCuts /\ cuts' = cuts + 1
  BY DEF SendReturns
<1>3. TypeOK /\ SendInv /\ buf \in Seq(StreamByte) /\ wire \in Seq(StreamByte)
  BY DEF Typed
<1>4. p \in Nat /\ len \in Nat /\ taken \in 0..len /\ cuts \in 0..MaxCuts /\ MaxCuts \in Nat
  BY <1>3, DeliveryAssumption DEF TypeOK
<1>5. len' \in Nat /\ p' \in Nat /\ taken' \in 0..len' /\ cuts' \in 0..MaxCuts
  BY <1>1, <1>2, <1>4
<1>6. TypeOK'
  BY <1>1, <1>3, <1>5 DEF TypeOK
<1>7. cuts' = 0 => len' = 0 /\ p' = p /\ cuts = 0
  BY <1>1, <1>2, <1>4
<1>8. SendInv'
  BY <1>1, <1>3, <1>4, <1>7 DEF SendInv
<1>9. StreamByte' = StreamByte
  BY <1>1 DEF StreamByte
<1> QED  BY <1>1, <1>3, <1>6, <1>8, <1>9 DEF Typed

LEMMA TypesOfSendFails == Typed /\ SendFails => Typed'
<1> SUFFICES ASSUME Typed, SendFails PROVE Typed'
  OBVIOUS
<1>1. /\ len' = 0 /\ taken' = 0 /\ status = "exited"
      /\ sent' = sent /\ p' = p /\ cuts' = cuts /\ wire' = wire
      /\ buf' = buf /\ parsing' = parsing /\ status' = status /\ applied' = applied
  BY Zenon DEF SendFails, clientVars
<1>2. TypeOK /\ SendInv /\ buf \in Seq(StreamByte) /\ wire \in Seq(StreamByte)
  BY DEF Typed
<1>3. TypeOK'
  BY <1>1, <1>2 DEF TypeOK
<1>4. SendInv'
  BY <1>1, <1>2 DEF SendInv
<1>5. StreamByte' = StreamByte
  BY <1>1 DEF StreamByte
<1> QED  BY <1>1, <1>2, <1>3, <1>4, <1>5 DEF Typed

LEMMA TypesOfData == Typed /\ Data => Typed'
<1> SUFFICES ASSUME Typed, Data PROVE Typed'
  OBVIOUS
<1>1. PICK n \in 1..Len(wire) :
        wire' = SubSeq(wire, n + 1, Len(wire)) /\ OnData(SubSeq(wire, 1, n))
  BY Zenon DEF Data
<1>2. sent' = sent /\ p' = p /\ len' = len /\ taken' = taken /\ cuts' = cuts
  BY Zenon DEF Data, sendVars
<1>3. /\ buf' = buf \o SubSeq(wire, 1, n) /\ applied' = applied
      /\ IF Len(buf') >= BufferSize
         THEN status' = "exited" /\ parsing' = parsing
         ELSE parsing' = TRUE /\ status' = status
  BY <1>1 DEF OnData
<1>4. TypeOK /\ SendInv /\ buf \in Seq(StreamByte) /\ wire \in Seq(StreamByte)
  BY DEF Typed
<1>5. /\ SubSeq(wire, 1, n) \in Seq(StreamByte)
      /\ wire' \in Seq(StreamByte) /\ Len(wire') = Len(wire) - n
      /\ Len(wire) \in Nat /\ n \in Nat /\ n > 0
  <2>1. Len(wire) \in Nat /\ n \in 0..Len(wire) /\ n \in Nat /\ n > 0
    BY <1>1, <1>4, SequenceDomain
  <2> QED  BY <2>1, <1>1, <1>4, SplitFacts
<1>6. buf' \in Seq(StreamByte) /\ Len(buf') \in Nat
  BY <1>3, <1>4, <1>5, ConcatFacts, SequenceDomain
<1>7. Len(wire') <= WireSize
  BY <1>4, <1>5, DeliveryAssumption DEF TypeOK
<1>8. status' = "exited" \/ Len(buf') < BufferSize
  BY <1>3, <1>6, SizesFacts
<1>9. TypeOK'
  BY <1>2, <1>3, <1>4, <1>7, <1>8 DEF TypeOK, Status
<1>10. SendInv'
  BY <1>2, <1>3, <1>4 DEF SendInv
<1>11. StreamByte' = StreamByte
  BY <1>2 DEF StreamByte
<1> QED  BY <1>5, <1>6, <1>9, <1>10, <1>11 DEF Typed

(* What once round the loop of _onData does to the buffer and the messages. *)
Consume(size) ==
  /\ size \in ValueOf(buf[1])
  /\ size \in 1..Len(buf)
  /\ applied' = Append(applied, Meaning(SubSeq(buf, 1, size)))
  /\ buf' = SubSeq(buf, size + 1, Len(buf))
  /\ parsing' = parsing /\ status' = status

LEMMA ParseOutcomes ==
  ASSUME Parse
  PROVE  /\ status = "runs"
         /\ sent' = sent /\ p' = p /\ len' = len /\ taken' = taken /\ cuts' = cuts /\ wire' = wire
         /\ \/ buf' = buf /\ applied' = applied /\ parsing' \in {FALSE, parsing} /\ status' \in Status
            \/ \E size \in 1..Len(buf) : Consume(size)
<1>1. /\ status = "runs"
      /\ sent' = sent /\ p' = p /\ len' = len /\ taken' = taken /\ cuts' = cuts /\ wire' = wire
  BY Zenon DEF Parse, sendVars
<1>2. CASE buf = << >>
  BY <1>1, <1>2 DEF Parse, Status
<1>3. CASE buf # << >>
  <2>1. PICK size \in ValueOf(buf[1]) :
          \/ parsing' = FALSE /\ UNCHANGED << buf, status, applied >>
          \/ status' = "hangs" /\ UNCHANGED << buf, parsing, applied >>
          \/ /\ size \in 1..Len(buf)
             /\ applied' = Append(applied, Meaning(SubSeq(buf, 1, size)))
             /\ buf' = SubSeq(buf, size + 1, Len(buf))
             /\ UNCHANGED << parsing, status >>
          \/ status' = "exited" /\ UNCHANGED << buf, parsing, applied >>
    BY <1>3, Zenon DEF Parse
  <2> QED  BY <1>1, <2>1 DEF Consume, Status
<1> QED  BY <1>2, <1>3

(* What the actions are called with is a message that was sent, or garbled. *)
LEMMA MeaningType ==
  ASSUME NEW bytes, Len(sent) \in Nat, DOMAIN sent = 1..Len(sent), \A m \in DOMAIN sent : sent[m] \in Nat /\ sent[m] > 0
  PROVE  Meaning(bytes) \in 0..Len(sent)
<1>1. CASE \E m \in DOMAIN sent : bytes = Bytes(m, 0, sent[m])
  <2>1. PICK m \in DOMAIN sent : bytes = Bytes(m, 0, sent[m])
    BY <1>1
  <2>2. bytes[1] = [msg |-> m, place |-> 0 + 1 - 1]
    BY <2>1 DEF Bytes
  <2>3. Meaning(bytes) = m
    BY <1>1, <2>2 DEF Meaning
  <2> QED  BY <2>3
<1>2. CASE ~ \E m \in DOMAIN sent : bytes = Bytes(m, 0, sent[m])
  BY <1>2 DEF Meaning, Garbled
<1> QED  BY <1>1, <1>2

LEMMA SentFacts ==
  ASSUME Typed
  PROVE  /\ Len(sent) \in Nat /\ DOMAIN sent = 1..Len(sent)
         /\ \A m \in DOMAIN sent : sent[m] \in Nat /\ sent[m] > 0
<1>1. sent \in Seq(Sizes)
  BY DEF Typed, TypeOK
<1>2. \A m \in 1..Len(sent) : sent[m] \in Sizes
  BY <1>1, SequenceDomain
<1> QED  BY <1>1, <1>2, SequenceDomain, SizesFacts

LEMMA TypesOfParse == Typed /\ Parse => Typed'
<1> SUFFICES ASSUME Typed, Parse PROVE Typed'
  OBVIOUS
<1>1. /\ status = "runs"
      /\ sent' = sent /\ p' = p /\ len' = len /\ taken' = taken /\ cuts' = cuts /\ wire' = wire
  BY ParseOutcomes
<1>2. TypeOK /\ SendInv /\ buf \in Seq(StreamByte) /\ wire \in Seq(StreamByte)
  BY DEF Typed
<1>3. Len(buf) \in Nat /\ Len(buf) < BufferSize
  BY <1>1, <1>2, SequenceDomain DEF TypeOK
<1>4. StreamByte' = StreamByte
  BY <1>1 DEF StreamByte
<1>5. CASE buf' = buf /\ applied' = applied /\ parsing' \in {FALSE, parsing} /\ status' \in Status
  <2>1. TypeOK'
    BY <1>1, <1>2, <1>3, <1>5 DEF TypeOK
  <2>2. SendInv'
    BY <1>1, <1>2 DEF SendInv
  <2> QED  BY <1>1, <1>2, <1>4, <1>5, <2>1, <2>2 DEF Typed
<1>6. CASE \E size \in 1..Len(buf) : Consume(size)
  <2>1. PICK size \in 1..Len(buf) : Consume(size)
    BY <1>6
  <2>2. buf' \in Seq(StreamByte) /\ Len(buf') = Len(buf) - size
    <3>1. size \in 0..Len(buf)
      BY <1>3
    <3> QED  BY <2>1, <3>1, <1>2, SplitFacts DEF Consume
  <2>3. Len(buf') < BufferSize
    BY <2>2, <1>3, SizesFacts
  <2>4. applied' \in Seq(0..Len(sent))
    <3>1. applied \in Seq(0..Len(sent)) /\ Meaning(SubSeq(buf, 1, size)) \in 0..Len(sent)
      BY <1>2, SentFacts, MeaningType DEF TypeOK
    <3> QED  BY <2>1, <3>1, AppendFacts DEF Consume
  <2>5. parsing' = parsing /\ status' = status
    BY <2>1 DEF Consume
  <2>6. TypeOK'
    BY <1>1, <1>2, <2>3, <2>4, <2>5 DEF TypeOK
  <2>7. SendInv'
    BY <1>1, <1>2, <2>5 DEF SendInv
  <2> QED  BY <1>1, <1>2, <1>4, <2>2, <2>6, <2>7 DEF Typed
<1> QED  BY <1>5, <1>6, ParseOutcomes

LEMMA TypesStep == Typed /\ [Next]_vars => Typed'
<1> SUFFICES ASSUME Typed, [Next]_vars PROVE Typed'
  OBVIOUS
<1>1. CASE UNCHANGED vars
  <2>1. /\ sent' = sent /\ p' = p /\ len' = len /\ taken' = taken /\ cuts' = cuts /\ wire' = wire
        /\ buf' = buf /\ parsing' = parsing /\ status' = status /\ applied' = applied
    BY <1>1 DEF vars, sendVars, clientVars
  <2> QED  BY <2>1 DEF Typed, TypeOK, SendInv, StreamByte
<1> QED  BY <1>1, TypesOfSendStart, TypesOfSendTakes, TypesOfSendReturns, TypesOfSendFails, TypesOfData, TypesOfParse DEF Next

-----------------------------------------------------------------------------
(* The stream, one action after the other.                                 *)

LEMMA StreamFacts ==
  ASSUME Typed
  PROVE  /\ len \in Nat /\ taken \in 0..len /\ p \in Nat /\ cuts \in Nat
         /\ Len(buf) \in Nat /\ DOMAIN buf = 1..Len(buf)
         /\ Len(wire) \in Nat /\ DOMAIN wire = 1..Len(wire)
         /\ Len(applied) \in Nat
         /\ \A i \in 1..Len(buf) : buf[i].msg \in 1..Len(sent) /\ buf[i].place \in Nat
                                   /\ buf[i] = [msg |-> buf[i].msg, place |-> buf[i].place]
         /\ \A j \in 1..Len(wire) : wire[j].msg \in 1..Len(sent) /\ wire[j].place \in Nat
<1>1. /\ TypeOK /\ buf \in Seq(StreamByte) /\ wire \in Seq(StreamByte)
      /\ applied \in Seq(0..Len(sent))
  BY DEF Typed, TypeOK
<1>2. \A i \in 1..Len(buf) : buf[i] \in StreamByte
  BY <1>1, SequenceDomain
<1>3. \A j \in 1..Len(wire) : wire[j] \in StreamByte
  BY <1>1, SequenceDomain
<1>4. len \in Nat /\ taken \in 0..len /\ p \in Nat /\ cuts \in Nat
  BY <1>1, DeliveryAssumption DEF TypeOK
<1>5. /\ Len(buf) \in Nat /\ DOMAIN buf = 1..Len(buf)
      /\ Len(wire) \in Nat /\ DOMAIN wire = 1..Len(wire)
      /\ Len(applied) \in Nat
  BY <1>1, SequenceDomain
<1> QED  BY <1>2, <1>3, <1>4, <1>5 DEF StreamByte

LEMMA StreamOfInit == Init => DeliveryInv
<1> SUFFICES ASSUME Init PROVE DeliveryInv
  OBVIOUS
<1> DEFINE start == [m \in Nat |-> 1]
<1>1. start \in [Nat -> Int]
  OBVIOUS
<1>2. StreamInv(start)
  <2>1. sent = << >> /\ len = 0 /\ taken = 0 /\ wire = << >> /\ buf = << >> /\ applied = << >>
    BY DEF Init
  <2>2. /\ Len(sent) = 0 /\ Len(applied) = 0 /\ Len(buf) = 0 /\ Len(wire) = 0
        /\ DOMAIN buf = {} /\ DOMAIN wire = {}
    BY <2>1
  <2>3. start[1] = 1
    OBVIOUS
  <2> QED  BY <2>1, <2>2, <2>3 DEF StreamInv
<1> HIDE DEF start
<1>3. Typed
  BY TypesOfInit
<1> QED  BY <1>1, <1>2, <1>3 DEF DeliveryInv

(* A message more: it begins where what was sent so far ends.              *)
LEMMA StreamOfSendStart ==
  ASSUME Typed, SendStart, NEW start \in [Nat -> Int], StreamInv(start)
  PROVE  \E next \in [Nat -> Int] : StreamInv(next)'
<1> DEFINE T == Len(sent)
           a == Len(applied)
<1>1. PICK size \in Sizes : sent' = Append(sent, size) /\ len' = size
  BY Zenon DEF SendStart
<1>2. len = 0 /\ taken' = taken /\ wire' = wire /\ buf' = buf /\ applied' = applied
  BY Zenon DEF SendStart, clientVars
<1>3. T \in Nat /\ a \in Nat /\ taken = 0 /\ Len(buf) \in Nat /\ Len(wire) \in Nat /\ size \in Nat
  BY <1>2, SentFacts, StreamFacts, SizesFacts
<1>4. /\ Len(sent') = T + 1 /\ sent'[T + 1] = size
      /\ \A m \in 1..T : sent'[m] = sent[m]
  <2>1. sent \in Seq(Sizes)
    BY DEF Typed, TypeOK
  <2> QED  BY <2>1, <1>1, AppendFacts
<1>5. /\ a <= T
      /\ start[a + 1] = 1
      /\ \A m \in (a + 1)..T : start[m + 1] = start[m] + sent[m]
      /\ \A m \in (a + 1)..T : \A o \in (m + 1)..(T + 1) : start[m] + sent[m] <= start[o]
      /\ start[T + 1] = Len(buf) + Len(wire) + 1
  BY <1>2, <1>3 DEF StreamInv
<1> DEFINE more == sent'
<1>0. T = Len(sent) /\ a = Len(applied) /\ more = sent'
  OBVIOUS
<1>51. /\ more[T + 1] = size
       /\ \A m \in 1..T : more[m] = sent[m] /\ sent[m] \in Nat
  BY <1>4, SentFacts
<1> HIDE DEF T, a, more
<1>6. PICK next \in [Nat -> Int] :
        /\ next[T + 2] = start[T + 1] + size
        /\ \A m \in 1..(T + 1) : next[m] = start[m]
  <2> DEFINE longer == [start EXCEPT ![T + 2] = start[T + 1] + size]
  <2>1. T + 1 \in Nat /\ T + 2 \in Nat
    BY <1>3
  <2>2. /\ longer \in [Nat -> Int]
        /\ longer[T + 2] = start[T + 1] + size
        /\ \A m \in 1..(T + 1) : longer[m] = start[m]
    BY <2>1, <1>3
  <2> QED  BY <2>2
<1>7. next[a + 1] = 1
  BY <1>3, <1>5, <1>6
<1>8. ASSUME NEW m \in (a + 1)..(T + 1)
      PROVE  next[m + 1] = next[m] + more[m]
  <2>1. CASE m = T + 1
    <3>1. m + 1 = T + 2
      BY <2>1, <1>3
    <3> QED  BY <2>1, <3>1, <1>3, <1>51, <1>6
  <2>2. CASE m # T + 1
    <3>1. m \in (a + 1)..T /\ m \in 1..T /\ m \in 1..(T + 1) /\ m + 1 \in 1..(T + 1)
      BY <2>2, <1>3
    <3> QED  BY <3>1, <1>51, <1>5, <1>6
  <2> QED  BY <2>1, <2>2
<1>9. ASSUME NEW m \in (a + 1)..(T + 1), NEW o \in (m + 1)..(T + 2)
      PROVE  next[m] + more[m] <= next[o]
  <2>0. start[T + 1] \in Int
    BY <1>3
  <2>1. CASE m = T + 1
    <3>1. o = T + 2
      BY <2>1, <1>3
    <3> QED  BY <2>0, <2>1, <3>1, <1>3, <1>51, <1>6
  <2>2. CASE m # T + 1
    <3>1. m \in (a + 1)..T /\ m \in 1..T /\ m \in 1..(T + 1)
      BY <2>2, <1>3
    <3>2. next[m] = start[m] /\ more[m] = sent[m] /\ start[m] \in Int /\ sent[m] \in Nat
      <4>1. m \in Nat
        BY <1>3
      <4> QED  BY <3>1, <4>1, <1>51, <1>6, SentFacts
    <3>3. CASE o = T + 2
      <4>1. T + 1 \in (m + 1)..(T + 1)
        BY <3>1, <1>3
      <4>2. start[m] + sent[m] <= start[T + 1]
        BY <3>1, <4>1, <1>5
      <4>3. next[o] = start[T + 1] + size
        BY <3>3, <1>6
      <4>4. size \in Nat
        BY <1>3
      <4>5. start[m] + sent[m] <= start[T + 1] + size
        BY <2>0, <3>2, <4>2, <4>4
      <4> QED  BY <3>2, <4>3, <4>5
    <3>4. CASE o # T + 2
      <4>1. o \in (m + 1)..(T + 1) /\ o \in 1..(T + 1)
        BY <3>1, <3>4, <1>3
      <4> QED  BY <3>1, <3>2, <4>1, <1>5, <1>6
    <3> QED  BY <3>3, <3>4
  <2> QED  BY <2>1, <2>2
<1>10. next[T + 2] = Len(buf) + Len(wire) + 1 + size
  BY <1>5, <1>6
<1>11. ASSUME NEW byte, byte.msg \in 1..T, NEW i, InPlace(byte, i, start)
       PROVE  /\ byte.msg > a
              /\ byte.place < more[byte.msg]
              /\ i = next[byte.msg] + byte.place
  <2>1. byte.msg \in 1..(T + 1)
    <3>1. T \in Nat
      BY <1>3
    <3>2. 1..T \subseteq 1..(T + 1)
      BY <3>1
    <3> QED  BY <3>2, <1>11
  <2> QED  BY <2>1, <1>0, <1>51, <1>6, <1>11 DEF InPlace
<1>12. \A i \in DOMAIN buf : InPlace(buf[i], i, next)'
  BY <1>0, <1>2, <1>11, StreamFacts DEF StreamInv, InPlace
<1>13. \A j \in DOMAIN wire : InPlace(wire[j], Len(buf) + j, next)'
  BY <1>0, <1>2, <1>11, StreamFacts DEF StreamInv, InPlace
<1>14. StreamInv(next)'
  <2>1. Len(applied') <= Len(sent') /\ next[Len(applied') + 1] = 1
    BY <1>0, <1>2, <1>3, <1>4, <1>5, <1>7
  <2>2. \A m \in (Len(applied') + 1)..Len(sent') : next[m + 1] = next[m] + sent'[m]
    BY <1>0, <1>2, <1>4, <1>8
  <2>3. \A m \in (Len(applied') + 1)..Len(sent') : \A o \in (m + 1)..(Len(sent') + 1) :
          next[m] + sent'[m] <= next[o]
    <3>1. Len(sent') + 1 = T + 2
      BY <1>0, <1>3, <1>4
    <3> QED  BY <3>1, <1>0, <1>2, <1>4, <1>9
  <2>4. next[Len(sent') + 1] = Len(buf') + Len(wire') + 1 + (len' - taken')
    <3>1. Len(sent') + 1 = T + 2
      BY <1>0, <1>3, <1>4
    <3> QED  BY <3>1, <1>0, <1>1, <1>2, <1>3, <1>10
  <2> QED  BY <2>1, <2>2, <2>3, <2>4, <1>2, <1>12, <1>13 DEF StreamInv
<1> QED  BY <1>6, <1>14

(* More of the last message in the stream, at the places after those that  *)
(* went before.                                                            *)
LEMMA StreamOfSendTakes ==
  ASSUME Typed, SendTakes, Sound, NEW start \in [Nat -> Int], StreamInv(start)
  PROVE  StreamInv(start)'
<1> DEFINE T == Len(sent)
           a == Len(applied)
           b == Len(buf)
           w == Len(wire)
<1>1. PICK n \in 1..(len - taken) : wire' = wire \o Bytes(T, p + taken, n) /\ taken' = taken + n
  BY Zenon DEF SendTakes
<1>2. sent' = sent /\ len' = len /\ buf' = buf /\ applied' = applied
  BY Zenon DEF SendTakes, clientVars
<1>3. /\ T \in Nat /\ a \in Nat /\ b \in Nat /\ w \in Nat /\ len \in Nat /\ taken \in Nat
      /\ n \in Nat /\ n > 0 /\ taken + n <= len /\ len > 0
  <2>1. T \in Nat /\ a \in Nat /\ b \in Nat /\ w \in Nat /\ len \in Nat /\ taken \in 0..len
    BY SentFacts, StreamFacts
  <2> HIDE DEF T, a, b, w
  <2> QED  BY <2>1, <1>1
<1>4. p = 0 /\ T > 0 /\ len = sent[T]
  BY <1>3 DEF Typed, SendInv, Sound
<1>5. /\ a <= T
      /\ start[a + 1] = 1
      /\ \A m \in (a + 1)..T : start[m + 1] = start[m] + sent[m]
      /\ start[T + 1] = b + w + 1 + (len - taken)
  BY DEF StreamInv
<1>6. /\ wire' \in Seq(StreamByte) /\ Len(wire') = w + n /\ DOMAIN wire' = 1..(w + n)
      /\ \A j \in 1..w : wire'[j] = wire[j]
      /\ \A k \in 1..n : wire'[w + k] = [msg |-> T, place |-> taken + k - 1]
  <2> DEFINE bytes == Bytes(T, p + taken, n)
  <2>1. Len(sent) \in 1..Len(sent) /\ p + taken = taken /\ p + taken \in Nat
    BY <1>3, <1>4
  <2>2. /\ bytes \in Seq(StreamByte) /\ Len(bytes) = n
        /\ \A k \in 1..n : bytes[k] = [msg |-> T, place |-> (p + taken) + k - 1]
    BY <2>1, <1>3, BytesFacts
  <2>3. wire \in Seq(StreamByte) /\ wire' = wire \o bytes
    BY <1>1 DEF Typed
  <2> HIDE DEF bytes
  <2>4. /\ wire' \in Seq(StreamByte) /\ Len(wire') = w + n
        /\ \A j \in 1..w : wire'[j] = wire[j]
        /\ \A k \in 1..n : wire'[w + k] = bytes[k]
    <3> HIDE DEF w
    <3>1. /\ wire \o bytes \in Seq(StreamByte)
          /\ Len(wire \o bytes) = Len(wire) + Len(bytes)
          /\ \A k \in 1..Len(wire) : (wire \o bytes)[k] = wire[k]
          /\ \A k \in 1..Len(bytes) : (wire \o bytes)[Len(wire) + k] = bytes[k]
      <4>1. wire \in Seq(StreamByte) /\ bytes \in Seq(StreamByte)
        BY <2>2, <2>3
      <4> HIDE DEF T, a, b
      <4>2. ASSUME NEW r \in Seq(StreamByte)
            PROVE  /\ wire \o r \in Seq(StreamByte)
                   /\ Len(wire \o r) = Len(wire) + Len(r)
                   /\ \A k \in 1..Len(wire) : (wire \o r)[k] = wire[k]
                   /\ \A k \in 1..Len(r) : (wire \o r)[Len(wire) + k] = r[k]
        BY <4>1, ConcatFacts
      <4> QED  BY <4>1, <4>2
    <3> QED  BY <2>2, <2>3, <3>1 DEF w
  <2>5. DOMAIN wire' = 1..(w + n)
    BY <2>4, SequenceDomain
  <2> QED  BY <2>1, <2>2, <2>4, <2>5
<1>0. T = Len(sent) /\ a = Len(applied) /\ b = Len(buf) /\ w = Len(wire) /\ b' = b
  BY <1>2
<1> HIDE DEF T, a, b, w
<1>7. start[T] = b + w + 1 - taken /\ T > a
  <2>1. start[T] \in Int
    BY <1>3
  <2>2. T # a
    BY <1>3, <1>5
  <2>3. T \in (a + 1)..T
    BY <2>2, <1>3, <1>5
  <2>4. start[T + 1] = start[T] + len
    BY <2>3, <1>4, <1>5
  <2> QED  BY <2>1, <2>2, <2>4, <1>3, <1>5
<1>8. ASSUME NEW j \in 1..(w + n)
      PROVE  InPlace(wire[j], b + j, start)'
  <2>1. CASE j \in 1..w
    <3>1. InPlace(wire[j], b + j, start)
      BY <2>1, <1>0, StreamFacts DEF StreamInv
    <3>2. wire'[j] = wire[j]
      BY <2>1, <1>6
    <3> QED  BY <3>1, <3>2, <1>0, <1>2 DEF InPlace
  <2>2. CASE j \notin 1..w
    <3>1. PICK k \in 1..n : j = w + k
      <4>1. j - w \in 1..n /\ j = w + (j - w)
        BY <2>2, <1>3
      <4> QED  BY <4>1
    <3>2. wire'[j].msg = T /\ wire'[j].place = taken + k - 1
      <4>1. wire'[w + k] = [msg |-> T, place |-> taken + k - 1]
        BY <1>6
      <4> QED  BY <3>1, <4>1
    <3>3. taken + k - 1 < sent[T] /\ b + j = start[T] + (taken + k - 1)
      BY <3>1, <1>3, <1>4, <1>7
    <3> QED  BY <3>2, <3>3, <1>0, <1>2, <1>7 DEF InPlace
  <2> QED  BY <2>1, <2>2
<1>9. start[T + 1] = b + (w + n) + 1 + (len - (taken + n))
  BY <1>3, <1>5
<1>10. \A i \in DOMAIN buf' : InPlace(buf[i], i, start)'
  BY <1>2 DEF StreamInv, InPlace
<1>11. \A j \in DOMAIN wire' : InPlace(wire[j], Len(buf) + j, start)'
  BY <1>0, <1>2, <1>6, <1>8
<1>12. start[Len(sent') + 1] = Len(buf') + Len(wire') + 1 + (len' - taken')
  BY <1>0, <1>1, <1>2, <1>6, <1>9
<1> QED  BY <1>2, <1>10, <1>11, <1>12 DEF StreamInv

(* The whole of a message was taken: nothing of it is left.                *)
LEMMA StreamOfSendReturns ==
  ASSUME Typed, SendReturns, Sound', NEW start \in [Nat -> Int], StreamInv(start)
  PROVE  StreamInv(start)'
<1>1. /\ len' = len - taken /\ taken' = 0
      /\ sent' = sent /\ wire' = wire /\ buf' = buf /\ applied' = applied
  BY Zenon DEF SendReturns, clientVars
<1>2. IF taken = len THEN cuts' = cuts ELSE cuts' = cuts + 1
  BY DEF SendReturns
<1>3. cuts' = 0 /\ len \in Nat /\ taken \in Nat /\ cuts \in Nat
  BY StreamFacts DEF Sound
<1>4. len' - taken' = len - taken
  BY <1>1, <1>3
<1> QED  BY <1>1, <1>4 DEF StreamInv, InPlace

(* The bytes pass from the stream to the buffer, in their places.          *)
LEMMA StreamOfData ==
  ASSUME Typed, Data, NEW start \in [Nat -> Int], StreamInv(start)
  PROVE  StreamInv(start)'
<1> DEFINE b == Len(buf)
           w == Len(wire)
<1>1. PICK n \in 1..w : wire' = SubSeq(wire, n + 1, w) /\ OnData(SubSeq(wire, 1, n))
  BY Zenon DEF Data
<1>2. /\ sent' = sent /\ len' = len /\ taken' = taken /\ applied' = applied
      /\ buf' = buf \o SubSeq(wire, 1, n)
  BY <1>1, Zenon DEF Data, sendVars, OnData
<1>3. b \in Nat /\ w \in Nat /\ n \in Nat /\ n <= w /\ n \in 0..w
  BY <1>1, StreamFacts
<1>4. buf \in Seq(StreamByte) /\ wire \in Seq(StreamByte)
  BY DEF Typed
<1>5. /\ SubSeq(wire, 1, n) \in Seq(StreamByte) /\ Len(SubSeq(wire, 1, n)) = n
      /\ \A k \in 1..n : SubSeq(wire, 1, n)[k] = wire[k]
      /\ wire' \in Seq(StreamByte) /\ Len(wire') = w - n
      /\ \A k \in 1..(w - n) : wire'[k] = wire[n + k]
  BY <1>1, <1>3, <1>4, SplitFacts
<1>6. /\ buf' \in Seq(StreamByte) /\ Len(buf') = b + n
      /\ \A i \in 1..b : buf'[i] = buf[i]
      /\ \A k \in 1..n : buf'[b + k] = wire[k]
  BY <1>2, <1>4, <1>5, ConcatFacts
<1>7. DOMAIN buf' = 1..(b + n) /\ DOMAIN wire' = 1..(w - n)
  BY <1>5, <1>6, SequenceDomain
<1>0. b = Len(buf) /\ w = Len(wire)
  OBVIOUS
<1> HIDE DEF b, w
<1>8. ASSUME NEW i \in 1..(b + n)
      PROVE  InPlace(buf[i], i, start)'
  <2>1. CASE i \in 1..b
    <3>1. InPlace(buf[i], i, start)
      BY <2>1, <1>0, StreamFacts DEF StreamInv
    <3> QED  BY <3>1, <2>1, <1>2, <1>6 DEF InPlace
  <2>2. CASE i \notin 1..b
    <3>1. PICK k \in 1..n : i = b + k
      <4>1. i - b \in 1..n /\ i = b + (i - b)
        BY <2>2, <1>3
      <4> QED  BY <4>1
    <3>2. InPlace(wire[k], b + k, start)
      <4>1. k \in DOMAIN wire
        BY <1>3, <1>0, StreamFacts
      <4> QED  BY <4>1, <1>0 DEF StreamInv
    <3>3. buf'[i] = wire[k]
      BY <3>1, <1>6
    <3> QED  BY <3>1, <3>2, <3>3, <1>2 DEF InPlace
  <2> QED  BY <2>1, <2>2
<1>9. ASSUME NEW j \in 1..(w - n)
      PROVE  InPlace(wire[j], Len(buf) + j, start)'
  <2>1. InPlace(wire[n + j], b + (n + j), start)
    <3>1. n + j \in DOMAIN wire
      <4>1. n + j \in 1..w
        BY <1>3
      <4> QED  BY <4>1, <1>0, StreamFacts
    <3> QED  BY <3>1, <1>0 DEF StreamInv
  <2>2. wire'[j] = wire[n + j] /\ Len(buf') + j = b + (n + j)
    <3>1. wire'[j] = wire[n + j]
      BY <1>5
    <3> QED  BY <3>1, <1>3, <1>6
  <2> QED  BY <2>1, <2>2, <1>2 DEF InPlace
<1>10. Len(buf') + Len(wire') = b + w
  BY <1>3, <1>5, <1>6
<1>11. start[Len(sent') + 1] = Len(buf') + Len(wire') + 1 + (len' - taken')
  BY <1>0, <1>2, <1>10 DEF StreamInv
<1> QED  BY <1>2, <1>7, <1>8, <1>9, <1>11 DEF StreamInv

(* What comes first in a buffer is the first message not applied, of which *)
(* the first byte is the length, and only the bytes of it lie within that  *)
(* length.                                                                 *)
LEMMA FirstInBuffer ==
  ASSUME Typed, NEW start \in [Nat -> Int], StreamInv(start),
         NEW size \in 1..Len(buf), size \in ValueOf(buf[1])
  PROVE  /\ Len(applied) + 1 \in 1..Len(sent)
         /\ size = sent[Len(applied) + 1]
         /\ Meaning(SubSeq(buf, 1, size)) = Len(applied) + 1
         /\ \A m \in (Len(applied) + 2)..Len(sent) : 1 + size <= start[m]
<1> DEFINE T == Len(sent)
           first == Len(applied) + 1
           b == Len(buf)
<1>1. /\ T \in Nat /\ first \in Nat /\ first > 0 /\ b \in Nat /\ size \in Nat /\ size > 0 /\ size <= b
      /\ DOMAIN sent = 1..T /\ \A m \in 1..T : sent[m] \in Nat /\ sent[m] > 0
  <2>1. T \in Nat /\ Len(applied) \in Nat /\ b \in Nat
    BY SentFacts, StreamFacts
  <2>2. DOMAIN sent = 1..T /\ \A m \in 1..T : sent[m] \in Nat /\ sent[m] > 0
    BY SentFacts
  <2> QED  BY <2>1, <2>2
<1>2. /\ start[first] = 1
      /\ \A m \in first..T : \A o \in (m + 1)..(T + 1) : start[m] + sent[m] <= start[o]
  BY DEF StreamInv
<1>3. \A i \in 1..b : /\ buf[i].msg \in 1..T /\ buf[i].place \in Nat
                      /\ buf[i] = [msg |-> buf[i].msg, place |-> buf[i].place]
  BY StreamFacts
<1>4. \A i \in 1..b : /\ buf[i].msg >= first
                      /\ buf[i].place < sent[buf[i].msg]
                      /\ i = start[buf[i].msg] + buf[i].place
  <2>1. Len(applied) \in Nat
    BY StreamFacts
  <2> SUFFICES ASSUME NEW i \in 1..b
               PROVE  /\ buf[i].msg >= first
                      /\ buf[i].place < sent[buf[i].msg]
                      /\ i = start[buf[i].msg] + buf[i].place
    OBVIOUS
  <2>2. InPlace(buf[i], i, start)
    BY StreamFacts DEF StreamInv
  <2>3. buf[i].msg \in Nat /\ buf[i].msg > Len(applied)
    <3>1. buf[i].msg \in Nat
      <4>1. buf[i].msg \in 1..T /\ T \in Nat
        BY <1>1, <1>3
      <4> HIDE DEF T
      <4>2. 1..T \subseteq Nat
        BY <4>1
      <4> QED  BY <4>1, <4>2
    <3> QED  BY <2>2, <3>1 DEF InPlace
  <2>4. buf[i].msg >= first
    BY <2>1, <2>3
  <2> QED  BY <2>2, <2>4 DEF InPlace
<1>0. T = Len(sent) /\ first = Len(applied) + 1 /\ b = Len(buf)
  OBVIOUS
<1> HIDE DEF T, first, b
<1>5. buf[1].msg = first /\ buf[1].place = 0
  <2>1. 1 \in 1..b
    BY <1>1
  <2> DEFINE m == buf[1].msg
  <2>2. m \in 1..T /\ m >= first /\ buf[1].place \in Nat /\ 1 = start[m] + buf[1].place
    BY <2>1, <1>3, <1>4
  <2> HIDE DEF m
  <2>3. m \in Nat /\ start[m] \in Int
    BY <2>2, <1>1
  <2>4. ~(m > first)
    <3> SUFFICES ASSUME m > first PROVE FALSE
      OBVIOUS
    <3>1. first \in first..T /\ m \in (first + 1)..(T + 1) /\ first \in 1..T
      BY <2>2, <2>3, <1>1
    <3>2. start[first] + sent[first] <= start[m]
      BY <3>1, <1>2
    <3>3. sent[first] \in Nat /\ sent[first] > 0
      BY <3>1, <1>1
    <3> QED  BY <3>2, <3>3, <2>2, <2>3, <1>2
  <2>5. m = first
    BY <2>2, <2>3, <2>4, <1>1
  <2>6. buf[1].place = 0
    BY <2>2, <2>5, <1>2
  <2> QED  BY <2>5, <2>6 DEF m
<1>6. first \in 1..T
  <2>1. 1 \in 1..b
    BY <1>1
  <2> QED  BY <2>1, <1>3, <1>5
<1>7. size = sent[first]
  BY <1>5 DEF ValueOf
<1>8. ASSUME NEW m \in (first + 1)..T
      PROVE  1 + size <= start[m]
  <2>1. first \in first..T /\ m \in (first + 1)..(T + 1)
    BY <1>1, <1>6
  <2> QED  BY <2>1, <1>2, <1>7
<1>9. ASSUME NEW k \in 1..size
      PROVE  buf[k] = [msg |-> first, place |-> 0 + k - 1]
  <2>1. k \in 1..b /\ k \in Nat /\ k <= size
    BY <1>1
  <2> DEFINE m == buf[k].msg
             place == buf[k].place
  <2>2. /\ m \in 1..T /\ m >= first /\ place \in Nat /\ k = start[m] + place
        /\ buf[k] = [msg |-> m, place |-> place]
    BY <2>1, <1>3, <1>4
  <2> HIDE DEF m, place
  <2>3. m \in Nat /\ start[m] \in Int
    BY <2>2, <1>1
  <2>4. ~(m > first)
    <3> SUFFICES ASSUME m > first PROVE FALSE
      OBVIOUS
    <3>1. m \in (first + 1)..T
      BY <2>2, <2>3, <1>1
    <3>2. 1 + size <= start[m]
      BY <3>1, <1>8
    <3> QED  BY <3>2, <2>1, <2>2, <2>3, <1>1
  <2>5. m = first
    BY <2>2, <2>3, <2>4, <1>1
  <2>6. place = 0 + k - 1
    BY <2>1, <2>2, <2>5, <1>2
  <2> QED  BY <2>2, <2>5, <2>6
<1>10. Meaning(SubSeq(buf, 1, size)) = first
  <2> DEFINE bytes == SubSeq(buf, 1, size)
  <2>1. bytes = Bytes(first, 0, sent[first])
    <3>1. buf \in Seq(StreamByte) /\ size \in 0..Len(buf)
      BY <1>0, <1>1 DEF Typed
    <3>2. bytes \in Seq(StreamByte) /\ Len(bytes) = size /\ \A k \in 1..size : bytes[k] = buf[k]
      BY <3>1, SplitFacts
    <3> HIDE DEF bytes
    <3>3. DOMAIN bytes = 1..size /\ bytes = [k \in 1..size |-> bytes[k]]
      BY <3>2, SequenceDomain
    <3>4. bytes = [k \in 1..size |-> [msg |-> first, place |-> 0 + k - 1]]
      BY <3>2, <3>3, <1>9
    <3> QED  BY <3>4, <1>7 DEF Bytes
  <2>2. first \in DOMAIN sent
    BY <1>1, <1>6
  <2>3. bytes[1] = [msg |-> first, place |-> 0 + 1 - 1]
    <3>1. 1 \in 1..sent[first]
      BY <1>1, <1>7
    <3> HIDE DEF bytes
    <3> QED  BY <2>1, <3>1 DEF Bytes
  <2> HIDE DEF bytes
  <2>4. Meaning(bytes) = first
    BY <2>1, <2>2, <2>3 DEF Meaning
  <2> QED  BY <2>4 DEF bytes
<1>11. \A m \in (Len(applied) + 2)..Len(sent) : 1 + size <= start[m]
  <2>1. Len(applied) + 2 = first + 1
    BY <1>0, StreamFacts
  <2> QED  BY <2>1, <1>0, <1>8
<1> QED  BY <1>0, <1>6, <1>7, <1>10, <1>11

(* Once the message that comes first is cut off, the next one does.        *)
LEMMA StreamOfConsume ==
  ASSUME Typed, Parse, NEW start \in [Nat -> Int], StreamInv(start),
         NEW size \in 1..Len(buf), Consume(size)
  PROVE  \E next \in [Nat -> Int] : StreamInv(next)'
<1> DEFINE T == Len(sent)
           a == Len(applied)
           b == Len(buf)
           w == Len(wire)
<1>1. /\ sent' = sent /\ len' = len /\ taken' = taken /\ wire' = wire
      /\ size \in ValueOf(buf[1])
      /\ applied' = Append(applied, Meaning(SubSeq(buf, 1, size)))
      /\ buf' = SubSeq(buf, size + 1, b)
  BY ParseOutcomes DEF Consume
<1>2. /\ T \in Nat /\ a \in Nat /\ b \in Nat /\ w \in Nat /\ size \in Nat /\ size > 0 /\ size <= b
      /\ \A m \in 1..T : sent[m] \in Nat
  <2>1. T \in Nat /\ a \in Nat /\ b \in Nat /\ w \in Nat
    BY SentFacts, StreamFacts
  <2>2. \A m \in 1..T : sent[m] \in Nat
    BY SentFacts
  <2> HIDE DEF T, a, w
  <2> QED  BY <2>1, <2>2
<1>3. /\ a + 1 \in 1..T /\ size = sent[a + 1]
      /\ Meaning(SubSeq(buf, 1, size)) = a + 1
      /\ \A m \in (a + 2)..T : 1 + size <= start[m]
  BY <1>1, FirstInBuffer
<1>4. Len(applied') = a + 1
  <2>1. applied \in Seq(0..Len(sent)) /\ a + 1 \in 0..Len(sent)
    <3>1. a + 1 \in 0..T
      BY <1>2, <1>3
    <3> QED  BY <3>1 DEF Typed, TypeOK
  <2>2. applied' = Append(applied, a + 1)
    BY <1>1, <1>3
  <2> QED  BY <2>1, <2>2, AppendFacts
<1>5. /\ buf' \in Seq(StreamByte) /\ Len(buf') = b - size /\ DOMAIN buf' = 1..(b - size)
      /\ \A k \in 1..(b - size) : buf'[k] = buf[size + k]
  <2>1. buf \in Seq(StreamByte) /\ size \in 0..Len(buf)
    BY <1>2 DEF Typed
  <2>2. /\ buf' \in Seq(StreamByte) /\ Len(buf') = b - size
        /\ \A k \in 1..(b - size) : buf'[k] = buf[size + k]
    BY <1>1, <2>1, SplitFacts
  <2>3. DOMAIN buf' = 1..Len(buf')
    BY <2>2, SequenceDomain
  <2> QED  BY <2>2, <2>3
<1>6. /\ start[a + 1] = 1
      /\ \A m \in (a + 1)..T : start[m + 1] = start[m] + sent[m]
      /\ \A m \in (a + 1)..T : \A o \in (m + 1)..(T + 1) : start[m] + sent[m] <= start[o]
      /\ start[T + 1] = b + w + 1 + (len - taken)
  BY DEF StreamInv
<1>7. PICK next \in [Nat -> Int] : \A m \in Nat : next[m] = start[m] - size
  <2> DEFINE moved == [m \in Nat |-> start[m] - size]
  <2>1. moved \in [Nat -> Int] /\ \A m \in Nat : moved[m] = start[m] - size
    BY <1>2
  <2> QED  BY <2>1
<1>8. \A i \in DOMAIN buf : InPlace(buf[i], i, start) /\ buf[i].msg \in 1..T /\ buf[i].place \in Nat
  BY StreamFacts DEF StreamInv
<1>9. \A j \in DOMAIN wire : InPlace(wire[j], b + j, start) /\ wire[j].msg \in 1..T /\ wire[j].place \in Nat
  BY StreamFacts DEF StreamInv
<1>0. T = Len(sent) /\ a = Len(applied) /\ b = Len(buf) /\ w = Len(wire)
      /\ DOMAIN buf = 1..b /\ DOMAIN wire = 1..w
  BY StreamFacts
<1> HIDE DEF T, a, b, w
(* A byte beyond the first message stays, and is nearer by its length. *)
<1>10. ASSUME NEW byte, byte.msg \in 1..T, byte.place \in Nat,
              NEW i \in Nat, i > size, InPlace(byte, i, start)
       PROVE  /\ byte.msg > a + 1
              /\ byte.place < sent[byte.msg]
              /\ i - size = next[byte.msg] + byte.place
  <2> DEFINE m == byte.msg
             place == byte.place
  <2>1. m \in 1..T /\ place \in Nat
    BY <1>10
  <2>2. m > a /\ place < sent[m] /\ i = start[m] + place
    BY <1>0, <1>10 DEF InPlace
  <2> HIDE DEF m, place
  <2>3. m \in Nat /\ start[m] \in Int
    BY <2>1, <1>2
  <2>4. m # a + 1
    <3> SUFFICES ASSUME m = a + 1 PROVE FALSE
      OBVIOUS
    <3>1. i = 1 + place /\ place < size
      BY <2>2, <1>3, <1>6
    <3> QED  BY <3>1, <2>1, <1>2, <1>10
  <2>5. m > a + 1
    BY <2>2, <2>3, <2>4, <1>2
  <2>6. i - size = next[m] + place
    <3>1. next[m] = start[m] - size
      BY <2>3, <1>7
    <3> QED  BY <3>1, <2>1, <2>2, <2>3, <1>2
  <2> QED  BY <2>2, <2>5, <2>6 DEF m, place
<1>11. ASSUME NEW i \in 1..(b - size)
       PROVE  InPlace(buf[i], i, next)'
  <2>1. size + i \in 1..b /\ size + i \in Nat /\ size + i > size /\ (size + i) - size = i
    BY <1>2
  <2>2. /\ buf[size + i].msg > a + 1
        /\ buf[size + i].place < sent[buf[size + i].msg]
        /\ i = next[buf[size + i].msg] + buf[size + i].place
    <3>1. InPlace(buf[size + i], size + i, start) /\ buf[size + i].msg \in 1..T /\ buf[size + i].place \in Nat
      BY <2>1, <1>0, <1>8
    <3> QED  BY <3>1, <2>1, <1>10
  <2>3. buf'[i] = buf[size + i]
    BY <1>5
  <2> QED  BY <2>2, <2>3, <1>1, <1>4 DEF InPlace
<1>12. ASSUME NEW j \in 1..w
       PROVE  InPlace(wire[j], Len(buf) + j, next)'
  <2>1. j \in Nat /\ b + j \in Nat /\ b + j > size /\ (b + j) - size = (b - size) + j
    BY <1>2
  <2>2. /\ wire[j].msg > a + 1
        /\ wire[j].place < sent[wire[j].msg]
        /\ (b - size) + j = next[wire[j].msg] + wire[j].place
    <3>1. InPlace(wire[j], b + j, start) /\ wire[j].msg \in 1..T /\ wire[j].place \in Nat
      BY <1>0, <1>9
    <3> QED  BY <3>1, <2>1, <1>10
  <2> QED  BY <2>2, <1>1, <1>4, <1>5 DEF InPlace
<1>13. next[a + 2] = 1
  <2>1. a + 1 \in (a + 1)..T /\ (a + 1) + 1 = a + 2 /\ a + 2 \in Nat
    BY <1>2, <1>3
  <2>2. start[a + 2] = 1 + size
    BY <2>1, <1>3, <1>6
  <2>3. next[a + 2] = start[a + 2] - size
    BY <2>1, <1>7
  <2> QED  BY <2>2, <2>3, <1>2
<1>14. ASSUME NEW m \in (a + 2)..T
       PROVE  next[m + 1] = next[m] + sent[m]
  <2>1. m \in Nat /\ m + 1 \in Nat /\ m \in (a + 1)..T /\ m \in 1..T
    BY <1>2
  <2>2. /\ start[m + 1] = start[m] + sent[m]
        /\ next[m + 1] = start[m + 1] - size /\ next[m] = start[m] - size
        /\ start[m] \in Int /\ sent[m] \in Nat
    BY <2>1, <1>2, <1>6, <1>7
  <2> QED  BY <2>2, <1>2
<1>15. ASSUME NEW m \in (a + 2)..T, NEW o \in (m + 1)..(T + 1)
       PROVE  next[m] + sent[m] <= next[o]
  <2>1. m \in Nat /\ o \in Nat /\ m \in (a + 1)..T /\ m \in 1..T
    BY <1>2
  <2>2. /\ start[m] + sent[m] <= start[o]
        /\ next[m] = start[m] - size /\ next[o] = start[o] - size
        /\ start[m] \in Int /\ start[o] \in Int /\ sent[m] \in Nat
    BY <2>1, <1>2, <1>6, <1>7
  <2>3. size \in Int
    BY <1>2
  <2>4. (start[m] - size) + sent[m] <= start[o] - size
    <3>1. \A x, y, z \in Int : x + y <= z => (x - size) + y <= z - size
      BY <2>3
    <3>2. start[m] \in Int /\ sent[m] \in Int /\ start[o] \in Int
      BY <2>2
    <3>3. start[m] + sent[m] <= start[o]
      BY <2>2
    <3> QED  BY <3>1, <3>2, <3>3, Zenon
  <2> QED  BY <2>2, <2>4
<1>16. next[T + 1] = (b - size) + w + 1 + (len - taken)
  <2>1. T + 1 \in Nat
    BY <1>2
  <2>2. next[T + 1] = start[T + 1] - size
    BY <2>1, <1>7
  <2>3. len \in Int /\ taken \in Int
    BY StreamFacts
  <2> QED  BY <2>2, <2>3, <1>2, <1>6
<1>17. (a + 1) + 1 = a + 2 /\ a + 1 <= T
  BY <1>2, <1>3
<1>18. Len(sent') = T /\ Len(applied') + 1 = a + 2
  BY <1>0, <1>1, <1>4, <1>17
<1>19. Len(applied') <= Len(sent') /\ next[Len(applied') + 1] = 1
  BY <1>4, <1>13, <1>17, <1>18
<1>20. /\ \A m \in (Len(applied') + 1)..Len(sent') : next[m + 1] = next[m] + sent'[m]
       /\ \A m \in (Len(applied') + 1)..Len(sent') : \A o \in (m + 1)..(Len(sent') + 1) :
            next[m] + sent'[m] <= next[o]
  BY <1>1, <1>14, <1>15, <1>18
<1>21. next[Len(sent') + 1] = Len(buf') + Len(wire') + 1 + (len' - taken')
  BY <1>0, <1>1, <1>5, <1>16, <1>18
<1>22. \A i \in DOMAIN buf' : InPlace(buf[i], i, next)'
  BY <1>5, <1>11
<1>23. \A j \in DOMAIN wire' : InPlace(wire[j], Len(buf) + j, next)'
  BY <1>0, <1>1, <1>12
<1>24. StreamInv(next)'
  BY <1>19, <1>20, <1>21, <1>22, <1>23 DEF StreamInv
<1> QED  BY <1>24

-----------------------------------------------------------------------------
(* The invariance, and the refinement.                                     *)

(* A send that took a part is not undone, nor does a client come back.     *)
LEMMA SoundBefore ==
  ASSUME Typed, [Next]_vars, Sound'
  PROVE  Sound
<1>1. cuts \in Nat /\ cuts' = 0 /\ status' = "runs"
  BY StreamFacts DEF Sound
<1>2. SendStart \/ SendTakes \/ UNCHANGED vars => cuts' = cuts /\ status' = status
  BY Zenon DEF SendStart, SendTakes, vars, sendVars, clientVars
<1>3. SendReturns => status' = status /\ (cuts' = cuts \/ cuts' = cuts + 1)
  <2>1. SendReturns => status' = status
    BY Zenon DEF SendReturns, clientVars
  <2>2. SendReturns => cuts' = cuts \/ cuts' = cuts + 1
    BY DEF SendReturns
  <2> QED  BY <2>1, <2>2
<1>4. SendFails => status' = "exited"
  BY Zenon DEF SendFails, clientVars
<1>5. Data => status = "runs" /\ cuts' = cuts
  BY Zenon DEF Data, sendVars
<1>6. Parse => status = "runs" /\ cuts' = cuts
  BY ParseOutcomes
<1> QED  BY <1>1, <1>2, <1>3, <1>4, <1>5, <1>6 DEF Next, Sound

LEMMA DeliveryStep == DeliveryInv /\ [Next]_vars => DeliveryInv'
<1> SUFFICES ASSUME DeliveryInv, [Next]_vars, Sound'
             PROVE  (\E start \in [Nat -> Int] : StreamInv(start))'
  BY TypesStep DEF DeliveryInv
<1>1. Typed /\ Sound
  BY SoundBefore DEF DeliveryInv
<1>2. PICK start \in [Nat -> Int] : StreamInv(start)
  BY <1>1 DEF DeliveryInv
<1>3. CASE SendStart
  BY <1>1, <1>2, <1>3, StreamOfSendStart
<1>4. CASE SendTakes
  BY <1>1, <1>2, <1>4, StreamOfSendTakes
<1>5. CASE SendReturns
  BY <1>1, <1>2, <1>5, StreamOfSendReturns
<1>6. CASE SendFails
  <2>1. status = "exited"
    BY <1>6 DEF SendFails
  <2> QED  BY <1>1, <2>1 DEF Sound
<1>7. CASE Data
  BY <1>1, <1>2, <1>7, StreamOfData
<1>8. CASE Parse
  <2>1. CASE buf' = buf /\ applied' = applied
    <3>1. /\ sent' = sent /\ len' = len /\ taken' = taken /\ wire' = wire
          /\ buf' = buf /\ applied' = applied
      BY <1>8, <2>1, ParseOutcomes
    <3> QED  BY <1>2, <3>1 DEF StreamInv, InPlace
  <2>2. CASE \E size \in 1..Len(buf) : Consume(size)
    BY <1>1, <1>2, <1>8, <2>2, StreamOfConsume
  <2> QED  BY <1>8, <2>1, <2>2, ParseOutcomes
<1>9. CASE UNCHANGED vars
  <2>1. /\ sent' = sent /\ len' = len /\ taken' = taken /\ wire' = wire
        /\ buf' = buf /\ applied' = applied
    BY <1>9 DEF vars, sendVars, clientVars
  <2> QED  BY <1>2, <2>1 DEF StreamInv, InPlace
<1> QED  BY <1>3, <1>4, <1>5, <1>6, <1>7, <1>8, <1>9 DEF Next

(* Until send has taken a part or the client has given up, the stream and  *)
(* the buffer of the client hold the messages it has not applied, one      *)
(* after the other from the first byte of the buffer on; whatever the      *)
(* pieces they come in.                                                    *)
THEOREM DeliveryInvariance == Spec => []DeliveryInv
<1> QED  BY StreamOfInit, DeliveryStep, PTL DEF Spec

(* tcp_send never has a place or a rest outside of its buffer, and the     *)
(* client that goes on never has a full one.                               *)
THEOREM DeliveryTypeCorrect == Spec => []TypeOK
<1>1. DeliveryInv => TypeOK
  BY DEF DeliveryInv, Typed
<1> QED  BY <1>1, DeliveryInvariance, PTL

(* The queue of the channel: the messages sent and not yet applied.        *)
Due == IF Sound THEN [k \in 1..(Len(sent) - Len(applied)) |-> Len(applied) + k] ELSE << >>

LEMMA DueFacts ==
  ASSUME NEW T \in Nat, NEW a \in 0..T,
         NEW due, due = [k \in 1..(T - a) |-> a + k]
  PROVE  /\ due \in Seq(Nat) /\ Len(due) = T - a
         /\ [k \in 1..((T + 1) - a) |-> a + k] = Append(due, T + 1)
         /\ a < T => /\ due # << >> /\ Head(due) = a + 1
                     /\ [k \in 1..(T - (a + 1)) |-> (a + 1) + k] = Tail(due)
<1>1. due \in Seq(Nat) /\ Len(due) = T - a /\ \A k \in 1..(T - a) : due[k] = a + k
  <2>1. T - a \in Nat /\ \A k \in 1..(T - a) : a + k \in Nat
    OBVIOUS
  <2>2. due \in [1..(T - a) -> Nat]
    BY <2>1
  <2> QED  BY <2>1, <2>2
<1>2. [k \in 1..((T + 1) - a) |-> a + k] = Append(due, T + 1)
  <2>1. T + 1 \in Nat
    OBVIOUS
  <2>2. /\ Append(due, T + 1) \in Seq(Nat) /\ Len(Append(due, T + 1)) = (T - a) + 1
        /\ \A k \in 1..(T - a) : Append(due, T + 1)[k] = a + k
        /\ Append(due, T + 1)[(T - a) + 1] = T + 1
    BY <2>1, <1>1, AppendFacts
  <2>3. DOMAIN Append(due, T + 1) = 1..((T + 1) - a)
    <3>1. DOMAIN Append(due, T + 1) = 1..Len(Append(due, T + 1))
      BY <2>2, SequenceDomain
    <3>2. (T - a) + 1 = (T + 1) - a
      OBVIOUS
    <3> QED  BY <3>1, <3>2, <2>2
  <2>4. \A k \in 1..((T + 1) - a) : Append(due, T + 1)[k] = a + k
    <3> SUFFICES ASSUME NEW k \in 1..((T + 1) - a) PROVE Append(due, T + 1)[k] = a + k
      OBVIOUS
    <3>1. k \in 1..(T - a) \/ (k = (T - a) + 1 /\ a + k = T + 1)
      OBVIOUS
    <3> QED  BY <3>1, <2>2
  <2>5. Append(due, T + 1) = [k \in 1..((T + 1) - a) |-> Append(due, T + 1)[k]]
    BY <2>2, <2>3, SequenceDomain
  <2> QED  BY <2>4, <2>5
<1>3. ASSUME a < T
      PROVE  /\ due # << >> /\ Head(due) = a + 1
             /\ [k \in 1..(T - (a + 1)) |-> (a + 1) + k] = Tail(due)
  <2>1. Len(due) \in Nat /\ Len(due) > 0 /\ 1 \in 1..(T - a)
    BY <1>1, <1>3
  <2>2. due # << >> /\ Head(due) = due[1]
    BY <1>1, <2>1
  <2>3. due[1] = a + 1
    BY <1>1, <2>1
  <2>4. /\ Tail(due) \in Seq(Nat) /\ Len(Tail(due)) = Len(due) - 1
        /\ \A k \in 1..(Len(due) - 1) : Tail(due)[k] = due[k + 1]
    BY <1>1, <2>2, TailFacts
  <2>5. DOMAIN Tail(due) = 1..(T - (a + 1)) /\ Len(due) - 1 = T - (a + 1)
    BY <1>1, <2>1, <2>4, SequenceDomain
  <2>6. \A k \in 1..(T - (a + 1)) : Tail(due)[k] = (a + 1) + k
    <3> SUFFICES ASSUME NEW k \in 1..(T - (a + 1)) PROVE Tail(due)[k] = (a + 1) + k
      OBVIOUS
    <3>1. k + 1 \in 1..(T - a) /\ a + (k + 1) = (a + 1) + k
      OBVIOUS
    <3> QED  BY <3>1, <1>1, <2>4, <2>5
  <2>7. Tail(due) = [k \in 1..(T - (a + 1)) |-> Tail(due)[k]]
    BY <2>4, <2>5
  <2> QED  BY <2>2, <2>3, <2>6, <2>7
<1> QED  BY <1>1, <1>2, <1>3

(* The steps that give tcp_send a message or call an action of the client; *)
(* no other changes what is due.                                           *)
LEMMA StepsOfTheChannel ==
  ASSUME [Next]_vars
  PROVE  \/ sent' = sent /\ applied' = applied
         \/ SendStart
         \/ Parse /\ \E size \in 1..Len(buf) : Consume(size)
<1>1. SendTakes \/ SendReturns \/ SendFails \/ UNCHANGED vars => sent' = sent /\ applied' = applied
  BY Zenon DEF SendTakes, SendReturns, SendFails, vars, sendVars, clientVars
<1>2. Data => sent' = sent /\ applied' = applied
  BY Zenon DEF Data, sendVars, OnData
<1>3. Parse => (sent' = sent /\ applied' = applied) \/ \E size \in 1..Len(buf) : Consume(size)
  BY ParseOutcomes
<1> QED  BY <1>1, <1>2, <1>3 DEF Next

LEMMA DeliverySends ==
  ASSUME DeliveryInv, SendStart, Sound
  PROVE  \E m \in 1..MaxMessages : Way!Send(m)
<1> DEFINE T == Len(sent)
           a == Len(applied)
<1>1. PICK size \in Sizes : sent' = Append(sent, size)
  BY Zenon DEF SendStart
<1>2. /\ applied' = applied /\ Len(sent) < MaxMessages
      /\ Sound' = Sound
  BY Zenon DEF SendStart, clientVars, Sound
<1>3. T \in Nat /\ a \in 0..T /\ T + 1 \in 1..MaxMessages /\ Len(sent') = T + 1
  <2>1. sent \in Seq(Sizes) /\ T \in Nat /\ a \in Nat
    BY SentFacts, StreamFacts DEF DeliveryInv, Typed, TypeOK
  <2>2. Len(sent') = T + 1
    BY <1>1, <2>1, AppendFacts
  <2>3. a <= T
    BY DEF DeliveryInv, StreamInv
  <2>4. T < MaxMessages
    BY <1>2
  <2> HIDE DEF T, a
  <2> QED  BY <2>1, <2>2, <2>3, <2>4, DeliveryAssumption
<1>4. Due = [k \in 1..(T - a) |-> a + k]
  BY DEF Due
<1>5. Due' = [k \in 1..((T + 1) - a) |-> a + k]
  BY <1>2, <1>3 DEF Due
<1>6. Due' = Append(Due, T + 1)
  BY <1>3, <1>4, <1>5, DueFacts
<1>7. PICK m : m = T + 1
  OBVIOUS
<1>8. m \in 1..MaxMessages
  BY <1>3, <1>7
<1>9. Way!Send(m)
  BY <1>2, <1>6, <1>7 DEF Way!Send, Due
<1> QED  BY <1>8, <1>9

LEMMA DeliveryReceives ==
  ASSUME DeliveryInv, Parse, Sound, NEW size \in 1..Len(buf), Consume(size)
  PROVE  Way!Receive
<1> DEFINE T == Len(sent)
           a == Len(applied)
<1>1. PICK start \in [Nat -> Int] : StreamInv(start)
  BY DEF DeliveryInv
<1>2. Typed
  BY DEF DeliveryInv
<1>3. /\ a + 1 \in 1..T
      /\ applied' = Append(applied, a + 1)
  BY <1>1, <1>2, FirstInBuffer DEF Consume
<1>4. sent' = sent /\ Sound' = Sound
  BY ParseOutcomes DEF Consume, Sound
<1>5. T \in Nat /\ a \in 0..T /\ a < T /\ Len(applied') = a + 1
  <2>1. applied \in Seq(0..T) /\ a \in Nat /\ T \in Nat
    BY <1>2, SentFacts, StreamFacts DEF Typed, TypeOK
  <2> HIDE DEF T
  <2>2. a + 1 \in 0..T
    BY <1>3, <2>1
  <2>3. Len(applied') = a + 1
    BY <1>3, <2>1, <2>2, AppendFacts
  <2> HIDE DEF a
  <2> QED  BY <1>3, <2>1, <2>3
<1>6. Due = [k \in 1..(T - a) |-> a + k]
  BY DEF Due
<1>7. Due' = [k \in 1..(T - (a + 1)) |-> (a + 1) + k]
  BY <1>4, <1>5 DEF Due
<1>8. Due # << >> /\ Head(Due) = a + 1 /\ Due' = Tail(Due)
  BY <1>5, <1>6, <1>7, DueFacts
<1> QED  BY <1>3, <1>4, <1>8 DEF Way!Receive, Due

(* However a stream is cut into pieces and whatever the messages, the      *)
(* client calls its actions for each message once, whole and in the order  *)
(* tcp_send was given them, until a send has taken a part or the client    *)
(* has given up: tcp_send with _onData implements the channel that Service *)
(* takes for granted.                                                      *)
THEOREM DeliveryImplementsChannel == Spec => ImplementsChannel
<1>1. Init => Way!ChanInit
  <2> SUFFICES ASSUME Init PROVE Way!ChanInit
    OBVIOUS
  <2>1. sent = << >> /\ applied = << >> /\ Sound
    BY DEF Init, Sound
  <2>2. Due = << >>
    <3>1. Due = [k \in 1..(0 - 0) |-> 0 + k]
      BY <2>1 DEF Due
    <3> QED  BY <3>1
  <2> QED  BY <2>1, <2>2 DEF Way!ChanInit, Due
<1>2. DeliveryInv /\ [Next]_vars => [Way!ChanNext]_(Way!chanVars)
  <2> SUFFICES ASSUME DeliveryInv, [Next]_vars
               PROVE  Way!ChanNext \/ UNCHANGED Way!chanVars
    OBVIOUS
  <2>1. Typed
    BY DEF DeliveryInv
  <2>2. Sound \in BOOLEAN /\ Sound' \in BOOLEAN
    BY DEF Sound
  <2>3. CASE ~Sound
    <3>1. ~Sound'
      BY <2>1, <2>3, SoundBefore
    <3>2. Due = << >> /\ Due' = << >>
      BY <2>3, <3>1 DEF Due
    <3> QED  BY <2>2, <2>3, <3>1, <3>2 DEF Way!ChanNext, Way!Broken, Due
  <2>4. CASE Sound /\ ~Sound'
    <3>1. applied' = applied
      <4>1. SendStart => applied' = applied
        BY Zenon DEF SendStart, clientVars
      <4>2. ASSUME Parse, NEW size \in 1..Len(buf), Consume(size)
            PROVE  FALSE
        BY <2>4, <4>2, ParseOutcomes DEF Consume, Sound
      <4> QED  BY <4>1, <4>2, StepsOfTheChannel
    <3>2. Due' = << >>
      BY <2>4 DEF Due
    <3> QED  BY <2>2, <2>4, <3>1, <3>2 DEF Way!ChanNext, Way!Break, Due
  <2>5. CASE Sound /\ Sound'
    <3>1. CASE sent' = sent /\ applied' = applied
      <4>1. Due' = Due /\ (Sound' <=> Sound)
        BY <2>5, <3>1 DEF Due
      <4> QED  BY <2>2, <3>1, <4>1 DEF Way!chanVars, Due
    <3>2. CASE SendStart
      BY <2>5, <3>2, DeliverySends DEF Way!ChanNext
    <3>3. CASE Parse /\ \E size \in 1..Len(buf) : Consume(size)
      BY <2>5, <3>3, DeliveryReceives DEF Way!ChanNext
    <3> QED  BY <3>1, <3>2, <3>3, StepsOfTheChannel
  <2> QED  BY <2>2, <2>3, <2>4, <2>5
<1> QED  BY <1>1, <1>2, DeliveryInvariance, PTL DEF Spec, ImplementsChannel, Way!ChanSpec
=============================================================================
