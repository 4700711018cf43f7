--------------------------- MODULE MCClientBuffer ---------------------------
(* Instances of ClientBuffer for TLC: what the peers may send.             *)
EXTENDS ClientBuffer

v9   == 9
c937 == 937      \* a channel whose low byte is >= 128

WellFormed(cmds) == [bytes |-> Encode(cmds), cmds |-> cmds]
Malformed(bytes, cmds) == [bytes |-> bytes, cmds |-> Append(cmds, Bad)]

(* The requests on which the parser and README.md agree: at most one seek, *)
(* and nothing after it.                                                   *)
SimpleRequests ==
  { WellFormed(<< Volume(v9) >>),
    WellFormed(<< Channel(c937) >>),
    WellFormed(<< Volume(v9), SeekUp >>),
    WellFormed(<< Channel(c937), SeekDown >>) }

(* A zero length, an empty message, an unknown type, two truncated values. *)
BadRequests ==
  { Malformed(<< 0 >>, << >>), Malformed(<< 1 >>, << >>), Malformed(<< 2, 9 >>, << >>),
    Malformed(<< 3, EVENT_CHANNEL, 1 >>, << >>),
    Malformed(<< 4, EVENT_VOLUME, 9, EVENT_VOLUME >>, << Volume(v9) >>) }

(* A message whose length byte is larger than the buffer.                  *)
LongRequests == { WellFormed([k \in 1..4 |-> Volume(v9)]) }

MixedRequests == SimpleRequests \union BadRequests \union LongRequests

SeekFirstRequests == SimpleRequests \union
  { WellFormed(<< SeekUp, Volume(v9) >>), WellFormed(<< SeekUp, SeekDown >>) }

(* The theorems about ClientBuffer speak of the first run, and not of the  *)
(* second, where a seek is not the last command.                           *)
ASSUME MCClientBufferAssumption ==
  /\ \A m \in MixedRequests : Legible(m)
  /\ \A m \in SeekFirstRequests \ SimpleRequests : ~Legible(m)

(* The last is beyond any position in the buffer. *)
Overread == {0, EVENT_VOLUME, 200}
=============================================================================
