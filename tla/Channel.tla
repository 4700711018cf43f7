------------------------------ MODULE Channel ------------------------------
(***************************************************************************)
(* What Service takes for granted of the way from the service to a client: *)
(* the messages arrive whole, each once and in the order they were sent,   *)
(* as long as the channel is not broken.                                   *)
(***************************************************************************)
EXTENDS Sequences

CONSTANT Message

VARIABLES
  queue,   \* sent and not yet received
  got,     \* received
  open

chanVars == << queue, got, open >>

ChanInit ==
  /\ queue = << >>
  /\ got = << >>
  /\ open = TRUE

Send(m) ==
  /\ open
  /\ queue' = Append(queue, m)
  /\ UNCHANGED << got, open >>

Receive ==
  /\ open
  /\ queue # << >>
  /\ got' = Append(got, Head(queue))
  /\ queue' = Tail(queue)
  /\ UNCHANGED open

(* From here on nothing is promised: neither what was under way nor what   *)
(* is received in its place.                                               *)
Break ==
  /\ open
  /\ open' = FALSE
  /\ queue' = << >>
  /\ UNCHANGED got

Broken ==
  /\ ~open
  /\ UNCHANGED << queue, open >>

ChanNext == (\E m \in Message : Send(m)) \/ Receive \/ Break \/ Broken

ChanSpec == ChanInit /\ [][ChanNext]_chanVars
=============================================================================
