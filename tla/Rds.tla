-------------------------------- MODULE Rds --------------------------------
(***************************************************************************)
(* The RDS decoder, rds.c, and the polling that feeds it, __rds_decode of  *)
(* net/handler.c.                                                          *)
(*                                                                         *)
(* A station repeats its name and its text in groups, each with a part and *)
(* its offset.  The chip keeps the last group only and the service polls   *)
(* it: a group that is not read in time is lost, one that stays longer is  *)
(* read again.  The decoder puts the parts together when they come in      *)
(* order, and starts again when they do not; a retune leaves it as it is.  *)
(*                                                                         *)
(* Two characters are one piece here, named by the station and the place   *)
(* they come from, so that mixed names can be told.                        *)
(***************************************************************************)
EXTENDS Integers, Sequences

CONSTANTS
  Station,
  Version,       \* "A", four characters per text group, or "B", two
  TextLength,    \* pieces of the text of a station
  Flags,         \* what its groups say of it: [pt, tp, ta, ms]
  LastNamePart,  \* MASK_PSNAME_PART, 3
  LastTextPart,  \* MASK_RADIO_TEXT_PART, 15
  MaxFaults      \* bound: groups lost, polls that cannot read and retunes, in all

NamePlaces == 0..LastNamePart
TextPlaces == 0..(2 * LastTextPart + 1)

ASSUME RdsAssumption ==
  /\ LastNamePart \in Nat
  /\ LastTextPart \in Nat
  /\ Version \in [Station -> {"A", "B"}]
  /\ TextLength \in [Station -> 1..(2 * LastTextPart + 2)]
  /\ Flags \in [Station -> [pt : 0..31, tp : BOOLEAN, ta : BOOLEAN, ms : BOOLEAN]]
  /\ MaxFaults \in Nat

VARIABLES
  station,     \* the station the tuner is on
  nameCursor,  \* the part of its name it sends next
  textCursor,  \* the part of its text it sends next
  latest,      \* the group in the registers of the chip
  polled,      \* it has been read
  prev,        \* prev_blocks of __rds_decode
  rds,         \* the Rds structure
  retunes,     \* what has happened to the service: history
  lost,
  unread

vars == << station, nameCursor, textCursor, latest, polled, prev, rds, retunes, lost, unread >>

-----------------------------------------------------------------------------
(* What a station sends.                                                   *)

Nul == << >>
Return == << "carriage return" >>
Piece(s, place) == << s, place >>
Junk == << "junk", 0 >>

PerGroup(s) == IF Version[s] = "A" THEN 2 ELSE 1
Room(s) == (LastTextPart + 1) * PerGroup(s)

(* A text that does not fill all the groups ends in a carriage return. *)
TextPiece(s, place) == IF place < TextLength[s] THEN Piece(s, place) ELSE Return
LastPart(s) ==
  IF TextLength[s] >= Room(s) THEN LastTextPart ELSE TextLength[s] \div PerGroup(s)

NoGroup == [pi |-> "none", type |-> "none", off |-> 0, pieces |-> << >>]

NameGroup(s, k) ==
  [pi |-> s, type |-> "name", off |-> k, pieces |-> << Piece(s, k) >>]

TextGroup(s, k) ==
  [pi |-> s, type |-> "text", off |-> k,
   pieces |-> [j \in 1..PerGroup(s) |-> TextPiece(s, k * PerGroup(s) + j - 1)]]

OtherGroup(s) == [pi |-> s, type |-> "other", off |-> 0, pieces |-> << >>]

(* What may be found in blocks that were not filled: any type, version and *)
(* offset, with characters that are no station's, zeros, or a carriage     *)
(* return before or after them.                                            *)
JunkText ==
  {<< p >> : p \in {Junk, Nul, Return}} \union
  {<< Junk, Junk >>, << Nul, Nul >>, << Junk, Return >>, << Return, Junk >>}

JunkGroups ==
  LET s == CHOOSE x \in Station : TRUE
  IN  [pi : {s}, type : {"name"}, off : NamePlaces, pieces : {<< Junk >>, << Nul >>}]
        \union [pi : {s}, type : {"text"}, off : 0..LastTextPart, pieces : JunkText]
        \union {OtherGroup(s)}

-----------------------------------------------------------------------------
(* rds_decode.  `pt`, `tp`, `ta` and `ms` are the fields of bit_fields:    *)
(* the program type has five bits and a field of four, the fifth one falls *)
(* on the Music/Speech flag.                                               *)

NameType == [NamePlaces -> {Nul} \union ((Station \union {"junk"}) \X NamePlaces)]
TextType == [TextPlaces -> {Nul, Return} \union ((Station \union {"junk"}) \X TextPlaces)]

RdsType ==
  [name : NameType, new_name : NameType, name_off : NamePlaces,
   text : TextType, new_text : TextType, text_off : 0..LastTextPart,
   pt : 0..15, tp : BOOLEAN, ta : BOOLEAN, ms : BOOLEAN]

DecodeType(r, flags) ==
  [r EXCEPT !.tp = flags.tp, !.pt = flags.pt % 16, !.ms = @ \/ flags.pt > 15]

(* The parts of a name are put together in any order. *)
DecodeName_AnyOrder(r, g) ==
  LET new == [r.new_name EXCEPT ![g.off] = g.pieces[1]]
  IN  IF g.off < LastNamePart
      THEN [r EXCEPT !.new_name = new, !.name_off = g.off + 1]
      ELSE [r EXCEPT !.name = new, !.new_name = [p \in NamePlaces |-> Nul], !.name_off = 0]

(* The last part of a name is taken for one in the middle. *)
DecodeName_OneMore(r, g) ==
  IF r.name_off # g.off
  THEN [r EXCEPT !.name_off = 0]
  ELSE [r EXCEPT !.new_name[g.off] = g.pieces[1], !.name_off = g.off + 1]

(* __decode_basic_tuning_and_switching_info *)
DecodeName(r, g) ==
  LET new == [r.new_name EXCEPT ![g.off] = g.pieces[1]]
  IN  CASE r.name_off # g.off ->
             [r EXCEPT !.name_off = 0]
        [] r.name_off = g.off /\ g.off < LastNamePart ->
             [r EXCEPT !.new_name = new, !.name_off = g.off + 1]
        [] OTHER ->
             [r EXCEPT !.name = new, !.new_name = [p \in NamePlaces |-> Nul], !.name_off = 0]

(* The pieces of g from its first place on, the carriage return as Nul;    *)
(* what comes after it in the group is never seen.                         *)
WithPieces(text, g) ==
  LET first == g.off * Len(g.pieces)
  IN  [p \in TextPlaces |->
         IF p - first + 1 \in DOMAIN g.pieces
         THEN IF g.pieces[p - first + 1] = Return THEN Nul ELSE g.pieces[p - first + 1]
         ELSE text[p]]

(* A text is only complete with a carriage return. *)
DecodeText_ReturnOnly(r, g) ==
  LET new == WithPieces(r.new_text, g)
      ends == \E j \in DOMAIN g.pieces : g.pieces[j] = Return
  IN  CASE r.text_off # g.off ->
             [r EXCEPT !.text_off = 0]
        [] r.text_off = g.off /\ ~ends ->
             [r EXCEPT !.new_text = new, !.text_off = g.off + 1]
        [] OTHER ->
             [r EXCEPT !.text = new, !.new_text = [p \in TextPlaces |-> Nul], !.text_off = 0]

(* The parts of a text are put together in any order. *)
DecodeText_AnyOrder(r, g) ==
  LET new == WithPieces(r.new_text, g)
  IN  IF g.off < LastTextPart /\ \A j \in DOMAIN g.pieces : g.pieces[j] # Return
      THEN [r EXCEPT !.new_text = new, !.text_off = g.off + 1]
      ELSE [r EXCEPT !.text = new, !.new_text = [p \in TextPlaces |-> Nul], !.text_off = 0]

(* __decode_radio_text: complete with a carriage return, or the last part. *)
DecodeText(r, g) ==
  LET new == WithPieces(r.new_text, g)
      ends == \E j \in DOMAIN g.pieces : g.pieces[j] = Return
  IN  CASE r.text_off # g.off ->
             [r EXCEPT !.text_off = 0]
        [] r.text_off = g.off /\ g.off < LastTextPart /\ ~ends ->
             [r EXCEPT !.new_text = new, !.text_off = g.off + 1]
        [] OTHER ->
             [r EXCEPT !.text = new, !.new_text = [p \in TextPlaces |-> Nul], !.text_off = 0]

(* rds_decode: the flags of the group first, then what its type brings. *)
Decode(r, g) ==
  LET flags == Flags[g.pi]
      typed == DecodeType(r, flags)
  IN  CASE g.type = "name" -> DecodeName([typed EXCEPT !.ms = flags.ms, !.ta = flags.ta], g)
        [] g.type = "text" -> DecodeText(typed, g)
        [] OTHER           -> typed

-----------------------------------------------------------------------------
RdsNew ==
  [name |-> [p \in NamePlaces |-> Nul], new_name |-> [p \in NamePlaces |-> Nul], name_off |-> 0,
   text |-> [p \in TextPlaces |-> Nul], new_text |-> [p \in TextPlaces |-> Nul], text_off |-> 0,
   pt |-> 0, tp |-> FALSE, ta |-> FALSE, ms |-> FALSE]

Init ==
  /\ station \in Station
  /\ nameCursor = 0
  /\ textCursor = 0
  /\ latest = NoGroup
  /\ polled = TRUE
  /\ prev = NoGroup
  /\ rds = RdsNew
  /\ retunes = 0
  /\ lost = 0
  /\ unread = 0

MoreFaults == retunes + lost + unread < MaxFaults

(* The group in the registers is lost when it has not been read.           *)
Sends(g) ==
  /\ lost' = IF polled THEN lost ELSE lost + 1
  /\ retunes + lost' + unread <= MaxFaults
  /\ latest' = g
  /\ polled' = FALSE
  /\ UNCHANGED << station, prev, rds, retunes, unread >>

SendName ==
  /\ Sends(NameGroup(station, nameCursor))
  /\ nameCursor' = (nameCursor + 1) % (LastNamePart + 1)
  /\ UNCHANGED textCursor

SendText ==
  /\ Sends(TextGroup(station, textCursor))
  /\ textCursor' = IF textCursor = LastPart(station) THEN 0 ELSE textCursor + 1
  /\ UNCHANGED nameCursor

SendOther ==
  /\ Sends(OtherGroup(station))
  /\ UNCHANGED << nameCursor, textCursor >>

(* The tuner goes to another station, which is anywhere in its cycle. *)
Retune ==
  /\ MoreFaults
  /\ retunes' = retunes + 1
  /\ station' \in Station \ {station}
  /\ nameCursor' \in NamePlaces
  /\ textCursor' \in 0..LastPart(station')
  /\ latest' = NoGroup
  /\ polled' = TRUE
  /\ UNCHANGED << prev, rds, lost, unread >>

(* __rds_decode that decodes a group each time it reads it. *)
Poll_Again ==
  /\ latest # NoGroup
  /\ polled' = TRUE
  /\ rds' = Decode(rds, latest)
  /\ prev' = latest
  /\ UNCHANGED << station, nameCursor, textCursor, latest, retunes, lost, unread >>

(* __rds_decode: fm_tuner_read_rds has found a group, which is decoded     *)
(* unless it is the one before.                                            *)
Poll ==
  /\ latest # NoGroup
  /\ polled' = TRUE
  /\ IF latest # prev
     THEN rds' = Decode(rds, latest) /\ prev' = latest
     ELSE UNCHANGED << rds, prev >>
  /\ UNCHANGED << station, nameCursor, textCursor, latest, retunes, lost, unread >>

(* fm_tuner_read_rds fails, which is not looked at: `data_exists` and      *)
(* `blocks` are what was on the stack.  A zero, or the group before, do    *)
(* nothing; anything else is decoded.                                      *)
PollUnread ==
  /\ MoreFaults
  /\ unread' = unread + 1
  /\ \/ UNCHANGED << rds, prev >>
     \/ \E g \in JunkGroups \ {prev} : rds' = Decode(rds, g) /\ prev' = g
  /\ UNCHANGED << station, nameCursor, textCursor, latest, polled, retunes, lost >>

Next == SendName \/ SendText \/ SendOther \/ Retune \/ Poll \/ PollUnread

Spec == Init /\ [][Next]_vars

(* The station goes on sending both, and the service polling. *)
FairSpec == Spec /\ SF_vars(SendName) /\ SF_vars(SendText) /\ WF_vars(Poll)

-----------------------------------------------------------------------------
(* Properties.                                                             *)

TypeOK ==
  /\ station \in Station
  /\ nameCursor \in NamePlaces
  /\ textCursor \in 0..LastPart(station)
  /\ polled \in BOOLEAN
  /\ rds \in RdsType
  /\ {retunes, lost, unread} \subseteq 0..MaxFaults

NameOf(s) == [p \in NamePlaces |-> Piece(s, p)]

(* The C string in a text: what precedes the first Nul. *)
Visible(text) ==
  {text[p] : p \in {q \in TextPlaces : \A r \in 0..q : text[r] # Nul}}
TextOf(s) == {Piece(s, p) : p \in {q \in TextPlaces : q < TextLength[s] /\ q < Room(s)}}

NoName == [p \in NamePlaces |-> Nul]

(* The name is none, or all of the name of one station, whatever was lost  *)
(* or read twice; and so is the text.                                      *)
WholeName == \E s \in Station : rds.name \in {NoName, NameOf(s)}
WholeText == \E s \in Station : Visible(rds.text) \in {{}, TextOf(s)}

(* Both hold on one station (rds.c, the offsets in bit_fields); a retune   *)
(* leaves the parts in the decoder, and two names or texts may be mixed;   *)
(* and a poll that cannot read puts in what it likes.                      *)
NameIsWhole == retunes = 0 /\ unread = 0 => WholeName
TextIsWhole == retunes = 0 /\ unread = 0 => WholeText

(* When the loop keeps up again, after the last retune, the last group it  *)
(* lost and the last poll that could not read (handler.c:312), the name    *)
(* and the text become those of the station, and stay: no part of another  *)
(* one, and no junk, is left in the decoder.                               *)
NameSettles == <>[](rds.name = NameOf(station))
TextSettles == <>[](Visible(rds.text) = TextOf(station))
=============================================================================
