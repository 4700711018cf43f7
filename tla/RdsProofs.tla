----------------------------- MODULE RdsProofs -----------------------------
(***************************************************************************)
(* Proofs about Rds: whatever groups are lost or read twice, on one        *)
(* station the name and the text that come out of the decoder are whole.   *)
(***************************************************************************)
EXTENDS Rds, TLAPS

(* The inductive invariant, by its parts.                                  *)

(* The groups a station sends. *)
GroupsOf(s) ==
  {OtherGroup(s)} \union {NameGroup(s, k) : k \in NamePlaces}
    \union {TextGroup(s, k) : k \in 0..LastPart(s)}

(* Where its text ends: the room its groups have, or before. *)
End(s) == IF TextLength[s] < Room(s) THEN TextLength[s] ELSE Room(s)

(* What has been put together so far is the beginning of the name. *)
NamePrefix(s, r) ==
  \A p \in NamePlaces : p < r.name_off => r.new_name[p] = Piece(s, p)

(* ... and of the text, in which no return has been seen; places that no   *)
(* group of the version brings are never written.                          *)
TextPrefix(s, r) ==
  /\ r.text_off * PerGroup(s) <= TextLength[s]
  /\ \A p \in TextPlaces : p < r.text_off * PerGroup(s) => r.new_text[p] = Piece(s, p)
  /\ \A p \in TextPlaces : p >= Room(s) => r.new_text[p] = Nul

(* All of the text, and a Nul after it unless the array ends there. *)
TextDone(s, text) ==
  \A p \in TextPlaces :
    /\ p < End(s) => text[p] = Piece(s, p)
    /\ p = End(s) => text[p] = Nul

NoText == [p \in TextPlaces |-> Nul]

(* What the decoder holds of the station s. *)
WholeOf(s, r) ==
  /\ r.name \in {NoName, NameOf(s)}
  /\ r.text = NoText \/ TextDone(s, r.text)
  /\ NamePrefix(s, r)
  /\ TextPrefix(s, r)

WholeInv ==
  retunes = 0 /\ unread = 0 => latest \in {NoGroup} \union GroupsOf(station) /\ WholeOf(station, rds)

(* Any station's group may be in the registers. *)
Groups == UNION {GroupsOf(s) : s \in Station}

RdsInv == TypeOK /\ latest \in {NoGroup} \union Groups /\ WholeInv

-----------------------------------------------------------------------------
(* Pieces and groups.                                                      *)

NamePieces == {Nul} \union ((Station \union {"junk"}) \X NamePlaces)
TextPieces == {Nul, Return} \union ((Station \union {"junk"}) \X TextPlaces)

LEMMA PieceFacts ==
  ASSUME NEW s, NEW p
  PROVE  /\ Piece(s, p) # Nul /\ Piece(s, p) # Return /\ Nul # Return
         /\ \A q : Piece(s, p) = Piece(s, q) <=> p = q
<1>1. Len(<< s, p >>) = 2 /\ Len(<< "carriage return" >>) = 1 /\ Len(<< >>) = 0
  OBVIOUS
<1> QED BY <1>1 DEF Piece, Nul, Return

LEMMA VersionFacts ==
  ASSUME NEW s \in Station
  PROVE  /\ PerGroup(s) \in {1, 2}
         /\ Room(s) \in Nat /\ Room(s) <= 2 * LastTextPart + 2
         /\ \A k \in 0..LastTextPart : /\ k * PerGroup(s) \in Nat
                                       /\ (k + 1) * PerGroup(s) = k * PerGroup(s) + PerGroup(s)
                                       /\ k * PerGroup(s) + PerGroup(s) <= Room(s)
                                       /\ k = LastTextPart => k * PerGroup(s) + PerGroup(s) = Room(s)
         /\ TextLength[s] \in Nat \ {0}
         /\ LastPart(s) \in 0..LastTextPart
         /\ End(s) \in Nat
<1>1. LastTextPart \in Nat /\ TextLength[s] \in 1..(2 * LastTextPart + 2)
  BY RdsAssumption
<1>2. CASE PerGroup(s) = 1
  <2>1. Room(s) = LastTextPart + 1
    BY <1>1, <1>2 DEF Room
  <2>2. TextLength[s] < Room(s) => TextLength[s] \div 1 \in 0..LastTextPart
    BY <1>1, <2>1
  <2> QED BY <1>1, <1>2, <2>1, <2>2 DEF LastPart, End
<1>3. CASE PerGroup(s) = 2
  <2>1. Room(s) = 2 * LastTextPart + 2
    BY <1>1, <1>3 DEF Room
  <2>2. TextLength[s] < Room(s) => TextLength[s] \div 2 \in 0..LastTextPart
    BY <1>1, <2>1
  <2> QED BY <1>1, <1>3, <2>1, <2>2 DEF LastPart, End
<1> QED BY <1>2, <1>3 DEF PerGroup

(* Nothing but a type, an offset and characters comes in. *)
TypedGroup(g) ==
  /\ g.pi \in Station
  /\ g.type \in {"name", "text", "other"}
  /\ g.type = "name" => g.off \in NamePlaces /\ g.pieces[1] \in NamePieces
  /\ g.type = "text" => g.off \in 0..LastTextPart /\ \A j \in DOMAIN g.pieces : g.pieces[j] \in TextPieces

(* A group of the text: the pieces of its places, and a return where the   *)
(* text has ended.                                                         *)
LEMMA TextGroupFacts ==
  ASSUME NEW s \in Station, NEW k \in 0..LastTextPart, NEW g, g = TextGroup(s, k)
  PROVE  /\ g.pi = s /\ g.type = "text" /\ g.off = k /\ TypedGroup(g) /\ g # NoGroup
         /\ (\E j \in DOMAIN g.pieces : g.pieces[j] = Return) <=> TextLength[s] < k * PerGroup(s) + PerGroup(s)
         /\ \A text : \A p \in TextPlaces :
              WithPieces(text, g)[p] =
                IF k * PerGroup(s) <= p /\ p < k * PerGroup(s) + PerGroup(s)
                THEN IF p < TextLength[s] THEN Piece(s, p) ELSE Nul
                ELSE text[p]
<1> DEFINE n == PerGroup(s)
           first == k * n
<1>1. /\ n \in {1, 2} /\ first \in Nat /\ first + n <= 2 * LastTextPart + 2
      /\ TextLength[s] \in Nat /\ LastTextPart \in Nat /\ Room(s) \in Nat
  BY VersionFacts, RdsAssumption
<1>2. /\ g.pi = s /\ g.type = "text" /\ g.off = k
      /\ g.pieces = [j \in 1..n |-> TextPiece(s, first + j - 1)]
  BY DEF TextGroup
<1>3. g # NoGroup
  BY <1>2 DEF NoGroup
<1> HIDE DEF n, first
<1>4. DOMAIN g.pieces = 1..n /\ \A j \in 1..n : g.pieces[j] = TextPiece(s, first + j - 1)
  BY <1>2
<1>5. Len(g.pieces) = n
  <2> DEFINE F(j) == TextPiece(s, first + j - 1)
             S == {F(j) : j \in 1..n}
  <2>1. n \in Nat /\ g.pieces = [j \in 1..n |-> F(j)] /\ \A j \in 1..n : F(j) \in S
    BY <1>1, <1>2
  <2> HIDE DEF F, S
  <2>2. g.pieces \in [1..n -> S]
    BY <2>1
  <2> QED BY <2>1, <2>2
<1>6. ASSUME NEW j \in 1..n
      PROVE  /\ first + j - 1 \in TextPlaces
             /\ g.pieces[j] = IF first + j - 1 < TextLength[s] THEN Piece(s, first + j - 1) ELSE Return
             /\ g.pieces[j] = Return <=> first + j - 1 >= TextLength[s]
  <2>1. first + j - 1 \in TextPlaces /\ first + j - 1 \in Int
    BY <1>1 DEF TextPlaces
  <2>2. g.pieces[j] = IF first + j - 1 < TextLength[s] THEN Piece(s, first + j - 1) ELSE Return
    BY <1>4 DEF TextPiece
  <2> QED BY <1>1, <2>1, <2>2, PieceFacts
<1>7. TypedGroup(g)
  <2>1. \A j \in 1..n : g.pieces[j] \in TextPieces
    <3> TAKE j \in 1..n
    <3>1. Piece(s, first + j - 1) \in TextPieces /\ Return \in TextPieces
      BY <1>6 DEF TextPieces, Piece
    <3> QED BY <1>6, <3>1
  <2> QED BY <1>2, <1>4, <2>1 DEF TypedGroup
<1>8. (\E j \in DOMAIN g.pieces : g.pieces[j] = Return) <=> TextLength[s] < first + n
  <2>1. n \in 1..n /\ first + n - 1 \in Int
    BY <1>1
  <2>2. TextLength[s] < first + n => g.pieces[n] = Return
    BY <1>1, <1>6, <2>1
  <2>3. ASSUME NEW j \in 1..n, g.pieces[j] = Return
        PROVE  TextLength[s] < first + n
    BY <1>1, <1>6, <2>3
  <2> QED BY <1>4, <2>1, <2>2, <2>3
<1>9. ASSUME NEW text, NEW p \in TextPlaces
      PROVE  WithPieces(text, g)[p] =
                IF first <= p /\ p < first + n
                THEN IF p < TextLength[s] THEN Piece(s, p) ELSE Nul
                ELSE text[p]
  <2>1. p \in Int
    BY <1>1 DEF TextPlaces
  <2>2. WithPieces(text, g)[p] =
          IF p - first + 1 \in 1..n
          THEN IF g.pieces[p - first + 1] = Return THEN Nul ELSE g.pieces[p - first + 1]
          ELSE text[p]
    BY <1>2, <1>4, <1>5 DEF WithPieces, first
  <2>3. p - first + 1 \in 1..n <=> first <= p /\ p < first + n
    BY <1>1, <2>1
  <2>4. first + (p - first + 1) - 1 = p
    BY <1>1, <2>1
  <2> QED BY <1>6, <2>1, <2>2, <2>3, <2>4, PieceFacts
<1> QED BY <1>2, <1>3, <1>7, <1>8, <1>9 DEF n, first

LEMMA NameGroupFacts ==
  ASSUME NEW s \in Station, NEW k \in NamePlaces, NEW g, g = NameGroup(s, k)
  PROVE  /\ g.pi = s /\ g.type = "name" /\ g.off = k /\ TypedGroup(g) /\ g # NoGroup
         /\ g.pieces[1] = Piece(s, k)
<1>1. g.pi = s /\ g.type = "name" /\ g.off = k /\ g.pieces = << Piece(s, k) >> /\ g.pieces[1] = Piece(s, k)
  BY DEF NameGroup
<1>2. Piece(s, k) \in NamePieces
  BY DEF Piece, NamePieces
<1>3. g # NoGroup
  BY <1>1 DEF NoGroup
<1> QED BY <1>1, <1>2, <1>3 DEF TypedGroup

LEMMA OtherGroupFacts ==
  ASSUME NEW s \in Station
  PROVE  TypedGroup(OtherGroup(s)) /\ OtherGroup(s).type = "other"
BY DEF OtherGroup, TypedGroup

-----------------------------------------------------------------------------
(* What the decoder does, field by field.                                  *)

LEMMA WithPiecesType ==
  ASSUME NEW text \in TextType, NEW g, TypedGroup(g), g.type = "text"
  PROVE  WithPieces(text, g) \in TextType
<1>1. \A j \in DOMAIN g.pieces : g.pieces[j] \in TextPieces
  BY DEF TypedGroup
<1>2. \A p \in TextPlaces : text[p] \in TextPieces
  BY DEF TextType, TextPieces
<1>3. Nul \in TextPieces
  BY DEF TextPieces
<1> DEFINE place(p) == p - g.off * Len(g.pieces) + 1
           new(p) == IF place(p) \in DOMAIN g.pieces
                     THEN IF g.pieces[place(p)] = Return THEN Nul ELSE g.pieces[place(p)]
                     ELSE text[p]
<1>4. WithPieces(text, g) = [p \in TextPlaces |-> new(p)]
  BY DEF WithPieces
<1>5. \A p \in TextPlaces : new(p) \in TextPieces
  <2> HIDE DEF place
  <2> QED BY <1>1, <1>2, <1>3
<1>6. TextType = [TextPlaces -> TextPieces]
  BY Zenon DEF TextType, TextPieces
<1> HIDE DEF new
<1> QED BY <1>4, <1>5, <1>6

LEMMA RdsFields ==
  ASSUME NEW r \in RdsType
  PROVE  /\ r.name \in NameType /\ r.new_name \in NameType /\ r.name_off \in NamePlaces
         /\ r.text \in TextType /\ r.new_text \in TextType /\ r.text_off \in 0..LastTextPart
         /\ r.ms \in BOOLEAN
BY DEF RdsType

LEMMA EmptyTypes ==
  /\ NoName \in NameType /\ NoText \in TextType
  /\ 0 \in NamePlaces /\ 0 \in 0..LastTextPart
BY RdsAssumption DEF NoName, NoText, NameType, TextType, NamePlaces

LEMMA DecodeTypeFacts ==
  ASSUME NEW r \in RdsType, NEW flags \in [pt : 0..31, tp : BOOLEAN, ta : BOOLEAN, ms : BOOLEAN]
  PROVE  LET typed == DecodeType(r, flags)
         IN  /\ typed \in RdsType
             /\ typed.name = r.name /\ typed.new_name = r.new_name /\ typed.name_off = r.name_off
             /\ typed.text = r.text /\ typed.new_text = r.new_text /\ typed.text_off = r.text_off
<1>1. flags.pt \in 0..31 /\ flags.tp \in BOOLEAN
  OBVIOUS
<1>2. flags.pt % 16 \in 0..15
  BY <1>1
<1>3. (r.ms \/ flags.pt > 15) \in BOOLEAN
  OBVIOUS
<1>4. DecodeType(r, flags) = [r EXCEPT !.tp = flags.tp, !.pt = flags.pt % 16, !.ms = (r.ms \/ flags.pt > 15)]
  BY DEF DecodeType
<1> DEFINE pt == flags.pt % 16
           ms == r.ms \/ flags.pt > 15
<1> HIDE DEF pt, ms
<1>5. pt \in 0..15 /\ ms \in BOOLEAN /\ DecodeType(r, flags) = [r EXCEPT !.tp = flags.tp, !.pt = pt, !.ms = ms]
  BY <1>2, <1>3, <1>4 DEF pt, ms
<1> QED BY <1>1, <1>5 DEF RdsType

(* __decode_basic_tuning_and_switching_info: a part that does not come in  *)
(* order is dropped, one in the middle is kept, the last one completes the *)
(* name.                                                                   *)
LEMMA DecodeNameFacts ==
  ASSUME NEW r \in RdsType, NEW g, TypedGroup(g), g.type = "name"
  PROVE  LET d == DecodeName(r, g)
             new == [r.new_name EXCEPT ![g.off] = g.pieces[1]]
         IN  /\ d \in RdsType
             /\ d.text = r.text /\ d.new_text = r.new_text /\ d.text_off = r.text_off
             /\ r.name_off # g.off =>
                  d.name = r.name /\ d.new_name = r.new_name /\ d.name_off = 0
             /\ r.name_off = g.off /\ g.off < LastNamePart =>
                  d.name = r.name /\ d.new_name = new /\ d.name_off = g.off + 1
             /\ r.name_off = g.off /\ ~ (g.off < LastNamePart) =>
                  d.name = new /\ d.new_name = NoName /\ d.name_off = 0
<1> DEFINE d == DecodeName(r, g)
           new == [r.new_name EXCEPT ![g.off] = g.pieces[1]]
<1>1. g.off \in NamePlaces /\ g.pieces[1] \in NamePieces
  BY DEF TypedGroup
<1>2. new \in NameType
  BY <1>1, RdsFields DEF NameType, NamePieces
<1>3. CASE r.name_off # g.off
  <2>1. d = [r EXCEPT !.name_off = 0]
    BY <1>3 DEF DecodeName
  <2> QED BY <1>3, <2>1, EmptyTypes DEF RdsType
<1>4. CASE r.name_off = g.off /\ g.off < LastNamePart
  <2>1. d = [r EXCEPT !.new_name = new, !.name_off = g.off + 1]
    BY <1>4 DEF DecodeName
  <2>2. g.off + 1 \in NamePlaces
    BY <1>1, <1>4, RdsAssumption DEF NamePlaces
  <2> HIDE DEF new
  <2> QED BY <1>2, <1>4, <2>1, <2>2 DEF RdsType, new
<1>5. CASE r.name_off = g.off /\ ~ (g.off < LastNamePart)
  <2>1. d = [r EXCEPT !.name = new, !.new_name = NoName, !.name_off = 0]
    BY <1>5 DEF DecodeName, NoName
  <2> HIDE DEF new
  <2> QED BY <1>2, <1>5, <2>1, EmptyTypes DEF RdsType, new
<1> QED BY <1>3, <1>4, <1>5

(* __decode_radio_text: the same, and a carriage return completes, too. *)
LEMMA DecodeTextFacts ==
  ASSUME NEW r \in RdsType, NEW g, TypedGroup(g), g.type = "text"
  PROVE  LET d == DecodeText(r, g)
             new == WithPieces(r.new_text, g)
             ends == \E j \in DOMAIN g.pieces : g.pieces[j] = Return
         IN  /\ d \in RdsType
             /\ d.name = r.name /\ d.new_name = r.new_name /\ d.name_off = r.name_off
             /\ r.text_off # g.off =>
                  d.text = r.text /\ d.new_text = r.new_text /\ d.text_off = 0
             /\ r.text_off = g.off /\ g.off < LastTextPart /\ ~ends =>
                  d.text = r.text /\ d.new_text = new /\ d.text_off = g.off + 1
             /\ r.text_off = g.off /\ ~ (g.off < LastTextPart /\ ~ends) =>
                  d.text = new /\ d.new_text = NoText /\ d.text_off = 0
<1> DEFINE d == DecodeText(r, g)
           new == WithPieces(r.new_text, g)
           ends == \E j \in DOMAIN g.pieces : g.pieces[j] = Return
<1>1. g.off \in 0..LastTextPart
  BY DEF TypedGroup
<1>2. new \in TextType
  BY RdsFields, WithPiecesType
<1> SUFFICES
      /\ d \in RdsType
      /\ d.name = r.name /\ d.new_name = r.new_name /\ d.name_off = r.name_off
      /\ r.text_off # g.off =>
           d.text = r.text /\ d.new_text = r.new_text /\ d.text_off = 0
      /\ r.text_off = g.off /\ g.off < LastTextPart /\ ~ends =>
           d.text = r.text /\ d.new_text = new /\ d.text_off = g.off + 1
      /\ r.text_off = g.off /\ ~ (g.off < LastTextPart /\ ~ends) =>
           d.text = new /\ d.new_text = NoText /\ d.text_off = 0
  OBVIOUS
<1> HIDE DEF ends
<1>3. CASE r.text_off # g.off
  <2>1. d = [r EXCEPT !.text_off = 0]
    BY <1>3 DEF DecodeText
  <2> QED BY <1>3, <2>1, EmptyTypes DEF RdsType
<1>4. CASE r.text_off = g.off /\ g.off < LastTextPart /\ ~ends
  <2>1. d = [r EXCEPT !.new_text = new, !.text_off = g.off + 1]
    BY <1>4 DEF DecodeText, ends
  <2>2. g.off + 1 \in 0..LastTextPart
    BY <1>1, <1>4, RdsAssumption
  <2> HIDE DEF new, d
  <2>3. d \in RdsType /\ d.name = r.name /\ d.new_name = r.new_name /\ d.name_off = r.name_off
    BY <1>2, <2>1, <2>2 DEF RdsType
  <2>4. d.text = r.text /\ d.new_text = new /\ d.text_off = g.off + 1
    BY <2>1 DEF RdsType
  <2> QED BY <1>4, <2>3, <2>4
<1>5. CASE r.text_off = g.off /\ ~ (g.off < LastTextPart /\ ~ends)
  <2>1. d = [r EXCEPT !.text = new, !.new_text = NoText, !.text_off = 0]
    BY <1>5 DEF DecodeText, NoText, ends
  <2> HIDE DEF new, d
  <2>3. d \in RdsType /\ d.name = r.name /\ d.new_name = r.new_name /\ d.name_off = r.name_off
    BY <1>2, <2>1, EmptyTypes DEF RdsType
  <2>4. d.text = new /\ d.new_text = NoText /\ d.text_off = 0
    BY <2>1 DEF RdsType
  <2> QED BY <1>5, <2>3, <2>4
<1> HIDE DEF d, new
<1> QED BY <1>3, <1>4, <1>5

LEMMA FlagsType ==
  ASSUME NEW s \in Station
  PROVE  Flags[s] \in [pt : 0..31, tp : BOOLEAN, ta : BOOLEAN, ms : BOOLEAN]
BY RdsAssumption

(* The flags of a group are put in before its pieces, and nothing else     *)
(* depends on them.                                                        *)
LEMMA DecodeFacts ==
  ASSUME NEW r \in RdsType, NEW g, TypedGroup(g)
  PROVE  /\ Decode(r, g) \in RdsType
         /\ \E t \in RdsType :
              /\ t.name = r.name /\ t.new_name = r.new_name /\ t.name_off = r.name_off
              /\ t.text = r.text /\ t.new_text = r.new_text /\ t.text_off = r.text_off
              /\ Decode(r, g) = IF g.type = "name" THEN DecodeName(t, g)
                                ELSE IF g.type = "text" THEN DecodeText(t, g) ELSE t
<1> DEFINE flags == Flags[g.pi]
           typed == DecodeType(r, flags)
           named == [typed EXCEPT !.ms = flags.ms, !.ta = flags.ta]
<1>1. flags \in [pt : 0..31, tp : BOOLEAN, ta : BOOLEAN, ms : BOOLEAN] /\ flags.ms \in BOOLEAN /\ flags.ta \in BOOLEAN
  BY FlagsType DEF TypedGroup
<1>2. Decode(r, g) = IF g.type = "name" THEN DecodeName(named, g)
                     ELSE IF g.type = "text" THEN DecodeText(typed, g) ELSE typed
  BY DEF Decode
<1> HIDE DEF flags
<1>3. /\ typed \in RdsType
      /\ typed.name = r.name /\ typed.new_name = r.new_name /\ typed.name_off = r.name_off
      /\ typed.text = r.text /\ typed.new_text = r.new_text /\ typed.text_off = r.text_off
  BY <1>1, DecodeTypeFacts
<1> HIDE DEF typed
<1>4. /\ named \in RdsType
      /\ named.name = r.name /\ named.new_name = r.new_name /\ named.name_off = r.name_off
      /\ named.text = r.text /\ named.new_text = r.new_text /\ named.text_off = r.text_off
  BY <1>1, <1>3 DEF RdsType
<1> HIDE DEF named
<1>5. CASE g.type = "name"
  BY <1>2, <1>4, <1>5, DecodeNameFacts
<1>6. CASE g.type = "text"
  BY <1>2, <1>3, <1>6, DecodeTextFacts
<1>7. CASE g.type \notin {"name", "text"}
  BY <1>2, <1>3, <1>7
<1> QED BY <1>5, <1>6, <1>7

-----------------------------------------------------------------------------
(* The groups of one station keep what the decoder holds whole.            *)

LEMMA NameGroupKeeps ==
  ASSUME NEW s \in Station, NEW r \in RdsType, WholeOf(s, r), NEW k \in NamePlaces, NEW g, g = NameGroup(s, k)
  PROVE  WholeOf(s, DecodeName(r, g))
<1> DEFINE d == DecodeName(r, g)
           new == [r.new_name EXCEPT ![k] = Piece(s, k)]
<1>1. g.type = "name" /\ g.off = k /\ TypedGroup(g) /\ g.pieces[1] = Piece(s, k)
  BY NameGroupFacts
<1>2. /\ d.text = r.text /\ d.new_text = r.new_text /\ d.text_off = r.text_off
      /\ r.name_off # k => d.name = r.name /\ d.new_name = r.new_name /\ d.name_off = 0
      /\ r.name_off = k /\ k < LastNamePart =>
           d.name = r.name /\ d.new_name = new /\ d.name_off = k + 1
      /\ r.name_off = k /\ ~ (k < LastNamePart) =>
           d.name = new /\ d.new_name = NoName /\ d.name_off = 0
  BY <1>1, DecodeNameFacts
<1> HIDE DEF d
<1>3. LastNamePart \in Nat /\ \A p \in NamePlaces : p \in Nat /\ p <= LastNamePart
  BY RdsAssumption DEF NamePlaces
<1>4. /\ r.name \in {NoName, NameOf(s)}
      /\ \A p \in NamePlaces : p < r.name_off => r.new_name[p] = Piece(s, p)
      /\ r.new_name \in NameType
  BY RdsFields DEF WholeOf, NamePrefix
<1>5. /\ new[k] = Piece(s, k)
      /\ \A p \in NamePlaces : p # k => new[p] = r.new_name[p]
      /\ new = [p \in NamePlaces |-> new[p]]
  BY <1>4 DEF NameType
<1> HIDE DEF new
<1>6. r.name_off = k => \A p \in NamePlaces : p < k + 1 => new[p] = Piece(s, p)
  BY <1>3, <1>4, <1>5
<1>7. NamePrefix(s, d)
  BY <1>2, <1>3, <1>4, <1>6 DEF NamePrefix
<1>8. d.name \in {NoName, NameOf(s)}
  <2>1. CASE r.name_off = k /\ ~ (k < LastNamePart)
    <3>1. \A p \in NamePlaces : new[p] = Piece(s, p)
      BY <1>3, <1>6, <2>1
    <3>2. new = NameOf(s)
      BY <1>5, <3>1 DEF NameOf
    <3> QED BY <1>2, <2>1, <3>2
  <2> QED BY <1>2, <1>4, <2>1
<1> QED BY <1>2, <1>7, <1>8 DEF WholeOf, TextPrefix, d

LEMMA TextGroupKeeps ==
  ASSUME NEW s \in Station, NEW r \in RdsType, WholeOf(s, r), NEW k \in 0..LastTextPart, NEW g, g = TextGroup(s, k)
  PROVE  WholeOf(s, DecodeText(r, g))
<1> DEFINE d == DecodeText(r, g)
           new == WithPieces(r.new_text, g)
           n == PerGroup(s)
           first == k * n
           ends == \E j \in DOMAIN g.pieces : g.pieces[j] = Return
<1>1. /\ g.type = "text" /\ g.off = k /\ TypedGroup(g)
      /\ ends <=> TextLength[s] < first + n
      /\ \A p \in TextPlaces :
           new[p] = IF first <= p /\ p < first + n
                    THEN IF p < TextLength[s] THEN Piece(s, p) ELSE Nul
                    ELSE r.new_text[p]
  BY TextGroupFacts
<1>2. /\ d.name = r.name /\ d.new_name = r.new_name /\ d.name_off = r.name_off
      /\ r.text_off # k => d.text = r.text /\ d.new_text = r.new_text /\ d.text_off = 0
      /\ r.text_off = k /\ k < LastTextPart /\ ~ends =>
           d.text = r.text /\ d.new_text = new /\ d.text_off = k + 1
      /\ r.text_off = k /\ ~ (k < LastTextPart /\ ~ends) =>
           d.text = new /\ d.new_text = NoText /\ d.text_off = 0
  BY <1>1, DecodeTextFacts
<1>3. /\ LastTextPart \in Nat /\ k \in Nat /\ n \in {1, 2} /\ first \in Nat
      /\ (k + 1) * n = first + n /\ first + n <= Room(s) /\ Room(s) \in Nat
      /\ k = LastTextPart => first + n = Room(s)
      /\ TextLength[s] \in Nat /\ 0 * n = 0
      /\ \A p \in TextPlaces : p \in Nat
  BY VersionFacts, RdsAssumption DEF TextPlaces
<1>4. /\ r.name \in {NoName, NameOf(s)} /\ NamePrefix(s, r)
      /\ r.text = NoText \/ TextDone(s, r.text)
      /\ r.text_off = k => first <= TextLength[s] /\ \A p \in TextPlaces : p < first => r.new_text[p] = Piece(s, p)
      /\ \A p \in TextPlaces : p >= Room(s) => r.new_text[p] = Nul
  BY DEF WholeOf, TextPrefix
<1> HIDE DEF d, new, n, first, ends
<1>5. CASE r.text_off # k
  <2>1. TextPrefix(s, d)
    BY <1>2, <1>3, <1>4, <1>5 DEF TextPrefix, n
  <2> QED BY <1>2, <1>4, <1>5, <2>1 DEF WholeOf, NamePrefix, d
<1>6. CASE r.text_off = k /\ k < LastTextPart /\ ~ends
  <2>1. first + n <= TextLength[s]
    BY <1>1, <1>3, <1>6
  <2>2. \A p \in TextPlaces : p < first + n => new[p] = Piece(s, p)
    BY <1>1, <1>3, <1>4, <1>6, <2>1
  <2>3. \A p \in TextPlaces : p >= Room(s) => new[p] = Nul
    BY <1>1, <1>3, <1>4
  <2>4. TextPrefix(s, d)
    BY <1>2, <1>3, <1>6, <2>1, <2>2, <2>3 DEF TextPrefix, n
  <2> QED BY <1>2, <1>4, <1>6, <2>4 DEF WholeOf, NamePrefix, d
<1>7. CASE r.text_off = k /\ ~ (k < LastTextPart /\ ~ends)
  <2>1. TextPrefix(s, d)
    BY <1>2, <1>3, <1>7 DEF TextPrefix, NoText, n
  <2>2. ASSUME NEW p \in TextPlaces
        PROVE  /\ p < End(s) => new[p] = Piece(s, p)
               /\ p = End(s) => new[p] = Nul
    <3>1. CASE TextLength[s] < first + n
      <4>1. End(s) = TextLength[s] /\ first <= TextLength[s]
        BY <1>3, <1>4, <1>7, <3>1 DEF End
      <4> QED BY <1>1, <1>3, <1>4, <1>7, <3>1, <4>1
    <3>2. CASE ~ (TextLength[s] < first + n)
      <4>1. k = LastTextPart /\ first + n = Room(s) /\ End(s) = Room(s)
        BY <1>1, <1>3, <1>7, <3>2 DEF End
      <4> QED BY <1>1, <1>3, <1>4, <1>7, <3>2, <4>1
    <3> QED BY <3>1, <3>2
  <2>3. TextDone(s, new)
    BY <2>2 DEF TextDone
  <2> QED BY <1>2, <1>4, <1>7, <2>1, <2>3 DEF WholeOf, NamePrefix, d
<1> QED BY <1>3, <1>5, <1>6, <1>7

LEMMA DecodeKeeps ==
  ASSUME NEW s \in Station, NEW r \in RdsType, WholeOf(s, r), NEW g \in GroupsOf(s)
  PROVE  WholeOf(s, Decode(r, g))
<1>1. g = OtherGroup(s) \/ (\E k \in NamePlaces : g = NameGroup(s, k)) \/ (\E k \in 0..LastTextPart : g = TextGroup(s, k))
  <2>1. \A k \in 0..LastPart(s) : k \in 0..LastTextPart
    BY VersionFacts, RdsAssumption
  <2> QED BY <2>1 DEF GroupsOf
<1>2. TypedGroup(g)
  BY <1>1, NameGroupFacts, TextGroupFacts, OtherGroupFacts
<1>3. PICK t \in RdsType :
        /\ t.name = r.name /\ t.new_name = r.new_name /\ t.name_off = r.name_off
        /\ t.text = r.text /\ t.new_text = r.new_text /\ t.text_off = r.text_off
        /\ Decode(r, g) = IF g.type = "name" THEN DecodeName(t, g)
                          ELSE IF g.type = "text" THEN DecodeText(t, g) ELSE t
  BY <1>2, DecodeFacts
<1>4. WholeOf(s, t)
  BY <1>3 DEF WholeOf, NamePrefix, TextPrefix
<1>5. CASE g = OtherGroup(s)
  BY <1>3, <1>4, <1>5, OtherGroupFacts
<1>6. CASE \E k \in NamePlaces : g = NameGroup(s, k)
  <2>1. PICK k \in NamePlaces : g = NameGroup(s, k)
    BY <1>6
  <2> QED BY <1>3, <1>4, <2>1, NameGroupFacts, NameGroupKeeps
<1>7. CASE \E k \in 0..LastTextPart : g = TextGroup(s, k)
  <2>1. PICK k \in 0..LastTextPart : g = TextGroup(s, k)
    BY <1>7
  <2>2. g.type = "text"
    BY <2>1, TextGroupFacts
  <2> QED BY <1>3, <1>4, <2>1, <2>2, TextGroupKeeps
<1> QED BY <1>1, <1>5, <1>6, <1>7

-----------------------------------------------------------------------------
(* Every step preserves the invariant.                                     *)

LEMMA GroupsTyped ==
  ASSUME NEW g \in Groups
  PROVE  TypedGroup(g)
<1>1. PICK s \in Station : g \in GroupsOf(s)
  BY DEF Groups
<1>2. \A k \in 0..LastPart(s) : k \in 0..LastTextPart
  BY VersionFacts, RdsAssumption
<1> QED BY <1>1, <1>2, NameGroupFacts, TextGroupFacts, OtherGroupFacts DEF GroupsOf

LEMMA JunkTyped ==
  ASSUME NEW g \in JunkGroups, Station # {}
  PROVE  TypedGroup(g)
<1> DEFINE s == CHOOSE x \in Station : TRUE
<1>1. s \in Station
  OBVIOUS
<1> HIDE DEF s
<1>2. /\ Junk \in NamePieces /\ Nul \in NamePieces
      /\ Junk \in TextPieces /\ Nul \in TextPieces /\ Return \in TextPieces
  BY EmptyTypes, RdsAssumption DEF Junk, NamePieces, TextPieces, TextPlaces
<1>3. \/ g \in [pi : {s}, type : {"name"}, off : NamePlaces, pieces : {<< Junk >>, << Nul >>}]
      \/ g \in [pi : {s}, type : {"text"}, off : 0..LastTextPart, pieces : JunkText]
      \/ g = OtherGroup(s)
  BY DEF JunkGroups, s
<1>4. CASE g \in [pi : {s}, type : {"name"}, off : NamePlaces, pieces : {<< Junk >>, << Nul >>}]
  BY <1>1, <1>2, <1>4 DEF TypedGroup
<1>5. CASE g \in [pi : {s}, type : {"text"}, off : 0..LastTextPart, pieces : JunkText]
  <2>1. g.pi = s /\ g.type = "text" /\ g.off \in 0..LastTextPart /\ g.pieces \in JunkText
    BY <1>5
  <2>2. Len(g.pieces) \in {1, 2} /\ \A j \in DOMAIN g.pieces : g.pieces[j] \in {Junk, Nul, Return}
    BY <2>1 DEF JunkText
  <2> QED BY <1>1, <1>2, <2>1, <2>2 DEF TypedGroup
<1>6. CASE g = OtherGroup(s)
  BY <1>1, <1>6, OtherGroupFacts
<1> QED BY <1>3, <1>4, <1>5, <1>6

LEMMA RdsInit == Init => RdsInv
<1> SUFFICES ASSUME Init PROVE RdsInv
  OBVIOUS
<1>1. station \in Station /\ LastPart(station) \in 0..LastTextPart /\ PerGroup(station) \in {1, 2}
  BY VersionFacts DEF Init
<1>2. RdsNew \in RdsType
  BY EmptyTypes DEF RdsNew, RdsType, NoName, NoText
<1>3. TypeOK
  BY <1>1, <1>2, EmptyTypes, RdsAssumption DEF Init, TypeOK
<1>4. WholeOf(station, rds)
  <2>1. /\ rds.name = NoName /\ rds.text = NoText /\ rds.name_off = 0 /\ rds.text_off = 0
        /\ rds.new_text = NoText
    BY DEF Init, RdsNew, NoName, NoText
  <2>2. 0 * PerGroup(station) = 0 /\ TextLength[station] \in Nat
    BY <1>1, VersionFacts
  <2>3. NamePrefix(station, rds) /\ TextPrefix(station, rds)
    BY <2>1, <2>2, RdsAssumption DEF NamePrefix, TextPrefix, NamePlaces, TextPlaces, NoText
  <2> QED BY <2>1, <2>3 DEF WholeOf
<1> QED BY <1>3, <1>4 DEF Init, RdsInv, WholeInv

(* A station sends its next group. *)
LEMMA SendsKeeps ==
  ASSUME RdsInv, NEW g \in GroupsOf(station), Sends(g), nameCursor' \in NamePlaces,
         textCursor' \in 0..LastPart(station)
  PROVE  RdsInv'
<1>1. /\ lost' = IF polled THEN lost ELSE lost + 1
      /\ retunes + lost' + unread <= MaxFaults
      /\ latest' = g /\ polled' = FALSE
      /\ UNCHANGED << station, prev, rds, retunes, unread >>
  BY DEF Sends
<1>2. retunes \in Nat /\ unread \in Nat /\ lost \in Nat /\ MaxFaults \in Nat /\ lost' \in Nat
  BY <1>1, RdsAssumption DEF RdsInv, TypeOK
<1>3. lost' \in 0..MaxFaults
  BY <1>1, <1>2
<1>4. TypeOK'
  BY <1>1, <1>3 DEF RdsInv, TypeOK
<1>5. g \in Groups
  BY DEF Groups, RdsInv, TypeOK
<1> QED BY <1>1, <1>4, <1>5 DEF RdsInv, WholeInv

LEMMA RdsStep == RdsInv /\ [Next]_vars => RdsInv'
<1> SUFFICES ASSUME RdsInv, [Next]_vars PROVE RdsInv'
  OBVIOUS
<1>1. /\ station \in Station /\ nameCursor \in NamePlaces /\ textCursor \in 0..LastPart(station)
      /\ rds \in RdsType /\ latest \in {NoGroup} \union Groups
      /\ retunes \in 0..MaxFaults /\ lost \in 0..MaxFaults /\ unread \in 0..MaxFaults
      /\ LastNamePart \in Nat /\ MaxFaults \in Nat /\ LastPart(station) \in Nat
  BY VersionFacts, RdsAssumption DEF RdsInv, TypeOK
<1>2. CASE SendName
  <2>1. NameGroup(station, nameCursor) \in GroupsOf(station)
    BY <1>1 DEF GroupsOf
  <2>2. nameCursor' \in NamePlaces
    BY <1>1, <1>2 DEF SendName, NamePlaces
  <2> QED BY <1>1, <1>2, <2>1, <2>2, SendsKeeps DEF SendName
<1>3. CASE SendText
  <2>1. TextGroup(station, textCursor) \in GroupsOf(station)
    BY <1>1 DEF GroupsOf
  <2>2. textCursor' \in 0..LastPart(station)
    BY <1>1, <1>3 DEF SendText
  <2> QED BY <1>1, <1>3, <2>1, <2>2, SendsKeeps DEF SendText
<1>4. CASE SendOther
  <2>1. OtherGroup(station) \in GroupsOf(station)
    BY DEF GroupsOf
  <2> QED BY <1>1, <1>4, <2>1, SendsKeeps DEF SendOther
<1>5. CASE Retune
  <2>1. retunes' = retunes + 1 /\ retunes' # 0 /\ retunes' \in 0..MaxFaults
    BY <1>1, <1>5 DEF Retune, MoreFaults
  <2>2. /\ station' \in Station /\ nameCursor' \in NamePlaces /\ textCursor' \in 0..LastPart(station')
        /\ latest' = NoGroup /\ polled' = TRUE /\ UNCHANGED << rds, lost, unread >>
    BY <1>5 DEF Retune
  <2>3. TypeOK'
    BY <1>1, <2>1, <2>2 DEF TypeOK
  <2> QED BY <2>1, <2>2, <2>3 DEF RdsInv, WholeInv
<1>6. CASE Poll
  <2>1. /\ latest \in Groups /\ polled' = TRUE
        /\ rds' \in {rds, Decode(rds, latest)}
        /\ UNCHANGED << station, nameCursor, textCursor, latest, retunes, lost, unread >>
    BY <1>1, <1>6 DEF Poll
  <2>2. rds' \in RdsType
    BY <1>1, <2>1, GroupsTyped, DecodeFacts
  <2>3. TypeOK'
    BY <1>1, <2>1, <2>2 DEF TypeOK
  <2>4. ASSUME retunes = 0, unread = 0
        PROVE  WholeOf(station, rds')
    <3>1. WholeOf(station, rds) /\ latest \in GroupsOf(station)
      BY <1>6, <2>4 DEF RdsInv, WholeInv, Poll
    <3> QED BY <1>1, <2>1, <3>1, DecodeKeeps
  <2> QED BY <2>1, <2>3, <2>4 DEF RdsInv, WholeInv
<1>7. CASE PollUnread
  <2>1. rds' = rds \/ \E g \in JunkGroups : rds' = Decode(rds, g)
    BY <1>7 DEF PollUnread
  <2>2. /\ unread' = unread + 1
        /\ UNCHANGED << station, nameCursor, textCursor, latest, polled, retunes, lost >>
        /\ retunes + lost + unread < MaxFaults
    BY <1>7 DEF PollUnread, MoreFaults
  <2>3. unread' \in 0..MaxFaults /\ unread' # 0
    BY <1>1, <2>2
  <2>4. rds' \in RdsType
    BY <1>1, <2>1, JunkTyped, DecodeFacts
  <2>5. TypeOK'
    BY <1>1, <2>2, <2>3, <2>4 DEF TypeOK, RdsInv
  <2> QED BY <2>2, <2>3, <2>5 DEF RdsInv, WholeInv
<1>8. CASE UNCHANGED vars
  BY <1>8 DEF vars, RdsInv, TypeOK, WholeInv
<1> QED BY <1>2, <1>3, <1>4, <1>5, <1>6, <1>7, <1>8 DEF Next

-----------------------------------------------------------------------------
(* What the client sees of a text that is done is all of it.               *)
LEMMA VisibleText ==
  ASSUME NEW s \in Station, NEW text, text = NoText \/ TextDone(s, text)
  PROVE  Visible(text) \in {{}, TextOf(s)}
<1> DEFINE Seen == {q \in TextPlaces : \A r \in 0..q : text[r] # Nul}
<1>1. /\ LastTextPart \in Nat /\ End(s) \in Nat /\ TextLength[s] \in Nat /\ Room(s) \in Nat
      /\ \A q \in TextPlaces : q \in Nat /\ \A r \in 0..q : r \in TextPlaces
      /\ \A q \in TextPlaces, e \in Nat : e <= q => e \in TextPlaces
  BY VersionFacts, RdsAssumption DEF TextPlaces
<1>2. CASE text = NoText
  <2>1. \A q \in TextPlaces : 0 \in 0..q /\ text[0] = Nul
    BY <1>1, <1>2, RdsAssumption DEF NoText, TextPlaces
  <2>2. Visible(text) = {}
    BY <2>1 DEF Visible
  <2> QED BY <2>2
<1>3. CASE TextDone(s, text)
  <2>1. \A q \in TextPlaces : q < End(s) <=> q < TextLength[s] /\ q < Room(s)
    BY <1>1 DEF End
  <2>2. ASSUME NEW q \in TextPlaces, q < End(s)
        PROVE  q \in Seen /\ text[q] = Piece(s, q)
    <3>1. \A r \in 0..q : text[r] = Piece(s, r)
      BY <1>1, <1>3, <2>2 DEF TextDone
    <3> QED BY <1>1, <2>2, <3>1, PieceFacts
  <2>3. ASSUME NEW q \in TextPlaces, ~ (q < End(s))
        PROVE  q \notin Seen
    <3>1. End(s) \in 0..q /\ End(s) \in TextPlaces
      BY <1>1, <2>3
    <3>2. text[End(s)] = Nul
      BY <1>3, <3>1 DEF TextDone
    <3> QED BY <3>1, <3>2
  <2>4. Visible(text) = {text[p] : p \in Seen}
    BY DEF Visible
  <2>5. TextOf(s) = {Piece(s, p) : p \in {q \in TextPlaces : q < TextLength[s] /\ q < Room(s)}}
    BY DEF TextOf
  <2>6. Seen \subseteq TextPlaces
    OBVIOUS
  <2> HIDE DEF Seen
  <2>7. Seen = {q \in TextPlaces : q < TextLength[s] /\ q < Room(s)}
    BY <2>1, <2>2, <2>3, <2>6
  <2>8. \A p \in Seen : text[p] = Piece(s, p)
    BY <2>2, <2>3, <2>6
  <2>9. Visible(text) = TextOf(s)
    BY <2>4, <2>5, <2>7, <2>8
  <2> QED BY <2>9
<1> QED BY <1>2, <1>3

(* In every reachable state, for any stations, versions, texts and faults: *)
(* the types, and on one station the parts the decoder has put together    *)
(* are the beginning of the name and of the text.                          *)
THEOREM RdsInvariance == Spec => []RdsInv
<1>1. Init => RdsInv
  BY RdsInit
<1>2. RdsInv /\ [Next]_vars => RdsInv'
  BY RdsStep
<1> QED BY <1>1, <1>2, PTL DEF Spec

(* Type correctness of the decoder: rds_decode never writes outside of the *)
(* name and the text, not even with what a failed poll has left in blocks. *)
THEOREM RdsTypeCorrect == Spec => []TypeOK
<1>1. RdsInv => TypeOK
  BY DEF RdsInv
<1> QED BY <1>1, RdsInvariance, PTL

(* The name that rds_decode gives is none or all of the name of the        *)
(* station, whatever groups are lost and whatever is polled twice, until   *)
(* the first retune and the first poll that fails.                         *)
THEOREM RdsNameIsWhole == Spec => []NameIsWhole
<1>1. RdsInv => NameIsWhole
  BY DEF RdsInv, TypeOK, WholeInv, WholeOf, NameIsWhole, WholeName
<1> QED BY <1>1, RdsInvariance, PTL

(* The text is whole in the same way, for both versions of text groups and *)
(* for texts that fill all the groups, end in one, or end with one.        *)
THEOREM RdsTextIsWhole == Spec => []TextIsWhole
<1>1. RdsInv => TextIsWhole
  BY VisibleText DEF RdsInv, TypeOK, WholeInv, WholeOf, TextIsWhole, WholeText
<1> QED BY <1>1, RdsInvariance, PTL
=============================================================================
