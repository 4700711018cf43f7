--------------------------- MODULE ServiceProofs ---------------------------
(***************************************************************************)
(* Proofs about Service: for any number of clients, messages and failures, *)
(* what was sent to a client adds up to what the tuner and the decoder are *)
(* at, and no string is sent twice in a row.                               *)
(***************************************************************************)
EXTENDS Service, BandProofs

-----------------------------------------------------------------------------
(* What a queue of messages adds up to, for one field.                     *)

Message == [Field -> Value]

(* AddsUp, of any queue. *)
Sum(q, known, f, v) ==
  \/ \E k \in DOMAIN q :
       /\ q[k][f] = v
       /\ v # None
       /\ \A j \in DOMAIN q : j > k => q[j][f] = None
  \/ /\ \A j \in DOMAIN q : q[j][f] = None
     /\ known[f] = v

(* Two values that follow one another are different. *)
Differ(q, known, f) ==
  \A j \in DOMAIN q : q[j][f] # None =>
    /\ (\A i \in DOMAIN q : i < j => q[i][f] = None) => q[j][f] # known[f]
    /\ \A i \in DOMAIN q :
         /\ i < j
         /\ q[i][f] # None
         /\ \A k \in DOMAIN q : i < k /\ k < j => q[k][f] = None
         => q[j][f] # q[i][f]

LEMMA AppendFacts ==
  ASSUME NEW M, NEW q \in Seq(M), NEW m \in M
  PROVE  /\ Append(q, m) \in Seq(M)
         /\ DOMAIN q = 1..Len(q) /\ Len(q) \in Nat
         /\ Len(Append(q, m)) = Len(q) + 1
         /\ DOMAIN Append(q, m) = DOMAIN q \union {Len(q) + 1}
         /\ \A k \in DOMAIN q : Append(q, m)[k] = q[k]
         /\ Append(q, m)[Len(q) + 1] = m
OBVIOUS

LEMMA TailFacts ==
  ASSUME NEW M, NEW q \in Seq(M), q # << >>
  PROVE  /\ Tail(q) \in Seq(M)
         /\ Head(q) = q[1] /\ Head(q) \in M
         /\ Len(q) \in Nat \ {0} /\ Len(Tail(q)) = Len(q) - 1
         /\ DOMAIN q = 1..Len(q) /\ DOMAIN Tail(q) = 1..(Len(q) - 1)
         /\ \A k \in DOMAIN Tail(q) : Tail(q)[k] = q[k + 1]
OBVIOUS

(* A message that has a value for f makes all before it irrelevant. *)
LEMMA SumOfValue ==
  ASSUME NEW q \in Seq(Message), NEW m \in Message, NEW known, NEW f \in Field, m[f] # None
  PROVE  Sum(Append(q, m), known, f, m[f])
BY AppendFacts DEF Sum

(* One that has none changes nothing. *)
LEMMA SumOfNothing ==
  ASSUME NEW q \in Seq(Message), NEW m \in Message, NEW known, NEW f \in Field, NEW v,
         m[f] = None, Sum(q, known, f, v)
  PROVE  Sum(Append(q, m), known, f, v)
BY AppendFacts DEF Sum

(* The first message of a client that has just joined. *)
LEMMA SumOfFirst ==
  ASSUME NEW m \in Message, NEW known, NEW f \in Field, m[f] # None
  PROVE  Sum(<< m >>, known, f, m[f])
BY DEF Sum

(* What has arrived is known. *)
LEMMA SumOfTail ==
  ASSUME NEW q \in Seq(Message), q # << >>, NEW known \in Message, NEW f \in Field, NEW v,
         Sum(q, known, f, v)
  PROVE  Sum(Tail(q), Applied(known, Head(q)), f, v)
<1>1. Applied(known, Head(q))[f] = IF q[1][f] = None THEN known[f] ELSE q[1][f]
  BY TailFacts DEF Applied
<1> DEFINE known2 == Applied(known, Head(q))
           q2 == Tail(q)
<1>2. /\ Len(q) \in Nat \ {0} /\ DOMAIN q = 1..Len(q) /\ DOMAIN q2 = 1..(Len(q) - 1)
      /\ \A k \in DOMAIN q2 : q2[k] = q[k + 1]
  BY TailFacts
<1> HIDE DEF known2, q2
<1>3. CASE \E k \in DOMAIN q : q[k][f] = v /\ v # None /\ \A j \in DOMAIN q : j > k => q[j][f] = None
  <2>1. PICK k \in DOMAIN q : q[k][f] = v /\ v # None /\ \A j \in DOMAIN q : j > k => q[j][f] = None
    BY <1>3
  <2>2. CASE k = 1
    <3>1. \A j \in DOMAIN q2 : j + 1 \in DOMAIN q /\ j + 1 > 1
      BY <1>2
    <3>2. \A j \in DOMAIN q2 : q2[j][f] = None
      BY <1>2, <2>1, <2>2, <3>1
    <3>3. known2[f] = v
      BY <1>1, <2>1, <2>2 DEF known2
    <3> QED BY <3>2, <3>3 DEF Sum, known2, q2
  <2>3. CASE k # 1
    <3>1. k - 1 \in DOMAIN q2 /\ (k - 1) + 1 = k
      BY <1>2, <2>3
    <3>2. q2[k - 1][f] = v
      BY <1>2, <2>1, <3>1
    <3>3. \A j \in DOMAIN q2 : j > k - 1 => q2[j][f] = None
      <4>1. \A j \in DOMAIN q2 : j > k - 1 => j + 1 \in DOMAIN q /\ j + 1 > k
        BY <1>2
      <4> QED BY <1>2, <2>1, <4>1
    <3> QED BY <2>1, <3>1, <3>2, <3>3 DEF Sum, known2, q2
  <2> QED BY <2>2, <2>3
<1>4. CASE (\A j \in DOMAIN q : q[j][f] = None) /\ known[f] = v
  <2>1. \A j \in DOMAIN q2 : j + 1 \in DOMAIN q
    BY <1>2
  <2>2. \A j \in DOMAIN q2 : q2[j][f] = None
    BY <1>2, <1>4, <2>1
  <2>3. 1 \in DOMAIN q
    BY <1>2
  <2>4. known2[f] = v
    BY <1>1, <1>4, <2>3 DEF known2
  <2> QED BY <2>2, <2>4 DEF Sum, known2, q2
<1> QED BY <1>3, <1>4 DEF Sum

(* A value that is not the one the queue adds up to differs from it. *)
LEMMA DifferOfAppend ==
  ASSUME NEW q \in Seq(Message), NEW m \in Message, NEW known, NEW f \in Field, NEW v,
         Sum(q, known, f, v), Differ(q, known, f), m[f] # v \/ m[f] = None
  PROVE  Differ(Append(q, m), known, f)
<1> DEFINE r == Append(q, m)
<1>1. /\ DOMAIN q = 1..Len(q) /\ Len(q) \in Nat
      /\ DOMAIN r = DOMAIN q \union {Len(q) + 1}
      /\ \A k \in DOMAIN q : r[k] = q[k]
      /\ r[Len(q) + 1] = m
  BY AppendFacts
<1> HIDE DEF r
<1> SUFFICES ASSUME NEW j \in DOMAIN r, r[j][f] # None
             PROVE  /\ (\A i \in DOMAIN r : i < j => r[i][f] = None) => r[j][f] # known[f]
                    /\ \A i \in DOMAIN r :
                         /\ i < j
                         /\ r[i][f] # None
                         /\ \A k \in DOMAIN r : i < k /\ k < j => r[k][f] = None
                         => r[j][f] # r[i][f]
  BY DEF Differ, r
<1>2. CASE j \in DOMAIN q
  <2>1. \A i \in DOMAIN r : i < j => i \in DOMAIN q
    BY <1>1, <1>2
  <2>2. r[j] = q[j] /\ \A i \in DOMAIN r : i < j => r[i] = q[i]
    BY <1>1, <1>2, <2>1
  <2>3. DOMAIN q \subseteq DOMAIN r
    BY <1>1
  <2>4. (\A i \in DOMAIN r : i < j => r[i][f] = None) => r[j][f] # known[f]
    BY <1>2, <2>2, <2>3 DEF Differ
  <2>5. ASSUME NEW i \in DOMAIN r, i < j, r[i][f] # None,
               \A k \in DOMAIN r : i < k /\ k < j => r[k][f] = None
        PROVE  r[j][f] # r[i][f]
    <3>1. i \in DOMAIN q /\ q[i][f] # None
      BY <2>1, <2>2, <2>5
    <3>2. \A k \in DOMAIN q : i < k /\ k < j => q[k][f] = None
      BY <2>2, <2>3, <2>5
    <3> QED BY <1>2, <2>2, <2>5, <3>1, <3>2 DEF Differ
  <2> QED BY <2>4, <2>5
<1>3. CASE j = Len(q) + 1
  <2>1. r[j][f] # v /\ \A i \in DOMAIN r : i < j <=> i \in DOMAIN q
    BY <1>1, <1>3
  <2>2. CASE \E k \in DOMAIN q : q[k][f] = v /\ v # None /\ \A l \in DOMAIN q : l > k => q[l][f] = None
    <3>1. PICK k \in DOMAIN q : q[k][f] = v /\ v # None /\ \A l \in DOMAIN q : l > k => q[l][f] = None
      BY <2>2
    <3>2. k \in DOMAIN r /\ k < j /\ r[k][f] = v /\ k \in Int
      BY <1>1, <1>3, <3>1
    <3>3. ASSUME NEW i \in DOMAIN r, i < j, r[i][f] # None,
                 \A l \in DOMAIN r : i < l /\ l < j => r[l][f] = None
          PROVE  r[j][f] # r[i][f]
      <4>1. i \in DOMAIN q /\ i \in Int /\ q[i][f] # None
        BY <1>1, <2>1, <3>3
      <4>2. ~ (i > k) /\ ~ (i < k)
        BY <3>1, <3>2, <3>3, <4>1
      <4>3. i = k
        BY <3>2, <4>1, <4>2
      <4> QED BY <2>1, <3>2, <4>3
    <3> QED BY <3>1, <3>2, <3>3
  <2>3. CASE (\A l \in DOMAIN q : q[l][f] = None) /\ known[f] = v
    <3>1. \A i \in DOMAIN r : i < j => r[i][f] = None
      BY <1>1, <2>1, <2>3
    <3> QED BY <2>1, <2>3, <3>1
  <2> QED BY <2>2, <2>3 DEF Sum
<1> QED BY <1>1, <1>2, <1>3

LEMMA DifferOfFirst ==
  ASSUME NEW m \in Message, NEW known, NEW f \in Field, m[f] # known[f]
  PROVE  Differ(<< m >>, known, f)
BY DEF Differ

LEMMA DifferOfTail ==
  ASSUME NEW q \in Seq(Message), q # << >>, NEW known \in Message, NEW f \in Field,
         Differ(q, known, f)
  PROVE  Differ(Tail(q), Applied(known, Head(q)), f)
<1> DEFINE known2 == Applied(known, Head(q))
           r == Tail(q)
<1>1. known2[f] = IF q[1][f] = None THEN known[f] ELSE q[1][f]
  BY TailFacts DEF Applied
<1>2. /\ Len(q) \in Nat \ {0} /\ DOMAIN q = 1..Len(q) /\ DOMAIN r = 1..(Len(q) - 1)
      /\ \A k \in DOMAIN r : r[k] = q[k + 1]
  BY TailFacts
<1> HIDE DEF known2, r
<1> SUFFICES ASSUME NEW j \in DOMAIN r, r[j][f] # None
             PROVE  /\ (\A i \in DOMAIN r : i < j => r[i][f] = None) => r[j][f] # known2[f]
                    /\ \A i \in DOMAIN r :
                         /\ i < j
                         /\ r[i][f] # None
                         /\ \A k \in DOMAIN r : i < k /\ k < j => r[k][f] = None
                         => r[j][f] # r[i][f]
  BY DEF Differ, known2, r
<1>3. j + 1 \in DOMAIN q /\ j \in Int /\ r[j] = q[j + 1]
  BY <1>2
<1>4. \A k \in DOMAIN q : k # 1 => k - 1 \in DOMAIN r /\ r[k - 1] = q[k]
  <2> TAKE k \in DOMAIN q
  <2> HAVE k # 1
  <2>1. k - 1 \in DOMAIN r /\ (k - 1) + 1 = k
    BY <1>2
  <2> QED BY <1>2, <2>1
<1>5. ASSUME \A i \in DOMAIN r : i < j => r[i][f] = None
      PROVE  r[j][f] # known2[f]
  <2>1. ASSUME NEW k \in DOMAIN q, k # 1, k < j + 1
        PROVE  q[k][f] = None
    <3>1. k - 1 \in DOMAIN r /\ k - 1 < j /\ r[k - 1] = q[k]
      BY <1>2, <1>3, <1>4, <2>1
    <3> QED BY <1>5, <3>1
  <2>2. 1 \in DOMAIN q /\ 1 < j + 1
    BY <1>2, <1>3
  <2>3. CASE q[1][f] = None
    <3>1. \A k \in DOMAIN q : k < j + 1 => q[k][f] = None
      BY <2>1, <2>3
    <3> QED BY <1>1, <1>3, <2>3, <3>1 DEF Differ
  <2>4. CASE q[1][f] # None
    <3>1. \A k \in DOMAIN q : 1 < k /\ k < j + 1 => q[k][f] = None
      BY <1>2, <2>1
    <3> QED BY <1>1, <1>3, <2>2, <2>4, <3>1 DEF Differ
  <2> QED BY <2>3, <2>4
<1>6. ASSUME NEW i \in DOMAIN r, i < j, r[i][f] # None,
             \A k \in DOMAIN r : i < k /\ k < j => r[k][f] = None
      PROVE  r[j][f] # r[i][f]
  <2>1. i + 1 \in DOMAIN q /\ i \in Int /\ r[i] = q[i + 1] /\ i + 1 < j + 1 /\ i + 1 > 1
    BY <1>2, <1>3, <1>6
  <2>2. ASSUME NEW k \in DOMAIN q, i + 1 < k, k < j + 1
        PROVE  q[k][f] = None
    <3>1. k # 1 /\ k \in Int
      BY <1>2, <2>1, <2>2
    <3>2. k - 1 \in DOMAIN r /\ r[k - 1] = q[k]
      BY <1>4, <3>1
    <3>3. i < k - 1 /\ k - 1 < j
      BY <1>3, <2>1, <2>2, <3>1
    <3> QED BY <1>6, <3>2, <3>3
  <2> QED BY <1>3, <1>6, <2>1, <2>2 DEF Differ
<1> QED BY <1>5, <1>6

(* Differ says it as StringsNotRepeated does. *)
LEMMA DifferFromLast ==
  ASSUME NEW q \in Seq(Message), NEW known, NEW f \in Field, Differ(q, known, f),
         NEW k \in DOMAIN q, q[k][f] # None
  PROVE  LET before == {j \in 1..(k - 1) : q[j][f] # None}
         IN  q[k][f] # IF before = {} THEN known[f] ELSE q[Max(before)][f]
<1> DEFINE before == {j \in 1..(k - 1) : q[j][f] # None}
<1>1. DOMAIN q = 1..Len(q) /\ Len(q) \in Nat /\ k \in Int
  OBVIOUS
<1>2. CASE before = {}
  <2>1. \A i \in DOMAIN q : i < k => i \in 1..(k - 1)
    BY <1>1
  <2>2. \A i \in DOMAIN q : i < k => q[i][f] = None
    BY <1>2, <2>1
  <2> HIDE DEF before
  <2> QED BY <1>2, <2>2 DEF Differ
<1>3. CASE before # {}
  <2>1. 1..(k - 1) \in SUBSET Int /\ before \in SUBSET (1..(k - 1))
    BY <1>1
  <2>2. IsFiniteSet(before)
    <3>1. IsFiniteSet(1..(k - 1))
      BY <1>1, FS_Interval
    <3> HIDE DEF before
    <3> QED BY <2>1, <3>1, FS_Subset
  <2>3. Max(before) \in before /\ \A i \in before : i <= Max(before)
    <3> HIDE DEF before
    <3> QED BY <1>3, <2>1, <2>2, MaxExists
  <2>4. PICK last : last = Max(before)
    OBVIOUS
  <2>5. last \in DOMAIN q /\ last < k /\ q[last][f] # None /\ last \in Int
    BY <1>1, <2>3, <2>4
  <2>6. \A i \in DOMAIN q : last < i /\ i < k => q[i][f] = None
    <3>1. \A i \in DOMAIN q : i < k /\ q[i][f] # None => i \in before
      BY <1>1
    <3>2. \A i \in before : i \in Int /\ i <= last
      BY <2>3, <2>4
    <3> HIDE DEF before
    <3> SUFFICES ASSUME NEW i \in DOMAIN q, last < i, i < k, q[i][f] # None
                 PROVE  FALSE
      BY Zenon
    <3>3. i \in Int /\ i <= last
      BY <3>1, <3>2
    <3> QED BY <2>5, <3>3
  <2>7. q[k][f] # q[last][f]
    BY <2>5, <2>6 DEF Differ
  <2>8. q[k][f] # IF before = {} THEN known[f] ELSE q[Max(before)][f]
    <3> HIDE DEF before
    <3> QED BY <1>3, <2>4, <2>7
  <2> QED BY <2>8, Zenon
<1> QED BY <1>2, <1>3

-----------------------------------------------------------------------------
(* The calls of the tuner that a round of the loop makes.                  *)

(* The outcome of a round for the channel, whatever was asked for. *)
RoundType(o) ==
  /\ o.tuned \in ChannelRegister /\ o.shown \in ChannelRegister
  /\ o.ret \in Int /\ o.failed \in 0..3 /\ o.rest \in BOOLEAN

(* A seek and the way back when it did not succeed: where neither was cut  *)
(* off and something is reported, it is where the tuner is.                *)
LEMMA SeekOrReturnType ==
  ASSUME tuned \in ChannelRegister, shown \in ChannelRegister, rest \in BOOLEAN, rest => shown = tuned,
         NEW direction, NEW o \in SeekOrReturn(direction)
  PROVE  /\ RoundType(o)
         /\ o.rest => o.shown = o.tuned
         /\ rest /\ o.rest /\ o.ret # -1 => o.ret = ChannelOf(o.tuned)
         /\ o.failed = 0 => o.rest /\ o.ret # -1
<1>1. Here \in SUBSET ChannelRegister
  BY DEF Here
<1>2. PICK get \in GetOutcomes({ChannelOf(t) : t \in Here}), seek \in SeekOutcomes(Here, rest, direction) :
        o \in IF seek.ret # -1 /\ seek.success
              THEN {Round(seek, get.failed, TRUE)}
              ELSE {Round(back, seek.failed + get.failed, seek.failed = 0) :
                      back \in SetChannelOutcomes({seek.tuned, seek.shown}, rest /\ seek.failed = 0, get.ret)}
  <2> DEFINE Ends(get, seek) ==
               IF seek.ret # -1 /\ seek.success
               THEN {Round(seek, get.failed, TRUE)}
               ELSE {Round(back, seek.failed + get.failed, seek.failed = 0) :
                       back \in SetChannelOutcomes({seek.tuned, seek.shown}, rest /\ seek.failed = 0, get.ret)}
  <2>1. SeekOrReturn(direction) =
          UNION {UNION {Ends(get, seek) : seek \in SeekOutcomes(Here, rest, direction)} :
                 get \in GetOutcomes({ChannelOf(t) : t \in Here})}
    BY DEF SeekOrReturn
  <2> DEFINE Gets == GetOutcomes({ChannelOf(t) : t \in Here})
             Seeks == SeekOutcomes(Here, rest, direction)
  <2> HIDE DEF Ends, Gets, Seeks
  <2>2. PICK g \in Gets : o \in UNION {Ends(g, s) : s \in Seeks}
    BY <2>1 DEF Gets, Seeks
  <2>3. PICK s \in Seeks : o \in Ends(g, s)
    BY <2>2
  <2>4. \E get \in GetOutcomes({ChannelOf(t) : t \in Here}), seek \in SeekOutcomes(Here, rest, direction) :
          o \in Ends(get, seek)
    BY <2>2, <2>3 DEF Gets, Seeks
  <2> QED BY <2>4, Zenon DEF Ends
<1>3. get.failed \in {0, 1} /\ get.ret \in Int /\ (get.failed = 0 => \E t \in Here : get.ret = ChannelOf(t))
  BY <1>1, ChannelType DEF GetOutcomes
<1>4. /\ seek \in Outcome
      /\ seek.failed = 0 => seek.ret = ChannelOf(seek.tuned) /\ seek.shown = seek.tuned
  BY <1>1, SeekOutcomesType
<1>5. CASE seek.ret # -1 /\ seek.success
  <2>1. o = Round(seek, get.failed, TRUE)
    BY <1>2, <1>5
  <2>2. /\ o.tuned = seek.tuned /\ o.shown = seek.shown /\ o.ret = seek.ret
        /\ o.failed = seek.failed + get.failed
        /\ o.rest \in BOOLEAN /\ (o.rest <=> seek.failed = 0)
    BY <2>1, Zenon DEF Round
  <2> QED BY <1>3, <1>4, <1>5, <2>2 DEF RoundType, Outcome
<1>6. CASE ~ (seek.ret # -1 /\ seek.success)
  <2> DEFINE still == rest /\ seek.failed = 0
  <2>1. PICK back \in SetChannelOutcomes({seek.tuned, seek.shown}, still, get.ret) :
          o = Round(back, seek.failed + get.failed, seek.failed = 0)
    BY <1>2, <1>6
  <2>2. {seek.tuned, seek.shown} \in SUBSET ChannelRegister /\ still \in BOOLEAN /\ seek.failed \in {0, 1}
    BY <1>4 DEF Outcome
  <2>3. /\ back \in Outcome
        /\ back.failed = 0 => /\ back.ret = get.ret /\ back.shown = back.tuned
                              /\ still => back.tuned = RegisterOf(get.ret)
    <3> HIDE DEF still
    <3> QED BY <1>3, <2>1, <2>2, SetChannelOutcomesType
  <2>4. /\ o.tuned = back.tuned /\ o.shown = back.shown /\ o.ret = back.ret
        /\ o.failed = back.failed + (seek.failed + get.failed)
        /\ o.rest \in BOOLEAN /\ (o.rest <=> seek.failed = 0 /\ back.failed = 0)
    BY <2>1, Zenon DEF Round
  <2>5. back.failed \in {0, 1} /\ back.ret \in Int
    BY <2>3 DEF Outcome
  <2>6. RoundType(o)
    BY <1>3, <2>2, <2>3, <2>4, <2>5 DEF RoundType, Outcome
  <2>7. o.rest => o.shown = o.tuned
    BY <2>3, <2>4
  <2>8. ASSUME get.failed = 0
        PROVE  get.ret # -1 /\ (rest => get.ret = ChannelOf(tuned))
    BY <1>1, <1>3, <2>8, ChannelType DEF Here
  <2>9. ASSUME rest, o.rest, o.ret # -1
        PROVE  o.ret = ChannelOf(o.tuned)
    <3>1. seek.failed = 0 /\ back.failed = 0 /\ get.ret # -1
      BY <2>3, <2>4, <2>9
    <3>2. get.failed = 0
      BY <1>2, <3>1 DEF GetOutcomes
    <3>3. back.tuned = tuned
      BY <2>3, <2>8, <2>9, <3>1, <3>2, RegisterOfChannel
    <3> QED BY <2>3, <2>4, <2>8, <2>9, <3>1, <3>2, <3>3
  <2>10. ASSUME o.failed = 0
         PROVE  o.rest /\ o.ret # -1
    <3>1. get.failed = 0 /\ seek.failed = 0 /\ back.failed = 0
      BY <1>3, <2>2, <2>4, <2>5, <2>10
    <3> QED BY <2>3, <2>4, <2>8, <3>1
  <2> QED BY <2>6, <2>7, <2>9, <2>10
<1> QED BY <1>5, <1>6

Tunable(channel) == \E t \in ChannelRegister : channel = ChannelOf(t)

(* Of a round in which no call that moves the tuner was cut off: what is   *)
(* broadcast is where the tuner is; and when nothing has failed at all and *)
(* nothing is broadcast, the tuner has not moved.                          *)
LEMMA ChannelOutcomesType ==
  ASSUME tuned \in ChannelRegister, shown \in ChannelRegister, rest \in BOOLEAN, rest => shown = tuned,
         new_channel \in Nat, NEW o \in ChannelOutcomes
  PROVE  /\ RoundType(o)
         /\ rest /\ o.rest =>
              /\ o.shown = o.tuned
              /\ o.ret # -1 /\ (EVENT_CHANNEL \in to_set => Tunable(new_channel)) => o.ret = ChannelOf(o.tuned)
         /\ o.failed = 0 => o.rest /\ (o.ret = -1 => o.tuned = tuned)
<1>1. CASE EVENT_CHANNEL \in to_set
  <2>1. PICK set \in SetChannelOutcomes(Here, rest, new_channel) : o = Round(set, 0, TRUE)
    BY <1>1 DEF ChannelOutcomes
  <2>2. Here \in SUBSET ChannelRegister /\ rest \in BOOLEAN /\ new_channel \in Int /\ new_channel # -1
    BY DEF Here
  <2>3. /\ set \in Outcome
        /\ set.failed = 0 => /\ set.ret = new_channel /\ set.shown = set.tuned
                             /\ rest => set.tuned = RegisterOf(new_channel)
    BY <2>1, <2>2, SetChannelOutcomesType
  <2>4. Tunable(new_channel) => ChannelOf(RegisterOf(new_channel)) = new_channel
    BY RegisterOfChannel DEF Tunable
  <2>5. /\ o.tuned = set.tuned /\ o.shown = set.shown /\ o.ret = set.ret
        /\ o.failed = set.failed + 0
        /\ o.rest \in BOOLEAN /\ (o.rest <=> set.failed = 0)
    BY <2>1, Zenon DEF Round
  <2> QED BY <1>1, <2>2, <2>3, <2>4, <2>5 DEF RoundType, Outcome
<1>2. ASSUME NEW direction, o \in SeekOrReturn(direction)
      PROVE  /\ RoundType(o)
             /\ o.rest => o.shown = o.tuned
             /\ rest /\ o.rest /\ o.ret # -1 => o.ret = ChannelOf(o.tuned)
             /\ o.failed = 0 => o.rest /\ o.ret # -1
  BY <1>2, SeekOrReturnType
<1>3. CASE EVENT_CHANNEL \notin to_set /\ o \in {Stays}
  <2>1. /\ o.tuned = tuned /\ o.shown = shown /\ o.ret = -1 /\ o.failed = 0
        /\ o.rest
        /\ o.rest \in BOOLEAN
    <3>1. o = Stays
      BY <1>3
    <3>2. o.tuned = tuned /\ o.shown = shown
      BY <3>1, Zenon DEF Stays
    <3>3. o.ret = -1 /\ o.failed = 0
      BY <3>1, Zenon DEF Stays
    <3>4. o.rest
      BY <3>1, Zenon DEF Stays
    <3>5. o.rest \in BOOLEAN
      BY <3>1, Zenon DEF Stays
    <3> QED BY <3>2, <3>3, <3>4, <3>5
  <2> QED BY <2>1 DEF RoundType
<1>4. o \in SeekOrReturn(FM_TUNER_SEEKUP) \/ o \in SeekOrReturn(FM_TUNER_SEEKDOWN) \/ o \in {Stays}
        \/ EVENT_CHANNEL \in to_set
  BY DEF ChannelOutcomes
<1>5. CASE o \in SeekOrReturn(FM_TUNER_SEEKUP)
  BY <1>2, <1>5
<1>6. CASE o \in SeekOrReturn(FM_TUNER_SEEKDOWN)
  BY <1>2, <1>6
<1> QED BY <1>1, <1>3, <1>4, <1>5, <1>6, Zenon

-----------------------------------------------------------------------------
(* The inductive invariant, by its parts.                                  *)

(* Until a call that moves the tuner has failed there is one channel it    *)
(* can be at.                                                              *)
PlaceInv ==
  /\ rest => shown = tuned
  /\ "channel" \in trusted => rest

(* No call that fails touches the strings, and all that has changed of     *)
(* them is sent in the round that has changed it.                          *)
StringsInv ==
  /\ prev_name = name /\ prev_text = text
  /\ {"name", "text"} \subseteq trusted
  /\ \A c \in connected : \A f \in {"name", "text"} : Differ(queue[c], view[c], f)

ToldInv ==
  \A c \in connected : \A f \in trusted \ {"channel"} : Sum(queue[c], view[c], f, Current[f])

ServiceInv == TypeOK /\ PlaceInv /\ StringsInv /\ ToldInv

(* What holds of the channel, if no client asks for one off the band. *)
ChannelInv ==
  /\ EVENT_CHANNEL \in to_set => Tunable(new_channel)
  /\ "channel" \in trusted =>
       \A c \in connected : Sum(queue[c], view[c], "channel", ChannelOf(tuned))

LEMMA ValueFacts ==
  /\ \A v \in Int : Uint8(v) \in Value /\ Uint16(v) \in Value /\ Uint8(v) # None /\ Uint16(v) # None
  /\ \A v \in VolumeRange : v \in Int /\ Uint8(v) = v
  /\ \A t \in ChannelRegister : ChannelOf(t) \in Int /\ Uint16(ChannelOf(t)) = ChannelOf(t)
  /\ Names \subseteq Value /\ Texts \subseteq Value /\ None \in Value
  /\ None \notin Names /\ None \notin Texts /\ None \notin Int
<1>1. \A v \in Int : Uint8(v) \in Word /\ Uint16(v) \in Word /\ Uint8(v) \in Int /\ Uint16(v) \in Int
  <2>1. UINT16_MAX = 65535
    BY DEF UINT16_MAX
  <2>2. \A v \in Int : /\ v % 256 \in Int /\ 0 <= v % 256 /\ v % 256 <= 255
                       /\ v % 65536 \in Int /\ 0 <= v % 65536 /\ v % 65536 <= 65535
    OBVIOUS
  <2>3. \A n \in Int : 0 <= n /\ n <= UINT16_MAX => n \in Word
    BY DEF Word
  <2>4. \A n \in Int : n <= 255 \/ n <= 65535 => n <= UINT16_MAX
    BY <2>1
  <2> QED BY <2>2, <2>3, <2>4 DEF Uint8, Uint16
<1>2. \A v \in VolumeRange : v \in Int /\ Uint8(v) = v
  BY DEF Uint8, VolumeRange, FM_TUNER_VOLUME_MIN, FM_TUNER_VOLUME_MAX
<1>3. \A t \in ChannelRegister : ChannelOf(t) \in Int /\ Uint16(ChannelOf(t)) = ChannelOf(t)
  BY DEF Uint16, ChannelOf, ChannelRegister, FM_TUNER_CHANNEL_START
<1>4. Word \subseteq Value /\ Names \subseteq Value /\ Texts \subseteq Value /\ None \in Value
  BY DEF Value
<1>5. None \notin Names /\ None \notin Texts /\ None \notin Int
  BY ServiceAssumption
<1>6. \A v \in Int : Uint8(v) \in Value /\ Uint16(v) \in Value /\ Uint8(v) # None /\ Uint16(v) # None
  BY <1>1, <1>4, <1>5
<1> QED BY <1>2, <1>3, <1>4, <1>5, <1>6

LEMMA CurrentFacts ==
  /\ Current["volume"] = volume /\ Current["channel"] = ChannelOf(tuned)
  /\ Current["name"] = name /\ Current["text"] = text
BY DEF Current, Field

(* The types the steps need. *)
LEMMA ServiceTyped ==
  ASSUME TypeOK
  PROVE  /\ tuned \in ChannelRegister /\ shown \in ChannelRegister /\ rest \in BOOLEAN
         /\ volume \in VolumeRange /\ volume \in Int
         /\ name \in Names /\ text \in Texts
         /\ new_volume \in Nat /\ new_channel \in Nat /\ new_channel # -1
         /\ connected \subseteq Client
         /\ queue \in [Client -> Seq(Message)]
         /\ view \in [Client -> Message]
         /\ failures \in Nat /\ trusted \subseteq Field
<1>1. new_channel \in Nat /\ new_channel # -1
  BY DEF TypeOK, Word, UINT16_MAX
<1>2. new_volume \in Nat
  BY DEF TypeOK, Byte
<1>3. volume \in VolumeRange /\ volume \in Int
  BY ValueFacts DEF TypeOK
<1>4. failures \in Nat
  BY DEF TypeOK
<1>5. queue \in [Client -> Seq(Message)] /\ view \in [Client -> Message]
  BY Zenon DEF TypeOK, Message
<1>6. /\ tuned \in ChannelRegister /\ shown \in ChannelRegister /\ rest \in BOOLEAN
      /\ name \in Names /\ text \in Texts
      /\ connected \subseteq Client /\ trusted \subseteq Field
  BY Zenon DEF TypeOK
<1> QED BY <1>1, <1>2, <1>3, <1>4, <1>5, <1>6, Zenon

LEMMA NothingIsMessage == Nothing \in Message /\ \A f \in Field : Nothing[f] = None
BY ValueFacts DEF Nothing, Message

(* A broadcast, for one client. *)
LEMMA SumOfBroadcast ==
  ASSUME NEW q \in Seq(Message), NEW m \in Message, NEW known, NEW f \in Field,
         NEW r, r = IF m # Nothing THEN Append(q, m) ELSE q
  PROVE  /\ m[f] # None => Sum(r, known, f, m[f])
         /\ \A v : m[f] = None /\ Sum(q, known, f, v) => Sum(r, known, f, v)
         /\ \A v : Sum(q, known, f, v) /\ Differ(q, known, f) /\ (m[f] # v \/ m[f] = None)
                     => Differ(r, known, f)
<1>1. CASE m # Nothing
  BY <1>1, SumOfValue, SumOfNothing, DifferOfAppend
<1>2. CASE m = Nothing
  BY <1>2, NothingIsMessage
<1> QED BY <1>1, <1>2

LEMMA ServiceInit == Init => ServiceInv /\ ChannelInv
<1> SUFFICES ASSUME Init PROVE ServiceInv /\ ChannelInv
  OBVIOUS
<1>1. TypeOK
  <2>1. 0 \in ChannelRegister /\ 0 \in VolumeRange /\ 0 \in Byte /\ 0 \in Word
    BY DEF ChannelRegister, VolumeRange, Byte, Word, UINT16_MAX, FM_TUNER_VOLUME_MIN, FM_TUNER_VOLUME_MAX
  <2>2. 0 \in 0..MaxRequests /\ 0 \in 0..MaxDecoded /\ 0 \in 0..MaxFailures /\ MaxQueue \in Nat
    BY ServiceAssumption
  <2>3. queue \in [Client -> Seq([Field -> Value])] /\ \A c \in Client : Len(queue[c]) <= MaxQueue
    BY <2>2 DEF Init
  <2>4. view \in [Client -> [Field -> Value]]
    BY NothingIsMessage DEF Init, Message
  <2>5. Empty \in Names /\ Empty \in Texts
    BY ServiceAssumption
  <2> QED BY <2>1, <2>2, <2>3, <2>4, <2>5 DEF Init, TypeOK
<1>2. PlaceInv /\ StringsInv /\ ToldInv /\ ChannelInv
  BY DEF Init, PlaceInv, StringsInv, ToldInv, ChannelInv, Field
<1> QED BY <1>1, <1>2 DEF ServiceInv

-----------------------------------------------------------------------------
(* Every step preserves the invariant.                                     *)

LEMMA GetOutcomesType ==
  ASSUME NEW values \in SUBSET Int, NEW o \in GetOutcomes(values)
  PROVE  o.ret \in Int /\ o.failed \in {0, 1} /\ (o.failed = 0 => o.ret \in values)
BY DEF GetOutcomes

LEMMA JoinKeeps ==
  ASSUME ServiceInv, NEW c \in Client, Join(c)
  PROVE  ServiceInv' /\ (ChannelInv => ChannelInv')
<1> USE DEF ServiceInv
<1>1. PICK v \in GetOutcomes({volume}), ch \in GetOutcomes({ChannelOf(t) : t \in Here}) :
        /\ failures' = failures + v.failed + ch.failed
        /\ failures' <= MaxFailures
        /\ trusted' = trusted \ (FailedField(v, "volume") \union FailedField(ch, "channel"))
        /\ queue' = [queue EXCEPT ![c] =
                       << [f \in Field |-> CASE f = "volume"  -> Uint8(v.ret)
                                             [] f = "channel" -> Uint16(ch.ret)
                                             [] f = "name"    -> name
                                             [] f = "text"    -> text] >>]
  BY Zenon DEF Join
<1> DEFINE m == [f \in Field |-> CASE f = "volume"  -> Uint8(v.ret)
                                   [] f = "channel" -> Uint16(ch.ret)
                                   [] f = "name"    -> name
                                   [] f = "text"    -> text]
<1>2. /\ connected' = connected \union {c} /\ c \notin connected
      /\ view' = [view EXCEPT ![c] = Nothing]
      /\ UNCHANGED << tunerVars, rdsVars, cacheVars, requests, decoded >>
  BY Zenon DEF Join
<1>3. /\ v.ret \in Int /\ v.failed \in {0, 1} /\ (v.failed = 0 => v.ret = volume)
      /\ ch.ret \in Int /\ ch.failed \in {0, 1}
      /\ ch.failed = 0 => ch.ret \in {ChannelOf(tuned), ChannelOf(shown)}
  <2>1. {volume} \in SUBSET Int /\ {ChannelOf(t) : t \in Here} \in SUBSET Int
    BY ServiceTyped, ChannelType DEF Here
  <2>2. v.ret \in Int /\ v.failed \in {0, 1} /\ (v.failed = 0 => v.ret \in {volume})
    BY <1>1, <2>1, GetOutcomesType
  <2>3. ch.ret \in Int /\ ch.failed \in {0, 1} /\ (ch.failed = 0 => ch.ret \in {ChannelOf(t) : t \in Here})
    BY <1>1, <2>1, GetOutcomesType
  <2> QED BY <2>2, <2>3 DEF Here
<1>4. /\ m["volume"] = Uint8(v.ret) /\ m["channel"] = Uint16(ch.ret)
      /\ m["name"] = name /\ m["text"] = text
  BY DEF Field
<1>5. m \in Message /\ \A f \in Field : m[f] # None
  <2>1. \A f \in Field : m[f] \in Value /\ m[f] # None
    BY <1>3, <1>4, ServiceTyped, ValueFacts DEF Field
  <2> QED BY <2>1 DEF Message
<1>6. queue' = [queue EXCEPT ![c] = << m >>]
  BY <1>1
<1> HIDE DEF m
<1>7. /\ queue' \in [Client -> Seq(Message)] /\ queue'[c] = << m >>
      /\ view' \in [Client -> Message] /\ view'[c] = Nothing
      /\ \A d \in connected : queue'[d] = queue[d] /\ view'[d] = view[d]
  BY <1>2, <1>5, <1>6, ServiceTyped, NothingIsMessage
<1>8. TypeOK'
  <2>1. \A d \in Client : Len(queue'[d]) <= MaxQueue
    BY <1>6, <1>7, ServiceTyped, ServiceAssumption DEF TypeOK
  <2>2. failures' \in 0..MaxFailures
    BY <1>1, <1>3, ServiceTyped, ServiceAssumption
  <2>3. connected' \subseteq Client /\ trusted' \subseteq Field
    BY <1>1, <1>2, ServiceTyped
  <2> QED BY <1>2, <1>7, <2>1, <2>2, <2>3 DEF TypeOK, Message, tunerVars, rdsVars, cacheVars
<1>9. /\ UNCHANGED << tuned, shown, volume, rest, name, text, prev_name, prev_text, to_set, new_channel >>
      /\ trusted' \subseteq trusted
      /\ "volume" \in trusted' => v.failed = 0
      /\ "channel" \in trusted' => ch.failed = 0
      /\ {"name", "text"} \subseteq trusted => {"name", "text"} \subseteq trusted'
  BY <1>1, <1>2, <1>3 DEF FailedField, tunerVars, rdsVars, cacheVars
<1>10. PlaceInv'
  BY <1>9 DEF PlaceInv
<1>11. StringsInv'
  <2>1. \A f \in {"name", "text"} : Differ(<< m >>, Nothing, f)
    BY <1>5, NothingIsMessage, DifferOfFirst DEF Field
  <2> QED BY <1>2, <1>7, <1>9, <2>1 DEF StringsInv
<1>12. \A f \in Field : Sum(<< m >>, Nothing, f, m[f])
  BY <1>5, SumOfFirst
<1>13. ToldInv'
  <2>1. Current' = Current
    BY <1>9 DEF Current
  <2>2. \A f \in trusted' \ {"channel"} : m[f] = Current[f]
    BY <1>3, <1>4, <1>9, ServiceTyped, ValueFacts, CurrentFacts DEF Field
  <2>3. \A f \in trusted' \ {"channel"} : Sum(queue'[c], view'[c], f, Current[f])
    BY <1>7, <1>8, <1>12, <2>2 DEF TypeOK
  <2> QED BY <1>2, <1>7, <1>9, <2>1, <2>3 DEF ToldInv
<1>14. ChannelInv => ChannelInv'
  <2> SUFFICES ASSUME ChannelInv, "channel" \in trusted'
               PROVE  \A d \in connected' : Sum(queue'[d], view'[d], "channel", ChannelOf(tuned))
    BY <1>9 DEF ChannelInv
  <2>1. m["channel"] = ChannelOf(tuned)
    <3>1. ch.ret = ChannelOf(tuned)
      BY <1>3, <1>9 DEF PlaceInv
    <3> QED BY <1>4, <3>1, ServiceTyped, ValueFacts
  <2> QED BY <1>2, <1>7, <1>9, <1>12, <2>1 DEF ChannelInv, Field
<1> QED BY <1>8, <1>10, <1>11, <1>13, <1>14

LEMMA LeaveKeeps ==
  ASSUME ServiceInv, NEW c \in Client, Leave(c)
  PROVE  ServiceInv' /\ (ChannelInv => ChannelInv')
<1> USE DEF ServiceInv
<1>1. /\ connected' = connected \ {c}
      /\ queue' = [queue EXCEPT ![c] = << >>]
      /\ view' = [view EXCEPT ![c] = Nothing]
      /\ UNCHANGED << trusted, tunerVars, rdsVars, cacheVars, requests, decoded, failures >>
  BY Zenon DEF Leave
<1>2. UNCHANGED << trusted, tuned, shown, volume, rest, name, text, prev_name, prev_text, to_set, new_channel >>
  BY <1>1 DEF tunerVars, rdsVars, cacheVars
<1>3. /\ queue' \in [Client -> Seq(Message)] /\ view' \in [Client -> Message]
      /\ \A d \in connected' : d \in connected /\ queue'[d] = queue[d] /\ view'[d] = view[d]
  BY <1>1, ServiceTyped, NothingIsMessage
<1>4. TypeOK'
  <2>1. \A d \in Client : Len(queue'[d]) <= MaxQueue
    BY <1>1, ServiceTyped, ServiceAssumption DEF TypeOK
  <2> QED BY <1>1, <1>3, <2>1 DEF TypeOK, Message, tunerVars, rdsVars, cacheVars
<1>5. PlaceInv' /\ StringsInv'
  BY <1>2, <1>3 DEF PlaceInv, StringsInv
<1>6. ToldInv'
  <2>1. Current' = Current
    BY <1>2 DEF Current
  <2> QED BY <1>2, <1>3, <2>1 DEF ToldInv
<1>7. ChannelInv => ChannelInv'
  BY <1>2, <1>3 DEF ChannelInv
<1> QED BY <1>4, <1>5, <1>6, <1>7

LEMMA DeliverKeeps ==
  ASSUME ServiceInv, NEW c \in Client, Deliver(c)
  PROVE  ServiceInv' /\ (ChannelInv => ChannelInv')
<1> USE DEF ServiceInv
<1>1. /\ queue[c] # << >>
      /\ queue' = [queue EXCEPT ![c] = Tail(queue[c])]
      /\ view' = [view EXCEPT ![c] = Applied(view[c], Head(queue[c]))]
      /\ UNCHANGED << trusted, tunerVars, rdsVars, cacheVars, connected, requests, decoded, failures >>
  BY Zenon DEF Deliver
<1>2. /\ UNCHANGED << trusted, tuned, shown, volume, rest, name, text, prev_name, prev_text, to_set, new_channel >>
      /\ UNCHANGED connected
  BY <1>1 DEF tunerVars, rdsVars, cacheVars
<1>3. queue[c] \in Seq(Message) /\ view[c] \in Message
  BY ServiceTyped
<1>4. /\ Tail(queue[c]) \in Seq(Message) /\ Len(Tail(queue[c])) <= Len(queue[c])
      /\ Len(queue[c]) \in Nat /\ Len(Tail(queue[c])) \in Nat
      /\ Applied(view[c], Head(queue[c])) \in Message
  <2>1. Head(queue[c]) \in Message
    BY <1>1, <1>3, TailFacts
  <2>2. Applied(view[c], Head(queue[c])) \in Message
    BY <1>3, <2>1 DEF Applied, Message
  <2> QED BY <1>1, <1>3, <2>2, TailFacts
<1>5. /\ queue' \in [Client -> Seq(Message)] /\ view' \in [Client -> Message]
      /\ queue'[c] = Tail(queue[c]) /\ view'[c] = Applied(view[c], Head(queue[c]))
      /\ \A d \in Client \ {c} : queue'[d] = queue[d] /\ view'[d] = view[d]
  BY <1>1, <1>4, ServiceTyped
<1>6. TypeOK'
  <2>1. \A d \in Client : Len(queue'[d]) <= MaxQueue
    <3> TAKE d \in Client
    <3>1. CASE d = c
      <4>1. Len(queue[c]) <= MaxQueue
        BY DEF TypeOK
      <4> QED BY <1>4, <1>5, <3>1, <4>1, ServiceAssumption
    <3>2. CASE d # c
      BY <1>5, <3>2 DEF TypeOK
    <3> QED BY <3>1, <3>2
  <2> QED BY <1>1, <1>5, <2>1 DEF TypeOK, Message, tunerVars, rdsVars, cacheVars
<1>7. ASSUME NEW d \in Client, NEW f \in Field
      PROVE  /\ \A v : Sum(queue[d], view[d], f, v) => Sum(queue'[d], view'[d], f, v)
             /\ Differ(queue[d], view[d], f) => Differ(queue'[d], view'[d], f)
  BY <1>1, <1>3, <1>5, SumOfTail, DifferOfTail
<1>8. PlaceInv'
  BY <1>2 DEF PlaceInv
<1>9. connected \subseteq Client /\ {"name", "text", "channel"} \subseteq Field /\ trusted \subseteq Field
  BY ServiceTyped DEF Field
<1>10. StringsInv'
  BY <1>2, <1>7, <1>9 DEF StringsInv
<1>11. ToldInv'
  <2>1. Current' = Current
    BY <1>2 DEF Current
  <2> QED BY <1>2, <1>7, <1>9, <2>1 DEF ToldInv
<1>12. ChannelInv => ChannelInv'
  BY <1>2, <1>7, <1>9 DEF ChannelInv
<1> QED BY <1>6, <1>8, <1>10, <1>11, <1>12

(* A message says something of an event, or leaves it as it was. *)
LEMMA LastValueType ==
  ASSUME NEW cmds \in Seq(Command), NEW event, NEW default
  PROVE  \/ /\ LastValue(cmds, event, default) = default
            /\ \A k \in DOMAIN cmds : cmds[k].event # event
         \/ \E k \in DOMAIN cmds : cmds[k].event = event /\ LastValue(cmds, event, default) = cmds[k].value
<1> DEFINE places == {k \in DOMAIN cmds : cmds[k].event = event}
<1>1. LastValue(cmds, event, default) = IF places = {} THEN default ELSE cmds[Max(places)].value
  BY DEF LastValue
<1>2. CASE places # {}
  <2>1. places \in SUBSET (1..Len(cmds)) /\ 1..Len(cmds) \in SUBSET Int /\ Len(cmds) \in Nat
    OBVIOUS
  <2>2. IsFiniteSet(1..Len(cmds))
    BY <2>1, FS_Interval
  <2> HIDE DEF places
  <2>3. IsFiniteSet(places) /\ places \in SUBSET Int
    BY <2>1, <2>2, FS_Subset
  <2>4. Max(places) \in places
    BY <1>2, <2>3, MaxExists
  <2> QED BY <1>1, <1>2, <2>4 DEF places
<1>3. CASE places = {}
  BY <1>1, <1>3
<1> QED BY <1>2, <1>3

LEMMA CommandFacts ==
  ASSUME NEW cmd \in Command
  PROVE  /\ cmd.event \in {EVENT_VOLUME, EVENT_CHANNEL, EVENT_SEEKUP, EVENT_SEEKDOWN}
         /\ cmd.event = EVENT_VOLUME => cmd.value \in Byte
         /\ cmd.event = EVENT_CHANNEL => cmd.value \in Word
<1>1. EVENT_VOLUME # EVENT_CHANNEL /\ EVENT_VOLUME # EVENT_SEEKUP /\ EVENT_VOLUME # EVENT_SEEKDOWN
        /\ EVENT_CHANNEL # EVENT_SEEKUP /\ EVENT_CHANNEL # EVENT_SEEKDOWN
  BY DEF EVENT_VOLUME, EVENT_CHANNEL, EVENT_SEEKUP, EVENT_SEEKDOWN
<1> QED BY <1>1 DEF Command

LEMMA EventKeeps ==
  ASSUME ServiceInv, NEW c \in Client, Event(c)
  PROVE  /\ ServiceInv'
         /\ RequestsTunable /\ ChannelInv => ChannelInv'
<1> USE DEF ServiceInv
<1>1. PICK cmds \in Messages :
        /\ to_set' = to_set \union {cmds[k].event : k \in DOMAIN cmds}
        /\ new_volume' = LastValue(cmds, EVENT_VOLUME, new_volume)
        /\ new_channel' = LastValue(cmds, EVENT_CHANNEL, new_channel)
  BY Zenon DEF Event
<1>2. /\ requests < MaxRequests /\ requests' = requests + 1
      /\ UNCHANGED << tunerVars, rdsVars, clientVars, decoded, failures >>
  BY Zenon DEF Event
<1>3. cmds \in Seq(Command) /\ \A k \in DOMAIN cmds : cmds[k] \in Command
  BY ServiceAssumption
<1>4. TypeOK'
  <2>1. \A k \in DOMAIN cmds : cmds[k].event \in {EVENT_VOLUME, EVENT_CHANNEL, EVENT_SEEKUP, EVENT_SEEKDOWN}
    BY <1>3, CommandFacts
  <2>2. to_set' \subseteq {EVENT_VOLUME, EVENT_CHANNEL, EVENT_SEEKUP, EVENT_SEEKDOWN}
    BY <1>1, <2>1 DEF TypeOK
  <2>3. new_volume' \in Byte
    <3>1. new_volume \in Byte
      BY DEF TypeOK
    <3> QED BY <1>1, <1>3, <3>1, LastValueType, CommandFacts
  <2>4. new_channel' \in Word
    <3>1. new_channel \in Word
      BY DEF TypeOK
    <3> QED BY <1>1, <1>3, <3>1, LastValueType, CommandFacts
  <2>5. requests' \in 0..MaxRequests
    BY <1>2, ServiceAssumption DEF TypeOK
  <2> QED BY <1>2, <2>2, <2>3, <2>4, <2>5 DEF TypeOK, tunerVars, rdsVars, clientVars
<1>5. UNCHANGED << tuned, shown, volume, rest, name, text, prev_name, prev_text, connected, queue, view, trusted >>
  BY <1>2 DEF tunerVars, rdsVars, clientVars
<1>6. PlaceInv' /\ StringsInv'
  BY <1>5 DEF PlaceInv, StringsInv
<1>7. ToldInv'
  <2>1. Current' = Current
    BY <1>5 DEF Current
  <2> QED BY <1>5, <2>1 DEF ToldInv
<1>8. ASSUME RequestsTunable, ChannelInv PROVE ChannelInv'
  <2>1. ASSUME EVENT_CHANNEL \in to_set' PROVE Tunable(new_channel')
    <3>1. CASE \E k \in DOMAIN cmds : cmds[k].event = EVENT_CHANNEL /\ new_channel' = cmds[k].value
      BY <1>8, <3>1 DEF RequestsTunable, Tunable
    <3>2. CASE new_channel' = new_channel /\ \A k \in DOMAIN cmds : cmds[k].event # EVENT_CHANNEL
      <4>1. EVENT_CHANNEL \in to_set
        BY <1>1, <2>1, <3>2
      <4> QED BY <1>8, <3>2, <4>1 DEF ChannelInv
    <3> QED BY <1>1, <1>3, <3>1, <3>2, LastValueType
  <2> QED BY <1>5, <1>8, <2>1 DEF ChannelInv
<1> QED BY <1>4, <1>6, <1>7, <1>8

LEMMA VolumeOutcomesFacts ==
  ASSUME ServiceInv, NEW v \in VolumeOutcomes
  PROVE  /\ v.volume \in VolumeRange /\ v.failed \in {0, 1} /\ v.ret \in Int
         /\ v.ret # -1 => v.failed = 0 /\ v.ret = v.volume
         /\ v.ret = -1 /\ v.failed = 0 => v.volume = volume
<1>1. volume \in VolumeRange /\ new_volume \in Nat /\ \A n \in VolumeRange : n \in Int /\ n # -1
  BY ServiceTyped DEF ServiceInv, VolumeRange, FM_TUNER_VOLUME_MIN, FM_TUNER_VOLUME_MAX
<1>2. CASE EVENT_VOLUME \in to_set
  <2>1. v \in SetVolumeOutcomes(volume, new_volume)
    BY <1>2 DEF VolumeOutcomes
  <2>2. /\ v.volume \in VolumeRange /\ v.failed \in {0, 1}
        /\ v.failed = 0 => v.ret = v.volume
        /\ v.failed = 1 => v.ret = -1
    BY <1>1, <2>1, SetVolumeOutcomesType
  <2> QED BY <1>1, <2>2
<1>3. CASE EVENT_VOLUME \notin to_set
  BY <1>1, <1>3 DEF VolumeOutcomes
<1> QED BY <1>2, <1>3

LEMMA LoopKeeps ==
  ASSUME ServiceInv, Loop
  PROVE  ServiceInv' /\ (ChannelInv => ChannelInv')
<1> USE DEF ServiceInv
<1>1. PICK v \in VolumeOutcomes, ch \in ChannelOutcomes :
        /\ failures' = failures + v.failed + ch.failed
        /\ failures' <= MaxFailures
        /\ rest' = (rest /\ ch.rest)
        /\ volume' = v.volume
        /\ tuned' = ch.tuned
        /\ shown' = ch.shown
        /\ trusted' = (trusted \ (FailedField(v, "volume") \union FailedField(ch, "channel")))
                         \union (IF v.ret # -1 THEN {"volume"} ELSE {})
                         \union (IF rest' /\ ch.ret # -1 THEN {"channel"} ELSE {})
        /\ Broadcast([f \in Field |->
             CASE f = "volume"  -> IfSet(v.ret, Uint8(v.ret))
               [] f = "channel" -> IfSet(ch.ret, Uint16(ch.ret))
               [] f = "name"    -> IfChanged(prev_name, name')
               [] f = "text"    -> IfChanged(prev_text, text')])
  BY Zenon DEF Loop
<1> DEFINE m == [f \in Field |->
             CASE f = "volume"  -> IfSet(v.ret, Uint8(v.ret))
               [] f = "channel" -> IfSet(ch.ret, Uint16(ch.ret))
               [] f = "name"    -> IfChanged(prev_name, name')
               [] f = "text"    -> IfChanged(prev_text, text')]
<1>2. /\ \A c \in connected : Len(queue[c]) < MaxQueue
      /\ RdsDecode
      /\ prev_name' = name' /\ prev_text' = text'
      /\ to_set' = {}
      /\ UNCHANGED << new_volume, new_channel, connected, view, requests >>
  BY Zenon DEF Loop
<1>3. /\ v.volume \in VolumeRange /\ v.failed \in {0, 1} /\ v.ret \in Int
      /\ v.ret # -1 => v.failed = 0 /\ v.ret = v.volume
      /\ v.ret = -1 /\ v.failed = 0 => v.volume = volume
  BY VolumeOutcomesFacts
<1>4. /\ RoundType(ch)
      /\ ch.failed = 0 => ch.rest /\ (ch.ret = -1 => ch.tuned = tuned)
      /\ rest /\ ch.rest =>
           /\ ch.shown = ch.tuned
           /\ ch.ret # -1 /\ (EVENT_CHANNEL \in to_set => Tunable(new_channel)) => ch.ret = ChannelOf(ch.tuned)
  BY ServiceTyped, ChannelOutcomesType DEF PlaceInv
<1>5. name' \in Names /\ text' \in Texts /\ decoded' \in 0..MaxDecoded
  BY <1>2, ServiceAssumption DEF RdsDecode, TypeOK
<1>6. /\ m["volume"] = IfSet(v.ret, Uint8(v.ret)) /\ m["channel"] = IfSet(ch.ret, Uint16(ch.ret))
      /\ m["name"] = IfChanged(prev_name, name') /\ m["text"] = IfChanged(prev_text, text')
  BY DEF Field
<1>7. m \in Message
  <2>1. \A f \in Field : m[f] \in Value
    BY <1>3, <1>4, <1>5, <1>6, ValueFacts DEF Field, IfSet, IfChanged, RoundType
  <2> QED BY <2>1 DEF Message
<1>8. queue' = [c \in Client |-> IF c \in connected /\ m # Nothing THEN Append(queue[c], m) ELSE queue[c]]
  BY <1>1 DEF Broadcast
<1> HIDE DEF m
<1>9. ASSUME NEW c \in connected
      PROVE  /\ c \in Client /\ queue[c] \in Seq(Message)
             /\ queue'[c] = IF m # Nothing THEN Append(queue[c], m) ELSE queue[c]
  BY <1>8, ServiceTyped
<1>10. TypeOK'
  <2>1. queue' \in [Client -> Seq(Message)]
    <3>1. \A c \in Client : queue[c] \in Seq(Message) /\ Append(queue[c], m) \in Seq(Message)
      BY <1>7, ServiceTyped
    <3> QED BY <1>8, <3>1
  <2>2. \A c \in Client : Len(queue'[c]) <= MaxQueue
    <3> TAKE c \in Client
    <3>1. /\ Len(queue[c]) \in Nat /\ Len(queue[c]) <= MaxQueue /\ MaxQueue \in Nat
          /\ Len(Append(queue[c], m)) = Len(queue[c]) + 1
      BY <1>7, ServiceTyped, ServiceAssumption, AppendFacts DEF TypeOK
    <3>2. c \in connected => Len(queue[c]) < MaxQueue
      BY <1>2
    <3> QED BY <1>8, <3>1, <3>2
  <2>3. failures' \in 0..MaxFailures
    <3>1. failures \in Nat /\ v.failed \in Nat /\ ch.failed \in Nat
      BY <1>3, <1>4, ServiceTyped DEF RoundType
    <3>2. failures' \in Nat /\ failures' <= MaxFailures
      BY <1>1, <3>1
    <3> QED BY <3>2, ServiceAssumption
  <2>4. trusted' \subseteq Field
    BY <1>1, ServiceTyped DEF Field
  <2>5. tuned' \in ChannelRegister /\ shown' \in ChannelRegister /\ volume' \in VolumeRange /\ rest' \in BOOLEAN
    BY <1>1, <1>3, <1>4 DEF RoundType
  <2> QED BY <1>2, <1>5, <2>1, <2>2, <2>3, <2>4, <2>5 DEF TypeOK, Message
<1>11. /\ rest' => rest /\ ch.rest
       /\ "channel" \in trusted' => rest'
  BY <1>1, <1>4, ServiceTyped DEF PlaceInv, FailedField
<1>12. PlaceInv'
  BY <1>1, <1>4, <1>11 DEF PlaceInv
<1>13. \A c \in connected, f \in Field :
         /\ m[f] # None => Sum(queue'[c], view[c], f, m[f])
         /\ \A w : m[f] = None /\ Sum(queue[c], view[c], f, w) => Sum(queue'[c], view[c], f, w)
         /\ \A w : Sum(queue[c], view[c], f, w) /\ Differ(queue[c], view[c], f) /\ (m[f] # w \/ m[f] = None)
                     => Differ(queue'[c], view[c], f)
  BY <1>7, <1>9, SumOfBroadcast
<1>14. {"name", "text"} \subseteq trusted'
  BY <1>1 DEF StringsInv, FailedField
<1>15. m["name"] # name /\ m["text"] # text
  BY <1>5, <1>6, ServiceTyped, ValueFacts DEF IfChanged, StringsInv
<1>16. \A c \in connected : /\ Sum(queue[c], view[c], "name", name) /\ Sum(queue[c], view[c], "text", text)
                            /\ Differ(queue[c], view[c], "name") /\ Differ(queue[c], view[c], "text")
  BY CurrentFacts DEF StringsInv, ToldInv
<1>17. StringsInv'
  <2>1. \A c \in connected : Differ(queue'[c], view[c], "name") /\ Differ(queue'[c], view[c], "text")
    BY <1>13, <1>15, <1>16 DEF Field
  <2> QED BY <1>2, <1>14, <2>1 DEF StringsInv
<1>18. \A c \in connected : Sum(queue'[c], view[c], "name", name') /\ Sum(queue'[c], view[c], "text", text')
  <2>1. \A c \in connected : Sum(queue'[c], view[c], "name", name')
    <3>1. CASE name' = name
      <4>1. m["name"] = None
        BY <1>6, <3>1 DEF IfChanged, StringsInv
      <4> QED BY <1>13, <1>16, <3>1, <4>1 DEF Field
    <3>2. CASE name' # name
      <4>1. m["name"] = name' /\ m["name"] # None
        BY <1>5, <1>6, <3>2, ValueFacts DEF IfChanged, StringsInv
      <4> QED BY <1>13, <4>1 DEF Field
    <3> QED BY <3>1, <3>2
  <2>2. \A c \in connected : Sum(queue'[c], view[c], "text", text')
    <3>1. CASE text' = text
      <4>1. m["text"] = None
        BY <1>6, <3>1 DEF IfChanged, StringsInv
      <4> QED BY <1>13, <1>16, <3>1, <4>1 DEF Field
    <3>2. CASE text' # text
      <4>1. m["text"] = text' /\ m["text"] # None
        BY <1>5, <1>6, <3>2, ValueFacts DEF IfChanged, StringsInv
      <4> QED BY <1>13, <4>1 DEF Field
    <3> QED BY <3>1, <3>2
  <2> QED BY <2>1, <2>2
<1>19. ASSUME "volume" \in trusted'
       PROVE  \A c \in connected : Sum(queue'[c], view[c], "volume", volume')
  <2>1. CASE v.ret = -1
    <3>1. m["volume"] = None /\ v.failed = 0 /\ "volume" \in trusted
      BY <1>1, <1>3, <1>6, <1>19, <2>1 DEF IfSet, FailedField
    <3>2. volume' = volume
      BY <1>1, <1>3, <2>1, <3>1
    <3> QED BY <1>13, <3>1, <3>2, CurrentFacts DEF Field, ToldInv
  <2>2. CASE v.ret # -1
    <3>1. m["volume"] = volume' /\ m["volume"] # None
      BY <1>1, <1>3, <1>6, <2>2, ValueFacts DEF IfSet
    <3> QED BY <1>13, <3>1 DEF Field
  <2> QED BY <2>1, <2>2
<1>20. ToldInv'
  <2>1. Current["volume"]' = volume' /\ Current["name"]' = name' /\ Current["text"]' = text'
    BY DEF Current, Field
  <2>2. \A f \in trusted' \ {"channel"} : f \in {"volume", "name", "text"}
    BY <1>10 DEF TypeOK, Field
  <2> QED BY <1>2, <1>18, <1>19, <2>1, <2>2 DEF ToldInv
<1>21. ASSUME ChannelInv PROVE ChannelInv'
  <2>1. ASSUME "channel" \in trusted'
        PROVE  \A c \in connected : Sum(queue'[c], view[c], "channel", ChannelOf(tuned'))
    <3>1. rest /\ ch.rest
      BY <1>11, <2>1
    <3>2. CASE ch.ret = -1
      <4>1. m["channel"] = None /\ "channel" \in trusted
        BY <1>1, <1>6, <2>1, <3>2 DEF IfSet
      <4>2. tuned' = tuned
        <5>1. ch.failed = 0
          BY <1>1, <2>1, <3>2 DEF FailedField
        <5> QED BY <1>1, <1>4, <3>2, <5>1
      <4> QED BY <1>13, <1>21, <4>1, <4>2 DEF Field, ChannelInv
    <3>3. CASE ch.ret # -1
      <4>1. ch.ret = ChannelOf(tuned')
        BY <1>1, <1>4, <1>21, <3>1, <3>3 DEF ChannelInv
      <4>2. tuned' \in ChannelRegister
        BY <1>10 DEF TypeOK
      <4>3. m["channel"] = ChannelOf(tuned') /\ m["channel"] # None
        BY <1>6, <3>3, <4>1, <4>2, ValueFacts DEF IfSet
      <4> QED BY <1>13, <4>3 DEF Field
    <3> QED BY <3>2, <3>3
  <2> QED BY <1>2, <2>1 DEF ChannelInv
<1> QED BY <1>10, <1>12, <1>17, <1>20, <1>21

LEMMA ServiceStutters ==
  ASSUME ServiceInv, UNCHANGED vars
  PROVE  ServiceInv' /\ (ChannelInv => ChannelInv')
<1>1. /\ UNCHANGED << tuned, shown, volume, rest, name, text, prev_name, prev_text >>
      /\ UNCHANGED << to_set, new_volume, new_channel, connected, queue, view, trusted >>
      /\ UNCHANGED << requests, decoded, failures >>
  BY Zenon DEF vars, tunerVars, rdsVars, cacheVars, clientVars
<1>2. TypeOK'
  BY <1>1 DEF ServiceInv, TypeOK
<1>3. Current' = Current
  BY <1>1 DEF Current
<1>4. PlaceInv' /\ StringsInv' /\ ToldInv'
  BY <1>1, <1>3 DEF ServiceInv, PlaceInv, StringsInv, ToldInv
<1>5. ChannelInv => ChannelInv'
  BY <1>1 DEF ChannelInv
<1> QED BY <1>2, <1>4, <1>5 DEF ServiceInv

LEMMA ServiceStep ==
  ASSUME ServiceInv, [Next]_vars
  PROVE  /\ ServiceInv'
         /\ RequestsTunable /\ ChannelInv => ChannelInv'
<1>1. CASE UNCHANGED vars
  BY <1>1, ServiceStutters
<1>2. CASE Loop
  BY <1>2, LoopKeeps
<1>3. ASSUME NEW c \in Client, Join(c) \/ Leave(c) \/ Event(c) \/ Deliver(c)
      PROVE  /\ ServiceInv'
             /\ RequestsTunable /\ ChannelInv => ChannelInv'
  BY <1>3, JoinKeeps, LeaveKeeps, EventKeeps, DeliverKeeps
<1> QED BY <1>1, <1>2, <1>3 DEF Next

-----------------------------------------------------------------------------

(* In every reachable state, for any clients, messages, queues and         *)
(* failures: the types of the handlers, one place of the tuner while no    *)
(* call has been cut off, and, for every client, messages that add up to   *)
(* what the tuner and the decoder are at.                                  *)
THEOREM ServiceInvariance == Spec => []ServiceInv
<1>1. Init => ServiceInv
  BY ServiceInit
<1>2. ServiceInv /\ [Next]_vars => ServiceInv'
  BY ServiceStep
<1> QED BY <1>1, <1>2, PTL DEF Spec

(* Type correctness of the handlers: what __parse_event caches fits in the *)
(* bytes it goes to, and no queue is longer than tcp_send lets it be.      *)
THEOREM ServiceTypeCorrect == Spec => []TypeOK
<1>1. ServiceInv => TypeOK
  BY DEF ServiceInv
<1> QED BY <1>1, ServiceInvariance, PTL

(* README.md:7 of the service: no client gets the same name, or text,      *)
(* twice in a row, however its messages are delayed, whoever else comes    *)
(* and goes, and whatever calls of the tuner fail.                         *)
THEOREM ServiceStringsNotRepeated == Spec => []StringsNotRepeated
<1>1. ServiceInv => StringsNotRepeated
  <2> SUFFICES ASSUME ServiceInv, NEW c \in connected, NEW f \in {"name", "text"},
                      NEW k \in DOMAIN queue[c], queue[c][k][f] # None
               PROVE  LET before == {j \in 1..(k - 1) : queue[c][j][f] # None}
                      IN  queue[c][k][f] # IF before = {} THEN view[c][f] ELSE queue[c][Max(before)][f]
    BY Zenon DEF StringsNotRepeated
  <2>1. queue[c] \in Seq(Message) /\ f \in Field /\ Differ(queue[c], view[c], f)
    BY ServiceTyped DEF ServiceInv, StringsInv, Field
  <2> QED BY <2>1, DifferFromLast
<1> QED BY <1>1, ServiceInvariance, PTL

(* README.md:3 of the service: what a client was sent adds up to what the  *)
(* tuner and the decoder are at, for every client, however long it has     *)
(* been connected, except where a call has failed since.  The one          *)
(* condition is that clients ask for channels of the band:                 *)
(* fm_tuner_set_channel reports any other as if it had been set.           *)
THEOREM ServiceViewsAgree ==
  ASSUME RequestsTunable
  PROVE  Spec => []ViewsAgree
<1>1. Init => ServiceInv /\ ChannelInv
  BY ServiceInit
<1>2. ServiceInv /\ ChannelInv /\ [Next]_vars => (ServiceInv /\ ChannelInv)'
  BY ServiceStep
<1>3. ServiceInv /\ ChannelInv => ViewsAgree
  <2> SUFFICES ASSUME ServiceInv, ChannelInv, NEW c \in connected, NEW f \in trusted
               PROVE  Sum(queue[c], view[c], f, Current[f])
    BY DEF ViewsAgree, AddsUp, Sum
  <2>1. CASE f = "channel"
    BY <2>1, CurrentFacts DEF ChannelInv
  <2>2. CASE f # "channel"
    BY <2>2 DEF ServiceInv, ToldInv
  <2> QED BY <2>1, <2>2
<1> QED BY <1>1, <1>2, <1>3, PTL DEF Spec
=============================================================================
