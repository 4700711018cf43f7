-------------------------- MODULE ClientBufferProofs --------------------------
(***************************************************************************)
(* Proofs about ClientBuffer and the parser of Protocol, for every stream  *)
(* of messages, however TCP cuts it.  The parser is a recursive function:  *)
(* that it is well-defined, what its type is and what it makes of a        *)
(* message are each an induction, by the least counterexample.             *)
(***************************************************************************)
EXTENDS ClientBuffer, WellFoundedInduction, SequenceTheorems, TLAPS

(* Induction: a set of natural numbers that is not empty has a least one.  *)
LEMMA Least ==
  ASSUME NEW T \in SUBSET Nat, T # {}
  PROVE  \E x \in T : \A y \in T : x <= y
<1>1. IsWellFoundedOn(OpToRel(<, Nat), Nat)
  BY NatLessThanWellFounded
<1>2. \E x \in T : \A y \in T : ~ (<<y, x>> \in OpToRel(<, Nat))
  BY <1>1, WFMin
<1>3. PICK x \in T : \A y \in T : ~ (<<y, x>> \in OpToRel(<, Nat))
  BY <1>2
<1>4. \A y \in T : <<y, x>> \in Nat \X Nat
  OBVIOUS
<1>5. \A y \in T : ~ (y < x)
  <2> SUFFICES ASSUME NEW y \in T, y < x PROVE FALSE
    OBVIOUS
  <2>1. <<y, x>> \in OpToRel(<, Nat)
    <3>1. <<y, x>> \in {ss \in Nat \X Nat : ss[1] < ss[2]}
      BY <1>4
    <3> QED BY <3>1, Zenon DEF OpToRel
  <2> QED BY <2>1, <1>3
<1> QED BY <1>5

(* The two forms of induction used below, on an interval.                  *)
LEMMA Upward ==
  ASSUME NEW a \in Nat, NEW b \in Nat, NEW S, a \in S,
         \A n \in a..b : n \in S /\ n # b => n + 1 \in S
  PROVE  \A n \in a..b : n \in S
<1> DEFINE Wrong == {n \in a..b : n \notin S}
<1> SUFFICES ASSUME Wrong # {} PROVE FALSE
  OBVIOUS
<1>1. PICK n \in Wrong : \A k \in Wrong : n <= k
  <2>1. Wrong \in SUBSET Nat
    OBVIOUS
  <2> HIDE DEF Wrong
  <2> QED BY <2>1, Least
<1>2. n # a /\ n - 1 \in a..b /\ n - 1 \notin Wrong
  BY <1>1
<1>3. n - 1 \in S /\ n - 1 # b /\ (n - 1) + 1 = n
  BY <1>1, <1>2
<1>4. n \in S
  BY <1>2, <1>3
<1> QED BY <1>1, <1>4

LEMMA Downward ==
  ASSUME NEW a \in Nat, NEW b \in Nat, NEW S, b \in S,
         \A n \in a..b : n + 1 \in S /\ n # b => n \in S
  PROVE  \A n \in a..b : n \in S
<1> DEFINE R == {k \in 0..b : b - k \in S}
<1>1. \A k \in 0..(b - a) : b - k \in a..b /\ (k # b - a => (b - (k + 1)) + 1 = b - k /\ b - (k + 1) \in a..b /\ b - (k + 1) # b)
  OBVIOUS
<1> SUFFICES ASSUME NEW n \in a..b PROVE n \in S
  OBVIOUS
<1>2. 0 \in R
  OBVIOUS
<1>3. \A k \in 0..(b - a) : k \in R /\ k # b - a => k + 1 \in R
  BY <1>1
<1>4. b - a \in Nat /\ b - n \in 0..(b - a) /\ b - (b - n) = n
  OBVIOUS
<1>5. \A k \in 0..(b - a) : k \in R
  <2> HIDE DEF R
  <2> QED BY <1>2, <1>3, <1>4, Upward
<1> QED BY <1>4, <1>5

(* Recursion: F says how a function on D follows from itself, at a place x *)
(* from smaller places only, in the measure m.                             *)
Descends(F, m, D, T) ==
  /\ T # {} /\ m \in [D -> Nat] /\ F \in [[D -> T] -> [D -> T]]
  /\ \A f, g \in [D -> T] : \A x \in D :
       (\A y \in D : m[y] < m[x] => f[y] = g[y]) => F[f][x] = F[g][x]

HasFixpoint(F, D, T) == \E f \in [D -> T] : f = F[f]

LEMMA Fixpoint ==
  ASSUME NEW D, NEW T, NEW m, NEW F, Descends(F, m, D, T)
  PROVE  HasFixpoint(F, D, T)
<1> USE DEF Descends
<1> DEFINE Good(f, n) == \A x \in D : m[x] < n => f[x] = F[f][x]
<1>1. PICK f0 \in [D -> T] : TRUE
  <2>1. PICK t \in T : TRUE
    OBVIOUS
  <2>2. [x \in D |-> t] \in [D -> T]
    OBVIOUS
  <2> QED BY <2>2
<1>2. \A n \in Nat : \E f \in [D -> T] : Good(f, n)
  <2> DEFINE Wrong == {n \in Nat : ~ \E f \in [D -> T] : Good(f, n)}
  <2> SUFFICES ASSUME Wrong # {} PROVE FALSE
    OBVIOUS
  <2>1. PICK n \in Wrong : \A k \in Wrong : n <= k
    <3> HIDE DEF Wrong
    <3>1. Wrong \in SUBSET Nat
      BY DEF Wrong
    <3> QED BY <3>1, Least
  <2>2. n # 0
    <3>1. Good(f0, 0)
      OBVIOUS
    <3> QED BY <3>1
  <2>3. n - 1 \in Nat /\ n - 1 \notin Wrong
    BY <2>1, <2>2
  <2>4. PICK g \in [D -> T] : Good(g, n - 1)
    BY <2>3
  <2>5. F[g] \in [D -> T]
    OBVIOUS
  <2>6. ASSUME NEW x \in D, m[x] < n PROVE F[g][x] = F[F[g]][x]
    <3>1. \A y \in D : m[y] < m[x] => g[y] = F[g][y]
      <4>1. \A y \in D : m[y] \in Nat
        OBVIOUS
      <4> QED BY <2>3, <2>4, <2>6, <4>1
    <3> QED BY <2>5, <3>1 DEF Descends
  <2>7. Good(F[g], n)
    BY <2>6
  <2> QED BY <2>5, <2>7
<1> DEFINE G == [n \in Nat |-> CHOOSE f \in [D -> T] : Good(f, n)]
<1>3. \A n \in Nat : G[n] \in [D -> T] /\ Good(G[n], n)
  BY <1>2
<1> HIDE DEF G
<1>4. ASSUME NEW f \in [D -> T], NEW g \in [D -> T], NEW n \in Nat, Good(f, n), Good(g, n)
      PROVE  \A x \in D : m[x] < n => f[x] = g[x]
  <2> DEFINE Diff == {k \in Nat : \E x \in D : m[x] = k /\ k < n /\ f[x] # g[x]}
  <2> SUFFICES ASSUME Diff # {} PROVE FALSE
    OBVIOUS
  <2>1. PICK k \in Diff : \A j \in Diff : k <= j
    <3> HIDE DEF Diff
    <3>1. Diff \in SUBSET Nat
      BY DEF Diff
    <3> QED BY <3>1, Least
  <2>2. PICK x \in D : m[x] = k /\ k < n /\ f[x] # g[x]
    BY <2>1
  <2>3. \A y \in D : m[y] < m[x] => f[y] = g[y]
    <3> SUFFICES ASSUME NEW y \in D, m[y] < m[x], f[y] # g[y] PROVE FALSE
      OBVIOUS
    <3>1. m[y] \in Nat /\ m[y] < n
      BY <2>2
    <3>2. m[y] \in Diff
      BY <3>1
    <3> QED BY <3>2, <2>1, <2>2
  <2>4. F[f][x] = F[g][x]
    BY <2>3 DEF Descends
  <2> QED BY <2>2, <2>4, <1>4
<1> DEFINE h == [x \in D |-> G[m[x] + 1][x]]
<1>5. h \in [D -> T]
  BY <1>3
<1>6. ASSUME NEW x \in D PROVE h[x] = F[h][x]
  <2>1. m[x] \in Nat /\ m[x] + 1 \in Nat
    OBVIOUS
  <2> DEFINE g == G[m[x] + 1]
  <2>2. g \in [D -> T] /\ Good(g, m[x] + 1)
    BY <1>3, <2>1
  <2>3. g[x] = F[g][x]
    BY <2>1, <2>2
  <2>4. \A y \in D : m[y] < m[x] => h[y] = g[y]
    <3> SUFFICES ASSUME NEW y \in D, m[y] < m[x] PROVE h[y] = g[y]
      OBVIOUS
    <3>1. m[y] \in Nat /\ m[y] + 1 \in Nat /\ m[y] < m[y] + 1 /\ m[y] + 1 <= m[x] + 1
      BY <2>1
    <3>2. G[m[y] + 1] \in [D -> T] /\ Good(G[m[y] + 1], m[y] + 1)
      BY <1>3, <3>1
    <3>3. Good(g, m[y] + 1)
      <4>1. \A z \in D : m[z] \in Nat
        OBVIOUS
      <4> QED BY <2>2, <3>1, <4>1
    <3> HIDE DEF g
    <3>4. G[m[y] + 1][y] = g[y]
      <4> HIDE DEF Good
      <4> QED BY <1>4, <2>2, <3>1, <3>2, <3>3
    <3> QED BY <3>4
  <2> HIDE DEF h, g
  <2>5. F[h][x] = F[g][x]
    BY <1>5, <2>2, <2>4 DEF Descends
  <2>6. h[x] = g[x]
    BY DEF h, g
  <2> QED BY <2>3, <2>5, <2>6
<1>7. h = F[h]
  <2> HIDE DEF h
  <2>1. F[h] \in [D -> T]
    BY <1>5
  <2> QED BY <1>5, <1>6, <2>1
<1> QED BY <1>5, <1>7 DEF HasFixpoint

-----------------------------------------------------------------------------
(* Sequences one after the other.                                          *)

JoinStep(parts, f) == [i \in 0..Len(parts) |-> IF i = 0 THEN << >> ELSE f[i - 1] \o parts[i]]

LEMMA JoinedDefined ==
  ASSUME NEW T, NEW parts \in Seq(Seq(T))
  PROVE  \E f \in [0..Len(parts) -> Seq(T)] : f = JoinStep(parts, f)
<1> DEFINE D == 0..Len(parts)
           F == [f \in [D -> Seq(T)] |-> JoinStep(parts, f)]
           m == [i \in D |-> i]
<1>1. \A i \in D : i # 0 => parts[i] \in Seq(T) /\ i - 1 \in D
  OBVIOUS
<1>2. ASSUME NEW f \in [D -> Seq(T)] PROVE JoinStep(parts, f) \in [D -> Seq(T)]
  <2>1. ASSUME NEW i \in D PROVE (IF i = 0 THEN << >> ELSE f[i - 1] \o parts[i]) \in Seq(T)
    <3>1. CASE i = 0
      BY <3>1, EmptySeq
    <3>2. CASE i # 0
      <4>1. parts[i] \in Seq(T) /\ f[i - 1] \in Seq(T)
        BY <1>1, <3>2
      <4> QED BY <3>2, <4>1, ConcatProperties
    <3> QED BY <3>1, <3>2
  <2> QED BY <2>1 DEF JoinStep
<1>3. F \in [[D -> Seq(T)] -> [D -> Seq(T)]]
  BY <1>2
<1>4. m \in [D -> Nat]
  OBVIOUS
<1>5. ASSUME NEW f \in [D -> Seq(T)], NEW g \in [D -> Seq(T)], NEW x \in D,
             \A y \in D : m[y] < m[x] => f[y] = g[y]
      PROVE  F[f][x] = F[g][x]
  <2>1. x # 0 => f[x - 1] = g[x - 1]
    BY <1>1, <1>5
  <2> QED BY <2>1 DEF JoinStep
<1>6. Seq(T) # {}
  BY EmptySeq
<1>7. \E f \in [D -> Seq(T)] : f = F[f]
  <2> DEFINE S == Seq(T)
  <2>1. Descends(F, m, D, S)
    BY <1>3, <1>4, <1>5, <1>6 DEF Descends
  <2>2. HasFixpoint(F, D, S)
    <3> HIDE DEF F, m, D, S
    <3> QED BY <2>1, Fixpoint
  <2> QED BY <2>2 DEF HasFixpoint
<1> QED BY <1>7

LEMMA JoinedEquation ==
  ASSUME NEW T, NEW parts \in Seq(Seq(T))
  PROVE  /\ Joined(parts, 0) = << >>
         /\ \A n \in 1..Len(parts) : Joined(parts, n) = Joined(parts, n - 1) \o parts[n]
         /\ \A n \in 0..Len(parts) : Joined(parts, n) \in Seq(T)
<1> DEFINE f == CHOOSE f : f = [i \in 0..Len(parts) |-> IF i = 0 THEN << >> ELSE f[i - 1] \o parts[i]]
<1>1. f = JoinStep(parts, f)
  <2>1. \E g : g = JoinStep(parts, g)
    BY JoinedDefined
  <2> QED BY <2>1 DEF JoinStep
<1>2. \A n : Joined(parts, n) = f[n]
  BY DEF Joined
<1> HIDE DEF f
<1>3. f[0] = << >> /\ \A n \in 1..Len(parts) : f[n] = f[n - 1] \o parts[n]
  BY <1>1 DEF JoinStep
<1>4. \A n \in 0..Len(parts) : f[n] \in Seq(T)
  <2> DEFINE S == {n \in 0..Len(parts) : f[n] \in Seq(T)}
  <2>1. Len(parts) \in Nat /\ 0 \in S
    <3>1. f[0] \in Seq(T)
      BY <1>3, EmptySeq
    <3> QED BY <3>1, LenProperties
  <2>2. ASSUME NEW n \in 0..Len(parts), n \in S, n # Len(parts) PROVE n + 1 \in S
    <3>1. n + 1 \in 0..Len(parts) /\ n + 1 \in 1..Len(parts) /\ (n + 1) - 1 = n
      BY <2>1, <2>2
    <3>2. f[n] \in Seq(T) /\ parts[n + 1] \in Seq(T)
      BY <2>2, <3>1, ElementOfSeq
    <3>3. f[n] \o parts[n + 1] \in Seq(T)
      BY <3>2, ConcatProperties
    <3>4. f[n + 1] = f[n] \o parts[n + 1]
      BY <1>3, <3>1
    <3>5. f[n + 1] \in Seq(T)
      BY <3>3, <3>4
    <3> QED BY <3>1, <3>5
  <2>3. \A n \in 0..Len(parts) : n \in S
    <3> HIDE DEF S
    <3> QED BY <2>1, <2>2, Upward
  <2> QED BY <2>3
<1> QED BY <1>2, <1>3, <1>4

(* Where the n-th part lies when the first k are put one after the other.  *)
LEMMA JoinedStep ==
  ASSUME NEW T, NEW parts \in Seq(Seq(T)), NEW n \in 1..Len(parts)
  PROVE  /\ Joined(parts, n - 1) \in Seq(T) /\ Joined(parts, n) \in Seq(T) /\ parts[n] \in Seq(T)
         /\ Len(Joined(parts, n)) = Len(Joined(parts, n - 1)) + Len(parts[n])
         /\ \A i \in 1..Len(Joined(parts, n)) :
              Joined(parts, n)[i] = IF i <= Len(Joined(parts, n - 1)) THEN Joined(parts, n - 1)[i]
                                    ELSE parts[n][i - Len(Joined(parts, n - 1))]
<1>1. n \in 0..Len(parts) /\ n - 1 \in 0..Len(parts)
  BY LenProperties
<1>2. Joined(parts, n - 1) \in Seq(T) /\ Joined(parts, n) \in Seq(T) /\ parts[n] \in Seq(T)
  BY <1>1, JoinedEquation, ElementOfSeq
<1>3. Joined(parts, n) = Joined(parts, n - 1) \o parts[n]
  BY JoinedEquation
<1>4. /\ Len(Joined(parts, n - 1) \o parts[n]) = Len(Joined(parts, n - 1)) + Len(parts[n])
      /\ \A i \in 1..(Len(Joined(parts, n - 1)) + Len(parts[n])) :
           (Joined(parts, n - 1) \o parts[n])[i] =
             IF i <= Len(Joined(parts, n - 1)) THEN Joined(parts, n - 1)[i]
             ELSE parts[n][i - Len(Joined(parts, n - 1))]
  BY <1>2, ConcatProperties
<1> QED BY <1>2, <1>3, <1>4

LEMMA JoinedPrefix ==
  ASSUME NEW T, NEW parts \in Seq(Seq(T)), NEW n \in 0..Len(parts), NEW k \in n..Len(parts)
  PROVE  /\ Joined(parts, n) \in Seq(T) /\ Joined(parts, k) \in Seq(T)
         /\ Len(Joined(parts, n)) <= Len(Joined(parts, k))
         /\ \A i \in 1..Len(Joined(parts, n)) : Joined(parts, k)[i] = Joined(parts, n)[i]
<1> DEFINE J(j) == Joined(parts, j)
           S == {j \in n..Len(parts) :
                   Len(J(n)) <= Len(J(j)) /\ \A i \in 1..Len(J(n)) : J(j)[i] = J(n)[i]}
<1>1. \A j \in 0..Len(parts) : J(j) \in Seq(T) /\ Len(J(j)) \in Nat
  BY JoinedEquation, LenProperties
<1>2. n \in S
  BY <1>1
<1>3. ASSUME NEW j \in n..Len(parts), j \in S, j # Len(parts) PROVE j + 1 \in S
  <2>1. j + 1 \in 1..Len(parts) /\ (j + 1) - 1 = j /\ j \in 0..Len(parts) /\ j + 1 \in 0..Len(parts)
    BY <1>3
  <2>2. /\ Len(J(j + 1)) = Len(J(j)) + Len(parts[j + 1]) /\ Len(parts[j + 1]) \in Nat
        /\ \A i \in 1..Len(J(j + 1)) : i <= Len(J(j)) => J(j + 1)[i] = J(j)[i]
    BY <2>1, JoinedStep, LenProperties
  <2> HIDE DEF J
  <2> QED BY <1>1, <1>3, <2>1, <2>2
<1>4. \A j \in n..Len(parts) : j \in S
  <2>1. n \in Nat /\ Len(parts) \in Nat
    BY LenProperties
  <2> HIDE DEF S
  <2> QED BY <1>2, <1>3, <2>1, Upward
<1> QED BY <1>1, <1>4

LEMMA JoinedPlace ==
  ASSUME NEW T, NEW parts \in Seq(Seq(T)), NEW n \in 1..Len(parts), NEW k \in n..Len(parts)
  PROVE  /\ Joined(parts, k) \in Seq(T) /\ Joined(parts, n - 1) \in Seq(T)
         /\ Len(Joined(parts, n - 1)) + Len(parts[n]) = Len(Joined(parts, n))
         /\ Len(Joined(parts, n)) <= Len(Joined(parts, k))
         /\ \A i \in 1..Len(parts[n]) : Joined(parts, k)[Len(Joined(parts, n - 1)) + i] = parts[n][i]
<1> DEFINE J(j) == Joined(parts, j)
<1>1. n \in 0..Len(parts) /\ n - 1 \in 0..Len(parts) /\ k \in 0..Len(parts)
  BY LenProperties
<1>2. /\ J(n) \in Seq(T) /\ J(k) \in Seq(T) /\ Len(J(n)) <= Len(J(k))
      /\ \A i \in 1..Len(J(n)) : J(k)[i] = J(n)[i]
  BY <1>1, JoinedPrefix
<1>3. /\ J(n - 1) \in Seq(T) /\ parts[n] \in Seq(T)
      /\ Len(J(n)) = Len(J(n - 1)) + Len(parts[n])
      /\ \A i \in 1..Len(J(n)) : J(n)[i] = IF i <= Len(J(n - 1)) THEN J(n - 1)[i] ELSE parts[n][i - Len(J(n - 1))]
  BY JoinedStep
<1>4. Len(J(n - 1)) \in Nat /\ Len(parts[n]) \in Nat
  BY <1>3, LenProperties
<1>5. ASSUME NEW i \in 1..Len(parts[n]) PROVE J(k)[Len(J(n - 1)) + i] = parts[n][i]
  <2> DEFINE a == Len(J(n - 1))
  <2>1. a + i \in 1..Len(J(n)) /\ ~(a + i <= a) /\ (a + i) - a = i
    BY <1>3, <1>4
  <2> HIDE DEF J
  <2> QED BY <1>2, <1>3, <2>1
<1> QED BY <1>2, <1>3, <1>5

(* What is put one after the other depends on the parts that are.          *)
LEMMA JoinedAgree ==
  ASSUME NEW T, NEW parts \in Seq(Seq(T)), NEW more \in Seq(Seq(T)),
         NEW n \in 0..Len(parts), n <= Len(more), \A i \in 1..n : parts[i] = more[i]
  PROVE  Joined(parts, n) = Joined(more, n)
<1> DEFINE S == {j \in 0..n : Joined(parts, j) = Joined(more, j)}
<1>1. n \in Nat /\ 0 \in S
  <2>1. Joined(parts, 0) = << >> /\ Joined(more, 0) = << >>
    BY JoinedEquation
  <2>2. n \in Nat
    BY LenProperties
  <2> QED BY <2>1, <2>2
<1>2. ASSUME NEW j \in 0..n, j \in S, j # n PROVE j + 1 \in S
  <2>1. /\ j + 1 \in 1..Len(parts) /\ j + 1 \in 1..Len(more) /\ (j + 1) - 1 = j
        /\ j + 1 \in 1..n /\ j + 1 \in 0..n
    BY <1>2, LenProperties
  <2>2. Joined(parts, j + 1) = Joined(parts, j) \o parts[j + 1]
    BY <2>1, JoinedEquation
  <2>3. Joined(more, j + 1) = Joined(more, j) \o more[j + 1]
    BY <2>1, JoinedEquation
  <2> QED BY <1>2, <2>1, <2>2, <2>3
<1>3. \A j \in 0..n : j \in S
  <2> HIDE DEF S
  <2> QED BY <1>1, <1>2, Upward
<1> QED BY <1>3

LEMMA JoinedGrows ==
  ASSUME NEW T, NEW parts \in Seq(Seq(T)), \A i \in 1..Len(parts) : parts[i] # << >>,
         NEW n \in 0..Len(parts), NEW k \in 0..Len(parts), n < k
  PROVE  Len(Joined(parts, n)) < Len(Joined(parts, k))
<1>1. n + 1 \in 1..Len(parts) /\ k \in (n + 1)..Len(parts) /\ (n + 1) - 1 = n
  BY LenProperties
<1>2. /\ Len(Joined(parts, n)) + Len(parts[n + 1]) = Len(Joined(parts, n + 1))
      /\ Len(Joined(parts, n + 1)) <= Len(Joined(parts, k))
  BY <1>1, JoinedPlace
<1>3. Joined(parts, n) \in Seq(T) /\ Joined(parts, k) \in Seq(T) /\ parts[n + 1] \in Seq(T)
  BY <1>1, JoinedEquation, ElementOfSeq
<1>4. Len(Joined(parts, n)) \in Nat /\ Len(Joined(parts, k)) \in Nat /\ Len(parts[n + 1]) \in Nat \ {0}
  BY <1>1, <1>3, EmptySeq, LenProperties
<1> QED BY <1>2, <1>4

-----------------------------------------------------------------------------
(* The parser: what it makes of any memory.                                *)

Places == Nat \X Int

LEMMA Ranges ==
  /\ \A v : v \in Byte <=> v \in Int /\ 0 <= v /\ v <= 255
  /\ \A v : v \in Word <=> v \in Int /\ 0 <= v /\ v <= 65535
<1>1. \A v : v \in Byte <=> v \in Int /\ 0 <= v /\ v <= 255
  BY DEF Byte
<1>2. UINT16_MAX = 65535
  BY DEF UINT16_MAX
<1>3. \A v : v \in Word <=> v \in Int /\ 0 <= v /\ v <= UINT16_MAX
  <2>1. UINT16_MAX \in Int
    BY <1>2
  <2> QED BY <2>1 DEF Word
<1> QED BY <1>1, <1>2, <1>3

LEMMA BytesToNumbers ==
  ASSUME NEW hi \in Byte, NEW lo \in Byte
  PROVE  /\ CharValue(lo) \in Int /\ CharValue(lo) <= lo
         /\ DeserializeUint16(hi, lo) \in Word
<1>1. /\ hi \in Int /\ 0 <= hi /\ hi <= 255
      /\ lo \in Int /\ 0 <= lo /\ lo <= 255
  BY Ranges
<1>2. /\ CharValue(lo) = lo \/ (CharValue(lo) = lo - 256 /\ lo > 127)
  BY DEF CharValue
<1>3. DeserializeUint16(hi, lo) = 65280 + lo \/ DeserializeUint16(hi, lo) = 256 * hi + lo
  BY DEF DeserializeUint16
<1>4. \A v : v \in Int /\ 0 <= v /\ v <= 65535 => v \in Word
  BY Ranges
<1> QED BY <1>1, <1>2, <1>3, <1>4

LEMMA ParsedCommands ==
  /\ \A v \in Byte : Volume(v) \in Parsed
  /\ \A v \in Word : Channel(v) \in Parsed
  /\ SeekUp \in Parsed /\ SeekDown \in Parsed /\ Bad \in Parsed
<1>1. \A e \in 0..6, v \in Word : [event |-> e, value |-> v] \in Parsed
  BY DEF Parsed
<1>2. Byte \subseteq Word /\ 0 \in Word
  BY Ranges
<1>3. \A v \in Word : Volume(v) \in Parsed /\ Channel(v) \in Parsed
  <2> SUFFICES ASSUME NEW v \in Word PROVE Volume(v) \in Parsed /\ Channel(v) \in Parsed
    OBVIOUS
  <2>1. [event |-> 1, value |-> v] \in Parsed /\ [event |-> 2, value |-> v] \in Parsed
    BY <1>1
  <2> QED BY <2>1 DEF Volume, Channel, EVENT_VOLUME, EVENT_CHANNEL
<1>4. SeekUp \in Parsed /\ SeekDown \in Parsed /\ Bad \in Parsed
  BY <1>1, <1>2 DEF SeekUp, SeekDown, Bad, EVENT_SEEKUP, EVENT_SEEKDOWN, EVENT_MALFORMED_MESSAGE
<1> QED BY <1>2, <1>3, <1>4

LEMMA CommandsRead ==
  ASSUME NEW mem \in [Nat -> Byte], NEW p \in Nat
  PROVE  /\ Volume(mem[p + 1]) \in Parsed
         /\ Channel(DeserializeUint16(mem[p + 1], mem[p + 2])) \in Parsed
<1>1. mem[p + 1] \in Byte /\ mem[p + 2] \in Byte
  OBVIOUS
<1>2. DeserializeUint16(mem[p + 1], mem[p + 2]) \in Word
  BY <1>1, BytesToNumbers
<1> QED BY <1>1, <1>2, ParsedCommands

LEMMA Prepend ==
  ASSUME NEW T, NEW c \in T, NEW s \in Seq(T)
  PROVE  << c >> \in Seq(T) /\ << c >> \o s \in Seq(T)
<1>1. << c >> \in Seq(T)
  OBVIOUS
<1> QED BY <1>1, ConcatProperties

(* A step of the parser only asks for what follows.                        *)
LEMMA ParseStepType ==
  ASSUME NEW mem \in [Nat -> Byte], NEW f, NEW p \in Nat, NEW len \in Int,
         \A q \in Nat, l \in 0..(len - 1) : f[<<q, l>>] \in Seq(Parsed)
  PROVE  ParseStep(mem, f, p, len) \in Seq(Parsed)
<1>1. p + 1 \in Nat /\ p + 2 \in Nat /\ p + 3 \in Nat
  OBVIOUS
<1>3. << >> \in Seq(Parsed) /\ << Bad >> \in Seq(Parsed)
  BY EmptySeq, ParsedCommands, Prepend
<1>4. len >= 2 => << Volume(mem[p + 1]) >> \o f[<<p + 2, len - 2>>] \in Seq(Parsed)
  <2> SUFFICES ASSUME len >= 2 PROVE << Volume(mem[p + 1]) >> \o f[<<p + 2, len - 2>>] \in Seq(Parsed)
    OBVIOUS
  <2>1. f[<<p + 2, len - 2>>] \in Seq(Parsed)
    BY <1>1
  <2>2. Volume(mem[p + 1]) \in Parsed
    BY CommandsRead
  <2> QED BY <2>1, <2>2, Prepend
<1>5. len >= 3 => << Channel(DeserializeUint16(mem[p + 1], mem[p + 2])) >> \o f[<<p + 3, len - 3>>] \in Seq(Parsed)
  <2> SUFFICES ASSUME len >= 3
               PROVE  << Channel(DeserializeUint16(mem[p + 1], mem[p + 2])) >> \o f[<<p + 3, len - 3>>] \in Seq(Parsed)
    OBVIOUS
  <2>1. f[<<p + 3, len - 3>>] \in Seq(Parsed)
    BY <1>1
  <2>2. Channel(DeserializeUint16(mem[p + 1], mem[p + 2])) \in Parsed
    BY CommandsRead
  <2> QED BY <2>1, <2>2, Prepend
<1>6. len >= 1 => /\ << SeekUp >> \o f[<<p + 2, len - 1>>] \in Seq(Parsed)
                  /\ << SeekDown >> \o f[<<p + 2, len - 1>>] \in Seq(Parsed)
  <2> SUFFICES ASSUME len >= 1 PROVE /\ << SeekUp >> \o f[<<p + 2, len - 1>>] \in Seq(Parsed)
                                     /\ << SeekDown >> \o f[<<p + 2, len - 1>>] \in Seq(Parsed)
    OBVIOUS
  <2>1. f[<<p + 2, len - 1>>] \in Seq(Parsed)
    BY <1>1
  <2> QED BY <2>1, ParsedCommands, Prepend
<1> QED BY <1>3, <1>4, <1>5, <1>6, Zenon DEF ParseStep

LEMMA ParseStepDepends ==
  ASSUME NEW mem, NEW f, NEW g, NEW p \in Nat, NEW len \in Int,
         \A q \in Nat, l \in 0..(len - 1) : f[<<q, l>>] = g[<<q, l>>]
  PROVE  ParseStep(mem, f, p, len) = ParseStep(mem, g, p, len)
<1>1. /\ len >= 2 => f[<<p + 2, len - 2>>] = g[<<p + 2, len - 2>>]
      /\ len >= 3 => f[<<p + 3, len - 3>>] = g[<<p + 3, len - 3>>]
      /\ len >= 1 => f[<<p + 2, len - 1>>] = g[<<p + 2, len - 1>>]
  OBVIOUS
<1> QED BY <1>1 DEF ParseStep

(* What __parse_event finds from each place of the memory on.              *)
Parse(mem) ==
  CHOOSE parse : parse = [at \in Places |-> ParseStep(mem, parse, at[1], at[2])]

Measure == [at \in Places |-> IF at[2] <= 0 THEN 0 ELSE at[2]]

LEMMA MeasureType == Measure \in [Places -> Nat]
  BY DEF Measure, Places

LEMMA ParseDefined ==
  ASSUME NEW mem \in [Nat -> Byte]
  PROVE  Parse(mem) = [at \in Places |-> ParseStep(mem, Parse(mem), at[1], at[2])]
<1> DEFINE T == Seq(Parsed)
           Step(f) == [at \in Places |-> ParseStep(mem, f, at[1], at[2])]
           F == [f \in [Places -> T] |-> Step(f)]
<1>1. T # {}
  BY EmptySeq
<1>2. ASSUME NEW f \in [Places -> T] PROVE Step(f) \in [Places -> T]
  <2>1. \A at \in Places : at[1] \in Nat /\ at[2] \in Int
    BY DEF Places
  <2>2. \A q \in Nat, l \in Int : <<q, l>> \in Places
    BY DEF Places
  <2>3. ASSUME NEW at \in Places PROVE ParseStep(mem, f, at[1], at[2]) \in T
    BY <2>1, <2>2, <2>3, ParseStepType
  <2> QED BY <2>3
<1>3. ASSUME NEW f \in [Places -> T], NEW g \in [Places -> T], NEW at \in Places,
             \A y \in Places : Measure[y] < Measure[at] => f[y] = g[y]
      PROVE  Step(f)[at] = Step(g)[at]
  <2>1. at[1] \in Nat /\ at[2] \in Int
    BY DEF Places
  <2>2. ASSUME NEW q \in Nat, NEW l \in 0..(at[2] - 1) PROVE f[<<q, l>>] = g[<<q, l>>]
    <3>1. <<q, l>> \in Places /\ Measure[<<q, l>>] = l /\ Measure[at] = at[2] /\ l < at[2]
      BY <2>1 DEF Places, Measure
    <3> QED BY <1>3, <3>1
  <2>3. ParseStep(mem, f, at[1], at[2]) = ParseStep(mem, g, at[1], at[2])
    BY <2>1, <2>2, ParseStepDepends
  <2> QED BY <2>3
<1>4. Descends(F, Measure, Places, T)
  BY <1>1, <1>2, <1>3, MeasureType DEF Descends
<1>5. HasFixpoint(F, Places, T)
  <2> HIDE DEF F, T
  <2> QED BY <1>4, Fixpoint
<1>6. \E f : f = Step(f)
  BY <1>5 DEF HasFixpoint
<1> QED BY <1>6 DEF Parse

LEMMA ParseType ==
  ASSUME NEW mem \in [Nat -> Byte], NEW p \in Nat, NEW len \in Int
  PROVE  /\ Parse(mem)[<<p, len>>] = ParseStep(mem, Parse(mem), p, len)
         /\ Parse(mem)[<<p, len>>] \in Seq(Parsed)
<1>1. \A q \in Nat, l \in Int : Parse(mem)[<<q, l>>] = ParseStep(mem, Parse(mem), q, l)
  <2>1. \A q \in Nat, l \in Int : <<q, l>> \in Places /\ <<q, l>>[1] = q /\ <<q, l>>[2] = l
    BY DEF Places
  <2> DEFINE f == Parse(mem)
  <2>2. f = [at \in Places |-> ParseStep(mem, f, at[1], at[2])]
    BY ParseDefined
  <2> HIDE DEF f
  <2>3. \A q \in Nat, l \in Int : f[<<q, l>>] = ParseStep(mem, f, q, l)
    BY <2>1, <2>2
  <2> QED BY <2>3 DEF f
<1> DEFINE Wrong == {n \in Nat : \E q \in Nat, l \in Int : l <= n /\ Parse(mem)[<<q, l>>] \notin Seq(Parsed)}
<1>2. Wrong = {}
  <2> SUFFICES ASSUME Wrong # {} PROVE FALSE
    OBVIOUS
  <2>1. PICK n \in Wrong : \A k \in Wrong : n <= k
    <3>1. Wrong \in SUBSET Nat
      OBVIOUS
    <3> HIDE DEF Wrong
    <3> QED BY <3>1, Least
  <2>2. PICK q \in Nat, l \in Int : l <= n /\ Parse(mem)[<<q, l>>] \notin Seq(Parsed)
    BY <2>1
  <2>3. ASSUME NEW a \in Nat, NEW b \in 0..(l - 1) PROVE Parse(mem)[<<a, b>>] \in Seq(Parsed)
    <3>1. b \in Nat /\ b \in Int /\ b <= b /\ ~(n <= b)
      BY <2>1, <2>2
    <3>2. b \notin Wrong
      BY <2>1, <3>1
    <3> QED BY <3>1, <3>2
  <2>4. ParseStep(mem, Parse(mem), q, l) \in Seq(Parsed)
    BY <2>3, ParseStepType
  <2> QED BY <1>1, <2>2, <2>4
<1>3. Parse(mem)[<<p, len>>] \in Seq(Parsed)
  <2> DEFINE n == IF len <= 0 THEN 0 ELSE len
  <2>1. n \in Nat /\ len <= n
    OBVIOUS
  <2> QED BY <1>2, <2>1
<1> QED BY <1>1, <1>3

LEMMA ParseEventType ==
  ASSUME NEW mem \in [Nat -> Byte], NEW p \in Nat, NEW len \in Int
  PROVE  /\ ParseEvent(mem, p, len) = IF len <= 0 THEN << Bad >> ELSE Parse(mem)[<<p, len>>]
         /\ ParseEvent(mem, p, len) \in Seq(Parsed)
<1>1. ParseEvent(mem, p, len) = IF len <= 0 THEN << Bad >> ELSE Parse(mem)[<<p, len>>]
  BY DEF ParseEvent, Parse, Places
<1>2. << Bad >> \in Seq(Parsed)
  BY ParsedCommands, Prepend, EmptySeq
<1>3. Parse(mem)[<<p, len>>] \in Seq(Parsed)
  BY ParseType
<1> QED BY <1>1, <1>2, <1>3

-----------------------------------------------------------------------------
(* The loop over the messages, on any memory.                              *)

Handled == [ret : Int, cmds : Seq(Parsed), malformed : BOOLEAN]

LEMMA StoppedType ==
  ASSUME NEW ret \in Int, NEW malformed \in BOOLEAN
  PROVE  Stopped(ret, malformed) \in Handled
<1>1. << >> \in Seq(Parsed)
  BY EmptySeq
<1> QED BY <1>1 DEF Stopped, Handled

(* Only a message with a body is accepted.                                 *)
LEMMA AcceptedSize ==
  ASSUME NEW mem \in [Nat -> Byte], NEW p \in Nat
  PROVE  /\ CharValue(mem[p]) \in Int
         /\ ParseEvent(mem, p + 1, CharValue(mem[p]) - 1) \in Seq(Parsed)
         /\ CharValue(mem[p]) <= 1 => Refused(ParseEvent(mem, p + 1, CharValue(mem[p]) - 1))
<1>1. mem[p] \in Byte /\ p + 1 \in Nat
  OBVIOUS
<1>2. CharValue(mem[p]) \in Int
  BY <1>1, BytesToNumbers
<1> DEFINE size == CharValue(mem[p])
<1> HIDE DEF size
<1>3. /\ ParseEvent(mem, p + 1, size - 1) \in Seq(Parsed)
      /\ size - 1 <= 0 => ParseEvent(mem, p + 1, size - 1) = << Bad >>
  <2>1. size - 1 \in Int
    BY <1>2 DEF size
  <2> QED BY <1>1, <2>1, ParseEventType
<1>4. Refused(<< Bad >>)
  BY DEF Refused
<1> QED BY <1>2, <1>3, <1>4 DEF size

LEMMA HandleStepType ==
  ASSUME NEW mem \in [Nat -> Byte], NEW length \in Int, NEW f, NEW p \in Nat, NEW len \in Int,
         \A q \in Nat, l \in 0..(len - 1) : f[<<q, l>>] \in Handled
  PROVE  HandleStep(mem, length, f, p, len) \in Handled
<1> DEFINE size == CharValue(mem[p])
           cmds == ParseEvent(mem, p + 1, size - 1)
           next == f[<<p + size, len - size>>]
<1>1. size \in Int /\ cmds \in Seq(Parsed) /\ (size <= 1 => Refused(cmds))
  BY AcceptedSize
<1>2. Stopped(length - len, FALSE) \in Handled /\ Stopped(length, TRUE) \in Handled
  <2>1. length - len \in Int /\ TRUE \in BOOLEAN /\ FALSE \in BOOLEAN
    OBVIOUS
  <2> QED BY <2>1, StoppedType
<1>3. ASSUME ~(len <= 0 \/ len < size), ~Refused(cmds)
      PROVE  [next EXCEPT !.cmds = cmds \o @] \in Handled
  <2>1. p + size \in Nat /\ len - size \in 0..(len - 1)
    BY <1>1, <1>3
  <2>2. next \in Handled
    BY <2>1
  <2>3. cmds \o next.cmds \in Seq(Parsed)
    <3>1. next.cmds \in Seq(Parsed)
      BY <2>2 DEF Handled
    <3> QED BY <1>1, <3>1, ConcatProperties
  <2> HIDE DEF next, cmds
  <2> QED BY <2>2, <2>3 DEF Handled
<1> QED BY <1>2, <1>3 DEF HandleStep, HandleMessage

LEMMA HandleStepDepends ==
  ASSUME NEW mem \in [Nat -> Byte], NEW length \in Int, NEW f, NEW g, NEW p \in Nat, NEW len \in Int,
         \A q \in Nat, l \in 0..(len - 1) : f[<<q, l>>] = g[<<q, l>>]
  PROVE  HandleStep(mem, length, f, p, len) = HandleStep(mem, length, g, p, len)
<1> DEFINE size == CharValue(mem[p])
           cmds == ParseEvent(mem, p + 1, size - 1)
<1>1. size \in Int /\ (size <= 1 => Refused(cmds))
  BY AcceptedSize
<1>2. ~(len <= 0 \/ len < size) /\ ~Refused(cmds) => f[<<p + size, len - size>>] = g[<<p + size, len - size>>]
  <2> SUFFICES ASSUME ~(len <= 0 \/ len < size), size > 1
               PROVE  f[<<p + size, len - size>>] = g[<<p + size, len - size>>]
    BY <1>1
  <2>1. p + size \in Nat /\ len - size \in 0..(len - 1)
    BY <1>1
  <2> QED BY <2>1
<1> QED BY <1>2 DEF HandleStep, HandleMessage

(* What handler_event does from each place of the memory on.               *)
Handle(mem, length) ==
  CHOOSE handle : handle = [at \in Places |-> HandleStep(mem, length, handle, at[1], at[2])]

LEMMA HandleDefined ==
  ASSUME NEW mem \in [Nat -> Byte], NEW length \in Int
  PROVE  Handle(mem, length) =
           [at \in Places |-> HandleStep(mem, length, Handle(mem, length), at[1], at[2])]
<1> DEFINE Step(f) == [at \in Places |-> HandleStep(mem, length, f, at[1], at[2])]
           F == [f \in [Places -> Handled] |-> Step(f)]
<1>1. Handled # {}
  BY StoppedType
<1>2. ASSUME NEW f \in [Places -> Handled] PROVE Step(f) \in [Places -> Handled]
  <2>1. \A at \in Places : at[1] \in Nat /\ at[2] \in Int
    BY DEF Places
  <2>2. \A q \in Nat, l \in Int : <<q, l>> \in Places
    BY DEF Places
  <2>3. ASSUME NEW at \in Places PROVE HandleStep(mem, length, f, at[1], at[2]) \in Handled
    BY <2>1, <2>2, <2>3, HandleStepType
  <2> QED BY <2>3
<1>3. ASSUME NEW f \in [Places -> Handled], NEW g \in [Places -> Handled], NEW at \in Places,
             \A y \in Places : Measure[y] < Measure[at] => f[y] = g[y]
      PROVE  Step(f)[at] = Step(g)[at]
  <2>1. at[1] \in Nat /\ at[2] \in Int
    BY DEF Places
  <2>2. ASSUME NEW q \in Nat, NEW l \in 0..(at[2] - 1) PROVE f[<<q, l>>] = g[<<q, l>>]
    <3>1. <<q, l>> \in Places /\ Measure[<<q, l>>] = l /\ Measure[at] = at[2] /\ l < at[2]
      BY <2>1 DEF Places, Measure
    <3> QED BY <1>3, <3>1
  <2>3. HandleStep(mem, length, f, at[1], at[2]) = HandleStep(mem, length, g, at[1], at[2])
    <3> DEFINE p == at[1]
               n == at[2]
    <3>1. p \in Nat /\ n \in Int /\ \A q \in Nat, l \in 0..(n - 1) : f[<<q, l>>] = g[<<q, l>>]
      BY <2>1, <2>2
    <3> HIDE DEF p, n
    <3>2. HandleStep(mem, length, f, p, n) = HandleStep(mem, length, g, p, n)
      BY <3>1, HandleStepDepends
    <3> QED BY <3>2 DEF p, n
  <2> QED BY <2>3
<1>4. Descends(F, Measure, Places, Handled)
  BY <1>1, <1>2, <1>3, MeasureType DEF Descends
<1>5. HasFixpoint(F, Places, Handled)
  <2> HIDE DEF F
  <2> QED BY <1>4, Fixpoint
<1>6. \E f : f = Step(f)
  BY <1>5 DEF HasFixpoint
<1> QED BY <1>6 DEF Handle

LEMMA HandleType ==
  ASSUME NEW mem \in [Nat -> Byte], NEW length \in Int, NEW p \in Nat, NEW len \in Int
  PROVE  /\ Handle(mem, length)[<<p, len>>] = HandleStep(mem, length, Handle(mem, length), p, len)
         /\ Handle(mem, length)[<<p, len>>] \in Handled
<1> DEFINE f == Handle(mem, length)
<1>1. \A q \in Nat, l \in Int : f[<<q, l>>] = HandleStep(mem, length, f, q, l)
  <2>1. \A q \in Nat, l \in Int : <<q, l>> \in Places /\ <<q, l>>[1] = q /\ <<q, l>>[2] = l
    BY DEF Places
  <2>2. f = [at \in Places |-> HandleStep(mem, length, f, at[1], at[2])]
    BY HandleDefined
  <2> HIDE DEF f
  <2> QED BY <2>1, <2>2
<1> DEFINE Wrong == {n \in Nat : \E q \in Nat, l \in Int : l <= n /\ f[<<q, l>>] \notin Handled}
<1> HIDE DEF f
<1>2. Wrong = {}
  <2> SUFFICES ASSUME Wrong # {} PROVE FALSE
    OBVIOUS
  <2>1. PICK n \in Wrong : \A k \in Wrong : n <= k
    <3>1. Wrong \in SUBSET Nat
      OBVIOUS
    <3> HIDE DEF Wrong
    <3> QED BY <3>1, Least
  <2>2. PICK q \in Nat, l \in Int : l <= n /\ f[<<q, l>>] \notin Handled
    BY <2>1
  <2>3. ASSUME NEW a \in Nat, NEW b \in 0..(l - 1) PROVE f[<<a, b>>] \in Handled
    <3>1. b \in Nat /\ b \in Int /\ b <= b /\ ~(n <= b)
      BY <2>1, <2>2
    <3>2. b \notin Wrong
      BY <2>1, <3>1
    <3> QED BY <3>1, <3>2
  <2>4. HandleStep(mem, length, f, q, l) \in Handled
    BY <2>3, HandleStepType
  <2> QED BY <1>1, <2>2, <2>4
<1>3. f[<<p, len>>] \in Handled
  <2> DEFINE n == IF len <= 0 THEN 0 ELSE len
  <2>1. n \in Nat /\ len <= n
    OBVIOUS
  <2> QED BY <1>2, <2>1
<1> QED BY <1>1, <1>3 DEF f

LEMMA HandlerEventType ==
  ASSUME NEW mem \in [Nat -> Byte], NEW length \in Int
  PROVE  /\ HandlerEvent(mem, length) = Handle(mem, length)[<<0, length>>]
         /\ HandlerEvent(mem, length) \in Handled
         /\ length <= 0 => HandlerEvent(mem, length) = Stopped(0, FALSE)
<1>1. HandlerEvent(mem, length) = Handle(mem, length)[<<0, length>>]
  BY DEF HandlerEvent, Handle, Places
<1>2. length <= 0 => HandleStep(mem, length, Handle(mem, length), 0, length) = Stopped(length - length, FALSE)
  BY DEF HandleStep
<1>3. 0 \in Nat /\ length - length = 0
  OBVIOUS
<1> QED BY <1>1, <1>2, <1>3, HandleType

-----------------------------------------------------------------------------
(* The parser on a message: it reads back the commands the message is for. *)

LEMMA EncodedCommand ==
  ASSUME NEW c \in Parsed
  PROVE  EncodeCommand(c) \in Seq(Nat) /\ Len(EncodeCommand(c)) >= 1
<1>1. c.event \in Nat /\ c.value \in Nat
  BY Ranges DEF Parsed
<1>2. SerializeUint16(c.value) \in Seq(Nat)
  <2>1. (c.value \div 256) % 256 \in Nat /\ c.value % 256 \in Nat
    BY <1>1
  <2> QED BY <2>1 DEF SerializeUint16
<1>3. \A e \in Nat, v \in Nat : /\ << e >> \in Seq(Nat) /\ Len(<< e >>) = 1
                                 /\ << e, v >> \in Seq(Nat) /\ Len(<< e, v >>) = 2
  OBVIOUS
<1>4. << EVENT_CHANNEL >> \o SerializeUint16(c.value) \in Seq(Nat) /\ Len(<< EVENT_CHANNEL >> \o SerializeUint16(c.value)) >= 1
  <2>1. << EVENT_CHANNEL >> \in Seq(Nat) /\ Len(<< EVENT_CHANNEL >>) = 1 /\ Len(SerializeUint16(c.value)) \in Nat
    BY <1>2, <1>3, LenProperties DEF EVENT_CHANNEL
  <2> QED BY <1>2, <2>1, ConcatProperties
<1> QED BY <1>1, <1>3, <1>4 DEF EncodeCommand, EVENT_VOLUME

LEMMA EncodedParts ==
  ASSUME NEW cmds \in Seq(Parsed)
  PROVE  LET parts == [i \in DOMAIN cmds |-> EncodeCommand(cmds[i])]
         IN  /\ parts \in Seq(Seq(Nat)) /\ Len(parts) = Len(cmds)
             /\ \A i \in 1..Len(cmds) : parts[i] = EncodeCommand(cmds[i])
<1> DEFINE parts == [i \in DOMAIN cmds |-> EncodeCommand(cmds[i])]
<1>1. DOMAIN cmds = 1..Len(cmds) /\ Len(cmds) \in Nat
  BY LenProperties
<1>2. ASSUME NEW i \in 1..Len(cmds) PROVE EncodeCommand(cmds[i]) \in Seq(Nat)
  <2>1. cmds[i] \in Parsed
    BY ElementOfSeq
  <2> QED BY <2>1, EncodedCommand
<1>3. parts \in [1..Len(cmds) -> Seq(Nat)]
  BY <1>1, <1>2
<1>4. parts \in Seq(Seq(Nat)) /\ Len(parts) = Len(cmds)
  <2> DEFINE S == Seq(Nat)
  <2>1. parts \in [1..Len(cmds) -> S]
    BY <1>3
  <2> HIDE DEF S, parts
  <2> QED BY <1>1, <2>1 DEF S
<1> QED BY <1>1, <1>4

(* The number, and the bytes, of a channel whose low byte is positive.     *)
LEMMA ChannelRoundTrip ==
  ASSUME NEW v \in Word, CharValue(v % 256) >= 0
  PROVE  \E hi, lo \in Nat : SerializeUint16(v) = << hi, lo >> /\ DeserializeUint16(hi, lo) = v
<1>1. v \in Int /\ 0 <= v /\ v <= 65535
  BY Ranges
<1>2. /\ v \div 256 \in Nat /\ v % 256 \in Nat /\ v \div 256 < 256
      /\ v % 256 = v - 256 * (v \div 256)
  BY <1>1
<1>3. PICK hi \in Nat, lo \in Nat : hi = v \div 256 /\ lo = v % 256
  BY <1>2
<1>4. hi < 256 /\ lo = v - 256 * hi /\ CharValue(lo) >= 0
  BY <1>2, <1>3
<1>5. SerializeUint16(v) = << hi, lo >>
  <2>1. hi % 256 = hi
    BY <1>4
  <2> QED BY <1>3, <2>1 DEF SerializeUint16
<1>6. DeserializeUint16(hi, lo) = 256 * hi + lo
  <2>1. CharValue(lo) = lo \/ CharValue(lo) = lo - 256
    BY DEF CharValue
  <2>2. ~(CharValue(lo) < 0)
    BY <1>4, <2>1
  <2> QED BY <2>2 DEF DeserializeUint16
<1>7. 256 * hi + lo = v
  BY <1>1, <1>4
<1> QED BY <1>5, <1>6, <1>7

LiesAt(mem, p, s) == \A i \in 1..Len(s) : mem[p + i - 1] = s[i]

(* After a seek the parser is one byte ahead.                              *)
Reads(mem, f, p, len, c) ==
  LET size == Len(EncodeCommand(c))
  IN  /\ size \in 1..3
      /\ c \in {SeekUp, SeekDown} =>
           size = 1 /\ ParseStep(mem, f, p, len) = << c >> \o f[<<p + 2, len - 1>>]
      /\ c \notin {SeekUp, SeekDown} =>
           ParseStep(mem, f, p, len) = << c >> \o f[<<p + size, len - size>>]

LEMMA ParseCommand ==
  ASSUME NEW mem, NEW f, NEW p \in Nat, NEW len \in Int,
         NEW c \in Parsed, Decodable(c), len >= Len(EncodeCommand(c)),
         LiesAt(mem, p, EncodeCommand(c))
  PROVE  Reads(mem, f, p, len, c)
<1> USE DEF EVENT_VOLUME, EVENT_CHANNEL, EVENT_SEEKUP, EVENT_SEEKDOWN, LiesAt, Reads
<1>1. CASE c = Volume(c.value)
  <2>1. c.event = 1 /\ c \notin {SeekUp, SeekDown}
    BY <1>1 DEF Volume, SeekUp, SeekDown
  <2>2. EncodeCommand(c) = << 1, c.value >>
    BY <2>1 DEF EncodeCommand
  <2>3. Len(EncodeCommand(c)) = 2 /\ EncodeCommand(c)[1] = 1 /\ EncodeCommand(c)[2] = c.value
    BY <2>2
  <2>4. mem[p] = 1 /\ mem[p + 1] = c.value
    <3>1. p + 1 - 1 = p /\ p + 2 - 1 = p + 1
      OBVIOUS
    <3> QED BY <2>3, <3>1
  <2>5. ParseStep(mem, f, p, len) = << c >> \o f[<<p + 2, len - 2>>]
    BY <1>1, <2>3, <2>4 DEF ParseStep
  <2> QED BY <2>1, <2>3, <2>5
<1>2. CASE c = Channel(c.value) /\ c.value \in Word /\ CharValue(c.value % 256) >= 0
  <2>1. c.event = 2 /\ c \notin {SeekUp, SeekDown}
    BY <1>2 DEF Channel, SeekUp, SeekDown
  <2>2. PICK hi \in Nat, lo \in Nat : SerializeUint16(c.value) = << hi, lo >> /\ DeserializeUint16(hi, lo) = c.value
    BY <1>2, ChannelRoundTrip
  <2>3. EncodeCommand(c) = << 2 >> \o << hi, lo >>
    BY <2>1, <2>2 DEF EncodeCommand
  <2>4. /\ Len(EncodeCommand(c)) = 3 /\ EncodeCommand(c)[1] = 2
        /\ EncodeCommand(c)[2] = hi /\ EncodeCommand(c)[3] = lo
    BY <2>3
  <2>5. mem[p] = 2 /\ mem[p + 1] = hi /\ mem[p + 2] = lo
    <3>1. p + 1 - 1 = p /\ p + 2 - 1 = p + 1 /\ p + 3 - 1 = p + 2
      OBVIOUS
    <3> QED BY <2>4, <3>1
  <2>6. ParseStep(mem, f, p, len) = << c >> \o f[<<p + 3, len - 3>>]
    BY <1>2, <2>2, <2>4, <2>5 DEF ParseStep
  <2> QED BY <2>1, <2>4, <2>6
<1>3. CASE c \in {SeekUp, SeekDown}
  <2>1. c.event = (IF c = SeekUp THEN 3 ELSE 4)
    BY <1>3 DEF SeekUp, SeekDown
  <2>2. EncodeCommand(c) = << c.event >>
    BY <2>1 DEF EncodeCommand
  <2>3. Len(EncodeCommand(c)) = 1 /\ EncodeCommand(c)[1] = c.event
    BY <2>2
  <2>4. mem[p] = c.event
    <3>1. p + 1 - 1 = p
      OBVIOUS
    <3> QED BY <2>3, <3>1
  <2>5. ParseStep(mem, f, p, len) = << c >> \o f[<<p + 2, len - 1>>]
    <3>1. len >= 1 /\ ~(len <= 0)
      BY <2>3
    <3>2. CASE c = SeekUp
      <4>1. mem[p] = 3
        BY <2>1, <2>4, <3>2
      <4> QED BY <3>1, <3>2, <4>1 DEF ParseStep
    <3>3. CASE c = SeekDown
      <4>1. mem[p] = 4
        BY <3>3, <2>4 DEF SeekDown
      <4> QED BY <3>1, <3>3, <4>1 DEF ParseStep
    <3> QED BY <1>3, <3>2, <3>3
  <2> QED BY <1>3, <2>3, <2>5
<1> QED BY <1>1, <1>2, <1>3 DEF Decodable

LEMMA ParseCutOff ==
  ASSUME NEW mem, NEW f, NEW p \in Nat, NEW rest \in Seq(Byte), CutOff(rest), mem[p] = rest[1]
  PROVE  ParseStep(mem, f, p, Len(rest)) = << Bad >>
<1>1. Len(rest) \in Nat \ {0}
  BY EmptySeq DEF CutOff
<1> QED
  BY <1>1 DEF CutOff, ParseStep, EVENT_VOLUME, EVENT_CHANNEL, EVENT_SEEKUP, EVENT_SEEKDOWN

(* A legible message: its commands, encoded, and what follows them.        *)
Readable(m) == Len(m.cmds) - IF Refused(m.cmds) THEN 1 ELSE 0
Encoded(m) == [i \in DOMAIN m.cmds |-> EncodeCommand(m.cmds[i])]
Left(m) == SubSeq(m.bytes, Len(Joined(Encoded(m), Readable(m))) + 2, Len(m.bytes))

AMessage(m) == m.bytes \in Seq(Byte) /\ m.bytes # << >> /\ m.cmds \in Seq(Parsed)

LEMMA LegibleDefined ==
  ASSUME NEW m, Legible(m)
  PROVE  /\ m.cmds # << >>
         /\ \A i \in 1..Readable(m) : Decodable(m.cmds[i])
         /\ \A i \in 1..Readable(m) : m.cmds[i] \in {SeekUp, SeekDown} => i = Len(m.cmds)
         /\ m.bytes = << m.bytes[1] >> \o Joined(Encoded(m), Readable(m)) \o Left(m)
         /\ IF Refused(m.cmds)
            THEN CharValue(m.bytes[1]) <= 1 \/ (CharValue(m.bytes[1]) = Len(m.bytes) /\ CutOff(Left(m)))
            ELSE CharValue(m.bytes[1]) = Len(m.bytes) /\ Left(m) = << >>
BY DEF Legible, Readable, Encoded, Left, EncodeFirst

LEMMA LegibleShape ==
  ASSUME NEW m, AMessage(m), Legible(m)
  PROVE  /\ Len(m.cmds) \in Nat \ {0} /\ Readable(m) \in 0..Len(m.cmds)
         /\ Encoded(m) \in Seq(Seq(Nat)) /\ Len(Encoded(m)) = Len(m.cmds)
         /\ \A i \in 1..Len(m.cmds) : Encoded(m)[i] = EncodeCommand(m.cmds[i]) /\ m.cmds[i] \in Parsed
         /\ Joined(Encoded(m), Readable(m)) \in Seq(Nat) /\ Left(m) \in Seq(Byte)
         /\ Len(m.bytes) = 1 + Len(Joined(Encoded(m), Readable(m))) + Len(Left(m))
         /\ \A i \in 1..Len(Joined(Encoded(m), Readable(m))) :
              m.bytes[1 + i] = Joined(Encoded(m), Readable(m))[i]
         /\ \A i \in 1..Len(Left(m)) :
              m.bytes[1 + Len(Joined(Encoded(m), Readable(m))) + i] = Left(m)[i]
<1> USE DEF AMessage
<1>1. Len(m.cmds) \in Nat \ {0} /\ Readable(m) \in 0..Len(m.cmds)
  <2>1. Len(m.cmds) \in Nat \ {0}
    BY LegibleDefined, EmptySeq
  <2>2. IF Refused(m.cmds) THEN Readable(m) = Len(m.cmds) - 1 ELSE Readable(m) = Len(m.cmds) - 0
    BY DEF Readable
  <2> QED BY <2>1, <2>2
<1>2. /\ Encoded(m) \in Seq(Seq(Nat)) /\ Len(Encoded(m)) = Len(m.cmds)
      /\ \A i \in 1..Len(m.cmds) : Encoded(m)[i] = EncodeCommand(m.cmds[i])
  BY EncodedParts DEF Encoded
<1>3. \A i \in 1..Len(m.cmds) : m.cmds[i] \in Parsed
  BY ElementOfSeq
<1> DEFINE body == Joined(Encoded(m), Readable(m))
           rest == Left(m)
<1>4. body \in Seq(Nat) /\ Len(body) \in Nat
  BY <1>1, <1>2, JoinedEquation, LenProperties
<1>5. rest \in Seq(Byte)
  <2>1. Len(body) + 2 \in Int /\ Len(m.bytes) \in Int
    BY <1>4, LenProperties
  <2>2. \A i \in (Len(body) + 2)..Len(m.bytes) : m.bytes[i] \in Byte
    BY <1>4, <2>1, ElementOfSeq
  <2> HIDE DEF body
  <2>3. SubSeq(m.bytes, Len(body) + 2, Len(m.bytes)) \in Seq(Byte)
    BY <2>1, <2>2, SubSeqProperties
  <2> QED BY <2>3 DEF body, Left
<1>6. rest \in Seq(Nat) /\ Len(rest) \in Nat
  <2>1. Byte \subseteq Nat
    BY Ranges
  <2> QED BY <1>5, <2>1, SeqMonotonic, LenProperties
<1>7. << m.bytes[1] >> \in Seq(Nat) /\ Len(<< m.bytes[1] >>) = 1
  <2>1. m.bytes[1] \in Byte
    BY EmptySeq, ElementOfSeq
  <2>2. m.bytes[1] \in Nat
    BY <2>1, Ranges
  <2> QED BY <2>2
<1>8. m.bytes = (<< m.bytes[1] >> \o body) \o rest
  BY LegibleDefined
<1> DEFINE s == << m.bytes[1] >> \o body
<1> HIDE DEF body, rest
<1>9. /\ s \in Seq(Nat) /\ Len(s) = 1 + Len(body)
      /\ \A i \in 1..(1 + Len(body)) : i > 1 => s[i] = body[i - 1]
  <2> DEFINE h == << m.bytes[1] >>
  <2>1. h \in Seq(Nat) /\ Len(h) = 1
    BY <1>7
  <2> HIDE DEF h
  <2>2. /\ h \o body \in Seq(Nat) /\ Len(h \o body) = Len(h) + Len(body)
        /\ \A i \in 1..(Len(h) + Len(body)) : (h \o body)[i] = IF i <= Len(h) THEN h[i] ELSE body[i - Len(h)]
    BY <1>4, <2>1, ConcatProperties
  <2> QED BY <1>4, <2>1, <2>2 DEF h
<1> HIDE DEF s
<1>10. /\ Len(s \o rest) = Len(s) + Len(rest)
       /\ \A i \in 1..(Len(s) + Len(rest)) : (s \o rest)[i] = IF i <= Len(s) THEN s[i] ELSE rest[i - Len(s)]
  BY <1>6, <1>9, ConcatProperties
<1>11. m.bytes = s \o rest
  BY <1>8 DEF s
<1>12. Len(m.bytes) = 1 + Len(body) + Len(rest)
  BY <1>9, <1>10, <1>11
<1>13. ASSUME NEW i \in 1..Len(body) PROVE m.bytes[1 + i] = body[i]
  <2>1. 1 + i \in 1..(Len(s) + Len(rest)) /\ 1 + i <= Len(s) /\ 1 + i > 1 /\ (1 + i) - 1 = i /\ 1 + i \in 1..(1 + Len(body))
    BY <1>4, <1>6, <1>9
  <2> QED BY <1>9, <1>10, <1>11, <2>1
<1>14. ASSUME NEW i \in 1..Len(rest) PROVE m.bytes[1 + Len(body) + i] = rest[i]
  <2> DEFINE j == 1 + Len(body) + i
  <2>1. j \in 1..(Len(s) + Len(rest)) /\ ~(j <= Len(s)) /\ j - Len(s) = i
    BY <1>4, <1>6, <1>9
  <2> HIDE DEF j
  <2>2. m.bytes[j] = rest[i]
    BY <1>10, <1>11, <2>1
  <2> QED BY <2>2 DEF j
<1> QED BY <1>1, <1>2, <1>3, <1>4, <1>5, <1>12, <1>13, <1>14 DEF body, rest

(* __parse_event gives back the commands of a message that README.md       *)
(* describes, wherever it lies in memory and whatever lies behind it: what *)
(* ends in an unknown type or in a value cut off ends in Bad.              *)
THEOREM ParserReadsBack ==
  ASSUME NEW mem \in [Nat -> Byte], NEW p \in Nat, NEW m, AMessage(m), Legible(m),
         CharValue(m.bytes[1]) = Len(m.bytes), CharValue(m.bytes[1]) > 1,
         LiesAt(mem, p, m.bytes)
  PROVE  ParseEvent(mem, p + 1, CharValue(m.bytes[1]) - 1) = m.cmds
<1> DEFINE cmds == m.cmds
           n == Readable(m)
           parts == Encoded(m)
           J(j) == Joined(parts, j)
           rest == Left(m)
           L == Len(m.bytes)
           P == Parse(mem)
           from(j) == p + 1 + Len(J(j))
           left(j) == L - 1 - Len(J(j))
<1>1. /\ Len(cmds) \in Nat \ {0} /\ n \in 0..Len(cmds)
      /\ parts \in Seq(Seq(Nat)) /\ Len(parts) = Len(cmds)
      /\ \A i \in 1..Len(cmds) : parts[i] = EncodeCommand(cmds[i]) /\ cmds[i] \in Parsed
      /\ J(n) \in Seq(Nat) /\ rest \in Seq(Byte)
      /\ L = 1 + Len(J(n)) + Len(rest)
      /\ \A i \in 1..Len(J(n)) : m.bytes[1 + i] = J(n)[i]
      /\ \A i \in 1..Len(rest) : m.bytes[1 + Len(J(n)) + i] = rest[i]
  BY LegibleShape
<1>2. /\ \A i \in 1..n : Decodable(cmds[i])
      /\ \A i \in 1..n : cmds[i] \in {SeekUp, SeekDown} => i = Len(cmds)
      /\ IF Refused(cmds) THEN CutOff(rest) /\ n = Len(cmds) - 1 ELSE rest = << >> /\ n = Len(cmds)
  <2>1. CharValue(m.bytes[1]) \in Int
    BY EmptySeq, ElementOfSeq, BytesToNumbers DEF AMessage
  <2>2. IF Refused(m.cmds)
        THEN CharValue(m.bytes[1]) <= 1 \/ (CharValue(m.bytes[1]) = Len(m.bytes) /\ CutOff(Left(m)))
        ELSE CharValue(m.bytes[1]) = Len(m.bytes) /\ Left(m) = << >>
    BY LegibleDefined
  <2>3. IF Refused(m.cmds) THEN CutOff(Left(m)) ELSE Left(m) = << >>
    BY <2>1, <2>2
  <2>4. IF Refused(m.cmds) THEN Readable(m) = Len(m.cmds) - 1 ELSE Readable(m) = Len(m.cmds) - 0
    BY DEF Readable
  <2>5. /\ \A i \in 1..n : Decodable(cmds[i])
        /\ \A i \in 1..n : cmds[i] \in {SeekUp, SeekDown} => i = Len(cmds)
    BY LegibleDefined
  <2>6. Len(m.cmds) - 0 = Len(m.cmds)
    BY <1>1
  <2> QED BY <2>3, <2>4, <2>5, <2>6
<1>3. cmds \in Seq(Parsed) /\ L \in Nat
  BY LenProperties DEF AMessage
<1>4. \A j \in 0..n : J(j) \in Seq(Nat) /\ Len(J(j)) \in Nat
  <2>1. \A j \in 0..n : j \in 0..Len(parts)
    BY <1>1
  <2>2. \A j \in 0..n : J(j) \in Seq(Nat)
    <3> HIDE DEF n, parts
    <3> QED BY <1>1, <2>1, JoinedEquation
  <2> HIDE DEF J
  <2> QED BY <2>2, LenProperties
<1>5. Len(rest) \in Nat
  BY <1>1, LenProperties
<1>6. ASSUME NEW j \in 0..n, j # n
      PROVE  LET c == cmds[j + 1]
             IN  /\ Len(EncodeCommand(c)) \in 1..3
                 /\ Len(J(j + 1)) = Len(J(j)) + Len(EncodeCommand(c))
                 /\ c \in {SeekUp, SeekDown} =>
                      /\ Len(EncodeCommand(c)) = 1 /\ j + 1 = Len(cmds)
                      /\ P[<<from(j), left(j)>>] = << c >> \o P[<<from(j) + 2, left(j) - 1>>]
                 /\ c \notin {SeekUp, SeekDown} =>
                      P[<<from(j), left(j)>>] = << c >> \o P[<<from(j + 1), left(j + 1)>>]
  <2> DEFINE c == cmds[j + 1]
             k == Len(EncodeCommand(c))
  <2>1. /\ j + 1 \in 1..n /\ j + 1 \in 1..Len(parts) /\ n \in (j + 1)..Len(parts) /\ (j + 1) - 1 = j
        /\ j + 1 \in 0..n
    <3>1. n \in Nat /\ n <= Len(parts) /\ Len(parts) \in Nat
      BY <1>1
    <3> HIDE DEF n, parts
    <3> QED BY <1>6, <3>1
  <2>2. c \in Parsed /\ Decodable(c) /\ parts[j + 1] = EncodeCommand(c)
    BY <1>1, <1>2, <2>1
  <2>3. /\ Len(J(j)) + Len(parts[j + 1]) = Len(J(j + 1)) /\ Len(J(j + 1)) <= Len(J(n))
        /\ \A i \in 1..Len(parts[j + 1]) : J(n)[Len(J(j)) + i] = parts[j + 1][i]
    <3> DEFINE i == j + 1
    <3>1. i \in 1..Len(parts) /\ n \in i..Len(parts) /\ i - 1 = j
      BY <2>1
    <3> HIDE DEF n, parts, i
    <3>2. /\ Len(Joined(parts, i - 1)) + Len(parts[i]) = Len(Joined(parts, i))
          /\ Len(Joined(parts, i)) <= Len(Joined(parts, n))
          /\ \A e \in 1..Len(parts[i]) : Joined(parts, n)[Len(Joined(parts, i - 1)) + e] = parts[i][e]
      <4>1. parts \in Seq(Seq(Nat))
        BY <1>1
      <4> QED BY <3>1, <4>1, JoinedPlace
    <3> QED BY <3>1, <3>2 DEF i
  <2>4. k \in Nat
    <3>1. EncodeCommand(c) \in Seq(Nat)
      BY <2>2, EncodedCommand
    <3> QED BY <3>1, LenProperties
  <2>5. from(j) \in Nat /\ left(j) \in Int /\ left(j) >= k
    BY <1>1, <1>3, <1>4, <1>5, <2>2, <2>3, <2>4
  <2>6. ASSUME NEW i \in 1..k PROVE mem[from(j) + i - 1] = EncodeCommand(c)[i]
    <3> DEFINE o == Len(J(j))
    <3>1. o \in Nat /\ o + i \in 1..Len(J(n)) /\ o + i \in 0..(L - 1)
      <4>1. Len(J(n)) \in Nat /\ Len(J(j)) \in Nat /\ n \in 0..n
        BY <1>1, <1>4
      <4>2. Len(J(j)) + k <= Len(J(n))
        BY <2>2, <2>3
      <4>3. L = 1 + Len(J(n)) + Len(rest)
        BY <1>1
      <4> HIDE DEF J, L, k, rest
      <4> QED BY <1>3, <1>5, <2>4, <4>1, <4>2, <4>3
    <3>2. J(n)[o + i] = EncodeCommand(c)[i]
      BY <2>2, <2>3
    <3> HIDE DEF o, J, L, c, k
    <3>3. m.bytes[1 + (o + i)] = J(n)[o + i]
      BY <1>1, <3>1
    <3>4. mem[p + (1 + (o + i)) - 1] = m.bytes[1 + (o + i)]
      <4>1. 1 + (o + i) \in 1..Len(m.bytes)
        BY <1>3, <3>1 DEF L
      <4> QED BY <4>1 DEF LiesAt
    <3>5. from(j) + i - 1 = p + (1 + (o + i)) - 1
      BY <3>1 DEF o
    <3> QED BY <3>2, <3>3, <3>4, <3>5
  <2>7. /\ k \in 1..3
        /\ c \in {SeekUp, SeekDown} =>
             k = 1 /\ ParseStep(mem, P, from(j), left(j)) = << c >> \o P[<<from(j) + 2, left(j) - 1>>]
        /\ c \notin {SeekUp, SeekDown} =>
             ParseStep(mem, P, from(j), left(j)) = << c >> \o P[<<from(j) + k, left(j) - k>>]
    <3> DEFINE a == from(j)
               l == left(j)
    <3>1. a \in Nat /\ l \in Int /\ l >= k /\ \A i \in 1..k : mem[a + i - 1] = EncodeCommand(c)[i]
      BY <2>5, <2>6
    <3> HIDE DEF a, l, c, P
    <3>2. Reads(mem, P, a, l, c)
      <4>1. Decodable(c) /\ c \in Parsed /\ l >= Len(EncodeCommand(c))
            /\ LiesAt(mem, a, EncodeCommand(c))
        BY <2>2, <3>1 DEF LiesAt
      <4>2. a \in Nat /\ l \in Int
        BY <3>1
      <4> HIDE DEF k
      <4> QED BY <4>1, <4>2, ParseCommand
    <3> QED BY <3>2 DEF a, l, k, Reads
  <2>8. P[<<from(j), left(j)>>] = ParseStep(mem, P, from(j), left(j))
    BY <2>5, ParseType
  <2>9. from(j) + k = from(j + 1) /\ left(j) - k = left(j + 1)
    <3>1. Len(J(j + 1)) = Len(J(j)) + k
      BY <2>2, <2>3
    <3>2. Len(J(j)) \in Nat /\ Len(J(j + 1)) \in Nat
      BY <1>4, <2>1
    <3> HIDE DEF J, L, k
    <3> QED BY <1>3, <2>4, <3>1, <3>2
  <2>10. c \in {SeekUp, SeekDown} => j + 1 = Len(cmds)
    BY <1>2, <2>1
  <2>11. Len(J(j + 1)) = Len(J(j)) + k
    BY <2>2, <2>3
  <2> HIDE DEF c, k, J, from, left, P, cmds
  <2> QED BY <2>7, <2>8, <2>9, <2>10, <2>11 DEF c, k
<1> DEFINE S == {j \in 0..n : P[<<from(j), left(j)>>] = SubSeq(cmds, j + 1, Len(cmds))}
<1>7. n \in S
  <2>1. left(n) = Len(rest) /\ from(n) \in Nat
    BY <1>1, <1>4, <1>5
  <2>2. P[<<from(n), Len(rest)>>] = ParseStep(mem, P, from(n), Len(rest))
    BY <1>5, <2>1, ParseType
  <2>3. CASE Refused(cmds)
    <3>1. CutOff(rest) /\ n + 1 = Len(cmds)
      BY <1>1, <1>2, <2>3
    <3>2. mem[from(n)] = rest[1]
      <4>1. Len(rest) >= 1
        BY <1>1, <3>1, EmptySeq DEF CutOff
      <4>2. 1 \in 1..Len(rest) /\ 1 + Len(J(n)) \in 0..(L - 1) /\ Len(J(n)) \in Nat
        BY <1>1, <1>3, <1>4, <1>5, <4>1
      <4>3. m.bytes[1 + Len(J(n)) + 1] = rest[1]
        BY <1>1, <4>2
      <4>4. mem[p + (1 + Len(J(n)) + 1) - 1] = m.bytes[1 + Len(J(n)) + 1]
        <5>1. 1 + Len(J(n)) + 1 \in 1..Len(m.bytes)
          BY <1>3, <4>2
        <5> QED BY <5>1 DEF LiesAt
      <4>5. from(n) = p + (1 + Len(J(n)) + 1) - 1
        BY <4>2
      <4> QED BY <4>3, <4>4, <4>5
    <3>3. ParseStep(mem, P, from(n), Len(rest)) = << Bad >>
      BY <1>1, <2>1, <3>1, <3>2, ParseCutOff
    <3>4. cmds[Len(cmds)] = Bad
      BY <2>3 DEF Refused
    <3>5. SubSeq(cmds, Len(cmds), Len(cmds)) = << cmds[Len(cmds)] >>
      <4> HIDE DEF cmds
      <4>1. Len(cmds) \in 1..Len(cmds) /\ Len(cmds) \in Int /\ Len(cmds) < Len(cmds) + 1
        BY <1>1
      <4>2. SubSeq(cmds, Len(cmds), Len(cmds)) = << cmds[Len(cmds)] >> \o SubSeq(cmds, Len(cmds) + 1, Len(cmds))
        BY <1>3, <4>1, SubSeqRecursiveFirst
      <4>3. SubSeq(cmds, Len(cmds) + 1, Len(cmds)) = << >>
        BY <4>1, SubSeqEmpty
      <4>4. << cmds[Len(cmds)] >> \in Seq(Parsed)
        BY <1>1, <4>1, Prepend, <1>3
      <4> QED BY <4>2, <4>3, <4>4, ConcatEmptySeq
    <3> HIDE DEF cmds, P, from, left, J, rest, n
    <3>6. P[<<from(n), left(n)>>] = << Bad >>
      BY <2>1, <2>2, <3>3
    <3>7. SubSeq(cmds, n + 1, Len(cmds)) = << Bad >>
      BY <3>1, <3>4, <3>5
    <3>8. n \in 0..n
      BY <1>1
    <3> QED BY <3>6, <3>7, <3>8
  <2>4. CASE ~Refused(cmds)
    <3>1. rest = << >> /\ n = Len(cmds) /\ Len(rest) = 0
      BY <1>2, <2>4
    <3>2. ParseStep(mem, P, from(n), Len(rest)) = << >>
      BY <3>1 DEF ParseStep
    <3>3. SubSeq(cmds, n + 1, Len(cmds)) = << >>
      BY <1>1, <3>1, SubSeqEmpty
    <3> HIDE DEF cmds, P, from, left, J, rest, n
    <3>4. P[<<from(n), left(n)>>] = << >>
      BY <2>1, <2>2, <3>2
    <3> QED BY <1>1, <3>1, <3>3, <3>4
  <2> QED BY <2>3, <2>4
<1>8. ASSUME NEW j \in 0..n, j + 1 \in S, j # n PROVE j \in S
  <2> DEFINE c == cmds[j + 1]
  <2>1. j + 1 \in 1..Len(cmds) /\ Len(cmds) \in (j + 1)..Len(cmds) /\ j + 1 \in 0..n
    BY <1>1, <1>8
  <2>2. SubSeq(cmds, j + 1, Len(cmds)) = << c >> \o SubSeq(cmds, (j + 1) + 1, Len(cmds))
    BY <1>3, <2>1, SubSeqRecursiveFirst
  <2>3. CASE c \in {SeekUp, SeekDown}
    <3>1. Len(EncodeCommand(c)) = 1 /\ j + 1 = Len(cmds) /\ P[<<from(j), left(j)>>] = << c >> \o P[<<from(j) + 2, left(j) - 1>>]
      BY <1>6, <1>8, <2>3
    <3>2. rest = << >> /\ n = j + 1 /\ Len(rest) = 0
      BY <1>1, <1>2, <1>8, <3>1
    <3>3. Len(J(n)) = Len(J(j)) + 1
      BY <1>6, <1>8, <3>1, <3>2
    <3>4. left(j) - 1 = 0 /\ from(j) + 2 \in Nat
      BY <1>1, <1>4, <3>2, <3>3
    <3>5. P[<<from(j) + 2, 0>>] = ParseStep(mem, P, from(j) + 2, 0)
      BY <3>4, ParseType
    <3>6. ParseStep(mem, P, from(j) + 2, 0) = << >>
      BY DEF ParseStep
    <3>7. SubSeq(cmds, (j + 1) + 1, Len(cmds)) = << >>
      BY <1>1, <3>1, SubSeqEmpty
    <3>8. P[<<from(j), left(j)>>] = SubSeq(cmds, j + 1, Len(cmds))
      BY <2>2, <3>1, <3>4, <3>5, <3>6, <3>7
    <3> QED BY <3>8
  <2>4. CASE c \notin {SeekUp, SeekDown}
    <3>1. P[<<from(j), left(j)>>] = << c >> \o P[<<from(j + 1), left(j + 1)>>]
      BY <1>6, <1>8, <2>4
    <3>2. P[<<from(j + 1), left(j + 1)>>] = SubSeq(cmds, (j + 1) + 1, Len(cmds))
      BY <1>8
    <3>3. P[<<from(j), left(j)>>] = SubSeq(cmds, j + 1, Len(cmds))
      BY <2>2, <3>1, <3>2
    <3> QED BY <3>3
  <2> QED BY <2>3, <2>4
<1>9. 0 \in S
  <2>1. 0 \in Nat /\ n \in Nat /\ 0 \in 0..n
    BY <1>1
  <2> HIDE DEF S, n
  <2>2. \A j \in 0..n : j \in S
    BY <1>7, <1>8, <2>1, Downward
  <2> QED BY <2>1, <2>2
<1>10. P[<<p + 1, L - 1>>] = cmds
  <2>1. Len(J(0)) = 0
    <3>1. J(0) = << >>
      <4> HIDE DEF parts
      <4> QED BY <1>1, JoinedEquation
    <3> QED BY <3>1
  <2>2. from(0) = p + 1 /\ left(0) = L - 1
    BY <1>3, <2>1
  <2>3. SubSeq(cmds, 0 + 1, Len(cmds)) = cmds
    BY <1>3, SubSeqFull
  <2> QED BY <1>9, <2>2, <2>3
<1>11. L - 1 > 0 /\ p + 1 \in Nat /\ L - 1 \in Int
  BY <1>3
<1> QED BY <1>10, <1>11, ParseEventType

(* The announced length of a legible message is its length, or the message *)
(* is refused for it.                                                      *)
LEMMA LegibleSize ==
  ASSUME NEW m, AMessage(m), Legible(m)
  PROVE  /\ Len(m.bytes) \in Nat \ {0} /\ CharValue(m.bytes[1]) \in Int
         /\ CharValue(m.bytes[1]) <= 1 => Refused(m.cmds)
         /\ CharValue(m.bytes[1]) > 1 => CharValue(m.bytes[1]) = Len(m.bytes)
<1>1. Len(m.bytes) \in Nat \ {0} /\ m.bytes[1] \in Byte
  BY EmptySeq, ElementOfSeq DEF AMessage
<1>2. CharValue(m.bytes[1]) \in Int
  BY <1>1, BytesToNumbers
<1>3. IF Refused(m.cmds)
      THEN CharValue(m.bytes[1]) <= 1 \/ (CharValue(m.bytes[1]) = Len(m.bytes) /\ CutOff(Left(m)))
      ELSE CharValue(m.bytes[1]) = Len(m.bytes) /\ Left(m) = << >>
  BY LegibleDefined
<1>4. ASSUME ~Refused(m.cmds) PROVE Len(m.bytes) > 1
  <2> DEFINE J(j) == Joined(Encoded(m), j)
  <2>1. /\ Len(m.cmds) \in Nat \ {0} /\ Encoded(m) \in Seq(Seq(Nat)) /\ Len(Encoded(m)) = Len(m.cmds)
        /\ \A i \in 1..Len(m.cmds) : Encoded(m)[i] = EncodeCommand(m.cmds[i]) /\ m.cmds[i] \in Parsed
        /\ Len(m.bytes) = 1 + Len(J(Readable(m))) + Len(Left(m))
    BY LegibleShape
  <2>2. Readable(m) = Len(m.cmds)
    <3>1. IF Refused(m.cmds) THEN Readable(m) = Len(m.cmds) - 1 ELSE Readable(m) = Len(m.cmds) - 0
      BY DEF Readable
    <3> QED BY <1>4, <2>1, <3>1
  <2>3. 1 \in 1..Len(Encoded(m)) /\ Len(m.cmds) \in 1..Len(Encoded(m)) /\ 1 - 1 = 0 /\ 1 \in 1..Len(m.cmds)
    BY <2>1
  <2>4. /\ Len(J(0)) + Len(Encoded(m)[1]) = Len(J(1)) /\ Len(J(1)) <= Len(J(Len(m.cmds)))
        /\ J(0) \in Seq(Nat) /\ J(Len(m.cmds)) \in Seq(Nat)
    <3> DEFINE one == 1
    <3>1. one \in 1..Len(Encoded(m)) /\ Len(m.cmds) \in one..Len(Encoded(m)) /\ one - 1 = 0 /\ one = 1
      BY <2>3
    <3>2. Encoded(m) \in Seq(Seq(Nat))
      BY <2>1
    <3> HIDE DEF one
    <3>3. /\ Joined(Encoded(m), Len(m.cmds)) \in Seq(Nat) /\ Joined(Encoded(m), one - 1) \in Seq(Nat)
          /\ Len(Joined(Encoded(m), one - 1)) + Len(Encoded(m)[one]) = Len(Joined(Encoded(m), one))
          /\ Len(Joined(Encoded(m), one)) <= Len(Joined(Encoded(m), Len(m.cmds)))
      BY <3>1, <3>2, JoinedPlace
    <3> QED BY <3>1, <3>3
  <2>5. Encoded(m)[1] = EncodeCommand(m.cmds[1]) /\ m.cmds[1] \in Parsed
    BY <2>1, <2>3
  <2>6. Encoded(m)[1] \in Seq(Nat) /\ Len(Encoded(m)[1]) >= 1
    BY <2>5, EncodedCommand
  <2>7. Left(m) = << >> /\ Len(Left(m)) = 0
    BY <1>3, <1>4
  <2>8. Len(Encoded(m)[1]) \in Nat /\ Len(J(0)) \in Nat /\ Len(J(Len(m.cmds))) \in Nat /\ Len(J(1)) \in Int
    BY <2>4, <2>6, LenProperties
  <2> HIDE DEF J
  <2> QED BY <2>1, <2>2, <2>4, <2>6, <2>7, <2>8
<1> QED BY <1>1, <1>2, <1>3, <1>4

-----------------------------------------------------------------------------
(* The byte stream of some messages, and what handler_event makes of the   *)
(* part of it that is in the buffer.                                       *)

BytesOf(s) == [i \in DOMAIN s |-> s[i].bytes]
CmdsOf(s) == [i \in DOMAIN s |-> s[i].cmds]
Start(s, n) == Len(Joined(BytesOf(s), n))
Stream(s) == Joined(BytesOf(s), Len(s))
Asked(s, n) == Joined(CmdsOf(s), n)

LEMMA PartsOf ==
  ASSUME NEW s \in Seq(Messages)
  PROVE  /\ Len(s) \in Nat
         /\ \A i \in 1..Len(s) : s[i] \in Messages /\ AMessage(s[i])
         /\ BytesOf(s) \in Seq(Seq(Byte)) /\ Len(BytesOf(s)) = Len(s)
         /\ \A i \in 1..Len(s) : BytesOf(s)[i] = s[i].bytes /\ BytesOf(s)[i] # << >>
         /\ CmdsOf(s) \in Seq(Seq(Parsed)) /\ Len(CmdsOf(s)) = Len(s)
         /\ \A i \in 1..Len(s) : CmdsOf(s)[i] = s[i].cmds
<1>1. Len(s) \in Nat /\ DOMAIN s = 1..Len(s)
  BY LenProperties
<1>2. \A i \in 1..Len(s) : s[i] \in Messages /\ AMessage(s[i])
  <2>1. \A i \in 1..Len(s) : s[i] \in Messages
    BY ElementOfSeq
  <2> QED BY <2>1, ClientBufferAssumption DEF AMessage
<1> DEFINE B == Seq(Byte)
           C == Seq(Parsed)
<1>3. \A i \in 1..Len(s) : s[i].bytes \in B /\ s[i].bytes # << >> /\ s[i].cmds \in C
  BY <1>2 DEF AMessage
<1> HIDE DEF B, C
<1>4. BytesOf(s) \in [1..Len(s) -> B] /\ CmdsOf(s) \in [1..Len(s) -> C]
  BY <1>1, <1>3 DEF BytesOf, CmdsOf
<1>5. BytesOf(s) \in Seq(B) /\ Len(BytesOf(s)) = Len(s) /\ CmdsOf(s) \in Seq(C) /\ Len(CmdsOf(s)) = Len(s)
  BY <1>1, <1>4
<1>6. \A i \in 1..Len(s) : BytesOf(s)[i] = s[i].bytes /\ CmdsOf(s)[i] = s[i].cmds
  BY <1>1 DEF BytesOf, CmdsOf
<1> QED BY <1>1, <1>2, <1>3, <1>5, <1>6 DEF B, C

LEMMA StreamShape ==
  ASSUME NEW s \in Seq(Messages)
  PROVE  /\ Stream(s) \in Seq(Byte) /\ Len(Stream(s)) \in Nat
         /\ \A n \in 0..Len(s) : Start(s, n) \in Nat /\ Start(s, n) <= Len(Stream(s)) /\ Asked(s, n) \in Seq(Parsed)
         /\ Start(s, 0) = 0 /\ Start(s, Len(s)) = Len(Stream(s)) /\ Asked(s, 0) = << >>
         /\ \A n, k \in 0..Len(s) : n < k => Start(s, n) < Start(s, k)
<1>1. /\ Len(s) \in Nat /\ BytesOf(s) \in Seq(Seq(Byte)) /\ Len(BytesOf(s)) = Len(s)
      /\ \A i \in 1..Len(s) : BytesOf(s)[i] # << >>
      /\ CmdsOf(s) \in Seq(Seq(Parsed)) /\ Len(CmdsOf(s)) = Len(s)
  BY PartsOf
<1>2. \A n \in 0..Len(s) : Joined(BytesOf(s), n) \in Seq(Byte) /\ Joined(CmdsOf(s), n) \in Seq(Parsed)
  BY <1>1, JoinedEquation
<1>3. \A n \in 0..Len(s) : Len(Joined(BytesOf(s), n)) \in Nat
  BY <1>2, LenProperties
<1>4. Joined(BytesOf(s), 0) = << >> /\ Joined(CmdsOf(s), 0) = << >> /\ Len(<< >>) = 0
  BY <1>1, JoinedEquation
<1>5. ASSUME NEW n \in 0..Len(s), NEW k \in 0..Len(s), n < k PROVE Start(s, n) < Start(s, k)
  <2>1. BytesOf(s) \in Seq(Seq(Byte)) /\ n \in 0..Len(BytesOf(s)) /\ k \in 0..Len(BytesOf(s))
        /\ \A i \in 1..Len(BytesOf(s)) : BytesOf(s)[i] # << >>
    BY <1>1
  <2> QED BY <1>5, <2>1, JoinedGrows DEF Start
<1>6. Len(s) \in 0..Len(s) /\ Start(s, Len(s)) = Len(Stream(s))
  BY <1>1 DEF Start, Stream
<1>7. ASSUME NEW n \in 0..Len(s) PROVE Start(s, n) <= Len(Stream(s))
  <2>1. Start(s, n) \in Nat /\ (n = Len(s) \/ n < Len(s))
    BY <1>1, <1>3 DEF Start
  <2> QED BY <1>5, <1>6, <2>1
<1> QED BY <1>2, <1>3, <1>4, <1>5, <1>6, <1>7 DEF Stream, Start, Asked

LEMMA StreamPlace ==
  ASSUME NEW s \in Seq(Messages), NEW n \in 0..Len(s), n # Len(s)
  PROVE  /\ Start(s, n + 1) = Start(s, n) + Len(s[n + 1].bytes)
         /\ \A i \in 1..Len(s[n + 1].bytes) : Stream(s)[Start(s, n) + i] = s[n + 1].bytes[i]
         /\ Asked(s, n + 1) = Asked(s, n) \o s[n + 1].cmds
<1>1. /\ Len(s) \in Nat /\ BytesOf(s) \in Seq(Seq(Byte)) /\ Len(BytesOf(s)) = Len(s)
      /\ \A i \in 1..Len(s) : BytesOf(s)[i] = s[i].bytes
      /\ CmdsOf(s) \in Seq(Seq(Parsed)) /\ Len(CmdsOf(s)) = Len(s)
      /\ \A i \in 1..Len(s) : CmdsOf(s)[i] = s[i].cmds
  BY PartsOf
<1> DEFINE k == n + 1
<1>2. /\ k \in 1..Len(BytesOf(s)) /\ Len(s) \in k..Len(BytesOf(s)) /\ k - 1 = n /\ k \in 1..Len(CmdsOf(s)) /\ k \in 1..Len(s)
  BY <1>1
<1>3. BytesOf(s) \in Seq(Seq(Byte)) /\ CmdsOf(s) \in Seq(Seq(Parsed))
  BY <1>1
<1> HIDE DEF k
<1>4. /\ Len(Joined(BytesOf(s), k - 1)) + Len(BytesOf(s)[k]) = Len(Joined(BytesOf(s), k))
      /\ \A i \in 1..Len(BytesOf(s)[k]) : Joined(BytesOf(s), Len(s))[Len(Joined(BytesOf(s), k - 1)) + i] = BytesOf(s)[k][i]
  BY <1>2, <1>3, JoinedPlace
<1>5. Joined(CmdsOf(s), k) = Joined(CmdsOf(s), k - 1) \o CmdsOf(s)[k]
  BY <1>2, <1>3, JoinedEquation
<1>6. BytesOf(s)[k] = s[k].bytes /\ CmdsOf(s)[k] = s[k].cmds
  BY <1>1, <1>2
<1> QED BY <1>2, <1>4, <1>5, <1>6 DEF Start, Stream, Asked, k

(* Lists of commands may be joined in either order of joining. *)
LEMMA Associate ==
  ASSUME NEW a \in Seq(Parsed), NEW b \in Seq(Parsed), NEW c \in Seq(Parsed)
  PROVE  (a \o b) \o c = a \o (b \o c)
<1> DEFINE P == Parsed
<1> HIDE DEF P
<1>1. a \in Seq(P) /\ b \in Seq(P) /\ c \in Seq(P)
  BY DEF P
<1> QED BY <1>1, ConcatAssociative

(* What the handler has done when it stops: it refused a message, behind   *)
(* those it has taken, or it stands at the end of the j-th, in front of an *)
(* incomplete one if any.                                                  *)
Follows(s, n, k, at, h) ==
  \/ h.malformed /\ \E i \in 1..Len(s) : Refused(s[i].cmds) /\ Asked(s, i - 1) = Asked(s, k) \o h.cmds
  \/ /\ ~h.malformed
     /\ \E j \in k..Len(s) :
          /\ h.ret = Start(s, j) - Start(s, n) /\ h.ret <= at
          /\ Asked(s, j) = Asked(s, k) \o h.cmds
          /\ at = h.ret \/ (j # Len(s) /\ at - h.ret < Len(s[j + 1].bytes))

(* The first `at` bytes of the memory follow the n-th message.             *)
Holds(s, n, mem, at) ==
  /\ Start(s, n) + at <= Len(Stream(s))
  /\ \A i \in 0..(at - 1) : mem[i] = Stream(s)[Start(s, n) + i + 1]

(* The handler does what it should from the end of the k-th message on.    *)
Stands(s, n, k, at, d) == d = Start(s, k) - Start(s, n) /\ d <= at

RightFrom(s, n, k, at, mem) ==
  \A d \in Nat : Stands(s, n, k, at, d) =>
    Follows(s, n, k, at, Handle(mem, at)[<<d, at - d>>])

LEMMA FollowsStep ==
  ASSUME MessagesLegible, NEW s \in Seq(Messages), NEW n \in 0..Len(s), NEW k \in n..Len(s),
         NEW mem \in [Nat -> Byte], NEW at \in Nat, Holds(s, n, mem, at),
         NEW d \in Nat, Stands(s, n, k, at, d),
         k = Len(s) \/ RightFrom(s, n, k + 1, at, mem)
  PROVE  Follows(s, n, k, at, Handle(mem, at)[<<d, at - d>>])
<1> DEFINE H == Handle(mem, at)
           len == at - d
           size == CharValue(mem[d])
           m == s[k + 1]
<1>1. /\ Len(s) \in Nat /\ n \in Nat /\ k \in 0..Len(s) /\ n <= k
      /\ Start(s, k) \in Nat /\ Start(s, n) \in Nat /\ Len(Stream(s)) \in Nat
      /\ Start(s, k) <= Len(Stream(s)) /\ Start(s, Len(s)) = Len(Stream(s))
      /\ Asked(s, k) \in Seq(Parsed) /\ d = Start(s, k) - Start(s, n)
  BY PartsOf, StreamShape DEF Stands
<1>2. len \in Nat /\ len = at - d /\ at - len = d /\ d + len = at
  <2>1. d <= at
    BY DEF Stands
  <2> QED BY <2>1
<1>3. H[<<d, len>>] = HandleStep(mem, at, H, d, len)
  BY <1>2, HandleType
<1> HIDE DEF H, len
<1> SUFFICES Follows(s, n, k, at, H[<<d, len>>])
  BY DEF H, len
<1>4. ASSUME HandleStep(mem, at, H, d, len) = Stopped(at - len, FALSE),
             len = 0 \/ (k # Len(s) /\ len < Len(m.bytes))
      PROVE  Follows(s, n, k, at, H[<<d, len>>])
  <2> DEFINE h == H[<<d, len>>]
  <2>1. h.ret = d /\ h.cmds = << >> /\ h.malformed = FALSE
    BY <1>2, <1>3, <1>4 DEF Stopped
  <2>2. Asked(s, k) = Asked(s, k) \o << >>
    BY <1>1, ConcatEmptySeq
  <2>3. k \in k..Len(s) /\ (len = 0 => at = d) /\ at - d = len
    BY <1>1, <1>2
  <2> HIDE DEF h, m
  <2>4. /\ h.ret = Start(s, k) - Start(s, n) /\ h.ret <= at
        /\ Asked(s, k) = Asked(s, k) \o h.cmds
        /\ at = h.ret \/ (k # Len(s) /\ at - h.ret < Len(s[k + 1].bytes))
    <3>1. h.ret = Start(s, k) - Start(s, n) /\ h.ret <= at
      BY <2>1 DEF Stands
    <3>2. Asked(s, k) = Asked(s, k) \o h.cmds
      BY <2>1, <2>2
    <3>3. at = h.ret \/ (k # Len(s) /\ at - h.ret < Len(s[k + 1].bytes))
      BY <1>4, <2>1, <2>3 DEF m
    <3> QED BY <3>1, <3>2, <3>3
  <2>5. Follows(s, n, k, at, h)
    BY <2>1, <2>3, <2>4 DEF Follows
  <2> QED BY <2>5 DEF h
<1>5. CASE len = 0
  <2>1. HandleStep(mem, at, H, d, len) = Stopped(at - len, FALSE)
    BY <1>5 DEF HandleStep
  <2> QED BY <1>4, <1>5, <2>1
<1>6. CASE len # 0
  <2>1. k # Len(s)
    <3> SUFFICES ASSUME k = Len(s) PROVE FALSE
      OBVIOUS
    <3> DEFINE a == Start(s, n)
               b == Len(Stream(s))
    <3>1. a \in Nat /\ b \in Nat /\ d = b - a
      BY <1>1
    <3>2. a + at <= b
      BY DEF Holds
    <3> HIDE DEF a, b
    <3>3. at <= d
      BY <3>1, <3>2
    <3> QED BY <1>2, <1>6, <3>3
  <2>2. k + 1 \in 1..Len(s) /\ k + 1 \in 0..Len(s)
    BY <1>1, <2>1
  <2>3. AMessage(m) /\ Legible(m)
    BY <2>2, PartsOf DEF MessagesLegible
  <2>4. /\ Start(s, k + 1) = Start(s, k) + Len(m.bytes)
        /\ \A i \in 1..Len(m.bytes) : Stream(s)[Start(s, k) + i] = m.bytes[i]
        /\ Asked(s, k + 1) = Asked(s, k) \o m.cmds
    BY <1>1, <2>1, StreamPlace
  <2>5. /\ Len(m.bytes) \in Nat \ {0} /\ CharValue(m.bytes[1]) \in Int
        /\ CharValue(m.bytes[1]) <= 1 => Refused(m.cmds)
        /\ CharValue(m.bytes[1]) > 1 => CharValue(m.bytes[1]) = Len(m.bytes)
    BY <2>3, LegibleSize
  <2>6. ASSUME NEW i \in 1..Len(m.bytes), i <= len PROVE mem[d + i - 1] = m.bytes[i]
    <3> DEFINE o == d + i - 1
    <3>1. o \in 0..(at - 1) /\ Start(s, n) + o + 1 = Start(s, k) + i
      <4>1. Len(m.bytes) \in Nat
        BY <2>5
      <4> HIDE DEF m
      <4>2. o = d + i - 1 /\ i \in Nat /\ 1 <= i
        BY <4>1
      <4>3. Start(s, k) = Start(s, n) + d
        BY <1>1
      <4> HIDE DEF o
      <4>4. Start(s, n) \in Nat
        BY <1>1
      <4> QED BY <1>2, <2>6, <4>2, <4>3, <4>4
    <3> HIDE DEF o
    <3>2. mem[o] = Stream(s)[Start(s, n) + o + 1]
      BY <3>1 DEF Holds
    <3>3. Stream(s)[Start(s, k) + i] = m.bytes[i]
      BY <2>4
    <3>4. mem[o] = m.bytes[i]
      BY <3>1, <3>2, <3>3
    <3> QED BY <3>4 DEF o
  <2>7. mem[d] = m.bytes[1] /\ size = CharValue(m.bytes[1])
    <3>1. 1 \in 1..Len(m.bytes) /\ 1 <= len /\ d + 1 - 1 = d
      BY <1>2, <1>6, <2>5
    <3> QED BY <2>6, <3>1
  <2>8. size \in Int
    BY <2>5, <2>7
  <2>9. CASE len < size
    <3>1. HandleStep(mem, at, H, d, len) = Stopped(at - len, FALSE)
      BY <2>9 DEF HandleStep
    <3>2. size = Len(m.bytes)
      BY <1>2, <1>6, <2>5, <2>7, <2>9
    <3> QED BY <1>4, <2>1, <2>9, <3>1, <3>2
  <2>10. CASE ~(len < size)
    <3> DEFINE cmds == ParseEvent(mem, d + 1, size - 1)
    <3>1. HandleStep(mem, at, H, d, len) = HandleMessage(mem, at, H, d, len)
      <4>1. ~(len <= 0 \/ len < CharValue(mem[d]))
        BY <1>2, <1>6, <2>10
      <4> QED BY <4>1 DEF HandleStep
    <3>2. size <= 1 => Refused(cmds)
      BY AcceptedSize
    <3>3. size > 1 => cmds = m.cmds /\ size = Len(m.bytes)
      <4> SUFFICES ASSUME size > 1 PROVE cmds = m.cmds /\ size = Len(m.bytes)
        OBVIOUS
      <4>1. size = Len(m.bytes)
        BY <2>5, <2>7
      <4>2. LiesAt(mem, d, m.bytes)
        BY <2>5, <2>6, <2>8, <2>10, <4>1, <1>2 DEF LiesAt
      <4>3. ParseEvent(mem, d + 1, CharValue(m.bytes[1]) - 1) = m.cmds
        <5>1. CharValue(m.bytes[1]) = Len(m.bytes) /\ CharValue(m.bytes[1]) > 1
          BY <2>7, <4>1
        <5> HIDE DEF m
        <5> QED BY <2>3, <4>2, <5>1, ParserReadsBack
      <4> QED BY <2>7, <4>1, <4>3
    <3>4. CASE Refused(cmds)
      <4>1. H[<<d, len>>] = Stopped(at, TRUE)
        BY <1>3, <3>1, <3>4 DEF HandleMessage
      <4>2. Refused(s[k + 1].cmds)
        BY <2>5, <2>7, <2>8, <3>3, <3>4
      <4>3. Stopped(at, TRUE).malformed = TRUE /\ Stopped(at, TRUE).cmds = << >>
        BY DEF Stopped
      <4>4. Follows(s, n, k, at, Stopped(at, TRUE))
        <5> DEFINE h == Stopped(at, TRUE)
                   i == k + 1
        <5>1. h.malformed = TRUE /\ i \in 1..Len(s) /\ Refused(s[i].cmds)
          BY <2>2, <4>2, <4>3
        <5>3. Asked(s, i - 1) = Asked(s, k) \o h.cmds
          <6>1. i - 1 = k
            BY <1>1
          <6>2. Asked(s, k) = Asked(s, k) \o << >>
            BY <1>1, ConcatEmptySeq
          <6> QED BY <4>3, <6>1, <6>2
        <5> HIDE DEF h, i
        <5>2. Follows(s, n, k, at, h)
          BY <5>1, <5>3 DEF Follows
        <5> QED BY <5>2 DEF h
      <4> QED BY <4>1, <4>4
    <3>5. CASE ~Refused(cmds)
      <4> DEFINE e == d + size
                 g == H[<<e, at - e>>]
                 h == H[<<d, len>>]
      <4>1. size > 1 /\ cmds = m.cmds /\ size = Len(m.bytes)
        BY <2>8, <3>2, <3>3, <3>5
      <4>2. e \in Nat /\ e = Start(s, k + 1) - Start(s, n) /\ e <= at /\ len - size = at - e
        <5>1. Len(m.bytes) \in Nat /\ Start(s, k + 1) = Start(s, k) + size
          BY <2>4, <2>5, <4>1
        <5> HIDE DEF size, m
        <5>2. Start(s, k) \in Nat /\ Start(s, n) \in Nat /\ d = Start(s, k) - Start(s, n)
          BY <1>1
        <5>3. size \in Int /\ size > 1 /\ size <= len
          BY <1>2, <2>8, <2>10, <4>1
        <5>4. e \in Nat /\ e <= at /\ len - size = at - e
          BY <1>2, <5>3
        <5>5. e = Start(s, k + 1) - Start(s, n)
          BY <5>1, <5>2, <5>3
        <5> QED BY <5>4, <5>5
      <4>3. Follows(s, n, k + 1, at, g)
        <5>1. Stands(s, n, k + 1, at, e)
          BY <4>2 DEF Stands
        <5>2. RightFrom(s, n, k + 1, at, mem)
          BY <2>1
        <5> HIDE DEF e
        <5>3. Follows(s, n, k + 1, at, Handle(mem, at)[<<e, at - e>>])
          BY <4>2, <5>1, <5>2 DEF RightFrom
        <5> QED BY <5>3 DEF H
      <4>4. h = [g EXCEPT !.cmds = cmds \o @]
        BY <1>3, <3>1, <3>5, <4>2 DEF HandleMessage
      <4>5. g \in Handled
        <5>1. e \in Nat /\ at - e \in Int
          BY <4>2
        <5> HIDE DEF e
        <5>2. Handle(mem, at)[<<e, at - e>>] \in Handled
          BY <5>1, HandleType
        <5> QED BY <5>2 DEF H
      <4> HIDE DEF e, g, h, cmds, size, m, H
      <4> SUFFICES Follows(s, n, k, at, h)
        BY DEF h
      <4>6. h.ret = g.ret /\ h.malformed = g.malformed /\ h.cmds = cmds \o g.cmds /\ g.cmds \in Seq(Parsed)
        BY <4>4, <4>5 DEF Handled
      <4>9. Asked(s, k + 1) \o g.cmds = Asked(s, k) \o (m.cmds \o g.cmds)
        <5>1. m.cmds \in Seq(Parsed)
          BY <2>3 DEF AMessage
        <5>2. (Asked(s, k) \o m.cmds) \o g.cmds = Asked(s, k) \o (m.cmds \o g.cmds)
          BY <1>1, <4>6, <5>1, Associate
        <5> QED BY <2>4, <5>2
      <4>7. CASE g.malformed
        <5>1. PICK i \in 1..Len(s) : Refused(s[i].cmds) /\ Asked(s, i - 1) = Asked(s, k + 1) \o g.cmds
          BY <4>3, <4>7 DEF Follows
        <5>2. h.malformed /\ Asked(s, i - 1) = Asked(s, k) \o h.cmds
          BY <4>1, <4>6, <4>7, <4>9, <5>1
        <5> QED BY <5>1, <5>2 DEF Follows
      <4>8. CASE ~g.malformed
        <5>1. PICK j \in (k + 1)..Len(s) :
                /\ g.ret = Start(s, j) - Start(s, n) /\ g.ret <= at
                /\ Asked(s, j) = Asked(s, k + 1) \o g.cmds
                /\ at = g.ret \/ (j # Len(s) /\ at - g.ret < Len(s[j + 1].bytes))
          BY <4>3, <4>8 DEF Follows
        <5>3. j \in k..Len(s)
          BY <1>1
        <5>4. Asked(s, j) = Asked(s, k) \o h.cmds
          BY <4>1, <4>6, <5>1, <4>9
        <5>5. /\ h.ret = Start(s, j) - Start(s, n) /\ h.ret <= at
              /\ at = h.ret \/ (j # Len(s) /\ at - h.ret < Len(s[j + 1].bytes))
          BY <4>6, <5>1
        <5>6. ~h.malformed
          BY <4>6, <4>8
        <5> QED BY <5>3, <5>4, <5>5, <5>6 DEF Follows
      <4> QED BY <4>7, <4>8
    <3> QED BY <3>4, <3>5
  <2> QED BY <2>9, <2>10
<1> QED BY <1>5, <1>6

LEMMA HandleStream ==
  ASSUME MessagesLegible, NEW s \in Seq(Messages), NEW n \in 0..Len(s),
         NEW mem \in [Nat -> Byte], NEW at \in Nat, Holds(s, n, mem, at)
  PROVE  Follows(s, n, n, at, HandlerEvent(mem, at))
<1> DEFINE S == {k \in n..Len(s) :
                   RightFrom(s, n, k, at, mem)}
<1>1. Len(s) \in Nat /\ n \in Nat /\ n <= Len(s) /\ Start(s, n) \in Nat
  <2>1. Len(s) \in Nat
    BY LenProperties
  <2>2. Start(s, n) \in Nat
    BY StreamShape
  <2> QED BY <2>1, <2>2
<1>2. ASSUME NEW k \in n..Len(s), k = Len(s) \/ k + 1 \in S PROVE k \in S
  <2>1. k = Len(s) \/ RightFrom(s, n, k + 1, at, mem)
    BY <1>2
  <2>2. ASSUME NEW d \in Nat, Stands(s, n, k, at, d)
        PROVE  Follows(s, n, k, at, Handle(mem, at)[<<d, at - d>>])
    <3> HIDE DEF S
    <3> QED BY <2>1, <2>2, FollowsStep
  <2> QED BY <2>2 DEF RightFrom
<1>3. Len(s) \in S
  <2>1. Len(s) \in n..Len(s)
    BY <1>1
  <2> HIDE DEF S
  <2> QED BY <1>2, <2>1
<1>4. n \in S
  <2> HIDE DEF S
  <2>1. \A k \in n..Len(s) : k + 1 \in S /\ k # Len(s) => k \in S
    BY <1>2
  <2>2. n \in n..Len(s)
    BY <1>1
  <2> QED BY <1>1, <1>3, <2>1, <2>2, Downward
<1>5. Follows(s, n, n, at, Handle(mem, at)[<<0, at - 0>>])
  <2>1. 0 \in Nat /\ 0 = Start(s, n) - Start(s, n) /\ 0 <= at
    BY <1>1
  <2> QED BY <1>4, <2>1 DEF RightFrom, Stands
<1>6. at - 0 = at /\ at \in Int
  OBVIOUS
<1> QED BY <1>5, <1>6, HandlerEventType

-----------------------------------------------------------------------------
(* One call of recv and of the handler.                                    *)

LEMMA DeliverShape ==
  ASSUME TypeOK, NEW bytes \in Seq(Byte), NEW len \in Int, Deliver(bytes, len),
         NEW at \in Int, at = pos + len
  PROVE  \E mem \in [Nat -> Byte], h \in Handled :
           /\ h = HandlerEvent(mem, at)
           /\ \A i \in Index : mem[i] = IF i >= pos /\ i < pos + Len(bytes) THEN bytes[i - pos + 1] ELSE buf[i]
           /\ pos' = at - Clamp(h.ret, at)
           /\ buf' = [i \in Index |-> IF i < pos' THEN [j \in Index |-> mem[j]][i + Clamp(h.ret, at)] ELSE mem[i]]
           /\ applied' = applied \o h.cmds
           /\ shut' = (shut \/ h.malformed)
<1> DEFINE filled == [i \in Index |->
                        IF i >= pos /\ i < pos + Len(bytes) THEN bytes[i - pos + 1] ELSE buf[i]]
           Mem(over) == [i \in Nat |-> IF i \in Index THEN filled[i] ELSE over]
           Result(over) == HandlerEvent(Mem(over), at)
           Ret(over) == Clamp(Result(over).ret, at)
<1>1. PICK over \in OverreadBytes :
        /\ buf' = MoveDown(filled, Ret(over), at - Ret(over))
        /\ pos' = at - Ret(over)
        /\ applied' = applied \o Result(over).cmds
        /\ shut' = (shut \/ Result(over).malformed)
  <2> DEFINE there == pos + len
  <2>1. PICK over \in OverreadBytes :
          LET result == HandlerEvent(Mem(over), there)
              ret == Clamp(result.ret, there)
          IN  /\ buf' = MoveDown(filled, ret, there - ret)
              /\ pos' = there - ret
              /\ applied' = applied \o result.cmds
              /\ shut' = (shut \/ result.malformed)
    BY Zenon DEF Deliver
  <2>2. there = at
    OBVIOUS
  <2> HIDE DEF there, filled, Mem
  <2> QED BY <2>1, <2>2, Zenon
<1>2. over \in Byte
  BY ClientBufferAssumption
<1>3. pos \in Int /\ Len(bytes) \in Nat /\ at \in Int /\ Index \subseteq Nat /\ CLIENT_BUFFER_SIZE \in Nat
  BY LenProperties, ClientBufferAssumption DEF TypeOK, Index
<1>4. filled \in [Index -> Byte]
  <2> SUFFICES ASSUME NEW i \in Index
               PROVE  (IF i >= pos /\ i < pos + Len(bytes) THEN bytes[i - pos + 1] ELSE buf[i]) \in Byte
    OBVIOUS
  <2>1. buf[i] \in Byte
    BY DEF TypeOK
  <2>2. i \in Nat
    BY <1>3
  <2>3. i >= pos /\ i < pos + Len(bytes) => i - pos + 1 \in 1..Len(bytes)
    BY <1>3, <2>2
  <2>4. i >= pos /\ i < pos + Len(bytes) => bytes[i - pos + 1] \in Byte
    BY <2>3, ElementOfSeq
  <2> QED BY <2>1, <2>4
<1> DEFINE mem == Mem(over)
           h == Result(over)
<1>5. mem \in [Nat -> Byte] /\ \A i \in Index : mem[i] = filled[i]
  <2> HIDE DEF filled
  <2> QED BY <1>2, <1>3, <1>4
<1>6. h \in Handled /\ h = HandlerEvent(mem, at)
  <2>1. h = HandlerEvent(mem, at)
    OBVIOUS
  <2> HIDE DEF mem, h
  <2> QED BY <1>3, <1>5, <2>1, HandlerEventType
<1>7. \A i \in Index : mem[i] = IF i >= pos /\ i < pos + Len(bytes) THEN bytes[i - pos + 1] ELSE buf[i]
  <2>1. \A i \in Index : filled[i] = IF i >= pos /\ i < pos + Len(bytes) THEN bytes[i - pos + 1] ELSE buf[i]
    OBVIOUS
  <2> HIDE DEF filled, mem
  <2> QED BY <1>5, <2>1
<1>8. [j \in Index |-> mem[j]] = filled
  <2>1. filled = [j \in Index |-> filled[j]]
    OBVIOUS
  <2> HIDE DEF filled, mem
  <2> QED BY <1>5, <2>1
<1>9. buf' = [i \in Index |-> IF i < pos' THEN [j \in Index |-> mem[j]][i + Clamp(h.ret, at)] ELSE mem[i]]
  <2>1. buf' = [i \in Index |-> IF i < pos' THEN filled[i + Clamp(h.ret, at)] ELSE filled[i]]
    <3> HIDE DEF filled
    <3> QED BY <1>1 DEF MoveDown
  <2> HIDE DEF filled, mem, h
  <2> QED BY <1>5, <1>8, <2>1
<1>10. /\ pos' = at - Clamp(h.ret, at) /\ applied' = applied \o h.cmds /\ shut' = (shut \/ h.malformed)
  BY <1>1, Zenon
<1> HIDE DEF mem, h
<1> QED BY <1>5, <1>6, <1>7, <1>9, <1>10

(* What is consumed is never more than there is, nor less than nothing.    *)
LEMMA DeliverType ==
  ASSUME TypeOK, NEW bytes \in Seq(Byte), NEW len \in Int, Deliver(bytes, len),
         pos + len <= CLIENT_BUFFER_SIZE, len >= -1
  PROVE  /\ pos' \in 0..CLIENT_BUFFER_SIZE /\ buf' \in [Index -> Byte]
         /\ applied' \in Seq(Parsed) /\ shut' \in BOOLEAN
<1>0. PICK at \in Int : at = pos + len
  BY DEF TypeOK
<1>1. PICK mem \in [Nat -> Byte], h \in Handled :
           /\ h = HandlerEvent(mem, at)
           /\ \A i \in Index : mem[i] = IF i >= pos /\ i < pos + Len(bytes) THEN bytes[i - pos + 1] ELSE buf[i]
           /\ pos' = at - Clamp(h.ret, at)
           /\ buf' = [i \in Index |-> IF i < pos' THEN [j \in Index |-> mem[j]][i + Clamp(h.ret, at)] ELSE mem[i]]
           /\ applied' = applied \o h.cmds
           /\ shut' = (shut \/ h.malformed)
  BY <1>0, DeliverShape
<1>2. pos \in Int /\ 0 <= pos /\ at \in Int /\ at >= -1 /\ at <= CLIENT_BUFFER_SIZE /\ CLIENT_BUFFER_SIZE \in Nat
  BY <1>0, ClientBufferAssumption DEF TypeOK
<1>3. h.ret \in Int /\ h.cmds \in Seq(Parsed) /\ h.malformed \in BOOLEAN
  BY DEF Handled
<1>4. at <= 0 => h.ret = 0
  <2>1. at <= 0 => h = Stopped(0, FALSE)
    BY <1>1, <1>2, HandlerEventType
  <2> QED BY <2>1 DEF Stopped
<1> DEFINE ret == Clamp(h.ret, at)
<1>11. /\ pos' = at - ret
       /\ buf' = [i \in Index |-> IF i < pos' THEN [j \in Index |-> mem[j]][i + ret] ELSE mem[i]]
  BY <1>1, Zenon
<1>5. ret \in Int /\ ret <= at /\ (at >= 0 => ret >= 0) /\ (at = -1 => ret = -1)
  BY <1>2, <1>3, <1>4 DEF Clamp
<1> HIDE DEF ret
<1>6. pos' = at - ret /\ pos' \in 0..CLIENT_BUFFER_SIZE /\ (pos' > 0 => ret >= 0)
  BY <1>2, <1>5, <1>11
<1>7. ASSUME NEW i \in Index
      PROVE  (IF i < pos' THEN [j \in Index |-> mem[j]][i + ret] ELSE mem[i]) \in Byte
  <2>1. i \in Nat /\ mem[i] \in Byte
    BY DEF Index
  <2>2. i < pos' => i + ret \in Index
    BY <1>2, <1>5, <1>6, <2>1 DEF Index
  <2>3. i < pos' => [j \in Index |-> mem[j]][i + ret] = mem[i + ret] /\ i + ret \in Nat
    BY <2>2 DEF Index
  <2>4. i < pos' => [j \in Index |-> mem[j]][i + ret] \in Byte
    BY <2>3
  <2> QED BY <2>1, <2>4
<1>8. buf' \in [Index -> Byte]
  BY <1>7, <1>11
<1>9. applied' \in Seq(Parsed)
  BY <1>1, <1>3, ConcatProperties DEF TypeOK
<1>10. shut' \in BOOLEAN
  BY <1>1, <1>3 DEF TypeOK
<1> QED BY <1>6, <1>8, <1>9, <1>10

-----------------------------------------------------------------------------
(* Types.                                                                  *)

LEMMA TypeInit == Init => TypeOK
<1> SUFFICES ASSUME Init PROVE TypeOK
  OBVIOUS
<1>2. \A S : << >> \in Seq(S)
  BY EmptySeq
<1>3. 0 \in 0..MaxJoins /\ OverreadBytes \subseteq Byte
  BY ClientBufferAssumption
<1>4. pos \in Nat /\ buf \in [Index -> Byte]
  BY <1>3, Ranges DEF Init
<1> QED BY <1>2, <1>3, <1>4 DEF Init, TypeOK

LEMMA TypeNext == TypeOK /\ [Next]_vars => TypeOK'
<1> SUFFICES ASSUME TypeOK, [Next]_vars PROVE TypeOK'
  OBVIOUS
<1>1. CASE Join
  <2>1. 0 \in Byte
    BY Ranges
  <2>2. \A S : << >> \in Seq(S)
    BY EmptySeq
  <2>3. 0 \in Nat /\ 0 <= CLIENT_BUFFER_SIZE /\ joins' \in 0..MaxJoins
    BY <1>1, ClientBufferAssumption DEF Join, TypeOK
  <2> QED BY <1>1, <2>1, <2>2, <2>3 DEF Join, TypeOK, Zeroed, Index
<1>2. ASSUME NEW m \in Messages, Send(m) PROVE TypeOK'
  <2>1. m.bytes \in Seq(Byte)
    BY ClientBufferAssumption
  <2>2. wire' \in Seq(Byte)
    BY <1>2, <2>1, ConcatProperties DEF Send, TypeOK
  <2>3. sent' \in Seq(Messages)
    BY <1>2, AppendProperties DEF Send, TypeOK
  <2> QED BY <1>2, <2>2, <2>3 DEF Send, TypeOK, Index
<1>3. CASE Leave
  <2>1. PICK k \in 0..Len(wire) : wire' = SubSeq(wire, 1, k)
    BY <1>3 DEF Leave
  <2>2. k \in Int /\ \A i \in 1..k : wire[i] \in Byte
    BY ElementOfSeq, LenProperties DEF TypeOK
  <2>3. wire' \in Seq(Byte)
    <3>1. SubSeq(wire, 1, k) \in Seq(Byte)
      BY <2>2, SubSeqProperties
    <3> QED BY <2>1, <3>1
  <2> QED BY <1>3, <2>3 DEF Leave, TypeOK, Index
<1>4. CASE RecvData
  <2>1. PICK k \in 1..Len(wire) :
          /\ k <= Room /\ Deliver(SubSeq(wire, 1, k), k)
          /\ wire' = SubSeq(wire, k + 1, Len(wire)) /\ received' = received + k
    BY <1>4 DEF RecvData
  <2>2. wire \in Seq(Byte) /\ Len(wire) \in Nat /\ k \in Nat
    BY LenProperties DEF TypeOK
  <2>3. SubSeq(wire, 1, k) \in Seq(Byte) /\ SubSeq(wire, k + 1, Len(wire)) \in Seq(Byte)
    <3>1. /\ \A i \in 1..k : wire[i] \in Byte
          /\ \A i \in (k + 1)..Len(wire) : wire[i] \in Byte
      BY <2>2, ElementOfSeq
    <3>2. SubSeq(wire, 1, k) \in Seq(Byte)
      BY <2>2, <3>1, SubSeqProperties
    <3>3. SubSeq(wire, k + 1, Len(wire)) \in Seq(Byte)
      <4>1. k + 1 \in Int
        BY <2>2
      <4> QED BY <2>2, <3>1, <4>1, SubSeqProperties
    <3> QED BY <3>2, <3>3
  <2>4. pos + k <= CLIENT_BUFFER_SIZE /\ k >= -1 /\ k \in Int
    BY <2>1, <2>2, ClientBufferAssumption DEF Room, TypeOK
  <2>5. /\ pos' \in 0..CLIENT_BUFFER_SIZE /\ buf' \in [Index -> Byte]
        /\ applied' \in Seq(Parsed) /\ shut' \in BOOLEAN
    BY <2>1, <2>3, <2>4, DeliverType
  <2>6. received' \in Nat
    BY <2>1, <2>2 DEF TypeOK
  <2> QED BY <1>4, <2>1, <2>3, <2>5, <2>6 DEF RecvData, TypeOK, Index
<1>5. CASE RecvError
  <2>1. << >> \in Seq(Byte) /\ -1 \in Int /\ -1 >= -1
    BY EmptySeq
  <2>2. pos + (-1) <= CLIENT_BUFFER_SIZE
    BY <1>5, ClientBufferAssumption DEF RecvError, TypeOK
  <2>3. Deliver(<< >>, -1)
    BY <1>5 DEF RecvError
  <2>4. /\ pos' \in 0..CLIENT_BUFFER_SIZE /\ buf' \in [Index -> Byte]
        /\ applied' \in Seq(Parsed) /\ shut' \in BOOLEAN
    <3> DEFINE len == -1
    <3>1. len \in Int /\ len >= -1 /\ pos + len <= CLIENT_BUFFER_SIZE /\ Deliver(<< >>, len)
      BY <2>1, <2>2, <2>3
    <3> HIDE DEF len
    <3> QED BY <2>1, <3>1, DeliverType
  <2> QED BY <1>5, <2>1, <2>4 DEF RecvError, TypeOK, Index
<1>6. CASE RecvEof
  <2>1. << >> \in Seq(Byte)
    BY EmptySeq
  <2> QED BY <1>6, <2>1 DEF RecvEof, TypeOK, Index
<1>7. CASE UNCHANGED vars
  BY <1>7 DEF vars, TypeOK, Index
<1> QED BY <1>1, <1>2, <1>3, <1>4, <1>5, <1>6, <1>7 DEF Next, HandleClient

(* The position stays in the buffer, although len and ret are not tested   *)
(* before they are used, and memmove takes nothing from behind it.         *)
THEOREM Typed == Spec => []TypeOK
<1>1. Init => TypeOK
  BY TypeInit
<1>2. TypeOK /\ [Next]_vars => TypeOK'
  BY TypeNext
<1> QED BY <1>1, <1>2, PTL DEF Spec

-----------------------------------------------------------------------------
(* The inductive invariant.  The bytes on the wire are the part of the     *)
(* peer's stream that recv has not returned, ...                           *)
StreamInv ==
  /\ received + Len(wire) <= Len(Stream(sent))
  /\ peer = "open" => received + Len(wire) = Len(Stream(sent))
  /\ \A i \in 1..Len(wire) : wire[i] = Stream(sent)[received + i]

(* ... recv is in the message that follows the n-th, and the commands of   *)
(* the first n are the ones applied, ...                                   *)
Received(n) ==
  /\ Start(sent, n) <= received
  /\ n # Len(sent) => received < Start(sent, n + 1)
  /\ applied = Asked(sent, n)

(* ... and the buffer holds what has come of that message, but for a byte  *)
(* that is lost when recv has failed and nothing can come any more.        *)
Buffered(n) ==
  /\ pos <= received - Start(sent, n)
  /\ pos = received - Start(sent, n) \/ (peer = "fin" /\ wire = << >>)
  /\ \A i \in 0..(pos - 1) : buf[i] = Stream(sent)[Start(sent, n) + i + 1]

BufferInv == peer # "none" /\ ~shut => \E n \in 0..Len(sent) : Received(n) /\ Buffered(n)

ClientInv == TypeOK /\ StreamInv /\ BufferInv /\ WellFormedNotRefused

-----------------------------------------------------------------------------
(* A message more leaves the earlier ones where they are.                  *)
LEMMA StreamAppend ==
  ASSUME NEW s \in Seq(Messages), NEW m \in Messages
  PROVE  /\ Append(s, m) \in Seq(Messages) /\ Len(Append(s, m)) = Len(s) + 1
         /\ \A n \in 0..Len(s) : Start(Append(s, m), n) = Start(s, n) /\ Asked(Append(s, m), n) = Asked(s, n)
         /\ Len(Stream(Append(s, m))) = Len(Stream(s)) + Len(m.bytes)
         /\ \A i \in 1..Len(Stream(s)) : Stream(Append(s, m))[i] = Stream(s)[i]
         /\ \A i \in 1..Len(m.bytes) : Stream(Append(s, m))[Len(Stream(s)) + i] = m.bytes[i]
<1> DEFINE t == Append(s, m)
<1>1. /\ t \in Seq(Messages) /\ Len(t) = Len(s) + 1 /\ Len(s) \in Nat
      /\ \A i \in 1..Len(s) : t[i] = s[i]
      /\ t[Len(s) + 1] = m
  BY AppendProperties, LenProperties
<1> HIDE DEF t
<1>2. /\ BytesOf(s) \in Seq(Seq(Byte)) /\ Len(BytesOf(s)) = Len(s) /\ \A i \in 1..Len(s) : BytesOf(s)[i] = s[i].bytes
      /\ CmdsOf(s) \in Seq(Seq(Parsed)) /\ Len(CmdsOf(s)) = Len(s) /\ \A i \in 1..Len(s) : CmdsOf(s)[i] = s[i].cmds
  BY PartsOf
<1>3. /\ BytesOf(t) \in Seq(Seq(Byte)) /\ Len(BytesOf(t)) = Len(t) /\ \A i \in 1..Len(t) : BytesOf(t)[i] = t[i].bytes
      /\ CmdsOf(t) \in Seq(Seq(Parsed)) /\ Len(CmdsOf(t)) = Len(t) /\ \A i \in 1..Len(t) : CmdsOf(t)[i] = t[i].cmds
  BY <1>1, PartsOf
<1>4. \A i \in 1..Len(s) : BytesOf(s)[i] = BytesOf(t)[i] /\ CmdsOf(s)[i] = CmdsOf(t)[i]
  <2> SUFFICES ASSUME NEW i \in 1..Len(s) PROVE BytesOf(s)[i] = BytesOf(t)[i] /\ CmdsOf(s)[i] = CmdsOf(t)[i]
    OBVIOUS
  <2>1. i \in 1..Len(t) /\ t[i] = s[i]
    BY <1>1
  <2>2. BytesOf(t)[i] = t[i].bytes /\ CmdsOf(t)[i] = t[i].cmds /\ BytesOf(s)[i] = s[i].bytes /\ CmdsOf(s)[i] = s[i].cmds
    BY <1>2, <1>3, <2>1, Zenon
  <2> QED BY <2>1, <2>2
<1>5. ASSUME NEW n \in 0..Len(s) PROVE Joined(BytesOf(s), n) = Joined(BytesOf(t), n) /\ Joined(CmdsOf(s), n) = Joined(CmdsOf(t), n)
  <2>1. /\ n \in 0..Len(BytesOf(s)) /\ n <= Len(BytesOf(t)) /\ \A i \in 1..n : BytesOf(s)[i] = BytesOf(t)[i]
        /\ n \in 0..Len(CmdsOf(s)) /\ n <= Len(CmdsOf(t)) /\ \A i \in 1..n : CmdsOf(s)[i] = CmdsOf(t)[i]
    <3>1. \A i \in 1..n : i \in 1..Len(s)
      BY <1>1
    <3>2. \A i \in 1..n : BytesOf(s)[i] = BytesOf(t)[i] /\ CmdsOf(s)[i] = CmdsOf(t)[i]
      BY <1>4, <3>1
    <3>3. n <= Len(t)
      BY <1>1
    <3> QED BY <1>2, <1>3, <3>2, <3>3
  <2>2. Joined(BytesOf(s), n) = Joined(BytesOf(t), n)
    BY <1>2, <1>3, <2>1, JoinedAgree
  <2>3. Joined(CmdsOf(s), n) = Joined(CmdsOf(t), n)
    BY <1>2, <1>3, <2>1, JoinedAgree
  <2> QED BY <2>2, <2>3
<1>6. Len(s) \in 0..Len(t) /\ Len(s) # Len(t) /\ Len(s) \in 0..Len(s) /\ Len(t) \in 0..Len(t)
  BY <1>1
<1>7. /\ Start(t, Len(s) + 1) = Start(t, Len(s)) + Len(m.bytes)
      /\ \A i \in 1..Len(m.bytes) : Stream(t)[Start(t, Len(s)) + i] = m.bytes[i]
  BY <1>1, <1>6, StreamPlace
<1>8. Start(t, Len(s)) = Len(Stream(s)) /\ Start(t, Len(s) + 1) = Len(Stream(t))
  BY <1>1, <1>5, <1>6 DEF Start, Stream
<1>9. ASSUME NEW i \in 1..Len(Stream(s)) PROVE Stream(t)[i] = Stream(s)[i]
  <2>1. /\ Len(s) \in 0..Len(BytesOf(t)) /\ Len(t) \in Len(s)..Len(BytesOf(t))
    BY <1>1, <1>3
  <2>2. \A j \in 1..Len(Joined(BytesOf(t), Len(s))) : Joined(BytesOf(t), Len(t))[j] = Joined(BytesOf(t), Len(s))[j]
    BY <1>3, <2>1, JoinedPrefix
  <2>3. Joined(BytesOf(t), Len(s)) = Joined(BytesOf(s), Len(s))
    BY <1>5, <1>6
  <2> QED BY <2>2, <2>3 DEF Stream
<1>10. \A n \in 0..Len(s) : Start(t, n) = Start(s, n) /\ Asked(t, n) = Asked(s, n)
  BY <1>5 DEF Start, Asked
<1> QED BY <1>1, <1>7, <1>8, <1>9, <1>10 DEF t

(* Positions in the buffer and in the stream.                              *)
LEMMA MovedDown ==
  ASSUME NEW size \in Nat, NEW at \in Nat, at <= size, NEW ret \in Nat, ret <= at,
         NEW i \in 0..((at - ret) - 1)
  PROVE  i \in 0..(size - 1) /\ i + ret \in 0..(size - 1) /\ i + ret \in 0..(at - 1)
OBVIOUS

LEMMA PlaceAfter ==
  ASSUME NEW a \in Nat, NEW b \in Nat, NEW i \in Nat
  PROVE  a + (i + (b - a)) + 1 = b + i + 1
OBVIOUS

LEMMA BeforeNext ==
  ASSUME NEW p \in Nat, NEW k \in Nat, NEW a \in Nat, NEW b \in Nat, NEW r \in Nat, p = r - a,
         NEW size \in Nat, (p + k) - (b - a) < size
  PROVE  r + k < b + size
<1>1. (p + k) - (b - a) = (r + k) - b
  OBVIOUS
<1> QED BY <1>1

(* What a call of the handler leaves, when it finds the bytes that follow  *)
(* the n-th message in the buffer and refuses none.                        *)
Consumed(n, j, at) ==
  LET ret == Start(sent, j) - Start(sent, n)
  IN  /\ ret <= at /\ pos' = at - ret
      /\ applied' = Asked(sent, j)
      /\ j # Len(sent) => at - ret < Len(sent[j + 1].bytes)
      /\ \A i \in 0..(pos' - 1) : buf'[i] = Stream(sent)[Start(sent, j) + i + 1]

(* What it leaves when it refuses one. *)
RefusedNow == \E i \in 1..Len(sent) : Refused(sent[i].cmds) /\ applied' = Asked(sent, i - 1)

LEMMA Delivered ==
  ASSUME TypeOK, MessagesLegible, NEW bytes \in Seq(Byte), NEW len \in Int, Deliver(bytes, len),
         NEW at \in Nat, at = pos + len, at <= CLIENT_BUFFER_SIZE,
         NEW n \in 0..Len(sent), applied = Asked(sent, n),
         Start(sent, n) + at <= Len(Stream(sent)),
         \A i \in 0..(at - 1) :
           (IF i >= pos /\ i < pos + Len(bytes) THEN bytes[i - pos + 1] ELSE buf[i])
             = Stream(sent)[Start(sent, n) + i + 1]
  PROVE  IF shut' /\ ~shut THEN RefusedNow
         ELSE shut \/ \E j \in n..Len(sent) : Consumed(n, j, at)
<1> DEFINE S == Stream(sent)
           St(j) == Start(sent, j)
<1>1. PICK mem \in [Nat -> Byte], h \in Handled :
           /\ h = HandlerEvent(mem, at)
           /\ \A i \in Index : mem[i] = IF i >= pos /\ i < pos + Len(bytes) THEN bytes[i - pos + 1] ELSE buf[i]
           /\ pos' = at - Clamp(h.ret, at)
           /\ buf' = [i \in Index |-> IF i < pos' THEN [j \in Index |-> mem[j]][i + Clamp(h.ret, at)] ELSE mem[i]]
           /\ applied' = applied \o h.cmds
           /\ shut' = (shut \/ h.malformed)
  <2>1. at \in Int
    OBVIOUS
  <2> QED BY <2>1, DeliverShape
<1>2. sent \in Seq(Messages) /\ Len(sent) \in Nat /\ CLIENT_BUFFER_SIZE \in Nat /\ pos \in Int
  BY LenProperties, ClientBufferAssumption DEF TypeOK
<1>3. \A i \in 0..(at - 1) : i \in Index
  BY <1>2 DEF Index
<1>4. Holds(sent, n, mem, at)
  <2>1. \A i \in 0..(at - 1) : mem[i] = S[Start(sent, n) + i + 1]
    BY <1>1, <1>3
  <2> QED BY <2>1 DEF Holds
<1>5. Follows(sent, n, n, at, h)
  <2>1. Follows(sent, n, n, at, HandlerEvent(mem, at))
    BY <1>2, <1>4, HandleStream
  <2> QED BY <1>1, <2>1
<1>6. shut \in BOOLEAN /\ h.malformed \in BOOLEAN /\ h.ret \in Int
  BY DEF TypeOK, Handled
<1>7. CASE shut
  BY <1>7
<1>8. CASE ~shut /\ h.malformed
  <2>1. shut'
    BY <1>1, <1>8, Zenon
  <2>2. RefusedNow
    BY <1>1, <1>5, <1>8 DEF Follows, RefusedNow
  <2> QED BY <1>8, <2>1, <2>2
<1>9. CASE ~shut /\ ~h.malformed
  <2>1. ~shut'
    BY <1>1, <1>9, Zenon
  <2>2. PICK j \in n..Len(sent) :
          /\ h.ret = Start(sent, j) - Start(sent, n) /\ h.ret <= at
          /\ Asked(sent, j) = Asked(sent, n) \o h.cmds
          /\ at = h.ret \/ (j # Len(sent) /\ at - h.ret < Len(sent[j + 1].bytes))
    BY <1>5, <1>9 DEF Follows
  <2>3. /\ j \in 0..Len(sent) /\ n \in 0..Len(sent) /\ n <= j
        /\ \A k \in 0..Len(sent) : St(k) \in Nat
        /\ \A k, l \in 0..Len(sent) : k < l => St(k) < St(l)
    BY <1>2, StreamShape
  <2>4. h.ret >= 0 /\ h.ret = St(j) - St(n)
    <3> HIDE DEF St
    <3>1. h.ret = St(j) - St(n)
      BY <2>2 DEF St
    <3>2. St(n) <= St(j)
      BY <2>3
    <3> QED BY <2>3, <3>1, <3>2
  <2>5. Clamp(h.ret, at) = h.ret
    BY <1>6, <2>2, <2>4 DEF Clamp
  <2>6. pos' = at - h.ret /\ applied' = Asked(sent, j)
    BY <1>1, <2>2, <2>5
  <2>7. j # Len(sent) => at - h.ret < Len(sent[j + 1].bytes)
    <3> SUFFICES ASSUME j # Len(sent) PROVE at - h.ret < Len(sent[j + 1].bytes)
      OBVIOUS
    <3>1. j + 1 \in 1..Len(sent)
      BY <1>2, <2>3
    <3>2. AMessage(sent[j + 1])
      BY <1>2, <3>1, PartsOf
    <3>3. Len(sent[j + 1].bytes) \in Nat \ {0}
      BY <3>2, EmptySeq, LenProperties DEF AMessage
    <3> QED BY <1>6, <2>2, <3>3
  <2>8. ASSUME NEW i \in 0..(pos' - 1) PROVE buf'[i] = S[St(j) + i + 1]
    <3> HIDE DEF S, St
    <3>1. /\ i \in Index /\ i < pos' /\ i + h.ret \in Index /\ i + h.ret \in 0..(at - 1)
          /\ St(n) + (i + h.ret) + 1 = St(j) + i + 1
      <4>1. /\ i \in Nat /\ i < pos' /\ pos' = at - h.ret /\ h.ret \in Int /\ h.ret >= 0 /\ h.ret = St(j) - St(n)
            /\ St(j) \in Nat /\ St(n) \in Nat /\ CLIENT_BUFFER_SIZE \in Nat
        BY <1>2, <1>6, <2>3, <2>4, <2>6
      <4>2. h.ret \in Nat /\ h.ret <= at /\ i \in 0..((at - h.ret) - 1)
        BY <2>2, <4>1
      <4>3. i \in 0..(CLIENT_BUFFER_SIZE - 1) /\ i + h.ret \in 0..(CLIENT_BUFFER_SIZE - 1) /\ i + h.ret \in 0..(at - 1)
        BY <1>2, <4>2, MovedDown
      <4>4. St(n) + (i + (St(j) - St(n))) + 1 = St(j) + i + 1
        BY <4>1, PlaceAfter
      <4> QED BY <4>1, <4>3, <4>4 DEF Index
    <3>2. buf'[i] = [k \in Index |-> mem[k]][i + h.ret]
      BY <1>1, <2>5, <3>1
    <3>3. buf'[i] = mem[i + h.ret]
      BY <3>1, <3>2
    <3>4. \A k \in 0..(at - 1) : mem[k] = S[St(n) + k + 1]
      BY <1>4 DEF Holds, S, St
    <3> QED BY <3>1, <3>3, <3>4
  <2>9. Consumed(n, j, at)
    BY <2>2, <2>6, <2>7, <2>8 DEF Consumed
  <2> QED BY <2>1, <2>9
<1> QED BY <1>6, <1>7, <1>8, <1>9

LEMMA StepData ==
  ASSUME ClientInv, MessagesLegible, RecvData
  PROVE  StreamInv' /\ BufferInv' /\ WellFormedNotRefused'
         /\ (~shut /\ shut' => RefusedNow)
<1> DEFINE S == Stream(sent)
           St(j) == Start(sent, j)
<1>1. PICK k \in 1..Len(wire) :
        /\ k <= Room /\ Deliver(SubSeq(wire, 1, k), k)
        /\ wire' = SubSeq(wire, k + 1, Len(wire)) /\ received' = received + k
  BY DEF RecvData
<1>2. /\ TypeOK /\ wire \in Seq(Byte) /\ Len(wire) \in Nat /\ k \in Nat /\ k > 0 /\ pos \in Nat /\ received \in Nat
      /\ sent \in Seq(Messages) /\ Len(sent) \in Nat /\ CLIENT_BUFFER_SIZE \in Nat
      /\ sent' = sent /\ peer' = peer
  BY LenProperties, ClientBufferAssumption DEF ClientInv, TypeOK, RecvData
<1>3. /\ SubSeq(wire, 1, k) \in Seq(Byte) /\ Len(SubSeq(wire, 1, k)) = k
      /\ \A i \in 1..k : SubSeq(wire, 1, k)[i] = wire[i]
  <2>1. \A i \in 1..k : wire[i] \in Byte
    BY <1>2, ElementOfSeq
  <2> DEFINE one == 1
  <2>2. one \in Int /\ k \in Int /\ \A i \in one..k : wire[i] \in Byte
    BY <1>2, <2>1
  <2>3. one = 1
    OBVIOUS
  <2> HIDE DEF one
  <2>4. /\ SubSeq(wire, one, k) \in Seq(Byte)
        /\ Len(SubSeq(wire, one, k)) = IF one <= k THEN k - one + 1 ELSE 0
        /\ \A i \in 1..(k - one + 1) : SubSeq(wire, one, k)[i] = wire[one + i - 1]
    BY <2>2, SubSeqProperties
  <2> QED BY <1>2, <2>3, <2>4
<1>4. /\ Len(wire') = Len(wire) - k
      /\ \A i \in 1..(Len(wire) - k) : wire'[i] = wire[i + k]
  <2> DEFINE a == k + 1
             b == Len(wire)
  <2>1. a \in Int /\ b \in Int /\ \A i \in a..b : wire[i] \in Byte
    BY <1>2, ElementOfSeq
  <2>2. wire' = SubSeq(wire, a, b) /\ a = k + 1 /\ b = Len(wire)
    BY <1>1
  <2> HIDE DEF a, b
  <2>3. /\ Len(SubSeq(wire, a, b)) = IF a <= b THEN b - a + 1 ELSE 0
        /\ \A i \in 1..(b - a + 1) : SubSeq(wire, a, b)[i] = wire[a + i - 1]
    BY <2>1, SubSeqProperties
  <2> QED BY <1>1, <1>2, <2>2, <2>3
<1>5. /\ received + Len(wire) <= Len(S) /\ (peer = "open" => received + Len(wire) = Len(S))
      /\ \A i \in 1..Len(wire) : wire[i] = S[received + i]
  BY DEF ClientInv, StreamInv
<1>6. S \in Seq(Byte) /\ Len(S) \in Nat /\ \A j \in 0..Len(sent) : St(j) \in Nat
  BY <1>2, StreamShape
<1> HIDE DEF S, St
<1>7. StreamInv'
  <2>1. received' + Len(wire') <= Len(S) /\ (peer = "open" => received' + Len(wire') = Len(S))
    <3>1. /\ received' = received + k /\ Len(wire') = Len(wire) - k /\ received + Len(wire) <= Len(S)
          /\ received \in Nat /\ k \in Nat /\ Len(wire) \in Nat /\ Len(S) \in Nat
          /\ peer = "open" => received + Len(wire) = Len(S)
      BY <1>1, <1>2, <1>4, <1>5, <1>6
    <3>2. received' + Len(wire') = received + Len(wire)
      BY <3>1
    <3> QED BY <3>1, <3>2
  <2>2. ASSUME NEW i \in 1..Len(wire') PROVE wire'[i] = S[received' + i]
    <3>1. /\ i \in 1..(Len(wire) - k) /\ i + k \in 1..Len(wire) /\ received + (i + k) = received' + i
      BY <1>1, <1>2, <1>4
    <3> QED BY <1>4, <1>5, <3>1
  <2> QED BY <1>2, <2>1, <2>2 DEF StreamInv, S
<1>8. CASE shut
  <2>1. shut'
    <3>1. shut' = TRUE
      BY <1>1, <1>8, Zenon DEF Deliver
    <3> QED BY <3>1
  <2> QED BY <1>2, <1>7, <1>8, <2>1 DEF BufferInv, ClientInv, WellFormedNotRefused
<1>9. CASE ~shut
  <2>1. PICK n \in 0..Len(sent) : Received(n) /\ Buffered(n)
    BY <1>9 DEF ClientInv, BufferInv, RecvData
  <2>2. pos = received - St(n) /\ \A i \in 0..(pos - 1) : buf[i] = S[St(n) + i + 1]
    <3>1. wire # << >>
      BY <1>2
    <3> QED BY <2>1, <3>1 DEF Buffered, S, St
  <2>3. /\ St(n) \in Nat /\ St(n) + (pos + k) <= Len(S) /\ pos + k <= CLIENT_BUFFER_SIZE /\ pos + k \in Nat
        /\ applied = Asked(sent, n)
    BY <1>1, <1>2, <1>5, <1>6, <2>1, <2>2 DEF Room, Received
  <2>4. ASSUME NEW i \in 0..((pos + k) - 1)
        PROVE  (IF i >= pos /\ i < pos + k THEN SubSeq(wire, 1, k)[i - pos + 1] ELSE buf[i]) = S[St(n) + i + 1]
    <3>1. CASE i >= pos
      <4>1. /\ i - pos + 1 \in 1..k /\ i - pos + 1 \in 1..Len(wire)
            /\ received + (i - pos + 1) = St(n) + i + 1 /\ i < pos + k
        <5>1. /\ i \in 0..((pos + k) - 1) /\ i >= pos /\ pos \in Nat /\ k \in Nat /\ St(n) \in Nat
              /\ received \in Nat /\ pos = received - St(n) /\ k <= Len(wire) /\ Len(wire) \in Nat
          BY <1>1, <1>2, <2>2, <2>3, <3>1
        <5>2. i - pos + 1 \in 1..k /\ i < pos + k
          BY <5>1
        <5>5. received + (i - pos + 1) = St(n) + i + 1
          <6>1. received = St(n) + pos
            BY <5>1
          <6> QED BY <5>1, <6>1
        <5>3. \A x \in 1..k : x \in 1..Len(wire)
          BY <5>1
        <5> QED BY <5>2, <5>3, <5>5
      <4> QED BY <1>3, <1>5, <3>1, <4>1
    <3>2. CASE ~(i >= pos)
      <4>1. i \in 0..(pos - 1)
        BY <1>2, <3>2
      <4> QED BY <2>2, <3>2, <4>1
    <3> QED BY <3>1, <3>2
  <2> DEFINE at == pos + k
             bytes == SubSeq(wire, 1, k)
  <2>5. /\ bytes \in Seq(Byte) /\ Len(bytes) = k /\ Deliver(bytes, k) /\ k \in Int
        /\ at \in Nat /\ at = pos + k /\ at <= CLIENT_BUFFER_SIZE /\ Start(sent, n) + at <= Len(Stream(sent))
        /\ \A i \in 0..(at - 1) :
             (IF i >= pos /\ i < pos + Len(bytes) THEN bytes[i - pos + 1] ELSE buf[i])
               = Stream(sent)[Start(sent, n) + i + 1]
    BY <1>1, <1>2, <1>3, <2>3, <2>4 DEF S, St
  <2> HIDE DEF at, bytes
  <2>6. IF shut' /\ ~shut THEN RefusedNow
        ELSE shut \/ \E j \in n..Len(sent) : Consumed(n, j, at)
    BY <1>2, <2>3, <2>5, Delivered
  <2>7. CASE shut'
    <3>1. \E i \in 1..Len(sent) : Refused(sent[i].cmds)
      BY <1>9, <2>6, <2>7 DEF RefusedNow
    <3>2. DOMAIN sent = 1..Len(sent)
      BY <1>2, LenProperties
    <3>3. WellFormedNotRefused'
      BY <1>2, <3>1, <3>2 DEF WellFormedNotRefused
    <3>4. RefusedNow
      BY <1>9, <2>6, <2>7
    <3> QED BY <1>7, <2>7, <3>3, <3>4 DEF BufferInv
  <2>8. CASE ~shut'
    <3>1. PICK j \in n..Len(sent) : Consumed(n, j, at)
      BY <1>9, <2>6, <2>8
    <3>2. /\ St(j) - St(n) <= at /\ pos' = at - (St(j) - St(n)) /\ applied' = Asked(sent, j)
          /\ j # Len(sent) => at - (St(j) - St(n)) < Len(sent[j + 1].bytes)
          /\ \A i \in 0..(pos' - 1) : buf'[i] = S[St(j) + i + 1]
      BY <3>1 DEF Consumed, S, St
    <3>3. j \in 0..Len(sent) /\ St(j) \in Nat
      BY <1>2, <1>6
    <3>4. St(j) <= received' /\ pos' = received' - St(j)
      <4>1. /\ at = pos + k /\ at \in Nat /\ pos = received - St(n) /\ received' = received + k
            /\ k \in Nat /\ pos \in Nat /\ received \in Nat /\ St(n) \in Nat /\ St(j) \in Nat
            /\ St(j) - St(n) <= at /\ pos' = at - (St(j) - St(n))
        BY <1>1, <1>2, <2>2, <2>3, <2>5, <3>2, <3>3
      <4> QED BY <4>1
    <3>5. ASSUME j # Len(sent) PROVE received' < Start(sent, j + 1)
      <4>1. Start(sent, j + 1) = St(j) + Len(sent[j + 1].bytes)
        BY <1>2, <3>3, <3>5, StreamPlace DEF St
      <4>2. j + 1 \in 1..Len(sent) /\ j + 1 \in 0..Len(sent)
        BY <1>2, <3>3, <3>5
      <4>3. Len(sent[j + 1].bytes) \in Nat
        <5>1. AMessage(sent[j + 1])
          BY <1>2, <4>2, PartsOf
        <5> QED BY <5>1, LenProperties DEF AMessage
      <4> DEFINE next == Start(sent, j + 1)
                 size == Len(sent[j + 1].bytes)
      <4>4. /\ at = pos + k /\ at \in Nat /\ pos = received - St(n) /\ received' = received + k
            /\ k \in Nat /\ pos \in Nat /\ received \in Nat /\ St(n) \in Nat /\ St(j) \in Nat
            /\ (pos + k) - (St(j) - St(n)) < size /\ next = St(j) + size /\ size \in Nat
        BY <1>1, <1>2, <2>2, <2>3, <2>5, <3>2, <3>3, <3>5, <4>1, <4>3
      <4> HIDE DEF next, size
      <4>5. received' < next
        <5>1. received + k < St(j) + size
          BY <4>4, BeforeNext
        <5> QED BY <4>4, <5>1
      <4> QED BY <4>5 DEF next
    <3>6. Received(j)'
      BY <1>2, <3>2, <3>4, <3>5 DEF Received, St
    <3>7. Buffered(j)'
      <4>1. pos' <= received' - St(j)
        BY <1>1, <1>2, <3>3, <3>4
      <4> QED BY <1>2, <3>2, <3>4, <4>1 DEF Buffered, S, St
    <3>8. BufferInv'
      BY <1>2, <3>3, <3>6, <3>7 DEF BufferInv
    <3>9. WellFormedNotRefused'
      BY <2>8 DEF WellFormedNotRefused
    <3> QED BY <1>7, <2>8, <3>8, <3>9
  <2> QED BY <2>7, <2>8
<1> QED BY <1>8, <1>9

(* recv fails: the byte before pos is dropped, which leaves the handler in *)
(* the message it was in.                                                  *)
LEMMA StepError ==
  ASSUME ClientInv, MessagesLegible, RecvError
  PROVE  StreamInv' /\ BufferInv' /\ WellFormedNotRefused'
         /\ (~shut /\ shut' => RefusedNow)
<1> DEFINE S == Stream(sent)
           St(j) == Start(sent, j)
           len == -1
<1>1. Deliver(<< >>, len) /\ wire' = << >> /\ peer' = "fin" /\ sent' = sent /\ received' = received
  BY DEF RecvError
<1>2. /\ TypeOK /\ wire \in Seq(Byte) /\ Len(wire) \in Nat /\ pos \in Nat /\ pos <= CLIENT_BUFFER_SIZE
      /\ received \in Nat /\ sent \in Seq(Messages) /\ Len(sent) \in Nat /\ CLIENT_BUFFER_SIZE \in Nat
      /\ << >> \in Seq(Byte) /\ Len(<< >>) = 0 /\ len \in Int /\ len = -1
  BY LenProperties, EmptySeq, ClientBufferAssumption DEF ClientInv, TypeOK, RecvError
<1>3. received + Len(wire) <= Len(S)
  BY DEF ClientInv, StreamInv
<1>4. S \in Seq(Byte) /\ Len(S) \in Nat /\ \A j \in 0..Len(sent) : St(j) \in Nat
  BY <1>2, StreamShape
<1>5. \A j, l \in 0..Len(sent) : j < l => St(j) < St(l)
  BY <1>2, StreamShape
<1> HIDE DEF S, St, len
<1>6. StreamInv'
  <2>1. Len(wire') = 0 /\ received' + 0 <= Len(S)
    BY <1>1, <1>2, <1>3, <1>4
  <2> QED BY <1>1, <1>2, <1>4, <2>1 DEF StreamInv, S
<1>7. CASE shut
  <2>1. shut'
    <3>1. shut' = TRUE
      BY <1>1, <1>7, Zenon DEF Deliver
    <3> QED BY <3>1
  <2> QED BY <1>1, <1>6, <1>7, <2>1 DEF BufferInv, ClientInv, WellFormedNotRefused
<1>8. CASE ~shut
  <2>1. PICK n \in 0..Len(sent) : Received(n) /\ Buffered(n)
    BY <1>8 DEF ClientInv, BufferInv, RecvError
  <2>2. /\ pos <= received - St(n) /\ St(n) \in Nat /\ St(n) <= received /\ applied = Asked(sent, n)
        /\ n # Len(sent) => received < St(n + 1)
        /\ \A i \in 0..(pos - 1) : buf[i] = S[St(n) + i + 1]
    BY <1>4, <2>1 DEF Received, Buffered, S, St
  <2>3. ASSUME ~shut', applied' = applied, pos' <= received - St(n), pos' \in Int,
               \A i \in 0..(pos' - 1) : buf'[i] = S[St(n) + i + 1]
        PROVE  BufferInv'
    <3>1. Received(n)'
      BY <1>1, <2>2, <2>3 DEF Received, St
    <3>2. Buffered(n)'
      BY <1>1, <2>3 DEF Buffered, S, St
    <3>3. n \in (0..Len(sent))'
      BY <1>1
    <3> QED BY <3>1, <3>2, <3>3 DEF BufferInv
  <2>4. CASE pos = 0
    <3> DEFINE at == -1
    <3>1. at \in Int /\ at = pos + len /\ at = -1 /\ at <= 0
      BY <1>2, <2>4
    <3> HIDE DEF at
    <3>2. PICK mem \in [Nat -> Byte], h \in Handled :
           /\ h = HandlerEvent(mem, at)
           /\ \A i \in Index : mem[i] = IF i >= pos /\ i < pos + Len(<< >>) THEN << >>[i - pos + 1] ELSE buf[i]
           /\ pos' = at - Clamp(h.ret, at)
           /\ buf' = [i \in Index |-> IF i < pos' THEN [j \in Index |-> mem[j]][i + Clamp(h.ret, at)] ELSE mem[i]]
           /\ applied' = applied \o h.cmds
           /\ shut' = (shut \/ h.malformed)
      BY <1>1, <1>2, <3>1, DeliverShape
    <3>3. h = Stopped(0, FALSE)
      BY <3>1, <3>2, HandlerEventType
    <3>4. h.ret = 0 /\ h.cmds = << >> /\ h.malformed = FALSE
      BY <3>3 DEF Stopped
    <3>5. pos' = 0
      BY <3>1, <3>2, <3>4 DEF Clamp
    <3>6. applied' = applied
      BY <1>2, <3>2, <3>4, ConcatProperties DEF TypeOK
    <3>7. ~shut'
      BY <1>8, <3>2, <3>4, Zenon
    <3>8. pos' <= received - St(n) /\ pos' \in Int /\ \A i \in 0..(pos' - 1) : buf'[i] = S[St(n) + i + 1]
      BY <1>2, <2>2, <2>4, <3>5
    <3>9. BufferInv'
      BY <2>3, <3>6, <3>7, <3>8
    <3> QED BY <1>6, <3>7, <3>9 DEF WellFormedNotRefused
  <2>5. CASE pos # 0
    <3> DEFINE at == pos - 1
    <3>1. at \in Nat /\ at = pos + len /\ at <= CLIENT_BUFFER_SIZE /\ at = pos - 1
      BY <1>2, <2>5
    <3>2. St(n) + at <= Len(S)
      BY <1>2, <1>3, <1>4, <2>2, <3>1
    <3>3. \A i \in 0..(at - 1) :
            (IF i >= pos /\ i < pos + Len(<< >>) THEN << >>[i - pos + 1] ELSE buf[i]) = S[St(n) + i + 1]
      <4>1. \A i \in 0..(at - 1) : i \in 0..(pos - 1) /\ ~(i >= pos)
        BY <1>2, <3>1
      <4> QED BY <2>2, <4>1
    <3> HIDE DEF at
    <3>4. IF shut' /\ ~shut THEN RefusedNow
          ELSE shut \/ \E j \in n..Len(sent) : Consumed(n, j, at)
      BY <1>1, <1>2, <2>2, <3>1, <3>2, <3>3, Delivered DEF S, St
    <3>5. CASE shut'
      <4>1. \E i \in 1..Len(sent) : Refused(sent[i].cmds)
        BY <1>8, <3>4, <3>5 DEF RefusedNow
      <4>2. DOMAIN sent = 1..Len(sent)
        BY <1>2, LenProperties
      <4>3. WellFormedNotRefused'
        BY <1>1, <4>1, <4>2 DEF WellFormedNotRefused
      <4>4. RefusedNow
        BY <1>8, <3>4, <3>5
      <4> QED BY <1>6, <3>5, <4>3, <4>4 DEF BufferInv
    <3>6. CASE ~shut'
      <4>1. PICK j \in n..Len(sent) : Consumed(n, j, at)
        BY <1>8, <3>4, <3>6
      <4>2. /\ St(j) - St(n) <= at /\ pos' = at - (St(j) - St(n)) /\ applied' = Asked(sent, j)
            /\ \A i \in 0..(pos' - 1) : buf'[i] = S[St(j) + i + 1]
        BY <4>1 DEF Consumed, S, St
      <4>3. j = n
        <5>1. j \in 0..Len(sent) /\ St(j) \in Nat
          BY <1>2, <1>4
        <5>2. St(j) < received
          BY <1>2, <2>2, <3>1, <4>2, <5>1
        <5>3. ASSUME j # n PROVE FALSE
          <6>1. n # Len(sent) /\ n + 1 \in 0..Len(sent) /\ (j = n + 1 \/ n + 1 < j)
            BY <1>2, <5>3
          <6>2. received < St(n + 1) /\ St(n + 1) <= St(j) /\ St(n + 1) \in Nat
            BY <1>4, <1>5, <2>2, <5>1, <6>1
          <6> QED BY <1>2, <5>1, <5>2, <6>2
        <5> QED BY <5>3
      <4>4. pos' = at /\ applied' = applied
        BY <1>4, <2>2, <3>1, <4>2, <4>3
      <4>5. pos' <= received - St(n) /\ pos' \in Int
        BY <1>2, <2>2, <3>1, <4>4
      <4>6. BufferInv'
        BY <2>3, <3>6, <4>2, <4>3, <4>4, <4>5
      <4> QED BY <1>6, <3>6, <4>6 DEF WellFormedNotRefused
    <3> QED BY <3>5, <3>6
  <2> QED BY <2>4, <2>5
<1> QED BY <1>7, <1>8

LEMMA StepSend ==
  ASSUME ClientInv, NEW m \in Messages, Send(m)
  PROVE  StreamInv' /\ BufferInv' /\ WellFormedNotRefused'
<1> DEFINE S == Stream(sent)
           T == Stream(sent')
<1>1. /\ TypeOK /\ wire \in Seq(Byte) /\ Len(wire) \in Nat /\ received \in Nat
      /\ sent \in Seq(Messages) /\ Len(sent) \in Nat
      /\ peer = "open" /\ peer' = peer /\ sent' = Append(sent, m) /\ wire' = wire \o m.bytes
      /\ buf' = buf /\ pos' = pos /\ shut' = shut /\ received' = received /\ applied' = applied
      /\ m.bytes \in Seq(Byte) /\ Len(m.bytes) \in Nat
  BY LenProperties, ClientBufferAssumption DEF ClientInv, TypeOK, Send
<1>2. /\ sent' \in Seq(Messages) /\ Len(sent') = Len(sent) + 1
      /\ \A n \in 0..Len(sent) : Start(sent', n) = Start(sent, n) /\ Asked(sent', n) = Asked(sent, n)
      /\ Len(T) = Len(S) + Len(m.bytes)
      /\ \A i \in 1..Len(S) : T[i] = S[i]
      /\ \A i \in 1..Len(m.bytes) : T[Len(S) + i] = m.bytes[i]
  BY <1>1, StreamAppend
<1>3. /\ Len(wire') = Len(wire) + Len(m.bytes)
      /\ \A i \in 1..(Len(wire) + Len(m.bytes)) :
           wire'[i] = IF i <= Len(wire) THEN wire[i] ELSE m.bytes[i - Len(wire)]
  BY <1>1, ConcatProperties
<1>4. /\ received + Len(wire) = Len(S) /\ \A i \in 1..Len(wire) : wire[i] = S[received + i]
  BY <1>1 DEF ClientInv, StreamInv
<1>5. /\ Len(S) \in Nat /\ \A j \in 0..Len(sent) : Start(sent, j) \in Nat /\ Start(sent, j) <= Len(S)
      /\ Start(sent, Len(sent)) = Len(S) /\ Start(sent', Len(sent')) = Len(T)
      /\ \A j, l \in 0..Len(sent') : j < l => Start(sent', j) < Start(sent', l)
  BY <1>1, <1>2, StreamShape
<1> HIDE DEF S, T
<1>6. StreamInv'
  <2>0. /\ received \in Nat /\ Len(wire) \in Nat /\ Len(m.bytes) \in Nat /\ received' = received
        /\ Len(wire') = Len(wire) + Len(m.bytes) /\ Len(S) = received + Len(wire) /\ Len(T) = Len(S) + Len(m.bytes)
    BY <1>1, <1>2, <1>3, <1>4
  <2>1. received' + Len(wire') = Len(T)
    <3>1. \A x, y, z \in Nat : x + (y + z) = (x + y) + z
      OBVIOUS
    <3>2. received + (Len(wire) + Len(m.bytes)) = (received + Len(wire)) + Len(m.bytes)
      BY <2>0, <3>1, Zenon
    <3> QED BY <2>0, <3>2, Zenon
  <2>2. ASSUME NEW i \in 1..Len(wire') PROVE wire'[i] = T[received' + i]
    <3>1. CASE i <= Len(wire)
      <4>1. i \in 1..Len(wire) /\ received + i \in 1..Len(S)
        BY <1>1, <1>4, <1>5, <3>1
      <4> QED BY <1>1, <1>2, <1>3, <1>4, <3>1, <4>1
    <3>2. CASE ~(i <= Len(wire))
      <4>1. i - Len(wire) \in 1..Len(m.bytes) /\ i \in 1..(Len(wire) + Len(m.bytes))
        BY <1>1, <1>3, <3>2
      <4>2. Len(S) + (i - Len(wire)) = received + i
        <5>1. i \in Int
          BY <4>1, <2>0
        <5>2. (received + Len(wire)) + (i - Len(wire)) = received + i
          BY <2>0, <5>1
        <5> QED BY <2>0, <5>2
      <4> QED BY <1>1, <1>2, <1>3, <3>2, <4>1, <4>2
    <3> QED BY <3>1, <3>2
  <2>3. Len(T) \in Nat
    BY <1>1, <1>2, <1>5
  <2> QED BY <2>1, <2>2, <2>3 DEF StreamInv, T
<1>7. BufferInv'
  <2> SUFFICES ASSUME ~shut PROVE \E n \in 0..Len(sent') : Received(n)' /\ Buffered(n)'
    BY <1>1 DEF BufferInv
  <2>1. PICK n \in 0..Len(sent) : Received(n) /\ Buffered(n)
    BY <1>1 DEF ClientInv, BufferInv
  <2>2. n \in 0..Len(sent') /\ n # Len(sent') /\ n + 1 \in 0..Len(sent')
    BY <1>1, <1>2
  <2>3. Start(sent', n) = Start(sent, n) /\ Asked(sent', n) = Asked(sent, n) /\ Start(sent, n) \in Nat
    BY <1>2, <1>5
  <2>4. Start(sent, n) <= received /\ applied = Asked(sent, n) /\ (n # Len(sent) => received < Start(sent, n + 1))
    BY <2>1 DEF Received
  <2>5. received < Start(sent', n + 1)
    <3>1. CASE n # Len(sent)
      <4>1. n + 1 \in 0..Len(sent)
        BY <1>1, <3>1
      <4> QED BY <1>2, <2>4, <3>1, <4>1
    <3>2. CASE n = Len(sent)
      \* the position of the frame is the end of the stream: nothing has come of the next message
      <4>1. Start(sent', n) < Start(sent', n + 1)
        <5>1. n < n + 1
          BY <1>1
        <5> QED BY <1>5, <2>2, <5>1
      <4>2. received <= Len(S) /\ Start(sent', n) = Len(S) /\ Start(sent', n + 1) \in Int
        <5>1. Start(sent', n + 1) = Len(T)
          BY <1>2, <1>5, <3>2
        <5> QED BY <1>1, <1>2, <1>4, <1>5, <2>3, <3>2, <5>1
      <4> QED BY <1>1, <1>5, <4>1, <4>2
    <3> QED BY <3>1, <3>2
  <2>6. Received(n)'
    BY <1>1, <2>3, <2>4, <2>5 DEF Received
  <2>7. /\ pos <= received - Start(sent, n) /\ pos = received - Start(sent, n)
        /\ \A i \in 0..(pos - 1) : buf[i] = S[Start(sent, n) + i + 1]
    BY <1>1, <2>1 DEF Buffered, S
  <2>8. ASSUME NEW i \in 0..(pos - 1) PROVE buf[i] = T[Start(sent, n) + i + 1]
    <3>1. pos \in Nat
      BY <1>1 DEF TypeOK
    <3>2. Start(sent, n) + i + 1 \in 1..Len(S)
      <4>1. received <= Len(S)
        BY <1>1, <1>4, <1>5
      <4>2. i + 1 <= received - Start(sent, n)
        BY <2>7, <3>1
      <4> QED BY <1>1, <1>5, <2>3, <4>1, <4>2
    <3> QED BY <1>2, <2>7, <3>2
  <2>9. Buffered(n)'
    BY <1>1, <2>3, <2>7, <2>8 DEF Buffered, T
  <2> QED BY <2>2, <2>6, <2>9
<1>8. WellFormedNotRefused'
  <2> SUFFICES ASSUME shut PROVE \E i \in DOMAIN sent' : Refused(sent'[i].cmds)
    BY <1>1 DEF WellFormedNotRefused
  <2>1. PICK i \in DOMAIN sent : Refused(sent[i].cmds)
    BY DEF ClientInv, WellFormedNotRefused
  <2>2. i \in 1..Len(sent) /\ DOMAIN sent' = 1..Len(sent')
    BY <1>1, <1>2, LenProperties
  <2>3. i \in DOMAIN sent' /\ sent'[i] = sent[i]
    BY <1>1, <1>2, <2>2, AppendProperties
  <2> QED BY <2>1, <2>3
<1> QED BY <1>6, <1>7, <1>8

(* What a peer that stays open may not do is all that Leave and RecvEof    *)
(* need: bytes disappear from the end of the wire.                         *)
LEMMA StepShorter ==
  ASSUME ClientInv, Len(wire') \in Nat, Len(wire') <= Len(wire), \A i \in 1..Len(wire') : wire'[i] = wire[i],
         peer' # "open", peer' = "none" \/ peer = "open",
         buf' = buf, pos' = pos, shut' = shut, sent' = sent, received' = received, applied' = applied
  PROVE  StreamInv' /\ BufferInv' /\ WellFormedNotRefused'
<1>1. TypeOK /\ wire \in Seq(Byte) /\ Len(wire) \in Nat /\ received \in Nat /\ sent \in Seq(Messages)
  BY LenProperties DEF ClientInv, TypeOK
<1>2. Len(Stream(sent)) \in Nat
  BY <1>1, StreamShape
<1>3. received + Len(wire) <= Len(Stream(sent)) /\ \A i \in 1..Len(wire) : wire[i] = Stream(sent)[received + i]
  BY DEF ClientInv, StreamInv
<1>4. StreamInv'
  <2>1. received + Len(wire') <= Len(Stream(sent))
    BY <1>1, <1>2, <1>3
  <2>2. \A i \in 1..Len(wire') : wire'[i] = Stream(sent)[received + i]
    BY <1>1, <1>3
  <2> QED BY <2>1, <2>2 DEF StreamInv
<1>5. BufferInv'
  <2> SUFFICES ASSUME ~shut, peer' # "none" PROVE \E n \in (0..Len(sent))' : Received(n)' /\ Buffered(n)'
    BY DEF BufferInv
  <2>1. PICK n \in 0..Len(sent) : Received(n) /\ Buffered(n)
    BY DEF ClientInv, BufferInv
  <2>2. Received(n)'
    BY <2>1 DEF Received
  <2>3. Buffered(n)'
    BY <2>1 DEF Buffered
  <2> QED BY <2>2, <2>3
<1>6. WellFormedNotRefused'
  BY DEF ClientInv, WellFormedNotRefused
<1> QED BY <1>4, <1>5, <1>6

LEMMA ClientInvInit == Init => ClientInv
<1> SUFFICES ASSUME Init PROVE ClientInv
  OBVIOUS
<1>1. TypeOK
  BY TypeInit
<1>2. /\ sent = << >> /\ received = 0 /\ wire = << >> /\ shut = FALSE /\ peer = "none"
      /\ sent \in Seq(Messages) /\ Len(sent) = 0 /\ Len(wire) = 0
  BY <1>1, EmptySeq DEF Init, TypeOK
<1>3. Len(Stream(sent)) \in Nat
  BY <1>2, StreamShape
<1>4. StreamInv
  BY <1>2, <1>3 DEF StreamInv
<1>5. BufferInv
  BY <1>2 DEF BufferInv
<1> QED BY <1>1, <1>2, <1>4, <1>5 DEF ClientInv, WellFormedNotRefused

LEMMA StepJoin ==
  ASSUME ClientInv, TypeOK', Join
  PROVE  StreamInv' /\ BufferInv' /\ WellFormedNotRefused'
<1>1. /\ sent' = << >> /\ received' = 0 /\ wire' = << >> /\ applied' = << >> /\ pos' = 0 /\ shut' = FALSE
      /\ peer' = "open" /\ sent' \in Seq(Messages) /\ Len(sent') = 0 /\ Len(wire') = 0
  BY EmptySeq DEF Join, TypeOK
<1>2. /\ Start(sent', 0) = 0 /\ Asked(sent', 0) = << >> /\ Len(Stream(sent')) \in Nat
      /\ Start(sent', Len(sent')) = Len(Stream(sent'))
  BY <1>1, StreamShape
<1>3. StreamInv'
  BY <1>1, <1>2 DEF StreamInv
<1>4. Received(0)' /\ Buffered(0)'
  BY <1>1, <1>2 DEF Received, Buffered
<1>5. BufferInv'
  <2>1. 0 \in (0..Len(sent))'
    BY <1>1
  <2> QED BY <1>4, <2>1 DEF BufferInv
<1> QED BY <1>1, <1>3, <1>5 DEF WellFormedNotRefused

LEMMA ClientInvNext ==
  ASSUME MessagesLegible, ClientInv, [Next]_vars
  PROVE  ClientInv'
<1>1. TypeOK'
  BY TypeNext DEF ClientInv
<1> SUFFICES StreamInv' /\ BufferInv' /\ WellFormedNotRefused'
  BY <1>1 DEF ClientInv
<1>2. CASE Join
  BY <1>1, <1>2, StepJoin
<1>3. ASSUME NEW m \in Messages, Send(m) PROVE StreamInv' /\ BufferInv' /\ WellFormedNotRefused'
  BY <1>3, StepSend
<1>4. CASE Leave
  <2>1. PICK k \in 0..Len(wire) : wire' = SubSeq(wire, 1, k)
    BY <1>4 DEF Leave
  <2>2. wire \in Seq(Byte) /\ Len(wire) \in Nat /\ k \in Nat /\ k <= Len(wire)
    BY LenProperties DEF ClientInv, TypeOK
  <2>3. Len(wire') = k /\ \A i \in 1..k : wire'[i] = wire[i]
    <3> DEFINE one == 1
    <3>1. one \in Int /\ k \in Int /\ one = 1 /\ \A i \in one..k : wire[i] \in Byte
      BY <2>2, ElementOfSeq
    <3> HIDE DEF one
    <3>2. /\ Len(SubSeq(wire, one, k)) = IF one <= k THEN k - one + 1 ELSE 0
          /\ \A i \in 1..(k - one + 1) : SubSeq(wire, one, k)[i] = wire[one + i - 1]
      BY <3>1, SubSeqProperties
    <3> QED BY <2>1, <2>2, <3>1, <3>2
  <2>4. /\ peer' # "open" /\ peer = "open" /\ buf' = buf /\ pos' = pos /\ shut' = shut /\ sent' = sent
        /\ received' = received /\ applied' = applied
    BY <1>4 DEF Leave
  <2>5. Len(wire') \in Nat /\ Len(wire') <= Len(wire) /\ \A i \in 1..Len(wire') : wire'[i] = wire[i]
    BY <2>2, <2>3
  <2> QED BY <2>4, <2>5, StepShorter
<1>5. CASE RecvData
  BY <1>5, StepData
<1>6. CASE RecvError
  BY <1>6, StepError
<1>7. CASE RecvEof
  <2>1. /\ peer' = "none" /\ wire' = << >> /\ buf' = buf /\ pos' = pos /\ shut' = shut /\ sent' = sent
        /\ received' = received /\ applied' = applied
    BY <1>7 DEF RecvEof
  <2>2. Len(wire') \in Nat /\ Len(wire') <= Len(wire) /\ \A i \in 1..Len(wire') : wire'[i] = wire[i]
    <3>1. Len(wire') = 0 /\ Len(wire) \in Nat
      BY <2>1, EmptySeq, LenProperties DEF ClientInv, TypeOK
    <3> QED BY <3>1
  <2> QED BY <2>1, <2>2, StepShorter
<1>8. CASE UNCHANGED vars
  BY <1>8 DEF vars, ClientInv, StreamInv, BufferInv, Received, Buffered, WellFormedNotRefused
<1> QED BY <1>2, <1>3, <1>4, <1>5, <1>6, <1>7, <1>8 DEF Next, HandleClient

LEMMA Invariant ==
  ASSUME MessagesLegible
  PROVE  Spec => []ClientInv
<1>1. Init => ClientInv
  BY ClientInvInit
<1>2. ClientInv /\ [Next]_vars => ClientInv'
  BY ClientInvNext
<1> QED BY <1>1, <1>2, PTL DEF Spec

-----------------------------------------------------------------------------
(* However the stream of a peer is cut, and whoever had the entry before,  *)
(* as long as no message is refused the commands applied are exactly those *)
(* of the messages recv has returned in full, in order.                    *)
THEOREM Exact ==
  ASSUME MessagesLegible
  PROVE  Spec => []AppliedExactly
<1>1. ClientInv => AppliedExactly
  <2> SUFFICES ASSUME ClientInv, peer # "none", ~shut PROVE applied = CompleteCommands
    BY DEF AppliedExactly
  <2>1. PICK n \in 0..Len(sent) : Received(n)
    BY DEF ClientInv, BufferInv
  <2>2. /\ Start(sent, n) <= received /\ applied = Asked(sent, n)
        /\ n # Len(sent) => received < Start(sent, n + 1)
    BY <2>1 DEF Received
  <2>3. /\ sent \in Seq(Messages) /\ Len(sent) \in Nat /\ received \in Nat
        /\ \A j \in 0..Len(sent) : Start(sent, j) \in Nat
        /\ \A j, l \in 0..Len(sent) : j < l => Start(sent, j) < Start(sent, l)
    BY StreamShape, LenProperties DEF ClientInv, TypeOK
  <2>4. \A j : EndOf(j) = Start(sent, j) /\ CommandsUpTo(j) = Asked(sent, j)
    BY DEF EndOf, CommandsUpTo, Start, Asked, BytesOf, CmdsOf
  <2> DEFINE complete == {j \in 0..Len(sent) : EndOf(j) <= received}
  <2>5. n \in complete
    BY <2>2, <2>4
  <2>6. ASSUME NEW o \in complete PROVE o <= n
    <3> SUFFICES ASSUME ~(o <= n) PROVE FALSE
      OBVIOUS
    <3>1. o \in 0..Len(sent) /\ Start(sent, o) <= received
      BY <2>4
    <3>2. n # Len(sent) /\ n + 1 \in 0..Len(sent) /\ (o = n + 1 \/ n + 1 < o)
      BY <2>3, <3>1
    <3>3. Start(sent, n + 1) <= Start(sent, o)
      BY <2>3, <3>1, <3>2
    <3> QED BY <2>2, <2>3, <3>1, <3>2, <3>3
  <2>7. \A k \in complete : (\A o \in complete : o <= k) => k = n
    <3>1. \A k \in complete : k \in Int
      OBVIOUS
    <3>2. n \in Int
      OBVIOUS
    <3> HIDE DEF complete
    <3> QED BY <2>5, <2>6, <3>1, <3>2
  <2>8. (CHOOSE k \in complete : \A o \in complete : o <= k) = n
    <3> HIDE DEF complete
    <3> QED BY <2>5, <2>6, <2>7
  <2>9. CompleteCommands = CommandsUpTo(n)
    BY <2>8 DEF CompleteCommands
  <2> QED BY <2>2, <2>4, <2>9
<1>2. Spec => []ClientInv
  BY Invariant
<1> QED BY <1>1, <1>2, PTL

(* The buffer is full only when a message is as long as it: the handler    *)
(* never leaves a message it could have taken.                             *)
THEOREM NeverFull ==
  ASSUME MessagesLegible
  PROVE  Spec => []BufferNeverFull
<1>1. ClientInv => BufferNeverFull
  <2> SUFFICES ASSUME ClientInv, peer # "none", ~shut, pos = CLIENT_BUFFER_SIZE
               PROVE  \E k \in DOMAIN sent : Len(sent[k].bytes) >= CLIENT_BUFFER_SIZE
    BY DEF BufferNeverFull
  <2>1. PICK n \in 0..Len(sent) : Received(n) /\ Buffered(n)
    BY DEF ClientInv, BufferInv
  <2>2. pos <= received - Start(sent, n) /\ (n # Len(sent) => received < Start(sent, n + 1))
    BY <2>1 DEF Received, Buffered
  <2>3. /\ sent \in Seq(Messages) /\ Len(sent) \in Nat /\ received \in Nat /\ CLIENT_BUFFER_SIZE \in Nat \ {0}
        /\ Start(sent, n) \in Nat /\ Start(sent, Len(sent)) = Len(Stream(sent)) /\ Len(Stream(sent)) \in Nat
        /\ Len(wire) \in Nat /\ received + Len(wire) <= Len(Stream(sent))
    BY StreamShape, LenProperties, ClientBufferAssumption DEF ClientInv, TypeOK, StreamInv
  <2>4. n # Len(sent)
    BY <2>2, <2>3
  <2>5. Start(sent, n + 1) = Start(sent, n) + Len(sent[n + 1].bytes)
    BY <2>3, <2>4, StreamPlace
  <2>6. n + 1 \in 1..Len(sent) /\ DOMAIN sent = 1..Len(sent)
    BY <2>3, <2>4, LenProperties
  <2>7. Len(sent[n + 1].bytes) \in Nat
    <3>1. AMessage(sent[n + 1])
      BY <2>3, <2>6, PartsOf
    <3> QED BY <3>1, LenProperties DEF AMessage
  <2>8. Len(sent[n + 1].bytes) >= CLIENT_BUFFER_SIZE
    BY <2>2, <2>3, <2>4, <2>5, <2>7
  <2> QED BY <2>6, <2>8
<1>2. Spec => []ClientInv
  BY Invariant
<1> QED BY <1>1, <1>2, PTL

(* A peer is refused only if it sent what the protocol has no meaning for. *)
THEOREM NotRefused ==
  ASSUME MessagesLegible
  PROVE  Spec => []WellFormedNotRefused
<1>1. ClientInv => WellFormedNotRefused
  BY DEF ClientInv
<1>2. Spec => []ClientInv
  BY Invariant
<1> QED BY <1>1, <1>2, PTL

(* When a peer is refused the messages before the refused one have been    *)
(* applied, and nothing of that one or of what is behind it.               *)
THEOREM GoodOnesApplied ==
  ASSUME MessagesLegible
  PROVE  Spec => AppliedUntilRefused
<1>1. ASSUME ClientInv, [Next]_vars
      PROVE  [~shut /\ shut' => \E n \in DOMAIN sent :
                Refused(sent[n].cmds) /\ applied' = CommandsUpTo(n - 1)]_vars
  <2> SUFFICES ASSUME Next, ~shut, shut'
               PROVE  \E n \in DOMAIN sent : Refused(sent[n].cmds) /\ applied' = CommandsUpTo(n - 1)
    BY <1>1
  <2>1. RecvData \/ RecvError
    BY DEF Next, HandleClient, Join, Send, Leave, RecvEof
  <2>2. RefusedNow
    BY <1>1, <2>1, StepData, StepError
  <2>3. DOMAIN sent = 1..Len(sent)
    BY <1>1, LenProperties DEF ClientInv, TypeOK
  <2>4. \A j : CommandsUpTo(j) = Asked(sent, j)
    BY DEF CommandsUpTo, Asked, CmdsOf
  <2> QED BY <2>2, <2>3, <2>4 DEF RefusedNow
<1>2. Spec => []ClientInv
  BY Invariant
<1> QED BY <1>1, <1>2, PTL DEF Spec, AppliedUntilRefused
=============================================================================
