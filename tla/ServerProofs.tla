---------------------------- MODULE ServerProofs ----------------------------
(***************************************************************************)
(* The socket set keeps its counters right, for arrays of any size; and    *)
(* the invariants of the event loop, for every number of connections,      *)
(* entries, descriptors and messages under way.                            *)
(***************************************************************************)
EXTENDS Server, FiniteSetsExt, FiniteSetTheorems, WellFoundedInduction, TLAPS

(* A finite non-empty set of integers has a maximum.  Order the sets       *)
(* "elements of S above x" by strict inclusion: a minimal one is empty.    *)
LEMMA MaxExists ==
  ASSUME NEW S \in SUBSET Int, IsFiniteSet(S), S # {}
  PROVE  /\ Max(S) \in S
         /\ \A y \in S : y <= Max(S)
<1> DEFINE Above(x) == {y \in S : y > x}
           All == {Above(x) : x \in S}
<1>1. IsWellFoundedOn(StrictSubsetOrdering(S), FiniteSubsetsOf(S))
  BY FS_StrictSubsetOrderingWellFounded
<1>2. All \subseteq FiniteSubsetsOf(S)
  BY FS_Subset DEF FiniteSubsetsOf
<1>3. All # {}
  OBVIOUS
<1>4. \E U \in All : \A V \in All : ~ (<<V, U>> \in StrictSubsetOrdering(S))
  <2> HIDE DEF All
  <2> QED  BY <1>1, <1>2, <1>3, WFMin
<1>5. PICK x \in S : \A V \in All : ~ (<<V, Above(x)>> \in StrictSubsetOrdering(S))
  BY <1>4
<1>6. \A z \in S : z <= x
  <2> SUFFICES ASSUME NEW z \in S, ~(z <= x) PROVE FALSE
    OBVIOUS
  <2>1. z \in Above(x) /\ z \notin Above(z)
    OBVIOUS
  <2>2. Above(z) \subseteq Above(x)
    <3>1. \A w \in S : w > z => w > x
      OBVIOUS
    <3> QED  BY <3>1, Zenon
  <2>3. <<Above(z), Above(x)>> \in StrictSubsetOrdering(S)
    BY <2>1, <2>2 DEF StrictSubsetOrdering
  <2> QED  BY <2>3, <1>5
<1> QED  BY <1>6 DEF Max

LEMMA MinExists ==
  ASSUME NEW S \in SUBSET Int, IsFiniteSet(S), S # {}
  PROVE  /\ Min(S) \in S
         /\ \A y \in S : Min(S) <= y
<1> DEFINE Below(x) == {y \in S : y < x}
           All == {Below(x) : x \in S}
<1>1. IsWellFoundedOn(StrictSubsetOrdering(S), FiniteSubsetsOf(S))
  BY FS_StrictSubsetOrderingWellFounded
<1>2. All \subseteq FiniteSubsetsOf(S)
  BY FS_Subset DEF FiniteSubsetsOf
<1>3. All # {}
  OBVIOUS
<1>4. \E U \in All : \A V \in All : ~ (<<V, U>> \in StrictSubsetOrdering(S))
  <2> HIDE DEF All
  <2> QED  BY <1>1, <1>2, <1>3, WFMin
<1>5. PICK x \in S : \A V \in All : ~ (<<V, Below(x)>> \in StrictSubsetOrdering(S))
  BY <1>4
<1>6. \A z \in S : x <= z
  <2> SUFFICES ASSUME NEW z \in S, ~(x <= z) PROVE FALSE
    OBVIOUS
  <2>1. z \in Below(x) /\ z \notin Below(z)
    OBVIOUS
  <2>2. Below(z) \subseteq Below(x)
    <3>1. \A w \in S : w < z => w < x
      OBVIOUS
    <3> QED  BY <3>1, Zenon
  <2>3. <<Below(z), Below(x)>> \in StrictSubsetOrdering(S)
    BY <2>1, <2>2 DEF StrictSubsetOrdering
  <2> QED  BY <2>3, <1>5
<1> QED  BY <1>6 DEF Min

-----------------------------------------------------------------------------
(* The sets the theorems are about: what the operations can produce from   *)
(* an array of `size` entries and descriptors larger than 0.               *)
SetAssumptions(set, size, Fds) ==
  /\ size \in Nat
  /\ Fds \in SUBSET (Nat \ {0})
  /\ set \in SocketSetType(size, Fds)

LEMMA SocketSetFacts ==
  ASSUME NEW set, NEW size, NEW Fds, SetAssumptions(set, size, Fds)
  PROVE  /\ DOMAIN set.socks = 0..(size - 1)
         /\ IsFiniteSet(DOMAIN set.socks)
         /\ MaxSize(set) = size
         /\ IsFiniteSet(Occupied(set))
         /\ Cardinality(Occupied(set)) \in 0..size
         /\ Cardinality(Occupied(set)) = size <=> Holding(set, NoSocket) = {}
<1>1. DOMAIN set.socks = 0..(size - 1)
  BY DEF SetAssumptions, SocketSetType
<1>2. IsFiniteSet(0..(size - 1)) /\ Cardinality(0..(size - 1)) = size
  BY FS_Interval DEF SetAssumptions
<1>3. Occupied(set) \in SUBSET DOMAIN set.socks
  BY DEF Occupied
<1>4. /\ IsFiniteSet(Occupied(set))
      /\ Cardinality(Occupied(set)) <= size
      /\ Cardinality(Occupied(set)) = size => Occupied(set) = DOMAIN set.socks
  <2>1. Occupied(set) \in SUBSET (0..(size - 1))
    BY <1>1, <1>3
  <2> HIDE DEF Occupied
  <2>2. /\ IsFiniteSet(Occupied(set))
        /\ Cardinality(Occupied(set)) <= Cardinality(0..(size - 1))
        /\ Cardinality(0..(size - 1)) = Cardinality(Occupied(set))
             => 0..(size - 1) = Occupied(set)
    BY <2>1, <1>2, FS_Subset, Zenon
  <2> QED  BY <2>2, <1>1, <1>2
<1>5. Cardinality(Occupied(set)) \in Nat
  BY <1>4, FS_CardinalityType
<1>6. Holding(set, NoSocket) = DOMAIN set.socks \ Occupied(set)
  BY DEF Holding, Occupied
<1>7. Cardinality(Occupied(set)) = size <=> Holding(set, NoSocket) = {}
  BY <1>1, <1>2, <1>3, <1>4, <1>6
<1> QED  BY <1>1, <1>2, <1>4, <1>5, <1>7 DEF MaxSize, SetAssumptions

(* socket_set_new. *)
LEMMA SetNewConsistent ==
  ASSUME NEW size \in Nat, NEW Fds \in SUBSET (Nat \ {0})
  PROVE  /\ SetNew(size) \in SocketSetType(size, Fds)
         /\ SetConsistent(SetNew(size))
         /\ Occupied(SetNew(size)) = {}
<1>1. SetNew(size) \in SocketSetType(size, Fds)
  BY DEF SetNew, SocketSetType
<1>2. Occupied(SetNew(size)) = {}
  BY DEF SetNew, Occupied
<1>3. Sockets(SetNew(size)) = {}
  BY <1>2 DEF Sockets
<1> QED  BY <1>1, <1>2, <1>3, FS_EmptySet DEF SetNew, SetConsistent

(* socket_set_add of a descriptor that is not in the set: refused exactly  *)
(* when every entry is in use, and otherwise put in a free entry of the    *)
(* array.                                                                  *)
LEMMA SetAddConsistent ==
  ASSUME NEW set, NEW size, NEW Fds, SetAssumptions(set, size, Fds),
         SetConsistent(set),
         NEW sock \in Fds, sock \notin Sockets(set)
  PROVE  LET r == SetAdd(set, sock)
         IN  /\ r.set \in SocketSetType(size, Fds)
             /\ SetConsistent(r.set)
             /\ \/ r.id = -1 /\ r.set = set /\ Holding(set, NoSocket) = {}
                \/ /\ r.id \in 0..(size - 1)
                   /\ set.socks[r.id] = NoSocket
                   /\ r.set.socks = [set.socks EXCEPT ![r.id] = sock]
<1> DEFINE r == SetAdd(set, sock)
           D == 0..(size - 1)
           at == Min(Holding(set, NoSocket))
<1>0. /\ size \in Nat /\ sock \in Nat \ {0} /\ NoSocket \notin Fds
      /\ set.socks \in [D -> Fds \union {NoSocket}]
      /\ set.n \in Int /\ set.max_fd \in Int
      /\ set = [socks |-> set.socks, n |-> set.n, max_fd |-> set.max_fd]
      /\ Fds \in SUBSET (Nat \ {0})
  BY DEF SetAssumptions, SocketSetType, NoSocket
<1>1. /\ DOMAIN set.socks = D
      /\ MaxSize(set) = size
      /\ IsFiniteSet(D)
      /\ IsFiniteSet(Occupied(set))
      /\ Cardinality(Occupied(set)) \in 0..size
      /\ Cardinality(Occupied(set)) = size <=> Holding(set, NoSocket) = {}
  BY SocketSetFacts
<1>2. CASE set.n = size
  <2>1. r = [set |-> set, id |-> -1]
    BY <1>1, <1>2 DEF SetAdd
  <2>2. Holding(set, NoSocket) = {}
    BY <1>1, <1>2 DEF SetConsistent
  <2> QED  BY <2>1, <2>2 DEF SetAssumptions
<1>3. CASE set.n # size
  <2>1. /\ r.set = [socks |-> [set.socks EXCEPT ![at] = sock], n |-> set.n + 1,
                    max_fd |-> IF sock > set.max_fd THEN sock ELSE set.max_fd]
        /\ r.id = at
    BY <1>0, <1>1, <1>3 DEF SetAdd
  <2>2. at \in Holding(set, NoSocket)
    <3>1. Holding(set, NoSocket) # {}
      BY <1>1, <1>3 DEF SetConsistent
    <3>2. IsFiniteSet(Holding(set, NoSocket)) /\ Holding(set, NoSocket) \in SUBSET Int
      <4>1. IsFiniteSet(D)
        BY <1>1
      <4>2. Holding(set, NoSocket) \in SUBSET D /\ D \in SUBSET Int
        BY <1>0, <1>1 DEF Holding
      <4> HIDE DEF D, Holding
      <4>3. IsFiniteSet(Holding(set, NoSocket))
        BY <4>1, <4>2, FS_Subset, Zenon
      <4> QED  BY <4>2, <4>3
    <3> QED  BY <3>1, <3>2, MinExists, Zenon
  <2>3. at \in D /\ set.socks[at] = NoSocket
    BY <2>2, <1>1 DEF Holding
  <2> HIDE DEF at, r
  <2>4. r.set \in SocketSetType(size, Fds)
    BY <1>0, <2>1, <2>3 DEF SocketSetType
  <2>5. r.set.socks = [set.socks EXCEPT ![at] = sock] /\ r.set.n = set.n + 1
    BY <2>1
  <2>6. Occupied(r.set) = Occupied(set) \union {at}
    BY <1>0, <1>1, <2>3, <2>5 DEF Occupied, NoSocket
  <2>7. at \notin Occupied(set)
    BY <2>3 DEF Occupied
  <2>8. Sockets(r.set) = Sockets(set) \union {sock}
    <3>1. \A j \in Occupied(set) : r.set.socks[j] = set.socks[j]
      BY <1>0, <1>1, <2>5, <2>7 DEF Occupied
    <3>2. r.set.socks[at] = sock
      BY <1>0, <2>3, <2>5
    <3> QED  BY <3>1, <3>2, <2>6 DEF Sockets
  <2>9. SetConsistent(r.set)
    <3>1. r.set.n = Cardinality(Occupied(r.set))
      BY <1>1, <2>5, <2>6, <2>7, FS_AddElement DEF SetConsistent
    <3>2. r.set.max_fd = IF sock > set.max_fd THEN sock ELSE set.max_fd
      BY <2>1
    <3>3. Sockets(set) \in SUBSET Nat
      BY <1>0, <1>1 DEF Sockets, Occupied
    <3>4. \A s \in Sockets(r.set) : s <= r.set.max_fd
      BY <3>2, <3>3, <2>8, <1>0 DEF SetConsistent
    <3>5. r.set.max_fd \in Sockets(r.set) \union {0}
      BY <3>2, <2>8 DEF SetConsistent
    <3>6. \A j, k \in Occupied(r.set) : r.set.socks[j] = r.set.socks[k] => j = k
      BY <1>0, <1>1, <2>3, <2>5, <2>6 DEF SetConsistent, Sockets, Occupied
    <3> QED  BY <3>1, <3>4, <3>5, <3>6 DEF SetConsistent
  <2> QED  BY <2>1, <2>3, <2>4, <2>5, <2>9 DEF r
<1> QED  BY <1>2, <1>3

(* socket_set_remove of a descriptor of the set. *)
LEMMA SetRemoveConsistent ==
  ASSUME NEW set, NEW size, NEW Fds, SetAssumptions(set, size, Fds),
         SetConsistent(set),
         NEW at \in DOMAIN set.socks, set.socks[at] # NoSocket
  PROVE  LET r == SetRemove(set, set.socks[at])
         IN  /\ r.set \in SocketSetType(size, Fds)
             /\ SetConsistent(r.set)
             /\ r.id = at
             /\ r.set.socks = [set.socks EXCEPT ![at] = NoSocket]
<1> DEFINE sock == set.socks[at]
           r == SetRemove(set, sock)
           D == 0..(size - 1)
           left == [set.socks EXCEPT ![at] = NoSocket]
           Left == {0} \union {left[j] : j \in DOMAIN left}
<1>0. /\ size \in Nat
      /\ set.socks \in [D -> Fds \union {NoSocket}]
      /\ set.n \in Int /\ set.max_fd \in Int
      /\ Fds \in SUBSET (Nat \ {0})
  BY DEF SetAssumptions, SocketSetType
<1>1. /\ DOMAIN set.socks = D
      /\ IsFiniteSet(Occupied(set))
      /\ IsFiniteSet(D)
  BY SocketSetFacts
<1>2. sock \in Fds /\ sock \in Nat \ {0} /\ at \in Occupied(set) /\ at \in D
  BY <1>0, <1>1 DEF Occupied
<1>3. Holding(set, sock) = {at}
  <2>1. Holding(set, sock) \subseteq Occupied(set)
    BY <1>0, <1>1, <1>2 DEF Holding, Occupied, NoSocket
  <2> QED  BY <2>1, <1>2 DEF Holding, SetConsistent
<1>4. Min({at}) = at
  BY <1>2 DEF Min
<1>5. /\ r.id = at
      /\ r.set = [socks |-> left, n |-> set.n - 1,
                  max_fd |-> IF sock = set.max_fd THEN Max(Left) ELSE set.max_fd]
  <2>1. ~(sock < 0 \/ Holding(set, sock) = {})
    BY <1>2, <1>3
  <2>2. Min(Holding(set, sock)) = at
    BY <1>3, <1>4
  <2> QED  BY <2>1, <2>2, Zenon DEF SetRemove
<1>6. left \in [D -> Fds \union {NoSocket}] /\ DOMAIN left = D
  BY <1>0, <1>2
<1>7. Max(Left) \in Left /\ (\A x \in Left : x <= Max(Left)) /\ Left \in SUBSET Int
  <2>1. left \in Surjection(D, {left[j] : j \in D})
    BY <1>6 DEF Surjection
  <2>2. IsFiniteSet({left[j] : j \in D})
    <3> HIDE DEF left, D
    <3> QED  BY <1>1, <2>1, FS_Surjection, Zenon
  <2>3. IsFiniteSet({left[j] : j \in D} \union {0})
    BY <2>2, FS_AddElement
  <2>4. Left = {left[j] : j \in D} \union {0}
    BY <1>6
  <2>5. Left \in SUBSET Int /\ Left # {}
    <3>1. \A j \in D : left[j] \in Int
      <4> HIDE DEF left, D
      <4>1. \A x \in Fds \union {NoSocket} : x \in Int
        BY <1>0 DEF NoSocket
      <4> QED  BY <4>1, <1>6, Zenon
    <3> QED  BY <3>1, <2>4
  <2>6. IsFiniteSet(Left)
    BY <2>3, <2>4
  <2> HIDE DEF Left
  <2> QED  BY <2>5, <2>6, MaxExists
<1> HIDE DEF r
<1>8. r.set \in SocketSetType(size, Fds)
  BY <1>0, <1>5, <1>6, <1>7 DEF SocketSetType
<1>9. Occupied(r.set) = Occupied(set) \ {at}
  BY <1>0, <1>1, <1>2, <1>5, <1>6 DEF Occupied, NoSocket
<1>10. \A j \in Occupied(r.set) : r.set.socks[j] = set.socks[j]
  BY <1>0, <1>5, <1>9, <1>1, <1>2 DEF Occupied
<1>11. Sockets(r.set) = Sockets(set) \ {sock}
  BY <1>2, <1>9, <1>10 DEF Sockets, SetConsistent
<1>12. SetConsistent(r.set)
  <2>1. r.set.n = Cardinality(Occupied(r.set))
    <3>1. r.set.n = set.n - 1 /\ set.n = Cardinality(Occupied(set))
      BY <1>5 DEF SetConsistent
    <3>2. Cardinality(Occupied(set) \ {at}) = Cardinality(Occupied(set)) - 1
      BY <1>1, <1>2, FS_RemoveElement, Zenon
    <3> QED  BY <3>1, <3>2, <1>9
  <2>2. Sockets(r.set) \in SUBSET Nat
    BY <1>0, <1>1, <1>11 DEF Sockets, Occupied
  <2>3. (\A s \in Sockets(r.set) : s <= r.set.max_fd) /\ r.set.max_fd \in Sockets(r.set) \union {0}
    <3>1. CASE sock # set.max_fd
      <4>1. r.set.max_fd = set.max_fd
        BY <3>1, <1>5
      <4> QED  BY <4>1, <3>1, <1>11 DEF SetConsistent
    <3>2. CASE sock = set.max_fd
      <4>1. r.set.max_fd = Max(Left)
        BY <3>2, <1>5
      <4>2. Sockets(r.set) \subseteq Left
        BY <1>5, <1>6, <1>8 DEF Sockets, Occupied
      <4>3. Left \subseteq Sockets(r.set) \union {0, NoSocket}
        BY <1>5 DEF Sockets, Occupied
      <4>4. Max(Left) # NoSocket
        BY <1>7 DEF NoSocket
      <4> HIDE DEF Left
      <4> QED  BY <4>1, <4>2, <4>3, <4>4, <1>7
    <3> QED  BY <3>1, <3>2
  <2>4. \A j, k \in Occupied(r.set) : r.set.socks[j] = r.set.socks[k] => j = k
    BY <1>9, <1>10 DEF SetConsistent
  <2> QED  BY <2>1, <2>3, <2>4 DEF SetConsistent
<1>13. r.set.socks = left /\ r.id = at
  BY <1>5
<1> QED  BY <1>8, <1>12, <1>13 DEF r

-----------------------------------------------------------------------------
(* What the constants and the invariant say.                               *)

LEMMA ConstantFacts ==
  /\ MaxClients \in Nat \ {0} /\ MaxClients + 1 \in Nat
  /\ FdLimit \in Nat \ {0} /\ SendCap \in Nat \ {0} /\ MaxIn \in Nat \ {0}
  /\ Fd \in SUBSET (Nat \ {0}) /\ IsFiniteSet(Fd)
  /\ ServerSock \in Fd
  /\ Entry \subseteq 0..MaxClients /\ 0 \notin Entry
  /\ Listening \notin Conn /\ Free \notin Conn /\ Listening # Free
  /\ NoSocket \notin Fd /\ NoConn \notin Conn
<1>1. IsFiniteSet(Fd)
  BY ServerAssumption, FS_Interval DEF Fd
<1>2. Fd \in SUBSET (Nat \ {0}) /\ ServerSock \in Fd /\ NoSocket \notin Fd
  BY ServerAssumption DEF Fd, ServerSock, NoSocket
<1>3. Listening # Free
  BY DEF Listening, Free
<1>4. Entry \subseteq 0..MaxClients /\ 0 \notin Entry
  BY ServerAssumption DEF Entry
<1> QED  BY <1>1, <1>2, <1>3, <1>4, ServerAssumption

(* What the invariant says of the socket set and of its entries. *)
LEMMA SetFacts ==
  ASSUME ServerInv
  PROVE  /\ SetAssumptions(ss, MaxClients + 1, Fd)
         /\ DOMAIN ss.socks = 0..MaxClients
         /\ MaxSize(ss) = MaxClients + 1
         /\ ss.socks \in [0..MaxClients -> Fd \union {NoSocket}]
         /\ \A e \in Entry : SetGet(ss, e) = ss.socks[e]
         /\ Sockets(ss) \subseteq Fd
         /\ \A e \in 0..MaxClients :
              ss.socks[e] # NoSocket => ss.socks[e] \in Sockets(ss)
         /\ \A e, f \in 0..MaxClients :
              ss.socks[e] # NoSocket /\ ss.socks[e] = ss.socks[f] => e = f
<1>1. SetAssumptions(ss, MaxClients + 1, Fd)
  BY ConstantFacts DEF SetAssumptions, ServerInv, TypeOK
<1>2. DOMAIN ss.socks = 0..MaxClients /\ MaxSize(ss) = MaxClients + 1
  <2>1. (MaxClients + 1) - 1 = MaxClients
    BY ConstantFacts
  <2> QED  BY <1>1, <2>1, SocketSetFacts
<1>3. ss.socks \in [0..MaxClients -> Fd \union {NoSocket}]
  BY ConstantFacts DEF ServerInv, TypeOK, SocketSetType
<1>4. \A e \in Entry : SetGet(ss, e) = ss.socks[e]
  BY ConstantFacts, <1>2 DEF SetGet
<1>5. /\ Sockets(ss) \subseteq Fd
      /\ \A e \in 0..MaxClients : ss.socks[e] # NoSocket => ss.socks[e] \in Sockets(ss)
  BY <1>2, <1>3 DEF Sockets, Occupied
<1>6. \A e, f \in 0..MaxClients :
        ss.socks[e] # NoSocket /\ ss.socks[e] = ss.socks[f] => e = f
  BY <1>2 DEF ServerInv, SocketSetConsistent, SetConsistent, Occupied
<1> QED  BY <1>1, <1>2, <1>3, <1>4, <1>5, <1>6

(* An entry in use holds the descriptor of a connection. *)
LEMMA EntryFacts ==
  ASSUME ServerInv, NEW e \in Entry, ss.socks[e] # NoSocket
  PROVE  /\ main # "closed"
         /\ ss.socks[e] \in Fd /\ ss.socks[e] # ServerSock
         /\ fds[ss.socks[e]] \in Conn
         /\ fds[ss.socks[e]] # Listening /\ fds[ss.socks[e]] # Free
<1>1. ss.socks[e] \in Sockets(ss) /\ ss.socks[e] \in Fd
  BY SetFacts, ConstantFacts
<1>2. main # "closed"
  BY <1>1 DEF ServerInv, IndexInv
<1>3. fds[ss.socks[e]] \in Conn /\ fds[ServerSock] = Listening
  BY <1>2 DEF ServerInv, SetMatchesDescriptors
<1> QED  BY <1>1, <1>2, <1>3, ConstantFacts

-----------------------------------------------------------------------------

LEMMA InitInv == Init => ServerInv
<1> SUFFICES ASSUME Init PROVE ServerInv
  OBVIOUS
<1> USE ConstantFacts
<1> DEFINE new == SetNew(MaxClients + 1)
<1>1. /\ new \in SocketSetType(MaxClients + 1, Fd)
      /\ SetConsistent(new)
      /\ Occupied(new) = {}
  BY SetNewConsistent
<1>2. Sockets(new) = {}
  BY <1>1 DEF Sockets
<1>3. new.socks \in [0..MaxClients -> {NoSocket}] /\ DOMAIN new.socks = 0..MaxClients
  BY DEF SetNew
<1>4. SetAssumptions(new, MaxClients + 1, Fd)
  BY <1>1 DEF SetAssumptions
<1>5. Holding(new, NoSocket) = 0..MaxClients /\ 0 \in 0..MaxClients
  BY <1>3 DEF Holding
<1>6. ss \in SocketSetType(MaxClients + 1, Fd) /\ SetConsistent(ss)
  <2> HIDE DEF new
  <2>1. ss = SetAdd(new, ServerSock).set
    BY DEF Init, new
  <2>2. ServerSock \notin Sockets(new)
    BY <1>2
  <2> QED  BY <1>1, <1>4, <2>1, <2>2, SetAddConsistent
<1>7. Min(Holding(new, NoSocket)) = 0
  BY <1>5 DEF Min
<1>8. ss.socks = [new.socks EXCEPT ![0] = ServerSock]
  <2>1. new.n = 0 /\ MaxSize(new) = MaxClients + 1
    BY <1>4, SocketSetFacts DEF SetNew
  <2>2. ~(ServerSock < 0 \/ new.n = MaxSize(new))
    BY <2>1
  <2> HIDE DEF new
  <2>3. SetAdd(new, ServerSock).set.socks = [new.socks EXCEPT ![0] = ServerSock]
    BY <2>2, <1>7 DEF SetAdd
  <2> QED  BY <2>3 DEF Init, new
<1>9. ss.socks[0] = ServerSock /\ \A e \in Entry : ss.socks[e] = NoSocket
  <2> HIDE DEF new
  <2> QED  BY <1>3, <1>5, <1>8
<1>10. TypeOK
  <2>1. 0 \in 0..MaxClients /\ 0 \in 0..SendCap /\ 0 \in 0..MaxIn
    OBVIOUS
  <2>2. fds \in [Fd -> Conn \union {Listening, Free}]
    BY DEF Init
  <2>3. backlog \in Seq(Conn)
    BY DEF Init
  <2> QED  BY <1>6, <2>1, <2>2, <2>3 DEF Init, TypeOK, Main
<1>11. SetMatchesDescriptors /\ LeftoverBelongsToOwner /\ NoOrphanDescriptor
  BY <1>9 DEF Init, SetMatchesDescriptors, LeftoverBelongsToOwner, NoOrphanDescriptor
<1>12. LockInv /\ IndexInv /\ ConnInv /\ ReadyInv
  BY DEF Init, LockInv, IndexInv, ConnInv, ReadyInv, Ahead
<1> QED  BY <1>6, <1>10, <1>11, <1>12 DEF ServerInv, SocketSetConsistent

-----------------------------------------------------------------------------
(* The lock and the two threads.                                           *)

LEMMA LockNext ==
  ASSUME ServerInv, [Next]_vars
  PROVE  LockInv'
<1> USE DEF LockInv
<1>1. CASE Environment
  BY <1>1 DEF ServerInv, Environment, Connect, Abort, Send, Read, Leave, Interrupt, serverVars
<1>2. CASE ThreadExit
  BY <1>2 DEF ServerInv, ThreadExit, ExitWake, ExitLock, ExitStore, ExitUnlock
<1>3. CASE Lock \/ Check \/ Select \/ Unlock \/ Join \/ Close
  BY <1>3 DEF ServerInv, Lock, Check, Select, Unlock, Join, Close
<1>4. CASE HandleServer \/ SkipClient \/ HandlerLoop \/ Broadcast
  <2>1. /\ main \in {"accept", "clients", "loop", "broadcast"}
        /\ main' \in {"clients", "loop", "broadcast", "lock"}
    BY <1>4 DEF HandleServer, SkipClient, HandlerLoop, Broadcast, AtClient, NextClient
  <2>2. UNCHANGED << lock, run, exit >>
    BY <1>4 DEF HandleServer, SkipClient, HandlerLoop, Broadcast
  <2> QED  BY <2>1, <2>2 DEF ServerInv
<1>5. CASE HandleClient
  <2>1. main \in {"clients", "refuse"} /\ main' \in {"clients", "refuse", "loop"}
    BY <1>5 DEF HandleClient, RecvData, RecvMalformed, Refuse, RecvError, RecvEof,
         AtReady, AtClient, NextClient
  <2>2. UNCHANGED << lock, run, exit >>
    BY <1>5 DEF HandleClient, RecvData, RecvMalformed, Refuse, RecvError, RecvEof
  <2> QED  BY <2>1, <2>2 DEF ServerInv
<1>6. CASE UNCHANGED vars
  BY <1>6 DEF ServerInv, vars, serverVars
<1> QED  BY <1>1, <1>2, <1>3, <1>4, <1>5, <1>6 DEF Next, MainThread, Terminated

-----------------------------------------------------------------------------
(* What each step does to the socket set.                                  *)

(* accept and socket_set_add: the descriptor was free, so that it is not   *)
(* in the set, and it takes a free entry other than 0.                     *)
LEMMA AcceptedFacts ==
  ASSUME ServerInv, HandleServer, ServerSock \in states, backlog # << >>,
         {fd \in Fd : fds[fd] = Free} # {}
  PROVE  LET c == Head(backlog)
             fd == Min({f \in Fd : fds[f] = Free})
             id == SetAdd(ss, fd).id
         IN  /\ fd \in Fd /\ fds[fd] = Free /\ fd \notin Sockets(ss)
             /\ c \in Conn /\ c = backlog[1]
             /\ backlog' = Tail(backlog)
             /\ ss' \in SocketSetType(MaxClients + 1, Fd)
             /\ SetConsistent(ss')
             /\ \/ /\ ss' = ss
                   /\ net' = [net EXCEPT ![c] = IF @ = "open" THEN "fin" ELSE @]
                   /\ UNCHANGED << fds, leftover, outq >>
                \/ /\ id \in Entry /\ ss.socks[id] = NoSocket
                   /\ ss'.socks = [ss.socks EXCEPT ![id] = fd]
                   /\ fds' = [fds EXCEPT ![fd] = c]
                   /\ leftover' = [leftover EXCEPT ![id] = NoConn]
                   /\ Queue(c)
                   /\ UNCHANGED net
<1> DEFINE c == Head(backlog)
           free == {f \in Fd : fds[f] = Free}
           fd == Min(free)
           added == SetAdd(ss, fd)
           id == added.id
<1> USE ConstantFacts
<1>1. fd \in free
  <2>1. IsFiniteSet(free) /\ free \in SUBSET Int
    <3>1. free \in SUBSET Fd
      OBVIOUS
    <3> HIDE DEF free
    <3>2. IsFiniteSet(free)
      BY <3>1, FS_Subset
    <3> QED  BY <3>1, <3>2
  <2>2. free # {}
    OBVIOUS
  <2> HIDE DEF free
  <2> QED  BY <2>1, <2>2, MinExists
<1>2. fd \in Fd /\ fds[fd] = Free
  BY <1>1
<1>3. main = "accept"
  BY DEF HandleServer
<1> HIDE DEF fd, free
<1>4. fd \notin Sockets(ss)
  <2> SUFFICES ASSUME fd \in Sockets(ss) PROVE FALSE
    OBVIOUS
  <2>1. PICK e \in 0..MaxClients : ss.socks[e] # NoSocket /\ fd = ss.socks[e]
    BY SetFacts DEF Sockets, Occupied
  <2>2. e # 0
    BY <1>2, <1>3, <2>1 DEF ServerInv, SetMatchesDescriptors
  <2>3. e \in Entry
    BY <2>2 DEF Entry
  <2> QED  BY <1>2, <2>1, <2>3, EntryFacts
<1>5. Accepted(c, fd)
  BY DEF HandleServer, fd, free
<1>6. c \in Conn /\ c = backlog[1]
  BY DEF ServerInv, TypeOK
<1>7. /\ added.set \in SocketSetType(MaxClients + 1, Fd)
      /\ SetConsistent(added.set)
      /\ \/ id = -1 /\ added.set = ss
         \/ /\ id \in 0..MaxClients
            /\ ss.socks[id] = NoSocket
            /\ added.set.socks = [ss.socks EXCEPT ![id] = fd]
  <2>1. SetAssumptions(ss, MaxClients + 1, Fd) /\ SetConsistent(ss)
    BY SetFacts DEF ServerInv, SocketSetConsistent
  <2>2. (MaxClients + 1) - 1 = MaxClients
    OBVIOUS
  <2> QED  BY <1>2, <1>4, <2>1, <2>2, SetAddConsistent
<1>8. ss' = added.set /\ backlog' = Tail(backlog)
  BY <1>5 DEF Accepted
<1>9. CASE id = -1
  <2>1. ss' = ss
    BY <1>7, <1>8, <1>9
  <2>2. /\ net' = [net EXCEPT ![c] = IF @ = "open" THEN "fin" ELSE @]
        /\ UNCHANGED << fds, leftover, outq >>
    BY <1>5, <1>9 DEF Accepted
  <2> QED  BY <1>2, <1>4, <1>6, <1>7, <1>8, <2>1, <2>2 DEF fd, free
<1>10. CASE id # -1
  <2>1. id \in 0..MaxClients /\ ss.socks[id] = NoSocket
    BY <1>7, <1>10
  <2>2. id \in Entry
    <3>1. ss.socks[0] # NoSocket
      BY <1>3 DEF ServerInv, SetMatchesDescriptors
    <3> QED  BY <2>1, <3>1 DEF Entry
  <2>3. /\ fds' = [fds EXCEPT ![fd] = c]
        /\ leftover' = [leftover EXCEPT ![id] = NoConn]
        /\ Queue(c)
        /\ UNCHANGED net
    BY <1>5, <1>10 DEF Accepted, ClearEntry
  <2>4. ss'.socks = [ss.socks EXCEPT ![id] = fd]
    BY <1>7, <1>8, <1>10
  <2> QED  BY <1>2, <1>4, <1>6, <1>7, <1>8, <2>1, <2>2, <2>3, <2>4 DEF fd, free
<1> QED  BY <1>9, <1>10

(* socket_set_remove in __handle_client. *)
LEMMA RecvEofFacts ==
  ASSUME ServerInv, RecvEof
  PROVE  /\ i \in Entry /\ ss.socks[i] # NoSocket
         /\ Sock = ss.socks[i] /\ Client = fds[ss.socks[i]]
         /\ ss' \in SocketSetType(MaxClients + 1, Fd)
         /\ SetConsistent(ss')
         /\ ss'.socks = [ss.socks EXCEPT ![i] = NoSocket]
<1> USE ConstantFacts
<1>1. i \in Entry /\ Sock = ss.socks[i] /\ Sock # NoSocket
  BY SetFacts DEF RecvEof, AtReady, AtClient, Sock
<1>2. ss' = SetRemove(ss, ss.socks[i]).set
  BY <1>1 DEF RecvEof, Disconnect
<1>3. i \in DOMAIN ss.socks
  BY <1>1, SetFacts
<1>4. SetAssumptions(ss, MaxClients + 1, Fd) /\ SetConsistent(ss)
  BY SetFacts DEF ServerInv, SocketSetConsistent
<1>5. /\ SetRemove(ss, ss.socks[i]).set \in SocketSetType(MaxClients + 1, Fd)
      /\ SetConsistent(SetRemove(ss, ss.socks[i]).set)
      /\ SetRemove(ss, ss.socks[i]).set.socks = [ss.socks EXCEPT ![i] = NoSocket]
  BY <1>1, <1>3, <1>4, SetRemoveConsistent
<1> QED  BY <1>1, <1>2, <1>5 DEF Client

-----------------------------------------------------------------------------
(* The types.                                                              *)

(* The client that is being visited. *)
LEMMA ClientFacts ==
  ASSUME ServerInv, AtReady \/ main = "refuse" \/ (main = "broadcast" /\ Sock # NoSocket)
  PROVE  /\ i \in Entry /\ Sock = ss.socks[i] /\ Sock # NoSocket
         /\ Sock \in Fd /\ Sock # ServerSock
         /\ Client \in Conn /\ Client = fds[Sock]
<1>1. i \in Entry
  BY DEF ServerInv, IndexInv, AtReady, AtClient
<1>2. Sock = ss.socks[i]
  BY <1>1, SetFacts DEF Sock
<1>3. Sock # NoSocket
  BY <1>2 DEF ServerInv, IndexInv, AtReady
<1> QED  BY <1>1, <1>2, <1>3, EntryFacts DEF Client

LEMMA QueueType ==
  ASSUME TypeOK, NEW c \in Conn, CanSend(c), Queue(c)
  PROVE  /\ outq' \in [Conn -> 0..SendCap]
         /\ \A d \in Conn : d # c => outq'[d] = outq[d]
  BY ConstantFacts DEF TypeOK, CanSend, Queue

LEMMA NextClientType ==
  ASSUME TypeOK, i \in Entry, NextClient
  PROVE  main' \in Main /\ i' \in 0..MaxClients /\ states' \in SUBSET Fd
<1>1. CASE i < MaxClients
  <2>1. main' = "clients" /\ i' = i + 1 /\ states' = states
    BY <1>1 DEF NextClient
  <2>2. i + 1 \in 0..MaxClients
    BY <1>1, ConstantFacts DEF Entry
  <2> QED  BY <2>1, <2>2 DEF Main, TypeOK
<1>2. CASE ~(i < MaxClients)
  <2>1. main' = "loop" /\ i' = 0 /\ states' = {}
    BY <1>2 DEF NextClient
  <2> QED  BY <2>1, ConstantFacts DEF Main
<1> QED  BY <1>1, <1>2

LEMMA RemoveFacts ==
  ASSUME NEW S, NEW s \in Seq(S), NEW k \in DOMAIN s
  PROVE  LET t == SubSeq(s, 1, k - 1) \o SubSeq(s, k + 1, Len(s))
         IN  /\ t \in Seq(S)
             /\ Len(t) = Len(s) - 1
             /\ \A j \in 1..Len(t) : t[j] = IF j < k THEN s[j] ELSE s[j + 1]
<1> DEFINE a == SubSeq(s, 1, k - 1)
           b == SubSeq(s, k + 1, Len(s))
<1>1. Len(s) \in Nat /\ k \in 1..Len(s)
  OBVIOUS
<1>2. a \in Seq(S) /\ Len(a) = k - 1 /\ \A j \in 1..(k - 1) : a[j] = s[j]
  BY <1>1
<1>3. b \in Seq(S) /\ Len(b) = Len(s) - k /\ \A j \in 1..(Len(s) - k) : b[j] = s[k + j]
  BY <1>1
<1> HIDE DEF a, b
<1>4. /\ a \o b \in Seq(S)
      /\ Len(a \o b) = Len(a) + Len(b)
      /\ \A j \in 1..(Len(a) + Len(b)) :
           (a \o b)[j] = IF j <= Len(a) THEN a[j] ELSE b[j - Len(a)]
  BY <1>2, <1>3
<1>5. \A j \in 1..(Len(s) - 1) : (a \o b)[j] = IF j < k THEN s[j] ELSE s[j + 1]
  <2> SUFFICES ASSUME NEW j \in 1..(Len(s) - 1)
               PROVE  (a \o b)[j] = IF j < k THEN s[j] ELSE s[j + 1]
    OBVIOUS
  <2>1. CASE j < k
    BY <1>1, <1>2, <1>3, <1>4, <2>1
  <2>2. CASE j >= k
    <3>1. j - (k - 1) \in 1..(Len(s) - k) /\ ~(j <= k - 1)
      BY <1>1, <2>2
    <3>2. (a \o b)[j] = b[j - (k - 1)]
      <4>1. Len(a) = k - 1 /\ j \in 1..(Len(a) + Len(b))
        BY <1>1, <1>2, <1>3
      <4> QED  BY <1>4, <3>1, <4>1
    <3>3. b[j - (k - 1)] = s[k + (j - (k - 1))] /\ k + (j - (k - 1)) = j + 1
      BY <1>1, <1>3, <3>1
    <3>4. ~(j < k)
      BY <1>1, <2>2
    <3> QED  BY <3>2, <3>3, <3>4
  <2>3. j < k \/ j >= k
    BY <1>1
  <2> QED  BY <2>1, <2>2, <2>3
<1>6. Len(a \o b) = Len(s) - 1
  BY <1>1, <1>2, <1>3, <1>4
<1> QED  BY <1>4, <1>5, <1>6 DEF a, b

LEMMA TypeNext ==
  ASSUME ServerInv, [Next]_vars
  PROVE  TypeOK'
<1> USE ConstantFacts
<1>0. TypeOK
  BY DEF ServerInv
<1>1. ASSUME NEW c \in Conn, Connect(c) \/ Send(c) \/ Read(c) \/ Leave(c)
      PROVE  TypeOK'
  <2>1. CASE Connect(c)
    BY <1>0, <2>1 DEF TypeOK, Connect, serverVars
  <2>2. CASE Send(c)
    <3>1. inq' \in [Conn -> 0..MaxIn]
      BY <1>0, <2>2 DEF TypeOK, Send
    <3> QED  BY <1>0, <2>2, <3>1 DEF TypeOK, Send, serverVars
  <2>3. CASE Read(c)
    <3>1. outq' \in [Conn -> 0..SendCap]
      BY <1>0, <2>3 DEF TypeOK, Read
    <3> QED  BY <1>0, <2>3, <3>1 DEF TypeOK, Read, serverVars
  <2>4. CASE Leave(c)
    BY <1>0, <2>4 DEF TypeOK, Leave, serverVars
  <2> QED  BY <1>1, <2>1, <2>2, <2>3, <2>4
<1>2. ASSUME NEW c \in Conn, Abort(c)
      PROVE  TypeOK'
  <2>1. backlog' \in Seq(Conn)
    <3>1. PICK k \in DOMAIN backlog :
             backlog' = SubSeq(backlog, 1, k - 1) \o SubSeq(backlog, k + 1, Len(backlog))
      BY <1>2 DEF Abort
    <3> QED  BY <1>0, <3>1, RemoveFacts DEF TypeOK
  <2> QED  BY <1>0, <1>2, <2>1 DEF TypeOK, Abort, serverVars
<1>3. CASE Interrupt \/ ThreadExit
  BY <1>0, <1>3 DEF TypeOK, Interrupt, ThreadExit, ExitWake, ExitLock, ExitStore, ExitUnlock,
       serverVars, kernelVars
<1>4. CASE Lock \/ Check \/ Unlock \/ Join
  BY <1>0, <1>4 DEF TypeOK, Main, Lock, Check, Unlock, Join, kernelVars
<1>5. CASE Select
  <2>1. SelectResult \in SUBSET Fd
    BY SetFacts DEF SelectResult
  <2> QED  BY <1>0, <1>5, <2>1 DEF TypeOK, Main, Select, kernelVars
<1>6. CASE HandleServer
  <2>1. main' \in Main /\ i' \in 0..MaxClients
    BY <1>6 DEF HandleServer, Main
  <2>2. CASE UNCHANGED << ss, leftover, fds, backlog, net, outq >>
    BY <1>0, <1>6, <2>1, <2>2 DEF TypeOK, HandleServer
  <2>3. CASE ServerSock \in states /\ backlog # << >> /\ {fd \in Fd : fds[fd] = Free} # {}
    <3> DEFINE c == Head(backlog)
    <3>1. c \in Conn /\ backlog' \in Seq(Conn) /\ ss' \in SocketSetType(MaxClients + 1, Fd)
      <4>1. c \in Conn /\ backlog' = Tail(backlog) /\ ss' \in SocketSetType(MaxClients + 1, Fd)
        BY <1>6, <2>3, AcceptedFacts
      <4>2. Tail(backlog) \in Seq(Conn)
        BY <1>0, <2>3 DEF TypeOK
      <4> QED  BY <4>1, <4>2
    <3>2. net' \in [Conn -> {"new", "open", "fin", "rst", "aborted"}]
      BY <1>0, <1>6, <2>3, <3>1, AcceptedFacts DEF TypeOK
    <3>3. leftover' \in [Entry -> Conn \union {NoConn}]
      BY <1>0, <1>6, <2>3, AcceptedFacts DEF TypeOK
    <3>4. fds' \in [Fd -> Conn \union {Listening, Free}]
      BY <1>0, <1>6, <2>3, <3>1, AcceptedFacts DEF TypeOK
    <3>5. outq' \in [Conn -> 0..SendCap]
      <4>1. CanSend(c)
        <5>1. outq[c] = 0
          BY <1>0, <2>3, <3>1 DEF ServerInv, ConnInv, TypeOK
        <5> QED  BY <5>1 DEF CanSend
      <4>2. outq' = outq \/ Queue(c)
        BY <1>6, <2>3, AcceptedFacts
      <4> QED  BY <1>0, <3>1, <4>1, <4>2, QueueType DEF TypeOK
    <3> QED  BY <1>0, <1>6, <2>1, <3>1, <3>2, <3>3, <3>4, <3>5 DEF TypeOK, HandleServer
  <2> QED  BY <1>6, <2>2, <2>3 DEF HandleServer
<1>7. CASE SkipClient
  <2>1. main' \in Main /\ i' \in 0..MaxClients /\ states' \in SUBSET Fd
    BY <1>0, <1>7, NextClientType DEF SkipClient, AtClient
  <2>2. leftover' \in [Entry -> Conn \union {NoConn}]
    BY <1>0, <1>7 DEF TypeOK, SkipClient, AtClient
  <2> QED  BY <1>0, <1>7, <2>1, <2>2 DEF TypeOK, SkipClient, kernelVars
<1>8. CASE RecvData \/ RecvMalformed \/ RecvError
  <2>1. AtReady
    BY <1>8 DEF RecvData, RecvMalformed, RecvError
  <2>2. i \in Entry /\ Client \in Conn
    BY <2>1, ClientFacts
  <2>3. main' \in Main /\ i' \in 0..MaxClients /\ states' \in SUBSET Fd
    BY <1>0, <1>8, <2>2, NextClientType DEF RecvData, RecvMalformed, RecvError, TypeOK, Main
  <2>4. /\ leftover' \in [Entry -> Conn \union {NoConn}]
        /\ net' \in [Conn -> {"new", "open", "fin", "rst", "aborted"}]
    <3>1. CASE RecvData
      <4>1. /\ leftover' \in {[leftover EXCEPT ![i] = o] : o \in {Client, NoConn}}
            /\ net' = net
        BY <3>1 DEF RecvData
      <4>2. \A o \in {Client, NoConn} :
               [leftover EXCEPT ![i] = o] \in [Entry -> Conn \union {NoConn}]
        BY <1>0, <2>2 DEF TypeOK
      <4> QED  BY <1>0, <4>1, <4>2, Zenon DEF TypeOK
    <3>2. CASE RecvMalformed
      BY <1>0, <3>2 DEF RecvMalformed, TypeOK
    <3>3. CASE RecvError
      BY <1>0, <2>2, <3>3 DEF RecvError, TypeOK
    <3> QED  BY <1>8, <3>1, <3>2, <3>3
  <2>5. inq' \in [Conn -> 0..MaxIn]
    <3>1. CASE RecvData \/ RecvMalformed
      <4>1. inq[Client] \in 1..MaxIn /\ inq[Client] - 1 \in 0..MaxIn
        BY <1>0, <2>2, <3>1 DEF RecvData, RecvMalformed, TypeOK
      <4>2. inq' = [inq EXCEPT ![Client] = inq[Client] - 1]
        BY <3>1 DEF RecvData, RecvMalformed
      <4> QED  BY <1>0, <4>1, <4>2 DEF TypeOK
    <3>2. CASE RecvError
      <4>1. inq' = [inq EXCEPT ![Client] = 0]
        BY <3>2 DEF RecvError
      <4>2. 0 \in 0..MaxIn /\ inq \in [Conn -> 0..MaxIn]
        BY <1>0 DEF TypeOK
      <4> QED  BY <4>1, <4>2
    <3> QED  BY <1>8, <3>1, <3>2
  <2> QED  BY <1>0, <1>8, <2>3, <2>4, <2>5 DEF RecvData, RecvMalformed, RecvError, TypeOK
<1>9. CASE Refuse
  <2>1. i \in Entry /\ Client \in Conn
    BY <1>9, ClientFacts DEF Refuse
  <2>2. main' \in Main /\ i' \in 0..MaxClients /\ states' \in SUBSET Fd
    BY <1>0, <1>9, <2>1, NextClientType DEF Refuse
  <2>3. outq' \in [Conn -> 0..SendCap]
    BY <1>0, <1>9, <2>1, QueueType DEF Refuse
  <2> QED  BY <1>0, <1>9, <2>1, <2>2, <2>3 DEF Refuse, TypeOK
<1>10. CASE RecvEof
  <2>1. i \in Entry /\ Client \in Conn /\ ss' \in SocketSetType(MaxClients + 1, Fd)
    BY <1>10, ClientFacts, RecvEofFacts DEF RecvEof
  <2>2. main' \in Main /\ i' \in 0..MaxClients /\ states' \in SUBSET Fd
    BY <1>0, <1>10, <2>1, NextClientType DEF RecvEof
  <2> QED  BY <1>0, <1>10, <2>1, <2>2 DEF RecvEof, Disconnect, TypeOK
<1>11. CASE HandlerLoop
  BY <1>0, <1>11, SetFacts DEF TypeOK, Main, HandlerLoop, kernelVars
<1>12. CASE Broadcast
  <2>1. i \in Entry
    BY <1>12 DEF ServerInv, IndexInv, Broadcast
  <2>2. outq' \in [Conn -> 0..SendCap]
    BY <1>0, <1>12, ClientFacts, QueueType DEF Broadcast, TypeOK
  <2>3. i' \in 0..MaxClients /\ main' \in Main
    BY <1>12, <2>1 DEF Broadcast, Entry, Main
  <2> QED  BY <1>0, <1>12, <2>2, <2>3 DEF Broadcast, TypeOK
<1>13. CASE Close
  <2>1. ss' \in SocketSetType(MaxClients + 1, Fd)
    BY <1>13, SetNewConsistent DEF Close
  <2>2. fds' \in [Fd -> Conn \union {Listening, Free}]
    BY <1>0, <1>13 DEF Close, TypeOK
  <2> QED  BY <1>0, <1>13, <2>1, <2>2 DEF Close, TypeOK, Main
<1>14. CASE UNCHANGED vars
  BY <1>0, <1>14 DEF TypeOK, vars, serverVars, kernelVars
<1> QED  BY <1>1, <1>2, <1>3, <1>4, <1>5, <1>6, <1>7, <1>8, <1>9, <1>10, <1>11, <1>12,
             <1>13, <1>14 DEF Next, Environment, MainThread, HandleClient, Terminated

-----------------------------------------------------------------------------
(* The set, the descriptors and the entries.                               *)

(* The steps that leave the set and the descriptors alone. *)
Quiet ==
  \/ Environment \/ ThreadExit \/ Lock \/ Check \/ Select \/ SkipClient
  \/ RecvData \/ RecvMalformed \/ Refuse \/ RecvError
  \/ HandlerLoop \/ Broadcast \/ Unlock \/ Join \/ UNCHANGED vars

LEMMA QuietFacts ==
  ASSUME Quiet
  PROVE  /\ UNCHANGED << ss, fds, bye >>
         /\ main' = "closed" => main = "closed"
<1>1. CASE Environment
  BY <1>1 DEF Environment, Connect, Abort, Send, Read, Leave, Interrupt, serverVars
<1>2. CASE ThreadExit \/ UNCHANGED vars
  BY <1>2 DEF ThreadExit, ExitWake, ExitLock, ExitStore, ExitUnlock, vars, serverVars, kernelVars
<1>3. CASE Lock \/ Check \/ Select \/ HandlerLoop \/ Unlock \/ Join
  BY <1>3 DEF Lock, Check, Select, HandlerLoop, Unlock, Join, kernelVars
<1>4. CASE SkipClient \/ RecvData \/ RecvMalformed \/ Refuse \/ RecvError \/ Broadcast
  BY <1>4 DEF SkipClient, RecvData, RecvMalformed, Refuse, RecvError, Broadcast, NextClient, kernelVars
<1> QED  BY <1>1, <1>2, <1>3, <1>4 DEF Quiet

LEMMA NextSplit ==
  ASSUME [Next]_vars
  PROVE  Quiet \/ HandleServer \/ RecvEof \/ Close
  BY DEF Next, MainThread, HandleClient, Terminated, Quiet

(* accept that changes nothing but the program counter. *)
LEMMA HandleServerSplit ==
  ASSUME HandleServer
  PROVE  \/ UNCHANGED << ss, leftover, fds, backlog, net, outq >>
         \/ ServerSock \in states /\ backlog # << >> /\ {fd \in Fd : fds[fd] = Free} # {}
  BY DEF HandleServer

LEMMA SetNext ==
  ASSUME ServerInv, [Next]_vars
  PROVE  /\ SocketSetConsistent'
         /\ SetMatchesDescriptors'
         /\ NoOrphanDescriptor'
<1> USE ConstantFacts
<1>0. /\ SocketSetConsistent /\ SetMatchesDescriptors /\ NoOrphanDescriptor /\ TypeOK
      /\ SetConsistent(ss)
  BY DEF ServerInv, SocketSetConsistent
<1>1. CASE Quiet
  <2>1. UNCHANGED << ss, fds, bye >> /\ (main' = "closed" => main = "closed")
    BY <1>1, QuietFacts
  <2>2. SocketSetConsistent' /\ NoOrphanDescriptor'
    BY <1>0, <2>1 DEF SocketSetConsistent, NoOrphanDescriptor
  <2>3. SetMatchesDescriptors'
    <3>1. CASE main = "closed"
      <4>1. Sockets(ss) = {} /\ main' = "closed"
        BY <1>1, <3>1 DEF ServerInv, IndexInv, LockInv, Quiet, Environment, Connect, Abort, Send,
             Read, Leave, Interrupt, Running, ThreadExit, ExitWake, ExitLock, ExitStore, ExitUnlock,
             Lock, Check, Select, SkipClient, RecvData, RecvMalformed, Refuse, RecvError,
             HandlerLoop, Broadcast, Unlock, Join, vars, serverVars, AtReady, AtClient
      <4> QED  BY <4>1 DEF SetMatchesDescriptors
    <3>2. CASE main # "closed"
      BY <1>0, <2>1, <3>2 DEF SetMatchesDescriptors
    <3> QED  BY <3>1, <3>2
  <2> QED  BY <2>2, <2>3
<1>2. CASE HandleServer
  <2>1. main = "accept" /\ main' = "clients" /\ bye' = bye
    BY <1>2 DEF HandleServer
  <2>2. CASE UNCHANGED << ss, fds >>
    BY <1>0, <2>1, <2>2 DEF SocketSetConsistent, SetMatchesDescriptors, NoOrphanDescriptor
  <2>3. CASE ServerSock \in states /\ backlog # << >> /\ {fd \in Fd : fds[fd] = Free} # {}
    <3>1. CASE UNCHANGED << ss, fds >>
      BY <2>2, <3>1
    <3>2. CASE ~UNCHANGED << ss, fds >>
      <4>1. PICK fd \in Fd, id \in Entry :
              /\ fds[fd] = Free /\ fd \notin Sockets(ss)
              /\ ss.socks[id] = NoSocket
              /\ ss'.socks = [ss.socks EXCEPT ![id] = fd]
              /\ fds' = [fds EXCEPT ![fd] = backlog[1]]
              /\ backlog[1] \in Conn
        BY <1>2, <2>3, <3>2, AcceptedFacts
      <4>2. SetConsistent(ss') /\ ss' \in SocketSetType(MaxClients + 1, Fd)
        BY <1>2, <2>3, AcceptedFacts
      <4>3. /\ ss.socks \in [0..MaxClients -> Fd \union {NoSocket}]
            /\ \A e \in 0..MaxClients : ss.socks[e] # NoSocket => ss.socks[e] \in Sockets(ss)
        BY SetFacts
      <4>4. \A e \in 0..MaxClients : ss'.socks[e] = IF e = id THEN fd ELSE ss.socks[e]
        BY <4>1, <4>3
      <4>5. \A f \in Fd : fds'[f] = IF f = fd THEN backlog[1] ELSE fds[f]
        BY <1>0, <4>1 DEF TypeOK
      <4>6. SetMatchesDescriptors'
        <5>1. 0 \in 0..MaxClients /\ id # 0
          OBVIOUS
        <5>2. ss.socks[0] = ServerSock /\ fds[ServerSock] = Listening
          BY <1>0, <2>1 DEF SetMatchesDescriptors
        <5>3. ServerSock # fd
          BY <4>1, <5>2
        <5>4. ss'.socks[0] = ServerSock /\ fds'[ServerSock] = Listening
          BY <4>4, <4>5, <5>1, <5>2, <5>3
        <5>5. \A e \in Entry : ss'.socks[e] # NoSocket => fds'[ss'.socks[e]] \in Conn
          <6> SUFFICES ASSUME NEW e \in Entry, ss'.socks[e] # NoSocket
                       PROVE  fds'[ss'.socks[e]] \in Conn
            OBVIOUS
          <6>1. CASE e = id
            BY <4>1, <4>4, <4>5, <6>1
          <6>2. CASE e # id
            <7>1. ss'.socks[e] = ss.socks[e] /\ ss.socks[e] \in Fd /\ ss.socks[e] # fd
              BY <4>1, <4>3, <4>4, <6>2
            <7> QED  BY <4>5, <7>1, EntryFacts
          <6> QED  BY <6>1, <6>2
        <5> QED  BY <5>4, <5>5, <2>1 DEF SetMatchesDescriptors
      <4>7. NoOrphanDescriptor'
        <5> SUFFICES ASSUME NEW f \in Fd, fds'[f] \in Conn, f \notin Sockets(ss')
                     PROVE  fds'[f] \in bye'
          BY DEF NoOrphanDescriptor
        <5>1. DOMAIN ss'.socks = 0..MaxClients
          BY <4>1, <4>3
        <5>2. fd \in Sockets(ss')
          BY <4>4, <5>1 DEF Sockets, Occupied
        <5>3. f # fd /\ fds'[f] = fds[f]
          BY <5>2, <4>5
        <5>4. f \notin Sockets(ss)
          <6> SUFFICES ASSUME f \in Sockets(ss) PROVE FALSE
            OBVIOUS
          <6>1. PICK e \in 0..MaxClients : ss.socks[e] = f /\ f # NoSocket
            BY <4>3 DEF Sockets, Occupied
          <6>2. ss'.socks[e] = f
            BY <4>1, <4>4, <6>1
          <6> QED  BY <5>1, <6>1, <6>2 DEF Sockets, Occupied
        <5> QED  BY <1>0, <2>1, <5>3, <5>4 DEF NoOrphanDescriptor
      <4> QED  BY <4>2, <4>6, <4>7 DEF SocketSetConsistent
    <3> QED  BY <3>1, <3>2
  <2> QED  BY <1>2, <2>2, <2>3, HandleServerSplit
<1>3. CASE RecvEof
  <2>1. /\ i \in Entry /\ ss.socks[i] # NoSocket /\ Client = fds[ss.socks[i]]
        /\ SetConsistent(ss')
        /\ ss'.socks = [ss.socks EXCEPT ![i] = NoSocket]
    BY <1>3, RecvEofFacts
  <2>2. fds' = fds /\ bye' = bye \union {Client} /\ main # "closed" /\ main' # "closed"
    BY <1>3 DEF RecvEof, Disconnect, AtReady, AtClient, NextClient
  <2>3. ss.socks \in [0..MaxClients -> Fd \union {NoSocket}]
    BY SetFacts
  <2>4. \A e \in 0..MaxClients : ss'.socks[e] = IF e = i THEN NoSocket ELSE ss.socks[e]
    BY <2>1, <2>3
  <2>5. SetMatchesDescriptors'
    <3>1. 0 \in 0..MaxClients /\ i # 0
      BY <2>1
    <3> QED  BY <1>0, <2>2, <2>4, <3>1 DEF SetMatchesDescriptors
  <2>6. NoOrphanDescriptor'
    <3> SUFFICES ASSUME NEW f \in Fd, fds'[f] \in Conn, f \notin Sockets(ss')
                 PROVE  fds'[f] \in bye'
      BY DEF NoOrphanDescriptor
    <3>1. CASE f = ss.socks[i]
      BY <2>1, <2>2, <3>1
    <3>2. CASE f # ss.socks[i]
      <4>1. f \notin Sockets(ss)
        <5> SUFFICES ASSUME f \in Sockets(ss) PROVE FALSE
          OBVIOUS
        <5>1. PICK e \in 0..MaxClients : ss.socks[e] = f /\ f # NoSocket
          BY <2>3 DEF Sockets, Occupied
        <5>2. ss'.socks[e] = f /\ DOMAIN ss'.socks = 0..MaxClients
          BY <2>1, <2>3, <2>4, <3>2, <5>1
        <5> QED  BY <5>1, <5>2 DEF Sockets, Occupied
      <4> QED  BY <1>0, <2>2, <4>1 DEF NoOrphanDescriptor
    <3> QED  BY <3>1, <3>2
  <2> QED  BY <2>1, <2>5, <2>6 DEF SocketSetConsistent
<1>4. CASE Close
  <2>1. /\ ss' = SetNew(MaxClients + 1) /\ main' = "closed" /\ bye' = bye
        /\ fds' = [fd \in Fd |-> IF fd \in Sockets(ss) THEN Free ELSE fds[fd]]
    BY <1>4 DEF Close
  <2>2. SetConsistent(ss')
    BY <2>1, SetNewConsistent
  <2>3. NoOrphanDescriptor'
    BY <1>0, <2>1 DEF NoOrphanDescriptor
  <2> QED  BY <2>1, <2>2, <2>3 DEF SocketSetConsistent, SetMatchesDescriptors
<1> QED  BY <1>1, <1>2, <1>3, <1>4, NextSplit

LEMMA LeftoverNext ==
  ASSUME ServerInv, [Next]_vars
  PROVE  LeftoverBelongsToOwner'
<1> USE ConstantFacts
<1>0. LeftoverBelongsToOwner /\ TypeOK
  BY DEF ServerInv
<1>1. CASE UNCHANGED << ss, fds, leftover >>
  BY <1>0, <1>1 DEF LeftoverBelongsToOwner
<1>2. ASSUME UNCHANGED << ss, fds >>, i \in Entry,
             NEW o, leftover' = [leftover EXCEPT ![i] = o],
             o = NoConn \/ (ss.socks[i] # NoSocket => o = fds[ss.socks[i]])
      PROVE  LeftoverBelongsToOwner'
  <2>1. \A e \in Entry : leftover'[e] = IF e = i THEN o ELSE leftover[e]
    BY <1>0, <1>2 DEF TypeOK
  <2> QED  BY <1>0, <1>2, <2>1 DEF LeftoverBelongsToOwner
<1>3. CASE SkipClient \/ RecvData \/ Refuse \/ RecvError
  <2>1. UNCHANGED << ss, fds >>
    BY <1>3, QuietFacts DEF Quiet
  <2>2. i \in Entry
    BY <1>3, ClientFacts DEF SkipClient, AtClient, RecvData, Refuse, RecvError
  <2>3. CASE UNCHANGED leftover
    BY <1>1, <2>1, <2>3
  <2>4. CASE leftover' = [leftover EXCEPT ![i] = NoConn]
    BY <1>2, <2>1, <2>2, <2>4
  <2>5. CASE RecvData
    <3>1. Client = fds[ss.socks[i]]
      BY <2>5, ClientFacts DEF RecvData
    <3>2. leftover' \in {[leftover EXCEPT ![i] = o] : o \in {Client, NoConn}}
      BY <2>5 DEF RecvData
    <3>3. leftover' = [leftover EXCEPT ![i] = NoConn] \/ leftover' = [leftover EXCEPT ![i] = Client]
      BY <3>2
    <3> QED  BY <1>2, <2>1, <2>2, <3>1, <3>3
  <2> QED  BY <1>3, <2>3, <2>4, <2>5 DEF SkipClient, Refuse, RecvError
<1>4. CASE Environment \/ ThreadExit \/ Lock \/ Check \/ Select \/ RecvMalformed \/ HandlerLoop
           \/ Broadcast \/ Unlock \/ Join \/ UNCHANGED vars
  <2>1. UNCHANGED << ss, fds >>
    BY <1>4, QuietFacts DEF Quiet
  <2>2. UNCHANGED leftover
    BY <1>4 DEF Environment, Connect, Abort, Send, Read, Leave, Interrupt, ThreadExit, ExitWake,
         ExitLock, ExitStore, ExitUnlock, Lock, Check, Select, RecvMalformed, HandlerLoop,
         Broadcast, Unlock, Join, vars, serverVars
  <2> QED  BY <1>1, <2>1, <2>2
<1>5. CASE HandleServer
  <2>1. CASE UNCHANGED << ss, fds, leftover >>
    BY <1>1, <2>1
  <2>2. CASE ServerSock \in states /\ backlog # << >> /\ {fd \in Fd : fds[fd] = Free} # {}
    <3>1. CASE ~UNCHANGED << ss, fds, leftover >>
      <4>1. PICK fd \in Fd, id \in Entry :
              /\ fds[fd] = Free /\ fd \notin Sockets(ss)
              /\ ss'.socks = [ss.socks EXCEPT ![id] = fd]
              /\ fds' = [fds EXCEPT ![fd] = backlog[1]]
              /\ leftover' = [leftover EXCEPT ![id] = NoConn]
        BY <1>5, <2>2, <3>1, AcceptedFacts
      <4>2. ss.socks \in [0..MaxClients -> Fd \union {NoSocket}]
        BY SetFacts
      <4> SUFFICES ASSUME NEW e \in Entry, ss'.socks[e] # NoSocket
                   PROVE  leftover'[e] \in {NoConn, fds'[ss'.socks[e]]}
        BY DEF LeftoverBelongsToOwner
      <4>3. CASE e = id
        BY <1>0, <4>1, <4>3 DEF TypeOK
      <4>4. CASE e # id
        <5>1. ss'.socks[e] = ss.socks[e] /\ leftover'[e] = leftover[e]
          BY <1>0, <4>1, <4>2, <4>4 DEF TypeOK
        <5>2. ss.socks[e] \in Sockets(ss)
          BY <5>1, SetFacts
        <5>3. fds'[ss.socks[e]] = fds[ss.socks[e]]
          BY <1>0, <4>1, <5>2, SetFacts DEF TypeOK
        <5> QED  BY <1>0, <5>1, <5>3 DEF LeftoverBelongsToOwner
      <4> QED  BY <4>3, <4>4
    <3> QED  BY <2>1, <3>1
  <2> QED  BY <1>5, <2>1, <2>2, HandleServerSplit
<1>6. CASE RecvEof
  <2>1. /\ i \in Entry /\ ss'.socks = [ss.socks EXCEPT ![i] = NoSocket]
        /\ UNCHANGED << fds, leftover >>
    BY <1>6, RecvEofFacts DEF RecvEof, Disconnect
  <2>2. \A e \in 0..MaxClients : ss'.socks[e] = IF e = i THEN NoSocket ELSE ss.socks[e]
    BY <2>1, SetFacts
  <2> QED  BY <1>0, <2>1, <2>2 DEF LeftoverBelongsToOwner
<1>7. CASE Close
  <2>1. \A e \in Entry : ss'.socks[e] = NoSocket
    BY <1>7 DEF Close, SetNew
  <2> QED  BY <2>1 DEF LeftoverBelongsToOwner
<1> QED  BY <1>3, <1>4, <1>5, <1>6, <1>7 DEF Next, MainThread, HandleClient, Terminated

LEMMA NextClientFacts ==
  ASSUME i \in Entry, NextClient
  PROVE  \/ main' = "clients" /\ i' = i + 1 /\ i' \in Entry /\ states' = states
         \/ main' = "loop" /\ states' = {}
  BY ConstantFacts DEF NextClient, Entry

LEMMA IndexNext ==
  ASSUME ServerInv, [Next]_vars
  PROVE  IndexInv'
<1> USE ConstantFacts
<1>0. IndexInv
  BY DEF ServerInv
<1>1. CASE Environment \/ ThreadExit \/ UNCHANGED vars
  <2>1. UNCHANGED << main, i, ss >>
    BY <1>1 DEF Environment, Connect, Abort, Send, Read, Leave, Interrupt, ThreadExit, ExitWake,
         ExitLock, ExitStore, ExitUnlock, vars, serverVars
  <2> QED  BY <1>0, <2>1 DEF IndexInv
<1>2. CASE Lock \/ Check \/ Select \/ Unlock \/ Join
  <2>1. main' \in {"check", "select", "stop", "accept", "join", "close"}
    BY <1>2 DEF Lock, Check, Select, Unlock, Join
  <2> QED  BY <2>1 DEF IndexInv
<1>3. CASE HandleServer
  BY <1>3 DEF HandleServer, IndexInv, Entry
<1>4. CASE SkipClient \/ RecvData \/ Refuse \/ RecvError \/ RecvEof
  <2>1. i \in Entry /\ NextClient
    BY <1>4, ClientFacts DEF SkipClient, AtClient, RecvData, Refuse, RecvError, RecvEof
  <2>2. main' \in {"clients", "loop"} /\ (main' = "clients" => i' \in Entry)
    BY <2>1, NextClientFacts
  <2> QED  BY <2>2 DEF IndexInv
<1>5. CASE RecvMalformed
  <2>1. i \in Entry /\ ss.socks[i] # NoSocket
    BY <1>5, ClientFacts DEF RecvMalformed
  <2>2. main' = "refuse" /\ UNCHANGED << i, ss >>
    BY <1>5 DEF RecvMalformed
  <2> QED  BY <2>1, <2>2 DEF IndexInv
<1>6. CASE HandlerLoop
  <2>1. MaxSize(ss) - 1 = MaxClients /\ MaxClients \in Entry
    BY SetFacts DEF Entry
  <2> QED  BY <1>6, <2>1 DEF HandlerLoop, IndexInv
<1>7. CASE Broadcast
  <2>1. i \in Entry
    BY <1>0, <1>7 DEF IndexInv, Broadcast
  <2> QED  BY <1>7, <2>1 DEF Broadcast, IndexInv, Entry
<1>8. CASE Close
  <2>1. Sockets(SetNew(MaxClients + 1)) = {}
    BY SetNewConsistent DEF Sockets
  <2> QED  BY <1>8, <2>1 DEF Close, IndexInv
<1> QED  BY <1>1, <1>2, <1>3, <1>4, <1>5, <1>6, <1>7, <1>8
         DEF Next, MainThread, HandleClient, Terminated

-----------------------------------------------------------------------------
(* The connections.                                                        *)

LEMMA ConnNext ==
  ASSUME ServerInv, [Next]_vars
  PROVE  ConnInv'
<1> USE ConstantFacts
<1>0. ConnInv /\ TypeOK
  BY DEF ServerInv
<1>1. ASSUME UNCHANGED << backlog, fds >>,
             \A c \in Conn : net'[c] = "new" => net[c] = "new",
             \A c \in Conn :
               outq[c] = 0 /\ (\A fd \in Fd : fds[fd] # c) => outq'[c] = 0
      PROVE  ConnInv'
  <2>1. \A k \in DOMAIN backlog : backlog[k] \in Conn
    BY <1>0 DEF TypeOK
  <2>2. \A c \in Conn : net[c] = "new" => \A fd \in Fd : fds[fd] # c
    BY <1>0 DEF ConnInv
  <2> QED  BY <1>0, <1>1, <2>1, <2>2 DEF ConnInv
<1>2. ASSUME NEW c \in Conn, Connect(c)
      PROVE  ConnInv'
  <2>1. /\ net[c] = "new" /\ net' = [net EXCEPT ![c] = "open"]
        /\ backlog' = Append(backlog, c) /\ UNCHANGED << fds, outq >>
    BY <1>2 DEF Connect
  <2>2. /\ DOMAIN backlog' = 1..(Len(backlog) + 1) /\ DOMAIN backlog = 1..Len(backlog)
        /\ \A k \in DOMAIN backlog : backlog'[k] = backlog[k] /\ backlog[k] \in Conn
        /\ backlog'[Len(backlog) + 1] = c
        /\ Len(backlog) \in Nat
    BY <1>0, <2>1 DEF TypeOK
  <2>3. \A d \in Conn : net'[d] = IF d = c THEN "open" ELSE net[d]
    BY <1>0, <2>1 DEF TypeOK
  <2>4. \A k \in DOMAIN backlog : backlog[k] # c
    BY <1>0, <2>1 DEF ConnInv
  <2>5. \A fd \in Fd : fds[fd] # c
    BY <1>0, <2>1 DEF ConnInv
  <2>6. outq[c] = 0
    BY <1>0, <2>1 DEF ConnInv
  <2>7. \A k \in DOMAIN backlog' : k \in DOMAIN backlog \/ (backlog'[k] = c /\ k = Len(backlog) + 1)
    <3>1. \A n \in Nat : \A k \in 1..(n + 1) : k \in 1..n \/ k = n + 1
      OBVIOUS
    <3>2. \A k \in 1..(Len(backlog) + 1) : k \in 1..Len(backlog) \/ k = Len(backlog) + 1
      BY <2>2, <3>1
    <3> QED  BY <2>2, <3>2
  <2>8. \A k \in DOMAIN backlog' :
          /\ \A fd \in Fd : fds'[fd] # backlog'[k]
          /\ \A l \in DOMAIN backlog' : backlog'[k] = backlog'[l] => k = l
          /\ net'[backlog'[k]] # "new" /\ outq'[backlog'[k]] = 0
    BY <1>0, <2>1, <2>2, <2>3, <2>4, <2>5, <2>6, <2>7 DEF ConnInv
  <2>9. \A fd \in Fd : fds'[fd] \in Conn =>
          /\ net'[fds'[fd]] # "new"
          /\ \A other \in Fd : fds'[other] = fds'[fd] => other = fd
    BY <1>0, <2>1, <2>3 DEF ConnInv
  <2>10. \A d \in Conn : net'[d] = "new" => outq'[d] = 0
    BY <1>0, <2>1, <2>3 DEF ConnInv
  <2> QED  BY <2>8, <2>9, <2>10 DEF ConnInv
<1>3. ASSUME NEW c \in Conn, Abort(c)
      PROVE  ConnInv'
  <2>1. net' = [net EXCEPT ![c] = "aborted"] /\ UNCHANGED << fds, outq >>
    BY <1>3 DEF Abort
  <2>2. PICK k \in DOMAIN backlog :
           backlog' = SubSeq(backlog, 1, k - 1) \o SubSeq(backlog, k + 1, Len(backlog))
    BY <1>3 DEF Abort
  <2>3. /\ backlog' \in Seq(Conn) /\ backlog \in Seq(Conn)
        /\ Len(backlog') = Len(backlog) - 1
        /\ \A j \in 1..Len(backlog') :
             backlog'[j] = IF j < k THEN backlog[j] ELSE backlog[j + 1]
    <3>1. backlog \in Seq(Conn)
      BY <1>0 DEF TypeOK
    <3> QED  BY <2>2, <3>1, RemoveFacts
  <2>9. /\ Len(backlog) \in Nat /\ DOMAIN backlog = 1..Len(backlog)
        /\ DOMAIN backlog' = 1..(Len(backlog) - 1)
        /\ \A j \in DOMAIN backlog : backlog[j] \in Conn
    BY <2>3
  <2> DEFINE old(j) == IF j < k THEN j ELSE j + 1
  <2>4. \A j \in DOMAIN backlog' : old(j) \in DOMAIN backlog /\ backlog'[j] = backlog[old(j)]
    <3> SUFFICES ASSUME NEW j \in DOMAIN backlog'
                 PROVE  old(j) \in DOMAIN backlog /\ backlog'[j] = backlog[old(j)]
      OBVIOUS
    <3>1. j \in 1..(Len(backlog) - 1) /\ k \in 1..Len(backlog)
      BY <2>9
    <3>2. old(j) \in 1..Len(backlog)
      BY <2>9, <3>1
    <3>3. backlog'[j] = IF j < k THEN backlog[j] ELSE backlog[j + 1]
      BY <2>3, <3>1
    <3> QED  BY <2>9, <3>2, <3>3
  <2>5. \A j, l \in DOMAIN backlog' : old(j) = old(l) => j = l
    BY <2>3
  <2> HIDE DEF old
  <2>6. \A d \in Conn : net'[d] = "new" => net[d] = "new"
    BY <1>0, <2>1 DEF TypeOK
  <2>7. \A j \in DOMAIN backlog' :
          /\ \A fd \in Fd : fds'[fd] # backlog'[j]
          /\ \A l \in DOMAIN backlog' : backlog'[j] = backlog'[l] => j = l
          /\ net'[backlog'[j]] # "new" /\ outq'[backlog'[j]] = 0
    <3> SUFFICES ASSUME NEW j \in DOMAIN backlog'
                 PROVE  /\ \A fd \in Fd : fds'[fd] # backlog'[j]
                        /\ \A l \in DOMAIN backlog' : backlog'[j] = backlog'[l] => j = l
                        /\ net'[backlog'[j]] # "new" /\ outq'[backlog'[j]] = 0
      OBVIOUS
    <3>1. old(j) \in DOMAIN backlog /\ backlog'[j] = backlog[old(j)] /\ backlog[old(j)] \in Conn
      BY <2>4, <2>9
    <3>2. \A fd \in Fd : fds'[fd] # backlog'[j]
      BY <1>0, <2>1, <3>1 DEF ConnInv
    <3>3. \A l \in DOMAIN backlog' : backlog'[j] = backlog'[l] => j = l
      BY <1>0, <2>4, <2>5, <3>1 DEF ConnInv
    <3>4. net'[backlog'[j]] # "new" /\ outq'[backlog'[j]] = 0
      BY <1>0, <2>1, <2>6, <3>1 DEF ConnInv
    <3> QED  BY <3>2, <3>3, <3>4
  <2>8. /\ \A fd \in Fd : fds'[fd] \in Conn =>
             /\ net'[fds'[fd]] # "new"
             /\ \A other \in Fd : fds'[other] = fds'[fd] => other = fd
        /\ \A d \in Conn : net'[d] = "new" => outq'[d] = 0
    BY <1>0, <2>1, <2>6 DEF ConnInv
  <2> QED  BY <2>7, <2>8 DEF ConnInv
<1>4. ASSUME NEW c \in Conn, Send(c) \/ Read(c) \/ Leave(c)
      PROVE  ConnInv'
  <2>1. UNCHANGED << backlog, fds >>
    BY <1>4 DEF Send, Read, Leave
  <2>2. \A d \in Conn : net'[d] = "new" => net[d] = "new"
    BY <1>0, <1>4 DEF Send, Read, Leave, TypeOK
  <2>3. \A d \in Conn : outq[d] = 0 => outq'[d] = 0
    <3>1. CASE Read(c)
      BY <1>0, <3>1 DEF Read, TypeOK
    <3>2. CASE Send(c) \/ Leave(c)
      BY <3>2 DEF Send, Leave
    <3> QED  BY <1>4, <3>1, <3>2
  <2> QED  BY <1>1, <2>1, <2>2, <2>3
<1>5. CASE \/ Interrupt \/ ThreadExit \/ Lock \/ Check \/ Select \/ SkipClient \/ RecvData
           \/ RecvMalformed \/ RecvEof \/ HandlerLoop \/ Unlock \/ Join \/ UNCHANGED vars
  <2>1. UNCHANGED << backlog, fds, net, outq >>
    BY <1>5 DEF Interrupt, ThreadExit, ExitWake, ExitLock, ExitStore, ExitUnlock, Lock, Check,
         Select, SkipClient, RecvData, RecvMalformed, RecvEof, Disconnect, HandlerLoop, Unlock,
         Join, vars, kernelVars
  <2> QED  BY <1>1, <2>1
<1>6. ASSUME NEW c \in Conn, NEW fd \in Fd, fds[fd] = c, CanSend(c), Queue(c),
             UNCHANGED << backlog, fds, net >>
      PROVE  ConnInv'
  <2>1. \A d \in Conn : d # c => outq'[d] = outq[d]
    BY <1>0, <1>6, QueueType
  <2> QED  BY <1>1, <1>6, <2>1
<1>7. CASE Refuse
  <2>1. Client \in Conn /\ Sock \in Fd /\ fds[Sock] = Client
    BY <1>7, ClientFacts DEF Refuse
  <2>2. CanSend(Client) /\ Queue(Client) /\ UNCHANGED << backlog, fds, net >>
    BY <1>7 DEF Refuse
  <2> QED  BY <1>6, <2>1, <2>2
<1>8. CASE Broadcast
  <2>1. UNCHANGED << backlog, fds, net >>
    BY <1>8 DEF Broadcast
  <2>2. CASE Sock = NoSocket
    <3>1. UNCHANGED outq
      BY <1>8, <2>2 DEF Broadcast
    <3> QED  BY <1>1, <2>1, <3>1
  <2>3. CASE Sock # NoSocket
    <3>1. Client \in Conn /\ Sock \in Fd /\ fds[Sock] = Client
      BY <1>8, <2>3, ClientFacts DEF Broadcast
    <3>2. CanSend(Client) /\ Queue(Client)
      BY <1>8, <2>3 DEF Broadcast
    <3> QED  BY <1>6, <2>1, <3>1, <3>2
  <2> QED  BY <2>2, <2>3
<1>9. CASE RecvError
  <2>1. Client \in Conn
    BY <1>9, ClientFacts DEF RecvError
  <2>2. /\ net' = [net EXCEPT ![Client] = "fin"]
        /\ UNCHANGED << backlog, fds, outq >>
    BY <1>9 DEF RecvError
  <2>3. \A d \in Conn : net'[d] = "new" => net[d] = "new"
    BY <1>0, <2>1, <2>2 DEF TypeOK
  <2> QED  BY <1>1, <2>2, <2>3
<1>10. CASE HandleServer
  <2>1. CASE UNCHANGED << fds, backlog, net, outq >>
    BY <1>1, <2>1
  <2>2. CASE ServerSock \in states /\ backlog # << >> /\ {fd \in Fd : fds[fd] = Free} # {}
    <3> DEFINE c == Head(backlog)
    <3>1. /\ c \in Conn /\ c = backlog[1] /\ backlog' = Tail(backlog)
          /\ backlog \in Seq(Conn) /\ Len(backlog) \in Nat \ {0} /\ 1 \in DOMAIN backlog
      BY <1>0, <1>10, <2>2, AcceptedFacts DEF TypeOK
    <3>2. \A k \in DOMAIN backlog' :
             /\ k + 1 \in DOMAIN backlog /\ backlog'[k] = backlog[k + 1]
             /\ backlog'[k] \in Conn
      BY <3>1
    <3> HIDE DEF c
    <3>3. \A k \in DOMAIN backlog' : backlog'[k] # c
      BY <1>0, <3>1, <3>2 DEF ConnInv
    <3>4. \A k, l \in DOMAIN backlog' : backlog'[k] = backlog'[l] => k = l
      BY <1>0, <3>1, <3>2 DEF ConnInv
    <3>5. net[c] # "new" /\ \A f \in Fd : fds[f] # c
      BY <1>0, <3>1 DEF ConnInv
    <3>6. \A d \in Conn : net'[d] = "new" => net[d] = "new"
      <4>1. net' = [net EXCEPT ![c] = IF @ = "open" THEN "fin" ELSE @] \/ net' = net
        BY <1>10, <2>2, AcceptedFacts DEF c
      <4> QED  BY <1>0, <3>1, <3>5, <4>1 DEF TypeOK
    <3>7. \A d \in Conn : d # c => outq'[d] = outq[d]
      <4>1. outq' = outq \/ Queue(c)
        BY <1>10, <2>2, AcceptedFacts DEF c
      <4> QED  BY <1>0, <3>1, <4>1 DEF Queue, TypeOK
    <3>8. \/ fds' = fds
          \/ \E fd \in Fd : fds' = [fds EXCEPT ![fd] = c]
      BY <1>10, <2>2, AcceptedFacts DEF c
    <3>9. \A f \in Fd : fds'[f] = fds[f] \/ fds'[f] = c
      BY <1>0, <3>8 DEF TypeOK
    <3>10. \A f, g \in Fd : fds'[f] = c /\ fds'[g] = c => f = g
      BY <1>0, <3>5, <3>8 DEF TypeOK
    <3>11. \A k \in DOMAIN backlog' :
             /\ \A f \in Fd : fds'[f] # backlog'[k]
             /\ net'[backlog'[k]] # "new" /\ outq'[backlog'[k]] = 0
      BY <1>0, <3>2, <3>3, <3>6, <3>7, <3>9 DEF ConnInv
    <3>12. \A f \in Fd : fds'[f] \in Conn =>
             /\ net'[fds'[f]] # "new"
             /\ \A g \in Fd : fds'[g] = fds'[f] => g = f
      BY <1>0, <3>5, <3>6, <3>9, <3>10 DEF ConnInv
    <3>13. \A d \in Conn : net'[d] = "new" => outq'[d] = 0
      BY <1>0, <3>5, <3>6, <3>7 DEF ConnInv
    <3> QED  BY <3>4, <3>11, <3>12, <3>13 DEF ConnInv
  <2> QED  BY <1>10, <2>1, <2>2, HandleServerSplit
<1>11. CASE Close
  <2>1. /\ fds' = [fd \in Fd |-> IF fd \in Sockets(ss) THEN Free ELSE fds[fd]]
        /\ UNCHANGED << backlog, net, outq >>
    BY <1>11 DEF Close
  <2>2. \A f \in Fd : fds'[f] = Free \/ fds'[f] = fds[f]
    BY <2>1
  <2>3. \A k \in DOMAIN backlog : backlog[k] \in Conn
    BY <1>0 DEF TypeOK
  <2> QED  BY <1>0, <2>1, <2>2, <2>3 DEF ConnInv
<1> QED  BY <1>2, <1>3, <1>4, <1>5, <1>7, <1>8, <1>9, <1>10, <1>11
         DEF Next, Environment, MainThread, HandleClient, Terminated

-----------------------------------------------------------------------------
(* What select reported.                                                   *)

(* A socket that was readable still is when its descriptor stays and       *)
(* nothing is taken from its connection.                                   *)
LEMMA ReadyKept ==
  ASSUME ServerInv, NEW e \in Entry, ss.socks[e] \in states, Readable(ss.socks[e]),
         ss'.socks[e] = ss.socks[e], fds'[ss.socks[e]] = fds[ss.socks[e]],
         \A c \in Conn : c = fds[ss.socks[e]] =>
           /\ inq[c] > 0 => inq'[c] > 0
           /\ net[c] \in {"fin", "rst"} => net'[c] \in {"fin", "rst"}
           /\ shut[c] => shut'[c]
  PROVE  Readable(ss.socks[e])'
<1>1. states \subseteq Fd
  BY DEF ServerInv, TypeOK
<1>2. ss.socks[e] \in Fd /\ fds[ss.socks[e]] \in Conn
  BY <1>1, EntryFacts, ConstantFacts
<1>3. fds[ss.socks[e]] # Listening
  BY <1>2, ConstantFacts
<1> QED  BY <1>2, <1>3 DEF Readable

(* No two entries lead to the same connection.                             *)
LEMMA EntriesDiffer ==
  ASSUME ServerInv, NEW e \in Entry, NEW f \in Entry, e # f,
         ss.socks[e] # NoSocket, ss.socks[f] # NoSocket
  PROVE  fds[ss.socks[e]] # fds[ss.socks[f]]
<1>1. ss.socks[e] \in Fd /\ ss.socks[f] \in Fd /\ fds[ss.socks[e]] \in Conn
  BY EntryFacts
<1>2. ss.socks[e] # ss.socks[f]
  <2>1. e \in Occupied(ss) /\ f \in Occupied(ss)
    BY SetFacts, ConstantFacts DEF Occupied, Entry
  <2> QED  BY <2>1 DEF ServerInv, SocketSetConsistent, SetConsistent
<1> QED  BY <1>1, <1>2 DEF ServerInv, ConnInv

LEMMA ReadyNext ==
  ASSUME ServerInv, [Next]_vars
  PROVE  ReadyInv'
<1> USE ConstantFacts
<1>0. ReadyInv /\ TypeOK /\ IndexInv
  BY DEF ServerInv
<1>1. ASSUME main' \notin {"accept", "clients", "refuse"}
      PROVE  ReadyInv'
  BY <1>1 DEF ReadyInv, Ahead
<1>2. CASE Environment \/ ThreadExit \/ UNCHANGED vars
  <2>1. /\ UNCHANGED << ss, main, i, states, fds, shut >>
    BY <1>2, QuietFacts DEF Environment, Connect, Abort, Send, Read, Leave, Interrupt, ThreadExit,
         ExitWake, ExitLock, ExitStore, ExitUnlock, vars, serverVars, kernelVars
  <2>2. \A c \in Conn : net[c] \in {"fin", "rst"} => net'[c] \in {"fin", "rst"}
    <3>1. CASE UNCHANGED net
      BY <3>1
    <3>2. CASE \E c \in Conn : Connect(c) \/ Abort(c) \/ Leave(c)
      BY <1>0, <3>2 DEF Connect, Abort, Leave, TypeOK
    <3> QED  BY <1>2, <3>1, <3>2 DEF Environment, Send, Read, Interrupt, ThreadExit, ExitWake,
                 ExitLock, ExitStore, ExitUnlock, vars, kernelVars
  <2>3. \A c \in Conn : inq[c] > 0 => inq'[c] > 0
    <3>1. CASE UNCHANGED inq
      BY <3>1
    <3>2. ASSUME NEW c \in Conn, Send(c)
          PROVE  \A d \in Conn : inq[d] > 0 => inq'[d] > 0
      BY <1>0, <3>2 DEF Send, TypeOK
    <3> QED  BY <1>2, <3>1, <3>2 DEF Environment, Connect, Abort, Read, Leave, Interrupt,
                 ThreadExit, ExitWake, ExitLock, ExitStore, ExitUnlock, vars, kernelVars
  <2>4. Ahead' = Ahead
    BY <2>1 DEF Ahead
  <2>5. Ahead \subseteq Entry
    BY DEF Ahead
  <2>6. \A e \in Ahead' : (ss.socks[e])' \in states' => Readable(ss.socks[e])'
    BY <1>0, <2>1, <2>2, <2>3, <2>4, <2>5, ReadyKept DEF ReadyInv
  <2>7. main' = "accept" => states' \subseteq Sockets(ss')
    BY <1>0, <2>1 DEF ReadyInv
  <2> QED  BY <2>6, <2>7 DEF ReadyInv
<1>3. CASE Lock \/ Check \/ HandlerLoop \/ Broadcast \/ Unlock \/ Join \/ Close
  BY <1>1, <1>3 DEF Lock, Check, HandlerLoop, Broadcast, Unlock, Join, Close
<1>4. CASE Select
  <2>1. main' = "accept" /\ states' = SelectResult /\ UNCHANGED << ss, fds, inq, net, shut, backlog >>
    BY <1>4 DEF Select, kernelVars
  <2>2. main # "closed"
    BY <1>4 DEF Select
  <2>3. \A fd \in Sockets(ss) : fds[fd] # Free
    <3> SUFFICES ASSUME NEW e \in Occupied(ss)
                 PROVE  fds[ss.socks[e]] # Free
      BY DEF Sockets
    <3>1. e = 0 \/ e \in Entry
      BY SetFacts DEF Occupied, Entry
    <3>2. CASE e = 0
      BY <2>2, <3>2 DEF ServerInv, SetMatchesDescriptors
    <3>3. CASE e \in Entry
      BY <3>3, EntryFacts DEF Occupied
    <3> QED  BY <3>1, <3>2, <3>3
  <2>4. SelectResult \subseteq Sockets(ss) /\ \A fd \in SelectResult : Readable(fd)
    BY <2>3 DEF SelectResult
  <2>5. states' \subseteq Sockets(ss')
    BY <2>1, <2>4
  <2>7. \A e \in Entry : (ss.socks[e])' \in states' => Readable(ss.socks[e])'
    BY <2>1, <2>4 DEF Readable
  <2>8. Ahead' \subseteq Entry
    BY DEF Ahead
  <2> QED  BY <2>5, <2>7, <2>8 DEF ReadyInv
(* The loop gets past entry i: nothing has changed for the entries behind  *)
(* it but what belongs to the client of i.                                 *)
<1>5. ASSUME i \in Entry, ss.socks[i] # NoSocket, main \in {"clients", "refuse"},
             \/ main' = "clients" /\ i' = i + 1
             \/ main' = "refuse" /\ i' = i,
             states' = states, fds' = fds,
             \A e \in Entry : e # i => ss'.socks[e] = ss.socks[e],
             \A c \in Conn : c # fds[ss.socks[i]] =>
               /\ inq'[c] = inq[c] /\ net'[c] = net[c] /\ shut'[c] = shut[c]
      PROVE  ReadyInv'
  <2>1. \A e \in Ahead' : e \in Entry /\ e # i /\ e \in Ahead
    BY <1>5 DEF Ahead, Entry
  <2>2. ASSUME NEW e \in Ahead', (ss.socks[e])' \in states'
        PROVE  Readable(ss.socks[e])'
    <3>1. e \in Entry /\ e # i /\ e \in Ahead /\ ss'.socks[e] = ss.socks[e]
      BY <1>5, <2>1
    <3>2. ss.socks[e] \in states /\ Readable(ss.socks[e])
      BY <1>0, <1>5, <2>2, <3>1 DEF ReadyInv
    <3>3. ss.socks[e] # NoSocket
      BY <1>0, <3>2 DEF TypeOK
    <3>4. fds[ss.socks[e]] # fds[ss.socks[i]]
      BY <1>5, <3>1, <3>3, EntriesDiffer
    <3>5. fds'[ss.socks[e]] = fds[ss.socks[e]]
      BY <1>5
    <3> QED  BY <1>5, <3>1, <3>2, <3>4, <3>5, ReadyKept
  <2>3. main' # "accept"
    BY <1>5
  <2> QED  BY <2>2, <2>3 DEF ReadyInv
<1>6. ASSUME i \in Entry, ss.socks[i] # NoSocket, main \in {"clients", "refuse"}, NextClient,
             fds' = fds,
             \A e \in Entry : e # i => ss'.socks[e] = ss.socks[e],
             \A c \in Conn : c # fds[ss.socks[i]] =>
               /\ inq'[c] = inq[c] /\ net'[c] = net[c] /\ shut'[c] = shut[c]
      PROVE  ReadyInv'
  <2>1. CASE main' = "clients" /\ i' = i + 1 /\ states' = states
    BY <1>5, <1>6, <2>1
  <2>2. CASE main' = "loop"
    BY <1>1, <2>2
  <2> QED  BY <1>6, <2>1, <2>2, NextClientFacts
<1>7. CASE SkipClient
  <2>1. i \in Entry /\ main = "clients" /\ NextClient /\ UNCHANGED << ss, fds, inq, net, shut >>
    BY <1>7 DEF SkipClient, AtClient, kernelVars
  <2>2. CASE main' = "clients" /\ i' = i + 1 /\ states' = states
    <3>1. \A e \in Ahead' : e \in Entry /\ e \in Ahead
      BY <2>1, <2>2 DEF Ahead, Entry
    <3>2. ASSUME NEW e \in Ahead', (ss.socks[e])' \in states'
          PROVE  Readable(ss.socks[e])'
      <4>1. e \in Entry /\ ss.socks[e] \in states /\ Readable(ss.socks[e])
        BY <1>0, <2>1, <2>2, <3>1, <3>2 DEF ReadyInv
      <4> QED  BY <2>1, <4>1, ReadyKept
    <3> QED  BY <2>2, <3>2 DEF ReadyInv
  <2>3. CASE main' = "loop"
    BY <1>1, <2>3
  <2> QED  BY <2>1, <2>2, <2>3, NextClientFacts
<1>8. CASE RecvData \/ Refuse \/ RecvError \/ RecvEof
  <2>1. /\ i \in Entry /\ Sock = ss.socks[i] /\ ss.socks[i] # NoSocket /\ NextClient
        /\ Client \in Conn /\ Client = fds[ss.socks[i]] /\ main \in {"clients", "refuse"}
        /\ UNCHANGED fds
    BY <1>8, ClientFacts DEF RecvData, Refuse, RecvError, RecvEof, AtReady, AtClient, Disconnect
  <2>2. \A e \in Entry : e # i => ss'.socks[e] = ss.socks[e]
    <3>1. CASE RecvEof
      BY <3>1, RecvEofFacts, SetFacts DEF Entry
    <3>2. CASE RecvData \/ Refuse \/ RecvError
      BY <3>2 DEF RecvData, Refuse, RecvError
    <3> QED  BY <1>8, <3>1, <3>2
  <2>3. \A c \in Conn : c # Client =>
          /\ inq'[c] = inq[c] /\ net'[c] = net[c] /\ shut'[c] = shut[c]
    BY <1>0, <1>8, <2>1 DEF RecvData, Refuse, RecvError, RecvEof, TypeOK
  <2> QED  BY <1>6, <2>1, <2>2, <2>3
<1>9. CASE RecvMalformed
  <2>1. /\ i \in Entry /\ ss.socks[i] # NoSocket /\ Client \in Conn /\ Client = fds[ss.socks[i]]
        /\ main = "clients" /\ main' = "refuse" /\ UNCHANGED << ss, i, states, fds, net, shut >>
        /\ inq' = [inq EXCEPT ![Client] = @ - 1]
    BY <1>9, ClientFacts DEF RecvMalformed, AtReady, AtClient
  <2>2. \A c \in Conn : c # Client => inq'[c] = inq[c]
    BY <1>0, <2>1 DEF TypeOK
  <2> QED  BY <1>5, <2>1, <2>2
<1>10. CASE HandleServer
  <2>1. main = "accept" /\ main' = "clients" /\ i' = 1 /\ UNCHANGED << states, inq, shut >>
    BY <1>10 DEF HandleServer
  <2>2. Ahead = Entry /\ Ahead' = Entry
    BY <2>1 DEF Ahead, Entry
  <2>3. CASE UNCHANGED << ss, fds, net >>
    <3>1. ASSUME NEW e \in Entry, (ss.socks[e])' \in states'
          PROVE  Readable(ss.socks[e])'
      <4>1. ss.socks[e] \in states /\ Readable(ss.socks[e])
        BY <1>0, <2>1, <2>2, <2>3, <3>1 DEF ReadyInv
      <4> QED  BY <2>1, <2>3, <4>1, ReadyKept
    <3> QED  BY <2>1, <2>2, <3>1 DEF ReadyInv
  <2>4. CASE ServerSock \in states /\ backlog # << >> /\ {fd \in Fd : fds[fd] = Free} # {}
    <3>1. CASE UNCHANGED << ss, fds >> /\ net' = [net EXCEPT ![Head(backlog)] =
                                                    IF @ = "open" THEN "fin" ELSE @]
      <4>1. \A c \in Conn : net[c] \in {"fin", "rst"} => net'[c] \in {"fin", "rst"}
        BY <1>0, <3>1 DEF TypeOK
      <4>2. ASSUME NEW e \in Entry, (ss.socks[e])' \in states'
            PROVE  Readable(ss.socks[e])'
        <5>1. ss.socks[e] \in states /\ Readable(ss.socks[e])
          BY <1>0, <2>1, <2>2, <3>1, <4>2 DEF ReadyInv
        <5> QED  BY <2>1, <3>1, <4>1, <5>1, ReadyKept
      <4> QED  BY <2>1, <2>2, <4>2 DEF ReadyInv
    <3>2. ASSUME NEW fd \in Fd, NEW id \in Entry, NEW c, fd \notin Sockets(ss),
                 ss'.socks = [ss.socks EXCEPT ![id] = fd],
                 fds' = [fds EXCEPT ![fd] = c], UNCHANGED net
          PROVE  ReadyInv'
      <4>1. ASSUME NEW e \in Entry, (ss.socks[e])' \in states'
            PROVE  Readable(ss.socks[e])'
        <5>1. ss'.socks[e] \in Sockets(ss)
          BY <1>0, <2>1, <4>1 DEF ReadyInv
        <5>2. e # id /\ ss'.socks[e] = ss.socks[e]
          BY <3>2, <5>1, SetFacts DEF Entry
        <5>3. ss.socks[e] \in states /\ Readable(ss.socks[e])
          BY <1>0, <2>1, <2>2, <4>1, <5>2 DEF ReadyInv
        <5>4. fds'[ss.socks[e]] = fds[ss.socks[e]]
          BY <3>2, <5>1, <5>2
        <5> QED  BY <2>1, <3>2, <5>2, <5>3, <5>4, ReadyKept
      <4> QED  BY <2>1, <2>2, <4>1 DEF ReadyInv
    <3>3. CASE UNCHANGED net /\ \E fd \in Fd, id \in Entry :
                 /\ fd \notin Sockets(ss)
                 /\ ss'.socks = [ss.socks EXCEPT ![id] = fd]
                 /\ fds' = [fds EXCEPT ![fd] = Head(backlog)]
      BY <3>2, <3>3
    <3> QED  BY <1>10, <2>4, <3>1, <3>3, AcceptedFacts
  <2> QED  BY <1>10, <2>3, <2>4, HandleServerSplit
<1> QED  BY <1>2, <1>3, <1>4, <1>7, <1>8, <1>9, <1>10
         DEF Next, MainThread, HandleClient, Terminated

-----------------------------------------------------------------------------
(* The theorems.                                                           *)

LEMMA InvNext ==
  ASSUME ServerInv, [Next]_vars
  PROVE  ServerInv'
BY TypeNext, SetNext, LeftoverNext, LockNext, IndexNext, ConnNext, ReadyNext DEF ServerInv

(* The inductive invariant: whatever the number of clients, descriptors    *)
(* and connections, server_run stays in the states ServerInv describes.    *)
THEOREM Invariance == Spec => []ServerInv
<1>1. Init => ServerInv
  BY InitInv
<1>2. ServerInv /\ [Next]_vars => ServerInv'
  BY InvNext
<1> QED  BY <1>1, <1>2, PTL DEF Spec

(* The variables of the event loop and of the kernel keep their ranges;    *)
(* no index leaves the array of clients of server.c.                       *)
THEOREM TypeCorrect == Spec => []TypeOK
<1>1. ServerInv => TypeOK
  BY DEF ServerInv
<1> QED  BY <1>1, Invariance, PTL

(* The entry count and the maximum of the socket set are right after any   *)
(* history of socket_set_add and socket_set_remove.                        *)
THEOREM SetStaysConsistent == Spec => []SocketSetConsistent
<1>1. ServerInv => SocketSetConsistent
  BY DEF ServerInv
<1> QED  BY <1>1, Invariance, PTL

(* The set holds open descriptors only, with the listening socket first,   *)
(* so that the select of __run never fails on a bad one.                   *)
THEOREM SetStaysOpen == Spec => []SetMatchesDescriptors
<1>1. ServerInv => SetMatchesDescriptors
  BY DEF ServerInv
<1> QED  BY <1>1, Invariance, PTL

(* The half message in an entry is the one of its client (server.c:144).   *)
THEOREM LeftoverIsPrivate == Spec => []LeftoverBelongsToOwner
<1>1. ServerInv => LeftoverBelongsToOwner
  BY DEF ServerInv
<1> QED  BY <1>1, Invariance, PTL

(* A descriptor outside the set was given up by __handle_client, never by  *)
(* __handle_server.                                                        *)
THEOREM OnlyByeLosesDescriptors == Spec => []NoOrphanDescriptor
<1>1. ServerInv => NoOrphanDescriptor
  BY DEF ServerInv
<1> QED  BY <1>1, Invariance, PTL

(* When server_run returns, the thread of __thread_exit has ended and the  *)
(* mutex it shares with the event loop is free.                            *)
THEOREM ReturnsUnused == Spec => []ClosedWhenUnused
<1>1. TypeOK /\ LockInv => ClosedWhenUnused
  BY DEF TypeOK, LockInv, ClosedWhenUnused
<1>2. ServerInv => ClosedWhenUnused
  BY <1>1 DEF ServerInv
<1> QED  BY <1>2, Invariance, PTL

(* No recv of __handle_client waits: what select reported still holds when *)
(* the loop comes to the entry.                                            *)
THEOREM RecvReturns == Spec => []RecvDoesNotBlock
<1>1. ASSUME ServerInv, AtReady
      PROVE  Readable(Sock)
  <2>1. i \in Entry /\ Sock = ss.socks[i] /\ Sock \in states /\ main = "clients"
    BY <1>1, ClientFacts DEF AtReady, AtClient
  <2>2. i \in Ahead
    BY <2>1, ConstantFacts DEF Ahead, Entry
  <2> QED  BY <1>1, <2>1, <2>2 DEF ServerInv, ReadyInv
<1>2. ServerInv => RecvDoesNotBlock
  BY <1>1 DEF RecvDoesNotBlock
<1> QED  BY <1>2, Invariance, PTL
=============================================================================
