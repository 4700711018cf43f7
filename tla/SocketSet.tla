------------------------------ MODULE SocketSet ------------------------------
(***************************************************************************)
(* The Socket_set of utils/socket.c: a fixed array of descriptors with the *)
(* number of entries in use and the largest descriptor, which select()     *)
(* needs.  Both are maintained incrementally, and neither is checked: the  *)
(* array is written beyond its end when `n` is too small, and sockets are  *)
(* silently not selected when `max_fd` is.                                 *)
(*                                                                         *)
(* A set is a record; the operations return the new record and the result. *)
(***************************************************************************)
EXTENDS Integers, FiniteSets, FiniteSetsExt

NoSocket == -1

SocketSetType(size, Fd) ==
  [socks : [0..(size - 1) -> Fd \union {NoSocket}], n : Int, max_fd : Int]

MaxSize(ss) == Cardinality(DOMAIN ss.socks)

SetNew(size) ==
  [socks |-> [i \in 0..(size - 1) |-> NoSocket], n |-> 0, max_fd |-> 0]

Holding(ss, sock) == {i \in DOMAIN ss.socks : ss.socks[i] = sock}
Occupied(ss) == {i \in DOMAIN ss.socks : ss.socks[i] # NoSocket}
Sockets(ss) == {ss.socks[i] : i \in Occupied(ss)}

(* socket_set_add without the test on the number of entries: the loop ends *)
(* at max_n, one past the array; the write is lost, the counts are not.    *)
SetAdd_NoCapacityTest(ss, sock) ==
  IF sock < 0
  THEN [set |-> ss, id |-> -1]
  ELSE LET free == Holding(ss, NoSocket)
           i == IF free = {} THEN MaxSize(ss) ELSE Min(free)
       IN  [set |-> [socks  |-> [j \in DOMAIN ss.socks |-> IF j = i THEN sock ELSE ss.socks[j]],
                     n      |-> ss.n + 1,
                     max_fd |-> IF sock > ss.max_fd THEN sock ELSE ss.max_fd],
            id  |-> i]

(* socket_set_add: the first free entry, or -1. *)
SetAdd(ss, sock) ==
  IF sock < 0 \/ ss.n = MaxSize(ss)
  THEN [set |-> ss, id |-> -1]
  ELSE LET i == Min(Holding(ss, NoSocket))
       IN  [set |-> [socks  |-> [ss.socks EXCEPT ![i] = sock],
                     n      |-> ss.n + 1,
                     max_fd |-> IF sock > ss.max_fd THEN sock ELSE ss.max_fd],
            id  |-> i]

(* socket_set_remove that does not look for the new maximum. *)
SetRemove_MaxKept(ss, sock) ==
  IF sock < 0 \/ Holding(ss, sock) = {}
  THEN [set |-> ss, id |-> -1]
  ELSE LET i == Min(Holding(ss, sock))
       IN  [set |-> [ss EXCEPT !.socks[i] = NoSocket, !.n = @ - 1], id |-> i]

(* socket_set_remove: the maximum is recomputed, from 0, when it leaves. *)
SetRemove(ss, sock) ==
  IF sock < 0 \/ Holding(ss, sock) = {}
  THEN [set |-> ss, id |-> -1]
  ELSE LET i == Min(Holding(ss, sock))
           left == [ss.socks EXCEPT ![i] = NoSocket]
       IN  [set |-> [socks  |-> left,
                     n      |-> ss.n - 1,
                     max_fd |-> IF sock = ss.max_fd
                                THEN Max({0} \union {left[j] : j \in DOMAIN left})
                                ELSE ss.max_fd],
            id  |-> i]

SetGet(ss, id) == IF id \in DOMAIN ss.socks THEN ss.socks[id] ELSE NoSocket

(* What the two counters and the array owe each other: `n` counts the      *)
(* entries in use, `max_fd` is the largest descriptor among them (0 when   *)
(* there is none), and no descriptor is entered twice.                     *)
SetConsistent(ss) ==
  /\ ss.n = Cardinality(Occupied(ss))
  /\ \A sock \in Sockets(ss) : sock <= ss.max_fd
  /\ ss.max_fd \in Sockets(ss) \union {0}
  /\ \A i, j \in Occupied(ss) : ss.socks[i] = ss.socks[j] => i = j
==============================================================================
