------------------------------- MODULE Server -------------------------------
(***************************************************************************)
(* The event loop of net/server.c with the thread that stops it, the       *)
(* sockets of the kernel it talks to and the peers at the other end.       *)
(*                                                                         *)
(* One thread does all the work: it selects, accepts at most one           *)
(* connection, gives every ready client one recv, and runs the loop        *)
(* handler, which may broadcast.  Client sockets are blocking, so that a   *)
(* recv without data or a send to a full window stops everybody.  A second *)
(* thread waits for SIGINT, which is blocked everywhere else, and clears   *)
(* `run` under the lock.                                                   *)
(*                                                                         *)
(* What the bytes mean is left to ClientBuffer: here a peer sends          *)
(* fragments, and a recv ends in no complete message left over, a part of  *)
(* one left over in the entry of the client, or a refusal.                 *)
(***************************************************************************)
EXTENDS SocketSet, Sequences

Listening == "listening"
Free == "free"

CONSTANTS
  Conn,           \* connections peers may make, each at most once
  NoConn,
  MaxClients,     \* Server_conf.max_clients
  FdLimit,        \* descriptors the process may have for sockets
  Backlog,        \* connections the kernel holds for accept, 5 in tcp_get
  MaxIn,          \* bound: fragments under way from one peer
  SendCap,        \* messages the kernel holds for a peer that does not read
  IsSetOfEmpty    \* what FD_ISSET(-1), undefined, may return

ASSUME ServerAssumption ==
  /\ MaxClients \in Nat \ {0}
  /\ FdLimit \in Nat \ {0}
  /\ Backlog \in Nat \ {0}
  /\ MaxIn \in Nat \ {0}
  /\ SendCap \in Nat \ {0}
  /\ IsSetOfEmpty \in SUBSET BOOLEAN
  /\ FALSE \in IsSetOfEmpty
  /\ NoConn \notin Conn
  /\ {Listening, Free} \intersect Conn = {}

Fd == 1..FdLimit
ServerSock == 1     \* the first descriptor given out

VARIABLES
  ss,        \* Server.ss
  leftover,  \* per client entry: whose partial message Client.buf holds
  run,       \* Server.run
  lock,      \* Server.lock_run: "none", "main" or "exit"
  main,      \* where the event loop is
  i,         \* its loop index
  states,    \* the descriptors the last select reported
  exit,      \* where __thread_exit is
  fds,       \* the descriptors of the process
  backlog,   \* connections not yet accepted
  net,       \* the peer's end of a connection
  inq,       \* fragments sent by the peer, not yet received
  outq,      \* messages sent to the peer, not yet read
  shut,      \* shutdown() was called on the connection
  bye,       \* history: the clients the server has said "Bye" to
  sigint     \* SIGINT was sent

serverVars == << ss, leftover, run, lock, main, i, states, exit >>
kernelVars == << fds, backlog, net, inq, outq, shut, bye, sigint >>
vars == << serverVars, kernelVars >>

Entry == 1..MaxClients
Main == {"lock", "check", "select", "accept", "clients", "refuse", "loop",
         "broadcast", "stop", "join", "close", "closed"}

TypeOK ==
  /\ ss \in SocketSetType(MaxClients + 1, Fd)
  /\ leftover \in [Entry -> Conn \union {NoConn}]
  /\ run \in BOOLEAN
  /\ lock \in {"none", "main", "exit"}
  /\ main \in Main
  /\ i \in 0..MaxClients
  /\ states \in SUBSET Fd
  /\ exit \in {"suspended", "lock", "store", "unlock", "done"}
  /\ fds \in [Fd -> Conn \union {Listening, Free}]
  /\ backlog \in Seq(Conn)
  /\ net \in [Conn -> {"new", "open", "fin", "rst", "aborted"}]
  /\ inq \in [Conn -> 0..MaxIn]
  /\ outq \in [Conn -> 0..SendCap]
  /\ shut \in [Conn -> BOOLEAN]
  /\ bye \in SUBSET Conn
  /\ sigint \in BOOLEAN

(* server_run up to __run: the listening socket takes the first entry.     *)
(* The memory of the client entries is not initialised (server.c:91), and  *)
(* may look like a partial message of anybody.                             *)
Init ==
  /\ ss = SetAdd(SetNew(MaxClients + 1), ServerSock).set
  /\ leftover \in [Entry -> Conn \union {NoConn}]
  /\ run = TRUE
  /\ lock = "none"
  /\ main = "lock"
  /\ i = 0
  /\ states = {}
  /\ exit = "suspended"
  /\ fds = [fd \in Fd |-> IF fd = ServerSock THEN Listening ELSE Free]
  /\ backlog = << >>
  /\ net = [c \in Conn |-> "new"]
  /\ inq = [c \in Conn |-> 0]
  /\ outq = [c \in Conn |-> 0]
  /\ shut = [c \in Conn |-> FALSE]
  /\ bye = {}
  /\ sigint = FALSE

-----------------------------------------------------------------------------
(* The peers, and whoever sends SIGINT.  "fin": the peer has closed its    *)
(* socket; "rst": it was reset.  Nothing is modelled after server_run.     *)

Running == main # "closed"

Connect(c) ==
  /\ Running
  /\ net[c] = "new"
  /\ Len(backlog) < Backlog
  /\ net' = [net EXCEPT ![c] = "open"]
  /\ backlog' = Append(backlog, c)
  /\ UNCHANGED << serverVars, fds, inq, outq, shut, bye, sigint >>

(* A connection can disappear before it is accepted, even after select     *)
(* has reported it.                                                        *)
Abort(c) ==
  /\ Running
  /\ net[c] = "open"
  /\ \E k \in DOMAIN backlog :
       /\ backlog[k] = c
       /\ backlog' = SubSeq(backlog, 1, k - 1) \o SubSeq(backlog, k + 1, Len(backlog))
  /\ net' = [net EXCEPT ![c] = "aborted"]
  /\ UNCHANGED << serverVars, fds, inq, outq, shut, bye, sigint >>

Send(c) ==
  /\ Running
  /\ net[c] = "open"
  /\ ~shut[c]
  /\ inq[c] < MaxIn
  /\ inq' = [inq EXCEPT ![c] = @ + 1]
  /\ UNCHANGED << serverVars, fds, backlog, net, outq, shut, bye, sigint >>

Read(c) ==
  /\ Running
  /\ net[c] = "open"
  /\ outq[c] > 0
  /\ outq' = [outq EXCEPT ![c] = @ - 1]
  /\ UNCHANGED << serverVars, fds, backlog, net, inq, shut, bye, sigint >>

Leave(c) ==
  /\ Running
  /\ net[c] = "open"
  /\ net' \in {[net EXCEPT ![c] = "fin"], [net EXCEPT ![c] = "rst"]}
  /\ UNCHANGED << serverVars, fds, backlog, inq, outq, shut, bye, sigint >>

Interrupt ==
  /\ Running
  /\ ~sigint
  /\ sigint' = TRUE
  /\ UNCHANGED << serverVars, fds, backlog, net, inq, outq, shut, bye >>

Environment ==
  \/ \E c \in Conn : Connect(c) \/ Abort(c) \/ Send(c) \/ Read(c) \/ Leave(c)
  \/ Interrupt

-----------------------------------------------------------------------------
(* __thread_exit: sigsuspend returns on SIGINT only, sent before or after. *)

ExitWake ==
  /\ exit = "suspended"
  /\ sigint
  /\ exit' = "lock"
  /\ UNCHANGED << ss, leftover, run, lock, main, i, states, kernelVars >>

ExitLock ==
  /\ exit = "lock"
  /\ lock = "none"
  /\ lock' = "exit"
  /\ exit' = "store"
  /\ UNCHANGED << ss, leftover, run, main, i, states, kernelVars >>

(* The handler of SIGINT leaves `run` as it is. *)
ExitStore_Lost ==
  /\ exit = "store"
  /\ exit' = "unlock"
  /\ UNCHANGED << ss, leftover, run, lock, main, i, states, kernelVars >>

ExitStore ==
  /\ exit = "store"
  /\ run' = FALSE
  /\ exit' = "unlock"
  /\ UNCHANGED << ss, leftover, lock, main, i, states, kernelVars >>

ExitUnlock ==
  /\ exit = "unlock"
  /\ lock' = "none"
  /\ exit' = "done"
  /\ UNCHANGED << ss, leftover, run, main, i, states, kernelVars >>

ThreadExit == ExitWake \/ ExitLock \/ ExitStore \/ ExitUnlock

-----------------------------------------------------------------------------
(* __run.  The lock is left by the `break` still held.                     *)

Lock ==
  /\ main = "lock"
  /\ lock = "none"
  /\ lock' = "main"
  /\ main' = "check"
  /\ UNCHANGED << ss, leftover, run, i, states, exit, kernelVars >>

Check ==
  /\ main = "check"
  /\ \/ run /\ lock' = "none" /\ main' = "select"
     \/ ~run /\ lock' = lock /\ main' = "stop"
  /\ UNCHANGED << ss, leftover, run, i, states, exit, kernelVars >>

Readable(fd) ==
  \/ fds[fd] = Listening /\ backlog # << >>
  \/ /\ fds[fd] \in Conn
     /\ inq[fds[fd]] > 0 \/ net[fds[fd]] \in {"fin", "rst"} \/ shut[fds[fd]]

(* What select(max_fd + 1, ...) leaves in `states`.  When one descriptor   *)
(* is not open it fails, and the loop goes on with the sets as they were   *)
(* passed: all sockets look ready.                                         *)
SelectResult ==
  LET polled == {fd \in Sockets(ss) : fd <= ss.max_fd}
  IN  IF \E fd \in polled : fds[fd] = Free
      THEN Sockets(ss)
      ELSE {fd \in polled : Readable(fd)}

Select ==
  /\ main = "select"
  /\ states' = SelectResult
  /\ main' = "accept"
  /\ UNCHANGED << ss, leftover, run, lock, i, exit, kernelVars >>

(* The handler has something to say to connection c: nothing is kept for a *)
(* peer that is gone.                                                      *)
CanSend(c) == net[c] # "open" \/ shut[c] \/ outq[c] < SendCap
Queue(c) == outq' = IF net[c] = "open" /\ ~shut[c]
                    THEN [outq EXCEPT ![c] = @ + 1]
                    ELSE outq

(* memset(server->clients[id - 1], 0, sizeof(Client)), and without it. *)
ClearEntry_Never(id) == leftover
ClearEntry(id) == [leftover EXCEPT ![id] = NoConn]

(* A connection that finds the set full is not closed.                     *)
Accepted_NotClosed(c, fd) ==
  LET added == SetAdd(ss, fd)
  IN  /\ backlog' = Tail(backlog)
      /\ ss' = added.set
      /\ fds' = [fds EXCEPT ![fd] = c]
      /\ leftover' = IF added.id = -1 THEN leftover ELSE ClearEntry(added.id)
      /\ IF added.id = -1 THEN UNCHANGED outq ELSE Queue(c)
      /\ UNCHANGED net

(* The first connection is accepted with the lowest free descriptor.       *)
Accepted(c, fd) ==
  LET added == SetAdd(ss, fd)
  IN  /\ backlog' = Tail(backlog)
      /\ ss' = added.set
      /\ \/ /\ added.id = -1                                  \* tcp_close
            /\ net' = [net EXCEPT ![c] = IF @ = "open" THEN "fin" ELSE @]
            /\ UNCHANGED << fds, leftover, outq >>
         \/ /\ added.id # -1
            /\ fds' = [fds EXCEPT ![fd] = c]
            /\ leftover' = ClearEntry(added.id)
            /\ Queue(c)                                       \* handlers.join
            /\ UNCHANGED net

(* Nothing is accepted while the set is full.                              *)
HandleServer_WhenRoom ==
  LET free == {fd \in Fd : fds[fd] = Free}
  IN  /\ main = "accept"
      /\ main' = "clients"
      /\ i' = 1
      /\ IF ServerSock \in states /\ backlog # << >> /\ free # {} /\ ss.n < MaxSize(ss)
         THEN Accepted(Head(backlog), Min(free))
         ELSE UNCHANGED << ss, leftover, fds, backlog, net, outq >>
      /\ UNCHANGED << run, lock, states, exit, inq, shut, bye, sigint >>

(* __handle_server.  accept fails, and nothing happens, when the           *)
(* connection is gone (the listening socket does not block) or when there  *)
(* is no descriptor left.                                                  *)
HandleServer ==
  LET free == {fd \in Fd : fds[fd] = Free}
  IN  /\ main = "accept"
      /\ main' = "clients"
      /\ i' = 1
      /\ IF ServerSock \in states /\ backlog # << >> /\ free # {}
         THEN Accepted(Head(backlog), Min(free))
         ELSE UNCHANGED << ss, leftover, fds, backlog, net, outq >>
      /\ UNCHANGED << run, lock, states, exit, inq, shut, bye, sigint >>

-----------------------------------------------------------------------------
(* The clients, entry by entry.                                            *)

Sock == SetGet(ss, i)
Client == fds[Sock]

AtClient == main = "clients" /\ i \in Entry

(* `states` is dead after the last entry (FD_ZERO comes before its next    *)
(* use) and `i` too: they are reset to have fewer states.                  *)
NextClient ==
  IF i < MaxClients
  THEN main' = "clients" /\ i' = i + 1 /\ UNCHANGED states
  ELSE main' = "loop" /\ i' = 0 /\ states' = {}

(* Not ready.  For an empty entry FD_ISSET(-1) is undefined: if it says    *)
(* yes, recv(-1) fails, and __handle_client takes one byte off whatever    *)
(* the last owner of the entry has left, or, if it has had none, off what  *)
(* the memory held.  What the handler does with the latter is not          *)
(* modelled; the next join clears it.                                      *)
SkipClient ==
  /\ AtClient
  /\ \/ /\ Sock \notin states
        /\ Sock = NoSocket => FALSE \in IsSetOfEmpty
        /\ UNCHANGED leftover
     \/ /\ Sock = NoSocket
        /\ TRUE \in IsSetOfEmpty
        /\ leftover' \in {leftover, [leftover EXCEPT ![i] = NoConn]}
  /\ NextClient
  /\ UNCHANGED << ss, run, lock, exit, kernelVars >>

AtReady == AtClient /\ Sock # NoSocket /\ Sock \in states

(* recv called again until nothing is left. *)
RecvData_UntilEmpty ==
  /\ AtReady
  /\ inq[Client] > 0
  /\ inq' = [inq EXCEPT ![Client] = @ - 1]
  /\ UNCHANGED << ss, leftover, run, lock, main, i, states, exit,
                  fds, backlog, net, outq, shut, bye, sigint >>

(* recv returns bytes, and all the complete messages are accepted. *)
RecvData ==
  /\ AtReady
  /\ inq[Client] > 0
  /\ inq' = [inq EXCEPT ![Client] = @ - 1]
  /\ leftover' \in {[leftover EXCEPT ![i] = o] : o \in {Client, NoConn}}
  /\ NextClient
  /\ UNCHANGED << ss, run, lock, exit, fds, backlog, net, outq, shut, bye, sigint >>

(* recv returns bytes with a message that is refused. *)
RecvMalformed ==
  /\ AtReady
  /\ inq[Client] > 0
  /\ inq' = [inq EXCEPT ![Client] = @ - 1]
  /\ main' = "refuse"
  /\ UNCHANGED << ss, leftover, run, lock, i, states, exit,
                  fds, backlog, net, outq, shut, bye, sigint >>

(* MALFORMED_MESSAGE is sent and the connection shut down; it stays in the *)
(* set until recv returns 0, and the buffer is emptied.                    *)
Refuse ==
  /\ main = "refuse"
  /\ CanSend(Client)
  /\ Queue(Client)
  /\ shut' = [shut EXCEPT ![Client] = TRUE]
  /\ leftover' = [leftover EXCEPT ![i] = NoConn]
  /\ NextClient
  /\ UNCHANGED << ss, run, lock, exit, fds, backlog, net, inq, bye, sigint >>

(* recv returns -1 once after a reset, which is not a disconnection for    *)
(* the unsigned `len`; the next recv returns 0.                            *)
RecvError ==
  /\ AtReady
  /\ net[Client] = "rst"
  /\ net' = [net EXCEPT ![Client] = "fin"]
  /\ inq' = [inq EXCEPT ![Client] = 0]
  /\ leftover' \in {leftover, [leftover EXCEPT ![i] = NoConn]}
  /\ NextClient
  /\ UNCHANGED << ss, run, lock, exit, fds, backlog, outq, shut, bye, sigint >>

(* A disconnection that does nothing. *)
Disconnect_Kept == UNCHANGED << ss, fds >>

(* The entry is given up; the descriptor is never closed. *)
Disconnect ==
  /\ ss' = SetRemove(ss, Sock).set
  /\ UNCHANGED fds

(* recv returns 0: end of stream, shut down here, or a full buffer. *)
RecvEof ==
  /\ AtReady
  /\ \/ inq[Client] = 0 /\ net[Client] = "fin"
     \/ shut[Client]
     \/ inq[Client] > 0 /\ leftover[i] = Client
  /\ Disconnect
  /\ bye' = bye \union {Client}
  /\ NextClient
  /\ UNCHANGED << leftover, run, lock, exit, backlog, net, inq, outq, shut, sigint >>

HandleClient == RecvData \/ RecvMalformed \/ Refuse \/ RecvError \/ RecvEof

-----------------------------------------------------------------------------
(* The loop handler; it broadcasts when it has something to say.           *)

HandlerLoop ==
  /\ main = "loop"
  /\ \/ main' = "lock" /\ UNCHANGED i
     \/ main' = "broadcast" /\ i' = MaxSize(ss) - 1
  /\ UNCHANGED << ss, leftover, run, lock, states, exit, kernelVars >>

(* From the last entry down to 1: entry 0 is the listening socket. *)
Broadcast ==
  /\ main = "broadcast"
  /\ i' = i - 1
  /\ main' = IF i = 1 THEN "lock" ELSE "broadcast"
  /\ IF Sock = NoSocket
     THEN UNCHANGED outq
     ELSE CanSend(Client) /\ Queue(Client)
  /\ UNCHANGED << ss, leftover, run, lock, states, exit,
                  fds, backlog, net, inq, shut, bye, sigint >>

-----------------------------------------------------------------------------
(* server_run after __run.                                                 *)

(* The unlock after the loop forgotten. *)
Unlock_Missing ==
  /\ main = "stop"
  /\ main' = "join"
  /\ UNCHANGED << ss, leftover, run, lock, i, states, exit, kernelVars >>

Unlock ==
  /\ main = "stop"
  /\ lock' = "none"
  /\ main' = "join"
  /\ UNCHANGED << ss, leftover, run, i, states, exit, kernelVars >>

Join ==
  /\ main = "join"
  /\ exit = "done"
  /\ main' = "close"
  /\ UNCHANGED << ss, leftover, run, lock, i, states, exit, kernelVars >>

(* __server_close: the descriptors of the set are closed, the set freed. *)
Close ==
  /\ main = "close"
  /\ fds' = [fd \in Fd |-> IF fd \in Sockets(ss) THEN Free ELSE fds[fd]]
  /\ ss' = SetNew(MaxClients + 1)
  /\ main' = "closed"
  /\ UNCHANGED << leftover, run, lock, i, states, exit,
                  backlog, net, inq, outq, shut, bye, sigint >>

MainThread ==
  \/ Lock \/ Check \/ Select \/ HandleServer
  \/ SkipClient \/ HandleClient
  \/ HandlerLoop \/ Broadcast
  \/ Unlock \/ Join \/ Close

Terminated == main = "closed" /\ UNCHANGED vars

Next == Environment \/ ThreadExit \/ MainThread \/ Terminated

Spec == Init /\ [][Next]_vars

(* The main thread sleeps outside the lock in every round, so that the     *)
(* other one gets it at some time: strong fairness.                        *)
SchedulerSpec ==
  Spec /\ WF_vars(MainThread) /\ SF_vars(ThreadExit)

(* And the peers read what they are sent. *)
FairSpec == SchedulerSpec /\ \A c \in Conn : WF_vars(Read(c))

-----------------------------------------------------------------------------
(* Properties.                                                             *)

(* The counters of the socket set agree with its array after any history   *)
(* of connections and disconnections (utils/socket.c).                     *)
SocketSetConsistent == SetConsistent(ss)

(* Every descriptor in the set is open, the listening socket stays in      *)
(* entry 0 until the server closes, and only connections are in the        *)
(* others: select cannot fail on a bad descriptor, and a broadcast cannot  *)
(* reach the listening socket (server.c __run, handler.c __broadcast).     *)
SetMatchesDescriptors ==
  main # "closed" =>
    /\ ss.socks[0] = ServerSock /\ fds[ServerSock] = Listening
    /\ \A e \in Entry : ss.socks[e] # NoSocket => fds[ss.socks[e]] \in Conn

(* A client never inherits the half message of whoever had the entry       *)
(* before (server.c:144).                                                  *)
LeftoverBelongsToOwner ==
  \A e \in Entry :
    ss.socks[e] # NoSocket => leftover[e] \in {NoConn, fds[ss.socks[e]]}

(* recv, on a blocking socket, is only called when it returns at once:     *)
(* what select reported still holds when the loop gets to the entry, an    *)
(* accept and other clients later.                                         *)
RecvDoesNotBlock == AtReady => Readable(Sock)

(* No descriptor is lost on the way in: one that is open and not in the    *)
(* set belongs to a client the server has said "Bye" to.                   *)
NoOrphanDescriptor ==
  \A fd \in Fd : fds[fd] \in Conn /\ fd \notin Sockets(ss) => fds[fd] \in bye

(* The Server structure is on the stack of server_run: once it is closed   *)
(* no thread holds its lock, and the other thread has left it for good.    *)
ClosedWhenUnused == main = "closed" => lock = "none" /\ exit = "done" /\ ~run

(* server.h:40: the server can be stopped by SIGINT, however busy it is. *)
StoppedBySigint == sigint ~> main = "closed"

(* A client that is gone, or that was refused, is eventually out of the    *)
(* set.                                                                    *)
InSet(c) == \E e \in Entry : ss.socks[e] # NoSocket /\ fds[ss.socks[e]] = c
GoneIsRemoved ==
  \A c \in Conn : (InSet(c) /\ (net[c] \in {"fin", "rst"} \/ shut[c])) ~> ~InSet(c)

(* A connection does not wait for ever: it is accepted, or turned away,    *)
(* unless the process has no descriptor left or stops.                     *)
Waiting(c) == \E k \in DOMAIN backlog : backlog[k] = c
EveryoneAnswered ==
  \A c \in Conn :
    Waiting(c) ~> \/ ~Waiting(c)
                  \/ main = "closed"
                  \/ \A fd \in Fd : fds[fd] # Free

-----------------------------------------------------------------------------
(* The strengthening that makes the invariants above inductive.            *)

LockInv ==
  /\ lock = "main" <=> main \in {"check", "stop"}
  /\ lock = "exit" <=> exit \in {"store", "unlock"}
  /\ run <=> exit \notin {"unlock", "done"}
  /\ main \in {"stop", "join", "close", "closed"} => ~run
  /\ main \in {"close", "closed"} => exit = "done"

IndexInv ==
  /\ main \in {"clients", "refuse", "broadcast"} => i \in Entry
  /\ main = "refuse" => ss.socks[i] # NoSocket
  /\ main = "closed" => Sockets(ss) = {}

(* A connection is new, waiting once, or behind one descriptor, and has    *)
(* been sent nothing before it is accepted.                                *)
ConnInv ==
  /\ \A k \in DOMAIN backlog :
       /\ \A fd \in Fd : fds[fd] # backlog[k]
       /\ \A l \in DOMAIN backlog : backlog[k] = backlog[l] => k = l
       /\ net[backlog[k]] # "new" /\ outq[backlog[k]] = 0
  /\ \A fd \in Fd : fds[fd] \in Conn =>
       /\ net[fds[fd]] # "new"
       /\ \A other \in Fd : fds[other] = fds[fd] => other = fd
  /\ \A c \in Conn : net[c] = "new" => outq[c] = 0

(* The entries still to be visited in this round.                          *)
Ahead ==
  CASE main = "accept"  -> Entry
    [] main = "clients" -> {e \in Entry : e >= i}
    [] main = "refuse"  -> {e \in Entry : e > i}
    [] OTHER            -> {}

ReadyInv ==
  /\ main = "accept" => states \subseteq Sockets(ss)
  /\ \A e \in Ahead : ss.socks[e] \in states => Readable(ss.socks[e])

ServerInv ==
  /\ TypeOK
  /\ SocketSetConsistent
  /\ SetMatchesDescriptors
  /\ LeftoverBelongsToOwner
  /\ NoOrphanDescriptor
  /\ LockInv
  /\ IndexInv
  /\ ConnInv
  /\ ReadyInv
=============================================================================
