# FM tuner: models, checks and proofs

TLA+ modules for the FM tuner service (`src/service`) and its Node.js client
(`src/client-example`): what the program does, written from the code, with the
TLC configurations that check it on small instances and the theorems TLAPS
proves for every instance. `PROJECT.json` lists, definition by definition, the
lines of code a definition stands for.

## 1. The system

The service runs on a BeagleBone, drives a Si4702/4703 tuner over I2C, and
serves any number of TCP clients up to `--max-clients`. One thread does all the
work, in rounds: `select`, accept at most one connection, one `recv` per ready
client, then the loop handler: wait, leds, poll RDS, apply what clients asked
for, broadcast. A second thread waits for SIGINT and clears `run`. systemd starts
the service again when it fails; with `--seek` the same program scans the band and
ends.

```
 peers ──TCP── socket.c ── server.c ── handler.c ── fm_tuner.c ──I2C── chip ── station
                 │            │            │            │
             Socket_set   Client table  Handler_value   regs
                                           │
                                         rds.c
```

| Component | State it keeps | Operations | Interacts with | What makes it hard, and what makes it correct |
|---|---|---|---|---|
| Message parser (`net/handler.c`) | none; reads the client's buffer | `__parse_event`, `handler_event` | called with whatever a `recv` left; fills `Handler_value` | fragments and joined messages, lengths of one byte in a `char`, a hand-kept pointer and length. A complete message is applied once and in order, a malformed one refused |
| Client table (`net/server.c`) | `buf`, `pos` per entry | `__handle_server`, `__handle_client` | `recv`, `handler_event` | entries pass from client to client; full buffer; refusals; `recv` errors in an `unsigned`. No bytes from one client to the next, no entry held for ever |
| Socket set (`utils/socket.c`) | `socks`, `n`, `max_fd` | new, add, remove, get, select, free | event loop, broadcast | counters kept incrementally, no bounds checks. They agree with the array |
| Event loop and signal thread (`net/server.c`) | `run`, `lock_run`, the loop index, the reported descriptors | `__run`, `__thread_exit`, `server_run` | kernel sockets, handlers | blocking sockets, stale `select` results, descriptors, shutdown from another thread. No `recv` blocks, SIGINT stops the server, no descriptor is lost |
| Tuner driver (`fm_tuner.c`) | `regs`, a copy of the registers | volume, channel, seek, RSSI, RDS, power up and down | chip, through transfers that may fail | the TUNE/SEEK and STC handshake. A call does once what `fm_tuner.h` says |
| RDS decoder (`rds.c`) | name and text, current and in progress, flags | `rds_decode`, getters | polled by `__rds_decode` | groups lost, repeated, from another station. The name and the text are whole |
| Handlers (`net/handler.c`) | `Handler_value`, the strings last broadcast | join, event, loop | all of the above | requests of several clients merged, seeks undone, strings sent on change only. What a client was sent adds up to the state of the tuner |
| Node.js client (`client-example`) | receive buffer | `_onData`, `_parseMsg`, setters | the service | framing |
| Sending (`utils/socket.c`) | none | `tcp_send` | the kernel, a client | partial sends; a stream without message limits. The messages arrive whole, once, in order |
| Station scan (`seek.c`) | list of stations | `seek_utils` | the tuner | an end that the chip decides, allocation in steps, failures. It ends, and lists what was found |
| Life of the process (`main.c`, `hw/pin.c`, `hw/i2c.c`, `fmtuner.service`) | the exported pins, the power of the chip | start-up, exit, restart | pins, bus, chip, systemd | ends anywhere; pins and chip outlive the process. Every life starts with a tuner in the same state |
| Leds, pacing, errors, allocation | | | | output, real time, or wrappers |

The process keeps nothing on disk, but what it has told the pins and the chip is still
there when it comes back. `PROJECT.json`
lists every hazard found in the code at its line, with the properties that watch it.

## 2. Modules

| Module | Models | Composes |
|---|---|---|
| `Protocol` | the wire format; `ParseEvent` and `HandlerEvent` as recursive functions over memory | |
| `ClientBuffer` | one entry of the client table, the stream of its owner, `__handle_client` | `Protocol` |
| `SocketSet` | `Socket_set` as a record with its operations | |
| `Server` | event loop, signal thread, lock, kernel sockets, peers | `SocketSet` |
| `Band` | channels, volumes and their conversions, where a seek ends | |
| `Tuner` | abstract: until a transfer fails, a call of `fm_tuner.h` takes effect once, between call and return | `Band` |
| `FmTuner` | the register handshakes and the chip; implements `Tuner` | `Band`, `Tuner` |
| `Rds` | `rds_decode` and the poll that feeds it, with the sending station | |
| `Process` | `main`: start-up, server or scan, exit, kills and restarts, with pins and power | `FmTuner` |
| `Service` | the handlers: join, event, loop; what clients know | `Protocol`, `Band` |
| `Channel` | abstract: messages arrive whole, once and in order until the channel breaks | |
| `Delivery` | the loop of `tcp_send`, the TCP stream, the receive buffer of the Node.js client; implements `Channel` | `Channel` |
| `BandProofs` | lemmas on minimum and maximum, and on the operators of `Band` | |
| `ClientBufferProofs`, `ServerProofs`, `FmTunerProofs`, `ProcessProofs`, `ServiceProofs`, `RdsProofs`, `DeliveryProofs` | the theorems about the module each is named after | `ProcessProofs` builds on `FmTunerProofs` |
| `MCClientBuffer`, `MCServer`, `MCFmTuner`, `MCRds`, `MCService`, `MCProcess`, `MCDelivery` | the instances for TLC | |

How state and actions correspond to the code:

* **ClientBuffer.** `buf` and `pos` are `Client`; `wire` is what TCP holds of the
  peer's bytes, of which `RecvData` takes any prefix that fits. The three outcomes
  of `tcp_recv` are `RecvData`, `RecvError` (-1, which the unsigned `len` turns
  into "one byte less") and `RecvEof`. The memory after the buffer is nondeterministic (`OverreadBytes`),
  since the parser can read there, and so are `buf` and `pos` before the first join, which nobody initialises.
  `sent`, `received`, `applied` are history.
* **Server.** The variable `main` is the program counter of `__run`, one step per
  call that touches shared state or the kernel; `exit` that of `__thread_exit`.
  The contents of messages are left out: a `recv` ends with no complete message left over,
  with a part of one in the entry, or with a refusal, which is all that `ClientBuffer` can do.
  A `send` to a full window disables the step, which is how a blocking call is modelled.
  `FD_ISSET(-1)` for an empty entry is undefined and may say anything (`IsSetOfEmpty`), and an entry that nobody has used
  yet may seem to hold a partial message of anybody.
  Descriptors are the lowest free number, as in the kernel.
* **FmTuner.** One step per I2C transfer; the chip moves between two of them
  (`TuneDone`, `SeekDone`, `StcCleared`). Its rules are those of the data sheet as far as the
  driver relies on them: an operation begins on the rising edge of its bit when
  STC is low, and STC falls some time after the bit has been cleared. In the refinement mapping
  `works` of `Tuner` is `failures = 0`: its step `Break` is the first failing transfer, after which it promises nothing.
* **Rds.** A pair of characters is one value named by station and place; the
  station sends the groups of its name and text in cyclic order, mixed with others.
  `Poll` is `__rds_decode`: it may come too late, or twice for the same group. `PollUnread` is the same
  function when the registers cannot be read: nothing looks at the result of `fm_tuner_read_rds`, `data_exists` and `blocks`
  are not initialised, and a group of `JunkGroups` is decoded (any kind, place and version, characters of no station, zeros, a return
  first, last or not at all), unless `data_exists` happens to be zero or the group to be the one before. The program type of such a group is that of the station.
* **Service.** A handler runs to its end in the one thread, so it is one step.
  Calls of the tuner are sets of outcomes (`SetChannelOutcomes`, `SeekOutcomes` and the others of `Band`), and
  `OutcomesAssumed` shows that those of `FmTuner` are among them: `tuned` is where the tuner is or is going, `shown` what it
  may still say meanwhile, and once a call that moves it has failed (`~rest`) a reported success may not have moved it; a round puts the calls
  it makes together with `Round`, in which a read that fails counts as a failure and leaves `rest` as it is. A seek that ends nowhere calls set_channel with the channel it
  had read, -1 if that failed. `trusted` is
  history: the fields no failed call has made wrong.
  `queue` is a channel in the sense of `Channel`.
* **Process.** `stage` and `step` are the program counter of `main`, `__fm_tuner_init` and `__fm_tuner_close`, one step per
  system call (`InitSteps`), `scan` that of `seek_utils`. The steps of `FmTuner` go on while it is running, and those of the chip
  always. A step of the start-up or of the power down that fails may have had its effect on the pins or the chip all the same (`StepTakesEffect`, `SwitchOff`).
  `Killed` may come between any two steps and leaves everything outside of the process as it is; so does an end
  before `atexit`. SIGINT does the same while it is not blocked (`SigintUnblocked`): until `server_run` masks it, and in a scan. The ten readings of the signal strength
  that `seek.c:51` averages change nothing, so that one failure stands for any of them (`MeasureFails`). The chip is reset while its pin is low, and speaks I2C when SDIO is low as it leaves the reset.
* **Delivery.** A byte is known by its message and its place in the buffer, so that a stream that goes on at the
  wrong place can be told. `SendTakes` is the kernel, `SendReturns` the arithmetic of `tcp_send` after a call,
  which may have taken a part when the process was stopped in it (signals are blocked in its thread, but SIGSTOP
  and a system that goes to sleep interrupt `send` too). `Data` hands any part of the stream to `_onData`, `Parse` is once round its loop.
  The fields of a message are those of `Service`; here it is whole (`Meaning`) or garbled.

A definition whose name is that of another one with a suffix (`Join_NoMemset`,
`SetRemove_MaxKept`) is a plausible mistake in the same code. `PROJECT.json`
pairs each property with one: put in the place of the definition it makes TLC report the property.

## 3. What is checked

Runs that pass:

| Run | Instance | Shows |
|---|---|---|
| `ClientBuffer` | buffer of 8 bytes, 2 messages per peer out of good, bad and oversized ones, 2 owners one after the other | exactly what is complete is applied (`AppliedExactly`), in the step that refuses a peer just what comes before the bad message (`AppliedUntilRefused`), only bad messages are refused (`WellFormedNotRefused`), before a refusal the buffer only fills with a message as long as itself (`BufferNeverFull`), and neither that (`FullIsDropped`) nor a peer that is gone (`GoneIsForgotten`) holds an entry for ever |
| `Server` | 3 connections, 1 entry, 3 descriptors, backlog 2 | set, entries and descriptors in step, no blocking `recv`, clean end |
| `Server_two` | 2 connections, 2 entries | the inductive invariant `ServerInv`, with `SetMatchesDescriptors` (what is in the set is open) as one of its parts: several clients handled in one round, holes in the set |
| `Server_live` | 2 connections, 1 entry | `StoppedBySigint`, `GoneIsRemoved`, `EveryoneAnswered` |
| `FmTuner` | European band, 3 stations, 10 calls on and off the band, up to 2 failing transfers | until the first failure: implements `Tuner`, `HandshakeRespected`, `EveryCallReturns`; after it: `CleanCallIsEffective`, and `OutcomesAssumed`, on which `Service` rests |
| `Rds` | name of 2 parts and texts of up to 3, a text that fills them and one whose return comes in a group before the last, versions A and B; 2 of: a group lost, a poll that cannot read, a retune | on one station, while the registers can be read, `NameIsWhole`, `TextIsWhole`; after the last of these `NameSettles`, `TextSettles` |
| `Service` | 2 clients, 2 requests, 2 changes of the RDS strings, 2 messages under way per client, a failing call | `ViewsAgree`, `StringsNotRepeated`, `ViewsSettle` |
| `Process` | a band of 8 channels and 5 stations, 2 of them at its limits; a failing transfer, another failing step, a kill | each life starts with the tuner ready (`LifeStartsReady`), the service comes back (`ServiceComesBack`), it is powered down between two calls (`PoweredDownAtRest`); a scan lists the stations inside of the band (`ScanListsStations`) and reaches its end (`ScanReachesTop`) |
| `Delivery` | 4 messages of 2 to 4 bytes, a buffer of 6, 5 bytes under way, 2 partial sends | `ImplementsChannel`, `AllApplied`, until a partial send or a full buffer |

Runs that find the code at odds with its documentation (each checks one
property that states what a comment or the README says):

| Run | What the code does |
|---|---|
| `ClientBuffer_seek_first` | a command after a seek in the same message is read one byte off (`handler.c:203`, `README.md:45`) |
| `Server_not_reading` | SIGINT (`server.h:40`) does not stop a server blocked in `send` |
| `Delivery_full` | the Node.js client exits (`service-client.js:86`) on two messages that come together. Its documentation says that it "supports all messages currently sent by the service" (`README.md:37`), which may be meant of their kinds alone; it makes no exception for messages that come together |

The models also show these, which no property of a passing run speaks of or which the guard
of one (a condition on what was sent, on failures, or on retunes) excepts:

* A message whose length byte exceeds the buffer fills it, which `server.c:155` says should
  never happen (`BufferNeverFull` excepts such messages, and peers that were refused, whose bytes are read out of step; `FullIsDropped` is what happens then).
* A client that `handler.c:241` "disconnects" for a bad message is only shut down: what it has
  already sent is still received, parsed and applied, from whatever byte the next `recv` starts at (`AppliedUntilRefused` ends with the step that refuses, the others before it).
* A channel of more than ten bits is returned as set although the register has cut it
  (`Tuner` returns the argument, as the code does, and tunes to `RegisterOf` of it).
* The descriptor of a client that left (`server.c:162`, "Bye") is never closed: `NoOrphanDescriptor` excepts
  just those, and with three of them out of use the runs of `Server` go on without a descriptor to accept with.
* After a failed transfer that leaves TUNE or SEEK high, the next call may poll STC for ever
  (`EveryCallReturns` ends with the first failure), or find STC already set, take it for its own, and report a channel the tuner is
  not on (`CleanCallIsEffective` starts from a chip at rest; the sets of `Band` have these outcomes).
* When the tuner cannot be read while a client joins, it is sent the volume 255 or the channel 65535
  (`handler.c:268`, `-1` cut to size), and keeps them until the next time they are set (`trusted` of `Service`).
* A scan that nothing disturbs never ends. `seek.c:46` waits for the chip to come back to the start of the band, but
  SKMODE (`fm_tuner.c:353`) makes it stop at the end, and every further seek ends there at once: `ScanReachesTop` holds,
  and `scan` then goes round between `seek` and `measure`. The list is printed only when a seek fails. Stations at the first and the last channel
  are not listed.
* Once `send` has taken a part of a message, `tcp_send` goes on at the wrong place (`p += len` after
  `len -= len_t`, `socket.c:324`), also beyond the message; the client then takes any byte for a length, and exits, hangs on a zero,
  or calls its actions with garbage. `ImplementsChannel` ends there.
* A refusal, two bytes of which the first says one (`handler.c:45`), leaves a zero at the start of the buffer of a client that
  reads as the Node.js one does, and `_onData` never ends. That client itself is never refused.
* `tcp_send` returns 0, not the -1 of `socket.h:100`, when the first `send` fails; no caller looks at it.
* A retune mixes the names, or the texts, of two stations until the next ones are complete:
  nothing tells the decoder of it (`NameIsWhole` and `TextIsWhole` end there). A station that
  changes its text is, to the decoder, a retune to one with the same name.
* A program type of 16 or more loses its fifth bit to the music flag (`DecodeType`).
* A volume or a channel that is set again is broadcast again; only strings are
  compared (`StringsNotRepeated` speaks of strings only).

**Bounds.** Every bound is a constant with `Max`, `Cap` or `Limit` in its name, or the size of
a set of model values. The buffer has 8 bytes instead of 128 and well formed messages have up to
5: two messages and a part of a third fit, a length byte can exceed it, and every cut
of a stream happens. One entry and three connections make the entry change hands,
the set overflow and the backlog wait; three descriptors, of which one listens, run
out, because they are not closed. Two entries make a round handle several clients, and
the set have holes and lose its maximum. The parts of a name are 2 instead of 4, and those of a text 3 instead of 16: first,
(middle and) last. `MaxFaults` of `Rds` bounds the groups the poll comes too late for, so that the
station is heard in the end, with the retunes and the failing polls; groups may be read twice without a bound. Two clients and two requests suffice for a join between a request and its broadcast and
for requests that override one another. Two failing transfers let a failure
meet what another one left. In `Process` the list of the scan outgrows its first
allocation (`Preallocated`), and a failing transfer, another failure and a kill may meet in one behaviour: a handshake cut off, the kill, and a
start-up that fails before the one that succeeds. In `Delivery` one message does not fill the client's buffer and two do,
as with 82 and 67 bytes of 128. Symmetry is used where connections are interchangeable and no liveness is checked.
Deadlock is checked except in the runs of `ClientBuffer` and `Delivery`, where peers
stop at their bound with nothing left to receive, or the client has exited.

**Fairness.** `ClientBuffer`: the loop visits every ready entry (weak fairness of
`HandleClient`). `Server`: the thread of the loop runs (weak), and the other one, which
competes for a mutex the loop releases in every round while it sleeps, gets it some
time (strong); `Server_live` also assumes that peers read, and
`Server_not_reading` shows that this is needed. `FmTuner`: the driver and
the chip go on. `Rds`: the station sends both its name and its text again and again although other groups and
retunes come between (strong), the service polls (weak). `Service`: the loop runs and TCP delivers. `Process`: the program, the driver
and the chip go on, and systemd does what the unit file says; nobody has to start a scan or to stop anything.
`Delivery`: the kernels pass on what they hold, `send` returns, and the client's event loop runs.
Clients and peers are never fair in what they send, join or leave.

## 4. What is proved

Each theorem holds for every value of the constants that the `ASSUME` of its module admits; TLC
evaluates these assumptions on every run. All of them follow one pattern: an inductive invariant, of
which TLC has checked an instance, `Init => Inv`, one lemma per action, and the property from the invariant.

| Module | Theorems | For every |
|---|---|---|
| `ClientBufferProofs` | `ParserReadsBack`, and of `ClientBuffer` `TypeOK`, `AppliedExactly`, `AppliedUntilRefused`, `BufferNeverFull`, `WellFormedNotRefused` | size of the buffer, sign of `char`, set of legible messages, what lies behind the buffer, number of messages and peers |
| `ServerProofs` | `ServerInv`, and from it `TypeOK`, `SocketSetConsistent`, `SetMatchesDescriptors`, `LeftoverBelongsToOwner`, `NoOrphanDescriptor`, `ClosedWhenUnused`, `RecvDoesNotBlock`; `SetAddConsistent`, `SetRemoveConsistent` | number of connections, entries, descriptors; backlog and window |
| `FmTunerProofs` | `TypeOK`, `HandshakeRespected`, `CleanCallIsEffective`, `OutcomesAssumed`, `ImplementsTuner` | band, stations, calls, number of failing transfers |
| `ProcessProofs` | `LifeStartsReady`, `ProcessTypeOK`, `PoweredDownAtRest`, `ScanListsStations` | the same, and number of other failures and kills, and the step in which a scan makes room |
| `ServiceProofs` | `TypeOK`, `StringsNotRepeated`, `ViewsAgree` | clients, requests, strings, queues, number of failing calls |
| `RdsProofs` | `TypeOK`, `NameIsWhole`, `TextIsWhole` | stations, versions, lengths of texts, number of parts and of faults |
| `DeliveryProofs` | `TypeOK`, `ImplementsChannel` | messages, client buffer, window, number of partial sends |

**Parser and buffer.** `ParserReadsBack` says that `__parse_event` gives back the commands of a message, wherever it lies and
whatever is behind it. A message is `Legible` when it is what `README.md` of the repository describes, with no seek before its last command, or some
commands and then what the protocol has no meaning for; `MCClientBufferAssumption` has TLC check that the messages of the run are, and that
those of `ClientBuffer_seek_first` are not. `TypeOK` needs no such condition: whatever bytes come, `ret` is clamped to the buffer and the moves stay in it.
The other four come from `ClientInv`:

* `StreamInv`: what `recv` has returned and what is under way are a beginning of the messages sent, put one after the other.
* `BufferInv`: while nothing was refused there is a number `n` of messages such that exactly the commands of the first `n` are applied, and the buffer
  holds what has come of the next one. After an error of `recv`, which makes `len` -1 and `pos` one less, it holds a byte less, and nothing can follow.

A round of `__handle_client` takes what is in the buffer and what has come (`Delivered`) to the next such `n`: `HandleStream` says that
`handler_event` on memory that holds a beginning of a stream of messages accepts those that are complete, and reports what they take or a refusal behind them.

What a recursive function computes is proved without an induction principle of the library, whose theorems take an operator: a set of numbers that is not empty
has a least element (`Least`, from `WFMin`), so what holds of 0 and passes from `n` to `n + 1` holds of all (`Upward`), and a function
with a decreasing measure meets its defining equation (`Fixpoint`, which `JoinedDefined`, `ParseDefined` and `HandleDefined` apply).

**Event loop.** None of the properties of `Server` is inductive alone. `ServerInv` adds:

* `LockInv`: who holds the lock follows from the two program counters, and `run` from
  that of the signal thread. `ClosedWhenUnused` follows from it.
* `IndexInv`: the loop index is in the client table where it is used, and the entry of a
  refusal in progress is still occupied.
* `ConnInv`: a connection waits once or is behind one descriptor. It makes the descriptor
  that `accept` returns new to the set, hence `SetConsistent` after `socket_set_add`.
* `ReadyInv`: what `select` reported is still readable for the entries ahead of
  the loop index. The argument is that only the loop itself receives, that
  a fresh connection is given a free descriptor, which was not in the set when `select` was
  called, and that readability is otherwise never lost by what peers do.

`SetAddConsistent` and `SetRemoveConsistent` show that the two operations on the set keep its counters and its
array in agreement, the recomputation of the maximum included.

**Driver and chip.** `FmInv` relates the step the driver is at, its copy of the registers and what the chip does:

* `OpInv`, `ChipInv`: the operation of the chip follows from TUNE, SEEK and STC.
* `RegsInv`: nobody but the driver writes the writable registers, so that its copy is that of the chip between its read and
  its write, except for the bits the call itself changes.
* `WhereInv`, `SeekInv`: whatever was under way when the call was made, the chip heads for one of the places
  `Reach` the outcomes allow, and a seek that has gone anywhere has ended where it reports. This is what is left after a failure, and gives `OutcomesAssumed`.
* `CleanInv`, `RestInv`: a call that has found the chip at rest goes through the handshake step by step; until a set_channel or a seek has failed
  all calls do. `CleanCallIsEffective` and, with no failure, `HandshakeRespected` follow.

For `ImplementsTuner` each step is mapped to one of `Tuner` or to a stutter: the read of the registers is where a get returns, the write
of the volume is where set_volume takes effect, the end of an operation of the chip where the tuner moves, and the first failing transfer is `Break`.

**Life of the process.** `LifeInv` says what `__fm_tuner_init` has achieved before each of its steps, so that the
last one, whose effect depends on registers that were read steps ago, writes into a chip that the reset
has cleared; `LifeStartsReady` alone says nothing of the states in between. SDIO is part
of it because the chip chooses its interface by it when it leaves its reset. `ProcessInv` adds that a life, once started, is a behaviour of `FmTuner`:
`FmInv` holds while the program runs or closes, and its lemmas are used again for the steps of the driver and the chip under `Process`.
`PoweredDownAtRest` follows from `RestInv`.

`ScanListsStations` says of a scan what its list is, and nothing of the chip. `ListInv` adds, for each place `seek_utils` can be at, where the
chip is: at rest between two seeks, and the list is all of the stations up to where the last one has ended, so that the next one begins there (`SeekAdds`: it
passes over no station). The case to argue about is the first seek, because the return of `fm_tuner_set_channel` is not looked at: the tune may have been cut off,
and the seek finds TUNE or STC as it was left (`TuneOnly`). Then it goes through its own handshake after all (`Proper`), or takes the STC of the tune
for its own, stays at the start of the band, and returns what ends the scan (`Aside`). A seek that fails itself returns -1 and ends the scan, so that this cannot come later.
For the room the invariant is that it is a multiple of `Preallocated`: a list that fills it has a length that makes `seek_utils` ask for more.

**Handlers.** `ServiceInv` is `TypeOK` with `PlaceInv` (the tuner has one place while no call was cut off), `StringsInv` (in the
queue of a client, and between it and what the client knows, a string differs from the one before) and `ToldInv` (`Sum`: what a client knows and
the messages under way to it add up to the present state). For the channel the same is `ChannelInv`, and it needs a condition: `RequestsTunable`, that clients ask for channels of the band
only. Without it `ViewsAgree` is false, because `fm_tuner_set_channel` returns any other channel as if it had been set, and the run has that condition too
(`MCServiceAssumption`). `StringsNotRepeated` needs no condition.

**RDS.** `RdsInv`: until the first retune and the first poll that fails, the new name and the new text are, up to the next place to be written, those of the
station (`NamePrefix`, `TextPrefix`), and the shown ones are none or all of them. The text is the harder one: it ends with a return in the last group or before, or
fills the array; groups have two or four characters; and a group that is read twice must not be taken for the next one.

**Sending.** `DeliveryInv`: there is a function `start` that says where in what the client has not yet parsed each message begins, the buffer of
the client coming before the stream. The messages not applied follow one another from place 1 on, and each byte is at the place its message begins plus its own (`StreamInv`). It
holds until a send takes a part: then the next byte is not the one that follows, and there is no such function. A step of `tcp_send`
extends `start`, a step of the client's loop moves it down by the length it reads, which is the one of the first message; so `_parseMsg` is given that message, whole.
`ImplementsChannel` follows with `Due`, the messages sent and not applied, for the queue of `Channel`.

**What proving has changed.** `Begun` of `FmTuner` had a `CASE` with overlapping guards, of which TLC took the first; it is an `IF` now. `ServiceAssumption` did not say what
the requests consist of: `Command` does. `ViewsAgree` had been checked only with requests for which `RequestsTunable` holds, which nothing said. `BufferNeverFull` was false once a message
had been refused and more than two could be sent: the rest of the stream is then read out of step, and may announce any size; it now says so. The recursive functions
of `Protocol` are written by one step each (`ParseStep`, `HandleStep`), and the values of the commands have the width of the code (`Word`).

**Only model-checked.**

* All liveness: fairness and `ENABLED` are out of TLAPS's reach.
* The runs that find the code at odds with its documentation, which are counterexamples.

## 5. Not modelled

* Leds and pacing: output only, and real time (`__sleep` uses the wall clock; a clock set back makes the loop sleep as long).
* The values of the options and their parsing; a process that is given the same chip as another one.
* What the handler does when it is called for an entry that nobody has used yet (`FD_ISSET(-1)` and uninitialised memory): a command nobody has sent,
  a `memmove` beyond the buffer. The entry is cleared before its first client.
* The `fatal_error` of the exit thread (`server.c:65`): `sigaction` cannot fail with the arguments it has.
* That systemd gives up after several failures in a short time, which the unit file leaves at its defaults.
* The signal strength, but for the failure to read it: it decides the leds and the order of the list of a scan.
* The publication of texts over MQTT (`ENABLE_MQTT` is 0); it keeps a slice of the receive buffer that later messages overwrite.
* Allocation, messages, and the printing of registers.

## 6. Plan

Done, in order of importance: the event loop with the socket set and its proofs; the client buffer with the
parser; the tuner handshake against its abstract specification; RDS; the handlers.

Since then: the life of the process with the scan (`Process`), failing polls in `Rds`, failing calls in `Service` with
the check that the driver has no other outcomes (`OutcomesAssumed`), and the way of a message from `tcp_send` to the client (`Delivery`).

With the proofs every invariant, action property and refinement that a run checks is a theorem. What could still be added:

1. `Delivery` with the messages of `Service`, so that `ViewsAgree` is stated for what the Node.js client has applied.
2. `Server` with the buffers of `ClientBuffer` in its entries; now the three outcomes of a round are what connects them.
3. The liveness properties, when the provers can treat `ENABLED`.
