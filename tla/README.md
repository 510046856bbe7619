# modbuscpp in TLA+

modbuscpp is a small C++ library for Modbus masters: a client with retries and
automatic reconnection (`src/client.cpp`), two links under it, TCP and serial
(`src/tcp_link.cpp`, `src/rtu_link.cpp`), the encoding of requests and replies
(`src/pdu.cpp`), conversions between registers and numbers (`src/convert.cpp`),
a CRC (`src/crc.cpp`), and tools built on it (`tools/`).

This directory holds models of these parts, the TLC instances that check them
and theorems about them that TLAPS proves. `PROJECT.json` is the index: for each
definition the lines it translates, for each run its properties, for each
property a mutation of the code that breaks it, and the hazards of the code with
the properties that watch them.

    tlc -config MCClient.cfg MCModbusClient      check an instance
    tlapm ModbusClient_proofs.tla                check the proofs

## The system

| Component | State | Operations | Works with |
|---|---|---|---|
| ModbusClient (`client.cpp`) | mutex, unit id, timeout, retries, back-off, autoReconnect, intentionalDisconnect, reconnecting, the link | connect, disconnect, connected, isReconnecting, five setters, eight data operations | calls one IModbusLink; called by any number of threads |
| IModbusLink (`link.hpp`) | open or not | open, close, isOpen, transact | implemented by the two links |
| TcpLink (`tcp_link.cpp`) | socket, next transaction id | the same four | a TCP peer |
| RtuLink (`rtu_link.cpp`) | descriptor, t3.5, the settings of the port | the same four | a serial bus with several units |
| PDU codec (`pdu.cpp`) | none | 8 builders, 5 parsers, 4 checks, exceptions | called by ModbusClient |
| Conversions, CRC | none | register/number/string; crc16 | callers; RtuLink |
| Test server (`tests/modbus_test_server.py`) | coils, holding registers, one thread per connection | six function codes | the peer of TcpLink |
| Command line tool (`modbus_tool.cpp`) | client, polling flag, poll thread | connect, read/write, poll, stop, quit | one client, two threads |
| GUI panel (`connection_panel.cpp`) | client, worker thread, calls and results under way, poll timer, status | connect, disconnect, read, write, poll, close | one client, two threads |
| GUI window (`modbus_gui.cpp`) | panels, log | open and close a panel | one worker thread per panel |
| Benchmark, build, deployment | none of interest | | |

**What is hard.** A call of the client may take minutes: it holds the mutex
through pauses, reopen attempts and exchanges, while other threads want to
disconnect, to change settings or just to look. Two budgets are nested, attempts
of a call and reopen attempts inside each. A timeout can race a late answer:
what is left on the connection must never be the answer to another request. TCP
cuts frames anywhere; on a serial line a frame ends with silence and an answer
shows only who sent it. A request whose connection is gone may still be executed,
after its repetition. Sizes are narrowed to 8 and 16 bits. And the tools share a
client between threads and replace it while they run, the GUI behind the back of
its worker, which has a plain pointer.

**What makes each part correct.**

- Client: one thread at a time on the link; an intended disconnect is final; no
  call does more than its retries allow; only Transport errors are tried again;
  the error handed out is the one that happened; every method returns.
- Links: an answer is the one to this request; after an error nothing is left
  behind that a later exchange could mistake for an answer; no descriptor is lost.
- Client and server together: a write that was acknowledged stands; a call that
  was answered is never sent again; a call succeeds when nothing goes wrong, and
  after a connection that was lost unnoticed one retry is enough.
- Serial port: the format of a character is not inherited from its last user; the
  silences are those of the configured rate and format; what disturbed one exchange
  does not spoil the next.
- Codec: what a caller writes is what the device holds, what it reads is what
  the device holds; quantities at and past the limits; refusals reach the caller.
- Command line tool: no thread is abandoned, no client replaced under one,
  commands end.
- GUI: a call posted to the worker reaches the client and the unit it was meant
  for unless its user went on meanwhile; the window comes back; a closed panel
  goes away; polling shows the state of the link.

## Modules

| Module | Models | Notes |
|---|---|---|
| `Link` | `link.hpp` | abstract: what the client relies on; calls take time and end |
| `ModbusClient` | `client.cpp` | any number of threads, on top of `Link` |
| `TcpLink` | `tcp_link.cpp` | with a TCP peer; implements `Link` |
| `RtuLink` | `rtu_link.cpp` | with the devices of a bus; implements `Link` |
| `PortSettings` | `configurePort` and the silences of `rtu_link.cpp` | |
| `TcpSession` | `client.cpp` against `modbus_test_server.py` | composes `ModbusClient`, `TestServer` and the connections between them |
| `Pdu`, `ClientOps` | `pdu.cpp`, the data operations of `client.cpp` | operators on bytes |
| `TestServer` | the handlers of `modbus_test_server.py` | operators on the server's memory |
| `PduExchange` | client operations against the server, or a device that replies what it likes | composes the three |
| `Convert` | `convert.cpp` | |
| `Crc` | `crc.cpp` and its uses in `rtu_link.cpp` | a byte is the set of its one bits |
| `Codecs` | | puts `PduExchange`, `Convert`, `Crc` and `PortSettings` side by side for one run |
| `ReplTool` | `modbus_tool.cpp` | |
| `GuiPanel` | `connection_panel.cpp`, `closePanel` of `modbus_gui.cpp` | |
| `*_proofs` | | theorems about `ModbusClient`, `TcpLink`, `RtuLink`, `TcpSession`, `ReplTool`, `GuiPanel`, each in a module of its own |
| `SerialLine_proofs` | | theorems about `PortSettings` and `Crc` |
| `Encoding_proofs` | | theorems about `Pdu`, `ClientOps`, `TestServer`, `PduExchange` and `Convert` |
| `MC*` | | values of constants for TLC |

`ModbusClient` does not talk to `TcpLink` or `RtuLink` directly. It uses `Link`,
an abstract link with the constant `KeepsOpen`: the errors after which a link
stays open. `UsesTheLinkSequentially` says that every step of the client is a
step of `Link`, and `ImplementsLink` that `TcpLink` (with `KeepsOpen = {}`) and
`RtuLink` (with `{"Protocol"}`, since a CRC or an address error does not close
the port) refine it, fairness included.

### How the models correspond to the code

**ModbusClient.** A thread has a place `pc`; the places are where the code can
be overtaken by another thread or by the link: waiting for the mutex (`wait`),
holding it (`locked`), the head of the retry loop (`check`), inside open()
(`connect`, `reopen`), in a pause (`backoff`, `pause`), before and in transact()
(`send`, `transact`), about to release the mutex (`return`). Each action is the
code from one such point to the next. The members of the class are variables of
the same name; the counters of `transactWithRetry` are `attempts` and `rcA`.
`sent`, `opens` and the recorded settings are history. A call's request is built and
its reply parsed by the operators of `ClientOps`. `connected` and
`isReconnecting` read without the mutex, as in the code, and so can be evaluated
in any state. `retries` may be negative: the loop then does nothing.

**TcpLink.** Bytes arrive in order and are cut anywhere, so what is on its way
is a sequence of frames and recv() takes any number of bytes. `open` has each of
its error exits; `transact` reads 7 bytes of header, checks them, and reads the
rest. A timeout may strike at every wait and after the last byte too
(tcp_link.cpp:191). The peer repeats, delays, sends wrong headers and closes; it
is honest about the number of bytes after a header.

**RtuLink.** A byte is number `pos` of the answer to transact number `for`, or
noise. The input is flushed after the silence, then the request is sent and bytes
are read until a silence or the deadline. The crc of a response is right when
the response is one whole answer without noise; `Crc` supports this: no garbling
of one byte and its neighbour passes. Faults are counted and bounded. `AnswersLate`
says whether an answer may still be coming when the next request goes out.
`disturbed` is history: whether the exchange under way met noise, a repeated answer,
another unit, or was cut by the pause or the deadline. That a reply comes from the unit
asked is the guard of `Answered`, and no property restates it.

**PortSettings.** `c_cflag` is the set of its flags; `configurePort` clears and
sets them in the order of the code, with `cfmakeraw` last, which is what loses
the parity. Any settings (`Foreign`) may be on the port before open() and again
after close(). The floating point of `computeT35` rounds to the nearest millisecond,
which is integer division. The code never looks at `dataBits` on POSIX, so a character
has eight bits, and never clears CRTSCTS, so flow control of a former user stays; both
are in the model, and `OldFormatDoesNotStay` says what is written and what is not.
`dataBits` and `stopBits` are unchecked bytes in the code; the model has six to eight
and one or two. With five data bits at 4800 baud the pause that ends a response would be
shorter than a character.

**Crc.** A byte and a word are the sets of their one bits: exclusive or is the
symmetric difference, a cast to 8 bits is the intersection with `ByteBits`, `>> 8`
moves bits down. The table is copied from the code as it stands, and `crc16` is its
loop. The crc by its definition, `ByDefinition`, shifts one bit at a time. The line may
garble two neighbouring bytes of what was sent (`Garble`).

**TcpSession.** The steps of the client are those of `ModbusClient`. Its link is
reduced to what `TcpLink` is shown to guarantee: it closes after each failed
transact(), and takes no reply but the one to its own request. `conn` is the open
connection, whose server end may be gone (`up`). When the client closes it, a
request the server has not read becomes one of `late`: its thread executes it at any
time, or it is lost. The late requests of several connections have one thread
each, so they are executed in any order. `executed` and `answered` are history;
`trouble` records what the call in progress met.

**Pdu, ClientOps, TestServer, PduExchange.** These work on the bytes. Numbers
are narrowed where the code casts (`uint8`, `uint16`). The parsers ignore the
request, as the code does. `PduExchange` is a caller that does one operation
after another against the server's tables, or against a device that replies
anything. A list of 2^16 values or more may pass its builder, which narrows the size
first; `BuiltTooLong` is where that ends, since what the framing would send is left out.

**Convert.** The code moves bytes and computes nothing, so a byte is any value
and two values are enough. memcpy between a double and bytes goes through the
byte order of the host, which is a variable.

**ReplTool.** The main thread and the poll thread, with the places at which they
can wait for each other. A method of the client is what the tool sees of it: the
mutex, and a link that may go down and come back while a method runs. Arguments
and printing are left out: a command with bad arguments changes nothing. (The help
text also offers `raw on|off` and `read fc`, for which there is no code.)

**GuiPanel.** The GUI thread runs one handler at a time; `gui` is the place in it
where it may have to wait, or `loop`. The worker takes calls from `queue` one by
one and puts what it emits into `results`, which the GUI thread shows. Clients have
addresses: a deleted one may be found again at the same place. `call.unit` and
`orphan` are history: the unit a user chose, `NoUnit` once the client the call was
posted for is deleted, and whether the client was deleted under the call. A call
on a deleted client is undefined: it crashes the program, hangs or returns.
`setUnitId` and `disconnect` wait in the GUI thread for the mutex that the worker
holds; `connected()` and `isReconnecting()` do not. The device answers, refuses, is
silent or cannot be reached, and may change at any time. Only one that cannot be reached
makes open() fail: a serial port opens whoever listens on it, and a TCP connection to
a device that never answers succeeds. `PollingShowsTheLink` claims nothing of a device
that is silent, for there the label goes to and fro: the link opens, the read times out,
and a write that fails shows as a connection that came back.

## Runs

Runs that pass:

| Run | Shows | Instance |
|---|---|---|
| `client` | the invariants of the client; methods return; the link is used as `Link` says; 239,096 states | 2 threads, 2 calls each, retries -1..2, two back-offs, replies good, odd and exception |
| `session` | acknowledged writes stand, answered calls are not repeated, calls succeed without trouble, 1,065,000 states | 1 thread, 3 calls (write, refused read, connect, disconnect), retries 0..1, one register |
| `codecs` | requests, replies, conversions, crc, port settings, silences, 43,948 states | tables of 10 entries, which end inside a byte; quantities 0, around each limit, 65535; lists of 65537 coils and 65536 registers; two byte values in every order on both hosts; all 256 bytes fed to the crc, and 44 ways to garble two neighbours of the frame of one byte and its crc; 13 baud rates, 3 foreign settings |
| `tcp_link` | no stale answer, descriptors accounted for, implements `Link`, 10,935 states | 3 transacts, 2 opens, ids 1..2 so that they wrap, 2 descriptors, at most 2 frames unread |
| `rtu_in_time` | accepted replies are for this request; exchanges left in peace succeed; implements `Link`, 207,896 states | 2 units, 3 transacts, 2 opens, one fault of any kind |
| `repl` | threads joined, truthful flag, commands end, 897 states | 5 commands |
| `gui` | right client, right unit, the window comes back, closed panels go, polling shows the link, 246,400 states | 2 addresses, 2 units, 2 calls under way |

Runs that find the code and its comments in disagreement:

| Run | The code | The text |
|---|---|---|
| `tcp_refused` | a refused connection makes the socket writable; `open` never reads SO_ERROR and answers ok | error.hpp:12, "connect failed" is a Transport error |
| `rtu_stale` | a late answer, arriving after the flush, is accepted for the next request | link.hpp:19, "wait for and return the response PDU" |
| `convert_float64` | the words of a double pass through host memory: on a little-endian host HighWordFirst puts the least significant first | convert.hpp:12 |
| `port_parity` | `cfmakeraw` comes after the parity flags and clears PARENB (rtu_link.cpp:184, 189), so no port ever has parity | rtu_link.cpp:184 sets PARENB for Even; rtu_link.hpp:25-26, t3.5 is for the configured "character format" |
| `repl_stop` | `stop` is refused while the link is down, and the poll thread goes on | modbus_tool.cpp:121, "Type 'stop' to end." |

Others met while modelling, which the models show in their guards and no run
is spent on: a client that is not connected reports Transport (client.cpp:63),
where error.hpp:11 says Usage; a reply with another function code is parsed as
the answer (client.cpp:96-97), where error.hpp:13 says Protocol, and so is one with another count; a list of 65537
values is built as a request for one, with 8193 bytes of values (pdu.cpp:117, 138); a TCP reply may carry up to 65533
bytes of data (tcp_link.cpp:265), where pdu.hpp:41 says 252; an RTU answer the
deadline cuts after its fourth byte is a CRC error and not retried
(rtu_link.cpp:325), where error.hpp:12 counts timeouts as Transport; `dataBits`
is never looked at on POSIX, and a baud rate of 0 divides by zero (rtu_link.cpp:39);
a rate above 9600 that is not in the list runs at 9600 with a silence computed for the
configured one, which is then shorter than 3.5 characters (rtu_link.cpp:171-176).

In the GUI, all of them steps of `GuiPanel`: after a failed connect the label and
the button stay as they were; a failed write shows as a connection that came back
(connection_panel.cpp:27, 33, 134); a result that comes after a disconnect can show
a panel without a client as connected; a call in the queue of a client
that is deleted runs on the next one, and on a deleted one if there is no next.
"DI" reads coils and "IR" reads holding registers (connection_panel.cpp:112-113),
which the model does not tell apart.

### Bounds, and why they are enough

- `MaxCalls = 2`: every pair of calls of two threads, so a disconnect or a setter
  falls into every place of a call and a call follows each. Retries up to 2 make
  both loops run through first, middle and last attempt and the pause double up
  to its maximum. A write takes the same way through the client as a read.
- `session`: a call of two tries whose first is late, and two calls after it that the
  late request can overtake; a third connection. One value is enough for a
  write, since the history tells writes apart by call and try. Two threads add
  nothing here but the order in which they get the mutex, which `client` covers;
  all three properties are proved for any number of them.
- `MaxTransacts = 3`: a request, one that is overtaken by its late answer, and
  one more to mistake it; ids that wrap after 2 are the shortest cycle in which
  two in a row still differ. `MaxOpens = 2`: a link that fails and is opened
  again. `MaxUnread = 2` frames: one answer and one repeated. `MaxFaults = 1`:
  one fault in a bus conversation of three requests.
- `codecs`: ten coils span a byte boundary and leave the last byte partly used.
  The rates are all the code knows and five it does not, on both sides of 9600; the
  foreign settings are those of ports left with parity, two stop bits, seven bits, flow
  control or no receiver. A list of 65537 coils narrows to one, which is accepted, and one
  of 65536 registers to none, which is not.
- `MaxCommands = 5`: connect, poll, connect again, poll, stop.
- `gui`: `MaxPending = 2` calls under way (posted, running, or answered and not
  shown), so that one runs on a client while the other waits for the next client.
  Two addresses: a client is replaced by one elsewhere, and a third comes back to
  the place of the first. The panel itself is under no bound and runs for ever.

For everything a theorem below states, the bounds are unknown constants there.

CHECK_DEADLOCK is off for `codecs` and `convert_float64` only, where a conversion
is over. Elsewhere a finished system stutters explicitly.

### Fairness

- Client: each thread keeps running its method (`WF(Work(t))`), and a free mutex
  that somebody waits for is taken by somebody. std::mutex does not promise who,
  so there is no fairness for a single thread's `Lock`; that every thread gets its
  turn follows in the instance because each makes finitely many calls. A link
  call ends: this is `Link`'s fairness, and `ImplementsLink` shows that both links provide it.
- Links: the code runs on and its waits end. connect, select and recv have
  timeouts. send() and the serial write have none: that they make progress
  with a request of at most 260 bytes is assumed, and is the one place where a peer
  that stops reading could hold the client's mutex for ever.
- Tool: both threads run, and as above for the mutex. `CommandsEnd` therefore
  excludes a read beside a poll thread without pause, which may win the mutex each time.
- GUI: handlers and slots run on, the poll timer fires and posted results are
  delivered, since Qt's event loops run. For the mutex, somebody of the GUI thread
  and the worker takes it. That the GUI thread still comes back follows because it
  posts nothing while it waits, so the worker runs out of calls.
- Peers, devices, users: none. They may always stay silent.
- `session` and `codecs` have safety properties only and no fairness.

## Proofs

Each theorem is proved for any value of the constants, under the named assumptions
on them (`...Assumption`), which TLC evaluates in the runs of the same modules.
None of the properties is inductive as it stands. Each component has a
strengthening, defined beside it so that TLC can check it, with a lemma per conjunct
and in it one step per action.

**ModbusClient.** `ModbusClient_proofs`: types, `MutexCoversTheLink`,
`ReconnectingIsVisible`, `IntentionalDisconnectSticks`, `RetryBudget`, and that the
client uses its link sequentially (`LinkIsUsedSequentially`: initial states and
every step map to `Link`). `IInv` strengthens them in three ways. `PlaceFitsTheCall`
ties a thread's place to the kind of method it is in. `CountsAgree` says at each
place how `attempts`, `rcA` and the history counters relate; the retry budget alone
is not inductive, since a thread in the middle of the loop may still use up what
is left of both budgets (`Products` is the arithmetic for the nested one).
`DisconnectedIsQuiet` says that while the intention to disconnect stands the
link is closed and no thread is on its way to it: `IntentionalDisconnectSticks`
speaks of the link only and a thread already past the check would break it. It
holds because disconnect sets the flag under the mutex, so `OthersWait` shows that
nobody else is past `locked`.

Also there: `SettingsHoldThroughACall`, `VerdictExplained` and
`OnlyTransportErrorsAreRetried`, from `CallInv`. Its part `CallsProgress` says how
far a call has got at each place: it comes round its loop again after a Transport
error only, has addressed nobody before it starts, and its reopening loop counts
its calls of open(); a verdict is then explained when it is given. Settings do not
move under a call because only the holder of the mutex changes them.

`BackoffGrowsToTheMaximum` needs `DelaysAgree`: while the loop is inside open() the
delay is already the one of the next sleep, doubled as often as `rcA` says. Its
arithmetic, that cutting off at every doubling is cutting off once (`DoubledAgain`),
takes `2 ^ (n + 1) = 2 * 2 ^ n`, which the provers do not know; `PowerDoubles` derives
it from the library's theorem on the number of subsets of a set.

**PDU, test server, exchanges.** `Encoding_proofs`: `WritesLand`, `ReadsReturnTheTable`,
`RequestsDescribeThemselves` and `OnlyWhatTheDeviceSent`, for every table size up to the 256 of the code, all
addresses and values, lists of any length and any device. The module goes
from bits to exchanges. A byte is the sum of its bits and gives each of them back; a word
is its two bytes; a list of words is the bytes `WordBytes` makes of it and comes back from
them. From these follow, builder by builder, what a request holds (`IsHeaded`,
`IsCounted`), parser by parser, what a caller is handed, and handler by handler, what the
server answers and writes. The three invariants speak about the operation handed over
last and say nothing of how it came about, so `ExchangeInv` adds that: it was refused
by its builder, or answered from the memory as it is now, or answered by a device.
The tables have 1 to 256 entries (`SizeAssumption`), a reply
consists of bytes (`ReplyAssumption`), and arguments have the types of the code
(`OperationAssumption`). A list of 2^16 values or more may be accepted by its builder;
`LongRequests` shows that the request never fits a PDU, and so that whatever is exchanged
comes from a list that fits. `OnlyWhatTheDeviceSent` rules out neither a reply to another
function nor one with another count: the code takes both.

**Conversions.** `NumbersTravel`, for any bytes and strings of any length. `ConvertInv`
says that the registers are those of the value, and the value read back that of the
registers; that one undoes the other is shown form by form, in each order, on each host.

**TcpLink.** `DescriptorsAreAccounted`, `ExchangesStartInSync`,
`ReplyIsForThisRequest`, and the safety half of `ImplementsLink`. In `IInv`,
`PlaceFitsTheSocket` ties the place of the code to the socket and `StreamFitsThePlace`
says what may be on the connection. Between calls it is whole frames, repetitions of
the last answer. In transact(), each of them answers this request or the one before
it, in this order, and what was read of a frame is what is missing at the head.
A repetition older than that cannot be there: the request before would have met it and
closed the connection. So ids need only differ between two requests in a row, and
`MaxTxn` of at least two is enough.

**RtuLink.** `PortIsHeldOnce`, the safety half of `ImplementsLink`, and under
`~AnswersLate` `ReplyIsForThisRequest`, of which that is the whole difference from
the run `rtu_stale`, and `PeacefulExchangesSucceed`. In `IInv`, `NothingIsLate` says that
from the flush on, when no answer is late, all that is on the line or was read is
noise or belongs to this request; `NothingIsInTheWay` that, as long as nothing has
disturbed the exchange, what was read, what the driver holds and what the one device
is still to send are together its answer, each byte in its place.

**PortSettings.** `OldFormatDoesNotStay` and `SilencesFitTheLine`, for every rate
above 0 and any settings left on the port. The silence is that of the configured rate
and format without exception; that of the line only where the port is no slower than
configured and its characters no longer, which leaves out unknown rates above 9600 and
formats of fewer than eight bits that no parity bit makes up for.

**Crc.** `TableIsThePolynomial` and `FramesAreToldApart`, for any bytes, frames of any
length, and whatever the line makes of two neighbouring bytes. `TableAssumption`, that
each of the 256 entries is its index shifted eight times, is a statement about the
literal table and no constant; TLC evaluates it entirely. The rest is proved from it.
A shift is linear over exclusive or and loses nothing, since bit 15 shows whether the
polynomial was added; so are eight, and a turn of the loop is eight shifts
(`TurnIsEightShifts`). Then a frame is accepted just when the crc over the whole of it is
0 (`AcceptedIsZero`), two pairs of bytes never lead from one crc to one crc
(`PairsAreToldApart`), and from there equal bytes keep different crcs different. What
the loop computes over a frame takes an induction over its turns. The library's
induction theorem has a predicate as its parameter, which the provers cannot instantiate;
`InductiveSetIsNat` states induction for a set of numbers instead, from the
library's theorem that a well-founded relation has minimal elements. `CrcInv` says that
`crc` is the crc of what was fed, and the frame on the wire the one sent but for two
neighbouring bytes.

**TcpSession.** All three properties, for any number of threads, calls and
connections. For `AnswersAreFinal`, `SessionInv` adds to the client's `IInv` that each
transaction on its way or executed was sent by a call that was made, with a try no
higher than it has reached, and that an answered call is at its end. For
`AnsweredWritesStand`, `OrderInv` adds that the open connection carries one request or
its answer (`OneExchange`), that no transaction is executed twice or waits twice
(`EachOnce`), and that the answer it carries was executed after everything answered before
(`AnswerIsLast`); the proof sorts the steps into those that lose, ask, execute
and collect. For `CallsSucceedWithoutTrouble`, `TroubleInv` says place by place how many
transactions were in vain, given what the call met. It rests on `KeepsOpen = {}`: with a
link that stays open after a timeout a retry would use the dead connection again.

**GuiPanel.** `WorkerHasTheClient`, `OnlyOverdueCallsAreOrphans`, `LastCallHasItsUnit`.
In `IInv`, `CallsFit` says that a call that is still meant for a client is meant for the
panel's current one, wherever it is, and `UnitsFit` that the last one posted has the unit
the client is set to.

**ReplTool.** `JoinedWhenItMatters`, `FlagTellsTheThread`, and that the poll thread is
only ever inside the current client. `IInv` says place by place what the flag,
the poll thread, the mutex and the object in use are.

Only model-checked: liveness, and the fairness half of `ImplementsLink`, which are out of
the prover's reach. Every safety property of the passing runs is proved.

## Not modelled

- Move construction and assignment of `RtuLink`, which no tool and no test uses.
  `TcpLink` has the implicit copy operations, which would close its socket
  twice; nobody copies one.
- Windows: WinSock start-up, the serial port of the Windows API.
- Time in numbers, but for the silences of `PortSettings`: a timeout may strike whenever
  the code waits. So how long the longest call holds the mutex is not stated, only
  that it ends.
- Data races as such: `connected()` and `isReconnecting()` read plain members
  without the mutex. The models read them atomically at any point, so a torn or stale
  value is not covered.
- In `TcpSession`, two threads of the server inside one multiple write each: a write is
  atomic there, and in the server entry by entry.
- In `GuiPanel`, an unbounded queue of ticks: the timer posts a read every period
  (connection_panel.cpp:130) whether or not the last one is over, so a device slower than
  the timer fills the queue. `MaxPending` is a bound of the model. A slow device is then
  followed by a long wait of the GUI thread, which the model has only in its short form.
- The main window (`modbus_gui.cpp`) but for closing a panel: tabs, and the log, which
  the GUI thread alone writes. (Rebuilt for all tabs it has the lines of one
  panel after those of another, 109-117, where its comment says "chronologically
  interleaved". And when the window is destroyed with panels in it, `panels_`
  (145) is gone before they are, and the handler at 63 still removes them from it.)
- Printing, parsing of arguments, layout.
- The benchmark, a loop of reads in one thread. (With no COUNT it takes its last
  argument, PORT or BAUD, for one: `argc >= 4 ? atoi(argv[argc-1])`.) The mock link of the
  tests is one behaviour of `Link`. Build and deployment have no behaviour at run time.

## Plan

What is left, in this order:

1. An abstract client, one atomic exchange per call, and `ModbusClient` as its
   implementation.
2. `TcpSession` with server threads that interleave inside a multiple write.
3. The move operations of `RtuLink`, once something uses them.
4. The log of the main window.
