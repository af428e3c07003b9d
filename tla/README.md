# Verification of the cellular UTM firmware's modem driver

The repository is firmware for an mbed board (u-blox C027 with a Neul/SARA-N
NB-IoT modem). `main.cpp` connects through `CellInterface`, which drives the
modem with the u-blox AT driver in `src/dafbbf31bf76/`, and runs an LwM2M client
on top. The program's own logic is the driver: a UART with two lock-free ring
buffers and two interrupt routines, a tokenizer, an AT command engine in which
answers and unsolicited lines mix, and the book-keeping of sockets, HTTP profiles,
messages, files, positions and the data connection. That is what this project
models, and above it the loop of `main.cpp` with its client and network stack.

Files: one module per part, `MC*.cfg` (and `MC*.tla` where constants need definitions) for TLC,
`*Proofs.tla` for TLAPS,
`PROJECT.json` for the list of runs, the source lines of every definition, the
hazards and the findings. Check one run with

    tlc -workers 2 -config MCSockets.cfg MdmSockets.tla
    tlapm PipeProofs.tla

## 1. Inventory

Line numbers are in `src/`, `MDM.cpp` etc. in `src/dafbbf31bf76/`.

| component | state | operations | talks to |
|---|---|---|---|
| Pipe (`Pipe.h`) | buffer, `_w`, `_r`, `_o` | putc, put, getc, get, set, next, done, size, free | one writer, one reader in different contexts |
| SerialPipe (`SerialPipe.cpp`) | two pipes, the attached interrupts | put, putc, get, getc; txIrqBuf, rxIrqBuf | the UART |
| Tokenizer (`_getLine`, `_parseMatch`, `_parseFormated`, MDM.cpp:2192-2323) | none of its own, peeks into the receive pipe | getLine | Pipe |
| Command engine (`sendFormated`, `waitFinalResp`, MDM.cpp:135-374) | whatever the unsolicited lines update | one command, one wait, a callback per line | tokenizer, every function below |
| Data connection (MDM.cpp:400-1035) | `_init`, `_dev`, `_net`, `_ip` | init, registerNet, checkNetStatus, connect, join, disconnect, powerOff, gethostbyname | modem, network |
| Sockets (MDM.cpp:1044-1431) | `_sockets`: handle, timeout_ms, connected, pending | socketSocket, Connect, SetBlocking, Close, Free, Send, SendTo, Readable, Recv, RecvFrom | modem; `+NSONMI`, `+UUSOCL` |
| Lock (MDM.cpp:40-43, MDM.h:867-887) | a recursive mutex in `MDMRtos`, nothing in `MDMSerial` | LOCK, UNLOCK | the threads |
| HTTP profiles (MDM.cpp:1439-1708) | `_httpProfiles`: handle, timeout_ms, pending, cmd, result | find, setBlocking, free, reset, setPar, command | modem; `+UUHTTPCR` |
| SMS, USSD, files (MDM.cpp:1735-2003) | none | list, read, send, delete; read, write, delete, size of files | modem, one lock per command |
| CellLocate (MDM.cpp:2008-2113) | `_loc`, `_locRcvPos`, `_locExpPos` | request, results, data | modem; `+UULOC` |
| CellInterface, CellNet (`CellInterface.cpp`) | static `pMdm`, `mysocket`, `myip` | connect, disconnect; the socket calls of mbed's NetworkStack | driver, client library |
| LwM2M client (`simpleclient.h`, `main.cpp`) | `_registered`, `_unregistered`, `_error`, `_register_security` | register, update, unregister, callbacks | client library (external) |
| GPS parser (`GPS.cpp`) | none of its own | getMessage, UBX and NMEA patterns, sendUbx, NMEA fields | Pipe, I2C |
| socket wrappers, APN table, configuration, debug output | - | - | - |

What is hard in them:

* **Interrupts.** The pipes are shared between a thread and two interrupt routines
  without a lock; an index is loaded, used and stored in separate steps.
* **Mixed traffic.** Any wait handles unsolicited lines, which change the state a
  function has read before the wait. Answers carry no reference to the command.
* **Failure.** The modem refuses, does not answer, or its answer is cut short; the
  receive pipe drops bytes; the network takes the profile away.
* **Time.** Loops poll under a timer; a late answer meets the next command.
* **Locks.** The lock is recursive and kept across waits, functions return early.

What makes each component correct:

* Pipe: it is a bounded first-in first-out queue, and a parse may look ahead.
* SerialPipe: every byte once, in order; none is left behind; nobody waits for
  somebody he has suspended.
* Engine and sockets: the slots agree with the modem, calls take their own answers,
  report what went wrong and return.
* Lock and HTTP: one thread talks at a time, a profile has one user, a command takes
  its own result, everybody gets the lock.
* Data connection: the address is the current one or none, loops end, results
  mean what the header says.
* Tokenizers: whatever the pieces a stream arrives in, every message is handed out
  whole, once, with its type, and nothing else is; the reader does not go deaf.
* SMS, USSD, files, positions: a call reports what the modem did for its own command.
* Firmware: a socket that is used is open, a client that counts itself registered has
  been accepted, it hears of failures and keeps its registration up.

The full list of hazards, each at its line and with the properties that cover
it or the reason why none does, is in `PROJECT.json`.

## 2. Plan

Done:

1. `Pipe`, `BoundedFifo` (what a pipe promises), `PipeProofs`
2. `SerialPipe`, built on that promise
3. `MdmSockets`: engine and sockets with the modem
4. `HttpProfiles`: engine, lock and profiles with several threads
5. `DataConnection`
6. `LinePatterns`, `GpsMessages`, `MessageReader`: the tokenizers of modem and GPS
7. `MdmServices`: SMS, USSD, files and CellLocate with several threads
8. `Firmware`: main, client and network stack over the sockets; `FirmwareProofs`
9. `DataConnectionProofs`
10. `SerialPipeProofs`, `HttpProfilesProofs`
11. `MdmSocketsProofs`, and `MdmPendingProofs` built on it
12. `MdmServicesProofs`
13. `SocketService` (what the socket functions promise), that `MdmSockets` implements it, and that the pipes of
    `SerialPipe` implement `BoundedFifo`

Left open: late answers in `DataConnection`, and `tohex`/`hextostr` and the APN search against reference
definitions.

## 3. Modules

### Pipe, MCPipe

`b`, `w`, `r`, `o` are `_b`, `_w`, `_r`, `_o`. `S` is the size of the buffer. The writer's
`put` is split where an interrupt can come between its accesses to shared
state: the test of the wait loop and the choice of the chunk (`PutWait`), each byte
copied (`PutCopy`), the store of `_w` (`PutCommit`); likewise the reader's `get`. `putc` and
`getc` are the same with one byte. `Set`, `NextElement`, `Done` are `set`, `next`, `done`; `ParseReturn`
is a parser that leaves without consuming, as `_getLine` does when it needs more
bytes. The histories `sent` and `rcvd` are what has been published and consumed.

### BoundedFifo

The promise: a queue of at most `Cap` elements, one put or get of any number at a
time. `Pipe` implements it with `Cap = S - 1` (one cell stays free), with the
histories as the mapping (`FifoSpec`).

### SerialPipe, SerialPipeProofs

`pc` is the thread's place in `put`, `putc`, `txStart`/`txCopy` or `get`; `isr` the interrupt that
has suspended it. An interrupt runs to its end before the thread goes on (one
core, equal priority), while the UART transmits and receives. Each pipe is the
queue of `BoundedFifo`; of the transmit pipe the model keeps the read index as
`getc` loads and stores it, as both the thread and the interrupt call `getc`. `PipesAreFifos` says that both pipes, seen by what has been put into them and what has been taken out, still
are the queue of `BoundedFifo`: no step of the thread or of an interrupt routine takes a byte twice, passes one over or
overfills a pipe.
The transmit interrupt is level-triggered: it is pending while it is attached and the
transmitter has room.

### MdmSockets, MdmSocketsProofs, MdmPendingProofs

`sockets` is `_sockets`; of `timeout_ms` only whether it is blocking is kept. `op`, `at` and `arg` are
the call being executed, the wait it is in and its locals. `Command` sends and begins a
wait; `WaitLine` is one round of `waitFinalResp`: the unsolicited lines, the callback of
this wait, the final lines; `WaitTimeout` is its end by time. Every socket
function is a call and one action for each point where it goes on after a wait.
The data of `socketRecv` comes in a line that begins like an announcement (`+NSONMI: h,n,"data"`, `BLOCK` in the model), and the driver takes it
for both: `waitFinalResp` sets `pending` to the length of the block (MDM.cpp:199-206, `Announcing`), the callback stores the data (`CbUSORD`), and `socketRecv`
subtracts the block (MDM.cpp:1321). `cut` is the history of the slots whose `pending` was last set that way. The data of `socketRecvFrom` begins with a number
and is only data.
The modem (external) executes commands in order from `inbox` and sends lines
through `line`; it may refuse any of them. `+NSONMI` gives the number of bytes now
pending, which is how the driver takes it. The data prompt of `AT+USOWR` is modelled because
the driver never writes the payload: the modem takes the next command for it.

### SocketService

What the socket functions promise to the application, without lines, waits or polls. A call makes its `Requests` to the modem
one at a time (`Ask`); the modem carries one out once or refuses it (`Answer`), while that call waits and at no other time; the answer
may get lost (`LineLost`), and then the call learns nothing of the fate of its request, which may have had its effect. What a call returns
(`Outcome`) is decided by the fate of its own requests alone: true, 0 or a count of bytes only after "OK". A receive asks for no more than can
be had (`Available`) and counts only blocks that were read; a connect by name asks for the connection only when it has the address.
What the code does not keep is not promised: `free` returns true and `sendTo` its count in any case.

`SocketsAreService` says that `MdmSockets` implements it. The mapping reads the fate of a request off three places: `inbox` (still asked),
the final line on its way, and `ret` (`Fate`); `Asked`, `Part`, `Moved` are the command of the wait, its block and what was moved before.
So every step of waiting (lines taken, polls, time-outs, the timer) is a stutter of the service. Taking the answer of another command, executing
a command after its call has returned, or returning before its fate is known would not be.

### HttpProfiles, HttpProfilesProofs

`owner` and `depth` are the mutex of `MDMRtos`; `th[t]` is where a thread is. What a function
does under the lock without waiting is one step. `HostUnknown` and `HttpCommandUnsupported` return with
the lock taken, as the code does. The firmware of this repository uses `MDMSerial` from one
thread, whose lock is empty; `MDMRtos` is how the driver is to be used with
threads (MDM.h:868-870).

### DataConnection, DataConnectionProofs

`init`, `eps`, `ip` are `_init`, `_net.eps`, `_ip`. The commands of `init` whose answers nobody looks at
are merged where nothing can be told apart ("setup" is five of them); the commands
that set a profile up are one ("upsd"). `_dev` stays as `init` clears it, because nothing asks
for the model: the branches for LISA-C2, TOBY-L2 and MPCI-L2 cannot be reached, and without
an APN `apnconfig` gives the two default entries, which have no user names. At every
command the modem executes it and answers in full or cut short, refuses it, or does
not get it. `CellConnect` is `CellInterface::connect` with its new driver object.

### LinePatterns, GpsMessages

What the recognisers answer for the characters that are in the pipe: the length of a
message, `NOT_FOUND` or `WAIT`. `ParseMatch` is `_parseMatch`, `ParseFormated` `_parseFormated` with its `%d`,
`%c` (as many characters as the last number said) and `%s`; `lutF` and `lut` are the tables of `_getLine` with
one entry of each shape, in its order. `ParseNmea` and `ParseUbx` work on the real bytes with
their checksums; `SendUbx` makes the messages that `ParseUbx` has to recognise. `FindNmeaItemPos`,
`GetNmeaInt`, `GetNmeaChar`, `GetNmeaAngle` read fields; decimal fractions are left out.

### MessageReader, MCMessages

A device sends a stream of messages with bytes that are no message between them.
`RxIrqBuf` brings one byte into the pipe or drops it; `CallSerial` is the beginning of getLine or
getMessage (size of the pipe), `Return` the rest (free space, the loop over starts and recognisers, `pipe->get`), and
bytes arrive between the two. `Tokenize` is both loops: they differ in `GetLine` and `GetMessage` (what is done
about a beginning that is not complete when the pipe is full) and in `GetLineEnd` and `GetMessageEnd` (what is done when
nothing matches). `CallI2C` is `GPSI2C::getMessage`, which fetches the bytes itself. What was
handed out is kept in `got` as places of the stream, and compared with the messages sent.

### MdmServices, MCServices, MdmServicesProofs

`me[t]` is the function thread `t` is in, with its locals. A function takes the lock, sends its
command (`SendCommand`), takes lines with its callback (`WaitLine`, `Callback`) and returns (`ReturnAnswer`); `SendData` is
the second half of smsSend and writeFile after the prompt; `FileSized` and `BlockRead` are the loop of readFileNew, which
lets the lock go between blocks. `PollLine` is the wait of cellLocGetExpRes, which takes a
line without the lock. `position`, `locRcvPos`, `locExpPos` are `_loc[0]`, `_locRcvPos`, `_locExpPos`; a position is known by
the request it answers. The modem keeps messages and one file, prompts, and sends the position and
the USSD reply when it likes. A line says in `fresh` whether it answers the last command, which the
driver cannot see; `own` says of a call that all it took was its own. `result` keeps the locals of the last call that returned,
with what the modem did for it (`truth`) and the file. `asked` is the request a call of `cellLocGetData` may hold the modem to: the
last one before the call, if that one was alone and its position is there. The constructor sets neither `_loc` nor the two counters (MDM.cpp:114-133), and `new` leaves what
was in memory (CellInterface.cpp:76): `Init` lets the position be valid or not and the counters have any value of `Garbage`, until the first `cellLocRequest` sets them. In which order messages are listed is left to the modem (`Listed`).

### Firmware, FirmwareProofs

`main` is the place in `main()`, `client` the fields of `MbedClient`, `mysocket` the static of CellInterface.cpp. The socket functions are
atomic, with the results that `MdmSockets` shows: `SocketSocket` keeps handle 0 in slot 0, `SocketSendTo` succeeds in
every case, `SocketRecvFrom` needs an announcement. The client library is external and does one request
at a time: it binds, sends, awaits and calls back; it answers NotAllowed while it has a request. Modem, network and server are
external: datagrams and answers are lost, the server accepts or refuses, registrations lapse.

## 4. Runs

| run | bounds | shows |
|---|---|---|
| pipe | S = 3, two values, puts and gets of up to S elements, 4 elements in all | stream, no overwriting, safe look-ahead, implements the queue; a put that does not block returns |
| serial | transmit pipe 2, receive pipe 1, UART 1, 4 bytes out, 3 in | both pipes stay queues; order, nothing left behind; writes and interrupt routines end |
| sockets | 1 slot, 2 handles, blocks of 2, 2 bytes held, 2 lines on their way, 2 sockets created, one lost line, no `socketSend` and no `setBlocking` (3.8 million states) | the slot agrees with the modem, calls take their own answers, the socket functions implement `SocketService`, a close that succeeds has closed |
| sockets_live | 1 slot, 1 handle, one lost line, late answers, all calls (1.7 million states) | calls return |
| http | 2 threads (symmetric), 2 profiles, lock depth 2, 2 commands or results outstanding, all calls | exclusive use; a command takes its own result |
| http_live | 2 threads, 2 profiles, late answers | calls return, `pending` means waiting |
| connection | 2 tries, 2 settings, 3 protocols, 2 addresses, 1 line | the address, the order of connect, calls return |
| messages | pipe 25, buffer 22, 2 bytes between size() and free(); streams of two messages, or of messages and noise, for modem, serial GPS and I2C GPS | messages are handed out whole, once, in any pieces; fields are read; no message is waited for in vain; the GPS reader leaves a full pipe |
| services | 2 threads, 3 calls, 1 lost line, 1 late answer, 2 messages, a file of 3 in blocks of 2, unset counters 1, an unset position valid or not (6.1 million states) | results are true, blocks make up the file, positions belong to the request |
| firmware | 3 binds tried, 4 datagrams on their way, 2 lost | sockets in use are open, registered means accepted, failures are reported, updates go on |
| socket_sendto, http_lock | as small as shows it | the findings below |

The bounds are enough for the interesting cases to meet. A ring of three cells
wraps with chunks of one and two and is full with two. Two handles make a slot be
freed and used again while lines about the old handle are on their way; two blocks make a read
span announcements; two lines let an announcement overtake an answer. Two threads and two
profiles are what it takes for one thread to disturb another; depth 2 is the deepest
nesting of the code (`httpSetPar` calls `gethostbyname`). Two addresses let an old one survive.
In `sockets` one slot is enough because `socketSocket` only ever uses the first one
(`int socket=0`, MDM.cpp:1056); a second handle stands for the sockets the modem still has from before. `setBlocking` and
`socketSend` are left to `sockets_live`: the first only changes how long a receive waits, after the second the properties do not hold (section 5).
The pipe and the buffer of `messages` stand to the longest message as 255 and 192 do to the
lines of the modem (longer than one message, shorter than two of the long ones), and one stream holds more text than the buffer,
so the pipe overflows. Two threads and three calls let one service finish, another overlap it
and a third meet its late answer; a file of three has a full and a short block. The unset counters have one value (`Garbage = {1}`), the one
with which a position would look complete; with 0 they are as `cellLocRequest` sets them; the proofs take any set of integers. Four datagrams on their way let an old response meet
a new request.
The properties of the sockets that a lost line refutes by itself (`ConnectedIsConnected`,
`PendingIsHeld`, `RecvFromCounts`) say `lost = 0`; `AnswersAreOwn` and `FailureReported` do not.

Three properties are defined and proved but in no run: `FirstInFirstOut`, which `FifoSpec` implies, and `TxInOrder`, which `PipesAreFifos` implies
(a queue only takes what is oldest); and `TypeOK` of `Firmware`, which only says what values the variables have.

Deadlock is checked where the system cannot stop. It is switched off where a bound ends
the behaviour (bytes, sockets, sent elements, the stream of a device, calls of services) or where the code does stop:
in `http` a lost result or a lock not given back makes everybody wait.

**Fairness.** `WF` of the driver: the thread that has called is running. `WF` of interrupts and
transmitter: an enabled interrupt of a level-triggered UART is taken. `WF` of timers
and of the modem: time passes, a command that has been received is answered. `SF` of
taking the mutex: the RTOS mutex hands itself to a waiting thread, so nobody is
passed over for ever. In `messages` the thread that reads calls again and again, its calls return
(`Return` is enabled exactly while `size` is not -1), and I2C transfers do not fail for ever. In `firmware` main and the
thread of the library are scheduled and the network delivers or loses what is on its way. Nobody has to call, to send data, to close or to lose a line.

**Assumptions on the modem**, all from how the driver uses it: commands are executed in the order sent;
the lines of one answer come together; without `LateAnswers` an answer that comes at all
comes before the time-out (10 s in most waits; with late answers the driver takes them for
the next command, so that `AnswersAreOwn` and `ClosedIsClosed` do not hold then, a hazard listed without a property; `sockets_live` and
`http_live` have them and show that calls still return).

### Findings

Two runs check what a comment of the repository says and end in a violation.

* `socket_sendto`: neither answer to a datagram is looked at (MDM.cpp:1257-1260), the header
  promises `SOCKET_ERROR` on failure (MDM.h:256).
* `http_lock`: early returns keep the lock (MDM.cpp:1535, 1659) that the macros are to keep
  balanced (MDM.cpp:40).

Met while modelling, in the modules as the code has it, without a run of their own:

* the callback of `socketSocket` is called for the final line too and stores handle 0
  (MDM.cpp:1048); the firmware works because it only ever has handle 0. `PendingIsHeld` is
  stated for a slot whose handle is the one the modem gave;
* a `+UUHTTPCR` that comes after its command was given up is the result of the next command of
  the profile (MDM.cpp:280-285); `ResultIsOwn` excepts profiles whose command was given up;
* `socketFree` returns true whatever became of its close, and closes only a socket that is connected, as a datagram socket
  never is (MDM.cpp:1151-1164, "make sure it is closed"); the modem keeps such a socket. `ClosedIsClosed` is about `socketClose`;
* the comparison after the detach is inverted (MDM.cpp:1011): `disconnect` reports success when it failed, against MDM.h:188-189;
* the profile of `+UUPSDD` is compared with the character `'0'` (MDM.cpp:315), so the address stays when the network takes
  profile 0 away, against MDM.h:199-200;
* a `join` whose last answer is missing or a refusal (MDM.cpp:940) returns no address and leaves the one it has read to
  `getIpAddress`; the header says the same of both (MDM.h:183, 200);
* `checkNetStatus` asks nobody and returns true (MDM.cpp:592);
* `getLine` consumes nothing when all it looks at matches nothing (MDM.cpp:2322), where the GPS
  reader does (GPS.cpp:48): noise that fills the 192 characters makes the driver deaf.
  `EveryMessageRead` is stated for streams without that (`Readable`);
* after a block of `socketRecv` that is shorter than what the modem holds, `pending` is 0 (the block is taken for an announcement of its own length and
  then subtracted, MDM.cpp:199-206, 1292, 1321): `socketReadable` says 0, and the rest is read only after the next announcement. `PendingIsHeld` says `<=`
  of such a slot and equality of all others;
* before the first `cellLocRequest` the position and its counters are whatever was in memory (MDM.cpp:114-133), and `cellLocGetData` may return that as valid;
  `PositionIsOfRequest` speaks of the time from the first request on;
* `smsList` stops counting when its list is full and returns at most `num` (MDM.cpp:1742-1758); the header says the number "can be
  bigger than num" (MDM.h:382). `ResultIsTrue` asks for neither: a list that is not full has all messages, a full one the first
  of them, with a count of anything up to all, and nothing is written behind the list (`WithinList`);
* `cellLocGetExpRes` waits for a line without the lock (MDM.cpp:2097) and may take the answer of another
  thread, whose call is then `robbed` in the model; with two requests under way the answer to the first counts for the
  second (`alone`);
* deleting a file that does not exist is not a success, as the type that is compared (MDM.cpp:1844) is not the one
  the line gets, though the comment there says "file does not exist, so all ok"; `ResultIsTrue` allows both results (`Succeeded`). `sendNmea` sends what is behind its buffer (GPS.cpp:124-128); neither function is called
  in the repository;
* the update comes 1 ms after the lifetime of 300 s (main.cpp:182); a client whose registration has
  lapsed asks for updates that are refused and never registers again. `UpdatesGoOn` says it asks, not that it is answered.

The passing runs state what does hold with the code as it is. `FailureReported` leaves out
`socketSendTo` and `socketFree`, see above, and `socketSend`, whose third answer is not looked at. Of the others it asks for their own failure
value: false of `socketConnect` and `socketClose`, `SOCKET_ERROR` of those that return a slot or a count (`Failure`), where 0 is a success.

## 5. Proofs

`PipeProofs` proves, for every size `S > 1`, every set of values and every interleaving:

* `TypeCorrect`, `PipeIsFirstInFirstOut`, `WriterNeverOverwrites`, `PeekedIsDelivered`: the invariants of
  the run `pipe`, and that what was received is the beginning of what was sent;
* `PipeImplementsFifo`: the ring implements `BoundedFifo`.

The only assumption is `SizeAssumption`. `FirstInFirstOut` is not inductive: nothing in it says
what is in the cells. The inductive invariant `IndInv` has these parts. `Content`: the `Size`
cells from `r` on hold what was sent and not received. `WriterChunk`: the chunk the writer
copies into is among the free cells and does not wrap, and what it has copied is there; it stays
true when the reader moves, because reading only makes more cells free. `ReaderChunk`: the same
for the reader, true when the writer moves. `ParserCursor`: the cursor stands `peek` elements
from `r` and what was peeked is in the stream. `InitInv` and `StepInv` show it inductive,
with one lemma per action; the lemmas on `Inc` (`IncInjective`, `WriteMovesSize`, `ReadMovesSize`) carry the
arithmetic of wrapping. `StepRefines` maps a commit of the writer to `Put`, a commit or a `done`
of the reader to `Get`, and everything else to a stutter.

`DataConnectionProofs` proves `TypeCorrect`, `AddressIsCurrent` (`NoEarlierAddress`) and `ConnectsWhenRegistered`
(`ConnectIsRegistered`) for every `WakeTries`, `Settings`, `MaxAddress` and `MaxLines`, from
`ConnectionAssumption`. Neither property is inductive: an address or a status still on its way would
change `ip` or `eps` behind the back of `join`. `Answers` says none can: a wait ends only with the final line
of its command or when nothing is left, so behind it come only `+UUPSDD` lines, a status comes only while `init`
asks for it and an address only while `join` does, and then it is the last one. With it go `JoinForgets` (no address
between the start of `join` and its last question), `InitDone` and `ActiveIsLast`. There is one lemma per
group of functions (`AwakeningSteps`, `JoinSteps`, `RegistersStep`, `ReturnSteps`), all of which rest on three about
what any command, wait and return does (`CommandKeeps`, `WakeKeeps`, `ReturnKeeps`). This holds as far as the model: an answer is
lost or cut short, but not later than the time-out of its wait.

`FirmwareProofs` proves `TypeCorrect`, `SocketIsUsable` (`BoundIsUsable`) and `AcceptedBeforeRegistered`
(`RegisteredWasAccepted`) for every `MaxTries`, `MaxInFlight` and `MaxLost`, from `FirmwareAssumption`. The invariant
adds `Bound` (`mysocket` is 0 only with handle 0 open and in slot 0, and it is before anything is sent) and `Created`
(a `created` answer, on its way or held by the modem, comes from a server that has accepted).

`SerialPipeProofs` proves `TypeCorrect`, `BytesLeaveInOrder` (`TxInOrder`), `NoByteLeftBehind` (`TxArmed`) and `BytesAreReadInOrder`
(`RxInOrder`) for every size of the pipes and of the UART and every interleaving of thread and interrupts, from `SerialAssumption`. Thread
and transmit interrupt both take bytes with `getc`, which loads the read index and stores it in two steps, so the order of the bytes
hangs on `Owner`: while the thread copies the interrupt is off, and while the interrupt routine runs it is on, so never both have loaded
the index. `Taken` and `Sent` then say which byte is the one in hand and which are gone; `Armed` is `TxArmed` with the places of the
thread it leaves out (what has been written is either still to be started by the thread or the interrupt is on), and `Received` is
the same order for the receive side. `Room` bounds the pipes. `PipesImplementFifos` (`PipesAreFifos`) builds on them: each action of the thread and of the
interrupt routines is a `Put` or a `Get` of one of the queues or leaves both alone, because by `Owner` and `Taken` (used in `TxMoves`) the index that `getc` stores is the next one, whoever
calls it.

`HttpProfilesProofs` proves `TypeCorrect`, `OnlyOneTalks` (`OneThreadTalks`), `ProfilesAreApart` (`ProfileHasOneUser`), `PendingEnds`
(`PendingWhileWaiting`) for every number of threads and profiles and every depth of the lock, from `HttpAssumption`. `Locked` says where a
thread can be only as owner of the mutex and with which depth, early returns that keep it included; `Shared` that the profile of a thread is marked in use.
`ResultsAreOwn` (`ResultIsOwn`) has the hypothesis `LateAnswers = FALSE`, as the run `http` has: with late answers TLC refutes it, and that
hazard is listed. Its invariant adds `Answers` (one answer or none is on the wire while a thread waits, and it is its own), `Outstanding` (a command that was
accepted, whose result is still to come, has a profile that is pending or was given up) and `Own`.

`MdmSocketsProofs` proves, for every number of slots, handles, bytes, lines and sockets, from `SocketsAssumption`: `OwnAnswers` (`AnswersAreOwn`), `FailuresShow`
(`FailureReported`) and `OnlySlotZero`. `MdmPendingProofs` proves `TypeCorrect` (with pending not below zero), `NobodyStaysConnected`
(`ConnectedIsConnected`), `CountsAgree` (`PendingIsHeld`) and `CountIsReceived` (`RecvFromCounts`). All of them have the hypothesis `Prompt`, which
is what the constants of the run `sockets` say: answers come within their time-out, and `socketSend` is not called, because the data
prompt it leaves behind makes the modem swallow the next command. Both are listed hazards, and without `Prompt` the properties fail.
`MdmPendingProofs` ends with `SocketsImplementService` (`SocketsAreService`), under the same hypothesis and with any number of lines lost, and `CloseCloses` (`ClosedIsClosed`).

* The invariant `IndInv` of the first: `Answers` (one command under way at most, one final line on the wire at most, which
  answers it, and none while nobody asks), `Places` and `Locals` (in which function and with which locals a wait is entered, and which
  command is then under way), `SlotZero`, `Failures`. A lost line costs nothing here: the wait it belongs to ends by time.
* What a slot says of the modem is harder, as announcements overtake answers and are overtaken by them. `PendInv` adds: `Chain`, which compares what is
  pending, what the announcements on the wire say one after the other, and what the modem holds, each less the block (`Off`, `Owed`) of a
  read that the modem has executed and the driver has not yet taken notice of; they only grow. `Exact`: the last announcement, or else the slot, says
  just what is held, unless a block of `socketRecv` has set the slot (`cut`); then it says no more than is held. While a socket is being created the lines in front of its OK are of the time before (`Behind`), and the slot starts again (`Restarted`). `Room`: a block that is
  asked for is pending, so the modem has all of it. `Parts` and `Data`: data comes in front of its OK, with the length asked for. `Connected`: a slot that is connected, or
  is about to be, is so in the modem or the close is announced behind. TLC confirmed `PendInv` on larger instances than the run's before it was proved.
* The refinement needs no invariant of its own. While a call waits, `Fate` is what the wire says (`Lasting`), and when the wait is over it is what `waitFinalResp` has returned (`Ended`);
  that these agree at every line taken, lost or timed out (`WaitLineServes`, `LostServes`, `TimeoutServes`) is `Answers`: one final line at most, and it is that of the command under way.
  `AnswerDecides` says that the modem's answer is the only place where a fate is decided, so `Carried` needs only the effect of each command on the modem. `BeginsAsking`, `AsksNext` and `Returns` do the same for
  calls that begin, ask and end; there is one lemma per function on top. That a receive asks for no more than can be had (`CanBeHad`) is `Chain`.
* `CloseCloses` is then shown of the service, not of the code: `StaysGone` is an invariant of `SocketService` (a close that was carried out stays so until it is looked at), `EndsWithOutcome` says that a call that ends returns
  an outcome, and the refinement carries both over.

`MdmServicesProofs` proves `TypeCorrect`, `ResultCorrect` (`ResultIsTrue`), `FileCorrect` (`BlocksAreTheFile`) and `PositionCorrect`
(`PositionIsOfRequest`) for every number of threads, calls, messages, lost lines and late answers and every size of file and block, from
`ServicesAssumption` (a list or a read takes no more than `MaxFile` entries, which is the length of the buffers, a message needs two, and nobody writes an empty file). What a call
returns says nothing of the lines it took before, so none of the properties is inductive. `ServInv` adds:

* `Talks`: an undisturbed call that has the lock `Awaits` its answer in one of three ways. Its command is the last one the modem has and all on
  the wire is older (`Sent`); or the answer is on the wire (`OnWire`): behind lines that are not of it come the last n lines of it, each `Says` what the modem
  listed at that place, and what the callback has collected so far is the part in front of them (`Heard`); or the last line was taken and the buffer
  is what was listed (`Told`). A line taken moves the call from n to n - 1 (`HeardMessage`, `HeardOther`, `AnswerHeard`, `AnswerEnds`), one that is not of the
  answer leaves n (`AnswerNearer`), and what other threads and the modem add comes behind (`AwaitsGrows`, `AwaitsLoses`). `LastIsFresh` says that only the last command sent can be
  answered fresh, and the modem has it last.
* `Reads`: between blocks the ones before are in their places and what is left is the rest of the file, as long as nobody changed it.
* `Positions`: when the last request was alone, it is a command, under way in the network, a line, or the position that is kept, and never two of these
  (`OneOnItsWay`); and nothing older than what a call of `cellLocGetData` may expect can still come (`NoneOlder`).
* `Locked`: who has the mutex is in a wait and nobody else is; a function keeps to its command.
* `InRoom`: a list has no more entries than there is room for, which is the part of `ResultIsTrue` that holds of every call, disturbed or not (`RoomInvariance`).

`PositionIsOfRequest` assumes nothing of the values before the first request: `ForgetPositions` sets them, and `Positions` holds from there on.

Each action has a lemma (`WaitLineStep` to `LoseStep`); the functions rest on `DriverStep` and `SendStep`, the modem on `ModemStep` and `AnswerStep`. Every way an answer can
be disturbed (a line lost, late, polled away, a command swallowed after a prompt) is a step of the proof, which shows that it makes the call disturbed or leaves its answer whole.
The proof found that an earlier form of `PositionIsOfRequest` was too strong: it compared a result with the
requests made after the call had returned, and held only because the run has three calls. It now compares with what the call itself could ask for.

Only model-checked: the tokenizers
(`MessageReader`, with `LinePatterns` and `GpsMessages`, whose definitions are recursive and so out of the prover's reach); and every liveness property (`NonBlockingPutReturns`, `EveryByteSent`, `BlockingPutReturns`, `IsrReturns`, `CallsReturn`, `EveryMessageRead`, `NeverDeaf`,
`RegistrationReported`, `UpdatesGoOn`), since liveness under fairness is out of the prover's reach.

## 6. Not modelled

* Socket wrappers (`mdmSocket/`), used by no other file and without state of their own; the APN table,
  of which `DataConnection` takes what the default entry says; debug output and configuration.
* `MDMUsb` (its functions are empty), `DevNull`, pins and power of GPS and modem beyond `powerOff`.
* `sendNmea`, and `GPSI2C::send`, which calls itself without end.
* The functions of `CellNet` that return a constant, and those a UDP client does not use; `test_unregister`, which stands
  behind an endless loop, and the callbacks and objects of the client that only print or hold values.
* Positions with several hypotheses, `cellLocSrvTcp` and `cellLocUnsol` beyond their early return: the driver never sets the device
  type they ask for.
* The length of commands and the text of lines outside the tokenizer: there a line is one unit.
* Addresses of memory, as in `get_ip_address`, which returns a local array, and a second `connect`, which main does not make.
* The mbed client library, the mutex, the UART, I2C and the modem: external, modelled as used.
