-------------------------- MODULE MdmPendingProofs --------------------------
(***************************************************************************)
(* Proofs about MdmSockets, continued: what a slot says about its socket   *)
(* in the modem.  Only slot 0 and handle 0 are ever used (MdmSocketsProofs, *)
(* SlotZero), so all of this is about them.  It is stated for as long as   *)
(* no line is lost.                                                        *)
(*                                                                         *)
(* An announcement carries the number of bytes held when it was sent.  A   *)
(* read that the modem has executed takes its block off what is held, while *)
(* the announcements sent before, and pending, still count it: they are    *)
(* compared less that block, until the driver has taken the answer.        *)
(*                                                                         *)
(* At the end, from that and from which answer ends a wait: the functions   *)
(* are the abstract socket service, even when lines are lost.              *)
(***************************************************************************)
EXTENDS MdmSocketsProofs

(* An OK follows behind place i of the line. *)
OkAfter(i) == \E k \in 1 .. Len(line) : k > i /\ line[k].kind = "OK"

(* What a read that has been executed takes off the lines before its OK,   *)
(* and off pending.                                                        *)
Off(i) == IF Reading /\ ret = "none" /\ OkAfter(i) THEN arg.blk ELSE 0
Owed   == IF Reading /\ ret = "OK" THEN arg.blk ELSE Off(0)

(* A socket has been created: what is in front of the OK belongs to the     *)
(* time before, and slot 0 is about to start again.                        *)
Behind(i) == at = "socr" /\ ret = "none" /\ OkAfter(i)
Restarted == at = "socr" /\ (ret = "OK" \/ Behind(0))

News(i)  == line[i].kind = "NSONMI" /\ line[i].handle = 0
Value(i) == line[i].n - Off(i)
Seen     == sockets[0].pending - Owed

(* What is pending, what the announcements say one after the other and what *)
(* the modem holds only grow.                                              *)
Chain ==
  lost = 0 =>
    /\ Seen >= 0
    /\ \A i \in 1 .. Len(line) : News(i) /\ ~Restarted => Seen <= Value(i)
    /\ \A i, j \in 1 .. Len(line) :
         News(i) /\ News(j) /\ i < j /\ (Behind(i) <=> Behind(j)) => Value(i) <= Value(j)
    /\ \A i \in 1 .. Len(line) : News(i) /\ ~Behind(i) /\ 0 \in open => Value(i) <= held[0]
    /\ 0 \in open /\ ~Restarted => Seen <= held[0]

(* The last announcement says what is held, or else pending does, unless it *)
(* has been set by a block of socketRecv.                                  *)
LastSays ==
  \E i \in 1 .. Len(line) : /\ News(i) /\ ~Behind(i) /\ Value(i) = held[0]
                            /\ \A j \in 1 .. Len(line) : News(j) => j <= i
SlotSays ==
  /\ \A j \in 1 .. Len(line) : News(j) => Behind(j)
  /\ IF Restarted THEN held[0] = 0 ELSE 0 \in cut \/ Seen = held[0]

Exact ==
  (/\ lost = 0 /\ 0 \in open /\ given[Len(given)] = 0
   /\ sockets[0].handle = 0 \/ Restarted) => LastSays \/ SlotSays

(* A block that is asked for is pending. *)
Room ==
  lost = 0 /\ Reading /\ ret = "none" /\ inbox # << >> => arg.blk <= sockets[0].pending

(* A line of data has its OK behind it, has the length asked for, and has   *)
(* been counted when the OK comes.  That of socketRecv is for handle 0.     *)
Parts ==
  lost = 0 => \A i \in 1 .. Len(line) :
    /\ line[i].kind \in {"DATA", "BLOCK"} => OkAfter(i)
    /\ line[i].kind = "BLOCK" => at = "sord" /\ line[i].handle = 0

Asks == IF at = "sord" THEN "BLOCK" ELSE "DATA"
Data ==
  lost = 0 /\ Reading =>
    /\ \A i \in 1 .. Len(line) : line[i].kind = Asks => line[i].n = arg.blk
    /\ ret = "OK" => param = arg.blk
    /\ ret = "none" => \A k \in 1 .. Len(line) : line[k].kind = "OK" =>
         \/ param = arg.blk
         \/ \E i \in 1 .. Len(line) : i < k /\ line[i].kind = Asks

(* What socketRecvFrom has returned, it has received. *)
Returned ==
  lost = 0 /\ result.op = "recvFrom" /\ result.value > 0 => result.got = result.value

(* The news of a close is on its way, behind place k of the line.          *)
ClosedAfter(k) ==
  \E i \in 1 .. Len(line) : i > k /\ line[i].kind = "UUSOCL" /\ line[i].handle = 0

(* A slot that is connected, or is about to be. *)
Connected ==
  lost = 0 =>
    /\ sockets[0].connected => \/ 0 \in conn \/ ClosedAfter(0)
                               \/ at = "socl" /\ (ret = "OK" \/ (ret = "none" /\ OkAfter(0)))
    /\ at = "soco" /\ ret = "OK" => 0 \in conn \/ ClosedAfter(0)
    /\ at = "soco" /\ ret = "none" =>
         \A k \in 1 .. Len(line) : line[k].kind = "OK" => 0 \in conn \/ ClosedAfter(k)

PendInv ==
  /\ IndInv
  /\ Chain /\ Exact /\ Room /\ Parts /\ Data /\ Connected /\ Returned

----------------------------------------------------------------------------
(* Slot 0 and handle 0, and what they count. *)

(* The types of what is compared. *)
LEMMA Counted ==
  ASSUME IndInv
  PROVE  /\ sockets[0].pending \in Int /\ arg.blk \in Nat /\ held[0] \in Nat
         /\ Len(line) \in Nat
         /\ \A i \in 1 .. Len(line) : line[i] \in Lined /\ line[i].n \in Nat
         /\ lost \in Nat
  <1>1. sockets[0] \in Slot /\ arg \in Args
    BY ZeroIsSlot DEF IndInv, DriverTypes
  <1>2. held[0] \in Nat /\ lost \in Nat
    BY ZeroIsSlot, SocketsAssumption DEF IndInv, ModemTypes
  <1>3. line \in Seq(Lined)
    BY DEF IndInv, WireTypes
  <1>4. Len(line) \in Nat /\ \A i \in 1 .. Len(line) : line[i] \in Lined
    BY <1>3
  <1> QED
    BY <1>1, <1>2, <1>4 DEF Slot, Args, Lined

(* So are their differences. *)
LEMMA Differ ==
  ASSUME IndInv
  PROVE  /\ Owed \in Nat /\ Seen \in Int
         /\ \A i : Off(i) \in Nat
         /\ \A i \in 1 .. Len(line) : Value(i) \in Int
  <1>1. \A i : Off(i) \in Nat
    BY Counted DEF Off
  <1>2. Owed \in Nat
    BY <1>1, Counted DEF Owed
  <1> QED
    BY <1>1, <1>2, Counted DEF Value, Seen

(* No read and no new socket is about to be taken notice of. *)
Settled ==
  /\ \A i \in 1 .. Len(line) : line[i].kind # "OK"
  /\ ~(at \in {"socr", "sord", "sorf"} /\ ret = "OK")

(* Then nothing is taken off, and nothing belongs to the time before.      *)
LEMMA SettledIs ==
  ASSUME IndInv, Settled
  PROVE  /\ Owed = 0 /\ ~Restarted /\ Seen = sockets[0].pending
         /\ \A i : Off(i) = 0 /\ ~Behind(i) /\ ~OkAfter(i)
         /\ \A i \in 1 .. Len(line) : Value(i) = line[i].n
  <1>1. \A i : ~OkAfter(i)
    BY DEF Settled, OkAfter
  <1>2. \A i : Off(i) = 0 /\ ~Behind(i)
    BY <1>1 DEF Off, Behind
  <1>3. Owed = 0 /\ ~Restarted
    BY <1>2 DEF Owed, Restarted, Settled, Reading
  <1> QED
    BY <1>1, <1>2, <1>3, Counted DEF Seen, Value

(* What the two invariants say when all is settled. *)
SettledChain ==
  lost = 0 =>
    /\ sockets[0].pending >= 0
    /\ \A i \in 1 .. Len(line) : News(i) => sockets[0].pending <= line[i].n
    /\ \A i, j \in 1 .. Len(line) : News(i) /\ News(j) /\ i < j => line[i].n <= line[j].n
    /\ \A i \in 1 .. Len(line) : News(i) /\ 0 \in open => line[i].n <= held[0]
    /\ 0 \in open => sockets[0].pending <= held[0]

SettledExact ==
  (/\ lost = 0 /\ 0 \in open /\ given[Len(given)] = 0 /\ sockets[0].handle = 0) =>
    \/ \E i \in 1 .. Len(line) : /\ News(i) /\ line[i].n = held[0]
                                 /\ \A j \in 1 .. Len(line) : News(j) => j <= i
    \/ /\ \A j \in 1 .. Len(line) : ~News(j)
       /\ 0 \in cut \/ sockets[0].pending = held[0]

(* They say no less. *)
LEMMA SettledSays ==
  ASSUME IndInv, Settled
  PROVE  (Chain <=> SettledChain) /\ (Exact <=> SettledExact)
  <1>1. /\ ~Restarted /\ Seen = sockets[0].pending
        /\ \A i : ~Behind(i)
        /\ \A i \in 1 .. Len(line) : Value(i) = line[i].n
    BY SettledIs
  <1>2. Chain <=> SettledChain
    BY <1>1 DEF Chain, SettledChain
  <1>3. Exact <=> SettledExact
    BY <1>1 DEF Exact, LastSays, SlotSays, SettledExact
  <1> QED
    BY <1>2, <1>3

(* The lines of two states say the same. *)
LEMMA AlikeNews ==
  ASSUME WireTypes, WireTypes', Alike(line', line)
  PROVE  /\ Len(line') = Len(line)
         /\ \A i \in 1 .. Len(line) : /\ line'[i].kind = line[i].kind
                                      /\ line'[i].handle = line[i].handle
                                      /\ line'[i].n = line[i].n
                                      /\ News(i)' <=> News(i)
  BY DEF Alike, News

(* From a settled state to a settled state with the same slot. *)
LEMMA StillSettled ==
  ASSUME IndInv, IndInv', Settled, Settled', Chain, Exact, Alike(line', line),
         sockets'[0].pending = sockets[0].pending, sockets'[0].handle = sockets[0].handle,
         0 \in cut => 0 \in cut', UNCHANGED <<modem, lost>>
  PROVE  Chain' /\ Exact'
  <1>1. SettledChain /\ SettledExact
    BY SettledSays
  <1>2. /\ Len(line') = Len(line)
        /\ \A i \in 1 .. Len(line) : line'[i].n = line[i].n /\ (News(i)' <=> News(i))
    BY AlikeNews DEF IndInv
  <1>3. UNCHANGED <<open, held, given, lost>>
    BY DEF modem
  <1>4. SettledChain'
    BY <1>1, <1>2, <1>3 DEF SettledChain
  <1>5. SettledExact'
    BY <1>1, <1>2, <1>3 DEF SettledExact
  <1>6. (Chain <=> SettledChain)' /\ (Exact <=> SettledExact)'
    BY SettledSays, PTL
  <1> QED
    BY <1>4, <1>5, <1>6

----------------------------------------------------------------------------
(* The driver between two waits. *)

(* Nobody waits: no final line is there, and no data without its OK.       *)
LEMMA NothingToCome ==
  ASSUME PendInv, ~Asking
  PROVE  /\ \A i \in 1 .. Len(line) : line[i].kind \notin Final
         /\ lost = 0 => \A i \in 1 .. Len(line) : line[i].kind \notin {"DATA", "BLOCK"}
         /\ inbox = << >>
  <1>1. /\ \A i \in 1 .. Len(line) : line[i].kind \notin Final
        /\ inbox = << >>
    BY Quiet DEF PendInv, IndInv
  <1> QED
    BY <1>1 DEF PendInv, Parts, OkAfter, Final

(* What the driver does then, whatever it counts. *)
LEMMA DriverRest ==
  ASSUME PendInv, IndInv', ~Asking,
         Alike(line', line), UNCHANGED <<modem, lost>>, ret' # "OK",
         sockets'[0].connected => sockets[0].connected \/ (at = "soco" /\ ret = "OK"),
         ~(at = "socl" /\ ret = "OK" /\ sockets'[0].connected),
         Reading' => arg'.blk <= sockets'[0].pending
  PROVE  Settled' /\ Room' /\ Parts' /\ Data' /\ Connected'
  <1>1. /\ \A i \in 1 .. Len(line) : line[i].kind \notin Final
        /\ lost = 0 => \A i \in 1 .. Len(line) : line[i].kind \notin {"DATA", "BLOCK"}
    BY NothingToCome
  <1>2. /\ Len(line') = Len(line)
        /\ \A i \in 1 .. Len(line) : /\ line'[i].kind = line[i].kind
                                     /\ line'[i].handle = line[i].handle
    BY AlikeNews DEF PendInv, IndInv
  <1>3. /\ \A i \in 1 .. Len(line') : line'[i].kind \notin Final
        /\ lost' = 0 => \A i \in 1 .. Len(line') : line'[i].kind \notin {"DATA", "BLOCK"}
    BY <1>1, <1>2
  <1>4. Settled'
    BY <1>3 DEF Settled, Final
  <1>5. Room'
    BY DEF Room
  <1>6. Parts' /\ Data'
    BY <1>3 DEF Parts, Data, Asks, Final
  <1>7. Connected'
    <2>1. ClosedAfter(0) => ClosedAfter(0)'
      BY <1>2 DEF ClosedAfter
    <2>2. ~OkAfter(0)
      BY <1>1 DEF OkAfter, Final
    <2>3. conn' = conn /\ lost' = lost
      BY DEF modem
    <2>4. CASE lost = 0
      <3>1. sockets'[0].connected => 0 \in conn \/ ClosedAfter(0)
        BY <2>2, <2>4 DEF PendInv, Connected
      <3>2. \A i \in 1 .. Len(line') : line'[i].kind # "OK"
        BY <1>3 DEF Final
      <3> QED
        BY <2>1, <2>3, <3>1, <3>2 DEF Connected
    <2> QED
      BY <2>3, <2>4 DEF Connected
  <1> QED
    BY <1>4, <1>5, <1>6, <1>7

(* It leaves slot 0 and the modem in step, as long as it does not count.   *)
LEMMA DriverKeeps ==
  ASSUME PendInv, IndInv', ~Asking, ~(at \in {"socr", "sord", "sorf"} /\ ret = "OK"),
         Alike(line', line), UNCHANGED <<modem, lost>>, ret' # "OK",
         sockets'[0].pending = sockets[0].pending, sockets'[0].handle = sockets[0].handle,
         sockets'[0].connected => sockets[0].connected \/ (at = "soco" /\ ret = "OK"),
         ~(at = "socl" /\ ret = "OK" /\ sockets'[0].connected),
         Reading' => arg'.blk <= sockets'[0].pending,
         0 \in cut => 0 \in cut', Returned'
  PROVE  PendInv'
  <1>1. Settled' /\ Room' /\ Parts' /\ Data' /\ Connected'
    BY DriverRest
  <1>2. Settled
    BY NothingToCome DEF Settled, Final
  <1>3. Chain' /\ Exact'
    BY <1>1, <1>2, StillSettled DEF PendInv
  <1> QED
    BY <1>1, <1>3 DEF PendInv

(* The lines a call leaves on the wire. *)
LEMMA LinesAlike ==
  ASSUME WireTypes, line' = line \/ line' = Old(line)
  PROVE  Alike(line', line)
  <1>1. Alike(Old(line), line)
    BY OldLines DEF WireTypes
  <1>2. Alike(line, line)
    BY DEF Alike
  <1> QED
    BY <1>1, <1>2

(* A call begins, goes on or returns without a word about slot 0.          *)
LEMMA CallKeeps ==
  ASSUME PendInv, IndInv', ~Asking, ~(at \in {"socr", "sord", "sorf"} /\ ret = "OK"),
         at # "socl" \/ ret # "OK" \/ sockets[0].connected = FALSE,
         line' = line \/ line' = Old(line), UNCHANGED <<sockets, modem, lost>>, ret' # "OK",
         at' \notin {"sord", "sorf"},
         0 \in cut => 0 \in cut', Returned'
  PROVE  PendInv'
  <1>1. Alike(line', line)
    BY LinesAlike DEF PendInv, IndInv
  <1> QED
    BY <1>1, DriverKeeps DEF Reading

(* Every call begins so. *)
LEMMA CallPend ==
  ASSUME PendInv, Call
  PROVE  PendInv'
  <1>1. IndInv'
    BY StepInv DEF Next, PendInv
  <1>2. op = "none" => /\ ~Asking /\ ~(at \in {"socr", "sord", "sorf"} /\ ret = "OK")
                       /\ at # "socl"
    BY Between DEF PendInv
  <1>3. Returned /\ (UNCHANGED <<result, lost>> => Returned')
    BY DEF PendInv, Returned
  <1>4. CASE SocketSocket
    BY <1>1, <1>2, <1>3, <1>4, CallKeeps DEF SocketSocket, Start, Command
  <1>5. ASSUME NEW s \in Slots, NEW b \in BOOLEAN, SocketConnect(s, b)
        PROVE  PendInv'
    BY <1>1, <1>2, <1>3, <1>5, CallKeeps DEF SocketConnect, Start, Command, Goto
  <1>6. ASSUME NEW s \in Slots, NEW b \in BOOLEAN, SocketSetBlocking(s, b)
        PROVE  PendInv'
    <2>1. /\ sockets' = [sockets EXCEPT ![s].blocking = b]
          /\ op = "none" /\ UNCHANGED <<at, ret, arg, cut, result, line, modem, lost>>
      BY <1>6 DEF SocketSetBlocking, wait
    <2>2. /\ sockets'[0].pending = sockets[0].pending
          /\ sockets'[0].handle = sockets[0].handle
          /\ sockets'[0].connected = sockets[0].connected
      BY <2>1, ZeroIsSlot DEF PendInv, IndInv, DriverTypes, Slot
    <2>3. Alike(line', line)
      BY <2>1, LinesAlike DEF PendInv, IndInv
    <2>4. ret' # "OK" /\ ~Reading'
      BY <2>1, Between DEF PendInv, IndInv, Places, Reading
    <2> QED
      BY <1>1, <1>2, <1>3, <2>1, <2>2, <2>3, <2>4, DriverKeeps
  <1>7. ASSUME NEW f \in {"close", "free"}, NEW s \in Slots, SocketClose(f, s)
        PROVE  PendInv'
    BY <1>1, <1>2, <1>3, <1>7, CallKeeps DEF SocketClose, Start, Command, Goto
  <1>8. ASSUME NEW s \in Slots, NEW n \in 1 .. MaxLen, SocketSendTo(s, n)
        PROVE  PendInv'
    BY <1>1, <1>2, <1>3, <1>8, CallKeeps DEF SocketSendTo, Start, Command
  <1>9. ASSUME NEW s \in Slots, SocketReadable(s)
        PROVE  PendInv'
    BY <1>1, <1>2, <1>3, <1>9, CallKeeps DEF SocketReadable, Start, Poll, Goto
  <1>10. ASSUME NEW f, NEW s \in Slots, NEW n \in 1 .. MaxLen, Recv(f, s, n)
         PROVE  PendInv'
    BY <1>1, <1>2, <1>3, <1>10, CallKeeps DEF Recv, Start, Goto
  <1>11. ASSUME NEW s, NEW n, SocketSend(s, n)
         PROVE  FALSE
    BY <1>11 DEF SocketSend, Start, PendInv, IndInv, Prompt
  <1> QED
    BY <1>4, <1>5, <1>6, <1>7, <1>8, <1>9, <1>10, <1>11 DEF Call

(* A return that is not that of a receive counts nothing. *)
LEMMA ReturnCounts ==
  ASSUME IndInv, NEW v \in Int, Return(v), op # "recvFrom" \/ v <= 0
  PROVE  /\ Returned' /\ line' = line /\ ret' = "none" /\ at' = "none"
         /\ op # "socket" => cut' = cut
  <1>1. result'.op = op /\ result'.value = v
    BY DEF Return
  <1> QED
    BY <1>1 DEF Returned, Return

(* socketConnect, once the host is known, or refused. *)
LEMMA ConnectPend ==
  ASSUME PendInv, SocketConnectSend \/ SocketConnectRefused
  PROVE  PendInv'
  <1>1. IndInv'
    BY StepInv DEF Next, Driver, PendInv
  <1>2. at \in {"dns", "resolved"} /\ (ret # "none" \/ at = "resolved")
    BY DEF SocketConnectSend, SocketConnectRefused, Resolved
  <1>3. ~Asking
    BY <1>2, NotAsking DEF PendInv, IndInv, Places
  <1>4. Returned /\ op = "connect"
    BY <1>2 DEF PendInv, IndInv, Places
  <1>5. CASE SocketConnectSend
    <2>1. /\ line' = Old(line) /\ at' = "soco" /\ ret' = "none"
          /\ UNCHANGED <<sockets, cut, result, modem, lost>>
      BY <1>5 DEF SocketConnectSend, Command
    <2>2. Returned'
      BY <1>4, <2>1 DEF Returned
    <2> QED
      BY <1>1, <1>2, <1>3, <2>1, <2>2, CallKeeps
  <1>6. CASE SocketConnectRefused
    <2>1. PICK zero \in Int : zero = 0
      OBVIOUS
    <2>2. Return(zero) /\ UNCHANGED <<sockets, modem, lost>> /\ zero <= 0
      BY <1>6, <2>1 DEF SocketConnectRefused
    <2>3. Returned' /\ line' = line /\ ret' = "none" /\ at' = "none" /\ (op # "socket" => cut' = cut)
      BY <2>2, ReturnCounts DEF PendInv
    <2> QED
      BY <1>1, <1>2, <1>3, <1>4, <2>2, <2>3, CallKeeps
  <1> QED
    BY <1>5, <1>6

(* The answer to the connect: the modem has connected the socket.          *)
LEMMA ConnectDonePend ==
  ASSUME PendInv, SocketConnectDone
  PROVE  PendInv'
  <1>1. IndInv'
    BY StepInv DEF Next, Driver, PendInv
  <1>2. at = "soco" /\ ret # "none" /\ UNCHANGED <<modem, lost>>
    BY DEF SocketConnectDone
  <1>3. ~Asking
    BY <1>2, NotAsking
  <1>4. arg.socket = 0 /\ sockets[0].handle = 0 /\ op = "connect"
    BY <1>2 DEF PendInv, IndInv, Locals, OnZero, Places
  <1>5. /\ sockets'[0].pending = sockets[0].pending /\ sockets'[0].handle = sockets[0].handle
        /\ sockets'[0].connected => sockets[0].connected \/ ret = "OK"
    <2>1. CASE ret = "OK"
      <3>1. sockets' = [sockets EXCEPT ![0].connected = TRUE]
        BY <1>4, <2>1 DEF SocketConnectDone
      <3> QED
        BY <1>4, <2>1, <3>1, SetConnected DEF PendInv
    <2>2. CASE ret # "OK"
      BY <2>2 DEF SocketConnectDone
    <2> QED
      BY <2>1, <2>2
  <1>6. PICK v \in Int : Return(v)
    <2>1. (IF ret = "OK" THEN 1 ELSE 0) \in Int
      OBVIOUS
    <2> QED
      BY <2>1 DEF SocketConnectDone
  <1>7. Returned' /\ line' = line /\ ret' = "none" /\ at' = "none" /\ (op # "socket" => cut' = cut)
    BY <1>4, <1>6, ReturnCounts DEF PendInv
  <1>8. Alike(line', line)
    BY <1>7, LinesAlike DEF PendInv, IndInv
  <1> QED
    BY <1>1, <1>2, <1>3, <1>4, <1>5, <1>7, <1>8, DriverKeeps DEF Reading

(* socketClose. *)
LEMMA CloseDonePend ==
  ASSUME PendInv, SocketCloseDone
  PROVE  PendInv'
  <1>1. IndInv'
    BY StepInv DEF Next, Driver, PendInv
  <1>2. /\ op = "close" /\ UNCHANGED <<modem, lost>>
        /\ at = "closed" \/ (at = "socl" /\ ret # "none")
    BY DEF SocketCloseDone
  <1>3. ~Asking
    BY <1>2, NotAsking DEF PendInv, IndInv, Places
  <1>4. /\ sockets'[0].pending = sockets[0].pending /\ sockets'[0].handle = sockets[0].handle
        /\ sockets'[0].connected => sockets[0].connected
        /\ at = "socl" /\ ret = "OK" => sockets'[0].connected = FALSE
    <2>1. CASE at = "socl" /\ ret = "OK"
      <3>1. arg.socket = 0 /\ sockets[0].handle = 0
        BY <2>1 DEF PendInv, IndInv, Locals, OnZero
      <3>2. sockets' = [sockets EXCEPT ![0].connected = FALSE]
        BY <2>1, <3>1 DEF SocketCloseDone
      <3> QED
        BY <3>1, <3>2, SetConnected DEF PendInv
    <2>2. CASE ~(at = "socl" /\ ret = "OK")
      BY <2>2 DEF SocketCloseDone
    <2> QED
      BY <2>1, <2>2
  <1>5. PICK v \in Int : Return(v)
    <2>1. (IF at = "socl" /\ ret = "OK" THEN 1 ELSE 0) \in Int
      OBVIOUS
    <2> QED
      BY <2>1 DEF SocketCloseDone
  <1>6. Returned' /\ line' = line /\ ret' = "none" /\ at' = "none" /\ (op # "socket" => cut' = cut)
    BY <1>2, <1>5, ReturnCounts DEF PendInv
  <1>7. Alike(line', line)
    BY <1>6, LinesAlike DEF PendInv, IndInv
  <1>8. ~(at = "socl" /\ ret = "OK" /\ sockets'[0].connected)
    BY <1>4
  <1> QED
    BY <1>1, <1>2, <1>3, <1>4, <1>6, <1>7, <1>8, DriverKeeps DEF Reading

(* socketSendTo and socketReadable. *)
LEMMA SendToPend ==
  ASSUME PendInv, SocketSendToMore \/ SocketSendToDone \/ SocketReadableDone
  PROVE  PendInv'
  <1>1. IndInv'
    BY StepInv DEF Next, Driver, PendInv
  <1>2. at \in {"sost", "sost2", "readable", "unreadable"} /\ ret # "none"
    BY DEF SocketSendToMore, SocketSendToDone, SocketReadableDone
  <1>3. ~Asking /\ op \in {"sendTo", "readable"}
    BY <1>2, NotAsking DEF PendInv, IndInv, Places
  <1>4. Returned
    BY DEF PendInv
  <1>5. CASE SocketSendToMore
    <2>1. /\ line' \in {line, Old(line)} /\ at' \in {"sost", "sost2"} /\ ret' = "none"
          /\ UNCHANGED <<sockets, cut, result, modem, lost>>
      BY <1>5 DEF SocketSendToMore, Command, WaitMore
    <2>2. Returned'
      BY <1>4, <2>1 DEF Returned
    <2> QED
      BY <1>1, <1>2, <1>3, <2>1, <2>2, CallKeeps
  <1>6. CASE SocketSendToDone \/ SocketReadableDone
    <2>1. PICK v \in Int : Return(v)
      <3>1. CASE SocketSendToDone
        <4>1. arg.cnt + 1 \in Int
          BY DEF PendInv, IndInv, DriverTypes, Args
        <4> QED
          BY <3>1, <4>1 DEF SocketSendToDone
      <3>2. CASE SocketReadableDone
        <4> DEFINE v == IF at = "readable" /\ sockets[arg.socket].connected
                        THEN sockets[arg.socket].pending ELSE SOCKET_ERROR
        <4>1. arg.socket \in Slots
          BY <3>2 DEF SocketReadableDone, PendInv, IndInv, Places, Locals
        <4>2. v \in Int
          BY <4>1 DEF PendInv, IndInv, DriverTypes, Slot, SOCKET_ERROR
        <4>3. Return(v)
          BY <3>2 DEF SocketReadableDone
        <4> QED
          BY <4>2, <4>3
      <3> QED
        BY <1>6, <3>1, <3>2
    <2>2. Returned' /\ line' = line /\ ret' = "none" /\ at' = "none" /\ (op # "socket" => cut' = cut)
      BY <1>3, <2>1, ReturnCounts DEF PendInv
    <2>3. UNCHANGED <<sockets, modem, lost>>
      BY <1>6 DEF SocketSendToDone, SocketReadableDone
    <2> QED
      BY <1>1, <1>2, <1>3, <2>2, <2>3, CallKeeps
  <1> QED
    BY <1>5, <1>6

(* A read is asked for, of what is pending. *)
LEMMA RecvCommandPend ==
  ASSUME PendInv, RecvCommand
  PROVE  PendInv'
  <1>1. IndInv'
    BY StepInv DEF Next, Driver, PendInv
  <1>2. /\ InLoop /\ Block > 0 /\ arg' = [arg EXCEPT !.blk = Block]
        /\ line' = Old(line) /\ ret' = "none" /\ UNCHANGED <<sockets, cut, result, modem, lost>>
    BY DEF RecvCommand, Command
  <1>3. ~Asking /\ at = "loop" /\ arg \in Args
    BY <1>2, Looping DEF PendInv
  <1>4. arg.socket = 0 /\ Block <= sockets[0].pending
    BY <1>2, BlockIs DEF PendInv
  <1> HIDE DEF Block
  <1>5. arg'.blk <= sockets'[0].pending
    BY <1>2, <1>3, <1>4 DEF Args
  <1>6. Alike(line', line)
    BY <1>2, LinesAlike DEF PendInv, IndInv
  <1>7. Returned'
    BY <1>2 DEF PendInv, Returned
  <1> QED
    BY <1>1, <1>2, <1>3, <1>5, <1>6, <1>7, DriverKeeps

(* The receive functions poll and give up. *)
LEMMA RecvPollPend ==
  ASSUME PendInv, RecvPoll \/ RecvPolled \/ RecvGiveUp
  PROVE  PendInv'
  <1>1. IndInv'
    BY StepInv DEF Next, Driver, PendInv
  <1>2. Returned
    BY DEF PendInv
  <1>3. CASE RecvPoll
    <2>1. /\ InLoop /\ line' = Old(line) /\ ret' = "none" /\ at' = "polled"
          /\ UNCHANGED <<sockets, cut, result, modem, lost>>
      BY <1>3 DEF RecvPoll, Poll
    <2>2. ~Asking /\ at = "loop"
      BY <2>1, Looping DEF PendInv
    <2>3. Returned'
      BY <1>2, <2>1 DEF Returned
    <2> QED
      BY <1>1, <2>1, <2>2, <2>3, CallKeeps
  <1>4. CASE RecvPolled
    <2>1. at = "polled" /\ ret # "none" /\ ret = "WAIT"
      BY <1>4 DEF RecvPolled, PendInv, IndInv, Places
    <2>2. /\ line' = line /\ ret' = "go" /\ at' = "loop"
          /\ UNCHANGED <<sockets, cut, result, modem, lost>>
      BY <1>4, <2>1 DEF RecvPolled, Goto
    <2>3. ~Asking /\ Returned'
      BY <1>2, <2>1, <2>2, NotAsking DEF Returned
    <2> QED
      BY <1>1, <2>1, <2>2, <2>3, CallKeeps
  <1>5. CASE RecvGiveUp
    <2>1. InLoop /\ UNCHANGED <<sockets, modem, lost>>
      BY <1>5 DEF RecvGiveUp
    <2>2. ~Asking /\ at = "loop" /\ arg.cnt \in Nat /\ (op = "recvFrom" => arg.cnt = 0)
          /\ op # "socket"
      BY <2>1, Looping DEF PendInv
    <2>3. PICK v \in Int : Return(v) /\ (op # "recvFrom" \/ v <= 0)
      <3>1. Return(arg.cnt) \/ Return(SOCKET_ERROR)
        BY <1>5 DEF RecvGiveUp
      <3>2. SOCKET_ERROR \in Int /\ SOCKET_ERROR <= 0
        BY DEF SOCKET_ERROR
      <3> QED
        BY <2>2, <3>1, <3>2
    <2>4. Returned' /\ line' = line /\ ret' = "none" /\ at' = "none" /\ (op # "socket" => cut' = cut)
      BY <2>3, ReturnCounts DEF PendInv
    <2> QED
      BY <1>1, <2>1, <2>2, <2>4, CallKeeps
  <1> QED
    BY <1>3, <1>4, <1>5

(* The timer changes nothing of this. *)
LEMMA TimerPend ==
  ASSUME PendInv, TimerExpires
  PROVE  PendInv'
  <1>1. IndInv'
    BY StepInv DEF Next, PendInv
  <1>2. UNCHANGED <<sockets, arg, at, ret, param, cut, result, inbox, line, open, conn, held,
                    given, lost>>
    BY DEF TimerExpires, wait, modem
  <1>3. Chain' /\ Exact'
    BY <1>2 DEF PendInv, Chain, Exact, LastSays, SlotSays, Seen, Value, Owed, Off, Behind,
                Restarted, News, OkAfter, Reading
  <1>4. Room' /\ Parts' /\ Data' /\ Returned'
    BY <1>2 DEF PendInv, Room, Reading, Parts, Data, Asks, OkAfter, Returned
  <1>5. Connected'
    BY <1>2 DEF PendInv, Connected, ClosedAfter, OkAfter
  <1> QED
    BY <1>1, <1>3, <1>4, <1>5 DEF PendInv

(* A wait that ends without an answer leaves nothing to take notice of.    *)
LEMMA TimeoutPend ==
  ASSUME PendInv, WaitTimeout
  PROVE  PendInv'
  <1>1. IndInv'
    BY StepInv DEF Next, Driver, PendInv
  <1>2. /\ ret = "none" /\ line = << >> /\ ret' = "WAIT" /\ (poll \/ inbox = << >>)
        /\ UNCHANGED <<sockets, op, at, arg, cut, result, inbox, line, modem, lost>>
    BY DEF WaitTimeout, PendInv, IndInv, Prompt
  <1>3. Len(line) = 0 /\ line' = line
    BY <1>2
  <1>4. Settled /\ Settled' /\ Alike(line', line)
    BY <1>2, <1>3 DEF Settled, Alike
  <1>5. Chain' /\ Exact'
    BY <1>1, <1>2, <1>4, StillSettled DEF PendInv
  <1>6. Room' /\ Parts' /\ Data' /\ Returned'
    BY <1>2, <1>3 DEF PendInv, Room, Parts, Data, Returned
  <1>7. Connected'
    <2>1. ~OkAfter(0) /\ ~ClosedAfter(0) /\ conn' = conn
      BY <1>2, <1>3 DEF OkAfter, ClosedAfter, modem
    <2> QED
      BY <1>2, <2>1 DEF PendInv, Connected
  <1> QED
    BY <1>1, <1>5, <1>6, <1>7 DEF PendInv

(* Slot 0 starts again: what was in front of the OK has been taken.        *)
LEMMA SocketPend ==
  ASSUME PendInv, SocketSocketDone
  PROVE  PendInv'
  <1>1. IndInv'
    BY StepInv DEF Next, Driver, PendInv
  <1>2. at = "socr" /\ ret # "none" /\ UNCHANGED <<modem, lost>> /\ op = "socket"
    BY DEF SocketSocketDone, PendInv, IndInv, Places
  <1>3. ~Asking
    BY <1>2, NotAsking
  <1>4. PICK v \in Int : Return(v)
    BY DEF SocketSocketDone, SOCKET_ERROR
  <1>5. Returned' /\ line' = line /\ ret' = "none" /\ at' = "none" /\ (op # "socket" => cut' = cut)
    BY <1>2, <1>4, ReturnCounts DEF PendInv
  <1>6. CASE ret # "OK"
    <2>1. sockets' = sockets /\ (0 \in cut => 0 \in cut')
      BY <1>6 DEF SocketSocketDone, Return, SOCKET_ERROR
    <2> QED
      BY <1>1, <1>2, <1>3, <1>5, <1>6, <2>1, CallKeeps
  <1>7. CASE ret = "OK"
    <2>1. handle = 0
      BY <1>2, <1>7 DEF PendInv, IndInv, Locals
    <2>2. sockets' = [sockets EXCEPT ![0] = [FreeSlot EXCEPT !.handle = handle]]
      BY <1>7, <2>1 DEF SocketSocketDone, SOCKET_ERROR
    <2>3. sockets'[0].pending = 0 /\ sockets'[0].connected = FALSE
      BY <2>2, ZeroIsSlot DEF PendInv, IndInv, DriverTypes, FreeSlot
    <2>4. Alike(line', line)
      BY <1>5, LinesAlike DEF PendInv, IndInv
    <2>5. Settled' /\ Room' /\ Parts' /\ Data' /\ Connected'
      BY <1>1, <1>2, <1>3, <1>5, <2>3, <2>4, DriverRest DEF Reading
    <2>6. /\ Restarted
          /\ \A i : Off(i) = 0 /\ ~Behind(i)
      BY <1>2, <1>7 DEF Restarted, Off, Behind, Reading
    <2>7. \A i \in 1 .. Len(line) : Value(i) = line[i].n /\ line[i].n \in Nat
      BY <2>6, Counted DEF Value, PendInv
    <2>8. held[0] \in Nat /\ UNCHANGED <<open, held, given, lost>>
          /\ \A i \in 1 .. Len(line) : News(i)' <=> News(i)
      BY <1>2, <1>5, Counted DEF modem, News, PendInv
    <2>9. SettledChain'
      <3>1. /\ lost = 0 => \A i, j \in 1 .. Len(line) :
                             News(i) /\ News(j) /\ i < j => line[i].n <= line[j].n
            /\ lost = 0 => \A i \in 1 .. Len(line) : News(i) /\ 0 \in open => line[i].n <= held[0]
        BY <2>6, <2>7 DEF PendInv, Chain
      <3>2. \A i \in 1 .. Len(line) : 0 <= line[i].n
        BY <2>7
      <3>3. 0 <= held[0] /\ sockets'[0].pending >= 0
        BY <2>3, <2>8
      <3> QED
        BY <1>5, <2>3, <2>8, <3>1, <3>2, <3>3 DEF SettledChain
    <2>10. SettledExact'
      <3>1. ASSUME lost = 0, 0 \in open, given[Len(given)] = 0
            PROVE  LastSays \/ SlotSays
        BY <2>6, <3>1 DEF PendInv, Exact
      <3>2. LastSays => \E i \in 1 .. Len(line) :
                          /\ News(i) /\ line[i].n = held[0]
                          /\ \A j \in 1 .. Len(line) : News(j) => j <= i
        BY <2>7 DEF LastSays
      <3>3. SlotSays => (\A j \in 1 .. Len(line) : ~News(j)) /\ held[0] = 0
        BY <2>6 DEF SlotSays
      <3> QED
        BY <1>5, <2>3, <2>8, <3>1, <3>2, <3>3 DEF SettledExact
    <2>11. Chain' /\ Exact'
      <3>1. (Chain <=> SettledChain)' /\ (Exact <=> SettledExact)'
        BY <1>1, <2>5, SettledSays, PTL
      <3> QED
        BY <2>9, <2>10, <3>1
    <2> QED
      BY <1>1, <1>5, <2>5, <2>11 DEF PendInv
  <1> QED
    BY <1>6, <1>7

(* A freed slot has nothing pending, and no handle to compare with.        *)
LEMMA FreePend ==
  ASSUME PendInv, SocketFreeDone
  PROVE  PendInv'
  <1>1. IndInv'
    BY StepInv DEF Next, Driver, PendInv
  <1>2. /\ op = "free" /\ UNCHANGED <<modem, lost>>
        /\ at = "closed" \/ (at = "socl" /\ ret # "none")
    BY DEF SocketFreeDone
  <1>3. ~Asking
    BY <1>2, NotAsking DEF PendInv, IndInv, Places
  <1>4. PICK v \in Int : Return(v)
    BY DEF SocketFreeDone
  <1>5. Returned' /\ line' = line /\ ret' = "none" /\ at' = "none" /\ (op # "socket" => cut' = cut)
    BY <1>2, <1>4, ReturnCounts DEF PendInv
  <1>6. CASE ~IsSocket(arg.socket)
    <2>1. sockets' = sockets
      BY <1>6 DEF SocketFreeDone
    <2>2. at # "socl"
      BY <1>6, ZeroIsSlot DEF PendInv, IndInv, Locals, OnZero, IsSocket, SOCKET_ERROR
    <2> QED
      BY <1>1, <1>2, <1>3, <1>5, <2>1, <2>2, CallKeeps
  <1>7. CASE IsSocket(arg.socket)
    <2>1. arg.socket = 0
      BY <1>7, HasHandle DEF IsSocket, PendInv
    <2>2. sockets' = [sockets EXCEPT ![0] = FreeSlot]
      BY <1>7, <2>1 DEF SocketFreeDone
    <2>3. sockets'[0].pending = 0 /\ sockets'[0].connected = FALSE
          /\ sockets'[0].handle = SOCKET_ERROR
      BY <2>2, ZeroIsSlot DEF PendInv, IndInv, DriverTypes, FreeSlot
    <2>4. Alike(line', line)
      BY <1>5, LinesAlike DEF PendInv, IndInv
    <2>5. Settled' /\ Room' /\ Parts' /\ Data' /\ Connected'
      BY <1>1, <1>2, <1>3, <1>5, <2>3, <2>4, DriverRest DEF Reading
    <2>6. Settled
      BY <1>2, <1>3, NothingToCome DEF Settled, Final
    <2>7. SettledChain
      BY <2>6, SettledSays DEF PendInv
    <2>8. /\ held[0] \in Nat /\ UNCHANGED <<open, held, given, lost>>
          /\ \A i \in 1 .. Len(line) : line[i].n \in Nat /\ (News(i)' <=> News(i))
      BY <1>2, <1>5, Counted DEF modem, News, PendInv
    <2>9. SettledChain'
      <3>1. 0 <= held[0] /\ sockets'[0].pending >= 0 /\ \A i \in 1 .. Len(line) : 0 <= line[i].n
        BY <2>3, <2>8
      <3> QED
        BY <1>5, <2>3, <2>7, <2>8, <3>1 DEF SettledChain
    <2>10. SettledExact'
      BY <2>3 DEF SettledExact, SOCKET_ERROR
    <2>11. Chain' /\ Exact'
      <3>1. (Chain <=> SettledChain)' /\ (Exact <=> SettledExact)'
        BY <1>1, <2>5, SettledSays, PTL
      <3> QED
        BY <2>9, <2>10, <3>1
    <2> QED
      BY <1>1, <1>5, <2>5, <2>11 DEF PendInv
  <1> QED
    BY <1>6, <1>7

(* The block of a read that was answered is taken off pending, whatever the *)
(* wait has put there meanwhile.                                           *)
LEMMA RecvDonePend ==
  ASSUME PendInv, RecvDone
  PROVE  PendInv'
  <1>1. IndInv'
    BY StepInv DEF Next, Driver, PendInv
  <1>2. /\ at \in {"sord", "sorf"} /\ ret # "none" /\ UNCHANGED <<modem, lost>>
        /\ op \in {"recv", "recvFrom"} /\ Reading
    BY DEF RecvDone, PendInv, IndInv, Places, Reading
  <1>3. ~Asking
    BY <1>2, NotAsking
  <1>4. /\ arg.socket = 0 /\ sockets[0].handle = 0 /\ arg.blk > 0
        /\ (op = "recvFrom" => arg.cnt = 0)
        /\ arg.cnt \in Nat /\ arg.blk \in Nat /\ sockets[0].pending \in Int
    BY <1>2, ZeroIsSlot DEF PendInv, IndInv, Locals, OnZero, DriverTypes, Args, Slot
  <1>5. CASE ret # "OK"
    <2>1. Return(SOCKET_ERROR) /\ sockets' = sockets
      BY <1>5 DEF RecvDone
    <2>2. SOCKET_ERROR \in Int /\ SOCKET_ERROR <= 0
      BY DEF SOCKET_ERROR
    <2>3. Returned' /\ line' = line /\ ret' = "none" /\ at' = "none" /\ (op # "socket" => cut' = cut)
      BY <2>1, <2>2, ReturnCounts DEF PendInv
    <2> QED
      BY <1>1, <1>2, <1>3, <1>5, <2>1, <2>3, CallKeeps
  <1>6. CASE ret = "OK"
    <2>1. /\ sockets'[0].pending = sockets[0].pending - arg.blk
          /\ sockets'[0].handle = 0 /\ sockets'[0].connected = sockets[0].connected
      <3>1. sockets' = [sockets EXCEPT ![0].pending = sockets[0].pending - arg.blk]
        BY <1>4, <1>6, ZeroIsSlot DEF RecvDone, PendInv, IndInv, DriverTypes
      <3>2. sockets[0].pending - arg.blk \in Int
        BY <1>4
      <3> QED
        BY <1>4, <3>1, <3>2, SetPending DEF PendInv
    <2>2. /\ line' = line /\ cut' = cut /\ ret' \in {"none", "go"} /\ at' \in {"none", "loop"}
          /\ \/ result' = result
             \/ /\ result'.op = op /\ result'.value = arg.cnt + arg.blk
                /\ op = "recvFrom" => result'.got = param
      BY <1>2, <1>6 DEF RecvDone, Goto, Return
    <2>3. Returned'
      <3>1. CASE result' = result
        BY <1>2, <3>1 DEF PendInv, Returned
      <3>2. CASE /\ result'.op = op /\ result'.value = arg.cnt + arg.blk
                 /\ op = "recvFrom" => result'.got = param
        <4>1. ASSUME op = "recvFrom", lost = 0
              PROVE  result'.got = result'.value
          <5>1. at = "sorf"
            BY <1>2, <4>1 DEF PendInv, IndInv, Places
          <5>2. param = arg.blk
            BY <1>2, <1>6, <4>1 DEF PendInv, Data
          <5>3. arg.cnt + arg.blk = arg.blk
            BY <1>4, <4>1
          <5> QED
            BY <3>2, <4>1, <5>2, <5>3
        <4> QED
          BY <1>2, <3>2, <4>1 DEF Returned
      <3> QED
        BY <2>2, <3>1, <3>2
    <2>4. Alike(line', line)
      BY <2>2, LinesAlike DEF PendInv, IndInv
    <2>5. Settled' /\ Room' /\ Parts' /\ Data' /\ Connected'
      <3>1. ret' # "OK" /\ ~Reading' /\ at # "socl"
        BY <1>2, <2>2 DEF Reading
      <3> QED
        BY <1>1, <1>2, <1>3, <2>1, <2>4, <3>1, DriverRest
    <2>6. /\ Owed = arg.blk /\ ~Restarted
          /\ \A i : Off(i) = 0 /\ ~Behind(i)
      BY <1>2, <1>6 DEF Owed, Restarted, Off, Behind
    <2>7. /\ \A i \in 1 .. Len(line) : Value(i) = line[i].n
          /\ Seen = sockets'[0].pending
      BY <2>1, <2>6, Counted DEF Value, Seen, PendInv
    <2>8. UNCHANGED <<open, held, given, lost>>
          /\ \A i \in 1 .. Len(line) : News(i)' <=> News(i)
      BY <1>2, <2>2 DEF modem, News
    <2>9. SettledChain'
      BY <2>2, <2>6, <2>7, <2>8 DEF PendInv, Chain, SettledChain
    <2>10. SettledExact'
      BY <1>4, <2>2, <2>6, <2>7, <2>8 DEF PendInv, Exact, LastSays, SlotSays, SettledExact
    <2>11. Chain' /\ Exact'
      <3>1. (Chain <=> SettledChain)' /\ (Exact <=> SettledExact)'
        BY <1>1, <2>5, SettledSays, PTL
      <3> QED
        BY <2>9, <2>10, <3>1
    <2> QED
      BY <1>1, <2>3, <2>5, <2>11 DEF PendInv
  <1> QED
    BY <1>5, <1>6

----------------------------------------------------------------------------
(* The wait takes a line. *)

(* The rest of the line moves up by one place. *)
LEMMA TakesOne ==
  ASSUME IndInv, WaitLine
  PROVE  /\ at # "none" /\ ret = "none"
         /\ UNCHANGED <<op, arg, at, poll, result, inbox, modem, lost>>
         /\ Len(line) \in Nat /\ 1 \in 1 .. Len(line) /\ Len(line') = Len(line) - 1
         /\ \A i \in 1 .. Len(line') : i + 1 \in 1 .. Len(line) /\ line'[i] = line[i + 1]
         /\ \A i \in 1 .. Len(line) : i # 1 => i - 1 \in 1 .. Len(line') /\ line'[i - 1] = line[i]
         /\ ret' = IF line[1].kind \in Final THEN line[1].kind ELSE IF poll THEN "WAIT" ELSE "none"
         /\ Reading => param' = IF line[1].kind = Asks THEN line[1].n ELSE param
         /\ sockets' = Unsolicited(line[1]) /\ cut' = CutBy(line[1])
         /\ line[1] \in Lined
         /\ line[1].kind \in About => line[1].handle \in Handles
  <1>1. line \in Seq(Lined) /\ line # << >> /\ line' = Tail(line)
    BY DEF IndInv, WireTypes, WaitLine
  <1>2. /\ Len(line) \in Nat /\ Len(line) > 0 /\ Len(line') = Len(line) - 1
        /\ \A i \in 1 .. Len(line') : line'[i] = line[i + 1] /\ i + 1 \in 1 .. Len(line)
        /\ Head(line) = line[1] /\ 1 \in 1 .. Len(line) /\ line[1] \in Lined
    BY <1>1, HeadTailProperties
  <1>3. ASSUME NEW i \in 1 .. Len(line), i # 1
        PROVE  i - 1 \in 1 .. Len(line') /\ line'[i - 1] = line[i]
    <2>1. i - 1 \in 1 .. Len(line') /\ (i - 1) + 1 = i
      BY <1>2, <1>3
    <2>2. line'[i - 1] = line[(i - 1) + 1]
      BY <1>2, <2>1
    <2> QED
      BY <2>1, <2>2
  <1>4. line[1].kind \in About => line[1].handle \in Handles
    BY <1>2 DEF IndInv, WireTypes
  <1>5. /\ at # "none" /\ ret = "none"
        /\ UNCHANGED <<op, arg, at, poll, result, inbox, modem, lost>>
        /\ ret' = IF line[1].kind \in Final THEN line[1].kind ELSE IF poll THEN "WAIT" ELSE "none"
        /\ Reading => param' = IF line[1].kind = Asks THEN line[1].n ELSE param
        /\ sockets' = Unsolicited(line[1]) /\ cut' = CutBy(line[1])
    BY <1>2 DEF WaitLine, Reading, Asks, CbUSORD, CbUSORF
  <1> QED
    BY <1>2, <1>3, <1>4, <1>5

(* A final line is met only by a wait for it, and is the only one.         *)
LEMMA FinalFirst ==
  ASSUME IndInv, WaitLine
  PROVE  /\ line[1].kind \in Final =>
              /\ ~poll /\ inbox = << >>
              /\ \A i \in 1 .. Len(line) : line[i].kind \in Final => i = 1
         /\ poll \/ inbox # << >> => \A i \in 1 .. Len(line) : line[i].kind \notin Final
         /\ poll => at \in {"readable", "polled"}
  <1>1. Answers /\ 1 \in 1 .. Len(line)
    BY TakesOne DEF IndInv
  <1>2. poll \/ inbox # << >> => \A i \in 1 .. Len(line) : line[i].kind \notin Final
    BY <1>1 DEF Answers, Asking
  <1>3. line[1].kind \in Final => \A i \in 1 .. Len(line) : line[i].kind \in Final => i = 1
    BY <1>1 DEF Answers
  <1>4. poll => at \in {"readable", "polled"}
    BY DEF IndInv, Places
  <1> QED
    BY <1>1, <1>2, <1>3, <1>4

(* An OK moves up with the others, unless it is the line that is taken.    *)
LEMMA OkMoves ==
  ASSUME IndInv, WaitLine, NEW i \in Nat
  PROVE  /\ OkAfter(i)' <=> OkAfter(i + 1)
         /\ i + 1 \in Nat /\ i + 1 > i
         /\ OkAfter(i + 1) => OkAfter(i)
         /\ line[1].kind # "OK" => (OkAfter(0) <=> OkAfter(1))
  <1>1. OkAfter(i)' => OkAfter(i + 1)
    <2>1. SUFFICES ASSUME NEW k \in 1 .. Len(line'), k > i, line'[k].kind = "OK"
                   PROVE  OkAfter(i + 1)
      BY DEF OkAfter
    <2>2. k + 1 \in 1 .. Len(line) /\ line[k + 1].kind = "OK"
      BY <2>1, TakesOne
    <2>3. k + 1 > i + 1
      BY <2>1, TakesOne
    <2> QED
      BY <2>2, <2>3 DEF OkAfter
  <1>2. OkAfter(i + 1) => OkAfter(i)'
    <2>1. SUFFICES ASSUME NEW k \in 1 .. Len(line), k > i + 1, line[k].kind = "OK"
                   PROVE  OkAfter(i)'
      BY DEF OkAfter
    <2>2. k # 1 /\ k - 1 > i
      BY <2>1
    <2>3. k - 1 \in 1 .. Len(line') /\ line'[k - 1].kind = "OK"
      BY <2>1, <2>2, TakesOne
    <2> QED
      BY <2>2, <2>3 DEF OkAfter
  <1>3. OkAfter(i + 1) => OkAfter(i)
    <2>1. \A k \in 1 .. Len(line) : k > i + 1 => k > i
      OBVIOUS
    <2> QED
      BY <2>1 DEF OkAfter
  <1>4. line[1].kind # "OK" => (OkAfter(0) <=> OkAfter(1))
    <2>1. \A k \in 1 .. Len(line) : k > 0 /\ (k # 1 => k > 1) /\ (k > 1 => k # 1)
      OBVIOUS
    <2> QED
      BY <2>1 DEF OkAfter
  <1> QED
    BY <1>1, <1>2, <1>3, <1>4

(* What is compared moves up with its lines.                               *)
LEMMA Moves ==
  ASSUME IndInv, IndInv', WaitLine
  PROVE  /\ \A i \in 1 .. Len(line') : /\ Off(i)' = Off(i + 1) /\ Value(i)' = Value(i + 1)
                                       /\ News(i)' <=> News(i + 1)
                                       /\ Behind(i)' <=> Behind(i + 1)
         /\ Restarted' <=> Restarted
         /\ Owed' = Owed
         /\ line[1].kind # "OK" => Owed = Off(1) /\ (Restarted <=> Behind(1))
  <1>1. /\ ret = "none" /\ UNCHANGED <<at, arg>>
        /\ ret' = IF line[1].kind \in Final THEN line[1].kind ELSE IF poll THEN "WAIT" ELSE "none"
    BY TakesOne
  <1>2. ret' # "none" => \A i \in Nat : i > 0 => ~OkAfter(i)
    <2>1. ret' # "none" => line[1].kind \in Final \/ poll
      BY <1>1
    <2>2. CASE line[1].kind \in Final
      BY <2>2, FinalFirst DEF OkAfter, Final
    <2>3. CASE poll
      BY <2>3, FinalFirst DEF OkAfter, Final
    <2> QED
      BY <2>1, <2>2, <2>3
  <1>3. ASSUME NEW i \in Nat
        PROVE  /\ Off(i)' = Off(i + 1) /\ (Behind(i)' <=> Behind(i + 1))
    <2>1. /\ OkAfter(i)' <=> OkAfter(i + 1)
          /\ i + 1 \in Nat /\ i + 1 > 0
      BY OkMoves
    <2>2. CASE ret' = "none"
      BY <1>1, <2>1, <2>2 DEF Off, Behind, Reading
    <2>3. CASE ret' # "none"
      <3>1. ~OkAfter(i + 1)
        BY <1>2, <2>1, <2>3
      <3> QED
        BY <2>3, <3>1 DEF Off, Behind
    <2> QED
      BY <2>2, <2>3
  <1>4. ASSUME NEW i \in 1 .. Len(line')
        PROVE  Value(i)' = Value(i + 1) /\ (News(i)' <=> News(i + 1))
    <2>1. line'[i] = line[i + 1] /\ i \in Nat
      BY TakesOne
    <2>2. Off(i)' = Off(i + 1)
      BY <1>3, <2>1
    <2> QED
      BY <2>1, <2>2 DEF Value, News
  <1>5. /\ OkAfter(0)' <=> OkAfter(1)
        /\ Off(0)' = Off(1) /\ (Behind(0)' <=> Behind(1))
    <2>1. PICK z \in Nat : z = 0
      OBVIOUS
    <2>2. z + 1 = 1
      BY <2>1
    <2>3. /\ OkAfter(z)' <=> OkAfter(z + 1)
          /\ Off(z)' = Off(z + 1) /\ (Behind(z)' <=> Behind(z + 1))
      BY <1>3, OkMoves
    <2> QED
      BY <2>1, <2>2, <2>3
  <1>6. ASSUME line[1].kind # "OK"
        PROVE  Owed = Off(1) /\ (Restarted <=> Behind(1)) /\ Owed' = Owed
               /\ (Restarted' <=> Restarted)
    <2>1. OkAfter(0) <=> OkAfter(1)
      <3>1. PICK z \in Nat : z = 0
        OBVIOUS
      <3> QED
        BY <1>6, <3>1, OkMoves
    <2>2. Owed = Off(1) /\ (Restarted <=> Behind(1))
      BY <1>1, <2>1 DEF Owed, Off, Restarted, Behind
    <2>3. ret' # "OK"
      BY <1>1, <1>6
    <2>4. Owed' = Off(0)' /\ (Restarted' <=> Behind(0)')
      BY <1>1, <2>3 DEF Owed, Restarted, Behind
    <2> QED
      BY <1>5, <2>2, <2>4
  <1>7. ASSUME line[1].kind = "OK"
        PROVE  Owed' = Owed /\ (Restarted' <=> Restarted)
    <2>1. ret' = "OK" /\ 1 \in 1 .. Len(line) /\ 1 > 0
      BY <1>1, <1>7, TakesOne DEF Final
    <2>2. OkAfter(0)
      BY <1>7, <2>1 DEF OkAfter
    <2> QED
      BY <1>1, <2>1, <2>2 DEF Owed, Off, Restarted, Behind, Reading
  <1>8. ASSUME NEW i \in 1 .. Len(line')
        PROVE  Off(i)' = Off(i + 1) /\ (Behind(i)' <=> Behind(i + 1))
    <2>1. i \in Nat
      OBVIOUS
    <2> QED
      BY <1>3, <2>1
  <1>9. \/ line[1].kind = "OK" /\ Owed' = Owed /\ (Restarted' <=> Restarted)
        \/ /\ line[1].kind # "OK" /\ Owed = Off(1) /\ (Restarted <=> Behind(1))
           /\ Owed' = Owed /\ (Restarted' <=> Restarted)
    BY <1>6, <1>7
  <1> QED
    BY <1>4, <1>8, <1>9

(* What is behind an OK is so because slot 0 starts again. *)
LEMMA BehindRestarts ==
  ASSUME NEW i \in Nat, Behind(i)
  PROVE  Restarted
  <1>1. PICK k \in 1 .. Len(line) : line[k].kind = "OK"
    BY DEF Behind, OkAfter
  <1>2. k > 0
    BY <1>1
  <1> QED
    BY <1>1, <1>2 DEF Behind, Restarted, OkAfter

(* What slot 0 says after the line. *)
LEMMA Takes ==
  ASSUME IndInv, IndInv', WaitLine
  PROVE  \/ /\ News(1) /\ sockets[0].handle = 0 /\ sockets'[0].pending = line[1].n
            /\ Seen' = Value(1)
            /\ sockets'[0].connected = sockets[0].connected
         \/ /\ line[1].kind = "BLOCK" /\ sockets'[0].pending = line[1].n /\ 0 \in cut'
            /\ sockets'[0].connected = sockets[0].connected
         \/ /\ ~(News(1) /\ sockets[0].handle = 0)
            /\ sockets'[0].pending = sockets[0].pending /\ Seen' = Seen
            /\ sockets'[0].connected => sockets[0].connected
            /\ sockets'[0].connected => ~(line[1].kind = "UUSOCL" /\ line[1].handle = 0)
            /\ 0 \in cut => 0 \in cut'
  <1>1. /\ sockets' = Unsolicited(line[1]) /\ cut' = CutBy(line[1]) /\ line[1] \in Lined
        /\ line[1].kind \in About => line[1].handle \in Handles
    BY TakesOne
  <1>2. Owed' = Owed
    BY Moves
  <1>3. CASE /\ line[1].kind \in Announcing /\ line[1].handle = 0 /\ sockets[0].handle = 0
             /\ Unsolicited(line[1]) = [sockets EXCEPT ![0].pending = line[1].n]
    <2>1. line[1].n \in Int
      BY <1>1 DEF Lined
    <2>2. sockets'[0].pending = line[1].n /\ sockets'[0].connected = sockets[0].connected
      BY <1>1, <1>3, <2>1, SetPending
    <2>3. Owed = Off(1)
      BY <1>3, Moves DEF Announcing
    <2>4. CASE line[1].kind = "NSONMI"
      BY <1>2, <1>3, <2>2, <2>3, <2>4 DEF News, Seen, Value
    <2>5. CASE line[1].kind = "BLOCK"
      <3>1. FindSocket(line[1].handle) = 0
        BY <1>3, Found, ZeroIsSlot
      <3>2. 0 \in cut'
        BY <1>1, <2>5, <3>1 DEF CutBy, SOCKET_ERROR
      <3> QED
        BY <2>2, <2>5, <3>2
    <2> QED
      BY <1>3, <2>4, <2>5 DEF Announcing
  <1>4. CASE /\ line[1].kind = "UUSOCL" /\ line[1].handle = 0 /\ sockets[0].handle = 0
             /\ Unsolicited(line[1]) = [sockets EXCEPT ![0].connected = FALSE]
    <2>1. sockets'[0].pending = sockets[0].pending /\ sockets'[0].connected = FALSE
      BY <1>1, <1>4, SetConnected
    <2>2. cut' = cut
      BY <1>1, <1>4 DEF CutBy
    <2> QED
      BY <1>2, <1>4, <2>1, <2>2 DEF News, Seen
  <1>5. CASE /\ ~(/\ line[1].kind \in About /\ line[1].handle = 0
                  /\ sockets[0].handle = 0)
             /\ Unsolicited(line[1]) = sockets
    <2>1. sockets' = sockets
      BY <1>1, <1>5
    <2>2. sockets[0].handle # 0 => sockets[0].connected = FALSE
      BY ZeroIsSlot DEF IndInv, SlotZero
    <2>3. cut' = cut
      <3>1. CASE line[1].kind \notin About
        BY <1>1, <3>1 DEF CutBy, About, Announcing
      <3>2. CASE line[1].kind \in About
        <4>1. FindSocket(line[1].handle) = SOCKET_ERROR
          BY <1>1, <1>5, <3>2, Found
        <4> QED
          BY <1>1, <4>1 DEF CutBy
      <3> QED
        BY <3>1, <3>2
    <2> QED
      BY <1>2, <1>5, <2>1, <2>2, <2>3 DEF News, Seen, About, Announcing
  <1> QED
    BY <1>1, <1>3, <1>4, <1>5, UnsolicitedIs

(* A block that is taken is the one asked for: what is left of it, after the *)
(* OK, is nothing.                                                         *)
LEMMA TakesBlock ==
  ASSUME PendInv, IndInv', WaitLine, lost = 0, line[1].kind = "BLOCK",
         sockets'[0].pending = line[1].n
  PROVE  Seen' = 0 /\ ~Restarted /\ inbox = << >> /\ line[1].n = arg.blk
  <1>1. 1 \in 1 .. Len(line) /\ ret = "none"
    BY TakesOne DEF PendInv
  <1>2. OkAfter(1) /\ at = "sord"
    BY <1>1 DEF PendInv, Parts
  <1>3. line[1].n = arg.blk
    BY <1>1, <1>2 DEF PendInv, Data, Reading, Asks
  <1>4. Owed' = arg.blk
    <2>1. Owed' = Owed /\ Owed = Off(1)
      BY Moves DEF PendInv
    <2> QED
      BY <1>1, <1>2, <2>1 DEF Off, Reading
  <1>5. inbox = << >>
    BY <1>2, FinalFirst DEF PendInv, OkAfter, Final
  <1>6. arg.blk \in Nat
    BY Counted DEF PendInv
  <1> QED
    BY <1>2, <1>3, <1>4, <1>5, <1>6 DEF Seen, Restarted, Behind

(* The announcement that is taken was the first, so pending only grows.    *)
LEMMA WaitLineChain ==
  ASSUME PendInv, IndInv', WaitLine
  PROVE  Chain'
  <1>1. UNCHANGED <<open, held, lost, at>> /\ 1 \in 1 .. Len(line)
        /\ \A i \in 1 .. Len(line') : i + 1 \in 1 .. Len(line)
    BY TakesOne DEF modem, PendInv
  <1>2. /\ \A i \in 1 .. Len(line') : /\ Value(i)' = Value(i + 1)
                                      /\ News(i)' <=> News(i + 1)
                                      /\ Behind(i)' <=> Behind(i + 1)
        /\ Restarted' <=> Restarted
        /\ line[1].kind # "OK" => (Restarted <=> Behind(1))
    BY Moves DEF PendInv
  <1>3. CASE lost # 0
    BY <1>1, <1>3 DEF Chain
  <1>4. CASE lost = 0
    <2>1. /\ Seen >= 0
          /\ \A i \in 1 .. Len(line) : News(i) /\ ~Restarted => Seen <= Value(i)
          /\ \A i, j \in 1 .. Len(line) :
               News(i) /\ News(j) /\ i < j /\ (Behind(i) <=> Behind(j)) => Value(i) <= Value(j)
          /\ \A i \in 1 .. Len(line) : News(i) /\ ~Behind(i) /\ 0 \in open => Value(i) <= held[0]
          /\ 0 \in open /\ ~Restarted => Seen <= held[0]
      BY <1>4 DEF PendInv, Chain
    <2>2. \A i, j \in 1 .. Len(line') :
            (News(i) /\ News(j) /\ i < j /\ (Behind(i) <=> Behind(j)) => Value(i) <= Value(j))'
      <3>1. SUFFICES ASSUME NEW i \in 1 .. Len(line'), NEW j \in 1 .. Len(line'),
                            News(i)', News(j)', i < j, (Behind(i) <=> Behind(j))'
                     PROVE  Value(i)' <= Value(j)'
        OBVIOUS
      <3>2. i + 1 < j + 1 /\ i + 1 \in 1 .. Len(line) /\ j + 1 \in 1 .. Len(line)
        BY <1>1, <3>1
      <3>3. /\ News(i + 1) /\ News(j + 1) /\ (Behind(i + 1) <=> Behind(j + 1))
            /\ Value(i)' = Value(i + 1) /\ Value(j)' = Value(j + 1)
        BY <1>2, <3>1
      <3> QED
        BY <2>1, <3>2, <3>3
    <2>3. \A i \in 1 .. Len(line') :
            (News(i) /\ ~Behind(i) /\ 0 \in open => Value(i) <= held[0])'
      BY <1>1, <1>2, <2>1
    <2>4. CASE /\ ~(News(1) /\ sockets[0].handle = 0) /\ Seen' = Seen
      <3>1. \A i \in 1 .. Len(line') : (News(i) /\ ~Restarted => Seen <= Value(i))'
        BY <1>1, <1>2, <2>1, <2>4
      <3>2. Seen' >= 0 /\ (0 \in open /\ ~Restarted => Seen <= held[0])'
        BY <1>1, <1>2, <2>1, <2>4
      <3> QED
        BY <2>2, <2>3, <3>1, <3>2 DEF Chain
    <2>5. CASE News(1) /\ Seen' = Value(1)
      <3>1. Restarted <=> Behind(1)
        BY <1>2, <2>5 DEF News
      <3>2. Seen' >= 0
        <4>1. CASE Restarted
          <5>1. Value(1) = line[1].n - 0
            BY <4>1 DEF Value, Off, Restarted, Reading
          <5>2. line[1].n \in Nat
            BY <1>1, Counted DEF PendInv
          <5> QED
            BY <2>5, <5>1, <5>2
        <4>2. CASE ~Restarted
          <5>1. Seen >= 0 /\ Seen <= Value(1)
            BY <1>1, <2>1, <2>5, <4>2
          <5>2. Seen \in Int /\ Value(1) \in Int
            BY <1>1, Differ DEF PendInv
          <5> QED
            BY <2>5, <5>1, <5>2
        <4> QED
          BY <4>1, <4>2
      <3>3. ASSUME NEW i \in 1 .. Len(line'), News(i)', ~Restarted'
            PROVE  Seen' <= Value(i)'
        <4>1. i + 1 \in 1 .. Len(line) /\ 1 < i + 1 /\ i + 1 \in Nat /\ News(i + 1)
          BY <1>1, <1>2, <3>3
        <4>2. ~Restarted /\ ~Behind(1)
          BY <1>2, <3>1, <3>3
        <4>3. ~Behind(i + 1)
          <5>1. PICK j \in Nat : j = i + 1
            BY <4>1
          <5>2. ~Behind(j)
            BY <4>2, BehindRestarts
          <5> QED
            BY <5>1, <5>2
        <4>4. Value(1) <= Value(i + 1)
          BY <1>1, <2>1, <2>5, <4>1, <4>2, <4>3
        <4> QED
          BY <1>2, <2>5, <4>4
      <3>4. (0 \in open /\ ~Restarted => Seen <= held[0])'
        BY <1>1, <1>2, <2>1, <2>5, <3>1
      <3> QED
        BY <2>2, <2>3, <3>2, <3>3, <3>4 DEF Chain
    <2>6. CASE line[1].kind = "BLOCK" /\ sockets'[0].pending = line[1].n
      <3>1. Seen' = 0 /\ ~Restarted
        BY <1>4, <2>6, TakesBlock
      <3>2. held[0] \in Nat /\ Seen \in Int /\ \A i \in 1 .. Len(line) : Value(i) \in Int
        BY Counted, Differ DEF PendInv
      <3>3. ASSUME NEW i \in 1 .. Len(line'), News(i)'
            PROVE  Seen' <= Value(i)'
        <4>1. i + 1 \in 1 .. Len(line) /\ Seen <= Value(i + 1)
          BY <1>1, <1>2, <2>1, <3>1, <3>3
        <4>2. 0 <= Value(i + 1)
          BY <2>1, <3>2, <4>1
        <4> QED
          BY <1>2, <3>1, <4>2
      <3>4. Seen' >= 0 /\ Seen' <= held'[0]
        BY <1>1, <3>1, <3>2
      <3> QED
        BY <2>2, <2>3, <3>3, <3>4 DEF Chain
    <2> QED
      BY <2>4, <2>5, <2>6, Takes DEF PendInv
  <1> QED
    BY <1>3, <1>4

(* When the last announcement has been taken, pending says what it said.   *)
LEMMA WaitLineExact ==
  ASSUME PendInv, IndInv', WaitLine
  PROVE  Exact'
  <1>1. /\ UNCHANGED <<open, held, given, lost, at>>
        /\ 1 \in 1 .. Len(line) /\ Len(line) \in Nat /\ Len(line') = Len(line) - 1
        /\ \A i \in 1 .. Len(line') : i + 1 \in 1 .. Len(line)
    BY TakesOne DEF modem, PendInv
  <1>2. /\ \A i \in 1 .. Len(line') : /\ Value(i)' = Value(i + 1)
                                      /\ News(i)' <=> News(i + 1)
                                      /\ Behind(i)' <=> Behind(i + 1)
        /\ Restarted' <=> Restarted
        /\ line[1].kind # "OK" => (Restarted <=> Behind(1))
    BY Moves DEF PendInv
  <1>3. sockets'[0].handle = sockets[0].handle
    <2>1. /\ sockets' = Unsolicited(line[1]) /\ line[1] \in Lined
          /\ line[1].kind \in About => line[1].handle \in Handles
      BY TakesOne DEF PendInv
    <2> QED
      BY <2>1, UnsolicitedKeeps DEF PendInv
  <1>4. SUFFICES ASSUME lost = 0, 0 \in open, given[Len(given)] = 0,
                        sockets[0].handle = 0 \/ Restarted
                 PROVE  (LastSays \/ SlotSays)'
    BY <1>1, <1>2, <1>3 DEF Exact
  <1>5. LastSays \/ SlotSays
    BY <1>4 DEF PendInv, Exact
  <1>6. CASE LastSays
    <2>1. PICK i \in 1 .. Len(line) : /\ News(i) /\ ~Behind(i) /\ Value(i) = held[0]
                                      /\ \A j \in 1 .. Len(line) : News(j) => j <= i
      BY <1>6 DEF LastSays
    <2>2. CASE i = 1
      <3>1. ~Restarted /\ News(1)
        BY <1>2, <2>1, <2>2 DEF News
      <3>2. Seen' = Value(1)
        BY <1>4, <3>1, Takes DEF PendInv, News
      <3>3. ASSUME NEW j \in 1 .. Len(line') PROVE ~News(j)'
        <4>1. j + 1 \in 1 .. Len(line) /\ ~(j + 1 <= 1)
          BY <1>1
        <4> QED
          BY <1>2, <2>1, <2>2, <4>1
      <3> QED
        BY <1>1, <1>2, <2>1, <2>2, <3>1, <3>2, <3>3 DEF SlotSays
    <2>3. CASE i # 1
      <3>1. PICK k \in 1 .. Len(line') : k + 1 = i
        <4>1. i - 1 \in 1 .. Len(line') /\ (i - 1) + 1 = i
          BY <1>1, <2>1, <2>3
        <4> QED
          BY <4>1
      <3>2. News(k)' /\ ~Behind(k)' /\ Value(k)' = held'[0]
        BY <1>1, <1>2, <2>1, <3>1
      <3>3. ASSUME NEW j \in 1 .. Len(line'), News(j)'
            PROVE  j <= k
        <4>1. News(j + 1) /\ j + 1 \in 1 .. Len(line)
          BY <1>1, <1>2, <3>3
        <4>2. j + 1 <= k + 1
          BY <2>1, <3>1, <4>1
        <4> QED
          BY <4>2
      <3> QED
        BY <3>2, <3>3 DEF LastSays
    <2> QED
      BY <2>2, <2>3
  <1>7. CASE SlotSays
    <2>1. /\ \A j \in 1 .. Len(line) : News(j) => Behind(j)
          /\ IF Restarted THEN held[0] = 0 ELSE 0 \in cut \/ Seen = held[0]
      BY <1>7 DEF SlotSays
    <2>2. \A j \in 1 .. Len(line') : News(j)' => Behind(j)'
      BY <1>1, <1>2, <2>1
    <2>3. CASE Restarted
      BY <1>1, <1>2, <2>1, <2>2, <2>3 DEF SlotSays
    <2>4. CASE ~Restarted
      <3>1. ~News(1)
        BY <1>1, <1>2, <2>1, <2>4 DEF News
      <3>2. 0 \in cut' \/ (Seen' = Seen /\ (0 \in cut => 0 \in cut'))
        BY <3>1, Takes DEF PendInv
      <3> QED
        BY <1>1, <1>2, <2>1, <2>2, <2>4, <3>2 DEF SlotSays
    <2> QED
      BY <2>3, <2>4
  <1> QED
    BY <1>5, <1>6, <1>7

(* A block that was pending still is. *)
LEMMA WaitLineRoom ==
  ASSUME PendInv, IndInv', WaitLine
  PROVE  Room'
  <1>1. UNCHANGED <<lost, at, arg, inbox>> /\ ret = "none" /\ 1 \in 1 .. Len(line)
    BY TakesOne DEF PendInv
  <1>2. SUFFICES ASSUME lost = 0, Reading, inbox # << >>
                 PROVE  arg.blk <= sockets'[0].pending
    BY <1>1 DEF Room, Reading
  <1>3. arg.blk <= sockets[0].pending
    BY <1>1, <1>2 DEF PendInv, Room
  <1>4. Settled
    BY <1>1, <1>2, FinalFirst DEF PendInv, Settled, Final
  <1>5. SettledChain
    BY <1>4, SettledSays DEF PendInv
  <1>6. CASE News(1) /\ sockets'[0].pending = line[1].n
    <2>1. sockets[0].pending <= line[1].n
      BY <1>1, <1>2, <1>5, <1>6 DEF SettledChain
    <2>2. line[1].n \in Int /\ sockets[0].pending \in Int /\ arg.blk \in Int
      BY <1>1, Counted DEF PendInv
    <2> QED
      BY <1>3, <1>6, <2>1, <2>2
  <1>7. CASE sockets'[0].pending = sockets[0].pending
    BY <1>3, <1>7
  <1>8. CASE line[1].kind = "BLOCK" /\ sockets'[0].pending = line[1].n
    BY <1>2, <1>8, TakesBlock
  <1> QED
    BY <1>6, <1>7, <1>8, Takes DEF PendInv

(* The data of an answer is counted when its line is taken. *)
LEMMA WaitLineData ==
  ASSUME PendInv, IndInv', WaitLine
  PROVE  Parts' /\ Data'
  <1>1. /\ UNCHANGED <<lost, at, arg>> /\ ret = "none" /\ 1 \in 1 .. Len(line)
        /\ \A i \in 1 .. Len(line') : i + 1 \in 1 .. Len(line) /\ line'[i] = line[i + 1]
        /\ \A i \in 1 .. Len(line) : i # 1 => i - 1 \in 1 .. Len(line') /\ line'[i - 1] = line[i]
        /\ ret' = IF line[1].kind \in Final THEN line[1].kind ELSE IF poll THEN "WAIT" ELSE "none"
        /\ Reading => param' = IF line[1].kind = Asks THEN line[1].n ELSE param
    BY TakesOne DEF PendInv
  <1>2. ASSUME lost = 0, NEW i \in 1 .. Len(line')
        PROVE  /\ line'[i].kind \in {"DATA", "BLOCK"} => OkAfter(i)'
               /\ line'[i].kind = "BLOCK" => at' = "sord" /\ line'[i].handle = 0
    <2>1. /\ line[i + 1].kind \in {"DATA", "BLOCK"} => OkAfter(i + 1)
          /\ line[i + 1].kind = "BLOCK" => at = "sord" /\ line[i + 1].handle = 0
      BY <1>1, <1>2 DEF PendInv, Parts
    <2>2. OkAfter(i)' <=> OkAfter(i + 1)
      <3>1. i \in Nat
        OBVIOUS
      <3> QED
        BY <3>1, OkMoves DEF PendInv
    <2> QED
      BY <1>1, <2>1, <2>2
  <1>3. Parts'
    BY <1>1, <1>2 DEF Parts
  <1>4. ASSUME lost = 0, Reading
        PROVE  /\ \A i \in 1 .. Len(line') : line'[i].kind = Asks => line'[i].n = arg.blk
               /\ ret' = "OK" => param' = arg.blk
               /\ ret' = "none" => \A k \in 1 .. Len(line') : line'[k].kind = "OK" =>
                    \/ param' = arg.blk
                    \/ \E i \in 1 .. Len(line') : i < k /\ line'[i].kind = Asks
    <2>1. /\ \A i \in 1 .. Len(line) : line[i].kind = Asks => line[i].n = arg.blk
          /\ \A k \in 1 .. Len(line) : line[k].kind = "OK" =>
               \/ param = arg.blk
               \/ \E i \in 1 .. Len(line) : i < k /\ line[i].kind = Asks
      BY <1>1, <1>4 DEF PendInv, Data
    <2>2. param' = IF line[1].kind = Asks THEN line[1].n ELSE param
      BY <1>1, <1>4
    <2>3. param = arg.blk => param' = arg.blk
      BY <1>1, <2>1, <2>2
    <2>4. ASSUME ret' = "OK" PROVE param' = arg.blk
      <3>1. line[1].kind = "OK"
        BY <1>1, <2>4
      <3>2. ~\E i \in 1 .. Len(line) : i < 1
        OBVIOUS
      <3> QED
        BY <1>1, <2>1, <2>3, <3>1, <3>2
    <2>5. ASSUME NEW k \in 1 .. Len(line'), line'[k].kind = "OK"
          PROVE  \/ param' = arg.blk
                 \/ \E i \in 1 .. Len(line') : i < k /\ line'[i].kind = Asks
      <3>1. k + 1 \in 1 .. Len(line) /\ line[k + 1].kind = "OK"
        BY <1>1, <2>5
      <3>2. CASE param = arg.blk
        BY <2>3, <3>2
      <3>3. CASE \E i \in 1 .. Len(line) : i < k + 1 /\ line[i].kind = Asks
        <4>1. PICK i \in 1 .. Len(line) : i < k + 1 /\ line[i].kind = Asks
          BY <3>3
        <4>2. CASE i = 1
          BY <2>1, <2>2, <4>1, <4>2
        <4>3. CASE i # 1
          <5>1. i - 1 < k
            BY <4>1
          <5> QED
            BY <1>1, <4>1, <4>3, <5>1
        <4> QED
          BY <4>2, <4>3
      <3> QED
        BY <2>1, <3>1, <3>2, <3>3
    <2>6. \A i \in 1 .. Len(line') : line'[i].kind = Asks => line'[i].n = arg.blk
      BY <1>1, <2>1
    <2> QED
      BY <2>4, <2>5, <2>6
  <1>5. Data'
    BY <1>1, <1>4 DEF Data, Reading, Asks
  <1> QED
    BY <1>3, <1>5

(* The news of a close is there until it is taken. *)
LEMMA WaitLineConnected ==
  ASSUME PendInv, IndInv', WaitLine
  PROVE  Connected'
  <1>1. /\ UNCHANGED <<lost, at, conn>> /\ ret = "none" /\ 1 \in 1 .. Len(line)
        /\ \A i \in 1 .. Len(line') : i + 1 \in 1 .. Len(line) /\ line'[i] = line[i + 1]
        /\ \A i \in 1 .. Len(line) : i # 1 => i - 1 \in 1 .. Len(line') /\ line'[i - 1] = line[i]
        /\ ret' = IF line[1].kind \in Final THEN line[1].kind ELSE IF poll THEN "WAIT" ELSE "none"
    BY TakesOne DEF PendInv, modem
  <1>2. ASSUME NEW k \in Nat, ClosedAfter(k + 1)
        PROVE  ClosedAfter(k)'
    <2>1. PICK i \in 1 .. Len(line) : i > k + 1 /\ line[i].kind = "UUSOCL" /\ line[i].handle = 0
      BY <1>2 DEF ClosedAfter
    <2>2. i # 1 /\ i - 1 > k
      BY <2>1
    <2>3. i - 1 \in 1 .. Len(line') /\ line'[i - 1] = line[i]
      BY <1>1, <2>2
    <2>4. line'[i - 1].kind = "UUSOCL" /\ line'[i - 1].handle = 0
      BY <2>1, <2>3
    <2> QED
      BY <2>2, <2>3, <2>4 DEF ClosedAfter
  <1>3. PICK z \in Nat : z = 0 /\ z + 1 = 1
    OBVIOUS
  <1>4. ClosedAfter(1) => ClosedAfter(0)'
    BY <1>2, <1>3
  <1>5. SUFFICES ASSUME lost = 0
                 PROVE  /\ sockets'[0].connected =>
                             \/ 0 \in conn \/ ClosedAfter(0)'
                             \/ at = "socl" /\ (ret' = "OK" \/ (ret' = "none" /\ OkAfter(0)'))
                        /\ at = "soco" /\ ret' = "OK" => 0 \in conn \/ ClosedAfter(0)'
                        /\ at = "soco" /\ ret' = "none" =>
                             \A k \in 1 .. Len(line') :
                               line'[k].kind = "OK" => 0 \in conn \/ ClosedAfter(k)'
    BY <1>1 DEF Connected
  <1>6. ASSUME sockets'[0].connected
        PROVE  \/ 0 \in conn \/ ClosedAfter(0)'
               \/ at = "socl" /\ (ret' = "OK" \/ (ret' = "none" /\ OkAfter(0)'))
    <2>1. sockets[0].connected /\ ~(line[1].kind = "UUSOCL" /\ line[1].handle = 0)
      BY <1>6, Takes DEF PendInv, News
    <2>2. CASE 0 \in conn
      BY <2>2
    <2>3. CASE ClosedAfter(0)
      <3>1. PICK i \in 1 .. Len(line) : line[i].kind = "UUSOCL" /\ line[i].handle = 0
        BY <2>3 DEF ClosedAfter
      <3>2. i # 1
        BY <2>1, <3>1
      <3>3. i - 1 \in 1 .. Len(line') /\ line'[i - 1] = line[i]
        BY <1>1, <3>2
      <3>4. i - 1 > 0
        BY <3>3
      <3> QED
        BY <3>1, <3>3, <3>4 DEF ClosedAfter
    <2>4. CASE at = "socl" /\ OkAfter(0)
      <3>1. CASE line[1].kind = "OK"
        BY <1>1, <2>4, <3>1 DEF Final
      <3>2. CASE line[1].kind # "OK"
        <4>1. OkAfter(1) /\ OkAfter(0)'
          BY <1>3, <2>4, <3>2, OkMoves DEF PendInv
        <4>2. PICK k \in 1 .. Len(line) : k > 1 /\ line[k].kind = "OK"
          BY <4>1 DEF OkAfter
        <4>3. ~poll /\ line[1].kind \notin Final
          BY <4>2, FinalFirst DEF PendInv, Final
        <4> QED
          BY <1>1, <2>4, <4>1, <4>3
      <3> QED
        BY <3>1, <3>2
    <2> QED
      BY <1>1, <1>5, <2>1, <2>2, <2>3, <2>4 DEF PendInv, Connected
  <1>7. ASSUME at = "soco", ret' = "OK"
        PROVE  0 \in conn \/ ClosedAfter(0)'
    <2>1. line[1].kind = "OK"
      BY <1>1, <1>7
    <2>2. 0 \in conn \/ ClosedAfter(1)
      BY <1>1, <1>5, <1>7, <2>1 DEF PendInv, Connected
    <2> QED
      BY <1>4, <2>2
  <1>8. ASSUME at = "soco", NEW k \in 1 .. Len(line'), line'[k].kind = "OK"
        PROVE  0 \in conn \/ ClosedAfter(k)'
    <2>1. k + 1 \in 1 .. Len(line) /\ line[k + 1].kind = "OK" /\ k \in Nat
      BY <1>1, <1>8
    <2>2. 0 \in conn \/ ClosedAfter(k + 1)
      BY <1>1, <1>5, <1>8, <2>1 DEF PendInv, Connected
    <2> QED
      BY <1>2, <2>1, <2>2
  <1> QED
    BY <1>6, <1>7, <1>8

(* The wait takes a line. *)
LEMMA WaitLinePend ==
  ASSUME PendInv, WaitLine
  PROVE  PendInv'
  <1>1. IndInv'
    BY StepInv DEF Next, Driver, PendInv
  <1>2. Returned'
    BY TakesOne DEF PendInv, Returned
  <1> QED
    BY <1>1, <1>2, WaitLineChain, WaitLineExact, WaitLineRoom, WaitLineData, WaitLineConnected
    DEF PendInv

----------------------------------------------------------------------------
(* The modem executes a command. *)

(* Nothing matters once a line has been lost. *)
LEMMA NothingSaid ==
  ASSUME IndInv', lost' # 0
  PROVE  PendInv'
  BY DEF PendInv, Chain, Exact, Room, Parts, Data, Connected, Returned

(* The answer q has been put on the line, behind what announces and tells  *)
(* of closes.                                                              *)
AnsweredBy(q) ==
  /\ Reply(q) /\ inbox' = << >> /\ ret = "none"
  /\ UNCHANGED <<sockets, arg, at, ret, param, cut, result, lost>>
  /\ Len(line) \in Nat /\ Len(q) \in 1 .. 2 /\ Len(line') = Len(line) + Len(q)
  /\ \A i \in 1 .. Len(line) : /\ line'[i] = line[i] /\ line[i].kind \notin Final
                               /\ lost = 0 => line[i].kind \notin {"DATA", "BLOCK"}
  /\ \A i \in 1 .. Len(q) : /\ line'[Len(line) + i].kind = q[i].kind
                            /\ line'[Len(line) + i].handle = q[i].handle
                            /\ line'[Len(line) + i].n = q[i].n

Accepted(q) == q[Len(q)].kind = "OK"

(* So it is when the modem executes a command. *)
LEMMA Answered ==
  ASSUME PendInv, ModemExecutes, NEW q, Reply(q), Say(q, inbox[1])
  PROVE  AnsweredBy(q) /\ Settled /\ IndInv'
  <1>1. IndInv'
    BY StepInv DEF Next, PendInv
  <1>2. /\ inbox # << >> /\ inbox' = Tail(inbox)
        /\ UNCHANGED <<sockets, arg, at, ret, param, cut, result, lost>>
    BY Executes DEF PendInv, wait
  <1>3. /\ Len(inbox) = 1 /\ Asking /\ inbox[1].fresh = TRUE
        /\ \A i \in 1 .. Len(line) : line[i].kind \notin Final
    BY <1>2 DEF PendInv, IndInv, Answers
  <1>4. inbox' = << >> /\ ret = "none"
    BY <1>2, <1>3 DEF PendInv, IndInv, WireTypes, Asking
  <1>5. lost = 0 => \A i \in 1 .. Len(line) : line[i].kind \notin {"DATA", "BLOCK"}
    BY <1>3 DEF PendInv, Parts, OkAfter, Final
  <1>6. /\ Len(line) \in Nat /\ Len(line') = Len(line) + Len(q)
        /\ \A i \in 1 .. Len(line) : line'[i] = line[i]
        /\ \A i \in 1 .. Len(q) : /\ line'[Len(line) + i].kind = q[i].kind
                                  /\ line'[Len(line) + i].handle = q[i].handle
                                  /\ line'[Len(line) + i].n = q[i].n
    BY <1>2, <1>3, Said DEF PendInv, IndInv
  <1>7. Len(q) \in 1 .. 2
    BY DEF Reply
  <1>8. Settled
    BY <1>3, <1>4 DEF Settled, Final
  <1> QED
    BY <1>1, <1>2, <1>3, <1>4, <1>5, <1>6, <1>7, <1>8 DEF AnsweredBy

(* Its OK is behind everything else, and it announces nothing.             *)
LEMMA AnswerLines ==
  ASSUME NEW q, AnsweredBy(q)
  PROVE  /\ Len(line') \in Nat /\ Len(line') > Len(line) /\ Len(line') > 0
         /\ \A j \in 1 .. Len(line') : /\ j \in 1 .. Len(line) => (News(j)' <=> News(j))
                                       /\ News(j)' => j \in 1 .. Len(line) /\ News(j)
                                       /\ line'[j].kind = "OK" => j = Len(line') /\ Accepted(q)
                                       /\ line'[j].kind \in {"DATA", "BLOCK"} /\ lost = 0 =>
                                            /\ j = Len(line) + 1 /\ Len(q) = 2
                                            /\ line'[j].kind = q[1].kind
                                            /\ line'[j].handle = q[1].handle
                                            /\ line'[j].n = q[1].n
         /\ line'[Len(line')].kind \in {"OK", "ERROR"}
         /\ Accepted(q) => line'[Len(line')].kind = "OK"
         /\ Accepted(q) => \A i \in Nat : i < Len(line') => OkAfter(i)'
         /\ ~Accepted(q) => \A i : ~OkAfter(i)'
  <1>1. /\ Len(line) \in Nat /\ Len(q) \in 1 .. 2 /\ Len(line') = Len(line) + Len(q)
        /\ q[Len(q)].kind \in {"OK", "ERROR"}
        /\ Len(q) = 2 => q[1].kind \in Extras
    BY DEF AnsweredBy, Reply, Extra
  <1>2. Len(line') \in Nat /\ Len(line') > Len(line) /\ Len(line') > 0
    BY <1>1
  <1>3. line'[Len(line')].kind = q[Len(q)].kind
    <2>1. Len(q) \in 1 .. Len(q)
      BY <1>1
    <2> QED
      BY <1>1, <2>1 DEF AnsweredBy
  <1>4. ASSUME NEW j \in 1 .. Len(line')
        PROVE  \/ j \in 1 .. Len(line) /\ line'[j] = line[j]
               \/ j = Len(line') /\ j \notin 1 .. Len(line)
               \/ /\ j = Len(line) + 1 /\ j \notin 1 .. Len(line)
                  /\ Len(q) = 2 /\ line'[j].kind = q[1].kind
                  /\ line'[j].handle = q[1].handle /\ line'[j].n = q[1].n
    <2>1. CASE j \in 1 .. Len(line)
      BY <2>1 DEF AnsweredBy
    <2>2. CASE j \notin 1 .. Len(line)
      <3>1. j = Len(line') \/ (j = Len(line) + 1 /\ Len(q) = 2)
        BY <1>1, <2>2
      <3>2. Len(q) = 2 => /\ line'[Len(line) + 1].kind = q[1].kind
                          /\ line'[Len(line) + 1].handle = q[1].handle
                          /\ line'[Len(line) + 1].n = q[1].n
        <4>1. Len(q) = 2 => 1 \in 1 .. Len(q)
          OBVIOUS
        <4> QED
          BY <4>1 DEF AnsweredBy
      <3> QED
        BY <2>2, <3>1, <3>2
    <2> QED
      BY <2>1, <2>2
  <1>5. \A j \in 1 .. Len(line) : /\ line[j].kind \notin Final /\ line'[j] = line[j]
                                  /\ lost = 0 => line[j].kind \notin {"DATA", "BLOCK"}
    BY DEF AnsweredBy
  <1>6. \A j \in 1 .. Len(line') : /\ j \in 1 .. Len(line) => (News(j)' <=> News(j))
                                   /\ News(j)' => j \in 1 .. Len(line) /\ News(j)
    BY <1>1, <1>3, <1>4, <1>5 DEF News, Extras
  <1>7. \A j \in 1 .. Len(line') : line'[j].kind = "OK" => j = Len(line') /\ Accepted(q)
    BY <1>1, <1>3, <1>4, <1>5 DEF Extras, Final, Accepted
  <1>8. \A j \in 1 .. Len(line') : line'[j].kind \in {"DATA", "BLOCK"} /\ lost = 0 =>
          /\ j = Len(line) + 1 /\ Len(q) = 2 /\ line'[j].kind = q[1].kind
          /\ line'[j].handle = q[1].handle /\ line'[j].n = q[1].n
    BY <1>1, <1>3, <1>4, <1>5
  <1>9. Accepted(q) => \A i \in Nat : i < Len(line') => OkAfter(i)'
    <2>1. Len(line') \in 1 .. Len(line')
      BY <1>2
    <2> QED
      BY <1>3, <2>1 DEF OkAfter, Accepted
  <1>10. ~Accepted(q) => \A i : ~OkAfter(i)'
    BY <1>7 DEF OkAfter
  <1> QED
    BY <1>1, <1>2, <1>3, <1>6, <1>7, <1>8, <1>9, <1>10 DEF Accepted

(* What answers a read is a refusal, or the data asked for and OK. *)
Fits(q) ==
  /\ Len(q) = 2 /\ q[1].kind \in {"DATA", "BLOCK"} => Accepted(q)
  /\ Len(q) = 2 /\ q[1].kind = "BLOCK" => at = "sord" /\ q[1].handle = 0
  /\ Reading => \/ Len(q) = 1 /\ ~Accepted(q)
                \/ Len(q) = 2 /\ q[1].kind = Asks /\ q[1].n = arg.blk

(* An answer is complete, and returns nothing by itself. *)
LEMMA AnswerParts ==
  ASSUME PendInv, NEW q, AnsweredBy(q), lost = 0 => Fits(q)
  PROVE  Parts' /\ Room' /\ Returned'
  <1>1. /\ inbox' = << >> /\ UNCHANGED <<lost, at, result>> /\ Len(line) \in Nat
        /\ Len(line') = Len(line) + Len(q)
    BY DEF AnsweredBy
  <1>2. ASSUME lost = 0, NEW i \in 1 .. Len(line'), line'[i].kind \in {"DATA", "BLOCK"}
        PROVE  OkAfter(i)' /\ (line'[i].kind = "BLOCK" => at = "sord" /\ line'[i].handle = 0)
    <2>1. /\ i = Len(line) + 1 /\ Len(q) = 2
          /\ line'[i].kind = q[1].kind /\ line'[i].handle = q[1].handle
      BY <1>2, AnswerLines
    <2>2. Accepted(q) /\ i \in Nat /\ i < Len(line')
      BY <1>1, <1>2, <2>1 DEF Fits
    <2>3. OkAfter(i)'
      BY <2>2, AnswerLines
    <2> QED
      BY <1>2, <2>1, <2>3 DEF Fits
  <1>3. Parts'
    BY <1>1, <1>2 DEF Parts
  <1>4. Room' /\ Returned'
    BY <1>1 DEF Room, Returned, PendInv
  <1> QED
    BY <1>3, <1>4

(* The data that answers is what was asked for. *)
LEMMA AnswerData ==
  ASSUME PendInv, NEW q, AnsweredBy(q), lost = 0 => Fits(q)
  PROVE  Data'
  <1>1. UNCHANGED <<lost, at, arg, ret>> /\ ret = "none"
    BY DEF AnsweredBy
  <1>2. SUFFICES ASSUME lost = 0, Reading
        PROVE  /\ \A i \in 1 .. Len(line') : line'[i].kind = Asks => line'[i].n = arg.blk
               /\ \A k \in 1 .. Len(line') : line'[k].kind = "OK" =>
                    \E i \in 1 .. Len(line') : i < k /\ line'[i].kind = Asks
    BY <1>1 DEF Data, Reading, Asks
  <1>3. ASSUME NEW i \in 1 .. Len(line'), line'[i].kind = Asks
        PROVE  line'[i].n = arg.blk
    <2>1. Len(q) = 2 /\ line'[i].n = q[1].n
      BY <1>2, <1>3, AnswerLines DEF Asks
    <2> QED
      BY <1>2, <2>1 DEF Fits
  <1>4. ASSUME NEW k \in 1 .. Len(line'), line'[k].kind = "OK"
        PROVE  \E i \in 1 .. Len(line') : i < k /\ line'[i].kind = Asks
    <2>1. k = Len(line') /\ Accepted(q)
      BY <1>4, AnswerLines
    <2>2. Len(q) = 2 /\ q[1].kind = Asks
      BY <1>2, <2>1 DEF Fits
    <2>3. Len(line) \in Nat /\ Len(line') = Len(line) + 2 /\ 1 \in 1 .. Len(q)
      BY <2>2 DEF AnsweredBy
    <2>4. line'[Len(line) + 1].kind = Asks
      BY <2>2, <2>3 DEF AnsweredBy
    <2>5. Len(line) + 1 \in 1 .. Len(line') /\ Len(line) + 1 < k
      BY <2>1, <2>3
    <2> QED
      BY <2>4, <2>5
  <1> QED
    BY <1>3, <1>4

(* A close that is accepted is told, a connect that is accepted is one.    *)
LEMMA AnswerConnected ==
  ASSUME PendInv, NEW q, AnsweredBy(q),
         0 \in conn => 0 \in conn' \/ (at = "socl" /\ Accepted(q)),
         at = "soco" /\ Accepted(q) => 0 \in conn'
  PROVE  Connected'
  <1>1. UNCHANGED <<sockets, lost, at, ret>> /\ ret = "none"
    BY DEF AnsweredBy
  <1>2. ClosedAfter(0) => ClosedAfter(0)'
    <2>1. \A i \in 1 .. Len(line) : i \in 1 .. Len(line') /\ line'[i] = line[i]
      BY DEF AnsweredBy
    <2> QED
      BY <2>1 DEF ClosedAfter
  <1>3. ~OkAfter(0)
    BY DEF AnsweredBy, OkAfter, Final
  <1>4. Accepted(q) => OkAfter(0)'
    BY AnswerLines
  <1>5. lost = 0 /\ sockets[0].connected => 0 \in conn \/ ClosedAfter(0)
    BY <1>1, <1>3 DEF PendInv, Connected
  <1>6. lost = 0 /\ sockets[0].connected =>
          0 \in conn' \/ ClosedAfter(0)' \/ (at = "socl" /\ OkAfter(0)')
    BY <1>2, <1>4, <1>5
  <1>7. ASSUME at = "soco", NEW k \in 1 .. Len(line'), line'[k].kind = "OK"
        PROVE  0 \in conn'
    <2>1. Accepted(q)
      BY <1>7, AnswerLines
    <2> QED
      BY <1>7, <2>1
  <1>8. lost' = lost /\ at' = at /\ sockets' = sockets /\ ret' = "none"
    BY <1>1
  <1> QED
    BY <1>6, <1>7, <1>8 DEF Connected

(* An answer that changes nothing of what is counted. *)
LEMMA AnswerKeeps ==
  ASSUME PendInv, Settled, NEW q, AnsweredBy(q), IndInv',
         at \notin {"socr", "sord", "sorf"} \/ ~Accepted(q),
         0 \in open' => 0 \in open /\ UNCHANGED <<held, given>>
  PROVE  Chain' /\ Exact'
  <1>1. /\ UNCHANGED <<sockets, cut, lost, at, ret>> /\ ret = "none"
        /\ \A i \in 1 .. Len(line) : i \in 1 .. Len(line') /\ line'[i] = line[i]
    BY DEF AnsweredBy
  <1>2. \A i : Off(i)' = 0 /\ ~Behind(i)'
    <2>1. CASE ~Accepted(q)
      <3>1. \A i : ~OkAfter(i)'
        BY <2>1, AnswerLines
      <3> QED
        BY <3>1 DEF Off, Behind
    <2>2. CASE at \notin {"socr", "sord", "sorf"}
      BY <1>1, <2>2 DEF Off, Behind, Reading
    <2> QED
      BY <2>1, <2>2
  <1>3. Owed' = 0 /\ ~Restarted'
    BY <1>1, <1>2 DEF Owed, Restarted
  <1>4. Seen' = sockets[0].pending /\ \A i \in 1 .. Len(line) : Value(i)' = line[i].n
    BY <1>1, <1>2, <1>3, Counted DEF PendInv, Seen, Value
  <1>5. SettledChain /\ SettledExact
    BY SettledSays DEF PendInv
  <1>6. /\ \A j \in 1 .. Len(line') : News(j)' => j \in 1 .. Len(line) /\ News(j)
        /\ \A j \in 1 .. Len(line) : News(j) => News(j)'
    BY <1>1, AnswerLines
  <1>7. Chain'
    BY <1>1, <1>2, <1>3, <1>4, <1>5, <1>6 DEF Chain, SettledChain
  <1>8. ASSUME lost = 0, 0 \in open', given'[Len(given')] = 0, sockets[0].handle = 0
        PROVE  (LastSays \/ SlotSays)'
    <2>1. 0 \in open /\ held' = held /\ given' = given
      BY <1>8
    <2>2. \/ \E i \in 1 .. Len(line) : /\ News(i) /\ line[i].n = held[0]
                                       /\ \A j \in 1 .. Len(line) : News(j) => j <= i
          \/ /\ \A j \in 1 .. Len(line) : ~News(j)
             /\ 0 \in cut \/ sockets[0].pending = held[0]
      BY <1>5, <1>8, <2>1 DEF SettledExact
    <2>3. CASE \E i \in 1 .. Len(line) : /\ News(i) /\ line[i].n = held[0]
                                         /\ \A j \in 1 .. Len(line) : News(j) => j <= i
      BY <1>1, <1>2, <1>4, <1>6, <2>1, <2>3 DEF LastSays
    <2>4. CASE /\ \A j \in 1 .. Len(line) : ~News(j)
               /\ 0 \in cut \/ sockets[0].pending = held[0]
      BY <1>1, <1>3, <1>4, <1>6, <2>1, <2>4 DEF SlotSays
    <2> QED
      BY <2>2, <2>3, <2>4
  <1>9. Exact'
    BY <1>1, <1>3, <1>8 DEF Exact
  <1> QED
    BY <1>7, <1>9

(* So does any answer that is not to a read or a creation, or refuses it.  *)
LEMMA AnswerPend ==
  ASSUME PendInv, Settled, NEW q, AnsweredBy(q), IndInv',
         at \notin {"socr", "sord", "sorf"} \/ ~Accepted(q),
         Len(q) = 1 \/ (~Reading /\ q[1].kind \notin {"DATA", "BLOCK"}),
         0 \in open' => 0 \in open /\ UNCHANGED <<held, given>>,
         0 \in conn => 0 \in conn' \/ (at = "socl" /\ Accepted(q)),
         at = "soco" /\ Accepted(q) => 0 \in conn'
  PROVE  PendInv'
  <1>1. Chain' /\ Exact'
    BY AnswerKeeps
  <1>2. Fits(q)
    <2>1. Len(q) \in 1 .. 2
      BY DEF AnsweredBy
    <2> QED
      BY <2>1 DEF Fits, Reading
  <1>3. Data' /\ Connected'
    BY <1>2, AnswerData, AnswerConnected
  <1> QED
    BY <1>1, <1>2, <1>3, AnswerParts DEF PendInv

(* A new socket: all that was announced is of the time before, and nothing *)
(* is held.                                                                *)
LEMMA CreatedPend ==
  ASSUME PendInv, Settled, NEW q, AnsweredBy(q), IndInv', at = "socr", Accepted(q),
         Len(q) = 2 => q[1].kind = "HANDLE", NEW h \in Handles, held' = [held EXCEPT ![h] = 0], given' = Append(given, h),
         conn' = conn
  PROVE  PendInv'
  <1>1. /\ UNCHANGED <<sockets, lost, at, ret>> /\ ret = "none" /\ Len(line) \in Nat
        /\ \A i \in 1 .. Len(line) : i \in 1 .. Len(line') /\ line'[i] = line[i]
    BY DEF AnsweredBy
  <1>2. \A i \in 1 .. Len(line) : i \in Nat /\ i < Len(line')
    BY <1>1, AnswerLines
  <1>3. /\ \A i \in 1 .. Len(line) : Behind(i)'
        /\ Restarted' /\ Owed' = 0 /\ \A i : Off(i)' = 0
    <2>1. \A i \in 1 .. Len(line) : OkAfter(i)'
      BY <1>2, AnswerLines
    <2>2. OkAfter(0)'
      BY AnswerLines
    <2> QED
      BY <1>1, <2>1, <2>2 DEF Behind, Restarted, Owed, Off, Reading
  <1>4. Seen' = sockets[0].pending /\ \A i \in 1 .. Len(line) : Value(i)' = line[i].n
    BY <1>1, <1>3, Counted DEF PendInv, Seen, Value
  <1>5. \A j \in 1 .. Len(line') : News(j)' => j \in 1 .. Len(line) /\ News(j)
    BY AnswerLines
  <1>6. SettledChain
    BY SettledSays DEF PendInv
  <1>7. Chain'
    BY <1>1, <1>3, <1>4, <1>5, <1>6 DEF Chain, SettledChain
  <1>8. ASSUME given'[Len(given')] = 0
        PROVE  SlotSays'
    <2>1. given \in Seq(Handles) /\ held \in [Handles -> 0 .. MaxBuffered]
      BY DEF PendInv, IndInv, ModemTypes
    <2>2. given'[Len(given')] = h
      BY <2>1, AppendProperties
    <2>3. held'[0] = 0
      BY <1>8, <2>1, <2>2
    <2> QED
      BY <1>3, <1>5, <2>3 DEF SlotSays
  <1>9. Exact'
    BY <1>8 DEF Exact
  <1>10. Fits(q)
    BY DEF Fits, Reading
  <1>11. Data' /\ Connected'
    BY <1>10, AnswerData, AnswerConnected
  <1> QED
    BY <1>7, <1>9, <1>10, <1>11, AnswerParts DEF PendInv

(* A block has been read: it is taken off everything that still counts it. *)
LEMMA ReadPend ==
  ASSUME PendInv, Settled, NEW q, AnsweredBy(q), IndInv', Reading, Accepted(q), lost = 0,
         0 \in open, arg.blk <= sockets[0].pending,
         Len(q) = 2, q[1].kind = Asks, q[1].handle = 0 \/ at = "sorf", q[1].n = arg.blk,
         held' = [held EXCEPT ![0] = held[0] - arg.blk], UNCHANGED <<open, conn, given>>
  PROVE  PendInv'
  <1>1. /\ UNCHANGED <<sockets, arg, cut, lost, at, ret>> /\ ret = "none" /\ Len(line) \in Nat
        /\ \A i \in 1 .. Len(line) : i \in 1 .. Len(line') /\ line'[i] = line[i]
    BY DEF AnsweredBy
  <1>2. Reading' /\ at # "socr"
    BY <1>1 DEF Reading
  <1>3. \A i \in 1 .. Len(line) : i \in Nat /\ i < Len(line')
    BY <1>1, AnswerLines
  <1>4. /\ \A i \in 1 .. Len(line) : Off(i)' = arg.blk
        /\ Owed' = arg.blk
    <2>1. \A i \in 1 .. Len(line) : OkAfter(i)'
      BY <1>3, AnswerLines
    <2>2. OkAfter(0)'
      BY AnswerLines
    <2> QED
      BY <1>1, <1>2, <2>1, <2>2 DEF Off, Owed
  <1>5. ~Restarted' /\ \A i : ~Behind(i)'
    BY <1>1, <1>2 DEF Restarted, Behind
  <1>6. /\ Seen' = sockets[0].pending - arg.blk
        /\ \A i \in 1 .. Len(line) : Value(i)' = line[i].n - arg.blk
        /\ held'[0] = held[0] - arg.blk
    BY <1>1, <1>4, ZeroIsSlot DEF Seen, Value, PendInv, IndInv, ModemTypes
  <1>7. /\ \A j \in 1 .. Len(line') : News(j)' => j \in 1 .. Len(line) /\ News(j)
        /\ \A j \in 1 .. Len(line) : News(j) => News(j)'
    BY <1>1, AnswerLines
  <1>8. SettledChain /\ SettledExact
    BY SettledSays DEF PendInv
  <1>9. /\ arg.blk \in Int /\ sockets[0].pending \in Int /\ held[0] \in Int
        /\ \A i \in 1 .. Len(line) : line[i].n \in Int
    BY Counted DEF PendInv
  <1>10. /\ Seen' >= 0 /\ Seen' <= held'[0]
         /\ \A i \in 1 .. Len(line) : News(i) => Seen' <= Value(i)' /\ Value(i)' <= held'[0]
         /\ \A i, j \in 1 .. Len(line) : News(i) /\ News(j) /\ i < j => Value(i)' <= Value(j)'
    <2>1. Seen' >= 0 /\ Seen' <= held'[0]
      BY <1>6, <1>8, <1>9 DEF SettledChain
    <2>2. ASSUME NEW i \in 1 .. Len(line), News(i)
          PROVE  Seen' <= Value(i)' /\ Value(i)' <= held'[0]
      <3>1. sockets[0].pending <= line[i].n /\ line[i].n <= held[0] /\ line[i].n \in Int
        BY <1>8, <1>9, <2>2 DEF SettledChain
      <3> QED
        BY <1>6, <1>9, <3>1
    <2>3. ASSUME NEW i \in 1 .. Len(line), NEW j \in 1 .. Len(line), News(i), News(j), i < j
          PROVE  Value(i)' <= Value(j)'
      <3>1. line[i].n <= line[j].n /\ line[i].n \in Int /\ line[j].n \in Int
        BY <1>8, <1>9, <2>3 DEF SettledChain
      <3> QED
        BY <1>6, <1>9, <3>1
    <2> QED
      BY <2>1, <2>2, <2>3
  <1>11. Chain'
    BY <1>5, <1>7, <1>10 DEF Chain
  <1>12. Exact'
    <2>1. SUFFICES ASSUME given[Len(given)] = 0, sockets[0].handle = 0
                   PROVE  (LastSays \/ SlotSays)'
      BY <1>1, <1>5 DEF Exact
    <2>2. \/ \E i \in 1 .. Len(line) : /\ News(i) /\ line[i].n = held[0]
                                       /\ \A j \in 1 .. Len(line) : News(j) => j <= i
          \/ /\ \A j \in 1 .. Len(line) : ~News(j)
             /\ 0 \in cut \/ sockets[0].pending = held[0]
      BY <1>8, <2>1 DEF SettledExact
    <2>3. CASE \E i \in 1 .. Len(line) : /\ News(i) /\ line[i].n = held[0]
                                         /\ \A j \in 1 .. Len(line) : News(j) => j <= i
      BY <1>1, <1>5, <1>6, <1>7, <2>3 DEF LastSays
    <2>4. CASE /\ \A j \in 1 .. Len(line) : ~News(j)
               /\ 0 \in cut \/ sockets[0].pending = held[0]
      BY <1>1, <1>5, <1>6, <1>7, <1>9, <2>4 DEF SlotSays
    <2> QED
      BY <2>2, <2>3, <2>4
  <1>13. Fits(q)
    BY DEF Fits, Reading, Asks
  <1>14. Data' /\ Connected'
    BY <1>2, <1>13, AnswerData, AnswerConnected DEF Reading
  <1> QED
    BY <1>11, <1>12, <1>13, <1>14, AnswerParts DEF PendInv

(* Which answers accept. *)
LEMMA Accepts ==
  /\ Len(<<OK>>) = 1 /\ Accepted(<<OK>>) /\ Len(<<ERROR>>) = 1 /\ ~Accepted(<<ERROR>>)
  /\ \A x : LET q == <<x, OK>> IN Len(q) = 2 /\ Accepted(q) /\ q[1] = x
  BY DEF Accepted, OK, ERROR, Answer

(* Where the driver waits tells which command is executed. *)
LEMMA CommandIs ==
  ASSUME PendInv, ModemExecutes
  PROVE  /\ inbox[1].kind = "NSOCR" <=> at = "socr"
         /\ inbox[1].kind = "NSOCO" <=> at = "soco"
         /\ inbox[1].kind = "NSOCL" <=> at = "socl"
         /\ inbox[1].kind \in {"NSORF", "USORD"} <=> Reading
         /\ OnZero => inbox[1].handle = 0
         /\ Reading => inbox[1].n = arg.blk /\ arg.blk \in Nat /\ arg.blk > 0
  <1>1. inbox # << >>
    BY Executes DEF PendInv
  <1>2. /\ at \in DOMAIN CommandAt /\ inbox[1].kind = CommandAt[at]
        /\ OnZero => inbox[1].handle = 0
        /\ Reading => inbox[1].n = arg.blk /\ arg.blk > 0
    BY <1>1 DEF PendInv, IndInv, Locals
  <1>3. arg.blk \in Nat
    BY Counted DEF PendInv
  <1> QED
    BY <1>2, <1>3 DEF CommandAt, Reading

(* A command that is refused. *)
LEMMA RefusedPend ==
  ASSUME PendInv, ModemExecutes, Say(<<ERROR>>, inbox[1]), UNCHANGED modem
  PROVE  PendInv'
  <1>1. PICK q : q = <<ERROR>>
    OBVIOUS
  <1>2. Reply(q) /\ Say(q, inbox[1]) /\ Len(q) = 1 /\ ~Accepted(q)
    BY <1>1, Replying, Accepts
  <1>3. AnsweredBy(q) /\ Settled /\ IndInv'
    BY <1>2, Answered
  <1> QED
    BY <1>2, <1>3, AnswerPend DEF modem

(* A command that is accepted and says nothing about slot 0. *)
LEMMA OtherPend ==
  ASSUME PendInv, ModemExecutes, NEW q, Reply(q), Say(q, inbox[1]), UNCHANGED modem,
         at \notin {"socr", "soco", "sord", "sorf"},
         Len(q) = 1 \/ q[1].kind \notin {"DATA", "BLOCK"}
  PROVE  PendInv'
  <1>1. AnsweredBy(q) /\ Settled /\ IndInv'
    BY Answered
  <1> QED
    BY <1>1, AnswerPend DEF modem, Reading

(* A socket is created. *)
LEMMA CreatePend ==
  ASSUME PendInv, ModemExecutes, inbox[1].kind = "NSOCR", Create(inbox[1])
  PROVE  PendInv'
  <1>1. CASE Say(<<ERROR>>, inbox[1]) /\ UNCHANGED modem
    BY <1>1, RefusedPend
  <1>2. CASE ~(Say(<<ERROR>>, inbox[1]) /\ UNCHANGED modem)
    <2> DEFINE h == CHOOSE h \in Handles \ open : \A g \in Handles \ open : h <= g
    <2>1. /\ Handles \ open # {} /\ held' = [held EXCEPT ![h] = 0]
          /\ given' = Append(given, h) /\ Say(<<Answer("HANDLE", h), OK>>, inbox[1])
          /\ conn' = conn
      BY <1>2 DEF Create
    <2>2. h \in Handles
      BY <2>1, NewHandle
    <2> HIDE DEF h
    <2>3. PICK x \in Lined : x = Answer("HANDLE", h) /\ Extra(x) /\ x.kind = "HANDLE"
      BY <2>2, SocketsAssumption, Extracts DEF Answer
    <2>4. PICK q : q = <<x, OK>>
      OBVIOUS
    <2>5. Reply(q) /\ Accepted(q) /\ Say(q, inbox[1]) /\ q[1].kind = "HANDLE"
      BY <2>1, <2>3, <2>4, Replying, Accepts
    <2>6. AnsweredBy(q) /\ Settled /\ IndInv' /\ at = "socr"
      BY <2>5, Answered, CommandIs
    <2> QED
      BY <2>1, <2>2, <2>5, <2>6, CreatedPend
  <1> QED
    BY <1>1, <1>2

(* A socket is connected. *)
LEMMA ConnectedPend ==
  ASSUME PendInv, ModemExecutes, inbox[1].kind = "NSOCO", Connect(inbox[1])
  PROVE  PendInv'
  <1>1. CASE Say(<<ERROR>>, inbox[1]) /\ UNCHANGED modem
    BY <1>1, RefusedPend
  <1>2. CASE ~(Say(<<ERROR>>, inbox[1]) /\ UNCHANGED modem)
    <2>1. at = "soco" /\ inbox[1].handle = 0
      BY CommandIs DEF OnZero
    <2>2. /\ conn' = conn \cup {0} /\ Say(<<OK>>, inbox[1])
          /\ UNCHANGED <<open, held, given>>
      BY <1>2, <2>1 DEF Connect
    <2>3. PICK q : q = <<OK>>
      OBVIOUS
    <2>4. Reply(q) /\ Say(q, inbox[1]) /\ Len(q) = 1
      BY <2>2, <2>3, Replying, Accepts
    <2>5. AnsweredBy(q) /\ Settled /\ IndInv'
      BY <2>4, Answered
    <2> QED
      BY <2>1, <2>2, <2>4, <2>5, AnswerPend
  <1> QED
    BY <1>1, <1>2

(* A socket is closed. *)
LEMMA ClosedPend ==
  ASSUME PendInv, ModemExecutes, inbox[1].kind = "NSOCL", Close(inbox[1])
  PROVE  PendInv'
  <1>1. CASE Say(<<ERROR>>, inbox[1]) /\ UNCHANGED modem
    BY <1>1, RefusedPend
  <1>2. CASE ~(Say(<<ERROR>>, inbox[1]) /\ UNCHANGED modem)
    <2>1. at = "socl" /\ inbox[1].handle = 0
      BY CommandIs DEF OnZero
    <2>2. open' = open \ {0} /\ Say(<<OK>>, inbox[1])
      BY <1>2, <2>1 DEF Close
    <2>3. PICK q : q = <<OK>>
      OBVIOUS
    <2>4. Reply(q) /\ Say(q, inbox[1]) /\ Len(q) = 1 /\ Accepted(q)
      BY <2>2, <2>3, Replying, Accepts
    <2>5. AnsweredBy(q) /\ Settled /\ IndInv'
      BY <2>4, Answered
    <2> QED
      BY <2>1, <2>2, <2>4, <2>5, AnswerPend
  <1> QED
    BY <1>1, <1>2

(* A block is read.  It was pending, so the modem holds it: it answers     *)
(* with all of it.                                                         *)
LEMMA ReadsPend ==
  ASSUME PendInv, ModemExecutes, inbox[1].kind \in {"NSORF", "USORD"}, Read(inbox[1])
  PROVE  PendInv'
  <1>1. CASE Say(<<ERROR>>, inbox[1]) /\ UNCHANGED modem
    BY <1>1, RefusedPend
  <1>2. CASE ~(Say(<<ERROR>>, inbox[1]) /\ UNCHANGED modem)
    <2>1. /\ Reading /\ inbox[1].handle = 0 /\ inbox[1].n = arg.blk
          /\ arg.blk \in Nat /\ arg.blk > 0
      BY CommandIs DEF OnZero, Reading
    <2> DEFINE n == Least(arg.blk, held[0])
    <2>2. /\ 0 \in open /\ held' = [held EXCEPT ![0] = held[0] - n]
          /\ Say(IF n > 0 THEN <<DataLine(inbox[1], n), OK>> ELSE <<OK>>, inbox[1])
          /\ UNCHANGED <<open, conn, given>>
      BY <1>2, <2>1 DEF Read
    <2>3. inbox # << >> /\ lost' = lost
      BY Executes DEF PendInv
    <2>4. CASE lost # 0
      <3>1. IndInv'
        BY StepInv DEF Next, PendInv
      <3> QED
        BY <2>3, <2>4, <3>1, NothingSaid
    <2>5. CASE lost = 0
      <3>1. Settled
        BY <2>3 DEF PendInv, IndInv, Answers, Settled, Final, Asking
      <3>2. sockets[0].pending <= held[0]
        BY <2>2, <2>5, <3>1, SettledSays DEF PendInv, SettledChain
      <3>3. ret = "none"
        BY <2>3 DEF PendInv, IndInv, Answers, Asking
      <3>4. arg.blk <= sockets[0].pending
        BY <2>1, <2>3, <2>5, <3>3 DEF PendInv, Room
      <3>5. sockets[0].pending \in Int /\ held[0] \in Nat
        BY Counted DEF PendInv
      <3>6. n = arg.blk
        BY <2>1, <3>2, <3>4, <3>5 DEF Least
      <3> HIDE DEF n
      <3>7. PICK x \in Lined : /\ x = DataLine(inbox[1], arg.blk) /\ Extra(x) /\ x.kind = Asks
                              /\ x.n = arg.blk /\ (x.handle = 0 \/ at = "sorf")
        <4>1. inbox[1].kind = "USORD" <=> at = "sord"
          BY <2>1, <2>3, CommandIs DEF PendInv, IndInv, Locals, CommandAt, Reading
        <4>2. CASE at = "sord"
          BY <2>1, <4>1, <4>2, Extracts, ZeroIsSlot DEF DataLine, Asks, Answer
        <4>3. CASE at = "sorf"
          BY <2>1, <4>1, <4>3, Extracts DEF DataLine, Asks, Answer
        <4> QED
          BY <2>1, <4>2, <4>3 DEF Reading
      <3>8. PICK q : q = <<x, OK>>
        OBVIOUS
      <3>9. Say(q, inbox[1])
        <4>1. n > 0
          BY <2>1, <3>6
        <4> QED
          BY <2>2, <3>6, <3>7, <3>8, <4>1
      <3>10. /\ Reply(q) /\ Accepted(q) /\ Len(q) = 2 /\ q[1].kind = Asks
             /\ q[1].n = arg.blk /\ (q[1].handle = 0 \/ at = "sorf")
        BY <3>7, <3>8, Replying, Accepts
      <3>11. AnsweredBy(q) /\ Settled /\ IndInv'
        BY <3>9, <3>10, Answered
      <3>12. held' = [held EXCEPT ![0] = held[0] - arg.blk]
        BY <2>2, <3>6
      <3> QED
        BY <2>1, <2>2, <2>5, <3>4, <3>10, <3>11, <3>12, ReadPend
    <2> QED
      BY <2>4, <2>5
  <1> QED
    BY <1>1, <1>2

(* The modem executes a command. *)
LEMMA ExecutesPend ==
  ASSUME PendInv, ModemExecutes
  PROVE  PendInv'
  <1>1. CASE inbox[1].kind = "UDNSRN" /\ Resolve(inbox[1])
    <2>1. PICK x \in Lined : x = Answer("ADDRESS", 0) /\ Extra(x) /\ x.kind = "ADDRESS"
      <3>1. /\ Answer("ADDRESS", 0) \in Lined /\ Extra(Answer("ADDRESS", 0))
            /\ Answer("ADDRESS", 0).kind = "ADDRESS"
        BY Extracts DEF Answer
      <3> QED
        BY <3>1
    <2>2. PICK q \in {<<Answer("ADDRESS", 0), OK>>, <<OK>>, <<ERROR>>} : Say(q, inbox[1])
      BY <1>1 DEF Resolve
    <2>3. q \in {<<x, OK>>, <<OK>>, <<ERROR>>}
      BY <2>1, <2>2
    <2>4. Reply(q) /\ UNCHANGED modem /\ (Len(q) = 1 \/ q[1].kind \notin {"DATA", "BLOCK"})
      BY <1>1, <2>1, <2>3, Replying, Accepts DEF Resolve
    <2>5. at \notin {"socr", "soco", "sord", "sorf"}
      BY <1>1, CommandIs DEF Reading
    <2> QED
      BY <2>2, <2>4, <2>5, OtherPend
  <1>2. CASE inbox[1].kind = "NSOST" /\ Other(inbox[1])
    <2>1. UNCHANGED modem /\ (Say(<<OK>>, inbox[1]) \/ Say(<<ERROR>>, inbox[1]))
      BY <1>2 DEF Other
    <2>2. PICK q : Reply(q) /\ Say(q, inbox[1]) /\ Len(q) = 1
      BY <2>1, Replying, Accepts
    <2>3. at \notin {"socr", "soco", "sord", "sorf"}
      BY <1>2, CommandIs DEF Reading
    <2> QED
      BY <2>1, <2>2, <2>3, OtherPend
  <1> QED
    BY <1>1, <1>2, Executes, CreatePend, ConnectedPend, ClosedPend, ReadsPend DEF PendInv

----------------------------------------------------------------------------
(* What comes by itself. *)

(* A line that comes by itself goes behind the others and leaves what they *)
(* say as it is.                                                           *)
LEMMA Appended ==
  ASSUME PendInv, NEW k \in {"NSONMI", "UUSOCL"}, NEW h \in Handles, NEW n \in Nat,
         line' = Append(line, Urc(k, h, n)),
         UNCHANGED <<sockets, op, arg, wait, expired, result, inbox, dataMode, lost>>
  PROVE  /\ Len(line) \in Nat /\ Len(line') = Len(line) + 1
         /\ \A i \in 1 .. Len(line) : /\ i \in 1 .. Len(line') /\ line'[i] = line[i]
                                      /\ News(i)' <=> News(i)
                                      /\ Value(i)' = Value(i)
                                      /\ Behind(i)' <=> Behind(i)
         /\ \A i \in 1 .. Len(line') : i \in 1 .. Len(line) \/ i = Len(line) + 1
         /\ line'[Len(line) + 1].kind = k /\ line'[Len(line) + 1].handle = h
         /\ \A m \in Nat : m = Len(line) + 1 => Value(m)' = n /\ ~Behind(m)'
         /\ Seen' = Seen /\ (Restarted' <=> Restarted)
         /\ \A i : OkAfter(i)' <=> OkAfter(i)
  <1>1. UNCHANGED <<sockets, arg, at, poll, ret, own, param, result, lost, inbox, dataMode>>
    BY DEF wait
  <1>2. /\ Len(line') = Len(line) + 1
        /\ \A i \in 1 .. Len(line) : line'[i] = line[i]
        /\ line'[Len(line) + 1] = Urc(k, h, n)
    BY <1>1, Announced DEF PendInv, IndInv, About, Announcing
  <1>3. Len(line) \in Nat
    BY Counted DEF PendInv
  <1>4. Urc(k, h, n).kind = k /\ Urc(k, h, n).handle = h /\ Urc(k, h, n).n = n
    BY DEF Urc
  <1>5. /\ \A i \in 1 .. Len(line) : i \in 1 .. Len(line')
        /\ \A i \in 1 .. Len(line') : i \in 1 .. Len(line) \/ i = Len(line) + 1
    BY <1>2, <1>3
  <1>6. \A i \in 1 .. Len(line') : line'[i].kind = "OK" => i \in 1 .. Len(line)
    BY <1>2, <1>4, <1>5
  <1>7. \A i : OkAfter(i)' <=> OkAfter(i)
    BY <1>2, <1>5, <1>6 DEF OkAfter
  <1>8. /\ \A i : Off(i)' = Off(i) /\ (Behind(i)' <=> Behind(i))
        /\ Owed' = Owed /\ (Restarted' <=> Restarted)
    BY <1>1, <1>7 DEF Off, Behind, Owed, Restarted, Reading
  <1>9. ASSUME NEW m \in Nat, m = Len(line) + 1
        PROVE  Off(m)' = 0 /\ ~Behind(m)'
    <2>1. \A i \in 1 .. Len(line) : ~(i > m)
      BY <1>3, <1>9
    <2>2. ~OkAfter(m)
      BY <2>1 DEF OkAfter
    <2>3. ~OkAfter(m)'
      BY <1>7, <2>2
    <2> QED
      BY <2>3 DEF Off, Behind
  <1>10. ASSUME NEW m \in Nat, m = Len(line) + 1
         PROVE  Value(m)' = n
    <2>1. line'[m].n = n
      BY <1>2, <1>4, <1>10
    <2>2. Off(m)' = 0
      BY <1>9, <1>10
    <2> QED
      BY <2>1, <2>2 DEF Value
  <1>11. \A i \in 1 .. Len(line) : (News(i)' <=> News(i)) /\ Value(i)' = Value(i)
    BY <1>2, <1>8 DEF News, Value
  <1>12. Seen' = Seen
    BY <1>1, <1>8 DEF Seen
  <1> QED
    BY <1>2, <1>3, <1>4, <1>5, <1>7, <1>8, <1>9, <1>10, <1>11, <1>12

(* So what is known of an answer stays so, and a close that is on its way. *)
LEMMA AppendedRest ==
  ASSUME PendInv, NEW k \in {"NSONMI", "UUSOCL"}, NEW h \in Handles, NEW n \in Nat,
         line' = Append(line, Urc(k, h, n)),
         UNCHANGED <<sockets, op, arg, wait, expired, result, inbox, dataMode, lost>>,
         0 \in conn => 0 \in conn' \/ (k = "UUSOCL" /\ h = 0)
  PROVE  Room' /\ Parts' /\ Data' /\ Connected' /\ Returned'
  <1>1. UNCHANGED <<sockets, arg, at, ret, param, result, lost, inbox>>
    BY DEF wait
  <1>2. /\ Len(line) \in Nat /\ Len(line') = Len(line) + 1
        /\ \A i \in 1 .. Len(line) : i \in 1 .. Len(line') /\ line'[i] = line[i]
        /\ line'[Len(line) + 1].kind = k /\ line'[Len(line) + 1].handle = h
    BY Appended
  <1>3. \A i \in 1 .. Len(line') : i \in 1 .. Len(line) \/ i = Len(line) + 1
    BY <1>2
  <1>4. \A i \in 1 .. Len(line') :
          line'[i].kind \in {"OK", "ERROR", "DATA", "BLOCK"} => i \in 1 .. Len(line) /\ line'[i] = line[i]
    BY <1>2, <1>3
  <1>5. Room' /\ Returned'
    BY <1>1 DEF PendInv, Room, Reading, Returned
  <1>6. Parts'
    <2>1. \A i : OkAfter(i)' <=> OkAfter(i)
      BY Appended
    <2> QED
      BY <1>1, <1>2, <1>4, <2>1 DEF PendInv, Parts
  <1>7. Data'
    <2>1. SUFFICES ASSUME lost = 0, Reading
          PROVE  /\ \A i \in 1 .. Len(line') : line'[i].kind = Asks => line'[i].n = arg.blk
                 /\ ret = "OK" => param = arg.blk
                 /\ ret = "none" => \A m \in 1 .. Len(line') : line'[m].kind = "OK" =>
                      \/ param = arg.blk
                      \/ \E i \in 1 .. Len(line') : i < m /\ line'[i].kind = Asks
      BY <1>1 DEF Data, Reading, Asks
    <2>2. /\ \A i \in 1 .. Len(line) : line[i].kind = Asks => line[i].n = arg.blk
          /\ ret = "OK" => param = arg.blk
          /\ ret = "none" => \A m \in 1 .. Len(line) : line[m].kind = "OK" =>
               \/ param = arg.blk
               \/ \E i \in 1 .. Len(line) : i < m /\ line[i].kind = Asks
      BY <2>1 DEF PendInv, Data
    <2> QED
      BY <1>2, <1>4, <2>2 DEF Asks
  <1>8. ASSUME NEW m \in Int, m <= Len(line), 0 \in conn \/ ClosedAfter(m)
        PROVE  0 \in conn' \/ ClosedAfter(m)'
    <2>1. CASE ClosedAfter(m)
      BY <1>2, <2>1 DEF ClosedAfter
    <2>2. CASE k = "UUSOCL" /\ h = 0
      <3>1. Len(line) + 1 \in 1 .. Len(line') /\ Len(line) + 1 > m
        BY <1>2, <1>8
      <3> QED
        BY <1>2, <2>2, <3>1 DEF ClosedAfter
    <2> QED
      BY <1>8, <2>1, <2>2
  <1>9. 0 \in conn \/ ClosedAfter(0) => 0 \in conn' \/ ClosedAfter(0)'
    <2>1. PICK m \in Int : m = 0
      OBVIOUS
    <2>2. m <= Len(line)
      BY <1>2, <2>1
    <2> QED
      BY <1>8, <2>1, <2>2
  <1>10. OkAfter(0)' <=> OkAfter(0)
    BY Appended
  <1>11. ASSUME lost = 0, at = "soco", ret = "none", NEW m \in 1 .. Len(line'),
                line'[m].kind = "OK"
         PROVE  0 \in conn' \/ ClosedAfter(m)'
    <2>1. m \in 1 .. Len(line) /\ line[m].kind = "OK"
      BY <1>4, <1>11
    <2>2. 0 \in conn \/ ClosedAfter(m)
      BY <1>11, <2>1 DEF PendInv, Connected
    <2>3. m \in Int /\ m <= Len(line)
      BY <1>2, <2>1
    <2> QED
      BY <1>8, <2>2, <2>3
  <1>12. Connected'
    <2>1. lost = 0 /\ sockets[0].connected =>
            \/ 0 \in conn' \/ ClosedAfter(0)'
            \/ at = "socl" /\ (ret = "OK" \/ (ret = "none" /\ OkAfter(0)'))
      BY <1>9, <1>10 DEF PendInv, Connected
    <2>2. lost = 0 /\ at = "soco" /\ ret = "OK" => 0 \in conn' \/ ClosedAfter(0)'
      BY <1>9 DEF PendInv, Connected
    <2>3. /\ sockets' = sockets /\ lost' = lost /\ at' = at /\ ret' = ret
      BY <1>1
    <2> QED
      BY <1>11, <2>1, <2>2, <2>3 DEF Connected
  <1> QED
    BY <1>5, <1>6, <1>7, <1>12

(* Data comes: its announcement is the last, and counts all of it.         *)
LEMMA DataPend ==
  ASSUME PendInv, NEW h \in Handles, NEW n \in 1 .. MaxBuffered, DataArrives(h, n)
  PROVE  PendInv'
  <1>1. /\ h \in open /\ held' = [held EXCEPT ![h] = held[h] + n]
        /\ line' = Append(line, Urc("NSONMI", h, held'[h]))
        /\ UNCHANGED <<sockets, op, arg, wait, expired, result, inbox, dataMode, lost>>
        /\ UNCHANGED <<open, conn, given>>
    BY DEF DataArrives
  <1>2. held[h] \in Nat /\ n \in Nat /\ held \in [Handles -> 0 .. MaxBuffered]
    BY SocketsAssumption DEF PendInv, IndInv, ModemTypes
  <1>3. held'[h] = held[h] + n /\ \A g \in Handles : g # h => held'[g] = held[g]
    BY <1>1, <1>2
  <1>4. IndInv'
    BY DataInv DEF PendInv
  <1>5. PICK k \in {"NSONMI", "UUSOCL"}, v \in Nat : k = "NSONMI" /\ v = held'[h]
    BY <1>2, <1>3
  <1>6. line' = Append(line, Urc(k, h, v))
    BY <1>1, <1>5
  <1> PICK m \in Nat : m = Len(line) + 1
    BY Counted DEF PendInv
  <1>7. /\ Len(line) \in Nat /\ m = Len(line) + 1 /\ Len(line') = m
        /\ \A i \in 1 .. Len(line) : /\ i \in 1 .. Len(line') /\ line'[i] = line[i]
                                     /\ News(i)' <=> News(i)
                                     /\ Value(i)' = Value(i)
                                     /\ Behind(i)' <=> Behind(i)
        /\ line'[m].kind = "NSONMI" /\ line'[m].handle = h
        /\ Value(m)' = held'[h] /\ ~Behind(m)'
        /\ Seen' = Seen /\ (Restarted' <=> Restarted)
    BY <1>1, <1>5, <1>6, Appended
  <1>8. \A i \in 1 .. Len(line') : i \in 1 .. Len(line) \/ i = m
    BY <1>7
  <1>9. Room' /\ Parts' /\ Data' /\ Connected' /\ Returned'
    BY <1>1, <1>6, AppendedRest
  <1>10. sockets' = sockets /\ lost' = lost /\ open' = open /\ given' = given /\ cut' = cut
    BY <1>1 DEF wait
  <1>11. CASE h # 0
    <2>1. held'[0] = held[0]
      BY <1>3, <1>11, ZeroIsSlot
    <2>2. \A i \in 1 .. Len(line') : News(i)' => i \in 1 .. Len(line) /\ News(i)
      BY <1>7, <1>8, <1>11 DEF News
    <2>3. Chain'
      BY <1>7, <1>10, <2>1, <2>2 DEF PendInv, Chain
    <2>4. LastSays => LastSays'
      BY <1>7, <2>1, <2>2 DEF LastSays
    <2>5. SlotSays => SlotSays'
      BY <1>7, <1>10, <2>1, <2>2 DEF SlotSays
    <2>6. Exact'
      BY <1>7, <1>10, <2>4, <2>5 DEF PendInv, Exact
    <2> QED
      BY <1>4, <1>9, <2>3, <2>6 DEF PendInv
  <1>12. CASE h = 0
    <2>1. held'[0] = held[0] + n /\ 0 \in open /\ held[0] \in Nat /\ held[0] <= held'[0]
      BY <1>1, <1>2, <1>3, <1>12
    <2>2. CASE lost # 0
      BY <1>4, <1>10, <2>2, NothingSaid
    <2>3. CASE lost = 0
      <3>1. /\ Seen >= 0
            /\ \A i \in 1 .. Len(line) : News(i) /\ ~Restarted => Seen <= Value(i)
            /\ \A i, j \in 1 .. Len(line) :
                 News(i) /\ News(j) /\ i < j /\ (Behind(i) <=> Behind(j)) => Value(i) <= Value(j)
            /\ \A i \in 1 .. Len(line) : News(i) /\ ~Behind(i) => Value(i) <= held[0]
            /\ ~Restarted => Seen <= held[0]
        BY <2>1, <2>3 DEF PendInv, Chain
      <3>2. Seen \in Int /\ \A i \in 1 .. Len(line) : Value(i) \in Int
        BY Differ DEF PendInv
      <3>3. ASSUME NEW i \in 1 .. Len(line), News(i), ~Behind(i)
            PROVE  Value(i) <= held'[0]
        <4>1. Value(i) \in Int /\ Value(i) <= held[0]
          BY <3>1, <3>2, <3>3
        <4> QED
          BY <1>2, <2>1, <4>1
      <3>4. ~Restarted => Seen <= held'[0]
        BY <1>2, <2>1, <3>1, <3>2
      <3>5. \A i \in 1 .. Len(line') : (News(i) /\ ~Restarted => Seen <= Value(i))'
        BY <1>7, <1>8, <1>12, <3>1, <3>4
      <3>6. ASSUME NEW i \in 1 .. Len(line'), NEW j \in 1 .. Len(line'),
                   News(i)', News(j)', i < j, (Behind(i) <=> Behind(j))'
            PROVE  Value(i)' <= Value(j)'
        <4>1. i \in 1 .. Len(line)
          BY <1>7, <1>8, <3>6
        <4>2. CASE j \in 1 .. Len(line)
          BY <1>7, <3>1, <3>6, <4>1, <4>2
        <4>3. CASE j = m
          BY <1>7, <1>12, <3>3, <3>6, <4>1, <4>3
        <4> QED
          BY <1>8, <4>2, <4>3
      <3>7. ASSUME NEW i \in 1 .. Len(line'), News(i)', ~Behind(i)'
            PROVE  Value(i)' <= held'[0]
        <4>1. CASE i \in 1 .. Len(line)
          BY <1>7, <3>3, <3>7, <4>1
        <4>2. CASE i = m
          BY <1>7, <1>12, <2>1, <4>2
        <4> QED
          BY <1>8, <4>1, <4>2
      <3>8. Chain'
        BY <1>7, <1>10, <3>1, <3>4, <3>5, <3>6, <3>7 DEF Chain
      <3>9. LastSays'
        <4>1. m \in 1 .. Len(line')
          BY <1>7
        <4>2. \A j \in 1 .. Len(line') : j <= m
          BY <1>7
        <4>3. News(m)'
          BY <1>7, <1>12 DEF News
        <4> QED
          BY <1>7, <1>12, <4>1, <4>2, <4>3 DEF LastSays
      <3> QED
        BY <1>4, <1>9, <3>8, <3>9 DEF PendInv, Exact
    <2> QED
      BY <2>2, <2>3
  <1> QED
    BY <1>11, <1>12

(* The other side closes: the news of it is on its way. *)
LEMMA RemotePend ==
  ASSUME PendInv, NEW h \in Handles, RemoteCloses(h)
  PROVE  PendInv'
  <1>1. /\ conn' = conn \ {h} /\ line' = Append(line, Urc("UUSOCL", h, 0))
        /\ UNCHANGED <<sockets, op, arg, wait, expired, result, inbox, dataMode, lost>>
        /\ UNCHANGED <<open, held, given>>
    BY DEF RemoteCloses
  <1>2. IndInv'
    BY RemoteInv DEF PendInv
  <1>3. PICK k \in {"NSONMI", "UUSOCL"}, v \in Nat : k = "UUSOCL" /\ v = 0
    OBVIOUS
  <1>4. line' = Append(line, Urc(k, h, v))
    BY <1>1, <1>3
  <1>5. /\ Len(line) \in Nat /\ Len(line') = Len(line) + 1
        /\ \A i \in 1 .. Len(line) : /\ i \in 1 .. Len(line')
                                     /\ News(i)' <=> News(i)
                                     /\ Value(i)' = Value(i)
                                     /\ Behind(i)' <=> Behind(i)
        /\ line'[Len(line) + 1].kind = "UUSOCL"
        /\ Seen' = Seen /\ (Restarted' <=> Restarted)
    BY <1>1, <1>3, <1>4, Appended
  <1>6. \A i \in 1 .. Len(line') : i \in 1 .. Len(line) \/ i = Len(line) + 1
    BY <1>5
  <1>7. \A i \in 1 .. Len(line') : News(i)' => i \in 1 .. Len(line) /\ News(i)
    BY <1>5, <1>6 DEF News
  <1>8. 0 \in conn => 0 \in conn' \/ (k = "UUSOCL" /\ h = 0)
    BY <1>1, <1>3
  <1>9. Room' /\ Parts' /\ Data' /\ Connected' /\ Returned'
    BY <1>1, <1>4, <1>8, AppendedRest
  <1>10. /\ sockets' = sockets /\ lost' = lost /\ open' = open /\ given' = given
         /\ held' = held /\ cut' = cut
    BY <1>1 DEF wait
  <1>11. Chain'
    BY <1>5, <1>7, <1>10 DEF PendInv, Chain
  <1>12. LastSays => LastSays'
    BY <1>5, <1>7, <1>10 DEF LastSays
  <1>13. SlotSays => SlotSays'
    BY <1>5, <1>7, <1>10 DEF SlotSays
  <1>14. Exact'
    BY <1>5, <1>10, <1>12, <1>13 DEF PendInv, Exact
  <1> QED
    BY <1>2, <1>9, <1>11, <1>14 DEF PendInv

----------------------------------------------------------------------------
(* The invariant, and what it says. *)

(* Nothing is counted at the start. *)
THEOREM PendInitInv == Prompt /\ Init => PendInv
  <1> SUFFICES ASSUME Prompt, Init PROVE PendInv
    OBVIOUS
  <1>1. IndInv
    BY InitInv
  <1>2. /\ line = << >> /\ Len(line) = 0 /\ at = "none" /\ inbox = << >> /\ open = {}
        /\ result.op = "none"
    BY DEF Init
  <1>3. Settled
    BY <1>2 DEF Settled
  <1>4. sockets[0].pending = 0 /\ sockets[0].connected = FALSE
    BY ZeroIsSlot DEF Init, FreeSlot
  <1>5. SettledChain /\ SettledExact
    BY <1>2, <1>4 DEF SettledChain, SettledExact
  <1>6. Chain /\ Exact
    BY <1>1, <1>3, <1>5, SettledSays
  <1> QED
    BY <1>1, <1>2, <1>4, <1>6
    DEF PendInv, Room, Reading, Parts, Data, Connected, Returned

(* Every step keeps the invariant. *)
THEOREM PendStepInv == PendInv /\ [Next]_vars => PendInv'
  <1> SUFFICES ASSUME PendInv, [Next]_vars PROVE PendInv'
    OBVIOUS
  <1>1. IndInv /\ IndInv'
    BY StepInv DEF PendInv
  <1>2. CASE Driver
    <2>1. ~(SocketSendMore \/ SocketSendDone)
      BY <1>1, SendInv
    <2> QED
      BY <1>2, <2>1, WaitLinePend, TimeoutPend, SocketPend, ConnectPend, ConnectDonePend,
         CloseDonePend, FreePend, SendToPend, RecvCommandPend, RecvDonePend, RecvPollPend
      DEF Driver
  <1>3. CASE Call
    BY <1>3, CallPend
  <1>4. CASE TimerExpires
    BY <1>4, TimerPend
  <1>5. CASE ModemExecutes
    BY <1>5, ExecutesPend
  <1>6. CASE Environment
    <2>1. ~PromptEnds
      BY <1>1 DEF PromptEnds, IndInv, Answers
    <2>2. CASE LineLost
      <3>1. lost' # 0
        BY <1>1, <2>2 DEF LineLost, IndInv, ModemTypes
      <3> QED
        BY <1>1, <3>1, NothingSaid
    <2> QED
      BY <1>6, <2>1, <2>2, DataPend, RemotePend DEF Environment
  <1>7. CASE UNCHANGED vars
    <2>1. /\ UNCHANGED <<sockets, op, arg, at, ret, param, cut, result, line, open, conn, held>>
          /\ UNCHANGED <<given, lost, inbox>>
      BY <1>7 DEF vars, wait, modem
    <2>2. UNCHANGED <<Reading, Owed, Restarted, Seen>> /\ \A i : UNCHANGED <<Off(i), Behind(i), Value(i), News(i), OkAfter(i)>>
      BY <2>1 DEF Restarted, Behind, Seen, Owed, Off, Value, News, Reading, OkAfter
    <2>3. Chain'
      BY <2>1, <2>2 DEF PendInv, Chain
    <2>4. Exact'
      BY <2>1, <2>2 DEF PendInv, Exact, LastSays, SlotSays
    <2>5. Room' /\ Parts' /\ Data'
      BY <2>1, <2>2 DEF PendInv, Room, Parts, Data, Asks
    <2>6. Connected' /\ Returned'
      BY <2>1, <2>2 DEF PendInv, Connected, ClosedAfter, Returned
    <2> QED
      BY <1>1, <2>3, <2>4, <2>5, <2>6 DEF PendInv
  <1> QED
    BY <1>2, <1>3, <1>4, <1>5, <1>6, <1>7 DEF Next

(* Always. *)
THEOREM PendInvariance == Prompt /\ Spec => []PendInv
  BY PendInitInv, PendStepInv, PTL DEF Spec

(* The variables have their types, and pending never goes below zero while *)
(* no line is lost: what is taken off had been announced.                  *)
THEOREM TypeCorrect == Prompt /\ Spec => []TypeOK
  <1>1. PendInv => TypeOK
    <2> SUFFICES ASSUME PendInv PROVE TypeOK
      OBVIOUS
    <2>1. sockets \in [Slots -> [handle : Handles \cup {SOCKET_ERROR}, blocking : BOOLEAN,
                                 connected : BOOLEAN, pending : Int]]
      BY DEF PendInv, IndInv, DriverTypes, Slot, AnyHandle
    <2>2. ASSUME lost = 0, NEW s \in Slots
          PROVE  sockets[s].pending >= 0
      <3>1. CASE s = 0
        <4>1. Seen >= 0 /\ Owed \in Nat /\ sockets[0].pending \in Int
          BY <2>2, Differ, Counted DEF PendInv, Chain
        <4> QED
          BY <3>1, <4>1 DEF Seen
      <3>2. CASE s # 0
        BY <3>2 DEF PendInv, IndInv, SlotZero
      <3> QED
        BY <3>1, <3>2
    <2>3. /\ op \in Calls \cup {"none"} /\ (op = "none" <=> at = "none")
          /\ ret \in Final \cup {"none", "WAIT", "go"}
      BY DEF PendInv, IndInv, DriverTypes, Places, Ops, Final
    <2>4. arg.socket \in Slots \cup {SOCKET_ERROR} /\ arg.len \in Nat /\ arg.blk \in Nat
      BY DEF PendInv, IndInv, DriverTypes, Args
    <2>5. open \subseteq Handles /\ conn \subseteq open /\ held \in [Handles -> 0 .. MaxBuffered]
      BY DEF PendInv, IndInv, ModemTypes
    <2> QED
      BY <2>1, <2>2, <2>3, <2>4, <2>5 DEF TypeOK
  <1> QED
    BY <1>1, PendInvariance, PTL

(* A slot that has a handle is slot 0, and the handle is 0. *)
LEMMA OnlyZero ==
  ASSUME IndInv, NEW s \in Slots
  PROVE  /\ sockets[s].connected => s = 0 /\ sockets[s].handle = 0
         /\ sockets[s].handle \in open => s = 0 /\ sockets[s].handle = 0
  <1>1. open \subseteq Nat
    BY SocketsAssumption DEF IndInv, ModemTypes
  <1>2. sockets[s].handle = SOCKET_ERROR => ~sockets[s].connected /\ sockets[s].handle \notin open
    BY <1>1 DEF IndInv, SlotZero, SOCKET_ERROR
  <1>3. sockets[s].handle # SOCKET_ERROR => s = 0 /\ sockets[s].handle = 0
    BY DEF IndInv, SlotZero
  <1> QED
    BY <1>2, <1>3

(* A slot that says connected is connected in the modem, or the news that  *)
(* it is not is on its way, or the driver is closing it.                   *)
THEOREM NobodyStaysConnected == Prompt /\ Spec => []ConnectedIsConnected
  <1>1. PendInv => ConnectedIsConnected
    <2> SUFFICES ASSUME PendInv, NEW s \in Slots, sockets[s].connected
                 PROVE  \/ sockets[s].handle \in conn \/ Lines("UUSOCL", sockets[s].handle)
                        \/ at = "socl" \/ lost > 0
      BY DEF ConnectedIsConnected
    <2>1. s = 0 /\ sockets[s].handle = 0
      BY OnlyZero DEF PendInv
    <2>2. line \in Seq(Lined) /\ lost \in Nat
      BY DEF PendInv, IndInv, WireTypes, ModemTypes
    <2>3. ClosedAfter(0) => Lines("UUSOCL", 0)
      BY <2>2 DEF ClosedAfter, Lines
    <2>4. lost = 0 => 0 \in conn \/ ClosedAfter(0) \/ at = "socl"
      BY <2>1 DEF PendInv, Connected
    <2> QED
      BY <2>1, <2>2, <2>3, <2>4
  <1> QED
    BY <1>1, PendInvariance, PTL

(* Once its announcements have been read and outside a read, pending is no  *)
(* more than the modem holds, and just that unless a block of socketRecv    *)
(* was what set it last: nothing that is handled between a read and its     *)
(* answer is counted twice.                                                *)
THEOREM CountsAgree == Prompt /\ Spec => []PendingIsHeld
  <1>1. PendInv => PendingIsHeld
    <2> SUFFICES ASSUME PendInv, NEW s \in Slots, sockets[s].handle \in open,
                        sockets[s].handle = given[Len(given)],
                        at \notin {"socr", "sord", "sorf"},
                        ~Lines("NSONMI", sockets[s].handle), lost = 0
                 PROVE  /\ sockets[s].pending <= held[sockets[s].handle]
                        /\ s \notin cut => sockets[s].pending = held[sockets[s].handle]
      BY DEF PendingIsHeld
    <2>1. s = 0 /\ sockets[s].handle = 0
      BY OnlyZero DEF PendInv
    <2>2. line \in Seq(Lined)
      BY DEF PendInv, IndInv, WireTypes
    <2>3. ~Restarted /\ Owed = 0
      BY DEF Restarted, Behind, Owed, Off, Reading
    <2>4. LastSays \/ SlotSays
      BY <2>1 DEF PendInv, Exact
    <2>5. ~LastSays
      BY <2>1, <2>2 DEF LastSays, News, Lines
    <2>6. Seen = sockets[0].pending
      BY <2>3, Counted DEF PendInv, Seen
    <2>7. Seen <= held[0] /\ (0 \in cut \/ Seen = held[0])
      BY <2>1, <2>3, <2>4, <2>5 DEF PendInv, Chain, SlotSays
    <2> QED
      BY <2>1, <2>6, <2>7
  <1> QED
    BY <1>1, PendInvariance, PTL

(* What socketRecvFrom says it has received it has received, and so has     *)
(* socketRecv every block it counts.                                       *)
THEOREM CountIsReceived == Prompt /\ Spec => []RecvFromCounts
  <1>1. PendInv => RecvFromCounts
    BY DEF PendInv, RecvFromCounts, Returned, Data, Reading
  <1> QED
    BY <1>1, PendInvariance, PTL

----------------------------------------------------------------------------
(* The functions are the socket service: what has become of a request.     *)

Commands == {"socr", "dns", "soco", "socl", "sost", "sord", "sorf"}
Unasked  == Asked = "none" /\ Part = 0 /\ Fate = "none"

(* The waits that have a command of their own. *)
LEMMA CommandPoints ==
  /\ DOMAIN CommandAt = Commands
  /\ CommandAt["socr"] = "NSOCR" /\ CommandAt["dns"] = "UDNSRN"
  /\ CommandAt["soco"] = "NSOCO" /\ CommandAt["socl"] = "NSOCL"
  /\ CommandAt["sost"] = "NSOST" /\ CommandAt["sord"] = "USORD"
  /\ CommandAt["sorf"] = "NSORF"
  BY DEF CommandAt, Commands

(* The requests of each function of the service. *)
LEMMA ServiceRequests ==
  /\ DOMAIN Service!Requests = Ops \ {"none"}
  /\ Service!Requests["socket"] = {"NSOCR"}
  /\ Service!Requests["connect"] = {"UDNSRN", "NSOCO"}
  /\ Service!Requests["close"] = {"NSOCL"} /\ Service!Requests["free"] = {"NSOCL"}
  /\ Service!Requests["sendTo"] = {"NSOST"}
  /\ Service!Requests["recv"] = {"USORD"} /\ Service!Requests["recvFrom"] = {"NSORF"}
  BY DEF Service!Requests, Ops

(* Elsewhere nothing is asked. *)
LEMMA Nowhere ==
  ASSUME at \notin Commands
  PROVE  Unasked
  BY CommandPoints DEF Unasked, Asked, Part, Fate, Commands

(* A command that has been sent is asked. *)
LEMMA Sent ==
  ASSUME at \in Commands, inbox # << >>
  PROVE  Asked = CommandAt[at] /\ Fate = "asked"
  BY CommandPoints DEF Asked, Fate

(* When the wait is over, what it has returned is what became of it.       *)
LEMMA Ended ==
  ASSUME IndInv, at \in Commands, ret # "none"
  PROVE  /\ Asked = CommandAt[at] /\ inbox = << >>
         /\ Fate = IF ret \in {"OK", "ERROR"} THEN ret ELSE "unknown"
  <1>1. ~Asking
    BY NotAsking
  <1>2. inbox = << >> /\ \A i \in 1 .. Len(line) : line[i].kind \notin Final
    BY <1>1, Quiet DEF IndInv
  <1>3. DOMAIN line = 1 .. Len(line)
    BY DEF IndInv, WireTypes
  <1>4. ~Coming("OK") /\ ~Coming("ERROR")
    BY <1>2, <1>3 DEF Coming, Final
  <1> QED
    BY <1>2, <1>4, CommandPoints DEF Asked, Fate

(* While it lasts, the final line on its way is. *)
LEMMA Lasting ==
  ASSUME IndInv, at \in Commands, ret = "none", inbox = << >>
  PROVE  /\ Asked = CommandAt[at]
         /\ Fate = IF \E i \in 1 .. Len(line) : line[i].kind = "OK" THEN "OK"
                   ELSE IF \E i \in 1 .. Len(line) : line[i].kind = "ERROR" THEN "ERROR"
                   ELSE "unknown"
  <1>1. DOMAIN line = 1 .. Len(line)
    BY DEF IndInv, WireTypes
  <1> QED
    BY <1>1, CommandPoints DEF Asked, Fate, Coming

(* Nothing of it shows. *)
LEMMA Unseen ==
  ASSUME UNCHANGED <<op, arg, result, lost, open, conn, held>>,
         sockets'[0].handle = sockets[0].handle, UNCHANGED <<Asked, Part, Fate, Moved>>
  PROVE  UNCHANGED Service!vars
  BY DEF Service!vars, Service!asking, Service!modem, Reported

----------------------------------------------------------------------------
(* The calls begin. *)

(* Without a request. *)
LEMMA BeginsIdle ==
  ASSUME IndInv, NEW f \in Ops \ {"none"}, NEW a \in Args, Start(f, a), a.cnt = 0,
         at' \notin Commands \cup {"sost2"}, UNCHANGED <<sockets, result, modem, lost>>
  PROVE  Service!Next
  <1>1. op = "none" /\ op' = f /\ arg' = a
    BY DEF Start
  <1>2. Asked' = "none" /\ Part' = 0 /\ Fate' = "none"
    <2>1. (at \notin Commands => Unasked)'
      BY Nowhere, PTL
    <2> QED
      BY <2>1 DEF Unasked
  <1>3. Moved' = 0
    BY <1>1 DEF Moved
  <1>4. sockets'[0].handle = sockets[0].handle /\ UNCHANGED <<Reported, lost, open, conn, held>>
    BY DEF modem, Reported
  <1>5. a.socket \in Slots \cup {Service!NoSlot}
    BY DEF Args, SOCKET_ERROR, Service!NoSlot
  <1>6. op' \in DOMAIN Service!Requests /\ arg'.socket \in Slots \cup {Service!NoSlot}
    BY <1>1, <1>5, ServiceRequests
  <1>7. Service!Begin
    BY <1>1, <1>2, <1>3, <1>4, <1>6 DEF Service!Begin, Service!AsksNothing, Service!modem
  <1> QED
    BY <1>7 DEF Service!Next

(* With one that reads nothing. *)
LEMMA BeginsAsking ==
  ASSUME IndInv, NEW f \in Ops \ {"none"}, NEW a \in Args, Start(f, a), a.cnt = 0,
         at' \in {"socr", "dns", "socl", "sost"}, inbox' # << >>,
         CommandAt[at'] \in Service!Requests[f],
         at' = "socl" => sockets[0].handle = 0 /\ a.socket = 0,
         UNCHANGED <<sockets, result, modem, lost>>
  PROVE  Service!Next
  <1>1. op = "none" /\ op' = f /\ arg' = a
    BY DEF Start
  <1>2. Asked' = CommandAt[at'] /\ Fate' = "asked"
    <2>1. (at \in Commands /\ inbox # << >> => Asked = CommandAt[at] /\ Fate = "asked")'
      BY Sent, PTL
    <2> QED
      BY <2>1 DEF Commands, CommandAt
  <1>3. Moved' = 0 /\ Part' = IF at' = "sost" THEN 1 ELSE 0
    BY <1>1 DEF Moved, Part
  <1>4. sockets'[0].handle = sockets[0].handle /\ UNCHANGED <<Reported, lost, open, conn, held>>
    BY DEF modem, Reported
  <1>5. a.socket \in Slots \cup {Service!NoSlot}
    BY DEF Args, SOCKET_ERROR, Service!NoSlot
  <1>6. PICK k \in Service!Requests[f] : k = CommandAt[at']
    OBVIOUS
  <1>7. /\ k \in {"NSOCR", "UDNSRN", "NSOCL", "NSOST"}
        /\ k = "NSOCL" <=> at' = "socl"
        /\ k = "NSOST" <=> at' = "sost"
    BY <1>6, CommandPoints
  <1>8. Service!Amount(k, Part')
    BY <1>3, <1>7 DEF Service!Amount, Service!Reads
  <1>9. Service!Asks(f, a.socket, k)
    BY <1>2, <1>6, <1>7, <1>8 DEF Service!Asks, Service!OnSocket, Service!Reads
  <1>10. op' \in DOMAIN Service!Requests /\ arg'.socket \in Slots \cup {Service!NoSlot}
    BY <1>1, <1>5, ServiceRequests
  <1>11. \E c \in Service!Requests[op'] : Service!Asks(op', arg'.socket, c)
    BY <1>1, <1>9
  <1>12. Service!Begin
    BY <1>1, <1>3, <1>4, <1>10, <1>11 DEF Service!Begin, Service!modem
  <1> QED
    BY <1>12 DEF Service!Next

(* A command that goes out is on the wire. *)
LEMMA GoesOut ==
  ASSUME IndInv, ~Asking, NEW k, NEW h, NEW n, NEW point, Command(k, h, n, point)
  PROVE  at' = point /\ inbox' # << >> /\ ret' = "none"
  <1> DEFINE c == [kind |-> k, handle |-> h, n |-> n, fresh |-> TRUE]
  <1>1. inbox = << >>
    BY Quiet DEF IndInv
  <1>2. inbox' = Append(<< >>, c) /\ at' = point /\ ret' = "none"
    BY <1>1, OldNone DEF Command
  <1> HIDE DEF c
  <1> QED
    BY <1>2

(* The calls of the program are calls of the service; setting a socket to  *)
(* blocking is none of its business.                                       *)
LEMMA CallServes ==
  ASSUME IndInv, Call
  PROVE  Service!Next \/ UNCHANGED Service!vars
  <1>1. op = "none" => ~Asking
    BY Between
  <1>2. NoArg.cnt = 0
    BY DEF NoArg
  <1>3. CASE SocketSocket
    <2>1. Start("socket", NoArg) /\ Command("NSOCR", SOCKET_ERROR, 0, "socr")
          /\ UNCHANGED <<sockets, result, modem, lost>>
      BY <1>3 DEF SocketSocket
    <2>2. PICK f \in Ops \ {"none"} : f = "socket"
      BY DEF Ops
    <2>3. at' = "socr" /\ inbox' # << >>
      BY <1>1, <2>1, GoesOut DEF Start
    <2>4. CommandAt[at'] \in Service!Requests[f]
      BY <2>2, <2>3, CommandPoints, ServiceRequests
    <2> QED
      BY <1>2, <2>1, <2>2, <2>3, <2>4, Argument, BeginsAsking
  <1>4. ASSUME NEW s \in Slots, NEW name \in BOOLEAN, SocketConnect(s, name)
        PROVE  Service!Next
    <2> DEFINE a == [NoArg EXCEPT !.socket = s]
    <2>1. Start("connect", a) /\ UNCHANGED <<sockets, result, modem, lost>>
      BY <1>4 DEF SocketConnect
    <2>2. a \in Args /\ a.cnt = 0
      BY Argument
    <2>3. PICK f \in Ops \ {"none"} : f = "connect"
      BY DEF Ops
    <2>4. Start(f, a)
      BY <2>1, <2>3
    <2>5. Command("UDNSRN", SOCKET_ERROR, 0, "dns") \/ Goto("resolved")
      BY <1>4 DEF SocketConnect
    <2> HIDE DEF a
    <2>6. CASE Command("UDNSRN", SOCKET_ERROR, 0, "dns")
      <3>1. at' = "dns" /\ inbox' # << >>
        BY <1>1, <2>1, <2>6, GoesOut DEF Start
      <3>2. CommandAt[at'] \in Service!Requests[f]
        BY <2>3, <3>1, CommandPoints, ServiceRequests
      <3> QED
        BY <2>1, <2>2, <2>3, <2>4, <3>1, <3>2, BeginsAsking
    <2>7. CASE Goto("resolved")
      <3>1. at' \notin Commands \cup {"sost2"}
        BY <2>7 DEF Goto, Commands
      <3> QED
        BY <2>1, <2>2, <2>3, <2>4, <3>1, BeginsIdle
    <2> QED
      BY <2>5, <2>6, <2>7
  <1>5. ASSUME NEW s \in Slots, NEW b \in BOOLEAN, SocketSetBlocking(s, b)
        PROVE  UNCHANGED Service!vars
    <2>1. /\ sockets' = [sockets EXCEPT ![s].blocking = b]
          /\ UNCHANGED <<op, arg, at, ret, result, inbox, line, modem, lost>>
      BY <1>5 DEF SocketSetBlocking, wait
    <2>2. sockets'[0].handle = sockets[0].handle
      BY <2>1, ZeroIsSlot DEF IndInv, DriverTypes, Slot
    <2>3. UNCHANGED <<Asked, Part, Fate, Moved>>
      BY <2>1 DEF Asked, Part, Fate, Moved, Coming
    <2> QED
      BY <2>1, <2>2, <2>3, Unseen DEF modem
  <1>6. ASSUME NEW f \in {"close", "free"}, NEW s \in Slots, SocketClose(f, s)
        PROVE  Service!Next
    <2> DEFINE a == [NoArg EXCEPT !.socket = s]
    <2>1. Start(f, a) /\ UNCHANGED <<sockets, result, modem, lost>>
      BY <1>6 DEF SocketClose
    <2>2. a \in Args /\ a.cnt = 0 /\ a.socket = s /\ f \in Ops \ {"none"}
      BY Argument DEF Ops
    <2>3. \/ IsSocket(s) /\ Command("NSOCL", sockets[s].handle, 0, "socl")
          \/ Goto("closed")
      BY <1>6 DEF SocketClose
    <2> HIDE DEF a
    <2>4. CASE IsSocket(s) /\ Command("NSOCL", sockets[s].handle, 0, "socl")
      <3>1. at' = "socl" /\ inbox' # << >>
        BY <1>1, <2>1, <2>4, GoesOut DEF Start
      <3>2. CommandAt[at'] \in Service!Requests[f]
        BY <3>1, CommandPoints, ServiceRequests
      <3>3. s = 0 /\ sockets[0].handle = 0
        BY <2>4, HasHandle DEF IsSocket
      <3> QED
        BY <2>1, <2>2, <3>1, <3>2, <3>3, BeginsAsking
    <2>5. CASE Goto("closed")
      <3>1. at' \notin Commands \cup {"sost2"}
        BY <2>5 DEF Goto, Commands
      <3> QED
        BY <2>1, <2>2, <3>1, BeginsIdle
    <2> QED
      BY <2>3, <2>4, <2>5
  <1>7. ASSUME NEW s \in Slots, NEW n \in 1 .. MaxLen, SocketSendTo(s, n)
        PROVE  Service!Next
    <2> DEFINE a == [NoArg EXCEPT !.socket = s, !.len = n]
    <2>1. Start("sendTo", a) /\ Command("NSOST", 0, 1, "sost")
          /\ UNCHANGED <<sockets, result, modem, lost>>
      BY <1>7 DEF SocketSendTo
    <2>2. PICK f \in Ops \ {"none"} : f = "sendTo"
      BY DEF Ops
    <2>3. a \in Args /\ a.cnt = 0
      BY Argument
    <2>4. at' = "sost" /\ inbox' # << >>
      BY <1>1, <2>1, GoesOut DEF Start
    <2>5. CommandAt[at'] \in Service!Requests[f]
      BY <2>2, <2>4, CommandPoints, ServiceRequests
    <2>6. Start(f, a)
      BY <2>1, <2>2
    <2> HIDE DEF a
    <2> QED
      BY <2>1, <2>2, <2>3, <2>4, <2>5, <2>6, BeginsAsking
  <1>8. ASSUME NEW s \in Slots, SocketReadable(s)
        PROVE  Service!Next
    <2> DEFINE a == [NoArg EXCEPT !.socket = s]
    <2>1. /\ Start("readable", a) /\ at' \in {"readable", "unreadable"}
          /\ UNCHANGED <<sockets, result, modem, lost>>
      BY <1>8 DEF SocketReadable, Poll, Goto
    <2>2. PICK f \in Ops \ {"none"} : f = "readable"
      BY DEF Ops
    <2>3. a \in Args /\ a.cnt = 0
      BY Argument
    <2>4. Start(f, a) /\ at' \notin Commands \cup {"sost2"}
      BY <2>1, <2>2 DEF Commands
    <2> HIDE DEF a
    <2> QED
      BY <2>1, <2>2, <2>3, <2>4, BeginsIdle
  <1>9. ASSUME NEW f \in {"recv", "recvFrom"}, NEW s \in Slots, NEW n \in 1 .. MaxLen,
               Recv(f, s, n)
        PROVE  Service!Next
    <2> DEFINE a == [NoArg EXCEPT !.socket = s, !.len = n]
    <2>1. Start(f, a) /\ at' = "loop" /\ UNCHANGED <<sockets, result, modem, lost>>
      BY <1>9 DEF Recv, Goto
    <2>2. a \in Args /\ a.cnt = 0 /\ f \in Ops \ {"none"} /\ at' \notin Commands \cup {"sost2"}
      BY <2>1, Argument DEF Ops, Commands
    <2> HIDE DEF a
    <2> QED
      BY <2>1, <2>2, BeginsIdle
  <1>10. ASSUME NEW s, NEW n, SocketSend(s, n)
         PROVE  FALSE
    BY <1>10 DEF SocketSend, Start, IndInv, Prompt
  <1> QED
    BY <1>3, <1>4, <1>5, <1>6, <1>7, <1>8, <1>9, <1>10 DEF Call

----------------------------------------------------------------------------
(* The calls go on. *)

(* The next request. *)
LEMMA AsksNext ==
  ASSUME IndInv, ~Asking, at # "none", inbox' # << >>, at' \in {"soco", "sost", "sord", "sorf"},
         CommandAt[at'] \in Service!Requests[op], Service!Amount(CommandAt[at'], Part'),
         at' # "sost" => sockets[0].handle = 0 /\ arg.socket = 0,
         Unasked \/ (at = "dns" /\ ret = "OK" /\ at' = "soco"),
         Moved' = Moved, arg'.socket = arg.socket, UNCHANGED <<sockets, op, result, modem, lost>>
  PROVE  Service!Next
  <1>1. op \in Ops \ {"none"}
    BY DEF IndInv, Places, DriverTypes
  <1>2. Asked' = CommandAt[at'] /\ Fate' = "asked"
    <2>1. (at \in Commands /\ inbox # << >> => Asked = CommandAt[at] /\ Fate = "asked")'
      BY Sent, PTL
    <2> QED
      BY <2>1 DEF Commands, CommandAt
  <1>3. PICK k \in Service!Requests[op] : k = CommandAt[at']
    OBVIOUS
  <1>4. k \in {"NSOCO", "NSOST", "USORD", "NSORF"} /\ (k = "NSOST" <=> at' = "sost")
        /\ (k = "NSOCO" <=> at' = "soco")
    BY <1>3, CommandPoints
  <1>5. Service!Asks(op, arg.socket, k)
    BY <1>2, <1>3, <1>4 DEF Service!Asks, Service!OnSocket, Service!Reads
  <1>6. Fate = "none" \/ (Asked = "UDNSRN" /\ Fate = "OK" /\ k = "NSOCO")
    <2>1. CASE at = "dns" /\ ret = "OK" /\ at' = "soco"
      BY <1>4, <2>1, Ended, CommandPoints DEF Commands
    <2> QED
      BY <2>1 DEF Unasked
  <1>7. sockets'[0].handle = sockets[0].handle /\ UNCHANGED <<Reported, lost, open, conn, held>>
    BY DEF modem, Reported
  <1>8. Asked' = k
    BY <1>2, <1>3
  <1>9. Service!Ask
    BY <1>1, <1>5, <1>6, <1>7, <1>8 DEF Service!Ask, Service!modem
  <1> QED
    BY <1>9 DEF Service!Next

(* socketConnect asks for the connection, socketSendTo for the next        *)
(* datagram, or waits on.                                                  *)
LEMMA ConnectSendServes ==
  ASSUME IndInv, SocketConnectSend
  PROVE  Service!Next
  <1>1. /\ at = "resolved" \/ (at = "dns" /\ ret = "OK")
        /\ IsSocket(arg.socket) /\ Command("NSOCO", sockets[arg.socket].handle, 0, "soco")
        /\ UNCHANGED <<sockets, op, arg, result, modem, lost>>
    BY DEF SocketConnectSend, Resolved
  <1>2. ~Asking /\ op = "connect" /\ at # "none"
    BY <1>1, NotAsking DEF IndInv, Places
  <1>3. at' = "soco" /\ inbox' # << >>
    BY <1>1, <1>2, GoesOut
  <1>4. arg.socket = 0 /\ sockets[0].handle = 0
    BY <1>1, HasHandle DEF IsSocket
  <1>5. Part' = 0 /\ CommandAt[at'] = "NSOCO" /\ Service!Amount(CommandAt[at'], Part')
    BY <1>3, CommandPoints DEF Part, Service!Amount, Service!Reads
  <1>6. at = "resolved" => Unasked
    BY Nowhere DEF Commands
  <1>7. Moved' = Moved
    BY <1>1, <1>3 DEF Moved
  <1>8. CommandAt[at'] \in Service!Requests[op]
    BY <1>2, <1>5, ServiceRequests
  <1> QED
    BY <1>1, <1>2, <1>3, <1>4, <1>5, <1>6, <1>7, <1>8, AsksNext

LEMMA SendToServes ==
  ASSUME IndInv, SocketSendToMore
  PROVE  Service!Next
  <1>1. /\ at \in {"sost", "sost2"} /\ ret # "none"
        /\ UNCHANGED <<sockets, op, result, modem, lost>>
    BY DEF SocketSendToMore
  <1>2. ~Asking /\ op = "sendTo" /\ at # "none" /\ arg \in Args
    BY <1>1, NotAsking DEF IndInv, Places, DriverTypes
  <1>3. CASE at = "sost"
    <2>1. at' = "sost2" /\ arg' = arg
      BY <1>3 DEF SocketSendToMore, WaitMore
    <2>2. Fate \in {"OK", "ERROR", "unknown"} /\ Part = 1 /\ Moved = arg.cnt
      BY <1>1, <1>3, Ended DEF Commands, Part, Moved
    <2>3. Asked' = "none" /\ Part' = 0 /\ Fate' = "none"
      <3>1. (at \notin Commands => Unasked)'
        BY Nowhere, PTL
      <3> QED
        BY <2>1, <3>1 DEF Unasked, Commands
    <2>4. Moved' = Moved + Part
      BY <2>1, <2>2 DEF Moved
    <2>5. sockets'[0].handle = sockets[0].handle /\ UNCHANGED <<Reported, lost, open, conn, held>>
      BY <1>1 DEF modem, Reported
    <2>6. Service!GoOn
      BY <1>1, <1>2, <2>1, <2>2, <2>3, <2>4, <2>5
      DEF Service!GoOn, Service!AsksNothing, Service!modem
    <2> QED
      BY <2>6 DEF Service!Next
  <1>4. CASE at = "sost2"
    <2>1. arg' = [arg EXCEPT !.len = @ - 1, !.cnt = @ + 1] /\ Command("NSOST", 0, 1, "sost")
      BY <1>4 DEF SocketSendToMore
    <2>2. at' = "sost" /\ inbox' # << >>
      BY <1>2, <2>1, GoesOut
    <2>3. Moved' = Moved /\ arg'.socket = arg.socket
      BY <1>2, <1>4, <2>1, <2>2 DEF Moved, Args
    <2>4. Part' = 1 /\ CommandAt[at'] = "NSOST" /\ Service!Amount(CommandAt[at'], Part')
      BY <2>2, CommandPoints DEF Part, Service!Amount, Service!Reads
    <2>5. Unasked /\ CommandAt[at'] \in Service!Requests[op]
      BY <1>2, <1>4, <2>4, Nowhere, ServiceRequests DEF Commands
    <2> QED
      BY <1>1, <1>2, <2>2, <2>3, <2>4, <2>5, AsksNext
  <1> QED
    BY <1>1, <1>3, <1>4

(* What is pending can be had, once nobody waits.                          *)
LEMMA CanBeHad ==
  ASSUME PendInv, ~Asking, ~(at \in {"socr", "sord", "sorf"} /\ ret = "OK"),
         NEW n \in Int, n <= sockets[0].pending
  PROVE  Service!Available(n)
  <1>1. Settled
    BY NothingToCome DEF Settled, Final
  <1>2. lost = 0 /\ 0 \in open => sockets[0].pending <= held[0]
    BY <1>1, SettledSays DEF PendInv, SettledChain
  <1>3. lost \in Nat /\ sockets[0].pending \in Int /\ held[0] \in Nat
    BY Counted DEF PendInv
  <1> QED
    BY <1>2, <1>3 DEF Service!Available

(* The receive functions ask for a block that can be had.                  *)
LEMMA RecvCommandServes ==
  ASSUME PendInv, RecvCommand
  PROVE  Service!Next
  <1>1. IndInv /\ InLoop /\ Block > 0
    BY DEF PendInv, RecvCommand
  <1>2. /\ ~Asking /\ at = "loop" /\ ret = "go" /\ arg \in Args
        /\ op \in {"recv", "recvFrom"}
    BY <1>1, Looping
  <1>3. /\ arg.socket = 0 /\ sockets[0].handle = 0 /\ Block \in Nat
        /\ Block <= sockets[0].pending
    BY <1>1, BlockIs
  <1>4. Service!Available(Block)
    BY <1>2, <1>3, CanBeHad
  <1>5. /\ arg' = [arg EXCEPT !.blk = Block]
        /\ IF op = "recv" THEN Command("USORD", sockets[arg.socket].handle, Block, "sord")
                          ELSE Command("NSORF", 0, Block, "sorf")
        /\ UNCHANGED <<sockets, op, result, modem, lost>>
    BY DEF RecvCommand
  <1> HIDE DEF Block
  <1>6. at' = (IF op = "recv" THEN "sord" ELSE "sorf") /\ inbox' # << >>
    BY <1>1, <1>2, <1>5, GoesOut
  <1>7. arg'.blk = Block /\ arg'.socket = arg.socket /\ Part' = Block /\ Moved' = Moved
    BY <1>2, <1>3, <1>5, <1>6 DEF Args, Part, Moved
  <1>8. CommandAt[at'] = (IF op = "recv" THEN "USORD" ELSE "NSORF")
    BY <1>6, CommandPoints
  <1>9. Service!Amount(CommandAt[at'], Part')
    BY <1>1, <1>3, <1>4, <1>7, <1>8 DEF Service!Amount, Service!Reads
  <1>10. Unasked /\ CommandAt[at'] \in Service!Requests[op]
    BY <1>2, <1>8, Nowhere, ServiceRequests DEF Commands
  <1> QED
    BY <1>1, <1>2, <1>3, <1>5, <1>6, <1>7, <1>9, <1>10, AsksNext

(* Looking for what has come, and the timer, ask nothing. *)
LEMMA PollServes ==
  ASSUME IndInv, RecvPoll \/ RecvPolled \/ TimerExpires
  PROVE  UNCHANGED Service!vars
  <1>1. CASE TimerExpires
    <2>1. /\ UNCHANGED <<sockets, op, arg, result, lost, open, conn, held>>
          /\ UNCHANGED <<at, ret, inbox, line>>
      BY <1>1 DEF TimerExpires, wait, modem
    <2>2. UNCHANGED <<Asked, Part, Fate, Moved>>
      BY <2>1 DEF Asked, Part, Fate, Moved, Coming
    <2> QED
      BY <2>1, <2>2, Unseen
  <1>2. CASE RecvPoll \/ RecvPolled
    <2>1. /\ at \in {"loop", "polled"} /\ at' \in {"loop", "polled"}
          /\ UNCHANGED <<sockets, op, arg, result, modem, lost>>
      BY <1>2 DEF RecvPoll, RecvPolled, InLoop, Poll, Goto, IndInv, Places
    <2>2. Unasked /\ (at' \notin Commands => Unasked')
      <3>1. (at \notin Commands => Unasked)'
        BY Nowhere, PTL
      <3> QED
        BY <2>1, <3>1, Nowhere DEF Commands
    <2>3. Moved' = Moved
      BY <2>1 DEF Moved
    <2> QED
      BY <2>1, <2>2, <2>3, Unseen DEF modem, Unasked, Commands
  <1> QED
    BY <1>1, <1>2

(* A wait that ends without an answer changes nothing: the answer was lost  *)
(* before.                                                                 *)
LEMMA TimeoutServes ==
  ASSUME IndInv, IndInv', WaitTimeout
  PROVE  UNCHANGED Service!vars
  <1>1. /\ at # "none" /\ ret = "none" /\ line = << >> /\ ret' = "WAIT"
        /\ poll \/ inbox = << >>
        /\ UNCHANGED <<sockets, op, arg, at, result, inbox, line, modem, lost>>
    BY DEF WaitTimeout, IndInv, Prompt
  <1>2. Len(line) = 0
    BY <1>1
  <1>3. Fate' = Fate
    <2>1. CASE at \in Commands
      <3>1. inbox = << >>
        BY <1>1, <2>1 DEF IndInv, Places, Commands
      <3>2. Fate = "unknown"
        BY <1>1, <1>2, <2>1, <3>1, Lasting
      <3>3. (/\ IndInv /\ at \in Commands /\ ret # "none"
             => Fate = IF ret \in {"OK", "ERROR"} THEN ret ELSE "unknown")'
        BY Ended, PTL
      <3> QED
        BY <1>1, <2>1, <3>2, <3>3
    <2>2. CASE at \notin Commands
      <3>1. (at \notin Commands => Unasked)'
        BY Nowhere, PTL
      <3> QED
        BY <1>1, <2>2, <3>1, Nowhere DEF Unasked
    <2> QED
      BY <2>1, <2>2
  <1>4. UNCHANGED <<Asked, Part, Moved>>
    BY <1>1 DEF Asked, Part, Moved
  <1> QED
    BY <1>1, <1>3, <1>4, Unseen DEF modem

(* The wait takes a line: the fate that was coming has come.               *)
LEMMA WaitLineServes ==
  ASSUME IndInv, IndInv', WaitLine
  PROVE  UNCHANGED Service!vars
  <1>1. /\ at # "none" /\ ret = "none"
        /\ UNCHANGED <<op, arg, at, poll, result, inbox, modem, lost>>
        /\ 1 \in 1 .. Len(line)
        /\ \A i \in 1 .. Len(line') : i + 1 \in 1 .. Len(line) /\ line'[i] = line[i + 1]
        /\ \A i \in 1 .. Len(line) : i # 1 => i - 1 \in 1 .. Len(line') /\ line'[i - 1] = line[i]
        /\ ret' = IF line[1].kind \in Final THEN line[1].kind ELSE IF poll THEN "WAIT" ELSE "none"
        /\ sockets' = Unsolicited(line[1]) /\ line[1] \in Lined
        /\ line[1].kind \in About => line[1].handle \in Handles
    BY TakesOne
  <1>2. sockets'[0].handle = sockets[0].handle
    BY <1>1, UnsolicitedKeeps
  <1>3. Fate' = Fate
    <2>1. CASE at \notin Commands
      <3>1. (at \notin Commands => Unasked)'
        BY Nowhere, PTL
      <3> QED
        BY <1>1, <2>1, <3>1, Nowhere DEF Unasked
    <2>2. CASE at \in Commands /\ inbox # << >>
      <3>1. (at \in Commands /\ inbox # << >> => Fate = "asked")'
        BY Sent, PTL
      <3> QED
        BY <1>1, <2>2, <3>1, Sent
    <2>3. CASE at \in Commands /\ inbox = << >>
      <3>1. ~poll
        BY <2>3 DEF IndInv, Places, Commands
      <3>2. Fate = IF \E i \in 1 .. Len(line) : line[i].kind = "OK" THEN "OK"
                   ELSE IF \E i \in 1 .. Len(line) : line[i].kind = "ERROR" THEN "ERROR"
                   ELSE "unknown"
        BY <1>1, <2>3, Lasting
      <3>3. (IndInv /\ at \in Commands /\ ret # "none"
             => Fate = IF ret \in {"OK", "ERROR"} THEN ret ELSE "unknown")'
        BY Ended, PTL
      <3>4. (IndInv /\ at \in Commands /\ ret = "none" /\ inbox = << >>
             => Fate = IF \E i \in 1 .. Len(line) : line[i].kind = "OK" THEN "OK"
                       ELSE IF \E i \in 1 .. Len(line) : line[i].kind = "ERROR" THEN "ERROR"
                       ELSE "unknown")'
        BY Lasting, PTL
      <3>5. CASE line[1].kind \in Final
        <4>1. \A i \in 1 .. Len(line) : line[i].kind \in Final => i = 1
          BY <3>5, FinalFirst
        <4>2. line[1].kind \in {"OK", "ERROR"}
          BY <1>1, <3>5 DEF Lined, Replies, Final
        <4>3. Fate = line[1].kind
          BY <1>1, <3>2, <4>1, <4>2 DEF Final
        <4>4. Fate' = line[1].kind
          BY <1>1, <2>3, <3>3, <3>5, <4>2
        <4> QED
          BY <4>3, <4>4
      <3>6. CASE line[1].kind \notin Final
        <4>1. ret' = "none"
          BY <1>1, <3>1, <3>6
        <4>2. ASSUME NEW k \in {"OK", "ERROR"}
              PROVE  (\E i \in 1 .. Len(line) : line[i].kind = k)
                       <=> \E i \in 1 .. Len(line') : line'[i].kind = k
          BY <1>1, <3>6 DEF Final
        <4>3. Fate' = IF \E i \in 1 .. Len(line') : line'[i].kind = "OK" THEN "OK"
                      ELSE IF \E i \in 1 .. Len(line') : line'[i].kind = "ERROR" THEN "ERROR"
                      ELSE "unknown"
          BY <1>1, <2>3, <3>4, <4>1
        <4> QED
          BY <3>2, <4>2, <4>3
      <3> QED
        BY <3>5, <3>6
    <2> QED
      BY <2>1, <2>2, <2>3
  <1>4. UNCHANGED <<Asked, Part, Moved>>
    BY <1>1 DEF Asked, Part, Moved
  <1> QED
    BY <1>1, <1>2, <1>3, <1>4, Unseen DEF modem

----------------------------------------------------------------------------
(* The calls return. *)

(* A call returns one of its outcomes. *)
LEMMA Returns ==
  ASSUME IndInv, ~Asking, at # "none", NEW v \in Int, Return(v), Service!Outcome(v),
         UNCHANGED <<modem, lost>>,
         op = "socket" /\ Fate = "OK" => sockets'[0].handle = 0,
         op = "free" /\ arg.socket = 0 => sockets'[0].handle = SOCKET_ERROR,
         ~(op = "socket" /\ Fate = "OK") /\ ~(op = "free" /\ arg.socket = 0)
           => sockets'[0].handle = sockets[0].handle
  PROVE  Service!Next
  <1>1. op # "none"
    BY DEF IndInv, Places
  <1>2. Fate # "asked"
    <2>1. CASE at \in Commands
      <3>1. ret # "none"
        BY <2>1 DEF IndInv, Places, Asking, Commands
      <3> QED
        BY <2>1, <3>1, Ended
    <2> QED
      BY <2>1, Nowhere DEF Unasked
  <1>3. /\ op' = "none" /\ at' = "none" /\ arg' = NoArg
        /\ result'.op = op /\ result'.value = v
    BY DEF Return
  <1>4. Asked' = "none" /\ Part' = 0 /\ Fate' = "none"
    <2>1. (at \notin Commands => Unasked)'
      BY Nowhere, PTL
    <2> QED
      BY <1>3, <2>1 DEF Unasked, Commands
  <1>5. Moved' = 0 /\ arg'.socket = Service!NoSlot
    BY <1>3 DEF Moved, NoArg, SOCKET_ERROR, Service!NoSlot
  <1>6. Reported' = [op |-> op, value |-> v] /\ Reported'.value = v
    BY <1>3 DEF Reported
  <1>7. UNCHANGED <<lost, open, conn, held>>
    BY DEF modem
  <1>8. sockets'[0].handle = CASE op = "socket" /\ Fate = "OK" -> 0
                               [] op = "free" /\ arg.socket = 0 -> Service!NoHandle
                               [] OTHER -> sockets[0].handle
    BY DEF Service!NoHandle, SOCKET_ERROR
  <1>9. Service!Return
    BY <1>1, <1>2, <1>3, <1>4, <1>5, <1>6, <1>7, <1>8
    DEF Service!Return, Service!AsksNothing, Service!modem
  <1> QED
    BY <1>9 DEF Service!Next

(* socketSocket. *)
LEMMA SocketServes ==
  ASSUME IndInv, SocketSocketDone
  PROVE  Service!Next
  <1>1. /\ at = "socr" /\ ret # "none" /\ op = "socket" /\ UNCHANGED <<modem, lost>>
    BY DEF SocketSocketDone, IndInv, Places
  <1>2. ~Asking
    BY <1>1, NotAsking
  <1>3. Fate = IF ret \in {"OK", "ERROR"} THEN ret ELSE "unknown"
    BY <1>1, Ended DEF Commands
  <1>4. PICK v \in Int : v = IF ret = "OK" THEN 0 ELSE -1
    <2>1. (IF ret = "OK" THEN 0 ELSE -1) \in Int
      OBVIOUS
    <2> QED
      BY <2>1
  <1>5. Service!Outcome(v)
    BY <1>1, <1>3, <1>4 DEF Service!Outcome
  <1>6. CASE ret = "OK"
    <2>1. handle = 0
      BY <1>1, <1>6 DEF IndInv, Locals
    <2>2. /\ sockets' = [sockets EXCEPT ![0] = [FreeSlot EXCEPT !.handle = handle]]
          /\ Return(v)
      BY <1>4, <1>6, <2>1 DEF SocketSocketDone, SOCKET_ERROR
    <2>3. sockets'[0].handle = 0
      BY <2>1, <2>2, ZeroIsSlot DEF IndInv, DriverTypes, FreeSlot
    <2> QED
      BY <1>1, <1>2, <1>3, <1>5, <1>6, <2>2, <2>3, Returns
  <1>7. CASE ret # "OK"
    <2>1. sockets' = sockets /\ Return(v)
      BY <1>4, <1>7 DEF SocketSocketDone, SOCKET_ERROR
    <2> QED
      BY <1>1, <1>2, <1>3, <1>5, <1>7, <2>1, Returns
  <1> QED
    BY <1>6, <1>7

(* socketConnect. *)
LEMMA ConnectServes ==
  ASSUME IndInv, SocketConnectRefused \/ SocketConnectDone
  PROVE  Service!Next
  <1>1. CASE SocketConnectRefused
    <2>1. at = "resolved" \/ (at = "dns" /\ ret # "none")
      BY <1>1 DEF SocketConnectRefused, Resolved
    <2>2. ~Asking /\ op = "connect" /\ at # "none"
      BY <2>1, NotAsking DEF IndInv, Places
    <2>3. PICK v \in Int : v = 0
      OBVIOUS
    <2>4. Return(v) /\ UNCHANGED <<sockets, modem, lost>>
      BY <1>1, <2>3 DEF SocketConnectRefused
    <2>5. Asked # "NSOCO"
      BY <2>1, Nowhere, Ended, CommandPoints DEF Unasked, Commands
    <2>6. Service!Outcome(v)
      BY <2>2, <2>3, <2>5 DEF Service!Outcome
    <2> QED
      BY <2>2, <2>4, <2>6, Returns
  <1>2. CASE SocketConnectDone
    <2>1. at = "soco" /\ ret # "none" /\ UNCHANGED <<modem, lost>>
      BY <1>2 DEF SocketConnectDone
    <2>2. ~Asking /\ op = "connect" /\ arg.socket = 0 /\ sockets[0].handle = 0
      BY <2>1, NotAsking DEF IndInv, Places, Locals, OnZero
    <2>3. Asked = "NSOCO" /\ Fate = IF ret \in {"OK", "ERROR"} THEN ret ELSE "unknown"
      BY <2>1, Ended, CommandPoints DEF Commands
    <2>4. PICK v \in Int : v = IF ret = "OK" THEN 1 ELSE 0
      <3>1. (IF ret = "OK" THEN 1 ELSE 0) \in Int
        OBVIOUS
      <3> QED
        BY <3>1
    <2>5. Return(v) /\ Service!Outcome(v)
      BY <1>2, <2>2, <2>3, <2>4 DEF SocketConnectDone, Service!Outcome
    <2>6. sockets'[0].handle = sockets[0].handle
      <3>1. CASE ret = "OK"
        <4>1. sockets' = [sockets EXCEPT ![0].connected = TRUE]
          BY <1>2, <2>2, <3>1 DEF SocketConnectDone
        <4> QED
          BY <2>2, <4>1, SetConnected
      <3>2. CASE ret # "OK"
        BY <1>2, <3>2 DEF SocketConnectDone
      <3> QED
        BY <3>1, <3>2
    <2> QED
      BY <2>1, <2>2, <2>5, <2>6, Returns
  <1> QED
    BY <1>1, <1>2

(* socketClose and socketFree. *)
LEMMA CloseServes ==
  ASSUME IndInv, SocketCloseDone
  PROVE  Service!Next
  <1>1. /\ op = "close" /\ UNCHANGED <<modem, lost>>
        /\ at = "closed" \/ (at = "socl" /\ ret # "none")
    BY DEF SocketCloseDone
  <1>2. ~Asking /\ at # "none"
    BY <1>1, NotAsking DEF IndInv, Places
  <1>3. Fate = "OK" <=> at = "socl" /\ ret = "OK"
    BY <1>1, Nowhere, Ended DEF Unasked, Commands
  <1>4. PICK v \in Int : v = IF at = "socl" /\ ret = "OK" THEN 1 ELSE 0
    <2>1. (IF at = "socl" /\ ret = "OK" THEN 1 ELSE 0) \in Int
      OBVIOUS
    <2> QED
      BY <2>1
  <1>5. Return(v) /\ Service!Outcome(v)
    BY <1>1, <1>3, <1>4 DEF SocketCloseDone, Service!Outcome
  <1>6. sockets'[0].handle = sockets[0].handle
    <2>1. CASE at = "socl" /\ ret = "OK"
      <3>1. arg.socket = 0 /\ sockets[0].handle = 0
        BY <2>1 DEF IndInv, Locals, OnZero
      <3>2. sockets' = [sockets EXCEPT ![0].connected = FALSE]
        BY <2>1, <3>1 DEF SocketCloseDone
      <3> QED
        BY <3>1, <3>2, SetConnected
    <2>2. CASE ~(at = "socl" /\ ret = "OK")
      BY <2>2 DEF SocketCloseDone
    <2> QED
      BY <2>1, <2>2
  <1> QED
    BY <1>1, <1>2, <1>5, <1>6, Returns

LEMMA FreeServes ==
  ASSUME IndInv, SocketFreeDone
  PROVE  Service!Next
  <1>1. /\ op = "free" /\ UNCHANGED <<modem, lost>>
        /\ at = "closed" \/ (at = "socl" /\ ret # "none")
    BY DEF SocketFreeDone
  <1>2. ~Asking /\ at # "none" /\ arg.socket \in Slots
    BY <1>1, NotAsking DEF IndInv, Places, Locals
  <1>3. PICK v \in Int : v = 1
    OBVIOUS
  <1>4. Return(v) /\ Service!Outcome(v)
    BY <1>1, <1>3 DEF SocketFreeDone, Service!Outcome
  <1>5. CASE ~IsSocket(arg.socket)
    <2>1. sockets' = sockets
      BY <1>5 DEF SocketFreeDone
    <2>2. arg.socket = 0 => sockets[0].handle = SOCKET_ERROR
      BY <1>2, <1>5 DEF IsSocket
    <2> QED
      BY <1>1, <1>2, <1>4, <2>1, <2>2, Returns
  <1>6. CASE IsSocket(arg.socket)
    <2>1. arg.socket = 0
      BY <1>6, HasHandle DEF IsSocket
    <2>2. sockets' = [sockets EXCEPT ![0] = FreeSlot]
      BY <1>6, <2>1 DEF SocketFreeDone
    <2>3. sockets'[0].handle = SOCKET_ERROR
      BY <2>2, ZeroIsSlot DEF IndInv, DriverTypes, FreeSlot
    <2> QED
      BY <1>1, <1>2, <1>4, <2>1, <2>3, Returns
  <1> QED
    BY <1>5, <1>6

(* socketSendTo returns what it has sent, whatever became of it;           *)
(* socketReadable what can be had.                                         *)
LEMMA SentServes ==
  ASSUME IndInv, SocketSendToDone
  PROVE  Service!Next
  <1>1. /\ at = "sost2" /\ ret # "none" /\ UNCHANGED <<sockets, modem, lost>>
        /\ Return(arg.cnt + 1)
    BY DEF SocketSendToDone
  <1>2. ~Asking /\ op = "sendTo" /\ arg.cnt \in Nat
    BY <1>1, NotAsking DEF IndInv, Places, DriverTypes, Args
  <1>3. PICK v \in Int : v = arg.cnt + 1
    BY <1>2
  <1>4. Unasked /\ Moved = v /\ v > 0
    BY <1>1, <1>2, <1>3, Nowhere DEF Commands, Moved
  <1>5. Service!Outcome(v)
    BY <1>2, <1>4 DEF Service!Outcome, Unasked
  <1> QED
    BY <1>1, <1>2, <1>3, <1>5, Returns

LEMMA ReadableServes ==
  ASSUME PendInv, SocketReadableDone
  PROVE  Service!Next
  <1> DEFINE Told == at = "readable" /\ sockets[arg.socket].connected
  <1>1. /\ at \in {"readable", "unreadable"} /\ ret # "none" /\ UNCHANGED <<sockets, modem, lost>>
        /\ Return(IF Told THEN sockets[arg.socket].pending ELSE SOCKET_ERROR)
    BY DEF SocketReadableDone
  <1>2. IndInv /\ ~Asking /\ op = "readable" /\ arg.socket \in Slots
    BY <1>1, NotAsking DEF PendInv, IndInv, Places, Locals
  <1>3. PICK v \in Int : /\ Return(v)
                         /\ v = -1 \/ (sockets[arg.socket].connected /\ v = sockets[arg.socket].pending)
    <2>1. sockets[arg.socket].pending \in Int
      BY <1>2 DEF IndInv, DriverTypes, Slot
    <2>2. CASE Told
      BY <1>1, <2>1, <2>2
    <2>3. CASE ~Told
      BY <1>1, <2>3 DEF SOCKET_ERROR
    <2> QED
      BY <2>2, <2>3
  <1> HIDE DEF Told
  <1>4. CASE v = -1
    <2>1. Service!Outcome(v)
      BY <1>2, <1>4 DEF Service!Outcome
    <2> QED
      BY <1>1, <1>2, <1>3, <2>1, Returns
  <1>5. CASE sockets[arg.socket].connected /\ v = sockets[arg.socket].pending
    <2>1. arg.socket = 0
      BY <1>2, <1>5, HasHandle DEF IndInv, SlotZero
    <2>2. Service!Available(v)
      BY <1>1, <1>2, <1>5, <2>1, CanBeHad
    <2>3. Service!Outcome(v)
      BY <1>2, <2>2 DEF Service!Outcome
    <2> QED
      BY <1>1, <1>2, <1>3, <2>3, Returns
  <1> QED
    BY <1>3, <1>4, <1>5

(* The receive functions, after a block. *)
LEMMA RecvDoneServes ==
  ASSUME IndInv, RecvDone
  PROVE  Service!Next
  <1>1. /\ at \in {"sord", "sorf"} /\ ret # "none" /\ UNCHANGED <<modem, lost>>
        /\ op \in {"recv", "recvFrom"} /\ at # "none"
    BY DEF RecvDone, IndInv, Places
  <1>2. ~Asking /\ arg \in Args
    BY <1>1, NotAsking DEF IndInv, DriverTypes
  <1>3. Fate = IF ret \in {"OK", "ERROR"} THEN ret ELSE "unknown"
    BY <1>1, Ended DEF Commands
  <1>4. Part = arg.blk /\ Moved = arg.cnt /\ arg.cnt \in Nat /\ arg.blk \in Nat
    BY <1>1, <1>2 DEF Part, Moved, Args
  <1>5. arg.socket = 0 /\ sockets[0].handle = 0 /\ sockets[0].pending \in Int
    BY <1>1, ZeroIsSlot DEF IndInv, Locals, OnZero, DriverTypes, Slot
  <1>6. CASE ret # "OK"
    <2>1. Return(SOCKET_ERROR) /\ sockets' = sockets
      BY <1>6 DEF RecvDone
    <2>2. PICK v \in Int : v = -1 /\ Return(v)
      BY <2>1 DEF SOCKET_ERROR
    <2>3. Service!Outcome(v)
      BY <1>1, <1>3, <1>6, <2>2 DEF Service!Outcome
    <2> QED
      BY <1>1, <1>2, <2>1, <2>2, <2>3, Returns
  <1>7. CASE ret = "OK"
    <2>1. sockets'[0].handle = sockets[0].handle
      <3>1. sockets' = [sockets EXCEPT ![0].pending = sockets[0].pending - arg.blk]
        BY <1>5, <1>7, ZeroIsSlot DEF RecvDone, IndInv, DriverTypes
      <3>2. sockets[0].pending - arg.blk \in Int
        BY <1>4, <1>5
      <3> QED
        BY <1>5, <3>1, <3>2, SetPending
    <2>2. \/ /\ op = "recv"
             /\ arg' = [arg EXCEPT !.len = @ - arg.blk, !.cnt = @ + arg.blk]
             /\ at' = "loop" /\ UNCHANGED <<op, result>>
          \/ Return(arg.cnt + arg.blk)
      BY <1>7 DEF RecvDone, Goto
    <2>3. CASE /\ op = "recv"
               /\ arg' = [arg EXCEPT !.len = @ - arg.blk, !.cnt = @ + arg.blk]
               /\ at' = "loop" /\ UNCHANGED <<op, result>>
      <3>1. Moved' = Moved + Part /\ arg'.socket = arg.socket
        BY <1>2, <1>4, <2>3 DEF Args, Moved
      <3>2. Asked' = "none" /\ Part' = 0 /\ Fate' = "none"
        <4>1. (at \notin Commands => Unasked)'
          BY Nowhere, PTL
        <4> QED
          BY <2>3, <4>1 DEF Unasked, Commands
      <3>3. UNCHANGED <<Reported, lost, open, conn, held>>
        BY <1>1, <2>3 DEF modem, Reported
      <3>4. Service!GoOn
        BY <1>3, <1>7, <2>1, <2>3, <3>1, <3>2, <3>3
        DEF Service!GoOn, Service!AsksNothing, Service!modem
      <3> QED
        BY <3>4 DEF Service!Next
    <2>4. CASE Return(arg.cnt + arg.blk)
      <3>1. PICK v \in Int : v = arg.cnt + arg.blk
        BY <1>4
      <3>2. Service!Outcome(v)
        BY <1>1, <1>3, <1>4, <1>7, <3>1 DEF Service!Outcome
      <3> QED
        BY <1>1, <1>2, <2>1, <2>4, <3>1, <3>2, Returns
    <2> QED
      BY <2>2, <2>3, <2>4
  <1> QED
    BY <1>6, <1>7

(* They give up: without a handle, without a connection, out of time.      *)
LEMMA GiveUpServes ==
  ASSUME IndInv, RecvGiveUp
  PROVE  Service!Next
  <1>1. InLoop /\ UNCHANGED <<sockets, modem, lost>>
    BY DEF RecvGiveUp
  <1>2. /\ op \in {"recv", "recvFrom"} /\ at = "loop" /\ ~Asking
        /\ arg.cnt \in Nat /\ (op = "recvFrom" => arg.cnt = 0)
    BY <1>1, Looping
  <1>3. Unasked /\ Moved = arg.cnt
    BY <1>2, Nowhere DEF Commands, Moved
  <1>4. \/ Return(arg.cnt)
        \/ Return(SOCKET_ERROR) /\ op = "recv" /\ ~IsSocket(arg.socket)
    BY <1>2 DEF RecvGiveUp, Receivable
  <1>5. CASE Return(arg.cnt)
    <2>1. PICK v \in Int : v = arg.cnt
      BY <1>2
    <2>2. Service!Outcome(v)
      BY <1>2, <1>3, <2>1 DEF Service!Outcome, Unasked
    <2> QED
      BY <1>1, <1>2, <1>5, <2>1, <2>2, Returns
  <1>6. CASE Return(SOCKET_ERROR) /\ op = "recv" /\ ~IsSocket(arg.socket)
    <2>1. ~(sockets[0].handle = 0 /\ arg.socket = 0)
      BY <1>6, ZeroIsSlot DEF IsSocket, SOCKET_ERROR
    <2>2. PICK v \in Int : v = -1 /\ Return(v)
      BY <1>6 DEF SOCKET_ERROR
    <2>3. Service!Outcome(v)
      BY <1>3, <1>6, <2>1, <2>2 DEF Service!Outcome, Unasked
    <2> QED
      BY <1>1, <1>2, <2>2, <2>3, Returns
  <1> QED
    BY <1>4, <1>5, <1>6

----------------------------------------------------------------------------
(* The modem. *)

(* Its answer is what became of the request. *)
LEMMA AnswerDecides ==
  ASSUME PendInv, ModemExecutes, NEW q, Reply(q), Say(q, inbox[1])
  PROVE  /\ Fate = "asked" /\ Asked = inbox[1].kind
         /\ Fate' = IF Accepted(q) THEN "OK" ELSE "ERROR"
         /\ UNCHANGED <<sockets, op, arg, result, lost, Asked, Part, Moved>>
  <1>1. /\ IndInv /\ inbox # << >>
        /\ UNCHANGED <<sockets, op, arg, at, ret, result, lost>>
    BY Executes DEF PendInv, wait
  <1>2. at \in Commands /\ inbox[1].kind = CommandAt[at]
    BY <1>1, CommandPoints DEF IndInv, Locals
  <1>3. Fate = "asked" /\ Asked = inbox[1].kind
    BY <1>1, <1>2, Sent
  <1>4. AnsweredBy(q) /\ IndInv'
    BY Answered
  <1>5. /\ Len(line') \in Nat /\ Len(line') > 0
        /\ \A j \in 1 .. Len(line') : line'[j].kind = "OK" => Accepted(q)
        /\ line'[Len(line')].kind \in {"OK", "ERROR"}
        /\ Accepted(q) => line'[Len(line')].kind = "OK"
    BY <1>4, AnswerLines
  <1>6. Len(line') \in 1 .. Len(line')
    BY <1>5
  <1>7. inbox' = << >> /\ ret' = "none" /\ at' \in Commands
    BY <1>1, <1>2, <1>4 DEF AnsweredBy
  <1>8. Fate' = IF \E i \in 1 .. Len(line') : line'[i].kind = "OK" THEN "OK"
                ELSE IF \E i \in 1 .. Len(line') : line'[i].kind = "ERROR" THEN "ERROR"
                ELSE "unknown"
    <2>1. (IndInv /\ at \in Commands /\ ret = "none" /\ inbox = << >>
           => Fate = IF \E i \in 1 .. Len(line) : line[i].kind = "OK" THEN "OK"
                     ELSE IF \E i \in 1 .. Len(line) : line[i].kind = "ERROR" THEN "ERROR"
                     ELSE "unknown")'
      BY Lasting, PTL
    <2> QED
      BY <1>4, <1>7, <2>1
  <1>9. Fate' = IF Accepted(q) THEN "OK" ELSE "ERROR"
    BY <1>5, <1>6, <1>8
  <1>10. UNCHANGED <<Asked, Part, Moved>>
    BY <1>1 DEF Asked, Part, Moved
  <1> QED
    BY <1>1, <1>3, <1>9, <1>10

(* A request that is carried out has its effect, one that is refused none.  *)
LEMMA Carried ==
  ASSUME PendInv, ModemExecutes, NEW q, Reply(q), Say(q, inbox[1]),
         Accepted(q) => Service!Effect, ~Accepted(q) => UNCHANGED modem
  PROVE  Service!Next
  <1>1. /\ Fate = "asked" /\ Fate' = IF Accepted(q) THEN "OK" ELSE "ERROR"
        /\ UNCHANGED <<sockets, op, arg, result, lost, Asked, Part, Moved>>
    BY AnswerDecides
  <1>2. UNCHANGED <<op, arg.socket, sockets[0].handle, Reported, lost>>
    BY <1>1 DEF Reported
  <1>3. \/ Fate' = "OK" /\ Service!Effect
        \/ Fate' = "ERROR" /\ UNCHANGED Service!modem
    BY <1>1 DEF modem, Service!modem
  <1>4. Service!Answer
    BY <1>1, <1>2, <1>3 DEF Service!Answer
  <1> QED
    BY <1>4 DEF Service!Next

LEMMA Refused ==
  ASSUME PendInv, ModemExecutes, Say(<<ERROR>>, inbox[1]), UNCHANGED modem
  PROVE  Service!Next
  <1>1. PICK q : q = <<ERROR>>
    OBVIOUS
  <1>2. Reply(q) /\ Say(q, inbox[1]) /\ ~Accepted(q)
    BY <1>1, Replying, Accepts
  <1> QED
    BY <1>2, Carried

LEMMA CarriedOut ==
  ASSUME PendInv, ModemExecutes, Say(<<OK>>, inbox[1]), Service!Effect
  PROVE  Service!Next
  <1>1. PICK q : q = <<OK>>
    OBVIOUS
  <1>2. Reply(q) /\ Say(q, inbox[1]) /\ Accepted(q)
    BY <1>1, Replying, Accepts
  <1> QED
    BY <1>2, Carried

(* The answer has lines of its own before the OK. *)
LEMMA CarriedOutWith ==
  ASSUME PendInv, ModemExecutes, NEW x \in Lined, Extra(x),
         Say(<<x, OK>>, inbox[1]), Service!Effect
  PROVE  Service!Next
  <1>1. PICK q : q = <<x, OK>>
    OBVIOUS
  <1>2. Reply(q) /\ Say(q, inbox[1]) /\ Accepted(q)
    BY <1>1, Replying, Accepts
  <1> QED
    BY <1>2, Carried

(* The request the modem executes is the one the service has been asked    *)
(* for, on the socket it means.                                            *)
LEMMA MeansZero ==
  ASSUME PendInv, ModemExecutes
  PROVE  /\ Asked = inbox[1].kind
         /\ inbox[1].kind \in {"NSOCO", "NSOCL", "NSORF", "USORD"} => inbox[1].handle = 0
         /\ inbox[1].kind \in {"NSORF", "USORD"} => inbox[1].n = Part /\ Part \in Nat
         /\ 0 \in Handles /\ held \in [Handles -> Nat] /\ held[0] \in Nat
  <1>1. IndInv /\ inbox # << >>
    BY Executes DEF PendInv
  <1>2. at \in Commands /\ inbox[1].kind = CommandAt[at]
    BY <1>1, CommandPoints DEF IndInv, Locals
  <1>3. Asked = inbox[1].kind
    BY <1>1, <1>2, Sent
  <1>4. held \in [Handles -> Nat] /\ 0 \in Handles
    BY <1>1, ZeroIsSlot, SocketsAssumption DEF IndInv, ModemTypes
  <1>5. inbox[1].kind \in {"NSORF", "USORD"} => inbox[1].n = Part /\ Part \in Nat
    BY CommandIs DEF Part, Reading
  <1> QED
    BY <1>3, <1>4, <1>5, CommandIs DEF OnZero, Reading

LEMMA ExecutesServes ==
  ASSUME PendInv, ModemExecutes
  PROVE  Service!Next
  <1>1. CASE inbox[1].kind = "NSOCR" /\ Create(inbox[1])
    <2>1. CASE Say(<<ERROR>>, inbox[1]) /\ UNCHANGED modem
      BY <2>1, Refused
    <2>2. CASE ~(Say(<<ERROR>>, inbox[1]) /\ UNCHANGED modem)
      <3> DEFINE h == CHOOSE h \in Handles \ open : \A g \in Handles \ open : h <= g
      <3>1. /\ Handles \ open # {} /\ open' = open \cup {h} /\ held' = [held EXCEPT ![h] = 0]
            /\ Say(<<Answer("HANDLE", h), OK>>, inbox[1]) /\ conn' = conn
        BY <1>1, <2>2 DEF Create
      <3>2. h \in Handles \ open
        BY <3>1, NewHandle
      <3> HIDE DEF h
      <3>3. Service!Effect
        BY <1>1, <3>1, <3>2, MeansZero DEF Service!Effect
      <3>4. Answer("HANDLE", h) \in Lined /\ Extra(Answer("HANDLE", h))
        BY <3>2, SocketsAssumption, Extracts
      <3> QED
        BY <3>1, <3>3, <3>4, CarriedOutWith
    <2> QED
      BY <2>1, <2>2
  <1>2. CASE inbox[1].kind = "NSOCO" /\ Connect(inbox[1])
    <2>1. CASE Say(<<ERROR>>, inbox[1]) /\ UNCHANGED modem
      BY <2>1, Refused
    <2>2. CASE ~(Say(<<ERROR>>, inbox[1]) /\ UNCHANGED modem)
      <3>1. /\ inbox[1].handle \in open /\ conn' = conn \cup {inbox[1].handle}
            /\ Say(<<OK>>, inbox[1]) /\ UNCHANGED <<open, held>>
        BY <1>2, <2>2 DEF Connect
      <3>2. Service!Effect
        BY <1>2, <3>1, MeansZero DEF Service!Effect
      <3> QED
        BY <3>1, <3>2, CarriedOut
    <2> QED
      BY <2>1, <2>2
  <1>3. CASE inbox[1].kind = "NSOCL" /\ Close(inbox[1])
    <2>1. CASE Say(<<ERROR>>, inbox[1]) /\ UNCHANGED modem
      BY <2>1, Refused
    <2>2. CASE ~(Say(<<ERROR>>, inbox[1]) /\ UNCHANGED modem)
      <3>1. inbox[1].handle = 0 /\ Asked = "NSOCL"
        BY <1>3, MeansZero
      <3>2. /\ 0 \in open /\ open' = open \ {0} /\ conn' = conn \ {0}
            /\ held' = [held EXCEPT ![0] = 0] /\ Say(<<OK>>, inbox[1])
        BY <1>3, <2>2, <3>1 DEF Close
      <3>3. Service!Effect
        BY <3>1, <3>2 DEF Service!Effect
      <3> QED
        BY <3>2, <3>3, CarriedOut
    <2> QED
      BY <2>1, <2>2
  <1>4. CASE inbox[1].kind \in {"NSORF", "USORD"} /\ Read(inbox[1])
    <2>1. CASE Say(<<ERROR>>, inbox[1]) /\ UNCHANGED modem
      BY <2>1, Refused
    <2>2. CASE ~(Say(<<ERROR>>, inbox[1]) /\ UNCHANGED modem)
      <3>1. /\ inbox[1].handle = 0 /\ inbox[1].n = Part /\ Part \in Nat
            /\ Asked \in {"NSORF", "USORD"}
            /\ 0 \in Handles /\ held \in [Handles -> Nat] /\ held[0] \in Nat
        BY <1>4, MeansZero
      <3> DEFINE n == Least(Part, held[0])
      <3>2. /\ 0 \in open /\ held' = [held EXCEPT ![0] = held[0] - n]
            /\ Say(IF n > 0 THEN <<DataLine(inbox[1], n), OK>> ELSE <<OK>>, inbox[1])
            /\ UNCHANGED <<open, conn>>
        BY <1>4, <2>2, <3>1 DEF Read
      <3>3. n \in Nat /\ held[0] - n = IF Part < held[0] THEN held[0] - Part ELSE 0
        BY <3>1 DEF Least
      <3> HIDE DEF n
      <3>4. held' = [held EXCEPT ![0] = IF Part < held[0] THEN held[0] - Part ELSE 0]
        BY <3>2, <3>3
      <3>5. Service!Effect
        BY <3>1, <3>2, <3>4 DEF Service!Effect, Service!Reads
      <3>6. DataLine(inbox[1], n) \in Lined /\ Extra(DataLine(inbox[1], n))
        BY <3>1, <3>3, Extracts DEF DataLine
      <3>7. Say(<<DataLine(inbox[1], n), OK>>, inbox[1]) \/ Say(<<OK>>, inbox[1])
        BY <3>2
      <3> QED
        BY <3>5, <3>6, <3>7, CarriedOut, CarriedOutWith
    <2> QED
      BY <2>1, <2>2
  <1>5. CASE inbox[1].kind = "UDNSRN" /\ Resolve(inbox[1])
    <2>1. UNCHANGED modem /\ Service!Effect
      BY <1>5, MeansZero DEF Resolve, Service!Effect, Service!modem, modem
    <2>2. Answer("ADDRESS", 0) \in Lined /\ Extra(Answer("ADDRESS", 0))
      BY Extracts
    <2>3. PICK q \in {<<Answer("ADDRESS", 0), OK>>, <<OK>>, <<ERROR>>} : Say(q, inbox[1])
      BY <1>5 DEF Resolve
    <2>4. q = <<Answer("ADDRESS", 0), OK>> \/ q = <<OK>> \/ q = <<ERROR>>
      BY <2>3
    <2>5. Reply(q)
      BY <2>2, <2>4, Replying
    <2> QED
      BY <2>1, <2>3, <2>5, Carried
  <1>6. CASE inbox[1].kind = "NSOST" /\ Other(inbox[1])
    <2>1. UNCHANGED modem /\ Service!Effect
      BY <1>6, MeansZero DEF Other, Service!Effect, Service!modem, modem
    <2>2. Say(<<OK>>, inbox[1]) \/ Say(<<ERROR>>, inbox[1])
      BY <1>6 DEF Other
    <2> QED
      BY <2>1, <2>2, CarriedOut, Refused
  <1> QED
    BY <1>1, <1>2, <1>3, <1>4, <1>5, <1>6, Executes DEF PendInv

----------------------------------------------------------------------------
(* What comes by itself, and what is lost. *)

(* An announcement is no answer. *)
LEMMA AnnouncedServes ==
  ASSUME IndInv, IndInv', NEW k \in About, NEW h \in Handles, NEW n \in Nat,
         line' = Append(line, Urc(k, h, n)),
         UNCHANGED <<sockets, op, arg, wait, expired, result, inbox, dataMode, lost>>
  PROVE  /\ UNCHANGED <<op, arg.socket, sockets[0].handle, Reported, lost>>
         /\ UNCHANGED <<Asked, Part, Fate, Moved>>
  <1>1. UNCHANGED <<at, poll, ret, own>>
    BY DEF wait
  <1>2. /\ Len(line') = Len(line) + 1 /\ \A i \in 1 .. Len(line) : line'[i] = line[i]
        /\ line'[Len(line) + 1].kind = k
    BY <1>1, Announced DEF IndInv, Urc
  <1>3. DOMAIN line = 1 .. Len(line) /\ DOMAIN line' = 1 .. Len(line') /\ Len(line) \in Nat
    BY DEF IndInv, WireTypes
  <1>4. ASSUME NEW f \in {"OK", "ERROR"}
        PROVE  (\E i \in DOMAIN line' : line'[i].kind = f)
                 <=> \E i \in DOMAIN line : line[i].kind = f
    <2>1. \A i \in DOMAIN line' : i \in DOMAIN line \/ i = Len(line) + 1
      BY <1>2, <1>3
    <2>2. DOMAIN line \subseteq DOMAIN line'
      BY <1>2, <1>3
    <2>3. k # f
      BY DEF About, Announcing
    <2>4. line'[Len(line) + 1].kind # f
      BY <1>2, <2>3
    <2>5. \A i \in DOMAIN line : line'[i] = line[i]
      BY <1>2, <1>3
    <2> QED
      BY <2>1, <2>2, <2>4, <2>5
  <1>5. Fate' = Fate
    BY <1>1, <1>4 DEF Fate, Coming
  <1> QED
    BY <1>1, <1>5 DEF Asked, Part, Moved, Reported

LEMMA DataServes ==
  ASSUME IndInv, IndInv', NEW h \in Handles, NEW n \in 1 .. MaxBuffered, DataArrives(h, n)
  PROVE  Service!Next
  <1>1. /\ h \in open /\ held' = [held EXCEPT ![h] = @ + n]
        /\ line' = Append(line, Urc("NSONMI", h, held'[h]))
        /\ UNCHANGED <<sockets, op, arg, wait, expired, result, inbox, open, conn, dataMode, lost>>
    BY DEF DataArrives
  <1>2. held \in [Handles -> 0 .. MaxBuffered] /\ MaxBuffered \in Nat
    BY SocketsAssumption DEF IndInv, ModemTypes
  <1>3. held'[h] = held[h] + n /\ held[h] \in Nat /\ n \in Nat /\ n > 0
    BY <1>1, <1>2
  <1>4. held'[h] > held[h] /\ held'[h] \in Nat /\ held' = [held EXCEPT ![h] = held'[h]]
    <2>1. PICK m \in Nat : m = held[h] + n
      BY <1>3
    <2>2. held' = [held EXCEPT ![h] = m] /\ held'[h] = m
      BY <1>1, <1>3, <2>1
    <2>3. m > held[h]
      BY <1>3, <2>1
    <2> QED
      BY <2>2, <2>3
  <1>5. /\ UNCHANGED <<op, arg.socket, sockets[0].handle, Reported, lost>>
        /\ UNCHANGED <<Asked, Part, Fate, Moved>>
    <2>1. PICK k \in About : k = "NSONMI"
      BY DEF About, Announcing
    <2>2. line' = Append(line, Urc(k, h, held'[h]))
      BY <1>1, <2>1
    <2> QED
      BY <1>1, <1>4, <2>2, AnnouncedServes
  <1>6. Service!DataArrives(h)
    BY <1>1, <1>4, <1>5 DEF Service!DataArrives, Service!asking
  <1> QED
    BY <1>6 DEF Service!Next

LEMMA RemoteServes ==
  ASSUME IndInv, IndInv', NEW h \in Handles, RemoteCloses(h)
  PROVE  Service!Next
  <1>1. /\ h \in conn /\ conn' = conn \ {h} /\ line' = Append(line, Urc("UUSOCL", h, 0))
        /\ UNCHANGED <<sockets, op, arg, wait, expired, result, inbox, open, held, dataMode, lost>>
    BY DEF RemoteCloses
  <1>2. PICK n \in Nat : n = 0
    OBVIOUS
  <1>3. /\ UNCHANGED <<op, arg.socket, sockets[0].handle, Reported, lost>>
        /\ UNCHANGED <<Asked, Part, Fate, Moved>>
    <2>1. PICK k \in About : k = "UUSOCL"
      BY DEF About
    <2>2. line' = Append(line, Urc(k, h, n))
      BY <1>1, <1>2, <2>1
    <2> QED
      BY <1>1, <2>2, AnnouncedServes
  <1>4. Service!RemoteCloses(h)
    BY <1>1, <1>3 DEF Service!RemoteCloses, Service!asking
  <1> QED
    BY <1>4 DEF Service!Next

(* If the final line is lost, nobody will know. *)
LEMMA LostServes ==
  ASSUME IndInv, IndInv', LineLost
  PROVE  Service!Next
  <1>1. /\ lost' = lost + 1
        /\ UNCHANGED <<sockets, op, arg, result, inbox, open, conn, held>>
        /\ UNCHANGED <<at, ret>>
    BY DEF LineLost, wait, modem
  <1>2. \A j \in 1 .. Len(line') : \E i \in 1 .. Len(line) : line'[j] = line[i]
    <2>1. line \in Seq(Lined) /\ DOMAIN line = 1 .. Len(line)
      BY DEF IndInv, WireTypes
    <2>2. PICK i \in 1 .. Len(line) :
            line' = SubSeq(line, 1, i - 1) \o SubSeq(line, i + 1, Len(line))
      BY <2>1 DEF LineLost
    <2>3. PICK r : r = line'
      OBVIOUS
    <2>4. r = SubSeq(line, 1, i - 1) \o SubSeq(line, i + 1, Len(line))
      BY <2>2, <2>3
    <2>5. PICK q \in Seq(Lined) : q = line
      BY <2>1
    <2>6. i \in 1 .. Len(q) /\ r = SubSeq(q, 1, i - 1) \o SubSeq(q, i + 1, Len(q))
      BY <2>4, <2>5
    <2>7. \A j \in 1 .. Len(r) : LET k == IF j < i THEN j ELSE j + 1
                                 IN k \in 1 .. Len(q) /\ r[j] = q[k]
      BY <2>6, Cut
    <2>8. \A j \in 1 .. Len(r) : \E k \in 1 .. Len(q) : r[j] = q[k]
      BY <2>7
    <2> QED
      BY <2>3, <2>5, <2>8
  <1>3. Fate' = Fate \/ (Fate \in {"OK", "ERROR"} /\ Fate' = "unknown")
    <2>1. CASE at \notin Commands
      <3>1. (at \notin Commands => Unasked)'
        BY Nowhere, PTL
      <3> QED
        BY <1>1, <2>1, <3>1, Nowhere DEF Unasked
    <2>2. CASE at \in Commands /\ inbox # << >>
      <3>1. (at \in Commands /\ inbox # << >> => Fate = "asked")'
        BY Sent, PTL
      <3> QED
        BY <1>1, <2>2, <3>1, Sent
    <2>3. CASE at \in Commands /\ ret # "none"
      <3>1. (IndInv /\ at \in Commands /\ ret # "none"
             => Fate = IF ret \in {"OK", "ERROR"} THEN ret ELSE "unknown")'
        BY Ended, PTL
      <3> QED
        BY <1>1, <2>3, <3>1, Ended
    <2>4. CASE at \in Commands /\ ret = "none" /\ inbox = << >>
      <3>1. Fate = IF \E i \in 1 .. Len(line) : line[i].kind = "OK" THEN "OK"
                   ELSE IF \E i \in 1 .. Len(line) : line[i].kind = "ERROR" THEN "ERROR"
                   ELSE "unknown"
        BY <2>4, Lasting
      <3>2. (IndInv /\ at \in Commands /\ ret = "none" /\ inbox = << >>
             => Fate = IF \E i \in 1 .. Len(line) : line[i].kind = "OK" THEN "OK"
                       ELSE IF \E i \in 1 .. Len(line) : line[i].kind = "ERROR" THEN "ERROR"
                       ELSE "unknown")'
        BY Lasting, PTL
      <3>3. Fate' = IF \E i \in 1 .. Len(line') : line'[i].kind = "OK" THEN "OK"
                    ELSE IF \E i \in 1 .. Len(line') : line'[i].kind = "ERROR" THEN "ERROR"
                    ELSE "unknown"
        BY <1>1, <2>4, <3>2
      <3>4. \A i, j \in 1 .. Len(line) :
              line[i].kind \in {"OK", "ERROR"} /\ line[j].kind \in {"OK", "ERROR"}
                => line[i].kind = line[j].kind
        BY DEF IndInv, Answers, Final
      <3>5. CASE \E i \in 1 .. Len(line) : line[i].kind = "OK"
        <4>1. \A j \in 1 .. Len(line') : line'[j].kind # "ERROR"
          BY <1>2, <3>4, <3>5
        <4> QED
          BY <3>1, <3>3, <3>5, <4>1
      <3>6. CASE \A i \in 1 .. Len(line) : line[i].kind # "OK"
        <4>1. \A j \in 1 .. Len(line') : line'[j].kind # "OK"
          BY <1>2, <3>6
        <4>2. (\E j \in 1 .. Len(line') : line'[j].kind = "ERROR")
                => \E i \in 1 .. Len(line) : line[i].kind = "ERROR"
          BY <1>2
        <4> QED
          BY <3>1, <3>3, <3>6, <4>1, <4>2
      <3> QED
        BY <3>5, <3>6
    <2> QED
      BY <2>1, <2>2, <2>3, <2>4
  <1>4. UNCHANGED <<op, arg.socket, sockets[0].handle, Asked, Part, Moved, Reported>>
    BY <1>1 DEF Asked, Part, Moved, Reported
  <1>5. Service!LineLost
    BY <1>1, <1>3, <1>4 DEF Service!LineLost, Service!modem
  <1> QED
    BY <1>5 DEF Service!Next

(* Every step of the functions and of the modem is a step of the service,   *)
(* or none.                                                                *)
LEMMA StepServes ==
  ASSUME PendInv, PendInv', [Next]_vars
  PROVE  [Service!Next]_(Service!vars)
  <1>1. IndInv /\ IndInv'
    BY DEF PendInv
  <1>2. CASE Driver
    <2>1. ~(SocketSendMore \/ SocketSendDone)
      BY <1>1, SendInv
    <2> QED
      BY <1>1, <1>2, <2>1, WaitLineServes, TimeoutServes, SocketServes, ConnectSendServes,
         ConnectServes, CloseServes, FreeServes, SendToServes, SentServes, ReadableServes,
         RecvCommandServes, RecvDoneServes, PollServes, GiveUpServes
      DEF Driver
  <1>3. CASE Call
    BY <1>1, <1>3, CallServes
  <1>4. CASE TimerExpires
    BY <1>1, <1>4, PollServes
  <1>5. CASE ModemExecutes
    BY <1>5, ExecutesServes
  <1>6. CASE Environment
    <2>1. ~PromptEnds
      BY <1>1 DEF PromptEnds, IndInv, Answers
    <2> QED
      BY <1>1, <1>6, <2>1, DataServes, RemoteServes, LostServes DEF Environment
  <1>7. CASE UNCHANGED vars
    <2>1. /\ UNCHANGED <<sockets, op, arg, result, lost, open, conn, held>>
          /\ UNCHANGED <<at, ret, inbox, line>>
      BY <1>7 DEF vars, wait, modem
    <2>2. UNCHANGED <<Asked, Part, Fate, Moved>>
      BY <2>1 DEF Asked, Part, Fate, Moved, Coming
    <2> QED
      BY <2>1, <2>2, Unseen
  <1> QED
    BY <1>2, <1>3, <1>4, <1>5, <1>6, <1>7 DEF Next

(* So the functions are the abstract service, whatever the numbers of       *)
(* slots, handles and bytes, and whatever lines are lost.                  *)
THEOREM SocketsImplementService == Prompt /\ Spec => SocketsAreService
  <1>1. Init => Service!Init
    <2> SUFFICES ASSUME Init PROVE Service!Init
      OBVIOUS
    <2>1. Unasked /\ Moved = 0
      BY Nowhere DEF Init, Commands, Moved, NoArg
    <2>2. sockets[0].handle = -1 /\ arg.socket = -1
      BY ZeroIsSlot DEF Init, FreeSlot, NoArg, SOCKET_ERROR
    <2>3. Reported = [op |-> "none", value |-> 0]
      BY DEF Init, Reported
    <2> QED
      BY <2>1, <2>2, <2>3 DEF Init, Unasked, Service!Init, Service!NoSlot, Service!NoHandle
  <1>2. PendInv /\ PendInv' /\ [Next]_vars => [Service!Next]_(Service!vars)
    BY StepServes
  <1> QED
    BY <1>1, <1>2, PendInvariance, PTL DEF Spec, SocketsAreService, Service!Spec
----------------------------------------------------------------------------
(* What follows from that for every implementation of the service.         *)

(* A close that was carried out, and whose answer is still to be looked at. *)
Gone == Asked = "NSOCL" /\ Fate = "OK" => 0 \notin open

(* Only its own request opens a socket again. *)
LEMMA StaysGone ==
  ASSUME Gone, [Service!Next]_(Service!vars)
  PROVE  Gone'
  <1>1. CASE UNCHANGED Service!vars
    BY <1>1 DEF Gone, Service!vars, Service!asking, Service!modem
  <1>2. CASE Service!Begin
    BY <1>2 DEF Gone, Service!Begin, Service!AsksNothing, Service!Asks
  <1>3. CASE Service!Ask
    BY <1>3 DEF Gone, Service!Ask, Service!Asks
  <1>4. CASE Service!GoOn \/ Service!Return
    BY <1>4 DEF Gone, Service!GoOn, Service!Return, Service!AsksNothing
  <1>5. CASE Service!Answer
    <2>1. CASE Fate' = "OK" /\ Service!Effect /\ Asked = "NSOCL"
      BY <2>1 DEF Gone, Service!Effect, Service!Reads
    <2>2. CASE ~(Fate' = "OK" /\ Asked = "NSOCL")
      BY <1>5, <2>2 DEF Gone, Service!Answer
    <2> QED
      BY <1>5, <2>1, <2>2 DEF Service!Answer
  <1>6. CASE Service!LineLost
    BY <1>6 DEF Gone, Service!LineLost, Service!modem
  <1>7. CASE \E h \in Handles : Service!DataArrives(h) \/ Service!RemoteCloses(h)
    BY <1>7 DEF Gone, Service!DataArrives, Service!RemoteCloses, Service!asking
  <1> QED
    BY <1>1, <1>2, <1>3, <1>4, <1>5, <1>6, <1>7 DEF Service!Next

(* A call ends with one of its outcomes. *)
LEMMA EndsWithOutcome ==
  ASSUME op # "none", op' = "none", [Service!Next]_(Service!vars)
  PROVE  Service!Return
  <1>1. ~UNCHANGED Service!vars
    BY DEF Service!vars
  <1> QED
    BY <1>1 DEF Service!Next, Service!Begin, Service!Ask, Service!GoOn, Service!Answer,
       Service!LineLost, Service!DataArrives, Service!RemoteCloses

(* A socketClose that returns true has closed the socket in the modem.      *)
THEOREM CloseCloses == Prompt /\ Spec => ClosedIsClosed
  <1> DEFINE Closes == op = "close" /\ op' = "none" /\ result'.value = 1
                         => sockets[arg.socket].handle \notin open
  <1>1. Init => Gone
    <2> SUFFICES ASSUME Init PROVE Gone
      OBVIOUS
    <2>1. Unasked
      BY Nowhere DEF Init, Commands
    <2> QED
      BY <2>1 DEF Unasked, Gone
  <1>2. PendInv /\ PendInv' /\ Gone /\ [Next]_vars => Gone'
    BY StepServes, StaysGone
  <1>3. PendInv /\ PendInv' /\ Gone /\ [Next]_vars => Closes
    <2> SUFFICES ASSUME PendInv, PendInv', Gone, [Next]_vars,
                        op = "close", op' = "none", result'.value = 1
                 PROVE  sockets[arg.socket].handle \notin open
      OBVIOUS
    <2>1. Service!Return
      BY StepServes, EndsWithOutcome
    <2>2. Reported'.value = 1
      BY DEF Reported
    <2>3. Fate = "OK"
      BY <2>1, <2>2 DEF Service!Return, Service!Outcome
    <2>4. at \in {"closed", "socl"} /\ IndInv
      BY DEF PendInv, IndInv, Places
    <2>5. at = "socl"
      BY <2>3, <2>4, Nowhere DEF Unasked, Commands
    <2>6. Asked = "NSOCL"
      BY <2>5, CommandPoints DEF Asked, Commands
    <2>7. arg.socket = 0 /\ sockets[0].handle = 0
      BY <2>4, <2>5 DEF IndInv, Locals, OnZero
    <2> QED
      BY <2>3, <2>6, <2>7 DEF Gone
  <1>4. PendInv /\ PendInv' /\ Gone /\ [Next]_vars => [Closes]_vars
    BY <1>3
  <1> QED
    BY <1>1, <1>2, <1>4, PendInvariance, PTL DEF Spec, ClosedIsClosed
=============================================================================
