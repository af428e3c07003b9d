----------------------------- MODULE MdmSockets -----------------------------
(***************************************************************************)
(* The socket functions of MDMParser (dafbbf31bf76/MDM.cpp) talking to the *)
(* modem.  The driver writes AT commands and reads lines; every wait for   *)
(* an answer is a call of waitFinalResp, which also handles the            *)
(* unsolicited lines it meets.  All of this happens under the driver's     *)
(* lock, so one call runs at a time.                                       *)
(*                                                                         *)
(* The modem is external and modelled from how the driver uses it: it      *)
(* executes the commands in the order they come, sends the lines of one    *)
(* answer together, and announces received data with the number of bytes   *)
(* now pending.  Its answers carry no reference to their command.  For the *)
(* properties a line keeps in "fresh" whether it answers the last command  *)
(* the driver has sent.                                                    *)
(***************************************************************************)
EXTENDS Integers, Sequences, FiniteSets

CONSTANTS
  NUMSOCKETS,    \* entries of _sockets
  MAX_SIZE,      \* the largest block read at once
  Handles,       \* handles the modem can give out
  Calls,         \* the socket functions the application uses
  MaxLen,        \* bound on the length given to the receive functions
  MaxBuffered,   \* bound on the bytes the modem holds for a socket
  MaxLines,      \* bound on the lines between modem and driver
  MaxLost,       \* bound on the lines lost in the receive path
  MaxCreated,    \* bound on the sockets created
  LateAnswers    \* whether an answer may come after the driver's time-out

SOCKET_ERROR == -1

ASSUME SocketsAssumption ==
  /\ NUMSOCKETS \in Nat \ {0} /\ MAX_SIZE \in Nat \ {0}
  /\ Handles \subseteq Nat /\ IsFiniteSet(Handles) /\ 0 \in Handles
  /\ Calls \subseteq {"socket", "connect", "setBlocking", "close", "free",
                      "send", "sendTo", "readable", "recv", "recvFrom"}
  /\ MaxLen \in Nat /\ MaxBuffered \in Nat /\ MaxLines \in Nat
  /\ MaxLost \in Nat /\ MaxCreated \in Nat
  /\ LateAnswers \in BOOLEAN

VARIABLES
  sockets,    \* _sockets
  op,         \* the function being executed, "none" between calls
  arg,        \* its locals: socket, len, cnt, blk
  at,         \* the waitFinalResp it is in or has returned from
  poll,       \* whether that wait has timeout_ms = 0
  ret,        \* what waitFinalResp returns, "none" while it runs
  failed,     \* history: this call has met an ERROR
  own,        \* history: the final line it returned on answered this command
  handle,     \* param of _cbUSOCR
  param,      \* what _cbUSORF, _cbUSORD or _cbUDNSRN has stored, -1 while untouched
  cut,        \* history: the slots whose pending was set last by a block of socketRecv
  expired,    \* the timer of socketRecv and socketRecvFrom has run out
  result,     \* history: the last function and what it returned
  inbox,      \* commands on their way to the modem
  line,       \* lines on their way to the driver
  open, conn, \* the modem: its open and its connected sockets
  held,       \* the bytes it holds for each socket
  dataMode,   \* it has prompted for data
  given,      \* history: the handles it has given out
  lost        \* history: lines lost

wait  == <<at, poll, ret, failed, own, handle, param, cut>>
modem == <<open, conn, held, dataMode, given>>
vars  == <<sockets, op, arg, wait, expired, result, inbox, line, modem, lost>>

Slots    == 0 .. NUMSOCKETS - 1
NoArg    == [socket |-> SOCKET_ERROR, len |-> 0, cnt |-> 0, blk |-> 0]
FreeSlot == [handle |-> SOCKET_ERROR, blocking |-> TRUE, connected |-> FALSE, pending |-> 0]
Least(x, y) == IF x < y THEN x ELSE y

Answer(k, n) == [kind |-> k, handle |-> SOCKET_ERROR, n |-> n, fresh |-> TRUE]
Urc(k, h, n) == [kind |-> k, handle |-> h, n |-> n, fresh |-> FALSE]
Final        == {"OK", "ERROR", "PROMPT"}
Old(q)       == [i \in DOMAIN q |-> [q[i] EXCEPT !.fresh = FALSE]]

----------------------------------------------------------------------------
(* memset leaves timeout_ms 0, which is not blocking. *)
Init ==
  /\ sockets = [s \in Slots |-> [FreeSlot EXCEPT !.blocking = FALSE]]
  /\ op = "none" /\ arg = NoArg
  /\ at = "none" /\ poll = FALSE /\ ret = "none" /\ failed = FALSE /\ own = TRUE
  /\ handle = SOCKET_ERROR /\ param = -1 /\ cut = {} /\ expired = FALSE
  /\ result = [op |-> "none", value |-> 0, got |-> -1, failed |-> FALSE]
  /\ inbox = << >> /\ line = << >>
  /\ open = {} /\ conn = {} /\ held = [h \in Handles |-> 0] /\ dataMode = FALSE
  /\ given = << >> /\ lost = 0

(* ISSOCKET: s is a slot and has a handle. *)
IsSocket(s) == s \in Slots /\ sockets[s].handle # SOCKET_ERROR

(* _findSocket: the first slot with this handle. *)
FindSocket(h) ==
  IF \E s \in Slots : sockets[s].handle = h
  THEN CHOOSE s \in Slots : /\ sockets[s].handle = h
                            /\ \A t \in Slots : t < s => sockets[t].handle # h
  ELSE SOCKET_ERROR

----------------------------------------------------------------------------
(* waitFinalResp. *)

(* Send one command and wait for its answer at this point of the function. *)
Command(k, h, n, point) ==
  /\ inbox' = Append(Old(inbox), [kind |-> k, handle |-> h, n |-> n, fresh |-> TRUE])
  /\ line' = Old(line)
  /\ at' = point /\ poll' = FALSE /\ ret' = "none" /\ own' = TRUE
  /\ UNCHANGED <<failed, cut>>

(* Wait again, without a command. *)
WaitMore(point) ==
  /\ at' = point /\ poll' = FALSE /\ ret' = "none" /\ own' = TRUE
  /\ UNCHANGED <<failed, cut, inbox, line>>

(* Look for unsolicited lines: with timeout_ms = 0 it is one getLine. *)
Poll(point) ==
  /\ at' = point /\ poll' = TRUE /\ ret' = "none" /\ own' = TRUE
  /\ inbox' = Old(inbox) /\ line' = Old(line)
  /\ UNCHANGED <<failed, cut>>

(* Go on at a point of the function without waiting. *)
Goto(point) ==
  /\ at' = point /\ poll' = FALSE /\ ret' = "go" /\ own' = TRUE
  /\ UNCHANGED <<failed, cut, inbox, line>>

Return(v) ==
  /\ op' = "none" /\ at' = "none" /\ poll' = FALSE /\ ret' = "none" /\ own' = TRUE
  /\ arg' = NoArg /\ failed' = FALSE
  /\ handle' = SOCKET_ERROR /\ param' = -1 /\ expired' = FALSE
  /\ result' = [op |-> op, value |-> v, failed |-> failed,
                got |-> IF op = "recvFrom" THEN param ELSE -1]
  /\ cut' = IF op = "socket" THEN cut \ {v} ELSE cut
  /\ UNCHANGED <<inbox, line>>

(* The lines that tell how many bytes are pending: announcements, and the   *)
(* data of socketRecv, +NSONMI: handle, length, "data", which is taken for  *)
(* one as it begins alike.                                                  *)
Announcing == {"NSONMI", "BLOCK"}

(* +NSONMI that adds to what was pending instead of replacing it. *)
UnsolicitedAdds(l) ==
  LET s == FindSocket(l.handle) IN
  CASE s # SOCKET_ERROR /\ l.kind \in Announcing ->
         [sockets EXCEPT ![s].pending = @ + l.n]
    [] s # SOCKET_ERROR /\ l.kind = "UUSOCL" ->
         [sockets EXCEPT ![s].connected = FALSE]
    [] OTHER -> sockets

(* +UUSOCL that is taken for a line nobody needs. *)
UnsolicitedNoClose(l) ==
  LET s == FindSocket(l.handle) IN
  IF s # SOCKET_ERROR /\ l.kind \in Announcing
  THEN [sockets EXCEPT ![s].pending = l.n] ELSE sockets

(* The lines about sockets; +UUSORF is treated as +NSONMI. *)
Unsolicited(l) ==
  LET s == FindSocket(l.handle) IN
  CASE s # SOCKET_ERROR /\ l.kind \in Announcing ->
         [sockets EXCEPT ![s].pending = l.n]
    [] s # SOCKET_ERROR /\ l.kind = "UUSOCL" ->
         [sockets EXCEPT ![s].connected = FALSE]
    [] OTHER -> sockets

(* pending is set by a block, or by the next announcement again. *)
CutBy(l) ==
  LET s == FindSocket(l.handle) IN
  CASE s # SOCKET_ERROR /\ l.kind = "BLOCK"  -> cut \cup {s}
    [] s # SOCKET_ERROR /\ l.kind = "NSONMI" -> cut \ {s}
    [] OTHER -> cut

(* The callback of socketSocket is called for every line, the final OK too: *)
(* any line that is not a number stores 0.                                  *)
CbUSOCR(l) == IF at = "socr" THEN (IF l.kind = "HANDLE" THEN l.n ELSE 0) ELSE handle

CbUSORF(l) == IF at = "sorf" /\ l.kind = "DATA" THEN l.n ELSE param

CbUSORD(l) == IF at = "sord" /\ l.kind = "BLOCK" THEN l.n ELSE param

CbUDNSRN(l) == IF at = "dns" /\ l.kind = "ADDRESS" THEN 1 ELSE param

WaitLine ==
  /\ at # "none" /\ ret = "none" /\ line # << >>
  /\ LET l == Head(line) IN
       /\ line' = Tail(line)
       /\ sockets' = Unsolicited(l) /\ cut' = CutBy(l)
       /\ handle' = CbUSOCR(l)
       /\ param' = CASE at = "dns" -> CbUDNSRN(l) [] at = "sord" -> CbUSORD(l)
                     [] OTHER -> CbUSORF(l)
       /\ ret' = IF l.kind \in Final THEN l.kind ELSE IF poll THEN "WAIT" ELSE "none"
       /\ own' = (l.kind \in Final => l.fresh)
       /\ failed' = (failed \/ l.kind = "ERROR")
  /\ UNCHANGED <<op, arg, at, poll, expired, result, inbox, modem, lost>>

(* The time-out of a wait for an answer is ten seconds: without LateAnswers *)
(* it ends only the waits that would never end.                             *)
WaitTimeout ==
  /\ at # "none" /\ ret = "none" /\ line = << >>
  /\ poll \/ LateAnswers \/ inbox = << >>
  /\ ret' = "WAIT"
  /\ UNCHANGED <<sockets, op, arg, at, poll, failed, own, handle, param, cut, expired,
                 result, inbox, line, modem, lost>>

----------------------------------------------------------------------------
(* The socket functions.  A call ends at Return. *)

Start(f, a) ==
  /\ op = "none" /\ f \in Calls /\ Len(inbox) + Len(line) < MaxLines
  /\ op' = f /\ arg' = a

SocketSocket ==
  /\ Start("socket", NoArg) /\ Len(given) < MaxCreated
  /\ Command("NSOCR", SOCKET_ERROR, 0, "socr")
  /\ UNCHANGED <<sockets, handle, param, expired, result, modem, lost>>

(* Always the slot 0, whether it is free or not. *)
SocketSocketDone ==
  /\ at = "socr" /\ ret # "none"
  /\ \/ /\ ret = "OK" /\ handle # SOCKET_ERROR
        /\ sockets' = [sockets EXCEPT ![0] = [FreeSlot EXCEPT !.handle = handle]]
        /\ Return(0)
     \/ /\ ret # "OK" \/ handle = SOCKET_ERROR
        /\ UNCHANGED sockets
        /\ Return(SOCKET_ERROR)
  /\ UNCHANGED <<modem, lost>>

(* A host name goes through gethostbyname first. *)
SocketConnect(s, name) ==
  /\ Start("connect", [NoArg EXCEPT !.socket = s])
  /\ \/ name /\ Command("UDNSRN", SOCKET_ERROR, 0, "dns")
     \/ ~name /\ Goto("resolved")
  /\ UNCHANGED <<sockets, handle, param, expired, result, modem, lost>>

(* gethostbyname has found an address. *)
Resolved == at = "resolved" \/ (at = "dns" /\ ret = "OK" /\ param = 1)

(* socketConnect that does not look at the answer. *)
SocketConnectDoneAlways ==
  /\ at = "soco" /\ ret # "none"
  /\ sockets' = [sockets EXCEPT ![arg.socket].connected = TRUE]
  /\ Return(1)
  /\ UNCHANGED <<modem, lost>>

(* socketConnect that goes on when the name was not found. *)
SocketConnectSendAnyway ==
  /\ Resolved \/ (at = "dns" /\ ret # "none")
  /\ IsSocket(arg.socket) /\ ~sockets[arg.socket].connected
  /\ Command("NSOCO", sockets[arg.socket].handle, 0, "soco")
  /\ UNCHANGED <<sockets, op, arg, handle, param, expired, result, modem, lost>>

SocketConnectSend ==
  /\ Resolved /\ IsSocket(arg.socket) /\ ~sockets[arg.socket].connected
  /\ Command("NSOCO", sockets[arg.socket].handle, 0, "soco")
  /\ UNCHANGED <<sockets, op, arg, handle, param, expired, result, modem, lost>>

SocketConnectRefused ==
  /\ \/ at = "dns" /\ ret # "none" /\ ~Resolved
     \/ Resolved /\ ~(IsSocket(arg.socket) /\ ~sockets[arg.socket].connected)
  /\ Return(0)
  /\ UNCHANGED <<sockets, modem, lost>>

SocketConnectDone ==
  /\ at = "soco" /\ ret # "none"
  /\ sockets' = IF ret = "OK" THEN [sockets EXCEPT ![arg.socket].connected = TRUE]
                              ELSE sockets
  /\ Return(IF ret = "OK" THEN 1 ELSE 0)
  /\ UNCHANGED <<modem, lost>>

SocketSetBlocking(s, b) ==
  /\ op = "none" /\ "setBlocking" \in Calls
  /\ IsSocket(s)
  /\ sockets' = [sockets EXCEPT ![s].blocking = b]
  /\ UNCHANGED <<op, arg, wait, expired, result, inbox, line, modem, lost>>

(* socketClose, and the socketClose that socketFree begins with. *)
SocketClose(f, s) ==
  /\ f \in {"close", "free"}
  /\ Start(f, [NoArg EXCEPT !.socket = s])
  /\ IF IsSocket(s) /\ sockets[s].connected
     THEN Command("NSOCL", sockets[s].handle, 0, "socl")
     ELSE Goto("closed")
  /\ UNCHANGED <<sockets, handle, param, expired, result, modem, lost>>

(* socketClose that does not wait for the answer. *)
SocketCloseDoneEarly ==
  /\ op = "close" /\ at \in {"closed", "socl"}
  /\ sockets' = IF at = "socl" THEN [sockets EXCEPT ![arg.socket].connected = FALSE]
                               ELSE sockets
  /\ Return(IF at = "socl" THEN 1 ELSE 0)
  /\ UNCHANGED <<modem, lost>>

SocketCloseDone ==
  /\ op = "close"
  /\ at = "closed" \/ (at = "socl" /\ ret # "none")
  /\ sockets' = IF at = "socl" /\ ret = "OK"
                THEN [sockets EXCEPT ![arg.socket].connected = FALSE] ELSE sockets
  /\ Return(IF at = "socl" /\ ret = "OK" THEN 1 ELSE 0)
  /\ UNCHANGED <<modem, lost>>

(* Free the slot whatever became of the close. *)
SocketFreeDone ==
  /\ op = "free"
  /\ at = "closed" \/ (at = "socl" /\ ret # "none")
  /\ sockets' = IF IsSocket(arg.socket) THEN [sockets EXCEPT ![arg.socket] = FreeSlot]
                                        ELSE sockets
  /\ Return(1)
  /\ UNCHANGED <<modem, lost>>

(* socketSend, n blocks: the payload is never written. *)
SocketSend(s, n) ==
  /\ Start("send", [NoArg EXCEPT !.socket = s, !.len = n])
  /\ Goto("send")
  /\ UNCHANGED <<sockets, handle, param, expired, result, modem, lost>>

SocketSendMore ==
  /\ \/ /\ at = "send" /\ IsSocket(arg.socket)
        /\ Command("USOWR", sockets[arg.socket].handle, 1, "sowr")
        /\ UNCHANGED arg
     \/ at = "sowr" /\ ret = "PROMPT" /\ WaitMore("written") /\ UNCHANGED arg
     \/ at = "written" /\ ret = "OK" /\ WaitMore("flushed") /\ UNCHANGED arg
     \/ /\ at = "flushed" /\ ret # "none" /\ arg.len > 1
        /\ arg' = [arg EXCEPT !.len = @ - 1, !.cnt = @ + 1]
        /\ Goto("send")
  /\ UNCHANGED <<sockets, op, handle, param, expired, result, modem, lost>>

SocketSendDone ==
  /\ \/ at = "send" /\ ~IsSocket(arg.socket) /\ Return(SOCKET_ERROR)
     \/ at = "sowr" /\ ret \notin {"none", "PROMPT"} /\ Return(SOCKET_ERROR)
     \/ at = "written" /\ ret \notin {"none", "OK"} /\ Return(SOCKET_ERROR)
     \/ at = "flushed" /\ ret # "none" /\ arg.len = 1 /\ Return(arg.cnt + 1)
  /\ UNCHANGED <<sockets, modem, lost>>

(* socketSendTo, n blocks: always socket 0 of the modem, whatever the       *)
(* socket argument; two waits per block, no result looked at.               *)
SocketSendTo(s, n) ==
  /\ Start("sendTo", [NoArg EXCEPT !.socket = s, !.len = n])
  /\ Command("NSOST", 0, 1, "sost")
  /\ UNCHANGED <<sockets, handle, param, expired, result, modem, lost>>

SocketSendToMore ==
  /\ \/ at = "sost" /\ ret # "none" /\ WaitMore("sost2") /\ UNCHANGED arg
     \/ /\ at = "sost2" /\ ret # "none" /\ arg.len > 1
        /\ arg' = [arg EXCEPT !.len = @ - 1, !.cnt = @ + 1]
        /\ Command("NSOST", 0, 1, "sost")
  /\ UNCHANGED <<sockets, op, handle, param, expired, result, modem, lost>>

SocketSendToDone ==
  /\ at = "sost2" /\ ret # "none" /\ arg.len = 1
  /\ Return(arg.cnt + 1)
  /\ UNCHANGED <<sockets, modem, lost>>

SocketReadable(s) ==
  /\ Start("readable", [NoArg EXCEPT !.socket = s])
  /\ IF IsSocket(s) /\ sockets[s].connected THEN Poll("readable") ELSE Goto("unreadable")
  /\ UNCHANGED <<sockets, handle, param, expired, result, modem, lost>>

SocketReadableDone ==
  /\ at \in {"readable", "unreadable"} /\ ret # "none"
  /\ Return(IF at = "readable" /\ sockets[arg.socket].connected
            THEN sockets[arg.socket].pending ELSE SOCKET_ERROR)
  /\ UNCHANGED <<sockets, modem, lost>>

(* The receive functions: socketRecv needs a connected socket, reads block  *)
(* after block; socketRecvFrom reads socket 0 of the modem and returns      *)
(* after one block.  Both poll while nothing is pending.                    *)
Recv(f, s, n) ==
  /\ f \in {"recv", "recvFrom"}
  /\ Start(f, [NoArg EXCEPT !.socket = s, !.len = n])
  /\ Goto("loop")
  /\ UNCHANGED <<sockets, handle, param, expired, result, modem, lost>>

InLoop     == op \in {"recv", "recvFrom"} /\ at = "loop" /\ arg.len > 0
Receivable == op = "recvFrom" \/ (IsSocket(arg.socket) /\ sockets[arg.socket].connected)

(* A block that is not limited to what is pending. *)
BlockOfRequest ==
  IF sockets[arg.socket].pending > 0 THEN Least(MAX_SIZE, arg.len) ELSE 0

Block == Least(Least(MAX_SIZE, arg.len), sockets[arg.socket].pending)

RecvCommand ==
  /\ InLoop /\ Receivable /\ Block > 0
  /\ arg' = [arg EXCEPT !.blk = Block]
  /\ param' = -1
  /\ IF op = "recv" THEN Command("USORD", sockets[arg.socket].handle, Block, "sord")
                    ELSE Command("NSORF", 0, Block, "sorf")
  /\ UNCHANGED <<sockets, op, handle, expired, result, modem, lost>>

(* socketRecvFrom that goes on until the buffer is full. *)
RecvDoneKeepsReading ==
  /\ at \in {"sord", "sorf"} /\ ret # "none"
  /\ \/ /\ ret = "OK"
        /\ sockets' = [sockets EXCEPT ![arg.socket].pending = @ - arg.blk]
        /\ \/ /\ arg.len > arg.blk
              /\ arg' = [arg EXCEPT !.len = @ - arg.blk, !.cnt = @ + arg.blk]
              /\ Goto("loop")
              /\ UNCHANGED <<op, result, handle, param, expired>>
           \/ /\ arg.len = arg.blk
              /\ Return(arg.cnt + arg.blk)
     \/ /\ ret # "OK"
        /\ Return(SOCKET_ERROR)
        /\ UNCHANGED sockets
  /\ UNCHANGED <<modem, lost>>

(* The count is the block asked for; pending is read again, as a line       *)
(* handled during the wait may have changed it.                             *)
RecvDone ==
  /\ at \in {"sord", "sorf"} /\ ret # "none"
  /\ \/ /\ ret = "OK"
        /\ sockets' = [sockets EXCEPT ![arg.socket].pending = @ - arg.blk]
        /\ \/ /\ op = "recv" /\ arg.len > arg.blk
              /\ arg' = [arg EXCEPT !.len = @ - arg.blk, !.cnt = @ + arg.blk]
              /\ Goto("loop")
              /\ UNCHANGED <<op, result, handle, param, expired>>
           \/ /\ op = "recvFrom" \/ arg.len = arg.blk
              /\ Return(arg.cnt + arg.blk)
     \/ /\ ret # "OK"
        /\ Return(SOCKET_ERROR)
        /\ UNCHANGED sockets
  /\ UNCHANGED <<modem, lost>>

(* The timer is not looked at: the poll goes on for ever. *)
RecvGiveUpNever ==
  /\ InLoop
  /\ \/ ~Receivable /\ Return(IF IsSocket(arg.socket) THEN arg.cnt ELSE SOCKET_ERROR)
     \/ Receivable /\ Block <= 0 /\ FALSE /\ Return(arg.cnt)
  /\ UNCHANGED <<sockets, modem, lost>>

(* Nothing pending: poll once for unsolicited lines. *)
RecvPoll ==
  /\ InLoop /\ Receivable /\ Block <= 0
  /\ sockets[arg.socket].blocking \/ ~expired
  /\ Poll("polled")
  /\ UNCHANGED <<sockets, op, arg, handle, param, expired, result, modem, lost>>

RecvPolled ==
  /\ at = "polled" /\ ret # "none"
  /\ \/ ret = "WAIT" /\ Goto("loop")
        /\ UNCHANGED <<op, arg, result, handle, param, expired>>
     \/ ret # "WAIT" /\ Return(SOCKET_ERROR)
  /\ UNCHANGED <<sockets, modem, lost>>

RecvGiveUp ==
  /\ InLoop
  /\ \/ ~Receivable /\ Return(IF IsSocket(arg.socket) THEN arg.cnt ELSE SOCKET_ERROR)
     \/ /\ Receivable /\ Block <= 0
        /\ ~sockets[arg.socket].blocking /\ expired
        /\ Return(arg.cnt)
  /\ UNCHANGED <<sockets, modem, lost>>

TimerExpires ==
  /\ op \in {"recv", "recvFrom"} /\ ~expired
  /\ expired' = TRUE
  /\ UNCHANGED <<sockets, op, arg, wait, result, inbox, line, modem, lost>>

----------------------------------------------------------------------------
(* The modem (external). *)

Say(lines, c) ==
  line' = line \o [i \in DOMAIN lines |-> [lines[i] EXCEPT !.fresh = c.fresh]]

OK     == Answer("OK", 0)
ERROR  == Answer("ERROR", 0)
PROMPT == Answer("PROMPT", 0)

Create(c) ==
  \/ /\ Handles \ open # {}
     /\ LET h == CHOOSE h \in Handles \ open : \A g \in Handles \ open : h <= g IN
          /\ open' = open \cup {h}
          /\ held' = [held EXCEPT ![h] = 0]
          /\ given' = Append(given, h)
          /\ Say(<<Answer("HANDLE", h), OK>>, c)
     /\ UNCHANGED <<conn, dataMode>>
  \/ Say(<<ERROR>>, c) /\ UNCHANGED modem

Connect(c) ==
  \/ /\ c.handle \in open
     /\ conn' = conn \cup {c.handle} /\ Say(<<OK>>, c)
     /\ UNCHANGED <<open, held, dataMode, given>>
  \/ Say(<<ERROR>>, c) /\ UNCHANGED modem

Close(c) ==
  \/ /\ c.handle \in open
     /\ open' = open \ {c.handle} /\ conn' = conn \ {c.handle}
     /\ held' = [held EXCEPT ![c.handle] = 0]
     /\ Say(<<OK>>, c)
     /\ UNCHANGED <<dataMode, given>>
  \/ Say(<<ERROR>>, c) /\ UNCHANGED modem

(* The data of one read: socketRecv looks for it in a line with the handle, *)
(* socketRecvFrom in one that begins with a number.                         *)
DataLine(c, n) ==
  IF c.kind = "USORD" THEN [Answer("BLOCK", n) EXCEPT !.handle = c.handle] ELSE Answer("DATA", n)

(* Reading hands out at most what is held; with nothing held there is no   *)
(* data line.                                                              *)
Read(c) ==
  \/ /\ c.handle \in open
     /\ LET n == Least(c.n, held[c.handle]) IN
          /\ held' = [held EXCEPT ![c.handle] = @ - n]
          /\ Say(IF n > 0 THEN <<DataLine(c, n), OK>> ELSE <<OK>>, c)
     /\ UNCHANGED <<open, conn, dataMode, given>>
  \/ Say(<<ERROR>>, c) /\ UNCHANGED modem

(* After the prompt the modem takes what comes next as the payload. *)
Write(c) ==
  \/ /\ c.handle \in conn
     /\ dataMode' = TRUE /\ Say(<<PROMPT>>, c)
     /\ UNCHANGED <<open, conn, held, given>>
  \/ Say(<<ERROR>>, c) /\ UNCHANGED modem

Resolve(c) ==
  /\ \E answer \in {<<Answer("ADDRESS", 0), OK>>, <<OK>>, <<ERROR>>} : Say(answer, c)
  /\ UNCHANGED modem

Other(c) == (Say(<<OK>>, c) \/ Say(<<ERROR>>, c)) /\ UNCHANGED modem

ModemExecutes ==
  /\ inbox # << >>
  /\ inbox' = Tail(inbox)
  /\ LET c == Head(inbox) IN
       IF dataMode
       THEN dataMode' = FALSE /\ Say(<<OK>>, c) /\ UNCHANGED <<open, conn, held, given>>
       ELSE CASE c.kind = "NSOCR" -> Create(c)
              [] c.kind = "NSOCO" -> Connect(c)
              [] c.kind = "NSOCL" -> Close(c)
              [] c.kind \in {"NSORF", "USORD"} -> Read(c)
              [] c.kind = "USOWR" -> Write(c)
              [] c.kind = "UDNSRN" -> Resolve(c)
              [] OTHER -> Other(c)
  /\ UNCHANGED <<sockets, op, arg, wait, expired, result, lost>>

(* A modem that gets no payload leaves the prompt by itself. *)
PromptEnds ==
  /\ dataMode /\ dataMode' = FALSE
  /\ \E answer \in {OK, ERROR} : Say(<<answer>>, [fresh |-> FALSE])
  /\ UNCHANGED <<sockets, op, arg, wait, expired, result, inbox, open, conn, held, given,
                 lost>>

DataArrives(h, n) ==
  /\ h \in open /\ held[h] + n <= MaxBuffered /\ Len(line) < MaxLines
  /\ held' = [held EXCEPT ![h] = @ + n]
  /\ line' = Append(line, Urc("NSONMI", h, held'[h]))
  /\ UNCHANGED <<sockets, op, arg, wait, expired, result, inbox, open, conn, dataMode,
                 given, lost>>

RemoteCloses(h) ==
  /\ h \in conn /\ Len(line) < MaxLines
  /\ conn' = conn \ {h}
  /\ line' = Append(line, Urc("UUSOCL", h, 0))
  /\ UNCHANGED <<sockets, op, arg, wait, expired, result, inbox, open, held, dataMode,
                 given, lost>>

(* A line is lost when the receive pipe overflows. *)
LineLost ==
  /\ lost < MaxLost
  /\ \E i \in DOMAIN line :
       line' = SubSeq(line, 1, i - 1) \o SubSeq(line, i + 1, Len(line))
  /\ lost' = lost + 1
  /\ UNCHANGED <<sockets, op, arg, wait, expired, result, inbox, modem>>

----------------------------------------------------------------------------
Driver ==
  \/ WaitLine \/ WaitTimeout
  \/ SocketSocketDone
  \/ SocketConnectSend \/ SocketConnectRefused \/ SocketConnectDone
  \/ SocketCloseDone \/ SocketFreeDone
  \/ SocketSendMore \/ SocketSendDone
  \/ SocketSendToMore \/ SocketSendToDone
  \/ SocketReadableDone
  \/ RecvCommand \/ RecvDone \/ RecvPoll \/ RecvPolled \/ RecvGiveUp

Call ==
  \/ SocketSocket
  \/ \E s \in Slots :
       \/ \E b \in BOOLEAN : SocketConnect(s, b) \/ SocketSetBlocking(s, b)
       \/ \E f \in {"close", "free"} : SocketClose(f, s)
       \/ \E n \in 1 .. MaxLen : SocketSend(s, n) \/ SocketSendTo(s, n)
       \/ SocketReadable(s)
       \/ \E f \in {"recv", "recvFrom"}, n \in 1 .. MaxLen : Recv(f, s, n)

Environment ==
  \/ \E h \in Handles, n \in 1 .. MaxBuffered : DataArrives(h, n)
  \/ \E h \in Handles : RemoteCloses(h)
  \/ PromptEnds \/ LineLost

Next == Driver \/ Call \/ TimerExpires \/ ModemExecutes \/ Environment

Spec == Init /\ [][Next]_vars

(* The thread that called runs, time passes and the modem answers; nobody  *)
(* has to call, to send data or to close.                                  *)
FairSpec == Spec /\ WF_vars(Driver) /\ WF_vars(TimerExpires) /\ WF_vars(ModemExecutes)

----------------------------------------------------------------------------
Lines(k, h) == \E i \in DOMAIN line : line[i].kind = k /\ line[i].handle = h

(* The variables have their types.  As long as no line is lost, pending    *)
(* does not go below zero, whatever comes between a read and its answer.   *)
TypeOK ==
  /\ sockets \in [Slots -> [handle : Handles \cup {SOCKET_ERROR}, blocking : BOOLEAN,
                            connected : BOOLEAN, pending : Int]]
  /\ lost = 0 => \A s \in Slots : sockets[s].pending >= 0
  /\ op \in Calls \cup {"none"} /\ (op = "none" <=> at = "none")
  /\ arg.socket \in Slots \cup {SOCKET_ERROR} /\ arg.len \in Nat /\ arg.blk \in Nat
  /\ ret \in Final \cup {"none", "WAIT", "go"}
  /\ open \subseteq Handles /\ conn \subseteq open
  /\ held \in [Handles -> 0 .. MaxBuffered]

(* A final line that ends a wait is the answer to the command the function *)
(* has just sent: calls neither swallow each other's answers nor meet one  *)
(* where they only look for unsolicited lines, even if answers get lost.   *)
AnswersAreOwn == ret \in Final => own

(* A slot that says connected is connected in the modem, unless the news   *)
(* that it is not is still on its way: connects, closes by either side,    *)
(* frees and re-creations in any order leave no slot connected for ever.   *)
ConnectedIsConnected ==
  \A s \in Slots : sockets[s].connected =>
    LET h == sockets[s].handle IN
      h \in conn \/ Lines("UUSOCL", h) \/ at = "socl" \/ lost > 0

(* Once the announcements have been read and outside a read, pending is no  *)
(* more than the modem holds, and just what it holds unless a block of      *)
(* socketRecv was what set it last: that block is taken for an announcement *)
(* and then subtracted, so that nothing is pending until the next one.  An  *)
(* announcement that is handled while a read waits for its answer is not    *)
(* undone by the subtraction that follows.                                  *)
PendingIsHeld ==
  \A s \in Slots :
    LET h == sockets[s].handle IN
      (/\ h \in open /\ h = given[Len(given)]
       /\ at \notin {"socr", "sord", "sorf"} /\ ~Lines("NSONMI", h) /\ lost = 0)
        => /\ sockets[s].pending <= held[h]
           /\ s \notin cut => sockets[s].pending = held[h]

(* The count socketRecvFrom returns is the number of bytes that were        *)
(* received into the buffer, and so is every block that socketRecv counts.  *)
RecvFromCounts ==
  lost = 0 =>
    /\ result.op = "recvFrom" /\ result.value > 0 => result.got = result.value
    /\ at = "sord" /\ ret = "OK" => param = arg.blk

(* What a function returns when it fails: a slot, a count and 0 are success *)
(* of the functions that return a number.                                   *)
Failure(f) == IF f \in {"connect", "close"} THEN 0 ELSE SOCKET_ERROR

(* A call that has met an ERROR reports failure.  The exceptions do not     *)
(* look at what they are told: socketFree at the close, socketSendTo at     *)
(* both answers (see SentWasAccepted), socketSend at its third answer.      *)
FailureReported ==
  (result.failed /\ result.op \notin {"free", "sendTo", "send"})
    => result.value = Failure(result.op)

(* What became of the command of the wait a function is in: what            *)
(* waitFinalResp has returned, or else the final line on its way.           *)
CommandAt == [socr |-> "NSOCR", dns |-> "UDNSRN", soco |-> "NSOCO", socl |-> "NSOCL",
              sost |-> "NSOST", sord |-> "USORD", sorf |-> "NSORF"]

Coming(k) == \E i \in DOMAIN line : line[i].kind = k

Fate ==
  IF at \notin DOMAIN CommandAt THEN "none"
  ELSE IF inbox # << >> THEN "asked"
  ELSE IF ret = "OK" \/ Coming("OK") THEN "OK"
  ELSE IF ret = "ERROR" \/ Coming("ERROR") THEN "ERROR" ELSE "unknown"

Asked    == IF at \in DOMAIN CommandAt THEN CommandAt[at] ELSE "none"
Part     == IF at \in {"sord", "sorf"} THEN arg.blk ELSE IF at = "sost" THEN 1 ELSE 0
Moved    == IF at = "sost2" THEN arg.cnt + 1 ELSE arg.cnt
Reported == [op |-> result.op, value |-> result.value]

Service == INSTANCE SocketService
             WITH call <- op, slot <- arg.socket, handle <- sockets[0].handle,
                  request <- Asked, block <- Part, fate <- Fate, moved <- Moved,
                  result <- Reported

(* The functions are the socket service: a request is carried out once at   *)
(* most and within its call, what a function returns is what became of its  *)
(* own requests, it asks for no more than the modem holds and goes on only  *)
(* from what was done, whatever is lost and whatever comes in between.      *)
SocketsAreService == Service!Spec

(* A socketClose that returns true has closed the socket in the modem       *)
(* (MDM.h, "true if successfully, false otherwise"), whichever lines are    *)
(* lost or come from the other side meanwhile.                              *)
ClosedIsClosed ==
  [][op = "close" /\ op' = "none" /\ result'.value = 1
       => sockets[arg.socket].handle \notin open]_vars

(* Every call returns, whatever the modem answers or loses, except a        *)
(* receive on a socket the application has left blocking.                   *)
CallsReturn ==
  (op # "none" /\ ~(op \in {"recv", "recvFrom"} /\ sockets[arg.socket].blocking))
    ~> (op = "none")

----------------------------------------------------------------------------
(* What a comment promises and the code does not keep. *)

(* MDM.h:250-257: socketSendTo returns what was written or SOCKET_ERROR.    *)
SentWasAccepted ==
  (result.op = "sendTo" /\ result.failed) => result.value = SOCKET_ERROR
=============================================================================
