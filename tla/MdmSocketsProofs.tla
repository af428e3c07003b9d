-------------------------- MODULE MdmSocketsProofs --------------------------
(***************************************************************************)
(* Proofs about MdmSockets for every number of slots, handles, bytes and   *)
(* lines: which answer ends a wait, what a call reports, and what a slot   *)
(* can hold.  As in the runs, answers come within their time-out and       *)
(* nobody calls socketSend, which leaves the modem waiting for data.       *)
(***************************************************************************)
EXTENDS MdmSockets, SequenceTheorems, WellFoundedInduction, TLAPS

Prompt == LateAnswers = FALSE /\ "send" \notin Calls

Requests == {"NSOCR", "NSOCO", "NSOCL", "NSOST", "NSORF", "USORD", "UDNSRN"}
Replies  == {"OK", "ERROR", "HANDLE", "ADDRESS", "DATA", "BLOCK", "NSONMI",
             "UUSOCL"}
Ops      == {"none", "socket", "connect", "close", "free", "sendTo", "readable", "recv",
             "recvFrom"}
Points   == {"none", "socr", "dns", "resolved", "soco", "closed", "socl", "sost", "sost2",
             "readable", "unreadable", "loop", "sord", "sorf", "polled"}

(* The lines about a socket. *)
About    == Announcing \cup {"UUSOCL"}

AnyHandle == Handles \cup {SOCKET_ERROR}
Slot      == [handle : AnyHandle, blocking : BOOLEAN, connected : BOOLEAN, pending : Int]
Cmds      == [kind : Requests, handle : AnyHandle, n : Nat, fresh : BOOLEAN]
Lined     == [kind : Replies, handle : AnyHandle, n : Nat, fresh : BOOLEAN]
Args      == [socket : Slots \cup {SOCKET_ERROR}, len : Nat, cnt : Nat, blk : Nat]
Results   == [op : Ops, value : Int, failed : BOOLEAN, got : Int]

DriverTypes ==
  /\ sockets \in [Slots -> Slot]
  /\ op \in Ops /\ (op # "none" => op \in Calls) /\ arg \in Args
  /\ at \in Points /\ poll \in BOOLEAN
  /\ ret \in {"OK", "ERROR", "none", "WAIT", "go"}
  /\ failed \in BOOLEAN /\ own \in BOOLEAN /\ handle \in Int /\ param \in Int
  /\ expired \in BOOLEAN /\ result \in Results

WireTypes ==
  /\ inbox \in Seq(Cmds) /\ line \in Seq(Lined)
  /\ \A i \in 1 .. Len(line) :
       line[i].kind \in About => line[i].handle \in Handles

ModemTypes ==
  /\ open \subseteq Handles /\ conn \subseteq open
  /\ held \in [Handles -> 0 .. MaxBuffered]
  /\ given \in Seq(Handles) /\ lost \in Nat

(* The driver waits for the final answer to a command.                     *)
Asking == at # "none" /\ ~poll /\ ret = "none"

(* A command is answered once: a final line on its way is the answer to the *)
(* last command, and there is none while that is still to be executed or   *)
(* when nobody waits for one.                                              *)
Answers ==
  /\ dataMode = FALSE
  /\ inbox = << >> \/ (Len(inbox) = 1 /\ Asking /\ inbox[1].fresh = TRUE)
  /\ ~Asking \/ inbox # << >> => \A i \in 1 .. Len(line) : line[i].kind \notin Final
  /\ \A i \in 1 .. Len(line) : line[i].kind \in Final =>
       /\ line[i].fresh = TRUE
       /\ \A j \in 1 .. Len(line) : line[j].kind \in Final => j = i
  /\ ret \in Final => own = TRUE

Reading == at \in {"sord", "sorf"}
OnZero  == at \in {"soco", "socl", "sord", "sorf"}

(* Where a function can be, and the command that is under way there.       *)
Places ==
  /\ op = "none" <=> at = "none"
  /\ op = "socket" <=> at = "socr"
  /\ op = "connect" <=> at \in {"dns", "resolved", "soco"}
  /\ op \in {"close", "free"} <=> at \in {"closed", "socl"}
  /\ op = "sendTo" <=> at \in {"sost", "sost2"}
  /\ op = "readable" <=> at \in {"readable", "unreadable"}
  /\ op \in {"recv", "recvFrom"} <=> at \in {"loop", "sord", "sorf", "polled"}
  /\ at = "sord" => op = "recv"
  /\ at = "sorf" => op = "recvFrom"
  /\ poll <=> at \in {"readable", "polled"}
  /\ ret = "go" <=> at \in {"resolved", "closed", "unreadable", "loop"}
  /\ poll => ret \in {"none", "WAIT"}
  /\ op = "none" => ret = "none" /\ failed = FALSE /\ param = -1

Locals ==
  /\ op \notin {"none", "socket"} => arg.socket \in Slots
  /\ op \in {"recv", "recvFrom", "sendTo"} => arg.len > 0
  /\ Reading => arg.blk > 0 /\ arg.blk <= arg.len
  /\ op = "recvFrom" => arg.cnt = 0
  /\ at = "socr" /\ ret = "OK" => handle = 0
  /\ OnZero => arg.socket = 0 /\ sockets[0].handle = 0
  /\ inbox # << >> => /\ at \in DOMAIN CommandAt /\ inbox[1].kind = CommandAt[at]
                      /\ OnZero => inbox[1].handle = 0
                      /\ Reading => inbox[1].n = arg.blk

(* The callback of socketSocket makes every handle 0, in slot 0.           *)
SlotZero ==
  /\ sockets[0].handle \in {0, SOCKET_ERROR}
  /\ \A s \in Slots \ {0} : sockets[s].handle = SOCKET_ERROR
  /\ \A s \in Slots : sockets[s].handle = SOCKET_ERROR =>
       sockets[s].pending = 0 /\ sockets[s].connected = FALSE

Failures ==
  /\ failed /\ op \notin {"free", "sendTo", "send"} => ret = "ERROR"
  /\ FailureReported

IndInv ==
  /\ Prompt
  /\ DriverTypes /\ WireTypes /\ ModemTypes
  /\ Answers /\ Places /\ Locals /\ SlotZero /\ Failures

(* Two lines of the same content, whatever they answer. *)
Alike(q, r) ==
  /\ Len(q) = Len(r)
  /\ \A i \in 1 .. Len(r) : q[i].kind = r[i].kind /\ q[i].handle = r[i].handle /\ q[i].n = r[i].n

----------------------------------------------------------------------------
(* The wire. *)

(* Slot 0 exists. *)
LEMMA ZeroIsSlot == 0 \in Slots /\ 0 \in Handles /\ SOCKET_ERROR \notin Slots
  BY SocketsAssumption DEF Slots, SOCKET_ERROR

(* The lines that came before a command differ only in what they answer.   *)
LEMMA OldLines ==
  ASSUME NEW q \in Seq(Lined)
  PROVE  Old(q) \in Seq(Lined) /\ Alike(Old(q), q)
  <1>1. DOMAIN q = 1 .. Len(q) /\ Len(q) \in Nat /\ \A i \in 1 .. Len(q) : q[i] \in Lined
    OBVIOUS
  <1>2. \A x \in Lined : /\ [x EXCEPT !.fresh = FALSE] \in Lined
                         /\ [x EXCEPT !.fresh = FALSE].kind = x.kind
                         /\ [x EXCEPT !.fresh = FALSE].handle = x.handle
                         /\ [x EXCEPT !.fresh = FALSE].n = x.n
    BY DEF Lined
  <1>3. Old(q) \in [1 .. Len(q) -> Lined]
    BY <1>1, <1>2 DEF Old
  <1>4. Old(q) \in Seq(Lined) /\ Len(Old(q)) = Len(q)
    BY <1>1, <1>3
  <1> QED
    BY <1>1, <1>2, <1>4 DEF Old, Alike

(* No commands are made old by the next. *)
LEMMA OldNone == Old(<< >>) = << >>
  BY DEF Old

(* While nobody asks, nothing is under way and no final line is there.     *)
LEMMA Quiet ==
  ASSUME Answers, ~Asking
  PROVE  inbox = << >> /\ \A i \in 1 .. Len(line) : line[i].kind \notin Final
  BY DEF Answers

(* A command goes out alone, and nothing on the line answers it yet.       *)
LEMMA CommandKeeps ==
  ASSUME WireTypes, Answers, ~Asking, dataMode' = dataMode,
         NEW k \in Requests, NEW h \in AnyHandle, NEW n \in Nat,
         NEW point \in Points \ {"none"}, Command(k, h, n, point)
  PROVE  /\ at' = point /\ poll' = FALSE /\ ret' = "none" /\ own' = TRUE /\ failed' = failed
         /\ WireTypes' /\ Answers' /\ Alike(line', line)
         /\ inbox' # << >> /\ inbox'[1].kind = k /\ inbox'[1].handle = h /\ inbox'[1].n = n
  <1> DEFINE c == [kind |-> k, handle |-> h, n |-> n, fresh |-> TRUE]
  <1>1. inbox = << >> /\ \A i \in 1 .. Len(line) : line[i].kind \notin Final
    BY Quiet
  <1>2. c \in Cmds
    BY DEF Cmds
  <1>3. inbox' = <<c>>
    <2>1. inbox' = Append(<< >>, c)
      BY <1>1, OldNone DEF Command
    <2> HIDE DEF c
    <2> QED
      BY <2>1
  <1>4. inbox' \in Seq(Cmds) /\ Len(inbox') = 1 /\ inbox'[1] = c /\ inbox' # << >>
    BY <1>2, <1>3
  <1>5. line' \in Seq(Lined) /\ Alike(line', line)
    BY OldLines DEF Command, WireTypes
  <1>6. /\ \A i \in 1 .. Len(line') : line'[i].kind \notin Final
        /\ \A i \in 1 .. Len(line') :
             line'[i].kind \in About => line'[i].handle \in Handles
    BY <1>1, <1>5 DEF Alike, WireTypes
  <1>7. at' = point /\ poll' = FALSE /\ ret' = "none" /\ own' = TRUE /\ failed' = failed
    BY DEF Command
  <1>8. Asking' /\ c.fresh = TRUE
    BY <1>7 DEF Asking
  <1> QED
    BY <1>4, <1>5, <1>6, <1>7, <1>8 DEF Answers, WireTypes, Final

(* Looking for unsolicited lines meets no answer. *)
LEMMA PollKeeps ==
  ASSUME WireTypes, Answers, ~Asking, dataMode' = dataMode,
         NEW point \in Points \ {"none"}, Poll(point)
  PROVE  /\ at' = point /\ poll' = TRUE /\ ret' = "none" /\ own' = TRUE /\ failed' = failed
         /\ WireTypes' /\ Answers' /\ Alike(line', line) /\ inbox' = << >>
  <1>1. inbox = << >> /\ \A i \in 1 .. Len(line) : line[i].kind \notin Final
    BY Quiet
  <1>2. line' \in Seq(Lined) /\ Alike(line', line) /\ inbox' = << >>
    BY <1>1, OldLines, OldNone DEF Poll, WireTypes
  <1>3. /\ \A i \in 1 .. Len(line') : line'[i].kind \notin Final
        /\ \A i \in 1 .. Len(line') :
             line'[i].kind \in About => line'[i].handle \in Handles
    BY <1>1, <1>2 DEF Alike, WireTypes
  <1>4. at' = point /\ poll' = TRUE /\ ret' = "none" /\ own' = TRUE /\ failed' = failed
    BY DEF Poll
  <1> QED
    BY <1>2, <1>3, <1>4 DEF Answers, WireTypes, Final

(* What leaves the lines alone, and asks nothing, leaves them in order.    *)
LEMMA StillKeeps ==
  ASSUME WireTypes, Answers, ~Asking, UNCHANGED <<inbox, line, dataMode>>,
         own' = TRUE
  PROVE  /\ WireTypes' /\ Answers' /\ Alike(line', line) /\ inbox' = << >>
  <1>1. inbox = << >> /\ \A i \in 1 .. Len(line) : line[i].kind \notin Final
    BY Quiet
  <1> QED
    BY <1>1 DEF Answers, WireTypes, Alike

(* The least handle the modem has not given out. *)
LEMMA LeastNumber ==
  ASSUME NEW T, T \subseteq Nat, T # {}
  PROVE  \E x \in T : \A y \in T : x <= y
  <1> DEFINE R == {ss \in Nat \X Nat : ss[1] < ss[2]}
  <1>1. IsWellFoundedOn(R, Nat)
    BY NatLessThanWellFounded DEF OpToRel
  <1> HIDE DEF R
  <1>2. PICK x \in T : \A y \in T : ~(<<y, x>> \in R)
    BY <1>1, WFMin
  <1>3. \A y \in T : ~(y < x)
    BY <1>2 DEF R
  <1> QED
    BY <1>3

----------------------------------------------------------------------------
(* Calls. *)

(* Nobody waits before a call and once a wait is over. *)
LEMMA NotAsking == at = "none" \/ poll \/ ret # "none" => ~Asking
  BY DEF Asking

(* A call goes on. *)
LEMMA GoesOnInv ==
  ASSUME IndInv, UNCHANGED <<handle, result, modem, lost>>,
         sockets' \in [Slots -> Slot], SlotZero',
         op' \in Ops, op' # "none" => op' \in Calls, arg' \in Args,
         at' \in Points, poll' \in BOOLEAN, ret' \in {"none", "go"}, own' = TRUE,
         failed' = failed, failed => op' \in {"free", "sendTo"},
         expired' \in BOOLEAN, param' \in Int,
         WireTypes', Answers', Places', Locals'
  PROVE  IndInv'
  <1>1. DriverTypes' /\ ModemTypes'
    BY DEF IndInv, DriverTypes, ModemTypes, modem
  <1>2. Failures'
    <2>1. failed \in BOOLEAN
      BY DEF IndInv, DriverTypes
    <2> QED
      BY <2>1 DEF IndInv, Failures, FailureReported
  <1> QED
    BY <1>1, <1>2 DEF IndInv, Prompt

(* A call goes on, or begins, and leaves the slots alone. *)
LEMMA MovesInv ==
  ASSUME IndInv, UNCHANGED <<sockets, handle, result, modem, lost>>,
         op' \in Ops, op' # "none" => op' \in Calls, arg' \in Args,
         at' \in Points, poll' \in BOOLEAN, ret' \in {"none", "go"}, own' = TRUE,
         failed' = failed, failed => op' \in {"free", "sendTo"},
         expired' \in BOOLEAN, param' \in Int,
         WireTypes', Answers', Places', Locals'
  PROVE  IndInv'
  <1>1. sockets' \in [Slots -> Slot] /\ SlotZero'
    BY DEF IndInv, DriverTypes, SlotZero
  <1> QED
    BY <1>1, GoesOnInv

(* A call returns. *)
LEMMA ReturnInv ==
  ASSUME IndInv, ~Asking, at # "none", NEW v \in Int, Return(v),
         sockets' \in [Slots -> Slot], SlotZero', UNCHANGED <<modem, lost>>,
         failed /\ op \notin {"free", "sendTo", "send"} => v = Failure(op)
  PROVE  IndInv'
  <1>1. /\ op' = "none" /\ at' = "none" /\ poll' = FALSE /\ ret' = "none" /\ own' = TRUE
        /\ arg' = NoArg /\ failed' = FALSE
        /\ handle' = SOCKET_ERROR /\ param' = -1 /\ expired' = FALSE
        /\ result' = [op |-> op, value |-> v, failed |-> failed,
                      got |-> IF op = "recvFrom" THEN param ELSE -1]
        /\ UNCHANGED <<inbox, line>>
    BY DEF Return
  <1>2. WireTypes' /\ Answers' /\ inbox' = << >>
    BY <1>1, StillKeeps DEF IndInv, modem
  <1>3. NoArg \in Args
    BY DEF NoArg, Args
  <1>4. result' \in Results /\ result'.failed = failed /\ result'.op = op /\ result'.value = v
    <2>1. op \in Ops /\ failed \in BOOLEAN /\ param \in Int
      BY DEF IndInv, DriverTypes
    <2>2. (IF op = "recvFrom" THEN param ELSE -1) \in Int
      BY <2>1
    <2> QED
      BY <1>1, <2>1, <2>2 DEF Results
  <1>5. DriverTypes'
    <2>1. poll' \in BOOLEAN /\ own' \in BOOLEAN /\ failed' \in BOOLEAN /\ expired' \in BOOLEAN
      BY <1>1
    <2>2. op' \in Ops /\ op' = "none" /\ at' \in Points /\ ret' = "none"
      BY <1>1 DEF Ops, Points
    <2>3. handle' \in Int /\ param' \in Int
      BY <1>1 DEF SOCKET_ERROR
    <2>4. arg' \in Args
      BY <1>1, <1>3
    <2> QED
      BY <1>4, <2>1, <2>2, <2>3, <2>4 DEF DriverTypes
  <1>6. ModemTypes'
    BY DEF IndInv, ModemTypes, modem
  <1>7. Places'
    BY <1>1 DEF Places
  <1>8. Locals'
    BY <1>1, <1>2 DEF Locals, Reading, OnZero
  <1>9. Failures'
    <2>1. ~failed'
      BY <1>1
    <2>2. FailureReported'
      BY <1>4 DEF FailureReported, Failure
    <2> QED
      BY <2>1, <2>2 DEF Failures
  <1> QED
    BY <1>2, <1>5, <1>6, <1>7, <1>8, <1>9 DEF IndInv, Prompt

----------------------------------------------------------------------------
(* The calls begin. *)

(* Between calls nobody waits and nothing has failed. *)
LEMMA Between ==
  ASSUME IndInv, op = "none"
  PROVE  ~Asking /\ at = "none" /\ failed = FALSE
  BY NotAsking DEF IndInv, Places

(* A call that begins with a command: socketSocket, socketConnect with a    *)
(* name, socketClose of a connected socket, socketSendTo.                  *)
LEMMA StartCommandInv ==
  ASSUME IndInv, NEW f \in Ops \ {"none"}, NEW a \in Args, Start(f, a),
         NEW k \in Requests, NEW h \in AnyHandle, NEW n \in Nat,
         NEW point \in {"socr", "dns", "socl", "sost"},
         Command(k, h, n, point), UNCHANGED <<sockets, handle, param, expired, result, modem, lost>>,
         \/ f = "socket" /\ point = "socr"
         \/ f = "connect" /\ point = "dns" /\ a.socket \in Slots
         \/ f \in {"close", "free"} /\ point = "socl" /\ a.socket = 0 /\ sockets[0].handle = 0 /\ h = 0
         \/ f = "sendTo" /\ point = "sost" /\ a.socket \in Slots /\ a.len > 0,
         k = CommandAt[point]
  PROVE  IndInv'
  <1>1. op = "none" /\ f \in Calls /\ op' = f /\ arg' = a
    BY DEF Start
  <1>2. ~Asking /\ failed = FALSE
    BY <1>1, Between
  <1>3. point \in Points \ {"none"} /\ dataMode' = dataMode
    BY DEF Points, modem
  <1>4. /\ at' = point /\ poll' = FALSE /\ ret' = "none" /\ own' = TRUE /\ failed' = failed
        /\ WireTypes' /\ Answers'
        /\ inbox' # << >> /\ inbox'[1].kind = k /\ inbox'[1].handle = h /\ inbox'[1].n = n
    BY <1>2, <1>3, CommandKeeps DEF IndInv
  <1>5. Places'
    BY <1>1, <1>4 DEF Places
  <1>6. Locals'
    BY <1>1, <1>4, ZeroIsSlot DEF Locals, Reading, OnZero, CommandAt
  <1>7. expired' \in BOOLEAN /\ param' \in Int
    BY DEF IndInv, DriverTypes
  <1> QED
    BY <1>1, <1>2, <1>3, <1>4, <1>5, <1>6, <1>7, MovesInv

(* A call that begins without: socketConnect with an address, socketClose   *)
(* of a socket that is not connected, the receive functions.               *)
LEMMA StartGotoInv ==
  ASSUME IndInv, NEW f \in Ops \ {"none"}, NEW a \in Args, Start(f, a),
         NEW point \in {"resolved", "closed", "unreadable", "loop"},
         Goto(point), UNCHANGED <<sockets, handle, param, expired, result, modem, lost>>,
         a.socket \in Slots, f = "recvFrom" => a.cnt = 0,
         \/ f = "connect" /\ point = "resolved"
         \/ f \in {"close", "free"} /\ point = "closed"
         \/ f = "readable" /\ point = "unreadable"
         \/ f \in {"recv", "recvFrom"} /\ point = "loop" /\ a.len > 0
  PROVE  IndInv'
  <1>1. op = "none" /\ f \in Calls /\ op' = f /\ arg' = a
    BY DEF Start
  <1>2. ~Asking /\ failed = FALSE
    BY <1>1, Between
  <1>3. point \in Points /\ dataMode' = dataMode
    BY DEF Points, modem
  <1>4. /\ at' = point /\ poll' = FALSE /\ ret' = "go" /\ own' = TRUE /\ failed' = failed
        /\ UNCHANGED <<inbox, line>>
    BY DEF Goto
  <1>5. WireTypes' /\ Answers' /\ inbox' = << >>
    BY <1>2, <1>3, <1>4, StillKeeps DEF IndInv
  <1>6. Places'
    BY <1>1, <1>4 DEF Places
  <1>7. Locals'
    BY <1>1, <1>4, <1>5 DEF Locals, Reading, OnZero
  <1>8. expired' \in BOOLEAN /\ param' \in Int /\ poll' \in BOOLEAN
    BY <1>4 DEF IndInv, DriverTypes
  <1> QED
    BY <1>1, <1>2, <1>3, <1>4, <1>5, <1>6, <1>7, <1>8, MovesInv

(* A call whose only argument is the slot, and one that also has a length.  *)
LEMMA Argument ==
  /\ NoArg \in Args
  /\ \A s \in Slots : LET a == [NoArg EXCEPT !.socket = s]
                      IN a \in Args /\ a.socket = s /\ a.cnt = 0
  /\ \A s \in Slots, n \in 1 .. MaxLen :
       LET a == [NoArg EXCEPT !.socket = s, !.len = n]
       IN a \in Args /\ a.socket = s /\ a.len = n /\ a.len > 0 /\ a.cnt = 0
  <1>1. NoArg = [socket |-> SOCKET_ERROR, len |-> 0, cnt |-> 0, blk |-> 0]
    BY DEF NoArg
  <1>2. NoArg \in Args
    BY <1>1 DEF Args
  <1>3. ASSUME NEW s \in Slots
        PROVE  LET a == [NoArg EXCEPT !.socket = s]
               IN a \in Args /\ a.socket = s /\ a.cnt = 0
    BY <1>1 DEF Args
  <1>4. ASSUME NEW s \in Slots, NEW n \in 1 .. MaxLen
        PROVE  LET a == [NoArg EXCEPT !.socket = s, !.len = n]
               IN a \in Args /\ a.socket = s /\ a.len = n /\ a.len > 0 /\ a.cnt = 0
    <2>1. n \in Nat /\ n > 0
      BY SocketsAssumption
    <2>2. \A r \in Args : r.cnt = 0 =>
            LET a == [r EXCEPT !.socket = s, !.len = n]
            IN a \in Args /\ a.socket = s /\ a.len = n /\ a.cnt = 0
      BY <2>1 DEF Args
    <2>3. NoArg.cnt = 0
      BY <1>1
    <2> QED
      BY <1>2, <2>1, <2>2, <2>3
  <1> QED
    BY <1>2, <1>3, <1>4

(* socketReadable looks for unsolicited lines, if the socket is connected.  *)
LEMMA ReadableInv ==
  ASSUME IndInv, NEW s \in Slots, SocketReadable(s)
  PROVE  IndInv'
  <1>1. PICK a \in Args : a = [NoArg EXCEPT !.socket = s]
    BY Argument
  <1>2. a.socket \in Slots /\ a.cnt = 0
    BY <1>1, Argument
  <1>3. Start("readable", a) /\ UNCHANGED <<sockets, handle, param, expired, result, modem, lost>>
    BY <1>1 DEF SocketReadable
  <1>4. op = "none" /\ "readable" \in Calls /\ op' = "readable" /\ arg' = a
    BY <1>3 DEF Start
  <1>5. ~Asking /\ failed = FALSE
    BY <1>4, Between
  <1>6. CASE Goto("unreadable")
    <2>1. PICK f \in Ops \ {"none"}, point \in {"resolved", "closed", "unreadable", "loop"} :
            f = "readable" /\ point = "unreadable"
      BY DEF Ops
    <2>2. Start(f, a) /\ Goto(point)
      BY <1>3, <1>6, <2>1
    <2> QED
      BY <1>2, <1>3, <2>1, <2>2, StartGotoInv
  <1>7. CASE Poll("readable")
    <2>1. /\ at' = "readable" /\ poll' = TRUE /\ ret' = "none" /\ own' = TRUE
          /\ failed' = failed /\ WireTypes' /\ Answers' /\ inbox' = << >>
      BY <1>3, <1>5, <1>7, PollKeeps DEF IndInv, modem, Points
    <2>2. Places'
      BY <1>4, <2>1 DEF Places
    <2>3. Locals'
      BY <1>2, <1>4, <2>1 DEF Locals, Reading, OnZero
    <2>4. expired' \in BOOLEAN /\ param' \in Int /\ at' \in Points /\ op' \in Ops
      BY <1>3, <1>4, <2>1 DEF IndInv, DriverTypes, Points, Ops
    <2> QED
      BY <1>3, <1>4, <1>5, <2>1, <2>2, <2>3, <2>4, MovesInv
  <1> QED
    BY <1>6, <1>7 DEF SocketReadable

(* socketSocket. *)
LEMMA SocketInv ==
  ASSUME IndInv, SocketSocket
  PROVE  IndInv'
  <1>1. Start("socket", NoArg) /\ Command("NSOCR", SOCKET_ERROR, 0, "socr")
        /\ UNCHANGED <<sockets, handle, param, expired, result, modem, lost>>
    BY DEF SocketSocket
  <1>2. PICK f \in Ops \ {"none"} : f = "socket"
    BY DEF Ops
  <1>3. PICK k \in Requests : k = "NSOCR"
    BY DEF Requests
  <1>4. PICK point \in {"socr", "dns", "socl", "sost"} : point = "socr"
    OBVIOUS
  <1>5. PICK n \in Nat : n = 0
    OBVIOUS
  <1>6. NoArg \in Args /\ SOCKET_ERROR \in AnyHandle /\ k = CommandAt[point]
    BY <1>3, <1>4, Argument DEF AnyHandle, CommandAt
  <1>7. Start(f, NoArg) /\ Command(k, SOCKET_ERROR, n, point)
    BY <1>1, <1>2, <1>3, <1>4, <1>5
  <1> QED
    BY <1>1, <1>2, <1>4, <1>6, <1>7, StartCommandInv

(* socketConnect. *)
LEMMA ConnectInv ==
  ASSUME IndInv, NEW s \in Slots, NEW name \in BOOLEAN, SocketConnect(s, name)
  PROVE  IndInv'
  <1> DEFINE a == [NoArg EXCEPT !.socket = s]
  <1>1. Start("connect", a) /\ UNCHANGED <<sockets, handle, param, expired, result, modem, lost>>
    BY DEF SocketConnect
  <1>2. PICK f \in Ops \ {"none"} : f = "connect"
    BY DEF Ops
  <1>3. a \in Args /\ a.socket \in Slots
    BY Argument
  <1>4. Start(f, a)
    BY <1>1, <1>2
  <1>5. Command("UDNSRN", SOCKET_ERROR, 0, "dns") \/ Goto("resolved")
    BY DEF SocketConnect
  <1> HIDE DEF a
  <1>6. CASE Command("UDNSRN", SOCKET_ERROR, 0, "dns")
    <2>1. PICK k \in Requests : k = "UDNSRN"
      BY DEF Requests
    <2>2. PICK point \in {"socr", "dns", "socl", "sost"} : point = "dns"
      OBVIOUS
    <2>3. PICK n \in Nat : n = 0
      OBVIOUS
    <2>4. SOCKET_ERROR \in AnyHandle /\ k = CommandAt[point]
      BY <2>1, <2>2 DEF AnyHandle, CommandAt
    <2>5. Command(k, SOCKET_ERROR, n, point)
      BY <1>6, <2>1, <2>2, <2>3
    <2> QED
      BY <1>1, <1>2, <1>3, <1>4, <2>2, <2>4, <2>5, StartCommandInv
  <1>7. CASE Goto("resolved")
    <2>1. PICK point \in {"resolved", "closed", "loop"} : point = "resolved"
      OBVIOUS
    <2>2. Goto(point)
      BY <1>7, <2>1
    <2> QED
      BY <1>1, <1>2, <1>3, <1>4, <2>1, <2>2, StartGotoInv
  <1> QED
    BY <1>5, <1>6, <1>7

(* socketSetBlocking. *)
LEMMA SetBlockingInv ==
  ASSUME IndInv, NEW s \in Slots, NEW b \in BOOLEAN, SocketSetBlocking(s, b)
  PROVE  IndInv'
  <1>1. /\ sockets' = [sockets EXCEPT ![s].blocking = b]
        /\ UNCHANGED <<op, arg, wait, expired, result, inbox, line, modem, lost>>
    BY DEF SocketSetBlocking
  <1>2. [sockets[s] EXCEPT !.blocking = b] \in Slot
    BY DEF IndInv, DriverTypes, Slot
  <1>3. /\ sockets' \in [Slots -> Slot]
        /\ \A q \in Slots : /\ sockets'[q].handle = sockets[q].handle
                            /\ sockets'[q].pending = sockets[q].pending
                            /\ sockets'[q].connected = sockets[q].connected
    BY <1>1, <1>2 DEF IndInv, DriverTypes, Slot
  <1>4. SlotZero'
    BY <1>3, ZeroIsSlot DEF IndInv, SlotZero
  <1>5. DriverTypes' /\ WireTypes' /\ ModemTypes'
    BY <1>1, <1>3 DEF IndInv, DriverTypes, WireTypes, ModemTypes, wait, modem
  <1>6. Answers' /\ Places' /\ Failures'
    BY <1>1 DEF IndInv, Answers, Asking, Places, Failures, FailureReported, wait, modem
  <1>7. Locals'
    BY <1>1, <1>3, ZeroIsSlot DEF IndInv, Locals, Reading, OnZero, wait
  <1> QED
    BY <1>4, <1>5, <1>6, <1>7 DEF IndInv, Prompt

(* socketClose, alone or in socketFree: only slot 0 can be connected.      *)
LEMMA CloseInv ==
  ASSUME IndInv, NEW f \in {"close", "free"}, NEW s \in Slots, SocketClose(f, s)
  PROVE  IndInv'
  <1> DEFINE a == [NoArg EXCEPT !.socket = s]
  <1>1. Start(f, a) /\ UNCHANGED <<sockets, handle, param, expired, result, modem, lost>>
    BY DEF SocketClose
  <1>2. f \in Ops \ {"none"}
    BY DEF Ops
  <1>3. a \in Args /\ a.socket = s
    BY Argument
  <1>4. \/ IsSocket(s) /\ Command("NSOCL", sockets[s].handle, 0, "socl")
        \/ Goto("closed")
    BY DEF SocketClose
  <1> HIDE DEF a
  <1>5. CASE IsSocket(s) /\ Command("NSOCL", sockets[s].handle, 0, "socl")
    <2>1. PICK k \in Requests : k = "NSOCL"
      BY DEF Requests
    <2>2. PICK point \in {"socr", "dns", "socl", "sost"} : point = "socl"
      OBVIOUS
    <2>3. PICK n \in Nat : n = 0
      OBVIOUS
    <2>4. s = 0 /\ sockets[0].handle = 0
      BY <1>5 DEF IndInv, SlotZero, IsSocket
    <2>5. n \in AnyHandle /\ k = CommandAt[point]
      BY <2>1, <2>2, <2>3, ZeroIsSlot DEF AnyHandle, CommandAt
    <2>6. Command(k, n, n, point)
      BY <1>5, <2>1, <2>2, <2>3, <2>4
    <2> QED
      BY <1>1, <1>2, <1>3, <2>2, <2>3, <2>4, <2>5, <2>6, StartCommandInv
  <1>6. CASE Goto("closed")
    <2>1. PICK point \in {"resolved", "closed", "loop"} : point = "closed"
      OBVIOUS
    <2>2. Goto(point)
      BY <1>6, <2>1
    <2> QED
      BY <1>1, <1>2, <1>3, <2>1, <2>2, StartGotoInv
  <1> QED
    BY <1>4, <1>5, <1>6

(* socketSendTo. *)
LEMMA SendToInv ==
  ASSUME IndInv, NEW s \in Slots, NEW n \in 1 .. MaxLen, SocketSendTo(s, n)
  PROVE  IndInv'
  <1> DEFINE a == [NoArg EXCEPT !.socket = s, !.len = n]
  <1>1. Start("sendTo", a) /\ Command("NSOST", 0, 1, "sost")
        /\ UNCHANGED <<sockets, handle, param, expired, result, modem, lost>>
    BY DEF SocketSendTo
  <1>2. PICK f \in Ops \ {"none"} : f = "sendTo"
    BY DEF Ops
  <1>3. a \in Args /\ a.socket \in Slots /\ a.len > 0
    BY Argument
  <1>4. PICK k \in Requests : k = "NSOST"
    BY DEF Requests
  <1>5. PICK point \in {"socr", "dns", "socl", "sost"} : point = "sost"
    OBVIOUS
  <1>6. PICK h \in AnyHandle, one \in Nat : h = 0 /\ one = 1
    BY ZeroIsSlot DEF AnyHandle
  <1>7. k = CommandAt[point]
    BY <1>4, <1>5 DEF CommandAt
  <1>8. Start(f, a) /\ Command(k, h, one, point)
    BY <1>1, <1>2, <1>4, <1>5, <1>6
  <1> HIDE DEF a
  <1> QED
    BY <1>1, <1>2, <1>3, <1>5, <1>7, <1>8, StartCommandInv

(* socketRecv and socketRecvFrom. *)
LEMMA RecvInv ==
  ASSUME IndInv, NEW f \in {"recv", "recvFrom"}, NEW s \in Slots, NEW n \in 1 .. MaxLen,
         Recv(f, s, n)
  PROVE  IndInv'
  <1> DEFINE a == [NoArg EXCEPT !.socket = s, !.len = n]
  <1>1. Start(f, a) /\ UNCHANGED <<sockets, handle, param, expired, result, modem, lost>>
    BY DEF Recv
  <1>2. f \in Ops \ {"none"}
    BY DEF Ops
  <1>3. a \in Args /\ a.socket \in Slots /\ a.len > 0 /\ a.cnt = 0
    BY Argument
  <1>4. PICK point \in {"resolved", "closed", "loop"} : point = "loop"
    OBVIOUS
  <1>5. Goto(point)
    BY <1>4 DEF Recv
  <1> HIDE DEF a
  <1> QED
    BY <1>1, <1>2, <1>3, <1>4, <1>5, StartGotoInv

(* Every call. *)
LEMMA CallInv ==
  ASSUME IndInv, Call
  PROVE  IndInv'
  <1>1. ASSUME NEW s, NEW n, SocketSend(s, n)
        PROVE  FALSE
    BY <1>1 DEF SocketSend, Start, IndInv, Prompt
  <1> QED
    BY <1>1, SocketInv, ConnectInv, SetBlockingInv, CloseInv, SendToInv, RecvInv, ReadableInv
    DEF Call

----------------------------------------------------------------------------
(* What becomes of a slot. *)

(* Slot 0 gets the handle 0, or a slot none. *)
LEMMA OneSlot ==
  ASSUME IndInv, NEW s \in Slots, NEW r \in Slot, sockets' = [sockets EXCEPT ![s] = r],
         r.handle = SOCKET_ERROR \/ (s = 0 /\ r.handle = 0),
         r.handle = SOCKET_ERROR => r.pending = 0 /\ r.connected = FALSE
  PROVE  /\ sockets' \in [Slots -> Slot] /\ SlotZero'
         /\ sockets'[s] = r /\ \A q \in Slots \ {s} : sockets'[q] = sockets[q]
  <1>1. /\ sockets' \in [Slots -> Slot]
        /\ sockets'[s] = r /\ \A q \in Slots \ {s} : sockets'[q] = sockets[q]
    BY DEF IndInv, DriverTypes
  <1>2. SlotZero'
    BY <1>1, ZeroIsSlot DEF IndInv, SlotZero
  <1> QED
    BY <1>1, <1>2

(* A slot that has a handle is slot 0, and the handle is 0. *)
LEMMA HasHandle ==
  ASSUME IndInv, NEW s \in Slots, sockets[s].handle # SOCKET_ERROR
  PROVE  s = 0 /\ sockets[0].handle = 0
  BY DEF IndInv, SlotZero

(* Connecting or closing slot 0. *)
LEMMA SetConnected ==
  ASSUME IndInv, sockets[0].handle = 0, NEW b \in BOOLEAN,
         sockets' = [sockets EXCEPT ![0].connected = b]
  PROVE  /\ sockets' \in [Slots -> Slot] /\ SlotZero'
         /\ sockets'[0].handle = 0 /\ sockets'[0].connected = b
         /\ sockets'[0].pending = sockets[0].pending
  <1> DEFINE r == [sockets[0] EXCEPT !.connected = b]
  <1>1. sockets[0] \in Slot
    BY ZeroIsSlot DEF IndInv, DriverTypes
  <1>2. r \in Slot /\ r.handle = 0 /\ r.connected = b /\ r.pending = sockets[0].pending
    BY <1>1 DEF Slot
  <1>3. sockets' = [sockets EXCEPT ![0] = r]
    OBVIOUS
  <1> HIDE DEF r
  <1>4. r.handle # SOCKET_ERROR
    BY <1>2 DEF SOCKET_ERROR
  <1> QED
    BY <1>2, <1>3, <1>4, OneSlot, ZeroIsSlot

(* Counting what is pending in slot 0. *)
LEMMA SetPending ==
  ASSUME IndInv, sockets[0].handle = 0, NEW n \in Int,
         sockets' = [sockets EXCEPT ![0].pending = n]
  PROVE  /\ sockets' \in [Slots -> Slot] /\ SlotZero'
         /\ sockets'[0].handle = 0 /\ sockets'[0].pending = n
         /\ sockets'[0].connected = sockets[0].connected
  <1> DEFINE r == [sockets[0] EXCEPT !.pending = n]
  <1>1. sockets[0] \in Slot
    BY ZeroIsSlot DEF IndInv, DriverTypes
  <1>2. r \in Slot /\ r.handle = 0 /\ r.pending = n /\ r.connected = sockets[0].connected
    BY <1>1 DEF Slot
  <1>3. sockets' = [sockets EXCEPT ![0] = r]
    OBVIOUS
  <1> HIDE DEF r
  <1>4. r.handle # SOCKET_ERROR
    BY <1>2 DEF SOCKET_ERROR
  <1> QED
    BY <1>2, <1>3, <1>4, OneSlot, ZeroIsSlot

(* _findSocket finds slot 0, for handle 0, or nothing. *)
LEMMA Found ==
  ASSUME IndInv, NEW h \in Handles
  PROVE  FindSocket(h) = IF h = 0 /\ sockets[0].handle = 0 THEN 0 ELSE SOCKET_ERROR
  <1>1. h # SOCKET_ERROR
    BY SocketsAssumption DEF SOCKET_ERROR
  <1>2. CASE h = 0 /\ sockets[0].handle = 0
    <2>1. \A s \in Slots : sockets[s].handle = h <=> s = 0
      BY <1>1, <1>2, HasHandle, ZeroIsSlot
    <2>2. \A t \in Slots : t < 0 => sockets[t].handle # h
      BY <2>1 DEF Slots
    <2>3. (CHOOSE s \in Slots : /\ sockets[s].handle = h
                                /\ \A t \in Slots : t < s => sockets[t].handle # h) = 0
      BY <2>1, <2>2, ZeroIsSlot
    <2> QED
      BY <1>2, <2>1, <2>3, ZeroIsSlot DEF FindSocket
  <1>3. CASE ~(h = 0 /\ sockets[0].handle = 0)
    <2>1. \A s \in Slots : sockets[s].handle # h
      BY <1>1, <1>3, HasHandle
    <2> QED
      BY <1>3, <2>1 DEF FindSocket
  <1> QED
    BY <1>2, <1>3

(* An unsolicited line changes slot 0 or nothing. *)
LEMMA UnsolicitedIs ==
  ASSUME IndInv, NEW l \in Lined, l.kind \in About => l.handle \in Handles
  PROVE  \/ /\ l.kind \in Announcing /\ l.handle = 0 /\ sockets[0].handle = 0
            /\ Unsolicited(l) = [sockets EXCEPT ![0].pending = l.n]
         \/ /\ l.kind = "UUSOCL" /\ l.handle = 0 /\ sockets[0].handle = 0
            /\ Unsolicited(l) = [sockets EXCEPT ![0].connected = FALSE]
         \/ /\ ~(/\ l.kind \in About /\ l.handle = 0
                 /\ sockets[0].handle = 0)
            /\ Unsolicited(l) = sockets
  <1>1. CASE l.kind \notin About
    BY <1>1 DEF Unsolicited, About
  <1>2. CASE l.kind \in About /\ ~(l.handle = 0 /\ sockets[0].handle = 0)
    <2>1. FindSocket(l.handle) = SOCKET_ERROR
      BY <1>2, Found
    <2> QED
      BY <1>2, <2>1 DEF Unsolicited
  <1>3. CASE l.kind \in About /\ l.handle = 0 /\ sockets[0].handle = 0
    <2>1. FindSocket(l.handle) = 0 /\ 0 # SOCKET_ERROR
      BY <1>3, Found DEF SOCKET_ERROR
    <2> QED
      BY <1>3, <2>1 DEF Unsolicited, About, Announcing
  <1> QED
    BY <1>1, <1>2, <1>3

(* It leaves the handles alone. *)
LEMMA UnsolicitedKeeps ==
  ASSUME IndInv, NEW l \in Lined, l.kind \in About => l.handle \in Handles,
         sockets' = Unsolicited(l)
  PROVE  /\ sockets' \in [Slots -> Slot] /\ SlotZero'
         /\ sockets'[0].handle = sockets[0].handle
  <1>1. CASE Unsolicited(l) = [sockets EXCEPT ![0].pending = l.n] /\ sockets[0].handle = 0
    <2>1. l.n \in Int
      BY DEF Lined
    <2> QED
      BY <1>1, <2>1, SetPending
  <1>2. CASE Unsolicited(l) = [sockets EXCEPT ![0].connected = FALSE] /\ sockets[0].handle = 0
    BY <1>2, SetConnected
  <1>3. CASE Unsolicited(l) = sockets
    BY <1>3 DEF IndInv, DriverTypes, SlotZero
  <1> QED
    BY <1>1, <1>2, <1>3, UnsolicitedIs

----------------------------------------------------------------------------
(* The wait. *)

(* The wait takes a line. *)
LEMMA WaitLineInv ==
  ASSUME IndInv, WaitLine
  PROVE  IndInv'
  <1> DEFINE l == Head(line)
  <1>1. /\ at # "none" /\ ret = "none" /\ line # << >>
        /\ line' = Tail(line) /\ sockets' = Unsolicited(l)
        /\ handle' = CbUSOCR(l)
        /\ param' = CASE at = "dns" -> CbUDNSRN(l) [] at = "sord" -> CbUSORD(l)
                      [] OTHER -> CbUSORF(l)
        /\ ret' = IF l.kind \in Final THEN l.kind ELSE IF poll THEN "WAIT" ELSE "none"
        /\ own' = (l.kind \in Final => l.fresh)
        /\ failed' = (failed \/ l.kind = "ERROR")
        /\ UNCHANGED <<op, arg, at, poll, expired, result, inbox, modem, lost>>
    BY DEF WaitLine
  <1>2. /\ line' \in Seq(Lined) /\ Len(line) \in Nat /\ Len(line) > 0
        /\ Len(line') = Len(line) - 1
        /\ \A i \in 1 .. Len(line') : line'[i] = line[i + 1] /\ i + 1 \in 1 .. Len(line)
        /\ l = line[1] /\ 1 \in 1 .. Len(line) /\ l \in Lined
    BY <1>1, HeadTailProperties DEF IndInv, WireTypes
  <1>3. l.kind \in About => l.handle \in Handles
    BY <1>2 DEF IndInv, WireTypes
  <1>4. /\ sockets' \in [Slots -> Slot] /\ SlotZero'
        /\ sockets'[0].handle = sockets[0].handle
    BY <1>1, <1>2, <1>3, UnsolicitedKeeps
  <1>5. l.kind \in Replies /\ l.n \in Int /\ l.fresh \in BOOLEAN
    BY <1>2 DEF Lined
  <1>6. /\ l.kind \in Final => ~poll /\ inbox = << >> /\ l.fresh = TRUE
                               /\ l.kind \in {"OK", "ERROR"}
                               /\ \A i \in 1 .. Len(line') : line'[i].kind \notin Final
        /\ poll \/ inbox # << >> => \A i \in 1 .. Len(line') : line'[i].kind \notin Final
    <2>1. Answers
      BY DEF IndInv
    <2>2. CASE poll
      <3>1. \A i \in 1 .. Len(line) : line[i].kind \notin Final
        BY <2>1, <2>2 DEF Answers, Asking
      <3> QED
        BY <1>2, <2>2, <3>1
    <2>3. CASE inbox # << >>
      <3>1. \A i \in 1 .. Len(line) : line[i].kind \notin Final
        BY <2>1, <2>3 DEF Answers
      <3> QED
        BY <1>2, <3>1
    <2>4. CASE ~poll /\ inbox = << >> /\ l.kind \in Final
      <3>1. l.fresh = TRUE /\ \A j \in 1 .. Len(line) : line[j].kind \in Final => j = 1
        BY <1>2, <2>1, <2>4 DEF Answers
      <3>2. \A i \in 1 .. Len(line') : i + 1 # 1
        OBVIOUS
      <3> QED
        BY <1>2, <1>5, <2>4, <3>1, <3>2 DEF Replies, Final
    <2> QED
      BY <2>2, <2>3, <2>4
  <1> HIDE DEF l
  <1>7. ret' \in {"OK", "ERROR", "none", "WAIT"} /\ own' \in BOOLEAN /\ failed' \in BOOLEAN
    BY <1>1, <1>6
  <1>8. handle' \in Int /\ param' \in Int
    <2>1. handle \in Int /\ param \in Int
      BY DEF IndInv, DriverTypes
    <2> QED
      BY <1>1, <1>5, <2>1 DEF CbUSOCR, CbUSORF, CbUSORD, CbUDNSRN
  <1>9. DriverTypes' /\ ModemTypes'
    BY <1>1, <1>4, <1>7, <1>8 DEF IndInv, DriverTypes, ModemTypes, modem
  <1>10. WireTypes'
    BY <1>1, <1>2 DEF IndInv, WireTypes
  <1>11. Answers'
    <2>1. Answers /\ dataMode' = dataMode
      BY <1>1 DEF IndInv, modem
    <2>2. inbox' = << >> \/ (Len(inbox') = 1 /\ Asking' /\ inbox'[1].fresh = TRUE)
      BY <1>1, <1>6, <2>1 DEF Answers, Asking
    <2>3. ~Asking' \/ inbox' # << >> => \A i \in 1 .. Len(line') : line'[i].kind \notin Final
      BY <1>1, <1>6 DEF Asking
    <2>4. ASSUME NEW i \in 1 .. Len(line'), line'[i].kind \in Final
          PROVE  /\ line'[i].fresh = TRUE
                 /\ \A j \in 1 .. Len(line') : line'[j].kind \in Final => j = i
      <3>1. line[i + 1].fresh = TRUE
            /\ \A j \in 1 .. Len(line) : line[j].kind \in Final => j = i + 1
        BY <1>2, <2>1, <2>4 DEF Answers
      <3>2. ASSUME NEW j \in 1 .. Len(line'), line'[j].kind \in Final
            PROVE  j = i
        <4>1. j + 1 = i + 1
          BY <1>2, <3>1, <3>2
        <4> QED
          BY <4>1
      <3> QED
        BY <1>2, <3>1, <3>2
    <2>5. ret' \in Final => own' = TRUE
      BY <1>1, <1>6 DEF Final
    <2> QED
      BY <2>1, <2>2, <2>3, <2>4, <2>5 DEF Answers
  <1>12. Places'
    <2>1. poll => ret' \in {"none", "WAIT"}
      BY <1>1, <1>6
    <2>2. Places /\ op # "none"
      BY <1>1 DEF IndInv, Places
    <2> QED
      BY <1>1, <1>7, <2>1, <2>2 DEF Places
  <1>13. Locals'
    <2>1. at = "socr" /\ ret' = "OK" => handle' = 0
      BY <1>1 DEF CbUSOCR
    <2> QED
      BY <1>1, <1>4, <2>1 DEF IndInv, Locals, Reading, OnZero
  <1>14. Failures'
    <2>1. failed /\ op \notin {"free", "sendTo", "send"} => FALSE
      BY <1>1 DEF IndInv, Failures
    <2>2. failed' /\ op' \notin {"free", "sendTo", "send"} => ret' = "ERROR"
      BY <1>1, <2>1 DEF Final
    <2> QED
      BY <1>1, <2>2 DEF IndInv, Failures, FailureReported
  <1> QED
    BY <1>4, <1>9, <1>10, <1>11, <1>12, <1>13, <1>14 DEF IndInv, Prompt

(* The wait ends without an answer: there is none to come. *)
LEMMA WaitTimeoutInv ==
  ASSUME IndInv, WaitTimeout
  PROVE  IndInv'
  <1>1. /\ at # "none" /\ ret = "none" /\ line = << >>
        /\ poll \/ LateAnswers \/ inbox = << >>
        /\ ret' = "WAIT"
        /\ UNCHANGED <<sockets, op, arg, at, poll, failed, own, handle, param, cut,
                       expired, result, inbox, line, modem, lost>>
    BY DEF WaitTimeout
  <1>2. inbox = << >>
    BY <1>1 DEF IndInv, Prompt, Answers, Asking
  <1>3. DriverTypes' /\ WireTypes' /\ ModemTypes' /\ SlotZero'
    BY <1>1 DEF IndInv, DriverTypes, WireTypes, ModemTypes, SlotZero, modem
  <1>4. Answers'
    BY <1>1, <1>2 DEF IndInv, Answers, Asking, Final, modem
  <1>5. Places' /\ Locals' /\ Failures'
    BY <1>1 DEF IndInv, Places, Locals, Reading, OnZero, Failures, FailureReported
  <1> QED
    BY <1>3, <1>4, <1>5 DEF IndInv, Prompt

----------------------------------------------------------------------------
(* The calls go on. *)

(* A call returns and leaves the slots alone. *)
LEMMA ReturnSame ==
  ASSUME IndInv, ~Asking, at # "none", NEW v \in Int, Return(v),
         UNCHANGED <<sockets, modem, lost>>,
         failed /\ op \notin {"free", "sendTo", "send"} => v = Failure(op)
  PROVE  IndInv'
  <1>1. sockets' \in [Slots -> Slot] /\ SlotZero'
    BY DEF IndInv, DriverTypes, SlotZero
  <1> QED
    BY <1>1, ReturnInv

(* What a call has met it knows: only an ERROR fails it. *)
LEMMA NotFailed ==
  ASSUME IndInv, ret # "ERROR"
  PROVE  failed => op \in {"free", "sendTo"}
  BY DEF IndInv, Failures, DriverTypes, Ops

(* socketSocket: the handle is 0. *)
LEMMA SocketDoneInv ==
  ASSUME IndInv, SocketSocketDone
  PROVE  IndInv'
  <1>1. at = "socr" /\ ret # "none" /\ UNCHANGED <<modem, lost>> /\ at # "none" /\ op = "socket"
    BY DEF SocketSocketDone, IndInv, Places
  <1>2. ~Asking
    BY <1>1, NotAsking
  <1>3. PICK zero \in Int : zero = 0
    OBVIOUS
  <1>4. CASE /\ ret = "OK"
             /\ sockets' = [sockets EXCEPT ![0] = [FreeSlot EXCEPT !.handle = handle]]
             /\ Return(0)
    <2> DEFINE r == [FreeSlot EXCEPT !.handle = handle]
    <2>1. handle = 0
      BY <1>1, <1>4 DEF IndInv, Locals
    <2>2. FreeSlot \in Slot /\ handle \in AnyHandle
      BY <2>1, ZeroIsSlot DEF FreeSlot, Slot, AnyHandle
    <2>3. r \in Slot /\ r.handle = 0
      BY <2>1, <2>2 DEF Slot
    <2>4. r.handle # SOCKET_ERROR
      BY <2>3 DEF SOCKET_ERROR
    <2>5. sockets' = [sockets EXCEPT ![0] = r]
      BY <1>4
    <2> HIDE DEF r
    <2>6. sockets' \in [Slots -> Slot] /\ SlotZero'
      BY <2>3, <2>4, <2>5, OneSlot, ZeroIsSlot
    <2>7. Return(zero)
      BY <1>3, <1>4
    <2>8. ~failed
      BY <1>1, <1>4, NotFailed
    <2> QED
      BY <1>1, <1>2, <2>6, <2>7, <2>8, ReturnInv
  <1>5. CASE UNCHANGED sockets /\ Return(SOCKET_ERROR)
    <2>1. SOCKET_ERROR \in Int
      BY DEF SOCKET_ERROR
    <2> QED
      BY <1>1, <1>2, <1>5, <2>1, ReturnSame DEF Failure
  <1> QED
    BY <1>4, <1>5 DEF SocketSocketDone

(* socketConnect asks the modem. *)
LEMMA ConnectSendInv ==
  ASSUME IndInv, SocketConnectSend
  PROVE  IndInv'
  <1>1. /\ Resolved /\ IsSocket(arg.socket)
        /\ Command("NSOCO", sockets[arg.socket].handle, 0, "soco")
        /\ UNCHANGED <<sockets, op, arg, handle, param, expired, result, modem, lost>>
    BY DEF SocketConnectSend
  <1>2. arg.socket = 0 /\ sockets[0].handle = 0
    BY <1>1, HasHandle DEF IsSocket
  <1>3. op = "connect" /\ at # "none" /\ ret \in {"go", "OK"}
    BY <1>1 DEF Resolved, IndInv, Places
  <1>4. ~Asking /\ failed = FALSE
    <2>1. failed \in BOOLEAN /\ ~failed
      BY <1>3, NotFailed DEF IndInv, DriverTypes
    <2> QED
      BY <1>3, <2>1, NotAsking
  <1>5. PICK k \in Requests : k = "NSOCO"
    BY DEF Requests
  <1>6. PICK point \in Points \ {"none"} : point = "soco"
    BY DEF Points
  <1>7. PICK h \in AnyHandle, n \in Nat : h = 0 /\ n = 0
    BY ZeroIsSlot DEF AnyHandle
  <1>8. Command(k, h, n, point)
    BY <1>1, <1>2, <1>5, <1>6, <1>7
  <1>9. /\ at' = point /\ poll' = FALSE /\ ret' = "none" /\ own' = TRUE /\ failed' = failed
        /\ WireTypes' /\ Answers'
        /\ inbox' # << >> /\ inbox'[1].kind = k /\ inbox'[1].handle = h
    BY <1>1, <1>4, <1>8, CommandKeeps DEF IndInv, modem
  <1>10. Places'
    BY <1>1, <1>3, <1>6, <1>9 DEF Places
  <1>11. Locals'
    BY <1>1, <1>2, <1>3, <1>5, <1>6, <1>7, <1>9 DEF IndInv, Locals, Reading, OnZero, CommandAt
  <1>12. /\ op' \in Ops /\ (op' # "none" => op' \in Calls) /\ arg' \in Args
         /\ expired' \in BOOLEAN /\ param' \in Int
    BY <1>1 DEF IndInv, DriverTypes
  <1>13. UNCHANGED <<sockets, handle, result, modem, lost>>
    BY <1>1
  <1>14. at' \in Points /\ poll' \in BOOLEAN /\ ret' \in {"none", "go"}
         /\ (failed => op' \in {"free", "sendTo"})
    BY <1>4, <1>9
  <1> QED
    BY <1>9, <1>10, <1>11, <1>12, <1>13, <1>14, MovesInv

(* socketConnect without an address or a free socket. *)
LEMMA ConnectRefusedInv ==
  ASSUME IndInv, SocketConnectRefused
  PROVE  IndInv'
  <1>1. at # "none" /\ (ret # "none" \/ at = "resolved")
    BY DEF SocketConnectRefused, Resolved
  <1>2. ~Asking
    BY <1>1, NotAsking DEF IndInv, Places
  <1>3. PICK zero \in Int : zero = 0
    OBVIOUS
  <1>4. Return(zero) /\ UNCHANGED <<sockets, modem, lost>>
    BY <1>3 DEF SocketConnectRefused
  <1>5. zero = Failure(op)
    BY <1>3 DEF SocketConnectRefused, Resolved, IndInv, Places, Failure
  <1> QED
    BY <1>1, <1>2, <1>3, <1>4, <1>5, ReturnSame

(* The answer to the connect. *)
LEMMA ConnectDoneInv ==
  ASSUME IndInv, SocketConnectDone
  PROVE  IndInv'
  <1>1. at = "soco" /\ ret # "none" /\ UNCHANGED <<modem, lost>> /\ at # "none"
    BY DEF SocketConnectDone
  <1>2. ~Asking
    BY <1>1, NotAsking
  <1>3. arg.socket = 0 /\ sockets[0].handle = 0 /\ op = "connect"
    BY <1>1 DEF IndInv, Locals, OnZero, Places
  <1>4. CASE ret = "OK"
    <2>1. PICK one \in Int : one = 1
      OBVIOUS
    <2>2. Return(one) /\ sockets' = [sockets EXCEPT ![0].connected = TRUE]
      BY <1>3, <1>4, <2>1 DEF SocketConnectDone
    <2>3. sockets' \in [Slots -> Slot] /\ SlotZero'
      BY <1>3, <2>2, SetConnected
    <2>4. ~failed
      BY <1>3, <1>4, NotFailed
    <2> QED
      BY <1>1, <1>2, <2>2, <2>3, <2>4, ReturnInv
  <1>5. CASE ret # "OK"
    <2>1. PICK zero \in Int : zero = 0
      OBVIOUS
    <2>2. Return(zero) /\ sockets' = sockets
      BY <1>5, <2>1 DEF SocketConnectDone
    <2> QED
      BY <1>1, <1>2, <1>3, <2>1, <2>2, ReturnSame DEF Failure
  <1> QED
    BY <1>4, <1>5

(* socketClose. *)
LEMMA CloseDoneInv ==
  ASSUME IndInv, SocketCloseDone
  PROVE  IndInv'
  <1>1. /\ op = "close" /\ UNCHANGED <<modem, lost>>
        /\ at = "closed" \/ (at = "socl" /\ ret # "none")
        /\ at # "none"
    BY DEF SocketCloseDone
  <1>2. ~Asking
    BY <1>1, NotAsking DEF IndInv, Places
  <1>3. CASE at = "socl" /\ ret = "OK"
    <2>1. arg.socket = 0 /\ sockets[0].handle = 0
      BY <1>3 DEF IndInv, Locals, OnZero
    <2>2. PICK one \in Int : one = 1
      OBVIOUS
    <2>3. Return(one) /\ sockets' = [sockets EXCEPT ![0].connected = FALSE]
      BY <1>3, <2>1, <2>2 DEF SocketCloseDone
    <2>4. sockets' \in [Slots -> Slot] /\ SlotZero'
      BY <2>1, <2>3, SetConnected
    <2>5. ~failed
      BY <1>1, <1>3, NotFailed
    <2> QED
      BY <1>1, <1>2, <2>3, <2>4, <2>5, ReturnInv
  <1>4. CASE ~(at = "socl" /\ ret = "OK")
    <2>1. PICK zero \in Int : zero = 0
      OBVIOUS
    <2>2. Return(zero) /\ sockets' = sockets
      BY <1>4, <2>1 DEF SocketCloseDone
    <2> QED
      BY <1>1, <1>2, <2>1, <2>2, ReturnSame DEF Failure
  <1> QED
    BY <1>3, <1>4

(* socketFree. *)
LEMMA FreeDoneInv ==
  ASSUME IndInv, SocketFreeDone
  PROVE  IndInv'
  <1>1. /\ op = "free" /\ UNCHANGED <<modem, lost>>
        /\ at = "closed" \/ (at = "socl" /\ ret # "none")
        /\ at # "none"
    BY DEF SocketFreeDone
  <1>2. ~Asking
    BY <1>1, NotAsking DEF IndInv, Places
  <1>3. PICK one \in Int : one = 1
    OBVIOUS
  <1>4. Return(one)
    BY <1>3 DEF SocketFreeDone
  <1>5. CASE IsSocket(arg.socket)
    <2>1. FreeSlot \in Slot /\ FreeSlot.handle = SOCKET_ERROR /\ FreeSlot.pending = 0
          /\ FreeSlot.connected = FALSE
      BY DEF FreeSlot, Slot, AnyHandle
    <2>2. arg.socket \in Slots /\ sockets' = [sockets EXCEPT ![arg.socket] = FreeSlot]
      BY <1>5 DEF SocketFreeDone, IsSocket
    <2>3. sockets' \in [Slots -> Slot] /\ SlotZero'
      BY <2>1, <2>2, OneSlot
    <2> QED
      BY <1>1, <1>2, <1>4, <2>3, ReturnInv
  <1>6. CASE ~IsSocket(arg.socket)
    <2>1. sockets' = sockets
      BY <1>6 DEF SocketFreeDone
    <2> QED
      BY <1>1, <1>2, <1>4, <2>1, ReturnSame
  <1> QED
    BY <1>5, <1>6

(* Nobody sends on a connected socket. *)
LEMMA SendInv ==
  ASSUME IndInv, SocketSendMore \/ SocketSendDone
  PROVE  FALSE
  <1>1. at \in {"send", "sowr", "written", "flushed"}
    BY DEF SocketSendMore, SocketSendDone
  <1> QED
    BY <1>1 DEF IndInv, DriverTypes, Points

(* socketSendTo, block after block. *)
LEMMA SendToMoreInv ==
  ASSUME IndInv, SocketSendToMore
  PROVE  IndInv'
  <1>1. /\ UNCHANGED <<sockets, op, handle, param, expired, result, modem, lost>>
        /\ at \in {"sost", "sost2"} /\ at # "none" /\ ret # "none" /\ op = "sendTo"
    BY DEF SocketSendToMore, IndInv, Places
  <1>2. ~Asking
    BY <1>1, NotAsking
  <1>3. /\ op' \in Ops /\ (op' # "none" => op' \in Calls) /\ arg \in Args
        /\ expired' \in BOOLEAN /\ param' \in Int /\ failed \in BOOLEAN
    BY <1>1 DEF IndInv, DriverTypes
  <1>4. arg.socket \in Slots /\ arg.len > 0
    BY <1>1 DEF IndInv, Locals
  <1>5. CASE WaitMore("sost2") /\ UNCHANGED arg
    <2>1. /\ at' = "sost2" /\ poll' = FALSE /\ ret' = "none" /\ own' = TRUE
          /\ UNCHANGED <<failed, inbox, line, dataMode>>
      BY <1>1, <1>5 DEF WaitMore, modem
    <2>2. WireTypes' /\ Answers' /\ inbox' = << >>
      BY <1>2, <2>1, StillKeeps DEF IndInv
    <2>3. Places'
      BY <1>1, <2>1 DEF Places
    <2>4. Locals'
      BY <1>1, <1>4, <1>5, <2>1, <2>2 DEF Locals, Reading, OnZero
    <2>5. at' \in Points /\ poll' \in BOOLEAN /\ arg' \in Args /\ failed' = failed
      BY <1>3, <1>5, <2>1 DEF Points
    <2> QED
      BY <1>1, <1>3, <2>1, <2>2, <2>3, <2>4, <2>5, MovesInv
  <1>6. CASE /\ arg.len > 1
             /\ arg' = [arg EXCEPT !.len = @ - 1, !.cnt = @ + 1]
             /\ Command("NSOST", 0, 1, "sost")
    <2>1. PICK k \in Requests : k = "NSOST"
      BY DEF Requests
    <2>2. PICK point \in Points \ {"none"} : point = "sost"
      BY DEF Points
    <2>3. PICK h \in AnyHandle, n \in Nat : h = 0 /\ n = 1
      BY ZeroIsSlot DEF AnyHandle
    <2>4. Command(k, h, n, point)
      BY <1>6, <2>1, <2>2, <2>3
    <2>5. /\ at' = point /\ poll' = FALSE /\ ret' = "none" /\ own' = TRUE /\ failed' = failed
          /\ WireTypes' /\ Answers'
          /\ inbox' # << >> /\ inbox'[1].kind = k
      BY <1>1, <1>2, <2>4, CommandKeeps DEF IndInv, modem
    <2>6. arg' \in Args /\ arg'.socket \in Slots /\ arg'.len > 0
      <3>1. arg.len \in Nat /\ arg.cnt \in Nat
        BY <1>3 DEF Args
      <3>2. arg.len - 1 \in Nat /\ arg.len - 1 > 0 /\ arg.cnt + 1 \in Nat
        BY <1>6, <3>1
      <3>3. arg'.len = arg.len - 1 /\ arg'.socket = arg.socket /\ arg' \in Args
        BY <1>3, <1>6, <3>2 DEF Args
      <3> QED
        BY <1>4, <3>2, <3>3
    <2>7. Places'
      BY <1>1, <2>2, <2>5 DEF Places
    <2>8. Locals'
      BY <1>1, <2>1, <2>2, <2>5, <2>6 DEF Locals, Reading, OnZero, CommandAt
    <2>9. at' \in Points /\ poll' \in BOOLEAN /\ ret' \in {"none", "go"}
      BY <2>5
    <2> QED
      BY <1>1, <1>3, <2>5, <2>6, <2>7, <2>8, <2>9, MovesInv
  <1> QED
    BY <1>5, <1>6 DEF SocketSendToMore

(* socketSendTo returns. *)
LEMMA SendToDoneInv ==
  ASSUME IndInv, SocketSendToDone
  PROVE  IndInv'
  <1>1. /\ at = "sost2" /\ ret # "none" /\ Return(arg.cnt + 1) /\ UNCHANGED <<sockets, modem, lost>>
        /\ at # "none" /\ op = "sendTo"
    BY DEF SocketSendToDone, IndInv, Places
  <1>2. ~Asking
    BY <1>1, NotAsking
  <1>3. arg.cnt + 1 \in Int
    BY DEF IndInv, DriverTypes, Args
  <1> QED
    BY <1>1, <1>2, <1>3, ReturnSame

(* socketReadable returns. *)
LEMMA ReadableDoneInv ==
  ASSUME IndInv, SocketReadableDone
  PROVE  IndInv'
  <1> DEFINE v == IF at = "readable" /\ sockets[arg.socket].connected
                  THEN sockets[arg.socket].pending ELSE SOCKET_ERROR
  <1>1. /\ at \in {"readable", "unreadable"} /\ ret # "none" /\ Return(v) /\ UNCHANGED <<sockets, modem, lost>>
        /\ at # "none" /\ op = "readable"
    BY DEF SocketReadableDone, IndInv, Places
  <1>2. ~Asking /\ ret # "ERROR"
    BY <1>1, NotAsking DEF IndInv, Places
  <1>3. arg.socket \in Slots
    BY <1>1 DEF IndInv, Locals
  <1>4. v \in Int
    BY <1>3 DEF IndInv, DriverTypes, Slot, SOCKET_ERROR
  <1> HIDE DEF v
  <1>5. ~failed
    BY <1>1, <1>2, NotFailed
  <1> QED
    BY <1>1, <1>2, <1>4, <1>5, ReturnSame

----------------------------------------------------------------------------
(* The receive functions. *)

(* Where they are between two waits. *)
LEMMA Looping ==
  ASSUME IndInv, InLoop
  PROVE  /\ op \in {"recv", "recvFrom"} /\ at = "loop" /\ at # "none" /\ ret = "go"
         /\ ~Asking /\ failed = FALSE
         /\ arg \in Args /\ arg.socket \in Slots /\ arg.len \in Nat /\ arg.cnt \in Nat
         /\ arg.len > 0 /\ (op = "recvFrom" => arg.cnt = 0)
         /\ sockets[arg.socket] \in Slot
  <1>1. op \in {"recv", "recvFrom"} /\ at = "loop" /\ at # "none"
    BY DEF InLoop
  <1>2. ret = "go"
    BY <1>1 DEF IndInv, Places
  <1>3. ~failed /\ failed \in BOOLEAN
    BY <1>1, <1>2, NotFailed DEF IndInv, DriverTypes
  <1>4. arg \in Args /\ arg.socket \in Slots /\ arg.len > 0 /\ (op = "recvFrom" => arg.cnt = 0)
    BY <1>1 DEF IndInv, DriverTypes, Locals
  <1>5. sockets[arg.socket] \in Slot
    BY <1>4 DEF IndInv, DriverTypes
  <1> QED
    BY <1>1, <1>2, <1>3, <1>4, <1>5, NotAsking DEF Args

(* A block is no longer than the request and than what is pending.         *)
LEMMA BlockIs ==
  ASSUME IndInv, InLoop
  PROVE  /\ Block \in Int /\ Block <= arg.len /\ Block <= sockets[arg.socket].pending
         /\ Block > 0 => Block \in Nat /\ arg.socket = 0 /\ sockets[0].handle = 0
  <1>1. arg.len \in Int /\ sockets[arg.socket].pending \in Int /\ MAX_SIZE \in Int
    BY Looping, SocketsAssumption DEF Slot
  <1>2. Block \in Int /\ Block <= arg.len /\ Block <= sockets[arg.socket].pending
    BY <1>1 DEF Block, Least
  <1>3. ASSUME Block > 0 PROVE arg.socket = 0 /\ sockets[0].handle = 0
    <2>1. sockets[arg.socket].pending # 0
      BY <1>1, <1>2, <1>3
    <2>2. sockets[arg.socket].handle # SOCKET_ERROR
      BY <2>1, Looping DEF IndInv, SlotZero
    <2> QED
      BY <2>2, Looping, HasHandle
  <1> HIDE DEF Block
  <1> QED
    BY <1>2, <1>3

(* A block is asked for. *)
LEMMA RecvCommandInv ==
  ASSUME IndInv, RecvCommand
  PROVE  IndInv'
  <1>1. /\ InLoop /\ Block > 0
        /\ arg' = [arg EXCEPT !.blk = Block]
        /\ param' = -1
        /\ IF op = "recv" THEN Command("USORD", sockets[arg.socket].handle, Block, "sord")
                          ELSE Command("NSORF", 0, Block, "sorf")
        /\ UNCHANGED <<sockets, op, handle, expired, result, modem, lost>>
    BY DEF RecvCommand
  <1>2. /\ Block \in Nat /\ Block <= arg.len
        /\ arg.socket = 0 /\ sockets[0].handle = 0
    BY <1>1, BlockIs
  <1>3. /\ op \in {"recv", "recvFrom"} /\ ~Asking /\ failed = FALSE
        /\ arg \in Args /\ arg.socket \in Slots /\ arg.len > 0
        /\ (op = "recvFrom" => arg.cnt = 0)
    BY <1>1, Looping
  <1>4. PICK b \in Nat : b = Block
    BY <1>2
  <1> HIDE DEF Block
  <1>5. /\ arg' \in Args /\ arg'.blk = b /\ arg'.socket = arg.socket
        /\ arg'.len = arg.len /\ arg'.cnt = arg.cnt
    BY <1>1, <1>3, <1>4 DEF Args
  <1>6. PICK k \in Requests, point \in Points \ {"none"} :
           IF op = "recv" THEN k = "USORD" /\ point = "sord" ELSE k = "NSORF" /\ point = "sorf"
    BY DEF Requests, Points
  <1>7. PICK h \in AnyHandle : h = 0
    BY ZeroIsSlot DEF AnyHandle
  <1>8. Command(k, h, b, point)
    <2>1. CASE op = "recv"
      BY <1>1, <1>2, <1>4, <1>6, <1>7, <2>1
    <2>2. CASE op # "recv"
      BY <1>1, <1>2, <1>4, <1>6, <1>7, <2>2
    <2> QED
      BY <2>1, <2>2
  <1>9. /\ at' = point /\ poll' = FALSE /\ ret' = "none" /\ own' = TRUE /\ failed' = failed
        /\ WireTypes' /\ Answers'
        /\ inbox' # << >> /\ inbox'[1].kind = k /\ inbox'[1].handle = h /\ inbox'[1].n = b
    BY <1>1, <1>3, <1>8, CommandKeeps DEF IndInv, modem
  <1>10. Places'
    BY <1>1, <1>3, <1>6, <1>9 DEF Places
  <1>11. Locals'
    BY <1>1, <1>2, <1>3, <1>4, <1>5, <1>6, <1>7, <1>9
    DEF Locals, Reading, OnZero, CommandAt
  <1>12. /\ op' \in Ops /\ (op' # "none" => op' \in Calls)
         /\ expired' \in BOOLEAN /\ param' \in Int
    BY <1>1 DEF IndInv, DriverTypes
  <1>13. at' \in Points /\ poll' \in BOOLEAN /\ ret' \in {"none", "go"}
         /\ (failed => op' \in {"free", "sendTo"})
    BY <1>3, <1>9
  <1> QED
    BY <1>1, <1>5, <1>9, <1>10, <1>11, <1>12, <1>13, MovesInv

(* The loop goes on. *)
LEMMA GotoLoop ==
  ASSUME IndInv, op \in {"recv", "recvFrom"}, ~Asking, ret # "ERROR", Goto("loop"),
         UNCHANGED <<op, result, handle, param, expired, modem, lost>>,
         sockets' \in [Slots -> Slot], SlotZero',
         arg' \in Args, arg'.socket \in Slots, arg'.len > 0, op = "recvFrom" => arg'.cnt = 0
  PROVE  IndInv'
  <1>1. /\ at' = "loop" /\ poll' = FALSE /\ ret' = "go" /\ own' = TRUE /\ failed' = failed
        /\ UNCHANGED <<inbox, line>>
    BY DEF Goto
  <1>2. WireTypes' /\ Answers' /\ inbox' = << >>
    BY <1>1, StillKeeps DEF IndInv, modem
  <1>3. Places'
    BY <1>1 DEF Places
  <1>4. Locals'
    BY <1>1, <1>2 DEF Locals, Reading, OnZero
  <1>5. /\ op' \in Ops /\ (op' # "none" => op' \in Calls)
        /\ expired' \in BOOLEAN /\ param' \in Int /\ at' \in Points /\ poll' \in BOOLEAN
    BY <1>1 DEF IndInv, DriverTypes, Points
  <1>6. failed => op' \in {"free", "sendTo"}
    BY NotFailed
  <1> QED
    BY <1>1, <1>2, <1>3, <1>4, <1>5, <1>6, GoesOnInv

(* The answer to a read. *)
LEMMA RecvDoneInv ==
  ASSUME IndInv, RecvDone
  PROVE  IndInv'
  <1>1. /\ at \in {"sord", "sorf"} /\ ret # "none" /\ UNCHANGED <<modem, lost>> /\ at # "none"
        /\ op \in {"recv", "recvFrom"}
    BY DEF RecvDone, IndInv, Places
  <1>2. ~Asking
    BY <1>1, NotAsking
  <1>3. /\ arg.socket = 0 /\ sockets[0].handle = 0
        /\ arg.blk > 0 /\ arg.blk <= arg.len /\ arg.len > 0
        /\ (op = "recvFrom" => arg.cnt = 0)
    BY <1>1 DEF IndInv, Locals, OnZero, Reading
  <1>4. arg \in Args /\ arg.len \in Nat /\ arg.cnt \in Nat /\ arg.blk \in Nat
    BY DEF IndInv, DriverTypes, Args
  <1>5. CASE ret = "OK"
    <2>1. sockets' = [sockets EXCEPT ![0].pending = @ - arg.blk]
      BY <1>3, <1>5 DEF RecvDone
    <2>2. sockets' = [sockets EXCEPT ![0].pending = sockets[0].pending - arg.blk]
      BY <2>1, ZeroIsSlot DEF IndInv, DriverTypes
    <2>3. sockets[0].pending - arg.blk \in Int
      <3>1. sockets[0].pending \in Int
        BY ZeroIsSlot DEF IndInv, DriverTypes, Slot
      <3> QED
        BY <1>4, <3>1
    <2>4. sockets' \in [Slots -> Slot] /\ SlotZero'
      BY <1>3, <2>2, <2>3, SetPending
    <2>5. ~failed
      BY <1>1, <1>5, NotFailed
    <2>6. CASE /\ op = "recv" /\ arg.len > arg.blk
               /\ arg' = [arg EXCEPT !.len = @ - arg.blk, !.cnt = @ + arg.blk]
               /\ Goto("loop")
               /\ UNCHANGED <<op, result, handle, param, expired>>
      <3>1. arg.len - arg.blk \in Nat /\ arg.len - arg.blk > 0 /\ arg.cnt + arg.blk \in Nat
        BY <1>4, <2>6
      <3>2. arg'.len = arg.len - arg.blk /\ arg'.socket = arg.socket /\ arg' \in Args
        BY <1>4, <2>6, <3>1 DEF Args
      <3>3. arg'.socket \in Slots /\ arg'.len > 0 /\ ret # "ERROR" /\ op # "recvFrom"
        BY <1>3, <1>5, <2>6, <3>1, <3>2, ZeroIsSlot
      <3>4. UNCHANGED <<op, result, handle, param, expired, modem, lost>>
        BY <1>1, <2>6
      <3> QED
        BY <1>1, <1>2, <2>4, <2>6, <3>2, <3>3, <3>4, GotoLoop
    <2>7. CASE Return(arg.cnt + arg.blk)
      <3>1. arg.cnt + arg.blk \in Int
        BY <1>4
      <3> QED
        BY <1>1, <1>2, <2>4, <2>5, <2>7, <3>1, ReturnInv
    <2> QED
      BY <1>5, <2>6, <2>7 DEF RecvDone
  <1>6. CASE ret # "OK"
    <2>1. SOCKET_ERROR \in Int /\ Return(SOCKET_ERROR) /\ sockets' = sockets
      BY <1>6 DEF RecvDone, SOCKET_ERROR
    <2> QED
      BY <1>1, <1>2, <2>1, ReturnSame DEF Failure
  <1> QED
    BY <1>5, <1>6

(* Nothing is pending: look for news. *)
LEMMA RecvPollInv ==
  ASSUME IndInv, RecvPoll
  PROVE  IndInv'
  <1>1. /\ InLoop /\ Poll("polled")
        /\ UNCHANGED <<sockets, op, arg, handle, param, expired, result, modem, lost>>
    BY DEF RecvPoll
  <1>2. /\ op \in {"recv", "recvFrom"} /\ ~Asking /\ failed = FALSE
        /\ arg \in Args /\ arg.socket \in Slots /\ arg.len > 0
        /\ (op = "recvFrom" => arg.cnt = 0)
    BY <1>1, Looping
  <1>3. /\ at' = "polled" /\ poll' = TRUE /\ ret' = "none" /\ own' = TRUE /\ failed' = failed
        /\ WireTypes' /\ Answers' /\ inbox' = << >>
    BY <1>1, <1>2, PollKeeps DEF IndInv, modem, Points
  <1>4. Places'
    BY <1>1, <1>2, <1>3 DEF Places
  <1>5. Locals'
    BY <1>1, <1>2, <1>3 DEF Locals, Reading, OnZero
  <1>6. /\ op' \in Ops /\ (op' # "none" => op' \in Calls) /\ arg' \in Args
        /\ expired' \in BOOLEAN /\ param' \in Int /\ at' \in Points /\ poll' \in BOOLEAN
        /\ ret' \in {"none", "go"} /\ (failed => op' \in {"free", "sendTo"})
    BY <1>1, <1>2, <1>3 DEF IndInv, DriverTypes, Points
  <1> QED
    BY <1>1, <1>3, <1>4, <1>5, <1>6, MovesInv

(* The poll meets no answer. *)
LEMMA RecvPolledInv ==
  ASSUME IndInv, RecvPolled
  PROVE  IndInv'
  <1>1. /\ at = "polled" /\ ret # "none" /\ UNCHANGED <<sockets, modem, lost>>
        /\ op \in {"recv", "recvFrom"} /\ poll /\ ret = "WAIT"
    BY DEF RecvPolled, IndInv, Places
  <1>2. ~Asking /\ ret # "ERROR"
    BY <1>1, NotAsking
  <1>3. Goto("loop") /\ UNCHANGED <<op, arg, result, handle, param, expired>>
    BY <1>1 DEF RecvPolled
  <1>4. /\ sockets' \in [Slots -> Slot] /\ SlotZero'
        /\ arg' \in Args /\ arg'.socket \in Slots /\ arg'.len > 0
        /\ (op = "recvFrom" => arg'.cnt = 0)
    BY <1>1, <1>3 DEF IndInv, DriverTypes, SlotZero, Locals
  <1> QED
    BY <1>1, <1>2, <1>3, <1>4, GotoLoop

(* The receive functions return without a block. *)
LEMMA RecvGiveUpInv ==
  ASSUME IndInv, RecvGiveUp
  PROVE  IndInv'
  <1>1. InLoop /\ UNCHANGED <<sockets, modem, lost>>
    BY DEF RecvGiveUp
  <1>2. ~Asking /\ at # "none" /\ failed = FALSE /\ arg.cnt \in Int /\ SOCKET_ERROR \in Int
    BY <1>1, Looping DEF SOCKET_ERROR
  <1>3. Return(arg.cnt) \/ Return(SOCKET_ERROR)
    BY DEF RecvGiveUp
  <1> QED
    BY <1>1, <1>2, <1>3, ReturnSame

(* The timer of the receive functions. *)
LEMMA TimerInv ==
  ASSUME IndInv, TimerExpires
  PROVE  IndInv'
  <1>1. /\ expired' = TRUE
        /\ UNCHANGED <<sockets, op, arg, wait, result, inbox, line, modem, lost>>
    BY DEF TimerExpires
  <1>2. expired' \in BOOLEAN
    BY <1>1
  <1>3. DriverTypes'
    BY <1>1, <1>2 DEF IndInv, DriverTypes, wait
  <1>4. WireTypes' /\ ModemTypes' /\ Answers' /\ Places'
    BY <1>1 DEF IndInv, WireTypes, ModemTypes, Answers, Asking, Places, wait, modem
  <1>5. Locals' /\ SlotZero' /\ Failures'
    BY <1>1 DEF IndInv, Locals, Reading, OnZero, SlotZero, Failures, FailureReported, wait
  <1> QED
    BY <1>3, <1>4, <1>5 DEF IndInv, Prompt

----------------------------------------------------------------------------
(* The modem answers. *)

Extras == {"HANDLE", "ADDRESS", "DATA", "BLOCK"}

(* What comes before the final line; the data of socketRecv has a handle.   *)
Extra(x) == x.kind \in Extras /\ (x.kind = "BLOCK" => x.handle \in Handles)

(* The lines of an answer: a final one, alone or after what was asked for. *)
Reply(q) ==
  /\ q \in Seq(Lined) /\ Len(q) \in {1, 2}
  /\ q[Len(q)].kind \in {"OK", "ERROR"}
  /\ Len(q) = 2 => Extra(q[1])

(* The answers the modem gives. *)
LEMMA Replying ==
  /\ Reply(<<OK>>) /\ Reply(<<ERROR>>)
  /\ \A x \in Lined : Extra(x) => Reply(<<x, OK>>)
  <1>1. OK \in Lined /\ ERROR \in Lined /\ OK.kind = "OK" /\ ERROR.kind = "ERROR"
    BY DEF OK, ERROR, Answer, Lined, Replies, AnyHandle
  <1>2. Reply(<<OK>>) /\ Reply(<<ERROR>>)
    BY <1>1 DEF Reply
  <1>3. ASSUME NEW x \in Lined, Extra(x)
        PROVE  Reply(<<x, OK>>)
    <2>1. PICK y \in Lined : y = OK
      BY <1>1
    <2>2. y.kind = "OK"
      BY <1>1, <2>1
    <2>3. <<x, y>> \in Seq(Lined) /\ Len(<<x, y>>) = 2 /\ <<x, y>>[1] = x /\ <<x, y>>[2] = y
      OBVIOUS
    <2>4. Reply(<<x, y>>)
      BY <1>3, <2>2, <2>3 DEF Reply
    <2> QED
      BY <2>1, <2>4
  <1> QED
    BY <1>2, <1>3

(* The lines before the final one. *)
LEMMA Extracts ==
  /\ \A k \in {"HANDLE", "ADDRESS", "DATA"}, n \in Nat : Answer(k, n) \in Lined /\ Extra(Answer(k, n))
  /\ \A h \in Handles, n \in Nat : LET x == [Answer("BLOCK", n) EXCEPT !.handle = h]
                                   IN x \in Lined /\ Extra(x)
  BY DEF Answer, Lined, Replies, AnyHandle, Extra, Extras

(* The answer goes behind what is on the line. *)
LEMMA Said ==
  ASSUME WireTypes, inbox # << >>, inbox[1].fresh = TRUE, NEW q, Reply(q), Say(q, inbox[1])
  PROVE  /\ line' \in Seq(Lined) /\ Len(line) \in Nat /\ Len(line') = Len(line) + Len(q)
         /\ \A i \in 1 .. Len(line) : line'[i] = line[i]
         /\ \A i \in 1 .. Len(q) : /\ line'[Len(line) + i].kind = q[i].kind
                                   /\ line'[Len(line) + i].handle = q[i].handle
                                   /\ line'[Len(line) + i].n = q[i].n
                                   /\ line'[Len(line) + i].fresh = TRUE
  <1> DEFINE r == [i \in DOMAIN q |-> [q[i] EXCEPT !.fresh = inbox[1].fresh]]
  <1>1. line' = line \o r
    BY DEF Say
  <1>2. q \in Seq(Lined) /\ Len(q) \in Nat /\ DOMAIN q = 1 .. Len(q)
        /\ \A i \in 1 .. Len(q) : q[i] \in Lined
    BY DEF Reply
  <1>3. \A x \in Lined : LET y == [x EXCEPT !.fresh = inbox[1].fresh]
                         IN /\ y \in Lined /\ y.kind = x.kind /\ y.handle = x.handle
                            /\ y.n = x.n /\ y.fresh = TRUE
    BY DEF Lined
  <1>4. r \in [1 .. Len(q) -> Lined] /\ r \in Seq(Lined) /\ Len(r) = Len(q)
    BY <1>2, <1>3
  <1>5. \A i \in 1 .. Len(q) : /\ r[i].kind = q[i].kind /\ r[i].handle = q[i].handle
                               /\ r[i].n = q[i].n /\ r[i].fresh = TRUE
    BY <1>2, <1>3
  <1> HIDE DEF r
  <1>6. line \in Seq(Lined)
    BY DEF WireTypes
  <1>7. /\ line \o r \in Seq(Lined) /\ Len(line \o r) = Len(line) + Len(r)
        /\ \A i \in 1 .. Len(line) : (line \o r)[i] = line[i]
        /\ Len(line) \in Nat
    <2>1. PICK u \in Seq(Lined), v \in Seq(Lined) : u = line /\ v = r
      BY <1>4, <1>6
    <2>2. /\ u \o v \in Seq(Lined) /\ Len(u \o v) = Len(u) + Len(v) /\ Len(u) \in Nat
          /\ \A i \in 1 .. Len(u) + Len(v) :
               (u \o v)[i] = IF i <= Len(u) THEN u[i] ELSE v[i - Len(u)]
      BY ConcatProperties
    <2>3. Len(v) \in Nat
      OBVIOUS
    <2>4. \A i \in 1 .. Len(u) : i \in 1 .. Len(u) + Len(v) /\ i <= Len(u)
      BY <2>2, <2>3
    <2>5. \A i \in 1 .. Len(u) : (u \o v)[i] = u[i]
      BY <2>2, <2>4
    <2> QED
      BY <2>1, <2>2, <2>5
  <1>8. ASSUME NEW i \in 1 .. Len(q)
        PROVE  (line \o r)[Len(line) + i] = r[i]
    <2>1. Len(line) + i \in 1 .. Len(line) + Len(r) /\ Len(line) + i > Len(line)
          /\ Len(line) + i - Len(line) = i
      BY <1>2, <1>4, <1>7
    <2>2. (line \o r)[Len(line) + i] = r[(Len(line) + i) - Len(line)]
      BY <1>4, <1>6, <2>1, ConcatProperties
    <2> QED
      BY <2>1, <2>2
  <1> QED
    BY <1>1, <1>4, <1>5, <1>7, <1>8

(* The command has been executed, and the wait finds its answer.           *)
LEMMA SayKeeps ==
  ASSUME WireTypes, Answers, inbox # << >>, inbox' = Tail(inbox), NEW q, Reply(q),
         Say(q, inbox[1]), UNCHANGED <<at, poll, ret, own, dataMode>>
  PROVE  /\ WireTypes' /\ Answers' /\ inbox' = << >>
  <1>1. /\ Len(inbox) = 1 /\ Asking /\ inbox[1].fresh = TRUE
        /\ \A i \in 1 .. Len(line) : line[i].kind \notin Final
    BY DEF Answers
  <1>2. inbox' = << >> /\ inbox' \in Seq(Cmds)
    BY <1>1 DEF WireTypes
  <1>3. /\ line' \in Seq(Lined) /\ Len(line) \in Nat /\ Len(line') = Len(line) + Len(q)
        /\ \A i \in 1 .. Len(line) : line'[i] = line[i]
        /\ \A i \in 1 .. Len(q) : /\ line'[Len(line) + i].kind = q[i].kind
                                  /\ line'[Len(line) + i].handle = q[i].handle
                                  /\ line'[Len(line) + i].fresh = TRUE
    BY <1>1, Said
  <1>4. Len(q) \in 1 .. 2
    BY DEF Reply
  <1>5. ASSUME NEW j \in 1 .. Len(line')
        PROVE  \/ j \in 1 .. Len(line) /\ line'[j] = line[j]
               \/ j = Len(line) + Len(q) /\ line'[j].kind \in {"OK", "ERROR"} /\ line'[j].fresh = TRUE
               \/ Extra(line'[j])
    <2>1. CASE j \in 1 .. Len(line)
      BY <1>3, <2>1
    <2>2. CASE j \notin 1 .. Len(line)
      <3>1. PICK i \in 1 .. Len(q) : j = Len(line) + i
        <4>1. j - Len(line) \in 1 .. Len(q) /\ j = Len(line) + (j - Len(line))
          BY <1>3, <1>4, <2>2
        <4> QED
          BY <4>1
      <3>2. line'[j].kind = q[i].kind /\ line'[j].handle = q[i].handle /\ line'[j].fresh = TRUE
        BY <1>3, <3>1
      <3>3. CASE i = Len(q)
        <4>1. q[i].kind \in {"OK", "ERROR"}
          BY <3>3 DEF Reply
        <4>2. j = Len(line) + Len(q) /\ line'[j].kind = q[Len(q)].kind
          BY <3>1, <3>2, <3>3
        <4> QED
          BY <3>2, <4>1, <4>2
      <3>4. CASE Len(q) = 2 /\ i = 1
        <4>1. Extra(q[i])
          BY <3>4 DEF Reply
        <4> QED
          BY <3>2, <4>1 DEF Extra
      <3>5. i = Len(q) \/ (Len(q) = 2 /\ i = 1)
        <4>1. PICK z \in 1 .. 2 : z = Len(q)
          BY <1>4
        <4>2. i \in 1 .. z
          BY <4>1
        <4>3. i = z \/ (z = 2 /\ i = 1)
          BY <4>2
        <4> QED
          BY <4>1, <4>3
      <3> QED
        BY <3>3, <3>4, <3>5
    <2> QED
      BY <2>1, <2>2
  <1>6. \A i \in 1 .. Len(line') :
          line'[i].kind \in About => line'[i].handle \in Handles
    BY <1>5 DEF WireTypes, Extra, Extras, About, Announcing
  <1>7. \A i \in 1 .. Len(line') : line'[i].kind \in Final =>
          i = Len(line) + Len(q) /\ line'[i].fresh = TRUE
    BY <1>1, <1>5 DEF Extra, Extras, Final
  <1>8. Asking' /\ dataMode' = FALSE
    BY <1>1 DEF Asking, Answers
  <1> QED
    BY <1>2, <1>3, <1>6, <1>7, <1>8 DEF WireTypes, Answers

(* The modem and its lines change, the driver does not. *)
LEMMA OutsideInv ==
  ASSUME IndInv, UNCHANGED <<sockets, op, arg, wait, expired, result>>,
         WireTypes', ModemTypes', Answers',
         inbox' = << >> \/ inbox' = inbox
  PROVE  IndInv'
  <1>1. DriverTypes'
    BY DEF IndInv, DriverTypes, wait
  <1>2. Places' /\ SlotZero'
    BY DEF IndInv, Places, SlotZero, wait
  <1>3. Locals'
    BY DEF IndInv, Locals, Reading, OnZero, wait
  <1>4. Failures'
    BY DEF IndInv, Failures, FailureReported, wait
  <1> QED
    BY <1>1, <1>2, <1>3, <1>4 DEF IndInv, Prompt

(* The handle of a new socket. *)
LEMMA NewHandle ==
  ASSUME Handles \ open # {}
  PROVE  (CHOOSE h \in Handles \ open : \A g \in Handles \ open : h <= g) \in Handles \ open
  <1>1. \E x \in Handles \ open : \A y \in Handles \ open : x <= y
    BY SocketsAssumption, LeastNumber
  <1> QED
    BY <1>1

(* What the modem does to its sockets, and what it says. *)
LEMMA Executed ==
  ASSUME ModemTypes, UNCHANGED lost, NEW c \in Cmds,
         Create(c) \/ Connect(c) \/ Close(c) \/ Read(c) \/ Resolve(c) \/ Other(c)
  PROVE  /\ ModemTypes' /\ dataMode' = dataMode
         /\ \E q : Reply(q) /\ Say(q, c)
  <1> DEFINE Effect == /\ ModemTypes' /\ dataMode' = dataMode
                       /\ \E q : Reply(q) /\ Say(q, c)
  <1> SUFFICES Effect
    OBVIOUS
  <1>1. lost' = lost
    OBVIOUS
  <1>2. c.kind \in Requests /\ c.n \in Nat
    BY DEF Cmds
  <1>3. ModemTypes /\ MaxBuffered \in Nat
    BY SocketsAssumption
  <1>4. ASSUME UNCHANGED modem, NEW q, Reply(q), Say(q, c)
        PROVE  Effect
    <2>1. ModemTypes' /\ dataMode' = dataMode
      BY <1>1, <1>3, <1>4 DEF ModemTypes, modem
    <2> QED
      BY <1>4, <2>1
  <1>5. Say(<<ERROR>>, c) /\ UNCHANGED modem => Effect
    BY <1>4, Replying
  <1>6. CASE Create(c)
    <2>1. CASE Say(<<ERROR>>, c) /\ UNCHANGED modem
      BY <1>5, <2>1
    <2>2. CASE ~(Say(<<ERROR>>, c) /\ UNCHANGED modem)
      <3> DEFINE h == CHOOSE h \in Handles \ open : \A g \in Handles \ open : h <= g
      <3>1. /\ Handles \ open # {} /\ open' = open \cup {h} /\ held' = [held EXCEPT ![h] = 0]
            /\ given' = Append(given, h) /\ Say(<<Answer("HANDLE", h), OK>>, c)
            /\ UNCHANGED <<conn, dataMode>>
        BY <1>6, <2>2 DEF Create
      <3>2. h \in Handles \ open
        BY <3>1, NewHandle
      <3> HIDE DEF h
      <3>3. given' \in Seq(Handles)
        BY <1>3, <3>1, <3>2, AppendProperties DEF ModemTypes
      <3>4. ModemTypes'
        BY <1>1, <1>3, <3>1, <3>2, <3>3 DEF ModemTypes
      <3>5. PICK x \in Lined : x = Answer("HANDLE", h) /\ Extra(x)
        BY <3>2, SocketsAssumption, Extracts
      <3>6. Say(<<x, OK>>, c)
        BY <3>1, <3>5
      <3> QED
        BY <3>1, <3>4, <3>5, <3>6, Replying
    <2> QED
      BY <2>1, <2>2
  <1>7. CASE Connect(c)
    <2>1. CASE Say(<<ERROR>>, c) /\ UNCHANGED modem
      BY <1>5, <2>1
    <2>2. CASE ~(Say(<<ERROR>>, c) /\ UNCHANGED modem)
      <3>1. /\ c.handle \in open /\ conn' = conn \cup {c.handle} /\ Say(<<OK>>, c)
            /\ UNCHANGED <<open, held, dataMode, given>>
        BY <1>7, <2>2 DEF Connect
      <3>2. ModemTypes'
        BY <1>1, <1>3, <3>1 DEF ModemTypes
      <3> QED
        BY <3>1, <3>2, Replying
    <2> QED
      BY <2>1, <2>2
  <1>8. CASE Close(c)
    <2>1. CASE Say(<<ERROR>>, c) /\ UNCHANGED modem
      BY <1>5, <2>1
    <2>2. CASE ~(Say(<<ERROR>>, c) /\ UNCHANGED modem)
      <3>1. /\ c.handle \in open
            /\ open' = open \ {c.handle} /\ conn' = conn \ {c.handle}
            /\ held' = [held EXCEPT ![c.handle] = 0]
            /\ Say(<<OK>>, c) /\ UNCHANGED <<dataMode, given>>
        BY <1>8, <2>2 DEF Close
      <3>2. ModemTypes'
        BY <1>1, <1>3, <3>1 DEF ModemTypes
      <3> QED
        BY <3>1, <3>2, Replying
    <2> QED
      BY <2>1, <2>2
  <1>9. CASE Read(c)
    <2>1. CASE Say(<<ERROR>>, c) /\ UNCHANGED modem
      BY <1>5, <2>1
    <2>2. CASE ~(Say(<<ERROR>>, c) /\ UNCHANGED modem)
      <3> DEFINE n == Least(c.n, held[c.handle])
      <3>1. /\ c.handle \in open
            /\ held' = [held EXCEPT ![c.handle] = @ - n]
            /\ Say(IF n > 0 THEN <<DataLine(c, n), OK>> ELSE <<OK>>, c)
            /\ UNCHANGED <<open, conn, dataMode, given>>
        BY <1>9, <2>2 DEF Read
      <3>2. /\ held[c.handle] \in 0 .. MaxBuffered
            /\ held' = [held EXCEPT ![c.handle] = held[c.handle] - n]
        BY <1>3, <3>1 DEF ModemTypes
      <3>3. n \in Nat /\ held[c.handle] - n \in 0 .. MaxBuffered
        BY <1>2, <1>3, <3>2 DEF Least
      <3> HIDE DEF n
      <3>4. ModemTypes'
        BY <1>1, <1>3, <3>1, <3>2, <3>3 DEF ModemTypes
      <3>5. PICK x \in Lined : x = DataLine(c, n) /\ Extra(x)
        <4>1. c.handle \in Handles
          BY <1>3, <3>1 DEF ModemTypes
        <4> QED
          BY <3>3, <4>1, Extracts DEF DataLine
      <3>6. Say(<<x, OK>>, c) \/ Say(<<OK>>, c)
        BY <3>1, <3>5
      <3> QED
        BY <3>1, <3>4, <3>5, <3>6, Replying
    <2> QED
      BY <2>1, <2>2
  <1>10. CASE Resolve(c)
    <2>1. PICK x \in Lined : x = Answer("ADDRESS", 0) /\ Extra(x)
      BY Extracts
    <2>2. PICK q \in {<<Answer("ADDRESS", 0), OK>>, <<OK>>, <<ERROR>>} : Say(q, c)
      BY <1>10 DEF Resolve
    <2>3. q \in {<<x, OK>>, <<OK>>, <<ERROR>>}
      BY <2>1, <2>2
    <2>4. Reply(q) /\ UNCHANGED modem
      BY <1>10, <2>1, <2>3, Replying DEF Resolve
    <2> QED
      BY <1>4, <2>2, <2>4
  <1>11. CASE Other(c)
    <2>1. UNCHANGED modem /\ (Say(<<OK>>, c) \/ Say(<<ERROR>>, c))
      BY <1>11 DEF Other
    <2> QED
      BY <1>4, <2>1, Replying
  <1> QED
    BY <1>6, <1>7, <1>8, <1>9, <1>10, <1>11

(* The command at the head is the one that is executed. *)
LEMMA Executes ==
  ASSUME IndInv, ModemExecutes
  PROVE  /\ inbox # << >> /\ inbox' = Tail(inbox) /\ inbox[1] \in Cmds
         /\ UNCHANGED <<sockets, op, arg, wait, expired, result, lost>>
         /\ \/ inbox[1].kind = "NSOCR" /\ Create(inbox[1])
            \/ inbox[1].kind = "NSOCO" /\ Connect(inbox[1])
            \/ inbox[1].kind = "NSOCL" /\ Close(inbox[1])
            \/ inbox[1].kind \in {"NSORF", "USORD"} /\ Read(inbox[1])
            \/ inbox[1].kind = "UDNSRN" /\ Resolve(inbox[1])
            \/ inbox[1].kind = "NSOST" /\ Other(inbox[1])
  <1> DEFINE c == inbox[1]
  <1>1. inbox # << >> /\ inbox' = Tail(inbox) /\ dataMode = FALSE /\ Head(inbox) = c
        /\ UNCHANGED <<sockets, op, arg, wait, expired, result, lost>>
    BY DEF ModemExecutes, IndInv, Answers, WireTypes
  <1>2. c \in Cmds
    BY <1>1 DEF IndInv, WireTypes
  <1>3. c.kind \in Requests
    BY <1>2 DEF Cmds
  <1>4. CASE c.kind = "NSOCR" \/ c.kind = "NSOCO" \/ c.kind = "NSOCL"
    BY <1>1, <1>2, <1>4 DEF ModemExecutes
  <1>5. CASE c.kind \in {"NSORF", "USORD"}
    BY <1>1, <1>2, <1>5 DEF ModemExecutes
  <1>6. CASE c.kind = "UDNSRN" \/ c.kind = "NSOST"
    BY <1>1, <1>2, <1>6 DEF ModemExecutes
  <1> QED
    BY <1>3, <1>4, <1>5, <1>6 DEF Requests

(* The modem executes a command. *)
LEMMA ExecutesInv ==
  ASSUME IndInv, ModemExecutes
  PROVE  IndInv'
  <1>1. /\ inbox # << >> /\ inbox' = Tail(inbox)
        /\ UNCHANGED <<sockets, op, arg, wait, expired, result, lost>>
    BY Executes
  <1>2. /\ ModemTypes' /\ dataMode' = dataMode
        /\ \E q : Reply(q) /\ Say(q, inbox[1])
    <2>1. PICK c \in Cmds : c = inbox[1]
      BY Executes
    <2>2. Create(c) \/ Connect(c) \/ Close(c) \/ Read(c) \/ Resolve(c) \/ Other(c)
      BY <2>1, Executes
    <2> QED
      BY <1>1, <2>1, <2>2, Executed DEF IndInv
  <1>3. PICK q : Reply(q) /\ Say(q, inbox[1])
    BY <1>2
  <1>4. WireTypes' /\ Answers' /\ inbox' = << >>
    BY <1>1, <1>2, <1>3, SayKeeps DEF IndInv, wait
  <1> QED
    BY <1>1, <1>2, <1>4, OutsideInv

----------------------------------------------------------------------------
(* What comes by itself, and what is lost. *)

(* An announcement goes behind what is on the line. *)
LEMMA Announced ==
  ASSUME WireTypes, Answers, NEW k \in About, NEW h \in Handles, NEW n \in Nat,
         line' = Append(line, Urc(k, h, n)),
         UNCHANGED <<inbox, at, poll, ret, own, dataMode>>
  PROVE  /\ WireTypes' /\ Answers' /\ Len(line') = Len(line) + 1
         /\ \A i \in 1 .. Len(line) : line'[i] = line[i]
         /\ line'[Len(line) + 1] = Urc(k, h, n)
  <1>1. Urc(k, h, n) \in Lined /\ Urc(k, h, n).kind = k /\ Urc(k, h, n).handle = h
    BY DEF Urc, Lined, Replies, AnyHandle, About, Announcing
  <1>2. /\ line' \in Seq(Lined) /\ Len(line) \in Nat /\ Len(line') = Len(line) + 1
        /\ \A i \in 1 .. Len(line) : line'[i] = line[i]
        /\ line'[Len(line) + 1] = Urc(k, h, n)
    BY <1>1, AppendProperties DEF WireTypes
  <1>3. \A i \in 1 .. Len(line') : i \in 1 .. Len(line) \/ i = Len(line) + 1
    BY <1>2
  <1>4. WireTypes'
    BY <1>1, <1>2, <1>3 DEF WireTypes
  <1>5. \A i \in 1 .. Len(line') : line'[i].kind \in Final =>
          i \in 1 .. Len(line) /\ line'[i] = line[i]
    BY <1>1, <1>2, <1>3 DEF Final, About, Announcing
  <1>6. Answers'
    BY <1>5 DEF Answers, Asking
  <1> QED
    BY <1>2, <1>4, <1>6

(* Data comes. *)
LEMMA DataInv ==
  ASSUME IndInv, NEW h \in Handles, NEW n \in 1 .. MaxBuffered, DataArrives(h, n)
  PROVE  IndInv'
  <1>1. /\ h \in open /\ held[h] + n <= MaxBuffered
        /\ held' = [held EXCEPT ![h] = @ + n]
        /\ line' = Append(line, Urc("NSONMI", h, held'[h]))
        /\ UNCHANGED <<sockets, op, arg, wait, expired, result, inbox, open, conn, dataMode,
                       given, lost>>
    BY DEF DataArrives
  <1>2. held[h] \in 0 .. MaxBuffered /\ n \in Nat /\ MaxBuffered \in Nat
    BY SocketsAssumption DEF IndInv, ModemTypes
  <1>3. held[h] + n \in 0 .. MaxBuffered
    BY <1>1, <1>2
  <1>4. held' \in [Handles -> 0 .. MaxBuffered] /\ held'[h] \in Nat
    BY <1>1, <1>2, <1>3 DEF IndInv, ModemTypes
  <1>5. ModemTypes'
    BY <1>1, <1>4 DEF IndInv, ModemTypes
  <1>6. WireTypes' /\ Answers'
    BY <1>1, <1>4, Announced DEF IndInv, wait, About, Announcing
  <1> QED
    BY <1>1, <1>5, <1>6, OutsideInv

(* The other side closes. *)
LEMMA RemoteInv ==
  ASSUME IndInv, NEW h \in Handles, RemoteCloses(h)
  PROVE  IndInv'
  <1>1. /\ h \in conn /\ conn' = conn \ {h}
        /\ line' = Append(line, Urc("UUSOCL", h, 0))
        /\ UNCHANGED <<sockets, op, arg, wait, expired, result, inbox, open, held, dataMode,
                       given, lost>>
    BY DEF RemoteCloses
  <1>2. PICK n \in Nat : n = 0
    OBVIOUS
  <1>3. line' = Append(line, Urc("UUSOCL", h, n))
    BY <1>1, <1>2
  <1>4. ModemTypes'
    BY <1>1 DEF IndInv, ModemTypes
  <1>5. WireTypes' /\ Answers'
    BY <1>1, <1>3, Announced DEF IndInv, wait, About
  <1> QED
    BY <1>1, <1>4, <1>5, OutsideInv

(* A line without one of its elements. *)
LEMMA Cut ==
  ASSUME NEW q \in Seq(Lined), NEW i \in 1 .. Len(q)
  PROVE  LET r == SubSeq(q, 1, i - 1) \o SubSeq(q, i + 1, Len(q))
         IN /\ r \in Seq(Lined) /\ Len(q) \in Nat /\ Len(r) = Len(q) - 1
            /\ \A j \in 1 .. Len(r) : LET k == IF j < i THEN j ELSE j + 1
                                      IN k \in 1 .. Len(q) /\ r[j] = q[k]
  <1> DEFINE a == SubSeq(q, 1, i - 1)
             b == SubSeq(q, i + 1, Len(q))
             r == a \o b
  <1>1. Len(q) \in Nat /\ i \in Nat /\ i >= 1 /\ i <= Len(q)
    OBVIOUS
  <1>2. a \in Seq(Lined) /\ Len(a) = i - 1 /\ \A j \in 1 .. i - 1 : a[j] = q[j]
    <2>1. \A j \in 1 .. i - 1 : j \in 1 .. Len(q)
      BY <1>1
    <2> QED
      BY <1>1, <2>1, SubSeqProperties
  <1>3. b \in Seq(Lined) /\ Len(b) = Len(q) - i /\ \A j \in 1 .. Len(q) - i : b[j] = q[i + j]
    <2>1. \A j \in i + 1 .. Len(q) : j \in 1 .. Len(q)
      BY <1>1
    <2> QED
      BY <1>1, <2>1, SubSeqProperties
  <1> HIDE DEF a, b
  <1>4. r = a \o b
    OBVIOUS
  <1> HIDE DEF r
  <1>5. /\ r \in Seq(Lined) /\ Len(r) = Len(q) - 1
        /\ \A j \in 1 .. Len(a) : r[j] = a[j]
        /\ \A j \in Len(a) + 1 .. Len(a) + Len(b) : r[j] = b[j - Len(a)]
    <2>1. /\ r \in Seq(Lined) /\ Len(r) = Len(a) + Len(b)
          /\ \A j \in 1 .. Len(r) : r[j] = IF j <= Len(a) THEN a[j] ELSE b[j - Len(a)]
      <3>1. a \in Seq(Lined) /\ b \in Seq(Lined)
        BY <1>2, <1>3
      <3>2. /\ a \o b \in Seq(Lined) /\ Len(a \o b) = Len(a) + Len(b)
            /\ \A j \in 1 .. Len(a) + Len(b) :
                 (a \o b)[j] = IF j <= Len(a) THEN a[j] ELSE b[j - Len(a)]
        BY <3>1, ConcatProperties
      <3> QED
        BY <1>4, <3>2
    <2>2. Len(a) \in Nat /\ Len(b) \in Nat /\ Len(r) = Len(q) - 1
      BY <1>1, <1>2, <1>3, <2>1
    <2>3. \A j \in 1 .. Len(a) : j \in 1 .. Len(r) /\ j <= Len(a)
      BY <2>1, <2>2
    <2>4. \A j \in Len(a) + 1 .. Len(a) + Len(b) : j \in 1 .. Len(r) /\ ~(j <= Len(a))
      BY <2>1, <2>2
    <2> QED
      BY <2>1, <2>2, <2>3, <2>4
  <1>6. ASSUME NEW j \in 1 .. Len(r), j < i
        PROVE  j \in 1 .. Len(q) /\ r[j] = q[j]
    <2>1. j \in 1 .. i - 1 /\ j \in 1 .. Len(a) /\ j \in 1 .. Len(q)
      BY <1>1, <1>2, <1>5, <1>6
    <2> QED
      BY <1>2, <1>5, <2>1
  <1>7. ASSUME NEW j \in 1 .. Len(r), ~(j < i)
        PROVE  j + 1 \in 1 .. Len(q) /\ r[j] = q[j + 1]
    <2>1. Len(a) = i - 1 /\ Len(b) = Len(q) - i /\ Len(r) = Len(q) - 1
      BY <1>2, <1>3, <1>5
    <2>2. j \in i .. Len(q) - 1
      BY <1>1, <1>7, <2>1
    <2>3. j \in Len(a) + 1 .. Len(a) + Len(b) /\ j - Len(a) \in 1 .. Len(q) - i
      BY <1>1, <2>1, <2>2
    <2>4. i + (j - Len(a)) = j + 1 /\ j + 1 \in 1 .. Len(q)
      BY <1>1, <2>1, <2>2
    <2>5. r[j] = b[j - Len(a)] /\ b[j - Len(a)] = q[i + (j - Len(a))]
      BY <1>3, <1>5, <2>3
    <2> QED
      BY <2>4, <2>5
  <1> QED
    BY <1>1, <1>5, <1>6, <1>7 DEF r, a, b

(* A line is lost. *)
LEMMA LostInv ==
  ASSUME IndInv, LineLost
  PROVE  IndInv'
  <1>1. /\ lost' = lost + 1
        /\ UNCHANGED <<sockets, op, arg, wait, expired, result, inbox, modem>>
    BY DEF LineLost
  <1>2. line \in Seq(Lined) /\ DOMAIN line = 1 .. Len(line)
    BY DEF IndInv, WireTypes
  <1>3. PICK i \in 1 .. Len(line) :
          line' = SubSeq(line, 1, i - 1) \o SubSeq(line, i + 1, Len(line))
    BY <1>2 DEF LineLost
  <1> DEFINE from(j) == IF j < i THEN j ELSE j + 1
  <1>4. /\ line' \in Seq(Lined) /\ Len(line) \in Nat /\ Len(line') = Len(line) - 1
        /\ \A j \in 1 .. Len(line') : from(j) \in 1 .. Len(line) /\ line'[j] = line[from(j)]
    <2>1. PICK r : r = line'
      OBVIOUS
    <2>2. r = SubSeq(line, 1, i - 1) \o SubSeq(line, i + 1, Len(line))
      BY <1>3, <2>1
    <2>3. PICK q \in Seq(Lined) : q = line
      BY <1>2
    <2>4. i \in 1 .. Len(q) /\ r = SubSeq(q, 1, i - 1) \o SubSeq(q, i + 1, Len(q))
      BY <2>2, <2>3
    <2>5. /\ r \in Seq(Lined) /\ Len(q) \in Nat /\ Len(r) = Len(q) - 1
          /\ \A j \in 1 .. Len(r) : from(j) \in 1 .. Len(q) /\ r[j] = q[from(j)]
      BY <2>4, Cut
    <2> QED
      BY <2>1, <2>3, <2>5
  <1>5. \A j, k \in 1 .. Len(line') : from(j) = from(k) => j = k
    BY <1>4
  <1> HIDE DEF from
  <1>6. WireTypes'
    BY <1>1, <1>4 DEF IndInv, WireTypes
  <1>7. Answers'
    <2>1. Answers
      BY DEF IndInv
    <2>2. ~Asking' \/ inbox' # << >> => \A j \in 1 .. Len(line') : line'[j].kind \notin Final
      BY <1>1, <1>4, <2>1 DEF Answers, Asking, wait
    <2>3. ASSUME NEW j \in 1 .. Len(line'), line'[j].kind \in Final
          PROVE  /\ line'[j].fresh = TRUE
                 /\ \A k \in 1 .. Len(line') : line'[k].kind \in Final => k = j
      <3>1. line[from(j)].fresh = TRUE
            /\ \A k \in 1 .. Len(line) : line[k].kind \in Final => k = from(j)
        BY <1>4, <2>1, <2>3 DEF Answers
      <3> QED
        BY <1>4, <1>5, <3>1
    <2> QED
      BY <1>1, <2>1, <2>2, <2>3 DEF Answers, Asking, wait, modem
  <1>8. ModemTypes'
    BY <1>1 DEF IndInv, ModemTypes, modem
  <1> QED
    BY <1>1, <1>6, <1>7, <1>8, OutsideInv

----------------------------------------------------------------------------
(* The invariant, and what it says. *)

(* The driver starts with no handle and nothing under way. *)
THEOREM InitInv == Prompt /\ Init => IndInv
  <1> SUFFICES ASSUME Prompt, Init PROVE IndInv
    OBVIOUS
  <1> USE DEF Init
  <1>1. FreeSlot \in Slot /\ FreeSlot.handle = SOCKET_ERROR /\ FreeSlot.pending = 0
        /\ FreeSlot.connected = FALSE
    BY DEF FreeSlot, Slot, AnyHandle
  <1>2. LET r == [FreeSlot EXCEPT !.blocking = FALSE]
        IN r \in Slot /\ r.handle = SOCKET_ERROR /\ r.pending = 0 /\ r.connected = FALSE
    BY <1>1 DEF Slot
  <1>3. sockets \in [Slots -> Slot] /\ SlotZero
    BY <1>2, ZeroIsSlot DEF SlotZero
  <1>4. result \in Results /\ result.failed = FALSE
    BY DEF Results, Ops
  <1>5. poll \in BOOLEAN /\ failed \in BOOLEAN /\ own \in BOOLEAN /\ expired \in BOOLEAN
    OBVIOUS
  <1>6. DriverTypes
    <2>1. op \in Ops /\ op = "none" /\ at \in Points /\ ret = "none" /\ arg \in Args
      BY Argument DEF Ops, Points
    <2>2. handle \in Int /\ param \in Int
      BY DEF SOCKET_ERROR
    <2> QED
      BY <1>3, <1>4, <1>5, <2>1, <2>2 DEF DriverTypes
  <1>7. WireTypes
    BY DEF WireTypes
  <1>8. ModemTypes
    BY SocketsAssumption DEF ModemTypes
  <1>9. Answers /\ Places
    BY DEF Answers, Places, Asking, Final
  <1>10. Locals /\ Failures
    BY <1>4 DEF Locals, Reading, OnZero, Failures, FailureReported
  <1> QED
    BY <1>3, <1>6, <1>7, <1>8, <1>9, <1>10 DEF IndInv

(* Every step keeps the invariant. *)
THEOREM StepInv == IndInv /\ [Next]_vars => IndInv'
  <1> SUFFICES ASSUME IndInv, [Next]_vars PROVE IndInv'
    OBVIOUS
  <1>1. CASE Driver
    BY <1>1, WaitLineInv, WaitTimeoutInv, SocketDoneInv, ConnectSendInv, ConnectRefusedInv,
       ConnectDoneInv, CloseDoneInv, FreeDoneInv, SendInv, SendToMoreInv, SendToDoneInv,
       ReadableDoneInv, RecvCommandInv, RecvDoneInv, RecvPollInv, RecvPolledInv,
       RecvGiveUpInv DEF Driver
  <1>2. CASE Call
    BY <1>2, CallInv
  <1>3. CASE TimerExpires
    BY <1>3, TimerInv
  <1>4. CASE ModemExecutes
    BY <1>4, ExecutesInv
  <1>5. CASE Environment
    <2>1. ~PromptEnds
      BY DEF PromptEnds, IndInv, Answers
    <2> QED
      BY <1>5, <2>1, DataInv, RemoteInv, LostInv DEF Environment
  <1>6. CASE UNCHANGED vars
    <2>1. inbox' = inbox /\ UNCHANGED <<line, dataMode, wait, open, conn, held, given, lost>>
          /\ UNCHANGED <<sockets, op, arg, wait, expired, result>>
      BY <1>6 DEF vars, modem
    <2>2. WireTypes' /\ ModemTypes' /\ Answers'
      BY <2>1 DEF IndInv, WireTypes, ModemTypes, Answers, Asking, wait
    <2> QED
      BY <2>1, <2>2, OutsideInv
  <1> QED
    BY <1>1, <1>2, <1>3, <1>4, <1>5, <1>6 DEF Next

(* Always. *)
THEOREM Invariance == Prompt /\ Spec => []IndInv
  BY InitInv, StepInv, PTL DEF Spec

(* A wait ends only with the answer to the command it belongs to: calls    *)
(* neither take each other's answers nor meet one where they only poll.    *)
THEOREM OwnAnswers == Prompt /\ Spec => []AnswersAreOwn
  <1>1. IndInv => AnswersAreOwn
    BY DEF IndInv, Answers, AnswersAreOwn
  <1> QED
    BY <1>1, Invariance, PTL

(* No call but socketFree and socketSendTo hides an ERROR. *)
THEOREM FailuresShow == Prompt /\ Spec => []FailureReported
  <1>1. IndInv => FailureReported
    BY DEF IndInv, Failures
  <1> QED
    BY <1>1, Invariance, PTL

(* Only slot 0 is ever used, with the handle 0: the callback of             *)
(* socketSocket stores 0 for the final OK.                                 *)
THEOREM OnlySlotZero == Prompt /\ Spec => []SlotZero
  <1>1. IndInv => SlotZero
    BY DEF IndInv
  <1> QED
    BY <1>1, Invariance, PTL
=============================================================================
