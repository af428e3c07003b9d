---------------------------- MODULE MdmServices -----------------------------
(***************************************************************************)
(* SMS, USSD, files and CellLocate of MDMParser (MDM.cpp:1735-2113), called *)
(* by several threads as MDMRtos allows.  A function takes the lock, sends  *)
(* a command, waits for its final line while a callback collects the lines  *)
(* before it, and gives the lock back; two functions go on after a prompt,  *)
(* one reads a file in blocks and lets the lock go between them, and one    *)
(* waits for lines without the lock.                                        *)
(*                                                                          *)
(* The modem is external, as in MdmSockets: it answers in order and its     *)
(* answers have no reference to their command.  A line keeps in "fresh"     *)
(* whether it answers the last command sent.                                *)
(***************************************************************************)
EXTENDS Integers, Sequences, FiniteSets, SequencesExt

CONSTANTS
    Threads,
    Calls,        \* what they call: [fn, arg], one command after the other
    Ixs,          \* storage positions of messages
    MAX_SIZE,     \* the largest block of readFileNew
    MaxFile,      \* bound on the length of a file
    Garbage,      \* what an int may hold that nobody has set
    MaxCalls, MaxLost, MaxLate   \* bounds on calls, lost lines, late answers

VARIABLES
    lock,         \* the thread that has the mutex, or "free"
    me,           \* per thread: the function, where it is, and its locals
    result,       \* the last function that returned: its locals, what it returned
    position,     \* _loc[0].validData and the request its data answer
    locRcvPos, locExpPos,
    inbox, line,  \* commands to the modem, lines from it
    msgs, file,   \* the modem: messages stored, the file (<<>>: none)
    dataMode,     \* it has prompted and takes what comes for data
    locating,     \* requests whose position is still to come
    truth,        \* what it did for the last command: [ok, val]
    requests, alone,    \* requests so far; there is one and the last had no other under way
    written, calls, lost, late

modem == <<msgs, file, dataMode, locating, truth, written>>
place == <<position, locRcvPos, locExpPos, requests, alone>>
count == <<calls, lost, late>>
vars  == <<lock, me, result, place, inbox, line, modem, count>>

NoByte == <<0, 0>>
NoBuffer == [i \in 1 .. MaxFile |-> NoByte]
NoCall == [fn |-> "none", arg |-> 0]
Idle == [call |-> NoCall, cmd |-> "none", at |-> "idle", ret |-> "none",
         buf |-> NoBuffer, cnt |-> 0, off |-> 0, left |-> 0,
         own |-> TRUE, robbed |-> FALSE, changed |-> FALSE, asked |-> 0]
NoTruth == [ok |-> FALSE, val |-> <<>>]

Least(x, y) == IF x < y THEN x ELSE y
Final == {"OK", "ERROR", "CME", "PROMPT"}
Line(k, v) == [kind |-> k, val |-> v, fresh |-> TRUE]
Old(q) == [i \in DOMAIN q |-> [q[i] EXCEPT !.fresh = FALSE]]

(* The command a function begins with; infoFile is how readFileNew begins.  *)
Command == [smsList |-> "CMGL", smsSend |-> "CMGS", smsDelete |-> "CMGD",
            smsRead |-> "CMGR", ussdCommand |-> "CUSD", delFile |-> "UDELFILE",
            writeFile |-> "UDWNFILE", readFile |-> "URDFILE", infoFile |-> "ULSTFILE",
            readFileNew |-> "ULSTFILE", cellLocSrvUdp |-> "UGAOP",
            cellLocConfig |-> "ULOCCELL", cellLocRequest |-> "ULOC"]

(* _dev.dev is never assigned, so these two find an unsupported device.     *)
Unsupported == {"cellLocSrvTcp", "cellLocUnsol"}

(* What a thread may call; the last four ask the modem nothing.             *)
Callable == DOMAIN Command \cup Unsupported \cup {"cellLocGetExpRes", "cellLocGetData"}

ASSUME ServicesAssumption ==
    /\ "free" \notin Threads
    /\ Ixs \subseteq Nat \ {0} /\ IsFiniteSet(Ixs)
    /\ {MAX_SIZE, MaxFile} \subseteq Nat \ {0} /\ MaxFile > 1
    /\ Calls \subseteq [fn : Callable, arg : 0 .. MaxFile]
    /\ \A c \in Calls : c.fn = "writeFile" => c.arg > 0
    /\ {MaxCalls, MaxLost, MaxLate} \subseteq Nat
    /\ Garbage \subseteq Int /\ Garbage # {}

(* The constructor sets neither _loc nor _locRcvPos nor _locExpPos, and the *)
(* object comes from new: the first cellLocRequest does.                    *)
Init ==
    /\ lock = "free" /\ me = [t \in Threads |-> Idle]
    /\ result = [of |-> Idle, ok |-> FALSE, truth |-> NoTruth, file |-> <<>>]
    /\ position \in [validData : BOOLEAN, of : {0}]
    /\ locRcvPos \in Garbage /\ locExpPos \in Garbage
    /\ inbox = <<>> /\ line = <<>>
    /\ msgs = Ixs /\ file \in {<<>>, [i \in 1 .. MaxFile |-> <<0, i>>]} /\ dataMode = "none" /\ locating = {}
    /\ truth = NoTruth
    /\ requests = 0 /\ alone = FALSE
    /\ written = 0 /\ calls = 0 /\ lost = 0 /\ late = 0

-----------------------------------------------------------------------------
(* waitFinalResp.                                                           *)

Send(c) ==
    /\ inbox' = Append(Old(inbox), c)
    /\ line' = Old(line)
    /\ truth' = NoTruth

Wait(t, cmd, at) ==
    me' = [me EXCEPT ![t] = [@ EXCEPT !.cmd = cmd, !.at = at, !.ret = "none"]]

(* +UULOC of one position; the other lines that are handled for everybody   *)
(* belong to sockets, profiles and registration.                            *)
Unsolicited(l) ==
    IF l.kind = "UULOC"
    THEN /\ position' = [validData |-> TRUE, of |-> l.val[1]]
         /\ locExpPos' = 1
         /\ locRcvPos' = locRcvPos + 1
    ELSE UNCHANGED <<position, locRcvPos, locExpPos>>

Fill(buf, from, s) ==
    [i \in DOMAIN buf |-> IF i - from \in DOMAIN s THEN s[i - from] ELSE buf[i]]

(* _cbCMGL that writes one entry behind the end of its list.                *)
RoomForOneMore(m) == m.cnt <= m.call.arg

Room(m) == m.cnt < m.call.arg

(* The callbacks: what they store of a line in the locals m of the caller.  *)
Callback(m, l) ==
    CASE m.cmd = "CMGL" /\ l.kind = "CMGL" /\ Room(m) ->
           [m EXCEPT !.buf = Fill(@, m.cnt, <<l.val>>), !.cnt = @ + 1]
      [] m.cmd = "CMGR" /\ l.kind = "CMGR" -> [m EXCEPT !.buf = Fill(@, 0, <<l.val>>)]
      [] m.cmd = "CMGR" /\ l.kind = "TEXT" -> [m EXCEPT !.buf = Fill(@, 1, <<l.val>>)]
      [] m.cmd = "CUSD" /\ l.kind = "CUSD" -> [m EXCEPT !.buf = Fill(@, 0, <<l.val>>)]
      [] m.cmd = "URDFILE" /\ l.kind = "URDFILE" ->
           LET n == Least(Len(l.val), m.call.arg)
           IN  [m EXCEPT !.buf = Fill(@, 0, SubSeq(l.val, 1, n)), !.cnt = n]
      [] m.cmd = "URDBLOCK" /\ l.kind = "URDBLOCK" ->
           [m EXCEPT !.buf = Fill(@, m.off, l.val)]
      [] m.cmd = "ULSTFILE" /\ l.kind = "ULSTFILE" -> [m EXCEPT !.cnt = l.val[1]]
      [] OTHER -> m

(* _cbUDELFILE looks for FILE NOT FOUND in lines of TYPE_ERROR; the line is *)
(* of TYPE_ERROR_CME, so that it never answers RESP_OK.                     *)
FileNotFound(l) == l.kind = "CME"
CbUDELFILE(m, l) == IF m.cmd = "UDELFILE" /\ l.kind = "ERROR" /\ FileNotFound(l)
                    THEN "OK" ELSE l.kind

Taken(m, l) ==
    LET ret == CbUDELFILE(m, l)
    IN  [Callback(m, l) EXCEPT !.ret = IF l.kind \in Final THEN ret ELSE "none",
                               !.own = @ /\ (l.kind = "UULOC" \/ l.fresh)]

WaitLine(t) ==
    /\ me[t].at \in {"wait", "data"} /\ me[t].ret = "none" /\ line # <<>>
    /\ me' = [me EXCEPT ![t] = Taken(@, Head(line))]
    /\ Unsolicited(Head(line))
    /\ line' = Tail(line)
    /\ UNCHANGED <<lock, result, requests, alone, inbox, modem, count>>

(* The wait of cellLocGetExpRes has no callback, a time-out of 0 and is not *)
(* under the lock: it takes one line, whoever waits for it.                 *)
PollLine(t) ==
    /\ me[t].at = "poll"
    /\ IF line = <<>> THEN UNCHANGED <<line, position, locRcvPos, locExpPos>>
       ELSE Unsolicited(Head(line)) /\ line' = Tail(line)
    /\ LET robs == line # <<>> /\ Head(line).kind # "UULOC" /\ Head(line).fresh
       IN  me' = [u \in Threads |->
                    CASE u = t -> [me[u] EXCEPT !.at = "lock"]
                      [] u # t /\ u = lock /\ robs -> [me[u] EXCEPT !.robbed = TRUE]
                      [] OTHER -> me[u]]
    /\ UNCHANGED <<lock, result, requests, alone, inbox, modem, count>>

(* Ten seconds (a prompt for an SMS has 150) are enough for an answer that  *)
(* comes; MaxLate of them come too late.                                    *)
WaitTimeout(t) ==
    /\ me[t].at \in {"wait", "data"} /\ me[t].ret = "none"
    /\ LET m == me[t]
           isLate == inbox # <<>> \/ line # <<>>
       IN  /\ isLate => late < MaxLate
           /\ late' = IF isLate THEN late + 1 ELSE late
           /\ me' = [me EXCEPT ![t] = [m EXCEPT !.ret = "WAIT", !.own = m.own /\ ~isLate]]
    /\ UNCHANGED <<lock, result, place, inbox, line, modem, calls, lost>>

-----------------------------------------------------------------------------
(* The functions.                                                           *)

Return(t, m, ok) ==
    /\ me' = [me EXCEPT ![t] = Idle]
    /\ result' = [of |-> m, ok |-> ok, truth |-> truth, file |-> file]

(* cellLocGetData looks at validData before it takes the lock.  "asked" is  *)
(* the last request, if a valid position has to be its answer.              *)
Call(t, c) ==
    /\ me[t].at = "idle" /\ calls < MaxCalls
    /\ calls' = calls + 1
    /\ LET m == [Idle EXCEPT !.call = c, !.asked = IF alone THEN requests ELSE 0,
                   !.at = IF c.fn = "cellLocGetExpRes" THEN "poll" ELSE "lock",
                   !.cmd = IF c.fn \in DOMAIN Command THEN Command[c.fn] ELSE "none"]
       IN  IF c.fn = "cellLocGetData" /\ ~position.validData
           THEN Return(t, m, FALSE)
           ELSE me' = [me EXCEPT ![t] = m] /\ UNCHANGED result
    /\ UNCHANGED <<lock, place, inbox, line, modem, lost, late>>

Locks(t) == me[t].at = "lock" /\ lock = "free"

Unlock == lock' = "free"

(* The functions that ask the modem nothing.                                *)
ReturnLocal(t) ==
    /\ Locks(t) /\ me[t].cmd = "none"
    /\ LET m == me[t]
       IN  CASE m.call.fn \in Unsupported -> Return(t, m, FALSE)
             [] m.call.fn = "cellLocGetExpRes" ->
                  Return(t, [m EXCEPT !.cnt = IF locRcvPos > 0 THEN locExpPos ELSE 0], TRUE)
             [] m.call.fn = "cellLocGetData" ->
                  Return(t, [m EXCEPT !.cnt = position.of], TRUE)
    /\ UNCHANGED <<lock, place, inbox, line, modem, count>>

OnItsWay(q, kind) == \E i \in DOMAIN q : q[i].kind = kind

BlockSize(m) == Least(m.left, MAX_SIZE)

(* cellLocRequest that leaves the position before valid.                    *)
ForgetCounts == UNCHANGED position /\ locRcvPos' = 0 /\ locExpPos' = 0

ForgetPositions ==
    /\ position' = [position EXCEPT !.validData = FALSE]
    /\ locRcvPos' = 0 /\ locExpPos' = 0

(* LOCK and the command; cellLocRequest forgets the positions it has.       *)
SendCommand(t) ==
    /\ Locks(t) /\ me[t].cmd # "none"
    /\ lock' = t
    /\ LET m == me[t]
           v == IF m.cmd = "URDBLOCK" THEN <<m.off, BlockSize(m)>> ELSE <<m.call.arg>>
       IN  Send(Line(m.cmd, v)) /\ Wait(t, m.cmd, "wait")
    /\ IF me[t].cmd = "ULOC"
       THEN /\ ForgetPositions
            /\ requests' = requests + 1
            /\ alone' = (locating = {} /\ ~OnItsWay(line, "UULOC") /\ ~OnItsWay(inbox, "ULOC"))
       ELSE UNCHANGED place
    /\ UNCHANGED <<result, msgs, file, dataMode, locating, written, count>>

Answered(t) == lock = t /\ me[t].ret # "none"

(* A function of one command, and the last step of the others.              *)
ReturnAnswer(t) ==
    /\ Answered(t)
    /\ me[t].call.fn # "readFileNew"
    /\ ~(me[t].at = "wait" /\ me[t].cmd \in {"CMGS", "UDWNFILE"} /\ me[t].ret = "PROMPT")
    /\ Unlock
    /\ Return(t, me[t], me[t].ret = "OK" /\ (me[t].cmd \in {"CMGS", "UDWNFILE"} => me[t].at = "data"))
    /\ UNCHANGED <<place, inbox, line, modem, count>>

(* smsSend and writeFile: the prompt, the data, one more answer.            *)
SendData(t) ==
    /\ Answered(t) /\ me[t].at = "wait" /\ me[t].ret = "PROMPT"
    /\ me[t].cmd \in {"CMGS", "UDWNFILE"}
    /\ Send(Line(IF me[t].cmd = "CMGS" THEN "SMS" ELSE "DATA", <<me[t].call.arg>>))
    /\ Wait(t, me[t].cmd, "data")
    /\ UNCHANGED <<lock, result, place, msgs, file, dataMode, locating, written, count>>

(* readFileNew: infoFile has returned the size, or not.                     *)
FileSized(t) ==
    /\ Answered(t) /\ me[t].call.fn = "readFileNew" /\ me[t].cmd = "ULSTFILE"
    /\ Unlock
    /\ LET m == me[t]
       IN  IF m.ret = "OK" /\ m.cnt > 0
           THEN /\ me' = [me EXCEPT ![t] = [m EXCEPT !.cmd = "URDBLOCK", !.at = "lock",
                                                     !.left = m.left + m.cnt, !.cnt = 0]]
                /\ UNCHANGED result
           ELSE Return(t, m, FALSE)
    /\ UNCHANGED <<place, inbox, line, modem, count>>

(* readFileNew that counts whole blocks.                                    *)
AfterBlockWhole(m) ==
    LET n == BlockSize(m)
    IN  [m EXCEPT !.off = @ + n, !.left = @ - n, !.at = "lock", !.cnt = m.off + MAX_SIZE]

AfterBlock(m) ==
    LET n == BlockSize(m)
    IN  [m EXCEPT !.off = @ + n, !.left = @ - n, !.at = "lock", !.cnt = m.off + n]

(* A block is there when its OK is; what came of it is not looked at.       *)
BlockRead(t) ==
    /\ Answered(t) /\ me[t].cmd = "URDBLOCK"
    /\ Unlock
    /\ LET m == AfterBlock(me[t])
       IN  CASE me[t].ret # "OK" -> Return(t, me[t], FALSE)
             [] me[t].ret = "OK" /\ m.left = 0 -> Return(t, m, TRUE)
             [] OTHER -> me' = [me EXCEPT ![t] = m] /\ UNCHANGED result
    /\ UNCHANGED <<place, inbox, line, modem, count>>

-----------------------------------------------------------------------------
(* The modem.                                                               *)

Refused(c) == <<Line(IF c.kind \in {"UDELFILE", "URDFILE", "ULSTFILE", "URDBLOCK"}
                     THEN "CME" ELSE "ERROR", <<>>)>>
Listed == SetToSeq(msgs)

(* The lines before the OK.                                                 *)
Lines(c) ==
    CASE c.kind = "CMGL" -> [i \in DOMAIN Listed |-> Line("CMGL", <<Listed[i], 0>>)]
      [] c.kind = "CMGR" -> <<Line("CMGR", <<c.val[1], 1>>), Line("TEXT", <<c.val[1], 2>>)>>
      [] c.kind = "URDFILE" -> <<Line("URDFILE", file)>>
      [] c.kind = "ULSTFILE" -> <<Line("ULSTFILE", <<Len(file)>>)>>
      [] c.kind = "URDBLOCK" ->
           <<Line("URDBLOCK", SubSeq(file, c.val[1] + 1, Least(c.val[1] + c.val[2], Len(file))))>>
      [] OTHER -> <<>>

Said(c) == CASE c.kind = "CMGL" -> [i \in DOMAIN Listed |-> <<Listed[i], 0>>]
             [] c.kind \in {"URDFILE", "ULSTFILE"} -> file
             [] OTHER -> <<>>

Accepts(c) ==
    CASE c.kind \in {"CMGD", "CMGR"} -> c.val[1] \in msgs
      [] c.kind \in {"UDELFILE", "URDFILE", "ULSTFILE", "URDBLOCK"} -> file # <<>>
      [] c.kind \in {"SMS", "DATA"} -> FALSE
      [] OTHER -> TRUE

Answer(c, lines, t) ==
    /\ inbox' = Tail(inbox)
    /\ line' = line \o IF c.fresh THEN lines ELSE Old(lines)
    /\ truth' = IF c.fresh THEN t ELSE truth

(* The file changes under the calls that are reading it.                    *)
FileChanges(f) ==
    /\ file' = f
    /\ me' = [t \in Threads |-> [me[t] EXCEPT !.changed = TRUE]]

(* The reply to a USSD command comes before the OK or after it.             *)
Executes ==
    /\ inbox # <<>> /\ dataMode = "none"
    /\ LET c == Head(inbox)
           reply == Line("CUSD", <<0, 3>>)
       IN  \/ /\ Accepts(c) /\ c.kind \notin {"CMGS", "UDWNFILE", "CUSD"}
              /\ Answer(c, Lines(c) \o <<Line("OK", <<>>)>>, [ok |-> TRUE, val |-> Said(c)])
              /\ IF c.kind = "UDELFILE" THEN FileChanges(<<>>) ELSE UNCHANGED <<file, me>>
              /\ msgs' = IF c.kind = "CMGD" THEN msgs \ {c.val[1]} ELSE msgs
              /\ locating' = IF c.kind = "ULOC" THEN locating \cup {requests} ELSE locating
              /\ UNCHANGED dataMode
           \/ /\ c.kind = "CUSD"
              /\ \E first \in BOOLEAN :
                    Answer(c, IF first THEN <<reply, Line("OK", <<>>)>> ELSE <<Line("OK", <<>>), reply>>,
                           [ok |-> TRUE, val |-> IF first THEN <<reply.val>> ELSE <<>>])
              /\ UNCHANGED <<msgs, file, me, locating, dataMode>>
           \/ /\ c.kind \in {"CMGS", "UDWNFILE"}
              /\ Answer(c, <<Line("PROMPT", <<>>)>>, NoTruth)
              /\ dataMode' = IF c.kind = "CMGS" THEN "SMS" ELSE "DATA"
              /\ UNCHANGED <<msgs, file, me, locating>>
           \/ /\ Answer(c, Refused(c), NoTruth)
              /\ UNCHANGED <<msgs, file, me, locating, dataMode>>
    /\ UNCHANGED <<lock, result, place, written, count>>

(* After a prompt the modem waits for its data.                             *)
TakesData ==
    /\ inbox # <<>> /\ Head(inbox).kind = dataMode
    /\ LET c == Head(inbox)
       IN  \/ /\ Answer(c, <<Line("OK", <<>>)>>, [ok |-> TRUE, val |-> <<>>])
              /\ IF dataMode = "DATA"
                 THEN /\ written' = written + 1
                      /\ FileChanges([i \in 1 .. c.val[1] |-> <<written', i>>])
                 ELSE UNCHANGED <<file, me, written>>
           \/ /\ Answer(c, Refused(c), NoTruth)
              /\ UNCHANGED <<file, me, written>>
    /\ dataMode' = "none"
    /\ UNCHANGED <<lock, result, place, msgs, locating, count>>

(* Whatever else comes is taken for data as well: a command that was sent   *)
(* because the prompt came too late.                                        *)
Swallows ==
    /\ inbox # <<>> /\ dataMode # "none" /\ Head(inbox).kind # dataMode
    /\ inbox' = Tail(inbox)
    /\ me' = [t \in Threads |-> [me[t] EXCEPT !.own = @ /\ ~(lock = t /\ Head(inbox).fresh)]]
    /\ UNCHANGED <<lock, result, place, line, modem, count>>

Located ==
    /\ \E r \in locating :
          /\ locating' = locating \ {r}
          /\ line' = Append(line, Line("UULOC", <<r, 0>>))
    /\ UNCHANGED <<lock, me, result, place, inbox, msgs, file, dataMode, truth, written, count>>

(* A line damaged in the receive path is a line of no type.                 *)
Lose ==
    /\ lost < MaxLost /\ line # <<>>
    /\ lost' = lost + 1
    /\ line' = Tail(line)
    /\ me' = [t \in Threads |-> [me[t] EXCEPT !.own = @ /\ ~(lock = t /\ Head(line).fresh)]]
    /\ UNCHANGED <<lock, result, place, inbox, modem, calls, late>>

-----------------------------------------------------------------------------
Function(t) ==
    \/ WaitLine(t) \/ PollLine(t) \/ WaitTimeout(t)
    \/ ReturnLocal(t) \/ SendCommand(t) \/ ReturnAnswer(t)
    \/ SendData(t) \/ FileSized(t) \/ BlockRead(t)

Modem == Executes \/ TakesData \/ Swallows \/ Located

Next ==
    \/ \E t \in Threads : Function(t) \/ \E c \in Calls : Call(t, c)
    \/ Modem \/ Lose

Spec == Init /\ [][Next]_vars

-----------------------------------------------------------------------------
(* A call that met its own answers and all of them (none was lost, late, or *)
(* taken by another thread).                                                *)
Undisturbed(m) == m.own /\ ~m.robbed

Begins(buf, s) == \A i \in DOMAIN s : buf[i] = s[i]

(* What a call that succeeded has collected is what the modem listed for it.*)
(* The number of messages may be bigger than the list of smsList (MDM.h:382).*)
Collected(m, val) ==
    /\ m.cmd = "CMGL" => /\ m.cnt <= Len(val) /\ (m.cnt < m.call.arg => m.cnt = Len(val))
                         /\ Begins(m.buf, SubSeq(val, 1, Least(m.cnt, m.call.arg)))
    /\ m.cmd = "CMGR" => Begins(m.buf, <<<<m.call.arg, 1>>, <<m.call.arg, 2>>>>)
    /\ m.cmd = "CUSD" => Begins(m.buf, val)
    /\ m.cmd = "URDFILE" => /\ m.cnt = Least(m.call.arg, Len(val))
                            /\ Begins(m.buf, SubSeq(val, 1, m.cnt))
    /\ m.cmd = "ULSTFILE" => m.cnt = Len(val)

(* Success is what the modem did; a file that does not exist may count as   *)
(* deleted (MDM.cpp:1845).                                                  *)
Succeeded(ok, done, cmd, f) == ok = done \/ (ok /\ cmd = "UDELFILE" /\ f = <<>>)

(* smsList writes no entry behind the end of the list it is given.          *)
WithinList(m) ==
    m.cmd = "CMGL" => \A i \in DOMAIN m.buf : i > m.call.arg => m.buf[i] = NoByte

(* What an undisturbed call reports is what the modem did for it, whatever  *)
(* the other threads were doing: success and failure agree, and so does     *)
(* what the call has collected.  No call, disturbed or not, stores more     *)
(* messages than it was given room for.                                     *)
ResultIsTrue ==
    LET m == result.of
    IN  /\ (Undisturbed(m) /\ m.cmd # "none" /\ m.call.fn # "readFileNew") =>
              /\ Succeeded(result.ok, result.truth.ok, m.cmd, result.file)
              /\ result.ok /\ result.truth.ok => Collected(m, result.truth.val)
        /\ WithinList(m)

(* readFileNew lets the lock go between the blocks.  When nobody changed    *)
(* the file meanwhile, what it returns is the file, every block in its      *)
(* place and the last one as short as it has to be.                         *)
BlocksAreTheFile ==
    LET m == result.of
    IN  (Undisturbed(m) /\ m.cmd = "URDBLOCK" /\ result.ok /\ ~m.changed) =>
            m.cnt = Len(result.file) /\ Begins(m.buf, result.file)

(* From the first request on, a position that is valid answers the last     *)
(* request, when that was not made while another was still to be answered;  *)
(* and the one returned by cellLocGetData is no older than the call,        *)
(* whatever was asked since.  Before the first request nothing is promised. *)
PositionIsOfRequest ==
    /\ (alone /\ position.validData) => position.of = requests /\ locRcvPos = 1
    /\ (result.of.call.fn = "cellLocGetData" /\ result.ok) => result.of.cnt >= result.of.asked

=============================================================================
