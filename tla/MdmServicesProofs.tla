------------------------- MODULE MdmServicesProofs --------------------------
(***************************************************************************)
(* Proofs about MdmServices for every number of threads, calls, lost lines  *)
(* and late answers: what an undisturbed call reports is what the modem did *)
(* for it, a file read in blocks is the file, and a position answers the    *)
(* request it is taken for.                                                 *)
(***************************************************************************)
EXTENDS MdmServices, SequenceTheorems, FiniteSetTheorems, TLAPS

Byte   == Nat \X Nat
Values == Seq(Nat) \cup Seq(Byte)
Prompting == {"CMGS", "UDWNFILE"}
Requests == {"CMGL", "CMGR", "CMGD", "CUSD", "UDELFILE", "URDFILE", "ULSTFILE", "URDBLOCK",
             "UGAOP", "ULOCCELL", "ULOC"} \cup Prompting
Replies  == {"CMGL", "CMGR", "TEXT", "CUSD", "URDFILE", "ULSTFILE", "URDBLOCK", "UULOC"} \cup Final

Cmds  == {c \in [kind : Requests \cup {"SMS", "DATA"}, val : Seq(Nat), fresh : BOOLEAN] :
            /\ Len(c.val) > 0 /\ (c.kind = "DATA" => c.val[1] <= MaxFile)
            /\ c.kind = "URDBLOCK" => Len(c.val) = 2}
Lined == {l \in [kind : Replies, val : Values, fresh : BOOLEAN] :
            /\ l.kind \in {"ULSTFILE", "UULOC"} => l.val[1] \in Nat
            /\ l.kind \in {"URDFILE", "URDBLOCK"} => l.val \in Seq(Byte)}
Truths == [ok : BOOLEAN, val : Seq(Byte)]
Locals == [call : Calls \cup {NoCall}, cmd : Requests \cup {"none"},
           at : {"idle", "lock", "poll", "wait", "data"}, ret : Final \cup {"none", "WAIT"},
           buf : [1 .. MaxFile -> Values \cup Byte], cnt : Nat, off : Nat, left : Nat,
           own : BOOLEAN, robbed : BOOLEAN, changed : BOOLEAN, asked : Nat]

(* What a call returns may be a number that nobody has set.                 *)
Outcomes == {[m EXCEPT !.cnt = n] : m \in Locals, n \in Int}

DriverTypes ==
  /\ lock \in Threads \cup {"free"} /\ me \in [Threads -> Locals]
  /\ result \in [of : Outcomes, ok : BOOLEAN, truth : Truths, file : Seq(Byte)]
  /\ position \in [validData : BOOLEAN, of : Nat] /\ locRcvPos \in Int /\ locExpPos \in Int
  /\ requests \in Nat /\ alone \in BOOLEAN
  /\ calls \in Nat /\ lost \in Nat /\ late \in Nat

WireTypes == inbox \in Seq(Cmds) /\ line \in Seq(Lined)

ModemTypes ==
  /\ msgs \subseteq Ixs /\ file \in Seq(Byte) /\ Len(file) <= MaxFile
  /\ dataMode \in {"none", "SMS", "DATA"} /\ locating \subseteq Nat
  /\ truth \in Truths /\ written \in Nat

(* A function keeps to its command, and is in a wait while it has the lock. *)
Keeps(m) ==
  /\ m.at # "idle" => m.call \in Calls
  /\ m.cmd = "none" <=> m.call.fn \notin DOMAIN Command
  /\ m.at = "poll" => m.call.fn = "cellLocGetExpRes"
  /\ m.at \in {"wait", "data"} => m.cmd # "none"
  /\ m.at = "data" => m.cmd \in Prompting
  /\ m.call.fn = "readFileNew" => m.cmd \in {"ULSTFILE", "URDBLOCK"}
  /\ m.cmd = "URDBLOCK" => m.call.fn = "readFileNew"
  /\ m.cmd # "URDBLOCK" => m.off = 0 /\ m.left = 0
  /\ m.at = "lock" /\ m.cmd = "CMGL" => m.cnt = 0

Locked ==
  \A t \in Threads : /\ Keeps(me[t])
                     /\ lock = t <=> me[t].at \in {"wait", "data"}

(* Only the last command sent is fresh, and the modem has it last.          *)
LastIsFresh == \A i \in DOMAIN inbox : inbox[i].fresh => i = Len(inbox)

-----------------------------------------------------------------------------
(* The answer to the command of a call.                                     *)

SentKind(m) ==
  IF m.at = "wait" THEN m.cmd ELSE IF m.cmd = "CMGS" THEN "SMS" ELSE "DATA"
SentVal(m) ==
  IF m.cmd = "URDBLOCK" THEN <<m.off, BlockSize(m)>> ELSE <<m.call.arg>>

Stale(l) == l.kind = "UULOC" \/ ~l.fresh

(* The blocks before this one are in their place.                           *)
ReadSoFar(m, f) ==
  (m.cmd = "URDBLOCK" /\ ~m.changed) =>
      m.off + m.left = Len(f) /\ \A i \in 1 .. m.off : m.buf[i] = f[i]

(* What the line says that has n - 1 lines after it in the answer to m.     *)
Says(m, l, n, tr, f) ==
  \/ /\ m.cmd = "CMGL" /\ l.kind = "CMGL" /\ n - 1 <= Len(tr.val)
     /\ l.val = tr.val[Len(tr.val) - n + 2]
  \/ m.cmd = "CMGR" /\ l.kind = "CMGR" /\ n = 3 /\ l.val = <<m.call.arg, 1>>
  \/ m.cmd = "CMGR" /\ l.kind = "TEXT" /\ n = 2 /\ l.val = <<m.call.arg, 2>>
  \/ m.cmd = "CUSD" /\ l.kind = "CUSD" /\ n = 2 /\ tr.val = <<l.val>>
  \/ m.cmd = "URDFILE" /\ l.kind = "URDFILE" /\ n = 2 /\ l.val = tr.val
  \/ m.cmd = "ULSTFILE" /\ l.kind = "ULSTFILE" /\ n = 2 /\ l.val = <<Len(tr.val)>>
  \/ /\ m.cmd = "URDBLOCK" /\ l.kind = "URDBLOCK" /\ n = 2
     /\ ~m.changed => l.val = SubSeq(f, m.off + 1, m.off + BlockSize(m))

(* What the callback has of it in m when n lines are left.                  *)
Heard(m, n, tr, f) ==
  /\ m.cmd = "CMGL" => /\ n - 1 <= Len(tr.val)
                       /\ m.cnt = Least(m.call.arg, Len(tr.val) - n + 1)
                       /\ Begins(m.buf, SubSeq(tr.val, 1, m.cnt))
  /\ m.cmd = "CMGR" /\ n = 2 => m.buf[1] = <<m.call.arg, 1>>
  /\ m.cmd = "ULSTFILE" /\ ~m.changed => tr.val = f
  /\ n = 1 => /\ Collected(m, tr.val)
              /\ m.cmd = "URDBLOCK" /\ ~m.changed =>
                   \A i \in 1 .. m.off + BlockSize(m) : m.buf[i] = f[i]

(* n lines are left, the last one of this kind.                             *)
Told(m, n, kind, tr, f) ==
  /\ kind \in Final /\ (tr.ok <=> kind = "OK")
  /\ ~tr.ok => n = 1
  /\ tr.ok => Heard(m, n, tr, f) /\ (m.cmd \in Prompting => m.at = "data")

(* They come after k lines that are not of this answer.                     *)
AnswerAt(m, q, tr, f, k, n) ==
  /\ k + n <= Len(q)
  /\ \A i \in 1 .. k : Stale(q[i])
  /\ \A i \in k + 1 .. k + n : q[i].fresh
  /\ \A i \in k + 1 .. k + n - 1 : Says(m, q[i], k + n - i + 1, tr, f)
  /\ Told(m, n, q[k + n].kind, tr, f)

OnWire(m, q, tr, f) ==
  \E k \in 0 .. Len(q), n \in 1 .. Len(q) : AnswerAt(m, q, tr, f, k, n)

(* The command is still to be executed, and nothing has been heard.         *)
Sent(m, c, q, tr) ==
  /\ c.kind = SentKind(m) /\ c.val = SentVal(m) /\ c.fresh
  /\ \A i \in DOMAIN q : Stale(q[i])
  /\ tr = NoTruth /\ (m.cmd = "CMGL" => m.cnt = 0)

NoneFresh == \A i \in DOMAIN inbox : ~inbox[i].fresh

Awaits(t) ==
  \/ me[t].ret = "none" /\ inbox # << >> /\ Sent(me[t], Last(inbox), line, truth)
  \/ me[t].ret = "none" /\ NoneFresh /\ OnWire(me[t], line, truth, file)
  \/ NoneFresh /\ Told(me[t], 1, me[t].ret, truth, file)

Talks ==
  \A t \in Threads : lock = t /\ Undisturbed(me[t]) => Awaits(t)

Reads ==
  \A t \in Threads : Undisturbed(me[t]) => ReadSoFar(me[t], file)

(* A request whose answer is under way has no other beside it.              *)
OneOnItsWay ==
  /\ \A i \in DOMAIN inbox : inbox[i].kind = "ULOC" =>
       /\ \A j \in DOMAIN inbox : inbox[j].kind = "ULOC" => j = i
       /\ locating = {} /\ ~OnItsWay(line, "UULOC") /\ locRcvPos = 0
  /\ locating # {} => locating = {requests} /\ ~OnItsWay(line, "UULOC") /\ locRcvPos = 0
  /\ \A i \in DOMAIN line : line[i].kind = "UULOC" =>
       /\ \A j \in DOMAIN line : line[j].kind = "UULOC" => j = i
       /\ line[i].val[1] = requests /\ locRcvPos = 0
  /\ position.validData => position.of = requests /\ locRcvPos = 1

(* Nothing older than what a call of cellLocGetData asks for can come.      *)
NoneOlder(n) ==
  /\ n <= requests /\ n <= position.of
  /\ \A r \in locating : n <= r
  /\ \A i \in DOMAIN line : line[i].kind = "UULOC" => n <= line[i].val[1]

Positions ==
  /\ alone => OneOnItsWay
  /\ \A t \in Threads : me[t].call.fn = "cellLocGetData" => NoneOlder(me[t].asked)

TypeOK == DriverTypes /\ WireTypes /\ ModemTypes

(* Success and failure, and what has been collected.                        *)
Truthful ==
  LET m == result.of
  IN  (Undisturbed(m) /\ m.cmd # "none" /\ m.call.fn # "readFileNew") =>
          /\ result.ok = result.truth.ok
          /\ result.ok => Collected(m, result.truth.val)

Results == Truthful /\ BlocksAreTheFile /\ PositionIsOfRequest
ServInv == TypeOK /\ Locked /\ LastIsFresh /\ Talks /\ Reads /\ Positions /\ Results

-----------------------------------------------------------------------------
(* The operators of the model.                                              *)

(* What can be returned. *)
LEMMA OutcomeFacts ==
  \A m \in Locals : m \in Outcomes /\ \A n \in Int : [m EXCEPT !.cnt = n] \in Outcomes
  <1>1. \A m \in Locals : m = [m EXCEPT !.cnt = m.cnt] /\ m.cnt \in Int
    BY DEF Locals
  <1> QED
    BY <1>1 DEF Outcomes

(* The smaller of two numbers. *)
LEMMA LeastFacts ==
  \A x, y \in Nat : /\ Least(x, y) \in Nat /\ Least(x, y) <= x /\ Least(x, y) <= y
                    /\ Least(x, y) = x \/ Least(x, y) = y
  BY DEF Least

(* The functions that have a command, and what it is. *)
LEMMA CommandFacts ==
  /\ DOMAIN Command = {"smsList", "smsSend", "smsDelete", "smsRead", "ussdCommand", "delFile",
                       "writeFile", "readFile", "infoFile", "readFileNew", "cellLocSrvUdp",
                       "cellLocConfig", "cellLocRequest"}
  /\ \A f \in DOMAIN Command : Command[f] \in Requests
  /\ Command["readFileNew"] = "ULSTFILE"
  /\ \A f \in DOMAIN Command : Command[f] # "URDBLOCK"
  /\ \A f \in DOMAIN Command : Command[f] = "UDWNFILE" => f = "writeFile"
  <1>1. DOMAIN Command = {"smsList", "smsSend", "smsDelete", "smsRead", "ussdCommand", "delFile",
                       "writeFile", "readFile", "infoFile", "readFileNew", "cellLocSrvUdp",
                       "cellLocConfig", "cellLocRequest"}
    BY DEF Command
  <1>2. \A f \in DOMAIN Command : /\ Command[f] \in Requests
                                  /\ Command[f] # "URDBLOCK"
                                  /\ Command[f] = "UDWNFILE" => f = "writeFile"
    BY <1>1 DEF Command, Requests, Prompting
  <1>3. Command["readFileNew"] = "ULSTFILE"
    BY DEF Command
  <1> QED
    BY <1>1, <1>2, <1>3

(* The stored messages as a sequence. *)
LEMMA ListedIsSeq ==
  ASSUME msgs \subseteq Ixs
  PROVE  Listed \in Seq(Nat)
  <1>1. IsFiniteSet(msgs) /\ msgs \subseteq Nat
    BY ServicesAssumption, FS_Subset
  <1>2. PICK f \in [1 .. Cardinality(msgs) -> msgs] : IsInjective(f)
    <2>1. PICK g : g \in Bijection(1 .. Cardinality(msgs), msgs)
      BY <1>1, FS_CardinalityType DEF ExistsBijection
    <2> QED
      BY <2>1 DEF Bijection, Injection, IsInjective
  <1>3. SetToSeq(msgs) \in [1 .. Cardinality(msgs) -> msgs]
    BY <1>2 DEF SetToSeq
  <1>4. Cardinality(msgs) \in Nat
    BY <1>1, FS_CardinalityType
  <1>5. SetToSeq(msgs) \in [1 .. Cardinality(msgs) -> Nat]
    BY <1>1, <1>3
  <1>6. \A n \in Nat : \A s \in [1 .. n -> Nat] : s \in Seq(Nat)
    OBVIOUS
  <1> QED
    BY <1>4, <1>5, <1>6 DEF Listed

(* What is on the line before a command is of another answer. *)
LEMMA OldLines ==
  ASSUME NEW q \in Seq(Lined)
  PROVE  /\ Old(q) \in Seq(Lined) /\ Len(Old(q)) = Len(q) /\ DOMAIN Old(q) = 1 .. Len(q)
         /\ \A i \in 1 .. Len(q) : /\ Old(q)[i].kind = q[i].kind /\ Old(q)[i].val = q[i].val
                                   /\ Old(q)[i].fresh = FALSE
  <1>1. DOMAIN q = 1 .. Len(q) /\ Len(q) \in Nat /\ \A i \in 1 .. Len(q) : q[i] \in Lined
    OBVIOUS
  <1>2. \A x \in Lined : /\ [x EXCEPT !.fresh = FALSE] \in Lined
                         /\ [x EXCEPT !.fresh = FALSE].kind = x.kind
                         /\ [x EXCEPT !.fresh = FALSE].val = x.val
                         /\ [x EXCEPT !.fresh = FALSE].fresh = FALSE
    BY DEF Lined
  <1>3. Old(q) \in [1 .. Len(q) -> Lined]
    BY <1>1, <1>2 DEF Old
  <1>4. Old(q) \in Seq(Lined) /\ Len(Old(q)) = Len(q) /\ DOMAIN Old(q) = 1 .. Len(q)
    BY <1>1, <1>3
  <1> QED
    BY <1>1, <1>2, <1>4 DEF Old

(* The commands the modem still has are made old by a new one. *)
LEMMA OldCommands ==
  ASSUME NEW q \in Seq(Cmds)
  PROVE  /\ Old(q) \in Seq(Cmds) /\ Len(Old(q)) = Len(q) /\ DOMAIN Old(q) = 1 .. Len(q)
         /\ \A i \in 1 .. Len(q) : /\ Old(q)[i].kind = q[i].kind /\ Old(q)[i].val = q[i].val
                                   /\ Old(q)[i].fresh = FALSE
  <1>1. DOMAIN q = 1 .. Len(q) /\ Len(q) \in Nat /\ \A i \in 1 .. Len(q) : q[i] \in Cmds
    OBVIOUS
  <1>2. \A x \in Cmds : /\ [x EXCEPT !.fresh = FALSE] \in Cmds
                        /\ [x EXCEPT !.fresh = FALSE].kind = x.kind
                        /\ [x EXCEPT !.fresh = FALSE].val = x.val
                        /\ [x EXCEPT !.fresh = FALSE].fresh = FALSE
    BY DEF Cmds
  <1>3. Old(q) \in [1 .. Len(q) -> Cmds]
    BY <1>1, <1>2 DEF Old
  <1>4. Old(q) \in Seq(Cmds) /\ Len(Old(q)) = Len(q) /\ DOMAIN Old(q) = 1 .. Len(q)
    BY <1>1, <1>3
  <1> QED
    BY <1>1, <1>2, <1>4 DEF Old

(* A buffer with the entries of s put in behind the first ones. *)
LEMMA FillFacts ==
  ASSUME NEW buf \in [1 .. MaxFile -> Values \cup Byte], NEW from \in Nat,
         NEW s \in Seq(Values \cup Byte)
  PROVE  /\ Fill(buf, from, s) \in [1 .. MaxFile -> Values \cup Byte]
         /\ \A i \in 1 .. MaxFile :
              Fill(buf, from, s)[i] = IF from < i /\ i <= from + Len(s) THEN s[i - from] ELSE buf[i]
  <1>1. MaxFile \in Nat
    BY ServicesAssumption
  <1>2. DOMAIN s = 1 .. Len(s) /\ Len(s) \in Nat /\ DOMAIN buf = 1 .. MaxFile
    OBVIOUS
  <1>3. \A i \in 1 .. MaxFile : i - from \in DOMAIN s <=> from < i /\ i <= from + Len(s)
    BY <1>1, <1>2
  <1>4. \A i \in 1 .. MaxFile :
          Fill(buf, from, s)[i] = IF from < i /\ i <= from + Len(s) THEN s[i - from] ELSE buf[i]
    BY <1>2, <1>3 DEF Fill
  <1>5. \A i \in 1 .. MaxFile : Fill(buf, from, s)[i] \in Values \cup Byte
    <2>1. \A i \in 1 .. MaxFile : i - from \in DOMAIN s => s[i - from] \in Values \cup Byte
      BY <1>2
    <2> QED
      BY <1>3, <1>4, <2>1
  <1> QED
    BY <1>2, <1>4, <1>5 DEF Fill

(* Where the entries are. *)
LEMMA FillEntries ==
  ASSUME NEW buf \in [1 .. MaxFile -> Values \cup Byte], NEW from \in Nat,
         NEW s \in Seq(Values \cup Byte)
  PROVE  /\ \A i \in 1 .. MaxFile : i <= from => Fill(buf, from, s)[i] = buf[i]
         /\ \A j \in 1 .. Len(s) : from + j <= MaxFile => Fill(buf, from, s)[from + j] = s[j]
  <1> DEFINE r == Fill(buf, from, s)
  <1>1. MaxFile \in Nat /\ Len(s) \in Nat
    BY ServicesAssumption
  <1>2. \A i \in 1 .. MaxFile : r[i] = IF from < i /\ i <= from + Len(s) THEN s[i - from] ELSE buf[i]
    BY FillFacts
  <1> HIDE DEF r
  <1>3. \A i \in 1 .. MaxFile : i <= from => r[i] = buf[i]
    BY <1>1, <1>2
  <1>4. ASSUME NEW j \in 1 .. Len(s), from + j <= MaxFile PROVE r[from + j] = s[j]
    <2>1. from + j \in 1 .. MaxFile /\ from < from + j /\ from + j <= from + Len(s) /\ (from + j) - from = j
      BY <1>1, <1>4
    <2> QED
      BY <1>2, <2>1
  <1> QED
    BY <1>3, <1>4 DEF r

(* One entry. *)
LEMMA FillOne ==
  ASSUME NEW buf \in [1 .. MaxFile -> Values \cup Byte], NEW from \in Nat, NEW v \in Values
  PROVE  /\ \A i \in 1 .. MaxFile : i <= from => Fill(buf, from, <<v>>)[i] = buf[i]
         /\ from + 1 <= MaxFile => Fill(buf, from, <<v>>)[from + 1] = v
  <1>1. <<v>> \in Seq(Values \cup Byte) /\ Len(<<v>>) = 1 /\ <<v>>[1] = v
    OBVIOUS
  <1>2. PICK one \in 1 .. Len(<<v>>) : one = 1
    BY <1>1
  <1>3. from + one <= MaxFile => Fill(buf, from, <<v>>)[from + one] = <<v>>[one]
    BY <1>1, <1>2, FillEntries
  <1> QED
    BY <1>1, <1>2, <1>3, FillEntries

(* What the callbacks do, one by one. *)
LEMMA CallbackCases ==
  ASSUME NEW m \in Locals, NEW l \in Lined
  PROVE  /\ m.cmd = "CMGL" /\ l.kind = "CMGL" /\ m.cnt < m.call.arg =>
              Callback(m, l) = [m EXCEPT !.buf = Fill(m.buf, m.cnt, <<l.val>>), !.cnt = m.cnt + 1]
         /\ m.cmd = "CMGL" /\ ~(l.kind = "CMGL" /\ m.cnt < m.call.arg) =>
              Callback(m, l) = [m EXCEPT !.buf = m.buf, !.cnt = m.cnt]
         /\ m.cmd = "CMGR" /\ l.kind = "CMGR" =>
              Callback(m, l) = [m EXCEPT !.buf = Fill(m.buf, 0, <<l.val>>), !.cnt = m.cnt]
         /\ m.cmd = "CMGR" /\ l.kind = "TEXT" =>
              Callback(m, l) = [m EXCEPT !.buf = Fill(m.buf, 1, <<l.val>>), !.cnt = m.cnt]
         /\ m.cmd = "CUSD" /\ l.kind = "CUSD" =>
              Callback(m, l) = [m EXCEPT !.buf = Fill(m.buf, 0, <<l.val>>), !.cnt = m.cnt]
         /\ m.cmd = "URDFILE" /\ l.kind = "URDFILE" =>
              LET n == Least(Len(l.val), m.call.arg)
              IN  Callback(m, l) = [m EXCEPT !.buf = Fill(m.buf, 0, SubSeq(l.val, 1, n)), !.cnt = n]
         /\ m.cmd = "URDBLOCK" /\ l.kind = "URDBLOCK" =>
              Callback(m, l) = [m EXCEPT !.buf = Fill(m.buf, m.off, l.val), !.cnt = m.cnt]
         /\ m.cmd = "ULSTFILE" /\ l.kind = "ULSTFILE" =>
              Callback(m, l) = [m EXCEPT !.buf = m.buf, !.cnt = l.val[1]]
         /\ m.cmd = "CMGR" /\ l.kind \notin {"CMGR", "TEXT"} =>
              Callback(m, l) = [m EXCEPT !.buf = m.buf, !.cnt = m.cnt]
         /\ m.cmd # "CMGR" /\ l.kind # m.cmd =>
              Callback(m, l) = [m EXCEPT !.buf = m.buf, !.cnt = m.cnt]
         /\ m.cmd \notin {"CMGL", "CMGR", "CUSD", "URDFILE", "URDBLOCK", "ULSTFILE"} =>
              Callback(m, l) = [m EXCEPT !.buf = m.buf, !.cnt = m.cnt]
  <1>1. \A b, n : [m EXCEPT !.buf = b] = [m EXCEPT !.buf = b, !.cnt = m.cnt]
    BY DEF Locals
  <1>2. \A b, n : [m EXCEPT !.cnt = n] = [m EXCEPT !.buf = m.buf, !.cnt = n]
    BY DEF Locals
  <1>3. m = [m EXCEPT !.buf = m.buf, !.cnt = m.cnt]
    BY DEF Locals
  <1> QED
    BY <1>1, <1>2, <1>3 DEF Callback, Room

(* The numbers of a call. *)
LEMMA ArgFacts ==
  /\ MaxFile \in Nat /\ MaxFile > 1 /\ MAX_SIZE \in Nat /\ MAX_SIZE > 0
  /\ \A m \in Locals : m.call.arg \in Nat /\ m.call.arg <= MaxFile
  <1>1. MaxFile \in Nat /\ MaxFile > 1 /\ MAX_SIZE \in Nat /\ MAX_SIZE > 0
    BY ServicesAssumption
  <1>2. \A c \in Calls \cup {NoCall} : c.arg \in Nat /\ c.arg <= MaxFile
    BY <1>1, ServicesAssumption DEF NoCall
  <1> QED
    BY <1>1, <1>2 DEF Locals

(* A callback changes the buffer and the count of its call, and nothing else. *)
LEMMA CallbackKeeps ==
  ASSUME NEW m \in Locals, NEW l \in Lined
  PROVE  \E b \in [1 .. MaxFile -> Values \cup Byte], n \in Nat :
           Callback(m, l) = [m EXCEPT !.buf = b, !.cnt = n]
  <1> DEFINE V == Values \cup Byte
  <1> DEFINE Stores(b, n) == Callback(m, l) = [m EXCEPT !.buf = b, !.cnt = n]
  <1>1. m.buf \in [1 .. MaxFile -> V] /\ m.cnt \in Nat /\ m.off \in Nat
    BY DEF Locals
  <1>2. <<l.val>> \in Seq(V)
    BY DEF Lined
  <1> DEFINE Kept == \E b \in [1 .. MaxFile -> V], n \in Nat : Stores(b, n)
  <1> SUFFICES Kept
    OBVIOUS
  <1>4. CASE m.cmd = "CMGL" /\ l.kind = "CMGL" /\ m.cnt < m.call.arg
    <2>1. Stores(Fill(m.buf, m.cnt, <<l.val>>), m.cnt + 1)
      BY <1>4, CallbackCases
    <2>2. Fill(m.buf, m.cnt, <<l.val>>) \in [1 .. MaxFile -> V]
      BY <1>1, <1>2, FillFacts
    <2>3. m.cnt + 1 \in Nat
      BY <1>1
    <2> HIDE DEF Stores, V
    <2> QED
      BY <2>1, <2>2, <2>3
  <1>5. CASE (m.cmd = "CMGR" /\ l.kind = "CMGR") \/ (m.cmd = "CUSD" /\ l.kind = "CUSD")
    <2>1. Stores(Fill(m.buf, 0, <<l.val>>), m.cnt)
      <3>1. CASE m.cmd = "CMGR" /\ l.kind = "CMGR"
        BY <3>1, CallbackCases
      <3>2. CASE m.cmd = "CUSD" /\ l.kind = "CUSD"
        BY <3>2, CallbackCases
      <3> QED
        BY <1>5, <3>1, <3>2
    <2>2. Fill(m.buf, 0, <<l.val>>) \in [1 .. MaxFile -> V]
      <3>1. PICK zero \in Nat : zero = 0
        OBVIOUS
      <3> QED
        BY <1>1, <1>2, <3>1, FillFacts
    <2> QED
      BY <1>1, <2>1, <2>2
  <1>6. CASE m.cmd = "CMGR" /\ l.kind = "TEXT"
    <2>1. Stores(Fill(m.buf, 1, <<l.val>>), m.cnt)
      BY <1>6, CallbackCases
    <2>2. Fill(m.buf, 1, <<l.val>>) \in [1 .. MaxFile -> V]
      <3>1. PICK one \in Nat : one = 1
        OBVIOUS
      <3> QED
        BY <1>1, <1>2, <3>1, FillFacts
    <2> QED
      BY <1>1, <2>1, <2>2
  <1>7. CASE m.cmd = "URDFILE" /\ l.kind = "URDFILE"
    <2> DEFINE n == Least(Len(l.val), m.call.arg)
    <2>1. Stores(Fill(m.buf, 0, SubSeq(l.val, 1, n)), n)
      BY <1>7, CallbackCases
    <2>2. l.val \in Seq(Byte) /\ Len(l.val) \in Nat
      BY <1>7 DEF Lined
    <2>3. n \in Nat /\ n <= Len(l.val)
      BY <2>2, LeastFacts, ArgFacts
    <2> HIDE DEF n
    <2>4. SubSeq(l.val, 1, n) \in Seq(V)
      <3>1. \A i \in 1 .. n : l.val[i] \in V
        BY <2>2, <2>3
      <3>2. PICK one \in Int : one = 1
        OBVIOUS
      <3> QED
        BY <2>3, <3>1, <3>2, SubSeqProperties
    <2>5. Fill(m.buf, 0, SubSeq(l.val, 1, n)) \in [1 .. MaxFile -> V]
      <3>1. PICK zero \in Nat : zero = 0
        OBVIOUS
      <3> QED
        BY <1>1, <2>4, <3>1, FillFacts
    <2> QED
      BY <2>1, <2>3, <2>5
  <1>8. CASE m.cmd = "URDBLOCK" /\ l.kind = "URDBLOCK"
    <2>1. Stores(Fill(m.buf, m.off, l.val), m.cnt)
      BY <1>8, CallbackCases
    <2>2. l.val \in Seq(V)
      BY <1>8 DEF Lined
    <2>3. Fill(m.buf, m.off, l.val) \in [1 .. MaxFile -> V]
      BY <1>1, <2>2, FillFacts
    <2> QED
      BY <1>1, <2>1, <2>3
  <1>9. CASE m.cmd = "ULSTFILE" /\ l.kind = "ULSTFILE"
    <2>1. Stores(m.buf, l.val[1])
      BY <1>9, CallbackCases
    <2>2. l.val[1] \in Nat
      BY <1>9 DEF Lined
    <2> QED
      BY <1>1, <2>1, <2>2
  <1>10. CASE /\ ~(m.cmd = "CMGL" /\ l.kind = "CMGL" /\ m.cnt < m.call.arg)
              /\ ~(m.cmd = "CMGR" /\ l.kind \in {"CMGR", "TEXT"})
              /\ ~(l.kind = m.cmd /\ m.cmd \in {"CUSD", "URDFILE", "URDBLOCK", "ULSTFILE"})
    <2>1. Stores(m.buf, m.cnt)
      BY <1>10, CallbackCases
    <2> QED
      BY <1>1, <2>1
  <1> HIDE DEF Kept
  <1> QED
    BY <1>4, <1>5, <1>6, <1>7, <1>8, <1>9, <1>10

(* The answer to a delete is what its last line says; FILE NOT FOUND is never found there. *)
LEMMA DeleteAnswer == \A m, l : CbUDELFILE(m, l) = l.kind
  BY DEF CbUDELFILE, FileNotFound

(* What a wait makes of a line. *)
LEMMA TakenFacts ==
  ASSUME NEW m \in Locals, NEW l \in Lined
  PROVE  LET x == Taken(m, l)
         IN  /\ x \in Locals
             /\ x.buf = Callback(m, l).buf /\ x.cnt = Callback(m, l).cnt
             /\ x.call = m.call /\ x.cmd = m.cmd /\ x.at = m.at
             /\ x.ret = IF l.kind \in Final THEN l.kind ELSE "none"
             /\ x.off = m.off /\ x.left = m.left /\ x.robbed = m.robbed
             /\ x.changed = m.changed /\ x.asked = m.asked
             /\ x.own <=> m.own /\ (l.kind = "UULOC" \/ l.fresh)
  <1>1. PICK b \in [1 .. MaxFile -> Values \cup Byte], n \in Nat :
          Callback(m, l) = [m EXCEPT !.buf = b, !.cnt = n]
    BY CallbackKeeps
  <1> DEFINE s == [m EXCEPT !.buf = b, !.cnt = n]
             r == IF l.kind \in Final THEN l.kind ELSE "none"
             o == s.own /\ (l.kind = "UULOC" \/ l.fresh)
  <1>2. /\ s \in Locals
        /\ s.call = m.call /\ s.cmd = m.cmd /\ s.at = m.at
        /\ s.off = m.off /\ s.left = m.left /\ s.robbed = m.robbed
        /\ s.changed = m.changed /\ s.asked = m.asked /\ s.own = m.own
    <2>1. b \in [1 .. MaxFile -> Values \cup Byte] /\ n \in Nat
      BY <1>1
    <2> QED
      BY <2>1 DEF Locals
  <1>3. Taken(m, l) = [s EXCEPT !.ret = r, !.own = o]
    BY <1>1, DeleteAnswer DEF Taken
  <1>4. r \in Final \cup {"none", "WAIT"}
    OBVIOUS
  <1>5. o \in BOOLEAN
    OBVIOUS
  <1> HIDE DEF s, r, o
  <1>6. LET x == [s EXCEPT !.ret = r, !.own = o]
        IN  /\ x \in Locals /\ x.buf = s.buf /\ x.cnt = s.cnt
            /\ x.call = s.call /\ x.cmd = s.cmd /\ x.at = s.at /\ x.ret = r
            /\ x.off = s.off /\ x.left = s.left /\ x.robbed = s.robbed
            /\ x.changed = s.changed /\ x.asked = s.asked /\ x.own = o
    BY <1>2, <1>4, <1>5 DEF Locals
  <1>7. o <=> m.own /\ (l.kind = "UULOC" \/ l.fresh)
    BY <1>2 DEF o
  <1> QED
    BY <1>1, <1>2, <1>3, <1>6, <1>7 DEF r, s

-----------------------------------------------------------------------------
(* The answer on its way.                                                   *)

(* The fields of a call that its answer depends on. *)
Same(m, x) ==
  /\ x.call = m.call /\ x.cmd = m.cmd /\ x.at = m.at
  /\ x.cnt = m.cnt /\ x.buf = m.buf /\ x.off = m.off /\ x.left = m.left

(* What is said of a call stays when the rest of its locals change; a file  *)
(* that changes is no longer compared.                                      *)
LEMMA SameSays ==
  ASSUME NEW m, NEW x, NEW tr, NEW f, NEW g, Same(m, x),
         x.changed \/ ((x.changed <=> m.changed) /\ f = g),
         NEW l, NEW n, Says(m, l, n, tr, f)
  PROVE  Says(x, l, n, tr, g)
  <1>1. m.cmd = "URDBLOCK" => BlockSize(x) = BlockSize(m)
    BY DEF Same, BlockSize
  <1> QED
    BY <1>1 DEF Same, Says

(* So does what its last lines tell, *)
LEMMA SameTold ==
  ASSUME NEW m, NEW x, NEW tr, NEW f, NEW g, Same(m, x),
         x.changed \/ ((x.changed <=> m.changed) /\ f = g),
         NEW kind, NEW n, Told(m, n, kind, tr, f)
  PROVE  Told(x, n, kind, tr, g)
  <1>1. BlockSize(x) = BlockSize(m)
    BY DEF Same, BlockSize
  <1>2. Collected(m, tr.val) => Collected(x, tr.val)
    BY DEF Same, Collected
  <1>3. Heard(m, n, tr, f) => Heard(x, n, tr, g)
    BY <1>1, <1>2 DEF Same, Heard
  <1> QED
    BY <1>3 DEF Same, Told

(* and the answer on the wire, *)
LEMMA SameOnWire ==
  ASSUME NEW m, NEW x, NEW tr, NEW f, NEW g, Same(m, x),
         x.changed \/ ((x.changed <=> m.changed) /\ f = g),
         NEW q, OnWire(m, q, tr, f)
  PROVE  OnWire(x, q, tr, g)
  <1>1. PICK k \in 0 .. Len(q), n \in 1 .. Len(q) : AnswerAt(m, q, tr, f, k, n)
    BY DEF OnWire
  <1>2. \A i \in k + 1 .. k + n - 1 : Says(x, q[i], k + n - i + 1, tr, g)
    BY <1>1, SameSays DEF AnswerAt
  <1>3. Told(x, n, q[k + n].kind, tr, g)
    BY <1>1, SameTold DEF AnswerAt
  <1>4. AnswerAt(x, q, tr, g, k, n)
    BY <1>1, <1>2, <1>3 DEF AnswerAt
  <1> QED
    BY <1>1, <1>4 DEF OnWire

(* and the command that is still to be executed, *)
LEMMA SameSent ==
  ASSUME NEW m, NEW x, Same(m, x), NEW c, NEW q, NEW tr, Sent(m, c, q, tr)
  PROVE  Sent(x, c, q, tr)
  <1>1. BlockSize(x) = BlockSize(m)
    BY DEF Same, BlockSize
  <1> QED
    BY <1>1 DEF Same, Sent, SentKind, SentVal

(* and the blocks that have been read. *)
LEMMA SameRead ==
  ASSUME NEW m, NEW x, NEW f, NEW g, Same(m, x),
         x.changed \/ ((x.changed <=> m.changed) /\ f = g), ReadSoFar(m, f)
  PROVE  ReadSoFar(x, g)
  BY DEF Same, ReadSoFar

(* Lines that come behind an answer leave it where it is. *)
LEMMA AnswerAppended ==
  ASSUME NEW m, NEW tr, NEW f, NEW q \in Seq(Lined), NEW r \in Seq(Lined),
         Len(q) <= Len(r), \A i \in 1 .. Len(q) : r[i] = q[i], OnWire(m, q, tr, f)
  PROVE  OnWire(m, r, tr, f)
  <1>1. PICK k \in 0 .. Len(q), n \in 1 .. Len(q) : AnswerAt(m, q, tr, f, k, n)
    BY DEF OnWire
  <1>2. Len(q) \in Nat /\ Len(r) \in Nat
    OBVIOUS
  <1>3. k \in 0 .. Len(r) /\ n \in 1 .. Len(r) /\ k + n <= Len(q)
    BY <1>1, <1>2 DEF AnswerAt
  <1>4. \A i \in 1 .. k + n : r[i] = q[i]
    BY <1>1, <1>2, <1>3
  <1>5. AnswerAt(m, r, tr, f, k, n)
    <2>1. k + n <= Len(r)
      BY <1>1, <1>2, <1>3
    <2>2. ASSUME NEW i \in 1 .. k PROVE Stale(r[i])
      <3>1. r[i] = q[i]
        BY <1>2, <1>3, <1>4
      <3> QED
        BY <1>1, <3>1 DEF AnswerAt
    <2>3. ASSUME NEW i \in k + 1 .. k + n PROVE r[i].fresh
      <3>1. r[i] = q[i]
        BY <1>2, <1>3, <1>4
      <3> QED
        BY <1>1, <3>1 DEF AnswerAt
    <2>4. ASSUME NEW i \in k + 1 .. k + n - 1 PROVE Says(m, r[i], k + n - i + 1, tr, f)
      <3>1. r[i] = q[i]
        BY <1>2, <1>3, <1>4
      <3> QED
        BY <1>1, <3>1 DEF AnswerAt
    <2>5. Told(m, n, r[k + n].kind, tr, f)
      <3>1. r[k + n] = q[k + n]
        BY <1>1, <1>2, <1>3, <1>4
      <3> QED
        BY <1>1, <3>1 DEF AnswerAt
    <2> QED
      BY <2>1, <2>2, <2>3, <2>4, <2>5 DEF AnswerAt
  <1> QED
    BY <1>3, <1>5 DEF OnWire

(* The lines of an answer are neither unsolicited nor final before the last. *)
LEMMA SaysKind ==
  ASSUME NEW m, NEW l, NEW n, NEW tr, NEW f, Says(m, l, n, tr, f)
  PROVE  l.kind # "UULOC" /\ l.kind \notin Final
  BY DEF Says, Final

(* A line that is not of the answer goes by. *)
LEMMA AnswerNearer ==
  ASSUME NEW m, NEW tr, NEW f, NEW q \in Seq(Lined), q # << >>, Stale(Head(q)),
         OnWire(m, q, tr, f)
  PROVE  OnWire(m, Tail(q), tr, f)
  <1>1. PICK k \in 0 .. Len(q), n \in 1 .. Len(q) : AnswerAt(m, q, tr, f, k, n)
    BY DEF OnWire
  <1>2. Len(q) \in Nat /\ Len(q) > 0 /\ Head(q) = q[1] /\ k \in Nat /\ n \in Nat /\ n > 0
    BY <1>1
  <1>3. Tail(q) \in Seq(Lined) /\ Len(Tail(q)) = Len(q) - 1 /\ \A i \in 1 .. Len(q) - 1 : Tail(q)[i] = q[i + 1]
    BY <1>2, HeadTailProperties
  <1>4. k # 0
    <2>1. SUFFICES ASSUME k = 0 PROVE FALSE
      OBVIOUS
    <2>2. q[1].fresh
      BY <1>1, <1>2, <2>1 DEF AnswerAt
    <2>3. q[1].kind = "UULOC"
      BY <1>2, <2>2 DEF Stale
    <2>4. CASE n = 1
      BY <1>1, <2>1, <2>3, <2>4 DEF AnswerAt, Told, Final
    <2>5. CASE n > 1
      <3>1. Says(m, q[1], k + n - 1 + 1, tr, f)
        BY <1>1, <1>2, <2>1, <2>5 DEF AnswerAt
      <3> QED
        BY <3>1, <2>3, SaysKind
    <2> QED
      BY <1>2, <2>4, <2>5
  <1> DEFINE j == k - 1
  <1>5. j \in Nat /\ j + 1 = k /\ k + n <= Len(q) /\ j + n <= Len(q) - 1
    BY <1>1, <1>2, <1>4 DEF AnswerAt
  <1>6. \A i \in 1 .. j + n : Tail(q)[i] = q[i + 1] /\ i + 1 \in 1 .. k + n
    BY <1>2, <1>3, <1>5
  <1>7. AnswerAt(m, Tail(q), tr, f, j, n)
    <2> HIDE DEF j
    <2>1. j + n <= Len(Tail(q))
      BY <1>2, <1>3, <1>5
    <2>2. \A i \in 1 .. j : Stale(Tail(q)[i])
      BY <1>1, <1>2, <1>5, <1>6 DEF AnswerAt
    <2>3. \A i \in j + 1 .. j + n : Tail(q)[i].fresh
      BY <1>1, <1>2, <1>5, <1>6 DEF AnswerAt
    <2>4. ASSUME NEW i \in j + 1 .. j + n - 1 PROVE Says(m, Tail(q)[i], j + n - i + 1, tr, f)
      <3>1. i + 1 \in k + 1 .. k + n - 1 /\ k + n - (i + 1) + 1 = j + n - i + 1 /\ Tail(q)[i] = q[i + 1]
        BY <1>2, <1>5, <1>6, <2>4
      <3> QED
        BY <1>1, <3>1 DEF AnswerAt
    <2>5. Told(m, n, Tail(q)[j + n].kind, tr, f)
      <3>1. Tail(q)[j + n] = q[k + n]
        BY <1>2, <1>5, <1>6
      <3> QED
        BY <1>1, <3>1 DEF AnswerAt
    <2> QED
      BY <2>1, <2>2, <2>3, <2>4, <2>5 DEF AnswerAt
  <1>8. j \in 0 .. Len(Tail(q)) /\ n \in 1 .. Len(Tail(q))
    BY <1>2, <1>3, <1>5
  <1> QED
    BY <1>7, <1>8 DEF OnWire

(* An answer starts behind what is on the line. *)
LEMMA AnswerStarts ==
  ASSUME NEW m, NEW tr, NEW f, NEW q \in Seq(Lined), \A i \in DOMAIN q : Stale(q[i]),
         NEW a \in Seq(Lined), NEW n \in 1 .. Len(a),
         \A i \in 1 .. n : a[i].fresh,
         \A i \in 1 .. n - 1 : Says(m, a[i], n - i + 1, tr, f),
         Told(m, n, a[n].kind, tr, f)
  PROVE  OnWire(m, q \o a, tr, f)
  <1> DEFINE k == Len(q)
             r == q \o a
  <1>1. k \in Nat /\ Len(a) \in Nat /\ DOMAIN q = 1 .. k
    OBVIOUS
  <1>2. Len(r) = k + Len(a) /\ \A i \in 1 .. k + Len(a) : r[i] = IF i <= k THEN q[i] ELSE a[i - k]
    BY ConcatProperties
  <1> HIDE DEF k, r
  <1>3. k \in 0 .. Len(r) /\ n \in 1 .. Len(r) /\ k + n <= Len(r)
    BY <1>1, <1>2
  <1>4. ASSUME NEW i \in 1 .. k PROVE Stale(r[i])
    <2>1. r[i] = q[i]
      BY <1>1, <1>2
    <2> QED
      BY <1>1, <2>1
  <1>5. ASSUME NEW i \in k + 1 .. k + n PROVE r[i].fresh
    <2>1. i - k \in 1 .. n /\ r[i] = a[i - k]
      BY <1>1, <1>2
    <2> QED
      BY <2>1
  <1>6. ASSUME NEW i \in k + 1 .. k + n - 1 PROVE Says(m, r[i], k + n - i + 1, tr, f)
    <2>1. i - k \in 1 .. n - 1 /\ n - (i - k) + 1 = k + n - i + 1 /\ r[i] = a[i - k]
      BY <1>1, <1>2, <1>6
    <2> QED
      BY <2>1
  <1>7. Told(m, n, r[k + n].kind, tr, f)
    <2>1. r[k + n] = a[n]
      BY <1>1, <1>2
    <2> QED
      BY <2>1
  <1>8. AnswerAt(m, r, tr, f, k, n)
    BY <1>3, <1>4, <1>5, <1>6, <1>7 DEF AnswerAt
  <1> QED
    BY <1>3, <1>8 DEF OnWire, r

(* The block that is asked for next. *)
LEMMA BlockFacts ==
  \A m \in Locals : BlockSize(m) \in Nat /\ BlockSize(m) <= m.left
  <1>1. \A m \in Locals : m.left \in Nat
    BY DEF Locals
  <1> QED
    BY <1>1, ArgFacts, LeastFacts DEF BlockSize

(* The beginning of a sequence, entry by entry. *)
LEMMA BeginsPart ==
  ASSUME NEW s \in Seq(Byte), NEW n \in Nat, n <= Len(s), NEW buf
  PROVE  Begins(buf, SubSeq(s, 1, n)) <=> \A i \in 1 .. n : buf[i] = s[i]
  <1>1. PICK one \in Int : one = 1
    OBVIOUS
  <1>2. \A i \in one .. n : s[i] \in Byte
    BY <1>1
  <1>3. /\ SubSeq(s, one, n) \in Seq(Byte)
        /\ Len(SubSeq(s, one, n)) = IF one <= n THEN n - one + 1 ELSE 0
        /\ \A i \in 1 .. n - one + 1 : SubSeq(s, one, n)[i] = s[one + i - 1]
    BY <1>1, <1>2, SubSeqProperties
  <1>4. DOMAIN SubSeq(s, 1, n) = 1 .. n /\ \A i \in 1 .. n : SubSeq(s, 1, n)[i] = s[i]
    BY <1>1, <1>3
  <1> QED
    BY <1>4 DEF Begins

(* A line of a list of messages brings what the call has collected one line on. *)
LEMMA HeardMessage ==
  ASSUME NEW m \in Locals, NEW l \in Lined, NEW tr \in Truths, NEW f, NEW n \in Nat, n > 1,
         Says(m, l, n, tr, f), Heard(m, n, tr, f), m.cmd = "CMGL"
  PROVE  Heard(Taken(m, l), n - 1, tr, f)
  <1> DEFINE x == Taken(m, l)
             p == Len(tr.val) - n + 1
  <1>1. tr.val \in Seq(Byte) /\ Len(tr.val) \in Nat /\ m.cnt \in Nat /\ m.call.arg \in Nat
        /\ m.call.arg <= MaxFile /\ MaxFile \in Nat
    BY ArgFacts DEF Truths, Locals
  <1>2. l.kind = "CMGL" /\ n - 1 <= Len(tr.val) /\ l.val = tr.val[Len(tr.val) - n + 2]
    BY DEF Says
  <1>3. m.cnt = Least(m.call.arg, p) /\ Begins(m.buf, SubSeq(tr.val, 1, m.cnt))
    BY DEF Heard
  <1>4. p \in Nat /\ p + 1 = Len(tr.val) - n + 2 /\ p + 1 = Len(tr.val) - (n - 1) + 1
        /\ p + 1 <= Len(tr.val) /\ n - 1 \in Nat
    BY <1>1, <1>2
  <1> HIDE DEF p
  <1>5. m.cnt <= p /\ m.cnt <= m.call.arg
    BY <1>1, <1>3, <1>4, LeastFacts
  <1>6. \A i \in 1 .. m.cnt : m.buf[i] = tr.val[i]
    BY <1>1, <1>3, <1>4, <1>5, BeginsPart
  <1>7. x.cmd = m.cmd /\ x.call = m.call /\ x.buf = Callback(m, l).buf /\ x.cnt = Callback(m, l).cnt
    BY TakenFacts
  <1> HIDE DEF x
  <1>8. x.cnt = Least(m.call.arg, p + 1) /\ \A i \in 1 .. x.cnt : x.buf[i] = tr.val[i]
    <2>1. CASE m.cnt < m.call.arg
      <3>1. m.cnt = p /\ Least(m.call.arg, p + 1) = p + 1
        BY <1>1, <1>3, <1>4, <2>1 DEF Least
      <3>2. m.buf \in [1 .. MaxFile -> Values \cup Byte] /\ l.val \in Values
        BY DEF Locals, Lined
      <3>3. Callback(m, l) = [m EXCEPT !.buf = Fill(m.buf, m.cnt, <<l.val>>), !.cnt = m.cnt + 1]
        BY <1>2, <2>1, CallbackCases
      <3>4. x.buf = Fill(m.buf, m.cnt, <<l.val>>) /\ x.cnt = m.cnt + 1
        BY <1>7, <3>3 DEF Locals
      <3>5. m.cnt + 1 <= MaxFile /\ \A i \in 1 .. m.cnt : i \in 1 .. MaxFile /\ i <= m.cnt
        BY <1>1, <2>1
      <3>6. x.buf[m.cnt + 1] = l.val /\ \A i \in 1 .. m.cnt : x.buf[i] = m.buf[i]
        <4>1. /\ \A i \in 1 .. MaxFile : i <= m.cnt => Fill(m.buf, m.cnt, <<l.val>>)[i] = m.buf[i]
              /\ m.cnt + 1 <= MaxFile => Fill(m.buf, m.cnt, <<l.val>>)[m.cnt + 1] = l.val
          BY <1>1, <3>2, FillOne
        <4> QED
          BY <3>4, <3>5, <4>1
      <3>7. l.val = tr.val[m.cnt + 1]
        BY <1>2, <1>4, <3>1
      <3>8. ASSUME NEW i \in 1 .. m.cnt + 1 PROVE x.buf[i] = tr.val[i]
        <4>1. i = m.cnt + 1 \/ i \in 1 .. m.cnt
          BY <1>1, <3>8
        <4> QED
          BY <1>6, <3>6, <3>7, <4>1
      <3> QED
        BY <3>1, <3>4, <3>8
    <2>2. CASE ~(m.cnt < m.call.arg)
      <3>1. m.cnt = m.call.arg /\ Least(m.call.arg, p + 1) = m.call.arg
        BY <1>1, <1>4, <1>5, <2>2 DEF Least
      <3>2. Callback(m, l) = [m EXCEPT !.buf = m.buf, !.cnt = m.cnt]
        BY <2>2, CallbackCases
      <3>3. x.buf = m.buf /\ x.cnt = m.cnt
        BY <1>7, <3>2 DEF Locals
      <3> QED
        BY <1>6, <3>1, <3>3
    <2> QED
      BY <2>1, <2>2
  <1>9. x.cnt \in Nat /\ x.cnt <= Len(tr.val)
    <2>1. p + 1 \in Nat
      BY <1>4
    <2>2. x.cnt \in Nat /\ x.cnt <= p + 1
      BY <1>1, <1>8, <2>1, LeastFacts
    <2> QED
      BY <1>1, <1>4, <2>2
  <1>10. Begins(x.buf, SubSeq(tr.val, 1, x.cnt))
    BY <1>1, <1>8, <1>9, BeginsPart
  <1>11. n - 1 = 1 => p + 1 = Len(tr.val)
    BY <1>1, <1>4
  <1>12. n - 1 = 1 => Collected(x, tr.val)
    <2>1. SUFFICES ASSUME n - 1 = 1 PROVE Collected(x, tr.val)
      OBVIOUS
    <2>2. x.call.arg \in Nat /\ x.cnt = Least(x.call.arg, Len(tr.val))
      BY <1>1, <1>7, <1>8, <1>11, <2>1
    <2>3. (x.cnt < x.call.arg => x.cnt = Len(tr.val)) /\ Least(x.cnt, x.call.arg) = x.cnt
      BY <1>1, <1>9, <2>2 DEF Least
    <2> QED
      BY <1>7, <1>9, <1>10, <2>3 DEF Collected
  <1>13. n - 1 - 1 <= Len(tr.val) /\ x.cnt = Least(x.call.arg, Len(tr.val) - (n - 1) + 1)
    BY <1>1, <1>2, <1>4, <1>7, <1>8
  <1> QED
    BY <1>7, <1>10, <1>12, <1>13 DEF Heard, x

(* The same, of the answers that are no list of messages. *)
LEMMA HeardOther ==
  ASSUME NEW m \in Locals, NEW l \in Lined, NEW tr \in Truths, NEW f \in Seq(Byte), NEW n \in Nat,
         n > 1, Says(m, l, n, tr, f), Heard(m, n, tr, f), m.cmd # "CMGL",
         ReadSoFar(m, f), Len(f) <= MaxFile
  PROVE  Heard(Taken(m, l), n - 1, tr, f)
  <1> DEFINE x == Taken(m, l)
             V == Values \cup Byte
  <1>1. tr.val \in Seq(Byte) /\ Len(tr.val) \in Nat /\ m.cnt \in Nat /\ m.call.arg \in Nat
        /\ m.call.arg <= MaxFile /\ MaxFile \in Nat /\ MaxFile > 1 /\ m.off \in Nat /\ m.left \in Nat
    BY ArgFacts DEF Truths, Locals
  <1>2. m.buf \in [1 .. MaxFile -> V] /\ l.val \in Values
    BY DEF Locals, Lined
  <1>3. /\ x.cmd = m.cmd /\ x.call = m.call /\ x.off = m.off /\ x.left = m.left
        /\ x.changed = m.changed /\ x.buf = Callback(m, l).buf /\ x.cnt = Callback(m, l).cnt
    BY TakenFacts
  <1> HIDE DEF x
  <1>4. PICK zero \in Nat, one \in Nat : zero = 0 /\ one = 1
    OBVIOUS
  <1>5. CASE m.cmd = "CMGR"
    <2>1. CASE n = 3 /\ l.kind = "CMGR" /\ l.val = <<m.call.arg, 1>>
      <3>1. Callback(m, l) = [m EXCEPT !.buf = Fill(m.buf, 0, <<l.val>>), !.cnt = m.cnt]
        BY <1>5, <2>1, CallbackCases
      <3>2. x.buf = Fill(m.buf, zero, <<l.val>>)
        BY <1>3, <1>4, <3>1 DEF Locals
      <3>3. zero + 1 <= MaxFile /\ zero + 1 = 1
        BY <1>1, <1>4
      <3>4. x.buf[1] = l.val
        BY <1>2, <3>2, <3>3, FillOne
      <3> QED
        BY <1>3, <1>5, <2>1, <3>4 DEF Heard, x
    <2>2. CASE n = 2 /\ l.kind = "TEXT" /\ l.val = <<m.call.arg, 2>>
      <3>1. Callback(m, l) = [m EXCEPT !.buf = Fill(m.buf, 1, <<l.val>>), !.cnt = m.cnt]
        BY <1>5, <2>2, CallbackCases
      <3>2. x.buf = Fill(m.buf, one, <<l.val>>)
        BY <1>3, <1>4, <3>1 DEF Locals
      <3>3. one + 1 <= MaxFile /\ one + 1 = 2 /\ one \in 1 .. MaxFile /\ one <= one
        BY <1>1, <1>4
      <3>4. x.buf[1] = m.buf[1] /\ x.buf[2] = l.val
        <4>1. x.buf[one] = m.buf[one] /\ x.buf[one + 1] = l.val
          BY <1>2, <3>2, <3>3, FillOne
        <4> QED
          BY <1>4, <3>3, <4>1
      <3>5. m.buf[1] = <<m.call.arg, 1>>
        BY <1>5, <2>2 DEF Heard
      <3>6. Begins(x.buf, <<<<m.call.arg, 1>>, <<m.call.arg, 2>>>>)
        BY <2>2, <3>4, <3>5 DEF Begins
      <3>7. Collected(x, tr.val)
        BY <1>3, <1>5, <3>6 DEF Collected
      <3> QED
        BY <1>3, <1>5, <2>2, <3>7 DEF Heard, x
    <2> QED
      BY <1>5, <2>1, <2>2 DEF Says
  <1>6. CASE m.cmd = "CUSD"
    <2>1. n = 2 /\ l.kind = "CUSD" /\ tr.val = <<l.val>>
      BY <1>6 DEF Says
    <2>2. Callback(m, l) = [m EXCEPT !.buf = Fill(m.buf, 0, <<l.val>>), !.cnt = m.cnt]
      BY <1>6, <2>1, CallbackCases
    <2>3. x.buf = Fill(m.buf, zero, <<l.val>>)
      BY <1>3, <1>4, <2>2 DEF Locals
    <2>4. zero + 1 <= MaxFile /\ zero + 1 = 1
      BY <1>1, <1>4
    <2>5. x.buf[1] = l.val
      BY <1>2, <2>3, <2>4, FillOne
    <2>6. Begins(x.buf, tr.val)
      BY <2>1, <2>5 DEF Begins
    <2>7. Collected(x, tr.val)
      BY <1>3, <1>6, <2>6 DEF Collected
    <2> QED
      BY <1>3, <1>6, <2>1, <2>7 DEF Heard, x
  <1>7. CASE m.cmd = "URDFILE"
    <2>1. n = 2 /\ l.kind = "URDFILE" /\ l.val = tr.val
      BY <1>7 DEF Says
    <2> DEFINE c == Least(Len(l.val), m.call.arg)
    <2>2. c = Least(m.call.arg, Len(tr.val)) /\ c \in Nat /\ c <= Len(tr.val) /\ c <= m.call.arg
      BY <1>1, <2>1, LeastFacts DEF Least
    <2>3. Callback(m, l) = [m EXCEPT !.buf = Fill(m.buf, 0, SubSeq(l.val, 1, c)), !.cnt = c]
      BY <1>7, <2>1, CallbackCases
    <2> HIDE DEF c
    <2>4. x.buf = Fill(m.buf, zero, SubSeq(l.val, 1, c)) /\ x.cnt = c
      BY <1>3, <1>4, <2>3 DEF Locals
    <2>5. SubSeq(tr.val, 1, c) \in Seq(V) /\ Len(SubSeq(tr.val, 1, c)) = c
          /\ \A i \in 1 .. c : SubSeq(tr.val, 1, c)[i] = tr.val[i]
      <3>1. \A i \in one .. c : tr.val[i] \in V
        BY <1>1, <1>4, <2>2
      <3>2. one \in Int /\ c \in Int
        BY <1>4, <2>2
      <3>3. /\ SubSeq(tr.val, one, c) \in Seq(V)
            /\ Len(SubSeq(tr.val, one, c)) = IF one <= c THEN c - one + 1 ELSE 0
            /\ \A i \in 1 .. c - one + 1 : SubSeq(tr.val, one, c)[i] = tr.val[one + i - 1]
        BY <3>1, <3>2, SubSeqProperties
      <3> QED
        BY <1>4, <2>2, <3>3
    <2>6. \A i \in 1 .. Len(SubSeq(tr.val, 1, c)) :
            zero + i <= MaxFile => x.buf[zero + i] = SubSeq(tr.val, 1, c)[i]
      <3>1. \A i \in 1 .. Len(SubSeq(tr.val, 1, c)) :
              zero + i <= MaxFile => Fill(m.buf, zero, SubSeq(tr.val, 1, c))[zero + i] = SubSeq(tr.val, 1, c)[i]
        BY <1>2, <1>4, <2>5, FillEntries
      <3> QED
        BY <2>1, <2>4, <3>1
    <2>7. ASSUME NEW i \in 1 .. c PROVE x.buf[i] = tr.val[i]
      <3>1. zero + i = i /\ i <= MaxFile
        BY <1>1, <1>4, <2>2
      <3> QED
        BY <2>5, <2>6, <3>1
    <2>8. Begins(x.buf, SubSeq(tr.val, 1, c))
      BY <1>1, <2>2, <2>7, BeginsPart
    <2>9. Collected(x, tr.val)
      BY <1>3, <1>7, <2>2, <2>4, <2>8 DEF Collected
    <2> QED
      BY <1>3, <1>7, <2>1, <2>9 DEF Heard, x
  <1>8. CASE m.cmd = "ULSTFILE"
    <2>1. n = 2 /\ l.kind = "ULSTFILE" /\ l.val = <<Len(tr.val)>>
      BY <1>8 DEF Says
    <2>2. Callback(m, l) = [m EXCEPT !.buf = m.buf, !.cnt = l.val[1]]
      BY <1>8, <2>1, CallbackCases
    <2>3. x.cnt = Len(tr.val)
      BY <1>3, <2>1, <2>2 DEF Locals
    <2>4. Collected(x, tr.val)
      BY <1>3, <1>8, <2>3 DEF Collected
    <2> QED
      BY <1>3, <1>8, <2>1, <2>4 DEF Heard, x
  <1>9. CASE m.cmd = "URDBLOCK"
    <2>1. n = 2 /\ l.kind = "URDBLOCK"
      BY <1>9 DEF Says
    <2>2. Callback(m, l) = [m EXCEPT !.buf = Fill(m.buf, m.off, l.val), !.cnt = m.cnt]
      BY <1>9, <2>1, CallbackCases
    <2>3. x.buf = Fill(m.buf, m.off, l.val)
      BY <1>3, <2>2 DEF Locals
    <2>4. l.val \in Seq(V)
      BY <2>1 DEF Lined
    <2>5. /\ \A i \in 1 .. MaxFile : i <= m.off => x.buf[i] = m.buf[i]
          /\ \A j \in 1 .. Len(l.val) : m.off + j <= MaxFile => x.buf[m.off + j] = l.val[j]
      <3>1. /\ \A i \in 1 .. MaxFile : i <= m.off => Fill(m.buf, m.off, l.val)[i] = m.buf[i]
            /\ \A j \in 1 .. Len(l.val) :
                 m.off + j <= MaxFile => Fill(m.buf, m.off, l.val)[m.off + j] = l.val[j]
        BY <1>1, <1>2, <2>4, FillEntries
      <3> QED
        BY <2>3, <3>1
    <2> DEFINE b == BlockSize(m)
    <2>6. ASSUME ~m.changed PROVE \A i \in 1 .. m.off + b : x.buf[i] = f[i]
      <3>1. m.off + m.left = Len(f) /\ \A i \in 1 .. m.off : m.buf[i] = f[i]
        BY <1>9, <2>6 DEF ReadSoFar
      <3>2. b \in Nat /\ m.off + b <= Len(f)
        BY <1>1, <3>1, BlockFacts
      <3>3. l.val = SubSeq(f, m.off + 1, m.off + b)
        BY <1>9, <2>6 DEF Says
      <3> HIDE DEF b
      <3> DEFINE a == m.off + 1
                 e == m.off + b
      <3>4. a \in Int /\ e \in Int /\ \A i \in a .. e : f[i] \in Byte
        BY <1>1, <3>2
      <3>5. /\ Len(SubSeq(f, a, e)) = IF a <= e THEN e - a + 1 ELSE 0
            /\ \A i \in 1 .. e - a + 1 : SubSeq(f, a, e)[i] = f[a + i - 1]
        <4> HIDE DEF a, e
        <4> QED
          BY <3>4, SubSeqProperties
      <3>6. Len(l.val) = b /\ \A i \in 1 .. b : l.val[i] = f[m.off + i]
        <4>1. l.val = SubSeq(f, a, e)
          BY <3>3
        <4>2. e - a + 1 = b
          BY <1>1, <3>2
        <4>3. a <= e <=> b > 0
          BY <1>1, <3>2
        <4>4. \A i \in 1 .. b : a + i - 1 = m.off + i
          BY <1>1, <3>2
        <4> HIDE DEF a, e
        <4> QED
          BY <3>2, <3>4, <3>5, <4>1, <4>2, <4>3, <4>4
      <3> HIDE DEF a, e
      <3>7. ASSUME NEW i \in 1 .. m.off + b PROVE x.buf[i] = f[i]
        <4>1. i \in 1 .. MaxFile
          BY <1>1, <3>2, <3>7
        <4>2. CASE i <= m.off
          BY <1>1, <2>5, <3>1, <4>1, <4>2
        <4>3. CASE i > m.off
          <5>1. PICK j \in 1 .. b : m.off + j = i
            <6>1. i - m.off \in 1 .. b /\ m.off + (i - m.off) = i
              BY <1>1, <3>2, <3>7, <4>3
            <6> QED
              BY <6>1
          <5>2. m.off + j <= MaxFile /\ j \in 1 .. Len(l.val)
            BY <1>1, <3>6, <4>1, <5>1
          <5>3. x.buf[m.off + j] = l.val[j]
            BY <2>5, <5>2
          <5> QED
            BY <3>6, <5>1, <5>3
        <4> QED
          BY <1>1, <3>2, <4>2, <4>3
      <3> QED
        BY <3>7
    <2>7. BlockSize(x) = b
      BY <1>3 DEF BlockSize
    <2>8. Collected(x, tr.val)
      BY <1>3, <1>9 DEF Collected
    <2> HIDE DEF b
    <2> QED
      BY <1>3, <1>9, <2>1, <2>6, <2>7, <2>8 DEF Heard, x
  <1> QED
    BY <1>5, <1>6, <1>7, <1>8, <1>9 DEF Says

(* A final line and one that is for everybody leave the locals as they are. *)
LEMMA TakenSame ==
  ASSUME NEW m \in Locals, NEW l \in Lined, l.kind \in Final \cup {"UULOC"}
  PROVE  Same(m, Taken(m, l))
  <1>1. m.cmd \in Requests \cup {"none"}
    BY DEF Locals
  <1>2. l.kind # m.cmd /\ l.kind \notin {"CMGR", "TEXT", "CMGL"}
    BY <1>1 DEF Requests, Prompting, Final
  <1>3. Callback(m, l) = [m EXCEPT !.buf = m.buf, !.cnt = m.cnt]
    BY <1>2, CallbackCases
  <1>4. Callback(m, l).buf = m.buf /\ Callback(m, l).cnt = m.cnt
    BY <1>3 DEF Locals
  <1> QED
    BY <1>4, TakenFacts DEF Same

(* The first line that is not of another answer is the first of the answer. *)
LEMMA AnswerFirst ==
  ASSUME NEW m, NEW tr, NEW f, NEW q \in Seq(Lined), q # << >>, ~Stale(Head(q)),
         OnWire(m, q, tr, f)
  PROVE  \E n \in 1 .. Len(q) : AnswerAt(m, q, tr, f, 0, n)
  <1>1. PICK k \in 0 .. Len(q), n \in 1 .. Len(q) : AnswerAt(m, q, tr, f, k, n)
    BY DEF OnWire
  <1>2. Len(q) \in Nat /\ Len(q) > 0 /\ Head(q) = q[1]
    OBVIOUS
  <1>3. k = 0
    BY <1>1, <1>2 DEF AnswerAt
  <1> QED
    BY <1>1, <1>3

(* A line of the answer but the last. *)
LEMMA AnswerHeard ==
  ASSUME NEW m \in Locals, NEW tr \in Truths, NEW f \in Seq(Byte), Len(f) <= MaxFile,
         NEW q \in Seq(Lined), q # << >>, ~Stale(Head(q)), Head(q).kind \notin Final,
         ReadSoFar(m, f), OnWire(m, q, tr, f)
  PROVE  OnWire(Taken(m, Head(q)), Tail(q), tr, f)
  <1> DEFINE l == Head(q)
             x == Taken(m, l)
  <1>1. PICK n \in 1 .. Len(q) : AnswerAt(m, q, tr, f, 0, n)
    BY AnswerFirst
  <1>2. Len(q) \in Nat /\ Len(q) > 0 /\ l = q[1] /\ l \in Lined
    BY HeadTailProperties
  <1>3. /\ Tail(q) \in Seq(Lined) /\ Len(Tail(q)) = Len(q) - 1
        /\ \A i \in 1 .. Len(q) - 1 : Tail(q)[i] = q[i + 1]
    BY <1>2, HeadTailProperties
  <1> HIDE DEF l
  <1>4. n \in Nat /\ n <= Len(q) /\ Told(m, n, q[n].kind, tr, f)
    BY <1>1, <1>2 DEF AnswerAt
  <1>5. n > 1
    <2>1. n # 1
      BY <1>2, <1>4 DEF Told, l
    <2> QED
      BY <1>4, <2>1, <1>1
  <1>6. Says(m, l, n, tr, f)
    <2>1. 1 \in 0 + 1 .. 0 + n - 1 /\ 0 + n - 1 + 1 = n
      BY <1>4, <1>5
    <2>2. Says(m, q[1], 0 + n - 1 + 1, tr, f)
      BY <1>1, <2>1 DEF AnswerAt
    <2> QED
      BY <1>2, <2>1, <2>2
  <1>7. tr.ok /\ Heard(m, n, tr, f)
    BY <1>4, <1>5 DEF Told
  <1>8. Heard(x, n - 1, tr, f)
    BY <1>2, <1>4, <1>5, <1>6, <1>7, HeardMessage, HeardOther
  <1>9. /\ x.cmd = m.cmd /\ x.call = m.call /\ x.off = m.off /\ x.left = m.left
        /\ x.changed = m.changed /\ x.at = m.at
    BY <1>2, TakenFacts
  <1> HIDE DEF x
  <1> DEFINE j == n - 1
  <1>10. j \in Nat /\ j >= 1 /\ j + 1 = n /\ j <= Len(Tail(q))
    BY <1>2, <1>3, <1>4, <1>5
  <1> HIDE DEF j
  <1>11. ASSUME NEW i \in 1 .. j PROVE Tail(q)[i] = q[i + 1] /\ i + 1 \in 1 .. n
    BY <1>2, <1>3, <1>4, <1>10
  <1>12. Told(x, j, Tail(q)[j].kind, tr, f)
    <2>1. Tail(q)[j] = q[n]
      BY <1>10, <1>11
    <2>2. Heard(x, j, tr, f)
      BY <1>8 DEF j
    <2> QED
      BY <1>4, <1>7, <1>9, <2>1, <2>2 DEF Told
  <1>13. ASSUME NEW i \in 1 .. j PROVE Tail(q)[i].fresh
    <2>1. i + 1 \in 0 + 1 .. 0 + n /\ Tail(q)[i] = q[i + 1]
      BY <1>4, <1>11
    <2> QED
      BY <1>1, <2>1 DEF AnswerAt
  <1>14. ASSUME NEW i \in 1 .. j - 1 PROVE Says(x, Tail(q)[i], j - i + 1, tr, f)
    <2>1. i + 1 \in 0 + 1 .. 0 + n - 1 /\ 0 + n - (i + 1) + 1 = j - i + 1 /\ Tail(q)[i] = q[i + 1]
      BY <1>4, <1>10, <1>11
    <2>2. Says(m, Tail(q)[i], j - i + 1, tr, f)
      BY <1>1, <2>1 DEF AnswerAt
    <2>3. BlockSize(x) = BlockSize(m)
      BY <1>9 DEF BlockSize
    <2> QED
      BY <1>9, <2>2, <2>3 DEF Says
  <1>15. AnswerAt(x, Tail(q), tr, f, 0, j)
    <2>1. 0 + j = j /\ 0 + 1 = 1
      BY <1>10
    <2> QED
      BY <1>10, <1>12, <1>13, <1>14, <2>1 DEF AnswerAt
  <1>16. j \in 1 .. Len(Tail(q)) /\ 0 \in 0 .. Len(Tail(q))
    BY <1>2, <1>3, <1>10
  <1> QED
    BY <1>15, <1>16 DEF OnWire, x, l

(* The last line of the answer. *)
LEMMA AnswerEnds ==
  ASSUME NEW m \in Locals, NEW tr, NEW f,
         NEW q \in Seq(Lined), q # << >>, ~Stale(Head(q)), Head(q).kind \in Final,
         OnWire(m, q, tr, f)
  PROVE  Told(Taken(m, Head(q)), 1, Head(q).kind, tr, f)
  <1> DEFINE l == Head(q)
             x == Taken(m, l)
  <1>1. PICK n \in 1 .. Len(q) : AnswerAt(m, q, tr, f, 0, n)
    BY AnswerFirst
  <1>2. Len(q) \in Nat /\ Len(q) > 0 /\ l = q[1] /\ l \in Lined
    BY HeadTailProperties
  <1> HIDE DEF l
  <1>3. n = 1
    <2>1. SUFFICES ASSUME n # 1 PROVE FALSE
      OBVIOUS
    <2>2. 1 \in 0 + 1 .. 0 + n - 1
      BY <1>1, <1>2, <2>1
    <2>3. Says(m, q[1], 0 + n - 1 + 1, tr, f)
      BY <1>1, <2>2 DEF AnswerAt
    <2> QED
      BY <1>2, <2>3, SaysKind DEF l
  <1>4. Told(m, 1, l.kind, tr, f)
    BY <1>1, <1>2, <1>3 DEF AnswerAt
  <1>5. Same(m, x) /\ (x.changed <=> m.changed)
    <2>1. l.kind \in Final \cup {"UULOC"}
      BY DEF l
    <2>2. Same(m, x)
      BY <1>2, <2>1, TakenSame
    <2>3. x.changed = m.changed
      BY <1>2, TakenFacts
    <2> QED
      BY <2>2, <2>3
  <1> HIDE DEF x
  <1>6. Told(x, 1, l.kind, tr, f)
    BY <1>4, <1>5, SameTold
  <1> QED
    BY <1>6 DEF x, l

-----------------------------------------------------------------------------
(* The parts of the invariant, for a step that leaves most of them alone.   *)

(* One thread goes on. *)
LEMMA OneMoves ==
  ASSUME me \in [Threads -> Locals], NEW t \in Threads, NEW x \in Locals,
         me' = [me EXCEPT ![t] = x]
  PROVE  /\ me' \in [Threads -> Locals] /\ me'[t] = x
         /\ \A u \in Threads : u # t => me'[u] = me[u]
  OBVIOUS

(* Who has the lock is in a wait, and nobody else. *)
LEMMA LockedMoves ==
  ASSUME Locked, me \in [Threads -> Locals], NEW t \in Threads, NEW x \in Locals,
         me' = [me EXCEPT ![t] = x], Keeps(x),
         lock' = t <=> x.at \in {"wait", "data"},
         \A u \in Threads : u # t => (lock' = u <=> lock = u)
  PROVE  Locked'
  <1>1. /\ me'[t] = x
        /\ \A u \in Threads : u # t => me'[u] = me[u]
    BY OneMoves
  <1>2. ASSUME NEW u \in Threads
        PROVE  Keeps(me'[u]) /\ (lock' = u <=> me'[u].at \in {"wait", "data"})
    <2>1. CASE u = t
      BY <1>1, <2>1
    <2>2. CASE u # t
      BY <1>1, <2>2 DEF Locked
    <2> QED
      BY <2>1, <2>2
  <1> QED
    BY <1>2 DEF Locked, Keeps

(* The blocks that have been read stay in their places. *)
LEMMA ReadsMoves ==
  ASSUME Reads, me \in [Threads -> Locals], NEW t \in Threads, NEW x \in Locals,
         me' = [me EXCEPT ![t] = x], file' = file,
         Undisturbed(x) => ReadSoFar(x, file)
  PROVE  Reads'
  <1>1. /\ me'[t] = x
        /\ \A u \in Threads : u # t => me'[u] = me[u]
    BY OneMoves
  <1>2. ASSUME NEW u \in Threads, Undisturbed(me'[u]) PROVE ReadSoFar(me'[u], file)
    <2>1. CASE u = t
      BY <1>1, <1>2, <2>1
    <2>2. CASE u # t
      BY <1>1, <1>2, <2>2 DEF Reads
    <2> QED
      BY <2>1, <2>2
  <1> QED
    BY <1>2 DEF Reads, Undisturbed, ReadSoFar

(* A thread that has not the lock does not disturb the one that has it. *)
LEMMA TalksOther ==
  ASSUME Talks, me \in [Threads -> Locals], NEW t \in Threads, NEW x \in Locals,
         me' = [me EXCEPT ![t] = x], lock' = lock, lock # t,
         UNCHANGED <<inbox, line, truth, file>>
  PROVE  Talks'
  <1>1. \A u \in Threads : u # t => me'[u] = me[u]
    BY OneMoves
  <1>2. ASSUME NEW u \in Threads, lock' = u, Undisturbed(me'[u]) PROVE Awaits(u)'
    <2>1. u # t /\ me'[u] = me[u] /\ Awaits(u)
      BY <1>1, <1>2 DEF Talks
    <2> QED
      BY <2>1 DEF Awaits, NoneFresh
  <1> QED
    BY <1>2 DEF Talks, Undisturbed

(* The positions that are under way stay so, behind d commands and e lines  *)
(* that have gone.                                                          *)
LEMMA PositionsStay ==
  ASSUME Positions, NEW d \in Nat, NEW e \in Nat, inbox' \in Seq(Cmds), line' \in Seq(Lined),
         inbox \in Seq(Cmds), line \in Seq(Lined),
         UNCHANGED <<position, locRcvPos, requests, alone, locating>>,
         \A i \in 1 .. Len(inbox') : inbox'[i].kind = "ULOC" =>
           i + d \in 1 .. Len(inbox) /\ inbox[i + d].kind = "ULOC",
         \A i \in 1 .. Len(line') : line'[i].kind = "UULOC" =>
           /\ i + e \in 1 .. Len(line) /\ line[i + e].kind = "UULOC"
           /\ line'[i].val = line[i + e].val,
         \A u \in Threads : me'[u].call.fn = "cellLocGetData" =>
           me[u].call.fn = "cellLocGetData" /\ me'[u].asked = me[u].asked
  PROVE  Positions'
  <1>1. /\ DOMAIN inbox = 1 .. Len(inbox) /\ DOMAIN line = 1 .. Len(line)
        /\ DOMAIN inbox' = 1 .. Len(inbox') /\ DOMAIN line' = 1 .. Len(line')
    OBVIOUS
  <1>2. OnItsWay(line, "UULOC")' => OnItsWay(line, "UULOC")
    BY <1>1 DEF OnItsWay
  <1>3. ASSUME alone PROVE OneOnItsWay'
    <2>1. OneOnItsWay
      BY <1>3 DEF Positions
    <2>2. ASSUME NEW i \in DOMAIN inbox', inbox'[i].kind = "ULOC"
          PROVE  /\ \A j \in DOMAIN inbox' : inbox'[j].kind = "ULOC" => j = i
                 /\ locating' = {} /\ ~OnItsWay(line, "UULOC")' /\ locRcvPos' = 0
      <3>1. i + d \in DOMAIN inbox /\ inbox[i + d].kind = "ULOC"
        BY <1>1, <2>2
      <3>2. ASSUME NEW j \in DOMAIN inbox', inbox'[j].kind = "ULOC" PROVE j = i
        <4>1. j + d \in DOMAIN inbox /\ inbox[j + d].kind = "ULOC"
          BY <1>1, <3>2
        <4>2. j + d = i + d /\ i \in Nat /\ j \in Nat
          BY <1>1, <2>1, <3>1, <4>1 DEF OneOnItsWay
        <4> QED
          BY <4>2
      <3> QED
        BY <1>2, <2>1, <3>1, <3>2 DEF OneOnItsWay
    <2>3. locating' # {} => locating' = {requests'} /\ ~OnItsWay(line, "UULOC")' /\ locRcvPos' = 0
      BY <1>2, <2>1 DEF OneOnItsWay
    <2>4. ASSUME NEW i \in DOMAIN line', line'[i].kind = "UULOC"
          PROVE  /\ \A j \in DOMAIN line' : line'[j].kind = "UULOC" => j = i
                 /\ line'[i].val[1] = requests' /\ locRcvPos' = 0
      <3>1. i + e \in DOMAIN line /\ line[i + e].kind = "UULOC" /\ line'[i].val = line[i + e].val
        BY <1>1, <2>4
      <3>2. ASSUME NEW j \in DOMAIN line', line'[j].kind = "UULOC" PROVE j = i
        <4>1. j + e \in DOMAIN line /\ line[j + e].kind = "UULOC"
          BY <1>1, <3>2
        <4>2. j + e = i + e /\ i \in Nat /\ j \in Nat
          BY <1>1, <2>1, <3>1, <4>1 DEF OneOnItsWay
        <4> QED
          BY <4>2
      <3> QED
        BY <2>1, <3>1, <3>2 DEF OneOnItsWay
    <2>5. position'.validData => position'.of = requests' /\ locRcvPos' = 1
      BY <2>1 DEF OneOnItsWay
    <2> QED
      BY <2>2, <2>3, <2>4, <2>5 DEF OneOnItsWay
  <1>4. ASSUME NEW n, NoneOlder(n) PROVE NoneOlder(n)'
    <2>1. ASSUME NEW i \in DOMAIN line', line'[i].kind = "UULOC" PROVE n <= line'[i].val[1]
      BY <1>1, <1>4, <2>1 DEF NoneOlder
    <2> QED
      BY <1>4, <2>1 DEF NoneOlder
  <1>5. ASSUME NEW u \in Threads, me'[u].call.fn = "cellLocGetData"
        PROVE  NoneOlder(me[u].asked)' /\ me'[u].asked = me[u].asked
    BY <1>4, <1>5 DEF Positions
  <1> QED
    BY <1>3, <1>5 DEF Positions, NoneOlder

(* What has been returned stays true. *)
LEMMA ResultsStay ==
  ASSUME Results, result' = result, Positions'
  PROVE  Results'
  <1>1. Truthful' /\ BlocksAreTheFile'
    BY DEF Results, Truthful, BlocksAreTheFile
  <1>2. PositionIsOfRequest'
    BY DEF Results, PositionIsOfRequest, Positions, OneOnItsWay
  <1> QED
    BY <1>1, <1>2 DEF Results

(* The initial state. *)
LEMMA ServInitInv == Init => ServInv
  <1> SUFFICES ASSUME Init PROVE ServInv
    OBVIOUS
  <1>1. MaxFile \in Nat /\ MaxFile > 1
    BY ArgFacts
  <1>2. Idle \in Locals
    <2>1. NoByte \in Byte
      BY DEF NoByte, Byte
    <2>2. NoBuffer \in [1 .. MaxFile -> Values \cup Byte]
      BY <2>1 DEF NoBuffer
    <2> QED
      BY <2>2 DEF Idle, Locals
  <1>3. NoTruth \in Truths
    BY DEF NoTruth, Truths
  <1>4. file \in Seq(Byte) /\ Len(file) <= MaxFile
    <2>1. CASE file = << >>
      BY <1>1, <2>1
    <2>2. CASE file = [i \in 1 .. MaxFile |-> <<0, i>>]
      <3>1. \A i \in 1 .. MaxFile : <<0, i>> \in Byte
        BY DEF Byte
      <3>2. file \in [1 .. MaxFile -> Byte]
        BY <2>2, <3>1
      <3> QED
        BY <1>1, <3>2
    <2> QED
      BY <2>1, <2>2 DEF Init
  <1>5. TypeOK
    <2>1. DriverTypes
      <3>1. me \in [Threads -> Locals] /\ result \in [of : Outcomes, ok : BOOLEAN, truth : Truths, file : Seq(Byte)]
        BY <1>2, <1>3, <1>4, OutcomeFacts DEF Init
      <3>2. locRcvPos \in Int /\ locExpPos \in Int
        BY ServicesAssumption DEF Init
      <3>3. position \in [validData : BOOLEAN, of : Nat]
        <4>1. position \in [validData : BOOLEAN, of : {0}]
          BY DEF Init
        <4> QED
          BY <4>1
      <3> QED
        BY <3>1, <3>2, <3>3 DEF Init, DriverTypes
    <2>2. WireTypes
      BY DEF Init, WireTypes
    <2>3. ModemTypes
      BY <1>3, <1>4 DEF Init, ModemTypes
    <2> QED
      BY <2>1, <2>2, <2>3 DEF TypeOK
  <1>6. \A t \in Threads : me[t] = Idle /\ lock # t
    BY ServicesAssumption DEF Init
  <1>7. Keeps(Idle)
    BY CommandFacts DEF Keeps, Idle, NoCall
  <1>8. Locked
    BY <1>6, <1>7 DEF Locked, Idle
  <1>9. LastIsFresh
    BY DEF Init, LastIsFresh
  <1>10. Talks
    BY <1>6 DEF Talks
  <1>11. Reads
    BY <1>6 DEF Reads, ReadSoFar, Idle
  <1>12. Positions
    <2>1. ~alone
      BY DEF Init
    <2> QED
      BY <1>6, <2>1 DEF Positions, Idle, NoCall
  <1>13. Results
    BY DEF Init, Results, Truthful, BlocksAreTheFile, PositionIsOfRequest, Idle, NoCall
  <1> QED
    BY <1>5, <1>8, <1>9, <1>10, <1>11, <1>12, <1>13 DEF ServInv

(* A line that is taken, and the position it may be. *)
LEMMA PositionsUnsolicited ==
  ASSUME Positions, DriverTypes, WireTypes, line # << >>,
         Unsolicited(Head(line)), line' = Tail(line),
         UNCHANGED <<requests, alone, inbox, locating>>,
         \A u \in Threads : me'[u].call.fn = "cellLocGetData" =>
           me[u].call.fn = "cellLocGetData" /\ me'[u].asked = me[u].asked
  PROVE  /\ Positions' /\ WireTypes'
         /\ position' \in [validData : BOOLEAN, of : Nat] /\ locRcvPos' \in Int /\ locExpPos' \in Int
  <1> DEFINE l == Head(line)
  <1>1. inbox \in Seq(Cmds) /\ line \in Seq(Lined) /\ Len(line) \in Nat /\ Len(line) > 0
    BY DEF WireTypes
  <1>2. /\ l \in Lined /\ l = line[1]
        /\ line' \in Seq(Lined) /\ Len(line') = Len(line) - 1
        /\ \A i \in 1 .. Len(line') : line'[i] = line[i + 1]
    BY <1>1, HeadTailProperties
  <1> HIDE DEF l
  <1>3. WireTypes'
    BY <1>1, <1>2 DEF WireTypes
  <1>4. CASE l.kind # "UULOC"
    <2>1. UNCHANGED <<position, locRcvPos, locExpPos>>
      BY <1>4 DEF Unsolicited, l
    <2>2. PICK zero \in Nat, one \in Nat : zero = 0 /\ one = 1
      OBVIOUS
    <2>3. ASSUME NEW i \in 1 .. Len(inbox'), inbox'[i].kind = "ULOC"
          PROVE  i + zero \in 1 .. Len(inbox) /\ inbox[i + zero].kind = "ULOC"
      <3>1. i + zero = i
        BY <2>2
      <3> QED
        BY <2>3, <3>1
    <2>4. ASSUME NEW i \in 1 .. Len(line'), line'[i].kind = "UULOC"
          PROVE  /\ i + one \in 1 .. Len(line) /\ line[i + one].kind = "UULOC"
                 /\ line'[i].val = line[i + one].val
      BY <1>1, <1>2, <2>2, <2>4
    <2>5. Positions'
      BY <1>1, <1>2, <2>1, <2>2, <2>3, <2>4, PositionsStay
    <2> QED
      BY <1>3, <2>1, <2>5 DEF DriverTypes
  <1>5. CASE l.kind = "UULOC"
    <2>1. position' = [validData |-> TRUE, of |-> l.val[1]] /\ locExpPos' = 1 /\ locRcvPos' = locRcvPos + 1
      BY <1>5 DEF Unsolicited, l
    <2>2. l.val[1] \in Nat
      BY <1>2, <1>5 DEF Lined
    <2>3. OnItsWay(line, "UULOC") /\ 1 \in DOMAIN line
      BY <1>1, <1>2, <1>5 DEF OnItsWay
    <2>4. ASSUME alone PROVE OneOnItsWay'
      <3>1. OneOnItsWay
        BY <2>4 DEF Positions
      <3>2. l.val[1] = requests /\ locRcvPos = 0 /\ \A j \in DOMAIN line : line[j].kind = "UULOC" => j = 1
        BY <1>2, <1>5, <2>3, <3>1 DEF OneOnItsWay
      <3>3. locating = {} /\ \A i \in DOMAIN inbox : inbox[i].kind # "ULOC"
        BY <2>3, <3>1 DEF OneOnItsWay
      <3>4. ASSUME NEW i \in DOMAIN line' PROVE line'[i].kind # "UULOC"
        <4>1. i \in 1 .. Len(line') /\ i + 1 \in DOMAIN line /\ i + 1 # 1
          BY <1>1, <1>2
        <4> QED
          BY <1>2, <3>2, <4>1
      <3>5. position'.of = requests' /\ locRcvPos' = 1
        BY <2>1, <3>2
      <3> QED
        BY <3>3, <3>4, <3>5 DEF OneOnItsWay
    <2>5. ASSUME NEW u \in Threads, me'[u].call.fn = "cellLocGetData" PROVE NoneOlder(me[u].asked)'
      <3>1. NoneOlder(me[u].asked) /\ me'[u].asked = me[u].asked
        BY <2>5 DEF Positions
      <3>2. me[u].asked <= l.val[1]
        BY <1>2, <1>5, <2>3, <3>1 DEF NoneOlder
      <3>3. ASSUME NEW i \in DOMAIN line', line'[i].kind = "UULOC" PROVE me[u].asked <= line'[i].val[1]
        <4>1. i \in 1 .. Len(line') /\ i + 1 \in DOMAIN line
          BY <1>1, <1>2
        <4> QED
          BY <1>2, <3>1, <3>3, <4>1 DEF NoneOlder
      <3> QED
        BY <2>1, <3>1, <3>2, <3>3 DEF NoneOlder
    <2>6. position' \in [validData : BOOLEAN, of : Nat] /\ locRcvPos' \in Int /\ locExpPos' \in Int
      BY <2>1, <2>2 DEF DriverTypes
    <2>7. Positions'
      BY <2>4, <2>5 DEF Positions
    <2> QED
      BY <1>3, <2>6, <2>7
  <1> QED
    BY <1>4, <1>5

-----------------------------------------------------------------------------
(* The steps of the waits.                                                  *)

(* A line does not disturb the blocks that are there. *)
LEMMA ReadTaken ==
  ASSUME NEW m \in Locals, NEW l \in Lined, NEW f \in Seq(Byte), Len(f) <= MaxFile, ReadSoFar(m, f)
  PROVE  ReadSoFar(Taken(m, l), f)
  <1> DEFINE x == Taken(m, l)
  <1>1. x.cmd = m.cmd /\ x.changed = m.changed /\ x.off = m.off /\ x.left = m.left /\ x.buf = Callback(m, l).buf
    BY TakenFacts
  <1> HIDE DEF x
  <1>2. SUFFICES ASSUME m.cmd = "URDBLOCK", ~m.changed
                 PROVE  \A i \in 1 .. m.off : x.buf[i] = m.buf[i]
    <2>1. m.cmd = "URDBLOCK" /\ ~m.changed =>
            m.off + m.left = Len(f) /\ \A i \in 1 .. m.off : m.buf[i] = f[i]
      BY DEF ReadSoFar
    <2>2. ReadSoFar(x, f)
      BY <1>1, <1>2, <2>1 DEF ReadSoFar
    <2> QED
      BY <2>2 DEF x
  <1>3. m.off \in Nat /\ m.left \in Nat /\ MaxFile \in Nat /\ m.buf \in [1 .. MaxFile -> Values \cup Byte]
    BY ArgFacts DEF Locals
  <1>4. m.off + m.left = Len(f)
    BY <1>2 DEF ReadSoFar
  <1>5. \A i \in 1 .. m.off : i \in 1 .. MaxFile /\ i <= m.off
    BY <1>3, <1>4
  <1>6. CASE l.kind = "URDBLOCK"
    <2>1. Callback(m, l) = [m EXCEPT !.buf = Fill(m.buf, m.off, l.val), !.cnt = m.cnt]
      BY <1>2, <1>6, CallbackCases
    <2>2. x.buf = Fill(m.buf, m.off, l.val)
      BY <1>1, <2>1 DEF Locals
    <2>3. l.val \in Seq(Values \cup Byte)
      BY <1>6 DEF Lined
    <2>4. \A i \in 1 .. MaxFile : i <= m.off => Fill(m.buf, m.off, l.val)[i] = m.buf[i]
      BY <1>3, <2>3, FillEntries
    <2> QED
      BY <1>5, <2>2, <2>4
  <1>7. CASE l.kind # "URDBLOCK"
    <2>1. Callback(m, l) = [m EXCEPT !.buf = m.buf, !.cnt = m.cnt]
      BY <1>2, <1>7, CallbackCases
    <2> QED
      BY <1>1, <2>1 DEF Locals
  <1> QED
    BY <1>6, <1>7

(* A wait takes a line. *)
LEMMA WaitLineStep ==
  ASSUME ServInv, NEW t \in Threads, WaitLine(t)
  PROVE  ServInv'
  <1> DEFINE m == me[t]
             l == Head(line)
             x == Taken(m, l)
  <1>1. /\ TypeOK /\ DriverTypes /\ WireTypes /\ ModemTypes
        /\ Locked /\ LastIsFresh /\ Talks /\ Reads /\ Positions /\ Results
    BY DEF ServInv, TypeOK
  <1>2. /\ m.at \in {"wait", "data"} /\ m.ret = "none" /\ line # << >>
        /\ me' = [me EXCEPT ![t] = x] /\ Unsolicited(l) /\ line' = Tail(line)
        /\ UNCHANGED <<lock, result, requests, alone, inbox>>
        /\ UNCHANGED <<msgs, file, dataMode, locating, truth, written>>
        /\ UNCHANGED <<calls, lost, late>>
    BY DEF WaitLine, modem, count
  <1>3. /\ me \in [Threads -> Locals] /\ m \in Locals /\ line \in Seq(Lined) /\ l \in Lined
        /\ file \in Seq(Byte) /\ Len(file) <= MaxFile /\ truth \in Truths
    BY <1>1, <1>2, HeadTailProperties DEF DriverTypes, WireTypes, ModemTypes
  <1>4. /\ x \in Locals /\ x.call = m.call /\ x.cmd = m.cmd /\ x.at = m.at
        /\ x.ret = IF l.kind \in Final THEN l.kind ELSE "none"
        /\ x.off = m.off /\ x.left = m.left /\ x.asked = m.asked
        /\ x.robbed = m.robbed /\ (x.own <=> m.own /\ (l.kind = "UULOC" \/ l.fresh))
        /\ (x.changed <=> m.changed)
    BY <1>3, TakenFacts
  <1>5. /\ me' \in [Threads -> Locals] /\ me'[t] = x
        /\ \A u \in Threads : u # t => me'[u] = me[u]
    BY <1>2, <1>3, <1>4, OneMoves
  <1>6. lock = t /\ Keeps(m)
    BY <1>1, <1>2 DEF Locked
  <1> HIDE DEF m, l, x
  <1>7. /\ Positions' /\ WireTypes'
        /\ position' \in [validData : BOOLEAN, of : Nat] /\ locRcvPos' \in Int /\ locExpPos' \in Int
    <2>1. \A u \in Threads : me'[u].call.fn = "cellLocGetData" =>
            me[u].call.fn = "cellLocGetData" /\ me'[u].asked = me[u].asked
      BY <1>4, <1>5 DEF m
    <2> QED
      BY <1>1, <1>2, <2>1, PositionsUnsolicited DEF l
  <1>8. TypeOK'
    <2>1. DriverTypes'
      BY <1>1, <1>2, <1>5, <1>7 DEF DriverTypes
    <2>2. ModemTypes'
      BY <1>1, <1>2 DEF ModemTypes
    <2> QED
      BY <1>7, <2>1, <2>2 DEF TypeOK
  <1>9. Locked'
    <2>1. Keeps(x)
      BY <1>2, <1>4, <1>6 DEF Keeps, m
    <2> QED
      BY <1>1, <1>2, <1>3, <1>4, <1>6, <2>1, LockedMoves DEF m
  <1>10. LastIsFresh'
    BY <1>1, <1>2 DEF LastIsFresh
  <1>11. Reads'
    <2>1. ASSUME Undisturbed(x) PROVE ReadSoFar(x, file)
      <3>1. ReadSoFar(m, file)
        BY <1>1, <1>4, <2>1 DEF Reads, Undisturbed, m
      <3> QED
        BY <1>3, <3>1, ReadTaken DEF x
    <2> QED
      BY <1>1, <1>2, <1>3, <1>4, <2>1, ReadsMoves
  <1>12. ASSUME Undisturbed(x) PROVE Awaits(t)'
    <2>1. Undisturbed(m) /\ (l.kind = "UULOC" \/ l.fresh)
      BY <1>4, <1>12 DEF Undisturbed
    <2>2. Awaits(t) /\ ReadSoFar(m, file)
      BY <1>1, <1>6, <2>1 DEF Talks, Reads, m
    <2>3. NoneFresh => NoneFresh'
      BY <1>2 DEF NoneFresh
    <2>4. CASE inbox # << >> /\ Sent(m, Last(inbox), line, truth)
      <3>1. l = line[1] /\ 1 \in DOMAIN line /\ Stale(l)
        <4>1. l = line[1] /\ 1 \in DOMAIN line
          BY <1>2, <1>3 DEF l
        <4> QED
          BY <2>4, <4>1 DEF Sent
      <3>2. l.kind = "UULOC"
        BY <2>1, <3>1 DEF Stale
      <3>3. Same(m, x) /\ x.ret = "none"
        <4>1. Same(m, x)
          BY <1>3, <3>2, TakenSame DEF x
        <4> QED
          BY <1>4, <3>2, <4>1 DEF Final
      <3>4. \A i \in DOMAIN Tail(line) : Stale(Tail(line)[i])
        <4>1. /\ Tail(line) \in Seq(Lined) /\ Len(Tail(line)) = Len(line) - 1 /\ Len(line) \in Nat
              /\ \A i \in 1 .. Len(Tail(line)) : Tail(line)[i] = line[i + 1]
          BY <1>2, <1>3, HeadTailProperties
        <4>2. ASSUME NEW i \in DOMAIN Tail(line) PROVE Stale(Tail(line)[i])
          <5>1. i \in 1 .. Len(Tail(line)) /\ i + 1 \in DOMAIN line
            BY <1>3, <4>1
          <5> QED
            BY <2>4, <4>1, <5>1 DEF Sent
        <4> QED
          BY <4>2
      <3>5. Sent(m, Last(inbox), Tail(line), truth)
        BY <2>4, <3>4 DEF Sent
      <3>6. Sent(x, Last(inbox), Tail(line), truth)
        BY <3>3, <3>5, SameSent
      <3> QED
        BY <1>2, <1>5, <2>4, <3>3, <3>6 DEF Awaits, Last
    <2>5. CASE NoneFresh /\ OnWire(m, line, truth, file)
      <3>1. CASE Stale(l)
        <4>1. l.kind = "UULOC"
          BY <2>1, <3>1 DEF Stale
        <4>2. Same(m, x) /\ x.ret = "none"
          <5>1. Same(m, x)
            BY <1>3, <4>1, TakenSame DEF x
          <5> QED
            BY <1>4, <4>1, <5>1 DEF Final
        <4>3. OnWire(m, Tail(line), truth, file)
          BY <1>2, <1>3, <2>5, <3>1, AnswerNearer DEF l
        <4>4. OnWire(x, Tail(line), truth, file)
          BY <1>4, <4>2, <4>3, SameOnWire
        <4> QED
          BY <1>2, <1>5, <2>3, <2>5, <4>2, <4>4 DEF Awaits
      <3>2. CASE ~Stale(l) /\ l.kind \in Final
        <4>1. Told(x, 1, l.kind, truth, file)
          BY <1>2, <1>3, <2>5, <3>2, AnswerEnds DEF l, x
        <4> QED
          BY <1>2, <1>4, <1>5, <2>3, <2>5, <3>2, <4>1 DEF Awaits
      <3>3. CASE ~Stale(l) /\ l.kind \notin Final
        <4>1. OnWire(x, Tail(line), truth, file)
          BY <1>2, <1>3, <2>2, <2>5, <3>3, AnswerHeard DEF l, x
        <4> QED
          BY <1>2, <1>4, <1>5, <2>3, <2>5, <3>3, <4>1 DEF Awaits
      <3> QED
        BY <3>1, <3>2, <3>3
    <2>6. ~Told(m, 1, m.ret, truth, file)
      BY <1>2 DEF Told, Final
    <2> QED
      BY <2>2, <2>4, <2>5, <2>6 DEF Awaits, m
  <1>13. Talks'
    <2>1. ASSUME NEW u \in Threads, lock' = u, Undisturbed(me'[u]) PROVE Awaits(u)'
      <3>1. u = t
        BY <1>2, <1>6, <2>1
      <3> QED
        BY <1>5, <1>12, <2>1, <3>1
    <2> QED
      BY <2>1 DEF Talks, Undisturbed
  <1>14. Results'
    BY <1>1, <1>2, <1>7, ResultsStay
  <1> QED
    BY <1>7, <1>8, <1>9, <1>10, <1>11, <1>13, <1>14 DEF ServInv

-----------------------------------------------------------------------------
(* The steps of other threads and of the modem, as the waiting call sees them. *)

(* Lines that are not of the answer come, and older commands go. *)
LEMMA AwaitsGrows ==
  ASSUME NEW u \in Threads, Awaits(u), line \in Seq(Lined), line' \in Seq(Lined),
         Len(line) <= Len(line'), \A i \in 1 .. Len(line) : line'[i] = line[i],
         \A i \in 1 .. Len(line') : i > Len(line) => Stale(line'[i]),
         NoneFresh => NoneFresh',
         inbox # << >> /\ Last(inbox).fresh => inbox' # << >> /\ Last(inbox') = Last(inbox),
         truth' = truth, Same(me[u], me'[u]), me'[u].ret = me[u].ret,
         me'[u].changed \/ ((me'[u].changed <=> me[u].changed) /\ file' = file)
  PROVE  Awaits(u)'
  <1> DEFINE m == me[u]
             x == me'[u]
  <1>1. Same(m, x) /\ x.ret = m.ret
    OBVIOUS
  <1>2. x.changed \/ ((x.changed <=> m.changed) /\ file' = file)
    OBVIOUS
  <1>3. CASE m.ret = "none" /\ inbox # << >> /\ Sent(m, Last(inbox), line, truth)
    <2>1. inbox' # << >> /\ Last(inbox') = Last(inbox)
      BY <1>3 DEF Sent
    <2>2. \A i \in DOMAIN line' : Stale(line'[i])
      <3>1. ASSUME NEW i \in DOMAIN line' PROVE Stale(line'[i])
        <4>1. i \in 1 .. Len(line') /\ Len(line) \in Nat /\ DOMAIN line = 1 .. Len(line)
          OBVIOUS
        <4>2. CASE i <= Len(line)
          <5>1. i \in DOMAIN line /\ line'[i] = line[i]
            BY <4>1, <4>2
          <5> QED
            BY <1>3, <5>1 DEF Sent
        <4> QED
          BY <4>1, <4>2
      <3> QED
        BY <3>1
    <2>3. Sent(m, Last(inbox'), line', truth')
      BY <1>3, <2>1, <2>2 DEF Sent
    <2> HIDE DEF m, x
    <2>4. Sent(x, Last(inbox'), line', truth')
      BY <1>1, <2>3, SameSent
    <2> QED
      BY <1>1, <1>3, <2>1, <2>4 DEF Awaits, x, Last
  <1>4. CASE m.ret = "none" /\ NoneFresh /\ OnWire(m, line, truth, file)
    <2>1. OnWire(m, line', truth', file)
      <3> HIDE DEF m
      <3> QED
        BY <1>4, AnswerAppended
    <2> HIDE DEF m, x
    <2>2. OnWire(x, line', truth', file')
      BY <1>1, <1>2, <2>1, SameOnWire
    <2> QED
      BY <1>1, <1>4, <2>2 DEF Awaits, x
  <1>5. CASE NoneFresh /\ Told(m, 1, m.ret, truth, file)
    <2> HIDE DEF m, x
    <2>1. Told(x, 1, m.ret, truth, file')
      BY <1>1, <1>2, <1>5, SameTold
    <2> QED
      BY <1>1, <1>5, <2>1 DEF Awaits, x
  <1> QED
    BY <1>3, <1>4, <1>5 DEF Awaits

(* A line goes that is not of the answer. *)
LEMMA AwaitsLoses ==
  ASSUME NEW u \in Threads, Awaits(u), line \in Seq(Lined), line # << >>, Stale(Head(line)),
         line' = Tail(line), UNCHANGED <<inbox, truth, file>>, Same(me[u], me'[u]),
         me'[u].ret = me[u].ret, me'[u].changed <=> me[u].changed
  PROVE  Awaits(u)'
  <1> DEFINE m == me[u]
             x == me'[u]
  <1>1. Same(m, x) /\ x.ret = m.ret /\ (x.changed <=> m.changed)
    OBVIOUS
  <1>2. /\ line' \in Seq(Lined) /\ Len(line') = Len(line) - 1 /\ Len(line) \in Nat
        /\ \A i \in 1 .. Len(line') : line'[i] = line[i + 1]
    BY HeadTailProperties
  <1>3. CASE m.ret = "none" /\ inbox # << >> /\ Sent(m, Last(inbox), line, truth)
    <2>1. \A i \in DOMAIN line' : i + 1 \in DOMAIN line /\ line'[i] = line[i + 1]
      BY <1>2
    <2>2. Sent(m, Last(inbox), line', truth)
      BY <1>3, <2>1 DEF Sent
    <2> HIDE DEF m, x
    <2>3. Sent(x, Last(inbox), line', truth)
      BY <1>1, <2>2, SameSent
    <2> QED
      BY <1>1, <1>3, <2>3 DEF Awaits, x, Last
  <1>4. CASE m.ret = "none" /\ NoneFresh /\ OnWire(m, line, truth, file)
    <2> HIDE DEF m, x
    <2>1. OnWire(m, line', truth, file)
      BY <1>4, AnswerNearer
    <2>2. OnWire(x, line', truth, file)
      BY <1>1, <2>1, SameOnWire
    <2>3. NoneFresh'
      BY <1>4 DEF NoneFresh
    <2> QED
      BY <1>1, <1>4, <2>2, <2>3 DEF Awaits, x
  <1>5. CASE NoneFresh /\ Told(m, 1, m.ret, truth, file)
    <2> HIDE DEF m, x
    <2>1. Told(x, 1, m.ret, truth, file)
      BY <1>1, <1>5, SameTold
    <2>2. NoneFresh'
      BY <1>5 DEF NoneFresh
    <2> QED
      BY <1>1, <1>5, <2>1, <2>2 DEF Awaits, x
  <1> QED
    BY <1>3, <1>4, <1>5 DEF Awaits

(* What a thread polls is nobody's answer, or its owner is robbed. *)
LEMMA PollLineStep ==
  ASSUME ServInv, NEW t \in Threads, PollLine(t)
  PROVE  ServInv'
  <1> DEFINE robs == line # << >> /\ Head(line).kind # "UULOC" /\ Head(line).fresh
  <1>1. /\ TypeOK /\ DriverTypes /\ WireTypes /\ ModemTypes
        /\ Locked /\ LastIsFresh /\ Talks /\ Reads /\ Positions /\ Results
    BY DEF ServInv, TypeOK
  <1>2. /\ me[t].at = "poll"
        /\ me' = [u \in Threads |->
                    CASE u = t -> [me[u] EXCEPT !.at = "lock"]
                      [] u # t /\ u = lock /\ robs -> [me[u] EXCEPT !.robbed = TRUE]
                      [] OTHER -> me[u]]
        /\ UNCHANGED <<lock, result, requests, alone, inbox>>
        /\ UNCHANGED <<msgs, file, dataMode, locating, truth, written>>
        /\ UNCHANGED <<calls, lost, late>>
    BY DEF PollLine, modem, count
  <1>3. \/ line = << >> /\ UNCHANGED <<line, position, locRcvPos, locExpPos>>
        \/ line # << >> /\ Unsolicited(Head(line)) /\ line' = Tail(line)
    BY DEF PollLine
  <1>4. /\ me \in [Threads -> Locals] /\ line \in Seq(Lined) /\ inbox \in Seq(Cmds)
        /\ lock # t /\ \A u \in Threads : me[u] \in Locals /\ Keeps(me[u])
    BY <1>1, <1>2 DEF DriverTypes, WireTypes, Locked
  <1> HIDE DEF robs
  <1>5. ASSUME NEW u \in Threads
        PROVE  /\ me'[u] \in Locals /\ me'[u].ret = me[u].ret /\ me'[u].asked = me[u].asked
               /\ (me'[u].own <=> me[u].own) /\ (me'[u].changed <=> me[u].changed)
               /\ me'[u].call = me[u].call /\ me'[u].cmd = me[u].cmd
               /\ me'[u].buf = me[u].buf /\ me'[u].cnt = me[u].cnt
               /\ me'[u].off = me[u].off /\ me'[u].left = me[u].left
               /\ Undisturbed(me'[u]) => Undisturbed(me[u])
               /\ u = t => me'[u].at = "lock"
               /\ u # t => me'[u].at = me[u].at
               /\ u # t /\ u = lock /\ Undisturbed(me'[u]) => ~robs
    <2>1. CASE u = t
      <3>1. me'[u] = [me[u] EXCEPT !.at = "lock"]
        BY <1>2, <2>1
      <3> QED
        BY <1>4, <2>1, <3>1 DEF Locals, Undisturbed
    <2>2. CASE u # t /\ u = lock /\ robs
      <3>1. me'[u] = [me[u] EXCEPT !.robbed = TRUE]
        BY <1>2, <2>2
      <3> QED
        BY <1>4, <2>2, <3>1 DEF Locals, Undisturbed
    <2>3. CASE u # t /\ ~(u = lock /\ robs)
      <3>1. me'[u] = me[u]
        BY <1>2, <2>3
      <3> QED
        BY <1>4, <2>3, <3>1
    <2> QED
      BY <2>1, <2>2, <2>3
  <1>6. /\ Positions' /\ WireTypes'
        /\ position' \in [validData : BOOLEAN, of : Nat] /\ locRcvPos' \in Int /\ locExpPos' \in Int
    <2>1. \A u \in Threads : me'[u].call.fn = "cellLocGetData" =>
            me[u].call.fn = "cellLocGetData" /\ me'[u].asked = me[u].asked
      BY <1>5
    <2>2. CASE line # << >> /\ Unsolicited(Head(line)) /\ line' = Tail(line)
      BY <1>1, <1>2, <2>1, <2>2, PositionsUnsolicited
    <2>3. CASE line = << >> /\ UNCHANGED <<line, position, locRcvPos, locExpPos>>
      <3>1. PICK zero \in Nat : zero = 0
        OBVIOUS
      <3>2. \A i \in 1 .. Len(inbox') : inbox'[i].kind = "ULOC" =>
              i + zero \in 1 .. Len(inbox) /\ inbox[i + zero].kind = "ULOC"
        BY <1>2, <3>1
      <3>3. \A i \in 1 .. Len(line') : line'[i].kind = "UULOC" =>
              /\ i + zero \in 1 .. Len(line) /\ line[i + zero].kind = "UULOC"
              /\ line'[i].val = line[i + zero].val
        BY <2>3, <3>1
      <3>4. Positions'
        BY <1>1, <1>2, <1>4, <2>1, <2>3, <3>2, <3>3, PositionsStay
      <3> QED
        BY <1>1, <1>2, <2>3, <3>4 DEF WireTypes, DriverTypes
    <2> QED
      BY <1>3, <2>2, <2>3
  <1>7. TypeOK'
    <2>1. me' \in [Threads -> Locals]
      BY <1>2, <1>5
    <2>2. DriverTypes'
      BY <1>1, <1>2, <1>6, <2>1 DEF DriverTypes
    <2>3. ModemTypes'
      BY <1>1, <1>2 DEF ModemTypes
    <2> QED
      BY <1>6, <2>2, <2>3 DEF TypeOK
  <1>8. Locked'
    <2>1. ASSUME NEW u \in Threads
          PROVE  Keeps(me'[u]) /\ (lock' = u <=> me'[u].at \in {"wait", "data"})
      <3>1. CASE u = t
        <4>1. me[u].call.fn = "cellLocGetExpRes" /\ me[u].call \in Calls
          BY <1>2, <1>4, <3>1 DEF Keeps
        <4>2. me[u].cmd = "none"
          BY <1>4, <4>1, CommandFacts DEF Keeps
        <4>3. Keeps(me'[u])
          BY <1>4, <1>5, <3>1, <4>1, <4>2 DEF Keeps
        <4> QED
          BY <1>2, <1>4, <1>5, <3>1, <4>3
      <3>2. CASE u # t
        <4>1. Keeps(me'[u])
          BY <1>4, <1>5, <3>2 DEF Keeps
        <4> QED
          BY <1>1, <1>2, <1>5, <3>2, <4>1 DEF Locked
      <3> QED
        BY <3>1, <3>2
    <2> QED
      BY <2>1 DEF Locked, Keeps
  <1>9. LastIsFresh'
    BY <1>1, <1>2 DEF LastIsFresh
  <1>10. Reads'
    <2>1. ASSUME NEW u \in Threads, Undisturbed(me'[u]) PROVE ReadSoFar(me'[u], file)
      <3>1. ReadSoFar(me[u], file)
        BY <1>1, <1>5, <2>1 DEF Reads
      <3> QED
        BY <1>5, <3>1 DEF ReadSoFar
    <2> QED
      BY <1>2, <2>1 DEF Reads, Undisturbed, ReadSoFar
  <1>11. Talks'
    <2>1. ASSUME NEW u \in Threads, lock' = u, Undisturbed(me'[u]) PROVE Awaits(u)'
      <3>1. u # t /\ lock = u /\ Undisturbed(me[u]) /\ ~robs
        <4>1. lock = u /\ u # t
          BY <1>2, <1>4, <2>1
        <4> QED
          BY <1>5, <2>1, <4>1
      <3>2. Awaits(u)
        BY <1>1, <3>1 DEF Talks
      <3>3. Same(me[u], me'[u]) /\ me'[u].ret = me[u].ret /\ (me'[u].changed <=> me[u].changed)
        BY <1>5, <3>1 DEF Same
      <3>4. CASE line # << >> /\ line' = Tail(line)
        <4>1. Stale(Head(line))
          BY <3>1, <3>4 DEF Stale, robs
        <4> QED
          BY <1>2, <1>4, <3>2, <3>3, <3>4, <4>1, AwaitsLoses
      <3>5. CASE line' = line
        <4>1. NoneFresh => NoneFresh'
          BY <1>2 DEF NoneFresh
        <4>2. inbox # << >> /\ Last(inbox).fresh => inbox' # << >> /\ Last(inbox') = Last(inbox)
          BY <1>2
        <4>3. /\ line' \in Seq(Lined) /\ Len(line) <= Len(line') /\ \A i \in 1 .. Len(line) : line'[i] = line[i]
              /\ \A i \in 1 .. Len(line') : i > Len(line) => Stale(line'[i])
          BY <1>4, <3>5
        <4> QED
          BY <1>2, <1>4, <3>2, <3>3, <4>1, <4>2, <4>3, AwaitsGrows
      <3> QED
        BY <1>3, <3>4, <3>5
    <2> QED
      BY <2>1 DEF Talks, Undisturbed
  <1>12. Results'
    BY <1>1, <1>2, <1>6, ResultsStay
  <1> QED
    BY <1>6, <1>7, <1>8, <1>9, <1>10, <1>11, <1>12 DEF ServInv

-----------------------------------------------------------------------------
(* The steps of the functions.                                              *)

(* A step of t that leaves the wire and the modem alone. *)
LEMMA DriverStep ==
  ASSUME ServInv, NEW t \in Threads, NEW x \in Locals, me' = [me EXCEPT ![t] = x], Keeps(x),
         lock' = t <=> x.at \in {"wait", "data"},
         \A u \in Threads : u # t => (lock' = u <=> lock = u),
         lock' \in Threads \cup {"free"},
         UNCHANGED <<place, inbox, line, modem>>,
         calls' \in Nat, lost' \in Nat, late' \in Nat,
         x.call.fn = "cellLocGetData" =>
           \/ me[t].call.fn = "cellLocGetData" /\ x.asked = me[t].asked
           \/ NoneOlder(x.asked),
         Undisturbed(x) => ReadSoFar(x, file),
         ~(lock' = t /\ Undisturbed(x)),
         result' = result \/
           /\ result' \in [of : Outcomes, ok : BOOLEAN, truth : Truths, file : Seq(Byte)]
           /\ Truthful' /\ BlocksAreTheFile'
           /\ result'.of.call.fn = "cellLocGetData" /\ result'.ok => result'.of.cnt >= result'.of.asked
  PROVE  ServInv'
  <1>1. /\ TypeOK /\ DriverTypes /\ WireTypes /\ ModemTypes
        /\ Locked /\ LastIsFresh /\ Talks /\ Reads /\ Positions /\ Results
    BY DEF ServInv, TypeOK
  <1>2. /\ UNCHANGED <<position, locRcvPos, locExpPos, requests, alone, inbox, line>>
        /\ UNCHANGED <<msgs, file, dataMode, locating, truth, written>>
    BY DEF place, modem
  <1>3. me \in [Threads -> Locals] /\ inbox \in Seq(Cmds) /\ line \in Seq(Lined)
    BY <1>1 DEF DriverTypes, WireTypes
  <1>4. /\ me' \in [Threads -> Locals] /\ me'[t] = x
        /\ \A u \in Threads : u # t => me'[u] = me[u]
    BY <1>3, OneMoves
  <1>5. WireTypes' /\ ModemTypes'
    BY <1>1, <1>2 DEF WireTypes, ModemTypes
  <1>6. Locked'
    BY <1>1, <1>3, LockedMoves
  <1>7. LastIsFresh'
    BY <1>1, <1>2 DEF LastIsFresh
  <1>8. Reads'
    BY <1>1, <1>2, <1>3, ReadsMoves
  <1>9. Talks'
    <2>1. ASSUME NEW u \in Threads, lock' = u, Undisturbed(me'[u]) PROVE Awaits(u)'
      <3>1. u # t
        BY <1>4, <2>1
      <3>2. me'[u] = me[u] /\ lock = u
        BY <1>4, <2>1, <3>1
      <3>3. Awaits(u)
        BY <1>1, <2>1, <3>2 DEF Talks
      <3> QED
        BY <1>2, <3>2, <3>3 DEF Awaits, NoneFresh
    <2> QED
      BY <2>1 DEF Talks, Undisturbed
  <1>10. Positions'
    <2>1. alone' => OneOnItsWay'
      BY <1>1, <1>2 DEF Positions, OneOnItsWay, OnItsWay
    <2>2. ASSUME NEW u \in Threads, me'[u].call.fn = "cellLocGetData" PROVE NoneOlder(me[u].asked)'
      <3>1. NoneOlder(me'[u].asked)
        <4>1. CASE u = t
          BY <1>1, <1>4, <2>2, <4>1 DEF Positions
        <4>2. CASE u # t
          BY <1>1, <1>4, <2>2, <4>2 DEF Positions
        <4> QED
          BY <4>1, <4>2
      <3> QED
        BY <1>2, <3>1 DEF NoneOlder
    <2> QED
      BY <2>1, <2>2 DEF Positions
  <1>11. result' \in [of : Outcomes, ok : BOOLEAN, truth : Truths, file : Seq(Byte)]
    BY <1>1 DEF DriverTypes
  <1>12. DriverTypes'
    BY <1>1, <1>2, <1>4, <1>11 DEF DriverTypes
  <1>13. Results'
    <2>1. CASE result' = result
      BY <1>1, <1>10, <2>1, ResultsStay
    <2>2. CASE result' # result
      <3>1. PositionIsOfRequest'
        <4>1. alone' /\ position'.validData => position'.of = requests' /\ locRcvPos' = 1
          BY <1>10 DEF Positions, OneOnItsWay
        <4> QED
          BY <2>2, <4>1 DEF PositionIsOfRequest
      <3> QED
        BY <2>2, <3>1 DEF Results
    <2> QED
      BY <2>1, <2>2
  <1> QED
    BY <1>5, <1>6, <1>7, <1>8, <1>9, <1>10, <1>12, <1>13 DEF ServInv, TypeOK

(* Nothing is wrong with a call that has not begun. *)
LEMMA IdleFacts ==
  /\ Idle \in Locals /\ Keeps(Idle) /\ Idle.at = "idle" /\ Idle.call.fn # "cellLocGetData"
  /\ \A f : ReadSoFar(Idle, f)
  <1>1. MaxFile \in Nat
    BY ArgFacts
  <1>2. NoBuffer \in [1 .. MaxFile -> Values \cup Byte]
    BY <1>1 DEF NoBuffer, NoByte, Byte
  <1>3. Idle \in Locals
    BY <1>2 DEF Idle, Locals
  <1>4. Keeps(Idle)
    BY CommandFacts DEF Keeps, Idle, NoCall
  <1> QED
    BY <1>3, <1>4 DEF Idle, NoCall, ReadSoFar

(* The time of a wait is over. *)
LEMMA WaitTimeoutStep ==
  ASSUME ServInv, NEW t \in Threads, WaitTimeout(t)
  PROVE  ServInv'
  <1> DEFINE m == me[t]
             isLate == inbox # << >> \/ line # << >>
             o == m.own /\ ~isLate
             x == [m EXCEPT !.ret = "WAIT", !.own = o]
  <1>1. /\ TypeOK /\ DriverTypes /\ WireTypes /\ Locked /\ Talks /\ Reads
    BY DEF ServInv, TypeOK
  <1>2. /\ m.at \in {"wait", "data"} /\ m.ret = "none" /\ me' = [me EXCEPT ![t] = x]
        /\ late' = IF isLate THEN late + 1 ELSE late
        /\ UNCHANGED <<lock, result, place, inbox, line, modem, calls, lost>>
    BY DEF WaitTimeout
  <1>3. me \in [Threads -> Locals] /\ m \in Locals /\ line \in Seq(Lined)
    BY <1>1 DEF DriverTypes, WireTypes
  <1>4. lock = t /\ Keeps(m)
    BY <1>1, <1>2 DEF Locked
  <1>5. o \in BOOLEAN
    OBVIOUS
  <1> HIDE DEF m, o
  <1>6. /\ x \in Locals /\ x.call = m.call /\ x.cmd = m.cmd /\ x.at = m.at /\ x.buf = m.buf
        /\ x.cnt = m.cnt /\ x.off = m.off /\ x.left = m.left /\ x.asked = m.asked
        /\ x.changed = m.changed /\ x.robbed = m.robbed /\ x.own = o
    BY <1>3, <1>5 DEF Locals
  <1> HIDE DEF x
  <1>7. Undisturbed(x) => Undisturbed(m) /\ inbox = << >> /\ line = << >>
    BY <1>6 DEF Undisturbed, o
  <1>8. ~Undisturbed(x)
    <2>1. SUFFICES ASSUME Undisturbed(x) PROVE FALSE
      OBVIOUS
    <2>2. Awaits(t) /\ inbox = << >> /\ line = << >>
      BY <1>1, <1>4, <1>7, <2>1 DEF Talks, m
    <2>3. ~OnWire(m, line, truth, file)
      BY <2>2 DEF OnWire
    <2>4. ~Told(m, 1, m.ret, truth, file)
      BY <1>2 DEF Told, Final
    <2> QED
      BY <2>2, <2>3, <2>4 DEF Awaits, m
  <1>9. Keeps(x)
    BY <1>2, <1>4, <1>6 DEF Keeps, m
  <1>10. x.at \in {"wait", "data"}
    BY <1>2, <1>6
  <1>11. calls' \in Nat /\ lost' \in Nat /\ late' \in Nat
    BY <1>1, <1>2 DEF DriverTypes
  <1>12. lock' = t /\ lock' \in Threads \cup {"free"} /\ \A u \in Threads : u # t => (lock' = u <=> lock = u)
    BY <1>2, <1>4
  <1>13. x.call.fn = "cellLocGetData" => me[t].call.fn = "cellLocGetData" /\ x.asked = me[t].asked
    BY <1>6 DEF m
  <1> QED
    BY <1>2, <1>6, <1>8, <1>9, <1>10, <1>11, <1>12, <1>13, DriverStep

(* A call begins, or finds no position that is valid. *)
LEMMA CallStep ==
  ASSUME ServInv, NEW t \in Threads, NEW c \in Calls, Call(t, c)
  PROVE  ServInv'
  <1> DEFINE x == [Idle EXCEPT !.call = c, !.asked = IF alone THEN requests ELSE 0,
                     !.at = IF c.fn = "cellLocGetExpRes" THEN "poll" ELSE "lock",
                     !.cmd = IF c.fn \in DOMAIN Command THEN Command[c.fn] ELSE "none"]
  <1>1. /\ TypeOK /\ DriverTypes /\ WireTypes /\ ModemTypes /\ Locked /\ Talks /\ Reads /\ Positions
    BY DEF ServInv, TypeOK
  <1>2. /\ me[t].at = "idle" /\ calls' = calls + 1
        /\ UNCHANGED <<lock, place, inbox, line, modem, lost, late>>
        /\ IF c.fn = "cellLocGetData" /\ ~position.validData
           THEN Return(t, x, FALSE)
           ELSE me' = [me EXCEPT ![t] = x] /\ result' = result
    BY DEF Call
  <1>3. x \in Locals
    <2>1. c.fn \in DOMAIN Command => Command[c.fn] \in Requests
      BY CommandFacts
    <2>2. requests \in Nat
      BY <1>1 DEF DriverTypes
    <2> QED
      BY <2>1, <2>2, IdleFacts DEF Locals
  <1>4. /\ x.call = c /\ x.cnt = 0 /\ x.off = 0 /\ x.left = 0 /\ x.ret = "none"
        /\ x.asked = (IF alone THEN requests ELSE 0)
        /\ x.at = (IF c.fn = "cellLocGetExpRes" THEN "poll" ELSE "lock")
        /\ x.cmd = (IF c.fn \in DOMAIN Command THEN Command[c.fn] ELSE "none")
    BY DEF Idle
  <1> HIDE DEF x
  <1>5. Keeps(x)
    <2>1. c.fn \in DOMAIN Command => x.cmd # "none" /\ x.cmd # "URDBLOCK"
      BY <1>4, CommandFacts DEF Requests, Prompting
    <2>2. c.fn = "readFileNew" => x.cmd = "ULSTFILE"
      BY <1>4, CommandFacts
    <2>3. x.cmd # "URDBLOCK"
      BY <1>4, <2>1
    <2> QED
      BY <1>4, <2>1, <2>2, <2>3 DEF Keeps
  <1>6. lock # t /\ x.at \notin {"wait", "data"}
    BY <1>1, <1>2, <1>4 DEF Locked
  <1>7. /\ lock' = lock /\ lock' \in Threads \cup {"free"}
        /\ calls' \in Nat /\ lost' \in Nat /\ late' \in Nat
    BY <1>1, <1>2 DEF DriverTypes
  <1>8. CASE c.fn = "cellLocGetData" /\ ~position.validData
    <2>1. me' = [me EXCEPT ![t] = Idle] /\ result' = [of |-> x, ok |-> FALSE, truth |-> truth, file |-> file]
      BY <1>2, <1>8 DEF Return
    <2>2. x.cmd = "none"
      BY <1>4, <1>8, CommandFacts
    <2>3. /\ result' \in [of : Outcomes, ok : BOOLEAN, truth : Truths, file : Seq(Byte)]
          /\ result'.of = x /\ result'.ok = FALSE
      BY <1>1, <1>3, <2>1, OutcomeFacts DEF ModemTypes
    <2>4. Truthful' /\ BlocksAreTheFile'
      BY <2>2, <2>3 DEF Truthful, BlocksAreTheFile
    <2>5. lock' # t
      BY <1>6, <1>7
    <2> QED
      BY <1>2, <1>7, <2>1, <2>3, <2>4, <2>5, IdleFacts, DriverStep
  <1>9. CASE ~(c.fn = "cellLocGetData" /\ ~position.validData)
    <2>1. me' = [me EXCEPT ![t] = x] /\ result' = result
      BY <1>2, <1>9
    <2>2. ASSUME x.call.fn = "cellLocGetData" PROVE NoneOlder(x.asked)
      <3>1. position.validData
        BY <1>4, <1>9, <2>2
      <3>2. requests \in Nat /\ position.of \in Nat /\ locating \subseteq Nat /\ line \in Seq(Lined)
        BY <1>1 DEF DriverTypes, WireTypes, ModemTypes
      <3>3. CASE alone
        <4>1. OneOnItsWay /\ x.asked = requests
          BY <1>1, <1>4, <3>3 DEF Positions
        <4>2. position.of = requests /\ locating = {} /\ \A i \in DOMAIN line : line[i].kind # "UULOC"
          BY <3>1, <4>1 DEF OneOnItsWay
        <4> QED
          BY <3>2, <4>1, <4>2 DEF NoneOlder
      <3>4. CASE ~alone
        <4>1. x.asked = 0
          BY <1>4, <3>4
        <4>2. \A i \in DOMAIN line : line[i].kind = "UULOC" => line[i].val[1] \in Nat
          BY <3>2 DEF Lined
        <4> QED
          BY <3>2, <4>1, <4>2 DEF NoneOlder
      <3> QED
        BY <3>3, <3>4
    <2>3. ReadSoFar(x, file)
      <3>1. x.cmd # "URDBLOCK"
        BY <1>4, CommandFacts
      <3> QED
        BY <3>1 DEF ReadSoFar
    <2>4. lock' # t
      BY <1>6, <1>7
    <2> QED
      BY <1>2, <1>3, <1>5, <1>6, <1>7, <2>1, <2>2, <2>3, <2>4, DriverStep
  <1> QED
    BY <1>8, <1>9

(* A function returns that asks the modem nothing. *)
LEMMA ReturnLocalStep ==
  ASSUME ServInv, NEW t \in Threads, ReturnLocal(t)
  PROVE  ServInv'
  <1> DEFINE m == me[t]
  <1>1. TypeOK /\ DriverTypes /\ ModemTypes /\ Locked /\ Positions
    BY DEF ServInv, TypeOK
  <1>2. /\ m.at = "lock" /\ lock = "free" /\ m.cmd = "none"
        /\ UNCHANGED <<lock, place, inbox, line, modem, calls, lost, late>>
    BY DEF ReturnLocal, Locks, count
  <1>3. m \in Locals /\ Keeps(m)
    BY <1>1 DEF DriverTypes, Locked
  <1>4. m.call.fn \in Unsupported \cup {"cellLocGetExpRes", "cellLocGetData"}
    <2>1. m.call \in Calls /\ m.call.fn \notin DOMAIN Command
      BY <1>2, <1>3 DEF Keeps
    <2>2. m.call.fn \in Callable
      BY <2>1, ServicesAssumption
    <2> QED
      BY <2>1, <2>2 DEF Callable
  <1>5. position.of \in Nat /\ locExpPos \in Int
    BY <1>1 DEF DriverTypes
  <1>6. PICK r \in Outcomes, ok \in BOOLEAN :
          /\ Return(t, r, ok) /\ r.cmd = "none"
          /\ r.call.fn = "cellLocGetData" /\ ok => r.cnt >= r.asked
    <2> DEFINE Done(r, ok) == /\ Return(t, r, ok) /\ r.cmd = "none"
                              /\ r.call.fn = "cellLocGetData" /\ ok => r.cnt >= r.asked
    <2>1. CASE m.call.fn \in Unsupported
      <3>1. Return(t, m, FALSE)
        BY <2>1 DEF ReturnLocal, Unsupported
      <3>2. Done(m, FALSE)
        BY <1>2, <3>1
      <3> HIDE DEF Done
      <3> QED
        BY <1>3, <3>2, OutcomeFacts DEF Done
    <2>2. CASE m.call.fn = "cellLocGetExpRes"
      <3> DEFINE n == IF locRcvPos > 0 THEN locExpPos ELSE 0
                 r == [m EXCEPT !.cnt = n]
      <3>1. Return(t, r, TRUE)
        BY <2>2 DEF ReturnLocal, Unsupported
      <3>2. n \in Int
        BY <1>5
      <3> HIDE DEF n, m
      <3>3. r \in Outcomes /\ r.cmd = m.cmd /\ r.call = m.call
        BY <1>3, <3>2, OutcomeFacts DEF Locals
      <3> HIDE DEF r
      <3>4. Done(r, TRUE)
        BY <1>2, <2>2, <3>1, <3>3
      <3> HIDE DEF Done
      <3> QED
        BY <3>3, <3>4 DEF Done
    <2>3. CASE m.call.fn = "cellLocGetData"
      <3> DEFINE r == [m EXCEPT !.cnt = position.of]
      <3>1. Return(t, r, TRUE)
        BY <2>3 DEF ReturnLocal, Unsupported
      <3>2. m.asked <= position.of
        BY <1>1, <2>3 DEF Positions, NoneOlder
      <3> HIDE DEF m
      <3>3. r \in Locals /\ r.cmd = m.cmd /\ r.call = m.call /\ r.cnt = position.of /\ r.asked = m.asked
        BY <1>3, <1>5 DEF Locals
      <3> HIDE DEF r
      <3>4. r.asked \in Nat /\ r.cnt \in Nat
        BY <3>3 DEF Locals
      <3>5. r.cnt >= r.asked
        BY <1>5, <3>2, <3>3, <3>4
      <3>6. Done(r, TRUE)
        BY <1>2, <3>1, <3>3, <3>5
      <3> HIDE DEF Done
      <3> QED
        BY <3>3, <3>6, OutcomeFacts DEF Done
    <2> QED
      BY <1>4, <2>1, <2>2, <2>3
  <1>7. me' = [me EXCEPT ![t] = Idle] /\ result' = [of |-> r, ok |-> ok, truth |-> truth, file |-> file]
    BY <1>6 DEF Return
  <1>8. /\ result' \in [of : Outcomes, ok : BOOLEAN, truth : Truths, file : Seq(Byte)]
        /\ result'.of = r /\ result'.ok = ok
    <2>1. r \in Outcomes /\ ok \in BOOLEAN /\ truth \in Truths /\ file \in Seq(Byte)
      BY <1>1, <1>6 DEF ModemTypes
    <2> QED
      BY <1>7, <2>1
  <1>9. Truthful' /\ BlocksAreTheFile'
    BY <1>6, <1>8 DEF Truthful, BlocksAreTheFile
  <1>10. /\ lock' # t /\ lock' \in Threads \cup {"free"} /\ lock' = lock
         /\ calls' \in Nat /\ lost' \in Nat /\ late' \in Nat
    BY <1>1, <1>2, ServicesAssumption DEF DriverTypes
  <1>11. result'.of.call.fn = "cellLocGetData" /\ result'.ok => result'.of.cnt >= result'.of.asked
    BY <1>6, <1>8
  <1> QED
    BY <1>2, <1>7, <1>8, <1>9, <1>10, <1>11, IdleFacts, DriverStep

(* What a thread that has its answer knows of it. *)
LEMMA AnsweredFacts ==
  ASSUME ServInv, NEW t \in Threads, Answered(t)
  PROVE  /\ me[t] \in Locals /\ Keeps(me[t]) /\ lock = t
         /\ me[t].at \in {"wait", "data"} /\ me[t].cmd # "none"
         /\ me[t].call.fn \in DOMAIN Command
         /\ Undisturbed(me[t]) => Told(me[t], 1, me[t].ret, truth, file)
         /\ Undisturbed(me[t]) => ReadSoFar(me[t], file)
         /\ truth \in Truths /\ file \in Seq(Byte) /\ Len(file) <= MaxFile
         /\ calls \in Nat /\ lost \in Nat /\ late \in Nat
         /\ t # "free" /\ \A u \in Threads : u # t => lock # u
  <1>1. /\ DriverTypes /\ ModemTypes /\ Locked /\ Talks /\ Reads
    BY DEF ServInv, TypeOK
  <1>2. me[t] \in Locals /\ Keeps(me[t]) /\ lock = t /\ me[t].at \in {"wait", "data"}
    BY <1>1 DEF Answered, DriverTypes, Locked
  <1>3. me[t].cmd # "none" /\ me[t].call.fn \in DOMAIN Command
    BY <1>2 DEF Keeps
  <1>4. ASSUME Undisturbed(me[t])
        PROVE  Told(me[t], 1, me[t].ret, truth, file) /\ ReadSoFar(me[t], file)
    <2>1. Awaits(t) /\ me[t].ret # "none"
      BY <1>1, <1>2, <1>4 DEF Talks, Answered
    <2> QED
      BY <1>1, <1>4, <2>1 DEF Awaits, Reads
  <1> QED
    BY <1>1, <1>2, <1>3, <1>4, ServicesAssumption DEF ModemTypes, DriverTypes

(* A function that has its answer gives the lock back and returns r. *)
LEMMA ReturnStep ==
  ASSUME ServInv, NEW t \in Threads, Answered(t), Unlock, NEW r \in Locals, NEW ok \in BOOLEAN,
         Return(t, r, ok), r.call = me[t].call, UNCHANGED <<place, inbox, line, modem, count>>,
         Undisturbed(r) /\ r.call.fn # "readFileNew" =>
           (ok <=> truth.ok) /\ (ok => Collected(r, truth.val)),
         Undisturbed(r) /\ r.cmd = "URDBLOCK" /\ ok /\ ~r.changed =>
           r.cnt = Len(file) /\ Begins(r.buf, file)
  PROVE  ServInv'
  <1>1. me' = [me EXCEPT ![t] = Idle] /\ result' = [of |-> r, ok |-> ok, truth |-> truth, file |-> file]
    BY DEF Return
  <1>2. truth \in Truths /\ file \in Seq(Byte) /\ truth.ok \in BOOLEAN
    BY AnsweredFacts DEF Truths
  <1>3. /\ result' \in [of : Outcomes, ok : BOOLEAN, truth : Truths, file : Seq(Byte)]
        /\ result'.of = r /\ result'.ok = ok /\ result'.truth = truth /\ result'.file = file
    BY <1>1, <1>2, OutcomeFacts
  <1>4. Truthful'
    BY <1>2, <1>3 DEF Truthful, Undisturbed, Collected, Begins
  <1>5. BlocksAreTheFile'
    BY <1>3 DEF BlocksAreTheFile, Undisturbed, Begins
  <1>6. result'.of.call.fn # "cellLocGetData"
    BY <1>3, AnsweredFacts, CommandFacts
  <1>7. lock' # t /\ lock' = "free" /\ \A u \in Threads : u # t => (lock' = u <=> lock = u)
    BY AnsweredFacts, ServicesAssumption DEF Unlock
  <1>8. calls' \in Nat /\ lost' \in Nat /\ late' \in Nat
    BY AnsweredFacts DEF count
  <1> QED
    BY <1>1, <1>3, <1>4, <1>5, <1>6, <1>7, <1>8, IdleFacts, DriverStep

(* A function that has its answer gives the lock back and has more to ask. *)
LEMMA GoOnStep ==
  ASSUME ServInv, NEW t \in Threads, Answered(t), Unlock, NEW x \in Locals,
         me' = [me EXCEPT ![t] = x], result' = result, x.call = me[t].call, x.at = "lock", Keeps(x),
         UNCHANGED <<place, inbox, line, modem, count>>,
         Undisturbed(x) => ReadSoFar(x, file)
  PROVE  ServInv'
  <1>1. lock' # t /\ lock' = "free" /\ \A u \in Threads : u # t => (lock' = u <=> lock = u)
    BY AnsweredFacts, ServicesAssumption DEF Unlock
  <1>2. calls' \in Nat /\ lost' \in Nat /\ late' \in Nat
    BY AnsweredFacts DEF count
  <1>3. x.call.fn # "cellLocGetData"
    BY AnsweredFacts, CommandFacts
  <1> QED
    BY <1>1, <1>2, <1>3, DriverStep

(* A function of one command returns. *)
LEMMA ReturnAnswerStep ==
  ASSUME ServInv, NEW t \in Threads, ReturnAnswer(t)
  PROVE  ServInv'
  <1> DEFINE m == me[t]
             ok == m.ret = "OK" /\ (m.cmd \in {"CMGS", "UDWNFILE"} => m.at = "data")
  <1>1. /\ Answered(t) /\ m.call.fn # "readFileNew" /\ Unlock /\ Return(t, m, ok)
        /\ UNCHANGED <<place, inbox, line, modem, count>>
    BY DEF ReturnAnswer
  <1>2. m \in Locals /\ Keeps(m) /\ (Undisturbed(m) => Told(m, 1, m.ret, truth, file))
    BY <1>1, AnsweredFacts
  <1>3. m.cmd # "URDBLOCK"
    BY <1>1, <1>2 DEF Keeps
  <1>4. ok \in BOOLEAN /\ m.call = me[t].call
    OBVIOUS
  <1>5. ok <=> m.ret = "OK" /\ (m.cmd \in Prompting => m.at = "data")
    BY DEF Prompting
  <1> HIDE DEF m, ok
  <1>6. Undisturbed(m) => (ok <=> truth.ok) /\ (ok => Collected(m, truth.val))
    BY <1>2, <1>5 DEF Told, Heard
  <1> QED
    BY <1>1, <1>2, <1>3, <1>4, <1>6, ReturnStep

(* readFileNew has the size of the file, or has it not. *)
LEMMA FileSizedStep ==
  ASSUME ServInv, NEW t \in Threads, FileSized(t)
  PROVE  ServInv'
  <1> DEFINE m == me[t]
             x == [m EXCEPT !.cmd = "URDBLOCK", !.at = "lock", !.left = m.left + m.cnt, !.cnt = 0]
  <1>1. /\ Answered(t) /\ m.call.fn = "readFileNew" /\ m.cmd = "ULSTFILE" /\ Unlock
        /\ UNCHANGED <<place, inbox, line, modem, count>>
        /\ IF m.ret = "OK" /\ m.cnt > 0
           THEN me' = [me EXCEPT ![t] = x] /\ result' = result
           ELSE Return(t, m, FALSE)
    BY DEF FileSized
  <1>2. /\ m \in Locals /\ Keeps(m) /\ (Undisturbed(m) => Told(m, 1, m.ret, truth, file))
        /\ m.at \in {"wait", "data"} /\ file \in Seq(Byte)
    BY <1>1, AnsweredFacts
  <1>3. m.call = me[t].call
    OBVIOUS
  <1> HIDE DEF m
  <1>4. m.cnt \in Nat /\ m.left = 0 /\ m.off = 0 /\ m.left + m.cnt = m.cnt /\ m.left + m.cnt \in Nat
    BY <1>1, <1>2 DEF Keeps, Locals
  <1>5. CASE m.ret = "OK" /\ m.cnt > 0
    <2>1. /\ x \in Locals /\ x.cmd = "URDBLOCK" /\ x.at = "lock" /\ x.left = m.cnt /\ x.off = 0
          /\ x.call = m.call /\ x.own = m.own /\ x.robbed = m.robbed /\ x.changed = m.changed
      BY <1>2, <1>4 DEF Locals, Requests
    <2>2. me' = [me EXCEPT ![t] = x] /\ result' = result
      BY <1>1, <1>5
    <2> HIDE DEF x
    <2>3. Keeps(x)
      BY <1>1, <1>2, <2>1 DEF Keeps
    <2>4. ASSUME Undisturbed(x) PROVE ReadSoFar(x, file)
      <3>1. Told(m, 1, m.ret, truth, file)
        BY <1>2, <2>1, <2>4 DEF Undisturbed
      <3>2. ~m.changed => m.cnt = Len(truth.val) /\ truth.val = file
        BY <1>1, <1>5, <3>1 DEF Told, Heard, Collected
      <3>3. ~x.changed => x.off + x.left = Len(file)
        BY <1>4, <2>1, <3>2
      <3>4. \A i \in 1 .. x.off : FALSE
        BY <2>1
      <3> QED
        BY <3>3, <3>4 DEF ReadSoFar
    <2> QED
      BY <1>1, <1>3, <2>1, <2>2, <2>3, <2>4, GoOnStep
  <1>6. CASE ~(m.ret = "OK" /\ m.cnt > 0)
    <2>1. Return(t, m, FALSE)
      BY <1>1, <1>6
    <2> QED
      BY <1>1, <1>2, <1>3, <2>1, ReturnStep
  <1> QED
    BY <1>5, <1>6

(* A block is there, or could not be read. *)
LEMMA BlockReadStep ==
  ASSUME ServInv, NEW t \in Threads, BlockRead(t)
  PROVE  ServInv'
  <1> DEFINE m == me[t]
             x == AfterBlock(m)
             n == BlockSize(m)
  <1>1. /\ Answered(t) /\ m.cmd = "URDBLOCK" /\ Unlock
        /\ UNCHANGED <<place, inbox, line, modem, count>>
        /\ m.ret # "OK" => Return(t, m, FALSE)
        /\ m.ret = "OK" /\ x.left = 0 => Return(t, x, TRUE)
        /\ m.ret = "OK" /\ x.left # 0 => me' = [me EXCEPT ![t] = x] /\ result' = result
    BY DEF BlockRead
  <1>2. /\ m \in Locals /\ Keeps(m) /\ m.at \in {"wait", "data"} /\ file \in Seq(Byte)
        /\ Undisturbed(m) => Told(m, 1, m.ret, truth, file) /\ ReadSoFar(m, file)
    BY <1>1, AnsweredFacts
  <1>3. m.call = me[t].call
    OBVIOUS
  <1> HIDE DEF m
  <1>4. n \in Nat /\ n <= m.left /\ m.off \in Nat /\ m.left \in Nat
    BY <1>2, BlockFacts DEF Locals
  <1>5. m.call.fn = "readFileNew"
    BY <1>1, <1>2 DEF Keeps
  <1>6. /\ x \in Locals /\ x.cmd = m.cmd /\ x.at = "lock" /\ x.left = m.left - n /\ x.off = m.off + n
        /\ x.cnt = m.off + n /\ x.buf = m.buf
        /\ x.call = m.call /\ x.own = m.own /\ x.robbed = m.robbed /\ x.changed = m.changed
    <2>1. m.off + n \in Nat /\ m.left - n \in Nat
      BY <1>4
    <2>2. x = [m EXCEPT !.off = m.off + n, !.left = m.left - n, !.at = "lock", !.cnt = m.off + n]
      BY DEF AfterBlock
    <2> HIDE DEF x, n
    <2> QED
      BY <1>2, <2>1, <2>2 DEF Locals
  <1> HIDE DEF x
  <1>7. ASSUME Undisturbed(x), m.ret = "OK", ~m.changed
        PROVE  m.off + m.left = Len(file) /\ \A i \in 1 .. m.off + n : m.buf[i] = file[i]
    <2>1. Told(m, 1, m.ret, truth, file) /\ ReadSoFar(m, file)
      BY <1>2, <1>6, <1>7 DEF Undisturbed
    <2> QED
      BY <1>1, <1>7, <2>1 DEF Told, Heard, ReadSoFar
  <1> HIDE DEF n
  <1>8. CASE m.ret # "OK"
    BY <1>1, <1>2, <1>3, <1>5, <1>8, ReturnStep
  <1>9. CASE m.ret = "OK" /\ x.left = 0
    <2>1. ASSUME Undisturbed(x), ~x.changed PROVE x.cnt = Len(file) /\ Begins(x.buf, file)
      <3>1. m.off + m.left = Len(file) /\ \A i \in 1 .. m.off + n : m.buf[i] = file[i]
        BY <1>6, <1>7, <1>9, <2>1
      <3>2. m.off + n = Len(file)
        BY <1>4, <1>6, <1>9, <3>1
      <3> QED
        BY <1>2, <1>6, <3>1, <3>2 DEF Begins
    <2> QED
      BY <1>1, <1>3, <1>5, <1>6, <1>9, <2>1, ReturnStep
  <1>10. CASE m.ret = "OK" /\ x.left # 0
    <2>1. Keeps(x)
      BY <1>1, <1>2, <1>5, <1>6 DEF Keeps
    <2>2. ASSUME Undisturbed(x) PROVE ReadSoFar(x, file)
      <3>1. SUFFICES ASSUME ~x.changed
                     PROVE  x.off + x.left = Len(file) /\ \A i \in 1 .. x.off : x.buf[i] = file[i]
        BY DEF ReadSoFar
      <3>2. m.off + m.left = Len(file) /\ \A i \in 1 .. m.off + n : m.buf[i] = file[i]
        BY <1>6, <1>7, <1>10, <2>2, <3>1
      <3>3. x.off + x.left = m.off + m.left
        BY <1>4, <1>6
      <3> QED
        BY <1>6, <3>2, <3>3
    <2> QED
      BY <1>1, <1>3, <1>6, <1>10, <2>1, <2>2, GoOnStep
  <1> QED
    BY <1>8, <1>9, <1>10

(* A command is sent: it is the last the modem has, and all that is on the line is older. *)
LEMMA SendFacts ==
  ASSUME WireTypes, NEW c \in Cmds, c.fresh, Send(c)
  PROVE  /\ WireTypes' /\ truth' = NoTruth
         /\ inbox' # << >> /\ Last(inbox') = c
         /\ Len(inbox') = Len(inbox) + 1 /\ inbox'[Len(inbox) + 1] = c
         /\ \A i \in 1 .. Len(inbox) : inbox'[i].kind = inbox[i].kind /\ ~inbox'[i].fresh
         /\ Len(line') = Len(line)
         /\ \A i \in 1 .. Len(line) : /\ line'[i].kind = line[i].kind /\ line'[i].val = line[i].val
                                      /\ ~line'[i].fresh
  <1> DEFINE o == Old(inbox)
  <1>1. inbox \in Seq(Cmds) /\ line \in Seq(Lined) /\ Len(inbox) \in Nat
    BY DEF WireTypes
  <1>2. inbox' = Append(o, c) /\ line' = Old(line) /\ truth' = NoTruth
    BY DEF Send
  <1>3. /\ o \in Seq(Cmds) /\ Len(o) = Len(inbox)
        /\ \A i \in 1 .. Len(inbox) : o[i].kind = inbox[i].kind /\ o[i].fresh = FALSE
    BY <1>1, OldCommands
  <1>4. /\ Old(line) \in Seq(Lined) /\ Len(Old(line)) = Len(line)
        /\ \A i \in 1 .. Len(line) : /\ Old(line)[i].kind = line[i].kind /\ Old(line)[i].val = line[i].val
                                     /\ Old(line)[i].fresh = FALSE
    BY <1>1, OldLines
  <1> HIDE DEF o
  <1>5. /\ inbox' \in Seq(Cmds) /\ Len(inbox') = Len(inbox) + 1 /\ inbox'[Len(inbox) + 1] = c
        /\ \A i \in 1 .. Len(inbox) : inbox'[i] = o[i]
    BY <1>1, <1>2, <1>3, AppendProperties
  <1>6. inbox' # << >> /\ Last(inbox') = c
    BY <1>1, <1>5 DEF Last
  <1> QED
    BY <1>2, <1>3, <1>4, <1>5, <1>6 DEF WireTypes

(* A thread sends a command, or data, and waits. *)
LEMMA SendStep ==
  ASSUME ServInv, NEW t \in Threads, NEW x \in Locals, NEW c \in Cmds,
         Send(c), c.fresh, c.kind = SentKind(x), c.val = SentVal(x), x.cmd = "CMGL" => x.cnt = 0,
         me' = [me EXCEPT ![t] = x], Keeps(x), x.at \in {"wait", "data"}, x.ret = "none",
         lock' = t, lock = t \/ lock = "free",
         UNCHANGED <<result, msgs, file, dataMode, locating, written, count>>,
         position' \in [validData : BOOLEAN, of : Nat], locRcvPos' \in Int, locExpPos' \in Int,
         requests' \in Nat, alone' \in BOOLEAN, Positions',
         Undisturbed(x) => ReadSoFar(x, file)
  PROVE  ServInv'
  <1>1. /\ TypeOK /\ DriverTypes /\ WireTypes /\ ModemTypes
        /\ Locked /\ LastIsFresh /\ Talks /\ Reads /\ Positions /\ Results
    BY DEF ServInv, TypeOK
  <1>2. /\ WireTypes' /\ truth' = NoTruth
        /\ inbox' # << >> /\ Last(inbox') = c
        /\ Len(inbox') = Len(inbox) + 1
        /\ \A i \in 1 .. Len(inbox) : ~inbox'[i].fresh
        /\ Len(line') = Len(line)
        /\ \A i \in 1 .. Len(line) : ~line'[i].fresh
    BY <1>1, SendFacts
  <1>3. me \in [Threads -> Locals] /\ inbox \in Seq(Cmds) /\ inbox' \in Seq(Cmds) /\ line' \in Seq(Lined)
    BY <1>1, <1>2 DEF DriverTypes, WireTypes
  <1>4. /\ me' \in [Threads -> Locals] /\ me'[t] = x
        /\ \A u \in Threads : u # t => me'[u] = me[u]
    BY <1>3, OneMoves
  <1>5. TypeOK'
    <2>1. NoTruth \in Truths
      BY DEF NoTruth, Truths
    <2>2. ModemTypes'
      BY <1>1, <1>2, <2>1 DEF ModemTypes
    <2>3. calls' \in Nat /\ lost' \in Nat /\ late' \in Nat
      BY <1>1 DEF DriverTypes, count
    <2>4. DriverTypes'
      BY <1>1, <1>4, <2>3 DEF DriverTypes
    <2> QED
      BY <1>2, <2>2, <2>4 DEF TypeOK
  <1>6. Locked'
    <2>1. \A u \in Threads : u # t => (lock' = u <=> lock = u)
      BY ServicesAssumption
    <2> QED
      BY <1>1, <1>3, <2>1, LockedMoves
  <1>7. LastIsFresh'
    <2>1. ASSUME NEW i \in DOMAIN inbox', inbox'[i].fresh PROVE i = Len(inbox')
      <3>1. i \in 1 .. Len(inbox) + 1 /\ Len(inbox) \in Nat
        BY <1>2, <1>3
      <3>2. i \notin 1 .. Len(inbox)
        BY <1>2, <2>1
      <3> QED
        BY <1>2, <3>1, <3>2
    <2> QED
      BY <2>1 DEF LastIsFresh
  <1>8. Reads'
    BY <1>1, <1>3, ReadsMoves
  <1>9. Awaits(t)'
    <2>1. \A i \in DOMAIN line' : Stale(line'[i])
      BY <1>2, <1>3 DEF Stale
    <2>2. Sent(x, Last(inbox'), line', truth')
      BY <1>2, <2>1 DEF Sent
    <2> QED
      BY <1>2, <1>4, <2>2 DEF Awaits, Last
  <1>10. Talks'
    <2>1. ASSUME NEW u \in Threads, lock' = u PROVE Awaits(u)'
      <3>1. u = t
        BY <2>1
      <3> QED
        BY <1>9, <3>1
    <2> QED
      BY <2>1 DEF Talks
  <1>11. Results'
    BY <1>1, ResultsStay
  <1> QED
    BY <1>5, <1>6, <1>7, <1>8, <1>10, <1>11 DEF ServInv

(* A command that asks for no position leaves the positions under way as they are. *)
LEMMA PositionsSent ==
  ASSUME Positions, WireTypes, NEW c \in Cmds, c.fresh, Send(c), c.kind # "ULOC",
         UNCHANGED <<position, locRcvPos, requests, alone, locating>>,
         \A u \in Threads : me'[u].call = me[u].call /\ me'[u].asked = me[u].asked
  PROVE  Positions'
  <1>1. inbox \in Seq(Cmds) /\ line \in Seq(Lined) /\ inbox' \in Seq(Cmds) /\ line' \in Seq(Lined)
    BY SendFacts DEF WireTypes
  <1>2. PICK zero \in Nat : zero = 0
    OBVIOUS
  <1>3. ASSUME NEW i \in 1 .. Len(inbox'), inbox'[i].kind = "ULOC"
        PROVE  i + zero \in 1 .. Len(inbox) /\ inbox[i + zero].kind = "ULOC"
    <2>1. Len(inbox) \in Nat /\ Len(inbox') = Len(inbox) + 1 /\ inbox'[Len(inbox) + 1] = c
      BY <1>1, SendFacts
    <2>2. i \in 1 .. Len(inbox)
      BY <1>3, <2>1
    <2>3. inbox'[i].kind = inbox[i].kind
      BY <2>2, SendFacts
    <2> QED
      BY <1>2, <1>3, <2>2, <2>3
  <1>4. ASSUME NEW i \in 1 .. Len(line'), line'[i].kind = "UULOC"
        PROVE  /\ i + zero \in 1 .. Len(line) /\ line[i + zero].kind = "UULOC"
               /\ line'[i].val = line[i + zero].val
    <2>1. Len(line') = Len(line) /\ line'[i].kind = line[i].kind /\ line'[i].val = line[i].val
      BY SendFacts
    <2> QED
      BY <1>2, <1>4, <2>1
  <1> QED
    BY <1>1, <1>2, <1>3, <1>4, PositionsStay

(* A request makes what came before it worthless, and knows whether it is alone. *)
LEMMA PositionsForgotten ==
  ASSUME Positions, DriverTypes, WireTypes, NEW c \in Cmds, c.fresh, Send(c), c.kind = "ULOC",
         ForgetPositions, requests' = requests + 1, locating' = locating,
         alone' = (locating = {} /\ ~OnItsWay(line, "UULOC") /\ ~OnItsWay(inbox, "ULOC")),
         \A u \in Threads : me'[u].call = me[u].call /\ me'[u].asked = me[u].asked
  PROVE  Positions'
  <1>1. /\ inbox \in Seq(Cmds) /\ line \in Seq(Lined) /\ inbox' \in Seq(Cmds) /\ line' \in Seq(Lined)
        /\ Len(inbox) \in Nat
    BY SendFacts DEF WireTypes
  <1>2. /\ Len(inbox') = Len(inbox) + 1 /\ Len(line') = Len(line)
        /\ \A i \in 1 .. Len(inbox) : inbox'[i].kind = inbox[i].kind
        /\ \A i \in 1 .. Len(line) : line'[i].kind = line[i].kind /\ line'[i].val = line[i].val
    BY SendFacts
  <1>3. /\ position' = [position EXCEPT !.validData = FALSE] /\ locRcvPos' = 0
        /\ position \in [validData : BOOLEAN, of : Nat] /\ requests \in Nat
        /\ me \in [Threads -> Locals]
    BY DEF ForgetPositions, DriverTypes
  <1>4. position'.validData = FALSE /\ position'.of = position.of
    BY <1>3
  <1>5. ASSUME alone' PROVE OneOnItsWay'
    <2>1. locating' = {}
      BY <1>5
    <2>2. ASSUME NEW i \in DOMAIN line' PROVE line'[i].kind # "UULOC"
      <3>1. i \in 1 .. Len(line) /\ i \in DOMAIN line
        BY <1>1, <1>2
      <3> QED
        BY <1>2, <1>5, <3>1 DEF OnItsWay
    <2>3. ASSUME NEW i \in DOMAIN inbox', inbox'[i].kind = "ULOC" PROVE i = Len(inbox) + 1
      <3>1. i \in 1 .. Len(inbox) + 1
        BY <1>1, <1>2
      <3>2. ~(i \in 1 .. Len(inbox))
        <4>1. SUFFICES ASSUME i \in 1 .. Len(inbox) PROVE FALSE
          OBVIOUS
        <4>2. i \in DOMAIN inbox /\ inbox[i].kind = "ULOC"
          BY <1>1, <1>2, <2>3, <4>1
        <4> QED
          BY <1>5, <4>2 DEF OnItsWay
      <3> QED
        BY <1>1, <3>1, <3>2
    <2>4. ~OnItsWay(line, "UULOC")'
      BY <2>2 DEF OnItsWay
    <2> QED
      BY <1>3, <1>4, <2>1, <2>2, <2>3, <2>4 DEF OneOnItsWay
  <1>6. ASSUME NEW n \in Nat, NoneOlder(n) PROVE NoneOlder(n)'
    <2>1. n <= requests' /\ n <= position'.of
      BY <1>3, <1>4, <1>6 DEF NoneOlder
    <2>2. ASSUME NEW i \in DOMAIN line', line'[i].kind = "UULOC" PROVE n <= line'[i].val[1]
      <3>1. i \in 1 .. Len(line) /\ i \in DOMAIN line
        BY <1>1, <1>2
      <3> QED
        BY <1>2, <1>6, <2>2, <3>1 DEF NoneOlder
    <2> QED
      BY <1>6, <2>1, <2>2 DEF NoneOlder
  <1>7. ASSUME NEW u \in Threads, me'[u].call.fn = "cellLocGetData" PROVE NoneOlder(me[u].asked)'
    <2>1. me[u].asked \in Nat /\ NoneOlder(me[u].asked)
      BY <1>3, <1>7 DEF Positions, Locals
    <2> QED
      BY <1>6, <2>1
  <1> QED
    BY <1>5, <1>7 DEF Positions, NoneOlder

(* A function takes the lock and sends its command. *)
LEMMA SendCommandStep ==
  ASSUME ServInv, NEW t \in Threads, SendCommand(t)
  PROVE  ServInv'
  <1> DEFINE m == me[t]
             x == [m EXCEPT !.cmd = m.cmd, !.at = "wait", !.ret = "none"]
             v == IF m.cmd = "URDBLOCK" THEN <<m.off, BlockSize(m)>> ELSE <<m.call.arg>>
             c == Line(m.cmd, v)
  <1>1. TypeOK /\ DriverTypes /\ WireTypes /\ ModemTypes /\ Locked /\ Reads /\ Positions
    BY DEF ServInv, TypeOK
  <1>2. /\ m.at = "lock" /\ lock = "free" /\ m.cmd # "none" /\ lock' = t
        /\ Send(c) /\ me' = [me EXCEPT ![t] = x]
        /\ IF m.cmd = "ULOC"
           THEN /\ ForgetPositions /\ requests' = requests + 1
                /\ alone' = (locating = {} /\ ~OnItsWay(line, "UULOC") /\ ~OnItsWay(inbox, "ULOC"))
           ELSE UNCHANGED place
        /\ UNCHANGED <<result, msgs, file, dataMode, locating, written, count>>
    BY DEF SendCommand, Locks, Wait
  <1>3. me \in [Threads -> Locals] /\ m \in Locals /\ Keeps(m)
    BY <1>1 DEF DriverTypes, Locked
  <1>4. v \in Seq(Nat) /\ Len(v) > 0 /\ (m.cmd = "URDBLOCK" => Len(v) = 2)
    <2>1. m.off \in Nat /\ BlockSize(m) \in Nat /\ m.call.arg \in Nat
      BY <1>3, BlockFacts, ArgFacts DEF Locals
    <2> QED
      BY <2>1
  <1>5. m.cmd \in Requests
    BY <1>2, <1>3 DEF Locals
  <1> HIDE DEF v
  <1>6. c \in Cmds /\ c.kind = m.cmd /\ c.val = v /\ c.fresh
    BY <1>4, <1>5 DEF Cmds, Line, Requests, Prompting
  <1> HIDE DEF m, c
  <1>7. /\ x \in Locals /\ x.cmd = m.cmd /\ x.at = "wait" /\ x.ret = "none" /\ x.call = m.call
        /\ x.cnt = m.cnt /\ x.off = m.off /\ x.left = m.left /\ x.buf = m.buf /\ x.asked = m.asked
        /\ x.own = m.own /\ x.robbed = m.robbed /\ x.changed = m.changed
    BY <1>3 DEF Locals
  <1> HIDE DEF x
  <1>8. c.kind = SentKind(x) /\ c.val = SentVal(x)
    BY <1>6, <1>7 DEF SentKind, SentVal, v, BlockSize
  <1>9. Keeps(x) /\ (x.cmd = "CMGL" => x.cnt = 0)
    BY <1>2, <1>3, <1>7 DEF Keeps
  <1>10. Undisturbed(x) => ReadSoFar(x, file)
    BY <1>1, <1>7 DEF Reads, Undisturbed, ReadSoFar, m
  <1>11. \A u \in Threads : me'[u].call = me[u].call /\ me'[u].asked = me[u].asked
    BY <1>2, <1>3, <1>7, OneMoves DEF m
  <1>12. /\ Positions' /\ position' \in [validData : BOOLEAN, of : Nat] /\ locRcvPos' \in Int
         /\ locExpPos' \in Int /\ requests' \in Nat /\ alone' \in BOOLEAN
    <2>1. CASE m.cmd = "ULOC"
      <3>1. Positions'
        BY <1>1, <1>2, <1>6, <1>11, <2>1, PositionsForgotten
      <3>2. /\ position' = [position EXCEPT !.validData = FALSE] /\ locRcvPos' = 0 /\ locExpPos' = 0
            /\ position \in [validData : BOOLEAN, of : Nat] /\ requests \in Nat
        BY <1>1, <1>2, <2>1 DEF DriverTypes, ForgetPositions
      <3>3. position' \in [validData : BOOLEAN, of : Nat]
        BY <3>2
      <3>5. requests' = requests + 1
        BY <1>2, <2>1
      <3>6. requests' \in Nat
        BY <3>2, <3>5
      <3>4. alone' \in BOOLEAN
        BY <1>2, <2>1
      <3> QED
        BY <3>1, <3>2, <3>3, <3>4, <3>6
    <2>2. CASE m.cmd # "ULOC"
      <3>1. UNCHANGED <<position, locRcvPos, locExpPos, requests, alone>>
        BY <1>2, <2>2 DEF place
      <3>2. Positions'
        BY <1>1, <1>2, <1>6, <1>11, <2>2, <3>1, PositionsSent
      <3> QED
        BY <1>1, <3>1, <3>2 DEF DriverTypes
    <2> QED
      BY <2>1, <2>2
  <1> QED
    BY <1>2, <1>6, <1>7, <1>8, <1>9, <1>10, <1>12, SendStep

(* The prompt is there, and the data are sent. *)
LEMMA SendDataStep ==
  ASSUME ServInv, NEW t \in Threads, SendData(t)
  PROVE  ServInv'
  <1> DEFINE m == me[t]
             x == [m EXCEPT !.cmd = m.cmd, !.at = "data", !.ret = "none"]
             k == IF m.cmd = "CMGS" THEN "SMS" ELSE "DATA"
             c == Line(k, <<m.call.arg>>)
  <1>1. TypeOK /\ DriverTypes /\ WireTypes /\ ModemTypes /\ Locked /\ Reads /\ Positions
    BY DEF ServInv, TypeOK
  <1>2. /\ Answered(t) /\ m.at = "wait" /\ m.cmd \in Prompting
        /\ Send(c) /\ me' = [me EXCEPT ![t] = x]
        /\ UNCHANGED <<lock, result, place, msgs, file, dataMode, locating, written, count>>
    BY DEF SendData, Wait, Prompting
  <1>3. me \in [Threads -> Locals] /\ m \in Locals /\ Keeps(m) /\ lock = t
    BY <1>1, <1>2 DEF DriverTypes, Locked, Answered
  <1>4. m.call.arg \in Nat /\ m.call.arg <= MaxFile
    BY <1>3, ArgFacts
  <1> HIDE DEF m
  <1>5. c \in Cmds /\ c.kind = k /\ c.val = <<m.call.arg>> /\ c.fresh
    <2>1. <<m.call.arg>> \in Seq(Nat) /\ Len(<<m.call.arg>>) > 0
      BY <1>4
    <2> QED
      BY <1>4, <2>1 DEF Cmds, Line
  <1> HIDE DEF c
  <1>6. /\ x \in Locals /\ x.cmd = m.cmd /\ x.at = "data" /\ x.ret = "none" /\ x.call = m.call
        /\ x.cnt = m.cnt /\ x.off = m.off /\ x.left = m.left /\ x.buf = m.buf /\ x.asked = m.asked
        /\ x.own = m.own /\ x.robbed = m.robbed /\ x.changed = m.changed
    BY <1>3 DEF Locals
  <1> HIDE DEF x
  <1>7. c.kind = SentKind(x) /\ c.val = SentVal(x) /\ c.kind # "ULOC" /\ x.cmd # "CMGL"
    BY <1>2, <1>5, <1>6 DEF SentKind, SentVal, Prompting
  <1>8. Keeps(x)
    BY <1>2, <1>3, <1>6 DEF Keeps
  <1>9. Undisturbed(x) => ReadSoFar(x, file)
    BY <1>1, <1>6 DEF Reads, Undisturbed, ReadSoFar, m
  <1>10. \A u \in Threads : me'[u].call = me[u].call /\ me'[u].asked = me[u].asked
    BY <1>2, <1>3, <1>6, OneMoves DEF m
  <1>11. UNCHANGED <<position, locRcvPos, locExpPos, requests, alone>>
    BY <1>2 DEF place
  <1>12. Positions'
    BY <1>1, <1>2, <1>5, <1>7, <1>10, <1>11, PositionsSent
  <1>13. /\ position' \in [validData : BOOLEAN, of : Nat] /\ locRcvPos' \in Int
         /\ locExpPos' \in Int /\ requests' \in Nat /\ alone' \in BOOLEAN
    BY <1>1, <1>11 DEF DriverTypes
  <1> QED
    BY <1>2, <1>3, <1>5, <1>6, <1>7, <1>8, <1>9, <1>12, <1>13, SendStep

-----------------------------------------------------------------------------
(* The steps of the modem.                                                  *)

(* The locals of a call keep what its answer depends on; it may be disturbed, *)
(* and the file may change under it.                                         *)
Spared(m, x) ==
  /\ Same(m, x) /\ x.ret = m.ret /\ x.asked = m.asked
  /\ Undisturbed(x) => Undisturbed(m)
  /\ x.changed \/ ((x.changed <=> m.changed) /\ file' = file)

(* A step of the modem or of the line, which moves no thread. *)
LEMMA ModemStep ==
  ASSUME ServInv, WireTypes', ModemTypes', LastIsFresh', Positions',
         UNCHANGED <<lock, result, place>>, calls' \in Nat, lost' \in Nat, late' \in Nat,
         me' \in [Threads -> Locals], \A u \in Threads : Spared(me[u], me'[u]),
         \A u \in Threads : lock = u /\ Undisturbed(me'[u]) /\ Awaits(u) => Awaits(u)'
  PROVE  ServInv'
  <1>1. /\ TypeOK /\ DriverTypes /\ Locked /\ Talks /\ Reads /\ Results
    BY DEF ServInv, TypeOK
  <1>2. TypeOK'
    BY <1>1 DEF TypeOK, DriverTypes, place
  <1>3. Locked'
    <2>1. ASSUME NEW u \in Threads
          PROVE  Keeps(me'[u]) /\ (lock' = u <=> me'[u].at \in {"wait", "data"})
      BY <1>1 DEF Locked, Keeps, Spared, Same
    <2> QED
      BY <2>1 DEF Locked, Keeps
  <1>4. Talks'
    <2>1. ASSUME NEW u \in Threads, lock' = u, Undisturbed(me'[u]) PROVE Awaits(u)'
      <3>1. lock = u /\ Undisturbed(me[u])
        BY <2>1 DEF Spared
      <3> QED
        BY <1>1, <2>1, <3>1 DEF Talks
    <2> QED
      BY <2>1 DEF Talks, Undisturbed
  <1>5. Reads'
    <2>1. ASSUME NEW u \in Threads, Undisturbed(me'[u]) PROVE ReadSoFar(me'[u], file')
      <3>1. Spared(me[u], me'[u])
        OBVIOUS
      <3>2. ReadSoFar(me[u], file)
        BY <1>1, <2>1, <3>1 DEF Spared, Reads
      <3> QED
        BY <3>1, <3>2, SameRead DEF Spared
    <2> QED
      BY <2>1 DEF Reads, Undisturbed, ReadSoFar
  <1>6. Results'
    BY <1>1, ResultsStay
  <1> QED
    BY <1>2, <1>3, <1>4, <1>5, <1>6 DEF ServInv

(* The modem has taken its first command. *)
LEMMA CommandTaken ==
  ASSUME WireTypes, inbox # << >>, inbox' = Tail(inbox), LastIsFresh
  PROVE  /\ Head(inbox) \in Cmds /\ Head(inbox) = inbox[1] /\ inbox \in Seq(Cmds) /\ Len(inbox) \in Nat
         /\ inbox' \in Seq(Cmds) /\ Len(inbox') = Len(inbox) - 1
         /\ \A i \in 1 .. Len(inbox') : i + 1 \in 1 .. Len(inbox) /\ inbox'[i] = inbox[i + 1]
         /\ LastIsFresh'
         /\ Head(inbox).fresh => Last(inbox) = Head(inbox) /\ NoneFresh' /\ ~NoneFresh
         /\ ~Head(inbox).fresh /\ Last(inbox).fresh => inbox' # << >> /\ Last(inbox') = Last(inbox)
         /\ NoneFresh => NoneFresh'
  <1>1. inbox \in Seq(Cmds) /\ Len(inbox) \in Nat /\ Len(inbox) > 0 /\ DOMAIN inbox = 1 .. Len(inbox)
    BY DEF WireTypes
  <1>2. /\ Head(inbox) = inbox[1] /\ Head(inbox) \in Cmds /\ inbox' \in Seq(Cmds)
        /\ Len(inbox') = Len(inbox) - 1 /\ \A i \in 1 .. Len(inbox) - 1 : inbox'[i] = inbox[i + 1]
    BY <1>1, HeadTailProperties
  <1>3. DOMAIN inbox' = 1 .. Len(inbox')
    BY <1>2
  <1>4. \A i \in 1 .. Len(inbox') : i + 1 \in 1 .. Len(inbox) /\ inbox'[i] = inbox[i + 1]
    BY <1>1, <1>2
  <1>5. LastIsFresh'
    <2>1. ASSUME NEW i \in DOMAIN inbox', inbox'[i].fresh PROVE i = Len(inbox')
      <3>1. i + 1 \in DOMAIN inbox /\ inbox[i + 1].fresh /\ i \in Nat
        BY <1>1, <1>3, <1>4, <2>1
      <3>2. i + 1 = Len(inbox)
        BY <3>1 DEF LastIsFresh
      <3> QED
        BY <1>1, <1>2, <3>1, <3>2
    <2> QED
      BY <2>1 DEF LastIsFresh
  <1>6. NoneFresh => NoneFresh'
    BY <1>1, <1>3, <1>4 DEF NoneFresh
  <1>7. ASSUME Head(inbox).fresh PROVE Last(inbox) = Head(inbox) /\ NoneFresh' /\ ~NoneFresh
    <2>1. 1 \in DOMAIN inbox /\ inbox[1].fresh
      BY <1>1, <1>2, <1>7
    <2>2. Len(inbox) = 1
      BY <2>1 DEF LastIsFresh
    <2>3. DOMAIN inbox' = {}
      BY <1>2, <1>3, <2>2
    <2>4. Last(inbox) = Head(inbox)
      BY <1>2, <2>2 DEF Last
    <2>5. ~NoneFresh
      BY <2>1 DEF NoneFresh
    <2>6. NoneFresh'
      BY <2>3 DEF NoneFresh
    <2> QED
      BY <2>4, <2>5, <2>6
  <1>8. ASSUME ~Head(inbox).fresh, Last(inbox).fresh PROVE inbox' # << >> /\ Last(inbox') = Last(inbox)
    <2>1. Len(inbox) # 1
      BY <1>2, <1>8 DEF Last
    <2>2. Len(inbox') \in 1 .. Len(inbox') /\ Len(inbox') + 1 = Len(inbox)
      BY <1>1, <1>2, <2>1
    <2>3. inbox'[Len(inbox')] = inbox[Len(inbox)]
      BY <1>4, <2>2
    <2>4. Last(inbox)' = inbox'[Len(inbox')] /\ Last(inbox) = inbox[Len(inbox)]
      BY DEF Last
    <2>5. Len(inbox') # 0
      BY <1>1, <1>2, <2>1
    <2>6. Len(<< >>) = 0
      OBVIOUS
    <2>7. inbox' # << >>
      BY <2>5, <2>6
    <2> QED
      BY <2>3, <2>4, <2>7
  <1> QED
    BY <1>1, <1>2, <1>4, <1>5, <1>6, <1>7, <1>8

(* The answer that is put on the line is the one m waits for. *)
Fits(m, a, tr, f) ==
  \E n \in 1 .. Len(a) : /\ \A i \in 1 .. n - 1 : Says(m, a[i], n - i + 1, tr, f)
                         /\ Told(m, n, a[n].kind, tr, f)

(* The call that has the lock and is undisturbed, for its command. *)
Asks(m, c) ==
  /\ m \in Locals /\ Keeps(m) /\ m.at \in {"wait", "data"} /\ ReadSoFar(m, file)
  /\ c.kind = SentKind(m) /\ c.val = SentVal(m) /\ (m.cmd = "CMGL" => m.cnt = 0)

(* The positions, when the modem takes a command and says nothing of them. *)
LEMMA PositionsAnswered ==
  ASSUME Positions, ModemTypes, WireTypes, WireTypes', inbox # << >>, inbox' = Tail(inbox), LastIsFresh,
         Len(line) <= Len(line'), \A i \in 1 .. Len(line) : line'[i] = line[i],
         \A i \in 1 .. Len(line') : i > Len(line) => line'[i].kind # "UULOC",
         UNCHANGED <<position, locRcvPos, requests, alone>>,
         \/ locating' = locating
         \/ Head(inbox).kind = "ULOC" /\ locating' = locating \cup {requests},
         \A u \in Threads : me'[u].call = me[u].call /\ me'[u].asked = me[u].asked
  PROVE  Positions'
  <1>1. /\ Head(inbox) = inbox[1] /\ Len(inbox) \in Nat /\ inbox \in Seq(Cmds) /\ inbox' \in Seq(Cmds)
        /\ Len(inbox') = Len(inbox) - 1
        /\ \A i \in 1 .. Len(inbox') : i + 1 \in 1 .. Len(inbox) /\ inbox'[i] = inbox[i + 1]
    BY CommandTaken
  <1>2. line \in Seq(Lined) /\ line' \in Seq(Lined) /\ Len(line) \in Nat /\ Len(line') \in Nat
    BY DEF WireTypes
  <1>3. ASSUME NEW i \in 1 .. Len(line'), line'[i].kind = "UULOC"
        PROVE  i \in 1 .. Len(line) /\ line'[i] = line[i]
    BY <1>2, <1>3
  <1>4. CASE locating' = locating
    <2>1. PICK zero \in Nat, one \in Nat : zero = 0 /\ one = 1
      OBVIOUS
    <2>2. ASSUME NEW i \in 1 .. Len(inbox'), inbox'[i].kind = "ULOC"
          PROVE  i + one \in 1 .. Len(inbox) /\ inbox[i + one].kind = "ULOC"
      BY <1>1, <2>1, <2>2
    <2>3. ASSUME NEW i \in 1 .. Len(line'), line'[i].kind = "UULOC"
          PROVE  /\ i + zero \in 1 .. Len(line) /\ line[i + zero].kind = "UULOC"
                 /\ line'[i].val = line[i + zero].val
      <3>1. i + zero = i
        BY <2>1
      <3> QED
        BY <1>3, <2>3, <3>1
    <2>4. \A u \in Threads : me'[u].call.fn = "cellLocGetData" =>
            me[u].call.fn = "cellLocGetData" /\ me'[u].asked = me[u].asked
      OBVIOUS
    <2> QED
      BY <1>1, <1>2, <1>4, <2>1, <2>2, <2>3, <2>4, PositionsStay
  <1>5. CASE Head(inbox).kind = "ULOC" /\ locating' = locating \cup {requests}
    <2>1. 1 \in DOMAIN inbox /\ inbox[1].kind = "ULOC" /\ DOMAIN inbox = 1 .. Len(inbox)
      BY <1>1, <1>5
    <2>2. ASSUME alone PROVE OneOnItsWay'
      <3>1. OneOnItsWay
        BY <2>2 DEF Positions
      <3>2. /\ locating = {} /\ locRcvPos = 0 /\ ~OnItsWay(line, "UULOC")
            /\ \A j \in DOMAIN inbox : inbox[j].kind = "ULOC" => j = 1
        BY <2>1, <3>1 DEF OneOnItsWay
      <3>3. ASSUME NEW i \in DOMAIN inbox' PROVE inbox'[i].kind # "ULOC"
        <4>1. i \in 1 .. Len(inbox')
          BY <1>1
        <4>2. i + 1 \in DOMAIN inbox /\ i + 1 # 1 /\ inbox'[i] = inbox[i + 1]
          BY <1>1, <2>1, <4>1
        <4> QED
          BY <3>2, <4>2
      <3>4. ASSUME NEW i \in DOMAIN line' PROVE line'[i].kind # "UULOC"
        <4>1. i \in 1 .. Len(line') /\ DOMAIN line = 1 .. Len(line)
          BY <1>2
        <4> QED
          BY <1>3, <3>2, <4>1 DEF OnItsWay
      <3>5. locating' = {requests'} /\ ~OnItsWay(line, "UULOC")'
        BY <1>5, <3>2, <3>4 DEF OnItsWay
      <3> QED
        BY <3>1, <3>2, <3>3, <3>4, <3>5 DEF OneOnItsWay
    <2>3. ASSUME NEW n, NoneOlder(n) PROVE NoneOlder(n)'
      <3>1. ASSUME NEW i \in DOMAIN line', line'[i].kind = "UULOC" PROVE n <= line'[i].val[1]
        <4>1. i \in 1 .. Len(line')
          BY <1>2
        <4>2. i \in DOMAIN line /\ line'[i] = line[i]
          BY <1>2, <1>3, <3>1, <4>1
        <4> QED
          BY <2>3, <3>1, <4>2 DEF NoneOlder
      <3>2. \A r \in locating' : n <= r
        BY <1>5, <2>3 DEF NoneOlder
      <3> QED
        BY <2>3, <3>1, <3>2 DEF NoneOlder
    <2>4. ASSUME NEW u \in Threads, me'[u].call.fn = "cellLocGetData" PROVE NoneOlder(me[u].asked)'
      BY <2>3, <2>4 DEF Positions
    <2> QED
      BY <2>2, <2>4 DEF Positions, NoneOlder
  <1> QED
    BY <1>4, <1>5

(* The modem answers its first command. *)
LEMMA AnswerStep ==
  ASSUME ServInv, inbox # << >>, NEW a \in Seq(Lined), NEW tv \in Truths, Answer(Head(inbox), a, tv),
         \A i \in DOMAIN a : a[i].fresh /\ a[i].kind # "UULOC",
         UNCHANGED <<lock, result, place, count>>,
         msgs' \subseteq Ixs, file' \in Seq(Byte), Len(file') <= MaxFile,
         dataMode' \in {"none", "SMS", "DATA"}, written' \in Nat,
         \/ locating' = locating
         \/ Head(inbox).kind = "ULOC" /\ locating' = locating \cup {requests},
         \/ UNCHANGED <<file, me>>
         \/ me' = [t \in Threads |-> [me[t] EXCEPT !.changed = TRUE]],
         \A m : Asks(m, Head(inbox)) => Fits(m, a, tv, file)
  PROVE  ServInv'
  <1> DEFINE c == Head(inbox)
             b == IF c.fresh THEN a ELSE Old(a)
  <1>1. /\ TypeOK /\ DriverTypes /\ WireTypes /\ ModemTypes /\ Locked /\ LastIsFresh /\ Reads /\ Positions
    BY DEF ServInv, TypeOK
  <1>2. /\ inbox' = Tail(inbox) /\ line' = line \o b /\ truth' = IF c.fresh THEN tv ELSE truth
    BY DEF Answer
  <1>3. /\ c \in Cmds /\ inbox' \in Seq(Cmds) /\ LastIsFresh'
        /\ c.fresh => Last(inbox) = c /\ NoneFresh' /\ ~NoneFresh
        /\ ~c.fresh /\ Last(inbox).fresh => inbox' # << >> /\ Last(inbox') = Last(inbox)
        /\ NoneFresh => NoneFresh'
    BY <1>1, <1>2, CommandTaken
  <1> HIDE DEF c
  <1>4. /\ b \in Seq(Lined) /\ Len(b) = Len(a) /\ Len(a) \in Nat
        /\ \A i \in 1 .. Len(a) : b[i].kind # "UULOC" /\ (c.fresh \/ ~b[i].fresh)
    <2>1. DOMAIN a = 1 .. Len(a) /\ Len(a) \in Nat
      OBVIOUS
    <2>2. CASE c.fresh
      BY <2>1, <2>2
    <2>3. CASE ~c.fresh
      BY <2>1, <2>3, OldLines
    <2> QED
      BY <2>2, <2>3
  <1> HIDE DEF b
  <1>5. line \in Seq(Lined) /\ Len(line) \in Nat /\ DOMAIN line = 1 .. Len(line)
    BY <1>1 DEF WireTypes
  <1>6. /\ line' \in Seq(Lined) /\ Len(line') = Len(line) + Len(a) /\ Len(line) <= Len(line')
        /\ \A i \in 1 .. Len(line) : line'[i] = line[i]
        /\ \A i \in 1 .. Len(line') : i > Len(line) => i - Len(line) \in 1 .. Len(a) /\ line'[i] = b[i - Len(line)]
    <2>1. /\ line' \in Seq(Lined) /\ Len(line') = Len(line) + Len(b)
          /\ \A i \in 1 .. Len(line) + Len(b) : line'[i] = IF i <= Len(line) THEN line[i] ELSE b[i - Len(line)]
      <3>1. /\ line \o b \in Seq(Lined) /\ Len(line \o b) = Len(line) + Len(b)
            /\ \A i \in 1 .. Len(line) + Len(b) :
                 (line \o b)[i] = IF i <= Len(line) THEN line[i] ELSE b[i - Len(line)]
        BY <1>4, <1>5, ConcatProperties
      <3>2. line' = line \o b
        BY <1>2
      <3> QED
        BY <3>1, <3>2
    <2> QED
      BY <1>4, <1>5, <2>1
  <1>7. me \in [Threads -> Locals] /\ UNCHANGED <<position, locRcvPos, requests, alone>>
    BY <1>1 DEF DriverTypes, place
  <1>8. /\ me' \in [Threads -> Locals] /\ \A u \in Threads : Spared(me[u], me'[u])
        /\ \A u \in Threads : Same(me[u], me'[u])
    <2>1. CASE UNCHANGED <<file, me>>
      BY <1>7, <2>1 DEF Spared, Same
    <2>2. CASE me' = [t \in Threads |-> [me[t] EXCEPT !.changed = TRUE]]
      <3>1. ASSUME NEW u \in Threads
            PROVE  me'[u] \in Locals /\ Spared(me[u], me'[u]) /\ Same(me[u], me'[u])
        <4>1. me'[u] = [me[u] EXCEPT !.changed = TRUE] /\ me[u] \in Locals
          BY <1>7, <2>2
        <4> QED
          BY <4>1 DEF Locals, Spared, Same, Undisturbed
      <3> QED
        BY <2>2, <3>1
    <2> QED
      BY <2>1, <2>2
  <1>9. Positions'
    <2>1. WireTypes'
      BY <1>3, <1>6 DEF WireTypes
    <2>2. \A i \in 1 .. Len(line') : i > Len(line) => line'[i].kind # "UULOC"
      BY <1>4, <1>6
    <2>3. \A u \in Threads : me'[u].call = me[u].call /\ me'[u].asked = me[u].asked
      BY <1>8 DEF Spared, Same
    <2> QED
      BY <1>1, <1>2, <1>6, <1>7, <2>1, <2>2, <2>3, PositionsAnswered
  <1>10. ASSUME NEW u \in Threads, lock = u, Undisturbed(me'[u]), Awaits(u) PROVE Awaits(u)'
    <2> DEFINE m == me[u]
               x == me'[u]
    <2>1. /\ Spared(m, x) /\ Same(m, x) /\ m \in Locals
          /\ Keeps(m) /\ m.at \in {"wait", "data"}
      BY <1>1, <1>7, <1>8, <1>10 DEF Locked
    <2>2. ReadSoFar(m, file)
      BY <1>1, <1>10, <2>1 DEF Reads, Spared
    <2>3. CASE c.fresh
      <3>1. m.ret = "none" /\ Sent(m, c, line, truth)
        BY <1>3, <1>10, <2>3 DEF Awaits
      <3>2. Asks(m, c)
        BY <2>1, <2>2, <3>1 DEF Asks, Sent
      <3>3. PICK n \in 1 .. Len(a) : /\ \A i \in 1 .. n - 1 : Says(m, a[i], n - i + 1, tv, file)
                                     /\ Told(m, n, a[n].kind, tv, file)
        BY <3>2 DEF Fits, c
      <3> HIDE DEF m, x
      <3>4. \A i \in 1 .. n : a[i].fresh
        BY <1>4, <3>3
      <3>5. \A i \in DOMAIN line : Stale(line[i])
        BY <3>1 DEF Sent
      <3>6. OnWire(m, line \o a, tv, file)
        BY <1>5, <3>3, <3>4, <3>5, AnswerStarts
      <3>7. line' = line \o a /\ truth' = tv
        BY <1>2, <2>3 DEF b
      <3>8. OnWire(x, line', truth', file')
        BY <2>1, <3>6, <3>7, SameOnWire DEF Spared
      <3>9. x.ret = "none"
        BY <2>1, <3>1 DEF Spared
      <3> QED
        BY <1>3, <2>3, <3>8, <3>9 DEF Awaits, x
    <2>4. CASE ~c.fresh
      <3>1. \A i \in 1 .. Len(line') : i > Len(line) => Stale(line'[i])
        BY <1>4, <1>6, <2>4 DEF Stale
      <3>2. truth' = truth
        BY <1>2, <2>4
      <3>3. inbox # << >> /\ Last(inbox).fresh => inbox' # << >> /\ Last(inbox') = Last(inbox)
        BY <1>3, <2>4
      <3> QED
        BY <1>3, <1>5, <1>6, <1>10, <2>1, <3>1, <3>2, <3>3, AwaitsGrows DEF Spared
    <2> QED
      BY <2>3, <2>4
  <1>11. WireTypes'
    BY <1>3, <1>6 DEF WireTypes
  <1>12. ModemTypes'
    <2>1. truth' \in Truths
      BY <1>1, <1>2 DEF ModemTypes
    <2>2. locating' \subseteq Nat
      BY <1>1 DEF ModemTypes, DriverTypes
    <2> QED
      BY <2>1, <2>2 DEF ModemTypes
  <1>13. calls' \in Nat /\ lost' \in Nat /\ late' \in Nat
    BY <1>1 DEF DriverTypes, count
  <1> QED
    BY <1>3, <1>8, <1>9, <1>10, <1>11, <1>12, <1>13, ModemStep

(* The lines the modem says before its OK. *)
LEMMA LinesFacts ==
  ASSUME ModemTypes, NEW c \in Cmds
  PROVE  /\ Lines(c) \in Seq(Lined) /\ Said(c) \in Seq(Byte)
         /\ \A i \in DOMAIN Lines(c) : Lines(c)[i].fresh /\ Lines(c)[i].kind # "UULOC"
  <1>1. /\ msgs \subseteq Ixs /\ file \in Seq(Byte) /\ Len(file) \in Nat
        /\ c.val \in Seq(Nat) /\ Len(c.val) > 0 /\ c.val[1] \in Nat
    BY DEF ModemTypes, Cmds
  <1>2. Listed \in Seq(Nat)
    BY <1>1, ListedIsSeq
  <1>3. ASSUME NEW k \in Replies, NEW v \in Values, k \in {"ULSTFILE", "UULOC"} => v[1] \in Nat,
               k \in {"URDFILE", "URDBLOCK"} => v \in Seq(Byte), k # "UULOC"
        PROVE  Line(k, v) \in Lined /\ Line(k, v).fresh /\ Line(k, v).kind # "UULOC"
    BY <1>3 DEF Line, Lined
  <1>4. ASSUME NEW n \in Nat PROVE <<n, 0>> \in Byte /\ \A x \in {0, 1, 2} : <<n, x>> \in Values
    BY DEF Byte, Values
  <1> DEFINE Good(q) == q \in Seq(Lined) /\ \A i \in DOMAIN q : q[i].fresh /\ q[i].kind # "UULOC"
  <1>5. CASE c.kind = "CMGL"
    <2>1. DOMAIN Listed = 1 .. Len(Listed) /\ Len(Listed) \in Nat /\ \A i \in 1 .. Len(Listed) : Listed[i] \in Nat
      BY <1>2
    <2>2. \A i \in 1 .. Len(Listed) : /\ Line("CMGL", <<Listed[i], 0>>) \in Lined
                                      /\ Line("CMGL", <<Listed[i], 0>>).fresh
                                      /\ Line("CMGL", <<Listed[i], 0>>).kind # "UULOC"
      BY <1>3, <1>4, <2>1 DEF Replies
    <2>3. /\ Lines(c) = [i \in DOMAIN Listed |-> Line("CMGL", <<Listed[i], 0>>)]
          /\ Said(c) = [i \in DOMAIN Listed |-> <<Listed[i], 0>>]
      BY <1>5 DEF Lines, Said
    <2>4. Lines(c) \in [1 .. Len(Listed) -> Lined] /\ Said(c) \in [1 .. Len(Listed) -> Byte]
      BY <1>4, <2>1, <2>2, <2>3
    <2>5. Lines(c) \in Seq(Lined) /\ Said(c) \in Seq(Byte)
      BY <2>1, <2>4
    <2> QED
      BY <2>1, <2>2, <2>3, <2>5
  <1>6. CASE c.kind # "CMGL"
    <2>1. Said(c) \in Seq(Byte)
      BY <1>1, <1>6 DEF Said
    <2>2. Good(Lines(c))
      <3>1. CASE c.kind = "CMGR"
        <4>1. Lines(c) = <<Line("CMGR", <<c.val[1], 1>>), Line("TEXT", <<c.val[1], 2>>)>>
          BY <3>1 DEF Lines
        <4>2. /\ Line("CMGR", <<c.val[1], 1>>) \in Lined /\ Line("CMGR", <<c.val[1], 1>>).fresh
              /\ Line("CMGR", <<c.val[1], 1>>).kind # "UULOC"
          BY <1>1, <1>3, <1>4 DEF Replies
        <4>3. /\ Line("TEXT", <<c.val[1], 2>>) \in Lined /\ Line("TEXT", <<c.val[1], 2>>).fresh
              /\ Line("TEXT", <<c.val[1], 2>>).kind # "UULOC"
          BY <1>1, <1>3, <1>4 DEF Replies
        <4> QED
          BY <4>1, <4>2, <4>3
      <3>2. CASE c.kind = "URDFILE"
        <4>1. Lines(c) = <<Line("URDFILE", file)>>
          BY <3>2 DEF Lines
        <4>2. Line("URDFILE", file) \in Lined /\ Line("URDFILE", file).fresh /\ Line("URDFILE", file).kind # "UULOC"
          BY <1>1, <1>3 DEF Replies, Values
        <4> QED
          BY <4>1, <4>2
      <3>3. CASE c.kind = "ULSTFILE"
        <4>1. Lines(c) = <<Line("ULSTFILE", <<Len(file)>>)>>
          BY <3>3 DEF Lines
        <4>2. <<Len(file)>> \in Values /\ <<Len(file)>>[1] \in Nat
          BY <1>1 DEF Values
        <4>3. /\ Line("ULSTFILE", <<Len(file)>>) \in Lined /\ Line("ULSTFILE", <<Len(file)>>).fresh
              /\ Line("ULSTFILE", <<Len(file)>>).kind # "UULOC"
          BY <1>3, <4>2 DEF Replies
        <4> QED
          BY <4>1, <4>3
      <3>4. CASE c.kind = "URDBLOCK"
        <4> DEFINE e == Least(c.val[1] + c.val[2], Len(file))
                   v == SubSeq(file, c.val[1] + 1, e)
        <4>1. Lines(c) = <<Line("URDBLOCK", v)>>
          BY <3>4 DEF Lines
        <4>2. v \in Seq(Byte)
          <5>1. c.val[2] \in Nat
            BY <1>1, <3>4 DEF Cmds
          <5>6. c.val[1] + c.val[2] \in Nat
            BY <1>1, <5>1
          <5>2. e \in Nat /\ e <= Len(file)
            BY <1>1, <5>6, LeastFacts
          <5> DEFINE a == c.val[1] + 1
          <5>3. a \in Int /\ a >= 1
            BY <1>1
          <5> HIDE DEF e, a
          <5>4. \A i \in a .. e : file[i] \in Byte
            BY <1>1, <5>2, <5>3
          <5>5. SubSeq(file, a, e) \in Seq(Byte)
            BY <5>2, <5>3, <5>4, SubSeqProperties
          <5> QED
            BY <5>5 DEF a
        <4> HIDE DEF v
        <4>3. Line("URDBLOCK", v) \in Lined /\ Line("URDBLOCK", v).fresh /\ Line("URDBLOCK", v).kind # "UULOC"
          BY <1>3, <4>2 DEF Replies, Values
        <4> QED
          BY <4>1, <4>3
      <3>5. CASE c.kind \notin {"CMGR", "URDFILE", "ULSTFILE", "URDBLOCK"}
        <4>1. Lines(c) = << >>
          BY <1>6, <3>5 DEF Lines
        <4> QED
          BY <4>1
      <3> QED
        BY <3>1, <3>2, <3>3, <3>4, <3>5
    <2> QED
      BY <2>1, <2>2
  <1> QED
    BY <1>5, <1>6

(* A last line of its own is an answer. *)
LEMMA LastLineFits ==
  ASSUME NEW m \in Locals, NEW l \in Lined, NEW tr, NEW f, Told(m, 1, l.kind, tr, f)
  PROVE  Fits(m, <<l>>, tr, f)
  <1>1. Len(<<l>>) = 1 /\ <<l>>[1] = l
    OBVIOUS
  <1>2. PICK one \in 1 .. Len(<<l>>) : one = 1
    BY <1>1
  <1>3. \A i \in 1 .. one - 1 : FALSE
    BY <1>2
  <1>4. Told(m, one, <<l>>[one].kind, tr, f)
    BY <1>1, <1>2
  <1> QED
    BY <1>3, <1>4 DEF Fits

(* A refusal is an answer to every command. *)
LEMMA RefusedFits ==
  ASSUME NEW c \in Cmds, NEW m \in Locals
  PROVE  /\ Refused(c) \in Seq(Lined)
         /\ \A i \in DOMAIN Refused(c) : Refused(c)[i].fresh /\ Refused(c)[i].kind # "UULOC"
         /\ Fits(m, Refused(c), NoTruth, file)
  <1> DEFINE k == IF c.kind \in {"UDELFILE", "URDFILE", "ULSTFILE", "URDBLOCK"} THEN "CME" ELSE "ERROR"
             l == Line(k, << >>)
  <1>1. Refused(c) = <<l>>
    BY DEF Refused
  <1>2. l \in Lined /\ l.fresh /\ l.kind = k /\ k \in {"CME", "ERROR"}
    <2>1. << >> \in Values
      BY DEF Values
    <2> QED
      BY <2>1 DEF Line, Lined, Replies, Final
  <1> HIDE DEF l, k
  <1>3. Told(m, 1, l.kind, NoTruth, file)
    BY <1>2 DEF Told, NoTruth, Final
  <1>4. Fits(m, <<l>>, NoTruth, file)
    BY <1>2, <1>3, LastLineFits
  <1> QED
    BY <1>1, <1>2, <1>4

(* The call whose command is no data waits for the answer to its own. *)
LEMMA AsksCommand ==
  ASSUME NEW m, NEW c, Asks(m, c), c.kind \notin {"SMS", "DATA"}
  PROVE  m.cmd = c.kind /\ m.at = "wait"
  <1>1. m.cmd \in Requests
    BY DEF Asks, Locals, Keeps
  <1> QED
    BY <1>1 DEF Asks, SentKind

(* The answer to a command that needs no prompt. *)
LEMMA AnswerFits ==
  ASSUME ModemTypes, NEW c \in Cmds, NEW m, Asks(m, c),
         c.kind \notin {"CMGS", "UDWNFILE", "CUSD", "SMS", "DATA"}
  PROVE  Fits(m, Lines(c) \o <<Line("OK", << >>)>>, [ok |-> TRUE, val |-> Said(c)], file)
  <1> DEFINE s == Lines(c)
             ok == Line("OK", << >>)
             a == s \o <<ok>>
             tr == [ok |-> TRUE, val |-> Said(c)]
             n == Len(s) + 1
  <1>1. m.cmd = c.kind /\ m.at = "wait" /\ m.cmd \notin Prompting
    BY AsksCommand DEF Prompting
  <1>2. m \in Locals /\ (m.cmd = "CMGL" => m.cnt = 0) /\ c.val = SentVal(m) /\ ReadSoFar(m, file)
    BY DEF Asks
  <1>3. ok \in Lined /\ ok.kind = "OK"
    <2>1. << >> \in Values
      BY DEF Values
    <2> QED
      BY <2>1 DEF Line, Lined, Replies, Final
  <1>4. s \in Seq(Lined) /\ Said(c) \in Seq(Byte) /\ Len(s) \in Nat
    BY LinesFacts
  <1>5. /\ tr.ok = TRUE /\ tr.val = Said(c)
    OBVIOUS
  <1>6. file \in Seq(Byte) /\ Len(file) \in Nat
    BY DEF ModemTypes
  <1> HIDE DEF s, ok, tr
  <1>7. /\ Len(a) = Len(s) + 1 /\ a[Len(s) + 1] = ok /\ \A i \in 1 .. Len(s) : a[i] = s[i]
    <2>1. <<ok>> \in Seq(Lined) /\ Len(<<ok>>) = 1 /\ <<ok>>[1] = ok
      BY <1>3
    <2>2. /\ Len(s \o <<ok>>) = Len(s) + Len(<<ok>>)
          /\ \A i \in 1 .. Len(s) + Len(<<ok>>) : (s \o <<ok>>)[i] = IF i <= Len(s) THEN s[i] ELSE <<ok>>[i - Len(s)]
      BY <1>4, <2>1, ConcatProperties
    <2> QED
      BY <1>4, <2>1, <2>2
  <1> HIDE DEF a
  <1>8. SUFFICES /\ \A i \in 1 .. n - 1 : Says(m, s[i], n - i + 1, tr, file)
                 /\ Told(m, n, "OK", tr, file)
    <2>1. n \in 1 .. Len(a) /\ a[n] = ok
      BY <1>4, <1>7
    <2>2. \A i \in 1 .. n - 1 : a[i] = s[i]
      BY <1>4, <1>7
    <2>3. Fits(m, a, tr, file)
      BY <1>3, <1>8, <2>1, <2>2 DEF Fits
    <2> QED
      BY <2>3 DEF a, s, ok, tr
  <1>9. SUFFICES /\ \A i \in 1 .. n - 1 : Says(m, s[i], n - i + 1, tr, file)
                 /\ Heard(m, n, tr, file)
    BY <1>1, <1>5, <1>9 DEF Told, Final
  <1>10. CASE c.kind = "CMGL"
    <2>1. Listed \in Seq(Nat)
      BY ListedIsSeq DEF ModemTypes
    <2>2. /\ s = [i \in DOMAIN Listed |-> Line("CMGL", <<Listed[i], 0>>)]
          /\ tr.val = [i \in DOMAIN Listed |-> <<Listed[i], 0>>]
      BY <1>5, <1>10 DEF Lines, Said, s
    <2>3. /\ DOMAIN Listed = 1 .. Len(Listed) /\ Len(Listed) \in Nat
      BY <2>1
    <2>4. /\ Len(s) = Len(Listed) /\ Len(tr.val) = Len(Listed)
          /\ \A i \in 1 .. Len(Listed) : s[i].kind = "CMGL" /\ s[i].val = tr.val[i]
      BY <2>2, <2>3 DEF Line
    <2>5. ASSUME NEW i \in 1 .. n - 1 PROVE Says(m, s[i], n - i + 1, tr, file)
      <3>1. /\ i \in 1 .. Len(Listed) /\ (n - i + 1) - 1 <= Len(tr.val)
            /\ Len(tr.val) - (n - i + 1) + 2 = i
        BY <2>3, <2>4
      <3> QED
        BY <1>1, <1>10, <2>4, <3>1 DEF Says
    <2>6. m.cnt = 0 /\ n - 1 = Len(tr.val) /\ Len(tr.val) - n + 1 = 0 /\ m.call.arg \in Nat
      BY <1>1, <1>2, <1>10, <2>3, <2>4, ArgFacts
    <2>7. m.cnt = Least(m.call.arg, Len(tr.val) - n + 1)
      BY <2>6 DEF Least
    <2>8. Begins(m.buf, SubSeq(tr.val, 1, m.cnt))
      <3>1. SubSeq(tr.val, 1, 0) = << >>
        BY <1>4, <1>5
      <3> QED
        BY <2>6, <3>1 DEF Begins
    <2>9. n = 1 => Collected(m, tr.val)
      <3>1. SUFFICES ASSUME n = 1 PROVE Collected(m, tr.val)
        OBVIOUS
      <3>2. Len(tr.val) = 0
        BY <2>6, <3>1
      <3>3. Least(m.cnt, m.call.arg) = m.cnt
        BY <2>6 DEF Least
      <3> QED
        BY <1>1, <1>10, <2>6, <2>8, <3>2, <3>3 DEF Collected
    <2>10. n - 1 <= Len(tr.val)
      BY <2>3, <2>4, <2>6
    <2>11. Heard(m, n, tr, file)
      BY <1>1, <1>10, <2>7, <2>8, <2>9, <2>10 DEF Heard
    <2> QED
      BY <2>5, <2>11
  <1>11. CASE c.kind = "CMGR"
    <2>1. s = <<Line("CMGR", <<c.val[1], 1>>), Line("TEXT", <<c.val[1], 2>>)>>
      BY <1>11 DEF Lines, s
    <2>2. c.val[1] = m.call.arg
      BY <1>1, <1>2, <1>11 DEF SentVal
    <2>3. n = 3 /\ n - 1 = 2
      BY <2>1
    <2>4. /\ s[1].kind = "CMGR" /\ s[1].val = <<m.call.arg, 1>>
          /\ s[2].kind = "TEXT" /\ s[2].val = <<m.call.arg, 2>>
      BY <2>1, <2>2 DEF Line
    <2> HIDE DEF n
    <2>5. Says(m, s[1], 3, tr, file) /\ Says(m, s[2], 2, tr, file)
      BY <1>1, <1>11, <2>4 DEF Says
    <2>6. ASSUME NEW i \in 1 .. n - 1 PROVE Says(m, s[i], n - i + 1, tr, file)
      <3>1. (i = 1 /\ n - i + 1 = 3) \/ (i = 2 /\ n - i + 1 = 2)
        BY <2>3
      <3> QED
        BY <2>5, <3>1
    <2>7. Heard(m, n, tr, file)
      BY <1>1, <1>11, <2>3 DEF Heard
    <2> QED
      BY <2>6, <2>7 DEF n
  <1>12. CASE c.kind \in {"URDFILE", "ULSTFILE", "URDBLOCK"}
    <2>1. PICK l : s = <<l>> /\ Says(m, l, 2, tr, file)
      <3>1. CASE c.kind = "URDFILE"
        <4>1. s = <<Line("URDFILE", file)>> /\ tr.val = file
          BY <1>5, <3>1 DEF Lines, Said, s
        <4> QED
          BY <1>1, <3>1, <4>1 DEF Says, Line
      <3>2. CASE c.kind = "ULSTFILE"
        <4>1. s = <<Line("ULSTFILE", <<Len(file)>>)>> /\ tr.val = file
          BY <1>5, <3>2 DEF Lines, Said, s
        <4> QED
          BY <1>1, <3>2, <4>1 DEF Says, Line
      <3>3. CASE c.kind = "URDBLOCK"
        <4>1. c.val[1] = m.off /\ c.val[2] = BlockSize(m)
          BY <1>1, <1>2, <3>3 DEF SentVal
        <4>2. s = <<Line("URDBLOCK", SubSeq(file, m.off + 1, Least(m.off + BlockSize(m), Len(file))))>>
          BY <3>3, <4>1 DEF Lines, s
        <4>3. ASSUME ~m.changed PROVE Least(m.off + BlockSize(m), Len(file)) = m.off + BlockSize(m)
          <5>1. m.off + m.left = Len(file)
            BY <1>1, <1>2, <3>3, <4>3 DEF ReadSoFar
          <5>2. m.off \in Nat /\ m.left \in Nat /\ BlockSize(m) \in Nat /\ BlockSize(m) <= m.left
            BY <1>2, BlockFacts DEF Locals
          <5>3. m.off + BlockSize(m) \in Nat /\ m.off + BlockSize(m) <= Len(file)
            BY <5>1, <5>2
          <5> QED
            BY <1>6, <5>3 DEF Least
        <4> QED
          BY <1>1, <3>3, <4>2, <4>3 DEF Says, Line
      <3> QED
        BY <1>12, <3>1, <3>2, <3>3
    <2>2. n = 2 /\ n - 1 = 1 /\ s[1] = l
      BY <2>1
    <2> HIDE DEF n
    <2>3. ASSUME NEW i \in 1 .. n - 1 PROVE Says(m, s[i], n - i + 1, tr, file)
      <3>1. i = 1 /\ n - i + 1 = 2
        BY <2>2
      <3> QED
        BY <2>1, <2>2, <3>1
    <2>4. m.cmd = "ULSTFILE" => tr.val = file
      BY <1>1, <1>5 DEF Said
    <2>5. Heard(m, n, tr, file)
      BY <1>1, <1>12, <2>2, <2>4 DEF Heard
    <2> QED
      BY <2>3, <2>5 DEF n
  <1>13. CASE c.kind \notin {"CMGL", "CMGR", "URDFILE", "ULSTFILE", "URDBLOCK"}
    <2>1. s = << >>
      BY <1>13 DEF Lines, s
    <2>2. n = 1 /\ \A i \in 1 .. n - 1 : FALSE
      BY <2>1
    <2>3. m.cmd \notin {"CMGL", "CMGR", "CUSD", "URDFILE", "ULSTFILE", "URDBLOCK"}
      BY <1>1, <1>13
    <2>4. Collected(m, tr.val)
      BY <2>3 DEF Collected
    <2>5. Heard(m, n, tr, file)
      BY <2>3, <2>4 DEF Heard
    <2> QED
      BY <2>2, <2>5
  <1> QED
    BY <1>10, <1>11, <1>12, <1>13

(* A command is executed, or refused. *)
LEMMA ExecutesStep ==
  ASSUME ServInv, Executes
  PROVE  ServInv'
  <1> DEFINE c == Head(inbox)
             reply == Line("CUSD", <<0, 3>>)
             ok == Line("OK", << >>)
             ask == Line("PROMPT", << >>)
  <1>1. TypeOK /\ DriverTypes /\ WireTypes /\ ModemTypes
    BY DEF ServInv, TypeOK
  <1>2. inbox # << >> /\ UNCHANGED <<lock, result, place, written, count>>
    BY DEF Executes
  <1>3. c \in Cmds
    BY <1>1, <1>2, HeadTailProperties DEF WireTypes
  <1>4. /\ msgs \subseteq Ixs /\ file \in Seq(Byte) /\ Len(file) <= MaxFile
        /\ dataMode \in {"none", "SMS", "DATA"} /\ written' \in Nat
    BY <1>1, <1>2 DEF ModemTypes
  <1>5. /\ ok \in Lined /\ ok.fresh /\ ok.kind = "OK"
        /\ ask \in Lined /\ ask.fresh /\ ask.kind = "PROMPT"
        /\ reply \in Lined /\ reply.fresh /\ reply.kind = "CUSD" /\ reply.val = <<0, 3>>
    <2>1. << >> \in Values /\ <<0, 3>> \in Values
      BY DEF Values
    <2> QED
      BY <2>1 DEF Line, Lined, Replies, Final
  <1>6. NoTruth \in Truths
    BY DEF NoTruth, Truths
  <1> HIDE DEF ok, ask, reply
  <1>7. CASE /\ Accepts(c) /\ c.kind \notin {"CMGS", "UDWNFILE", "CUSD"}
             /\ Answer(c, Lines(c) \o <<ok>>, [ok |-> TRUE, val |-> Said(c)])
             /\ IF c.kind = "UDELFILE" THEN FileChanges(<< >>) ELSE UNCHANGED <<file, me>>
             /\ msgs' = IF c.kind = "CMGD" THEN msgs \ {c.val[1]} ELSE msgs
             /\ locating' = IF c.kind = "ULOC" THEN locating \cup {requests} ELSE locating
             /\ UNCHANGED dataMode
    <2> DEFINE a == Lines(c) \o <<ok>>
               tv == [ok |-> TRUE, val |-> Said(c)]
    <2>1. c.kind \notin {"CMGS", "UDWNFILE", "CUSD", "SMS", "DATA"}
      BY <1>7 DEF Accepts
    <2>2. /\ Lines(c) \in Seq(Lined) /\ Said(c) \in Seq(Byte)
          /\ \A i \in DOMAIN Lines(c) : Lines(c)[i].fresh /\ Lines(c)[i].kind # "UULOC"
      BY <1>1, <1>3, LinesFacts
    <2>3. tv \in Truths
      BY <2>2 DEF Truths
    <2>4. a \in Seq(Lined) /\ \A i \in DOMAIN a : a[i].fresh /\ a[i].kind # "UULOC"
      <3> DEFINE s == Lines(c)
      <3>1. s \in Seq(Lined) /\ \A i \in 1 .. Len(s) : s[i].fresh /\ s[i].kind # "UULOC"
        BY <2>2
      <3> HIDE DEF s
      <3>2. <<ok>> \in Seq(Lined) /\ Len(<<ok>>) = 1 /\ <<ok>>[1] = ok
        BY <1>5
      <3>3. /\ s \o <<ok>> \in Seq(Lined) /\ Len(s \o <<ok>>) = Len(s) + Len(<<ok>>)
            /\ \A i \in 1 .. Len(s) + Len(<<ok>>) :
                 (s \o <<ok>>)[i] = IF i <= Len(s) THEN s[i] ELSE <<ok>>[i - Len(s)]
        BY <3>1, <3>2, ConcatProperties
      <3>4. ASSUME NEW i \in DOMAIN (s \o <<ok>>)
            PROVE  (s \o <<ok>>)[i].fresh /\ (s \o <<ok>>)[i].kind # "UULOC"
        <4>1. i \in 1 .. Len(s) + 1 /\ Len(s) \in Nat
          BY <3>1, <3>2, <3>3
        <4>2. (s \o <<ok>>)[i] = IF i <= Len(s) THEN s[i] ELSE ok
          BY <3>2, <3>3, <4>1
        <4> QED
          BY <1>5, <3>1, <4>1, <4>2
      <3> QED
        BY <3>3, <3>4 DEF s
    <2>5. \A m : Asks(m, c) => Fits(m, a, tv, file)
      BY <1>1, <1>3, <2>1, AnswerFits DEF ok
    <2>6. /\ file' \in Seq(Byte) /\ Len(file') <= MaxFile
          /\ \/ UNCHANGED <<file, me>>
             \/ me' = [t \in Threads |-> [me[t] EXCEPT !.changed = TRUE]]
      <3>1. CASE c.kind = "UDELFILE"
        <4>1. file' = << >> /\ me' = [t \in Threads |-> [me[t] EXCEPT !.changed = TRUE]]
          BY <1>7, <3>1 DEF FileChanges
        <4>2. << >> \in Seq(Byte) /\ Len(<< >>) = 0
          OBVIOUS
        <4> QED
          BY <4>1, <4>2, ArgFacts
      <3>2. CASE c.kind # "UDELFILE"
        BY <1>4, <1>7, <3>2
      <3> QED
        BY <3>1, <3>2
    <2>7. msgs' \subseteq Ixs
      BY <1>4, <1>7
    <2>8. dataMode' \in {"none", "SMS", "DATA"}
      BY <1>4, <1>7
    <2>9. \/ locating' = locating
          \/ c.kind = "ULOC" /\ locating' = locating \cup {requests}
      BY <1>7
    <2>10. Answer(c, a, tv)
      BY <1>7
    <2> HIDE DEF a, tv
    <2> QED
      BY <1>2, <1>4, <2>3, <2>4, <2>5, <2>6, <2>7, <2>8, <2>9, <2>10, AnswerStep
  <1>8. ASSUME c.kind = "CUSD", NEW first \in BOOLEAN,
               Answer(c, IF first THEN <<reply, ok>> ELSE <<ok, reply>>,
                      [ok |-> TRUE, val |-> IF first THEN <<reply.val>> ELSE << >>]),
               UNCHANGED <<msgs, file, me, locating, dataMode>>
        PROVE  ServInv'
    <2> DEFINE a == IF first THEN <<reply, ok>> ELSE <<ok, reply>>
               tv == [ok |-> TRUE, val |-> IF first THEN <<reply.val>> ELSE << >>]
    <2>1. a \in Seq(Lined) /\ \A i \in DOMAIN a : a[i].fresh /\ a[i].kind # "UULOC"
      <3>1. CASE first
        BY <1>5, <3>1
      <3>2. CASE ~first
        BY <1>5, <3>2
      <3> QED
        BY <3>1, <3>2
    <2>2. tv \in Truths
      <3>1. reply.val \in Byte
        BY <1>5 DEF Byte
      <3> QED
        BY <3>1 DEF Truths
    <2>3. ASSUME NEW m, Asks(m, c) PROVE Fits(m, a, tv, file)
      <3>1. m \in Locals /\ m.cmd = "CUSD"
        BY <1>8, <2>3, AsksCommand DEF Asks
      <3>2. CASE first
        <4>1. a = <<reply, ok>> /\ Len(a) = 2 /\ a[1] = reply /\ a[2] = ok /\ tv.ok = TRUE /\ tv.val = <<reply.val>>
          BY <3>2
        <4> HIDE DEF a, tv
        <4>2. Says(m, reply, 2, tv, file)
          BY <1>5, <3>1, <4>1 DEF Says
        <4>3. Told(m, 2, "OK", tv, file)
          BY <3>1, <4>1 DEF Told, Heard, Final, Prompting
        <4>4. PICK n \in 1 .. Len(a) : n = 2
          BY <4>1
        <4>5. ASSUME NEW i \in 1 .. n - 1 PROVE Says(m, a[i], n - i + 1, tv, file)
          <5>1. i = 1 /\ n - i + 1 = 2
            BY <4>4
          <5> QED
            BY <4>1, <4>2, <5>1
        <4>6. Told(m, n, a[n].kind, tv, file)
          BY <1>5, <4>1, <4>3, <4>4
        <4> QED
          BY <4>5, <4>6 DEF Fits
      <3>3. CASE ~first
        <4>1. a = <<ok, reply>> /\ Len(a) = 2 /\ a[1] = ok /\ tv.ok = TRUE /\ tv.val = << >>
          BY <3>3
        <4> HIDE DEF a, tv
        <4>2. Collected(m, tv.val)
          BY <3>1, <4>1 DEF Collected, Begins
        <4>3. Told(m, 1, "OK", tv, file)
          BY <3>1, <4>1, <4>2 DEF Told, Heard, Final, Prompting
        <4>4. PICK n \in 1 .. Len(a) : n = 1
          BY <4>1
        <4>5. \A i \in 1 .. n - 1 : FALSE
          BY <4>4
        <4>6. Told(m, n, a[n].kind, tv, file)
          BY <1>5, <4>1, <4>3, <4>4
        <4> QED
          BY <4>5, <4>6 DEF Fits
      <3> QED
        BY <3>2, <3>3
    <2>4. Answer(c, a, tv)
      BY <1>8
    <2>5. /\ msgs' \subseteq Ixs /\ file' \in Seq(Byte) /\ Len(file') <= MaxFile
          /\ dataMode' \in {"none", "SMS", "DATA"} /\ locating' = locating /\ UNCHANGED <<file, me>>
      BY <1>4, <1>8
    <2> HIDE DEF a, tv
    <2> QED
      BY <1>2, <1>4, <2>1, <2>2, <2>3, <2>4, <2>5, AnswerStep
  <1>9. CASE /\ Answer(c, <<ask>>, NoTruth)
             /\ dataMode' = IF c.kind = "CMGS" THEN "SMS" ELSE "DATA"
             /\ UNCHANGED <<msgs, file, me, locating>>
    <2>1. <<ask>> \in Seq(Lined) /\ \A i \in DOMAIN <<ask>> : <<ask>>[i].fresh /\ <<ask>>[i].kind # "UULOC"
      BY <1>5
    <2>2. ASSUME NEW m, Asks(m, c) PROVE Fits(m, <<ask>>, NoTruth, file)
      <3>1. m \in Locals
        BY <2>2 DEF Asks
      <3>2. Told(m, 1, ask.kind, NoTruth, file)
        BY <1>5 DEF Told, NoTruth, Final
      <3> QED
        BY <1>5, <3>1, <3>2, LastLineFits
    <2>3. /\ msgs' \subseteq Ixs /\ file' \in Seq(Byte) /\ Len(file') <= MaxFile
          /\ dataMode' \in {"none", "SMS", "DATA"} /\ locating' = locating /\ UNCHANGED <<file, me>>
      BY <1>4, <1>9
    <2> QED
      BY <1>2, <1>4, <1>6, <1>9, <2>1, <2>2, <2>3, AnswerStep
  <1>10. CASE Answer(c, Refused(c), NoTruth) /\ UNCHANGED <<msgs, file, me, locating, dataMode>>
    <2>1. /\ Refused(c) \in Seq(Lined)
          /\ \A i \in DOMAIN Refused(c) : Refused(c)[i].fresh /\ Refused(c)[i].kind # "UULOC"
          /\ \A m : Asks(m, c) => Fits(m, Refused(c), NoTruth, file)
      <3>1. Idle \in Locals
        BY IdleFacts
      <3> QED
        BY <1>3, <3>1, RefusedFits DEF Asks
    <2>2. /\ msgs' \subseteq Ixs /\ file' \in Seq(Byte) /\ Len(file') <= MaxFile
          /\ dataMode' \in {"none", "SMS", "DATA"} /\ locating' = locating /\ UNCHANGED <<file, me>>
      BY <1>4, <1>10
    <2> QED
      BY <1>2, <1>4, <1>6, <1>10, <2>1, <2>2, AnswerStep
  <1> QED
    BY <1>7, <1>8, <1>9, <1>10 DEF Executes, ok, ask, reply

(* What comes after a prompt is taken, or refused. *)
LEMMA TakesDataStep ==
  ASSUME ServInv, TakesData
  PROVE  ServInv'
  <1> DEFINE c == Head(inbox)
             ok == Line("OK", << >>)
             tv == [ok |-> TRUE, val |-> << >>]
  <1>1. TypeOK /\ DriverTypes /\ WireTypes /\ ModemTypes
    BY DEF ServInv, TypeOK
  <1>2. /\ inbox # << >> /\ c.kind = dataMode /\ dataMode' = "none"
        /\ UNCHANGED <<lock, result, place, msgs, locating, count>>
    BY DEF TakesData
  <1>3. c \in Cmds
    BY <1>1, <1>2, HeadTailProperties DEF WireTypes
  <1>4. /\ msgs' \subseteq Ixs /\ file \in Seq(Byte) /\ Len(file) <= MaxFile /\ written \in Nat
        /\ c.kind \in {"SMS", "DATA"}
    BY <1>1, <1>2, <1>3 DEF ModemTypes, Cmds, Requests, Prompting
  <1>5. ok \in Lined /\ ok.fresh /\ ok.kind = "OK"
    <2>1. << >> \in Values
      BY DEF Values
    <2> QED
      BY <2>1 DEF Line, Lined, Replies, Final
  <1>6. NoTruth \in Truths /\ tv \in Truths /\ tv.ok = TRUE
    BY DEF NoTruth, Truths
  <1> HIDE DEF ok
  <1>7. CASE /\ Answer(c, <<ok>>, tv)
             /\ IF dataMode = "DATA"
                THEN /\ written' = written + 1
                     /\ FileChanges([i \in 1 .. c.val[1] |-> <<written', i>>])
                ELSE UNCHANGED <<file, me, written>>
    <2> HIDE DEF tv
    <2>1. <<ok>> \in Seq(Lined) /\ \A i \in DOMAIN <<ok>> : <<ok>>[i].fresh /\ <<ok>>[i].kind # "UULOC"
      BY <1>5
    <2>2. ASSUME NEW m, Asks(m, c) PROVE Fits(m, <<ok>>, tv, file)
      <3>1. m \in Locals /\ m.cmd \in Requests /\ c.kind = SentKind(m) /\ Keeps(m) /\ m.at \in {"wait", "data"}
        BY <2>2 DEF Asks, Locals, Keeps
      <3>2. m.at = "data" /\ m.cmd \in Prompting
        BY <1>4, <3>1 DEF SentKind, Requests, Prompting, Keeps
      <3>3. Collected(m, tv.val)
        BY <3>2 DEF Collected, Prompting
      <3>4. Told(m, 1, ok.kind, tv, file)
        BY <1>5, <1>6, <3>2, <3>3 DEF Told, Heard, Final, Prompting
      <3> QED
        BY <1>5, <3>1, <3>4, LastLineFits
    <2>3. /\ file' \in Seq(Byte) /\ Len(file') <= MaxFile /\ written' \in Nat
          /\ \/ UNCHANGED <<file, me>>
             \/ me' = [t \in Threads |-> [me[t] EXCEPT !.changed = TRUE]]
      <3>1. CASE dataMode = "DATA"
        <4>1. c.val[1] \in Nat /\ c.val[1] <= MaxFile
          BY <1>2, <1>3, <3>1 DEF Cmds
        <4>2. written' = written + 1
          BY <1>7, <3>1
        <4>3. written' \in Nat
          BY <1>4, <4>2
        <4>4. /\ file' = [i \in 1 .. c.val[1] |-> <<written', i>>]
              /\ me' = [t \in Threads |-> [me[t] EXCEPT !.changed = TRUE]]
          BY <1>7, <3>1 DEF FileChanges
        <4>5. \A i \in 1 .. c.val[1] : <<written', i>> \in Byte
          BY <4>1, <4>3 DEF Byte
        <4>6. file' \in [1 .. c.val[1] -> Byte]
          BY <4>4, <4>5
        <4>7. file' \in Seq(Byte) /\ Len(file') = c.val[1]
          BY <4>1, <4>6
        <4> QED
          BY <4>1, <4>3, <4>4, <4>7
      <3>2. CASE dataMode # "DATA"
        BY <1>4, <1>7, <3>2
      <3> QED
        BY <3>1, <3>2
    <2> QED
      BY <1>2, <1>4, <1>6, <1>7, <2>1, <2>2, <2>3, AnswerStep
  <1>8. CASE Answer(c, Refused(c), NoTruth) /\ UNCHANGED <<file, me, written>>
    <2>1. /\ Refused(c) \in Seq(Lined)
          /\ \A i \in DOMAIN Refused(c) : Refused(c)[i].fresh /\ Refused(c)[i].kind # "UULOC"
          /\ \A m : Asks(m, c) => Fits(m, Refused(c), NoTruth, file)
      <3>1. Idle \in Locals
        BY IdleFacts
      <3> QED
        BY <1>3, <3>1, RefusedFits DEF Asks
    <2> QED
      BY <1>2, <1>4, <1>6, <1>8, <2>1, AnswerStep
  <1> QED
    BY <1>7, <1>8 DEF TakesData, ok

(* A command is taken for data. *)
LEMMA SwallowsStep ==
  ASSUME ServInv, Swallows
  PROVE  ServInv'
  <1> DEFINE c == Head(inbox)
  <1>1. /\ TypeOK /\ DriverTypes /\ WireTypes /\ ModemTypes /\ LastIsFresh /\ Positions
    BY DEF ServInv, TypeOK
  <1>2. /\ inbox # << >> /\ inbox' = Tail(inbox)
        /\ me' = [t \in Threads |-> [me[t] EXCEPT !.own = me[t].own /\ ~(lock = t /\ c.fresh)]]
        /\ UNCHANGED <<lock, result, place, line, modem, count>>
    BY DEF Swallows
  <1>3. UNCHANGED <<msgs, file, dataMode, locating, truth, written, position, locRcvPos, requests, alone>>
    BY <1>2 DEF modem, place
  <1>4. /\ inbox' \in Seq(Cmds) /\ LastIsFresh'
        /\ ~c.fresh /\ Last(inbox).fresh => inbox' # << >> /\ Last(inbox') = Last(inbox)
        /\ NoneFresh => NoneFresh'
    BY <1>1, <1>2, CommandTaken
  <1> HIDE DEF c
  <1>5. line \in Seq(Lined) /\ me \in [Threads -> Locals]
    BY <1>1 DEF WireTypes, DriverTypes
  <1>6. WireTypes' /\ ModemTypes'
    BY <1>1, <1>2, <1>3, <1>4 DEF WireTypes, ModemTypes
  <1>7. ASSUME NEW u \in Threads
        PROVE  /\ me'[u] \in Locals /\ Spared(me[u], me'[u])
               /\ lock = u /\ Undisturbed(me'[u]) => ~c.fresh
               /\ me'[u].changed = me[u].changed
    <2> DEFINE o == me[u].own /\ ~(lock = u /\ c.fresh)
    <2>1. me'[u] = [me[u] EXCEPT !.own = o] /\ me[u] \in Locals /\ o \in BOOLEAN
      BY <1>2, <1>5
    <2>2. (o => me[u].own) /\ (o /\ lock = u => ~c.fresh)
      OBVIOUS
    <2> HIDE DEF o
    <2> QED
      BY <1>3, <2>1, <2>2 DEF Locals, Spared, Same, Undisturbed
  <1>8. me' \in [Threads -> Locals]
    BY <1>2, <1>7
  <1>9. Positions'
    <2>1. /\ Len(line) <= Len(line') /\ \A i \in 1 .. Len(line) : line'[i] = line[i]
          /\ \A i \in 1 .. Len(line') : i > Len(line) => line'[i].kind # "UULOC"
      BY <1>2, <1>5
    <2>2. \A u \in Threads : me'[u].call = me[u].call /\ me'[u].asked = me[u].asked
      BY <1>7 DEF Spared, Same
    <2> QED
      BY <1>1, <1>2, <1>3, <1>6, <2>1, <2>2, PositionsAnswered
  <1>10. ASSUME NEW u \in Threads, lock = u, Undisturbed(me'[u]), Awaits(u) PROVE Awaits(u)'
    <2>1. ~c.fresh /\ Spared(me[u], me'[u])
      BY <1>7, <1>10
    <2>2. inbox # << >> /\ Last(inbox).fresh => inbox' # << >> /\ Last(inbox') = Last(inbox)
      BY <1>4, <2>1
    <2>3. /\ line' \in Seq(Lined) /\ Len(line) <= Len(line') /\ \A i \in 1 .. Len(line) : line'[i] = line[i]
          /\ \A i \in 1 .. Len(line') : i > Len(line) => Stale(line'[i])
      BY <1>2, <1>5
    <2> QED
      BY <1>3, <1>4, <1>5, <1>10, <2>1, <2>2, <2>3, AwaitsGrows DEF Spared
  <1>11. calls' \in Nat /\ lost' \in Nat /\ late' \in Nat
    BY <1>1, <1>2 DEF DriverTypes, count
  <1> QED
    BY <1>2, <1>4, <1>6, <1>7, <1>8, <1>9, <1>10, <1>11, ModemStep

(* A position is found for a request. *)
LEMMA LocatedStep ==
  ASSUME ServInv, Located
  PROVE  ServInv'
  <1>1. /\ TypeOK /\ DriverTypes /\ WireTypes /\ ModemTypes /\ LastIsFresh /\ Positions
    BY DEF ServInv, TypeOK
  <1>2. PICK r \in locating : locating' = locating \ {r} /\ line' = Append(line, Line("UULOC", <<r, 0>>))
    BY DEF Located
  <1> DEFINE l == Line("UULOC", <<r, 0>>)
  <1>3. UNCHANGED <<lock, me, result, place, inbox, msgs, file, dataMode, truth, written, count>>
    BY DEF Located
  <1>4. UNCHANGED <<position, locRcvPos, requests, alone>>
    BY <1>3 DEF place
  <1>5. line \in Seq(Lined) /\ me \in [Threads -> Locals] /\ r \in Nat /\ inbox \in Seq(Cmds)
    BY <1>1, <1>2 DEF WireTypes, DriverTypes, ModemTypes
  <1>6. l \in Lined /\ l.kind = "UULOC" /\ l.val[1] = r
    BY <1>5 DEF Line, Lined, Replies, Values
  <1> HIDE DEF l
  <1>7. /\ Len(line) \in Nat /\ line' \in Seq(Lined) /\ Len(line') = Len(line) + 1 /\ line'[Len(line) + 1] = l
        /\ \A i \in 1 .. Len(line) : line'[i] = line[i]
    <2>1. line' = Append(line, l) /\ Len(line) \in Nat
      BY <1>2, <1>5 DEF l
    <2> QED
      BY <1>5, <1>6, <2>1, AppendProperties
  <1>8. WireTypes' /\ ModemTypes'
    BY <1>1, <1>2, <1>3, <1>7 DEF WireTypes, ModemTypes
  <1>9. LastIsFresh'
    BY <1>1, <1>3 DEF LastIsFresh
  <1>10. ASSUME alone PROVE OneOnItsWay'
    <2>1. OneOnItsWay
      BY <1>1, <1>10 DEF Positions
    <2>2. r = requests /\ locating' = {} /\ ~OnItsWay(line, "UULOC") /\ locRcvPos = 0
      BY <1>2, <2>1 DEF OneOnItsWay
    <2>3. \A i \in DOMAIN inbox : inbox[i].kind # "ULOC"
      BY <1>2, <2>1 DEF OneOnItsWay
    <2>4. ASSUME NEW i \in DOMAIN line', line'[i].kind = "UULOC"
          PROVE  i = Len(line) + 1 /\ line'[i] = l
      <3>1. i \in 1 .. Len(line) + 1
        BY <1>7
      <3>2. i \notin 1 .. Len(line)
        <4>1. SUFFICES ASSUME i \in 1 .. Len(line) PROVE FALSE
          OBVIOUS
        <4>2. i \in DOMAIN line /\ line[i].kind = "UULOC"
          BY <1>5, <1>7, <2>4, <4>1
        <4> QED
          BY <2>2, <4>2 DEF OnItsWay
      <3> QED
        BY <1>7, <3>1, <3>2
    <2>5. ASSUME NEW i \in DOMAIN line', line'[i].kind = "UULOC"
          PROVE  /\ \A j \in DOMAIN line' : line'[j].kind = "UULOC" => j = i
                 /\ line'[i].val[1] = requests' /\ locRcvPos' = 0
      BY <1>4, <1>6, <2>2, <2>4, <2>5
    <2>6. position'.validData => position'.of = requests' /\ locRcvPos' = 1
      BY <1>4, <2>1 DEF OneOnItsWay
    <2>7. \A i \in DOMAIN inbox' : inbox'[i].kind # "ULOC"
      BY <1>3, <2>3
    <2> QED
      BY <2>2, <2>5, <2>6, <2>7 DEF OneOnItsWay
  <1>11. ASSUME NEW n, NoneOlder(n) PROVE NoneOlder(n)'
    <2>1. n <= r
      BY <1>2, <1>11 DEF NoneOlder
    <2>2. ASSUME NEW i \in DOMAIN line', line'[i].kind = "UULOC" PROVE n <= line'[i].val[1]
      <3>1. i \in 1 .. Len(line) + 1
        BY <1>7
      <3>2. CASE i = Len(line) + 1
        BY <1>6, <1>7, <2>1, <3>2
      <3>3. CASE i # Len(line) + 1
        <4>1. i \in DOMAIN line /\ line'[i] = line[i]
          BY <1>5, <1>7, <3>1, <3>3
        <4> QED
          BY <1>11, <2>2, <4>1 DEF NoneOlder
      <3> QED
        BY <3>2, <3>3
    <2> QED
      BY <1>2, <1>4, <1>11, <2>2 DEF NoneOlder
  <1>12. Positions'
    <2>1. ASSUME NEW u \in Threads, me'[u].call.fn = "cellLocGetData" PROVE NoneOlder(me[u].asked)'
      BY <1>1, <1>3, <1>11, <2>1 DEF Positions
    <2> QED
      BY <1>3, <1>4, <1>10, <2>1 DEF Positions, NoneOlder
  <1>13. ASSUME NEW u \in Threads PROVE Spared(me[u], me'[u])
    BY <1>3 DEF Spared, Same
  <1>14. ASSUME NEW u \in Threads, Awaits(u) PROVE Awaits(u)'
    <2>1. /\ Len(line) <= Len(line') /\ \A i \in 1 .. Len(line) : line'[i] = line[i]
          /\ \A i \in 1 .. Len(line') : i > Len(line) => Stale(line'[i])
      <3>1. \A i \in 1 .. Len(line') : i > Len(line) => i = Len(line) + 1
        BY <1>7
      <3> QED
        BY <1>6, <1>7, <3>1 DEF Stale
    <2>2. (NoneFresh => NoneFresh') /\ truth' = truth
      BY <1>3 DEF NoneFresh
    <2>3. inbox # << >> /\ Last(inbox).fresh => inbox' # << >> /\ Last(inbox') = Last(inbox)
      BY <1>3
    <2> QED
      BY <1>3, <1>5, <1>7, <1>13, <1>14, <2>1, <2>2, <2>3, AwaitsGrows DEF Spared
  <1>15. calls' \in Nat /\ lost' \in Nat /\ late' \in Nat
    BY <1>1, <1>3 DEF DriverTypes, count
  <1> QED
    BY <1>3, <1>5, <1>8, <1>9, <1>12, <1>13, <1>14, <1>15, ModemStep

(* A line is damaged on its way. *)
LEMMA LoseStep ==
  ASSUME ServInv, Lose
  PROVE  ServInv'
  <1> DEFINE l == Head(line)
  <1>1. /\ TypeOK /\ DriverTypes /\ WireTypes /\ ModemTypes /\ LastIsFresh /\ Positions
    BY DEF ServInv, TypeOK
  <1>2. /\ line # << >> /\ line' = Tail(line) /\ lost' = lost + 1
        /\ me' = [t \in Threads |-> [me[t] EXCEPT !.own = me[t].own /\ ~(lock = t /\ l.fresh)]]
        /\ UNCHANGED <<lock, result, place, inbox, modem, calls, late>>
    BY DEF Lose
  <1> HIDE DEF l
  <1>3. UNCHANGED <<msgs, file, dataMode, locating, truth, written, position, locRcvPos, requests, alone>>
    BY <1>2 DEF modem, place
  <1>4. line \in Seq(Lined) /\ me \in [Threads -> Locals] /\ inbox \in Seq(Cmds)
    BY <1>1 DEF WireTypes, DriverTypes
  <1>5. /\ line' \in Seq(Lined) /\ Len(line') = Len(line) - 1 /\ Len(line) \in Nat
        /\ \A i \in 1 .. Len(line') : line'[i] = line[i + 1]
    BY <1>2, <1>4, HeadTailProperties
  <1>6. WireTypes' /\ ModemTypes' /\ LastIsFresh'
    BY <1>1, <1>2, <1>3, <1>5 DEF WireTypes, ModemTypes, LastIsFresh
  <1>7. ASSUME NEW u \in Threads
        PROVE  /\ me'[u] \in Locals /\ Spared(me[u], me'[u])
               /\ lock = u /\ Undisturbed(me'[u]) => ~l.fresh
               /\ me'[u].changed = me[u].changed
    <2> DEFINE o == me[u].own /\ ~(lock = u /\ l.fresh)
    <2>1. me'[u] = [me[u] EXCEPT !.own = o] /\ me[u] \in Locals /\ o \in BOOLEAN
      BY <1>2, <1>4
    <2>2. (o => me[u].own) /\ (o /\ lock = u => ~l.fresh)
      OBVIOUS
    <2> HIDE DEF o
    <2> QED
      BY <1>3, <2>1, <2>2 DEF Locals, Spared, Same, Undisturbed
  <1>8. me' \in [Threads -> Locals]
    BY <1>2, <1>7
  <1>9. Positions'
    <2>1. PICK zero \in Nat, one \in Nat : zero = 0 /\ one = 1
      OBVIOUS
    <2>2. \A i \in 1 .. Len(inbox') : inbox'[i].kind = "ULOC" =>
            i + zero \in 1 .. Len(inbox) /\ inbox[i + zero].kind = "ULOC"
      BY <1>2, <2>1
    <2>3. ASSUME NEW i \in 1 .. Len(line'), line'[i].kind = "UULOC"
          PROVE  /\ i + one \in 1 .. Len(line) /\ line[i + one].kind = "UULOC"
                 /\ line'[i].val = line[i + one].val
      BY <1>5, <2>1, <2>3
    <2>4. \A u \in Threads : me'[u].call.fn = "cellLocGetData" =>
            me[u].call.fn = "cellLocGetData" /\ me'[u].asked = me[u].asked
      BY <1>7 DEF Spared, Same
    <2>5. inbox' \in Seq(Cmds)
      BY <1>2, <1>4
    <2> QED
      BY <1>1, <1>3, <1>4, <1>5, <2>1, <2>2, <2>3, <2>4, <2>5, PositionsStay
  <1>10. ASSUME NEW u \in Threads, lock = u, Undisturbed(me'[u]), Awaits(u) PROVE Awaits(u)'
    <2>1. Stale(Head(line)) /\ Spared(me[u], me'[u])
      BY <1>7, <1>10 DEF Stale, l
    <2>2. me'[u].changed <=> me[u].changed
      BY <1>7
    <2> QED
      BY <1>2, <1>3, <1>4, <1>10, <2>1, <2>2, AwaitsLoses DEF Spared
  <1>11. calls' \in Nat /\ lost' \in Nat /\ late' \in Nat
    BY <1>1, <1>2 DEF DriverTypes
  <1> QED
    BY <1>2, <1>6, <1>7, <1>8, <1>9, <1>10, <1>11, ModemStep

(* A step that changes nothing. *)
LEMMA StutterStep ==
  ASSUME ServInv, UNCHANGED vars
  PROVE  ServInv'
  <1>1. /\ UNCHANGED <<lock, me, result, position, locRcvPos, locExpPos, inbox, line, msgs, file>>
        /\ UNCHANGED <<dataMode, locating, truth, requests, alone, written, calls, lost, late>>
    BY DEF vars, place, modem, count
  <1>2. TypeOK' /\ Locked' /\ LastIsFresh'
    BY <1>1 DEF ServInv, TypeOK, DriverTypes, WireTypes, ModemTypes, Locked, LastIsFresh
  <1>3. Talks'
    BY <1>1 DEF ServInv, Talks, Awaits, NoneFresh
  <1>4. Reads'
    BY <1>1 DEF ServInv, Reads
  <1>5. Positions'
    BY <1>1 DEF ServInv, Positions, OneOnItsWay, NoneOlder
  <1>6. Results'
    BY <1>1, <1>5, ResultsStay DEF ServInv
  <1> QED
    BY <1>2, <1>3, <1>4, <1>5, <1>6 DEF ServInv

-----------------------------------------------------------------------------
(* Every step. *)
LEMMA ServStepInv == ServInv /\ [Next]_vars => ServInv'
  <1> SUFFICES ASSUME ServInv, [Next]_vars PROVE ServInv'
    OBVIOUS
  <1>1. ASSUME NEW t \in Threads, Function(t) PROVE ServInv'
    BY <1>1, WaitLineStep, PollLineStep, WaitTimeoutStep, ReturnLocalStep, SendCommandStep,
       ReturnAnswerStep, SendDataStep, FileSizedStep, BlockReadStep DEF Function
  <1>2. ASSUME NEW t \in Threads, NEW c \in Calls, Call(t, c) PROVE ServInv'
    BY <1>2, CallStep
  <1>3. CASE Modem
    BY <1>3, ExecutesStep, TakesDataStep, SwallowsStep, LocatedStep DEF Modem
  <1>4. CASE Lose
    BY <1>4, LoseStep
  <1>5. CASE UNCHANGED vars
    BY <1>5, StutterStep
  <1> QED
    BY <1>1, <1>2, <1>3, <1>4, <1>5 DEF Next

(* The inductive invariant holds of every behaviour: of every number of threads, calls, lost *)
(* lines and late answers.                                                                   *)
THEOREM ServInvariance == Spec => []ServInv
  <1>1. Init => ServInv
    BY ServInitInv
  <1>2. ServInv /\ [Next]_vars => ServInv'
    BY ServStepInv
  <1> QED
    BY <1>1, <1>2, PTL DEF Spec

(* The locals of the calls, the lines and commands on their way and what the modem has are *)
(* of their types.                                                                         *)
THEOREM TypeCorrect == Spec => []TypeOK
  <1>1. ServInv => TypeOK
    BY DEF ServInv
  <1> QED
    BY <1>1, ServInvariance, PTL

-----------------------------------------------------------------------------
(* The list of smsList.                                                     *)

InRoom == (\A t \in Threads : WithinList(me[t])) /\ WithinList(result.of)

(* A call keeps within its list that leaves it alone. *)
LEMMA WithinStays ==
  ASSUME NEW m, NEW x, x.cmd = "CMGL" => m.cmd = "CMGL" /\ x.buf = m.buf /\ x.call = m.call,
         WithinList(m)
  PROVE  WithinList(x)
  BY DEF WithinList

(* An entry goes to a place that is left. *)
LEMMA WithinTaken ==
  ASSUME NEW m \in Locals, NEW l \in Lined, WithinList(m)
  PROVE  WithinList(Taken(m, l))
  <1> DEFINE x == Taken(m, l)
  <1>1. x.cmd = m.cmd /\ x.call = m.call /\ x.buf = Callback(m, l).buf /\ x \in Locals
    BY TakenFacts
  <1> HIDE DEF x
  <1>2. CASE m.cmd # "CMGL"
    BY <1>1, <1>2 DEF WithinList, x
  <1>3. CASE m.cmd = "CMGL" /\ ~(l.kind = "CMGL" /\ m.cnt < m.call.arg)
    <2>1. Callback(m, l).buf = m.buf
      <3>1. Callback(m, l) = [m EXCEPT !.buf = m.buf, !.cnt = m.cnt]
        BY <1>3, CallbackCases
      <3> QED
        BY <3>1 DEF Locals
    <2> QED
      BY <1>1, <2>1 DEF WithinList, x
  <1>4. CASE m.cmd = "CMGL" /\ l.kind = "CMGL" /\ m.cnt < m.call.arg
    <2>1. Callback(m, l).buf = Fill(m.buf, m.cnt, <<l.val>>)
      <3>1. Callback(m, l) = [m EXCEPT !.buf = Fill(m.buf, m.cnt, <<l.val>>), !.cnt = m.cnt + 1]
        BY <1>4, CallbackCases
      <3> QED
        BY <3>1 DEF Locals
    <2>2. m.buf \in [1 .. MaxFile -> Values \cup Byte] /\ m.cnt \in Nat /\ m.call.arg \in Nat
      BY ArgFacts DEF Locals
    <2>3. <<l.val>> \in Seq(Values \cup Byte) /\ Len(<<l.val>>) = 1
      BY DEF Lined
    <2>4. /\ Fill(m.buf, m.cnt, <<l.val>>) \in [1 .. MaxFile -> Values \cup Byte]
          /\ \A i \in 1 .. MaxFile : Fill(m.buf, m.cnt, <<l.val>>)[i] =
               IF m.cnt < i /\ i <= m.cnt + Len(<<l.val>>) THEN <<l.val>>[i - m.cnt] ELSE m.buf[i]
      BY <2>2, <2>3, FillFacts
    <2>5. ASSUME NEW i \in 1 .. MaxFile, i > m.call.arg PROVE x.buf[i] = NoByte
      <3>1. ~(i <= m.cnt + Len(<<l.val>>))
        BY <1>4, <2>2, <2>3, <2>5, ArgFacts
      <3>2. x.buf[i] = m.buf[i]
        BY <1>1, <2>1, <2>4, <3>1
      <3>3. i \in DOMAIN m.buf
        BY <2>2
      <3> QED
        BY <1>4, <2>5, <3>2, <3>3 DEF WithinList
    <2>6. DOMAIN x.buf = 1 .. MaxFile
      BY <1>1, <2>1, <2>4
    <2> QED
      BY <1>1, <2>5, <2>6 DEF WithinList, x
  <1> QED
    BY <1>2, <1>3, <1>4

(* One thread goes on with x, and a result is returned or not. *)
LEMMA WithinMoves ==
  ASSUME InRoom, me \in [Threads -> Locals], NEW t \in Threads, NEW x,
         me' = [me EXCEPT ![t] = x], WithinList(x), result' = result \/ WithinList(result'.of)
  PROVE  InRoom'
  <1>1. ASSUME NEW u \in Threads PROVE WithinList(me'[u])
    <2>1. me'[u] = IF u = t THEN x ELSE me[u]
      OBVIOUS
    <2> QED
      BY <2>1 DEF InRoom
  <1>2. WithinList(result'.of)
    BY DEF InRoom
  <1> QED
    BY <1>1, <1>2 DEF InRoom, WithinList

(* A function returns with locals r. *)
LEMMA WithinReturns ==
  ASSUME InRoom, me \in [Threads -> Locals], NEW t \in Threads, NEW r, NEW ok,
         Return(t, r, ok), WithinList(r)
  PROVE  InRoom'
  <1>1. me' = [me EXCEPT ![t] = Idle] /\ result'.of = r
    BY DEF Return
  <1>2. WithinList(Idle)
    BY DEF WithinList, Idle
  <1> QED
    BY <1>1, <1>2, WithinMoves

(* The history of a thread changes, and nothing of its list. *)
LEMMA WithinMarked ==
  ASSUME InRoom, result' = result,
         \A t \in Threads : /\ me'[t].cmd = me[t].cmd /\ me'[t].buf = me[t].buf
                             /\ me'[t].call = me[t].call
  PROVE  InRoom'
  BY DEF InRoom, WithinList

(* The functions. *)
LEMMA FunctionWithin ==
  ASSUME ServInv, InRoom, NEW t \in Threads, Function(t)
  PROVE  InRoom'
  <1>1. me \in [Threads -> Locals] /\ line \in Seq(Lined) /\ me[t] \in Locals /\ WithinList(me[t])
    BY DEF ServInv, TypeOK, DriverTypes, WireTypes, InRoom
  <1>2. CASE WaitLine(t)
    <2>1. me' = [me EXCEPT ![t] = Taken(me[t], Head(line))] /\ result' = result /\ Head(line) \in Lined
      BY <1>1, <1>2 DEF WaitLine
    <2> QED
      BY <1>1, <2>1, WithinTaken, WithinMoves
  <1>3. CASE PollLine(t)
    <2>1. result' = result
      BY <1>3 DEF PollLine
    <2>2. ASSUME NEW u \in Threads
          PROVE  me'[u].cmd = me[u].cmd /\ me'[u].buf = me[u].buf /\ me'[u].call = me[u].call
      <3>1. me[u] \in Locals
        BY <1>1
      <3>2. \/ me'[u] = me[u] \/ me'[u] = [me[u] EXCEPT !.at = "lock"]
            \/ me'[u] = [me[u] EXCEPT !.robbed = TRUE]
        BY <1>3 DEF PollLine
      <3> QED
        BY <3>1, <3>2 DEF Locals
    <2> QED
      BY <2>1, <2>2, WithinMarked
  <1>4. CASE WaitTimeout(t)
    <2>1. PICK o : me' = [me EXCEPT ![t] = [me[t] EXCEPT !.ret = "WAIT", !.own = o]] /\ result' = result
      BY <1>4 DEF WaitTimeout
    <2> DEFINE x == [me[t] EXCEPT !.ret = "WAIT", !.own = o]
    <2>2. x.cmd = me[t].cmd /\ x.buf = me[t].buf /\ x.call = me[t].call
      BY <1>1 DEF Locals
    <2> HIDE DEF x
    <2>3. WithinList(x)
      BY <1>1, <2>2, WithinStays
    <2> QED
      BY <1>1, <2>1, <2>3, WithinMoves DEF x
  <1>5. CASE ReturnLocal(t)
    <2>1. PICK n : Return(t, me[t], FALSE) \/ Return(t, [me[t] EXCEPT !.cnt = n], TRUE)
      <3>1. me[t].call.fn \in Unsupported \cup {"cellLocGetExpRes", "cellLocGetData"}
        <4>1. Keeps(me[t]) /\ me[t].at = "lock" /\ me[t].cmd = "none"
          BY <1>5 DEF ReturnLocal, Locks, ServInv, Locked
        <4>2. me[t].call \in Calls /\ me[t].call.fn \notin DOMAIN Command
          BY <4>1 DEF Keeps
        <4> QED
          BY <4>2, ServicesAssumption DEF Callable
      <3>2. CASE me[t].call.fn \in Unsupported
        BY <1>5, <3>2 DEF ReturnLocal, Unsupported
      <3>3. CASE me[t].call.fn = "cellLocGetExpRes"
        BY <1>5, <3>3 DEF ReturnLocal, Unsupported
      <3>4. CASE me[t].call.fn = "cellLocGetData"
        BY <1>5, <3>4 DEF ReturnLocal, Unsupported
      <3> QED
        BY <3>1, <3>2, <3>3, <3>4
    <2>2. WithinList([me[t] EXCEPT !.cnt = n])
      BY <1>1, WithinStays DEF Locals
    <2> QED
      BY <1>1, <2>1, <2>2, WithinReturns
  <1>6. CASE SendCommand(t)
    <2>1. me' = [me EXCEPT ![t] = [me[t] EXCEPT !.cmd = me[t].cmd, !.at = "wait", !.ret = "none"]]
          /\ result' = result
      BY <1>6 DEF SendCommand, Wait
    <2> DEFINE x == [me[t] EXCEPT !.cmd = me[t].cmd, !.at = "wait", !.ret = "none"]
    <2>2. x.cmd = me[t].cmd /\ x.buf = me[t].buf /\ x.call = me[t].call
      BY <1>1 DEF Locals
    <2> HIDE DEF x
    <2>3. WithinList(x)
      BY <1>1, <2>2, WithinStays
    <2> QED
      BY <1>1, <2>1, <2>3, WithinMoves DEF x
  <1>7. CASE ReturnAnswer(t)
    <2>1. PICK ok : Return(t, me[t], ok)
      BY <1>7 DEF ReturnAnswer
    <2> QED
      BY <1>1, <2>1, WithinReturns
  <1>8. CASE SendData(t)
    <2>1. me' = [me EXCEPT ![t] = [me[t] EXCEPT !.cmd = me[t].cmd, !.at = "data", !.ret = "none"]]
          /\ result' = result
      BY <1>8 DEF SendData, Wait
    <2> DEFINE x == [me[t] EXCEPT !.cmd = me[t].cmd, !.at = "data", !.ret = "none"]
    <2>2. x.cmd = me[t].cmd /\ x.buf = me[t].buf /\ x.call = me[t].call
      BY <1>1 DEF Locals
    <2> HIDE DEF x
    <2>3. WithinList(x)
      BY <1>1, <2>2, WithinStays
    <2> QED
      BY <1>1, <2>1, <2>3, WithinMoves DEF x
  <1>9. CASE FileSized(t)
    <2> DEFINE x == [me[t] EXCEPT !.cmd = "URDBLOCK", !.at = "lock", !.left = me[t].left + me[t].cnt, !.cnt = 0]
    <2>1. (me' = [me EXCEPT ![t] = x] /\ result' = result) \/ Return(t, me[t], FALSE)
      BY <1>9 DEF FileSized
    <2>2. WithinList(x)
      BY <1>1 DEF Locals, WithinList
    <2> HIDE DEF x
    <2> QED
      BY <1>1, <2>1, <2>2, WithinMoves, WithinReturns
  <1>10. CASE BlockRead(t)
    <2>1. \/ Return(t, me[t], FALSE) \/ Return(t, AfterBlock(me[t]), TRUE)
          \/ me' = [me EXCEPT ![t] = AfterBlock(me[t])] /\ result' = result
      BY <1>10 DEF BlockRead
    <2>2. WithinList(AfterBlock(me[t]))
      <3>1. /\ AfterBlock(me[t]).cmd = me[t].cmd /\ AfterBlock(me[t]).buf = me[t].buf
            /\ AfterBlock(me[t]).call = me[t].call
        BY <1>1 DEF AfterBlock, Locals
      <3> QED
        BY <1>1, <3>1, WithinStays
    <2> QED
      BY <1>1, <2>1, <2>2, WithinMoves, WithinReturns
  <1> QED
    BY <1>2, <1>3, <1>4, <1>5, <1>6, <1>7, <1>8, <1>9, <1>10 DEF Function

(* A call begins with an empty list. *)
LEMMA CallWithin ==
  ASSUME ServInv, InRoom, NEW t \in Threads, NEW c \in Calls, Call(t, c)
  PROVE  InRoom'
  <1> DEFINE x == [Idle EXCEPT !.call = c, !.asked = IF alone THEN requests ELSE 0,
                     !.at = IF c.fn = "cellLocGetExpRes" THEN "poll" ELSE "lock",
                     !.cmd = IF c.fn \in DOMAIN Command THEN Command[c.fn] ELSE "none"]
  <1>1. me \in [Threads -> Locals]
    BY DEF ServInv, TypeOK, DriverTypes
  <1>2. (me' = [me EXCEPT ![t] = x] /\ result' = result) \/ Return(t, x, FALSE)
    BY DEF Call
  <1>3. WithinList(x)
    BY DEF WithinList, Idle, NoBuffer
  <1> HIDE DEF x
  <1> QED
    BY <1>1, <1>2, <1>3, WithinMoves, WithinReturns

(* The modem, and what gets lost. *)
LEMMA ModemWithin ==
  ASSUME ServInv, InRoom, Modem \/ Lose
  PROVE  InRoom'
  <1>1. me \in [Threads -> Locals]
    BY DEF ServInv, TypeOK, DriverTypes
  <1>2. result' = result
    BY DEF Modem, Executes, TakesData, Swallows, Located, Lose
  <1>3. ASSUME NEW t \in Threads
        PROVE  \/ me'[t] = me[t]
               \/ me'[t] = [me[t] EXCEPT !.changed = TRUE]
               \/ \E o : me'[t] = [me[t] EXCEPT !.own = o]
    <2>1. CASE Executes
      BY <2>1 DEF Executes, FileChanges
    <2>2. CASE TakesData
      BY <2>2 DEF TakesData, FileChanges
    <2>3. CASE Swallows
      BY <2>3 DEF Swallows
    <2>4. CASE Located
      BY <2>4 DEF Located
    <2>5. CASE Lose
      BY <2>5 DEF Lose
    <2> QED
      BY <2>1, <2>2, <2>3, <2>4, <2>5 DEF Modem
  <1>4. ASSUME NEW t \in Threads
        PROVE  me'[t].cmd = me[t].cmd /\ me'[t].buf = me[t].buf /\ me'[t].call = me[t].call
    <2>1. me[t] \in Locals
      BY <1>1
    <2> QED
      BY <1>3, <2>1 DEF Locals
  <1> QED
    BY <1>2, <1>4, WithinMarked

(* Nobody stores more messages than there is room for. *)
LEMMA RoomInvariance == Spec => []InRoom
  <1>1. Init => InRoom
    BY DEF Init, InRoom, WithinList, Idle
  <1>2. ServInv /\ InRoom /\ [Next]_vars => InRoom'
    <2>1. SUFFICES ASSUME ServInv, InRoom, [Next]_vars PROVE InRoom'
      OBVIOUS
    <2>2. CASE UNCHANGED vars
      BY <2>1, <2>2 DEF vars, InRoom, WithinList
    <2>3. CASE Next
      BY <2>1, <2>3, FunctionWithin, CallWithin, ModemWithin DEF Next
    <2> QED
      BY <2>1, <2>2, <2>3
  <1> QED
    BY <1>1, <1>2, ServInvariance, PTL DEF Spec

(* An undisturbed call of a function of MDM.cpp:1735-2089 reports what the modem did for it, *)
(* and has collected the lines the modem said, whatever the other threads were doing; and    *)
(* smsList keeps within the list it is given.                                                *)
THEOREM ResultCorrect == Spec => []ResultIsTrue
  <1>1. ServInv /\ InRoom => ResultIsTrue
    BY DEF ServInv, Results, Truthful, InRoom, ResultIsTrue, Succeeded
  <1> QED
    BY <1>1, ServInvariance, RoomInvariance, PTL

(* The blocks readFileNew (MDM.cpp:1906) has put together are the file, if nobody changed it *)
(* while the lock was free between two of them.                                              *)
THEOREM FileCorrect == Spec => []BlocksAreTheFile
  <1>1. ServInv => BlocksAreTheFile
    BY DEF ServInv, Results
  <1> QED
    BY <1>1, ServInvariance, PTL

(* From the first request on a valid position answers the last request, if that was made   *)
(* alone, and cellLocGetData returns none that is older than what the caller asked for;    *)
(* whatever the members held before the first request, which the constructor leaves unset. *)
THEOREM PositionCorrect == Spec => []PositionIsOfRequest
  <1>1. ServInv => PositionIsOfRequest
    BY DEF ServInv, Results
  <1> QED
    BY <1>1, ServInvariance, PTL
=============================================================================
