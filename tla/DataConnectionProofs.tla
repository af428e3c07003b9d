------------------------ MODULE DataConnectionProofs ------------------------
(***************************************************************************)
(* Proofs about DataConnection for every number of tries, settings,        *)
(* addresses and lines on their way: the types, that the stored address is *)
(* never one of an earlier activation, and that a connection is only       *)
(* attempted with a registration.                                          *)
(*                                                                         *)
(* Neither is inductive.  Both depend on what the lines on their way can   *)
(* still do: an address or a registration status that outlives the wait it *)
(* belongs to would change ip or eps behind the back of join.  Answers     *)
(* says that in this model none does: an answer comes before its time-out, *)
(* lost or cut short as it may be, so a wait ends only when nothing but    *)
(* +UUPSDD is left.  Nothing is said of answers that come late.            *)
(***************************************************************************)
EXTENDS DataConnection, SequenceTheorems, TLAPS

Lines == [kind : {"OK", "ERROR", "UUPSDD"}, v : {0}]
         \cup [kind : {"CEREG"}, v : Reg]
         \cup [kind : {"CGPADDR", "UPSND"}, v : {0, 1}]
         \cup [kind : {"IP"}, v : 0 .. MaxAddress]

(* The locals of the call in progress. *)
ArgSet == [tries : 0..WakeTries, settings : 0..Settings, protocols : 0..3, login : BOOLEAN]

QuietIn(q)   == \A i \in 1 .. Len(q) : q[i].kind = "UUPSDD"
FinalLast(q) == \A i, j \in 1 .. Len(q) :
                  i < j /\ q[i].kind \in Final => q[j].kind = "UUPSDD"

Answers ==
  /\ line \in Seq(Lines)
  /\ at = "none" \/ ret # "none" => QuietIn(line)
  /\ FinalLast(line)
  /\ \A i \in 1 .. Len(line) :
       /\ line[i].kind = "CEREG" => at = "cereg"
       /\ line[i].kind = "IP" => at = "ask" /\ line[i].v = addresses

ActiveIsLast == active \in {NOIP, addresses}
InitDone     == at \in {"setup", "cops", "cereg", "addr"} => init
JoinForgets  == at \in JoinWaits \ {"ask"} => ip = NOIP

IndInv ==
  /\ TypeOK
  /\ Answers
  /\ ActiveIsLast
  /\ InitDone
  /\ JoinForgets
  /\ NoEarlierAddress
  /\ ConnectIsRegistered

----------------------------------------------------------------------------
(* What the modem says to one command: a line of information, if any, and  *)
(* OK, of which some may be missing, or ERROR, or nothing.                 *)

OKLine == [kind |-> "OK", v |-> 0]

Says(k, q) ==
  \/ line' = q
  \/ \E f \in {"OK", "ERROR"} : line' = Append(q, [kind |-> f, v |-> 0])
  \/ \E l \in Lines :
       /\ l.kind \in {"CEREG", "CGPADDR", "UPSND", "IP"}
       /\ l.kind = "CEREG" => k = "CEREG"
       /\ l.kind = "IP" => k = "UPSND0" /\ l.v = addresses
       /\ line' \in {Append(q, l), Append(Append(q, l), OKLine)}

(* Sequences of one and of two lines. *)
LEMMA OneAndTwo ==
  ASSUME NEW T, NEW a \in T, NEW e \in T
  PROVE  << a >> \o << e >> = << a, e >>
<1>1. << a >> \in Seq(T) /\ << e >> \in Seq(T) /\ << a, e >> \in Seq(T)
  OBVIOUS
<1>2. /\ << a >> \o << e >> \in Seq(T)
      /\ Len(<< a >> \o << e >>) = 2
      /\ (<< a >> \o << e >>)[1] = a /\ (<< a >> \o << e >>)[2] = e
  BY <1>1, ConcatProperties
<1>3. Len(<< a, e >>) = 2 /\ << a, e >>[1] = a /\ << a, e >>[2] = e
  OBVIOUS
<1>4. \A i \in 1 .. 2 : i = 1 \/ i = 2
  OBVIOUS
<1>5. \A i \in 1 .. Len(<< a >> \o << e >>) : (<< a >> \o << e >>)[i] = << a, e >>[i]
  BY <1>2, <1>3, <1>4
<1> QED
  BY <1>1, <1>2, <1>3, <1>5, SeqEqual

(* What comes behind the lines that are on their way. *)
LEMMA Behind ==
  ASSUME NEW T, NEW q \in Seq(T), NEW a \in T, NEW e \in T
  PROVE  /\ q \o << >> = q
         /\ q \o << a >> = Append(q, a)
         /\ q \o << a, e >> = Append(Append(q, a), e)
<1>1. << a >> \in Seq(T) /\ << e >> \in Seq(T) /\ Append(q, a) \in Seq(T)
  OBVIOUS
<1>2. \A s \in Seq(T), x \in T : s \o << x >> = Append(s, x)
  BY AppendIsConcat
<1>3. q \o (<< a >> \o << e >>) = (q \o << a >>) \o << e >>
  BY <1>1, ConcatAssociative
<1> QED
  BY <1>1, <1>2, <1>3, OneAndTwo, ConcatEmptySeq

(* What is left of them when they are cut short. *)
LEMMA Beginnings ==
  ASSUME NEW T, NEW a \in T, NEW e \in T
  PROVE  /\ \A n \in 0 .. 1 : SubSeq(<< a >>, 1, n) \in {<< >>, << a >>}
         /\ \A n \in 0 .. 2 : SubSeq(<< a, e >>, 1, n) \in {<< >>, << a >>, << a, e >>}
<1>1. << a >> \in Seq(T) /\ Len(<< a >>) = 1 /\ << a >>[1] = a
  OBVIOUS
<1>2. << a, e >> \in Seq(T) /\ Len(<< a, e >>) = 2 /\ << a, e >>[1] = a
  OBVIOUS
<1>3. SubSeq(<< a >>, 1, 0) = << >> /\ SubSeq(<< a, e >>, 1, 0) = << >>
  BY SubSeqEmpty
<1>4. SubSeq(<< a >>, 1, 1) = << a >> /\ SubSeq(<< a, e >>, 1, 2) = << a, e >>
  BY <1>1, <1>2, SubSeqFull
<1>5. SubSeq(<< a, e >>, 1, 1) = << a >>
  <2>1. \A i \in 1 .. 1 : << a, e >>[i] \in T
    BY <1>2
  <2>2. /\ SubSeq(<< a, e >>, 1, 1) \in Seq(T) /\ Len(SubSeq(<< a, e >>, 1, 1)) = 1
        /\ \A i \in 1 .. 1 : SubSeq(<< a, e >>, 1, 1)[i] = << a, e >>[i]
    BY <2>1, SubSeqProperties
  <2>3. \A i \in 1 .. 1 : SubSeq(<< a, e >>, 1, 1)[i] = << a >>[i]
    BY <1>1, <1>2, <2>2
  <2> QED
    BY <1>1, <2>2, <2>3, SeqEqual
<1> QED
  BY <1>3, <1>4, <1>5

(* A command is answered by lines of its own kind and then a final line.   *)
LEMMA ExecutesSays ==
  ASSUME TypeOK, ActiveIsLast, NEW k, NEW q \in Seq(Lines), Executes(k, q)
  PROVE  Says(k, q)
<1>0. OKLine \in Lines
  BY DEF OKLine, Lines
<1>1. CASE line' \in {q, q \o ERROR}
  <2>1. [kind |-> "ERROR", v |-> 0] \in Lines
    BY DEF Lines
  <2>2. q \o ERROR = Append(q, [kind |-> "ERROR", v |-> 0])
    BY <2>1, Behind DEF ERROR
  <2> QED
    BY <1>1, <2>2 DEF Says
<1>2. CASE \E n \in 0..Len(Accepts(k)) : line' = q \o SubSeq(Accepts(k), 1, n)
  <2>1. \/ Accepts(k) = << OKLine >>
        \/ \E l \in Lines :
             /\ l.kind \in {"CEREG", "CGPADDR", "UPSND", "IP"}
             /\ l.kind = "CEREG" => k = "CEREG"
             /\ l.kind = "IP" => k = "UPSND0" /\ l.v = addresses
             /\ Accepts(k) = << l, OKLine >>
    <3>0. \A l \in Lines : << l >> \o << OKLine >> = << l, OKLine >>
      BY <1>0, OneAndTwo
    <3>1. CASE k = "CEREG"
      <4> DEFINE l == [kind |-> "CEREG", v |-> reg]
      <4>1. l \in Lines
        BY DEF TypeOK, Lines
      <4> QED
        BY <3>0, <3>1, <4>1 DEF Accepts, With, OK, OKLine
    <3>2. CASE k = "CGPADDR"
      <4> DEFINE l == [kind |-> "CGPADDR", v |-> IF RegOK(reg) THEN 1 ELSE 0]
      <4>1. l \in Lines
        BY DEF Lines
      <4> QED
        BY <3>0, <3>2, <4>1 DEF Accepts, With, OK, OKLine
    <3>3. CASE k = "UPSND8"
      <4> DEFINE l == [kind |-> "UPSND", v |-> IF active = NOIP THEN 0 ELSE 1]
      <4>1. l \in Lines
        BY DEF Lines
      <4> QED
        BY <3>0, <3>3, <4>1 DEF Accepts, With, OK, OKLine
    <3>4. CASE k = "UPSND0" /\ active # NOIP
      <4> DEFINE l == [kind |-> "IP", v |-> active]
      <4>1. l \in Lines /\ active = addresses
        BY <3>4 DEF Lines, TypeOK, ActiveIsLast
      <4> QED
        BY <3>0, <3>4, <4>1 DEF Accepts, With, OK, OKLine
    <3>5. CASE k \notin {"CEREG", "CGPADDR", "UPSND8", "UPSND0"}
      BY <3>5 DEF Accepts, OK, OKLine
    <3>6. CASE k = "UPSND0" /\ active = NOIP
      BY <3>6 DEF Accepts, OK, OKLine
    <3> QED
      BY <3>1, <3>2, <3>3, <3>4, <3>5, <3>6
  <2>2. CASE Accepts(k) = << OKLine >>
    <3>1. PICK n \in 0 .. 1 : line' = q \o SubSeq(<< OKLine >>, 1, n)
      BY <1>2, <2>2
    <3>2. SubSeq(<< OKLine >>, 1, n) \in {<< >>, << OKLine >>}
      BY <1>0, Beginnings
    <3>3. q \o << >> = q /\ q \o << OKLine >> = Append(q, OKLine)
      BY <1>0, Behind
    <3> QED
      BY <3>1, <3>2, <3>3 DEF Says, OKLine
  <2>3. ASSUME NEW l \in Lines, Accepts(k) = << l, OKLine >>
        PROVE  line' \in {q, Append(q, l), Append(Append(q, l), OKLine)}
    <3>1. PICK n \in 0 .. 2 : line' = q \o SubSeq(<< l, OKLine >>, 1, n)
      BY <1>2, <2>3
    <3>2. SubSeq(<< l, OKLine >>, 1, n) \in {<< >>, << l >>, << l, OKLine >>}
      BY <1>0, Beginnings
    <3>3. /\ q \o << >> = q /\ q \o << l >> = Append(q, l)
          /\ q \o << l, OKLine >> = Append(Append(q, l), OKLine)
      BY <1>0, Behind
    <3> QED
      BY <3>1, <3>2, <3>3
  <2> QED
    BY <2>1, <2>2, <2>3 DEF Says
<1> QED
  BY <1>1, <1>2 DEF Executes

(* What it says is well formed, and nothing in it can be taken for what    *)
(* another wait is after.                                                  *)
LEMMA SaysWellFormed ==
  ASSUME NEW k, NEW q \in Seq(Lines), QuietIn(q), Says(k, q)
  PROVE  /\ line' \in Seq(Lines)
         /\ FinalLast(line)'
         /\ \A i \in 1 .. Len(line') :
              /\ line'[i].kind = "CEREG" => k = "CEREG"
              /\ line'[i].kind = "IP" => k = "UPSND0" /\ line'[i].v = addresses
<1>1. CASE line' = q
  BY <1>1 DEF QuietIn, FinalLast
<1>2. ASSUME NEW f \in {"OK", "ERROR"}, line' = Append(q, [kind |-> f, v |-> 0])
      PROVE  /\ line' \in Seq(Lines)
             /\ FinalLast(line)'
             /\ \A i \in 1 .. Len(line') : line'[i].kind \notin {"CEREG", "IP"}
  <2> DEFINE l == [kind |-> f, v |-> 0]
  <2>1. l \in Lines /\ l.kind = f
    BY DEF Lines
  <2>2. /\ line' \in Seq(Lines) /\ Len(line') = Len(q) + 1 /\ Len(q) \in Nat
        /\ \A i \in 1 .. Len(q) : line'[i] = q[i]
        /\ line'[Len(q) + 1] = l
    BY <1>2, <2>1
  <2> HIDE DEF l
  <2> QED
    BY <2>1, <2>2 DEF QuietIn, FinalLast, Final
<1>3. ASSUME NEW l \in Lines, l.kind \in {"CEREG", "CGPADDR", "UPSND", "IP"},
             line' \in {Append(q, l), Append(Append(q, l), OKLine)}
      PROVE  /\ line' \in Seq(Lines)
             /\ FinalLast(line)'
             /\ \A i \in 1 .. Len(line') : line'[i] = l \/ line'[i].kind \notin {"CEREG", "IP"}
  <2>1. OKLine \in Lines /\ OKLine.kind = "OK"
    BY DEF Lines, OKLine
  <2>2. Len(q) \in Nat
    OBVIOUS
  <2>3. CASE line' = Append(q, l)
    <3>1. /\ line' \in Seq(Lines) /\ Len(line') = Len(q) + 1
          /\ \A i \in 1 .. Len(q) : line'[i] = q[i]
          /\ line'[Len(q) + 1] = l
      BY <2>3
    <3> QED
      BY <1>3, <2>2, <3>1 DEF QuietIn, FinalLast, Final
  <2>4. CASE line' = Append(Append(q, l), OKLine)
    <3>1. /\ line' \in Seq(Lines) /\ Len(line') = Len(q) + 2
          /\ \A i \in 1 .. Len(q) : line'[i] = q[i]
          /\ line'[Len(q) + 1] = l /\ line'[Len(q) + 2] = OKLine
      BY <2>1, <2>4
    <3> QED
      BY <1>3, <2>1, <2>2, <3>1 DEF QuietIn, FinalLast, Final
  <2> QED
    BY <1>3, <2>3, <2>4
<1> QED
  BY <1>1, <1>2, <1>3 DEF Says, QuietIn

(* A command sent when nothing but +UUPSDD is on its way begins a wait     *)
(* that only its own lines can end.                                        *)
LEMMA CommandAnswers ==
  ASSUME TypeOK, ActiveIsLast, NEW k, NEW q \in Seq(Lines), QuietIn(q), Executes(k, q),
         ret' = "none", at' # "none",
         k = "CEREG" => at' = "cereg", k = "UPSND0" => at' = "ask"
  PROVE  /\ Answers' /\ ActiveIsLast'
         /\ active' \in 0 .. MaxAddress /\ addresses' \in 0 .. MaxAddress
         /\ k # "UPSDA3" => addresses' = addresses
<1>1. /\ active' \in 0 .. MaxAddress /\ addresses' \in 0 .. MaxAddress
      /\ k # "UPSDA3" => addresses' = addresses
      /\ ActiveIsLast'
  BY ConnectionAssumption DEF Executes, Activated, TypeOK, ActiveIsLast, NOIP
<1>2. Says(k, q)
  BY ExecutesSays
<1>3. /\ line' \in Seq(Lines)
      /\ FinalLast(line)'
      /\ \A i \in 1 .. Len(line') :
           /\ line'[i].kind = "CEREG" => k = "CEREG"
           /\ line'[i].kind = "IP" => k = "UPSND0" /\ line'[i].v = addresses
  BY <1>2, SaysWellFormed
<1> QED
  BY <1>1, <1>3 DEF Answers

(* A function that returns leaves only +UUPSDD on their way.               *)
LEMMA ReturnKeeps ==
  ASSUME IndInv, ret # "none", NEW v, Return(v)
  PROVE  /\ op' = "none" /\ at' = "none" /\ arg' = NoArg /\ ret' = "none" /\ got' = 0
         /\ UNCHANGED <<line, active, addresses>>
         /\ Answers' /\ ActiveIsLast'
<1>1. /\ op' = "none" /\ at' = "none" /\ arg' = NoArg /\ ret' = "none" /\ got' = 0
      /\ UNCHANGED <<line, active, addresses>>
  BY DEF Return
<1>2. Answers'
  BY <1>1 DEF IndInv, Answers, QuietIn, FinalLast
<1>3. ActiveIsLast'
  BY <1>1 DEF IndInv, ActiveIsLast
<1> QED
  BY <1>1, <1>2, <1>3

----------------------------------------------------------------------------
(* The locals a call begins with. *)
LEMMA NoArgTyped == NoArg \in ArgSet
<1>1. 0 \in 0..WakeTries /\ 0 \in 0..Settings
  BY ConnectionAssumption
<1> QED
  BY <1>1 DEF NoArg, ArgSet

(* The inductive invariant holds at the start. *)
THEOREM InitInv == Init => IndInv
<1> SUFFICES ASSUME Init PROVE IndInv
  OBVIOUS
<1>1. line = << >> /\ << >> \in Seq(Lines) /\ Len(<< >>) = 0
  BY DEF Init
<1>2. TypeOK
  <2>1. 0 \in 0..WakeTries /\ 0 \in 0..Settings /\ 0 \in 0..MaxAddress
    BY ConnectionAssumption
  <2> QED
    BY <2>1, NoArgTyped DEF Init, TypeOK, Reg, NOIP, ArgSet
<1>3. Answers
  BY <1>1 DEF Answers, QuietIn, FinalLast
<1> QED
  BY <1>2, <1>3 DEF IndInv, Init, ActiveIsLast, InitDone, JoinForgets, NoEarlierAddress,
                    ConnectIsRegistered, JoinWaits

(* A command that follows the end of a wait, or begins a call.             *)
LEMMA CommandKeeps ==
  ASSUME IndInv, at = "none" \/ ret # "none", NEW k, NEW p, p # "none", Command(k, p),
         k = "CEREG" => p = "cereg", k = "UPSND0" => p = "ask"
  PROVE  /\ at' = p /\ ret' = "none" /\ got' = 0
         /\ Answers' /\ ActiveIsLast'
         /\ active' \in 0 .. MaxAddress /\ addresses' \in 0 .. MaxAddress
         /\ k # "UPSDA3" => addresses' = addresses
<1>1. at' = p /\ ret' = "none" /\ got' = 0 /\ Executes(k, line)
  BY DEF Command
<1>2. line \in Seq(Lines) /\ QuietIn(line)
  BY DEF IndInv, Answers
<1> QED
  BY <1>1, <1>2, CommandAnswers DEF IndInv

(* The same for the command that wakes the modem up and purges.            *)
LEMMA WakeKeeps ==
  ASSUME IndInv, Wake
  PROVE  /\ at' = "wake" /\ ret' = "none" /\ got' = 0
         /\ Answers' /\ ActiveIsLast'
         /\ active' \in 0 .. MaxAddress /\ addresses' = addresses
<1>1. at' = "wake" /\ ret' = "none" /\ got' = 0 /\ Executes("AT", << >>)
  BY DEF Wake
<1>2. << >> \in Seq(Lines) /\ QuietIn(<< >>)
  BY DEF QuietIn
<1>3. \A q \in Seq(Lines) : QuietIn(q) /\ Executes("AT", q) =>
        /\ Answers' /\ ActiveIsLast' /\ active' \in 0 .. MaxAddress
        /\ addresses' = addresses
  BY <1>1, CommandAnswers DEF IndInv
<1> QED
  BY <1>1, <1>2, <1>3

(* The locals of a call keep their ranges. *)
LEMMA ArgUpdates ==
  \A r \in ArgSet :
    /\ \A n \in 0..WakeTries : [r EXCEPT !.tries = n] \in ArgSet
    /\ \A n \in 0..Settings : [r EXCEPT !.settings = n] \in ArgSet
    /\ \A n \in 0..Settings, x \in BOOLEAN :
         [r EXCEPT !.login = x, !.settings = n] \in ArgSet
<1>1. \A r \in ArgSet, n \in 0..WakeTries : [r EXCEPT !.tries = n] \in ArgSet
  BY DEF ArgSet
<1>2. \A r \in ArgSet, n \in 0..Settings : [r EXCEPT !.settings = n] \in ArgSet
  BY DEF ArgSet
<1>3. \A r \in ArgSet, n \in 0..Settings, x \in BOOLEAN :
         [r EXCEPT !.login = x, !.settings = n] \in ArgSet
  BY DEF ArgSet
<1> QED
  BY <1>1, <1>2, <1>3

(* join and connect begin with arguments in their ranges. *)
LEMMA ArgumentsTyped == Arguments \subseteq ArgSet
<1>1. 1 \in 0..Settings /\ Settings \in 0..Settings
  BY ConnectionAssumption
<1>2. \A x \in BOOLEAN : [NoArg EXCEPT !.login = x, !.settings = 1] \in ArgSet
  BY <1>1, NoArgTyped, ArgUpdates
<1>3. [NoArg EXCEPT !.settings = Settings] \in ArgSet
  BY <1>1, NoArgTyped, ArgUpdates
<1> QED
  BY <1>2, <1>3 DEF Arguments

(* A line is taken, or none has come (MDM.cpp:155-374).                     *)
LEMMA WaitLineStep ==
  ASSUME IndInv, WaitLine
  PROVE  IndInv'
<1> DEFINE l == line[1]
<1>1. /\ at # "none" /\ ret = "none" /\ line # << >>
      /\ line' = Tail(line)
      /\ eps' = IF l.kind = "CEREG" THEN l.v ELSE eps
      /\ ip' = CbUPSND(l) /\ got' = Callback(l)
      /\ ret' = IF l.kind \in Final THEN l.kind ELSE "none"
      /\ UNCHANGED <<init, op, at, arg, reg, active, addresses>>
  BY DEF WaitLine, modem, IndInv, Answers
<1>2. /\ line' \in Seq(Lines) /\ Len(line') = Len(line) - 1 /\ Len(line) \in Nat \ {0}
      /\ \A i \in 1 .. Len(line') : line'[i] = line[i + 1]
      /\ l \in Lines
  BY <1>1 DEF IndInv, Answers
<1>3. Answers'
  <2>1. FinalLast(line)'
    BY <1>2 DEF IndInv, Answers, FinalLast
  <2>2. ASSUME ret' # "none" PROVE QuietIn(line)'
    <3>1. l.kind \in Final
      BY <1>1, <2>2
    <3> QED
      BY <1>2, <3>1 DEF IndInv, Answers, FinalLast, QuietIn
  <2>3. \A i \in 1 .. Len(line') :
          /\ line'[i].kind = "CEREG" => at' = "cereg"
          /\ line'[i].kind = "IP" => at' = "ask" /\ line'[i].v = addresses'
    BY <1>1, <1>2 DEF IndInv, Answers
  <2> QED
    BY <1>1, <1>2, <2>1, <2>2, <2>3 DEF Answers
<1>4. /\ l.kind = "CEREG" => l.v \in Reg
      /\ l.kind \in {"CGPADDR", "UPSND"} => l.v \in {0, 1}
      /\ l.kind = "CEREG" => at = "cereg"
      /\ l.kind = "IP" => at = "ask" /\ l.v = addresses
  BY <1>2 DEF Lines, IndInv, Answers
<1>5. ip' \in {NOIP, ip} \/ (ip' = addresses /\ at = "ask")
  BY <1>1, <1>4 DEF CbUPSND, Unsolicited
<1>6. got' \in {0, 1}
  BY <1>1, <1>4 DEF Callback, IndInv, TypeOK
<1>7. eps' \in Reg /\ (at # "cereg" => eps' = eps)
  BY <1>1, <1>4 DEF IndInv, TypeOK
<1>8. ret' \in {"none", "WAIT"} \cup Final
  BY <1>1
<1>9. TypeOK'
  BY <1>1, <1>5, <1>6, <1>7, <1>8, ConnectionAssumption DEF IndInv, TypeOK, NOIP
<1>10. /\ ActiveIsLast' /\ InitDone' /\ JoinForgets' /\ NoEarlierAddress'
  BY <1>1, <1>5 DEF IndInv, ActiveIsLast, InitDone, JoinForgets, NoEarlierAddress
<1>11. ConnectIsRegistered'
  BY <1>1, <1>7 DEF IndInv, ConnectIsRegistered, JoinWaits
<1> QED
  BY <1>3, <1>9, <1>10, <1>11 DEF IndInv

(* The wait ends without an answer (MDM.cpp:372-374). *)
LEMMA WaitTimeoutStep ==
  ASSUME IndInv, WaitTimeout
  PROVE  IndInv'
<1>1. /\ line = << >> /\ ret' = "WAIT"
      /\ UNCHANGED <<init, eps, ip, op, at, arg, got, line, reg, active, addresses>>
  BY DEF WaitTimeout, modem
<1>2. Len(line') = 0
  BY <1>1
<1> QED
  BY <1>1, <1>2 DEF IndInv, TypeOK, Answers, QuietIn, FinalLast, ActiveIsLast, InitDone,
                    JoinForgets, NoEarlierAddress, ConnectIsRegistered

(* init (MDM.cpp:400-536), and the beginning of CellInterface::connect.     *)
LEMMA AwakeningSteps ==
  ASSUME IndInv, InitCall \/ CellConnect \/ WakeAgain \/ Awake \/ InitSteps
  PROVE  IndInv'
<1> USE DEF IndInv, TypeOK, ArgSet
<1>1. ASSUME Wake, arg' \in ArgSet,
             init' \in BOOLEAN, eps' \in Reg, ip' \in {NOIP, ip}, reg' = reg,
             op' \in {"init", "connect", "disconnect", "join", "cell", "powerOff"}
      PROVE  IndInv'
  BY <1>1, WakeKeeps, ConnectionAssumption
     DEF InitDone, JoinForgets, NoEarlierAddress, ConnectIsRegistered, JoinWaits, NOIP
<1>2. [NoArg EXCEPT !.tries = WakeTries] \in ArgSet
  <2>1. WakeTries \in 0..WakeTries
    BY ConnectionAssumption
  <2> QED
    BY <2>1, NoArgTyped, ArgUpdates
<1>3. ASSUME NEW k \in {"AT", "COPS", "CEREG", "CGPADDR"},
             NEW p \in {"setup", "cops", "cereg", "addr"},
             Command(k, p), k = "CEREG" => p = "cereg", at = "none" \/ ret # "none",
             init', arg' = arg, UNCHANGED <<eps, ip, reg>>, init' \in BOOLEAN,
             op' \in {"init", "connect", "disconnect", "join", "cell", "powerOff"}
      PROVE  IndInv'
  BY <1>3, CommandKeeps
     DEF InitDone, JoinForgets, NoEarlierAddress, ConnectIsRegistered, JoinWaits
<1>4. CASE InitCall
  <2>1. CASE Wake /\ arg' = [NoArg EXCEPT !.tries = WakeTries] /\ UNCHANGED init
    BY <1>1, <1>2, <1>4, <2>1, ConnectionAssumption DEF InitCall
  <2>2. CASE Setup /\ UNCHANGED arg
    BY <1>3, <1>4, <2>2 DEF InitCall, Setup
  <2> QED
    BY <1>4, <2>1, <2>2 DEF InitCall
<1>5. CASE CellConnect
  BY <1>1, <1>2, <1>5 DEF CellConnect, Reg
<1>6. CASE WakeAgain
  <2>1. Wake /\ arg' = [arg EXCEPT !.tries = @ - 1] /\ arg.tries > 1
        /\ UNCHANGED <<init, eps, ip, op, reg>> /\ op # "none"
    BY <1>6 DEF WakeAgain, Answered
  <2>2. arg' \in ArgSet
    BY <2>1, ConnectionAssumption
  <2> QED
    BY <1>1, <2>1, <2>2
<1>7. CASE Awake
  BY <1>7 DEF Awake, Answered, modem, Answers, QuietIn, FinalLast, ActiveIsLast, InitDone,
              JoinForgets, NoEarlierAddress, ConnectIsRegistered, JoinWaits
<1>8. CASE InitSteps
  BY <1>3, <1>8 DEF InitSteps, Setup, Answered, InitDone
<1> QED
  BY <1>4, <1>5, <1>6, <1>7, <1>8

(* join (MDM.cpp:769-986) from the attachment to the activated profile.     *)
LEMMA JoinSteps ==
  ASSUME IndInv,
         JoinCall \/ JoinAttached \/ JoinDetaches \/ ActivateProfile \/ TryProtocol
         \/ Activate \/ AskAddress
  PROVE  IndInv'
<1> USE DEF IndInv, TypeOK, ArgSet
<1>1. ASSUME NEW k \in {"CGATT", "UPSND8", "UPSDA4", "UPSD", "UPSD6", "UPSDA3", "UPSND0"},
             NEW p \in JoinWaits,
             Command(k, p), k = "UPSND0" => p = "ask", k = "UPSDA3" => p # "ask",
             at = "none" \/ ret # "none",
             arg' \in ArgSet,
             UNCHANGED <<init, eps, reg>>, ip' = NOIP,
             op' \in {"init", "connect", "disconnect", "join", "cell", "powerOff"},
             op' = "join" \/ (op' = op /\ at \in JoinWaits)
      PROVE  IndInv'
  <2>1. p # "none" /\ p \notin {"setup", "cops", "cereg", "addr"}
    BY <1>1 DEF JoinWaits
  <2> QED
    BY <1>1, <2>1, CommandKeeps, ConnectionAssumption
       DEF InitDone, JoinForgets, NoEarlierAddress, ConnectIsRegistered, NOIP
<1>2. CASE JoinCall
  <2>1. \A a \in Arguments : a \in ArgSet
    BY ArgumentsTyped
  <2> QED
    BY <1>1, <1>2, <2>1 DEF JoinCall, JoinStarts, JoinWaits
<1>3. CASE JoinAttached
  BY <1>1, <1>3 DEF JoinAttached, Answered, JoinWaits, JoinForgets
<1>4. CASE JoinDetaches
  BY <1>1, <1>4 DEF JoinDetaches, Answered, JoinWaits, JoinForgets
<1>5. CASE ActivateProfile
  <2>1. /\ at \in JoinWaits \ {"ask"} /\ ret # "none"
        /\ arg' = arg \/ (arg.settings > 1 /\ arg' = [arg EXCEPT !.settings = @ - 1])
        /\ Command("UPSD", "upsd")
        /\ UNCHANGED <<init, eps, ip, op, reg>>
    BY <1>5 DEF ActivateProfile, ConfigFails, Answered, JoinWaits
  <2>2. arg' \in ArgSet
    BY <2>1, ConnectionAssumption
  <2> QED
    BY <1>1, <2>1, <2>2 DEF JoinWaits, JoinForgets
<1>6. CASE TryProtocol
  <2>1. /\ at \in JoinWaits \ {"ask"} /\ ret # "none"
        /\ \/ \E n \in {1, 3} : arg' = [arg EXCEPT !.protocols = n]
           \/ arg.protocols > 1 /\ arg' = [arg EXCEPT !.protocols = @ - 1]
        /\ Command("UPSD6", "auth")
        /\ UNCHANGED <<init, eps, ip, op, reg>>
    BY <1>6 DEF TryProtocol, Answered, JoinWaits
  <2>2. arg' \in ArgSet
    BY <2>1
  <2> QED
    BY <1>1, <2>1, <2>2 DEF JoinWaits, JoinForgets
<1>7. CASE Activate
  BY <1>1, <1>7 DEF Activate, Answered, JoinWaits, JoinForgets
<1>8. CASE AskAddress
  BY <1>1, <1>8 DEF AskAddress, Answered, JoinWaits, JoinForgets
<1> QED
  BY <1>2, <1>3, <1>4, <1>5, <1>6, <1>7, <1>8

(* What is done in one step after a registration that has been heard of.   *)
LEMMA RegistersStep ==
  ASSUME IndInv, ConnectRegisters
  PROVE  IndInv'
<1> USE DEF IndInv, TypeOK, ArgSet
<1>1. /\ at = "addr" /\ ret # "none" /\ op \in {"connect", "cell"} /\ init
      /\ UNCHANGED <<init, eps, reg>>
  BY DEF ConnectRegisters, Answered, InitDone
<1>2. CASE /\ RegisterNet
           /\ JoinStarts(IF op = "cell" THEN CellArguments ELSE Arguments)
           /\ UNCHANGED <<op, result>>
  <2>1. /\ RegOK(eps) /\ ip' = NOIP /\ Command("CGATT", "attach") /\ arg' \in Arguments
    BY <1>2 DEF RegisterNet, CheckNetStatus, JoinStarts, CellArguments
  <2>2. arg' \in ArgSet
    BY <2>1, ArgumentsTyped
  <2>3. /\ at' = "attach" /\ ret' = "none" /\ got' = 0
        /\ Answers' /\ ActiveIsLast'
        /\ active' \in 0 .. MaxAddress /\ addresses' = addresses
    BY <1>1, <2>1, CommandKeeps
  <2> QED
    BY <1>1, <1>2, <2>1, <2>2, <2>3, ConnectionAssumption
       DEF InitDone, JoinForgets, NoEarlierAddress, ConnectIsRegistered, NOIP, JoinWaits
<1>3. CASE ~RegisterNet /\ Return(0) /\ UNCHANGED ip
  BY <1>1, <1>3, ReturnKeeps, NoArgTyped
     DEF InitDone, JoinForgets, NoEarlierAddress, ConnectIsRegistered, JoinWaits
<1> QED
  BY <1>2, <1>3 DEF ConnectRegisters

(* The functions return.                                                   *)
LEMMA ReturnSteps ==
  ASSUME IndInv,
         InitFails \/ InitSucceeds \/ JoinFails \/ JoinSucceeds \/ DisconnectDone
         \/ PowerOffDone
  PROVE  IndInv'
<1> USE DEF IndInv, TypeOK, ArgSet
<1>1. ASSUME NEW v, Return(v), ret # "none", UNCHANGED <<eps, reg>>,
             init' \in BOOLEAN, ip' \in {NOIP, ip}
      PROVE  IndInv'
  BY <1>1, ReturnKeeps, NoArgTyped, ConnectionAssumption
     DEF InitDone, JoinForgets, NoEarlierAddress, ConnectIsRegistered, JoinWaits, NOIP
<1>2. CASE InitFails
  BY <1>1, <1>2 DEF InitFails, Answered
<1>3. CASE InitSucceeds
  BY <1>1, <1>3 DEF InitSucceeds, Answered
<1>4. CASE JoinFails
  BY <1>1, <1>4 DEF JoinFails, ConfigFails
<1>5. CASE JoinSucceeds
  BY <1>1, <1>5 DEF JoinSucceeds, Answered
<1>6. CASE DisconnectDone
  BY <1>1, <1>6 DEF DisconnectDone, Answered
<1>7. CASE PowerOffDone
  BY <1>1, <1>7 DEF PowerOffDone, Answered
<1> QED
  BY <1>2, <1>3, <1>4, <1>5, <1>6, <1>7

(* The calls of disconnect, powerOff and registerNet.                      *)
LEMMA CallSteps ==
  ASSUME IndInv, NetCall \/ Disconnect \/ PowerOff
  PROVE  IndInv'
<1> USE DEF IndInv, TypeOK, ArgSet
<1>1. CASE NetCall
  BY <1>1 DEF NetCall, modem, Answers, QuietIn, FinalLast, ActiveIsLast, InitDone,
              JoinForgets, NoEarlierAddress, ConnectIsRegistered, JoinWaits
<1>2. CASE Disconnect
  BY <1>2, CommandKeeps DEF Disconnect, InitDone, JoinForgets, NoEarlierAddress,
                            ConnectIsRegistered, JoinWaits
<1>3. CASE PowerOff
  BY <1>3, CommandKeeps DEF PowerOff, InitDone, JoinForgets, NoEarlierAddress,
                            ConnectIsRegistered, JoinWaits
<1> QED
  BY <1>1, <1>2, <1>3

(* The network: another registration, or the profile is taken away.        *)
LEMMA NetworkSteps ==
  ASSUME IndInv, RegChanges \/ Deactivates
  PROVE  IndInv'
<1> USE DEF IndInv, TypeOK, ArgSet
<1>1. CASE RegChanges
  BY <1>1 DEF RegChanges, Reg, Answers, QuietIn, FinalLast, ActiveIsLast, InitDone,
              JoinForgets, NoEarlierAddress, ConnectIsRegistered
<1>2. CASE Deactivates
  <2> DEFINE l == [kind |-> "UUPSDD", v |-> 0]
  <2>1. l \in Lines /\ l.kind = "UUPSDD"
    BY DEF Lines
  <2>2. /\ line' = Append(line, l) /\ active' = NOIP
        /\ UNCHANGED <<init, eps, ip, op, at, arg, ret, got, reg, addresses>>
    BY <1>2 DEF Deactivates
  <2>3. /\ line' \in Seq(Lines) /\ Len(line') = Len(line) + 1 /\ Len(line) \in Nat
        /\ \A i \in 1 .. Len(line) : line'[i] = line[i]
        /\ line'[Len(line) + 1] = l
    BY <2>1, <2>2 DEF Answers
  <2> HIDE DEF l
  <2>4. \A i \in 1 .. Len(line') : i \in 1 .. Len(line) \/ line'[i] = l
    BY <2>3
  <2>5. Answers'
    BY <2>1, <2>2, <2>3, <2>4 DEF Answers, QuietIn, FinalLast, Final
  <2> QED
    BY <2>2, <2>5, ConnectionAssumption
       DEF ActiveIsLast, InitDone, JoinForgets, NoEarlierAddress, ConnectIsRegistered, NOIP
<1> QED
  BY <1>1, <1>2

----------------------------------------------------------------------------
(* Every step of the driver, the modem and the network keeps the invariant. *)
THEOREM StepInv == IndInv /\ [Next]_vars => IndInv'
<1> SUFFICES ASSUME IndInv, [Next]_vars PROVE IndInv'
  OBVIOUS
<1>1. CASE UNCHANGED vars
  BY <1>1 DEF vars, modem, IndInv, TypeOK, Answers, QuietIn, FinalLast, ActiveIsLast,
              InitDone, JoinForgets, NoEarlierAddress, ConnectIsRegistered
<1>2. CASE Driver
  BY <1>2, WaitLineStep, WaitTimeoutStep, AwakeningSteps, JoinSteps, RegistersStep, ReturnSteps
     DEF Driver
<1>3. CASE Call
  BY <1>3, AwakeningSteps, JoinSteps, CallSteps DEF Call
<1>4. CASE RegChanges \/ Deactivates
  BY <1>4, NetworkSteps
<1> QED
  BY <1>1, <1>2, <1>3, <1>4 DEF Next

(* The inductive invariant holds in every reachable state. *)
THEOREM Invariance == Spec => []IndInv
<1>1. Init => IndInv
  BY InitInv
<1>2. IndInv /\ [Next]_vars => IndInv'
  BY StepInv
<1> QED
  BY <1>1, <1>2, PTL DEF Spec

(* The driver's fields and the locals of its functions have their ranges;   *)
(* in particular no try, setting or protocol is counted below zero.        *)
THEOREM TypeCorrect == Spec => []TypeOK
<1>1. IndInv => TypeOK
  BY DEF IndInv
<1> QED
  BY <1>1, Invariance, PTL

(* _ip, which getIpAddress returns, is the address of the last activation  *)
(* or none, whatever fails, is cut short or is not answered.               *)
THEOREM AddressIsCurrent == Spec => []NoEarlierAddress
<1>1. IndInv => NoEarlierAddress
  BY DEF IndInv
<1> QED
  BY <1>1, Invariance, PTL

(* connect attaches and activates only when init has succeeded and the     *)
(* last registration status heard says registered.                         *)
THEOREM ConnectsWhenRegistered == Spec => []ConnectIsRegistered
<1>1. IndInv => ConnectIsRegistered
  BY DEF IndInv
<1> QED
  BY <1>1, Invariance, PTL
=============================================================================
