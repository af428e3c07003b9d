-------------------------- MODULE SerialPipeProofs --------------------------
(***************************************************************************)
(* Proofs about SerialPipe for every capacity of the pipes and of the UART *)
(* and every length of the calls: the types, that bytes leave and are read *)
(* in their order, and that no byte waits for an interrupt that is off.    *)
(*                                                                         *)
(* Nothing in the order of the bytes says who may take the next one out of *)
(* the transmit pipe.  Owner does: while the thread copies, the interrupt  *)
(* is off, and while the interrupt routine runs it is on.  Taken and Sent  *)
(* follow a byte that the thread has taken out of the pipe and not yet     *)
(* given to the transmitter.                                               *)
(***************************************************************************)
EXTENDS SerialPipe, SequenceTheorems, TLAPS

Writing == {"put", "txStart", "txCopy", "txTake", "txOut"}
Copying == {"txCopy", "txTake", "txOut"}

(* What a call still has to put is within the bound of the model.          *)
Room ==
  /\ pc \in Writing => acc + count <= MaxTx
  /\ pc = "putc" => acc < MaxTx /\ count = 0

Owner ==
  /\ isr = "tx" => txIrq
  /\ pc \in Copying => ~txIrq

Taken ==
  /\ pc = "txTake" => r0 = txr /\ c = txr + 1 /\ txr < acc
  /\ pc = "txOut"  => c = txr /\ txr > 0

Sent ==
  /\ Len(wire) + Len(hw) = IF pc = "txOut" THEN txr - 1 ELSE txr
  /\ \A k \in 1 .. Len(wire) : wire[k] = k
  /\ \A k \in 1 .. Len(hw) : hw[k] = Len(wire) + k

(* TxArmed, whatever interrupt routine is running.                         *)
Armed ==
  (Stored > 0 /\ (pc \in {"idle", "putc", "get"} \/ (pc = "put" /\ ~written))) => txIrq

Rising(s)    == \A i, j \in 1 .. Len(s) : i < j => s[i] < s[j]
Before(s, t) == \A i \in 1 .. Len(s), j \in 1 .. Len(t) : s[i] < t[j]
UpTo(s, n)   == \A i \in 1 .. Len(s) : s[i] <= n

(* The bytes read, those in the pipe and those in the receiver.            *)
Received ==
  /\ Rising(got) /\ Rising(rxq) /\ Rising(hwRx)
  /\ Before(got, rxq) /\ Before(got, hwRx) /\ Before(rxq, hwRx)
  /\ UpTo(got, arrived) /\ UpTo(rxq, arrived) /\ UpTo(hwRx, arrived)

IndInv == TypeOK /\ Room /\ Owner /\ Taken /\ Sent /\ Armed /\ Received

----------------------------------------------------------------------------
(* The inductive invariant holds at the start. *)
THEOREM InitInv == Init => IndInv
<1> SUFFICES ASSUME Init PROVE IndInv
  OBVIOUS
<1>1. /\ << >> \in Seq(Nat) /\ Len(<< >>) = 0
      /\ hw = << >> /\ wire = << >> /\ hwRx = << >> /\ rxq = << >> /\ got = << >>
  BY DEF Init
<1>2. blocking \in BOOLEAN /\ written \in BOOLEAN /\ txIrq \in BOOLEAN
  BY DEF Init
<1>3. /\ pc = "idle" /\ count = 0 /\ r0 = 0 /\ c = 0 /\ acc = 0 /\ txr = 0
      /\ isr = "none" /\ arrived = 0
  BY DEF Init
<1>4. TypeOK
  BY <1>1, <1>2, <1>3, SerialAssumption DEF TypeOK, Stored
<1>5. Room /\ Owner /\ Taken /\ Sent /\ Armed
  BY <1>1 DEF Init, Stored, Room, Writing, Owner, Copying, Taken, Sent, Armed
<1>6. Received
  BY <1>1 DEF Received, Rising, Before, UpTo
<1> QED
  BY <1>4, <1>5, <1>6 DEF IndInv

(* The calls, and what put does with the pipe (SerialPipe.cpp:24-52).       *)
LEMMA PutSteps ==
  ASSUME IndInv,
         \/ \E n \in 1 .. MaxPut, b \in BOOLEAN : PutCall(n, b)
         \/ PutcCall \/ PutChunk \/ PutReturned \/ Putc
  PROVE  IndInv'
<1> USE SerialAssumption
    DEF IndInv, TypeOK, Stored, Running, Room, Writing, Owner, Copying, Taken, Sent, Armed,
        Received, tx, rx, call
<1>1. ASSUME NEW n \in 1 .. MaxPut, NEW b \in BOOLEAN, PutCall(n, b)
      PROVE  IndInv'
  <2>1. blocking' \in BOOLEAN
    BY <1>1 DEF PutCall
  <2>2. /\ pc = "idle" /\ pc' = "put" /\ count' = n /\ ~written' /\ acc + n <= MaxTx
        /\ UNCHANGED <<r0, c, tx, isr, rx>>
    BY <1>1 DEF PutCall
  <2>3. written' \in BOOLEAN
    BY <1>1 DEF PutCall
  <2> QED
    BY <2>1, <2>2, <2>3
<1>2. CASE PutcCall
  BY <1>2 DEF PutcCall
<1>3. CASE PutChunk
  <2>1. PICK f \in 1 .. Least(count, TxCap - Stored) :
          acc' = acc + f /\ count' = count - f
    BY <1>3 DEF PutChunk
  <2>2. f \in Nat \ {0} /\ f <= count /\ f <= TxCap - Stored
    BY <2>1 DEF Least
  <2> QED
    BY <1>3, <2>1, <2>2 DEF PutChunk
<1>4. CASE PutReturned
  BY <1>4 DEF PutReturned
<1>5. CASE Putc
  BY <1>5 DEF Putc
<1> QED
  BY <1>1, <1>2, <1>3, <1>4, <1>5

(* A byte that goes to the transmitter keeps the order, if it is the next.  *)
LEMMA TransmitterGets ==
  ASSUME hw \in Seq(Nat), wire \in Seq(Nat), NEW b \in Nat, b = Len(wire) + Len(hw) + 1,
         hw' = Append(hw, b), wire' = wire,
         \A k \in 1 .. Len(hw) : hw[k] = Len(wire) + k
  PROVE  /\ hw' \in Seq(Nat) /\ Len(hw') = Len(hw) + 1
         /\ \A k \in 1 .. Len(hw') : hw'[k] = Len(wire') + k
<1>1. /\ hw' \in Seq(Nat) /\ Len(hw') = Len(hw) + 1 /\ hw'[Len(hw) + 1] = b
      /\ \A k \in 1 .. Len(hw) : hw'[k] = hw[k]
  BY AppendProperties
<1>2. Len(hw) \in Nat /\ Len(wire) \in Nat
  OBVIOUS
<1>3. ASSUME NEW k \in 1 .. Len(hw') PROVE hw'[k] = Len(wire) + k
  <2>1. CASE k \in 1 .. Len(hw)
    BY <1>1, <2>1
  <2>2. CASE k = Len(hw) + 1
    BY <1>1, <1>2, <2>2
  <2> QED
    BY <1>1, <1>2, <2>1, <2>2
<1> QED
  BY <1>1, <1>3

(* txStart in the thread (SerialPipe.cpp:54-79).                           *)
LEMMA TxSteps ==
  ASSUME IndInv, TxDetach \/ TxLoad \/ TxTake \/ TxOut \/ TxAttach
  PROVE  IndInv'
<1> USE SerialAssumption
    DEF IndInv, TypeOK, Stored, Running, HwReady, Room, Writing, Owner, Copying, Taken, Armed,
        Received, tx, rx, call
<1>1. CASE TxDetach
  BY <1>1 DEF TxDetach, Sent
<1>2. CASE TxLoad
  BY <1>2 DEF TxLoad, Sent
<1>3. CASE TxTake
  BY <1>3 DEF TxTake, Sent
<1>4. CASE TxOut
  <2>1. Sent'
    <3>1. /\ hw' = Append(hw, c) /\ pc' = "txCopy" /\ wire' = wire /\ txr' = txr
          /\ c = txr /\ Len(wire) + Len(hw) = txr - 1
      BY <1>4 DEF TxOut, Sent
    <3>2. Len(hw) \in Nat /\ Len(wire) \in Nat /\ c \in Nat
      OBVIOUS
    <3>3. c = Len(wire) + Len(hw) + 1
      BY <3>1, <3>2
    <3>4. /\ Len(hw') = Len(hw) + 1
          /\ \A k \in 1 .. Len(hw') : hw'[k] = Len(wire') + k
      BY <3>1, <3>2, <3>3, TransmitterGets DEF Sent
    <3> QED
      BY <3>1, <3>2, <3>4 DEF Sent
  <2>2. hw' \in Seq(Nat) /\ Len(hw') <= HwCap
    BY <1>4 DEF TxOut
  <2> QED
    BY <1>4, <2>1, <2>2 DEF TxOut
<1>5. CASE TxAttach
  <2>1. txIrq' \in BOOLEAN
    BY <1>5 DEF TxAttach
  <2> QED
    BY <1>5, <2>1 DEF TxAttach, Sent
<1> QED
  BY <1>1, <1>2, <1>3, <1>4, <1>5
(* txCopy in the interrupt routine, and how it comes and goes.             *)
LEMMA TxIrqSteps ==
  ASSUME IndInv, TxIrqFires \/ TxIrqCopy \/ TxIrqReturn
  PROVE  IndInv'
<1> USE SerialAssumption
    DEF IndInv, TypeOK, Stored, HwReady, Room, Writing, Owner, Copying, Taken, Armed,
        Received, tx, rx, call
<1>1. CASE TxIrqFires
  BY <1>1 DEF TxIrqFires, Sent
<1>2. CASE TxIrqCopy
  <2>1. /\ hw' = Append(hw, txr + 1) /\ txr' = txr + 1 /\ pc' = pc /\ wire' = wire
        /\ pc \notin Copying
    BY <1>2 DEF TxIrqCopy
  <2>2. Sent' /\ hw' \in Seq(Nat) /\ Len(hw') = Len(hw) + 1
    BY <2>1, TransmitterGets DEF Sent
  <2> QED
    BY <1>2, <2>1, <2>2 DEF TxIrqCopy
<1>3. CASE TxIrqReturn
  <2>1. txIrq' \in BOOLEAN
    BY <1>3 DEF TxIrqReturn
  <2> QED
    BY <1>3, <2>1 DEF TxIrqReturn, Sent
<1> QED
  BY <1>1, <1>2, <1>3

(* The transmitter sends the byte it has held longest.                     *)
LEMMA TransmitStep ==
  ASSUME IndInv, Transmit
  PROVE  IndInv'
<1> USE DEF IndInv
<1>1. /\ hw \in Seq(Nat) /\ wire \in Seq(Nat) /\ hw # << >>
      /\ wire' = Append(wire, Head(hw)) /\ hw' = Tail(hw)
      /\ UNCHANGED <<pc, call, acc, txr, txIrq, isr, rx>>
  BY DEF Transmit, TypeOK
<1>2. /\ Head(hw) = hw[1] /\ hw[1] \in Nat
      /\ hw' \in Seq(Nat) /\ Len(hw') = Len(hw) - 1 /\ Len(hw) \in Nat \ {0}
      /\ \A k \in 1 .. Len(hw') : hw'[k] = hw[k + 1]
  BY <1>1, HeadTailProperties
<1>3. /\ wire' \in Seq(Nat) /\ Len(wire') = Len(wire) + 1 /\ wire'[Len(wire) + 1] = hw[1]
      /\ \A k \in 1 .. Len(wire) : wire'[k] = wire[k]
  BY <1>1, <1>2, AppendProperties
<1>4. Sent'
  <2>1. hw[1] = Len(wire) + 1 /\ Len(wire) \in Nat
    BY <1>1, <1>2 DEF Sent
  <2>2. \A k \in 1 .. Len(wire') : k \in 1 .. Len(wire) \/ k = Len(wire) + 1
    BY <1>3, <2>1
  <2>3. \A k \in 1 .. Len(wire') : wire'[k] = k
    BY <1>3, <2>1, <2>2 DEF Sent
  <2>4. \A k \in 1 .. Len(hw') : hw'[k] = Len(wire') + k
    BY <1>2, <1>3, <2>1 DEF Sent
  <2> QED
    BY <1>1, <1>2, <1>3, <2>1, <2>3, <2>4 DEF Sent
<1>5. TypeOK'
  BY <1>1, <1>2, <1>3, SerialAssumption DEF TypeOK, Stored, call, rx
<1> QED
  BY <1>1, <1>4, <1>5 DEF Room, Owner, Taken, Armed, Received, Stored, call, rx
----------------------------------------------------------------------------
(* The receive side moves bytes from one sequence to the next.             *)

(* The parts of a rising sequence.                                         *)
LEMMA RisingParts ==
  ASSUME NEW q \in Seq(Nat), NEW f \in 0 .. Len(q), Rising(q)
  PROVE  LET a == SubSeq(q, 1, f)  b == SubSeq(q, f + 1, Len(q)) IN
         /\ a \in Seq(Nat) /\ b \in Seq(Nat)
         /\ Len(a) = f /\ Len(b) = Len(q) - f
         /\ Rising(a) /\ Rising(b) /\ Before(a, b)
         /\ \A i \in 1 .. Len(a) : a[i] = q[i]
         /\ \A i \in 1 .. Len(b) : b[i] = q[f + i]
<1> DEFINE a == SubSeq(q, 1, f)
           b == SubSeq(q, f + 1, Len(q))
<1>1. Len(q) \in Nat /\ \A i \in 1 .. Len(q) : q[i] \in Nat
  OBVIOUS
<1>2. /\ a \in Seq(Nat) /\ Len(a) = f
      /\ \A i \in 1 .. Len(a) : a[i] = q[i]
  BY <1>1, SubSeqProperties
<1>3. /\ b \in Seq(Nat) /\ Len(b) = Len(q) - f
      /\ \A i \in 1 .. Len(b) : b[i] = q[f + i]
  BY <1>1, SubSeqProperties
<1> HIDE DEF a, b
<1>4. Rising(a)
  <2>1. \A i \in 1 .. Len(a) : i \in 1 .. Len(q)
    BY <1>1, <1>2
  <2> QED
    BY <1>2, <2>1 DEF Rising
<1>5. Rising(b)
  <2>1. \A i \in 1 .. Len(b) : f + i \in 1 .. Len(q)
    BY <1>1, <1>3
  <2>2. ASSUME NEW i \in 1 .. Len(b), NEW j \in 1 .. Len(b), i < j
        PROVE  b[i] < b[j]
    <3>1. f + i < f + j
      BY <1>1, <1>3, <2>2
    <3> QED
      BY <1>3, <2>1, <3>1 DEF Rising
  <2> QED
    BY <2>2 DEF Rising
<1>6. Before(a, b)
  <2>1. ASSUME NEW i \in 1 .. Len(a), NEW j \in 1 .. Len(b)
        PROVE  a[i] < b[j]
    <3>1. i \in 1 .. Len(q) /\ f + j \in 1 .. Len(q) /\ i < f + j
      BY <1>1, <1>2, <1>3
    <3>2. q[i] < q[f + j]
      BY <3>1 DEF Rising
    <3> QED
      BY <1>2, <1>3, <3>2
  <2> QED
    BY <2>1 DEF Before
<1> QED
  BY <1>2, <1>3, <1>4, <1>5, <1>6 DEF a, b

(* A rising sequence behind another one.                                   *)
LEMMA RisingJoin ==
  ASSUME NEW s \in Seq(Nat), NEW t \in Seq(Nat), Rising(s), Rising(t), Before(s, t)
  PROVE  s \o t \in Seq(Nat) /\ Rising(s \o t)
<1>1. /\ s \o t \in Seq(Nat) /\ Len(s \o t) = Len(s) + Len(t)
      /\ \A i \in 1 .. Len(s) + Len(t) :
           (s \o t)[i] = IF i <= Len(s) THEN s[i] ELSE t[i - Len(s)]
  BY ConcatProperties
<1>2. Len(s) \in Nat /\ Len(t) \in Nat
  OBVIOUS
<1>3. ASSUME NEW i \in 1 .. Len(s) + Len(t), NEW j \in 1 .. Len(s) + Len(t), i < j
      PROVE  (s \o t)[i] < (s \o t)[j]
  <2>1. CASE j <= Len(s)
    BY <1>1, <1>2, <1>3, <2>1 DEF Rising
  <2>2. CASE i <= Len(s) /\ j > Len(s)
    <3>1. i \in 1 .. Len(s) /\ j - Len(s) \in 1 .. Len(t)
      BY <1>2, <2>2
    <3> QED
      BY <1>1, <2>2, <3>1 DEF Before
  <2>3. CASE i > Len(s)
    <3>1. i - Len(s) \in 1 .. Len(t) /\ j - Len(s) \in 1 .. Len(t) /\ i - Len(s) < j - Len(s)
      BY <1>2, <1>3, <2>3
    <3>2. (s \o t)[i] = t[i - Len(s)] /\ (s \o t)[j] = t[j - Len(s)]
      BY <1>1, <1>2, <1>3, <2>3
    <3> QED
      BY <3>1, <3>2 DEF Rising
  <2> QED
    BY <1>2, <2>1, <2>2, <2>3
<1> QED
  BY <1>1, <1>3 DEF Rising

(* What is before, behind and below both parts is so for the whole.        *)
LEMMA JoinBounds ==
  ASSUME NEW s \in Seq(Nat), NEW t \in Seq(Nat)
  PROVE  /\ \A u \in Seq(Nat) : Before(s, u) /\ Before(t, u) => Before(s \o t, u)
         /\ \A u \in Seq(Nat) : Before(u, s) /\ Before(u, t) => Before(u, s \o t)
         /\ \A n \in Nat : UpTo(s, n) /\ UpTo(t, n) => UpTo(s \o t, n)
<1>1. \A i \in 1 .. Len(s \o t) :
        \/ i \in 1 .. Len(s) /\ (s \o t)[i] = s[i]
        \/ i - Len(s) \in 1 .. Len(t) /\ (s \o t)[i] = t[i - Len(s)]
  <2>1. /\ Len(s \o t) = Len(s) + Len(t)
        /\ \A i \in 1 .. Len(s) + Len(t) :
             (s \o t)[i] = IF i <= Len(s) THEN s[i] ELSE t[i - Len(s)]
    BY ConcatProperties
  <2>2. Len(s) \in Nat /\ Len(t) \in Nat
    OBVIOUS
  <2> QED
    BY <2>1, <2>2
<1> QED
  BY <1>1 DEF Before, UpTo

(* The same for the parts of a sequence.                                   *)
LEMMA PartBounds ==
  ASSUME NEW q \in Seq(Nat), NEW s, NEW o \in Nat,
         \A i \in 1 .. Len(s) : o + i \in 1 .. Len(q) /\ s[i] = q[o + i]
  PROVE  /\ \A u \in Seq(Nat) : Before(q, u) => Before(s, u)
         /\ \A u \in Seq(Nat) : Before(u, q) => Before(u, s)
         /\ \A n \in Nat : UpTo(q, n) => UpTo(s, n)
  BY DEF Before, UpTo
(* The first f elements of q go to the end of s.                           *)
LEMMA Moves ==
  ASSUME NEW s \in Seq(Nat), NEW q \in Seq(Nat), NEW f \in 0 .. Len(q),
         Rising(s), Rising(q), Before(s, q)
  PROVE  LET a == SubSeq(q, 1, f)  b == SubSeq(q, f + 1, Len(q)) IN
         /\ s \o a \in Seq(Nat) /\ b \in Seq(Nat)
         /\ Len(s \o a) = Len(s) + f /\ Len(b) = Len(q) - f
         /\ Rising(s \o a) /\ Rising(b) /\ Before(s \o a, b) /\ Before(s, b)
         /\ \A u \in Seq(Nat) :
              /\ Before(u, s) /\ Before(u, q) => Before(u, s \o a)
              /\ Before(u, q) => Before(u, b)
              /\ Before(s, u) /\ Before(q, u) => Before(s \o a, u)
              /\ Before(q, u) => Before(b, u)
         /\ \A n \in Nat : /\ UpTo(s, n) /\ UpTo(q, n) => UpTo(s \o a, n)
                           /\ UpTo(q, n) => UpTo(b, n)
<1> DEFINE a == SubSeq(q, 1, f)
           b == SubSeq(q, f + 1, Len(q))
<1>1. /\ a \in Seq(Nat) /\ b \in Seq(Nat)
      /\ Len(a) = f /\ Len(b) = Len(q) - f
      /\ Rising(a) /\ Rising(b) /\ Before(a, b)
      /\ \A i \in 1 .. Len(a) : a[i] = q[i]
      /\ \A i \in 1 .. Len(b) : b[i] = q[f + i]
  BY RisingParts
<1> HIDE DEF a, b
<1>2. Len(q) \in Nat /\ 0 \in Nat /\ f \in Nat
  OBVIOUS
<1>3. \A i \in 1 .. Len(a) : 0 + i \in 1 .. Len(q) /\ a[i] = q[0 + i]
  BY <1>1, <1>2
<1>4. \A i \in 1 .. Len(b) : f + i \in 1 .. Len(q) /\ b[i] = q[f + i]
  BY <1>1, <1>2
<1>5. /\ \A u \in Seq(Nat) : Before(q, u) => Before(a, u)
      /\ \A u \in Seq(Nat) : Before(u, q) => Before(u, a)
      /\ \A n \in Nat : UpTo(q, n) => UpTo(a, n)
  BY <1>2, <1>3, PartBounds
<1>6. /\ \A u \in Seq(Nat) : Before(q, u) => Before(b, u)
      /\ \A u \in Seq(Nat) : Before(u, q) => Before(u, b)
      /\ \A n \in Nat : UpTo(q, n) => UpTo(b, n)
  BY <1>2, <1>4, PartBounds
<1>7. Before(s, a) /\ Before(s, b)
  BY <1>5, <1>6
<1>8. s \o a \in Seq(Nat) /\ Rising(s \o a)
  BY <1>1, <1>7, RisingJoin
<1>9. /\ \A u \in Seq(Nat) : Before(s, u) /\ Before(a, u) => Before(s \o a, u)
      /\ \A u \in Seq(Nat) : Before(u, s) /\ Before(u, a) => Before(u, s \o a)
      /\ \A n \in Nat : UpTo(s, n) /\ UpTo(a, n) => UpTo(s \o a, n)
  BY <1>1, JoinBounds
<1>10. Len(s \o a) = Len(s) + f
  BY <1>1, ConcatProperties
<1>11. Before(s \o a, b)
  BY <1>1, <1>7, <1>9
<1> QED
  BY <1>1, <1>5, <1>6, <1>7, <1>8, <1>9, <1>10, <1>11 DEF a, b

(* One element is moved with Head and Tail.                                *)
LEMMA OneMoves ==
  ASSUME NEW s \in Seq(Nat), NEW q \in Seq(Nat), q # << >>
  PROVE  /\ 1 \in 0 .. Len(q)
         /\ Append(s, Head(q)) = s \o SubSeq(q, 1, 1)
         /\ Tail(q) = SubSeq(q, 1 + 1, Len(q))
<1>1. /\ Len(q) \in Nat \ {0} /\ Head(q) \in Nat /\ Head(q) = q[1]
      /\ Tail(q) = SubSeq(q, 2, Len(q))
  BY EmptySeq, HeadTailProperties, TailIsSubSeq
<1>2. << Head(q) >> \in Seq(Nat) /\ Len(<< Head(q) >>) = 1 /\ << Head(q) >>[1] = q[1]
  BY <1>1
<1>3. /\ SubSeq(q, 1, 1) \in Seq(Nat) /\ Len(SubSeq(q, 1, 1)) = 1
      /\ SubSeq(q, 1, 1)[1] = q[1]
  <2>1. \A i \in 1 .. 1 : q[i] \in Nat
    BY <1>1
  <2> QED
    BY <2>1, SubSeqProperties
<1>4. \A i \in 1 .. 1 : << Head(q) >>[i] = SubSeq(q, 1, 1)[i]
  BY <1>2, <1>3
<1>5. << Head(q) >> = SubSeq(q, 1, 1)
  BY <1>2, <1>3, <1>4, SeqEqual
<1>6. Append(s, Head(q)) = s \o << Head(q) >>
  BY <1>1, AppendIsConcat
<1> QED
  BY <1>1, <1>5, <1>6

(* The thread takes f bytes out of the receive pipe.                       *)
LEMMA GetMoves ==
  ASSUME IndInv, NEW f \in 0 .. Len(rxq),
         got' = got \o SubSeq(rxq, 1, f), rxq' = SubSeq(rxq, f + 1, Len(rxq)),
         UNCHANGED <<arrived, hwRx>>
  PROVE  /\ got' \in Seq(Nat) /\ rxq' \in Seq(Nat) /\ Len(rxq') <= RxCap
         /\ Received'
<1>1. /\ got \in Seq(Nat) /\ rxq \in Seq(Nat) /\ hwRx \in Seq(Nat) /\ arrived \in Nat
      /\ Len(rxq) <= RxCap
  BY DEF IndInv, TypeOK
<1>2. /\ Rising(got) /\ Rising(rxq) /\ Rising(hwRx)
      /\ Before(got, rxq) /\ Before(got, hwRx) /\ Before(rxq, hwRx)
      /\ UpTo(got, arrived) /\ UpTo(rxq, arrived) /\ UpTo(hwRx, arrived)
  BY DEF IndInv, Received
<1>3. /\ got' \in Seq(Nat) /\ rxq' \in Seq(Nat) /\ Len(rxq') = Len(rxq) - f
      /\ Rising(got') /\ Rising(rxq') /\ Before(got', rxq')
      /\ Before(got', hwRx) /\ Before(rxq', hwRx)
      /\ UpTo(got', arrived) /\ UpTo(rxq', arrived)
  BY <1>1, <1>2, Moves
<1> QED
  BY <1>1, <1>2, <1>3, SerialAssumption DEF Received

(* The receive interrupt routine takes a byte from the receiver.           *)
LEMMA IrqMoves ==
  ASSUME IndInv, RxIrqByte
  PROVE  /\ rxq' \in Seq(Nat) /\ Len(rxq') <= RxCap
         /\ hwRx' \in Seq(Nat) /\ Len(hwRx') <= HwRxCap
         /\ Received'
<1>1. /\ got \in Seq(Nat) /\ rxq \in Seq(Nat) /\ hwRx \in Seq(Nat) /\ arrived \in Nat
      /\ Len(rxq) <= RxCap /\ Len(hwRx) <= HwRxCap /\ hwRx # << >>
      /\ UNCHANGED <<got, arrived>>
  BY DEF IndInv, TypeOK, RxIrqByte
<1>2. /\ Rising(got) /\ Rising(rxq) /\ Rising(hwRx)
      /\ Before(got, rxq) /\ Before(got, hwRx) /\ Before(rxq, hwRx)
      /\ UpTo(got, arrived) /\ UpTo(rxq, arrived) /\ UpTo(hwRx, arrived)
  BY DEF IndInv, Received
<1>3. PICK f \in 0 .. Len(hwRx) :
         /\ f = 1
         /\ Append(rxq, Head(hwRx)) = rxq \o SubSeq(hwRx, 1, f)
         /\ Tail(hwRx) = SubSeq(hwRx, f + 1, Len(hwRx))
  BY <1>1, OneMoves
<1> DEFINE moved == rxq \o SubSeq(hwRx, 1, f)
           left  == SubSeq(hwRx, f + 1, Len(hwRx))
<1>4. hwRx' = left /\ rxq' = IF Len(rxq) < RxCap THEN moved ELSE rxq
  BY <1>3 DEF RxIrqByte
<1>5. /\ moved \in Seq(Nat) /\ left \in Seq(Nat)
      /\ Len(moved) = Len(rxq) + f /\ Len(left) = Len(hwRx) - f
      /\ Rising(moved) /\ Rising(left) /\ Before(moved, left) /\ Before(rxq, left)
      /\ \A u \in Seq(Nat) :
           /\ Before(u, rxq) /\ Before(u, hwRx) => Before(u, moved)
           /\ Before(u, hwRx) => Before(u, left)
      /\ \A n \in Nat : /\ UpTo(rxq, n) /\ UpTo(hwRx, n) => UpTo(moved, n)
                        /\ UpTo(hwRx, n) => UpTo(left, n)
  BY <1>1, <1>2, Moves
<1> HIDE DEF moved, left
<1>6. /\ moved \in Seq(Nat) /\ hwRx' \in Seq(Nat)
      /\ Len(moved) = Len(rxq) + 1 /\ Len(hwRx') = Len(hwRx) - 1
      /\ Rising(moved) /\ Rising(hwRx') /\ Before(moved, hwRx') /\ Before(rxq, hwRx')
      /\ Before(got, moved) /\ Before(got, hwRx')
      /\ UpTo(moved, arrived) /\ UpTo(hwRx', arrived)
  BY <1>1, <1>2, <1>3, <1>4, <1>5
<1>7. CASE rxq' = moved /\ Len(rxq) < RxCap
  BY <1>1, <1>2, <1>6, <1>7, SerialAssumption DEF Received
<1>8. CASE rxq' = rxq
  BY <1>1, <1>2, <1>6, <1>8, SerialAssumption DEF Received
<1> QED
  BY <1>4, <1>7, <1>8

(* A byte comes in on the line; it is later than all before.               *)
LEMMA LineMoves ==
  ASSUME IndInv, Receive
  PROVE  /\ arrived' \in 0 .. MaxRx
         /\ hwRx' \in Seq(Nat) /\ Len(hwRx') <= HwRxCap
         /\ Received'
<1>1. /\ got \in Seq(Nat) /\ rxq \in Seq(Nat) /\ hwRx \in Seq(Nat) /\ arrived \in 0 .. MaxRx
      /\ Len(hwRx) <= HwRxCap /\ arrived < MaxRx /\ arrived' = arrived + 1
      /\ UNCHANGED <<got, rxq>>
  BY DEF IndInv, TypeOK, Receive
<1>2. /\ Rising(got) /\ Rising(rxq) /\ Rising(hwRx)
      /\ Before(got, rxq) /\ Before(got, hwRx) /\ Before(rxq, hwRx)
      /\ UpTo(got, arrived) /\ UpTo(rxq, arrived) /\ UpTo(hwRx, arrived)
  BY DEF IndInv, Received
<1> DEFINE n == arrived + 1
<1>3. n \in Nat /\ n > arrived /\ arrived \in Nat
  BY <1>1, SerialAssumption
<1> DEFINE more == Append(hwRx, n)
<1>4. /\ more \in Seq(Nat) /\ Len(more) = Len(hwRx) + 1 /\ more[Len(hwRx) + 1] = n
      /\ \A i \in 1 .. Len(hwRx) : more[i] = hwRx[i]
  BY <1>1, <1>3, AppendProperties
<1>5. hwRx' = IF Len(hwRx) < HwRxCap THEN more ELSE hwRx
  BY DEF Receive
<1> HIDE DEF more, n
<1>6. \A i \in 1 .. Len(more) :
        \/ i \in 1 .. Len(hwRx) /\ more[i] = hwRx[i]
        \/ i = Len(hwRx) + 1 /\ more[i] = n
  BY <1>1, <1>4
<1>7. \A s \in Seq(Nat) : UpTo(s, arrived) => UpTo(s, n) /\ \A i \in 1 .. Len(s) : s[i] < n
  <2>1. \A s \in Seq(Nat) : \A i \in 1 .. Len(s) : s[i] \in Nat
    OBVIOUS
  <2> QED
    BY <1>3, <2>1 DEF UpTo
<1>8. Before(got, more) /\ Before(rxq, more) /\ UpTo(more, n)
  <2>1. Before(got, more)
    BY <1>1, <1>2, <1>6, <1>7 DEF Before
  <2>2. Before(rxq, more)
    BY <1>1, <1>2, <1>6, <1>7 DEF Before
  <2>3. UpTo(hwRx, n)
    BY <1>1, <1>2, <1>7
  <2>4. UpTo(more, n)
    BY <1>3, <1>6, <2>3 DEF UpTo
  <2> QED
    BY <2>1, <2>2, <2>4
<1>9. Rising(more)
  <2>1. ASSUME NEW i \in 1 .. Len(more), NEW j \in 1 .. Len(more), i < j
        PROVE  more[i] < more[j]
    <3> Len(hwRx) \in Nat
      BY <1>1
    <3>1. i \in 1 .. Len(hwRx)
      BY <1>1, <1>4, <2>1
    <3>2. CASE j \in 1 .. Len(hwRx)
      BY <1>2, <1>4, <2>1, <3>1, <3>2 DEF Rising
    <3>3. CASE j = Len(hwRx) + 1
      BY <1>1, <1>2, <1>4, <1>7, <3>1, <3>3
    <3> QED
      BY <1>6, <3>2, <3>3
  <2> QED
    BY <2>1 DEF Rising
<1>10. UpTo(got, n) /\ UpTo(rxq, n) /\ UpTo(hwRx, n)
  BY <1>1, <1>2, <1>7
<1>11. arrived' = n
  BY <1>1 DEF n
<1>12. Received'
  BY <1>1, <1>2, <1>5, <1>8, <1>9, <1>10, <1>11 DEF Received
<1>13. Len(hwRx) \in Nat
  BY <1>1
<1> QED
  BY <1>1, <1>4, <1>5, <1>12, <1>13, SerialAssumption
(* get and getc (SerialPipe.cpp:87-97).                                   *)
LEMMA GetSteps ==
  ASSUME IndInv,
         \/ \E n \in 1 .. MaxGet, b \in BOOLEAN : GetCall(n, b)
         \/ RxGetc \/ GetChunk \/ GetReturn
  PROVE  IndInv'
<1> USE SerialAssumption
    DEF IndInv, TypeOK, Stored, Running, Room, Writing, Owner, Copying, Taken, Sent, Armed,
        tx, rx, call
<1>1. ASSUME NEW n \in 1 .. MaxGet, NEW b \in BOOLEAN, GetCall(n, b)
      PROVE  IndInv'
  <2>1. blocking' \in BOOLEAN
    BY <1>1 DEF GetCall
  <2>2. /\ pc = "idle" /\ pc' = "get" /\ count' = n /\ UNCHANGED <<written, r0, c, tx, isr, rx>>
    BY <1>1 DEF GetCall
  <2> QED
    BY <2>1, <2>2 DEF Received
<1>2. CASE RxGetc
  <2>1. /\ 1 \in 0 .. Len(rxq)
        /\ Append(got, Head(rxq)) = got \o SubSeq(rxq, 1, 1)
        /\ Tail(rxq) = SubSeq(rxq, 1 + 1, Len(rxq))
    BY <1>2, OneMoves DEF RxGetc
  <2>2. /\ got' \in Seq(Nat) /\ rxq' \in Seq(Nat) /\ Len(rxq') <= RxCap
        /\ Received'
    BY <1>2, <2>1, GetMoves DEF RxGetc
  <2> QED
    BY <1>2, <2>2 DEF RxGetc
<1>3. CASE GetChunk
  <2>1. PICK f \in 1 .. Least(count, Len(rxq)) :
          /\ got' = got \o SubSeq(rxq, 1, f) /\ rxq' = SubSeq(rxq, f + 1, Len(rxq))
          /\ count' = count - f
    BY <1>3 DEF GetChunk
  <2>2. f \in 0 .. Len(rxq) /\ count' \in Nat
    BY <2>1 DEF Least
  <2>3. /\ got' \in Seq(Nat) /\ rxq' \in Seq(Nat) /\ Len(rxq') <= RxCap
        /\ Received'
    BY <1>3, <2>1, <2>2, GetMoves DEF GetChunk
  <2> QED
    BY <1>3, <2>2, <2>3 DEF GetChunk
<1>4. CASE GetReturn
  BY <1>4 DEF GetReturn, Received
<1> QED
  BY <1>1, <1>2, <1>3, <1>4

(* rxIrqBuf (SerialPipe.cpp:99-110), and the byte that comes in.           *)
LEMMA RxSteps ==
  ASSUME IndInv, RxIrqFires \/ RxIrqByte \/ RxIrqReturn \/ Receive
  PROVE  IndInv'
<1> USE SerialAssumption
    DEF IndInv, TypeOK, Stored, Room, Writing, Owner, Copying, Taken, Sent, Armed, tx, rx, call
<1>1. CASE RxIrqFires
  BY <1>1 DEF RxIrqFires, Received
<1>2. CASE RxIrqByte
  BY <1>2, IrqMoves DEF RxIrqByte
<1>3. CASE RxIrqReturn
  BY <1>3 DEF RxIrqReturn, Received
<1>4. CASE Receive
  BY <1>4, LineMoves DEF Receive
<1> QED
  BY <1>1, <1>2, <1>3, <1>4

----------------------------------------------------------------------------
(* Every step of the thread, the interrupt routines and the UART keeps the *)
(* invariant.                                                              *)
THEOREM StepInv == IndInv /\ [Next]_vars => IndInv'
<1> SUFFICES ASSUME IndInv, [Next]_vars PROVE IndInv'
  OBVIOUS
<1>1. CASE UNCHANGED vars
  BY <1>1 DEF vars, tx, rx, call, IndInv, TypeOK, Stored, Room, Owner, Taken, Sent, Armed, Received
<1>2. CASE Next
  BY <1>2, PutSteps, TxSteps, TxIrqSteps, TransmitStep, GetSteps, RxSteps
     DEF Next, ThreadStep, IsrStep
<1> QED
  BY <1>1, <1>2

(* The inductive invariant holds in every reachable state. *)
THEOREM Invariance == Spec => []IndInv
<1>1. Init => IndInv
  BY InitInv
<1>2. IndInv /\ [Next]_vars => IndInv'
  BY StepInv
<1> QED
  BY <1>1, <1>2, PTL DEF Spec

(* Pipes, transmitter and receiver never hold more than they can, and the  *)
(* read index of the transmit pipe does not overtake what was put.         *)
THEOREM TypeCorrect == Spec => []TypeOK
<1>1. IndInv => TypeOK
  BY DEF IndInv
<1> QED
  BY <1>1, Invariance, PTL

(* The bytes leave on the line each once and in the order they were put,   *)
(* however the interrupt routine and txStart take turns.                   *)
THEOREM BytesLeaveInOrder == Spec => []TxInOrder
<1>1. IndInv => TxInOrder
  <2> SUFFICES ASSUME IndInv PROVE TxInOrder
    OBVIOUS
  <2>1. /\ wire \in Seq(Nat) /\ hw \in Seq(Nat)
        /\ \A k \in 1 .. Len(wire) : wire[k] = k
        /\ \A k \in 1 .. Len(hw) : hw[k] = Len(wire) + k
    BY DEF IndInv, TypeOK, Sent
  <2>2. /\ Len(wire \o hw) = Len(wire) + Len(hw)
        /\ \A k \in 1 .. Len(wire) + Len(hw) :
             (wire \o hw)[k] = IF k <= Len(wire) THEN wire[k] ELSE hw[k - Len(wire)]
    BY <2>1, ConcatProperties
  <2>3. Len(wire) \in Nat /\ Len(hw) \in Nat
    BY <2>1
  <2>4. ASSUME NEW k \in 1 .. Len(wire) + Len(hw) PROVE (wire \o hw)[k] = k
    BY <2>1, <2>2, <2>3
  <2> QED
    BY <2>2, <2>4 DEF TxInOrder
<1> QED
  BY <1>1, Invariance, PTL

(* Between two runs of txStart the interrupt is on for what the transmit   *)
(* pipe still holds: no byte is left behind.                               *)
THEOREM NoByteLeftBehind == Spec => []TxArmed
<1>1. IndInv => TxArmed
  BY DEF IndInv, Armed, TxArmed
<1> QED
  BY <1>1, Invariance, PTL

(* What get and getc return are bytes of the line in their order, each at  *)
(* most once, whatever overflows drop.                                     *)
THEOREM BytesAreReadInOrder == Spec => []RxInOrder
<1>1. IndInv => RxInOrder
  <2> SUFFICES ASSUME IndInv PROVE RxInOrder
    OBVIOUS
  <2>1. /\ got \in Seq(Nat) /\ rxq \in Seq(Nat) /\ hwRx \in Seq(Nat)
        /\ Rising(got) /\ Rising(rxq) /\ Rising(hwRx)
        /\ Before(got, rxq) /\ Before(got, hwRx) /\ Before(rxq, hwRx)
    BY DEF IndInv, TypeOK, Received
  <2>2. got \o rxq \in Seq(Nat) /\ Rising(got \o rxq)
    BY <2>1, RisingJoin
  <2>3. Before(got \o rxq, hwRx)
    BY <2>1, JoinBounds
  <2> DEFINE all == got \o rxq \o hwRx
  <2>4. all \in Seq(Nat) /\ Rising(all)
    BY <2>1, <2>2, <2>3, RisingJoin
  <2> HIDE DEF all
  <2>5. \A k \in 1 .. Len(all) - 1 : all[k] < all[k + 1]
    <3>1. Len(all) \in Nat
      BY <2>4
    <3>2. \A k \in 1 .. Len(all) - 1 :
            k \in 1 .. Len(all) /\ k + 1 \in 1 .. Len(all) /\ k < k + 1
      BY <3>1
    <3> QED
      BY <2>4, <3>2 DEF Rising
  <2> QED
    BY <2>5 DEF RxInOrder, all
<1> QED
  BY <1>1, Invariance, PTL

----------------------------------------------------------------------------
(* Both pipes are queues. *)

Ordinals(n) == [k \in 1 .. n |-> k]

(* The bytes in the receiver are numbers of bytes that have come in.       *)
Counted == \A i \in 1 .. Len(hwRx) : hwRx[i] >= 1

(* What has left the transmit pipe is what was put first. *)
InOrder == BytesTaken = Ordinals(txr) /\ BytesPut = Ordinals(acc)

LEMMA TakenInOrder ==
  ASSUME IndInv
  PROVE  InOrder
<1>1. /\ wire \in Seq(Nat) /\ hw \in Seq(Nat) /\ txr \in Nat /\ c \in Nat
      /\ pc = "txOut" => c = txr /\ txr > 0
  BY DEF IndInv, TypeOK, Taken
<1>2. /\ wire \o hw \in Seq(Nat) /\ Len(wire \o hw) = Len(wire) + Len(hw)
      /\ \A k \in 1 .. Len(wire) + Len(hw) :
           (wire \o hw)[k] = IF k <= Len(wire) THEN wire[k] ELSE hw[k - Len(wire)]
  BY <1>1, ConcatProperties
<1>3. Len(wire) \in Nat /\ Len(hw) \in Nat
  BY <1>1
<1>4. \A k \in 1 .. Len(wire) + Len(hw) : (wire \o hw)[k] = k
  BY <1>1, <1>2, <1>3 DEF IndInv, Sent
<1> DEFINE q == wire \o hw
<1>5. /\ q \in Seq(Nat) /\ \A k \in 1 .. Len(q) : q[k] = k
      /\ Len(q) = IF pc = "txOut" THEN txr - 1 ELSE txr
  BY <1>2, <1>4 DEF IndInv, Sent
<1>6. BytesTaken = q \o (IF pc = "txOut" THEN <<c>> ELSE << >>)
  BY DEF BytesTaken
<1> HIDE DEF q
<1>7. BytesTaken \in Seq(Nat) /\ Len(BytesTaken) = txr /\ \A k \in 1 .. txr : BytesTaken[k] = k
  <2>1. CASE pc = "txOut"
    <3>1. BytesTaken = Append(q, c)
      BY <1>1, <1>5, <1>6, <2>1
    <3> QED
      BY <1>1, <1>5, <2>1, <3>1, AppendProperties
  <2>2. CASE pc # "txOut"
    BY <1>5, <1>6, <2>2
  <2> QED
    BY <2>1, <2>2
<1> HIDE DEF BytesTaken
<1>8. BytesTaken = Ordinals(txr)
  <2>1. BytesTaken = [k \in 1 .. txr |-> BytesTaken[k]]
    BY <1>7
  <2> QED
    BY <1>7, <2>1 DEF Ordinals
<1> QED
  BY <1>8 DEF InOrder, BytesPut, Ordinals

(* The first numbers are a sequence, and so are their beginnings.          *)
LEMMA OrdinalsSeq ==
  ASSUME NEW n \in Nat
  PROVE  /\ Ordinals(n) \in Seq(Nat) /\ Len(Ordinals(n)) = n
         /\ \A m \in 0 .. n : SubSeq(Ordinals(n), 1, m) = Ordinals(m)
         /\ \A m \in Nat : Ordinals(n) \o [i \in 1 .. m |-> n + i] = Ordinals(n + m)
<1>1. Ordinals(n) \in Seq(Nat) /\ Len(Ordinals(n)) = n /\ \A k \in 1 .. n : Ordinals(n)[k] = k
  BY DEF Ordinals
<1>2. ASSUME NEW m \in 0 .. n PROVE SubSeq(Ordinals(n), 1, m) = Ordinals(m)
  BY <1>1 DEF Ordinals
<1>3. ASSUME NEW m \in Nat
      PROVE  Ordinals(n) \o [i \in 1 .. m |-> n + i] = Ordinals(n + m)
  BY <1>1 DEF Ordinals
<1> QED
  BY <1>1, <1>2, <1>3

(* A step puts some bytes into the transmit pipe, or takes one out, or      *)
(* neither.                                                                *)
LEMMA TxMoves ==
  ASSUME IndInv, [Next]_vars
  PROVE  \/ acc' = acc /\ txr' = txr
         \/ /\ txr' = txr
            /\ \E f \in 1 .. TxCap - Stored : acc' = acc + f /\ acc + f <= MaxTx
         \/ acc' = acc /\ txr' = txr + 1 /\ txr < acc
<1> USE DEF IndInv, TypeOK, Stored
<1>1. CASE PutChunk
  <2>1. PICK f \in 1 .. Least(count, TxCap - Stored) :
          acc' = acc + f /\ count' = count - f /\ UNCHANGED <<pc, txr>>
    BY <1>1 DEF PutChunk
  <2>2. f \in 1 .. TxCap - Stored /\ f <= count
    BY <2>1, SerialAssumption DEF Least
  <2>3. acc + count <= MaxTx
    BY <1>1 DEF PutChunk, Room, Writing
  <2> QED
    BY <2>1, <2>2, <2>3, SerialAssumption
<1>2. CASE Putc
  BY <1>2, SerialAssumption DEF Putc, Room
<1>3. CASE TxTake
  BY <1>3 DEF TxTake, Taken
<1>4. CASE TxIrqCopy
  BY <1>4 DEF TxIrqCopy
<1>5. CASE UNCHANGED vars
  BY <1>5 DEF vars, tx
<1>6. CASE Next /\ ~PutChunk /\ ~Putc /\ ~TxTake /\ ~TxIrqCopy
  BY <1>6 DEF Next, ThreadStep, IsrStep, PutCall, PutcCall, RxGetc, GetCall, PutReturned,
     TxDetach, TxLoad, TxOut, TxAttach, GetChunk, GetReturn, TxIrqFires, TxIrqReturn,
     RxIrqFires, RxIrqByte, RxIrqReturn, Transmit, Receive, tx, rx
<1> QED
  BY <1>1, <1>2, <1>3, <1>4, <1>5, <1>6

(* A step of the serial line is a step of the queue of the transmit pipe.  *)
LEMMA TxStepRefines ==
  ASSUME IndInv, IndInv', InOrder, InOrder', [Next]_vars
  PROVE  [TxFifo!Next]_<<BytesPut, BytesTaken>>
<1>1. /\ BytesPut = Ordinals(acc) /\ BytesTaken = Ordinals(txr)
      /\ BytesPut' = Ordinals(acc') /\ BytesTaken' = Ordinals(txr')
  BY DEF InOrder, Ordinals
<1>2. acc \in Nat /\ txr \in 0 .. acc /\ acc' \in Nat /\ txr' \in Nat /\ MaxTx \in Nat /\ TxCap \in Nat
  BY SerialAssumption DEF IndInv, TypeOK
<1>3. Len(BytesPut) = acc /\ Len(BytesTaken) = txr
  BY <1>1, <1>2, OrdinalsSeq
<1>4. CASE acc' = acc /\ txr' = txr
  BY <1>1, <1>4
<1>5. ASSUME txr' = txr, NEW f \in 1 .. TxCap - Stored, acc' = acc + f, acc + f <= MaxTx
      PROVE  TxFifo!Put
  <2> DEFINE s == [i \in 1 .. f |-> acc + i]
  <2>1. f \in Nat /\ f \in 1 .. TxCap - (Len(BytesPut) - Len(BytesTaken))
    BY <1>2, <1>3, <1>5 DEF Stored
  <2>2. s \in [1 .. f -> 1 .. MaxTx]
    BY <1>2, <1>5, <2>1
  <2>3. BytesPut' = BytesPut \o s /\ BytesTaken' = BytesTaken
    BY <1>1, <1>2, <1>5, <2>1, OrdinalsSeq
  <2> QED
    BY <2>1, <2>2, <2>3 DEF TxFifo!Put, TxFifo!Stored
<1>6. CASE acc' = acc /\ txr' = txr + 1 /\ txr < acc
  <2>1. 1 \in 1 .. (Len(BytesPut) - Len(BytesTaken)) /\ txr + 1 \in 0 .. acc
    BY <1>2, <1>3, <1>6
  <2>2. BytesTaken' = SubSeq(BytesPut, 1, Len(BytesTaken) + 1) /\ BytesPut' = BytesPut
    <3>1. SubSeq(Ordinals(acc), 1, txr + 1) = Ordinals(txr + 1)
      BY <1>2, <2>1, OrdinalsSeq
    <3> QED
      BY <1>1, <1>3, <1>6, <3>1
  <2>3. TxFifo!Get
    BY <2>1, <2>2 DEF TxFifo!Get, TxFifo!Stored
  <2> QED
    BY <2>3 DEF TxFifo!Next
<1> QED
  BY TxMoves, <1>4, <1>5, <1>6 DEF TxFifo!Next

(* Numbers of bytes that have come in go into the receiver. *)
LEMMA CountedStep ==
  ASSUME IndInv, Counted, [Next]_vars
  PROVE  Counted'
<1> USE DEF Counted
<1>1. hwRx \in Seq(Nat) /\ arrived \in Nat
  BY DEF IndInv, TypeOK
<1>2. CASE RxIrqByte
  <2>1. hwRx' = Tail(hwRx) /\ hwRx # << >>
    BY <1>2 DEF RxIrqByte
  <2> QED
    BY <1>1, <2>1, HeadTailProperties
<1>3. CASE Receive
  <2>1. hwRx' = hwRx \/ hwRx' = Append(hwRx, arrived + 1)
    BY <1>3 DEF Receive
  <2> QED
    BY <1>1, <2>1
<1>4. CASE UNCHANGED hwRx
  BY <1>4
<1>5. UNCHANGED hwRx \/ RxIrqByte \/ Receive
  BY DEF Next, ThreadStep, IsrStep, PutCall, PutcCall, RxGetc, GetCall, PutChunk, PutReturned,
     Putc, TxDetach, TxLoad, TxTake, TxOut, TxAttach, GetChunk, GetReturn, TxIrqFires,
     TxIrqCopy, TxIrqReturn, RxIrqFires, RxIrqReturn, Transmit, vars, rx
<1> QED
  BY <1>2, <1>3, <1>4, <1>5

(* Joining sequences is associative. *)
LEMMA JoinAssociative ==
  ASSUME NEW s \in Seq(Nat), NEW t \in Seq(Nat), NEW u \in Seq(Nat)
  PROVE  (s \o t) \o u = s \o (t \o u)
  BY ConcatAssociative

(* What is moved from one sequence to the end of another stays in its place. *)
LEMMA PartsJoin ==
  ASSUME NEW p \in Seq(Nat), NEW q \in Seq(Nat), NEW f \in 1 .. Len(q)
  PROVE  (p \o SubSeq(q, 1, f)) \o SubSeq(q, f + 1, Len(q)) = p \o q
<1>1. PICK s \in Seq(Nat), t \in Seq(Nat) :
        s = SubSeq(q, 1, f) /\ t = SubSeq(q, f + 1, Len(q)) /\ s \o t = q
  <2>1. SubSeq(q, 1, f) \in Seq(Nat) /\ SubSeq(q, f + 1, Len(q)) \in Seq(Nat)
    OBVIOUS
  <2>2. SubSeq(q, 1, f) \o SubSeq(q, f + 1, Len(q)) = q
    OBVIOUS
  <2> QED
    BY <2>1, <2>2
<1>2. (p \o s) \o t = p \o (s \o t)
  BY JoinAssociative
<1> QED
  BY <1>1, <1>2

(* Bytes that get takes are taken from the queue. *)
LEMMA GetIsGet ==
  ASSUME got \in Seq(Nat), rxq \in Seq(Nat), NEW f \in 1 .. Len(rxq),
         got' = got \o SubSeq(rxq, 1, f), rxq' = SubSeq(rxq, f + 1, Len(rxq))
  PROVE  RxFifo!Get
<1>1. Len(got) \in Nat /\ Len(rxq) \in Nat /\ Len(got \o rxq) = Len(got) + Len(rxq)
  BY ConcatProperties
<1>2. f \in 1 .. (Len(got \o rxq) - Len(got))
  BY <1>1
<1>4. /\ SubSeq(rxq, 1, f) \in Seq(Nat) /\ Len(SubSeq(rxq, 1, f)) = f
      /\ SubSeq(rxq, f + 1, Len(rxq)) \in Seq(Nat)
  BY <1>1, SubSeqProperties
<1>5. got' \o rxq' = got \o rxq
  BY PartsJoin
<1>6. got' = SubSeq(got \o rxq, 1, Len(got) + f)
  <2>1. /\ got' \in Seq(Nat) /\ Len(got') = Len(got) + f
        /\ \A k \in 1 .. Len(got) + f :
             got'[k] = IF k <= Len(got) THEN got[k] ELSE rxq[k - Len(got)]
    BY <1>1, <1>4
  <2>2. \A k \in 1 .. Len(got) + f : got'[k] = (got \o rxq)[k]
    BY <1>1, <2>1, ConcatProperties
  <2>3. /\ SubSeq(got \o rxq, 1, Len(got) + f) \in Seq(Nat)
        /\ Len(SubSeq(got \o rxq, 1, Len(got) + f)) = Len(got) + f
        /\ \A k \in 1 .. Len(got) + f :
             SubSeq(got \o rxq, 1, Len(got) + f)[k] = (got \o rxq)[k]
    BY <1>1, SubSeqProperties, ConcatProperties
  <2> QED
    BY <2>1, <2>2, <2>3, SeqEqual
<1> QED
  BY <1>2, <1>5, <1>6 DEF RxFifo!Get, RxFifo!Stored

(* A step of the serial line is a step of the queue of the receive pipe.   *)
LEMMA RxStepRefines ==
  ASSUME IndInv, Counted, [Next]_vars
  PROVE  [RxFifo!Next]_<<got \o rxq, got>>
<1>1. got \in Seq(Nat) /\ rxq \in Seq(Nat) /\ hwRx \in Seq(Nat) /\ Len(rxq) <= RxCap
  BY DEF IndInv, TypeOK
<1>2. CASE RxGetc
  <2>1. /\ got' = got \o SubSeq(rxq, 1, 1) /\ rxq' = SubSeq(rxq, 1 + 1, Len(rxq))
        /\ 1 \in 1 .. Len(rxq)
    BY <1>1, <1>2, OneMoves DEF RxGetc
  <2> QED
    BY <1>1, <2>1, GetIsGet DEF RxFifo!Next
<1>3. CASE GetChunk
  <2>1. PICK f \in 1 .. Least(count, Len(rxq)) :
          got' = got \o SubSeq(rxq, 1, f) /\ rxq' = SubSeq(rxq, f + 1, Len(rxq))
    BY <1>3 DEF GetChunk
  <2>2. f \in 1 .. Len(rxq)
    BY <1>1, <2>1 DEF Least, IndInv, TypeOK
  <2> QED
    BY <1>1, <2>1, <2>2, GetIsGet DEF RxFifo!Next
<1>4. CASE RxIrqByte
  <2>1. got' = got /\ (rxq' = rxq \/ (Len(rxq) < RxCap /\ rxq' = Append(rxq, Head(hwRx))))
    BY <1>4 DEF RxIrqByte
  <2>2. Head(hwRx) \in 1 .. MaxRx
    <3>1. hwRx # << >> /\ 1 \in 1 .. Len(hwRx) /\ Head(hwRx) = hwRx[1] /\ hwRx[1] \in Nat
      BY <1>1, <1>4 DEF RxIrqByte
    <3>2. hwRx[1] <= arrived /\ arrived <= MaxRx /\ hwRx[1] >= 1
      BY <3>1 DEF IndInv, Received, UpTo, TypeOK, Counted
    <3> QED
      BY <3>1, <3>2, SerialAssumption DEF IndInv, TypeOK
  <2>3. CASE Len(rxq) < RxCap /\ rxq' = Append(rxq, Head(hwRx))
    <3> DEFINE s == [i \in 1 .. 1 |-> Head(hwRx)]
    <3>1. s \in [1 .. 1 -> 1 .. MaxRx] /\ s = <<Head(hwRx)>>
      BY <2>2
    <3>2. got' \o rxq' = (got \o rxq) \o s
      BY <1>1, <2>1, <2>2, <2>3, <3>1
    <3>3. Len(got \o rxq) - Len(got) = Len(rxq) /\ Len(rxq) \in Nat
      BY <1>1, ConcatProperties
    <3>4. 1 \in 1 .. RxCap - (Len(got \o rxq) - Len(got))
      BY <2>3, <3>3, SerialAssumption
    <3>5. RxFifo!Put
      <4> HIDE DEF s
      <4> QED
        BY <2>1, <3>1, <3>2, <3>4 DEF RxFifo!Put, RxFifo!Stored
    <3> QED
      BY <3>5 DEF RxFifo!Next
  <2> QED
    BY <2>1, <2>3
<1>5. CASE UNCHANGED <<got, rxq>>
  BY <1>5
<1>6. UNCHANGED <<got, rxq>> \/ RxGetc \/ GetChunk \/ RxIrqByte
  BY DEF Next, ThreadStep, IsrStep, PutCall, PutcCall, GetCall, PutChunk, PutReturned,
     Putc, TxDetach, TxLoad, TxTake, TxOut, TxAttach, GetReturn, TxIrqFires,
     TxIrqCopy, TxIrqReturn, RxIrqFires, RxIrqReturn, Transmit, Receive, vars, rx
<1> QED
  BY <1>2, <1>3, <1>4, <1>5, <1>6

(* Whatever the thread and the two interrupt routines do, each pipe is a    *)
(* bounded queue: of two contexts that take, one takes at a time.          *)
THEOREM PipesImplementFifos == Spec => PipesAreFifos
<1>1. Init => TxFifo!Init /\ RxFifo!Init /\ Counted
  <2> SUFFICES ASSUME Init PROVE TxFifo!Init /\ RxFifo!Init /\ Counted
    OBVIOUS
  <2>1. got = << >> /\ rxq = << >> /\ hwRx = << >> /\ Len(<< >>) = 0 /\ << >> \o << >> = << >>
    BY DEF Init
  <2>2. wire = << >> /\ hw = << >> /\ pc = "idle" /\ acc = 0
    BY DEF Init
  <2>3. BytesPut = << >> /\ BytesTaken = << >>
    BY <2>1, <2>2 DEF BytesPut, BytesTaken
  <2> QED
    BY <2>1, <2>3 DEF TxFifo!Init, RxFifo!Init, Counted
<1>2. IndInv /\ Counted /\ [Next]_vars => Counted'
  BY CountedStep
<1>3. IndInv => InOrder
  BY TakenInOrder
<1>4. IndInv /\ IndInv' /\ InOrder /\ InOrder' /\ Counted /\ [Next]_vars =>
        [TxFifo!Next]_TxFifo!vars /\ [RxFifo!Next]_RxFifo!vars
  BY TxStepRefines, RxStepRefines DEF TxFifo!vars, RxFifo!vars
<1> QED
  BY <1>1, <1>2, <1>3, <1>4, Invariance, PTL DEF Spec, PipesAreFifos, TxFifo!Spec, RxFifo!Spec
=============================================================================
