----------------------------- MODULE SerialPipe -----------------------------
(***************************************************************************)
(* SerialPipe (dafbbf31bf76/SerialPipe.cpp): a UART with a pipe in each    *)
(* direction.  One thread calls put, putc, get and getc; the transmit and  *)
(* the receive interrupt routines run on the same core, so an interrupt    *)
(* suspends the thread between any two of its steps and runs to its end,   *)
(* while the transmitter and the line go on.                               *)
(*                                                                         *)
(* A byte is its ordinal: the n-th byte put into the transmit pipe is n,   *)
(* the n-th byte on the receive line is n.  Each pipe is the queue that    *)
(* Pipe implements; of the transmit pipe the model keeps the number of     *)
(* bytes put (acc) and the read index (txr) as getc sees and stores it.    *)
(***************************************************************************)
EXTENDS Integers, Sequences

CONSTANTS TxCap, RxCap,   \* txSize - 1 and rxSize - 1, what the pipes can hold
          HwCap,          \* bytes the transmitter of the UART can hold
          HwRxCap,        \* bytes the receiver of the UART can hold
          MaxPut, MaxGet, \* bounds on the length given to put and to get
          MaxTx, MaxRx    \* bounds on the bytes put, and on those received

ASSUME SerialAssumption ==
  /\ TxCap \in Nat \ {0} /\ RxCap \in Nat \ {0}
  /\ HwCap \in Nat \ {0} /\ HwRxCap \in Nat \ {0}
  /\ MaxPut \in Nat /\ MaxGet \in Nat /\ MaxTx \in Nat /\ MaxRx \in Nat

VARIABLES
  pc,       \* where the thread is
  count,    \* the bytes put has still to write, or get has still to read
  blocking, \* the argument of put and get
  written,  \* whether _pipeTx.put wrote something in this round of put's loop
  r0, c,    \* the locals r and t of _pipeTx.getc in the thread's txCopy
  acc, txr, \* bytes put into _pipeTx, and its read index
  txIrq,    \* whether txIrqBuf is attached
  hw, wire, \* bytes in the transmitter, bytes that have left on the line
  isr,      \* the interrupt routine that is running
  arrived,  \* bytes that have come in on the line
  hwRx,     \* bytes in the receiver
  rxq,      \* _pipeRx
  got       \* bytes handed to the thread

tx   == <<acc, txr, txIrq, hw, wire>>
rx   == <<arrived, hwRx, rxq, got>>
call == <<count, blocking, written, r0, c>>
vars == <<pc, call, tx, isr, rx>>

Stored    == acc - txr                  \* size of _pipeTx
HwReady   == Len(hw) < HwCap            \* _SerialPipeBase::writeable()
Running   == isr = "none"               \* no interrupt suspends the thread
Least(x, y) == IF x < y THEN x ELSE y

Init ==
  /\ pc = "idle" /\ count = 0 /\ blocking = FALSE /\ written = FALSE
  /\ r0 = 0 /\ c = 0
  /\ acc = 0 /\ txr = 0 /\ txIrq = FALSE /\ hw = << >> /\ wire = << >>
  /\ isr = "none"
  /\ arrived = 0 /\ hwRx = << >> /\ rxq = << >> /\ got = << >>

----------------------------------------------------------------------------
(* The thread writes. *)

PutCall(n, b) ==
  /\ Running /\ pc = "idle" /\ acc + n <= MaxTx
  /\ pc' = "put" /\ count' = n /\ blocking' = b /\ written' = FALSE
  /\ UNCHANGED <<r0, c, tx, isr, rx>>

(* One chunk of _pipeTx.put: its length depends on where the ring wraps. *)
PutChunk ==
  /\ Running /\ pc = "put" /\ count > 0
  /\ \E f \in 1 .. Least(count, TxCap - Stored) :
       acc' = acc + f /\ count' = count - f
  /\ written' = TRUE
  /\ UNCHANGED <<pc, blocking, r0, c, txr, txIrq, hw, wire, isr, rx>>

(* _pipeTx.put has returned; nothing written and blocking tries again. *)
PutReturned ==
  /\ Running /\ pc = "put"
  /\ count = 0 \/ Stored = TxCap
  /\ \/ written /\ pc' = "txStart"
     \/ ~written /\ ~blocking /\ pc' = "idle"
  /\ UNCHANGED <<call, tx, isr, rx>>

PutcCall ==
  /\ Running /\ pc = "idle" /\ acc < MaxTx
  /\ pc' = "putc" /\ count' = 0 /\ blocking' = TRUE
  /\ UNCHANGED <<written, r0, c, tx, isr, rx>>

(* putc that does not wait for space. *)
PutcNoWait ==
  /\ Running /\ pc = "putc"
  /\ acc' = acc + 1 /\ pc' = "txStart"
  /\ UNCHANGED <<call, txr, txIrq, hw, wire, isr, rx>>

Putc ==
  /\ Running /\ pc = "putc" /\ Stored < TxCap
  /\ acc' = acc + 1 /\ pc' = "txStart"
  /\ UNCHANGED <<call, txr, txIrq, hw, wire, isr, rx>>

(* txStart that goes to work with the interrupt still attached. *)
TxDetachMissing ==
  /\ Running /\ pc = "txStart"
  /\ pc' = "txCopy"
  /\ UNCHANGED <<call, tx, isr, rx>>

TxDetach ==
  /\ Running /\ pc = "txStart"
  /\ txIrq' = FALSE /\ pc' = "txCopy"
  /\ UNCHANGED <<call, acc, txr, hw, wire, isr, rx>>

(* txCopy in the thread, one byte: getc reads the index and the cell, then *)
(* stores the index; then the byte goes to the transmitter.                *)
TxLoad ==
  /\ Running /\ pc = "txCopy" /\ HwReady /\ Stored > 0
  /\ r0' = txr /\ c' = txr + 1 /\ pc' = "txTake"
  /\ UNCHANGED <<count, blocking, written, tx, isr, rx>>

TxTake ==
  /\ Running /\ pc = "txTake"
  /\ txr' = r0 + 1 /\ pc' = "txOut"
  /\ UNCHANGED <<call, acc, txIrq, hw, wire, isr, rx>>

TxOut ==
  /\ Running /\ pc = "txOut" /\ HwReady
  /\ hw' = Append(hw, c) /\ pc' = "txCopy"
  /\ UNCHANGED <<call, acc, txr, txIrq, wire, isr, rx>>

(* txStart that leaves what the transmitter had no room for to nobody. *)
TxAttachMissing ==
  /\ Running /\ pc = "txCopy" /\ ~(HwReady /\ Stored > 0)
  /\ written' = FALSE
  /\ pc' = IF count > 0 THEN "put" ELSE "idle"
  /\ UNCHANGED <<count, blocking, r0, c, tx, isr, rx>>

(* The end of txStart, and the test of the loop of put that called it. *)
TxAttach ==
  /\ Running /\ pc = "txCopy" /\ ~(HwReady /\ Stored > 0)
  /\ txIrq' = (Stored > 0)
  /\ written' = FALSE
  /\ pc' = IF count > 0 THEN "put" ELSE "idle"
  /\ UNCHANGED <<count, blocking, r0, c, acc, txr, hw, wire, isr, rx>>

----------------------------------------------------------------------------
(* The thread reads. *)

RxGetc ==
  /\ Running /\ pc = "idle" /\ rxq # << >>
  /\ got' = Append(got, Head(rxq)) /\ rxq' = Tail(rxq)
  /\ UNCHANGED <<pc, call, tx, isr, arrived, hwRx>>

GetCall(n, b) ==
  /\ Running /\ pc = "idle"
  /\ pc' = "get" /\ count' = n /\ blocking' = b
  /\ UNCHANGED <<written, r0, c, tx, isr, rx>>

(* get that advances the read index by one less than it copied. *)
GetChunkAgain ==
  /\ Running /\ pc = "get" /\ count > 0
  /\ \E f \in 1 .. Least(count, Len(rxq)) :
       /\ got' = got \o SubSeq(rxq, 1, f)
       /\ rxq' = SubSeq(rxq, f, Len(rxq))
       /\ count' = count - f
  /\ UNCHANGED <<pc, blocking, written, r0, c, tx, isr, arrived, hwRx>>

GetChunk ==
  /\ Running /\ pc = "get" /\ count > 0
  /\ \E f \in 1 .. Least(count, Len(rxq)) :
       /\ got' = got \o SubSeq(rxq, 1, f)
       /\ rxq' = SubSeq(rxq, f + 1, Len(rxq))
       /\ count' = count - f
  /\ UNCHANGED <<pc, blocking, written, r0, c, tx, isr, arrived, hwRx>>

GetReturn ==
  /\ Running /\ pc = "get" /\ (count = 0 \/ (rxq = << >> /\ ~blocking))
  /\ pc' = "idle"
  /\ UNCHANGED <<call, tx, isr, rx>>

----------------------------------------------------------------------------
(* The interrupt routines.  The transmit interrupt is pending while it is  *)
(* attached and the transmitter has room, the receive interrupt while the  *)
(* receiver holds a byte.                                                  *)

TxIrqFires ==
  /\ isr = "none" /\ txIrq /\ HwReady
  /\ isr' = "tx"
  /\ UNCHANGED <<pc, call, tx, rx>>

TxIrqCopy ==
  /\ isr = "tx" /\ HwReady /\ Stored > 0
  /\ hw' = Append(hw, txr + 1) /\ txr' = txr + 1
  /\ UNCHANGED <<pc, call, acc, txIrq, wire, isr, rx>>

(* Detach on the state of the transmitter instead of that of the pipe. *)
TxIrqDetachAlways ==
  /\ isr = "tx" /\ ~(HwReady /\ Stored > 0)
  /\ txIrq' = FALSE
  /\ isr' = "none"
  /\ UNCHANGED <<pc, call, acc, txr, hw, wire, rx>>

TxIrqReturn ==
  /\ isr = "tx" /\ ~(HwReady /\ Stored > 0)
  /\ txIrq' = (txIrq /\ Stored > 0)
  /\ isr' = "none"
  /\ UNCHANGED <<pc, call, acc, txr, hw, wire, rx>>

RxIrqFires ==
  /\ isr = "none" /\ hwRx # << >>
  /\ isr' = "rx"
  /\ UNCHANGED <<pc, call, tx, rx>>

(* rxIrqBuf without the test of writeable: putc waits for the thread.  *)
RxIrqByteWaits ==
  /\ isr = "rx" /\ hwRx # << >> /\ Len(rxq) < RxCap
  /\ rxq' = Append(rxq, Head(hwRx))
  /\ hwRx' = Tail(hwRx)
  /\ UNCHANGED <<pc, call, tx, isr, arrived, got>>

(* Overflow drops the new byte. *)
RxIrqByte ==
  /\ isr = "rx" /\ hwRx # << >>
  /\ rxq' = IF Len(rxq) < RxCap THEN Append(rxq, Head(hwRx)) ELSE rxq
  /\ hwRx' = Tail(hwRx)
  /\ UNCHANGED <<pc, call, tx, isr, arrived, got>>

RxIrqReturn ==
  /\ isr = "rx" /\ hwRx = << >>
  /\ isr' = "none"
  /\ UNCHANGED <<pc, call, tx, rx>>

----------------------------------------------------------------------------
(* The UART. *)

Transmit ==
  /\ hw # << >>
  /\ wire' = Append(wire, Head(hw)) /\ hw' = Tail(hw)
  /\ UNCHANGED <<pc, call, acc, txr, txIrq, isr, rx>>

(* A byte the receiver has no room for is lost in the UART. *)
Receive ==
  /\ arrived < MaxRx
  /\ arrived' = arrived + 1
  /\ hwRx' = IF Len(hwRx) < HwRxCap THEN Append(hwRx, arrived + 1) ELSE hwRx
  /\ UNCHANGED <<pc, call, tx, isr, rxq, got>>

----------------------------------------------------------------------------
ThreadStep ==
  \/ PutChunk \/ PutReturned \/ Putc
  \/ TxDetach \/ TxLoad \/ TxTake \/ TxOut \/ TxAttach
  \/ GetChunk \/ GetReturn

IsrStep == \/ TxIrqFires \/ TxIrqCopy \/ TxIrqReturn
           \/ RxIrqFires \/ RxIrqByte \/ RxIrqReturn

Next ==
  \/ \E n \in 1 .. MaxPut, b \in BOOLEAN : PutCall(n, b)
  \/ PutcCall
  \/ RxGetc
  \/ \E n \in 1 .. MaxGet, b \in BOOLEAN : GetCall(n, b)
  \/ ThreadStep \/ IsrStep
  \/ Transmit \/ Receive

Spec == Init /\ [][Next]_vars

(* The core runs the thread and the interrupts, and the transmitter empties *)
(* itself.  Nothing makes the thread call again or the line send.           *)
FairSpec == Spec /\ WF_vars(ThreadStep) /\ WF_vars(IsrStep) /\ WF_vars(Transmit)

----------------------------------------------------------------------------
TypeOK ==
  /\ pc \in {"idle", "put", "putc", "txStart", "txCopy", "txTake", "txOut", "get"}
  /\ count \in Nat /\ blocking \in BOOLEAN /\ written \in BOOLEAN
  /\ r0 \in Nat /\ c \in Nat
  /\ acc \in 0 .. MaxTx /\ txr \in 0 .. acc /\ Stored <= TxCap
  /\ txIrq \in BOOLEAN
  /\ hw \in Seq(Nat) /\ Len(hw) <= HwCap /\ wire \in Seq(Nat)
  /\ isr \in {"none", "tx", "rx"}
  /\ arrived \in 0 .. MaxRx
  /\ hwRx \in Seq(Nat) /\ Len(hwRx) <= HwRxCap
  /\ rxq \in Seq(Nat) /\ Len(rxq) <= RxCap /\ got \in Seq(Nat)

(* The bytes on the line are the bytes put, each once and in order, even   *)
(* though both the thread (txStart) and the interrupt routine take bytes   *)
(* out of the transmit pipe.                                               *)
TxInOrder ==
  LET out == wire \o hw IN \A k \in 1 .. Len(out) : out[k] = k

(* No byte is left behind: whenever the thread is outside txStart and has  *)
(* not just added to the pipe, the interrupt is attached for what the      *)
(* pipe still holds.                                                       *)
TxArmed ==
  (Stored > 0 /\ isr = "none" /\ (pc \in {"idle", "putc", "get"} \/ (pc = "put" /\ ~written)))
    => txIrq

(* What the thread reads are bytes of the line in the order they came, each *)
(* at most once: an overflow leaves gaps, never a repetition or a swap.     *)
RxInOrder ==
  LET all == got \o rxq \o hwRx IN
    \A k \in 1 .. Len(all) - 1 : all[k] < all[k + 1]

(* Each pipe is the queue a Pipe with one writer and one reader implements, *)
(* though two contexts take bytes out of the transmit pipe, the thread in   *)
(* two steps (getc), and the receive pipe is filled by an interrupt in the  *)
(* middle of a get: only one of the two takes at a time, and a byte that    *)
(* was taken is neither taken again nor dropped.                            *)
BytesPut   == [k \in 1 .. acc |-> k]
BytesTaken == wire \o hw \o (IF pc = "txOut" THEN <<c>> ELSE << >>)

TxFifo == INSTANCE BoundedFifo WITH
            Data <- 1 .. MaxTx, Cap <- TxCap, sent <- BytesPut, rcvd <- BytesTaken
RxFifo == INSTANCE BoundedFifo WITH
            Data <- 1 .. MaxRx, Cap <- RxCap, sent <- got \o rxq, rcvd <- got

PipesAreFifos == TxFifo!Spec /\ RxFifo!Spec

(* A byte that is in the transmit pipe leaves on the line. *)
EveryByteSent == \A n \in 1 .. MaxTx : (acc >= n) ~> (Len(wire) >= n)

(* put(..., blocking = true) and putc return, however full the pipe is. *)
BlockingPutReturns == (pc \in {"put", "putc"} /\ blocking) ~> (pc = "idle")

(* An interrupt routine never waits for the thread it has suspended. *)
IsrReturns == (isr # "none") ~> (isr = "none")
=============================================================================
