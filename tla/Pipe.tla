------------------------------- MODULE Pipe -------------------------------
(***************************************************************************)
(* Pipe<T> (dafbbf31bf76/Pipe.h): a ring of S cells shared without a lock  *)
(* by one writing context and one reading context.  The writer owns the    *)
(* index w, the reader owns the index r, and each reads the other's index  *)
(* whenever it likes.  One action is one access to shared memory: a read   *)
(* of the other index, a store or load of one cell of a memcpy, or the     *)
(* assignment that publishes an index, so every interleaving of the two    *)
(* contexts (thread and interrupt) is a behaviour.                         *)
(***************************************************************************)
EXTENDS Integers, Sequences

CONSTANTS S,        \* _s, the number of cells; S - 1 elements can be stored
          Data,     \* the elements of type T
          NoData,   \* content of a cell of "new T[n]" nobody has written
          Bursts,   \* the buffers a caller may hand to put
          MaxGet,   \* bound on the n of get and the ix of set
          MaxSent   \* bound on the elements handed to the pipe in one behaviour

ASSUME SizeAssumption  == S \in Nat \ {0}
ASSUME BurstAssumption == Bursts \subseteq Seq(Data) \ {<< >>}
ASSUME BoundAssumption == MaxGet \in Nat /\ MaxSent \in Nat

VARIABLES
  b, w, r, o,       \* _b, _w, _r and _o
  wpc,              \* where the writing context is
  wsrc,             \* p[0 .. c-1]: what put or putc has still to add
  wblk,             \* the argument t of put
  wf, wi,           \* f, and the cells of this memcpy already stored
  rpc,              \* where the reading context is
  rn, rblk,         \* c and t of get
  rf, rdst,         \* f, and the cells of this memcpy already loaded
  off, left, peek,  \* ix after clamping, the result of set, what next returned
  sent, rcvd        \* history: elements published by w, consumed by r

shared == <<b, w, r, o>>
writer == <<wpc, wsrc, wblk, wf, wi>>
reader == <<rpc, rn, rblk, rf, rdst, off, left, peek>>
vars   == <<shared, writer, reader, sent, rcvd>>

Least(x, y) == IF x < y THEN x ELSE y

----------------------------------------------------------------------------
(* Plausible slips in the index arithmetic and in the order of the steps,  *)
(* used to see that the properties below notice them.                      *)

IncLateWrap(i, n)    == IF i + n > S THEN i + n - S ELSE i + n
FreeOneTooMany       == LET s == r - w IN IF s <= 0 THEN s + S ELSE s
SizeNoWrap           == LET s == w - r IN IF s < 0 THEN -s ELSE s

----------------------------------------------------------------------------
(* _inc: one conditional subtraction, so n must not exceed S. *)
Inc(i, n) == IF i + n >= S THEN i + n - S ELSE i + n

Free == LET s == r - w IN (IF s <= 0 THEN s + S ELSE s) - 1

Size == LET s == w - r IN IF s < 0 THEN s + S ELSE s

Init ==
  /\ b = [i \in 0 .. S - 1 |-> NoData]
  /\ w = 0 /\ r = 0 /\ o = 0
  /\ wpc = "idle" /\ wsrc = << >> /\ wblk = FALSE /\ wf = 0 /\ wi = 0
  /\ rpc = "idle" /\ rn = 0 /\ rblk = FALSE /\ rf = 0 /\ rdst = << >>
  /\ off = 0 /\ left = 0 /\ peek = << >>
  /\ sent = << >> /\ rcvd = << >>

----------------------------------------------------------------------------
(* The writing context. *)

PutcCall(c) ==
  /\ wpc = "idle" /\ Len(sent) < MaxSent
  /\ wpc' = "putc" /\ wsrc' = <<c>> /\ wblk' = TRUE
  /\ UNCHANGED <<shared, wf, wi, reader, sent, rcvd>>

(* The spin of putc ends when the next write index is not the read index. *)
PutcWait ==
  /\ wpc = "putc" /\ Inc(w, 1) # r
  /\ wpc' = "copy" /\ wf' = 1 /\ wi' = 0
  /\ UNCHANGED <<shared, wsrc, wblk, reader, sent, rcvd>>

PutCall(s, t) ==
  /\ wpc = "idle" /\ Len(sent) + Len(s) <= MaxSent
  /\ wpc' = "put" /\ wsrc' = s /\ wblk' = t
  /\ UNCHANGED <<shared, wf, wi, reader, sent, rcvd>>

(* The free space is sampled once per chunk, and a chunk never wraps. *)
PutWait ==
  /\ wpc = "put" /\ Free > 0
  /\ wpc' = "copy" /\ wi' = 0
  /\ wf' = Least(Least(Len(wsrc), Free), S - w)
  /\ UNCHANGED <<shared, wsrc, wblk, reader, sent, rcvd>>

(* The test of the blocking flag the wrong way round. *)
PutFullInverted ==
  /\ wpc = "put" /\ ~(Free > 0) /\ wblk
  /\ wpc' = "idle" /\ wsrc' = << >>
  /\ UNCHANGED <<shared, wblk, wf, wi, reader, sent, rcvd>>

PutFull ==
  /\ wpc = "put" /\ ~(Free > 0) /\ ~wblk
  /\ wpc' = "idle" /\ wsrc' = << >>
  /\ UNCHANGED <<shared, wblk, wf, wi, reader, sent, rcvd>>

PutCopy ==
  /\ wpc = "copy" /\ wi < wf
  /\ b' = [b EXCEPT ![w + wi] = wsrc[wi + 1]]
  /\ wi' = wi + 1
  /\ UNCHANGED <<w, r, o, wpc, wsrc, wblk, wf, reader, sent, rcvd>>

PutCommit ==
  /\ wpc = "copy" /\ wi = wf
  /\ w' = Inc(w, wf)
  /\ sent' = sent \o SubSeq(wsrc, 1, wf)
  /\ wsrc' = SubSeq(wsrc, wf + 1, Len(wsrc))
  /\ wpc' = IF wf < Len(wsrc) THEN "put" ELSE "idle"
  /\ UNCHANGED <<b, r, o, wblk, wf, wi, reader, rcvd>>

----------------------------------------------------------------------------
(* The reading context. *)

GetcCall ==
  /\ rpc = "idle"
  /\ rpc' = "getc" /\ rn' = 1 /\ rblk' = TRUE
  /\ UNCHANGED <<shared, writer, rf, rdst, off, left, peek, sent, rcvd>>

GetcWait ==
  /\ rpc = "getc" /\ r # w
  /\ rpc' = "copy" /\ rf' = 1
  /\ UNCHANGED <<shared, writer, rn, rblk, rdst, off, left, peek, sent, rcvd>>

GetCall(n, t) ==
  /\ rpc = "idle"
  /\ rpc' = "get" /\ rn' = n /\ rblk' = t
  /\ UNCHANGED <<shared, writer, rf, rdst, off, left, peek, sent, rcvd>>

GetWait ==
  /\ rpc = "get" /\ Size # 0
  /\ rpc' = "copy"
  /\ rf' = Least(Least(rn, Size), S - r)
  /\ UNCHANGED <<shared, writer, rn, rblk, rdst, off, left, peek, sent, rcvd>>

GetEmpty ==
  /\ rpc = "get" /\ Size = 0 /\ ~rblk
  /\ rpc' = "idle"
  /\ UNCHANGED <<shared, writer, rn, rblk, rf, rdst, off, left, peek, sent, rcvd>>

GetCopy ==
  /\ rpc = "copy" /\ Len(rdst) < rf
  /\ rdst' = Append(rdst, b[r + Len(rdst)])
  /\ UNCHANGED <<shared, writer, rpc, rn, rblk, rf, off, left, peek, sent, rcvd>>

GetCommit ==
  /\ rpc = "copy" /\ Len(rdst) = rf
  /\ r' = Inc(r, rf)
  /\ rcvd' = rcvd \o rdst
  /\ rdst' = << >>
  /\ rn' = rn - rf
  /\ rpc' = IF rf < rn THEN "get" ELSE "idle"
  /\ UNCHANGED <<b, w, o, writer, rblk, rf, off, left, peek, sent>>

(* Parsing in place: set, any number of next within what set returned, and *)
(* then either done or nothing (the caller leaves the data in the pipe).   *)
(* SetUnclamped is set without the clamp of ix to the size.                *)
SetUnclamped(ix) ==
  /\ rpc = "idle"
  /\ rpc' = "parse" /\ off' = ix /\ left' = Size /\ o' = Inc(r, ix)
  /\ peek' = << >>
  /\ UNCHANGED <<b, w, r, writer, rn, rblk, rf, rdst, sent, rcvd>>

Set(ix) ==
  /\ rpc = "idle"
  /\ rpc' = "parse"
  /\ off' = Least(ix, Size)
  /\ left' = Size - off'
  /\ o' = Inc(r, off')
  /\ peek' = << >>
  /\ UNCHANGED <<b, w, r, writer, rn, rblk, rf, rdst, sent, rcvd>>

NextElement ==
  /\ rpc = "parse" /\ Len(peek) < left
  /\ peek' = Append(peek, b[o])
  /\ o' = Inc(o, 1)
  /\ UNCHANGED <<b, w, r, writer, rpc, rn, rblk, rf, rdst, off, left, sent, rcvd>>

(* done consumes everything before the parsing position: the off elements  *)
(* set skipped as well as those next returned.                             *)
Done ==
  /\ rpc = "parse"
  /\ r' = o
  /\ rcvd' = rcvd \o [k \in 1 .. off + Len(peek) |-> b[Inc(r, k - 1)]]
  /\ rpc' = "idle"
  /\ UNCHANGED <<b, w, o, writer, rn, rblk, rf, rdst, off, left, peek, sent>>

ParseReturn ==
  /\ rpc = "parse"
  /\ rpc' = "idle"
  /\ UNCHANGED <<shared, writer, rn, rblk, rf, rdst, off, left, peek, sent, rcvd>>

----------------------------------------------------------------------------
WriterStep == PutcWait \/ PutWait \/ PutFull \/ PutCopy \/ PutCommit

WriterNext ==
  \/ \E c \in Data : PutcCall(c)
  \/ \E s \in Bursts, t \in BOOLEAN : PutCall(s, t)
  \/ WriterStep

ReaderStep == GetcWait \/ GetWait \/ GetEmpty \/ GetCopy \/ GetCommit

ReaderNext ==
  \/ GetcCall
  \/ \E n \in 1 .. MaxGet, t \in BOOLEAN : GetCall(n, t)
  \/ ReaderStep
  \/ \E ix \in 0 .. MaxGet : Set(ix)
  \/ NextElement \/ Done \/ ParseReturn

Next == WriterNext \/ ReaderNext

Spec == Init /\ [][Next]_vars

(* The writer runs while it is inside put; nothing is asked of the reader, *)
(* which an interrupt that writes has suspended at an arbitrary point.     *)
FairSpec == Spec /\ WF_vars(WriterStep)

----------------------------------------------------------------------------
Cells    == 0 .. S - 1
Unread   == {Inc(r, k) : k \in 0 .. Len(sent) - Len(rcvd) - 1}

TypeOK ==
  /\ b \in [Cells -> Data \cup {NoData}]
  /\ w \in Cells /\ r \in Cells /\ o \in Cells
  /\ wpc \in {"idle", "putc", "put", "copy"}
  /\ wsrc \in Seq(Data) /\ wblk \in BOOLEAN /\ wf \in Nat /\ wi \in Nat
  /\ rpc \in {"idle", "getc", "get", "copy", "parse"}
  /\ rn \in Nat /\ rblk \in BOOLEAN /\ rf \in Nat
  /\ rdst \in Seq(Data)
  /\ off \in Nat /\ left \in Nat /\ peek \in Seq(Data)
  /\ sent \in Seq(Data) /\ rcvd \in Seq(Data)

(* Nothing is lost, duplicated, reordered or invented: what the reading    *)
(* context has consumed, by get, getc or done, is the beginning of what    *)
(* the writing context has published.                                      *)
FirstInFirstOut ==
  /\ Len(rcvd) <= Len(sent)
  /\ \A k \in 1 .. Len(rcvd) : rcvd[k] = sent[k]

(* The cells a put is about to store are free at the moment it stores      *)
(* them, although the free space was sampled before and the reader has     *)
(* moved since.                                                            *)
NoOverwrite ==
  wpc = "copy" => \A k \in wi .. wf - 1 : w + k \in Cells \ Unread

(* What a parser sees through set and next is what get will deliver: a     *)
(* match on peeked bytes stays valid until they are taken, whatever the    *)
(* writer adds meanwhile.  (_getLine decides on peeked bytes and then      *)
(* calls get with the matched length.)                                     *)
PeekIsStream ==
  rpc = "parse" =>
    /\ Len(rcvd) + off + Len(peek) <= Len(sent)
    /\ \A k \in 1 .. Len(peek) : peek[k] = sent[Len(rcvd) + off + k]

(* A put that does not block returns although the reader may be suspended  *)
(* anywhere: it is called with interrupts of the reader's side masked.     *)
NonBlockingPutReturns == (wpc # "idle" /\ ~wblk) ~> (wpc = "idle")

(* The pipe implements a bounded first-in first-out queue of S - 1         *)
(* elements in which each memcpy chunk appears and disappears at once.     *)
Fifo     == INSTANCE BoundedFifo WITH Cap <- S - 1
FifoSpec == Fifo!Spec
=============================================================================
