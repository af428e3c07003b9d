----------------------------- MODULE PipeProofs -----------------------------
(***************************************************************************)
(* Proofs about Pipe for every size, element type and choice of buffers:   *)
(* the types, the three safety invariants and the implementation of the    *)
(* bounded queue.                                                          *)
(*                                                                         *)
(* The induction needs more than the invariants say.  Content ties the     *)
(* ring to the histories.  WriterChunk and ReaderChunk say that a free or  *)
(* a size sampled earlier is still a lower bound, which is why the two     *)
(* contexts need no lock: the reader only ever adds to the free cells and  *)
(* the writer only ever adds to the readable ones.                         *)
(***************************************************************************)
EXTENDS Pipe, SequenceTheorems, TLAPS

Content ==
  /\ Len(sent) - Len(rcvd) = Size
  /\ \A k \in 0 .. Size - 1 : b[Inc(r, k)] = sent[Len(rcvd) + k + 1]

WriterChunk ==
  /\ wpc # "idle" => Len(wsrc) > 0
  /\ wpc = "copy" =>
       /\ wf \in 1 .. Free /\ wf <= Len(wsrc) /\ w + wf <= S
       /\ wi \in 0 .. wf
       /\ \A k \in 0 .. wi - 1 : b[w + k] = wsrc[k + 1]

ReaderChunk ==
  /\ rpc \in {"get", "getc"} => rn > 0
  /\ rpc # "copy" => rdst = << >>
  /\ rpc = "copy" =>
       /\ rf \in 1 .. Size /\ rf <= rn /\ r + rf <= S
       /\ Len(rdst) <= rf
       /\ \A k \in 1 .. Len(rdst) : rdst[k] = sent[Len(rcvd) + k]

ParserCursor ==
  rpc = "parse" =>
    /\ off + left <= Size /\ Len(peek) <= left
    /\ o = Inc(r, off + Len(peek))
    /\ \A k \in 1 .. Len(peek) : peek[k] = sent[Len(rcvd) + off + k]

IndInv ==
  /\ TypeOK
  /\ Content
  /\ WriterChunk
  /\ ReaderChunk
  /\ ParserCursor
  /\ FirstInFirstOut

----------------------------------------------------------------------------
(* Arithmetic of the two indexes. *)

(* An index of the ring stays an index of the ring (Pipe.h:228-234).       *)
LEMMA IncInRange ==
  ASSUME NEW i \in Cells, NEW n \in 0 .. S
  PROVE  Inc(i, n) \in Cells
BY SizeAssumption DEF Inc, Cells

(* Moving by nothing leaves an index where it is.                          *)
LEMMA IncZero ==
  ASSUME NEW i \in Cells
  PROVE  Inc(i, 0) = i
BY SizeAssumption DEF Inc, Cells

(* Two moves are one move by the sum.                                      *)
LEMMA IncInc ==
  ASSUME NEW i \in Cells, NEW m \in 0 .. S, NEW n \in 0 .. S, m + n <= S
  PROVE  Inc(Inc(i, m), n) = Inc(i, m + n)
BY SizeAssumption DEF Inc, Cells

(* Two different distances below S never meet: cells of one lap differ.    *)
LEMMA IncInjective ==
  ASSUME NEW i \in Cells, NEW m \in 0 .. S - 1, NEW n \in 0 .. S - 1,
         Inc(i, m) = Inc(i, n)
  PROVE  m = n
BY SizeAssumption DEF Inc, Cells

(* One cell is always kept empty, so size and free space add up to S - 1. *)
LEMMA SizeAndFree ==
  ASSUME TypeOK
  PROVE  /\ Size \in 0 .. S - 1
         /\ Free = S - 1 - Size
         /\ w = Inc(r, Size)
BY SizeAssumption DEF TypeOK, Cells, Size, Free, Inc

(* The test of the spin in putc is the test of put. *)
LEMMA PutcTestsFree ==
  ASSUME TypeOK
  PROVE  Inc(w, 1) # r <=> Free > 0
BY SizeAssumption DEF TypeOK, Cells, Free, Inc

(* Moving the write index by no more than the free space moves size by     *)
(* as much: the reader sees exactly the bytes that were added.             *)
LEMMA WriteMovesSize ==
  ASSUME TypeOK, NEW f \in 0 .. Free, w' = Inc(w, f), r' = r
  PROVE  Size' = Size + f
BY SizeAssumption DEF TypeOK, Cells, Size, Free, Inc

(* Moving the read index by no more than size leaves the rest: the writer  *)
(* gets exactly the cells that were read.                                  *)
LEMMA ReadMovesSize ==
  ASSUME TypeOK, NEW f \in 0 .. Size, r' = Inc(r, f), w' = w
  PROVE  Size' = Size - f
BY SizeAssumption DEF TypeOK, Cells, Size, Inc

----------------------------------------------------------------------------
(* The empty pipe of the constructor satisfies the inductive invariant.    *)
THEOREM InitInv == Init => IndInv
<1> SUFFICES ASSUME Init PROVE IndInv
  OBVIOUS
<1>1. TypeOK
  <2>1. << >> \in Seq(Data)
    OBVIOUS
  <2>2. b \in [Cells -> Data \cup {NoData}]
    BY DEF Init, Cells
  <2>3. w \in Cells /\ r \in Cells /\ o \in Cells
    BY SizeAssumption DEF Init, Cells
  <2> QED
    BY <2>1, <2>2, <2>3 DEF Init, TypeOK
<1>2. Size = 0
  BY DEF Init, Size
<1>3. Content
  BY <1>2 DEF Init, Content
<1>4. WriterChunk /\ ReaderChunk /\ ParserCursor /\ FirstInFirstOut
  BY DEF Init, WriterChunk, ReaderChunk, ParserCursor, FirstInFirstOut
<1> QED
  BY <1>1, <1>3, <1>4 DEF IndInv

(* The writer's steps that touch neither the ring nor the histories. *)
LEMMA WriterLocal ==
  ASSUME IndInv, UNCHANGED <<shared, reader, sent, rcvd>>
  PROVE  Content' /\ ReaderChunk' /\ ParserCursor' /\ FirstInFirstOut'
BY DEF IndInv, Content, ReaderChunk, ParserCursor, FirstInFirstOut,
       shared, reader, Size, Inc

(* The reader's steps that touch neither the ring nor the histories.       *)
LEMMA ReaderLocal ==
  ASSUME IndInv, UNCHANGED <<b, w, r, writer, sent, rcvd>>
  PROVE  Content' /\ WriterChunk' /\ FirstInFirstOut'
BY DEF IndInv, Content, WriterChunk, FirstInFirstOut, writer, Size, Free, Inc

(* Calling putc preserves the invariant.                                   *)
LEMMA PutcCallInv ==
  ASSUME IndInv, NEW c \in Data, PutcCall(c)
  PROVE  IndInv'
<1>1. TypeOK'
  BY DEF IndInv, TypeOK, PutcCall, shared, reader
<1>2. WriterChunk'
  BY DEF IndInv, WriterChunk, PutcCall
<1> QED
  BY <1>1, <1>2, WriterLocal DEF IndInv, PutcCall

(* Calling put preserves the invariant.                                    *)
LEMMA PutCallInv ==
  ASSUME IndInv, NEW s \in Bursts, NEW t \in BOOLEAN, PutCall(s, t)
  PROVE  IndInv'
<1>0. s \in Seq(Data) /\ Len(s) > 0
  BY BurstAssumption, EmptySeq
<1>1. TypeOK'
  BY <1>0 DEF IndInv, TypeOK, PutCall, shared, reader
<1>2. WriterChunk'
  BY <1>0 DEF IndInv, WriterChunk, PutCall
<1> QED
  BY <1>1, <1>2, WriterLocal DEF IndInv, PutCall

(* The spin of putc ends with a cell that is free, and storing one byte    *)
(* there preserves the invariant.                                          *)
LEMMA PutcWaitInv ==
  ASSUME IndInv, PutcWait
  PROVE  IndInv'
<1>1. TypeOK'
  BY DEF IndInv, TypeOK, PutcWait, shared, reader
<1>2. Free > 0 /\ Free \in Int
  BY PutcTestsFree, SizeAndFree, SizeAssumption DEF IndInv, PutcWait
<1>3. Free' = Free
  BY DEF PutcWait, shared, Free
<1>4. WriterChunk'
  BY <1>2, <1>3, SizeAssumption
  DEF IndInv, TypeOK, Cells, WriterChunk, PutcWait, shared
<1> QED
  BY <1>1, <1>4, WriterLocal DEF IndInv, PutcWait

(* The chunk put has chosen is free and does not wrap (Pipe.h:98-110).     *)
LEMMA PutWaitInv ==
  ASSUME IndInv, PutWait
  PROVE  IndInv'
<1>1. Free > 0 /\ Free \in Int /\ Len(wsrc) > 0 /\ Len(wsrc) \in Nat /\ S - w > 0
  BY SizeAndFree, SizeAssumption DEF IndInv, WriterChunk, TypeOK, Cells, PutWait
<1>2. /\ wf' \in 1 .. Free /\ wf' <= Len(wsrc) /\ w + wf' <= S
  BY <1>1, SizeAssumption DEF IndInv, TypeOK, Cells, PutWait, Least
<1>3. Free' = Free
  BY DEF PutWait, shared, Free
<1>4. TypeOK'
  BY <1>2 DEF IndInv, TypeOK, PutWait, shared, reader
<1>5. WriterChunk'
  BY <1>1, <1>2, <1>3 DEF WriterChunk, PutWait, shared
<1> QED
  BY <1>4, <1>5, WriterLocal DEF IndInv, PutWait

(* A put that gives up on a full ring preserves the invariant.             *)
LEMMA PutFullInv ==
  ASSUME IndInv, PutFull
  PROVE  IndInv'
<1>1. TypeOK'
  BY DEF IndInv, TypeOK, PutFull, shared, reader
<1>2. WriterChunk'
  BY DEF IndInv, WriterChunk, PutFull
<1> QED
  BY <1>1, <1>2, WriterLocal DEF IndInv, PutFull

(* The cells of a chunk are none of the unread ones. *)
LEMMA ChunkIsFree ==
  ASSUME IndInv, wpc = "copy", NEW k \in 0 .. wf - 1
  PROVE  /\ w + k \in Cells
         /\ \A n \in 0 .. Size - 1 : Inc(r, n) # w + k
<1>1. wf \in 1 .. Free /\ w + wf <= S /\ Free \in Int /\ w \in Cells
  BY SizeAndFree, SizeAssumption DEF IndInv, WriterChunk, TypeOK
<1>2. w + k \in Cells
  BY <1>1, SizeAssumption DEF Cells
<1>3. /\ Size \in 0 .. S - 1 /\ Free = S - 1 - Size
      /\ w = Inc(r, Size) /\ r \in Cells
  BY SizeAndFree DEF IndInv, TypeOK
<1>4. w + k = Inc(r, Size + k)
  BY <1>1, <1>3, SizeAssumption DEF Inc, Cells
<1>5. ASSUME NEW n \in 0 .. Size - 1
      PROVE  Inc(r, n) # w + k
  BY <1>1, <1>3, <1>4, SizeAssumption DEF Inc, Cells
<1> QED
  BY <1>2, <1>5

(* Copying a byte of the chunk touches no unread cell: what the reader may *)
(* read, and the bytes copied before, stay as they are.                    *)
LEMMA PutCopyInv ==
  ASSUME IndInv, PutCopy
  PROVE  IndInv'
<1>1. /\ wi \in 0 .. wf - 1 /\ wf \in Nat /\ wf <= Len(wsrc) /\ w + wi \in Cells
      /\ w \in Cells /\ wsrc \in Seq(Data)
  BY ChunkIsFree DEF IndInv, WriterChunk, TypeOK, PutCopy
<1>2. wsrc[wi + 1] \in Data
  BY <1>1, ElementOfSeq
<1>3. Size' = Size /\ Free' = Free
  BY DEF PutCopy, Size, Free
<1>4. TypeOK'
  BY <1>1, <1>2 DEF IndInv, TypeOK, PutCopy, reader
<1>5. Content'
  <2>1. ASSUME NEW k \in 0 .. Size - 1
        PROVE  b'[Inc(r, k)] = b[Inc(r, k)]
    BY <1>1, ChunkIsFree DEF IndInv, TypeOK, PutCopy
  <2> QED
    BY <1>3, <2>1 DEF IndInv, Content, PutCopy, Inc
<1>6. WriterChunk'
  <2>0. wi' = wi + 1
    BY DEF PutCopy
  <2>1. ASSUME NEW k \in 0 .. wi
        PROVE  b'[w + k] = wsrc[k + 1]
    <3>1. CASE k = wi
      BY <1>1, <3>1 DEF IndInv, TypeOK, PutCopy
    <3>2. CASE k # wi
      <4>1. k \in 0 .. wi - 1 /\ w + k # w + wi /\ w + k \in Cells
        BY <1>1, <3>2, SizeAssumption DEF Cells
      <4>2. b[w + k] = wsrc[k + 1]
        BY <4>1 DEF IndInv, WriterChunk, PutCopy
      <4> QED
        BY <4>1, <4>2 DEF IndInv, TypeOK, PutCopy
    <3> QED
      BY <3>1, <3>2
  <2> QED
    BY <1>1, <1>3, <2>0, <2>1 DEF IndInv, WriterChunk, PutCopy
<1>7. ReaderChunk' /\ ParserCursor' /\ FirstInFirstOut'
  BY <1>3 DEF IndInv, ReaderChunk, ParserCursor, FirstInFirstOut, PutCopy, reader, Inc
<1> QED
  BY <1>4, <1>5, <1>6, <1>7 DEF IndInv

(* Publishing the chunk makes size grow by the bytes that were copied.     *)
LEMMA PutCommitInv ==
  ASSUME IndInv, PutCommit
  PROVE  IndInv'
<1> DEFINE chunk == SubSeq(wsrc, 1, wf)
           rest  == SubSeq(wsrc, wf + 1, Len(wsrc))
<1>1. /\ wi = wf /\ wf \in 1 .. Free /\ wf <= Len(wsrc) /\ w + wf <= S
      /\ \A k \in 0 .. wf - 1 : b[w + k] = wsrc[k + 1]
      /\ Free = S - 1 - Size /\ Size \in 0 .. S - 1 /\ w = Inc(r, Size)
      /\ wsrc \in Seq(Data) /\ sent \in Seq(Data) /\ rcvd \in Seq(Data)
      /\ w \in Cells /\ r \in Cells
  BY SizeAndFree DEF IndInv, WriterChunk, TypeOK, PutCommit
<1>2. /\ chunk \in Seq(Data) /\ Len(chunk) = wf
      /\ \A k \in 1 .. wf : chunk[k] = wsrc[k]
  BY <1>1, SubSeqProperties, ElementOfSeq, SizeAssumption
<1>3. /\ rest \in Seq(Data) /\ Len(rest) = Len(wsrc) - wf
  BY <1>1, SubSeqProperties, ElementOfSeq, SizeAssumption
<1>4. /\ sent' \in Seq(Data) /\ Len(sent') = Len(sent) + wf
      /\ \A k \in 1 .. Len(sent) : sent'[k] = sent[k]
      /\ \A k \in 1 .. wf : sent'[Len(sent) + k] = wsrc[k]
  <2>1. sent' = sent \o chunk
    BY DEF PutCommit
  <2>2. Len(sent) \in Nat /\ wf \in Nat
    BY <1>1, SizeAssumption
  <2> QED
    BY <1>1, <1>2, <2>1, <2>2, ConcatProperties
<1>5. Size' = Size + wf
  BY <1>1, SizeAssumption, WriteMovesSize DEF IndInv, PutCommit
<1>6. TypeOK'
  <2>1. w' \in Cells
    <3>1. w' = Inc(w, wf)
      BY DEF PutCommit
    <3>2. Free <= S
      BY <1>1, SizeAssumption
    <3>3. Free \in Int /\ wf \in 1 .. Free
      BY <1>1, SizeAssumption
    <3>4. wf \in 0 .. S
      BY <3>2, <3>3, SizeAssumption
    <3> QED
      BY <1>1, <3>1, <3>4, IncInRange
  <2>2. wsrc' \in Seq(Data) /\ wpc' \in {"idle", "putc", "put", "copy"}
    BY <1>3 DEF PutCommit
  <2> QED
    BY <2>1, <2>2, <1>4 DEF IndInv, TypeOK, PutCommit, reader
<1>7. Content'
  <2>1. Len(sent) = Len(rcvd) + Size /\ Len(sent) \in Nat /\ Len(rcvd) \in Nat
    BY <1>1, SizeAssumption DEF IndInv, Content
  <2>2. ASSUME NEW k \in 0 .. Size + wf - 1
        PROVE  b[Inc(r, k)] = sent'[Len(rcvd) + k + 1]
    <3>1. CASE k < Size
      <4>1. k \in 0 .. Size - 1 /\ Len(rcvd) + k + 1 \in 1 .. Len(sent)
        BY <1>1, <2>1, <3>1, SizeAssumption
      <4>2. b[Inc(r, k)] = sent[Len(rcvd) + k + 1]
        BY <4>1 DEF IndInv, Content
      <4> QED
        BY <4>1, <4>2, <1>4
    <3>2. CASE k >= Size
      <4>1. k - Size \in 0 .. wf - 1
        BY <1>1, <3>2, SizeAssumption
      <4>2. Inc(r, k) = w + (k - Size)
        BY <1>1, <3>2, <4>1, SizeAssumption DEF Inc, Cells
      <4>3. b[Inc(r, k)] = wsrc[k - Size + 1]
        BY <1>1, <4>1, <4>2
      <4>4. sent'[Len(sent) + (k - Size + 1)] = wsrc[k - Size + 1]
        BY <1>1, <1>4, <4>1, SizeAssumption
      <4>5. Len(sent) + (k - Size + 1) = Len(rcvd) + k + 1
        BY <1>1, <2>1, <4>1, SizeAssumption
      <4> QED
        BY <4>3, <4>4, <4>5
    <3> QED
      BY <3>1, <3>2, <1>1, SizeAssumption
  <2>3. b' = b /\ r' = r /\ rcvd' = rcvd
    BY DEF PutCommit
  <2>4. Len(sent') - Len(rcvd') = Size'
    BY <1>1, <1>4, <1>5, <2>1, <2>3, SizeAssumption
  <2> QED
    <3>1. \A k \in 0 .. Size' - 1 : b'[Inc(r', k)] = sent'[Len(rcvd') + k + 1]
      BY <1>1, <1>5, <2>2, <2>3, SizeAssumption
    <3> QED
      BY <2>4, <3>1 DEF Content
<1>8. WriterChunk'
  <2>1. wpc' \in {"put", "idle"} /\ (wpc' = "put" => Len(wsrc') > 0)
    BY <1>1, <1>3, SizeAssumption DEF PutCommit
  <2> QED
    BY <2>1 DEF WriterChunk
<1>9. ReaderChunk' /\ ParserCursor' /\ FirstInFirstOut'
  <2>0. Size \in Nat
    BY <1>1, SizeAssumption
  <2>1. Len(sent) - Len(rcvd) = Size /\ Len(sent) \in Nat /\ Len(rcvd) \in Nat
    BY <1>1 DEF IndInv, Content
  <2>2. UNCHANGED <<r, o, rpc, rn, rf, rdst, off, left, peek, rcvd>>
    BY DEF PutCommit, reader
  <2>3. ReaderChunk'
    <3>1. ASSUME rpc = "copy", NEW k \in 1 .. Len(rdst)
          PROVE  rdst[k] = sent'[Len(rcvd) + k]
      <4>1. /\ rdst[k] = sent[Len(rcvd) + k]
            /\ Len(rdst) <= rf /\ rf \in 1 .. Size /\ Len(rdst) \in Nat
        BY <3>1 DEF IndInv, ReaderChunk, TypeOK
      <4>2. Len(rcvd) + k \in 1 .. Len(sent)
        BY <2>0, <2>1, <3>1, <4>1
      <4> QED
        BY <1>4, <4>1, <4>2
    <3>2. rpc = "copy" => rf \in 1 .. Size'
      BY <1>1, <1>5, SizeAssumption DEF IndInv, ReaderChunk
    <3> QED
      BY <2>2, <3>1, <3>2 DEF IndInv, ReaderChunk
  <2>4. ParserCursor'
    <3>1. ASSUME rpc = "parse", NEW k \in 1 .. Len(peek)
          PROVE  peek[k] = sent'[Len(rcvd) + off + k]
      <4>1. /\ peek[k] = sent[Len(rcvd) + off + k]
            /\ off + left <= Size /\ Len(peek) <= left /\ Len(peek) \in Nat
            /\ off \in Nat /\ left \in Nat
        <5>1. off \in Nat /\ left \in Nat /\ Len(peek) \in Nat
          BY DEF IndInv, TypeOK
        <5> QED
          BY <3>1, <5>1 DEF IndInv, ParserCursor
      <4>2. Len(rcvd) + off + k \in 1 .. Len(sent)
        BY <2>0, <2>1, <3>1, <4>1
      <4> QED
        BY <1>4, <4>1, <4>2
    <3>2. rpc = "parse" => off + left <= Size'
      BY <1>1, <1>5, SizeAssumption DEF IndInv, ParserCursor, TypeOK
    <3> QED
      BY <2>2, <3>1, <3>2 DEF IndInv, ParserCursor, Inc
  <2>5. FirstInFirstOut'
    BY <1>1, <1>4, <2>1, <2>2, SizeAssumption DEF IndInv, FirstInFirstOut
  <2> QED
    BY <2>3, <2>4, <2>5
<1> QED
  BY <1>6, <1>7, <1>8, <1>9 DEF IndInv

----------------------------------------------------------------------------
(* The reading context. *)

(* Calling getc preserves the invariant.                                   *)
LEMMA GetcCallInv ==
  ASSUME IndInv, GetcCall
  PROVE  IndInv'
<1>1. TypeOK'
  BY DEF IndInv, TypeOK, GetcCall, shared, writer
<1>2. ReaderChunk' /\ ParserCursor'
  BY DEF IndInv, ReaderChunk, ParserCursor, GetcCall
<1> QED
  BY <1>1, <1>2, ReaderLocal DEF IndInv, GetcCall, shared

(* Calling get preserves the invariant.                                    *)
LEMMA GetCallInv ==
  ASSUME IndInv, NEW n \in 1 .. MaxGet, NEW t \in BOOLEAN, GetCall(n, t)
  PROVE  IndInv'
<1>1. n \in Nat /\ n > 0
  BY BoundAssumption
<1>2. TypeOK'
  BY <1>1 DEF IndInv, TypeOK, GetCall, shared, writer
<1>3. ReaderChunk' /\ ParserCursor'
  BY <1>1 DEF IndInv, ReaderChunk, ParserCursor, GetCall
<1> QED
  BY <1>2, <1>3, ReaderLocal DEF IndInv, GetCall, shared

(* Both waits end with a chunk that is readable and does not wrap. *)
LEMMA ChunkSampled ==
  ASSUME IndInv, rpc \in {"get", "getc"}, rpc' = "copy",
         UNCHANGED <<shared, writer, rn, rblk, rdst, off, left, peek, sent, rcvd>>,
         rf' \in 1 .. Size, rf' <= rn, r + rf' <= S
  PROVE  IndInv'
<1>1. Size \in 0 .. S - 1 /\ rf' \in Nat
  BY SizeAndFree, SizeAssumption DEF IndInv
<1>2. Size' = Size
  BY DEF shared, Size
<1>3. TypeOK'
  BY <1>1 DEF IndInv, TypeOK, shared, writer
<1>4. ReaderChunk'
  <2>1. rdst = << >>
    BY DEF IndInv, ReaderChunk
  <2> QED
    BY <1>1, <1>2, <2>1 DEF IndInv, ReaderChunk, shared
<1>5. ParserCursor'
  BY DEF ParserCursor
<1> QED
  BY <1>3, <1>4, <1>5, ReaderLocal DEF IndInv, shared

(* getc returns the oldest byte that has not been read.                    *)
LEMMA GetcWaitInv ==
  ASSUME IndInv, GetcWait
  PROVE  IndInv'
<1>1. rf' \in 1 .. Size /\ r + rf' <= S
  BY SizeAssumption DEF IndInv, TypeOK, Cells, Size, GetcWait
<1>2. rf' <= rn
  BY DEF IndInv, ReaderChunk, TypeOK, GetcWait
<1> QED
  BY <1>1, <1>2, ChunkSampled DEF GetcWait

(* The chunk get has chosen is readable and does not wrap                  *)
(* (Pipe.h:166-178).                                                       *)
LEMMA GetWaitInv ==
  ASSUME IndInv, GetWait
  PROVE  IndInv'
<1>1. Size \in 1 .. S - 1 /\ S - r >= 1 /\ r \in Nat /\ rn \in Nat /\ rn > 0
  BY SizeAndFree, SizeAssumption DEF IndInv, TypeOK, Cells, ReaderChunk, GetWait
<1>2. rf' \in 1 .. Size /\ rf' <= rn /\ r + rf' <= S
  BY <1>1, SizeAssumption DEF GetWait, Least
<1> QED
  BY <1>2, ChunkSampled DEF GetWait

(* A get that gives up on an empty ring preserves the invariant.           *)
LEMMA GetEmptyInv ==
  ASSUME IndInv, GetEmpty
  PROVE  IndInv'
<1>1. TypeOK'
  BY DEF IndInv, TypeOK, GetEmpty, shared, writer
<1>2. ReaderChunk' /\ ParserCursor'
  BY DEF IndInv, ReaderChunk, ParserCursor, GetEmpty
<1> QED
  BY <1>1, <1>2, ReaderLocal DEF IndInv, GetEmpty, shared

(* Copying a byte out of the chunk reads the next byte of the stream,      *)
(* whatever the writer does meanwhile.                                     *)
LEMMA GetCopyInv ==
  ASSUME IndInv, GetCopy
  PROVE  IndInv'
<1> DEFINE n == Len(rdst)
<1>1. /\ n \in Nat /\ n < rf /\ rf \in 1 .. Size /\ r + rf <= S /\ rf <= rn
      /\ Size \in 0 .. S - 1 /\ r \in Cells /\ rf \in Nat
      /\ sent \in Seq(Data) /\ rcvd \in Seq(Data) /\ rdst \in Seq(Data)
  BY SizeAndFree, SizeAssumption DEF IndInv, ReaderChunk, TypeOK, GetCopy
<1>2. b[r + n] = sent[Len(rcvd) + n + 1] /\ b[r + n] \in Data
  <2>1. n \in 0 .. Size - 1 /\ Inc(r, n) = r + n
    BY <1>1, SizeAssumption DEF Inc, Cells
  <2>2. b[r + n] = sent[Len(rcvd) + n + 1]
    BY <2>1 DEF IndInv, Content
  <2>3. Len(rcvd) + n + 1 \in 1 .. Len(sent)
    BY <1>1, <2>1, SizeAssumption DEF IndInv, Content
  <2> QED
    BY <1>1, <2>2, <2>3, ElementOfSeq
<1>3. /\ rdst' \in Seq(Data) /\ Len(rdst') = n + 1
      /\ \A k \in 1 .. n : rdst'[k] = rdst[k]
      /\ rdst'[n + 1] = sent[Len(rcvd) + n + 1]
  BY <1>1, <1>2, AppendProperties DEF GetCopy
<1>4. TypeOK'
  BY <1>3 DEF IndInv, TypeOK, GetCopy, shared, writer
<1>5. ReaderChunk'
  <2>1. UNCHANGED <<r, w, rf, rn, rpc, sent, rcvd>> /\ rpc = "copy"
    BY DEF GetCopy, shared
  <2>2. Size' = Size
    BY <2>1 DEF Size
  <2>3. ASSUME NEW k \in 1 .. n + 1
        PROVE  rdst'[k] = sent[Len(rcvd) + k]
    <3>1. CASE k = n + 1
      BY <1>1, <1>3, <3>1
    <3>2. CASE k # n + 1
      <4>1. k \in 1 .. n
        BY <1>1, <3>2
      <4> QED
        BY <1>3, <2>1, <4>1 DEF IndInv, ReaderChunk
    <3> QED
      BY <3>1, <3>2
  <2> QED
    BY <1>1, <1>3, <2>1, <2>2, <2>3 DEF ReaderChunk
<1>6. ParserCursor'
  BY DEF ParserCursor, GetCopy
<1> QED
  BY <1>4, <1>5, <1>6, ReaderLocal DEF IndInv, GetCopy, shared

(* Consuming n elements: get and done advance r by the number of elements  *)
(* they add to the history, and those are the next ones of the stream.     *)
LEMMA Consume ==
  ASSUME IndInv, NEW n \in 0 .. Size, NEW d \in Seq(Data), Len(d) = n,
         \A k \in 1 .. n : d[k] = sent[Len(rcvd) + k],
         r' = Inc(r, n), rcvd' = rcvd \o d, UNCHANGED <<b, w, sent, writer>>
  PROVE  /\ Content' /\ FirstInFirstOut' /\ WriterChunk'
         /\ rcvd' \in Seq(Data) /\ r' \in Cells /\ Size' = Size - n
<1>1. /\ Size \in 0 .. S - 1 /\ Free = S - 1 - Size /\ r \in Cells /\ w \in Cells
      /\ sent \in Seq(Data) /\ rcvd \in Seq(Data) /\ n \in Nat
      /\ Len(sent) \in Nat /\ Len(rcvd) \in Nat
  BY SizeAndFree, SizeAssumption DEF IndInv, TypeOK
<1>2. Len(sent) = Len(rcvd) + Size
  BY <1>1, SizeAssumption DEF IndInv, Content
<1>3. Size' = Size - n
  BY <1>1, ReadMovesSize DEF IndInv
<1>4. r' \in Cells
  <2>1. n \in 0 .. S
    BY <1>1, SizeAssumption
  <2> QED
    BY <1>1, <2>1, IncInRange
<1>5. Free' = Free + n
  <2>1. w' = w /\ w' \in Cells
    BY <1>1
  <2>2. Free' = S - 1 - Size'
    BY <1>4, <2>1, SizeAssumption DEF Free, Size, Cells
  <2> QED
    BY <1>1, <1>3, <2>2, SizeAssumption
<1>6. /\ rcvd' \in Seq(Data) /\ Len(rcvd') = Len(rcvd) + n
      /\ \A k \in 1 .. Len(rcvd) : rcvd'[k] = rcvd[k]
      /\ \A k \in 1 .. n : rcvd'[Len(rcvd) + k] = d[k]
  <2>1. /\ rcvd' \in Seq(Data) /\ Len(rcvd') = Len(rcvd) + Len(d)
        /\ \A k \in 1 .. Len(rcvd) + Len(d) : rcvd'[k] =
              IF k <= Len(rcvd) THEN rcvd[k] ELSE d[k - Len(rcvd)]
    BY <1>1, ConcatProperties
  <2>2. ASSUME NEW k \in 1 .. n
        PROVE  rcvd'[Len(rcvd) + k] = d[k]
    <3>1. Len(rcvd) + k \in 1 .. Len(rcvd) + Len(d) /\ ~(Len(rcvd) + k <= Len(rcvd))
          /\ (Len(rcvd) + k) - Len(rcvd) = k
      BY <1>1
    <3> QED
      BY <2>1, <3>1
  <2>3. ASSUME NEW k \in 1 .. Len(rcvd)
        PROVE  rcvd'[k] = rcvd[k]
    <3>1. k \in 1 .. Len(rcvd) + Len(d) /\ k <= Len(rcvd)
      BY <1>1
    <3> QED
      BY <2>1, <3>1
  <2> QED
    BY <2>1, <2>2, <2>3
<1>7. Content'
  <2>1. ASSUME NEW k \in 0 .. Size - n - 1
        PROVE  b[Inc(r', k)] = sent[Len(rcvd') + k + 1]
    <3>1. n + k \in 0 .. Size - 1 /\ n \in 0 .. S /\ k \in 0 .. S /\ n + k <= S
      BY <1>1, SizeAssumption
    <3>2. Inc(r', k) = Inc(r, n + k)
      BY <1>1, <3>1, IncInc
    <3>3. b[Inc(r, n + k)] = sent[Len(rcvd) + (n + k) + 1]
      BY <3>1 DEF IndInv, Content
    <3>4. Len(rcvd) + (n + k) + 1 = Len(rcvd') + k + 1
      BY <1>1, <1>6, <3>1
    <3> QED
      BY <3>2, <3>3, <3>4
  <2>2. \A k \in 0 .. Size' - 1 : b'[Inc(r', k)] = sent'[Len(rcvd') + k + 1]
    BY <1>1, <1>3, <2>1, SizeAssumption
  <2>3. Len(sent') - Len(rcvd') = Size'
    BY <1>1, <1>2, <1>3, <1>6, SizeAssumption
  <2> QED
    BY <2>2, <2>3 DEF Content
<1>8. FirstInFirstOut'
  <2>1. ASSUME NEW k \in 1 .. Len(rcvd) + n
        PROVE  rcvd'[k] = sent[k]
    <3>1. CASE k <= Len(rcvd)
      <4>1. k \in 1 .. Len(rcvd)
        BY <1>1, <3>1
      <4> QED
        BY <1>6, <4>1 DEF IndInv, FirstInFirstOut
    <3>2. CASE k > Len(rcvd)
      <4>1. k - Len(rcvd) \in 1 .. n /\ Len(rcvd) + (k - Len(rcvd)) = k
        BY <1>1, <3>2
      <4> QED
        BY <1>6, <4>1
    <3> QED
      BY <1>1, <3>1, <3>2
  <2>2. Len(rcvd') <= Len(sent')
    BY <1>1, <1>2, <1>6, SizeAssumption
  <2> QED
    BY <1>6, <2>1, <2>2 DEF FirstInFirstOut
<1>9. WriterChunk'
  <2>1. UNCHANGED <<wpc, wsrc, wf, wi>>
    BY DEF writer
  <2>2. wpc = "copy" => wf \in 1 .. Free'
    BY <1>1, <1>5, SizeAssumption DEF IndInv, WriterChunk
  <2> QED
    BY <2>1, <2>2 DEF IndInv, WriterChunk
<1> QED
  BY <1>3, <1>4, <1>6, <1>7, <1>8, <1>9

(* Giving the chunk back adds what was copied to what was consumed.        *)
LEMMA GetCommitInv ==
  ASSUME IndInv, GetCommit
  PROVE  IndInv'
<1>1. /\ rf \in 0 .. Size /\ rdst \in Seq(Data) /\ Len(rdst) = rf /\ rf \in Nat
      /\ rn \in Nat /\ rf <= rn
      /\ \A k \in 1 .. rf : rdst[k] = sent[Len(rcvd) + k]
  BY SizeAndFree, SizeAssumption DEF IndInv, ReaderChunk, TypeOK, GetCommit
<1>2. r' = Inc(r, rf) /\ rcvd' = rcvd \o rdst /\ UNCHANGED <<b, w, sent, writer>>
  BY DEF GetCommit
<1>3. /\ Content' /\ FirstInFirstOut' /\ WriterChunk'
      /\ rcvd' \in Seq(Data) /\ r' \in Cells
  BY <1>1, <1>2, Consume
<1>4. rdst' = << >> /\ rdst' \in Seq(Data) /\ rn' \in Nat
  BY <1>1 DEF GetCommit
<1>5. rpc' \in {"get", "idle"} /\ (rpc' = "get" => rn' > 0)
  BY <1>1 DEF GetCommit
<1>6. TypeOK'
  BY <1>3, <1>4, <1>5 DEF IndInv, TypeOK, GetCommit, writer
<1>7. ReaderChunk' /\ ParserCursor'
  BY <1>4, <1>5 DEF ReaderChunk, ParserCursor
<1> QED
  BY <1>3, <1>6, <1>7 DEF IndInv

(* set puts the parse index at an unread byte or at the end of them        *)
(* (Pipe.h:196-202).                                                       *)
LEMMA SetInv ==
  ASSUME IndInv, NEW ix \in 0 .. MaxGet, Set(ix)
  PROVE  IndInv'
<1>1. Size \in 0 .. S - 1 /\ ix \in Nat /\ r \in Cells
  BY SizeAndFree, BoundAssumption DEF IndInv, TypeOK
<1>2. off' \in 0 .. Size /\ left' = Size - off' /\ o' = Inc(r, off')
  BY <1>1, SizeAssumption DEF Set, Least
<1>3. o' \in Cells
  <2>1. off' \in 0 .. S
    BY <1>1, <1>2, SizeAssumption
  <2> QED
    BY <1>1, <1>2, <2>1, IncInRange
<1>4. off' \in Nat /\ left' \in Nat /\ peek' = << >> /\ peek' \in Seq(Data)
  BY <1>1, <1>2, SizeAssumption DEF Set
<1>5. TypeOK'
  BY <1>3, <1>4 DEF IndInv, TypeOK, Set, writer
<1>6. ReaderChunk'
  BY DEF IndInv, ReaderChunk, Set
<1>7. ParserCursor'
  <2>1. Size' = Size /\ r' = r
    BY DEF Set, Size
  <2>2. o' = Inc(r', off' + Len(peek'))
    BY <1>2, <1>4, <2>1
  <2>3. off' + left' <= Size'
    <3>1. Size \in Nat
      BY <1>1, SizeAssumption
    <3>2. \A x, y, z \in Nat : y = z - x => x + y <= z
      OBVIOUS
    <3>3. left' = Size - off' /\ off' \in Nat /\ left' \in Nat
      BY <1>2, <1>4
    <3> QED
      BY <2>1, <3>1, <3>2, <3>3
  <2> QED
    BY <1>4, <2>2, <2>3 DEF ParserCursor
<1> QED
  BY <1>5, <1>6, <1>7, ReaderLocal DEF IndInv, Set

(* next peeks at the byte of the stream the parse index stands for.        *)
LEMMA NextElementInv ==
  ASSUME IndInv, NextElement
  PROVE  IndInv'
<1> DEFINE n == Len(peek)
<1>1. /\ n \in Nat /\ n < left /\ off + left <= Size /\ off \in Nat /\ left \in Nat
      /\ Size \in 0 .. S - 1 /\ r \in Cells /\ o = Inc(r, off + n) /\ o \in Cells
      /\ sent \in Seq(Data) /\ rcvd \in Seq(Data) /\ peek \in Seq(Data)
  BY SizeAndFree DEF IndInv, ParserCursor, TypeOK, NextElement
<1>2. b[o] = sent[Len(rcvd) + off + n + 1] /\ b[o] \in Data
  <2>1. off + n \in 0 .. Size - 1
    BY <1>1, SizeAssumption
  <2>2. b[o] = sent[Len(rcvd) + (off + n) + 1]
    BY <1>1, <2>1 DEF IndInv, Content
  <2>3. Len(rcvd) + (off + n) + 1 \in 1 .. Len(sent)
    <3>1. Len(sent) - Len(rcvd) = Size /\ Len(sent) \in Nat /\ Len(rcvd) \in Nat
      BY <1>1 DEF IndInv, Content
    <3>2. Size \in Nat
      BY <1>1, SizeAssumption
    <3> QED
      BY <2>1, <3>1, <3>2
  <2> QED
    BY <1>1, <2>2, <2>3, ElementOfSeq
<1>3. /\ peek' \in Seq(Data) /\ Len(peek') = n + 1
      /\ \A k \in 1 .. n : peek'[k] = peek[k]
      /\ peek'[n + 1] = sent[Len(rcvd) + off + n + 1]
  BY <1>1, <1>2, AppendProperties DEF NextElement
<1>4. o' = Inc(r, off + (n + 1)) /\ o' \in Cells
  <2>1. off + n \in 0 .. S /\ 1 \in 0 .. S /\ (off + n) + 1 <= S
    BY <1>1, SizeAssumption
  <2>2. o' = Inc(o, 1)
    BY DEF NextElement
  <2>3. Inc(Inc(r, off + n), 1) = Inc(r, (off + n) + 1)
    BY <1>1, <2>1, IncInc
  <2>4. (off + n) + 1 = off + (n + 1)
    BY <1>1
  <2> QED
    BY <1>1, <2>1, <2>2, <2>3, <2>4, IncInRange
<1>5. TypeOK'
  BY <1>3, <1>4 DEF IndInv, TypeOK, NextElement, writer
<1>6. ReaderChunk'
  BY DEF IndInv, ReaderChunk, NextElement
<1>7. ParserCursor'
  <2>1. UNCHANGED <<r, w, off, left, sent, rcvd>>
    BY DEF NextElement
  <2>2. Size' = Size
    BY <2>1 DEF Size
  <2>3. ASSUME NEW k \in 1 .. n + 1
        PROVE  peek'[k] = sent[Len(rcvd) + off + k]
    <3>1. CASE k = n + 1
      BY <1>1, <1>3, <3>1
    <3>2. CASE k # n + 1
      <4>1. k \in 1 .. n
        BY <1>1, <3>2
      <4> QED
        BY <1>3, <4>1 DEF IndInv, ParserCursor, NextElement
    <3> QED
      BY <3>1, <3>2
  <2>4. o' = Inc(r', off' + Len(peek'))
    BY <1>3, <1>4, <2>1
  <2> QED
    BY <1>1, <1>3, <2>1, <2>2, <2>3, <2>4 DEF ParserCursor
<1> QED
  BY <1>5, <1>6, <1>7, ReaderLocal DEF IndInv, NextElement

(* What done adds to the history is what was published. *)
LEMMA DoneConsumes ==
  ASSUME IndInv, Done
  PROVE  \E n \in 0 .. Size : \E d \in Seq(Data) :
           /\ Len(d) = n
           /\ \A k \in 1 .. n : d[k] = sent[Len(rcvd) + k]
           /\ r' = Inc(r, n) /\ rcvd' = rcvd \o d
<1> DEFINE n == off + Len(peek)
           d == [k \in 1 .. n |-> b[Inc(r, k - 1)]]
<1>1. /\ n \in 0 .. Size /\ Size \in 0 .. S - 1 /\ o = Inc(r, n)
      /\ sent \in Seq(Data) /\ rcvd \in Seq(Data) /\ n \in Nat
  <2>1. off \in Nat /\ left \in Nat /\ Len(peek) \in Nat
    BY DEF IndInv, TypeOK
  <2>2. off + left <= Size /\ Len(peek) <= left /\ o = Inc(r, off + Len(peek))
    BY DEF IndInv, ParserCursor, Done
  <2>3. Size \in 0 .. S - 1 /\ sent \in Seq(Data) /\ rcvd \in Seq(Data)
    BY SizeAndFree DEF IndInv, TypeOK
  <2> QED
    BY <2>1, <2>2, <2>3, SizeAssumption
<1>2. ASSUME NEW k \in 1 .. n
      PROVE  /\ d[k] = sent[Len(rcvd) + k]
             /\ d[k] \in Data
  <2>1. k - 1 \in 0 .. Size - 1
    BY <1>1, SizeAssumption
  <2>2. b[Inc(r, k - 1)] = sent[Len(rcvd) + (k - 1) + 1]
    BY <2>1 DEF IndInv, Content
  <2>3. Len(rcvd) + (k - 1) + 1 = Len(rcvd) + k
    BY <1>1
  <2>4. Len(rcvd) + k \in 1 .. Len(sent)
    BY <1>1, SizeAssumption DEF IndInv, Content
  <2> QED
    BY <1>1, <2>2, <2>3, <2>4, ElementOfSeq
<1>3. d \in Seq(Data) /\ Len(d) = n
  BY <1>1, <1>2
<1>4. r' = Inc(r, n) /\ rcvd' = rcvd \o d
  BY <1>1 DEF Done
<1> QED
  BY <1>1, <1>2, <1>3, <1>4

(* done consumes the peeked bytes and nothing else (Pipe.h:217-220).       *)
LEMMA DoneInv ==
  ASSUME IndInv, Done
  PROVE  IndInv'
<1>1. PICK n \in 0 .. Size, d \in Seq(Data) :
           /\ Len(d) = n
           /\ \A k \in 1 .. n : d[k] = sent[Len(rcvd) + k]
           /\ r' = Inc(r, n) /\ rcvd' = rcvd \o d
  BY DoneConsumes
<1>2. UNCHANGED <<b, w, sent, writer>>
  BY DEF Done
<1>3. /\ Content' /\ FirstInFirstOut' /\ WriterChunk'
      /\ rcvd' \in Seq(Data) /\ r' \in Cells
  BY <1>1, <1>2, Consume
<1>4. TypeOK'
  BY <1>3 DEF IndInv, TypeOK, Done, writer
<1>5. ReaderChunk' /\ ParserCursor'
  BY DEF IndInv, ReaderChunk, ParserCursor, Done
<1> QED
  BY <1>3, <1>4, <1>5 DEF IndInv

(* Leaving a parse without done preserves the invariant.                   *)
LEMMA ParseReturnInv ==
  ASSUME IndInv, ParseReturn
  PROVE  IndInv'
<1>1. TypeOK'
  BY DEF IndInv, TypeOK, ParseReturn, shared, writer
<1>2. ReaderChunk' /\ ParserCursor'
  BY DEF IndInv, ReaderChunk, ParserCursor, ParseReturn
<1> QED
  BY <1>1, <1>2, ReaderLocal DEF IndInv, ParseReturn, shared

(* The invariant only reads the variables of the module.                   *)
LEMMA StutterInv ==
  ASSUME IndInv, UNCHANGED vars
  PROVE  IndInv'
BY DEF IndInv, vars, shared, writer, reader, TypeOK, Content, WriterChunk,
       ReaderChunk, ParserCursor, FirstInFirstOut, Size, Free, Inc

(* Every step of the two contexts, in any order, preserves the invariant.  *)
THEOREM StepInv == IndInv /\ [Next]_vars => IndInv'
<1> SUFFICES ASSUME IndInv, [Next]_vars PROVE IndInv'
  OBVIOUS
<1>1. CASE WriterNext
  BY <1>1, PutcCallInv, PutCallInv, PutcWaitInv, PutWaitInv, PutFullInv,
     PutCopyInv, PutCommitInv DEF WriterNext, WriterStep
<1>2. CASE ReaderNext
  BY <1>2, GetcCallInv, GetCallInv, GetcWaitInv, GetWaitInv, GetEmptyInv,
     GetCopyInv, GetCommitInv, SetInv, NextElementInv, DoneInv, ParseReturnInv
  DEF ReaderNext, ReaderStep
<1> QED
  BY <1>1, <1>2, StutterInv DEF Next

(* The inductive invariant holds in every reachable state.                 *)
THEOREM Invariance == Spec => []IndInv
  BY InitInv, StepInv, PTL DEF Spec

----------------------------------------------------------------------------
(* The types hold whatever the size and whoever is suspended where. *)
THEOREM TypeCorrect == Spec => []TypeOK
<1>1. IndInv => TypeOK
  BY DEF IndInv
<1> QED
  BY <1>1, Invariance, PTL

(* Nothing is lost, duplicated or reordered between the two contexts: what  *)
(* was consumed is always a prefix of what was published.                   *)
THEOREM PipeIsFirstInFirstOut == Spec => []FirstInFirstOut
<1>1. IndInv => FirstInFirstOut
  BY DEF IndInv
<1> QED
  BY <1>1, Invariance, PTL

(* The writer never stores into a cell the reader still has to read. *)
THEOREM WriterNeverOverwrites == Spec => []NoOverwrite
<1>1. IndInv => NoOverwrite
  <2> SUFFICES ASSUME IndInv, wpc = "copy", NEW k \in wi .. wf - 1
               PROVE  w + k \in Cells \ Unread
    BY DEF NoOverwrite
  <2>1. wi \in Nat /\ wf \in Nat
    BY DEF IndInv, TypeOK
  <2>2. k \in 0 .. wf - 1
    BY <2>1
  <2>3. Len(sent) - Len(rcvd) = Size
    BY DEF IndInv, Content
  <2> QED
    BY <2>2, <2>3, ChunkIsFree DEF Unread
<1> QED
  BY <1>1, Invariance, PTL

(* A match on peeked bytes stays valid while the writer goes on. *)
THEOREM PeekedIsDelivered == Spec => []PeekIsStream
<1>1. IndInv => PeekIsStream
  <2> SUFFICES ASSUME IndInv, rpc = "parse" PROVE PeekIsStream
    BY DEF PeekIsStream
  <2>1. /\ off \in Nat /\ left \in Nat /\ Len(peek) \in Nat
        /\ Len(sent) \in Nat /\ Len(rcvd) \in Nat /\ Size \in Int
    BY SizeAndFree, SizeAssumption DEF IndInv, TypeOK
  <2>2. off + left <= Size /\ Len(peek) <= left /\ Len(sent) - Len(rcvd) = Size
    BY DEF IndInv, ParserCursor, Content
  <2> QED
    BY <2>1, <2>2 DEF IndInv, ParserCursor, PeekIsStream
<1> QED
  BY <1>1, Invariance, PTL

----------------------------------------------------------------------------
(* The refinement.  Publishing a chunk is one Put of the queue, consuming a *)
(* chunk (or what a parser has accepted) is one Get, and every other step   *)
(* is invisible.                                                            *)

(* Publishing a chunk is the put of the bounded queue.                     *)
LEMMA PutCommitIsPut ==
  ASSUME IndInv, PutCommit
  PROVE  Fifo!Put
<1> DEFINE chunk == SubSeq(wsrc, 1, wf)
<1>1. /\ wf \in 1 .. Free /\ wf <= Len(wsrc) /\ wsrc \in Seq(Data)
      /\ Free = S - 1 - Size /\ Size \in 0 .. S - 1
  BY SizeAndFree DEF IndInv, WriterChunk, TypeOK, PutCommit
<1>2. Len(sent) - Len(rcvd) = Size
  BY DEF IndInv, Content
<1>3. /\ chunk \in Seq(Data) /\ Len(chunk) = wf
  BY <1>1, SubSeqProperties, ElementOfSeq, SizeAssumption
<1>4. chunk \in [1 .. wf -> Data]
  BY <1>3, LenProperties
<1>5. wf \in 1 .. (S - 1) - Fifo!Stored
  BY <1>1, <1>2, SizeAssumption DEF Fifo!Stored
<1>6. sent' = sent \o chunk /\ rcvd' = rcvd
  BY DEF PutCommit
<1> QED
  BY <1>4, <1>5, <1>6 DEF Fifo!Put

(* Giving read cells back is the get of the bounded queue.                 *)
LEMMA ConsumeIsGet ==
  ASSUME IndInv, NEW n \in 1 .. Size, NEW d \in Seq(Data), Len(d) = n,
         \A k \in 1 .. n : d[k] = sent[Len(rcvd) + k],
         rcvd' = rcvd \o d, sent' = sent
  PROVE  Fifo!Get
<1> DEFINE m == Len(rcvd) + n
           t == SubSeq(sent, 1, m)
<1>1. /\ Size \in 0 .. S - 1 /\ sent \in Seq(Data) /\ rcvd \in Seq(Data) /\ n \in Nat
      /\ Len(sent) \in Nat /\ Len(rcvd) \in Nat
  BY SizeAndFree, SizeAssumption DEF IndInv, TypeOK
<1>2. Len(sent) - Len(rcvd) = Size
  BY DEF IndInv, Content
<1>3. m \in 0 .. Len(sent) /\ n \in 1 .. Fifo!Stored
  BY <1>1, <1>2, SizeAssumption DEF Fifo!Stored
<1>4. /\ t \in Seq(Data) /\ Len(t) = m
      /\ \A k \in 1 .. m : t[k] = sent[k]
  <2>1. \A k \in 1 .. m : sent[k] \in Data
    BY <1>1, <1>3, ElementOfSeq
  <2>2. /\ t \in Seq(Data) /\ Len(t) = (IF 1 <= m THEN m - 1 + 1 ELSE 0)
        /\ \A k \in 1 .. m - 1 + 1 : t[k] = sent[1 + k - 1]
    BY <1>1, <1>3, <2>1, SubSeqProperties
  <2> QED
    BY <1>1, <1>3, <2>2
<1>5. /\ rcvd' \in Seq(Data) /\ Len(rcvd') = m
      /\ \A k \in 1 .. m : rcvd'[k] = IF k <= Len(rcvd) THEN rcvd[k] ELSE d[k - Len(rcvd)]
  BY <1>1, ConcatProperties
<1>6. ASSUME NEW k \in 1 .. m
      PROVE  rcvd'[k] = t[k]
  <2>1. CASE k <= Len(rcvd)
    <3>1. k \in 1 .. Len(rcvd)
      BY <1>1, <2>1
    <3>2. rcvd'[k] = rcvd[k]
      BY <1>5, <2>1
    <3>3. rcvd[k] = sent[k]
      BY <3>1 DEF IndInv, FirstInFirstOut
    <3> QED
      BY <1>4, <3>2, <3>3
  <2>2. CASE ~(k <= Len(rcvd))
    <3>1. k - Len(rcvd) \in 1 .. n /\ Len(rcvd) + (k - Len(rcvd)) = k
      BY <1>1, <2>2
    <3>2. rcvd'[k] = d[k - Len(rcvd)]
      BY <1>5, <2>2
    <3> QED
      BY <1>4, <3>1, <3>2
  <2> QED
    BY <2>1, <2>2
<1>7. rcvd' = t
  BY <1>4, <1>5, <1>6, SeqEqual
<1> QED
  BY <1>3, <1>7 DEF Fifo!Get

(* What get and getc give back is a get of the bounded queue.              *)
LEMMA GetCommitIsGet ==
  ASSUME IndInv, GetCommit
  PROVE  Fifo!Get
<1>1. /\ rf \in 1 .. Size /\ rdst \in Seq(Data) /\ Len(rdst) = rf
      /\ \A k \in 1 .. rf : rdst[k] = sent[Len(rcvd) + k]
  BY DEF IndInv, ReaderChunk, TypeOK, GetCommit
<1>2. rcvd' = rcvd \o rdst /\ sent' = sent
  BY DEF GetCommit
<1> QED
  BY <1>1, <1>2, ConsumeIsGet

(* What done gives back is a get of the bounded queue.                     *)
LEMMA DoneIsGet ==
  ASSUME IndInv, Done
  PROVE  Fifo!Get \/ UNCHANGED <<sent, rcvd>>
<1>1. PICK n \in 0 .. Size, d \in Seq(Data) :
           /\ Len(d) = n
           /\ \A k \in 1 .. n : d[k] = sent[Len(rcvd) + k]
           /\ r' = Inc(r, n) /\ rcvd' = rcvd \o d
  BY DoneConsumes
<1>2. sent' = sent
  BY DEF Done
<1>3. CASE n = 0
  <2>1. d = << >>
    BY <1>1, <1>3, EmptySeq
  <2>2. rcvd \in Seq(Data)
    BY DEF IndInv, TypeOK
  <2> QED
    BY <1>1, <1>2, <2>1, <2>2, ConcatEmptySeq
<1>4. CASE n # 0
  <2>1. n \in 1 .. Size
    BY <1>4, SizeAndFree, SizeAssumption DEF IndInv
  <2> QED
    BY <1>1, <1>2, <2>1, ConsumeIsGet
<1> QED
  BY <1>3, <1>4

(* Every step of the ring is a put or a get of the bounded queue, or leaves *)
(* the queue as it is.                                                     *)
LEMMA StepRefines ==
  ASSUME IndInv, [Next]_vars
  PROVE  [Fifo!Next]_<<sent, rcvd>>
<1>1. CASE WriterNext
  <2>1. CASE PutCommit
    BY <2>1, PutCommitIsPut DEF Fifo!Next
  <2>2. CASE ~PutCommit
    BY <1>1, <2>2 DEF WriterNext, WriterStep, PutcCall, PutCall, PutcWait,
       PutWait, PutFull, PutCopy
  <2> QED
    BY <2>1, <2>2
<1>2. CASE ReaderNext
  <2>1. CASE GetCommit
    BY <2>1, GetCommitIsGet DEF Fifo!Next
  <2>2. CASE Done
    BY <2>2, DoneIsGet DEF Fifo!Next
  <2>3. CASE ~GetCommit /\ ~Done
    BY <1>2, <2>3 DEF ReaderNext, ReaderStep, GetcCall, GetCall, GetcWait,
       GetWait, GetEmpty, GetCopy, Set, NextElement, ParseReturn
  <2> QED
    BY <2>1, <2>2, <2>3
<1>3. CASE UNCHANGED vars
  BY <1>3 DEF vars
<1> QED
  BY <1>1, <1>2, <1>3 DEF Next

(* Every behaviour of the ring is a behaviour of the bounded queue. *)
THEOREM PipeImplementsFifo == Spec => FifoSpec
<1>1. Init => Fifo!Init
  BY DEF Init, Fifo!Init
<1>2. IndInv /\ [Next]_vars => [Fifo!Next]_Fifo!vars
  BY StepRefines DEF Fifo!vars
<1> QED
  BY <1>1, <1>2, Invariance, PTL DEF Spec, FifoSpec, Fifo!Spec
=============================================================================
