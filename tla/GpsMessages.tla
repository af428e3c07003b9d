---------------------------- MODULE GpsMessages -----------------------------
(***************************************************************************)
(* The messages of GPSParser (GPS.cpp:15-225): what the two recognisers     *)
(* answer for the bytes of the receive pipe, what sendUbx puts on the wire, *)
(* and how a field of an NMEA message is found and read.  Bytes are         *)
(* numbers 0..255 (char is unsigned on the ARM targets of this code).       *)
(***************************************************************************)
EXTENDS Integers, Sequences, SequencesExt, Bitwise

LOCAL INSTANCE LinePatterns

DOLLAR == 36
STAR == 42
COMMA == 44
CR == 13
LF == 10

toHex == <<48, 49, 50, 51, 52, 53, 54, 55, 56, 57, 65, 66, 67, 68, 69, 70>>

IsPrint(c) == c \in 32 .. 126

Crc(s) == FoldLeft(LAMBDA c, ch : c ^^ ch, 0, s)

(* Do the bytes that are there agree with the expected ones from place p?   *)
Agrees(s, p, expected) ==
    \A i \in 1 .. Len(expected) : p + i - 1 <= Len(s) => s[p + i - 1] = expected[i]

NmeaTail(crc) == <<toHex[1 + (crc \div 16)], toHex[1 + (crc % 16)], CR, LF>>

ParseNmea(s) ==
    LET star == FirstAt(s, 2, LAMBDA c : c = STAR \/ ~IsPrint(c))
        tail == NmeaTail(Crc(SubSeq(s, 2, star - 1)))
    IN  CASE s = <<>>                      -> WAIT
          [] s # <<>> /\ s[1] # DOLLAR     -> NOT_FOUND
          [] s # <<>> /\ s[1] = DOLLAR ->
               CASE star > Len(s)               -> WAIT
                 [] star <= Len(s) /\ s[star] # STAR -> NOT_FOUND
                 [] OTHER ->
                      CASE ~Agrees(s, star + 1, tail) -> NOT_FOUND
                        [] Len(s) < star + 4          -> WAIT
                        [] OTHER                      -> star + 4

(* The two sums of a UBX message over class, id, length and payload.        *)
Checksum(s) ==
    LET sums == FoldLeft(LAMBDA c, ch : <<c[1] + ch, c[2] + (c[1] + ch)>>, <<0, 0>>, s)
    IN  <<sums[1] % 256, sums[2] % 256>>

UbxHead == <<181, 98>>

ParseUbx(s) ==
    LET n == s[5] + 256 * s[6]
    IN  CASE ~Agrees(s, 1, UbxHead) -> NOT_FOUND
          [] Agrees(s, 1, UbxHead) ->
               CASE Len(s) < 6      -> WAIT
                 [] Len(s) >= 6 /\ Len(s) < 6 + n -> WAIT
                 [] OTHER ->
                      CASE ~Agrees(s, 7 + n, Checksum(SubSeq(s, 3, 6 + n))) -> NOT_FOUND
                        [] Len(s) < 8 + n -> WAIT
                        [] OTHER          -> 8 + n

SendUbx(cls, id, buf) ==
    LET body == <<cls, id, Len(buf) % 256, (Len(buf) \div 256) % 256>> \o buf
    IN  UbxHead \o body \o Checksum(body)

-----------------------------------------------------------------------------
(* The fields of an NMEA message.                                           *)

RECURSIVE SkipItems(_, _, _)
SkipItems(ix, s, p) ==
    IF p <= Len(s) /\ ix > 0
    THEN SkipItems(IF s[p] = COMMA THEN ix - 1 ELSE ix, s, p + 1)
    ELSE [ix |-> ix, pos |-> p]

ItemEnds == {COMMA, STAR, CR, LF}

(* findNmeaItemPos that does not see that a field is empty.                 *)
FindNmeaItemPosEmpty(ix, s) ==
    LET at == SkipItems(ix, s, 1)
    IN  IF at.ix = 0 /\ at.pos <= Len(s) THEN at.pos ELSE 0

(* The place of the first character of field ix, 0 for NULL.                *)
FindNmeaItemPos(ix, s) ==
    LET at == SkipItems(ix, s, 1)
    IN  IF at.ix = 0 /\ at.pos <= Len(s) /\ s[at.pos] \notin ItemEnds
        THEN at.pos ELSE 0

NoItem == [found |-> FALSE, val |-> 0]
Item(v) == [found |-> TRUE, val |-> v]

IsDigit(c) == c \in 48 .. 57

(* strtol at the field: the digits in front, and whether there was one.     *)
GetNmeaInt(ix, s) ==
    LET pos == FindNmeaItemPos(ix, s)
        to  == FirstAt(s, pos, LAMBDA c : ~IsDigit(c)) - 1
    IN  IF pos = 0 \/ to < pos THEN NoItem
        ELSE Item(FoldLeft(LAMBDA v, c : (10 * v) + (c - 48), 0, SubSeq(s, pos, to)))

GetNmeaChar(ix, s) ==
    LET pos == FindNmeaItemPos(ix, s)
        at  == FirstAt(s, pos, LAMBDA c : c # 32)
    IN  IF pos = 0 \/ at > Len(s) \/ s[at] \in ItemEnds THEN NoItem ELSE Item(s[at])

(* An angle is ddmm and a hemisphere in the next field; here in minutes.    *)
GetNmeaAngle(ix, s) ==
    LET val == GetNmeaInt(ix, s)
        ch  == GetNmeaChar(ix + 1, s)
        minutes == 60 * (val.val \div 100) + (val.val % 100)
    IN  IF ~val.found \/ ~ch.found \/ ch.val \notin {83, 78, 69, 87} THEN NoItem
        ELSE Item(IF ch.val \in {83, 87} THEN -minutes ELSE minutes)
=============================================================================
