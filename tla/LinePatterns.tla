---------------------------- MODULE LinePatterns ----------------------------
(***************************************************************************)
(* The pattern matchers of MDMParser (MDM.cpp:2191-2314).  A line of the    *)
(* modem is either a match (a fixed start, or a start and an end with       *)
(* something between them) or a formatted line whose number says how many   *)
(* characters of payload follow.  A matcher is given the characters that    *)
(* are in the receive pipe and answers the length of the line, NOT_FOUND,   *)
(* or WAIT when more characters could still decide.                         *)
(*                                                                          *)
(* A character is a one-letter string: "R" and "N" stand for \r and \n,     *)
(* "q" for the quote; the words OK, CME ERROR, USORD and URDFILE are "K",   *)
(* "E", "S" and "F".                                                        *)
(***************************************************************************)
EXTENDS Integers, Sequences, FiniteSetsExt

WAIT == -1
NOT_FOUND == 0

Digits == [d \in {"0", "1", "2", "3", "4"} |->
             CASE d = "0" -> 0 [] d = "1" -> 1 [] d = "2" -> 2
               [] d = "3" -> 3 [] d = "4" -> 4]

(* The first place at or after p whose character satisfies the test, or the *)
(* place after the last character.                                         *)
FirstAt(s, p, Test(_)) ==
    Min({i \in p .. Len(s) : Test(s[i])} \cup {Len(s) + 1})

-----------------------------------------------------------------------------
(* A match: the start, then, when the pattern has an end, at least one     *)
(* character and everything up to the end.                                 *)

StartsWith(s, sta) == \A i \in 1 .. Min({Len(s), Len(sta)}) : s[i] = sta[i]

EndsAt(s, n, end) == SubSeq(s, n - Len(end) + 1, n) = end

ParseMatch(s, sta, end) ==
    LET ends == {n \in Len(sta) + 1 + Len(end) .. Len(s) : EndsAt(s, n, end)}
    IN  CASE ~StartsWith(s, sta)  -> NOT_FOUND
          [] Len(s) < Len(sta)    -> WAIT
          [] end = <<>>           -> Len(sta)
          [] ends = {}            -> WAIT
          [] OTHER                -> Min(ends)

-----------------------------------------------------------------------------
(* A formatted line.  "%d" takes the digits that are there, "%c" as many    *)
(* characters as the last number said, "%s" a quoted text; each of them     *)
(* leaves the character behind it to be compared with the format.           *)

Number(s, from, to) ==
    LET val[i \in from - 1 .. to] ==
          IF i < from THEN 0 ELSE 10 * val[i - 1] + Digits[s[i]]
    IN  val[to]

(* Where the character that follows the conversion is; 0 when the text      *)
(* does not begin with a quote.                                             *)
AfterConversion(s, conv, at, num) ==
    CASE conv = "%d" -> FirstAt(s, at, LAMBDA c : c \notin DOMAIN Digits)
      [] conv = "%c" -> at + num
      [] conv = "%s" /\ s[at] # "q" -> 0
      [] conv = "%s" /\ s[at] = "q" -> FirstAt(s, at + 1, LAMBDA c : c = "q") + 1

RECURSIVE Formated(_, _, _, _)
Formated(s, fmt, o, num) ==
    IF fmt = <<>> THEN o
    ELSE IF o + 1 > Len(s) THEN WAIT
    ELSE LET conv == Head(fmt) \in {"%d", "%c", "%s"}
             rest == IF conv THEN Tail(fmt) ELSE fmt
             at   == IF conv THEN AfterConversion(s, Head(fmt), o + 1, num)
                             ELSE o + 1
             n    == IF Head(fmt) = "%d" THEN Number(s, o + 1, at - 1) ELSE num
         IN  CASE at = 0               -> NOT_FOUND
               [] at > Len(s)          -> WAIT
               [] s[at] # Head(rest)   -> NOT_FOUND
               [] OTHER                -> Formated(s, Tail(rest), at, n)

(* _parseFormated that gives up where the characters end.                   *)
ParseFormatedImpatient(s, fmt) ==
    IF Formated(s, fmt, 0, 0) = WAIT THEN NOT_FOUND ELSE Formated(s, fmt, 0, 0)

ParseFormated(s, fmt) == Formated(s, fmt, 0, 0)

-----------------------------------------------------------------------------
(* The tables of _getLine, one entry of each shape: lutF first, then lut in *)
(* the order of the code.  The shape of +USORF and +NSORF is left out: the  *)
(* address in it only adds numbers to that of +USORD.                       *)

CRLF == <<"R", "N">>

lutF == << [fmt |-> CRLF \o <<"+", "S", "%d", ",", "%d", ",", "q", "%c", "q">>,
            type |-> "PLUS"],
           [fmt |-> CRLF \o <<"+", "F", "%s", ",", "%d", ",", "q", "%c", "q">>,
            type |-> "PLUS"] >>

lut == << [sta |-> CRLF \o <<"K">> \o CRLF, end |-> <<>>, type |-> "OK"],
          [sta |-> CRLF \o <<"+", "E">>,    end |-> CRLF, type |-> "ERROR_CME"],
          [sta |-> CRLF \o <<"+">>,         end |-> CRLF, type |-> "PLUS"],
          [sta |-> CRLF \o <<"@">>,         end |-> <<>>, type |-> "PROMPT"],
          [sta |-> CRLF \o <<">">>,         end |-> <<>>, type |-> "PROMPT"],
          [sta |-> <<"N", ">">>,            end |-> <<>>, type |-> "PROMPT"] >>

LinePatterns == [i \in 1 .. Len(lutF) + Len(lut) |->
    IF i <= Len(lutF)
    THEN [type |-> lutF[i].type, formated |-> TRUE, at |-> i]
    ELSE [type |-> lut[i - Len(lutF)].type, formated |-> FALSE, at |-> i - Len(lutF)]]

(* What the i-th attempt of _getLine answers for the characters s.          *)
TryLine(s, i) ==
    LET p == LinePatterns[i]
    IN  IF p.formated THEN ParseFormated(s, lutF[p.at].fmt)
                      ELSE ParseMatch(s, lut[p.at].sta, lut[p.at].end)
=============================================================================
