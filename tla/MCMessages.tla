----------------------------- MODULE MCMessages -----------------------------
(* MessageReader with short messages of every kind a device sends. *)
EXTENDS MessageReader

Msg(type, text) == [type |-> type, text |-> text, fields |-> <<>>]

\* The modem: lines with and without a payload, payloads that look like
\* lines, prompts, and text that is no line.
Q == <<"q">>
Usord(n, payload) ==
    Msg("PLUS", CRLF \o <<"+", "S", "0", ",">> \o n \o <<",">> \o Q \o payload \o Q)
MdmLines == {
    Msg("OK", CRLF \o <<"K">> \o CRLF),
    Msg("ERROR_CME", CRLF \o <<"+", "E", "x">> \o CRLF),
    Msg("PLUS", CRLF \o <<"+", "x">> \o CRLF),
    Usord(<<"0">>, <<>>),
    Usord(<<"3">>, <<"q", "R", "N">>),
    Msg("PLUS", CRLF \o <<"+", "F">> \o Q \o <<"x">> \o Q \o <<",", "2", ",">>
                     \o Q \o CRLF \o Q),
    Msg("PROMPT", CRLF \o <<"@">>),
    Msg("PROMPT", <<"N", ">">>) }
\* More text than the reader looks at: what follows it is never seen.
MdmText == Msg("UNKNOWN", [i \in 1 .. 24 |-> "x"])
MdmLong == Usord(<<"1", "0">>, CRLF \o <<"K">> \o CRLF \o CRLF \o <<"+">> \o CRLF)
MdmNoise == { Msg("UNKNOWN", <<"x">>), Msg("UNKNOWN", <<"R", "x">>),
              Msg("UNKNOWN", [i \in 1 .. 7 |-> "x"]) }

\* The receiver: NMEA messages with fields, UBX messages whose payload looks
\* like another message, and bytes that only begin like one.
Field(text, int, angle) == [text |-> text, int |-> int, angle |-> angle]
Word(text) == Field(text, NoItem, NoItem)
Nmea(f) ==
    LET items == [i \in 1 .. Len(f) |->
                    IF i = 1 THEN f[1].text ELSE <<COMMA>> \o f[i].text]
        body  == FlattenSeq(items)
    IN  [type |-> "NMEA", fields |-> f,
         text |-> body \o <<STAR>> \o NmeaTail(Crc(Tail(body)))]
Ubx(payload) == Msg("UBX", SendUbx(1, 2, payload))
\* $G and $G,,0112,S: an empty field, then 1 degree and 12 minutes south.
GpsMsgs == { Nmea(<<Word(<<DOLLAR, 71>>)>>),
             Nmea(<<Word(<<DOLLAR, 71>>), Word(<<>>),
                    Field(<<48, 49, 49, 50>>, Item(112), Item(-72)), Word(<<83>>)>>),
             Ubx(<<>>), Ubx(<<36, 181, 98>>) }
GpsNoise == { Msg("UNKNOWN", <<0>>), Msg("UNKNOWN", <<181>>),
              Msg("UNKNOWN", <<36, 71, 42, 48, 48, 13, 10>>),
              Msg("UNKNOWN", <<181, 98, 1, 2, 9, 0>>),
              Msg("UNKNOWN", <<181, 98, 1, 2, 1, 1>>) }
GpsFull == << Msg("UNKNOWN", <<36>> \o [i \in 1 .. 30 |-> 71]) >>

Sequences3(a, b, c) == {<<x, y, z>> : x \in a, y \in b, z \in c}
Pairs(a, b) == {<<x, y>> : x \in a, y \in b}

MCStreams ==
    {[device |-> "mdm", messages |-> m] :
        m \in Pairs(MdmLines, MdmLines) \cup Sequences3(MdmNoise, MdmLines, MdmNoise)
              \cup Sequences3(MdmNoise, MdmNoise, MdmLines)
              \cup {<<MdmLong>>, <<MdmText, MdmLong>>}}
    \cup
    {[device |-> d, messages |-> m] :
        d \in {"gpsSerial", "gpsI2C"},
        m \in Pairs(GpsMsgs, GpsMsgs) \cup Sequences3(GpsNoise, GpsMsgs, GpsNoise)
              \cup {GpsFull}}
=============================================================================
