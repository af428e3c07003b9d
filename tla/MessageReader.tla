--------------------------- MODULE MessageReader ----------------------------
(***************************************************************************)
(* Getting whole messages out of a stream of bytes.  The receive interrupt  *)
(* puts the bytes of the device into a pipe one at a time (of GPSI2C the    *)
(* reader fetches them itself); a thread calls getLine (MDM) or getMessage  *)
(* (GPS), which looks at what is in the pipe at that moment and takes a     *)
(* message, some bytes it knows nothing about, or nothing.                  *)
(***************************************************************************)
EXTENDS LinePatterns, GpsMessages

CONSTANTS
    Streams,      \* what a device may send: [device, messages, ...]
    PipeCap,      \* what the receive pipe holds (255 in the code)
    BufLen,       \* length of the caller's buffer (MAX_SIZE + 64 = 192)
    MaxBurst      \* bytes that arrive between size() and free(), at most

(* A pipe that is full has more in it than the reader looks at, even when   *)
(* it was not yet full when its size was taken.                             *)
ASSUME PipeAssumption == /\ {PipeCap, BufLen, MaxBurst} \subseteq Nat \ {0}
                         /\ BufLen + MaxBurst < PipeCap

VARIABLES
    stream,       \* the device, the messages it sends and their bytes
    arrived,      \* bytes the device has sent
    taken,        \* of these, how many have reached the pipe or were dropped
    pipe,         \* places in the stream of the bytes in the pipe
    size,         \* the call in progress: pipe->size(), or -1
    answer,       \* what the last call answered
    got,          \* the messages handed out: [from, to, type]
    overflow,     \* a byte was dropped
    expected      \* of the stream: its messages, and whether it is readable

vars == <<expected, stream, arrived, taken, pipe, size, answer, got, overflow>>

Gps == stream.device \in {"gpsSerial", "gpsI2C"}

(* The I2C reader fetches through the caller's buffer, which must be as     *)
(* large as the pipe.                                                       *)
Window == IF stream.device = "gpsI2C" THEN PipeCap ELSE BufLen

Bytes == stream.bytes

TextOf(places) == [i \in 1 .. Len(places) |-> Bytes[places[i]]]

TextsOf(messages) == FlattenSeq([i \in 1 .. Len(messages) |-> messages[i].text])

-----------------------------------------------------------------------------
(* The two tokenizers.  Both try every recogniser at the first byte, then   *)
(* at the second, and stop at the first one that says more than NOT_FOUND   *)
(* and that they act upon.  They differ in what they do about a beginning   *)
(* that is not complete, and at the end of the bytes.                       *)

Recognisers == IF Gps THEN 1 .. 2 ELSE DOMAIN LinePatterns

TypeOfAnswer(i) == IF Gps THEN <<"NMEA", "UBX">>[i] ELSE LinePatterns[i].type

Try(s, i) == IF ~Gps THEN TryLine(s, i)
             ELSE IF i = 1 THEN ParseNmea(s) ELSE ParseUbx(s)

(* What an attempt at the byte after the first unkn ones decides, fr being  *)
(* the free space of the pipe: "" when it decides nothing, else the answer. *)
Waits == [type |-> "WAIT", n |-> 0]
Unknown(n) == [type |-> "UNKNOWN", n |-> n]
Undecided == [type |-> "", n |-> 0]

(* getLine that does not hand out the text it knows nothing about.          *)
GetLineKeepsUnknown(unkn, i, ln, fr) ==
    CASE ln = WAIT /\ fr > 0   -> Waits
      [] ln > 0 /\ unkn = 0    -> [type |-> TypeOfAnswer(i), n |-> ln]
      [] OTHER                 -> Undecided

GetLine(unkn, i, ln, fr) ==
    CASE ln = WAIT /\ fr > 0         -> Waits
      [] ~(ln = WAIT /\ fr > 0) ->
           CASE ln # NOT_FOUND /\ unkn > 0 -> Unknown(unkn)
             [] ln > 0 /\ unkn = 0         -> [type |-> TypeOfAnswer(i), n |-> ln]
             [] OTHER                      -> Undecided

(* getMessage that waits for the rest of a message even if the pipe is full.*)
GetMessageWaits(unkn, i, ln, fr) ==
    CASE ln # NOT_FOUND /\ unkn > 0 -> Unknown(unkn)
      [] ~(ln # NOT_FOUND /\ unkn > 0) ->
           CASE ln = WAIT -> Waits
             [] ln > 0    -> [type |-> TypeOfAnswer(i), n |-> ln]
             [] OTHER     -> Undecided

GetMessage(unkn, i, ln, fr) ==
    CASE ln # NOT_FOUND /\ unkn > 0 -> Unknown(unkn)
      [] ~(ln # NOT_FOUND /\ unkn > 0) ->
           CASE ln = WAIT /\ fr > 0 -> Waits
             [] ln > 0             -> [type |-> TypeOfAnswer(i), n |-> ln]
             [] OTHER              -> Undecided

(* The end of the loop: every byte was looked at and none begins a message. *)
GetLineEnd(len) == Waits
GetMessageEnd(len) == IF len > 0 THEN Unknown(len) ELSE Waits

Attempt(s, unkn, i, fr) ==
    LET ln == Try(SubSeq(s, unkn + 1, Len(s)), i)
    IN  IF Gps THEN GetMessage(unkn, i, ln, fr) ELSE GetLine(unkn, i, ln, fr)

RECURSIVE Tokenize(_, _, _, _)
Tokenize(s, unkn, i, fr) ==
    IF unkn = Len(s) THEN IF Gps THEN GetMessageEnd(Len(s)) ELSE GetLineEnd(Len(s))
    ELSE LET attempt == Attempt(s, unkn, i, fr)
         IN  CASE attempt # Undecided -> attempt
               [] attempt = Undecided /\ i + 1 \in Recognisers -> Tokenize(s, unkn, i + 1, fr)
               [] OTHER -> Tokenize(s, unkn + 1, 1, fr)

-----------------------------------------------------------------------------
(* The messages of the stream with their places.                            *)
Place(i) ==
    LET before == Len(TextsOf(SubSeq(stream.messages, 1, i - 1)))
    IN  [from |-> before + 1, to |-> before + Len(stream.messages[i].text),
         type |-> stream.messages[i].type]

Sent == {m \in {Place(i) : i \in DOMAIN stream.messages} : m.type # "UNKNOWN"}

(* What the reader can get through.  getLine keeps what it knows nothing    *)
(* about until a line follows it within the caller's buffer; getMessage     *)
(* waits for the rest of whatever looks like the beginning of a message.    *)
Noise(i) == stream.messages[i].type = "UNKNOWN"

LengthOf(from, to) == Len(TextsOf(SubSeq(stream.messages, from, to)))

Readable ==
    IF Gps
    THEN \A i \in DOMAIN stream.messages : Noise(i) =>
           LET text == stream.messages[i].text
           IN  \A u \in DOMAIN text, r \in Recognisers :
                   Try(SubSeq(text, u, Len(text)), r) = NOT_FOUND
    ELSE \A from, to \in DOMAIN stream.messages :
           (from <= to /\ \A k \in from .. to - 1 : Noise(k)) =>
               LengthOf(from, to) <= Window

-----------------------------------------------------------------------------
Init ==
    /\ \E s \in Streams :
          stream = [device |-> s.device, messages |-> s.messages,
                    bytes |-> TextsOf(s.messages)]
    /\ expected = [messages |-> Sent, readable |-> Readable]
    /\ arrived = 0 /\ taken = 0 /\ pipe = <<>>
    /\ size = -1
    /\ answer = Waits
    /\ got = {} /\ overflow = FALSE

(* rxIrqBuf: the interrupt moves the byte into the pipe, or drops it.       *)
RxIrqBuf ==
    /\ stream.device # "gpsI2C"
    /\ arrived < Len(Bytes)
    /\ size >= 0 => Len(pipe) < size + MaxBurst
    /\ arrived' = arrived + 1 /\ taken' = arrived'
    /\ IF Len(pipe) < PipeCap
       THEN pipe' = Append(pipe, arrived') /\ UNCHANGED overflow
       ELSE overflow' = TRUE /\ UNCHANGED pipe
    /\ UNCHANGED <<expected, stream, size, answer, got>>

(* Behind I2C the device keeps its bytes until they are fetched.            *)
DeviceBuffers ==
    /\ stream.device = "gpsI2C"
    /\ arrived < Len(Bytes)
    /\ arrived' = arrived + 1
    /\ UNCHANGED <<expected, stream, taken, pipe, size, answer, got, overflow>>

(* The call: getLine and GPSSerial::getMessage take the size of the pipe.   *)
CallSerial ==
    /\ stream.device # "gpsI2C"
    /\ size = -1
    /\ size' = Len(pipe)
    /\ UNCHANGED <<expected, stream, arrived, taken, pipe, answer, got, overflow>>

(* GPSI2C::getMessage first fills the pipe with what the device has and the *)
(* pipe has room for; a transfer that fails brings nothing.                 *)
CallI2C ==
    /\ stream.device = "gpsI2C"
    /\ size = -1
    /\ \E n \in {0, Min({PipeCap - Len(pipe), arrived - taken})} :
          /\ pipe' = pipe \o [i \in 1 .. n |-> taken + i]
          /\ taken' = taken + n
    /\ size' = Len(pipe')
    /\ UNCHANGED <<expected, stream, arrived, answer, got, overflow>>

(* The rest of the call: the free space, the loop, and pipe->get.           *)
Return ==
    /\ size >= 0
    /\ \E token \in {Tokenize(TextOf(SubSeq(pipe, 1, Min({Window, size}))), 0, 1,
                                PipeCap - Len(pipe))} :
          /\ answer' = token
          /\ pipe' = SubSeq(pipe, token.n + 1, Len(pipe))
          /\ got' = IF token.type \in {"WAIT", "UNKNOWN"} THEN got
                    ELSE got \cup {[from |-> pipe[1], to |-> pipe[token.n],
                                    type |-> token.type]}
    /\ size' = -1
    /\ UNCHANGED <<expected, stream, arrived, taken, overflow>>

Next == RxIrqBuf \/ DeviceBuffers \/ CallSerial \/ CallI2C \/ Return

(* The device sends what it sends, every call returns (Return is enabled    *)
(* exactly when size # -1), the thread calls again and the transfers do not *)
(* fail for ever.                                                           *)
Fairness ==
    /\ WF_vars(RxIrqBuf) /\ WF_vars(DeviceBuffers)
    /\ WF_vars(CallSerial) /\ []<>(size = -1)
    /\ WF_vars(CallI2C) /\ SF_vars(CallI2C /\ taken' > taken)

Spec == Init /\ [][Next]_vars /\ Fairness

-----------------------------------------------------------------------------
(* The first byte of the stream that is still to be handed out.             *)
Head1 == IF pipe = <<>> THEN taken + 1 ELSE pipe[1]

(* Unless bytes were dropped, the messages handed out are exactly those the *)
(* device sent, each whole and with its type, in whatever pieces they came, *)
(* at whatever moment the thread looked and whatever they carry: a line end *)
(* or an OK inside a payload is not a line, a line is not cut at the end of *)
(* what has arrived.                                                        *)
LinesWhole ==
    ~overflow => got = {m \in expected.messages : m.to < Head1}

(* Every field of a message of the GPS is found where the message has it,   *)
(* an empty one or one behind the last is not found, and getNmeaItem and    *)
(* getNmeaAngle read from it the number or the angle that was sent, none    *)
(* where there is none.                                                     *)
FieldsAreRead ==
    \A m \in got, i \in DOMAIN stream.messages :
        (m.type = "NMEA" /\ m = Place(i) /\ ~overflow) =>
            LET s == stream.messages[i].text
                fields == stream.messages[i].fields
            IN  \A ix \in 0 .. Len(fields) :
                    IF ix < Len(fields) /\ fields[ix + 1].text # <<>>
                    THEN LET field == fields[ix + 1]
                             pos   == FindNmeaItemPos(ix, s)
                         IN  /\ SubSeq(s, pos, pos + Len(field.text) - 1) = field.text
                             /\ GetNmeaInt(ix, s) = field.int
                             /\ GetNmeaAngle(ix, s) = field.angle
                    ELSE FindNmeaItemPos(ix, s) = 0

(* Every message of a readable stream is handed out, unless bytes were      *)
(* dropped: the reader never waits for something that need not come.        *)
EveryMessageRead ==
    expected.readable => <>(overflow \/ got = expected.messages)

(* The GPS reader gets out of a full pipe, whatever is in it.               *)
NeverDeaf ==
    (Gps /\ Len(pipe) = PipeCap) ~> (Len(pipe) < PipeCap)
=============================================================================
