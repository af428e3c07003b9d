--------------------------- MODULE SocketService ---------------------------
(***************************************************************************)
(* What the socket functions promise to the application.  A call makes its *)
(* requests to the modem one at a time; a request is carried out once or   *)
(* refused, within the call that made it; and what the call returns is     *)
(* decided by the fate of these requests.  An answer may be lost, then the *)
(* call learns nothing of the fate of its request.  Sockets close and data *)
(* arrives at any time.  The only socket the driver ever means is the one  *)
(* with handle 0, in slot 0.                                               *)
(***************************************************************************)
EXTENDS Integers

CONSTANTS
  Slots,      \* the sockets of the application
  Handles     \* handles the modem can give out

VARIABLES
  call, slot,    \* the function being executed and its socket
  handle,        \* the handle in slot 0
  request,       \* what the call has asked of the modem last
  block,         \* how many bytes or datagrams of it
  fate,          \* what became of it: "none" when nothing is asked
  moved,         \* bytes or datagrams the call has moved before
  result,        \* the last function and what it returned
  lost,          \* lines from the modem that were lost
  open, conn,    \* the modem: its open and its connected sockets
  held           \* the bytes it holds for each socket

asking == <<request, block, fate>>
modem  == <<open, conn, held>>
vars   == <<call, slot, handle, asking, moved, result, lost, modem>>

NoSlot   == -1
NoHandle == -1

Requests == [socket   |-> {"NSOCR"}, connect |-> {"UDNSRN", "NSOCO"},
             close    |-> {"NSOCL"}, free    |-> {"NSOCL"},
             sendTo   |-> {"NSOST"}, recv    |-> {"USORD"}, recvFrom |-> {"NSORF"},
             readable |-> {}]
Reads    == {"USORD", "NSORF"}
OnSocket == {"NSOCO", "NSOCL"} \cup Reads

Init ==
  /\ call = "none" /\ slot = NoSlot /\ handle = NoHandle
  /\ request = "none" /\ block = 0 /\ fate = "none" /\ moved = 0
  /\ result = [op |-> "none", value |-> 0] /\ lost = 0
  /\ open = {} /\ conn = {} /\ held = [h \in Handles |-> 0]

----------------------------------------------------------------------------
(* The calls. *)

(* So many bytes can be had from the modem. *)
Available(n) == lost > 0 \/ 0 \notin open \/ n <= held[0]

Amount(k, n) ==
  /\ k \in Reads => n \in Nat \ {0} /\ Available(n)
  /\ k = "NSOST" => n = 1
  /\ k \notin Reads \cup {"NSOST"} => n = 0

(* Function f asks the modem for k. *)
Asks(f, s, k) ==
  /\ k \in Requests[f] /\ (k \in OnSocket => handle = 0 /\ s = 0)
  /\ request' = k /\ fate' = "asked" /\ Amount(k, block')

AsksNothing == request' = "none" /\ block' = 0 /\ fate' = "none"

Begin ==
  /\ call = "none" /\ call' \in DOMAIN Requests /\ slot' \in Slots \cup {NoSlot}
  /\ AsksNothing \/ \E k \in Requests[call'] : Asks(call', slot', k)
  /\ moved' = 0 /\ UNCHANGED <<handle, result, lost, modem>>

(* The next request: the connect of a host name waits for its address.     *)
Ask ==
  /\ call # "none"
  /\ fate = "none" \/ (request = "UDNSRN" /\ fate = "OK" /\ request' = "NSOCO")
  /\ \E k \in Requests[call] : Asks(call, slot, k)
  /\ UNCHANGED <<call, slot, handle, moved, result, lost, modem>>

(* A part is done, the call goes on: a receive when it has been read, a    *)
(* send in any case.                                                       *)
GoOn ==
  /\ \/ call = "recv" /\ fate = "OK"
     \/ call = "sendTo" /\ fate \in {"OK", "ERROR", "unknown"}
  /\ moved' = moved + block /\ AsksNothing
  /\ UNCHANGED <<call, slot, handle, result, lost, modem>>

(* What a call may return. *)
Outcome(v) ==
  \/ call = "socket" /\ fate # "none" /\ v = IF fate = "OK" THEN 0 ELSE -1
  \/ call = "connect" /\ v = IF request = "NSOCO" /\ fate = "OK" THEN 1 ELSE 0
  \/ call = "close" /\ v = IF fate = "OK" THEN 1 ELSE 0
  \/ call = "free" /\ v = 1
  \/ call = "sendTo" /\ fate = "none" /\ moved > 0 /\ v = moved
  \/ call = "readable" /\ (v = -1 \/ (v \in Int /\ Available(v)))
  \/ call \in {"recv", "recvFrom"} /\ fate = "OK" /\ v = moved + block
  \/ call \in {"recv", "recvFrom"} /\ fate \in {"ERROR", "unknown"} /\ v = -1
  \/ call = "recv" /\ fate = "none" /\ (v = moved \/ (v = -1 /\ ~(handle = 0 /\ slot = 0)))
  \/ call = "recvFrom" /\ fate = "none" /\ v = 0

Return ==
  /\ call # "none" /\ call' = "none" /\ fate # "asked"
  /\ Outcome(result'.value) /\ result' = [op |-> call, value |-> result'.value]
  /\ handle' = CASE call = "socket" /\ fate = "OK" -> 0
                 [] call = "free" /\ slot = 0 -> NoHandle
                 [] OTHER -> handle
  /\ slot' = NoSlot /\ moved' = 0 /\ AsksNothing
  /\ UNCHANGED <<lost, modem>>

----------------------------------------------------------------------------
(* The modem and the network. *)

Effect ==
  \/ /\ request = "NSOCR"
     /\ \E h \in Handles \ open :
          open' = open \cup {h} /\ held' = [held EXCEPT ![h] = 0]
     /\ UNCHANGED conn
  \/ /\ request = "NSOCO" /\ 0 \in open
     /\ conn' = conn \cup {0} /\ UNCHANGED <<open, held>>
  \/ /\ request = "NSOCL" /\ 0 \in open
     /\ open' = open \ {0} /\ conn' = conn \ {0} /\ held' = [held EXCEPT ![0] = 0]
  \/ /\ request \in Reads /\ 0 \in open
     /\ held' = [held EXCEPT ![0] = IF block < @ THEN @ - block ELSE 0]
     /\ UNCHANGED <<open, conn>>
  \/ request \in {"UDNSRN", "NSOST"} /\ UNCHANGED modem

Answer ==
  /\ fate = "asked"
  /\ \/ fate' = "OK" /\ Effect
     \/ fate' = "ERROR" /\ UNCHANGED modem
  /\ UNCHANGED <<call, slot, handle, request, block, moved, result, lost>>

LineLost ==
  /\ lost' = lost + 1
  /\ fate' = fate \/ (fate \in {"OK", "ERROR"} /\ fate' = "unknown")
  /\ UNCHANGED <<call, slot, handle, request, block, moved, result, modem>>

DataArrives(h) ==
  /\ h \in open
  /\ held'[h] > held[h] /\ held' = [held EXCEPT ![h] = held'[h]]
  /\ UNCHANGED <<call, slot, handle, asking, moved, result, lost, open, conn>>

RemoteCloses(h) ==
  /\ h \in conn /\ conn' = conn \ {h}
  /\ UNCHANGED <<call, slot, handle, asking, moved, result, lost, open, held>>

----------------------------------------------------------------------------
Next ==
  \/ Begin \/ Ask \/ GoOn \/ Return \/ Answer \/ LineLost
  \/ \E h \in Handles : DataArrives(h) \/ RemoteCloses(h)

Spec == Init /\ [][Next]_vars
=============================================================================
