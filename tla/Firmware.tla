------------------------------ MODULE Firmware ------------------------------
(***************************************************************************)
(* The firmware from main down to the driver: the loop of main.cpp, the    *)
(* LwM2M client MbedClient (simpleclient.h) and the network stack CellNet  *)
(* (CellInterface.cpp).  The socket functions of the driver are atomic     *)
(* here, with the results MdmSockets shows for them.                       *)
(*                                                                         *)
(* The mbed client library, the modem with its network and the server are  *)
(* external.  The library binds, sends and receives through CellNet,       *)
(* matches a response to its request, works on one request at a time and   *)
(* reports the end of each through the callbacks of MbedClient.            *)
(***************************************************************************)
EXTENDS Integers, Sequences

CONSTANTS
  MaxTries,      \* bound on the binds the library tries
  MaxInFlight,   \* bound on the datagrams on their way
  MaxLost        \* bound on the answers and datagrams lost

ASSUME FirmwareAssumption ==
  MaxTries \in Nat \ {0} /\ MaxInFlight \in Nat \ {0} /\ MaxLost \in Nat

VARIABLES
  main,               \* where main() is
  client,             \* the fields of MbedClient
  mysocket,           \* the static of CellInterface.cpp
  slot, pending,      \* slot 0 of the driver: its handle, what is announced
  task, step, tries,  \* the library: its request, how far it is, binds tried
  joined, open, held, \* the modem: attached, its sockets, datagrams it holds
  uplink, downlink,   \* datagrams to and from the server
  server,             \* the server has a registration of this client
  accepted,           \* history: the server has accepted one
  lost                \* history: answers and datagrams lost

cell    == <<mysocket, slot, pending>>
library == <<task, step, tries>>
modem   == <<joined, open, held>>
network == <<uplink, downlink>>
vars    == <<main, client, cell, library, modem, network, server, accepted, lost>>

NoSocket == -1
Old(q)   == [i \in DOMAIN q |-> [q[i] EXCEPT !.fresh = FALSE]]

Init ==
  /\ main = "connect"
  /\ client = [interface |-> FALSE, registered |-> FALSE, unregistered |-> FALSE,
               error |-> FALSE]
  /\ mysocket = NoSocket /\ slot = NoSocket /\ pending = 0
  /\ task = "none" /\ step = "idle" /\ tries = 0
  /\ joined = FALSE /\ open = {} /\ held = << >>
  /\ uplink = << >> /\ downlink = << >>
  /\ server = FALSE /\ accepted = FALSE /\ lost = 0

----------------------------------------------------------------------------
(* The callbacks of MbedClient. *)

ObjectRegistered == client' = [client EXCEPT !.registered = TRUE, !.unregistered = FALSE]

RegistrationUpdated == UNCHANGED client

(* error that only prints. *)
ErrorPrinted == UNCHANGED client

Error == client' = [client EXCEPT !.error = TRUE]

----------------------------------------------------------------------------
(* main. *)

(* connect makes the driver and runs init, registerNet, join; its result   *)
(* is false in every case and main does not look at it.                    *)
Connect ==
  /\ main = "connect" /\ main' = "create"
  /\ joined' \in BOOLEAN
  /\ UNCHANGED <<client, cell, library, open, held, network, server, accepted, lost>>

(* The library may have no memory for the interface. *)
CreateInterface ==
  /\ main = "create" /\ main' = "register"
  /\ \E made \in BOOLEAN : client' = [client EXCEPT !.interface = made]
  /\ UNCHANGED <<cell, library, modem, network, server, accepted, lost>>

TestRegister ==
  /\ main = "register" /\ main' = "wait"
  /\ IF client.interface THEN task' = "register" /\ step' = "bind" ELSE UNCHANGED <<task, step>>
  /\ UNCHANGED <<client, cell, tries, modem, network, server, accepted, lost>>

(* wait_ms of five minutes; everybody else goes on meanwhile. *)
WaitEnds ==
  /\ main = "wait" /\ main' = "update"
  /\ UNCHANGED <<client, cell, library, modem, network, server, accepted, lost>>

(* An update that is asked for before there is a registration. *)
UpdateAlways ==
  /\ main = "update" /\ main' = "wait"
  /\ IF client.interface /\ task = "none"
     THEN task' = "update" /\ step' = "bind" /\ UNCHANGED client
     ELSE UNCHANGED <<client, task, step>>
  /\ UNCHANGED <<cell, tries, modem, network, server, accepted, lost>>

(* An update that is not asked for once there was an error. *)
UpdateUnlessError ==
  /\ main = "update" /\ main' = "wait"
  /\ IF client.registered /\ ~client.error /\ task = "none"
     THEN task' = "update" /\ step' = "bind" /\ UNCHANGED client
     ELSE UNCHANGED <<client, task, step>>
  /\ UNCHANGED <<cell, tries, modem, network, server, accepted, lost>>

(* The library refuses an update (NotAllowed) while it has a request. *)
TestUpdateRegister ==
  /\ main = "update" /\ main' = "wait"
  /\ \/ /\ client.registered /\ task = "none"
        /\ task' = "update" /\ step' = "bind"
        /\ UNCHANGED client
     \/ client.registered /\ task # "none" /\ Error /\ UNCHANGED <<task, step>>
     \/ ~client.registered /\ UNCHANGED <<client, task, step>>
  /\ UNCHANGED <<cell, tries, modem, network, server, accepted, lost>>

----------------------------------------------------------------------------
(* CellNet on the driver. *)

(* socketSocket: whatever the handle h the modem gives out, the driver     *)
(* keeps 0 (the callback runs for the OK too), in slot 0, and returns 0.   *)
(* The modem may refuse, and its answer may be lost.                       *)
SocketSocket(result) ==
  \/ /\ \/ result = 0 /\ slot' = 0 /\ pending' = 0 /\ UNCHANGED lost
        \/ result = NoSocket /\ lost < MaxLost /\ lost' = lost + 1 /\ UNCHANGED <<slot, pending>>
     /\ \E h \in 0 .. MaxTries \ open : 0 .. h - 1 \subseteq open /\ open' = open \cup {h}
  \/ result = NoSocket /\ UNCHANGED <<open, slot, pending, lost>>

(* socket_bind that does not look at what socketSocket returned. *)
SocketBindUnchecked(result) ==
  /\ result = 0
  /\ \/ /\ mysocket < 0
        /\ \E s \in {0, NoSocket} : SocketSocket(s) /\ mysocket' = s
     \/ mysocket >= 0 /\ UNCHANGED <<open, slot, pending, mysocket, lost>>

SocketBind(result) ==
  \/ mysocket < 0 /\ SocketSocket(result) /\ mysocket' = result
  \/ /\ mysocket >= 0 /\ result = 0
     /\ UNCHANGED <<open, slot, pending, mysocket, lost>>

(* socket_sendto uses socket 0 of the modem and reports success in every   *)
(* case.                                                                   *)
SocketSendTo(m) ==
  uplink' = IF joined /\ 0 \in open THEN Append(Old(uplink), m) ELSE Old(uplink)

(* socket_recvfrom reads socket 0 of the modem, one datagram; without one  *)
(* announced it returns after its time-out.                                *)
SocketRecvFrom(m) ==
  /\ pending > 0 /\ held # << >> /\ m = Head(held)
  /\ held' = Tail(held) /\ pending' = pending - 1

----------------------------------------------------------------------------
(* The mbed client library (external). *)

Idle == task' = "none" /\ step' = "idle"

(* A request begins with the socket; a bind that fails is tried again or   *)
(* reported.                                                               *)
LibraryBinds ==
  /\ step = "bind"
  /\ \E result \in {0, NoSocket} :
       /\ SocketBind(result)
       /\ \/ result = 0 /\ step' = "send" /\ UNCHANGED <<task, client, tries>>
          \/ /\ result # 0 /\ tries + 1 < MaxTries /\ tries' = tries + 1
             /\ UNCHANGED <<task, step, client>>
          \/ result # 0 /\ Error /\ Idle /\ UNCHANGED tries
  /\ UNCHANGED <<main, joined, held, network, server, accepted>>

LibrarySends ==
  /\ step = "send" /\ step' = "await"
  /\ Len(uplink) + Len(downlink) + Len(held) < MaxInFlight
  /\ SocketSendTo([kind |-> task, fresh |-> TRUE])
  /\ downlink' = Old(downlink) /\ held' = Old(held)
  /\ UNCHANGED <<main, client, cell, task, tries, joined, open, server, accepted, lost>>

(* What comes in that is no response to the request is dropped. *)
LibraryReceives ==
  /\ step \in {"send", "await"}
  /\ \E m \in {held[i] : i \in DOMAIN held} :
       /\ SocketRecvFrom(m)
       /\ \/ /\ step = "await" /\ m.fresh /\ m.kind = "created" /\ ObjectRegistered /\ Idle
          \/ /\ step = "await" /\ m.fresh /\ m.kind = "changed" /\ RegistrationUpdated /\ Idle
          \/ /\ step = "await" /\ m.fresh /\ m.kind = "refused" /\ Error /\ Idle
          \/ ~(step = "await" /\ m.fresh) /\ UNCHANGED <<client, task, step>>
  /\ UNCHANGED <<main, mysocket, slot, tries, joined, open, network, server, accepted, lost>>

LibraryGivesUp ==
  /\ step = "await" /\ Error /\ Idle
  /\ UNCHANGED <<main, cell, tries, modem, network, server, accepted, lost>>

----------------------------------------------------------------------------
(* The modem, the network and the server (external). *)

Respond(kind) == downlink' = Append(downlink, [kind |-> kind, fresh |-> Head(uplink).fresh])

ServerAnswers ==
  /\ uplink # << >> /\ uplink' = Tail(uplink)
  /\ \/ /\ Head(uplink).kind = "register"
        /\ server' = TRUE /\ accepted' = TRUE /\ Respond("created")
     \/ /\ Head(uplink).kind = "update" /\ server
        /\ Respond("changed") /\ UNCHANGED <<server, accepted>>
     \/ /\ Head(uplink).kind = "register" \/ ~server
        /\ Respond("refused") /\ UNCHANGED <<server, accepted>>
  /\ UNCHANGED <<main, client, cell, library, modem, lost>>

(* The lifetime of 300 seconds ends without an update. *)
RegistrationLapses ==
  /\ server /\ server' = FALSE
  /\ UNCHANGED <<main, client, cell, library, modem, network, accepted, lost>>

(* The modem announces a datagram with what it holds; the announcement     *)
(* finds the slot by the handle, and may be lost.                          *)
DatagramArrives ==
  /\ downlink # << >> /\ 0 \in open
  /\ downlink' = Tail(downlink) /\ held' = Append(held, Head(downlink))
  /\ \/ pending' = (IF slot = 0 THEN Len(held') ELSE pending) /\ UNCHANGED lost
     \/ lost < MaxLost /\ lost' = lost + 1 /\ UNCHANGED pending
  /\ UNCHANGED <<main, client, mysocket, slot, library, joined, open, uplink, server,
                 accepted>>

DatagramLost ==
  /\ lost < MaxLost /\ lost' = lost + 1
  /\ \/ uplink # << >> /\ uplink' = Tail(uplink) /\ UNCHANGED downlink
     \/ downlink # << >> /\ downlink' = Tail(downlink) /\ UNCHANGED uplink
  /\ UNCHANGED <<main, client, cell, library, modem, server, accepted>>

----------------------------------------------------------------------------
Main    == Connect \/ CreateInterface \/ TestRegister \/ WaitEnds \/ TestUpdateRegister
Library == LibraryBinds \/ LibrarySends \/ LibraryReceives \/ LibraryGivesUp

Next ==
  \/ Main \/ Library
  \/ ServerAnswers \/ RegistrationLapses \/ DatagramArrives \/ DatagramLost

(* main and the library's thread are scheduled, and the network delivers   *)
(* or loses what is on its way.                                            *)
Spec ==
  /\ Init /\ [][Next]_vars
  /\ WF_vars(Main) /\ WF_vars(Library) /\ WF_vars(ServerAnswers) /\ WF_vars(DatagramArrives)

----------------------------------------------------------------------------
(* The variables have their types, and a request is where it can be. *)
TypeOK ==
  /\ main \in {"connect", "create", "register", "wait", "update"}
  /\ client \in [interface : BOOLEAN, registered : BOOLEAN, unregistered : BOOLEAN,
                 error : BOOLEAN]
  /\ mysocket \in {NoSocket, 0} /\ slot \in {NoSocket, 0}
  /\ pending \in 0 .. Len(held)
  /\ task \in {"none", "register", "update"} /\ (task = "none" <=> step = "idle")
  /\ step \in {"idle", "bind", "send", "await"} /\ tries \in 0 .. MaxTries - 1
  /\ open \subseteq 0 .. MaxTries
  /\ Len(uplink) + Len(downlink) + Len(held) <= MaxInFlight

(* Once socket_bind has returned 0, the socket 0 that socket_sendto and     *)
(* socket_recvfrom use is open in the modem and slot 0 of the driver gets   *)
(* its announcements, even if the answer to an earlier socketSocket was     *)
(* lost and the modem gave out another handle this time.                    *)
BoundIsUsable == step \in {"send", "await"} => 0 \in open /\ slot = 0

(* The client counts itself registered, and asks for updates, only after    *)
(* the server has accepted a registration.                                  *)
RegisteredWasAccepted == (client.registered \/ task = "update") => accepted

(* If there is an interface, the one registration main asks for ends with   *)
(* the client registered or with an error noted, whatever gets lost.        *)
RegistrationReported ==
  (main = "wait" /\ client.interface) ~> (client.registered \/ client.error)

(* A client that counts itself registered asks for an update, again and     *)
(* again, whatever errors it has met.                                       *)
UpdatesGoOn == client.registered ~> (task = "update")
=============================================================================
