--------------------------- MODULE FirmwareProofs ---------------------------
(***************************************************************************)
(* Proofs about Firmware for every number of tries, datagrams on their way *)
(* and losses: the types, that a bound socket is usable, and that a client *)
(* that counts itself registered has been accepted.                        *)
(*                                                                         *)
(* BoundIsUsable is not inductive: when a request is sent the bind of an   *)
(* earlier one may be long past.  Bound carries what that bind has found   *)
(* in mysocket, which no failure takes back.  Likewise a response that     *)
(* makes the client registered may be on its way for long; Created says of *)
(* all of them that the server has accepted before.                        *)
(***************************************************************************)
EXTENDS Firmware, SequenceTheorems, TLAPS

Request  == [kind : {"register", "update"}, fresh : BOOLEAN]
Response == [kind : {"created", "changed", "refused"}, fresh : BOOLEAN]

Datagrams ==
  /\ uplink \in Seq(Request) /\ downlink \in Seq(Response) /\ held \in Seq(Response)

Bound ==
  /\ mysocket = 0 => 0 \in open /\ slot = 0
  /\ step \in {"send", "await"} => mysocket = 0

CreatedIn(q) == \A i \in 1 .. Len(q) : q[i].kind = "created" => accepted
Created      == CreatedIn(downlink) /\ CreatedIn(held)

IndInv == TypeOK /\ Datagrams /\ Bound /\ Created /\ RegisteredWasAccepted

----------------------------------------------------------------------------
(* The elements of a sequence. *)
LEMMA Elements ==
  ASSUME NEW R, NEW q \in Seq(R)
  PROVE  DOMAIN q = 1 .. Len(q) /\ \A i \in 1 .. Len(q) : q[i] \in R
OBVIOUS

(* Forgetting which request a datagram belongs to changes nothing else.    *)
LEMMA OldKeeps ==
  ASSUME NEW K, NEW R, R = [kind : K, fresh : BOOLEAN], NEW q \in Seq(R)
  PROVE  /\ Old(q) \in Seq(R)
         /\ Len(Old(q)) = Len(q)
         /\ \A i \in 1 .. Len(q) : Old(q)[i].kind = q[i].kind
<1>1. DOMAIN q = 1 .. Len(q) /\ \A i \in 1 .. Len(q) : q[i] \in R
  BY Elements
<1>2. \A r \in R : [r EXCEPT !.fresh = FALSE] \in R /\ [r EXCEPT !.fresh = FALSE].kind = r.kind
  OBVIOUS
<1>3. \A i \in 1 .. Len(q) : Old(q)[i] = [q[i] EXCEPT !.fresh = FALSE]
  BY <1>1 DEF Old
<1>4. \A i \in 1 .. Len(q) : Old(q)[i] \in R /\ Old(q)[i].kind = q[i].kind
  BY <1>1, <1>2, <1>3
<1>5. Old(q) = [i \in 1 .. Len(q) |-> Old(q)[i]]
  BY <1>1 DEF Old
<1>6. Len(q) \in Nat
  OBVIOUS
<1> QED
  BY <1>4, <1>5, <1>6

(* What socketSocket does to the slot and to the modem (MDM.cpp:1044-1078): *)
(* a socket it returns is socket 0 of the modem, in slot 0.                 *)
LEMMA SocketSocketEffect ==
  ASSUME TypeOK, Datagrams, held' = held,
         NEW result \in {0, NoSocket}, SocketSocket(result)
  PROVE  /\ open \subseteq open' /\ open' \subseteq 0 .. MaxTries
         /\ slot' \in {NoSocket, 0} /\ pending' \in 0 .. Len(held')
         /\ slot = 0 => slot' = 0
         /\ result = 0 => 0 \in open' /\ slot' = 0
<1>0. Len(held) \in Nat /\ NoSocket # 0
  BY DEF Datagrams, NoSocket
<1>1. CASE \E h \in 0 .. MaxTries \ open : 0 .. h - 1 \subseteq open /\ open' = open \cup {h}
  <2> PICK h \in 0 .. MaxTries \ open : 0 .. h - 1 \subseteq open /\ open' = open \cup {h}
    BY <1>1
  <2>1. 0 \in open'
    <3>1. CASE h = 0
      BY <3>1
    <3>2. CASE h # 0
      <4>1. 0 \in 0 .. h - 1
        BY <3>2, FirmwareAssumption
      <4> QED
        BY <4>1
    <3> QED
      BY <3>1, <3>2
  <2> QED
    BY <1>0, <2>1, FirmwareAssumption DEF SocketSocket, TypeOK
<1>2. CASE result = NoSocket /\ UNCHANGED <<open, slot, pending, lost>>
  BY <1>0, <1>2 DEF TypeOK
<1> QED
  BY <1>1, <1>2 DEF SocketSocket

----------------------------------------------------------------------------
(* The inductive invariant holds when the firmware starts. *)
THEOREM InitInv == Init => IndInv
<1> SUFFICES ASSUME Init PROVE IndInv
  OBVIOUS
<1>1. uplink = << >> /\ downlink = << >> /\ held = << >> /\ pending = 0
  BY DEF Init
<1>2. Len(<< >>) = 0 /\ << >> \in Seq(Request) /\ << >> \in Seq(Response)
  OBVIOUS
<1>3. TypeOK
  BY <1>1, <1>2, FirmwareAssumption DEF Init, TypeOK, NoSocket
<1> QED
  BY <1>1, <1>2, <1>3
     DEF IndInv, Init, Datagrams, Bound, Created, CreatedIn, RegisteredWasAccepted, NoSocket

(* The steps of main (main.cpp:151-189). *)
LEMMA MainStep ==
  ASSUME IndInv, Main
  PROVE  IndInv'
<1> USE DEF IndInv
<1>1. /\ UNCHANGED <<mysocket, slot, pending, tries, open, held, uplink, downlink, accepted>>
      /\ Datagrams' /\ Created'
  BY DEF Main, Connect, CreateInterface, TestRegister, WaitEnds, TestUpdateRegister,
         Datagrams, Created, CreatedIn, cell, library, modem, network
<1>2. CASE Connect
  BY <1>1, <1>2 DEF Connect, TypeOK, Bound, RegisteredWasAccepted, library
<1>3. CASE CreateInterface
  BY <1>1, <1>3 DEF CreateInterface, TypeOK, Bound, RegisteredWasAccepted, library
<1>4. CASE TestRegister
  BY <1>1, <1>4 DEF TestRegister, TypeOK, Bound, RegisteredWasAccepted
<1>5. CASE WaitEnds
  BY <1>1, <1>5 DEF WaitEnds, TypeOK, Bound, RegisteredWasAccepted, library
<1>6. CASE TestUpdateRegister
  <2>1. CASE client.registered /\ task = "none" /\ task' = "update" /\ step' = "bind" /\ UNCHANGED client
    BY <1>1, <1>6, <2>1 DEF TestUpdateRegister, TypeOK, Bound, RegisteredWasAccepted
  <2>2. CASE client.registered /\ task # "none" /\ Error /\ UNCHANGED <<task, step>>
    <3>1. /\ client' \in [interface : BOOLEAN, registered : BOOLEAN, unregistered : BOOLEAN,
                          error : BOOLEAN]
          /\ client'.registered = client.registered
      BY <2>2 DEF Error, TypeOK
    <3> QED
      BY <1>1, <1>6, <2>2, <3>1 DEF TestUpdateRegister, TypeOK, Bound, RegisteredWasAccepted
  <2>3. CASE ~client.registered /\ UNCHANGED <<client, task, step>>
    BY <1>1, <1>6, <2>3 DEF TestUpdateRegister, TypeOK, Bound, RegisteredWasAccepted
  <2> QED
    BY <1>6, <2>1, <2>2, <2>3 DEF TestUpdateRegister
<1> QED
  BY <1>2, <1>3, <1>4, <1>5, <1>6 DEF Main

(* A bind, whether it makes a socket or finds one (CellInterface.cpp:167).  *)
LEMMA BindStep ==
  ASSUME IndInv, LibraryBinds
  PROVE  IndInv'
<1> USE DEF IndInv
<1>1. /\ step = "bind"
      /\ UNCHANGED <<main, joined, held, uplink, downlink, server, accepted>>
  BY DEF LibraryBinds, network
<1>2. Datagrams' /\ Created'
  BY <1>1 DEF Datagrams, Created, CreatedIn
<1>3. PICK result \in {0, NoSocket} :
        /\ SocketBind(result)
        /\ \/ result = 0 /\ step' = "send" /\ UNCHANGED <<task, client, tries>>
           \/ /\ result # 0 /\ tries + 1 < MaxTries /\ tries' = tries + 1
              /\ UNCHANGED <<task, step, client>>
           \/ result # 0 /\ Error /\ Idle /\ UNCHANGED tries
  BY DEF LibraryBinds
<1>4. /\ open' \subseteq 0 .. MaxTries
      /\ mysocket' \in {NoSocket, 0} /\ slot' \in {NoSocket, 0}
      /\ pending' \in 0 .. Len(held')
      /\ mysocket' = 0 => 0 \in open' /\ slot' = 0
      /\ result = 0 => mysocket' = 0
  <2>1. CASE mysocket < 0 /\ SocketSocket(result) /\ mysocket' = result
    BY <1>1, <2>1, SocketSocketEffect
  <2>2. CASE /\ mysocket >= 0 /\ result = 0
             /\ UNCHANGED <<open, slot, pending, mysocket, lost>>
    BY <1>1, <2>2 DEF TypeOK, Bound, NoSocket
  <2> QED
    BY <1>3, <2>1, <2>2 DEF SocketBind
<1>5. /\ task' \in {"none", "register", "update"} /\ (task' = "none" <=> step' = "idle")
      /\ step' \in {"idle", "bind", "send"} /\ tries' \in 0 .. MaxTries - 1
      /\ client' \in [interface : BOOLEAN, registered : BOOLEAN, unregistered : BOOLEAN,
                      error : BOOLEAN]
      /\ client'.registered = client.registered
      /\ task' \in {task, "none"}
  <2>1. CASE result = 0 /\ step' = "send" /\ UNCHANGED <<task, client, tries>>
    BY <1>1, <2>1 DEF TypeOK
  <2>2. CASE /\ result # 0 /\ tries + 1 < MaxTries /\ tries' = tries + 1
             /\ UNCHANGED <<task, step, client>>
    BY <1>1, <2>2, FirmwareAssumption DEF TypeOK
  <2>3. CASE result # 0 /\ Error /\ Idle /\ UNCHANGED tries
    BY <1>1, <2>3 DEF TypeOK, Error, Idle
  <2> QED
    BY <1>3, <2>1, <2>2, <2>3
<1>6. TypeOK'
  BY <1>1, <1>4, <1>5 DEF TypeOK
<1>7. Bound'
  BY <1>1, <1>3, <1>4 DEF Bound, Idle
<1>8. RegisteredWasAccepted'
  BY <1>1, <1>5 DEF RegisteredWasAccepted
<1> QED
  BY <1>2, <1>6, <1>7, <1>8

(* A request goes out; what was on its way is now old.                     *)
LEMMA SendStep ==
  ASSUME IndInv, LibrarySends
  PROVE  IndInv'
<1> USE DEF IndInv
<1>1. /\ step = "send" /\ step' = "await"
      /\ UNCHANGED <<main, client, mysocket, slot, pending, task, tries, joined, open,
                     server, accepted, lost>>
      /\ Len(uplink) + Len(downlink) + Len(held) < MaxInFlight
      /\ downlink' = Old(downlink) /\ held' = Old(held)
  BY DEF LibrarySends, cell
<1>2. /\ downlink' \in Seq(Response) /\ held' \in Seq(Response)
      /\ Len(downlink') = Len(downlink) /\ Len(held') = Len(held)
      /\ \A i \in 1 .. Len(downlink) : downlink'[i].kind = downlink[i].kind
      /\ \A i \in 1 .. Len(held) : held'[i].kind = held[i].kind
  BY <1>1, OldKeeps DEF Datagrams, Response
<1>3. uplink' \in Seq(Request) /\ Len(uplink') <= Len(uplink) + 1
  <2> DEFINE m == [kind |-> task, fresh |-> TRUE]
  <2>1. m \in Request
    BY <1>1 DEF TypeOK, Request
  <2>2. Old(uplink) \in Seq(Request) /\ Len(Old(uplink)) = Len(uplink)
    BY OldKeeps DEF Datagrams, Request
  <2>3. uplink' \in {Append(Old(uplink), m), Old(uplink)}
    BY DEF LibrarySends, SocketSendTo
  <2>4. CASE uplink' = Append(Old(uplink), m)
    BY <2>1, <2>2, <2>4
  <2>5. CASE uplink' = Old(uplink)
    BY <2>2, <2>5
  <2> QED
    BY <2>3, <2>4, <2>5
<1>4. Len(uplink) \in Nat /\ Len(uplink') \in Nat /\ Len(downlink) \in Nat /\ Len(held) \in Nat
  BY <1>2, <1>3 DEF Datagrams
<1>5. TypeOK'
  BY <1>1, <1>2, <1>3, <1>4, FirmwareAssumption DEF TypeOK
<1> QED
  BY <1>1, <1>2, <1>3, <1>5 DEF Datagrams, Created, CreatedIn, Bound, RegisteredWasAccepted

(* A datagram is read and is the response, or is dropped.                  *)
LEMMA ReceiveStep ==
  ASSUME IndInv, LibraryReceives
  PROVE  IndInv'
<1> USE DEF IndInv
<1>1. /\ step \in {"send", "await"}
      /\ UNCHANGED <<main, mysocket, slot, tries, open, uplink, downlink, accepted>>
  BY DEF LibraryReceives, network
<1>2. PICK m \in {held[i] : i \in DOMAIN held} :
        /\ SocketRecvFrom(m)
        /\ \/ /\ step = "await" /\ m.fresh /\ m.kind = "created" /\ ObjectRegistered /\ Idle
           \/ /\ step = "await" /\ m.fresh /\ m.kind = "changed" /\ RegistrationUpdated /\ Idle
           \/ /\ step = "await" /\ m.fresh /\ m.kind = "refused" /\ Error /\ Idle
           \/ ~(step = "await" /\ m.fresh) /\ UNCHANGED <<client, task, step>>
  BY DEF LibraryReceives
<1>3. /\ held # << >> /\ m = held[1] /\ held' = Tail(held)
      /\ pending > 0 /\ pending' = pending - 1
  BY <1>2 DEF SocketRecvFrom, Datagrams
<1>4. /\ held' \in Seq(Response) /\ Len(held') = Len(held) - 1 /\ Len(held) \in Nat
      /\ \A i \in 1 .. Len(held') : held'[i] = held[i + 1]
  BY <1>3 DEF Datagrams
<1>5. Datagrams' /\ Created'
  BY <1>1, <1>4 DEF Datagrams, Created, CreatedIn
<1>6. m.kind = "created" => accepted
  BY <1>3, <1>4 DEF Created, CreatedIn, Datagrams
<1>7. /\ client' \in [interface : BOOLEAN, registered : BOOLEAN, unregistered : BOOLEAN,
                      error : BOOLEAN]
      /\ task' \in {task, "none"} /\ step' \in {step, "idle"}
      /\ task' = "none" <=> step' = "idle"
      /\ client'.registered => client.registered \/ m.kind = "created"
  BY <1>1, <1>2 DEF TypeOK, ObjectRegistered, RegistrationUpdated, Error, Idle
<1>8. TypeOK'
  <2>1. pending' \in 0 .. Len(held')
    BY <1>3, <1>4 DEF TypeOK
  <2>2. Len(uplink') + Len(downlink') + Len(held') <= MaxInFlight
    BY <1>1, <1>4, FirmwareAssumption DEF TypeOK, Datagrams
  <2> QED
    BY <1>1, <1>7, <2>1, <2>2 DEF TypeOK
<1>9. Bound'
  BY <1>1, <1>7 DEF Bound
<1>10. RegisteredWasAccepted'
  BY <1>1, <1>6, <1>7 DEF RegisteredWasAccepted
<1> QED
  BY <1>5, <1>8, <1>9, <1>10

(* The library gives a request up.                                         *)
LEMMA GiveUpStep ==
  ASSUME IndInv, LibraryGivesUp
  PROVE  IndInv'
BY DEF IndInv, LibraryGivesUp, Error, Idle, cell, modem, network, TypeOK, Datagrams, Bound,
       Created, CreatedIn, RegisteredWasAccepted

(* The server answers; what it accepts is accepted before the client hears. *)
LEMMA ServerStep ==
  ASSUME IndInv, ServerAnswers
  PROVE  IndInv'
<1> USE DEF IndInv
<1>1. /\ uplink # << >> /\ uplink' = Tail(uplink)
      /\ UNCHANGED <<main, client, mysocket, slot, pending, task, step, tries, open, held>>
  BY DEF ServerAnswers, cell, library, modem
<1>2. \E k \in {"created", "changed", "refused"} :
        /\ Respond(k) /\ (k = "created" => accepted') /\ (accepted => accepted')
  BY DEF ServerAnswers
<1>3. PICK k \in {"created", "changed", "refused"} :
        /\ Respond(k) /\ (k = "created" => accepted') /\ (accepted => accepted')
  BY <1>2
<1> DEFINE m == [kind |-> k, fresh |-> Head(uplink).fresh]
<1>4. m \in Response /\ m.kind = k
  <2>1. Head(uplink) \in Request
    BY <1>1 DEF Datagrams
  <2> QED
    BY <2>1 DEF Request, Response
<1>5. downlink' = Append(downlink, m)
  BY <1>3 DEF Respond
<1>6. /\ uplink' \in Seq(Request) /\ downlink' \in Seq(Response)
      /\ Len(uplink') = Len(uplink) - 1 /\ Len(downlink') = Len(downlink) + 1
      /\ Len(uplink) \in Nat /\ Len(downlink) \in Nat /\ Len(held) \in Nat
  BY <1>1, <1>4, <1>5 DEF Datagrams
<1>7. \A i \in 1 .. Len(downlink') : downlink'[i] \in {downlink[i], m}
                                     /\ (i <= Len(downlink) => downlink'[i] = downlink[i])
                                     /\ (i > Len(downlink) => downlink'[i] = m)
  BY <1>4, <1>5, <1>6 DEF Datagrams
<1>8. Created'
  <2>1. CreatedIn(held)'
    BY <1>1, <1>3 DEF Created, CreatedIn
  <2>2. ASSUME NEW i \in 1 .. Len(downlink'), downlink'[i].kind = "created"
        PROVE  accepted'
    <3>1. CASE i <= Len(downlink)
      BY <1>3, <1>6, <1>7, <2>2, <3>1 DEF Created, CreatedIn
    <3>2. CASE i > Len(downlink)
      BY <1>3, <1>4, <1>6, <1>7, <2>2, <3>2
    <3> QED
      BY <1>6, <3>1, <3>2
  <2> QED
    BY <2>1, <2>2 DEF Created, CreatedIn
<1>9. TypeOK'
  BY <1>1, <1>6, FirmwareAssumption DEF TypeOK
<1> QED
  BY <1>1, <1>3, <1>6, <1>8, <1>9 DEF Datagrams, Bound, RegisteredWasAccepted

(* A registration ends at the server, which nobody hears of. *)
LEMMA LapseStep ==
  ASSUME IndInv, RegistrationLapses
  PROVE  IndInv'
BY DEF IndInv, RegistrationLapses, cell, library, modem, network, TypeOK, Datagrams, Bound,
       Created, CreatedIn, RegisteredWasAccepted

(* A datagram comes to the modem, which announces it (MDM.cpp:196-205).     *)
LEMMA ArriveStep ==
  ASSUME IndInv, DatagramArrives
  PROVE  IndInv'
<1> USE DEF IndInv
<1> DEFINE m == Head(downlink)
<1>1. /\ downlink # << >> /\ downlink' = Tail(downlink) /\ held' = Append(held, m)
      /\ pending' \in {Len(held'), pending}
      /\ UNCHANGED <<main, client, mysocket, slot, task, step, tries, open, uplink, accepted>>
  BY DEF DatagramArrives, library
<1>2. /\ m \in Response /\ m = downlink[1] /\ 1 \in 1 .. Len(downlink)
      /\ downlink' \in Seq(Response) /\ held' \in Seq(Response)
      /\ Len(downlink') = Len(downlink) - 1 /\ Len(held') = Len(held) + 1
      /\ Len(uplink) \in Nat /\ Len(downlink) \in Nat /\ Len(held) \in Nat
  BY <1>1 DEF Datagrams
<1>3. /\ \A i \in 1 .. Len(downlink') : downlink'[i] = downlink[i + 1]
      /\ \A i \in 1 .. Len(held) : held'[i] = held[i]
      /\ held'[Len(held) + 1] = m
  BY <1>1, <1>2 DEF Datagrams
<1>4. CreatedIn(downlink)'
  BY <1>1, <1>2, <1>3 DEF Created, CreatedIn
<1>5. CreatedIn(held)'
  <2>1. ASSUME NEW i \in 1 .. Len(held'), held'[i].kind = "created"
        PROVE  accepted'
    <3>1. CASE i <= Len(held)
      BY <1>1, <1>2, <1>3, <2>1, <3>1 DEF Created, CreatedIn
    <3>2. CASE i = Len(held) + 1
      BY <1>1, <1>2, <1>3, <2>1, <3>2 DEF Created, CreatedIn
    <3> QED
      BY <1>2, <3>1, <3>2
  <2> QED
    BY <2>1 DEF CreatedIn
<1>6. TypeOK'
  <2>1. pending' \in 0 .. Len(held')
    BY <1>1, <1>2 DEF TypeOK
  <2>2. Len(uplink') + Len(downlink') + Len(held') <= MaxInFlight
    BY <1>1, <1>2, FirmwareAssumption DEF TypeOK
  <2> QED
    BY <1>1, <2>1, <2>2 DEF TypeOK
<1> QED
  BY <1>1, <1>2, <1>4, <1>5, <1>6 DEF Datagrams, Created, Bound, RegisteredWasAccepted

(* A datagram is lost on its way.                                          *)
LEMMA LossStep ==
  ASSUME IndInv, DatagramLost
  PROVE  IndInv'
<1> USE DEF IndInv
<1>1. UNCHANGED <<main, client, mysocket, slot, pending, task, step, tries, open, held, accepted>>
  BY DEF DatagramLost, cell, library, modem
<1>2. Len(uplink) \in Nat /\ Len(downlink) \in Nat /\ Len(held) \in Nat
  BY DEF Datagrams
<1>3. CASE uplink # << >> /\ uplink' = Tail(uplink) /\ UNCHANGED downlink
  <2>1. uplink' \in Seq(Request) /\ Len(uplink') = Len(uplink) - 1
    BY <1>3 DEF Datagrams
  <2>2. TypeOK'
    BY <1>1, <1>2, <1>3, <2>1, FirmwareAssumption DEF TypeOK
  <2> QED
    BY <1>1, <1>3, <2>1, <2>2 DEF Datagrams, Created, CreatedIn, Bound, RegisteredWasAccepted
<1>4. CASE downlink # << >> /\ downlink' = Tail(downlink) /\ UNCHANGED uplink
  <2>1. /\ downlink' \in Seq(Response) /\ Len(downlink') = Len(downlink) - 1
        /\ \A i \in 1 .. Len(downlink') : downlink'[i] = downlink[i + 1]
    BY <1>4 DEF Datagrams
  <2>2. TypeOK'
    BY <1>1, <1>2, <1>4, <2>1, FirmwareAssumption DEF TypeOK
  <2>3. Created'
    BY <1>1, <1>2, <2>1 DEF Created, CreatedIn
  <2> QED
    BY <1>1, <1>4, <2>1, <2>2, <2>3 DEF Datagrams, Bound, RegisteredWasAccepted
<1> QED
  BY <1>3, <1>4 DEF DatagramLost

----------------------------------------------------------------------------
(* Every step of the firmware and of its surroundings keeps the invariant. *)
THEOREM StepInv == IndInv /\ [Next]_vars => IndInv'
<1> SUFFICES ASSUME IndInv, [Next]_vars PROVE IndInv'
  OBVIOUS
<1>1. CASE UNCHANGED vars
  BY <1>1 DEF vars, cell, library, modem, network, IndInv, TypeOK, Datagrams, Bound, Created,
              CreatedIn, RegisteredWasAccepted
<1>2. CASE Main
  BY <1>2, MainStep
<1>3. CASE Library
  BY <1>3, BindStep, SendStep, ReceiveStep, GiveUpStep DEF Library
<1>4. CASE ServerAnswers \/ RegistrationLapses \/ DatagramArrives \/ DatagramLost
  BY <1>4, ServerStep, LapseStep, ArriveStep, LossStep
<1> QED
  BY <1>1, <1>2, <1>3, <1>4 DEF Next

(* The inductive invariant holds in every reachable state. *)
THEOREM Invariance == Spec => []IndInv
<1>1. Init => IndInv
  BY InitInv
<1>2. IndInv /\ [Next]_vars => IndInv'
  BY StepInv
<1> QED
  BY <1>1, <1>2, PTL DEF Spec

(* The fields of the client, the request, the slot and what is announced   *)
(* have their ranges, and no more datagrams are on their way than may be.  *)
THEOREM TypeCorrect == Spec => []TypeOK
<1>1. IndInv => TypeOK
  BY DEF IndInv
<1> QED
  BY <1>1, Invariance, PTL

(* Socket 0, which socket_sendto and socket_recvfrom use, is open in the   *)
(* modem and announced in slot 0 whenever a request is sent or awaited,    *)
(* however many binds have failed or lost their answer before.             *)
THEOREM SocketIsUsable == Spec => []BoundIsUsable
<1>1. IndInv => BoundIsUsable
  BY DEF IndInv, Bound, BoundIsUsable
<1> QED
  BY <1>1, Invariance, PTL

(* The client counts itself registered and asks for updates only after the *)
(* server has accepted a registration, whatever is lost or late.           *)
THEOREM AcceptedBeforeRegistered == Spec => []RegisteredWasAccepted
<1>1. IndInv => RegisteredWasAccepted
  BY DEF IndInv
<1> QED
  BY <1>1, Invariance, PTL
=============================================================================
