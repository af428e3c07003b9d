--------------------------- MODULE DataConnection ---------------------------
(***************************************************************************)
(* The life of the data connection: MDMParser::init, registerNet, join,    *)
(* disconnect and powerOff (dafbbf31bf76/MDM.cpp) and CellInterface's      *)
(* connect (CellInterface.cpp), which makes a new driver object and calls  *)
(* the first three.  One call runs at a time.                              *)
(*                                                                         *)
(* The modem is external.  It executes a command when it is sent; it may   *)
(* refuse it or not answer; the network may take the profile away at any   *)
(* time, which the modem announces with +UUPSDD.  Addresses are numbers, a *)
(* new one for each activation.                                            *)
(*                                                                         *)
(* Nothing asks the modem for its model or its IMSI: _dev stays as init    *)
(* clears it, so join always uses _activateProfile, and without an APN the *)
(* settings of apndef.                                                     *)
(***************************************************************************)
EXTENDS Naturals, Sequences

CONSTANTS
  WakeTries,     \* tries of init to wake the modem up
  Settings,      \* entries of apndef
  MaxAddress,    \* bound on the addresses given out
  MaxLines       \* bound on the lines on their way to the driver

ASSUME ConnectionAssumption ==
  /\ WakeTries \in Nat \ {0} /\ Settings \in Nat \ {0}
  /\ MaxAddress \in Nat /\ MaxLines \in Nat

NOIP    == 0
PROFILE == 48      \* *PROFILE is the character '0'
Reg     == {"unknown", "denied", "none", "home", "roaming"}
RegOK(r) == r \in {"home", "roaming"}
Final   == {"OK", "ERROR"}

VARIABLES
  init, eps, ip, \* _init, _net.eps, _ip
  op, at,        \* the function being executed, the wait it is in
  arg,           \* its locals: tries left, settings left, protocols left,
                 \* whether user name and password are given
  ret,           \* what waitFinalResp returns, "none" while it runs
  got,           \* what the callback has stored
  result,        \* history: the last function and what it returned
  line,          \* lines on their way to the driver
  reg, active,   \* the modem: registration, address of the active profile
  addresses      \* history: addresses given out

modem == <<reg, active, addresses>>
vars  == <<init, eps, ip, op, at, arg, ret, got, result, line, modem>>

NoArg == [tries |-> 0, settings |-> 0, protocols |-> 0, login |-> FALSE]

Init ==
  /\ init = FALSE /\ eps = "unknown" /\ ip = NOIP
  /\ op = "none" /\ at = "none" /\ arg = NoArg /\ ret = "none" /\ got = 0
  /\ result = [op |-> "none", value |-> 0]
  /\ line = << >>
  /\ reg = "none" /\ active = NOIP /\ addresses = 0

----------------------------------------------------------------------------
(* The modem (external). *)

OK        == <<[kind |-> "OK", v |-> 0]>>
ERROR     == <<[kind |-> "ERROR", v |-> 0]>>
With(k, v) == <<[kind |-> k, v |-> v]>> \o OK

(* What the modem says to a command when it accepts it. *)
Accepts(k) ==
  CASE k = "CEREG"   -> With("CEREG", reg)
    [] k = "CGPADDR" -> With("CGPADDR", IF RegOK(reg) THEN 1 ELSE 0)
    [] k = "UPSND8"  -> With("UPSND", IF active = NOIP THEN 0 ELSE 1)
    [] k = "UPSND0"  -> IF active = NOIP THEN OK ELSE With("IP", active)
    [] OTHER         -> OK

Activated(k) ==
  CASE k = "UPSDA3"                -> active' = addresses + 1 /\ addresses' = addresses + 1
    [] k \in {"UPSDA4", "CPWROFF"} -> active' = NOIP /\ UNCHANGED addresses
    [] OTHER                       -> UNCHANGED <<active, addresses>>

(* The modem executes a command, and its answer may be cut short, or it      *)
(* refuses it, or does not get it.                                         *)
Executes(k, q) ==
  \/ /\ k = "UPSDA3" => addresses < MaxAddress
     /\ \E n \in 0..Len(Accepts(k)) : line' = q \o SubSeq(Accepts(k), 1, n)
     /\ Activated(k)
  \/ /\ line' \in {q, q \o ERROR}
     /\ UNCHANGED <<active, addresses>>

RegChanges ==
  /\ reg' \in {"denied", "none", "home", "roaming"} \ {reg}
  /\ UNCHANGED <<init, eps, ip, op, at, arg, ret, got, result, line, active, addresses>>

Deactivates ==
  /\ active # NOIP /\ Len(line) < MaxLines
  /\ active' = NOIP
  /\ line' = Append(line, [kind |-> "UUPSDD", v |-> 0])
  /\ UNCHANGED <<init, eps, ip, op, at, arg, ret, got, result, reg, addresses>>

----------------------------------------------------------------------------
(* waitFinalResp, and the ways a function goes on. *)

Command(k, point) ==
  /\ Executes(k, line)
  /\ at' = point /\ ret' = "none" /\ got' = 0

(* A +UUPSDD for profile 0 is compared with the character '0'.  Of the      *)
(* registration lines there is only the answer to AT+CEREG? of init: the    *)
(* driver never asks the modem to announce a change.                        *)
Unsolicited(l) == IF l.kind = "UUPSDD" /\ l.v = PROFILE THEN NOIP ELSE ip

(* _cbUPSND stores the address in _ip itself. *)
CbUPSND(l) == IF at = "ask" /\ l.kind = "IP" THEN l.v ELSE Unsolicited(l)

(* _cbCGPAddr and the _cbUPSND of the profile's state. *)
Callback(l) ==
  IF \/ at = "addr" /\ l.kind = "CGPADDR"
     \/ at = "query" /\ l.kind = "UPSND"
  THEN l.v ELSE got

WaitLine ==
  /\ at # "none" /\ ret = "none" /\ line # << >>
  /\ LET l == Head(line) IN
       /\ line' = Tail(line)
       /\ eps' = IF l.kind = "CEREG" THEN l.v ELSE eps
       /\ ip' = CbUPSND(l)
       /\ got' = Callback(l)
       /\ ret' = IF l.kind \in Final THEN l.kind ELSE "none"
  /\ UNCHANGED <<init, op, at, arg, result, modem>>

WaitTimeout ==
  /\ at # "none" /\ ret = "none" /\ line = << >>
  /\ ret' = "WAIT"
  /\ UNCHANGED <<init, eps, ip, op, at, arg, got, result, line, modem>>

Answered(point) == at = point /\ ret # "none"

Return(v) ==
  /\ op' = "none" /\ at' = "none" /\ arg' = NoArg /\ ret' = "none" /\ got' = 0
  /\ result' = [op |-> op, value |-> v]
  /\ UNCHANGED <<line, active, addresses>>

----------------------------------------------------------------------------
(* init. *)

(* A try to wake the modem up: pulse its pin, purge what was received, AT. *)
Wake ==
  /\ Executes("AT", << >>)
  /\ at' = "wake" /\ ret' = "none" /\ got' = 0

(* Without a pin the modem is taken to be awake. *)
Setup == init' = TRUE /\ Command("AT", "setup")

InitCall ==
  /\ op = "none" /\ op' \in {"init", "connect"}
  /\ \/ Wake /\ arg' = [NoArg EXCEPT !.tries = WakeTries] /\ UNCHANGED init
     \/ Setup /\ UNCHANGED arg
  /\ UNCHANGED <<eps, ip, result, reg>>

(* CellInterface::connect makes a new MDMSerial, with a parser and a pipe   *)
(* of its own, and calls init with the default pin.                        *)
CellConnect ==
  /\ op = "none" /\ op' = "cell"
  /\ init' = FALSE /\ eps' = "unknown" /\ ip' = NOIP
  /\ Wake /\ arg' = [NoArg EXCEPT !.tries = WakeTries]
  /\ UNCHANGED <<result, reg>>

WakeAgain ==
  /\ Answered("wake") /\ ret # "OK" /\ arg.tries > 1
  /\ Wake /\ arg' = [arg EXCEPT !.tries = @ - 1]
  /\ UNCHANGED <<init, eps, ip, op, result, reg>>

InitFails ==
  /\ \/ Answered("wake") /\ ret # "OK" /\ arg.tries = 1
     \/ Answered("addr") /\ got = 0
  /\ Return(0)
  /\ UNCHANGED <<init, eps, ip, reg>>

(* The wait after a wake-up only lets lines pass. *)
Awake ==
  /\ Answered("wake") /\ ret = "OK"
  /\ at' = "drain" /\ ret' = "none"
  /\ UNCHANGED <<init, eps, ip, op, arg, got, result, line, modem>>

(* No answer of these commands is looked at; "setup" is AT, NBAND, CMEE,    *)
(* CGMR and CFUN.                                                          *)
InitSteps ==
  /\ \/ Answered("drain") /\ Setup
     \/ Answered("setup") /\ Command("COPS", "cops") /\ UNCHANGED init
     \/ Answered("cops")  /\ Command("CEREG", "cereg") /\ UNCHANGED init
     \/ Answered("cereg") /\ Command("CGPADDR", "addr") /\ UNCHANGED init
  /\ UNCHANGED <<eps, ip, op, arg, result, reg>>

InitSucceeds ==
  /\ Answered("addr") /\ got = 1 /\ op = "init"
  /\ Return(1)
  /\ UNCHANGED <<init, eps, ip, reg>>

----------------------------------------------------------------------------
(* registerNet and join. *)

(* checkNetStatus asks nobody. *)
CheckNetStatus == TRUE

(* Fault: registerNet that trusts checkNetStatus. *)
RegisterNetUnheard == CheckNetStatus

(* Its loop ends at once, the result is what init has heard: only eps, as   *)
(* nothing asks for +CREG or +CGREG, csd and psd stay unknown.              *)
RegisterNet == IF CheckNetStatus THEN RegOK(eps) ELSE FALSE

NetCall ==
  /\ op = "none"
  /\ \/ result' = [op |-> "registerNet", value |-> IF RegisterNet THEN 1 ELSE 0]
     \/ result' = [op |-> "checkNetStatus", value |-> IF CheckNetStatus THEN 1 ELSE 0]
  /\ UNCHANGED <<init, eps, ip, op, at, arg, ret, got, line, modem>>

JoinWaits == {"attach", "query", "detach", "upsd", "auth", "activate", "ask"}

(* With an APN one setting, without one the entries of apndef, which have   *)
(* no user names.                                                          *)
Arguments == {[NoArg EXCEPT !.login = l, !.settings = 1] : l \in BOOLEAN}
             \cup {[NoArg EXCEPT !.settings = Settings]}

(* CellInterface names an APN, a user and a password. *)
CellArguments == {a \in Arguments : a.login}

(* Fault: join that keeps the address it had. *)
JoinStartsKeepingAddress(arguments) ==
  /\ Command("CGATT", "attach")
  /\ arg' \in arguments
  /\ UNCHANGED ip

(* join forgets the address it had, then asks the modem to attach. *)
JoinStarts(arguments) ==
  /\ ip' = NOIP
  /\ Command("CGATT", "attach")
  /\ arg' \in arguments

JoinCall ==
  /\ op = "none" /\ op' = "join"
  /\ JoinStarts(Arguments)
  /\ UNCHANGED <<init, eps, result, reg>>

(* connect and CellInterface::connect go on when init has succeeded. *)
ConnectRegisters ==
  /\ Answered("addr") /\ got = 1 /\ op \in {"connect", "cell"}
  /\ \/ /\ RegisterNet
        /\ JoinStarts(IF op = "cell" THEN CellArguments ELSE Arguments)
        /\ UNCHANGED <<op, result>>
     \/ ~RegisterNet /\ Return(0) /\ UNCHANGED ip
  /\ UNCHANGED <<init, eps, reg>>

JoinAttached ==
  /\ Answered("attach") /\ ret = "OK"
  /\ Command("UPSND8", "query")
  /\ UNCHANGED <<init, eps, ip, op, arg, result, reg>>

(* The answer to the activation of a profile that is active already is not  *)
(* waited for: join deactivates it first.                                  *)
JoinDetaches ==
  /\ Answered("query") /\ ret = "OK" /\ got = 1
  /\ Command("UPSDA4", "detach")
  /\ UNCHANGED <<init, eps, ip, op, arg, result, reg>>

(* Fault: a protocol that has been refused is tried again. *)
TryProtocolForever ==
  /\ \/ /\ Answered("upsd") /\ ret = "OK"
        /\ \E n \in IF arg.login THEN {1, 3} ELSE {1} :
             arg' = [arg EXCEPT !.protocols = n]
     \/ Answered("activate") /\ ret # "OK" /\ arg.protocols > 1 /\ UNCHANGED arg
  /\ Command("UPSD6", "auth")
  /\ UNCHANGED <<init, eps, ip, op, result, reg>>

ConfigFails ==
  \/ at \in {"upsd", "auth"} /\ ret \notin {"none", "OK"}
  \/ at = "activate" /\ ret \notin {"none", "OK"} /\ arg.protocols = 1

(* _activateProfile: the settings one after another ("upsd"), then the      *)
(* protocols; with user name and password and AUTH_DETECT three, else one. *)
ActivateProfile ==
  /\ \/ Answered("query") /\ ret = "OK" /\ got = 0 /\ UNCHANGED arg
     \/ Answered("detach") /\ ret = "OK" /\ UNCHANGED arg
     \/ /\ ConfigFails /\ arg.settings > 1
        /\ arg' = [arg EXCEPT !.settings = @ - 1]
  /\ Command("UPSD", "upsd")
  /\ UNCHANGED <<init, eps, ip, op, result, reg>>

TryProtocol ==
  /\ \/ /\ Answered("upsd") /\ ret = "OK"
        /\ \E n \in IF arg.login THEN {1, 3} ELSE {1} :
             arg' = [arg EXCEPT !.protocols = n]
     \/ /\ Answered("activate") /\ ret # "OK" /\ arg.protocols > 1
        /\ arg' = [arg EXCEPT !.protocols = @ - 1]
  /\ Command("UPSD6", "auth")
  /\ UNCHANGED <<init, eps, ip, op, result, reg>>

Activate ==
  /\ Answered("auth") /\ ret = "OK"
  /\ Command("UPSDA3", "activate")
  /\ UNCHANGED <<init, eps, ip, op, arg, result, reg>>

AskAddress ==
  /\ Answered("activate") /\ ret = "OK"
  /\ Command("UPSND0", "ask")
  /\ UNCHANGED <<init, eps, ip, op, arg, result, reg>>

(* join returns NOIP, _ip is left as it is. *)
JoinFails ==
  /\ \/ at \in {"attach", "query", "detach", "ask"} /\ ret \notin {"none", "OK"}
     \/ ConfigFails /\ arg.settings = 1
  /\ Return(0)
  /\ UNCHANGED <<init, eps, ip, reg>>

(* CellInterface::connect returns false whatever has happened; its server   *)
(* is named by an address, which it does not look up.                      *)
JoinSucceeds ==
  /\ Answered("ask") /\ ret = "OK"
  /\ Return(CASE op = "join" -> ip
              [] op = "connect" -> IF ip = NOIP THEN 0 ELSE 1
              [] OTHER -> 0)
  /\ UNCHANGED <<init, eps, ip, reg>>

----------------------------------------------------------------------------
(* disconnect and powerOff. *)

Disconnect ==
  /\ op = "none" /\ op' = "disconnect" /\ ip # NOIP
  /\ Command("UPSDA4", "disc")
  /\ UNCHANGED <<init, eps, ip, arg, result, reg>>

(* The result is compared with != where == is meant. *)
DisconnectDone ==
  /\ Answered("disc")
  /\ ip' = IF ret # "OK" THEN NOIP ELSE ip
  /\ Return(IF ret # "OK" THEN 1 ELSE 0)
  /\ UNCHANGED <<init, eps, reg>>

PowerOff ==
  /\ op = "none" /\ op' = "powerOff" /\ init
  /\ Command("CPWROFF", "off")
  /\ UNCHANGED <<init, eps, ip, arg, result, reg>>

PowerOffDone ==
  /\ Answered("off")
  /\ init' = (init /\ ret # "OK")
  /\ Return(IF ret = "OK" THEN 1 ELSE 0)
  /\ UNCHANGED <<eps, ip, reg>>

----------------------------------------------------------------------------
Driver ==
  \/ WaitLine \/ WaitTimeout
  \/ WakeAgain \/ InitFails \/ Awake \/ InitSteps \/ InitSucceeds
  \/ ConnectRegisters \/ JoinAttached \/ JoinDetaches \/ ActivateProfile
  \/ TryProtocol \/ Activate \/ AskAddress \/ JoinFails \/ JoinSucceeds
  \/ DisconnectDone \/ PowerOffDone

Call == InitCall \/ CellConnect \/ NetCall \/ JoinCall \/ Disconnect \/ PowerOff

Next == Driver \/ Call \/ RegChanges \/ Deactivates

Spec == Init /\ [][Next]_vars

(* The thread that has made a call runs; nobody has to make one. *)
FairSpec == Spec /\ WF_vars(Driver)

----------------------------------------------------------------------------
(* The variables have the values the code gives them. *)
TypeOK ==
  /\ init \in BOOLEAN /\ eps \in Reg /\ ip \in 0..MaxAddress
  /\ op \in {"none", "init", "connect", "cell", "join", "disconnect", "powerOff"}
  /\ at \in {"none", "wake", "drain", "setup", "cops", "cereg", "addr", "disc", "off"}
             \cup JoinWaits
  /\ (op = "none") <=> (at = "none")
  /\ arg \in [tries : 0..WakeTries, settings : 0..Settings, protocols : 0..3,
              login : BOOLEAN]
  /\ ret \in {"none", "WAIT"} \cup Final
  /\ got \in {0, 1}
  /\ reg \in Reg /\ active \in 0..MaxAddress /\ addresses \in 0..MaxAddress

(* _ip, which getIpAddress returns and sendto and the applications use, is   *)
(* never the address of an earlier activation: join forgets the old one     *)
(* before it asks the modem for anything, so that neither a failure half    *)
(* way through nor an answer that does not come can leave it in place.      *)
NoEarlierAddress == ip \in {NOIP, addresses}

(* connect and CellInterface::connect go as far as attaching and activating  *)
(* a profile only when init has succeeded and the last registration status *)
(* heard says registered, whichever answers of init did not come.          *)
ConnectIsRegistered ==
  op \in {"connect", "cell"} /\ at \in JoinWaits => init /\ RegOK(eps)

(* Every call comes to an end: no modem, answering or not, keeps init trying *)
(* to wake it up or join going through settings and protocols for ever.     *)
CallsReturn == op # "none" ~> op = "none"

=============================================================================
