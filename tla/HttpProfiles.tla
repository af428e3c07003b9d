---------------------------- MODULE HttpProfiles ----------------------------
(***************************************************************************)
(* The HTTP profiles of MDMParser (dafbbf31bf76/MDM.cpp) used by several   *)
(* threads, as MDMRtos allows (MDM.h): LOCK is a recursive mutex, a thread *)
(* keeps it while it waits for an answer, and httpCommand keeps it until   *)
(* the modem has announced the result with +UUHTTPCR.                      *)
(*                                                                         *)
(* A call is "lock" until it has the mutex.  What a function does under    *)
(* the lock without waiting is one step.  The modem and the mutex are      *)
(* external.  An application uses the profile httpFindProfile gave it.     *)
(***************************************************************************)
EXTENDS Integers, Sequences, FiniteSets

CONSTANTS
  Threads,       \* the threads that use the driver
  Nobody,        \* no thread
  NUMPROFILES,   \* entries of _httpProfiles
  Calls,         \* the functions the threads use
  MaxDepth,      \* bound on the times the mutex is taken
  MaxRunning,    \* bound on the commands and results on their way
  LateAnswers    \* whether an answer may come after the driver's time-out

HTTP_PROF_ERROR == -1

ASSUME HttpAssumption ==
  /\ Nobody \notin Threads /\ IsFiniteSet(Threads)
  /\ NUMPROFILES \in Nat \ {0} /\ MaxDepth \in Nat /\ MaxRunning \in Nat
  /\ LateAnswers \in BOOLEAN
  /\ Calls \subseteq {"find", "setBlocking", "free", "reset", "setPar",
                      "setParAddress", "command", "commandUnsupported"}

VARIABLES
  owner, depth, \* the mutex
  profiles,     \* _httpProfiles
  th,           \* per thread: where it is, the call, ret of waitFinalResp, the
                \* address gethostbyname has found, the timer of httpCommand
  prof,         \* the profile each thread has
  inbox, line,  \* between driver and modem
  running,      \* the modem: HTTP commands it has accepted and not finished
  own,          \* history: the stored result answers the profile's last command
  gaveUp        \* history: profiles of which a command was given up

vars == <<owner, depth, profiles, th, prof, inbox, line, running, own, gaveUp>>

Profiles    == 0 .. NUMPROFILES - 1
FreeProfile == [handle |-> HTTP_PROF_ERROR, blocking |-> TRUE, pending |-> FALSE,
                result |-> -1]
Idle        == [at |-> "idle", call |-> "none", ret |-> "none", found |-> FALSE,
                expired |-> FALSE]
Waits       == {"dns", "par", "reset", "cmd", "poll", "read"}
Final       == {"OK", "ERROR"}

Init ==
  /\ owner = Nobody /\ depth = 0
  /\ profiles = [p \in Profiles |-> [FreeProfile EXCEPT !.blocking = FALSE, !.result = 0]]
  /\ th = [t \in Threads |-> Idle] /\ prof = [t \in Threads |-> HTTP_PROF_ERROR]
  /\ inbox = << >> /\ line = << >> /\ running = << >>
  /\ own = [p \in Profiles |-> FALSE] /\ gaveUp = {}

Talking(t) == th[t].at \notin {"idle", "lock"}

----------------------------------------------------------------------------
(* LOCK, UNLOCK and the waits. *)

CanLock(t) == owner \in {Nobody, t}

Lock(t, n) == CanLock(t) /\ owner' = t /\ depth' = depth + n

(* UNLOCK of a mutex that is not recursive. *)
UnlockAll == owner' = Nobody /\ depth' = 0

Unlock ==
  /\ depth' = depth - 1
  /\ owner' = IF depth = 1 THEN Nobody ELSE owner

Goto(t, point) == th' = [th EXCEPT ![t].at = point, ![t].ret = "none"]

Return(t) == th' = [th EXCEPT ![t] = Idle]

(* A new UHTTPC command makes what is under way for its profile old. *)
Stale(q, p) == [i \in DOMAIN q |-> IF q[i].profile = p THEN [q[i] EXCEPT !.fresh = FALSE]
                                                       ELSE q[i]]

Command(t, k, point) ==
  LET p == prof[t] IN
  /\ Goto(t, point)
  /\ inbox' = Append(inbox, [kind |-> k, profile |-> p])
  /\ IF k = "UHTTPC"
     THEN /\ running' = Stale(running, p) /\ line' = Stale(line, p)
          /\ own' = [own EXCEPT ![p] = FALSE]
     ELSE UNCHANGED <<running, line, own>>

(* waitFinalResp handles a line: +UUHTTPCR for whatever profile it names. *)
WaitLine(t) ==
  /\ th[t].at \in Waits /\ th[t].ret = "none" /\ line # << >>
  /\ LET l == Head(line) IN
       /\ line' = Tail(line)
       /\ IF l.kind = "UUHTTPCR"
          THEN /\ profiles' = [profiles EXCEPT ![l.profile].result = l.n]
               /\ own' = [own EXCEPT ![l.profile] = l.fresh]
          ELSE UNCHANGED <<profiles, own>>
       /\ th' = [th EXCEPT ![t].found = @ \/ l.kind = "UDNSRN",
                           ![t].ret = IF l.kind \in Final THEN l.kind
                                      ELSE IF th[t].at = "poll" THEN "WAIT" ELSE "none"]
  /\ UNCHANGED <<owner, depth, prof, inbox, running, gaveUp>>

(* A poll ends at once, the wait for an answer after ten seconds: without   *)
(* LateAnswers only when no answer is coming.                              *)
WaitTimeout(t) ==
  /\ th[t].at \in Waits /\ th[t].ret = "none" /\ line = << >>
  /\ th[t].at = "poll" \/ LateAnswers \/ inbox = << >>
  /\ th' = [th EXCEPT ![t].ret = "WAIT"]
  /\ UNCHANGED <<owner, depth, profiles, prof, inbox, line, running, own, gaveUp>>

----------------------------------------------------------------------------
(* The functions. *)

Enter(t, f) ==
  /\ th[t].at = "idle" /\ Len(inbox) < MaxRunning
  /\ owner = t => depth < MaxDepth
  /\ (f = "find") <=> (prof[t] = HTTP_PROF_ERROR)
  /\ f = "command" => Len(line) + Len(running) < MaxRunning
  /\ th' = [th EXCEPT ![t] = [Idle EXCEPT !.at = "lock", !.call = f]]
  /\ UNCHANGED <<owner, depth, profiles, prof, inbox, line, running, own, gaveUp>>

Called(t, f) == th[t].at = "lock" /\ th[t].call = f /\ CanLock(t)

(* httpFindProfile that does not take the profile it returns. *)
HttpFindProfileUntaken(t) ==
  /\ Called(t, "find")
  /\ \/ \E p \in Profiles :
          /\ profiles[p].handle = HTTP_PROF_ERROR
          /\ \A q \in Profiles : q < p => profiles[q].handle # HTTP_PROF_ERROR
          /\ profiles' = [profiles EXCEPT ![p] = FreeProfile]
          /\ prof' = [prof EXCEPT ![t] = p]
     \/ /\ \A p \in Profiles : profiles[p].handle # HTTP_PROF_ERROR
        /\ UNCHANGED <<profiles, prof>>
  /\ Return(t)
  /\ UNCHANGED <<owner, depth, inbox, line, running, own, gaveUp>>

(* The first free profile, with its fields reset. *)
HttpFindProfile(t) ==
  /\ Called(t, "find")
  /\ \/ \E p \in Profiles :
          /\ profiles[p].handle = HTTP_PROF_ERROR
          /\ \A q \in Profiles : q < p => profiles[q].handle # HTTP_PROF_ERROR
          /\ profiles' = [profiles EXCEPT ![p] = [FreeProfile EXCEPT !.handle = 1]]
          /\ prof' = [prof EXCEPT ![t] = p]
     \/ /\ \A p \in Profiles : profiles[p].handle # HTTP_PROF_ERROR
        /\ UNCHANGED <<profiles, prof>>
  /\ Return(t)
  /\ UNCHANGED <<owner, depth, inbox, line, running, own, gaveUp>>

HttpSetBlocking(t) ==
  /\ Called(t, "setBlocking")
  /\ \E b \in BOOLEAN : profiles' = [profiles EXCEPT ![prof[t]].blocking = b]
  /\ Return(t)
  /\ UNCHANGED <<owner, depth, prof, inbox, line, running, own, gaveUp>>

HttpFreeProfile(t) ==
  /\ Called(t, "free")
  /\ profiles' = [profiles EXCEPT ![prof[t]] = FreeProfile]
  /\ prof' = [prof EXCEPT ![t] = HTTP_PROF_ERROR]
  /\ Return(t)
  /\ UNCHANGED <<owner, depth, inbox, line, running, own, gaveUp>>

HttpResetProfile(t) ==
  /\ Called(t, "reset") /\ Lock(t, 1) /\ Command(t, "UHTTP", "reset")
  /\ UNCHANGED <<profiles, prof, gaveUp>>

HttpSetPar(t) ==
  /\ Called(t, "setPar") /\ Lock(t, 1) /\ Command(t, "UHTTP", "par")
  /\ UNCHANGED <<profiles, prof, gaveUp>>

(* The end of httpResetProfile and of httpSetPar. *)
HttpParDone(t) ==
  /\ th[t].at \in {"reset", "par"} /\ th[t].ret # "none"
  /\ Unlock /\ Return(t)
  /\ UNCHANGED <<profiles, prof, inbox, line, running, own, gaveUp>>

(* HTTP_IP_ADDRESS with a name: gethostbyname takes the lock again. *)
HttpSetParAddress(t) ==
  /\ Called(t, "setParAddress") /\ Lock(t, 2) /\ Command(t, "UDNSRN", "dns")
  /\ UNCHANGED <<profiles, prof, gaveUp>>

HostFound(t) ==
  /\ th[t].at = "dns" /\ th[t].ret = "OK" /\ th[t].found
  /\ Unlock /\ Command(t, "UHTTP", "par")
  /\ UNCHANGED <<profiles, prof, gaveUp>>

(* gethostbyname unlocks, httpSetPar returns without UNLOCK. *)
HostUnknown(t) ==
  /\ th[t].at = "dns" /\ th[t].ret # "none"
  /\ ~(th[t].ret = "OK" /\ th[t].found)
  /\ Unlock /\ Return(t)
  /\ UNCHANGED <<profiles, prof, inbox, line, running, own, gaveUp>>

(* A command code or content type the module does not support: httpCommand *)
(* returns without UNLOCK.                                                 *)
HttpCommandUnsupported(t) ==
  /\ Called(t, "commandUnsupported") /\ Lock(t, 1) /\ Return(t)
  /\ UNCHANGED <<profiles, prof, inbox, line, running, own, gaveUp>>

HttpCommand(t) ==
  /\ Called(t, "command") /\ Lock(t, 1) /\ Command(t, "UHTTPC", "cmd")
  /\ UNCHANGED <<profiles, prof, gaveUp>>

(* httpSetProfileForCmdMng that keeps the last result. *)
CommandAcceptedNoReset(t) ==
  /\ th[t].at = "cmd" /\ th[t].ret = "OK"
  /\ profiles' = [profiles EXCEPT ![prof[t]].pending = TRUE]
  /\ Goto(t, "loop")
  /\ UNCHANGED <<owner, depth, prof, inbox, line, running, own, gaveUp>>

(* httpSetProfileForCmdMng. *)
CommandAccepted(t) ==
  /\ th[t].at = "cmd" /\ th[t].ret = "OK"
  /\ profiles' = [profiles EXCEPT ![prof[t]].pending = TRUE, ![prof[t]].result = -1]
  /\ Goto(t, "loop")
  /\ UNCHANGED <<owner, depth, prof, inbox, line, running, own, gaveUp>>

CommandRefused(t) ==
  /\ th[t].at = "cmd" /\ th[t].ret \notin {"none", "OK"}
  /\ Unlock /\ Return(t)
  /\ UNCHANGED <<profiles, prof, inbox, line, running, own, gaveUp>>

Result(t)     == profiles[prof[t]].result
NotPending(t) == profiles' = [profiles EXCEPT ![prof[t]].pending = FALSE]

(* The result has come: read the file the modem has stored the answer in. *)
CommandResult(t) ==
  /\ th[t].at = "loop" /\ Result(t) # -1
  /\ NotPending(t)
  /\ \/ /\ Result(t) = 1
        /\ Command(t, "URDFILE", "read")
        /\ UNCHANGED <<owner, depth>>
     \/ /\ Result(t) # 1
        /\ Unlock /\ Return(t)
        /\ UNCHANGED <<inbox, line, running, own>>
  /\ UNCHANGED <<prof, gaveUp>>

ReadDone(t) ==
  /\ th[t].at = "read" /\ th[t].ret # "none"
  /\ Unlock /\ Return(t)
  /\ UNCHANGED <<profiles, prof, inbox, line, running, own, gaveUp>>

(* The timer is compared with the profile's time-out. *)
Expired(t) == ~profiles[prof[t]].blocking /\ th[t].expired

(* httpCommand that polls without looking at its timer. *)
CommandPollForever(t) ==
  /\ th[t].at = "loop" /\ Result(t) = -1
  /\ Goto(t, "poll")
  /\ UNCHANGED <<owner, depth, profiles, prof, inbox, line, running, own, gaveUp>>

CommandPoll(t) ==
  /\ th[t].at = "loop" /\ Result(t) = -1 /\ ~Expired(t)
  /\ Goto(t, "poll")
  /\ UNCHANGED <<owner, depth, profiles, prof, inbox, line, running, own, gaveUp>>

(* Anything but WAIT, here the answer to an earlier call, is an error. *)
CommandPolled(t) ==
  /\ th[t].at = "poll"
  /\ \/ /\ th[t].ret = "WAIT" /\ Goto(t, "loop")
        /\ UNCHANGED <<owner, depth, profiles, gaveUp>>
     \/ /\ th[t].ret \in Final
        /\ NotPending(t) /\ Unlock /\ Return(t)
        /\ gaveUp' = gaveUp \cup {prof[t]}
  /\ UNCHANGED <<prof, inbox, line, running, own>>

(* httpCommand that leaves pending set when the timer expires. *)
CommandExpiredPending(t) ==
  /\ th[t].at = "loop" /\ Result(t) = -1 /\ Expired(t)
  /\ Unlock /\ Return(t)
  /\ gaveUp' = gaveUp \cup {prof[t]}
  /\ UNCHANGED <<profiles, prof, inbox, line, running, own>>

CommandExpired(t) ==
  /\ th[t].at = "loop" /\ Result(t) = -1 /\ Expired(t)
  /\ NotPending(t) /\ Unlock /\ Return(t)
  /\ gaveUp' = gaveUp \cup {prof[t]}
  /\ UNCHANGED <<prof, inbox, line, running, own>>

TimerExpires(t) ==
  /\ th[t].at \in {"loop", "poll"} /\ ~th[t].expired
  /\ th' = [th EXCEPT ![t].expired = TRUE]
  /\ UNCHANGED <<owner, depth, profiles, prof, inbox, line, running, own, gaveUp>>

----------------------------------------------------------------------------
(* The modem (external). *)

Say(q) == line' = line \o q

Answer(k, p) == [kind |-> k, profile |-> p, n |-> 0, fresh |-> FALSE]

ModemExecutes ==
  /\ inbox # << >> /\ inbox' = Tail(inbox)
  /\ LET c == Head(inbox) IN
       \/ /\ Say(<<Answer("ERROR", c.profile)>>) /\ UNCHANGED running
       \/ /\ Say(<<Answer("OK", c.profile)>>)
          /\ running' = IF c.kind = "UHTTPC"
                        THEN Append(running, [profile |-> c.profile, fresh |-> TRUE])
                        ELSE running
       \/ /\ c.kind = "UDNSRN"
          /\ Say(<<Answer("UDNSRN", c.profile), Answer("OK", c.profile)>>)
          /\ UNCHANGED running
  /\ UNCHANGED <<owner, depth, profiles, th, prof, own, gaveUp>>

(* An HTTP command ends, 1 is success. *)
ModemFinishes ==
  /\ running # << >> /\ running' = Tail(running)
  /\ \E n \in {0, 1} :
       Say(<<[kind |-> "UUHTTPCR", profile |-> Head(running).profile, n |-> n,
              fresh |-> Head(running).fresh]>>)
  /\ UNCHANGED <<owner, depth, profiles, th, prof, inbox, own, gaveUp>>

----------------------------------------------------------------------------
(* What a thread does in a call. *)
Takes(t) ==
  \/ HttpFindProfile(t) \/ HttpSetBlocking(t) \/ HttpFreeProfile(t)
  \/ HttpResetProfile(t) \/ HttpSetPar(t) \/ HttpSetParAddress(t)
  \/ HttpCommandUnsupported(t) \/ HttpCommand(t)

Continues(t) ==
  \/ WaitLine(t) \/ WaitTimeout(t)
  \/ HttpParDone(t) \/ HostFound(t) \/ HostUnknown(t)
  \/ CommandAccepted(t) \/ CommandRefused(t) \/ CommandResult(t) \/ ReadDone(t)
  \/ CommandPoll(t) \/ CommandPolled(t) \/ CommandExpired(t)

Next ==
  \/ \E t \in Threads :
       (\E f \in Calls : Enter(t, f)) \/ Takes(t) \/ Continues(t) \/ TimerExpires(t)
  \/ ModemExecutes \/ ModemFinishes

Spec == Init /\ [][Next]_vars

(* Threads run, time passes, the modem answers commands; the result of an  *)
(* HTTP command may never come.  A thread that asks for a mutex that is    *)
(* released again and again gets it: the mutex serves its waiters in turn. *)
FairSpec ==
  /\ Spec
  /\ \A t \in Threads : /\ SF_vars(Takes(t)) /\ WF_vars(Continues(t))
                        /\ WF_vars(TimerExpires(t))
  /\ WF_vars(ModemExecutes)

----------------------------------------------------------------------------
(* The variables have their types; the mutex has an owner while it is       *)
(* taken; a thread's profile is one that is marked as used.                *)
TypeOK ==
  /\ owner \in Threads \cup {Nobody} /\ depth \in 0 .. MaxDepth + 2
  /\ (owner = Nobody) <=> (depth = 0)
  /\ profiles \in [Profiles -> [handle : {HTTP_PROF_ERROR, 1}, blocking : BOOLEAN,
                                pending : BOOLEAN, result : {-1, 0, 1}]]
  /\ \A t \in Threads :
       /\ th[t].at \in Waits \cup {"idle", "lock", "loop"}
       /\ th[t].ret \in Final \cup {"none", "WAIT"}
       /\ prof[t] # HTTP_PROF_ERROR => profiles[prof[t]].handle = 1

(* No two threads talk to the modem at a time, whoever forgets to unlock:   *)
(* the lock that gethostbyname takes again is still held after its UNLOCK. *)
OneThreadTalks ==
  \A t \in Threads : Talking(t) => owner = t

(* A profile belongs to the one thread that got it from httpFindProfile. *)
ProfileHasOneUser ==
  \A t, u \in Threads : (t # u /\ prof[t] = prof[u]) => prof[t] = HTTP_PROF_ERROR

(* A profile is marked as being processed only while httpCommand waits for  *)
(* its result, however that wait has ended.                                *)
PendingWhileWaiting ==
  \A p \in Profiles : profiles[p].pending =>
    \E t \in Threads : prof[t] = p /\ th[t].at \in {"loop", "poll"}

(* The result httpCommand takes for success is that of its own command,     *)
(* unless an earlier command on this profile was given up: what +UUHTTPCR  *)
(* has said before the command does not count.                             *)
ResultIsOwn ==
  \A t \in Threads : th[t].at = "read" => (own[prof[t]] \/ prof[t] \in gaveUp)

(* Every call returns, whatever the modem answers and even if it never      *)
(* announces a result, unless a thread waits in httpCommand on a profile   *)
(* that blocks.                                                            *)
CallsReturn ==
  \A t \in Threads : (th[t].at # "idle") ~>
    (\/ th[t].at = "idle"
     \/ \E u \in Threads : /\ th[u].at \in {"loop", "poll"}
                            /\ profiles[prof[u]].blocking)

----------------------------------------------------------------------------
(* What a comment promises and the code does not keep. *)

(* MDM.cpp:40: a lock and unlock pair is always balanced.  Nobody keeps the *)
(* mutex after its call has returned.                                      *)
LockBalanced == owner # Nobody => Talking(owner)
=============================================================================
