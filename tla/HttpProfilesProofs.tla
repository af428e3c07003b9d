------------------------- MODULE HttpProfilesProofs -------------------------
(***************************************************************************)
(* Proofs about HttpProfiles for every number of threads, of profiles and  *)
(* of commands under way: the types, that one thread talks to the modem at *)
(* a time, that a profile has one user and is pending only while that user *)
(* waits, and that the result of a command is its own.                     *)
(***************************************************************************)
EXTENDS HttpProfiles, SequenceTheorems, TLAPS

Points  == Waits \cup {"idle", "lock", "loop"}
Thread  == [at : Points, call : Calls \cup {"none"}, ret : Final \cup {"none", "WAIT"},
            found : BOOLEAN, expired : BOOLEAN]
Profile == [handle : {HTTP_PROF_ERROR, 1}, blocking : BOOLEAN, pending : BOOLEAN,
            result : {-1, 0, 1}]

Requests == [kind : {"UHTTP", "UDNSRN", "UHTTPC", "URDFILE"}, profile : Profiles]
Replies  == [kind : Final \cup {"UDNSRN", "UUHTTPCR"}, profile : Profiles, n : {0, 1},
             fresh : BOOLEAN]
Tasks    == [profile : Profiles, fresh : BOOLEAN]

Types ==
  /\ owner \in Threads \cup {Nobody} /\ depth \in 0 .. MaxDepth + 2
  /\ profiles \in [Profiles -> Profile]
  /\ th \in [Threads -> Thread]
  /\ prof \in [Threads -> Profiles \cup {HTTP_PROF_ERROR}]
  /\ inbox \in Seq(Requests) /\ line \in Seq(Replies) /\ running \in Seq(Tasks)
  /\ own \in [Profiles -> BOOLEAN] /\ gaveUp \subseteq Profiles

(* The mutex: gethostbyname holds it twice, and a thread that has kept it   *)
(* after a call takes it again within the bound of the model.              *)
Locked ==
  /\ (owner = Nobody) <=> (depth = 0)
  /\ \A t \in Threads :
       /\ Talking(t) => owner = t
       /\ th[t].at = "dns" => depth >= 2
       /\ th[t].at = "lock" /\ owner = t => depth < MaxDepth

(* A thread without a profile is in no call that needs one.                *)
HasProfile ==
  \A t \in Threads : prof[t] = HTTP_PROF_ERROR =>
    th[t].at = "idle" \/ (th[t].at = "lock" /\ th[t].call = "find")

Marked ==
  \A t \in Threads : prof[t] # HTTP_PROF_ERROR => profiles[prof[t]].handle = 1

Shared == HasProfile /\ Marked /\ ProfileHasOneUser /\ PendingWhileWaiting

IndInv == Types /\ Locked /\ Shared

----------------------------------------------------------------------------
(* What a step does to the thread that takes it.                           *)

Stays(t) == th' \in [Threads -> Thread] /\ \A u \in Threads \ {t} : th'[u] = th[u]

(* Goto moves one thread and forgets its last answer. *)
LEMMA GotoThread ==
  ASSUME NEW t \in Threads, NEW p \in Points, th \in [Threads -> Thread], Goto(t, p)
  PROVE  /\ Stays(t)
         /\ th'[t].at = p /\ th'[t].ret = "none" /\ th'[t].call = th[t].call
  BY DEF Goto, Thread, Stays

(* Return leaves one thread idle. *)
LEMMA ReturnThread ==
  ASSUME NEW t \in Threads, th \in [Threads -> Thread], Return(t)
  PROVE  /\ Stays(t)
         /\ th'[t].at = "idle" /\ th'[t].ret = "none"
  BY DEF Return, Thread, Idle, Points, Stays

(* Enter makes one thread ask for the mutex. *)
LEMMA EnterThread ==
  ASSUME NEW t \in Threads, NEW f \in Calls, th \in [Threads -> Thread],
         th' = [th EXCEPT ![t] = [Idle EXCEPT !.at = "lock", !.call = f]]
  PROVE  /\ Stays(t)
         /\ th'[t].at = "lock" /\ th'[t].ret = "none" /\ th'[t].call = f
  BY DEF Thread, Idle, Points, Stays

(* A command that makes results old changes nothing else about them.       *)
LEMMA StaleTypes ==
  ASSUME NEW p, NEW S, NEW q \in Seq(S),
         \A x \in S : [x EXCEPT !.fresh = FALSE] \in S
  PROVE  /\ Stale(q, p) \in Seq(S) /\ Len(Stale(q, p)) = Len(q)
         /\ \A i \in 1 .. Len(q) :
              Stale(q, p)[i] = IF q[i].profile = p THEN [q[i] EXCEPT !.fresh = FALSE]
                                                   ELSE q[i]
  <1>1. DOMAIN q = 1 .. Len(q) /\ Len(q) \in Nat
    OBVIOUS
  <1>2. \A i \in 1 .. Len(q) : q[i] \in S
    OBVIOUS
  <1>3. Stale(q, p) \in [1 .. Len(q) -> S]
    BY <1>1, <1>2 DEF Stale
  <1>4. Stale(q, p) \in Seq(S) /\ Len(Stale(q, p)) = Len(q)
    BY <1>1, <1>3
  <1> QED
    BY <1>1, <1>4 DEF Stale

(* A command leaves the queues between driver and modem well typed.        *)
LEMMA CommandTypes ==
  ASSUME NEW t \in Threads, NEW k \in {"UHTTP", "UDNSRN", "UHTTPC", "URDFILE"},
         NEW point \in Points, Types, prof[t] \in Profiles, Command(t, k, point)
  PROVE  /\ Stays(t) /\ Goto(t, point)
         /\ th'[t].at = point /\ th'[t].ret = "none" /\ th'[t].call = th[t].call
         /\ inbox' \in Seq(Requests) /\ line' \in Seq(Replies) /\ running' \in Seq(Tasks)
         /\ own' \in [Profiles -> BOOLEAN]
  <1>1. Goto(t, point)
    BY DEF Command
  <1>2. /\ Stays(t)
        /\ th'[t].at = point /\ th'[t].ret = "none" /\ th'[t].call = th[t].call
    BY <1>1, GotoThread DEF Types
  <1>3. inbox' \in Seq(Requests)
    <2>1. [kind |-> k, profile |-> prof[t]] \in Requests
      BY DEF Requests
    <2> QED
      BY <2>1, AppendProperties DEF Command, Types
  <1>4. CASE k = "UHTTPC"
    <2>1. \A x \in Replies : [x EXCEPT !.fresh = FALSE] \in Replies
      BY DEF Replies
    <2>2. \A x \in Tasks : [x EXCEPT !.fresh = FALSE] \in Tasks
      BY DEF Tasks
    <2>3. /\ running' = Stale(running, prof[t]) /\ line' = Stale(line, prof[t])
          /\ own' = [own EXCEPT ![prof[t]] = FALSE]
      BY <1>4 DEF Command
    <2>4. line' \in Seq(Replies)
      BY <2>1, <2>3, StaleTypes DEF Types
    <2>5. running' \in Seq(Tasks)
      BY <2>2, <2>3, StaleTypes DEF Types
    <2> QED
      BY <1>1, <1>2, <1>3, <2>3, <2>4, <2>5 DEF Types
  <1>5. CASE k # "UHTTPC"
    BY <1>1, <1>2, <1>3, <1>5 DEF Command, Types
  <1> QED
    BY <1>4, <1>5

----------------------------------------------------------------------------
(* The mutex.                                                              *)

(* A call that gets the mutex. *)
LEMMA Starting ==
  ASSUME Types, Locked, NEW t \in Threads, NEW n \in {1, 2}, Lock(t, n), Stays(t),
         th[t].at = "lock", th'[t].at # "lock", th'[t].at = "dns" => n = 2
  PROVE  /\ owner' \in Threads \cup {Nobody} /\ depth' \in 0 .. MaxDepth + 2
         /\ Locked'
  <1>1. owner' = t /\ t # Nobody /\ depth' = depth + n
    BY HttpAssumption DEF Lock
  <1>2. depth < MaxDepth \/ depth = 0
    BY DEF Lock, CanLock, Locked
  <1>3. depth \in Nat /\ MaxDepth \in Nat /\ n \in 1 .. 2
    BY HttpAssumption DEF Types
  <1>4. depth' \in 0 .. MaxDepth + 2 /\ depth' # 0
    BY <1>1, <1>2, <1>3
  <1>5. \A u \in Threads \ {t} : ~Talking(u) /\ th'[u] = th[u]
    BY HttpAssumption DEF Locked, Lock, CanLock, Stays
  <1>6. th'[t].at = "dns" => depth' >= 2
    BY <1>1, <1>3
  <1> QED
    BY <1>1, <1>4, <1>5, <1>6 DEF Locked, Talking

(* A step that leaves the mutex alone: of the thread that has it, or of one *)
(* that takes no part in talking.                                          *)
LEMMA Staying ==
  ASSUME Types, Locked, NEW t \in Threads, UNCHANGED <<owner, depth>>, Stays(t),
         th'[t].at \notin {"idle", "lock"} => Talking(t),
         th'[t].at = "dns" => th[t].at = "dns",
         th'[t].at = "lock" /\ owner = t => depth < MaxDepth
  PROVE  /\ owner' \in Threads \cup {Nobody} /\ depth' \in 0 .. MaxDepth + 2
         /\ Locked'
  BY DEF Types, Locked, Talking, Stays

(* UNLOCK at the end of a call, or of gethostbyname inside another.        *)
LEMMA Unlocking ==
  ASSUME Types, Locked, NEW t \in Threads, Unlock, Stays(t), Talking(t),
         \/ th'[t].at = "idle"
         \/ th[t].at = "dns" /\ th'[t].at = "par"
  PROVE  /\ owner' \in Threads \cup {Nobody} /\ depth' \in 0 .. MaxDepth + 2
         /\ Locked'
  <1>1. owner = t /\ t # Nobody /\ depth \in 0 .. MaxDepth + 2 /\ depth # 0
    BY HttpAssumption DEF Locked, Types
  <1>2. MaxDepth \in Nat
    BY HttpAssumption
  <1>3. depth' = depth - 1 /\ depth' \in 0 .. MaxDepth + 2
    BY <1>1, <1>2 DEF Unlock
  <1>4. IF depth = 1 THEN owner' = Nobody /\ depth' = 0 ELSE owner' = t /\ depth' # 0
    BY <1>1, <1>3 DEF Unlock
  <1>5. \A u \in Threads \ {t} : ~Talking(u) /\ th'[u] = th[u]
    BY <1>1 DEF Locked, Stays
  <1>6. th[t].at = "dns" => depth >= 2
    BY DEF Locked
  <1>7. Talking(t)' => owner' = t
    BY <1>1, <1>2, <1>4, <1>6 DEF Talking
  <1>8. \A u \in Threads \ {t} : owner' # u
    BY <1>4, HttpAssumption
  <1>9. \A u \in Threads \ {t} : ~Talking(u)' /\ th'[u].at # "dns"
    BY <1>5 DEF Talking
  <1>10. th'[t].at \notin {"dns", "lock"}
    OBVIOUS
  <1> QED
    BY <1>1, <1>3, <1>4, <1>7, <1>8, <1>9, <1>10 DEF Locked

----------------------------------------------------------------------------
(* The profiles.                                                           *)

(* The index of a profile is no error. *)
LEMMA NoError == \A p \in Profiles : p # HTTP_PROF_ERROR
  BY HttpAssumption DEF Profiles, HTTP_PROF_ERROR

Waiting(t) == th[t].at \in {"loop", "poll"}

(* A thread that keeps its profile, and leaves the others' pending alone.  *)
LEMMA Keeping ==
  ASSUME Types, Shared, NEW t \in Threads, Stays(t), prof' = prof,
         profiles' \in [Profiles -> Profile],
         \A p \in Profiles : profiles'[p].handle = profiles[p].handle,
         \A p \in Profiles \ {prof[t]} : profiles'[p].pending => profiles[p].pending,
         prof[t] \in Profiles /\ profiles'[prof[t]].pending =>
           \/ Waiting(t)'
           \/ profiles[prof[t]].pending /\ ~Waiting(t),
         prof[t] = HTTP_PROF_ERROR =>
           th'[t].at = "idle" \/ (th'[t].at = "lock" /\ th'[t].call = "find")
  PROVE  Shared'
  <1>1. HasProfile'
    BY DEF HasProfile, Shared, Stays
  <1>2. Marked'
    BY DEF Marked, Shared, Types, Profiles, HTTP_PROF_ERROR
  <1>3. ProfileHasOneUser'
    BY DEF ProfileHasOneUser, Shared
  <1>4. ASSUME NEW p \in Profiles, profiles'[p].pending
        PROVE  \E u \in Threads : prof'[u] = p /\ Waiting(u)'
    <2>0. p # HTTP_PROF_ERROR
      BY HttpAssumption DEF Profiles, HTTP_PROF_ERROR
    <2>1. CASE p = prof[t] /\ Waiting(t)'
      BY <2>1
    <2>2. CASE p = prof[t] /\ ~Waiting(t)'
      <3>1. profiles[p].pending /\ ~Waiting(t)
        BY <1>4, <2>2
      <3>2. PICK u \in Threads : prof[u] = p /\ Waiting(u)
        BY <3>1 DEF Shared, PendingWhileWaiting, Waiting
      <3>3. u # t
        BY <3>1, <3>2
      <3> QED
        BY <2>0, <2>2, <3>2, <3>3 DEF Shared, ProfileHasOneUser
    <2>3. CASE p # prof[t]
      <3>1. profiles[p].pending
        BY <1>4, <2>3
      <3>2. PICK u \in Threads : prof[u] = p /\ Waiting(u)
        BY <3>1 DEF Shared, PendingWhileWaiting, Waiting
      <3>3. u # t
        BY <2>3, <3>2
      <3> QED
        BY <3>2, <3>3 DEF Stays, Waiting
    <2> QED
      BY <2>1, <2>2, <2>3
  <1>5. PendingWhileWaiting'
    BY <1>4 DEF PendingWhileWaiting, Waiting
  <1> QED
    BY <1>1, <1>2, <1>3, <1>5 DEF Shared

(* The end of the wait for a result: no longer pending. *)
LEMMA NotPendingKeeps ==
  ASSUME Types, Shared, NEW t \in Threads, Stays(t), prof' = prof,
         prof[t] \in Profiles, NotPending(t)
  PROVE  profiles' \in [Profiles -> Profile] /\ Shared'
  <1>1. [profiles[prof[t]] EXCEPT !.pending = FALSE] \in Profile
    BY DEF Types, Profile
  <1>2. profiles' \in [Profiles -> Profile]
    BY <1>1 DEF Types, NotPending
  <1>3. /\ profiles'[prof[t]] = [profiles[prof[t]] EXCEPT !.pending = FALSE]
        /\ \A p \in Profiles \ {prof[t]} : profiles'[p] = profiles[p]
    BY DEF Types, NotPending
  <1>4. /\ profiles'[prof[t]].pending = FALSE
        /\ profiles'[prof[t]].handle = profiles[prof[t]].handle
    BY <1>1, <1>3 DEF Types, Profile
  <1> QED
    BY <1>2, <1>3, <1>4, Keeping, NoError

(* A thread inside a function on a profile has one.                        *)
LEMMA Having ==
  ASSUME Types, Shared, NEW t \in Threads,
         th[t].at # "idle", th[t].at = "lock" => th[t].call # "find"
  PROVE  prof[t] \in Profiles
  BY DEF Types, Shared, HasProfile

----------------------------------------------------------------------------
(* Every action preserves the invariant.                                   *)


(* No thread has a profile, nothing is under way and the mutex is free.    *)
LEMMA InitInv == Init => IndInv
  <1> SUFFICES ASSUME Init PROVE IndInv
    OBVIOUS
  <1>1. \A p \in Profiles : profiles[p] \in Profile /\ profiles[p].pending = FALSE
    BY DEF Init, Profile, FreeProfile
  <1>2. \A t \in Threads : th[t] \in Thread /\ th[t].at = "idle"
    BY DEF Init, Thread, Points, Idle
  <1>3. Types
    <2>1. profiles \in [Profiles -> Profile] /\ th \in [Threads -> Thread]
      BY <1>1, <1>2 DEF Init
    <2> QED
      BY <2>1, HttpAssumption DEF Init, Types
  <1>4. Locked
    BY <1>2 DEF Init, Locked, Talking
  <1>5. Shared
    BY <1>1, <1>2
    DEF Init, Shared, HasProfile, Marked, ProfileHasOneUser, PendingWhileWaiting
  <1> QED
    BY <1>3, <1>4, <1>5 DEF IndInv

(* A function is called. *)
LEMMA EnterInv ==
  ASSUME IndInv, NEW t \in Threads, NEW f \in Calls, Enter(t, f)
  PROVE  IndInv'
  <1>1. /\ Stays(t)
        /\ th'[t].at = "lock" /\ th'[t].ret = "none" /\ th'[t].call = f
    BY EnterThread DEF IndInv, Types, Enter
  <1>2. Locked' /\ owner' \in Threads \cup {Nobody} /\ depth' \in 0 .. MaxDepth + 2
    BY <1>1, Staying DEF IndInv, Enter
  <1>3. Shared'
    BY <1>1, Keeping DEF IndInv, Enter, Types, Waiting
  <1>4. Types'
    BY <1>1, <1>2 DEF IndInv, Enter, Types, Stays
  <1> QED
    BY <1>2, <1>3, <1>4 DEF IndInv

(* httpFindProfile: the profile was free, so nobody else has it. *)
LEMMA FindInv ==
  ASSUME IndInv, NEW t \in Threads, HttpFindProfile(t)
  PROVE  IndInv'
  <1>1. Stays(t) /\ th'[t].at = "idle" /\ th'[t].ret = "none"
    BY ReturnThread DEF IndInv, Types, HttpFindProfile
  <1>2. Locked' /\ owner' \in Threads \cup {Nobody} /\ depth' \in 0 .. MaxDepth + 2
    BY <1>1, Staying DEF IndInv, HttpFindProfile
  <1>3. ~Waiting(t) /\ ~Waiting(t)'
    BY <1>1 DEF HttpFindProfile, Called, Waiting
  <1>4. CASE UNCHANGED <<profiles, prof>>
    <2>1. Shared'
      BY <1>1, <1>3, <1>4, Keeping DEF IndInv, Types
    <2>2. Types'
      BY <1>1, <1>2, <1>4 DEF IndInv, Types, HttpFindProfile, Stays
    <2> QED
      BY <1>2, <2>1, <2>2 DEF IndInv
  <1>5. ASSUME NEW p \in Profiles, profiles[p].handle = HTTP_PROF_ERROR,
               profiles' = [profiles EXCEPT ![p] = [FreeProfile EXCEPT !.handle = 1]],
               prof' = [prof EXCEPT ![t] = p]
        PROVE  IndInv'
    <2>1. [FreeProfile EXCEPT !.handle = 1] \in Profile
      BY DEF Profile, FreeProfile
    <2>2. Types'
      <3>1. /\ profiles' \in [Profiles -> Profile]
            /\ prof' \in [Threads -> Profiles \cup {HTTP_PROF_ERROR}]
        BY <1>5, <2>1 DEF IndInv, Types
      <3>2. UNCHANGED <<inbox, line, running, own, gaveUp>>
        BY DEF HttpFindProfile
      <3> QED
        BY <1>1, <1>2, <3>1, <3>2 DEF IndInv, Types, Stays
    <2>3. \A u \in Threads : prof[u] # p
      BY <1>5, NoError DEF IndInv, Shared, Marked, HTTP_PROF_ERROR
    <2>4. /\ prof'[t] = p /\ \A u \in Threads \ {t} : prof'[u] = prof[u]
          /\ profiles'[p].handle = 1 /\ ~profiles'[p].pending
          /\ \A q \in Profiles \ {p} : profiles'[q] = profiles[q]
      <3>1. FreeProfile.pending = FALSE
        BY DEF FreeProfile
      <3>2. /\ profiles'[p] = [FreeProfile EXCEPT !.handle = 1]
            /\ \A q \in Profiles \ {p} : profiles'[q] = profiles[q]
        BY <1>5 DEF IndInv, Types
      <3>3. profiles'[p].handle = 1 /\ profiles'[p].pending = FALSE
        BY <3>1, <3>2 DEF FreeProfile
      <3> QED
        BY <1>5, <3>2, <3>3 DEF IndInv, Types
    <2>5. HasProfile' /\ Marked'
      <3>1. HasProfile'
        BY <1>1, <2>4, NoError DEF IndInv, Shared, HasProfile, Stays
      <3>2. ASSUME NEW u \in Threads \ {t}, prof[u] # HTTP_PROF_ERROR
            PROVE  profiles'[prof[u]].handle = 1
        <4>1. prof[u] \in Profiles \ {p}
          BY <2>3, <3>2 DEF IndInv, Types
        <4> QED
          BY <2>4, <3>2, <4>1 DEF IndInv, Shared, Marked
      <3> QED
        BY <2>4, <3>1, <3>2 DEF Marked
    <2>6. ProfileHasOneUser'
      BY <2>3, <2>4 DEF IndInv, Shared, ProfileHasOneUser
    <2>7. ASSUME NEW q \in Profiles, profiles'[q].pending
          PROVE  \E u \in Threads : prof'[u] = q /\ Waiting(u)'
      <3>1. profiles[q].pending
        BY <2>4, <2>7
      <3>2. PICK u \in Threads : prof[u] = q /\ Waiting(u)
        BY <3>1 DEF IndInv, Shared, PendingWhileWaiting, Waiting
      <3> QED
        BY <1>1, <1>3, <2>4, <3>2 DEF Waiting, Stays
    <2> QED
      BY <1>2, <2>2, <2>5, <2>6, <2>7 DEF IndInv, Shared, PendingWhileWaiting, Waiting
  <1> QED
    BY <1>4, <1>5 DEF HttpFindProfile

(* The functions that finish under the lock without a command.             *)
LEMMA SetBlockingInv ==
  ASSUME IndInv, NEW t \in Threads, HttpSetBlocking(t)
  PROVE  IndInv'
  <1>1. Stays(t) /\ th'[t].at = "idle" /\ th'[t].ret = "none"
    BY ReturnThread DEF IndInv, Types, HttpSetBlocking
  <1>2. Locked' /\ owner' \in Threads \cup {Nobody} /\ depth' \in 0 .. MaxDepth + 2
    BY <1>1, Staying DEF IndInv, HttpSetBlocking
  <1>3. prof[t] \in Profiles /\ ~Waiting(t)
    BY Having DEF IndInv, HttpSetBlocking, Called, Waiting
  <1>4. PICK b \in BOOLEAN : profiles' = [profiles EXCEPT ![prof[t]].blocking = b]
    BY DEF HttpSetBlocking
  <1>5. [profiles[prof[t]] EXCEPT !.blocking = b] \in Profile
    BY <1>3 DEF IndInv, Types, Profile
  <1>6. /\ profiles' \in [Profiles -> Profile]
        /\ \A q \in Profiles : /\ profiles'[q].handle = profiles[q].handle
                               /\ profiles'[q].pending = profiles[q].pending
    BY <1>3, <1>4, <1>5 DEF IndInv, Types, Profile
  <1>7. Shared'
    BY <1>1, <1>3, <1>6, Keeping DEF IndInv, HttpSetBlocking
  <1>8. Types'
    BY <1>1, <1>2, <1>6 DEF IndInv, Types, HttpSetBlocking, Stays
  <1> QED
    BY <1>2, <1>7, <1>8 DEF IndInv

(* httpFreeProfile, which also forgets that a result is pending.           *)
LEMMA FreeInv ==
  ASSUME IndInv, NEW t \in Threads, HttpFreeProfile(t)
  PROVE  IndInv'
  <1>1. Stays(t) /\ th'[t].at = "idle" /\ th'[t].ret = "none"
    BY ReturnThread DEF IndInv, Types, HttpFreeProfile
  <1>2. Locked' /\ owner' \in Threads \cup {Nobody} /\ depth' \in 0 .. MaxDepth + 2
    BY <1>1, Staying DEF IndInv, HttpFreeProfile
  <1>3. prof[t] \in Profiles /\ ~Waiting(t)
    BY Having DEF IndInv, HttpFreeProfile, Called, Waiting
  <1>4. FreeProfile \in Profile /\ ~FreeProfile.pending
    BY DEF Profile, FreeProfile
  <1>5. Types'
    BY <1>1, <1>2, <1>4 DEF IndInv, Types, HttpFreeProfile, Stays
  <1>6. /\ prof'[t] = HTTP_PROF_ERROR /\ \A u \in Threads \ {t} : prof'[u] = prof[u]
        /\ ~profiles'[prof[t]].pending
        /\ \A q \in Profiles \ {prof[t]} : profiles'[q] = profiles[q]
    BY <1>3, <1>4 DEF IndInv, Types, HttpFreeProfile
  <1>7. \A u \in Threads \ {t} : prof[u] # prof[t]
    BY <1>3, NoError DEF IndInv, Shared, ProfileHasOneUser
  <1>8. HasProfile' /\ Marked'
    <2>1. HasProfile'
      BY <1>1, <1>6 DEF IndInv, Shared, HasProfile, Stays
    <2>2. ASSUME NEW u \in Threads \ {t}, prof[u] # HTTP_PROF_ERROR
          PROVE  profiles'[prof[u]].handle = 1
      <3>1. prof[u] \in Profiles \ {prof[t]}
        BY <1>7, <2>2 DEF IndInv, Types
      <3> QED
        BY <1>6, <2>2, <3>1 DEF IndInv, Shared, Marked
    <2> QED
      BY <1>6, <2>1, <2>2 DEF Marked
  <1>9. ProfileHasOneUser'
    BY <1>6 DEF IndInv, Shared, ProfileHasOneUser
  <1>10. ASSUME NEW q \in Profiles, profiles'[q].pending
        PROVE  \E u \in Threads : prof'[u] = q /\ Waiting(u)'
    <2>1. q # prof[t] /\ profiles[q].pending
      BY <1>6, <1>10
    <2>2. PICK u \in Threads : prof[u] = q /\ Waiting(u)
      BY <2>1 DEF IndInv, Shared, PendingWhileWaiting, Waiting
    <2> QED
      BY <1>1, <1>3, <1>6, <2>2 DEF Waiting, Stays
  <1> QED
    BY <1>2, <1>5, <1>8, <1>9, <1>10 DEF IndInv, Shared, PendingWhileWaiting, Waiting

(* A command is sent: by a call that gets the mutex, ...                   *)
LEMMA SendInv ==
  ASSUME IndInv, NEW t \in Threads, NEW n \in {1, 2},
         NEW k \in {"UHTTP", "UDNSRN", "UHTTPC", "URDFILE"},
         NEW point \in {"reset", "par", "cmd", "dns"}, point = "dns" => n = 2,
         th[t].at = "lock", th[t].call # "find",
         Lock(t, n), Command(t, k, point), UNCHANGED <<profiles, prof, gaveUp>>
  PROVE  IndInv'
  <1>1. prof[t] \in Profiles /\ point \in Points
    BY Having DEF IndInv, Points, Waits
  <1>2. /\ Stays(t)
        /\ th'[t].at = point /\ th'[t].ret = "none"
        /\ inbox' \in Seq(Requests) /\ line' \in Seq(Replies) /\ running' \in Seq(Tasks)
        /\ own' \in [Profiles -> BOOLEAN]
    BY <1>1, CommandTypes DEF IndInv
  <1>3. Locked' /\ owner' \in Threads \cup {Nobody} /\ depth' \in 0 .. MaxDepth + 2
    BY <1>2, Starting DEF IndInv
  <1>4. Shared'
    BY <1>1, <1>2, Keeping, NoError DEF IndInv, Waiting, Types
  <1>5. Types'
    BY <1>2, <1>3 DEF IndInv, Types, Stays
  <1> QED
    BY <1>3, <1>4, <1>5 DEF IndInv

(* ... by one that has found the address, or by one that has its result.   *)
LEMMA SendAgainInv ==
  ASSUME IndInv, NEW t \in Threads, Talking(t),
         NEW k \in {"UHTTP", "URDFILE"}, NEW point \in {"par", "read"},
         \/ th[t].at = "dns" /\ point = "par" /\ Unlock /\ UNCHANGED profiles
         \/ /\ th[t].at = "loop" /\ point = "read" /\ UNCHANGED <<owner, depth>>
            /\ NotPending(t),
         Command(t, k, point), UNCHANGED <<prof, gaveUp>>
  PROVE  IndInv'
  <1>1. prof[t] \in Profiles /\ point \in Points
    BY Having DEF IndInv, Points, Waits, Talking
  <1>2. /\ Stays(t)
        /\ th'[t].at = point /\ th'[t].ret = "none"
        /\ inbox' \in Seq(Requests) /\ line' \in Seq(Replies) /\ running' \in Seq(Tasks)
        /\ own' \in [Profiles -> BOOLEAN]
    BY <1>1, CommandTypes DEF IndInv
  <1>3. Locked' /\ owner' \in Threads \cup {Nobody} /\ depth' \in 0 .. MaxDepth + 2
    BY <1>2, Unlocking, Staying DEF IndInv
  <1>4. profiles' \in [Profiles -> Profile] /\ Shared'
    <2>1. CASE th[t].at = "dns" /\ UNCHANGED profiles
      BY <1>1, <1>2, <2>1, Keeping, NoError DEF IndInv, Waiting, Types
    <2>2. CASE NotPending(t)
      BY <1>1, <1>2, <2>2, NotPendingKeeps, NoError DEF IndInv
    <2> QED
      BY <2>1, <2>2
  <1>5. Types'
    BY <1>2, <1>3, <1>4 DEF IndInv, Types, Stays
  <1> QED
    BY <1>3, <1>4, <1>5 DEF IndInv

(* A call that ends or waits on, without a command.                        *)
LEMMA MoveInv ==
  ASSUME IndInv, NEW t \in Threads, Talking(t), Stays(t),
         \/ th'[t].at = "idle" /\ Unlock
         \/ /\ th'[t].at = th[t].at \/ (th[t].at \in {"loop", "poll"} /\ Waiting(t)')
            /\ UNCHANGED <<owner, depth>>,
         \/ UNCHANGED profiles /\ (Waiting(t) => Waiting(t)')
         \/ NotPending(t),
         gaveUp' \in {gaveUp, gaveUp \cup {prof[t]}},
         UNCHANGED <<prof, inbox, line, running, own>>
  PROVE  IndInv'
  <1>1. prof[t] \in Profiles
    BY Having DEF IndInv, Talking
  <1>2. Locked' /\ owner' \in Threads \cup {Nobody} /\ depth' \in 0 .. MaxDepth + 2
    <2>1. CASE th'[t].at = "idle" /\ Unlock
      BY <2>1, Unlocking DEF IndInv
    <2>2. CASE /\ th'[t].at = th[t].at \/ (th[t].at \in {"loop", "poll"} /\ Waiting(t)')
               /\ UNCHANGED <<owner, depth>>
      BY <2>2, Staying DEF IndInv, Talking, Waiting
    <2> QED
      BY <2>1, <2>2
  <1>3. profiles' \in [Profiles -> Profile] /\ Shared'
    <2>1. CASE UNCHANGED profiles /\ (Waiting(t) => Waiting(t)')
      BY <1>1, <2>1, Keeping, NoError DEF IndInv, Types
    <2>2. CASE NotPending(t)
      BY <1>1, <2>2, NotPendingKeeps DEF IndInv
    <2> QED
      BY <2>1, <2>2
  <1>4. Types'
    BY <1>1, <1>2, <1>3 DEF IndInv, Types, Stays
  <1> QED
    BY <1>2, <1>3, <1>4 DEF IndInv

(* httpCommand that does not support the command keeps the mutex.          *)
LEMMA UnsupportedInv ==
  ASSUME IndInv, NEW t \in Threads, HttpCommandUnsupported(t)
  PROVE  IndInv'
  <1>1. Stays(t) /\ th'[t].at = "idle"
    BY ReturnThread DEF IndInv, Types, HttpCommandUnsupported
  <1>2. /\ th[t].at = "lock" /\ th[t].call # "find"
        /\ Lock(t, 1)
        /\ UNCHANGED <<profiles, prof, inbox, line, running, own, gaveUp>>
    BY DEF HttpCommandUnsupported, Called
  <1>3. prof[t] \in Profiles
    BY <1>2, Having DEF IndInv
  <1>4. PICK n \in {1, 2} : n = 1
    OBVIOUS
  <1>5. Locked' /\ owner' \in Threads \cup {Nobody} /\ depth' \in 0 .. MaxDepth + 2
    BY <1>1, <1>2, <1>4, Starting DEF IndInv
  <1>6. Shared'
    BY <1>1, <1>2, <1>3, Keeping, NoError DEF IndInv, Waiting, Types
  <1>7. Types'
    BY <1>1, <1>2, <1>5 DEF IndInv, Types, Stays
  <1> QED
    BY <1>5, <1>6, <1>7 DEF IndInv

(* httpSetProfileForCmdMng: the thread goes on to wait for the result.     *)
LEMMA AcceptedInv ==
  ASSUME IndInv, NEW t \in Threads, CommandAccepted(t)
  PROVE  IndInv'
  <1>1. /\ Stays(t)
        /\ th'[t].at = "loop" /\ th'[t].ret = "none" /\ th'[t].call = th[t].call
    BY GotoThread DEF IndInv, Types, CommandAccepted, Points
  <1>2. /\ th[t].at = "cmd"
        /\ profiles' = [profiles EXCEPT ![prof[t]].pending = TRUE, ![prof[t]].result = -1]
        /\ UNCHANGED <<owner, depth, prof, inbox, line, running, own, gaveUp>>
    BY DEF CommandAccepted
  <1>3. prof[t] \in Profiles
    BY <1>2, Having DEF IndInv
  <1>4. [profiles[prof[t]] EXCEPT !.pending = TRUE, !.result = -1] \in Profile
    BY <1>3 DEF IndInv, Types, Profile
  <1>5. /\ profiles'[prof[t]] = [profiles[prof[t]] EXCEPT !.pending = TRUE, !.result = -1]
        /\ \A p \in Profiles \ {prof[t]} : profiles'[p] = profiles[p]
        /\ profiles' \in [Profiles -> Profile]
    BY <1>2, <1>3, <1>4 DEF IndInv, Types
  <1>6. profiles'[prof[t]].handle = profiles[prof[t]].handle
    BY <1>3, <1>5 DEF IndInv, Types, Profile
  <1>7. Locked' /\ owner' \in Threads \cup {Nobody} /\ depth' \in 0 .. MaxDepth + 2
    BY <1>1, <1>2, Staying DEF IndInv, Talking
  <1>8. Shared'
    <2>1. \A p \in Profiles : profiles'[p].handle = profiles[p].handle
      BY <1>5, <1>6
    <2>2. \A p \in Profiles \ {prof[t]} : profiles'[p].pending => profiles[p].pending
      BY <1>5
    <2>3. Waiting(t)'
      BY <1>1 DEF Waiting
    <2>4. prof[t] # HTTP_PROF_ERROR
      BY <1>3, NoError
    <2> QED
      BY <1>1, <1>2, <1>5, <2>1, <2>2, <2>3, <2>4, Keeping DEF IndInv
  <1>9. Types'
    BY <1>1, <1>2, <1>5, <1>7 DEF IndInv, Types, Stays
  <1> QED
    BY <1>7, <1>8, <1>9 DEF IndInv

(* waitFinalResp takes a line, which may be the result of any profile.     *)
LEMMA WaitLineInv ==
  ASSUME IndInv, NEW t \in Threads, WaitLine(t)
  PROVE  IndInv'
  <1>1. /\ line # << >> /\ th[t].at \in Waits
        /\ UNCHANGED <<owner, depth, prof, inbox, running, gaveUp>>
    BY DEF WaitLine
  <1>2. Head(line) \in Replies /\ Tail(line) \in Seq(Replies) /\ line' = Tail(line)
    BY <1>1, HeadTailProperties DEF IndInv, Types, WaitLine
  <1> DEFINE l == Head(line)
             r == IF l.kind \in Final THEN l.kind
                  ELSE IF th[t].at = "poll" THEN "WAIT" ELSE "none"
             f == th[t].found \/ l.kind = "UDNSRN"
  <1>3. r \in Final \cup {"none", "WAIT"} /\ f \in BOOLEAN
    OBVIOUS
  <1>4. th' = [th EXCEPT ![t].found = f, ![t].ret = r]
    BY DEF WaitLine
  <1> HIDE DEF r, f
  <1>5. Stays(t) /\ th'[t].at = th[t].at /\ th'[t].call = th[t].call
    BY <1>3, <1>4 DEF IndInv, Types, Thread, Stays
  <1>6. Locked' /\ owner' \in Threads \cup {Nobody} /\ depth' \in 0 .. MaxDepth + 2
    BY <1>1, <1>5, Staying DEF IndInv, Talking, Waits
  <1>7. /\ profiles' \in [Profiles -> Profile] /\ own' \in [Profiles -> BOOLEAN]
        /\ \A p \in Profiles : /\ profiles'[p].handle = profiles[p].handle
                               /\ profiles'[p].pending = profiles[p].pending
    <2>1. CASE l.kind = "UUHTTPCR"
      <3>1. l.profile \in Profiles /\ l.n \in {-1, 0, 1} /\ l.fresh \in BOOLEAN
        BY <1>2 DEF Replies
      <3>2. /\ profiles' = [profiles EXCEPT ![l.profile].result = l.n]
            /\ own' = [own EXCEPT ![l.profile] = l.fresh]
        BY <2>1 DEF WaitLine
      <3> HIDE DEF l
      <3>3. [profiles[l.profile] EXCEPT !.result = l.n] \in Profile
        BY <3>1 DEF IndInv, Types, Profile
      <3> QED
        BY <3>1, <3>2, <3>3 DEF IndInv, Types, Profile
    <2>2. CASE l.kind # "UUHTTPCR"
      BY <2>2 DEF WaitLine, IndInv, Types
    <2> QED
      BY <2>1, <2>2
  <1>8. prof[t] \in Profiles
    BY <1>1, Having DEF IndInv, Waits
  <1>9. Shared'
    BY <1>1, <1>5, <1>7, <1>8, Keeping, NoError DEF IndInv, Waiting
  <1>10. Types'
    BY <1>1, <1>2, <1>5, <1>6, <1>7 DEF IndInv, Types, Stays
  <1> QED
    BY <1>6, <1>9, <1>10 DEF IndInv

(* The modem executes a command. *)
LEMMA ModemExecutesTypes ==
  ASSUME Types, ModemExecutes
  PROVE  inbox' \in Seq(Requests) /\ line' \in Seq(Replies) /\ running' \in Seq(Tasks)
  <1>1. Head(inbox) \in Requests /\ Tail(inbox) \in Seq(Requests)
    BY HeadTailProperties DEF Types, ModemExecutes
  <1> DEFINE c == Head(inbox)
  <1>2. \A k \in Final \cup {"UDNSRN"} : Answer(k, c.profile) \in Replies
    BY <1>1 DEF Answer, Replies, Requests
  <1>3. line' \in Seq(Replies)
    <2>1. \A x \in Replies, y \in Replies : <<x>> \in Seq(Replies) /\ <<x, y>> \in Seq(Replies)
      OBVIOUS
    <2>2. PICK q \in Seq(Replies) : line' = line \o q
      BY <1>2, <2>1 DEF ModemExecutes, Say, Final
    <2> QED
      BY <2>2, ConcatProperties DEF Types
  <1>4. running' \in Seq(Tasks)
    <2>1. [profile |-> c.profile, fresh |-> TRUE] \in Tasks
      BY <1>1 DEF Tasks, Requests
    <2>2. Append(running, [profile |-> c.profile, fresh |-> TRUE]) \in Seq(Tasks)
      BY <2>1, AppendProperties DEF Types
    <2> QED
      BY <2>2 DEF ModemExecutes, Types
  <1> QED
    BY <1>1, <1>3, <1>4 DEF ModemExecutes

(* The modem finishes an HTTP command. *)
LEMMA ModemFinishesTypes ==
  ASSUME Types, ModemFinishes
  PROVE  line' \in Seq(Replies) /\ running' \in Seq(Tasks)
  <1>1. Head(running) \in Tasks /\ Tail(running) \in Seq(Tasks)
    BY HeadTailProperties DEF Types, ModemFinishes
  <1>2. \A n \in {0, 1} :
          [kind |-> "UUHTTPCR", profile |-> Head(running).profile, n |-> n,
           fresh |-> Head(running).fresh] \in Replies
    BY <1>1 DEF Tasks, Replies
  <1>3. \A x \in Replies : <<x>> \in Seq(Replies)
    OBVIOUS
  <1>4. PICK q \in Seq(Replies) : line' = line \o q
    BY <1>2, <1>3 DEF ModemFinishes, Say
  <1> QED
    BY <1>1, <1>4, ConcatProperties DEF Types, ModemFinishes

(* The modem takes part neither in the mutex nor in the profiles.          *)
LEMMA ModemInv ==
  ASSUME IndInv, ModemExecutes \/ ModemFinishes
  PROVE  IndInv'
  <1>1. UNCHANGED <<owner, depth, profiles, th, prof, own, gaveUp>>
    BY DEF ModemExecutes, ModemFinishes
  <1>2. inbox' \in Seq(Requests) /\ line' \in Seq(Replies) /\ running' \in Seq(Tasks)
    <2>1. CASE ModemExecutes
      BY <2>1, ModemExecutesTypes DEF IndInv
    <2>2. CASE ModemFinishes
      BY <2>2, ModemFinishesTypes DEF IndInv, ModemFinishes, Types
    <2> QED
      BY <2>1, <2>2
  <1>3. Types'
    BY <1>1, <1>2 DEF IndInv, Types
  <1>4. Locked' /\ Shared'
    BY <1>1 DEF IndInv, Locked, Shared, Talking, HasProfile, Marked, ProfileHasOneUser,
                PendingWhileWaiting
  <1> QED
    BY <1>3, <1>4 DEF IndInv

(* A thread that has the mutex starts its call. *)
LEMMA TakesInv ==
  ASSUME IndInv, NEW t \in Threads, Takes(t)
  PROVE  IndInv'
  <1>1. PICK one \in {1, 2}, two \in {1, 2} : one = 1 /\ two = 2
    OBVIOUS
  <1>2. CASE HttpResetProfile(t)
    BY <1>1, <1>2, SendInv DEF HttpResetProfile, Called
  <1>3. CASE HttpSetPar(t)
    BY <1>1, <1>3, SendInv DEF HttpSetPar, Called
  <1>4. CASE HttpSetParAddress(t)
    BY <1>1, <1>4, SendInv DEF HttpSetParAddress, Called
  <1>5. CASE HttpCommand(t)
    BY <1>1, <1>5, SendInv DEF HttpCommand, Called
  <1> QED
    BY <1>2, <1>3, <1>4, <1>5, FindInv, SetBlockingInv, FreeInv, UnsupportedInv DEF Takes

(* The other steps of a call. *)
LEMMA ContinuesInv ==
  ASSUME IndInv, NEW t \in Threads, Continues(t) \/ TimerExpires(t)
  PROVE  IndInv'
  <1>1. th \in [Threads -> Thread]
    BY DEF IndInv, Types
  <1>2. CASE WaitTimeout(t)
    <2>1. Stays(t) /\ th'[t].at = th[t].at
      BY <1>1, <1>2 DEF WaitTimeout, Thread, Stays
    <2> QED
      BY <1>2, <2>1, MoveInv DEF WaitTimeout, Talking, Waits, Waiting
  <1>3. CASE TimerExpires(t)
    <2>1. Stays(t) /\ th'[t].at = th[t].at
      BY <1>1, <1>3 DEF TimerExpires, Thread, Stays
    <2> QED
      BY <1>3, <2>1, MoveInv DEF TimerExpires, Talking, Waiting
  <1>4. CASE HttpParDone(t) \/ HostUnknown(t) \/ CommandRefused(t) \/ ReadDone(t)
    <2>1. /\ Return(t) /\ Unlock /\ th[t].at \in {"reset", "par", "dns", "cmd", "read"}
          /\ UNCHANGED <<profiles, prof, inbox, line, running, own, gaveUp>>
      BY <1>4 DEF HttpParDone, HostUnknown, CommandRefused, ReadDone
    <2> QED
      BY <1>1, <2>1, ReturnThread, MoveInv DEF Talking, Waiting
  <1>5. CASE HostFound(t)
    BY <1>5, SendAgainInv DEF HostFound, Talking
  <1>6. CASE CommandResult(t)
    <2>1. CASE Command(t, "URDFILE", "read") /\ UNCHANGED <<owner, depth>>
      BY <1>6, <2>1, SendAgainInv DEF CommandResult, Talking
    <2>2. CASE Unlock /\ Return(t) /\ UNCHANGED <<inbox, line, running, own>>
      BY <1>1, <1>6, <2>2, ReturnThread, MoveInv DEF CommandResult, Talking
    <2> QED
      BY <1>6, <2>1, <2>2 DEF CommandResult
  <1>7. CASE CommandPoll(t)
    <2>1. Stays(t) /\ th'[t].at = "poll"
      BY <1>1, <1>7, GotoThread DEF CommandPoll, Points, Waits
    <2> QED
      BY <1>7, <2>1, MoveInv DEF CommandPoll, Talking, Waiting
  <1>8. CASE CommandPolled(t)
    <2>1. CASE Goto(t, "loop") /\ UNCHANGED <<owner, depth, profiles, gaveUp>>
      <3>1. Stays(t) /\ th'[t].at = "loop"
        BY <1>1, <2>1, GotoThread DEF Points
      <3> QED
        BY <1>8, <2>1, <3>1, MoveInv DEF CommandPolled, Talking, Waiting
    <2>2. CASE NotPending(t) /\ Unlock /\ Return(t) /\ gaveUp' = gaveUp \cup {prof[t]}
      BY <1>1, <1>8, <2>2, ReturnThread, MoveInv DEF CommandPolled, Talking
    <2> QED
      BY <1>8, <2>1, <2>2 DEF CommandPolled
  <1>9. CASE CommandExpired(t)
    BY <1>1, <1>9, ReturnThread, MoveInv DEF CommandExpired, Talking
  <1> QED
    BY <1>2, <1>3, <1>4, <1>5, <1>6, <1>7, <1>8, <1>9, WaitLineInv, AcceptedInv
    DEF Continues

(* The invariant is inductive. *)
LEMMA StepInv == IndInv /\ [Next]_vars => IndInv'
  <1> SUFFICES ASSUME IndInv, [Next]_vars PROVE IndInv'
    OBVIOUS
  <1>1. CASE UNCHANGED vars
    BY <1>1 DEF vars, IndInv, Types, Locked, Shared, Talking, HasProfile, Marked,
                ProfileHasOneUser, PendingWhileWaiting
  <1>2. CASE Next
    BY <1>2, EnterInv, TakesInv, ContinuesInv, ModemInv DEF Next
  <1> QED
    BY <1>1, <1>2

----------------------------------------------------------------------------

(* IndInv holds in every state, for any number of threads and profiles.    *)
THEOREM Invariance == Spec => []IndInv
  BY InitInv, StepInv, PTL DEF Spec

(* The variables keep their types; the mutex is held within its bound by a  *)
(* thread, and a profile a thread has is marked as used.                   *)
THEOREM TypeCorrect == Spec => []TypeOK
  <1>1. IndInv => TypeOK
    BY DEF IndInv, Types, Locked, Shared, Marked, TypeOK, Profile, Thread, Points
  <1> QED
    BY <1>1, Invariance, PTL

(* However a call ends, and even if it keeps the mutex, no two threads ever *)
(* talk to the modem at a time (MDM.cpp: LOCK).                            *)
THEOREM OnlyOneTalks == Spec => []OneThreadTalks
  <1>1. IndInv => OneThreadTalks
    BY DEF IndInv, Locked, OneThreadTalks
  <1> QED
    BY <1>1, Invariance, PTL

(* httpFindProfile never gives two threads the same profile.               *)
THEOREM ProfilesAreApart == Spec => []ProfileHasOneUser
  <1>1. IndInv => ProfileHasOneUser
    BY DEF IndInv, Shared
  <1> QED
    BY <1>1, Invariance, PTL

(* No path out of httpCommand leaves its profile marked as being processed. *)
THEOREM PendingEnds == Spec => []PendingWhileWaiting
  <1>1. IndInv => PendingWhileWaiting
    BY DEF IndInv, Shared
  <1> QED
    BY <1>1, Invariance, PTL

----------------------------------------------------------------------------
(* Whose result it is.  Without LateAnswers, an answer belongs to the       *)
(* command whose thread waits for it, and so does a result, as long as no  *)
(* command on that profile was given up.                                   *)

(* The thread waits for the final answer to a command. *)
Asking(t) == th[t].at \in Waits \ {"poll"} /\ th[t].ret = "none"

(* A command is executed once and answered once: the answer that comes is   *)
(* the one the thread waits for, and nothing is left when nobody waits.    *)
FinalIn(q) == \E i \in 1 .. Len(q) : q[i].kind \in Final
OneFinal(q) == \E i \in 1 .. Len(q) : /\ q[i].kind \in Final
                                      /\ \A j \in 1 .. Len(q) : q[j].kind \in Final => j = i
Answers ==
  /\ (\A t \in Threads : ~Asking(t)) => inbox = << >> /\ ~FinalIn(line)
  /\ \A t \in Threads : Asking(t) =>
       \/ /\ Len(inbox) = 1 /\ ~FinalIn(line)
          /\ inbox[1].profile = prof[t] /\ (inbox[1].kind = "UHTTPC" <=> th[t].at = "cmd")
       \/ inbox = << >> /\ OneFinal(line)

(* At most one HTTP command of a profile is under way or has its result on  *)
(* the line, and it is the last one that was asked.                        *)
IsResult(l, p) == l.kind = "UUHTTPCR" /\ l.profile = p
OneOfOwn(p) ==
  /\ \A i \in 1 .. Len(running) : running[i].profile = p =>
       /\ running[i].fresh = TRUE
       /\ \A j \in 1 .. Len(running) : running[j].profile = p => j = i
       /\ \A j \in 1 .. Len(line) : ~IsResult(line[j], p)
  /\ \A i \in 1 .. Len(line) : IsResult(line[i], p) =>
       /\ line[i].fresh = TRUE
       /\ \A j \in 1 .. Len(line) : IsResult(line[j], p) => j = i
UnderWay(p) == \/ \E i \in 1 .. Len(running) : running[i].profile = p
               \/ \E i \in 1 .. Len(line) : IsResult(line[i], p)

(* The thread will take the result of the command of its profile.          *)
Awaits(t) ==
  \/ Waiting(t) /\ profiles[prof[t]].result = -1
  \/ /\ th[t].at = "cmd"
     /\ \/ th[t].ret = "OK"
        \/ /\ th[t].ret = "none" /\ inbox = << >>
           /\ \A i \in 1 .. Len(line) : line[i].kind # "ERROR"
Outstanding ==
  \A p \in Profiles \ gaveUp :
    OneOfOwn(p) /\ (UnderWay(p) => \E t \in Threads : prof[t] = p /\ Awaits(t))

(* The thread takes what is stored for the result of its command.          *)
Has(t) == \/ Waiting(t) /\ profiles[prof[t]].result # -1
          \/ th[t].at = "read"
Own == \A t \in Threads : Has(t) => prof[t] \in gaveUp \/ own[prof[t]]

OwnInv ==
  /\ LateAnswers = FALSE
  /\ IndInv /\ Answers /\ Outstanding /\ Own

Silent(t) == ~Asking(t) /\ ~Awaits(t) /\ ~Has(t)

(* Who does not talk to the modem waits for nothing. *)
LEMMA SilentThread ==
  ASSUME NEW t \in Threads, ~Talking(t)
  PROVE  Silent(t)
  BY DEF Talking, Silent, Asking, Awaits, Has, Waiting, Waits

(* While a thread has the mutex, or can get it, the others are silent.     *)
LEMMA OthersSilent ==
  ASSUME IndInv, NEW t \in Threads, Talking(t) \/ CanLock(t)
  PROVE  \A u \in Threads \ {t} : ~Talking(u) /\ Silent(u)
  <1>1. \A u \in Threads \ {t} : ~Talking(u)
    BY HttpAssumption DEF IndInv, Locked, CanLock
  <1> QED
    BY <1>1, SilentThread

(* A thread that goes where it does not wait for an answer, while nothing   *)
(* passes between driver and modem.                                        *)
LEMMA ThreadStep ==
  ASSUME OwnInv, NEW t \in Threads, Stays(t),
         UNCHANGED <<inbox, line, running, own>>,
         gaveUp \subseteq gaveUp',
         \/ \A u \in Threads \ {t} : ~Talking(u)
         \/ UNCHANGED <<prof, profiles>>,
         \A u \in Threads \ {t} : prof'[u] = prof[u],
         ~Asking(t), ~Asking(t)',
         Awaits(t) /\ prof[t] \notin gaveUp' => Awaits(t)' /\ prof'[t] = prof[t],
         Has(t)' => Has(t) /\ prof'[t] = prof[t]
  PROVE  Answers' /\ Outstanding' /\ Own'
  <1>1. \A u \in Threads \ {t} : /\ Asking(u)' <=> Asking(u)
                                 /\ th'[u] = th[u]
    BY DEF Stays, Asking
  <1>2. \A u \in Threads \ {t} : (Awaits(u) => Awaits(u)') /\ (Has(u)' => Has(u))
    <2>1. CASE UNCHANGED <<prof, profiles>>
      BY <1>1, <2>1 DEF Awaits, Has, Waiting
    <2>2. CASE \A u \in Threads \ {t} : ~Talking(u)
      <3>1. \A u \in Threads \ {t} : ~Talking(u)'
        BY <1>1, <2>2 DEF Talking
      <3>2. \A u \in Threads \ {t} : ~Awaits(u) /\ ~Has(u)'
        BY <2>2, <3>1 DEF Awaits, Has, Waiting, Talking
      <3> QED
        BY <3>2
    <2> QED
      BY <2>1, <2>2
  <1>3. Answers'
    BY <1>1 DEF OwnInv, Answers, FinalIn, OneFinal
  <1>4. Outstanding'
    BY <1>2 DEF OwnInv, Outstanding, OneOfOwn, UnderWay, IsResult
  <1>5. Own'
    BY <1>2 DEF OwnInv, Own
  <1> QED
    BY <1>3, <1>4, <1>5

(* A command is sent when nothing is under way that counts.                *)
LEMMA NothingUnderWay ==
  ASSUME OwnInv, \A u \in Threads : ~Awaits(u)
  PROVE  \A p \in Profiles \ gaveUp : ~UnderWay(p)
  BY DEF OwnInv, Outstanding

(* A command, the first thing that waits: what came before it is old.      *)
LEMMA SendStep ==
  ASSUME OwnInv, NEW t \in Threads, \A u \in Threads \ {t} : ~Talking(u),
         ~Asking(t), ~Awaits(t), prof[t] \in Profiles,
         NEW k \in {"UHTTP", "UDNSRN", "UHTTPC", "URDFILE"},
         NEW point \in Waits \ {"poll"}, k = "UHTTPC" <=> point = "cmd",
         point = "read" => Has(t),
         Command(t, k, point), UNCHANGED <<prof, gaveUp>>
  PROVE  Answers' /\ Outstanding' /\ Own'
  <1> DEFINE c == [kind |-> k, profile |-> prof[t]]
  <1>1. point \in Points /\ Types
    BY DEF Points, OwnInv, IndInv
  <1>2. Stays(t) /\ th'[t].at = point /\ th'[t].ret = "none"
    BY <1>1, CommandTypes
  <1>3. \A u \in Threads \ {t} : Silent(u) /\ ~Talking(u)' /\ ~Asking(u)' /\ ~Has(u)'
    BY <1>2, SilentThread DEF Stays, Talking, Asking, Has, Waiting, Waits
  <1>4. Asking(t)' /\ ~Waiting(t)'
    BY <1>2 DEF Asking, Waiting, Waits
  <1>5. \A u \in Threads : ~Asking(u) /\ ~Awaits(u)
    BY <1>3 DEF Silent
  <1>6. inbox = << >> /\ ~FinalIn(line)
    BY <1>5 DEF OwnInv, Answers
  <1>7. inbox' = <<c>> /\ Len(inbox') = 1 /\ inbox'[1] = c
    BY <1>6 DEF Command
  <1>8. /\ Len(line') = Len(line) /\ Len(running') = Len(running)
        /\ \A i \in 1 .. Len(line) : /\ line'[i].kind = line[i].kind
                                     /\ line'[i].profile = line[i].profile
        /\ \A i \in 1 .. Len(running) : running'[i].profile = running[i].profile
    <2>1. CASE k = "UHTTPC"
      <3>1. \A x \in Replies : [x EXCEPT !.fresh = FALSE] \in Replies
        BY DEF Replies
      <3>2. \A x \in Tasks : [x EXCEPT !.fresh = FALSE] \in Tasks
        BY DEF Tasks
      <3>3. running' = Stale(running, prof[t]) /\ line' = Stale(line, prof[t])
        BY <2>1 DEF Command
      <3>4. /\ Len(line') = Len(line)
            /\ \A i \in 1 .. Len(line) :
                 line'[i] = IF line[i].profile = prof[t] THEN [line[i] EXCEPT !.fresh = FALSE]
                                                         ELSE line[i]
        <4>1. /\ Len(Stale(line, prof[t])) = Len(line)
              /\ \A i \in 1 .. Len(line) :
                   Stale(line, prof[t])[i] =
                     IF line[i].profile = prof[t] THEN [line[i] EXCEPT !.fresh = FALSE]
                                                  ELSE line[i]
          <5>1. line \in Seq(Replies)
            BY <1>1 DEF Types
          <5>2. DOMAIN line = 1 .. Len(line)
            BY <5>1
          <5>3. Len(Stale(line, prof[t])) = Len(line)
            BY <3>1, <5>1, StaleTypes
          <5> QED
            BY <5>2, <5>3 DEF Stale
        <4> QED
          BY <3>3, <4>1
      <3>5. /\ Len(running') = Len(running)
            /\ \A i \in 1 .. Len(running) :
                 running'[i] = IF running[i].profile = prof[t]
                               THEN [running[i] EXCEPT !.fresh = FALSE] ELSE running[i]
        <4>1. /\ Len(Stale(running, prof[t])) = Len(running)
              /\ \A i \in 1 .. Len(running) :
                   Stale(running, prof[t])[i] =
                     IF running[i].profile = prof[t] THEN [running[i] EXCEPT !.fresh = FALSE]
                                                     ELSE running[i]
          <5>1. running \in Seq(Tasks)
            BY <1>1 DEF Types
          <5>2. DOMAIN running = 1 .. Len(running)
            BY <5>1
          <5>3. Len(Stale(running, prof[t])) = Len(running)
            BY <3>2, <5>1, StaleTypes
          <5> QED
            BY <5>2, <5>3 DEF Stale
        <4> QED
          BY <3>3, <4>1
      <3>6. /\ \A i \in 1 .. Len(line) : line[i] \in Replies
            /\ \A i \in 1 .. Len(running) : running[i] \in Tasks
        BY <1>1 DEF Types
      <3> QED
        BY <3>4, <3>5, <3>6 DEF Replies, Tasks
    <2>2. CASE k # "UHTTPC"
      BY <2>2 DEF Command
    <2> QED
      BY <2>1, <2>2
  <1>9. ~FinalIn(line)'
    BY <1>6, <1>8 DEF FinalIn
  <1>10. Answers'
    <2>1. c.profile = prof'[t] /\ (c.kind = "UHTTPC" <=> th'[t].at = "cmd")
      BY <1>2
    <2> QED
      BY <1>3, <1>4, <1>7, <1>9, <2>1 DEF Answers
  <1>11. Outstanding'
    <2>1. \A p \in Profiles \ gaveUp : ~UnderWay(p)
      BY <1>5, NothingUnderWay
    <2>2. \A p \in Profiles \ gaveUp : ~UnderWay(p)'
      BY <1>8, <2>1 DEF UnderWay, IsResult
    <2>3. \A p \in Profiles : ~UnderWay(p)' => OneOfOwn(p)'
      BY DEF UnderWay, OneOfOwn
    <2> QED
      BY <2>2, <2>3 DEF Outstanding
  <1>12. Own'
    <2>1. Has(t)' => point = "read"
      BY <1>2, <1>4 DEF Has
    <2>2. point = "read" => own' = own
      BY DEF Command
    <2> QED
      BY <1>3, <2>1, <2>2 DEF Own, OwnInv
  <1> QED
    BY <1>10, <1>11, <1>12

----------------------------------------------------------------------------
(* The steps that wait for nothing. *)

(* A call starts, or ends under the lock. *)
LEMMA StartStep ==
  ASSUME OwnInv, NEW t \in Threads,
         \/ \E f \in Calls : Enter(t, f)
         \/ HttpFindProfile(t) \/ HttpSetBlocking(t) \/ HttpFreeProfile(t)
         \/ HttpCommandUnsupported(t)
  PROVE  Answers' /\ Outstanding' /\ Own'
  <1>1. th \in [Threads -> Thread] /\ prof \in [Threads -> Profiles \cup {HTTP_PROF_ERROR}]
    BY DEF OwnInv, IndInv, Types
  <1>2. Stays(t) /\ th'[t].at \in {"idle", "lock"} /\ ~Talking(t)
    BY <1>1, EnterThread, ReturnThread
    DEF Enter, HttpFindProfile, HttpSetBlocking, HttpFreeProfile, HttpCommandUnsupported,
        Called, Talking
  <1>3. Silent(t) /\ ~Asking(t)' /\ ~Has(t)'
    BY <1>2, SilentThread DEF Asking, Has, Waiting, Waits
  <1>4. UNCHANGED <<inbox, line, running, own, gaveUp>>
    BY DEF Enter, HttpFindProfile, HttpSetBlocking, HttpFreeProfile, HttpCommandUnsupported
  <1>5. \A u \in Threads \ {t} : prof'[u] = prof[u]
    BY <1>1
    DEF Enter, HttpFindProfile, HttpSetBlocking, HttpFreeProfile, HttpCommandUnsupported
  <1>6. \/ \A u \in Threads \ {t} : ~Talking(u)
        \/ UNCHANGED <<prof, profiles>>
    <2>1. CASE \E f \in Calls : Enter(t, f)
      BY <2>1 DEF Enter
    <2>2. CASE CanLock(t)
      BY <2>2, OthersSilent DEF OwnInv
    <2> QED
      BY <2>1, <2>2
      DEF HttpFindProfile, HttpSetBlocking, HttpFreeProfile, HttpCommandUnsupported, Called
  <1> QED
    BY <1>2, <1>3, <1>4, <1>5, <1>6, ThreadStep DEF Silent

(* A call that sends a command. *)
LEMMA SendingStep ==
  ASSUME OwnInv, NEW t \in Threads,
         \/ HttpResetProfile(t) \/ HttpSetPar(t) \/ HttpSetParAddress(t) \/ HttpCommand(t)
  PROVE  Answers' /\ Outstanding' /\ Own'
  <1>1. /\ th[t].at = "lock" /\ th[t].call # "find" /\ CanLock(t) /\ ~Talking(t)
        /\ UNCHANGED <<prof, gaveUp>>
    BY DEF HttpResetProfile, HttpSetPar, HttpSetParAddress, HttpCommand, Called, Talking
  <1>2. prof[t] \in Profiles
    BY <1>1, Having DEF OwnInv, IndInv
  <1>3. Silent(t) /\ \A u \in Threads \ {t} : ~Talking(u)
    BY <1>1, SilentThread, OthersSilent DEF OwnInv
  <1>4. PICK k \in {"UHTTP", "UDNSRN", "UHTTPC", "URDFILE"}, point \in Waits \ {"poll", "read"} :
          Command(t, k, point) /\ (k = "UHTTPC" <=> point = "cmd")
    BY DEF HttpResetProfile, HttpSetPar, HttpSetParAddress, HttpCommand, Waits
  <1> QED
    BY <1>1, <1>2, <1>3, <1>4, SendStep DEF Silent

(* A call that ends, is given up, or goes on to look for its result.       *)
LEMMA MovingStep ==
  ASSUME OwnInv, NEW t \in Threads,
         \/ HttpParDone(t) \/ HostUnknown(t) \/ CommandRefused(t) \/ ReadDone(t)
         \/ CommandAccepted(t) \/ CommandPoll(t) \/ CommandPolled(t) \/ CommandExpired(t)
         \/ TimerExpires(t)
  PROVE  Answers' /\ Outstanding' /\ Own'
  <1>1. /\ th \in [Threads -> Thread] /\ profiles \in [Profiles -> Profile]
        /\ UNCHANGED <<inbox, line, running, own, prof>> /\ gaveUp \subseteq gaveUp'
    <2>1. th \in [Threads -> Thread] /\ profiles \in [Profiles -> Profile]
      BY DEF OwnInv, IndInv, Types
    <2>2. UNCHANGED <<inbox, line, running, own, prof>>
      BY DEF HttpParDone, HostUnknown, CommandRefused, ReadDone,
             CommandAccepted, CommandPoll, CommandPolled, CommandExpired, TimerExpires
    <2>3. gaveUp' = gaveUp \/ gaveUp' = gaveUp \cup {prof[t]}
      BY DEF HttpParDone, HostUnknown, CommandRefused, ReadDone,
             CommandAccepted, CommandPoll, CommandPolled, CommandExpired, TimerExpires
    <2> QED
      BY <2>1, <2>2, <2>3
  <1>2. Talking(t) /\ ~Asking(t) /\ th[t].at \notin {"idle", "lock"}
    BY DEF HttpParDone, HostUnknown, CommandRefused, ReadDone, CommandAccepted, CommandPoll,
           CommandPolled, CommandExpired, TimerExpires, Talking, Asking, Waits
  <1>3. \A u \in Threads \ {t} : ~Talking(u)
    BY <1>2, OthersSilent DEF OwnInv
  <1>4. prof[t] \in Profiles
    BY <1>2, Having DEF OwnInv, IndInv
  <1>5. CASE \/ HttpParDone(t) \/ HostUnknown(t) \/ CommandRefused(t) \/ ReadDone(t)
             \/ CommandExpired(t)
             \/ CommandPolled(t) /\ Return(t) /\ gaveUp' = gaveUp \cup {prof[t]}
    <2>1. Return(t)
      BY <1>5 DEF HttpParDone, HostUnknown, CommandRefused, ReadDone, CommandExpired
    <2>2. Stays(t) /\ th'[t].at = "idle"
      BY <1>1, <2>1, ReturnThread
    <2>3. Awaits(t) => prof[t] \in gaveUp'
      BY <1>5 DEF HttpParDone, HostUnknown, CommandRefused, ReadDone, CommandExpired,
                  CommandPolled, Awaits, Waiting
    <2>4. ~Asking(t)' /\ ~Has(t)'
      BY <2>2 DEF Asking, Has, Waiting, Waits
    <2> QED
      BY <1>1, <1>2, <1>3, <2>2, <2>3, <2>4, ThreadStep
  <1>6. CASE CommandAccepted(t)
    <2>1. /\ Stays(t) /\ th'[t].at = "loop"
          /\ profiles' = [profiles EXCEPT ![prof[t]].pending = TRUE, ![prof[t]].result = -1]
      BY <1>1, <1>6, GotoThread DEF CommandAccepted, Points
    <2>2. [profiles[prof[t]] EXCEPT !.pending = TRUE, !.result = -1].result = -1
      BY <1>1, <1>4 DEF Profile
    <2>3. profiles'[prof[t]].result = -1
      BY <1>1, <1>4, <2>1, <2>2
    <2>4. ~Asking(t)' /\ ~Has(t)' /\ Awaits(t)'
      BY <1>1, <2>1, <2>3 DEF Asking, Has, Awaits, Waiting, Waits
    <2> QED
      BY <1>1, <1>2, <1>3, <2>1, <2>4, ThreadStep
  <1>7. CASE \/ CommandPoll(t) \/ TimerExpires(t)
             \/ CommandPolled(t) /\ Goto(t, "loop") /\ UNCHANGED profiles
    <2>1. Waiting(t) /\ UNCHANGED profiles
      BY <1>7 DEF CommandPoll, CommandPolled, TimerExpires, Waiting
    <2>2. Stays(t) /\ Waiting(t)'
      <3>1. CASE CommandPoll(t) \/ (CommandPolled(t) /\ Goto(t, "loop"))
        BY <1>1, <3>1, GotoThread DEF CommandPoll, Points, Waits, Waiting
      <3>2. CASE TimerExpires(t)
        BY <1>1, <3>2 DEF TimerExpires, Thread, Waiting, Stays
      <3> QED
        BY <1>7, <3>1, <3>2
    <2>3. ~Asking(t)' /\ (Has(t)' => Has(t)) /\ (Awaits(t) => Awaits(t)')
      <3>1. th'[t].at # "poll" => th'[t].at \notin Waits
        BY <2>2 DEF Waiting, Waits
      <3>2. th'[t].at # "read"
        BY <2>2 DEF Waiting
      <3>3. th[t].at # "cmd"
        BY <2>1 DEF Waiting
      <3> QED
        BY <1>1, <2>1, <2>2, <3>1, <3>2, <3>3 DEF Asking, Has, Awaits
    <2> QED
      BY <1>1, <1>2, <1>3, <2>2, <2>3, ThreadStep
  <1> QED
    BY <1>5, <1>6, <1>7 DEF CommandPolled

(* The address is found, or the stored result is read. *)
LEMMA SendAgainStep ==
  ASSUME OwnInv, NEW t \in Threads, HostFound(t) \/ CommandResult(t)
  PROVE  Answers' /\ Outstanding' /\ Own'
  <1>1. /\ Talking(t) /\ th[t].at \notin {"idle", "lock"} /\ ~Asking(t) /\ ~Awaits(t)
        /\ UNCHANGED <<prof, gaveUp>>
    BY DEF HostFound, CommandResult, Result, Talking, Asking, Awaits, Waiting, Waits
  <1>2. \A u \in Threads \ {t} : ~Talking(u)
    BY <1>1, OthersSilent DEF OwnInv
  <1>3. prof[t] \in Profiles
    BY <1>1, Having DEF OwnInv, IndInv
  <1>4. CASE HostFound(t)
    BY <1>1, <1>2, <1>3, <1>4, SendStep DEF HostFound, Waits
  <1>5. CASE CommandResult(t) /\ Command(t, "URDFILE", "read")
    <2>1. Has(t)
      BY <1>5 DEF CommandResult, Result, Has, Waiting
    <2> QED
      BY <1>1, <1>2, <1>3, <1>5, <2>1, SendStep DEF Waits
  <1>6. CASE CommandResult(t) /\ Return(t) /\ UNCHANGED <<inbox, line, running, own>>
    <2>1. Stays(t) /\ th'[t].at = "idle"
      BY <1>6, ReturnThread DEF OwnInv, IndInv, Types
    <2>2. ~Asking(t)' /\ ~Has(t)'
      BY <2>1 DEF Asking, Has, Waiting, Waits
    <2> QED
      BY <1>1, <1>2, <1>6, <2>1, <2>2, ThreadStep
  <1> QED
    BY <1>4, <1>5, <1>6 DEF CommandResult

(* A wait for an answer does not time out, a poll may. *)
LEMMA TimeoutStep ==
  ASSUME OwnInv, NEW t \in Threads, WaitTimeout(t)
  PROVE  Answers' /\ Outstanding' /\ Own'
  <1>1. th[t].at = "poll"
    <2> SUFFICES ASSUME th[t].at # "poll" PROVE FALSE
      OBVIOUS
    <2>1. Asking(t) /\ inbox = << >> /\ line = << >>
      BY DEF WaitTimeout, Asking, OwnInv
    <2>2. Len(inbox) = 0 /\ Len(line) = 0
      BY <2>1
    <2> QED
      BY <2>1, <2>2 DEF OwnInv, Answers, OneFinal
  <1>2. /\ Stays(t) /\ th'[t].at = "poll"
        /\ UNCHANGED <<profiles, prof, inbox, line, running, own, gaveUp>>
    BY <1>1 DEF OwnInv, IndInv, Types, WaitTimeout, Thread, Stays
  <1>3. ~Asking(t) /\ ~Asking(t)' /\ (Awaits(t) => Awaits(t)') /\ (Has(t)' => Has(t))
    BY <1>1, <1>2 DEF Asking, Awaits, Has, Waiting
  <1> QED
    BY <1>2, <1>3, ThreadStep

----------------------------------------------------------------------------
(* What passes between driver and modem. *)

(* The line without its first element. *)
LEMMA Shift ==
  ASSUME NEW S, NEW q \in Seq(S), q # << >>
  PROVE  /\ Len(q) \in Nat /\ Len(q) >= 1 /\ Head(q) = q[1] /\ q[1] \in S
         /\ Len(Tail(q)) = Len(q) - 1
         /\ \A i \in 1 .. Len(Tail(q)) : i + 1 \in 2 .. Len(q) /\ Tail(q)[i] = q[i + 1]
         /\ \A i \in 2 .. Len(q) : i - 1 \in 1 .. Len(Tail(q)) /\ q[i] = Tail(q)[i - 1]
  <1>1. Len(q) \in Nat /\ Len(q) # 0
    OBVIOUS
  <1>2. /\ Len(Tail(q)) = Len(q) - 1
        /\ \A i \in 1 .. Len(Tail(q)) : Tail(q)[i] = q[i + 1]
    BY HeadTailProperties
  <1>3. Head(q) = q[1] /\ q[1] \in S
    BY <1>1
  <1> QED
    BY <1>1, <1>2, <1>3

(* waitFinalResp takes the answer it waits for, or a result.               *)
LEMMA WaitLineStep ==
  ASSUME OwnInv, NEW t \in Threads, WaitLine(t)
  PROVE  Answers' /\ Outstanding' /\ Own'
  <1>1. /\ line \in Seq(Replies) /\ line # << >> /\ line' = Tail(line)
        /\ th[t].at \in Waits /\ th[t].ret = "none" /\ Talking(t)
        /\ UNCHANGED <<prof, inbox, running, gaveUp>>
    BY DEF WaitLine, OwnInv, IndInv, Types, Talking, Waits
  <1> DEFINE l == line[1]
  <1>2. /\ Len(line) \in Nat /\ Len(line) >= 1 /\ Head(line) = l /\ l \in Replies
        /\ Len(line') = Len(line) - 1
        /\ \A i \in 1 .. Len(line') : i + 1 \in 2 .. Len(line) /\ line'[i] = line[i + 1]
        /\ \A i \in 2 .. Len(line) : i - 1 \in 1 .. Len(line') /\ line[i] = line'[i - 1]
    BY <1>1, Shift
  <1> DEFINE r == IF l.kind \in Final THEN l.kind
                  ELSE IF th[t].at = "poll" THEN "WAIT" ELSE "none"
             f == th[t].found \/ l.kind = "UDNSRN"
  <1>3. r \in Final \cup {"none", "WAIT"} /\ f \in BOOLEAN
    OBVIOUS
  <1>4. th' = [th EXCEPT ![t].found = f, ![t].ret = r]
    BY <1>2 DEF WaitLine
  <1>5. /\ l.kind \in Final => r = l.kind
        /\ l.kind \notin Final => r = IF th[t].at = "poll" THEN "WAIT" ELSE "none"
    OBVIOUS
  <1> HIDE DEF r, f
  <1>6. Stays(t) /\ th'[t].at = th[t].at /\ th'[t].ret = r
    <2>1. th \in [Threads -> Thread] /\ th[t] \in Thread
      BY DEF OwnInv, IndInv, Types
    <2>2. Stays(t) /\ th'[t].at = th[t].at
      BY <1>3, <1>4, <2>1 DEF Thread, Stays
    <2>3. th'[t] = [th[t] EXCEPT !.found = f, !.ret = r]
      BY <1>4, <2>1
    <2>4. th'[t].ret = r
      BY <2>1, <2>3 DEF Thread
    <2> QED
      BY <2>2, <2>4
  <1>7. IF l.kind = "UUHTTPCR"
        THEN /\ profiles' = [profiles EXCEPT ![l.profile].result = l.n]
             /\ own' = [own EXCEPT ![l.profile] = l.fresh]
        ELSE UNCHANGED <<profiles, own>>
    BY <1>2 DEF WaitLine
  <1> HIDE DEF l
  <1>8. \A u \in Threads \ {t} : Silent(u) /\ ~Asking(u)' /\ ~Awaits(u)' /\ ~Has(u)'
    <2>1. \A u \in Threads \ {t} : ~Talking(u) /\ Silent(u)
      BY <1>1, OthersSilent DEF OwnInv
    <2>2. \A u \in Threads \ {t} : th'[u].at \in {"idle", "lock"}
      BY <1>6, <2>1 DEF Stays, Talking
    <2> QED
      BY <2>1, <2>2 DEF Asking, Awaits, Has, Waiting, Waits
  <1>9. Answers'
    <2>1. ~FinalIn(line) => l.kind \notin Final /\ ~FinalIn(line)'
      BY <1>2 DEF FinalIn, l
    <2>2. CASE ~Asking(t)
      <3>1. th[t].at = "poll" /\ ~Asking(t)'
        BY <1>1, <1>6, <2>2 DEF Asking
      <3>2. \A u \in Threads : ~Asking(u) /\ ~Asking(u)'
        BY <1>8, <2>2, <3>1 DEF Silent
      <3> QED
        BY <1>1, <2>1, <3>2 DEF OwnInv, Answers
    <2>3. CASE Asking(t) /\ Len(inbox) = 1 /\ ~FinalIn(line)
      <3>1. l.kind \notin Final /\ ~FinalIn(line)'
        BY <2>1, <2>3
      <3>2. Asking(t)'
        BY <1>5, <1>6, <2>3, <3>1 DEF Asking
      <3>3. inbox # << >>
        BY <2>3
      <3> QED
        BY <1>1, <1>6, <1>8, <2>3, <3>1, <3>2, <3>3 DEF OwnInv, Answers
    <2>4. CASE Asking(t) /\ inbox = << >> /\ OneFinal(line)
      <3>1. PICK k \in 1 .. Len(line) :
              /\ line[k].kind \in Final
              /\ \A j \in 1 .. Len(line) : line[j].kind \in Final => j = k
        BY <2>4 DEF OneFinal
      <3>2. CASE k = 1
        <4>1. l.kind \in Final /\ r # "none"
          BY <1>5, <3>1, <3>2 DEF l, Final
        <4>2. ~FinalIn(line)'
          BY <1>2, <3>1, <3>2 DEF FinalIn
        <4>3. ~Asking(t)'
          BY <1>6, <4>1 DEF Asking
        <4> QED
          BY <1>1, <1>8, <2>4, <4>2, <4>3 DEF Answers
      <3>3. CASE k # 1
        <4>1. l.kind \notin Final
          BY <1>2, <3>1, <3>3 DEF l
        <4>2. Asking(t)'
          BY <1>5, <1>6, <2>4, <4>1 DEF Asking
        <4>3. k - 1 \in 1 .. Len(line') /\ line'[k - 1].kind \in Final
          BY <1>2, <3>1, <3>3
        <4>4. \A j \in 1 .. Len(line') : line'[j].kind \in Final => j = k - 1
          BY <1>2, <3>1
        <4>5. OneFinal(line)'
          BY <4>3, <4>4 DEF OneFinal
        <4> QED
          BY <1>1, <1>8, <2>4, <4>2, <4>5 DEF Answers
      <3> QED
        BY <3>2, <3>3
    <2> QED
      BY <2>2, <2>3, <2>4 DEF OwnInv, Answers
  <1>10. Awaits(t) /\ ~IsResult(l, prof[t]) => Awaits(t)'
    <2>1. prof[t] \in Profiles /\ profiles \in [Profiles -> Profile]
      BY <1>1, Having DEF OwnInv, IndInv, Types, Waits
    <2>2. ~IsResult(l, prof[t]) => profiles'[prof[t]].result = profiles[prof[t]].result
      BY <1>7, <2>1 DEF IsResult
    <2>3. CASE Waiting(t)
      BY <1>1, <1>6, <2>2, <2>3 DEF Awaits, Waiting
    <2>4. CASE ~Waiting(t) /\ Awaits(t)
      <3>1. /\ th[t].at = "cmd" /\ inbox = << >>
            /\ \A i \in 1 .. Len(line) : line[i].kind # "ERROR"
        BY <1>1, <2>4 DEF Awaits
      <3>2. \A i \in 1 .. Len(line') : line'[i].kind # "ERROR"
        BY <1>2, <3>1
      <3>3. l.kind # "ERROR"
        BY <1>2, <3>1 DEF l
      <3>4. r \in {"OK", "none"}
        BY <1>5, <3>1, <3>3 DEF Final
      <3> QED
        BY <1>1, <1>6, <3>1, <3>2, <3>4 DEF Awaits
    <2> QED
      BY <2>3, <2>4
  <1>11. ASSUME NEW p \in Profiles \ gaveUp
         PROVE  OneOfOwn(p)' /\ (UnderWay(p)' => \E u \in Threads : prof'[u] = p /\ Awaits(u)')
    <2>1. OneOfOwn(p) /\ (UnderWay(p) => \E u \in Threads : prof[u] = p /\ Awaits(u))
      BY DEF OwnInv, Outstanding
    <2>2. OneOfOwn(p)'
      BY <1>1, <1>2, <2>1 DEF OneOfOwn, IsResult
    <2>3. ASSUME UnderWay(p)' PROVE prof'[t] = p /\ Awaits(t)'
      <3>1. UnderWay(p)
        BY <1>1, <1>2, <2>3 DEF UnderWay, IsResult
      <3>2. prof[t] = p /\ Awaits(t)
        BY <1>8, <2>1, <3>1 DEF Silent
      <3>3. ~IsResult(l, p)
        <4> SUFFICES ASSUME IsResult(l, p) PROVE FALSE
          OBVIOUS
        <4>1. 1 \in 1 .. Len(line) /\ IsResult(line[1], p)
          BY <1>2 DEF l
        <4>2. \A i \in 1 .. Len(running) : running[i].profile # p
          BY <2>1, <4>1 DEF OneOfOwn
        <4>3. \A j \in 1 .. Len(line) : IsResult(line[j], p) => j = 1
          BY <2>1, <4>1 DEF OneOfOwn
        <4>4. PICK i \in 1 .. Len(line') : IsResult(line'[i], p)
          BY <1>1, <2>3, <4>2 DEF UnderWay, IsResult
        <4> QED
          BY <1>2, <4>3, <4>4
      <3> QED
        BY <1>1, <1>10, <3>2, <3>3
    <2> QED
      BY <2>2, <2>3
  <1>12. Outstanding'
    BY <1>1, <1>11 DEF Outstanding
  <1>13. ASSUME Has(t)', prof[t] \notin gaveUp PROVE own'[prof[t]]
    <2>1. prof[t] \in Profiles /\ profiles \in [Profiles -> Profile] /\ own \in [Profiles -> BOOLEAN]
      BY <1>1, Having DEF OwnInv, IndInv, Types, Waits
    <2>2. CASE IsResult(l, prof[t])
      <3>1. 1 \in 1 .. Len(line) /\ IsResult(line[1], prof[t])
        BY <1>2, <2>2 DEF l
      <3>2. OneOfOwn(prof[t])
        BY <1>13, <2>1 DEF OwnInv, Outstanding
      <3>3. line[1].fresh = TRUE
        BY <3>1, <3>2 DEF OneOfOwn
      <3>4. own' = [own EXCEPT ![prof[t]] = TRUE]
        BY <1>7, <2>2, <3>3 DEF IsResult, l
      <3> QED
        BY <2>1, <3>4
    <2>3. CASE ~IsResult(l, prof[t])
      <3>1. /\ profiles'[prof[t]].result = profiles[prof[t]].result
            /\ own'[prof[t]] = own[prof[t]]
        BY <1>7, <2>1, <2>3 DEF IsResult
      <3>2. Has(t)
        BY <1>1, <1>6, <1>13, <3>1 DEF Has, Waiting
      <3> QED
        BY <1>13, <3>1, <3>2 DEF OwnInv, Own
    <2> QED
      BY <2>2, <2>3
  <1>14. Own'
    BY <1>1, <1>8, <1>13 DEF Own
  <1> QED
    BY <1>9, <1>12, <1>14

(* The modem's answer is the one its thread waits for. *)
LEMMA ExecutesStep ==
  ASSUME OwnInv, ModemExecutes
  PROVE  Answers' /\ Outstanding' /\ Own'
  <1>1. /\ inbox # << >> /\ inbox' = Tail(inbox) /\ inbox \in Seq(Requests)
        /\ line \in Seq(Replies) /\ running \in Seq(Tasks)
        /\ UNCHANGED <<owner, depth, profiles, th, prof, own, gaveUp>>
    BY DEF ModemExecutes, OwnInv, IndInv, Types
  <1>2. PICK t \in Threads : Asking(t)
    BY <1>1 DEF OwnInv, Answers
  <1> DEFINE c == inbox[1]
  <1>3. /\ Len(inbox) = 1 /\ ~FinalIn(line)
        /\ c.profile = prof[t] /\ (c.kind = "UHTTPC" <=> th[t].at = "cmd")
    BY <1>1, <1>2 DEF OwnInv, Answers
  <1>4. Head(inbox) = c /\ inbox' = << >> /\ c \in Requests
    BY <1>1, <1>3
  <1> HIDE DEF c
  <1>5. Talking(t) /\ ~Waiting(t)
    BY <1>2 DEF Asking, Talking, Waiting, Waits
  <1>6. \A u \in Threads \ {t} : Silent(u)
    BY <1>5, OthersSilent DEF OwnInv
  <1>7. ~Awaits(t)
    BY <1>1, <1>2, <1>5 DEF Awaits, Asking
  <1>8. \A p \in Profiles \ gaveUp : ~UnderWay(p)
    BY <1>6, <1>7, NothingUnderWay DEF Silent
  <1>9. \A k \in Final \cup {"UDNSRN"} :
          Answer(k, c.profile) \in Replies /\ Answer(k, c.profile).kind = k
    BY <1>4 DEF Answer, Replies, Requests
  <1>10. PICK q \in Seq(Replies) :
           /\ line' = line \o q
           /\ \A i \in 1 .. Len(q) : q[i].kind # "UUHTTPCR"
           /\ OneFinal(q)
           /\ \/ running' = running
              \/ /\ c.kind = "UHTTPC"
                 /\ \A i \in 1 .. Len(q) : q[i].kind # "ERROR"
                 /\ running' = Append(running, [profile |-> c.profile, fresh |-> TRUE])
    <2>1. ASSUME NEW k \in Final
          PROVE  LET q == <<Answer(k, c.profile)>>
                 IN  /\ q \in Seq(Replies) /\ OneFinal(q)
                     /\ \A i \in 1 .. Len(q) : q[i].kind = k
      <3> DEFINE q == <<Answer(k, c.profile)>>
      <3>1. q \in Seq(Replies) /\ Len(q) = 1 /\ q[1].kind = k
        BY <1>9
      <3> HIDE DEF q
      <3>2. OneFinal(q)
        BY <3>1 DEF OneFinal
      <3> QED
        BY <3>1, <3>2 DEF q
    <2>2. LET q == <<Answer("UDNSRN", c.profile), Answer("OK", c.profile)>>
          IN  /\ q \in Seq(Replies) /\ OneFinal(q)
              /\ \A i \in 1 .. Len(q) : q[i].kind \in {"UDNSRN", "OK"}
      <3> DEFINE q == <<Answer("UDNSRN", c.profile), Answer("OK", c.profile)>>
      <3>1. q \in Seq(Replies) /\ Len(q) = 2 /\ q[1].kind = "UDNSRN" /\ q[2].kind = "OK"
        BY <1>9 DEF Final
      <3> HIDE DEF q
      <3>2. \A i \in 1 .. Len(q) : i = 1 \/ i = 2
        BY <3>1
      <3>3. OneFinal(q)
        BY <3>1, <3>2 DEF OneFinal, Final
      <3> QED
        BY <3>1, <3>2, <3>3 DEF q
    <2>3. CASE Say(<<Answer("ERROR", c.profile)>>) /\ UNCHANGED running
      BY <2>1, <2>3 DEF Say, Final
    <2>4. CASE /\ Say(<<Answer("OK", c.profile)>>)
               /\ running' = IF c.kind = "UHTTPC"
                             THEN Append(running, [profile |-> c.profile, fresh |-> TRUE])
                             ELSE running
      BY <2>1, <2>4 DEF Say, Final
    <2>5. CASE /\ Say(<<Answer("UDNSRN", c.profile), Answer("OK", c.profile)>>)
               /\ UNCHANGED running
      BY <2>2, <2>5 DEF Say
    <2> QED
      BY <1>4, <2>3, <2>4, <2>5 DEF ModemExecutes
  <1>11. /\ Len(line') = Len(line) + Len(q) /\ Len(line) \in Nat /\ Len(q) \in Nat
         /\ \A i \in 1 .. Len(line) + Len(q) :
              line'[i] = IF i <= Len(line) THEN line[i] ELSE q[i - Len(line)]
    BY <1>1, <1>10, ConcatProperties
  <1>12. Answers'
    <2>1. PICK k \in 1 .. Len(q) : /\ q[k].kind \in Final
                                   /\ \A j \in 1 .. Len(q) : q[j].kind \in Final => j = k
      BY <1>10 DEF OneFinal
    <2>2. Len(line) + k \in 1 .. Len(line') /\ line'[Len(line) + k].kind \in Final
      BY <1>11, <2>1
    <2>3. \A j \in 1 .. Len(line') : line'[j].kind \in Final => j = Len(line) + k
      <3>1. ASSUME NEW j \in 1 .. Len(line'), line'[j].kind \in Final, j <= Len(line) PROVE FALSE
        BY <1>3, <1>11, <3>1 DEF FinalIn
      <3>2. ASSUME NEW j \in 1 .. Len(line'), line'[j].kind \in Final, j > Len(line)
            PROVE  j = Len(line) + k
        <4>1. j - Len(line) \in 1 .. Len(q) /\ j \in 1 .. Len(line) + Len(q)
          BY <1>11, <3>2
        <4>2. line'[j] = q[j - Len(line)]
          BY <1>11, <3>2, <4>1
        <4>3. q[j - Len(line)].kind \in Final
          BY <3>2, <4>2
        <4>4. j - Len(line) = k
          BY <2>1, <4>1, <4>3
        <4>5. Len(line) \in Nat /\ j \in Nat
          BY <1>11, <4>1
        <4> QED
          BY <4>4, <4>5
      <3> QED
        BY <1>11, <3>1, <3>2
    <2>4. OneFinal(line)'
      BY <2>2, <2>3 DEF OneFinal
    <2>5. Asking(t)' /\ \A u \in Threads : Asking(u)' <=> Asking(u)
      BY <1>1, <1>2 DEF Asking
    <2> QED
      BY <1>4, <2>4, <2>5 DEF Answers
  <1>13. \A p : \A i \in 1 .. Len(line') : IsResult(line'[i], p) =>
                  i \in 1 .. Len(line) /\ IsResult(line[i], p)
    <2>1. ASSUME NEW p, NEW i \in 1 .. Len(line'), IsResult(line'[i], p), i > Len(line)
          PROVE  FALSE
      <3>1. i - Len(line) \in 1 .. Len(q) /\ line'[i] = q[i - Len(line)]
        BY <1>11, <2>1
      <3> QED
        BY <1>10, <2>1, <3>1 DEF IsResult
    <2> QED
      BY <1>11, <2>1
  <1>14. ASSUME NEW p \in Profiles \ gaveUp
         PROVE  OneOfOwn(p)' /\ (UnderWay(p)' => \E u \in Threads : prof'[u] = p /\ Awaits(u)')
    <2>1. /\ \A i \in 1 .. Len(line') : ~IsResult(line'[i], p)
          /\ \A i \in 1 .. Len(running) : running[i].profile # p
      BY <1>8, <1>13 DEF UnderWay
    <2>2. CASE running' = running
      BY <2>1, <2>2 DEF OneOfOwn, UnderWay
    <2>3. CASE /\ c.kind = "UHTTPC"
               /\ \A i \in 1 .. Len(q) : q[i].kind # "ERROR"
               /\ running' = Append(running, [profile |-> c.profile, fresh |-> TRUE])
      <3>1. [profile |-> c.profile, fresh |-> TRUE] \in Tasks
        BY <1>4 DEF Tasks, Requests
      <3>2. /\ Len(running') = Len(running) + 1 /\ Len(running) \in Nat
            /\ \A i \in 1 .. Len(running) : running'[i] = running[i]
            /\ running'[Len(running) + 1] = [profile |-> c.profile, fresh |-> TRUE]
        BY <1>1, <2>3, <3>1, AppendProperties
      <3>3. \A i \in 1 .. Len(running') : running'[i].profile = p =>
              i = Len(running) + 1 /\ c.profile = p
        BY <2>1, <3>2
      <3>4. running'[Len(running) + 1].fresh = TRUE
        BY <3>2
      <3>5. OneOfOwn(p)'
        BY <2>1, <3>3, <3>4 DEF OneOfOwn
      <3>6. \A i \in 1 .. Len(line') : line'[i].kind # "ERROR"
        <4>1. ASSUME NEW i \in 1 .. Len(line'), i <= Len(line) PROVE line'[i].kind # "ERROR"
          BY <1>3, <1>11, <4>1 DEF FinalIn, Final
        <4>2. ASSUME NEW i \in 1 .. Len(line'), i > Len(line) PROVE line'[i].kind # "ERROR"
          <5>1. i - Len(line) \in 1 .. Len(q) /\ line'[i] = q[i - Len(line)]
            BY <1>11, <4>2
          <5> QED
            BY <2>3, <5>1
        <4> QED
          BY <1>11, <4>1, <4>2
      <3>7. Awaits(t)'
        BY <1>1, <1>2, <1>3, <1>4, <2>3, <3>6 DEF Awaits, Asking
      <3>8. UnderWay(p)' => prof'[t] = p
        BY <1>1, <1>3, <2>1, <3>3 DEF UnderWay
      <3> QED
        BY <3>5, <3>7, <3>8
    <2> QED
      BY <1>10, <2>2, <2>3
  <1>15. Outstanding'
    BY <1>1, <1>14 DEF Outstanding
  <1>16. Own'
    BY <1>1 DEF OwnInv, Own, Has, Waiting
  <1> QED
    BY <1>12, <1>15, <1>16

(* The modem announces the result of the oldest command. *)
LEMMA FinishesStep ==
  ASSUME OwnInv, ModemFinishes
  PROVE  Answers' /\ Outstanding' /\ Own'
  <1>1. /\ running # << >> /\ running' = Tail(running) /\ running \in Seq(Tasks)
        /\ line \in Seq(Replies)
        /\ UNCHANGED <<owner, depth, profiles, th, prof, inbox, own, gaveUp>>
    BY DEF ModemFinishes, OwnInv, IndInv, Types
  <1> DEFINE h == running[1]
  <1>2. /\ Len(running) \in Nat /\ Len(running) >= 1 /\ Head(running) = h /\ h \in Tasks
        /\ Len(running') = Len(running) - 1
        /\ \A i \in 1 .. Len(running') : i + 1 \in 2 .. Len(running) /\ running'[i] = running[i + 1]
        /\ \A i \in 2 .. Len(running) : i - 1 \in 1 .. Len(running') /\ running[i] = running'[i - 1]
    BY <1>1, Shift
  <1>3. PICK n \in {0, 1} :
          line' = line \o <<[kind |-> "UUHTTPCR", profile |-> h.profile, n |-> n,
                             fresh |-> h.fresh]>>
    BY <1>2 DEF ModemFinishes, Say
  <1> DEFINE e == [kind |-> "UUHTTPCR", profile |-> h.profile, n |-> n, fresh |-> h.fresh]
  <1>4. e \in Replies
    BY <1>2 DEF Tasks, Replies
  <1>5. e.kind = "UUHTTPCR" /\ e.profile = h.profile /\ e.fresh = h.fresh
    OBVIOUS
  <1>6. line' = line \o <<e>>
    BY <1>3
  <1> HIDE DEF e, h
  <1>7. /\ Len(line') = Len(line) + 1 /\ Len(line) \in Nat
        /\ \A i \in 1 .. Len(line) : line'[i] = line[i]
        /\ line'[Len(line) + 1] = e
    <2>1. <<e>> \in Seq(Replies) /\ Len(<<e>>) = 1 /\ <<e>>[1] = e
      BY <1>4
    <2> QED
      BY <1>1, <1>6, <2>1, ConcatProperties
  <1>8. e.kind \notin Final /\ e.kind # "ERROR"
    BY <1>5 DEF Final
  <1>9. Answers'
    <2>1. FinalIn(line)' => FinalIn(line)
      BY <1>7, <1>8 DEF FinalIn
    <2>2. OneFinal(line) => OneFinal(line)'
      <3>1. \A i \in 1 .. Len(line) : i \in 1 .. Len(line') /\ line'[i] = line[i]
        BY <1>7
      <3>2. \A j \in 1 .. Len(line') : line'[j].kind \in Final =>
              j \in 1 .. Len(line) /\ line'[j] = line[j]
        BY <1>7, <1>8
      <3> QED
        BY <3>1, <3>2 DEF OneFinal
    <2>3. \A u \in Threads : Asking(u)' <=> Asking(u)
      BY <1>1 DEF Asking
    <2> QED
      BY <1>1, <2>1, <2>2, <2>3 DEF OwnInv, Answers
  <1>10. \A u \in Threads : Awaits(u) => Awaits(u)'
    <2>1. (\A i \in 1 .. Len(line) : line[i].kind # "ERROR") =>
             \A i \in 1 .. Len(line') : line'[i].kind # "ERROR"
      BY <1>7, <1>8
    <2> QED
      BY <1>1, <2>1 DEF Awaits, Waiting
  <1>11. ASSUME NEW p \in Profiles \ gaveUp
         PROVE  OneOfOwn(p)' /\ (UnderWay(p)' => UnderWay(p))
    <2>1. OneOfOwn(p)
      BY DEF OwnInv, Outstanding
    <2>2. 1 \in 1 .. Len(running) /\ running[1] = h
      BY <1>2 DEF h
    <2>3. IsResult(e, p) <=> h.profile = p
      BY <1>5 DEF IsResult
    <2>4. CASE h.profile = p
      <3>1. /\ h.fresh = TRUE
            /\ \A j \in 1 .. Len(running) : running[j].profile = p => j = 1
            /\ \A j \in 1 .. Len(line) : ~IsResult(line[j], p)
        BY <2>1, <2>2, <2>4 DEF OneOfOwn
      <3>2. \A i \in 1 .. Len(running') : running'[i].profile # p
        BY <1>2, <3>1
      <3>3. \A i \in 1 .. Len(line') : IsResult(line'[i], p) => i = Len(line) + 1
        BY <1>7, <3>1
      <3>4. line'[Len(line) + 1].fresh = TRUE
        BY <1>5, <1>7, <3>1
      <3>5. OneOfOwn(p)'
        BY <3>2, <3>3, <3>4 DEF OneOfOwn
      <3>6. UnderWay(p)
        BY <2>2, <2>4 DEF UnderWay
      <3> QED
        BY <3>5, <3>6
    <2>5. CASE h.profile # p
      <3>1. \A i \in 1 .. Len(line') : IsResult(line'[i], p) =>
              i \in 1 .. Len(line) /\ line'[i] = line[i]
        BY <1>7, <2>3, <2>5
      <3>2. OneOfOwn(p)'
        <4>1. ASSUME NEW i \in 1 .. Len(running'), running'[i].profile = p
              PROVE  /\ running'[i].fresh = TRUE
                     /\ \A j \in 1 .. Len(running') : running'[j].profile = p => j = i
                     /\ \A j \in 1 .. Len(line') : ~IsResult(line'[j], p)
          <5>1. i + 1 \in 1 .. Len(running) /\ running[i + 1].profile = p
            BY <1>2, <4>1
          <5>2. /\ running[i + 1].fresh = TRUE
                /\ \A j \in 1 .. Len(running) : running[j].profile = p => j = i + 1
                /\ \A j \in 1 .. Len(line) : ~IsResult(line[j], p)
            BY <2>1, <5>1 DEF OneOfOwn
          <5> QED
            BY <1>2, <3>1, <5>2
        <4>2. ASSUME NEW i \in 1 .. Len(line'), IsResult(line'[i], p)
              PROVE  /\ line'[i].fresh = TRUE
                     /\ \A j \in 1 .. Len(line') : IsResult(line'[j], p) => j = i
          BY <2>1, <3>1, <4>2 DEF OneOfOwn
        <4> QED
          BY <4>1, <4>2 DEF OneOfOwn
      <3>3. UnderWay(p)' => UnderWay(p)
        BY <1>2, <3>1 DEF UnderWay
      <3> QED
        BY <3>2, <3>3
    <2> QED
      BY <2>4, <2>5
  <1>12. Outstanding'
    BY <1>1, <1>10, <1>11 DEF OwnInv, Outstanding
  <1>13. Own'
    BY <1>1 DEF OwnInv, Own, Has, Waiting
  <1> QED
    BY <1>9, <1>12, <1>13

(* Nothing is asked and nothing is under way at first. *)
LEMMA OwnInit == LateAnswers = FALSE /\ Init => OwnInv
  <1> SUFFICES ASSUME LateAnswers = FALSE, Init PROVE OwnInv
    OBVIOUS
  <1>1. \A t \in Threads : ~Talking(t)
    BY DEF Init, Idle, Talking
  <1>2. \A t \in Threads : Silent(t)
    BY <1>1, SilentThread
  <1>3. Len(line) = 0 /\ Len(running) = 0 /\ inbox = << >>
    BY DEF Init
  <1>4. Answers
    BY <1>2, <1>3 DEF Answers, FinalIn, Silent
  <1>5. Outstanding
    BY <1>3 DEF Outstanding, OneOfOwn, UnderWay
  <1>6. Own
    BY <1>2 DEF Own, Silent
  <1> QED
    BY <1>4, <1>5, <1>6, InitInv DEF OwnInv

(* OwnInv is inductive. *)
LEMMA OwnStep == OwnInv /\ [Next]_vars => OwnInv'
  <1> SUFFICES ASSUME OwnInv, [Next]_vars PROVE OwnInv'
    OBVIOUS
  <1>1. IndInv' /\ LateAnswers = FALSE
    BY StepInv DEF OwnInv
  <1>2. CASE UNCHANGED vars
    BY <1>1, <1>2
    DEF vars, OwnInv, Answers, Outstanding, Own, Asking, FinalIn, OneFinal, OneOfOwn,
        UnderWay, Awaits, Has, Waiting
  <1>3. CASE Next
    <2>1. ASSUME NEW t \in Threads,
                 (\E f \in Calls : Enter(t, f)) \/ Takes(t) \/ Continues(t) \/ TimerExpires(t)
          PROVE  Answers' /\ Outstanding' /\ Own'
      BY <2>1, StartStep, SendingStep, MovingStep, SendAgainStep, TimeoutStep, WaitLineStep
      DEF Takes, Continues
    <2>2. Answers' /\ Outstanding' /\ Own'
      BY <1>3, <2>1, ExecutesStep, FinishesStep DEF Next
    <2> QED
      BY <1>1, <2>2 DEF OwnInv
  <1> QED
    BY <1>2, <1>3

(* When answers come within the ten seconds of their wait, the result that  *)
(* httpCommand takes for success is that of its own command, unless one on  *)
(* the same profile was given up before (MDM.cpp: +UUHTTPCR names only a   *)
(* profile, so nothing else tells the results apart).                      *)
THEOREM ResultsAreOwn == LateAnswers = FALSE /\ Spec => []ResultIsOwn
  <1>1. OwnInv => ResultIsOwn
    BY DEF OwnInv, Own, Has, ResultIsOwn
  <1> QED
    BY <1>1, OwnInit, OwnStep, PTL DEF Spec
=============================================================================
