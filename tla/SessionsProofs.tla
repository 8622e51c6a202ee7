--------------------------- MODULE SessionsProofs ---------------------------
(***************************************************************************)
(* Why the refresh sessions of an account behave, for every number of      *)
(* tabs, requests, calls, sessions and faults: the three properties of     *)
(* Sessions, from one inductive invariant.                                 *)
(*                                                                         *)
(* OneUsable rests on who can have heard of a session: only a session that *)
(* was delivered is ever sent again, and of those and of the ones that are *)
(* not revoked, a family has one that was not replaced.  A refusal needs a *)
(* reason because a family that was left alone has one refresh at a time,  *)
(* whose session is the one of the cookie and can be used.                 *)
(***************************************************************************)
EXTENDS Sessions, SequenceTheorems, TLAPS

SessionType == [family : Nat, used : BOOLEAN, revoked : BOOLEAN]

CallType ==
  [kind : {"none", "login"} \cup RefreshKinds, tab : Tabs \cup {"gone", "none"},
   lead : Requests \cup {"none"},
   pc : {"idle", "sent", "found", "created", "ok", "refused", "cleared"},
   from : Nat, new : Nat, out : BOOLEAN]

ClientTyped ==
  /\ hasSession \in BOOLEAN /\ tabs \in [Tabs -> {"out", "in", "loading"}]
  /\ requests \in [Requests -> {"new", "sent", "bare", "queued", "leading", "resent", "over"}]

Typed ==
  /\ ClientTyped
  /\ sessions \in Seq(SessionType) /\ cookie \in Nat /\ calls \in [Slots -> CallType]
  /\ orphans \subseteq DOMAIN sessions /\ disturbed \subseteq Nat \ {0}

-----------------------------------------------------------------------------
(* Sessions and who knows them. *)

Known(s) == s \in DOMAIN sessions

Refreshes(c) == calls[c].kind \in RefreshKinds

(* What a call holds, in each of its phases. *)
CallSound(c) ==
  LET k == calls[c] IN
  /\ k.from = 0 \/ (Known(k.from) /\ Refreshes(c))
  /\ k.new = 0 \/ Known(k.new)
  /\ k.pc = "idle" <=> k.kind = "none"
  /\ k.pc \in {"sent", "found"} => k.new = 0
  /\ k.pc \in {"found", "created", "cleared"} => k.from # 0
  /\ k.pc \in {"created", "ok"} => k.new # 0
  /\ k.pc \in {"created", "ok"} /\ Refreshes(c) => k.from # 0 /\ Family(k.new) = Family(k.from)
  /\ k.kind = "login" => k.pc \in {"sent", "ok", "refused"}

CallsSound ==
  /\ cookie = 0 \/ Known(cookie)
  /\ \A c \in Slots : CallSound(c)

FamiliesSound == \A s \in DOMAIN sessions : sessions[s].family \in DOMAIN sessions

(* A browser has the session, or is being sent it. *)
Delivered(s) ==
  \/ s = cookie
  \/ \E c \in Slots : calls[c].from = s \/ (calls[c].pc = "ok" /\ calls[c].new = s)

(* The session of a handler between its two writes. *)
Held(c, s) == calls[c].pc = "created" /\ calls[c].new = s

HeldSound ==
  \A c \in Slots, s \in DOMAIN sessions : Held(c, s) =>
    s \notin orphans /\ ~Delivered(s) /\ \A d \in Slots : Held(d, s) => d = c

OrphansSound == \A s \in orphans : ~Delivered(s)

Live(s) ==
  /\ ~sessions[s].used /\ s \notin orphans
  /\ \A c \in Slots : ~Held(c, s)
  /\ sessions[s].revoked => Delivered(s)

OneLive == \A s1, s2 \in DOMAIN sessions :
  Live(s1) /\ Live(s2) /\ sessions[s1].family = sessions[s2].family => s1 = s2

SessionsSound == FamiliesSound /\ HeldSound /\ OrphansSound /\ OneLive

-----------------------------------------------------------------------------
(* Families that were left alone. *)

Quiet(s) == s # 0 /\ Family(s) \notin disturbed

(* Its refresh is the only one, goes well, and started from the cookie.    *)
QuietCall(c) ==
  LET k == calls[c] IN
  Refreshes(c) /\ Quiet(k.from) =>
    /\ k.tab \in Tabs
    /\ k.pc \in {"sent", "found", "created", "ok"}
    /\ k.pc # "ok" => Usable(k.from)
    /\ k.pc \in {"created", "ok"} => Usable(k.new)
    /\ \A d \in Slots : Family(calls[d].from) = Family(k.from) => d = c
    /\ Family(cookie) = Family(k.from) => cookie = k.from

QuietCookie ==
  Quiet(cookie) => Usable(cookie) \/ \E c \in Slots : Refreshes(c) /\ calls[c].from = cookie

(* A login that was answered is the only one to know its family.           *)
NewLogin(c) ==
  LET k == calls[c] IN
  k.kind = "login" /\ k.pc = "ok" =>
    /\ Quiet(k.new) => Usable(k.new)
    /\ Family(cookie) # Family(k.new)
    /\ \A d \in Slots : Family(calls[d].from) # Family(k.new)
    /\ \A d \in Slots :
         calls[d].kind = "login" /\ calls[d].pc = "ok" /\ Family(calls[d].new) = Family(k.new)
           => d = c

(* Without a cookie and a disturbance nobody has signed in yet. *)
NobodyYet ==
  cookie = 0 /\ disturbed = {} =>
    ~hasSession /\ \A t \in Tabs : tabs[t] = "out"

NoCookieSent == \A c \in Slots :
  Refreshes(c) /\ calls[c].from = 0 => calls[c].out \/ disturbed # {}

ReasonsSound ==
  /\ \A c \in Slots : QuietCall(c) /\ NewLogin(c)
  /\ QuietCookie /\ NobodyYet /\ NoCookieSent

-----------------------------------------------------------------------------
(* The queue of a tab. *)

OneSilent == \A t \in Tabs : \A c, d \in Slots :
  Under(c, "silent", t) /\ Under(d, "silent", t) => c = d

Waiting == \A r \in Requests :
  /\ requests[r] = "queued" => \E c \in Slots : Under(c, "silent", TabOf[r])
  /\ requests[r] = "leading" =>
       \E c \in Slots : Under(c, "silent", TabOf[r]) /\ calls[c].lead = r

WaitersSound == OneSilent /\ Waiting

SInv == Typed /\ CallsSound /\ SessionsSound /\ ReasonsSound /\ WaitersSound

-----------------------------------------------------------------------------
(* What the steps do to the sessions and to a call. *)

Core == Typed /\ CallsSound /\ SessionsSound

LEMMA Domain ==
  ASSUME sessions \in Seq(SessionType)
  PROVE  /\ Len(sessions) \in Nat /\ DOMAIN sessions = 1..Len(sessions)
         /\ DOMAIN sessions \subseteq Nat \ {0} /\ ~Known(0)
         /\ \A s \in DOMAIN sessions : sessions[s] \in SessionType
  BY DEF Known

(* No session is lost or changes its family. *)
FamiliesKept ==
  \A s \in DOMAIN sessions :
    s \in DOMAIN sessions' /\ sessions'[s].family = sessions[s].family

LEMMA FamilyKept ==
  ASSUME FamiliesKept, NEW s, s = 0 \/ Known(s)
  PROVE  Family(s)' = Family(s)
  BY DEF FamiliesKept, Family, Known

LEMMA CallFramed ==
  ASSUME FamiliesKept, NEW d \in Slots, CallSound(d), calls'[d] = calls[d]
  PROVE  CallSound(d)'
<1>1. \A s : Known(s) => Known(s)'
  BY DEF FamiliesKept, Known
<1>2. \A s : s = 0 \/ Known(s) => Family(s)' = Family(s)
  BY FamilyKept
<1> QED
  BY <1>1, <1>2 DEF CallSound, Refreshes

(* Sessions are only used or revoked. *)
SessionsWorn ==
  /\ sessions' \in Seq(SessionType) /\ DOMAIN sessions' = DOMAIN sessions
  /\ \A s \in DOMAIN sessions :
       /\ sessions'[s].family = sessions[s].family
       /\ sessions[s].used => sessions'[s].used
       /\ sessions[s].revoked => sessions'[s].revoked

LEMMA Unworn ==
  ASSUME Typed, UNCHANGED sessions
  PROVE  SessionsWorn
  BY DEF SessionsWorn, Typed

LEMMA WornKeeps ==
  ASSUME SessionsWorn
  PROVE  FamiliesKept
  BY DEF SessionsWorn, FamiliesKept

LEMMA RevokedOne ==
  ASSUME NEW r \in SessionType
  PROVE  /\ [r EXCEPT !.revoked = TRUE] \in SessionType
         /\ [r EXCEPT !.revoked = TRUE].family = r.family
         /\ [r EXCEPT !.revoked = TRUE].used = r.used
         /\ [r EXCEPT !.revoked = TRUE].revoked
  BY DEF SessionType

LEMMA RevokedWears ==
  ASSUME Typed, NEW f, sessions' = Revoked(f)
  PROVE  /\ SessionsWorn
         /\ \A s \in DOMAIN sessions : sessions'[s].used = sessions[s].used
         /\ \A s \in DOMAIN sessions : sessions[s].family = f => sessions'[s].revoked
         /\ \A s \in DOMAIN sessions : sessions[s].family # f => sessions'[s] = sessions[s]
<1> DEFINE n == Len(sessions)
           g(s) == [sessions[s] EXCEPT !.revoked = TRUE]
           G(s) == IF sessions[s].family = f THEN g(s) ELSE sessions[s]
<1>1. n \in Nat /\ DOMAIN sessions = 1..n /\ \A s \in 1..n : sessions[s] \in SessionType
  BY Domain DEF Typed
<1>2. \A s \in 1..n :
        g(s) \in SessionType /\ g(s).family = sessions[s].family /\ g(s).used = sessions[s].used
        /\ g(s).revoked
  BY <1>1, RevokedOne
<1>3. sessions' = [s \in 1..n |-> G(s)]
  BY <1>1 DEF Revoked
<1> HIDE DEF n, g
<1>4. \A s \in 1..n : G(s) \in SessionType
  BY <1>1, <1>2
<1>5. sessions' \in [1..n -> SessionType] /\ DOMAIN sessions' = 1..n
  BY <1>3, <1>4
<1>6. sessions' \in Seq(SessionType)
  BY <1>1, <1>5
<1>7. \A s \in 1..n : sessions'[s] = G(s)
  BY <1>3
<1>8. SessionsWorn
  BY <1>1, <1>2, <1>5, <1>6, <1>7 DEF SessionsWorn
<1> QED
  BY <1>1, <1>2, <1>7, <1>8

LEMMA SessionsShrink ==
  ASSUME Core, SessionsWorn, orphans' = orphans,
         \A s \in DOMAIN sessions : Delivered(s)' => Delivered(s),
         \A c \in Slots : \A s \in DOMAIN sessions : Held(c, s)' <=> Held(c, s)
  PROVE  SessionsSound'
<1>1. SessionsSound /\ orphans \subseteq DOMAIN sessions
  BY DEF Core, Typed
<1>2. FamiliesSound' /\ OrphansSound'
  BY <1>1 DEF SessionsSound, FamiliesSound, OrphansSound, SessionsWorn
<1>3. HeldSound'
  BY <1>1 DEF SessionsSound, HeldSound, SessionsWorn
<1>4. \A s \in DOMAIN sessions : Live(s)' => Live(s)
  BY DEF Live, SessionsWorn
<1>5. OneLive'
  BY <1>1, <1>4 DEF SessionsSound, OneLive, SessionsWorn
<1> QED
  BY <1>2, <1>3, <1>5 DEF SessionsSound

(* A call takes a step of its handler. *)
Moved(c, pc, new) ==
  /\ calls' \in [Slots -> CallType] /\ \A d \in Slots : d # c => calls'[d] = calls[d]
  /\ calls'[c].kind = calls[c].kind /\ calls'[c].tab = calls[c].tab
  /\ calls'[c].lead = calls[c].lead /\ calls'[c].from = calls[c].from
  /\ calls'[c].pc = pc /\ calls'[c].new = new /\ calls'[c].out = calls[c].out

LEMMA MovedTo ==
  ASSUME Typed, NEW c \in Slots, NEW new \in Nat,
         NEW pc \in {"idle", "sent", "found", "created", "ok", "refused", "cleared"},
         calls' = [calls EXCEPT ![c].pc = pc, ![c].new = new]
  PROVE  Moved(c, pc, new)
<1>1. calls \in [Slots -> CallType] /\ calls[c] \in CallType
  BY DEF Typed
<1> DEFINE k == [calls[c] EXCEPT !.pc = pc, !.new = new]
<1>2. /\ k \in CallType /\ k.kind = calls[c].kind /\ k.tab = calls[c].tab /\ k.lead = calls[c].lead
      /\ k.from = calls[c].from /\ k.pc = pc /\ k.new = new /\ k.out = calls[c].out
  BY <1>1 DEF CallType
<1>3. calls' = [calls EXCEPT ![c] = k]
  BY <1>1
<1> HIDE DEF k
<1> QED
  BY <1>1, <1>2, <1>3 DEF Moved

LEMMA StepMoves ==
  ASSUME Typed, NEW c \in Slots,
         NEW pc \in {"idle", "sent", "found", "created", "ok", "refused", "cleared"}, Step(c, pc)
  PROVE  Moved(c, pc, calls[c].new)
<1>1. calls \in [Slots -> CallType] /\ calls[c] \in CallType
  BY DEF Typed
<1> DEFINE k == [calls[c] EXCEPT !.pc = pc]
<1>2. /\ k \in CallType /\ k.kind = calls[c].kind /\ k.tab = calls[c].tab /\ k.lead = calls[c].lead
      /\ k.from = calls[c].from /\ k.pc = pc /\ k.new = calls[c].new /\ k.out = calls[c].out
  BY <1>1 DEF CallType
<1>3. calls' = [calls EXCEPT ![c] = k]
  BY <1>1 DEF Step
<1> HIDE DEF k
<1> QED
  BY <1>1, <1>2, <1>3 DEF Moved

(* A call is over. *)
Ended(c) ==
  /\ calls' \in [Slots -> CallType] /\ calls'[c] = Idle
  /\ \A d \in Slots : d # c => calls'[d] = calls[d]

LEMMA IdleEnds ==
  ASSUME Typed, NEW c \in Slots, calls' = [calls EXCEPT ![c] = Idle]
  PROVE  Ended(c)
<1>1. Idle \in CallType
  BY DEF Idle, CallType
<1> QED
  BY <1>1 DEF Typed, Ended

LEMMA FamilyOf ==
  ASSUME Core, NEW s, s = 0 \/ Known(s)
  PROVE  /\ Family(s) \in Nat
         /\ Known(s) => Family(s) = sessions[s].family /\ Family(s) \in DOMAIN sessions
                        /\ Family(s) # 0 /\ s # 0
         /\ s = 0 => Family(s) = 0
<1>1. sessions \in Seq(SessionType) /\ FamiliesSound
  BY DEF Core, Typed, SessionsSound
<1>2. DOMAIN sessions \subseteq Nat \ {0} /\ ~Known(0)
  BY <1>1, Domain
<1> QED
  BY <1>1, <1>2 DEF Family, Known, FamiliesSound

LEMMA CallFacts ==
  ASSUME Core, NEW c \in Slots
  PROVE  /\ calls[c] \in CallType /\ CallSound(c)
         /\ Family(calls[c].from) \in Nat /\ Family(calls[c].new) \in Nat
<1>1. calls[c] \in CallType /\ CallSound(c)
  BY DEF Core, Typed, CallsSound
<1> QED
  BY <1>1, FamilyOf DEF CallSound

(* The families a step disturbs are families. *)
LEMMA DisturbTyped ==
  ASSUME Core, NEW F, F \subseteq Nat, Disturb(F)
  PROVE  disturbed' \subseteq Nat \ {0} /\ disturbed \subseteq disturbed' /\ F \ {0} \subseteq disturbed'
  BY DEF Disturb, Core, Typed

-----------------------------------------------------------------------------
(* The sessions stay sound. *)

(* Steps of the client alone. *)
LEMMA ClientCore ==
  ASSUME Core, ClientTyped', UNCHANGED <<sessions, cookie, calls, history>>
  PROVE  Core'
<1>1. /\ sessions' = sessions /\ cookie' = cookie /\ calls' = calls /\ orphans' = orphans
      /\ disturbed' = disturbed /\ Typed /\ CallsSound
  BY DEF history, Core
<1>2. Typed'
  BY <1>1 DEF Typed
<1>3. SessionsWorn
  BY <1>1, Unworn
<1>4. CallsSound'
  BY <1>1, <1>3, WornKeeps, CallFramed DEF CallsSound, Known
<1>5. SessionsSound'
  BY <1>1, <1>3, SessionsShrink DEF Delivered, Held
<1> QED
  BY <1>2, <1>4, <1>5 DEF Core

(* A call starts. *)
Started(c, kind, t, r) ==
  /\ calls[c] = Idle
  /\ calls' \in [Slots -> CallType] /\ \A d \in Slots : d # c => calls'[d] = calls[d]
  /\ calls'[c] = [kind |-> kind, tab |-> t, lead |-> r, pc |-> "sent",
                  from |-> IF kind = "login" THEN 0 ELSE cookie, new |-> 0,
                  out |-> tabs[t] = "out"]
  /\ disturbed' \subseteq Nat \ {0} /\ disturbed \subseteq disturbed'
  /\ \A d \in Slots :
       Refreshes(d) /\ calls[d].from = calls'[c].from /\ ~Under(d, kind, t)
         => Family(calls[d].from) \in disturbed' \cup {0}

LEMMA StartStarts ==
  ASSUME Core, NEW c \in Slots, NEW kind \in {"login"} \cup RefreshKinds, NEW t \in Tabs,
         NEW r \in Requests \cup {"none"}, Start(c, kind, t, r)
  PROVE  Started(c, kind, t, r)
<1> DEFINE from == IF kind = "login" THEN 0 ELSE cookie
           k == [kind |-> kind, tab |-> t, lead |-> r, pc |-> "sent", from |-> from, new |-> 0,
                 out |-> tabs[t] = "out"]
           D == {d \in Slots :
                   calls[d].kind \in RefreshKinds /\ calls[d].from = from /\ ~Under(d, kind, t)}
<1>1. from \in Nat /\ (from = 0 \/ Known(from)) /\ calls \in [Slots -> CallType]
  BY DEF Core, Typed, CallsSound
<1>2. k \in CallType
  BY <1>1 DEF CallType
<1>3. calls[c] = Idle /\ calls' = [calls EXCEPT ![c] = k] /\ Disturb({Family(from) : d \in D})
  BY DEF Start, Free
<1>4. {Family(from) : d \in D} \subseteq Nat
  BY <1>1, FamilyOf
<1> HIDE DEF from
<1>5. /\ disturbed' \subseteq Nat \ {0} /\ disturbed \subseteq disturbed'
      /\ \A d \in D : Family(from) \in disturbed' \cup {0}
  BY <1>3, <1>4, DisturbTyped
<1>6. /\ calls' \in [Slots -> CallType] /\ calls'[c] = k
      /\ \A d \in Slots : d # c => calls'[d] = calls[d]
  BY <1>1, <1>2, <1>3
<1>7. calls'[c].from = from
  BY <1>6
<1>8. \A d \in Slots : Refreshes(d) /\ calls[d].from = from /\ ~Under(d, kind, t) => d \in D
  BY DEF Refreshes
<1> QED
  BY <1>3, <1>5, <1>6, <1>7, <1>8 DEF Started, from

LEMMA StartCore ==
  ASSUME Core, NEW c \in Slots, NEW kind \in {"login"} \cup RefreshKinds, NEW t \in Tabs,
         NEW r \in Requests \cup {"none"}, Started(c, kind, t, r),
         ClientTyped', UNCHANGED <<sessions, cookie, orphans>>
  PROVE  Core'
<1>1. /\ Typed /\ CallsSound /\ sessions' = sessions /\ cookie' = cookie /\ orphans' = orphans
      /\ (cookie = 0 \/ Known(cookie))
  BY DEF Core, CallsSound
<1>2. Typed'
  BY <1>1 DEF Typed, Started
<1>3. SessionsWorn /\ FamiliesKept
  BY <1>1, Unworn, WornKeeps
<1>4. CallSound(c)'
  BY <1>1 DEF Started, CallSound, Refreshes, Known, RefreshKinds
<1>5. CallsSound'
  BY <1>1, <1>3, <1>4, CallFramed DEF CallsSound, Known, Started
<1>6. \A s \in DOMAIN sessions : s # 0
  BY <1>1, Domain DEF Typed
<1>7. calls[c].pc = "idle" /\ calls[c].from = 0
  BY DEF Started, Idle
<1>8. \A s \in DOMAIN sessions : Delivered(s)' => Delivered(s)
  BY <1>1, <1>6, <1>7 DEF Delivered, Started
<1>9. \A d \in Slots : \A s \in DOMAIN sessions : Held(d, s)' <=> Held(d, s)
  BY <1>7 DEF Held, Started
<1> QED
  BY <1>1, <1>2, <1>3, <1>5, <1>8, <1>9, SessionsShrink DEF Core

(* Pages go away, and answers get lost. *)
Left(D) ==
  /\ calls' \in [Slots -> CallType] /\ \A d \in Slots \ D : calls'[d] = calls[d]
  /\ \A d \in D :
       /\ calls'[d].tab = "gone" /\ calls'[d].kind = calls[d].kind /\ calls'[d].pc = calls[d].pc
       /\ calls'[d].from = calls[d].from /\ calls'[d].new = calls[d].new
       /\ calls'[d].out = calls[d].out
       /\ calls'[d].lead = calls[d].lead
  /\ disturbed' \subseteq Nat \ {0} /\ disturbed \subseteq disturbed'
  /\ \A d \in D : Family(calls[d].from) \in disturbed' \cup {0}

LEMMA LeftCore ==
  ASSUME Core, NEW D \in SUBSET Slots, Left(D), ClientTyped', UNCHANGED <<sessions, cookie, orphans>>
  PROVE  Core'
<1>1. /\ Typed /\ CallsSound /\ sessions' = sessions /\ cookie' = cookie /\ orphans' = orphans
  BY DEF Core
<1>2. Typed'
  BY <1>1 DEF Typed, Left
<1>3. SessionsWorn /\ FamiliesKept
  BY <1>1, Unworn, WornKeeps
<1>4. \A d \in Slots :
        /\ calls'[d].kind = calls[d].kind /\ calls'[d].pc = calls[d].pc
        /\ calls'[d].from = calls[d].from /\ calls'[d].new = calls[d].new
  BY DEF Left
<1>5. CallsSound'
  BY <1>1, <1>4 DEF CallsSound, CallSound, Refreshes, Known, Family
<1>6. /\ \A s \in DOMAIN sessions : Delivered(s)' => Delivered(s)
      /\ \A d \in Slots : \A s \in DOMAIN sessions : Held(d, s)' <=> Held(d, s)
  BY <1>1, <1>4 DEF Delivered, Held
<1> QED
  BY <1>1, <1>2, <1>3, <1>5, <1>6, SessionsShrink DEF Core

(* An answer arrives: the call is over. *)
LEMMA EndedCore ==
  ASSUME Core, NEW c \in Slots, Ended(c), calls[c].pc \in {"ok", "refused", "cleared"},
         cookie' \in {0, cookie} \/ (calls[c].pc = "ok" /\ cookie' = calls[c].new),
         ClientTyped', UNCHANGED <<sessions, history>>
  PROVE  Core'
<1>1. /\ Typed /\ CallsSound /\ sessions' = sessions /\ orphans' = orphans /\ disturbed' = disturbed
      /\ CallSound(c) /\ calls[c] \in CallType
  BY CallFacts DEF Core, history
<1>2. cookie' \in Nat /\ (cookie' = 0 \/ Known(cookie'))
  BY <1>1 DEF Typed, CallsSound, CallSound, CallType
<1>3. Typed'
  BY <1>1, <1>2 DEF Typed, Ended
<1>4. SessionsWorn /\ FamiliesKept
  BY <1>1, Unworn, WornKeeps
<1>5. CallSound(c)'
  BY DEF Ended, CallSound, Idle, Refreshes, RefreshKinds
<1>6. CallsSound'
  BY <1>1, <1>2, <1>4, <1>5, CallFramed DEF CallsSound, Known, Ended
<1>7. \A s \in DOMAIN sessions : s # 0
  BY <1>1, Domain DEF Typed
<1>8. calls'[c].from = 0 /\ calls'[c].pc = "idle" /\ \A d \in Slots : d # c => calls'[d] = calls[d]
  BY DEF Ended, Idle
<1>9. \A s \in DOMAIN sessions : Delivered(s)' => Delivered(s)
  BY <1>7, <1>8 DEF Delivered
<1>10. \A d \in Slots : \A s \in DOMAIN sessions : Held(d, s)' <=> Held(d, s)
  BY <1>8 DEF Held
<1> QED
  BY <1>1, <1>3, <1>4, <1>6, <1>9, <1>10, SessionsShrink DEF Core

(* The steps of the server. *)
LEMMA ClientKept ==
  ASSUME Core, UNCHANGED client
  PROVE  ClientTyped' /\ cookie' = cookie
  BY DEF client, Core, Typed, ClientTyped

LEMMA RevokeCore ==
  ASSUME Core, SessionsWorn, disturbed' \subseteq Nat \ {0}, UNCHANGED <<client, calls, orphans>>
  PROVE  Core'
<1>1. /\ Typed /\ CallsSound /\ calls' = calls /\ orphans' = orphans
      /\ cookie' = cookie /\ ClientTyped'
  BY ClientKept DEF Core
<1>2. Typed'
  BY <1>1 DEF Typed, SessionsWorn
<1>3. CallsSound'
  BY <1>1, WornKeeps, CallFramed DEF CallsSound, Known, SessionsWorn
<1> QED
  BY <1>1, <1>2, <1>3, SessionsShrink DEF Core, Delivered, Held

(* A handler finds, refuses, fails, or gives a family up. *)
LEMMA HandlerCore ==
  ASSUME Core, NEW c \in Slots, NEW pc \in {"found", "refused", "cleared"},
         Moved(c, pc, calls[c].new), SessionsWorn, disturbed' \subseteq Nat \ {0},
         calls[c].pc \in {"sent", "found"},
         pc \in {"found", "cleared"} => Refreshes(c) /\ calls[c].from # 0,
         UNCHANGED <<client, orphans>>
  PROVE  Core'
<1>1. /\ Typed /\ CallsSound /\ orphans' = orphans /\ FamiliesKept
      /\ cookie' = cookie /\ ClientTyped' /\ CallSound(c) /\ DOMAIN sessions' = DOMAIN sessions
  BY ClientKept, CallFacts, WornKeeps DEF Core, SessionsWorn
<1>2. Typed'
  BY <1>1 DEF Typed, SessionsWorn, Moved
<1>3. CallSound(c)'
  BY <1>1 DEF Moved, CallSound, Refreshes, RefreshKinds, Known
<1>4. CallsSound'
  BY <1>1, <1>3, CallFramed DEF CallsSound, Known, Moved
<1>5. \A s \in DOMAIN sessions : Delivered(s)' => Delivered(s)
  BY <1>1 DEF Delivered, Moved
<1>6. \A d \in Slots : \A s \in DOMAIN sessions : Held(d, s)' <=> Held(d, s)
  BY DEF Held, Moved
<1> QED
  BY <1>1, <1>2, <1>4, <1>5, <1>6, SessionsShrink DEF Core

(* A session more. *)
Grew(n, f) ==
  /\ sessions' \in Seq(SessionType) /\ DOMAIN sessions' = DOMAIN sessions \cup {n}
  /\ n \notin DOMAIN sessions /\ n \in Nat \ {0}
  /\ \A s \in DOMAIN sessions : sessions'[s] = sessions[s]
  /\ sessions'[n].family = f /\ ~sessions'[n].used /\ ~sessions'[n].revoked

LEMMA CreatedGrew ==
  ASSUME Core, NEW n, n = NextId, NEW f \in Nat, sessions' = Created(f)
  PROVE  Grew(n, f) /\ FamiliesKept
<1> DEFINE m == Len(sessions)
           e == [family |-> f, used |-> FALSE, revoked |-> FALSE]
<1>1. /\ m \in Nat /\ DOMAIN sessions = 1..m /\ sessions \in Seq(SessionType)
      /\ e \in SessionType /\ e.family = f /\ ~e.used /\ ~e.revoked
  BY Domain DEF Core, Typed, SessionType
<1>2. sessions' = Append(sessions, e) /\ n = m + 1
  BY DEF Created, NextId
<1> HIDE DEF e
<1>3. /\ sessions' \in Seq(SessionType) /\ Len(sessions') = m + 1 /\ sessions'[m + 1] = e
      /\ \A s \in 1..m : sessions'[s] = sessions[s]
  BY <1>1, <1>2, AppendProperties
<1>4. DOMAIN sessions' = 1..(m + 1)
  BY <1>3
<1> HIDE DEF m
<1>5. Grew(n, f)
  BY <1>1, <1>2, <1>3, <1>4 DEF Grew
<1> QED
  BY <1>5 DEF FamiliesKept, Grew

LEMMA GrownCore ==
  ASSUME Core, NEW c \in Slots, NEW n, n = NextId, NEW pc, Moved(c, pc, n), NEW f \in Nat,
         sessions' = Created(f),
         \/ /\ pc = "created" /\ calls[c].pc = "found" /\ f = Family(calls[c].from)
         \/ /\ pc = "ok" /\ calls[c].pc = "sent" /\ calls[c].kind = "login" /\ f = n,
         UNCHANGED <<client, history>>
  PROVE  Core'
<1>1. /\ Typed /\ CallsSound /\ SessionsSound /\ orphans' = orphans /\ disturbed' = disturbed
      /\ cookie' = cookie /\ ClientTyped' /\ CallSound(c) /\ orphans \subseteq DOMAIN sessions
      /\ Grew(n, f) /\ FamiliesKept
  BY ClientKept, CallFacts, CreatedGrew DEF Core, history, Typed
<1>2. Typed'
  BY <1>1 DEF Typed, Grew, Moved
<1>3. \A s : Known(s)' <=> Known(s) \/ s = n
  BY <1>1 DEF Known, Grew
<1>4. ~Known(n) /\ n # 0
  BY <1>1 DEF Known, Grew
<1>5. Refreshes(c) \/ calls[c].kind = "login"
  BY <1>1 DEF CallSound
<1>6. CallSound(c)'
  <2>1. CASE pc = "created" /\ calls[c].pc = "found" /\ f = Family(calls[c].from)
    <3>1. calls[c].from # 0 /\ Known(calls[c].from) /\ Refreshes(c) /\ calls[c].kind # "login"
      BY <1>1, <2>1 DEF CallSound, Refreshes, RefreshKinds
    <3>2. sessions'[n].family = f /\ sessions'[calls[c].from].family = f
      BY <1>1, <2>1, <3>1 DEF Family, Grew, Known
    <3>3. calls'[c].from = calls[c].from /\ calls'[c].new = n /\ calls'[c].kind = calls[c].kind
          /\ calls'[c].pc = "created"
      BY <2>1 DEF Moved
    <3> QED
      BY <1>1, <1>3, <1>4, <3>1, <3>2, <3>3 DEF CallSound, Refreshes, RefreshKinds, Family
  <2>2. CASE pc = "ok" /\ calls[c].pc = "sent" /\ calls[c].kind = "login" /\ f = n
    BY <1>1, <1>3, <1>4, <2>2 DEF Moved, CallSound, Refreshes, RefreshKinds
  <2> QED
    BY <2>1, <2>2
<1>7. CallsSound'
  BY <1>1, <1>3, <1>6, CallFramed DEF CallsSound, Moved
<1>8. \A s \in DOMAIN sessions : s # n /\ (Delivered(s)' => Delivered(s))
  BY <1>1, <1>4 DEF Delivered, Moved, Known
<1>9. \A d \in Slots : \A s \in DOMAIN sessions : Held(d, s)' <=> Held(d, s)
  BY <1>1, <1>4 DEF Held, Moved, Known
<1>10. \A s \in DOMAIN sessions : Live(s)' => Live(s)
  BY <1>1, <1>8, <1>9 DEF Live, Grew
<1>11. FamiliesSound'
  <2>1. f \in DOMAIN sessions \/ f = n
    BY <1>1, FamilyOf DEF CallSound
  <2> QED
    BY <1>1, <2>1 DEF SessionsSound, FamiliesSound, Grew
<1>12. \A d \in Slots : calls[d].new # n /\ calls[d].from # n
  BY <1>1, <1>4 DEF CallsSound, CallSound
<1>13. \A d \in Slots : d # c => ~Held(d, n)'
  BY <1>12 DEF Held, Moved
<1>14. pc = "created" => ~Delivered(n)'
  BY <1>1, <1>4, <1>12 DEF Delivered, Moved, CallsSound
<1>15. n \notin orphans
  BY <1>1 DEF Grew
<1>16. HeldSound'
  <2> SUFFICES ASSUME NEW d \in Slots, NEW s \in DOMAIN sessions', Held(d, s)'
               PROVE  /\ s \notin orphans /\ ~Delivered(s)'
                      /\ \A e \in Slots : Held(e, s)' => e = d
    BY <1>1 DEF HeldSound
  <2>1. CASE s \in DOMAIN sessions
    BY <1>1, <1>8, <1>9, <2>1 DEF SessionsSound, HeldSound
  <2>2. CASE s = n
    <3>1. d = c /\ pc = "created"
      BY <1>13, <2>2 DEF Held, Moved
    <3> QED
      BY <1>13, <1>14, <1>15, <2>2, <3>1
  <2> QED
    BY <1>1, <2>1, <2>2 DEF Grew
<1>17. OrphansSound'
  BY <1>1, <1>8 DEF SessionsSound, OrphansSound
<1>18. OneLive'
  <2>1. \A s \in DOMAIN sessions : sessions'[s].family = sessions[s].family
    BY <1>1 DEF Grew
  <2>2. CASE pc = "created"
    <3>1. ~Live(n)'
      BY <2>2 DEF Live, Held, Moved
    <3> QED
      BY <1>1, <1>10, <2>1, <3>1 DEF SessionsSound, OneLive, Grew
  <2>3. CASE f = n
    <3>1. \A s \in DOMAIN sessions : sessions'[s].family # f
      BY <1>1, <2>1, <2>3 DEF SessionsSound, FamiliesSound, Grew
    <3>2. sessions'[n].family = f
      BY <1>1 DEF Grew
    <3> QED
      BY <1>1, <1>10, <2>1, <3>1, <3>2 DEF SessionsSound, OneLive, Grew
  <2> QED
    BY <2>2, <2>3
<1> QED
  BY <1>2, <1>7, <1>11, <1>16, <1>17, <1>18 DEF Core, SessionsSound

(* A handler leaves the middle of its two writes: the new session takes the *)
(* place of the old one, is revoked with the family, or is left behind.    *)
LEMMA ReplacedCore ==
  ASSUME Core, NEW c \in Slots, NEW pc \in {"ok", "cleared", "refused"},
         NEW n, n = calls[c].new, NEW x, x = calls[c].from,
         calls[c].pc = "created", Moved(c, pc, n), SessionsWorn,
         disturbed' \subseteq Nat \ {0}, UNCHANGED client,
         \/ pc = "ok" /\ ~sessions[x].used /\ sessions'[x].used /\ orphans' = orphans
         \/ pc = "cleared" /\ sessions'[n].revoked /\ orphans' = orphans
         \/ pc = "refused" /\ orphans' = orphans \cup {n}
  PROVE  Core'
<1>1. /\ Typed /\ CallsSound /\ SessionsSound /\ FamiliesKept /\ OneLive /\ FamiliesSound
      /\ cookie' = cookie /\ ClientTyped' /\ CallSound(c) /\ DOMAIN sessions' = DOMAIN sessions
      /\ orphans \subseteq DOMAIN sessions
  BY ClientKept, CallFacts, WornKeeps DEF Core, SessionsWorn, SessionsSound, Typed
<1>2. /\ n # 0 /\ n \in DOMAIN sessions /\ x # 0 /\ x \in DOMAIN sessions /\ Refreshes(c)
      /\ sessions[n].family = sessions[x].family /\ Known(n) /\ Known(x)
  BY <1>1 DEF CallSound, Refreshes, RefreshKinds, Known, Family
<1>3. Held(c, n)
  BY DEF Held
<1>4. n \notin orphans /\ ~Delivered(n) /\ \A d \in Slots : Held(d, n) => d = c
  BY <1>1, <1>2, <1>3 DEF SessionsSound, HeldSound
<1>5. orphans' \subseteq DOMAIN sessions /\ orphans \subseteq orphans' /\ orphans' \subseteq orphans \cup {n}
  BY <1>1, <1>2
<1>6. Typed'
  BY <1>1, <1>5 DEF Typed, SessionsWorn, Moved
<1>7. CallSound(c)'
  <2>1. /\ calls'[c].from = x /\ calls'[c].new = n /\ calls'[c].kind = calls[c].kind
        /\ calls'[c].pc = pc
    BY DEF Moved
  <2>2. sessions'[n].family = sessions'[x].family /\ Known(n)' /\ Known(x)'
    BY <1>1, <1>2 DEF SessionsWorn, Known
  <2> QED
    BY <1>1, <1>2, <2>1, <2>2 DEF CallSound, Refreshes, RefreshKinds, Family
<1>8. CallsSound'
  BY <1>1, <1>7, CallFramed DEF CallsSound, Known, Moved
<1>9. \A s \in DOMAIN sessions : Delivered(s)' => Delivered(s) \/ (s = n /\ pc = "ok")
  BY <1>1 DEF Delivered, Moved
<1>10. \A d \in Slots : \A s \in DOMAIN sessions : Held(d, s)' <=> Held(d, s) /\ d # c
  BY DEF Held, Moved
<1>11. \A d \in Slots : \A s \in DOMAIN sessions : Held(d, s)' => s # n
  BY <1>4, <1>10
<1>12. FamiliesSound'
  BY <1>1 DEF FamiliesSound, SessionsWorn
<1>13. HeldSound'
  <2> SUFFICES ASSUME NEW d \in Slots, NEW s \in DOMAIN sessions, Held(d, s)'
               PROVE  /\ s \notin orphans' /\ ~Delivered(s)'
                      /\ \A e \in Slots : Held(e, s)' => e = d
    BY <1>1 DEF HeldSound
  <2>1. s # n /\ Held(d, s)
    BY <1>10, <1>11
  <2> QED
    BY <1>1, <1>5, <1>9, <1>10, <2>1 DEF SessionsSound, HeldSound
<1>14. OrphansSound'
  BY <1>1, <1>2, <1>4, <1>5, <1>9 DEF SessionsSound, OrphansSound
<1>15. \A s \in DOMAIN sessions : s # n /\ Live(s)' => Live(s)
  BY <1>1, <1>3, <1>5, <1>9, <1>10 DEF Live, SessionsWorn, Held
<1>16. pc # "ok" => ~Live(n)'
  BY <1>2, <1>4, <1>9 DEF Live
<1>17. pc = "ok" => Live(x) /\ ~Live(x)'
  <2> SUFFICES ASSUME pc = "ok" PROVE Live(x) /\ ~Live(x)'
    OBVIOUS
  <2>1. ~sessions[x].used /\ sessions'[x].used
    OBVIOUS
  <2>2. Delivered(x)
    BY DEF Delivered
  <2>3. x \notin orphans /\ \A d \in Slots : ~Held(d, x)
    BY <1>1, <1>2, <2>2 DEF SessionsSound, HeldSound, OrphansSound
  <2> QED
    BY <2>1, <2>2, <2>3 DEF Live
<1>18. OneLive'
  <2> SUFFICES ASSUME NEW s1 \in DOMAIN sessions, NEW s2 \in DOMAIN sessions, Live(s1)', Live(s2)',
                      sessions[s1].family = sessions[s2].family
               PROVE  s1 = s2
    BY <1>1 DEF OneLive, SessionsWorn
  <2>1. \A s \in DOMAIN sessions : sessions[s].family = sessions[x].family /\ s # n => ~Live(s)' \/ pc # "ok"
    BY <1>1, <1>2, <1>15, <1>17 DEF OneLive
  <2>2. CASE s1 = n \/ s2 = n
    BY <1>2, <1>16, <2>1, <2>2
  <2>3. CASE s1 # n /\ s2 # n
    BY <1>1, <1>15, <2>3 DEF OneLive
  <2> QED
    BY <2>2, <2>3
<1> QED
  BY <1>6, <1>8, <1>12, <1>13, <1>14, <1>18 DEF Core, SessionsSound

(* One session is used, or revoked. *)
LEMMA OneWears ==
  ASSUME Core, NEW x \in DOMAIN sessions,
         \/ sessions' = [sessions EXCEPT ![x].used = TRUE]
         \/ sessions' = [sessions EXCEPT ![x].revoked = TRUE]
  PROVE  /\ SessionsWorn /\ \A s \in DOMAIN sessions : s # x => sessions'[s] = sessions[s]
         /\ sessions' = [sessions EXCEPT ![x].used = TRUE] => sessions'[x].used
<1>1. /\ sessions \in Seq(SessionType) /\ \A s \in DOMAIN sessions : sessions[s] \in SessionType
      /\ Len(sessions) \in Nat /\ DOMAIN sessions = 1..Len(sessions)
  BY Domain DEF Core, Typed
<1> DEFINE u == [sessions[x] EXCEPT !.used = TRUE]
           r == [sessions[x] EXCEPT !.revoked = TRUE]
<1>2. /\ u \in SessionType /\ u.family = sessions[x].family /\ u.used /\ u.revoked = sessions[x].revoked
      /\ r \in SessionType /\ r.family = sessions[x].family /\ r.used = sessions[x].used /\ r.revoked
  BY <1>1 DEF SessionType
<1>3. PICK e : /\ sessions' = [sessions EXCEPT ![x] = e] /\ e \in {u, r}
               /\ sessions' = [sessions EXCEPT ![x].used = TRUE] => e = u
  BY <1>1
<1> HIDE DEF u, r
<1>4. /\ sessions' \in Seq(SessionType) /\ Len(sessions') = Len(sessions)
      /\ DOMAIN sessions' = DOMAIN sessions /\ sessions'[x] = e
      /\ \A s \in DOMAIN sessions : s # x => sessions'[s] = sessions[s]
  BY <1>1, <1>2, <1>3, ExceptSeq
<1> QED
  BY <1>1, <1>2, <1>3, <1>4 DEF SessionsWorn

-----------------------------------------------------------------------------
(* Families that were left alone stay in order. *)

(* Somebody has signed in. *)
Awake ==
  hasSession \/ \E t \in Tabs : tabs[t] # "out"

LEMMA AwakeHasCookie ==
  ASSUME ReasonsSound, Awake
  PROVE  cookie # 0 \/ disturbed # {}
  BY DEF ReasonsSound, NobodyYet, Awake

(* A refresh that was refused, or whose tab is gone, was disturbed; but for *)
(* one that a signed-out tab began without a cookie.                        *)
LEMMA RefusedIsDisturbed ==
  ASSUME Core, ReasonsSound, NEW c \in Slots, Refreshes(c),
         calls[c].pc \in {"refused", "cleared"} \/ calls[c].tab = "gone"
  PROVE  IF calls[c].from = 0 THEN calls[c].out \/ disturbed # {}
                              ELSE Family(calls[c].from) \in disturbed
<1>1. CASE calls[c].from = 0
  BY <1>1 DEF ReasonsSound, NoCookieSent
<1>2. CASE calls[c].from # 0
  BY <1>2, TabsAssumption DEF ReasonsSound, QuietCall, Quiet
<1> QED
  BY <1>1, <1>2

LEMMA ClientReasons ==
  ASSUME Core, ReasonsSound, Awake \/ UNCHANGED <<tabs, hasSession>>,
         UNCHANGED <<sessions, cookie, calls, history>>
  PROVE  ReasonsSound'
<1>1. /\ sessions' = sessions /\ cookie' = cookie /\ calls' = calls /\ orphans' = orphans
      /\ disturbed' = disturbed
  BY DEF history
<1>2. NobodyYet'
  BY <1>1, AwakeHasCookie DEF NobodyYet, ReasonsSound
<1>3. \A c \in Slots : QuietCall(c)' /\ NewLogin(c)'
  BY <1>1 DEF ReasonsSound, QuietCall, NewLogin, Quiet, Family, Usable, Refreshes
<1>4. QuietCookie' /\ NoCookieSent'
  BY <1>1 DEF ReasonsSound, QuietCookie, NoCookieSent, Quiet, Family, Usable, Refreshes
<1> QED
  BY <1>2, <1>3, <1>4 DEF ReasonsSound

LEMMA StartReasons ==
  ASSUME Core, ReasonsSound, NEW c \in Slots, NEW kind \in {"login"} \cup RefreshKinds,
         NEW t \in Tabs, NEW r, Started(c, kind, t, r),
         \A d \in Slots : ~Under(d, kind, t),
         kind # "login" => Awake \/ calls'[c].out,
         UNCHANGED <<sessions, cookie, tabs, hasSession>>
  PROVE  ReasonsSound'
<1> DEFINE from == IF kind = "login" THEN 0 ELSE cookie
<1>1. /\ sessions' = sessions /\ cookie' = cookie /\ disturbed \subseteq disturbed'
      /\ \A d \in Slots : d # c => calls'[d] = calls[d]
      /\ calls[c].kind = "none" /\ calls'[c].from = from /\ calls'[c].kind = kind
      /\ calls'[c].pc = "sent" /\ calls'[c].tab = t
  BY DEF Started, Idle
<1>2. \A d \in Slots :
        /\ CallSound(d) /\ Refreshes(d) \in BOOLEAN /\ Quiet(calls[d].from) \in BOOLEAN
        /\ calls[d].from # 0 => Refreshes(d) /\ Family(calls[d].from) # 0
        /\ calls[d].new # 0 => Family(calls[d].new) # 0
  BY CallFacts, FamilyOf DEF CallSound, Refreshes, Quiet
<1>3. kind # "login" => cookie # 0 \/ disturbed # {} \/ calls'[c].out
  BY AwakeHasCookie
<1>4. \A d \in Slots : calls[d].from = from /\ from # 0 => Family(from) \in disturbed'
  BY <1>1, <1>2 DEF Started
<1>7. \A d \in Slots : Quiet(calls[d].from) => QuietCall(d) /\ Refreshes(d)
  BY <1>2 DEF ReasonsSound, Quiet
<1>8. \A d \in Slots : kind # "login" /\ calls[d].from # 0 /\ Family(calls[d].from) = Family(cookie)
                         => Family(cookie) \in disturbed'
  <2> SUFFICES ASSUME NEW d \in Slots, kind # "login", calls[d].from # 0,
                      Family(calls[d].from) = Family(cookie), Family(cookie) \notin disturbed'
               PROVE  FALSE
    OBVIOUS
  <2>1. Quiet(calls[d].from)
    BY <1>1 DEF Quiet
  <2>2. cookie = calls[d].from
    BY <1>7, <2>1 DEF QuietCall
  <2> QED
    BY <1>4, <2>2
<1>9. \A d \in Slots : d # c => QuietCall(d)'
  <2> SUFFICES ASSUME NEW d \in Slots, d # c, Refreshes(d), calls[d].from # 0,
                      Family(calls[d].from) \notin disturbed'
               PROVE  /\ calls[d].tab \in Tabs
                      /\ calls[d].pc \in {"sent", "found", "created", "ok"}
                      /\ calls[d].pc # "ok" => Usable(calls[d].from)
                      /\ calls[d].pc \in {"created", "ok"} => Usable(calls[d].new)
                      /\ \A e \in Slots : Family(calls'[e].from) = Family(calls[d].from) => e = d
                      /\ Family(cookie) = Family(calls[d].from) => cookie = calls[d].from
    BY <1>1 DEF QuietCall, Refreshes, Quiet, Family, Usable
  <2>1. Quiet(calls[d].from)
    BY <1>1 DEF Quiet
  <2>2. Family(from) # Family(calls[d].from)
    BY <1>2, <1>8 DEF Family
  <2> QED
    BY <1>1, <1>7, <2>1, <2>2 DEF QuietCall
<1>10. QuietCall(c)'
  <2> SUFFICES ASSUME kind # "login", cookie # 0, Family(cookie) \notin disturbed'
               PROVE  /\ Usable(cookie)
                      /\ \A e \in Slots : Family(calls'[e].from) = Family(cookie) => e = c
    BY <1>1 DEF QuietCall, Refreshes, Quiet, Family, Usable, RefreshKinds
  <2>1. Quiet(cookie) /\ Family(cookie) # 0
    BY <1>1, FamilyOf DEF Quiet, Core, CallsSound
  <2>2. Usable(cookie)
    BY <1>4, <2>1 DEF ReasonsSound, QuietCookie
  <2>3. ASSUME NEW e \in Slots, e # c, Family(calls'[e].from) = Family(cookie)
        PROVE  FALSE
    <3>1. calls[e].from # 0 /\ Family(calls[e].from) = Family(cookie)
      BY <1>1, <2>1, <2>3 DEF Family
    <3> QED
      BY <1>8, <3>1
  <2> QED
    BY <2>2, <2>3
<1>11. \A d \in Slots : NewLogin(d)'
  <2> SUFFICES ASSUME NEW d \in Slots, d # c, calls[d].kind = "login", calls[d].pc = "ok"
               PROVE  /\ calls[d].new # 0 /\ Family(calls[d].new) \notin disturbed'
                            => Usable(calls[d].new)
                      /\ Family(cookie) # Family(calls[d].new)
                      /\ \A e \in Slots : Family(calls'[e].from) # Family(calls[d].new)
                      /\ \A e \in Slots :
                           calls'[e].kind = "login" /\ calls'[e].pc = "ok"
                             /\ Family(calls'[e].new) = Family(calls[d].new) => e = d
    BY <1>1 DEF NewLogin, Quiet, Family, Usable
  <2>1. NewLogin(d) /\ calls[d].new # 0 /\ Family(calls[d].new) # 0
    BY <1>2 DEF ReasonsSound, CallSound
  <2>2. Family(from) # Family(calls[d].new)
    BY <2>1 DEF NewLogin, Family
  <2> QED
    BY <1>1, <2>1, <2>2 DEF NewLogin, Quiet
<1>12. QuietCookie'
  <2>1. Quiet(cookie)' => Quiet(cookie)
    BY <1>1 DEF Quiet, Family
  <2>2. \A d \in Slots : Refreshes(d) => d # c /\ calls'[d] = calls[d]
    BY <1>1 DEF Refreshes, RefreshKinds
  <2> QED
    BY <1>1, <2>1, <2>2 DEF ReasonsSound, QuietCookie, Usable, Refreshes
<1>13. NobodyYet'
  BY <1>1 DEF ReasonsSound, NobodyYet
<1>14. NoCookieSent'
  BY <1>1, <1>3 DEF ReasonsSound, NoCookieSent, Refreshes, RefreshKinds
<1> QED
  BY <1>9, <1>10, <1>11, <1>12, <1>13, <1>14 DEF ReasonsSound

LEMMA LeftReasons ==
  ASSUME Core, ReasonsSound, NEW D \in SUBSET Slots, Left(D), NobodyYet',
         UNCHANGED <<sessions, cookie>>
  PROVE  ReasonsSound'
<1>1. /\ sessions' = sessions /\ cookie' = cookie /\ disturbed \subseteq disturbed'
      /\ \A d \in Slots \ D : calls'[d] = calls[d]
      /\ \A d \in Slots :
           /\ calls'[d].kind = calls[d].kind /\ calls'[d].pc = calls[d].pc
           /\ calls'[d].from = calls[d].from /\ calls'[d].new = calls[d].new
           /\ calls'[d].out = calls[d].out
  BY DEF Left
<1>2. \A d \in D : calls[d].from # 0 => Family(calls[d].from) \in disturbed'
  BY CallFacts, FamilyOf DEF Left, CallSound
<1>3. \A c \in Slots : QuietCall(c)'
  <2> SUFFICES ASSUME NEW c \in Slots, Refreshes(c), calls[c].from # 0,
                      Family(calls[c].from) \notin disturbed'
               PROVE  /\ calls'[c].tab \in Tabs
                      /\ calls[c].pc \in {"sent", "found", "created", "ok"}
                      /\ calls[c].pc # "ok" => Usable(calls[c].from)
                      /\ calls[c].pc \in {"created", "ok"} => Usable(calls[c].new)
                      /\ \A e \in Slots : Family(calls[e].from) = Family(calls[c].from) => e = c
                      /\ Family(cookie) = Family(calls[c].from) => cookie = calls[c].from
    BY <1>1 DEF QuietCall, Refreshes, Quiet, Family, Usable
  <2>1. calls'[c] = calls[c] /\ Quiet(calls[c].from)
    BY <1>1, <1>2 DEF Quiet
  <2> QED
    BY <2>1 DEF ReasonsSound, QuietCall
<1>4. \A c \in Slots : NewLogin(c)'
  BY <1>1 DEF ReasonsSound, NewLogin, Quiet, Family, Usable
<1>5. QuietCookie'
  BY <1>1 DEF ReasonsSound, QuietCookie, Quiet, Family, Usable, Refreshes
<1>6. NoCookieSent'
  BY <1>1 DEF ReasonsSound, NoCookieSent, Refreshes
<1> QED
  BY <1>3, <1>4, <1>5, <1>6 DEF ReasonsSound

LEMMA EndedReasons ==
  ASSUME Core, ReasonsSound, NEW c \in Slots, Ended(c), NobodyYet',
         cookie' \in {0, cookie} \/ (calls[c].pc = "ok" /\ cookie' = calls[c].new),
         Refreshes(c) => \/ calls[c].tab = "gone" \/ calls[c].pc \in {"refused", "cleared"}
                         \/ calls[c].pc = "ok" /\ cookie' = calls[c].new,
         UNCHANGED <<sessions, history>>
  PROVE  ReasonsSound'
<1>1. /\ sessions' = sessions /\ disturbed' = disturbed
      /\ \A d \in Slots : d # c => calls'[d] = calls[d]
      /\ calls'[c].kind = "none" /\ calls'[c].from = 0 /\ calls'[c].pc = "idle"
  BY DEF history, Ended, Idle
<1>2. \A d \in Slots :
        /\ CallSound(d) /\ QuietCall(d) /\ NewLogin(d)
        /\ calls[d].from # 0 => Refreshes(d) /\ Family(calls[d].from) # 0
        /\ calls[d].new # 0 => Family(calls[d].new) # 0
  BY CallFacts, FamilyOf DEF ReasonsSound, CallSound
<1>3. Family(0) = 0
  BY DEF Family
<1>4. calls[c].pc = "ok" =>
        /\ calls[c].new # 0
        /\ calls[c].kind = "login" \/ (Refreshes(c) /\ calls[c].from # 0
                                        /\ Family(calls[c].new) = Family(calls[c].from))
  BY <1>2, CallFacts DEF CallSound, CallType, Refreshes
<1>5. PICK k : k = cookie'
  OBVIOUS
<1>6. k = 0 \/ k = cookie \/ (calls[c].pc = "ok" /\ k = calls[c].new)
  BY <1>5
<1>7. \A d \in Slots : d # c => QuietCall(d)'
  <2> SUFFICES ASSUME NEW d \in Slots, d # c, Refreshes(d), Quiet(calls[d].from)
               PROVE  /\ calls[d].tab \in Tabs
                      /\ calls[d].pc \in {"sent", "found", "created", "ok"}
                      /\ calls[d].pc # "ok" => Usable(calls[d].from)
                      /\ calls[d].pc \in {"created", "ok"} => Usable(calls[d].new)
                      /\ \A e \in Slots : Family(calls'[e].from) = Family(calls[d].from) => e = d
                      /\ Family(k) = Family(calls[d].from) => k = calls[d].from
    BY <1>1, <1>5 DEF QuietCall, Refreshes, Quiet, Family, Usable
  <2>1. Family(calls[d].from) # 0
    BY <1>2 DEF Quiet
  <2>2. \A e \in Slots : Family(calls'[e].from) = Family(calls[d].from) => e = d
    BY <1>1, <1>2, <1>3, <2>1 DEF QuietCall
  <2>3. Family(k) = Family(calls[d].from) => k = calls[d].from
    BY <1>2, <1>3, <1>4, <1>6, <2>1 DEF QuietCall, NewLogin
  <2> QED
    BY <1>2, <2>2, <2>3 DEF QuietCall
<1>8. QuietCall(c)'
  BY <1>1 DEF QuietCall, Refreshes, RefreshKinds
<1>9. \A d \in Slots : NewLogin(d)'
  <2> SUFFICES ASSUME NEW d \in Slots, d # c, calls[d].kind = "login", calls[d].pc = "ok"
               PROVE  /\ Quiet(calls[d].new) => Usable(calls[d].new)
                      /\ Family(k) # Family(calls[d].new)
                      /\ \A e \in Slots : Family(calls'[e].from) # Family(calls[d].new)
                      /\ \A e \in Slots :
                           calls'[e].kind = "login" /\ calls'[e].pc = "ok"
                             /\ Family(calls'[e].new) = Family(calls[d].new) => e = d
    BY <1>1, <1>5 DEF NewLogin, Quiet, Family, Usable
  <2>1. NewLogin(d) /\ Family(calls[d].new) # 0
    BY <1>2 DEF CallSound
  <2>2. Family(k) # Family(calls[d].new)
    BY <1>2, <1>3, <1>4, <1>6, <2>1 DEF NewLogin
  <2> QED
    BY <1>1, <1>3, <2>1, <2>2 DEF NewLogin
<1>10. QuietCookie'
  <2> SUFFICES ASSUME Quiet(k)
               PROVE  Usable(k) \/ \E d \in Slots : Refreshes(d)' /\ calls'[d].from = k
    BY <1>1, <1>5 DEF QuietCookie, Quiet, Family, Usable
  <2>1. CASE calls[c].pc = "ok" /\ k = calls[c].new
    BY <1>2, <1>4, <2>1 DEF Quiet, QuietCall, NewLogin
  <2>2. CASE k = cookie /\ ~(calls[c].pc = "ok" /\ k = calls[c].new)
    <3>1. ASSUME Refreshes(c), calls[c].from = k PROVE FALSE
      BY <1>2, <1>5, <2>2, <3>1, TabsAssumption DEF QuietCall
    <3> QED
      BY <1>1, <2>2, <3>1 DEF ReasonsSound, QuietCookie, Refreshes
  <2> QED
    BY <1>6, <2>1, <2>2 DEF Quiet
<1>11. NoCookieSent'
  BY <1>1 DEF ReasonsSound, NoCookieSent, Refreshes, RefreshKinds
<1> QED
  BY <1>7, <1>8, <1>9, <1>10, <1>11 DEF ReasonsSound

(* Sessions of families that stay quiet keep their state, but those of X. *)
QuietKept(X) == \A s \in DOMAIN sessions :
  sessions[s].family \notin disturbed' /\ s \notin X => sessions'[s] = sessions[s]

LEMMA RevokeReasons ==
  ASSUME Core, ReasonsSound, SessionsWorn, QuietKept({}), disturbed \subseteq disturbed',
         UNCHANGED <<client, calls>>
  PROVE  ReasonsSound'
<1>1. /\ cookie' = cookie /\ calls' = calls /\ FamiliesKept /\ tabs' = tabs
      /\ hasSession' = hasSession /\ requests' = requests
  BY WornKeeps DEF client
<1>2. \A d \in Slots :
        /\ CallSound(d) /\ QuietCall(d) /\ NewLogin(d)
        /\ calls[d].from = 0 \/ calls[d].from \in DOMAIN sessions
        /\ calls[d].new = 0 \/ calls[d].new \in DOMAIN sessions
  BY CallFacts DEF ReasonsSound, CallSound, Known
<1>3. cookie = 0 \/ cookie \in DOMAIN sessions
  BY DEF Core, CallsSound, Known
<1>4. \A s \in DOMAIN sessions : sessions'[s].family = sessions[s].family
  BY <1>1 DEF FamiliesKept
<1>5. \A c \in Slots : QuietCall(c)'
  <2> SUFFICES ASSUME NEW c \in Slots, Refreshes(c), calls[c].from # 0,
                      Family(calls[c].from) \notin disturbed'
               PROVE  /\ calls[c].tab \in Tabs
                      /\ calls[c].pc \in {"sent", "found", "created", "ok"}
                      /\ calls[c].pc # "ok" => sessions'[calls[c].from] = sessions[calls[c].from]
                                                /\ Usable(calls[c].from)
                      /\ calls[c].pc \in {"created", "ok"} =>
                           sessions'[calls[c].new] = sessions[calls[c].new] /\ Usable(calls[c].new)
                      /\ \A e \in Slots : Family(calls[e].from) = Family(calls[c].from) => e = c
                      /\ Family(cookie) = Family(calls[c].from) => cookie = calls[c].from
    BY <1>1, <1>2, <1>3, <1>4 DEF QuietCall, Refreshes, Quiet, Family, Usable
  <2>1. Quiet(calls[c].from)
    BY DEF Quiet
  <2>2. sessions'[calls[c].from] = sessions[calls[c].from]
    BY <1>2 DEF QuietKept, Family
  <2>3. calls[c].pc \in {"created", "ok"} => sessions'[calls[c].new] = sessions[calls[c].new]
    BY <1>2 DEF QuietKept, Family, CallSound
  <2> QED
    BY <1>2, <2>1, <2>2, <2>3 DEF QuietCall
<1>6. \A c \in Slots : NewLogin(c)'
  <2> SUFFICES ASSUME NEW c \in Slots, calls[c].kind = "login", calls[c].pc = "ok"
               PROVE  /\ calls[c].new # 0 /\ Family(calls[c].new) \notin disturbed' =>
                           sessions'[calls[c].new] = sessions[calls[c].new] /\ Usable(calls[c].new)
                      /\ Family(cookie) # Family(calls[c].new)
                      /\ \A e \in Slots : Family(calls[e].from) # Family(calls[c].new)
                      /\ \A e \in Slots :
                           calls[e].kind = "login" /\ calls[e].pc = "ok"
                             /\ Family(calls[e].new) = Family(calls[c].new) => e = c
    BY <1>1, <1>2, <1>3, <1>4 DEF NewLogin, Quiet, Family, Usable
  <2>1. calls[c].new # 0 /\ Family(calls[c].new) \notin disturbed'
          => sessions'[calls[c].new] = sessions[calls[c].new] /\ Quiet(calls[c].new)
    BY <1>2 DEF QuietKept, Family, Quiet
  <2> QED
    BY <1>2, <2>1 DEF NewLogin
<1>7. QuietCookie'
  <2> SUFFICES ASSUME cookie # 0, Family(cookie) \notin disturbed'
               PROVE  /\ sessions'[cookie] = sessions[cookie]
                      /\ Usable(cookie) \/ \E c \in Slots : Refreshes(c) /\ calls[c].from = cookie
    BY <1>1, <1>3, <1>4 DEF QuietCookie, Quiet, Family, Usable, Refreshes
  <2>1. sessions'[cookie] = sessions[cookie]
    BY <1>3 DEF QuietKept, Family
  <2>2. Quiet(cookie)
    BY DEF Quiet
  <2> QED
    BY <2>1, <2>2 DEF ReasonsSound, QuietCookie
<1>8. NobodyYet' /\ NoCookieSent'
  BY <1>1 DEF ReasonsSound, NobodyYet, NoCookieSent, Refreshes
<1> QED
  BY <1>5, <1>6, <1>7, <1>8 DEF ReasonsSound

LEMMA MovedReasons ==
  ASSUME Core, ReasonsSound, NEW c \in Slots, NEW pc \in {"found", "ok", "refused", "cleared"},
         NEW x, x = calls[c].from, NEW n, n = calls[c].new, Moved(c, pc, n),
         SessionsWorn, QuietKept({x}), disturbed \subseteq disturbed', UNCHANGED client,
         \/ pc = "found" /\ calls[c].pc = "sent" /\ Refreshes(c) /\ sessions' = sessions
         \/ pc = "ok" /\ calls[c].pc = "created"
         \/ /\ pc \in {"refused", "cleared"}
            /\ Refreshes(c) /\ x # 0 => Family(x) \in disturbed'
  PROVE  ReasonsSound'
<1>1. /\ cookie' = cookie /\ FamiliesKept /\ tabs' = tabs
      /\ hasSession' = hasSession /\ requests' = requests
      /\ \A d \in Slots : d # c => calls'[d] = calls[d]
      /\ calls'[c].kind = calls[c].kind /\ calls'[c].tab = calls[c].tab
      /\ calls'[c].from = x /\ calls'[c].new = n /\ calls'[c].pc = pc
      /\ calls'[c].out = calls[c].out
  BY WornKeeps DEF client, Moved
<1>2. \A d \in Slots :
        /\ CallSound(d) /\ QuietCall(d) /\ NewLogin(d)
        /\ calls[d].from = 0 \/ calls[d].from \in DOMAIN sessions
        /\ calls[d].new = 0 \/ calls[d].new \in DOMAIN sessions
        /\ calls'[d].from = calls[d].from /\ calls'[d].kind = calls[d].kind
        /\ calls'[d].new = calls[d].new
        /\ calls[d].from # 0 => Refreshes(d)
  BY <1>1, CallFacts DEF ReasonsSound, CallSound, Known
<1>3. cookie = 0 \/ cookie \in DOMAIN sessions
  BY DEF Core, CallsSound, Known
<1>4. \A s \in DOMAIN sessions : sessions'[s].family = sessions[s].family
  BY <1>1 DEF FamiliesKept
<1>5. \A s \in DOMAIN sessions :
        Family(s) \notin disturbed' /\ s # x => sessions'[s] = sessions[s]
  <2>1. \A s \in DOMAIN sessions : Family(s) = sessions[s].family
    BY FamilyOf DEF Known
  <2> QED
    BY <2>1 DEF QuietKept
<1>6. \A d \in Slots : d # c => QuietCall(d)'
  <2> SUFFICES ASSUME NEW d \in Slots, d # c, Refreshes(d), calls[d].from # 0,
                      Family(calls[d].from) \notin disturbed'
               PROVE  /\ calls[d].tab \in Tabs
                      /\ calls[d].pc \in {"sent", "found", "created", "ok"}
                      /\ calls[d].pc # "ok" => sessions'[calls[d].from] = sessions[calls[d].from]
                                                /\ Usable(calls[d].from)
                      /\ calls[d].pc \in {"created", "ok"} =>
                           sessions'[calls[d].new] = sessions[calls[d].new] /\ Usable(calls[d].new)
                      /\ \A e \in Slots : Family(calls[e].from) = Family(calls[d].from) => e = d
                      /\ Family(cookie) = Family(calls[d].from) => cookie = calls[d].from
    BY <1>1, <1>2, <1>3, <1>4, SMTT(30) DEF QuietCall, Refreshes, Quiet, Family, Usable
  <2>1. Quiet(calls[d].from)
    BY DEF Quiet
  <2>2. Family(x) # Family(calls[d].from)
    BY <1>2, <2>1 DEF QuietCall
  <2>3. sessions'[calls[d].from] = sessions[calls[d].from]
    BY <1>2, <1>5, <2>2
  <2>4. calls[d].pc \in {"created", "ok"} => sessions'[calls[d].new] = sessions[calls[d].new]
    BY <1>2, <1>5, <2>2 DEF CallSound
  <2> QED
    BY <1>2, <2>1, <2>3, <2>4 DEF QuietCall
<1>7. QuietCall(c)'
  <2> SUFFICES ASSUME Refreshes(c), x # 0, Family(x) \notin disturbed'
               PROVE  /\ calls[c].tab \in Tabs
                      /\ pc \in {"found", "ok"}
                      /\ pc # "ok" => sessions'[x] = sessions[x] /\ Usable(x)
                      /\ pc = "ok" => sessions'[n] = sessions[n] /\ Usable(n)
                      /\ \A e \in Slots : Family(calls[e].from) = Family(x) => e = c
                      /\ Family(cookie) = Family(x) => cookie = x
    BY <1>1, <1>2, <1>3, <1>4 DEF QuietCall, Refreshes, Quiet, Family, Usable
  <2>1. Quiet(calls[c].from) /\ QuietCall(c)
    BY <1>2 DEF Quiet
  <2>2. CASE pc = "found"
    BY <2>1, <2>2 DEF QuietCall
  <2>3. CASE pc = "ok"
    <3>1. calls[c].pc = "created"
      BY <2>3
    <3>2. n \in DOMAIN sessions /\ Family(n) = Family(x)
      BY <1>2, <3>1 DEF CallSound
    <3>3. n # x
      BY <3>1, <3>2 DEF Core, SessionsSound, HeldSound, Held, Delivered
    <3>4. sessions'[n] = sessions[n]
      BY <1>5, <3>2, <3>3
    <3> QED
      BY <2>1, <2>3, <3>1, <3>4 DEF QuietCall
  <2>4. CASE pc \in {"refused", "cleared"}
    BY <2>4
  <2> QED
    BY <2>2, <2>3, <2>4
<1>8. \A d \in Slots : NewLogin(d)'
  <2>1. ~(calls[c].kind = "login" /\ pc = "ok")
    BY <1>2 DEF CallSound
  <2> SUFFICES ASSUME NEW d \in Slots, d # c, calls[d].kind = "login", calls[d].pc = "ok"
               PROVE  /\ calls[d].new # 0 /\ Family(calls[d].new) \notin disturbed' =>
                           sessions'[calls[d].new] = sessions[calls[d].new] /\ Usable(calls[d].new)
                      /\ Family(cookie) # Family(calls[d].new)
                      /\ \A e \in Slots : Family(calls[e].from) # Family(calls[d].new)
                      /\ \A e \in Slots :
                           calls[e].kind = "login" /\ calls[e].pc = "ok"
                             /\ Family(calls[e].new) = Family(calls[d].new) => e = d
    BY <1>1, <1>2, <1>3, <1>4, <2>1 DEF NewLogin, Quiet, Family, Usable
  <2>2. Family(calls[d].new) # Family(x)
    BY <1>2 DEF NewLogin
  <2>3. calls[d].new # 0 /\ Family(calls[d].new) \notin disturbed'
          => sessions'[calls[d].new] = sessions[calls[d].new] /\ Quiet(calls[d].new)
    BY <1>2, <1>5, <2>2 DEF Quiet
  <2> QED
    BY <1>2, <2>3 DEF NewLogin
<1>9. QuietCookie'
  <2> SUFFICES ASSUME cookie # 0, Family(cookie) \notin disturbed'
               PROVE  \/ sessions'[cookie] = sessions[cookie] /\ Usable(cookie)
                      \/ \E d \in Slots : Refreshes(d) /\ calls[d].from = cookie
    BY <1>1, <1>2, <1>3, <1>4 DEF QuietCookie, Quiet, Family, Usable, Refreshes
  <2>1. cookie = x \/ sessions'[cookie] = sessions[cookie]
    BY <1>3, <1>5
  <2>2. Quiet(cookie)
    BY DEF Quiet
  <2> QED
    BY <1>2, <2>1, <2>2 DEF ReasonsSound, QuietCookie
<1>10. NobodyYet' /\ NoCookieSent'
  BY <1>1, <1>2 DEF ReasonsSound, NobodyYet, NoCookieSent, Refreshes
<1> QED
  BY <1>6, <1>7, <1>8, <1>9, <1>10 DEF ReasonsSound

LEMMA GrownReasons ==
  ASSUME Core, ReasonsSound, NEW c \in Slots, NEW n, n = NextId, NEW pc, Moved(c, pc, n), NEW f \in Nat,
         sessions' = Created(f),
         \/ /\ pc = "created" /\ calls[c].pc = "found" /\ f = Family(calls[c].from)
         \/ /\ pc = "ok" /\ calls[c].pc = "sent" /\ calls[c].kind = "login" /\ f = n,
         UNCHANGED <<client, history>>
  PROVE  ReasonsSound'
<1>1. /\ cookie' = cookie /\ tabs' = tabs /\ disturbed' = disturbed
      /\ hasSession' = hasSession /\ requests' = requests
      /\ Grew(n, f) /\ FamiliesKept
      /\ \A d \in Slots : d # c => calls'[d] = calls[d]
      /\ calls'[c].kind = calls[c].kind /\ calls'[c].tab = calls[c].tab
      /\ calls'[c].from = calls[c].from /\ calls'[c].new = n /\ calls'[c].pc = pc
      /\ calls'[c].out = calls[c].out
  BY CreatedGrew DEF client, history, Moved
<1>2. \A d \in Slots :
        /\ CallSound(d) /\ QuietCall(d) /\ NewLogin(d)
        /\ calls[d].from = 0 \/ calls[d].from \in DOMAIN sessions
        /\ calls[d].new = 0 \/ calls[d].new \in DOMAIN sessions
        /\ calls'[d].from = calls[d].from /\ calls'[d].kind = calls[d].kind
        /\ calls[d].from # 0 => Refreshes(d)
  BY <1>1, CallFacts DEF ReasonsSound, CallSound, Known
<1>3. cookie = 0 \/ cookie \in DOMAIN sessions
  BY DEF Core, CallsSound, Known
<1>4. /\ \A s \in DOMAIN sessions : sessions'[s] = sessions[s]
      /\ n \notin DOMAIN sessions /\ n # 0
      /\ sessions'[n].family = f /\ ~sessions'[n].used /\ ~sessions'[n].revoked
  BY <1>1 DEF Grew
<1>5. \A s : s = 0 \/ s \in DOMAIN sessions => Family(s) # n
  BY <1>4, FamilyOf DEF Known
<1>6. \A d \in Slots : d # c => QuietCall(d)'
  <2> SUFFICES ASSUME NEW d \in Slots, d # c, Refreshes(d), Quiet(calls[d].from)
               PROVE  /\ calls[d].tab \in Tabs
                      /\ calls[d].pc \in {"sent", "found", "created", "ok"}
                      /\ calls[d].pc # "ok" => Usable(calls[d].from)
                      /\ calls[d].pc \in {"created", "ok"} => calls[d].new # 0 /\ Usable(calls[d].new)
                      /\ \A e \in Slots : Family(calls[e].from) = Family(calls[d].from) => e = d
                      /\ Family(cookie) = Family(calls[d].from) => cookie = calls[d].from
    BY <1>1, <1>2, <1>3, <1>4 DEF QuietCall, Refreshes, Quiet, Family, Usable
  <2> QED
    BY <1>2 DEF QuietCall, CallSound
<1>7. QuietCall(c)'
  <2>1. CASE pc = "created" /\ calls[c].pc = "found" /\ f = Family(calls[c].from)
    <3>1. \A s : s = 0 \/ s \in DOMAIN sessions => Family(s)' = Family(s)
      BY <1>4 DEF Family
    <3>2. \A d \in Slots : calls'[d].from = calls[d].from /\ Family(calls[d].from)' = Family(calls[d].from)
      BY <1>2, <3>1
    <3>3. cookie' = cookie /\ Family(cookie)' = Family(cookie)
      BY <1>1, <1>3, <3>1
    <3>4. calls[c].from # 0 => Usable(calls[c].from)' = Usable(calls[c].from)
      BY <1>2, <1>4 DEF Usable
    <3>5. Usable(n)'
      BY <1>4 DEF Usable
    <3> QED
      BY <1>1, <1>2, <2>1, <3>2, <3>3, <3>4, <3>5 DEF QuietCall, Refreshes, Quiet
  <2>2. CASE calls[c].kind = "login"
    BY <1>1, <2>2 DEF QuietCall, Refreshes, RefreshKinds
  <2> QED
    BY <2>1, <2>2
<1>8. \A d \in Slots : d # c => NewLogin(d)'
  <2> SUFFICES ASSUME NEW d \in Slots, d # c, calls[d].kind = "login", calls[d].pc = "ok"
               PROVE  /\ Quiet(calls[d].new) => Usable(calls[d].new)
                      /\ Family(cookie) # Family(calls[d].new)
                      /\ \A e \in Slots : Family(calls[e].from) # Family(calls[d].new)
                      /\ \A e \in Slots :
                           calls[e].kind = "login" /\ calls[e].pc = "ok"
                             /\ Family(calls[e].new) = Family(calls[d].new) => e = d
                      /\ calls[c].kind = "login" => f # Family(calls[d].new)
    BY <1>1, <1>2, <1>3, <1>4 DEF NewLogin, Quiet, Family, Usable
  <2>1. calls[c].kind = "login" => f = n
    BY <1>2 DEF CallSound
  <2> QED
    BY <1>2, <1>5, <2>1 DEF NewLogin
<1>9. NewLogin(c)'
  <2> SUFFICES ASSUME calls[c].kind = "login", f = n
               PROVE  /\ Family(cookie) # n
                      /\ \A e \in Slots : Family(calls[e].from) # n
                      /\ \A e \in Slots : Family(calls[e].new) # n
    <3>1. calls[c].kind = "login" => f = n
      BY <1>2 DEF CallSound
    <3> QED
      BY <1>1, <1>2, <1>3, <1>4, <3>1 DEF NewLogin, Quiet, Family, Usable
  <2> QED
    BY <1>2, <1>3, <1>5
<1>10. QuietCookie'
  BY <1>1, <1>2, <1>3, <1>4 DEF ReasonsSound, QuietCookie, Quiet, Family, Usable, Refreshes
<1>11. NobodyYet' /\ NoCookieSent'
  BY <1>1, <1>2 DEF ReasonsSound, NobodyYet, NoCookieSent, Refreshes
<1> QED
  BY <1>6, <1>7, <1>8, <1>9, <1>10, <1>11 DEF ReasonsSound

-----------------------------------------------------------------------------
(* Nobody is left in a queue. *)

Waits(r) == requests[r] \in {"queued", "leading"}

(* The silent refresh of a tab stays what it is. *)
SilentKept(T) == \A d \in Slots :
  \/ calls[d].kind = "silent" /\ calls[d].tab \in T
  \/ calls'[d].kind = "silent" /\ calls'[d].tab \in T
  => calls'[d].kind = calls[d].kind /\ calls'[d].tab = calls[d].tab /\ calls'[d].lead = calls[d].lead

LEMMA WaitersKept ==
  ASSUME WaitersSound, SilentKept(Tabs),
         \A r \in Requests : Waits(r)' =>
           requests'[r] = requests[r] \/ (requests'[r] = "queued" /\ Refreshing(TabOf[r]))
  PROVE  WaitersSound'
<1>1. \A r \in Requests : TabOf[r] \in Tabs
  BY RequestsAssumption
<1>2. \A d \in Slots, t \in Tabs : Under(d, "silent", t)' <=> Under(d, "silent", t)
  BY DEF SilentKept, Under
<1>3. \A d \in Slots, t \in Tabs : Under(d, "silent", t) => calls'[d].lead = calls[d].lead
  BY DEF SilentKept, Under
<1>4. OneSilent'
  BY <1>2 DEF WaitersSound, OneSilent
<1>5. Waiting'
  BY <1>1, <1>2, <1>3 DEF WaitersSound, Waiting, Waits, Refreshing
<1> QED
  BY <1>4, <1>5 DEF WaitersSound

LEMMA WaitersQuit ==
  ASSUME WaitersSound, NEW t \in Tabs, SilentKept(Tabs \ {t}),
         \A d \in Slots : ~(calls'[d].kind = "silent" /\ calls'[d].tab = t),
         \A r \in Requests : Waits(r)' => TabOf[r] # t /\ requests'[r] = requests[r]
  PROVE  WaitersSound'
<1>1. \A r \in Requests : TabOf[r] \in Tabs
  BY RequestsAssumption
<1>2. \A d \in Slots, u \in Tabs \ {t} : Under(d, "silent", u)' <=> Under(d, "silent", u)
  BY DEF SilentKept, Under
<1>3. \A d \in Slots, u \in Tabs \ {t} : Under(d, "silent", u) => calls'[d].lead = calls[d].lead
  BY DEF SilentKept, Under
<1>4. OneSilent'
  BY <1>2 DEF WaitersSound, OneSilent, Under
<1>5. Waiting'
  BY <1>1, <1>2, <1>3 DEF WaitersSound, Waiting, Waits
<1> QED
  BY <1>4, <1>5 DEF WaitersSound

-----------------------------------------------------------------------------
(* The actions. *)

LEMMA SInvParts ==
  ASSUME SInv
  PROVE  Core /\ ReasonsSound /\ WaitersSound /\ Typed /\ ClientTyped /\ CallsSound /\ SessionsSound
  BY DEF SInv, Core, Typed

LEMMA SInvWhole ==
  ASSUME Core', ReasonsSound', WaitersSound'
  PROVE  SInv'
  BY DEF SInv, Core

LEMMA ClientStep ==
  ASSUME SInv,
         \/ \E t \in Tabs : Logout(t) \/ ForceDisconnect(t)
         \/ \E r \in Requests : Send(r) \/ Serve(r) \/ Queue(r)
  PROVE  SInv'
<1>1. Core /\ ReasonsSound /\ WaitersSound /\ ClientTyped
  BY SInvParts
<1>2. UNCHANGED <<sessions, cookie, calls, history>>
  BY DEF Logout, ForceDisconnect, Send, Serve, Queue, SignOut
<1>3. Awake \/ UNCHANGED <<tabs, hasSession>>
  BY DEF Logout, ForceDisconnect, Send, Serve, Queue, Awake
<1>4. CASE \E t \in Tabs : Logout(t) \/ ForceDisconnect(t)
  <2>1. ClientTyped' /\ requests' = requests
    BY <1>1, <1>4 DEF ClientTyped, Logout, ForceDisconnect, SignOut
  <2>2. WaitersSound'
    BY <1>1, <1>2, <2>1, WaitersKept DEF SilentKept
  <2> QED
    BY <1>1, <1>2, <1>3, <2>1, <2>2, ClientCore, ClientReasons, SInvWhole
<1>5. CASE \E r \in Requests : Send(r) \/ Serve(r) \/ Queue(r)
  <2>1. PICK r \in Requests : Send(r) \/ Serve(r) \/ Queue(r)
    BY <1>5
  <2>2. /\ ClientTyped' /\ \A q \in Requests : q # r => requests'[q] = requests[q]
        /\ requests'[r] \in {"sent", "bare", "over"} \/ (requests'[r] = "queued" /\ Refreshing(TabOf[r]))
    BY <1>1, <2>1 DEF ClientTyped, Send, Serve, Queue
  <2>3. WaitersSound'
    BY <1>1, <1>2, <2>2, WaitersKept DEF SilentKept, Waits
  <2> QED
    BY <1>1, <1>2, <1>3, <2>2, <2>3, ClientCore, ClientReasons, SInvWhole
<1> QED
  BY <1>4, <1>5

LEMMA StartStep ==
  ASSUME SInv, NEW c \in Slots,
         (\E t \in Tabs : Login(c, t) \/ Bootstrap(c, t)) \/ \E r \in Requests : Lead(c, r)
  PROVE  SInv'
<1>1. Core /\ ReasonsSound /\ WaitersSound /\ ClientTyped
  BY SInvParts
<1>2. ASSUME NEW t \in Tabs, Login(c, t) PROVE SInv'
  <2>1. Started(c, "login", t, "none")
    BY <1>1, <1>2, StartStarts DEF Login
  <2>2. /\ UNCHANGED <<sessions, cookie, orphans>> /\ ClientTyped' /\ requests' = requests
        /\ UNCHANGED <<tabs, hasSession>> /\ \A d \in Slots : ~Under(d, "login", t)
    BY <1>1, <1>2 DEF Login, client, ClientTyped
  <2>3. Core' /\ ReasonsSound'
    BY <1>1, <2>1, <2>2, StartCore, StartReasons
  <2>4. WaitersSound'
    BY <1>1, <2>1, <2>2, WaitersKept DEF SilentKept, Started, Idle
  <2> QED
    BY <2>3, <2>4, SInvWhole
<1>3. ASSUME NEW t \in Tabs, Bootstrap(c, t) PROVE SInv'
  <2>1. Started(c, "bootstrap", t, "none")
    BY <1>1, <1>3, StartStarts DEF Bootstrap, RefreshKinds
  <2>2. /\ UNCHANGED <<sessions, cookie, orphans>> /\ ClientTyped' /\ requests' = requests
        /\ Awake /\ UNCHANGED <<tabs, hasSession>> /\ \A d \in Slots : ~Under(d, "bootstrap", t)
    BY <1>1, <1>3 DEF Bootstrap, client, ClientTyped, Awake
  <2>3. Core' /\ ReasonsSound'
    BY <1>1, <2>1, <2>2, StartCore, StartReasons DEF RefreshKinds
  <2>4. WaitersSound'
    BY <1>1, <2>1, <2>2, WaitersKept DEF SilentKept, Started, Idle
  <2> QED
    BY <2>3, <2>4, SInvWhole
<1>4. ASSUME NEW r \in Requests, Lead(c, r) PROVE SInv'
  <2>1. PICK t \in Tabs : t = TabOf[r]
    BY RequestsAssumption
  <2>2. Started(c, "silent", t, r)
    BY <1>1, <1>4, <2>1, StartStarts DEF Lead, RefreshKinds
  <2>3. /\ UNCHANGED <<sessions, cookie, orphans, tabs, hasSession>> /\ ClientTyped'
        /\ Awake \/ calls'[c].out
        /\ requests'[r] = "leading" /\ \A q \in Requests : q # r => requests'[q] = requests[q]
        /\ \A d \in Slots : ~Under(d, "silent", t)
    <3>1. UNCHANGED <<sessions, cookie, orphans>> /\ requests' = [requests EXCEPT ![r] = "leading"]
          /\ UNCHANGED <<tabs, hasSession>> /\ Unauthorized(r) /\ ~Refreshing(t)
      BY <1>4, <2>1 DEF Lead
    <3>2. ClientTyped'
      BY <1>1, <3>1 DEF ClientTyped
    <3>3. requests'[r] = "leading" /\ \A q \in Requests : q # r => requests'[q] = requests[q]
      BY <1>1, <3>1 DEF ClientTyped
    <3>4. Awake \/ calls'[c].out
      <4>1. calls'[c].out = (tabs[t] = "out")
        BY <2>2 DEF Started
      <4> QED
        BY <4>1 DEF Awake
    <3> QED
      BY <3>1, <3>2, <3>3, <3>4 DEF Refreshing
  <2>4. Core' /\ ReasonsSound'
    BY <1>1, <2>2, <2>3, StartCore, StartReasons DEF RefreshKinds
  <2>5. /\ calls[c].kind = "none" /\ \A d \in Slots : d # c => calls'[d] = calls[d]
        /\ calls'[c].kind = "silent" /\ calls'[c].tab = t /\ calls'[c].lead = r
    BY <2>2 DEF Started, Idle
  <2>6. OneSilent'
    BY <1>1, <2>3, <2>5 DEF WaitersSound, OneSilent, Under
  <2>7. \A d \in Slots : Under(d, "silent", TabOf[r])' <=> d = c
    BY <2>1, <2>3, <2>5 DEF Under
  <2>8. \A q \in Requests, d \in Slots :
          Under(d, "silent", TabOf[q]) => Under(d, "silent", TabOf[q])' /\ calls'[d].lead = calls[d].lead
    BY <2>5 DEF Under
  <2>9. Waiting'
    BY <1>1, <2>1, <2>3, <2>5, <2>7, <2>8 DEF WaitersSound, Waiting
  <2> QED
    BY <2>4, <2>6, <2>9, SInvWhole DEF WaitersSound
<1> QED
  BY <1>2, <1>3, <1>4

LEMMA GoneCall ==
  ASSUME NEW k \in CallType
  PROVE  LET g == [k EXCEPT !.tab = "gone"] IN
         /\ g \in CallType /\ g.tab = "gone" /\ g.kind = k.kind /\ g.pc = k.pc
         /\ g.from = k.from /\ g.new = k.new /\ g.lead = k.lead /\ g.out = k.out
  BY DEF CallType

LEMMA LeftWhen ==
  ASSUME Core, NEW D \in SUBSET Slots, Disturb({Family(calls[d].from) : d \in D}),
         calls' = [d \in Slots |-> IF d \in D THEN [calls[d] EXCEPT !.tab = "gone"] ELSE calls[d]]
  PROVE  Left(D)
<1> DEFINE g(d) == [calls[d] EXCEPT !.tab = "gone"]
<1>1. \A d \in Slots :
        /\ calls[d] \in CallType /\ Family(calls[d].from) \in Nat
        /\ g(d) \in CallType /\ g(d).tab = "gone" /\ g(d).kind = calls[d].kind /\ g(d).pc = calls[d].pc
        /\ g(d).from = calls[d].from /\ g(d).new = calls[d].new /\ g(d).lead = calls[d].lead
        /\ g(d).out = calls[d].out
  BY CallFacts, GoneCall
<1>2. calls' = [d \in Slots |-> IF d \in D THEN g(d) ELSE calls[d]]
  OBVIOUS
<1> HIDE DEF g
<1>3. calls' \in [Slots -> CallType]
  BY <1>1, <1>2
<1>4. /\ \A d \in Slots \ D : calls'[d] = calls[d]
      /\ \A d \in D : calls'[d] = g(d)
  BY <1>2
<1> DEFINE F == {Family(calls[d].from) : d \in D}
<1>5. F \subseteq Nat /\ \A d \in D : Family(calls[d].from) \in F
  BY <1>1
<1> HIDE DEF F
<1>6. disturbed' \subseteq Nat \ {0} /\ disturbed \subseteq disturbed' /\ F \ {0} \subseteq disturbed'
  BY <1>5, DisturbTyped DEF F
<1> QED
  BY <1>1, <1>3, <1>4, <1>5, <1>6 DEF Left

LEMMA ReloadStep ==
  ASSUME SInv, NEW t \in Tabs, Reload(t)
  PROVE  SInv'
<1>1. Core /\ ReasonsSound /\ WaitersSound /\ ClientTyped /\ Typed
  BY SInvParts
<1>2. PICK D \in SUBSET Slots : D = {d \in Slots : calls[d].tab = t}
  OBVIOUS
<1>3. /\ UNCHANGED <<sessions, cookie, orphans>> /\ hasSession' = hasSession
      /\ tabs' = [tabs EXCEPT ![t] = IF hasSession THEN "loading" ELSE "out"]
      /\ requests' = [r \in Requests |->
           IF TabOf[r] = t /\ requests[r] # "new" THEN "over" ELSE requests[r]]
      /\ calls' = [d \in Slots |-> IF d \in D THEN [calls[d] EXCEPT !.tab = "gone"] ELSE calls[d]]
      /\ Disturb({Family(calls[d].from) : d \in D})
  BY <1>2 DEF Reload
<1>4. Left(D)
  BY <1>1, <1>3, LeftWhen
<1>5. ClientTyped'
  BY <1>1, <1>3 DEF ClientTyped
<1>6. cookie' = cookie /\ disturbed \subseteq disturbed'
  BY <1>3, <1>4 DEF Left
<1>7. NobodyYet'
  BY <1>1, <1>3, <1>6 DEF NobodyYet, ReasonsSound, ClientTyped
<1>8. SilentKept(Tabs \ {t})
  BY <1>2, <1>4, TabsAssumption DEF SilentKept, Left
<1>9. \A d \in Slots : calls'[d].tab # t
  BY <1>2, <1>4, TabsAssumption DEF Left
<1>10. \A r \in Requests : Waits(r)' => TabOf[r] # t /\ requests'[r] = requests[r]
  BY <1>3 DEF Waits
<1>11. WaitersSound'
  BY <1>1, <1>8, <1>9, <1>10, WaitersQuit
<1> QED
  BY <1>1, <1>3, <1>4, <1>5, <1>7, <1>11, LeftCore, LeftReasons, SInvWhole

(* The refresh of a tab comes to an end, and what waited for it goes on.   *)
LEMMA SettledFrees ==
  ASSUME WaitersSound, NEW c \in Slots, Refreshes(c), calls[c].tab \in Tabs,
         NEW first \in {"resent", "over"}, NEW others \in {"sent", "over"},
         requests' = Settled(c, first, others),
         \A d \in Slots : d # c => calls'[d] = calls[d],
         calls'[c].tab = "gone" \/ calls'[c].kind = "none"
  PROVE  WaitersSound'
<1>1. PICK t \in Tabs : t = calls[c].tab
  OBVIOUS
<1>2. \A r \in Requests :
        Waits(r)' => r # calls[c].lead /\ requests'[r] = requests[r]
                     /\ ~(Under(c, "silent", TabOf[r]) /\ requests[r] = "queued")
  BY DEF Settled, Waits
<1>3. CASE calls[c].kind = "silent"
  <2>1. \A d \in Slots : Under(d, "silent", t) => d = c
    BY <1>1, <1>3 DEF WaitersSound, OneSilent, Under
  <2>2. \A r \in Requests : Waits(r)' => TabOf[r] # t /\ requests'[r] = requests[r]
    BY <1>1, <1>2, <1>3, <2>1 DEF WaitersSound, Waiting, Waits, Under
  <2>3. SilentKept(Tabs \ {t})
    BY <1>1, TabsAssumption DEF SilentKept
  <2>4. \A d \in Slots : ~(calls'[d].kind = "silent" /\ calls'[d].tab = t)
    BY <1>1, <2>1, TabsAssumption DEF Under
  <2> QED
    BY <2>2, <2>3, <2>4, WaitersQuit
<1>4. CASE calls[c].kind = "bootstrap" /\ calls'[c].kind \in {"bootstrap", "none"}
  <2>1. SilentKept(Tabs)
    BY <1>4 DEF SilentKept
  <2> QED
    BY <1>2, <2>1, WaitersKept
<1>5. CASE calls[c].kind = "bootstrap" /\ calls'[c].tab = "gone"
  <2>1. SilentKept(Tabs)
    BY <1>5, TabsAssumption DEF SilentKept
  <2> QED
    BY <1>2, <2>1, WaitersKept
<1> QED
  BY <1>3, <1>4, <1>5 DEF Refreshes, RefreshKinds

LEMMA SettledTyped ==
  ASSUME Core, NEW c \in Slots, NEW first \in {"resent", "over"}, NEW others \in {"sent", "over"},
         NEW t \in Tabs, requests' = Settled(c, first, others), SignIn(t) \/ SignOut(t)
  PROVE  ClientTyped'
<1>1. ClientTyped
  BY DEF Core, Typed
<1>2. \A r \in Requests : requests'[r] \in {first, others, requests[r]}
  BY DEF Settled
<1> QED
  BY <1>1, <1>2 DEF ClientTyped, Settled, SignIn, SignOut

LEMMA LoseStep ==
  ASSUME SInv, NEW c \in Slots, Lose(c)
  PROVE  SInv'
<1>1. Core /\ ReasonsSound /\ WaitersSound /\ ClientTyped /\ Typed
  BY SInvParts
<1>2. /\ UNCHANGED <<sessions, cookie, orphans>> /\ Refreshes(c) /\ calls[c].tab \in Tabs
      /\ SignOut(calls[c].tab) /\ requests' = Settled(c, "over", "over")
      /\ calls' = [calls EXCEPT ![c].tab = "gone"] /\ Disturb({Family(calls[c].from)})
  BY DEF Lose, Refreshes
<1>3. calls' = [d \in Slots |-> IF d \in {c} THEN [calls[d] EXCEPT !.tab = "gone"] ELSE calls[d]]
  BY <1>1, <1>2 DEF Typed
<1>4. {Family(calls[d].from) : d \in {c}} = {Family(calls[c].from)}
  OBVIOUS
<1>5. Left({c})
  BY <1>1, <1>2, <1>3, <1>4, LeftWhen
<1>6. ClientTyped'
  BY <1>1, <1>2, SettledTyped
<1>7. NobodyYet'
  <2>1. disturbed \subseteq disturbed' /\ cookie' = cookie
    BY <1>2, <1>5 DEF Left
  <2>2. cookie = 0 /\ disturbed' = {} => ~hasSession /\ \A t \in Tabs : tabs[t] = "out"
    BY <1>1, <2>1 DEF ReasonsSound, NobodyYet
  <2> QED
    BY <1>1, <1>2, <2>1, <2>2 DEF NobodyYet, SignOut, ClientTyped
<1>8. /\ \A d \in Slots : d # c => calls'[d] = calls[d]
      /\ calls'[c].tab = "gone"
  BY <1>5 DEF Left
<1>9. WaitersSound'
  BY <1>1, <1>2, <1>8, SettledFrees
<1> QED
  BY <1>1, <1>2, <1>5, <1>6, <1>7, <1>9, LeftCore, LeftReasons, SInvWhole

LEMMA AnswerStep ==
  ASSUME SInv, NEW c \in Slots, Answered(c)
  PROVE  SInv'
<1>1. Core /\ ReasonsSound /\ WaitersSound /\ ClientTyped /\ Typed /\ CallSound(c) /\ calls[c] \in CallType
  BY SInvParts, CallFacts
<1>2. /\ calls' = [calls EXCEPT ![c] = Idle] /\ UNCHANGED <<sessions, history>>
      /\ calls[c].pc \in {"ok", "refused", "cleared"}
  BY DEF Answered, Refreshed, NotRefreshed, LoggedIn, Unheard
<1>3. Ended(c)
  BY <1>1, <1>2, IdleEnds
<1>4. /\ \A d \in Slots : d # c => calls'[d] = calls[d]
      /\ calls'[c].kind = "none" /\ disturbed' = disturbed
  BY <1>2, <1>3 DEF Ended, Idle, history
<1>5. calls[c].pc = "ok" => calls[c].new # 0
  BY <1>1 DEF CallSound
<1>6. calls[c].pc = "cleared" => Refreshes(c) /\ calls[c].from # 0
  BY <1>1 DEF CallSound, CallType, Refreshes
<1>7. calls[c].pc = "cleared" => disturbed # {}
  BY <1>1, <1>6, RefusedIsDisturbed
<1>8. CASE Refreshed(c) \/ NotRefreshed(c)
  <2>1. PICK t \in Tabs, first \in {"resent", "over"}, others \in {"sent", "over"} :
          /\ t = calls[c].tab /\ Refreshes(c)
          /\ requests' = Settled(c, first, others) /\ (SignIn(t) \/ SignOut(t))
    BY <1>8 DEF Refreshed, NotRefreshed, Refreshes
  <2>2. ClientTyped'
    BY <1>1, <2>1, SettledTyped
  <2>3. WaitersSound'
    BY <1>1, <1>4, <2>1, SettledFrees
  <2>4. /\ cookie' \in {0, cookie} \/ (calls[c].pc = "ok" /\ cookie' = calls[c].new)
        /\ calls[c].pc = "ok" => cookie' = calls[c].new
    BY <1>8 DEF Refreshed, NotRefreshed
  <2>5. NobodyYet'
    <3>1. CASE calls[c].pc \in {"ok", "cleared"}
      BY <1>4, <1>5, <1>7, <2>4, <3>1 DEF NobodyYet
    <3>2. CASE calls[c].pc = "refused"
      BY <1>1, <1>4, <1>8, <3>2 DEF NobodyYet, ReasonsSound, Refreshed, NotRefreshed, SignOut, ClientTyped
    <3> QED
      BY <1>2, <3>1, <3>2
  <2>6. Core'
    BY <1>1, <1>2, <1>3, <2>2, <2>4, EndedCore
  <2>7. ReasonsSound'
    BY <1>1, <1>2, <1>3, <2>4, <2>5, EndedReasons
  <2> QED
    BY <2>3, <2>6, <2>7, SInvWhole
<1>9. CASE LoggedIn(c)
  <2>1. /\ calls[c].kind = "login" /\ ~Refreshes(c) /\ requests' = requests
        /\ cookie' = cookie \/ (calls[c].pc = "ok" /\ cookie' = calls[c].new)
        /\ calls[c].pc = "ok" => cookie' = calls[c].new
        /\ calls[c].pc = "refused" => UNCHANGED <<cookie, tabs, hasSession>>
        /\ calls[c].pc \in {"ok", "refused"}
    BY <1>9 DEF LoggedIn, Refreshes, RefreshKinds
  <2>2. ClientTyped'
    BY <1>1, <1>9 DEF LoggedIn, SignIn, ClientTyped
  <2>3. WaitersSound'
    BY <1>1, <1>4, <2>1, WaitersKept DEF SilentKept
  <2>4. NobodyYet'
    BY <1>1, <1>4, <1>5, <2>1 DEF NobodyYet, ReasonsSound
  <2>5. Core'
    BY <1>1, <1>2, <1>3, <2>1, <2>2, EndedCore
  <2>6. ReasonsSound'
    BY <1>1, <1>2, <1>3, <2>1, <2>4, EndedReasons
  <2> QED
    BY <2>3, <2>5, <2>6, SInvWhole
<1>10. CASE Unheard(c)
  <2>1. /\ calls[c].tab = "gone" /\ UNCHANGED <<tabs, hasSession, requests>>
        /\ \/ cookie' = cookie \/ (calls[c].pc = "ok" /\ cookie' = calls[c].new)
           \/ cookie' = 0 /\ calls[c].pc = "cleared"
    BY <1>10 DEF Unheard
  <2>2. ClientTyped'
    BY <1>1, <2>1 DEF ClientTyped
  <2>3. SilentKept(Tabs)
    BY <1>4, <2>1, TabsAssumption DEF SilentKept
  <2>4. WaitersSound'
    BY <1>1, <2>1, <2>3, WaitersKept
  <2>5. NobodyYet'
    BY <1>1, <1>4, <1>5, <1>7, <2>1 DEF NobodyYet, ReasonsSound
  <2>6. Core'
    BY <1>1, <1>2, <1>3, <2>1, <2>2, EndedCore
  <2>7. ReasonsSound'
    BY <1>1, <1>2, <1>3, <2>1, <2>5, EndedReasons
  <2> QED
    BY <2>4, <2>6, <2>7, SInvWhole
<1> QED
  BY <1>8, <1>9, <1>10 DEF Answered

(* The server moves a call and leaves the tabs alone. *)
LEMMA ServerWaiters ==
  ASSUME WaitersSound, NEW c \in Slots, NEW pc, NEW n, Moved(c, pc, n), UNCHANGED client
  PROVE  WaitersSound'
<1>1. SilentKept(Tabs)
  BY DEF SilentKept, Moved
<1>2. requests' = requests
  BY DEF client
<1> QED
  BY <1>1, <1>2, WaitersKept

LEMMA IssueStep ==
  ASSUME SInv, NEW c \in Slots, HandleSignup(c) \/ HandleLogin(c)
  PROVE  SInv'
<1>1. Core /\ ReasonsSound /\ WaitersSound /\ Typed
  BY SInvParts
<1>2. PICK n : n = NextId
  OBVIOUS
<1>3. /\ calls[c].kind = "login" /\ calls[c].pc = "sent" /\ sessions' = Created(n)
      /\ calls' = [calls EXCEPT ![c].pc = "ok", ![c].new = n]
      /\ UNCHANGED <<client, history>>
  BY <1>2 DEF HandleSignup, HandleLogin, Issue
<1>4. n \in Nat
  BY <1>1, <1>2, Domain DEF NextId
<1>5. Moved(c, "ok", n)
  BY <1>1, <1>3, <1>4, MovedTo
<1>6. Core'
  BY <1>1, <1>2, <1>3, <1>4, <1>5, GrownCore
<1>7. ReasonsSound'
  BY <1>1, <1>2, <1>3, <1>4, <1>5, GrownReasons
<1> QED
  BY <1>1, <1>3, <1>5, <1>6, <1>7, ServerWaiters, SInvWhole

LEMMA CreateStep ==
  ASSUME SInv, NEW c \in Slots, CreateNext(c)
  PROVE  SInv'
<1>1. Core /\ ReasonsSound /\ WaitersSound /\ Typed
  BY SInvParts
<1>2. PICK n : n = NextId
  OBVIOUS
<1>3. PICK f \in Nat : f = Family(calls[c].from)
  BY <1>1, CallFacts
<1>4. /\ calls[c].pc = "found" /\ sessions' = Created(f)
      /\ calls' = [calls EXCEPT ![c].pc = "created", ![c].new = n]
      /\ UNCHANGED <<client, history>>
  BY <1>2, <1>3 DEF CreateNext
<1>5. n \in Nat
  BY <1>1, <1>2, Domain DEF NextId
<1>6. Moved(c, "created", n)
  BY <1>1, <1>4, <1>5, MovedTo
<1>7. Core'
  BY <1>1, <1>2, <1>3, <1>4, <1>6, GrownCore
<1>8. ReasonsSound'
  BY <1>1, <1>2, <1>3, <1>4, <1>6, GrownReasons
<1> QED
  BY <1>1, <1>4, <1>6, <1>7, <1>8, ServerWaiters, SInvWhole

LEMMA FindStep ==
  ASSUME SInv, NEW c \in Slots, Find(c)
  PROVE  SInv'
<1>1. Core /\ ReasonsSound /\ WaitersSound /\ Typed /\ calls[c].new \in Nat
  BY SInvParts, CallFacts DEF CallType
<1>2. /\ Refreshes(c) /\ calls[c].pc = "sent" /\ UNCHANGED client /\ sessions' = sessions
      /\ orphans' = orphans /\ disturbed' = disturbed
      /\ \/ calls[c].from = 0 /\ Step(c, "refused")
         \/ calls[c].from # 0 /\ Step(c, "found")
  BY DEF Find, Refreshes, history
<1>3. PICK pc \in {"found", "refused"} :
        /\ Moved(c, pc, calls[c].new)
        /\ pc = "found" => calls[c].from # 0
        /\ pc = "refused" => calls[c].from = 0
  BY <1>1, <1>2, StepMoves
<1>4. SessionsWorn /\ disturbed' \subseteq Nat \ {0}
  BY <1>1, <1>2, Unworn DEF Typed
<1>5. Core'
  BY <1>1, <1>2, <1>3, <1>4, HandlerCore
<1>6. QuietKept({calls[c].from})
  BY <1>2 DEF QuietKept
<1>7. ReasonsSound'
  BY <1>1, <1>2, <1>3, <1>4, <1>6, MovedReasons
<1> QED
  BY <1>1, <1>2, <1>3, <1>5, <1>7, ServerWaiters, SInvWhole

(* A family is given up only when it was disturbed. *)
LEMMA GivenUp ==
  ASSUME Core, ReasonsSound, NEW c \in Slots, NEW x, x = calls[c].from, x # 0, Refreshes(c),
         calls[c].pc # "ok", ~Usable(x), sessions' = Revoked(Family(x)), disturbed' = disturbed
  PROVE  Family(x) \in disturbed /\ SessionsWorn /\ QuietKept({x})
<1>1. Family(x) \in disturbed
  BY DEF ReasonsSound, QuietCall, Quiet
<1>2. Typed
  BY DEF Core
<1> DEFINE f == Family(x)
<1> HIDE DEF f
<1>3. SessionsWorn /\ \A s \in DOMAIN sessions : sessions[s].family # f => sessions'[s] = sessions[s]
  BY <1>2, RevokedWears DEF f
<1> QED
  BY <1>1, <1>3 DEF QuietKept, f

LEMMA ReplayStep ==
  ASSUME SInv, NEW c \in Slots, Replay(c)
  PROVE  SInv'
<1>1. Core /\ ReasonsSound /\ WaitersSound /\ Typed /\ calls[c].new \in Nat
  BY SInvParts, CallFacts DEF CallType
<1>2. /\ Refreshes(c) /\ calls[c].pc = "sent" /\ UNCHANGED client
      /\ orphans' = orphans /\ disturbed' = disturbed /\ Step(c, "cleared")
      /\ calls[c].from # 0 /\ ~Usable(calls[c].from) /\ sessions' = Revoked(Family(calls[c].from))
  BY DEF Replay, Refreshes, history
<1>3. Moved(c, "cleared", calls[c].new)
  BY <1>1, <1>2, StepMoves
<1>4. Family(calls[c].from) \in disturbed /\ SessionsWorn /\ QuietKept({calls[c].from})
      /\ disturbed' \subseteq Nat \ {0}
  BY <1>1, <1>2, GivenUp DEF Typed
<1>5. Core'
  BY <1>1, <1>2, <1>3, <1>4, HandlerCore
<1>6. ReasonsSound'
  BY <1>1, <1>2, <1>3, <1>4, MovedReasons
<1> QED
  BY <1>1, <1>2, <1>3, <1>5, <1>6, ServerWaiters, SInvWhole

LEMMA ReplaceStep ==
  ASSUME SInv, NEW c \in Slots, Replace(c)
  PROVE  SInv'
<1>1. Core /\ ReasonsSound /\ WaitersSound /\ Typed /\ CallSound(c)
      /\ calls[c].new \in Nat /\ disturbed \subseteq Nat \ {0}
  BY SInvParts, CallFacts DEF CallType, Typed
<1>2. PICK x, n : x = calls[c].from /\ n = calls[c].new
  OBVIOUS
<1>3. /\ calls[c].pc = "created" /\ UNCHANGED client
      /\ orphans' = orphans /\ disturbed' = disturbed
  BY DEF Replace, history
<1>4. /\ x # 0 /\ x \in DOMAIN sessions /\ Refreshes(c) /\ n \in DOMAIN sessions
      /\ Family(n) = Family(x)
  BY <1>1, <1>2, <1>3 DEF CallSound, Known
<1>5. CASE Unused(x)
  <2>1. sessions' = [sessions EXCEPT ![x].used = TRUE] /\ Step(c, "ok")
    BY <1>2, <1>5 DEF Replace
  <2>2. Moved(c, "ok", n)
    BY <1>1, <1>2, <2>1, StepMoves
  <2>3. /\ SessionsWorn /\ \A s \in DOMAIN sessions : s # x => sessions'[s] = sessions[s]
        /\ sessions'[x].used
    BY <1>1, <1>4, <2>1, OneWears
  <2>4. Core'
    BY <1>1, <1>2, <1>3, <1>5, <2>2, <2>3, ReplacedCore DEF Unused
  <2>5. QuietKept({x})
    BY <2>3 DEF QuietKept
  <2>6. ReasonsSound'
    BY <1>1, <1>2, <1>3, <2>2, <2>3, <2>5, MovedReasons
  <2> QED
    BY <1>1, <1>3, <2>2, <2>4, <2>6, ServerWaiters, SInvWhole
<1>6. CASE ~Unused(x)
  <2>1. sessions' = Revoked(Family(x)) /\ Step(c, "cleared") /\ ~Usable(x)
    BY <1>2, <1>6 DEF Replace, Unused, Usable
  <2>2. Moved(c, "cleared", n)
    BY <1>1, <1>2, <2>1, StepMoves
  <2>3. Family(x) \in disturbed /\ SessionsWorn /\ QuietKept({x})
    BY <1>1, <1>2, <1>3, <1>4, <2>1, GivenUp
  <2>4. sessions'[n].revoked
    <3>1. PICK f : f = Family(x)
      OBVIOUS
    <3>2. sessions[n].family = f
      BY <1>1, <1>4, <3>1, FamilyOf DEF Known
    <3> QED
      BY <1>1, <1>4, <2>1, <3>1, <3>2, RevokedWears
  <2>5. Core'
    BY <1>1, <1>2, <1>3, <2>2, <2>3, <2>4, ReplacedCore
  <2>6. ReasonsSound'
    BY <1>1, <1>2, <1>3, <2>2, <2>3, MovedReasons
  <2> QED
    BY <1>1, <1>3, <2>2, <2>5, <2>6, ServerWaiters, SInvWhole
<1> QED
  BY <1>5, <1>6

LEMMA FailStep ==
  ASSUME SInv, NEW c \in Slots, FailHandler(c)
  PROVE  SInv'
<1>1. Core /\ ReasonsSound /\ WaitersSound /\ Typed /\ CallSound(c)
      /\ calls[c].new \in Nat /\ Family(calls[c].from) \in Nat
  BY SInvParts, CallFacts DEF CallType
<1>2. PICK x, n : x = calls[c].from /\ n = calls[c].new
  OBVIOUS
<1>3. /\ calls[c].pc \in {"sent", "found", "created"} /\ UNCHANGED client /\ sessions' = sessions
      /\ orphans' = orphans \cup ({n} \ {0}) /\ Disturb({Family(x)}) /\ Step(c, "refused")
  BY <1>2 DEF FailHandler
<1>4. Moved(c, "refused", n)
  BY <1>1, <1>2, <1>3, StepMoves
<1>5. /\ disturbed' \subseteq Nat \ {0} /\ disturbed \subseteq disturbed'
      /\ {Family(x)} \ {0} \subseteq disturbed'
  <2>1. {Family(x)} \subseteq Nat
    BY <1>1, <1>2
  <2> QED
    BY <1>1, <1>3, <2>1, DisturbTyped
<1>6. SessionsWorn /\ QuietKept({x})
  BY <1>1, <1>3, Unworn DEF QuietKept
<1>7. x # 0 => Family(x) \in disturbed'
  BY <1>1, <1>2, <1>5, FamilyOf DEF CallSound
<1>8. ReasonsSound'
  BY <1>1, <1>2, <1>3, <1>4, <1>5, <1>6, <1>7, MovedReasons
<1>9. Core'
  <2>1. CASE calls[c].pc = "created"
    <3>1. orphans' = orphans \cup {n}
      BY <1>1, <1>2, <1>3, <2>1 DEF CallSound
    <3> QED
      BY <1>1, <1>2, <1>3, <1>4, <1>5, <1>6, <2>1, <3>1, ReplacedCore
  <2>2. CASE calls[c].pc \in {"sent", "found"}
    <3>1. orphans' = orphans
      BY <1>1, <1>2, <1>3, <2>2 DEF CallSound
    <3> QED
      BY <1>1, <1>2, <1>3, <1>4, <1>5, <1>6, <2>2, <3>1, HandlerCore
  <2> QED
    BY <1>3, <2>1, <2>2
<1> QED
  BY <1>1, <1>3, <1>4, <1>8, <1>9, ServerWaiters, SInvWhole

LEMMA RevokeEveryStep ==
  ASSUME SInv, RevokeEvery
  PROVE  SInv'
<1>1. Core /\ ReasonsSound /\ WaitersSound /\ Typed /\ sessions \in Seq(SessionType)
  BY SInvParts DEF Typed
<1>2. /\ UNCHANGED <<client, calls, orphans>> /\ Disturb({Family(s) : s \in DOMAIN sessions})
      /\ sessions' = [s \in DOMAIN sessions |-> [sessions[s] EXCEPT !.revoked = TRUE]]
  BY DEF RevokeEvery
<1> DEFINE g(s) == [sessions[s] EXCEPT !.revoked = TRUE]
           F == {Family(s) : s \in DOMAIN sessions}
<1>3. /\ Len(sessions) \in Nat /\ DOMAIN sessions = 1..Len(sessions)
      /\ \A s \in DOMAIN sessions :
           /\ g(s) \in SessionType /\ g(s).family = sessions[s].family
           /\ g(s).used = sessions[s].used /\ g(s).revoked
  BY <1>1, Domain, RevokedOne
<1>4. \A s \in DOMAIN sessions : Family(s) \in Nat /\ Family(s) \in F /\ Family(s) # 0
                                 /\ Family(s) = sessions[s].family
  BY <1>1, FamilyOf DEF Known
<1>5. F \subseteq Nat
  BY <1>4
<1>6. sessions' = [s \in 1..Len(sessions) |-> g(s)]
  BY <1>2, <1>3
<1> HIDE DEF g, F
<1>7. sessions' \in [1..Len(sessions) -> SessionType] /\ DOMAIN sessions' = DOMAIN sessions
  BY <1>3, <1>6
<1>8. sessions' \in Seq(SessionType)
  BY <1>3, <1>7
<1>9. SessionsWorn
  BY <1>3, <1>6, <1>7, <1>8 DEF SessionsWorn
<1>10. disturbed' \subseteq Nat \ {0} /\ disturbed \subseteq disturbed' /\ F \ {0} \subseteq disturbed'
  BY <1>1, <1>2, <1>5, DisturbTyped DEF F
<1>11. QuietKept({})
  BY <1>4, <1>10 DEF QuietKept
<1>12. Core' /\ ReasonsSound'
  BY <1>1, <1>2, <1>9, <1>10, <1>11, RevokeCore, RevokeReasons
<1>13. WaitersSound'
  BY <1>1, <1>2, WaitersKept DEF SilentKept, client
<1> QED
  BY <1>12, <1>13, SInvWhole

LEMMA RevokeOneStep ==
  ASSUME SInv, NEW s \in DOMAIN sessions, RevokeOne(s)
  PROVE  SInv'
<1>1. Core /\ ReasonsSound /\ WaitersSound
  BY SInvParts
<1>2. /\ UNCHANGED <<client, calls, orphans>> /\ Disturb({Family(s)})
      /\ sessions' = [sessions EXCEPT ![s].revoked = TRUE]
  BY DEF RevokeOne
<1>3. Family(s) \in Nat \ {0} /\ Family(s) = sessions[s].family
  BY <1>1, FamilyOf DEF Known
<1>4. disturbed' \subseteq Nat \ {0} /\ disturbed \subseteq disturbed' /\ Family(s) \in disturbed'
  BY <1>1, <1>2, <1>3, DisturbTyped
<1>5. SessionsWorn /\ \A d \in DOMAIN sessions : d # s => sessions'[d] = sessions[d]
  BY <1>1, <1>2, OneWears
<1>6. QuietKept({})
  BY <1>3, <1>4, <1>5 DEF QuietKept
<1>7. Core' /\ ReasonsSound'
  BY <1>1, <1>2, <1>4, <1>5, <1>6, RevokeCore, RevokeReasons
<1>8. WaitersSound'
  BY <1>1, <1>2, WaitersKept DEF SilentKept, client
<1> QED
  BY <1>7, <1>8, SInvWhole

LEMMA IdleStep ==
  ASSUME SInv, UNCHANGED vars
  PROVE  SInv'
<1>1. /\ sessions' = sessions /\ tabs' = tabs /\ requests' = requests /\ hasSession' = hasSession
      /\ cookie' = cookie /\ calls' = calls /\ orphans' = orphans /\ disturbed' = disturbed
  BY DEF vars, client, history
<1> QED
  BY <1>1 DEF SInv, Typed, ClientTyped, CallsSound, CallSound, Known, Refreshes, Family, SessionsSound,
              FamiliesSound, HeldSound, Held, Delivered, OrphansSound, OneLive, Live, ReasonsSound,
              QuietCall, Quiet, Usable, NewLogin, QuietCookie, NobodyYet, NoCookieSent, WaitersSound,
              OneSilent, Waiting, Under

LEMMA InitSInv == Init => SInv
<1> SUFFICES ASSUME Init PROVE SInv
  OBVIOUS
<1>1. /\ sessions = <<>> /\ cookie = 0 /\ hasSession = FALSE
      /\ tabs = [t \in Tabs |-> "out"] /\ requests = [r \in Requests |-> "new"]
      /\ calls = [c \in Slots |-> Idle] /\ orphans = {} /\ disturbed = {}
  BY DEF Init
<1>2. DOMAIN sessions = {} /\ sessions \in Seq(SessionType)
  BY <1>1, EmptySeq
<1>3. Idle \in CallType /\ Idle.kind = "none" /\ Idle.pc = "idle" /\ Idle.from = 0 /\ Idle.new = 0
  BY DEF Idle, CallType
<1>4. calls \in [Slots -> CallType] /\ \A c \in Slots : calls[c] = Idle
  BY <1>1, <1>3
<1>5. \A c \in Slots : /\ calls[c].kind = "none" /\ calls[c].pc = "idle"
                       /\ calls[c].from = 0 /\ calls[c].new = 0
  BY <1>3, <1>4
<1>6. Typed
  BY <1>1, <1>2, <1>4 DEF Typed, ClientTyped
<1>7. CallsSound
  BY <1>1, <1>5 DEF CallsSound, CallSound, Refreshes, RefreshKinds
<1>8. SessionsSound
  BY <1>1, <1>2 DEF SessionsSound, FamiliesSound, HeldSound, OrphansSound, OneLive
<1>9. ReasonsSound
  BY <1>1, <1>5 DEF ReasonsSound, QuietCall, NewLogin, QuietCookie, Quiet, NobodyYet, NoCookieSent,
                    Refreshes, RefreshKinds
<1>10. WaitersSound
  BY <1>1, <1>5 DEF WaitersSound, OneSilent, Waiting, Under
<1> QED
  BY <1>6, <1>7, <1>8, <1>9, <1>10 DEF SInv

LEMMA NextSInv == SInv /\ [Next]_vars => SInv'
<1> SUFFICES ASSUME SInv, [Next]_vars PROVE SInv'
  OBVIOUS
<1>1. CASE \E t \in Tabs : Logout(t) \/ ForceDisconnect(t) \/ Reload(t)
  BY <1>1, ClientStep, ReloadStep
<1>2. CASE \E r \in Requests : Send(r) \/ Serve(r) \/ Queue(r)
  BY <1>2, ClientStep
<1>3. ASSUME NEW c \in Slots,
             \/ \E t \in Tabs : Login(c, t) \/ Bootstrap(c, t)
             \/ \E r \in Requests : Lead(c, r)
      PROVE  SInv'
  BY <1>3, StartStep
<1>4. ASSUME NEW c \in Slots, ServerStep(c) PROVE SInv'
  BY <1>4, IssueStep, FindStep, ReplayStep, CreateStep, ReplaceStep DEF ServerStep
<1>5. ASSUME NEW c \in Slots, Answered(c) \/ Lose(c) \/ FailHandler(c) PROVE SInv'
  BY <1>5, AnswerStep, LoseStep, FailStep
<1>6. CASE LogoutAll \/ ChangePassword \/ ResetPassword
  BY <1>6, RevokeEveryStep DEF LogoutAll, ChangePassword, ResetPassword
<1>7. CASE \E s \in DOMAIN sessions : RevokeSession(s) \/ LogoutEndpoint(s)
  BY <1>7, RevokeOneStep DEF RevokeSession, LogoutEndpoint
<1>8. CASE UNCHANGED vars
  BY <1>8, IdleStep
<1> QED
  BY <1>1, <1>2, <1>3, <1>4, <1>5, <1>6, <1>7, <1>8 DEF Next

-----------------------------------------------------------------------------
(* The results. *)

(* However logins, refreshes, failures and revocations of an account        *)
(* overlap: what the calls hold are sessions of the right family, of every  *)
(* family at most one session can be used again by anybody who has it,     *)
(* and a family that was left alone has one refresh, which goes well.      *)
THEOREM SessionsInvariant == Spec => []SInv
<1>1. Init => SInv
  BY InitSInv
<1>2. SInv /\ [Next]_vars => SInv'
  BY NextSInv
<1> QED
  BY <1>1, <1>2, PTL DEF Spec

(* A refresh token is worth one refresh: of a family, at most one session  *)
(* can still be used, those in the middle of a handler or left by one that *)
(* failed aside (the update of refresh in authController asks for a        *)
(* replacedByTokenId of null).                                             *)
THEOREM OneTokenAtATime == Spec => []OneUsable
<1>1. SInv => OneUsable
  <2> SUFFICES ASSUME SInv,
                      NEW s1 \in DOMAIN sessions, NEW s2 \in DOMAIN sessions,
                      Usable(s1), s1 \notin orphans,
                      \A c \in Slots : calls[c].pc = "created" => calls[c].new # s1,
                      Usable(s2), s2 \notin orphans,
                      \A c \in Slots : calls[c].pc = "created" => calls[c].new # s2,
                      Family(s1) = Family(s2)
               PROVE  s1 = s2
    BY DEF OneUsable
  <2>1. Core /\ SessionsSound
    BY SInvParts
  <2>2. sessions[s1].family = sessions[s2].family
    BY <2>1, FamilyOf DEF Known
  <2>3. Live(s1) /\ Live(s2)
    BY DEF Live, Usable, Held
  <2> QED
    BY <2>1, <2>2, <2>3 DEF SessionsSound, OneLive
<1> QED
  BY <1>1, SessionsInvariant, PTL

(* Nobody is signed out for nothing: a refresh is refused only in a family *)
(* that was revoked, met a fault or was refreshed from two sides, or, with *)
(* no cookie to send, after something like that or in a tab that was out   *)
(* when it asked.                                                          *)
THEOREM RefusalsHaveReasons == Spec => []RefusedForAReason
<1>1. SInv => RefusedForAReason
  BY SInvParts, RefusedIsDisturbed DEF RefusedForAReason, Refreshes
<1> QED
  BY <1>1, SessionsInvariant, PTL

(* The queue of api.ts is never orphaned: a request waits only while a     *)
(* refresh of its tab is under way.                                        *)
THEOREM QueuesHaveALeader == Spec => []NobodyWaitsInVain
<1>1. SInv => NobodyWaitsInVain
  BY DEF SInv, WaitersSound, Waiting, NobodyWaitsInVain
<1> QED
  BY <1>1, SessionsInvariant, PTL
=============================================================================
