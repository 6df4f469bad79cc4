--------------------------- MODULE Access_proofs ----------------------------
(***************************************************************************)
(* Theorems about Access, for any number of people, sessions, requests,    *)
(* administrators and lifetimes.  Sessions: the state is well typed, the   *)
(* reverse index names only sessions its owner logged in for and changes   *)
(* with those alone, what has ended stays ended, and the way back from an  *)
(* impersonation stays open.  Tokens: a stale copy has a cause, and a      *)
(* revoked token is let in for no longer than the lifetime of one copy.    *)
(***************************************************************************)
EXTENDS Access, TLAPS

LEMMA Times == ImpTTL \in Nat \ {0} /\ SessionTTL \in Nat /\ ImpTTL <= SessionTTL
  BY SessionTimes

LEMMA People == Staff \subseteq Users /\ Nobody \notin Users /\ None \notin Sids
  BY SessionNames

SessionType == [owner : Users \cup {Nobody}, by : Users \cup {Nobody}, ttl : 0..SessionTTL]
IndexType   == [sid : Sids \cup {None}, ttl : 0..SessionTTL]
HomeType    == [sid : Sids \cup {None}, ttl : 0..ImpTTL]

(* Past the guard, a request has a session. *)
JobsNamed == \A r \in Requests : job[r].step \notin {"idle", "index"} => job[r].sid \in Sids

LEMMA TypeParts ==
    TypeInv <=> /\ session \in [Sids -> SessionType]
                /\ index \in [Users -> IndexType]
                /\ home \in [Sids -> HomeType]
                /\ job \in [Requests -> Jobs]
  BY DEF TypeInv, SessionType, IndexType, HomeType

(* Updates of the four tables by records that fit. *)
LEMMA SetTTLFits ==
    ASSUME NEW f \in SessionType, NEW n \in 0..SessionTTL
    PROVE  [f EXCEPT !.ttl = n] \in SessionType
  BY DEF SessionType

LEMMA StepFits ==
    ASSUME NEW j \in Jobs, NEW p \in Steps
    PROVE  [j EXCEPT !.step = p] \in Jobs
  BY DEF Jobs

LEMMA StepToFits ==
    ASSUME NEW j \in Jobs, NEW p \in Steps, NEW s \in Sids \cup {None}
    PROVE  [j EXCEPT !.step = p, !.to = s] \in Jobs
  BY DEF Jobs

LEMMA StepSidFits ==
    ASSUME NEW j \in Jobs, NEW p \in Steps, NEW s \in Sids \cup {None}
    PROVE  [j EXCEPT !.step = p, !.sid = s] \in Jobs
  BY DEF Jobs

LEMMA StepTTLFits ==
    ASSUME NEW j \in Jobs, NEW p \in Steps, NEW n \in 0..SessionTTL
    PROVE  [j EXCEPT !.step = p, !.ttl = n] \in Jobs
  BY DEF Jobs

LEMMA IdleFits == Idle \in Jobs
  BY Times DEF Idle, Jobs, Steps

LEMMA GoneFits == Gone \in IndexType /\ Gone \in HomeType
  BY Times DEF Gone, IndexType, HomeType

LEMMA JobFits ==
    ASSUME TypeInv, NEW r \in Requests, NEW j \in Jobs, job' = [job EXCEPT ![r] = j]
    PROVE  job' \in [Requests -> Jobs]
  BY TypeParts

LEMMA GotoFits ==
    ASSUME TypeInv, NEW r \in Requests, NEW p \in Steps, Goto(r, p)
    PROVE  job' \in [Requests -> Jobs]
  <1> DEFINE j == [job[r] EXCEPT !.step = p]
  <1>1. job[r] \in Jobs BY TypeParts
  <1>2. j \in Jobs BY <1>1, StepFits, Zenon
  <1>3. job' = [job EXCEPT ![r] = j] BY DEF Goto
  <1> HIDE DEF j
  <1> QED BY <1>2, <1>3, JobFits

LEMMA FinishFits ==
    ASSUME TypeInv, NEW r \in Requests, Finish(r)
    PROVE  job' \in [Requests -> Jobs]
  BY IdleFits, TypeParts DEF Finish

THEOREM InitTyped == Init => TypeInv
  BY TypeParts, Times, IdleFits, GoneFits DEF Init, SessionType

-----------------------------------------------------------------------------
LEMMA CreateFits ==
    ASSUME TypeInv, NEW s \in Sids, NEW user \in Users, NEW by \in Users \cup {Nobody},
           NEW ttl \in 0..SessionTTL, Create(s, user, by, ttl)
    PROVE  session' \in [Sids -> SessionType]
  BY TypeParts DEF Create, SessionType

LEMMA SlideFits ==
    ASSUME TypeInv, NEW s, Slide(s)
    PROVE  session' \in [Sids -> SessionType]
  <1>1. session \in [Sids -> SessionType] BY TypeParts
  <1>2. ASSUME NEW t \in Sids PROVE session'[t] \in SessionType
    <2> DEFINE n == IF session[t].ttl > 0 THEN SessionTTL ELSE 0
    <2>1. n \in 0..SessionTTL BY Times
    <2>2. session'[t] = session[t] \/ session'[t] = [session[t] EXCEPT !.ttl = n]
      BY <1>1 DEF Slide
    <2> HIDE DEF n
    <2> QED BY <1>1, <2>1, <2>2, SetTTLFits
  <1>3. session' = [t \in Sids |-> session'[t]]
    BY <1>1 DEF Slide
  <1> QED BY <1>2, <1>3

LEMMA ToDestroyFits ==
    ASSUME TypeInv, NEW r \in Requests, NEW s \in Sids \cup {None}, ToDestroy(r, s)
    PROVE  job' \in [Requests -> Jobs]
  <1> DEFINE j == [job[r] EXCEPT !.step = "destroy", !.to = s]
  <1>1. job[r] \in Jobs /\ "destroy" \in Steps BY TypeParts DEF Steps
  <1>2. j \in Jobs BY <1>1, StepToFits, Zenon
  <1>3. job' = [job EXCEPT ![r] = j] BY DEF ToDestroy
  <1> HIDE DEF j
  <1> QED BY <1>2, <1>3, JobFits

-----------------------------------------------------------------------------
(* One lemma for each kind of request. *)
LEMMA LoginTyped ==
    ASSUME TypeInv, NEW r \in Requests, NEW u \in Users, Login(r, u)
    PROVE  TypeInv'
  <1>1. PICK s \in Sids : /\ Create(s, u, Nobody, SessionTTL)
                          /\ job' = [job EXCEPT ![r] = [Idle EXCEPT !.step = "index", !.to = s]]
    BY DEF Login
  <1> DEFINE j == [Idle EXCEPT !.step = "index", !.to = s]
  <1>2. "index" \in Steps BY DEF Steps
  <1>3. j \in Jobs BY <1>2, IdleFits, StepToFits, Zenon
  <1>4. job' = [job EXCEPT ![r] = j] BY <1>1
  <1> HIDE DEF j
  <1>5. job' \in [Requests -> Jobs] BY <1>3, <1>4, JobFits
  <1>6. SessionTTL \in 0..SessionTTL BY Times
  <1>7. session' \in [Sids -> SessionType] BY <1>1, <1>6, CreateFits
  <1> QED BY <1>5, <1>7, TypeParts DEF Login, TypeInv, SessionType

LEMMA SetIndexTyped ==
    ASSUME TypeInv, NEW r \in Requests, SetIndex(r)
    PROVE  TypeInv'
  <1>1. job' \in [Requests -> Jobs] BY FinishFits DEF SetIndex
  <1>2. job[r].to \in Sids \cup {None} BY TypeParts DEF Jobs
  <1>3. [sid |-> job[r].to, ttl |-> SessionTTL] \in IndexType BY <1>2, Times DEF IndexType
  <1>4. index' \in [Users -> IndexType] BY <1>3, TypeParts DEF SetIndex
  <1> QED BY <1>1, <1>4 DEF SetIndex, TypeInv, IndexType

LEMMA RequestTyped ==
    ASSUME TypeInv, NEW r \in Requests, NEW s \in Sids, Request(r, s)
    PROVE  TypeInv'
  <1> DEFINE j == [Idle EXCEPT !.step = "refresh", !.sid = s]
  <1>1. "refresh" \in Steps BY DEF Steps
  <1>2. j \in Jobs BY <1>1, IdleFits, StepSidFits, Zenon
  <1>3. job' = [job EXCEPT ![r] = j] BY DEF Request
  <1> HIDE DEF j
  <1>4. job' \in [Requests -> Jobs] BY <1>2, <1>3, JobFits
  <1> QED BY <1>4 DEF Request, TypeInv

LEMMA GuardTyped ==
    ASSUME TypeInv, NEW r \in Requests, Refresh(r) \/ Answer(r)
    PROVE  TypeInv'
  <1>1. "handle" \in Steps BY DEF Steps
  <1>2. CASE Refresh(r)
    <2>1. session' \in [Sids -> SessionType] BY <1>2, SlideFits DEF Refresh
    <2>2. job' \in [Requests -> Jobs] BY <1>1, <1>2, GotoFits DEF Refresh
    <2> QED BY <1>2, <2>1, <2>2 DEF Refresh, TypeInv, SessionType
  <1>3. CASE Answer(r)
    BY <1>3, FinishFits DEF Answer, TypeInv
  <1> QED BY <1>2, <1>3

(* What a write of a lifetime to one session does. *)
LEMMA LifetimeFits ==
    ASSUME TypeInv, NEW s, NEW n \in 0..SessionTTL, session' = [session EXCEPT ![s].ttl = n]
    PROVE  session' \in [Sids -> SessionType]
  <1>1. session \in [Sids -> SessionType] BY TypeParts
  <1>2. ASSUME NEW t \in Sids PROVE session'[t] \in SessionType
    <2>1. session'[t] = session[t] \/ session'[t] = [session[t] EXCEPT !.ttl = n]
      BY <1>1
    <2> QED BY <1>1, <2>1, SetTTLFits
  <1>3. session' = [t \in Sids |-> session'[t]]
    BY <1>1
  <1> QED BY <1>2, <1>3

LEMMA UpdateTyped ==
    ASSUME TypeInv, JobsNamed, NEW r \in Requests, Switch(r) \/ ReadTTL(r) \/ WriteBack(r)
    PROVE  TypeInv'
  <1>0. job[r] \in Jobs /\ session \in [Sids -> SessionType] BY TypeParts
  <1>1. CASE Switch(r)
    <2>1. "ttl" \in Steps BY DEF Steps
    <2>2. job' \in [Requests -> Jobs] BY <1>1, <2>1, GotoFits DEF Switch
    <2> QED BY <1>1, <2>2 DEF Switch, TypeInv
  <1>2. CASE ReadTTL(r)
    <2> DEFINE n == session[job[r].sid].ttl
               j == [job[r] EXCEPT !.step = "set", !.ttl = n]
    <2>1. "set" \in Steps BY DEF Steps
    <2>2. job[r].sid \in Sids BY <1>2 DEF ReadTTL, JobsNamed
    <2>3. n \in 0..SessionTTL BY <1>0, <2>2 DEF SessionType
    <2> HIDE DEF n
    <2>4. j \in Jobs BY <1>0, <2>1, <2>3, StepTTLFits, Zenon
    <2>5. job' = [job EXCEPT ![r] = j] BY <1>2 DEF ReadTTL, n
    <2> HIDE DEF j
    <2>6. job' \in [Requests -> Jobs] BY <2>4, <2>5, JobFits
    <2> QED BY <1>2, <2>6 DEF ReadTTL, TypeInv
  <1>3. CASE WriteBack(r)
    <2> DEFINE n == IF job[r].ttl > 0 THEN job[r].ttl ELSE SessionTTL
    <2>1. n \in 0..SessionTTL BY <1>0, Times DEF Jobs
    <2>2. session' = [session EXCEPT ![job[r].sid].ttl = n] BY <1>3 DEF WriteBack
    <2> HIDE DEF n
    <2>3. session' \in [Sids -> SessionType] BY <2>1, <2>2, LifetimeFits
    <2>4. job' \in [Requests -> Jobs] BY <1>3, FinishFits DEF WriteBack
    <2> QED BY <1>3, <2>3, <2>4 DEF WriteBack, TypeInv, SessionType
  <1> QED BY <1>1, <1>2, <1>3

LEMMA EndTyped ==
    ASSUME TypeInv, NEW r \in Requests, Logout(r) \/ Destroy(r) \/ Unindex(r) \/ Del(r)
    PROVE  TypeInv'
  <1>0. job[r] \in Jobs BY TypeParts
  <1>1. "unindex" \in Steps /\ "del" \in Steps BY DEF Steps
  <1>2. CASE Logout(r)
    <2>1. job[r].sid \in Sids \cup {None} BY <1>0 DEF Jobs
    <2>2. job' \in [Requests -> Jobs] BY <1>2, <2>1, ToDestroyFits DEF Logout
    <2> QED BY <1>2, <2>2 DEF Logout, TypeInv
  <1>3. CASE Destroy(r)
    <2>1. job' \in [Requests -> Jobs] BY <1>1, <1>3, GotoFits DEF Destroy
    <2> QED BY <1>3, <2>1 DEF Destroy, TypeInv
  <1>4. CASE Unindex(r)
    <2>1. job' \in [Requests -> Jobs] BY <1>1, <1>4, GotoFits DEF Unindex
    <2>2. index' \in [Users -> IndexType] BY <1>4, GoneFits, TypeParts DEF Unindex
    <2> QED BY <1>4, <2>1, <2>2 DEF Unindex, TypeInv, IndexType
  <1>5. CASE Del(r)
    <2>1. 0 \in 0..SessionTTL BY Times
    <2>2. session' \in [Sids -> SessionType] BY <1>5, <2>1, LifetimeFits DEF Del
    <2>3. job' \in [Requests -> Jobs] BY <1>5, FinishFits DEF Del
    <2> QED BY <1>5, <2>2, <2>3 DEF Del, TypeInv, SessionType
  <1> QED BY <1>2, <1>3, <1>4, <1>5

LEMMA KickTyped ==
    ASSUME TypeInv, NEW r \in Requests, NEW u \in Users, Kick(r, u)
    PROVE  TypeInv'
  <1>1. index[u].sid \in Sids \cup {None} BY TypeParts DEF IndexType
  <1>2. job' \in [Requests -> Jobs] BY <1>1, ToDestroyFits, FinishFits DEF Kick
  <1> QED BY <1>2 DEF Kick, TypeInv

LEMMA EnterTyped ==
    ASSUME TypeInv, NEW r \in Requests, NEW u \in Users, Enter(r, u)
    PROVE  TypeInv'
  <1> DEFINE boss == session[job[r].sid].owner
  <1>1. PICK s \in Sids : /\ Create(s, u, boss, ImpTTL)
                          /\ boss \in Staff
                          /\ job' = [job EXCEPT ![r].step = "home", ![r].to = s]
    BY DEF Enter
  <1> DEFINE j == [job[r] EXCEPT !.step = "home", !.to = s]
  <1>2. job[r] \in Jobs /\ "home" \in Steps BY TypeParts DEF Steps
  <1>3. j \in Jobs BY <1>2, StepToFits, Zenon
  <1>4. job' = [job EXCEPT ![r] = j] BY <1>1
  <1> HIDE DEF j
  <1>5. job' \in [Requests -> Jobs] BY <1>3, <1>4, JobFits
  <1>6. ImpTTL \in 0..SessionTTL /\ boss \in Users \cup {Nobody} BY <1>1, Times, People
  <1> HIDE DEF boss
  <1>7. session' \in [Sids -> SessionType] BY <1>1, <1>6, CreateFits
  <1> QED BY <1>5, <1>7 DEF Enter, TypeInv, SessionType

LEMMA HomeTyped ==
    ASSUME TypeInv, NEW r \in Requests,
           SetHome(r) \/ KeepAlive(r) \/ Exit(r) \/ Forget(r)
    PROVE  TypeInv'
  <1>0. job[r] \in Jobs /\ job[r].sid \in Sids \cup {None} BY TypeParts DEF Jobs
  <1>1. "keep" \in Steps /\ "forget" \in Steps BY DEF Steps
  <1>2. CASE SetHome(r)
    <2>1. [sid |-> job[r].sid, ttl |-> ImpTTL] \in HomeType BY <1>0, Times DEF HomeType
    <2>2. home' \in [Sids -> HomeType] BY <1>2, <2>1, TypeParts DEF SetHome
    <2>3. job' \in [Requests -> Jobs] BY <1>1, <1>2, GotoFits DEF SetHome
    <2> QED BY <1>2, <2>2, <2>3 DEF SetHome, TypeInv, HomeType
  <1>3. CASE KeepAlive(r)
    <2>1. session' \in [Sids -> SessionType] BY <1>3, SlideFits DEF KeepAlive
    <2>2. job' \in [Requests -> Jobs] BY <1>3, FinishFits DEF KeepAlive
    <2> QED BY <1>3, <2>1, <2>2 DEF KeepAlive, TypeInv, SessionType
  <1>4. CASE Exit(r)
    <2>1. job' \in [Requests -> Jobs] BY <1>1, <1>4, GotoFits DEF Exit
    <2> QED BY <1>4, <2>1 DEF Exit, TypeInv
  <1>5. CASE Forget(r)
    <2>1. home' \in [Sids -> HomeType] BY <1>5, GoneFits, TypeParts DEF Forget
    <2>2. job' \in [Requests -> Jobs] BY <1>0, <1>5, ToDestroyFits DEF Forget
    <2> QED BY <1>5, <2>1, <2>2 DEF Forget, TypeInv, HomeType
  <1> QED BY <1>2, <1>3, <1>4, <1>5

LEMMA TickTyped ==
    ASSUME TypeInv, Tick
    PROVE  TypeInv'
  <1>0. /\ session \in [Sids -> SessionType] /\ index \in [Users -> IndexType]
        /\ home \in [Sids -> HomeType] /\ job \in [Requests -> Jobs]
    BY TypeParts
  <1>1. ASSUME NEW s \in Sids PROVE [session[s] EXCEPT !.ttl = Less(@)] \in SessionType
    <2>1. Less(session[s].ttl) \in 0..SessionTTL BY <1>0, Times DEF Less, SessionType
    <2> QED BY <1>0, <2>1, SetTTLFits
  <1>2. ASSUME NEW u \in Users PROVE Fade(index[u]) \in IndexType
    <2>1. index[u] \in IndexType BY <1>0
    <2> QED BY <2>1, GoneFits, Times DEF Fade, IndexType
  <1>3. ASSUME NEW s \in Sids PROVE Fade(home[s]) \in HomeType
    <2>1. home[s] \in HomeType BY <1>0
    <2> QED BY <2>1, GoneFits, Times DEF Fade, HomeType
  <1>4. ASSUME NEW r \in Requests
        PROVE  [job[r] EXCEPT !.old = job[r].step # "idle"] \in Jobs
    <2>1. job[r] \in Jobs BY <1>0
    <2>2. \A b \in BOOLEAN : [job[r] EXCEPT !.old = b] \in Jobs BY <2>1 DEF Jobs
    <2>3. (job[r].step # "idle") \in BOOLEAN OBVIOUS
    <2> QED BY <2>2, <2>3, Zenon
  <1>5. session' \in [Sids -> SessionType] BY <1>1 DEF Tick
  <1>6. index' \in [Users -> IndexType] BY <1>2 DEF Tick
  <1>7. home' \in [Sids -> HomeType] BY <1>3 DEF Tick
  <1>8. job' \in [Requests -> Jobs] BY <1>4, Zenon DEF Tick
  <1> QED BY <1>5, <1>6, <1>7, <1>8 DEF TypeInv, SessionType, IndexType, HomeType

-----------------------------------------------------------------------------
(* The session of a request is set by the guard and never changed.          *)
LEMMA NamedMove ==
    ASSUME TypeInv, JobsNamed, NEW r \in Requests, NEW j,
           job' = [job EXCEPT ![r] = j],
           j.step \notin {"idle", "index"} => j.sid \in Sids
    PROVE  JobsNamed'
  BY TypeParts DEF JobsNamed

LEMMA NamedGoto ==
    ASSUME TypeInv, JobsNamed, NEW r \in Requests, job[r].step \notin {"idle", "index"},
           NEW p, Goto(r, p) \/ Finish(r)
    PROVE  JobsNamed'
  <1>1. job[r] \in Jobs /\ job[r].sid \in Sids BY TypeParts DEF JobsNamed
  <1>2. CASE Goto(r, p)
    <2> DEFINE j == [job[r] EXCEPT !.step = p]
    <2>1. j.sid = job[r].sid BY <1>1 DEF Jobs
    <2>2. job' = [job EXCEPT ![r] = j] BY <1>2 DEF Goto
    <2> HIDE DEF j
    <2> QED BY <1>1, <2>1, <2>2, NamedMove
  <1>3. CASE Finish(r)
    BY <1>3, NamedMove DEF Finish, Idle
  <1> QED BY <1>2, <1>3

LEMMA NamedToDestroy ==
    ASSUME TypeInv, JobsNamed, NEW r \in Requests, job[r].step \notin {"idle", "index"},
           NEW s, ToDestroy(r, s)
    PROVE  JobsNamed'
  <1> DEFINE j == [job[r] EXCEPT !.step = "destroy", !.to = s]
  <1>1. job[r] \in Jobs /\ job[r].sid \in Sids BY TypeParts DEF JobsNamed
  <1>2. j.sid = job[r].sid BY <1>1 DEF Jobs
  <1>3. job' = [job EXCEPT ![r] = j] BY DEF ToDestroy
  <1> HIDE DEF j
  <1> QED BY <1>1, <1>2, <1>3, NamedMove

LEMMA NextNamed == TypeInv /\ JobsNamed /\ [Next]_vars => JobsNamed'
  <1> SUFFICES ASSUME TypeInv, JobsNamed, [Next]_vars PROVE JobsNamed' OBVIOUS
  <1>1. ASSUME NEW r \in Requests, SetIndex(r) PROVE JobsNamed'
    BY <1>1, NamedMove DEF SetIndex, Finish, Idle
  <1>2. ASSUME NEW r \in Requests,
               Refresh(r) \/ Answer(r) \/ Switch(r) \/ WriteBack(r) \/ Destroy(r)
               \/ Unindex(r) \/ Del(r) \/ SetHome(r) \/ KeepAlive(r) \/ Exit(r)
        PROVE  JobsNamed'
    <2>1. job[r].step \notin {"idle", "index"} /\ ((\E p : Goto(r, p)) \/ Finish(r))
      BY <1>2 DEF Refresh, Answer, Switch, WriteBack, Destroy, Unindex, Del, SetHome,
                  KeepAlive, Exit
    <2> QED BY <2>1, NamedGoto
  <1>3. ASSUME NEW r \in Requests, Logout(r) \/ Forget(r) PROVE JobsNamed'
    <2>1. job[r].step \notin {"idle", "index"} /\ \E s : ToDestroy(r, s)
      BY <1>3 DEF Logout, Forget
    <2> QED BY <2>1, NamedToDestroy
  <1>4. ASSUME NEW r \in Requests, ReadTTL(r) PROVE JobsNamed'
    <2> DEFINE j == [job[r] EXCEPT !.step = "set", !.ttl = session[job[r].sid].ttl]
    <2>1. job[r] \in Jobs /\ job[r].sid \in Sids BY <1>4, TypeParts DEF JobsNamed, ReadTTL
    <2>2. j.sid = job[r].sid BY <2>1 DEF Jobs
    <2>3. job' = [job EXCEPT ![r] = j] BY <1>4 DEF ReadTTL
    <2> HIDE DEF j
    <2> QED BY <2>1, <2>2, <2>3, NamedMove
  <1>5. ASSUME NEW r \in Requests, NEW u \in Users, Login(r, u) PROVE JobsNamed'
    <2>1. PICK s \in Sids : job' = [job EXCEPT ![r] = [Idle EXCEPT !.step = "index", !.to = s]]
      BY <1>5 DEF Login
    <2> DEFINE j == [Idle EXCEPT !.step = "index", !.to = s]
    <2>2. j.step = "index" BY DEF Idle
    <2>3. job' = [job EXCEPT ![r] = j] BY <2>1
    <2> HIDE DEF j
    <2> QED BY <2>2, <2>3, NamedMove
  <1>6. ASSUME NEW r \in Requests, NEW u \in Users, Kick(r, u) PROVE JobsNamed'
    <2>1. job[r].step \notin {"idle", "index"} /\ (Finish(r) \/ ToDestroy(r, index[u].sid))
      BY <1>6 DEF Kick
    <2> QED BY <2>1, NamedGoto, NamedToDestroy
  <1>7. ASSUME NEW r \in Requests, NEW u \in Users, Enter(r, u) PROVE JobsNamed'
    <2>1. PICK s \in Sids : job' = [job EXCEPT ![r].step = "home", ![r].to = s]
      BY <1>7 DEF Enter
    <2> DEFINE j == [job[r] EXCEPT !.step = "home", !.to = s]
    <2>2. job[r] \in Jobs /\ job[r].sid \in Sids BY <1>7, TypeParts DEF JobsNamed, Enter
    <2>3. j.sid = job[r].sid BY <2>2 DEF Jobs
    <2>4. job' = [job EXCEPT ![r] = j] BY <2>1
    <2> HIDE DEF j
    <2> QED BY <2>2, <2>3, <2>4, NamedMove
  <1>8. ASSUME NEW r \in Requests, NEW s \in Sids, Request(r, s) PROVE JobsNamed'
    <2> DEFINE j == [Idle EXCEPT !.step = "refresh", !.sid = s]
    <2>1. j.sid = s BY DEF Idle
    <2>2. job' = [job EXCEPT ![r] = j] BY <1>8 DEF Request
    <2> HIDE DEF j
    <2> QED BY <2>1, <2>2, NamedMove
  <1>9. CASE Tick
    <2>1. ASSUME NEW r \in Requests PROVE job'[r].step = job[r].step /\ job'[r].sid = job[r].sid
      <3>1. job[r] \in Jobs BY TypeParts
      <3>2. \A b : /\ [job[r] EXCEPT !.old = b].step = job[r].step
                   /\ [job[r] EXCEPT !.old = b].sid = job[r].sid
        BY <3>1 DEF Jobs
      <3>3. job'[r] = [job[r] EXCEPT !.old = job[r].step # "idle"] BY <1>9 DEF Tick
      <3> QED BY <3>2, <3>3, Zenon
    <2> QED BY <2>1 DEF JobsNamed
  <1>10. CASE UNCHANGED vars BY <1>10 DEF vars, JobsNamed
  <1> QED BY <1>1, <1>2, <1>3, <1>4, <1>5, <1>6, <1>7, <1>8, <1>9, <1>10 DEF Next

LEMMA NextTyped == TypeInv /\ JobsNamed /\ [Next]_vars => TypeInv'
  <1> SUFFICES ASSUME TypeInv, JobsNamed, [Next]_vars PROVE TypeInv' OBVIOUS
  <1>1. ASSUME NEW r \in Requests, SetIndex(r) PROVE TypeInv' BY <1>1, SetIndexTyped
  <1>2. ASSUME NEW r \in Requests, Refresh(r) \/ Answer(r) PROVE TypeInv' BY <1>2, GuardTyped
  <1>3. ASSUME NEW r \in Requests, Switch(r) \/ ReadTTL(r) \/ WriteBack(r) PROVE TypeInv'
    BY <1>3, UpdateTyped
  <1>4. ASSUME NEW r \in Requests, Logout(r) \/ Destroy(r) \/ Unindex(r) \/ Del(r)
        PROVE  TypeInv'
    BY <1>4, EndTyped
  <1>5. ASSUME NEW r \in Requests, SetHome(r) \/ KeepAlive(r) \/ Exit(r) \/ Forget(r)
        PROVE  TypeInv'
    BY <1>5, HomeTyped
  <1>6. ASSUME NEW r \in Requests, NEW u \in Users, Login(r, u) \/ Kick(r, u) \/ Enter(r, u)
        PROVE  TypeInv'
    BY <1>6, LoginTyped, KickTyped, EnterTyped
  <1>7. ASSUME NEW r \in Requests, NEW s \in Sids, Request(r, s) PROVE TypeInv'
    BY <1>7, RequestTyped
  <1>8. CASE Tick BY <1>8, TickTyped
  <1>9. CASE UNCHANGED vars BY <1>9 DEF vars, TypeInv
  <1> QED BY <1>1, <1>2, <1>3, <1>4, <1>5, <1>6, <1>7, <1>8, <1>9 DEF Next

(* Every reachable state is well typed: sessions, the reverse index, the    *)
(* ways back and the requests hold what the code puts there, and no key     *)
(* outlives its time-to-live (session.service.ts, impersonate.service.ts).  *)
THEOREM TypeCorrect == Spec => []TypeInv
  <1>1. Init => JobsNamed BY DEF Init, JobsNamed, Idle
  <1> QED BY <1>1, InitTyped, NextTyped, NextNamed, PTL DEF Spec

-----------------------------------------------------------------------------
(* A session is whose it is for good: once made, no step changes its owner  *)
(* or who made it.                                                          *)
OwnersStay == \A s \in Sids : session[s].owner # Nobody =>
    session'[s].owner = session[s].owner /\ session'[s].by = session[s].by

LEMMA CreateKeepsOwners ==
    ASSUME TypeInv, NEW s \in Sids, NEW user, NEW by, NEW ttl, Create(s, user, by, ttl)
    PROVE  OwnersStay
  BY TypeParts DEF Create, OwnersStay

LEMMA LifetimeKeepsOwners ==
    ASSUME TypeInv, NEW s, NEW n, session' = [session EXCEPT ![s].ttl = n]
    PROVE  OwnersStay
  <1> SUFFICES ASSUME NEW t \in Sids
               PROVE  session'[t].owner = session[t].owner /\ session'[t].by = session[t].by
    BY DEF OwnersStay
  <1>1. session \in [Sids -> SessionType] /\ session[t] \in SessionType BY TypeParts
  <1>2. session'[t] = session[t] \/ session'[t] = [session[t] EXCEPT !.ttl = n]
    BY <1>1
  <1> QED BY <1>1, <1>2 DEF SessionType

LEMMA SlideKeepsOwners ==
    ASSUME TypeInv, NEW s, Slide(s)
    PROVE  OwnersStay
  <1> SUFFICES ASSUME NEW t \in Sids
               PROVE  session'[t].owner = session[t].owner /\ session'[t].by = session[t].by
    BY DEF OwnersStay
  <1> DEFINE n == IF session[t].ttl > 0 THEN SessionTTL ELSE 0
  <1>1. session \in [Sids -> SessionType] /\ session[t] \in SessionType BY TypeParts
  <1>2. session'[t] = session[t] \/ session'[t] = [session[t] EXCEPT !.ttl = n]
    BY <1>1 DEF Slide
  <1> HIDE DEF n
  <1> QED BY <1>1, <1>2 DEF SessionType

LEMMA TickKeepsOwners ==
    ASSUME TypeInv, Tick
    PROVE  OwnersStay
  <1> SUFFICES ASSUME NEW t \in Sids
               PROVE  session'[t].owner = session[t].owner /\ session'[t].by = session[t].by
    BY DEF OwnersStay
  <1> DEFINE n == Less(session[t].ttl)
  <1>1. session[t] \in SessionType BY TypeParts
  <1>2. session'[t] = [session[t] EXCEPT !.ttl = n] BY DEF Tick
  <1> HIDE DEF n
  <1> QED BY <1>1, <1>2 DEF SessionType

LEMMA NextKeepsOwners == TypeInv /\ [Next]_vars => OwnersStay
  <1> SUFFICES ASSUME TypeInv, [Next]_vars PROVE OwnersStay OBVIOUS
  <1>1. ASSUME session' = session PROVE OwnersStay BY <1>1 DEF OwnersStay
  <1>2. ASSUME NEW r \in Requests,
               \/ SetIndex(r) \/ Answer(r) \/ Switch(r) \/ ReadTTL(r) \/ Logout(r) \/ Destroy(r)
               \/ Unindex(r) \/ SetHome(r) \/ Exit(r) \/ Forget(r)
        PROVE  OwnersStay
    BY <1>1, <1>2 DEF SetIndex, Answer, Switch, ReadTTL, Logout, Destroy, Unindex, SetHome,
                      Exit, Forget
  <1>3. ASSUME NEW r \in Requests, Refresh(r) \/ KeepAlive(r) PROVE OwnersStay
    BY <1>3, SlideKeepsOwners DEF Refresh, KeepAlive
  <1>4. ASSUME NEW r \in Requests, WriteBack(r) \/ Del(r) PROVE OwnersStay
    <2>1. \E s, n : session' = [session EXCEPT ![s].ttl = n] BY <1>4 DEF WriteBack, Del
    <2> QED BY <2>1, LifetimeKeepsOwners
  <1>5. ASSUME NEW r \in Requests, NEW u \in Users, Login(r, u) \/ Enter(r, u)
        PROVE  OwnersStay
    <2>1. \E s \in Sids : \E by, ttl : Create(s, u, by, ttl) BY <1>5 DEF Login, Enter
    <2> QED BY <2>1, CreateKeepsOwners
  <1>6. ASSUME NEW r \in Requests, NEW u \in Users, Kick(r, u) PROVE OwnersStay
    BY <1>1, <1>6 DEF Kick
  <1>7. ASSUME NEW r \in Requests, NEW s \in Sids, Request(r, s) PROVE OwnersStay
    BY <1>1, <1>7 DEF Request
  <1>8. CASE Tick BY <1>8, TickKeepsOwners
  <1>9. CASE UNCHANGED vars BY <1>1, <1>9 DEF vars
  <1> QED BY <1>2, <1>3, <1>4, <1>5, <1>6, <1>7, <1>8, <1>9 DEF Next

-----------------------------------------------------------------------------
(* The invariant behind IndexIsOwn: the index, and a login about to write   *)
(* it, name only sessions that their owner logged in for.                   *)
LoggedIn(s) == s \in Sids /\ session[s].owner \in Users /\ Own(s)

LoginsAreOwn == \A r \in Requests : job[r].step = "index" => LoggedIn(job[r].to)

IndexIsLogin == \A u \in Users :
    index[u].ttl > 0 => LoggedIn(index[u].sid) /\ session[index[u].sid].owner = u

(* The same of the state a step leads to. *)
StaysLoggedIn(s) == s \in Sids /\ session'[s].owner \in Users /\ session'[s].by = Nobody

LEMMA LoggedInStays ==
    ASSUME OwnersStay, NEW s, LoggedIn(s)
    PROVE  StaysLoggedIn(s) /\ session'[s].owner = session[s].owner
  BY People DEF OwnersStay, LoggedIn, StaysLoggedIn, Own

LEMMA LoginsKept ==
    ASSUME OwnersStay, LoginsAreOwn, NEW r \in Requests,
           job'[r].step = "index" => job[r].step = "index" /\ job'[r].to = job[r].to
    PROVE  job'[r].step = "index" => StaysLoggedIn(job'[r].to)
  <1> SUFFICES ASSUME job'[r].step = "index" PROVE StaysLoggedIn(job'[r].to) OBVIOUS
  <1>1. LoggedIn(job[r].to) BY DEF LoginsAreOwn
  <1>2. job'[r].to = job[r].to OBVIOUS
  <1> QED BY <1>1, <1>2, LoggedInStays

(* No step but a login leads to the writing of the index. *)
LEMMA OthersKeepLogins ==
    ASSUME TypeInv, [Next]_vars, ~ \E r \in Requests, u \in Users : Login(r, u),
           NEW r \in Requests, job'[r].step = "index"
    PROVE  job[r].step = "index" /\ job'[r].to = job[r].to
  <1>0. job \in [Requests -> Jobs] BY TypeParts
  <1>1. ASSUME NEW q \in Requests, NEW p, p # "index", Goto(q, p) \/ Finish(q)
        PROVE  job[r].step = "index" /\ job'[r].to = job[r].to
    BY <1>0, <1>1 DEF Goto, Finish, Idle, Jobs
  <1>2. ASSUME NEW q \in Requests, NEW s, ToDestroy(q, s)
        PROVE  job[r].step = "index" /\ job'[r].to = job[r].to
    BY <1>0, <1>2 DEF ToDestroy, Jobs
  <1>3. ASSUME NEW q \in Requests,
               \/ SetIndex(q) \/ Refresh(q) \/ Answer(q) \/ Switch(q) \/ WriteBack(q) \/ Destroy(q)
               \/ Unindex(q) \/ Del(q) \/ SetHome(q) \/ KeepAlive(q) \/ Exit(q)
        PROVE  job[r].step = "index" /\ job'[r].to = job[r].to
    <2>1. (\E p : p # "index" /\ Goto(q, p)) \/ Finish(q)
      BY <1>3 DEF SetIndex, Refresh, Answer, Switch, WriteBack, Destroy, Unindex, Del, SetHome,
                  KeepAlive, Exit
    <2> QED BY <1>1, <2>1
  <1>4. ASSUME NEW q \in Requests, Logout(q) \/ Forget(q)
        PROVE  job[r].step = "index" /\ job'[r].to = job[r].to
    BY <1>2, <1>4 DEF Logout, Forget
  <1>5. ASSUME NEW q \in Requests, ReadTTL(q)
        PROVE  job[r].step = "index" /\ job'[r].to = job[r].to
    <2> DEFINE n == session[job[q].sid].ttl
               j == [job[q] EXCEPT !.step = "set", !.ttl = n]
    <2>1. job' = [job EXCEPT ![q] = j] BY <1>5 DEF ReadTTL
    <2>2. j.step = "set" BY <1>0 DEF Jobs
    <2> HIDE DEF j
    <2>3. job'[q] = j /\ (r # q => job'[r] = job[r]) BY <1>0, <2>1
    <2> QED BY <2>2, <2>3
  <1>6. ASSUME NEW q \in Requests, NEW u \in Users, Kick(q, u)
        PROVE  job[r].step = "index" /\ job'[r].to = job[r].to
    <2>1. Finish(q) \/ ToDestroy(q, index[u].sid) BY <1>6 DEF Kick
    <2>2. "idle" # "index" OBVIOUS
    <2> QED BY <1>1, <1>2, <2>1, <2>2
  <1>7. ASSUME NEW q \in Requests, NEW u \in Users, Enter(q, u)
        PROVE  job[r].step = "index" /\ job'[r].to = job[r].to
    <2>1. PICK s \in Sids : job' = [job EXCEPT ![q].step = "home", ![q].to = s]
      BY <1>7 DEF Enter
    <2> QED BY <1>0, <2>1 DEF Jobs
  <1>8. ASSUME NEW q \in Requests, NEW s \in Sids, Request(q, s)
        PROVE  job[r].step = "index" /\ job'[r].to = job[r].to
    BY <1>0, <1>8 DEF Request, Idle
  <1>9. CASE Tick
    <2>1. job[r] \in Jobs BY <1>0
    <2>2. \A b : /\ [job[r] EXCEPT !.old = b].step = job[r].step
                 /\ [job[r] EXCEPT !.old = b].to = job[r].to
      BY <2>1 DEF Jobs
    <2>3. job'[r] = [job[r] EXCEPT !.old = job[r].step # "idle"] BY <1>9 DEF Tick
    <2>4. job'[r].step = job[r].step /\ job'[r].to = job[r].to BY <2>2, <2>3, Zenon
    <2> QED BY <2>4
  <1>10. CASE UNCHANGED vars BY <1>10 DEF vars
  <1> QED BY <1>3, <1>4, <1>5, <1>6, <1>7, <1>8, <1>9, <1>10 DEF Next

LEMMA LoginsStay == TypeInv /\ [Next]_vars /\ LoginsAreOwn => LoginsAreOwn'
  <1> SUFFICES ASSUME TypeInv, [Next]_vars, LoginsAreOwn PROVE LoginsAreOwn' OBVIOUS
  <1>1. OwnersStay BY NextKeepsOwners
  <1>2. CASE ~ \E r \in Requests, u \in Users : Login(r, u)
    BY <1>1, <1>2, OthersKeepLogins, LoginsKept DEF LoginsAreOwn, LoggedIn, StaysLoggedIn, Own
  <1>3. ASSUME NEW q \in Requests, NEW u \in Users, Login(q, u) PROVE LoginsAreOwn'
    <2>0. session \in [Sids -> SessionType] /\ job \in [Requests -> Jobs] BY TypeParts
    <2>1. PICK s \in Sids : /\ Create(s, u, Nobody, SessionTTL)
                            /\ job' = [job EXCEPT ![q] = [Idle EXCEPT !.step = "index", !.to = s]]
      BY <1>3 DEF Login
    <2>2. session'[s].owner = u /\ session'[s].by = Nobody BY <2>0, <2>1 DEF Create
    <2>3. job'[q].to = s BY <2>0, <2>1 DEF Idle
    <2>4. StaysLoggedIn(job'[q].to) BY <2>2, <2>3 DEF StaysLoggedIn
    <2>5. ASSUME NEW r \in Requests, r # q PROVE job'[r].step = "index" => StaysLoggedIn(job'[r].to)
      <3>1. job'[r] = job[r] BY <2>0, <2>1, <2>5
      <3> QED BY <1>1, <3>1, LoginsKept
    <2> QED BY <2>4, <2>5 DEF LoginsAreOwn, LoggedIn, StaysLoggedIn, Own
  <1> QED BY <1>2, <1>3

-----------------------------------------------------------------------------
(* What each write of the index leaves in it. *)
LEMMA EntryKept ==
    ASSUME OwnersStay, IndexIsLogin, NEW u \in Users,
           index'[u].ttl > 0 => index[u].ttl > 0 /\ index'[u].sid = index[u].sid
    PROVE  index'[u].ttl > 0 => StaysLoggedIn(index'[u].sid) /\ session'[index'[u].sid].owner = u
  <1> SUFFICES ASSUME index'[u].ttl > 0
               PROVE  StaysLoggedIn(index'[u].sid) /\ session'[index'[u].sid].owner = u
    OBVIOUS
  <1>1. LoggedIn(index[u].sid) /\ session[index[u].sid].owner = u BY DEF IndexIsLogin
  <1> QED BY <1>1, LoggedInStays

LEMMA FadeKeeps ==
    ASSUME NEW key \in IndexType, Fade(key).ttl > 0
    PROVE  key.ttl > 0 /\ Fade(key).sid = key.sid
  BY Times DEF Fade, Gone, IndexType

LEMMA IndexStays == TypeInv /\ [Next]_vars /\ LoginsAreOwn /\ IndexIsLogin => IndexIsLogin'
  <1> SUFFICES ASSUME TypeInv, [Next]_vars, LoginsAreOwn, IndexIsLogin PROVE IndexIsLogin'
    OBVIOUS
  <1>0. index \in [Users -> IndexType] BY TypeParts
  <1>1. OwnersStay BY NextKeepsOwners
  <1>2. ASSUME index' = index PROVE IndexIsLogin'
    BY <1>1, <1>2, EntryKept DEF IndexIsLogin, LoggedIn, StaysLoggedIn, Own
  <1>3. ASSUME NEW r \in Requests, SetIndex(r) PROVE IndexIsLogin'
    <2> DEFINE s == job[r].to
    <2>1. LoggedIn(s) BY <1>3 DEF SetIndex, LoginsAreOwn
    <2>2. index' = [index EXCEPT ![session[s].owner] = [sid |-> s, ttl |-> SessionTTL]]
          /\ session' = session
      BY <1>3 DEF SetIndex
    <2> HIDE DEF s
    <2>3. ASSUME NEW u \in Users
          PROVE  index'[u].ttl > 0 => StaysLoggedIn(index'[u].sid) /\ session'[index'[u].sid].owner = u
      <3>1. CASE u = session[s].owner
        <4>1. index'[u].sid = s BY <1>0, <2>2, <3>1
        <4> QED BY <2>1, <2>2, <3>1, <4>1 DEF LoggedIn, StaysLoggedIn, Own
      <3>2. CASE u # session[s].owner
        <4>1. index'[u] = index[u] BY <1>0, <2>2, <3>2
        <4> QED BY <1>1, <4>1, EntryKept
      <3> QED BY <3>1, <3>2
    <2> QED BY <2>3 DEF IndexIsLogin, LoggedIn, StaysLoggedIn, Own
  <1>4. ASSUME NEW r \in Requests, Unindex(r) PROVE IndexIsLogin'
    <2>1. ASSUME NEW u \in Users, index'[u].ttl > 0 PROVE index'[u] = index[u]
      BY <1>0, <1>4, <2>1 DEF Unindex, Gone
    <2> QED BY <1>1, <2>1, EntryKept DEF IndexIsLogin, LoggedIn, StaysLoggedIn, Own
  <1>5. CASE Tick
    <2>1. ASSUME NEW u \in Users, index'[u].ttl > 0
          PROVE  index[u].ttl > 0 /\ index'[u].sid = index[u].sid
      <3>1. index'[u] = Fade(index[u]) BY <1>5 DEF Tick
      <3> QED BY <1>0, <2>1, <3>1, FadeKeeps
    <2> QED BY <1>1, <2>1, EntryKept DEF IndexIsLogin, LoggedIn, StaysLoggedIn, Own
  <1>6. ASSUME NEW r \in Requests,
               \/ Refresh(r) \/ Answer(r) \/ Switch(r) \/ ReadTTL(r) \/ WriteBack(r) \/ Logout(r)
               \/ Destroy(r) \/ Del(r) \/ SetHome(r) \/ KeepAlive(r) \/ Exit(r) \/ Forget(r)
        PROVE  IndexIsLogin'
    BY <1>2, <1>6 DEF Refresh, Answer, Switch, ReadTTL, WriteBack, Logout, Destroy, Del, SetHome,
                      KeepAlive, Exit, Forget
  <1>7. ASSUME NEW r \in Requests, NEW u \in Users, Login(r, u) \/ Kick(r, u) \/ Enter(r, u)
        PROVE  IndexIsLogin'
    BY <1>2, <1>7 DEF Login, Kick, Enter
  <1>8. ASSUME NEW r \in Requests, NEW s \in Sids, Request(r, s) PROVE IndexIsLogin'
    BY <1>2, <1>8 DEF Request
  <1>9. CASE UNCHANGED vars BY <1>2, <1>9 DEF vars
  <1> QED BY <1>3, <1>4, <1>5, <1>6, <1>7, <1>8, <1>9 DEF Next

(* Forcing a person out ends a session that person logged in for, never     *)
(* what somebody else does in that person's name: the reverse index names   *)
(* no other session (session.service.ts, create: indexByOpenid).            *)
THEOREM IndexIsOwn == Spec => []IndexNamesOwnSession
  <1>1. Init => LoginsAreOwn /\ IndexIsLogin
    BY DEF Init, LoginsAreOwn, IndexIsLogin, Idle, Gone
  <1>2. IndexIsLogin => IndexNamesOwnSession
    BY DEF IndexIsLogin, LoggedIn, IndexNamesOwnSession
  <1> QED BY <1>1, <1>2, TypeCorrect, LoginsStay, IndexStays, PTL DEF Spec

-----------------------------------------------------------------------------
(* What a step leaves of the job of one request; the others stay.           *)
Rest(r) == \A q \in Requests \ {r} : job'[q] = job[q]

LEMMA JobsAreRecords ==
    ASSUME TypeInv, NEW r \in Requests
    PROVE  job \in [Requests -> Jobs] /\ job[r] \in Jobs
  BY TypeParts

LEMMA AfterGoto ==
    ASSUME TypeInv, NEW r \in Requests, NEW p, Goto(r, p)
    PROVE  /\ Rest(r)
           /\ job'[r].step = p /\ job'[r].sid = job[r].sid /\ job'[r].to = job[r].to
           /\ job'[r].old = job[r].old
  BY JobsAreRecords DEF Goto, Rest, Jobs

LEMMA AfterFinish ==
    ASSUME TypeInv, NEW r \in Requests, Finish(r)
    PROVE  Rest(r) /\ job'[r].step = "idle"
  BY JobsAreRecords DEF Finish, Rest, Idle

LEMMA AfterToDestroy ==
    ASSUME TypeInv, NEW r \in Requests, NEW s, ToDestroy(r, s)
    PROVE  Rest(r) /\ job'[r].step = "destroy" /\ job'[r].sid = job[r].sid /\ job'[r].to = s
  BY JobsAreRecords DEF ToDestroy, Rest, Jobs

LEMMA AfterTick ==
    ASSUME TypeInv, Tick, NEW r \in Requests
    PROVE  /\ job'[r].step = job[r].step /\ job'[r].sid = job[r].sid /\ job'[r].to = job[r].to
           /\ job'[r].old <=> job[r].step # "idle"
  <1>1. job[r] \in Jobs BY TypeParts
  <1>2. \A b : LET j == [job[r] EXCEPT !.old = b]
               IN  j.step = job[r].step /\ j.sid = job[r].sid /\ j.to = job[r].to /\ j.old = b
    BY <1>1 DEF Jobs
  <1>3. job'[r] = [job[r] EXCEPT !.old = job[r].step # "idle"] BY DEF Tick
  <1> QED BY <1>2, <1>3, Zenon

-----------------------------------------------------------------------------
(* What a write leaves of the lifetime of a session. *)
LEMMA SessionIsRecord ==
    ASSUME TypeInv, NEW s \in Sids
    PROVE  /\ session \in [Sids -> SessionType]
           /\ session[s].ttl \in 0..SessionTTL /\ session[s].owner \in Users \cup {Nobody}
  BY TypeParts DEF SessionType

LEMMA LifetimeSet ==
    ASSUME TypeInv, NEW s, NEW n, session' = [session EXCEPT ![s].ttl = n], NEW t \in Sids
    PROVE  IF t = s THEN session'[t].ttl = n ELSE session'[t] = session[t]
  BY TypeParts DEF SessionType

LEMMA LifetimeSlid ==
    ASSUME TypeInv, NEW s, Slide(s), NEW t \in Sids
    PROVE  \/ session'[t] = session[t] /\ t # s
           \/ t = s /\ ~ Alive(t) /\ session'[t].ttl = 0
           \/ t = s /\ Alive(t) /\ session'[t].ttl = SessionTTL
  <1>1. session \in [Sids -> SessionType] /\ session[t] \in SessionType BY TypeParts
  <1>2. CASE t # s BY <1>1, <1>2 DEF Slide
  <1>3. CASE t = s
    <2> DEFINE n == IF session[t].ttl > 0 THEN SessionTTL ELSE 0
    <2>1. session'[t] = [session[t] EXCEPT !.ttl = n] BY <1>1, <1>3 DEF Slide
    <2> HIDE DEF n
    <2>2. session'[t].ttl = n BY <1>1, <2>1 DEF SessionType
    <2> QED BY <1>3, <2>2 DEF n, Alive
  <1> QED BY <1>2, <1>3

LEMMA LifetimeTicks ==
    ASSUME TypeInv, Tick, NEW t \in Sids
    PROVE  session'[t].ttl = Less(session[t].ttl)
  <1> DEFINE n == Less(session[t].ttl)
  <1>1. session[t] \in SessionType BY TypeParts
  <1>2. session'[t] = [session[t] EXCEPT !.ttl = n] BY DEF Tick
  <1> HIDE DEF n
  <1>3. session'[t].ttl = n BY <1>1, <1>2 DEF SessionType
  <1> QED BY <1>3 DEF n

(* What a step other than a tick may do to a session. *)
Made(t)    == session[t].owner = Nobody /\ session'[t].owner # Nobody
Slid(t)    == Alive(t) /\ session'[t].ttl = SessionTTL
Deleted(t) == session'[t].ttl = 0 /\ \E r \in Requests : job[r].step = "del" /\ job[r].to = t
Revived(t) == session'[t].ttl > 0 /\ \E r \in Requests : job[r].step = "set" /\ job[r].sid = t

SameLife(t) == session'[t].ttl = session[t].ttl

LEMMA LifeOf ==
    ASSUME TypeInv, [Next]_vars, ~ Tick, NEW t \in Sids
    PROVE  SameLife(t) \/ Made(t) \/ Slid(t) \/ Deleted(t) \/ Revived(t)
  <1>0. session[t].ttl \in 0..SessionTTL /\ session \in [Sids -> SessionType] BY SessionIsRecord
  <1>1. ASSUME session' = session PROVE SameLife(t) BY <1>1 DEF SameLife
  <1>2. ASSUME NEW r \in Requests,
               \/ SetIndex(r) \/ Answer(r) \/ Switch(r) \/ ReadTTL(r) \/ Logout(r) \/ Destroy(r)
               \/ Unindex(r) \/ SetHome(r) \/ Exit(r) \/ Forget(r)
        PROVE  SameLife(t)
    BY <1>1, <1>2 DEF SetIndex, Answer, Switch, ReadTTL, Logout, Destroy, Unindex, SetHome,
                      Exit, Forget
  <1>3. ASSUME NEW r \in Requests, Refresh(r) \/ KeepAlive(r) PROVE SameLife(t) \/ Slid(t)
    <2>1. Slide(job[r].sid) BY <1>3 DEF Refresh, KeepAlive
    <2> QED BY <1>0, <2>1, LifetimeSlid DEF SameLife, Slid, Alive
  <1>4. ASSUME NEW r \in Requests, WriteBack(r) PROVE SameLife(t) \/ Revived(t)
    <2> DEFINE n == IF job[r].ttl > 0 THEN job[r].ttl ELSE SessionTTL
    <2>1. n > 0
      <3>1. job[r].ttl \in 0..SessionTTL BY JobsAreRecords DEF Jobs
      <3> QED BY <3>1, Times
    <2>2. session' = [session EXCEPT ![job[r].sid].ttl = n] /\ job[r].step = "set"
      BY <1>4 DEF WriteBack
    <2> HIDE DEF n
    <2> QED BY <2>1, <2>2, LifetimeSet DEF SameLife, Revived
  <1>5. ASSUME NEW r \in Requests, Del(r) PROVE SameLife(t) \/ Deleted(t)
    BY <1>5, LifetimeSet DEF Del, SameLife, Deleted
  <1>6. ASSUME NEW r \in Requests, NEW u \in Users, Login(r, u) \/ Enter(r, u)
        PROVE  SameLife(t) \/ Made(t)
    <2>1. PICK s \in Sids : \E by, n : Create(s, u, by, n) BY <1>6 DEF Login, Enter
    <2> QED BY <1>0, <2>1, People DEF Create, SameLife, Made
  <1>7. ASSUME NEW r \in Requests, NEW u \in Users, Kick(r, u) PROVE SameLife(t)
    BY <1>1, <1>7 DEF Kick
  <1>8. ASSUME NEW r \in Requests, NEW s \in Sids, Request(r, s) PROVE SameLife(t)
    BY <1>1, <1>8 DEF Request
  <1>9. CASE UNCHANGED vars BY <1>1, <1>9 DEF vars
  <1> QED BY <1>2, <1>3, <1>4, <1>5, <1>6, <1>7, <1>8, <1>9 DEF Next

(* What has ended stays ended: no step but the writing back of update gives *)
(* life to a session that had lost it (session.service.ts, refresh: EXPIRE).*)
LEMMA StepRevivesNothing ==
    ASSUME TypeInv, [Next]_vars, NEW s \in Sids, Issued(s), ~ Alive(s), session'[s].ttl > 0
    PROVE  \E r \in Requests : job[r].step = "set" /\ job[r].sid = s
  <1>0. session[s].ttl \in 0..SessionTTL /\ session[s].owner # Nobody
    BY SessionIsRecord DEF Issued
  <1>1. CASE Tick
    BY <1>0, <1>1, LifetimeTicks DEF Less, Alive
  <1>2. CASE ~ Tick
    BY <1>0, <1>2, LifeOf DEF SameLife, Made, Slid, Deleted, Revived, Alive
  <1> QED BY <1>1, <1>2

-----------------------------------------------------------------------------
(* What a request knows of the session it works on.  Somebody has it; it is *)
(* not a staff member's when it is about to be written back, and is when it *)
(* is about to be gone back to; and the guard slid it when the request came,*)
(* so that it has its full life but for the tick the request may straddle.  *)
JobSound(r) ==
    /\ job[r].step \notin {"idle", "index"} => session[job[r].sid].owner # Nobody
    /\ job[r].step \in {"ttl", "set"} => session[job[r].sid].owner \notin Staff
    /\ job[r].step \in {"home", "keep"} => session[job[r].sid].owner \in Staff
    /\ job[r].step \in {"handle", "home", "keep"} =>
         \/ session[job[r].sid].owner \notin Staff
         \/ ~ Alive(job[r].sid)
         \/ session[job[r].sid].ttl >= SessionTTL
         \/ job[r].old /\ session[job[r].sid].ttl >= SessionTTL - 1
    /\ job[r].step \in {"destroy", "unindex", "del"} => job[r].to \in Sids
    /\ job[r].step = "unindex" => session[job[r].to].owner # Nobody /\ Own(job[r].to)

JobsSound == \A r \in Requests : JobSound(r)

LiveIsSomebodys == \A s \in Sids : Alive(s) => session[s].owner # Nobody

(* A way back leads to a session of the staff that outlives it, unless that *)
(* session has ended, or a request past its tick is about to slide it.      *)
Reach(s) ==
    home[s].ttl > 0 =>
      /\ home[s].sid \in Sids /\ session[home[s].sid].owner \in Staff
      /\ \/ ~ Alive(home[s].sid)
         \/ session[home[s].sid].ttl >= home[s].ttl
         \/ \E r \in Requests : job[r].step = "keep" /\ job[r].old /\ job[r].sid = home[s].sid

WaysBack == \A s \in Sids : Reach(s)

SessionInv ==
    /\ TypeInv /\ JobsNamed /\ LoginsAreOwn /\ IndexIsLogin
    /\ JobsSound /\ LiveIsSomebodys /\ WaysBack

(* The life of a staff member's session is cut by Del alone, and never put  *)
(* below what it was otherwise.                                             *)
Calm == \A s \in Sids : session[s].owner \in Staff =>
    SameLife(s) \/ Slid(s) \/ Deleted(s)

LEMMA StepIsCalm == ASSUME TypeInv, JobsSound, [Next]_vars, ~ Tick PROVE Calm
  <1> SUFFICES ASSUME NEW s \in Sids, session[s].owner \in Staff
               PROVE  SameLife(s) \/ Slid(s) \/ Deleted(s)
    BY DEF Calm
  <1>1. ~ Made(s) BY People DEF Made
  <1>2. ~ Revived(s) BY DEF Revived, JobsSound, JobSound
  <1> QED BY <1>1, <1>2, LifeOf

LEMMA LifeGoesOn ==
    ASSUME TypeInv, JobsNamed, JobsSound, LiveIsSomebodys, [Next]_vars
    PROVE  LiveIsSomebodys'
  <1> SUFFICES ASSUME NEW s \in Sids, session'[s].ttl > 0 PROVE session'[s].owner # Nobody
    BY DEF LiveIsSomebodys, Alive
  <1>0. session[s].ttl \in 0..SessionTTL BY SessionIsRecord
  <1>1. OwnersStay BY NextKeepsOwners
  <1>2. ASSUME session[s].owner # Nobody PROVE session'[s].owner # Nobody
    BY <1>1, <1>2 DEF OwnersStay
  <1>3. CASE Tick
    BY <1>0, <1>2, <1>3, LifetimeTicks DEF Less, LiveIsSomebodys, Alive
  <1>4. CASE ~ Tick
    <2>1. ASSUME Revived(s) PROVE session[s].owner # Nobody
      BY <2>1 DEF Revived, JobsSound, JobSound
    <2> QED BY <1>0, <1>2, <1>4, <2>1, LifeOf
            DEF SameLife, Made, Slid, Deleted, LiveIsSomebodys, Alive
  <1> QED BY <1>3, <1>4

(* A request that does not move knows what it knew. *)
LEMMA SoundStays ==
    ASSUME TypeInv, JobsNamed, Calm, OwnersStay, NEW r \in Requests, JobSound(r),
           job'[r] = job[r]
    PROVE  JobSound(r)'
  <1> DEFINE s == job[r].sid
  <1>1. ASSUME job[r].step \notin {"idle", "index"}
        PROVE  /\ s \in Sids /\ session[s].owner # Nobody
               /\ session'[s].owner = session[s].owner
    BY <1>1 DEF JobsNamed, JobSound, OwnersStay
  <1>2. ASSUME job[r].step \in {"handle", "home", "keep"}, session[s].owner \in Staff,
               session'[s].ttl > 0
        PROVE  session'[s].ttl >= SessionTTL \/ (job[r].old /\ session'[s].ttl >= SessionTTL - 1)
    <2>0. s \in Sids /\ session[s].ttl \in 0..SessionTTL BY <1>1, <1>2, SessionIsRecord
    <2>1. CASE SameLife(s)
      BY <1>2, <2>0, <2>1 DEF SameLife, JobSound, Alive
    <2>2. CASE Slid(s)
      BY <2>2, Times DEF Slid
    <2>3. CASE Deleted(s)
      BY <1>2, <2>3 DEF Deleted
    <2> QED BY <1>2, <2>0, <2>1, <2>2, <2>3 DEF Calm
  <1>3. ASSUME job[r].step = "unindex"
        PROVE  session'[job[r].to].owner # Nobody /\ session'[job[r].to].by = Nobody
    BY <1>3 DEF JobSound, OwnersStay, Own
  <1> QED BY <1>1, <1>2, <1>3 DEF JobSound, Alive, Own

LEMMA OneMovesSound ==
    ASSUME TypeInv, JobsNamed, JobsSound, Calm, OwnersStay, NEW r \in Requests, Rest(r),
           JobSound(r)'
    PROVE  JobsSound'
  <1> SUFFICES ASSUME NEW q \in Requests PROVE JobSound(q)' BY DEF JobsSound
  <1>1. CASE q = r BY <1>1
  <1>2. CASE q # r
    <2>1. job'[q] = job[q] /\ JobSound(q) BY <1>2 DEF Rest, JobsSound
    <2> QED BY <2>1, SoundStays
  <1> QED BY <1>1, <1>2

(* A request that is over, or that has just logged in, claims nothing. *)
LEMMA IdleIsSound ==
    ASSUME NEW r \in Requests, job'[r].step \in {"idle", "index"}
    PROVE  JobSound(r)'
  BY DEF JobSound

LEMMA SoundAfterRequest ==
    ASSUME SessionInv, NEW r \in Requests, NEW s \in Sids, Request(r, s)
    PROVE  Rest(r) /\ JobSound(r)'
  <1> DEFINE j == [Idle EXCEPT !.step = "refresh", !.sid = s]
  <1>1. j.step = "refresh" /\ j.sid = s BY DEF Idle
  <1>2. job' = [job EXCEPT ![r] = j] /\ session' = session /\ session[s].owner # Nobody
    BY DEF Request, Issued
  <1> HIDE DEF j
  <1>3. Rest(r) /\ job'[r] = j BY <1>2, JobsAreRecords DEF SessionInv, Rest
  <1> QED BY <1>1, <1>2, <1>3 DEF JobSound

LEMMA SoundAfterRefresh ==
    ASSUME SessionInv, OwnersStay, NEW r \in Requests, Refresh(r)
    PROVE  Rest(r) /\ JobSound(r)'
  <1> DEFINE s == job[r].sid
  <1>1. /\ Rest(r)
        /\ job'[r].step = "handle" /\ job'[r].sid = s
    BY AfterGoto DEF SessionInv, Refresh
  <1>2. s \in Sids /\ session[s].owner # Nobody /\ session'[s].owner = session[s].owner
    BY DEF SessionInv, Refresh, JobsNamed, JobsSound, JobSound, OwnersStay
  <1>3. session'[s].ttl = 0 \/ session'[s].ttl = SessionTTL
    BY <1>2, LifetimeSlid DEF SessionInv, Refresh
  <1> QED BY <1>1, <1>2, <1>3, Times DEF JobSound, Alive

LEMMA SoundAfterUpdate ==
    ASSUME SessionInv, NEW r \in Requests, Switch(r) \/ ReadTTL(r)
    PROVE  Rest(r) /\ JobSound(r)'
  <1>1. CASE Switch(r)
    <2>1. Rest(r) /\ job'[r].step = "ttl" /\ job'[r].sid = job[r].sid /\ session' = session
      BY <1>1, AfterGoto DEF SessionInv, Switch
    <2>2. session[job[r].sid].owner \notin Staff /\ session[job[r].sid].owner # Nobody
      BY <1>1 DEF SessionInv, Switch, JobsSound, JobSound
    <2> QED BY <2>1, <2>2 DEF JobSound
  <1>2. CASE ReadTTL(r)
    <2> DEFINE n == session[job[r].sid].ttl
               j == [job[r] EXCEPT !.step = "set", !.ttl = n]
    <2>1. job[r] \in Jobs /\ job \in [Requests -> Jobs] BY JobsAreRecords DEF SessionInv
    <2>2. j.step = "set" /\ j.sid = job[r].sid BY <2>1 DEF Jobs
    <2>3. job' = [job EXCEPT ![r] = j] /\ session' = session BY <1>2 DEF ReadTTL
    <2> HIDE DEF j
    <2>4. Rest(r) /\ job'[r] = j BY <2>1, <2>3 DEF Rest
    <2>5. session[job[r].sid].owner \notin Staff /\ session[job[r].sid].owner # Nobody
      BY <1>2 DEF SessionInv, ReadTTL, JobsSound, JobSound
    <2> QED BY <2>2, <2>3, <2>4, <2>5 DEF JobSound
  <1> QED BY <1>1, <1>2

(* A request on its way to end a session has one to end. *)
LEMMA SoundAfterToDestroy ==
    ASSUME SessionInv, NEW r \in Requests, job[r].step \notin {"idle", "index"},
           NEW s \in Sids, ToDestroy(r, s), session' = session
    PROVE  Rest(r) /\ JobSound(r)'
  <1>1. Rest(r) /\ job'[r].step = "destroy" /\ job'[r].sid = job[r].sid /\ job'[r].to = s
    BY AfterToDestroy DEF SessionInv
  <1>2. session[job[r].sid].owner # Nobody
    BY DEF SessionInv, JobsSound, JobSound
  <1> QED BY <1>1, <1>2 DEF JobSound

LEMMA SoundAfterEnd ==
    ASSUME SessionInv, NEW r \in Requests,
           Logout(r) \/ Forget(r) \/ Destroy(r) \/ Unindex(r) \/ Exit(r)
    PROVE  Rest(r) /\ JobSound(r)'
  <1>1. CASE Logout(r) \/ Forget(r)
    <2>1. job[r].step \notin {"idle", "index"} /\ ToDestroy(r, job[r].sid) /\ session' = session
      BY <1>1 DEF Logout, Forget
    <2>2. job[r].sid \in Sids BY <2>1 DEF SessionInv, JobsNamed
    <2> QED BY <2>1, <2>2, SoundAfterToDestroy
  <1>2. CASE Destroy(r)
    <2> DEFINE p == IF Alive(job[r].to) /\ Own(job[r].to) THEN "unindex" ELSE "del"
    <2>1. Goto(r, p) /\ session' = session /\ job[r].step = "destroy" BY <1>2 DEF Destroy
    <2>2. job[r].to \in Sids /\ session[job[r].sid].owner # Nobody
      BY <2>1 DEF SessionInv, JobsSound, JobSound
    <2>3. p = "unindex" => session[job[r].to].owner # Nobody /\ Own(job[r].to)
      BY <2>2 DEF SessionInv, LiveIsSomebodys
    <2>4. p \in {"unindex", "del"} OBVIOUS
    <2> HIDE DEF p
    <2>5. /\ Rest(r) /\ job'[r].step = p /\ job'[r].sid = job[r].sid /\ job'[r].to = job[r].to
      BY <2>1, AfterGoto DEF SessionInv
    <2> QED BY <2>1, <2>2, <2>3, <2>4, <2>5 DEF JobSound, Own
  <1>3. CASE Unindex(r)
    <2>1. /\ Rest(r) /\ job'[r].step = "del" /\ job'[r].sid = job[r].sid /\ job'[r].to = job[r].to
          /\ session' = session /\ job[r].step = "unindex"
      BY <1>3, AfterGoto DEF SessionInv, Unindex
    <2>2. job[r].to \in Sids /\ session[job[r].sid].owner # Nobody
      BY <2>1 DEF SessionInv, JobsSound, JobSound
    <2> QED BY <2>1, <2>2 DEF JobSound
  <1>4. CASE Exit(r)
    <2>1. /\ Rest(r) /\ job'[r].step = "forget" /\ job'[r].sid = job[r].sid
          /\ session' = session /\ job[r].step = "handle"
      BY <1>4, AfterGoto DEF SessionInv, Exit
    <2>2. session[job[r].sid].owner # Nobody
      BY <2>1 DEF SessionInv, JobsSound, JobSound
    <2> QED BY <2>1, <2>2 DEF JobSound
  <1> QED BY <1>1, <1>2, <1>3, <1>4

LEMMA SoundAfterKick ==
    ASSUME SessionInv, NEW r \in Requests, NEW u \in Users, Kick(r, u)
    PROVE  Rest(r) /\ JobSound(r)'
  <1>1. CASE index[u].ttl > 0
    <2>1. job[r].step \notin {"idle", "index"} /\ ToDestroy(r, index[u].sid) /\ session' = session
      BY <1>1 DEF Kick
    <2>2. index[u].sid \in Sids BY <1>1 DEF SessionInv, IndexIsLogin, LoggedIn
    <2> QED BY <2>1, <2>2, SoundAfterToDestroy
  <1>2. CASE ~ (index[u].ttl > 0)
    BY <1>2, AfterFinish, IdleIsSound DEF Kick, SessionInv
  <1> QED BY <1>1, <1>2

LEMMA SoundAfterEnter ==
    ASSUME SessionInv, NEW r \in Requests, NEW u \in Users, Enter(r, u)
    PROVE  Rest(r) /\ JobSound(r)'
  <1> DEFINE h == job[r].sid
  <1>1. PICK s \in Sids : /\ Create(s, u, session[h].owner, ImpTTL)
                          /\ job' = [job EXCEPT ![r].step = "home", ![r].to = s]
    BY DEF Enter
  <1>2. job[r].step = "handle" /\ session[h].owner \in Staff /\ h \in Sids
    BY DEF Enter, SessionInv, JobsNamed
  <1>3. /\ Rest(r)
        /\ job'[r].step = "home" /\ job'[r].sid = h /\ job'[r].old = job[r].old
    BY <1>1, JobsAreRecords DEF SessionInv, Jobs, Rest
  <1>4. session'[h] = session[h]
    BY <1>1, <1>2, People, SessionIsRecord DEF Create, SessionInv
  <1>5. \/ ~ Alive(h) \/ session[h].ttl >= SessionTTL
        \/ job[r].old /\ session[h].ttl >= SessionTTL - 1
    BY <1>2 DEF SessionInv, JobsSound, JobSound
  <1> QED BY <1>2, <1>3, <1>4, <1>5, People DEF JobSound, Alive

LEMMA SoundAfterSetHome ==
    ASSUME SessionInv, NEW r \in Requests, SetHome(r)
    PROVE  Rest(r) /\ JobSound(r)'
  <1> DEFINE h == job[r].sid
  <1>1. /\ Rest(r)
        /\ job'[r].step = "keep" /\ job'[r].sid = h /\ job'[r].old = job[r].old
        /\ session' = session /\ job[r].step = "home"
    BY AfterGoto DEF SessionInv, SetHome
  <1>2. /\ session[h].owner \in Staff
        /\ \/ ~ Alive(h) \/ session[h].ttl >= SessionTTL
           \/ job[r].old /\ session[h].ttl >= SessionTTL - 1
    BY <1>1 DEF SessionInv, JobsSound, JobSound
  <1> QED BY <1>1, <1>2, People DEF JobSound, Alive

LEMMA SoundAfterTick ==
    ASSUME SessionInv, Tick
    PROVE  JobsSound'
  <1> SUFFICES ASSUME NEW r \in Requests PROVE JobSound(r)' BY DEF JobsSound
  <1> DEFINE s == job[r].sid
  <1>0. JobSound(r) /\ ~ job[r].old /\ OwnersStay
    BY TickKeepsOwners DEF SessionInv, JobsSound, Tick
  <1>1. /\ job'[r].step = job[r].step /\ job'[r].sid = s /\ job'[r].to = job[r].to
        /\ job'[r].old <=> job[r].step # "idle"
    BY AfterTick DEF SessionInv
  <1>2. ASSUME job[r].step \notin {"idle", "index"}
        PROVE  /\ s \in Sids /\ session[s].owner # Nobody
               /\ session'[s].owner = session[s].owner
    BY <1>0, <1>2 DEF SessionInv, JobsNamed, JobSound, OwnersStay
  <1>3. ASSUME job[r].step \in {"handle", "home", "keep"}, session[s].owner \in Staff,
               session'[s].ttl > 0
        PROVE  session'[s].ttl >= SessionTTL - 1
    <2>1. s \in Sids /\ session[s].ttl \in 0..SessionTTL BY <1>2, <1>3, SessionIsRecord DEF SessionInv
    <2>2. session'[s].ttl = Less(session[s].ttl) BY <2>1, LifetimeTicks DEF SessionInv
    <2> QED BY <1>0, <1>3, <2>1, <2>2, Times DEF Less, JobSound, Alive
  <1>4. ASSUME job[r].step = "unindex"
        PROVE  session'[job[r].to].owner # Nobody /\ session'[job[r].to].by = Nobody
    BY <1>0, <1>4 DEF JobSound, OwnersStay, Own
  <1> HIDE DEF s
  <1> QED BY <1>0, <1>1, <1>2, <1>3, <1>4 DEF JobSound, Alive, Own, s

LEMMA SoundGoesOn == ASSUME SessionInv, [Next]_vars PROVE JobsSound'
  <1>0. OwnersStay BY NextKeepsOwners DEF SessionInv
  <1>1. ASSUME NEW r \in Requests, Rest(r), JobSound(r)', ~ Tick PROVE JobsSound'
    BY <1>0, <1>1, StepIsCalm, OneMovesSound DEF SessionInv
  <1>2. CASE Tick BY <1>2, SoundAfterTick
  <1>3. CASE ~ Tick
    <2>1. ASSUME NEW r \in Requests, SetIndex(r) \/ Answer(r) \/ WriteBack(r) \/ Del(r) \/ KeepAlive(r)
          PROVE  JobsSound'
      <3>1. Rest(r) /\ job'[r].step = "idle"
        BY <2>1, AfterFinish DEF SetIndex, Answer, WriteBack, Del, KeepAlive, SessionInv
      <3> QED BY <1>1, <1>3, <3>1, IdleIsSound
    <2>2. ASSUME NEW r \in Requests, NEW u \in Users, Login(r, u) PROVE JobsSound'
      <3>1. PICK s \in Sids : job' = [job EXCEPT ![r] = [Idle EXCEPT !.step = "index", !.to = s]]
        BY <2>2 DEF Login
      <3>2. Rest(r) /\ job'[r].step = "index"
        BY <3>1, JobsAreRecords DEF Rest, Idle, SessionInv
      <3> QED BY <1>1, <1>3, <3>2, IdleIsSound
    <2>3. ASSUME NEW r \in Requests, Refresh(r) PROVE JobsSound'
      BY <1>0, <1>1, <1>3, <2>3, SoundAfterRefresh
    <2>4. ASSUME NEW r \in Requests, Switch(r) \/ ReadTTL(r) PROVE JobsSound'
      BY <1>1, <1>3, <2>4, SoundAfterUpdate
    <2>5. ASSUME NEW r \in Requests, Logout(r) \/ Forget(r) \/ Destroy(r) \/ Unindex(r) \/ Exit(r)
          PROVE  JobsSound'
      BY <1>1, <1>3, <2>5, SoundAfterEnd
    <2>6. ASSUME NEW r \in Requests, SetHome(r) PROVE JobsSound'
      BY <1>1, <1>3, <2>6, SoundAfterSetHome
    <2>7. ASSUME NEW r \in Requests, NEW u \in Users, Kick(r, u) PROVE JobsSound'
      BY <1>1, <1>3, <2>7, SoundAfterKick
    <2>8. ASSUME NEW r \in Requests, NEW u \in Users, Enter(r, u) PROVE JobsSound'
      BY <1>1, <1>3, <2>8, SoundAfterEnter
    <2>9. ASSUME NEW r \in Requests, NEW s \in Sids, Request(r, s) PROVE JobsSound'
      BY <1>1, <1>3, <2>9, SoundAfterRequest
    <2>10. CASE UNCHANGED vars
      BY <2>10 DEF vars, SessionInv, JobsSound, JobSound, Alive, Own
    <2> QED BY <1>3, <2>1, <2>2, <2>3, <2>4, <2>5, <2>6, <2>7, <2>8, <2>9, <2>10 DEF Next
  <1> QED BY <1>2, <1>3

-----------------------------------------------------------------------------
(* A way back that no step writes leads where it led: the session it leads  *)
(* to is the staff's, and whoever was about to slide it does so or waits.   *)
LEMMA WayStays ==
    ASSUME SessionInv, Calm, OwnersStay, NEW s \in Sids, home'[s] = home[s],
           \A r \in Requests : job[r].step = "keep" => job'[r] = job[r] \/ Slide(job[r].sid)
    PROVE  Reach(s)'
  <1> DEFINE h == home[s].sid
  <1> SUFFICES ASSUME home[s].ttl > 0 PROVE Reach(s)' BY DEF Reach
  <1>1. /\ h \in Sids /\ session[h].owner \in Staff
        /\ \/ ~ Alive(h) \/ session[h].ttl >= home[s].ttl
           \/ \E r \in Requests : job[r].step = "keep" /\ job[r].old /\ job[r].sid = h
    BY DEF SessionInv, WaysBack, Reach
  <1>2. /\ session[h].ttl \in 0..SessionTTL /\ home[s].ttl \in 0..ImpTTL
        /\ session'[h].owner \in Staff
    BY <1>1, SessionIsRecord, TypeParts, People DEF SessionInv, HomeType, OwnersStay
  <1>3. /\ session'[h].ttl = 0 \/ (Alive(h) /\ session'[h].ttl >= session[h].ttl)
        /\ session'[h].ttl \in 0..SessionTTL
    BY <1>1, <1>2, Times DEF Calm, SameLife, Slid, Deleted, Alive
  <1>4. ASSUME NEW r \in Requests, job[r].step = "keep", job[r].old, job[r].sid = h
        PROVE  \/ session'[h].ttl = 0 \/ session'[h].ttl >= home[s].ttl
               \/ job'[r] = job[r]
    <2>1. CASE Slide(h)
      <3>1. session'[h].ttl = 0 \/ session'[h].ttl = SessionTTL
        BY <1>1, <2>1, LifetimeSlid DEF SessionInv
      <3> QED BY <1>2, <3>1, Times
    <2> QED BY <1>4, <2>1
  <1>5. \/ session'[h].ttl = 0 \/ session'[h].ttl >= home[s].ttl
        \/ \E r \in Requests : job'[r].step = "keep" /\ job'[r].old /\ job'[r].sid = h
    <2>1. CASE ~ Alive(h) \/ session[h].ttl >= home[s].ttl
      BY <1>2, <1>3, <2>1, Times
    <2>2. CASE \E r \in Requests : job[r].step = "keep" /\ job[r].old /\ job[r].sid = h
      BY <1>4, <2>2
    <2> QED BY <1>1, <2>1, <2>2
  <1> HIDE DEF h
  <1> QED BY <1>1, <1>2, <1>5 DEF Reach, Alive, h

LEMMA WaysAfterTick == ASSUME SessionInv, Tick PROVE WaysBack'
  <1> SUFFICES ASSUME NEW s \in Sids, home'[s].ttl > 0 PROVE Reach(s)'
    BY DEF WaysBack, Reach
  <1> DEFINE h == home[s].sid
  <1>1. home[s] \in HomeType /\ home'[s] = Fade(home[s])
    BY TypeParts DEF SessionInv, Tick
  <1>2. home[s].ttl \in Nat /\ home[s].ttl > 1 /\ home'[s].sid = h /\ home'[s].ttl = home[s].ttl - 1
    BY <1>1, Times DEF Fade, Gone, HomeType
  <1>3. /\ h \in Sids /\ session[h].owner \in Staff
        /\ ~ Alive(h) \/ session[h].ttl >= home[s].ttl
    BY <1>2 DEF SessionInv, WaysBack, Reach, Tick
  <1>4. /\ session[h].ttl \in 0..SessionTTL /\ session'[h].ttl = Less(session[h].ttl)
    BY <1>3, SessionIsRecord, LifetimeTicks DEF SessionInv
  <1>5. session'[h].owner \in Staff
    BY <1>3, People, TickKeepsOwners DEF SessionInv, OwnersStay
  <1>6. session'[h].ttl = 0 \/ session'[h].ttl >= home[s].ttl - 1
    BY <1>2, <1>3, <1>4, Times DEF Less, Alive
  <1> HIDE DEF h
  <1> QED BY <1>2, <1>3, <1>4, <1>5, <1>6 DEF Reach, Alive

LEMMA WaysAfterSetHome ==
    ASSUME SessionInv, Calm, OwnersStay, NEW r \in Requests, SetHome(r)
    PROVE  WaysBack'
  <1> DEFINE h == job[r].sid
  <1>0. home \in [Sids -> HomeType] BY TypeParts DEF SessionInv
  <1>1. /\ Rest(r) /\ job[r].step = "home"
        /\ job'[r].step = "keep" /\ job'[r].sid = h /\ job'[r].old = job[r].old
        /\ session' = session
    BY AfterGoto DEF SessionInv, SetHome
  <1>2. home' = [home EXCEPT ![job[r].to] = [sid |-> h, ttl |-> ImpTTL]]
    BY DEF SetHome
  <1>3. /\ h \in Sids /\ session[h].owner \in Staff
        /\ \/ ~ Alive(h) \/ session[h].ttl >= SessionTTL
           \/ job[r].old /\ session[h].ttl >= SessionTTL - 1
    BY <1>1, People DEF SessionInv, JobsNamed, JobsSound, JobSound
  <1>4. session[h].ttl \in 0..SessionTTL BY <1>3, SessionIsRecord DEF SessionInv
  <1> HIDE DEF h
  <1>5. ASSUME NEW s \in Sids PROVE Reach(s)'
    <2>1. CASE s = job[r].to
      <3>1. home'[s].sid = h /\ home'[s].ttl = ImpTTL BY <1>0, <1>2, <2>1
      <3> QED BY <1>1, <1>3, <1>4, <3>1, Times DEF Reach, Alive
    <2>2. CASE s # job[r].to
      <3>1. home'[s] = home[s] BY <1>0, <1>2, <2>2
      <3>2. \A q \in Requests : job[q].step = "keep" => job'[q] = job[q]
        BY <1>1 DEF Rest
      <3> QED BY <3>1, <3>2, WayStays
    <2> QED BY <2>1, <2>2
  <1> QED BY <1>5 DEF WaysBack

LEMMA WaysAfterForget ==
    ASSUME SessionInv, Calm, OwnersStay, NEW r \in Requests, Forget(r)
    PROVE  WaysBack'
  <1>0. home \in [Sids -> HomeType] BY TypeParts DEF SessionInv
  <1>1. Rest(r) /\ job[r].step = "forget" /\ home' = [home EXCEPT ![job[r].sid] = Gone]
    BY AfterToDestroy DEF SessionInv, Forget
  <1>2. ASSUME NEW s \in Sids PROVE Reach(s)'
    <2>1. CASE s = job[r].sid
      <3>1. home'[s].ttl = 0 BY <1>0, <1>1, <2>1 DEF Gone
      <3> QED BY <3>1 DEF Reach
    <2>2. CASE s # job[r].sid
      <3>1. home'[s] = home[s] BY <1>0, <1>1, <2>2
      <3>2. \A q \in Requests : job[q].step = "keep" => job'[q] = job[q]
        BY <1>1 DEF Rest
      <3> QED BY <3>1, <3>2, WayStays
    <2> QED BY <2>1, <2>2
  <1> QED BY <1>2 DEF WaysBack

LEMMA WaysGoOn == ASSUME SessionInv, [Next]_vars PROVE WaysBack'
  <1>0. OwnersStay BY NextKeepsOwners DEF SessionInv
  <1>1. CASE Tick BY <1>1, WaysAfterTick
  <1>2. CASE ~ Tick
    <2>0. Calm BY <1>2, StepIsCalm DEF SessionInv
    <2>1. ASSUME home' = home,
                 \A r \in Requests : job[r].step = "keep" => job'[r] = job[r] \/ Slide(job[r].sid)
          PROVE  WaysBack'
      BY <1>0, <2>0, <2>1, WayStays DEF WaysBack
    <2>2. ASSUME NEW r \in Requests, Rest(r), job[r].step # "keep", home' = home PROVE WaysBack'
      BY <2>1, <2>2 DEF Rest
    <2>3. ASSUME NEW r \in Requests, SetIndex(r) \/ Answer(r) \/ WriteBack(r) \/ Del(r) PROVE WaysBack'
      <3>1. Rest(r) /\ job[r].step # "keep" /\ home' = home
        BY <2>3, AfterFinish DEF SetIndex, Answer, WriteBack, Del, SessionInv
      <3> QED BY <2>2, <3>1
    <2>4. ASSUME NEW r \in Requests, KeepAlive(r) PROVE WaysBack'
      <3>1. Rest(r) /\ home' = home /\ Slide(job[r].sid)
        BY <2>4, AfterFinish DEF KeepAlive, SessionInv
      <3>2. \A q \in Requests : job[q].step = "keep" => job'[q] = job[q] \/ Slide(job[q].sid)
        BY <3>1 DEF Rest
      <3> QED BY <2>1, <3>1, <3>2
    <2>5. ASSUME NEW r \in Requests,
                 \/ Refresh(r) \/ Switch(r) \/ ReadTTL(r) \/ Logout(r) \/ Destroy(r) \/ Unindex(r)
                 \/ Exit(r)
          PROVE  WaysBack'
      <3>1. Rest(r)
        <4>1. CASE Refresh(r) BY <1>0, <4>1, SoundAfterRefresh
        <4>2. CASE Switch(r) \/ ReadTTL(r) BY <4>2, SoundAfterUpdate
        <4>3. CASE Logout(r) \/ Destroy(r) \/ Unindex(r) \/ Exit(r) BY <4>3, SoundAfterEnd
        <4> QED BY <2>5, <4>1, <4>2, <4>3
      <3>2. job[r].step # "keep" /\ home' = home
        BY <2>5 DEF Refresh, Switch, ReadTTL, Logout, Destroy, Unindex, Exit
      <3> QED BY <2>2, <3>1, <3>2
    <2>6. ASSUME NEW r \in Requests, SetHome(r) PROVE WaysBack'
      BY <1>0, <2>0, <2>6, WaysAfterSetHome
    <2>7. ASSUME NEW r \in Requests, Forget(r) PROVE WaysBack'
      BY <1>0, <2>0, <2>7, WaysAfterForget
    <2>8. ASSUME NEW r \in Requests, NEW u \in Users, Login(r, u) PROVE WaysBack'
      <3>1. PICK s \in Sids : job' = [job EXCEPT ![r] = [Idle EXCEPT !.step = "index", !.to = s]]
        BY <2>8 DEF Login
      <3>2. Rest(r) /\ job[r].step # "keep" /\ home' = home
        BY <2>8, <3>1, JobsAreRecords DEF Rest, SessionInv, Login
      <3> QED BY <2>2, <3>2
    <2>9. ASSUME NEW r \in Requests, NEW u \in Users, Kick(r, u) PROVE WaysBack'
      <3>1. job[r].step # "keep" /\ home' = home BY <2>9 DEF Kick
      <3> QED BY <2>2, <2>9, <3>1, SoundAfterKick
    <2>10. ASSUME NEW r \in Requests, NEW u \in Users, Enter(r, u) PROVE WaysBack'
      <3>1. job[r].step # "keep" /\ home' = home BY <2>10 DEF Enter
      <3> QED BY <2>2, <2>10, <3>1, SoundAfterEnter
    <2>11. ASSUME NEW r \in Requests, NEW s \in Sids, Request(r, s) PROVE WaysBack'
      <3>1. job[r].step # "keep" /\ home' = home BY <2>11 DEF Request
      <3> QED BY <2>2, <2>11, <3>1, SoundAfterRequest
    <2>12. CASE UNCHANGED vars
      BY <2>1, <2>12 DEF vars
    <2> QED BY <1>2, <2>3, <2>4, <2>5, <2>6, <2>7, <2>8, <2>9, <2>10, <2>11, <2>12 DEF Next
  <1> QED BY <1>1, <1>2

LEMMA SessionInvHolds == Spec => []SessionInv
  <1>1. Init => SessionInv
    <2> SUFFICES ASSUME Init PROVE SessionInv OBVIOUS
    <2>1. TypeInv BY InitTyped
    <2>2. JobsNamed /\ LoginsAreOwn /\ IndexIsLogin
      BY DEF Init, JobsNamed, LoginsAreOwn, IndexIsLogin, Idle, Gone
    <2>3. JobsSound /\ LiveIsSomebodys /\ WaysBack
      BY DEF Init, JobsSound, JobSound, LiveIsSomebodys, Alive, WaysBack, Reach, Idle, Gone
    <2> QED BY <2>1, <2>2, <2>3 DEF SessionInv
  <1>2. SessionInv /\ [Next]_vars => SessionInv'
    <2> SUFFICES ASSUME SessionInv, [Next]_vars PROVE SessionInv' OBVIOUS
    <2>1. TypeInv' /\ JobsNamed' BY NextTyped, NextNamed DEF SessionInv
    <2>2. LoginsAreOwn' /\ IndexIsLogin' BY LoginsStay, IndexStays DEF SessionInv
    <2>3. LiveIsSomebodys' BY LifeGoesOn DEF SessionInv
    <2> QED BY <2>1, <2>2, <2>3, SoundGoesOn, WaysGoOn DEF SessionInv
  <1> QED BY <1>1, <1>2, PTL DEF Spec

-----------------------------------------------------------------------------
(* Apart from the clock, the index of a person changes with that person's   *)
(* own logins and the ends of their own sessions alone: an impersonation    *)
(* leaves no trace in it (session.service.ts, create and destroy).          *)
LEMMA StepLeavesIndex ==
    ASSUME SessionInv, [Next]_vars, NEW u \in Users, index'[u] # index[u], ~ Tick
    PROVE  \E r \in Requests : /\ job'[r] # job[r]
                               /\ session[job[r].to].owner = u
                               /\ Own(job[r].to)
  <1>0. index \in [Users -> IndexType] BY TypeParts DEF SessionInv
  <1>1. ASSUME NEW r \in Requests, SetIndex(r)
        PROVE  job'[r] # job[r] /\ session[job[r].to].owner = u /\ Own(job[r].to)
    <2>1. job'[r].step = "idle" /\ job[r].step = "index"
      BY <1>1, AfterFinish DEF SetIndex, SessionInv
    <2>2. Own(job[r].to) BY <2>1 DEF SessionInv, LoginsAreOwn, LoggedIn
    <2>3. session[job[r].to].owner = u BY <1>0, <1>1 DEF SetIndex
    <2> QED BY <2>1, <2>2, <2>3
  <1>2. ASSUME NEW r \in Requests, Unindex(r)
        PROVE  job'[r] # job[r] /\ session[job[r].to].owner = u /\ Own(job[r].to)
    <2>1. job'[r].step = "del" /\ job[r].step = "unindex"
      BY <1>2, AfterGoto DEF Unindex, SessionInv
    <2>2. Own(job[r].to) BY <2>1 DEF SessionInv, JobsSound, JobSound
    <2>3. session[job[r].to].owner = u BY <1>0, <1>2 DEF Unindex
    <2> QED BY <2>1, <2>2, <2>3
  <1>3. ASSUME NEW r \in Requests,
               \/ Refresh(r) \/ Answer(r) \/ Switch(r) \/ ReadTTL(r) \/ WriteBack(r) \/ Logout(r)
               \/ Destroy(r) \/ Del(r) \/ SetHome(r) \/ KeepAlive(r) \/ Exit(r) \/ Forget(r)
        PROVE  FALSE
    BY <1>3 DEF Refresh, Answer, Switch, ReadTTL, WriteBack, Logout, Destroy, Del, SetHome,
                KeepAlive, Exit, Forget
  <1>4. ASSUME NEW r \in Requests, NEW v \in Users, Login(r, v) \/ Kick(r, v) \/ Enter(r, v)
        PROVE  FALSE
    BY <1>4 DEF Login, Kick, Enter
  <1>5. ASSUME NEW r \in Requests, NEW s \in Sids, Request(r, s) PROVE FALSE
    BY <1>5 DEF Request
  <1>6. ~ UNCHANGED vars BY DEF vars
  <1> QED BY <1>1, <1>2, <1>3, <1>4, <1>5, <1>6 DEF Next

(* While there is a way back, the session it leads to ends by no step but   *)
(* its deletion: it does not merely grow old (impersonate.service.ts,       *)
(* enter: keepAlive).                                                       *)
LEMMA StepLeavesWayBack ==
    ASSUME SessionInv, [Next]_vars, NEW s \in Sids, home[s].ttl > 0, home'[s].ttl > 0,
           Alive(home[s].sid), session'[home[s].sid].ttl = 0
    PROVE  \E r \in Requests : job[r].step = "del" /\ job[r].to = home[s].sid
  <1> DEFINE h == home[s].sid
  <1>1. h \in Sids /\ session[h].owner \in Staff BY DEF SessionInv, WaysBack, Reach
  <1>2. session[h].ttl \in 0..SessionTTL BY <1>1, SessionIsRecord DEF SessionInv
  <1>3. ~ Tick
    <2> SUFFICES ASSUME Tick PROVE FALSE OBVIOUS
    <2>1. home[s] \in HomeType /\ home'[s] = Fade(home[s])
      BY TypeParts DEF SessionInv, Tick
    <2>2. home[s].ttl \in Nat /\ home[s].ttl > 1
      BY <2>1, Times DEF Fade, Gone, HomeType
    <2>3. session[h].ttl >= home[s].ttl
      BY DEF SessionInv, WaysBack, Reach, Tick
    <2>4. Less(session[h].ttl) = 0 BY <1>1, LifetimeTicks DEF SessionInv
    <2> QED BY <1>2, <2>2, <2>3, <2>4 DEF Less
  <1>4. SameLife(h) \/ Slid(h) \/ Deleted(h)
    BY <1>1, <1>3, StepIsCalm DEF Calm, SessionInv
  <1> QED BY <1>2, <1>4, Times DEF SameLife, Slid, Deleted, Alive

LEMMA SpecKeepsSessions == Spec => SessionsKept
  <1>1. SessionInv /\ [Next]_vars =>
          [\A u \in Users : index'[u] # index[u] =>
              \/ Tick
              \/ \E r \in Requests : /\ job'[r] # job[r]
                                     /\ session[job[r].to].owner = u
                                     /\ Own(job[r].to)]_vars
    BY StepLeavesIndex
  <1>2. SessionInv /\ [Next]_vars =>
          [\A s \in Sids : Issued(s) /\ ~ Alive(s) /\ session'[s].ttl > 0 =>
              \E r \in Requests : job[r].step = "set" /\ job[r].sid = s]_vars
    BY StepRevivesNothing DEF SessionInv
  <1>3. SessionInv /\ [Next]_vars =>
          [\A s \in Sids :
              home[s].ttl > 0 /\ home'[s].ttl > 0 /\ Alive(home[s].sid)
              /\ session'[home[s].sid].ttl = 0 =>
                 \E r \in Requests : job[r].step = "del" /\ job[r].to = home[s].sid]_vars
    BY StepLeavesWayBack
  <1> QED BY <1>1, <1>2, <1>3, SessionInvHolds, PTL
          DEF Spec, SessionsKept, IndexIsItsOwners, OnlyUpdateRevives, WayBackIsOpen

(* Whatever sessions and tokens do, sessions and the index go through      *)
(* logins, logouts, impersonations and forced ends as the three action     *)
(* properties say (session.service.ts, impersonate.service.ts).            *)
THEOREM SessionsAreKept == AccessSpec => SessionsKept
  <1>1. AccessInit => Init BY DEF AccessInit
  <1>2. [SessionStep \/ TokenStep]_allVars => [Next]_vars
    BY DEF SessionStep, TokenStep, allVars, vars
  <1>3. AccessSpec => Spec BY <1>1, <1>2, PTL DEF AccessSpec, Spec
  <1> QED BY <1>3, SpecKeepsSessions

-----------------------------------------------------------------------------
(* Tokens. *)
LEMMA TokenTimes ==
    /\ CacheTTL \in Nat \ {0} /\ FirstExpiry \in Nat /\ Expiries \in SUBSET Nat
    /\ Horizon \in Nat /\ MaxEdits \in Nat
  BY TokenAssumption DEF Token!TTLPositive, Token!TimesAreNat, Token!BoundsAreNat

RequestType == [step : Token!ReqSteps, seen : Token!RecordType, late : BOOLEAN]
AdminType   == [step : Token!AdmSteps, set : Token!ChangeType]
CopyType    == [rec : Token!RecordType, ttl : 0..CacheTTL]

LEMMA TokenTypes ==
    Token!TypeInv <=>
      /\ db \in Token!RecordType /\ cache \in CopyType /\ now \in 0..Horizon
      /\ req \in [Requests -> RequestType] /\ adm \in [Admins -> AdminType]
      /\ edits \in 0..MaxEdits /\ revoked \in BOOLEAN
      /\ revokedAt \in Token!Never..Horizon /\ raced \in BOOLEAN
  BY DEF Token!TypeInv, RequestType, AdminType, CopyType

LEMMA NextTokenTypes ==
    Token!TypeInv' <=>
      /\ db' \in Token!RecordType /\ cache' \in CopyType /\ now' \in 0..Horizon
      /\ req' \in [Requests -> RequestType] /\ adm' \in [Admins -> AdminType]
      /\ edits' \in 0..MaxEdits /\ revoked' \in BOOLEAN
      /\ revokedAt' \in Token!Never..Horizon /\ raced' \in BOOLEAN
  BY DEF Token!TypeInv, RequestType, AdminType, CopyType

LEMMA TokenValues ==
    /\ Token!Issued \in Token!RecordType /\ Token!NoCopy \in CopyType
    /\ Token!AtRest \in RequestType /\ Token!NoEdit \in AdminType
    /\ Token!NoCopy.ttl = 0 /\ Token!AtRest.step = "idle" /\ Token!NoEdit.step = "idle"
    /\ Token!Never = 0 - 1
  BY TokenTimes DEF Token!Issued, Token!RecordType, Token!Statuses, Token!Times, Token!NoCopy,
       CopyType, Token!AtRest, RequestType, Token!ReqSteps, Token!NoEdit, AdminType,
       Token!AdmSteps, Token!Keep, Token!ChangeType, Token!Never

(* A revocation that stands is in the record.  Whoever holds an older       *)
(* reading of it to fill the copy with has read before this tick, and a     *)
(* copy of such a reading is as old as the revocation or older.             *)
Stands == revokedAt # Token!Never

TokenInv ==
    /\ Token!TypeInv /\ Token!StaleHasCause
    /\ Stands => db.status # "enabled"
    /\ Stands => \A r \in Requests :
         req[r].step = "fill" /\ req[r].seen.status = "enabled" => revokedAt = now
    /\ Stands /\ cache.ttl > 0 /\ cache.rec.status = "enabled" =>
         now - revokedAt + cache.ttl <= CacheTTL

LEMMA TokenInit == Token!Init => TokenInv
  <1> SUFFICES ASSUME Token!Init PROVE TokenInv OBVIOUS
  <1>1. 0 \in 0..Horizon /\ 0 \in 0..MaxEdits /\ Token!Never \in Token!Never..Horizon
    BY TokenTimes, TokenValues
  <1>2. Token!TypeInv BY <1>1, TokenTypes, TokenValues DEF Token!Init
  <1>3. Token!StaleHasCause BY TokenValues DEF Token!Init, Token!StaleHasCause
  <1>4. ~ Stands BY DEF Token!Init, Stands
  <1> QED BY <1>2, <1>3, <1>4 DEF TokenInv

(* One request moves. *)
OneRequest(r, step, seen) ==
    /\ req' \in [Requests -> RequestType]
    /\ req'[r].step = step /\ req'[r].seen = seen
    /\ \A q \in Requests \ {r} : req'[q] = req[q]

LEMMA AfterTokenGoto ==
    ASSUME Token!TypeInv, NEW r \in Requests, NEW p \in Token!ReqSteps,
           NEW f \in Token!RecordType, Token!Goto(r, p, f)
    PROVE  OneRequest(r, p, f) /\ req'[r].late = req[r].late
  <1>0. req \in [Requests -> RequestType] /\ req[r] \in RequestType BY TokenTypes
  <1> DEFINE j == [req[r] EXCEPT !.step = p, !.seen = f]
  <1>1. j \in RequestType /\ j.step = p /\ j.seen = f /\ j.late = req[r].late
    BY <1>0 DEF RequestType
  <1>2. req' = [req EXCEPT ![r] = j] BY DEF Token!Goto
  <1> HIDE DEF j
  <1> QED BY <1>0, <1>1, <1>2 DEF OneRequest

LEMMA VerdictSteps ==
    ASSUME NEW f
    PROVE  /\ Token!Verdict(f) \in {"idle", "expire", "accepted"}
           /\ Token!Verdict(f) \in Token!ReqSteps
           /\ Token!Verdict(f) = "accepted" => f.status = "enabled"
  BY DEF Token!Verdict, Token!ReqSteps

LEMMA AfterArrival ==
    ASSUME Token!TypeInv, NEW r \in Requests, NEW p \in Token!ReqSteps, NEW b \in BOOLEAN,
           req' = [req EXCEPT ![r] = [step |-> p, seen |-> Token!Issued, late |-> b]]
    PROVE  OneRequest(r, p, Token!Issued) /\ req'[r].late = b
  <1>0. req \in [Requests -> RequestType] BY TokenTypes
  <1> DEFINE j == [step |-> p, seen |-> Token!Issued, late |-> b]
  <1>1. j \in RequestType /\ j.step = p /\ j.seen = Token!Issued /\ j.late = b
    BY TokenValues DEF RequestType
  <1> HIDE DEF j
  <1>2. req' = [req EXCEPT ![r] = j] BY DEF j
  <1> QED BY <1>0, <1>1, <1>2 DEF OneRequest

(* A request that moves on without the record or the copy being touched,    *)
(* except for the copy being dropped.                                       *)
LEMMA RequestOnly ==
    ASSUME TokenInv, NEW r \in Requests, NEW p \in Token!ReqSteps, NEW f \in Token!RecordType,
           OneRequest(r, p, f),
           p # "fill" \/ f = db,
           req[r].step # "dropExpired" \/ Token!NoMoreCopy \/ Token!CopyStays,
           UNCHANGED <<db, now, adm, edits, revoked, revokedAt>>,
           UNCHANGED <<cache, raced>> \/ Token!NoMoreCopy \/ Token!CopyStays
    PROVE  TokenInv'
  <1>1. Token!TypeInv'
    <2>1. cache' \in CopyType /\ raced' \in BOOLEAN
      BY TokenTypes, TokenValues DEF TokenInv, Token!NoMoreCopy, Token!CopyStays
    <2> QED BY <2>1, TokenTypes, NextTokenTypes DEF TokenInv, OneRequest
  <1>2. Token!StaleHasCause'
    <2>1. CASE cache' = Token!NoCopy BY <2>1, TokenValues DEF Token!StaleHasCause
    <2>2. CASE UNCHANGED <<cache, raced>> /\ req[r].step # "dropExpired"
      BY <2>2 DEF TokenInv, OneRequest, Token!StaleHasCause
    <2>3. CASE Token!CopyStays BY <2>3 DEF Token!CopyStays, Token!StaleHasCause
    <2> QED BY <2>1, <2>2, <2>3 DEF Token!NoMoreCopy
  <1>3. Stands' => Stands BY DEF Stands
  <1>4. Stands' => \A q \in Requests :
          req'[q].step = "fill" /\ req'[q].seen.status = "enabled" => revokedAt' = now'
    BY <1>3 DEF TokenInv, OneRequest
  <1>5. Stands' /\ cache'.ttl > 0 /\ cache'.rec.status = "enabled" =>
          now' - revokedAt' + cache'.ttl <= CacheTTL
    BY <1>3, TokenValues DEF TokenInv, Token!NoMoreCopy, Token!CopyStays
  <1> QED BY <1>1, <1>2, <1>3, <1>4, <1>5 DEF TokenInv, Stands

(* A reading of the record is put into the cache: an out of date one counts *)
(* as raced, one from before a revocation is from this tick.                *)
LEMMA AfterFill ==
    ASSUME TokenInv, NEW r \in Requests, Token!Fill(r)
    PROVE  /\ TokenInv'
           /\ OneRequest(r, Token!Verdict(req[r].seen), Token!Issued)
           /\ req'[r].step = "accepted" /\ Stands => revokedAt = now
  <1>0. /\ req[r].seen \in Token!RecordType /\ req[r].step = "fill"
        /\ now \in 0..Horizon /\ revokedAt \in Token!Never..Horizon
    BY TokenTypes DEF TokenInv, RequestType, Token!Fill
  <1>1. OneRequest(r, Token!Verdict(req[r].seen), Token!Issued)
    BY AfterTokenGoto, VerdictSteps, TokenValues DEF TokenInv, Token!Fill
  <1> DEFINE c == [rec |-> req[r].seen, ttl |-> CacheTTL]
  <1>2. c.rec = req[r].seen /\ c.ttl = CacheTTL /\ c \in CopyType
    BY <1>0, TokenTimes DEF CopyType
  <1>3. cache' = c /\ raced' = (req[r].seen # db) /\ UNCHANGED <<db, now, adm, edits, revoked, revokedAt>>
    BY DEF Token!Fill, Token!adminVars
  <1> HIDE DEF c
  <1>4. Token!TypeInv'
    BY <1>1, <1>2, <1>3, TokenTypes, NextTokenTypes DEF TokenInv, OneRequest
  <1>5. Token!StaleHasCause' BY <1>2, <1>3 DEF Token!StaleHasCause
  <1>6. Stands' <=> Stands BY <1>3 DEF Stands
  <1>7. Stands' => \A q \in Requests :
          req'[q].step = "fill" /\ req'[q].seen.status = "enabled" => revokedAt' = now'
    BY <1>1, <1>3, <1>6, VerdictSteps DEF TokenInv, OneRequest
  <1>8. Stands /\ req[r].seen.status = "enabled" => revokedAt = now
    BY <1>0 DEF TokenInv
  <1>9. Stands' /\ cache'.ttl > 0 /\ cache'.rec.status = "enabled" =>
          now' - revokedAt' + cache'.ttl <= CacheTTL
    BY <1>0, <1>2, <1>3, <1>6, <1>8, TokenTimes
  <1>10. req'[r].step = "accepted" /\ Stands => revokedAt = now
    BY <1>1, <1>8, VerdictSteps DEF OneRequest
  <1>11. Stands' => db'.status # "enabled" BY <1>3, <1>6 DEF TokenInv
  <1> QED BY <1>1, <1>4, <1>5, <1>7, <1>9, <1>10, <1>11 DEF TokenInv, Stands

(* An expired token is marked in the record before its copy is dropped. *)
LEMMA AfterMarkExpired ==
    ASSUME TokenInv, NEW r \in Requests, Token!MarkExpired(r)
    PROVE  TokenInv' /\ OneRequest(r, "dropExpired", Token!Issued)
  <1>0. db \in Token!RecordType BY TokenTypes DEF TokenInv
  <1>1. OneRequest(r, "dropExpired", Token!Issued)
    BY AfterTokenGoto, TokenValues DEF TokenInv, Token!MarkExpired, Token!ReqSteps
  <1>2. db' \in Token!RecordType /\ (db' = db \/ db'.status = "expired")
    BY <1>0 DEF Token!MarkExpired, Token!RecordType, Token!Statuses
  <1>3. UNCHANGED <<cache, raced, now, adm, edits, revoked, revokedAt>>
    BY DEF Token!MarkExpired, Token!copyVars, Token!adminVars
  <1>4. Token!TypeInv'
    BY <1>1, <1>2, <1>3, TokenTypes, NextTokenTypes DEF TokenInv, OneRequest
  <1>5. Token!StaleHasCause' BY <1>1 DEF OneRequest, Token!StaleHasCause
  <1>6. Stands' <=> Stands BY <1>3 DEF Stands
  <1>7. Stands' => \A q \in Requests :
          req'[q].step = "fill" /\ req'[q].seen.status = "enabled" => revokedAt' = now'
    BY <1>1, <1>3, <1>6 DEF TokenInv, OneRequest
  <1>8. Stands' => db'.status # "enabled" BY <1>2, <1>6 DEF TokenInv
  <1> QED BY <1>1, <1>3, <1>4, <1>5, <1>6, <1>7, <1>8 DEF TokenInv, Stands

(* Every step of a request. *)
LEMMA AfterVerify ==
    ASSUME TokenInv, NEW r \in Requests, Token!Verify(r)
    PROVE  TokenInv'
  <1>0. /\ db \in Token!RecordType /\ (revokedAt # Token!Never) \in BOOLEAN
        /\ "read" \in Token!ReqSteps /\ "fill" \in Token!ReqSteps /\ "idle" \in Token!ReqSteps
        /\ Token!Issued \in Token!RecordType /\ Token!TypeInv
    BY TokenTypes, TokenValues DEF TokenInv, Token!ReqSteps
  <1>1. CASE Token!Hit(r)
    <2>1. OneRequest(r, Token!Verdict(cache.rec), Token!Issued)
      BY <1>0, <1>1, AfterArrival, VerdictSteps DEF Token!Hit
    <2> QED BY <1>0, <1>1, <2>1, VerdictSteps, RequestOnly
            DEF Token!Hit, Token!copyVars, Token!adminVars
  <1>2. CASE Token!Miss(r)
    <2>1. OneRequest(r, "read", Token!Issued)
      BY <1>0, <1>2, AfterArrival DEF Token!Miss
    <2> QED BY <1>0, <1>2, <2>1, RequestOnly DEF Token!Miss, Token!copyVars, Token!adminVars
  <1>3. CASE Token!ReadRecord(r)
    <2>1. OneRequest(r, "fill", db)
      BY <1>0, <1>3, AfterTokenGoto DEF Token!ReadRecord
    <2> QED BY <1>0, <1>3, <2>1, RequestOnly DEF Token!ReadRecord, Token!copyVars, Token!adminVars
  <1>4. CASE Token!DropExpired(r)
    <2>1. OneRequest(r, "idle", Token!Issued)
      BY <1>0, <1>4, AfterTokenGoto DEF Token!DropExpired
    <2> QED BY <1>0, <1>4, <2>1, RequestOnly DEF Token!DropExpired, Token!NoMoreCopy, Token!adminVars
  <1>5. CASE Token!Done(r)
    <2>1. req' = [req EXCEPT ![r] = [step |-> "idle", seen |-> Token!Issued, late |-> FALSE]]
      BY <1>5 DEF Token!Done, Token!AtRest
    <2>2. OneRequest(r, "idle", Token!Issued) BY <1>0, <2>1, AfterArrival
    <2> QED BY <1>0, <1>5, <2>2, RequestOnly
            DEF Token!Done, Token!NoMoreCopy, Token!copyVars, Token!adminVars
  <1>6. CASE Token!FailRequest(r)
    <2>1. OneRequest(r, "idle", Token!Issued)
      BY <1>0, <1>6, AfterTokenGoto DEF Token!FailRequest
    <2> QED BY <1>0, <1>6, <2>1, RequestOnly DEF Token!FailRequest, Token!copyVars, Token!adminVars
  <1> QED BY <1>1, <1>2, <1>3, <1>4, <1>5, <1>6, AfterFill, AfterMarkExpired DEF Token!Verify

(* One administrator moves. *)
OneAdmin(a, j) ==
    /\ adm' \in [Admins -> AdminType]
    /\ adm'[a] = j
    /\ \A b \in Admins \ {a} : adm'[b] = adm[b]

LEMMA AdminMoves ==
    ASSUME Token!TypeInv, NEW a \in Admins, NEW j \in AdminType, adm' = [adm EXCEPT ![a] = j]
    PROVE  OneAdmin(a, j)
  BY TokenTypes DEF OneAdmin

(* update and revoke begin: nothing but the administrator moves. *)
LEMMA AfterStart ==
    ASSUME TokenInv, NEW a \in Admins, NEW j \in AdminType, OneAdmin(a, j),
           adm[a].step = "idle", edits < MaxEdits, edits' = edits + 1,
           UNCHANGED <<db, cache, raced, now, req, revoked, revokedAt>>
    PROVE  TokenInv'
  <1>1. edits' \in 0..MaxEdits BY TokenTypes, TokenTimes DEF TokenInv
  <1>2. Token!TypeInv' BY <1>1, TokenTypes, NextTokenTypes DEF TokenInv, OneAdmin
  <1>3. Token!StaleHasCause' BY DEF TokenInv, OneAdmin, Token!StaleHasCause
  <1> QED BY <1>2, <1>3 DEF TokenInv, Stands

(* A change is written: one that enables the token ends a revocation. *)
LEMMA AfterWrite ==
    ASSUME TokenInv, NEW a \in Admins, Token!Write(a)
    PROVE  TokenInv'
  <1>0. adm[a] \in AdminType /\ db \in Token!RecordType BY TokenTypes DEF TokenInv
  <1> DEFINE j == [adm[a] EXCEPT !.step = "drop"]
             t == adm[a].set
  <1>1. j \in AdminType /\ j.step = "drop" BY <1>0 DEF AdminType, Token!AdmSteps
  <1>2. adm' = [adm EXCEPT ![a] = j] BY DEF Token!Write
  <1> HIDE DEF j
  <1>3. OneAdmin(a, j) BY <1>1, <1>2, AdminMoves DEF TokenInv
  <1>4. /\ t \in Token!ChangeType /\ db' = Token!Merge(db, t)
        /\ revoked' = (revoked \/ t.status = "revoked")
        /\ revokedAt' = IF t.status = "enabled" THEN Token!Never ELSE revokedAt
        /\ UNCHANGED <<now, cache, raced, req, edits>>
    BY <1>0 DEF Token!Write, AdminType, Token!requestVars, Token!copyVars
  <1> HIDE DEF t
  <1>5. db' \in Token!RecordType /\ (t.status # "enabled" /\ db.status # "enabled" => db'.status # "enabled")
    BY <1>0, <1>4 DEF Token!Merge, Token!RecordType, Token!ChangeType
  <1>6. revoked' \in BOOLEAN /\ revokedAt' \in Token!Never..Horizon
    BY <1>4, TokenTypes, TokenTimes, TokenValues DEF TokenInv
  <1>7. Token!TypeInv' BY <1>3, <1>4, <1>5, <1>6, TokenTypes, NextTokenTypes DEF TokenInv, OneAdmin
  <1>8. Token!StaleHasCause' BY <1>1, <1>3 DEF OneAdmin, Token!StaleHasCause
  <1>9. Stands' => Stands /\ t.status # "enabled" /\ revokedAt' = revokedAt BY <1>4 DEF Stands
  <1>10. Stands' => db'.status # "enabled" BY <1>5, <1>9 DEF TokenInv
  <1>11. Stands' => \A q \in Requests :
           req'[q].step = "fill" /\ req'[q].seen.status = "enabled" => revokedAt' = now'
    BY <1>4, <1>9 DEF TokenInv
  <1>12. Stands' /\ cache'.ttl > 0 /\ cache'.rec.status = "enabled" =>
           now' - revokedAt' + cache'.ttl <= CacheTTL
    BY <1>4, <1>9 DEF TokenInv
  <1> QED BY <1>7, <1>8, <1>10, <1>11, <1>12 DEF TokenInv, Stands

(* The copy is dropped, or that fails, and the call ends: from here a       *)
(* revocation counts, and a copy has at most a lifetime left.               *)
LEMMA AfterDrop ==
    ASSUME TokenInv, NEW a \in Admins, Token!Drop(a) \/ Token!FailDrop(a)
    PROVE  TokenInv'
  <1>0. /\ now \in 0..Horizon /\ revokedAt \in Token!Never..Horizon
        /\ cache \in CopyType /\ cache.ttl \in 0..CacheTTL /\ raced \in BOOLEAN
    BY TokenTypes DEF TokenInv, CopyType
  <1>1. OneAdmin(a, Token!NoEdit)
    BY AdminMoves, TokenValues DEF TokenInv, Token!Drop, Token!FailDrop, Token!Ended
  <1>2. /\ \/ cache' = Token!NoCopy /\ raced' = FALSE
           \/ cache' = cache /\ raced' = (raced \/ cache.rec # db)
        /\ UNCHANGED <<db, now, req, edits, revoked>>
        /\ revokedAt' = revokedAt \/ (revokedAt' = now /\ db.status # "enabled")
    BY DEF Token!Drop, Token!FailDrop, Token!NoMoreCopy, Token!CopyStays, Token!Ended
  <1>3. revokedAt' \in Token!Never..Horizon BY <1>0, <1>2, TokenTimes, TokenValues
  <1>4. Token!TypeInv'
    BY <1>0, <1>1, <1>2, <1>3, TokenTypes, NextTokenTypes, TokenValues DEF TokenInv, OneAdmin
  <1>5. Token!StaleHasCause'
    <2>1. CASE cache' = Token!NoCopy BY <2>1, TokenValues DEF Token!StaleHasCause
    <2>2. CASE cache' = cache /\ raced' = (raced \/ cache.rec # db)
      BY <1>2, <2>2, Zenon DEF Token!StaleHasCause
    <2> QED BY <1>2, <2>1, <2>2
  <1>6. Stands' => db'.status # "enabled" BY <1>2 DEF TokenInv, Stands
  <1>7. Stands' => \A q \in Requests :
          req'[q].step = "fill" /\ req'[q].seen.status = "enabled" => revokedAt' = now'
    BY <1>2 DEF TokenInv, Stands
  <1>8. Stands' /\ cache'.ttl > 0 /\ cache'.rec.status = "enabled" =>
          now' - revokedAt' + cache'.ttl <= CacheTTL
    BY <1>0, <1>2, TokenTimes, TokenValues DEF TokenInv, Stands
  <1> QED BY <1>4, <1>5, <1>6, <1>7, <1>8 DEF TokenInv, Stands

(* The write fails: nothing but the administrator moves. *)
LEMMA AfterFailWrite ==
    ASSUME TokenInv, NEW a \in Admins, Token!FailWrite(a)
    PROVE  TokenInv'
  <1>1. OneAdmin(a, Token!NoEdit) BY AdminMoves, TokenValues DEF TokenInv, Token!FailWrite
  <1>2. adm[a].step # "drop" /\ UNCHANGED <<db, cache, raced, now, req, edits, revoked, revokedAt>>
    BY DEF Token!FailWrite, Token!requestVars, Token!copyVars
  <1>3. Token!TypeInv' BY <1>1, <1>2, TokenTypes, NextTokenTypes DEF TokenInv, OneAdmin
  <1>4. Token!StaleHasCause' BY <1>1, <1>2 DEF TokenInv, OneAdmin, Token!StaleHasCause
  <1> QED BY <1>2, <1>3, <1>4 DEF TokenInv, Stands

LEMMA AfterEdit ==
    ASSUME TokenInv, NEW a \in Admins, Token!Edit(a)
    PROVE  TokenInv'
  <1>0. Token!TypeInv BY DEF TokenInv
  <1>1. CASE Token!StartUpdate(a)
    <2>1. PICK s \in {"enabled", "disabled", "keep"},
               e \in {Token!Never} \cup {t \in Expiries : t > now} :
            adm' = [adm EXCEPT ![a] = [step |-> "write", set |-> [status |-> s, expiresAt |-> e]]]
      BY <1>1 DEF Token!StartUpdate
    <2> DEFINE j == [step |-> "write", set |-> [status |-> s, expiresAt |-> e]]
    <2>2. j \in AdminType
      BY DEF AdminType, Token!AdmSteps, Token!ChangeType, Token!Statuses, Token!Times
    <2>3. adm' = [adm EXCEPT ![a] = j] BY <2>1
    <2> HIDE DEF j
    <2>4. OneAdmin(a, j) BY <1>0, <2>2, <2>3, AdminMoves
    <2> QED BY <1>1, <2>2, <2>4, AfterStart
            DEF Token!StartUpdate, Token!requestVars, Token!copyVars
  <1>2. CASE Token!StartRevoke(a)
    <2> DEFINE j == [step |-> "write", set |-> [Token!Keep EXCEPT !.status = "revoked"]]
    <2>1. j \in AdminType
      BY DEF AdminType, Token!AdmSteps, Token!ChangeType, Token!Statuses, Token!Times, Token!Keep
    <2>2. adm' = [adm EXCEPT ![a] = j] BY <1>2 DEF Token!StartRevoke
    <2> HIDE DEF j
    <2>3. OneAdmin(a, j) BY <1>0, <2>1, <2>2, AdminMoves
    <2> QED BY <1>2, <2>1, <2>3, AfterStart
            DEF Token!StartRevoke, Token!requestVars, Token!copyVars
  <1> QED BY <1>1, <1>2, AfterWrite, AfterDrop, AfterFailWrite DEF Token!Edit

(* A tick: no request holds a reading and no administrator is about to drop *)
(* the copy, whose lifetime shortens as the revocation ages.                *)
LEMMA AfterTokenTick ==
    ASSUME TokenInv, Token!Tick
    PROVE  TokenInv'
  <1>0. /\ now \in 0..Horizon /\ revokedAt \in Token!Never..Horizon /\ cache \in CopyType
        /\ cache.ttl \in 0..CacheTTL
    BY TokenTypes DEF TokenInv, CopyType
  <1>1. /\ \A r \in Requests : req[r].step \in {"idle", "accepted"}
        /\ \A a \in Admins : adm[a].step = "idle"
        /\ UNCHANGED <<db, req, adm, edits, revoked, revokedAt>>
    BY DEF Token!Tick, Token!BetweenCalls, Token!adminVars
  <1>2. now' \in 0..Horizon /\ now' <= now + 1 BY <1>0, TokenTimes DEF Token!Tick
  <1>3. CASE cache.ttl > 1
    <2> DEFINE c == [cache EXCEPT !.ttl = cache.ttl - 1]
    <2>1. cache.ttl - 1 \in 0..CacheTTL BY <1>0, <1>3, TokenTimes
    <2>2. c \in CopyType /\ c.rec = cache.rec /\ c.ttl = cache.ttl - 1 BY <1>0, <2>1 DEF CopyType
    <2>3. cache' = c /\ raced' = raced BY <1>3 DEF Token!Tick
    <2> HIDE DEF c
    <2>4. Token!TypeInv' BY <1>1, <1>2, <2>2, <2>3, TokenTypes, NextTokenTypes DEF TokenInv
    <2>5. Token!StaleHasCause'
      <3>1. cache.ttl > 0 BY <1>0, <1>3
      <3> QED BY <1>1, <2>2, <2>3, <3>1 DEF TokenInv, Token!StaleHasCause
    <2>6. Stands' <=> Stands BY <1>1 DEF Stands
    <2>7. Stands /\ cache.rec.status = "enabled" => now - revokedAt + cache.ttl <= CacheTTL
      BY <1>0, <1>3, TokenTimes DEF TokenInv
    <2>8. Stands' /\ cache'.rec.status = "enabled" => now' - revokedAt' + cache'.ttl <= CacheTTL
      BY <1>0, <1>1, <1>2, <2>2, <2>3, <2>6, <2>7, TokenTimes, TokenValues
    <2> QED BY <1>1, <2>4, <2>5, <2>6, <2>8 DEF TokenInv, Stands
  <1>4. CASE ~ (cache.ttl > 1)
    <2>1. cache' = Token!NoCopy /\ raced' = FALSE BY <1>4 DEF Token!Tick, Token!NoMoreCopy
    <2>2. Token!TypeInv' BY <1>1, <1>2, <2>1, TokenTypes, NextTokenTypes, TokenValues DEF TokenInv
    <2>3. Token!StaleHasCause' BY <2>1, TokenValues DEF Token!StaleHasCause
    <2>4. ~ (cache'.ttl > 0) BY <2>1, TokenValues
    <2> QED BY <1>1, <2>2, <2>3, <2>4 DEF TokenInv, Stands
  <1> QED BY <1>3, <1>4

LEMMA TokenStays == ASSUME TokenInv, [Token!Next]_tokenVars PROVE TokenInv'
  <1>1. CASE UNCHANGED tokenVars
    BY <1>1, TokenTypes, NextTokenTypes DEF tokenVars, TokenInv, Token!StaleHasCause, Stands
  <1>2. CASE Token!Next BY <1>2, AfterVerify, AfterEdit, AfterTokenTick DEF Token!Next
  <1> QED BY <1>1, <1>2

(* Who is let in after a revocation has returned is let in by a copy that   *)
(* is still within its lifetime, or by a reading of the same tick.          *)
LEMMA LetInWithinTTL ==
    ASSUME TokenInv, [Token!Next]_tokenVars, NEW r \in Requests,
           req[r].step # "accepted", req'[r].step = "accepted", req'[r].late
    PROVE  revokedAt = Token!Never \/ now - revokedAt < CacheTTL
  <1>0. /\ now \in 0..Horizon /\ revokedAt \in Token!Never..Horizon
        /\ cache.ttl \in 0..CacheTTL /\ Token!TypeInv
        /\ db \in Token!RecordType /\ Token!Issued \in Token!RecordType
        /\ "read" \in Token!ReqSteps /\ "fill" \in Token!ReqSteps /\ "idle" \in Token!ReqSteps
        /\ (revokedAt # Token!Never) \in BOOLEAN
    BY TokenTypes, TokenValues DEF TokenInv, CopyType, Token!ReqSteps
  <1>1. CASE Token!Hit(r)
    <2>1. OneRequest(r, Token!Verdict(cache.rec), Token!Issued)
      BY <1>0, <1>1, AfterArrival, VerdictSteps DEF Token!Hit
    <2>2. cache.ttl > 0 /\ cache.rec.status = "enabled"
      BY <1>1, <2>1, VerdictSteps DEF Token!Hit, OneRequest
    <2>3. Stands => now - revokedAt + cache.ttl <= CacheTTL BY <2>2 DEF TokenInv
    <2> QED BY <1>0, <2>2, <2>3, TokenTimes, TokenValues DEF Stands
  <1>2. CASE Token!Fill(r)
    BY <1>0, <1>2, AfterFill, TokenTimes, TokenValues DEF Stands
  <1>3. CASE \/ Token!Miss(r) \/ Token!ReadRecord(r) \/ Token!MarkExpired(r) \/ Token!DropExpired(r)
             \/ Token!FailRequest(r)
    BY <1>0, <1>3, AfterArrival, AfterTokenGoto, AfterMarkExpired
       DEF OneRequest, Token!Miss, Token!ReadRecord, Token!DropExpired, Token!FailRequest
  <1>4. CASE Token!Done(r) BY <1>4 DEF Token!Done
  <1>5. CASE \E q \in Requests \ {r} : Token!Verify(q)
    <2>1. PICK q \in Requests \ {r} : Token!Verify(q) BY <1>5
    <2>2. req' = [req EXCEPT ![q] = req'[q]]
      BY <2>1, <1>0, TokenTypes DEF Token!Verify, Token!Hit, Token!Miss, Token!ReadRecord,
         Token!Fill, Token!MarkExpired, Token!DropExpired, Token!FailRequest, Token!Done, Token!Goto
    <2> QED BY <2>1, <2>2, <1>0, TokenTypes
  <1>6. CASE (\E a \in Admins : Token!Edit(a)) \/ Token!Tick \/ UNCHANGED tokenVars
    BY <1>6 DEF Token!Edit, Token!StartUpdate, Token!StartRevoke, Token!Write, Token!Drop,
       Token!FailWrite, Token!FailDrop, Token!Tick, Token!requestVars, tokenVars
  <1> QED BY <1>1, <1>2, <1>3, <1>4, <1>5, <1>6 DEF Token!Next, Token!Verify

(* Whatever sessions and tokens do: a copy of a token that differs from its *)
(* record has a cause that passes, and a request that arrives when revoke() *)
(* has returned, or failed after its write, is let in for less than the     *)
(* lifetime of a copy (api-token.service.ts, loadToken, update and revoke). *)
THEOREM TokensAreKept == AccessSpec => TokensKept
  <1>1. AccessInit => TokenInv BY TokenInit DEF AccessInit
  <1>2. [SessionStep \/ TokenStep]_allVars => [Token!Next]_tokenVars
    BY DEF SessionStep, TokenStep, allVars
  <1>3. TokenInv /\ [Token!Next]_tokenVars => TokenInv' BY TokenStays
  <1>4. TokenInv => (active = "token" => Token!CacheExplained)
    BY DEF TokenInv, Token!CacheExplained
  <1>5. TokenInv /\ [Token!Next]_tokenVars =>
          [\A r \in Requests :
              req[r].step # "accepted" /\ req'[r].step = "accepted" /\ req'[r].late
                => revokedAt = Token!Never \/ now - revokedAt < CacheTTL]_Token!vars
    BY LetInWithinTTL
  <1>6. AccessSpec => []TokenInv BY <1>1, <1>2, <1>3, PTL DEF AccessSpec
  <1> QED BY <1>2, <1>4, <1>5, <1>6, PTL DEF AccessSpec, TokensKept, Token!RevokedWithinTTL
=============================================================================
