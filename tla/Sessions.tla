------------------------------ MODULE Sessions ------------------------------
(***************************************************************************)
(* Login sessions (auth/session.service.ts) as the requests of the API     *)
(* use them: session.guard.ts reads and slides the session of every        *)
(* request, parent.service.ts edits it, auth.service.ts ends it,           *)
(* wechat-binding.service.ts ends it for somebody else through the reverse *)
(* index openid -> session, impersonate.service.ts opens one in another    *)
(* person's name.  Every step below is one Redis command: between two      *)
(* commands of a request any other request may run.                        *)
(***************************************************************************)
EXTENDS Integers, FiniteSets

CONSTANTS
    Users,       \* openids
    Staff,       \* those who may impersonate and force others out
    Sids,        \* session ids; their number bounds the sessions ever made
    Requests,    \* requests under way at one time
    Nobody, None,
    SessionTTL,  \* SESSION_TTL_SECONDS, in ticks
    ImpTTL       \* IMPERSONATE_TTL_SECONDS, in ticks

ASSUME SessionNames == Staff \subseteq Users /\ Nobody \notin Users /\ None \notin Sids
ASSUME SessionTimes == ImpTTL \in Nat \ {0} /\ SessionTTL \in Nat /\ ImpTTL <= SessionTTL

VARIABLES
    session,  \* session:<sid>: whose it is, who impersonates them, what is left
    index,    \* openid:<openid>: the session it names, what is left of it
    home,     \* impersonate:return:<sid>: the session to go back to
    job       \* where each request is

vars == <<session, index, home, job>>

Steps == {"idle", "index", "refresh", "handle", "ttl", "set", "home", "keep",
          "forget", "destroy", "unindex", "del"}

Idle == [step |-> "idle", sid |-> None, to |-> None, ttl |-> 0, old |-> FALSE]

Gone == [sid |-> None, ttl |-> 0]

Jobs == [step : Steps, sid : Sids \cup {None}, to : Sids \cup {None},
         ttl : 0..SessionTTL, old : BOOLEAN]

TypeInv ==
    /\ session \in [Sids -> [owner : Users \cup {Nobody}, by : Users \cup {Nobody},
                             ttl : 0..SessionTTL]]
    /\ index \in [Users -> [sid : Sids \cup {None}, ttl : 0..SessionTTL]]
    /\ home \in [Sids -> [sid : Sids \cup {None}, ttl : 0..ImpTTL]]
    /\ job \in [Requests -> Jobs]

Init ==
    /\ session = [s \in Sids |-> [owner |-> Nobody, by |-> Nobody, ttl |-> 0]]
    /\ index = [u \in Users |-> Gone]
    /\ home = [s \in Sids |-> Gone]
    /\ job = [r \in Requests |-> Idle]

-----------------------------------------------------------------------------
Alive(s) == session[s].ttl > 0
Own(s)   == session[s].by = Nobody

(* The client has the id of a session once the request that made it ends. *)
Issued(s) ==
    /\ session[s].owner # Nobody
    /\ \A r \in Requests : job[r].step \in {"index", "home", "keep"} => job[r].to # s

Goto(r, step) == job' = [job EXCEPT ![r].step = step]
Finish(r)     == job' = [job EXCEPT ![r] = Idle]

(* create: a session of `user`, under an id never used before *)
Create(s, user, by, ttl) ==
    /\ session[s].owner = Nobody
    /\ session' = [session EXCEPT ![s] = [owner |-> user, by |-> by, ttl |-> ttl]]

(* refresh is EXPIRE, which does nothing to a key that is gone *)
Slide(s) ==
    session' = [session EXCEPT ![s].ttl = IF @ > 0 THEN SessionTTL ELSE 0]

-----------------------------------------------------------------------------
(* Logging in: the session, then the index. *)
Login(r, user) == \E s \in Sids :
    /\ job[r].step = "idle"
    /\ Create(s, user, Nobody, SessionTTL)
    /\ job' = [job EXCEPT ![r] = [Idle EXCEPT !.step = "index", !.to = s]]
    /\ UNCHANGED <<index, home>>

SetIndex(r) ==
    /\ job[r].step = "index"
    /\ index' = [index EXCEPT ![session[job[r].to].owner] =
                    [sid |-> job[r].to, ttl |-> SessionTTL]]
    /\ Finish(r)
    /\ UNCHANGED <<session, home>>

(* The guard finds the session of a request, then slides it. *)
Request(r, s) ==
    /\ job[r].step = "idle"
    /\ Issued(s) /\ Alive(s)
    /\ job' = [job EXCEPT ![r] = [Idle EXCEPT !.step = "refresh", !.sid = s]]
    /\ UNCHANGED <<session, index, home>>

(* Mutant: a SET, which brings back a session that ended meanwhile. *)
Refresh_Sets(r) ==
    /\ job[r].step = "refresh"
    /\ session' = [session EXCEPT ![job[r].sid].ttl = SessionTTL]
    /\ Goto(r, "handle")
    /\ UNCHANGED <<index, home>>

(* Mutant: milliseconds where Redis counts seconds. *)
Refresh_Milliseconds(r) ==
    /\ job[r].step = "refresh"
    /\ session' = [session EXCEPT ![job[r].sid].ttl = IF @ > 0 THEN 1000 * SessionTTL ELSE 0]
    /\ Goto(r, "handle")
    /\ UNCHANGED <<index, home>>

Refresh(r) ==
    /\ job[r].step = "refresh"
    /\ Slide(job[r].sid)
    /\ Goto(r, "handle")
    /\ UNCHANGED <<index, home>>

(* A request that leaves the sessions alone. *)
Answer(r) ==
    /\ job[r].step = "handle"
    /\ Finish(r)
    /\ UNCHANGED <<session, index, home>>

-----------------------------------------------------------------------------
(* update: the content of a parent's session is read, then what is left of *)
(* its life, then both are written back.                                   *)
Switch(r) == LET s == job[r].sid IN
    /\ job[r].step = "handle"
    /\ session[s].owner \notin Staff /\ Own(s) /\ Alive(s)
    /\ Goto(r, "ttl")
    /\ UNCHANGED <<session, index, home>>

ReadTTL(r) ==
    /\ job[r].step = "ttl"
    /\ job' = [job EXCEPT ![r].step = "set", ![r].ttl = session[job[r].sid].ttl]
    /\ UNCHANGED <<session, index, home>>

WriteBack(r) ==
    /\ job[r].step = "set"
    /\ session' = [session EXCEPT ![job[r].sid].ttl =
                      IF job[r].ttl > 0 THEN job[r].ttl ELSE SessionTTL]
    /\ Finish(r)
    /\ UNCHANGED <<index, home>>

-----------------------------------------------------------------------------
(* destroy reads the session, drops the index of its owner unless it is an *)
(* impersonation, and drops the session.                                   *)
ToDestroy(r, s) == job' = [job EXCEPT ![r].step = "destroy", ![r].to = s]

Logout(r) ==
    /\ job[r].step = "handle"
    /\ ToDestroy(r, job[r].sid)
    /\ UNCHANGED <<session, index, home>>

(* destroyByOpenid: ends the session the index names, if it names one *)
Kick(r, user) ==
    /\ job[r].step = "handle"
    /\ session[job[r].sid].owner \in Staff
    /\ IF index[user].ttl > 0 THEN ToDestroy(r, index[user].sid) ELSE Finish(r)
    /\ UNCHANGED <<session, index, home>>

(* Mutant: whose session it is, and not who made it, decides. *)
Destroy_AnyIndex(r) ==
    /\ job[r].step = "destroy"
    /\ Goto(r, IF Alive(job[r].to) THEN "unindex" ELSE "del")
    /\ UNCHANGED <<session, index, home>>

Destroy(r) ==
    /\ job[r].step = "destroy"
    /\ Goto(r, IF Alive(job[r].to) /\ Own(job[r].to) THEN "unindex" ELSE "del")
    /\ UNCHANGED <<session, index, home>>

Unindex(r) ==
    /\ job[r].step = "unindex"
    /\ index' = [index EXCEPT ![session[job[r].to].owner] = Gone]
    /\ Goto(r, "del")
    /\ UNCHANGED <<session, home>>

Del(r) ==
    /\ job[r].step = "del"
    /\ session' = [session EXCEPT ![job[r].to].ttl = 0]
    /\ Finish(r)
    /\ UNCHANGED <<index, home>>

-----------------------------------------------------------------------------
(* Mutant: like a login, an impersonation is put in the index. *)
Enter_Indexed(r, user) == \E s \in Sids : LET mine == session[job[r].sid] IN
    /\ job[r].step = "handle"
    /\ mine.owner \in Staff /\ mine.by = Nobody /\ user # mine.owner
    /\ Create(s, user, mine.owner, ImpTTL)
    /\ index' = [index EXCEPT ![user] = [sid |-> s, ttl |-> ImpTTL]]
    /\ job' = [job EXCEPT ![r].step = "home", ![r].to = s]
    /\ UNCHANGED home

(* enter: a session of `user`, the way back, and a full life for the       *)
(* session to go back to.  An impersonation cannot start another one.      *)
Enter(r, user) == \E s \in Sids : LET mine == session[job[r].sid] IN
    /\ job[r].step = "handle"
    /\ mine.owner \in Staff /\ mine.by = Nobody /\ user # mine.owner
    /\ Create(s, user, mine.owner, ImpTTL)
    /\ job' = [job EXCEPT ![r].step = "home", ![r].to = s]
    /\ UNCHANGED <<index, home>>

SetHome(r) ==
    /\ job[r].step = "home"
    /\ home' = [home EXCEPT ![job[r].to] = [sid |-> job[r].sid, ttl |-> ImpTTL]]
    /\ Goto(r, "keep")
    /\ UNCHANGED <<session, index>>

(* Mutant: the session to go back to is left to its own lifetime. *)
KeepAlive_Never(r) ==
    /\ job[r].step = "keep"
    /\ Finish(r)
    /\ UNCHANGED <<session, index, home>>

KeepAlive(r) ==
    /\ job[r].step = "keep"
    /\ Slide(job[r].sid)
    /\ Finish(r)
    /\ UNCHANGED <<index, home>>

(* exit: the way back is read, then dropped, then the impersonation ends.  *)
Exit(r) ==
    /\ job[r].step = "handle"
    /\ ~ Own(job[r].sid)
    /\ Goto(r, "forget")
    /\ UNCHANGED <<session, index, home>>

Forget(r) ==
    /\ job[r].step = "forget"
    /\ home' = [home EXCEPT ![job[r].sid] = Gone]
    /\ ToDestroy(r, job[r].sid)
    /\ UNCHANGED <<session, index>>

-----------------------------------------------------------------------------
(* A tick (half an hour) is long for a request: one may begin before it    *)
(* and end after it, none lasts for two.                                   *)
Less(n)   == IF n > 0 THEN n - 1 ELSE 0
Fade(key) == IF key.ttl > 1 THEN [key EXCEPT !.ttl = @ - 1] ELSE Gone

Tick ==
    /\ \A r \in Requests : ~ job[r].old
    /\ session' = [s \in Sids |-> [session[s] EXCEPT !.ttl = Less(@)]]
    /\ index' = [u \in Users |-> Fade(index[u])]
    /\ home' = [s \in Sids |-> Fade(home[s])]
    /\ job' = [r \in Requests |-> [job[r] EXCEPT !.old = job[r].step # "idle"]]

Next ==
    \/ \E r \in Requests :
        \/ SetIndex(r) \/ Refresh(r) \/ Answer(r)
        \/ Switch(r) \/ ReadTTL(r) \/ WriteBack(r)
        \/ Logout(r) \/ Destroy(r) \/ Unindex(r) \/ Del(r)
        \/ SetHome(r) \/ KeepAlive(r) \/ Exit(r) \/ Forget(r)
        \/ \E u \in Users : Login(r, u) \/ Kick(r, u) \/ Enter(r, u)
        \/ \E s \in Sids : Request(r, s)
    \/ Tick

Spec == Init /\ [][Next]_vars

-----------------------------------------------------------------------------
(* The index names only sessions their owner logged in for: forcing a      *)
(* person out never ends what somebody else does in that person's name     *)
(* (session.service.ts, create: indexByOpenid).                            *)
IndexNamesOwnSession == \A u \in Users :
    index[u].ttl > 0 => LET s == index[u].sid IN session[s].owner = u /\ Own(s)

(* An impersonation comes and goes without a trace in the index of the     *)
(* person impersonated: apart from the clock, only a login of that person, *)
(* or the end of a session that person logged in for, changes it.          *)
IndexIsItsOwners == [][\A u \in Users :
    index'[u] # index[u] =>
        \/ Tick
        \/ \E r \in Requests : /\ job'[r] # job[r]
                               /\ session[job[r].to].owner = u
                               /\ Own(job[r].to)]_vars

(* A session that ended stays ended whatever request of its own was under  *)
(* way, sliding it included, with update the one exception.                *)
OnlyUpdateRevives == [][\A s \in Sids :
    Issued(s) /\ ~ Alive(s) /\ session'[s].ttl > 0 =>
        \E r \in Requests : job[r].step = "set" /\ job[r].sid = s]_vars

(* As long as there is a way back from an impersonation, there is a live   *)
(* session to go back to, unless somebody logged out of it or was forced   *)
(* out: leaving an impersonation never meets a session that merely grew    *)
(* old (impersonate.service.ts, enter: keepAlive).                         *)
WayBackIsOpen == [][\A s \in Sids :
    home[s].ttl > 0 /\ home'[s].ttl > 0 /\ Alive(home[s].sid) /\ session'[home[s].sid].ttl = 0 =>
        \E r \in Requests : job[r].step = "del" /\ job[r].to = home[s].sid]_vars

(* Claimed (session.service.ts:39, the index lives as long as the session, *)
(* so that forcing out finds it): when forcing a person out finds nothing, *)
(* there is nothing to end.                                                *)
KickFindsSession == [][\A r \in Requests, u \in Users :
    Kick(r, u) /\ index[u].ttl = 0 =>
        \A s \in Sids : session[s].owner = u /\ Own(s) /\ Issued(s) => ~ Alive(s)]_vars

(* Sessions and index through logins, logouts, impersonations and forced   *)
(* ends: the three action properties above.                                *)
SessionsKept == IndexIsItsOwners /\ OnlyUpdateRevives /\ WayBackIsOpen
=============================================================================
