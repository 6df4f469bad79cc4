------------------------------ MODULE ApiToken ------------------------------
(***************************************************************************)
(* One API token (api-token.service.ts): its record in the database, the   *)
(* copy of it that loadToken keeps in Redis for CACHE_TTL_SECONDS, the     *)
(* requests that verify it and the administrators who change or revoke it. *)
(* Each call to Redis or the database is a step that may fail, or the      *)
(* process dies before it; between a read and the write or the cache fill  *)
(* that follows, the others go on.                                         *)
(***************************************************************************)
EXTENDS Integers

CONSTANTS
    Requests,
    Admins,
    CacheTTL,    \* lifetime of the cached copy, in ticks
    FirstExpiry, \* when the token expires as it was issued
    Expiries,    \* expiries an administrator may set
    Horizon,     \* bound on the clock
    MaxEdits     \* bound on what the administrators do

TTLPositive == CacheTTL \in Nat \ {0}
TimesAreNat == FirstExpiry \in Nat /\ Expiries \subseteq Nat
BoundsAreNat == Horizon \in Nat /\ MaxEdits \in Nat

VARIABLES
    db,        \* the record: what decides, its status and expiry
    cache,     \* the cached copy; none when its ttl is 0
    now,
    req,       \* where each request stands, the record it has read, and
               \* whether a revocation stood when the request arrived
    adm,       \* the change each administrator is making
    edits,
    revoked,   \* whether a revocation was ever written
    revokedAt, \* when the revoke() that stands returned or failed after its
               \* write: Never before, and again when an edit has enabled the token
    raced      \* whether the copy was out of date when it was filled in, or
               \* when dropping it failed

copyVars    == <<cache, raced>>
requestVars == <<copyVars, req>>
adminVars   == <<adm, edits, revoked, revokedAt>>
vars == <<db, now, requestVars, adminVars>>

Never    == -1
Statuses == {"enabled", "disabled", "revoked", "expired"}
Times    == {FirstExpiry} \cup Expiries
Issued   == [status |-> "enabled", expiresAt |-> FirstExpiry]
NoCopy   == [rec |-> Issued, ttl |-> 0]
AtRest   == [step |-> "idle", seen |-> Issued, late |-> FALSE]
Keep     == [status |-> "keep", expiresAt |-> Never]  \* a change of other fields
NoEdit   == [step |-> "idle", set |-> Keep]

RecordType == [status : Statuses, expiresAt : Times]
ReqSteps   == {"idle", "read", "fill", "expire", "dropExpired", "accepted"}
AdmSteps   == {"idle", "write", "drop"}
ChangeType == [status : Statuses \cup {"keep"}, expiresAt : Times \cup {Never}]

TypeInv ==
    /\ db \in RecordType
    /\ cache \in [rec : RecordType, ttl : 0..CacheTTL]
    /\ now \in 0..Horizon
    /\ req \in [Requests -> [step : ReqSteps, seen : RecordType, late : BOOLEAN]]
    /\ adm \in [Admins -> [step : AdmSteps, set : ChangeType]]
    /\ edits \in 0..MaxEdits
    /\ revoked \in BOOLEAN
    /\ revokedAt \in Never..Horizon
    /\ raced \in BOOLEAN

Init ==
    /\ db = Issued
    /\ cache = NoCopy
    /\ now = 0
    /\ req = [r \in Requests |-> AtRest]
    /\ adm = [a \in Admins |-> NoEdit]
    /\ edits = 0
    /\ revoked = FALSE
    /\ revokedAt = Never
    /\ raced = FALSE

-----------------------------------------------------------------------------
(* verify, once loadToken has answered with record f: a token that is not   *)
(* enabled is refused, one that has expired is marked, else the request is  *)
(* let in.                                                                  *)
Verdict(f) ==
    IF f.status # "enabled" THEN "idle"
    ELSE IF f.expiresAt # 0 /\ now > f.expiresAt THEN "expire"
    ELSE "accepted"

Goto(r, step, seen) == req' = [req EXCEPT ![r].step = step, ![r].seen = seen]

(* Mutant: a hit makes the copy live on. *)
Hit_Renews(r) ==
    /\ req[r].step = "idle"
    /\ cache.ttl > 0
    /\ cache' = [cache EXCEPT !.ttl = CacheTTL]
    /\ req' = [req EXCEPT ![r] = [step |-> Verdict(cache.rec), seen |-> Issued,
                                  late |-> revokedAt # Never]]
    /\ UNCHANGED <<db, raced, now, adminVars>>

Hit(r) ==
    /\ req[r].step = "idle"
    /\ cache.ttl > 0
    /\ req' = [req EXCEPT ![r] = [step |-> Verdict(cache.rec), seen |-> Issued,
                                  late |-> revokedAt # Never]]
    /\ UNCHANGED <<db, copyVars, now, adminVars>>

Miss(r) ==
    /\ req[r].step = "idle"
    /\ cache.ttl = 0
    /\ req' = [req EXCEPT ![r] = [step |-> "read", seen |-> Issued, late |-> revokedAt # Never]]
    /\ UNCHANGED <<db, copyVars, now, adminVars>>

ReadRecord(r) ==
    /\ req[r].step = "read"
    /\ Goto(r, "fill", db)
    /\ UNCHANGED <<db, copyVars, now, adminVars>>

(* Mutant: the lifetime is given in milliseconds to an option in seconds. *)
Fill_Milliseconds(r) ==
    /\ req[r].step = "fill"
    /\ cache' = [rec |-> req[r].seen, ttl |-> 1000 * CacheTTL]
    /\ raced' = (req[r].seen # db)
    /\ Goto(r, Verdict(req[r].seen), Issued)
    /\ UNCHANGED <<db, now, adminVars>>

(* The record goes into the cache as it was read. *)
Fill(r) ==
    /\ req[r].step = "fill"
    /\ cache' = [rec |-> req[r].seen, ttl |-> CacheTTL]
    /\ raced' = (req[r].seen # db)
    /\ Goto(r, Verdict(req[r].seen), Issued)
    /\ UNCHANGED <<db, now, adminVars>>

(* A write that fails is caught. *)
MarkExpired(r) ==
    /\ req[r].step = "expire"
    /\ db' \in {db, [db EXCEPT !.status = "expired"]}
    /\ Goto(r, "dropExpired", Issued)
    /\ UNCHANGED <<copyVars, now, adminVars>>

NoMoreCopy == cache' = NoCopy /\ raced' = FALSE

(* The copy is not dropped: the command fails, or the process dies first. *)
CopyStays == UNCHANGED cache /\ raced' = (raced \/ cache.rec # db)

DropExpired(r) ==
    /\ req[r].step = "dropExpired"
    /\ NoMoreCopy
    /\ Goto(r, "idle", Issued)
    /\ UNCHANGED <<db, now, adminVars>>

(* The request is answered with an error, or not at all. *)
FailRequest(r) ==
    /\ req[r].step \notin {"idle", "accepted"}
    /\ IF req[r].step = "dropExpired" THEN CopyStays ELSE UNCHANGED copyVars
    /\ Goto(r, "idle", Issued)
    /\ UNCHANGED <<db, now, adminVars>>

(* The request was let in; touch() drops the copy when it has written the   *)
(* usage count back.                                                        *)
Done(r) ==
    /\ req[r].step = "accepted"
    /\ req' = [req EXCEPT ![r] = AtRest]
    /\ UNCHANGED copyVars \/ NoMoreCopy
    /\ UNCHANGED <<db, now, adminVars>>

-----------------------------------------------------------------------------
(* update: the status it read decides whether the status may be set.        *)
StartUpdate(a) ==
    /\ adm[a].step = "idle"
    /\ edits < MaxEdits
    /\ \E s \in {"enabled", "disabled", "keep"}, e \in {Never} \cup {t \in Expiries : t > now} :
          /\ s # "keep" => db.status # "revoked"
          /\ adm' = [adm EXCEPT ![a] = [step |-> "write",
                                        set |-> [status |-> s, expiresAt |-> e]]]
    /\ edits' = edits + 1
    /\ UNCHANGED <<db, now, requestVars, revoked, revokedAt>>

StartRevoke(a) ==
    /\ adm[a].step = "idle"
    /\ edits < MaxEdits
    /\ adm' = [adm EXCEPT ![a] = [step |-> "write", set |-> [Keep EXCEPT !.status = "revoked"]]]
    /\ edits' = edits + 1
    /\ UNCHANGED <<db, now, requestVars, revoked, revokedAt>>

Merge(f, set) ==
    [status    |-> IF set.status = "keep" THEN f.status ELSE set.status,
     expiresAt |-> IF set.expiresAt = Never THEN f.expiresAt ELSE set.expiresAt]

Write(a) ==
    /\ adm[a].step = "write"
    /\ db' = Merge(db, adm[a].set)
    /\ adm' = [adm EXCEPT ![a].step = "drop"]
    /\ revoked' = (revoked \/ adm[a].set.status = "revoked")
    /\ revokedAt' = IF adm[a].set.status = "enabled" THEN Never ELSE revokedAt
    /\ UNCHANGED <<now, requestVars, edits>>

Ended(a) ==
    /\ adm' = [adm EXCEPT ![a] = NoEdit]
    /\ revokedAt' = IF adm[a].set.status = "revoked" /\ db.status # "enabled" /\ revokedAt = Never
                    THEN now ELSE revokedAt

(* Mutant: the cached copy is left to its lifetime. *)
Drop_LeavesCopy(a) ==
    /\ adm[a].step = "drop"
    /\ Ended(a)
    /\ UNCHANGED <<db, now, requestVars, edits, revoked>>

(* invalidate, after which update and revoke return. *)
Drop(a) ==
    /\ adm[a].step = "drop"
    /\ NoMoreCopy
    /\ Ended(a)
    /\ UNCHANGED <<db, now, req, edits, revoked>>

(* update or revoke ends with an error, or with the process, before its     *)
(* write or after it.                                                       *)
FailWrite(a) ==
    /\ adm[a].step = "write"
    /\ adm' = [adm EXCEPT ![a] = NoEdit]
    /\ UNCHANGED <<db, now, requestVars, edits, revoked, revokedAt>>

FailDrop(a) ==
    /\ adm[a].step = "drop"
    /\ CopyStays
    /\ Ended(a)
    /\ UNCHANGED <<db, now, req, edits, revoked>>

-----------------------------------------------------------------------------
BetweenCalls ==
    \/ \E r \in Requests : req[r].step \notin {"idle", "accepted"}
    \/ \E a \in Admins : adm[a].step # "idle"

(* A tick passes when nobody is between two calls: a call is short against  *)
(* the lifetime of the copy.                                                *)
Tick ==
    /\ ~BetweenCalls
    /\ now < Horizon \/ cache.ttl > 0
    /\ now' = IF now < Horizon THEN now + 1 ELSE now
    /\ IF cache.ttl > 1
       THEN cache' = [cache EXCEPT !.ttl = @ - 1] /\ UNCHANGED raced
       ELSE NoMoreCopy
    /\ UNCHANGED <<db, req, adminVars>>

Verify(r) == Hit(r) \/ Miss(r) \/ ReadRecord(r) \/ Fill(r) \/ MarkExpired(r) \/ DropExpired(r)
             \/ FailRequest(r) \/ Done(r)
Edit(a)   == StartUpdate(a) \/ StartRevoke(a) \/ Write(a) \/ Drop(a) \/ FailWrite(a) \/ FailDrop(a)

Next ==
    \/ \E r \in Requests : Verify(r)
    \/ \E a \in Admins : Edit(a)
    \/ Tick

Spec == Init /\ [][Next]_vars

-----------------------------------------------------------------------------
(* A request that arrives after revoke() has returned, or has failed once   *)
(* its write was done, is let in only from a copy of the record that a      *)
(* request racing with the revocation put back, or that was not dropped,    *)
(* and so for less than the lifetime of a copy.  (Unless an edit enables    *)
(* the token again: RevokedIsFinal.)                                        *)
RevokedWithinTTL ==
    [][\A r \in Requests :
          req[r].step # "accepted" /\ req'[r].step = "accepted" /\ req'[r].late
             => revokedAt = Never \/ now - revokedAt < CacheTTL]_vars

(* A copy that differs from the record has a cause that passes: the drop    *)
(* that follows the write is due or has failed, or a read that overlapped   *)
(* with the write filled it in.                                             *)
StaleHasCause ==
    cache.ttl > 0 /\ cache.rec # db =>
        \/ raced
        \/ \E a \in Admins : adm[a].step = "drop"
        \/ \E r \in Requests : req[r].step = "dropExpired"

(* A revoked token is never enabled again (api-token.service.ts:625).       *)
RevokedIsFinal == revoked => db.status # "enabled"

(* The types, and StaleHasCause: no cached copy is stale without a cause    *)
(* that passes.                                                             *)
CacheExplained == TypeInv /\ StaleHasCause
=============================================================================
