---------------------------- MODULE HighRiskGate ----------------------------
(***************************************************************************)
(* The second password (high-risk-gate.ts) as one address and one          *)
(* administrator see it, for each scope: a counter of failures, a lock and *)
(* the unlock that a right password earns, three Redis keys with lifetimes.*)
(* unlock() looks at the lock, then compares, then writes; attempts        *)
(* overlap, and the caller may die, or Redis fail, between two commands.   *)
(***************************************************************************)
EXTENDS Integers, FiniteSets, Redis

CONSTANTS
    Callers,
    Scopes,
    MaxFails,   \* GATE_MAX_FAILS
    LockTTL,    \* GATE_LOCK_SECONDS, of the counter and of the lock
    UnlockTTL,  \* GATE_UNLOCK_TTL_SECONDS
    PerTick,    \* bound on the attempts that begin within a tick
    MaxFaults   \* bound on the attempts that die

FiniteCallers  == IsFiniteSet(Callers)
NumbersArePositive ==
    MaxFails \in Nat \ {0} /\ LockTTL \in Nat \ {0} /\ UnlockTTL \in Nat \ {0}

SomeScope      == Scopes # {}
BoundsAreNat   == PerTick \in Nat /\ MaxFaults \in Nat

VARIABLES
    fail, lock, unlock,  \* by scope: the three keys
    att,                 \* the attempt each caller is making
    earned,              \* by scope: ticks since a right password, UnlockTTL when long ago
    begun,  \* attempts begun since the last tick
    faults

vars == <<fail, lock, unlock, att, earned, begun, faults>>

Steps    == {"idle", "compare", "expire", "lock", "clear", "grant"}
MostFails == MaxFails + Cardinality(Callers) + MaxFaults
Held(ttl) == [val |-> 1, ttl |-> ttl]

TypeInv ==
    /\ fail \in [Scopes -> [val : 0..MostFails, ttl : NoKey..LockTTL]]
    /\ lock \in [Scopes -> {Missing} \cup {Held(t) : t \in 1..LockTTL}]
    /\ unlock \in [Scopes -> {Missing} \cup {Held(t) : t \in 1..UnlockTTL}]
    /\ att \in [Callers -> [step : Steps, scope : Scopes, fails : 0..MostFails]]
    /\ earned \in [Scopes -> 0..UnlockTTL]
    /\ begun \in 0..PerTick
    /\ faults \in 0..MaxFaults

AtRest(s) == [step |-> "idle", scope |-> s, fails |-> 0]

Init ==
    /\ fail = [s \in Scopes |-> Missing]
    /\ lock = [s \in Scopes |-> Missing]
    /\ unlock = [s \in Scopes |-> Missing]
    /\ att = [c \in Callers |-> AtRest(CHOOSE s \in Scopes : TRUE)]
    /\ earned = [s \in Scopes |-> UnlockTTL]
    /\ begun = 0
    /\ faults = 0

Goto(c, step) == att' = [att EXCEPT ![c].step = step]

(* Mutant: the lock is not looked at. *)
CheckLock_Skips(c, s) ==
    /\ att[c].step = "idle"
    /\ begun < PerTick
    /\ begun' = begun + 1
    /\ att' = [att EXCEPT ![c] = [AtRest(s) EXCEPT !.step = "compare"]]
    /\ UNCHANGED <<fail, lock, unlock, earned, faults>>

(* A locked address is told so. *)
CheckLock(c, s) ==
    /\ att[c].step = "idle"
    /\ begun < PerTick
    /\ begun' = begun + 1
    /\ ~Exists(lock[s])
    /\ att' = [att EXCEPT ![c] = [AtRest(s) EXCEPT !.step = "compare"]]
    /\ UNCHANGED <<fail, lock, unlock, earned, faults>>

(* The password is wrong: the failure is counted. *)
Wrong(c) == LET s == att[c].scope IN
    /\ att[c].step = "compare"
    /\ fail' = [fail EXCEPT ![s] = Incr(@)]
    /\ att' = [att EXCEPT ![c] = [step |-> "expire", scope |-> s, fails |-> fail'[s].val]]
    /\ UNCHANGED <<lock, unlock, earned, begun, faults>>

(* Each failure starts the counter's lifetime anew; one too many locks. *)
ExpireFails(c) == LET s == att[c].scope IN
    /\ att[c].step = "expire"
    /\ fail' = [fail EXCEPT ![s] = Expire(@, LockTTL)]
    /\ Goto(c, IF att[c].fails >= MaxFails THEN "lock" ELSE "idle")
    /\ UNCHANGED <<lock, unlock, earned, begun, faults>>

(* Mutant: the lock has no lifetime. *)
SetLock_ForEver(c) ==
    /\ att[c].step = "lock"
    /\ lock' = [lock EXCEPT ![att[c].scope] = Held(NoExpiry)]
    /\ Goto(c, "idle")
    /\ UNCHANGED <<fail, unlock, earned, begun, faults>>

(* Mutant: the lock is given the lifetime of an unlock. *)
SetLock_AsUnlock(c) ==
    /\ att[c].step = "lock"
    /\ lock' = [lock EXCEPT ![att[c].scope] = Held(UnlockTTL)]
    /\ Goto(c, "idle")
    /\ UNCHANGED <<fail, unlock, earned, begun, faults>>

SetLock(c) ==
    /\ att[c].step = "lock"
    /\ lock' = [lock EXCEPT ![att[c].scope] = Held(LockTTL)]
    /\ Goto(c, "idle")
    /\ UNCHANGED <<fail, unlock, earned, begun, faults>>

(* The password is right. *)
Right(c) ==
    /\ att[c].step = "compare"
    /\ earned' = [earned EXCEPT ![att[c].scope] = 0]
    /\ Goto(c, "clear")
    /\ UNCHANGED <<fail, lock, unlock, begun, faults>>

ClearFails(c) ==
    /\ att[c].step = "clear"
    /\ fail' = [fail EXCEPT ![att[c].scope] = Missing]
    /\ Goto(c, "grant")
    /\ UNCHANGED <<lock, unlock, earned, begun, faults>>

(* Mutant: one unlock for every scope. *)
Grant_EveryScope(c) ==
    /\ att[c].step = "grant"
    /\ unlock' = [s \in Scopes |-> Held(UnlockTTL)]
    /\ Goto(c, "idle")
    /\ UNCHANGED <<fail, lock, earned, begun, faults>>

Grant(c) ==
    /\ att[c].step = "grant"
    /\ unlock' = [unlock EXCEPT ![att[c].scope] = Held(UnlockTTL)]
    /\ Goto(c, "idle")
    /\ UNCHANGED <<fail, lock, earned, begun, faults>>

(* lockScope: the administrator gives the unlock back. *)
LockScope(s) ==
    /\ Exists(unlock[s])
    /\ unlock' = [unlock EXCEPT ![s] = Missing]
    /\ UNCHANGED <<fail, lock, att, earned, begun, faults>>

(* The process dies, or Redis fails, before the next command. *)
Die(c) ==
    /\ att[c].step # "idle"
    /\ faults < MaxFaults
    /\ Goto(c, "idle")
    /\ faults' = faults + 1
    /\ UNCHANGED <<fail, lock, unlock, earned, begun>>

Attempt(c) ==
    \/ \E s \in Scopes : CheckLock(c, s)
    \/ Wrong(c) \/ ExpireFails(c) \/ SetLock(c)
    \/ Right(c) \/ ClearFails(c) \/ Grant(c)

(* A tick passes when no attempt is between two commands. *)
Tick ==
    /\ \A c \in Callers : att[c].step = "idle"
    /\ begun' = 0
    /\ fail' = [s \in Scopes |-> Elapse(fail[s])]
    /\ lock' = [s \in Scopes |-> Elapse(lock[s])]
    /\ unlock' = [s \in Scopes |-> Elapse(unlock[s])]
    /\ earned' = [s \in Scopes |-> IF earned[s] < UnlockTTL THEN earned[s] + 1 ELSE UnlockTTL]
    /\ UNCHANGED <<att, faults>>

Next ==
    \/ \E c \in Callers : Attempt(c) \/ Die(c)
    \/ \E s \in Scopes : LockScope(s)
    \/ Tick

Spec == Init /\ [][Next]_vars

-----------------------------------------------------------------------------
(* However attempts overlap, an address gets no more wrong guesses before    *)
(* it is locked than the limit and one for each attempt that was past the    *)
(* lock check by then (and one for each that died before it could lock).     *)
GuessesBounded ==
    \A s \in Scopes : fail[s].val < MaxFails + Cardinality(Callers) + faults

(* A counter that is full goes with a lock, or with an attempt that is about *)
(* to set it: who waits out the lock has all guesses again, and nobody with  *)
(* a full counter goes on guessing.                                          *)
FullMeansLocked ==
    \A s \in Scopes :
        fail[s].val >= MaxFails /\ faults = 0 =>
            \/ Exists(lock[s])
            \/ \E c \in Callers : att[c].scope = s /\ att[c].step \in {"expire", "lock"}

(* An unlock was earned in its own scope, and lasts no longer than its       *)
(* lifetime after the right password.                                        *)
UnlockIsEarned ==
    \A s \in Scopes : Exists(unlock[s]) => earned[s] + unlock[s].ttl <= UnlockTTL

(* A lock ends: an address that keeps trying does not prolong it.            *)
LockEnds == \A s \in Scopes : Exists(lock[s]) ~> ~Exists(lock[s])

(* The gate: wrong guesses are bounded, a full counter is locked, and what   *)
(* is open was opened with the password.                                     *)
GateSafe == TypeInv /\ GuessesBounded /\ FullMeansLocked /\ UnlockIsEarned
=============================================================================
