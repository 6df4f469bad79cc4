------------------------------ MODULE Counters ------------------------------
(***************************************************************************)
(* The five ways this program counts and limits: the slots of a gate       *)
(* (SlotGate), the spending of a group or account (UsageTier), the login   *)
(* limits (LoginLimit), the second password (HighRiskGate) and the uses of *)
(* a token (UseCount).  They share no key and no record, so a behaviour    *)
(* exercises one of them, chosen at the start: the states are the sum of   *)
(* the five and not their product.                                         *)
(***************************************************************************)
EXTENDS SlotGate

CONSTANTS
    Requests, Quota, LastPeriod, MaxAdmitted,
    Callers, Addresses, Scopes,
    IpLimit, AllLimit, Window, MaxCount,
    MaxFails, LockTTL, UnlockTTL,
    FlushTTL, MaxCalls,
    PerTick, MaxFaults

VARIABLES
    active,
    used, mark, period, req, admitted, spent,
    begun, faults,
    logins, at, granted, share,
    fail, lock, unlock, att, earned,
    count, flush, uses, touch, calls, missed, again

Tier  == INSTANCE UsageTier WITH Limit <- Quota
Login == INSTANCE LoginLimit WITH key <- logins
Gate  == INSTANCE HighRiskGate
Uses  == INSTANCE UseCount WITH at <- touch

ASSUME TierAssumptions  == Tier!RequestsFinite /\ Tier!QuotaPositive /\ Tier!BoundsAreNat
ASSUME LoginAssumptions ==
    /\ Login!LimitsPositive /\ Login!LimitsReached /\ Login!WindowPositive /\ Login!AllIsNoAddress
    /\ Login!SomeAddress /\ Login!BoundsAreNat
ASSUME GateAssumptions  ==
    Gate!FiniteCallers /\ Gate!NumbersArePositive /\ Gate!SomeScope /\ Gate!BoundsAreNat
ASSUME UsesAssumptions  == Uses!FlushPositive /\ Uses!BoundsAreNat

common    == <<begun, faults>>
tierVars  == <<used, mark, period, req, admitted, spent>>
loginVars == <<logins, at, granted, share>>
gateVars  == <<fail, lock, unlock, att, earned>>
usesVars  == <<count, flush, uses, touch, calls, missed, again>>
allVars   == <<active, vars, tierVars, common, loginVars, gateVars, usesVars>>

CountersInit ==
    /\ active \in {"slots", "tier", "login", "gate", "uses"}
    /\ Init /\ Tier!Init /\ Login!Init /\ Gate!Init /\ Uses!Init

SlotStep  == active = "slots" /\ Next       /\ UNCHANGED <<active, tierVars, common, loginVars, gateVars, usesVars>>
TierStep  == active = "tier"  /\ Tier!Next  /\ UNCHANGED <<active, vars, common, loginVars, gateVars, usesVars>>
LoginStep == active = "login" /\ Login!Next /\ UNCHANGED <<active, vars, tierVars, gateVars, usesVars>>
GateStep  == active = "gate"  /\ Gate!Next  /\ UNCHANGED <<active, vars, tierVars, loginVars, usesVars>>
UsesStep  == active = "uses"  /\ Uses!Next  /\ UNCHANGED <<active, vars, tierVars, begun, loginVars, gateVars>>

CountersNext == SlotStep \/ TierStep \/ LoginStep \/ GateStep \/ UsesStep

LoginGoesOn ==
    /\ active = "login"
    /\ Login!Tick \/ \E c \in Callers : Login!CountAll(c) \/ Login!ExpireKey(c)
    /\ UNCHANGED <<active, vars, tierVars, gateVars, usesVars>>

GateGoesOn ==
    /\ active = "gate"
    /\ Gate!Tick \/ \E c \in Callers : att[c].step # "idle" /\ Gate!Attempt(c)
    /\ UNCHANGED <<active, vars, tierVars, loginVars, usesVars>>

(* Attempts that have begun go on, and when none is under way time passes. *)
CountersSpec ==
    /\ CountersInit
    /\ [][CountersNext]_allVars
    /\ WF_allVars(LoginGoesOn \/ GateGoesOn)

-----------------------------------------------------------------------------
(* The invariants of UsageTier, LoginLimit, HighRiskGate and UseCount, stated there. *)
TierSafe  == Tier!TierSafe
LoginSafe == Login!LoginSafe
GateSafe  == Gate!GateSafe
UsesSafe  == Uses!UsesSafe

(* What goes wrong in a counter does not stay: the usage counter follows what is recorded *)
(* once a turn of the period has settled (UsageTier!ExactWhenSettled), a login window     *)
(* ends unless a death left it without a lifetime (LoginLimit!WindowEnds), and a lock of  *)
(* the second password ends (HighRiskGate!LockEnds).                                      *)
CountersSettle == Tier!ExactWhenSettled /\ Login!WindowEnds /\ Gate!LockEnds
=============================================================================
