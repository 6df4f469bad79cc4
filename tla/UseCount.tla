------------------------------ MODULE UseCount ------------------------------
(***************************************************************************)
(* How the uses of an API token are counted (touch, api-token.service.ts): *)
(* every call increments a key of Redis; the call that takes the flush key *)
(* (SET NX EX) adds what the key holds to the record and deletes the key.  *)
(* Errors are swallowed, wherever they strike: the request goes on.        *)
(***************************************************************************)
EXTENDS Integers, Redis

CONSTANTS
    Callers,
    FlushTTL,   \* COUNTER_FLUSH_SECONDS, in ticks
    MaxCalls,   \* bound on the calls
    MaxFaults   \* bound on the calls that fail on the way

FlushPositive == FlushTTL \in Nat \ {0}
BoundsAreNat  == MaxCalls \in Nat /\ MaxFaults \in Nat

VARIABLES
    count, flush,  \* the two keys
    uses,          \* the number in the record
    at,            \* where each call stands and the count it has read
    calls,         \* calls made
    missed,        \* calls deleted from the key without having been added
    again,         \* calls added and left in the key
    faults

vars == <<count, flush, uses, at, calls, missed, again, faults>>

AtRest == [step |-> "idle", n |-> 0]

TypeInv ==
    /\ count \in {Missing} \cup {[val |-> n, ttl |-> NoExpiry] : n \in 1..MaxCalls}
    /\ flush \in {Missing} \cup {[val |-> 1, ttl |-> t] : t \in 1..FlushTTL}
    /\ uses \in 0..(MaxCalls * (MaxFaults + 1))
    /\ at \in [Callers -> [step : {"idle", "claim", "read", "add", "drop"}, n : 0..MaxCalls]]
    /\ calls \in 0..MaxCalls
    /\ missed \in 0..MaxCalls
    /\ again \in 0..(MaxCalls * MaxFaults)
    /\ faults \in 0..MaxFaults

Init ==
    /\ count = Missing
    /\ flush = Missing
    /\ uses = 0
    /\ at = [c \in Callers |-> AtRest]
    /\ calls = 0
    /\ missed = 0
    /\ again = 0
    /\ faults = 0

CountCall(c) ==
    /\ at[c].step = "idle"
    /\ calls < MaxCalls
    /\ calls' = calls + 1
    /\ count' = Incr(count)
    /\ at' = [at EXCEPT ![c].step = "claim"]
    /\ UNCHANGED <<flush, uses, missed, again, faults>>

(* Mutant: SET without NX. *)
Claim_Always(c) ==
    /\ at[c].step = "claim"
    /\ at' = [at EXCEPT ![c].step = "read"]
    /\ flush' = [val |-> 1, ttl |-> FlushTTL]
    /\ UNCHANGED <<count, uses, calls, missed, again, faults>>

(* SET NX EX: one call in FlushTTL goes on. *)
Claim(c) ==
    /\ at[c].step = "claim"
    /\ IF Exists(flush)
       THEN at' = [at EXCEPT ![c] = AtRest] /\ UNCHANGED flush
       ELSE at' = [at EXCEPT ![c].step = "read"] /\ flush' = [val |-> 1, ttl |-> FlushTTL]
    /\ UNCHANGED <<count, uses, calls, missed, again, faults>>

(* Nothing to add ends the call. *)
ReadCount(c) ==
    /\ at[c].step = "read"
    /\ at' = [at EXCEPT ![c] = IF count.val = 0 THEN AtRest ELSE [step |-> "add", n |-> count.val]]
    /\ UNCHANGED <<count, flush, uses, calls, missed, again, faults>>

(* addNumber: one SQL expression. *)
AddUses(c) ==
    /\ at[c].step = "add"
    /\ uses' = uses + at[c].n
    /\ at' = [at EXCEPT ![c].step = "drop"]
    /\ UNCHANGED <<count, flush, calls, missed, again, faults>>

(* Mutant: the key is left to the next flush. *)
DropCount_Forgets(c) ==
    /\ at[c].step = "drop"
    /\ at' = [at EXCEPT ![c] = AtRest]
    /\ UNCHANGED <<count, flush, uses, calls, missed, again, faults>>

DropCount(c) ==
    /\ at[c].step = "drop"
    /\ missed' = missed + (count.val - at[c].n)
    /\ count' = Missing
    /\ at' = [at EXCEPT ![c] = AtRest]
    /\ UNCHANGED <<flush, uses, calls, again, faults>>

(* An error is swallowed; a count that was added stays in the key. *)
FailTouch(c) ==
    /\ at[c].step # "idle"
    /\ faults < MaxFaults
    /\ faults' = faults + 1
    /\ again' = again + IF at[c].step = "drop" THEN at[c].n ELSE 0
    /\ at' = [at EXCEPT ![c] = AtRest]
    /\ UNCHANGED <<count, flush, uses, calls, missed>>

(* A tick passes when no call is between two commands. *)
Tick ==
    /\ \A c \in Callers : at[c].step = "idle"
    /\ Exists(flush)
    /\ flush' = Elapse(flush)
    /\ UNCHANGED <<count, uses, at, calls, missed, again, faults>>

Touch(c) == CountCall(c) \/ Claim(c) \/ ReadCount(c) \/ AddUses(c) \/ DropCount(c)

Next == (\E c \in Callers : Touch(c) \/ FailTouch(c)) \/ Tick

Spec == Init /\ [][Next]_vars

-----------------------------------------------------------------------------
(* Every call is in the record or in the key, once: one flush at a time adds *)
(* and deletes.  Missing are only calls that came while a flush was between  *)
(* its GET and its DEL; twice there are only those a failed flush left.      *)
Dropping(c) == at[c].step = "drop"

UsesBalance ==
    /\ \A c \in Callers : Dropping(c) => uses + count.val + missed = calls + again + at[c].n
    /\ (\A c \in Callers : ~Dropping(c)) => uses + count.val + missed = calls + again

(* A flush that has not failed never counts a call twice.                    *)
NeverOvercounted == faults = 0 => uses <= calls

(* The books of the uses: they balance at every moment, and err only on the  *)
(* low side unless a flush failed.                                           *)
UsesSafe == TypeInv /\ UsesBalance /\ NeverOvercounted
=============================================================================
