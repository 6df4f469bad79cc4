------------------------------ MODULE SlotGate ------------------------------
(***************************************************************************)
(* One concurrency gate of the AI gateway: the Redis counter ai:conc:<key> *)
(* (per API key, acquireSlot/releaseSlot) or ai:aconc:<account> (per       *)
(* upstream account, acquireAccountSlot/releaseAccountSlot).  Both take a  *)
(* slot with INCR, EXPIRE, compare, and a DECR when the limit is passed;   *)
(* both give it back with an unconditional DECR; both let the caller in    *)
(* when Redis fails.  Every Redis command is awaited, so it is a step of   *)
(* its own.  (An account without a limit takes no slot but gives one back: *)
(* AiGateway models that case.)                                            *)
(***************************************************************************)
EXTENDS Integers, FiniteSets, Redis

CONSTANTS
    Clients,      \* requests that compete for this counter
    Limit,        \* slots
    TTL,          \* lifetime set by EXPIRE, in ticks (300 s in the code)
    MaxOpened,    \* bound on callers let in by a Redis error
    MaxLeaked,    \* bound on counts left behind by errors and crashes
    MaxForgotten  \* bound on callers under whom the lifetime runs out

ASSUME ClientsFinite == IsFiniteSet(Clients)
ASSUME LimitPositive == Limit \in Nat \ {0}
ASSUME TTLPositive   == TTL \in Nat \ {0}
ASSUME BoundsAreNat  == MaxOpened \in Nat /\ MaxLeaked \in Nat /\ MaxForgotten \in Nat

VARIABLES
    key,       \* the Redis counter
    gate,      \* where each client stands
    age,       \* ticks since the client's EXPIRE, capped at TTL
    opened,    \* callers let in because a Redis command failed
    leaked,    \* counts left behind by a failed DECR or a crash
    forgotten  \* callers who were counted when the lifetime ran out

vars == <<key, gate, age, opened, leaked, forgotten>>

(* counted, over: INCR answered, within or beyond the limit; undo: EXPIRE   *)
(* answered as well and the DECR of a refusal is due; in: let in by the     *)
(* comparison; open: let in by the catch that follows a Redis error.        *)
Phases == {"out", "counted", "over", "undo", "in", "open"}

TypeInv ==
    /\ key \in KeyType(TTL)
    /\ gate \in [Clients -> Phases]
    /\ age \in [Clients -> 0..TTL]
    /\ opened \in 0..MaxOpened
    /\ leaked \in 0..MaxLeaked
    /\ forgotten \in 0..MaxForgotten

At(phases) == {c \in Clients : gate[c] \in phases}

Holders  == At(Phases \ {"out"})
Admitted == At({"counted", "in", "open"})
Counted  == At({"counted", "over", "undo", "in"})

Init ==
    /\ key = Missing
    /\ gate = [c \in Clients |-> "out"]
    /\ age = [c \in Clients |-> 0]
    /\ opened = 0 /\ leaked = 0 /\ forgotten = 0

Goto(c, phase) ==
    /\ gate' = [gate EXCEPT ![c] = phase]
    /\ age' = [age EXCEPT ![c] = 0]

(* Mutant: the reply is compared as if it were the value before the INCR. *)
Enter_OffByOne(c) ==
    /\ gate[c] = "out"
    /\ key' = Incr(key)
    /\ Goto(c, IF key.val > Limit THEN "over" ELSE "counted")
    /\ UNCHANGED <<opened, leaked, forgotten>>

(* INCR: its reply decides whether the caller is within the limit. *)
Enter(c) ==
    /\ gate[c] = "out"
    /\ key' = Incr(key)
    /\ Goto(c, IF key.val + 1 > Limit THEN "over" ELSE "counted")
    /\ UNCHANGED <<opened, leaked, forgotten>>

(* Behind EXPIRE: where the INCR sent the client.  A client whose EXPIRE    *)
(* found no counter has no lifetime to count on.                            *)
Behind(c) ==
    /\ gate[c] \in {"counted", "over"}
    /\ gate' = [gate EXCEPT ![c] = IF @ = "counted" THEN "in" ELSE "undo"]
    /\ age' = [age EXCEPT ![c] = IF Exists(key) THEN 0 ELSE TTL]

(* Mutant: EXPIRE only for the caller that creates the counter. *)
SetTTL_CreatorOnly(c) ==
    /\ Behind(c)
    /\ key' = IF key.ttl = NoExpiry THEN Expire(key, TTL) ELSE key
    /\ UNCHANGED <<opened, leaked, forgotten>>

(* Mutant: the lifetime is one tick longer than the constant says. *)
SetTTL_OffByOne(c) ==
    /\ Behind(c)
    /\ key' = Expire(key, TTL + 1)
    /\ UNCHANGED <<opened, leaked, forgotten>>

SetTTL(c) ==
    /\ Behind(c)
    /\ key' = Expire(key, TTL)
    /\ UNCHANGED <<opened, leaked, forgotten>>

(* Mutant: the INCR of a refused caller is not taken back. *)
Leave_KeepsRefused(c) ==
    /\ gate[c] \in {"undo", "in", "open"}
    /\ key' = IF gate[c] = "undo" THEN key ELSE Decr(key)
    /\ Goto(c, "out")
    /\ UNCHANGED <<opened, leaked, forgotten>>

(* The refused caller takes its own INCR back; the caller that was let in   *)
(* gives its slot back, whether or not an INCR of its own succeeded.        *)
Leave(c) ==
    /\ gate[c] \in {"undo", "in", "open"}
    /\ key' = Decr(key)
    /\ Goto(c, "out")
    /\ UNCHANGED <<opened, leaked, forgotten>>

(* Time passes, wherever the callers are: nothing limits how long a slot is *)
(* held, since the timeout of the upstream covers the headers only          *)
(* (ai-proxy.util.ts:62), and the lifetime that others left may run out     *)
(* between the INCR and the EXPIRE of a caller.  Who is counted when it     *)
(* does is forgotten.                                                       *)
Tick ==
    /\ key' = Elapse(key)
    /\ age' = [c \in Clients |->
                 IF gate[c] \in {"in", "undo"} /\ age[c] < TTL THEN age[c] + 1 ELSE age[c]]
    /\ forgotten' = IF key.ttl \in {0, 1} THEN forgotten + Cardinality(Counted) ELSE forgotten
    /\ forgotten' <= MaxForgotten
    /\ UNCHANGED <<gate, opened, leaked>>

-----------------------------------------------------------------------------
(* Redis errors and crashes.  INCR fails: the caller is let in uncounted.  *)
EnterError(c) ==
    /\ gate[c] = "out"
    /\ opened < MaxOpened
    /\ opened' = opened + 1
    /\ Goto(c, "open")
    /\ UNCHANGED <<key, leaked, forgotten>>

(* EXPIRE fails: the caller is let in, even beyond the limit. *)
SetTTLError(c) ==
    /\ gate[c] \in {"counted", "over"}
    /\ opened < MaxOpened
    /\ opened' = opened + 1
    /\ Goto(c, "open")
    /\ UNCHANGED <<key, leaked, forgotten>>

(* DECR fails: the error is swallowed and the count stays. *)
LeaveError(c) ==
    /\ gate[c] \in {"undo", "in", "open"}
    /\ leaked < MaxLeaked
    /\ leaked' = leaked + 1
    /\ Goto(c, "out")
    /\ UNCHANGED <<key, opened, forgotten>>

(* The process dies with every request in it; Redis keeps the counter. *)
Crash ==
    /\ Holders # {}
    /\ leaked + Cardinality(Holders) <= MaxLeaked
    /\ leaked' = leaked + Cardinality(Holders)
    /\ gate' = [c \in Clients |-> "out"]
    /\ age' = [c \in Clients |-> 0]
    /\ UNCHANGED <<key, opened, forgotten>>

Next ==
    \/ \E c \in Clients :
          Enter(c) \/ SetTTL(c) \/ Leave(c) \/ EnterError(c) \/ SetTTLError(c) \/ LeaveError(c)
    \/ Tick
    \/ Crash

Spec == Init /\ [][Next]_vars

(* Time passes, every awaited command is answered, and requests keep coming *)
FairSpec ==
    /\ Spec /\ WF_vars(Tick)
    /\ \A c \in Clients : WF_vars(Enter(c) \/ SetTTL(c) \/ Leave(c))

-----------------------------------------------------------------------------
(* A lifetime lasts its TTL: since every attempt renews it, the counter is  *)
(* there for TTL ticks after the EXPIRE of whoever is behind it             *)
(* (ai-route.service.ts:1042).                                              *)
LifetimeCovers ==
    \A c \in Clients :
        gate[c] \in {"in", "undo"} /\ age[c] < TTL => key.ttl >= TTL - age[c]

(* The counter is the number of slots taken, up to the callers let in by an *)
(* error (each lowers it by at most one, since its release is not paired    *)
(* with an INCR), the callers forgotten with a counter that ran out (their  *)
(* releases lower the next one), and the counts leaked by a failed DECR or  *)
(* a crash.  With none of these it is exact: every acquire, refusal and     *)
(* release pairs up.  And nobody is forgotten in the TTL after the EXPIRE.  *)
CounterDrift ==
    /\ Cardinality(Holders) - opened - forgotten <= key.val
    /\ key.val <= Cardinality(Holders) + leaked
    /\ LifetimeCovers

(* The concurrency gate (ai-route.service.ts:24, 1027): no more than Limit  *)
(* callers are let in at a time, plus one for each Redis error so far and   *)
(* one for each caller under whom the counter ran out.  Crashes and lost    *)
(* DECRs never let anyone in.                                               *)
OverAdmissionBounded == Cardinality(Admitted) <= Limit + opened + forgotten

(* A caller is refused only when the counter holds at least Limit other     *)
(* callers or leaked counts.                                                *)
RefusalJustified ==
    [][\A c \in Clients :
          (gate[c] = "out" /\ gate'[c] = "over") => Cardinality(Holders) + leaked >= Limit]_vars

Abstract == INSTANCE Semaphore WITH inside <- Admitted, extra <- opened + forgotten

(* The gate is a counting semaphore, which each admission through a Redis   *)
(* error and each caller under whom the counter ran out widens by one;      *)
(* crashes and lost DECRs do not touch the promise.                         *)
IsSemaphore == Abstract!Spec

(* Leaked counts go away: the lifetime on the counter is there so that a    *)
(* process that exits abnormally cannot block it for ever                   *)
(* (ai-route.service.ts:1042).                                              *)
LeakHeals == key.val > Cardinality(Holders) ~> key.val <= Cardinality(Holders)
=============================================================================
