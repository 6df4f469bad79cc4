----------------------------- MODULE LoginLimit -----------------------------
(***************************************************************************)
(* The two limits in front of the login (rate-limit.guard.ts): a counter   *)
(* for the address an attempt comes from, then one for all addresses.      *)
(* check() increments a key, gives it its lifetime when it has just been   *)
(* created, and refuses the attempt when the count is above the limit.     *)
(* Every Redis command is a step; the caller may die, or Redis may fail,   *)
(* between two of them.                                                    *)
(***************************************************************************)
EXTENDS Integers, Redis

CONSTANTS
    Callers,    \* attempts in flight at a time
    Addresses,
    IpLimit,
    AllLimit,
    Window,     \* lifetime of a counter, in ticks
    MaxCount,   \* a counter counts no further: only "1" and "above the limit" matter
    PerTick,    \* bound on the attempts that begin within a tick
    MaxFaults   \* bound on the attempts that die

All  == "all"
Keys == Addresses \cup {All}

LimitsPositive == IpLimit \in Nat \ {0} /\ AllLimit \in Nat \ {0}
LimitsReached  == MaxCount \in Nat /\ MaxCount > AllLimit /\ MaxCount > 2 * IpLimit
WindowPositive == Window \in Nat \ {0}
AllIsNoAddress == All \notin Addresses
SomeAddress    == Addresses # {}
BoundsAreNat   == PerTick \in Nat /\ MaxFaults \in Nat

VARIABLES
    key,     \* the counters
    at,      \* where each attempt stands and where it comes from
    granted, \* by counter: attempts it let pass in its present life
    share,   \* by address: what it counted on the common counter's present life
    begun,   \* attempts begun since the last tick
    faults

vars == <<key, at, granted, share, begun, faults>>

Steps == {"idle", "expireIp", "countAll", "expireAll"}
LimitOf(k) == IF k = All THEN AllLimit ELSE IpLimit

TypeInv ==
    /\ key \in [Keys -> [val : 0..MaxCount, ttl : NoKey..Window]]
    /\ at \in [Callers -> [step : Steps, ip : Addresses]]
    /\ granted \in [Keys -> 0..MaxCount]
    /\ share \in [Addresses -> 0..MaxCount]
    /\ begun \in 0..PerTick
    /\ faults \in 0..MaxFaults

Init ==
    /\ key = [k \in Keys |-> Missing]
    /\ at = [c \in Callers |-> [step |-> "idle", ip |-> CHOOSE a \in Addresses : TRUE]]
    /\ granted = [k \in Keys |-> 0]
    /\ share = [a \in Addresses |-> 0]
    /\ begun = 0
    /\ faults = 0

(* Mutant: the first attempt above the limit passes too. *)
AfterIncr_OffByOne(k, n, expire, next) ==
    IF n = 1 THEN expire ELSE IF n > LimitOf(k) + 1 THEN "idle" ELSE next

(* Mutant: only the common counter refuses. *)
AfterIncr_OnlyAll(k, n, expire, next) ==
    IF n = 1 THEN expire ELSE IF k = All /\ n > LimitOf(k) THEN "idle" ELSE next

(* What follows the INCR of counter k that gave n: a counter that is new    *)
(* gets its lifetime first.                                                 *)
AfterIncr(k, n, expire, next) ==
    IF n = 1 THEN expire ELSE IF n > LimitOf(k) THEN "idle" ELSE next

Passes(k, n) == n = 1 \/ AfterIncr(k, n, "refused", "next") = "next"

UpTo(n) == IF n < MaxCount THEN n + 1 ELSE MaxCount

Count(k) ==
    /\ key' = [key EXCEPT ![k] = [Incr(@) EXCEPT !.val = UpTo(key[k].val)]]
    /\ granted' = [granted EXCEPT ![k] = IF Passes(k, key'[k].val) THEN UpTo(@) ELSE @]

CountIp(c, a) ==
    /\ at[c].step = "idle"
    /\ begun < PerTick
    /\ begun' = begun + 1
    /\ Count(a)
    /\ at' = [at EXCEPT ![c] = [step |-> AfterIncr(a, key'[a].val, "expireIp", "countAll"),
                                ip |-> a]]
    /\ UNCHANGED <<share, faults>>

(* Mutant: every attempt renews the lifetime. *)
CountAll_Renews(c) ==
    /\ at[c].step = "countAll"
    /\ Count(All)
    /\ at' = [at EXCEPT ![c].step = "expireAll"]
    /\ share' = [share EXCEPT ![at[c].ip] = UpTo(@)]
    /\ UNCHANGED <<begun, faults>>

CountAll(c) ==
    /\ at[c].step = "countAll"
    /\ Count(All)
    /\ at' = [at EXCEPT ![c].step = AfterIncr(All, key'[All].val, "expireAll", "idle")]
    /\ share' = [share EXCEPT ![at[c].ip] = UpTo(@)]
    /\ UNCHANGED <<begun, faults>>

(* Mutant: the address's counter never gets a lifetime. *)
ExpireKey_OnlyAll(c) ==
    /\ \/ /\ at[c].step = "expireIp"
          /\ at' = [at EXCEPT ![c].step = "countAll"]
          /\ UNCHANGED key
       \/ /\ at[c].step = "expireAll"
          /\ key' = [key EXCEPT ![All] = Expire(@, Window)]
          /\ at' = [at EXCEPT ![c].step = "idle"]
    /\ UNCHANGED <<granted, share, begun, faults>>

(* The key's lifetime starts. *)
ExpireKey(c) ==
    /\ \/ /\ at[c].step = "expireIp"
          /\ key' = [key EXCEPT ![at[c].ip] = Expire(@, Window)]
          /\ at' = [at EXCEPT ![c].step = "countAll"]
       \/ /\ at[c].step = "expireAll"
          /\ key' = [key EXCEPT ![All] = Expire(@, Window)]
          /\ at' = [at EXCEPT ![c].step = "idle"]
    /\ UNCHANGED <<granted, share, begun, faults>>

(* The process dies, or Redis fails, before the next command. *)
Die(c) ==
    /\ at[c].step # "idle"
    /\ faults < MaxFaults
    /\ at' = [at EXCEPT ![c].step = "idle"]
    /\ faults' = faults + 1
    /\ UNCHANGED <<key, granted, share, begun>>

Step(c) == (\E a \in Addresses : CountIp(c, a)) \/ CountAll(c) \/ ExpireKey(c)

(* A tick passes when no attempt is between two commands: an attempt is     *)
(* short against the lifetime of a counter.                                 *)
Tick ==
    /\ \A c \in Callers : at[c].step = "idle"
    /\ begun > 0 \/ \E k \in Keys : key[k].ttl > 0
    /\ begun' = 0
    /\ key' = [k \in Keys |-> Elapse(key[k])]
    /\ granted' = [k \in Keys |-> IF Exists(key'[k]) THEN granted[k] ELSE 0]
    /\ share' = [a \in Addresses |-> IF Exists(key'[All]) THEN share[a] ELSE 0]
    /\ UNCHANGED <<at, faults>>

Next == (\E c \in Callers : Step(c) \/ Die(c)) \/ Tick

Spec == Init /\ [][Next]_vars

-----------------------------------------------------------------------------
(* No counter lets more attempts pass in one life than its limit, whatever  *)
(* the order of the attempts and whoever dies.                              *)
WindowHolds == \A k \in Keys : granted[k] <= LimitOf(k)

(* The common limit is fair: in one of its windows an address takes at most *)
(* two of its own quotas, since two of its own windows touch it at most;    *)
(* what an address's counter refuses is not counted on the common one.      *)
(* (Unless a death left a counter without a lifetime.)                      *)
ShareBounded == faults = 0 => \A a \in Addresses : share[a] <= 2 * IpLimit

(* A counter has no lifetime only while an attempt is about to give it one, *)
(* or because an attempt died there.                                        *)
Expiring(k) ==
    \E c \in Callers : \/ at[c].step = "expireAll" /\ k = All
                       \/ at[c].step = "expireIp" /\ at[c].ip = k
Leaked(k) == key[k].ttl = NoExpiry /\ ~Expiring(k)
LeakHasCause == faults = 0 => \A k \in Keys : ~Leaked(k)

(* An address that is refused is let in again some day: its counter ends,   *)
(* refused attempts do not prolong it.  (Unless a death has left it without *)
(* a lifetime: then it refuses for ever.)                                   *)
WindowEnds == \A k \in Keys : Exists(key[k]) ~> (~Exists(key[k]) \/ Leaked(k))

(* The two limits hold together: no counter admits more than its limit, no  *)
(* address takes more than its share of the common one, and no counter is   *)
(* without a lifetime unless an attempt died.                               *)
LoginSafe == TypeInv /\ WindowHolds /\ ShareBounded /\ LeakHasCause
=============================================================================
