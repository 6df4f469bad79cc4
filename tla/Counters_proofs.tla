--------------------------- MODULE Counters_proofs --------------------------
(***************************************************************************)
(* Proofs about the five counters (Counters), for every set of callers,    *)
(* every limit, lifetime and bound: the spending of a period (UsageTier),  *)
(* the login limits (LoginLimit), the second password (HighRiskGate) and   *)
(* the uses of a token (UseCount), and last the gate of slots (SlotGate).  *)
(***************************************************************************)
EXTENDS Counters, FiniteSetTheorems, TLAPS

(* Two sets of the same finite universe that differ at most in c. *)
LEMMA OneMoves ==
  ASSUME NEW U, IsFiniteSet(U), NEW c \in U,
         NEW A \in SUBSET U, NEW B \in SUBSET U, A \ {c} = B \ {c}
  PROVE  /\ Cardinality(A) \in Nat /\ Cardinality(B) \in Nat
         /\ Cardinality(A) <= Cardinality(U) /\ Cardinality(B) <= Cardinality(U)
         /\ c \in A /\ c \in B       => Cardinality(B) = Cardinality(A)
         /\ c \notin A /\ c \notin B => Cardinality(B) = Cardinality(A)
         /\ c \notin A /\ c \in B    => Cardinality(B) = Cardinality(A) + 1
         /\ c \in A /\ c \notin B    => Cardinality(B) = Cardinality(A) - 1
<1>1. IsFiniteSet(A) /\ IsFiniteSet(B) /\ Cardinality(U) \in Nat
      /\ Cardinality(A) <= Cardinality(U) /\ Cardinality(B) <= Cardinality(U)
  BY FS_Subset, FS_CardinalityType
<1>2. Cardinality(A) \in Nat /\ Cardinality(B) \in Nat
  BY <1>1, FS_CardinalityType
<1>3. CASE c \in A /\ c \in B
  BY <1>1, <1>2, <1>3
<1>4. CASE c \notin A /\ c \notin B
  BY <1>1, <1>2, <1>4
<1>5. CASE c \notin A /\ c \in B
  <2>1. B = A \cup {c}
    BY <1>5
  <2>2. QED
    BY <1>1, <1>2, <1>5, <2>1, FS_AddElement
<1>6. CASE c \in A /\ c \notin B
  <2>1. B = A \ {c}
    BY <1>6
  <2>2. QED
    BY <1>1, <1>2, <1>6, <2>1, FS_RemoveElement
<1>7. QED
  BY <1>3, <1>4, <1>5, <1>6

LEMMA SubsetCounts ==
  ASSUME NEW U, IsFiniteSet(U), NEW A \in SUBSET U, NEW B \in SUBSET A
  PROVE  /\ Cardinality(A) \in Nat /\ Cardinality(B) \in Nat /\ Cardinality(U) \in Nat
         /\ Cardinality(B) <= Cardinality(A) /\ Cardinality(A) <= Cardinality(U)
<1>1. IsFiniteSet(A)
  BY FS_Subset
<1>2. QED
  BY <1>1, FS_Subset, FS_CardinalityType

-----------------------------------------------------------------------------
(* The spending of a period (UsageTier).                                   *)

LEMMA TierFinite == \A S : Tier!IsFiniteSet(S) <=> IsFiniteSet(S)
  BY DEF Tier!IsFiniteSet, IsFiniteSet

LEMMA TierCardinality == \A S : Tier!Cardinality(S) = Cardinality(S)
  BY DEF Tier!Cardinality, Cardinality

LEMMA TierConstants ==
    IsFiniteSet(Requests) /\ Quota \in Nat \ {0} /\ LastPeriod \in Nat /\ MaxAdmitted \in Nat
  BY TierAssumptions, TierFinite DEF Tier!RequestsFinite, Tier!QuotaPositive, Tier!BoundsAreNat

(* Requests in flight; those that will add to the counter as it stands      *)
(* unless it is reset first; those that will add to the counter of another  *)
(* period than theirs, because it was reset after they looked.              *)
InFlight == {r \in Requests : req[r].step # "idle"}
WillAdd == {r \in Requests : \/ req[r].step = "forward" /\ period = mark
                             \/ req[r].step = "read" /\ req[r].period = mark
                             \/ req[r].step = "bump" /\ req[r].seen = req[r].period}
Strays == {r \in Requests : /\ req[r].step = "bump"
                            /\ req[r].seen = req[r].period
                            /\ req[r].period # mark}

RequestType == [step : Tier!Steps, period : Tier!Periods, seen : Tier!Periods]

(* No request is of a period to come, and neither is the mark; the counters *)
(* hold what requests that are done have added; what may still be added     *)
(* counts against the two bounds in advance.                                *)
TierInv ==
    /\ used \in Nat /\ admitted \in 0..MaxAdmitted
    /\ mark \in Tier!Periods /\ period \in Tier!Periods
    /\ req \in [Requests -> RequestType]
    /\ spent \in [Tier!Periods -> Nat]
    /\ mark <= period
    /\ \A r \in Requests : req[r].step \in {"read", "bump"} => req[r].period <= period
    /\ used + Cardinality(InFlight) <= admitted
    /\ \A p \in Tier!Periods : spent[p] + Cardinality(InFlight) <= admitted
    /\ used + Cardinality(WillAdd) <= Quota - 1 + Cardinality(Requests)
    /\ used + Cardinality(Strays) <= spent[mark] + Cardinality(Requests)

LEMMA TierCounts ==
    /\ Cardinality(InFlight) \in Nat /\ Cardinality(InFlight) <= Cardinality(Requests)
    /\ Cardinality(WillAdd) \in Nat /\ Cardinality(WillAdd) <= Cardinality(Requests)
    /\ Cardinality(Strays) \in Nat /\ Cardinality(Strays) <= Cardinality(Requests)
    /\ Cardinality(Requests) \in Nat
<1>1. /\ InFlight \in SUBSET Requests /\ WillAdd \in SUBSET Requests
      /\ Strays \in SUBSET Requests
  BY DEF InFlight, WillAdd, Strays
<1>2. \A A \in SUBSET Requests : Cardinality(A) \in Nat /\ Cardinality(A) <= Cardinality(Requests)
  BY TierConstants, FS_Subset, FS_CardinalityType
<1>3. QED
  BY <1>1, <1>2, TierConstants, FS_CardinalityType

LEMMA TierInit == Tier!Init => TierInv
<1>1. SUFFICES ASSUME Tier!Init PROVE TierInv
  OBVIOUS
<1>2. InFlight = {} /\ WillAdd = {} /\ Strays = {}
  BY <1>1 DEF Tier!Init, Tier!Idle, InFlight, WillAdd, Strays
<1>3. Cardinality({}) = 0 /\ Cardinality(Requests) \in Nat
  BY FS_EmptySet, TierCounts
<1>4. 0 \in Tier!Periods /\ Tier!Idle \in RequestType
  BY TierConstants DEF Tier!Periods, Tier!Idle, RequestType, Tier!Steps
<1>5. QED
  BY <1>1, <1>2, <1>3, <1>4, TierConstants DEF Tier!Init, TierInv, Tier!Idle

LEMMA TierAdmit ==
  ASSUME TierInv, NEW r \in Requests, Tier!Admit(r)
  PROVE  TierInv'
<1> USE TierConstants
<1>1. req' \in [Requests -> RequestType]
  BY DEF Tier!Admit, TierInv, RequestType, Tier!Steps
<1>2. Cardinality(InFlight') = Cardinality(InFlight) + 1
  <2>1. /\ InFlight \ {r} = InFlight' \ {r} /\ r \notin InFlight /\ r \in InFlight'
        /\ InFlight \in SUBSET Requests /\ InFlight' \in SUBSET Requests
    BY DEF Tier!Admit, TierInv, RequestType, InFlight
  <2>2. QED
    BY <2>1, OneMoves
<1>3. used' + Cardinality(WillAdd') <= Quota - 1 + Cardinality(Requests)
  <2>1. Cardinality(WillAdd') <= Cardinality(Requests) /\ Cardinality(WillAdd') \in Nat
    BY TierCounts, SubsetCounts, WillAdd' \in SUBSET Requests DEF WillAdd
  <2>2. CASE mark = period
    BY <2>1, <2>2, TierCounts DEF Tier!Admit, TierInv
  <2>3. CASE mark # period
    <3>1. WillAdd' = WillAdd
      BY <2>3 DEF Tier!Admit, TierInv, RequestType, WillAdd
    <3>2. QED
      BY <3>1 DEF Tier!Admit, TierInv
  <2>4. QED
    BY <2>2, <2>3
<1>4. Strays' = Strays
  BY DEF Tier!Admit, TierInv, RequestType, Strays
<1>5. \A x \in Requests : req'[x].step \in {"read", "bump"} => req'[x].period <= period'
  BY DEF Tier!Admit, TierInv, RequestType
<1>6. QED
  BY <1>1, <1>2, <1>3, <1>4, <1>5, TierCounts DEF Tier!Admit, TierInv

LEMMA TierReadClock ==
  ASSUME TierInv, NEW r \in Requests, Tier!ReadClock(r)
  PROVE  TierInv'
<1>1. req' \in [Requests -> RequestType]
  BY TierConstants DEF Tier!ReadClock, TierInv, RequestType, Tier!Steps, Tier!Periods
<1>2. InFlight' = InFlight /\ WillAdd' = WillAdd /\ Strays' = Strays
  BY DEF Tier!ReadClock, TierInv, RequestType, InFlight, WillAdd, Strays
<1>3. \A x \in Requests : req'[x].step \in {"read", "bump"} => req'[x].period <= period'
  BY DEF Tier!ReadClock, TierInv, RequestType, Tier!Periods
<1>4. QED
  BY <1>1, <1>2, <1>3 DEF Tier!ReadClock, TierInv

LEMMA TierReadMark ==
  ASSUME TierInv, NEW r \in Requests, Tier!ReadMark(r)
  PROVE  TierInv'
<1>1. req' \in [Requests -> RequestType]
  BY DEF Tier!ReadMark, TierInv, RequestType, Tier!Steps
<1>2. InFlight' = InFlight /\ WillAdd' = WillAdd /\ Strays' = Strays
  BY DEF Tier!ReadMark, TierInv, RequestType, InFlight, WillAdd, Strays
<1>3. \A x \in Requests : req'[x].step \in {"read", "bump"} => req'[x].period <= period'
  BY DEF Tier!ReadMark, TierInv, RequestType
<1>4. QED
  BY <1>1, <1>2, <1>3 DEF Tier!ReadMark, TierInv

(* A request that adds leaves the sets it was counted in; one that resets   *)
(* leaves a counter of one and makes room for all others.                   *)
LEMMA TierBump ==
  ASSUME TierInv, NEW r \in Requests, Tier!Bump(r)
  PROVE  TierInv'
<1>1. Tier!Idle \in RequestType /\ req[r] \in RequestType /\ req[r].period \in Tier!Periods
  BY TierConstants DEF TierInv, RequestType, Tier!Idle, Tier!Steps, Tier!Periods
<1>2. /\ req' \in [Requests -> RequestType] /\ req'[r] = Tier!Idle
      /\ \A x \in Requests \ {r} : req'[x] = req[x]
  BY <1>1 DEF Tier!Bump, TierInv
<1>3. Cardinality(InFlight') = Cardinality(InFlight) - 1 /\ Cardinality(InFlight') \in Nat
  <2>1. /\ InFlight \ {r} = InFlight' \ {r} /\ r \in InFlight /\ r \notin InFlight'
        /\ InFlight \in SUBSET Requests /\ InFlight' \in SUBSET Requests
    BY <1>2 DEF Tier!Bump, Tier!Idle, InFlight
  <2>2. QED
    BY <2>1, OneMoves, TierConstants
<1>4. \A x \in Requests : req'[x].step \in {"read", "bump"} => req'[x].period <= period'
  BY <1>2 DEF Tier!Bump, TierInv, Tier!Idle
<1>5. /\ spent' \in [Tier!Periods -> Nat]
      /\ spent'[req[r].period] = spent[req[r].period] + 1
      /\ \A p \in Tier!Periods : spent'[p] + Cardinality(InFlight') <= admitted'
  BY <1>1, <1>3, TierCounts DEF Tier!Bump, TierInv
<1>6. CASE req[r].seen = req[r].period
  <2>1. used' = used + 1 /\ mark' = mark /\ period' = period
    BY <1>6 DEF Tier!Bump
  <2>2. Cardinality(WillAdd') = Cardinality(WillAdd) - 1
    <3>1. /\ WillAdd \ {r} = WillAdd' \ {r} /\ r \in WillAdd /\ r \notin WillAdd'
          /\ WillAdd \in SUBSET Requests /\ WillAdd' \in SUBSET Requests
      BY <1>2, <1>6, <2>1 DEF Tier!Bump, Tier!Idle, WillAdd
    <3>2. QED
      BY <3>1, OneMoves, TierConstants
  <2>3. used' + Cardinality(Strays') <= spent'[mark'] + Cardinality(Requests)
    <3>1. /\ Strays \ {r} = Strays' \ {r} /\ r \notin Strays'
          /\ Strays \in SUBSET Requests /\ Strays' \in SUBSET Requests
      BY <1>2, <2>1 DEF Tier!Idle, Strays
    <3>2. CASE req[r].period = mark
      <4>1. r \notin Strays /\ spent'[mark] = spent[mark] + 1
        BY <1>5, <3>2 DEF Strays
      <4>2. Cardinality(Strays') = Cardinality(Strays)
        BY <3>1, <4>1, OneMoves, TierConstants
      <4>3. QED
        BY <2>1, <4>1, <4>2, TierCounts DEF TierInv
    <3>3. CASE req[r].period # mark
      <4>1. r \in Strays /\ spent'[mark] = spent[mark]
        BY <1>1, <1>6, <3>3 DEF Strays, Tier!Bump, TierInv
      <4>2. Cardinality(Strays') = Cardinality(Strays) - 1
        BY <3>1, <4>1, OneMoves, TierConstants
      <4>3. QED
        BY <2>1, <4>1, <4>2, TierCounts DEF TierInv
    <3>4. QED
      BY <3>2, <3>3
  <2>4. QED
    BY <1>2, <1>3, <1>4, <1>5, <2>1, <2>2, <2>3, TierCounts DEF Tier!Bump, TierInv
<1>7. CASE req[r].seen # req[r].period
  <2>1. used' = 1 /\ mark' = req[r].period /\ period' = period /\ admitted' = admitted
    BY <1>7 DEF Tier!Bump
  <2>2. Cardinality(WillAdd') <= Cardinality(Requests) - 1 /\ Cardinality(WillAdd') \in Nat
    <3>1. WillAdd' \in SUBSET (Requests \ {r})
      BY <1>2 DEF WillAdd, Tier!Idle
    <3>2. IsFiniteSet(Requests \ {r}) /\ Cardinality(Requests \ {r}) = Cardinality(Requests) - 1
      BY TierConstants, FS_RemoveElement
    <3>3. QED
      BY <3>1, <3>2, FS_Subset, FS_CardinalityType
  <2>3. Cardinality(Strays') \in Nat /\ Cardinality(Strays') <= Cardinality(Requests)
    BY TierConstants, SubsetCounts, Strays' \in SUBSET Requests DEF Strays
  <2>4. 1 <= spent'[mark']
    BY <1>1, <1>5, <2>1 DEF TierInv
  <2>5. mark' <= period' /\ mark' \in Tier!Periods
    BY <1>1, <2>1 DEF Tier!Bump, TierInv
  <2>6. 1 + Cardinality(InFlight') <= admitted'
    BY <1>3, <2>1, TierCounts DEF TierInv
  <2>7. used' + Cardinality(Strays') <= spent'[mark'] + Cardinality(Requests)
    BY <1>5, <2>1, <2>3, <2>4, <2>5, TierCounts
  <2>8. used' + Cardinality(WillAdd') <= Quota - 1 + Cardinality(Requests)
    BY <2>1, <2>2, TierCounts, TierConstants
  <2>9. QED
    BY <1>2, <1>3, <1>4, <1>5, <2>1, <2>5, <2>6, <2>7, <2>8 DEF Tier!Bump, TierInv
<1>8. QED
  BY <1>6, <1>7

(* A new period parts the counter from those who have not read the clock. *)
LEMMA TierNextPeriod ==
  ASSUME TierInv, Tier!NextPeriod
  PROVE  TierInv'
<1>1. InFlight' = InFlight /\ Strays' = Strays
  BY DEF Tier!NextPeriod, InFlight, Strays
<1>2. period' \in Tier!Periods /\ mark' <= period' /\ period <= period' /\ period' # mark
  BY TierConstants DEF Tier!NextPeriod, TierInv, Tier!Periods
<1>3. Cardinality(WillAdd') <= Cardinality(WillAdd) /\ Cardinality(WillAdd') \in Nat
  <2>1. WillAdd' \in SUBSET WillAdd /\ WillAdd \in SUBSET Requests
    BY <1>2 DEF Tier!NextPeriod, WillAdd
  <2>2. QED
    BY <2>1, SubsetCounts, TierConstants
<1>4. \A x \in Requests : req'[x].step \in {"read", "bump"} => req'[x].period <= period'
  BY <1>2 DEF Tier!NextPeriod, TierInv, RequestType, Tier!Periods
<1>5. used' + Cardinality(WillAdd') <= Quota - 1 + Cardinality(Requests)
  BY <1>3, TierCounts, TierConstants DEF Tier!NextPeriod, TierInv
<1>6. QED
  BY <1>1, <1>2, <1>4, <1>5 DEF Tier!NextPeriod, TierInv

LEMMA TierInductive == TierInv /\ [Tier!Next]_tierVars => TierInv'
<1>1. SUFFICES ASSUME TierInv, [Tier!Next]_tierVars PROVE TierInv'
  OBVIOUS
<1>2. CASE UNCHANGED tierVars
  BY <1>1, <1>2 DEF tierVars, TierInv, InFlight, WillAdd, Strays
<1>3. ASSUME NEW r \in Requests,
             Tier!Admit(r) \/ Tier!ReadClock(r) \/ Tier!ReadMark(r) \/ Tier!Bump(r)
      PROVE  TierInv'
  BY <1>1, <1>3, TierAdmit, TierReadClock, TierReadMark, TierBump
<1>4. CASE Tier!NextPeriod
  BY <1>1, <1>4, TierNextPeriod
<1>5. QED
  BY <1>1, <1>2, <1>3, <1>4 DEF Tier!Next

LEMMA TierInvIsSafe == TierInv => TierSafe
<1>1. SUFFICES ASSUME TierInv PROVE TierSafe
  OBVIOUS
<1>2. Tier!TypeInv
  <2>1. used \in 0..MaxAdmitted /\ \A p \in Tier!Periods : spent[p] \in 0..MaxAdmitted
    BY <1>1, TierCounts, TierConstants DEF TierInv
  <2>2. QED
    BY <1>1, <2>1 DEF TierInv, Tier!TypeInv, RequestType
<1>3. Tier!OvershootBounded /\ Tier!OverstatementBounded
  <2>1. Tier!Cardinality(Requests) = Cardinality(Requests) /\ spent[mark] \in Nat
    BY <1>1, TierCardinality DEF TierInv
  <2>2. used <= Quota - 1 + Cardinality(Requests)
    BY <1>1, TierCounts, TierConstants DEF TierInv
  <2>3. used <= spent[mark] + Cardinality(Requests)
    BY <1>1, <2>1, TierCounts, TierConstants DEF TierInv
  <2>4. QED
    BY <2>1, <2>2, <2>3 DEF Tier!OvershootBounded, Tier!OverstatementBounded
<1>4. QED
  BY <1>2, <1>3 DEF TierSafe, Tier!TierSafe

-----------------------------------------------------------------------------
(* The uses of a token (UseCount).                                          *)

LEMMA UsesConstants == FlushTTL \in Nat \ {0} /\ MaxCalls \in Nat /\ MaxFaults \in Nat
  BY UsesAssumptions DEF Uses!FlushPositive, Uses!BoundsAreNat

Flushing == {"read", "add", "drop"}
TouchType == [step : {"idle", "claim"} \cup Flushing, n : Nat]

(* One call at a time is between taking the flush key and deleting the      *)
(* count, and the key lives that long; what it has read has only grown      *)
(* since; with every call counted, the books balance.                       *)
UsesInv ==
    /\ count = Missing \/ \E n \in Nat \ {0} : count = [val |-> n, ttl |-> NoExpiry]
    /\ flush \in {Missing} \cup {[val |-> 1, ttl |-> t] : t \in 1..FlushTTL}
    /\ uses \in Nat /\ missed \in Nat /\ again \in Nat
    /\ touch \in [Callers -> TouchType]
    /\ calls \in 0..MaxCalls
    /\ faults \in 0..MaxFaults
    /\ \A c \in Callers : touch[c].step \in Flushing => flush # Missing
    /\ \A c, d \in Callers :
          touch[c].step \in Flushing /\ touch[d].step \in Flushing => c = d
    /\ \A c \in Callers : touch[c].n # 0 => touch[c].step \in {"add", "drop"}
    /\ \A c \in Callers : touch[c].n <= count.val
    /\ count.val + missed <= calls
    /\ again <= MaxCalls * faults
    /\ Uses!UsesBalance

LEMMA UsesRedis ==
    /\ Uses!Missing = Missing
    /\ \A k : Uses!Exists(k) <=> k.ttl # NoKey
    /\ Uses!Incr(Missing) = [val |-> 1, ttl |-> NoExpiry]
    /\ \A n \in Nat : Uses!Incr([val |-> n, ttl |-> NoExpiry]) = [val |-> n + 1, ttl |-> NoExpiry]
    /\ Uses!Elapse(Missing) = Missing
    /\ \A t \in 1..FlushTTL : Uses!Elapse([val |-> 1, ttl |-> t]) =
          IF t = 1 THEN Missing ELSE [val |-> 1, ttl |-> t - 1]
  BY UsesConstants
     DEF Uses!Missing, Missing, Uses!Exists, Uses!NoKey, NoKey, Uses!NoExpiry, NoExpiry,
         Uses!Incr, Uses!Add, Uses!Elapse

LEMMA CountIsNat ==
  ASSUME UsesInv
  PROVE  count.val \in Nat /\ Missing.val = 0 /\ Missing.ttl = NoKey
  BY DEF UsesInv, Missing

LEMMA UsesInit == Uses!Init => UsesInv
  BY UsesConstants, UsesRedis
     DEF Uses!Init, UsesInv, Uses!AtRest, TouchType, Flushing, Missing, Uses!UsesBalance, Uses!Dropping

LEMMA UsesCountCall ==
  ASSUME UsesInv, NEW c \in Callers, Uses!CountCall(c)
  PROVE  UsesInv'
<1>1. /\ count' = [val |-> count.val + 1, ttl |-> NoExpiry]
      /\ count'.val = count.val + 1
  <2>1. CASE count = Missing
    BY <2>1, UsesRedis, CountIsNat DEF Uses!CountCall
  <2>2. ASSUME NEW n \in Nat \ {0}, count = [val |-> n, ttl |-> NoExpiry]
        PROVE  /\ count' = [val |-> count.val + 1, ttl |-> NoExpiry]
               /\ count'.val = count.val + 1
    BY <2>2, UsesRedis DEF Uses!CountCall
  <2>3. QED
    BY <2>1, <2>2 DEF UsesInv
<1>2. /\ touch' \in [Callers -> TouchType]
      /\ touch'[c].step = "claim" /\ touch'[c].n = touch[c].n /\ touch[c].step = "idle"
      /\ \A d \in Callers \ {c} : touch'[d] = touch[d]
      /\ \A d \in Callers : touch[d].n \in Nat
  BY DEF Uses!CountCall, UsesInv, TouchType
<1>3. Uses!UsesBalance'
  <2>1. \A d \in Callers : /\ touch'[d].step = "drop" <=> touch[d].step = "drop"
                           /\ touch'[d].n = touch[d].n
    BY <1>2
  <2>2. /\ uses' = uses /\ missed' = missed /\ again' = again /\ calls' = calls + 1
        /\ uses \in Nat /\ missed \in Nat /\ again \in Nat /\ calls \in Nat
    BY DEF Uses!CountCall, UsesInv
  <2>3. Uses!UsesBalance /\ \A d \in Callers : touch[d].n \in Nat
    BY <1>2 DEF UsesInv
  <2>4. QED
    BY <1>1, <2>1, <2>2, <2>3, CountIsNat DEF Uses!UsesBalance, Uses!Dropping
<1>4. /\ calls' = calls + 1 /\ calls' \in 0..MaxCalls
      /\ UNCHANGED <<flush, uses, missed, again, faults>>
      /\ count'.val + missed' <= calls'
  BY <1>1, CountIsNat, UsesConstants DEF Uses!CountCall, UsesInv
<1>5. /\ \A d \in Callers : touch'[d].step \in Flushing <=> touch[d].step \in Flushing
      /\ \A d \in Callers : touch'[d].n # 0 => touch'[d].step \in {"add", "drop"}
      /\ \A d \in Callers : touch'[d].n <= count'.val
  BY <1>1, <1>2, CountIsNat DEF UsesInv, Flushing
<1>6. QED
  BY <1>1, <1>2, <1>3, <1>4, <1>5, CountIsNat DEF UsesInv

LEMMA UsesClaim ==
  ASSUME UsesInv, NEW c \in Callers, Uses!Claim(c)
  PROVE  UsesInv'
<1>1. /\ touch' \in [Callers -> TouchType]
      /\ touch[c].step = "claim" /\ touch'[c].n = 0
      /\ \/ touch'[c].step = "idle" /\ flush' = flush
         \/ /\ flush = Missing /\ touch'[c].step = "read"
            /\ flush' = [val |-> 1, ttl |-> FlushTTL]
      /\ \A d \in Callers \ {c} : touch'[d] = touch[d]
  BY UsesRedis, UsesConstants
     DEF Uses!Claim, UsesInv, TouchType, Uses!AtRest, Flushing, Missing, NoKey
<1>2. Uses!UsesBalance'
  BY <1>1 DEF Uses!Claim, UsesInv, Uses!UsesBalance, Uses!Dropping
<1>3. flush' \in {Missing} \cup {[val |-> 1, ttl |-> t] : t \in 1..FlushTTL}
  BY <1>1, UsesConstants DEF UsesInv
<1>4. flush' # Missing \/ (flush' = flush /\ touch'[c].step = "idle")
  BY <1>1, UsesConstants DEF Missing, NoKey
<1>5. QED
  BY <1>1, <1>2, <1>3, <1>4, CountIsNat DEF Uses!Claim, UsesInv, Flushing

LEMMA UsesReadCount ==
  ASSUME UsesInv, NEW c \in Callers, Uses!ReadCount(c)
  PROVE  UsesInv'
<1>1. /\ touch' \in [Callers -> TouchType]
      /\ touch[c].step = "read"
      /\ \/ touch'[c] = [step |-> "idle", n |-> 0]
         \/ touch'[c] = [step |-> "add", n |-> count.val]
      /\ \A d \in Callers \ {c} : touch'[d] = touch[d]
  BY CountIsNat DEF Uses!ReadCount, UsesInv, TouchType, Uses!AtRest, Flushing
<1>2. Uses!UsesBalance'
  BY <1>1 DEF Uses!ReadCount, UsesInv, Uses!UsesBalance, Uses!Dropping
<1>3. QED
  BY <1>1, <1>2, CountIsNat DEF Uses!ReadCount, UsesInv, Flushing

LEMMA UsesAddUses ==
  ASSUME UsesInv, NEW c \in Callers, Uses!AddUses(c)
  PROVE  UsesInv'
<1>1. /\ touch' \in [Callers -> TouchType]
      /\ touch[c].step = "add" /\ touch'[c].step = "drop" /\ touch'[c].n = touch[c].n
      /\ touch[c].n \in Nat /\ uses' = uses + touch[c].n
      /\ \A d \in Callers \ {c} : touch'[d] = touch[d]
  BY DEF Uses!AddUses, UsesInv, TouchType, Flushing
<1>2. \A d \in Callers : touch[d].step # "drop" /\ (touch'[d].step = "drop" => d = c)
  BY <1>1 DEF UsesInv, Flushing
<1>3. Uses!UsesBalance'
  BY <1>1, <1>2, CountIsNat DEF Uses!AddUses, UsesInv, Uses!UsesBalance, Uses!Dropping
<1>4. QED
  BY <1>1, <1>3, CountIsNat DEF Uses!AddUses, UsesInv, Flushing

LEMMA UsesDropCount ==
  ASSUME UsesInv, NEW c \in Callers, Uses!DropCount(c)
  PROVE  UsesInv'
<1>1. /\ touch' \in [Callers -> TouchType]
      /\ touch[c].step = "drop" /\ touch'[c] = [step |-> "idle", n |-> 0]
      /\ touch[c].n \in Nat
      /\ \A d \in Callers \ {c} : touch'[d] = touch[d]
  BY DEF Uses!DropCount, UsesInv, TouchType, Flushing, Uses!AtRest
<1>2. \A d \in Callers : touch'[d].step \notin Flushing /\ touch'[d].n = 0
  BY <1>1 DEF UsesInv, Flushing
<1>3. count' = Missing /\ count'.val = 0 /\ missed' = missed + (count.val - touch[c].n)
  BY UsesRedis, CountIsNat DEF Uses!DropCount
<1>4. Uses!UsesBalance'
  BY <1>1, <1>2, <1>3, CountIsNat
     DEF Uses!DropCount, UsesInv, Uses!UsesBalance, Uses!Dropping, Flushing
<1>5. missed' \in Nat /\ count'.val + missed' <= calls
  BY <1>1, <1>3, CountIsNat DEF UsesInv
<1>6. QED
  BY <1>1, <1>2, <1>3, <1>4, <1>5 DEF Uses!DropCount, UsesInv

LEMMA OneFaultMore ==
  ASSUME NEW M \in Nat, NEW f \in Nat, NEW a \in Nat, NEW n \in Nat, n <= M, a <= M * f
  PROVE  a + n <= M * (f + 1)
  OBVIOUS

LEMMA MoreFaults ==
  ASSUME NEW M \in Nat, NEW f \in Nat, NEW g \in Nat, f <= g
  PROVE  M * f <= M * g
  OBVIOUS

LEMMA UsesFailTouch ==
  ASSUME UsesInv, NEW c \in Callers, Uses!FailTouch(c)
  PROVE  UsesInv'
<1>1. /\ touch' \in [Callers -> TouchType]
      /\ touch'[c] = [step |-> "idle", n |-> 0]
      /\ touch[c].n \in Nat
      /\ \A d \in Callers \ {c} : touch'[d] = touch[d]
  BY DEF Uses!FailTouch, UsesInv, TouchType, Flushing, Uses!AtRest
<1>2. touch[c].n <= MaxCalls
  BY <1>1, CountIsNat, UsesConstants DEF UsesInv
<1>3. /\ again' \in Nat
      /\ again' = again + (IF touch[c].step = "drop" THEN touch[c].n ELSE 0)
      /\ again' <= MaxCalls * faults'
      /\ faults' \in 0..MaxFaults
  <2>1. faults \in Nat /\ faults' = faults + 1 /\ again \in Nat /\ again <= MaxCalls * faults
        /\ faults' <= MaxFaults
    BY UsesConstants DEF Uses!FailTouch, UsesInv
  <2>2. again + touch[c].n <= MaxCalls * faults' /\ again + 0 <= MaxCalls * faults'
    BY <1>1, <1>2, <2>1, OneFaultMore, UsesConstants
  <2>3. QED
    BY <1>1, <2>1, <2>2, UsesConstants DEF Uses!FailTouch
<1>4. Uses!UsesBalance'
  <2>1. CASE touch[c].step = "drop"
    <3>1. \A d \in Callers : touch'[d].step # "drop"
      BY <1>1, <2>1 DEF UsesInv, Flushing
    <3>2. uses + count.val + missed = calls + again'
      BY <1>1, <1>3, <2>1, CountIsNat DEF UsesInv, Uses!UsesBalance, Uses!Dropping
    <3>3. QED
      BY <3>1, <3>2 DEF Uses!FailTouch, Uses!UsesBalance, Uses!Dropping
  <2>2. CASE touch[c].step # "drop"
    BY <1>1, <1>3, <2>2 DEF Uses!FailTouch, UsesInv, Uses!UsesBalance, Uses!Dropping
  <2>3. QED
    BY <2>1, <2>2
<1>5. QED
  BY <1>1, <1>3, <1>4, CountIsNat DEF Uses!FailTouch, UsesInv, Flushing

LEMMA UsesTick ==
  ASSUME UsesInv, Uses!Tick
  PROVE  UsesInv'
<1>1. flush' \in {Missing} \cup {[val |-> 1, ttl |-> t] : t \in 1..FlushTTL}
  <2>1. flush' = Uses!Elapse(flush)
    BY DEF Uses!Tick
  <2>2. CASE flush = Missing
    BY <2>1, <2>2, UsesRedis
  <2>3. ASSUME NEW t \in 1..FlushTTL, flush = [val |-> 1, ttl |-> t]
        PROVE  flush' = Missing \/ \E u \in 1..FlushTTL : flush' = [val |-> 1, ttl |-> u]
    <3>1. CASE t = 1
      BY <2>1, <2>3, <3>1, UsesRedis
    <3>2. CASE t # 1
      <4>1. t - 1 \in 1..FlushTTL
        BY <3>2, UsesConstants
      <4>2. QED
        BY <2>1, <2>3, <3>2, <4>1, UsesRedis
    <3>3. QED
      BY <3>1, <3>2
  <2>4. QED
    BY <2>2, <2>3 DEF UsesInv
<1>2. \A c \in Callers : touch'[c].step \notin Flushing
  BY DEF Uses!Tick, Flushing
<1>3. QED
  BY <1>1, <1>2 DEF Uses!Tick, UsesInv, Uses!UsesBalance, Uses!Dropping

LEMMA UsesInductive == UsesInv /\ Uses!Next => UsesInv'
<1>1. SUFFICES ASSUME UsesInv, Uses!Next PROVE UsesInv'
  OBVIOUS
<1>2. ASSUME NEW c \in Callers, Uses!Touch(c) \/ Uses!FailTouch(c)
      PROVE  UsesInv'
  BY <1>1, <1>2, UsesCountCall, UsesClaim, UsesReadCount, UsesAddUses, UsesDropCount,
     UsesFailTouch DEF Uses!Touch
<1>3. QED
  BY <1>1, <1>2, UsesTick DEF Uses!Next

LEMMA UsesInvIsSafe == UsesInv => UsesSafe
<1>1. SUFFICES ASSUME UsesInv PROVE UsesSafe
  OBVIOUS
<1>2. uses <= calls + again
  BY <1>1, CountIsNat DEF UsesInv, Uses!UsesBalance, Uses!Dropping, TouchType
<1>3. Uses!NeverOvercounted
  BY <1>1, <1>2, UsesConstants DEF UsesInv, Uses!NeverOvercounted
<1>4. again <= MaxCalls * MaxFaults /\ MaxCalls * MaxFaults \in Nat
      /\ MaxCalls * (MaxFaults + 1) = MaxCalls * MaxFaults + MaxCalls
  <2>1. MaxCalls * faults <= MaxCalls * MaxFaults /\ MaxCalls * MaxFaults \in Nat
        /\ MaxCalls * faults \in Nat
    BY <1>1, MoreFaults, UsesConstants DEF UsesInv
  <2>2. QED
    BY <1>1, <2>1, UsesConstants DEF UsesInv
<1>5. uses \in 0..(MaxCalls * (MaxFaults + 1)) /\ again \in 0..(MaxCalls * MaxFaults)
  BY <1>1, <1>2, <1>4, UsesConstants DEF UsesInv
<1>6. count \in {Uses!Missing} \cup {[val |-> n, ttl |-> Uses!NoExpiry] : n \in 1..MaxCalls}
  <2>1. count.val <= MaxCalls
    BY <1>1, CountIsNat, UsesConstants DEF UsesInv
  <2>2. QED
    BY <1>1, <2>1, UsesRedis, CountIsNat, UsesConstants DEF UsesInv, NoExpiry, Uses!NoExpiry
<1>7. touch \in [Callers -> [step : {"idle", "claim", "read", "add", "drop"}, n : 0..MaxCalls]]
  <2>1. \A c \in Callers : touch[c] \in TouchType /\ touch[c].n \in 0..MaxCalls
    BY <1>1, CountIsNat, UsesConstants DEF UsesInv, TouchType
  <2>2. \A c \in Callers :
           touch[c] \in [step : {"idle", "claim", "read", "add", "drop"}, n : 0..MaxCalls]
    BY <2>1 DEF TouchType, Flushing
  <2>3. QED
    BY <1>1, <2>2 DEF UsesInv
<1>8. missed \in 0..MaxCalls
  BY <1>1, CountIsNat, UsesConstants DEF UsesInv
<1>9. QED
  BY <1>1, <1>3, <1>5, <1>6, <1>7, <1>8, UsesRedis
     DEF UsesInv, Uses!TypeInv, UsesSafe, Uses!UsesSafe

-----------------------------------------------------------------------------
(* The second password (HighRiskGate).                                      *)

LEMMA GateCardinality == \A S : Gate!Cardinality(S) = Cardinality(S)
  BY DEF Gate!Cardinality, Cardinality

LEMMA GateFinite == \A S : Gate!IsFiniteSet(S) <=> IsFiniteSet(S)
  BY DEF Gate!IsFiniteSet, IsFiniteSet

LEMMA GateConstants ==
    /\ IsFiniteSet(Callers) /\ Cardinality(Callers) \in Nat
    /\ MaxFails \in Nat \ {0} /\ LockTTL \in Nat \ {0} /\ UnlockTTL \in Nat \ {0}
    /\ Scopes # {} /\ PerTick \in Nat /\ MaxFaults \in Nat
  BY GateAssumptions, GateFinite, FS_CardinalityType
     DEF Gate!FiniteCallers, Gate!NumbersArePositive, Gate!SomeScope, Gate!BoundsAreNat

Locked(s) == lock[s].ttl # NoKey

(* Attempts that compare, that have counted a failure and not yet given the *)
(* counter its lifetime, and that have seen a full counter and will lock.   *)
Comparing(s) == {c \in Callers : att[c].step = "compare" /\ att[c].scope = s}
Renewing(s) == {c \in Callers : att[c].step = "expire" /\ att[c].scope = s}
Locking(s) == {c \in Callers : /\ att[c].step \in {"expire", "lock"}
                               /\ att[c].scope = s
                               /\ att[c].fails >= MaxFails}

AttemptType == [step : Gate!Steps, scope : Scopes, fails : Nat]

GateTypes ==
    /\ fail \in [Scopes -> [val : Nat, ttl : NoKey..LockTTL]]
    /\ lock \in [Scopes -> {Missing} \cup {Gate!Held(t) : t \in 1..LockTTL}]
    /\ unlock \in [Scopes -> {Missing} \cup {Gate!Held(t) : t \in 1..UnlockTTL}]
    /\ att \in [Callers -> AttemptType]
    /\ earned \in [Scopes -> 0..UnlockTTL]
    /\ begun \in 0..PerTick
    /\ faults \in 0..MaxFaults

LockLeft(s) == IF Locked(s) THEN lock[s].ttl ELSE LockTTL

(* Without a lock, failures beyond the last but one are of attempts that    *)
(* will lock, or died; with one, those that compare have room.  A full      *)
(* counter does not outlive the lock that is, or is about to be, set.       *)
GateScope(s) ==
    /\ fail[s].ttl = NoKey => fail[s].val = 0
    /\ ~Locked(s) => fail[s].val <= MaxFails - 1 + Cardinality(Locking(s)) + faults
    /\ Locked(s) => fail[s].val + Cardinality(Comparing(s))
                       <= MaxFails - 1 + Cardinality(Callers) + faults
    /\ (Locked(s) \/ \E c \in Callers : att[c].step = "lock" /\ att[c].scope = s) =>
          \/ fail[s].ttl = NoKey
          \/ 1 <= fail[s].ttl /\ fail[s].ttl <= LockLeft(s)
          \/ fail[s].val <= MaxFails - 1 + Cardinality(Renewing(s)) + faults
    /\ unlock[s].ttl # NoKey => earned[s] + unlock[s].ttl <= UnlockTTL

(* An attempt is over before the next tick: the lock it meets is new, and   *)
(* so is the password it brought.                                           *)
GateCaller(c) ==
    /\ att[c].fails <= MaxFails + Cardinality(Callers) + MaxFaults
    /\ att[c].step # "idle" /\ Locked(att[c].scope) => lock[att[c].scope].ttl = LockTTL
    /\ att[c].step \in {"clear", "grant"} => earned[att[c].scope] = 0

GateInv ==
    /\ GateTypes
    /\ \A s \in Scopes : GateScope(s)
    /\ \A c \in Callers : GateCaller(c)

LEMMA GateCounts ==
  ASSUME NEW s
  PROVE  /\ Cardinality(Comparing(s)) \in Nat /\ Cardinality(Renewing(s)) \in Nat
         /\ Cardinality(Locking(s)) \in Nat
         /\ Cardinality(Comparing(s)) + Cardinality(Locking(s)) <= Cardinality(Callers)
<1>1. /\ IsFiniteSet(Comparing(s)) /\ IsFiniteSet(Renewing(s)) /\ IsFiniteSet(Locking(s))
      /\ Comparing(s) \cup Locking(s) \in SUBSET Callers
      /\ Comparing(s) \cap Locking(s) = {}
  <2>1. /\ Comparing(s) \in SUBSET Callers /\ Renewing(s) \in SUBSET Callers
        /\ Locking(s) \in SUBSET Callers /\ Comparing(s) \cap Locking(s) = {}
    BY DEF Comparing, Renewing, Locking
  <2>2. QED
    BY <2>1, FS_Subset, GateConstants
<1>2. /\ Cardinality(Comparing(s)) \in Nat /\ Cardinality(Renewing(s)) \in Nat
      /\ Cardinality(Locking(s)) \in Nat
  BY <1>1, FS_CardinalityType
<1>3. Cardinality(Comparing(s) \cup Locking(s)) <= Cardinality(Callers)
  BY <1>1, FS_Subset, GateConstants
<1>4. Cardinality(Comparing(s) \cup Locking(s)) = Cardinality(Comparing(s)) + Cardinality(Locking(s))
  BY <1>1, <1>2, FS_Union, FS_EmptySet
<1>5. QED
  BY <1>2, <1>3, <1>4

(* What the step of one attempt does to the three sets of a scope. *)
LEMMA GateMoves ==
  ASSUME NEW s, NEW c \in Callers, \A d \in Callers \ {c} : att'[d] = att[d]
  PROVE  /\ Cardinality(Comparing(s)') \in Nat /\ Cardinality(Renewing(s)') \in Nat
         /\ Cardinality(Locking(s)') \in Nat
         /\ c \in Comparing(s) /\ c \notin Comparing(s)' =>
               Cardinality(Comparing(s)') = Cardinality(Comparing(s)) - 1
         /\ (c \in Comparing(s) <=> c \in Comparing(s)') =>
               Cardinality(Comparing(s)') = Cardinality(Comparing(s))
         /\ c \notin Renewing(s) /\ c \in Renewing(s)' =>
               Cardinality(Renewing(s)') = Cardinality(Renewing(s)) + 1
         /\ c \in Renewing(s) /\ c \notin Renewing(s)' =>
               Cardinality(Renewing(s)') = Cardinality(Renewing(s)) - 1
         /\ (c \in Renewing(s) <=> c \in Renewing(s)') =>
               Cardinality(Renewing(s)') = Cardinality(Renewing(s))
         /\ c \notin Locking(s) /\ c \in Locking(s)' =>
               Cardinality(Locking(s)') = Cardinality(Locking(s)) + 1
         /\ c \in Locking(s) /\ c \notin Locking(s)' =>
               Cardinality(Locking(s)') = Cardinality(Locking(s)) - 1
         /\ (c \in Locking(s) <=> c \in Locking(s)') =>
               Cardinality(Locking(s)') = Cardinality(Locking(s))
<1>1. /\ Comparing(s) \in SUBSET Callers /\ Comparing(s)' \in SUBSET Callers
      /\ Comparing(s) \ {c} = Comparing(s)' \ {c}
  BY DEF Comparing
<1>2. /\ Renewing(s) \in SUBSET Callers /\ Renewing(s)' \in SUBSET Callers
      /\ Renewing(s) \ {c} = Renewing(s)' \ {c}
  BY DEF Renewing
<1>3. /\ Locking(s) \in SUBSET Callers /\ Locking(s)' \in SUBSET Callers
      /\ Locking(s) \ {c} = Locking(s)' \ {c}
  BY DEF Locking
<1>4. /\ Cardinality(Comparing(s)') \in Nat
      /\ (c \in Comparing(s) /\ c \notin Comparing(s)' =>
               Cardinality(Comparing(s)') = Cardinality(Comparing(s)) - 1)
      /\ ((c \in Comparing(s) <=> c \in Comparing(s)') =>
               Cardinality(Comparing(s)') = Cardinality(Comparing(s)))
  BY <1>1, OneMoves, GateConstants
<1>5. /\ Cardinality(Renewing(s)') \in Nat
      /\ (c \notin Renewing(s) /\ c \in Renewing(s)' =>
               Cardinality(Renewing(s)') = Cardinality(Renewing(s)) + 1)
      /\ (c \in Renewing(s) /\ c \notin Renewing(s)' =>
               Cardinality(Renewing(s)') = Cardinality(Renewing(s)) - 1)
      /\ ((c \in Renewing(s) <=> c \in Renewing(s)') =>
               Cardinality(Renewing(s)') = Cardinality(Renewing(s)))
  BY <1>2, OneMoves, GateConstants
<1>6. /\ Cardinality(Locking(s)') \in Nat
      /\ (c \notin Locking(s) /\ c \in Locking(s)' =>
               Cardinality(Locking(s)') = Cardinality(Locking(s)) + 1)
      /\ (c \in Locking(s) /\ c \notin Locking(s)' =>
               Cardinality(Locking(s)') = Cardinality(Locking(s)) - 1)
      /\ ((c \in Locking(s) <=> c \in Locking(s)') =>
               Cardinality(Locking(s)') = Cardinality(Locking(s)))
  BY <1>3, OneMoves, GateConstants
<1>7. QED
  BY <1>4, <1>5, <1>6

(* A step in one scope leaves what is said of the others. *)
LEMMA OtherScope ==
  ASSUME GateInv, NEW c \in Callers, \A d \in Callers \ {c} : att'[d] = att[d],
         NEW s \in Scopes,
         att[c].step = "idle" \/ att[c].scope # s,
         att'[c].step = "idle" \/ att'[c].scope # s,
         fail'[s] = fail[s], lock'[s] = lock[s], unlock'[s] = unlock[s], earned'[s] = earned[s],
         faults' \in Nat, faults <= faults'
  PROVE  GateScope(s)'
<1>1. /\ Cardinality(Comparing(s)') = Cardinality(Comparing(s))
      /\ Cardinality(Renewing(s)') = Cardinality(Renewing(s))
      /\ Cardinality(Locking(s)') = Cardinality(Locking(s))
  <2>1. /\ c \notin Comparing(s) /\ c \notin Comparing(s)'
        /\ c \notin Renewing(s) /\ c \notin Renewing(s)'
        /\ c \notin Locking(s) /\ c \notin Locking(s)'
    BY DEF Comparing, Renewing, Locking
  <2>2. QED
    BY <2>1, GateMoves
<1>2. (\E d \in Callers : att'[d].step = "lock" /\ att'[d].scope = s) =>
         \E d \in Callers : att[d].step = "lock" /\ att[d].scope = s
  OBVIOUS
<1>3. /\ fail[s].val \in Nat /\ fail[s].ttl \in Int /\ faults \in Nat
      /\ (Locked(s)' <=> Locked(s)) /\ LockLeft(s)' = LockLeft(s)
  BY GateConstants DEF GateInv, GateTypes, Locked, LockLeft, NoKey
<1>4. GateScope(s)
  BY DEF GateInv
<1>5. QED
  BY <1>1, <1>2, <1>3, <1>4, GateCounts, GateConstants DEF GateScope

LEMMA GateInitially == Gate!Init => GateInv
<1>1. SUFFICES ASSUME Gate!Init PROVE GateInv
  OBVIOUS
<1>2. (CHOOSE s \in Scopes : TRUE) \in Scopes
  BY GateConstants
<1>3. GateTypes
  BY <1>1, <1>2, GateConstants
     DEF Gate!Init, GateTypes, Gate!AtRest, AttemptType, Gate!Steps, Gate!Missing, Missing, Gate!NoKey, NoKey
<1>4. \A s \in Scopes : Comparing(s) = {} /\ Locking(s) = {} /\ Renewing(s) = {}
  BY <1>1 DEF Gate!Init, Gate!AtRest, Comparing, Locking, Renewing
<1>5. ASSUME NEW s \in Scopes PROVE GateScope(s)
  <2>1. /\ fail[s].val = 0 /\ fail[s].ttl = NoKey /\ ~Locked(s) /\ unlock[s].ttl = NoKey
        /\ faults = 0
    BY <1>1 DEF Gate!Init, Gate!Missing, Gate!NoKey, NoKey, Locked
  <2>2. QED
    BY <2>1, GateCounts, GateConstants DEF GateScope
<1>6. \A c \in Callers : GateCaller(c)
  BY <1>1, GateConstants DEF Gate!Init, Gate!AtRest, GateCaller
<1>7. QED
  BY <1>3, <1>5, <1>6 DEF GateInv

LEMMA GateCheckLock ==
  ASSUME GateInv, NEW c \in Callers, NEW s \in Scopes, Gate!CheckLock(c, s)
  PROVE  GateInv'
<1>1. /\ att[c].step = "idle" /\ att'[c] = [step |-> "compare", scope |-> s, fails |-> 0]
      /\ \A d \in Callers \ {c} : att'[d] = att[d]
      /\ ~Locked(s)
      /\ UNCHANGED <<fail, lock, unlock, earned, faults>>
  BY DEF Gate!CheckLock, Gate!AtRest, GateInv, GateTypes, Gate!Exists, Gate!NoKey, NoKey, Locked
<1>2. GateTypes'
  BY <1>1, GateConstants DEF Gate!CheckLock, Gate!AtRest, GateInv, GateTypes, AttemptType, Gate!Steps
<1>3. ASSUME NEW t \in Scopes PROVE GateScope(t)'
  <2>1. CASE t # s
    BY <1>1, <2>1, OtherScope DEF GateInv, GateTypes
  <2>2. CASE t = s
    <3>1. /\ c \notin Renewing(s) /\ c \notin Renewing(s)'
          /\ c \notin Locking(s) /\ c \notin Locking(s)'
      BY <1>1 DEF Renewing, Locking
    <3>2. /\ Cardinality(Renewing(s)') = Cardinality(Renewing(s))
          /\ Cardinality(Locking(s)') = Cardinality(Locking(s))
      BY <1>1, <3>1, GateMoves
    <3>3. (\E d \in Callers : att'[d].step = "lock" /\ att'[d].scope = s) =>
             \E d \in Callers : att[d].step = "lock" /\ att[d].scope = s
      BY <1>1
    <3>4. ~Locked(s)' /\ LockLeft(s)' = LockLeft(s) /\ GateScope(s)
      BY <1>1 DEF Locked, LockLeft, GateInv
    <3>5. QED
      BY <1>1, <2>2, <3>2, <3>3, <3>4 DEF GateScope
  <2>3. QED
    BY <2>1, <2>2
<1>4. ASSUME NEW d \in Callers PROVE GateCaller(d)'
  BY <1>1, GateConstants DEF GateInv, GateCaller, Locked
<1>5. QED
  BY <1>2, <1>3, <1>4 DEF GateInv

LEMMA AttemptMoves ==
  ASSUME NEW a \in AttemptType, NEW p \in Gate!Steps
  PROVE  /\ [a EXCEPT !.step = p] \in AttemptType
         /\ [a EXCEPT !.step = p].step = p
         /\ [a EXCEPT !.step = p].scope = a.scope
         /\ [a EXCEPT !.step = p].fails = a.fails
  BY DEF AttemptType

LEMMA GateWrong ==
  ASSUME GateInv, NEW c \in Callers, NEW s \in Scopes, att[c].scope = s, Gate!Wrong(c)
  PROVE  GateInv'
<1>1. /\ fail[s].val \in Nat /\ fail[s].ttl \in NoKey..LockTTL
      /\ faults \in 0..MaxFaults /\ GateScope(s)
  BY DEF GateInv, GateTypes
<1>2. /\ fail'[s] = [val |-> fail[s].val + 1,
                     ttl |-> IF fail[s].ttl # NoKey THEN fail[s].ttl ELSE NoExpiry]
      /\ \A t \in Scopes \ {s} : fail'[t] = fail[t]
      /\ fail' \in [Scopes -> [val : Nat, ttl : NoKey..LockTTL]]
  BY <1>1, GateConstants
     DEF Gate!Wrong, GateInv, GateTypes, Gate!Incr, Gate!Add, Gate!Exists,
         Gate!NoKey, NoKey, Gate!NoExpiry, NoExpiry
<1>3. fail'[s].val = fail[s].val + 1 /\ fail'[s].ttl # NoKey
  BY <1>1, <1>2 DEF NoKey, NoExpiry
<1>4. /\ att[c].step = "compare" /\ att[c] \in AttemptType
      /\ att' = [att EXCEPT ![c] = [step |-> "expire", scope |-> s, fails |-> fail[s].val + 1]]
      /\ UNCHANGED <<lock, unlock, earned, begun, faults>>
  BY <1>3 DEF Gate!Wrong, GateInv, GateTypes
<1>5. /\ att'[c].step = "expire" /\ att'[c].scope = s /\ att'[c].fails = fail[s].val + 1
      /\ \A d \in Callers \ {c} : att'[d] = att[d]
      /\ att' \in [Callers -> AttemptType]
  BY <1>1, <1>4 DEF GateInv, GateTypes, AttemptType, Gate!Steps
<1>6. GateTypes'
  BY <1>2, <1>4, <1>5 DEF GateInv, GateTypes
<1>7. GateScope(s)'
  <2>1. /\ c \in Comparing(s) /\ c \notin Comparing(s)'
        /\ c \notin Renewing(s) /\ c \in Renewing(s)'
        /\ c \notin Locking(s) /\ (c \in Locking(s)' <=> fail[s].val + 1 >= MaxFails)
    BY <1>4, <1>5 DEF Comparing, Renewing, Locking
  <2>2. /\ Cardinality(Comparing(s)') = Cardinality(Comparing(s)) - 1
        /\ Cardinality(Renewing(s)') = Cardinality(Renewing(s)) + 1
        /\ fail[s].val + 1 >= MaxFails => Cardinality(Locking(s)') = Cardinality(Locking(s)) + 1
    BY <1>5, <2>1, GateMoves
  <2>3. (\E d \in Callers : att'[d].step = "lock" /\ att'[d].scope = s) =>
           \E d \in Callers : att[d].step = "lock" /\ att[d].scope = s
    BY <1>5
  <2>4. /\ (Locked(s)' <=> Locked(s)) /\ LockLeft(s)' = LockLeft(s)
        /\ unlock'[s] = unlock[s] /\ earned'[s] = earned[s] /\ faults' = faults /\ faults \in Nat
    BY <1>1, <1>4 DEF Locked, LockLeft
  <2>5. /\ Cardinality(Comparing(s)') \in Nat /\ Cardinality(Renewing(s)') \in Nat
        /\ Cardinality(Locking(s)') \in Nat
    BY <1>5, GateMoves
  <2>6. ~Locked(s) => fail'[s].val <= MaxFails - 1 + Cardinality(Locking(s)') + faults
    BY <1>1, <1>3, <2>2, <2>4, <2>5, GateCounts, GateConstants DEF GateScope
  <2>7. Locked(s) => fail'[s].val + Cardinality(Comparing(s)')
                        <= MaxFails - 1 + Cardinality(Callers) + faults
    BY <1>1, <1>3, <2>2, <2>4, GateCounts, GateConstants DEF GateScope
  <2>8. (Locked(s) \/ \E d \in Callers : att'[d].step = "lock" /\ att'[d].scope = s) =>
          \/ 1 <= fail'[s].ttl /\ fail'[s].ttl <= LockLeft(s)
          \/ fail'[s].val <= MaxFails - 1 + Cardinality(Renewing(s)') + faults
    <3>1. CASE fail[s].ttl = NoKey
      <4>1. fail[s].val = 0
        BY <1>1, <3>1 DEF GateScope
      <4>2. QED
        BY <1>3, <2>2, <2>4, <4>1, GateCounts, GateConstants
    <3>2. CASE fail[s].ttl # NoKey
      BY <1>1, <1>2, <1>3, <2>2, <2>3, <2>4, <3>2, GateCounts, GateConstants DEF GateScope
    <3>3. QED
      BY <3>1, <3>2
  <2>9. QED
    BY <1>1, <1>3, <2>4, <2>6, <2>7, <2>8 DEF GateScope
<1>8. ASSUME NEW t \in Scopes, t # s PROVE GateScope(t)'
  BY <1>1, <1>2, <1>4, <1>5, <1>8, OtherScope
<1>9. fail[s].val + 1 <= MaxFails + Cardinality(Callers) + MaxFaults
  <2>1. fail[s].val + 1 <= MaxFails + Cardinality(Callers) + faults
    BY <1>1, GateCounts, GateConstants DEF GateScope
  <2>2. QED
    BY <1>1, <2>1, GateConstants
<1>10. ASSUME NEW d \in Callers PROVE GateCaller(d)'
  <2>1. GateCaller(d)
    BY DEF GateInv
  <2>2. CASE d = c
    BY <1>4, <1>5, <1>9, <2>1, <2>2 DEF GateCaller, Locked
  <2>3. CASE d # c
    BY <1>4, <1>5, <2>1, <2>3 DEF GateCaller, Locked
  <2>4. QED
    BY <2>2, <2>3
<1>11. QED
  BY <1>6, <1>7, <1>8, <1>10 DEF GateInv

LEMMA GateExpireFails ==
  ASSUME GateInv, NEW c \in Callers, NEW s \in Scopes, att[c].scope = s, Gate!ExpireFails(c)
  PROVE  GateInv'
<1>1. /\ fail[s].val \in Nat /\ fail[s].ttl \in NoKey..LockTTL
      /\ faults \in Nat /\ GateScope(s) /\ GateCaller(c)
  BY GateConstants DEF GateInv, GateTypes
<1>2. /\ fail'[s] = IF fail[s].ttl = NoKey THEN fail[s] ELSE [val |-> fail[s].val, ttl |-> LockTTL]
      /\ \A t \in Scopes \ {s} : fail'[t] = fail[t]
      /\ fail' \in [Scopes -> [val : Nat, ttl : NoKey..LockTTL]]
  BY <1>1, GateConstants
     DEF Gate!ExpireFails, GateInv, GateTypes, Gate!Expire, Gate!Exists, Gate!NoKey, NoKey
<1>3. /\ fail'[s].val = fail[s].val
      /\ fail'[s].ttl = IF fail[s].ttl = NoKey THEN NoKey ELSE LockTTL
  BY <1>2
<1>4. /\ att[c].step = "expire" /\ att'[c].scope = s /\ att'[c].fails = att[c].fails
      /\ att'[c].step = IF att[c].fails >= MaxFails THEN "lock" ELSE "idle"
      /\ \A d \in Callers \ {c} : att'[d] = att[d]
      /\ att' \in [Callers -> AttemptType]
      /\ UNCHANGED <<lock, unlock, earned, begun, faults>>
  BY DEF Gate!ExpireFails, Gate!Goto, GateInv, GateTypes, AttemptType, Gate!Steps
<1>5. GateTypes'
  BY <1>2, <1>4 DEF GateInv, GateTypes
<1>6. /\ (Locked(s)' <=> Locked(s)) /\ LockLeft(s)' = LockLeft(s) /\ LockLeft(s) = LockTTL
      /\ unlock'[s] = unlock[s] /\ earned'[s] = earned[s] /\ faults' = faults
  BY <1>1, <1>4 DEF Locked, LockLeft, GateCaller
<1>7. GateScope(s)'
  <2>1. c \notin Comparing(s) /\ c \notin Comparing(s)' /\ (c \in Locking(s) <=> c \in Locking(s)')
    BY <1>4 DEF Comparing, Locking
  <2>2. /\ Cardinality(Comparing(s)') = Cardinality(Comparing(s))
        /\ Cardinality(Locking(s)') = Cardinality(Locking(s))
    BY <1>4, <2>1, GateMoves
  <2>3. fail'[s].ttl = NoKey \/ (1 <= fail'[s].ttl /\ fail'[s].ttl <= LockLeft(s)')
    BY <1>3, <1>6, GateConstants
  <2>4. QED
    BY <1>1, <1>3, <1>6, <2>2, <2>3, GateConstants DEF GateScope, NoKey
<1>8. ASSUME NEW t \in Scopes, t # s PROVE GateScope(t)'
  BY <1>1, <1>2, <1>4, <1>8, OtherScope
<1>9. ASSUME NEW d \in Callers PROVE GateCaller(d)'
  <2>1. GateCaller(d)
    BY DEF GateInv
  <2>2. CASE d = c
    BY <1>4, <2>1, <2>2 DEF GateCaller, Locked
  <2>3. CASE d # c
    BY <1>4, <2>1, <2>3 DEF GateCaller, Locked
  <2>4. QED
    BY <2>2, <2>3
<1>10. QED
  BY <1>5, <1>7, <1>8, <1>9 DEF GateInv

LEMMA GateSetLock ==
  ASSUME GateInv, NEW c \in Callers, NEW s \in Scopes, att[c].scope = s, Gate!SetLock(c)
  PROVE  GateInv'
<1>1. /\ fail[s].val \in Nat /\ fail[s].ttl \in NoKey..LockTTL
      /\ faults \in Nat /\ GateScope(s) /\ GateCaller(c)
  BY GateConstants DEF GateInv, GateTypes
<1>2. /\ att[c].step = "lock" /\ att'[c].step = "idle" /\ att'[c].scope = s
      /\ att'[c].fails = att[c].fails
      /\ \A d \in Callers \ {c} : att'[d] = att[d]
      /\ att' \in [Callers -> AttemptType]
      /\ UNCHANGED <<fail, unlock, earned, begun, faults>>
  BY DEF Gate!SetLock, Gate!Goto, GateInv, GateTypes, AttemptType, Gate!Steps
<1>3. /\ lock' \in [Scopes -> {Missing} \cup {Gate!Held(t) : t \in 1..LockTTL}]
      /\ lock'[s] = Gate!Held(LockTTL) /\ lock'[s].ttl = LockTTL
      /\ \A t \in Scopes \ {s} : lock'[t] = lock[t]
  BY GateConstants DEF Gate!SetLock, GateInv, GateTypes, Gate!Held
<1>4. GateTypes'
  BY <1>2, <1>3 DEF GateInv, GateTypes
<1>5. Locked(s)' /\ LockLeft(s)' = LockTTL /\ LockLeft(s) = LockTTL
  BY <1>1, <1>2, <1>3, GateConstants DEF Locked, LockLeft, NoKey, GateCaller
<1>6. GateScope(s)'
  <2>1. /\ c \notin Comparing(s) /\ c \notin Comparing(s)'
        /\ c \notin Renewing(s) /\ c \notin Renewing(s)'
    BY <1>2 DEF Comparing, Renewing
  <2>2. /\ Cardinality(Comparing(s)') = Cardinality(Comparing(s))
        /\ Cardinality(Renewing(s)') = Cardinality(Renewing(s))
    BY <1>2, <2>1, GateMoves
  <2>3. fail[s].val + Cardinality(Comparing(s)) <= MaxFails - 1 + Cardinality(Callers) + faults
    BY <1>1, GateCounts, GateConstants DEF GateScope
  <2>4. \/ fail[s].ttl = NoKey
        \/ 1 <= fail[s].ttl /\ fail[s].ttl <= LockTTL
        \/ fail[s].val <= MaxFails - 1 + Cardinality(Renewing(s)) + faults
    BY <1>1, <1>2, <1>5 DEF GateScope
  <2>5. QED
    BY <1>1, <1>2, <1>5, <2>2, <2>3, <2>4 DEF GateScope
<1>7. ASSUME NEW t \in Scopes, t # s PROVE GateScope(t)'
  BY <1>1, <1>2, <1>3, <1>7, OtherScope
<1>8. ASSUME NEW d \in Callers PROVE GateCaller(d)'
  <2>1. GateCaller(d) /\ att[d].scope \in Scopes
    BY DEF GateInv, GateTypes, AttemptType
  <2>2. CASE d = c
    BY <1>2, <2>1, <2>2 DEF GateCaller
  <2>3. CASE d # c
    <3>1. att'[d] = att[d] /\ (lock'[att[d].scope] = lock[att[d].scope] \/ lock'[att[d].scope].ttl = LockTTL)
      BY <1>2, <1>3, <2>1, <2>3
    <3>2. QED
      BY <1>2, <2>1, <3>1 DEF GateCaller, Locked
  <2>4. QED
    BY <2>2, <2>3
<1>9. QED
  BY <1>4, <1>6, <1>7, <1>8 DEF GateInv

LEMMA GateRight ==
  ASSUME GateInv, NEW c \in Callers, NEW s \in Scopes, att[c].scope = s, Gate!Right(c)
  PROVE  GateInv'
<1>1. faults \in Nat /\ GateScope(s) /\ GateCaller(c) /\ fail[s].val \in Nat
  BY GateConstants DEF GateInv, GateTypes
<1>2. /\ att[c].step = "compare" /\ att'[c].step = "clear" /\ att'[c].scope = s
      /\ att'[c].fails = att[c].fails
      /\ \A d \in Callers \ {c} : att'[d] = att[d]
      /\ att' \in [Callers -> AttemptType]
      /\ UNCHANGED <<fail, lock, unlock, begun, faults>>
  BY DEF Gate!Right, Gate!Goto, GateInv, GateTypes, AttemptType, Gate!Steps
<1>3. /\ earned' \in [Scopes -> 0..UnlockTTL] /\ earned'[s] = 0
      /\ \A t \in Scopes \ {s} : earned'[t] = earned[t]
  BY GateConstants DEF Gate!Right, GateInv, GateTypes
<1>4. GateTypes'
  BY <1>2, <1>3 DEF GateInv, GateTypes
<1>5. GateScope(s)'
  <2>1. /\ c \in Comparing(s) /\ c \notin Comparing(s)'
        /\ c \notin Renewing(s) /\ c \notin Renewing(s)'
        /\ c \notin Locking(s) /\ c \notin Locking(s)'
    BY <1>2 DEF Comparing, Renewing, Locking
  <2>2. /\ Cardinality(Comparing(s)') = Cardinality(Comparing(s)) - 1
        /\ Cardinality(Renewing(s)') = Cardinality(Renewing(s))
        /\ Cardinality(Locking(s)') = Cardinality(Locking(s))
    BY <1>2, <2>1, GateMoves
  <2>3. (\E d \in Callers : att'[d].step = "lock" /\ att'[d].scope = s) =>
           \E d \in Callers : att[d].step = "lock" /\ att[d].scope = s
    BY <1>2
  <2>4. /\ (Locked(s)' <=> Locked(s)) /\ LockLeft(s)' = LockLeft(s)
        /\ fail'[s] = fail[s] /\ unlock'[s] = unlock[s] /\ faults' = faults
    BY <1>2 DEF Locked, LockLeft
  <2>5. unlock[s].ttl # NoKey => 0 + unlock[s].ttl <= UnlockTTL
    BY GateConstants DEF GateInv, GateTypes, Gate!Held, Missing
  <2>6. QED
    BY <1>1, <1>3, <2>2, <2>3, <2>4, <2>5, GateCounts, GateConstants DEF GateScope
<1>6. ASSUME NEW t \in Scopes, t # s PROVE GateScope(t)'
  BY <1>1, <1>2, <1>3, <1>6, OtherScope
<1>7. ASSUME NEW d \in Callers PROVE GateCaller(d)'
  <2>1. GateCaller(d) /\ att[d].scope \in Scopes
    BY DEF GateInv, GateTypes, AttemptType
  <2>2. CASE d = c
    BY <1>2, <1>3, <2>1, <2>2 DEF GateCaller, Locked
  <2>3. CASE d # c
    <3>1. att'[d] = att[d] /\ (earned'[att[d].scope] = earned[att[d].scope] \/ earned'[att[d].scope] = 0)
      BY <1>2, <1>3, <2>1, <2>3
    <3>2. QED
      BY <1>2, <2>1, <3>1 DEF GateCaller, Locked
  <2>4. QED
    BY <2>2, <2>3
<1>8. QED
  BY <1>4, <1>5, <1>6, <1>7 DEF GateInv

LEMMA GateClearFails ==
  ASSUME GateInv, NEW c \in Callers, NEW s \in Scopes, att[c].scope = s, Gate!ClearFails(c)
  PROVE  GateInv'
<1>1. faults \in Nat /\ GateScope(s) /\ GateCaller(c)
  BY GateConstants DEF GateInv, GateTypes
<1>2. /\ att[c].step = "clear" /\ att'[c].step = "grant" /\ att'[c].scope = s
      /\ att'[c].fails = att[c].fails
      /\ \A d \in Callers \ {c} : att'[d] = att[d]
      /\ att' \in [Callers -> AttemptType]
      /\ UNCHANGED <<lock, unlock, earned, begun, faults>>
  BY DEF Gate!ClearFails, Gate!Goto, GateInv, GateTypes, AttemptType, Gate!Steps
<1>3. /\ fail' \in [Scopes -> [val : Nat, ttl : NoKey..LockTTL]]
      /\ fail'[s].val = 0 /\ fail'[s].ttl = NoKey
      /\ \A t \in Scopes \ {s} : fail'[t] = fail[t]
  BY GateConstants DEF Gate!ClearFails, GateInv, GateTypes, Gate!Missing, Gate!NoKey, NoKey
<1>4. GateTypes'
  BY <1>2, <1>3 DEF GateInv, GateTypes
<1>5. GateScope(s)'
  <2>1. /\ Cardinality(Comparing(s)') \in Nat /\ Cardinality(Locking(s)') \in Nat
        /\ Cardinality(Comparing(s)') = Cardinality(Comparing(s))
    <3>1. c \notin Comparing(s) /\ c \notin Comparing(s)'
      BY <1>2 DEF Comparing
    <3>2. QED
      BY <1>2, <3>1, GateMoves
  <2>2. /\ (Locked(s)' <=> Locked(s)) /\ LockLeft(s)' = LockLeft(s)
        /\ unlock'[s] = unlock[s] /\ earned'[s] = earned[s] /\ faults' = faults
    BY <1>2 DEF Locked, LockLeft
  <2>3. QED
    BY <1>1, <1>3, <2>1, <2>2, GateCounts, GateConstants DEF GateScope
<1>6. ASSUME NEW t \in Scopes, t # s PROVE GateScope(t)'
  BY <1>1, <1>2, <1>3, <1>6, OtherScope
<1>7. ASSUME NEW d \in Callers PROVE GateCaller(d)'
  <2>1. GateCaller(d)
    BY DEF GateInv
  <2>2. CASE d = c
    BY <1>2, <2>1, <2>2 DEF GateCaller, Locked
  <2>3. CASE d # c
    BY <1>2, <2>1, <2>3 DEF GateCaller, Locked
  <2>4. QED
    BY <2>2, <2>3
<1>8. QED
  BY <1>4, <1>5, <1>6, <1>7 DEF GateInv

LEMMA GateGrant ==
  ASSUME GateInv, NEW c \in Callers, NEW s \in Scopes, att[c].scope = s, Gate!Grant(c)
  PROVE  GateInv'
<1>1. faults \in Nat /\ GateScope(s) /\ GateCaller(c)
  BY GateConstants DEF GateInv, GateTypes
<1>2. /\ att[c].step = "grant" /\ att'[c].step = "idle" /\ att'[c].scope = s
      /\ att'[c].fails = att[c].fails
      /\ \A d \in Callers \ {c} : att'[d] = att[d]
      /\ att' \in [Callers -> AttemptType]
      /\ UNCHANGED <<fail, lock, earned, begun, faults>>
  BY DEF Gate!Grant, Gate!Goto, GateInv, GateTypes, AttemptType, Gate!Steps
<1>3. /\ unlock' \in [Scopes -> {Missing} \cup {Gate!Held(t) : t \in 1..UnlockTTL}]
      /\ unlock'[s].ttl = UnlockTTL
      /\ \A t \in Scopes \ {s} : unlock'[t] = unlock[t]
  BY GateConstants DEF Gate!Grant, GateInv, GateTypes, Gate!Held
<1>4. GateTypes'
  BY <1>2, <1>3 DEF GateInv, GateTypes
<1>5. GateScope(s)'
  <2>1. /\ Cardinality(Comparing(s)') = Cardinality(Comparing(s))
        /\ Cardinality(Renewing(s)') = Cardinality(Renewing(s))
        /\ Cardinality(Locking(s)') = Cardinality(Locking(s))
    <3>1. /\ c \notin Comparing(s) /\ c \notin Comparing(s)'
          /\ c \notin Renewing(s) /\ c \notin Renewing(s)'
          /\ c \notin Locking(s) /\ c \notin Locking(s)'
      BY <1>2 DEF Comparing, Renewing, Locking
    <3>2. QED
      BY <1>2, <3>1, GateMoves
  <2>2. (\E d \in Callers : att'[d].step = "lock" /\ att'[d].scope = s) =>
           \E d \in Callers : att[d].step = "lock" /\ att[d].scope = s
    BY <1>2
  <2>3. /\ (Locked(s)' <=> Locked(s)) /\ LockLeft(s)' = LockLeft(s)
        /\ fail'[s] = fail[s] /\ earned'[s] = 0 /\ faults' = faults
    BY <1>1, <1>2 DEF Locked, LockLeft, GateCaller
  <2>4. QED
    BY <1>1, <1>3, <2>1, <2>2, <2>3, GateConstants DEF GateScope
<1>6. ASSUME NEW t \in Scopes, t # s PROVE GateScope(t)'
  BY <1>1, <1>2, <1>3, <1>6, OtherScope
<1>7. ASSUME NEW d \in Callers PROVE GateCaller(d)'
  <2>1. GateCaller(d)
    BY DEF GateInv
  <2>2. CASE d = c
    BY <1>2, <2>1, <2>2 DEF GateCaller, Locked
  <2>3. CASE d # c
    BY <1>2, <2>1, <2>3 DEF GateCaller, Locked
  <2>4. QED
    BY <2>2, <2>3
<1>8. QED
  BY <1>4, <1>5, <1>6, <1>7 DEF GateInv

LEMMA GateLockScope ==
  ASSUME GateInv, NEW s \in Scopes, Gate!LockScope(s)
  PROVE  GateInv'
<1>1. /\ unlock' \in [Scopes -> {Missing} \cup {Gate!Held(t) : t \in 1..UnlockTTL}]
      /\ unlock'[s].ttl = NoKey
      /\ \A t \in Scopes \ {s} : unlock'[t] = unlock[t]
      /\ UNCHANGED <<fail, lock, att, earned, begun, faults>>
  BY DEF Gate!LockScope, GateInv, GateTypes, Gate!Missing, Missing, Gate!NoKey, NoKey
<1>2. ASSUME NEW t \in Scopes PROVE GateScope(t)'
  <2>1. /\ Comparing(t)' = Comparing(t) /\ Renewing(t)' = Renewing(t)
        /\ Locking(t)' = Locking(t) /\ (Locked(t)' <=> Locked(t)) /\ LockLeft(t)' = LockLeft(t)
    BY <1>1 DEF Comparing, Renewing, Locking, Locked, LockLeft
  <2>2. GateScope(t) /\ (unlock'[t] = unlock[t] \/ unlock'[t].ttl = NoKey)
    BY <1>1 DEF GateInv
  <2>3. QED
    BY <1>1, <2>1, <2>2 DEF GateScope
<1>3. ASSUME NEW d \in Callers PROVE GateCaller(d)'
  BY <1>1 DEF GateInv, GateCaller, Locked
<1>4. QED
  BY <1>1, <1>2, <1>3 DEF GateInv, GateTypes

(* An attempt that dies may leave a failure without a lifetime, or a full   *)
(* counter without a lock: the fault pays for it.                           *)
LEMMA GateDie ==
  ASSUME GateInv, NEW c \in Callers, NEW s \in Scopes, att[c].scope = s, Gate!Die(c)
  PROVE  GateInv'
<1>1. /\ faults \in Nat /\ faults' = faults + 1 /\ faults' \in 0..MaxFaults
      /\ GateScope(s) /\ GateCaller(c) /\ fail[s].val \in Nat
  BY GateConstants DEF Gate!Die, GateInv, GateTypes
<1>2. /\ att'[c].step = "idle" /\ att'[c].scope = s /\ att'[c].fails = att[c].fails
      /\ \A d \in Callers \ {c} : att'[d] = att[d]
      /\ att' \in [Callers -> AttemptType]
      /\ UNCHANGED <<fail, lock, unlock, earned, begun>>
  BY DEF Gate!Die, Gate!Goto, GateInv, GateTypes, AttemptType, Gate!Steps
<1>3. GateTypes'
  BY <1>1, <1>2 DEF GateInv, GateTypes
<1>4. GateScope(s)'
  <2>1. /\ c \notin Comparing(s)' /\ c \notin Renewing(s)' /\ c \notin Locking(s)'
    BY <1>2 DEF Comparing, Renewing, Locking
  <2>2. /\ Cardinality(Comparing(s)') <= Cardinality(Comparing(s))
        /\ Cardinality(Renewing(s)) <= Cardinality(Renewing(s)') + 1
        /\ Cardinality(Locking(s)) <= Cardinality(Locking(s)') + 1
        /\ Cardinality(Comparing(s)') \in Nat /\ Cardinality(Renewing(s)') \in Nat
        /\ Cardinality(Locking(s)') \in Nat
    BY <1>2, <2>1, GateMoves, GateCounts
  <2>3. (\E d \in Callers : att'[d].step = "lock" /\ att'[d].scope = s) =>
           \E d \in Callers : att[d].step = "lock" /\ att[d].scope = s
    BY <1>2
  <2>4. /\ (Locked(s)' <=> Locked(s)) /\ LockLeft(s)' = LockLeft(s)
        /\ fail'[s] = fail[s] /\ unlock'[s] = unlock[s] /\ earned'[s] = earned[s]
    BY <1>2 DEF Locked, LockLeft
  <2>5. QED
    BY <1>1, <2>2, <2>3, <2>4, GateCounts, GateConstants DEF GateScope
<1>5. ASSUME NEW t \in Scopes, t # s PROVE GateScope(t)'
  BY <1>1, <1>2, <1>5, OtherScope
<1>6. ASSUME NEW d \in Callers PROVE GateCaller(d)'
  <2>1. GateCaller(d)
    BY DEF GateInv
  <2>2. CASE d = c
    BY <1>2, <2>1, <2>2 DEF GateCaller, Locked
  <2>3. CASE d # c
    BY <1>2, <2>1, <2>3 DEF GateCaller, Locked
  <2>4. QED
    BY <2>2, <2>3
<1>7. QED
  BY <1>3, <1>4, <1>5, <1>6 DEF GateInv

LEMMA GateElapse ==
  ASSUME NEW T \in Nat, NEW k, k.val \in Nat, k.ttl \in NoKey..T, k = [val |-> k.val, ttl |-> k.ttl]
  PROVE  /\ Gate!Elapse(k) \in [val : Nat, ttl : NoKey..T]
         /\ k.ttl > 1 => /\ Gate!Elapse(k) = [val |-> k.val, ttl |-> k.ttl - 1]
                         /\ Gate!Elapse(k).val = k.val /\ Gate!Elapse(k).ttl = k.ttl - 1
         /\ k.ttl \in {0, 1} => /\ Gate!Elapse(k) = Missing
                                /\ Gate!Elapse(k).val = 0 /\ Gate!Elapse(k).ttl = NoKey
         /\ k.ttl < 0 => Gate!Elapse(k) = k
<1>1. CASE k.ttl > 1
  <2>1. Gate!Elapse(k) = [val |-> k.val, ttl |-> k.ttl - 1]
    BY <1>1 DEF Gate!Elapse
  <2>2. QED
    BY <1>1, <2>1 DEF NoKey
<1>2. CASE k.ttl \in {0, 1}
  <2>1. Gate!Elapse(k) = Missing
    BY <1>2 DEF Gate!Elapse, Gate!Missing, Missing, Gate!NoKey, NoKey
  <2>2. QED
    BY <1>2, <2>1 DEF Missing, NoKey
<1>3. CASE k.ttl < 0
  <2>1. Gate!Elapse(k) = k
    BY <1>3 DEF Gate!Elapse, NoKey
  <2>2. QED
    BY <1>3, <2>1
<1>4. QED
  BY <1>1, <1>2, <1>3 DEF NoKey

LEMMA GateElapseHeld ==
  ASSUME NEW T \in Nat \ {0}, NEW k \in {Missing} \cup {Gate!Held(t) : t \in 1..T}
  PROVE  /\ Gate!Elapse(k) \in {Missing} \cup {Gate!Held(t) : t \in 1..T}
         /\ Gate!Elapse(k).ttl = IF k.ttl = NoKey \/ k.ttl = 1 THEN NoKey ELSE k.ttl - 1
         /\ k.ttl = NoKey \/ k.ttl \in 1..T
<1>1. CASE k = Missing
  <2>1. k.val = 0 /\ k.ttl = NoKey /\ k = [val |-> k.val, ttl |-> k.ttl]
    BY <1>1 DEF Missing
  <2>2. Gate!Elapse(k) = k
    BY <2>1, GateElapse DEF NoKey
  <2>3. QED
    BY <1>1, <2>1, <2>2
<1>2. ASSUME NEW t \in 1..T, k = Gate!Held(t)
      PROVE  /\ Gate!Elapse(k) \in {Missing} \cup {Gate!Held(u) : u \in 1..T}
             /\ Gate!Elapse(k).ttl = IF k.ttl = NoKey \/ k.ttl = 1 THEN NoKey ELSE k.ttl - 1
             /\ k.ttl \in 1..T
  <2>1. k.val = 1 /\ k.ttl = t /\ k = [val |-> k.val, ttl |-> k.ttl] /\ k.ttl \in NoKey..T
    BY <1>2 DEF Gate!Held, NoKey
  <2>2. CASE t = 1
    BY <2>1, <2>2, GateElapse DEF NoKey
  <2>3. CASE t # 1
    <3>1. Gate!Elapse(k) = Gate!Held(t - 1) /\ t - 1 \in 1..T /\ Gate!Elapse(k).ttl = t - 1
      <4>1. t > 1 /\ t - 1 \in 1..T
        BY <2>3
      <4>2. QED
        BY <2>1, <4>1, GateElapse DEF Gate!Held
    <3>2. QED
      BY <2>1, <2>3, <3>1 DEF NoKey
  <2>4. QED
    BY <2>2, <2>3
<1>3. QED
  BY <1>1, <1>2

LEMMA GateTick ==
  ASSUME GateInv, Gate!Tick
  PROVE  GateInv'
<1>1. /\ \A c \in Callers : att[c].step = "idle"
      /\ UNCHANGED <<att, faults>> /\ begun' = 0
      /\ \A s \in Scopes : /\ fail'[s] = Gate!Elapse(fail[s])
                           /\ lock'[s] = Gate!Elapse(lock[s])
                           /\ unlock'[s] = Gate!Elapse(unlock[s])
                           /\ earned'[s] = IF earned[s] < UnlockTTL THEN earned[s] + 1 ELSE UnlockTTL
      /\ fail' = [s \in Scopes |-> fail'[s]] /\ lock' = [s \in Scopes |-> lock'[s]]
      /\ unlock' = [s \in Scopes |-> unlock'[s]] /\ earned' = [s \in Scopes |-> earned'[s]]
  BY DEF Gate!Tick
<1>2. ASSUME NEW s \in Scopes
      PROVE  /\ fail[s].val \in Nat /\ fail[s].ttl \in NoKey..LockTTL
             /\ fail[s] = [val |-> fail[s].val, ttl |-> fail[s].ttl]
             /\ fail'[s] \in [val : Nat, ttl : NoKey..LockTTL]
             /\ fail[s].ttl > 1 => fail'[s].val = fail[s].val /\ fail'[s].ttl = fail[s].ttl - 1
             /\ fail[s].ttl \in {0, 1} => fail'[s].val = 0 /\ fail'[s].ttl = NoKey
             /\ fail[s].ttl < 0 => fail'[s] = fail[s]
  <2>1. /\ fail[s].val \in Nat /\ fail[s].ttl \in NoKey..LockTTL
        /\ fail[s] = [val |-> fail[s].val, ttl |-> fail[s].ttl]
    BY DEF GateInv, GateTypes
  <2>2. QED
    BY <1>1, <2>1, GateElapse, GateConstants
<1>3. ASSUME NEW s \in Scopes
      PROVE  /\ lock'[s] \in {Missing} \cup {Gate!Held(t) : t \in 1..LockTTL}
             /\ lock'[s].ttl = IF lock[s].ttl = NoKey \/ lock[s].ttl = 1 THEN NoKey ELSE lock[s].ttl - 1
             /\ lock[s].ttl = NoKey \/ lock[s].ttl \in 1..LockTTL
  <2>1. lock[s] \in {Missing} \cup {Gate!Held(t) : t \in 1..LockTTL}
    BY DEF GateInv, GateTypes
  <2>2. QED
    BY <1>1, <2>1, GateElapseHeld, GateConstants
<1>4. ASSUME NEW s \in Scopes
      PROVE  /\ unlock'[s] \in {Missing} \cup {Gate!Held(t) : t \in 1..UnlockTTL}
             /\ unlock'[s].ttl = IF unlock[s].ttl = NoKey \/ unlock[s].ttl = 1 THEN NoKey ELSE unlock[s].ttl - 1
             /\ unlock[s].ttl = NoKey \/ unlock[s].ttl \in 1..UnlockTTL
  <2>1. unlock[s] \in {Missing} \cup {Gate!Held(t) : t \in 1..UnlockTTL}
    BY DEF GateInv, GateTypes
  <2>2. QED
    BY <1>1, <2>1, GateElapseHeld, GateConstants
<1>5. \A s \in Scopes : earned[s] \in 0..UnlockTTL /\ earned'[s] \in 0..UnlockTTL
  BY <1>1, GateConstants DEF GateInv, GateTypes
<1>6. GateTypes'
  BY <1>1, <1>2, <1>3, <1>4, <1>5, GateConstants DEF GateInv, GateTypes
<1>7. ASSUME NEW s \in Scopes PROVE GateScope(s)'
  <2>1. /\ Comparing(s) = {} /\ Comparing(s)' = {} /\ Renewing(s) = {} /\ Renewing(s)' = {}
        /\ Locking(s) = {} /\ Locking(s)' = {}
        /\ ~\E d \in Callers : att'[d].step = "lock" /\ att'[d].scope = s
    BY <1>1 DEF Comparing, Renewing, Locking
  <2>2. Cardinality({}) = 0
    BY FS_EmptySet
  <2>3. GateScope(s) /\ faults \in Nat /\ faults' = faults
    BY <1>1, GateConstants DEF GateInv, GateTypes
  <2>4. /\ fail[s].ttl = NoKey => fail[s].val = 0
        /\ lock[s].ttl = NoKey => fail[s].val <= MaxFails - 1 + faults
        /\ lock[s].ttl # NoKey =>
              /\ fail[s].val <= MaxFails - 1 + Cardinality(Callers) + faults
              /\ \/ fail[s].ttl = NoKey
                 \/ 1 <= fail[s].ttl /\ fail[s].ttl <= lock[s].ttl
                 \/ fail[s].val <= MaxFails - 1 + faults
        /\ unlock[s].ttl # NoKey => earned[s] + unlock[s].ttl <= UnlockTTL
    <3>1. fail[s].val \in Nat
      BY GateConstants DEF GateInv, GateTypes
    <3>2. fail[s].val + 0 = fail[s].val /\ MaxFails - 1 + 0 + faults = MaxFails - 1 + faults
      BY <2>3, <3>1, GateConstants
    <3>3. QED
      BY <2>1, <2>2, <2>3, <3>2 DEF GateScope, Locked, LockLeft
  <2>5. /\ fail[s].val \in Nat /\ fail[s].ttl \in Int /\ fail'[s].val \in Nat /\ fail'[s].ttl \in Int
        /\ fail[s].ttl > 1 => fail'[s].val = fail[s].val /\ fail'[s].ttl = fail[s].ttl - 1
        /\ fail[s].ttl \in {0, 1} => fail'[s].val = 0 /\ fail'[s].ttl = -2
        /\ fail[s].ttl < 0 => fail'[s].val = fail[s].val /\ fail'[s].ttl = fail[s].ttl
    <3>1. /\ fail[s].val \in Nat /\ fail[s].ttl \in NoKey..LockTTL
          /\ fail'[s] \in [val : Nat, ttl : NoKey..LockTTL]
          /\ fail[s].ttl > 1 => fail'[s].val = fail[s].val /\ fail'[s].ttl = fail[s].ttl - 1
          /\ fail[s].ttl \in {0, 1} => fail'[s].val = 0 /\ fail'[s].ttl = NoKey
          /\ fail[s].ttl < 0 => fail'[s] = fail[s]
      BY <1>2
    <3>2. fail'[s].val \in Nat /\ fail'[s].ttl \in NoKey..LockTTL
      BY <3>1
    <3>3. fail[s].ttl \in Int /\ fail'[s].ttl \in Int
      BY <3>1, <3>2, GateConstants DEF NoKey
    <3>4. fail[s].ttl \in {0, 1} => fail'[s].ttl = -2
      BY <3>1 DEF NoKey
    <3>5. QED
      BY <3>1, <3>2, <3>3, <3>4
  <2>6. /\ lock[s].ttl = -2 \/ lock[s].ttl \in 1..LockTTL
        /\ lock'[s].ttl = IF lock[s].ttl = -2 \/ lock[s].ttl = 1 THEN -2 ELSE lock[s].ttl - 1
    BY <1>3 DEF NoKey
  <2>7. /\ fail'[s].ttl = NoKey => fail'[s].val = 0
        /\ lock'[s].ttl = NoKey => fail'[s].val <= MaxFails - 1 + faults
        /\ lock'[s].ttl # NoKey =>
              /\ fail'[s].val <= MaxFails - 1 + Cardinality(Callers) + faults
              /\ \/ fail'[s].ttl = NoKey
                 \/ 1 <= fail'[s].ttl /\ fail'[s].ttl <= lock'[s].ttl
                 \/ fail'[s].val <= MaxFails - 1 + faults
    <3>1. CASE lock[s].ttl = -2
      BY <2>3, <2>4, <2>5, <2>6, <3>1, GateConstants DEF NoKey
    <3>2. CASE lock[s].ttl = 1
      BY <2>3, <2>4, <2>5, <2>6, <3>2, GateConstants DEF NoKey
    <3>3. CASE lock[s].ttl \in 2..LockTTL
      BY <2>3, <2>4, <2>5, <2>6, <3>3, GateConstants DEF NoKey
    <3>4. QED
      BY <2>6, <3>1, <3>2, <3>3, GateConstants
  <2>8. unlock'[s].ttl # NoKey => earned'[s] + unlock'[s].ttl <= UnlockTTL
    BY <1>1, <1>4, <1>5, <2>4, GateConstants DEF NoKey
  <2>9. QED
    <3>1. fail'[s].val + 0 = fail'[s].val /\ MaxFails - 1 + 0 + faults = MaxFails - 1 + faults
      BY <2>3, <2>5, GateConstants
    <3>2. QED
      BY <2>1, <2>2, <2>3, <2>7, <2>8, <3>1 DEF GateScope, Locked, LockLeft
<1>8. ASSUME NEW d \in Callers PROVE GateCaller(d)'
  BY <1>1 DEF GateInv, GateCaller
<1>9. QED
  BY <1>6, <1>7, <1>8 DEF GateInv

(* Attempts of the other counters' parts leave it as it is: they add faults *)
(* at most.                                                                 *)
LEMMA GateFrame ==
  ASSUME GateInv, UNCHANGED gateVars,
         begun' \in 0..PerTick, faults' \in 0..MaxFaults, faults <= faults'
  PROVE  GateInv'
<1>1. GateTypes'
  BY DEF gateVars, GateInv, GateTypes
<1>2. ASSUME NEW s \in Scopes PROVE GateScope(s)'
  <2>1. /\ Comparing(s)' = Comparing(s) /\ Renewing(s)' = Renewing(s)
        /\ Locking(s)' = Locking(s) /\ (Locked(s)' <=> Locked(s)) /\ LockLeft(s)' = LockLeft(s)
    BY DEF gateVars, Comparing, Renewing, Locking, Locked, LockLeft
  <2>2. GateScope(s) /\ faults \in Nat /\ faults' \in Nat /\ fail[s].val \in Nat
    BY GateConstants DEF GateInv, GateTypes
  <2>3. UNCHANGED <<fail, unlock, earned, att>>
    BY DEF gateVars
  <2>4. QED
    BY <2>1, <2>2, <2>3, GateCounts, GateConstants DEF GateScope
<1>3. ASSUME NEW c \in Callers PROVE GateCaller(c)'
  BY DEF gateVars, GateInv, GateCaller, Locked
<1>4. QED
  BY <1>1, <1>2, <1>3 DEF GateInv

LEMMA GateInductive == GateInv /\ Gate!Next => GateInv'
<1>1. SUFFICES ASSUME GateInv, Gate!Next PROVE GateInv'
  OBVIOUS
<1>2. ASSUME NEW c \in Callers, Gate!Attempt(c) \/ Gate!Die(c) PROVE GateInv'
  <2>1. PICK s \in Scopes : att[c].scope = s
    BY <1>1 DEF GateInv, GateTypes, AttemptType
  <2>2. QED
    BY <1>1, <1>2, <2>1, GateCheckLock, GateWrong, GateExpireFails, GateSetLock, GateRight,
       GateClearFails, GateGrant, GateDie DEF Gate!Attempt
<1>3. QED
  BY <1>1, <1>2, GateLockScope, GateTick DEF Gate!Next

LEMMA GateInvIsSafe == GateInv => GateSafe
<1>1. SUFFICES ASSUME GateInv PROVE GateSafe
  OBVIOUS
<1>2. Gate!Cardinality(Callers) = Cardinality(Callers)
  BY GateCardinality
<1>3. ASSUME NEW s \in Scopes
      PROVE  /\ fail[s].val < MaxFails + Cardinality(Callers) + faults
             /\ fail[s].val >= MaxFails /\ faults = 0 => Locked(s) \/ Locking(s) # {}
             /\ unlock[s].ttl # NoKey => earned[s] + unlock[s].ttl <= UnlockTTL
             /\ fail[s].val \in 0..Gate!MostFails
  <2>1. GateScope(s) /\ faults \in Nat /\ faults <= MaxFaults /\ fail[s].val \in Nat
    BY <1>1, GateConstants DEF GateInv, GateTypes
  <2>2. fail[s].val < MaxFails + Cardinality(Callers) + faults
    BY <2>1, GateCounts, GateConstants DEF GateScope
  <2>3. Locking(s) = {} => Cardinality(Locking(s)) = 0
    BY FS_EmptySet
  <2>4. QED
    BY <1>2, <2>1, <2>2, <2>3, GateCounts, GateConstants DEF GateScope, Gate!MostFails
<1>4. Gate!GuessesBounded /\ Gate!UnlockIsEarned
  BY <1>2, <1>3 DEF Gate!GuessesBounded, Gate!UnlockIsEarned, Gate!Exists, Gate!NoKey, NoKey
<1>5. Gate!FullMeansLocked
  <2>1. \A s \in Scopes : Locking(s) # {} =>
           \E c \in Callers : att[c].scope = s /\ att[c].step \in {"expire", "lock"}
    BY DEF Locking
  <2>2. QED
    BY <1>3, <2>1 DEF Gate!FullMeansLocked, Locked, Gate!Exists, Gate!NoKey, NoKey
<1>6. Gate!TypeInv
  <2>1. \A s \in Scopes : fail[s] \in [val : 0..Gate!MostFails, ttl : NoKey..LockTTL]
    BY <1>1, <1>3 DEF GateInv, GateTypes
  <2>2. \A c \in Callers : att[c] \in [step : Gate!Steps, scope : Scopes, fails : 0..Gate!MostFails]
    <3>1. \A c \in Callers : att[c] \in AttemptType /\ att[c].fails \in 0..Gate!MostFails
      BY <1>1, <1>2, GateConstants DEF GateInv, GateTypes, GateCaller, AttemptType, Gate!MostFails
    <3>2. QED
      BY <3>1 DEF AttemptType
  <2>3. QED
    BY <1>1, <2>1, <2>2
       DEF GateInv, GateTypes, Gate!TypeInv, Gate!Missing, Missing, Gate!NoKey, NoKey
<1>7. QED
  BY <1>4, <1>5, <1>6 DEF GateSafe, Gate!GateSafe

LEMMA NoFewerFaults ==
  ASSUME NEW M \in Nat, NEW f \in Nat, NEW g \in Nat, NEW a \in Nat, f <= g, a <= M * f
  PROVE  a <= M * g
<1>1. M * f <= M * g
  BY MoreFaults
<1>2. M * f \in Nat /\ M * g \in Nat
  OBVIOUS
<1>3. QED
  BY <1>1, <1>2

(* Calls of the other parts leave the use counter as it is. *)
LEMMA UsesFrame ==
  ASSUME UsesInv, UNCHANGED usesVars, faults' \in 0..MaxFaults, faults <= faults'
  PROVE  UsesInv'
<1>1. again \in Nat /\ again <= MaxCalls * faults'
  <2>1. faults \in Nat /\ faults' \in Nat /\ again \in Nat /\ again <= MaxCalls * faults
    BY UsesConstants DEF UsesInv
  <2>2. again <= MaxCalls * faults'
    BY <2>1, NoFewerFaults, UsesConstants
  <2>3. QED
    BY <2>1, <2>2
<1>2. QED
  BY <1>1 DEF usesVars, UsesInv, Uses!UsesBalance, Uses!Dropping

-----------------------------------------------------------------------------
(* The login limits (LoginLimit).                                           *)

There(k) == logins[k].ttl # NoKey
Life(k) == IF logins[k].ttl = NoExpiry THEN Window ELSE logins[k].ttl

(* Attempts the counter of an address has let pass and the common one has   *)
(* not counted yet.                                                         *)
Coming(a) == {c \in Callers : at[c].step \in {"expireIp", "countAll"} /\ at[c].ip = a}

LoginTypes ==
    /\ logins \in [Login!Keys -> [val : 0..MaxCount, ttl : {NoKey, NoExpiry} \cup (1..Window)]]
    /\ at \in [Callers -> [step : Login!Steps, ip : Addresses]]
    /\ granted \in [Login!Keys -> 0..MaxCount]
    /\ share \in [Addresses -> 0..MaxCount]
    /\ begun \in 0..PerTick
    /\ faults \in 0..MaxFaults

LoginKey(k) ==
    /\ ~There(k) <=> logins[k].val = 0
    /\ granted[k] = IF logins[k].val <= Login!LimitOf(k) THEN logins[k].val ELSE Login!LimitOf(k)
    /\ faults = 0 /\ logins[k].ttl = NoExpiry => Login!Expiring(k)

(* What an address has on the common counter, and is about to put there, it *)
(* was granted by its own counter in this life, or in the life before if    *)
(* the common counter is the older of the two.                              *)
LoginShare(a) == LET drawn == share[a] + Cardinality(Coming(a)) IN
    /\ ~There(Login!All) => share[a] = 0 /\ drawn <= granted[a]
    /\ There(Login!All) /\ There(a) =>
          \/ drawn <= granted[a]
          \/ Life(Login!All) < Life(a) /\ drawn <= IpLimit + granted[a]
    /\ ~There(a) => drawn <= IpLimit /\ Coming(a) = {}
    /\ ~There(a) /\ There(Login!All) /\ Life(Login!All) = Window => share[a] = 0

LoginCaller(c) ==
    /\ at[c].step = "expireIp"  => There(at[c].ip) /\ Life(at[c].ip) = Window
    /\ at[c].step = "expireAll" => There(Login!All) /\ Life(Login!All) = Window

LoginInv ==
    /\ LoginTypes
    /\ \A k \in Login!Keys : LoginKey(k)
    /\ \A c \in Callers : LoginCaller(c)
    /\ faults = 0 => \A a \in Addresses : LoginShare(a)

LEMMA LoginConstants ==
    /\ IpLimit \in Nat \ {0} /\ AllLimit \in Nat \ {0} /\ Window \in Nat \ {0}
    /\ MaxCount \in Nat /\ MaxCount > AllLimit /\ MaxCount > 2 * IpLimit
    /\ Login!All \notin Addresses /\ Addresses # {}
    /\ Login!Keys = Addresses \cup {Login!All}
    /\ Login!LimitOf(Login!All) = AllLimit
    /\ \A a \in Addresses : Login!LimitOf(a) = IpLimit
    /\ PerTick \in Nat /\ MaxFaults \in Nat
    /\ IsFiniteSet(Callers)
  BY LoginAssumptions, GateConstants
     DEF Login!LimitsPositive, Login!LimitsReached, Login!WindowPositive, Login!AllIsNoAddress,
         Login!SomeAddress, Login!BoundsAreNat, Login!Keys, Login!LimitOf

LEMMA LimitOfKey ==
  ASSUME NEW k \in Login!Keys
  PROVE  Login!LimitOf(k) \in Nat \ {0} /\ Login!LimitOf(k) < MaxCount
<1>1. CASE k = Login!All
  BY <1>1, LoginConstants
<1>2. CASE k \in Addresses
  BY <1>2, LoginConstants
<1>3. QED
  BY <1>1, <1>2, LoginConstants

KeyRecord == [val : 0..MaxCount, ttl : {NoKey, NoExpiry} \cup (1..Window)]

LEMMA KeyIsRecord ==
  ASSUME LoginInv, NEW k \in Login!Keys
  PROVE  /\ logins[k] \in KeyRecord
         /\ logins[k].val \in Nat /\ logins[k].val <= MaxCount
         /\ logins[k].ttl \in {NoKey, NoExpiry} \cup (1..Window)
         /\ logins[k].ttl \in Int
         /\ There(k) => Life(k) \in 1..Window
         /\ granted[k] \in Nat /\ granted[k] <= Login!LimitOf(k)
<1>1. logins[k] \in KeyRecord
  BY DEF LoginInv, LoginTypes, KeyRecord
<1>2. logins[k].val \in 0..MaxCount /\ logins[k].ttl \in {NoKey, NoExpiry} \cup (1..Window)
  BY <1>1 DEF KeyRecord
<1>3. There(k) => Life(k) \in 1..Window
  BY <1>2, LoginConstants DEF There, Life
<1>4. granted[k] \in 0..MaxCount /\ LoginKey(k)
  BY DEF LoginInv, LoginTypes
<1>5. granted[k] <= Login!LimitOf(k)
  BY <1>2, <1>4, LimitOfKey, LoginConstants DEF LoginKey
<1>6. QED
  BY <1>1, <1>2, <1>3, <1>4, <1>5, LoginConstants DEF NoKey, NoExpiry

(* What an INCR does to its counter and to the attempts it lets pass. *)
LEMMA LoginCount ==
  ASSUME LoginInv, NEW k \in Login!Keys, Login!Count(k)
  PROVE  /\ logins' \in [Login!Keys -> KeyRecord] /\ granted' \in [Login!Keys -> 0..MaxCount]
         /\ \A j \in Login!Keys \ {k} : logins'[j] = logins[j] /\ granted'[j] = granted[j]
         /\ logins'[k].val \in Nat \ {0} /\ (logins'[k].val = 1 <=> ~There(k))
         /\ logins'[k].ttl = IF There(k) THEN logins[k].ttl ELSE NoExpiry
         /\ There(k)' /\ Life(k)' = IF There(k) THEN Life(k) ELSE Window
         /\ granted'[k] = IF logins'[k].val <= Login!LimitOf(k) THEN granted[k] + 1 ELSE granted[k]
         /\ granted'[k] = IF logins'[k].val <= Login!LimitOf(k) THEN logins'[k].val ELSE Login!LimitOf(k)
<1>1. /\ logins[k].val \in Nat /\ logins[k].val <= MaxCount
      /\ logins[k].ttl \in {NoKey, NoExpiry} \cup (1..Window)
      /\ granted[k] \in Nat /\ granted[k] <= Login!LimitOf(k)
      /\ LoginKey(k) /\ Login!LimitOf(k) \in Nat \ {0} /\ Login!LimitOf(k) < MaxCount
  BY KeyIsRecord, LimitOfKey DEF LoginInv
<1>2. /\ logins'[k] = [val |-> Login!UpTo(logins[k].val),
                       ttl |-> IF There(k) THEN logins[k].ttl ELSE NoExpiry]
      /\ \A j \in Login!Keys \ {k} : logins'[j] = logins[j] /\ granted'[j] = granted[j]
      /\ granted'[k] = IF Login!Passes(k, logins'[k].val) THEN Login!UpTo(granted[k]) ELSE granted[k]
  BY DEF Login!Count, LoginInv, LoginTypes, Login!Incr, Login!Add, Login!Exists, Login!NoKey,
         NoKey, Login!NoExpiry, NoExpiry, There
<1>3. /\ logins'[k].val = IF logins[k].val < MaxCount THEN logins[k].val + 1 ELSE MaxCount
      /\ logins'[k].ttl = IF There(k) THEN logins[k].ttl ELSE NoExpiry
  BY <1>2 DEF Login!UpTo
<1>4. /\ logins'[k].val \in Nat \ {0} /\ logins'[k].val <= MaxCount
      /\ logins'[k].val = 1 <=> ~There(k)
  BY <1>1, <1>3, LoginConstants DEF LoginKey
<1>5. Login!Passes(k, logins'[k].val) <=> logins'[k].val <= Login!LimitOf(k)
  BY <1>1, <1>4 DEF Login!Passes, Login!AfterIncr
<1>6. /\ granted'[k] = IF logins'[k].val <= Login!LimitOf(k) THEN granted[k] + 1 ELSE granted[k]
      /\ granted'[k] = IF logins'[k].val <= Login!LimitOf(k) THEN logins'[k].val ELSE Login!LimitOf(k)
  BY <1>1, <1>2, <1>3, <1>4, <1>5, LoginConstants DEF LoginKey, Login!UpTo
<1>7. There(k)' /\ Life(k)' = IF There(k) THEN Life(k) ELSE Window
  BY <1>1, <1>3 DEF There, Life, NoKey, NoExpiry
<1>8. logins' \in [Login!Keys -> KeyRecord]
  <2>1. logins'[k] \in KeyRecord
    BY <1>1, <1>2, <1>3, <1>4, LoginConstants DEF KeyRecord
  <2>2. logins' = [logins EXCEPT ![k] = logins'[k]] /\ logins \in [Login!Keys -> KeyRecord]
    BY DEF Login!Count, LoginInv, LoginTypes, KeyRecord
  <2>3. QED
    BY <2>1, <2>2
<1>9. granted' \in [Login!Keys -> 0..MaxCount]
  <2>1. granted'[k] \in 0..MaxCount
    BY <1>1, <1>4, <1>6, LoginConstants
  <2>2. granted' = [granted EXCEPT ![k] = granted'[k]] /\ granted \in [Login!Keys -> 0..MaxCount]
    BY DEF Login!Count, LoginInv, LoginTypes
  <2>3. QED
    BY <2>1, <2>2
<1>10. QED
  BY <1>2, <1>3, <1>4, <1>6, <1>7, <1>8, <1>9

(* What the step of one attempt does to those an address has coming. *)
LEMMA ComingMoves ==
  ASSUME NEW a, NEW c \in Callers, \A d \in Callers \ {c} : at'[d] = at[d]
  PROVE  /\ Cardinality(Coming(a)) \in Nat /\ Cardinality(Coming(a)') \in Nat
         /\ c \in Coming(a) => Coming(a) # {} /\ Cardinality(Coming(a)) > 0
         /\ c \notin Coming(a) /\ c \in Coming(a)' =>
               Cardinality(Coming(a)') = Cardinality(Coming(a)) + 1
         /\ c \in Coming(a) /\ c \notin Coming(a)' =>
               Cardinality(Coming(a)') = Cardinality(Coming(a)) - 1
         /\ (c \in Coming(a) <=> c \in Coming(a)') => Coming(a)' = Coming(a)
<1>1. /\ Coming(a) \in SUBSET Callers /\ Coming(a)' \in SUBSET Callers
      /\ Coming(a) \ {c} = Coming(a)' \ {c}
  BY DEF Coming
<1>2. IsFiniteSet(Callers) /\ IsFiniteSet(Coming(a))
  BY <1>1, LoginConstants, FS_Subset
<1>3. c \in Coming(a) => Coming(a) # {} /\ Cardinality(Coming(a)) # 0
  BY <1>2, FS_EmptySet
<1>4. QED
  BY <1>1, <1>2, <1>3, OneMoves

LEMMA ComingCounts ==
  ASSUME NEW a
  PROVE  /\ Cardinality(Coming(a)) \in Nat
         /\ Coming(a) = {} <=> Cardinality(Coming(a)) = 0
<1>1. IsFiniteSet(Coming(a))
  <2>1. Coming(a) \in SUBSET Callers
    BY DEF Coming
  <2>2. QED
    BY <2>1, LoginConstants, FS_Subset
<1>2. QED
  BY <1>1, FS_CardinalityType, FS_EmptySet

(* LoginShare on numbers: what a has on the common counter (s), is about to *)
(* put there (p) and was granted (g), and the two lifetimes.                *)
LEMMA ShareFacts ==
  ASSUME LoginInv, NEW a \in Addresses
  PROVE  /\ share[a] \in 0..MaxCount /\ Cardinality(Coming(a)) \in Nat
         /\ granted[a] \in Nat /\ granted[a] <= IpLimit /\ Login!LimitOf(a) = IpLimit
         /\ a \in Login!Keys /\ Login!All \in Login!Keys /\ a # Login!All
         /\ There(a) => Life(a) \in 1..Window
         /\ There(Login!All) => Life(Login!All) \in 1..Window
         /\ ~There(a) => granted[a] = 0
<1>1. a \in Login!Keys /\ Login!All \in Login!Keys /\ a # Login!All /\ Login!LimitOf(a) = IpLimit
  BY LoginConstants
<1>2. share[a] \in 0..MaxCount /\ LoginKey(a)
  BY <1>1 DEF LoginInv, LoginTypes
<1>3. ~There(a) => granted[a] = 0
  BY <1>1, <1>2, LoginConstants DEF LoginKey
<1>4. QED
  BY <1>1, <1>2, <1>3, KeyIsRecord, ComingCounts

LEMMA LoginInitially == Login!Init => LoginInv
<1>1. SUFFICES ASSUME Login!Init PROVE LoginInv
  OBVIOUS
<1>2. (CHOOSE a \in Addresses : TRUE) \in Addresses
  BY LoginConstants
<1>3. \A k \in Login!Keys : logins[k] = [val |-> 0, ttl |-> NoKey] /\ granted[k] = 0
  BY <1>1 DEF Login!Init, Login!Missing, Login!NoKey, NoKey
<1>4. LoginTypes
  BY <1>1, <1>2, LoginConstants
     DEF Login!Init, LoginTypes, Login!Steps, Login!Missing, Login!NoKey, NoKey
<1>5. ASSUME NEW k \in Login!Keys PROVE LoginKey(k) /\ ~There(k)
  BY <1>3, LimitOfKey DEF LoginKey, There, NoKey, NoExpiry
<1>6. ASSUME NEW a \in Addresses PROVE LoginShare(a)
  <2>1. Coming(a) = {} /\ share[a] = 0
    BY <1>1 DEF Login!Init, Coming
  <2>2. ~There(a) /\ ~There(Login!All) /\ granted[a] = 0
    BY <1>3, <1>5, LoginConstants
  <2>3. QED
    BY <2>1, <2>2, ComingCounts, LoginConstants DEF LoginShare
<1>7. \A c \in Callers : LoginCaller(c)
  BY <1>1 DEF Login!Init, LoginCaller
<1>8. QED
  BY <1>4, <1>5, <1>6, <1>7 DEF LoginInv

LEMMA LoginCountIp ==
  ASSUME LoginInv, NEW c \in Callers, NEW a \in Addresses, Login!CountIp(c, a)
  PROVE  LoginInv'
<1>1. /\ at[c].step = "idle" /\ Login!Count(a)
      /\ UNCHANGED <<share, faults>> /\ begun' \in 0..PerTick
      /\ at'[c] = [step |-> Login!AfterIncr(a, logins'[a].val, "expireIp", "countAll"), ip |-> a]
      /\ \A d \in Callers \ {c} : at'[d] = at[d]
      /\ at' = [at EXCEPT ![c] = at'[c]]
  BY LoginConstants DEF Login!CountIp, LoginInv, LoginTypes
<1>2. /\ a \in Login!Keys /\ Login!All \in Login!Keys /\ a # Login!All
      /\ Login!LimitOf(a) = IpLimit
  BY LoginConstants
<1>3. /\ at'[c].ip = a /\ at'[c].step \in {"idle", "expireIp", "countAll"}
      /\ at'[c].step = "expireIp" <=> ~There(a)
      /\ at'[c].step \in {"expireIp", "countAll"} <=> logins'[a].val <= IpLimit
  <2>1. logins'[a].val \in Nat \ {0} /\ (logins'[a].val = 1 <=> ~There(a))
    BY <1>1, <1>2, LoginCount
  <2>2. /\ at'[c].ip = a
        /\ at'[c].step = Login!AfterIncr(a, logins'[a].val, "expireIp", "countAll")
    BY <1>1
  <2>3. QED
    BY <1>2, <2>1, <2>2, LoginConstants DEF Login!AfterIncr
<1>4. LoginTypes'
  <2>1. at'[c] \in [step : Login!Steps, ip : Addresses]
    BY <1>1, <1>3 DEF Login!Steps
  <2>2. at' \in [Callers -> [step : Login!Steps, ip : Addresses]]
    BY <1>1, <2>1 DEF LoginInv, LoginTypes
  <2>3. QED
    BY <1>1, <1>2, <2>2, LoginCount DEF LoginInv, LoginTypes, KeyRecord
<1>5. ASSUME NEW k \in Login!Keys PROVE LoginKey(k)'
  <2>1. Login!Expiring(k) => Login!Expiring(k)'
    BY <1>1 DEF Login!Expiring
  <2>2. CASE k = a
    <3>1. ~There(a) => Login!Expiring(a)'
      BY <1>3 DEF Login!Expiring
    <3>2. /\ There(a)' /\ logins'[a].val # 0
          /\ logins'[a].ttl = IF There(a) THEN logins[a].ttl ELSE NoExpiry
          /\ granted'[a] = IF logins'[a].val <= Login!LimitOf(a)
                           THEN logins'[a].val ELSE Login!LimitOf(a)
      BY <1>1, <1>2, LoginCount
    <3>3. LoginKey(a)
      BY <1>2 DEF LoginInv
    <3>4. QED
      BY <1>1, <2>1, <2>2, <3>1, <3>2, <3>3 DEF LoginKey, There, Login!Expiring
  <2>3. CASE k # a
    BY <1>1, <1>2, <2>1, <2>3, LoginCount DEF LoginInv, LoginKey, There
  <2>4. QED
    BY <2>2, <2>3
<1>6. ASSUME NEW d \in Callers PROVE LoginCaller(d)'
  <2>1. There(a)' /\ Life(a)' = IF There(a) THEN Life(a) ELSE Window
    BY <1>1, <1>2, LoginCount
  <2>2. \A k \in Login!Keys \ {a} : (There(k)' <=> There(k)) /\ Life(k)' = Life(k)
    BY <1>1, <1>2, LoginCount DEF There, Life
  <2>3. CASE d = c
    BY <1>3, <2>1, <2>3 DEF LoginCaller
  <2>4. CASE d # c
    <3>1. at'[d] = at[d] /\ LoginCaller(d) /\ at[d].ip \in Login!Keys
      BY <1>1, <2>4, LoginConstants DEF LoginInv, LoginTypes
    <3>2. QED
      BY <1>2, <2>1, <2>2, <3>1 DEF LoginCaller
  <2>5. QED
    BY <2>3, <2>4
<1>7. ASSUME faults = 0, NEW b \in Addresses PROVE LoginShare(b)'
  <2>1. LoginShare(b) /\ share'[b] = share[b]
    BY <1>1, <1>7 DEF LoginInv
  <2>2. (There(Login!All)' <=> There(Login!All)) /\ Life(Login!All)' = Life(Login!All)
    BY <1>1, <1>2, LoginCount DEF There, Life
  <2>3. CASE b # a
    <3>1. c \notin Coming(b) /\ c \notin Coming(b)'
      BY <1>1, <1>3, <2>3 DEF Coming
    <3>2. Coming(b)' = Coming(b)
      BY <1>1, <3>1, ComingMoves
    <3>3. (There(b)' <=> There(b)) /\ Life(b)' = Life(b) /\ granted'[b] = granted[b]
      BY <1>1, <1>2, <2>3, LoginCount, LoginConstants DEF There, Life
    <3>4. QED
      BY <2>1, <2>2, <3>2, <3>3 DEF LoginShare
  <2>4. CASE b = a
    <3>1. /\ There(a)' /\ Life(a)' = IF There(a) THEN Life(a) ELSE Window
          /\ granted'[a] = IF logins'[a].val <= IpLimit THEN granted[a] + 1 ELSE granted[a]
      BY <1>1, <1>2, LoginCount
    <3>2. Cardinality(Coming(a)') = IF logins'[a].val <= IpLimit
                                    THEN Cardinality(Coming(a)) + 1 ELSE Cardinality(Coming(a))
      <4>1. c \notin Coming(a) /\ (c \in Coming(a)' <=> logins'[a].val <= IpLimit)
        BY <1>1, <1>3 DEF Coming
      <4>2. QED
        BY <1>1, <4>1, ComingMoves
    <3>3. /\ share[a] \in Nat /\ Cardinality(Coming(a)) \in Nat /\ granted[a] \in Nat
          /\ There(a) => Life(a) \in 1..Window
          /\ There(Login!All) => Life(Login!All) \in 1..Window
          /\ ~There(a) => granted[a] = 0
      BY ShareFacts, LoginConstants
    <3>4. ~There(a) => Cardinality(Coming(a)) = 0
      BY <2>1, <2>4, ComingCounts DEF LoginShare
    <3>5. ~There(a) => logins'[a].val <= IpLimit
      BY <1>1, <1>2, LoginCount, LoginConstants
    <3>6. /\ ~There(Login!All) => share[a] = 0 /\ share[a] + Cardinality(Coming(a)) <= granted[a]
          /\ There(Login!All) /\ There(a) =>
                \/ share[a] + Cardinality(Coming(a)) <= granted[a]
                \/ /\ Life(Login!All) < Life(a)
                   /\ share[a] + Cardinality(Coming(a)) <= IpLimit + granted[a]
          /\ ~There(a) => share[a] + Cardinality(Coming(a)) <= IpLimit
          /\ ~There(a) /\ There(Login!All) /\ Life(Login!All) = Window => share[a] = 0
      BY <2>1, <2>4 DEF LoginShare
    <3>7. /\ ~There(Login!All) => share[a] + Cardinality(Coming(a)') <= granted'[a]
          /\ There(Login!All) =>
                \/ share[a] + Cardinality(Coming(a)') <= granted'[a]
                \/ /\ Life(Login!All) < Life(a)'
                   /\ share[a] + Cardinality(Coming(a)') <= IpLimit + granted'[a]
      <4>1. CASE There(a)
        BY <3>1, <3>2, <3>3, <3>6, <4>1, LoginConstants
      <4>2. CASE ~There(a)
        BY <3>1, <3>2, <3>3, <3>4, <3>5, <3>6, <4>2, LoginConstants
      <4>3. QED
        BY <4>1, <4>2
    <3>8. QED
      BY <2>1, <2>2, <2>4, <3>1, <3>6, <3>7 DEF LoginShare
  <2>5. QED
    BY <2>3, <2>4
<1>8. QED
  BY <1>1, <1>4, <1>5, <1>6, <1>7 DEF LoginInv

LEMMA LoginCountAll ==
  ASSUME LoginInv, NEW c \in Callers, Login!CountAll(c)
  PROVE  LoginInv'
<1>1. /\ at[c].step = "countAll" /\ Login!Count(Login!All)
      /\ UNCHANGED <<begun, faults>>
      /\ at'[c].ip = at[c].ip
      /\ at'[c].step = Login!AfterIncr(Login!All, logins'[Login!All].val, "expireAll", "idle")
      /\ \A d \in Callers \ {c} : at'[d] = at[d]
      /\ at' = [at EXCEPT ![c].step = at'[c].step]
      /\ share' = [share EXCEPT ![at[c].ip] = Login!UpTo(share[at[c].ip])]
  BY DEF Login!CountAll, LoginInv, LoginTypes
<1>2. PICK a \in Addresses : at[c].ip = a
  BY DEF LoginInv, LoginTypes
<1>3. a \in Login!Keys /\ Login!All \in Login!Keys /\ a # Login!All
  BY LoginConstants
<1>4. /\ at'[c].step \in {"idle", "expireAll"}
      /\ at'[c].step = "expireAll" <=> ~There(Login!All)
  <2>1. /\ logins'[Login!All].val \in Nat \ {0}
        /\ logins'[Login!All].val = 1 <=> ~There(Login!All)
    BY <1>1, <1>3, LoginCount
  <2>2. QED
    BY <1>1, <1>3, <2>1, LoginConstants DEF Login!AfterIncr
<1>5. LoginTypes'
  <2>1. at'[c].step \in Login!Steps /\ at \in [Callers -> [step : Login!Steps, ip : Addresses]]
    BY <1>4 DEF Login!Steps, LoginInv, LoginTypes
  <2>2. at' \in [Callers -> [step : Login!Steps, ip : Addresses]]
    BY <1>1, <2>1
  <2>3. \A n \in 0..MaxCount : Login!UpTo(n) \in 0..MaxCount
    BY LoginConstants DEF Login!UpTo
  <2>4. share' \in [Addresses -> 0..MaxCount]
    BY <1>1, <1>2, <2>3 DEF LoginInv, LoginTypes
  <2>5. QED
    BY <1>1, <1>3, <2>2, <2>4, LoginCount DEF LoginInv, LoginTypes, KeyRecord
<1>6. ASSUME NEW k \in Login!Keys PROVE LoginKey(k)'
  <2>1. Login!Expiring(k) => Login!Expiring(k)'
    BY <1>1 DEF Login!Expiring
  <2>2. CASE k = Login!All
    <3>1. ~There(Login!All) => Login!Expiring(Login!All)'
      BY <1>4 DEF Login!Expiring
    <3>2. /\ There(Login!All)' /\ logins'[Login!All].val # 0
          /\ logins'[Login!All].ttl =
                IF There(Login!All) THEN logins[Login!All].ttl ELSE NoExpiry
          /\ granted'[Login!All] = IF logins'[Login!All].val <= Login!LimitOf(Login!All)
                                   THEN logins'[Login!All].val ELSE Login!LimitOf(Login!All)
      BY <1>1, <1>3, LoginCount
    <3>3. LoginKey(Login!All)
      BY <1>3 DEF LoginInv
    <3>4. QED
      BY <1>1, <2>1, <2>2, <3>1, <3>2, <3>3 DEF LoginKey, There, Login!Expiring
  <2>3. CASE k # Login!All
    BY <1>1, <1>3, <2>1, <2>3, LoginCount DEF LoginInv, LoginKey, There
  <2>4. QED
    BY <2>2, <2>3
<1>7. /\ There(Login!All)'
      /\ Life(Login!All)' = IF There(Login!All) THEN Life(Login!All) ELSE Window
      /\ \A b \in Addresses : /\ There(b)' <=> There(b)
                              /\ Life(b)' = Life(b) /\ granted'[b] = granted[b]
  <2>1. \A b \in Addresses : logins'[b] = logins[b] /\ granted'[b] = granted[b]
    BY <1>1, <1>3, LoginCount, LoginConstants
  <2>2. QED
    BY <1>1, <1>3, <2>1, LoginCount DEF There, Life
<1>8. ASSUME NEW d \in Callers PROVE LoginCaller(d)'
  <2>1. CASE d = c
    BY <1>4, <1>7, <2>1 DEF LoginCaller
  <2>2. CASE d # c
    <3>1. at'[d] = at[d] /\ LoginCaller(d) /\ at[d].ip \in Addresses
      BY <1>1, <2>2 DEF LoginInv, LoginTypes
    <3>2. QED
      BY <1>7, <3>1 DEF LoginCaller
  <2>3. QED
    BY <2>1, <2>2
<1>9. ASSUME faults = 0, NEW b \in Addresses PROVE LoginShare(b)'
  <2>1. /\ ~There(Login!All) => /\ share[b] = 0
                                /\ share[b] + Cardinality(Coming(b)) <= granted[b]
        /\ There(Login!All) /\ There(b) =>
              \/ share[b] + Cardinality(Coming(b)) <= granted[b]
              \/ /\ Life(Login!All) < Life(b)
                 /\ share[b] + Cardinality(Coming(b)) <= IpLimit + granted[b]
        /\ ~There(b) => share[b] + Cardinality(Coming(b)) <= IpLimit /\ Coming(b) = {}
        /\ ~There(b) /\ There(Login!All) /\ Life(Login!All) = Window => share[b] = 0
    BY <1>9 DEF LoginInv, LoginShare
  <2>2. /\ share[b] \in Nat /\ Cardinality(Coming(b)) \in Nat /\ granted[b] \in Nat
        /\ granted[b] <= IpLimit
        /\ There(b) => Life(b) \in 1..Window
        /\ There(Login!All) => Life(Login!All) \in 1..Window
    BY ShareFacts, LoginConstants
  <2>3. /\ There(b)' <=> There(b)
        /\ Life(b)' = Life(b) /\ granted'[b] = granted[b]
    BY <1>7
  <2>4. CASE b # a
    <3>1. c \notin Coming(b) /\ c \notin Coming(b)'
      BY <1>1, <1>2, <2>4 DEF Coming
    <3>2. Coming(b)' = Coming(b)
      BY <1>1, <3>1, ComingMoves
    <3>3. share'[b] = share[b]
      BY <1>1, <1>2, <2>4 DEF LoginInv, LoginTypes
    <3>4. CASE There(Login!All)
      BY <1>7, <2>1, <2>3, <3>2, <3>3, <3>4 DEF LoginShare
    <3>5. CASE ~There(Login!All)
      BY <1>7, <2>1, <2>2, <2>3, <3>2, <3>3, <3>5 DEF LoginShare
    <3>6. QED
      BY <3>4, <3>5
  <2>5. CASE b = a
    <3>1. c \in Coming(a) /\ c \notin Coming(a)'
      BY <1>1, <1>2, <1>4 DEF Coming
    <3>2. /\ Cardinality(Coming(a)) > 0 /\ Coming(a) # {}
          /\ Cardinality(Coming(a)') = Cardinality(Coming(a)) - 1
      BY <1>1, <3>1, ComingMoves
    <3>3. There(a)
      BY <2>1, <2>5, <3>2
    <3>4. share[a] < MaxCount
      BY <2>1, <2>2, <2>5, <3>2, <3>3, LoginConstants
    <3>5. share'[a] = share[a] + 1
      BY <1>1, <1>2, <3>4 DEF LoginInv, LoginTypes, Login!UpTo
    <3>6. share'[a] + Cardinality(Coming(a)') = share[a] + Cardinality(Coming(a))
      BY <2>2, <2>5, <3>2, <3>5
    <3>7. CASE There(Login!All)
      BY <1>7, <2>1, <2>3, <2>5, <3>3, <3>6, <3>7 DEF LoginShare
    <3>8. CASE ~There(Login!All)
      BY <1>7, <2>1, <2>3, <2>5, <3>3, <3>6, <3>8 DEF LoginShare
    <3>9. QED
      BY <3>7, <3>8
  <2>6. QED
    BY <2>4, <2>5
<1>10. QED
  BY <1>1, <1>5, <1>6, <1>8, <1>9 DEF LoginInv

(* The key that is given its lifetime is one that has none yet. *)
LEMMA LoginExpire ==
  ASSUME LoginInv, NEW c \in Callers, Login!ExpireKey(c)
  PROVE  \E k \in Login!Keys :
            /\ There(k) /\ Life(k) = Window
            /\ logins'[k] = [val |-> logins[k].val, ttl |-> Window]
            /\ \A j \in Login!Keys \ {k} : logins'[j] = logins[j]
            /\ logins' = [logins EXCEPT ![k] = logins'[k]]
            /\ at'[c].ip = at[c].ip
            /\ \/ /\ at[c].step = "expireIp" /\ at[c].ip = k /\ at'[c].step = "countAll"
               \/ /\ at[c].step = "expireAll" /\ k = Login!All /\ at'[c].step = "idle"
<1>1. at[c].ip \in Addresses /\ LoginCaller(c)
  BY DEF LoginInv, LoginTypes
<1>2. \A k \in Login!Keys : /\ logins[k] = [val |-> logins[k].val, ttl |-> logins[k].ttl]
                            /\ There(k) => Login!Expire(logins[k], Window)
                                              = [val |-> logins[k].val, ttl |-> Window]
  BY DEF LoginInv, LoginTypes, Login!Expire, Login!Exists, Login!NoKey, NoKey, There
<1>3. CASE at[c].step = "expireIp"
  <2>1. at[c].ip \in Login!Keys /\ There(at[c].ip) /\ Life(at[c].ip) = Window
    BY <1>1, <1>3, LoginConstants DEF LoginCaller
  <2>2. /\ logins' = [logins EXCEPT ![at[c].ip] = Login!Expire(logins[at[c].ip], Window)]
        /\ at'[c].step = "countAll" /\ at'[c].ip = at[c].ip
    BY <1>3 DEF Login!ExpireKey, LoginInv, LoginTypes
  <2>3. /\ logins'[at[c].ip] = [val |-> logins[at[c].ip].val, ttl |-> Window]
        /\ \A j \in Login!Keys \ {at[c].ip} : logins'[j] = logins[j]
        /\ logins' = [logins EXCEPT ![at[c].ip] = logins'[at[c].ip]]
    BY <1>2, <2>1, <2>2 DEF LoginInv, LoginTypes
  <2>4. QED
    BY <1>3, <2>1, <2>2, <2>3
<1>4. CASE at[c].step = "expireAll"
  <2>1. Login!All \in Login!Keys /\ There(Login!All) /\ Life(Login!All) = Window
    BY <1>1, <1>4, LoginConstants DEF LoginCaller
  <2>2. /\ logins' = [logins EXCEPT ![Login!All] = Login!Expire(logins[Login!All], Window)]
        /\ at'[c].step = "idle" /\ at'[c].ip = at[c].ip
    BY <1>4 DEF Login!ExpireKey, LoginInv, LoginTypes
  <2>3. /\ logins'[Login!All] = [val |-> logins[Login!All].val, ttl |-> Window]
        /\ \A j \in Login!Keys \ {Login!All} : logins'[j] = logins[j]
        /\ logins' = [logins EXCEPT ![Login!All] = logins'[Login!All]]
    BY <1>2, <2>1, <2>2 DEF LoginInv, LoginTypes
  <2>4. QED
    BY <1>4, <2>1, <2>2, <2>3
<1>5. QED
  BY <1>3, <1>4 DEF Login!ExpireKey

LEMMA LoginExpireKey ==
  ASSUME LoginInv, NEW c \in Callers, Login!ExpireKey(c)
  PROVE  LoginInv'
<1>1. /\ \A d \in Callers \ {c} : at'[d] = at[d]
      /\ at' = [at EXCEPT ![c].step = at'[c].step]
      /\ UNCHANGED <<granted, share, begun, faults>>
  BY DEF Login!ExpireKey, LoginInv, LoginTypes
<1>2. PICK k \in Login!Keys :
            /\ There(k) /\ Life(k) = Window
            /\ logins'[k] = [val |-> logins[k].val, ttl |-> Window]
            /\ \A j \in Login!Keys \ {k} : logins'[j] = logins[j]
            /\ logins' = [logins EXCEPT ![k] = logins'[k]]
            /\ at'[c].ip = at[c].ip
            /\ \/ /\ at[c].step = "expireIp" /\ at[c].ip = k /\ at'[c].step = "countAll"
               \/ /\ at[c].step = "expireAll" /\ k = Login!All /\ at'[c].step = "idle"
  BY LoginExpire
<1>3. logins'[k].val = logins[k].val /\ logins'[k].ttl = Window /\ Window # NoKey /\ Window # NoExpiry
  BY <1>2, LoginConstants DEF NoKey, NoExpiry
<1>4. \A j \in Login!Keys : (There(j)' <=> There(j)) /\ Life(j)' = Life(j)
  BY <1>2, <1>3 DEF There, Life
<1>5. LoginTypes'
  <2>1. logins'[k] \in KeyRecord
    BY <1>2, KeyIsRecord, LoginConstants DEF KeyRecord
  <2>2. logins' \in [Login!Keys -> KeyRecord]
    BY <1>2, <2>1 DEF LoginInv, LoginTypes, KeyRecord
  <2>3. at' \in [Callers -> [step : Login!Steps, ip : Addresses]]
    BY <1>1, <1>2 DEF LoginInv, LoginTypes, Login!Steps
  <2>4. QED
    BY <1>1, <2>2, <2>3 DEF LoginInv, LoginTypes, KeyRecord
<1>6. ASSUME NEW j \in Login!Keys PROVE LoginKey(j)'
  <2>1. LoginKey(j)
    BY DEF LoginInv
  <2>2. CASE j = k
    BY <1>1, <1>3, <1>4, <2>1, <2>2 DEF LoginKey
  <2>3. CASE j # k
    <3>1. Login!Expiring(j) => Login!Expiring(j)'
      BY <1>1, <1>2, <2>3 DEF Login!Expiring
    <3>2. QED
      BY <1>1, <1>2, <1>4, <2>1, <2>3, <3>1 DEF LoginKey
  <2>4. QED
    BY <2>2, <2>3
<1>7. ASSUME NEW d \in Callers PROVE LoginCaller(d)'
  <2>1. at'[d].ip \in Login!Keys /\ Login!All \in Login!Keys
    BY <1>5, LoginConstants DEF LoginTypes
  <2>2. CASE d = c
    BY <1>2, <2>2 DEF LoginCaller
  <2>3. CASE d # c
    BY <1>1, <1>4, <2>1, <2>3 DEF LoginInv, LoginCaller
  <2>4. QED
    BY <2>2, <2>3
<1>8. ASSUME faults = 0, NEW b \in Addresses PROVE LoginShare(b)'
  <2>1. LoginShare(b) /\ b \in Login!Keys /\ Login!All \in Login!Keys
    BY <1>8, LoginConstants DEF LoginInv
  <2>2. c \in Coming(b) <=> c \in Coming(b)'
    BY <1>2 DEF Coming
  <2>3. Coming(b)' = Coming(b)
    BY <1>1, <2>2, ComingMoves
  <2>4. QED
    BY <1>1, <1>4, <2>1, <2>3 DEF LoginShare
<1>9. QED
  BY <1>1, <1>5, <1>6, <1>7, <1>8 DEF LoginInv

(* Who dies leaves the counters to what the code promises with deaths. *)
LEMMA LoginDie ==
  ASSUME LoginInv, NEW c \in Callers, Login!Die(c)
  PROVE  LoginInv'
<1>1. /\ faults' = faults + 1 /\ faults' \in 0..MaxFaults /\ faults' # 0
      /\ UNCHANGED <<logins, granted, share, begun>>
      /\ at' = [at EXCEPT ![c].step = "idle"]
  BY LoginConstants DEF Login!Die, LoginInv, LoginTypes
<1>2. LoginTypes'
  BY <1>1 DEF LoginInv, LoginTypes, Login!Steps
<1>3. \A k \in Login!Keys : LoginKey(k)'
  BY <1>1 DEF LoginInv, LoginKey, There
<1>4. \A d \in Callers : LoginCaller(d)'
  BY <1>1 DEF LoginInv, LoginTypes, LoginCaller, There, Life
<1>5. QED
  BY <1>1, <1>2, <1>3, <1>4 DEF LoginInv

LEMMA LoginFrame ==
  ASSUME LoginInv, UNCHANGED loginVars,
         begun' \in 0..PerTick, faults' \in 0..MaxFaults, faults <= faults'
  PROVE  LoginInv'
<1>1. UNCHANGED <<logins, at, granted, share>>
  BY DEF loginVars
<1>2. LoginTypes'
  BY <1>1 DEF LoginInv, LoginTypes
<1>3. faults' = 0 => faults = 0
  BY LoginConstants DEF LoginInv, LoginTypes
<1>4. \A k \in Login!Keys : LoginKey(k)'
  BY <1>1, <1>3 DEF LoginInv, LoginKey, There, Login!Expiring
<1>5. \A d \in Callers : LoginCaller(d)'
  BY <1>1 DEF LoginInv, LoginCaller, There, Life
<1>6. ASSUME faults' = 0, NEW b \in Addresses PROVE LoginShare(b)'
  <2>1. LoginShare(b) /\ Coming(b)' = Coming(b)
    BY <1>1, <1>3, <1>6 DEF LoginInv, Coming
  <2>2. QED
    BY <1>1, <2>1 DEF LoginShare, There, Life
<1>7. QED
  BY <1>2, <1>4, <1>5, <1>6 DEF LoginInv

(* With nobody between two commands every key has its lifetime, unless      *)
(* somebody died: a tick takes one of it, and a key at its last is gone.    *)
LEMMA LoginElapse ==
  ASSUME LoginInv, Login!Tick, NEW k \in Login!Keys
  PROVE  /\ logins'[k] \in KeyRecord /\ granted'[k] \in 0..MaxCount
         /\ ~Login!Expiring(k) /\ (faults = 0 => logins[k].ttl # NoExpiry)
         /\ There(k)' => /\ There(k) /\ logins'[k].val = logins[k].val
                         /\ granted'[k] = granted[k]
                         /\ logins'[k].ttl = NoExpiry <=> logins[k].ttl = NoExpiry
         /\ ~There(k)' => logins'[k].val = 0 /\ granted'[k] = 0
         /\ faults = 0 /\ There(k)' => Life(k)' = Life(k) - 1 /\ Life(k) \in 2..Window
         /\ faults = 0 /\ There(k) /\ ~There(k)' => Life(k) = 1
<1>1. /\ \A c \in Callers : at[c].step = "idle"
      /\ logins'[k] = Login!Elapse(logins[k])
      /\ granted'[k] = IF There(k)' THEN granted[k] ELSE 0
  BY DEF Login!Tick, Login!Exists, Login!NoKey, There, NoKey
<1>2. /\ logins[k] \in KeyRecord /\ logins[k] = [val |-> logins[k].val, ttl |-> logins[k].ttl]
      /\ logins[k].val \in 0..MaxCount /\ logins[k].ttl \in {NoKey, NoExpiry} \cup (1..Window)
      /\ granted[k] \in 0..MaxCount
      /\ LoginKey(k)
  BY DEF LoginInv, LoginTypes, KeyRecord
<1>3. ~Login!Expiring(k) /\ (faults = 0 => logins[k].ttl # NoExpiry)
  BY <1>1, <1>2 DEF LoginKey, Login!Expiring
<1>4. CASE logins[k].ttl \in 2..Window
  <2>1. logins'[k] = [val |-> logins[k].val, ttl |-> logins[k].ttl - 1]
    BY <1>1, <1>2, <1>4 DEF Login!Elapse
  <2>2. /\ logins'[k].val = logins[k].val /\ logins'[k].ttl = logins[k].ttl - 1
        /\ logins'[k].ttl \in 1..Window
    BY <1>4, <2>1, LoginConstants
  <2>3. /\ There(k) /\ There(k)' /\ Life(k) = logins[k].ttl /\ Life(k)' = Life(k) - 1
        /\ logins'[k].ttl # NoExpiry /\ logins[k].ttl # NoExpiry
    BY <1>4, <2>2, LoginConstants DEF There, Life, NoKey, NoExpiry
  <2>4. logins'[k] \in KeyRecord
    BY <1>2, <2>1, <2>2 DEF KeyRecord
  <2>5. QED
    BY <1>1, <1>2, <1>3, <1>4, <2>2, <2>3, <2>4
<1>5. CASE logins[k].ttl = 1
  <2>1. logins'[k] = [val |-> 0, ttl |-> NoKey]
    BY <1>1, <1>2, <1>5 DEF Login!Elapse, Login!Missing, Login!NoKey, NoKey
  <2>2. /\ ~There(k)' /\ There(k) /\ Life(k) = 1 /\ logins'[k].val = 0
        /\ logins'[k] \in KeyRecord
    BY <1>5, <2>1, LoginConstants DEF There, Life, NoKey, NoExpiry, KeyRecord
  <2>3. QED
    BY <1>1, <1>3, <2>2, LoginConstants
<1>6. CASE logins[k].ttl = NoKey \/ logins[k].ttl = NoExpiry
  <2>1. logins'[k] = logins[k]
    BY <1>1, <1>2, <1>6 DEF Login!Elapse, NoKey, NoExpiry
  <2>2. (There(k)' <=> There(k)) /\ Life(k)' = Life(k)
    BY <2>1 DEF There, Life
  <2>3. QED
    BY <1>1, <1>2, <1>3, <1>6, <2>1, <2>2, LoginConstants DEF LoginKey, There
<1>7. QED
  BY <1>2, <1>4, <1>5, <1>6, LoginConstants

LEMMA LoginTick ==
  ASSUME LoginInv, Login!Tick
  PROVE  LoginInv'
<1>1. /\ \A c \in Callers : at[c].step = "idle"
      /\ UNCHANGED <<at, faults>> /\ begun' = 0
      /\ logins' = [k \in Login!Keys |-> logins'[k]]
      /\ granted' = [k \in Login!Keys |-> granted'[k]]
      /\ share' = [a \in Addresses |-> IF There(Login!All)' THEN share[a] ELSE 0]
  BY DEF Login!Tick, Login!Exists, Login!NoKey, There, NoKey
<1>2. LoginTypes'
  <2>1. logins' \in [Login!Keys -> KeyRecord] /\ granted' \in [Login!Keys -> 0..MaxCount]
    BY <1>1, LoginElapse
  <2>2. share' \in [Addresses -> 0..MaxCount]
    BY <1>1, LoginConstants DEF LoginInv, LoginTypes
  <2>3. QED
    BY <1>1, <2>1, <2>2, LoginConstants DEF LoginInv, LoginTypes, KeyRecord
<1>3. ASSUME NEW k \in Login!Keys PROVE LoginKey(k)'
  <2>1. LoginKey(k) /\ Login!LimitOf(k) \in Nat \ {0}
    BY LimitOfKey DEF LoginInv
  <2>2. CASE There(k)'
    BY <1>1, <2>1, <2>2, LoginElapse DEF LoginKey
  <2>3. CASE ~There(k)'
    <3>1. logins'[k].ttl # NoExpiry
      BY <2>3 DEF There, NoKey, NoExpiry
    <3>2. QED
      BY <2>1, <2>3, <3>1, LoginElapse DEF LoginKey
  <2>4. QED
    BY <2>2, <2>3
<1>4. \A c \in Callers : LoginCaller(c)'
  BY <1>1 DEF LoginCaller
<1>5. ASSUME faults = 0, NEW a \in Addresses PROVE LoginShare(a)'
  <2>1. Coming(a) = {} /\ Coming(a)' = {} /\ Cardinality(Coming(a)') = 0
        /\ Cardinality(Coming(a)) = 0
    BY <1>1, FS_EmptySet DEF Coming
  <2>2. /\ a \in Login!Keys /\ Login!All \in Login!Keys
        /\ share[a] \in Nat /\ granted[a] \in Nat /\ granted[a] <= IpLimit
        /\ There(a) => Life(a) \in 1..Window
        /\ There(Login!All) => Life(Login!All) \in 1..Window
    BY ShareFacts, LoginConstants
  <2>3. /\ There(a)' => There(a) /\ granted'[a] = granted[a] /\ Life(a)' = Life(a) - 1
        /\ ~There(a)' => granted'[a] = 0
        /\ There(a) /\ ~There(a)' => Life(a) = 1
        /\ There(Login!All)' => /\ There(Login!All)
                                /\ Life(Login!All)' = Life(Login!All) - 1
    BY <1>5, <2>2, LoginElapse
  <2>4. share'[a] = IF There(Login!All)' THEN share[a] ELSE 0
    BY <1>1
  <2>5. /\ ~There(Login!All) => share[a] = 0 /\ share[a] + 0 <= granted[a]
        /\ There(Login!All) /\ There(a) =>
              \/ share[a] + 0 <= granted[a]
              \/ Life(Login!All) < Life(a) /\ share[a] + 0 <= IpLimit + granted[a]
        /\ ~There(a) => share[a] + 0 <= IpLimit
        /\ ~There(a) /\ There(Login!All) /\ Life(Login!All) = Window => share[a] = 0
    BY <1>5, <2>1 DEF LoginInv, LoginShare
  <2>6. CASE ~There(Login!All)'
    <3>1. share'[a] = 0 /\ granted'[a] \in Nat
      BY <2>2, <2>3, <2>4, <2>6
    <3>2. 0 + 0 <= granted'[a] /\ 0 + 0 <= IpLimit
      BY <3>1, LoginConstants
    <3>3. QED
      BY <2>1, <2>6, <3>1, <3>2 DEF LoginShare
  <2>7. CASE There(Login!All)' /\ There(a)'
    <3>1. \/ share'[a] + 0 <= granted'[a]
          \/ Life(Login!All)' < Life(a)' /\ share'[a] + 0 <= IpLimit + granted'[a]
      BY <2>2, <2>3, <2>4, <2>5, <2>7
    <3>2. QED
      BY <2>1, <2>7, <3>1 DEF LoginShare
  <2>8. CASE There(Login!All)' /\ ~There(a)'
    <3>1. share'[a] + 0 <= IpLimit
      <4>1. CASE There(a)
        BY <2>2, <2>3, <2>4, <2>5, <2>8, <4>1, LoginConstants
      <4>2. CASE ~There(a)
        BY <2>2, <2>3, <2>4, <2>5, <2>8, <4>2, LoginConstants
      <4>3. QED
        BY <4>1, <4>2
    <3>2. Life(Login!All)' # Window
      BY <2>2, <2>3, <2>8, LoginConstants
    <3>3. QED
      BY <2>1, <2>8, <3>1, <3>2 DEF LoginShare
  <2>9. QED
    BY <2>6, <2>7, <2>8
<1>6. QED
  BY <1>1, <1>2, <1>3, <1>4, <1>5 DEF LoginInv

LEMMA LoginInductive == LoginInv /\ Login!Next => LoginInv'
<1>1. SUFFICES ASSUME LoginInv, Login!Next PROVE LoginInv'
  OBVIOUS
<1>2. ASSUME NEW c \in Callers, Login!Step(c) \/ Login!Die(c) PROVE LoginInv'
  BY <1>1, <1>2, LoginCountIp, LoginCountAll, LoginExpireKey, LoginDie DEF Login!Step
<1>3. QED
  BY <1>1, <1>2, LoginTick DEF Login!Next

LEMMA LoginInvIsSafe == LoginInv => LoginSafe
<1>1. SUFFICES ASSUME LoginInv PROVE LoginSafe
  OBVIOUS
<1>2. Login!TypeInv
  <2>1. \A k \in Login!Keys : logins[k] \in [val : 0..MaxCount, ttl : Login!NoKey..Window]
    <3>1. \A k \in Login!Keys : /\ logins[k] \in KeyRecord
                                /\ logins[k].ttl \in Login!NoKey..Window
      BY <1>1, KeyIsRecord, LoginConstants DEF NoKey, NoExpiry, Login!NoKey
    <3>2. QED
      BY <3>1 DEF KeyRecord
  <2>2. QED
    BY <1>1, <2>1 DEF LoginInv, LoginTypes, Login!TypeInv
<1>3. Login!WindowHolds
  BY <1>1, KeyIsRecord DEF Login!WindowHolds
<1>4. Login!ShareBounded
  <2>1. ASSUME faults = 0, NEW a \in Addresses PROVE share[a] <= 2 * IpLimit
    <3>1. LoginShare(a) /\ IpLimit \in Nat
      BY <1>1, <2>1, LoginConstants DEF LoginInv
    <3>2. share[a] \in Nat /\ Cardinality(Coming(a)) \in Nat
          /\ granted[a] \in Nat /\ granted[a] <= IpLimit
      BY <1>1, ShareFacts, LoginConstants
    <3>3. share[a] + Cardinality(Coming(a)) <= IpLimit + granted[a]
      BY <3>1, <3>2 DEF LoginShare
    <3>4. QED
      BY <3>1, <3>2, <3>3
  <2>2. QED
    BY <2>1 DEF Login!ShareBounded
<1>5. Login!LeakHasCause
  BY <1>1 DEF LoginInv, LoginKey, Login!LeakHasCause, Login!Leaked, Login!NoExpiry, NoExpiry
<1>6. QED
  BY <1>2, <1>3, <1>4, <1>5 DEF LoginSafe, Login!LoginSafe

-----------------------------------------------------------------------------
(* The parts together: they share the bounds on attempts and on deaths only. *)

CountersInv == TierInv /\ LoginInv /\ GateInv /\ UsesInv

LEMMA CountersInitially == CountersInit => CountersInv
  BY TierInit, LoginInitially, GateInitially, UsesInit DEF CountersInit, CountersInv

(* What the steps of one part do to the bounds leaves the other parts as    *)
(* they are.                                                                *)
LEMMA Bounds ==
  ASSUME CountersInv
  PROVE  begun \in 0..PerTick /\ faults \in 0..MaxFaults /\ faults \in Nat
  BY LoginConstants DEF CountersInv, LoginInv, LoginTypes

LEMMA LoginStepKeeps ==
  ASSUME CountersInv, LoginStep
  PROVE  CountersInv'
<1>1. Login!Next /\ UNCHANGED <<tierVars, gateVars, usesVars>>
  BY DEF LoginStep
<1>2. LoginInv'
  BY <1>1, LoginInductive DEF CountersInv
<1>3. faults' = faults \/ faults' = faults + 1
  BY <1>1 DEF Login!Next, Login!Step, Login!CountIp, Login!CountAll, Login!ExpireKey, Login!Die, Login!Tick
<1>4. begun' \in 0..PerTick /\ faults' \in 0..MaxFaults /\ faults <= faults'
  BY <1>2, <1>3, Bounds DEF LoginInv, LoginTypes
<1>5. TierInv'
  BY <1>1, TierInductive DEF CountersInv
<1>6. GateInv' /\ UsesInv'
  BY <1>1, <1>4, GateFrame, UsesFrame DEF CountersInv
<1>7. QED
  BY <1>2, <1>5, <1>6 DEF CountersInv

LEMMA GateStepKeeps ==
  ASSUME CountersInv, GateStep
  PROVE  CountersInv'
<1>1. Gate!Next /\ UNCHANGED <<tierVars, loginVars, usesVars>>
  BY DEF GateStep
<1>2. GateInv'
  BY <1>1, GateInductive DEF CountersInv
<1>3. faults' = faults \/ faults' = faults + 1
  <2>1. ASSUME NEW c \in Callers, Gate!Attempt(c) \/ Gate!Die(c)
        PROVE  faults' = faults \/ faults' = faults + 1
    BY <2>1 DEF Gate!Attempt, Gate!CheckLock, Gate!Wrong, Gate!ExpireFails, Gate!SetLock,
                Gate!Right, Gate!ClearFails, Gate!Grant, Gate!Die
  <2>2. QED
    BY <1>1, <2>1 DEF Gate!Next, Gate!LockScope, Gate!Tick
<1>4. begun' \in 0..PerTick /\ faults' \in 0..MaxFaults /\ faults <= faults'
  BY <1>2, <1>3, Bounds DEF GateInv, GateTypes
<1>5. TierInv'
  BY <1>1, TierInductive DEF CountersInv
<1>6. LoginInv' /\ UsesInv'
  BY <1>1, <1>4, LoginFrame, UsesFrame DEF CountersInv
<1>7. QED
  BY <1>2, <1>5, <1>6 DEF CountersInv

LEMMA UsesStepKeeps ==
  ASSUME CountersInv, UsesStep
  PROVE  CountersInv'
<1>1. Uses!Next /\ UNCHANGED <<tierVars, begun, loginVars, gateVars>>
  BY DEF UsesStep
<1>2. UsesInv'
  BY <1>1, UsesInductive DEF CountersInv
<1>3. faults' = faults \/ faults' = faults + 1
  <2>1. ASSUME NEW c \in Callers, Uses!Touch(c) \/ Uses!FailTouch(c)
        PROVE  faults' = faults \/ faults' = faults + 1
    BY <2>1 DEF Uses!Touch, Uses!CountCall, Uses!Claim, Uses!ReadCount, Uses!AddUses,
                Uses!DropCount, Uses!FailTouch
  <2>2. QED
    BY <1>1, <2>1 DEF Uses!Next, Uses!Tick
<1>4. begun' \in 0..PerTick /\ faults' \in 0..MaxFaults /\ faults <= faults'
  BY <1>1, <1>2, <1>3, Bounds DEF UsesInv
<1>5. TierInv'
  BY <1>1, TierInductive DEF CountersInv
<1>6. LoginInv' /\ GateInv'
  BY <1>1, <1>4, LoginFrame, GateFrame DEF CountersInv
<1>7. QED
  BY <1>2, <1>5, <1>6 DEF CountersInv

(* Steps of the slots and of the tier, and steps of nobody. *)
LEMMA OtherStepKeeps ==
  ASSUME CountersInv, [Tier!Next]_tierVars, UNCHANGED <<common, loginVars, gateVars, usesVars>>
  PROVE  CountersInv'
<1>1. begun' \in 0..PerTick /\ faults' \in 0..MaxFaults /\ faults <= faults'
  BY Bounds DEF common
<1>2. QED
  BY <1>1, TierInductive, LoginFrame, GateFrame, UsesFrame DEF CountersInv

LEMMA CountersInductive == CountersInv /\ [CountersNext]_allVars => CountersInv'
<1>1. SUFFICES ASSUME CountersInv, [CountersNext]_allVars PROVE CountersInv'
  OBVIOUS
<1>2. CASE SlotStep \/ TierStep \/ UNCHANGED allVars
  BY <1>1, <1>2, OtherStepKeeps DEF SlotStep, TierStep, allVars
<1>3. CASE LoginStep \/ GateStep \/ UsesStep
  BY <1>1, <1>3, LoginStepKeeps, GateStepKeeps, UsesStepKeeps
<1>4. QED
  BY <1>1, <1>2, <1>3 DEF CountersNext

LEMMA CountersAlways == CountersSpec => []CountersInv
  BY CountersInitially, CountersInductive, PTL DEF CountersSpec

-----------------------------------------------------------------------------
(* However admitted requests overlap, and however late the bookings of an   *)
(* earlier period arrive, the counter of a group or an account goes beyond  *)
(* its limit by less than one request for each in flight, and beyond what   *)
(* is recorded for its period by no more than those (quotaAlive and         *)
(* bumpTierUsed, ai-route).                                                 *)
THEOREM SpendingIsBounded == CountersSpec => []TierSafe
<1>1. CountersInv => TierSafe
  BY TierInvIsSafe DEF CountersInv
<1>2. QED
  BY <1>1, CountersAlways, PTL

(* No login counter lets more attempts pass in one life than its limit, an  *)
(* address takes at most two of its quotas of a window of the common one,   *)
(* and no counter is without a lifetime unless an attempt died between INCR *)
(* and EXPIRE (rate-limit.guard.ts).                                        *)
THEOREM LoginIsLimited == CountersSpec => []LoginSafe
<1>1. CountersInv => LoginSafe
  BY LoginInvIsSafe DEF CountersInv
<1>2. QED
  BY <1>1, CountersAlways, PTL

(* However attempts at the second password overlap, and whoever dies, wrong *)
(* guesses are bounded, a full counter goes with a lock, and an unlock was  *)
(* earned in its own scope (high-risk-gate.ts).                             *)
THEOREM GateIsSafe == CountersSpec => []GateSafe
<1>1. CountersInv => GateSafe
  BY GateInvIsSafe DEF CountersInv
<1>2. QED
  BY <1>1, CountersAlways, PTL

(* Every call with a token is in its record or in the counter, or came      *)
(* between GET and DEL of a flush and is missing; twice there are only the  *)
(* calls a failed flush left, so that without a failure the record never    *)
(* says more than was called (touch, api-token.service).                    *)
THEOREM UsesAreAccounted == CountersSpec => []UsesSafe
<1>1. CountersInv => UsesSafe
  BY UsesInvIsSafe DEF CountersInv
<1>2. QED
  BY <1>1, CountersAlways, PTL

(* A turn of the period misplaces cost only in calls that overlap with it:  *)
(* once it has settled, the usage counter follows what is recorded, step by *)
(* step (bumpTierUsed, ai-route).                                           *)
THEOREM TurnSettles == CountersSpec => Tier!ExactWhenSettled
<1>1. ASSUME TierInv, [Tier!Next]_tierVars, Tier!Settled, mark' = mark
      PROVE  spent'[mark] - used' = spent[mark] - used
  <2>1. used \in Nat /\ spent[mark] \in Nat /\ spent \in [Tier!Periods -> Nat] /\ mark \in Tier!Periods
    BY <1>1 DEF TierInv
  <2>2. ASSUME NEW r \in Requests, Tier!Bump(r)
        PROVE  used' = used + 1 /\ spent'[mark] = spent[mark] + 1
    <3>1. req[r].period = mark /\ req[r].seen = mark
      BY <1>1, <2>2 DEF Tier!Settled, Tier!At, Tier!Bump
    <3>2. QED
      BY <2>1, <2>2, <3>1 DEF Tier!Bump
  <2>3. QED
    <3>1. ASSUME NEW r \in Requests, Tier!Admit(r) \/ Tier!ReadClock(r) \/ Tier!ReadMark(r)
          PROVE  used' = used /\ spent' = spent
      BY <3>1 DEF Tier!Admit, Tier!ReadClock, Tier!ReadMark
    <3>2. Tier!NextPeriod \/ UNCHANGED tierVars => used' = used /\ spent' = spent
      BY DEF Tier!NextPeriod, tierVars
    <3>3. \/ used' = used /\ spent' = spent
          \/ \E r \in Requests : Tier!Bump(r)
      BY <1>1, <3>1, <3>2 DEF Tier!Next
    <3>4. (\E r \in Requests : Tier!Bump(r)) => used' = used + 1 /\ spent'[mark] = spent[mark] + 1
      BY <2>2
    <3>5. CASE used' = used /\ spent' = spent
      BY <3>5
    <3>6. CASE used' = used + 1 /\ spent'[mark] = spent[mark] + 1
      BY <2>1, <3>6
    <3>7. QED
      BY <3>3, <3>4, <3>5, <3>6
<1>2. CountersInv /\ [CountersNext]_allVars => TierInv /\ [Tier!Next]_tierVars
  BY DEF CountersInv, CountersNext, SlotStep, TierStep, LoginStep, GateStep, UsesStep, allVars
<1>3. TierInv /\ [Tier!Next]_tierVars
         => [Tier!Settled /\ mark' = mark => spent'[mark] - used' = spent[mark] - used]_Tier!vars
  BY <1>1 DEF tierVars, Tier!vars
<1>4. QED
  BY <1>2, <1>3, CountersAlways, PTL DEF CountersSpec, Tier!ExactWhenSettled

-----------------------------------------------------------------------------
(* The gate of slots (SlotGate).                                           *)
USE LimitPositive, TTLPositive, BoundsAreNat

(* The callers let in by an error are no more than the errors.              *)
IInv ==
    /\ TypeInv
    /\ CounterDrift
    /\ OverAdmissionBounded
    /\ Cardinality(At({"open"})) <= opened

-----------------------------------------------------------------------------
LEMMA AtFinite ==
  ASSUME NEW P
  PROVE  IsFiniteSet(At(P)) /\ Cardinality(At(P)) \in Nat
<1>1. At(P) \in SUBSET Clients
  BY DEF At
<1>2. IsFiniteSet(At(P))
  BY <1>1, ClientsFinite, FS_Subset
<1>3. QED
  BY <1>2, FS_CardinalityType

LEMMA AtMonotone ==
  ASSUME NEW P, NEW Q, P \subseteq Q
  PROVE  Cardinality(At(P)) <= Cardinality(At(Q))
<1>1. At(P) \in SUBSET At(Q)
  BY DEF At
<1>2. QED
  BY <1>1, AtFinite, FS_Subset

(* One client moves from its phase to phase ph. *)
Moved(c, ph) == gate' = [gate EXCEPT ![c] = ph]

LEMMA AtMove ==
  ASSUME NEW P, NEW c \in Clients, NEW ph, gate \in [Clients -> Phases],
         Moved(c, ph)
  PROVE  /\ Cardinality(At(P)) \in Nat
         /\ Cardinality(At(P)') \in Nat
         /\ (gate[c] \in P /\ ph \in P) => Cardinality(At(P)') = Cardinality(At(P))
         /\ (gate[c] \notin P /\ ph \notin P) => Cardinality(At(P)') = Cardinality(At(P))
         /\ (gate[c] \notin P /\ ph \in P) => Cardinality(At(P)') = Cardinality(At(P)) + 1
         /\ (gate[c] \in P /\ ph \notin P) => Cardinality(At(P)') = Cardinality(At(P)) - 1
<1>1. IsFiniteSet(At(P)) /\ Cardinality(At(P)) \in Nat
  BY AtFinite
<1>2. c \in At(P) <=> gate[c] \in P
  BY DEF At
<1>3. CASE ph \in P
  <2>1. At(P)' = At(P) \cup {c}
    BY <1>3 DEF At, Moved
  <2>2. Cardinality(At(P)') = IF c \in At(P) THEN Cardinality(At(P)) ELSE Cardinality(At(P)) + 1
    BY <1>1, <2>1, FS_AddElement
  <2>3. QED
    BY <1>1, <1>2, <1>3, <2>2
<1>4. CASE ph \notin P
  <2>1. At(P)' = At(P) \ {c}
    BY <1>4 DEF At, Moved
  <2>2. Cardinality(At(P)') = IF c \in At(P) THEN Cardinality(At(P)) - 1 ELSE Cardinality(At(P))
    BY <1>1, <2>1, FS_RemoveElement
  <2>3. IsFiniteSet(At(P)') /\ Cardinality(At(P)') \in Nat
    BY <1>1, <2>1, FS_RemoveElement, FS_CardinalityType
  <2>4. QED
    BY <1>1, <1>2, <1>4, <2>2, <2>3
<1>5. QED
  BY <1>3, <1>4

-----------------------------------------------------------------------------
LEMMA InitIInv == Init => IInv
<1>1. SUFFICES ASSUME Init PROVE IInv
  OBVIOUS
<1>2. TypeInv
  BY <1>1 DEF Init, TypeInv, KeyType, Missing, NoKey, Phases
<1>3. \A P : "out" \notin P => At(P) = {}
  BY <1>1 DEF Init, At
<1>4. /\ Holders = {} /\ Admitted = {}
      /\ At({"counted", "over"}) = {} /\ At({"open"}) = {}
  BY <1>3 DEF Holders, Admitted
<1>5. Cardinality({}) = 0
  BY FS_EmptySet
<1>6. QED
  BY <1>1, <1>2, <1>4, <1>5
     DEF Init, IInv, CounterDrift, OverAdmissionBounded, LifetimeCovers, Missing, At

(* What a client's move does to the three counted sets. *)
Recounted(c, ph) ==
    /\ Cardinality(Holders) \in Nat /\ Cardinality(Holders') \in Nat
    /\ Cardinality(Admitted) \in Nat /\ Cardinality(Admitted') \in Nat
    /\ Cardinality(At({"open"})) \in Nat /\ Cardinality(At({"open"})') \in Nat
    /\ Cardinality(Holders') = Cardinality(Holders)
         + (IF ph = "out" THEN 0 ELSE 1) - (IF gate[c] = "out" THEN 0 ELSE 1)
    /\ Cardinality(Admitted') = Cardinality(Admitted)
         + (IF ph \in {"counted", "in", "open"} THEN 1 ELSE 0)
         - (IF gate[c] \in {"counted", "in", "open"} THEN 1 ELSE 0)
    /\ Cardinality(At({"open"})') = Cardinality(At({"open"}))
         + (IF ph = "open" THEN 1 ELSE 0) - (IF gate[c] = "open" THEN 1 ELSE 0)

LEMMA MoveCounts ==
  ASSUME IInv, NEW c \in Clients, NEW ph \in Phases, Moved(c, ph)
  PROVE  Recounted(c, ph)
<1>1. /\ gate \in [Clients -> Phases]
      /\ Moved(c, ph)
      /\ gate[c] \in Phases
  BY DEF IInv, TypeInv
<1>2. ASSUME NEW P
      PROVE  /\ Cardinality(At(P)) \in Nat /\ Cardinality(At(P)') \in Nat
             /\ Cardinality(At(P)') = Cardinality(At(P))
                  + (IF ph \in P THEN 1 ELSE 0) - (IF gate[c] \in P THEN 1 ELSE 0)
  <2>1. /\ Cardinality(At(P)) \in Nat
        /\ Cardinality(At(P)') \in Nat
        /\ (gate[c] \in P /\ ph \in P) => Cardinality(At(P)') = Cardinality(At(P))
        /\ (gate[c] \notin P /\ ph \notin P) => Cardinality(At(P)') = Cardinality(At(P))
        /\ (gate[c] \notin P /\ ph \in P) => Cardinality(At(P)') = Cardinality(At(P)) + 1
        /\ (gate[c] \in P /\ ph \notin P) => Cardinality(At(P)') = Cardinality(At(P)) - 1
    BY <1>1, AtMove
  <2>2. QED
    BY <2>1
<1>3. /\ Cardinality(Holders) \in Nat /\ Cardinality(Holders') \in Nat
      /\ Cardinality(Holders') = Cardinality(Holders)
           + (IF ph = "out" THEN 0 ELSE 1) - (IF gate[c] = "out" THEN 0 ELSE 1)
  <2>1. /\ Cardinality(At(Phases \ {"out"})) \in Nat
        /\ Cardinality(At(Phases \ {"out"})') \in Nat
        /\ Cardinality(At(Phases \ {"out"})') = Cardinality(At(Phases \ {"out"}))
             + (IF ph \in Phases \ {"out"} THEN 1 ELSE 0)
             - (IF gate[c] \in Phases \ {"out"} THEN 1 ELSE 0)
    BY <1>2
  <2>2. QED
    BY <1>1, <2>1 DEF Holders
<1>4. /\ Cardinality(Admitted) \in Nat /\ Cardinality(Admitted') \in Nat
      /\ Cardinality(Admitted') = Cardinality(Admitted)
           + (IF ph \in {"counted", "in", "open"} THEN 1 ELSE 0)
           - (IF gate[c] \in {"counted", "in", "open"} THEN 1 ELSE 0)
  BY <1>2 DEF Admitted
<1>5. /\ Cardinality(At({"open"})) \in Nat /\ Cardinality(At({"open"})') \in Nat
      /\ Cardinality(At({"open"})') = Cardinality(At({"open"}))
           + (IF ph = "open" THEN 1 ELSE 0) - (IF gate[c] = "open" THEN 1 ELSE 0)
  <2>1. /\ Cardinality(At({"open"})) \in Nat /\ Cardinality(At({"open"})') \in Nat
        /\ Cardinality(At({"open"})') = Cardinality(At({"open"}))
             + (IF ph \in {"open"} THEN 1 ELSE 0) - (IF gate[c] \in {"open"} THEN 1 ELSE 0)
    BY <1>2
  <2>2. QED
    BY <2>1
<1>6. QED
  BY <1>3, <1>4, <1>5 DEF Recounted

(* A step that renews nobody's lifetime and shortens none that exists.      *)
LEMMA CoversOthers ==
  ASSUME IInv, key' \in KeyType(TTL), Exists(key) => key'.ttl = key.ttl,
         \A d \in Clients : gate'[d] \in {"in", "undo"} => gate[d] = gate'[d] /\ age'[d] = age[d]
  PROVE  LifetimeCovers'
<1>1. SUFFICES ASSUME NEW d \in Clients, gate'[d] \in {"in", "undo"}, age'[d] < TTL
               PROVE  key'.ttl >= TTL - age'[d]
  BY DEF LifetimeCovers
<1>2. gate[d] \in {"in", "undo"} /\ age'[d] = age[d] /\ age[d] \in 0..TTL
  BY <1>1 DEF IInv, TypeInv
<1>3. key.ttl >= TTL - age[d] /\ key.ttl \in Int
  BY <1>1, <1>2 DEF IInv, CounterDrift, LifetimeCovers, TypeInv, KeyType, NoKey
<1>4. Exists(key)
  BY <1>1, <1>2, <1>3 DEF Exists, NoKey
<1>5. QED
  BY <1>2, <1>3, <1>4

LEMMA AdmittedAreHolders == Cardinality(Admitted) <= Cardinality(Holders)
BY AtMonotone DEF Admitted, Holders, Phases

(* INCR. *)
LEMMA EnterStep ==
  ASSUME IInv, NEW c \in Clients, Enter(c)
  PROVE  IInv'
<1> DEFINE ph == IF key.val + 1 > Limit THEN "over" ELSE "counted"
<1>1. ph \in Phases /\ Goto(c, ph) /\ gate[c] = "out" /\ gate' = [gate EXCEPT ![c] = ph]
  BY DEF Enter, Phases, Goto
<1> HIDE DEF ph
<1>m. Recounted(c, ph)
  BY <1>1, MoveCounts DEF Moved
<1>2. key' = Incr(key) /\ key \in KeyType(TTL) /\ UNCHANGED <<opened, leaked, forgotten>>
  BY DEF Enter, IInv, TypeInv
<1>3. /\ key' \in KeyType(TTL) /\ key'.val = key.val + 1 /\ Exists(key')
      /\ (Exists(key) => key'.ttl = key.ttl)
  BY <1>2 DEF Incr, Add, KeyType, Exists, NoKey, NoExpiry
<1>4. ph = "counted" \/ ph = "over"
  BY DEF ph
<1>5. TypeInv'
  BY <1>1, <1>2, <1>3 DEF IInv, TypeInv, Goto
<1>6. LifetimeCovers'
  <2>1. \A d \in Clients : gate'[d] \in {"in", "undo"} => gate[d] = gate'[d] /\ age'[d] = age[d]
    BY <1>1, <1>4 DEF Goto, IInv, TypeInv
  <2>2. QED
    BY <1>2, <1>3, <2>1, CoversOthers
<1>7. CounterDrift'
  BY <1>1, <1>2, <1>3, <1>4, <1>6, <1>m DEF Recounted, CounterDrift, IInv, TypeInv, KeyType
<1>8. OverAdmissionBounded'
  <2>1. CASE ph = "over"
    BY <1>1, <1>2, <2>1, <1>m DEF Recounted, OverAdmissionBounded, IInv
  <2>2. CASE ph = "counted"
    <3>1. key.val + 1 <= Limit
      BY <2>2, <1>2 DEF ph, KeyType
    <3>2. Cardinality(Admitted') = Cardinality(Admitted) + 1
      BY <1>1, <2>2, <1>m DEF Recounted
    <3>3. /\ Cardinality(Admitted) \in Nat /\ Cardinality(Holders) \in Nat
          /\ key.val \in Int /\ opened \in Nat /\ forgotten \in Nat
          /\ opened' = opened /\ forgotten' = forgotten
      BY <1>1, <1>2, <1>m DEF Recounted, KeyType, IInv, TypeInv
    <3>4. Cardinality(Holders) <= key.val + opened + forgotten
      BY <3>3 DEF IInv, CounterDrift
    <3>5. QED
      BY <3>1, <3>2, <3>3, <3>4, AdmittedAreHolders DEF OverAdmissionBounded
  <2>3. QED
    BY <1>4, <2>1, <2>2
<1>9. Cardinality(At({"open"})') <= opened'
  BY <1>1, <1>2, <1>4, <1>m DEF Recounted, IInv
<1>10. QED
  BY <1>5, <1>7, <1>8, <1>9 DEF IInv

(* EXPIRE. *)
LEMMA SetTTLStep ==
  ASSUME IInv, NEW c \in Clients, SetTTL(c)
  PROVE  IInv'
<1> DEFINE ph == IF gate[c] = "counted" THEN "in" ELSE "undo"
<1>1. ph \in Phases /\ gate' = [gate EXCEPT ![c] = ph] /\ gate[c] \in {"counted", "over"}
  BY DEF SetTTL, Behind, Phases, IInv, TypeInv
<1>m. Recounted(c, ph)
  BY <1>1, MoveCounts DEF Moved
<1>2. /\ ph \in {"in", "undo"}
      /\ (gate[c] = "counted" <=> ph = "in") /\ (gate[c] = "over" <=> ph = "undo")
  BY <1>1
<1> HIDE DEF ph
<1>3. /\ key \in KeyType(TTL) /\ key' = Expire(key, TTL) /\ UNCHANGED <<opened, leaked, forgotten>>
      /\ age' = [age EXCEPT ![c] = IF Exists(key) THEN 0 ELSE TTL]
  BY DEF SetTTL, Behind, IInv, TypeInv
<1>4. /\ key' \in KeyType(TTL) /\ key'.val = key.val
      /\ Exists(key) => key'.ttl = TTL
      /\ ~ Exists(key) => key' = key
  BY <1>3 DEF Expire, KeyType, Exists, NoKey
<1>5. TypeInv'
  BY <1>1, <1>3, <1>4 DEF IInv, TypeInv
<1>6. LifetimeCovers'
  <2>1. CASE Exists(key)
    BY <1>4, <1>5, <2>1 DEF LifetimeCovers, TypeInv
  <2>2. CASE ~ Exists(key)
    <3>1. SUFFICES ASSUME NEW d \in Clients, gate'[d] \in {"in", "undo"}, age'[d] < TTL
                   PROVE  FALSE
      BY DEF LifetimeCovers
    <3>2. age'[c] = TTL
      BY <1>3, <2>2 DEF IInv, TypeInv
    <3>3. d # c /\ gate[d] \in {"in", "undo"} /\ age[d] < TTL /\ age[d] \in 0..TTL
      BY <1>1, <1>3, <3>1, <3>2 DEF IInv, TypeInv
    <3>4. key.ttl >= TTL - age[d] /\ key.ttl = NoKey
      BY <2>2, <3>3 DEF IInv, CounterDrift, LifetimeCovers, Exists
    <3>5. QED
      BY <3>3, <3>4 DEF NoKey
  <2>3. QED
    BY <2>1, <2>2
<1>7. CounterDrift'
  BY <1>1, <1>2, <1>3, <1>4, <1>6, <1>m DEF Recounted, CounterDrift, IInv, TypeInv, KeyType
<1>8. OverAdmissionBounded'
  BY <1>1, <1>2, <1>3, <1>m DEF Recounted, OverAdmissionBounded, IInv, TypeInv
<1>9. Cardinality(At({"open"})') <= opened'
  BY <1>1, <1>2, <1>3, <1>m DEF Recounted, IInv
<1>10. QED
  BY <1>5, <1>7, <1>8, <1>9 DEF IInv

(* The DECR of a refusal or of a release. *)
LEMMA LeaveStep ==
  ASSUME IInv, NEW c \in Clients, Leave(c)
  PROVE  IInv'
<1>1. /\ "out" \in Phases /\ Goto(c, "out") /\ gate' = [gate EXCEPT ![c] = "out"]
      /\ gate[c] \in {"undo", "in", "open"}
  BY DEF Leave, Phases, Goto
<1>m. Recounted(c, "out")
  BY <1>1, MoveCounts DEF Moved
<1>2. key \in KeyType(TTL) /\ key' = Decr(key) /\ UNCHANGED <<opened, leaked, forgotten>>
  BY DEF Leave, IInv, TypeInv
<1>3. /\ key' \in KeyType(TTL) /\ key'.val = key.val - 1 /\ Exists(key')
      /\ (Exists(key) => key'.ttl = key.ttl)
  BY <1>2 DEF Decr, Add, KeyType, Exists, NoKey, NoExpiry
<1>4. TypeInv'
  BY <1>1, <1>2, <1>3 DEF IInv, TypeInv, Goto
<1>5. LifetimeCovers'
  <2>1. \A d \in Clients : gate'[d] \in {"in", "undo"} => gate[d] = gate'[d] /\ age'[d] = age[d]
    BY <1>1 DEF Goto, IInv, TypeInv
  <2>2. QED
    BY <1>2, <1>3, <2>1, CoversOthers
<1>6. CounterDrift'
  BY <1>1, <1>2, <1>3, <1>5, <1>m DEF Recounted, CounterDrift, IInv, TypeInv, KeyType
<1>7. OverAdmissionBounded'
  BY <1>1, <1>2, <1>m DEF Recounted, OverAdmissionBounded, IInv, TypeInv
<1>8. Cardinality(At({"open"})') <= opened'
  BY <1>1, <1>2, <1>m DEF Recounted, IInv, TypeInv
<1>9. QED
  BY <1>4, <1>6, <1>7, <1>8 DEF IInv

(* INCR fails. *)
LEMMA EnterErrorStep ==
  ASSUME IInv, NEW c \in Clients, EnterError(c)
  PROVE  IInv'
<1>1. /\ "open" \in Phases /\ Goto(c, "open") /\ gate' = [gate EXCEPT ![c] = "open"]
      /\ gate[c] = "out" /\ opened' = opened + 1 /\ opened < MaxOpened
      /\ UNCHANGED <<key, leaked, forgotten>>
  BY DEF EnterError, Phases, Goto
<1>m. Recounted(c, "open")
  BY <1>1, MoveCounts DEF Moved
<1>2. TypeInv'
  BY <1>1 DEF IInv, TypeInv, Goto
<1>3. LifetimeCovers'
  BY <1>1 DEF Goto, IInv, CounterDrift, LifetimeCovers, TypeInv
<1>4. CounterDrift'
  BY <1>1, <1>3, <1>m DEF Recounted, CounterDrift, IInv, TypeInv, KeyType
<1>5. OverAdmissionBounded'
  BY <1>1, <1>m DEF Recounted, OverAdmissionBounded, IInv, TypeInv
<1>6. Cardinality(At({"open"})') <= opened'
  BY <1>1, <1>m DEF Recounted, IInv, TypeInv
<1>7. QED
  BY <1>2, <1>4, <1>5, <1>6 DEF IInv

(* EXPIRE fails. *)
LEMMA SetTTLErrorStep ==
  ASSUME IInv, NEW c \in Clients, SetTTLError(c)
  PROVE  IInv'
<1>1. /\ "open" \in Phases /\ Goto(c, "open") /\ gate' = [gate EXCEPT ![c] = "open"]
      /\ gate[c] \in {"counted", "over"} /\ opened' = opened + 1 /\ opened < MaxOpened
      /\ UNCHANGED <<key, leaked, forgotten>>
  BY DEF SetTTLError, Phases, Goto
<1>m. Recounted(c, "open")
  BY <1>1, MoveCounts DEF Moved
<1>2. TypeInv'
  BY <1>1 DEF IInv, TypeInv, Goto
<1>3. LifetimeCovers'
  BY <1>1 DEF Goto, IInv, CounterDrift, LifetimeCovers, TypeInv
<1>4. CounterDrift'
  BY <1>1, <1>3, <1>m DEF Recounted, CounterDrift, IInv, TypeInv, KeyType
<1>5. OverAdmissionBounded'
  BY <1>1, <1>m DEF Recounted, OverAdmissionBounded, IInv, TypeInv
<1>6. Cardinality(At({"open"})') <= opened'
  BY <1>1, <1>m DEF Recounted, IInv, TypeInv
<1>7. QED
  BY <1>2, <1>4, <1>5, <1>6 DEF IInv

(* DECR fails. *)
LEMMA LeaveErrorStep ==
  ASSUME IInv, NEW c \in Clients, LeaveError(c)
  PROVE  IInv'
<1>1. /\ "out" \in Phases /\ Goto(c, "out") /\ gate' = [gate EXCEPT ![c] = "out"]
      /\ gate[c] \in {"undo", "in", "open"} /\ leaked' = leaked + 1 /\ leaked < MaxLeaked
      /\ UNCHANGED <<key, opened, forgotten>>
  BY DEF LeaveError, Phases, Goto
<1>m. Recounted(c, "out")
  BY <1>1, MoveCounts DEF Moved
<1>2. TypeInv'
  BY <1>1 DEF IInv, TypeInv, Goto
<1>3. LifetimeCovers'
  BY <1>1 DEF Goto, IInv, CounterDrift, LifetimeCovers, TypeInv
<1>4. CounterDrift'
  BY <1>1, <1>3, <1>m DEF Recounted, CounterDrift, IInv, TypeInv, KeyType
<1>5. OverAdmissionBounded'
  BY <1>1, <1>m DEF Recounted, OverAdmissionBounded, IInv, TypeInv
<1>6. Cardinality(At({"open"})') <= opened'
  BY <1>1, <1>m DEF Recounted, IInv, TypeInv
<1>7. QED
  BY <1>2, <1>4, <1>5, <1>6 DEF IInv

(* The process dies: nobody is left, every count of a holder is leaked. *)
LEMMA CrashStep ==
  ASSUME IInv, Crash
  PROVE  IInv'
<1>1. /\ gate' = [c \in Clients |-> "out"] /\ age' = [c \in Clients |-> 0]
      /\ leaked' = leaked + Cardinality(Holders)
      /\ leaked + Cardinality(Holders) <= MaxLeaked /\ UNCHANGED <<key, opened, forgotten>>
  BY DEF Crash
<1>2. Cardinality(Holders) \in Nat
  BY AtFinite DEF Holders
<1>3. TypeInv'
  BY <1>1, <1>2 DEF IInv, TypeInv, Phases
<1>4. \A P : "out" \notin P => At(P)' = {}
  BY <1>1 DEF At
<1>5. /\ At(Phases \ {"out"})' = {} /\ At({"counted", "in", "open"})' = {}
      /\ At({"open"})' = {}
  BY <1>4
<1>6. Cardinality({}) = 0
  BY FS_EmptySet
<1>7. CounterDrift'
  <2>1. Holders' = {}
    BY <1>5 DEF Holders
  <2>2. /\ Cardinality(Holders) - opened - forgotten <= key.val
        /\ key.val <= Cardinality(Holders) + leaked
        /\ key.val \in Int /\ opened \in Nat /\ leaked \in Nat /\ forgotten \in Nat
    BY DEF IInv, CounterDrift, TypeInv, KeyType
  <2>3. LifetimeCovers'
    BY <1>1 DEF LifetimeCovers
  <2>4. QED
    BY <1>1, <1>2, <1>6, <2>1, <2>2, <2>3 DEF CounterDrift
<1>8. OverAdmissionBounded'
  BY <1>1, <1>5, <1>6 DEF OverAdmissionBounded, IInv, TypeInv, Admitted
<1>9. QED
  BY <1>1, <1>3, <1>5, <1>6, <1>7, <1>8 DEF IInv, TypeInv

(* Time passes.  If the counter is deleted, its holders are those let in by *)
(* an error and those it forgets.                                           *)
LEMMA TickStep ==
  ASSUME IInv, Tick
  PROVE  IInv'
<1>1. /\ key' = Elapse(key) /\ UNCHANGED <<gate, opened, leaked>>
      /\ age' = [c \in Clients |->
                    IF gate[c] \in {"in", "undo"} /\ age[c] < TTL THEN age[c] + 1 ELSE age[c]]
      /\ forgotten' = IF key.ttl \in {0, 1} THEN forgotten + Cardinality(Counted) ELSE forgotten
      /\ forgotten' <= MaxForgotten
  BY DEF Tick
<1>2. key \in KeyType(TTL) /\ age \in [Clients -> 0..TTL]
  BY DEF IInv, TypeInv
<1>3. /\ key' \in KeyType(TTL)
      /\ \/ key.ttl > 1 /\ key'.ttl = key.ttl - 1 /\ key'.val = key.val
         \/ key.ttl \in {0, 1} /\ key'.val = 0
         \/ key.ttl < 0 /\ key' = key
  BY <1>1, <1>2 DEF Elapse, KeyType, Missing, NoKey, NoExpiry
<1>4. /\ Cardinality(Counted) \in Nat /\ Cardinality(At({"open"})) \in Nat
      /\ Cardinality(Holders) \in Nat
      /\ opened \in Nat /\ leaked \in Nat /\ forgotten \in Nat
  BY AtFinite DEF Counted, Holders, IInv, TypeInv
<1>5. forgotten' \in Nat /\ forgotten <= forgotten'
  BY <1>1, <1>4
<1>6. TypeInv'
  <2>1. age' \in [Clients -> 0..TTL]
    BY <1>1, <1>2
  <2>2. QED
    BY <1>1, <1>3, <1>5, <2>1 DEF IInv, TypeInv
<1>7. \A P : At(P)' = At(P)
  BY <1>1 DEF At
<1>8. Holders' = Holders /\ Admitted' = Admitted /\ At({"open"})' = At({"open"})
  BY <1>7 DEF Holders, Admitted
<1>9. /\ Cardinality(Holders') - opened' - forgotten' <= key'.val
      /\ key'.val <= Cardinality(Holders') + leaked'
  <2>1. CASE key.ttl \in {0, 1}
    <3>1. Holders \in SUBSET (Counted \cup At({"open"}))
      BY DEF Holders, Counted, At, Phases
    <3>2. IsFiniteSet(Counted) /\ IsFiniteSet(At({"open"}))
      BY AtFinite DEF Counted
    <3>3. Cardinality(Holders) <= Cardinality(Counted) + Cardinality(At({"open"}))
      <4>1. /\ IsFiniteSet(Counted \cup At({"open"})) /\ IsFiniteSet(Counted \cap At({"open"}))
            /\ Cardinality(Counted \cup At({"open"}))
                 = Cardinality(Counted) + Cardinality(At({"open"})) - Cardinality(Counted \cap At({"open"}))
        BY <3>2, FS_Union, FS_Intersection
      <4>2. Cardinality(Counted \cap At({"open"})) \in Nat
        BY <4>1, FS_CardinalityType
      <4>3. Cardinality(Holders) <= Cardinality(Counted \cup At({"open"}))
        BY <3>1, <4>1, FS_Subset
      <4>4. QED
        BY <1>4, <4>1, <4>2, <4>3
    <3>4. Cardinality(At({"open"})) <= opened
      BY DEF IInv
    <3>5. /\ key'.val = 0 /\ opened' = opened /\ leaked' = leaked
          /\ forgotten' = forgotten + Cardinality(Counted)
      BY <1>1, <1>3, <2>1
    <3>6. QED
      BY <1>4, <1>8, <3>3, <3>4, <3>5
  <2>2. CASE key.ttl \notin {0, 1}
    <3>1. key'.val = key.val /\ forgotten' = forgotten
      BY <1>1, <1>3, <2>2
    <3>2. QED
      BY <1>1, <1>8, <3>1 DEF CounterDrift, IInv
  <2>3. QED
    BY <2>1, <2>2
<1>10. OverAdmissionBounded' /\ Cardinality(At({"open"})') <= opened'
  <2>1. Cardinality(Admitted) \in Nat /\ Cardinality(Admitted) <= Limit + opened + forgotten
    BY AtFinite DEF Admitted, IInv, OverAdmissionBounded
  <2>2. QED
    BY <1>1, <1>4, <1>5, <1>8, <2>1 DEF OverAdmissionBounded, IInv
<1>11. LifetimeCovers'
  <2>1. SUFFICES ASSUME NEW c \in Clients, gate'[c] \in {"in", "undo"}, age'[c] < TTL
                 PROVE  key'.ttl >= TTL - age'[c]
    BY DEF LifetimeCovers
  <2>2. gate[c] \in {"in", "undo"} /\ age[c] \in 0..TTL /\ age[c] < TTL /\ age'[c] = age[c] + 1
    BY <1>1, <1>2, <2>1
  <2>3. key.ttl >= TTL - age[c] /\ key.ttl \in Int
    BY <1>2, <2>2 DEF IInv, CounterDrift, LifetimeCovers, KeyType, NoKey
  <2>4. key.ttl > 1
    BY <2>1, <2>2, <2>3
  <2>5. QED
    BY <1>3, <2>2, <2>3, <2>4
<1>12. CounterDrift'
  BY <1>9, <1>11 DEF CounterDrift
<1>13. QED
  BY <1>6, <1>10, <1>12 DEF IInv

LEMMA NextIInv == IInv /\ [Next]_vars => IInv'
<1>1. SUFFICES ASSUME IInv, [Next]_vars PROVE IInv'
  OBVIOUS
<1>2. ASSUME NEW c \in Clients, Enter(c) PROVE IInv'
  BY <1>1, <1>2, EnterStep
<1>3. ASSUME NEW c \in Clients, SetTTL(c) PROVE IInv'
  BY <1>1, <1>3, SetTTLStep
<1>4. ASSUME NEW c \in Clients, Leave(c) PROVE IInv'
  BY <1>1, <1>4, LeaveStep
<1>5. ASSUME NEW c \in Clients, EnterError(c) PROVE IInv'
  BY <1>1, <1>5, EnterErrorStep
<1>6. ASSUME NEW c \in Clients, SetTTLError(c) PROVE IInv'
  BY <1>1, <1>6, SetTTLErrorStep
<1>7. ASSUME NEW c \in Clients, LeaveError(c) PROVE IInv'
  BY <1>1, <1>7, LeaveErrorStep
<1>8. CASE Tick
  BY <1>1, <1>8, TickStep
<1>9. CASE Crash
  BY <1>1, <1>9, CrashStep
<1>10. CASE UNCHANGED vars
  BY <1>1, <1>10
     DEF vars, IInv, TypeInv, CounterDrift, OverAdmissionBounded, LifetimeCovers,
         Holders, Admitted, At
<1>11. QED
  BY <1>1, <1>2, <1>3, <1>4, <1>5, <1>6, <1>7, <1>8, <1>9, <1>10 DEF Next

LEMMA Inductive == Spec => []IInv
BY InitIInv, NextIInv, PTL DEF Spec

-----------------------------------------------------------------------------
(* Every variable keeps its type. *)
THEOREM TypeCorrect == Spec => []TypeInv
<1>1. IInv => TypeInv
  BY DEF IInv
<1>2. QED
  BY <1>1, Inductive, PTL

(* The counter differs from the number of slots taken by no more than the   *)
(* failures so far and the callers forgotten when it ran out, and it does   *)
(* not run out in the TTL after the EXPIRE of a caller, however long slots  *)
(* are held (acquireSlot, releaseSlot and their account versions).          *)
THEOREM CounterFollowsHolders == Spec => []CounterDrift
<1>1. IInv => CounterDrift
  BY DEF IInv
<1>2. QED
  BY <1>1, Inductive, PTL

(* The gate admits at most Limit callers, plus one for each Redis error and *)
(* each caller forgotten when the counter ran out; crashes, lost releases   *)
(* and refusals in between never widen it.                                  *)
THEOREM GateBound == Spec => []OverAdmissionBounded
<1>1. IInv => OverAdmissionBounded
  BY DEF IInv
<1>2. QED
  BY <1>1, Inductive, PTL

(* Under the invariant, a caller whose INCR goes over the limit met at      *)
(* least Limit slots taken or leaked; a refusal is never groundless.        *)
THEOREM RefusalsAreJustified == Spec => RefusalJustified
<1>1. IInv /\ [Next]_vars =>
        [\A c \in Clients :
           (gate[c] = "out" /\ gate'[c] = "over") => Cardinality(Holders) + leaked >= Limit]_vars
  <2>1. SUFFICES ASSUME IInv, Next, NEW c \in Clients, gate[c] = "out", gate'[c] = "over"
                 PROVE  Cardinality(Holders) + leaked >= Limit
    BY DEF vars
  <2>2. PICK d \in Clients : Enter(d)
    BY <2>1 DEF Next, SetTTL, Leave, EnterError, SetTTLError, LeaveError, Goto, Behind, Tick,
                Crash, IInv, TypeInv
  <2>3. d = c
    BY <2>1, <2>2 DEF Enter, Goto, IInv, TypeInv
  <2>4. key.val + 1 > Limit
    BY <2>1, <2>2, <2>3 DEF Enter, Goto, IInv, TypeInv
  <2>5. key.val <= Cardinality(Holders) + leaked
    BY <2>1 DEF IInv, CounterDrift
  <2>6. key.val \in Int /\ leaked \in Nat /\ Cardinality(Holders) \in Nat
    BY <2>1, AtFinite DEF IInv, TypeInv, KeyType, Holders
  <2>7. QED
    BY <2>4, <2>5, <2>6
<1>2. QED
  BY <1>1, Inductive, PTL DEF Spec, RefusalJustified

LEMMA SameCardinality == \A S : Abstract!Cardinality(S) = Cardinality(S)
BY DEF Abstract!Cardinality, Cardinality

(* The gate implements the semaphore over the admitted callers: INCR within *)
(* the limit is Acquire, an error that lets its caller in is Fault, the end *)
(* of the counter under its holders is Forget, a release and a crash are    *)
(* Release, and all else changes nothing.                                   *)
THEOREM GateIsSemaphore == Spec => IsSemaphore
<1>1. Init => Abstract!Init
  <2>1. Init => Admitted = {} /\ opened + forgotten = 0
    BY DEF Init, Admitted, At
  <2>2. QED
    BY <2>1 DEF Abstract!Init
<1>2. IInv /\ [Next]_vars => [Abstract!Next]_(<<Admitted, opened + forgotten>>)
  <2>1. SUFFICES ASSUME IInv, [Next]_vars, <<Admitted, opened + forgotten>>' # <<Admitted, opened + forgotten>>
                 PROVE  Abstract!Next
    OBVIOUS
  <2>2. opened \in Nat /\ forgotten \in Nat
    BY <2>1 DEF IInv, TypeInv
  <2>3. ASSUME NEW c \in Clients, Enter(c) PROVE Abstract!Next
    <3>1. key.val + 1 <= Limit /\ gate[c] = "out" /\ gate' = [gate EXCEPT ![c] = "counted"]
      <4>1. CASE key.val + 1 > Limit
        <5>1. gate[c] = "out" /\ gate' = [gate EXCEPT ![c] = "over"] /\ opened' = opened
          BY <2>3, <4>1 DEF Enter, Goto
        <5>1a. forgotten' = forgotten
          BY <2>3 DEF Enter
        <5>2. Admitted' = Admitted
          BY <2>1, <5>1 DEF Admitted, At, IInv, TypeInv
        <5>3. QED
          BY <2>1, <5>1, <5>1a, <5>2
      <4>2. key.val \in Int
        BY <2>1 DEF IInv, TypeInv, KeyType
      <4>3. CASE ~(key.val + 1 > Limit)
        <5>1. key.val + 1 <= Limit
          BY <4>2, <4>3
        <5>2. gate[c] = "out" /\ gate' = [gate EXCEPT ![c] = "counted"]
          BY <2>3, <4>3 DEF Enter, Goto
        <5>3. QED
          BY <5>1, <5>2
      <4>4. QED
        BY <4>1, <4>3
    <3>2. Admitted' = Admitted \cup {c} /\ c \notin Admitted /\ opened' = opened /\ forgotten' = forgotten
      BY <2>1, <2>3, <3>1 DEF Admitted, At, IInv, TypeInv, Enter
    <3>3. /\ Cardinality(Holders) - opened - forgotten <= key.val /\ key.val \in Int
          /\ Cardinality(Holders) \in Nat /\ Cardinality(Admitted) \in Nat
      BY <2>1, AtFinite DEF IInv, CounterDrift, TypeInv, KeyType, Holders, Admitted
    <3>4. Cardinality(Admitted) < Limit + (opened + forgotten)
      BY <2>2, <3>1, <3>3, AdmittedAreHolders
    <3>5. Abstract!Acquire(c)
      BY <2>2, <3>2, <3>4, SameCardinality DEF Abstract!Acquire
    <3>6. QED
      BY <3>5 DEF Abstract!Next
  <2>4. ASSUME Admitted' \subseteq Admitted, opened' = opened, forgotten' = forgotten PROVE Abstract!Next
    <3> DEFINE S == Admitted \ Admitted'
    <3>1. S \in SUBSET Clients
      BY DEF Admitted, At
    <3>2. Abstract!Release(S)
      BY <2>4 DEF Abstract!Release
    <3>3. QED
      BY <3>1, <3>2 DEF Abstract!Next
  <2>5. ASSUME NEW c \in Clients, SetTTL(c)
        PROVE  Admitted' \subseteq Admitted /\ opened' = opened /\ forgotten' = forgotten
    BY <2>1, <2>5 DEF SetTTL, Behind, Admitted, At, IInv, TypeInv
  <2>6. ASSUME NEW c \in Clients, Leave(c) \/ LeaveError(c)
        PROVE  Admitted' \subseteq Admitted /\ opened' = opened /\ forgotten' = forgotten
    BY <2>1, <2>6 DEF Leave, LeaveError, Goto, Admitted, At, IInv, TypeInv
  <2>7. ASSUME NEW c \in Clients, EnterError(c) \/ SetTTLError(c) PROVE Abstract!Next
    <3>1. gate' = [gate EXCEPT ![c] = "open"] /\ opened' = opened + 1 /\ forgotten' = forgotten
      BY <2>7 DEF EnterError, SetTTLError, Goto
    <3>2. Admitted' = Admitted \cup {c}
      BY <2>1, <3>1 DEF Admitted, At, IInv, TypeInv
    <3>3. Abstract!Fault(c)
      BY <2>2, <3>1, <3>2 DEF Abstract!Fault
    <3>4. QED
      BY <3>3 DEF Abstract!Next
  <2>7a. ASSUME Tick PROVE Abstract!Next
    <3>1. Admitted' = Admitted /\ opened' = opened
      BY <2>7a DEF Tick, Admitted, At
    <3>2. CASE key.ttl \in {0, 1}
      <4>1. forgotten' = forgotten + Cardinality(Counted)
        BY <2>7a, <3>2 DEF Tick
      <4>2. Cardinality(Counted) \in Nat /\ Cardinality(Counted) <= Cardinality(Clients)
            /\ Cardinality(Clients) \in Nat
        <5>1. Counted \in SUBSET Clients
          BY DEF Counted, At
        <5>2. QED
          BY <5>1, ClientsFinite, FS_Subset, FS_CardinalityType
      <4>3. Cardinality(Counted) \in 1..Cardinality(Clients)
        BY <2>1, <2>2, <3>1, <4>1, <4>2
      <4>4. Abstract!Forget(Cardinality(Counted))
        BY <2>2, <3>1, <4>1, <4>2 DEF Abstract!Forget
      <4>5. QED
        BY <4>3, <4>4, SameCardinality DEF Abstract!Next
    <3>3. CASE key.ttl \notin {0, 1}
      <4>1. forgotten' = forgotten
        BY <2>7a, <3>3 DEF Tick
      <4>2. QED
        BY <2>1, <3>1, <4>1
    <3>4. QED
      BY <3>2, <3>3
  <2>8. ASSUME Crash \/ UNCHANGED vars
        PROVE  Admitted' \subseteq Admitted /\ opened' = opened /\ forgotten' = forgotten
    BY <2>8 DEF Crash, vars, Admitted, At
  <2>9. QED
    BY <2>1, <2>3, <2>4, <2>5, <2>6, <2>7, <2>7a, <2>8 DEF Next
<1>3. QED
  BY <1>1, <1>2, Inductive, PTL DEF Spec, IsSemaphore, Abstract!Spec
=============================================================================
