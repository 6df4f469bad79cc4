------------------------------ MODULE AiGateway -----------------------------
(***************************************************************************)
(* The pipeline of the AI gateway (ai-gateway.controller.ts, handle): a    *)
(* request takes a slot of its API key, ranks the schedulable upstream     *)
(* accounts, tries at most MaxAttempts of them, cools down or marks the    *)
(* ones that fail, writes one usage row and gives every slot back.         *)
(*                                                                         *)
(* One API key; each client is one in-flight request, which starts again   *)
(* when it is done.  Each awaited call is a step.  Lifetimes, Redis errors *)
(* and crashes are the subject of SlotGate: here a counter is an integer.  *)
(***************************************************************************)
EXTENDS Integers, Sequences, FiniteSets

CONSTANTS
    Clients,
    Accounts,
    KeyLimit,       \* concurrency limit of the group (never 0: DEFAULT_CONCURRENCY)
    AccLimit,       \* concurrency limit of each account, 0 = unlimited
    Priority,       \* priority of the route to each account, small first
    MaxAttempts,    \* MAX_ATTEMPTS
    UnhealthyAfter, \* UNHEALTHY_AFTER
    Floor           \* bound: the counter of an unlimited account saturates at -Floor

ASSUME ClientsFinite    == IsFiniteSet(Clients)
ASSUME AccountsFinite   == IsFiniteSet(Accounts)
ASSUME LimitsAreNat     == KeyLimit \in Nat \ {0} /\ AccLimit \in [Accounts -> Nat]
ASSUME PriorityIsNat    == Priority \in [Accounts -> Nat]
ASSUME AttemptsPositive == MaxAttempts \in Nat \ {0} /\ UnhealthyAfter \in Nat \ {0}
ASSUME FloorIsNat       == Floor \in Nat

VARIABLES
    keyCount,  \* ai:conc:<key>
    accCount,  \* ai:aconc:<account>
    cooling,   \* accounts in a cool-down (429, 529, 401/403, custom rule)
    fails,     \* consecutive failures, capped at UnhealthyAfter: beyond is the same
    pc,        \* where each request stands
    cand,      \* candidates not yet given up on, best first
    outcome,   \* what the last forward of the request came to
    answer,    \* what the caller was sent
    rows       \* usage rows written for the request, and writes of one that were lost

accountVars == <<cooling, fails>>
requestVars == <<pc, cand, outcome, answer, rows>>
vars == <<keyCount, accCount, accountVars, requestVars>>

(* Upstream failures: a cool-down status, a 4xx that is the caller's own    *)
(* fault, anything else (5xx, timeout, network), a stream cut half-way.     *)
Failures == {"cool", "client", "server", "cut"}

Steps == {"idle", "keyOver", "select", "try", "accOver", "forward", "mark", "record",
          "coolDown", "releaseAcc", "releaseKey", "fail"}

TypeInv ==
    /\ keyCount \in Nat
    /\ accCount \in [Accounts -> Int]
    /\ cooling \subseteq Accounts
    /\ fails \in [Accounts -> 0..UnhealthyAfter]
    /\ pc \in [Clients -> Steps]
    /\ \A c \in Clients : cand[c] \in Seq(Accounts) /\ Len(cand[c]) <= MaxAttempts
    /\ outcome \in [Clients -> Failures \cup {"none", "ok"}]
    /\ answer \in [Clients -> {"none", "error", "part", "full"}]
    /\ rows \in [Clients -> [ok : 0..1, failed : 0..1, lost : 0..1]]

NoRows == [ok |-> 0, failed |-> 0, lost |-> 0]

Init ==
    /\ keyCount = 0
    /\ accCount = [a \in Accounts |-> 0]
    /\ cooling = {}
    /\ fails = [a \in Accounts |-> 0]
    /\ pc = [c \in Clients |-> "idle"]
    /\ cand = [c \in Clients |-> <<>>]
    /\ outcome = [c \in Clients |-> "none"]
    /\ answer = [c \in Clients |-> "none"]
    /\ rows = [c \in Clients |-> NoRows]

Account(c) == Head(cand[c])

Goto(c, step) == pc' = [pc EXCEPT ![c] = step]

Fresh(c) ==
    /\ pc[c] = "idle"
    /\ rows' = [rows EXCEPT ![c] = NoRows]
    /\ UNCHANGED <<cand, outcome>>

(* The handler returns: only what it wrote and answered is remembered. *)
Return(c) ==
    /\ Goto(c, "idle")
    /\ cand' = [cand EXCEPT ![c] = <<>>]
    /\ outcome' = [outcome EXCEPT ![c] = "none"]

(* verifyKey throws: no key, so no usage row. *)
RejectKey(c) ==
    /\ Fresh(c)
    /\ answer' = [answer EXCEPT ![c] = "error"]
    /\ UNCHANGED <<keyCount, accCount, accountVars, pc>>

(* The model whitelist, a group quota or the requests-per-minute window     *)
(* refuses, before a slot is taken.                                         *)
RefuseEarly(c) ==
    /\ Fresh(c)
    /\ answer' = [answer EXCEPT ![c] = "none"]
    /\ Goto(c, "fail")
    /\ UNCHANGED <<keyCount, accCount, accountVars>>

(* Mutant: the reply is compared as if it were the value before the INCR. *)
TakeKey_OffByOne(c) ==
    /\ Fresh(c)
    /\ answer' = [answer EXCEPT ![c] = "none"]
    /\ keyCount' = keyCount + 1
    /\ Goto(c, IF keyCount > KeyLimit THEN "keyOver" ELSE "select")
    /\ UNCHANGED <<accCount, accountVars>>

(* acquireSlot: INCR and compare. *)
TakeKey(c) ==
    /\ Fresh(c)
    /\ answer' = [answer EXCEPT ![c] = "none"]
    /\ keyCount' = keyCount + 1
    /\ Goto(c, IF keyCount + 1 > KeyLimit THEN "keyOver" ELSE "select")
    /\ UNCHANGED <<accCount, accountVars>>

(* The DECR of a refused request, before it leaves with 429. *)
UndoKey(c) ==
    /\ pc[c] = "keyOver"
    /\ keyCount' = keyCount - 1
    /\ Goto(c, "fail")
    /\ UNCHANGED <<accCount, accountVars, cand, outcome, answer, rows>>

Schedulable(a) == a \notin cooling /\ fails[a] < UnhealthyAfter

(* loadRate: running calls in percent of the limit of the account (which an *)
(* explicit load factor may replace), rounded.                              *)
Load(a) == LET factor == IF AccLimit[a] = 0 THEN 1 ELSE AccLimit[a]
           IN  (200 * accCount[a] + factor) \div (2 * factor)

NoLater(a, b) == \/ Priority[a] < Priority[b]
                 \/ Priority[a] = Priority[b] /\ Load(a) <= Load(b)

Rankings(S) ==
    {s \in [1..Cardinality(S) -> S] :
        \A i, j \in DOMAIN s : i < j => s[i] # s[j] /\ NoLater(s[i], s[j])}

(* selectCandidates: the schedulable accounts by priority, the least loaded *)
(* first among equals, ties at random.  Which of them serve the model and   *)
(* the group is configuration: any subset may.                              *)
Select(c) ==
    /\ pc[c] = "select"
    /\ \E S \in SUBSET {a \in Accounts : Schedulable(a)} : \E s \in Rankings(S) :
          cand' = [cand EXCEPT ![c] = SubSeq(s, 1, IF Len(s) < MaxAttempts THEN Len(s) ELSE MaxAttempts)]
    /\ Goto(c, "try")
    /\ UNCHANGED <<keyCount, accCount, accountVars, outcome, answer, rows>>

(* Mutant: the same off-by-one at the gate of an account. *)
Try_OffByOne(c) ==
    /\ pc[c] = "try"
    /\ cand[c] # <<>>
    /\ LET a == Account(c) IN
          IF AccLimit[a] = 0
          THEN Goto(c, "forward") /\ UNCHANGED accCount
          ELSE /\ accCount' = [accCount EXCEPT ![a] = @ + 1]
               /\ Goto(c, IF accCount[a] > AccLimit[a] THEN "accOver" ELSE "forward")
    /\ UNCHANGED <<keyCount, accountVars, cand, outcome, answer, rows>>

(* tryAcquireAccount: an unlimited account is entered without an INCR. *)
Try(c) ==
    /\ pc[c] = "try"
    /\ cand[c] # <<>>
    /\ LET a == Account(c) IN
          IF AccLimit[a] = 0
          THEN Goto(c, "forward") /\ UNCHANGED accCount
          ELSE /\ accCount' = [accCount EXCEPT ![a] = @ + 1]
               /\ Goto(c, IF accCount[a] + 1 > AccLimit[a] THEN "accOver" ELSE "forward")
    /\ UNCHANGED <<keyCount, accountVars, cand, outcome, answer, rows>>

(* Mutant: a full account is waited for, not skipped. *)
UndoAcc_Waits(c) ==
    /\ pc[c] = "accOver"
    /\ accCount' = [accCount EXCEPT ![Account(c)] = @ - 1]
    /\ Goto(c, "try")
    /\ UNCHANGED <<keyCount, accountVars, cand, outcome, answer, rows>>

(* The account is full: take the INCR back and go on to the next one. *)
UndoAcc(c) ==
    /\ pc[c] = "accOver"
    /\ accCount' = [accCount EXCEPT ![Account(c)] = @ - 1]
    /\ cand' = [cand EXCEPT ![c] = Tail(@)]
    /\ Goto(c, "try")
    /\ UNCHANGED <<keyCount, accountVars, outcome, answer, rows>>

(* No candidate, or none left: 503 or 502. *)
GiveUp(c) ==
    /\ pc[c] = "try"
    /\ cand[c] = <<>>
    /\ Goto(c, "releaseKey")
    /\ UNCHANGED <<keyCount, accCount, accountVars, cand, outcome, answer, rows>>

(* forward: the whole answer went out. *)
Served(c) ==
    /\ pc[c] = "forward"
    /\ outcome' = [outcome EXCEPT ![c] = "ok"]
    /\ answer' = [answer EXCEPT ![c] = "full"]
    /\ Goto(c, "mark")
    /\ UNCHANGED <<keyCount, accCount, accountVars, cand, rows>>

(* forward threw; a cut stream has sent its headers, the others nothing. *)
Failed(c) ==
    /\ pc[c] = "forward"
    /\ \E f \in Failures :
          /\ outcome' = [outcome EXCEPT ![c] = f]
          /\ answer' = [answer EXCEPT ![c] = IF f = "cut" THEN "part" ELSE @]
    /\ Goto(c, "coolDown")
    /\ UNCHANGED <<keyCount, accCount, accountVars, cand, rows>>

Bump(n) == IF n < UnhealthyAfter THEN n + 1 ELSE n

(* markUpstreamResult(ok). *)
Mark(c) ==
    /\ pc[c] = "mark"
    /\ fails' = [fails EXCEPT ![Account(c)] = 0]
    /\ Goto(c, "record")
    /\ UNCHANGED <<keyCount, accCount, cooling, cand, outcome, answer, rows>>

(* recordUsage without a SQL store, or with an insert that fails, which is  *)
(* logged and swallowed: there is no row, and nobody is told.               *)
LoseRow(c) == rows' = [rows EXCEPT ![c].lost = @ + 1]

Record(c) ==
    /\ pc[c] = "record"
    /\ rows' = [rows EXCEPT ![c].ok = @ + 1] \/ LoseRow(c)
    /\ Goto(c, "releaseAcc")
    /\ UNCHANGED <<keyCount, accCount, accountVars, cand, outcome, answer>>

(* coolDown: a cool-down status rests the account, every other error counts *)
(* as a consecutive failure of the account.                                 *)
CoolDown(c) ==
    /\ pc[c] = "coolDown"
    /\ IF outcome[c] = "cool"
       THEN cooling' = cooling \cup {Account(c)} /\ UNCHANGED fails
       ELSE fails' = [fails EXCEPT ![Account(c)] = Bump(@)] /\ UNCHANGED cooling
    /\ Goto(c, "releaseAcc")
    /\ UNCHANGED <<keyCount, accCount, cand, outcome, answer, rows>>

Lower(a) == IF accCount[a] > -Floor THEN accCount[a] - 1 ELSE accCount[a]

(* Mutant: the next account is tried although bytes have been sent. *)
ReleaseAcc_FailsOverAnyway(c) ==
    /\ pc[c] = "releaseAcc"
    /\ accCount' = [accCount EXCEPT ![Account(c)] = Lower(Account(c))]
    /\ cand' = [cand EXCEPT ![c] = Tail(@)]
    /\ Goto(c, "try")
    /\ UNCHANGED <<keyCount, accountVars, outcome, answer, rows>>

(* Mutant: the slot is given back on the way out only, not on a failover. *)
ReleaseAcc_OnlyAtTheEnd(c) ==
    /\ pc[c] = "releaseAcc"
    /\ IF answer[c] = "none"
       THEN cand' = [cand EXCEPT ![c] = Tail(@)] /\ Goto(c, "try") /\ UNCHANGED accCount
       ELSE /\ accCount' = [accCount EXCEPT ![Account(c)] = Lower(Account(c))]
            /\ UNCHANGED cand
            /\ Goto(c, "releaseKey")
    /\ UNCHANGED <<keyCount, accountVars, outcome, answer, rows>>

(* finally: releaseAccount, a DECR whether or not there was an INCR.  The   *)
(* loop ends when bytes have been sent, else it goes on to the next account.*)
ReleaseAcc(c) ==
    /\ pc[c] = "releaseAcc"
    /\ accCount' = [accCount EXCEPT ![Account(c)] = Lower(Account(c))]
    /\ IF answer[c] = "none"
       THEN cand' = [cand EXCEPT ![c] = Tail(@)] /\ Goto(c, "try")
       ELSE UNCHANGED cand /\ Goto(c, "releaseKey")
    /\ UNCHANGED <<keyCount, accountVars, outcome, answer, rows>>

(* Mutant: a cut stream returns as if it had been served. *)
ReleaseKey_SilentCut(c) ==
    /\ pc[c] = "releaseKey"
    /\ keyCount' = keyCount - 1
    /\ IF answer[c] # "none"
       THEN Return(c)
       ELSE Goto(c, "fail") /\ UNCHANGED <<cand, outcome>>
    /\ UNCHANGED <<accCount, accountVars, answer, rows>>

(* finally: releaseSlot. *)
ReleaseKey(c) ==
    /\ pc[c] = "releaseKey"
    /\ keyCount' = keyCount - 1
    /\ IF answer[c] = "full"
       THEN Return(c)
       ELSE Goto(c, "fail") /\ UNCHANGED <<cand, outcome>>
    /\ UNCHANGED <<accCount, accountVars, answer, rows>>

(* The outer catch: a usage row for the failure, then the error, or the end *)
(* of a stream that had begun.                                              *)
Fail(c) ==
    /\ pc[c] = "fail"
    /\ rows' = [rows EXCEPT ![c].failed = @ + 1] \/ LoseRow(c)
    /\ answer' = [answer EXCEPT ![c] = IF @ = "none" THEN "error" ELSE @]
    /\ Return(c)
    /\ UNCHANGED <<keyCount, accCount, accountVars>>

(* A cool-down runs out; or an administrator resets the account. *)
Recover(a) ==
    /\ cooling' = cooling \ {a}
    /\ \/ UNCHANGED fails
       \/ fails' = [fails EXCEPT ![a] = 0]
    /\ UNCHANGED <<keyCount, accCount, requestVars>>

(* healthCheckAll, every ten minutes. *)
HealthCheck(a) ==
    /\ \/ fails' = [fails EXCEPT ![a] = 0]
       \/ fails' = [fails EXCEPT ![a] = Bump(@)]
    /\ UNCHANGED <<keyCount, accCount, cooling, requestVars>>

Request(c) ==
    \/ RejectKey(c) \/ RefuseEarly(c) \/ TakeKey(c) \/ UndoKey(c) \/ Select(c)
    \/ Try(c) \/ UndoAcc(c) \/ GiveUp(c) \/ Served(c) \/ Failed(c) \/ Mark(c)
    \/ Record(c) \/ CoolDown(c) \/ ReleaseAcc(c) \/ ReleaseKey(c) \/ Fail(c)

Next ==
    \/ \E c \in Clients : Request(c)
    \/ \E a \in Accounts : Recover(a) \/ HealthCheck(a)

Spec == Init /\ [][Next]_vars

(* Every awaited call is answered: Redis, the database, and the upstream,   *)
(* whose headers have a timeout; its body has none, so that a stream ends   *)
(* is an assumption.                                                        *)
FairSpec == Spec /\ \A c \in Clients : WF_vars(pc[c] # "idle" /\ Request(c))

-----------------------------------------------------------------------------
Limited == {a \in Accounts : AccLimit[a] > 0}

HoldsKey(c) == pc[c] \notin {"idle", "keyOver", "fail"}
HoldsAcc(c, a) ==
    /\ pc[c] \in {"forward", "mark", "record", "coolDown", "releaseAcc"}
    /\ Account(c) = a

(* The key gate admits at most KeyLimit requests, over the whole pipeline.  *)
KeyGate == INSTANCE Semaphore WITH
              Limit <- KeyLimit, inside <- {c \in Clients : HoldsKey(c)}, extra <- 0
KeyIsSemaphore == KeyGate!Spec

(* A limited account forwards at most AccLimit requests at a time, however  *)
(* requests fail over between accounts.                                     *)
AccHolders(a) == {c \in Clients : HoldsAcc(c, a)}
AccountGate(a) == INSTANCE Semaphore WITH
              Limit <- AccLimit[a], inside <- AccHolders(a), extra <- 0
AccountsAreSemaphores ==
    /\ \A a \in Limited : AccountGate(a)!Init
    /\ [][\A a \in Limited : [AccountGate(a)!Next]_(AccHolders(a))]_vars

(* Every way out of the pipeline gives back what was taken: the counters    *)
(* are the requests that hold or are about to give back a slot.             *)
SlotsBalance ==
    /\ keyCount = Cardinality({c \in Clients : HoldsKey(c) \/ pc[c] = "keyOver"})
    /\ \A a \in Limited :
          accCount[a] = Cardinality({c \in Clients :
             HoldsAcc(c, a) \/ (pc[c] = "accOver" /\ Account(c) = a)})

(* A request writes its usage at most once, on whatever accounts it failed  *)
(* before, and the row tells the truth: success when the whole answer went  *)
(* out, failure when none did or it was cut.  A request that was answered,  *)
(* wholly or in part, has its row unless the write itself was lost, which   *)
(* the code lets happen silently (recordUsage).                             *)
OneUsageRow ==
    \A c \in Clients : pc[c] = "idle" =>
        /\ rows[c].ok + rows[c].failed + rows[c].lost <= 1
        /\ rows[c].ok = 1 => answer[c] = "full"
        /\ rows[c].failed = 1 => answer[c] # "full"
        /\ answer[c] = "full" => rows[c].ok + rows[c].lost = 1
        /\ answer[c] = "part" => rows[c].failed + rows[c].lost = 1

(* Once bytes of an answer are out, the request is not forwarded again.     *)
NoSecondAnswer ==
    [][\A c \in Clients :
          pc'[c] = "forward" /\ pc[c] # "forward" => answer[c] = "none"]_vars

(* A request comes to an end, whatever the accounts do. *)
EveryRequestEnds == \A c \in Clients : pc[c] # "idle" ~> pc[c] = "idle"

(* A 4xx is the fault of the request, another account would not help        *)
(* (ai-gateway.controller.ts:176): no account is tried after one.           *)
NoFailoverOn4xx ==
    [][\A c \in Clients :
          pc[c] = "try" /\ pc'[c] # "try" => outcome[c] # "client" \/ pc'[c] = "releaseKey"]_vars

(* The counter accounts are ranked by is a number of running calls          *)
(* (ai-route.service.ts:919, 925).                                          *)
LoadIsACount == \A a \in Accounts : accCount[a] >= 0

(* Both gates of the pipeline are semaphores.                               *)
GatesAreSemaphores == KeyIsSemaphore /\ AccountsAreSemaphores

(* What the caller got and what is on record of it agree (OneUsageRow), and *)
(* the variables have their types.                                          *)
AnswersOnRecord == TypeInv /\ OneUsageRow
=============================================================================
