-------------------------- MODULE AiGateway_proofs --------------------------
(***************************************************************************)
(* Proofs about the pipeline of the AI gateway, for every set of clients   *)
(* and accounts, every limit and every ranking: what is taken is given     *)
(* back, both gates are semaphores, what the caller got and what is on     *)
(* record agree, and no second answer is begun.                            *)
(***************************************************************************)
EXTENDS AiGateway, FiniteSetTheorems, SequenceTheorems, TLAPS

(* Where a request has counted on its key, and where on an account. *)
Busy == Steps \ {"idle", "fail"}
OnAccount == {"accOver", "forward", "mark", "record", "coolDown", "releaseAcc"}

Counted == {c \in Clients : pc[c] \in Busy}
Using(a) == {c \in Clients : pc[c] \in OnAccount /\ Account(c) = a}

Types ==
    /\ keyCount \in Int
    /\ accCount \in [Accounts -> Int]
    /\ cooling \subseteq Accounts
    /\ fails \in [Accounts -> 0..UnhealthyAfter]
    /\ pc \in [Clients -> Steps]
    /\ cand \in [Clients -> Seq(Accounts)]
    /\ outcome \in [Clients -> Failures \cup {"none", "ok"}]
    /\ answer \in [Clients -> {"none", "error", "part", "full"}]
    /\ rows \in [Clients -> [ok : 0..1, failed : 0..1, lost : 0..1]]

Candidates(c) ==
    /\ Len(cand[c]) <= MaxAttempts
    /\ pc[c] \in OnAccount => cand[c] # <<>>

(* What one write leaves on record: the row, or nothing. *)
Lost    == [ok |-> 0, failed |-> 0, lost |-> 1]
Success == {[ok |-> 1, failed |-> 0, lost |-> 0], Lost}
Failure == {[ok |-> 0, failed |-> 1, lost |-> 0], Lost}

(* What the caller of a request has got, and what is on record of it. *)
Told(c) ==
    /\ pc[c] \in {"keyOver", "select", "try", "accOver", "forward"} =>
          rows[c] = NoRows /\ answer[c] = "none"
    /\ pc[c] \in {"mark", "record"} => rows[c] = NoRows /\ answer[c] = "full"
    /\ pc[c] \in {"coolDown", "fail"} => rows[c] = NoRows /\ answer[c] \in {"none", "part"}
    /\ pc[c] \in {"releaseAcc", "releaseKey"} =>
          \/ rows[c] = NoRows /\ answer[c] \in {"none", "part"}
          \/ rows[c] \in Success /\ answer[c] = "full"
    /\ pc[c] = "idle" =>
          \/ rows[c] = NoRows /\ answer[c] \in {"none", "error"}
          \/ rows[c] \in Failure /\ answer[c] \in {"part", "error"}
          \/ rows[c] \in Success /\ answer[c] = "full"

(* The counter of the key is the requests that have counted on it, and so   *)
(* is that of every account that has a limit.                               *)
IInv ==
    /\ Types
    /\ \A c \in Clients : Candidates(c) /\ Told(c)
    /\ keyCount = Cardinality(Counted)
    /\ \A a \in Limited : accCount[a] = Cardinality(Using(a))

-----------------------------------------------------------------------------
LEMMA Constants ==
    /\ IsFiniteSet(Clients) /\ IsFiniteSet(Accounts)
    /\ KeyLimit \in Nat \ {0} /\ AccLimit \in [Accounts -> Nat]
    /\ MaxAttempts \in Nat \ {0} /\ UnhealthyAfter \in Nat \ {0} /\ Floor \in Nat
    /\ Limited \subseteq Accounts
  BY ClientsFinite, AccountsFinite, LimitsAreNat, AttemptsPositive, FloorIsNat DEF Limited

(* A set of clients that one client enters or leaves. *)
LEMMA ClientMoves ==
  ASSUME NEW A \in SUBSET Clients, NEW B \in SUBSET Clients, NEW c \in Clients,
         A \ {c} = B \ {c}
  PROVE  /\ Cardinality(A) \in Nat /\ Cardinality(B) \in Nat
         /\ (c \in A <=> c \in B) => B = A
         /\ c \notin A /\ c \in B => Cardinality(B) = Cardinality(A) + 1
         /\ c \in A /\ c \notin B => /\ Cardinality(B) = Cardinality(A) - 1
                                     /\ Cardinality(A) > 0
<1>1. IsFiniteSet(A) /\ IsFiniteSet(B) /\ Cardinality(A) \in Nat /\ Cardinality(B) \in Nat
  BY Constants, FS_Subset, FS_CardinalityType
<1>2. (c \in A <=> c \in B) => B = A
  OBVIOUS
<1>3. ASSUME c \notin A, c \in B PROVE Cardinality(B) = Cardinality(A) + 1
  <2>1. B = A \cup {c}
    BY <1>3
  <2>2. QED
    BY <1>1, <1>3, <2>1, FS_AddElement
<1>4. ASSUME c \in A, c \notin B
      PROVE  Cardinality(B) = Cardinality(A) - 1 /\ Cardinality(A) > 0
  <2>1. B = A \ {c}
    BY <1>4
  <2>2. Cardinality(B) = Cardinality(A) - 1
    BY <1>1, <1>4, <2>1, FS_RemoveElement
  <2>3. QED
    BY <1>1, <2>2
<1>5. QED
  BY <1>1, <1>2, <1>3, <1>4

(* The steps of a request are its own. *)
LEMMA OthersStay ==
  ASSUME Types, NEW c \in Clients, Request(c), NEW d \in Clients \ {c}
  PROVE  /\ pc'[d] = pc[d] /\ cand'[d] = cand[d] /\ outcome'[d] = outcome[d]
         /\ answer'[d] = answer[d] /\ rows'[d] = rows[d]
<1>1. CASE RejectKey(c) \/ RefuseEarly(c) \/ TakeKey(c)
  BY <1>1 DEF Types, RejectKey, RefuseEarly, TakeKey, Fresh, Goto
<1>2. CASE UndoKey(c) \/ Select(c) \/ Try(c) \/ UndoAcc(c) \/ GiveUp(c)
  BY <1>2 DEF Types, UndoKey, Select, Try, UndoAcc, GiveUp, Goto
<1>3. CASE Served(c) \/ Failed(c) \/ Mark(c) \/ Record(c) \/ CoolDown(c)
  BY <1>3 DEF Types, Served, Failed, Mark, Record, LoseRow, CoolDown, Goto
<1>4. CASE ReleaseAcc(c) \/ ReleaseKey(c) \/ Fail(c)
  BY <1>4 DEF Types, ReleaseAcc, ReleaseKey, Fail, LoseRow, Return, Goto
<1>5. QED
  BY <1>1, <1>2, <1>3, <1>4 DEF Request

(* What a ranking and its first MaxAttempts elements are. *)
LEMMA RankingIsSeq ==
  ASSUME NEW S \in SUBSET Accounts, NEW s \in Rankings(S)
  PROVE  LET n == IF Len(s) < MaxAttempts THEN Len(s) ELSE MaxAttempts
         IN  /\ SubSeq(s, 1, n) \in Seq(Accounts)
             /\ Len(SubSeq(s, 1, n)) <= MaxAttempts
<1> DEFINE n == IF Len(s) < MaxAttempts THEN Len(s) ELSE MaxAttempts
<1>1. Cardinality(S) \in Nat
  BY Constants, FS_Subset, FS_CardinalityType
<1>2. s \in [1..Cardinality(S) -> S]
  BY DEF Rankings
<1>3. s \in Seq(S) /\ Len(s) = Cardinality(S)
  BY <1>1, <1>2
<1>4. n \in Nat /\ n <= Len(s) /\ n <= MaxAttempts
  BY <1>1, <1>3, Constants
<1>5. \A i \in 1..n : s[i] \in Accounts
  BY <1>1, <1>2, <1>3, <1>4
<1>6. SubSeq(s, 1, n) \in Seq(Accounts) /\ Len(SubSeq(s, 1, n)) <= MaxAttempts
  BY <1>4, <1>5, SubSeqProperties, Constants
<1>7. QED
  BY <1>6

LEMMA SelectTakes ==
  ASSUME Types, NEW c \in Clients, Select(c)
  PROVE  /\ cand'[c] \in Seq(Accounts) /\ Len(cand'[c]) <= MaxAttempts
         /\ cand' = [cand EXCEPT ![c] = cand'[c]]
<1>1. PICK S \in SUBSET {a \in Accounts : Schedulable(a)} : \E s \in Rankings(S) :
          cand' = [cand EXCEPT ![c] = SubSeq(s, 1, IF Len(s) < MaxAttempts THEN Len(s) ELSE MaxAttempts)]
  BY DEF Select
<1>2. PICK s \in Rankings(S) :
          cand' = [cand EXCEPT ![c] = SubSeq(s, 1, IF Len(s) < MaxAttempts THEN Len(s) ELSE MaxAttempts)]
  BY <1>1
<1>3. S \in SUBSET Accounts
  OBVIOUS
<1>4. QED
  BY <1>2, <1>3, RankingIsSeq DEF Types

LEMMA AccountIsAccount ==
  ASSUME Types, NEW c \in Clients, cand[c] # <<>>
  PROVE  /\ Account(c) \in Accounts /\ Tail(cand[c]) \in Seq(Accounts)
         /\ Len(Tail(cand[c])) = Len(cand[c]) - 1 /\ Len(cand[c]) \in Nat
  BY HeadTailProperties DEF Types, Account

LEMMA NoCandidates == <<>> \in Seq(Accounts) /\ Len(<<>>) = 0 /\ 0 <= MaxAttempts
  BY Constants

(* The one write of a request: the row it is for, or nothing.               *)
LEMMA WrittenRow ==
  ASSUME Types, NEW c \in Clients, rows[c] = NoRows
  PROVE  /\ (rows' = [rows EXCEPT ![c].ok = @ + 1] \/ LoseRow(c))
               => (rows'[c] \in Success /\ rows' = [rows EXCEPT ![c] = rows'[c]])
         /\ (rows' = [rows EXCEPT ![c].failed = @ + 1] \/ LoseRow(c))
               => (rows'[c] \in Failure /\ rows' = [rows EXCEPT ![c] = rows'[c]])
<1>1. rows \in [Clients -> [ok : 0..1, failed : 0..1, lost : 0..1]]
  BY DEF Types
<1>2. CASE rows' = [rows EXCEPT ![c].ok = @ + 1]
  BY <1>1, <1>2 DEF NoRows, Success, Failure, LoseRow, Lost
<1>3. CASE rows' = [rows EXCEPT ![c].failed = @ + 1]
  BY <1>1, <1>3 DEF NoRows, Success, Failure, LoseRow, Lost
<1>4. CASE LoseRow(c)
  <2>1. rows' = [rows EXCEPT ![c].lost = @ + 1]
    BY <1>4 DEF LoseRow
  <2>2. rows'[c] = Lost /\ rows' = [rows EXCEPT ![c] = rows'[c]]
    BY <1>1, <2>1 DEF NoRows, Lost
  <2>3. QED
    BY <2>2 DEF Success, Failure
<1>5. QED
  BY <1>2, <1>3, <1>4

LEMMA RequestTypes ==
  ASSUME Types, NEW c \in Clients, Candidates(c), Told(c), Request(c)
  PROVE  Types' /\ Candidates(c)'
<1>1. CASE RejectKey(c) \/ RefuseEarly(c) \/ UndoKey(c)
  <2>1. CASE RejectKey(c)
    BY <2>1 DEF RejectKey, Fresh, Types, accountVars, NoRows, Candidates, OnAccount
  <2>2. CASE RefuseEarly(c)
    BY <2>2 DEF RefuseEarly, Fresh, Goto, Types, Steps, accountVars, NoRows, Candidates, OnAccount
  <2>3. CASE UndoKey(c)
    BY <2>3 DEF UndoKey, Goto, Types, Steps, accountVars, Candidates, OnAccount
  <2>4. QED
    BY <1>1, <2>1, <2>2, <2>3
<1>2. CASE TakeKey(c)
  BY <1>2 DEF TakeKey, Fresh, Goto, Types, Steps, accountVars, NoRows, Candidates, OnAccount
<1>3. CASE Select(c)
  BY <1>3, SelectTakes DEF Select, Goto, Types, Steps, accountVars, Candidates, OnAccount
<1>4. CASE Try(c)
  <2>1. Account(c) \in Accounts
    BY <1>4, AccountIsAccount DEF Try
  <2>2. /\ cand[c] # <<>>
        /\ UNCHANGED <<keyCount, accountVars, cand, outcome, answer, rows>>
        /\ accCount' = accCount \/ accCount' = [accCount EXCEPT ![Account(c)] = accCount[Account(c)] + 1]
        /\ \E p \in {"accOver", "forward"} : pc' = [pc EXCEPT ![c] = p]
    BY <1>4 DEF Try, Goto
  <2>3. accCount' \in [Accounts -> Int]
    BY <2>1, <2>2 DEF Types
  <2>4. QED
    BY <2>2, <2>3 DEF Types, Steps, accountVars, Candidates, OnAccount
<1>5. CASE UndoAcc(c)
  <2>1. pc[c] = "accOver" /\ cand[c] # <<>>
    BY <1>5 DEF UndoAcc, Candidates, OnAccount
  <2>2. /\ Account(c) \in Accounts /\ Tail(cand[c]) \in Seq(Accounts)
        /\ Len(Tail(cand[c])) = Len(cand[c]) - 1 /\ Len(cand[c]) \in Nat
    BY <2>1, AccountIsAccount
  <2>3. /\ cand' = [cand EXCEPT ![c] = Tail(cand[c])] /\ pc' = [pc EXCEPT ![c] = "try"]
        /\ accCount' = [accCount EXCEPT ![Account(c)] = accCount[Account(c)] - 1]
        /\ UNCHANGED <<keyCount, accountVars, outcome, answer, rows>>
    BY <1>5 DEF UndoAcc, Goto
  <2>4. Types'
    BY <2>2, <2>3 DEF Types, Steps, accountVars
  <2>5. Candidates(c)'
    BY <2>2, <2>3, Constants DEF Types, Candidates, OnAccount
  <2>6. QED
    BY <2>4, <2>5
<1>6. CASE GiveUp(c)
  BY <1>6 DEF GiveUp, Goto, Types, Steps, accountVars, Candidates, OnAccount
<1>7. CASE Served(c) \/ Failed(c)
  BY <1>7 DEF Served, Failed, Goto, Types, Steps, accountVars, Failures, Candidates, OnAccount
<1>8. CASE Mark(c) \/ CoolDown(c)
  <2>1. Account(c) \in Accounts
    BY <1>8, AccountIsAccount DEF Mark, CoolDown, Candidates, OnAccount
  <2>2. \A n \in 0..UnhealthyAfter : Bump(n) \in 0..UnhealthyAfter
    BY Constants DEF Bump
  <2>3. /\ UNCHANGED <<keyCount, accCount, cand, outcome, answer, rows>>
        /\ \E p \in {"record", "releaseAcc"} : pc' = [pc EXCEPT ![c] = p]
        /\ pc[c] \in {"mark", "coolDown"}
    BY <1>8 DEF Mark, CoolDown, Goto
  <2>4. cooling' \subseteq Accounts /\ fails' \in [Accounts -> 0..UnhealthyAfter]
    <3>1. CASE Mark(c)
      BY <2>1, <3>1, Constants DEF Mark, Types
    <3>2. CASE CoolDown(c)
      <4>1. \/ cooling' = cooling \cup {Account(c)} /\ fails' = fails
            \/ /\ fails' = [fails EXCEPT ![Account(c)] = Bump(fails[Account(c)])]
               /\ cooling' = cooling
        BY <3>2 DEF CoolDown
      <4>2. cooling \subseteq Accounts /\ fails \in [Accounts -> 0..UnhealthyAfter]
        BY DEF Types
      <4>3. QED
        BY <2>1, <2>2, <4>1, <4>2
    <3>3. QED
      BY <1>8, <3>1, <3>2
  <2>5. QED
    BY <2>3, <2>4 DEF Types, Steps, Candidates, OnAccount
<1>9. CASE Record(c)
  <2>1. rows'[c] \in Success /\ rows' = [rows EXCEPT ![c] = rows'[c]]
    BY <1>9, WrittenRow DEF Record, Told
  <2>2. rows'[c] \in [ok : 0..1, failed : 0..1, lost : 0..1]
    BY <2>1 DEF Success, Lost
  <2>3. /\ pc[c] = "record" /\ pc' = [pc EXCEPT ![c] = "releaseAcc"]
        /\ UNCHANGED <<keyCount, accCount, accountVars, cand, outcome, answer>>
    BY <1>9 DEF Record, Goto
  <2>4. QED
    BY <2>1, <2>2, <2>3 DEF Types, Steps, accountVars, Candidates, OnAccount
<1>10. CASE ReleaseAcc(c)
  <2>1. pc[c] = "releaseAcc" /\ cand[c] # <<>>
    BY <1>10 DEF ReleaseAcc, Candidates, OnAccount
  <2>2. /\ Account(c) \in Accounts /\ Tail(cand[c]) \in Seq(Accounts)
        /\ Len(Tail(cand[c])) = Len(cand[c]) - 1 /\ Len(cand[c]) \in Nat
    BY <2>1, AccountIsAccount
  <2>3. accCount[Account(c)] \in Int /\ Lower(Account(c)) \in Int
    BY <2>2, Constants DEF Types, Lower
  <2>4. /\ accCount' = [accCount EXCEPT ![Account(c)] = Lower(Account(c))]
        /\ UNCHANGED <<keyCount, accountVars, outcome, answer, rows>>
        /\ \/ cand' = [cand EXCEPT ![c] = Tail(cand[c])] /\ pc' = [pc EXCEPT ![c] = "try"]
           \/ cand' = cand /\ pc' = [pc EXCEPT ![c] = "releaseKey"]
    BY <1>10 DEF ReleaseAcc, Goto
  <2>5. Types'
    BY <2>2, <2>3, <2>4 DEF Types, Steps, accountVars
  <2>6. Candidates(c)'
    BY <2>2, <2>4, Constants DEF Types, Candidates, OnAccount
  <2>7. QED
    BY <2>5, <2>6
<1>11. CASE Fail(c)
  <2>1. rows'[c] \in Failure /\ rows' = [rows EXCEPT ![c] = rows'[c]]
    BY <1>11, WrittenRow DEF Fail, Told
  <2>2. rows'[c] \in [ok : 0..1, failed : 0..1, lost : 0..1]
    BY <2>1 DEF Failure, Lost
  <2>3. /\ pc' = [pc EXCEPT ![c] = "idle"] /\ cand' = [cand EXCEPT ![c] = <<>>]
        /\ outcome' = [outcome EXCEPT ![c] = "none"]
        /\ answer' = [answer EXCEPT ![c] = IF @ = "none" THEN "error" ELSE @]
        /\ UNCHANGED <<keyCount, accCount, accountVars>>
    BY <1>11 DEF Fail, Return, Goto
  <2>4. QED
    BY <2>1, <2>2, <2>3, NoCandidates DEF Types, Steps, accountVars, Candidates, OnAccount
<1>12. CASE ReleaseKey(c)
  <2>1. /\ UNCHANGED <<accCount, accountVars, answer, rows>> /\ keyCount' = keyCount - 1
        /\ pc[c] = "releaseKey"
        /\ \/ /\ pc' = [pc EXCEPT ![c] = "idle"] /\ cand' = [cand EXCEPT ![c] = <<>>]
              /\ outcome' = [outcome EXCEPT ![c] = "none"]
           \/ pc' = [pc EXCEPT ![c] = "fail"] /\ UNCHANGED <<cand, outcome>>
    BY <1>12 DEF ReleaseKey, Return, Goto
  <2>2. Types'
    <3>1. cand' \in [Clients -> Seq(Accounts)]
      BY <2>1, NoCandidates DEF Types
    <3>2. outcome' \in [Clients -> Failures \cup {"none", "ok"}]
      BY <2>1 DEF Types
    <3>3. pc' \in [Clients -> Steps] /\ keyCount' \in Int
      <4>1. PICK p \in {"idle", "fail"} : pc' = [pc EXCEPT ![c] = p]
        BY <2>1
      <4>2. p \in Steps
        BY DEF Steps
      <4>3. pc' \in [Clients -> Steps]
        BY <4>1, <4>2 DEF Types
      <4>4. keyCount' \in Int
        BY <2>1 DEF Types
      <4>5. QED
        BY <4>3, <4>4
    <3>4. UNCHANGED <<accCount, cooling, fails, answer, rows>>
      BY <2>1 DEF accountVars
    <3>5. QED
      BY <3>1, <3>2, <3>3, <3>4 DEF Types
  <2>3. Candidates(c)'
    BY <2>1, NoCandidates DEF Types, Candidates, OnAccount
  <2>4. QED
    BY <2>2, <2>3
<1>13. QED
  BY <1>1, <1>2, <1>3, <1>4, <1>5, <1>6, <1>7, <1>8, <1>9, <1>10, <1>11, <1>12
     DEF Request

(* The answer and the usage rows follow the request. *)
LEMMA RequestTold ==
  ASSUME Types, NEW c \in Clients, Told(c), Request(c)
  PROVE  Told(c)'
<1>1. CASE RejectKey(c)
  BY <1>1 DEF RejectKey, Fresh, Types, Told
<1>2. CASE RefuseEarly(c)
  BY <1>2 DEF RefuseEarly, Fresh, Goto, Types, Told
<1>3. CASE TakeKey(c)
  <2>1. /\ rows'[c] = NoRows /\ answer'[c] = "none" /\ pc'[c] \in {"keyOver", "select"}
    BY <1>3 DEF TakeKey, Fresh, Goto, Types
  <2>2. QED
    BY <2>1 DEF Told
<1>4. CASE UndoKey(c)
  BY <1>4 DEF UndoKey, Goto, Types, Told
<1>5. CASE Select(c) \/ UndoAcc(c)
  <2>1. /\ pc[c] \in {"select", "accOver"} /\ pc'[c] = "try"
        /\ rows' = rows /\ answer' = answer
    BY <1>5 DEF Select, UndoAcc, Goto, Types
  <2>2. QED
    BY <2>1 DEF Told
<1>6. CASE Try(c)
  <2>1. /\ pc[c] = "try" /\ pc'[c] \in {"accOver", "forward"}
        /\ rows' = rows /\ answer' = answer
    BY <1>6 DEF Try, Goto, Types
  <2>2. QED
    BY <2>1 DEF Told
<1>7. CASE GiveUp(c)
  BY <1>7 DEF GiveUp, Goto, Types, Told
<1>8. CASE Served(c)
  BY <1>8 DEF Served, Goto, Types, Told
<1>9. CASE Failed(c)
  <2>1. /\ pc[c] = "forward" /\ pc'[c] = "coolDown" /\ rows' = rows
        /\ answer'[c] \in {"part", answer[c]}
    BY <1>9 DEF Failed, Goto, Types
  <2>2. QED
    BY <2>1 DEF Told
<1>10. CASE Mark(c)
  BY <1>10 DEF Mark, Goto, Types, Told
<1>11. CASE Record(c)
  <2>1. /\ pc[c] = "record" /\ pc'[c] = "releaseAcc" /\ answer' = answer
        /\ rows'[c] \in Success
    BY <1>11, WrittenRow DEF Record, Goto, Types, Told
  <2>2. QED
    BY <2>1 DEF Told, NoRows
<1>12. CASE CoolDown(c)
  <2>1. /\ pc[c] = "coolDown" /\ pc'[c] = "releaseAcc"
        /\ rows' = rows /\ answer' = answer
    BY <1>12 DEF CoolDown, Goto, Types
  <2>2. QED
    BY <2>1 DEF Told
<1>13. CASE ReleaseAcc(c)
  <2>1. /\ pc[c] = "releaseAcc" /\ rows' = rows /\ answer' = answer
        /\ pc'[c] = IF answer[c] = "none" THEN "try" ELSE "releaseKey"
    BY <1>13 DEF ReleaseAcc, Goto, Types
  <2>2. QED
    BY <2>1 DEF Told, NoRows
<1>14. CASE ReleaseKey(c)
  <2>1. /\ pc[c] = "releaseKey" /\ rows' = rows /\ answer' = answer
        /\ pc'[c] = IF answer[c] = "full" THEN "idle" ELSE "fail"
    BY <1>14 DEF ReleaseKey, Return, Goto, Types
  <2>2. QED
    BY <2>1 DEF Told, NoRows
<1>15. CASE Fail(c)
  <2>1. /\ pc[c] = "fail" /\ pc'[c] = "idle"
        /\ rows'[c] \in Failure
        /\ answer'[c] = IF answer[c] = "none" THEN "error" ELSE answer[c]
    BY <1>15, WrittenRow DEF Fail, Return, Goto, Types, Told
  <2>2. QED
    BY <2>1 DEF Told, NoRows
<1>16. QED
  BY <1>1, <1>2, <1>3, <1>4, <1>5, <1>6, <1>7, <1>8, <1>9, <1>10, <1>11, <1>12, <1>13,
     <1>14, <1>15 DEF Request

(* What a step of a request does to the counter of the key, and to those    *)
(* that have counted on it.                                                 *)
LEMMA RequestOnKey ==
  ASSUME Types, NEW c \in Clients, Request(c)
  PROVE  \/ keyCount' = keyCount /\ (pc[c] \in Busy <=> pc'[c] \in Busy)
         \/ keyCount' = keyCount + 1 /\ pc[c] \notin Busy /\ pc'[c] \in Busy
         \/ keyCount' = keyCount - 1 /\ pc[c] \in Busy /\ pc'[c] \notin Busy
<1>1. CASE TakeKey(c)
  <2>1. pc[c] = "idle" /\ pc'[c] \in {"keyOver", "select"} /\ keyCount' = keyCount + 1
    BY <1>1 DEF TakeKey, Fresh, Goto, Types
  <2>2. QED
    BY <2>1 DEF Busy, Steps
<1>2. CASE UndoKey(c) \/ ReleaseKey(c)
  <2>1. /\ pc[c] \in {"keyOver", "releaseKey"} /\ pc'[c] \in {"idle", "fail"}
        /\ keyCount' = keyCount - 1
    BY <1>2 DEF UndoKey, ReleaseKey, Return, Goto, Types
  <2>2. QED
    BY <2>1 DEF Busy, Steps
<1>3. CASE RejectKey(c) \/ RefuseEarly(c) \/ Fail(c)
  <2>1. pc[c] \in {"idle", "fail"} /\ pc'[c] \in {"idle", "fail"} /\ keyCount' = keyCount
    BY <1>3 DEF RejectKey, RefuseEarly, Fail, Fresh, Return, Goto, Types
  <2>2. QED
    BY <2>1 DEF Busy
<1>4. CASE Select(c) \/ Try(c) \/ UndoAcc(c) \/ GiveUp(c) \/ Served(c) \/ Failed(c)
           \/ Mark(c) \/ Record(c) \/ CoolDown(c) \/ ReleaseAcc(c)
  <2>1. keyCount' = keyCount
    BY <1>4 DEF Select, Try, UndoAcc, GiveUp, Served, Failed, Mark, Record, CoolDown, ReleaseAcc
  <2>2. pc[c] \in OnAccount \cup {"select", "try"}
    BY <1>4 DEF Select, Try, UndoAcc, GiveUp, Served, Failed, Mark, Record, CoolDown, ReleaseAcc,
                OnAccount
  <2>3. pc'[c] \in OnAccount \cup {"try", "releaseKey"}
    BY <1>4 DEF Select, Try, UndoAcc, GiveUp, Served, Failed, Mark, Record, CoolDown, ReleaseAcc,
                OnAccount, Goto, Types
  <2>4. QED
    BY <2>1, <2>2, <2>3 DEF Busy, Steps, OnAccount
<1>5. QED
  BY <1>1, <1>2, <1>3, <1>4 DEF Request

LEMMA KeyBalance ==
  ASSUME Types, NEW c \in Clients, Request(c), keyCount = Cardinality(Counted)
  PROVE  keyCount' = Cardinality(Counted')
<1>1. /\ Counted \in SUBSET Clients /\ Counted' \in SUBSET Clients
      /\ Counted \ {c} = Counted' \ {c}
  BY OthersStay DEF Counted
<1>2. (c \in Counted <=> pc[c] \in Busy) /\ (c \in Counted' <=> pc'[c] \in Busy)
  BY DEF Counted
<1>3. QED
  BY <1>1, <1>2, ClientMoves, RequestOnKey

(* What a step of a request does to the counter of an account that has a    *)
(* limit, and to those that have counted on it.                             *)
LEMMA RequestOnAccount ==
  ASSUME Types, NEW c \in Clients, Candidates(c), Request(c), NEW a \in Limited,
         accCount[a] = Cardinality(Using(a))
  PROVE  \/ accCount'[a] = accCount[a] /\ (c \in Using(a) <=> c \in Using(a)')
         \/ accCount'[a] = accCount[a] + 1 /\ c \notin Using(a) /\ c \in Using(a)'
         \/ accCount'[a] = accCount[a] - 1 /\ c \in Using(a) /\ c \notin Using(a)'
<1>1. CASE Try(c)
  <2>1. /\ pc[c] = "try" /\ pc'[c] \in {"accOver", "forward"} /\ cand' = cand
        /\ accCount' = IF AccLimit[Account(c)] = 0 THEN accCount
                       ELSE [accCount EXCEPT ![Account(c)] = accCount[Account(c)] + 1]
    BY <1>1 DEF Try, Goto, Types
  <2>2. /\ c \notin Using(a) /\ (c \in Using(a)' <=> Account(c) = a)
    BY <2>1 DEF Using, OnAccount, Account
  <2>3. a \in Accounts /\ AccLimit[a] # 0
    BY Constants DEF Limited
  <2>4. QED
    BY <2>1, <2>2, <2>3 DEF Types
<1>2. CASE UndoAcc(c)
  <2>1. /\ pc[c] = "accOver" /\ pc'[c] = "try"
        /\ accCount' = [accCount EXCEPT ![Account(c)] = accCount[Account(c)] - 1]
    BY <1>2 DEF UndoAcc, Goto, Types
  <2>2. c \notin Using(a)' /\ (c \in Using(a) <=> Account(c) = a)
    BY <2>1 DEF Using, OnAccount
  <2>3. QED
    BY <2>1, <2>2, Constants DEF Types
<1>3. CASE ReleaseAcc(c)
  <2>1. /\ pc[c] = "releaseAcc" /\ pc'[c] \in {"try", "releaseKey"}
        /\ accCount' = [accCount EXCEPT ![Account(c)] = Lower(Account(c))]
    BY <1>3 DEF ReleaseAcc, Goto, Types
  <2>2. c \notin Using(a)' /\ (c \in Using(a) <=> Account(c) = a)
    BY <2>1 DEF Using, OnAccount
  <2>3. ASSUME Account(c) = a PROVE Lower(a) = accCount[a] - 1
    <3>1. Using(a) \in SUBSET Clients /\ c \in Using(a)
      BY <2>2, <2>3 DEF Using
    <3>2. Cardinality(Using(a)) > 0 /\ Cardinality(Using(a)) \in Nat
      <4>1. IsFiniteSet(Using(a))
        BY <3>1, Constants, FS_Subset
      <4>2. Cardinality(Using(a)) \in Nat /\ Cardinality(Using(a)) # 0
        BY <3>1, <4>1, FS_CardinalityType, FS_EmptySet
      <4>3. QED
        BY <4>2
    <3>3. QED
      BY <3>2, Constants DEF Lower
  <2>4. QED
    BY <2>1, <2>2, <2>3, Constants DEF Types
<1>4. CASE Served(c) \/ Failed(c) \/ Mark(c) \/ Record(c) \/ CoolDown(c)
  <2>1. pc[c] \in OnAccount /\ pc'[c] \in OnAccount
    BY <1>4 DEF Served, Failed, Mark, Record, CoolDown, Goto, Types, OnAccount
  <2>2. cand' = cand /\ accCount' = accCount
    BY <1>4 DEF Served, Failed, Mark, Record, CoolDown
  <2>3. QED
    BY <2>1, <2>2 DEF Using, Account
<1>5. CASE RejectKey(c) \/ RefuseEarly(c) \/ TakeKey(c) \/ UndoKey(c)
  <2>1. pc[c] \notin OnAccount /\ pc'[c] \notin OnAccount /\ accCount' = accCount
    BY <1>5 DEF RejectKey, RefuseEarly, TakeKey, UndoKey, Fresh, Goto, Types, OnAccount
  <2>2. QED
    BY <2>1 DEF Using
<1>6. CASE Select(c) \/ GiveUp(c) \/ ReleaseKey(c) \/ Fail(c)
  <2>1. pc[c] \notin OnAccount /\ pc'[c] \notin OnAccount /\ accCount' = accCount
    BY <1>6 DEF Select, GiveUp, ReleaseKey, Fail, Return, Goto, Types, OnAccount
  <2>2. QED
    BY <2>1 DEF Using
<1>7. QED
  BY <1>1, <1>2, <1>3, <1>4, <1>5, <1>6 DEF Request

LEMMA AccountBalance ==
  ASSUME Types, NEW c \in Clients, Candidates(c), Request(c), NEW a \in Limited,
         accCount[a] = Cardinality(Using(a))
  PROVE  accCount'[a] = Cardinality(Using(a)')
<1>1. /\ Using(a) \in SUBSET Clients /\ Using(a)' \in SUBSET Clients
      /\ Using(a) \ {c} = Using(a)' \ {c}
  BY OthersStay DEF Using, Account
<1>2. QED
  BY <1>1, ClientMoves, RequestOnAccount

LEMMA Initially == Init => IInv
<1>1. SUFFICES ASSUME Init PROVE IInv
  OBVIOUS
<1>2. Types
  BY <1>1, NoCandidates, Constants DEF Init, Types, Steps, NoRows
<1>3. Counted = {} /\ \A a \in Limited : Using(a) = {}
  BY <1>1 DEF Init, Counted, Busy, Using, OnAccount
<1>4. \A c \in Clients : Candidates(c) /\ Told(c)
  BY <1>1, NoCandidates DEF Init, Candidates, Told, OnAccount
<1>5. QED
  BY <1>1, <1>2, <1>3, <1>4, FS_EmptySet, Constants DEF Init, IInv

LEMMA Inductive == IInv /\ [Next]_vars => IInv'
<1>1. SUFFICES ASSUME IInv, [Next]_vars PROVE IInv'
  OBVIOUS
<1>2. ASSUME NEW c \in Clients, Request(c) PROVE IInv'
  <2>1. Types' /\ Candidates(c)' /\ Told(c)'
    BY <1>1, <1>2, RequestTypes, RequestTold DEF IInv
  <2>2. ASSUME NEW d \in Clients \ {c} PROVE Candidates(d)' /\ Told(d)'
    BY <1>1, <1>2, OthersStay DEF IInv, Candidates, Told
  <2>3. keyCount' = Cardinality(Counted')
    BY <1>1, <1>2, KeyBalance DEF IInv
  <2>4. ASSUME NEW a \in Limited PROVE accCount'[a] = Cardinality(Using(a)')
    BY <1>1, <1>2, AccountBalance DEF IInv
  <2>5. QED
    BY <2>1, <2>2, <2>3, <2>4 DEF IInv
<1>3. ASSUME UNCHANGED <<keyCount, accCount, requestVars>>,
             cooling' \subseteq Accounts, fails' \in [Accounts -> 0..UnhealthyAfter]
      PROVE  IInv'
  <2>1. UNCHANGED <<keyCount, accCount, pc, cand, outcome, answer, rows>>
    BY <1>3 DEF requestVars
  <2>2. Types'
    BY <1>1, <1>3, <2>1 DEF IInv, Types
  <2>3. \A c \in Clients : Candidates(c)' /\ Told(c)'
    BY <1>1, <2>1 DEF IInv, Candidates, Told
  <2>4. Counted' = Counted /\ \A a \in Limited : Using(a)' = Using(a)
    BY <2>1 DEF Counted, Using, Account
  <2>5. QED
    BY <1>1, <2>1, <2>2, <2>3, <2>4 DEF IInv
<1>4. ASSUME NEW a \in Accounts, Recover(a) \/ HealthCheck(a) PROVE IInv'
  <2>1. \A n \in 0..UnhealthyAfter : Bump(n) \in 0..UnhealthyAfter
    BY Constants DEF Bump
  <2>2. cooling \subseteq Accounts /\ fails \in [Accounts -> 0..UnhealthyAfter]
    BY <1>1 DEF IInv, Types
  <2>3. cooling' \subseteq Accounts /\ fails' \in [Accounts -> 0..UnhealthyAfter]
    BY <1>4, <2>1, <2>2, Constants DEF Recover, HealthCheck
  <2>4. QED
    BY <1>3, <1>4, <2>3 DEF Recover, HealthCheck
<1>5. CASE UNCHANGED vars
  BY <1>1, <1>3, <1>5 DEF vars, accountVars, IInv, Types
<1>6. QED
  BY <1>1, <1>2, <1>4, <1>5 DEF Next

LEMMA Always == Spec => []IInv
  BY Initially, Inductive, PTL DEF Spec

-----------------------------------------------------------------------------
LEMMA HoldersCount ==
  ASSUME IInv
  PROVE  /\ Counted = {c \in Clients : HoldsKey(c) \/ pc[c] = "keyOver"}
         /\ \A a \in Limited : Using(a) =
               {c \in Clients : HoldsAcc(c, a) \/ (pc[c] = "accOver" /\ Account(c) = a)}
         /\ IsFiniteSet(Counted) /\ \A a \in Limited : IsFiniteSet(Using(a))
<1>1. \A c \in Clients : pc[c] \in Steps
  BY DEF IInv, Types
<1>2. Counted \in SUBSET Clients /\ \A a \in Limited : Using(a) \in SUBSET Clients
  BY DEF Counted, Using
<1>3. QED
  BY <1>1, <1>2, Constants, FS_Subset DEF Counted, Busy, Steps, HoldsKey, Using, OnAccount, HoldsAcc

(* Every way out of the pipeline gives back what was taken, on the key and  *)
(* on every account with a limit, with any number of requests in flight and *)
(* whatever fails (acquireSlot / releaseSlot, tryAcquireAccount /           *)
(* releaseAccount).                                                         *)
THEOREM SlotsAreBalanced == Spec => []SlotsBalance
<1>1. IInv => SlotsBalance
  BY HoldersCount DEF IInv, SlotsBalance
<1>2. QED
  BY <1>1, Always, PTL

(* A request writes its usage at most once and the row says what the caller *)
(* got: success after a whole answer, failure after none or a cut one.  An  *)
(* answered request without a row had its write swallowed (handle's outer   *)
(* catch, recordUsage).                                                     *)
THEOREM AnswersAreOnRecord == Spec => []AnswersOnRecord
<1>1. IInv => AnswersOnRecord
  <2>1. SUFFICES ASSUME IInv PROVE AnswersOnRecord
    OBVIOUS
  <2>2. TypeInv
    <3>1. keyCount \in Nat
      BY <2>1, HoldersCount, FS_CardinalityType DEF IInv
    <3>2. QED
      BY <2>1, <3>1 DEF IInv, Types, TypeInv, Candidates
  <2>3. OneUsageRow
    BY <2>1 DEF IInv, Told, OneUsageRow, NoRows, Success, Failure, Lost
  <2>4. QED
    BY <2>2, <2>3 DEF AnswersOnRecord
<1>2. QED
  BY <1>1, Always, PTL

(* A request of which the caller has seen a byte is not forwarded again     *)
(* (handle, the loop over candidates).                                      *)
THEOREM NoSecondAnswerEver == Spec => NoSecondAnswer
<1>1. IInv /\ [Next]_vars =>
         [\A c \in Clients :
             pc'[c] = "forward" /\ pc[c] # "forward" => answer[c] = "none"]_vars
  <2>1. SUFFICES ASSUME IInv, Next, NEW c \in Clients, pc'[c] = "forward", pc[c] # "forward"
                 PROVE  answer[c] = "none"
    OBVIOUS
  <2>2. Request(c)
    <3>1. ASSUME NEW d \in Clients, Request(d) PROVE d = c
      BY <2>1, <3>1, OthersStay DEF IInv
    <3>2. ASSUME NEW a \in Accounts, Recover(a) \/ HealthCheck(a) PROVE FALSE
      BY <2>1, <3>2 DEF Recover, HealthCheck, requestVars
    <3>3. QED
      BY <2>1, <3>1, <3>2 DEF Next
  <2>3. Types /\ Told(c)
    BY <2>1 DEF IInv
  <2>4. pc[c] = "try"
    <3>1. CASE RejectKey(c) \/ RefuseEarly(c) \/ TakeKey(c) \/ UndoKey(c) \/ Select(c)
      BY <2>1, <2>3, <3>1 DEF RejectKey, RefuseEarly, TakeKey, UndoKey, Select, Fresh, Goto, Types
    <3>2. CASE Try(c)
      BY <3>2 DEF Try
    <3>3. CASE UndoAcc(c) \/ GiveUp(c) \/ Served(c) \/ Failed(c) \/ Mark(c) \/ Record(c)
      BY <2>1, <2>3, <3>3 DEF UndoAcc, GiveUp, Served, Failed, Mark, Record, Goto, Types
    <3>4. CASE CoolDown(c) \/ ReleaseAcc(c) \/ ReleaseKey(c) \/ Fail(c)
      BY <2>1, <2>3, <3>4 DEF CoolDown, ReleaseAcc, ReleaseKey, Fail, Return, Goto, Types
    <3>5. QED
      BY <2>2, <3>1, <3>2, <3>3, <3>4 DEF Request
  <2>5. QED
    BY <2>3, <2>4 DEF Told
<1>2. QED
  BY <1>1, Always, PTL DEF Spec, NoSecondAnswer

-----------------------------------------------------------------------------
(* The gates as semaphores.                                                 *)

Holders == {c \in Clients : HoldsKey(c)}

LEMMA KeyGateCardinality == \A S : KeyGate!Cardinality(S) = Cardinality(S)
  BY DEF KeyGate!Cardinality, Cardinality

(* Those inside are among those counted: who enters finds room.             *)
LEMMA EnterKey ==
  ASSUME IInv, NEW c \in Clients, Request(c), ~HoldsKey(c), HoldsKey(c)'
  PROVE  Cardinality(Holders) < KeyLimit /\ Holders' = Holders \cup {c}
<1>1. Types /\ keyCount = Cardinality(Counted)
  BY DEF IInv
<1>2. TakeKey(c)
  <2>1. pc[c] \in {"idle", "keyOver", "fail"} /\ pc'[c] \notin {"idle", "keyOver", "fail"}
    BY DEF HoldsKey
  <2>2. CASE RejectKey(c) \/ RefuseEarly(c) \/ UndoKey(c) \/ Fail(c)
    BY <1>1, <2>1, <2>2 DEF RejectKey, RefuseEarly, UndoKey, Fail, Fresh, Return, Goto, Types
  <2>3. CASE Select(c) \/ Try(c) \/ UndoAcc(c) \/ GiveUp(c) \/ Served(c) \/ Failed(c)
             \/ Mark(c) \/ Record(c) \/ CoolDown(c) \/ ReleaseAcc(c) \/ ReleaseKey(c)
    BY <2>1, <2>3 DEF Select, Try, UndoAcc, GiveUp, Served, Failed, Mark, Record, CoolDown,
                      ReleaseAcc, ReleaseKey
  <2>4. QED
    BY <2>2, <2>3 DEF Request
<1>3. keyCount + 1 <= KeyLimit
  <2>1. pc'[c] = IF keyCount + 1 > KeyLimit THEN "keyOver" ELSE "select"
    BY <1>1, <1>2 DEF TakeKey, Goto, Types
  <2>2. ~(keyCount + 1 > KeyLimit)
    BY <2>1 DEF HoldsKey
  <2>3. QED
    BY <1>1, <2>2, Constants DEF Types
<1>4. Holders \in SUBSET Counted /\ IsFiniteSet(Counted)
  BY HoldersCount DEF Holders
<1>5. /\ Cardinality(Holders) <= Cardinality(Counted)
      /\ Cardinality(Holders) \in Nat /\ Cardinality(Counted) \in Nat
  BY <1>4, FS_Subset, FS_CardinalityType
<1>6. Holders' = Holders \cup {c}
  <2>1. \A d \in Clients \ {c} : HoldsKey(d)' <=> HoldsKey(d)
    BY <1>1, OthersStay DEF HoldsKey
  <2>2. QED
    BY <2>1 DEF Holders
<1>7. QED
  BY <1>1, <1>3, <1>5, <1>6, Constants

(* Whatever the rest of the pipeline does, the gate of the key is a         *)
(* semaphore of KeyLimit (KEY gate: acquireSlot, releaseSlot).              *)
LEMMA KeyGateRefines == Spec => KeyIsSemaphore
<1>1. Init => KeyGate!Init
  BY DEF Init, KeyGate!Init, HoldsKey
<1>2. IInv /\ [Next]_vars => [KeyGate!Next]_(<<Holders, 0>>)
  <2>1. SUFFICES ASSUME IInv, [Next]_vars, Holders' # Holders PROVE KeyGate!Next
    OBVIOUS
  <2>2. PICK c \in Clients : Request(c)
    <3>1. UNCHANGED pc => Holders' = Holders
      BY DEF Holders, HoldsKey
    <3>2. (\E a \in Accounts : Recover(a) \/ HealthCheck(a)) \/ UNCHANGED vars => UNCHANGED pc
      BY DEF Recover, HealthCheck, requestVars, vars
    <3>3. QED
      BY <2>1, <3>1, <3>2 DEF Next
  <2>3. \A d \in Clients \ {c} : HoldsKey(d)' <=> HoldsKey(d)
    BY <2>1, <2>2, OthersStay DEF IInv, HoldsKey
  <2>4. CASE ~HoldsKey(c) /\ HoldsKey(c)'
    <3>1. Cardinality(Holders) < KeyLimit + 0 /\ Holders' = Holders \cup {c} /\ c \notin Holders
      BY <2>1, <2>2, <2>4, EnterKey, Constants DEF Holders
    <3>2. KeyGate!Acquire(c)
      BY <3>1, KeyGateCardinality DEF KeyGate!Acquire, Holders
    <3>3. QED
      BY <3>2 DEF KeyGate!Next
  <2>5. CASE HoldsKey(c)' => HoldsKey(c)
    <3> DEFINE S == Holders \ Holders'
    <3>1. S \in SUBSET Clients /\ S \subseteq Holders /\ Holders' = Holders \ S
      BY <2>3, <2>5 DEF Holders
    <3>2. KeyGate!Release(S)
      BY <3>1 DEF KeyGate!Release, Holders
    <3>3. QED
      BY <3>1, <3>2 DEF KeyGate!Next
  <2>6. QED
    BY <2>4, <2>5
<1>3. QED
  BY <1>1, <1>2, Always, PTL DEF Spec, KeyIsSemaphore, KeyGate!Spec, Holders

LEMMA AccountGateCardinality == \A a, S : AccountGate(a)!Cardinality(S) = Cardinality(S)
  BY DEF AccountGate!Cardinality, Cardinality

LEMMA EnterAccount ==
  ASSUME IInv, NEW c \in Clients, Request(c), NEW a \in Limited, ~HoldsAcc(c, a), HoldsAcc(c, a)'
  PROVE  Cardinality(AccHolders(a)) < AccLimit[a]
<1>1. Types /\ accCount[a] = Cardinality(Using(a)) /\ a \in Accounts /\ AccLimit[a] \in Nat \ {0}
  BY Constants DEF IInv, Limited
<1>2. /\ pc'[c] \in {"forward", "mark", "record", "coolDown", "releaseAcc"}
      /\ Head(cand'[c]) = a
  BY DEF HoldsAcc, Account
<1>3. Try(c)
  <2>1. CASE RejectKey(c) \/ RefuseEarly(c) \/ TakeKey(c) \/ UndoKey(c) \/ Select(c)
    BY <1>1, <1>2, <2>1 DEF RejectKey, RefuseEarly, TakeKey, UndoKey, Select, Fresh, Goto, Types
  <2>2. CASE UndoAcc(c) \/ GiveUp(c) \/ ReleaseAcc(c) \/ ReleaseKey(c) \/ Fail(c)
    BY <1>1, <1>2, <2>2 DEF UndoAcc, GiveUp, ReleaseAcc, ReleaseKey, Fail, Return, Goto, Types
  <2>3. CASE Served(c) \/ Failed(c) \/ Mark(c) \/ Record(c) \/ CoolDown(c)
    <3>1. cand' = cand /\ pc[c] \in {"forward", "mark", "record", "coolDown"}
      BY <2>3 DEF Served, Failed, Mark, Record, CoolDown
    <3>2. QED
      BY <1>2, <3>1 DEF HoldsAcc, Account
  <2>4. QED
    BY <2>1, <2>2, <2>3 DEF Request
<1>4. accCount[a] + 1 <= AccLimit[a]
  <2>1. /\ cand' = cand /\ Account(c) = a
        /\ pc'[c] = IF AccLimit[a] = 0 THEN "forward"
                    ELSE IF accCount[a] + 1 > AccLimit[a] THEN "accOver" ELSE "forward"
    BY <1>1, <1>2, <1>3 DEF Try, Goto, Types, Account
  <2>2. ~(accCount[a] + 1 > AccLimit[a])
    BY <1>1, <1>2, <2>1
  <2>3. QED
    BY <1>1, <2>2 DEF Types
<1>5. AccHolders(a) \in SUBSET Using(a) /\ IsFiniteSet(Using(a))
  BY HoldersCount DEF AccHolders
<1>6. /\ Cardinality(AccHolders(a)) <= Cardinality(Using(a))
      /\ Cardinality(AccHolders(a)) \in Nat /\ Cardinality(Using(a)) \in Nat
  BY <1>5, FS_Subset, FS_CardinalityType
<1>7. QED
  BY <1>1, <1>4, <1>6

(* However requests fail over between accounts, the gate of an account with *)
(* a limit is a semaphore of that limit.                                    *)
LEMMA AccountGatesRefine == Spec => AccountsAreSemaphores
<1>1. Init => \A a \in Limited : AccountGate(a)!Init
  BY DEF Init, AccountGate!Init, AccHolders, HoldsAcc
<1>2. IInv /\ [Next]_vars =>
         [\A a \in Limited : [AccountGate(a)!Next]_(AccHolders(a))]_vars
  <2>1. SUFFICES ASSUME IInv, Next, NEW a \in Limited, AccHolders(a)' # AccHolders(a)
                 PROVE  AccountGate(a)!Next
    OBVIOUS
  <2>2. PICK c \in Clients : Request(c)
    <3>1. UNCHANGED <<pc, cand>> => AccHolders(a)' = AccHolders(a)
      BY DEF AccHolders, HoldsAcc, Account
    <3>2. (\E b \in Accounts : Recover(b) \/ HealthCheck(b)) => UNCHANGED <<pc, cand>>
      BY DEF Recover, HealthCheck, requestVars
    <3>3. QED
      BY <2>1, <3>1, <3>2 DEF Next
  <2>3. \A d \in Clients \ {c} : HoldsAcc(d, a)' <=> HoldsAcc(d, a)
    BY <2>1, <2>2, OthersStay DEF IInv, HoldsAcc, Account
  <2>4. CASE ~HoldsAcc(c, a) /\ HoldsAcc(c, a)'
    <3>1. Cardinality(AccHolders(a)) < AccLimit[a] + 0
      BY <2>1, <2>2, <2>4, EnterAccount, Constants DEF Limited
    <3>2. AccHolders(a)' = AccHolders(a) \cup {c} /\ c \notin AccHolders(a)
      BY <2>3, <2>4 DEF AccHolders
    <3>3. AccountGate(a)!Acquire(c)
      BY <3>1, <3>2, AccountGateCardinality DEF AccountGate!Acquire
    <3>4. QED
      BY <3>3 DEF AccountGate!Next
  <2>5. CASE HoldsAcc(c, a)' => HoldsAcc(c, a)
    <3> DEFINE S == AccHolders(a) \ AccHolders(a)'
    <3>1. S \in SUBSET Clients /\ S \subseteq AccHolders(a) /\ AccHolders(a)' = AccHolders(a) \ S
      BY <2>3, <2>5 DEF AccHolders
    <3>2. AccountGate(a)!Release(S)
      BY <3>1 DEF AccountGate!Release
    <3>3. QED
      BY <3>1, <3>2 DEF AccountGate!Next
  <2>6. QED
    BY <2>4, <2>5
<1>3. QED
  BY <1>1, <1>2, Always, PTL DEF Spec, AccountsAreSemaphores

(* The key gate admits at most KeyLimit requests over the whole pipeline,   *)
(* and every account with a limit forwards at most so many at a time,       *)
(* through every failover, failure and cut stream: both implement the       *)
(* semaphore of Semaphore (ai-gateway.controller.ts, handle).               *)
THEOREM GatesAreSemaphoresAlways == Spec => GatesAreSemaphores
  BY KeyGateRefines, AccountGatesRefine DEF GatesAreSemaphores
=============================================================================
