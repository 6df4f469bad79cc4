----------------------------- MODULE StudentNo ------------------------------
(***************************************************************************)
(* The student number (学籍号), which students, parents and the            *)
(* mini-program sign in with: given by the code rule when a record is      *)
(* created without one or by the batch fill, typed in by staff, and used   *)
(* as the key of a password account.  Every operation reads the table and  *)
(* writes later, and nothing but these reads keeps two students from       *)
(* having the same number.  One rule, one group of serials with start and  *)
(* step 1; numbers are their serials.  Some students also have a record    *)
(* number (学生编号), which no form writes; an account goes by either.     *)
(***************************************************************************)
EXTENDS Integers, FiniteSets, SequencesExt

CONSTANTS
    Staff,        \* requests that run at the same time
    MaxStudents,  \* bound on the records ever created
    MaxNo,        \* bound on the numbers
    Retry,        \* conflictRetry of the rule
    Coded         \* the students with a record number; written as a number it is their id

NosAreFinite ==
    /\ IsFiniteSet(Staff) /\ MaxStudents \in Nat /\ MaxNo \in Nat /\ Retry \in Nat
    /\ Coded \subseteq 1..MaxStudents /\ Coded \subseteq 1..MaxNo

VARIABLES
    rule,     \* does its prefix match the numbers on record; what to do when one is taken
    no,       \* the number of each student
    made,     \* records created so far; the newest has the highest id
    account,  \* the student each number's password account belongs to
    op,       \* where each request stands
    raced     \* numbers on record that an overtaken request has written

vars == <<rule, no, made, account, op, raced>>

Pupils  == 1..MaxStudents
Numbers  == 1..MaxNo
Absent   == -1
Blank    == 0
Nobody   == 0

Rules == [collects : BOOLEAN, conflict : {"next", "error"}]
Steps == {"idle", "generate", "check", "write", "fill", "account", "admin"}
Idle  == [step |-> "idle", id |-> 0, num |-> Blank, plan |-> <<>>, stale |-> FALSE]

TypeInv ==
    /\ rule \in Rules
    /\ no \in [Pupils -> {Absent, Blank} \cup Numbers]
    /\ made \in 0..MaxStudents
    /\ account \in [Numbers -> {Nobody} \cup Pupils]
    /\ \A p \in Staff :
          /\ op[p].step \in Steps
          /\ op[p].id \in {0} \cup Pupils
          /\ op[p].num \in {Blank} \cup Numbers
          /\ op[p].plan \in BoundedSeq(Pupils \X Numbers, MaxStudents)
          /\ op[p].stale \in BOOLEAN
    /\ raced \subseteq Numbers

Init ==
    /\ rule \in Rules
    /\ no = [s \in Pupils |-> Absent]
    /\ made = 0
    /\ account = [n \in Numbers |-> Nobody]
    /\ op = [p \in Staff |-> Idle]
    /\ raced = {}

-----------------------------------------------------------------------------
OnRecord == {no[s] : s \in Pupils} \cap Numbers

(* Student s is on record with the record number n; with n as either kind.  *)
HasCode(s, n) == s \in Coded /\ no[s] # Absent /\ n = s
Has(s, n)     == no[s] = n \/ HasCode(s, n)

(* generateCode: one more than the highest number that matches the prefix,  *)
(* or the first one when none does; if that is taken, nothing at all or the *)
(* first free one of the next Retry + 1.  Numbers stay within MaxNo.        *)
GenerateCode(used) ==
    LET base  == IF rule.collects /\ used # {} THEN Max(used) + 1 ELSE 1
        tries == IF rule.conflict = "error" THEN {base} ELSE base..(base + Retry + 1)
        free  == (tries \cap Numbers) \ used
    IN  IF free = {} THEN Blank ELSE Min(free)

(* The plan so far with a number for student s, counted as used; without    *)
(* one if none is found.                                                    *)
Extend(plan, s) ==
    LET n == GenerateCode(OnRecord \cup {plan[i][2] : i \in DOMAIN plan})
    IN  IF n = Blank THEN plan ELSE Append(plan, <<s, n>>)

(* Mutant: the batch renumbers the students that have a number as well. *)
BuildFill_All(refused) ==
    LET plan[k \in 0..MaxStudents] ==
            LET s == MaxStudents + 1 - k
            IN  IF k = 0 THEN <<>>
                ELSE IF no[s] # Absent /\ s \notin refused THEN Extend(plan[k - 1], s) ELSE plan[k - 1]
    IN  plan[MaxStudents]

(* buildFill: a number for every blank, newest record first, except those   *)
(* whose record lacks a field of the rule or has a value it does not map;   *)
(* plan[k] is for the k highest ids.                                        *)
BuildFill(refused) ==
    LET plan[k \in 0..MaxStudents] ==
            LET s == MaxStudents + 1 - k
            IN  IF k = 0 THEN <<>>
                ELSE IF no[s] = Blank /\ s \notin refused THEN Extend(plan[k - 1], s) ELSE plan[k - 1]
    IN  plan[MaxStudents]

Moves(p, record) == op' = [op EXCEPT ![p] = record]

(* The record of student s gets number n: whoever has read the table and    *)
(* not yet written is overtaken.                                            *)
Puts(p, s, n, record) ==
    /\ no' = [no EXCEPT ![s] = n]
    /\ op' = [q \in Staff |-> IF q = p THEN record
                              ELSE [op[q] EXCEPT !.stale = op[q].step \in {"write", "fill", "account", "admin"}]]
    /\ raced' = {no'[t] : t \in Pupils} \cap (IF op[p].stale THEN raced \cup ({n} \cap Numbers) ELSE raced)

-----------------------------------------------------------------------------
(* A form is submitted, with a number (0: none): for a new student or for   *)
(* one on record.                                                           *)
Submit(p) ==
    /\ op[p].step = "idle"
    /\ \E id \in {0} \cup {s \in Pupils : no[s] # Absent}, n \in {Blank} \cup Numbers :
          Moves(p, [Idle EXCEPT !.step = IF id = 0 /\ n = Blank THEN "generate" ELSE "check",
                                !.id = id, !.num = n])
    /\ UNCHANGED <<rule, no, made, account, raced>>

(* generateFor: no number is not an error, whether the rule refuses the     *)
(* record or the table cannot be read.                                      *)
Generate(p) ==
    /\ op[p].step = "generate"
    /\ \E n \in {GenerateCode(OnRecord), Blank} : Moves(p, [Idle EXCEPT !.step = "check", !.num = n])
    /\ UNCHANGED <<rule, no, made, account, raced>>

(* Mutant: only new students are checked. *)
Check_OnlyNew(p) ==
    /\ op[p].step = "check"
    /\ IF op[p].num # Blank /\ op[p].id = 0 /\ \E s \in Pupils : no[s] = op[p].num
       THEN Moves(p, Idle)
       ELSE Moves(p, [op[p] EXCEPT !.step = "write"])
    /\ UNCHANGED <<rule, no, made, account, raced>>

(* assertStudentNoUnique: another student has the number, refused. *)
Check(p) ==
    /\ op[p].step = "check"
    /\ IF op[p].num # Blank /\ \E s \in Pupils \ {op[p].id} : no[s] = op[p].num
       THEN Moves(p, Idle)
       ELSE Moves(p, [op[p] EXCEPT !.step = "write"])
    /\ UNCHANGED <<rule, no, made, account, raced>>

(* base.create *)
Insert(p) ==
    /\ op[p].step = "write" /\ op[p].id = 0
    /\ made < MaxStudents
    /\ made' = made + 1
    /\ Puts(p, made + 1, op[p].num, Idle)
    /\ UNCHANGED <<rule, account>>

(* base.update: the UPDATE of a record that is gone changes no row. *)
Write(p) ==
    /\ op[p].step = "write" /\ op[p].id # 0
    /\ IF no[op[p].id] = Absent
       THEN Moves(p, Idle) /\ UNCHANGED <<no, raced>>
       ELSE Puts(p, op[p].id, op[p].num, Idle)
    /\ UNCHANGED <<rule, made, account>>

(* archive: the record is deleted; the account of its number stays. *)
Delete(p) ==
    /\ op[p].step = "idle"
    /\ \E s \in Pupils :
          /\ no[s] # Absent
          /\ Puts(p, s, Absent, Idle)
    /\ UNCHANGED <<rule, made, account>>

(* fill: the plan is made from one reading of the table. *)
PlanFill(p) ==
    /\ op[p].step = "idle"
    /\ \E refused \in SUBSET Pupils :
          /\ BuildFill(refused) # <<>>
          /\ Moves(p, [Idle EXCEPT !.step = "fill", !.plan = BuildFill(refused)])
    /\ UNCHANGED <<rule, no, made, account, raced>>

(* fill writes row after row, whatever has become of the record; a write    *)
(* that fails is passed over.                                               *)
FillRow(p) ==
    /\ op[p].step = "fill"
    /\ LET s    == op[p].plan[1][1]
           rest == Tail(op[p].plan)
           left == IF rest = <<>> THEN Idle ELSE [op[p] EXCEPT !.plan = rest]
       IN  \/ Moves(p, left) /\ UNCHANGED <<no, raced>>
           \/ no[s] # Absent /\ Puts(p, s, op[p].plan[1][2], left)
    /\ UNCHANGED <<rule, made, account>>

(* Mutant: the name alone finds the student. *)
FindStudent_ByName(p) ==
    /\ op[p].step = "idle"
    /\ \E s \in Pupils, n \in Numbers :
          /\ no[s] # Absent
          /\ Moves(p, [Idle EXCEPT !.step = "account", !.id = s, !.num = n])
    /\ UNCHANGED <<rule, no, made, account, raced>>

(* setPassword, findStudent: a record with this name and this number, be it *)
(* the record number or the student number.                                 *)
FindStudent(p) ==
    /\ op[p].step = "idle"
    /\ \E s \in Pupils, n \in Numbers :
          /\ Has(s, n)
          /\ Moves(p, [Idle EXCEPT !.step = "account", !.id = s, !.num = n])
    /\ UNCHANGED <<rule, no, made, account, raced>>

(* setPasswordByAdmin, findByNo: any number typed in; the student with this *)
(* record number, or none.                                                  *)
FindByNo(p) ==
    /\ op[p].step = "idle"
    /\ \E n \in Numbers :
          LET found == {s \in Pupils : HasCode(s, n)}
          IN  \E s \in (IF found = {} THEN {Nobody} ELSE found) :
                 Moves(p, [Idle EXCEPT !.step = "admin", !.id = s, !.num = n])
    /\ UNCHANGED <<rule, no, made, account, raced>>

(* setPassword, setPasswordByAdmin: the account of the number becomes this  *)
(* student's, or nobody's.  (Whose it was does not matter.)                 *)
SetPassword(p) ==
    /\ op[p].step \in {"account", "admin"}
    /\ account' = [account EXCEPT ![op[p].num] = op[p].id]
    /\ Moves(p, Idle)
    /\ UNCHANGED <<rule, no, made, raced>>

Next ==
    \E p \in Staff :
        \/ Submit(p) \/ Generate(p) \/ Check(p) \/ Insert(p) \/ Write(p) \/ Delete(p)
        \/ PlanFill(p) \/ FillRow(p)
        \/ FindStudent(p) \/ FindByNo(p) \/ SetPassword(p)

Spec == Init /\ [][Next]_vars

-----------------------------------------------------------------------------
(* Two students have the same number only if a request wrote it after       *)
(* another had changed the table it had read: whatever the rule and the     *)
(* order of forms, batches and deletions, requests that do not overlap keep *)
(* the numbers apart (assertStudentNoUnique; student.service.ts:620).       *)
NumbersUnique ==
    \A s, t \in Pupils : s # t /\ no[s] = no[t] /\ no[s] \in Numbers => no[s] \in raced

(* A number a student has is changed by the batch fill only when the fill   *)
(* was overtaken: it is for blanks only (code-rules.service.ts:214).        *)
FillKeepsNumbers ==
    [][\A p \in Staff, s \in Pupils :
          op[p].plan # op'[p].plan /\ op[p].plan # <<>> /\ no[s] \in Numbers /\ no'[s] # no[s]
             => op[p].stale]_vars

(* Who gets the account of a number: by name, a student who has it; by the  *)
(* administrator, the student whose record number it is, or nobody.  And    *)
(* nobody loses it by name to another student while having the number,      *)
(* unless both have it: given in overlapping requests, or one as the        *)
(* student number and the other as the record number.  Only a call that was *)
(* overtaken may do otherwise (student-auth.service.ts:82, 251).            *)
AccountsFollowNumbers ==
    [][\A n \in Numbers :
          account'[n] # account[n]
             => \E p \in Staff :
                   /\ op[p].step \in {"account", "admin"} /\ op[p].num = n /\ op'[p].step = "idle"
                   /\ \/ op[p].stale
                      \/ /\ op[p].step = "admin"
                         /\ account'[n] = Nobody \/ HasCode(account'[n], n)
                      \/ /\ op[p].step = "account"
                         /\ account'[n] \in Pupils /\ Has(account'[n], n)
                         /\ account[n] # Nobody /\ Has(account[n], n)
                               => n \in raced \/ HasCode(account[n], n) \/ HasCode(account'[n], n)]_vars
=============================================================================
