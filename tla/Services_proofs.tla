--------------------------- MODULE Services_proofs --------------------------
(***************************************************************************)
(* Proofs about the services in which callers overlap (Services), for      *)
(* every set of callers, students, rooms and contacts: what a call that    *)
(* nobody overtook may do to what others have stored, and what is left to  *)
(* one that was overtaken.                                                 *)
(***************************************************************************)
EXTENDS Services, FiniteSetTheorems, SequenceTheorems,
        WellFoundedInduction, TLAPS

-----------------------------------------------------------------------------
(* Links of a mail (MailLinks).                                            *)
LEMMA LinkCounts ==
    None \notin Students /\ MaxLinkEdits \in Nat /\ MaxAlls \in Nat /\ MaxMatches \in Nat
  BY LinksAssumption DEF Links!LinksAssumption

Lists   == [students : SUBSET Students, contacts : SUBSET Contacts]
Indices == [Contacts -> Students \cup {None}]
UserType == [at : {"idle", "get", "first", "index", "update"}, all : BOOLEAN, read : Lists,
             idx : Indices, late : BOOLEAN]

(* A caller that is about to write has in hand what the mail says, unless   *)
(* somebody has written it since the caller read.                          *)
MailInv ==
    /\ mail \in Lists /\ studentOf \in Indices /\ linkEdits \in Nat
    /\ contactIdx = {} \/ \E i \in Indices : contactIdx = {i}
    /\ user \in [Requests -> UserType]
    /\ \A u \in Requests : user[u].at = "idle" => user[u] = Links!Idle
    /\ \A u \in Requests : user[u].at \in {"index", "update"} /\ ~ user[u].late
                             => user[u].read = mail

(* What follows from two lists by an index contains them, and after the     *)
(* first of the three rounds nothing is added.                             *)
LEMMA GrowAdds ==
    ASSUME NEW m \in Lists, NEW i \in Indices
    PROVE  /\ Links!Grow(m, i) \in Lists
           /\ m.students \subseteq Links!Grow(m, i).students
           /\ m.contacts \subseteq Links!Grow(m, i).contacts
           /\ Links!Grow(m, i).students = m.students \cup ({i[c] : c \in m.contacts} \ {None})
           /\ Links!Grow(m, i).contacts =
                m.contacts \cup {c \in Contacts : i[c] \in Links!Grow(m, i).students}
  BY LinkCounts DEF Links!Grow, Links!Matched, Lists, Indices

LEMMA GrowsOnce ==
    ASSUME NEW m \in Lists, NEW i \in Indices
    PROVE  Links!Grow(Links!Grow(m, i), i) = Links!Grow(m, i)
  <1> DEFINE a == Links!Grow(m, i)
             b == Links!Grow(a, i)
  <1>1. a \in Lists /\ a.students = m.students \cup ({i[c] : c \in m.contacts} \ {None})
        /\ a.contacts = m.contacts \cup {c \in Contacts : i[c] \in a.students}
    BY GrowAdds
  <1> HIDE DEF a
  <1>2. b \in Lists /\ b.students = a.students \cup ({i[c] : c \in a.contacts} \ {None})
        /\ b.contacts = a.contacts \cup {c \in Contacts : i[c] \in b.students}
    BY <1>1, GrowAdds
  <1> HIDE DEF b
  <1>3. b.students = a.students BY <1>1, <1>2
  <1>4. b.contacts = a.contacts BY <1>1, <1>2, <1>3
  <1>5. b = a BY <1>1, <1>2, <1>3, <1>4 DEF Lists
  <1> QED BY <1>5 DEF a, b

LEMMA Reconciled ==
    ASSUME NEW m \in Lists, NEW i \in Indices
    PROVE  /\ Links!reconcileFields(m, i) = Links!Grow(m, i)
           /\ Links!reconcileFields(m, i) \in Lists
           /\ m.students \subseteq Links!reconcileFields(m, i).students
           /\ m.contacts \subseteq Links!reconcileFields(m, i).contacts
           /\ m = Links!Empty => Links!reconcileFields(m, i) = Links!Empty
           /\ \A c \in Links!reconcileFields(m, i).contacts :
                i[c] \in Links!reconcileFields(m, i).students \cup {None}
           /\ \A c \in Contacts : i[c] \in Links!reconcileFields(m, i).students
                => c \in Links!reconcileFields(m, i).contacts
  <1> DEFINE g == Links!Grow(m, i)
  <1>1. Links!reconcileFields(m, i) = g BY GrowAdds, GrowsOnce DEF Links!reconcileFields
  <1>2. /\ g \in Lists /\ m.students \subseteq g.students /\ m.contacts \subseteq g.contacts
        /\ g.students = m.students \cup ({i[c] : c \in m.contacts} \ {None})
        /\ g.contacts = m.contacts \cup {c \in Contacts : i[c] \in g.students}
    BY GrowAdds
  <1>3. m = Links!Empty => g = Links!Empty BY LinkCounts DEF Links!Grow, Links!Matched, Links!Empty, Indices
  <1> HIDE DEF g
  <1>4. \A c \in g.contacts : i[c] \in g.students \cup {None}
    <2> TAKE c \in g.contacts
    <2>1. c \in Contacts /\ i[c] \in Students \cup {None} BY <1>2 DEF Lists, Indices
    <2>2. CASE c \in m.contacts
      <3>1. i[c] \in {i[d] : d \in m.contacts} BY <2>2
      <3> QED BY <1>2, <3>1
    <2>3. CASE i[c] \in g.students BY <2>3
    <2> QED BY <1>2, <2>2, <2>3
  <1>5. \A c \in Contacts : i[c] \in g.students => c \in g.contacts BY <1>2
  <1>6. m = Links!Empty => Links!reconcileFields(m, i) = Links!Empty BY <1>1, <1>3
  <1> QED BY <1>1, <1>2, <1>4, <1>5, <1>6 DEF g

LEMMA MailInit == Links!Init => MailInv
  <1> SUFFICES ASSUME Links!Init PROVE MailInv OBVIOUS
  <1>1. Links!Idle \in UserType /\ Links!Idle.at = "idle"
    BY DEF Links!Idle, UserType, Links!Empty, Links!Nobody, Lists, Indices
  <1>2. mail \in Lists /\ studentOf \in Indices BY DEF Links!Init, Links!Empty, Lists, Indices
  <1> QED BY <1>1, <1>2 DEF Links!Init, MailInv

(* One caller moves on, and if the mail is written the others are late.    *)
LEMMA UserMoves ==
    ASSUME MailInv, NEW u \in Requests, NEW j \in UserType, user' = [user EXCEPT ![u] = j]
    PROVE  user' \in [Requests -> UserType] /\ user'[u] = j
           /\ \A v \in Requests \ {u} : user'[v] = user[v]
  BY DEF MailInv

LEMMA UserWrites ==
    ASSUME MailInv, NEW u \in Requests, NEW j \in UserType, Links!Written(u, j)
    PROVE  /\ user' \in [Requests -> UserType] /\ user'[u] = j
           /\ \A v \in Requests \ {u} :
                /\ user'[v].at = user[v].at /\ user'[v].read = user[v].read
                /\ user[v].at \in {"index", "update"} => user'[v].late
                /\ user[v].at \notin {"index", "update"} => user'[v] = user[v]
  <1> DEFINE late(v) == user[v].late \/ user[v].at \in {"index", "update"}
             k(v) == [user[v] EXCEPT !.late = late(v)]
  <1>1. \A v \in Requests : user[v] \in UserType BY DEF MailInv
  <1>2. \A v \in Requests : k(v) \in UserType /\ k(v).at = user[v].at
           /\ k(v).read = user[v].read /\ k(v).late = late(v)
           /\ (late(v) = user[v].late => k(v) = user[v])
    BY <1>1 DEF UserType
  <1>3. user' = [v \in Requests |-> IF v = u THEN j ELSE k(v)] BY DEF Links!Written
  <1>4. \A v \in Requests : user[v].at \notin {"index", "update"} => late(v) = user[v].late
    BY <1>1 DEF UserType
  <1> HIDE DEF k
  <1> QED BY <1>2, <1>3, <1>4

LEMMA AfterLink ==
    ASSUME MailInv, NEW u \in Requests, Links!Link(u)
    PROVE  MailInv' /\ linkEdits' # linkEdits
  <1> DEFINE j == [Links!Idle EXCEPT !.at = "get"]
  <1>1. j \in UserType /\ j.at = "get"
    BY DEF Links!Idle, UserType, Links!Empty, Links!Nobody, Lists, Indices
  <1>2. Links!Written(u, j) BY DEF Links!Link
  <1> HIDE DEF j
  <1>3. mail' \in Lists BY DEF MailInv, Links!Link, Lists
  <1>4. /\ user' \in [Requests -> UserType] /\ user'[u].at = "get"
        /\ \A v \in Requests \ {u} :
             /\ user'[v].at = user[v].at
             /\ user[v].at \in {"index", "update"} => user'[v].late
             /\ user[v].at \notin {"index", "update"} => user'[v] = user[v]
    BY <1>1, <1>2, UserWrites
  <1>5. linkEdits' \in Nat /\ linkEdits' # linkEdits BY DEF MailInv, Links!Link
  <1>6. UNCHANGED <<studentOf, contactIdx>> BY DEF Links!Link
  <1> QED BY <1>3, <1>4, <1>5, <1>6 DEF MailInv

(* The steps that leave the mail alone. *)
LEMMA MailUntouched ==
    ASSUME MailInv, NEW u \in Requests, NEW j \in UserType, user' = [user EXCEPT ![u] = j],
           j.at = "idle" => j = Links!Idle,
           j.at \in {"index", "update"} /\ ~ j.late => j.read = mail,
           contactIdx' = {} \/ \E i \in Indices : contactIdx' = {i},
           UNCHANGED <<mail, studentOf, linkEdits>>
    PROVE  MailInv'
  <1>1. user' \in [Requests -> UserType] /\ user'[u] = j
        /\ \A v \in Requests \ {u} : user'[v] = user[v]
    BY UserMoves
  <1> QED BY <1>1 DEF MailInv

LEMMA AfterGet ==
    ASSUME MailInv, NEW u \in Requests, Links!Get(u)
    PROVE  MailInv'
  <1> DEFINE to == IF user[u].all THEN "update" ELSE "index"
             j  == [user[u] EXCEPT !.at = to, !.read = mail]
  <1>1. user[u] \in UserType /\ mail \in Lists BY DEF MailInv
  <1>2. j \in UserType /\ j.at # "idle" /\ j.read = mail BY <1>1 DEF UserType
  <1>3. user' = [user EXCEPT ![u] = j] /\ UNCHANGED <<mail, studentOf, contactIdx, linkEdits>>
    BY DEF Links!Get, Links!counts
  <1>4. contactIdx' = {} \/ \E i \in Indices : contactIdx' = {i} BY <1>3 DEF MailInv
  <1> HIDE DEF j
  <1> QED BY <1>2, <1>3, <1>4, MailUntouched

LEMMA AfterContactIndex ==
    ASSUME MailInv, NEW u \in Requests, Links!ContactIndex(u)
    PROVE  MailInv'
  <1>1. PICK i \in IF contactIdx = {} THEN {studentOf} ELSE contactIdx :
          /\ contactIdx' = {i}
          /\ user' = [user EXCEPT ![u].idx = i,
                                  ![u].at = IF user[u].at = "first" THEN "get" ELSE "update"]
    BY DEF Links!ContactIndex
  <1> DEFINE to == IF user[u].at = "first" THEN "get" ELSE "update"
             j  == [user[u] EXCEPT !.idx = i, !.at = to]
  <1>2. user[u] \in UserType /\ i \in Indices /\ user[u].at \in {"index", "first"}
    BY DEF MailInv, Links!ContactIndex
  <1>3. j \in UserType /\ j.at = to /\ j.read = user[u].read /\ j.late = user[u].late
    BY <1>2 DEF UserType
  <1>4. user' = [user EXCEPT ![u] = j] /\ UNCHANGED <<mail, studentOf, linkEdits>>
    BY <1>1 DEF Links!ContactIndex, Links!counts
  <1> HIDE DEF j
  <1>5. j.at # "idle" /\ (j.at \in {"index", "update"} /\ ~ j.late => j.read = mail)
    BY <1>2, <1>3 DEF MailInv
  <1> QED BY <1>1, <1>2, <1>3, <1>4, <1>5, MailUntouched

LEMMA BackToIdle ==
    ASSUME MailInv, NEW u \in Requests, Links!UpdateFails(u)
    PROVE  MailInv'
  <1>1. Links!Idle \in UserType /\ Links!Idle.at = "idle"
    BY DEF Links!Idle, UserType, Links!Empty, Links!Nobody, Lists, Indices
  <1>2. contactIdx' = {} \/ \E i \in Indices : contactIdx' = {i}
    BY DEF MailInv, Links!UpdateFails
  <1> QED BY <1>1, <1>2, MailUntouched DEF Links!UpdateFails, Links!counts

LEMMA AfterReconcileAll ==
    ASSUME MailInv, NEW u \in Requests, Links!ReconcileAll(u)
    PROVE  MailInv'
  <1> DEFINE j == [Links!Idle EXCEPT !.at = "first", !.all = TRUE]
  <1>1. j \in UserType /\ j.at = "first"
    BY DEF Links!Idle, UserType, Links!Empty, Links!Nobody, Lists, Indices
  <1>2. user' = [user EXCEPT ![u] = j] /\ UNCHANGED <<mail, studentOf, contactIdx, linkEdits>>
    BY DEF Links!ReconcileAll
  <1> HIDE DEF j
  <1>3. contactIdx' = {} \/ \E i \in Indices : contactIdx' = {i} BY <1>2 DEF MailInv
  <1> QED BY <1>1, <1>2, <1>3, MailUntouched

(* A completion: what nobody overtook makes of the mail what follows from it. *)
LEMMA AfterMailUpdate ==
    ASSUME MailInv, NEW u \in Requests, Links!Update(u)
    PROVE  /\ MailInv' /\ user'[u] = Links!Idle /\ user[u].at = "update"
           /\ \A v \in Requests \ {u} : user[v].at = "update" => user'[v].at = "update"
           /\ ~ user[u].late => mail' = Links!reconcileFields(mail, user[u].idx)
  <1>0. /\ user[u] \in UserType /\ user[u].read \in Lists /\ user[u].idx \in Indices
        /\ mail \in Lists /\ user[u].at = "update"
        /\ Links!Idle \in UserType /\ Links!Idle.at = "idle"
    BY DEF MailInv, Links!Update, UserType, Links!Idle, Links!Empty, Links!Nobody, Lists, Indices
  <1> DEFINE g == Links!Grown(u)
  <1>1. g \in Lists /\ g = Links!reconcileFields(user[u].read, user[u].idx)
    BY <1>0, Reconciled DEF Links!Grown
  <1>2. mail' = [students |-> IF g.students # user[u].read.students THEN g.students ELSE mail.students,
                 contacts |-> IF g.contacts # user[u].read.contacts THEN g.contacts ELSE mail.contacts]
    BY DEF Links!Update
  <1> HIDE DEF g
  <1>3. mail' \in Lists BY <1>0, <1>1, <1>2 DEF Lists
  <1>4. ~ user[u].late => user[u].read = mail BY <1>0 DEF MailInv
  <1>5. ~ user[u].late => mail' = g BY <1>0, <1>1, <1>2, <1>4 DEF Lists
  <1>6. /\ user' \in [Requests -> UserType] /\ user'[u] = Links!Idle
        /\ \A v \in Requests \ {u} :
             /\ user'[v].at = user[v].at
             /\ user[v].at \in {"index", "update"} => user'[v].late
             /\ user[v].at \notin {"index", "update"} => user'[v] = user[v]
    BY <1>0, UserWrites DEF Links!Update
  <1>7. UNCHANGED <<studentOf, contactIdx, linkEdits>> BY DEF Links!Update, Links!counts
  <1>8. MailInv' BY <1>0, <1>3, <1>6, <1>7 DEF MailInv
  <1> QED BY <1>0, <1>1, <1>4, <1>5, <1>6, <1>8

LEMMA MailStays == ASSUME MailInv, [Links!Next]_linkVars PROVE MailInv'
  <1>1. CASE UNCHANGED linkVars BY <1>1 DEF linkVars, MailInv
  <1>2. ASSUME NEW c \in Contacts, Links!Match(c) PROVE MailInv'
    <2>1. studentOf' \in Indices BY <1>2 DEF MailInv, Links!Match, Indices
    <2> QED BY <1>2, <2>1 DEF MailInv, Links!Match
  <1>3. CASE Links!Expire BY <1>3 DEF MailInv, Links!Expire, Links!counts
  <1> QED BY <1>1, <1>2, <1>3, AfterLink, AfterGet, AfterContactIndex, AfterMailUpdate,
             AfterReconcileAll, BackToIdle DEF Links!Next

(* What writes the mail: staff, or a completion.                           *)
LEMMA MailWriters ==
    ASSUME MailInv, [Links!Next]_linkVars, mail' # mail
    PROVE  linkEdits' # linkEdits \/ \E u \in Requests : Links!Update(u)
  <1>1. ASSUME NEW u \in Requests,
               Links!Get(u) \/ Links!ContactIndex(u) \/ Links!ReconcileAll(u) \/ Links!UpdateFails(u)
        PROVE  FALSE
    BY <1>1 DEF Links!Get, Links!ContactIndex, Links!ReconcileAll, Links!UpdateFails
  <1>2. ASSUME NEW c \in Contacts, Links!Match(c) PROVE FALSE BY <1>2 DEF Links!Match
  <1>3. ~ Links!Expire /\ ~ UNCHANGED linkVars BY DEF Links!Expire, linkVars
  <1> QED BY <1>1, <1>2, <1>3, AfterLink DEF Links!Next

LEMMA CompletionAdds ==
    ASSUME MailInv, NEW u \in Requests, Links!Update(u), mail' # mail
    PROVE  /\ Links!Adds(u) /\ (user[u].late => Links!Late(u))
           /\ \A v \in Requests : Links!Adds(v) => v = u
           /\ ~ user[u].late =>
                /\ mail.students \subseteq mail'.students /\ mail.contacts \subseteq mail'.contacts
                /\ mail = Links!Empty => mail' = Links!Empty
                /\ \A c \in mail'.contacts : user[u].idx[c] \in mail'.students \cup {None}
                /\ \A c \in Contacts : user[u].idx[c] \in mail'.students => c \in mail'.contacts
  <1>1. /\ user'[u] = Links!Idle /\ user[u].at = "update"
        /\ \A v \in Requests \ {u} : user[v].at = "update" => user'[v].at = "update"
        /\ ~ user[u].late => mail' = Links!reconcileFields(mail, user[u].idx)
    BY AfterMailUpdate
  <1>2. mail \in Lists /\ user[u].idx \in Indices BY DEF MailInv, UserType
  <1>3. \A v \in Requests : Links!Adds(v) => v = u BY <1>1 DEF Links!Adds, Links!Idle
  <1>4. Links!Adds(u) /\ (user[u].late => Links!Late(u)) BY <1>1 DEF Links!Adds, Links!Late
  <1>5. ASSUME ~ user[u].late
        PROVE  /\ mail.students \subseteq mail'.students /\ mail.contacts \subseteq mail'.contacts
               /\ mail = Links!Empty => mail' = Links!Empty
               /\ \A c \in mail'.contacts : user[u].idx[c] \in mail'.students \cup {None}
               /\ \A c \in Contacts : user[u].idx[c] \in mail'.students => c \in mail'.contacts
    <2> DEFINE m == mail
               i == user[u].idx
               n == mail'
    <2>1. n = Links!reconcileFields(m, i) /\ m \in Lists /\ i \in Indices BY <1>1, <1>2, <1>5
    <2> HIDE DEF m, i, n
    <2>2. /\ m.students \subseteq n.students /\ m.contacts \subseteq n.contacts
          /\ m = Links!Empty => n = Links!Empty
          /\ \A c \in n.contacts : i[c] \in n.students \cup {None}
          /\ \A c \in Contacts : i[c] \in n.students => c \in n.contacts
      BY <2>1, Reconciled
    <2> QED BY <2>2 DEF m, i, n
  <1> QED BY <1>3, <1>4, <1>5

(* Whatever is linked, matched and completed at a time: a completion that   *)
(* nobody overtook only adds, leaves an emptied mail alone, and leaves      *)
(* nothing to be added (mail-archive.service.ts, reconcileRecord).         *)
THEOREM MailLinksAreKept == ServicesSpec => MailLinksKept
  <1>1. ServicesInit => MailInv BY MailInit DEF ServicesInit
  <1>2. [ServicesNext]_allVars => [Links!Next]_linkVars
    BY DEF ServicesNext, AutomStep, GradeStep, HelpStep, RoomStep, LinkStep, allVars
  <1>3. MailInv /\ [Links!Next]_linkVars => MailInv' BY MailStays
  <1>4. MailInv => (active = "links" => Links!TypeInv)
    <2> SUFFICES ASSUME MailInv PROVE Links!TypeInv OBVIOUS
    <2>1. mail.students \subseteq Students /\ mail.contacts \subseteq Contacts BY DEF MailInv, Lists
    <2>2. \A S : Links!Cardinality(S) = Cardinality(S) BY DEF Links!Cardinality, Cardinality
    <2>3. Cardinality(contactIdx) <= 1
      <3>1. CASE contactIdx = {}
        <4>1. Cardinality(contactIdx) = 0 BY <3>1, FS_EmptySet
        <4> QED BY <4>1
      <3>2. CASE \E i \in Indices : contactIdx = {i}
        <4>1. Cardinality(contactIdx) = 1 BY <3>2, FS_Singleton
        <4> QED BY <4>1
      <3> QED BY <3>1, <3>2 DEF MailInv
    <2>4. \A u \in Requests : user[u].at = "idle" => user[u] = Links!Idle BY DEF MailInv
    <2> QED BY <2>1, <2>2, <2>3, <2>4 DEF Links!TypeInv
  <1>5. MailInv /\ [Links!Next]_linkVars =>
          [\/ mail.students \subseteq mail'.students /\ mail.contacts \subseteq mail'.contacts
           \/ Links!Staff
           \/ \E u \in Requests : Links!Late(u)]_Links!vars
    BY MailWriters, CompletionAdds DEF Links!Staff
  <1>6. MailInv /\ [Links!Next]_linkVars =>
          [mail = Links!Empty /\ mail' # Links!Empty =>
             Links!Staff \/ \E u \in Requests : Links!Late(u)]_Links!vars
    BY MailWriters, CompletionAdds DEF Links!Staff
  <1>7. MailInv /\ [Links!Next]_linkVars =>
          [\A u \in Requests : Links!Adds(u) /\ ~user[u].late =>
              /\ \A c \in mail'.contacts : user[u].idx[c] \in mail'.students \cup {None}
              /\ \A c \in Contacts : user[u].idx[c] \in mail'.students => c \in mail'.contacts]_Links!vars
    <2> SUFFICES ASSUME MailInv, [Links!Next]_linkVars, NEW u \in Requests,
                        Links!Adds(u), ~ user[u].late
                 PROVE  /\ \A c \in mail'.contacts : user[u].idx[c] \in mail'.students \cup {None}
                        /\ \A c \in Contacts : user[u].idx[c] \in mail'.students => c \in mail'.contacts
      OBVIOUS
    <2>1. mail' # mail /\ user'[u] = Links!Idle /\ user[u].at = "update" BY DEF Links!Adds
    <2>2. ASSUME NEW v \in Requests, Links!Update(v)
          PROVE  /\ \A c \in mail'.contacts : user[u].idx[c] \in mail'.students \cup {None}
                 /\ \A c \in Contacts : user[u].idx[c] \in mail'.students => c \in mail'.contacts
      BY <2>1, <2>2, CompletionAdds
    <2>3. linkEdits' # linkEdits => FALSE
      <3>1. ASSUME NEW v \in Requests, Links!Link(v) PROVE FALSE
        <4> DEFINE j == [Links!Idle EXCEPT !.at = "get"]
        <4>1. j \in UserType /\ j.at = "get"
          BY DEF Links!Idle, UserType, Links!Empty, Links!Nobody, Lists, Indices
        <4>2. Links!Written(v, j) BY <3>1 DEF Links!Link
        <4> HIDE DEF j
        <4>3. user'[u].at # "idle" BY <2>1, <4>1, <4>2, UserWrites
        <4> QED BY <2>1, <4>3 DEF Links!Idle
      <3>2. ASSUME NEW v \in Requests, Links!Update(v) PROVE linkEdits' = linkEdits
        BY <3>2 DEF Links!Update, Links!counts
      <3> QED BY <2>1, <3>1, <3>2 DEF Links!Next, linkVars, Links!Get, Links!ContactIndex,
                Links!ReconcileAll, Links!UpdateFails, Links!Match, Links!Expire, Links!counts
    <2> QED BY <2>1, <2>2, <2>3, MailWriters
  <1>8. ServicesSpec => []MailInv BY <1>1, <1>2, <1>3, PTL DEF ServicesSpec
  <1> QED BY <1>2, <1>4, <1>5, <1>6, <1>7, <1>8, PTL
          DEF ServicesSpec, MailLinksKept, Links!OnlyAdds, Links!EmptiedStays, Links!Completes

-----------------------------------------------------------------------------
(* Support cases of a student (SupportCase).                               *)

(* A set of numbers has a least one, and one with a bound a greatest.      *)
LEMMA LeastOf ==
    ASSUME NEW T \in SUBSET Nat, T # {}
    PROVE  \E n \in T : \A m \in T : n <= m
  <1> DEFINE R == {ss \in Nat \X Nat : ss[1] < ss[2]}
  <1>1. IsWellFoundedOn(R, Nat) BY NatLessThanWellFounded DEF OpToRel
  <1> HIDE DEF R
  <1>2. PICK n \in T : \A m \in T : ~ (<<m, n>> \in R) BY <1>1, WFMin
  <1>3. \A m \in T : ~ (m < n) BY <1>2 DEF R
  <1> QED BY <1>3

LEMMA GreatestOf ==
    ASSUME NEW S, S # {}, NEW f \in [S -> Int], NEW b \in Int, \A x \in S : f[x] <= b
    PROVE  \E x \in S : \A y \in S : f[y] <= f[x]
  <1> DEFINE T == {b - f[x] : x \in S}
  <1>1. T \in SUBSET Nat /\ T # {} OBVIOUS
  <1> HIDE DEF T
  <1>2. PICK n \in T : \A m \in T : n <= m BY <1>1, LeastOf
  <1>3. PICK x \in S : n = b - f[x] BY DEF T
  <1>4. \A y \in S : b - f[y] \in T BY DEF T
  <1>5. \A y \in S : b - f[x] <= b - f[y] BY <1>2, <1>3, <1>4
  <1>6. \A y \in S : f[y] <= f[x] BY <1>5
  <1> QED BY <1>6

CaseType  == [status : Help!Statuses, gone : BOOLEAN, touched : Int]
DoingType == [what : {"free", "save", "dismiss", "restore"}, row : Nat,
              status : {"", "open", "ended"}, late : BOOLEAN]

(* Who nobody has overtaken is about to write a row such as the rule        *)
(* chooses now: a save an open one, a dismissal one of all, if there is one. *)
RowChosen(s) ==
    ~ doing[s].late =>
       /\ doing[s].what = "save" =>
            IF Help!OpenRows = {} THEN doing[s].row = 0 ELSE doing[s].row \in Help!OpenRows
       /\ doing[s].what \in {"dismiss", "restore"} =>
            IF Help!Rows = {} THEN doing[s].row = 0 ELSE doing[s].row \in Help!Rows

SupportTypes ==
    /\ cases \in Seq(CaseType) /\ begun \in Nat /\ doing \in [Requests -> DoingType]
    /\ \A r \in Help!Rows : cases[r].touched <= begun
    /\ IsFiniteSet({s \in Requests : doing[s] # Help!Free})
    /\ \A s \in Requests : doing[s].what = "free" => doing[s] = Help!Free
    /\ \A s \in Requests : doing[s].row \in Help!Rows \cup {0}
    /\ doubled \subseteq Help!Rows

SupportInv ==
    /\ SupportTypes
    /\ \A s \in Requests : RowChosen(s)
    /\ Help!OneOpenRow

LEMMA RowsOfCases ==
    ASSUME cases \in Seq(CaseType)
    PROVE  /\ Len(cases) \in Nat /\ Help!Rows \in SUBSET Nat /\ 0 \notin Help!Rows
           /\ \A r \in Help!Rows : r <= Len(cases) /\ cases[r] \in CaseType
           /\ Help!OpenRows \in SUBSET Help!Rows /\ Help!Own \in SUBSET Help!Rows
  BY ElementOfSeq, LenProperties DEF Help!Rows, Help!OpenRows, Help!Own

LEMMA LatestIsOne ==
    ASSUME SupportTypes, NEW rs \in SUBSET Help!Rows
    PROVE  IF rs = {} THEN Help!Latest(rs) = 0 ELSE Help!Latest(rs) \in rs
  <1>1. CASE rs = {} BY <1>1 DEF Help!Latest, Help!Nothing
  <1>2. CASE rs # {}
    <2> DEFINE f == [r \in rs |-> cases[r].touched]
    <2>1. f \in [rs -> Int] /\ begun \in Int /\ \A r \in rs : f[r] <= begun
      BY RowsOfCases DEF SupportTypes, CaseType
    <2>2. \A r \in rs : f[r] = cases[r].touched OBVIOUS
    <2> HIDE DEF f
    <2>3. \E r \in rs : \A o \in rs : f[o] <= f[r] BY <1>2, <2>1, GreatestOf
    <2>4. \E r \in rs : \A o \in rs : cases[o].touched <= cases[r].touched BY <2>2, <2>3
    <2> QED BY <1>2, <2>4 DEF Help!Latest
  <1> QED BY <1>1, <1>2

LEMMA NewestIsOne ==
    ASSUME SupportTypes, NEW rs \in SUBSET Help!Rows
    PROVE  IF rs = {} THEN Help!Newest(rs) = 0 ELSE Help!Newest(rs) \in rs
  <1>1. CASE rs = {} BY <1>1 DEF Help!Newest, Help!Nothing
  <1>2. CASE rs # {}
    <2> DEFINE f == [r \in rs |-> r]
    <2>1. f \in [rs -> Int] /\ Len(cases) \in Int /\ \A r \in rs : f[r] <= Len(cases)
      BY RowsOfCases DEF SupportTypes
    <2>2. \A r \in rs : f[r] = r OBVIOUS
    <2> HIDE DEF f
    <2>3. \E r \in rs : \A o \in rs : f[o] <= f[r] BY <1>2, <2>1, GreatestOf
    <2>4. \E r \in rs : \A o \in rs : o <= r BY <2>2, <2>3
    <2> QED BY <1>2, <2>4 DEF Help!Newest
  <1> QED BY <1>1, <1>2

LEMMA SaveTargetIsOpen ==
    ASSUME SupportTypes
    PROVE  IF Help!OpenRows = {} THEN Help!SaveTarget = 0 ELSE Help!SaveTarget \in Help!OpenRows
  BY RowsOfCases, LatestIsOne DEF SupportTypes, Help!SaveTarget

LEMMA DismissTargetIsRow ==
    ASSUME SupportTypes
    PROVE  IF Help!Rows = {} THEN Help!DismissTarget = 0 ELSE Help!DismissTarget \in Help!Rows
  <1>1. Help!OpenRows \in SUBSET Help!Rows /\ Help!Rows \in SUBSET Help!Rows
    BY RowsOfCases DEF SupportTypes
  <1> QED BY <1>1, NewestIsOne DEF Help!DismissTarget

LEMMA NowIsBounded == ASSUME SupportTypes PROVE Help!Now \in Int /\ Help!Now <= begun
  <1>1. \A S : Help!Cardinality(S) = Cardinality(S) BY DEF Help!Cardinality, Cardinality
  <1>2. Cardinality({s \in Requests : doing[s] # Help!Free}) \in Nat
    BY FS_CardinalityType DEF SupportTypes
  <1> QED BY <1>1, <1>2 DEF SupportTypes, Help!Now

LEMMA FreeIsType == Help!Free \in DoingType /\ Help!Free.what = "free" /\ Help!Free.row = 0
  BY DEF Help!Free, DoingType, Help!Nothing

LEMMA SupportInit == Help!Init => SupportInv
  <1> SUFFICES ASSUME Help!Init PROVE SupportInv OBVIOUS
  <1>1. cases = <<>> /\ cases \in Seq(CaseType) /\ Len(cases) = 0
    BY EmptySeq DEF Help!Init
  <1>2. Help!Rows = {} BY <1>1 DEF Help!Rows
  <1>3. \A s \in Requests : doing[s] = Help!Free BY DEF Help!Init
  <1>4. {s \in Requests : doing[s] # Help!Free} = {} BY <1>3
  <1>5. SupportTypes
    BY <1>1, <1>2, <1>3, <1>4, FreeIsType, FS_EmptySet DEF Help!Init, SupportTypes
  <1>6. Help!OneOpenRow BY <1>2 DEF Help!OneOpenRow, Help!OpenRows
  <1> QED BY <1>3, <1>5, <1>6, FreeIsType DEF SupportInv, RowChosen

(* A row such as the rule chooses for a call of this kind. *)
Suits(w, r) ==
    /\ r \in Help!Rows \cup {0}
    /\ w = "save" => IF Help!OpenRows = {} THEN r = 0 ELSE r \in Help!OpenRows
    /\ w # "save" => IF Help!Rows = {} THEN r = 0 ELSE r \in Help!Rows

LEMMA RowIsNat == ASSUME SupportTypes, NEW r \in Help!Rows \cup {0} PROVE r \in Nat
  BY RowsOfCases DEF SupportTypes

LEMMA OneMoreBegun ==
    ASSUME SupportTypes, begun' = begun + 1, UNCHANGED cases
    PROVE  begun' \in Nat /\ \A x \in Help!Rows : cases[x].touched <= begun'
  <1>1. begun \in Nat BY DEF SupportTypes
  <1>2. ASSUME NEW x \in Help!Rows PROVE cases[x].touched <= begun'
    <2>1. cases[x].touched \in Int BY RowsOfCases DEF SupportTypes, CaseType
    <2>2. cases[x].touched <= begun BY DEF SupportTypes
    <2> QED BY <1>1, <2>1, <2>2
  <1> QED BY <1>1, <1>2

(* A call has read and decided. *)
LEMMA AfterDecide ==
    ASSUME SupportInv, NEW s \in Requests, NEW w \in {"save", "dismiss", "restore"}, NEW r,
           NEW st \in {"", "open", "ended"}, Help!Decide(s, w, r, st), Suits(w, r)
    PROVE  SupportInv' /\ doing[s] = Help!Free /\ UNCHANGED cases
           /\ \A d \in Requests : doing'[d] = Help!Free => doing[d] = Help!Free
  <1> DEFINE j == [what |-> w, row |-> r, status |-> st, late |-> FALSE]
             B == {d \in Requests : doing[d] # Help!Free}
  <1>0. SupportTypes BY DEF SupportInv
  <1>1. Help!Rows \in SUBSET Nat BY <1>0, RowsOfCases DEF SupportTypes
  <1>2. r \in Nat
    <2>1. r \in Help!Rows \cup {0} BY Zenon DEF Suits
    <2> QED BY <1>0, <2>1, RowIsNat
  <1>4. j \in DoingType /\ j.what = w /\ j.row = r BY <1>2 DEF DoingType
  <1>5. j # Help!Free BY <1>4, FreeIsType
  <1>6. doing' = [doing EXCEPT ![s] = j] /\ begun' = begun + 1 /\ UNCHANGED <<cases, doubled>>
        /\ doing[s] = Help!Free
    BY DEF Help!Decide
  <1> HIDE DEF j, B
  <1>7. doing' \in [Requests -> DoingType] /\ doing'[s] = j
        /\ \A d \in Requests \ {s} : doing'[d] = doing[d]
    BY <1>0, <1>4, <1>6 DEF SupportTypes
  <1>8. {d \in Requests : doing'[d] # Help!Free} = B \cup {s} BY <1>5, <1>7 DEF B
  <1>9. IsFiniteSet(B \cup {s}) BY <1>0, FS_AddElement DEF SupportTypes, B
  <1>11. begun' \in Nat /\ \A x \in Help!Rows : cases[x].touched <= begun'
    BY <1>0, <1>6, OneMoreBegun
  <1>12. (Help!Rows)' = Help!Rows /\ (Help!OpenRows)' = Help!OpenRows
    BY <1>6 DEF Help!Rows, Help!OpenRows, Help!supportIsOpen
  <1>13. \A d \in Requests : doing'[d].row \in Help!Rows \cup {0}
    BY <1>0, <1>4, <1>7 DEF SupportTypes, Suits
  <1>14. \A d \in Requests : doing'[d].what = "free" => doing'[d] = Help!Free
    BY <1>0, <1>4, <1>7 DEF SupportTypes
  <1>15. SupportTypes'
    BY <1>0, <1>6, <1>7, <1>8, <1>9, <1>11, <1>12, <1>13, <1>14 DEF SupportTypes
  <1>16. RowChosen(s)' BY <1>4, <1>7, <1>12 DEF RowChosen, Suits
  <1>17. \A d \in Requests \ {s} : RowChosen(d)' BY <1>7, <1>12 DEF SupportInv, RowChosen
  <1>18. Help!OneOpenRow' BY <1>6, <1>12 DEF SupportInv, Help!OneOpenRow
  <1> QED BY <1>5, <1>6, <1>7, <1>15, <1>16, <1>17, <1>18 DEF SupportInv

(* A call writes: it is done, and the others under way are late. *)
LEMMA AfterDone ==
    ASSUME SupportTypes, NEW s \in Requests, Help!Done(s), doing[s] # Help!Free
    PROVE  /\ doing' \in [Requests -> DoingType] /\ doing'[s] = Help!Free
           /\ IsFiniteSet({d \in Requests : doing'[d] # Help!Free})
           /\ \A d \in Requests : doing'[d].what = "free" => doing'[d] = Help!Free
           /\ \A d \in Requests \ {s} :
                /\ doing[d] = Help!Free => doing'[d] = Help!Free
                /\ doing[d] # Help!Free => doing'[d] # Help!Free /\ doing'[d].late
                                           /\ doing'[d].row = doing[d].row
  <1> DEFINE k(d) == [doing[d] EXCEPT !.late = TRUE]
  <1>1. \A d \in Requests : doing[d] \in DoingType BY DEF SupportTypes
  <1>2. \A d \in Requests : k(d) \in DoingType /\ k(d).late /\ k(d).row = doing[d].row
           /\ k(d).what = doing[d].what
    BY <1>1 DEF DoingType
  <1>3. doing' = [d \in Requests |-> IF d = s \/ doing[d] = Help!Free THEN Help!Free ELSE k(d)]
    BY DEF Help!Done
  <1>4. \A d \in Requests : doing[d] # Help!Free => doing[d].what # "free" BY DEF SupportTypes
  <1> HIDE DEF k
  <1>5. \A d \in Requests \ {s} : doing[d] # Help!Free =>
           doing'[d] = k(d) /\ doing'[d].what # "free" /\ doing'[d] # Help!Free
    BY <1>2, <1>3, <1>4, FreeIsType
  <1>6. doing' \in [Requests -> DoingType] BY <1>2, <1>3, FreeIsType
  <1>7. {d \in Requests : doing'[d] # Help!Free} = {d \in Requests : doing[d] # Help!Free} \ {s}
    BY <1>3, <1>5
  <1>8. IsFiniteSet({d \in Requests : doing'[d] # Help!Free})
    BY <1>7, FS_RemoveElement DEF SupportTypes
  <1>9. \A d \in Requests : doing'[d].what = "free" => doing'[d] = Help!Free
    BY <1>3, <1>5
  <1> QED BY <1>2, <1>3, <1>5, <1>6, <1>8, <1>9

(* A row is written, or a new one added. *)
RowPut(x, c) ==
    /\ cases' \in Seq(CaseType) /\ cases'[x] = c
    /\ x \in (Help!Rows)' /\ (Help!Rows)' = Help!Rows \cup {x}
    /\ \A o \in Help!Rows \ {x} : cases'[o] = cases[o]

LEMMA RowReplaced ==
    ASSUME SupportTypes, NEW x \in Help!Rows, NEW c \in CaseType, cases' = [cases EXCEPT ![x] = c]
    PROVE  RowPut(x, c)
  <1>1. cases \in Seq(CaseType) /\ x \in 1..Len(cases) BY DEF SupportTypes, Help!Rows
  <1>2. cases' \in Seq(CaseType) /\ Len(cases') = Len(cases)
        /\ \A o \in 1..Len(cases) : cases'[o] = IF o = x THEN c ELSE cases[o]
    BY <1>1, ExceptSeq
  <1> QED BY <1>1, <1>2 DEF RowPut, Help!Rows

LEMMA RowAdded ==
    ASSUME SupportTypes, NEW c \in CaseType, cases' = Append(cases, c)
    PROVE  RowPut(Len(cases) + 1, c) /\ Len(cases) + 1 \notin Help!Rows
  <1>1. cases \in Seq(CaseType) /\ Len(cases) \in Nat BY LenProperties DEF SupportTypes
  <1>2. cases' \in Seq(CaseType) /\ Len(cases') = Len(cases) + 1
        /\ cases'[Len(cases) + 1] = c /\ \A o \in 1..Len(cases) : cases'[o] = cases[o]
    BY <1>1, AppendProperties
  <1> QED BY <1>1, <1>2 DEF RowPut, Help!Rows

(* What every writing keeps. *)
LEMMA AfterWriting ==
    ASSUME SupportInv, NEW s \in Requests, Help!Done(s), doing[s] # Help!Free, NEW x,
           NEW c \in CaseType, RowPut(x, c), c.touched <= begun, UNCHANGED begun,
           doubled' \subseteq (Help!Rows)'
    PROVE  /\ SupportTypes' /\ \A d \in Requests : RowChosen(d)'
           /\ doing'[s] = Help!Free
           /\ \A d \in Requests \ {s} : doing'[d] = Help!Free => doing[d] = Help!Free
  <1>0. SupportTypes BY DEF SupportInv
  <1>1. /\ doing' \in [Requests -> DoingType] /\ doing'[s] = Help!Free
        /\ IsFiniteSet({d \in Requests : doing'[d] # Help!Free})
        /\ \A d \in Requests : doing'[d].what = "free" => doing'[d] = Help!Free
        /\ \A d \in Requests \ {s} :
             /\ doing[d] = Help!Free => doing'[d] = Help!Free
             /\ doing[d] # Help!Free => doing'[d] # Help!Free /\ doing'[d].late
                                        /\ doing'[d].row = doing[d].row
    BY <1>0, AfterDone
  <1>2. \A r \in (Help!Rows)' : cases'[r].touched <= begun' BY <1>0 DEF RowPut, SupportTypes
  <1>3. \A d \in Requests : doing'[d].row \in (Help!Rows)' \cup {0}
    BY <1>0, <1>1, FreeIsType DEF RowPut, SupportTypes
  <1>4. SupportTypes' BY <1>0, <1>1, <1>2, <1>3 DEF SupportTypes, RowPut
  <1>5. \A d \in Requests : RowChosen(d)' BY <1>1, FreeIsType DEF RowChosen
  <1> QED BY <1>1, <1>4, <1>5

LEMMA RowsAfterPut ==
    ASSUME SupportTypes, NEW x, NEW c, RowPut(x, c)
    PROVE  /\ (Help!OpenRows)' \subseteq Help!OpenRows \cup {x}
           /\ \A o \in Help!Rows : cases'[o] = IF o = x THEN c ELSE cases[o]
           /\ x \in (Help!OpenRows)' => c.status = "open"
           /\ c.gone => Help!dismissedOf'
           /\ Help!Rows \subseteq {x} /\ ~ c.gone => ~ Help!dismissedOf'
  BY DEF RowPut, Help!OpenRows, Help!supportIsOpen, Help!dismissedOf

(* A save is written: late, it marks its row; otherwise it opens none that  *)
(* another open row could be beside.                                       *)
LEMMA AfterWriteSave ==
    ASSUME SupportInv, NEW s \in Requests, Help!WriteSave(s)
    PROVE  /\ SupportInv' /\ doing[s].what = "save" /\ doing[s] # Help!Free
           /\ doing'[s] = Help!Free
           /\ \A d \in Requests \ {s} : doing'[d] = Help!Free => doing[d] = Help!Free
           /\ \A o \in Help!Rows :
                /\ cases'[o].gone = cases[o].gone
                /\ cases[o].status = "ended" /\ cases'[o].status = "open" =>
                     doing[s].row = o /\ doing[s].late
  <1> DEFINE r == doing[s].row
             st == doing[s].status
             t == Help!Now
             changed == [cases[r] EXCEPT !.status = IF st = "" THEN @ ELSE st, !.touched = t]
             added == [status |-> IF st = "" THEN "open" ELSE st, gone |-> FALSE, touched |-> t]
             x == IF r # 0 THEN r ELSE Len(cases) + 1
             c == IF r # 0 THEN changed ELSE added
  <1>0. SupportTypes BY DEF SupportInv
  <1>1. /\ doing[s].what = "save" /\ Help!Done(s) /\ UNCHANGED begun
        /\ doubled' = IF ~doing[s].late THEN doubled
                      ELSE doubled \cup {IF r # 0 THEN r ELSE Len(cases) + 1}
        /\ IF r # 0 THEN cases' = [cases EXCEPT ![r].status = IF st = "" THEN @ ELSE st, ![r].touched = t]
                    ELSE cases' = Append(cases, added)
    BY DEF Help!WriteSave, Help!Nothing
  <1>2. doing[s] # Help!Free BY <1>1, FreeIsType
  <1>3. r \in Help!Rows \cup {0} /\ st \in {"", "open", "ended"}
    <2>1. doing[s] \in DoingType BY <1>0 DEF SupportTypes
    <2> QED BY <1>0, <2>1 DEF SupportTypes, DoingType
  <1>4. t \in Int /\ t <= begun BY <1>0, NowIsBounded
  <1>5. cases \in Seq(CaseType) BY <1>0 DEF SupportTypes
  <1> HIDE DEF r, st, t
  <1>6. added \in CaseType /\ added.touched = t BY <1>3, <1>4 DEF CaseType, Help!Statuses
  <1>7. ASSUME r \in Help!Rows
        PROVE  /\ changed \in CaseType /\ changed.touched = t /\ changed.gone = cases[r].gone
               /\ cases' = [cases EXCEPT ![r] = changed] /\ r # 0
    <2>1. cases[r] \in CaseType /\ r # 0 BY <1>5, <1>7, RowsOfCases
    <2> QED BY <1>1, <1>3, <1>4, <2>1 DEF CaseType, Help!Statuses
  <1> HIDE DEF added, changed
  <1>8. CASE r \in Help!Rows
    <2>1. changed \in CaseType /\ RowPut(r, changed) BY <1>0, <1>7, <1>8, RowReplaced
    <2>2. doubled' = IF ~doing[s].late THEN doubled ELSE doubled \cup {r} BY <1>1, <1>7, <1>8
    <2>3. doubled' \subseteq (Help!Rows)' BY <1>0, <2>1, <2>2 DEF RowPut, SupportTypes
    <2>4. /\ SupportTypes' /\ \A d \in Requests : RowChosen(d)'
          /\ doing'[s] = Help!Free
          /\ \A d \in Requests \ {s} : doing'[d] = Help!Free => doing[d] = Help!Free
      BY <1>1, <1>2, <1>4, <1>7, <1>8, <2>1, <2>3, AfterWriting
    <2>5. /\ (Help!OpenRows)' \subseteq Help!OpenRows \cup {r}
          /\ \A o \in Help!Rows : cases'[o] = IF o = r THEN changed ELSE cases[o]
      BY <1>0, <2>1, RowsAfterPut
    <2>6. ~ doing[s].late => r \in Help!OpenRows
      BY <1>1, <1>7, <1>8 DEF SupportInv, RowChosen, r
    <2>7. Help!OneOpenRow' BY <2>2, <2>5, <2>6 DEF SupportInv, Help!OneOpenRow
    <2>8. \A o \in Help!Rows :
                /\ cases'[o].gone = cases[o].gone
                /\ cases[o].status = "ended" /\ cases'[o].status = "open" =>
                     r = o /\ doing[s].late
      BY <1>7, <1>8, <2>5, <2>6 DEF Help!OpenRows, Help!supportIsOpen
    <2> QED BY <1>1, <1>2, <2>4, <2>7, <2>8 DEF SupportInv, r
  <1>9. CASE r = 0
    <2> DEFINE n == Len(cases) + 1
    <2>1. RowPut(n, added) /\ n \notin Help!Rows BY <1>0, <1>1, <1>6, <1>9, RowAdded
    <2>2. doubled' = IF ~doing[s].late THEN doubled ELSE doubled \cup {n} BY <1>1, <1>9
    <2> HIDE DEF n
    <2>3. doubled' \subseteq (Help!Rows)' BY <1>0, <2>1, <2>2 DEF RowPut, SupportTypes
    <2>4. /\ SupportTypes' /\ \A d \in Requests : RowChosen(d)'
          /\ doing'[s] = Help!Free
          /\ \A d \in Requests \ {s} : doing'[d] = Help!Free => doing[d] = Help!Free
      BY <1>1, <1>2, <1>4, <1>6, <2>1, <2>3, AfterWriting
    <2>5. /\ (Help!OpenRows)' \subseteq Help!OpenRows \cup {n}
          /\ \A o \in Help!Rows : cases'[o] = cases[o]
      BY <1>0, <2>1, RowsAfterPut
    <2>6. ~ doing[s].late => Help!OpenRows = {}
      BY <1>0, <1>1, <1>5, <1>9, RowsOfCases DEF SupportInv, RowChosen, r
    <2>7. Help!OneOpenRow' BY <2>2, <2>5, <2>6 DEF SupportInv, Help!OneOpenRow
    <2> QED BY <1>1, <1>2, <2>4, <2>5, <2>7 DEF SupportInv
  <1> QED BY <1>3, <1>8, <1>9

(* What a dismissal, or the taking back of one, does to the row it writes.  *)
LEMMA DismissPuts ==
    ASSUME SupportInv, NEW s \in Requests, Help!WriteDismiss(s)
    PROVE  \E x, c :
             /\ c \in CaseType /\ RowPut(x, c) /\ c.touched <= begun
             /\ c.gone <=> doing[s].what = "dismiss"
             /\ x \in Help!Rows => c.status = cases[x].status
             /\ x \notin Help!Rows => c.status = "blank" /\ doing[s].row = 0
             /\ doing[s].row # 0 => x = doing[s].row
  <1> DEFINE r == doing[s].row
             on == doing[s].what = "dismiss"
             t == Help!Now
             changed(x) == [cases[x] EXCEPT !.gone = on, !.touched = t]
             added == [status |-> "blank", gone |-> on, touched |-> t]
             own == Help!Newest(Help!Own)
  <1>0. SupportTypes /\ cases \in Seq(CaseType) BY DEF SupportInv, SupportTypes
  <1>1. cases' = IF r # 0 THEN [cases EXCEPT ![r].gone = on, ![r].touched = t]
                 ELSE IF Help!Own # {} THEN [cases EXCEPT ![own].gone = on, ![own].touched = t]
                 ELSE Append(cases, added)
    BY DEF Help!WriteDismiss, Help!Nothing
  <1>2. r \in Help!Rows \cup {0} BY <1>0 DEF SupportTypes
  <1>3. t \in Int /\ t <= begun BY <1>0, NowIsBounded
  <1>4. Help!Own # {} => own \in Help!Rows BY <1>0, RowsOfCases, NewestIsOne
  <1>5. on \in BOOLEAN OBVIOUS
  <1> HIDE DEF t, on, own
  <1>6. ASSUME NEW x \in Help!Rows, cases' = [cases EXCEPT ![x].gone = on, ![x].touched = t]
        PROVE  /\ changed(x) \in CaseType /\ cases' = [cases EXCEPT ![x] = changed(x)]
               /\ changed(x).touched = t /\ changed(x).gone = on /\ changed(x).status = cases[x].status
    <2>1. cases[x] \in CaseType BY <1>0, RowsOfCases
    <2> QED BY <1>3, <1>5, <1>6, <2>1 DEF CaseType
  <1>7. added \in CaseType /\ added.touched = t /\ added.gone = on /\ added.status = "blank"
    BY <1>3, <1>5 DEF CaseType, Help!Statuses
  <1> HIDE DEF changed, added, r
  <1>8. ASSUME NEW x \in Help!Rows, cases' = [cases EXCEPT ![x].gone = on, ![x].touched = t],
               r # 0 => x = r
        PROVE  /\ changed(x) \in CaseType /\ RowPut(x, changed(x)) /\ changed(x).touched <= begun
               /\ changed(x).gone <=> on
               /\ x \in Help!Rows => changed(x).status = cases[x].status
               /\ r # 0 => x = r
    BY <1>0, <1>3, <1>6, <1>8, RowReplaced
  <1>9. CASE r # 0
    <2>1. r \in Help!Rows /\ cases' = [cases EXCEPT ![r].gone = on, ![r].touched = t]
      BY <1>1, <1>2, <1>9
    <2> QED BY <1>8, <2>1 DEF on, r
  <1>10. CASE r = 0 /\ Help!Own # {}
    <2>1. own \in Help!Rows /\ cases' = [cases EXCEPT ![own].gone = on, ![own].touched = t]
      BY <1>1, <1>4, <1>10
    <2> QED BY <1>8, <1>10, <2>1 DEF on, r
  <1>11. CASE r = 0 /\ Help!Own = {}
    <2>1. cases' = Append(cases, added) BY <1>1, <1>11
    <2>2. RowPut(Len(cases) + 1, added) /\ Len(cases) + 1 \notin Help!Rows
      BY <1>0, <1>7, <2>1, RowAdded
    <2> QED BY <1>3, <1>7, <1>11, <2>2 DEF on, r
  <1> QED BY <1>9, <1>10, <1>11

LEMMA AfterWriteDismiss ==
    ASSUME SupportInv, NEW s \in Requests, Help!WriteDismiss(s)
    PROVE  /\ SupportInv' /\ doing[s].what \in {"dismiss", "restore"} /\ doing[s] # Help!Free
           /\ doing'[s] = Help!Free
           /\ \A d \in Requests \ {s} : doing'[d] = Help!Free => doing[d] = Help!Free
           /\ \A o \in Help!Rows : cases'[o].status = cases[o].status
           /\ doing[s].what = "dismiss" => Help!dismissedOf'
           /\ doing[s].what = "restore" /\ ~ doing[s].late /\ Len(cases) = 1 => ~ Help!dismissedOf'
  <1>0. SupportTypes BY DEF SupportInv
  <1>1. /\ doing[s].what \in {"dismiss", "restore"} /\ Help!Done(s) /\ UNCHANGED <<begun, doubled>>
    BY DEF Help!WriteDismiss
  <1>2. doing[s] # Help!Free BY <1>1, FreeIsType
  <1>3. PICK x, c :
             /\ c \in CaseType /\ RowPut(x, c) /\ c.touched <= begun
             /\ c.gone <=> doing[s].what = "dismiss"
             /\ x \in Help!Rows => c.status = cases[x].status
             /\ x \notin Help!Rows => c.status = "blank" /\ doing[s].row = 0
             /\ doing[s].row # 0 => x = doing[s].row
    BY DismissPuts
  <1>4. doubled' \subseteq (Help!Rows)' BY <1>0, <1>1, <1>3 DEF RowPut, SupportTypes
  <1>5. /\ SupportTypes' /\ \A d \in Requests : RowChosen(d)'
        /\ doing'[s] = Help!Free
        /\ \A d \in Requests \ {s} : doing'[d] = Help!Free => doing[d] = Help!Free
    BY <1>1, <1>2, <1>3, <1>4, AfterWriting
  <1>6. /\ (Help!OpenRows)' \subseteq Help!OpenRows \cup {x}
        /\ \A o \in Help!Rows : cases'[o] = IF o = x THEN c ELSE cases[o]
        /\ x \in (Help!OpenRows)' => c.status = "open"
        /\ c.gone => Help!dismissedOf'
        /\ Help!Rows \subseteq {x} /\ ~ c.gone => ~ Help!dismissedOf'
    BY <1>0, <1>3, RowsAfterPut
  <1>7. (Help!OpenRows)' \subseteq Help!OpenRows
    BY <1>3, <1>6 DEF Help!OpenRows, Help!supportIsOpen
  <1>8. Help!OneOpenRow' BY <1>1, <1>7 DEF SupportInv, Help!OneOpenRow
  <1>9. \A o \in Help!Rows : cases'[o].status = cases[o].status BY <1>3, <1>6
  <1>10. ASSUME doing[s].what = "restore", ~ doing[s].late, Len(cases) = 1 PROVE ~ Help!dismissedOf'
    <2>1. Help!Rows = {1} BY <1>10 DEF Help!Rows
    <2>2. doing[s].row \in Help!Rows BY <1>10, <2>1 DEF SupportInv, RowChosen
    <2>3. Help!Rows \subseteq {x} BY <1>3, <2>1, <2>2
    <2>4. ~ c.gone BY <1>3, <1>10
    <2> QED BY <1>6, <2>3, <2>4
  <1> QED BY <1>1, <1>2, <1>3, <1>5, <1>6, <1>8, <1>9, <1>10 DEF SupportInv

(* Each step keeps the invariant, and writes rows for one caller at most.   *)
LEMMA SupportStays ==
    ASSUME SupportInv, [Help!Next]_helpVars
    PROVE  /\ SupportInv'
           /\ \/ UNCHANGED cases /\ \A s \in Requests : ~ Help!Writes(s)
              \/ \E s \in Requests :
                   /\ Help!WriteSave(s) \/ Help!WriteDismiss(s)
                   /\ Help!Writes(s) /\ \A d \in Requests : Help!Writes(d) => d = s
  <1>0. SupportTypes BY DEF SupportInv
  <1>1. CASE UNCHANGED helpVars
    <2>1. UNCHANGED cases /\ \A s \in Requests : ~ Help!Writes(s)
      BY <1>1 DEF helpVars, Help!Writes
    <2>2. (Help!Rows)' = Help!Rows /\ (Help!OpenRows)' = Help!OpenRows
      BY <1>1 DEF helpVars, Help!Rows, Help!OpenRows, Help!supportIsOpen
    <2>3. SupportTypes' BY <1>1, <2>2 DEF helpVars, SupportInv, SupportTypes
    <2>4. (\A s \in Requests : RowChosen(s)) => (\A s \in Requests : RowChosen(s)')
      BY <1>1, <2>2 DEF helpVars, RowChosen
    <2>5. Help!OneOpenRow => Help!OneOpenRow' BY <1>1, <2>2 DEF helpVars, Help!OneOpenRow
    <2> QED BY <2>1, <2>3, <2>4, <2>5 DEF SupportInv
  <1>2. ASSUME NEW s \in Requests, NEW status \in {"", "open", "ended"}, Help!Save(s, status)
        PROVE  SupportInv' /\ UNCHANGED cases /\ \A d \in Requests : ~ Help!Writes(d)
    <2>1. Suits("save", Help!SaveTarget)
      BY <1>0, SaveTargetIsOpen, RowsOfCases DEF Suits, SupportTypes
    <2>2. Help!Decide(s, "save", Help!SaveTarget, status) BY <1>2 DEF Help!Save
    <2> QED BY <2>1, <2>2, AfterDecide DEF Help!Writes
  <1>3. ASSUME NEW s \in Requests, NEW on \in BOOLEAN, Help!Dismiss(s, on)
        PROVE  SupportInv' /\ UNCHANGED cases /\ \A d \in Requests : ~ Help!Writes(d)
    <2> DEFINE w == IF on THEN "dismiss" ELSE "restore"
    <2>1. w \in {"save", "dismiss", "restore"} /\ w # "save" OBVIOUS
    <2>2. Help!Decide(s, w, Help!DismissTarget, "") BY <1>3 DEF Help!Dismiss
    <2> HIDE DEF w
    <2>3. Suits(w, Help!DismissTarget) BY <1>0, <2>1, DismissTargetIsRow DEF Suits
    <2> QED BY <2>1, <2>2, <2>3, AfterDecide DEF Help!Writes
  <1>4. ASSUME NEW s \in Requests, Help!WriteSave(s) \/ Help!WriteDismiss(s)
        PROVE  SupportInv' /\ Help!Writes(s) /\ \A d \in Requests : Help!Writes(d) => d = s
    BY <1>4, AfterWriteSave, AfterWriteDismiss DEF Help!Writes
  <1> QED BY <1>1, <1>2, <1>3, <1>4 DEF Help!Next

(* However the calls of staff overlap: a second open row needs a call that   *)
(* was overtaken, an ended case is reopened only by one that had read it    *)
(* open, and a dismissal hides the student (student-support.service.ts).   *)
THEOREM SupportIsKept == ServicesSpec => SupportKept
  <1>1. ServicesInit => SupportInv BY SupportInit DEF ServicesInit
  <1>2. [ServicesNext]_allVars => [Help!Next]_helpVars
    BY DEF ServicesNext, AutomStep, GradeStep, HelpStep, RoomStep, LinkStep, allVars
  <1>3. SupportInv /\ [Help!Next]_helpVars => SupportInv' BY SupportStays
  <1>4. SupportInv => (active = "support" => Help!TypeInv /\ Help!OneOpenRow)
    <2> SUFFICES ASSUME SupportInv PROVE Help!TypeInv /\ Help!OneOpenRow OBVIOUS
    <2>1. \A r \in Help!Rows : cases[r].status \in Help!Statuses
      BY RowsOfCases DEF SupportInv, SupportTypes, CaseType
    <2> QED BY <2>1 DEF SupportInv, SupportTypes, Help!TypeInv, Help!Nothing
  <1>5. SupportInv /\ [Help!Next]_helpVars =>
          [\A r \in Help!Rows :
             /\ cases[r].status = "ended" /\ cases'[r].status = "open" =>
                  \E s \in Requests : Help!Writes(s) /\ doing[s].row = r /\ doing[s].late
             /\ cases[r].gone # cases'[r].gone =>
                  \E s \in Requests : Help!Writes(s) /\ doing[s].what # "save"]_Help!vars
    <2> SUFFICES ASSUME SupportInv, [Help!Next]_helpVars, NEW r \in Help!Rows
                 PROVE /\ cases[r].status = "ended" /\ cases'[r].status = "open" =>
                            \E s \in Requests : Help!Writes(s) /\ doing[s].row = r /\ doing[s].late
                       /\ cases[r].gone # cases'[r].gone =>
                            \E s \in Requests : Help!Writes(s) /\ doing[s].what # "save"
      OBVIOUS
    <2>1. CASE UNCHANGED cases BY <2>1
    <2>2. ASSUME NEW s \in Requests, Help!WriteSave(s), Help!Writes(s)
          PROVE /\ cases[r].status = "ended" /\ cases'[r].status = "open" =>
                     \E d \in Requests : Help!Writes(d) /\ doing[d].row = r /\ doing[d].late
                /\ cases[r].gone = cases'[r].gone
      BY <2>2, AfterWriteSave
    <2>3. ASSUME NEW s \in Requests, Help!WriteDismiss(s), Help!Writes(s)
          PROVE /\ cases[r].status = cases'[r].status /\ doing[s].what # "save"
      BY <2>3, AfterWriteDismiss
    <2> QED BY <2>1, <2>2, <2>3, SupportStays
  <1>6. SupportInv /\ [Help!Next]_helpVars =>
          [\A s \in Requests : Help!Writes(s) /\ doing[s].what = "dismiss" => Help!dismissedOf']_Help!vars
    <2> SUFFICES ASSUME SupportInv, [Help!Next]_helpVars, NEW s \in Requests,
                        Help!Writes(s), doing[s].what = "dismiss"
                 PROVE Help!dismissedOf'
      OBVIOUS
    <2>1. Help!WriteSave(s) \/ Help!WriteDismiss(s) BY SupportStays
    <2> QED BY <2>1, AfterWriteSave, AfterWriteDismiss
  <1>7. SupportInv /\ [Help!Next]_helpVars =>
          [\A s \in Requests : Help!Writes(s) /\ doing[s].what = "restore" /\ ~doing[s].late
             /\ Len(cases) = 1 => ~Help!dismissedOf']_Help!vars
    <2> SUFFICES ASSUME SupportInv, [Help!Next]_helpVars, NEW s \in Requests,
                        Help!Writes(s), doing[s].what = "restore", ~ doing[s].late, Len(cases) = 1
                 PROVE ~Help!dismissedOf'
      OBVIOUS
    <2>1. Help!WriteSave(s) \/ Help!WriteDismiss(s) BY SupportStays
    <2> QED BY <2>1, AfterWriteSave, AfterWriteDismiss
  <1>8. ServicesSpec => []SupportInv BY <1>1, <1>2, <1>3, PTL DEF ServicesSpec
  <1> QED BY <1>2, <1>4, <1>5, <1>6, <1>7, <1>8, PTL
          DEF ServicesSpec, SupportKept, Help!EndedStays, Help!DismissHides, Help!RestoreOfOne

-----------------------------------------------------------------------------
(* Term grades of a class (TermGrade).                                     *)
NoTotal == 0
Roll  == "roll"
Edits == {"confirm", "adjust", "restore", "comment"}

Plans == [Students -> [total : Totals \cup {NoTotal}, isNew : BOOLEAN]]
           \cup [total : Totals, before : Totals] \cup [total : Totals]
           \cup BOOLEAN \cup {<<>>}
CallType == [kind : Edits \cup {Roll, "idle"}, todo : SUBSET Students, plan : Plans,
             late : SUBSET Students]

GradeTypes ==
    /\ mark \in [Students -> Totals \cup {NoTotal}] /\ rolled \in [Students -> Totals \cup {NoTotal}]
    /\ row \in [Students -> Grade!Row \cup {Grade!NoRow}] /\ muddled \subseteq Students
    /\ grading \in [Requests -> CallType]

(* What a call has planned, by its kind. *)
PlanFits(j) ==
    /\ j.kind = "idle" => j = Grade!Idle
    /\ j.kind = Roll => /\ j.plan \in [Students -> [total : Totals \cup {NoTotal}, isNew : BOOLEAN]]
                        /\ \A p \in j.todo : j.plan[p].total \in Totals
    /\ j.kind = "adjust"  => j.plan \in [total : Totals, before : Totals]
    /\ j.kind = "restore" => j.plan \in [total : Totals]
    /\ j.kind = "comment" => j.plan \in BOOLEAN

(* What a call has read of a pupil's row still holds, unless it is late.    *)
StillRead(j, p) ==
    /\ ~ Grade!IsConfirmed(p)
    /\ j.kind = "adjust"  => row[p].total = j.plan.before
    /\ j.kind = "restore" => row[p].before = j.plan.total
    /\ j.kind = Roll /\ Grade!Has(p) => row[p].total # j.plan[p].total

CallFits(j) ==
    /\ j.late \subseteq j.todo
    /\ PlanFits(j)
    /\ j.kind \in Edits => \A p \in j.todo : Grade!Has(p)
    /\ \A p \in j.todo \ j.late : StillRead(j, p)

(* The total rolled last is the total of a row, or what an adjustment keeps *)
(* to go back to.                                                          *)
KeepsRolled(p) ==
    Grade!Has(p) =>
      /\ row[p].source # "manual" => row[p].before = NoTotal
      /\ p \notin muddled => rolled[p] = IF row[p].source = "manual" THEN row[p].before
                                         ELSE row[p].total

GradeInv ==
    /\ GradeTypes
    /\ \A c \in Requests : CallFits(grading[c])
    /\ \A p \in Students : KeepsRolled(p)

LEMMA TotalsAreNot0 == Totals \subseteq Nat /\ NoTotal \notin Totals
  BY GradeAssumption DEF Grade!GradeAssumption, Grade!NoTotal, NoTotal

LEMMA HasRow ==
    ASSUME GradeTypes, NEW p \in Students
    PROVE  /\ Grade!Has(p) <=> row[p] \in Grade!Row
           /\ Grade!Has(p) <=> row[p].total # NoTotal
           /\ ~ Grade!Has(p) <=> row[p] = Grade!NoRow
  <1>1. row[p] \in Grade!Row \cup {Grade!NoRow} BY DEF GradeTypes
  <1>2. Grade!NoRow.total = NoTotal BY DEF Grade!NoRow, Grade!NoTotal, NoTotal
  <1>3. \A r \in Grade!Row : r.total # NoTotal BY TotalsAreNot0 DEF Grade!Row
  <1> QED BY <1>1, <1>2, <1>3 DEF Grade!Has

LEMMA IdleFits == Grade!Idle \in CallType /\ Grade!Idle.kind = "idle"
                  /\ Grade!Idle.todo = {} /\ Grade!Idle.late = {} /\ PlanFits(Grade!Idle)
  BY DEF Grade!Idle, CallType, Plans, Edits, Roll, PlanFits

LEMMA GradesInit == Grade!Init => GradeInv
  <1> SUFFICES ASSUME Grade!Init PROVE GradeInv OBVIOUS
  <1>1. GradeTypes BY IdleFits DEF Grade!Init, GradeTypes, Grade!NoTotal, NoTotal
  <1>2. \A p \in Students : ~ Grade!Has(p) BY DEF Grade!Init, Grade!Has
  <1>3. \A c \in Requests : grading[c] = Grade!Idle BY DEF Grade!Init
  <1>4. CallFits(Grade!Idle) BY IdleFits DEF CallFits, Edits
  <1> QED BY <1>1, <1>2, <1>3, <1>4 DEF GradeInv, KeepsRolled

(* A call begins with what it has read just now. *)
LEMMA AfterBegin ==
    ASSUME GradeInv, NEW c \in Requests, NEW kind \in Edits \cup {Roll}, NEW todo \in SUBSET Students,
           NEW plan \in Plans, Grade!Begin(c, kind, todo, plan),
           CallFits([kind |-> kind, todo |-> todo, plan |-> plan, late |-> {}])
    PROVE  GradeInv' /\ UNCHANGED row
  <1> DEFINE j == [kind |-> kind, todo |-> todo, plan |-> plan, late |-> {}]
  <1>1. j \in CallType BY DEF CallType
  <1>2. /\ UNCHANGED <<mark, row, marks, rolled, muddled>>
        /\ grading' = IF todo = {} THEN grading ELSE [grading EXCEPT ![c] = j]
    BY DEF Grade!Begin
  <1> HIDE DEF j
  <1>3. grading' \in [Requests -> CallType]
        /\ \A d \in Requests : grading'[d] = grading[d] \/ grading'[d] = j
    BY <1>1, <1>2 DEF GradeInv, GradeTypes
  <1>4. GradeTypes' BY <1>2, <1>3 DEF GradeInv, GradeTypes
  <1>5. ASSUME NEW x, CallFits(x), NEW d \in Requests, grading'[d] = x PROVE CallFits(grading[d])'
    BY <1>2, <1>5 DEF CallFits, PlanFits, StillRead, Grade!Has, Grade!IsConfirmed
  <1>6. CallFits(j) BY DEF j
  <1>7. \A d \in Requests : CallFits(grading[d])' BY <1>3, <1>5, <1>6 DEF GradeInv
  <1>8. \A p \in Students : KeepsRolled(p)' BY <1>2 DEF GradeInv, KeepsRolled, Grade!Has
  <1> QED BY <1>2, <1>4, <1>7, <1>8 DEF GradeInv

LEMMA AfterRollRead ==
    ASSUME GradeInv, NEW c \in Requests, Grade!RollRead(c)
    PROVE  GradeInv' /\ UNCHANGED row
  <1> DEFINE plan == [p \in Students |-> [total |-> mark[p], isNew |-> ~ Grade!Has(p)]]
             j == [kind |-> Roll, todo |-> Grade!ToRoll, plan |-> plan, late |-> {}]
  <1>1. Grade!Begin(c, Roll, Grade!ToRoll, plan) BY DEF Grade!RollRead, Roll
  <1>2. \A p \in Students : plan[p].total = mark[p] OBVIOUS
  <1>3. plan \in [Students -> [total : Totals \cup {NoTotal}, isNew : BOOLEAN]]
    BY DEF GradeInv, GradeTypes
  <1> HIDE DEF plan
  <1>4. plan \in Plans BY <1>3 DEF Plans
  <1>5. Grade!ToRoll \in SUBSET Students BY DEF Grade!ToRoll
  <1>6. /\ j.kind = Roll /\ j.todo = Grade!ToRoll /\ j.plan = plan /\ j.late = {} OBVIOUS
  <1> HIDE DEF j
  <1>7. \A p \in Grade!ToRoll : /\ p \in Students /\ mark[p] \in Totals /\ ~ Grade!IsConfirmed(p)
                                /\ Grade!Has(p) => row[p].total # mark[p]
    BY DEF Grade!ToRoll, GradeInv, GradeTypes, NoTotal, Grade!NoTotal
  <1>8. CallFits(j)
    BY <1>2, <1>3, <1>6, <1>7 DEF CallFits, PlanFits, StillRead, Roll, Edits
  <1> QED BY <1>1, <1>4, <1>5, <1>8, AfterBegin DEF j

LEMMA AfterEditRead ==
    ASSUME GradeInv, NEW c \in Requests, NEW kind \in Edits, NEW todo \in SUBSET Students,
           NEW plan \in Plans, Grade!Begin(c, kind, todo, plan),
           \A p \in todo : Grade!Has(p) /\ ~ Grade!IsConfirmed(p),
           kind = "adjust"  => plan \in [total : Totals, before : Totals]
                               /\ \A p \in todo : row[p].total = plan.before,
           kind = "restore" => plan \in [total : Totals] /\ \A p \in todo : row[p].before = plan.total,
           kind = "comment" => plan \in BOOLEAN
    PROVE  GradeInv' /\ UNCHANGED row
  <1> DEFINE j == [kind |-> kind, todo |-> todo, plan |-> plan, late |-> {}]
  <1>1. j.kind = kind /\ j.todo = todo /\ j.plan = plan /\ j.late = {} OBVIOUS
  <1> HIDE DEF j
  <1>2. PlanFits(j) BY <1>1 DEF PlanFits, Edits, Roll
  <1>3. \A p \in todo : StillRead(j, p) BY <1>1 DEF StillRead, Edits, Roll
  <1>4. CallFits(j) BY <1>1, <1>2, <1>3 DEF CallFits
  <1> QED BY <1>4, AfterBegin DEF j

LEMMA AfterReads ==
    ASSUME GradeInv, NEW c \in Requests,
           \/ Grade!ConfirmAllRead(c)
           \/ \E ps \in SUBSET Students, text \in BOOLEAN : Grade!CommentsRead(c, ps, text)
           \/ \E p \in Students : (\E t \in Totals : Grade!AdjustRead(c, p, t)) \/ Grade!RestoreRead(c, p)
    PROVE  GradeInv' /\ UNCHANGED row
  <1>1. CASE Grade!ConfirmAllRead(c)
    <2> DEFINE todo == {p \in Students : Grade!Has(p) /\ ~ Grade!IsConfirmed(p) /\ mark[p] # NoTotal}
    <2>1. Grade!Begin(c, "confirm", todo, <<>>)
      BY <1>1 DEF Grade!ConfirmAllRead, NoTotal, Grade!NoTotal
    <2>2. <<>> \in Plans /\ "confirm" \in Edits BY DEF Plans, Edits
    <2> QED BY <2>1, <2>2, AfterEditRead
  <1>2. ASSUME NEW ps \in SUBSET Students, NEW text \in BOOLEAN, Grade!CommentsRead(c, ps, text)
        PROVE  GradeInv' /\ UNCHANGED row
    <2> DEFINE todo == {p \in ps : Grade!Has(p) /\ ~ Grade!IsConfirmed(p)}
    <2>1. Grade!Begin(c, "comment", todo, text) BY <1>2 DEF Grade!CommentsRead
    <2>2. text \in Plans /\ "comment" \in Edits BY DEF Plans, Edits
    <2> QED BY <2>1, <2>2, AfterEditRead
  <1>3. ASSUME NEW p \in Students, NEW t \in Totals, Grade!AdjustRead(c, p, t)
        PROVE  GradeInv' /\ UNCHANGED row
    <2> DEFINE plan == [total |-> t, before |-> row[p].total]
    <2>1. /\ Grade!Begin(c, "adjust", {p}, plan) /\ Grade!Has(p) /\ ~ Grade!IsConfirmed(p)
      BY <1>3 DEF Grade!AdjustRead
    <2>2. row[p] \in Grade!Row BY <2>1, HasRow DEF GradeInv
    <2>3. plan \in [total : Totals, before : Totals] /\ plan.before = row[p].total
      BY <2>2 DEF Grade!Row
    <2> HIDE DEF plan
    <2>4. plan \in Plans /\ "adjust" \in Edits BY <2>3 DEF Plans, Edits
    <2> QED BY <2>1, <2>3, <2>4, AfterEditRead
  <1>4. ASSUME NEW p \in Students, Grade!RestoreRead(c, p)
        PROVE  GradeInv' /\ UNCHANGED row
    <2> DEFINE plan == [total |-> row[p].before]
    <2>1. /\ Grade!Begin(c, "restore", {p}, plan) /\ Grade!Has(p) /\ ~ Grade!IsConfirmed(p)
          /\ row[p].before # NoTotal
      BY <1>4 DEF Grade!RestoreRead, NoTotal, Grade!NoTotal
    <2>2. row[p] \in Grade!Row BY <2>1, HasRow DEF GradeInv
    <2>3. plan \in [total : Totals] /\ plan.total = row[p].before
      BY <2>1, <2>2 DEF Grade!Row, NoTotal, Grade!NoTotal
    <2> HIDE DEF plan
    <2>4. plan \in Plans /\ "restore" \in Edits BY <2>3 DEF Plans, Edits
    <2> QED BY <2>1, <2>3, <2>4, AfterEditRead
  <1> QED BY <1>1, <1>2, <1>3, <1>4

(* A call goes on after rows of ps have been written: where one it has read *)
(* is among them, it is late there, unless it is done with it.              *)
GoesOn(j, k, ps) ==
    \/ k = Grade!Idle
    \/ /\ k.kind = j.kind /\ k.plan = j.plan /\ k.todo \subseteq j.todo /\ k.late \subseteq k.todo
       /\ j.kind = "idle" => k = j
       /\ \A q \in k.todo \ k.late : q \in j.todo \ j.late /\ q \notin ps

LEMMA CallsGoOn ==
    ASSUME GradeInv, NEW ps \in SUBSET Students,
           \A p \in ps : row'[p] \in Grade!Row, \A p \in Students \ ps : row'[p] = row[p],
           GradeTypes', \A d \in Requests : GoesOn(grading[d], grading'[d], ps)
    PROVE  \A d \in Requests : CallFits(grading[d])'
  <1> SUFFICES ASSUME NEW d \in Requests PROVE CallFits(grading[d])' OBVIOUS
  <1> DEFINE j == grading[d]
             k == grading'[d]
  <1>1. CallFits(j) /\ j \in CallType /\ k \in CallType /\ GoesOn(j, k, ps)
    BY DEF GradeInv, GradeTypes
  <1>2. \A p \in Students : Grade!Has(p) => Grade!Has(p)'
    <2>1. \A p \in ps : Grade!Has(p)'
      <3>1. \A p \in Students : row'[p] \in Grade!Row => row'[p] # Grade!NoRow
        BY HasRow, TotalsAreNot0 DEF Grade!Row, Grade!NoRow, NoTotal, Grade!NoTotal
      <3> QED BY <3>1 DEF Grade!Has
    <2> QED BY <2>1 DEF Grade!Has
  <1> HIDE DEF j, k
  <1>3. CASE k = Grade!Idle
    <2>1. CallFits(Grade!Idle)'
      BY IdleFits DEF CallFits, Edits, PlanFits
    <2> QED BY <1>3, <2>1 DEF k, CallFits, PlanFits, StillRead
  <1>4. CASE k # Grade!Idle
    <2>1. /\ k.kind = j.kind /\ k.plan = j.plan /\ k.todo \subseteq j.todo /\ k.late \subseteq k.todo
          /\ j.kind = "idle" => k = j
          /\ \A q \in k.todo \ k.late : q \in j.todo \ j.late /\ q \notin ps
      BY <1>1, <1>4 DEF GoesOn
    <2>2. PlanFits(k) BY <1>1, <2>1 DEF PlanFits, CallFits
    <2>3. ASSUME NEW q \in k.todo \ k.late PROVE StillRead(grading[d], q)'
      <3>1. q \in Students /\ q \notin ps /\ StillRead(j, q)
        BY <1>1, <2>1 DEF CallFits, CallType
      <3>2. row'[q] = row[q] BY <3>1
      <3> QED BY <2>1, <3>1, <3>2 DEF StillRead, Grade!Has, Grade!IsConfirmed, k
    <2>4. k.kind \in Edits => \A p \in k.todo : Grade!Has(p)'
      BY <1>1, <1>2, <2>1 DEF CallFits, CallType
    <2>5. PlanFits(grading[d])' BY <2>2 DEF k, PlanFits
    <2> QED BY <2>1, <2>3, <2>4, <2>5 DEF k, CallFits
  <1> QED BY <1>3, <1>4

(* The others that had read the rows of ps are late there.                  *)
LEMMA LateGoesOn ==
    ASSUME NEW j \in CallType, CallFits(j), NEW ps
    PROVE  LET k == [j EXCEPT !.late = @ \cup (ps \cap j.todo)]
           IN  k \in CallType /\ k.kind = j.kind /\ k.todo = j.todo /\ GoesOn(j, k, ps)
  <1> DEFINE k == [j EXCEPT !.late = @ \cup (ps \cap j.todo)]
  <1>1. /\ k \in CallType /\ k.kind = j.kind /\ k.todo = j.todo /\ k.plan = j.plan
        /\ k.late = j.late \cup (ps \cap j.todo)
    BY DEF CallType
  <1>2. k.late \subseteq k.todo BY <1>1 DEF CallFits
  <1>3. ASSUME j.kind = "idle" PROVE k = j
    <2>1. j.todo = {} BY <1>3, IdleFits DEF CallFits, PlanFits
    <2>2. j.late \cup (ps \cap j.todo) = j.late BY <2>1
    <2> QED BY <2>2 DEF CallType
  <1>4. \A q \in k.todo \ k.late : q \in j.todo \ j.late /\ q \notin ps BY <1>1
  <1> HIDE DEF k
  <1>5. GoesOn(j, k, ps) BY <1>1, <1>2, <1>3, <1>4 DEF GoesOn
  <1> QED BY <1>1, <1>5 DEF k

LEMMA AfterOvertake ==
    ASSUME GradeInv, NEW c \in Requests, NEW ps, NEW rest \in CallType,
           Grade!Overtake(c, ps, rest), GoesOn(grading[c], rest, ps)
    PROVE  /\ grading' \in [Requests -> CallType] /\ grading'[c] = rest
           /\ \A d \in Requests \ {c} : grading'[d].kind = grading[d].kind
                                        /\ grading'[d].todo = grading[d].todo
           /\ \A d \in Requests : GoesOn(grading[d], grading'[d], ps)
  <1> DEFINE k(j) == [j EXCEPT !.late = @ \cup (ps \cap j.todo)]
  <1>1. \A d \in Requests : grading[d] \in CallType /\ CallFits(grading[d])
    BY DEF GradeInv, GradeTypes
  <1>2. \A d \in Requests : /\ k(grading[d]) \in CallType /\ k(grading[d]).kind = grading[d].kind
                            /\ k(grading[d]).todo = grading[d].todo
                            /\ GoesOn(grading[d], k(grading[d]), ps)
    BY <1>1, LateGoesOn
  <1>3. grading' = [d \in Requests |-> IF d = c THEN rest ELSE k(grading[d])]
    BY DEF Grade!Overtake
  <1> HIDE DEF k
  <1> QED BY <1>2, <1>3

(* An update of one row of a call. *)
LEMMA AfterStep ==
    ASSUME GradeInv, NEW c \in Requests, NEW p \in Students, p \in grading[c].todo,
           grading[c].kind \in Edits,
           NEW new \in Grade!Row, Grade!Step(c, p, new), NEW twice \in BOOLEAN,
           Grade!Muddle(c, p, twice),
           new.source # "manual" => new.before = NoTotal,
           p \notin muddled' => rolled[p] = IF new.source = "manual" THEN new.before ELSE new.total
    PROVE  /\ GradeInv' /\ Grade!Has(p) /\ row[p] \in Grade!Row /\ row' = [row EXCEPT ![p] = new]
           /\ p \notin grading'[c].todo
           /\ Grade!IsConfirmed(p) => Grade!WasLate(p)
  <1> DEFINE j == grading[c]
             rest == IF j.todo = {p} THEN Grade!Idle
                     ELSE [j EXCEPT !.todo = @ \ {p}, !.late = @ \ {p}]
  <1>1. j \in CallType /\ CallFits(j) /\ j.kind # "idle" BY DEF GradeInv, GradeTypes, Edits
  <1>2. rest \in CallType /\ GoesOn(j, rest, {p}) /\ p \notin rest.todo
    <2>1. CASE j.todo = {p} BY <2>1, IdleFits DEF GoesOn
    <2>2. CASE j.todo # {p}
      <3>1. rest = [j EXCEPT !.todo = j.todo \ {p}, !.late = j.late \ {p}] BY <2>2
      <3> HIDE DEF rest
      <3>2. /\ rest \in CallType /\ rest.todo = j.todo \ {p} /\ rest.late = j.late \ {p}
            /\ rest.kind = j.kind /\ rest.plan = j.plan
        BY <1>1, <3>1 DEF CallType
      <3> QED BY <1>1, <3>2 DEF GoesOn, CallFits
    <2> QED BY <2>1, <2>2
  <1>3. /\ row' = [row EXCEPT ![p] = new] /\ Grade!Overtake(c, {p}, rest)
        /\ UNCHANGED <<mark, calls, marks, rolled>>
    BY DEF Grade!Step
  <1> HIDE DEF j, rest
  <1>4. /\ grading' \in [Requests -> CallType] /\ grading'[c] = rest
        /\ \A d \in Requests : GoesOn(grading[d], grading'[d], {p})
    BY <1>2, <1>3, AfterOvertake DEF j
  <1>5. muddled' \subseteq muddled \cup {p} /\ muddled \subseteq muddled' BY DEF Grade!Muddle
  <1>6. /\ row' \in [Students -> Grade!Row \cup {Grade!NoRow}] /\ row'[p] = new
        /\ \A q \in Students \ {p} : row'[q] = row[q]
    BY <1>3 DEF GradeInv, GradeTypes
  <1>7. GradeTypes' BY <1>3, <1>4, <1>5, <1>6 DEF GradeInv, GradeTypes
  <1>8. \A d \in Requests : CallFits(grading[d])' BY <1>4, <1>6, <1>7, CallsGoOn
  <1>9. \A q \in Students : KeepsRolled(q)'
    <2>1. KeepsRolled(p)' BY <1>3, <1>6 DEF KeepsRolled
    <2>2. ASSUME NEW q \in Students \ {p} PROVE KeepsRolled(q)'
      BY <1>3, <1>5, <1>6, <2>2 DEF GradeInv, KeepsRolled, Grade!Has
    <2> QED BY <2>1, <2>2
  <1>10. Grade!Has(p) BY <1>1 DEF CallFits, j
  <1>11. row[p] \in Grade!Row BY <1>10, HasRow DEF GradeInv
  <1>12. Grade!IsConfirmed(p) => p \in grading[c].late BY <1>1 DEF CallFits, StillRead, j
  <1>13. p \notin grading'[c].todo BY <1>2, <1>4
  <1>14. Grade!IsConfirmed(p) => Grade!WasLate(p) BY <1>12, <1>13 DEF Grade!WasLate
  <1> QED BY <1>3, <1>7, <1>8, <1>9, <1>10, <1>11, <1>13, <1>14 DEF GradeInv

(* What a step of the grades may do to the rows.                            *)
RowsKept ==
    \A p \in Students :
      /\ Grade!IsConfirmed(p) /\ row'[p] # row[p] =>
           row'[p] = [row[p] EXCEPT !.state = "draft"] \/ Grade!WasLate(p)
      /\ Grade!Has(p) /\ row[p].comment # row'[p].comment =>
           \/ Grade!Wrote("comment", p)
           \/ Grade!Wrote(Roll, p) /\ (row'[p].total # row[p].total \/ Grade!WasLate(p))

LEMMA AfterEditStep ==
    ASSUME GradeInv, NEW c \in Requests, NEW p \in Students,
           \/ Grade!ConfirmAllStep(c, p) \/ Grade!AdjustWrite(c, p)
           \/ Grade!RestoreWrite(c, p)   \/ Grade!CommentsStep(c, p)
    PROVE  GradeInv' /\ RowsKept
  <1>1. /\ p \in grading[c].todo /\ grading[c].kind \in Edits
    BY DEF Grade!ConfirmAllStep, Grade!AdjustWrite, Grade!RestoreWrite, Grade!CommentsStep, Edits
  <1>2. CallFits(grading[c]) /\ Grade!Has(p) BY <1>1 DEF GradeInv, CallFits
  <1>3. row[p] \in Grade!Row BY <1>2, HasRow DEF GradeInv
  <1>4. KeepsRolled(p) BY DEF GradeInv
  <1>5. p \notin grading[c].late => StillRead(grading[c], p) BY <1>1, <1>2 DEF CallFits
  <1>6. ASSUME NEW new \in Grade!Row, Grade!Step(c, p, new), NEW twice \in BOOLEAN,
               Grade!Muddle(c, p, twice),
               new.source # "manual" => new.before = NoTotal,
               p \notin muddled' => rolled[p] = IF new.source = "manual" THEN new.before ELSE new.total,
               new.comment = row[p].comment \/ grading[c].kind = "comment"
        PROVE  GradeInv' /\ RowsKept
    <2>1. /\ GradeInv' /\ row' = [row EXCEPT ![p] = new] /\ p \notin grading'[c].todo
          /\ Grade!IsConfirmed(p) => Grade!WasLate(p)
      BY <1>1, <1>6, AfterStep
    <2>2. row'[p] = new /\ \A q \in Students \ {p} : row'[q] = row[q]
      BY <2>1 DEF GradeInv, GradeTypes
    <2>3. grading[c].kind = "comment" => Grade!Wrote("comment", p) BY <1>1, <2>1 DEF Grade!Wrote
    <2> QED BY <1>6, <2>1, <2>2, <2>3 DEF RowsKept
  <1>8. CASE Grade!ConfirmAllStep(c, p)
    <2> DEFINE new == [row[p] EXCEPT !.state = "confirmed"]
    <2>1. /\ new \in Grade!Row /\ new.source = row[p].source /\ new.before = row[p].before
          /\ new.total = row[p].total /\ new.comment = row[p].comment
      BY <1>3 DEF Grade!Row
    <2>2. Grade!Step(c, p, new) /\ Grade!Muddle(c, p, FALSE) BY <1>8 DEF Grade!ConfirmAllStep
    <2> HIDE DEF new
    <2>3. p \notin muddled' => p \notin muddled BY <2>2 DEF Grade!Muddle
    <2> QED BY <1>2, <1>4, <1>6, <2>1, <2>2, <2>3 DEF KeepsRolled
  <1>9. CASE Grade!CommentsStep(c, p)
    <2> DEFINE new == [row[p] EXCEPT !.comment = grading[c].plan]
    <2>1. grading[c].plan \in BOOLEAN /\ grading[c].kind = "comment"
      BY <1>2, <1>9 DEF Grade!CommentsStep, CallFits, PlanFits
    <2>2. /\ new \in Grade!Row /\ new.source = row[p].source /\ new.before = row[p].before
          /\ new.total = row[p].total
      BY <1>3, <2>1 DEF Grade!Row
    <2>3. Grade!Step(c, p, new) /\ Grade!Muddle(c, p, FALSE) BY <1>9 DEF Grade!CommentsStep
    <2> HIDE DEF new
    <2>4. p \notin muddled' => p \notin muddled BY <2>3 DEF Grade!Muddle
    <2> QED BY <1>2, <1>4, <1>6, <2>1, <2>2, <2>3, <2>4 DEF KeepsRolled
  <1>10. CASE Grade!AdjustWrite(c, p)
    <2> DEFINE plan == grading[c].plan
               twice == row[p].source = "manual"
               new == [row[p] EXCEPT !.total = plan.total, !.source = "manual", !.before = plan.before]
    <2>1. plan \in [total : Totals, before : Totals] /\ grading[c].kind = "adjust"
      BY <1>2, <1>10 DEF Grade!AdjustWrite, CallFits, PlanFits
    <2>2. Grade!Step(c, p, new) /\ Grade!Muddle(c, p, twice) BY <1>10 DEF Grade!AdjustWrite
    <2> HIDE DEF plan
    <2>3. /\ new \in Grade!Row /\ new.source = "manual" /\ new.before = plan.before
          /\ new.comment = row[p].comment
      BY <1>3, <2>1 DEF Grade!Row
    <2> HIDE DEF new
    <2>4. p \notin muddled' => p \notin muddled /\ p \notin grading[c].late /\ row[p].source # "manual"
      BY <2>2 DEF Grade!Muddle
    <2>5. p \notin grading[c].late => row[p].total = plan.before
      BY <1>5, <2>1 DEF StillRead, plan
    <2>6. p \notin muddled' => rolled[p] = new.before
      BY <1>2, <1>4, <2>3, <2>4, <2>5 DEF KeepsRolled
    <2>7. twice \in BOOLEAN OBVIOUS
    <2> HIDE DEF twice
    <2> QED BY <1>6, <2>2, <2>3, <2>6, <2>7
  <1>11. CASE Grade!RestoreWrite(c, p)
    <2> DEFINE plan == grading[c].plan
               new == [row[p] EXCEPT !.total = plan.total, !.source = "auto", !.before = NoTotal]
    <2>1. plan \in [total : Totals] /\ grading[c].kind = "restore"
      BY <1>2, <1>11 DEF Grade!RestoreWrite, CallFits, PlanFits
    <2>2. Grade!Step(c, p, new) /\ Grade!Muddle(c, p, FALSE)
      BY <1>11 DEF Grade!RestoreWrite, NoTotal, Grade!NoTotal
    <2> HIDE DEF plan
    <2>3. /\ new \in Grade!Row /\ new.source = "auto" /\ new.before = NoTotal
          /\ new.total = plan.total /\ new.comment = row[p].comment
      BY <1>3, <2>1 DEF Grade!Row, NoTotal, Grade!NoTotal
    <2> HIDE DEF new
    <2>4. p \notin muddled' => p \notin muddled /\ p \notin grading[c].late
      BY <2>2 DEF Grade!Muddle
    <2>5. p \notin grading[c].late => row[p].before = plan.total
      BY <1>5, <2>1 DEF StillRead, plan
    <2>6. plan.total # NoTotal BY <2>1, TotalsAreNot0
    <2>7. p \notin muddled' => rolled[p] = new.total
      BY <1>2, <1>4, <2>3, <2>4, <2>5, <2>6 DEF KeepsRolled
    <2> QED BY <1>6, <2>2, <2>3, <2>7
  <1> QED BY <1>8, <1>9, <1>10, <1>11

(* The rows of a roll are replaced in one go. *)
LEMMA AfterRollWrite ==
    ASSUME GradeInv, NEW c \in Requests, Grade!RollWrite(c)
    PROVE  GradeInv' /\ RowsKept
  <1> DEFINE j == grading[c]
             ps == j.todo
             new(p) == Grade!Rolled(j.plan[p])
  <1>1. j \in CallType /\ CallFits(j) /\ j.kind = Roll /\ ps \in SUBSET Students /\ j.late \subseteq ps
    BY DEF GradeInv, GradeTypes, Grade!RollWrite, CallType, CallFits, Roll
  <1>2. /\ row' = [p \in Students |-> IF p \in ps THEN new(p) ELSE row[p]]
        /\ rolled' = [p \in Students |-> IF p \in ps THEN j.plan[p].total ELSE rolled[p]]
        /\ muddled' = (muddled \ ps) \cup (ps \cap j.late)
        /\ Grade!Overtake(c, ps, Grade!Idle) /\ UNCHANGED <<mark, calls, marks>>
    BY DEF Grade!RollWrite
  <1>3. \A p \in ps : j.plan[p].total \in Totals BY <1>1 DEF CallFits, PlanFits
  <1>4. \A p \in ps : /\ new(p) \in Grade!Row /\ new(p).total = j.plan[p].total
                      /\ new(p).source # "manual" /\ new(p).before = NoTotal
    BY <1>3 DEF Grade!Rolled, Grade!Row, NoTotal, Grade!NoTotal
  <1>5. /\ grading' \in [Requests -> CallType] /\ grading'[c] = Grade!Idle
        /\ \A d \in Requests : GoesOn(grading[d], grading'[d], ps)
    BY <1>2, IdleFits, AfterOvertake DEF GoesOn
  <1>6. \A p \in ps \ j.late : StillRead(j, p) BY <1>1 DEF CallFits
  <1>7. \A p \in ps : Grade!Wrote(Roll, p) /\ (p \in j.late => Grade!WasLate(p))
    BY <1>1, <1>5, IdleFits DEF Grade!Wrote, Grade!WasLate
  <1> HIDE DEF j, new
  <1>8. /\ \A p \in ps : row'[p] = new(p) /\ rolled'[p] = j.plan[p].total
        /\ \A p \in Students \ ps : row'[p] = row[p] /\ rolled'[p] = rolled[p]
    BY <1>1, <1>2
  <1>9. GradeTypes'
    <2>1. row' \in [Students -> Grade!Row \cup {Grade!NoRow}] BY <1>2, <1>4 DEF GradeInv, GradeTypes
    <2>2. rolled' \in [Students -> Totals \cup {NoTotal}] BY <1>2, <1>3 DEF GradeInv, GradeTypes
    <2> QED BY <1>1, <1>2, <1>5, <2>1, <2>2 DEF GradeInv, GradeTypes
  <1>10. \A d \in Requests : CallFits(grading[d])' BY <1>1, <1>4, <1>5, <1>8, <1>9, CallsGoOn
  <1>11. \A p \in Students : KeepsRolled(p)'
    <2>1. ASSUME NEW p \in ps PROVE KeepsRolled(p)' BY <1>4, <1>8, <2>1 DEF KeepsRolled
    <2>2. ASSUME NEW p \in Students \ ps PROVE KeepsRolled(p)'
      BY <1>2, <1>8, <2>2 DEF GradeInv, KeepsRolled, Grade!Has
    <2> QED BY <2>1, <2>2
  <1>12. \A p \in ps : Grade!IsConfirmed(p) => Grade!WasLate(p) BY <1>6, <1>7 DEF StillRead
  <1>13. \A p \in ps : Grade!Has(p) => row'[p].total # row[p].total \/ Grade!WasLate(p)
    BY <1>1, <1>4, <1>6, <1>7, <1>8 DEF StillRead
  <1>14. RowsKept BY <1>1, <1>7, <1>8, <1>12, <1>13 DEF RowsKept
  <1> QED BY <1>9, <1>10, <1>11, <1>14 DEF GradeInv

LEMMA AfterSetState ==
    ASSUME GradeInv, NEW p \in Students, NEW s \in {"confirmed", "draft"}, Grade!SetState(p, s),
           s = "draft" \/ row[p].state # "confirmed"
    PROVE  GradeInv' /\ RowsKept
  <1> DEFINE new == [row[p] EXCEPT !.state = s]
             k(j) == [j EXCEPT !.late = @ \cup ({p} \cap j.todo)]
  <1>1. Grade!Has(p) /\ row[p] \in Grade!Row BY HasRow DEF GradeInv, Grade!SetState
  <1>2. /\ new \in Grade!Row /\ new.source = row[p].source /\ new.before = row[p].before
        /\ new.total = row[p].total /\ new.comment = row[p].comment
        /\ s = "draft" => new = [row[p] EXCEPT !.state = "draft"]
    BY <1>1 DEF Grade!Row
  <1>3. /\ row' = [row EXCEPT ![p] = new] /\ UNCHANGED <<mark, rolled, muddled>>
        /\ grading' = [d \in Requests |-> k(grading[d])]
    BY DEF Grade!SetState, GradeInv, GradeTypes
  <1>4. \A d \in Requests : grading[d] \in CallType /\ CallFits(grading[d])
    BY DEF GradeInv, GradeTypes
  <1>5. \A d \in Requests : k(grading[d]) \in CallType /\ GoesOn(grading[d], k(grading[d]), {p})
    BY <1>4, LateGoesOn
  <1> HIDE DEF k, new
  <1>6. /\ grading' \in [Requests -> CallType]
        /\ \A d \in Requests : GoesOn(grading[d], grading'[d], {p})
    BY <1>3, <1>5
  <1>7. /\ row' \in [Students -> Grade!Row \cup {Grade!NoRow}] /\ row'[p] = new
        /\ \A q \in Students \ {p} : row'[q] = row[q]
    BY <1>2, <1>3 DEF GradeInv, GradeTypes
  <1>8. GradeTypes' BY <1>3, <1>6, <1>7 DEF GradeInv, GradeTypes
  <1>9. \A d \in Requests : CallFits(grading[d])' BY <1>2, <1>6, <1>7, <1>8, CallsGoOn
  <1>10. \A q \in Students : KeepsRolled(q)'
    BY <1>1, <1>2, <1>3, <1>7 DEF GradeInv, KeepsRolled, Grade!Has
  <1>11. RowsKept BY <1>2, <1>7 DEF RowsKept, Grade!IsConfirmed
  <1> QED BY <1>8, <1>9, <1>10, <1>11 DEF GradeInv

LEMMA GradesUntouched ==
    ASSUME GradeInv, UNCHANGED <<row, grading, rolled, muddled>>,
           mark' \in [Students -> Totals \cup {NoTotal}]
    PROVE  GradeInv' /\ RowsKept
  <1>1. GradeTypes' BY DEF GradeInv, GradeTypes
  <1>2. \A d \in Requests : CallFits(grading[d])'
    BY DEF GradeInv, CallFits, PlanFits, StillRead, Grade!Has, Grade!IsConfirmed
  <1>3. \A p \in Students : KeepsRolled(p)' BY DEF GradeInv, KeepsRolled, Grade!Has
  <1>4. RowsKept BY DEF RowsKept
  <1> QED BY <1>1, <1>2, <1>3, <1>4 DEF GradeInv

LEMMA GradesStay == ASSUME GradeInv, [Grade!Next]_gradeVars PROVE GradeInv' /\ RowsKept
  <1>1. CASE UNCHANGED gradeVars BY <1>1, GradesUntouched DEF gradeVars, GradeInv, GradeTypes
  <1>2. ASSUME NEW p \in Students, Grade!ChangeMark(p) PROVE GradeInv' /\ RowsKept
    <2>1. mark' \in [Students -> Totals \cup {NoTotal}]
      BY <1>2 DEF Grade!ChangeMark, GradeInv, GradeTypes
    <2> QED BY <1>2, <2>1, GradesUntouched DEF Grade!ChangeMark
  <1>3. ASSUME NEW p \in Students, Grade!Confirm(p) \/ Grade!Undo(p) PROVE GradeInv' /\ RowsKept
    BY <1>3, AfterSetState DEF Grade!Confirm, Grade!Undo, Grade!SetState
  <1>4. GradeInv' /\ UNCHANGED row => GradeInv' /\ RowsKept BY DEF RowsKept
  <1> QED BY <1>1, <1>2, <1>3, <1>4, AfterRollRead, AfterReads, AfterRollWrite, AfterEditStep
          DEF Grade!Next

(* Whatever rolls, edits and confirmations overlap: a confirmed grade is    *)
(* only reopened or overwritten by a call that was overtaken, an automatic  *)
(* total is the one last rolled, and a comment is lost to a roll only       *)
(* (exam-grade.service.ts).                                                *)
THEOREM GradesAreKept == ServicesSpec => GradesKept
  <1>1. ServicesInit => GradeInv BY GradesInit DEF ServicesInit
  <1>2. [ServicesNext]_allVars => [Grade!Next]_gradeVars
    BY DEF ServicesNext, AutomStep, GradeStep, HelpStep, RoomStep, LinkStep, allVars
  <1>3. GradeInv /\ [Grade!Next]_gradeVars => GradeInv' /\ RowsKept BY GradesStay
  <1>4. GradeInv => (active = "grades" => Grade!TypeInv /\ Grade!AutoIsRolled)
    <2> SUFFICES ASSUME GradeInv PROVE Grade!TypeInv /\ Grade!AutoIsRolled OBVIOUS
    <2>1. \A p \in Students : Grade!Has(p) => row[p] \in Grade!Row BY HasRow DEF GradeInv
    <2>2. Grade!TypeInv
      BY <2>1 DEF GradeInv, GradeTypes, CallFits, Grade!TypeInv, NoTotal, Grade!NoTotal
    <2>3. Grade!AutoIsRolled BY DEF GradeInv, KeepsRolled, Grade!AutoIsRolled
    <2> QED BY <2>2, <2>3
  <1>5. RowsKept =>
          [\A p \in Students : Grade!IsConfirmed(p) /\ row'[p] # row[p] =>
             row'[p] = [row[p] EXCEPT !.state = "draft"] \/ Grade!WasLate(p)]_Grade!vars
    BY DEF RowsKept
  <1>6. RowsKept =>
          [\A p \in Students : Grade!Has(p) /\ row[p].comment # row'[p].comment =>
             \/ Grade!Wrote("comment", p)
             \/ Grade!Wrote("roll", p) /\ (row'[p].total # row[p].total \/ Grade!WasLate(p))]_Grade!vars
    BY DEF RowsKept, Roll
  <1>7. ServicesSpec => []GradeInv BY <1>1, <1>2, <1>3, PTL DEF ServicesSpec
  <1> QED BY <1>2, <1>3, <1>4, <1>5, <1>6, <1>7, PTL
          DEF ServicesSpec, GradesKept, Grade!ConfirmedKept, Grade!CommentLostByRollOnly

-----------------------------------------------------------------------------
(* Free meeting rooms (RoomBusy).                                          *)
ResultType  == [at : Nat, putAt : Nat, degraded : BOOLEAN, busy : SUBSET Rooms,
                asked : SUBSET Rooms, asOf : Nat, read : SUBSET Rooms, unknown : SUBSET Rooms]
FetchType   == [way : {"none", "freebusy", "reservations"}, left : SUBSET Rooms,
                asked : SUBSET Rooms, asOf : Nat, busy : SUBSET Rooms, read : SUBSET Rooms,
                unknown : SUBSET Rooms, since : Nat]
VisitorType == [at : {"idle", "look", "wait", "told"}, page : BOOLEAN, rooms : SUBSET Rooms,
                asOf : Nat, free : SUBSET Rooms, from : ResultType, excused : SUBSET Rooms]

RoomTypes ==
    /\ time \in Nat /\ syncs \in Nat /\ checkedAt \in Nat /\ tried \in Nat
    /\ local \in SUBSET Rooms /\ local # {} /\ unsettled \in SUBSET Rooms
    /\ sync \in [on : BOOLEAN, left : SUBSET Rooms]
    /\ cache \in ResultType /\ fetch \in FetchType /\ visitor \in [Requests -> VisitorType]
    /\ checkedAt <= time /\ tried <= time

(* A list read since the last sync that cleared the cache lacks only rooms  *)
(* that a sync has written without clearing it yet.                        *)
Listed(rooms, asOf) ==
    asOf <= syncs /\ (asOf = syncs => local \subseteq rooms \cup unsettled)

ResultFits(r) ==
    /\ r.degraded \/ r.asked \subseteq r.read \cup r.unknown
    /\ r.putAt = syncs /\ Listed(r.asked, r.asOf)

FetchFits(f) ==
    /\ f.way = "none" => f = Room!NoFetch
    /\ f.way # "none" => Listed(f.asked, f.asOf) /\ f.asked = f.left \cup f.read \cup f.unknown

VisitorFits(j) ==
    /\ j.at \in {"look", "wait"} => j.rooms \subseteq local /\ Listed(j.rooms, j.asOf)
    /\ j.at = "told" =>
         /\ \/ j.page /\ j.from.degraded
            \/ j.free \cap j.from.asked \subseteq j.from.read \cup j.from.unknown
         /\ j.free \subseteq j.from.asked \cup j.excused
                             \cup (IF j.from.asOf < j.from.putAt THEN Rooms ELSE {})

RoomInv ==
    /\ RoomTypes
    /\ cache.at # 0 => ResultFits(cache)
    /\ FetchFits(fetch)
    /\ \A v \in Requests : VisitorFits(visitor[v])

(* Who is told something is told of a result not older than its lifetime.   *)
ToldNow ==
    \A v \in Requests : visitor[v].at # "told" /\ visitor'[v].at = "told" =>
       time - visitor'[v].from.at < TTL

LEMMA RoomCounts == Rooms # {} /\ TTL \in Nat /\ 0 < TTL
  BY RoomAssumption DEF Room!RoomAssumption

LEMMA NothingFits ==
    /\ Room!NoResult \in ResultType /\ Room!NoResult.at = 0
    /\ Room!NoFetch \in FetchType /\ Room!NoFetch.way = "none"
    /\ Room!Gone \in VisitorType /\ Room!Gone.at = "idle"
  <1>1. Room!NoResult \in ResultType /\ Room!NoResult.at = 0 BY DEF Room!NoResult, ResultType
  <1>2. Room!NoFetch \in FetchType /\ Room!NoFetch.way = "none" BY DEF Room!NoFetch, FetchType
  <1>3. Room!Gone \in VisitorType /\ Room!Gone.at = "idle" BY <1>1 DEF Room!Gone, VisitorType
  <1> QED BY <1>1, <1>2, <1>3

LEMMA RoomsInit == Room!Init => RoomInv
  <1> SUFFICES ASSUME Room!Init PROVE RoomInv OBVIOUS
  <1>1. local \in SUBSET Rooms /\ local # {} BY RoomCounts DEF Room!Init
  <1>2. sync \in [on : BOOLEAN, left : SUBSET Rooms] BY DEF Room!Init, Room!Off
  <1>3. /\ time = 1 /\ checkedAt = 0 /\ tried = 0 /\ syncs = 0 /\ unsettled = {}
        /\ cache = Room!NoResult /\ fetch = Room!NoFetch
        /\ visitor = [v \in Requests |-> Room!Gone]
    BY DEF Room!Init
  <1>4. RoomTypes BY <1>1, <1>2, <1>3, NothingFits DEF RoomTypes
  <1> QED BY <1>3, <1>4, NothingFits DEF RoomInv, FetchFits, VisitorFits

(* The answer to a visitor. *)
LEMMA ToldFits ==
    ASSUME RoomTypes, NEW v \in Requests, NEW list \in SUBSET Rooms, list \subseteq local,
           NEW result \in ResultType, ResultFits(result)
    PROVE  LET j == Room!Told(v, list, result)
           IN  j \in VisitorType /\ VisitorFits(j) /\ j.at = "told" /\ j.from = result
  <1> DEFINE j == Room!Told(v, list, result)
             page == visitor[v].page
             free == IF result.degraded /\ ~page THEN {} ELSE list \ result.busy
  <1>0. page \in BOOLEAN BY DEF RoomTypes, VisitorType
  <1>1. free \in SUBSET Rooms /\ free \subseteq local OBVIOUS
  <1>2. j = [at |-> "told", page |-> page, rooms |-> {}, asOf |-> 0, free |-> free,
             from |-> result, excused |-> unsettled]
    BY DEF Room!Told
  <1>3. result.degraded /\ ~page => free = {} OBVIOUS
  <1> HIDE DEF free, page, j
  <1>4. /\ j \in VisitorType /\ j.at = "told" /\ j.page = page /\ j.from = result /\ j.free = free
        /\ j.excused = unsettled
    BY <1>0, <1>1, <1>2 DEF RoomTypes, VisitorType
  <1>5. \/ page /\ result.degraded
        \/ free \cap result.asked \subseteq result.read \cup result.unknown
    BY <1>0, <1>3 DEF ResultFits
  <1>6. ~ (result.asOf < result.putAt) => free \subseteq result.asked \cup unsettled
    BY <1>1 DEF ResultFits, Listed, ResultType, RoomTypes
  <1>7. VisitorFits(j) BY <1>1, <1>4, <1>5, <1>6 DEF VisitorFits, RoomTypes
  <1> QED BY <1>4, <1>7 DEF j

(* One visitor moves on. *)
LEMMA AfterVisit ==
    ASSUME RoomInv, NEW v \in Requests, NEW j \in VisitorType, VisitorFits(j),
           visitor' = [visitor EXCEPT ![v] = j],
           j.at = "told" => visitor[v].at = "told" \/ time - j.from.at < TTL,
           UNCHANGED <<time, local, sync, syncs, tried, unsettled>>,
           checkedAt' \in {checkedAt, time}, cache' \in ResultType, fetch' \in FetchType,
           cache'.at # 0 => ResultFits(cache'), FetchFits(fetch')
    PROVE  RoomInv' /\ ToldNow
  <1>1. visitor' \in [Requests -> VisitorType] /\ visitor'[v] = j
        /\ \A w \in Requests \ {v} : visitor'[w] = visitor[w]
    BY DEF RoomInv, RoomTypes
  <1>2. RoomTypes' BY <1>1 DEF RoomInv, RoomTypes
  <1>3. \A w \in Requests : VisitorFits(visitor'[w]) BY <1>1 DEF RoomInv
  <1>4. (\A w \in Requests : VisitorFits(visitor[w]))' BY <1>3 DEF VisitorFits, Listed
  <1>5. (cache.at # 0 => ResultFits(cache))' BY DEF ResultFits, Listed
  <1>6. FetchFits(fetch)' BY DEF FetchFits, Listed
  <1>7. ToldNow BY <1>1 DEF ToldNow
  <1> QED BY <1>2, <1>4, <1>5, <1>6, <1>7 DEF RoomInv

LEMMA AfterList ==
    ASSUME RoomInv, NEW v \in Requests, Room!List(v)
    PROVE  RoomInv' /\ ToldNow
  <1> PICK page \in BOOLEAN :
         visitor' = [visitor EXCEPT ![v] = [Room!Gone EXCEPT !.at = "look", !.page = page,
                                                             !.rooms = local, !.asOf = syncs]]
    BY DEF Room!List
  <1> DEFINE j == [Room!Gone EXCEPT !.at = "look", !.page = page, !.rooms = local, !.asOf = syncs]
  <1>1. RoomTypes /\ local \in SUBSET Rooms /\ syncs \in Nat BY DEF RoomInv, RoomTypes
  <1>2. j \in VisitorType /\ j.at = "look" /\ j.rooms = local /\ j.asOf = syncs
    BY <1>1, NothingFits DEF VisitorType
  <1>3. visitor' = [visitor EXCEPT ![v] = j] OBVIOUS
  <1> HIDE DEF j
  <1>4. VisitorFits(j) BY <1>1, <1>2 DEF VisitorFits, Listed
  <1>5. cache' \in ResultType /\ fetch' \in FetchType /\ (cache'.at # 0 => ResultFits(cache'))
        /\ FetchFits(fetch')
    BY DEF Room!List, RoomInv, RoomTypes
  <1> QED BY <1>2, <1>3, <1>4, <1>5, AfterVisit DEF Room!List

LEMMA AfterHit ==
    ASSUME RoomInv, NEW v \in Requests, Room!Hit(v)
    PROVE  RoomInv' /\ ToldNow
  <1> DEFINE list == visitor[v].rooms
             j == Room!Told(v, list, cache)
  <1>1. /\ RoomTypes /\ visitor[v] \in VisitorType /\ VisitorFits(visitor[v]) /\ cache \in ResultType
        /\ visitor[v].at = "look"
    BY DEF RoomInv, RoomTypes, Room!Hit
  <1>2. list \in SUBSET Rooms /\ list \subseteq local BY <1>1 DEF VisitorType, VisitorFits
  <1>3. cache.at # 0 /\ time - cache.at < TTL BY DEF Room!Hit, Room!Fresh
  <1>4. j \in VisitorType /\ VisitorFits(j) /\ j.at = "told" /\ j.from = cache
    BY <1>1, <1>2, <1>3, ToldFits DEF RoomInv
  <1>5. visitor' = [visitor EXCEPT ![v] = j] BY DEF Room!Hit
  <1> HIDE DEF j
  <1>6. cache' \in ResultType /\ fetch' \in FetchType /\ (cache'.at # 0 => ResultFits(cache'))
        /\ FetchFits(fetch')
    BY DEF Room!Hit, RoomInv, RoomTypes
  <1> QED BY <1>3, <1>4, <1>5, <1>6, AfterVisit DEF Room!Hit, Room!counts

LEMMA AfterJoin ==
    ASSUME RoomInv, NEW v \in Requests, Room!Join(v)
    PROVE  RoomInv' /\ ToldNow
  <1> DEFINE j == [visitor[v] EXCEPT !.at = "wait"]
  <1>1. /\ visitor[v] \in VisitorType /\ VisitorFits(visitor[v]) /\ visitor[v].at = "look"
    BY DEF RoomInv, RoomTypes, Room!Join
  <1>2. j \in VisitorType /\ j.at = "wait" /\ j.rooms = visitor[v].rooms /\ j.asOf = visitor[v].asOf
    BY <1>1 DEF VisitorType
  <1>3. visitor' = [visitor EXCEPT ![v] = j] BY DEF Room!Join
  <1> HIDE DEF j
  <1>4. VisitorFits(j) BY <1>1, <1>2 DEF VisitorFits
  <1>5. cache' \in ResultType /\ fetch' \in FetchType /\ (cache'.at # 0 => ResultFits(cache'))
        /\ FetchFits(fetch')
    BY DEF Room!Join, RoomInv, RoomTypes
  <1> QED BY <1>2, <1>3, <1>4, <1>5, AfterVisit DEF Room!Join, Room!counts

LEMMA AfterLeave ==
    ASSUME RoomInv, NEW v \in Requests, Room!Leave(v)
    PROVE  RoomInv' /\ ToldNow
  <1>1. VisitorFits(Room!Gone) BY NothingFits DEF VisitorFits
  <1>2. cache' \in ResultType /\ fetch' \in FetchType /\ (cache'.at # 0 => ResultFits(cache'))
        /\ FetchFits(fetch')
    BY DEF Room!Leave, RoomInv, RoomTypes
  <1> QED BY <1>1, <1>2, NothingFits, AfterVisit DEF Room!Leave, Room!counts

(* A fetch begins with the list of the visitor, or neither source is asked. *)
LEMMA AfterFetch ==
    ASSUME RoomInv, NEW v \in Requests, Room!Fetch(v)
    PROVE  RoomInv' /\ ToldNow
  <1> DEFINE asker == visitor[v]
             way == IF Room!freebusyUsable THEN "freebusy" ELSE "reservations"
             started == [[Room!NoFetch EXCEPT !.asked = asker.rooms, !.left = asker.rooms,
                                 !.asOf = asker.asOf, !.since = tried] EXCEPT !.way = way]
             refused == [Room!NoResult EXCEPT !.at = time, !.putAt = syncs, !.asked = asker.rooms,
                                  !.asOf = asker.asOf]
             j == [asker EXCEPT !.at = "wait"]
             k == Room!Told(v, asker.rooms, refused)
  <1>1. /\ RoomTypes /\ asker \in VisitorType /\ VisitorFits(asker) /\ asker.at = "look" /\ time \in Nat
    BY DEF RoomInv, RoomTypes, Room!Fetch
  <1>2. /\ asker.rooms \in SUBSET Rooms /\ asker.rooms \subseteq local /\ Listed(asker.rooms, asker.asOf)
        /\ asker.asOf \in Nat
    BY <1>1 DEF VisitorType, VisitorFits
  <1>3. /\ checkedAt' \in {checkedAt, time}
        /\ UNCHANGED <<time, local, sync, permitted, asks, syncs, faults, tried, unsettled>>
        /\ \/ fetch' = started /\ visitor' = [visitor EXCEPT ![v] = j] /\ cache' = cache
           \/ cache' = refused /\ visitor' = [visitor EXCEPT ![v] = k] /\ fetch' = fetch
    BY DEF Room!Fetch, Room!counts
  <1>4. /\ started \in FetchType /\ started.way # "none" /\ started.asked = asker.rooms
        /\ started.left = asker.rooms /\ started.read = {} /\ started.unknown = {}
        /\ started.asOf = asker.asOf
    BY <1>1, <1>2 DEF Room!NoFetch, FetchType, RoomTypes
  <1>5. /\ refused \in ResultType /\ refused.at = time /\ refused.degraded
        /\ refused.putAt = syncs /\ refused.asked = asker.rooms /\ refused.asOf = asker.asOf
    BY <1>1, <1>2 DEF Room!NoResult, ResultType, RoomTypes
  <1> HIDE DEF started, refused
  <1>6. FetchFits(started) BY <1>2, <1>4 DEF FetchFits
  <1>7. ResultFits(refused) BY <1>2, <1>5 DEF ResultFits
  <1>8. j \in VisitorType /\ j.at = "wait" /\ j.rooms = asker.rooms /\ j.asOf = asker.asOf
    BY <1>1 DEF VisitorType
  <1>9. k \in VisitorType /\ VisitorFits(k) /\ k.at = "told" /\ k.from = refused
    BY <1>1, <1>2, <1>5, <1>7, ToldFits
  <1> HIDE DEF j, k
  <1>10. VisitorFits(j) BY <1>1, <1>8 DEF VisitorFits
  <1>11. time - refused.at < TTL BY <1>1, <1>5, RoomCounts
  <1>12. cache \in ResultType /\ fetch \in FetchType /\ (cache.at # 0 => ResultFits(cache))
         /\ FetchFits(fetch)
    BY DEF RoomInv, RoomTypes
  <1>13. CASE fetch' = started /\ visitor' = [visitor EXCEPT ![v] = j] /\ cache' = cache
    BY <1>3, <1>4, <1>6, <1>8, <1>10, <1>12, <1>13, AfterVisit
  <1>14. CASE cache' = refused /\ visitor' = [visitor EXCEPT ![v] = k] /\ fetch' = fetch
    BY <1>3, <1>5, <1>7, <1>9, <1>11, <1>12, <1>14, AfterVisit
  <1> QED BY <1>3, <1>13, <1>14

(* The fetch has a result: it is cached, and all who wait are told.         *)
LEMMA AfterFinish ==
    ASSUME RoomInv, NEW result \in ResultType, ResultFits(result), result.at = time,
           Room!Finish(result), UNCHANGED <<time, local, sync, syncs, unsettled>>,
           checkedAt' \in {checkedAt, time}, tried' \in {tried, time}
    PROVE  RoomInv' /\ ToldNow
  <1> DEFINE k(v) == Room!Told(v, visitor[v].rooms, result)
  <1>1. RoomTypes /\ \A v \in Requests : visitor[v] \in VisitorType /\ VisitorFits(visitor[v])
    BY DEF RoomInv, RoomTypes
  <1>2. ASSUME NEW v \in Requests, visitor[v].at = "wait"
        PROVE  k(v) \in VisitorType /\ VisitorFits(k(v)) /\ k(v).at = "told" /\ k(v).from = result
    <2>1. visitor[v].rooms \in SUBSET Rooms /\ visitor[v].rooms \subseteq local
      BY <1>1, <1>2 DEF VisitorType, VisitorFits
    <2> QED BY <1>1, <2>1, ToldFits
  <1>3. /\ cache' = result /\ fetch' = Room!NoFetch
        /\ visitor' = [v \in Requests |-> IF visitor[v].at = "wait" THEN k(v) ELSE visitor[v]]
    BY DEF Room!Finish
  <1> HIDE DEF k
  <1>4. /\ visitor' \in [Requests -> VisitorType]
        /\ \A v \in Requests : \/ visitor'[v] = visitor[v]
                               \/ VisitorFits(visitor'[v]) /\ visitor'[v].from = result
    BY <1>1, <1>2, <1>3
  <1>5. RoomTypes' BY <1>1, <1>3, <1>4, NothingFits DEF RoomTypes
  <1>6. \A v \in Requests : VisitorFits(visitor'[v]) BY <1>1, <1>4
  <1>7. (\A v \in Requests : VisitorFits(visitor[v]))' BY <1>6 DEF VisitorFits, Listed
  <1>8. (cache.at # 0 => ResultFits(cache))' BY <1>3 DEF ResultFits, Listed
  <1>9. FetchFits(fetch)' BY <1>3, NothingFits DEF FetchFits
  <1>10. time - result.at < TTL BY <1>1, RoomCounts DEF RoomTypes
  <1>11. ToldNow BY <1>4, <1>10 DEF ToldNow
  <1> QED BY <1>5, <1>7, <1>8, <1>9, <1>11 DEF RoomInv

(* The fetch goes on. *)
LEMMA AfterFetchStep ==
    ASSUME RoomInv, fetch' \in FetchType, FetchFits(fetch'),
           UNCHANGED <<time, local, sync, syncs, unsettled, cache, visitor>>,
           checkedAt' \in {checkedAt, time}, tried' \in {tried, time}
    PROVE  RoomInv' /\ ToldNow
  <1>1. RoomTypes' BY DEF RoomInv, RoomTypes
  <1>2. (\A v \in Requests : VisitorFits(visitor[v]))' BY DEF RoomInv, VisitorFits, Listed
  <1>3. (cache.at # 0 => ResultFits(cache))' BY DEF RoomInv, ResultFits, Listed
  <1>4. FetchFits(fetch)' BY DEF FetchFits, Listed
  <1>5. ToldNow BY DEF ToldNow
  <1> QED BY <1>1, <1>2, <1>3, <1>4, <1>5 DEF RoomInv

LEMMA FetchResult ==
    ASSUME RoomInv, fetch.way # "none", NEW degraded \in BOOLEAN, NEW busy \in SUBSET Rooms,
           NEW unknown \in SUBSET Rooms, NEW read \in SUBSET Rooms,
           degraded \/ fetch.asked \subseteq read \cup unknown
    PROVE  LET r == Room!Result(degraded, busy, unknown)
               s == [r EXCEPT !.read = read]
           IN  s \in ResultType /\ ResultFits(s) /\ s.at = time
  <1> DEFINE r == Room!Result(degraded, busy, unknown)
             s == [r EXCEPT !.read = read]
  <1>1. /\ fetch \in FetchType /\ Listed(fetch.asked, fetch.asOf) /\ fetch.read \in SUBSET Rooms
        /\ fetch.asked \in SUBSET Rooms /\ fetch.asOf \in Nat /\ time \in Nat /\ syncs \in Nat
    BY DEF RoomInv, RoomTypes, FetchFits, FetchType
  <1>2. r = [at |-> time, putAt |-> syncs, degraded |-> degraded, busy |-> busy,
             asked |-> fetch.asked, asOf |-> fetch.asOf, read |-> fetch.read, unknown |-> unknown]
    BY DEF Room!Result
  <1> HIDE DEF r
  <1>3. /\ r \in ResultType /\ r.degraded = degraded /\ r.asked = fetch.asked /\ r.read = fetch.read
        /\ r.unknown = unknown /\ r.putAt = syncs /\ r.asOf = fetch.asOf /\ r.at = time
    BY <1>1, <1>2 DEF ResultType
  <1>4. /\ s \in ResultType /\ s.degraded = r.degraded /\ s.asked = r.asked /\ s.read = read
        /\ s.unknown = r.unknown /\ s.putAt = r.putAt /\ s.asOf = r.asOf /\ s.at = r.at
    BY <1>3 DEF ResultType
  <1> HIDE DEF s
  <1>5. ResultFits(s) BY <1>1, <1>3, <1>4 DEF ResultFits
  <1> QED BY <1>3, <1>4, <1>5 DEF r, s

(* One more room answered for: each room asked for is still to be asked, was *)
(* answered for, or could not be.                                          *)
LEMMA AfterAnswer ==
    ASSUME RoomInv, fetch.way # "none", NEW r \in fetch.left, NEW says \in {"free", "busy", "unknown"},
           Room!NextRoom(Room!Answered(r, says)),
           UNCHANGED <<time, local, sync, syncs, unsettled, checkedAt>>, tried' \in {tried, time}
    PROVE  RoomInv' /\ ToldNow
  <1> DEFINE f == Room!Answered(r, says)
             left == fetch.left \ {r}
             read == IF says = "unknown" THEN fetch.read ELSE fetch.read \cup {r}
             busy == IF says = "busy" THEN fetch.busy \cup {r} ELSE fetch.busy
             unknown == IF says = "unknown" THEN fetch.unknown \cup {r} ELSE fetch.unknown
  <1>1. RoomTypes /\ fetch \in FetchType /\ FetchFits(fetch) BY DEF RoomInv, RoomTypes
  <1>2. /\ r \in Rooms /\ fetch.left \in SUBSET Rooms /\ fetch.read \in SUBSET Rooms
        /\ fetch.busy \in SUBSET Rooms /\ fetch.unknown \in SUBSET Rooms
        /\ fetch.asked = fetch.left \cup fetch.read \cup fetch.unknown
        /\ Listed(fetch.asked, fetch.asOf)
    BY <1>1 DEF FetchType, FetchFits
  <1>3. f = [fetch EXCEPT !.left = left, !.read = read, !.busy = busy, !.unknown = unknown]
    BY DEF Room!Answered
  <1>4. /\ left \in SUBSET Rooms /\ read \in SUBSET Rooms /\ busy \in SUBSET Rooms
        /\ unknown \in SUBSET Rooms /\ fetch.asked = left \cup read \cup unknown
    BY <1>2
  <1> HIDE DEF left, read, busy, unknown, f
  <1>5. /\ f \in FetchType /\ f.left = left /\ f.read = read /\ f.busy = busy /\ f.unknown = unknown
        /\ f.way = fetch.way /\ f.asked = fetch.asked /\ f.asOf = fetch.asOf
    BY <1>1, <1>3, <1>4 DEF FetchType
  <1>6. FetchFits(f) BY <1>2, <1>4, <1>5 DEF FetchFits
  <1>7. CASE left # {}
    <2>1. fetch' = f /\ UNCHANGED <<cache, visitor>> BY <1>5, <1>7 DEF Room!NextRoom, f
    <2> QED BY <1>5, <1>6, <2>1, AfterFetchStep
  <1>8. CASE left = {}
    <2> DEFINE res == [Room!Result(FALSE, busy, unknown) EXCEPT !.read = read]
    <2>1. Room!Finish(res)
      <3>1. Room!Finish([Room!Result(FALSE, f.busy, f.unknown) EXCEPT !.read = f.read])
        BY <1>5, <1>8 DEF Room!NextRoom, f
      <3> QED BY <1>5, <3>1
    <2>2. res \in ResultType /\ ResultFits(res) /\ res.at = time BY <1>4, <1>8, FetchResult
    <2> HIDE DEF res
    <2> QED BY <2>1, <2>2, AfterFinish
  <1> QED BY <1>7, <1>8

LEMMA AfterFailure ==
    ASSUME RoomInv, fetch.way # "none", Room!Finish(Room!Result(TRUE, {}, {})),
           UNCHANGED <<time, local, sync, syncs, unsettled>>,
           checkedAt' \in {checkedAt, time}, tried' \in {tried, time}
    PROVE  RoomInv' /\ ToldNow
  <1> DEFINE r == Room!Result(TRUE, {}, {})
  <1>1. /\ fetch \in FetchType /\ Listed(fetch.asked, fetch.asOf) /\ fetch.read \in SUBSET Rooms
        /\ fetch.asked \in SUBSET Rooms /\ fetch.asOf \in Nat /\ time \in Nat /\ syncs \in Nat
    BY DEF RoomInv, RoomTypes, FetchFits, FetchType
  <1>2. r = [at |-> time, putAt |-> syncs, degraded |-> TRUE, busy |-> {}, asked |-> fetch.asked,
             asOf |-> fetch.asOf, read |-> fetch.read, unknown |-> {}]
    BY DEF Room!Result
  <1>3. Room!Finish(r) OBVIOUS
  <1> HIDE DEF r
  <1>4. /\ r \in ResultType /\ r.degraded /\ r.asked = fetch.asked /\ r.putAt = syncs
        /\ r.asOf = fetch.asOf /\ r.at = time
    BY <1>1, <1>2 DEF ResultType
  <1>5. ResultFits(r) BY <1>1, <1>4 DEF ResultFits
  <1> QED BY <1>3, <1>4, <1>5, AfterFinish

LEMMA AfterSource ==
    ASSUME RoomInv, \/ Room!AskFreebusy \/ Room!FreebusyFails
                    \/ Room!AskReservations \/ Room!ReservationsFail
    PROVE  RoomInv' /\ ToldNow
  <1>1. CASE Room!AskFreebusy BY <1>1, AfterAnswer DEF Room!AskFreebusy, Room!counts
  <1>2. CASE Room!AskReservations BY <1>2, AfterAnswer DEF Room!AskReservations, Room!counts
  <1>3. CASE Room!ReservationsFail BY <1>3, AfterFailure DEF Room!ReservationsFail
  <1>4. CASE Room!FreebusyFails
    <2> DEFINE f == [fetch EXCEPT !.way = "reservations", !.left = fetch.asked,
                                  !.busy = {}, !.read = {}, !.unknown = {}]
    <2>1. /\ fetch.way # "none" /\ UNCHANGED <<time, local, sync, permitted, asks, syncs, unsettled>>
          /\ checkedAt' = time /\ tried' = time
          /\ \/ fetch' = f /\ UNCHANGED <<cache, visitor>>
             \/ Room!Finish(Room!Result(TRUE, {}, {}))
      BY <1>4 DEF Room!FreebusyFails
    <2>2. fetch \in FetchType /\ Listed(fetch.asked, fetch.asOf)
      BY <2>1 DEF RoomInv, RoomTypes, FetchFits
    <2>3. /\ f \in FetchType /\ f.way = "reservations" /\ f.asked = fetch.asked /\ f.asOf = fetch.asOf
          /\ f.left = fetch.asked /\ f.read = {} /\ f.unknown = {}
      BY <2>2 DEF FetchType
    <2> HIDE DEF f
    <2>4. FetchFits(f) BY <2>2, <2>3 DEF FetchFits
    <2> QED BY <2>1, <2>3, <2>4, AfterFetchStep, AfterFailure
  <1> QED BY <1>1, <1>2, <1>3, <1>4

(* A sync writes a room, or ends and clears the cache. *)
LEMMA AfterSync ==
    ASSUME RoomInv, local' \in SUBSET Rooms, unsettled' \in SUBSET Rooms, local \subseteq local',
           sync' \in [on : BOOLEAN, left : SUBSET Rooms],
           UNCHANGED <<time, checkedAt, tried, fetch, visitor>>,
           \/ /\ syncs' = syncs /\ UNCHANGED cache
              /\ local' \ local \subseteq unsettled' /\ unsettled \subseteq unsettled'
           \/ syncs' = syncs + 1 /\ cache' = Room!NoResult
    PROVE  RoomInv' /\ ToldNow
  <1>1. RoomTypes' BY NothingFits DEF RoomInv, RoomTypes
  <1>2. ASSUME NEW rooms, NEW asOf \in Nat, Listed(rooms, asOf) PROVE Listed(rooms, asOf)'
    BY <1>2 DEF RoomInv, RoomTypes, Listed
  <1>3. ASSUME NEW v \in Requests PROVE VisitorFits(visitor[v])'
    <2>1. visitor[v] \in VisitorType /\ VisitorFits(visitor[v]) BY DEF RoomInv, RoomTypes
    <2>2. visitor[v].asOf \in Nat BY <2>1 DEF VisitorType
    <2>3. Listed(visitor[v].rooms, visitor[v].asOf) => Listed(visitor[v].rooms, visitor[v].asOf)'
      BY <1>2, <2>2
    <2> QED BY <2>1, <2>3 DEF VisitorFits
  <1>4. (cache.at # 0 => ResultFits(cache))'
    <2>1. CASE cache' = Room!NoResult BY <2>1, NothingFits
    <2>2. CASE syncs' = syncs /\ UNCHANGED cache
      <3>1. cache.asOf \in Nat BY DEF RoomInv, RoomTypes, ResultType
      <3>2. Listed(cache.asked, cache.asOf) => Listed(cache.asked, cache.asOf)' BY <1>2, <2>2, <3>1
      <3> QED BY <2>2, <3>2 DEF RoomInv, ResultFits
    <2> QED BY <2>1, <2>2
  <1>5. FetchFits(fetch)'
    <2>1. fetch.asOf \in Nat /\ FetchFits(fetch) BY DEF RoomInv, RoomTypes, FetchType
    <2>2. Listed(fetch.asked, fetch.asOf) => Listed(fetch.asked, fetch.asOf)' BY <1>2, <2>1
    <2> QED BY <2>1, <2>2 DEF FetchFits
  <1>6. ToldNow BY DEF ToldNow
  <1> QED BY <1>1, <1>3, <1>4, <1>5, <1>6 DEF RoomInv

LEMMA AfterSyncStep ==
    ASSUME RoomInv, \/ Room!SyncBegin \/ Room!SyncEnd \/ Room!SyncFails
                    \/ \E r \in Rooms : Room!SyncRow(r)
    PROVE  RoomInv' /\ ToldNow
  <1>0. /\ local \in SUBSET Rooms /\ unsettled \in SUBSET Rooms
        /\ sync \in [on : BOOLEAN, left : SUBSET Rooms]
        /\ Room!Off \in [on : BOOLEAN, left : SUBSET Rooms]
    BY DEF RoomInv, RoomTypes, Room!Off
  <1>1. CASE Room!SyncBegin
    <2>1. sync' \in [on : BOOLEAN, left : SUBSET Rooms] BY <1>1 DEF Room!SyncBegin
    <2> QED BY <1>0, <1>1, <2>1, AfterSync DEF Room!SyncBegin, Room!counts
  <1>2. CASE Room!SyncEnd BY <1>0, <1>2, AfterSync DEF Room!SyncEnd
  <1>3. CASE Room!SyncFails BY <1>0, <1>3, AfterSync DEF Room!SyncFails
  <1>4. ASSUME NEW r \in Rooms, Room!SyncRow(r) PROVE RoomInv' /\ ToldNow
    <2>1. /\ sync' = [sync EXCEPT !.left = sync.left \ {r}] /\ local' = local \cup {r}
          /\ unsettled' = IF r \in local THEN unsettled ELSE unsettled \cup {r}
          /\ UNCHANGED <<time, checkedAt, tried, fetch, visitor, syncs, cache>>
      BY <1>4 DEF Room!SyncRow, Room!counts
    <2>2. sync' \in [on : BOOLEAN, left : SUBSET Rooms] BY <1>0, <2>1
    <2> QED BY <1>0, <2>1, <2>2, AfterSync
  <1> QED BY <1>1, <1>2, <1>3, <1>4

LEMMA RoomsUntouched ==
    ASSUME RoomInv, time' \in Nat, time <= time',
           UNCHANGED <<local, sync, checkedAt, cache, fetch, visitor, syncs, tried, unsettled>>
    PROVE  RoomInv' /\ ToldNow
  <1>1. RoomTypes' BY DEF RoomInv, RoomTypes
  <1>2. (\A v \in Requests : VisitorFits(visitor[v]))' BY DEF RoomInv, VisitorFits, Listed
  <1>3. (cache.at # 0 => ResultFits(cache))' BY DEF RoomInv, ResultFits, Listed
  <1>4. FetchFits(fetch)' BY DEF RoomInv, FetchFits, Listed
  <1>5. ToldNow BY DEF ToldNow
  <1> QED BY <1>1, <1>2, <1>3, <1>4, <1>5 DEF RoomInv

LEMMA RoomsStay == ASSUME RoomInv, [Room!Next]_roomVars PROVE RoomInv' /\ ToldNow
  <1>0. time \in Nat BY DEF RoomInv, RoomTypes
  <1>1. CASE UNCHANGED roomVars BY <1>0, <1>1, RoomsUntouched DEF roomVars
  <1>2. CASE Room!Grant BY <1>0, <1>2, RoomsUntouched DEF Room!Grant, Room!counts
  <1>3. CASE Room!Tick
    <2>1. time' \in Nat /\ time <= time' BY <1>0, <1>3 DEF Room!Tick
    <2> QED BY <1>3, <2>1, RoomsUntouched DEF Room!Tick, Room!counts
  <1> QED BY <1>1, <1>2, <1>3, AfterList, AfterHit, AfterJoin, AfterFetch, AfterLeave,
             AfterSource, AfterSyncStep DEF Room!Next

(* Whatever answers, fails, is synced and cached meanwhile: a room that the *)
(* fetch had on its list and did not read is told free only on a grey page, *)
(* or when the source itself had no answer for that room -- the page warns  *)
(* of it, findFree is silent; one off that list only when a sync came in    *)
(* between; and nothing is told by a result beyond its lifetime            *)
(* (meeting-room.service.ts, busyFor, availability and findFree).          *)
THEOREM RoomsAreKept == ServicesSpec => RoomsKept
  <1>1. ServicesInit => RoomInv BY RoomsInit DEF ServicesInit
  <1>2. [ServicesNext]_allVars => [Room!Next]_roomVars
    BY DEF ServicesNext, AutomStep, GradeStep, HelpStep, RoomStep, LinkStep, allVars
  <1>3. RoomInv /\ [Room!Next]_roomVars => RoomInv' /\ ToldNow BY RoomsStay
  <1>4. RoomInv => (active = "rooms" => Room!TypeInv /\ Room!FreeWasRead /\ Room!NewRoomsAsked)
    <2> SUFFICES ASSUME RoomInv PROVE Room!TypeInv /\ Room!FreeWasRead /\ Room!NewRoomsAsked OBVIOUS
    <2>1. fetch.left \subseteq fetch.asked
      <3>1. CASE fetch.way = "none" BY <3>1 DEF RoomInv, FetchFits, Room!NoFetch
      <3>2. CASE fetch.way # "none" BY <3>2 DEF RoomInv, FetchFits
      <3> QED BY <3>1, <3>2
    <2>2. sync.left \subseteq Rooms BY DEF RoomInv, RoomTypes
    <2>3. Room!TypeInv BY <2>1, <2>2 DEF RoomInv, RoomTypes, Room!TypeInv
    <2>4. ASSUME NEW v \in Room!Answers, Room!Unread(v) # {}
          PROVE  \/ Room!Greyed(v)
                 \/ Room!Unread(v) \subseteq visitor[v].from.unknown /\ (Room!Warned(v) \/ ~visitor[v].page)
      <3>1. v \in Requests /\ visitor[v].at = "told" /\ VisitorFits(visitor[v])
            /\ visitor[v].page \in BOOLEAN
        BY DEF RoomInv, RoomTypes, VisitorType, Room!Answers
      <3> QED BY <2>4, <3>1 DEF VisitorFits, Room!Unread, Room!Greyed, Room!Warned
    <2>5. Room!NewRoomsAsked BY DEF RoomInv, VisitorFits, Room!NewRoomsAsked, Room!Answers
    <2>6. Room!FreeWasRead BY <2>4 DEF Room!FreeWasRead
    <2> QED BY <2>3, <2>5, <2>6
  <1>5. ToldNow =>
          [\A v \in Requests : visitor[v].at # "told" /\ visitor'[v].at = "told" =>
             time - visitor'[v].from.at < TTL]_Room!vars
    BY DEF ToldNow
  <1>6. ServicesSpec => []RoomInv BY <1>1, <1>2, <1>3, PTL DEF ServicesSpec
  <1> QED BY <1>2, <1>3, <1>4, <1>5, <1>6, PTL DEF ServicesSpec, RoomsKept, Room!ToldInTime

-----------------------------------------------------------------------------
(* The file of automations (Automations).                                  *)
CallRec == [step : {"none", "save", "write"}, copy : Autom!Store, mixed : BOOLEAN,
            late : BOOLEAN]
EditRec == [kind : {"none", "edit", "delete"}, auto : Autos \cup {None}]
RunRec  == [step : Autom!RunSteps, auto : Autos \cup {None}]

(* While the process is down nobody calls, runs or waits to be healed, and   *)
(* there are edits and timers only once it is up.                           *)
AutomTypes ==
    /\ file \in Autom!Store \cup {Torn}
    /\ call \in [Autom!Actors -> CallRec] /\ admin \in [Admins -> EditRec]
    /\ run \in [Runs -> RunRec]
    /\ cron \in SUBSET Autos /\ swept \in SUBSET Autos
    /\ toHeal \in SUBSET Runs /\ old \in SUBSET Runs
    /\ pending \in [Autos -> {"no", "wait", "due"}]
    /\ boot \in {"down", "starting", "up"} /\ night \in BOOLEAN /\ clash \in BOOLEAN
    /\ edits \in 0..MaxEdits /\ stops \in 0..MaxStops
    /\ \A c \in Admins : /\ admin[c] = Autom!NoEdit <=> call[c].step = "none"
                         /\ admin[c] # Autom!NoEdit => admin[c].auto \in Autos
    /\ \A r \in Runs : call[r].step # "none" => run[r].step \in {"append", "update", "again"}
    /\ boot = "down" => /\ \A c \in Autom!Actors : call[c].step = "none"
                        /\ swept = {} /\ toHeal = {} /\ \A r \in Runs : ~ Autom!Live(r)
    /\ boot # "up" => cron = {} /\ \A c \in Admins : admin[c] = Autom!NoEdit

(* A store that is whole: what is on is there, and a record is of a run of  *)
(* an automation that is there.                                             *)
StoreFits(s) ==
    /\ s.on \subseteq s.there
    /\ \A r \in Runs : s.log[r] # "none" => run[r].auto \in s.there

(* Why a record may say "running".                                          *)
Excused(r) == \/ Autom!Live(r) \/ run[r].step = "left"
              \/ boot = "down" \/ r \notin old \/ r \in toHeal

(* The automation whose timer the caller will set or take away.             *)
Edited(c) == IF c \in Admins THEN {admin[c].auto} ELSE {}

FileFits ==
    file # Torn =>
      /\ StoreFits(file)
      /\ \A r \in Runs : /\ run[r].step = "append" => file.log[r] = "none"
                         /\ file.log[r] = "running" => Excused(r) \/ call[Heal].step # "none"
      /\ boot = "up" => cron = Autom!Timers(file)

(* What a caller has in hand is whole, and closes its own record.           *)
CopyFits(c, s) ==
    /\ StoreFits(s)
    /\ \A r \in Runs : /\ run[r].step = "append" /\ r # c => s.log[r] = "none"
                       /\ s.log[r] = "running" => Excused(r)
    /\ c \in Runs /\ run[c].step # "append" => s.log[c] = "ended"

(* Before the write it is one edit away from the file, ...                  *)
SaveFits(c, s) ==
    /\ Autom!OneEdit(file, s)
    /\ \A r \in Runs \ {c} : s.log[r] = "running" => file.log[r] = "running"
    /\ Autom!Timers(s) \ Edited(c) = Autom!Timers(file) \ Edited(c)

(* ... and during it one timer away from the timers.                        *)
WriteFits(c, s) == boot = "up" => Autom!Timers(s) \ Edited(c) = cron \ Edited(c)

(* As long as no two calls met, one call at a time has the file.            *)
QuietInv ==
    /\ \A c, d \in Autom!Actors : call[c].step # "none" /\ call[d].step # "none" => c = d
    /\ \A c \in Autom!Actors : ~ call[c].mixed
    /\ file = Torn <=> \E c \in Autom!Actors : call[c].step = "write"
    /\ FileFits
    /\ \A c \in Autom!Actors :
         /\ call[c].step # "none" => CopyFits(c, call[c].copy)
         /\ call[c].step = "save" => SaveFits(c, call[c].copy)
         /\ call[c].step = "write" => WriteFits(c, call[c].copy)

AutomInv == AutomTypes /\ (~ clash => QuietInv)

(* A whole store with no record of a run that is only about to open it.     *)
Whole(s, openers) ==
    StoreFits(s) /\ \A r \in Runs \ openers : run[r].step = "append" => s.log[r] = "none"

(* Whatever meets: every store is whole, and whoever has not been overtaken *)
(* has one edit of what is in the file, or writes it alone.                 *)
FileInv ==
    /\ file # Torn => Whole(file, {})
    /\ \A c \in Autom!Actors :
         /\ call[c].step # "write" => ~ call[c].mixed
         /\ call[c].step # "none" => Whole(call[c].copy, {c})
         /\ call[c].step = "save" /\ ~ call[c].late =>
              Autom!Writing = {} /\ Autom!OneEdit(Autom!Read, call[c].copy)
         /\ call[c].step = "write" /\ ~ call[c].late =>
              file = Torn /\ ~ call[c].mixed /\ Autom!Writing = {c}

LEMMA AutomNames ==
    /\ First \in SUBSET Autos /\ MaxEdits \in Nat /\ MaxStops \in Nat
    /\ Admins \cap Runs = {} /\ Heal \notin Admins \cup Runs
    /\ None \notin Autos /\ Torn \notin Autom!Store
    /\ Autom!Actors = Admins \cup Runs \cup {Heal}
  BY AutomAssumption DEF Autom!SetsOfAutos, Autom!BoundsAreNat, Autom!NamesAreApart, Autom!Actors

LEMMA EmptyIsStore ==
    /\ Autom!EmptyStore \in Autom!Store
    /\ Autom!NoCall \in CallRec /\ Autom!NoCall.step = "none" /\ ~ Autom!NoCall.mixed
    /\ ~ Autom!NoCall.late
    /\ Autom!NoEdit \in EditRec /\ Autom!NoEdit.kind = "none" /\ Autom!NoEdit.auto = None
    /\ Autom!NoRun \in RunRec /\ Autom!NoRun.step = "free" /\ Autom!NoRun.auto = None
  <1>1. Autom!EmptyStore \in Autom!Store BY DEF Autom!EmptyStore, Autom!Store
  <1>2. /\ Autom!NoCall \in CallRec /\ Autom!NoCall.step = "none" /\ ~ Autom!NoCall.mixed
        /\ ~ Autom!NoCall.late
    BY <1>1 DEF Autom!NoCall, CallRec
  <1>3. Autom!NoEdit \in EditRec /\ Autom!NoEdit.kind = "none" /\ Autom!NoEdit.auto = None
    BY DEF Autom!NoEdit, EditRec
  <1>4. Autom!NoRun \in RunRec /\ Autom!NoRun.step = "free" /\ Autom!NoRun.auto = None
    BY DEF Autom!NoRun, RunRec, Autom!RunSteps
  <1> QED BY <1>1, <1>2, <1>3, <1>4

LEMMA ReadIs ==
    ASSUME AutomTypes
    PROVE  /\ Autom!Read \in Autom!Store
           /\ file # Torn => Autom!Read = file /\ file \in Autom!Store
  BY EmptyIsStore DEF AutomTypes, Autom!Read

LEMMA StoreLogs ==
    ASSUME NEW s \in Autom!Store, NEW r \in Runs, NEW st \in {"running", "ended"}
    PROVE  LET t == [s EXCEPT !.log[r] = st]
           IN  t \in Autom!Store /\ t.there = s.there /\ t.on = s.on /\ t.timed = s.timed
               /\ t.log[r] = st /\ \A q \in Runs \ {r} : t.log[q] = s.log[q]
  BY DEF Autom!Store

LEMMA BegunCall ==
    ASSUME AutomTypes, NEW c \in Autom!Actors, NEW s \in Autom!Store, Autom!BeginCall(c, s)
    PROVE  /\ call' \in [Autom!Actors -> CallRec]
           /\ call'[c].step = "save" /\ call'[c].copy = s /\ ~ call'[c].mixed
           /\ call'[c].late = (Autom!Writing # {})
           /\ \A d \in Autom!Actors \ {c} : call'[d] = call[d]
           /\ clash' \in BOOLEAN /\ (clash => clash')
           /\ ~ clash' => file # Torn /\ \A d \in Autom!Actors : call[d].step = "none"
  <1> DEFINE w == Autom!Writing # {}
             j == [step |-> "save", copy |-> s, mixed |-> FALSE, late |-> w]
  <1>0. w \in BOOLEAN /\ w = (Autom!Writing # {}) OBVIOUS
  <1> HIDE DEF w
  <1>1. j \in CallRec /\ j.step = "save" /\ j.copy = s /\ j.mixed = FALSE /\ j.late = w
    BY <1>0 DEF CallRec
  <1>2. call' = [call EXCEPT ![c] = j] /\ Autom!Clash BY DEF Autom!BeginCall, w
  <1>3. call \in [Autom!Actors -> CallRec] /\ clash \in BOOLEAN BY DEF AutomTypes
  <1> HIDE DEF j
  <1> QED BY <1>0, <1>1, <1>2, <1>3 DEF Autom!Clash

LEMMA EndedWrite ==
    ASSUME AutomTypes, NEW c \in Autom!Actors, Autom!EndWrite(c)
    PROVE  /\ call' \in [Autom!Actors -> CallRec] /\ call'[c] = Autom!NoCall
           /\ \A d \in Autom!Actors \ {c} :
                /\ call'[d].step = call[d].step /\ call'[d].copy = call[d].copy
                /\ call'[d].late = call[d].late
                /\ call[d].step # "write" => call'[d].mixed = call[d].mixed
           /\ file' \in Autom!Store \cup {Torn} /\ (~ call[c].mixed => file' = call[c].copy)
           /\ call[c].step = "write" /\ call[c].copy \in Autom!Store
  <1> DEFINE m(d) == call[d].mixed \/ call[d].step = "write"
             k(d) == [call[d] EXCEPT !.mixed = m(d)]
  <1>1. call \in [Autom!Actors -> CallRec] BY DEF AutomTypes
  <1>2. \A d \in Autom!Actors : call[d] \in CallRec /\ m(d) \in BOOLEAN BY <1>1 DEF CallRec
  <1>3. call' = [d \in Autom!Actors |-> IF d = c THEN Autom!NoCall ELSE k(d)]
    BY DEF Autom!EndWrite
  <1>4. \A d \in Autom!Actors : call[d].step # "write" => m(d) = call[d].mixed
    BY <1>2 DEF CallRec
  <1> HIDE DEF m
  <1>5. \A d \in Autom!Actors : k(d) \in CallRec /\ k(d).step = call[d].step
                                /\ k(d).copy = call[d].copy /\ k(d).mixed = m(d)
                                /\ k(d).late = call[d].late
    BY <1>2 DEF CallRec
  <1> HIDE DEF k
  <1>6. file' \in Autom!Store \cup {Torn} /\ (~ call[c].mixed => file' = call[c].copy)
    BY <1>2 DEF Autom!EndWrite, CallRec
  <1>7. call[c].step = "write" /\ call[c].copy \in Autom!Store BY <1>2 DEF Autom!EndWrite, CallRec
  <1> QED BY <1>3, <1>4, <1>5, <1>6, <1>7, EmptyIsStore

(* A run goes on, or begins with an identifier nobody has had.              *)
LEMMA RunMoved ==
    ASSUME AutomTypes, NEW r \in Runs, NEW step \in Autom!RunSteps, Autom!Goto(r, step)
    PROVE  /\ run' \in [Runs -> RunRec] /\ run'[r].step = step /\ run'[r].auto = run[r].auto
           /\ \A q \in Runs \ {r} : run'[q] = run[q]
  <1> DEFINE j == [run[r] EXCEPT !.step = step]
  <1>1. run[r] \in RunRec /\ run \in [Runs -> RunRec] BY DEF AutomTypes
  <1>2. j \in RunRec /\ j.step = step /\ j.auto = run[r].auto BY <1>1 DEF RunRec
  <1>3. run' = [run EXCEPT ![r] = j] BY <1>1 DEF Autom!Goto
  <1> HIDE DEF j
  <1> QED BY <1>1, <1>2, <1>3

LEMMA RunBegun ==
    ASSUME AutomTypes, NEW r \in Runs, NEW a \in Autos, Autom!Begin(r, a)
    PROVE  /\ run' \in [Runs -> RunRec] /\ run'[r].step = "append" /\ run'[r].auto = a
           /\ run[r] = Autom!NoRun /\ \A q \in Runs \ {r} : run'[q] = run[q]
  <1> DEFINE j == [step |-> "append", auto |-> a]
  <1>1. run \in [Runs -> RunRec] BY DEF AutomTypes
  <1>2. j \in RunRec /\ j.step = "append" /\ j.auto = a BY DEF RunRec, Autom!RunSteps
  <1>3. run' = [run EXCEPT ![r] = j] /\ run[r] = Autom!NoRun BY DEF Autom!Begin, Autom!NextRun
  <1> HIDE DEF j
  <1> QED BY <1>1, <1>2, <1>3

LEMMA AutomInit == Autom!Init => AutomInv
  <1> SUFFICES ASSUME Autom!Init PROVE AutomInv OBVIOUS
  <1> DEFINE s == [Autom!EmptyStore EXCEPT !.there = First, !.on = First, !.timed = First]
  <1>1. s \in Autom!Store /\ s.there = First /\ s.on = First /\ s.timed = First /\ \A r \in Runs : s.log[r] = "none"
    BY AutomNames DEF Autom!EmptyStore, Autom!Store
  <1>2. file = s BY DEF Autom!Init
  <1> HIDE DEF s
  <1>3. /\ call = [c \in Autom!Actors |-> Autom!NoCall] /\ admin = [c \in Admins |-> Autom!NoEdit]
        /\ run = [r \in Runs |-> Autom!NoRun] /\ cron = First
        /\ pending = [a \in Autos |-> "no"] /\ swept = {} /\ toHeal = {} /\ boot = "up"
        /\ night = FALSE /\ old = {} /\ edits = 0 /\ stops = 0 /\ clash = FALSE
    BY DEF Autom!Init
  <1>8. \A c \in Autom!Actors : call[c] = Autom!NoCall BY <1>3
  <1>9. /\ call \in [Autom!Actors -> CallRec] /\ admin \in [Admins -> EditRec]
        /\ run \in [Runs -> RunRec]
    BY <1>3, EmptyIsStore
  <1>10. pending \in [Autos -> {"no", "wait", "due"}] BY <1>3
  <1>11. \A c \in Admins : admin[c] = Autom!NoEdit BY <1>3
  <1>12. edits \in 0..MaxEdits /\ stops \in 0..MaxStops BY <1>3, AutomNames
  <1>4. AutomTypes
    BY <1>1, <1>2, <1>3, <1>8, <1>9, <1>10, <1>11, <1>12, EmptyIsStore, AutomNames DEF AutomTypes
  <1>5. file # Torn BY <1>1, <1>2, AutomNames
  <1>6. FileFits BY <1>1, <1>2, <1>3, <1>5, EmptyIsStore DEF FileFits, StoreFits, Autom!Timers
  <1>7. \A c \in Autom!Actors : call[c].step = "none" /\ ~ call[c].mixed
    BY <1>3, EmptyIsStore
  <1> QED BY <1>4, <1>5, <1>6, <1>7 DEF AutomInv, QuietInv

-----------------------------------------------------------------------------
(* Writes. *)
LEMMA WriteTypes ==
    ASSUME AutomTypes, NEW c \in Autom!Actors, Autom!BeginWrite(c)
    PROVE  /\ AutomTypes'
           /\ call'[c].step = "write" /\ call'[c].late = call[c].late
           /\ \A d \in Autom!Actors : call'[d].copy = call[d].copy /\ call'[d].mixed = call[d].mixed
           /\ \A d \in Autom!Actors \ {c} : /\ call'[d].step = call[d].step
                                           /\ call'[d].late = (call[d].step # "none")
  <1> DEFINE w(d) == call[d].step # "none"
             j == [call[c] EXCEPT !.step = "write"]
             k(d) == [call[d] EXCEPT !.late = w(d)]
  <1>1. call \in [Autom!Actors -> CallRec] /\ \A d \in Autom!Actors : call[d] \in CallRec
    BY DEF AutomTypes
  <1>2. /\ j \in CallRec /\ j.step = "write" /\ j.copy = call[c].copy /\ j.mixed = call[c].mixed
        /\ j.late = call[c].late
    BY <1>1 DEF CallRec
  <1>3. call' = [d \in Autom!Actors |-> IF d = c THEN j ELSE k(d)] BY DEF Autom!BeginWrite
  <1> HIDE DEF j
  <1>4. \A d \in Autom!Actors : w(d) \in BOOLEAN /\ w(d) = (call[d].step # "none") OBVIOUS
  <1> HIDE DEF w
  <1>5. \A d \in Autom!Actors : /\ k(d) \in CallRec /\ k(d).step = call[d].step
                                /\ k(d).copy = call[d].copy /\ k(d).mixed = call[d].mixed
                                /\ k(d).late = w(d)
    BY <1>1, <1>4 DEF CallRec
  <1> HIDE DEF k
  <1>6. /\ UNCHANGED <<admin, run, cron, swept, toHeal, pending, boot, night, old, edits, stops, clash>>
        /\ file' = Torn /\ call[c].step = "save"
    BY DEF Autom!BeginWrite, Autom!bounds
  <1>7. call' \in [Autom!Actors -> CallRec] BY <1>2, <1>3, <1>5
  <1>8. \A d \in Autom!Actors : call'[d].step = "none" <=> call[d].step = "none"
    BY <1>2, <1>3, <1>5, <1>6
  <1>9. \A r \in Runs : Autom!Live(r)' <=> Autom!Live(r) BY <1>6 DEF Autom!Live
  <1>10. AutomTypes' BY <1>6, <1>7, <1>8, <1>9, AutomNames DEF AutomTypes
  <1> QED BY <1>2, <1>3, <1>4, <1>5, <1>10

(* What the callers do when their write has ended. *)
LEMMA EndTypes ==
    ASSUME AutomTypes, NEW c \in Autom!Actors, Autom!EndWrite(c)
    PROVE  /\ UNCHANGED <<swept, toHeal, boot, night, old, edits, stops, clash>>
           /\ boot # "down"
           /\ \A d \in Autom!Actors \ {c} : call'[d].step = call[d].step
           /\ call'[c].step = "none"
  <1>1. UNCHANGED <<swept, toHeal, boot, night, old, edits, stops, clash>>
    BY DEF Autom!EndWrite, Autom!bounds
  <1>2. call[c].step = "write" /\ call'[c] = Autom!NoCall
        /\ \A d \in Autom!Actors \ {c} : call'[d].step = call[d].step
    BY EndedWrite
  <1> QED BY <1>1, <1>2, EmptyIsStore DEF AutomTypes

LEMMA EndEditTypes ==
    ASSUME AutomTypes, NEW c \in Admins, Autom!EndEdit(c)
    PROVE  /\ AutomTypes' /\ UNCHANGED run /\ admin[c].auto \in Autos
           /\ cron' = IF admin[c].auto \in Autom!Timers(call[c].copy)
                      THEN cron \cup {admin[c].auto} ELSE cron \ {admin[c].auto}
           /\ \A d \in Admins \ {c} : admin'[d] = admin[d]
  <1> DEFINE a == admin[c].auto
  <1>1. c \in Autom!Actors /\ Autom!EndWrite(c) BY AutomNames DEF Autom!EndEdit
  <1>2. /\ call' \in [Autom!Actors -> CallRec] /\ call[c].step = "write"
        /\ file' \in Autom!Store \cup {Torn}
    BY <1>1, EndedWrite
  <1>3. a \in Autos /\ boot = "up" BY <1>2 DEF AutomTypes
  <1>4. /\ admin' = [admin EXCEPT ![c] = Autom!NoEdit] /\ UNCHANGED run
        /\ cron' = (IF a \in Autom!Timers(call[c].copy) THEN cron \cup {a} ELSE cron \ {a})
        /\ pending' = (IF admin[c].kind = "delete" THEN [pending EXCEPT ![a] = "no"] ELSE pending)
    BY DEF Autom!EndEdit
  <1> HIDE DEF a
  <1>5. cron' \in SUBSET Autos /\ pending' \in [Autos -> {"no", "wait", "due"}]
    BY <1>3, <1>4 DEF AutomTypes
  <1>6. admin' \in [Admins -> EditRec] BY <1>4, EmptyIsStore DEF AutomTypes
  <1>7. \A r \in Runs : call'[r].step # "none" => run'[r].step \in {"append", "update", "again"}
    BY <1>1, <1>4, EndTypes, AutomNames DEF AutomTypes
  <1>8. \A d \in Admins : /\ admin'[d] = Autom!NoEdit <=> call'[d].step = "none"
                          /\ admin'[d] # Autom!NoEdit => admin'[d].auto \in Autos
    BY <1>1, <1>4, EndTypes, AutomNames DEF AutomTypes
  <1>9. AutomTypes' BY <1>1, <1>2, <1>3, <1>4, <1>5, <1>6, <1>7, <1>8, EndTypes DEF AutomTypes
  <1> QED BY <1>3, <1>4, <1>9 DEF a, AutomTypes

LEMMA WrittenTypes ==
    ASSUME AutomTypes, NEW r \in Runs, Autom!Written(r)
    PROVE  /\ AutomTypes' /\ UNCHANGED <<admin, cron>>
           /\ run'[r].step = (IF run[r].step = "append" THEN "work" ELSE "done")
           /\ run'[r].auto = run[r].auto /\ \A q \in Runs \ {r} : run'[q] = run[q]
  <1> DEFINE step == IF run[r].step = "append" THEN "work" ELSE "done"
  <1>1. r \in Autom!Actors /\ Autom!EndWrite(r) BY AutomNames DEF Autom!Written
  <1>2. step \in Autom!RunSteps /\ Autom!Goto(r, step) /\ UNCHANGED <<admin, cron, pending>>
    BY DEF Autom!Written, Autom!RunSteps
  <1>3. step = "work" \/ step = "done" OBVIOUS
  <1> HIDE DEF step
  <1>4. /\ run' \in [Runs -> RunRec] /\ run'[r].step = step /\ run'[r].auto = run[r].auto
        /\ \A q \in Runs \ {r} : run'[q] = run[q]
    BY <1>2, RunMoved
  <1>5. call' \in [Autom!Actors -> CallRec] /\ file' \in Autom!Store \cup {Torn}
    BY <1>1, EndedWrite
  <1>6. \A q \in Runs : call'[q].step # "none" => run'[q].step \in {"append", "update", "again"}
    BY <1>1, <1>4, EndTypes, AutomNames DEF AutomTypes
  <1>7. \A d \in Admins : call'[d].step = call[d].step BY <1>1, EndTypes, AutomNames
  <1>8. AutomTypes' BY <1>1, <1>2, <1>4, <1>5, <1>6, <1>7, EndTypes DEF AutomTypes
  <1> QED BY <1>2, <1>4, <1>8 DEF step

LEMMA HealDoneTypes ==
    ASSUME AutomTypes, Autom!HealDone
    PROVE  AutomTypes' /\ UNCHANGED <<admin, run, cron>>
  <1>1. Heal \in Autom!Actors /\ Autom!EndWrite(Heal) /\ UNCHANGED <<admin, run, cron, pending>>
    BY AutomNames DEF Autom!HealDone
  <1>2. call' \in [Autom!Actors -> CallRec] /\ file' \in Autom!Store \cup {Torn}
    BY <1>1, EndedWrite
  <1>3. \A d \in Admins \cup Runs : call'[d].step = call[d].step BY <1>1, EndTypes, AutomNames
  <1> QED BY <1>1, <1>2, <1>3, EndTypes DEF AutomTypes

-----------------------------------------------------------------------------
(* Edits of the page. *)
EditSteps(c, a) == Autom!Create(c, a) \/ Autom!Change(c, a) \/ Autom!Delete(c, a)

(* The store an edit is about to write, one edit away from what it read.    *)
LEMMA EditIs ==
    ASSUME AutomTypes, NEW c \in Admins, NEW a \in Autos, EditSteps(c, a)
    PROVE  /\ UNCHANGED <<file, run, cron, swept, toHeal, pending, boot, night, old, stops>>
           /\ boot = "up" /\ admin[c] = Autom!NoEdit /\ edits < MaxEdits /\ edits' = edits + 1
           /\ \E s \in Autom!Store :
                /\ Autom!BeginCall(c, s) /\ Autom!OneEdit(Autom!Read, s)
                /\ Autom!Timers(s) \ {a} = Autom!Timers(Autom!Read) \ {a}
                /\ (Autom!Read.on \subseteq Autom!Read.there => s.on \subseteq s.there)
                /\ \A r \in Runs : s.log[r] # "none" => /\ s.log[r] = Autom!Read.log[r]
                                                        /\ run[r].auto \in Autom!Read.there
                                                             => run[r].auto \in s.there
           /\ \E kind \in {"edit", "delete"} : admin' = [admin EXCEPT ![c] = [kind |-> kind, auto |-> a]]
  <1> DEFINE s == Autom!Read
  <1>1. s \in Autom!Store BY ReadIs
  <1> HIDE DEF s
  <1>0. s = Autom!Read BY DEF s
  <1>2. CASE Autom!Create(c, a) \/ Autom!Change(c, a)
    <2>1. PICK t \in Autom!Settings(s, a) : Autom!BeginCall(c, t)
      BY <1>0, <1>2 DEF Autom!Create, Autom!Change
    <2>2. Autom!Edit(c) /\ admin' = [admin EXCEPT ![c] = [kind |-> "edit", auto |-> a]]
      BY <1>2 DEF Autom!Create, Autom!Change
    <2>3. PICK on \in {s.on \cup {a}, s.on \ {a}}, timed \in {s.timed \cup {a}, s.timed \ {a}} :
            t = [s EXCEPT !.there = @ \cup {a}, !.on = on, !.timed = timed]
      BY <2>1 DEF Autom!Settings
    <2>4. s.there \cup {a} \in SUBSET Autos /\ on \in SUBSET Autos /\ timed \in SUBSET Autos
      BY <1>1, <2>3 DEF Autom!Store
    <2>5. /\ t \in Autom!Store /\ t.there = s.there \cup {a} /\ t.on = on /\ t.timed = timed
          /\ t.log = s.log
      BY <1>1, <2>3, <2>4 DEF Autom!Store
    <2>6. Autom!OneEdit(s, t) BY <2>1 DEF Autom!OneEdit
    <2>7. Autom!Timers(t) \ {a} = Autom!Timers(s) \ {a} BY <2>3, <2>5 DEF Autom!Timers
    <2>8. s.on \subseteq s.there => t.on \subseteq t.there BY <2>3, <2>5
    <2> QED BY <1>0, <2>1, <2>2, <2>5, <2>6, <2>7, <2>8 DEF Autom!Edit
  <1>4. CASE Autom!Delete(c, a)
    <2> DEFINE t == Autom!Without(s, a)
    <2>1. /\ t \in Autom!Store /\ t.there = s.there \ {a} /\ t.on = s.on \ {a}
          /\ t.timed = s.timed \ {a}
          /\ \A r \in Runs : t.log[r] = IF run[r].auto = a THEN "none" ELSE s.log[r]
      BY <1>1 DEF Autom!Store, Autom!Without
    <2>2. /\ Autom!BeginCall(c, t) /\ Autom!Edit(c) /\ a \in s.there
          /\ admin' = [admin EXCEPT ![c] = [kind |-> "delete", auto |-> a]]
      BY <1>4, <1>0 DEF Autom!Delete
    <2>3. Autom!OneEdit(s, t) BY <2>2 DEF Autom!OneEdit
    <2> HIDE DEF t
    <2>4. Autom!Timers(t) \ {a} = Autom!Timers(s) \ {a} BY <2>1 DEF Autom!Timers
    <2> QED BY <1>0, <2>1, <2>2, <2>3, <2>4 DEF Autom!Edit
  <1> QED BY <1>2, <1>4 DEF EditSteps

LEMMA EditTypes ==
    ASSUME AutomTypes, NEW c \in Admins, NEW a \in Autos, EditSteps(c, a)
    PROVE  AutomTypes' /\ admin'[c].auto = a
  <1>1. PICK s \in Autom!Store : Autom!BeginCall(c, s) BY EditIs
  <1>2. /\ UNCHANGED <<file, run, cron, swept, toHeal, pending, boot, night, old, stops>>
        /\ boot = "up" /\ edits < MaxEdits /\ edits' = edits + 1
    BY EditIs
  <1>3. PICK kind \in {"edit", "delete"} : admin' = [admin EXCEPT ![c] = [kind |-> kind, auto |-> a]]
    BY EditIs
  <1> DEFINE j == [kind |-> kind, auto |-> a]
  <1>4. j \in EditRec /\ j.kind = kind /\ j.auto = a BY DEF EditRec
  <1>5. j # Autom!NoEdit BY <1>4, EmptyIsStore
  <1>6. admin' = [admin EXCEPT ![c] = j] /\ admin \in [Admins -> EditRec] BY <1>3 DEF AutomTypes
  <1> HIDE DEF j
  <1>7. /\ admin' \in [Admins -> EditRec] /\ admin'[c] = j /\ \A d \in Admins \ {c} : admin'[d] = admin[d]
    BY <1>4, <1>6
  <1>8. c \in Autom!Actors /\ \A r \in Runs : r \in Autom!Actors \ {c} BY AutomNames
  <1>9. /\ call' \in [Autom!Actors -> CallRec] /\ call'[c].step = "save"
        /\ \A d \in Autom!Actors \ {c} : call'[d] = call[d]
        /\ clash' \in BOOLEAN
    BY <1>1, <1>8, BegunCall
  <1>10. edits' \in 0..MaxEdits BY <1>2, AutomNames DEF AutomTypes
  <1>11. \A d \in Admins : /\ admin'[d] = Autom!NoEdit <=> call'[d].step = "none"
                           /\ admin'[d] # Autom!NoEdit => admin'[d].auto \in Autos
    BY <1>4, <1>5, <1>7, <1>9, AutomNames DEF AutomTypes
  <1>12. \A r \in Runs : call'[r].step # "none" => run'[r].step \in {"append", "update", "again"}
    BY <1>2, <1>8, <1>9 DEF AutomTypes
  <1>13. AutomTypes' BY <1>2, <1>7, <1>9, <1>10, <1>11, <1>12 DEF AutomTypes
  <1> QED BY <1>4, <1>7, <1>13

-----------------------------------------------------------------------------
(* The records of runs. *)
LEMMA LogIs ==
    ASSUME AutomTypes, NEW r \in Runs, NEW st \in {"running", "ended"}
    PROVE  LET t == Autom!Logged(r, st)
           IN  /\ t \in Autom!Store /\ t.there = Autom!Read.there /\ t.on = Autom!Read.on
               /\ t.timed = Autom!Read.timed
               /\ t.log[r] = st /\ \A q \in Runs \ {r} : t.log[q] = Autom!Read.log[q]
               /\ run[r].auto \in Autom!Read.there /\ (st = "ended" \/ Autom!Read.log[r] = "none")
                    => Autom!OneEdit(Autom!Read, t)
  <1> DEFINE s == Autom!Read
             t == [s EXCEPT !.log[r] = st]
  <1>1. s \in Autom!Store BY ReadIs
  <1>2. t = Autom!Logged(r, st) BY DEF Autom!Logged
  <1>3. run[r].auto \in s.there /\ (st = "ended" \/ s.log[r] = "none") => Autom!OneEdit(s, t)
    BY DEF Autom!OneEdit
  <1> HIDE DEF s
  <1>4. t \in Autom!Store /\ t.there = s.there /\ t.on = s.on /\ t.timed = s.timed
        /\ t.log[r] = st /\ \A q \in Runs \ {r} : t.log[q] = s.log[q]
    BY <1>1 DEF Autom!Store
  <1> HIDE DEF t
  <1> QED BY <1>2, <1>3, <1>4 DEF s

(* A run's record is opened or closed by the run, or closed at a start.     *)
LogCall(c, r, st) ==
    /\ Autom!BeginCall(c, Autom!Logged(r, st)) /\ run[r].auto \in Autom!Read.there
    /\ \/ /\ c = r /\ call[r].step = "none" /\ UNCHANGED toHeal
          /\ run[r].step \in (IF st = "running" THEN {"append"} ELSE {"update", "again"})
       \/ /\ c = Heal /\ r \in toHeal /\ toHeal' = toHeal \ {r} /\ st = "ended"
          /\ call[Heal].step = "none" /\ Autom!Read.log[r] # "none"
    /\ UNCHANGED <<file, admin, run, cron, swept, pending, boot, night, old, edits, stops>>

LEMMA LogTypes ==
    ASSUME AutomTypes, NEW c \in Autom!Actors, NEW r \in Runs, NEW st \in {"running", "ended"},
           LogCall(c, r, st)
    PROVE  AutomTypes'
  <1> DEFINE s == Autom!Logged(r, st)
  <1>1. s \in Autom!Store BY LogIs
  <1>2. Autom!BeginCall(c, s) BY DEF LogCall
  <1> HIDE DEF s
  <1>3. /\ call' \in [Autom!Actors -> CallRec] /\ \A d \in Autom!Actors \ {c} : call'[d] = call[d]
        /\ clash' \in BOOLEAN
    BY <1>1, <1>2, BegunCall
  <1>4. c \in Runs \cup {Heal} /\ c \notin Admins /\ toHeal' \in SUBSET Runs
        /\ (c \in Runs => c = r /\ run[r].step \in {"append", "update", "again"})
        /\ (c = Heal => toHeal # {})
    BY AutomNames DEF LogCall, AutomTypes
  <1>5. UNCHANGED <<file, admin, run, cron, swept, pending, boot, night, old, edits, stops>>
    BY DEF LogCall
  <1>6. boot # "down"
    <2>1. CASE c = Heal BY <2>1, <1>4 DEF AutomTypes
    <2>2. CASE c \in Runs
      <3>1. Autom!Live(r) BY <2>2, <1>4 DEF Autom!Live
      <3> QED BY <3>1 DEF AutomTypes
    <2> QED BY <1>4, <2>1, <2>2
  <1>7. \A q \in Runs : call'[q].step # "none" => run'[q].step \in {"append", "update", "again"}
    BY <1>3, <1>4, <1>5, AutomNames DEF AutomTypes
  <1>8. \A d \in Admins : call'[d] = call[d] BY <1>3, <1>4, AutomNames
  <1> QED BY <1>3, <1>4, <1>5, <1>6, <1>7, <1>8 DEF AutomTypes

-----------------------------------------------------------------------------
(* Steps that leave the file and the calls alone: a run moves, begins or    *)
(* ages, a timer fires, the list is swept.                                  *)
RunMoves ==
    /\ run' \in [Runs -> RunRec]
    /\ \A r \in Runs :
         /\ run[r] = Autom!NoRun \/ run'[r].auto = run[r].auto
         /\ call[r].step # "none" => run'[r] = run[r]
         /\ run'[r].step = "append" => run[r].step = "append" \/ run[r] = Autom!NoRun

QuietStep ==
    /\ UNCHANGED <<file, call, admin, boot, edits, stops>>
    /\ RunMoves
    /\ cron' \in SUBSET Autos /\ swept' \in SUBSET Autos
    /\ toHeal' \in SUBSET Runs /\ old' \in SUBSET Runs
    /\ pending' \in [Autos -> {"no", "wait", "due"}]
    /\ night' \in BOOLEAN /\ clash' \in BOOLEAN /\ (clash => clash')
    /\ boot = "down" => swept' = {} /\ toHeal' = {} /\ UNCHANGED run
    /\ boot # "up" => cron' = {}

LEMMA QuietTypes ==
    ASSUME AutomTypes, QuietStep
    PROVE  AutomTypes'
  <1>1. boot = "down" => \A r \in Runs : ~ Autom!Live(r)' BY DEF AutomTypes, QuietStep, Autom!Live
  <1>2. \A r \in Runs : call'[r].step # "none" => run'[r].step \in {"append", "update", "again"}
    BY AutomNames DEF AutomTypes, QuietStep, RunMoves
  <1> QED BY <1>1, <1>2 DEF AutomTypes, QuietStep, RunMoves

(* What a quiet step may do to the reasons of records and to the timers.    *)
KeepsExcuses ==
    /\ \A r \in Runs : Excused(r) => \/ Excused(r)'
                                     \/ file # Torn /\ file.log[r] # "running" /\ call[r].step = "none"
    /\ UNCHANGED cron

(* A run that has begun keeps its automation.                               *)
AutosStay == \A r \in Runs : run[r] = Autom!NoRun \/ run'[r].auto = run[r].auto

LEMMA StoresStay ==
    ASSUME AutosStay, NEW s \in Autom!Store, StoreFits(s)
    PROVE  StoreFits(s)'
  <1>1. \A r \in Runs : s.log[r] # "none" => run'[r].auto = run[r].auto
    BY EmptyIsStore, AutomNames DEF StoreFits, Autom!Store, AutosStay
  <1> QED BY <1>1 DEF StoreFits

LEMMA EditStays ==
    ASSUME AutosStay, NEW s \in Autom!Store, NEW t \in Autom!Store, StoreFits(s),
           Autom!OneEdit(s, t)
    PROVE  Autom!OneEdit(s, t)'
  <1>1. \A r \in Runs : run'[r].auto = run[r].auto \/ run[r] = Autom!NoRun BY DEF AutosStay
  <1>2. \A r \in Runs : run[r] = Autom!NoRun => s.log[r] = "none" /\ run[r].auto \notin s.there
    BY EmptyIsStore, AutomNames DEF StoreFits, Autom!Store
  <1>3. \A a \in s.there : Autom!Without(s, a)' = Autom!Without(s, a)
    <2> SUFFICES ASSUME NEW a \in s.there PROVE Autom!Without(s, a)' = Autom!Without(s, a) OBVIOUS
    <2> DEFINE l1 == [r \in Runs |-> IF run[r].auto = a THEN "none" ELSE s.log[r]]
               l2 == [r \in Runs |-> IF run'[r].auto = a THEN "none" ELSE s.log[r]]
    <2>1. l1 = l2 BY <1>1, <1>2
    <2>2. /\ Autom!Without(s, a) = [there |-> s.there \ {a}, on |-> s.on \ {a}, timed |-> s.timed \ {a}, log |-> l1]
          /\ Autom!Without(s, a)' = [there |-> s.there \ {a}, on |-> s.on \ {a}, timed |-> s.timed \ {a}, log |-> l2]
      BY DEF Autom!Without
    <2> HIDE DEF l1, l2
    <2> QED BY <2>1, <2>2
  <1>4. \A r \in Runs : run[r].auto \in s.there => run'[r].auto \in s.there BY <1>1, <1>2
  <1>5. \A a : Autom!Settings(s, a)' = Autom!Settings(s, a) BY DEF Autom!Settings
  <1> QED BY <1>3, <1>4, <1>5 DEF Autom!OneEdit

LEMMA AfterQuietStep ==
    ASSUME AutomInv, QuietStep, ~ clash' => KeepsExcuses
    PROVE  AutomInv'
  <1>1. AutomTypes' BY QuietTypes DEF AutomInv
  <1> SUFFICES ASSUME ~ clash' PROVE QuietInv' BY <1>1 DEF AutomInv
  <1>2. AutomTypes /\ QuietInv /\ KeepsExcuses BY DEF AutomInv, QuietStep
  <1>3. UNCHANGED <<file, call, admin, boot, cron>> /\ RunMoves /\ AutosStay
    BY <1>2 DEF QuietStep, KeepsExcuses, RunMoves, AutosStay
  <1>4. \A r \in Runs : run'[r].step = "append" => run[r].step = "append" \/ run[r] = Autom!NoRun
    BY <1>3 DEF RunMoves
  <1>5. \A s \in Autom!Store : StoreFits(s) =>
          /\ StoreFits(s)'
          /\ \A r \in Runs : run[r] = Autom!NoRun => s.log[r] = "none"
    BY <1>2, <1>3, StoresStay, EmptyIsStore, AutomNames DEF StoreFits, Autom!Store
  <1>6. FileFits'
    <2> SUFFICES ASSUME file # Torn PROVE FileFits' BY <1>3 DEF FileFits
    <2>1. file \in Autom!Store /\ FileFits /\ StoreFits(file) BY <1>2 DEF AutomTypes, QuietInv, FileFits
    <2>2. \A r \in Runs : file.log[r] = "running" => Excused(r)' \/ call[Heal].step # "none"
      BY <1>2, <2>1 DEF FileFits, KeepsExcuses
    <2> QED BY <1>3, <1>4, <1>5, <2>1, <2>2 DEF FileFits
  <1>7. ASSUME NEW c \in Autom!Actors PROVE
          /\ call[c].step # "none" => CopyFits(c, call[c].copy)'
          /\ call[c].step = "save" => SaveFits(c, call[c].copy)'
          /\ call[c].step = "write" => WriteFits(c, call[c].copy)'
    <2> SUFFICES ASSUME call[c].step # "none" PROVE
          /\ CopyFits(c, call[c].copy)'
          /\ call[c].step = "save" => SaveFits(c, call[c].copy)'
          /\ call[c].step = "write" => WriteFits(c, call[c].copy)'
      OBVIOUS
    <2> DEFINE s == call[c].copy
    <2>1. s \in Autom!Store /\ call[c].step \in {"save", "write"} BY <1>2 DEF AutomTypes, CallRec
    <2>2. /\ CopyFits(c, s) /\ (call[c].step = "save" => SaveFits(c, s))
          /\ (call[c].step = "write" => WriteFits(c, s))
      BY <1>2 DEF QuietInv
    <2>3. s' = s /\ call'[c].step = call[c].step BY <1>3
    <2> HIDE DEF s
    <2>4. StoreFits(s) /\ StoreFits(s)' BY <1>5, <2>1, <2>2, <2>3 DEF CopyFits
    <2>5. c \in Runs => run'[c] = run[c] BY <1>3 DEF RunMoves
    <2>6. \A r \in Runs : s.log[r] = "running" => Excused(r)'
      <3> SUFFICES ASSUME NEW r \in Runs, s.log[r] = "running" PROVE Excused(r)' OBVIOUS
      <3>1. Excused(r) BY <2>2 DEF CopyFits
      <3> SUFFICES ASSUME file # Torn, file.log[r] # "running", call[r].step = "none" PROVE FALSE
        BY <1>2, <3>1 DEF KeepsExcuses
      <3>2. call[c].step = "save" BY <1>2, <2>1 DEF QuietInv
      <3>3. r # c OBVIOUS
      <3> QED BY <2>2, <3>2, <3>3 DEF SaveFits
    <2>7. CopyFits(c, s)' BY <1>3, <1>4, <1>5, <2>1, <2>2, <2>3, <2>4, <2>5, <2>6 DEF CopyFits
    <2>8. call[c].step = "save" => SaveFits(c, s)'
      <3> SUFFICES ASSUME call[c].step = "save" PROVE SaveFits(c, s)' OBVIOUS
      <3>1. file \in Autom!Store /\ StoreFits(file)
        <4>1. \A d \in Autom!Actors : call[d].step # "write" BY <1>2 DEF QuietInv
        <4> QED BY <1>2, <4>1 DEF QuietInv, FileFits, AutomTypes
      <3>2. Autom!OneEdit(file, s)' BY <1>2, <1>3, <2>1, <2>2, <2>3, <3>1, EditStays DEF SaveFits
      <3> QED BY <1>3, <2>2, <2>3, <3>2 DEF SaveFits, Edited
    <2>9. call[c].step = "write" => WriteFits(c, s)' BY <1>3, <2>2, <2>3 DEF WriteFits, Edited
    <2> QED BY <2>3, <2>7, <2>8, <2>9 DEF s
  <1> QED BY <1>2, <1>3, <1>6, <1>7 DEF QuietInv

-----------------------------------------------------------------------------
(* Calls begin, write and end. *)
LEMMA SameEdit ==
    ASSUME UNCHANGED run, NEW s \in Autom!Store, NEW t \in Autom!Store, Autom!OneEdit(s, t)
    PROVE  Autom!OneEdit(s, t)'
  <1>1. \A a \in s.there : Autom!Without(s, a)' = Autom!Without(s, a) BY DEF Autom!Without
  <1>2. \A a : Autom!Settings(s, a)' = Autom!Settings(s, a) BY DEF Autom!Settings
  <1> QED BY <1>1, <1>2 DEF Autom!OneEdit

LEMMA AfterBeginCall ==
    ASSUME AutomInv, AutomTypes', NEW c \in Autom!Actors, NEW s \in Autom!Store,
           Autom!BeginCall(c, s), UNCHANGED <<file, run, cron, boot, old>>,
           \A r \in Runs : Excused(r) => Excused(r)' \/ c = Heal,
           ~ clash' => CopyFits(c, s)' /\ SaveFits(c, s)'
    PROVE  AutomInv'
  <1> SUFFICES ASSUME ~ clash' PROVE QuietInv' BY DEF AutomInv
  <1>1. AutomTypes BY DEF AutomInv
  <1>2. /\ call'[c].step = "save" /\ call'[c].copy = s /\ ~ call'[c].mixed
        /\ \A d \in Autom!Actors \ {c} : call'[d] = call[d]
        /\ ~ clash /\ file # Torn /\ \A d \in Autom!Actors : call[d].step = "none"
    BY <1>1, BegunCall
  <1>3. QuietInv BY <1>2 DEF AutomInv
  <1>4. Heal \in Autom!Actors BY AutomNames
  <1>5. FileFits'
    <2>1. StoreFits(file)' BY <1>2, <1>3 DEF QuietInv, FileFits, StoreFits
    <2>2. \A r \in Runs : file.log[r] = "running" => Excused(r)' \/ call'[Heal].step # "none"
      BY <1>2, <1>3, <1>4 DEF QuietInv, FileFits
    <2> QED BY <1>2, <1>3, <2>1, <2>2 DEF QuietInv, FileFits
  <1>6. \A d \in Autom!Actors : /\ d # c => call'[d].step = "none" /\ ~ call'[d].mixed
                                /\ call'[d].step # "write"
    BY <1>2, <1>3 DEF QuietInv
  <1>7. CopyFits(c, call[c].copy)' /\ SaveFits(c, call[c].copy)'
    BY <1>2 DEF CopyFits, SaveFits, StoreFits, Autom!OneEdit, Edited
  <1> QED BY <1>2, <1>5, <1>6, <1>7 DEF QuietInv

LEMMA EditCallKeeps ==
    ASSUME AutomInv, NEW c \in Admins, NEW a \in Autos, EditSteps(c, a)
    PROVE  AutomInv'
  <1>1. AutomTypes BY DEF AutomInv
  <1>2. AutomTypes' /\ admin'[c].auto = a BY <1>1, EditTypes
  <1>3. PICK s \in Autom!Store :
          /\ Autom!BeginCall(c, s) /\ Autom!OneEdit(Autom!Read, s)
          /\ Autom!Timers(s) \ {a} = Autom!Timers(Autom!Read) \ {a}
          /\ (Autom!Read.on \subseteq Autom!Read.there => s.on \subseteq s.there)
          /\ \A r \in Runs : s.log[r] # "none" => /\ s.log[r] = Autom!Read.log[r]
                                                  /\ run[r].auto \in Autom!Read.there
                                                       => run[r].auto \in s.there
    BY <1>1, EditIs
  <1>4. UNCHANGED <<file, run, cron, toHeal, boot, old>> BY <1>1, EditIs
  <1>5. c \in Autom!Actors /\ Heal \in Autom!Actors BY AutomNames
  <1>6. \A r \in Runs : Excused(r) => Excused(r)' BY <1>4 DEF Excused, Autom!Live
  <1>7. ASSUME ~ clash' PROVE CopyFits(c, s)' /\ SaveFits(c, s)'
    <2>1. ~ clash /\ file # Torn /\ call[Heal].step = "none"
      BY <1>1, <1>3, <1>5, <1>7, BegunCall
    <2>2. FileFits /\ Autom!Read = file BY <1>1, <2>1, ReadIs DEF AutomInv, QuietInv
    <2>3. StoreFits(s)' BY <1>3, <1>4, <2>1, <2>2 DEF FileFits, StoreFits
    <2>4. c \notin Runs BY AutomNames
    <2>5. \A r \in Runs : /\ run[r].step = "append" => s.log[r] = "none"
                          /\ s.log[r] = "running" => Excused(r) /\ file.log[r] = "running"
      BY <1>3, <2>1, <2>2 DEF FileFits
    <2>6. CopyFits(c, s)' BY <1>4, <1>6, <2>3, <2>4, <2>5 DEF CopyFits
    <2>7. Autom!OneEdit(file, s)' BY <1>1, <1>3, <1>4, <2>1, <2>2, ReadIs, SameEdit
    <2>8. Autom!Timers(s) \ Edited(c)' = Autom!Timers(file) \ Edited(c)'
      BY <1>2, <1>3, <2>2 DEF Edited
    <2>9. SaveFits(c, s)' BY <1>4, <2>5, <2>7, <2>8 DEF SaveFits
    <2> QED BY <2>6, <2>9
  <1> QED BY <1>2, <1>3, <1>4, <1>5, <1>6, <1>7, AfterBeginCall

LEMMA LogCallKeeps ==
    ASSUME AutomInv, NEW c \in Autom!Actors, NEW r \in Runs, NEW st \in {"running", "ended"},
           LogCall(c, r, st)
    PROVE  AutomInv'
  <1>1. AutomTypes /\ AutomTypes' BY LogTypes DEF AutomInv
  <1> DEFINE s == Autom!Logged(r, st)
  <1>2. /\ s \in Autom!Store /\ s.there = Autom!Read.there /\ s.on = Autom!Read.on
        /\ s.timed = Autom!Read.timed
        /\ s.log[r] = st /\ \A q \in Runs \ {r} : s.log[q] = Autom!Read.log[q]
        /\ run[r].auto \in Autom!Read.there /\ (st = "ended" \/ Autom!Read.log[r] = "none")
             => Autom!OneEdit(Autom!Read, s)
    BY <1>1, LogIs
  <1>3. Autom!BeginCall(c, s) /\ run[r].auto \in Autom!Read.there BY DEF LogCall
  <1> HIDE DEF s
  <1>4. PICK t \in Autom!Store : t = s BY <1>2
  <1>5. UNCHANGED <<file, admin, run, cron, boot, old>> BY DEF LogCall
  <1>6. c \notin Admins /\ Heal \notin Runs /\ Heal \in Autom!Actors
    BY AutomNames DEF LogCall
  <1>7. /\ toHeal' \subseteq toHeal /\ toHeal \ {r} \subseteq toHeal'
        /\ c # Heal => toHeal' = toHeal /\ c = r
        /\ c = Heal => st = "ended" /\ Autom!Read.log[r] # "none"
        /\ c # Heal => run[r].step \in (IF st = "running" THEN {"append"} ELSE {"update", "again"})
    BY <1>6 DEF LogCall
  <1>8. \A q \in Runs : q # r \/ c # Heal => (Excused(q) => Excused(q)')
    BY <1>5, <1>7 DEF Excused, Autom!Live
  <1>9. ASSUME ~ clash' PROVE CopyFits(c, t)' /\ SaveFits(c, t)'
    <2>1. ~ clash /\ file # Torn /\ call[Heal].step = "none"
      BY <1>1, <1>2, <1>3, <1>6, <1>9, BegunCall
    <2>2. FileFits /\ Autom!Read = file BY <1>1, <2>1, ReadIs DEF AutomInv, QuietInv
    <2>3. StoreFits(t)' BY <1>2, <1>3, <1>4, <1>5, <2>1, <2>2 DEF FileFits, StoreFits
    <2>4. run[r].step = "append" => st = "running" /\ c = r /\ file.log[r] = "none"
      BY <1>7, <2>1, <2>2 DEF FileFits
    <2>5. \A q \in Runs : run[q].step = "append" /\ q # c => t.log[q] = "none"
      BY <1>2, <1>4, <2>1, <2>2, <2>4 DEF FileFits
    <2>6. st = "running" => Excused(r)' BY <1>5, <1>7 DEF Excused, Autom!Live
    <2>7. \A q \in Runs : t.log[q] = "running" => Excused(q)'
      BY <1>2, <1>4, <1>8, <2>1, <2>2, <2>6 DEF FileFits
    <2>8. c \in Runs /\ run[c].step # "append" => t.log[c] = "ended"
      BY <1>2, <1>4, <1>6, <1>7
    <2>9. CopyFits(c, t)' BY <1>5, <2>3, <2>5, <2>7, <2>8 DEF CopyFits
    <2>10. st = "ended" \/ file.log[r] = "none" BY <1>7, <2>1, <2>2 DEF FileFits
    <2>11. Autom!OneEdit(file, t) BY <1>2, <1>3, <1>4, <2>2, <2>10
    <2>12. Autom!OneEdit(file, t)' BY <1>1, <1>5, <2>1, <2>11, ReadIs, SameEdit
    <2>13. \A q \in Runs \ {c} : t.log[q] = "running" => file.log[q] = "running"
      BY <1>2, <1>4, <1>7, <2>2
    <2>14. SaveFits(c, t)' BY <1>2, <1>4, <1>5, <1>6, <2>2, <2>12, <2>13 DEF SaveFits, Edited, Autom!Timers
    <2> QED BY <2>9, <2>14
  <1>10. \A q \in Runs : Excused(q) => Excused(q)' \/ c = Heal BY <1>8
  <1> QED BY <1>1, <1>3, <1>4, <1>5, <1>9, <1>10, AfterBeginCall

(* Somebody is writing one whole edit. *)
LEMMA WriteKeeps ==
    ASSUME AutomInv, NEW c \in Autom!Actors, Autom!BeginWrite(c)
    PROVE  AutomInv'
  <1>1. /\ AutomTypes /\ AutomTypes'
        /\ call'[c].step = "write"
        /\ \A d \in Autom!Actors : call'[d].copy = call[d].copy /\ call'[d].mixed = call[d].mixed
        /\ \A d \in Autom!Actors \ {c} : call'[d].step = call[d].step
    BY WriteTypes DEF AutomInv
  <1>2. /\ UNCHANGED <<admin, run, cron, toHeal, boot, old, clash>>
        /\ file' = Torn /\ call[c].step = "save"
    BY DEF Autom!BeginWrite
  <1> SUFFICES ASSUME ~ clash PROVE QuietInv' BY <1>1, <1>2 DEF AutomInv
  <1>3. QuietInv BY DEF AutomInv
  <1>4. file # Torn /\ \A d \in Autom!Actors \ {c} : call[d].step = "none"
    BY <1>2, <1>3 DEF QuietInv
  <1>5. FileFits' BY <1>2 DEF FileFits
  <1>6. call[c].copy \in Autom!Store BY <1>1 DEF AutomTypes, CallRec
  <1>7. CopyFits(c, call[c].copy) /\ SaveFits(c, call[c].copy) BY <1>2, <1>3 DEF QuietInv
  <1>8. CopyFits(c, call[c].copy)' BY <1>1, <1>2, <1>7 DEF CopyFits, StoreFits, Excused, Autom!Live
  <1>9. WriteFits(c, call[c].copy)'
    BY <1>1, <1>2, <1>3, <1>4, <1>7 DEF WriteFits, SaveFits, QuietInv, FileFits, Edited
  <1> QED BY <1>1, <1>2, <1>3, <1>4, <1>5, <1>8, <1>9 DEF QuietInv

LEMMA AfterEnd ==
    ASSUME AutomInv, AutomTypes', NEW c \in Autom!Actors, Autom!EndWrite(c),
           NEW s \in Autom!Store, s = call[c].copy,
           ~ clash /\ CopyFits(c, s) /\ WriteFits(c, s)
             => /\ StoreFits(s)'
                /\ \A r \in Runs : /\ run'[r].step = "append" => s.log[r] = "none"
                                   /\ s.log[r] = "running" => Excused(r)'
                /\ boot' = "up" => cron' = Autom!Timers(s)
    PROVE  AutomInv'
  <1>1. AutomTypes /\ clash' = clash BY EndTypes DEF AutomInv
  <1> SUFFICES ASSUME ~ clash PROVE QuietInv' BY <1>1 DEF AutomInv
  <1>2. QuietInv BY DEF AutomInv
  <1>3. /\ call'[c] = Autom!NoCall
        /\ \A d \in Autom!Actors \ {c} :
             /\ call'[d].step = call[d].step
             /\ call[d].step # "write" => call'[d].mixed = call[d].mixed
        /\ (~ call[c].mixed => file' = call[c].copy) /\ call[c].step = "write"
    BY <1>1, EndedWrite
  <1>4. \A d \in Autom!Actors \ {c} : call[d].step = "none" BY <1>2, <1>3 DEF QuietInv
  <1>5. \A d \in Autom!Actors : call'[d].step = "none" /\ ~ call'[d].mixed
    BY <1>2, <1>3, <1>4, EmptyIsStore DEF QuietInv
  <1>6. file' = s /\ file' # Torn BY <1>2, <1>3, AutomNames DEF QuietInv
  <1>7. CopyFits(c, s) /\ WriteFits(c, s) BY <1>2, <1>3 DEF QuietInv
  <1>8. FileFits' BY <1>6, <1>7 DEF FileFits, StoreFits
  <1> QED BY <1>5, <1>6, <1>8 DEF QuietInv

LEMMA EndEditKeeps ==
    ASSUME AutomInv, NEW c \in Admins, Autom!EndEdit(c)
    PROVE  AutomInv'
  <1>1. AutomTypes /\ c \in Autom!Actors /\ Autom!EndWrite(c) /\ c \notin Runs
    BY AutomNames DEF AutomInv, Autom!EndEdit
  <1>2. /\ AutomTypes' /\ UNCHANGED run
        /\ cron' = IF admin[c].auto \in Autom!Timers(call[c].copy)
                   THEN cron \cup {admin[c].auto} ELSE cron \ {admin[c].auto}
    BY <1>1, EndEditTypes
  <1>3. UNCHANGED <<toHeal, boot, old>> BY <1>1, EndTypes
  <1>4. PICK s \in Autom!Store : s = call[c].copy BY <1>1, EndedWrite
  <1>5. ASSUME CopyFits(c, s), WriteFits(c, s)
        PROVE  /\ StoreFits(s)'
               /\ \A r \in Runs : /\ run'[r].step = "append" => s.log[r] = "none"
                                  /\ s.log[r] = "running" => Excused(r)'
               /\ boot' = "up" => cron' = Autom!Timers(s)
    <2>1. StoreFits(s)' BY <1>2, <1>5 DEF CopyFits, StoreFits
    <2>2. \A r \in Runs : /\ run'[r].step = "append" => s.log[r] = "none"
                          /\ s.log[r] = "running" => Excused(r)'
      BY <1>1, <1>2, <1>3, <1>5 DEF CopyFits, Excused, Autom!Live
    <2>3. boot = "up" => Autom!Timers(s) \ {admin[c].auto} = cron \ {admin[c].auto}
      BY <1>5 DEF WriteFits, Edited
    <2>4. boot' = "up" => cron' = Autom!Timers(s) BY <1>2, <1>3, <1>4, <2>3
    <2> QED BY <2>1, <2>2, <2>4
  <1> QED BY <1>1, <1>2, <1>4, <1>5, AfterEnd

LEMMA WrittenKeeps ==
    ASSUME AutomInv, NEW c \in Runs, Autom!Written(c)
    PROVE  AutomInv'
  <1>1. AutomTypes /\ c \in Autom!Actors /\ Autom!EndWrite(c) /\ c \notin Admins
    BY AutomNames DEF AutomInv, Autom!Written
  <1>2. /\ AutomTypes' /\ UNCHANGED cron
        /\ run'[c].step = (IF run[c].step = "append" THEN "work" ELSE "done")
        /\ run'[c].auto = run[c].auto /\ \A q \in Runs \ {c} : run'[q] = run[q]
    BY <1>1, WrittenTypes
  <1>3. UNCHANGED <<toHeal, boot, old>> BY <1>1, EndTypes
  <1>4. PICK s \in Autom!Store : s = call[c].copy BY <1>1, EndedWrite
  <1>5. ASSUME CopyFits(c, s), WriteFits(c, s)
        PROVE  /\ StoreFits(s)'
               /\ \A r \in Runs : /\ run'[r].step = "append" => s.log[r] = "none"
                                  /\ s.log[r] = "running" => Excused(r)'
               /\ boot' = "up" => cron' = Autom!Timers(s)
    <2>1. StoreFits(s)' BY <1>2, <1>5 DEF CopyFits, StoreFits
    <2>2. \A r \in Runs : run'[r].step = "append" => s.log[r] = "none"
      BY <1>2, <1>5 DEF CopyFits
    <2>3. \A r \in Runs \ {c} : s.log[r] = "running" => Excused(r)'
      BY <1>2, <1>3, <1>5 DEF CopyFits, Excused, Autom!Live
    <2>4. s.log[c] = "running" => Excused(c)'
      BY <1>2, <1>5 DEF CopyFits, Excused, Autom!Live
    <2>5. boot' = "up" => cron' = Autom!Timers(s) BY <1>1, <1>2, <1>3, <1>5 DEF WriteFits, Edited
    <2> QED BY <2>1, <2>2, <2>3, <2>4, <2>5
  <1> QED BY <1>1, <1>2, <1>4, <1>5, AfterEnd

LEMMA HealDoneKeeps ==
    ASSUME AutomInv, Autom!HealDone
    PROVE  AutomInv'
  <1>1. AutomTypes /\ Heal \in Autom!Actors /\ Autom!EndWrite(Heal) /\ Heal \notin Admins \cup Runs
    BY AutomNames DEF AutomInv, Autom!HealDone
  <1>2. AutomTypes' /\ UNCHANGED <<run, cron>> BY <1>1, HealDoneTypes
  <1>3. UNCHANGED <<toHeal, boot, old>> BY <1>1, EndTypes
  <1>4. PICK s \in Autom!Store : s = call[Heal].copy BY <1>1, EndedWrite
  <1>5. ASSUME CopyFits(Heal, s), WriteFits(Heal, s)
        PROVE  /\ StoreFits(s)'
               /\ \A r \in Runs : /\ run'[r].step = "append" => s.log[r] = "none"
                                  /\ s.log[r] = "running" => Excused(r)'
               /\ boot' = "up" => cron' = Autom!Timers(s)
    <2>1. StoreFits(s)' BY <1>2, <1>5 DEF CopyFits, StoreFits
    <2>2. \A r \in Runs : /\ run'[r].step = "append" => s.log[r] = "none"
                          /\ s.log[r] = "running" => Excused(r)'
      BY <1>1, <1>2, <1>3, <1>5 DEF CopyFits, Excused, Autom!Live
    <2>3. boot' = "up" => cron' = Autom!Timers(s) BY <1>1, <1>2, <1>3, <1>5 DEF WriteFits, Edited
    <2> QED BY <2>1, <2>2, <2>3
  <1> QED BY <1>1, <1>2, <1>4, <1>5, AfterEnd

-----------------------------------------------------------------------------
(* The quiet steps. *)
LEMMA AutomsTyped ==
    AutomTypes => /\ run \in [Runs -> RunRec] /\ cron \in SUBSET Autos /\ swept \in SUBSET Autos
                  /\ toHeal \in SUBSET Runs /\ old \in SUBSET Runs
                  /\ pending \in [Autos -> {"no", "wait", "due"}]
                  /\ night \in BOOLEAN /\ clash \in BOOLEAN
                  /\ boot = "down" => /\ swept = {} /\ toHeal = {}
                                      /\ \A r \in Runs : ~ Autom!Live(r)
                  /\ boot # "up" => cron = {}
  BY DEF AutomTypes

LEMMA NoMove == AutomTypes /\ UNCHANGED run => RunMoves
  BY AutomsTyped DEF RunMoves

LEMMA RunGoesOn ==
    ASSUME AutomTypes, NEW r \in Runs, NEW step \in Autom!RunSteps, Autom!Goto(r, step),
           step # "append", call[r].step = "none"
    PROVE  /\ RunMoves /\ run'[r].step = step /\ \A q \in Runs \ {r} : run'[q] = run[q]
  BY RunMoved DEF RunMoves

LEMMA Begins ==
    ASSUME AutomTypes, NEW r \in Runs, NEW a \in Autos, Autom!Begin(r, a)
    PROVE  /\ RunMoves
           /\ \A q \in Runs : /\ Autom!Live(q) => Autom!Live(q)'
                              /\ run[q].step = "left" => run'[q].step = "left"
  <1>1. /\ run' \in [Runs -> RunRec] /\ run'[r].step = "append" /\ run[r] = Autom!NoRun
        /\ \A q \in Runs \ {r} : run'[q] = run[q]
    BY RunBegun
  <1>2. call[r].step = "none" BY <1>1, EmptyIsStore DEF AutomTypes
  <1> QED BY <1>1, <1>2, EmptyIsStore DEF RunMoves, Autom!Live

LEMMA FireKeeps ==
    ASSUME AutomInv, NEW r \in Runs, NEW a \in Autos,
           Autom!Fire(r, a) \/ Autom!Trigger(r, a) \/ Autom!SweepNext(r, a)
    PROVE  AutomInv'
  <1>1. AutomTypes BY DEF AutomInv
  <1>2. /\ UNCHANGED <<file, call, admin, toHeal, boot, night, old, edits, stops>>
        /\ Autom!Peek /\ (Autom!Begin(r, a) \/ UNCHANGED run)
    BY DEF Autom!Fire, Autom!Trigger, Autom!SweepNext, Autom!bounds
  <1>3. RunMoves /\ \A q \in Runs : /\ Autom!Live(q) => Autom!Live(q)'
                                    /\ run[q].step = "left" => run'[q].step = "left"
    <2>1. CASE Autom!Begin(r, a) BY <1>1, <2>1, Begins
    <2>2. CASE UNCHANGED run BY <1>1, <2>2, NoMove DEF Autom!Live
    <2> QED BY <1>2, <2>1, <2>2
  <1>4. clash' \in BOOLEAN /\ (clash => clash') /\ (~ clash' => file # Torn)
    BY <1>1, <1>2, AutomsTyped DEF Autom!Peek
  <1>5. CASE Autom!Fire(r, a)
    <2>1. a \in cron /\ boot = "up" BY <1>1, <1>5, AutomsTyped DEF Autom!Fire, AutomTypes
    <2>2. /\ cron' = (IF a \in Autom!Read.there THEN cron ELSE cron \ {a}) /\ UNCHANGED swept
          /\ pending' = [pending EXCEPT ![a] =
               IF a \notin Autom!Read.on THEN "no"
               ELSE IF a \in IdleOnly /\ ~ night /\ @ = "no" THEN "wait" ELSE @]
      BY <1>5 DEF Autom!Fire
    <2>3. cron' \in SUBSET Autos BY <1>1, <2>2, AutomsTyped
    <2>4. pending' \in [Autos -> {"no", "wait", "due"}] BY <1>1, <2>2, AutomsTyped
    <2>5. QuietStep BY <1>1, <1>2, <1>3, <1>4, <2>1, <2>2, <2>3, <2>4, AutomsTyped DEF QuietStep
    <2>6. ~ clash' => UNCHANGED cron
      BY <1>1, <1>4, <2>1, <2>2, ReadIs DEF AutomInv, QuietInv, FileFits, StoreFits, Autom!Timers
    <2>7. ~ clash' => KeepsExcuses BY <1>2, <1>3, <2>6 DEF KeepsExcuses, Excused
    <2> QED BY <2>5, <2>7, AfterQuietStep
  <1>6. CASE Autom!Trigger(r, a) \/ Autom!SweepNext(r, a)
    <2>1. /\ UNCHANGED <<cron, pending>> /\ swept' \in SUBSET swept
          /\ boot = "up" \/ swept # {}
      BY <1>6 DEF Autom!Trigger, Autom!SweepNext
    <2>2. QuietStep BY <1>1, <1>2, <1>3, <1>4, <2>1, AutomsTyped DEF QuietStep
    <2>3. KeepsExcuses BY <1>2, <1>3, <2>1 DEF KeepsExcuses, Excused
    <2> QED BY <2>2, <2>3, AfterQuietStep
  <1> QED BY <1>5, <1>6

(* A run that goes on without a call. *)
Passes(r, from, to) ==
    /\ Autom!RunStep(r, from) /\ call[r].step = "none"
    /\ Autom!Goto(r, to) /\ UNCHANGED call /\ (UNCHANGED clash \/ Autom!Peek)
    /\ to = "done" => Autom!Peek /\ run[r].auto \notin Autom!Read.there

LEMMA PassKeeps ==
    ASSUME AutomInv, NEW r \in Runs, NEW from \in {"append", "work", "update", "again"},
           NEW to \in {"work", "update", "again", "done"}, Passes(r, from, to)
    PROVE  AutomInv'
  <1>1. AutomTypes /\ to \in Autom!RunSteps /\ to # "append" BY DEF AutomInv, Autom!RunSteps
  <1>2. /\ UNCHANGED <<file, call, admin, cron, swept, toHeal, pending, boot, night, old, edits, stops>>
        /\ run[r].step = from /\ Autom!Goto(r, to) /\ call[r].step = "none"
    BY DEF Passes, Autom!RunStep, Autom!bounds
  <1>3. /\ RunMoves /\ run'[r].step = to /\ \A q \in Runs \ {r} : run'[q] = run[q]
    BY <1>1, <1>2, RunGoesOn
  <1>4. clash' \in BOOLEAN /\ (clash => clash') /\ (to = "done" /\ ~ clash' => file # Torn)
    <2>1. clash \in BOOLEAN BY <1>1, AutomsTyped
    <2>2. UNCHANGED clash \/ Autom!Peek BY DEF Passes
    <2>3. to = "done" => Autom!Peek BY DEF Passes
    <2>4. CASE Autom!Peek BY <2>1, <2>4 DEF Autom!Peek
    <2>5. CASE UNCHANGED clash /\ to # "done" BY <2>1, <2>5
    <2> QED BY <2>2, <2>3, <2>4, <2>5
  <1>5. boot # "down" BY <1>1, <1>2, AutomsTyped DEF Autom!Live
  <1>6. QuietStep BY <1>1, <1>2, <1>3, <1>4, <1>5, AutomsTyped DEF QuietStep
  <1>7. ASSUME ~ clash' PROVE KeepsExcuses
    <2>1. \A q \in Runs \ {r} : Excused(q) => Excused(q)' BY <1>2, <1>3 DEF Excused, Autom!Live
    <2>2. CASE to # "done" BY <1>2, <1>3, <2>1, <2>2 DEF KeepsExcuses, Excused, Autom!Live
    <2>3. CASE to = "done"
      <3>1. file # Torn /\ Autom!Read = file /\ run[r].auto \notin file.there
        BY <1>1, <1>4, <1>7, <2>3, ReadIs DEF Passes
      <3>2. StoreFits(file) BY <1>4, <1>7, <3>1 DEF AutomInv, QuietInv, FileFits
      <3>3. file.log[r] # "running" BY <3>1, <3>2 DEF StoreFits
      <3> QED BY <1>2, <2>1, <3>1, <3>3 DEF KeepsExcuses
    <2> QED BY <2>2, <2>3
  <1> QED BY <1>6, <1>7, AfterQuietStep

LEMMA AgeKeeps ==
    ASSUME AutomInv, NEW r \in Runs, Autom!Age(r)
    PROVE  AutomInv'
  <1>1. AutomTypes BY DEF AutomInv
  <1>2. /\ UNCHANGED <<file, call, admin, run, cron, swept, toHeal, pending, boot, night, edits, stops, clash>>
        /\ old' = old \cup {r} /\ (Autom!Live(r) \/ boot = "down")
    BY DEF Autom!Age, Autom!process, Autom!bounds
  <1>3. RunMoves BY <1>1, <1>2, NoMove
  <1>4. QuietStep BY <1>1, <1>2, <1>3, AutomsTyped DEF QuietStep
  <1>5. KeepsExcuses BY <1>2 DEF KeepsExcuses, Excused, Autom!Live
  <1> QED BY <1>4, <1>5, AfterQuietStep

LEMMA ListKeeps ==
    ASSUME AutomInv, Autom!Sweep \/ Autom!Clock
    PROVE  AutomInv'
  <1>1. AutomTypes BY DEF AutomInv
  <1>2. /\ UNCHANGED <<file, call, admin, run, cron, toHeal, boot, old, edits, stops, clash>>
        /\ boot = "down" => UNCHANGED swept
    BY DEF Autom!Sweep, Autom!Clock, Autom!process, Autom!bounds
  <1>3. swept' \in SUBSET Autos /\ pending' \in [Autos -> {"no", "wait", "due"}] /\ night' \in BOOLEAN
    <2>1. CASE Autom!Sweep
      BY <1>1, <2>1, AutomsTyped DEF Autom!Sweep, Autom!Taken, Autom!Due
    <2>2. CASE Autom!Clock
      BY <1>1, <2>2, AutomsTyped DEF Autom!Clock, Autom!process
    <2> QED BY <2>1, <2>2
  <1>4. RunMoves BY <1>1, <1>2, NoMove
  <1>5. QuietStep BY <1>1, <1>2, <1>3, <1>4, AutomsTyped DEF QuietStep
  <1>6. KeepsExcuses BY <1>2 DEF KeepsExcuses, Excused, Autom!Live
  <1> QED BY <1>5, <1>6, AfterQuietStep

(* A run to be healed without a record to close. *)
NothingToHeal(r) ==
    /\ r \in toHeal /\ toHeal' = toHeal \ {r} /\ Autom!Peek /\ UNCHANGED call
    /\ ~ (run[r].auto \in Autom!Read.there /\ Autom!Read.log[r] # "none")
    /\ UNCHANGED <<file, admin, run, cron, swept, pending, boot, night, old, edits, stops>>

LEMMA NothingToHealKeeps ==
    ASSUME AutomInv, NEW r \in Runs, NothingToHeal(r)
    PROVE  AutomInv'
  <1>1. AutomTypes BY DEF AutomInv
  <1>2. /\ UNCHANGED <<file, call, admin, run, cron, swept, pending, boot, night, old, edits, stops>>
        /\ r \in toHeal /\ toHeal' = toHeal \ {r}
    BY DEF NothingToHeal
  <1>3. clash' \in BOOLEAN /\ (clash => clash') /\ (~ clash' => file # Torn)
    BY <1>1, AutomsTyped DEF NothingToHeal, Autom!Peek
  <1>4. RunMoves BY <1>1, <1>2, NoMove
  <1>5. QuietStep BY <1>1, <1>2, <1>3, <1>4, AutomsTyped DEF QuietStep
  <1>6. ASSUME ~ clash' PROVE KeepsExcuses
    <2>1. file # Torn /\ Autom!Read = file /\ StoreFits(file)
      BY <1>1, <1>3, <1>6, ReadIs DEF AutomInv, QuietInv, FileFits
    <2>2. file.log[r] # "running" BY <2>1 DEF StoreFits, NothingToHeal
    <2>3. call[r].step # "none" => Autom!Live(r) BY <1>1 DEF AutomTypes, Autom!Live
    <2>4. \A q \in Runs \ {r} : Excused(q) => Excused(q)' BY <1>2 DEF Excused, Autom!Live
    <2>5. Autom!Live(r) => Excused(r)' BY <1>2 DEF Excused, Autom!Live
    <2> QED BY <1>2, <2>1, <2>2, <2>3, <2>4, <2>5 DEF KeepsExcuses
  <1> QED BY <1>5, <1>6, AfterQuietStep

-----------------------------------------------------------------------------
(* A save fails. *)
LEMMA FailIs ==
    ASSUME AutomTypes, NEW c \in Autom!Actors, Autom!Fail(c)
    PROVE  /\ call' \in [Autom!Actors -> CallRec] /\ call'[c] = Autom!NoCall
           /\ \A d \in Autom!Actors \ {c} : call'[d] = call[d]
           /\ call[c].step \in {"save", "write"} /\ boot # "down"
           /\ file' \in Autom!Store \cup {Torn}
           /\ file' = file \/ (call[c].step = "write" /\ file' = Torn)
           /\ clash' \in BOOLEAN /\ (clash => clash') /\ (~ clash' => call[c].step = "save")
           /\ UNCHANGED <<cron, swept, pending, boot, night, old, edits>>
           /\ stops' \in 0..MaxStops
  <1>1. call' = [call EXCEPT ![c] = Autom!NoCall] /\ call \in [Autom!Actors -> CallRec]
    BY DEF Autom!Fail, AutomTypes
  <1>2. call[c].step \in {"save", "write"} BY <1>1 DEF Autom!Fail, CallRec
  <1>3. boot # "down" BY <1>2 DEF AutomTypes
  <1>4. file' = file \/ (call[c].step = "write" /\ file' = Torn) BY DEF Autom!Fail
  <1>5. stops' \in 0..MaxStops BY AutomNames DEF Autom!Fail, AutomTypes
  <1>6. clash' = (clash \/ call[c].step = "write") /\ clash \in BOOLEAN
    BY DEF Autom!Fail, AutomTypes
  <1>7. UNCHANGED <<cron, swept, pending, boot, night, old, edits>> BY DEF Autom!Fail
  <1>8. call' \in [Autom!Actors -> CallRec] /\ call'[c] = Autom!NoCall
        /\ \A d \in Autom!Actors \ {c} : call'[d] = call[d]
    BY <1>1, EmptyIsStore
  <1> QED BY <1>2, <1>3, <1>4, <1>5, <1>6, <1>7, <1>8 DEF AutomTypes

LEMMA AfterFail ==
    ASSUME AutomInv, AutomTypes', NEW c \in Autom!Actors, Autom!Fail(c),
           \A r \in Runs : /\ run'[r].auto = run[r].auto
                           /\ run'[r].step = "append" => run[r].step = "append"
                           /\ Excused(r) \/ c = Heal => Excused(r)' \/ run[r] = Autom!NoRun
    PROVE  AutomInv'
  <1>1. AutomTypes BY DEF AutomInv
  <1> SUFFICES ASSUME ~ clash' PROVE QuietInv' BY DEF AutomInv
  <1>2. /\ call'[c] = Autom!NoCall /\ \A d \in Autom!Actors \ {c} : call'[d] = call[d]
        /\ ~ clash /\ call[c].step = "save" /\ UNCHANGED <<file, cron, boot>>
    BY <1>1, FailIs
  <1>3. QuietInv BY <1>2 DEF AutomInv
  <1>4. \A d \in Autom!Actors : call'[d].step = "none" /\ ~ call'[d].mixed
    BY <1>2, <1>3, EmptyIsStore DEF QuietInv
  <1>5. file # Torn /\ file \in Autom!Store /\ FileFits BY <1>1, <1>2, <1>3 DEF QuietInv, AutomTypes
  <1>6. \A r \in Runs : run[r] = Autom!NoRun => file.log[r] = "none"
    BY <1>5, EmptyIsStore, AutomNames DEF FileFits, StoreFits, Autom!Store
  <1>7. \A r \in Runs : file.log[r] = "running" => Excused(r)'
    <2>1. Heal \in Autom!Actors BY AutomNames
    <2>2. c # Heal => call[Heal].step = "none" BY <1>2, <1>3, <2>1 DEF QuietInv
    <2> QED BY <1>5, <1>6, <2>2 DEF FileFits
  <1>8. FileFits' BY <1>2, <1>5, <1>7 DEF FileFits, StoreFits
  <1> QED BY <1>2, <1>4, <1>5, <1>8 DEF QuietInv

LEMMA EditFailsKeeps ==
    ASSUME AutomInv, NEW c \in Admins, Autom!EditFails(c)
    PROVE  AutomInv'
  <1>1. AutomTypes /\ c \in Autom!Actors /\ Autom!Fail(c) /\ c # Heal /\ c \notin Runs
    BY AutomNames DEF AutomInv, Autom!EditFails
  <1>2. admin' = [admin EXCEPT ![c] = Autom!NoEdit] /\ UNCHANGED <<run, toHeal>>
    BY DEF Autom!EditFails
  <1>3. /\ call' \in [Autom!Actors -> CallRec] /\ call'[c] = Autom!NoCall
        /\ \A d \in Autom!Actors \ {c} : call'[d] = call[d]
        /\ boot # "down" /\ file' \in Autom!Store \cup {Torn} /\ clash' \in BOOLEAN
        /\ UNCHANGED <<cron, swept, pending, boot, night, old, edits>> /\ stops' \in 0..MaxStops
    BY <1>1, FailIs
  <1>4. admin' \in [Admins -> EditRec] /\ admin'[c] = Autom!NoEdit
        /\ \A d \in Admins \ {c} : admin'[d] = admin[d]
    BY <1>1, <1>2, EmptyIsStore DEF AutomTypes
  <1>5. \A d \in Admins : /\ admin'[d] = Autom!NoEdit <=> call'[d].step = "none"
                          /\ admin'[d] # Autom!NoEdit => admin'[d].auto \in Autos
    BY <1>1, <1>3, <1>4, EmptyIsStore, AutomNames DEF AutomTypes
  <1>6. \A r \in Runs : call'[r] = call[r] BY <1>1, <1>3, AutomNames
  <1>7. AutomTypes' BY <1>1, <1>2, <1>3, <1>4, <1>5, <1>6 DEF AutomTypes
  <1>8. \A r \in Runs : Excused(r) => Excused(r)' BY <1>2, <1>3 DEF Excused, Autom!Live
  <1> QED BY <1>1, <1>2, <1>7, <1>8, AfterFail

LEMMA RunFailsKeeps ==
    ASSUME AutomInv, NEW r \in Runs, Autom!RunFails(r)
    PROVE  AutomInv'
  <1>1. AutomTypes /\ r \in Autom!Actors /\ Autom!Fail(r) /\ r # Heal /\ r \notin Admins
    BY AutomNames DEF AutomInv, Autom!RunFails
  <1>2. Autom!Goto(r, "left") /\ UNCHANGED <<admin, toHeal>> BY DEF Autom!RunFails
  <1>3. /\ call' \in [Autom!Actors -> CallRec] /\ call'[r] = Autom!NoCall
        /\ \A d \in Autom!Actors \ {r} : call'[d] = call[d]
        /\ boot # "down" /\ file' \in Autom!Store \cup {Torn} /\ clash' \in BOOLEAN
        /\ UNCHANGED <<cron, swept, pending, boot, night, old, edits>> /\ stops' \in 0..MaxStops
    BY <1>1, FailIs
  <1>4. /\ run' \in [Runs -> RunRec] /\ run'[r].step = "left" /\ run'[r].auto = run[r].auto
        /\ \A q \in Runs \ {r} : run'[q] = run[q]
    BY <1>1, <1>2, RunMoved DEF Autom!RunSteps
  <1>5. \A q \in Runs : call'[q].step # "none" => run'[q].step \in {"append", "update", "again"}
    BY <1>1, <1>3, <1>4, EmptyIsStore, AutomNames DEF AutomTypes
  <1>6. \A d \in Admins : call'[d] = call[d] BY <1>1, <1>3, AutomNames
  <1>7. AutomTypes' BY <1>1, <1>2, <1>3, <1>4, <1>5, <1>6 DEF AutomTypes
  <1>8. \A q \in Runs : Excused(q) => Excused(q)' BY <1>2, <1>3, <1>4 DEF Excused, Autom!Live
  <1>9. \A q \in Runs : run'[q].auto = run[q].auto
                        /\ (run'[q].step = "append" => run[q].step = "append")
    BY <1>4
  <1> QED BY <1>1, <1>7, <1>8, <1>9, AfterFail

LEMMA HealFailsKeeps ==
    ASSUME AutomInv, Autom!HealFails
    PROVE  AutomInv'
  <1>1. AutomTypes /\ Heal \in Autom!Actors /\ Autom!Fail(Heal) /\ Heal \notin Admins \cup Runs
        /\ run \in [Runs -> RunRec]
    BY AutomNames DEF AutomInv, AutomTypes, Autom!HealFails
  <1> DEFINE f(r) == [run[r] EXCEPT !.step = "left"]
  <1>2. \A r \in Runs : f(r) \in RunRec /\ f(r).step = "left" /\ f(r).auto = run[r].auto
    BY <1>1 DEF RunRec, Autom!RunSteps
  <1>3. /\ run' = [r \in Runs |-> IF Autom!Live(r) \/ run[r] = Autom!NoRun THEN run[r] ELSE f(r)]
        /\ toHeal' = {} /\ UNCHANGED admin
    BY DEF Autom!HealFails
  <1> HIDE DEF f
  <1>4. /\ run' \in [Runs -> RunRec]
        /\ \A r \in Runs : /\ run'[r].auto = run[r].auto
                           /\ Autom!Live(r) => run'[r] = run[r]
                           /\ run'[r].step = "append" => run[r].step = "append"
                           /\ run'[r].step = "left" \/ Autom!Live(r) \/ run[r] = Autom!NoRun
    BY <1>1, <1>2, <1>3
  <1>5. /\ call' \in [Autom!Actors -> CallRec] /\ call'[Heal] = Autom!NoCall
        /\ \A d \in Autom!Actors \ {Heal} : call'[d] = call[d]
        /\ boot # "down" /\ file' \in Autom!Store \cup {Torn} /\ clash' \in BOOLEAN
        /\ UNCHANGED <<cron, swept, pending, boot, night, old, edits>> /\ stops' \in 0..MaxStops
    BY <1>1, FailIs
  <1>6. \A d \in Admins \cup Runs : call'[d] = call[d] BY <1>1, <1>5, AutomNames
  <1>7. \A q \in Runs : call'[q].step # "none" => run'[q].step \in {"append", "update", "again"}
    BY <1>1, <1>4, <1>6 DEF AutomTypes, Autom!Live
  <1>8. AutomTypes' BY <1>1, <1>3, <1>4, <1>5, <1>6, <1>7 DEF AutomTypes
  <1>9. \A r \in Runs : Excused(r)' \/ run[r] = Autom!NoRun BY <1>4 DEF Excused, Autom!Live
  <1> QED BY <1>1, <1>4, <1>8, <1>9, AfterFail

-----------------------------------------------------------------------------
(* The process stops and starts. *)
LEMMA StopKeeps ==
    ASSUME AutomInv, Autom!Stop
    PROVE  AutomInv'
  <1>1. AutomTypes /\ run \in [Runs -> RunRec] BY DEF AutomInv, AutomTypes
  <1>2. /\ UNCHANGED <<file, pending, night, old, edits>> /\ boot' = "down"
        /\ stops < MaxStops /\ stops' = stops + 1
        /\ call' = [c \in Autom!Actors |-> Autom!NoCall] /\ admin' = [c \in Admins |-> Autom!NoEdit]
        /\ cron' = {} /\ swept' = {} /\ toHeal' = {}
    BY DEF Autom!Stop
  <1>3. clash' \in BOOLEAN
        /\ (~ clash' => ~ clash /\ \A c \in Autom!Actors : call[c].step # "write")
    BY <1>1, AutomsTyped DEF Autom!Stop
  <1> DEFINE f(r) == [run[r] EXCEPT !.step = "dead"]
  <1>4. \A r \in Runs : f(r) \in RunRec /\ f(r).step = "dead" /\ f(r).auto = run[r].auto
    BY <1>1 DEF RunRec, Autom!RunSteps
  <1>5. run' = [r \in Runs |-> IF run[r].step \in {"free", "done"} THEN run[r] ELSE f(r)]
    BY DEF Autom!Stop
  <1> HIDE DEF f
  <1>6. /\ run' \in [Runs -> RunRec]
        /\ \A r \in Runs : run'[r].auto = run[r].auto /\ run'[r].step \in {"free", "done", "dead"}
    BY <1>1, <1>4, <1>5
  <1>7. /\ \A c \in Autom!Actors : call'[c] = Autom!NoCall
        /\ call' \in [Autom!Actors -> CallRec] /\ admin' \in [Admins -> EditRec]
        /\ \A c \in Admins : admin'[c] = Autom!NoEdit
    BY <1>2, EmptyIsStore
  <1>8. \A r \in Runs : ~ Autom!Live(r)' BY <1>6 DEF Autom!Live
  <1>9. stops' \in 0..MaxStops BY <1>1, <1>2, AutomNames DEF AutomTypes
  <1>10. Admins \subseteq Autom!Actors /\ Runs \subseteq Autom!Actors BY AutomNames
  <1>11. \A c \in Autom!Actors : call'[c].step = "none" /\ ~ call'[c].mixed BY <1>7, EmptyIsStore
  <1>12. AutomTypes'
    BY <1>1, <1>2, <1>3, <1>6, <1>7, <1>8, <1>9, <1>10, <1>11 DEF AutomTypes
  <1>13. ASSUME ~ clash' PROVE QuietInv'
    <2>1. file' # Torn BY <1>2, <1>3, <1>13 DEF AutomInv, QuietInv
    <2>2. StoreFits(file) BY <1>2, <1>3, <1>13, <2>1 DEF AutomInv, QuietInv, FileFits
    <2>3. FileFits' BY <1>2, <1>6, <2>2 DEF FileFits, StoreFits, Excused
    <2> QED BY <1>11, <2>1, <2>3 DEF QuietInv
  <1> QED BY <1>12, <1>13 DEF AutomInv

LEMMA BootKeeps ==
    ASSUME AutomInv, FileInv, Autom!Boot
    PROVE  AutomInv'
  <1>1. AutomTypes BY DEF AutomInv
  <1>2. /\ UNCHANGED <<file, call, admin, run, cron, swept, pending, night, old, edits, stops>>
        /\ boot = "down" /\ boot' = "starting" /\ clash' = (file = Torn)
        /\ toHeal' = {r \in old : Autom!Read.log[r] = "running"}
    BY DEF Autom!Boot, Autom!bounds
  <1>3. AutomTypes' BY <1>1, <1>2 DEF AutomTypes
  <1>4. \A c \in Autom!Actors : call[c].step = "none" /\ ~ call[c].mixed
    BY <1>1, <1>2 DEF AutomTypes, FileInv
  <1>5. ASSUME ~ clash' PROVE QuietInv'
    <2>1. file # Torn /\ Autom!Read = file /\ StoreFits(file)
      BY <1>1, <1>2, <1>5, ReadIs DEF FileInv, Whole
    <2>2. \A r \in Runs : file.log[r] = "running" => Excused(r)' BY <1>2, <2>1 DEF Excused
    <2>3. \A r \in Runs : run[r].step # "append" BY <1>1, <1>2 DEF AutomTypes, Autom!Live
    <2>4. FileFits' BY <1>2, <2>1, <2>2, <2>3 DEF FileFits, StoreFits
    <2> QED BY <1>2, <1>4, <2>1, <2>4 DEF QuietInv
  <1> QED BY <1>3, <1>5 DEF AutomInv

LEMMA StartTimersKeeps ==
    ASSUME AutomInv, Autom!StartTimers
    PROVE  AutomInv'
  <1>1. AutomTypes BY DEF AutomInv
  <1>2. /\ UNCHANGED <<file, call, admin, run, toHeal, night, old, edits, stops>>
        /\ boot = "starting" /\ boot' = "up" /\ cron' = Autom!Timers(Autom!Read)
    BY DEF Autom!StartTimers, Autom!bounds
  <1>3. clash' \in BOOLEAN /\ (~ clash' => ~ clash /\ file # Torn)
    BY <1>1, AutomsTyped DEF Autom!StartTimers, Autom!Peek
  <1>4. swept' \in SUBSET Autos /\ pending' \in [Autos -> {"no", "wait", "due"}]
    BY <1>1, AutomsTyped DEF Autom!StartTimers, Autom!Taken, Autom!Due
  <1>5. cron' \in SUBSET Autos BY <1>1, <1>2, ReadIs DEF Autom!Store, Autom!Timers
  <1>6. AutomTypes' BY <1>1, <1>2, <1>3, <1>4, <1>5 DEF AutomTypes
  <1>7. ASSUME ~ clash' PROVE QuietInv'
    <2>1. QuietInv /\ Autom!Read = file /\ file # Torn BY <1>1, <1>3, <1>7, ReadIs DEF AutomInv
    <2>2. \A r \in Runs : Excused(r) => Excused(r)' BY <1>2 DEF Excused, Autom!Live
    <2>3. FileFits' BY <1>2, <2>1, <2>2 DEF QuietInv, FileFits, StoreFits
    <2>4. \A c \in Autom!Actors : call[c].step # "write" /\ call[c].copy \in Autom!Store
      BY <1>1, <2>1 DEF QuietInv, AutomTypes, CallRec
    <2>5. ASSUME NEW c \in Autom!Actors
          PROVE  /\ call[c].step # "none" => CopyFits(c, call[c].copy)'
                 /\ call[c].step = "save" => SaveFits(c, call[c].copy)'
      <3>1. CopyFits(c, call[c].copy) => CopyFits(c, call[c].copy)'
        BY <1>2, <2>2 DEF CopyFits, StoreFits
      <3>2. PICK s \in Autom!Store, t \in Autom!Store : s = file /\ t = call[c].copy
        BY <1>1, <2>1, <2>4, ReadIs
      <3>3. Autom!OneEdit(file, call[c].copy) => Autom!OneEdit(s, t)' BY <1>2, <3>2, SameEdit
      <3>4. SaveFits(c, call[c].copy) => SaveFits(c, call[c].copy)'
        BY <1>2, <3>2, <3>3 DEF SaveFits, Edited
      <3> QED BY <2>1, <3>1, <3>4 DEF QuietInv
    <2> QED BY <1>2, <2>1, <2>3, <2>4, <2>5 DEF QuietInv
  <1> QED BY <1>6, <1>7 DEF AutomInv

-----------------------------------------------------------------------------
(* Every step of Automations is one of these. *)
LEMMA RunStepKeeps ==
    ASSUME AutomInv, NEW r \in Runs,
           \/ Autom!Refuse(r) \/ Autom!Append(r) \/ Autom!Work(r) \/ Autom!Update(r)
           \/ Autom!AppendFinal(r) \/ Autom!HealOne(r)
    PROVE  \/ \E from \in {"append", "work", "update", "again"},
                 to \in {"work", "update", "again", "done"} : Passes(r, from, to)
           \/ \E c \in Autom!Actors, st \in {"running", "ended"} : LogCall(c, r, st)
           \/ NothingToHeal(r)
  <1>1. AutomTypes /\ r \in Autom!Actors /\ Heal \in Autom!Actors BY AutomNames DEF AutomInv
  <1>2. CASE Autom!Refuse(r)
    <2>1. Passes(r, "append", "again") BY <1>2 DEF Passes, Autom!Refuse
    <2> QED BY <2>1
  <1>3. CASE Autom!Append(r)
    <2>1. Passes(r, "append", "work") \/ LogCall(r, r, "running")
      BY <1>3 DEF Passes, LogCall, Autom!Append, Autom!RunStep, Autom!bounds
    <2> QED BY <1>1, <2>1
  <1>4. CASE Autom!Work(r)
    <2>1. call[r].step = "none" BY <1>1, <1>4 DEF AutomTypes, Autom!Work, Autom!RunStep
    <2>2. Passes(r, "work", "update") BY <1>4, <2>1 DEF Passes, Autom!Work
    <2> QED BY <2>2
  <1>5. CASE Autom!Update(r)
    <2>1. Passes(r, "update", "again") \/ LogCall(r, r, "ended")
      BY <1>5 DEF Passes, LogCall, Autom!Update, Autom!RunStep, Autom!bounds
    <2> QED BY <1>1, <2>1
  <1>6. CASE Autom!AppendFinal(r)
    <2>1. Passes(r, "again", "done") \/ LogCall(r, r, "ended")
      BY <1>6 DEF Passes, LogCall, Autom!AppendFinal, Autom!RunStep, Autom!bounds
    <2> QED BY <1>1, <2>1
  <1>7. CASE Autom!HealOne(r)
    <2>1. NothingToHeal(r) \/ LogCall(Heal, r, "ended")
      BY <1>7 DEF NothingToHeal, LogCall, Autom!HealOne, Autom!bounds
    <2> QED BY <1>1, <2>1
  <1> QED BY <1>2, <1>3, <1>4, <1>5, <1>6, <1>7

LEMMA AutomNextKeeps ==
    ASSUME AutomInv, FileInv, Autom!Next
    PROVE  AutomInv'
  <1>1. ASSUME NEW c \in Autom!Actors, Autom!BeginWrite(c) PROVE AutomInv' BY <1>1, WriteKeeps
  <1>2. ASSUME NEW c \in Admins, Autom!EndEdit(c) \/ Autom!EditFails(c) PROVE AutomInv'
    BY <1>2, EndEditKeeps, EditFailsKeeps
  <1>3. ASSUME NEW c \in Admins, NEW a \in Autos, EditSteps(c, a) PROVE AutomInv'
    BY <1>3, EditCallKeeps
  <1>4. ASSUME NEW r \in Runs, NEW a \in Autos,
               Autom!Fire(r, a) \/ Autom!Trigger(r, a) \/ Autom!SweepNext(r, a)
        PROVE  AutomInv'
    BY <1>4, FireKeeps
  <1>5. ASSUME NEW r \in Runs,
               \/ Autom!Refuse(r) \/ Autom!Append(r) \/ Autom!Work(r) \/ Autom!Update(r)
               \/ Autom!AppendFinal(r) \/ Autom!HealOne(r)
        PROVE  AutomInv'
    BY <1>5, RunStepKeeps, PassKeeps, LogCallKeeps, NothingToHealKeeps
  <1>6. ASSUME NEW r \in Runs, Autom!Written(r) \/ Autom!RunFails(r) PROVE AutomInv'
    BY <1>6, WrittenKeeps, RunFailsKeeps
  <1>7. ASSUME NEW r \in Runs, Autom!Age(r) PROVE AutomInv' BY <1>7, AgeKeeps
  <1>8. CASE Autom!HealDone \/ Autom!HealFails BY <1>8, HealDoneKeeps, HealFailsKeeps
  <1>9. CASE Autom!Sweep \/ Autom!Clock BY <1>9, ListKeeps
  <1>10. CASE Autom!Stop BY <1>10, StopKeeps
  <1>11. CASE Autom!Boot BY <1>11, BootKeeps
  <1>12. CASE Autom!StartTimers BY <1>12, StartTimersKeeps
  <1> QED BY <1>1, <1>2, <1>3, <1>4, <1>5, <1>6, <1>7, <1>8, <1>9, <1>10, <1>11, <1>12
          DEF Autom!Next, EditSteps

LEMMA AutomSafe == AutomInv => Autom!AutomationsSafe
  <1> SUFFICES ASSUME AutomInv PROVE Autom!AutomationsSafe OBVIOUS
  <1>1. AutomTypes BY DEF AutomInv
  <1>2. Autom!TypeInv BY <1>1 DEF AutomTypes, CallRec, EditRec, RunRec, Autom!TypeInv
  <1>3. Autom!RunningIsLive
    BY DEF AutomInv, QuietInv, FileFits, Excused, Autom!RunningIsLive, Autom!Healing
  <1>4. Autom!TimersFollow BY DEF AutomInv, QuietInv, FileFits, Autom!TimersFollow
  <1> QED BY <1>2, <1>3, <1>4 DEF Autom!AutomationsSafe

-----------------------------------------------------------------------------
(* The content of the file.  To the file and the calls every step is one of *)
(* these.                                                                   *)
RunsGoOn ==
    \A r \in Runs : /\ run[r] = Autom!NoRun \/ run'[r].auto = run[r].auto
                    /\ run'[r].step = "append" => run[r].step = "append" \/ run[r] = Autom!NoRun

Still     == UNCHANGED <<file, call>> /\ RunsGoOn
Calls(c)  == /\ UNCHANGED <<file, run>> /\ call[c].step = "none"
             /\ \E s \in Autom!Store : /\ Autom!BeginCall(c, s) /\ Whole(s, {c})
                                       /\ Autom!OneEdit(Autom!Read, s)
Leaves(c) == /\ Autom!EndWrite(c) \/ Autom!Fail(c)
             /\ RunsGoOn /\ (c \in Runs => run'[c].step # "append")

LEMMA ReadIsWhole == ASSUME AutomTypes, FileInv PROVE Whole(Autom!Read, {})
  BY DEF FileInv, Whole, StoreFits, Autom!Read, Autom!EmptyStore

LEMMA WholeStays ==
    ASSUME RunsGoOn, NEW s \in Autom!Store, NEW x, Whole(s, x)
    PROVE  Whole(s, x)'
  <1>1. AutosStay BY DEF RunsGoOn, AutosStay
  <1>2. StoreFits(s)' BY <1>1, StoresStay DEF Whole
  <1>3. \A r \in Runs : run[r] = Autom!NoRun => s.log[r] = "none"
    BY EmptyIsStore, AutomNames DEF Whole, StoreFits, Autom!Store
  <1> QED BY <1>2, <1>3 DEF Whole, RunsGoOn

LEMMA CallKinds ==
    ASSUME AutomTypes, FileInv
    PROVE  /\ \A c \in Admins, a \in Autos : EditSteps(c, a) => Calls(c)
           /\ \A c \in Autom!Actors, r \in Runs, st \in {"running", "ended"} :
                LogCall(c, r, st) => Calls(c)
  <1>1. Whole(Autom!Read, {}) BY ReadIsWhole
  <1>2. ASSUME NEW c \in Admins, NEW a \in Autos, EditSteps(c, a) PROVE Calls(c)
    <2>1. PICK s \in Autom!Store :
            /\ Autom!BeginCall(c, s) /\ Autom!OneEdit(Autom!Read, s)
            /\ (Autom!Read.on \subseteq Autom!Read.there => s.on \subseteq s.there)
            /\ \A r \in Runs : s.log[r] # "none" => /\ s.log[r] = Autom!Read.log[r]
                                                    /\ run[r].auto \in Autom!Read.there
                                                         => run[r].auto \in s.there
      BY <1>2, EditIs
    <2>2. UNCHANGED <<file, run>> /\ admin[c] = Autom!NoEdit BY <1>2, EditIs
    <2>3. call[c].step = "none" BY <2>2 DEF AutomTypes
    <2>4. Whole(s, {c}) BY <1>1, <2>1 DEF Whole, StoreFits
    <2> QED BY <2>1, <2>2, <2>3, <2>4 DEF Calls
  <1>3. ASSUME NEW c \in Autom!Actors, NEW r \in Runs, NEW st \in {"running", "ended"},
               LogCall(c, r, st)
        PROVE  Calls(c)
    <2> DEFINE s == Autom!Logged(r, st)
    <2>1. /\ s \in Autom!Store /\ s.there = Autom!Read.there /\ s.on = Autom!Read.on
          /\ s.log[r] = st /\ \A q \in Runs \ {r} : s.log[q] = Autom!Read.log[q]
          /\ run[r].auto \in Autom!Read.there /\ (st = "ended" \/ Autom!Read.log[r] = "none")
               => Autom!OneEdit(Autom!Read, s)
      BY <1>3, LogIs
    <2>2. Autom!BeginCall(c, s) /\ run[r].auto \in Autom!Read.there /\ UNCHANGED <<file, run>>
      BY <1>3 DEF LogCall
    <2> HIDE DEF s
    <2>3. call[c].step = "none" BY <1>3 DEF LogCall
    <2>4. \/ c = r /\ run[r].step = (IF st = "running" THEN "append" ELSE run[r].step)
          \/ c = Heal /\ st = "ended" /\ Autom!Read.log[r] # "none"
      BY <1>3 DEF LogCall
    <2>5. st = "ended" \/ Autom!Read.log[r] = "none" BY <1>1, <2>4 DEF Whole
    <2>6. run[r].step = "append" => c = r BY <1>1, <2>4 DEF Whole
    <2>7. Whole(s, {c}) BY <1>1, <2>1, <2>2, <2>6 DEF Whole, StoreFits
    <2> QED BY <2>1, <2>2, <2>3, <2>5, <2>7 DEF Calls
  <1> QED BY <1>2, <1>3

StepKind == \/ Still \/ Autom!Stop
            \/ \E c \in Autom!Actors : Calls(c) \/ Autom!BeginWrite(c) \/ Leaves(c)

LEMMA StepKinds == ASSUME AutomInv, FileInv, Autom!Next PROVE StepKind
  <1>0. AutomTypes /\ Admins \cup Runs \cup {Heal} = Autom!Actors
        /\ Heal \notin Runs /\ Admins \cap Runs = {}
    BY AutomNames DEF AutomInv
  <1>20. ASSUME NEW c \in Autom!Actors, Calls(c) \/ Autom!BeginWrite(c) \/ Leaves(c) PROVE StepKind
    BY <1>20 DEF StepKind
  <1>1. UNCHANGED <<file, call, run>> => StepKind BY DEF StepKind, Still, RunsGoOn
  <1>2. UNCHANGED run => RunsGoOn BY DEF RunsGoOn
  <1>3. ASSUME NEW c \in Admins, Autom!EndEdit(c) \/ Autom!EditFails(c) PROVE StepKind
    <2>1. Leaves(c) BY <1>0, <1>2, <1>3 DEF Leaves, Autom!EndEdit, Autom!EditFails
    <2> QED BY <1>0, <1>20, <2>1
  <1>4. ASSUME NEW c \in Admins, NEW a \in Autos, EditSteps(c, a) PROVE StepKind
    <2>1. Calls(c) BY <1>0, <1>4, CallKinds
    <2> QED BY <1>0, <1>20, <2>1
  <1>5. ASSUME NEW r \in Runs, NEW a \in Autos,
               Autom!Fire(r, a) \/ Autom!Trigger(r, a) \/ Autom!SweepNext(r, a)
        PROVE  StepKind
    <2>1. UNCHANGED <<file, call>> /\ (Autom!Begin(r, a) \/ UNCHANGED run)
      BY <1>5 DEF Autom!Fire, Autom!Trigger, Autom!SweepNext
    <2>2. CASE Autom!Begin(r, a)
      <3>1. RunsGoOn BY <1>0, <2>2, RunBegun DEF RunsGoOn
      <3> QED BY <2>1, <3>1 DEF StepKind, Still
    <2> QED BY <1>1, <2>1, <2>2
  <1>6. ASSUME NEW r \in Runs,
               \/ Autom!Refuse(r) \/ Autom!Append(r) \/ Autom!Work(r) \/ Autom!Update(r)
               \/ Autom!AppendFinal(r) \/ Autom!HealOne(r)
        PROVE  StepKind
    <2>1. ASSUME NEW from \in {"append", "work", "update", "again"},
                 NEW to \in {"work", "update", "again", "done"}, Passes(r, from, to)
          PROVE  StepKind
      <3>1. UNCHANGED <<file, call>> /\ Autom!Goto(r, to) BY <2>1 DEF Passes, Autom!RunStep
      <3>2. to \in Autom!RunSteps BY DEF Autom!RunSteps
      <3>3. RunsGoOn BY <1>0, <3>1, <3>2, RunMoved DEF RunsGoOn
      <3> QED BY <3>1, <3>3 DEF StepKind, Still
    <2>2. ASSUME NEW c \in Autom!Actors, NEW st \in {"running", "ended"}, LogCall(c, r, st)
          PROVE  StepKind
      BY <1>0, <1>20, <2>2, CallKinds
    <2>3. CASE NothingToHeal(r) BY <1>1, <2>3 DEF NothingToHeal
    <2> QED BY <1>6, <2>1, <2>2, <2>3, RunStepKeeps
  <1>7. ASSUME NEW r \in Runs, Autom!Written(r) PROVE StepKind
    <2>1. /\ run'[r].step = (IF run[r].step = "append" THEN "work" ELSE "done")
          /\ run'[r].auto = run[r].auto /\ \A q \in Runs \ {r} : run'[q] = run[q]
      BY <1>0, <1>7, WrittenTypes
    <2>2. Leaves(r) BY <1>7, <2>1 DEF Leaves, RunsGoOn, Autom!Written
    <2> QED BY <1>0, <1>20, <2>2
  <1>8. ASSUME NEW r \in Runs, Autom!RunFails(r) PROVE StepKind
    <2>1. Autom!Goto(r, "left") /\ Autom!Fail(r) BY <1>8 DEF Autom!RunFails
    <2>2. /\ run'[r].step = "left" /\ run'[r].auto = run[r].auto
          /\ \A q \in Runs \ {r} : run'[q] = run[q]
      BY <1>0, <2>1, RunMoved DEF Autom!RunSteps
    <2>3. Leaves(r) BY <2>1, <2>2 DEF Leaves, RunsGoOn
    <2> QED BY <1>0, <1>20, <2>3
  <1>9. ASSUME NEW r \in Runs, Autom!Age(r) PROVE StepKind
    BY <1>1, <1>9 DEF Autom!Age, Autom!process
  <1>10. CASE Autom!HealDone
    <2>1. Leaves(Heal) BY <1>0, <1>2, <1>10 DEF Leaves, Autom!HealDone
    <2> QED BY <1>0, <1>20, <2>1
  <1>11. CASE Autom!HealFails
    <2>1. RunsGoOn
      <3>1. run \in [Runs -> RunRec] BY <1>0 DEF AutomTypes
      <3>2. \A r \in Runs : /\ [run[r] EXCEPT !.step = "left"].auto = run[r].auto
                            /\ [run[r] EXCEPT !.step = "left"].step = "left"
        BY <3>1 DEF RunRec
      <3>3. \A r \in Runs : run'[r] = run[r] \/ run'[r] = [run[r] EXCEPT !.step = "left"]
        BY <1>11 DEF Autom!HealFails
      <3> QED BY <3>2, <3>3 DEF RunsGoOn
    <2>2. Leaves(Heal) BY <1>0, <1>11, <2>1 DEF Leaves, Autom!HealFails
    <2> QED BY <1>0, <1>20, <2>2
  <1>12. CASE Autom!Sweep \/ Autom!Clock
    BY <1>1, <1>12 DEF Autom!Sweep, Autom!Clock, Autom!process
  <1>13. CASE Autom!Boot \/ Autom!StartTimers BY <1>1, <1>13 DEF Autom!Boot, Autom!StartTimers
  <1>14. CASE Autom!Stop BY <1>14 DEF StepKind
  <1> QED
    BY <1>3, <1>4, <1>5, <1>6, <1>7, <1>8, <1>9, <1>10, <1>11, <1>12, <1>13, <1>14, <1>20
       DEF Autom!Next, EditSteps

(* What a step does to the content. *)
EditedNow ==
    \/ Autom!OneEdit(Autom!Content, Autom!Content')
    \/ \E c \in Autom!Actors : call[c].late /\ call'[c] # call[c]
    \/ file' = Torn /\ Autom!Writing' = {}
    \/ UNCHANGED Autom!Content

FileKept == FileInv' /\ EditedNow

LEMMA HandsFit ==
    ASSUME AutomTypes, FileInv, NEW c \in Autom!Actors, call[c].step # "none"
    PROVE  \E s \in Autom!Store : s = call[c].copy /\ Whole(s, {c})
  BY DEF AutomTypes, CallRec, FileInv

LEMMA StillKeeps ==
    ASSUME AutomTypes, FileInv, Still
    PROVE  FileKept
  <1>1. UNCHANGED <<file, call>> /\ RunsGoOn /\ AutosStay BY DEF Still, RunsGoOn, AutosStay
  <1>2. Autom!Content' = Autom!Content BY <1>1 DEF Autom!Content, Autom!Writing, Autom!Read
  <1>3. Autom!Writing' = Autom!Writing /\ Autom!Read' = Autom!Read
    BY <1>1 DEF Autom!Writing, Autom!Read
  <1>4. file # Torn => Whole(file, {})'
    <2> SUFFICES ASSUME file # Torn PROVE Whole(file, {})' OBVIOUS
    <2>1. PICK s \in Autom!Store : s = file BY DEF AutomTypes
    <2>2. Whole(s, {})' BY <1>1, <2>1, WholeStays DEF FileInv
    <2> QED BY <1>1, <2>1, <2>2 DEF Whole, StoreFits
  <1>5. ASSUME NEW c \in Autom!Actors, call[c].step # "none"
        PROVE  /\ Whole(call[c].copy, {c})'
               /\ Autom!OneEdit(Autom!Read, call[c].copy) => Autom!OneEdit(Autom!Read, call[c].copy)'
    <2>1. PICK s \in Autom!Store : s = call[c].copy /\ Whole(s, {c}) BY <1>5, HandsFit
    <2>2. Whole(s, {c})' BY <1>1, <2>1, WholeStays
    <2>3. PICK t \in Autom!Store : t = Autom!Read BY ReadIs
    <2>4. StoreFits(t) BY <2>3, ReadIsWhole DEF Whole
    <2>5. Autom!OneEdit(t, s) => Autom!OneEdit(t, s)' BY <1>1, <2>4, EditStays
    <2>6. Whole(call[c].copy, {c})' BY <1>1, <2>1, <2>2 DEF Whole, StoreFits
    <2>7. Autom!OneEdit(Autom!Read, call[c].copy) => Autom!OneEdit(t, s)' BY <2>1, <2>3, <2>5
    <2>8. t = Autom!Read' /\ s = call'[c].copy BY <1>1, <1>3, <2>1, <2>3
    <2>9. Autom!OneEdit(t, s)' => Autom!OneEdit(Autom!Read, call[c].copy)'
      <3>1. \A a : Autom!Settings(t, a)' = Autom!Settings(Autom!Read, a)'
        BY <2>8 DEF Autom!Settings
      <3>2. \A a : Autom!Without(t, a)' = Autom!Without(Autom!Read, a)'
        BY <2>8 DEF Autom!Without
      <3> QED BY <2>8, <3>1, <3>2 DEF Autom!OneEdit
    <2> QED BY <2>6, <2>7, <2>9
  <1>6. FileInv' BY <1>1, <1>3, <1>4, <1>5 DEF FileInv
  <1> QED BY <1>2, <1>6 DEF FileKept, EditedNow

LEMMA CallsKeeps ==
    ASSUME AutomTypes, FileInv, NEW c \in Autom!Actors, Calls(c)
    PROVE  FileKept
  <1>1. UNCHANGED <<file, run>> /\ call[c].step = "none" BY DEF Calls
  <1>2. PICK s \in Autom!Store : Autom!BeginCall(c, s) /\ Whole(s, {c}) /\ Autom!OneEdit(Autom!Read, s)
    BY DEF Calls
  <1>3. /\ call'[c].step = "save" /\ call'[c].copy = s /\ ~ call'[c].mixed
        /\ call'[c].late = (Autom!Writing # {})
        /\ \A d \in Autom!Actors \ {c} : call'[d] = call[d]
    BY <1>2, BegunCall
  <1>4. Autom!Writing' = Autom!Writing /\ Autom!Read' = Autom!Read
    BY <1>1, <1>3 DEF Autom!Writing, Autom!Read
  <1>5. Autom!Content' = Autom!Content
    <2>1. CASE Autom!Writing = {} BY <1>4, <2>1 DEF Autom!Content
    <2>2. CASE Autom!Writing # {}
      <3> DEFINE w == CHOOSE d \in Autom!Writing : TRUE
      <3>1. w \in Autom!Writing BY <2>2
      <3>2. Autom!Content = call[w].copy /\ Autom!Content' = call'[w].copy
        BY <1>4, <2>2 DEF Autom!Content
      <3> HIDE DEF w
      <3>3. w # c /\ w \in Autom!Actors BY <1>1, <3>1 DEF Autom!Writing
      <3> QED BY <1>3, <3>2, <3>3
    <2> QED BY <2>1, <2>2
  <1>6. \A t, x : Whole(t, x)' <=> Whole(t, x) BY <1>1 DEF Whole, StoreFits
  <1>7. \A t, u : Autom!OneEdit(t, u)' <=> Autom!OneEdit(t, u)
    BY <1>1 DEF Autom!OneEdit, Autom!Settings, Autom!Without
  <1>8. file' # Torn => Whole(file, {})' BY <1>1, <1>6 DEF FileInv, Whole, StoreFits
  <1>9. ASSUME NEW d \in Autom!Actors
        PROVE  /\ call'[d].step # "write" => ~ call'[d].mixed
               /\ call'[d].step # "none" => Whole(call'[d].copy, {d})
               /\ call'[d].step = "save" /\ ~ call'[d].late =>
                    Autom!Writing = {} /\ Autom!OneEdit(Autom!Read, call'[d].copy)
               /\ call'[d].step = "write" /\ ~ call'[d].late =>
                    file = Torn /\ ~ call'[d].mixed /\ Autom!Writing = {d}
    <2>1. CASE d = c BY <1>2, <1>3, <2>1
    <2>2. CASE d # c
      <3>1. call'[d] = call[d] BY <1>3, <2>2
      <3> QED BY <3>1 DEF FileInv
    <2> QED BY <2>1, <2>2
  <1>10. FileInv' BY <1>1, <1>4, <1>6, <1>7, <1>8, <1>9 DEF FileInv
  <1> QED BY <1>5, <1>10 DEF FileKept, EditedNow

(* Whoever begins to write overtakes all who have read. *)
LEMMA WriteOvertakes ==
    ASSUME AutomTypes, FileInv, NEW c \in Autom!Actors, Autom!BeginWrite(c)
    PROVE  FileKept
  <1>1. /\ call'[c].step = "write" /\ call'[c].late = call[c].late
        /\ \A d \in Autom!Actors : call'[d].copy = call[d].copy /\ call'[d].mixed = call[d].mixed
        /\ \A d \in Autom!Actors \ {c} : /\ call'[d].step = call[d].step
                                        /\ call'[d].late = (call[d].step # "none")
    BY WriteTypes
  <1>2. UNCHANGED run /\ file' = Torn /\ call[c].step = "save" BY DEF Autom!BeginWrite
  <1>3. Autom!Writing' = Autom!Writing \cup {c} BY <1>1, <1>2 DEF Autom!Writing
  <1>4. ~ call[c].mixed /\ (~ call[c].late =>
           Autom!Writing = {} /\ Autom!OneEdit(Autom!Read, call[c].copy))
    BY <1>2 DEF FileInv
  <1>5. ASSUME NEW d \in Autom!Actors
        PROVE  /\ call'[d].step # "write" => ~ call'[d].mixed
               /\ call'[d].step # "none" => Whole(call[d].copy, {d})
               /\ ~ (call'[d].step = "save" /\ ~ call'[d].late)
               /\ call'[d].step = "write" /\ ~ call'[d].late =>
                    ~ call'[d].mixed /\ Autom!Writing' = {d}
    <2>1. CASE d = c BY <1>1, <1>2, <1>3, <1>4, <2>1 DEF FileInv
    <2>2. CASE d # c BY <1>1, <2>2 DEF FileInv
    <2> QED BY <2>1, <2>2
  <1>6. \A d \in Autom!Actors : Whole(call[d].copy, {d}) => Whole(call[d].copy, {d})'
    BY <1>1, <1>2 DEF Whole, StoreFits
  <1>7. FileInv' BY <1>2, <1>5, <1>6 DEF FileInv
  <1>8. EditedNow
    <2>1. CASE call[c].late
      <3>1. call'[c] # call[c] BY <1>1, <1>2
      <3> QED BY <2>1, <3>1 DEF EditedNow
    <2>2. CASE ~ call[c].late
      <3>1. Autom!Content = Autom!Read BY <1>4, <2>2 DEF Autom!Content
      <3>2. Autom!Writing' = {c} BY <1>3, <1>4, <2>2
      <3>3. Autom!Content' = call[c].copy
        <4> DEFINE w == CHOOSE d \in Autom!Writing' : TRUE
        <4>1. w = c BY <3>2
        <4>2. Autom!Content' = call'[w].copy BY <3>2 DEF Autom!Content
        <4> QED BY <1>1, <4>1, <4>2
      <3> QED BY <1>4, <2>2, <3>1, <3>3 DEF EditedNow
    <2> QED BY <2>1, <2>2
  <1> QED BY <1>7, <1>8 DEF FileKept

LEMMA LeavesIs ==
    ASSUME AutomTypes, NEW c \in Autom!Actors, Leaves(c)
    PROVE  /\ call'[c] = Autom!NoCall /\ call[c].step \in {"save", "write"}
           /\ \A d \in Autom!Actors \ {c} :
                /\ call'[d].step = call[d].step /\ call'[d].copy = call[d].copy
                /\ call'[d].late = call[d].late
                /\ call[d].step # "write" \/ call[c].step = "save" => call'[d].mixed = call[d].mixed
           /\ call[c].step = "save" => file' = file
           /\ call[c].step = "write" => \/ file' = Torn \/ file' = file
                                        \/ file' = call[c].copy /\ call[c].copy \in Autom!Store
           /\ call[c].step = "write" /\ ~ call[c].mixed /\ file = Torn
                => file' = Torn \/ (file' = call[c].copy /\ call[c].copy \in Autom!Store)
  <1>1. CASE Autom!Fail(c) BY <1>1, FailIs
  <1>2. CASE Autom!EndWrite(c)
    <2>1. file' = call[c].copy \/ file' = Torn BY <1>2 DEF Autom!EndWrite
    <2> QED BY <1>2, <2>1, EndedWrite
  <1> QED BY <1>1, <1>2 DEF Leaves

LEMMA LeavesKeeps ==
    ASSUME AutomTypes, FileInv, NEW c \in Autom!Actors, Leaves(c)
    PROVE  FileKept
  <1>1. RunsGoOn /\ AutosStay /\ (c \in Runs => run'[c].step # "append")
    BY DEF Leaves, RunsGoOn, AutosStay
  <1>2. /\ call'[c].step = "none" /\ ~ call'[c].mixed /\ call[c].step \in {"save", "write"}
        /\ \A d \in Autom!Actors \ {c} :
             /\ call'[d].step = call[d].step /\ call'[d].copy = call[d].copy
             /\ call'[d].late = call[d].late
             /\ call[d].step # "write" \/ call[c].step = "save" => call'[d].mixed = call[d].mixed
        /\ call[c].step = "save" => file' = file
        /\ call[c].step = "write" => \/ file' = Torn \/ file' = file
                                     \/ file' = call[c].copy /\ call[c].copy \in Autom!Store
    BY LeavesIs, EmptyIsStore
  <1>3. Autom!Writing' = Autom!Writing \ {c} BY <1>2 DEF Autom!Writing
  <1>4. PICK s \in Autom!Store : s = call[c].copy /\ Whole(s, {c}) BY <1>2, HandsFit
  <1>5. Whole(s, {})'
    <2>1. Whole(s, {c})' BY <1>1, <1>4, WholeStays
    <2> QED BY <1>1, <2>1 DEF Whole
  <1>6. file' # Torn => Whole(file, {})'
    <2> SUFFICES ASSUME file' # Torn PROVE Whole(file, {})' OBVIOUS
    <2>1. CASE file' = file
      <3>1. PICK t \in Autom!Store : t = file BY <2>1 DEF AutomTypes
      <3>2. Whole(t, {})' BY <1>1, <2>1, <3>1, WholeStays DEF FileInv
      <3> QED BY <2>1, <3>1, <3>2 DEF Whole, StoreFits
    <2>2. CASE file' = s BY <1>5, <2>2 DEF Whole, StoreFits
    <2> QED BY <1>2, <1>4, <2>1, <2>2
  <1>7. ASSUME NEW d \in Autom!Actors \ {c}, call[d].step # "none", ~ call[d].late
        PROVE  call[c].step = "save" /\ file' = file
    <2>1. call[c].step = "write" => c \in Autom!Writing BY DEF Autom!Writing
    <2>2. call[d].step \in {"save", "write"} BY <1>7 DEF AutomTypes, CallRec
    <2>3. c \notin Autom!Writing BY <1>7, <2>2 DEF FileInv
    <2> QED BY <1>2, <2>1, <2>3
  <1>8. ASSUME NEW d \in Autom!Actors \ {c}, call[d].step # "none" PROVE Whole(call[d].copy, {d})'
    <2>1. PICK t \in Autom!Store : t = call[d].copy /\ Whole(t, {d}) BY <1>8, HandsFit
    <2>2. Whole(t, {d})' BY <1>1, <2>1, WholeStays
    <2> QED BY <1>2, <2>1, <2>2 DEF Whole, StoreFits
  <1>9. ASSUME NEW d \in Autom!Actors \ {c}, call[d].step = "save", ~ call[d].late
        PROVE  Autom!Writing' = {} /\ Autom!OneEdit(Autom!Read, call[d].copy)'
    <2>1. Autom!Writing = {} /\ Autom!OneEdit(Autom!Read, call[d].copy) /\ file' = file
      BY <1>7, <1>9 DEF FileInv
    <2>2. PICK t \in Autom!Store : t = call[d].copy BY <1>9, HandsFit
    <2>3. PICK u \in Autom!Store : u = Autom!Read BY ReadIs
    <2>4. Autom!OneEdit(u, t)' BY <1>1, <2>1, <2>2, <2>3, EditStays, ReadIsWhole DEF Whole
    <2>5. Autom!Read' = u /\ call'[d].copy = t BY <1>2, <1>9, <2>1, <2>2, <2>3 DEF Autom!Read
    <2>6. Autom!OneEdit(Autom!Read, call[d].copy)'
      <3>1. \A a : Autom!Settings(u, a)' = Autom!Settings(Autom!Read, a)'
        BY <2>5 DEF Autom!Settings
      <3>2. \A a : Autom!Without(u, a)' = Autom!Without(Autom!Read, a)'
        BY <2>5 DEF Autom!Without
      <3> QED BY <2>4, <2>5, <3>1, <3>2 DEF Autom!OneEdit
    <2> QED BY <1>3, <2>1, <2>6
  <1>10. ASSUME NEW d \in Autom!Actors \ {c}, call[d].step = "write", ~ call[d].late
         PROVE  file' = Torn /\ ~ call'[d].mixed /\ Autom!Writing' = {d}
    BY <1>2, <1>3, <1>7, <1>10 DEF FileInv
  <1>11. \A d \in Autom!Actors \ {c} : call[d].step # "write" => ~ call'[d].mixed
    BY <1>2 DEF FileInv
  <1>12. FileInv' BY <1>2, <1>6, <1>8, <1>9, <1>10, <1>11 DEF FileInv, Whole, StoreFits
  <1>13. EditedNow
    <2>1. CASE call[c].late
      <3>1. call'[c] # call[c] BY <1>2
      <3> QED BY <2>1, <3>1 DEF EditedNow
    <2>2. CASE ~ call[c].late /\ call[c].step = "save"
      <3>1. Autom!Writing = {} /\ Autom!Writing' = {} BY <1>3, <2>2 DEF FileInv
      <3>2. Autom!Content' = Autom!Content
        BY <1>2, <2>2, <3>1 DEF Autom!Content, Autom!Read
      <3> QED BY <3>2 DEF EditedNow
    <2>3. CASE ~ call[c].late /\ call[c].step = "write"
      <3>1. file = Torn /\ ~ call[c].mixed /\ Autom!Writing = {c} BY <2>3 DEF FileInv
      <3>2. Autom!Writing' = {} BY <1>3, <3>1
      <3>3. file' = Torn \/ file' = s BY <1>4, <2>3, <3>1, LeavesIs
      <3>4. CASE file' = s
        <4>1. s # Torn BY AutomNames
        <4>2. Autom!Content' = s BY <3>2, <3>4, <4>1 DEF Autom!Content, Autom!Read
        <4>3. Autom!Content = s
          <5> DEFINE w == CHOOSE d \in Autom!Writing : TRUE
          <5>1. w = c BY <3>1
          <5>2. Autom!Content = call[w].copy BY <3>1 DEF Autom!Content
          <5> QED BY <1>4, <5>1, <5>2
        <4> QED BY <4>2, <4>3 DEF EditedNow
      <3> QED BY <3>2, <3>3, <3>4 DEF EditedNow
    <2> QED BY <1>2, <2>1, <2>2, <2>3
  <1> QED BY <1>12, <1>13 DEF FileKept

LEMMA StopKeepsFile ==
    ASSUME AutomTypes, FileInv, Autom!Stop
    PROVE  FileKept
  <1>1. UNCHANGED file /\ \A c \in Autom!Actors : call'[c] = Autom!NoCall BY DEF Autom!Stop
  <1>2. \A c \in Autom!Actors : call'[c].step = "none" /\ ~ call'[c].mixed BY <1>1, EmptyIsStore
  <1>3. Autom!Writing' = {} BY <1>2 DEF Autom!Writing
  <1>4. RunsGoOn
    <2>1. run \in [Runs -> RunRec] BY DEF AutomTypes
    <2>2. \A r \in Runs : /\ [run[r] EXCEPT !.step = "dead"].auto = run[r].auto
                          /\ [run[r] EXCEPT !.step = "dead"].step = "dead"
      BY <2>1 DEF RunRec
    <2>3. \A r \in Runs : run'[r] = run[r] \/ run'[r] = [run[r] EXCEPT !.step = "dead"]
      BY DEF Autom!Stop
    <2> QED BY <2>2, <2>3 DEF RunsGoOn
  <1>5. file' # Torn => Whole(file, {})'
    <2> SUFFICES ASSUME file # Torn PROVE Whole(file, {})' BY <1>1
    <2>1. PICK t \in Autom!Store : t = file BY DEF AutomTypes
    <2>2. Whole(t, {})' BY <1>4, <2>1, WholeStays DEF FileInv
    <2> QED BY <1>1, <2>1, <2>2 DEF Whole, StoreFits
  <1>6. FileInv' BY <1>2, <1>5 DEF FileInv
  <1>7. EditedNow
    <2>1. CASE Autom!Writing = {} BY <1>1, <1>3, <2>1 DEF EditedNow, Autom!Content, Autom!Read
    <2>2. CASE Autom!Writing # {}
      <3>1. PICK w \in Autom!Actors : call[w].step = "write" BY <2>2 DEF Autom!Writing
      <3>2. call'[w] # call[w] BY <1>2, <3>1
      <3>3. ~ call[w].late => file = Torn BY <3>1 DEF FileInv
      <3> QED BY <1>1, <1>3, <3>2, <3>3 DEF EditedNow
    <2> QED BY <2>1, <2>2
  <1> QED BY <1>6, <1>7 DEF FileKept

LEMMA FileInit == Autom!Init => FileInv
  <1> SUFFICES ASSUME Autom!Init PROVE FileInv OBVIOUS
  <1>1. AutomInv BY AutomInit
  <1>2. \A c \in Autom!Actors : call[c].step = "none" /\ ~ call[c].mixed
    BY EmptyIsStore DEF Autom!Init
  <1>3. ~ clash /\ \A r \in Runs : run[r].step # "append" BY EmptyIsStore DEF Autom!Init
  <1>4. file # Torn => StoreFits(file) BY <1>1, <1>3 DEF AutomInv, QuietInv, FileFits
  <1> QED BY <1>2, <1>3, <1>4 DEF FileInv, Whole

LEMMA AutomStays ==
    ASSUME AutomInv, FileInv, [Autom!Next]_automVars
    PROVE  AutomInv' /\ FileInv' /\ EditedNow
  <1>0. AutomTypes BY DEF AutomInv
  <1>1. CASE UNCHANGED automVars
    <2>3. RunMoves BY <1>1 DEF automVars, RunMoves, AutomInv, AutomTypes
    <2>4. QuietStep BY <1>1, <2>3 DEF automVars, QuietStep, AutomInv, AutomTypes
    <2>5. KeepsExcuses BY <1>1 DEF automVars, KeepsExcuses, Excused, Autom!Live
    <2>6. Still BY <1>1 DEF automVars, Still, RunsGoOn
    <2> QED BY <1>0, <2>4, <2>5, <2>6, AfterQuietStep, StillKeeps DEF FileKept
  <1>2. CASE Autom!Next
    <2>1. AutomInv' BY <1>2, AutomNextKeeps
    <2>2. FileKept
      BY <1>0, <1>2, StepKinds, StillKeeps, CallsKeeps, WriteOvertakes, LeavesKeeps, StopKeepsFile
         DEF StepKind
    <2> QED BY <2>1, <2>2 DEF FileKept
  <1> QED BY <1>1, <1>2

(* However edits, runs, timers, failed saves, restarts and the healing of   *)
(* runs overlap: from a start of the process until two calls meet on the    *)
(* file, the timers are those of the enabled automations that have a time   *)
(* croner takes, and a record that says "running" is of a run that lives,   *)
(* could not save its record or waits to be healed; and whatever meets, the *)
(* file changes by one whole edit at a time, but for calls that another one *)
(* overtook and for a write that is cut off (automation/store.ts, runner.ts,*)
(* scheduler.ts).                                                           *)
THEOREM AutomationsAreKept == ServicesSpec => AutomationsKept
  <1>1. ServicesInit => AutomInv /\ FileInv BY AutomInit, FileInit DEF ServicesInit
  <1>2. [ServicesNext]_allVars => [Autom!Next]_automVars
    BY DEF ServicesNext, AutomStep, GradeStep, HelpStep, RoomStep, LinkStep, allVars
  <1>3. AutomInv /\ FileInv /\ [Autom!Next]_automVars => AutomInv' /\ FileInv' /\ EditedNow
    BY AutomStays
  <1>4. AutomInv => (active = "automations" => Autom!AutomationsSafe) BY AutomSafe
  <1>5. EditedNow =>
          [\/ Autom!OneEdit(Autom!Content, Autom!Content')
           \/ \E c \in Autom!Actors : call[c].late /\ call'[c] # call[c]
           \/ file' = Torn /\ Autom!Writing' = {}]_Autom!Content
    BY DEF EditedNow
  <1>6. ServicesSpec => [](AutomInv /\ FileInv) BY <1>1, <1>2, <1>3, PTL DEF ServicesSpec
  <1> QED BY <1>2, <1>3, <1>4, <1>5, <1>6, PTL
          DEF ServicesSpec, AutomationsKept, Autom!WholeEditsOnly
=============================================================================
