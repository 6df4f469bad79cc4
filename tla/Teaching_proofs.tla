-------------------------- MODULE Teaching_proofs ---------------------------
(***************************************************************************)
(* Proofs about what runs along the timetable (Teaching), for every set of *)
(* callers, lessons, jobs and bounds.                                      *)
(***************************************************************************)
EXTENDS Teaching, FiniteSetTheorems, SequenceTheorems, WellFoundedInduction, TLAPS
-----------------------------------------------------------------------------
(* The booking of lessons (SessionBooking).                                *)
LEMMA BookFinite == \A S : Booking!IsFiniteSet(S) <=> IsFiniteSet(S)
  BY DEF Booking!IsFiniteSet, IsFiniteSet

LEMMA BookCardinality == \A S : Booking!Cardinality(S) = Cardinality(S)
  BY DEF Booking!Cardinality, Cardinality

LEMMA BookConstants ==
    /\ Lessons \subseteq Nat /\ IsFiniteSet(Lessons) /\ LessonPage \in Nat
    /\ \A s \in Slots : s.span \in (0..1439) \X (0..1439)
    /\ MaxEdits \in Nat /\ MaxMoves \in Nat
  BY BookingAssumption, BookFinite DEF Booking!BookingAssumption

LEMMA LessonStatuses ==
    /\ Booking!Statuses = {"pending", "confirmed", "done", "cancelled", "moved"}
    /\ \A st \in Booking!Statuses :
         /\ "confirmed" \in Booking!SESSION_TRANSITIONS[st] => st = "pending"
         /\ st \in {"done", "cancelled"} => Booking!SESSION_TRANSITIONS[st] = {}
  <1>1. Booking!Statuses = {"pending", "confirmed", "done", "cancelled", "moved"}
    BY DEF Booking!Statuses, Booking!SESSION_TRANSITIONS
  <1>2. ASSUME NEW st \in Booking!Statuses
        PROVE  /\ "confirmed" \in Booking!SESSION_TRANSITIONS[st] => st = "pending"
               /\ st \in {"done", "cancelled"} => Booking!SESSION_TRANSITIONS[st] = {}
    BY <1>1, <1>2 DEF Booking!SESSION_TRANSITIONS
  <1> QED BY <1>1, <1>2

LessonRec  == [status : Booking!Statuses, slot : Slots]
LessonType == {Booking!NoLesson} \cup LessonRec
MoveRec    == [at : {"search", "write"}, id : Lessons, to : Booking!Statuses, draft : Slots,
               late : BOOLEAN, blind : BOOLEAN, stale : BOOLEAN]
MoveType   == {Booking!Idle} \cup MoveRec

BookTypes ==
    /\ lesson \in [Lessons -> LessonType]
    /\ move \in [Callers -> MoveType]
    /\ unsure \subseteq Lessons
    /\ edits \in 0..MaxEdits /\ moves \in 0..MaxMoves

(* What a call has read still holds, unless its history says otherwise.     *)
FreshReads ==
    \A c \in Callers : move[c] # Booking!Idle =>
        /\ ~ move[c].stale => /\ move[c].id \in Booking!Present
                              /\ move[c].to \in Booking!SESSION_TRANSITIONS[lesson[move[c].id].status]
        /\ ~ move[c].late  => move[c].draft = lesson[move[c].id].slot

(* A lesson is sure when it was confirmed with a full view of the others,   *)
(* or a call that had one is about to confirm it.                          *)
Clean(c) == /\ move[c].at = "write" /\ move[c].to = "confirmed"
            /\ ~ move[c].late /\ ~ move[c].blind /\ ~ move[c].stale
Sure(l)  == \/ lesson[l].status = "confirmed" /\ l \notin unsure
            \/ \E c \in Callers : Clean(c) /\ move[c].id = l
SureApart ==
    \A k, l \in Booking!Present : k # l /\ Sure(k) /\ Sure(l) => ~ Booking!Clash(k, l)

BookInv == BookTypes /\ FreshReads /\ SureApart

(* preflightSessionConflicts misses no pair of spans that share a minute.   *)
MinutesOfDay == 0..1439
LEMMA SharedMinuteOverlaps ==
    ASSUME NEW s, NEW e, s[1] \in MinutesOfDay, s[2] \in MinutesOfDay,
           e[1] \in MinutesOfDay, e[2] \in MinutesOfDay,
           Booking!Minutes(s) \cap Booking!Minutes(e) # {}
    PROVE  Booking!Overlap(s, e)
  <1>1. ASSUME Booking!Valid(s), Booking!Valid(e) PROVE s[1] < e[2] /\ e[1] < s[2]
    <2>1. PICK t : t \in s[1]..(s[2] - 1) /\ t \in e[1]..(e[2] - 1)
      BY <1>1 DEF Booking!Minutes
    <2> DEFINE a == s[1]  b == s[2]  x == e[1]  y == e[2]
    <2>2. a \in MinutesOfDay /\ b \in MinutesOfDay /\ x \in MinutesOfDay /\ y \in MinutesOfDay
      OBVIOUS
    <2>3. t \in a..(b - 1) /\ t \in x..(y - 1) BY <2>1
    <2> HIDE DEF a, b, x, y
    <2>4. a < y /\ x < b BY <2>2, <2>3 DEF MinutesOfDay
    <2> QED BY <2>4 DEF a, b, x, y
  <1> QED BY <1>1 DEF Booking!Overlap

LEMMA SpanEnds == \A z \in Slots : z.span[1] \in MinutesOfDay /\ z.span[2] \in MinutesOfDay
  <1>1. \A p \in MinutesOfDay \X MinutesOfDay : p[1] \in MinutesOfDay /\ p[2] \in MinutesOfDay
    OBVIOUS
  <1>2. \A z \in Slots : z.span \in MinutesOfDay \X MinutesOfDay
    BY BookConstants DEF MinutesOfDay
  <1> QED BY <1>1, <1>2, Zenon

(* The first page of no more lessons than it holds is all of them.          *)
LEMMA PageIsAll ==
    ASSUME NEW ls \in SUBSET Lessons, Cardinality(ls) <= LessonPage
    PROVE  Booking!FirstPage(ls) = ls
  <1>1. IsFiniteSet(ls)
    <2>1. IsFiniteSet(Lessons) BY BookConstants
    <2>2. ls \in SUBSET Lessons OBVIOUS
    <2> QED BY <2>1, <2>2, FS_Subset
  <1>2. ASSUME NEW l \in ls PROVE Cardinality({k \in ls : k > l}) < LessonPage
    <2> DEFINE later == {k \in ls : k > l}
    <2>1. later \subseteq ls /\ later # ls BY BookConstants
    <2>2. IsFiniteSet(later) /\ Cardinality(later) <= Cardinality(ls)
          /\ Cardinality(later) # Cardinality(ls)
      BY <1>1, <2>1, FS_Subset
    <2>3. Cardinality(ls) \in Nat /\ Cardinality(later) \in Nat
      BY <1>1, <2>2, FS_CardinalityType
    <2> HIDE DEF later
    <2>4. Cardinality(later) < LessonPage BY <2>2, <2>3, BookConstants
    <2> QED BY <2>4 DEF later
  <1> QED BY <1>2, BookCardinality DEF Booking!FirstPage

LEMMA BookInit == Booking!Init => BookInv
  <1> SUFFICES ASSUME Booking!Init PROVE BookInv OBVIOUS
  <1>1. BookTypes
    BY BookConstants, LessonStatuses
       DEF Booking!Init, BookTypes, LessonType, LessonRec, MoveType
  <1>2. FreshReads BY DEF Booking!Init, FreshReads
  <1>3. SureApart
    <2>1. \A c \in Callers : ~ Clean(c) BY DEF Booking!Init, Clean, Booking!Idle
    <2>2. \A l \in Booking!Present : lesson[l].status = "pending"
      BY DEF Booking!Init, Booking!Present
    <2> QED BY <2>1, <2>2 DEF SureApart, Sure
  <1> QED BY <1>1, <1>2, <1>3 DEF BookInv

(* The records of the rows and of the calls, and what a step makes of them. *)
LEMMA LessonFields ==
    /\ \A r \in LessonRec : /\ r.status \in Booking!Statuses /\ r.slot \in Slots
                            /\ r # Booking!NoLesson
    /\ \A r \in LessonRec, st \in Booking!Statuses :
         /\ [r EXCEPT !.status = st] \in LessonRec
         /\ [r EXCEPT !.status = st].status = st
         /\ [r EXCEPT !.status = st].slot = r.slot
    /\ \A st \in Booking!Statuses, s \in Slots : [status |-> st, slot |-> s] \in LessonRec
  BY LessonStatuses DEF LessonRec, Booking!NoLesson

LEMMA MoveFields ==
    /\ \A m \in MoveRec : /\ m.at \in {"search", "write"} /\ m.id \in Lessons
                          /\ m.to \in Booking!Statuses /\ m.draft \in Slots
                          /\ m.late \in BOOLEAN /\ m.blind \in BOOLEAN /\ m.stale \in BOOLEAN
                          /\ m # Booking!Idle
    /\ \A m \in MoveRec : /\ [m EXCEPT !.stale = TRUE] \in MoveRec
                          /\ [m EXCEPT !.stale = TRUE].stale
                          /\ [m EXCEPT !.stale = TRUE].id = m.id
                          /\ [m EXCEPT !.stale = TRUE].late = m.late
                          /\ [m EXCEPT !.stale = TRUE].draft = m.draft
  <1>1. \A m \in MoveRec : m # Booking!Idle BY DEF MoveRec, Booking!Idle
  <1> QED BY <1>1 DEF MoveRec

(* A step that makes no lesson sure and moves none keeps the sure apart.    *)
LEMMA NoneMoreSure ==
    ASSUME SureApart,
           \A l \in Booking!Present' : Sure(l)' => /\ l \in Booking!Present /\ Sure(l)
                                                   /\ lesson'[l].slot = lesson[l].slot
    PROVE  SureApart'
  BY DEF SureApart, Booking!Clash

LEMMA SureIsPlanned ==
    ASSUME BookTypes, FreshReads, NEW l \in Booking!Present, Sure(l)
    PROVE  l \in Booking!NotCancelled
  <1>1. CASE lesson[l].status = "confirmed"
    BY <1>1 DEF Booking!NotCancelled
  <1>2. ASSUME NEW c \in Callers, Clean(c), move[c].id = l
        PROVE  l \in Booking!NotCancelled
    <2>1. move[c] # Booking!Idle BY <1>2 DEF Clean, Booking!Idle
    <2>2. "confirmed" \in Booking!SESSION_TRANSITIONS[lesson[l].status]
      BY <1>2, <2>1 DEF FreshReads, Clean
    <2>3. lesson[l] \in LessonRec
      BY DEF BookTypes, LessonType, Booking!Present
    <2>4. lesson[l].status = "pending" BY <2>2, <2>3, LessonStatuses, LessonFields
    <2> QED BY <2>4 DEF Booking!NotCancelled
  <1> QED BY <1>1, <1>2 DEF Sure

LEMMA ReadKeeps ==
    ASSUME BookInv, NEW c \in Callers, NEW l \in Lessons, NEW to \in Booking!Statuses,
           Booking!Read(c, l, to)
    PROVE  BookInv'
  <1> DEFINE m == [at |-> IF to = "confirmed" THEN "search" ELSE "write",
                   id |-> l, to |-> to, draft |-> lesson[l].slot,
                   late |-> FALSE, blind |-> FALSE, stale |-> FALSE]
  <1>1. /\ l \in Booking!Present /\ moves < MaxMoves /\ moves' = moves + 1
        /\ UNCHANGED <<lesson, unsure, edits>>
        /\ \/ /\ to \in Booking!SESSION_TRANSITIONS[lesson[l].status]
              /\ move' = [move EXCEPT ![c] = m]
           \/ UNCHANGED move
    BY DEF Booking!Read
  <1>2. lesson[l] \in LessonRec BY <1>1 DEF BookInv, BookTypes, LessonType, Booking!Present
  <1>3. m \in MoveRec BY <1>2, LessonFields DEF MoveRec
  <1>4. m.id = l /\ m.to = to /\ m.draft = lesson[l].slot /\ ~ m.stale
        /\ ~ (m.at = "write" /\ m.to = "confirmed")
    OBVIOUS
  <1> HIDE DEF m
  <1>5. BookTypes' BY <1>1, <1>3, BookConstants DEF BookInv, BookTypes, MoveType
  <1>6. FreshReads'
    BY <1>1, <1>4 DEF BookInv, BookTypes, FreshReads, Booking!Present
  <1>7. SureApart'
    <2>1. \A d \in Callers : Clean(d)' => Clean(d) /\ move'[d] = move[d]
      BY <1>1, <1>4 DEF Clean, BookInv, BookTypes
    <2> QED BY <1>1, <2>1, NoneMoreSure DEF BookInv, Sure, Booking!Present
  <1> QED BY <1>5, <1>6, <1>7 DEF BookInv

LEMMA SearchKeeps ==
    ASSUME BookInv, NEW c \in Callers, Booking!Search(c)
    PROVE  BookInv'
  <1> DEFINE blind == Booking!Cardinality(Booking!NotCancelled) > LessonPage
             m == move[c]
             n == [m EXCEPT !.at = "write", !.blind = blind]
  <1>1. /\ m.at = "search" /\ UNCHANGED <<lesson, unsure, edits, moves>>
        /\ \/ /\ Booking!Hard(m.draft, m.id, Booking!Searched) = {}
              /\ move' = [move EXCEPT ![c] = n]
           \/ move' = [move EXCEPT ![c] = Booking!Idle]
    BY DEF Booking!Search
  <1>2. m \in MoveRec BY <1>1 DEF BookInv, BookTypes, MoveType, Booking!Idle
  <1>3. blind \in BOOLEAN OBVIOUS
  <1>4. /\ n \in MoveRec /\ n.blind = blind /\ n.stale = m.stale /\ n.late = m.late
        /\ n.id = m.id /\ n.to = m.to /\ n.draft = m.draft
    <2> HIDE DEF blind, m
    <2> QED BY <1>2, <1>3 DEF MoveRec
  <1>5. ASSUME ~ blind PROVE Booking!Searched = Booking!NotCancelled
    <2>1. Booking!NotCancelled \in SUBSET Lessons
      BY DEF Booking!NotCancelled, Booking!Present
    <2>2. IsFiniteSet(Booking!NotCancelled) BY <2>1, BookConstants, FS_Subset
    <2>3. Cardinality(Booking!NotCancelled) \in Nat BY <2>2, FS_CardinalityType
    <2>4. Cardinality(Booking!NotCancelled) <= LessonPage
      BY <1>5, <2>3, BookConstants, BookCardinality
    <2> QED BY <2>1, <2>4, PageIsAll DEF Booking!Searched
  <1>6. m = move[c] OBVIOUS
  <1>7. m # Booking!Idle BY <1>2, MoveFields
  <1> HIDE DEF blind, m, n
  <1>8. BookTypes' BY <1>1, <1>4 DEF BookInv, BookTypes, MoveType
  <1>9. FreshReads'
    BY <1>1, <1>4, <1>6, <1>7 DEF BookInv, BookTypes, FreshReads, Booking!Present
  <1>10. CASE move' = [move EXCEPT ![c] = Booking!Idle]
    <2>1. \A d \in Callers : Clean(d)' => Clean(d) /\ move'[d] = move[d]
      BY <1>10 DEF Clean, BookInv, BookTypes, Booking!Idle
    <2>2. SureApart'
      BY <1>1, <2>1, NoneMoreSure DEF BookInv, Sure, Booking!Present
    <2> QED BY <1>8, <1>9, <2>2 DEF BookInv
  <1>11. CASE /\ Booking!Hard(m.draft, m.id, Booking!Searched) = {}
              /\ move' = [move EXCEPT ![c] = n]
    <2>1. \A d \in Callers \ {c} : Clean(d)' => Clean(d) /\ move'[d] = move[d]
      BY <1>11 DEF Clean, BookInv, BookTypes
    <2>2. Clean(c)' => ~ blind /\ ~ m.late /\ move'[c].id = m.id
      BY <1>11, <1>4 DEF Clean, BookInv, BookTypes
    <2>3. ASSUME NEW l \in Booking!Present, Sure(l)', ~ Sure(l)
          PROVE  Clean(c)' /\ l = m.id
      BY <1>1, <2>1, <2>2, <2>3 DEF Sure
    <2>4. ASSUME Clean(c)', m.id \in Booking!Present, NEW k \in Booking!Present, k # m.id, Sure(k)
          PROVE  ~ Booking!Clash(k, m.id) /\ ~ Booking!Clash(m.id, k)
      <3>1. k \in Booking!Searched /\ m.draft = lesson[m.id].slot
        BY <1>5, <1>6, <1>7, <2>2, <2>4, SureIsPlanned DEF BookInv, FreshReads
      <3>2. lesson[m.id].slot \in Slots /\ lesson[k].slot \in Slots
        BY <2>4, LessonFields DEF BookInv, BookTypes, LessonType, Booking!Present
      <3>3. \/ lesson[m.id].slot.date = Booking!NoDate
            \/ lesson[k].slot.date # lesson[m.id].slot.date
            \/ lesson[k].slot.uses \cap lesson[m.id].slot.uses = {}
            \/ ~ Booking!Overlap(lesson[m.id].slot.span, lesson[k].slot.span)
        BY <1>11, <2>4, <3>1 DEF Booking!Hard
      <3>4. Booking!Overlap(lesson[m.id].slot.span, lesson[k].slot.span)
              \/ Booking!Minutes(lesson[m.id].slot.span) \cap Booking!Minutes(lesson[k].slot.span) = {}
        <4> DEFINE s == lesson[m.id].slot.span
                   e == lesson[k].slot.span
        <4>1. /\ s[1] \in MinutesOfDay /\ s[2] \in MinutesOfDay
              /\ e[1] \in MinutesOfDay /\ e[2] \in MinutesOfDay
          BY <3>2, SpanEnds, Zenon
        <4> HIDE DEF s, e
        <4>2. ASSUME Booking!Minutes(s) \cap Booking!Minutes(e) # {} PROVE Booking!Overlap(s, e)
          BY <4>1, <4>2, SharedMinuteOverlaps
        <4> QED BY <4>2 DEF s, e
      <3> DEFINE x == lesson[k].slot
                 y == lesson[m.id].slot
      <3>5. ~ (/\ x.date = y.date /\ x.date # Booking!NoDate /\ x.uses \cap y.uses # {}
               /\ Booking!Minutes(x.span) \cap Booking!Minutes(y.span) # {})
        BY <3>3, <3>4
      <3>6. Booking!Minutes(x.span) \cap Booking!Minutes(y.span)
              = Booking!Minutes(y.span) \cap Booking!Minutes(x.span)
            /\ x.uses \cap y.uses = y.uses \cap x.uses
        OBVIOUS
      <3>7. /\ Booking!Clash(k, m.id) <=>
                 (/\ x.date = y.date /\ x.date # Booking!NoDate /\ x.uses \cap y.uses # {}
                  /\ Booking!Minutes(x.span) \cap Booking!Minutes(y.span) # {})
            /\ Booking!Clash(m.id, k) <=>
                 (/\ y.date = x.date /\ y.date # Booking!NoDate /\ y.uses \cap x.uses # {}
                  /\ Booking!Minutes(y.span) \cap Booking!Minutes(x.span) # {})
        BY DEF Booking!Clash
      <3> HIDE DEF x, y
      <3> QED BY <3>5, <3>6, <3>7
    <2>5. SureApart'
      <3> SUFFICES ASSUME NEW k \in Booking!Present, NEW l \in Booking!Present, k # l,
                          Sure(k)', Sure(l)'
                   PROVE  ~ Booking!Clash(k, l)
        BY <1>1 DEF SureApart, Booking!Present, Booking!Clash
      <3>1. CASE Sure(k) /\ Sure(l) BY <3>1 DEF BookInv, SureApart
      <3>2. CASE ~ Sure(k) /\ Sure(l) BY <2>3, <2>4, <3>2
      <3>3. CASE Sure(k) /\ ~ Sure(l) BY <2>3, <2>4, <3>3
      <3>4. CASE ~ Sure(k) /\ ~ Sure(l) BY <2>3, <3>4
      <3> QED BY <3>1, <3>2, <3>3, <3>4
    <2> QED BY <1>8, <1>9, <2>5 DEF BookInv
  <1> QED BY <1>1, <1>10, <1>11

LEMMA WriteKeeps ==
    ASSUME BookInv, NEW c \in Callers, Booking!Write(c)
    PROVE  BookInv'
  <1> DEFINE m == move[c]
             written == [lesson[m.id] EXCEPT !.status = m.to]
  <1>1. /\ m.at = "write" /\ UNCHANGED <<edits, moves>>
        /\ lesson' = IF lesson[m.id] # Booking!NoLesson THEN [lesson EXCEPT ![m.id] = written] ELSE lesson
        /\ move' = [d \in Callers |->
                      IF d = c THEN Booking!Idle
                      ELSE IF move[d] # Booking!Idle /\ move[d].id = m.id
                      THEN [move[d] EXCEPT !.stale = TRUE] ELSE move[d]]
        /\ unsure' = IF m.to = "confirmed" /\ (m.late \/ m.blind \/ m.stale)
                     THEN unsure \cup {m.id}
                     ELSE IF m.to = "confirmed" THEN unsure \ {m.id} ELSE unsure
    BY DEF Booking!Write
  <1>2. m \in MoveRec BY <1>1 DEF BookInv, BookTypes, MoveType, Booking!Idle
  <1>3. m.id \in Lessons /\ m.to \in Booking!Statuses BY <1>2, MoveFields
  <1>4. lesson[m.id] # Booking!NoLesson =>
          lesson[m.id] \in LessonRec /\ written \in LessonRec
          /\ written.status = m.to /\ written.slot = lesson[m.id].slot
    BY <1>3, LessonFields DEF BookInv, BookTypes, LessonType
  <1>5. \A d \in Callers \ {c} :
          \/ move'[d] = move[d] /\ (move[d] = Booking!Idle \/ move[d].id # m.id)
          \/ /\ move[d] \in MoveRec /\ move'[d] \in MoveRec /\ move'[d].stale
             /\ move'[d].id = move[d].id /\ move'[d].late = move[d].late
             /\ move'[d].draft = move[d].draft
    BY <1>1, MoveFields DEF BookInv, BookTypes, MoveType
  <1>6. move'[c] = Booking!Idle /\ DOMAIN move' = Callers BY <1>1
  <1>7. m = move[c] OBVIOUS
  <1> HIDE DEF written, m
  <1>8. BookTypes'
    <2>1. lesson' \in [Lessons -> LessonType]
      BY <1>1, <1>3, <1>4 DEF BookInv, BookTypes, LessonType
    <2>2. move' \in [Callers -> MoveType]
      BY <1>1, MoveFields DEF BookInv, BookTypes, MoveType
    <2> QED BY <1>1, <1>3, <2>1, <2>2 DEF BookInv, BookTypes
  <1>9. \A l \in Lessons : /\ (l \in Booking!Present) = (l \in Booking!Present')
                           /\ l \in Booking!Present => lesson'[l].slot = lesson[l].slot
                           /\ l # m.id => lesson'[l] = lesson[l]
    BY <1>1, <1>3, <1>4, LessonFields DEF BookInv, BookTypes, Booking!Present
  <1>10. FreshReads'
    <2> SUFFICES ASSUME NEW d \in Callers, move'[d] # Booking!Idle
                 PROVE  /\ ~ move'[d].stale =>
                             /\ move'[d].id \in Booking!Present'
                             /\ move'[d].to \in Booking!SESSION_TRANSITIONS[lesson'[move'[d].id].status]
                        /\ ~ move'[d].late => move'[d].draft = lesson'[move'[d].id].slot
      BY DEF FreshReads
    <2>1. d # c BY <1>6
    <2>2. move[d] # Booking!Idle BY <1>5, <2>1, MoveFields
    <2>3. move[d] \in MoveRec /\ move[d].id \in Lessons
      BY <2>2, MoveFields DEF BookInv, BookTypes, MoveType
    <2>4. ~ move[d].late => move[d].draft = lesson[move[d].id].slot
      BY <2>2 DEF BookInv, FreshReads
    <2>5. lesson'[move[d].id].slot = lesson[move[d].id].slot
      BY <1>9, <1>1, <2>3 DEF Booking!Present
    <2>6. ~ move[d].stale => /\ move[d].id \in Booking!Present
                             /\ move[d].to \in Booking!SESSION_TRANSITIONS[lesson[move[d].id].status]
      BY <2>2 DEF BookInv, FreshReads
    <2>7. CASE move'[d] = move[d] /\ move[d].id # m.id
      BY <1>9, <2>3, <2>4, <2>5, <2>6, <2>7
    <2>8. CASE /\ move'[d].stale /\ move'[d].id = move[d].id /\ move'[d].late = move[d].late
               /\ move'[d].draft = move[d].draft
      BY <2>4, <2>5, <2>8
    <2> QED BY <1>5, <2>1, <2>2, <2>7, <2>8
  <1>11. SureApart'
    <2>1. ASSUME NEW d \in Callers, Clean(d)'
          PROVE  Clean(d) /\ move'[d] = move[d] /\ d # c
      BY <1>5, <1>6, <2>1 DEF Clean, Booking!Idle
    <2>2. ASSUME NEW l \in Booking!Present', Sure(l)'
          PROVE  Sure(l)
      <3>1. l \in Lessons /\ l \in Booking!Present /\ lesson'[l].slot = lesson[l].slot
        BY <1>9 DEF Booking!Present
      <3>2. ASSUME NEW d \in Callers, Clean(d)', move'[d].id = l
            PROVE  Sure(l)
        BY <2>1, <3>2 DEF Sure
      <3>3. CASE lesson'[l].status = "confirmed" /\ l \notin unsure' /\ l # m.id
        BY <1>1, <1>9, <3>1, <3>3 DEF Sure
      <3>4. CASE lesson'[l].status = "confirmed" /\ l \notin unsure' /\ l = m.id
        <4>1. m.to = "confirmed"
          BY <1>1, <1>3, <1>4, <3>1, <3>4 DEF Booking!Present, BookInv, BookTypes
        <4>2. ~ m.late /\ ~ m.blind /\ ~ m.stale BY <1>1, <3>4, <4>1
        <4>3. Clean(c) BY <1>1, <1>7, <4>1, <4>2 DEF Clean
        <4>4. Sure(l) BY <1>7, <3>4, <4>3 DEF Sure
        <4> QED BY <4>4
      <3> QED BY <2>2, <3>1, <3>2, <3>3, <3>4 DEF Sure
    <2> QED BY <1>9, <2>2, NoneMoreSure DEF BookInv, Booking!Present
  <1> QED BY <1>8, <1>10, <1>11 DEF BookInv

(* The form leaves every call late, and its lesson unsure.                  *)
LEMMA EditKeeps ==
    ASSUME BookInv, NEW l \in Lessons, Booking!Edited({l}), NEW r \in LessonType,
           lesson' = [lesson EXCEPT ![l] = r]
    PROVE  BookInv'
  <1>1. /\ edits < MaxEdits /\ edits' = edits + 1 /\ UNCHANGED moves
        /\ unsure' = unsure \cup {l}
        /\ move' = [c \in Callers |-> IF move[c] = Booking!Idle THEN Booking!Idle
                      ELSE [move[c] EXCEPT !.late = TRUE, !.stale = @ \/ move[c].id \in {l}]]
    BY DEF Booking!Edited
  <1>2. \A c \in Callers :
          \/ move[c] = Booking!Idle /\ move'[c] = Booking!Idle
          \/ /\ move[c] \in MoveRec /\ move'[c] \in MoveRec /\ move[c] # Booking!Idle
             /\ move'[c].late /\ move'[c].id = move[c].id /\ move'[c].to = move[c].to
             /\ ~ move'[c].stale => ~ move[c].stale /\ move[c].id # l
    <2> SUFFICES ASSUME NEW c \in Callers, move[c] # Booking!Idle
                 PROVE  /\ move[c] \in MoveRec /\ move'[c] \in MoveRec
                        /\ move'[c].late /\ move'[c].id = move[c].id /\ move'[c].to = move[c].to
                        /\ ~ move'[c].stale => ~ move[c].stale /\ move[c].id # l
      BY <1>1
    <2> DEFINE n == move[c]
               b == move[c].id \in {l}
    <2>1. n \in MoveRec BY DEF BookInv, BookTypes, MoveType
    <2>2. move'[c] = [n EXCEPT !.late = TRUE, !.stale = @ \/ b] BY <1>1
    <2>3. b \in BOOLEAN OBVIOUS
    <2>4. b <=> n.id = l OBVIOUS
    <2> HIDE DEF n, b
    <2>5. LET o == [n EXCEPT !.late = TRUE, !.stale = @ \/ b] IN
            /\ o \in MoveRec /\ o.late /\ (~ o.stale => ~ n.stale /\ ~ b)
            /\ o.id = n.id /\ o.to = n.to
      BY <2>1, <2>3 DEF MoveRec
    <2> QED BY <2>1, <2>2, <2>4, <2>5 DEF n
  <1>3. BookTypes'
    <2>1. move' \in [Callers -> MoveType] BY <1>1, <1>2 DEF MoveType
    <2>2. lesson' \in [Lessons -> LessonType] BY DEF BookInv, BookTypes
    <2>3. edits' \in 0..MaxEdits
      <3>1. edits \in 0..MaxEdits BY DEF BookInv, BookTypes
      <3>2. MaxEdits \in Nat BY BookConstants
      <3>3. edits < MaxEdits /\ edits' = edits + 1 BY <1>1
      <3> QED BY <3>1, <3>2, <3>3
    <2> QED BY <1>1, <2>1, <2>2, <2>3 DEF BookInv, BookTypes
  <1>4. \A k \in Lessons \ {l} : /\ lesson'[k] = lesson[k]
                                 /\ (k \in Booking!Present) <=> (k \in Booking!Present')
    BY DEF BookInv, BookTypes, Booking!Present
  <1>5. FreshReads'
    <2> SUFFICES ASSUME NEW c \in Callers, move'[c] # Booking!Idle, ~ move'[c].stale
                 PROVE  /\ move'[c].id \in Booking!Present'
                        /\ move'[c].to \in Booking!SESSION_TRANSITIONS[lesson'[move'[c].id].status]
      BY <1>2 DEF FreshReads
    <2>1. /\ move[c] \in MoveRec /\ move[c] # Booking!Idle /\ ~ move[c].stale
          /\ move'[c].id = move[c].id /\ move'[c].to = move[c].to /\ move[c].id # l
      BY <1>2
    <2>2. move[c].id \in Lessons \ {l} BY <2>1, MoveFields
    <2>3. /\ move[c].id \in Booking!Present
          /\ move[c].to \in Booking!SESSION_TRANSITIONS[lesson[move[c].id].status]
      BY <2>1 DEF FreshReads, BookInv
    <2> QED BY <1>4, <2>1, <2>2, <2>3
  <1>6. SureApart'
    <2>1. \A c \in Callers : ~ Clean(c)'
      BY <1>2 DEF Clean, Booking!Idle
    <2> QED BY <1>1, <1>4, <2>1, NoneMoreSure DEF Sure, Booking!Present, BookInv
  <1> QED BY <1>3, <1>5, <1>6 DEF BookInv

LEMMA BookNextKeeps == ASSUME BookInv, Booking!Next PROVE BookInv'
  <1>1. Booking!NoLesson \in LessonType BY DEF LessonType
  <1>2. \A st \in Booking!Statuses, s \in Slots : [status |-> st, slot |-> s] \in LessonType
    BY LessonFields DEF LessonType
  <1>3. CASE Booking!Create
    BY <1>2, <1>3, EditKeeps DEF Booking!Create
  <1>4. ASSUME NEW l \in Lessons, Booking!Update(l) PROVE BookInv'
    BY <1>2, <1>4, EditKeeps DEF Booking!Update
  <1>5. ASSUME NEW l \in Lessons, Booking!Archive(l) PROVE BookInv'
    BY <1>1, <1>5, EditKeeps DEF Booking!Archive
  <1> QED BY <1>3, <1>4, <1>5, ReadKeeps, SearchKeeps, WriteKeeps DEF Booking!Next

EndsByForm ==
    \A l \in Booking!Present :
       (lesson[l].status \in {"done", "cancelled"} /\ lesson'[l] # Booking!NoLesson
          /\ lesson'[l].status # lesson[l].status) =>
         \/ edits' # edits
         \/ \E c \in Callers : move[c].at = "write" /\ move[c].id = l /\ move[c].stale

LEMMA EndedKept == ASSUME BookInv, Booking!Next PROVE EndsByForm
  <1>1. CASE UNCHANGED lesson BY <1>1 DEF EndsByForm, Booking!Present
  <1>2. ASSUME NEW ls, Booking!Edited(ls) PROVE EndsByForm
    <2>1. edits' = edits + 1 BY <1>2 DEF Booking!Edited
    <2>2. edits \in Nat BY BookConstants DEF BookInv, BookTypes
    <2> QED BY <2>1, <2>2 DEF EndsByForm
  <1>3. ASSUME NEW c \in Callers, Booking!Write(c) PROVE EndsByForm
    <2> SUFFICES ASSUME NEW l \in Booking!Present, lesson[l].status \in {"done", "cancelled"},
                        lesson'[l].status # lesson[l].status
                 PROVE  move[c].at = "write" /\ move[c].id = l /\ move[c].stale
      BY DEF EndsByForm
    <2>1. move[c].at = "write" /\ move[c].id = l
      BY <1>3 DEF Booking!Write, BookInv, BookTypes, Booking!Present
    <2>2. move[c] # Booking!Idle BY <2>1 DEF Booking!Idle
    <2>3. move[c] \in MoveRec BY <2>2 DEF BookInv, BookTypes, MoveType
    <2>4. lesson[l].status \in Booking!Statuses
      BY LessonFields DEF BookInv, BookTypes, LessonType, Booking!Present
    <2>5. Booking!SESSION_TRANSITIONS[lesson[l].status] = {} BY <2>4, LessonStatuses
    <2>6. ~ move[c].stale => FALSE BY <2>1, <2>2, <2>5 DEF BookInv, FreshReads
    <2> QED BY <2>1, <2>3, <2>6, MoveFields
  <1>4. CASE Booking!Create BY <1>2, <1>4 DEF Booking!Create
  <1>5. ASSUME NEW l \in Lessons, Booking!Update(l) \/ Booking!Archive(l) PROVE EndsByForm
    BY <1>2, <1>5 DEF Booking!Update, Booking!Archive
  <1> QED BY <1>1, <1>3, <1>4, <1>5 DEF Booking!Next, Booking!Read, Booking!Search

LEMMA BookStays == ASSUME BookInv, [Booking!Next]_bookVars PROVE BookInv'
  <1>1. CASE UNCHANGED bookVars
    <2>1. BookTypes' <=> BookTypes BY <1>1 DEF bookVars, BookTypes
    <2>2. FreshReads' <=> FreshReads BY <1>1 DEF bookVars, FreshReads, Booking!Present
    <2>3. SureApart' <=> SureApart
      BY <1>1 DEF bookVars, SureApart, Sure, Clean, Booking!Present, Booking!Clash
    <2> QED BY <2>1, <2>2, <2>3 DEF BookInv
  <1> QED BY <1>1, BookNextKeeps

LEMMA BookSafe == BookInv => Booking!TypeInv /\ Booking!NoDoubleBooking
  <1> SUFFICES ASSUME BookInv PROVE Booking!TypeInv /\ Booking!NoDoubleBooking OBVIOUS
  <1>1. Booking!TypeInv
    <2>1. \A l \in Booking!Present : lesson[l].status \in Booking!Statuses /\ lesson[l].slot \in Slots
      BY LessonFields DEF BookInv, BookTypes, LessonType, Booking!Present
    <2>2. \A c \in Callers : move[c].at \in {"idle", "search", "write"}
      BY MoveFields DEF BookInv, BookTypes, MoveType, Booking!Idle
    <2> QED BY <2>1, <2>2 DEF BookInv, BookTypes, Booking!TypeInv
  <1>2. Booking!NoDoubleBooking
    BY DEF BookInv, SureApart, Sure, Booking!NoDoubleBooking, Booking!Present
  <1> QED BY <1>1, <1>2

(* However confirmations, cancellations and edits of lessons overlap, two   *)
(* confirmed lessons clash only if the form wrote one of them, or one was   *)
(* confirmed without a full and fresh view of the others; and what is over  *)
(* or cancelled stays so (schedule/session.service.ts, transition).         *)
THEOREM BookingsAreKept == TeachingSpec => BookingsKept
  <1>1. TeachingInit => BookInv BY BookInit DEF TeachingInit
  <1>2. [TeachingNext]_allVars => [Booking!Next]_bookVars
    BY DEF TeachingNext, TaskStep, BookStep, FlowStep, BillStep, SignStep, allVars
  <1>3. BookInv /\ [Booking!Next]_bookVars => BookInv' BY BookStays
  <1>4. BookInv => (active = "booking" => Booking!TypeInv /\ Booking!NoDoubleBooking) BY BookSafe
  <1>5. BookInv /\ [Booking!Next]_bookVars =>
          [\A l \in Booking!Present :
             (lesson[l].status \in {"done", "cancelled"} /\ lesson'[l] # Booking!NoLesson
                /\ lesson'[l].status # lesson[l].status) =>
               \/ edits' # edits
               \/ \E c \in Callers : move[c].at = "write" /\ move[c].id = l /\ move[c].stale]_bookVars
    BY EndedKept DEF EndsByForm
  <1>6. TeachingSpec => []BookInv BY <1>1, <1>2, <1>3, PTL DEF TeachingSpec
  <1>7. bookVars = Booking!vars BY DEF bookVars, Booking!vars
  <1> QED BY <1>2, <1>3, <1>4, <1>5, <1>6, <1>7, PTL
          DEF TeachingSpec, BookingsKept, Booking!EndedStays, Booking!vars, bookVars

-----------------------------------------------------------------------------
(* Students who sign in (SignIn).                                          *)
PhoneRec == [at : {"create"}, late : BOOLEAN, dir : Sign!Directions]
Marks    == {"arrival", "departure", "deleted"}

(* A call that nobody overtook writes a direction that is not there yet,    *)
(* and a departure after an arrival; with PostgreSQL all are arrivals.      *)
SignInv ==
    /\ row \in Seq(Marks) /\ Len(row) <= MaxRows
    /\ deleted \in 0..MaxDeleted /\ sql \in BOOLEAN /\ met \in BOOLEAN
    /\ phone \in [Callers -> {Sign!Idle} \cup PhoneRec]
    /\ sql => /\ \A p \in Callers : phone[p] # Sign!Idle => phone[p].dir = "arrival"
              /\ \A i \in DOMAIN row : row[i] # "departure"
    /\ ~ sql => /\ \A p \in Callers : phone[p] # Sign!Idle /\ ~ phone[p].late =>
                       /\ phone[p].dir \notin Sign!Existing
                       /\ phone[p].dir = "departure" => "arrival" \in Sign!Existing
                /\ Sign!RecordedOnce
    /\ Sign!DepartureAfterArrival

LEMMA SignCounts == MaxRows \in Nat /\ MaxDeleted \in Nat
  BY SignAssumption DEF Sign!SignAssumption

LEMMA PhoneFields ==
    /\ \A p \in PhoneRec : /\ p.at = "create" /\ p.late \in BOOLEAN /\ p.dir \in {"arrival", "departure"}
                           /\ p # Sign!Idle
                           /\ [p EXCEPT !.late = TRUE] \in PhoneRec
                           /\ [p EXCEPT !.late = TRUE].late
                           /\ [p EXCEPT !.late = TRUE].dir = p.dir
    /\ \A d \in Sign!Directions : LET p == [at |-> "create", late |-> FALSE, dir |-> d]
                                  IN  p \in PhoneRec /\ ~ p.late /\ p.dir = d
  <1>1. \A p \in PhoneRec : p # Sign!Idle BY DEF PhoneRec, Sign!Idle
  <1> QED BY <1>1 DEF PhoneRec, Sign!Directions

LEMMA SignInit == Sign!Init => SignInv
  <1> SUFFICES ASSUME Sign!Init PROVE SignInv OBVIOUS
  <1>1. row = <<>> /\ Len(row) = 0 /\ DOMAIN row = {} /\ row \in Seq(Marks)
    BY DEF Sign!Init
  <1>2. Sign!Rows = {} BY <1>1 DEF Sign!Rows
  <1>3. Sign!RecordedOnce /\ Sign!DepartureAfterArrival
    BY <1>2 DEF Sign!RecordedOnce, Sign!DepartureAfterArrival
  <1>4. /\ deleted = 0 /\ met = FALSE /\ sql \in BOOLEAN
        /\ phone = [p \in Callers |-> Sign!Idle]
    BY DEF Sign!Init
  <1>5. Len(row) <= MaxRows /\ deleted \in 0..MaxDeleted BY <1>1, <1>4, SignCounts
  <1> QED BY <1>1, <1>3, <1>4, <1>5 DEF SignInv

LEMMA SignFramed ==
    ASSUME SignInv, UNCHANGED <<sql, row, deleted, met>>,
           phone' \in [Callers -> {Sign!Idle} \cup PhoneRec],
           \A p \in Callers : phone'[p] # Sign!Idle =>
             /\ sql => phone'[p].dir = "arrival"
             /\ ~ sql /\ ~ phone'[p].late => /\ phone'[p].dir \notin Sign!Existing
                                             /\ phone'[p].dir = "departure" => "arrival" \in Sign!Existing
    PROVE  SignInv'
  <1>1. Sign!Rows' = Sign!Rows BY DEF Sign!Rows
  <1>2. Sign!Existing' = Sign!Existing BY <1>1 DEF Sign!Existing
  <1>3. /\ Sign!RecordedOnce' <=> Sign!RecordedOnce
        /\ Sign!DepartureAfterArrival' <=> Sign!DepartureAfterArrival
    BY <1>1 DEF Sign!RecordedOnce, Sign!DepartureAfterArrival
  <1> QED BY <1>2, <1>3 DEF SignInv

LEMMA LookKeeps == ASSUME SignInv, NEW p \in Callers, Sign!Look(p) PROVE SignInv'
  <1> DEFINE dir == IF "arrival" \in Sign!Existing THEN "departure" ELSE "arrival"
             n == [at |-> "create", late |-> FALSE, dir |-> dir]
  <1>1. /\ UNCHANGED <<sql, row, deleted, met>>
        /\ phone' = phone \/ (dir \notin Sign!Existing /\ phone' = [phone EXCEPT ![p] = n])
    BY DEF Sign!Look
  <1>2. /\ dir \in Sign!Directions
        /\ dir = "departure" => "arrival" \in Sign!Existing
        /\ sql => dir = "arrival"
    BY DEF Sign!Directions, Sign!Existing
  <1>3. n \in PhoneRec /\ n.dir = dir
    <2> HIDE DEF dir
    <2> QED BY <1>2, PhoneFields
  <1> HIDE DEF dir, n
  <1>4. phone \in [Callers -> {Sign!Idle} \cup PhoneRec] BY DEF SignInv
  <1>5. \A q \in Callers : phone'[q] = phone[q] \/ (dir \notin Sign!Existing /\ phone'[q] = n)
    BY <1>1, <1>4
  <1>6. phone' \in [Callers -> {Sign!Idle} \cup PhoneRec] BY <1>1, <1>3, <1>4
  <1>7. \A q \in Callers : phone[q] # Sign!Idle =>
             /\ sql => phone[q].dir = "arrival"
             /\ ~ sql /\ ~ phone[q].late => /\ phone[q].dir \notin Sign!Existing
                                            /\ phone[q].dir = "departure" => "arrival" \in Sign!Existing
    BY DEF SignInv
  <1> QED BY <1>1, <1>2, <1>3, <1>5, <1>6, <1>7, SignFramed

LEMMA FailsKeeps == ASSUME SignInv, NEW p \in Callers, Sign!Fails(p) PROVE SignInv'
  <1>1. UNCHANGED <<sql, row, deleted, met>> /\ phone' = [phone EXCEPT ![p] = Sign!Idle]
    BY DEF Sign!Fails
  <1>2. phone \in [Callers -> {Sign!Idle} \cup PhoneRec] BY DEF SignInv
  <1>3. \A q \in Callers : phone'[q] = phone[q] \/ phone'[q] = Sign!Idle BY <1>1, <1>2
  <1>4. phone' \in [Callers -> {Sign!Idle} \cup PhoneRec] BY <1>1, <1>2
  <1> QED BY <1>1, <1>3, <1>4, SignFramed DEF SignInv

LEMMA CreateKeeps == ASSUME SignInv, NEW p \in Callers, Sign!Create(p) PROVE SignInv'
  <1> DEFINE m == phone[p]
  <1>1. /\ m.at = "create" /\ Len(row) < MaxRows /\ row' = Append(row, m.dir)
        /\ met' = (met \/ m.late) /\ UNCHANGED <<sql, deleted>>
        /\ phone' = [q \in Callers |-> IF q = p \/ phone[q] = Sign!Idle
                                       THEN Sign!Idle ELSE [phone[q] EXCEPT !.late = TRUE]]
    BY DEF Sign!Create, Sign!Changed
  <1>2. m \in PhoneRec /\ m # Sign!Idle BY <1>1, PhoneFields DEF SignInv, Sign!Idle
  <1>3. m.dir \in Marks /\ m.dir # "deleted" BY <1>2, PhoneFields DEF Marks
  <1>4. row \in Seq(Marks) /\ Len(row) \in Nat BY DEF SignInv
  <1>5. /\ row' \in Seq(Marks) /\ Len(row') = Len(row) + 1 /\ DOMAIN row' = 1..(Len(row) + 1)
        /\ row'[Len(row) + 1] = m.dir /\ \A i \in DOMAIN row : row'[i] = row[i]
        /\ DOMAIN row = 1..Len(row)
    BY <1>1, <1>3, <1>4
  <1>6. Sign!Rows' = Sign!Rows \cup {Len(row) + 1} /\ Sign!Rows \subseteq 1..Len(row)
    BY <1>3, <1>4, <1>5 DEF Sign!Rows
  <1>7. /\ phone' \in [Callers -> {Sign!Idle} \cup PhoneRec]
        /\ \A q \in Callers : phone'[q] # Sign!Idle =>
             phone[q] # Sign!Idle /\ phone'[q].late /\ phone'[q].dir = phone[q].dir
    BY <1>1, PhoneFields DEF SignInv
  <1>8. met' \in BOOLEAN /\ (~ met' => ~ met /\ ~ m.late)
    BY <1>1, <1>2, PhoneFields DEF SignInv
  <1>9. m = phone[p] OBVIOUS
  <1> HIDE DEF m
  <1>10. ~ sql => Sign!RecordedOnce'
    <2> SUFFICES ASSUME ~ sql, ~ met', NEW i \in Sign!Rows', NEW j \in Sign!Rows', i # j
                 PROVE  row'[i] # row'[j]
      BY DEF Sign!RecordedOnce
    <2>1. m.dir \notin {row[k] : k \in Sign!Rows}
      BY <1>2, <1>8, <1>9 DEF SignInv, Sign!Existing
    <2>2. \A k \in Sign!Rows : row'[k] = row[k] BY <1>5, <1>6
    <2>3. \A k, l \in Sign!Rows : k # l => row[k] # row[l]
      BY <1>8 DEF SignInv, Sign!RecordedOnce
    <2> QED BY <1>5, <1>6, <2>1, <2>2, <2>3
  <1>11. Sign!DepartureAfterArrival'
    <2> SUFFICES ASSUME ~ met', ~ (deleted > 0), NEW i \in Sign!Rows', row'[i] = "departure"
                 PROVE  \E j \in Sign!Rows' : j < i /\ row'[j] = "arrival"
      BY <1>1 DEF Sign!DepartureAfterArrival
    <2>1. CASE i \in Sign!Rows
      <3>1. row[i] = "departure" BY <1>5, <1>6, <2>1
      <3>2. PICK j \in Sign!Rows : j < i /\ row[j] = "arrival"
        BY <1>8, <2>1, <3>1 DEF SignInv, Sign!DepartureAfterArrival
      <3> QED BY <1>5, <1>6, <3>2
    <2>2. CASE i = Len(row) + 1
      <3>1. m.dir = "departure" BY <1>5, <2>2
      <3>2. ~ sql /\ "arrival" \in Sign!Existing
        BY <1>2, <1>8, <1>9, <3>1 DEF SignInv
      <3>3. PICK j \in Sign!Rows : row[j] = "arrival" BY <3>2 DEF Sign!Existing
      <3>4. j \in 1..Len(row) BY <1>6
      <3>5. j < i /\ row'[j] = "arrival" BY <1>4, <1>5, <2>2, <3>3, <3>4
      <3> QED BY <1>6, <3>5
    <2> QED BY <1>6, <2>1, <2>2
  <1>12. sql => \A i \in DOMAIN row' : row'[i] # "departure"
    <2> SUFFICES ASSUME sql, NEW i \in 1..(Len(row) + 1) PROVE row'[i] # "departure"
      BY <1>5
    <2>1. m.dir = "arrival" BY <1>2, <1>9 DEF SignInv
    <2>2. \A k \in 1..Len(row) : row[k] # "departure" BY <1>5 DEF SignInv
    <2>3. i \in 1..Len(row) \/ i = Len(row) + 1 BY <1>4
    <2> QED BY <1>5, <2>1, <2>2, <2>3
  <1>13. Len(row') <= MaxRows BY <1>1, <1>4, <1>5, SignCounts
  <1> QED BY <1>1, <1>5, <1>7, <1>8, <1>10, <1>11, <1>12, <1>13 DEF SignInv

LEMMA DeleteKeeps == ASSUME SignInv, NEW i \in DOMAIN row, Sign!Delete(i) PROVE SignInv'
  <1>1. /\ i \in Sign!Rows /\ deleted < MaxDeleted /\ deleted' = deleted + 1
        /\ row' = [row EXCEPT ![i] = "deleted"] /\ UNCHANGED <<sql, met>>
        /\ phone' = [q \in Callers |-> IF phone[q] = Sign!Idle THEN Sign!Idle
                                       ELSE [phone[q] EXCEPT !.late = TRUE]]
    BY DEF Sign!Delete
  <1>2. row \in Seq(Marks) /\ Len(row) \in Nat /\ DOMAIN row = 1..Len(row) BY DEF SignInv
  <1>3. /\ row' \in Seq(Marks) /\ Len(row') = Len(row) /\ DOMAIN row' = DOMAIN row
        /\ row'[i] = "deleted" /\ \A k \in DOMAIN row \ {i} : row'[k] = row[k]
    BY <1>1, <1>2 DEF Marks
  <1>4. Sign!Rows' = Sign!Rows \ {i} BY <1>3 DEF Sign!Rows
  <1>5. /\ phone' \in [Callers -> {Sign!Idle} \cup PhoneRec]
        /\ \A q \in Callers : phone'[q] # Sign!Idle =>
             phone[q] # Sign!Idle /\ phone'[q].late /\ phone'[q].dir = phone[q].dir
    BY <1>1, PhoneFields DEF SignInv
  <1>6. ~ sql => Sign!RecordedOnce'
    BY <1>1, <1>3, <1>4 DEF SignInv, Sign!RecordedOnce, Sign!Rows
  <1>7. deleted' \in 0..MaxDeleted /\ deleted' > 0
    <2>1. deleted \in 0..MaxDeleted BY DEF SignInv
    <2>2. deleted < MaxDeleted /\ deleted' = deleted + 1 BY <1>1
    <2> QED BY <2>1, <2>2, SignCounts
  <1>8. Sign!DepartureAfterArrival' BY <1>7 DEF Sign!DepartureAfterArrival
  <1>9. sql => \A k \in DOMAIN row' : row'[k] # "departure" BY <1>3 DEF SignInv
  <1>10. Len(row') <= MaxRows BY <1>3 DEF SignInv
  <1> QED BY <1>1, <1>3, <1>5, <1>6, <1>7, <1>8, <1>9, <1>10 DEF SignInv

LEMMA SignStays == ASSUME SignInv, [Sign!Next]_signVars PROVE SignInv'
  <1>1. CASE UNCHANGED signVars
    BY <1>1 DEF signVars, SignInv, Sign!Existing, Sign!Rows, Sign!RecordedOnce,
                Sign!DepartureAfterArrival
  <1>2. CASE Sign!Next
    BY <1>2, LookKeeps, CreateKeeps, FailsKeeps, DeleteKeeps DEF Sign!Next
  <1> QED BY <1>1, <1>2

LEMMA SignSafe ==
    SignInv => Sign!TypeInv /\ Sign!RecordedOnceIfFound /\ Sign!DepartureAfterArrival
  <1> SUFFICES ASSUME SignInv
               PROVE  Sign!TypeInv /\ Sign!RecordedOnceIfFound /\ Sign!DepartureAfterArrival
    OBVIOUS
  <1>1. \A i \in DOMAIN row : row[i] \in Sign!Directions \cup {"deleted"}
    BY DEF SignInv, Sign!Directions, Marks
  <1> QED BY <1>1 DEF SignInv, Sign!TypeInv, Sign!RecordedOnceIfFound

-----------------------------------------------------------------------------
(* Records that go along a table of statuses (Workflow).                   *)
LEMMA FlowTable ==
    /\ Flow!Kinds = {"enrolment", "plan", "class", "receipt", "adjustment"}
    /\ \A k \in Flow!Kinds : /\ Flow!First[k] \in Flow!Statuses(k)
                             /\ Flow!Gone \notin Flow!Statuses(k)
                             /\ "none" \notin Flow!Statuses(k)
                             /\ \A st \in Flow!Statuses(k) :
                                  Flow!TRANSITIONS[k][st] \subseteq Flow!Statuses(k)
    /\ Flow!Statuses("adjustment") = {"pending", "reviewed"}
    /\ Flow!First["adjustment"] = "pending"
    /\ Flow!TRANSITIONS["adjustment"]["pending"] = {"reviewed"}
    /\ Flow!TRANSITIONS["adjustment"]["reviewed"] = {}
  <1>1. Flow!Kinds = {"enrolment", "plan", "class", "receipt", "adjustment"}
    BY DEF Flow!Kinds, Flow!TRANSITIONS
  <1>2. /\ Flow!Statuses("enrolment") = {"pending", "studying", "paused", "finished", "left"}
        /\ Flow!Statuses("plan") = {"draft", "review", "published", "retired"}
        /\ Flow!Statuses("class") = {"preparing", "running", "closed", "cancelled"}
        /\ Flow!Statuses("receipt") = {"toSend", "sent", "delivered", "read", "failed"}
        /\ Flow!Statuses("adjustment") = {"pending", "reviewed"}
    BY DEF Flow!Statuses, Flow!TRANSITIONS
  <1>3. ASSUME NEW k \in Flow!Kinds
        PROVE  /\ Flow!First[k] \in Flow!Statuses(k)
               /\ Flow!Gone \notin Flow!Statuses(k)
               /\ "none" \notin Flow!Statuses(k)
    BY <1>1, <1>2 DEF Flow!First, Flow!Gone
  <1>4. ASSUME NEW k \in Flow!Kinds, NEW st \in Flow!Statuses(k)
        PROVE  Flow!TRANSITIONS[k][st] \subseteq Flow!Statuses(k)
    <2>1. CASE k = "enrolment" BY <1>2, <1>4, <2>1 DEF Flow!TRANSITIONS
    <2>2. CASE k = "plan" BY <1>2, <1>4, <2>2 DEF Flow!TRANSITIONS
    <2>3. CASE k = "class" BY <1>2, <1>4, <2>3 DEF Flow!TRANSITIONS
    <2>4. CASE k = "receipt" BY <1>2, <1>4, <2>4 DEF Flow!TRANSITIONS
    <2>5. CASE k = "adjustment" BY <1>2, <1>4, <2>5 DEF Flow!TRANSITIONS
    <2> QED BY <1>1, <2>1, <2>2, <2>3, <2>4, <2>5
  <1> QED BY <1>1, <1>2, <1>3, <1>4 DEF Flow!First, Flow!TRANSITIONS

LEMMA FlowConstants == Nobody \notin Users /\ MaxWrites \in Nat
  BY FlowAssumption DEF Flow!WorkflowAssumption

AskRec(k) == [to : Flow!Statuses(k), late : BOOLEAN]

(* A call that nobody overtook goes along the table, and an adjustment that *)
(* a transition left reviewed has a reviewer who did not begin it.          *)
FlowInv ==
    /\ kind \in Flow!Kinds /\ status \in Flow!Statuses(kind) \cup {Flow!Gone}
    /\ {initiator, reviewer} \subseteq Users \cup {Nobody}
    /\ writes \in 0..MaxWrites /\ byForm \in BOOLEAN
    /\ call \in [Users -> {Flow!Idle} \cup AskRec(kind)]
    /\ \A u \in Users : call[u] # Flow!Idle /\ ~ call[u].late /\ status # Flow!Gone =>
                          call[u].to \in Flow!TRANSITIONS[kind][status]
    /\ kind = "adjustment" =>
         /\ \A u \in Users : call[u] # Flow!Idle => u # initiator /\ call[u].to = "reviewed"
         /\ status = "reviewed" /\ ~ byForm => reviewer \notin {initiator, Nobody}
    /\ kind # "adjustment" => reviewer = Nobody

LEMMA AskFields ==
    ASSUME NEW k \in Flow!Kinds
    PROVE  /\ \A c \in AskRec(k) : /\ c.to \in Flow!Statuses(k) /\ c.late \in BOOLEAN
                                   /\ c # Flow!Idle
                                   /\ [c EXCEPT !.late = TRUE] \in AskRec(k)
                                   /\ [c EXCEPT !.late = TRUE].late
                                   /\ [c EXCEPT !.late = TRUE].to = c.to
           /\ \A st \in Flow!Statuses(k) : LET c == [to |-> st, late |-> FALSE]
                                           IN  c \in AskRec(k) /\ c.to = st /\ ~ c.late
  <1>1. \A c \in AskRec(k) : c.to # "none" BY FlowTable DEF AskRec
  <1>2. \A c \in AskRec(k) : c # Flow!Idle BY <1>1 DEF Flow!Idle
  <1> QED BY <1>2 DEF AskRec

LEMMA FlowInit == Flow!Init => FlowInv
  <1> SUFFICES ASSUME Flow!Init PROVE FlowInv OBVIOUS
  <1>1. /\ kind \in Flow!Kinds /\ writes = 0 /\ byForm = FALSE
        /\ reviewer \in Users \cup {Nobody} /\ (kind # "adjustment" => reviewer = Nobody)
        /\ initiator \in Users \cup {Nobody}
        /\ call = [u \in Users |-> Flow!Idle]
        /\ status \in IF kind \in Flow!Editable \ {"adjustment"} THEN Flow!Statuses(kind)
                      ELSE {Flow!First[kind]}
    BY DEF Flow!Init, Flow!Reviewers
  <1>2. status \in Flow!Statuses(kind) BY <1>1, FlowTable
  <1>3. kind = "adjustment" => status = "pending" BY <1>1, FlowTable
  <1>4. 0 \in 0..MaxWrites BY FlowConstants
  <1> QED BY <1>1, <1>2, <1>3, <1>4 DEF FlowInv

LEMMA FlowAskKeeps ==
    ASSUME FlowInv, NEW u \in Users, NEW to \in Flow!Statuses(kind), Flow!Ask(u, to)
    PROVE  FlowInv'
  <1> DEFINE c == [to |-> to, late |-> FALSE]
  <1>1. /\ writes < MaxWrites /\ writes' = writes + 1
        /\ status # Flow!Gone /\ to \in Flow!TRANSITIONS[kind][status]
        /\ ~ (kind = "adjustment" /\ u = initiator)
        /\ call' = [call EXCEPT ![u] = c]
        /\ UNCHANGED <<kind, status, initiator, reviewer, byForm>>
    BY DEF Flow!Ask, Flow!Refused
  <1>2. c \in AskRec(kind) /\ c.to = to /\ ~ c.late BY AskFields DEF FlowInv
  <1> HIDE DEF c
  <1>3. writes' \in 0..MaxWrites
    <2>1. writes \in 0..MaxWrites BY DEF FlowInv
    <2>2. writes < MaxWrites /\ writes' = writes + 1 BY <1>1
    <2> QED BY <2>1, <2>2, FlowConstants
  <1>4. kind = "adjustment" => to = "reviewed" BY <1>1, FlowTable DEF FlowInv
  <1>5. call' \in [Users -> {Flow!Idle} \cup AskRec(kind)] BY <1>1, <1>2 DEF FlowInv
  <1>6. \A v \in Users : v # u => call'[v] = call[v] BY <1>1 DEF FlowInv
  <1>7. call'[u] = c BY <1>1 DEF FlowInv
  <1>8. \A v \in Users : call'[v] # Flow!Idle /\ ~ call'[v].late /\ status # Flow!Gone =>
                           call'[v].to \in Flow!TRANSITIONS[kind][status]
    BY <1>1, <1>2, <1>6, <1>7 DEF FlowInv
  <1>9. kind = "adjustment" =>
          \A v \in Users : call'[v] # Flow!Idle => v # initiator /\ call'[v].to = "reviewed"
    BY <1>1, <1>2, <1>4, <1>6, <1>7 DEF FlowInv
  <1> QED BY <1>1, <1>3, <1>5, <1>8, <1>9 DEF FlowInv

LEMMA FlowWriteKeeps == ASSUME FlowInv, NEW u \in Users, Flow!Write(u) PROVE FlowInv'
  <1> DEFINE c == call[u]
  <1>1. /\ c # Flow!Idle
        /\ status' = IF status = Flow!Gone THEN Flow!Gone ELSE c.to
        /\ reviewer' = IF status # Flow!Gone /\ kind = "adjustment" THEN u ELSE reviewer
        /\ call' = [v \in Users |-> IF call[v] = Flow!Idle \/ v = u THEN Flow!Idle
                                    ELSE [call[v] EXCEPT !.late = TRUE]]
        /\ byForm' = (byForm /\ status = Flow!Gone)
        /\ UNCHANGED <<kind, initiator, writes>>
    BY DEF Flow!Write, Flow!Overtakes
  <1>2. kind \in Flow!Kinds BY DEF FlowInv
  <1>3. c \in AskRec(kind) /\ c.to \in Flow!Statuses(kind) BY <1>1, <1>2, AskFields DEF FlowInv
  <1>4. \A v \in Users : call'[v] # Flow!Idle =>
          /\ call[v] # Flow!Idle /\ call[v] \in AskRec(kind) /\ call'[v] \in AskRec(kind)
          /\ call'[v].late /\ call'[v].to = call[v].to
    BY <1>1, <1>2, AskFields DEF FlowInv
  <1>5. call' \in [Users -> {Flow!Idle} \cup AskRec(kind)] BY <1>1, <1>4
  <1>6. status' \in Flow!Statuses(kind) \cup {Flow!Gone} BY <1>1, <1>3
  <1>7. byForm' \in BOOLEAN BY <1>1 DEF FlowInv
  <1>8. kind = "adjustment" =>
         /\ \A v \in Users : call'[v] # Flow!Idle => v # initiator /\ call'[v].to = "reviewed"
         /\ status' = "reviewed" => reviewer' \notin {initiator, Nobody}
    <2> SUFFICES ASSUME kind = "adjustment"
                 PROVE  /\ \A v \in Users : call'[v] # Flow!Idle => v # initiator /\ call'[v].to = "reviewed"
                        /\ status' = "reviewed" => reviewer' \notin {initiator, Nobody}
      OBVIOUS
    <2>1. u # initiator /\ c.to = "reviewed" BY <1>1 DEF FlowInv
    <2>2. "reviewed" # Flow!Gone BY DEF Flow!Gone
    <2>3. \A v \in Users : call'[v] # Flow!Idle => v # initiator /\ call'[v].to = "reviewed"
      BY <1>4 DEF FlowInv
    <2> QED BY <1>1, <2>1, <2>2, <2>3, FlowConstants
  <1>9. kind # "adjustment" => reviewer' = Nobody BY <1>1 DEF FlowInv
  <1>10. {initiator, reviewer'} \subseteq Users \cup {Nobody} BY <1>1 DEF FlowInv
  <1>11. writes \in 0..MaxWrites BY DEF FlowInv
  <1> HIDE DEF c
  <1> QED BY <1>1, <1>2, <1>4, <1>5, <1>6, <1>7, <1>8, <1>9, <1>10, <1>11 DEF FlowInv

LEMMA FlowFormKeeps == ASSUME FlowInv, Flow!Update \/ Flow!Archive PROVE FlowInv'
  <1>1. /\ writes < MaxWrites /\ writes' = writes + 1 /\ status # Flow!Gone
        /\ UNCHANGED <<kind, initiator>>
    BY DEF Flow!Update, Flow!Archive
  <1>2. writes' \in 0..MaxWrites
    <2>1. writes \in 0..MaxWrites BY DEF FlowInv
    <2>2. writes < MaxWrites /\ writes' = writes + 1 BY <1>1
    <2> QED BY <2>1, <2>2, FlowConstants
  <1>3. kind \in Flow!Kinds BY DEF FlowInv
  <1>4. CASE Flow!Update
    <2>1. /\ status' \in Flow!Statuses(kind) /\ reviewer' \in Flow!Reviewers /\ byForm' = TRUE
          /\ call' = [u \in Users |-> IF call[u] = Flow!Idle THEN Flow!Idle
                                      ELSE [call[u] EXCEPT !.late = TRUE]]
      BY <1>4 DEF Flow!Update
    <2>2. /\ reviewer' \in Users \cup {Nobody} /\ initiator \in Users \cup {Nobody}
          /\ kind # "adjustment" => reviewer' = Nobody
      BY <2>1 DEF Flow!Reviewers, FlowInv
    <2>3. \A v \in Users : call'[v] # Flow!Idle =>
            /\ call[v] # Flow!Idle /\ call'[v] \in AskRec(kind)
            /\ call'[v].late /\ call'[v].to = call[v].to
      BY <1>3, <2>1, AskFields DEF FlowInv
    <2>4. call' \in [Users -> {Flow!Idle} \cup AskRec(kind)] BY <2>1, <2>3
    <2>5. kind = "adjustment" =>
            \A v \in Users : call'[v] # Flow!Idle => v # initiator /\ call'[v].to = "reviewed"
      BY <2>3 DEF FlowInv
    <2> QED BY <1>1, <1>2, <1>3, <2>1, <2>2, <2>3, <2>4, <2>5 DEF FlowInv
  <1>5. CASE Flow!Archive
    <2>1. status' = Flow!Gone /\ UNCHANGED <<call, reviewer, byForm>> BY <1>5 DEF Flow!Archive
    <2>2. Flow!Gone # "reviewed" BY DEF Flow!Gone
    <2> QED BY <1>1, <1>2, <2>1, <2>2 DEF FlowInv
  <1> QED BY <1>4, <1>5

LEMMA FlowStays == ASSUME FlowInv, [Flow!Next]_flowVars PROVE FlowInv'
  <1>1. CASE UNCHANGED flowVars BY <1>1 DEF flowVars, FlowInv
  <1>2. CASE Flow!Next
    BY <1>2, FlowAskKeeps, FlowWriteKeeps, FlowFormKeeps DEF Flow!Next
  <1> QED BY <1>1, <1>2

LEMMA FlowSafe ==
    FlowInv => /\ Flow!TypeInv
               /\ Flow!ByTransition => reviewer \notin {initiator, Nobody}
  <1> SUFFICES ASSUME FlowInv PROVE Flow!TypeInv BY DEF FlowInv, Flow!ByTransition
  <1>1. \A u \in Users : call[u].to \in Flow!Statuses(kind) \cup {"none"}
    <2>1. Flow!Idle.to = "none" BY DEF Flow!Idle
    <2>2. kind \in Flow!Kinds /\ \A u \in Users : call[u] = Flow!Idle \/ call[u] \in AskRec(kind)
      BY DEF FlowInv
    <2>3. \A c \in AskRec(kind) : c.to \in Flow!Statuses(kind) BY <2>2, AskFields
    <2> QED BY <2>1, <2>2, <2>3
  <1> QED BY <1>1 DEF FlowInv, Flow!TypeInv

MovesByTable ==
    status' # status =>
       \/ status # Flow!Gone /\ status' \in Flow!TRANSITIONS[kind][status]
       \/ writes' # writes
       \/ \E u \in Users : call[u].late /\ call'[u] = Flow!Idle
ReviewerStays ==
    Flow!ByTransition /\ reviewer' # reviewer =>
       byForm' \/ \E u \in Users : call[u].late /\ call'[u] = Flow!Idle

LEMMA FlowSteps == ASSUME FlowInv, Flow!Next PROVE MovesByTable /\ ReviewerStays
  <1>1. ASSUME UNCHANGED <<status, reviewer>> PROVE MovesByTable /\ ReviewerStays
    BY <1>1 DEF MovesByTable, ReviewerStays
  <1>2. ASSUME writes' = writes + 1, byForm' \/ UNCHANGED reviewer PROVE MovesByTable /\ ReviewerStays
    <2>1. writes \in Nat BY FlowConstants DEF FlowInv
    <2> QED BY <1>2, <2>1 DEF MovesByTable, ReviewerStays
  <1>3. ASSUME NEW u \in Users, Flow!Write(u) PROVE MovesByTable /\ ReviewerStays
    <2>1. /\ call[u] # Flow!Idle /\ call'[u] = Flow!Idle
          /\ status' = IF status = Flow!Gone THEN Flow!Gone ELSE call[u].to
          /\ reviewer' = IF status # Flow!Gone /\ kind = "adjustment" THEN u ELSE reviewer
      BY <1>3 DEF Flow!Write, Flow!Overtakes
    <2>2. CASE status = Flow!Gone BY <1>1, <2>1, <2>2
    <2>3. CASE call[u].late BY <2>1, <2>3 DEF MovesByTable, ReviewerStays
    <2>4. CASE status # Flow!Gone /\ ~ call[u].late
      <3>1. call[u].to \in Flow!TRANSITIONS[kind][status] BY <2>1, <2>4 DEF FlowInv
      <3>2. ~ Flow!ByTransition BY <3>1, FlowTable DEF Flow!ByTransition
      <3> QED BY <2>1, <2>4, <3>1, <3>2 DEF MovesByTable, ReviewerStays
    <2> QED BY <2>2, <2>3, <2>4
  <1>4. CASE Flow!Update \/ Flow!Archive BY <1>2, <1>4 DEF Flow!Update, Flow!Archive
  <1>5. ASSUME NEW u \in Users, NEW to, Flow!Ask(u, to) PROVE MovesByTable /\ ReviewerStays
    BY <1>1, <1>5 DEF Flow!Ask
  <1> QED BY <1>3, <1>4, <1>5 DEF Flow!Next

-----------------------------------------------------------------------------
(* From an attendance to a settlement (Billing).                           *)
LEMMA BillConstants ==
    /\ Rates \subseteq Nat \ {0} /\ Rates # {}
    /\ MaxCalls \in Nat /\ Nobody \notin Callers
  BY BillsAssumption DEF Bills!BillingAssumption

LEMMA BillStatuses ==
    /\ Bills!Statuses(Bills!ATTENDANCE) =
         {"toSubmit", "submitted", "teacherConfirmed", "reviewed", "billable"}
    /\ Bills!Statuses(Bills!BILL) = {"toGenerate", "toConfirm", "confirmed", "settled"}
    /\ Bills!Statuses(Bills!SETTLEMENT) =
         {"draft", "submitted", "inApproval", "approved", "closed"}
    /\ \A a, to : (Bills!Allowed(Bills!ATTENDANCE, a, to) /\ a \in Bills!Billable)
                    => to \in Bills!Billable
    /\ \A to : ~ Bills!Allowed(Bills!SETTLEMENT, "closed", to)
  <1>1. /\ DOMAIN Bills!ATTENDANCE = 1..5 /\ DOMAIN Bills!BILL = 1..4
        /\ DOMAIN Bills!SETTLEMENT = 1..5
    BY DEF Bills!ATTENDANCE, Bills!BILL, Bills!SETTLEMENT
  <1>2. 1..5 = {1, 2, 3, 4, 5} /\ 1..4 = {1, 2, 3, 4} OBVIOUS
  <1>3. Bills!Statuses(Bills!ATTENDANCE) =
         {"toSubmit", "submitted", "teacherConfirmed", "reviewed", "billable"}
    BY <1>1, <1>2 DEF Bills!Statuses, Bills!ATTENDANCE
  <1>4. Bills!Statuses(Bills!BILL) = {"toGenerate", "toConfirm", "confirmed", "settled"}
    BY <1>1, <1>2 DEF Bills!Statuses, Bills!BILL
  <1>5. Bills!Statuses(Bills!SETTLEMENT) =
         {"draft", "submitted", "inApproval", "approved", "closed"}
    BY <1>1, <1>2 DEF Bills!Statuses, Bills!SETTLEMENT
  <1>6. ASSUME NEW a, NEW to, Bills!Allowed(Bills!ATTENDANCE, a, to), a \in Bills!Billable
        PROVE  to \in Bills!Billable
    <2>1. PICK i \in 1..5 : i + 1 \in 1..5 /\ Bills!ATTENDANCE[i] = a /\ Bills!ATTENDANCE[i + 1] = to
      BY <1>1, <1>6 DEF Bills!Allowed
    <2>2. i \in {1, 2, 3, 4} BY <2>1
    <2>3. CASE i = 4 BY <2>1, <2>3 DEF Bills!ATTENDANCE, Bills!Billable
    <2>4. CASE i \in {1, 2, 3} BY <1>6, <2>1, <2>4 DEF Bills!ATTENDANCE, Bills!Billable
    <2> QED BY <2>2, <2>3, <2>4
  <1>7. ASSUME NEW to, Bills!Allowed(Bills!SETTLEMENT, "closed", to) PROVE FALSE
    <2>1. PICK i \in 1..5 : i + 1 \in 1..5 /\ Bills!SETTLEMENT[i] = "closed"
      BY <1>1, <1>7 DEF Bills!Allowed
    <2>2. i \in {1, 2, 3, 4} BY <2>1
    <2> QED BY <2>1, <2>2 DEF Bills!SETTLEMENT
  <1> QED BY <1>3, <1>4, <1>5, <1>6, <1>7

AttendanceCall == [op : {"attendance"}, to : Bills!Statuses(Bills!ATTENDANCE), late : BOOLEAN]
GenerateCall   == [op : {"generate"}, amount : Rates \cup {0}, late : BOOLEAN]
BillCall       == [op : {"bill"}, id : Bills!Bills, to : Bills!Statuses(Bills!BILL), late : BOOLEAN]
UpdateCall     == [op : {"update"}, fields : SUBSET Bills!FormFields, late : BOOLEAN]
SettlementCall == [op : {"settlement"}, to : Bills!Statuses(Bills!SETTLEMENT),
                   by : Callers \cup {Nobody}, late : BOOLEAN]
OneBill        == [status : Bills!Statuses(Bills!BILL), amount : Rates, generated : BOOLEAN]

ClerkTyped(c) ==
    /\ c.op \in {"idle", "attendance", "generate", "bill", "aggregate", "update", "settlement"}
    /\ c.op = "idle"       => c = Bills!Idle
    /\ c.op = "attendance" => c \in AttendanceCall
    /\ c.op = "generate"   => c \in GenerateCall
    /\ c.op = "bill"       => c \in BillCall
    /\ c.op = "update"     => c \in UpdateCall
    /\ c.op = "settlement" => c \in SettlementCall

SettleTyped(s) ==
    \/ s = Bills!NoSettlement
    \/ \E t : \E st \in Bills!Statuses(Bills!SETTLEMENT), a \in Callers \cup {Nobody} :
         s = [status |-> st, total |-> t, approver |-> a]

(* What a call of u that is not late has read of an attendance or of a      *)
(* settlement is still so.                                                  *)
AttendanceFits(c, a) == c.op = "attendance" /\ ~ c.late => Bills!Allowed(Bills!ATTENDANCE, a, c.to)
UpdateFits(c, s) ==
    c.op = "update" /\ ~ c.late =>
      s # Bills!NoSettlement /\ s.status # "closed" /\ ("total" \in c.fields => s.status = "draft")
SettlementFits(c, u, s) ==
    c.op = "settlement" /\ ~ c.late =>
      /\ s # Bills!NoSettlement /\ Bills!Allowed(Bills!SETTLEMENT, s.status, c.to)
      /\ c.by = IF c.to \in {"approved", "closed"} /\ s.approver = Nobody THEN u ELSE s.approver
ClerkFits(c, u, a, s) ==
    ClerkTyped(c) /\ AttendanceFits(c, a) /\ UpdateFits(c, s) /\ SettlementFits(c, u, s)

Generated == \/ \E b \in Bills!There : bill[b].generated
             \/ \E u \in Callers : clerk[u].op = "generate"

ClerksFit == /\ clerk = [u \in Callers |-> clerk[u]]
             /\ \A u \in Callers : ClerkFits(clerk[u], u, att, settle)
LedgerTypes ==
    /\ att \in Bills!Statuses(Bills!ATTENDANCE) /\ rate \in Rates \cup {0}
    /\ bill \in [Bills!Bills -> {Bills!NoBill} \cup OneBill]
    /\ SettleTyped(settle) /\ regressed \in BOOLEAN
BillsInv == /\ LedgerTypes /\ ClerksFit /\ calls \in 0..MaxCalls
            /\ regressed \/ (Generated => att \in Bills!Billable)

LEMMA BillFields ==
    /\ \A b \in OneBill : b # Bills!NoBill /\ b.status \in Bills!Statuses(Bills!BILL)
                          /\ b.amount \in Rates /\ b.generated \in BOOLEAN
    /\ \A st \in Bills!Statuses(Bills!BILL), r \in Rates, g \in BOOLEAN :
         LET b == [status |-> st, amount |-> r, generated |-> g]
         IN  b \in OneBill /\ b.generated = g
    /\ \A b \in OneBill, st \in Bills!Statuses(Bills!BILL) :
         [b EXCEPT !.status = st] \in OneBill /\ [b EXCEPT !.status = st].generated = b.generated
    /\ \A b \in OneBill, st \in Bills!Statuses(Bills!BILL), r \in Rates :
         LET n == [b EXCEPT !.status = st, !.amount = r]
         IN  n \in OneBill /\ n.generated = b.generated
  <1>1. \A b \in OneBill : b.status # "absent" BY BillStatuses DEF OneBill
  <1>2. \A b \in OneBill : b # Bills!NoBill BY <1>1 DEF Bills!NoBill
  <1> QED BY <1>2 DEF OneBill

LEMMA IdleFits == ASSUME NEW u, NEW a, NEW s PROVE ClerkFits(Bills!Idle, u, a, s)
  BY DEF ClerkFits, ClerkTyped, AttendanceFits, UpdateFits, SettlementFits, Bills!Idle

LEMMA LateFits ==
    ASSUME NEW c, ClerkTyped(c), c.op \in {"attendance", "update", "settlement"}, NEW u, NEW a, NEW s
    PROVE  /\ ClerkFits([c EXCEPT !.late = TRUE], u, a, s)
           /\ [c EXCEPT !.late = TRUE].op = c.op
  <1> DEFINE n == [c EXCEPT !.late = TRUE]
  <1>1. CASE c.op = "attendance"
    <2>1. c \in AttendanceCall BY <1>1 DEF ClerkTyped
    <2>2. n \in AttendanceCall /\ n.late /\ n.op = "attendance" BY <2>1 DEF AttendanceCall
    <2> HIDE DEF n
    <2>3. ClerkFits(n, u, a, s)
      BY <2>2 DEF ClerkFits, ClerkTyped, AttendanceFits, UpdateFits, SettlementFits
    <2> QED BY <1>1, <2>2, <2>3 DEF n
  <1>2. CASE c.op = "update"
    <2>1. c \in UpdateCall BY <1>2 DEF ClerkTyped
    <2>2. n \in UpdateCall /\ n.late /\ n.op = "update" BY <2>1 DEF UpdateCall
    <2> HIDE DEF n
    <2>3. ClerkFits(n, u, a, s)
      BY <2>2 DEF ClerkFits, ClerkTyped, AttendanceFits, UpdateFits, SettlementFits
    <2> QED BY <1>2, <2>2, <2>3 DEF n
  <1>3. CASE c.op = "settlement"
    <2>1. c \in SettlementCall BY <1>3 DEF ClerkTyped
    <2>2. n \in SettlementCall /\ n.late /\ n.op = "settlement" BY <2>1 DEF SettlementCall
    <2> HIDE DEF n
    <2>3. ClerkFits(n, u, a, s)
      BY <2>2 DEF ClerkFits, ClerkTyped, AttendanceFits, UpdateFits, SettlementFits
    <2> QED BY <1>3, <2>2, <2>3 DEF n
  <1> QED BY <1>1, <1>2, <1>3

LEMMA BillsInit == Bills!Init => BillsInv
  <1> SUFFICES ASSUME Bills!Init PROVE BillsInv OBVIOUS
  <1>1. Bills!FirstRate \in Rates BY BillConstants DEF Bills!FirstRate
  <1>2. /\ att \in Bills!Statuses(Bills!ATTENDANCE) /\ rate \in {0, Bills!FirstRate}
        /\ bill \in [Bills!Bills -> {Bills!NoBill} \cup
                       [status : {"confirmed"}, amount : {Bills!FirstRate}, generated : {FALSE}]]
        /\ \/ settle = Bills!NoSettlement
           \/ \E st \in Bills!Statuses(Bills!SETTLEMENT), u \in Callers \cup {Nobody} :
                settle = [status |-> st, total |-> Bills!SumOf(Bills!There), approver |-> u]
        /\ clerk = [u \in Callers |-> Bills!Idle] /\ calls = 0 /\ regressed = FALSE
    BY DEF Bills!Init
  <1>3. \A b \in [status : {"confirmed"}, amount : {Bills!FirstRate}, generated : {FALSE}] :
          b \in OneBill /\ ~ b.generated
    BY <1>1, BillStatuses DEF OneBill
  <1>4. \A b \in Bills!Bills : bill[b] = Bills!NoBill \/ (bill[b] \in OneBill /\ ~ bill[b].generated)
    BY <1>2, <1>3
  <1>5. bill \in [Bills!Bills -> {Bills!NoBill} \cup OneBill] BY <1>2, <1>4
  <1>6. SettleTyped(settle)
    <2>1. CASE settle = Bills!NoSettlement BY <2>1 DEF SettleTyped
    <2>2. ASSUME NEW st \in Bills!Statuses(Bills!SETTLEMENT), NEW u \in Callers \cup {Nobody},
                 settle = [status |-> st, total |-> Bills!SumOf(Bills!There), approver |-> u]
          PROVE  SettleTyped(settle)
      <3> DEFINE t == Bills!SumOf(Bills!There)
      <3>1. settle = [status |-> st, total |-> t, approver |-> u] BY <2>2
      <3> HIDE DEF t
      <3> QED BY <3>1 DEF SettleTyped
    <2> QED BY <1>2, <2>1, <2>2
  <1>7. ClerksFit BY <1>2, IdleFits DEF ClerksFit
  <1>8. \A u \in Callers : clerk[u].op = "idle" BY <1>2 DEF Bills!Idle
  <1>9. ~ Generated BY <1>4, <1>8 DEF Generated, Bills!There
  <1>10. calls \in 0..MaxCalls BY <1>2, BillConstants
  <1> QED BY <1>1, <1>2, <1>5, <1>6, <1>7, <1>9, <1>10 DEF BillsInv, LedgerTypes

LEMMA CallsCounted ==
    ASSUME BillsInv, calls < MaxCalls, calls' = calls + 1
    PROVE  calls' \in 0..MaxCalls /\ calls' # calls
  <1>1. calls \in 0..MaxCalls BY DEF BillsInv
  <1>2. MaxCalls \in Nat BY BillConstants
  <1> QED BY <1>1, <1>2

(* A call that begins fits when what it has read is so.                     *)
LEMMA StartFits ==
    ASSUME BillsInv, NEW u \in Callers, NEW c, ClerkFits(c, u, att, settle), Bills!Start(u, c),
           UNCHANGED <<att, rate, bill, settle, regressed>>,
           c.op = "generate" => att \in Bills!Billable
    PROVE  BillsInv'
  <1>1. /\ calls < MaxCalls /\ calls' = calls + 1 /\ clerk' = [clerk EXCEPT ![u] = c]
    BY DEF Bills!Start
  <1>2. clerk = [v \in Callers |-> clerk[v]]
        /\ \A v \in Callers : ClerkFits(clerk[v], v, att, settle)
    BY DEF BillsInv, ClerksFit
  <1>3. /\ clerk' = [v \in Callers |-> clerk'[v]]
        /\ \A v \in Callers : clerk'[v] = IF v = u THEN c ELSE clerk[v]
    BY <1>1, <1>2
  <1>4. \A v \in Callers : ClerkFits(clerk'[v], v, att', settle') BY <1>2, <1>3
  <1>5. ClerksFit' BY <1>3, <1>4 DEF ClerksFit
  <1>6. Bills!There' = Bills!There BY DEF Bills!There
  <1>7. regressed' \/ (Generated' => att' \in Bills!Billable)
    BY <1>3, <1>6 DEF BillsInv, Generated
  <1>8. LedgerTypes' BY DEF BillsInv, LedgerTypes
  <1> QED BY <1>1, <1>5, <1>7, <1>8, CallsCounted DEF BillsInv

Readers == SUBSET {"attendance", "update", "settlement"}

(* A call that ends leaves the readers of what it wrote late.               *)
LEMMA EndIs ==
    ASSUME NEW u \in Callers, NEW readers, Bills!Ends(u, readers)
    PROVE  /\ clerk' = [v \in Callers |-> clerk'[v]] /\ clerk'[u] = Bills!Idle
           /\ \A v \in Callers \ {u} :
                clerk'[v] = IF clerk[v].op \in readers THEN [clerk[v] EXCEPT !.late = TRUE]
                            ELSE clerk[v]
  BY DEF Bills!Ends

LEMMA EndsFit ==
    ASSUME BillsInv, NEW u \in Callers, NEW readers \in Readers, Bills!Ends(u, readers),
           "attendance" \notin readers => att' = att,
           "update" \notin readers => \A c : UpdateFits(c, settle) => UpdateFits(c, settle'),
           "settlement" \notin readers =>
             \A c, v : SettlementFits(c, v, settle) => SettlementFits(c, v, settle')
    PROVE  /\ ClerksFit'
           /\ \A v \in Callers : clerk'[v].op = "generate" => clerk[v].op = "generate" /\ v # u
  <1>1. \A v \in Callers : ClerkFits(clerk[v], v, att, settle) BY DEF BillsInv, ClerksFit
  <1>2. Bills!Idle.op = "idle" BY DEF Bills!Idle
  <1>3. ASSUME NEW v \in Callers
        PROVE  ClerkFits(clerk'[v], v, att', settle')
               /\ (clerk'[v].op = "generate" => clerk[v].op = "generate" /\ v # u)
    <2> DEFINE c == clerk[v]
    <2>1. ClerkTyped(c) BY <1>1 DEF ClerkFits
    <2>2. CASE v = u BY <1>2, <2>2, EndIs, IdleFits
    <2>3. CASE v # u /\ c.op \in readers
      <3>1. c.op \in {"attendance", "update", "settlement"} BY <2>3 DEF Readers
      <3>2. clerk'[v] = [c EXCEPT !.late = TRUE] BY <2>3, EndIs
      <3> HIDE DEF c
      <3> QED BY <2>1, <3>1, <3>2, LateFits
    <2>4. CASE v # u /\ c.op \notin readers
      <3>1. clerk'[v] = c BY <2>4, EndIs
      <3>2. ClerkFits(c, v, att, settle) BY <1>1
      <3> HIDE DEF c
      <3>3. AttendanceFits(c, att') BY <2>4, <3>2 DEF ClerkFits, AttendanceFits
      <3>4. UpdateFits(c, settle')
        <4>1. CASE "update" \in readers BY <2>4, <4>1 DEF UpdateFits
        <4>2. CASE "update" \notin readers BY <3>2, <4>2 DEF ClerkFits
        <4> QED BY <4>1, <4>2
      <3>5. SettlementFits(c, v, settle')
        <4>1. CASE "settlement" \in readers BY <2>4, <4>1 DEF SettlementFits
        <4>2. CASE "settlement" \notin readers BY <3>2, <4>2 DEF ClerkFits
        <4> QED BY <4>1, <4>2
      <3>6. ClerkFits(c, v, att', settle') BY <2>1, <3>3, <3>4, <3>5 DEF ClerkFits
      <3> QED BY <2>4, <3>1, <3>6 DEF c
    <2> QED BY <2>2, <2>3, <2>4
  <1> QED BY <1>3, EndIs DEF ClerksFit

LEMMA AsksKeep ==
    ASSUME BillsInv, NEW u \in Callers,
           \/ \E to \in Bills!Statuses(Bills!ATTENDANCE) : Bills!AskAttendance(u, to)
           \/ Bills!Generate(u)
           \/ \E b \in Bills!Bills, to \in Bills!Statuses(Bills!BILL) : Bills!AskBill(u, b, to)
           \/ Bills!Aggregate(u)
           \/ \E fs \in SUBSET Bills!FormFields \ {{}} : Bills!AskUpdate(u, fs)
           \/ \E to \in Bills!Statuses(Bills!SETTLEMENT) : Bills!AskSettlement(u, to)
    PROVE  BillsInv'
  <1>1. ASSUME NEW to \in Bills!Statuses(Bills!ATTENDANCE), Bills!AskAttendance(u, to)
        PROVE  BillsInv'
    <2> DEFINE c == [op |-> "attendance", to |-> to, late |-> FALSE]
    <2>1. /\ Bills!Allowed(Bills!ATTENDANCE, att, to) /\ Bills!Start(u, c)
          /\ UNCHANGED <<att, rate, bill, settle, regressed>>
      BY <1>1 DEF Bills!AskAttendance
    <2>2. c \in AttendanceCall /\ c.op = "attendance" /\ c.to = to BY DEF AttendanceCall
    <2> HIDE DEF c
    <2>3. ClerkFits(c, u, att, settle)
      BY <2>1, <2>2 DEF ClerkFits, ClerkTyped, AttendanceFits, UpdateFits, SettlementFits
    <2> QED BY <2>1, <2>2, <2>3, StartFits
  <1>2. CASE Bills!Generate(u)
    <2> DEFINE c == [op |-> "generate", amount |-> 0, late |-> FALSE]
    <2>1. /\ att \in Bills!Billable /\ Bills!Start(u, c)
          /\ UNCHANGED <<att, rate, bill, settle, regressed>>
      BY <1>2 DEF Bills!Generate
    <2>2. c \in GenerateCall /\ c.op = "generate" BY DEF GenerateCall
    <2> HIDE DEF c
    <2>3. ClerkFits(c, u, att, settle)
      BY <2>2 DEF ClerkFits, ClerkTyped, AttendanceFits, UpdateFits, SettlementFits
    <2> QED BY <2>1, <2>3, StartFits
  <1>3. ASSUME NEW b \in Bills!Bills, NEW to \in Bills!Statuses(Bills!BILL), Bills!AskBill(u, b, to)
        PROVE  BillsInv'
    <2> DEFINE c == [op |-> "bill", id |-> b, to |-> to, late |-> FALSE]
    <2>1. Bills!Start(u, c) /\ UNCHANGED <<att, rate, bill, settle, regressed>>
      BY <1>3 DEF Bills!AskBill
    <2>2. c \in BillCall /\ c.op = "bill" BY DEF BillCall
    <2> HIDE DEF c
    <2>3. ClerkFits(c, u, att, settle)
      BY <2>2 DEF ClerkFits, ClerkTyped, AttendanceFits, UpdateFits, SettlementFits
    <2> QED BY <2>1, <2>2, <2>3, StartFits
  <1>4. CASE Bills!Aggregate(u)
    <2> DEFINE t == Bills!SumOf(Bills!FirstPage)
               c == [op |-> "aggregate", total |-> t]
    <2>1. Bills!Start(u, c) /\ UNCHANGED <<att, rate, bill, settle, regressed>>
      BY <1>4 DEF Bills!Aggregate
    <2>2. c.op = "aggregate" OBVIOUS
    <2> HIDE DEF c
    <2>3. ClerkFits(c, u, att, settle)
      BY <2>2 DEF ClerkFits, ClerkTyped, AttendanceFits, UpdateFits, SettlementFits
    <2> QED BY <2>1, <2>2, <2>3, StartFits
  <1>5. ASSUME NEW fs \in SUBSET Bills!FormFields, Bills!AskUpdate(u, fs) PROVE BillsInv'
    <2> DEFINE c == [op |-> "update", fields |-> fs, late |-> FALSE]
    <2>1. /\ settle # Bills!NoSettlement /\ settle.status # "closed"
          /\ ("total" \in fs => settle.status = "draft")
          /\ Bills!Start(u, c) /\ UNCHANGED <<att, rate, bill, settle, regressed>>
      BY <1>5 DEF Bills!AskUpdate, Bills!MayUpdate
    <2>2. c \in UpdateCall /\ c.op = "update" /\ c.fields = fs BY DEF UpdateCall
    <2> HIDE DEF c
    <2>3. ClerkFits(c, u, att, settle)
      BY <2>1, <2>2 DEF ClerkFits, ClerkTyped, AttendanceFits, UpdateFits, SettlementFits
    <2> QED BY <2>1, <2>2, <2>3, StartFits
  <1>6. ASSUME NEW to \in Bills!Statuses(Bills!SETTLEMENT), Bills!AskSettlement(u, to)
        PROVE  BillsInv'
    <2> DEFINE by == Bills!Approver(u, to)
               c == [op |-> "settlement", to |-> to, by |-> by, late |-> FALSE]
    <2>1. /\ settle # Bills!NoSettlement /\ Bills!Allowed(Bills!SETTLEMENT, settle.status, to)
          /\ Bills!Start(u, c) /\ UNCHANGED <<att, rate, bill, settle, regressed>>
      BY <1>6 DEF Bills!AskSettlement
    <2>2. by = IF to \in {"approved", "closed"} /\ settle.approver = Nobody THEN u ELSE settle.approver
      BY DEF Bills!Approver
    <2>3. settle.approver \in Callers \cup {Nobody}
      BY <2>1 DEF BillsInv, LedgerTypes, SettleTyped
    <2>4. by \in Callers \cup {Nobody} BY <2>2, <2>3
    <2> HIDE DEF by
    <2>5. c \in SettlementCall /\ c.op = "settlement" /\ c.to = to /\ c.by = by
      BY <2>4 DEF SettlementCall
    <2> HIDE DEF c
    <2>6. ClerkFits(c, u, att, settle)
      BY <2>1, <2>2, <2>5 DEF ClerkFits, ClerkTyped, AttendanceFits, UpdateFits, SettlementFits
    <2> QED BY <2>1, <2>5, <2>6, StartFits
  <1> QED BY <1>1, <1>2, <1>3, <1>4, <1>5, <1>6

LEMMA MoveAttendanceKeeps ==
    ASSUME BillsInv, NEW u \in Callers, Bills!MoveAttendance(u)
    PROVE  BillsInv'
  <1> DEFINE c == clerk[u]
             readers == {"attendance"}
  <1>1. /\ c.op = "attendance" /\ att' = c.to /\ regressed' = (regressed \/ c.late)
        /\ Bills!Ends(u, readers) /\ UNCHANGED <<rate, bill, settle, calls>>
    BY DEF Bills!MoveAttendance
  <1>2. ClerkFits(c, u, att, settle) BY DEF BillsInv, ClerksFit
  <1>3. c \in AttendanceCall BY <1>1, <1>2 DEF ClerkFits, ClerkTyped
  <1>4. c.to \in Bills!Statuses(Bills!ATTENDANCE) /\ c.late \in BOOLEAN
    BY <1>3 DEF AttendanceCall
  <1>5. ~ c.late => Bills!Allowed(Bills!ATTENDANCE, att, c.to)
    BY <1>1, <1>2 DEF ClerkFits, AttendanceFits
  <1>6. readers \in Readers /\ "attendance" \in readers BY DEF Readers
  <1> HIDE DEF c, readers
  <1>7. /\ ClerksFit'
        /\ \A v \in Callers : clerk'[v].op = "generate" => clerk[v].op = "generate"
    BY <1>1, <1>6, EndsFit
  <1>8. Bills!There' = Bills!There BY <1>1 DEF Bills!There
  <1>9. Generated' => Generated BY <1>1, <1>7, <1>8 DEF Generated
  <1>10. regressed' \/ (Generated' => att' \in Bills!Billable)
    BY <1>1, <1>5, <1>9, BillStatuses DEF BillsInv
  <1>11. regressed \in BOOLEAN /\ regressed' \in BOOLEAN BY <1>1, <1>4 DEF BillsInv, LedgerTypes
  <1>12. LedgerTypes' BY <1>1, <1>4, <1>11 DEF BillsInv, LedgerTypes
  <1> QED BY <1>1, <1>7, <1>10, <1>12 DEF BillsInv

LEMMA FindRateKeeps ==
    ASSUME BillsInv, NEW u \in Callers, Bills!FindRate(u)
    PROVE  BillsInv'
  <1> DEFINE c == clerk[u]
             n == [c EXCEPT !.amount = rate]
  <1>1. /\ c.op = "generate"
        /\ clerk' = [clerk EXCEPT ![u] = IF rate = 0 THEN Bills!Idle ELSE n]
        /\ UNCHANGED <<att, rate, bill, settle, calls, regressed>>
    BY DEF Bills!FindRate
  <1>2. c \in GenerateCall BY <1>1 DEF BillsInv, ClerksFit, ClerkFits, ClerkTyped
  <1>3. n \in GenerateCall /\ n.op = "generate" BY <1>2 DEF GenerateCall, BillsInv, LedgerTypes
  <1> HIDE DEF n
  <1>4. ClerkFits(n, u, att, settle)
    BY <1>3 DEF ClerkFits, ClerkTyped, AttendanceFits, UpdateFits, SettlementFits
  <1>5. clerk = [v \in Callers |-> clerk[v]]
        /\ \A v \in Callers : ClerkFits(clerk[v], v, att, settle)
    BY DEF BillsInv, ClerksFit
  <1>6. /\ clerk' = [v \in Callers |-> clerk'[v]]
        /\ \A v \in Callers : clerk'[v] = IF v = u THEN (IF rate = 0 THEN Bills!Idle ELSE n)
                                          ELSE clerk[v]
    BY <1>1, <1>5
  <1>7. \A v \in Callers : ClerkFits(clerk'[v], v, att', settle')
    BY <1>1, <1>4, <1>5, <1>6, IdleFits
  <1>8. ClerksFit' BY <1>6, <1>7 DEF ClerksFit
  <1>9. Bills!There' = Bills!There BY <1>1 DEF Bills!There
  <1>10. Generated' => Generated
    BY <1>1, <1>6, <1>9 DEF Generated, Bills!Idle
  <1>11. LedgerTypes' BY <1>1 DEF BillsInv, LedgerTypes
  <1> QED BY <1>1, <1>8, <1>10, <1>11 DEF BillsInv

(* What is done to the bills by others than generate makes none generated.  *)
LEMMA BillsOnly ==
    ASSUME BillsInv, bill' \in [Bills!Bills -> {Bills!NoBill} \cup OneBill],
           \A b \in Bills!There' : bill'[b].generated =>
                                     Generated \/ (b \in Bills!There /\ bill[b].generated),
           UNCHANGED <<att, rate, settle, regressed>>, calls' \in 0..MaxCalls, ClerksFit',
           \A v \in Callers : clerk'[v].op = "generate" => clerk[v].op = "generate"
    PROVE  BillsInv'
  <1>1. Generated' => Generated BY DEF Generated
  <1>2. LedgerTypes' BY DEF BillsInv, LedgerTypes
  <1> QED BY <1>1, <1>2 DEF BillsInv

LEMMA NewBillKeeps ==
    ASSUME BillsInv, NEW u \in Callers, NEW b \in Bills!Bills, Bills!NewBill(b, u)
    PROVE  BillsInv'
  <1> DEFINE n == [status |-> "toConfirm", amount |-> clerk[u].amount, generated |-> TRUE]
  <1>1. /\ clerk[u].op = "generate" /\ clerk[u].amount # 0 /\ bill' = [bill EXCEPT ![b] = n]
        /\ Bills!Ends(u, {}) /\ UNCHANGED <<att, rate, settle, calls, regressed>>
    BY DEF Bills!NewBill
  <1>2. clerk[u] \in GenerateCall BY <1>1 DEF BillsInv, ClerksFit, ClerkFits, ClerkTyped
  <1>3. clerk[u].amount \in Rates BY <1>1, <1>2 DEF GenerateCall
  <1>4. n \in OneBill BY <1>3, BillStatuses DEF OneBill
  <1> HIDE DEF n
  <1>5. {} \in Readers BY DEF Readers
  <1>6. /\ ClerksFit'
        /\ \A v \in Callers : clerk'[v].op = "generate" => clerk[v].op = "generate"
    BY <1>1, <1>5, EndsFit
  <1>7. Generated BY <1>1 DEF Generated
  <1>8. bill' \in [Bills!Bills -> {Bills!NoBill} \cup OneBill]
    BY <1>1, <1>4 DEF BillsInv, LedgerTypes
  <1> QED BY <1>1, <1>6, <1>7, <1>8, BillsOnly DEF BillsInv

LEMMA ClerksStay == ASSUME BillsInv, UNCHANGED <<att, settle, clerk>> PROVE ClerksFit'
  BY DEF BillsInv, ClerksFit

LEMMA BillFormKeeps ==
    ASSUME BillsInv, NEW b \in Bills!Bills,
           Bills!CreateBill(b) \/ Bills!UpdateBill(b) \/ Bills!ArchiveBill(b)
    PROVE  BillsInv'
  <1>1. /\ calls < MaxCalls /\ calls' = calls + 1
        /\ UNCHANGED <<att, rate, settle, clerk, regressed>>
    BY DEF Bills!CreateBill, Bills!UpdateBill, Bills!ArchiveBill
  <1>2. calls' \in 0..MaxCalls /\ ClerksFit' BY <1>1, CallsCounted, ClerksStay
  <1>3. bill \in [Bills!Bills -> {Bills!NoBill} \cup OneBill] BY DEF BillsInv, LedgerTypes
  <1>4. ASSUME NEW n \in {Bills!NoBill} \cup OneBill, bill' = [bill EXCEPT ![b] = n],
               n # Bills!NoBill /\ n.generated => b \in Bills!There /\ bill[b].generated
        PROVE  BillsInv'
    <2>1. \A k \in Bills!There' : bill'[k].generated => k \in Bills!There /\ bill[k].generated
      BY <1>3, <1>4 DEF Bills!There
    <2>2. bill' \in [Bills!Bills -> {Bills!NoBill} \cup OneBill] BY <1>3, <1>4
    <2> QED BY <1>1, <1>2, <2>1, <2>2, BillsOnly
  <1>5. CASE Bills!CreateBill(b)
    <2>1. PICK st \in Bills!Statuses(Bills!BILL), r \in Rates :
            bill' = [bill EXCEPT ![b] = [status |-> st, amount |-> r, generated |-> FALSE]]
      BY <1>5 DEF Bills!CreateBill
    <2> DEFINE n == [status |-> st, amount |-> r, generated |-> FALSE]
    <2>2. n \in OneBill /\ ~ n.generated BY DEF OneBill
    <2>3. bill' = [bill EXCEPT ![b] = n] BY <2>1
    <2> HIDE DEF n
    <2> QED BY <1>4, <2>2, <2>3
  <1>6. CASE Bills!UpdateBill(b)
    <2>1. PICK st \in Bills!Statuses(Bills!BILL), r \in Rates :
            bill' = [bill EXCEPT ![b].status = st, ![b].amount = r]
      BY <1>6 DEF Bills!UpdateBill
    <2>2. b \in Bills!There /\ bill[b] \in OneBill BY <1>3, <1>6 DEF Bills!UpdateBill, Bills!There
    <2> DEFINE n == [bill[b] EXCEPT !.status = st, !.amount = r]
    <2>3. n \in OneBill /\ n.generated = bill[b].generated BY <2>2 DEF OneBill
    <2>4. bill' = [bill EXCEPT ![b] = n] BY <1>3, <2>1
    <2> HIDE DEF n
    <2> QED BY <1>4, <2>2, <2>3, <2>4
  <1>7. CASE Bills!ArchiveBill(b)
    BY <1>4, <1>7 DEF Bills!ArchiveBill
  <1> QED BY <1>5, <1>6, <1>7

LEMMA MoveBillKeeps ==
    ASSUME BillsInv, NEW u \in Callers, Bills!MoveBill(u)
    PROVE  BillsInv'
  <1> DEFINE c == clerk[u]
             n == [bill[c.id] EXCEPT !.status = c.to]
  <1>1. /\ c.op = "bill" /\ Bills!Ends(u, {})
        /\ bill' = IF c.id \in Bills!There THEN [bill EXCEPT ![c.id] = n] ELSE bill
        /\ UNCHANGED <<att, rate, settle, calls, regressed>>
    BY DEF Bills!MoveBill
  <1>2. c \in BillCall BY <1>1 DEF BillsInv, ClerksFit, ClerkFits, ClerkTyped
  <1>3. c.id \in Bills!Bills /\ c.to \in Bills!Statuses(Bills!BILL) BY <1>2 DEF BillCall
  <1>4. bill \in [Bills!Bills -> {Bills!NoBill} \cup OneBill] BY DEF BillsInv, LedgerTypes
  <1>5. {} \in Readers BY DEF Readers
  <1>6. /\ ClerksFit'
        /\ \A v \in Callers : clerk'[v].op = "generate" => clerk[v].op = "generate"
    BY <1>1, <1>5, EndsFit
  <1>7. c.id \in Bills!There => n \in OneBill /\ n.generated = bill[c.id].generated
    <2> HIDE DEF c
    <2>1. c.id \in Bills!There => bill[c.id] \in OneBill BY <1>4 DEF Bills!There
    <2> QED BY <1>3, <2>1 DEF OneBill
  <1> HIDE DEF c, n
  <1>8. bill' \in [Bills!Bills -> {Bills!NoBill} \cup OneBill] BY <1>1, <1>4, <1>7
  <1>9. \A k \in Bills!There' : bill'[k].generated => k \in Bills!There /\ bill[k].generated
    BY <1>1, <1>3, <1>4, <1>7 DEF Bills!There
  <1> QED BY <1>1, <1>6, <1>8, <1>9, BillsOnly DEF BillsInv

(* What is done to the settlement leaves attendance and bills alone.        *)
LEMMA SettlementOnly ==
    ASSUME BillsInv, UNCHANGED <<att, rate, bill, regressed>>, SettleTyped(settle'),
           calls' \in 0..MaxCalls, ClerksFit',
           \A v \in Callers : clerk'[v].op = "generate" => clerk[v].op = "generate"
    PROVE  BillsInv'
  <1>1. Generated' => Generated BY DEF Generated, Bills!There
  <1>2. LedgerTypes' BY DEF BillsInv, LedgerTypes
  <1> QED BY <1>1, <1>2 DEF BillsInv

LEMMA SettleMade ==
    ASSUME NEW st \in Bills!Statuses(Bills!SETTLEMENT), NEW t, NEW a \in Callers \cup {Nobody}
    PROVE  LET s == [status |-> st, total |-> t, approver |-> a]
           IN  SettleTyped(s) /\ s.status = st /\ s.total = t /\ s.approver = a
  BY DEF SettleTyped

LEMMA SettleFields ==
    ASSUME NEW s, SettleTyped(s), s # Bills!NoSettlement
    PROVE  /\ s = [status |-> s.status, total |-> s.total, approver |-> s.approver]
           /\ s.status \in Bills!Statuses(Bills!SETTLEMENT)
           /\ s.approver \in Callers \cup {Nobody}
  <1>1. PICK t0 : \E st \in Bills!Statuses(Bills!SETTLEMENT), a \in Callers \cup {Nobody} :
                    s = [status |-> st, total |-> t0, approver |-> a]
    BY DEF SettleTyped
  <1>2. PICK st0 \in Bills!Statuses(Bills!SETTLEMENT), a0 \in Callers \cup {Nobody} :
          s = [status |-> st0, total |-> t0, approver |-> a0]
    BY <1>1
  <1> QED BY <1>2

(* What a write of one field leaves of a settlement.                        *)
LEMMA SettleWritten ==
    ASSUME NEW s, SettleTyped(s), s # Bills!NoSettlement,
           NEW t, NEW a \in Callers \cup {Nobody}, NEW st \in Bills!Statuses(Bills!SETTLEMENT)
    PROVE  /\ [s EXCEPT !.total = t] = [status |-> s.status, total |-> t, approver |-> s.approver]
           /\ [s EXCEPT !.approver = a] = [status |-> s.status, total |-> s.total, approver |-> a]
           /\ [s EXCEPT !.status = st, !.approver = a] = [status |-> st, total |-> s.total, approver |-> a]
  <1> DEFINE x == s.status  y == s.total  z == s.approver
  <1>1. s = [status |-> x, total |-> y, approver |-> z] BY SettleFields
  <1> HIDE DEF x, y, z
  <1>2. [s EXCEPT !.total = t] = [status |-> x, total |-> t, approver |-> z] BY <1>1
  <1>3. [s EXCEPT !.approver = a] = [status |-> x, total |-> y, approver |-> a] BY <1>1
  <1>4. [s EXCEPT !.status = st] = [status |-> st, total |-> y, approver |-> z] BY <1>1
  <1>5. [s EXCEPT !.status = st, !.approver = a] = [status |-> st, total |-> y, approver |-> a]
    <2>1. [[status |-> st, total |-> y, approver |-> z] EXCEPT !.approver = a]
            = [status |-> st, total |-> y, approver |-> a]
      OBVIOUS
    <2> QED BY <1>4, <2>1
  <1> QED BY <1>2, <1>3, <1>5 DEF x, y, z

LEMMA NewSettlementKeeps ==
    ASSUME BillsInv, NEW u \in Callers, Bills!NewSettlement(u)
    PROVE  BillsInv'
  <1> DEFINE t == clerk[u].total
  <1>1. /\ settle = Bills!NoSettlement
        /\ settle' = [status |-> "draft", total |-> t, approver |-> Nobody]
        /\ Bills!Ends(u, {}) /\ UNCHANGED <<att, rate, bill, calls, regressed>>
    BY DEF Bills!NewSettlement
  <1> HIDE DEF t
  <1>2. SettleTyped(settle') BY <1>1, BillStatuses DEF SettleTyped
  <1>3. \A c : UpdateFits(c, settle) => UpdateFits(c, settle') BY <1>1 DEF UpdateFits
  <1>4. \A c, v : SettlementFits(c, v, settle) => SettlementFits(c, v, settle')
    BY <1>1 DEF SettlementFits
  <1>5. {} \in Readers BY DEF Readers
  <1>6. /\ ClerksFit'
        /\ \A v \in Callers : clerk'[v].op = "generate" => clerk[v].op = "generate"
    BY <1>1, <1>3, <1>4, <1>5, EndsFit
  <1> QED BY <1>1, <1>2, <1>6, SettlementOnly DEF BillsInv

UpdateReaders(c) == {"settlement"} \cup (IF "status" \in c.fields THEN {"update"} ELSE {})

(* An update writes the fields that its form has, and no others.            *)
LEMMA WriteUpdateIs ==
    ASSUME BillsInv, NEW u \in Callers, Bills!WriteUpdate(u)
    PROVE  /\ clerk[u] \in UpdateCall /\ clerk[u].op = "update"
           /\ Bills!Ends(u, UpdateReaders(clerk[u])) /\ UNCHANGED <<att, rate, bill, calls, regressed>>
           /\ \/ settle = Bills!NoSettlement /\ settle' = settle
              \/ /\ settle # Bills!NoSettlement /\ SettleTyped(settle')
                 /\ settle' # Bills!NoSettlement
                 /\ "status" \in clerk[u].fields \/ settle'.status = settle.status
                 /\ "total" \in clerk[u].fields \/ settle'.total = settle.total
                 /\ "approver" \in clerk[u].fields \/ settle'.approver = settle.approver
  <1> DEFINE fs == clerk[u].fields
             sts == IF "status" \in fs THEN Bills!Statuses(Bills!SETTLEMENT) ELSE {settle.status}
             ts == IF "total" \in fs THEN Rates ELSE {settle.total}
             as == IF "approver" \in fs THEN Callers \cup {Nobody} ELSE {settle.approver}
  <1>1. /\ clerk[u].op = "update"
        /\ Bills!Ends(u, UpdateReaders(clerk[u])) /\ UNCHANGED <<att, rate, bill, calls, regressed>>
        /\ settle' \in IF settle = Bills!NoSettlement THEN {Bills!NoSettlement}
                       ELSE [status : sts, total : ts, approver : as]
    BY DEF Bills!WriteUpdate, UpdateReaders
  <1>2. clerk[u] \in UpdateCall BY <1>1 DEF BillsInv, ClerksFit, ClerkFits, ClerkTyped
  <1>3. ASSUME settle # Bills!NoSettlement
        PROVE  /\ SettleTyped(settle') /\ settle' # Bills!NoSettlement
               /\ settle'.status \in sts /\ settle'.total \in ts /\ settle'.approver \in as
    <2>1. SettleTyped(settle) BY DEF BillsInv, LedgerTypes
    <2>2. settle.status \in Bills!Statuses(Bills!SETTLEMENT) /\ settle.approver \in Callers \cup {Nobody}
      BY <1>3, <2>1, SettleFields
    <2>3. sts \subseteq Bills!Statuses(Bills!SETTLEMENT) /\ as \subseteq Callers \cup {Nobody} BY <2>2
    <2>4. settle' \in [status : sts, total : ts, approver : as] BY <1>1, <1>3
    <2> HIDE DEF sts, ts, as
    <2>5. PICK st \in sts, t \in ts, v \in as : settle' = [status |-> st, total |-> t, approver |-> v]
      BY <2>4
    <2>6. SettleTyped(settle') /\ settle'.status = st /\ settle'.total = t /\ settle'.approver = v
      BY <2>3, <2>5, SettleMade
    <2>7. "absent" \notin Bills!Statuses(Bills!SETTLEMENT) BY BillStatuses
    <2>8. settle' # Bills!NoSettlement BY <2>3, <2>6, <2>7 DEF Bills!NoSettlement
    <2> QED BY <2>6, <2>8
  <1> QED BY <1>1, <1>2, <1>3

LEMMA WriteUpdateKeeps ==
    ASSUME BillsInv, NEW u \in Callers, Bills!WriteUpdate(u)
    PROVE  BillsInv'
  <1> DEFINE readers == UpdateReaders(clerk[u])
  <1>1. /\ Bills!Ends(u, readers) /\ UNCHANGED <<att, rate, bill, calls, regressed>>
        /\ \/ settle' = settle
           \/ /\ settle # Bills!NoSettlement /\ SettleTyped(settle')
              /\ settle' # Bills!NoSettlement
              /\ "status" \in clerk[u].fields \/ settle'.status = settle.status
    BY WriteUpdateIs
  <1>2. "update" \notin readers => \A c : UpdateFits(c, settle) => UpdateFits(c, settle')
    BY <1>1 DEF UpdateFits, UpdateReaders
  <1>3. readers \in Readers /\ "settlement" \in readers BY DEF Readers, UpdateReaders
  <1> HIDE DEF readers
  <1>4. /\ ClerksFit'
        /\ \A v \in Callers : clerk'[v].op = "generate" => clerk[v].op = "generate"
    BY <1>1, <1>2, <1>3, EndsFit
  <1>5. SettleTyped(settle') BY <1>1 DEF BillsInv, LedgerTypes
  <1> QED BY <1>1, <1>4, <1>5, SettlementOnly DEF BillsInv

(* A transition writes its status, and names an approver only when it       *)
(* approves or closes.                                                     *)
LEMMA MoveSettlementIs ==
    ASSUME BillsInv, NEW u \in Callers, Bills!MoveSettlement(u)
    PROVE  /\ clerk[u] \in SettlementCall /\ clerk[u].op = "settlement"
           /\ Bills!Ends(u, {"settlement", "update"})
           /\ UNCHANGED <<att, rate, bill, calls, regressed>>
           /\ \/ settle = Bills!NoSettlement /\ settle' = settle
              \/ /\ settle # Bills!NoSettlement /\ SettleTyped(settle')
                 /\ settle'.status = clerk[u].to /\ settle'.total = settle.total
                 /\ settle'.approver = IF clerk[u].to \in {"approved", "closed"} THEN clerk[u].by
                                       ELSE settle.approver
  <1> DEFINE c == clerk[u]
             a == IF c.to \in {"approved", "closed"} THEN c.by ELSE settle.approver
  <1>1. /\ c.op = "settlement" /\ Bills!Ends(u, {"settlement", "update"})
        /\ UNCHANGED <<att, rate, bill, calls, regressed>>
        /\ settle' = IF settle = Bills!NoSettlement THEN settle
                     ELSE [settle EXCEPT !.status = c.to, !.approver = a]
    BY DEF Bills!MoveSettlement
  <1>2. c \in SettlementCall BY <1>1 DEF BillsInv, ClerksFit, ClerkFits, ClerkTyped
  <1>3. c.to \in Bills!Statuses(Bills!SETTLEMENT) /\ c.by \in Callers \cup {Nobody}
    BY <1>2 DEF SettlementCall
  <1>4. SettleTyped(settle) BY DEF BillsInv, LedgerTypes
  <1>5. settle # Bills!NoSettlement => a \in Callers \cup {Nobody} BY <1>3, <1>4, SettleFields
  <1>6. c = clerk[u] /\ a = IF c.to \in {"approved", "closed"} THEN c.by ELSE settle.approver
    OBVIOUS
  <1> HIDE DEF c, a
  <1>7. settle # Bills!NoSettlement =>
          SettleTyped(settle') /\ settle'.status = c.to /\ settle'.total = settle.total
          /\ settle'.approver = a
    <2>1. settle # Bills!NoSettlement =>
            settle' = [status |-> c.to, total |-> settle.total, approver |-> a]
      BY <1>1, <1>3, <1>4, <1>5, SettleWritten
    <2> QED BY <1>3, <1>5, <2>1, SettleMade
  <1> QED BY <1>1, <1>2, <1>6, <1>7

LEMMA MoveSettlementKeeps ==
    ASSUME BillsInv, NEW u \in Callers, Bills!MoveSettlement(u)
    PROVE  BillsInv'
  <1>1. /\ Bills!Ends(u, {"settlement", "update"}) /\ SettleTyped(settle')
        /\ UNCHANGED <<att, rate, bill, calls, regressed>>
    BY MoveSettlementIs DEF BillsInv, LedgerTypes
  <1>2. {"settlement", "update"} \in Readers BY DEF Readers
  <1>3. /\ ClerksFit'
        /\ \A v \in Callers : clerk'[v].op = "generate" => clerk[v].op = "generate"
    BY <1>1, <1>2, EndsFit
  <1> QED BY <1>1, <1>3, SettlementOnly DEF BillsInv

LEMMA ArchiveSettlementKeeps ==
    ASSUME BillsInv, Bills!ArchiveSettlement
    PROVE  BillsInv'
  <1>1. /\ calls < MaxCalls /\ calls' = calls + 1
        /\ settle # Bills!NoSettlement /\ settle' = Bills!NoSettlement
        /\ clerk' = [u \in Callers |-> IF clerk[u].op \in {"update", "settlement"}
                                       THEN [clerk[u] EXCEPT !.late = TRUE] ELSE clerk[u]]
        /\ UNCHANGED <<att, rate, bill, regressed>>
    BY DEF Bills!ArchiveSettlement
  <1>2. ASSUME NEW v \in Callers
        PROVE  ClerkFits(clerk'[v], v, att, settle') /\ clerk'[v].op = clerk[v].op
    <2> DEFINE c == clerk[v]
    <2>1. ClerkFits(c, v, att, settle) BY DEF BillsInv, ClerksFit
    <2>2. clerk'[v] = IF c.op \in {"update", "settlement"} THEN [c EXCEPT !.late = TRUE] ELSE c
      BY <1>1
    <2>3. c = clerk[v] OBVIOUS
    <2> HIDE DEF c
    <2>4. ClerkTyped(c) BY <2>1 DEF ClerkFits
    <2>5. CASE c.op \in {"update", "settlement"} BY <2>2, <2>3, <2>4, <2>5, LateFits
    <2>6. CASE c.op \notin {"update", "settlement"}
      BY <2>1, <2>2, <2>3, <2>6 DEF ClerkFits, UpdateFits, SettlementFits
    <2> QED BY <2>5, <2>6
  <1>3. clerk' = [v \in Callers |-> clerk'[v]] BY <1>1
  <1>4. ClerksFit' BY <1>1, <1>2, <1>3 DEF ClerksFit
  <1>5. SettleTyped(settle') BY <1>1 DEF SettleTyped
  <1> QED BY <1>1, <1>2, <1>4, <1>5, CallsCounted, SettlementOnly

LEMMA EditPartnershipKeeps ==
    ASSUME BillsInv, Bills!EditPartnership
    PROVE  BillsInv'
  <1>1. /\ calls < MaxCalls /\ calls' = calls + 1 /\ rate' \in Rates \cup {0}
        /\ UNCHANGED <<att, bill, settle, clerk, regressed>>
    BY DEF Bills!EditPartnership
  <1>2. Generated' => Generated BY <1>1 DEF Generated, Bills!There
  <1>3. LedgerTypes' BY <1>1 DEF BillsInv, LedgerTypes
  <1> QED BY <1>1, <1>2, <1>3, CallsCounted, ClerksStay DEF BillsInv

(* The form of the attendance makes moves of it late, and notes when a      *)
(* lesson may not be billed any more.                                      *)
LEMMA FormAttendanceKeeps ==
    ASSUME BillsInv, Bills!FormAttendance
    PROVE  BillsInv'
  <1>1. /\ calls < MaxCalls /\ calls' = calls + 1
        /\ att' \in Bills!Statuses(Bills!ATTENDANCE)
        /\ regressed' = (regressed \/ (att \in Bills!Billable /\ att' \notin Bills!Billable))
        /\ clerk' = [u \in Callers |-> IF clerk[u].op = "attendance"
                                       THEN [clerk[u] EXCEPT !.late = TRUE] ELSE clerk[u]]
        /\ UNCHANGED <<rate, bill, settle>>
    BY DEF Bills!FormAttendance
  <1>2. ASSUME NEW v \in Callers
        PROVE  ClerkFits(clerk'[v], v, att', settle') /\ clerk'[v].op = clerk[v].op
    <2> DEFINE c == clerk[v]
    <2>1. ClerkFits(c, v, att, settle) BY DEF BillsInv, ClerksFit
    <2>2. clerk'[v] = IF c.op = "attendance" THEN [c EXCEPT !.late = TRUE] ELSE c
      BY <1>1
    <2>3. c = clerk[v] OBVIOUS
    <2> HIDE DEF c
    <2>4. ClerkTyped(c) BY <2>1 DEF ClerkFits
    <2>5. CASE c.op = "attendance" BY <2>2, <2>3, <2>4, <2>5, LateFits
    <2>6. CASE c.op # "attendance"
      BY <1>1, <2>1, <2>2, <2>3, <2>6 DEF ClerkFits, AttendanceFits
    <2> QED BY <2>5, <2>6
  <1>3. clerk' = [v \in Callers |-> clerk'[v]] BY <1>1
  <1>4. ClerksFit' BY <1>2, <1>3 DEF ClerksFit
  <1>5. Generated' => Generated BY <1>1, <1>2 DEF Generated, Bills!There
  <1>6. regressed' \/ (Generated' => att' \in Bills!Billable) BY <1>1, <1>5 DEF BillsInv
  <1>7. LedgerTypes' BY <1>1 DEF BillsInv, LedgerTypes
  <1> QED BY <1>1, <1>4, <1>6, <1>7, CallsCounted DEF BillsInv

LEMMA BillsNextKeeps == ASSUME BillsInv, Bills!Next PROVE BillsInv'
  BY AsksKeep, MoveAttendanceKeeps, FindRateKeeps, NewBillKeeps, BillFormKeeps, MoveBillKeeps,
     NewSettlementKeeps, WriteUpdateKeeps, MoveSettlementKeeps, ArchiveSettlementKeeps,
     EditPartnershipKeeps, FormAttendanceKeeps
     DEF Bills!Next

LEMMA BillsStay == ASSUME BillsInv, [Bills!Next]_billVars PROVE BillsInv'
  <1>1. CASE UNCHANGED billVars
    <2>1. /\ UNCHANGED <<att, settle, clerk>> /\ UNCHANGED <<rate, bill, calls, regressed>>
      BY <1>1 DEF billVars
    <2>2. ClerksFit' BY <2>1, ClerksStay
    <2>3. Generated' => Generated BY <2>1 DEF Generated, Bills!There
    <2>4. LedgerTypes' BY <2>1 DEF BillsInv, LedgerTypes
    <2> QED BY <2>1, <2>2, <2>3, <2>4 DEF BillsInv
  <1> QED BY <1>1, BillsNextKeeps

LEMMA BillsSafe == BillsInv => Bills!TypeInv /\ Bills!BilledWhenReviewed
  <1> SUFFICES ASSUME BillsInv PROVE Bills!TypeInv /\ Bills!BilledWhenReviewed OBVIOUS
  <1>1. \A b \in Bills!There : bill[b].status \in Bills!Statuses(Bills!BILL) /\ bill[b].amount \in Rates
    BY BillFields DEF BillsInv, LedgerTypes, Bills!There
  <1>2. settle # Bills!NoSettlement =>
          settle.status \in Bills!Statuses(Bills!SETTLEMENT)
          /\ settle.approver \in Callers \cup {Nobody}
    BY SettleFields DEF BillsInv, LedgerTypes
  <1>3. Bills!TypeInv BY <1>1, <1>2 DEF BillsInv, LedgerTypes, Bills!TypeInv
  <1>4. Bills!BilledWhenReviewed BY DEF BillsInv, Generated, Bills!BilledWhenReviewed
  <1> QED BY <1>3, <1>4

TotalFrozen   == Bills!Kept /\ settle'.total # settle.total =>
                   settle.status = "draft" \/ Bills!Late("update")
StaysClosed   == Bills!Kept /\ settle.status = "closed" /\ settle'.status # "closed" =>
                   Bills!Late("settlement") \/ Bills!Late("update")
ApproverKept  == Bills!Kept /\ settle.approver # Nobody /\ settle'.approver # settle.approver =>
                   \/ Bills!Late("settlement")
                   \/ \E u \in Callers : /\ clerk[u].op = "update" /\ "approver" \in clerk[u].fields
                                         /\ clerk'[u] = Bills!Idle
SettledRight  == TotalFrozen /\ StaysClosed /\ ApproverKept

LEMMA SettlesRight == ASSUME BillsInv, Bills!Next PROVE SettledRight
  <1>1. ASSUME UNCHANGED settle PROVE SettledRight
    BY <1>1 DEF SettledRight, TotalFrozen, StaysClosed, ApproverKept, Bills!Kept
  <1>2. ASSUME settle = Bills!NoSettlement \/ settle' = Bills!NoSettlement PROVE SettledRight
    BY <1>2 DEF SettledRight, TotalFrozen, StaysClosed, ApproverKept, Bills!Kept
  <1>3. ASSUME NEW u \in Callers, Bills!WriteUpdate(u) PROVE SettledRight
    <2>1. /\ clerk[u].op = "update" /\ Bills!Ends(u, UpdateReaders(clerk[u]))
          /\ \/ settle' = settle
             \/ /\ settle # Bills!NoSettlement
                /\ "total" \in clerk[u].fields \/ settle'.total = settle.total
                /\ "approver" \in clerk[u].fields \/ settle'.approver = settle.approver
          /\ clerk[u].late \in BOOLEAN
      BY <1>3, WriteUpdateIs DEF UpdateCall
    <2>2. clerk'[u] = Bills!Idle BY <2>1, EndIs
    <2>3. UpdateFits(clerk[u], settle) BY DEF BillsInv, ClerksFit, ClerkFits
    <2>4. TotalFrozen BY <2>1, <2>2, <2>3 DEF TotalFrozen, UpdateFits, Bills!Late
    <2>5. StaysClosed BY <2>1, <2>2, <2>3 DEF StaysClosed, UpdateFits, Bills!Late
    <2>6. ApproverKept BY <2>1, <2>2 DEF ApproverKept
    <2> QED BY <2>4, <2>5, <2>6 DEF SettledRight
  <1>4. ASSUME NEW u \in Callers, Bills!MoveSettlement(u) PROVE SettledRight
    <2>1. /\ clerk[u].op = "settlement" /\ Bills!Ends(u, {"settlement", "update"})
          /\ \/ settle' = settle
             \/ /\ settle # Bills!NoSettlement
                /\ settle'.status = clerk[u].to /\ settle'.total = settle.total
                /\ settle'.approver = IF clerk[u].to \in {"approved", "closed"} THEN clerk[u].by
                                      ELSE settle.approver
      BY <1>4, MoveSettlementIs
    <2>2. clerk'[u] = Bills!Idle BY <2>1, EndIs
    <2>3. SettlementFits(clerk[u], u, settle) BY DEF BillsInv, ClerksFit, ClerkFits
    <2>4. CASE clerk[u].late
      BY <2>1, <2>2, <2>4 DEF SettledRight, TotalFrozen, StaysClosed, ApproverKept, Bills!Late
    <2>5. CASE ~ clerk[u].late /\ settle' # settle
      <3>1. /\ Bills!Allowed(Bills!SETTLEMENT, settle.status, clerk[u].to)
            /\ clerk[u].by = IF clerk[u].to \in {"approved", "closed"} /\ settle.approver = Nobody
                             THEN u ELSE settle.approver
        BY <2>1, <2>3, <2>5 DEF SettlementFits
      <3>2. settle.status # "closed" BY <3>1, BillStatuses
      <3> QED BY <2>1, <2>5, <3>1, <3>2 DEF SettledRight, TotalFrozen, StaysClosed, ApproverKept
    <2> QED BY <1>1, <2>4, <2>5
  <1>5. ASSUME NEW u \in Callers, Bills!NewSettlement(u) PROVE SettledRight
    BY <1>2, <1>5 DEF Bills!NewSettlement
  <1>6. CASE Bills!ArchiveSettlement BY <1>2, <1>6 DEF Bills!ArchiveSettlement
  <1>7. CASE Bills!EditPartnership \/ Bills!FormAttendance
    BY <1>1, <1>7 DEF Bills!EditPartnership, Bills!FormAttendance
  <1>8. ASSUME NEW b \in Bills!Bills,
               Bills!CreateBill(b) \/ Bills!UpdateBill(b) \/ Bills!ArchiveBill(b)
        PROVE  SettledRight
    BY <1>1, <1>8 DEF Bills!CreateBill, Bills!UpdateBill, Bills!ArchiveBill
  <1>9. ASSUME NEW u \in Callers,
               \/ \E to \in Bills!Statuses(Bills!ATTENDANCE) : Bills!AskAttendance(u, to)
               \/ Bills!MoveAttendance(u) \/ Bills!Generate(u) \/ Bills!FindRate(u)
               \/ \E b \in Bills!Bills : Bills!NewBill(b, u)
               \/ \E b \in Bills!Bills, to \in Bills!Statuses(Bills!BILL) : Bills!AskBill(u, b, to)
               \/ Bills!MoveBill(u) \/ Bills!Aggregate(u)
               \/ \E fs \in SUBSET Bills!FormFields \ {{}} : Bills!AskUpdate(u, fs)
               \/ \E to \in Bills!Statuses(Bills!SETTLEMENT) : Bills!AskSettlement(u, to)
        PROVE  SettledRight
    <2>1. UNCHANGED settle
      BY <1>9 DEF Bills!AskAttendance, Bills!MoveAttendance, Bills!Generate, Bills!FindRate,
                  Bills!NewBill, Bills!AskBill, Bills!MoveBill, Bills!Aggregate, Bills!AskUpdate,
                  Bills!AskSettlement
    <2> QED BY <1>1, <2>1
  <1> QED BY <1>3, <1>4, <1>5, <1>6, <1>7, <1>8, <1>9 DEF Bills!Next

-----------------------------------------------------------------------------
(* Whatever calls overlap: a status goes along its table, whoever began an  *)
(* adjustment does not review it, a bill made from an attendance stands for *)
(* a reviewed one, a submitted total is frozen, a closed settlement stays   *)
(* closed and an approval keeps its name, and a student's day is recorded   *)
(* once, all unless the form wrote a status or a reviewer, or one call      *)
(* overtook another (workflow, attendance, billing, settlement and sign     *)
(* services).                                                               *)
THEOREM LedgersAreKept == TeachingSpec => LedgersKept
  <1>1. TeachingInit => FlowInv /\ BillsInv /\ SignInv
    BY FlowInit, BillsInit, SignInit DEF TeachingInit
  <1>2. [TeachingNext]_allVars =>
          [Flow!Next]_flowVars /\ [Bills!Next]_billVars /\ [Sign!Next]_signVars
    BY DEF TeachingNext, TaskStep, BookStep, FlowStep, BillStep, SignStep, allVars
  <1>3. FlowInv /\ [Flow!Next]_flowVars => FlowInv' BY FlowStays
  <1>4. BillsInv /\ [Bills!Next]_billVars => BillsInv' BY BillsStay
  <1>5. SignInv /\ [Sign!Next]_signVars => SignInv' BY SignStays
  <1>6. TeachingSpec => []FlowInv /\ []BillsInv /\ []SignInv
    BY <1>1, <1>2, <1>3, <1>4, <1>5, PTL DEF TeachingSpec
  <1>7. FlowInv => /\ (active = "flow" => Flow!TypeInv)
                   /\ (Flow!ByTransition => reviewer \notin {initiator, Nobody})
    BY FlowSafe
  <1>8. BillsInv => (active = "bills" => Bills!TypeInv /\ Bills!BilledWhenReviewed) BY BillsSafe
  <1>9. SignInv => (active = "sign" => /\ Sign!TypeInv /\ Sign!RecordedOnceIfFound
                                       /\ Sign!DepartureAfterArrival)
    BY SignSafe
  <1>10. FlowInv /\ [Flow!Next]_flowVars => [MovesByTable]_flowVars /\ [ReviewerStays]_flowVars
    BY FlowSteps
  <1>11. BillsInv /\ [Bills!Next]_billVars =>
           [TotalFrozen]_billVars /\ [StaysClosed]_billVars /\ [ApproverKept]_billVars
    BY SettlesRight DEF SettledRight
  <1>12. TeachingSpec => Flow!FollowsTable /\ Flow!SeparateDuties
    BY <1>2, <1>6, <1>7, <1>10, PTL
       DEF TeachingSpec, Flow!FollowsTable, Flow!SeparateDuties, MovesByTable, ReviewerStays,
           Flow!vars, flowVars
  <1>13. TeachingSpec => Bills!TotalsFrozen /\ Bills!ClosedStays /\ Bills!ApproverStays
    BY <1>2, <1>6, <1>11, PTL
       DEF TeachingSpec, Bills!TotalsFrozen, Bills!ClosedStays, Bills!ApproverStays,
           TotalFrozen, StaysClosed, ApproverKept, Bills!vars, billVars
  <1> QED BY <1>6, <1>7, <1>8, <1>9, <1>12, <1>13, PTL DEF LedgersKept

-----------------------------------------------------------------------------
(* The tasks that start at their times (ScheduledTasks).                   *)
LEMMA TaskConstants == FirstMinute \in MinutesOfDay /\ Horizon \in Nat /\ MaxStops \in Nat
  BY TaskAssumption DEF Tasks!TimesAreNat, MinutesOfDay

LEMMA MinutesAre == \A m \in MinutesOfDay : m \in Nat /\ m \in Int /\ m <= 1439
  BY DEF MinutesOfDay

(* A clock is a day and a minute of it, in one way.                        *)
LEMMA DayAndMinute ==
    \A x \in Nat : /\ Tasks!Day(x) \in Nat /\ Tasks!Minute(x) \in MinutesOfDay
                   /\ x = 1440 * Tasks!Day(x) + Tasks!Minute(x)
                   /\ Tasks!Weekday(x) = Tasks!Day(x) % 7
  BY DEF Tasks!Day, Tasks!Minute, Tasks!Weekday, MinutesOfDay

LEMMA SameDay ==
    ASSUME NEW x \in Nat, NEW y \in Nat
    PROVE  /\ x <= y => Tasks!Day(x) <= Tasks!Day(y)
           /\ 1440 * Tasks!Day(y) <= x /\ x <= y => Tasks!Day(x) = Tasks!Day(y)
           /\ Tasks!Day(x + 1) # Tasks!Day(x) => x + 1 = 1440 * Tasks!Day(x + 1)
  BY DEF Tasks!Day

(* The settings of a job, and its times as the scheduler reads them.       *)
JobOk ==
    /\ job \in [enabled : BOOLEAN, freq : Tasks!Freqs, at : 0..1439, times : Seq(0..1439),
                days : SUBSET (0..6), catchUp : Nat]
    /\ \A i, k \in DOMAIN job.times : i < k => job.times[i] < job.times[k]

DueSlot(m) == Tasks!dueJobSlot(job, m)
Due(m)     == DueSlot(m) # Tasks!NotDue
Opens(i, m) == /\ Tasks!jobRunMinutes(job)[i] <= m
               /\ m <= Tasks!jobRunMinutes(job)[i] + job.catchUp * 60
RunIndices == DOMAIN Tasks!jobRunMinutes(job)

LEMMA JobKinds == JobOk =>
    /\ job.freq \in {"quarter", "hourly", "daily", "several"}
    /\ job.at \in MinutesOfDay /\ job.catchUp \in Nat /\ job.enabled \in BOOLEAN
  BY DEF JobOk, Tasks!Freqs, MinutesOfDay

LEMMA RunTimes ==
    ASSUME JobOk
    PROVE  /\ RunIndices = 1..Len(Tasks!jobRunMinutes(job)) /\ Len(Tasks!jobRunMinutes(job)) \in Nat
           /\ 1 \in RunIndices
           /\ \A i \in RunIndices : Tasks!jobRunMinutes(job)[i] \in MinutesOfDay
           /\ \A i, k \in RunIndices :
                i < k => Tasks!jobRunMinutes(job)[i] < Tasks!jobRunMinutes(job)[k]
           /\ job.freq = "daily" => RunIndices = {1}
  <1>1. CASE job.freq = "several" /\ job.times # <<>>
    <2>1. job.times \in Seq(MinutesOfDay) /\ job.times # <<>> BY <1>1 DEF JobOk, MinutesOfDay
    <2>2. /\ Len(job.times) \in Nat /\ DOMAIN job.times = 1..Len(job.times)
          /\ 1 \in DOMAIN job.times
      BY <2>1
    <2>3. \A i \in DOMAIN job.times : job.times[i] \in MinutesOfDay BY <2>1
    <2>4. Tasks!jobRunMinutes(job) = job.times BY <1>1 DEF Tasks!jobRunMinutes
    <2> QED BY <1>1, <2>2, <2>3, <2>4 DEF RunIndices, JobOk
  <1>2. CASE ~ (job.freq = "several" /\ job.times # <<>>)
    <2>1. Tasks!jobRunMinutes(job) = <<job.at>> BY <1>2 DEF Tasks!jobRunMinutes
    <2> DEFINE s == <<job.at>>
    <2>2. s \in Seq(MinutesOfDay) /\ Len(s) = 1 /\ DOMAIN s = {1} /\ s[1] = job.at
      BY JobKinds
    <2> HIDE DEF s
    <2>3. \A i, k \in {1} : ~ (i < k) OBVIOUS
    <2>4. {1} = 1..1 OBVIOUS
    <2> QED BY JobKinds, <2>1, <2>2, <2>3, <2>4 DEF RunIndices, s
  <1> QED BY <1>1, <1>2

LEMMA LeastIndex ==
    ASSUME NEW T \in SUBSET Nat, T # {}
    PROVE  \E n \in T : \A m \in T : n <= m
  <1> DEFINE R == {ss \in Nat \X Nat : ss[1] < ss[2]}
  <1>1. IsWellFoundedOn(R, Nat) BY NatLessThanWellFounded DEF OpToRel
  <1> HIDE DEF R
  <1>2. PICK n \in T : \A m \in T : ~ (<<m, n>> \in R) BY <1>1, WFMin
  <1>3. \A m \in T : ~ (m < n) BY <1>2 DEF R
  <1> QED BY <1>3

LEMMA FirstOpenIs ==
    ASSUME JobOk, NEW m \in MinutesOfDay
    PROVE  \/ /\ \A i \in RunIndices : ~ Opens(i, m)
              /\ Tasks!FirstOpen(job, m) = Tasks!NotDue
           \/ \E i \in RunIndices : /\ Opens(i, m) /\ \A k \in RunIndices : Opens(k, m) => i <= k
                                    /\ Tasks!FirstOpen(job, m) = i - 1
  <1> DEFINE open == {i \in RunIndices : Opens(i, m)}
  <1>1. open \in SUBSET Nat BY RunTimes
  <1>2. Tasks!FirstOpen(job, m)
          = IF open = {} THEN Tasks!NotDue ELSE (CHOOSE i \in open : \A k \in open : i <= k) - 1
    BY DEF Tasks!FirstOpen, RunIndices, Opens
  <1>3. CASE open = {} BY <1>2, <1>3
  <1>4. CASE open # {}
    <2>1. \E i \in open : \A k \in open : i <= k BY <1>1, <1>4, LeastIndex
    <2> DEFINE i == CHOOSE i \in open : \A k \in open : i <= k
    <2>2. i \in open /\ \A k \in open : i <= k BY <2>1
    <2>3. Tasks!FirstOpen(job, m) = i - 1 BY <1>2, <1>4
    <2> HIDE DEF i
    <2> QED BY <2>2, <2>3
  <1> QED BY <1>3, <1>4

ListJob == job.freq \in {"daily", "several"}

LEMMA DueIs == JobOk => \A m \in MinutesOfDay :
    /\ job.freq = "quarter" => DueSlot(m) = IF m % 15 <= 6 THEN m \div 15 ELSE Tasks!NotDue
    /\ job.freq = "hourly" => DueSlot(m) = IF m >= job.at /\ m % 60 >= job.at % 60
                                           THEN m \div 60 ELSE Tasks!NotDue
    /\ ListJob => DueSlot(m) = Tasks!FirstOpen(job, m)
  BY DEF DueSlot, Tasks!dueJobSlot, ListJob

LEMMA TimesAre == JobOk =>
    /\ job.freq = "quarter" =>
         /\ Tasks!Times = {15 * i : i \in 0..95}
         /\ \A t : Tasks!Until(t) = t + 6
    /\ job.freq = "hourly" =>
         /\ Tasks!Times = {job.at + 60 * i : i \in 0..23} \cap 0..1439
         /\ \A t : Tasks!Until(t) = t + 59 - (t % 60)
    /\ ListJob =>
         /\ Tasks!Times = {Tasks!jobRunMinutes(job)[i] : i \in RunIndices}
         /\ \A t : Tasks!Until(t) = IF t + job.catchUp * 60 > 1439 THEN 1439 ELSE t + job.catchUp * 60
  BY JobKinds DEF Tasks!Times, Tasks!Until, ListJob, RunIndices

LEMMA Hours ==
    /\ \A x \in MinutesOfDay : /\ x \div 60 \in 0..23 /\ x % 60 \in 0..59
                              /\ x = 60 * (x \div 60) + (x % 60)
    /\ \A h \in Nat, r \in 0..59 : LET x == 60 * h + r IN x \div 60 = h /\ x % 60 = r
  BY DEF MinutesOfDay

(* An hourly job runs at the same minute of each hour from its first.      *)
LEMMA HourlyTimes ==
    ASSUME JobOk, job.freq = "hourly"
    PROVE  /\ \A t \in Tasks!Times :
                /\ t \in MinutesOfDay /\ job.at <= t /\ t % 60 = job.at % 60
                /\ Tasks!Until(t) = 60 * (t \div 60) + 59
           /\ \A h \in 0..23 : h >= job.at \div 60 => 60 * h + (job.at % 60) \in Tasks!Times
  <1> DEFINE q == job.at \div 60
             r == job.at % 60
  <1>1. q \in 0..23 /\ r \in 0..59 /\ job.at = 60 * q + r BY JobKinds, Hours
  <1>2. Tasks!Times = {job.at + 60 * i : i \in 0..23} \cap 0..1439
    BY TimesAre
  <1> HIDE DEF q, r
  <1>3. ASSUME NEW t \in Tasks!Times
        PROVE  /\ t \in MinutesOfDay /\ job.at <= t /\ t % 60 = r
               /\ Tasks!Until(t) = 60 * (t \div 60) + 59
    <2>1. PICK i \in 0..23 : t = job.at + 60 * i BY <1>2
    <2>2. t \in MinutesOfDay BY <1>2 DEF MinutesOfDay
    <2> DEFINE h == q + i
    <2>3. h \in Nat /\ t = 60 * h + r BY <1>1, <2>1
    <2> HIDE DEF h
    <2>4. t \div 60 = h /\ t % 60 = r BY <1>1, <2>3, Hours
    <2>5. Tasks!Until(t) = t + 59 - (t % 60) BY TimesAre
    <2>6. job.at <= t BY <1>1, <2>1
    <2> QED BY <1>1, <2>2, <2>3, <2>4, <2>5, <2>6
  <1>4. ASSUME NEW h \in 0..23, h >= q PROVE 60 * h + r \in Tasks!Times
    <2>1. h - q \in 0..23 /\ 60 * h + r = job.at + 60 * (h - q) /\ 60 * h + r \in 0..1439
      BY <1>1, <1>4
    <2> QED BY <1>2, <2>1
  <1> QED BY <1>3, <1>4 DEF q, r

(* A time lies in its day, and so does its window.                         *)
LEMMA WindowsInDay ==
    ASSUME JobOk, NEW t \in Tasks!Times
    PROVE  t \in MinutesOfDay /\ Tasks!Until(t) \in MinutesOfDay /\ t <= Tasks!Until(t)
  <1>1. CASE job.freq = "quarter" BY <1>1, TimesAre DEF MinutesOfDay
  <1>2. CASE job.freq = "hourly"
    <2>1. t \in MinutesOfDay /\ Tasks!Until(t) = 60 * (t \div 60) + 59 BY <1>2, HourlyTimes
    <2>2. t \div 60 \in 0..23 /\ t % 60 \in 0..59 /\ t = 60 * (t \div 60) + (t % 60)
      BY <2>1, Hours
    <2> DEFINE h == t \div 60
               r == t % 60
    <2>3. h \in 0..23 /\ r \in 0..59 /\ t = 60 * h + r /\ Tasks!Until(t) = 60 * h + 59
      BY <2>1, <2>2
    <2> HIDE DEF h, r
    <2> QED BY <2>1, <2>3 DEF MinutesOfDay
  <1>3. CASE ListJob
    <2>1. PICK i \in RunIndices : t = Tasks!jobRunMinutes(job)[i] BY <1>3, TimesAre
    <2>2. t \in MinutesOfDay BY <2>1, RunTimes
    <2>3. job.catchUp * 60 \in Nat BY JobKinds
    <2> DEFINE w == job.catchUp * 60
    <2>4. w \in Nat /\ Tasks!Until(t) = IF t + w > 1439 THEN 1439 ELSE t + w
      BY <1>3, <2>3, TimesAre
    <2> HIDE DEF w
    <2> QED BY <2>2, <2>4 DEF MinutesOfDay
  <1> QED BY <1>1, <1>2, <1>3, JobKinds DEF ListJob

(* What is due lies in the window of one of the times.                     *)
LEMMA DueInWindow ==
    ASSUME JobOk, NEW m \in MinutesOfDay, Due(m)
    PROVE  /\ DueSlot(m) \in Nat
           /\ \E t \in Tasks!Times : t <= m /\ m <= Tasks!Until(t)
  <1>1. CASE job.freq = "quarter"
    <2> DEFINE i == m \div 15
               t == 15 * i
    <2>1. m % 15 <= 6 /\ DueSlot(m) = i BY <1>1, DueIs DEF Due
    <2>2. i \in 0..95 /\ t <= m /\ m <= t + 6 BY <2>1 DEF MinutesOfDay
    <2>3. t \in Tasks!Times /\ Tasks!Until(t) = t + 6 BY <1>1, <2>2, TimesAre
    <2> QED BY <2>1, <2>2, <2>3
  <1>2. CASE job.freq = "hourly"
    <2> DEFINE h == m \div 60
               e == m % 60
               q == job.at \div 60
               r == job.at % 60
               t == 60 * h + r
    <2>1. m >= job.at /\ e >= r /\ DueSlot(m) = h BY <1>2, DueIs DEF Due
    <2>2. /\ h \in 0..23 /\ e \in 0..59 /\ m = 60 * h + e
          /\ q \in 0..23 /\ r \in 0..59 /\ job.at = 60 * q + r
      BY JobKinds, Hours
    <2>3. h >= q => t \in Tasks!Times BY <1>2, <2>2, HourlyTimes
    <2>4. t \in Tasks!Times => Tasks!Until(t) = 60 * (t \div 60) + 59 BY <1>2, HourlyTimes
    <2>5. t \div 60 = h BY <2>2, Hours
    <2> HIDE DEF h, e, q, r
    <2>6. h >= q BY <2>1, <2>2
    <2>7. t <= m /\ m <= 60 * h + 59 BY <2>1, <2>2
    <2> HIDE DEF t
    <2> QED BY <2>1, <2>2, <2>3, <2>4, <2>5, <2>6, <2>7
  <1>3. CASE ListJob
    <2>1. PICK i \in RunIndices : Opens(i, m) /\ DueSlot(m) = i - 1
      BY <1>3, DueIs, FirstOpenIs DEF Due
    <2> DEFINE t == Tasks!jobRunMinutes(job)[i]
    <2>2. t \in Tasks!Times /\ t \in MinutesOfDay BY <1>3, TimesAre, RunTimes
    <2>3. t <= m /\ m <= Tasks!Until(t) BY <1>3, <2>1, TimesAre DEF Opens, MinutesOfDay
    <2>4. i \in Nat /\ i >= 1 BY RunTimes
    <2> QED BY <2>1, <2>2, <2>3, <2>4
  <1> QED BY <1>1, <1>2, <1>3, JobKinds DEF ListJob

(* Where the windows do not meet, the window of a time is what is due in   *)
(* one slot.                                                               *)
LEMMA WindowIsSlot ==
    ASSUME JobOk, Tasks!Spaced, NEW t \in Tasks!Times, NEW m \in MinutesOfDay
    PROVE  /\ Due(t)
           /\ t <= m /\ m <= Tasks!Until(t) => DueSlot(m) = DueSlot(t)
           /\ DueSlot(m) = DueSlot(t) => t <= m /\ m <= Tasks!Until(t)
  <1>0. t \in MinutesOfDay /\ t <= Tasks!Until(t) BY WindowsInDay
  <1>1. CASE job.freq = "quarter"
    <2>1. PICK i \in 0..95 : t = 15 * i BY <1>1, TimesAre
    <2>2. Tasks!Until(t) = t + 6 BY <1>1, TimesAre
    <2>3. t % 15 = 0 /\ t \div 15 = i BY <2>1
    <2>4. DueSlot(t) = i BY <1>0, <1>1, <2>3, DueIs
    <2>5. DueSlot(m) = IF m % 15 <= 6 THEN m \div 15 ELSE -1
      BY <1>1, DueIs DEF Tasks!NotDue
    <2> DEFINE h == m \div 15
               r == m % 15
    <2>6. h \in Nat /\ r \in 0..14 /\ m = 15 * h + r BY DEF MinutesOfDay
    <2>7. DueSlot(m) = IF r <= 6 THEN h ELSE -1 BY <2>5
    <2> HIDE DEF h, r
    <2>8. (t <= m /\ m <= t + 6) => h = i /\ r <= 6 BY <2>1, <2>6
    <2>9. (h = i /\ r <= 6) => t <= m /\ m <= t + 6 BY <2>1, <2>6
    <2>10. i # -1 OBVIOUS
    <2> QED BY <2>2, <2>4, <2>7, <2>8, <2>9, <2>10 DEF Due, Tasks!NotDue
  <1>2. CASE job.freq = "hourly"
    <2> DEFINE h == m \div 60
               e == m % 60
               k == t \div 60
               r == t % 60
    <2>1. job.at <= t /\ r = job.at % 60 /\ Tasks!Until(t) = 60 * k + 59 BY <1>2, HourlyTimes
    <2>2. /\ h \in 0..23 /\ e \in 0..59 /\ m = 60 * h + e
          /\ k \in 0..23 /\ r \in 0..59 /\ t = 60 * k + r
      BY <1>0, Hours
    <2>3. DueSlot(t) = IF t >= job.at /\ r >= job.at % 60 THEN k ELSE -1
      BY <1>0, <1>2, DueIs DEF Tasks!NotDue
    <2>4. DueSlot(m) = IF m >= job.at /\ e >= job.at % 60 THEN h ELSE -1
      BY <1>2, DueIs DEF Tasks!NotDue
    <2>5. job.at \in Int BY JobKinds, MinutesAre
    <2> HIDE DEF h, e, k, r
    <2>6. DueSlot(t) = k BY <2>1, <2>2, <2>3, <2>5
    <2>7. DueSlot(m) = IF m >= job.at /\ e >= r THEN h ELSE -1 BY <2>1, <2>4
    <2>8. ASSUME t <= m, m <= 60 * k + 59 PROVE h = k /\ m >= job.at /\ e >= r
      BY <2>1, <2>2, <2>5, <2>8
    <2>9. ASSUME h = k, m >= job.at, e >= r PROVE t <= m /\ m <= 60 * k + 59
      BY <2>2, <2>9
    <2>10. k # -1 BY <2>2
    <2> QED BY <2>1, <2>6, <2>7, <2>8, <2>9, <2>10 DEF Due, Tasks!NotDue
  <1>3. CASE ListJob
    <2> DEFINE ts == Tasks!jobRunMinutes(job)
               w  == job.catchUp * 60
    <2>1. w \in Nat BY JobKinds
    <2>2. \A i \in RunIndices : ts[i] \in Nat /\ ts[i] <= 1439 /\ i \in Nat
      <3>1. \A i \in RunIndices : i \in Nat BY RunTimes
      <3>2. \A i \in RunIndices : ts[i] \in MinutesOfDay BY RunTimes
      <3> QED BY <3>1, <3>2, MinutesAre
    <2>3. \A u : Tasks!Until(u) = IF u + w > 1439 THEN 1439 ELSE u + w BY <1>3, TimesAre
    <2>4. \A i \in RunIndices : ts[i] \in Tasks!Times BY <1>3, TimesAre
    <2>5. PICK l \in RunIndices : t = ts[l] BY <1>3, TimesAre
    <2>6. \A i, k \in RunIndices : i < k => ts[i] < ts[k] /\ Tasks!Until(ts[i]) < ts[k]
      <3> SUFFICES ASSUME NEW i \in RunIndices, NEW k \in RunIndices, i < k
                   PROVE  ts[i] < ts[k] /\ Tasks!Until(ts[i]) < ts[k]
        OBVIOUS
      <3>1. ts[i] < ts[k] BY RunTimes
      <3>2. CASE job.freq = "several" BY <2>4, <3>1, <3>2 DEF Tasks!Spaced
      <3>3. CASE job.freq = "daily"
        <4>1. i = 1 /\ k = 1 BY <3>3, RunTimes
        <4> QED BY <4>1
      <3> QED BY <1>3, <3>1, <3>2, <3>3 DEF ListJob
    <2>7. \A n \in MinutesOfDay, i \in RunIndices :
            Opens(i, n) <=> ts[i] <= n /\ n <= Tasks!Until(ts[i])
      <3> SUFFICES ASSUME NEW n \in MinutesOfDay, NEW i \in RunIndices
                   PROVE  Opens(i, n) <=> ts[i] <= n /\ n <= Tasks!Until(ts[i])
        OBVIOUS
      <3>1. Opens(i, n) <=> ts[i] <= n /\ n <= ts[i] + w BY DEF Opens
      <3>2. n \in Nat /\ n <= 1439 BY DEF MinutesOfDay
      <3>3. Tasks!Until(ts[i]) = IF ts[i] + w > 1439 THEN 1439 ELSE ts[i] + w BY <2>3
      <3>4. ts[i] \in Nat BY <2>2
      <3> HIDE DEF ts, w
      <3> QED BY <2>1, <3>1, <3>2, <3>3, <3>4
    <2>8. ASSUME NEW n \in MinutesOfDay, ts[l] <= n, n <= Tasks!Until(ts[l])
          PROVE  DueSlot(n) = l - 1
      <3>1. Opens(l, n) BY <2>7, <2>8
      <3>2. PICK i \in RunIndices : /\ Opens(i, n)
                                    /\ \A k \in RunIndices : Opens(k, n) => i <= k
                                    /\ Tasks!FirstOpen(job, n) = i - 1
        BY <3>1, FirstOpenIs
      <3>3. i <= l BY <3>1, <3>2
      <3>4. i < l => Tasks!Until(ts[i]) < ts[l] BY <2>6
      <3>5. n <= Tasks!Until(ts[i]) BY <2>7, <3>2
      <3>6. Tasks!Until(ts[i]) \in Int /\ ts[l] \in Int /\ n \in Int
        BY <2>2, <2>4, WindowsInDay, MinutesAre
      <3>7. i \in Nat /\ l \in Nat BY <2>2
      <3> HIDE DEF ts
      <3>8. ~ (i < l) BY <2>8, <3>4, <3>5, <3>6
      <3>9. i = l BY <3>3, <3>7, <3>8
      <3> QED BY <1>3, <3>2, <3>9, DueIs
    <2>9. DueSlot(t) = l - 1
      <3>1. ts[l] \in MinutesOfDay /\ ts[l] <= ts[l] /\ ts[l] <= Tasks!Until(ts[l])
        BY <1>0, <2>2, <2>5
      <3> QED BY <2>5, <2>8, <3>1
    <2>10. ASSUME DueSlot(m) = l - 1 PROVE Opens(l, m)
      <3>1. l \in Nat /\ l >= 1 BY RunTimes
      <3>2. Tasks!FirstOpen(job, m) = l - 1 /\ l - 1 # Tasks!NotDue
        BY <1>3, <2>10, <3>1, DueIs DEF Tasks!NotDue
      <3>3. PICK i \in RunIndices : Opens(i, m) /\ Tasks!FirstOpen(job, m) = i - 1
        BY <3>2, FirstOpenIs
      <3>4. i = l BY <2>2, <3>1, <3>2, <3>3
      <3> QED BY <3>3, <3>4
    <2>11. l - 1 # Tasks!NotDue BY RunTimes DEF Tasks!NotDue
    <2> QED BY <2>5, <2>7, <2>8, <2>9, <2>10, <2>11 DEF Due
  <1> QED BY <1>1, <1>2, <1>3, JobKinds DEF ListJob

(* What is due at a minute of the clock, and what is remembered of it.     *)
DueAt(x)  == Due(Tasks!Minute(x))
SlotAt(x) == <<job.freq, Tasks!Day(x), DueSlot(Tasks!Minute(x))>>

LEMMA KeyIsSlot ==
    ASSUME JobOk, NEW x \in Nat, DueAt(x)
    PROVE  Tasks!jobSlotKey(job, Tasks!Day(x), Tasks!Minute(x)) = SlotAt(x)
  <1> DEFINE m == Tasks!Minute(x)
             d == Tasks!Day(x)
  <1>1. m \in MinutesOfDay BY DayAndMinute
  <1>2. DueSlot(m) # Tasks!NotDue BY DEF DueAt, Due
  <1>3. SlotAt(x) = <<job.freq, d, DueSlot(m)>> BY DEF SlotAt
  <1> HIDE DEF m, d
  <1>4. CASE job.freq = "quarter"
    <2>1. DueSlot(m) = m \div 15 BY <1>1, <1>2, <1>4, DueIs
    <2> QED BY <1>3, <1>4, <2>1 DEF Tasks!jobSlotKey, m, d
  <1>5. CASE job.freq = "hourly"
    <2>1. DueSlot(m) = m \div 60 BY <1>1, <1>2, <1>5, DueIs
    <2> QED BY <1>3, <1>5, <2>1 DEF Tasks!jobSlotKey, m, d
  <1>6. CASE job.freq = "several"
    BY <1>2, <1>3, <1>6 DEF Tasks!jobSlotKey, DueSlot, m, d
  <1>7. CASE job.freq = "daily"
    <2>1. PICK i \in RunIndices : DueSlot(m) = i - 1
      BY <1>1, <1>2, <1>7, DueIs, FirstOpenIs DEF ListJob
    <2>2. DueSlot(m) = 0 BY <1>7, <2>1, RunTimes
    <2> QED BY <1>3, <1>7, <2>2 DEF Tasks!jobSlotKey, m, d
  <1> QED BY <1>4, <1>5, <1>6, <1>7, JobKinds

(* The times of the job stay, whether it is switched on or off.            *)
SameTimes == /\ job'.freq = job.freq /\ job'.at = job.at /\ job'.times = job.times
             /\ job'.days = job.days /\ job'.catchUp = job.catchUp

LEMMA JobFields ==
    ASSUME NEW F, NEW A, NEW S, NEW D, NEW N,
           NEW j \in [enabled : BOOLEAN, freq : F, at : A, times : S, days : D, catchUp : N],
           NEW on \in BOOLEAN
    PROVE  LET n == [j EXCEPT !.enabled = on] IN
           /\ n \in [enabled : BOOLEAN, freq : F, at : A, times : S, days : D, catchUp : N]
           /\ n.freq = j.freq /\ n.at = j.at /\ n.times = j.times
           /\ n.days = j.days /\ n.catchUp = j.catchUp
  OBVIOUS

(* An edit puts in other settings, and notes the day unless the times stay. *)
LEMMA EditIs ==
    ASSUME JobOk, NEW j \in JobSet, NEW on \in BOOLEAN, Tasks!Edit(j, on)
    PROVE  JobOk' /\ (edited' = Tasks!Day(now) \/ (edited' = edited /\ SameTimes))
  <1> DEFINE A == 0..1439
             S == Seq(0..1439)
             D == SUBSET (0..6)
             JobType == [enabled : BOOLEAN, freq : Tasks!Freqs, at : A, times : S, days : D,
                         catchUp : Nat]
  <1>1. /\ job' = [j EXCEPT !.enabled = on]
        /\ edited' = IF [j EXCEPT !.enabled = job.enabled] = job THEN edited ELSE Tasks!Day(now)
    BY DEF Tasks!Edit
  <1>2. j \in JobType /\ \A i, k \in DOMAIN j.times : i < k => j.times[i] < j.times[k]
    BY TaskAssumption DEF Tasks!JobsAreJobs
  <1>3. job.enabled \in BOOLEAN BY JobKinds
  <1>4. job' \in JobType /\ job'.times = j.times
        /\ job'.freq = j.freq /\ job'.at = j.at /\ job'.days = j.days /\ job'.catchUp = j.catchUp
    <2> HIDE DEF A, S, D
    <2> QED BY <1>1, <1>2, JobFields
  <1>5. JobOk'
    <2>1. \A i, k \in DOMAIN job'.times : i < k => job'.times[i] < job'.times[k] BY <1>2, <1>4
    <2> QED BY <1>4, <2>1 DEF JobOk
  <1>6. [j EXCEPT !.enabled = job.enabled] = job => SameTimes
    <2> DEFINE n == [j EXCEPT !.enabled = job.enabled]
    <2>1. n.freq = j.freq /\ n.at = j.at /\ n.times = j.times /\ n.days = j.days /\ n.catchUp = j.catchUp
      <3> HIDE DEF A, S, D
      <3> QED BY <1>2, <1>3, JobFields
    <2> HIDE DEF n
    <2>2. n = job => SameTimes BY <1>4, <2>1 DEF SameTimes
    <2> QED BY <2>2 DEF n
  <1> QED BY <1>1, <1>5, <1>6

(* While its times stay, so does what is due, and the keys of it.           *)
LEMMA TimesStay ==
    ASSUME SameTimes
    PROVE  /\ Tasks!Times' = Tasks!Times /\ Tasks!Spaced' = Tasks!Spaced
           /\ \A t : Tasks!Until(t)' = Tasks!Until(t)
           /\ \A m : DueSlot(m)' = DueSlot(m)
           /\ \A x : DueAt(x)' = DueAt(x) /\ SlotAt(x)' = SlotAt(x)
  <1>1. /\ job'.freq = job.freq /\ job'.at = job.at /\ job'.times = job.times
        /\ job'.days = job.days /\ job'.catchUp = job.catchUp
    BY DEF SameTimes
  <1>3. Tasks!jobRunMinutes(job)' = Tasks!jobRunMinutes(job)
    BY <1>1 DEF Tasks!jobRunMinutes
  <1>4. Tasks!Times' = Tasks!Times BY <1>1, <1>3 DEF Tasks!Times
  <1>5. \A t : Tasks!Until(t)' = Tasks!Until(t) BY <1>1 DEF Tasks!Until
  <1>6. Tasks!Spaced' = Tasks!Spaced BY <1>1, <1>4, <1>5 DEF Tasks!Spaced
  <1>7. \A m : DueSlot(m)' = DueSlot(m)
    <2>1. \A m : Tasks!FirstOpen(job, m)' = Tasks!FirstOpen(job, m)
      BY <1>1, <1>3 DEF Tasks!FirstOpen
    <2> QED BY <1>1, <2>1 DEF DueSlot, Tasks!dueJobSlot
  <1>8. \A x : DueAt(x)' = DueAt(x) /\ SlotAt(x)' = SlotAt(x)
    BY <1>1, <1>7 DEF DueAt, SlotAt, Due
  <1> QED BY <1>4, <1>5, <1>6, <1>7, <1>8

(* A tick under way has read the clock within the last minute.             *)
TickFits ==
    /\ ~ up => tick = Tasks!None /\ started = {}
    /\ tick # Tasks!None => now <= tick + 1 /\ slotDay = Tasks!Day(tick) /\ lastRun <= tick

(* What is remembered of a day after the last edit was due when it was     *)
(* started, and the last start is remembered for its day.                  *)
RunsFit ==
    /\ \A k \in ran : edited < k[2] => \E r \in Nat : r <= lastRun /\ DueAt(r) /\ k = SlotAt(r)
    /\ started # {} =>
         /\ lastRun # Tasks!None /\ Tasks!Day(lastRun) <= slotDay
         /\ edited < Tasks!Day(lastRun) =>
              DueAt(lastRun) /\ (slotDay = Tasks!Day(lastRun) => SlotAt(lastRun) \in ran)

TaskTypes == Tasks!TypeInv /\ JobOk /\ TickFits /\ RunsFit

LEMMA TaskNumbers ==
    ASSUME Tasks!TypeInv
    PROVE  /\ now \in Nat /\ now >= FirstMinute /\ since \in {0, 1, 2} /\ up \in BOOLEAN
           /\ tick = -1 \/ (tick \in Nat /\ FirstMinute <= tick /\ tick <= now)
           /\ steady \in Nat /\ FirstMinute <= steady /\ steady <= now
           /\ lastRun = -1 \/ (lastRun \in Nat /\ FirstMinute <= lastRun /\ lastRun <= now)
           /\ slotDay = -1 \/ (slotDay \in Nat /\ slotDay <= Tasks!Day(now))
           /\ edited = -1 \/ (edited \in Nat /\ edited <= Tasks!Day(now))
           /\ Tasks!Day(now) \in Nat /\ FirstMinute \in Nat /\ Tasks!LastMinute \in Nat
           /\ stops \in 0..MaxStops
  <1>1. FirstMinute \in Nat /\ Tasks!LastMinute \in Nat
    BY TaskConstants, MinutesAre DEF Tasks!LastMinute
  <1>2. now \in Nat /\ now >= FirstMinute BY <1>1 DEF Tasks!TypeInv
  <1>3. Tasks!Day(now) \in Nat BY <1>2, DayAndMinute
  <1> QED BY <1>1, <1>2, <1>3 DEF Tasks!TypeInv, Tasks!None

LEMMA TasksInit == Tasks!Init => TaskTypes
  <1> SUFFICES ASSUME Tasks!Init PROVE TaskTypes OBVIOUS
  <1> USE DEF Tasks!Init
  <1>1. JobOk BY TaskAssumption DEF Tasks!JobsAreJobs, JobOk
  <1>2. FirstMinute \in Nat /\ Horizon \in Nat /\ MaxStops \in Nat BY TaskConstants, MinutesAre
  <1>3. job.freq \in Tasks!Freqs BY <1>1, JobKinds DEF Tasks!Freqs
  <1>4. FirstMinute \in FirstMinute..Tasks!LastMinute BY <1>2 DEF Tasks!LastMinute
  <1>5. Tasks!TypeInv BY <1>2, <1>3, <1>4 DEF Tasks!TypeInv
  <1>6. TickFits /\ RunsFit BY DEF TickFits, RunsFit
  <1> QED BY <1>1, <1>5, <1>6 DEF TaskTypes

(* A running tick finds the job due and not started in its slot.           *)
Starts == Tasks!shouldRunArchiveJob(job, Tasks!Minute(tick), 
            Tasks!jobSlotKey(job, Tasks!Day(tick), Tasks!Minute(tick)) \in ran, Tasks!Weekday(tick))

LEMMA StartsIs ==
    ASSUME JobOk, tick \in Nat
    PROVE  Starts <=> /\ job.enabled /\ Tasks!jobRunsOnWeekday(job, Tasks!Weekday(tick))
                      /\ DueAt(tick) /\ SlotAt(tick) \notin ran
  <1>1. DueAt(tick) =>
          Tasks!jobSlotKey(job, Tasks!Day(tick), Tasks!Minute(tick)) = SlotAt(tick)
    BY KeyIsSlot
  <1> QED BY <1>1 DEF Starts, Tasks!shouldRunArchiveJob, DueAt, Due, DueSlot

LEMMA CheckIs ==
    ASSUME TaskTypes, Tasks!Check
    PROVE  /\ up /\ tick \in Nat /\ tick' = Tasks!None
           /\ Starts => /\ ran' = ran \cup {SlotAt(tick)}
                        /\ started' = started \cup {SlotAt(tick)} /\ lastRun' = tick
           /\ ~ Starts => ran' = ran /\ started' = started /\ lastRun' = lastRun
           /\ UNCHANGED <<job, now, up, since, slotDay, stops, steady, edited>>
  <1>1. up /\ tick \in Nat BY TaskNumbers DEF TaskTypes, Tasks!Check, Tasks!None
  <1>2. Starts => Tasks!jobSlotKey(job, Tasks!Day(tick), Tasks!Minute(tick)) = SlotAt(tick)
    BY <1>1, StartsIs, KeyIsSlot DEF TaskTypes
  <1>3. LET slot == Tasks!jobSlotKey(job, Tasks!Day(tick), Tasks!Minute(tick)) IN
          IF Starts
          THEN ran' = ran \cup {slot} /\ started' = started \cup {slot} /\ lastRun' = tick
          ELSE UNCHANGED <<ran, started, lastRun>>
    BY DEF Tasks!Check, Starts
  <1> QED BY <1>1, <1>2, <1>3 DEF Tasks!Check

LEMMA StartKeeps == ASSUME TaskTypes, Tasks!Check PROVE TaskTypes'
  <1>1. /\ up /\ tick \in Nat /\ tick' = Tasks!None
        /\ UNCHANGED <<job, now, up, since, slotDay, stops, steady, edited>>
        /\ now \in Nat /\ FirstMinute <= tick /\ tick <= now /\ now <= tick + 1
        /\ slotDay = Tasks!Day(tick) /\ lastRun <= tick /\ Tasks!None = -1
    BY CheckIs, TaskNumbers DEF TaskTypes, TickFits, Tasks!None
  <1>2. JobOk' /\ \A x : DueAt(x)' = DueAt(x) /\ SlotAt(x)' = SlotAt(x)
    BY <1>1, TimesStay DEF TaskTypes, SameTimes, JobOk
  <1>3. CASE ~ Starts
    <2>1. UNCHANGED <<ran, started, lastRun>> BY <1>3, CheckIs
    <2>2. Tasks!TypeInv' BY <1>1, <2>1 DEF TaskTypes, Tasks!TypeInv
    <2>3. TickFits' BY <1>1, <2>1 DEF TaskTypes, TickFits
    <2>4. RunsFit'
      BY <1>1, <1>2, <2>1 DEF TaskTypes, RunsFit
    <2> QED BY <1>2, <2>2, <2>3, <2>4 DEF TaskTypes
  <1>4. CASE Starts
    <2>1. /\ ran' = ran \cup {SlotAt(tick)} /\ started' = started \cup {SlotAt(tick)}
          /\ lastRun' = tick
      BY <1>4, CheckIs
    <2>2. DueAt(tick) /\ DueSlot(Tasks!Minute(tick)) \in Nat /\ Tasks!Day(tick) \in Nat
          /\ Tasks!Day(tick) <= Tasks!Day(now)
      BY <1>1, <1>4, StartsIs, DayAndMinute, DueInWindow, SameDay DEF TaskTypes, DueAt
    <2>3. Tasks!Day(now) \in Nat BY TaskNumbers DEF TaskTypes
    <2>4. SlotAt(tick) \in Tasks!Freqs \X (0..Tasks!Day(now)) \X Nat
      BY <2>2, <2>3 DEF SlotAt, TaskTypes, JobOk
    <2>5. Tasks!TypeInv'
      <3>1. lastRun' \in {Tasks!None} \cup FirstMinute..now
        BY <1>1, <2>1, TaskNumbers DEF TaskTypes
      <3>2. ran' \subseteq started' /\ started' \subseteq Tasks!Freqs \X (0..Tasks!Day(now)) \X Nat
        BY <2>1, <2>4 DEF TaskTypes, Tasks!TypeInv
      <3> QED BY <1>1, <3>1, <3>2 DEF TaskTypes, Tasks!TypeInv
    <2>6. TickFits' BY <1>1 DEF TaskTypes, TickFits
    <2>7. RunsFit'
      <3>1. ASSUME NEW k \in ran', edited' < k[2]
            PROVE  \E r \in Nat : r <= lastRun' /\ DueAt(r)' /\ k = SlotAt(r)'
        <4>1. CASE k = SlotAt(tick) BY <1>1, <1>2, <2>1, <2>2, <4>1
        <4>2. CASE k \in ran
          <5>1. PICK r \in Nat : r <= lastRun /\ DueAt(r) /\ k = SlotAt(r)
            BY <1>1, <3>1, <4>2 DEF TaskTypes, RunsFit
          <5>2. lastRun \in Int BY TaskNumbers DEF TaskTypes
          <5> QED BY <1>1, <1>2, <2>1, <5>1, <5>2
        <4> QED BY <2>1, <3>1, <4>1, <4>2
      <3>2. lastRun' # -1 /\ Tasks!Day(lastRun') = slotDay' /\ Tasks!Day(lastRun') <= slotDay'
        BY <1>1, <2>1, <2>2
      <3>3. DueAt(lastRun)' /\ SlotAt(lastRun)' \in ran'
        BY <1>2, <2>1, <2>2
      <3> QED BY <1>1, <3>1, <3>2, <3>3 DEF RunsFit
    <2> QED BY <1>2, <2>5, <2>6, <2>7 DEF TaskTypes
  <1> QED BY <1>3, <1>4

(* The other steps start nothing; what is remembered stays or goes.        *)
LEMMA QuietKeeps ==
    ASSUME TaskTypes, JobOk', SameTimes, edited' = edited, now' \in {now, now + 1},
           lastRun' = lastRun, Tasks!TypeInv', TickFits',
           \/ UNCHANGED <<started, ran, slotDay>>
           \/ started' = {} /\ ran' = {}
           \/ /\ started' = started /\ slotDay' = Tasks!Day(now)
              /\ ran' = IF slotDay = Tasks!Day(now) THEN ran ELSE {}
    PROVE  TaskTypes'
  <1>1. \A x : DueAt(x)' = DueAt(x) /\ SlotAt(x)' = SlotAt(x)
    BY TimesStay
  <1>2. DueAt(lastRun)' = DueAt(lastRun) /\ SlotAt(lastRun)' = SlotAt(lastRun) BY <1>1
  <1>3. \A k \in ran : edited' < k[2] =>
          \E r \in Nat : r <= lastRun' /\ DueAt(r)' /\ k = SlotAt(r)'
    BY <1>1 DEF TaskTypes, RunsFit
  <1>4. RunsFit'
    <2>1. CASE UNCHANGED <<started, ran, slotDay>>
      BY <1>2, <1>3, <2>1 DEF TaskTypes, RunsFit
    <2>2. CASE started' = {} /\ ran' = {} BY <2>2 DEF RunsFit
    <2>3. CASE /\ started' = started /\ slotDay' = Tasks!Day(now)
               /\ ran' = IF slotDay = Tasks!Day(now) THEN ran ELSE {}
      <3>1. ran' \subseteq ran BY <2>3
      <3>2. ASSUME started # {}
            PROVE  /\ Tasks!Day(lastRun) <= slotDay'
                   /\ edited < Tasks!Day(lastRun) =>
                        (slotDay' = Tasks!Day(lastRun) => SlotAt(lastRun) \in ran')
        <4>1. lastRun \in Nat BY <3>2, TaskNumbers DEF TaskTypes, RunsFit, Tasks!None
        <4>2. Tasks!Day(lastRun) \in Nat /\ Tasks!Day(now) \in Nat
              /\ (slotDay = -1 \/ (slotDay \in Nat /\ slotDay <= Tasks!Day(now)))
          BY <4>1, DayAndMinute, TaskNumbers DEF TaskTypes
        <4>3. /\ Tasks!Day(lastRun) <= slotDay
              /\ edited < Tasks!Day(lastRun) =>
                   (slotDay = Tasks!Day(lastRun) => SlotAt(lastRun) \in ran)
          BY <3>2 DEF TaskTypes, RunsFit
        <4> QED BY <2>3, <4>2, <4>3
      <3> QED BY <1>2, <1>3, <2>3, <3>1, <3>2 DEF TaskTypes, RunsFit
    <2> QED BY <2>1, <2>2, <2>3
  <1> QED BY <1>4 DEF TaskTypes

(* After an edit of the times nothing is known of the keys of that day.     *)
LEMMA EditKeepsRuns ==
    ASSUME TaskTypes, edited' = Tasks!Day(now), UNCHANGED <<ran, started, slotDay, lastRun>>
    PROVE  RunsFit'
  <1>1. Tasks!Day(now) \in Nat /\ now \in Nat BY TaskNumbers DEF TaskTypes
  <1>2. \A k \in ran : k[2] \in 0..Tasks!Day(now)
    <2>1. ran \subseteq Tasks!Freqs \X (0..Tasks!Day(now)) \X Nat BY DEF TaskTypes, Tasks!TypeInv
    <2> QED BY <2>1
  <1>3. \A k \in ran : ~ (edited' < k[2]) BY <1>1, <1>2
  <1>4. started # {} => ~ (edited' < Tasks!Day(lastRun))
    <2>1. started # {} => lastRun \in Nat /\ lastRun <= now
      BY TaskNumbers DEF TaskTypes, RunsFit, Tasks!None
    <2>2. started # {} => Tasks!Day(lastRun) \in Nat /\ Tasks!Day(lastRun) <= Tasks!Day(now)
      BY <1>1, <2>1, SameDay, DayAndMinute
    <2> QED BY <1>1, <2>2
  <1> QED BY <1>3, <1>4 DEF TaskTypes, RunsFit

LEMMA TaskTypesKept == ASSUME TaskTypes, Tasks!Next PROVE TaskTypes'
  <1> USE DEF Tasks!process
  <1>0. /\ now \in Nat /\ Tasks!Day(now) \in Nat /\ now \in FirstMinute..Tasks!LastMinute
        /\ Tasks!LastMinute \in Nat /\ FirstMinute \in Nat
        /\ (tick = -1 \/ (tick \in Nat /\ tick <= now)) /\ Tasks!None = -1
        /\ slotDay = -1 \/ (slotDay \in Nat /\ slotDay <= Tasks!Day(now))
        /\ edited = -1 \/ (edited \in Nat /\ edited <= Tasks!Day(now))
        /\ lastRun \in Int /\ lastRun <= now /\ MaxStops \in Nat
    BY TaskNumbers, TaskConstants DEF TaskTypes, Tasks!TypeInv, Tasks!None
  <1>00. UNCHANGED job => JobOk' /\ SameTimes BY DEF SameTimes, TaskTypes, JobOk
  <1>1. CASE Tasks!PassMinute
    <2>1. Tasks!Day(now) <= Tasks!Day(now + 1) /\ Tasks!Day(now + 1) \in Nat
      BY <1>0, SameDay, DayAndMinute
    <2>2. now' \in FirstMinute..Tasks!LastMinute /\ now' = now + 1
      BY <1>0, <1>1 DEF Tasks!PassMinute
    <2>3. since' \in 0..2 BY <1>1, TaskNumbers DEF TaskTypes, Tasks!PassMinute
    <2>4. Tasks!Freqs \X (0..Tasks!Day(now)) \X Nat
            \subseteq Tasks!Freqs \X (0..Tasks!Day(now + 1)) \X Nat
      BY <1>0, <2>1
    <2>5. started' \subseteq Tasks!Freqs \X (0..Tasks!Day(now')) \X Nat
      BY <1>1, <2>2, <2>4 DEF TaskTypes, Tasks!TypeInv, Tasks!PassMinute
    <2>6. /\ {slotDay', edited'} \subseteq {Tasks!None} \cup 0..Tasks!Day(now')
          /\ tick' \in {Tasks!None} \cup FirstMinute..now'
          /\ steady' \in FirstMinute..now' /\ lastRun' \in {Tasks!None} \cup FirstMinute..now'
      BY <1>0, <1>1, <2>1, <2>2 DEF TaskTypes, Tasks!TypeInv, Tasks!PassMinute
    <2>7. Tasks!TypeInv'
      BY <1>1, <2>2, <2>3, <2>5, <2>6 DEF TaskTypes, Tasks!TypeInv, Tasks!PassMinute
    <2>8. TickFits'
      BY <1>0, <1>1, <2>2 DEF TaskTypes, TickFits, Tasks!PassMinute
    <2> QED BY <1>00, <1>1, <2>2, <2>7, <2>8, QuietKeeps DEF Tasks!PassMinute
  <1>2. CASE Tasks!Fire
    <2>1. Tasks!TypeInv'
      BY <1>0, <1>2 DEF TaskTypes, Tasks!TypeInv, Tasks!Fire
    <2>2. TickFits' BY <1>0, <1>2 DEF TaskTypes, TickFits, Tasks!Fire
    <2> QED BY <1>00, <1>2, <2>1, <2>2, QuietKeeps DEF Tasks!Fire
  <1>3. CASE Tasks!FireInVain
    <2>1. Tasks!TypeInv' BY <1>3 DEF TaskTypes, Tasks!TypeInv, Tasks!FireInVain
    <2>2. TickFits' BY <1>3 DEF TaskTypes, TickFits, Tasks!FireInVain
    <2> QED BY <1>00, <1>3, <2>1, <2>2, QuietKeeps DEF Tasks!FireInVain
  <1>4. CASE Tasks!Check BY <1>4, StartKeeps
  <1>5. CASE Tasks!CheckFails
    <2>1. Tasks!TypeInv'
      BY <1>0, <1>5 DEF TaskTypes, Tasks!TypeInv, Tasks!CheckFails, Tasks!Disturbed
    <2>2. TickFits' BY <1>5 DEF TaskTypes, TickFits, Tasks!CheckFails
    <2> QED BY <1>00, <1>5, <2>1, <2>2, QuietKeeps DEF Tasks!CheckFails
  <1>6. CASE Tasks!Stop
    <2>1. Tasks!TypeInv'
      <3>1. stops' \in 0..MaxStops /\ steady' \in FirstMinute..now' /\ since' \in 0..2
        BY <1>0, <1>6 DEF TaskTypes, Tasks!TypeInv, Tasks!Stop, Tasks!Disturbed
      <3> QED BY <1>6, <3>1 DEF TaskTypes, Tasks!TypeInv, Tasks!Stop
    <2>2. TickFits' BY <1>6 DEF TickFits, Tasks!Stop
    <2> QED BY <1>00, <1>6, <2>1, <2>2, QuietKeeps DEF Tasks!Stop
  <1>7. CASE Tasks!Boot
    <2>1. Tasks!TypeInv' BY <1>0, <1>7 DEF TaskTypes, Tasks!TypeInv, Tasks!Boot
    <2>2. TickFits' BY <1>7 DEF TaskTypes, TickFits, Tasks!Boot
    <2> QED BY <1>00, <1>7, <2>1, <2>2, QuietKeeps DEF Tasks!Boot
  <1>8. ASSUME NEW j \in JobSet, NEW on \in BOOLEAN, Tasks!Edit(j, on) PROVE TaskTypes'
    <2>1. JobOk' /\ (edited' = Tasks!Day(now) \/ (edited' = edited /\ SameTimes))
      BY <1>8, EditIs DEF TaskTypes
    <2>2. job'.freq \in Tasks!Freqs
      <3>1. (JobOk => job.freq \in Tasks!Freqs)' BY DEF JobOk
      <3> QED BY <2>1, <3>1
    <2>3. Tasks!TypeInv'
      BY <1>0, <1>8, <2>1, <2>2 DEF TaskTypes, Tasks!TypeInv, Tasks!Edit, Tasks!Disturbed
    <2>4. TickFits' BY <1>8 DEF TaskTypes, TickFits, Tasks!Edit
    <2>5. UNCHANGED <<now, ran, started, slotDay, lastRun>> BY <1>8 DEF Tasks!Edit
    <2>6. CASE edited' = Tasks!Day(now)
      BY <2>1, <2>3, <2>4, <2>5, <2>6, EditKeepsRuns DEF TaskTypes
    <2>7. CASE edited' = edited /\ SameTimes BY <2>1, <2>3, <2>4, <2>5, <2>7, QuietKeeps
    <2> QED BY <2>1, <2>6, <2>7
  <1> QED BY <1>1, <1>2, <1>3, <1>4, <1>5, <1>6, <1>7, <1>8 DEF Tasks!Next

(* A time of today from which on the job is owed a run, since it is on and *)
(* nothing has disturbed the process: the timer is due at once, or a tick  *)
(* has just begun.                                                         *)
At(t)   == 1440 * Tasks!Day(now) + t
From(t) == IF At(t) >= steady THEN At(t) ELSE steady
Owed(t) == /\ up /\ job.enabled /\ Tasks!jobRunsOnWeekday(job, Tasks!Weekday(now))
           /\ lastRun < At(t)
           /\ From(t) <= now /\ From(t) + 4 <= 1440 * Tasks!Day(now) + Tasks!Until(t)
InTime(t) == IF tick = Tasks!None THEN now - since <= From(t) ELSE tick <= From(t) + 2
OnTime == Tasks!Spaced /\ edited < Tasks!Day(now) =>
            \A t \in Tasks!Times : Owed(t) => InTime(t)

TasksInv == TaskTypes /\ OnTime

LEMMA FromIs ==
    ASSUME Tasks!TypeInv, NEW t \in MinutesOfDay
    PROVE  /\ At(t) \in Nat /\ From(t) \in Nat /\ From(t) >= steady /\ From(t) >= At(t)
           /\ 1440 * Tasks!Day(now) <= At(t)
  BY TaskNumbers, MinutesAre DEF At, From

LEMMA JustOpened ==
    \A t \in MinutesOfDay : Tasks!TypeInv /\ now <= From(t) => InTime(t)
  <1> SUFFICES ASSUME NEW t \in MinutesOfDay, Tasks!TypeInv, now <= From(t) PROVE InTime(t)
    OBVIOUS
  <1> QED BY TaskNumbers, FromIs DEF InTime, Tasks!None

LEMMA Opened == (\A t \in MinutesOfDay : Tasks!TypeInv /\ now <= From(t) => InTime(t))'
  BY JustOpened, PTL

(* What a tick leaves alone in the window of a time has run before.        *)
LEMMA NotStarted ==
    ASSUME TaskTypes, Tasks!Spaced, edited < Tasks!Day(now), NEW t \in Tasks!Times,
           tick \in Nat, ~ Starts,
           job.enabled, Tasks!jobRunsOnWeekday(job, Tasks!Weekday(now)),
           At(t) <= tick, tick <= now, tick <= 1440 * Tasks!Day(now) + Tasks!Until(t)
    PROVE  At(t) <= lastRun
  <1> DEFINE d == Tasks!Day(now)
             m == Tasks!Minute(tick)
  <1>1. /\ t \in MinutesOfDay /\ t \in Nat /\ Tasks!Until(t) \in Nat /\ now \in Nat /\ d \in Nat
        /\ lastRun \in Int
    BY WindowsInDay, MinutesAre, TaskNumbers DEF TaskTypes
  <1>2. Tasks!Day(tick) = d BY <1>1, SameDay DEF At
  <1>3. m \in MinutesOfDay /\ m \in Nat /\ tick = 1440 * d + m BY <1>2, DayAndMinute, MinutesAre
  <1>4. Tasks!Weekday(tick) = Tasks!Weekday(now) BY <1>1, <1>2, DayAndMinute
  <1>5. At(t) = 1440 * d + t BY DEF At
  <1> HIDE DEF m, d
  <1>6. t <= m /\ m <= Tasks!Until(t) BY <1>1, <1>3, <1>5 DEF d
  <1>7. Due(t) /\ DueSlot(m) = DueSlot(t) BY <1>3, <1>6, WindowIsSlot DEF TaskTypes
  <1>8. DueAt(tick) /\ SlotAt(tick) = <<job.freq, d, DueSlot(t)>>
    BY <1>2, <1>7 DEF DueAt, SlotAt, Due, m
  <1>9. SlotAt(tick) \in ran BY <1>4, <1>8, StartsIs DEF TaskTypes
  <1>10. PICK r \in Nat : r <= lastRun /\ DueAt(r) /\ SlotAt(r) = <<job.freq, d, DueSlot(t)>>
    BY <1>8, <1>9 DEF TaskTypes, RunsFit, d
  <1>11. Tasks!Day(r) = d /\ DueSlot(Tasks!Minute(r)) = DueSlot(t) BY <1>10 DEF SlotAt
  <1>12. Tasks!Minute(r) \in MinutesOfDay /\ r = 1440 * d + Tasks!Minute(r)
    BY <1>11, DayAndMinute
  <1>13. t <= Tasks!Minute(r) BY <1>11, <1>12, WindowIsSlot DEF TaskTypes
  <1>14. Tasks!Minute(r) \in Nat BY <1>12, MinutesAre
  <1> QED BY <1>1, <1>5, <1>10, <1>12, <1>13, <1>14

LEMMA TimesInDay == JobOk => \A t \in Tasks!Times : t \in MinutesOfDay
  BY WindowsInDay

LEMMA TimesInDayAfter == (JobOk => \A t \in Tasks!Times : t \in MinutesOfDay)'
  BY TimesInDay, PTL

LEMMA OnTimeKept == ASSUME TasksInv, TaskTypes', Tasks!Next PROVE OnTime'
  <1> SUFFICES ASSUME Tasks!Spaced', edited' < Tasks!Day(now'), NEW t \in Tasks!Times', Owed(t)',
                      ~ (now' <= From(t)')
               PROVE  InTime(t)'
    <2>1. \A t \in Tasks!Times' : t \in MinutesOfDay BY TimesInDayAfter DEF TaskTypes
    <2>2. \A t \in Tasks!Times' : now' <= From(t)' => InTime(t)'
      BY <2>1, Opened DEF TaskTypes
    <2> QED BY <2>2 DEF OnTime
  <1> USE DEF Tasks!process
  <1> DEFINE d == Tasks!Day(now)
             e == Tasks!Day(now')
  <1>1. JobOk BY DEF TasksInv, TaskTypes
  <1>3. t \in MinutesOfDay /\ t \in Nat BY TimesInDayAfter, MinutesAre DEF TaskTypes
  <1>4. /\ now \in Nat /\ d \in Nat /\ since \in {0, 1, 2} /\ steady \in Nat /\ Tasks!None = -1
        /\ (tick = -1 \/ (tick \in Nat /\ tick <= now))
        /\ lastRun \in Int
    BY TaskNumbers DEF TasksInv, TaskTypes, Tasks!None
  <1>5. now' \in {now, now + 1} /\ steady' \in {now, steady} /\ now' \in Nat /\ e \in Nat
    <2>1. now' \in {now, now + 1} /\ steady' \in {now, steady}
      BY DEF Tasks!Next, Tasks!PassMinute, Tasks!Fire, Tasks!FireInVain, Tasks!Check,
             Tasks!CheckFails, Tasks!Stop, Tasks!Boot, Tasks!Edit, Tasks!Disturbed
    <2> QED BY <1>4, <2>1, DayAndMinute
  <1>6. At(t) = 1440 * d + t /\ At(t)' = 1440 * e + t BY DEF At
  <1>7. /\ From(t) = IF At(t) >= steady THEN At(t) ELSE steady
        /\ From(t)' = IF At(t)' >= steady' THEN At(t)' ELSE steady'
    BY DEF From
  <1>8. From(t)' < now' /\ steady' < now' /\ 1440 * e <= now' - 1
    BY <1>3, <1>4, <1>5, <1>6, <1>7
  <1>9. e = d
    <2>1. CASE now' = now BY <2>1
    <2>2. CASE now' = now + 1
      <3>1. 1440 * e <= now BY <1>4, <1>5, <1>8, <2>2
      <3> QED BY <1>4, <2>2, <3>1, SameDay
    <2> QED BY <1>5, <2>1, <2>2
  <1>10. /\ ~ Tasks!CheckFails /\ ~ Tasks!Stop /\ ~ Tasks!Boot
         /\ \A j \in JobSet, on \in BOOLEAN : ~ Tasks!Edit(j, on)
    BY <1>4, <1>8
       DEF Tasks!CheckFails, Tasks!Stop, Tasks!Boot, Tasks!Edit, Tasks!Disturbed
  <1>11. Tasks!PassMinute \/ Tasks!Fire \/ Tasks!FireInVain \/ Tasks!Check
    BY <1>10 DEF Tasks!Next
  <1>12. UNCHANGED <<job, steady, edited, up>>
    BY <1>11 DEF Tasks!PassMinute, Tasks!Fire, Tasks!FireInVain, Tasks!Check
  <1>2. /\ Tasks!Spaced /\ edited < d /\ t \in Tasks!Times /\ Tasks!Until(t)' = Tasks!Until(t)
    BY <1>9, <1>12, TimesStay DEF SameTimes
  <1>13. At(t)' = At(t) /\ From(t)' = From(t) BY <1>6, <1>7, <1>9, <1>12
  <1>14. Tasks!Weekday(now') = Tasks!Weekday(now) BY <1>4, <1>5, <1>9, DayAndMinute
  <1>15. /\ up /\ job.enabled /\ Tasks!jobRunsOnWeekday(job, Tasks!Weekday(now))
         /\ lastRun' < At(t) /\ From(t) + 4 <= 1440 * d + Tasks!Until(t)
    BY <1>2, <1>9, <1>12, <1>13, <1>14 DEF Owed, Tasks!jobRunsOnWeekday
  <1>16. From(t) < now' /\ From(t) \in Nat /\ At(t) \in Nat /\ From(t) >= At(t)
    BY <1>3, <1>4, <1>6, <1>7, <1>8, <1>13
  <1> HIDE DEF d, e
  <1>17. lastRun < At(t) /\ From(t) <= now => InTime(t)
    BY <1>2, <1>15 DEF TasksInv, OnTime, Owed, d
  <1>18. InTime(t) <=> IF tick = -1 THEN now - since <= From(t) ELSE tick <= From(t) + 2
    BY <1>4 DEF InTime
  <1>19. InTime(t)' <=> IF tick' = -1 THEN now' - since' <= From(t) ELSE tick' <= From(t) + 2
    BY <1>4, <1>13 DEF InTime
  <1>20. CASE Tasks!PassMinute
    <2>1. up /\ since' = since + 1 /\ now' = now + 1 /\ tick' = tick /\ lastRun' = lastRun
      BY <1>15, <1>20 DEF Tasks!PassMinute
    <2>2. From(t) <= now BY <1>4, <1>16, <2>1
    <2>3. InTime(t) BY <1>15, <1>17, <2>1, <2>2
    <2> QED BY <1>4, <1>16, <1>18, <1>19, <2>1, <2>3
  <1>21. CASE Tasks!Fire
    <2>1. now' = now /\ tick = -1 /\ tick' = now /\ lastRun' = lastRun BY <1>4, <1>21 DEF Tasks!Fire
    <2>2. InTime(t) BY <1>4, <1>15, <1>16, <1>17, <2>1
    <2> QED BY <1>4, <1>16, <1>18, <1>19, <2>1, <2>2
  <1>22. CASE Tasks!FireInVain
    <2>1. now' = now /\ tick # -1 /\ tick' = tick /\ lastRun' = lastRun
      BY <1>4, <1>22 DEF Tasks!FireInVain
    <2>2. InTime(t) BY <1>4, <1>15, <1>16, <1>17, <2>1
    <2> QED BY <1>18, <1>19, <2>1, <2>2
  <1>23. CASE Tasks!Check
    <2>1. /\ tick \in Nat /\ tick <= now /\ now <= tick + 1 /\ tick' = -1 /\ now' = now /\ since' = since
          /\ lastRun <= tick
      BY <1>4, <1>23, CheckIs DEF TasksInv, TaskTypes, TickFits
    <2>2. CASE tick < From(t) BY <1>4, <1>16, <1>19, <2>1, <2>2
    <2>3. CASE ~ (tick < From(t))
      <3>1. At(t) <= tick BY <1>16, <2>1, <2>3
      <3>2. ~ Starts
        <4>1. Starts => lastRun' = tick BY <1>23, CheckIs DEF TasksInv
        <4> QED BY <1>15, <1>16, <2>1, <3>1, <4>1
      <3>3. lastRun' = lastRun BY <1>23, <3>2, CheckIs DEF TasksInv
      <3>4. InTime(t) BY <1>4, <1>15, <1>16, <1>17, <2>1, <3>3
      <3>5. Tasks!Until(t) \in Nat BY <1>1, <1>2, WindowsInDay, MinutesAre
      <3>6. d \in Nat BY <1>4
      <3>7. tick <= From(t) + 2 BY <1>18, <2>1, <3>4
      <3>8. tick <= 1440 * d + Tasks!Until(t) BY <1>15, <1>16, <2>1, <3>5, <3>6, <3>7
      <3>9. At(t) <= lastRun
        BY <1>2, <1>15, <2>1, <3>1, <3>2, <3>8, NotStarted DEF TasksInv, d
      <3> QED BY <1>4, <1>15, <1>16, <3>3, <3>9
    <2> QED BY <2>2, <2>3
  <1> QED BY <1>11, <1>20, <1>21, <1>22, <1>23

LEMMA TasksBegin == Tasks!Init => TasksInv
  <1> SUFFICES ASSUME Tasks!Init PROVE TasksInv OBVIOUS
  <1>1. TaskTypes BY TasksInit
  <1>2. \A t \in Tasks!Times : t \in MinutesOfDay /\ From(t) >= steady
    BY <1>1, WindowsInDay, FromIs DEF TaskTypes
  <1>3. \A t \in Tasks!Times : now <= From(t) BY <1>2 DEF Tasks!Init
  <1>4. OnTime BY <1>1, <1>2, <1>3, JustOpened DEF OnTime, TaskTypes
  <1> QED BY <1>1, <1>4 DEF TasksInv

LEMMA TasksKeep == ASSUME TasksInv, [Tasks!Next]_(Tasks!vars) PROVE TasksInv'
  <1>1. CASE Tasks!Next BY <1>1, TaskTypesKept, OnTimeKept DEF TasksInv
  <1>2. CASE UNCHANGED Tasks!vars
    <2> USE DEF Tasks!process
    <2>1. UNCHANGED <<job, now, up, since, tick, ran, slotDay, started, stops, steady, edited, lastRun>>
      BY <1>2 DEF Tasks!vars
    <2>2. JobOk' /\ SameTimes BY <2>1 DEF TasksInv, TaskTypes, JobOk, SameTimes
    <2>3. Tasks!TypeInv' BY <2>1 DEF TasksInv, TaskTypes, Tasks!TypeInv
    <2>4. TickFits' BY <2>1 DEF TasksInv, TaskTypes, TickFits
    <2>5. TaskTypes' BY <2>1, <2>2, <2>3, <2>4, QuietKeeps DEF TasksInv
    <2>6. /\ Tasks!Times' = Tasks!Times /\ Tasks!Spaced' = Tasks!Spaced
          /\ \A t : Tasks!Until(t)' = Tasks!Until(t)
      BY <2>1, <2>2, TimesStay
    <2>7. \A t : Owed(t)' = Owed(t) /\ InTime(t)' = InTime(t)
      BY <2>1, <2>6 DEF Owed, InTime, From, At, Tasks!jobRunsOnWeekday
    <2>8. OnTime' BY <2>1, <2>6, <2>7 DEF TasksInv, OnTime
    <2> QED BY <2>5, <2>8 DEF TasksInv
  <1> QED BY <1>1, <1>2

(* A tick is done three minutes after it was due at the latest.            *)
LEMMA NoneMissed == TasksInv => Tasks!NoTimeMissed
  <1> SUFFICES ASSUME TasksInv, Tasks!Spaced, edited # Tasks!Day(now), NEW t \in Tasks!Times,
                      Tasks!Missed(t)
               PROVE  FALSE
    BY DEF TasksInv, TaskTypes, Tasks!NoTimeMissed, Tasks!SpacedTimesRun, Tasks!EveryTimeRuns
  <1>0. edited < Tasks!Day(now) BY TaskNumbers DEF TasksInv, TaskTypes
  <1>1. t \in MinutesOfDay BY WindowsInDay DEF TasksInv, TaskTypes
  <1>2. /\ now \in Nat /\ since \in {0, 1, 2} /\ (tick = -1 \/ (tick \in Nat /\ now <= tick + 1))
        /\ From(t) \in Nat /\ Tasks!None = -1
    BY <1>1, FromIs, TaskNumbers DEF TasksInv, TaskTypes, TickFits, Tasks!None
  <1>3. /\ From(t) + 4 <= now /\ up /\ job.enabled
        /\ Tasks!jobRunsOnWeekday(job, Tasks!Weekday(now)) /\ lastRun < At(t)
        /\ From(t) + 4 <= 1440 * Tasks!Day(now) + Tasks!Until(t)
    BY DEF Tasks!Missed, Tasks!Grace, From, At
  <1>4. From(t) <= now BY <1>2, <1>3
  <1>5. InTime(t) BY <1>0, <1>3, <1>4 DEF TasksInv, OnTime, Owed
  <1> QED BY <1>2, <1>3, <1>5 DEF InTime

InWindow ==
    lastRun' # lastRun =>
      /\ job.enabled /\ Tasks!jobRunsOnWeekday(job, Tasks!Weekday(lastRun'))
      /\ \E t \in Tasks!Times : t <= Tasks!Minute(lastRun') /\ Tasks!Minute(lastRun') <= Tasks!Until(t)
OneForEach ==
    Tasks!Spaced /\ edited < Tasks!Day(lastRun') /\ lastRun' # lastRun /\ started # {} =>
      \E t \in Tasks!Times : LET at == 1440 * Tasks!Day(lastRun') + t
                             IN  lastRun < at /\ at <= lastRun'

LEMMA StartsFit == ASSUME TasksInv, Tasks!Next PROVE InWindow /\ OneForEach
  <1> USE DEF Tasks!process
  <1> SUFFICES ASSUME lastRun' # lastRun PROVE InWindow /\ OneForEach
    BY DEF InWindow, OneForEach
  <1>1. Tasks!Check
    BY DEF Tasks!Next, Tasks!PassMinute, Tasks!Fire, Tasks!FireInVain, Tasks!CheckFails, Tasks!Stop,
           Tasks!Boot, Tasks!Edit
  <1>2. tick \in Nat /\ Starts /\ lastRun' = tick BY <1>1, CheckIs DEF TasksInv
  <1>3. /\ job.enabled /\ Tasks!jobRunsOnWeekday(job, Tasks!Weekday(tick))
        /\ DueAt(tick) /\ SlotAt(tick) \notin ran /\ JobOk
    BY <1>2, StartsIs DEF TasksInv, TaskTypes
  <1> DEFINE d == Tasks!Day(tick)
             m == Tasks!Minute(tick)
  <1>4. m \in MinutesOfDay /\ m \in Nat /\ m <= 1439 /\ d \in Nat /\ tick = 1440 * d + m
    BY <1>2, DayAndMinute, MinutesAre
  <1>5. PICK t \in Tasks!Times : t <= m /\ m <= Tasks!Until(t)
    BY <1>3, <1>4, DueInWindow DEF DueAt
  <1>6. InWindow BY <1>2, <1>3, <1>5 DEF InWindow
  <1>7. ASSUME Tasks!Spaced, edited < d, started # {} PROVE lastRun < 1440 * d + t /\ 1440 * d + t <= tick
    <2> DEFINE e == Tasks!Day(lastRun)
               n == Tasks!Minute(lastRun)
    <2>1. t \in MinutesOfDay /\ t \in Nat BY <1>3, WindowsInDay, MinutesAre
    <2>2. /\ lastRun \in Nat /\ slotDay = d /\ lastRun <= tick
          /\ e = d => DueAt(lastRun) /\ SlotAt(lastRun) \in ran
      BY <1>2, <1>7, TaskNumbers DEF TasksInv, TaskTypes, RunsFit, TickFits, Tasks!None
    <2>3. n \in MinutesOfDay /\ n \in Nat /\ n <= 1439 /\ e \in Nat /\ lastRun = 1440 * e + n
      BY <2>2, DayAndMinute, MinutesAre
    <2>4. e <= d BY <1>2, <2>2, SameDay
    <2>5. e = d => ~ (t <= n)
      <3> SUFFICES ASSUME e = d, t <= n PROVE FALSE OBVIOUS
      <3>1. SlotAt(lastRun) \in ran /\ SlotAt(lastRun) = <<job.freq, d, DueSlot(n)>>
        BY <2>2 DEF SlotAt
      <3>2. SlotAt(tick) = <<job.freq, d, DueSlot(m)>> BY DEF SlotAt
      <3>3. n <= m BY <1>4, <2>2, <2>3
      <3>4. Tasks!Until(t) \in Nat BY <1>3, WindowsInDay, MinutesAre
      <3>5. n <= Tasks!Until(t) BY <1>4, <1>5, <2>3, <3>3, <3>4
      <3>6. DueSlot(n) = DueSlot(t) BY <1>3, <1>7, <2>3, <3>5, WindowIsSlot
      <3>7. DueSlot(m) = DueSlot(t) BY <1>3, <1>4, <1>5, <1>7, WindowIsSlot
      <3> QED BY <1>3, <3>1, <3>2, <3>6, <3>7
    <2> HIDE DEF d, m, e, n
    <2>6. 1440 * d + t <= tick BY <1>4, <1>5, <2>1
    <2>7. CASE e = d BY <1>4, <2>1, <2>3, <2>5, <2>6, <2>7
    <2>8. CASE e < d BY <1>4, <2>1, <2>3, <2>6, <2>8
    <2> QED BY <1>4, <2>3, <2>4, <2>6, <2>7, <2>8
  <1>8. OneForEach BY <1>2, <1>7 DEF OneForEach
  <1> QED BY <1>6, <1>8

(* A job that is on runs at each of its times, or makes up for it while    *)
(* the window is open, however late ticks are, whatever restarts and       *)
(* unreadable tables there are; it starts inside a window only, and, where *)
(* windows do not meet, once for each time while the process lives.  A day *)
(* on which the times were edited is excepted                              *)
(* (scheduled-tasks.runner.ts, tick; dueJobSlot and jobSlotKey).           *)
THEOREM TasksAreKept == TeachingSpec => TasksKept
  <1>1. TeachingInit => TasksInv BY TasksBegin DEF TeachingInit
  <1>2. [TeachingNext]_allVars => [Tasks!Next]_(Tasks!vars)
    BY DEF TeachingNext, TaskStep, BookStep, FlowStep, BillStep, SignStep, allVars, taskVars,
           Tasks!vars, Tasks!process
  <1>3. TasksInv /\ [Tasks!Next]_(Tasks!vars) => TasksInv' BY TasksKeep
  <1>4. TasksInv => (active = "tasks" => Tasks!NoTimeMissed) BY NoneMissed
  <1>5. TasksInv /\ [Tasks!Next]_(Tasks!vars) =>
          [lastRun' # lastRun =>
             /\ job.enabled /\ Tasks!jobRunsOnWeekday(job, Tasks!Weekday(lastRun'))
             /\ \E t \in Tasks!Times :
                  t <= Tasks!Minute(lastRun') /\ Tasks!Minute(lastRun') <= Tasks!Until(t)]_(Tasks!vars)
    BY StartsFit DEF InWindow
  <1>6. TasksInv /\ [Tasks!Next]_(Tasks!vars) =>
          [Tasks!Spaced /\ edited < Tasks!Day(lastRun') /\ lastRun' # lastRun /\ started # {} =>
             \E t \in Tasks!Times : LET at == 1440 * Tasks!Day(lastRun') + t
                                    IN  lastRun < at /\ at <= lastRun']_(Tasks!vars)
    BY StartsFit DEF OneForEach
  <1>7. TeachingSpec => []TasksInv BY <1>1, <1>2, <1>3, PTL DEF TeachingSpec
  <1>8. TeachingSpec => [](active = "tasks" => Tasks!NoTimeMissed) BY <1>4, <1>7, PTL
  <1>9. TeachingSpec => Tasks!OnlyInWindow
    BY <1>2, <1>5, <1>7, PTL DEF TeachingSpec, Tasks!OnlyInWindow
  <1>10. TeachingSpec => Tasks!OncePerTime
    BY <1>2, <1>6, <1>7, PTL DEF TeachingSpec, Tasks!OncePerTime
  <1> QED BY <1>8, <1>9, <1>10 DEF TasksKept, Tasks!StartsAreDue
=============================================================================
