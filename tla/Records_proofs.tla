---------------------------- MODULE Records_proofs --------------------------
(***************************************************************************)
(* Proofs about the shared records (Records): what a scan of a table by    *)
(* offsets can miss and repeat (TableScan), that options of a field are    *)
(* not lost (FieldOptions), that roles change by edits only (RoleConfig),  *)
(* that runs leave the links of staff alone (WeilingLink), and that the    *)
(* numbers of students stay apart (StudentNo).  Each begins with what is   *)
(* invariant beyond the property itself.                                   *)
(***************************************************************************)
EXTENDS Records, FiniteSetTheorems, SequenceTheorems, WellFoundedInduction, TLAPS

LEMMA TableCardinality == \A S : Table!Cardinality(S) = Cardinality(S)
  BY DEF Table!Cardinality, Cardinality

LEMMA TableConstants == PageSize \in Nat \ {0} /\ MaxPages \in Nat \ {0} /\ MaxScanned \in Nat
  BY TableAssumption DEF Table!ScanBounds

-----------------------------------------------------------------------------
(* Places in a table: the number of rows that do not come after.           *)
PlaceIn(R, r) == Cardinality({s \in R : s >= r})

Between(R, a, b) == {r \in R : PlaceIn(R, r) \in (a + 1)..b}

LEMMA PlaceCounts ==
  ASSUME NEW R \in SUBSET Nat, IsFiniteSet(R), NEW r
  PROVE  PlaceIn(R, r) \in Nat
<1>1. {s \in R : s >= r} \in SUBSET R
  OBVIOUS
<1>2. QED
  BY <1>1, FS_Subset, FS_CardinalityType DEF PlaceIn

LEMMA PlaceRange ==
  ASSUME NEW R \in SUBSET Nat, IsFiniteSet(R), NEW r \in R
  PROVE  /\ PlaceIn(R, r) \in 1..Cardinality(R)
         /\ Cardinality(R) \in Nat
<1> DEFINE U == {s \in R : s >= r}
<1>1. IsFiniteSet(U) /\ Cardinality(U) <= Cardinality(R)
  BY FS_Subset, U \in SUBSET R
<1>2. Cardinality(U) \in Nat /\ Cardinality(R) \in Nat
  BY <1>1, FS_CardinalityType
<1>3. U # {}
  BY r \in U
<1>4. Cardinality(U) # 0
  BY <1>1, <1>3, FS_EmptySet
<1>5. QED
  BY <1>1, <1>2, <1>4 DEF PlaceIn

(* The highest come first, so no two rows have one place. *)
LEMMA PlaceOrder ==
  ASSUME NEW R \in SUBSET Nat, IsFiniteSet(R), NEW r \in R, NEW s \in R, r > s
  PROVE  PlaceIn(R, r) < PlaceIn(R, s)
<1> DEFINE U == {x \in R : x >= r}
           V == {x \in R : x >= s}
<1>1. IsFiniteSet(V) /\ U \in SUBSET V /\ s \in V /\ s \notin U
  <2>1. IsFiniteSet(V)
    BY FS_Subset, V \in SUBSET R
  <2>2. s \in V /\ s \notin U
    OBVIOUS
  <2>3. \A x \in U : x \in V
    OBVIOUS
  <2>4. QED
    BY <2>1, <2>2, <2>3
<1>2. Cardinality(U) <= Cardinality(V) /\ Cardinality(U) # Cardinality(V)
  BY <1>1, FS_Subset
<1>3. Cardinality(U) \in Nat /\ Cardinality(V) \in Nat
  BY <1>1, FS_Subset, FS_CardinalityType
<1>4. QED
  BY <1>2, <1>3 DEF PlaceIn

LEMMA PlaceUnique ==
  ASSUME NEW R \in SUBSET Nat, IsFiniteSet(R), NEW r \in R, NEW s \in R,
         PlaceIn(R, r) = PlaceIn(R, s)
  PROVE  r = s
<1>1. PlaceIn(R, r) \in Nat
  BY PlaceRange
<1>2. r > s \/ s > r \/ r = s
  OBVIOUS
<1>3. QED
  BY <1>1, <1>2, PlaceOrder

LEMMA PlaceOnto ==
  ASSUME NEW R \in SUBSET Nat, IsFiniteSet(R), NEW k \in 1..Cardinality(R)
  PROVE  \E r \in R : PlaceIn(R, r) = k
<1> DEFINE n == Cardinality(R)
           place == [r \in R |-> PlaceIn(R, r)]
<1>1. n \in Nat
  BY FS_CardinalityType
<1>2. place \in Injection(R, 1..n)
  <2>1. place \in [R -> 1..n]
    BY PlaceRange
  <2>2. \A r, s \in R : place[r] = place[s] => r = s
    BY PlaceUnique
  <2>3. QED
    BY <2>1, <2>2 DEF Injection, IsInjective
<1>3. IsFiniteSet(1..n) /\ Cardinality(1..n) = n
  BY <1>1, FS_Interval
<1>4. place \in Surjection(R, 1..n)
  BY <1>2, <1>3, FS_Injection
<1>5. QED
  BY <1>4 DEF Surjection

(* There are no more rows between two places than there are places.        *)
LEMMA BetweenBound ==
  ASSUME NEW R \in SUBSET Nat, IsFiniteSet(R), NEW a \in Nat, NEW b \in Int
  PROVE  /\ IsFiniteSet(Between(R, a, b)) /\ Cardinality(Between(R, a, b)) \in Nat
         /\ b > a => Cardinality(Between(R, a, b)) <= b - a
         /\ b <= a => Between(R, a, b) = {} /\ Cardinality(Between(R, a, b)) = 0
<1> DEFINE B == Between(R, a, b)
           place == [r \in B |-> PlaceIn(R, r)]
<1>1. IsFiniteSet(B) /\ Cardinality(B) \in Nat
  BY FS_Subset, FS_CardinalityType DEF Between
<1>2. place \in Injection(B, (a + 1)..b)
  BY PlaceUnique DEF Injection, IsInjective, Between
<1>3. IsFiniteSet((a + 1)..b) /\ (b > a => Cardinality((a + 1)..b) = b - a)
  BY FS_Interval
<1>4. Cardinality(B) <= Cardinality((a + 1)..b)
  BY <1>2, <1>3, FS_Injection
<1>5. b <= a => B = {}
  BY PlaceRange DEF Between
<1>6. QED
  BY <1>1, <1>3, <1>4, <1>5, FS_EmptySet

LEMMA BetweenExact ==
  ASSUME NEW R \in SUBSET Nat, IsFiniteSet(R), NEW a \in Nat, NEW b \in Nat,
         a <= b, b <= Cardinality(R)
  PROVE  Cardinality(Between(R, a, b)) = b - a
<1> DEFINE B == Between(R, a, b)
           place == [r \in B |-> PlaceIn(R, r)]
<1>1. place \in Injection(B, (a + 1)..b)
  BY PlaceUnique DEF Injection, IsInjective, Between
<1>2. place \in Surjection(B, (a + 1)..b)
  <2>1. \A k \in (a + 1)..b : \E r \in B : place[r] = k
    BY PlaceOnto, FS_CardinalityType DEF Between
  <2>2. QED
    BY <1>1, <2>1 DEF Injection, Surjection
<1>3. IsFiniteSet((a + 1)..b) /\ Cardinality((a + 1)..b) = b - a
  <2>1. a + 1 \in Int /\ b \in Int
    OBVIOUS
  <2>2. Cardinality((a + 1)..b) = IF a + 1 > b THEN 0 ELSE b - (a + 1) + 1
    BY <2>1, FS_Interval
  <2>3. IsFiniteSet((a + 1)..b)
    BY <2>1, FS_Interval
  <2>4. QED
    BY <2>2, <2>3
<1>4. QED
  BY <1>1, <1>2, <1>3, FS_Injection

-----------------------------------------------------------------------------
(* What a page returns, and the scan over pages (TableScan).               *)

Got == Table!Returned
Twice == Len(scan.got) - Cardinality(Got)

(* Rows that were there all the time, are missing, and will not be read.   *)
Passed == {r \in kept \ Got : PlaceIn(rows, r) <= scan.offset}

ScanType == [step : Table!Steps, offset : Nat, total : Nat, got : Seq(1..MaxScanned), pages : Nat]

(* The strengthening.  The place of a row that was returned is among the    *)
(* first of the table, but for as many rows as came or moved and have not   *)
(* been repeated for that; rows slip into pages already read only when a    *)
(* row is deleted or moves; the table has no more rows than were counted    *)
(* and came.                                                                *)
TableInv ==
    /\ written \in 0..MaxScanned
    /\ rows \in SUBSET (1..MaxScanned) /\ kept \in SUBSET rows
    /\ inserted \in Nat /\ deleted \in Nat /\ moved \in Nat
    /\ inserted + moved <= written /\ deleted + Cardinality(rows) <= written
    /\ scan \in ScanType
    /\ scan.offset = Len(scan.got)
    /\ scan.offset <= PageSize * scan.pages
    /\ scan.pages <= MaxPages
    /\ scan.step \in {"count", "select"} => scan.pages < MaxPages
    /\ scan.total <= MaxScanned
    /\ Twice <= inserted + moved
    /\ \A q \in Got : PlaceIn(rows, q) <= scan.offset + inserted + moved - Twice
    /\ Cardinality(Passed) <= deleted + moved
    /\ scan.step \in {"select", "done"} => Cardinality(rows) <= scan.total + inserted
    /\ scan.step = "done" /\ scan.pages < MaxPages => scan.total <= scan.offset

LEMMA RowsAreFinite ==
  ASSUME TableInv
  PROVE  /\ rows \in SUBSET Nat /\ IsFiniteSet(rows) /\ Cardinality(rows) \in Nat
         /\ \A A \in SUBSET rows : IsFiniteSet(A) /\ Cardinality(A) \in Nat
<1>1. IsFiniteSet(1..MaxScanned)
  BY FS_Interval, TableConstants
<1>2. IsFiniteSet(rows) /\ Cardinality(rows) \in Nat
  BY <1>1, FS_Subset, FS_CardinalityType DEF TableInv
<1>3. rows \in SUBSET Nat
  BY DEF TableInv
<1>4. \A A \in SUBSET rows : IsFiniteSet(A) /\ Cardinality(A) \in Nat
  BY <1>2, FS_Subset, FS_CardinalityType
<1>5. QED
  BY <1>2, <1>3, <1>4

LEMMA OfSeq ==
  ASSUME NEW S, NEW s \in Seq(S)
  PROVE  /\ Len(s) \in Nat /\ DOMAIN s = 1..Len(s)
         /\ \A i \in 1..Len(s) : s[i] \in S
  OBVIOUS

LEMMA SeqWidens ==
  ASSUME NEW T, NEW S \in SUBSET T, NEW s \in Seq(S)
  PROVE  s \in Seq(T)
<1>1. s \in [1..Len(s) -> T] /\ Len(s) \in Nat
  OBVIOUS
<1>2. QED
  BY <1>1

LEMMA GotIsFinite ==
  ASSUME NEW n, NEW s \in Seq(1..n)
  PROVE  LET R == {s[i] : i \in DOMAIN s}
         IN  IsFiniteSet(R) /\ Cardinality(R) \in Nat /\ Cardinality(R) <= Len(s)
<1> DEFINE R == {s[i] : i \in DOMAIN s}
           f == [i \in 1..Len(s) |-> s[i]]
<1>1. Len(s) \in Nat /\ DOMAIN s = 1..Len(s)
  OBVIOUS
<1>2. IsFiniteSet(1..Len(s)) /\ Cardinality(1..Len(s)) = Len(s)
  BY <1>1, FS_Interval
<1>3. f \in Surjection(1..Len(s), R)
  BY <1>1 DEF Surjection
<1>4. IsFiniteSet(R) /\ Cardinality(R) <= Len(s)
  BY <1>2, <1>3, FS_Surjection
<1>5. QED
  BY <1>4, FS_CardinalityType

(* A page has the rows of its places, each once. *)
LEMMA PageReturns ==
  ASSUME TableInv
  PROVE  LET page == Table!Page(scan.offset)
             on == Between(rows, scan.offset, scan.offset + PageSize)
         IN  /\ page \in Seq(rows) /\ Len(page) = Cardinality(on) /\ Len(page) \in Nat
             /\ {page[i] : i \in DOMAIN page} = on
             /\ Len(page) <= PageSize
             /\ \A r \in on : PlaceIn(rows, r) <= scan.offset + Len(page)
<1> DEFINE o == scan.offset
           n == Cardinality(rows)
           last == IF o + PageSize <= n THEN o + PageSize ELSE n
           page == Table!Page(o)
           on == Between(rows, o, o + PageSize)
<1>1. /\ rows \in SUBSET Nat /\ IsFiniteSet(rows) /\ n \in Nat
      /\ o \in Nat /\ PageSize \in Nat /\ PageSize > 0
  BY RowsAreFinite, TableConstants DEF TableInv, ScanType
<1>2. IsFiniteSet(on) /\ Cardinality(on) \in Nat /\ Cardinality(on) <= PageSize
  <2>1. o + PageSize \in Int /\ o + PageSize > o /\ (o + PageSize) - o = PageSize
    BY <1>1
  <2>2. /\ IsFiniteSet(Between(rows, o, o + PageSize))
        /\ Cardinality(Between(rows, o, o + PageSize)) \in Nat
        /\ Cardinality(Between(rows, o, o + PageSize)) <= (o + PageSize) - o
    BY <1>1, <2>1, BetweenBound
  <2>3. QED
    BY <2>1, <2>2
<1>3. /\ Len(page) = Cardinality(on) /\ DOMAIN page = 1..Cardinality(on)
      /\ page = [i \in 1..Cardinality(on) |-> page[i]]
      /\ \A i \in 1..Cardinality(on) :
            (\E r \in on : PlaceIn(rows, r) = o + i)
              => page[i] \in on /\ PlaceIn(rows, page[i]) = o + i
  <2> DEFINE placed == {r \in rows : Table!Place(r) \in (o + 1)..(o + PageSize)}
  <2>1. \A r : Table!Place(r) = PlaceIn(rows, r)
    BY TableCardinality DEF Table!Place, PlaceIn
  <2>2. placed = on
    BY <2>1 DEF Between
  <2>3. page = [i \in 1..Table!Cardinality(placed) |->
                  CHOOSE r \in placed : Table!Place(r) = o + i]
    BY DEF Table!Page
  <2>4. Table!Cardinality(placed) = Cardinality(on)
    BY <2>2, TableCardinality
  <2> HIDE DEF placed, page, o, on
  <2>5. \A i \in 1..Cardinality(on) : page[i] = CHOOSE r \in placed : Table!Place(r) = o + i
    BY <2>3, <2>4
  <2>6. page = [i \in 1..Cardinality(on) |-> page[i]] /\ DOMAIN page = 1..Cardinality(on)
    BY <2>3, <2>4
  <2>7. Len(page) = Cardinality(on)
    BY <1>2, <2>6
  <2>8. ASSUME NEW i \in 1..Cardinality(on), \E r \in on : PlaceIn(rows, r) = o + i
        PROVE  page[i] \in on /\ PlaceIn(rows, page[i]) = o + i
    BY <2>1, <2>2, <2>5, <2>8
  <2>9. QED
    BY <2>6, <2>7, <2>8
<1>4. CASE o >= n
  <2>1. on = {} /\ Cardinality(on) = 0
    <3>1. on = {}
      <4>1. \A r \in rows : PlaceIn(rows, r) \in 1..n
        BY <1>1, PlaceRange
      <4>2. QED
        <5> HIDE DEF n, o
        <5>1. \A p \in 1..n : p \notin (o + 1)..(o + PageSize)
          BY <1>1, <1>4
        <5>2. QED
          BY <4>1, <5>1 DEF Between
    <3>2. QED
      BY <3>1, FS_EmptySet
  <2>2. page = << >>
    BY <1>3, <2>1
  <2>3. QED
    BY <1>1, <2>1, <2>2
<1>5. CASE o < n
  <2>1. last \in Nat /\ o <= last /\ last <= n /\ last <= o + PageSize
    BY <1>1, <1>5
  <2>2. on = Between(rows, o, last)
    <3>1. \A r \in rows : PlaceIn(rows, r) \in 1..n
      BY <1>1, PlaceRange
    <3>2. \A p \in 1..n : p \in (o + 1)..(o + PageSize) <=> p \in (o + 1)..last
      BY <1>1
    <3>3. QED
      BY <3>1, <3>2 DEF Between
  <2>3. Cardinality(on) = last - o
    BY <1>1, <2>1, <2>2, BetweenExact
  <2>4. \A i \in 1..Cardinality(on) : page[i] \in on /\ PlaceIn(rows, page[i]) = o + i
    <3>1. TAKE i \in 1..Cardinality(on)
    <3>2. o + i \in 1..n /\ o + i \in (o + 1)..last
      BY <1>1, <2>1, <2>3
    <3>3. \E r \in on : PlaceIn(rows, r) = o + i
      BY <1>1, <2>2, <3>2, PlaceOnto DEF Between
    <3>4. QED
      BY <1>3, <3>3
  <2>5. page \in Seq(rows) /\ Len(page) = Cardinality(on) /\ DOMAIN page = 1..Cardinality(on)
    <3>1. \A i \in 1..Cardinality(on) : page[i] \in rows
      BY <2>4 DEF Between
    <3>2. page \in [1..Cardinality(on) -> rows]
      BY <1>3, <3>1
    <3>3. QED
      BY <1>2, <3>2
  <2>6. \A r \in on : \E i \in DOMAIN page : page[i] = r
    <3>1. TAKE r \in on
    <3>2. PlaceIn(rows, r) \in (o + 1)..last /\ r \in rows
      BY <2>2 DEF Between
    <3>3. PICK i \in 1..Cardinality(on) : PlaceIn(rows, r) = o + i
      <4>1. PlaceIn(rows, r) - o \in 1..Cardinality(on) /\ PlaceIn(rows, r) = o + (PlaceIn(rows, r) - o)
        BY <1>1, <2>1, <2>3, <3>2
      <4>2. QED
        BY <4>1
    <3>4. page[i] \in rows /\ PlaceIn(rows, page[i]) = PlaceIn(rows, r)
      BY <2>4, <3>3 DEF Between
    <3>5. page[i] = r
      <4>1. \A x, y \in rows : PlaceIn(rows, x) = PlaceIn(rows, y) => x = y
        BY <1>1, PlaceUnique
      <4> HIDE DEF page, on
      <4>2. QED
        BY <3>2, <3>4, <4>1
    <3>6. QED
      BY <2>5, <3>5
  <2>7. {page[i] : i \in DOMAIN page} = on
    BY <2>4, <2>5, <2>6
  <2>8. \A r \in on : PlaceIn(rows, r) <= o + Len(page)
    BY <1>1, <2>1, <2>2, <2>3, <2>5 DEF Between
  <2>9. QED
    BY <1>2, <2>5, <2>7, <2>8
<1>6. QED
  BY <1>1, <1>4, <1>5

(* A row that comes, or goes, moves the others by one place at most.       *)
LEMMA PlaceAfterInsert ==
  ASSUME NEW R \in SUBSET Nat, IsFiniteSet(R), NEW x \in Nat, NEW r \in Nat
  PROVE  /\ PlaceIn(R, r) \in Nat /\ PlaceIn(R \cup {x}, r) \in Nat
         /\ PlaceIn(R, r) <= PlaceIn(R \cup {x}, r)
         /\ PlaceIn(R \cup {x}, r) <= PlaceIn(R, r) + 1
<1> DEFINE U == {s \in R : s >= r}
           V == {s \in R \cup {x} : s >= r}
<1>1. IsFiniteSet(U) /\ Cardinality(U) \in Nat
  BY FS_Subset, FS_CardinalityType, U \in SUBSET R
<1>2. V = IF x >= r THEN U \cup {x} ELSE U
  OBVIOUS
<1>3. Cardinality(V) \in {Cardinality(U), Cardinality(U) + 1}
  BY <1>1, <1>2, FS_AddElement
<1>4. QED
  BY <1>1, <1>3 DEF PlaceIn

LEMMA PlaceAfterDelete ==
  ASSUME NEW R \in SUBSET Nat, IsFiniteSet(R), NEW x \in R, NEW r \in Nat
  PROVE  /\ PlaceIn(R, r) \in Nat /\ PlaceIn(R \ {x}, r) \in Nat
         /\ PlaceIn(R \ {x}, r) <= PlaceIn(R, r)
         /\ PlaceIn(R, r) <= PlaceIn(R \ {x}, r) + 1
<1>1. R \ {x} \in SUBSET Nat /\ IsFiniteSet(R \ {x}) /\ x \in Nat /\ (R \ {x}) \cup {x} = R
  BY FS_RemoveElement
<1>2. QED
  BY <1>1, PlaceAfterInsert

LEMMA GotCounts ==
  ASSUME TableInv
  PROVE  /\ IsFiniteSet(Got) /\ Cardinality(Got) \in Nat /\ Cardinality(Got) <= Len(scan.got)
         /\ Got \in SUBSET (1..MaxScanned) /\ Len(scan.got) \in Nat /\ Twice \in Nat
<1>1. scan.got \in Seq(1..MaxScanned)
  BY DEF TableInv, ScanType
<1>2. IsFiniteSet(Got) /\ Cardinality(Got) \in Nat /\ Cardinality(Got) <= Len(scan.got)
  BY <1>1, GotIsFinite DEF Got, Table!Returned
<1>3. /\ Len(scan.got) \in Nat /\ DOMAIN scan.got = 1..Len(scan.got)
      /\ \A i \in 1..Len(scan.got) : scan.got[i] \in 1..MaxScanned
  BY <1>1, OfSeq
<1>4. Got \in SUBSET (1..MaxScanned)
  BY <1>3 DEF Got, Table!Returned
<1>5. QED
  BY <1>2, <1>3, <1>4 DEF Twice

LEMMA NothingGot ==
  ASSUME scan.got = << >>
  PROVE  Got = {} /\ Twice = 0 /\ Passed \in SUBSET kept
<1>1. Got = {}
  BY DEF Got, Table!Returned
<1>2. Cardinality(Got) = 0
  BY <1>1, FS_EmptySet
<1>3. QED
  BY <1>1, <1>2 DEF Twice, Passed

LEMMA TableInit == Table!Init => TableInv
<1>1. SUFFICES ASSUME Table!Init PROVE TableInv
  OBVIOUS
<1>2. /\ rows \in SUBSET (1..MaxScanned) /\ written = Cardinality(rows) /\ kept = {}
      /\ scan = [step |-> "idle", offset |-> 0, total |-> 0, got |-> << >>, pages |-> 0]
      /\ inserted = 0 /\ deleted = 0 /\ moved = 0
  BY <1>1, TableCardinality DEF Table!Init, Table!Rows
<1>3. Got = {} /\ Twice = 0 /\ Passed = {}
  BY <1>2, NothingGot
<1>4. Cardinality(rows) \in 0..MaxScanned /\ Cardinality(Passed) = 0
  <2>1. IsFiniteSet(1..MaxScanned) /\ Cardinality(1..MaxScanned) = MaxScanned
    BY FS_Interval, TableConstants
  <2>2. IsFiniteSet(rows) /\ Cardinality(rows) <= MaxScanned
    BY <1>2, <2>1, FS_Subset
  <2>3. Cardinality(rows) \in Nat
    BY <2>2, FS_CardinalityType
  <2>4. QED
    BY <1>3, <2>2, <2>3, FS_EmptySet, TableConstants
<1>5. scan \in ScanType
  BY <1>2 DEF ScanType, Table!Steps
<1>6. QED
  BY <1>2, <1>3, <1>4, <1>5, TableConstants DEF TableInv

LEMMA TableBegin ==
  ASSUME TableInv, Table!Begin
  PROVE  TableInv'
<1>1. /\ scan' = [step |-> "count", offset |-> 0, total |-> 0, got |-> << >>, pages |-> 0]
      /\ kept' = rows /\ inserted' = 0 /\ deleted' = 0 /\ moved' = 0 /\ rows' = rows /\ written' = written
  BY DEF Table!Begin
<1>2. Got' = {} /\ Twice' = 0
  <2>1. scan'.got = << >>
    BY <1>1
  <2>2. QED
    BY <2>1, FS_EmptySet DEF Got, Table!Returned, Twice
<1>3. Passed' = {}
  <2>1. \A r \in rows : PlaceIn(rows, r) \in 1..Cardinality(rows)
    BY RowsAreFinite, PlaceRange
  <2>2. \A r \in rows : ~(PlaceIn(rows, r) <= 0)
    BY <2>1, RowsAreFinite
  <2>3. QED
    BY <1>1, <2>2 DEF Passed
<1>4. Cardinality(Passed') = 0
  BY <1>3, FS_EmptySet
<1>5. scan' \in ScanType
  BY <1>1 DEF ScanType, Table!Steps
<1>6. Cardinality(rows) \in Nat /\ written \in Nat
  BY RowsAreFinite, TableConstants DEF TableInv
<1>7. QED
  BY <1>1, <1>2, <1>4, <1>5, <1>6, TableConstants DEF TableInv

LEMMA TableCount ==
  ASSUME TableInv, Table!Count
  PROVE  TableInv'
<1>1. /\ scan.step = "count"
      /\ scan' = [scan EXCEPT !.step = "select", !.total = Cardinality(rows)]
      /\ kept' = kept /\ inserted' = inserted /\ deleted' = deleted /\ moved' = moved
      /\ rows' = rows /\ written' = written
  BY TableCardinality DEF Table!Count
<1>2. Cardinality(rows) \in Nat /\ written \in Nat /\ written <= MaxScanned
  BY RowsAreFinite, TableConstants DEF TableInv
<1>3. /\ scan' \in ScanType /\ scan'.step = "select" /\ scan'.total = Cardinality(rows)
      /\ scan'.got = scan.got /\ scan'.offset = scan.offset /\ scan'.pages = scan.pages
  BY <1>1, <1>2 DEF TableInv, ScanType, Table!Steps
<1>4. Got' = Got /\ Twice' = Twice /\ Passed' = Passed
  <2>1. Got' = Got
    BY <1>3 DEF Got, Table!Returned
  <2>2. QED
    BY <1>1, <1>3, <2>1 DEF Twice, Passed
<1>5. QED
  BY <1>1, <1>2, <1>3, <1>4, TableConstants DEF TableInv

LEMMA TableSelect ==
  ASSUME TableInv, Table!Select
  PROVE  TableInv'
<1> DEFINE o == scan.offset
           page == Table!Page(o)
           on == Between(rows, o, o + PageSize)
           next == o + Len(page)
           more == next < scan.total /\ scan.pages + 1 < MaxPages
           again == Got \cap on
           bound == o + inserted + moved - Twice
<1>1. /\ rows \in SUBSET Nat /\ IsFiniteSet(rows) /\ Cardinality(rows) \in Nat
      /\ o \in Nat /\ PageSize \in Nat /\ inserted \in Nat /\ deleted \in Nat /\ moved \in Nat
      /\ Twice \in Nat /\ Len(scan.got) \in Nat /\ scan.got \in Seq(1..MaxScanned)
      /\ scan.pages \in Nat /\ scan.total \in Nat /\ written \in Nat
      /\ rows \in SUBSET (1..MaxScanned)
  <2>1. rows \in SUBSET Nat /\ IsFiniteSet(rows) /\ Cardinality(rows) \in Nat
    BY RowsAreFinite
  <2>2. PageSize \in Nat /\ Twice \in Nat /\ Len(scan.got) \in Nat
    BY TableConstants, GotCounts
  <2>3. scan \in ScanType /\ inserted \in Nat /\ deleted \in Nat /\ moved \in Nat
    BY DEF TableInv
  <2>4. written \in Nat /\ written <= MaxScanned
    BY TableConstants DEF TableInv
  <2>5. rows \in SUBSET (1..MaxScanned)
    BY DEF TableInv
  <2>6. QED
    BY <2>1, <2>2, <2>3, <2>4, <2>5 DEF ScanType
<1>2. /\ page \in Seq(rows) /\ Len(page) = Cardinality(on) /\ Len(page) \in Nat
      /\ {page[i] : i \in DOMAIN page} = on /\ Len(page) <= PageSize
      /\ \A r \in on : PlaceIn(rows, r) <= next
  BY PageReturns
<1>3. /\ scan.step = "select" /\ scan.pages < MaxPages
      /\ scan' = [scan EXCEPT !.step = IF more THEN "count" ELSE "done", !.offset = next,
                              !.got = @ \o page, !.pages = @ + 1]
      /\ rows' = rows /\ written' = written /\ kept' = kept
      /\ inserted' = inserted /\ deleted' = deleted /\ moved' = moved
  BY DEF Table!Select, TableInv
<1> HIDE DEF page, on, next
<1>4. /\ scan.got \o page \in Seq(1..MaxScanned)
      /\ Len(scan.got \o page) = Len(scan.got) + Len(page)
      /\ scan'.got = scan.got \o page /\ scan'.offset = next /\ scan'.pages = scan.pages + 1
      /\ scan'.total = scan.total /\ scan'.step = IF more THEN "count" ELSE "done"
      /\ scan' \in ScanType
  <2>1. page \in Seq(1..MaxScanned)
    BY <1>1, <1>2, SeqWidens
  <2>2. /\ scan.got \o page \in Seq(1..MaxScanned)
        /\ Len(scan.got \o page) = Len(scan.got) + Len(page)
    BY <1>1, <2>1
  <2>3. next \in Nat
    BY <1>1, <1>2 DEF next
  <2>4. scan \in ScanType
    BY DEF TableInv
  <2>5. scan' = [step |-> IF more THEN "count" ELSE "done", offset |-> next,
                 total |-> scan.total, got |-> scan.got \o page, pages |-> scan.pages + 1]
    BY <1>3, <2>4 DEF ScanType
  <2> HIDE DEF more
  <2>6. scan' \in ScanType
    BY <1>1, <2>2, <2>3, <2>5 DEF ScanType, Table!Steps
  <2>7. QED
    BY <2>2, <2>5, <2>6
<1>5. Got' = Got \cup on
  <2>1. DOMAIN (scan.got \o page) = 1..(Len(scan.got) + Len(page))
    BY <1>1, <1>2
  <2>2. \A i \in 1..Len(scan.got) : (scan.got \o page)[i] = scan.got[i]
    BY <1>1, <1>2
  <2>3. \A i \in 1..Len(page) : (scan.got \o page)[Len(scan.got) + i] = page[i]
    BY <1>1, <1>2
  <2>4. Got' = {(scan.got \o page)[i] : i \in 1..(Len(scan.got) + Len(page))}
    BY <1>4, <2>1 DEF Got, Table!Returned
  <2>5. /\ Got = {scan.got[i] : i \in 1..Len(scan.got)}
        /\ on = {page[i] : i \in 1..Len(page)}
    BY <1>1, <1>2 DEF Got, Table!Returned
  <2>6. \A x \in Got' : x \in Got \cup on
    <3>1. TAKE x \in Got'
    <3>2. PICK i \in 1..(Len(scan.got) + Len(page)) : x = (scan.got \o page)[i]
      BY <2>4
    <3>3. CASE i <= Len(scan.got)
      BY <1>1, <2>2, <2>5, <3>2, <3>3
    <3>4. CASE i > Len(scan.got)
      <4>1. /\ i - Len(scan.got) \in 1..Len(page)
            /\ Len(scan.got) + (i - Len(scan.got)) = i
        BY <1>1, <1>2, <3>2, <3>4
      <4>2. x = page[i - Len(scan.got)]
        BY <2>3, <3>2, <4>1
      <4>3. QED
        BY <2>5, <4>1, <4>2
    <3>5. QED
      BY <1>1, <3>3, <3>4
  <2>7. \A x \in Got : x \in Got'
    <3>1. TAKE x \in Got
    <3>2. PICK i \in 1..Len(scan.got) : x = scan.got[i]
      BY <2>5
    <3>3. i \in 1..(Len(scan.got) + Len(page))
      BY <1>1, <1>2
    <3>4. QED
      BY <2>2, <2>4, <3>2, <3>3
  <2>8. \A x \in on : x \in Got'
    <3>1. TAKE x \in on
    <3>2. PICK i \in 1..Len(page) : x = page[i]
      BY <2>5
    <3>3. Len(scan.got) + i \in 1..(Len(scan.got) + Len(page))
      BY <1>1, <1>2
    <3>4. QED
      BY <2>3, <2>4, <3>2, <3>3
  <2>9. QED
    BY <2>6, <2>7, <2>8
<1>6. IsFiniteSet(on) /\ IsFiniteSet(again) /\ Cardinality(again) \in Nat
  <2>1. on \in SUBSET rows
    BY DEF on, Between
  <2>2. IsFiniteSet(on)
    BY <1>1, <2>1, FS_Subset
  <2>3. QED
    BY <2>2, FS_Subset, FS_CardinalityType
<1>7. Twice' = Twice + Cardinality(again)
  <2>1. Cardinality(Got \cup on) = Cardinality(Got) + Cardinality(on) - Cardinality(again)
    BY <1>6, GotCounts, FS_Union
  <2>2. Twice' = Len(scan.got \o page) - Cardinality(Got \cup on)
    BY <1>4, <1>5 DEF Twice
  <2>3. Twice = Len(scan.got) - Cardinality(Got) /\ Cardinality(Got) \in Nat
    BY GotCounts DEF Twice
  <2>4. QED
    BY <1>1, <1>2, <1>4, <1>6, <2>1, <2>2, <2>3
(* What is repeated was returned before and lies behind the offset.        *)
<1>8. Cardinality(again) <= inserted + moved - Twice
  <2>1. Twice <= inserted + moved
    BY DEF TableInv
  <2>2. \A r \in again : r \in rows /\ PlaceIn(rows, r) \in (o + 1)..bound
    <3>1. TAKE r \in again
    <3>2. r \in rows /\ r \in Got /\ PlaceIn(rows, r) \in (o + 1)..(o + PageSize)
      BY DEF on, Between
    <3>3. PlaceIn(rows, r) <= bound
      BY <3>2 DEF TableInv
    <3>4. QED
      BY <1>1, <3>2, <3>3
  <2>3. again \in SUBSET Between(rows, o, bound)
    BY <2>2 DEF Between
  <2>4. /\ IsFiniteSet(Between(rows, o, bound)) /\ Cardinality(Between(rows, o, bound)) \in Nat
        /\ Cardinality(Between(rows, o, bound)) <= inserted + moved - Twice
    <3>1. bound \in Int
      BY <1>1
    <3>2. CASE bound > o
      <4>1. Cardinality(Between(rows, o, bound)) <= bound - o
        BY <1>1, <3>1, <3>2, BetweenBound
      <4>2. bound - o = inserted + moved - Twice
        BY <1>1
      <4>3. QED
        BY <1>1, <3>1, <4>1, <4>2, BetweenBound
    <3>3. CASE bound <= o
      <4>1. Cardinality(Between(rows, o, bound)) = 0
        BY <1>1, <3>1, <3>3, BetweenBound
      <4>2. QED
        <5>1. IsFiniteSet(Between(rows, o, bound))
          BY <1>1, <3>1, BetweenBound
        <5>2. QED
          BY <1>1, <2>1, <4>1, <5>1
    <3>4. QED
      BY <1>1, <3>1, <3>2, <3>3
  <2>5. Cardinality(again) <= Cardinality(Between(rows, o, bound))
    BY <2>3, <2>4, FS_Subset
  <2>6. QED
    BY <1>1, <1>6, <2>4, <2>5
<1>9. Cardinality(again) <= Len(page)
  BY <1>2, <1>6, FS_Subset, again \in SUBSET on
<1>10. \A q \in Got' : PlaceIn(rows', q) <= scan'.offset + inserted' + moved' - Twice'
  <2>1. SUFFICES ASSUME NEW q \in Got \cup on
                 PROVE  PlaceIn(rows, q) <= next + inserted + moved - (Twice + Cardinality(again))
    BY <1>3, <1>4, <1>5, <1>7
  <2>2. CASE q \in Got
    <3>1. PlaceIn(rows, q) <= bound
      BY <2>2 DEF TableInv
    <3>2. q \in Nat
      BY <2>2, GotCounts, TableConstants
    <3>3. PlaceIn(rows, q) \in Nat
      BY <1>1, <3>2, PlaceCounts
    <3>4. QED
      BY <1>1, <1>2, <1>6, <1>9, <3>1, <3>3 DEF next
  <2>3. CASE q \in on
    <3>1. q \in rows /\ PlaceIn(rows, q) <= next /\ PlaceIn(rows, q) \in Nat
      BY <1>1, <1>2, <2>3, PlaceRange DEF on, Between
    <3>2. inserted \in Nat /\ moved \in Nat /\ Twice \in Nat /\ Cardinality(again) \in Nat
      BY <1>1, <1>6
    <3>3. inserted + moved - (Twice + Cardinality(again)) >= 0
      BY <1>8, <3>2
    <3>4. next \in Nat
      BY <1>1, <1>2 DEF next
    <3> HIDE DEF next, again
    <3>5. QED
      BY <3>1, <3>2, <3>3, <3>4
  <2>4. QED
    BY <2>1, <2>2, <2>3
<1>11. Cardinality(Passed') <= deleted' + moved'
  <2>1. Passed' \in SUBSET Passed
    <3>1. SUFFICES ASSUME NEW r \in Passed' PROVE r \in Passed
      OBVIOUS
    <3>2. r \in kept /\ r \notin Got /\ r \notin on /\ PlaceIn(rows, r) <= next /\ r \in rows
      BY <1>3, <1>4, <1>5 DEF Passed, TableInv
    <3>3. PlaceIn(rows, r) \in Nat
      BY <1>1, <3>2, PlaceRange
    <3>4. ~(PlaceIn(rows, r) \in (o + 1)..(o + PageSize))
      BY <3>2 DEF on, Between
    <3>5. PlaceIn(rows, r) <= o
      BY <1>1, <1>2, <3>2, <3>3, <3>4 DEF next
    <3>6. QED
      BY <3>2, <3>5 DEF Passed
  <2>2. Passed \in SUBSET rows
    BY DEF Passed, TableInv
  <2>3. IsFiniteSet(Passed) /\ Cardinality(Passed) \in Nat
    BY <2>2, RowsAreFinite
  <2>4. Cardinality(Passed') <= Cardinality(Passed) /\ Cardinality(Passed') \in Nat
    BY <2>1, <2>3, FS_Subset, FS_CardinalityType
  <2>5. Cardinality(Passed) <= deleted + moved
    BY DEF TableInv
  <2>6. QED
    BY <1>1, <1>3, <2>3, <2>4, <2>5
<1>12. scan'.offset <= PageSize * scan'.pages
  <2>1. PageSize * (scan.pages + 1) = PageSize * scan.pages + PageSize
        /\ PageSize * scan.pages \in Nat
    BY <1>1
  <2>2. o <= PageSize * scan.pages
    BY DEF TableInv
  <2> HIDE DEF o
  <2> DEFINE read == PageSize * scan.pages
  <2> HIDE DEF read
  <2>3. next <= read + PageSize
    BY <1>1, <1>2, <2>1, <2>2 DEF next, read
  <2>4. QED
    BY <1>4, <2>1, <2>3 DEF read
<1>13. /\ scan'.offset = Len(scan'.got)
       /\ Twice' <= inserted' + moved'
       /\ scan'.step = "done" /\ scan'.pages < MaxPages => scan'.total <= scan'.offset
       /\ scan'.pages <= MaxPages
       /\ scan'.step \in {"count", "select"} => scan'.pages < MaxPages
  <2>1. scan'.offset = Len(scan'.got)
    BY <1>4 DEF TableInv, next
  <2>2. Twice' <= inserted' + moved'
    BY <1>1, <1>3, <1>6, <1>7, <1>8
  <2>3. scan'.step = "done" /\ scan'.pages < MaxPages => scan'.total <= scan'.offset
    BY <1>1, <1>2, <1>4, TableConstants DEF next
  <2>4. scan'.pages <= MaxPages /\ (scan'.step \in {"count", "select"} => scan'.pages < MaxPages)
    BY <1>1, <1>3, <1>4, TableConstants
  <2>5. QED
    BY <2>1, <2>2, <2>3, <2>4
<1>14. /\ written' \in 0..MaxScanned /\ rows' \in SUBSET (1..MaxScanned) /\ kept' \in SUBSET rows'
       /\ inserted' \in Nat /\ deleted' \in Nat /\ moved' \in Nat
       /\ inserted' + moved' <= written' /\ deleted' + Cardinality(rows') <= written'
       /\ scan'.total <= MaxScanned /\ Cardinality(rows') <= scan'.total + inserted'
  BY <1>3, <1>4 DEF TableInv
<1>15. QED
  BY <1>4, <1>10, <1>11, <1>12, <1>13, <1>14 DEF TableInv

(* A change of the table while a scan runs: rows x go, rows y come, and no  *)
(* more of each than the counts grow by.                                    *)
Came == (inserted' + moved') - (inserted + moved)
Gone == (deleted' + moved') - (deleted + moved)

TableChange ==
    /\ scan' = scan
    /\ rows' \in SUBSET (1..MaxScanned) /\ kept' \in SUBSET (kept \cap rows')
    /\ written' \in 0..MaxScanned /\ inserted' \in Nat /\ deleted' \in Nat /\ moved' \in Nat
    /\ inserted' + moved' <= written' /\ deleted' + Cardinality(rows') <= written'
    /\ Came \in {0, 1} /\ Gone \in {0, 1}
    /\ Cardinality(rows') - inserted' <= Cardinality(rows) - inserted
    /\ \A r \in 1..MaxScanned : /\ PlaceIn(rows', r) \in Nat
                                /\ PlaceIn(rows', r) <= PlaceIn(rows, r) + Came
                                /\ PlaceIn(rows, r) <= PlaceIn(rows', r) + Gone

(* Sums that move together: facts about integers alone.                    *)
LEMMA SumsMove ==
  /\ \A a, b, c, o, i, t, j \in Int : b <= o + i - t /\ a <= b + c /\ j = i + c => a <= o + j - t
  /\ \A a, p, n, x, d, g \in Int : a <= p + n - x /\ p <= d /\ n <= g /\ x >= 0 => a <= d + g
  /\ \A a, i, c, j \in Int : a <= i /\ c >= 0 /\ j = i + c => a <= j
OBVIOUS

LEMMA TableChanges ==
  ASSUME TableInv, TableChange
  PROVE  TableInv'
<1>0. scan' = scan
  BY DEF TableChange
<1>1. /\ rows \in SUBSET Nat /\ IsFiniteSet(rows) /\ Cardinality(rows) \in Nat
      /\ written \in Nat /\ inserted \in Nat /\ deleted \in Nat /\ moved \in Nat
      /\ scan.offset \in Nat /\ Twice \in Nat /\ Twice <= inserted + moved
      /\ rows \in SUBSET (1..MaxScanned) /\ kept \in SUBSET rows
      /\ scan.total \in Nat /\ scan \in ScanType
  <2>1. rows \in SUBSET Nat /\ IsFiniteSet(rows) /\ Cardinality(rows) \in Nat
    BY RowsAreFinite
  <2>2. Twice \in Nat
    BY GotCounts
  <2>3. QED
    BY <2>1, <2>2, TableConstants DEF TableInv, ScanType
<1>2. Cardinality(rows') \in Nat
  <2>1. IsFiniteSet(1..MaxScanned)
    BY FS_Interval, TableConstants
  <2>2. QED
    BY <2>1, FS_Subset, FS_CardinalityType DEF TableChange
<1>2a. /\ inserted' \in Nat /\ deleted' \in Nat /\ moved' \in Nat
       /\ Came \in {0, 1} /\ inserted' + moved' = inserted + moved + Came
       /\ Gone \in {0, 1} /\ deleted' + moved' = deleted + moved + Gone
  <2>1. /\ inserted' \in Nat /\ deleted' \in Nat /\ moved' \in Nat
        /\ Came \in {0, 1} /\ Gone \in {0, 1}
    BY DEF TableChange
  <2>2. inserted' + moved' = inserted + moved + Came /\ deleted' + moved' = deleted + moved + Gone
    BY <1>1, <2>1 DEF Came, Gone
  <2>3. QED
    BY <2>1, <2>2
<1>2b. inserted + moved \in Int /\ inserted' + moved' \in Int
  BY <1>1, <1>2a
<1>2c. Came \in Int /\ Came >= 0
  BY <1>2a
<1>2d. scan.offset \in Int /\ Twice \in Int
  BY <1>1
<1>2e. inserted' + moved' = (inserted + moved) + Came
  BY <1>2a
<1>2f. Twice <= inserted + moved
  BY <1>1
<1>3. \A r \in 1..MaxScanned : PlaceIn(rows, r) \in Nat
  BY <1>1, PlaceCounts, TableConstants
<1>4. Got' = Got /\ Twice' = Twice
  <2>1. Got' = Got
    BY <1>0 DEF Got, Table!Returned
  <2>2. QED
    BY <1>0, <2>1 DEF Twice
<1>5. \A q \in Got' : PlaceIn(rows', q) <= scan'.offset + inserted' + moved' - Twice'
  <2>1. TAKE q \in Got'
  <2>2. q \in 1..MaxScanned /\ PlaceIn(rows, q) <= scan.offset + inserted + moved - Twice
    BY <1>4, GotCounts DEF TableInv
  <2>3. PlaceIn(rows', q) \in Nat /\ PlaceIn(rows, q) \in Nat /\ PlaceIn(rows', q) <= PlaceIn(rows, q) + Came
    BY <1>3, <2>2 DEF TableChange
  <2> DEFINE a == PlaceIn(rows', q)
             b == PlaceIn(rows, q)
             i == inserted + moved
             j == inserted' + moved'
  <2>4a. /\ a \in Int /\ b \in Int /\ i \in Int /\ j \in Int /\ Came \in Int
         /\ scan.offset \in Int /\ Twice \in Int
         /\ b <= scan.offset + i - Twice /\ a <= b + Came /\ j = i + Came
    <3>1. a \in Int /\ b \in Int /\ a <= b + Came
      BY <2>3
    <3>2. b <= scan.offset + i - Twice
      BY <2>2, <2>3, <1>1, <1>2d
    <3>3. QED
      BY <3>1, <3>2, <1>2b, <1>2c, <1>2d, <1>2e
  <2> HIDE DEF a, b, i, j
  <2>4b. a <= scan.offset + j - Twice
    BY <2>4a, SumsMove
  <2>4. PlaceIn(rows', q) <= scan.offset + (inserted' + moved') - Twice
    BY <2>4b DEF a, j
  <2>5. QED
    BY <1>0, <1>1, <1>2a, <1>4, <2>4
(* At most the row right behind the offset moves before it.                *)
<1>6. Cardinality(Passed') <= deleted' + moved'
  <2> DEFINE next == Between(rows, scan.offset, scan.offset + Gone)
  <2>1. Passed' \in SUBSET (Passed \cup next)
    <3>1. SUFFICES ASSUME NEW r \in Passed' PROVE r \in Passed \cup next
      OBVIOUS
    <3>2. r \in kept /\ r \in rows /\ r \in 1..MaxScanned /\ r \notin Got /\ PlaceIn(rows', r) <= scan.offset
      BY <1>0, <1>1, <1>4 DEF Passed, TableChange
    <3>3. PlaceIn(rows, r) \in Nat /\ PlaceIn(rows, r) <= scan.offset + Gone
      BY <1>1, <1>3, <3>2 DEF TableChange
    <3>4. QED
      BY <1>1, <3>2, <3>3 DEF Passed, Between
  <2>2. Passed \in SUBSET rows
    BY <1>1 DEF Passed
  <2>3. IsFiniteSet(Passed) /\ Cardinality(Passed) \in Nat
    BY <2>2, RowsAreFinite
  <2>4. IsFiniteSet(next) /\ Cardinality(next) \in Nat /\ Cardinality(next) <= Gone
    <3>1. scan.offset + Gone \in Int /\ (scan.offset + Gone) - scan.offset = Gone
      BY <1>1, <1>2a
    <3>2. IsFiniteSet(next) /\ Cardinality(next) \in Nat
      BY <1>1, <3>1, BetweenBound
    <3>3. CASE Gone = 0
      <4>1. scan.offset + Gone <= scan.offset
        BY <1>1, <3>3
      <4>2. Cardinality(next) = 0
        BY <1>1, <3>1, <4>1, BetweenBound
      <4>3. QED
        BY <3>2, <3>3, <4>2
    <3>4. CASE Gone = 1
      <4>1. scan.offset + Gone > scan.offset
        BY <1>1, <3>4
      <4>2. Cardinality(next) <= (scan.offset + Gone) - scan.offset
        BY <1>1, <3>1, <4>1, BetweenBound
      <4>3. QED
        BY <3>1, <3>2, <4>2
    <3>5. QED
      BY <1>2a, <3>3, <3>4
  <2> HIDE DEF next
  <2>5. /\ IsFiniteSet(Passed \cup next) /\ Cardinality(Passed \cap next) \in Nat
        /\ Cardinality(Passed \cup next)
             = Cardinality(Passed) + Cardinality(next) - Cardinality(Passed \cap next)
    BY <2>3, <2>4, FS_Union, FS_Intersection, FS_CardinalityType
  <2>6. Cardinality(Passed') <= Cardinality(Passed \cup next) /\ Cardinality(Passed') \in Nat
    BY <2>1, <2>5, FS_Subset, FS_CardinalityType
  <2>7. Cardinality(Passed) <= deleted + moved
    BY DEF TableInv
  <2> DEFINE a == Cardinality(Passed')
             p == Cardinality(Passed)
             n == Cardinality(next)
             x == Cardinality(Passed \cap next)
             d == deleted + moved
  <2>8a. /\ a \in Int /\ p \in Int /\ n \in Int /\ x \in Int /\ d \in Int /\ Gone \in Int
         /\ a <= p + n - x /\ p <= d /\ n <= Gone /\ x >= 0
    <3>1. /\ a \in Int /\ p \in Int /\ n \in Int /\ x \in Int /\ d \in Int /\ Gone \in Int
          /\ x >= 0
      BY <1>1, <1>2a, <2>3, <2>4, <2>5, <2>6
    <3>2. a <= p + n - x
      BY <2>5, <2>6
    <3>3. p <= d /\ n <= Gone
      BY <2>4, <2>7
    <3>4. QED
      BY <3>1, <3>2, <3>3
  <2> HIDE DEF a, p, n, x, d
  <2>8b. a <= d + Gone
    BY <2>8a, SumsMove
  <2>8. Cardinality(Passed') <= deleted + moved + Gone
    BY <2>8b DEF a, d
  <2>9. QED
    BY <1>2a, <2>8
<1>7. scan'.step \in {"select", "done"} => Cardinality(rows') <= scan'.total + inserted'
  <2>1. scan.step \in {"select", "done"} => Cardinality(rows) <= scan.total + inserted
    BY DEF TableInv
  <2>2. Cardinality(rows') - inserted' <= Cardinality(rows) - inserted
    BY DEF TableChange
  <2>3. QED
    BY <1>0, <1>1, <1>2, <1>2a, <2>1, <2>2
<1>8. /\ scan' \in ScanType /\ scan'.offset = Len(scan'.got)
      /\ scan'.offset <= PageSize * scan'.pages /\ scan'.pages <= MaxPages
      /\ scan'.step \in {"count", "select"} => scan'.pages < MaxPages
      /\ scan'.total <= MaxScanned
      /\ scan'.step = "done" /\ scan'.pages < MaxPages => scan'.total <= scan'.offset
  <2>1. /\ scan.offset = Len(scan.got) /\ scan.offset <= PageSize * scan.pages
        /\ scan.pages <= MaxPages /\ scan.total <= MaxScanned
        /\ scan.step \in {"count", "select"} => scan.pages < MaxPages
        /\ scan.step = "done" /\ scan.pages < MaxPages => scan.total <= scan.offset
    BY DEF TableInv
  <2>2. QED
    BY <1>0, <1>1, <2>1
<1>9. Twice' <= inserted' + moved'
  <2> DEFINE i == inserted + moved
             j == inserted' + moved'
  <2>1. /\ i \in Int /\ j \in Int /\ Twice \in Int /\ Came \in Int
        /\ Twice <= i /\ Came >= 0 /\ j = i + Came
    BY <1>2b, <1>2c, <1>2d, <1>2e, <1>2f
  <2> HIDE DEF i, j
  <2>2. Twice <= j
    BY <2>1, SumsMove
  <2>3. QED
    BY <1>4, <2>2 DEF j
<1>10. /\ written' \in 0..MaxScanned /\ rows' \in SUBSET (1..MaxScanned) /\ kept' \in SUBSET rows'
       /\ inserted' + moved' <= written' /\ deleted' + Cardinality(rows') <= written'
  BY DEF TableChange
<1>11. QED
  BY <1>2a, <1>5, <1>6, <1>7, <1>8, <1>9, <1>10 DEF TableInv

LEMMA TableNow ==
  ASSUME TableInv
  PROVE  /\ rows \in SUBSET (1..MaxScanned) /\ rows \in SUBSET Nat /\ 1..MaxScanned \in SUBSET Nat
         /\ IsFiniteSet(rows) /\ Cardinality(rows) \in Nat
         /\ written \in 0..MaxScanned /\ inserted \in Nat /\ deleted \in Nat /\ moved \in Nat
         /\ inserted + moved <= written /\ deleted + Cardinality(rows) <= written
         /\ kept \in SUBSET rows
  BY RowsAreFinite, TableConstants DEF TableInv

LEMMA TableInsert ==
  ASSUME TableInv, NEW x \in 1..MaxScanned, Table!Insert(x)
  PROVE  TableInv'
<1>1. /\ x \notin rows /\ rows' = rows \cup {x} /\ written' = written + 1 /\ written < MaxScanned
      /\ inserted' = inserted + 1 /\ scan' = scan /\ kept' = kept /\ deleted' = deleted /\ moved' = moved
  BY DEF Table!Insert
<1>2. Cardinality(rows') = Cardinality(rows) + 1
  BY <1>1, TableNow, FS_AddElement
<1>3. \A r \in 1..MaxScanned : /\ PlaceIn(rows', r) \in Nat /\ PlaceIn(rows, r) \in Nat
                               /\ PlaceIn(rows', r) <= PlaceIn(rows, r) + 1
                               /\ PlaceIn(rows, r) <= PlaceIn(rows', r)
  BY <1>1, TableNow, PlaceAfterInsert
<1>4. \A r \in 1..MaxScanned : PlaceIn(rows, r) <= PlaceIn(rows', r) + 0
  BY <1>3
<1>5. /\ rows' \in SUBSET (1..MaxScanned) /\ kept' \in SUBSET (kept \cap rows')
      /\ written' \in 0..MaxScanned /\ inserted' \in Nat /\ deleted' \in Nat /\ moved' \in Nat
      /\ inserted' + moved' <= written' /\ deleted' + Cardinality(rows') <= written'
      /\ Cardinality(rows') - inserted' <= Cardinality(rows) - inserted
  BY <1>1, <1>2, TableNow, TableConstants
<1>6. Came = 1 /\ Gone = 0
  BY <1>1, TableNow DEF Came, Gone
<1>7. TableChange
  BY <1>1, <1>3, <1>4, <1>5, <1>6 DEF TableChange
<1>8. QED
  BY <1>7, TableChanges

LEMMA TableDelete ==
  ASSUME TableInv, NEW x, Table!Delete(x)
  PROVE  TableInv'
<1>1. /\ x \in rows /\ rows' = rows \ {x} /\ kept' = kept \ {x} /\ deleted' = deleted + 1
      /\ written' = written /\ scan' = scan /\ inserted' = inserted /\ moved' = moved
  BY DEF Table!Delete
<1>2. Cardinality(rows') = Cardinality(rows) - 1
  BY <1>1, TableNow, FS_RemoveElement
<1>3. \A r \in 1..MaxScanned : /\ PlaceIn(rows', r) \in Nat /\ PlaceIn(rows, r) \in Nat
                               /\ PlaceIn(rows', r) <= PlaceIn(rows, r)
                               /\ PlaceIn(rows, r) <= PlaceIn(rows', r) + 1
  BY <1>1, TableNow, PlaceAfterDelete
<1>4. \A r \in 1..MaxScanned : PlaceIn(rows', r) <= PlaceIn(rows, r) + 0
  BY <1>3
<1>5. /\ rows' \in SUBSET (1..MaxScanned) /\ kept' \in SUBSET (kept \cap rows')
      /\ written' \in 0..MaxScanned /\ inserted' \in Nat /\ deleted' \in Nat /\ moved' \in Nat
      /\ inserted' + moved' <= written' /\ deleted' + Cardinality(rows') <= written'
      /\ Cardinality(rows') - inserted' <= Cardinality(rows) - inserted
  BY <1>1, <1>2, TableNow, TableConstants
<1>6. Came = 0 /\ Gone = 1
  BY <1>1, TableNow DEF Came, Gone
<1>7. TableChange
  BY <1>1, <1>3, <1>4, <1>5, <1>6 DEF TableChange
<1>8. QED
  BY <1>7, TableChanges

LEMMA TableMove ==
  ASSUME TableInv, NEW x, NEW y \in 1..MaxScanned, Table!Move(x, y)
  PROVE  TableInv'
<1>1. /\ x \in rows /\ y \notin rows /\ rows' = (rows \ {x}) \cup {y} /\ kept' = kept \ {x}
      /\ written' = written + 1 /\ written < MaxScanned /\ moved' = moved + 1
      /\ scan' = scan /\ inserted' = inserted /\ deleted' = deleted
  BY DEF Table!Move
<1> DEFINE R == rows \ {x}
<1>2. /\ R \in SUBSET Nat /\ IsFiniteSet(R) /\ Cardinality(R) = Cardinality(rows) - 1 /\ y \notin R
  BY <1>1, TableNow, FS_RemoveElement
<1>3. \A r \in 1..MaxScanned : /\ PlaceIn(R, r) \in Nat /\ PlaceIn(rows, r) \in Nat
                               /\ PlaceIn(R, r) <= PlaceIn(rows, r)
                               /\ PlaceIn(rows, r) <= PlaceIn(R, r) + 1
  BY <1>1, TableNow, PlaceAfterDelete
<1> HIDE DEF R
<1>4. Cardinality(rows') = Cardinality(rows)
  <2>1. rows' = R \cup {y}
    BY <1>1 DEF R
  <2>2. Cardinality(rows') = Cardinality(R) + 1
    BY <1>2, <2>1, FS_AddElement
  <2>3. QED
    BY <1>2, <2>2, TableNow
<1>5. \A r \in 1..MaxScanned : /\ PlaceIn(rows', r) \in Nat
                               /\ PlaceIn(R, r) <= PlaceIn(rows', r)
                               /\ PlaceIn(rows', r) <= PlaceIn(R, r) + 1
  <2>1. rows' = R \cup {y}
    BY <1>1 DEF R
  <2>2. QED
    BY <1>2, <2>1, TableNow, PlaceAfterInsert
<1>6. \A r \in 1..MaxScanned : /\ PlaceIn(rows', r) <= PlaceIn(rows, r) + 1
                               /\ PlaceIn(rows, r) <= PlaceIn(rows', r) + 1
  BY <1>3, <1>5
<1>7. /\ rows' \in SUBSET (1..MaxScanned) /\ kept' \in SUBSET (kept \cap rows')
      /\ written' \in 0..MaxScanned /\ inserted' \in Nat /\ deleted' \in Nat /\ moved' \in Nat
      /\ inserted' + moved' <= written' /\ deleted' + Cardinality(rows') <= written'
      /\ Cardinality(rows') - inserted' <= Cardinality(rows) - inserted
  BY <1>1, <1>4, TableNow, TableConstants
<1>8. Came = 1 /\ Gone = 1
  BY <1>1, TableNow DEF Came, Gone
<1>9. TableChange
  BY <1>1, <1>5, <1>6, <1>7, <1>8 DEF TableChange
<1>10. QED
  BY <1>9, TableChanges

LEMMA TableStays ==
  ASSUME TableInv, UNCHANGED tableVars
  PROVE  TableInv'
<1>1. /\ rows' = rows /\ written' = written /\ scan' = scan /\ kept' = kept
      /\ inserted' = inserted /\ deleted' = deleted /\ moved' = moved
  BY DEF tableVars
<1>2. Got' = Got
  BY <1>1 DEF Got, Table!Returned
<1>3. Twice' = Twice /\ Passed' = Passed
  BY <1>1, <1>2 DEF Twice, Passed
<1>4. QED
  BY <1>1, <1>2, <1>3 DEF TableInv

LEMMA TableStepKeeps == TableInv /\ [RecordsNext]_allVars => TableInv'
<1>1. SUFFICES ASSUME TableInv, [RecordsNext]_allVars PROVE TableInv'
  OBVIOUS
<1>2. CASE TableStep
  <2>1. Table!Next
    BY <1>2 DEF TableStep
  <2>2. QED
    BY <1>1, <2>1, TableBegin, TableCount, TableSelect, TableInsert, TableDelete, TableMove
       DEF Table!Next, Table!Rows
<1>3. CASE UNCHANGED tableVars
  BY <1>1, <1>3, TableStays
<1>4. QED
  BY <1>1, <1>2, <1>3
     DEF RecordsNext, NumberStep, FieldStep, LinkStep, RoleStep, allVars

LEMMA TableIsBounded == TableInv => ScanBounded
<1>1. SUFFICES ASSUME TableInv
               PROVE  Table!TypeInv /\ Table!MissedBounded /\ Table!RepeatedBounded
  BY DEF ScanBounded
<1>2. /\ rows \in SUBSET Nat /\ IsFiniteSet(rows) /\ Cardinality(rows) \in Nat
      /\ scan \in ScanType /\ scan.offset \in Nat /\ scan.total \in Nat
      /\ inserted \in Nat /\ deleted \in Nat /\ moved \in Nat /\ kept \in SUBSET rows
  BY <1>1, RowsAreFinite DEF TableInv, ScanType
<1>3. Table!TypeInv
  <2>1. scan.offset \in 0..(PageSize * MaxPages)
    <3>1. scan.pages \in Nat /\ scan.pages <= MaxPages /\ scan.offset <= PageSize * scan.pages
      BY <1>1, <1>2 DEF TableInv, ScanType
    <3>2. \A a, b, c \in Nat : a <= b => c * a <= c * b /\ c * a \in Nat /\ c * b \in Nat
      OBVIOUS
    <3> DEFINE read == PageSize * scan.pages
               most == PageSize * MaxPages
    <3>3. read <= most /\ read \in Nat /\ most \in Nat
      BY <3>1, <3>2, TableConstants
    <3> HIDE DEF read, most
    <3>4. scan.offset <= read
      BY <3>1 DEF read
    <3>5. scan.offset \in 0..most
      BY <1>2, <3>3, <3>4
    <3>6. QED
      BY <3>5 DEF most
  <2>2. inserted \in 0..MaxScanned /\ deleted \in 0..MaxScanned /\ moved \in 0..MaxScanned
    <3>1. /\ written \in Nat /\ written <= MaxScanned /\ inserted + moved <= written
          /\ deleted + Cardinality(rows) <= written
      BY <1>1, TableConstants DEF TableInv
    <3>2. QED
      BY <1>2, <3>1, TableConstants
  <2>3. /\ rows \subseteq Table!Rows /\ written \in 0..MaxScanned /\ kept \subseteq rows
        /\ scan.total \in 0..MaxScanned /\ scan.pages \in 0..MaxPages
        /\ scan.step \in Table!Steps /\ scan.got \in Seq(Table!Rows)
    BY <1>1, TableConstants DEF TableInv, ScanType, Table!Rows
  <2>4. QED
    BY <2>1, <2>2, <2>3 DEF Table!TypeInv
<1>4. Table!RepeatedBounded
  BY <1>1, TableCardinality DEF TableInv, Twice, Got, Table!RepeatedBounded, Table!Repeated
<1>5. Table!MissedBounded
  <2> DEFINE missed == kept \ Got
             behind == Between(rows, scan.offset, Cardinality(rows))
  <2>1. SUFFICES ASSUME scan.step = "done", scan.pages < MaxPages
                 PROVE  Cardinality(missed) <= inserted + deleted + moved
    BY TableCardinality DEF Table!MissedBounded, Table!Missed, Got
  <2>2. missed \in SUBSET (Passed \cup behind)
    <3>1. \A r \in rows : PlaceIn(rows, r) \in 1..Cardinality(rows)
      BY <1>2, PlaceRange
    <3>2. \A p \in 1..Cardinality(rows) :
             p <= scan.offset \/ p \in (scan.offset + 1)..Cardinality(rows)
      BY <1>2
    <3>3. QED
      BY <1>2, <3>1, <3>2 DEF Passed, Between
  <2>3. IsFiniteSet(Passed) /\ Cardinality(Passed) \in Nat /\ Cardinality(Passed) <= deleted + moved
    <3>1. Passed \in SUBSET rows
      BY <1>2 DEF Passed
    <3>2. QED
      BY <1>1, <3>1, RowsAreFinite DEF TableInv
  <2>4. Cardinality(rows) - scan.offset <= inserted
    BY <1>1, <1>2, <2>1 DEF TableInv
  <2>5. IsFiniteSet(behind) /\ Cardinality(behind) \in Nat /\ Cardinality(behind) <= inserted
    <3>1. Cardinality(rows) \in Int
      BY <1>2
    <3>2. IsFiniteSet(behind) /\ Cardinality(behind) \in Nat
      BY <1>2, <3>1, BetweenBound
    <3>3. CASE Cardinality(rows) > scan.offset
      <4>1. Cardinality(behind) <= Cardinality(rows) - scan.offset
        BY <1>2, <3>1, <3>3, BetweenBound
      <4> HIDE DEF behind
      <4>2. QED
        BY <1>2, <2>4, <3>2, <4>1
    <3>4. CASE Cardinality(rows) <= scan.offset
      <4>1. Cardinality(behind) = 0
        BY <1>2, <3>1, <3>4, BetweenBound
      <4> HIDE DEF behind
      <4>2. QED
        BY <1>2, <3>2, <4>1
    <3>5. QED
      BY <1>2, <3>3, <3>4
  <2> HIDE DEF missed, behind
  <2>6. /\ IsFiniteSet(Passed \cup behind) /\ Cardinality(Passed \cap behind) \in Nat
        /\ Cardinality(Passed \cup behind)
             = Cardinality(Passed) + Cardinality(behind) - Cardinality(Passed \cap behind)
    BY <2>3, <2>5, FS_Union, FS_Intersection, FS_CardinalityType
  <2>7. Cardinality(missed) <= Cardinality(Passed \cup behind) /\ Cardinality(missed) \in Nat
    BY <2>2, <2>6, FS_Subset, FS_CardinalityType
  <2>8. QED
    BY <1>2, <2>3, <2>5, <2>6, <2>7
<1>6. QED
  BY <1>3, <1>4, <1>5

(* A scan by offsets that is not cut short misses no more of the rows that  *)
(* stayed in their places than came, went and moved meanwhile, and returns  *)
(* no more places a second time than came and moved, for any table, page    *)
(* size and order of the changes (search, sql-store).                       *)
THEOREM ScanIsBounded == RecordsSpec => []ScanBounded
<1>1. RecordsInit => TableInv
  BY TableInit DEF RecordsInit
<1>2. RecordsSpec => []TableInv
  BY <1>1, TableStepKeeps, PTL DEF RecordsSpec
<1>3. QED
  BY <1>2, TableIsBounded, PTL

-----------------------------------------------------------------------------
(* The options of a field (FieldOptions).                                  *)

(* The strengthening.  The list a request is to put into the cache, or to   *)
(* change and write back, is the one in the database unless a change came   *)
(* between; the request knows one option, but for a reader, who never       *)
(* writes; and a user who has the role being deleted was given it since.    *)
FieldShape == [kind : Field!Kinds, step : Field!Steps, arg : SUBSET Options,
               seen : SUBSET Options, over : BOOLEAN, given : BOOLEAN]

SeenIsCurrent(r) == r.step \in {"fill", "write"} /\ ~r.over => r.seen = options

KindsInOrder(r) ==
    /\ r.step = "used" => r.kind = "remove"
    /\ r.step = "select" => r.kind = "sync"
    /\ r.step = "write" => r.kind # "read"

OneOption(r) == r.step # "idle" /\ r.kind # "read" => \E o \in Options : r.arg = {o}

NewlyGiven(r) ==
    r.kind = "remove" /\ r.step \notin {"idle", "used"} /\ r.arg \cap assigned # {} => r.given

InOrder(r) ==
    r \in FieldShape /\ SeenIsCurrent(r) /\ KindsInOrder(r) /\ OneOption(r) /\ NewlyGiven(r)

FieldInv ==
    /\ Field!TypeInv /\ Field!StaleHasCause
    /\ \A t \in Requests : InOrder(task[t])

LEMMA IdleFieldTask ==
  /\ Field!IdleTask \in FieldShape /\ Field!IdleTask.step = "idle" /\ Field!IdleTask.kind = "read"
  /\ Field!IdleTask.over = FALSE /\ Field!IdleTask.given = FALSE
  BY DEF Field!IdleTask, FieldShape, Field!Kinds, Field!Steps

Begun(kind, step, arg) == [Field!IdleTask EXCEPT !.kind = kind, !.step = step, !.arg = arg]

LEMMA BegunFieldTask ==
  ASSUME NEW kind \in Field!Kinds, NEW step \in Field!Steps, NEW arg \in SUBSET Options
  PROVE  /\ Begun(kind, step, arg) \in FieldShape /\ Begun(kind, step, arg).kind = kind
         /\ Begun(kind, step, arg).step = step /\ Begun(kind, step, arg).arg = arg
  BY IdleFieldTask DEF FieldShape, Begun

LEMMA AfterListSteps ==
  ASSUME NEW kind \in Field!Kinds, NEW arg, NEW list
  PROVE  /\ Field!AfterList(kind, arg, list) \in {"idle", "write", "select"}
         /\ Field!AfterList(kind, arg, list) = "select" => kind = "sync"
         /\ Field!AfterList(kind, arg, list) = "write" => kind # "read"
  BY DEF Field!AfterList, Field!Kinds

LEMMA FieldInit == Field!Init => FieldInv
<1> SUFFICES ASSUME Field!Init PROVE FieldInv
  OBVIOUS
<1>1. \A t \in Requests : task[t] = Field!IdleTask
  BY DEF Field!Init
<1>2. Field!TypeInv
  BY IdleFieldTask DEF Field!Init, Field!TypeInv, FieldShape
<1>3. QED
  BY <1>1, <1>2, IdleFieldTask
     DEF Field!Init, FieldInv, Field!StaleHasCause,
         InOrder, SeenIsCurrent, KindsInOrder, OneOption, NewlyGiven

(* What a request that takes the next step does to its own entry, the       *)
(* others being as they were.                                               *)
LEMMA FieldGoes ==
  ASSUME task \in [Requests -> FieldShape], NEW t \in Requests, NEW step \in Field!Steps,
         Field!Goes(t, step)
  PROVE  /\ task' \in [Requests -> FieldShape]
         /\ \A u \in Requests \ {t} : task'[u] = task[u]
         /\ step = "idle" => task'[t] = Field!IdleTask
         /\ step # "idle" => task'[t] = [task[t] EXCEPT !.step = step]
<1>1. CASE step = "idle"
  BY <1>1, IdleFieldTask DEF Field!Goes
<1>2. CASE step # "idle"
  <2>1. [task[t] EXCEPT !.step = step] \in FieldShape
    BY DEF FieldShape
  <2>2. task' = [task EXCEPT ![t] = [task[t] EXCEPT !.step = step]]
    BY <1>2 DEF Field!Goes
  <2>3. QED
    BY <1>2, <2>1, <2>2
<1>3. QED
  BY <1>1, <1>2

LEMMA FieldHas ==
  ASSUME FieldInv
  PROVE  /\ task \in [Requests -> FieldShape] /\ options \in SUBSET Options
         /\ assigned \in SUBSET Options /\ sticky \in BOOLEAN
         /\ \A list \in cache : list \in SUBSET Options
         /\ \A t \in Requests : InOrder(task[t])
  BY DEF FieldInv, Field!TypeInv, FieldShape

(* A step that leaves the options and the users alone, and one entry in     *)
(* order, keeps the invariant if the cache has a reason to be stale.        *)
LEMMA FieldOneMoves ==
  ASSUME FieldInv, NEW t \in Requests,
         UNCHANGED <<options, assigned>>,
         task' \in [Requests -> FieldShape],
         \A u \in Requests \ {t} : task'[u] = task[u],
         InOrder(task[t])',
         cache' \in {{}} \cup {{list} : list \in SUBSET Options}, sticky' \in BOOLEAN,
         Field!StaleHasCause'
  PROVE  FieldInv'
<1>1. Field!TypeInv'
  BY DEF FieldInv, Field!TypeInv, FieldShape
<1>2. ASSUME NEW u \in Requests PROVE InOrder(task[u])'
  <2>1. CASE u = t
    BY <2>1
  <2>2. CASE u # t
    BY <2>2, FieldHas DEF InOrder, SeenIsCurrent, KindsInOrder, OneOption, NewlyGiven
  <2>3. QED
    BY <2>1, <2>2
<1>3. QED
  BY <1>1, <1>2 DEF FieldInv

(* While the cache and the entries being cleared stay, the cache stays as   *)
(* good as it was.                                                          *)
LEMMA FieldCacheStays ==
  ASSUME FieldInv, NEW t \in Requests, UNCHANGED <<options, cache, sticky>>,
         \A u \in Requests \ {t} : task'[u] = task[u],
         task[t].step # "clear"
  PROVE  /\ Field!StaleHasCause' /\ sticky' \in BOOLEAN
         /\ cache' \in {{}} \cup {{list} : list \in SUBSET Options}
<1>1. Field!Clearing => Field!Clearing'
  BY DEF Field!Clearing
<1>2. QED
  BY <1>1 DEF FieldInv, Field!TypeInv, Field!StaleHasCause

LEMMA FieldBegin ==
  ASSUME FieldInv, NEW t \in Requests, Field!Begin(t)
  PROVE  FieldInv'
<1>1. PICK kind \in Field!Kinds, o \in Options :
         task' = [task EXCEPT ![t] =
                    [Field!IdleTask EXCEPT !.kind = kind,
                                           !.step = IF kind = "remove" THEN "used" ELSE "list",
                                           !.arg = IF kind = "read" THEN {} ELSE {o}]]
  BY DEF Field!Begin
<1> DEFINE step == IF kind = "remove" THEN "used" ELSE "list"
           arg  == IF kind = "read" THEN {} ELSE {o}
           new  == Begun(kind, step, arg)
<1>2. step \in Field!Steps /\ step \in {"used", "list"} /\ arg \in SUBSET Options
  BY DEF Field!Steps
<1>3. new \in FieldShape /\ new.kind = kind /\ new.step = step /\ new.arg = arg
  <2> HIDE DEF step, arg
  <2>1. QED
    BY <1>2, BegunFieldTask
<1>4. task' = [task EXCEPT ![t] = new] /\ task[t].step = "idle"
  BY <1>1 DEF Field!Begin, Begun
<1>5. UNCHANGED <<options, cache, assigned, sticky>>
  BY DEF Field!Begin
<1>6. /\ new.step \in {"used", "list"}
      /\ new.step = "used" => new.kind = "remove"
      /\ new.kind = "remove" => new.step = "used"
      /\ new.kind # "read" => new.arg = {o}
  BY <1>3
<1> HIDE DEF new
<1>7. /\ task' \in [Requests -> FieldShape] /\ task'[t] = new
      /\ \A u \in Requests \ {t} : task'[u] = task[u]
  BY <1>3, <1>4, FieldHas
<1>8. InOrder(task[t])'
  BY <1>3, <1>6, <1>7 DEF InOrder, SeenIsCurrent, KindsInOrder, OneOption, NewlyGiven
<1>9. QED
  BY <1>4, <1>5, <1>7, <1>8, FieldOneMoves, FieldCacheStays

LEMMA FieldCheckUsed ==
  ASSUME FieldInv, NEW t \in Requests, Field!CheckUsed(t)
  PROVE  FieldInv'
<1> DEFINE step == IF task[t].arg \cap assigned # {} THEN "idle" ELSE "list"
<1>1. Field!Goes(t, step) /\ step \in Field!Steps /\ task[t].step = "used"
  BY DEF Field!CheckUsed, Field!Steps
<1>2. /\ task' \in [Requests -> FieldShape]
      /\ \A u \in Requests \ {t} : task'[u] = task[u]
      /\ step = "idle" => task'[t] = Field!IdleTask
      /\ step # "idle" => task'[t] = [task[t] EXCEPT !.step = step]
  BY <1>1, FieldHas, FieldGoes
<1>3. UNCHANGED <<options, cache, assigned, sticky>>
  BY DEF Field!CheckUsed
<1>4. InOrder(task[t])'
  <2>1. InOrder(task[t]) /\ task[t] \in FieldShape
    BY FieldHas DEF InOrder
  <2>2. CASE step = "idle"
    BY <1>2, <2>2, IdleFieldTask DEF InOrder, SeenIsCurrent, KindsInOrder, OneOption, NewlyGiven
  <2>3. CASE step # "idle"
    <3>1. task[t].arg \cap assigned = {} /\ step = "list"
      BY <2>3
    <3>2. /\ task'[t].step = "list" /\ task'[t].arg = task[t].arg /\ task'[t].kind = task[t].kind
          /\ task'[t] \in FieldShape
      BY <1>2, <2>1, <3>1 DEF FieldShape
    <3>3. QED
      BY <1>1, <1>3, <2>1, <3>1, <3>2 DEF InOrder, SeenIsCurrent, KindsInOrder, OneOption, NewlyGiven
  <2>4. QED
    BY <2>2, <2>3
<1>5. QED
  BY <1>1, <1>2, <1>3, <1>4, FieldOneMoves, FieldCacheStays

LEMMA FieldListCached ==
  ASSUME FieldInv, NEW t \in Requests, Field!ListCached(t)
  PROVE  FieldInv'
<1>1. PICK list \in cache :
         LET next == Field!AfterList(task[t].kind, task[t].arg, list)
         IN  task' = [task EXCEPT ![t] =
                        IF next = "idle" THEN Field!IdleTask
                        ELSE [task[t] EXCEPT !.step = next, !.seen = list, !.over = sticky \/ Field!Clearing]]
  BY DEF Field!ListCached
<1> DEFINE next == Field!AfterList(task[t].kind, task[t].arg, list)
           over == sticky \/ Field!Clearing
           went == [task[t] EXCEPT !.step = next, !.seen = list, !.over = over]
           new  == IF next = "idle" THEN Field!IdleTask ELSE went
<1>2. /\ InOrder(task[t]) /\ task[t] \in FieldShape /\ task[t].step = "list"
      /\ UNCHANGED <<options, cache, assigned, sticky>> /\ list \in SUBSET Options
  BY FieldHas DEF InOrder, Field!ListCached
<1>3. /\ next \in {"idle", "write", "select"} /\ (next = "select" => task[t].kind = "sync")
      /\ next = "write" => task[t].kind # "read"
  <2>1. task[t].kind \in Field!Kinds
    BY <1>2 DEF FieldShape
  <2>2. QED
    BY <2>1, AfterListSteps
<1>4. over \in BOOLEAN /\ (~over => list = options)
  <2>1. ~over => cache \subseteq {options}
    BY DEF FieldInv, Field!StaleHasCause
  <2>2. QED
    BY <2>1, FieldHas
<1>5. task' = [task EXCEPT ![t] = new]
  BY <1>1
<1> HIDE DEF next, over
<1>6. went \in FieldShape
  BY <1>2, <1>3, <1>4 DEF FieldShape, Field!Steps
<1>7. /\ task' \in [Requests -> FieldShape] /\ task'[t] = new
      /\ \A u \in Requests \ {t} : task'[u] = task[u]
  BY <1>5, <1>6, FieldHas, IdleFieldTask
<1>8. InOrder(task[t])'
  <2>1. CASE next = "idle"
    BY <1>7, <2>1, IdleFieldTask DEF InOrder, SeenIsCurrent, KindsInOrder, OneOption, NewlyGiven
  <2>2. CASE next # "idle"
    <3>1. /\ went.step = next /\ went.seen = list /\ went.over = over /\ went.arg = task[t].arg
          /\ went.kind = task[t].kind /\ went.given = task[t].given
      BY <1>2 DEF FieldShape
    <3>2. task'[t] = went
      BY <1>7, <2>2
    <3> HIDE DEF went
    <3>3. QED
      BY <1>2, <1>3, <1>4, <1>6, <3>1, <3>2
         DEF InOrder, SeenIsCurrent, KindsInOrder, OneOption, NewlyGiven
  <2>3. QED
    BY <2>1, <2>2
<1>9. QED
  BY <1>2, <1>7, <1>8, FieldOneMoves, FieldCacheStays

LEMMA FieldListQuery ==
  ASSUME FieldInv, NEW t \in Requests, Field!ListQuery(t)
  PROVE  FieldInv'
<1> DEFINE new == [task[t] EXCEPT !.step = "fill", !.seen = options]
<1>1. /\ InOrder(task[t]) /\ task[t] \in FieldShape /\ task[t].step = "list"
      /\ UNCHANGED <<options, cache, assigned, sticky>>
      /\ task' = [task EXCEPT ![t] = new]
  BY FieldHas DEF InOrder, Field!ListQuery
<1>2. /\ new \in FieldShape /\ new.step = "fill" /\ new.seen = options /\ new.arg = task[t].arg
      /\ new.kind = task[t].kind /\ new.given = task[t].given
  BY <1>1, FieldHas DEF FieldShape, Field!Steps
<1> HIDE DEF new
<1>3. /\ task' \in [Requests -> FieldShape] /\ task'[t] = new
      /\ \A u \in Requests \ {t} : task'[u] = task[u]
  BY <1>1, <1>2, FieldHas
<1>4. InOrder(task[t])'
  BY <1>1, <1>2, <1>3 DEF InOrder, SeenIsCurrent, KindsInOrder, OneOption, NewlyGiven
<1>5. QED
  BY <1>1, <1>3, <1>4, FieldOneMoves, FieldCacheStays

LEMMA FieldFillCache ==
  ASSUME FieldInv, NEW t \in Requests, Field!FillCache(t)
  PROVE  FieldInv'
<1> DEFINE next == Field!AfterList(task[t].kind, task[t].arg, task[t].seen)
<1>1. /\ InOrder(task[t]) /\ task[t] \in FieldShape /\ task[t].step = "fill"
      /\ UNCHANGED <<options, assigned>> /\ cache' = {task[t].seen} /\ sticky' = task[t].over
      /\ Field!Goes(t, next)
  BY FieldHas DEF InOrder, Field!FillCache
<1>2. /\ next \in {"idle", "write", "select"} /\ (next = "select" => task[t].kind = "sync")
      /\ next = "write" => task[t].kind # "read"
  <2>1. task[t].kind \in Field!Kinds
    BY <1>1 DEF FieldShape
  <2>2. QED
    BY <2>1, AfterListSteps
<1> HIDE DEF next
<1>3. /\ task' \in [Requests -> FieldShape]
      /\ \A u \in Requests \ {t} : task'[u] = task[u]
      /\ next = "idle" => task'[t] = Field!IdleTask
      /\ next # "idle" => task'[t] = [task[t] EXCEPT !.step = next]
  <2>1. next \in Field!Steps
    BY <1>2 DEF Field!Steps
  <2>2. QED
    BY <1>1, <2>1, FieldHas, FieldGoes
<1>4. InOrder(task[t])'
  <2>1. CASE next = "idle"
    BY <1>3, <2>1, IdleFieldTask DEF InOrder, SeenIsCurrent, KindsInOrder, OneOption, NewlyGiven
  <2>2. CASE next # "idle"
    <3>1. LET new == [task[t] EXCEPT !.step = next]
          IN  /\ new.step = next /\ new.seen = task[t].seen /\ new.over = task[t].over
              /\ new.arg = task[t].arg /\ new.kind = task[t].kind /\ new.given = task[t].given
      BY <1>1 DEF FieldShape
    <3>2. QED
      BY <1>1, <1>2, <1>3, <2>2, <3>1
         DEF InOrder, SeenIsCurrent, KindsInOrder, OneOption, NewlyGiven
  <2>3. QED
    BY <2>1, <2>2
<1>5. /\ cache' \in {{}} \cup {{list} : list \in SUBSET Options} /\ sticky' \in BOOLEAN
      /\ ~sticky' => cache' = {options'}
  BY <1>1 DEF FieldShape, InOrder, SeenIsCurrent
<1>6. Field!StaleHasCause'
  BY <1>5 DEF Field!StaleHasCause
<1>7. QED
  BY <1>1, <1>3, <1>4, <1>5, <1>6, FieldOneMoves

LEMMA FieldSelect ==
  ASSUME FieldInv, NEW t \in Requests, Field!SelectField(t)
  PROVE  FieldInv'
<1> DEFINE new == [task[t] EXCEPT !.step = "write", !.seen = options, !.over = FALSE]
<1>1. /\ InOrder(task[t]) /\ task[t] \in FieldShape /\ task[t].step = "select"
      /\ UNCHANGED <<options, cache, assigned, sticky>>
      /\ task' = [task EXCEPT ![t] = new]
  BY FieldHas DEF InOrder, Field!SelectField
<1>2. /\ new \in FieldShape /\ new.step = "write" /\ new.seen = options /\ new.arg = task[t].arg
      /\ new.kind = task[t].kind /\ new.given = task[t].given
  BY <1>1, FieldHas DEF FieldShape, Field!Steps
<1> HIDE DEF new
<1>3. /\ task' \in [Requests -> FieldShape] /\ task'[t] = new
      /\ \A u \in Requests \ {t} : task'[u] = task[u]
  BY <1>1, <1>2, FieldHas
<1>4. InOrder(task[t])'
  BY <1>1, <1>2, <1>3 DEF InOrder, SeenIsCurrent, KindsInOrder, OneOption, NewlyGiven
<1>5. QED
  BY <1>1, <1>3, <1>4, FieldOneMoves, FieldCacheStays

(* A change overtakes every request that has read the list and is to put it *)
(* somewhere.                                                               *)
LEMMA FieldWrite ==
  ASSUME FieldInv, NEW t \in Requests, Field!WriteField(t)
  PROVE  FieldInv'
<1>1. /\ InOrder(task[t]) /\ task[t] \in FieldShape /\ task[t].step = "write"
      /\ UNCHANGED <<cache, assigned, sticky>>
      /\ options' \in SUBSET Options
  BY FieldHas DEF InOrder, Field!WriteField, FieldShape
<1>2. ASSUME NEW u \in Requests
      PROVE  /\ task'[u] \in FieldShape /\ InOrder(task[u])'
             /\ u = t => task'[u].step = "clear"
  <2> DEFINE done == [task[u] EXCEPT !.step = "clear"]
             past == task[u].over \/ task[u].step \in {"fill", "write"}
             late == [task[u] EXCEPT !.over = past]
  <2>1. /\ InOrder(task[u]) /\ task[u] \in FieldShape
        /\ u = t => task'[u] = done
        /\ u # t => task'[u] = late
    BY FieldHas DEF InOrder, Field!WriteField
  <2>2. CASE u = t
    <3>1. /\ done \in FieldShape /\ done.step = "clear" /\ done.arg = task[u].arg
          /\ done.kind = task[u].kind /\ done.given = task[u].given
      BY <2>1 DEF FieldShape, Field!Steps
    <3>2. task'[u] = done
      BY <2>1, <2>2
    <3> HIDE DEF done
    <3>3. QED
      BY <1>1, <2>1, <2>2, <3>1, <3>2 DEF InOrder, SeenIsCurrent, KindsInOrder, OneOption, NewlyGiven
  <2>3. CASE u # t
    <3>1. past \in BOOLEAN /\ (task[u].step \in {"fill", "write"} => past)
      BY <2>1 DEF FieldShape
    <3>2. /\ late \in FieldShape /\ late.step = task[u].step /\ late.arg = task[u].arg
          /\ late.kind = task[u].kind /\ late.given = task[u].given /\ late.over = past
      BY <2>1, <3>1 DEF FieldShape
    <3>3. task'[u] = late
      BY <2>1, <2>3
    <3> HIDE DEF late, past
    <3>4. QED
      BY <1>1, <2>1, <2>3, <3>1, <3>2, <3>3
         DEF InOrder, SeenIsCurrent, KindsInOrder, OneOption, NewlyGiven
  <2>4. QED
    BY <2>2, <2>3
<1>3. task' \in [Requests -> FieldShape]
  <2>1. task' = [u \in Requests |-> task'[u]]
    BY DEF Field!WriteField
  <2>2. QED
    BY <1>2, <2>1
<1>4. Field!TypeInv'
  BY <1>1, <1>3 DEF FieldInv, Field!TypeInv, FieldShape
<1>5. Field!StaleHasCause'
  BY <1>2 DEF Field!StaleHasCause, Field!Clearing
<1>6. QED
  BY <1>2, <1>4, <1>5 DEF FieldInv

LEMMA FieldClear ==
  ASSUME FieldInv, NEW t \in Requests, Field!ClearCache(t)
  PROVE  FieldInv'
<1>1. /\ UNCHANGED <<options, assigned>> /\ cache' = {} /\ sticky' = FALSE
      /\ Field!Goes(t, "idle")
  BY DEF Field!ClearCache
<1>2. /\ task' \in [Requests -> FieldShape]
      /\ \A u \in Requests \ {t} : task'[u] = task[u]
      /\ task'[t] = Field!IdleTask
  BY <1>1, FieldHas, FieldGoes DEF Field!Steps
<1>3. InOrder(task[t])'
  BY <1>2, IdleFieldTask DEF InOrder, SeenIsCurrent, KindsInOrder, OneOption, NewlyGiven
<1>4. Field!StaleHasCause'
  BY <1>1 DEF Field!StaleHasCause
<1>5. QED
  BY <1>1, <1>2, <1>3, <1>4, FieldOneMoves

LEMMA FieldAssign ==
  ASSUME FieldInv, NEW o \in Options, Field!Assign(o)
  PROVE  FieldInv'
<1>1. /\ assigned' = assigned \cup {o} /\ UNCHANGED <<options, cache, sticky>>
      /\ assigned' \in SUBSET Options
  BY FieldHas DEF Field!Assign
<1>2. ASSUME NEW u \in Requests
      PROVE  /\ task'[u] \in FieldShape /\ InOrder(task[u])'
             /\ task'[u].step = task[u].step
  <2> DEFINE given == task[u].given \/ o \in task[u].arg
             new   == [task[u] EXCEPT !.given = given]
  <2>1. /\ InOrder(task[u]) /\ task[u] \in FieldShape /\ task'[u] = new
    BY FieldHas DEF InOrder, Field!Assign
  <2>2. given \in BOOLEAN /\ (task[u].given \/ o \in task[u].arg => given)
    BY <2>1 DEF FieldShape
  <2>3. /\ new \in FieldShape /\ new.step = task[u].step /\ new.arg = task[u].arg
        /\ new.kind = task[u].kind /\ new.given = given /\ new.over = task[u].over
        /\ new.seen = task[u].seen
    BY <2>1, <2>2 DEF FieldShape
  <2> HIDE DEF given, new
  <2>4. QED
    BY <1>1, <2>1, <2>2, <2>3 DEF InOrder, SeenIsCurrent, KindsInOrder, OneOption, NewlyGiven
<1>3. task' \in [Requests -> FieldShape]
  <2>1. task' = [u \in Requests |-> task'[u]]
    BY DEF Field!Assign
  <2>2. QED
    BY <1>2, <2>1
<1>4. Field!TypeInv'
  BY <1>1, <1>3 DEF FieldInv, Field!TypeInv, FieldShape
<1>5. Field!StaleHasCause'
  <2>1. Field!Clearing => Field!Clearing'
    BY <1>2 DEF Field!Clearing
  <2>2. QED
    BY <1>1, <2>1 DEF FieldInv, Field!StaleHasCause
<1>6. QED
  BY <1>2, <1>4, <1>5 DEF FieldInv

LEMMA FieldUnassign ==
  ASSUME FieldInv, NEW o \in Options, Field!Unassign(o)
  PROVE  FieldInv'
<1>1. assigned' = assigned \ {o} /\ UNCHANGED <<options, cache, task, sticky>>
  BY DEF Field!Unassign
<1>2. ASSUME NEW u \in Requests PROVE InOrder(task[u])'
  BY <1>1, FieldHas DEF InOrder, SeenIsCurrent, KindsInOrder, OneOption, NewlyGiven
<1>3. Field!TypeInv'
  BY <1>1 DEF FieldInv, Field!TypeInv
<1>4. Field!StaleHasCause'
  BY <1>1 DEF FieldInv, Field!StaleHasCause, Field!Clearing
<1>5. QED
  BY <1>2, <1>3, <1>4 DEF FieldInv

LEMMA FieldStays ==
  ASSUME FieldInv, UNCHANGED fieldVars
  PROVE  FieldInv'
  BY DEF FieldInv, fieldVars, Field!TypeInv, Field!StaleHasCause, Field!Clearing,
         InOrder, SeenIsCurrent, KindsInOrder, OneOption, NewlyGiven

LEMMA FieldStepKeeps == FieldInv /\ [RecordsNext]_allVars => FieldInv'
<1> SUFFICES ASSUME FieldInv, [RecordsNext]_allVars PROVE FieldInv'
  OBVIOUS
<1>1. ASSUME Field!Next PROVE FieldInv'
  BY <1>1, FieldBegin, FieldCheckUsed, FieldListCached, FieldListQuery, FieldFillCache, FieldSelect,
     FieldWrite, FieldClear, FieldAssign, FieldUnassign DEF Field!Next
<1>2. ASSUME UNCHANGED fieldVars PROVE FieldInv'
  BY <1>2, FieldStays
<1>3. Field!Next \/ UNCHANGED fieldVars
  BY DEF RecordsNext, NumberStep, FieldStep, TableStep, LinkStep, RoleStep, allVars, fieldVars
<1>4. QED
  BY <1>1, <1>2, <1>3

(* The action of the property, for one step. *)
OptionLost ==
    \A o \in options \ options', t \in Requests :
        task[t].step = "write" /\ task'[t].step = "clear" /\ ~task[t].over
           => task[t].kind = "remove" /\ task[t].arg = {o} /\ (o \in assigned => task[t].given)

LEMMA FieldStepLoses == FieldInv /\ [RecordsNext]_allVars => [OptionLost]_(Field!vars)
<1> SUFFICES ASSUME FieldInv, [RecordsNext]_allVars,
                    NEW o \in options \ options', NEW t \in Requests,
                    task[t].step = "write", task'[t].step = "clear", ~task[t].over
             PROVE  task[t].kind = "remove" /\ task[t].arg = {o} /\ (o \in assigned => task[t].given)
  BY DEF OptionLost
<1>1. Field!Next
  BY DEF RecordsNext, NumberStep, FieldStep, TableStep, LinkStep, RoleStep, allVars, fieldVars
<1>2. PICK u \in Requests : Field!WriteField(u)
  BY <1>1 DEF Field!Next, Field!Begin, Field!CheckUsed, Field!ListCached, Field!ListQuery,
              Field!FillCache, Field!SelectField, Field!ClearCache, Field!Assign, Field!Unassign
<1>3. u = t
  <2>1. CASE u # t
    <3>1. task'[t] = [task[t] EXCEPT !.over = @ \/ task[t].step \in {"fill", "write"}]
      BY <1>2, <2>1 DEF Field!WriteField
    <3>2. task'[t].step = "write"
      BY <3>1, FieldHas DEF FieldShape
    <3>3. QED
      BY <3>2
  <2>2. QED
    BY <2>1
<1>4. InOrder(task[t]) /\ task[t].seen = options
  BY FieldHas DEF InOrder, SeenIsCurrent
<1>5. task[t].kind = "remove" /\ o \in task[t].arg
  BY <1>2, <1>3, <1>4 DEF Field!WriteField
<1>6. task[t].arg = {o}
  BY <1>4, <1>5 DEF InOrder, OneOption
<1>7. QED
  BY <1>4, <1>5, <1>6 DEF InOrder, NewlyGiven

(* A cached list of options that differs from the one in the database has a *)
(* cause, and no option is lost by requests that do not overlap, nor one    *)
(* that a user had when the deletion of its role began; for every number of *)
(* requests and options (addFieldOptions, removeRoleOption).                *)
THEOREM OptionsAreKept == RecordsSpec => OptionsKept
<1>1. RecordsInit => FieldInv
  BY FieldInit DEF RecordsInit
<1>2. RecordsSpec => []FieldInv
  BY <1>1, FieldStepKeeps, PTL DEF RecordsSpec
<1>3. FieldInv => (active = "field" => Field!TypeInv /\ Field!StaleHasCause)
  BY DEF FieldInv
<1>4. RecordsSpec => Field!NothingLost
  BY <1>2, FieldStepLoses, PTL DEF RecordsSpec, Field!NothingLost, OptionLost
<1>5. QED
  BY <1>2, <1>3, <1>4, PTL DEF OptionsKept

-----------------------------------------------------------------------------
(* The roles (RoleConfig).                                                 *)

AnyJob == Requests \cup {Roles!Server}

JobShape == [step : {"idle", "find", "write", "apply"}, role : Roles!Roles,
             config : Roles!ConfigType, row : 0..MaxConfigs, late : BOOLEAN, blank : BOOLEAN]

(* The strengthening.  A value on its way to the table or the engine has    *)
(* the administrator; one that waits to be written, and was not overtaken,  *)
(* differs from what is stored in the role that is edited, or in what the   *)
(* migration adds; and one that waits to be loaded is what is stored.       *)
HasAdmin(j) == j.step # "idle" => Roles!Admin \in DOMAIN j.config

OneRole(e, j) ==
    j.step \in {"find", "write"} /\ ~j.late /\ ~j.blank /\ configs # <<>> =>
        \A r \in Roles!Roles \ {Roles!Admin} :
            Roles!Holds(j.config, r) # Roles!Holds(Roles!Stored, r)
                => \/ e # Roles!Server /\ r = j.role
                   \/ e = Roles!Server /\ Roles!Stored[r].version < Roles!Current

WasStored(j) ==
    /\ j.step = "apply" /\ ~j.late /\ ~j.blank /\ j.row \in {0, Len(configs)} /\ configs # <<>>
    => Roles!healLockedRoles(j.config) = Roles!healLockedRoles(Roles!Stored)

RowIsThere(j) == j.row <= Len(configs)

JobInOrder(e, j) ==
    j \in JobShape /\ HasAdmin(j) /\ OneRole(e, j) /\ WasStored(j) /\ RowIsThere(j)

(* Where the start stands is where its own entry stands, and nobody edits   *)
(* before the server is up.                                                 *)
BootInOrder ==
    /\ server \in {"find", "write", "apply"} => job[Roles!Server].step = server
    /\ server \in {"down", "up"} => job[Roles!Server].step = "idle"
    /\ server # "up" => \A e \in Requests : job[e].step = "idle"

RoleInv ==
    /\ Roles!TypeInv /\ Roles!AdminIsFull /\ Roles!EngineFollows
    /\ \A i \in 1..Len(configs) : Roles!Admin \in DOMAIN configs[i]
    /\ \A e \in AnyJob : JobInOrder(e, job[e])
    /\ BootInOrder

LEMMA RoleConstants ==
  /\ MaxConfigs \in Nat \ {0} /\ MaxRoleEdits \in Nat /\ MaxBlanks \in Nat /\ MaxRoleStops \in Nat
  /\ Roles!Server \notin Requests /\ Roles!Admin \notin BuiltIn \cup Custom
  BY RolesAssumption DEF Roles!RoleBounds, Roles!NamesApart

(* A value is a function from some roles to their entries. *)
LEMMA ConfigShape ==
  ASSUME NEW c
  PROVE  c \in Roles!ConfigType <=> (DOMAIN c \in SUBSET Roles!Roles /\ c \in [DOMAIN c -> Roles!RoleType])
  BY DEF Roles!ConfigType

LEMMA ConfigHas ==
  ASSUME NEW c \in Roles!ConfigType
  PROVE  /\ DOMAIN c \in SUBSET Roles!Roles
         /\ \A r \in DOMAIN c : /\ c[r] \in Roles!RoleType
                                /\ c[r].permissions \in SUBSET Roles!Permissions
                                /\ c[r].version \in 0..Roles!Current
  BY ConfigShape DEF Roles!RoleType

LEMMA Healed ==
  ASSUME NEW c \in Roles!ConfigType
  PROVE  LET h == Roles!healLockedRoles(c)
         IN  /\ h \in Roles!ConfigType /\ DOMAIN h = DOMAIN c
             /\ \A r \in Roles!Roles \ {Roles!Admin} : Roles!Holds(h, r) = Roles!Holds(c, r)
             /\ Roles!Admin \in DOMAIN c => h[Roles!Admin].permissions = Roles!Permissions
             /\ Roles!healLockedRoles(h) = h
<1> DEFINE h == Roles!healLockedRoles(c)
<1>1. c \in [DOMAIN c -> Roles!RoleType] /\ DOMAIN c \in SUBSET Roles!Roles
  BY ConfigShape
<1>2. CASE Roles!Admin \notin DOMAIN c
  <2>1. h = c
    BY <1>2 DEF Roles!healLockedRoles
  <2>2. QED
    BY <1>2, <2>1
<1>3. CASE Roles!Admin \in DOMAIN c
  <2> DEFINE full == [c[Roles!Admin] EXCEPT !.permissions = Roles!Permissions]
  <2>1. c[Roles!Admin] \in Roles!RoleType
    BY <1>1, <1>3
  <2>2. /\ full \in Roles!RoleType /\ full.permissions = Roles!Permissions
        /\ [full EXCEPT !.permissions = Roles!Permissions] = full
    BY <2>1 DEF Roles!RoleType
  <2>3. h = [c EXCEPT ![Roles!Admin] = full]
    BY <1>3 DEF Roles!healLockedRoles
  <2> HIDE DEF full, h
  <2>4. /\ h \in [DOMAIN c -> Roles!RoleType] /\ DOMAIN h = DOMAIN c /\ h[Roles!Admin] = full
        /\ \A r \in DOMAIN c \ {Roles!Admin} : h[r] = c[r]
    BY <1>1, <1>3, <2>2, <2>3
  <2>5. h \in Roles!ConfigType
    BY <1>1, <2>4, ConfigShape
  <2>6. \A r \in Roles!Roles \ {Roles!Admin} : Roles!Holds(h, r) = Roles!Holds(c, r)
    BY <2>4 DEF Roles!Holds
  <2>7. Roles!healLockedRoles(h) = h
    <3>1. Roles!healLockedRoles(h)
            = [h EXCEPT ![Roles!Admin] = [h[Roles!Admin] EXCEPT !.permissions = Roles!Permissions]]
      BY <1>3, <2>4 DEF Roles!healLockedRoles
    <3>2. Roles!healLockedRoles(h) = [h EXCEPT ![Roles!Admin] = h[Roles!Admin]]
      BY <2>2, <2>4, <3>1
    <3>3. QED
      BY <2>4, <3>2
  <2>8. QED
    BY <2>2, <2>4, <2>5, <2>6, <2>7 DEF h
<1>4. QED
  BY <1>2, <1>3

LEMMA Migrated ==
  ASSUME NEW c \in Roles!ConfigType
  PROVE  LET m == Roles!migratePermissions(c)
         IN  /\ m \in Roles!ConfigType /\ DOMAIN m = DOMAIN c
             /\ \A r \in DOMAIN c : c[r].version = Roles!Current => m[r] = c[r]
<1> DEFINE m == Roles!migratePermissions(c)
           entry(r) == IF c[r].version = Roles!Current THEN c[r]
                       ELSE [permissions |-> c[r].permissions
                                               \cup (IF "view" \in c[r].permissions THEN {"read"} ELSE {}),
                             version |-> Roles!Current]
<1>1. m = [r \in DOMAIN c |-> entry(r)]
  BY DEF Roles!migratePermissions
<1>2. ASSUME NEW r \in DOMAIN c
      PROVE  entry(r) \in Roles!RoleType /\ (c[r].version = Roles!Current => entry(r) = c[r])
  BY ConfigHas DEF Roles!RoleType, Roles!Permissions, Roles!Current
<1> HIDE DEF entry, m
<1>3. /\ m \in [DOMAIN c -> Roles!RoleType] /\ DOMAIN m = DOMAIN c
      /\ \A r \in DOMAIN c : m[r] = entry(r)
  BY <1>1, <1>2
<1>4. m \in Roles!ConfigType
  BY <1>3, ConfigHas, ConfigShape
<1>5. QED
  BY <1>2, <1>3, <1>4 DEF m

LEMMA Default ==
  Roles!defaultConfig \in Roles!ConfigType /\ Roles!Admin \in DOMAIN Roles!defaultConfig
<1>1. /\ DOMAIN Roles!defaultConfig = {Roles!Admin} \cup BuiltIn
      /\ Roles!defaultConfig \in [{Roles!Admin} \cup BuiltIn -> Roles!RoleType]
  BY DEF Roles!defaultConfig, Roles!RoleType, Roles!Permissions, Roles!Current
<1>2. QED
  BY <1>1, ConfigShape DEF Roles!Roles

IdleInOrder == Len(configs) \in Nat => \A e \in AnyJob : JobInOrder(e, Roles!IdleJob)

LEMMA IdleJobShape ==
  /\ Roles!IdleJob \in JobShape /\ Roles!IdleJob.step = "idle"
  /\ Roles!IdleJob.row = 0 /\ IdleInOrder
<1>1. Roles!None \in Roles!ConfigType
  BY ConfigShape DEF Roles!None
<1>2. 0 \in 0..MaxConfigs
  BY RoleConstants
<1>3. Roles!IdleJob \in JobShape /\ Roles!IdleJob.step = "idle" /\ Roles!IdleJob.row = 0
  BY <1>1, <1>2 DEF Roles!IdleJob, JobShape, Roles!Roles
<1>4. QED
  BY <1>3 DEF IdleInOrder, JobInOrder, HasAdmin, OneRole, WasStored, RowIsThere

LEMMA RoleHas ==
  ASSUME RoleInv
  PROVE  /\ job \in [AnyJob -> JobShape] /\ DOMAIN job = AnyJob
         /\ configs \in Seq(Roles!ConfigType) /\ Len(configs) \in 0..MaxConfigs
         /\ engine \in Roles!ConfigType /\ Roles!Server \in AnyJob
         /\ \A e \in AnyJob : JobInOrder(e, job[e]) /\ job[e] \in JobShape
         /\ configs # <<>> => Roles!Stored \in Roles!ConfigType /\ Roles!Admin \in DOMAIN Roles!Stored
<1>1. job \in [AnyJob -> JobShape] /\ configs \in Seq(Roles!ConfigType) /\ Len(configs) <= MaxConfigs
      /\ engine \in Roles!ConfigType
  BY DEF RoleInv, Roles!TypeInv, AnyJob, JobShape
<1>2. Len(configs) \in Nat
  BY <1>1
<1>3. ASSUME configs # <<>>
      PROVE  Roles!Stored \in Roles!ConfigType /\ Roles!Admin \in DOMAIN Roles!Stored
  <2>1. Len(configs) \in 1..Len(configs)
    BY <1>1, <1>2, <1>3
  <2>2. QED
    BY <1>1, <2>1 DEF RoleInv, Roles!Stored
<1>4. Len(configs) \in 0..MaxConfigs
  BY <1>1, <1>2, RoleConstants
<1>5. QED
  BY <1>1, <1>3, <1>4 DEF RoleInv, JobInOrder, AnyJob

LEMMA JobStays ==
  ASSUME RoleInv, NEW e \in AnyJob, UNCHANGED configs, job'[e] = job[e]
  PROVE  JobInOrder(e, job[e])'
  BY RoleHas DEF JobInOrder, HasAdmin, OneRole, WasStored, RowIsThere, Roles!Stored

(* The parts of the invariant that do not look at the jobs.                 *)
LEMMA RoleRowsStay ==
  ASSUME RoleInv, UNCHANGED configs
  PROVE  \A i \in 1..Len(configs') : Roles!Admin \in DOMAIN configs'[i]
  BY DEF RoleInv

LEMMA RoleAnswers ==
  ASSUME RoleInv, NEW answer \in Roles!Answers
  PROVE  /\ answer.empty \in BOOLEAN /\ answer.wrong \in BOOLEAN
         /\ ~answer.empty => configs # <<>> /\ ~answer.wrong
         /\ answer.empty /\ ~answer.wrong => configs = <<>>
         /\ answer.wrong => blanks < MaxBlanks
<1> DEFINE none == configs = <<>>
<1>1. none \in BOOLEAN
  OBVIOUS
<1>2. \/ answer = [empty |-> none, wrong |-> FALSE]
      \/ ~none /\ blanks < MaxBlanks /\ answer = [empty |-> TRUE, wrong |-> TRUE]
  BY Zenon DEF Roles!Answers
<1> HIDE DEF none
<1>3. CASE answer = [empty |-> none, wrong |-> FALSE]
  <2>1. answer.empty = none /\ answer.wrong = FALSE
    BY <1>3
  <2>2. QED
    BY <1>1, <2>1 DEF none
<1>4. CASE ~none /\ blanks < MaxBlanks /\ answer = [empty |-> TRUE, wrong |-> TRUE]
  <2>1. answer.empty = TRUE /\ answer.wrong = TRUE
    BY <1>4
  <2>2. QED
    BY <1>4, <2>1 DEF none
<1>5. QED
  BY <1>2, <1>3, <1>4

LEMMA RoleCounted ==
  ASSUME RoleInv, NEW answer \in Roles!Answers, Roles!Counted(answer)
  PROVE  blanks' \in 0..MaxBlanks
<1>1. blanks \in 0..MaxBlanks /\ (answer.wrong => blanks < MaxBlanks)
  BY RoleAnswers DEF RoleInv, Roles!TypeInv
<1>2. QED
  BY <1>1, RoleConstants DEF Roles!Counted

(* One entry changes, and the table does not. *)
LEMMA RoleOneMoves ==
  ASSUME RoleInv, NEW e \in AnyJob, NEW new \in JobShape,
         UNCHANGED configs, job' = [job EXCEPT ![e] = new],
         JobInOrder(e, job[e])'
  PROVE  /\ job' \in [AnyJob -> JobShape] /\ job'[e] = new
         /\ \A f \in AnyJob \ {e} : job'[f] = job[f]
         /\ \A f \in AnyJob : JobInOrder(f, job[f])'
<1>1. /\ job' \in [AnyJob -> JobShape] /\ job'[e] = new
      /\ \A f \in AnyJob \ {e} : job'[f] = job[f]
  BY RoleHas
<1>2. ASSUME NEW f \in AnyJob PROVE JobInOrder(f, job[f])'
  <2>1. CASE f = e
    BY <2>1
  <2>2. CASE f # e
    BY <1>1, <2>2, JobStays
  <2>3. QED
    BY <2>1, <2>2
<1>3. QED
  BY <1>1, <1>2

LEMMA RoleTypes ==
  ASSUME RoleInv, job' \in [AnyJob -> JobShape],
         configs' \in Seq(Roles!ConfigType), Len(configs') <= MaxConfigs,
         engine' \in Roles!ConfigType, server' \in {"down", "find", "write", "apply", "up"},
         drift' \in BOOLEAN, roleEdits' \in 0..MaxRoleEdits, blanks' \in 0..MaxBlanks,
         roleStops' \in 0..MaxRoleStops
  PROVE  Roles!TypeInv'
  BY DEF Roles!TypeInv, AnyJob, JobShape

LEMMA RoleTypesHave ==
  ASSUME RoleInv
  PROVE  /\ configs \in Seq(Roles!ConfigType) /\ Len(configs) <= MaxConfigs
         /\ engine \in Roles!ConfigType /\ server \in {"down", "find", "write", "apply", "up"}
         /\ drift \in BOOLEAN /\ roleEdits \in 0..MaxRoleEdits /\ blanks \in 0..MaxBlanks
         /\ roleStops \in 0..MaxRoleStops
  BY DEF RoleInv, Roles!TypeInv

LEMMA RoleStart ==
  ASSUME RoleInv, Roles!Start
  PROVE  RoleInv'
<1>1. PICK answer \in Roles!Answers :
         LET config == IF answer.empty THEN Roles!defaultConfig ELSE Roles!Stored
             next   == IF ~answer.empty /\ Roles!migratePermissions(config) # config
                       THEN "find" ELSE "apply"
         IN  /\ server' = next
             /\ job' = [job EXCEPT ![Roles!Server] =
                          [Roles!IdleJob EXCEPT !.step = next, !.blank = answer.wrong,
                             !.config = IF answer.empty THEN config
                                        ELSE Roles!migratePermissions(config)]]
             /\ Roles!Counted(answer)
  BY DEF Roles!Start
<1> DEFINE config == IF answer.empty THEN Roles!defaultConfig ELSE Roles!Stored
           next   == IF ~answer.empty /\ Roles!migratePermissions(config) # config
                     THEN "find" ELSE "apply"
           value  == IF answer.empty THEN config ELSE Roles!migratePermissions(config)
           new    == [Roles!IdleJob EXCEPT !.step = next, !.blank = answer.wrong, !.config = value]
<1>2. /\ UNCHANGED <<configs, engine, drift, roleEdits, roleStops>>
      /\ server = "down" /\ server' = next /\ job' = [job EXCEPT ![Roles!Server] = new]
      /\ blanks' \in 0..MaxBlanks
  BY <1>1, RoleCounted DEF Roles!Start
<1>3. /\ config \in Roles!ConfigType /\ Roles!Admin \in DOMAIN config
      /\ value \in Roles!ConfigType /\ Roles!Admin \in DOMAIN value
  <2>1. config \in Roles!ConfigType /\ Roles!Admin \in DOMAIN config
    BY Default, RoleHas, RoleAnswers
  <2>2. QED
    BY <2>1, Migrated
<1>4. /\ next \in {"find", "apply"} /\ answer.wrong \in BOOLEAN
      /\ next = "apply" /\ ~answer.empty => value = Roles!Stored
      /\ ~answer.empty => value = Roles!migratePermissions(Roles!Stored)
      /\ next = "find" => ~answer.empty
  BY RoleAnswers
<1> HIDE DEF config, value, next
<1>5. /\ new \in JobShape /\ new.step = next /\ new.config = value /\ new.blank = answer.wrong
      /\ new.row <= Len(configs)
  <2>1. /\ new \in JobShape /\ new.step = next /\ new.config = value /\ new.blank = answer.wrong
        /\ new.row = Roles!IdleJob.row
    BY <1>3, <1>4, IdleJobShape DEF JobShape
  <2> HIDE DEF new
  <2>2. QED
    BY <2>1, IdleJobShape, RoleHas
<1> HIDE DEF new
<1>6. Roles!Server \in AnyJob /\ job'[Roles!Server] = new
  BY <1>2, <1>5, RoleHas
<1>7. OneRole(Roles!Server, new)
  <2> SUFFICES ASSUME next = "find", configs # <<>>, NEW r \in Roles!Roles \ {Roles!Admin},
                      Roles!Holds(value, r) # Roles!Holds(Roles!Stored, r)
               PROVE  Roles!Stored[r].version < Roles!Current
    BY <1>4, <1>5 DEF OneRole
  <2>1. value = Roles!migratePermissions(Roles!Stored) /\ Roles!Stored \in Roles!ConfigType
    BY <1>4, RoleHas
  <2>2. r \in DOMAIN Roles!Stored /\ value[r] # Roles!Stored[r]
    BY <2>1, Migrated DEF Roles!Holds
  <2>3. Roles!Stored[r].version # Roles!Current
    BY <2>1, <2>2, Migrated
  <2>4. Roles!Stored[r].version \in 0..Roles!Current
    BY <2>1, <2>2, ConfigHas
  <2>5. QED
    BY <2>3, <2>4 DEF Roles!Current
<1>8. WasStored(new)
  <2> SUFFICES ASSUME next = "apply", ~answer.wrong, configs # <<>>
               PROVE  Roles!healLockedRoles(value) = Roles!healLockedRoles(Roles!Stored)
    BY <1>5 DEF WasStored
  <2>1. value = Roles!Stored
    BY <1>4, RoleAnswers
  <2>2. QED
    BY <2>1
<1>9. JobInOrder(Roles!Server, job[Roles!Server])'
  BY <1>2, <1>3, <1>5, <1>6, <1>7, <1>8
     DEF JobInOrder, HasAdmin, OneRole, WasStored, RowIsThere, Roles!Stored
<1>10. /\ job' \in [AnyJob -> JobShape] /\ \A f \in AnyJob \ {Roles!Server} : job'[f] = job[f]
       /\ \A f \in AnyJob : JobInOrder(f, job[f])'
  BY <1>2, <1>5, <1>6, <1>9, RoleOneMoves
<1>11. Roles!TypeInv'
  BY <1>2, <1>4, <1>10, RoleTypes, RoleTypesHave
<1>12. BootInOrder'
  <2>1. \A e \in Requests : job'[e] = job[e]
    BY <1>10, RoleConstants DEF AnyJob
  <2>2. QED
    BY <1>2, <1>4, <1>5, <1>6, <2>1 DEF BootInOrder, RoleInv
<1>13. server' # "up"
  BY <1>2, <1>4
<1>14. Roles!AdminIsFull' /\ Roles!EngineFollows'
  BY <1>13 DEF Roles!AdminIsFull, Roles!EngineFollows
<1>15. QED
  BY <1>2, <1>10, <1>11, <1>12, <1>14, RoleRowsStay DEF RoleInv

(* What an edit makes of the value it has read.                             *)
EditOf(config, role, edited) ==
    \/ /\ role \notin DOMAIN config
       /\ \E choice \in Roles!Choices :
             edited = [r \in DOMAIN config \cup {role} |->
                         IF r = role THEN [permissions |-> choice, version |-> Roles!Current]
                         ELSE config[r]]
    \/ /\ role \in DOMAIN config \ {Roles!Admin}
       /\ \E choice \in Roles!Choices :
             edited = [config EXCEPT ![role] = [permissions |-> choice, version |-> Roles!Current]]
    \/ role \in DOMAIN config /\ edited = [config EXCEPT ![role].version = Roles!Current]
    \/ /\ role \in DOMAIN config \ {Roles!Admin}
       /\ edited = [r \in DOMAIN config \ {role} |-> config[r]]

LEMMA RoleEdited ==
  ASSUME NEW config \in Roles!ConfigType, Roles!Admin \in DOMAIN config,
         NEW role \in Roles!Roles, NEW edited,
         EditOf(config, role, edited)
  PROVE  /\ edited \in Roles!ConfigType /\ Roles!Admin \in DOMAIN edited
         /\ \A r \in Roles!Roles \ {role} : Roles!Holds(edited, r) = Roles!Holds(config, r)
<1>1. /\ config \in [DOMAIN config -> Roles!RoleType] /\ DOMAIN config \in SUBSET Roles!Roles
  BY ConfigShape
<1>2. \A choice \in Roles!Choices : [permissions |-> choice, version |-> Roles!Current] \in Roles!RoleType
  BY DEF Roles!Choices, Roles!RoleType, Roles!Permissions, Roles!Current
<1>3. ASSUME NEW D, NEW f, f \in [D -> Roles!RoleType], D \in SUBSET Roles!Roles, Roles!Admin \in D,
             \A r \in Roles!Roles \ {role} : r \in D <=> r \in DOMAIN config,
             \A r \in D \ {role} : f[r] = config[r]
      PROVE  /\ f \in Roles!ConfigType /\ Roles!Admin \in DOMAIN f
             /\ \A r \in Roles!Roles \ {role} : Roles!Holds(f, r) = Roles!Holds(config, r)
  <2>1. DOMAIN f = D
    BY <1>3
  <2>2. f \in Roles!ConfigType
    BY <1>3, <2>1, ConfigShape
  <2>3. QED
    BY <1>3, <2>1, <2>2 DEF Roles!Holds
<1>4. CASE /\ role \notin DOMAIN config
           /\ \E choice \in Roles!Choices :
                 edited = [r \in DOMAIN config \cup {role} |->
                             IF r = role THEN [permissions |-> choice, version |-> Roles!Current]
                             ELSE config[r]]
  <2>1. edited \in [DOMAIN config \cup {role} -> Roles!RoleType]
    BY <1>1, <1>2, <1>4
  <2>2. \A r \in (DOMAIN config \cup {role}) \ {role} : edited[r] = config[r]
    BY <1>4
  <2>3. QED
    BY <1>1, <1>3, <2>1, <2>2
<1>5. CASE /\ role \in DOMAIN config \ {Roles!Admin}
           /\ \E choice \in Roles!Choices :
                 edited = [config EXCEPT ![role] = [permissions |-> choice, version |-> Roles!Current]]
  <2>1. edited \in [DOMAIN config -> Roles!RoleType] /\ \A r \in DOMAIN config \ {role} : edited[r] = config[r]
    BY <1>1, <1>2, <1>5
  <2>2. QED
    BY <1>1, <1>3, <2>1
<1>6. CASE role \in DOMAIN config /\ edited = [config EXCEPT ![role].version = Roles!Current]
  <2>1. [config[role] EXCEPT !.version = Roles!Current] \in Roles!RoleType
    BY <1>1, <1>6 DEF Roles!RoleType, Roles!Current
  <2>2. edited \in [DOMAIN config -> Roles!RoleType] /\ \A r \in DOMAIN config \ {role} : edited[r] = config[r]
    BY <1>1, <1>6, <2>1
  <2>3. QED
    BY <1>1, <1>3, <2>2
<1>7. CASE /\ role \in DOMAIN config \ {Roles!Admin}
           /\ edited = [r \in DOMAIN config \ {role} |-> config[r]]
  <2>1. edited \in [DOMAIN config \ {role} -> Roles!RoleType]
    BY <1>1, <1>7
  <2>2. \A r \in (DOMAIN config \ {role}) \ {role} : edited[r] = config[r]
    BY <1>7
  <2>3. QED
    BY <1>1, <1>3, <1>7, <2>1, <2>2
<1>8. QED
  BY <1>4, <1>5, <1>6, <1>7 DEF EditOf

LEMMA RoleEdit ==
  ASSUME RoleInv, NEW e \in Requests, Roles!Edit(e)
  PROVE  RoleInv'
<1>0. PICK answer \in Roles!Answers, role \in Roles!Roles : \E edited :
         /\ job' = [job EXCEPT ![e] = [Roles!IdleJob EXCEPT !.step = "find", !.role = role,
                                              !.blank = answer.wrong, !.config = edited]]
         /\ Roles!Counted(answer)
         /\ EditOf(IF answer.empty THEN Roles!defaultConfig ELSE Roles!Stored, role, edited)
  <2>1. PICK answer \in Roles!Answers :
          LET config == IF answer.empty THEN Roles!defaultConfig ELSE Roles!Stored
              Writes(role, edited) ==
                  job' = [job EXCEPT ![e] = [Roles!IdleJob EXCEPT !.step = "find", !.role = role,
                                                    !.blank = answer.wrong, !.config = edited]]
              entry(choice) == [permissions |-> choice, version |-> Roles!Current]
          IN  /\ Roles!Counted(answer)
              /\ \/ \E role \in Roles!Roles \ DOMAIN config, choice \in Roles!Choices :
                       Writes(role, [r \in DOMAIN config \cup {role} |->
                                       IF r = role THEN entry(choice) ELSE config[r]])
                 \/ \E role \in DOMAIN config \ {Roles!Admin}, choice \in Roles!Choices :
                       Writes(role, [config EXCEPT ![role] = entry(choice)])
                 \/ \E role \in DOMAIN config :
                       Writes(role, [config EXCEPT ![role].version = Roles!Current])
                 \/ \E role \in DOMAIN config \ {Roles!Admin} :
                       Writes(role, [r \in DOMAIN config \ {role} |-> config[r]])
    BY DEF Roles!Edit
  <2> DEFINE config == IF answer.empty THEN Roles!defaultConfig ELSE Roles!Stored
             entry(choice) == [permissions |-> choice, version |-> Roles!Current]
             Writes(role, edited) ==
                 job' = [job EXCEPT ![e] = [Roles!IdleJob EXCEPT !.step = "find", !.role = role,
                                                   !.blank = answer.wrong, !.config = edited]]
  <2>2. DOMAIN config \in SUBSET Roles!Roles
    BY Default, RoleHas, RoleAnswers, ConfigHas
  <2>3. Roles!Counted(answer)
    BY <2>1
  <2>4. \/ \E role \in Roles!Roles \ DOMAIN config, choice \in Roles!Choices :
              Writes(role, [r \in DOMAIN config \cup {role} |->
                              IF r = role THEN entry(choice) ELSE config[r]])
        \/ \E role \in DOMAIN config \ {Roles!Admin}, choice \in Roles!Choices :
              Writes(role, [config EXCEPT ![role] = entry(choice)])
        \/ \E role \in DOMAIN config : Writes(role, [config EXCEPT ![role].version = Roles!Current])
        \/ \E role \in DOMAIN config \ {Roles!Admin} :
              Writes(role, [r \in DOMAIN config \ {role} |-> config[r]])
    BY <2>1
  <2> HIDE DEF config, Writes
  <2>5. \E role \in Roles!Roles : \E edited : Writes(role, edited) /\ EditOf(config, role, edited)
    BY <2>2, <2>4 DEF EditOf
  <2>6. QED
    BY <2>3, <2>5 DEF Writes, config
<1>1. PICK edited :
         /\ job' = [job EXCEPT ![e] = [Roles!IdleJob EXCEPT !.step = "find", !.role = role,
                                              !.blank = answer.wrong, !.config = edited]]
         /\ Roles!Counted(answer)
         /\ EditOf(IF answer.empty THEN Roles!defaultConfig ELSE Roles!Stored, role, edited)
  BY <1>0
<1> DEFINE config == IF answer.empty THEN Roles!defaultConfig ELSE Roles!Stored
           new    == [Roles!IdleJob EXCEPT !.step = "find", !.role = role,
                                           !.blank = answer.wrong, !.config = edited]
<1>2. /\ UNCHANGED <<configs, engine, server, drift, roleStops>>
      /\ server = "up" /\ roleEdits' = roleEdits + 1 /\ roleEdits < MaxRoleEdits
      /\ job' = [job EXCEPT ![e] = new] /\ blanks' \in 0..MaxBlanks
  BY <1>1, RoleCounted DEF Roles!Edit
<1>3. config \in Roles!ConfigType /\ Roles!Admin \in DOMAIN config
  BY Default, RoleHas, RoleAnswers
<1>4. /\ edited \in Roles!ConfigType /\ Roles!Admin \in DOMAIN edited
      /\ \A r \in Roles!Roles \ {role} : Roles!Holds(edited, r) = Roles!Holds(config, r)
  <2> HIDE DEF config
  <2>1. EditOf(config, role, edited)
    BY <1>1 DEF config
  <2>2. QED
    BY <1>3, <2>1, RoleEdited
<1>5. answer.wrong \in BOOLEAN /\ (~answer.wrong /\ configs # <<>> => config = Roles!Stored)
  BY RoleAnswers
<1> HIDE DEF config
<1>6. /\ new \in JobShape /\ new.step = "find" /\ new.config = edited /\ new.blank = answer.wrong
      /\ new.role = role /\ new.row <= Len(configs)
  <2>1. /\ new \in JobShape /\ new.step = "find" /\ new.config = edited /\ new.blank = answer.wrong
        /\ new.role = role /\ new.row = Roles!IdleJob.row
    BY <1>4, <1>5, IdleJobShape DEF JobShape
  <2> HIDE DEF new
  <2>2. QED
    BY <2>1, IdleJobShape, RoleHas
<1> HIDE DEF new
<1>7. e \in AnyJob /\ e # Roles!Server /\ job'[e] = new
  BY <1>2, <1>6, RoleHas, RoleConstants DEF AnyJob
<1>8. OneRole(e, new)
  BY <1>4, <1>5, <1>6, <1>7 DEF OneRole
<1>9. JobInOrder(e, job[e])'
  BY <1>2, <1>4, <1>6, <1>7, <1>8
     DEF JobInOrder, HasAdmin, OneRole, WasStored, RowIsThere, Roles!Stored
<1>10. /\ job' \in [AnyJob -> JobShape] /\ \A f \in AnyJob \ {e} : job'[f] = job[f]
       /\ \A f \in AnyJob : JobInOrder(f, job[f])'
  BY <1>2, <1>6, <1>7, <1>9, RoleOneMoves
<1>11. Roles!TypeInv'
  <2>1. roleEdits' \in 0..MaxRoleEdits
    BY <1>2, RoleTypesHave, RoleConstants
  <2>2. QED
    BY <1>2, <1>10, <2>1, RoleTypes, RoleTypesHave
<1>12. BootInOrder'
  <2>1. job'[Roles!Server] = job[Roles!Server]
    BY <1>7, <1>10, RoleHas
  <2>2. QED
    BY <1>2, <2>1 DEF BootInOrder, RoleInv
<1>13. Roles!AdminIsFull'
  BY <1>2 DEF RoleInv, Roles!AdminIsFull
<1>14. Roles!EngineFollows'
  BY <1>6, <1>7 DEF Roles!EngineFollows
<1>15. QED
  BY <1>2, <1>10, <1>11, <1>12, <1>13, <1>14, RoleRowsStay DEF RoleInv

(* The stage of the start is that of its entry. *)
LEMMA RoleStage ==
  ASSUME RoleInv, NEW e \in AnyJob, NEW new \in JobShape, job'[e] = new,
         \A f \in AnyJob \ {e} : job'[f] = job[f], Roles!Stage(e),
         job[e].step # "idle", new.step \in {"write", "apply"}
  PROVE  /\ BootInOrder' /\ server' \in {"down", "find", "write", "apply", "up"}
         /\ e = Roles!Server => server' # "up"
         /\ e # Roles!Server => server' = server
<1>1. CASE e = Roles!Server
  <2>1. server' = new.step /\ server # "up"
    BY <1>1 DEF Roles!Stage, RoleInv, BootInOrder
  <2>2. \A f \in Requests : job'[f] = job[f]
    BY <1>1, RoleConstants DEF AnyJob
  <2>3. QED
    BY <1>1, <2>1, <2>2, RoleTypesHave DEF RoleInv, BootInOrder
<1>2. CASE e # Roles!Server
  <2>1. server' = server /\ server = "up" /\ e \in Requests
    BY <1>2, RoleTypesHave DEF Roles!Stage, RoleInv, BootInOrder, AnyJob
  <2>2. job'[Roles!Server] = job[Roles!Server]
    BY <1>2, RoleHas
  <2>3. QED
    BY <1>2, <2>1, <2>2 DEF RoleInv, BootInOrder
<1>3. QED
  BY <1>1, <1>2

LEMMA RoleFind ==
  ASSUME RoleInv, NEW e \in AnyJob, Roles!FindRecord(e)
  PROVE  RoleInv'
<1>1. PICK answer \in Roles!Answers :
         /\ job' = [job EXCEPT ![e].step = "write",
                               ![e].row = IF answer.empty THEN 0 ELSE Len(configs)]
         /\ Roles!Counted(answer)
  BY DEF Roles!FindRecord
<1> DEFINE row == IF answer.empty THEN 0 ELSE Len(configs)
           new == [job[e] EXCEPT !.step = "write", !.row = row]
<1>2. /\ UNCHANGED <<configs, engine, drift, roleEdits, roleStops>> /\ Roles!Stage(e)
      /\ job[e].step = "find" /\ blanks' \in 0..MaxBlanks /\ job' = [job EXCEPT ![e] = new]
  BY <1>1, RoleCounted, RoleHas DEF Roles!FindRecord
<1>3. row \in 0..MaxConfigs /\ row <= Len(configs)
  BY RoleHas, RoleConstants
<1> HIDE DEF row
<1>4. JobInOrder(e, job[e]) /\ job[e] \in JobShape
  BY RoleHas
<1>5. /\ new \in JobShape /\ new.step = "write" /\ new.role = job[e].role /\ new.late = job[e].late
      /\ new.config = job[e].config /\ new.blank = job[e].blank
      /\ new.row <= Len(configs)
  BY <1>3, <1>4 DEF JobShape
<1> HIDE DEF new
<1>6. job'[e] = new
  BY <1>2, RoleHas
<1>7. JobInOrder(e, job[e])'
  BY <1>2, <1>4, <1>5, <1>6 DEF JobInOrder, HasAdmin, OneRole, WasStored, RowIsThere, Roles!Stored
<1>8. /\ job' \in [AnyJob -> JobShape] /\ \A f \in AnyJob \ {e} : job'[f] = job[f]
      /\ \A f \in AnyJob : JobInOrder(f, job[f])'
  BY <1>2, <1>5, <1>7, RoleOneMoves
<1>9. /\ BootInOrder' /\ server' \in {"down", "find", "write", "apply", "up"}
      /\ e = Roles!Server => server' # "up"
      /\ e # Roles!Server => server' = server
  BY <1>2, <1>5, <1>6, <1>8, RoleStage
<1>10. Roles!TypeInv'
  BY <1>2, <1>8, <1>9, RoleTypes, RoleTypesHave
<1>11. Roles!AdminIsFull'
  BY <1>2, <1>9 DEF RoleInv, Roles!AdminIsFull
<1>12. Roles!EngineFollows'
  BY <1>5, <1>6, <1>9 DEF Roles!EngineFollows, AnyJob
<1>13. QED
  BY <1>2, <1>8, <1>9, <1>10, <1>11, <1>12, RoleRowsStay DEF RoleInv

(* The value of the row that counts, after a write: what was written if the *)
(* row was the last or is new, and what it was otherwise.                   *)
LEMMA RoleWritten ==
  ASSUME RoleInv, NEW e \in AnyJob, Roles!Persist(e)
  PROVE  /\ configs' \in Seq(Roles!ConfigType) /\ Len(configs') <= MaxConfigs /\ configs' # <<>>
         /\ \A i \in 1..Len(configs') : Roles!Admin \in DOMAIN configs'[i]
         /\ job[e].row \in {0, Len(configs)}
              => configs'[Len(configs')] = Roles!healLockedRoles(job[e].config)
         /\ job[e].row \notin {0, Len(configs)} => Roles!Stored' = Roles!Stored /\ configs # <<>>
         /\ Len(configs') = IF job[e].row = 0 THEN Len(configs) + 1 ELSE Len(configs)
<1> DEFINE row == job[e].row
           healed == Roles!healLockedRoles(job[e].config)
           n == Len(configs)
<1>1. /\ configs \in Seq(Roles!ConfigType) /\ n \in 0..MaxConfigs /\ n \in Nat /\ MaxConfigs \in Nat
      /\ row \in 0..MaxConfigs /\ row <= n /\ job[e].step = "write"
      /\ healed \in Roles!ConfigType /\ Roles!Admin \in DOMAIN healed
      /\ \A i \in 1..n : Roles!Admin \in DOMAIN configs[i]
  <2>1. /\ job[e] \in JobShape /\ HasAdmin(job[e]) /\ RowIsThere(job[e]) /\ job[e].step = "write"
    BY RoleHas DEF JobInOrder, Roles!Persist
  <2>2. job[e].config \in Roles!ConfigType /\ row \in 0..MaxConfigs
    BY <2>1 DEF JobShape
  <2>3. QED
    BY <2>1, <2>2, Healed, RoleHas, RoleConstants DEF HasAdmin, RowIsThere, RoleInv
<1>2. IF row = 0 THEN n < MaxConfigs /\ configs' = Append(configs, healed)
                 ELSE configs' = [configs EXCEPT ![row] = healed]
  BY DEF Roles!Persist
<1> HIDE DEF row, healed
<1>3. CASE row = 0
  <2>1. configs' = Append(configs, healed) /\ n < MaxConfigs
    BY <1>2, <1>3
  <2>2. /\ configs' \in Seq(Roles!ConfigType) /\ Len(configs') = n + 1 /\ configs'[n + 1] = healed
        /\ \A i \in 1..n : configs'[i] = configs[i]
    BY <1>1, <2>1
  <2>3. configs' # <<>> /\ \A i \in 1..(n + 1) : i = n + 1 \/ i \in 1..n
    BY <1>1, <2>2
  <2>4. QED
    BY <1>1, <1>3, <2>1, <2>2, <2>3 DEF row, healed
<1>4. CASE row # 0
  <2>1. configs' = [configs EXCEPT ![row] = healed] /\ row \in 1..n
    BY <1>1, <1>2, <1>4
  <2>2. /\ configs' \in Seq(Roles!ConfigType) /\ Len(configs') = n
        /\ configs'[row] = healed /\ \A i \in 1..n : i # row => configs'[i] = configs[i]
    <3>1. configs \in [1..n -> Roles!ConfigType]
      BY <1>1
    <3>2. configs' \in [1..n -> Roles!ConfigType]
      BY <1>1, <2>1, <3>1
    <3>3. configs' \in Seq(Roles!ConfigType) /\ Len(configs') = n
      BY <1>1, <3>2
    <3>4. QED
      BY <1>1, <2>1, <3>1, <3>3
  <2>3. configs # <<>> /\ configs' # <<>> /\ n \in 1..n
    BY <1>1, <2>1, <2>2
  <2>4. \A i \in 1..n : Roles!Admin \in DOMAIN configs'[i]
    BY <1>1, <2>2
  <2>5. row # n => Roles!Stored' = Roles!Stored
    BY <2>2, <2>3 DEF Roles!Stored
  <2> HIDE DEF n
  <2>6. QED
    BY <1>1, <1>4, <2>2, <2>3, <2>4, <2>5 DEF row, healed, n
<1>5. QED
  BY <1>3, <1>4

LEMMA RolePersist ==
  ASSUME RoleInv, NEW e \in AnyJob, Roles!Persist(e)
  PROVE  RoleInv'
<1>1. /\ UNCHANGED <<engine, roleEdits, blanks, roleStops>> /\ Roles!Stage(e)
      /\ job[e].step = "write" /\ drift' \in BOOLEAN
  BY RoleTypesHave DEF Roles!Persist
<1> DEFINE done == [job[e] EXCEPT !.step = "apply", !.late = FALSE]
<1>2. /\ job'[e] = done /\ done \in JobShape /\ done.step = "apply" /\ done.config = job[e].config
      /\ done.row = job[e].row
  BY RoleHas DEF Roles!Persist, JobShape
<1> HIDE DEF done
<1>3. /\ configs' \in Seq(Roles!ConfigType) /\ Len(configs') <= MaxConfigs /\ configs' # <<>>
      /\ \A i \in 1..Len(configs') : Roles!Admin \in DOMAIN configs'[i]
      /\ job[e].row \in {0, Len(configs)}
           => configs'[Len(configs')] = Roles!healLockedRoles(job[e].config)
      /\ Len(configs') = IF job[e].row = 0 THEN Len(configs) + 1 ELSE Len(configs)
      /\ Len(configs) \in Nat
  BY RoleWritten, RoleHas
<1>4. JobInOrder(e, job[e])'
  <2>1. JobInOrder(e, job[e]) /\ job[e] \in JobShape
    BY RoleHas
  <2>2. job[e].config \in Roles!ConfigType /\ job[e].row \in Nat
    BY <2>1, RoleConstants DEF JobShape
  <2>3. WasStored(job[e])'
    <3>1. SUFFICES ASSUME done.row \in {0, Len(configs')}
                   PROVE  Roles!healLockedRoles(done.config)
                            = Roles!healLockedRoles(configs'[Len(configs')])
      BY <1>2 DEF WasStored, Roles!Stored
    <3>2. job[e].row \in {0, Len(configs)}
      BY <1>2, <1>3, <3>1
    <3>3. configs'[Len(configs')] = Roles!healLockedRoles(job[e].config)
      BY <1>3, <3>2
    <3>4. QED
      BY <1>2, <2>2, <3>3, Healed
  <2>4. RowIsThere(job[e])'
    BY <1>2, <1>3, <2>1, <2>2 DEF RowIsThere, JobInOrder
  <2>5. QED
    BY <1>1, <1>2, <2>1, <2>3, <2>4 DEF JobInOrder, HasAdmin, OneRole
<1>5. ASSUME NEW f \in AnyJob \ {e}
      PROVE  job'[f] \in JobShape /\ JobInOrder(f, job[f])' /\ job'[f].step = job[f].step
  <2> DEFINE late == job[f].late \/ job[f].step # "idle"
             new  == [job[f] EXCEPT !.late = late]
  <2>1. JobInOrder(f, job[f]) /\ job[f] \in JobShape /\ job'[f] = new
    BY RoleHas DEF Roles!Persist
  <2>2. late \in BOOLEAN /\ (job[f].step # "idle" => late)
    BY <2>1 DEF JobShape
  <2>3. /\ new \in JobShape /\ new.step = job[f].step /\ new.config = job[f].config
        /\ new.row = job[f].row /\ new.late = late /\ job[f].row \in 0..MaxConfigs
    <3> HIDE DEF late
    <3>1. QED
      BY <2>1, <2>2 DEF JobShape
  <2> HIDE DEF new, late
  <2>4. new.row <= Len(configs')
    BY <1>3, <2>1, <2>3, RoleConstants DEF JobInOrder, RowIsThere
  <2>5. QED
    BY <2>1, <2>2, <2>3, <2>4 DEF JobInOrder, HasAdmin, OneRole, WasStored, RowIsThere
<1>6. \A f \in AnyJob : JobInOrder(f, job[f])'
  BY <1>4, <1>5
<1>7. job' \in [AnyJob -> JobShape]
  <2>1. \A f \in AnyJob : job'[f] \in JobShape
    BY <1>2, <1>5
  <2>2. job' = [f \in AnyJob |-> job'[f]]
    BY RoleHas DEF Roles!Persist
  <2>3. QED
    BY <2>1, <2>2
<1>8. /\ BootInOrder' /\ server' \in {"down", "find", "write", "apply", "up"}
      /\ e = Roles!Server => server' # "up"
      /\ e # Roles!Server => server' = server
  <2>1. CASE e = Roles!Server
    <3>1. server' = "apply" /\ server # "up"
      BY <1>1, <1>2, <2>1 DEF Roles!Stage, RoleInv, BootInOrder
    <3>2. \A f \in Requests : f \in AnyJob \ {e}
      BY <2>1, RoleConstants DEF AnyJob
    <3>3. \A f \in Requests : job'[f].step = job[f].step
      BY <1>5, <3>2
    <3>4. QED
      BY <1>2, <2>1, <3>1, <3>3 DEF RoleInv, BootInOrder
  <2>2. CASE e # Roles!Server
    <3>1. server' = server /\ server = "up"
      BY <1>1, <2>2, RoleTypesHave DEF Roles!Stage, RoleInv, BootInOrder, AnyJob
    <3>2. job'[Roles!Server].step = job[Roles!Server].step
      BY <1>5, <2>2, RoleHas
    <3>3. QED
      BY <2>2, <3>1, <3>2 DEF RoleInv, BootInOrder
  <2>3. QED
    BY <2>1, <2>2
<1>9. Roles!TypeInv'
  BY <1>1, <1>3, <1>7, <1>8, RoleTypes, RoleTypesHave
<1>10. Roles!AdminIsFull'
  BY <1>1, <1>8 DEF RoleInv, Roles!AdminIsFull
<1>11. Roles!EngineFollows'
  BY <1>2, <1>8 DEF Roles!EngineFollows, AnyJob
<1>12. QED
  BY <1>3, <1>6, <1>8, <1>9, <1>10, <1>11 DEF RoleInv

LEMMA RoleApply ==
  ASSUME RoleInv, NEW e \in AnyJob, Roles!Apply(e)
  PROVE  RoleInv'
<1>1. /\ UNCHANGED <<configs, roleEdits, blanks, roleStops>> /\ job[e].step = "apply"
      /\ engine' = Roles!healLockedRoles(job[e].config)
      /\ drift' = (job[e].late \/ job[e].blank
                     \/ (job[e].row # 0 /\ job[e].row # Len(configs)))
      /\ job' = [job EXCEPT ![e] = Roles!IdleJob]
      /\ server' = IF e = Roles!Server THEN "up" ELSE server
  BY DEF Roles!Apply, Roles!applyToEngine
<1>2. JobInOrder(e, job[e]) /\ job[e] \in JobShape
  BY RoleHas
<1>3. job[e].config \in Roles!ConfigType /\ Roles!Admin \in DOMAIN job[e].config
  BY <1>1, <1>2 DEF JobShape, JobInOrder, HasAdmin
<1>4. /\ engine' \in Roles!ConfigType /\ Roles!Admin \in DOMAIN engine'
      /\ engine'[Roles!Admin].permissions = Roles!Permissions
  BY <1>1, <1>3, Healed
<1>5. job'[e] = Roles!IdleJob /\ JobInOrder(e, job[e])'
  <2>1. job'[e] = Roles!IdleJob
    BY <1>1, RoleHas
  <2>2. IdleInOrder'
    BY IdleJobShape, PTL
  <2>3. QED
    BY <1>1, <2>1, <2>2, RoleHas DEF IdleInOrder
<1>6. /\ job' \in [AnyJob -> JobShape] /\ \A f \in AnyJob \ {e} : job'[f] = job[f]
      /\ \A f \in AnyJob : JobInOrder(f, job[f])'
  BY <1>1, <1>5, IdleJobShape, RoleOneMoves
<1>7. server' = "up" /\ BootInOrder'
  <2>1. CASE e = Roles!Server
    BY <1>1, <1>5, <2>1, IdleJobShape DEF BootInOrder
  <2>2. CASE e # Roles!Server
    <3>1. server' = server /\ server = "up"
      BY <1>1, <2>2, RoleTypesHave DEF RoleInv, BootInOrder, AnyJob
    <3>2. job'[Roles!Server] = job[Roles!Server]
      BY <1>6, <2>2, RoleHas
    <3>3. QED
      BY <2>2, <3>1, <3>2 DEF RoleInv, BootInOrder
  <2>3. QED
    BY <2>1, <2>2
<1>8. Roles!TypeInv'
  <2>1. drift' \in BOOLEAN
    BY <1>1, <1>2 DEF JobShape
  <2>2. QED
    BY <1>1, <1>4, <1>6, <1>7, <2>1, RoleTypes, RoleTypesHave
<1>9. Roles!AdminIsFull'
  BY <1>4 DEF Roles!AdminIsFull
<1>10. Roles!EngineFollows'
  <2> SUFFICES ASSUME ~drift', configs # <<>>
               PROVE  engine' = Roles!healLockedRoles(Roles!Stored')
    BY <1>1 DEF Roles!EngineFollows
  <2>1. ~job[e].late /\ ~job[e].blank /\ job[e].row \in {0, Len(configs)}
    BY <1>1
  <2>2. Roles!healLockedRoles(job[e].config) = Roles!healLockedRoles(Roles!Stored)
    BY <1>1, <1>2, <2>1 DEF JobInOrder, WasStored
  <2>3. Roles!Stored' = Roles!Stored
    BY <1>1 DEF Roles!Stored
  <2>4. QED
    BY <1>1, <2>2, <2>3
<1>11. QED
  BY <1>1, <1>6, <1>7, <1>8, <1>9, <1>10, RoleRowsStay DEF RoleInv

LEMMA RoleStop ==
  ASSUME RoleInv, Roles!Stop
  PROVE  RoleInv'
<1>1. /\ UNCHANGED <<configs, roleEdits, blanks>> /\ server' = "down" /\ engine' = Roles!None
      /\ job' = [f \in AnyJob |-> Roles!IdleJob] /\ drift' = FALSE
      /\ roleStops' = roleStops + 1 /\ roleStops < MaxRoleStops
  BY RoleHas DEF Roles!Stop
<1>2. roleStops' \in 0..MaxRoleStops
  BY <1>1, RoleTypesHave, RoleConstants
<1>3. Roles!None \in Roles!ConfigType
  BY ConfigShape DEF Roles!None
<1>4. job' \in [AnyJob -> JobShape]
  BY <1>1, IdleJobShape
<1>5. Roles!TypeInv'
  BY <1>1, <1>2, <1>3, <1>4, RoleTypes, RoleTypesHave
<1>6. \A f \in AnyJob : JobInOrder(f, job[f])'
  <2>1. IdleInOrder'
    BY IdleJobShape, PTL
  <2>2. QED
    BY <1>1, <2>1, RoleHas DEF IdleInOrder
<1>7. BootInOrder' /\ Roles!AdminIsFull' /\ Roles!EngineFollows'
  BY <1>1, IdleJobShape DEF BootInOrder, Roles!AdminIsFull, Roles!EngineFollows, AnyJob
<1>8. QED
  BY <1>1, <1>5, <1>6, <1>7, RoleRowsStay DEF RoleInv

LEMMA RoleInit == Roles!Init => RoleInv
<1> SUFFICES ASSUME Roles!Init PROVE RoleInv
  OBVIOUS
<1>1. /\ engine = Roles!None /\ server = "down" /\ drift = FALSE
      /\ roleEdits = 0 /\ blanks = 0 /\ roleStops = 0
      /\ job = [f \in AnyJob |-> Roles!IdleJob]
  BY DEF Roles!Init, AnyJob
<1>2. configs \in Seq(Roles!ConfigType) /\ Len(configs) <= 1 /\ Len(configs) \in Nat
      /\ \A i \in 1..Len(configs) : Roles!Admin \in DOMAIN configs[i]
  <2>1. CASE configs = <<>>
    BY <2>1
  <2>2. CASE \E choice \in Roles!Choices, version \in 0..Roles!Current :
               configs = <<[r \in {Roles!Admin} \cup BuiltIn |->
                              [permissions |-> choice, version |-> version]]>>
    <3>1. PICK choice \in Roles!Choices, version \in 0..Roles!Current :
            configs = <<[r \in {Roles!Admin} \cup BuiltIn |->
                           [permissions |-> choice, version |-> version]]>>
      BY <2>2
    <3> DEFINE first == [r \in {Roles!Admin} \cup BuiltIn |->
                           [permissions |-> choice, version |-> version]]
    <3>2. /\ DOMAIN first = {Roles!Admin} \cup BuiltIn
          /\ first \in [{Roles!Admin} \cup BuiltIn -> Roles!RoleType]
      BY DEF Roles!RoleType, Roles!Choices, Roles!Permissions
    <3>3. first \in Roles!ConfigType
      BY <3>2, ConfigShape DEF Roles!Roles
    <3>4. configs = <<first>>
      BY <3>1
    <3> HIDE DEF first
    <3>5. QED
      BY <3>2, <3>3, <3>4
  <2>3. QED
    BY <2>1, <2>2 DEF Roles!Init
<1>3. Roles!TypeInv
  <2>1. Roles!None \in Roles!ConfigType
    BY ConfigShape DEF Roles!None
  <2>2. job \in [AnyJob -> JobShape]
    BY <1>1, IdleJobShape
  <2>3. Len(configs) <= MaxConfigs
    BY <1>2, RoleConstants
  <2>4. 0 \in 0..MaxRoleEdits /\ 0 \in 0..MaxBlanks /\ 0 \in 0..MaxRoleStops
    BY RoleConstants
  <2>5. QED
    BY <1>1, <1>2, <2>1, <2>2, <2>3, <2>4 DEF Roles!TypeInv, AnyJob, JobShape
<1>4. \A f \in AnyJob : JobInOrder(f, job[f])
  BY <1>1, <1>2, IdleJobShape DEF IdleInOrder
<1>5. QED
  BY <1>1, <1>2, <1>3, <1>4, IdleJobShape
     DEF RoleInv, BootInOrder, Roles!AdminIsFull, Roles!EngineFollows, AnyJob

LEMMA RoleStays ==
  ASSUME RoleInv, UNCHANGED roleVars
  PROVE  RoleInv'
<1>1. UNCHANGED <<configs, engine, server, job, drift, roleEdits, blanks, roleStops>>
  BY DEF roleVars
<1>2. \A f \in AnyJob : JobInOrder(f, job[f])'
  BY <1>1, JobStays
<1>3. Roles!TypeInv' /\ BootInOrder' /\ Roles!AdminIsFull' /\ Roles!EngineFollows'
  BY <1>1 DEF RoleInv, Roles!TypeInv, BootInOrder, Roles!AdminIsFull, Roles!EngineFollows, Roles!Stored
<1>4. QED
  BY <1>1, <1>2, <1>3, RoleRowsStay DEF RoleInv

LEMMA RoleStepKeeps == RoleInv /\ [RecordsNext]_allVars => RoleInv'
<1> SUFFICES ASSUME RoleInv, [RecordsNext]_allVars PROVE RoleInv'
  OBVIOUS
<1>1. ASSUME Roles!Next PROVE RoleInv'
  <2>1. \A e \in Requests : e \in AnyJob
    BY DEF AnyJob
  <2>2. QED
    BY <1>1, <2>1, RoleStart, RoleStop, RoleEdit, RoleFind, RolePersist, RoleApply
       DEF Roles!Next, AnyJob
<1>2. ASSUME UNCHANGED roleVars PROVE RoleInv'
  BY <1>2, RoleStays
<1>3. Roles!Next \/ UNCHANGED roleVars
  BY DEF RecordsNext, NumberStep, FieldStep, TableStep, LinkStep, RoleStep, allVars, roleVars
<1>4. QED
  BY <1>1, <1>2, <1>3

(* The action of the property, for one step. *)
OthersKept ==
    \A r \in Roles!Roles \ {Roles!Admin}, e \in Requests \cup {Roles!Server} :
        (/\ job[e].step = "write" /\ job'[e].step = "apply"
         /\ configs # <<>> /\ ~job[e].late /\ ~job[e].blank
         /\ Roles!Holds(configs'[Len(configs')], r) # Roles!Holds(Roles!Stored, r))
           => \/ e # Roles!Server /\ r = job[e].role
              \/ e = Roles!Server /\ Roles!Stored[r].version < Roles!Current

LEMMA RoleStepChanges == RoleInv /\ [RecordsNext]_allVars => [OthersKept]_(Roles!vars)
<1> SUFFICES ASSUME RoleInv, [RecordsNext]_allVars,
                    NEW r \in Roles!Roles \ {Roles!Admin}, NEW e \in AnyJob,
                    job[e].step = "write", job'[e].step = "apply",
                    configs # <<>>, ~job[e].late, ~job[e].blank,
                    Roles!Holds(configs'[Len(configs')], r) # Roles!Holds(Roles!Stored, r)
             PROVE  \/ e # Roles!Server /\ r = job[e].role
                    \/ e = Roles!Server /\ Roles!Stored[r].version < Roles!Current
  BY DEF OthersKept, AnyJob
<1>1. Roles!Next
  BY DEF RecordsNext, NumberStep, FieldStep, TableStep, LinkStep, RoleStep, allVars, roleVars
<1>2. configs' # configs
  BY DEF Roles!Stored
<1>3. PICK f \in AnyJob : Roles!Persist(f)
  BY <1>1, <1>2 DEF Roles!Next, Roles!Start, Roles!Stop, Roles!Edit, Roles!FindRecord, Roles!Apply, AnyJob
<1>4. f = e
  <2>1. CASE f # e
    <3>1. job'[e].step = job[e].step
      BY <1>3, <2>1, RoleHas DEF Roles!Persist, JobShape
    <3>2. QED
      BY <3>1
  <2>2. QED
    BY <2>1
<1>5. JobInOrder(e, job[e]) /\ job[e] \in JobShape
  BY RoleHas
<1>6. CASE job[e].row \notin {0, Len(configs)}
  <2>1. Roles!Stored' = Roles!Stored
    BY <1>3, <1>4, <1>6, RoleWritten
  <2>2. QED
    BY <2>1 DEF Roles!Stored
<1>7. CASE job[e].row \in {0, Len(configs)}
  <2>1. configs'[Len(configs')] = Roles!healLockedRoles(job[e].config)
    BY <1>3, <1>4, <1>7, RoleWritten
  <2>2. job[e].config \in Roles!ConfigType
    BY <1>5 DEF JobShape
  <2>3. Roles!Holds(Roles!healLockedRoles(job[e].config), r) = Roles!Holds(job[e].config, r)
    BY <2>2, Healed
  <2>4. Roles!Holds(job[e].config, r) # Roles!Holds(Roles!Stored, r)
    BY <2>1, <2>3
  <2>5. QED
    BY <1>5, <2>4 DEF JobInOrder, OneRole
<1>8. QED
  BY <1>6, <1>7

(* From a stored value that contains the administrator (no edit removes     *)
(* them): once the server is up the administrator may do everything; when   *)
(* no edit is under way the engine has what is stored, unless it was left   *)
(* with the older of two loads (drift); and a role changes by an edit of    *)
(* that role, unless the writer was overtaken or had read nothing (late,    *)
(* blank); whatever number of edits overlap and however often the server    *)
(* stops (role-management.service).                                         *)
THEOREM RolesAreKept == RecordsSpec => RolesKept
<1>1. RecordsInit => RoleInv
  BY RoleInit DEF RecordsInit
<1>2. RecordsSpec => []RoleInv
  BY <1>1, RoleStepKeeps, PTL DEF RecordsSpec
<1>3. RoleInv => (active = "roles" => Roles!TypeInv /\ Roles!AdminIsFull /\ Roles!EngineFollows)
  BY DEF RoleInv
<1>4. RecordsSpec => Roles!RolesChangeByEdit
  BY <1>2, RoleStepChanges, PTL DEF RecordsSpec, Roles!RolesChangeByEdit, OthersKept
<1>5. QED
  BY <1>2, <1>3, <1>4, PTL DEF RolesKept

-----------------------------------------------------------------------------
(* The links of contacts to students (WeilingLink).                        *)

RunShape == [step : {"idle", "read", "match", "fill", "put"}, always : BOOLEAN,
             todo : SUBSET Links!LinkType, teachers : SUBSET Students, seen : Links!Links,
             touched : SUBSET Contacts]

EnrolShape == [step : {"link", "fill"}, contact : Contacts, student : Students, fill : BOOLEAN]

(* The strengthening.  What a run has in hand goes with its step; a contact *)
(* it is about to write has no link by hand unless staff have touched it    *)
(* since the page; and nothing under way can bring a teacher to a student   *)
(* whose teacher was cleared, unless by a link that is new at that moment.  *)
InHand(r) ==
    /\ r.step # "match" => r.todo = {}
    /\ r.step \in {"idle", "read"} => r.teachers = {}
    /\ r.step # "put" => r.seen = Links!NoStudent
    /\ r.step = "put" => r.seen \in Students

ByStaff(r) == \A l \in r.todo : contact[l.contact].source = "auto" \/ l.contact \in r.touched

NoTeacher(r) ==
    \A s \in cleared :
        /\ r.step # "idle" => ~r.always
        /\ s \notin r.teachers /\ s # r.seen
        /\ \A l \in r.todo : l.student = s /\ ~l.old => contact[l.contact].link # s

RunInOrder(r) == r \in RunShape /\ InHand(r) /\ ByStaff(r) /\ NoTeacher(r)

LinkInv ==
    /\ contact \in [Contacts -> Links!ContactType]
    /\ recruiter \in [Students -> BOOLEAN] /\ syncing \in BOOLEAN
    /\ match \in [Requests -> RunShape]
    /\ \A r \in Requests : RunInOrder(match[r])
    /\ enrol = {} \/ \E e \in EnrolShape : enrol = {e} /\ e.student \notin cleared
    /\ cleared \in SUBSET Students
    /\ Links!ClearedStays

NoneIsInOrder == cleared \in SUBSET Students => RunInOrder(Links!IdleRun)

LEMMA NoneIsNoStudent == Links!NoStudent \notin Students
  BY LinksAssumption DEF Links!NoneApart

LEMMA IdleRunShape ==
  /\ Links!IdleRun \in RunShape /\ NoneIsInOrder
  /\ Links!IdleRun.step = "idle" /\ Links!IdleRun.always = FALSE /\ Links!IdleRun.todo = {}
  /\ Links!IdleRun.teachers = {} /\ Links!IdleRun.seen = Links!NoStudent
  /\ Links!IdleRun.touched = {}
<1>1. /\ Links!IdleRun \in RunShape
      /\ Links!IdleRun.step = "idle" /\ Links!IdleRun.always = FALSE /\ Links!IdleRun.todo = {}
      /\ Links!IdleRun.teachers = {} /\ Links!IdleRun.seen = Links!NoStudent
      /\ Links!IdleRun.touched = {}
  BY DEF Links!IdleRun, RunShape, Links!Links
<1>2. QED
  BY <1>1, NoneIsNoStudent DEF NoneIsInOrder, RunInOrder, InHand, ByStaff, NoTeacher

LEMMA LinkInit == Links!Init => LinkInv
<1> SUFFICES ASSUME Links!Init PROVE LinkInv
  OBVIOUS
<1>1. contact \in [Contacts -> Links!ContactType]
  BY DEF Links!Init, Links!ContactType, Links!Links, Links!Sources
<1>2. /\ recruiter \in [Students -> BOOLEAN] /\ syncing \in BOOLEAN /\ enrol = {} /\ cleared = {}
      /\ match = [r \in Requests |-> Links!IdleRun]
  BY DEF Links!Init
<1>3. match \in [Requests -> RunShape] /\ \A r \in Requests : RunInOrder(match[r])
  BY <1>2, IdleRunShape DEF NoneIsInOrder
<1>4. QED
  BY <1>1, <1>2, <1>3 DEF LinkInv, Links!ClearedStays

(* Runs are left alone, no student is cleared, and the source of no contact *)
(* goes by hand: then the runs stay in order.                               *)
LEMMA RunStays ==
  ASSUME LinkInv, NEW r \in Requests, match'[r] = match[r], cleared' \in SUBSET cleared,
         \A c \in Contacts : contact'[c].source \in {contact[c].source, "auto"},
         \A c \in Contacts, s \in cleared' : contact'[c].link = s => contact[c].link = s
  PROVE  RunInOrder(match[r])'
<1>1. RunInOrder(match[r]) /\ match[r] \in RunShape
  BY DEF LinkInv
<1>2. \A l \in match[r].todo : l.contact \in Contacts
  BY <1>1 DEF RunShape, Links!LinkType
<1>3. ByStaff(match[r])'
  BY <1>1, <1>2 DEF RunInOrder, ByStaff
<1>4. NoTeacher(match[r])'
  BY <1>1, <1>2 DEF RunInOrder, NoTeacher
<1>5. QED
  BY <1>1, <1>3, <1>4 DEF RunInOrder, InHand

(* An edit by hand of contact c marks it in the runs that are about to      *)
(* write it.                                                                *)
LEMMA HandKeeps ==
  ASSUME LinkInv, NEW c \in Contacts, NEW record \in Links!ContactType, Links!ByHand(c, record),
         cleared' \in SUBSET cleared,
         \A s \in cleared' : record.link = s => contact[c].link = s
  PROVE  /\ contact' \in [Contacts -> Links!ContactType]
         /\ match' \in [Requests -> RunShape] /\ \A r \in Requests : RunInOrder(match[r])'
<1>1. /\ contact' = [contact EXCEPT ![c] = record] /\ contact' \in [Contacts -> Links!ContactType]
      /\ contact'[c] = record /\ \A d \in Contacts \ {c} : contact'[d] = contact[d]
  BY DEF Links!ByHand, LinkInv
<1>2. ASSUME NEW r \in Requests
      PROVE  match'[r] \in RunShape /\ RunInOrder(match[r])'
  <2> DEFINE more == {c} \cap {l.contact : l \in match[r].todo}
             new  == [match[r] EXCEPT !.touched = match[r].touched \cup more]
  <2>1. match'[r] = new /\ RunInOrder(match[r]) /\ match[r] \in RunShape
    BY DEF Links!ByHand, LinkInv
  <2>2. /\ new \in RunShape /\ new.step = match[r].step /\ new.always = match[r].always
        /\ new.todo = match[r].todo /\ new.teachers = match[r].teachers /\ new.seen = match[r].seen
        /\ new.touched = match[r].touched \cup more
    BY <2>1 DEF RunShape
  <2>3. \A l \in match[r].todo : l.contact \in Contacts /\ (l.contact = c => c \in more)
    BY <2>1 DEF RunShape, Links!LinkType
  <2> HIDE DEF new, more
  <2>4. ByStaff(match[r])'
    BY <1>1, <2>1, <2>2, <2>3 DEF RunInOrder, ByStaff
  <2>5. NoTeacher(match[r])'
    BY <1>1, <2>1, <2>2, <2>3 DEF RunInOrder, NoTeacher
  <2>6. QED
    BY <2>1, <2>2, <2>4, <2>5 DEF RunInOrder, InHand
<1>3. match' \in [Requests -> RunShape]
  <2>1. match' = [r \in Requests |-> match'[r]]
    BY DEF Links!ByHand
  <2>2. QED
    BY <1>2, <2>1
<1>4. QED
  BY <1>1, <1>2, <1>3

LEMMA LinkSync ==
  ASSUME LinkInv, Links!SyncStart \/ Links!SyncFails \/ \E c \in Contacts : Links!SyncRow(c)
  PROVE  LinkInv'
<1>1. CASE Links!SyncStart \/ Links!SyncFails
  <2>1. syncing' \in BOOLEAN /\ UNCHANGED <<contact, recruiter, match, enrol, cleared>>
    BY <1>1 DEF Links!SyncStart, Links!SyncFails
  <2>2. \A r \in Requests : RunInOrder(match[r])'
    BY <2>1, RunStays
  <2>3. QED
    BY <2>1, <2>2 DEF LinkInv, Links!ClearedStays
<1>2. CASE \E c \in Contacts : Links!SyncRow(c)
  <2>1. PICK c \in Contacts, h \in Links!Links : contact' = [contact EXCEPT ![c].hint = h]
    BY <1>2 DEF Links!SyncRow
  <2>2. UNCHANGED <<recruiter, syncing, match, enrol, cleared>>
    BY <1>2 DEF Links!SyncRow
  <2>3. [contact[c] EXCEPT !.hint = h] \in Links!ContactType /\ contact[c] \in Links!ContactType
    BY DEF LinkInv, Links!ContactType
  <2>4. /\ contact' \in [Contacts -> Links!ContactType]
        /\ \A d \in Contacts : contact'[d].source = contact[d].source /\ contact'[d].link = contact[d].link
    BY <2>1, <2>3 DEF LinkInv, Links!ContactType
  <2>5. \A r \in Requests : RunInOrder(match[r])'
    BY <2>2, <2>4, RunStays
  <2>6. QED
    BY <2>2, <2>4, <2>5 DEF LinkInv, Links!ClearedStays
<1>3. QED
  BY <1>1, <1>2

LEMMA LinkByHand ==
  ASSUME LinkInv, NEW c \in Contacts,
         \/ Links!Unlink(c) \/ Links!Restore(c) \/ \E s \in Students : Links!Relink(c, s)
  PROVE  LinkInv'
<1>1. contact[c] \in Links!ContactType /\ contact[c].link \in Links!Links
  BY DEF LinkInv, Links!ContactType
<1>2. CASE Links!Unlink(c)
  <2> DEFINE record == [contact[c] EXCEPT !.link = Links!NoStudent, !.source = "ignored"]
  <2>1. record \in Links!ContactType /\ record.link = Links!NoStudent
    BY <1>1 DEF Links!ContactType, Links!Links, Links!Sources
  <2>2. Links!ByHand(c, record) /\ UNCHANGED <<recruiter, syncing, enrol, cleared>>
    BY <1>2 DEF Links!Unlink
  <2> HIDE DEF record
  <2>3. \A s \in cleared' : s # record.link
    BY <2>1, <2>2, NoneIsNoStudent DEF LinkInv
  <2>4. QED
    BY <2>1, <2>2, <2>3, HandKeeps DEF LinkInv, Links!ClearedStays
<1>3. CASE Links!Restore(c)
  <2> DEFINE record == [contact[c] EXCEPT !.source = "auto"]
  <2>1. record \in Links!ContactType /\ record.link = contact[c].link
    BY <1>1 DEF Links!ContactType, Links!Sources
  <2>2. Links!ByHand(c, record) /\ UNCHANGED <<recruiter, syncing, enrol, cleared>>
    BY <1>3 DEF Links!Restore
  <2> HIDE DEF record
  <2>3. QED
    BY <2>1, <2>2, HandKeeps DEF LinkInv, Links!ClearedStays
<1>4. CASE \E s \in Students : Links!Relink(c, s)
  <2>1. PICK s \in Students : Links!Relink(c, s)
    BY <1>4
  <2> DEFINE record == [contact[c] EXCEPT !.link = s, !.source = "manual"]
  <2>2. record \in Links!ContactType /\ record.link = s
    BY <1>1 DEF Links!ContactType, Links!Links, Links!Sources
  <2>3. /\ Links!ByHand(c, record) /\ UNCHANGED <<recruiter, syncing, enrol>>
        /\ cleared' = IF contact[c].link = s THEN cleared ELSE cleared \ {s}
    BY <2>1 DEF Links!Relink, Links!Relinks
  <2> HIDE DEF record
  <2>4. cleared' \in SUBSET cleared /\ \A t \in cleared' : record.link = t => contact[c].link = t
    BY <2>2, <2>3
  <2>5. QED
    BY <2>2, <2>3, <2>4, HandKeeps DEF LinkInv, Links!ClearedStays
<1>5. QED
  BY <1>2, <1>3, <1>4

(* One run goes on, and the contacts and who is cleared stay.               *)
LEMMA RunMoves ==
  ASSUME LinkInv, NEW r \in Requests, NEW new \in RunShape, match' = [match EXCEPT ![r] = new],
         UNCHANGED contact, cleared' \in SUBSET cleared, RunInOrder(match[r])'
  PROVE  match' \in [Requests -> RunShape] /\ \A q \in Requests : RunInOrder(match[q])'
<1>1. /\ match' \in [Requests -> RunShape] /\ \A q \in Requests \ {r} : match'[q] = match[q]
  BY DEF LinkInv
<1>2. ASSUME NEW q \in Requests PROVE RunInOrder(match[q])'
  <2>1. CASE q = r
    BY <2>1
  <2>2. CASE q # r
    <3>1. match'[q] = match[q]
      BY <1>1, <2>2
    <3>2. QED
      BY <3>1, RunStays
  <2>3. QED
    BY <2>1, <2>2
<1>3. QED
  BY <1>1, <1>2

(* The parts of the invariant that are not about runs.                      *)
LEMMA EnrolStays ==
  ASSUME LinkInv, UNCHANGED <<enrol, recruiter>>, cleared' \in SUBSET cleared
  PROVE  /\ enrol' = {} \/ \E e \in EnrolShape : enrol' = {e} /\ e.student \notin cleared'
         /\ cleared' \in SUBSET Students /\ Links!ClearedStays'
         /\ recruiter' \in [Students -> BOOLEAN]
  BY DEF LinkInv, Links!ClearedStays

LEMMA LinkStarts ==
  ASSUME LinkInv, NEW r \in Requests, Links!SyncEnd(r) \/ Links!StartRun(r)
  PROVE  LinkInv'
<1>1. PICK always \in BOOLEAN :
         /\ Links!Starts(r, always) /\ match[r].step = "idle"
         /\ UNCHANGED <<contact, recruiter, enrol>> /\ syncing' \in BOOLEAN
         /\ cleared' \in SUBSET cleared /\ (always => cleared' = {})
  <2>1. CASE Links!SyncEnd(r)
    BY <2>1 DEF Links!SyncEnd
  <2>2. CASE Links!StartRun(r)
    <3>1. PICK always \in BOOLEAN :
             Links!Starts(r, always) /\ cleared' = IF always THEN {} ELSE cleared
      BY <2>2 DEF Links!StartRun
    <3>2. QED
      BY <2>2, <3>1 DEF Links!StartRun, LinkInv
  <2>3. QED
    BY <2>1, <2>2
<1> DEFINE new == [Links!IdleRun EXCEPT !.step = "read", !.always = always]
<1>2. match' = [match EXCEPT ![r] = new]
  BY <1>1 DEF Links!Starts
<1>3. /\ new \in RunShape /\ new.step = "read" /\ new.always = always /\ new.todo = {}
      /\ new.teachers = {} /\ new.seen = Links!NoStudent
  BY IdleRunShape DEF RunShape
<1> HIDE DEF new
<1>4. match'[r] = new
  BY <1>2 DEF LinkInv
<1>5. RunInOrder(match[r])'
  <2>1. InHand(match[r])' /\ ByStaff(match[r])'
    BY <1>3, <1>4 DEF InHand, ByStaff
  <2>2. NoTeacher(match[r])'
    BY <1>1, <1>3, <1>4, NoneIsNoStudent DEF NoTeacher, LinkInv
  <2>3. QED
    BY <1>3, <1>4, <2>1, <2>2 DEF RunInOrder
<1>6. match' \in [Requests -> RunShape] /\ \A q \in Requests : RunInOrder(match[q])'
  BY <1>1, <1>2, <1>3, <1>5, RunMoves
<1>7. QED
  BY <1>1, <1>6, EnrolStays DEF LinkInv

LEMMA LinkReadPage ==
  ASSUME LinkInv, NEW r \in Requests, Links!ReadPage(r)
  PROVE  LinkInv'
<1> DEFINE todo == Links!Todo({"auto"})
           new  == [match[r] EXCEPT !.step = "match", !.todo = todo]
<1>1. /\ match' = [match EXCEPT ![r] = new] /\ match[r].step = "read"
      /\ UNCHANGED <<contact, recruiter, syncing, enrol, cleared>>
      /\ match[r] \in RunShape /\ RunInOrder(match[r])
  BY DEF Links!ReadPage, LinkInv
<1>2. ASSUME NEW l \in todo
      PROVE  /\ l \in Links!LinkType /\ contact[l.contact].source = "auto"
             /\ ~l.old => contact[l.contact].link # l.student
  <2>1. PICK c \in Contacts :
           /\ contact[c].source \in {"auto"} /\ contact[c].hint # Links!NoStudent
           /\ l = [contact |-> c, student |-> contact[c].hint, old |-> contact[c].link = contact[c].hint]
    BY DEF Links!Todo
  <2> DEFINE old == contact[c].link = contact[c].hint
  <2>2. l.contact = c /\ l.student = contact[c].hint /\ l.old = old /\ old \in BOOLEAN
        /\ l = [contact |-> c, student |-> contact[c].hint, old |-> old]
    BY <2>1
  <2>3. contact[c].hint \in Students
    BY <2>1 DEF LinkInv, Links!ContactType, Links!Links
  <2>4. l \in Links!LinkType
    <3> HIDE DEF old
    <3>1. QED
      BY <2>2, <2>3 DEF Links!LinkType
  <2>5. ~l.old => contact[c].link # contact[c].hint
    BY <2>2
  <2>6. QED
    BY <2>1, <2>2, <2>4, <2>5
<1>3. todo \in SUBSET Links!LinkType
  BY <1>2
<1> HIDE DEF todo
<1>4. /\ new \in RunShape /\ new.step = "match" /\ new.always = match[r].always /\ new.todo = todo
      /\ new.teachers = match[r].teachers /\ new.seen = match[r].seen
  BY <1>1, <1>3 DEF RunShape
<1> HIDE DEF new
<1>5. match'[r] = new
  BY <1>1 DEF LinkInv
<1>6. RunInOrder(match[r])'
  <2>1. InHand(match[r])'
    BY <1>1, <1>4, <1>5 DEF RunInOrder, InHand
  <2>2. ByStaff(match[r])'
    BY <1>1, <1>2, <1>4, <1>5 DEF ByStaff
  <2>3. NoTeacher(match[r])'
    BY <1>1, <1>2, <1>4, <1>5 DEF RunInOrder, NoTeacher
  <2>4. QED
    BY <1>4, <1>5, <2>1, <2>2, <2>3 DEF RunInOrder
<1>7. match' \in [Requests -> RunShape] /\ \A q \in Requests : RunInOrder(match[q])'
  BY <1>1, <1>4, <1>6, RunMoves
<1>8. QED
  BY <1>1, <1>7, EnrolStays DEF LinkInv

(* A link that is written: which one, and what it brings.                   *)
LEMMA MatchWrites ==
  ASSUME NEW r \in Requests, Links!Match(r)
  PROVE  /\ match[r].step = "match" /\ UNCHANGED <<recruiter, syncing, enrol>>
         /\ \E l \in match[r].todo, brings \in BOOLEAN :
              /\ contact' = [contact EXCEPT ![l.contact].link = l.student, ![l.contact].source = "auto"]
              /\ match' = [match EXCEPT ![r].todo = match[r].todo \ {l},
                             ![r].touched = match[r].touched \ {l.contact},
                             ![r].teachers = IF brings THEN match[r].teachers \cup {l.student}
                                             ELSE match[r].teachers]
              /\ cleared' = IF contact[l.contact].link = l.student THEN cleared
                            ELSE cleared \ {l.student}
              /\ brings => ~l.old \/ match[r].always
  BY DEF Links!Match, Links!Writes, Links!Relinks

LEMMA LinkMatch ==
  ASSUME LinkInv, NEW r \in Requests, Links!Match(r)
  PROVE  LinkInv'
<1>1. PICK l \in match[r].todo, brings \in BOOLEAN :
         /\ contact' = [contact EXCEPT ![l.contact].link = l.student, ![l.contact].source = "auto"]
         /\ match' = [match EXCEPT ![r].todo = match[r].todo \ {l},
                        ![r].touched = match[r].touched \ {l.contact},
                        ![r].teachers = IF brings THEN match[r].teachers \cup {l.student}
                                        ELSE match[r].teachers]
         /\ cleared' = IF contact[l.contact].link = l.student THEN cleared
                       ELSE cleared \ {l.student}
         /\ brings => ~l.old \/ match[r].always
  BY MatchWrites
<1> DEFINE teachers == IF brings THEN match[r].teachers \cup {l.student} ELSE match[r].teachers
           new == [match[r] EXCEPT !.todo = match[r].todo \ {l},
                                   !.touched = match[r].touched \ {l.contact},
                                   !.teachers = teachers]
           c == l.contact
           record == [contact[c] EXCEPT !.link = l.student, !.source = "auto"]
<1>2. /\ match[r].step = "match" /\ UNCHANGED <<recruiter, syncing, enrol>>
      /\ match[r] \in RunShape /\ RunInOrder(match[r])
      /\ l \in Links!LinkType /\ c \in Contacts /\ l.student \in Students
  <2>1. match[r].step = "match" /\ UNCHANGED <<recruiter, syncing, enrol>>
    BY MatchWrites
  <2>2. match[r] \in RunShape /\ RunInOrder(match[r])
    BY DEF LinkInv
  <2>3. match[r].todo \in SUBSET Links!LinkType
    BY <2>2 DEF RunShape
  <2>4. l \in Links!LinkType
    BY <2>3
  <2>5. QED
    BY <2>1, <2>2, <2>4 DEF Links!LinkType
<1>3. match' = [match EXCEPT ![r] = new]
  BY <1>1 DEF LinkInv
<1>4. contact' = [contact EXCEPT ![c] = record]
  BY <1>1, <1>2 DEF LinkInv
<1>5. record \in Links!ContactType /\ record.link = l.student /\ record.source = "auto"
  <2>1. contact[c] \in Links!ContactType
    BY <1>2 DEF LinkInv
  <2>2. QED
    BY <1>2, <2>1 DEF Links!ContactType, Links!Links, Links!Sources
<1>6. teachers \in SUBSET Students /\ \A s \in teachers \ match[r].teachers : brings /\ s = l.student
  BY <1>2 DEF RunShape
<1> HIDE DEF teachers
<1>7. /\ new \in RunShape /\ new.step = "match" /\ new.always = match[r].always
      /\ new.todo = match[r].todo \ {l} /\ new.touched = match[r].touched \ {c}
      /\ new.teachers = teachers /\ new.seen = match[r].seen
  BY <1>2, <1>6 DEF RunShape
<1> HIDE DEF new, record
<1>8. /\ match' \in [Requests -> RunShape] /\ match'[r] = new
      /\ \A q \in Requests \ {r} : match'[q] = match[q]
  BY <1>3, <1>7 DEF LinkInv
<1>9. /\ contact' \in [Contacts -> Links!ContactType]
      /\ contact'[c].link = l.student /\ contact'[c].source = "auto"
      /\ \A d \in Contacts \ {c} : contact'[d] = contact[d]
  BY <1>2, <1>4, <1>5 DEF LinkInv
<1>10. /\ cleared' \in SUBSET cleared
       /\ \A s \in cleared' : s = l.student => contact[c].link = s
  BY <1>1
<1>11. RunInOrder(match[r])'
  <2>1. InHand(match[r])'
    BY <1>2, <1>7, <1>8 DEF RunInOrder, InHand
  <2>2. ByStaff(match[r])'
    <3>1. \A k \in new.todo : k.contact \in Contacts
      BY <1>7 DEF RunShape, Links!LinkType
    <3>2. QED
      BY <1>2, <1>7, <1>8, <1>9, <3>1 DEF RunInOrder, ByStaff
  <2>3. NoTeacher(match[r])'
    <3> SUFFICES ASSUME NEW s \in cleared'
                 PROVE  /\ ~new.always /\ s \notin new.teachers /\ s # new.seen
                        /\ \A k \in new.todo : k.student = s /\ ~k.old => contact'[k.contact].link # s
      BY <1>8 DEF NoTeacher
    <3>1. /\ ~match[r].always /\ s \notin match[r].teachers /\ s # match[r].seen
          /\ \A k \in match[r].todo : k.student = s /\ ~k.old => contact[k.contact].link # s
      BY <1>2, <1>10 DEF RunInOrder, NoTeacher
    <3>2. s \notin teachers
      <4>1. CASE s = l.student /\ brings
        <5>1. ~l.old /\ contact[c].link = s
          BY <1>1, <1>10, <3>1, <4>1
        <5>2. QED
          BY <3>1, <4>1, <5>1
      <4>2. QED
        BY <1>6, <3>1, <4>1
    <3>3. ASSUME NEW k \in new.todo, k.student = s, ~k.old
          PROVE  contact'[k.contact].link # s
      <4>1. k \in match[r].todo /\ k.contact \in Contacts
        BY <1>7 DEF RunShape, Links!LinkType
      <4>2. contact[k.contact].link # s
        BY <3>1, <3>3, <4>1
      <4>3. CASE k.contact = c
        BY <1>9, <1>10, <4>2, <4>3
      <4>4. CASE k.contact # c
        BY <1>9, <4>1, <4>2, <4>4
      <4>5. QED
        BY <4>3, <4>4
    <3>4. QED
      BY <1>7, <3>1, <3>2, <3>3
  <2>4. QED
    BY <1>7, <1>8, <2>1, <2>2, <2>3 DEF RunInOrder
<1>12. ASSUME NEW q \in Requests PROVE RunInOrder(match[q])'
  <2>1. CASE q = r
    BY <1>11, <2>1
  <2>2. CASE q # r
    <3>1. match'[q] = match[q]
      BY <1>8, <2>2
    <3>2. \A d \in Contacts : contact'[d].source \in {contact[d].source, "auto"}
      BY <1>9
    <3>3. \A d \in Contacts, s \in cleared' : contact'[d].link = s => contact[d].link = s
      BY <1>9, <1>10
    <3>4. QED
      BY <1>10, <3>1, <3>2, <3>3, RunStays
  <2>3. QED
    BY <2>1, <2>2
<1>13. QED
  BY <1>2, <1>8, <1>9, <1>10, <1>12, EnrolStays DEF LinkInv

LEMMA LinkReadTeacher ==
  ASSUME LinkInv, NEW r \in Requests, Links!ReadTeacher(r)
  PROVE  LinkInv'
<1>1. /\ match[r].step \in {"match", "fill"} /\ match[r].todo = {}
      /\ UNCHANGED <<contact, recruiter, syncing, enrol, cleared>>
      /\ match[r] \in RunShape /\ RunInOrder(match[r])
  BY DEF Links!ReadTeacher, LinkInv
<1>2. CASE match[r].teachers = {}
  <2>1. match' = [match EXCEPT ![r] = Links!IdleRun] /\ match'[r] = Links!IdleRun
    BY <1>2 DEF Links!ReadTeacher, LinkInv
  <2>2. NoneIsInOrder'
    BY IdleRunShape, PTL
  <2>3. RunInOrder(match[r])'
    BY <1>1, <2>1, <2>2 DEF NoneIsInOrder, LinkInv
  <2>4. match' \in [Requests -> RunShape] /\ \A q \in Requests : RunInOrder(match[q])'
    BY <1>1, <2>1, <2>3, RunMoves, IdleRunShape
  <2>5. QED
    BY <1>1, <2>4, EnrolStays DEF LinkInv
<1>3. CASE match[r].teachers # {}
  <2>1. PICK s \in match[r].teachers :
           match' = [match EXCEPT ![r].step = IF recruiter[s] THEN "fill" ELSE "put",
                                  ![r].teachers = match[r].teachers \ {s},
                                  ![r].seen = IF recruiter[s] THEN Links!NoStudent ELSE s]
    BY <1>3 DEF Links!ReadTeacher
  <2> DEFINE step == IF recruiter[s] THEN "fill" ELSE "put"
             seen == IF recruiter[s] THEN Links!NoStudent ELSE s
             new  == [match[r] EXCEPT !.step = step, !.teachers = match[r].teachers \ {s}, !.seen = seen]
  <2>2. /\ s \in Students /\ step \in {"fill", "put"} /\ (step = "put" => seen = s)
        /\ step = "fill" => seen = Links!NoStudent
    BY <1>1 DEF RunShape
  <2>3. match' = [match EXCEPT ![r] = new]
    BY <2>1 DEF LinkInv
  <2> HIDE DEF step, seen
  <2>4. seen \in Links!Links
    BY <2>2 DEF Links!Links
  <2>5. /\ new \in RunShape /\ new.step = step /\ new.always = match[r].always /\ new.todo = {}
        /\ new.teachers = match[r].teachers \ {s} /\ new.seen = seen
    BY <1>1, <2>2, <2>4 DEF RunShape
  <2> HIDE DEF new
  <2>6. match'[r] = new
    BY <2>3 DEF LinkInv
  <2>7. RunInOrder(match[r])'
    <3>1. InHand(match[r])' /\ ByStaff(match[r])'
      BY <2>2, <2>5, <2>6 DEF InHand, ByStaff
    <3>2. NoTeacher(match[r])'
      BY <1>1, <2>2, <2>5, <2>6, NoneIsNoStudent DEF RunInOrder, NoTeacher, LinkInv
    <3>3. QED
      BY <2>5, <2>6, <3>1, <3>2 DEF RunInOrder
  <2>8. match' \in [Requests -> RunShape] /\ \A q \in Requests : RunInOrder(match[q])'
    BY <1>1, <2>3, <2>5, <2>7, RunMoves
  <2>9. QED
    BY <1>1, <2>8, EnrolStays DEF LinkInv
<1>4. QED
  BY <1>2, <1>3

LEMMA LinkPutTeacher ==
  ASSUME LinkInv, NEW r \in Requests, Links!PutTeacher(r)
  PROVE  LinkInv'
<1> DEFINE new == [match[r] EXCEPT !.step = "fill", !.seen = Links!NoStudent]
<1>1. /\ match[r].step = "put" /\ UNCHANGED <<contact, syncing, enrol, cleared>>
      /\ match' = [match EXCEPT ![r] = new]
      /\ recruiter' = [recruiter EXCEPT ![match[r].seen] = TRUE]
      /\ match[r] \in RunShape /\ RunInOrder(match[r])
  BY DEF Links!PutTeacher, LinkInv
<1>2. /\ new \in RunShape /\ new.step = "fill" /\ new.always = match[r].always
      /\ new.todo = match[r].todo /\ new.touched = match[r].touched
      /\ new.teachers = match[r].teachers /\ new.seen = Links!NoStudent
  BY <1>1 DEF RunShape, Links!Links
<1> HIDE DEF new
<1>3. match'[r] = new
  BY <1>1 DEF LinkInv
<1>4. RunInOrder(match[r])'
  <2>1. match[r].todo = {}
    BY <1>1 DEF RunInOrder, InHand
  <2>2. InHand(match[r])' /\ ByStaff(match[r])'
    BY <1>2, <1>3, <2>1 DEF InHand, ByStaff
  <2>3. NoTeacher(match[r])'
    BY <1>1, <1>2, <1>3, <2>1, NoneIsNoStudent DEF RunInOrder, NoTeacher, LinkInv
  <2>4. QED
    BY <1>2, <1>3, <2>2, <2>3 DEF RunInOrder
<1>5. match' \in [Requests -> RunShape] /\ \A q \in Requests : RunInOrder(match[q])'
  BY <1>1, <1>2, <1>4, RunMoves
<1>6. recruiter' \in [Students -> BOOLEAN] /\ Links!ClearedStays'
  <2>1. match[r].seen \notin cleared
    BY <1>1 DEF RunInOrder, NoTeacher
  <2>2. QED
    BY <1>1, <2>1 DEF LinkInv, Links!ClearedStays
<1>7. QED
  BY <1>1, <1>5, <1>6 DEF LinkInv

LEMMA LinkEnrol ==
  ASSUME LinkInv,
         \/ \E c \in Contacts, s \in Students : Links!EnrolRead(c, s)
         \/ Links!EnrolLink \/ Links!EnrolFill
  PROVE  LinkInv'
<1>1. CASE \E c \in Contacts, s \in Students : Links!EnrolRead(c, s)
  <2>1. PICK c \in Contacts, s \in Students : Links!EnrolRead(c, s)
    BY <1>1
  <2>2. PICK known \in BOOLEAN :
           enrol' = {[step |-> "link", contact |-> c, student |-> s, fill |-> known /\ ~recruiter[s]]}
    BY <2>1 DEF Links!EnrolRead
  <2> DEFINE fill == known /\ ~recruiter[s]
             new  == [step |-> "link", contact |-> c, student |-> s, fill |-> fill]
  <2>3. cleared' = cleared \ {s} /\ UNCHANGED <<contact, recruiter, syncing, match>>
    BY <2>1 DEF Links!EnrolRead
  <2>4. fill \in BOOLEAN
    OBVIOUS
  <2>5. enrol' = {new}
    BY <2>2
  <2> HIDE DEF fill
  <2>6. new \in EnrolShape /\ new.student = s
    BY <2>4 DEF EnrolShape
  <2> HIDE DEF new
  <2>7. \E e \in EnrolShape : enrol' = {e} /\ e.student \notin cleared'
    BY <2>3, <2>5, <2>6
  <2>8. \A r \in Requests : RunInOrder(match[r])'
    BY <2>3, RunStays
  <2>9. QED
    BY <2>3, <2>7, <2>8 DEF LinkInv, Links!ClearedStays
<1>2. CASE Links!EnrolLink
  <2>1. PICK e \in enrol :
           /\ e.step = "link"
           /\ Links!ByHand(e.contact, [contact[e.contact] EXCEPT !.link = e.student])
           /\ Links!Relinks(e.contact, e.student)
           /\ enrol' = IF e.fill THEN {[e EXCEPT !.step = "fill"]} ELSE {}
           /\ UNCHANGED <<recruiter, syncing>>
    BY <1>2 DEF Links!EnrolLink
  <2> DEFINE c == e.contact
             s == e.student
             record == [contact[c] EXCEPT !.link = s]
  <2>2. e \in EnrolShape /\ s \notin cleared /\ c \in Contacts /\ s \in Students
    BY DEF LinkInv, EnrolShape
  <2>3. contact[c] \in Links!ContactType
    BY <2>2 DEF LinkInv
  <2>4. record \in Links!ContactType /\ record.link = s
    BY <2>2, <2>3 DEF Links!ContactType, Links!Links
  <2>5. Links!ByHand(c, record)
    BY <2>1
  <2>6. cleared' \in SUBSET cleared
    BY <2>1 DEF Links!Relinks
  <2>7. enrol' = {} \/ \E f \in EnrolShape : enrol' = {f} /\ f.student \notin cleared'
    <3>1. [e EXCEPT !.step = "fill"] \in EnrolShape /\ [e EXCEPT !.step = "fill"].student = s
      BY <2>2 DEF EnrolShape
    <3>2. enrol' = {} \/ enrol' = {[e EXCEPT !.step = "fill"]}
      BY <2>1
    <3>3. QED
      BY <2>2, <2>6, <3>1, <3>2
  <2> HIDE DEF record
  <2>8. \A t \in cleared' : record.link = t => contact[c].link = t
    BY <2>2, <2>4, <2>6
  <2> HIDE DEF c, s
  <2>9. /\ contact' \in [Contacts -> Links!ContactType]
        /\ match' \in [Requests -> RunShape] /\ \A r \in Requests : RunInOrder(match[r])'
    BY <2>2, <2>4, <2>5, <2>6, <2>8, HandKeeps
  <2>10. QED
    BY <2>1, <2>6, <2>7, <2>9 DEF LinkInv, Links!ClearedStays
<1>3. CASE Links!EnrolFill
  <2>1. PICK e \in enrol :
           /\ recruiter' = [recruiter EXCEPT ![e.student] = TRUE] /\ enrol' = {}
           /\ UNCHANGED <<contact, syncing, match, cleared>>
    BY <1>3 DEF Links!EnrolFill
  <2>2. e.student \notin cleared
    BY DEF LinkInv
  <2>3. recruiter' \in [Students -> BOOLEAN] /\ Links!ClearedStays'
    BY <2>1, <2>2 DEF LinkInv, Links!ClearedStays
  <2>4. \A r \in Requests : RunInOrder(match[r])'
    BY <2>1, RunStays
  <2>5. QED
    BY <2>1, <2>3, <2>4 DEF LinkInv
<1>4. QED
  BY <1>1, <1>2, <1>3

LEMMA LinkTeacher ==
  ASSUME LinkInv, NEW s \in Students, Links!SetTeacher(s) \/ Links!ClearTeacher(s)
  PROVE  LinkInv'
<1>1. CASE Links!SetTeacher(s)
  <2>1. /\ recruiter' = [recruiter EXCEPT ![s] = TRUE] /\ cleared' = cleared \ {s}
        /\ UNCHANGED <<contact, syncing, match, enrol>>
    BY <1>1 DEF Links!SetTeacher
  <2>2. \A r \in Requests : RunInOrder(match[r])'
    BY <2>1, RunStays
  <2>3. recruiter' \in [Students -> BOOLEAN] /\ Links!ClearedStays'
    BY <2>1 DEF LinkInv, Links!ClearedStays
  <2>4. QED
    BY <2>1, <2>2, <2>3 DEF LinkInv
<1>2. CASE Links!ClearTeacher(s)
  <2>1. /\ recruiter' = [recruiter EXCEPT ![s] = FALSE]
        /\ cleared' = IF Links!Quiet THEN cleared \cup {s} ELSE cleared
        /\ UNCHANGED <<contact, syncing, match, enrol>>
    BY <1>2 DEF Links!ClearTeacher
  <2>2. recruiter' \in [Students -> BOOLEAN] /\ Links!ClearedStays'
    BY <2>1 DEF LinkInv, Links!ClearedStays
  <2>3. CASE ~Links!Quiet
    <3>1. \A r \in Requests : RunInOrder(match[r])'
      BY <2>1, <2>3, RunStays
    <3>2. QED
      BY <2>1, <2>2, <2>3, <3>1 DEF LinkInv
  <2>4. CASE Links!Quiet
    <3>1. enrol' = {} /\ cleared' \in SUBSET Students
      BY <2>1, <2>4 DEF Links!Quiet, LinkInv
    <3>2. ASSUME NEW r \in Requests PROVE RunInOrder(match[r])'
      <4>1. match[r].step = "idle" /\ RunInOrder(match[r]) /\ match'[r] = match[r]
        BY <2>1, <2>4 DEF Links!Quiet, LinkInv
      <4>2. match[r].todo = {} /\ match[r].teachers = {} /\ match[r].seen = Links!NoStudent
        BY <4>1 DEF RunInOrder, InHand
      <4>3. NoTeacher(match[r])' /\ ByStaff(match[r])'
        BY <3>1, <4>1, <4>2, NoneIsNoStudent DEF NoTeacher, ByStaff
      <4>4. QED
        BY <4>1, <4>3 DEF RunInOrder, InHand
    <3>3. QED
      BY <2>1, <2>2, <3>1, <3>2 DEF LinkInv
  <2>5. QED
    BY <2>3, <2>4
<1>3. QED
  BY <1>1, <1>2

LEMMA LinkStepKeeps == LinkInv /\ [RecordsNext]_allVars => LinkInv'
<1> SUFFICES ASSUME LinkInv, [RecordsNext]_allVars PROVE LinkInv'
  OBVIOUS
<1>1. ASSUME Links!Next PROVE LinkInv'
  BY <1>1, LinkSync, LinkByHand, LinkStarts, LinkReadPage, LinkMatch, LinkReadTeacher,
     LinkPutTeacher, LinkEnrol, LinkTeacher DEF Links!Next
<1>2. ASSUME UNCHANGED linkVars PROVE LinkInv'
  <2>1. UNCHANGED <<contact, recruiter, syncing, match, enrol, cleared>>
    BY <1>2 DEF linkVars
  <2>2. \A r \in Requests : RunInOrder(match[r])'
    BY <2>1, RunStays
  <2>3. QED
    BY <2>1, <2>2 DEF LinkInv, Links!ClearedStays
<1>3. Links!Next \/ UNCHANGED linkVars
  BY DEF RecordsNext, NumberStep, FieldStep, TableStep, LinkStep, RoleStep, allVars, linkVars
<1>4. QED
  BY <1>1, <1>2, <1>3

LEMMA LinksAreTyped == LinkInv => Links!TypeInv
<1> SUFFICES ASSUME LinkInv PROVE Links!TypeInv
  OBVIOUS
<1>1. \A r \in Requests :
         /\ match[r].step \in {"idle", "read", "match", "fill", "put"}
         /\ match[r].always \in BOOLEAN
         /\ match[r].todo \subseteq Links!LinkType
         /\ match[r].teachers \subseteq Students
         /\ match[r].seen \in Links!Links
         /\ match[r].touched \subseteq Contacts
  <2>1. \A r \in Requests : match[r] \in RunShape
    BY DEF LinkInv
  <2>2. QED
    BY <2>1 DEF RunShape
<1>2. enrol \subseteq EnrolShape /\ (enrol = {} \/ \E e : enrol = {e})
  BY DEF LinkInv
<1>3. Links!Cardinality(enrol) <= 1
  <2>1. Links!Cardinality(enrol) = Cardinality(enrol)
    BY DEF Links!Cardinality, Cardinality
  <2>2. CASE enrol = {}
    BY <2>1, <2>2, FS_EmptySet
  <2>3. CASE \E e : enrol = {e}
    <3>1. PICK e : enrol = {e}
      BY <2>3
    <3>2. Cardinality({e}) = 1
      BY FS_Singleton
    <3>3. QED
      BY <2>1, <3>1, <3>2
  <2>4. QED
    BY <1>2, <2>2, <2>3
<1>4. QED
  BY <1>1, <1>2, <1>3 DEF LinkInv, Links!TypeInv, EnrolShape

(* The actions of the two properties, for one step. *)
StaffFirst ==
    \A r \in Requests, c \in Contacts :
        Links!Matches(r, c) /\ contact[c].source # "auto" => c \in match[r].touched

LinkKept ==
    \A c \in Contacts :
        contact[c].link # Links!NoStudent /\ contact'[c].link = Links!NoStudent
           => contact'[c].source = "ignored"

(* Only a run that writes a link makes its list of links to write shorter.  *)
LEMMA LinkStepStaff == LinkInv /\ [RecordsNext]_allVars => [StaffFirst]_(Links!vars)
<1> SUFFICES ASSUME LinkInv, NEW r \in Requests, NEW c \in Contacts,
                    Links!Matches(r, c), contact[c].source # "auto"
             PROVE  c \in match[r].touched
  BY DEF StaffFirst
<1>1. PICK l \in match[r].todo : l.contact = c
  BY DEF Links!Matches
<1>2. RunInOrder(match[r])
  BY DEF LinkInv
<1>3. QED
  BY <1>1, <1>2 DEF RunInOrder, ByStaff

LEMMA LinkStepKept == LinkInv /\ [RecordsNext]_allVars => [LinkKept]_(Links!vars)
<1> SUFFICES ASSUME LinkInv, [RecordsNext]_allVars, NEW c \in Contacts,
                    contact[c].link # Links!NoStudent, contact'[c].link = Links!NoStudent
             PROVE  contact'[c].source = "ignored"
  BY DEF LinkKept
<1>1. Links!Next
  BY DEF RecordsNext, NumberStep, FieldStep, TableStep, LinkStep, RoleStep, allVars, linkVars
<1>2. contact' # contact /\ contact \in [Contacts -> Links!ContactType]
  BY DEF LinkInv
<1>3. \/ \E d \in Contacts : Links!SyncRow(d) \/ Links!Unlink(d) \/ Links!Restore(d)
      \/ \E d \in Contacts, s \in Students : Links!Relink(d, s)
      \/ Links!EnrolLink \/ \E r \in Requests : Links!Match(r)
  BY <1>1, <1>2 DEF Links!Next, Links!SyncStart, Links!SyncFails, Links!EnrolRead, Links!EnrolFill, Links!SetTeacher,
     Links!ClearTeacher, Links!SyncEnd, Links!StartRun, Links!ReadPage, Links!ReadTeacher, Links!PutTeacher
<1>4. ASSUME NEW d \in Contacts, NEW record, contact' = [contact EXCEPT ![d] = record]
      PROVE  contact'[c] = IF c = d THEN record ELSE contact[c]
  BY <1>2, <1>4
<1>5. CASE \E d \in Contacts : Links!SyncRow(d)
  BY <1>2, <1>5 DEF Links!SyncRow, Links!ContactType
<1>6. CASE \E d \in Contacts : Links!Unlink(d)
  BY <1>2, <1>6 DEF Links!Unlink, Links!ByHand, Links!ContactType
<1>7. CASE \E d \in Contacts : Links!Restore(d)
  BY <1>2, <1>7 DEF Links!Restore, Links!ByHand, Links!ContactType
<1>8. CASE \E d \in Contacts, s \in Students : Links!Relink(d, s)
  BY <1>2, <1>8, NoneIsNoStudent DEF Links!Relink, Links!ByHand, Links!ContactType
<1>9. CASE Links!EnrolLink
  <2>1. PICK e \in enrol : contact' = [contact EXCEPT ![e.contact] = [contact[e.contact] EXCEPT !.link = e.student]]
    BY <1>9 DEF Links!EnrolLink, Links!ByHand
  <2>2. e.contact \in Contacts /\ e.student \in Students
    BY DEF LinkInv, EnrolShape
  <2>3. QED
    BY <1>2, <2>1, <2>2, NoneIsNoStudent DEF Links!ContactType
<1>10. CASE \E r \in Requests : Links!Match(r)
  <2>1. PICK r \in Requests : Links!Match(r)
    BY <1>10
  <2>2. PICK l \in match[r].todo :
           contact' = [contact EXCEPT ![l.contact].link = l.student, ![l.contact].source = "auto"]
    BY <2>1, MatchWrites
  <2>3. l.contact \in Contacts /\ l.student \in Students
    <3>1. match[r] \in RunShape
      BY DEF LinkInv
    <3>2. match[r].todo \in SUBSET Links!LinkType
      BY <3>1 DEF RunShape
    <3>3. l \in Links!LinkType
      BY <3>2
    <3>4. QED
      BY <3>3 DEF Links!LinkType
  <2>4. QED
    BY <1>2, <2>2, <2>3, NoneIsNoStudent DEF Links!ContactType
<1>11. QED
  BY <1>3, <1>5, <1>6, <1>7, <1>8, <1>9, <1>10

(* Staff win over the matching, a link is lost by unlinking only, and a     *)
(* teacher cleared while nothing was under way comes back only with a new   *)
(* link or on request; for every number of contacts, students and runs.     *)
THEOREM LinksAreKept == RecordsSpec => LinksKept
<1>1. RecordsInit => LinkInv
  BY LinkInit DEF RecordsInit
<1>2. RecordsSpec => []LinkInv
  BY <1>1, LinkStepKeeps, PTL DEF RecordsSpec
<1>3. LinkInv => (active = "links" => Links!TypeInv /\ Links!ClearedStays)
  BY LinksAreTyped DEF LinkInv
<1>4. RecordsSpec => Links!StaffWin
  BY <1>2, LinkStepStaff, PTL DEF RecordsSpec, Links!StaffWin, StaffFirst
<1>5. RecordsSpec => Links!LinksSurvive
  BY <1>2, LinkStepKept, PTL DEF RecordsSpec, Links!LinksSurvive, LinkKept
<1>6. QED
  BY <1>2, <1>3, <1>4, <1>5, PTL DEF LinksKept
-----------------------------------------------------------------------------
(* Numbers of students. *)
LEMMA LeastNumber ==
  ASSUME NEW T \in SUBSET Nat, T # {}
  PROVE  \E n \in T : \A m \in T : n <= m
<1> DEFINE R == {ss \in Nat \X Nat : ss[1] < ss[2]}
<1>1. IsWellFoundedOn(R, Nat)
  BY NatLessThanWellFounded DEF OpToRel
<1> HIDE DEF R
<1>2. PICK n \in T : \A m \in T : ~ (<<m, n>> \in R)
  BY <1>1, WFMin
<1>3. \A m \in T : ~ (m < n)
  BY <1>2 DEF R
<1>4. QED
  BY <1>3

LEMMA NumberConstants ==
  /\ MaxStudents \in Nat /\ MaxNo \in Nat /\ Retry \in Nat
  /\ Coded \subseteq Numbers!Pupils /\ Coded \subseteq Numbers!Numbers
  BY NumbersAssumption DEF Numbers!NosAreFinite, Numbers!Pupils, Numbers!Numbers

(* A generated number is free, or there is none. *)
LEMMA CodeIsFree ==
  \A used : Numbers!GenerateCode(used) = Numbers!Blank
            \/ Numbers!GenerateCode(used) \in Numbers!Numbers \ used
<1> SUFFICES ASSUME NEW used
             PROVE  Numbers!GenerateCode(used) = Numbers!Blank
                    \/ Numbers!GenerateCode(used) \in Numbers!Numbers \ used
  OBVIOUS
<1> DEFINE base  == IF rule.collects /\ used # {} THEN Numbers!Max(used) + 1 ELSE 1
           tries == IF rule.conflict = "error" THEN {base} ELSE base..(base + Retry + 1)
           free  == (tries \cap Numbers!Numbers) \ used
<1>1. Numbers!GenerateCode(used) = IF free = {} THEN Numbers!Blank ELSE Numbers!Min(free)
  BY DEF Numbers!GenerateCode
<1> HIDE DEF tries
<1>2. CASE free = {}
  BY <1>1, <1>2
<1>3. CASE free # {}
  <2>1. free \in SUBSET Nat
    BY NumberConstants DEF Numbers!Numbers
  <2>2. \E n \in free : \A m \in free : n <= m
    BY <1>3, <2>1, LeastNumber
  <2>3. Numbers!Min(free) \in free
    BY <2>2 DEF Numbers!Min
  <2>4. QED
    BY <1>1, <1>3, <2>3
<1>4. QED
  BY <1>2, <1>3

(* The plan of the batch, one record at a time.                            *)
LongerPlan(refused, q, k) ==
    LET s == MaxStudents + 1 - k
    IN  IF no[s] = Numbers!Blank /\ s \notin refused THEN Numbers!Extend(q, s) ELSE q

PlansUpTo(refused, f, n) == f = [k \in 0..n |-> IF k = 0 THEN <<>> ELSE LongerPlan(refused, f[k - 1], k)]

LEMMA PlansExist == \A refused : \A n \in Nat : \E f : PlansUpTo(refused, f, n)
<1> TAKE refused
<1> DEFINE T == {n \in Nat : ~ \E f : PlansUpTo(refused, f, n)}
<1>1. SUFFICES ASSUME T # {} PROVE FALSE
  OBVIOUS
<1>2. PICK n \in T : \A m \in T : n <= m
  BY <1>1, LeastNumber
<1>3. CASE n = 0
  <2>1. PlansUpTo(refused, [k \in 0..0 |-> <<>>], 0)
    BY DEF PlansUpTo
  <2>2. QED
    BY <1>3, <2>1
<1>4. CASE n # 0
  <2>1. n - 1 \in Nat /\ n - 1 \notin T
    BY <1>2, <1>4
  <2>2. PICK f : PlansUpTo(refused, f, n - 1)
    BY <2>1
  <2> DEFINE g == [k \in 0..n |-> IF k = n THEN LongerPlan(refused, f[n - 1], n) ELSE f[k]]
             h == [k \in 0..n |-> IF k = 0 THEN <<>> ELSE LongerPlan(refused, g[k - 1], k)]
  <2>3. ASSUME NEW k \in 0..n PROVE g[k] = h[k]
    <3>1. CASE k = n
      <4>1. g[n - 1] = f[n - 1]
        BY <1>4
      <4> HIDE DEF g
      <4>2. h[k] = LongerPlan(refused, g[n - 1], n)
        BY <1>4, <3>1
      <4> USE DEF g
      <4>3. g[k] = LongerPlan(refused, f[n - 1], n)
        BY <3>1
      <4>4. QED
        BY <4>1, <4>2, <4>3
    <3>2. CASE k # n
      <4>1. k \in 0..(n - 1)
        BY <3>2
      <4>2. g[k] = f[k]
        BY <3>2
      <4>3. f[k] = IF k = 0 THEN <<>> ELSE LongerPlan(refused, f[k - 1], k)
        BY <2>2, <4>1 DEF PlansUpTo
      <4>4. k # 0 => g[k - 1] = f[k - 1]
        BY <4>1
      <4> HIDE DEF g
      <4>5. h[k] = IF k = 0 THEN <<>> ELSE LongerPlan(refused, g[k - 1], k)
        OBVIOUS
      <4>6. QED
        BY <4>2, <4>3, <4>4, <4>5
    <3>3. QED
      BY <3>1, <3>2
  <2>4. g = h
    BY <2>3
  <2>5. PlansUpTo(refused, g, n)
    BY <2>4 DEF PlansUpTo
  <2>6. QED
    BY <2>5
<1>5. QED
  BY <1>3, <1>4

LEMMA PlanIsBuilt == \A refused : \E f : PlansUpTo(refused, f, MaxStudents) /\ Numbers!BuildFill(refused) = f[MaxStudents]
<1> TAKE refused
<1> DEFINE f == CHOOSE f : PlansUpTo(refused, f, MaxStudents)
<1>1. PlansUpTo(refused, f, MaxStudents)
  BY PlansExist, NumberConstants
<1>2. Numbers!BuildFill(refused) = f[MaxStudents]
  BY DEF Numbers!BuildFill, PlansUpTo, LongerPlan
<1> HIDE DEF f
<1>3. QED
  BY <1>1, <1>2

(* A plan gives free numbers to blanks, no two the same.                   *)
PlanFits(q) ==
    /\ \A i \in DOMAIN q : no[q[i][1]] = Numbers!Blank /\ q[i][2] \notin Numbers!OnRecord
    /\ \A i, j \in DOMAIN q : i # j => q[i][1] # q[j][1] /\ q[i][2] # q[j][2]

PlanRow == Numbers!Pupils \X Numbers!Numbers

PlanTo(q, k) ==
    /\ q \in Seq(PlanRow) /\ Len(q) <= k
    /\ PlanFits(q)
    /\ \A i \in DOMAIN q : q[i][1] >= MaxStudents + 1 - k

LEMMA LongerPlanFits ==
  ASSUME NEW refused, NEW k \in 1..MaxStudents, NEW q, PlanTo(q, k - 1)
  PROVE  PlanTo(LongerPlan(refused, q, k), k)
<1> DEFINE s == MaxStudents + 1 - k
           n == Numbers!GenerateCode(Numbers!OnRecord \cup {q[i][2] : i \in DOMAIN q})
<1>1. s \in Numbers!Pupils /\ s \in Int /\ s = MaxStudents + 1 - k /\ MaxStudents + 1 - (k - 1) = s + 1
  BY NumberConstants DEF Numbers!Pupils
<1>2. q \in Seq(PlanRow) /\ Len(q) \in Nat /\ Len(q) <= k - 1 /\ DOMAIN q = 1..Len(q) /\ k \in Int
  BY NumberConstants DEF PlanTo
<1>3. \A i \in DOMAIN q : q[i] \in PlanRow /\ q[i][1] \in Int /\ q[i][1] >= s + 1
  <2>1. \A i \in DOMAIN q : q[i] \in PlanRow
    BY <1>2
  <2>2. \A i \in DOMAIN q : q[i][1] \in Numbers!Pupils
    BY <2>1 DEF PlanRow
  <2>3. QED
    BY <1>1, <2>1, <2>2, NumberConstants DEF PlanTo, Numbers!Pupils
<1>4. CASE no[s] # Numbers!Blank \/ s \in refused \/ n = Numbers!Blank
  <2>1. LongerPlan(refused, q, k) = q
    BY <1>4 DEF LongerPlan, Numbers!Extend
  <2>2. \A i \in DOMAIN q : q[i][1] >= s
    BY <1>1, <1>3
  <2>3. Len(q) <= k
    BY <1>2
  <2> HIDE DEF s
  <2>4. QED
    BY <1>1, <1>2, <2>1, <2>2, <2>3 DEF PlanTo
<1>5. CASE no[s] = Numbers!Blank /\ s \notin refused /\ n # Numbers!Blank
  <2> DEFINE row == <<s, n>>
             r   == Append(q, row)
  <2>1. LongerPlan(refused, q, k) = r
    BY <1>5 DEF LongerPlan, Numbers!Extend
  <2>2. n \in Numbers!Numbers /\ n \notin Numbers!OnRecord /\ \A i \in DOMAIN q : n # q[i][2]
    BY <1>5, CodeIsFree
  <2> HIDE DEF n
  <2>3. row \in PlanRow /\ row[1] = s /\ row[2] = n
    BY <1>1, <2>2 DEF PlanRow
  <2> HIDE DEF row
  <2>4. /\ r \in Seq(PlanRow) /\ Len(r) = Len(q) + 1 /\ DOMAIN r = 1..(Len(q) + 1)
        /\ r[Len(q) + 1] = row
        /\ \A i \in 1..Len(q) : r[i] = q[i]
    BY <1>2, <2>3
  <2> HIDE DEF r
  <2>5. \A i \in DOMAIN r : i = Len(q) + 1 \/ i \in DOMAIN q
    BY <1>2, <2>4
  <2> HIDE DEF s
  <2>6. \A i \in DOMAIN r : /\ no[r[i][1]] = Numbers!Blank /\ r[i][2] \notin Numbers!OnRecord
                            /\ r[i][1] >= s
    <3>1. ASSUME NEW i \in DOMAIN r
          PROVE  /\ no[r[i][1]] = Numbers!Blank /\ r[i][2] \notin Numbers!OnRecord
                 /\ r[i][1] >= s
      <4>1. CASE i = Len(q) + 1
        BY <1>1, <1>5, <2>2, <2>3, <2>4, <4>1
      <4>2. CASE i \in DOMAIN q
        <5>1. r[i] = q[i]
          BY <1>2, <2>4, <4>2
        <5>2. q[i][1] >= s
          BY <1>1, <1>3, <4>2
        <5>3. QED
          BY <4>2, <5>1, <5>2 DEF PlanTo, PlanFits
      <4>3. QED
        BY <2>5, <4>1, <4>2
    <3>2. QED
      BY <3>1
  <2>7. ASSUME NEW i \in DOMAIN q PROVE q[i][1] # s /\ q[i][2] # n /\ r[i] = q[i]
    BY <1>1, <1>2, <1>3, <2>2, <2>4
  <2>8. ASSUME NEW i \in DOMAIN r, NEW j \in DOMAIN r, i # j
        PROVE  r[i][1] # r[j][1] /\ r[i][2] # r[j][2]
    <3>1. CASE i \in DOMAIN q /\ j \in DOMAIN q
      BY <2>7, <2>8, <3>1 DEF PlanTo, PlanFits
    <3>2. CASE i \in DOMAIN q /\ j = Len(q) + 1
      BY <2>3, <2>4, <2>7, <3>2
    <3>3. CASE j \in DOMAIN q /\ i = Len(q) + 1
      BY <2>3, <2>4, <2>7, <3>3
    <3>4. QED
      BY <2>5, <2>8, <3>1, <3>2, <3>3
  <2>9. Len(r) <= k
    BY <1>2, <2>4
  <2>10. QED
    BY <1>1, <2>1, <2>4, <2>6, <2>8, <2>9 DEF PlanTo, PlanFits
<1>6. QED
  BY <1>4, <1>5

LEMMA BuiltPlanFits ==
  \A refused :
     /\ Numbers!BuildFill(refused) \in Seq(PlanRow) /\ Len(Numbers!BuildFill(refused)) <= MaxStudents
     /\ PlanFits(Numbers!BuildFill(refused))
<1> TAKE refused
<1>1. PICK f : PlansUpTo(refused, f, MaxStudents) /\ Numbers!BuildFill(refused) = f[MaxStudents]
  BY PlanIsBuilt
<1> DEFINE T == {k \in 0..MaxStudents : ~ PlanTo(f[k], k)}
<1>2. T = {}
  <2>1. SUFFICES ASSUME T # {} PROVE FALSE
    OBVIOUS
  <2>2. PICK k \in T : \A m \in T : k <= m
    <3>1. T \in SUBSET Nat
      BY NumberConstants
    <3>2. QED
      BY <2>1, <3>1, LeastNumber
  <2>3. CASE k = 0
    <3>1. f[k] = <<>>
      BY <1>1, <2>3, NumberConstants DEF PlansUpTo
    <3>2. PlanTo(<<>>, 0)
      BY DEF PlanTo, PlanFits
    <3>3. QED
      BY <2>2, <2>3, <3>1, <3>2
  <2>4. CASE k # 0
    <3>1. k \in 1..MaxStudents /\ k - 1 \in 0..MaxStudents /\ k - 1 \notin T
      BY <2>2, <2>4, NumberConstants
    <3>2. PlanTo(f[k - 1], k - 1)
      BY <3>1
    <3>3. f[k] = LongerPlan(refused, f[k - 1], k)
      BY <1>1, <2>4, <3>1 DEF PlansUpTo
    <3>4. PlanTo(f[k], k)
      BY <3>1, <3>2, <3>3, LongerPlanFits
    <3>5. QED
      BY <2>2, <3>4
  <2>5. QED
    BY <2>3, <2>4
<1>3. PlanTo(f[MaxStudents], MaxStudents)
  BY <1>2, NumberConstants
<1>4. QED
  BY <1>1, <1>3 DEF PlanTo

-----------------------------------------------------------------------------
(* Where a request stands.                                                 *)
RequestShape == [step : Numbers!Steps, id : {0} \cup Numbers!Pupils,
                 num : {Numbers!Blank} \cup Numbers!Numbers, plan : Seq(PlanRow), stale : BOOLEAN]

(* What a request that nobody has overtaken knows of the table.            *)
UpToDate(r) ==
    ~ r.stale =>
        /\ (r.step = "write" /\ r.num # Numbers!Blank => \A s \in Numbers!Pupils \ {r.id} : no[s] # r.num)
        /\ (r.step = "fill" => PlanFits(r.plan))
        /\ (r.step = "account" => Numbers!Has(r.id, r.num))
        /\ (r.step = "admin" => r.id = 0 \/ Numbers!HasCode(r.id, r.num))

RequestInOrder(r) ==
    /\ r \in RequestShape
    /\ Len(r.plan) <= MaxStudents
    /\ (r.step = "fill" <=> r.plan # <<>>)
    /\ (r.step = "account" => r.id \in Numbers!Pupils /\ r.num \in Numbers!Numbers)
    /\ (r.step = "admin" => r.num \in Numbers!Numbers)

NumberInv ==
    /\ rule \in Numbers!Rules
    /\ no \in [Numbers!Pupils -> {Numbers!Absent, Numbers!Blank} \cup Numbers!Numbers]
    /\ made \in 0..MaxStudents
    /\ account \in [Numbers!Numbers -> {Numbers!Nobody} \cup Numbers!Pupils]
    /\ op = [p \in Requests |-> op[p]]
    /\ raced \subseteq Numbers!Numbers
    /\ \A p \in Requests : RequestInOrder(op[p]) /\ UpToDate(op[p])
    /\ Numbers!NumbersUnique

LEMMA IdleRequest == RequestInOrder(Numbers!Idle) /\ UpToDate(Numbers!Idle)
<1> DEFINE r == Numbers!Idle
<1>1. r.step = "idle" /\ r.id = 0 /\ r.num = Numbers!Blank /\ r.plan = <<>> /\ r.stale = FALSE
  BY DEF Numbers!Idle
<1>2. r \in RequestShape
  BY DEF RequestShape, Numbers!Idle, Numbers!Steps
<1>3. Len(<<>>) <= MaxStudents
  BY NumberConstants
<1> HIDE DEF r
<1>4. RequestInOrder(r) /\ UpToDate(r)
  BY <1>1, <1>2, <1>3 DEF RequestInOrder, UpToDate
<1>5. QED
  BY <1>4 DEF r

LEMMA NumberStart == Numbers!Init => NumberInv
<1> SUFFICES ASSUME Numbers!Init PROVE NumberInv
  OBVIOUS
<1>1. op = [p \in Requests |-> op[p]] /\ \A p \in Requests : RequestInOrder(op[p]) /\ UpToDate(op[p])
  BY IdleRequest DEF Numbers!Init
<1>2. Numbers!NumbersUnique
  BY DEF Numbers!Init, Numbers!NumbersUnique, Numbers!Numbers, Numbers!Absent
<1>3. QED
  BY <1>1, <1>2, NumberConstants DEF NumberInv, Numbers!Init

(* A step of one request that changes no number.                           *)
LEMMA NumberMoves ==
  ASSUME NumberInv, NEW p \in Requests, NEW record, Numbers!Moves(p, record),
         UNCHANGED <<rule, no, made, raced>>,
         account' \in [Numbers!Numbers -> {Numbers!Nobody} \cup Numbers!Pupils],
         RequestInOrder(record), UpToDate(record)
  PROVE  NumberInv'
<1>1. /\ op' = [q \in Requests |-> op'[q]]
      /\ \A q \in Requests : op'[q] = IF q = p THEN record ELSE op[q]
  BY DEF NumberInv, Numbers!Moves
<1>2. \A q \in Requests : RequestInOrder(op[q])' /\ UpToDate(op[q])'
  <2>1. TAKE q \in Requests
  <2>2. CASE q = p
    <3>1. op'[q] = record
      BY <1>1, <2>2
    <3>2. QED
      BY <3>1 DEF RequestInOrder, UpToDate, PlanFits, Numbers!OnRecord, Numbers!Has, Numbers!HasCode
  <2>3. CASE q # p
    <3>1. op'[q] = op[q]
      BY <1>1, <2>3
    <3>2. QED
      BY <3>1 DEF NumberInv, RequestInOrder, UpToDate, PlanFits, Numbers!OnRecord, Numbers!Has, Numbers!HasCode
  <2>4. QED
    BY <2>2, <2>3
<1>3. Numbers!NumbersUnique'
  BY DEF NumberInv, Numbers!NumbersUnique
<1>4. QED
  BY <1>1, <1>2, <1>3 DEF NumberInv

LEMMA Overtaken ==
  ASSUME NEW r \in RequestShape, NEW late \in BOOLEAN
  PROVE  LET u == [r EXCEPT !.stale = late]
         IN  /\ u \in RequestShape /\ u.step = r.step /\ u.id = r.id /\ u.num = r.num
             /\ u.plan = r.plan /\ u.stale = late
<1>1. \A A, B, C, D : \A q \in [step : A, id : B, num : C, plan : D, stale : BOOLEAN] :
        LET u == [q EXCEPT !.stale = late]
        IN  /\ u \in [step : A, id : B, num : C, plan : D, stale : BOOLEAN]
            /\ u.step = q.step /\ u.id = q.id /\ u.num = q.num /\ u.plan = q.plan /\ u.stale = late
  OBVIOUS
<1>2. QED
  BY <1>1 DEF RequestShape

(* A step of one request that gives student s the number n overtakes the   *)
(* others.                                                                 *)
LEMMA NumberPuts ==
  ASSUME NumberInv, NEW p \in Requests, NEW s \in Numbers!Pupils,
         NEW n \in {Numbers!Absent, Numbers!Blank} \cup Numbers!Numbers,
         NEW record, Numbers!Puts(p, s, n, record),
         UNCHANGED <<rule, account>>, made' \in 0..MaxStudents,
         RequestInOrder(record), UpToDate(op[p])',
         n \in Numbers!Numbers /\ ~ op[p].stale => \A t \in Numbers!Pupils \ {s} : no[t] # n
  PROVE  NumberInv'
<1>1. /\ no' \in [Numbers!Pupils -> {Numbers!Absent, Numbers!Blank} \cup Numbers!Numbers]
      /\ no'[s] = n
      /\ \A t \in Numbers!Pupils \ {s} : no'[t] = no[t]
  BY DEF NumberInv, Numbers!Puts
<1>2. /\ op' = [q \in Requests |-> op'[q]]
      /\ op'[p] = record
      /\ \A q \in Requests \ {p} :
            op'[q] = [op[q] EXCEPT !.stale = op[q].step \in {"write", "fill", "account", "admin"}]
  BY DEF Numbers!Puts
<1>3. ASSUME NEW q \in Requests PROVE RequestInOrder(op[q])' /\ UpToDate(op[q])'
  <2>1. CASE q = p
    BY <1>2, <2>1 DEF RequestInOrder
  <2>2. CASE q # p
    <3> DEFINE r == op[q]
               u == op'[q]
    <3>1. u = [r EXCEPT !.stale = r.step \in {"write", "fill", "account", "admin"}]
      BY <1>2, <2>2
    <3>2. r \in RequestShape /\ RequestInOrder(r)
      BY DEF NumberInv, RequestInOrder
    <3> HIDE DEF r, u
    <3>3. /\ u \in RequestShape /\ u.step = r.step /\ u.id = r.id /\ u.num = r.num /\ u.plan = r.plan
          /\ u.stale = (r.step \in {"write", "fill", "account", "admin"})
      <4> DEFINE late == r.step \in {"write", "fill", "account", "admin"}
      <4>1. late \in BOOLEAN /\ u = [r EXCEPT !.stale = late]
        BY <3>1
      <4> HIDE DEF late
      <4>2. /\ u \in RequestShape /\ u.step = r.step /\ u.id = r.id /\ u.num = r.num
            /\ u.plan = r.plan /\ u.stale = late
        BY <3>2, <4>1, Overtaken
      <4>3. QED
        BY <4>2 DEF late
    <3>4. RequestInOrder(u)
      BY <3>2, <3>3 DEF RequestInOrder
    <3>5. u.step \in {"write", "fill", "account", "admin"} => u.stale
      BY <3>3
    <3>6. RequestInOrder(op[q])'
      BY <3>4 DEF u, RequestInOrder
    <3>7. UpToDate(op[q])'
      BY <3>5 DEF u, UpToDate
    <3>8. QED
      BY <3>6, <3>7
  <2>3. QED
    BY <2>1, <2>2
<1>4. raced' = {no'[t] : t \in Numbers!Pupils}
                 \cap (IF op[p].stale THEN raced \cup ({n} \cap Numbers!Numbers) ELSE raced)
  BY DEF Numbers!Puts
<1>5. ASSUME NEW t \in Numbers!Pupils, NEW u \in Numbers!Pupils, t # u,
             no'[t] = no'[u], no'[t] \in Numbers!Numbers
      PROVE  no'[t] \in raced'
  <2>1. CASE t = s \/ u = s
    <3>1. no'[t] = n /\ \E v \in Numbers!Pupils \ {s} : no[v] = n
      BY <1>1, <1>5, <2>1
    <3>2. op[p].stale
      BY <1>5, <3>1
    <3>3. QED
      BY <1>4, <1>5, <3>1, <3>2
  <2>2. CASE t # s /\ u # s
    <3>1. no'[t] = no[t] /\ no'[u] = no[u]
      BY <1>1, <2>2
    <3>2. no[t] \in raced
      BY <1>5, <3>1 DEF NumberInv, Numbers!NumbersUnique
    <3>3. QED
      BY <1>4, <3>1, <3>2
  <2>3. QED
    BY <2>1, <2>2
<1>6. Numbers!NumbersUnique'
  BY <1>5 DEF Numbers!NumbersUnique
<1>7. raced' \subseteq Numbers!Numbers
  BY <1>4 DEF NumberInv
<1>8. QED
  BY <1>1, <1>2, <1>3, <1>6, <1>7 DEF NumberInv

(* The fields of a request after a change of one of them.                  *)
LEMMA OtherStep ==
  ASSUME NEW r \in RequestShape, NEW x \in Numbers!Steps
  PROVE  LET u == [r EXCEPT !.step = x]
         IN  /\ u \in RequestShape /\ u.step = x
             /\ u.id = r.id /\ u.num = r.num /\ u.plan = r.plan /\ u.stale = r.stale
<1>1. \A A, B, C, D, F : x \in A => \A q \in [step : A, id : B, num : C, plan : D, stale : F] :
        LET u == [q EXCEPT !.step = x]
        IN  /\ u \in [step : A, id : B, num : C, plan : D, stale : F]
            /\ u.step = x /\ u.id = q.id /\ u.num = q.num /\ u.plan = q.plan /\ u.stale = q.stale
  OBVIOUS
<1>2. QED
  BY <1>1 DEF RequestShape

LEMMA OtherId ==
  ASSUME NEW r \in RequestShape, NEW x \in {0} \cup Numbers!Pupils
  PROVE  LET u == [r EXCEPT !.id = x]
         IN  /\ u \in RequestShape /\ u.id = x
             /\ u.step = r.step /\ u.num = r.num /\ u.plan = r.plan /\ u.stale = r.stale
<1>1. \A A, B, C, D, F : x \in B => \A q \in [step : A, id : B, num : C, plan : D, stale : F] :
        LET u == [q EXCEPT !.id = x]
        IN  /\ u \in [step : A, id : B, num : C, plan : D, stale : F]
            /\ u.id = x /\ u.step = q.step /\ u.num = q.num /\ u.plan = q.plan /\ u.stale = q.stale
  OBVIOUS
<1>2. QED
  BY <1>1 DEF RequestShape

LEMMA OtherNum ==
  ASSUME NEW r \in RequestShape, NEW x \in {Numbers!Blank} \cup Numbers!Numbers
  PROVE  LET u == [r EXCEPT !.num = x]
         IN  /\ u \in RequestShape /\ u.num = x
             /\ u.step = r.step /\ u.id = r.id /\ u.plan = r.plan /\ u.stale = r.stale
<1>1. \A A, B, C, D, F : x \in C => \A q \in [step : A, id : B, num : C, plan : D, stale : F] :
        LET u == [q EXCEPT !.num = x]
        IN  /\ u \in [step : A, id : B, num : C, plan : D, stale : F]
            /\ u.num = x /\ u.step = q.step /\ u.id = q.id /\ u.plan = q.plan /\ u.stale = q.stale
  OBVIOUS
<1>2. QED
  BY <1>1 DEF RequestShape

LEMMA OtherPlan ==
  ASSUME NEW r \in RequestShape, NEW x \in Seq(PlanRow)
  PROVE  LET u == [r EXCEPT !.plan = x]
         IN  /\ u \in RequestShape /\ u.plan = x
             /\ u.step = r.step /\ u.id = r.id /\ u.num = r.num /\ u.stale = r.stale
<1>1. \A A, B, C, D, F : x \in D => \A q \in [step : A, id : B, num : C, plan : D, stale : F] :
        LET u == [q EXCEPT !.plan = x]
        IN  /\ u \in [step : A, id : B, num : C, plan : D, stale : F]
            /\ u.plan = x /\ u.step = q.step /\ u.id = q.id /\ u.num = q.num /\ u.stale = q.stale
  OBVIOUS
<1>2. QED
  BY <1>1 DEF RequestShape

RequestIds  == {0} \cup Numbers!Pupils
RequestNums == {Numbers!Blank} \cup Numbers!Numbers

Asks(st, id, n) == [Numbers!Idle EXCEPT !.step = st, !.id = id, !.num = n]

LEMMA NewRequest ==
  \A st, id, n : st \in Numbers!Steps /\ id \in RequestIds /\ n \in RequestNums =>
     LET r == Asks(st, id, n)
     IN  /\ r \in RequestShape
         /\ r.step = st /\ r.id = id /\ r.num = n /\ r.plan = <<>> /\ r.stale = FALSE
<1> TAKE st, id, n
<1> HAVE st \in Numbers!Steps /\ id \in RequestIds /\ n \in RequestNums
<1> DEFINE a == Numbers!Idle
           b == [a EXCEPT !.step = st]
           c == [b EXCEPT !.id = id]
           d == [c EXCEPT !.num = n]
<1>1. a \in RequestShape /\ a.plan = <<>> /\ a.stale = FALSE
  BY DEF RequestShape, Numbers!Idle, Numbers!Steps
<1> HIDE DEF a
<1>2. b \in RequestShape /\ b.step = st /\ b.plan = <<>> /\ b.stale = FALSE
  BY <1>1, OtherStep
<1> HIDE DEF b
<1>3. c \in RequestShape /\ c.step = st /\ c.id = id /\ c.plan = <<>> /\ c.stale = FALSE
  BY <1>2, OtherId DEF RequestIds
<1> HIDE DEF c
<1>4. /\ d \in RequestShape
      /\ d.step = st /\ d.id = id /\ d.num = n /\ d.plan = <<>> /\ d.stale = FALSE
  BY <1>3, OtherNum DEF RequestNums
<1>5. QED
  BY <1>4 DEF a, b, c, Asks

LEMMA NewPlan ==
  ASSUME NEW pl \in Seq(PlanRow)
  PROVE  LET r == [Numbers!Idle EXCEPT !.step = "fill", !.plan = pl]
         IN  /\ r \in RequestShape /\ r.step = "fill" /\ r.plan = pl /\ r.stale = FALSE
<1> DEFINE a == Numbers!Idle
           b == [a EXCEPT !.step = "fill"]
           c == [b EXCEPT !.plan = pl]
<1>1. a \in RequestShape /\ a.stale = FALSE /\ "fill" \in Numbers!Steps
  BY DEF RequestShape, Numbers!Idle, Numbers!Steps
<1> HIDE DEF a
<1>2. b \in RequestShape /\ b.step = "fill" /\ b.stale = FALSE
  BY <1>1, OtherStep
<1> HIDE DEF b
<1>3. c \in RequestShape /\ c.step = "fill" /\ c.plan = pl /\ c.stale = FALSE
  BY <1>2, OtherPlan
<1>4. QED
  BY <1>3 DEF a, b

LEMMA NewNumber ==
  ASSUME NEW n \in {Numbers!Blank} \cup Numbers!Numbers
  PROVE  LET r == [Numbers!Idle EXCEPT !.step = "check", !.num = n]
         IN  /\ r \in RequestShape /\ r.step = "check" /\ r.plan = <<>> /\ r.stale = FALSE
<1> DEFINE a == Numbers!Idle
           b == [a EXCEPT !.step = "check"]
           c == [b EXCEPT !.num = n]
<1>1. a \in RequestShape /\ a.plan = <<>> /\ a.stale = FALSE /\ "check" \in Numbers!Steps
  BY DEF RequestShape, Numbers!Idle, Numbers!Steps
<1> HIDE DEF a
<1>2. b \in RequestShape /\ b.step = "check" /\ b.plan = <<>> /\ b.stale = FALSE
  BY <1>1, OtherStep
<1> HIDE DEF b
<1>3. c \in RequestShape /\ c.step = "check" /\ c.plan = <<>> /\ c.stale = FALSE
  BY <1>2, OtherNum
<1>4. QED
  BY <1>3 DEF a, b

LEMMA InvOfRequest ==
  ASSUME NumberInv, NEW p \in Requests
  PROVE  /\ op[p] \in RequestShape /\ RequestInOrder(op[p]) /\ UpToDate(op[p])
         /\ account \in [Numbers!Numbers -> {Numbers!Nobody} \cup Numbers!Pupils]
  BY DEF NumberInv, RequestInOrder

LEMMA NumberSubmit ==
  ASSUME NumberInv, NEW p \in Requests, Numbers!Submit(p)
  PROVE  NumberInv'
<1>1. PICK id \in {0} \cup Numbers!Pupils, n \in {Numbers!Blank} \cup Numbers!Numbers :
         Numbers!Moves(p, [Numbers!Idle EXCEPT !.step = IF id = 0 /\ n = Numbers!Blank THEN "generate" ELSE "check",
                                               !.id = id, !.num = n])
  BY DEF Numbers!Submit
<1> DEFINE st == IF id = 0 /\ n = Numbers!Blank THEN "generate" ELSE "check"
           r  == Asks(st, id, n)
<1>2. st \in {"generate", "check"} /\ st \in Numbers!Steps /\ id \in RequestIds /\ n \in RequestNums
  BY DEF Numbers!Steps, RequestIds, RequestNums
<1>3. Numbers!Moves(p, r)
  BY <1>1 DEF Asks
<1> HIDE DEF st
<1>4. r \in RequestShape /\ r.step = st /\ r.plan = <<>>
  BY <1>2, NewRequest
<1> HIDE DEF r
<1>5. Len(<<>>) <= MaxStudents
  BY NumberConstants
<1>6. RequestInOrder(r) /\ UpToDate(r)
  BY <1>2, <1>4, <1>5 DEF RequestInOrder, UpToDate
<1>7. QED
  BY <1>3, <1>6, InvOfRequest, NumberMoves DEF Numbers!Submit

LEMMA NumberGenerate ==
  ASSUME NumberInv, NEW p \in Requests, Numbers!Generate(p)
  PROVE  NumberInv'
<1>1. PICK n \in {Numbers!GenerateCode(Numbers!OnRecord), Numbers!Blank} :
         Numbers!Moves(p, [Numbers!Idle EXCEPT !.step = "check", !.num = n])
  BY DEF Numbers!Generate
<1> DEFINE r == [Numbers!Idle EXCEPT !.step = "check", !.num = n]
<1>2. n \in {Numbers!Blank} \cup Numbers!Numbers
  BY CodeIsFree
<1>3. r \in RequestShape /\ r.step = "check" /\ r.plan = <<>>
  BY <1>2, NewNumber
<1>4. Numbers!Moves(p, r)
  BY <1>1
<1> HIDE DEF r
<1>5. Len(<<>>) <= MaxStudents
  BY NumberConstants
<1>6. RequestInOrder(r) /\ UpToDate(r)
  BY <1>3, <1>5 DEF RequestInOrder, UpToDate
<1>7. QED
  BY <1>4, <1>6, InvOfRequest, NumberMoves DEF Numbers!Generate

LEMMA NumberCheck ==
  ASSUME NumberInv, NEW p \in Requests, Numbers!Check(p)
  PROVE  NumberInv'
<1> DEFINE taken == op[p].num # Numbers!Blank /\ \E s \in Numbers!Pupils \ {op[p].id} : no[s] = op[p].num
<1>1. CASE taken
  <2>1. Numbers!Moves(p, Numbers!Idle)
    BY <1>1 DEF Numbers!Check
  <2>2. QED
    BY <2>1, IdleRequest, InvOfRequest, NumberMoves DEF Numbers!Check
<1>2. CASE ~ taken
  <2> DEFINE o == op[p]
             r == [o EXCEPT !.step = "write"]
  <2>1. Numbers!Moves(p, r)
    BY <1>2 DEF Numbers!Check
  <2>2. o.num # Numbers!Blank => \A s \in Numbers!Pupils \ {o.id} : no[s] # o.num
    BY <1>2
  <2>3. o.step = "check" /\ o \in RequestShape /\ RequestInOrder(o)
    BY InvOfRequest DEF Numbers!Check
  <2> HIDE DEF o
  <2>4. /\ r \in RequestShape /\ r.step = "write" /\ r.id = o.id /\ r.num = o.num
        /\ r.plan = o.plan
    BY <2>3, OtherStep DEF Numbers!Steps
  <2> HIDE DEF r
  <2>5. RequestInOrder(r) /\ UpToDate(r)
    BY <2>2, <2>3, <2>4 DEF RequestInOrder, UpToDate
  <2>6. QED
    BY <2>1, <2>5, InvOfRequest, NumberMoves DEF Numbers!Check
<1>3. QED
  BY <1>1, <1>2

LEMMA IdleStays == \A p : op'[p] = Numbers!Idle => UpToDate(op[p])'
<1> SUFFICES ASSUME NEW p, op'[p] = Numbers!Idle PROVE UpToDate(op[p])'
  OBVIOUS
<1>1. op'[p].step = "idle"
  BY DEF Numbers!Idle
<1>2. QED
  BY <1>1 DEF UpToDate

LEMMA NumberInsert ==
  ASSUME NumberInv, NEW p \in Requests, Numbers!Insert(p)
  PROVE  NumberInv'
<1> DEFINE s == made + 1
           n == op[p].num
<1>1. s \in Numbers!Pupils /\ made' \in 0..MaxStudents
  BY NumberConstants DEF NumberInv, Numbers!Insert, Numbers!Pupils
<1>2. n \in {Numbers!Blank} \cup Numbers!Numbers
  BY InvOfRequest DEF RequestShape
<1>3. n \in Numbers!Numbers /\ ~ op[p].stale => \A t \in Numbers!Pupils \ {s} : no[t] # n
  <2>1. 0 \notin Numbers!Pupils
    BY NumberConstants DEF Numbers!Pupils
  <2>2. n \in Numbers!Numbers => n # Numbers!Blank
    BY NumberConstants DEF Numbers!Numbers, Numbers!Blank
  <2>3. QED
    BY <2>1, <2>2, InvOfRequest DEF UpToDate, Numbers!Insert
<1>4. Numbers!Puts(p, s, n, Numbers!Idle) /\ UNCHANGED <<rule, account>>
  BY DEF Numbers!Insert
<1>5. op'[p] = Numbers!Idle
  BY <1>4 DEF Numbers!Puts
<1> HIDE DEF s, n
<1>6. UpToDate(op[p])'
  BY <1>5, IdleStays
<1>7. QED
  BY <1>1, <1>2, <1>3, <1>4, <1>6, IdleRequest, NumberPuts

LEMMA NumberWrite ==
  ASSUME NumberInv, NEW p \in Requests, Numbers!Write(p)
  PROVE  NumberInv'
<1> DEFINE s == op[p].id
           n == op[p].num
<1>1. CASE no[s] = Numbers!Absent
  BY <1>1, IdleRequest, InvOfRequest, NumberMoves DEF Numbers!Write
<1>2. CASE no[s] # Numbers!Absent
  <2>1. s \in Numbers!Pupils /\ n \in {Numbers!Blank} \cup Numbers!Numbers
    BY InvOfRequest DEF RequestShape, Numbers!Write
  <2>2. n \in Numbers!Numbers /\ ~ op[p].stale => \A t \in Numbers!Pupils \ {s} : no[t] # n
    <3>1. n \in Numbers!Numbers => n # Numbers!Blank
      BY NumberConstants DEF Numbers!Numbers, Numbers!Blank
    <3>2. QED
      BY <3>1, InvOfRequest DEF UpToDate, Numbers!Write
  <2>3. Numbers!Puts(p, s, n, Numbers!Idle) /\ UNCHANGED <<rule, account>> /\ made' \in 0..MaxStudents
    BY <1>2 DEF Numbers!Write, NumberInv
  <2>4. op'[p] = Numbers!Idle
    BY <2>3 DEF Numbers!Puts
  <2> HIDE DEF s, n
  <2>5. UpToDate(op[p])'
    BY <2>4, IdleStays
  <2>6. QED
    BY <2>1, <2>2, <2>3, <2>5, IdleRequest, NumberPuts
<1>3. QED
  BY <1>1, <1>2

LEMMA NumberDelete ==
  ASSUME NumberInv, NEW p \in Requests, Numbers!Delete(p)
  PROVE  NumberInv'
<1>1. PICK s \in Numbers!Pupils : Numbers!Puts(p, s, Numbers!Absent, Numbers!Idle)
  BY DEF Numbers!Delete
<1>2. Numbers!Absent \notin Numbers!Numbers
  BY NumberConstants DEF Numbers!Numbers, Numbers!Absent
<1>3. op'[p] = Numbers!Idle
  BY <1>1 DEF Numbers!Puts
<1>4. UpToDate(op[p])'
  BY <1>3, IdleStays
<1>5. UNCHANGED <<rule, account>> /\ made' \in 0..MaxStudents
  BY DEF Numbers!Delete, NumberInv
<1>6. QED
  BY <1>1, <1>2, <1>4, <1>5, IdleRequest, NumberPuts

LEMMA NumberPlanFill ==
  ASSUME NumberInv, NEW p \in Requests, Numbers!PlanFill(p)
  PROVE  NumberInv'
<1>0. PICK refused \in SUBSET Numbers!Pupils :
         /\ Numbers!BuildFill(refused) # <<>>
         /\ Numbers!Moves(p, [Numbers!Idle EXCEPT !.step = "fill", !.plan = Numbers!BuildFill(refused)])
  BY DEF Numbers!PlanFill
<1> DEFINE pl == Numbers!BuildFill(refused)
           r  == [Numbers!Idle EXCEPT !.step = "fill", !.plan = pl]
<1>1. pl \in Seq(PlanRow) /\ Len(pl) <= MaxStudents /\ PlanFits(pl)
  BY BuiltPlanFits
<1>2. pl # <<>> /\ Numbers!Moves(p, r)
  BY <1>0
<1> HIDE DEF pl
<1>3. r \in RequestShape /\ r.step = "fill" /\ r.plan = pl /\ r.stale = FALSE
  BY <1>1, NewPlan
<1> HIDE DEF r
<1>4. RequestInOrder(r) /\ UpToDate(r)
  BY <1>1, <1>2, <1>3 DEF RequestInOrder, UpToDate
<1>5. QED
  BY <1>2, <1>4, InvOfRequest, NumberMoves DEF Numbers!PlanFill

(* A request for the account of a number, of a student found by it. *)
LEMMA NumberFound ==
  ASSUME NumberInv, NEW p \in Requests, NEW st \in {"account", "admin"},
         NEW id \in {0} \cup Numbers!Pupils, NEW n \in Numbers!Numbers,
         Numbers!Moves(p, Asks(st, id, n)), UNCHANGED <<rule, no, made, account, raced>>,
         st = "account" => id \in Numbers!Pupils /\ Numbers!Has(id, n),
         st = "admin" => id = 0 \/ Numbers!HasCode(id, n)
  PROVE  NumberInv'
<1> DEFINE r == Asks(st, id, n)
<1>1. /\ r \in RequestShape /\ r.step = st /\ r.id = id /\ r.num = n
      /\ r.plan = <<>> /\ r.stale = FALSE
  <2>1. st \in Numbers!Steps /\ id \in RequestIds /\ n \in RequestNums
    BY DEF Numbers!Steps, RequestIds, RequestNums
  <2>2. QED
    BY <2>1, NewRequest
<1>2. Numbers!Moves(p, r)
  OBVIOUS
<1> HIDE DEF r
<1>3. Len(<<>>) <= MaxStudents
  BY NumberConstants
<1>4. RequestInOrder(r) /\ UpToDate(r)
  BY <1>1, <1>3 DEF RequestInOrder, UpToDate
<1>5. QED
  BY <1>2, <1>4, InvOfRequest, NumberMoves

LEMMA NumberFind ==
  ASSUME NumberInv, NEW p \in Requests, Numbers!FindStudent(p)
  PROVE  NumberInv'
<1>1. PICK s \in Numbers!Pupils, n \in Numbers!Numbers :
         Numbers!Has(s, n) /\ Numbers!Moves(p, Asks("account", s, n))
  BY DEF Numbers!FindStudent, Asks
<1>2. QED
  BY <1>1, NumberFound DEF Numbers!FindStudent

LEMMA NumberFindByNo ==
  ASSUME NumberInv, NEW p \in Requests, Numbers!FindByNo(p)
  PROVE  NumberInv'
<1>1. PICK n \in Numbers!Numbers :
         LET found == {s \in Numbers!Pupils : Numbers!HasCode(s, n)}
         IN  \E s \in (IF found = {} THEN {Numbers!Nobody} ELSE found) :
                Numbers!Moves(p, Asks("admin", s, n))
  BY DEF Numbers!FindByNo, Asks
<1>2. PICK id \in {0} \cup Numbers!Pupils :
         /\ id = 0 \/ Numbers!HasCode(id, n)
         /\ Numbers!Moves(p, Asks("admin", id, n))
  BY <1>1 DEF Numbers!Nobody
<1>3. QED
  BY <1>2, NumberFound DEF Numbers!FindByNo

LEMMA NumberSetPassword ==
  ASSUME NumberInv, NEW p \in Requests, Numbers!SetPassword(p)
  PROVE  NumberInv'
<1>1. op[p].id \in {Numbers!Nobody} \cup Numbers!Pupils
  BY InvOfRequest DEF RequestShape, Numbers!Nobody
<1>2. account' \in [Numbers!Numbers -> {Numbers!Nobody} \cup Numbers!Pupils]
  BY <1>1, InvOfRequest DEF Numbers!SetPassword
<1>3. QED
  BY <1>2, IdleRequest, NumberMoves DEF Numbers!SetPassword


(* A plan that fits the table still does, less its first row, once that is *)
(* written.                                                                *)
LEMMA RestFits ==
  ASSUME NEW q \in Seq(PlanRow), q # <<>>, PlanFits(q),
         NEW s, NEW n, q[1][1] = s, q[1][2] = n,
         no \in [Numbers!Pupils -> {Numbers!Absent, Numbers!Blank} \cup Numbers!Numbers],
         no' = no \/ no' = [no EXCEPT ![s] = n]
  PROVE  PlanFits(Tail(q))'
<1> DEFINE rest == Tail(q)
<1>1. /\ rest \in Seq(PlanRow) /\ DOMAIN rest = 1..(Len(q) - 1) /\ Len(q) \in Nat /\ DOMAIN q = 1..Len(q)
      /\ \A i \in DOMAIN rest : i + 1 \in DOMAIN q /\ rest[i] = q[i + 1]
      /\ 1 \in DOMAIN q
  OBVIOUS
<1> HIDE DEF rest
<1>2. \A i \in DOMAIN q : q[i] \in PlanRow /\ q[i][1] \in Numbers!Pupils
  BY <1>1 DEF PlanRow
<1>3. /\ \A t \in Numbers!Pupils \ {s} : no'[t] = no[t]
      /\ \A t \in Numbers!Pupils : no'[t] = no[t] \/ no'[t] = n
  OBVIOUS
<1>4. ASSUME NEW i \in DOMAIN rest
      PROVE  no'[rest[i][1]] = Numbers!Blank /\ rest[i][2] \notin Numbers!OnRecord'
  <2>1. rest[i] = q[i + 1] /\ i + 1 \in DOMAIN q /\ i + 1 # 1
    BY <1>1
  <2>2. q[i + 1][1] # s /\ q[i + 1][2] # n
    BY <1>1, <2>1 DEF PlanFits
  <2>3. no[q[i + 1][1]] = Numbers!Blank /\ q[i + 1][2] \notin Numbers!OnRecord
    BY <2>1 DEF PlanFits
  <2>4. no'[q[i + 1][1]] = Numbers!Blank
    BY <1>2, <1>3, <2>1, <2>2, <2>3
  <2>5. q[i + 1][2] \notin Numbers!OnRecord'
    BY <1>3, <2>2, <2>3 DEF Numbers!OnRecord
  <2>6. QED
    BY <2>1, <2>4, <2>5
<1>5. ASSUME NEW i \in DOMAIN rest, NEW j \in DOMAIN rest, i # j
      PROVE  rest[i][1] # rest[j][1] /\ rest[i][2] # rest[j][2]
  <2>1. i + 1 # j + 1
    BY <1>1, <1>5
  <2>2. QED
    BY <1>1, <2>1 DEF PlanFits
<1>6. \A i \in DOMAIN rest : no'[rest[i][1]] = Numbers!Blank /\ rest[i][2] \notin Numbers!OnRecord'
  BY <1>4
<1>7. \A i, j \in DOMAIN rest : i # j => rest[i][1] # rest[j][1] /\ rest[i][2] # rest[j][2]
  BY <1>5
<1>8. PlanFits(rest)'
  BY <1>6, <1>7 DEF PlanFits
<1>9. QED
  BY <1>8 DEF rest

LEMMA NumberFillRow ==
  ASSUME NumberInv, NEW p \in Requests, Numbers!FillRow(p)
  PROVE  NumberInv'
<1>1. PICK o : o = op[p]
  OBVIOUS
<1> DEFINE q    == o.plan
           s    == q[1][1]
           n    == q[1][2]
           rest == Tail(q)
           left == IF rest = <<>> THEN Numbers!Idle ELSE [o EXCEPT !.plan = rest]
<1>2. /\ o.step = "fill" /\ UNCHANGED <<rule, made, account>>
      /\ \/ Numbers!Moves(p, left) /\ UNCHANGED <<no, raced>>
         \/ no[s] # Numbers!Absent /\ Numbers!Puts(p, s, n, left)
  BY <1>1 DEF Numbers!FillRow
<1>3. /\ o \in RequestShape /\ RequestInOrder(o) /\ UpToDate(o)
      /\ q \in Seq(PlanRow) /\ q # <<>> /\ Len(q) <= MaxStudents
  BY <1>1, <1>2, InvOfRequest DEF RequestInOrder, RequestShape
<1>4. s \in Numbers!Pupils /\ n \in Numbers!Numbers
  <2>1. q[1] \in PlanRow
    BY <1>3
  <2>2. QED
    BY <2>1 DEF PlanRow
<1>5. rest \in Seq(PlanRow) /\ Len(rest) <= MaxStudents
  BY <1>3, NumberConstants
<1>6. ~ o.stale => PlanFits(q)
  BY <1>2, <1>3 DEF UpToDate
<1>7. PICK r : r = left
  OBVIOUS
<1>8. rest # <<>> => /\ r \in RequestShape /\ r.step = "fill" /\ r.plan = rest
                     /\ r.stale = o.stale /\ r.id = o.id /\ r.num = o.num
  <2> HIDE DEF rest
  <2>1. QED
    BY <1>2, <1>3, <1>5, <1>7, OtherPlan
<1>9. rest = <<>> => r = Numbers!Idle
  BY <1>7
<1>10. RequestInOrder(r)
  <2> HIDE DEF rest
  <2>1. CASE rest = <<>>
    BY <1>9, <2>1, IdleRequest
  <2>2. CASE rest # <<>>
    BY <1>5, <1>8, <2>2 DEF RequestInOrder
  <2>3. QED
    BY <2>1, <2>2
<1>11. no' = no \/ no' = [no EXCEPT ![s] = n]
  BY <1>2 DEF Numbers!Puts
<1>12. UpToDate(r)'
  <2>1. CASE rest = <<>>
    <3>1. r.step = "idle"
      BY <1>9, <2>1 DEF Numbers!Idle
    <3>2. QED
      BY <3>1 DEF UpToDate
  <2>2. CASE rest # <<>>
    <3>1. ~ o.stale => PlanFits(rest)'
      <4>1. no \in [Numbers!Pupils -> {Numbers!Absent, Numbers!Blank} \cup Numbers!Numbers]
        BY DEF NumberInv
      <4>2. QED
        BY <1>3, <1>6, <1>11, <4>1, RestFits
    <3> HIDE DEF rest
    <3>2. ~ r.stale => PlanFits(r.plan)'
      BY <1>8, <2>2, <3>1
    <3>3. QED
      BY <1>8, <2>2, <3>2 DEF UpToDate
  <2>3. QED
    BY <2>1, <2>2
<1> HIDE DEF left
<1>13. CASE Numbers!Moves(p, left) /\ UNCHANGED <<no, raced>>
  <2>1. Numbers!Moves(p, r) /\ UNCHANGED <<rule, no, made, raced, account>>
    BY <1>2, <1>7, <1>13
  <2>2. UpToDate(r)
    BY <1>12, <2>1 DEF UpToDate, PlanFits, Numbers!OnRecord, Numbers!Has, Numbers!HasCode
  <2>3. QED
    BY <1>10, <2>1, <2>2, InvOfRequest, NumberMoves
<1>14. CASE Numbers!Puts(p, s, n, left)
  <2>1. Numbers!Puts(p, s, n, r) /\ UNCHANGED <<rule, account>> /\ made' \in 0..MaxStudents
    BY <1>2, <1>7, <1>14 DEF NumberInv
  <2>2. op'[p] = r
    BY <2>1 DEF Numbers!Puts
  <2>3. UpToDate(op[p])'
    BY <1>12, <2>2 DEF UpToDate
  <2>4. n \in Numbers!Numbers /\ ~ op[p].stale => \A t \in Numbers!Pupils \ {s} : no[t] # n
    <3>1. 1 \in DOMAIN q
      BY <1>3
    <3>2. ~ o.stale => n \notin Numbers!OnRecord
      BY <1>6, <3>1 DEF PlanFits
    <3>3. QED
      BY <1>1, <3>2 DEF Numbers!OnRecord
  <2> HIDE DEF s, n
  <2>5. QED
    BY <1>4, <1>10, <2>1, <2>3, <2>4, NumberPuts
<1>15. QED
  BY <1>2, <1>13, <1>14

LEMMA NumberStepKeeps == NumberInv /\ [RecordsNext]_allVars => NumberInv'
<1> SUFFICES ASSUME NumberInv, [RecordsNext]_allVars PROVE NumberInv'
  OBVIOUS
<1>1. ASSUME Numbers!Next PROVE NumberInv'
  BY <1>1, NumberSubmit, NumberGenerate, NumberCheck, NumberInsert, NumberWrite, NumberDelete,
     NumberPlanFill, NumberFillRow, NumberFind, NumberFindByNo, NumberSetPassword DEF Numbers!Next
<1>2. ASSUME UNCHANGED numberVars PROVE NumberInv'
  <2>1. UNCHANGED <<rule, no, made, account, op, raced>>
    BY <1>2 DEF numberVars
  <2>2. \A p \in Requests : RequestInOrder(op[p])' /\ UpToDate(op[p])'
    BY <2>1 DEF NumberInv, RequestInOrder, UpToDate, PlanFits, Numbers!OnRecord, Numbers!Has, Numbers!HasCode
  <2>3. Numbers!NumbersUnique'
    BY <2>1 DEF NumberInv, Numbers!NumbersUnique
  <2>4. QED
    BY <2>1, <2>2, <2>3 DEF NumberInv
<1>3. Numbers!Next \/ UNCHANGED numberVars
  BY DEF RecordsNext, NumberStep, FieldStep, TableStep, LinkStep, RoleStep, allVars, numberVars
<1>4. QED
  BY <1>1, <1>2, <1>3

LEMMA NumbersAreTyped == NumberInv => Numbers!TypeInv
<1> SUFFICES ASSUME NumberInv, NEW p \in Requests
             PROVE  /\ op[p].step \in Numbers!Steps
                    /\ op[p].id \in {0} \cup Numbers!Pupils
                    /\ op[p].num \in {Numbers!Blank} \cup Numbers!Numbers
                    /\ op[p].plan \in Numbers!BoundedSeq(Numbers!Pupils \X Numbers!Numbers, MaxStudents)
                    /\ op[p].stale \in BOOLEAN
  BY DEF NumberInv, Numbers!TypeInv
<1>1. op[p] \in RequestShape /\ Len(op[p].plan) <= MaxStudents
  BY InvOfRequest DEF RequestInOrder
<1> DEFINE q == op[p].plan
<1>2. q \in Seq(PlanRow)
  BY <1>1 DEF RequestShape
<1>3. q \in [1..Len(q) -> PlanRow] /\ Len(q) \in 0..MaxStudents
  BY <1>1, <1>2
<1> HIDE DEF q
<1>4. q \in Numbers!BoundedSeq(PlanRow, MaxStudents)
  BY <1>3 DEF Numbers!BoundedSeq, Numbers!SeqOf
<1>5. QED
  BY <1>1, <1>4 DEF RequestShape, PlanRow, q

(* The actions of the two properties, for one step. *)
FillsBlanks ==
    \A p \in Requests, s \in Numbers!Pupils :
        op[p].plan # op'[p].plan /\ op[p].plan # <<>> /\ no[s] \in Numbers!Numbers /\ no'[s] # no[s]
           => op[p].stale

AccountsPass ==
    \A n \in Numbers!Numbers :
        account'[n] # account[n]
           => \E p \in Requests :
                 /\ op[p].step \in {"account", "admin"} /\ op[p].num = n /\ op'[p].step = "idle"
                 /\ \/ op[p].stale
                    \/ /\ op[p].step = "admin"
                       /\ account'[n] = Numbers!Nobody \/ Numbers!HasCode(account'[n], n)
                    \/ /\ op[p].step = "account"
                       /\ account'[n] \in Numbers!Pupils /\ Numbers!Has(account'[n], n)
                       /\ account[n] # Numbers!Nobody /\ Numbers!Has(account[n], n)
                             => n \in raced \/ Numbers!HasCode(account[n], n) \/ Numbers!HasCode(account'[n], n)

(* Only the fill itself shortens its plan, by the row it writes.           *)
LEMMA NumberStepFills == NumberInv /\ [RecordsNext]_allVars => [FillsBlanks]_(Numbers!vars)
<1> SUFFICES ASSUME NumberInv, [RecordsNext]_allVars, NEW p \in Requests, NEW s \in Numbers!Pupils,
                    op[p].plan # op'[p].plan, op[p].plan # <<>>, no[s] \in Numbers!Numbers,
                    no'[s] # no[s]
             PROVE  op[p].stale
  BY DEF FillsBlanks
<1>1. Numbers!Next
  BY DEF RecordsNext, NumberStep, FieldStep, TableStep, LinkStep, RoleStep, allVars, numberVars
<1>2. PICK q \in Requests :
         \/ Numbers!Submit(q) \/ Numbers!Generate(q) \/ Numbers!Check(q) \/ Numbers!Insert(q)
         \/ Numbers!Write(q) \/ Numbers!Delete(q) \/ Numbers!PlanFill(q) \/ Numbers!FillRow(q)
         \/ Numbers!FindStudent(q) \/ Numbers!FindByNo(q) \/ Numbers!SetPassword(q)
  BY <1>1 DEF Numbers!Next
<1>3. \E t, n, record : Numbers!Puts(q, t, n, record)
  <2>1. Numbers!Insert(q) \/ Numbers!Write(q) \/ Numbers!Delete(q) \/ Numbers!FillRow(q)
    BY <1>2 DEF Numbers!Submit, Numbers!Generate, Numbers!Check, Numbers!PlanFill,
       Numbers!FindStudent, Numbers!FindByNo, Numbers!SetPassword
  <2>2. CASE Numbers!Insert(q)
    BY <2>2 DEF Numbers!Insert
  <2>3. CASE Numbers!Write(q)
    BY <2>3 DEF Numbers!Write
  <2>4. CASE Numbers!Delete(q)
    BY <2>4 DEF Numbers!Delete
  <2>5. CASE Numbers!FillRow(q)
    BY <2>5 DEF Numbers!FillRow
  <2>6. QED
    BY <2>1, <2>2, <2>3, <2>4, <2>5
<1>4. q = p
  <2>1. CASE q # p
    <3>1. op'[p] = [op[p] EXCEPT !.stale = op[p].step \in {"write", "fill", "account", "admin"}]
      BY <1>3, <2>1 DEF Numbers!Puts
    <3>2. op'[p].plan = op[p].plan
      BY <3>1, InvOfRequest DEF RequestShape
    <3>3. QED
      BY <3>2
  <2>2. QED
    BY <2>1
<1>5. op[p].step = "fill"
  BY InvOfRequest DEF RequestInOrder
<1>6. Numbers!FillRow(p)
  BY <1>2, <1>4, <1>5 DEF Numbers!Submit, Numbers!Generate, Numbers!Check, Numbers!Insert,
     Numbers!Write, Numbers!Delete, Numbers!PlanFill, Numbers!FindStudent, Numbers!FindByNo, Numbers!SetPassword
<1>7. s = op[p].plan[1][1]
  <2>1. no \in [Numbers!Pupils -> {Numbers!Absent, Numbers!Blank} \cup Numbers!Numbers]
    BY DEF NumberInv
  <2>2. QED
    BY <1>6, <2>1 DEF Numbers!FillRow, Numbers!Puts
<1>8. ~ op[p].stale => no[s] = Numbers!Blank
  <2>1. 1 \in DOMAIN op[p].plan
    <3>1. op[p].plan \in Seq(PlanRow)
      BY InvOfRequest DEF RequestShape
    <3>2. QED
      BY <3>1
  <2>2. QED
    BY <1>5, <1>7, <2>1, InvOfRequest DEF UpToDate, PlanFits
<1>9. Numbers!Blank \notin Numbers!Numbers
  BY NumberConstants DEF Numbers!Blank, Numbers!Numbers
<1>10. QED
  BY <1>8, <1>9

LEMMA NumberStepPasses == NumberInv /\ [RecordsNext]_allVars => [AccountsPass]_(Numbers!vars)
<1> SUFFICES ASSUME NumberInv, [RecordsNext]_allVars, NEW n \in Numbers!Numbers,
                    account'[n] # account[n]
             PROVE  \E p \in Requests :
                       /\ op[p].step \in {"account", "admin"} /\ op[p].num = n /\ op'[p].step = "idle"
                       /\ \/ op[p].stale
                          \/ /\ op[p].step = "admin"
                             /\ account'[n] = Numbers!Nobody \/ Numbers!HasCode(account'[n], n)
                          \/ /\ op[p].step = "account"
                             /\ account'[n] \in Numbers!Pupils /\ Numbers!Has(account'[n], n)
                             /\ account[n] # Numbers!Nobody /\ Numbers!Has(account[n], n)
                                   => \/ n \in raced
                                      \/ Numbers!HasCode(account[n], n)
                                      \/ Numbers!HasCode(account'[n], n)
  BY DEF AccountsPass
<1>1. Numbers!Next
  BY DEF RecordsNext, NumberStep, FieldStep, TableStep, LinkStep, RoleStep, allVars, numberVars
<1>2. PICK p \in Requests : Numbers!SetPassword(p)
  BY <1>1 DEF Numbers!Next, Numbers!Submit, Numbers!Generate, Numbers!Check, Numbers!Insert, Numbers!Write,
     Numbers!Delete, Numbers!PlanFill, Numbers!FillRow, Numbers!FindStudent, Numbers!FindByNo
<1>3. /\ account \in [Numbers!Numbers -> {Numbers!Nobody} \cup Numbers!Pupils]
      /\ op[p].step \in {"account", "admin"}
      /\ account' = [account EXCEPT ![op[p].num] = op[p].id]
  BY <1>2, InvOfRequest DEF Numbers!SetPassword
<1>4. n = op[p].num /\ account'[n] = op[p].id
  BY <1>3
<1>5. op'[p].step = "idle"
  <2>1. op'[p] = Numbers!Idle
    BY <1>2 DEF NumberInv, Numbers!SetPassword, Numbers!Moves
  <2>2. QED
    BY <2>1 DEF Numbers!Idle
<1>6. CASE op[p].stale
  BY <1>3, <1>4, <1>5, <1>6
<1>7. CASE ~ op[p].stale /\ op[p].step = "admin"
  <2>1. op[p].id = 0 \/ Numbers!HasCode(op[p].id, n)
    BY <1>4, <1>7, InvOfRequest DEF UpToDate
  <2>2. QED
    BY <1>3, <1>4, <1>5, <1>7, <2>1 DEF Numbers!Nobody
<1>8. CASE ~ op[p].stale /\ op[p].step = "account"
  <2> DEFINE s == op[p].id
             t == account[n]
  <2>1. s \in Numbers!Pupils /\ Numbers!Has(s, n)
    BY <1>4, <1>8, InvOfRequest DEF UpToDate, RequestInOrder
  <2>2. t # Numbers!Nobody /\ Numbers!Has(t, n)
          => n \in raced \/ Numbers!HasCode(t, n) \/ Numbers!HasCode(s, n)
    <3>1. t # Numbers!Nobody => t \in Numbers!Pupils /\ t # s
      BY <1>3, <1>4
    <3>2. t \in Numbers!Pupils /\ t # s /\ no[t] = n /\ no[s] = n => n \in raced
      BY <2>1 DEF NumberInv, Numbers!NumbersUnique
    <3>3. QED
      BY <2>1, <3>1, <3>2 DEF Numbers!Has
  <2>3. QED
    BY <1>4, <1>5, <1>8, <2>1, <2>2
<1>9. QED
  BY <1>3, <1>6, <1>7, <1>8, InvOfRequest

(* Two students share a number only through overtaken requests, the batch   *)
(* fill changes no number a student has, and an account is given by name to *)
(* who has its number and not taken from who has it, with the exceptions    *)
(* AccountsFollowNumbers names; for every rule and number of students,      *)
(* numbers and requests.                                                    *)
THEOREM NumbersAreKept == RecordsSpec => NumbersKept
<1>1. RecordsInit => NumberInv
  BY NumberStart DEF RecordsInit
<1>2. RecordsSpec => []NumberInv
  BY <1>1, NumberStepKeeps, PTL DEF RecordsSpec
<1>3. NumberInv => (active = "numbers" => Numbers!TypeInv /\ Numbers!NumbersUnique)
  BY NumbersAreTyped DEF NumberInv
<1>4. RecordsSpec => Numbers!FillKeepsNumbers
  BY <1>2, NumberStepFills, PTL DEF RecordsSpec, Numbers!FillKeepsNumbers, FillsBlanks
<1>5. RecordsSpec => Numbers!AccountsFollowNumbers
  BY <1>2, NumberStepPasses, PTL DEF RecordsSpec, Numbers!AccountsFollowNumbers, AccountsPass
<1>6. QED
  BY <1>2, <1>3, <1>4, <1>5, PTL DEF NumbersKept
=============================================================================
