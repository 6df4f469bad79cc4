-------------------------- MODULE NoteArchive_proofs ------------------------
(***************************************************************************)
(* Proofs about the archiving of notes (NoteArchive), for every set of     *)
(* jobs, every order of notes and kinds, and every number of folders and   *)
(* faults.                                                                 *)
(***************************************************************************)
EXTENDS NoteArchive, FiniteSetTheorems, TLAPS

RunType ==
    [step : Steps, todo : SUBSET Notes, folder : {NoFolder} \cup Folders, left : Seq(Kinds),
     seen : SUBSET (Notes \cup Folders \cup Files)]

(* What a run has in hand at each of its steps.                            *)
InHand(r) ==
    /\ r.step \in {"folders", "create", "kind", "names", "upload", "fail"} => r.todo # {}
    /\ r.step \in {"kind", "names", "upload"} => r.folder # NoFolder
    /\ r.step \in {"names", "upload"} =>
          r.left # << >> /\ Text[First(r.todo)][Head(r.left)] # Empty
    /\ r.step = "names" => r.seen \subseteq Files
    /\ r.step = "folders" => r.seen \subseteq Folders
    /\ r.step \notin {"clear", "index", "folders", "names"} => r.seen = {}

TInv ==
    /\ owners \in [Folders -> Persons \cup {Nobody}]
    /\ copies \in [Folders -> [Files -> Nat]]
    /\ record \in [Notes -> [Jobs -> {NoRecord, FailedRecord} \cup Folders]]
    /\ folderCache \in [Persons -> {NoFolder} \cup Folders]
    /\ nameCache \in [Folders -> {Unlisted} \cup SUBSET Files]
    /\ index \subseteq Keys
    /\ run \in [Jobs -> RunType]
    /\ events \in Nat /\ overlapped \in BOOLEAN /\ blind \in BOOLEAN
    /\ \A j \in Jobs : InHand(run[j])

-----------------------------------------------------------------------------
(* The next note of a run is one of its notes.                             *)
LEMMA PosIsNat == \A n \in Notes : Pos(n) \in Nat
<1>1. TAKE n \in Notes
<1>2. PICK i \in DOMAIN NoteOrder : NoteOrder[i] = n
  BY DEF Notes
<1>3. Pos(n) \in DOMAIN NoteOrder
  BY <1>2 DEF Pos
<1>4. QED
  BY <1>3, OrdersAreLists

LEMMA FirstOfNotes ==
  ASSUME NEW S \in SUBSET Notes, S # {}
  PROVE  First(S) \in S
<1> DEFINE T == {Pos(n) : n \in S}
<1>1. T \in SUBSET Nat /\ T # {}
  BY PosIsNat
<1>2. PICK p \in T : \A q \in T : ~(<<q, p>> \in OpToRel(<, Nat))
  BY <1>1, NatLessThanWellFounded, WFMin
<1>3. PICK n \in S : p = Pos(n)
  OBVIOUS
<1>4. \A m \in S : Pos(n) <= Pos(m)
  <2>1. TAKE m \in S
  <2>2. ~(Pos(m) < Pos(n))
    BY <1>1, <1>2, <1>3 DEF OpToRel
  <2>3. Pos(m) \in Nat /\ Pos(n) \in Nat
    BY PosIsNat
  <2>4. QED
    BY <2>2, <2>3
<1>5. QED
  BY <1>4 DEF First

LEMMA InHandNow ==
  ASSUME TInv, NEW j \in Jobs
  PROVE  /\ run[j] \in RunType /\ InHand(run[j])
         /\ run[j].todo # {} => Note(j) \in run[j].todo /\ Note(j) \in Notes
                                /\ Owner[Note(j)] \in Persons
         /\ run[j].left # << >> => Kind(j) \in Kinds /\ Tail(run[j].left) \in Seq(Kinds)
<1>1. run[j] \in RunType /\ InHand(run[j])
  BY DEF TInv
<1>2. run[j].todo # {} => Note(j) \in run[j].todo /\ Note(j) \in Notes
  BY <1>1, FirstOfNotes DEF RunType, Note
<1>3. \A n \in Notes : Owner[n] \in Persons
  BY DEF Persons
<1>4. run[j].left # << >> => Kind(j) \in Kinds /\ Tail(run[j].left) \in Seq(Kinds)
  <2>1. run[j].left \in Seq(Kinds)
    BY <1>1 DEF RunType
  <2>2. \A s \in Seq(Kinds) : s # << >> => Head(s) \in Kinds /\ Tail(s) \in Seq(Kinds)
    OBVIOUS
  <2>3. QED
    BY <2>1, <2>2 DEF Kind
<1>5. QED
  BY <1>1, <1>2, <1>3, <1>4

(* Only the run of j changes, and to r. *)
LEMMA OneRun ==
  ASSUME TInv, NEW j \in Jobs, NEW r \in RunType, InHand(r), run' = [run EXCEPT ![j] = r]
  PROVE  /\ run' \in [Jobs -> RunType] /\ run'[j] = r
         /\ \A i \in Jobs \ {j} : run'[i] = run[i]
         /\ \A i \in Jobs : InHand(run'[i])
<1>1. run \in [Jobs -> RunType] /\ \A i \in Jobs : InHand(run[i])
  BY DEF TInv
<1>2. run' \in [Jobs -> RunType] /\ run'[j] = r /\ \A i \in Jobs \ {j} : run'[i] = run[i]
  BY <1>1
<1>3. QED
  BY <1>1, <1>2

(* The types follow from the new run of j and the types of the rest.       *)
LEMMA TypesFrom ==
  ASSUME TInv, NEW j \in Jobs, NEW r \in RunType, InHand(r), run' = [run EXCEPT ![j] = r],
         /\ owners' \in [Folders -> Persons \cup {Nobody}]
         /\ copies' \in [Folders -> [Files -> Nat]]
         /\ record' \in [Notes -> [Jobs -> {NoRecord, FailedRecord} \cup Folders]]
         /\ folderCache' \in [Persons -> {NoFolder} \cup Folders]
         /\ nameCache' \in [Folders -> {Unlisted} \cup SUBSET Files]
         /\ index' \subseteq Keys
         /\ events' \in Nat /\ overlapped' \in BOOLEAN /\ blind' \in BOOLEAN
  PROVE  TInv'
  BY OneRun DEF TInv

LEMMA TypesOfPast ==
  ASSUME TInv
  PROVE  /\ UNCHANGED past => events' \in Nat /\ overlapped' \in BOOLEAN /\ blind' \in BOOLEAN
         /\ \A dark \in BOOLEAN :
              Event(dark) => events' \in Nat /\ overlapped' \in BOOLEAN /\ blind' \in BOOLEAN
  BY DEF TInv, past, Event

LEMMA TypesInit == Init => TInv
<1>1. SUFFICES ASSUME Init PROVE TInv
  OBVIOUS
<1>2. Idle \in RunType /\ InHand(Idle)
  BY DEF Idle, RunType, Steps, InHand, NoFolder
<1>3. QED
  BY <1>1, <1>2 DEF Init, TInv, Keys

LEMMA TypesRun ==
  ASSUME TInv, NEW j \in Jobs, Start(j) \/ GiveUp(j) \/ LoadArchived(j) \/ ClearCaches(j)
                               \/ LoadIndex(j) \/ Finish(j)
  PROVE  TInv'
<1> USE TypesOfPast DEF drive, memory
<1>1. run[j] \in RunType /\ InHand(run[j]) /\ run \in [Jobs -> RunType]
  BY InHandNow DEF TInv
<1>2. CASE Start(j)
  <2> DEFINE r == [run[j] EXCEPT !.step = "archived"]
  <2>1. run' = [run EXCEPT ![j] = r]
    BY <1>1, <1>2 DEF Start, Goto
  <2>2. r \in RunType /\ InHand(r)
    BY <1>1, <1>2 DEF Start, At, RunType, Steps, InHand
  <2>3. events' \in Nat /\ overlapped' \in BOOLEAN /\ blind' \in BOOLEAN
    BY <1>2 DEF Start, TInv
  <2> HIDE DEF r
  <2>4. QED
    BY <1>2, <2>1, <2>2, <2>3, TypesFrom DEF Start, TInv
<1>3. CASE GiveUp(j) \/ Finish(j)
  <2>1. run' = [run EXCEPT ![j] = Idle]
    BY <1>3 DEF GiveUp, Finish
  <2>2. Idle \in RunType /\ InHand(Idle)
    BY DEF Idle, RunType, Steps, InHand, NoFolder
  <2>3. QED
    BY <1>3, <2>1, <2>2, TypesFrom DEF GiveUp, Finish, TInv
<1>4. CASE LoadArchived(j)
  <2>1. PICK seen \in SUBSET Notes : run' = [run EXCEPT ![j].step = "clear", ![j].seen = seen]
    <3>1. {n \in Notes : Succeeded(n, j)} \in SUBSET Notes /\ run[j].seen = {}
      BY <1>1, <1>4 DEF LoadArchived, At, InHand
    <3>2. CASE run' = [run EXCEPT ![j].step = "clear"]
      <4>1. run' = [run EXCEPT ![j].step = "clear", ![j].seen = {}]
        BY <1>1, <3>1, <3>2 DEF RunType
      <4>2. QED
        BY <4>1
    <3>3. QED
      BY <1>4, <3>1, <3>2 DEF LoadArchived
  <2> DEFINE r == [run[j] EXCEPT !.step = "clear", !.seen = seen]
  <2>2. run' = [run EXCEPT ![j] = r]
    BY <1>1, <2>1 DEF RunType
  <2>3. r \in RunType /\ InHand(r)
    BY <1>1 DEF RunType, Steps, InHand
  <2> HIDE DEF r
  <2>4. QED
    BY <1>4, <2>2, <2>3, TypesFrom DEF LoadArchived, TInv
<1>5. CASE ClearCaches(j)
  <2> DEFINE r == [run[j] EXCEPT !.step = "index"]
  <2>1. run' = [run EXCEPT ![j] = r]
    BY <1>1, <1>5 DEF ClearCaches, Goto
  <2>2. r \in RunType /\ InHand(r)
    BY <1>1 DEF RunType, Steps, InHand
  <2>3. /\ folderCache' \in [Persons -> {NoFolder} \cup Folders]
        /\ nameCache' \in [Folders -> {Unlisted} \cup SUBSET Files] /\ index' \subseteq Keys
    BY <1>5 DEF ClearCaches
  <2> HIDE DEF r
  <2>4. QED
    BY <1>5, <2>1, <2>2, <2>3, TypesFrom DEF ClearCaches, TInv
<1>6. CASE LoadIndex(j)
  <2>1. PICK todo \in SUBSET Notes :
          run' = [run EXCEPT ![j].step = "note", ![j].seen = {}, ![j].todo = todo]
    <3>1. Fresh(j) \in SUBSET Notes
      BY CandAreNotes DEF Fresh
    <3>2. QED
      BY <1>6, <3>1 DEF LoadIndex
  <2> DEFINE r == [run[j] EXCEPT !.step = "note", !.seen = {}, !.todo = todo]
  <2>2. run' = [run EXCEPT ![j] = r]
    BY <1>1, <2>1 DEF RunType
  <2>3. r \in RunType /\ InHand(r)
    BY <1>1 DEF RunType, Steps, InHand
  <2>4. index' \subseteq Keys
    BY <1>6 DEF LoadIndex, Indexed, Recorded, TInv
  <2> HIDE DEF r
  <2>5. QED
    BY <1>6, <2>2, <2>3, <2>4, TypesFrom DEF LoadIndex, TInv
<1>7. QED
  BY <1>2, <1>3, <1>4, <1>5, <1>6

(* A note begins in the folder f, with every kind or without the body's.   *)
Begun(j, f, kinds) == [run[j] EXCEPT !.step = "kind", !.folder = f, !.left = kinds, !.seen = {}]

Orders == {KindOrder, OwnOrder}

LEMMA BegunIs ==
  ASSUME TInv, NEW j \in Jobs, NEW f \in Folders, run[j].todo # {}
  PROVE  /\ \A kinds \in Orders : Begun(j, f, kinds) \in RunType /\ InHand(Begun(j, f, kinds))
         /\ BeginNote(j, f) =>
               /\ \E kinds \in Orders : run' = [run EXCEPT ![j] = Begun(j, f, kinds)]
               /\ events' \in Nat /\ overlapped' \in BOOLEAN /\ blind' \in BOOLEAN
<1>1. run[j] \in RunType /\ InHand(run[j]) /\ run \in [Jobs -> RunType]
  BY InHandNow DEF TInv
<1>2. f # NoFolder /\ f \in {NoFolder} \cup Folders
  BY DEF NoFolder, Folders
<1>3. \A kinds \in Orders : kinds \in Seq(Kinds)
  BY OrdersAreLists, OwnAreKinds DEF Orders
<1>4. \A kinds \in Orders : Begun(j, f, kinds) \in RunType /\ InHand(Begun(j, f, kinds))
  BY <1>1, <1>2, <1>3 DEF Begun, RunType, Steps, InHand
<1>5. \A kinds : Begin(j, f, kinds) => run' = [run EXCEPT ![j] = Begun(j, f, kinds)]
  BY <1>1 DEF Begin, Begun, RunType
<1>6. ASSUME BeginNote(j, f)
      PROVE  /\ \E kinds \in Orders : run' = [run EXCEPT ![j] = Begun(j, f, kinds)]
             /\ events' \in Nat /\ overlapped' \in BOOLEAN /\ blind' \in BOOLEAN
  <2>1. \E kinds \in Orders : Begin(j, f, kinds)
    BY <1>6 DEF BeginNote, Orders
  <2>2. UNCHANGED past \/ Event(FALSE)
    BY <1>6 DEF BeginNote
  <2>3. QED
    BY <1>5, <2>1, <2>2, TypesOfPast
<1>7. QED
  BY <1>4, <1>6

LEMMA TypesFolder ==
  ASSUME TInv, NEW j \in Jobs,
         FolderKnown(j) \/ ListFolders(j) \/ UseFolders(j) \/ CreateFolder(j)
  PROVE  TInv'
<1> USE TypesOfPast DEF drive, memory
<1>1. run[j] \in RunType /\ InHand(run[j]) /\ run \in [Jobs -> RunType]
  BY InHandNow DEF TInv
<1>2. run[j].todo # {} /\ Owner[Note(j)] \in Persons
  <2>1. run[j].todo # {}
    BY <1>1 DEF FolderKnown, ListFolders, UseFolders, CreateFolder, At, InHand
  <2>2. QED
    BY <2>1, InHandNow
<1>3. CASE FolderKnown(j)
  <2> DEFINE f == folderCache[Owner[Note(j)]]
  <2>1. f \in Folders /\ BeginNote(j, f)
    BY <1>2, <1>3 DEF FolderKnown, TInv
  <2>2. /\ events' \in Nat /\ overlapped' \in BOOLEAN /\ blind' \in BOOLEAN
        /\ \E r \in RunType : InHand(r) /\ run' = [run EXCEPT ![j] = r]
    BY <1>2, <2>1, BegunIs
  <2>3. PICK r \in RunType : InHand(r) /\ run' = [run EXCEPT ![j] = r]
    BY <2>2
  <2>4. QED
    BY <1>3, <2>2, <2>3, TypesFrom DEF FolderKnown, TInv
<1>4. CASE ListFolders(j)
  <2>1. PICK step \in {"folders", "fail"}, seen \in SUBSET Folders :
          /\ run' = [run EXCEPT ![j].step = step, ![j].seen = seen]
          /\ step = "fail" => seen = {}
    <3>1. {f \in Folders : owners[f] # Nobody} \in SUBSET Folders /\ run[j].seen = {}
      BY <1>1, <1>4 DEF ListFolders, At, InHand
    <3>2. ASSUME NEW s, run' = [run EXCEPT ![j].step = s]
          PROVE  run' = [run EXCEPT ![j].step = s, ![j].seen = {}]
      BY <1>1, <3>1, <3>2 DEF RunType
    <3>3. QED
      BY <1>4, <3>1, <3>2 DEF ListFolders, Goto
  <2> DEFINE r == [run[j] EXCEPT !.step = step, !.seen = seen]
  <2>2. run' = [run EXCEPT ![j] = r]
    BY <1>1, <2>1 DEF RunType
  <2>3. r \in RunType /\ InHand(r)
    BY <1>1, <1>2, <2>1 DEF RunType, Steps, InHand
  <2> HIDE DEF r
  <2>4. QED
    BY <1>4, <2>2, <2>3, TypesFrom DEF ListFolders, TInv
<1>5. CASE UseFolders(j)
  <2> DEFINE f == folderCache'[Owner[Note(j)]]
  <2>1. folderCache' \in [Persons -> {NoFolder} \cup Folders]
    BY <1>5 DEF UseFolders
  <2>2. /\ events' \in Nat /\ overlapped' \in BOOLEAN /\ blind' \in BOOLEAN
        /\ \E r \in RunType : InHand(r) /\ run' = [run EXCEPT ![j] = r]
    <3>1. CASE f # NoFolder
      <4>1. f \in Folders /\ BeginNote(j, f)
        BY <1>2, <1>5, <2>1, <3>1 DEF UseFolders
      <4>2. QED
        BY <1>2, <4>1, BegunIs
    <3>2. CASE f = NoFolder
      <4> DEFINE r == [run[j] EXCEPT !.step = "create", !.seen = {}]
      <4>1. r \in RunType /\ InHand(r)
        BY <1>1, <1>2 DEF RunType, Steps, InHand
      <4>2. run' = [run EXCEPT ![j] = r] /\ UNCHANGED past
        BY <1>1, <1>5, <3>2 DEF UseFolders, RunType
      <4> HIDE DEF r
      <4>3. QED
        BY <4>1, <4>2
    <3>3. QED
      BY <3>1, <3>2
  <2>3. PICK r \in RunType : InHand(r) /\ run' = [run EXCEPT ![j] = r]
    BY <2>2
  <2>4. QED
    BY <1>5, <2>1, <2>2, <2>3, TypesFrom DEF UseFolders, TInv
<1>6. CASE CreateFolder(j)
  <2>1. CASE Goto(j, "fail") /\ Event(FALSE) /\ UNCHANGED <<owners, folderCache, gaps>>
    <3> DEFINE r == [run[j] EXCEPT !.step = "fail"]
    <3>1. run' = [run EXCEPT ![j] = r]
      BY <1>1, <2>1 DEF Goto
    <3>2. r \in RunType /\ InHand(r)
      BY <1>1, <1>2, <1>6 DEF CreateFolder, At, RunType, Steps, InHand
    <3> HIDE DEF r
    <3>3. QED
      BY <1>6, <2>1, <3>1, <3>2, TypesFrom DEF CreateFolder, TInv
  <2>2. CASE \E f \in Folders :
               /\ owners' = [owners EXCEPT ![f] = Owner[Note(j)]]
               /\ folderCache' = [folderCache EXCEPT ![Owner[Note(j)]] = f]
               /\ BeginNote(j, f)
    <3>1. PICK f \in Folders :
               /\ owners' = [owners EXCEPT ![f] = Owner[Note(j)]]
               /\ folderCache' = [folderCache EXCEPT ![Owner[Note(j)]] = f]
               /\ BeginNote(j, f)
      BY <2>2
    <3>2. /\ events' \in Nat /\ overlapped' \in BOOLEAN /\ blind' \in BOOLEAN
          /\ \E r \in RunType : InHand(r) /\ run' = [run EXCEPT ![j] = r]
      BY <1>2, <3>1, BegunIs
    <3>3. /\ owners' \in [Folders -> Persons \cup {Nobody}]
          /\ folderCache' \in [Persons -> {NoFolder} \cup Folders]
      BY <1>2, <3>1 DEF TInv
    <3>4. PICK r \in RunType : InHand(r) /\ run' = [run EXCEPT ![j] = r]
      BY <3>2
    <3>5. QED
      BY <1>6, <3>2, <3>3, <3>4, TypesFrom DEF CreateFolder, TInv
  <2>3. QED
    BY <1>6, <2>1, <2>2 DEF CreateFolder
<1>7. QED
  BY <1>3, <1>4, <1>5, <1>6

-----------------------------------------------------------------------------
(* The two ways a kind of text goes on.                                    *)
DoneWith(j)  == [run[j] EXCEPT !.step = "kind", !.left = Tail(run[j].left), !.seen = {}]
ToUpload(j)  == [run[j] EXCEPT !.step = "upload", !.seen = {}]
Stopped(j)   == [run[j] EXCEPT !.step = "fail"]
Ended(j)     == [run[j] EXCEPT !.step = "note", !.todo = run[j].todo \ {Note(j)},
                               !.folder = NoFolder, !.left = << >>]

LEMMA KindInHand ==
  ASSUME TInv, NEW j \in Jobs, run[j].step \in {"kind", "names", "upload"}, run[j].left # << >>
  PROVE  /\ run[j].folder \in Folders /\ Note(j) \in Notes /\ Kind(j) \in Kinds
         /\ File(j) \in Files /\ Note(j) \in run[j].todo
         /\ run[j].step # "kind" => Text[Note(j)][Kind(j)] # Empty
         /\ Text[Note(j)][Kind(j)] # Empty =>
               Key(j) \in Keys /\ ToUpload(j) \in RunType /\ InHand(ToUpload(j))
         /\ DoneWith(j) \in RunType /\ InHand(DoneWith(j))
         /\ Done(j) => run' = [run EXCEPT ![j] = DoneWith(j)]
<1>1. /\ run[j] \in RunType /\ InHand(run[j]) /\ run \in [Jobs -> RunType]
      /\ Note(j) \in Notes /\ Note(j) \in run[j].todo
      /\ Kind(j) \in Kinds /\ Tail(run[j].left) \in Seq(Kinds)
  BY InHandNow DEF TInv, InHand
<1>2. run[j].folder \in Folders
  BY <1>1 DEF InHand, RunType
<1>3. File(j) \in Files
  BY <1>1 DEF File, Files
<1>4. Text[Note(j)][Kind(j)] # Empty => Key(j) \in Keys
  BY <1>1, <1>2 DEF Key, Keys, Hashes
<1>5. DoneWith(j) \in RunType /\ InHand(DoneWith(j))
  BY <1>1 DEF DoneWith, RunType, Steps, InHand
<1>6. Text[Note(j)][Kind(j)] # Empty => ToUpload(j) \in RunType /\ InHand(ToUpload(j))
  BY <1>1 DEF ToUpload, RunType, Steps, InHand, Note, Kind
<1>7. Done(j) => run' = [run EXCEPT ![j] = DoneWith(j)]
  BY <1>1 DEF Done, DoneWith, RunType
<1>8. run[j].step # "kind" => Text[Note(j)][Kind(j)] # Empty
  BY <1>1 DEF InHand, Note, Kind
<1>9. QED
  BY <1>1, <1>2, <1>3, <1>4, <1>5, <1>6, <1>7, <1>8

(* What a look at the names of the folder does to caches and run.          *)
LEMMA CheckNameDoes ==
  ASSUME TInv, NEW j \in Jobs, run[j].step \in {"kind", "names"}, run[j].left # << >>,
         NEW names \in SUBSET Files, CheckName(j, names)
  PROVE  \/ /\ File(j) \in names
            /\ nameCache' = [nameCache EXCEPT ![run[j].folder] = names]
            /\ index' = index \cup {Key(j)}
            /\ run' = [run EXCEPT ![j] = DoneWith(j)]
         \/ /\ File(j) \notin names
            /\ nameCache' = [nameCache EXCEPT ![run[j].folder] = names \cup {File(j)}]
            /\ index' = index
            /\ run' = [run EXCEPT ![j] = ToUpload(j)]
<1>1. run[j] \in RunType
  BY InHandNow
<1>2. CASE File(j) \in names
  BY <1>2, KindInHand DEF CheckName
<1>3. CASE File(j) \notin names
  BY <1>1, <1>3 DEF CheckName, ToUpload, RunType
<1>4. QED
  BY <1>2, <1>3

LEMMA TypesCheckName ==
  ASSUME TInv, NEW j \in Jobs, run[j].step \in {"kind", "names"}, run[j].left # << >>,
         Text[Note(j)][Kind(j)] # Empty, NEW names \in SUBSET Files, CheckName(j, names),
         UNCHANGED <<drive, record, folderCache, past>>
  PROVE  TInv'
<1> USE TypesOfPast DEF drive
<1>1. /\ run[j].folder \in Folders /\ File(j) \in Files
      /\ DoneWith(j) \in RunType /\ InHand(DoneWith(j))
      /\ ToUpload(j) \in RunType /\ InHand(ToUpload(j)) /\ Key(j) \in Keys
  BY KindInHand
<1>2. CASE /\ nameCache' = [nameCache EXCEPT ![run[j].folder] = names]
           /\ index' = index \cup {Key(j)}
           /\ run' = [run EXCEPT ![j] = DoneWith(j)]
  <2>1. nameCache' \in [Folders -> {Unlisted} \cup SUBSET Files] /\ index' \subseteq Keys
    BY <1>1, <1>2 DEF TInv
  <2>2. QED
    BY <1>1, <1>2, <2>1, TypesFrom DEF TInv
<1>3. CASE /\ nameCache' = [nameCache EXCEPT ![run[j].folder] = names \cup {File(j)}]
           /\ index' = index
           /\ run' = [run EXCEPT ![j] = ToUpload(j)]
  <2>1. nameCache' \in [Folders -> {Unlisted} \cup SUBSET Files] /\ index' \subseteq Keys
    BY <1>1, <1>3 DEF TInv
  <2>2. QED
    BY <1>1, <1>3, <2>1, TypesFrom DEF TInv
<1>4. QED
  BY <1>2, <1>3, CheckNameDoes

LEMMA KindToDo ==
  ASSUME TInv, NEW j \in Jobs
  PROVE  /\ ToDo(j) => run[j].step = "kind" /\ run[j].left # << >>
         /\ Wanted(j) => ToDo(j) /\ Text[Note(j)][Kind(j)] # Empty
         /\ At(j, "names") \/ At(j, "upload") =>
              run[j].left # << >> /\ Text[Note(j)][Kind(j)] # Empty
         /\ At(j, "names") => run[j].step = "names" /\ run[j].seen \in SUBSET Files
         /\ At(j, "upload") => run[j].step = "upload"
  BY InHandNow DEF ToDo, Wanted, At, InHand, Note, Kind

LEMMA TypesKind ==
  ASSUME TInv, NEW j \in Jobs,
         SkipKind(j) \/ NameKnown(j) \/ ListNames(j) \/ UseNames(j) \/ Upload(j)
  PROVE  TInv'
<1> USE TypesOfPast DEF drive, memory
<1>1. run[j] \in RunType /\ InHand(run[j]) /\ run \in [Jobs -> RunType]
  BY InHandNow DEF TInv
<1>2. CASE SkipKind(j)
  <2>1. /\ run' = [run EXCEPT ![j] = DoneWith(j)]
        /\ DoneWith(j) \in RunType /\ InHand(DoneWith(j))
    BY <1>2, KindToDo, KindInHand DEF SkipKind
  <2>2. QED
    BY <1>2, <2>1, TypesFrom DEF SkipKind, TInv
<1>3. CASE NameKnown(j)
  <2>1. /\ run[j].step = "kind" /\ run[j].left # << >> /\ Text[Note(j)][Kind(j)] # Empty
        /\ CheckName(j, nameCache[run[j].folder])
        /\ UNCHANGED <<drive, record, folderCache, past>>
    BY <1>3, KindToDo DEF NameKnown
  <2>2. nameCache[run[j].folder] \in SUBSET Files
    BY <1>3, <2>1, KindInHand DEF NameKnown, TInv
  <2>3. QED
    BY <2>1, <2>2, TypesCheckName
<1>4. CASE ListNames(j)
  <2>1. PICK seen \in SUBSET Files : run' = [run EXCEPT ![j].step = "names", ![j].seen = seen]
    <3>1. {x \in Files : copies[run[j].folder][x] > 0} \in SUBSET Files /\ run[j].seen = {}
      BY <1>1, <1>4, KindToDo DEF ListNames, InHand
    <3>2. CASE run' = [run EXCEPT ![j].step = "names"]
      <4>1. run' = [run EXCEPT ![j].step = "names", ![j].seen = {}]
        BY <1>1, <3>1, <3>2 DEF RunType
      <4>2. QED
        BY <4>1
    <3>3. QED
      BY <1>4, <3>1, <3>2 DEF ListNames
  <2> DEFINE r == [run[j] EXCEPT !.step = "names", !.seen = seen]
  <2>2. run' = [run EXCEPT ![j] = r]
    BY <1>1, <2>1 DEF RunType
  <2>3. run[j].step = "kind" /\ run[j].left # << >> /\ Text[Note(j)][Kind(j)] # Empty
    BY <1>4, KindToDo DEF ListNames
  <2>4. r \in RunType /\ InHand(r)
    BY <1>1, <2>3 DEF RunType, Steps, InHand, Note, Kind
  <2> HIDE DEF r
  <2>5. QED
    BY <1>4, <2>2, <2>4, TypesFrom DEF ListNames, TInv
<1>5. CASE UseNames(j)
  <2>1. /\ run[j].step = "names" /\ run[j].left # << >> /\ Text[Note(j)][Kind(j)] # Empty
        /\ run[j].seen \in SUBSET Files /\ CheckName(j, run[j].seen)
        /\ UNCHANGED <<drive, record, folderCache, past>>
    BY <1>5, KindToDo DEF UseNames
  <2>2. QED
    BY <2>1, TypesCheckName
<1>6. CASE Upload(j)
  <2> DEFINE stored == [copies EXCEPT ![run[j].folder][File(j)] = @ + 1]
  <2>1. /\ run[j].step = "upload" /\ run[j].left # << >> /\ Text[Note(j)][Kind(j)] # Empty
        /\ run[j].folder \in Folders /\ File(j) \in Files /\ Key(j) \in Keys
        /\ DoneWith(j) \in RunType /\ InHand(DoneWith(j))
    BY <1>6, KindToDo, KindInHand DEF Upload
  <2>2. stored \in [Folders -> [Files -> Nat]]
    BY <2>1 DEF TInv
  <2>3. copies' \in [Folders -> [Files -> Nat]]
    BY <1>6, <2>2 DEF Upload, TInv
  <2>4. CASE Done(j) /\ index' = index \cup {Key(j)} /\ UNCHANGED past
    <3>1. run' = [run EXCEPT ![j] = DoneWith(j)] /\ index' \subseteq Keys
      BY <2>1, <2>4, KindInHand DEF TInv
    <3>2. QED
      BY <1>6, <2>1, <2>3, <2>4, <3>1, TypesFrom DEF Upload, TInv
  <2>5. CASE Goto(j, "fail") /\ Event(FALSE) /\ UNCHANGED index
    <3>1. run' = [run EXCEPT ![j] = Stopped(j)]
      BY <1>1, <2>5 DEF Goto, Stopped
    <3>2. Stopped(j) \in RunType /\ InHand(Stopped(j))
      BY <1>1, <2>1 DEF RunType, Steps, InHand, Stopped
    <3>3. QED
      BY <1>6, <2>3, <2>5, <3>1, <3>2, TypesFrom DEF Upload, TInv
  <2>6. QED
    BY <1>6, <2>4, <2>5 DEF Upload
<1>7. QED
  BY <1>2, <1>3, <1>4, <1>5, <1>6

LEMMA NoteEnds ==
  ASSUME TInv, NEW j \in Jobs, run[j].step \in {"kind", "fail"}
  PROVE  /\ Ended(j) \in RunType /\ InHand(Ended(j))
         /\ EndNote(j) => run' = [run EXCEPT ![j] = Ended(j)]
         /\ run[j].step = "kind" => run[j].folder \in Folders
         /\ Note(j) \in Notes /\ Note(j) \in run[j].todo
<1>1. run[j] \in RunType /\ InHand(run[j]) /\ run \in [Jobs -> RunType]
  BY InHandNow DEF TInv
<1>2. << >> \in Seq(Kinds)
  OBVIOUS
<1>3. Ended(j) \in RunType /\ InHand(Ended(j))
  BY <1>1, <1>2 DEF Ended, RunType, Steps, InHand, NoFolder
<1>4. EndNote(j) => run' = [run EXCEPT ![j] = Ended(j)]
  BY <1>1 DEF EndNote, Ended, RunType
<1>5. run[j].step = "kind" => run[j].folder \in Folders
  BY <1>1 DEF RunType, InHand
<1>6. Note(j) \in Notes /\ Note(j) \in run[j].todo
  BY <1>1, InHandNow DEF InHand
<1>7. QED
  BY <1>3, <1>4, <1>5, <1>6

LEMMA TypesRecord ==
  ASSUME TInv
  PROVE  /\ \A j \in Jobs : SaveRecord(j) \/ SaveFailure(j) => TInv'
         /\ \A j \in Jobs, n \in Notes : ClearRecord(j, n) => TInv'
         /\ Crash => TInv'
<1> USE TypesOfPast DEF drive, memory
<1>1. ASSUME NEW j \in Jobs, SaveRecord(j) PROVE TInv'
  <2>1. run[j].step = "kind" /\ run[j] \in RunType /\ InHand(run[j]) /\ run \in [Jobs -> RunType]
    BY <1>1, InHandNow DEF SaveRecord, At, TInv
  <2>2. CASE /\ record' = [record EXCEPT ![Note(j)][j] = run[j].folder]
             /\ EndNote(j) /\ UNCHANGED past
    <3>1. record' \in [Notes -> [Jobs -> {NoRecord, FailedRecord} \cup Folders]]
      BY <2>1, <2>2, NoteEnds DEF TInv
    <3>2. QED
      BY <1>1, <2>1, <2>2, <3>1, NoteEnds, TypesFrom DEF SaveRecord, TInv
  <2>3. CASE Goto(j, "fail") /\ Event(FALSE) /\ UNCHANGED record
    <3>1. run' = [run EXCEPT ![j] = Stopped(j)]
      BY <2>1, <2>3 DEF Goto, Stopped
    <3>2. Stopped(j) \in RunType /\ InHand(Stopped(j))
      BY <2>1 DEF RunType, Steps, InHand, Stopped
    <3>3. QED
      BY <1>1, <2>3, <3>1, <3>2, TypesFrom DEF SaveRecord, TInv
  <2>4. QED
    BY <1>1, <2>2, <2>3 DEF SaveRecord
<1>2. ASSUME NEW j \in Jobs, SaveFailure(j) PROVE TInv'
  <2>1. run[j].step = "fail"
    BY <1>2 DEF SaveFailure, At
  <2>2. record' \in [Notes -> [Jobs -> {NoRecord, FailedRecord} \cup Folders]]
    <3>1. record' = [record EXCEPT ![Note(j)][j] = FailedRecord] \/ record' = record
      BY <1>2 DEF SaveFailure
    <3>2. Note(j) \in Notes
      BY <2>1, NoteEnds
    <3>3. record \in [Notes -> [Jobs -> {NoRecord, FailedRecord} \cup Folders]]
      BY DEF TInv
    <3>4. CASE record' = [record EXCEPT ![Note(j)][j] = FailedRecord]
      <4>1. FailedRecord \in {NoRecord, FailedRecord} \cup Folders
        OBVIOUS
      <4> HIDE DEF FailedRecord
      <4>2. QED
        BY <3>2, <3>3, <3>4, <4>1
    <3>5. QED
      BY <3>1, <3>3, <3>4
  <2>3. QED
    BY <1>2, <2>1, <2>2, NoteEnds, TypesFrom DEF SaveFailure, TInv
<1>3. ASSUME NEW j \in Jobs, NEW n \in Notes, ClearRecord(j, n) PROVE TInv'
  <2>1. record' \in [Notes -> [Jobs -> {NoRecord, FailedRecord} \cup Folders]]
    BY <1>3 DEF ClearRecord, TInv
  <2>2. QED
    BY <1>3, <2>1 DEF ClearRecord, TInv
<1>4. ASSUME Crash PROVE TInv'
  <2>1. Idle \in RunType /\ InHand(Idle)
    BY DEF Idle, RunType, Steps, InHand, NoFolder
  <2>2. /\ folderCache' \in [Persons -> {NoFolder} \cup Folders]
        /\ nameCache' \in [Folders -> {Unlisted} \cup SUBSET Files] /\ index' \subseteq Keys
        /\ run' \in [Jobs -> RunType] /\ \A j \in Jobs : InHand(run'[j])
    <3>1. run' \in [Jobs -> RunType] /\ \A j \in Jobs : run'[j] = Idle
      BY <1>4, <2>1 DEF Crash
    <3>2. \A j \in Jobs : InHand(run'[j])
      BY <2>1, <3>1
    <3>3. QED
      BY <1>4, <3>1, <3>2 DEF Crash
  <2>3. QED
    BY <1>4, <2>2 DEF Crash, TInv
<1>5. QED
  BY <1>1, <1>2, <1>3, <1>4

LEMMA TypesStep == TInv /\ [Next]_vars => TInv'
<1>1. SUFFICES ASSUME TInv, [Next]_vars PROVE TInv'
  OBVIOUS
<1>2. CASE UNCHANGED vars
  BY <1>1, <1>2 DEF TInv, vars, drive, memory, past
<1>3. CASE Next
  BY <1>1, <1>3, TypesRun, TypesFolder, TypesKind, TypesRecord DEF Next, Progress
<1>4. QED
  BY <1>1, <1>2, <1>3

-----------------------------------------------------------------------------
(* The strengthenings.                                                     *)

Active == {j \in Jobs : ~At(j, "idle")}

(* The caches are this run's own, and then the index as well.              *)
Cleared(j) == run[j].step \notin {"idle", "archived", "clear"}
Loaded(j)  == Cleared(j) /\ ~At(j, "index")

(* A run that is alone knows every folder, unless it was told too little.  *)
AloneInv ==
    ~overlapped =>
        /\ \A i, j \in Active : i = j
        /\ ~blind =>
              /\ \A f, g \in Folders : owners[f] = owners[g] /\ owners[f] # Nobody => f = g
              /\ \A j \in Jobs : At(j, "folders") =>
                    \A f \in Folders : owners[f] # Nobody => f \in run[j].seen
              /\ \A j \in Jobs : At(j, "create") =>
                    \A f \in Folders : owners[f] # Owner[Note(j)]

(* Who may yet put a copy of x into f: a run on its way to upload it, one   *)
(* with a listing from before it was there, and whoever finds it missing   *)
(* in the names the cache has.                                             *)
Pending(f, x) ==
    {j \in Jobs : \/ At(j, "upload") /\ run[j].folder = f /\ File(j) = x
                  \/ At(j, "names") /\ run[j].folder = f /\ x \notin run[j].seen}

Hole(f, x) == nameCache[f] # Unlisted /\ x \notin nameCache[f]

MostCopies == IF overlapped THEN Cardinality(Jobs) ELSE 1

CopiesInv ==
    ~blind => \A f \in Folders, x \in Files :
        copies[f][x] + Cardinality(Pending(f, x)) + (IF Hole(f, x) THEN 1 ELSE 0) <= MostCopies

(* What a run that is alone has in its caches is true: a name without its   *)
(* file is of a note it will not come to any more, and the kinds it is done *)
(* with are there.                                                         *)
Here(key) == Present(key[1], key[2], key[3])

ToGo(j) == {run[j].left[i] : i \in DOMAIN run[j].left}

TrueRecords == \A key \in Recorded : Here(key)

FreshNames == \A j \in Jobs : At(j, "index") => \A f \in Folders : nameCache[f] = Unlisted

TrueIndex == \A j \in Jobs : Cleared(j) => \A key \in index : Here(key)

TrueNames ==
    \A j \in Jobs : Cleared(j) =>
        \A f \in Folders, x \in Files :
            x \in nameCache[f] /\ copies[f][x] = 0 =>
                \/ x[1] \notin run[j].todo
                \/ At(j, "fail") /\ x[1] = Note(j)
                \/ At(j, "upload") /\ x = File(j) /\ f = run[j].folder

DoneIsThere ==
    \A j \in Jobs : run[j].step \in {"kind", "names", "upload"} =>
        \A k \in Kinds : k \notin ToGo(j) /\ Text[Note(j)][k] # Empty
                           => \/ Here(<<run[j].folder, k, Text[Note(j)][k]>>)
                              \/ j \in unread /\ k \in OfBody

TrueListing ==
    \A j \in Jobs : At(j, "names") => \A x \in run[j].seen : copies[run[j].folder][x] > 0

TruthInv == ~overlapped => /\ TrueRecords /\ FreshNames /\ TrueIndex
                           /\ TrueNames /\ DoneIsThere /\ TrueListing

(* As long as nothing went wrong, what was uploaded is in the records, or   *)
(* in the index of the run that is under way, and the index has nothing     *)
(* else than the records and the note in hand.                             *)
KeyOf(f, x) == <<f, x[2], Text[x[1]][x[2]]>>

OnRecord ==
    \A f \in Folders, x \in Files : copies[f][x] > 0 =>
        IF \E j \in Jobs : Loaded(j) THEN KeyOf(f, x) \in index ELSE KeyOf(f, x) \in Recorded

OneOfAKind ==
    \A f \in Folders, x, y \in Files :
        copies[f][x] > 0 /\ copies[f][y] > 0 /\ KeyOf(f, x) = KeyOf(f, y) => x = y

SeenAll ==
    \A j \in Jobs : run[j].step \in {"clear", "index"} =>
        \A n \in Notes : Succeeded(n, j) => n \in run[j].seen

ToDoIsNew == \A j \in Jobs : \A n \in run[j].todo : ~Succeeded(n, j)

IndexIsKnown ==
    \A j \in Jobs : Loaded(j) => \A key \in index :
        \/ key \in Recorded
        \/ /\ run[j].step \in {"kind", "names", "upload"}
           /\ key[1] = run[j].folder /\ key[3] = Text[Note(j)][key[2]]

(* No body was left out of what it was read for.                            *)
AllRead == unread = {} /\ partial = {}

Once ==
    /\ AllRead
    /\ \A j \in Jobs : ~At(j, "fail")
    /\ OnRecord /\ OneOfAKind
    /\ \A j \in Jobs : At(j, "index") => index = {}
    /\ SeenAll /\ ToDoIsNew /\ IndexIsKnown
    /\ \A j \in Jobs : At(j, "names") \/ At(j, "upload") => Key(j) \notin index

OnceInv == ~overlapped /\ events = 0 => Once

-----------------------------------------------------------------------------
(* What each step does to the run it is a step of, field by field.         *)
Only(j) == \A i \in Jobs \ {j} : run'[i] = run[i]

From(j, s, t) == run[j].step = s /\ run'[j].step = t /\ Only(j)

Keeps(j) == /\ run'[j].todo = run[j].todo /\ run'[j].folder = run[j].folder
            /\ run'[j].left = run[j].left

Begins(j) == /\ run'[j].todo = run[j].todo /\ run'[j].folder \in Folders
             /\ \/ run'[j].left = KindOrder /\ unread' = unread \ {j} /\ UNCHANGED past
                \/ run'[j].left = OwnOrder /\ unread' = unread \cup {j} /\ Event(FALSE)

OneKindLess(j) == /\ run[j].left # << >>
                  /\ run'[j].todo = run[j].todo /\ run'[j].folder = run[j].folder
                  /\ run'[j].left = Tail(run[j].left)

LEMMA FieldsOf ==
  ASSUME TInv, NEW j \in Jobs, NEW r \in RunType, run' = [run EXCEPT ![j] = r]
  PROVE  Only(j) /\ run'[j] = r
  BY DEF TInv, Only

LEMMA Fields ==
  ASSUME TInv, NEW j \in Jobs
  PROVE  /\ \A s \in Steps : Goto(j, s) =>
              run'[j].step = s /\ Keeps(j) /\ Only(j) /\ run'[j].seen = run[j].seen
         /\ \A s \in Steps, S \in SUBSET (Notes \cup Folders \cup Files) :
              run' = [run EXCEPT ![j].step = s, ![j].seen = S] =>
                 run'[j].step = s /\ Keeps(j) /\ Only(j) /\ run'[j].seen = S
         /\ \A f \in Folders : BeginNote(j, f) => run'[j].step = "kind" /\ Begins(j) /\ Only(j)
         /\ Done(j) => run'[j].step = "kind" /\ Only(j) /\ run'[j].todo = run[j].todo
                       /\ run'[j].folder = run[j].folder /\ run'[j].left = Tail(run[j].left)
         /\ EndNote(j) => run'[j].step = "note" /\ Only(j)
                          /\ run'[j].todo = run[j].todo \ {Note(j)}
         /\ run' = [run EXCEPT ![j] = Idle] => run'[j] = Idle /\ Only(j)
<1>1. run[j] \in RunType /\ run \in [Jobs -> RunType]
  BY DEF TInv
<1>2. ASSUME NEW s \in Steps, Goto(j, s)
      PROVE  run'[j].step = s /\ Keeps(j) /\ Only(j) /\ run'[j].seen = run[j].seen
  BY <1>1, <1>2 DEF Goto, Keeps, Only, RunType
<1>3. ASSUME NEW s \in Steps, NEW S \in SUBSET (Notes \cup Folders \cup Files),
             run' = [run EXCEPT ![j].step = s, ![j].seen = S]
      PROVE  run'[j].step = s /\ Keeps(j) /\ Only(j) /\ run'[j].seen = S
  BY <1>1, <1>3 DEF Keeps, Only, RunType
<1>4. ASSUME NEW f \in Folders, BeginNote(j, f)
      PROVE  run'[j].step = "kind" /\ Begins(j) /\ Only(j)
  <2>1. ASSUME NEW kinds, Begin(j, f, kinds)
        PROVE  /\ run'[j].step = "kind" /\ Only(j) /\ run'[j].todo = run[j].todo
               /\ run'[j].folder = f /\ run'[j].left = kinds
    BY <1>1, <2>1 DEF Begin, Only, RunType
  <2>2. CASE Begin(j, f, KindOrder) /\ unread' = unread \ {j} /\ UNCHANGED past
    BY <2>1, <2>2 DEF Begins
  <2>3. CASE Begin(j, f, OwnOrder) /\ unread' = unread \cup {j} /\ Event(FALSE)
    BY <2>1, <2>3 DEF Begins
  <2>4. QED
    BY <1>4, <2>2, <2>3 DEF BeginNote
<1>5. ASSUME Done(j)
      PROVE  /\ run'[j].step = "kind" /\ Only(j) /\ run'[j].todo = run[j].todo
             /\ run'[j].folder = run[j].folder /\ run'[j].left = Tail(run[j].left)
  BY <1>1, <1>5 DEF Done, Only, RunType
<1>6. ASSUME EndNote(j)
      PROVE  run'[j].step = "note" /\ Only(j) /\ run'[j].todo = run[j].todo \ {Note(j)}
  BY <1>1, <1>6 DEF EndNote, Only, RunType
<1>7. ASSUME run' = [run EXCEPT ![j] = Idle]
      PROVE  run'[j] = Idle /\ Only(j)
  BY <1>1, <1>7 DEF Only
<1>8. QED
  BY <1>2, <1>3, <1>4, <1>5, <1>6, <1>7

LEMMA RunMoves ==
  ASSUME TInv, NEW j \in Jobs
  PROVE  /\ Start(j) => From(j, "idle", "archived") /\ Keeps(j)
         /\ GiveUp(j) => From(j, "archived", "idle") /\ run'[j].todo = {}
         /\ LoadArchived(j) => /\ From(j, "archived", "clear") /\ Keeps(j)
                               /\ \/ run'[j].seen = {n \in Notes : Succeeded(n, j)} /\ UNCHANGED past
                                  \/ Event(FALSE)
         /\ ClearCaches(j) => From(j, "clear", "index") /\ Keeps(j) /\ run'[j].seen = run[j].seen
         /\ LoadIndex(j) => From(j, "index", "note") /\ run'[j].todo \subseteq Fresh(j)
         /\ Finish(j) => From(j, "note", "idle") /\ run'[j].todo = {}
<1>1. run[j] \in RunType /\ run \in [Jobs -> RunType] /\ InHand(run[j])
  BY DEF TInv
<1>2. Idle.step = "idle" /\ Idle.todo = {}
  BY DEF Idle
<1>3. {"archived", "clear", "index", "note"} \subseteq Steps
  BY DEF Steps
<1>4. Start(j) => From(j, "idle", "archived") /\ Keeps(j)
  BY <1>3, Fields DEF Start, From, At
<1>5. GiveUp(j) => From(j, "archived", "idle") /\ run'[j].todo = {}
  BY <1>2, Fields DEF GiveUp, From, At
<1>6. Finish(j) => From(j, "note", "idle") /\ run'[j].todo = {}
  BY <1>2, Fields DEF Finish, From, At
<1>7. ClearCaches(j) => From(j, "clear", "index") /\ Keeps(j) /\ run'[j].seen = run[j].seen
  BY <1>3, Fields DEF ClearCaches, From, At
<1>8. ASSUME LoadArchived(j)
      PROVE  /\ From(j, "archived", "clear") /\ Keeps(j)
             /\ \/ run'[j].seen = {n \in Notes : Succeeded(n, j)} /\ UNCHANGED past
                \/ Event(FALSE)
  <2>1. CASE /\ run' = [run EXCEPT ![j].step = "clear", ![j].seen = {n \in Notes : Succeeded(n, j)}]
             /\ UNCHANGED past
    <3> DEFINE S == {n \in Notes : Succeeded(n, j)}
    <3>1. S \in SUBSET (Notes \cup Folders \cup Files)
      OBVIOUS
    <3> HIDE DEF S
    <3>2. run'[j].step = "clear" /\ Keeps(j) /\ Only(j) /\ run'[j].seen = S
      <4>1. run' = [run EXCEPT ![j].step = "clear", ![j].seen = S]
        BY <2>1 DEF S
      <4>2. QED
        BY <4>1, <3>1, <1>3, Fields
    <3>3. QED
      BY <1>8, <2>1, <3>2 DEF LoadArchived, From, At, S
  <2>2. CASE run' = [run EXCEPT ![j].step = "clear"] /\ Event(FALSE)
    BY <1>3, <1>8, <2>2, Fields DEF LoadArchived, From, At, Goto
  <2>3. QED
    BY <1>8, <2>1, <2>2 DEF LoadArchived
<1>9. ASSUME LoadIndex(j)
      PROVE  From(j, "index", "note") /\ run'[j].todo \subseteq Fresh(j)
  <2>1. PICK todo \in SUBSET Fresh(j) :
          run' = [run EXCEPT ![j].step = "note", ![j].seen = {}, ![j].todo = todo]
    BY <1>9 DEF LoadIndex
  <2>2. QED
    BY <1>1, <1>9, <2>1 DEF LoadIndex, From, At, Only, RunType
<1>10. QED
  BY <1>4, <1>5, <1>6, <1>7, <1>8, <1>9

LEMMA FolderMoves ==
  ASSUME TInv, NEW j \in Jobs
  PROVE  /\ FolderKnown(j) => From(j, "note", "kind") /\ Begins(j)
         /\ ListFolders(j) =>
              /\ Keeps(j)
              /\ \/ /\ From(j, "note", "folders")
                    /\ \/ run'[j].seen = {f \in Folders : owners[f] # Nobody} /\ UNCHANGED past
                       \/ Event(TRUE)
                 \/ From(j, "note", "fail") /\ Event(FALSE)
         /\ UseFolders(j) => \/ From(j, "folders", "kind") /\ Begins(j)
                             \/ /\ From(j, "folders", "create") /\ Keeps(j)
                                /\ \A f \in run[j].seen : owners[f] # Owner[Note(j)]
         /\ CreateFolder(j) => \/ From(j, "create", "kind") /\ Begins(j)
                               \/ From(j, "create", "fail") /\ Keeps(j) /\ Event(FALSE)
<1>1. run[j] \in RunType /\ run \in [Jobs -> RunType] /\ InHand(run[j])
  BY DEF TInv
<1>2. {"folders", "fail", "create", "kind"} \subseteq Steps
  BY DEF Steps
<1>3. ASSUME FolderKnown(j) PROVE From(j, "note", "kind") /\ Begins(j)
  <2>1. folderCache[Owner[Note(j)]] \in Folders
    BY <1>1, <1>3, InHandNow DEF FolderKnown, TInv
  <2>2. QED
    BY <1>3, <2>1, Fields DEF FolderKnown, From, At
<1>4. ASSUME ListFolders(j)
      PROVE  /\ Keeps(j)
             /\ \/ /\ From(j, "note", "folders")
                   /\ \/ run'[j].seen = {f \in Folders : owners[f] # Nobody} /\ UNCHANGED past
                      \/ Event(TRUE)
                \/ From(j, "note", "fail") /\ Event(FALSE)
  <2> DEFINE S == {f \in Folders : owners[f] # Nobody}
  <2>1. CASE run' = [run EXCEPT ![j].step = "folders", ![j].seen = S] /\ UNCHANGED past
    <3>1. S \in SUBSET (Notes \cup Folders \cup Files)
      OBVIOUS
    <3> HIDE DEF S
    <3>2. run'[j].step = "folders" /\ Keeps(j) /\ Only(j) /\ run'[j].seen = S
      BY <1>2, <2>1, <3>1, Fields
    <3>3. QED
      BY <1>4, <2>1, <3>2 DEF ListFolders, From, At, S
  <2>2. CASE run' = [run EXCEPT ![j].step = "folders"] /\ Event(TRUE)
    BY <1>2, <1>4, <2>2, Fields DEF ListFolders, From, At, Goto
  <2>3. CASE Goto(j, "fail") /\ Event(FALSE)
    BY <1>2, <1>4, <2>3, Fields DEF ListFolders, From, At
  <2>4. QED
    BY <1>4, <2>1, <2>2, <2>3 DEF ListFolders
<1>5. ASSUME UseFolders(j)
      PROVE  \/ From(j, "folders", "kind") /\ Begins(j)
             \/ /\ From(j, "folders", "create") /\ Keeps(j)
                /\ \A f \in run[j].seen : owners[f] # Owner[Note(j)]
  <2> DEFINE f == folderCache'[Owner[Note(j)]]
             p == Owner[Note(j)]
             theirs == {g \in run[j].seen : owners[g] = p}
  <2>1. run[j].todo # {} /\ run[j].step = "folders"
    BY <1>1, <1>5 DEF UseFolders, At, InHand
  <2>2. p \in Persons
    BY <2>1, InHandNow
  <2>3. f \in {NoFolder} \cup Folders
    BY <1>5, <2>2 DEF UseFolders
  <2>4. CASE f # NoFolder
    <3>1. BeginNote(j, f)
      BY <1>5, <2>4 DEF UseFolders
    <3>2. QED
      BY <2>1, <2>3, <2>4, <3>1, Fields DEF From
  <2>5. CASE f = NoFolder
    <3>1. run' = [run EXCEPT ![j].step = "create", ![j].seen = {}]
      BY <1>5, <2>5 DEF UseFolders
    <3>2. run'[j].step = "create" /\ Keeps(j) /\ Only(j)
      <4>1. {} \in SUBSET (Notes \cup Folders \cup Files)
        OBVIOUS
      <4> HIDE DEF f, p, theirs
      <4>2. QED
        BY <1>2, <3>1, <4>1, Fields
    <3>3. IF folderCache[p] # NoFolder \/ theirs = {} THEN f = folderCache[p] ELSE f \in theirs
      BY <1>5, <2>2 DEF UseFolders
    <3>4. theirs = {}
      <4>1. NoFolder \notin run[j].seen
        BY <1>1, <2>1 DEF InHand, NoFolder, Folders
      <4>2. QED
        BY <2>5, <3>3, <4>1
    <3>5. QED
      BY <2>1, <3>2, <3>4 DEF From
  <2>6. QED
    BY <2>4, <2>5
<1>6. ASSUME CreateFolder(j)
      PROVE  \/ From(j, "create", "kind") /\ Begins(j)
             \/ From(j, "create", "fail") /\ Keeps(j) /\ Event(FALSE)
  <2>1. CASE \E f \in Folders : BeginNote(j, f)
    BY <1>6, <2>1, Fields DEF CreateFolder, From, At
  <2>2. CASE Goto(j, "fail") /\ Event(FALSE)
    BY <1>2, <1>6, <2>2, Fields DEF CreateFolder, From, At
  <2>3. QED
    BY <1>6, <2>1, <2>2 DEF CreateFolder
<1>7. QED
  BY <1>3, <1>4, <1>5, <1>6

(* A look at the names: the kind is done with, or goes on to its upload.   *)
LEMMA CheckNameMoves ==
  ASSUME TInv, NEW j \in Jobs, run[j].step \in {"kind", "names"}, run[j].left # << >>,
         Text[Note(j)][Kind(j)] # Empty, NEW names \in SUBSET Files, CheckName(j, names)
  PROVE  /\ Only(j)
         /\ \/ /\ File(j) \in names
               /\ nameCache' = [nameCache EXCEPT ![run[j].folder] = names]
               /\ index' = index \cup {Key(j)}
               /\ run'[j].step = "kind" /\ OneKindLess(j)
            \/ /\ File(j) \notin names
               /\ nameCache' = [nameCache EXCEPT ![run[j].folder] = names \cup {File(j)}]
               /\ index' = index
               /\ run'[j].step = "upload" /\ Keeps(j)
<1>1. /\ run[j] \in RunType /\ DoneWith(j) \in RunType /\ ToUpload(j) \in RunType
  BY InHandNow, KindInHand
<1>2. run' = [run EXCEPT ![j] = DoneWith(j)] =>
         run'[j].step = "kind" /\ OneKindLess(j) /\ Only(j)
  <2>1. run' = [run EXCEPT ![j] = DoneWith(j)] => Only(j) /\ run'[j] = DoneWith(j)
    BY <1>1, FieldsOf
  <2>2. /\ DoneWith(j).step = "kind" /\ DoneWith(j).todo = run[j].todo
        /\ DoneWith(j).folder = run[j].folder /\ DoneWith(j).left = Tail(run[j].left)
    BY <1>1 DEF DoneWith, RunType
  <2>3. QED
    BY <2>1, <2>2 DEF OneKindLess
<1>3. run' = [run EXCEPT ![j] = ToUpload(j)] =>
         run'[j].step = "upload" /\ Keeps(j) /\ Only(j)
  <2>1. run' = [run EXCEPT ![j] = ToUpload(j)] => Only(j) /\ run'[j] = ToUpload(j)
    BY <1>1, FieldsOf
  <2>2. /\ ToUpload(j).step = "upload" /\ ToUpload(j).todo = run[j].todo
        /\ ToUpload(j).folder = run[j].folder /\ ToUpload(j).left = run[j].left
    BY <1>1 DEF ToUpload, RunType
  <2>3. QED
    BY <2>1, <2>2 DEF Keeps
<1>4. QED
  BY <1>2, <1>3, CheckNameDoes

LEMMA KindMoves ==
  ASSUME TInv, NEW j \in Jobs
  PROVE  /\ SkipKind(j) => From(j, "kind", "kind") /\ OneKindLess(j)
         /\ ListNames(j) =>
              /\ From(j, "kind", "names") /\ Keeps(j)
              /\ \/ /\ run'[j].seen = {x \in Files : copies[run[j].folder][x] > 0}
                    /\ UNCHANGED past
                 \/ run'[j].seen = {} /\ Event(TRUE)
         /\ Upload(j) => \/ /\ From(j, "upload", "kind") /\ OneKindLess(j) /\ UNCHANGED past
                            /\ index' = index \cup {Key(j)}
                            /\ copies' = [copies EXCEPT ![run[j].folder][File(j)] = @ + 1]
                         \/ /\ From(j, "upload", "fail") /\ Keeps(j) /\ Event(FALSE)
                            /\ index' = index
         /\ SaveRecord(j) => \/ /\ From(j, "kind", "note") /\ run[j].left = << >>
                                /\ run'[j].todo = run[j].todo \ {Note(j)}
                                /\ record' = [record EXCEPT ![Note(j)][j] = run[j].folder]
                                /\ UNCHANGED past
                             \/ /\ From(j, "kind", "fail") /\ Keeps(j) /\ Event(FALSE)
                                /\ record' = record
         /\ SaveFailure(j) => From(j, "fail", "note") /\ run'[j].todo = run[j].todo \ {Note(j)}
<1>1. run[j] \in RunType /\ run \in [Jobs -> RunType] /\ InHand(run[j])
  BY DEF TInv
<1>2. {"names", "fail"} \subseteq Steps
  BY DEF Steps
<1>3. SkipKind(j) => From(j, "kind", "kind") /\ OneKindLess(j)
  BY KindToDo, Fields DEF SkipKind, From, OneKindLess
<1>4. ASSUME ListNames(j)
      PROVE  /\ From(j, "kind", "names") /\ Keeps(j)
             /\ \/ /\ run'[j].seen = {x \in Files : copies[run[j].folder][x] > 0}
                   /\ UNCHANGED past
                \/ run'[j].seen = {} /\ Event(TRUE)
  <2> DEFINE S == {x \in Files : copies[run[j].folder][x] > 0}
  <2>1. run[j].step = "kind" /\ run[j].seen = {}
    BY <1>1, <1>4, KindToDo DEF ListNames, InHand
  <2>2. CASE run' = [run EXCEPT ![j].step = "names", ![j].seen = S] /\ UNCHANGED past
    <3>1. S \in SUBSET (Notes \cup Folders \cup Files)
      OBVIOUS
    <3> HIDE DEF S
    <3>2. run'[j].step = "names" /\ Keeps(j) /\ Only(j) /\ run'[j].seen = S
      BY <1>2, <2>2, <3>1, Fields
    <3>3. QED
      BY <2>1, <2>2, <3>2 DEF From, S
  <2>3. CASE run' = [run EXCEPT ![j].step = "names"] /\ Event(TRUE)
    BY <1>2, <2>1, <2>3, Fields DEF From, Goto
  <2>4. QED
    BY <1>4, <2>2, <2>3 DEF ListNames
<1>5. ASSUME Upload(j)
      PROVE  \/ /\ From(j, "upload", "kind") /\ OneKindLess(j) /\ UNCHANGED past
                /\ index' = index \cup {Key(j)}
                /\ copies' = [copies EXCEPT ![run[j].folder][File(j)] = @ + 1]
             \/ /\ From(j, "upload", "fail") /\ Keeps(j) /\ Event(FALSE)
                /\ index' = index
  <2>1. run[j].step = "upload" /\ run[j].left # << >>
    BY <1>5, KindToDo DEF Upload
  <2>2. CASE /\ Done(j) /\ UNCHANGED past /\ index' = index \cup {Key(j)}
             /\ copies' = [copies EXCEPT ![run[j].folder][File(j)] = @ + 1]
    BY <2>1, <2>2, Fields DEF From, OneKindLess
  <2>3. CASE Goto(j, "fail") /\ Event(FALSE) /\ UNCHANGED index
    BY <1>2, <2>1, <2>3, Fields DEF From
  <2>4. QED
    BY <1>5, <2>2, <2>3 DEF Upload
<1>6. ASSUME SaveRecord(j)
      PROVE  \/ /\ From(j, "kind", "note") /\ run[j].left = << >>
                /\ run'[j].todo = run[j].todo \ {Note(j)}
                /\ record' = [record EXCEPT ![Note(j)][j] = run[j].folder]
                /\ UNCHANGED past
             \/ /\ From(j, "kind", "fail") /\ Keeps(j) /\ Event(FALSE)
                /\ record' = record
  BY <1>2, <1>6, Fields DEF SaveRecord, From, At
<1>7. SaveFailure(j) => From(j, "fail", "note") /\ run'[j].todo = run[j].todo \ {Note(j)}
  BY Fields DEF SaveFailure, From, At
<1>8. QED
  BY <1>3, <1>4, <1>5, <1>6, <1>7

LEMMA NameMoves ==
  ASSUME TInv, NEW j \in Jobs, NameKnown(j) \/ UseNames(j)
  PROVE  /\ Only(j) /\ run[j].left # << >> /\ Text[Note(j)][Kind(j)] # Empty
         /\ UNCHANGED <<drive, record, folderCache, past>>
         /\ \E names \in SUBSET Files :
              /\ \/ /\ Wanted(j) /\ run[j].step = "kind"
                    /\ names = nameCache[run[j].folder] /\ names # Unlisted
                 \/ run[j].step = "names" /\ names = run[j].seen
              /\ \/ /\ File(j) \in names
                    /\ nameCache' = [nameCache EXCEPT ![run[j].folder] = names]
                    /\ index' = index \cup {Key(j)}
                    /\ run'[j].step = "kind" /\ OneKindLess(j)
                 \/ /\ File(j) \notin names
                    /\ nameCache' = [nameCache EXCEPT ![run[j].folder] = names \cup {File(j)}]
                    /\ index' = index
                    /\ run'[j].step = "upload" /\ Keeps(j)
<1>1. CASE NameKnown(j)
  <2>1. /\ run[j].step = "kind" /\ run[j].left # << >> /\ Text[Note(j)][Kind(j)] # Empty
        /\ Wanted(j) /\ CheckName(j, nameCache[run[j].folder])
        /\ nameCache[run[j].folder] # Unlisted
        /\ UNCHANGED <<drive, record, folderCache, past>>
    BY <1>1, KindToDo DEF NameKnown
  <2>2. nameCache[run[j].folder] \in SUBSET Files
    BY <1>1, <2>1, KindInHand DEF NameKnown, TInv
  <2>3. QED
    BY <2>1, <2>2, CheckNameMoves
<1>2. CASE UseNames(j)
  <2>1. /\ run[j].step = "names" /\ run[j].left # << >> /\ Text[Note(j)][Kind(j)] # Empty
        /\ run[j].seen \in SUBSET Files /\ CheckName(j, run[j].seen)
        /\ UNCHANGED <<drive, record, folderCache, past>>
    BY <1>2, KindToDo DEF UseNames
  <2>2. QED
    BY <2>1, CheckNameMoves
<1>3. QED
  BY <1>1, <1>2

(* The history and the clock of a step.                                    *)
LEMMA PastMoves ==
  ASSUME TInv
  PROVE  /\ UNCHANGED past => events' = events /\ blind' = blind /\ overlapped' = overlapped
         /\ \A dark \in BOOLEAN : Event(dark) =>
              events' > 0 /\ overlapped' = overlapped /\ (~blind' => ~blind /\ ~dark)
  BY DEF TInv, past, Event

-----------------------------------------------------------------------------
(* The step of a run that had started: what it leaves alone.               *)
Goes(j) == GiveUp(j) \/ Progress(j)

LEMMA StepOf ==
  ASSUME TInv, Next
  PROVE  \/ \E j \in Jobs : Start(j) \/ Goes(j)
         \/ \E j \in Jobs, n \in Notes : ClearRecord(j, n)
         \/ Crash
  BY DEF Next, Goes

LEMMA GoesIs ==
  ASSUME TInv, NEW j \in Jobs, Goes(j)
  PROVE  /\ Only(j) /\ j \in Active /\ overlapped' = overlapped
         /\ ~blind' => ~blind
         /\ events' = 0 => events = 0
         /\ CreateFolder(j) \/ owners' = owners
<1> USE RunMoves, FolderMoves, KindMoves DEF From
<1>1. Only(j) /\ run[j].step # "idle"
  <2>1. NameKnown(j) \/ UseNames(j) => Only(j) /\ run[j].step # "idle"
    BY NameMoves
  <2>2. QED
    BY <2>1 DEF Goes, Progress
<1>2. overlapped' = overlapped /\ (~blind' => ~blind) /\ (events' = 0 => events = 0)
  <2> DEFINE Mild == UNCHANGED past \/ \E dark \in BOOLEAN : Event(dark)
  <2>1. Mild
    <3>1. FolderKnown(j) \/ UseFolders(j) \/ CreateFolder(j) => Mild
      <4>1. \A f : BeginNote(j, f) => Mild
        BY DEF BeginNote
      <4>2. QED
        BY <4>1 DEF FolderKnown, UseFolders, CreateFolder
    <3>2. QED
      BY <3>1 DEF Goes, Progress, GiveUp, LoadArchived, ClearCaches, LoadIndex, Finish,
                  ListFolders, SkipKind, NameKnown, ListNames, UseNames, Upload, SaveRecord,
                  SaveFailure
  <2>2. QED
    BY <2>1, PastMoves
<1>3. CreateFolder(j) \/ owners' = owners
  BY DEF Goes, Progress, GiveUp, LoadArchived, ClearCaches, LoadIndex, Finish, FolderKnown,
         ListFolders, UseFolders, SkipKind, NameKnown, ListNames, UseNames, Upload, SaveRecord,
         SaveFailure, drive
<1>4. QED
  BY <1>1, <1>2, <1>3 DEF Active, At

(* At most one run is under way, as long as none overlapped.               *)
LEMMA ActiveMoves ==
  ASSUME TInv, TInv', AloneInv, Next, ~overlapped'
  PROVE  ~overlapped /\ \A i, j \in Active' : i = j
<1>1. ASSUME NEW j \in Jobs, Start(j) PROVE ~overlapped /\ \A i, k \in Active' : i = k
  <2>1. ~overlapped /\ \A i \in Jobs : run[i].step = "idle"
    BY <1>1 DEF Start, At, TInv
  <2>2. \A i \in Jobs \ {j} : run'[i] = run[i]
    BY <1>1, RunMoves DEF From, Only
  <2>3. QED
    BY <2>1, <2>2 DEF Active, At
<1>2. ASSUME NEW j \in Jobs, Goes(j) PROVE ~overlapped /\ \A i, k \in Active' : i = k
  <2>1. Only(j) /\ j \in Active /\ overlapped' = overlapped
    BY <1>2, GoesIs
  <2>2. QED
    BY <2>1 DEF AloneInv, Active, At, Only
<1>3. ASSUME NEW j \in Jobs, NEW n \in Notes, ClearRecord(j, n)
      PROVE  ~overlapped /\ \A i, k \in Active' : i = k
  BY <1>3 DEF ClearRecord, Event, AloneInv, Active, At
<1>4. ASSUME Crash PROVE ~overlapped /\ \A i, k \in Active' : i = k
  <2>1. ~overlapped /\ \A i \in Jobs : run'[i].step = "idle"
    BY <1>4 DEF Crash, Event, Idle
  <2>2. QED
    BY <2>1 DEF Active, At
<1>5. QED
  BY <1>1, <1>2, <1>3, <1>4, StepOf

(* Which step leads where.                                                 *)
LEMMA CameFrom ==
  ASSUME TInv, NEW j \in Jobs, Goes(j)
  PROVE  /\ run'[j].step # "archived"
         /\ run'[j].step = "clear"   => LoadArchived(j)
         /\ run'[j].step = "index"   => ClearCaches(j)
         /\ run'[j].step = "folders" => ListFolders(j)
         /\ run'[j].step = "create"  => UseFolders(j)
         /\ run'[j].step = "names"   => ListNames(j)
         /\ run'[j].step = "upload"  => NameKnown(j) \/ UseNames(j)
<1>1. NameKnown(j) \/ UseNames(j) => run'[j].step \in {"kind", "upload"}
  BY NameMoves
<1>2. QED
  BY <1>1, RunMoves, FolderMoves, KindMoves DEF Goes, Progress, From

(* While none overlaps, only the run of j is under way.                    *)
LEMMA Others ==
  ASSUME AloneInv, ~overlapped, NEW j \in Active
  PROVE  \A i \in Jobs \ {j} : run[i].step = "idle"
BY DEF AloneInv, Active, At

LEMMA AloneStart == Init => AloneInv
BY DEF Init, AloneInv, Active, At, Idle

LEMMA AloneGoes ==
  ASSUME TInv, TInv', AloneInv, NEW j \in Jobs, Goes(j), ~overlapped', ~blind'
  PROVE  /\ \A f, g \in Folders : owners'[f] = owners'[g] /\ owners'[f] # Nobody => f = g
         /\ \A i \in Jobs : At(i, "folders")' =>
               \A f \in Folders : owners'[f] # Nobody => f \in run'[i].seen
         /\ \A i \in Jobs : At(i, "create")' => \A f \in Folders : owners'[f] # Owner[Note(i)']
<1>1. /\ Only(j) /\ j \in Active /\ ~overlapped /\ ~blind
      /\ CreateFolder(j) \/ owners' = owners
  BY GoesIs
<1>2. \A i \in Jobs \ {j} : run'[i].step = "idle"
  BY <1>1, Others DEF Only
<1>3. \A f, g \in Folders : owners[f] = owners[g] /\ owners[f] # Nobody => f = g
  BY <1>1 DEF AloneInv
<1>4. \A f, g \in Folders : owners'[f] = owners'[g] /\ owners'[f] # Nobody => f = g
  <2>1. CASE CreateFolder(j)
    <3>1. \A f \in Folders : owners[f] # Owner[Note(j)]
      BY <1>1, <2>1 DEF AloneInv, CreateFolder
    <3>2. owners' = owners \/ \E f \in Folders : owners' = [owners EXCEPT ![f] = Owner[Note(j)]]
      BY <2>1 DEF CreateFolder
    <3>3. QED
      BY <1>3, <3>1, <3>2 DEF TInv
  <2>2. QED
    BY <1>1, <1>3, <2>1
<1>5. ASSUME NEW i \in Jobs, At(i, "folders")', NEW f \in Folders, owners'[f] # Nobody
      PROVE  f \in run'[i].seen
  <2>1. i = j /\ ListFolders(j)
    BY <1>2, <1>5, CameFrom DEF At
  <2>2. run'[j].seen = {g \in Folders : owners[g] # Nobody} /\ owners' = owners
    <3>1. ~Event(TRUE)
      BY PastMoves
    <3>2. QED
      BY <1>5, <2>1, <3>1, FolderMoves DEF ListFolders, drive, From, At
  <2>3. QED
    BY <1>5, <2>1, <2>2
<1>6. ASSUME NEW i \in Jobs, At(i, "create")', NEW f \in Folders
      PROVE  owners'[f] # Owner[Note(i)']
  <2>1. i = j /\ UseFolders(j)
    BY <1>2, <1>6, CameFrom DEF At
  <2>2. /\ run[j].step = "folders" /\ Keeps(j) /\ owners' = owners
        /\ \A g \in run[j].seen : owners[g] # Owner[Note(j)]
    BY <1>6, <2>1, FolderMoves DEF UseFolders, drive, From, At
  <2>3. Note(j)' = Note(j) /\ Owner[Note(j)] \in Persons
    BY <2>2, InHandNow DEF Keeps, Note, InHand
  <2>4. QED
    BY <1>1, <2>1, <2>2, <2>3, NobodyOwns DEF AloneInv, At
<1>7. QED
  BY <1>4, <1>5, <1>6

LEMMA AloneStep == TInv /\ TInv' /\ AloneInv /\ [Next]_vars => AloneInv'
<1>1. SUFFICES ASSUME TInv, TInv', AloneInv, [Next]_vars, ~overlapped' PROVE AloneInv'
  BY DEF AloneInv
<1>2. CASE UNCHANGED vars
  BY <1>1, <1>2 DEF AloneInv, Active, At, Note, vars, drive, memory, past
<1>3. CASE Next
  <2>1. ~overlapped /\ \A i, j \in Active' : i = j
    BY <1>1, <1>3, ActiveMoves
  <2>2. CASE \E j \in Jobs : Start(j)
    <3>1. PICK j \in Jobs : Start(j)
      BY <2>2
    <3>2. owners' = owners /\ blind' = blind
      BY <3>1 DEF Start, drive
    <3>3. \A i \in Jobs : run'[i].step \in {"folders", "create"} => run'[i] = run[i]
      BY <1>1, <3>1, RunMoves DEF From, Only
    <3>4. \A i \in Jobs : Note(i)' = First(run'[i].todo)
      BY DEF Note
    <3>5. QED
      BY <1>1, <2>1, <3>2, <3>3, <3>4 DEF AloneInv, At, Note
  <2>3. CASE \E j \in Jobs : Goes(j)
    <3>1. PICK j \in Jobs : Goes(j)
      BY <2>3
    <3>2. QED
      BY <1>1, <2>1, <3>1, AloneGoes DEF AloneInv
  <2>4. CASE \E j \in Jobs, n \in Notes : ClearRecord(j, n)
    <3>1. owners' = owners /\ run' = run /\ (~blind' => ~blind)
      BY <1>1, <2>4, PastMoves DEF ClearRecord, drive
    <3>2. QED
      BY <1>1, <2>1, <3>1 DEF AloneInv, At, Note
  <2>5. CASE Crash
    <3>1. owners' = owners /\ (~blind' => ~blind) /\ \A i \in Jobs : run'[i].step = "idle"
      BY <1>1, <2>5, PastMoves DEF Crash, drive, Idle
    <3>2. QED
      BY <1>1, <2>1, <3>1 DEF AloneInv, At
  <2>6. QED
    BY <1>1, <1>3, <2>2, <2>3, <2>4, <2>5, StepOf
<1>4. QED
  BY <1>1, <1>2, <1>3

-----------------------------------------------------------------------------
(* The copies of a file, and those that are still to come.                 *)
Waits(j, f, x) == IF j \in Pending(f, x) THEN 1 ELSE 0
Missing(f, x)  == IF Hole(f, x) THEN 1 ELSE 0

LEMMA PendingIsFinite ==
  ASSUME NEW f, NEW x
  PROVE  IsFiniteSet(Pending(f, x)) /\ Cardinality(Pending(f, x)) \in Nat
<1>1. Pending(f, x) \subseteq Jobs
  BY DEF Pending
<1>2. IsFiniteSet(Pending(f, x))
  BY <1>1, JobsFinite, FS_Subset
<1>3. QED
  BY <1>2, FS_CardinalityType

LEMMA PendingMoves ==
  ASSUME NEW j \in Jobs, Only(j), NEW f, NEW x
  PROVE  \E rest \in Nat : /\ Cardinality(Pending(f, x)) = rest + Waits(j, f, x)
                           /\ Cardinality(Pending(f, x)') = rest + Waits(j, f, x)'
<1> DEFINE P == Pending(f, x)
           Q == Pending(f, x)'
           R == P \ {j}
<1>1. IsFiniteSet(P) /\ IsFiniteSet(Q)
  <2>1. P \subseteq Jobs /\ Q \subseteq Jobs
    BY DEF Pending
  <2>2. QED
    BY <2>1, JobsFinite, FS_Subset
<1>2. R = Q \ {j}
  BY DEF Pending, Only, At, File, Note, Kind
<1>3. IsFiniteSet(R) /\ Cardinality(R) \in Nat
  BY <1>1, FS_Subset, FS_CardinalityType
<1>4. j \notin R
  OBVIOUS
<1>5. Cardinality(R \cup {j}) = Cardinality(R) + 1
  BY <1>3, <1>4, FS_AddElement
<1>6. Cardinality(P) = Cardinality(R) + Waits(j, f, x)
  <2>1. CASE j \in P
    <3>1. P = R \cup {j} /\ Waits(j, f, x) = 1
      BY <2>1 DEF Waits
    <3>2. QED
      BY <1>5, <3>1
  <2>2. CASE j \notin P
    <3>1. P = R /\ Waits(j, f, x) = 0
      BY <2>2 DEF Waits
    <3>2. QED
      BY <1>3, <3>1
  <2>3. QED
    BY <2>1, <2>2
<1>7. Cardinality(Q) = Cardinality(R) + Waits(j, f, x)'
  <2>1. CASE j \in Q
    <3>1. Q = R \cup {j} /\ Waits(j, f, x)' = 1
      BY <1>2, <2>1 DEF Waits
    <3>2. QED
      BY <1>5, <3>1
  <2>2. CASE j \notin Q
    <3>1. Q = R /\ Waits(j, f, x)' = 0
      BY <1>2, <2>2 DEF Waits
    <3>2. QED
      BY <1>3, <3>1
  <2>3. QED
    BY <2>1, <2>2
<1>8. QED
  BY <1>3, <1>6, <1>7

LEMMA JobsCount == Cardinality(Jobs) \in Nat /\ Cardinality(Jobs) >= 1
<1>1. PICK j \in Jobs : TRUE
  BY JobsFinite
<1>2. Cardinality({j}) = 1 /\ {j} \subseteq Jobs
  BY <1>1, FS_Singleton
<1>3. QED
  BY <1>2, JobsFinite, FS_Subset, FS_CardinalityType

FewPending == \A f \in Folders, x \in Files : Cardinality(Pending(f, x)) <= MostCopies

LEMMA MostIsEnough == AloneInv => FewPending
<1>1. SUFFICES ASSUME AloneInv PROVE \A f, x : Cardinality(Pending(f, x)) <= MostCopies
  BY DEF FewPending
<1>2. ASSUME NEW f, NEW x PROVE Cardinality(Pending(f, x)) <= MostCopies
  <2>1. Pending(f, x) \subseteq Active /\ Active \subseteq Jobs
    BY DEF Pending, Active, At
  <2>2. CASE overlapped
    <3>1. Cardinality(Pending(f, x)) <= Cardinality(Jobs)
      BY <2>1, JobsFinite, FS_Subset
    <3>2. QED
      BY <2>2, <3>1 DEF MostCopies
  <2>3. CASE ~overlapped
    <3>1. CASE Pending(f, x) = {}
      BY <2>3, <3>1, FS_EmptySet DEF MostCopies
    <3>2. CASE Pending(f, x) # {}
      <4>1. PICK j : j \in Pending(f, x)
        BY <3>2
      <4>2. Pending(f, x) = {j}
        BY <1>1, <2>1, <2>3, <4>1 DEF AloneInv
      <4>3. Cardinality({j}) = 1
        BY FS_Singleton
      <4>4. QED
        BY <2>3, <4>2, <4>3 DEF MostCopies
    <3>3. QED
      BY <3>1, <3>2
  <2>4. QED
    BY <2>2, <2>3
<1>3. QED
  BY <1>2

LEMMA MostGrows ==
  ASSUME overlapped => overlapped'
  PROVE  MostCopies \in Nat /\ MostCopies' \in Nat /\ MostCopies <= MostCopies'
BY JobsCount DEF MostCopies

(* The weight of a file in a folder, as far as the run of j adds to it.    *)
Weight(j, f, x) == copies[f][x] + Waits(j, f, x) + Missing(f, x)

LEMMA NamesWeight ==
  ASSUME TInv, TInv', NEW j \in Jobs, NameKnown(j) \/ UseNames(j),
         NEW f \in Folders, NEW x \in Files
  PROVE  Waits(j, f, x)' + Missing(f, x)' <= Waits(j, f, x) + Missing(f, x)
<1>1. PICK names \in SUBSET Files :
        /\ \/ /\ Wanted(j) /\ run[j].step = "kind"
              /\ names = nameCache[run[j].folder] /\ names # Unlisted
           \/ run[j].step = "names" /\ names = run[j].seen
        /\ \/ /\ File(j) \in names
              /\ nameCache' = [nameCache EXCEPT ![run[j].folder] = names]
              /\ index' = index \cup {Key(j)}
              /\ run'[j].step = "kind" /\ OneKindLess(j)
           \/ /\ File(j) \notin names
              /\ nameCache' = [nameCache EXCEPT ![run[j].folder] = names \cup {File(j)}]
              /\ index' = index
              /\ run'[j].step = "upload" /\ Keeps(j)
  BY NameMoves
<1>2. run[j].left # << >> /\ run[j].folder \in Folders /\ nameCache \in [Folders -> {Unlisted} \cup SUBSET Files]
  BY <1>1, NameMoves, KindInHand DEF TInv
<1>3. CASE f # run[j].folder
  <2>1. nameCache'[f] = nameCache[f] /\ run'[j].folder = run[j].folder
    BY <1>1, <1>2, <1>3 DEF OneKindLess, Keeps
  <2>2. Waits(j, f, x) = 0 /\ Waits(j, f, x)' = 0
    BY <1>3, <2>1 DEF Waits, Pending
  <2>3. Missing(f, x)' = Missing(f, x)
    BY <2>1 DEF Missing, Hole
  <2>4. QED
    BY <2>2, <2>3 DEF Missing
<1>4. CASE f = run[j].folder
  <2>1. x \in names => Missing(f, x)' = 0
    BY <1>1, <1>2, <1>4 DEF Missing, Hole
  <2>2. x \notin names => Waits(j, f, x) + Missing(f, x) >= 1
    <3>1. CASE run[j].step = "kind" /\ names = nameCache[f] /\ names # Unlisted
      BY <3>1 DEF Missing, Hole, Waits
    <3>2. CASE run[j].step = "names" /\ names = run[j].seen
      BY <1>4, <3>2 DEF Missing, Waits, Pending, At
    <3>3. QED
      BY <1>1, <1>4, <3>1, <3>2
  <2>3. CASE File(j) \in names /\ run'[j].step = "kind"
    <3>1. Waits(j, f, x)' = 0
      BY <2>3 DEF Waits, Pending, At
    <3>2. QED
      BY <2>1, <2>2, <3>1 DEF Missing, Waits
  <2>4. CASE /\ File(j) \notin names /\ run'[j].step = "upload" /\ Keeps(j)
             /\ nameCache' = [nameCache EXCEPT ![run[j].folder] = names \cup {File(j)}]
    <3>1. File(j)' = File(j)
      BY <2>4 DEF Keeps, File, Note, Kind
    <3>2. CASE x = File(j)
      <4>1. Missing(f, x)' = 0
        BY <1>2, <1>4, <2>4, <3>2 DEF Missing, Hole
      <4>2. QED
        BY <2>2, <2>4, <3>2, <4>1 DEF Waits, Missing
    <3>3. CASE x # File(j)
      <4>1. Waits(j, f, x)' = 0
        BY <2>4, <3>1, <3>3 DEF Waits, Pending, At
      <4>2. QED
        BY <2>1, <2>2, <4>1 DEF Waits, Missing
    <3>4. QED
      BY <3>2, <3>3
  <2>5. QED
    BY <1>1, <2>3, <2>4
<1>5. QED
  BY <1>3, <1>4

LEMMA GoesWeight ==
  ASSUME TInv, TInv', NEW j \in Jobs, Goes(j), ~blind', NEW f \in Folders, NEW x \in Files
  PROVE  \/ Weight(j, f, x)' <= Weight(j, f, x)
         \/ copies'[f][x] = 0 /\ Missing(f, x)' = 0
<1>1. /\ copies[f][x] \in Nat /\ copies'[f][x] \in Nat
      /\ Waits(j, f, x) \in {0, 1} /\ Waits(j, f, x)' \in {0, 1}
      /\ Missing(f, x) \in {0, 1} /\ Missing(f, x)' \in {0, 1}
  BY DEF TInv, Waits, Missing
<1>2. run[j].step \notin {"names", "upload"} => Waits(j, f, x) = 0
  BY DEF Waits, Pending, At
<1>3. run'[j].step \notin {"names", "upload"} => Waits(j, f, x)' = 0
  BY DEF Waits, Pending, At
<1>4. copies' = copies /\ nameCache' = nameCache =>
         copies'[f][x] = copies[f][x] /\ Missing(f, x)' = Missing(f, x)
  BY DEF Missing, Hole
<1>5. CASE GiveUp(j) \/ LoadArchived(j) \/ LoadIndex(j) \/ Finish(j)
  <2>1. Waits(j, f, x)' = 0
    BY <1>3, <1>5, RunMoves DEF From
  <2>2. copies' = copies /\ nameCache' = nameCache
    BY <1>5 DEF GiveUp, LoadArchived, LoadIndex, Finish, drive, memory
  <2>3. QED
    BY <1>1, <1>4, <2>1, <2>2 DEF Weight
<1>6. CASE ClearCaches(j)
  <2>1. Waits(j, f, x)' = 0
    BY <1>3, <1>6, RunMoves DEF From
  <2>2. copies'[f][x] = copies[f][x] /\ Missing(f, x)' = 0
    BY <1>6 DEF ClearCaches, drive, Missing, Hole
  <2>3. QED
    BY <1>1, <2>1, <2>2 DEF Weight
<1>7. CASE FolderKnown(j) \/ ListFolders(j) \/ UseFolders(j) \/ CreateFolder(j)
  <2>1. Waits(j, f, x)' = 0
    BY <1>3, <1>7, FolderMoves DEF From
  <2>2. copies' = copies /\ nameCache' = nameCache
    BY <1>7 DEF FolderKnown, ListFolders, UseFolders, CreateFolder, drive, memory
  <2>3. QED
    BY <1>1, <1>4, <2>1, <2>2 DEF Weight
<1>8. CASE SkipKind(j) \/ SaveRecord(j) \/ SaveFailure(j)
  <2>1. Waits(j, f, x)' = 0
    BY <1>3, <1>8, KindMoves DEF From
  <2>2. copies' = copies /\ nameCache' = nameCache
    BY <1>8 DEF SkipKind, SaveRecord, SaveFailure, drive, memory
  <2>3. QED
    BY <1>1, <1>4, <2>1, <2>2 DEF Weight
<1>9. CASE NameKnown(j) \/ UseNames(j)
  <2>1. copies'[f][x] = copies[f][x]
    BY <1>9, NameMoves DEF drive
  <2>2. QED
    BY <1>1, <1>9, <2>1, NamesWeight DEF Weight
<1>10. CASE ListNames(j)
  <2>1. /\ nameCache[run[j].folder] = Unlisted /\ copies' = copies /\ nameCache' = nameCache
        /\ run'[j].step = "names" /\ run'[j].folder = run[j].folder
        /\ run'[j].seen = {y \in Files : copies[run[j].folder][y] > 0}
    <3>1. ~Event(TRUE)
      BY PastMoves
    <3>2. QED
      BY <1>10, <3>1, KindMoves DEF ListNames, drive, memory, From, Keeps
  <2>2. CASE f = run[j].folder /\ copies[f][x] = 0
    BY <2>1, <2>2 DEF Missing, Hole
  <2>3. CASE f # run[j].folder \/ copies[f][x] > 0
    <3>1. Waits(j, f, x)' = 0
      BY <2>1, <2>3 DEF Waits, Pending, At
    <3>2. QED
      BY <1>1, <1>4, <2>1, <3>1 DEF Weight
  <2>4. QED
    BY <1>1, <2>2, <2>3
<1>11. CASE Upload(j)
  <2>1. /\ run[j].step = "upload" /\ nameCache' = nameCache /\ Waits(j, f, x)' = 0
        /\ run[j].folder \in Folders /\ File(j) \in Files
    BY <1>3, <1>11, KindMoves, KindToDo, KindInHand DEF Upload, From
  <2>2. Missing(f, x)' = Missing(f, x)
    BY <2>1 DEF Missing, Hole
  <2>3. copies' \in {copies, [copies EXCEPT ![run[j].folder][File(j)] = @ + 1]}
    BY <1>11 DEF Upload
  <2>4. CASE f = run[j].folder /\ x = File(j)
    <3>1. Waits(j, f, x) = 1
      BY <2>1, <2>4 DEF Waits, Pending, At
    <3>2. copies'[f][x] <= copies[f][x] + 1
      BY <1>1, <2>1, <2>3, <2>4 DEF TInv
    <3>3. QED
      BY <1>1, <2>1, <2>2, <3>1, <3>2 DEF Weight
  <2>5. CASE ~(f = run[j].folder /\ x = File(j))
    <3>1. copies'[f][x] = copies[f][x]
      BY <2>1, <2>3, <2>5 DEF TInv
    <3>2. QED
      BY <1>1, <2>1, <2>2, <3>1 DEF Weight
  <2>6. QED
    BY <2>4, <2>5
<1>12. QED
  BY <1>5, <1>6, <1>7, <1>8, <1>9, <1>10, <1>11 DEF Goes, Progress

LEMMA CopiesStart == Init => CopiesInv
<1>1. SUFFICES ASSUME Init, NEW f \in Folders, NEW x \in Files
               PROVE  copies[f][x] + Cardinality(Pending(f, x)) + (IF Hole(f, x) THEN 1 ELSE 0)
                        <= MostCopies
  BY DEF CopiesInv
<1>2. copies[f][x] = 0 /\ ~Hole(f, x) /\ Pending(f, x) = {}
  BY <1>1 DEF Init, Hole, Pending, At, Idle
<1>3. Cardinality(Pending(f, x)) = 0
  BY <1>2, FS_EmptySet
<1>4. QED
  BY <1>2, <1>3, JobsCount DEF MostCopies

LEMMA CopiesStep ==
  TInv /\ TInv' /\ AloneInv /\ AloneInv' /\ CopiesInv /\ [Next]_vars => CopiesInv'
<1>1. SUFFICES ASSUME TInv, TInv', AloneInv, AloneInv', CopiesInv, [Next]_vars, ~blind',
                      NEW f \in Folders, NEW x \in Files
               PROVE  copies'[f][x] + Cardinality(Pending(f, x)') + Missing(f, x)' <= MostCopies'
  BY DEF CopiesInv, Missing
<1> DEFINE P == Cardinality(Pending(f, x))
           Q == Cardinality(Pending(f, x)')
<1>2. /\ copies[f][x] \in Nat /\ copies'[f][x] \in Nat /\ P \in Nat
      /\ Missing(f, x) \in {0, 1} /\ Missing(f, x)' \in {0, 1}
  BY <1>1, PendingIsFinite DEF TInv, Missing
<1>3. ~blind => copies[f][x] + P + Missing(f, x) <= MostCopies
  BY <1>1 DEF CopiesInv, Missing
<1>4. Q <= MostCopies'
  <2>1. AloneInv' => FewPending'
    BY MostIsEnough, PTL
  <2>2. QED
    BY <1>1, <2>1 DEF FewPending
<1>5. CASE UNCHANGED vars
  <2>1. /\ copies' = copies /\ nameCache' = nameCache /\ run' = run /\ blind' = blind
        /\ overlapped' = overlapped
    BY <1>5 DEF vars, drive, memory, past
  <2>2. Pending(f, x)' = Pending(f, x) /\ Missing(f, x)' = Missing(f, x) /\ MostCopies' = MostCopies
    BY <2>1 DEF Pending, At, File, Note, Kind, Missing, Hole, MostCopies
  <2>3. QED
    BY <1>1, <1>3, <2>1, <2>2
<1>6. CASE Next
  <2>1. CASE \E j \in Jobs : Start(j)
    <3>1. PICK j \in Jobs : Start(j)
      BY <2>1
    <3>2. /\ copies' = copies /\ nameCache' = nameCache /\ blind' = blind
          /\ overlapped => overlapped'
      BY <3>1 DEF Start, drive, memory
    <3>3. \A i \in Jobs : run[i].step \in {"upload", "names"} \/ run'[i].step \in {"upload", "names"}
                            => run'[i] = run[i]
      BY <1>1, <3>1, RunMoves DEF From, Only
    <3>4. Pending(f, x)' = Pending(f, x) /\ Missing(f, x)' = Missing(f, x)
      BY <3>2, <3>3 DEF Pending, At, File, Note, Kind, Missing, Hole
    <3>5. MostCopies \in Nat /\ MostCopies' \in Nat /\ MostCopies <= MostCopies'
      BY <3>2, MostGrows
    <3>6. QED
      BY <1>1, <1>2, <1>3, <3>2, <3>4, <3>5
  <2>2. CASE \E j \in Jobs : Goes(j)
    <3>1. PICK j \in Jobs : Goes(j)
      BY <2>2
    <3>2. Only(j) /\ ~blind /\ overlapped' = overlapped
      BY <1>1, <3>1, GoesIs
    <3>3. PICK rest \in Nat : P = rest + Waits(j, f, x) /\ Q = rest + Waits(j, f, x)'
      BY <3>2, PendingMoves
    <3>4. Waits(j, f, x) \in {0, 1} /\ Waits(j, f, x)' \in {0, 1}
      BY DEF Waits
    <3>5. MostCopies \in Nat /\ MostCopies' = MostCopies
      BY <3>2, JobsCount DEF MostCopies
    <3>6. CASE Weight(j, f, x)' <= Weight(j, f, x)
      <4>1. copies'[f][x] + Waits(j, f, x)' + Missing(f, x)'
              <= copies[f][x] + Waits(j, f, x) + Missing(f, x)
        BY <3>6 DEF Weight
      <4> HIDE DEF P, Q
      <4>2. copies'[f][x] + Q + Missing(f, x)' <= MostCopies'
        BY <1>2, <1>3, <3>2, <3>3, <3>4, <3>5, <4>1
      <4>3. QED
        BY <4>2 DEF Q
    <3>7. CASE copies'[f][x] = 0 /\ Missing(f, x)' = 0
      <4>1. Q \in Nat
        BY <3>3, <3>4
      <4>2. QED
        BY <1>4, <3>7, <4>1
    <3>8. QED
      BY <1>1, <3>1, <3>6, <3>7, GoesWeight
  <2>3. CASE \E j \in Jobs, n \in Notes : ClearRecord(j, n)
    <3>1. /\ copies' = copies /\ nameCache' = nameCache /\ run' = run /\ ~blind
          /\ overlapped' = overlapped
      BY <1>1, <2>3, PastMoves DEF ClearRecord, drive, memory
    <3>2. Pending(f, x)' = Pending(f, x) /\ Missing(f, x)' = Missing(f, x) /\ MostCopies' = MostCopies
      BY <3>1 DEF Pending, At, File, Note, Kind, Missing, Hole, MostCopies
    <3>3. QED
      BY <1>3, <3>1, <3>2
  <2>4. CASE Crash
    <3>1. /\ copies' = copies /\ ~blind /\ overlapped' = overlapped
          /\ \A i \in Jobs : run'[i].step = "idle"
      BY <1>1, <2>4, PastMoves DEF Crash, drive, Idle
    <3>2. Pending(f, x)' = {} /\ Missing(f, x)' = 0 /\ MostCopies' = MostCopies
      BY <2>4, <3>1 DEF Pending, At, Missing, Hole, Crash, MostCopies
    <3>3. Q = 0 /\ MostCopies \in Nat
      BY <3>2, FS_EmptySet, JobsCount DEF MostCopies
    <3>4. QED
      BY <1>2, <1>3, <3>1, <3>2, <3>3
  <2>5. QED
    BY <1>1, <1>6, <2>1, <2>2, <2>3, <2>4, StepOf
<1>7. QED
  BY <1>1, <1>5, <1>6

-----------------------------------------------------------------------------
(* Which step touches what.                                                *)
LEMMA Touches ==
  ASSUME TInv, NEW j \in Jobs, Goes(j)
  PROVE  /\ Upload(j) \/ copies' = copies
         /\ SaveRecord(j) \/ SaveFailure(j) \/ record' = record
         /\ \/ ClearCaches(j) \/ NameKnown(j) \/ UseNames(j)
            \/ nameCache' = nameCache
         /\ \/ ClearCaches(j) \/ LoadIndex(j) \/ NameKnown(j) \/ UseNames(j) \/ Upload(j)
            \/ index' = index
         /\ FolderKnown(j) \/ UseFolders(j) \/ CreateFolder(j) \/ unread' = unread
         /\ SaveRecord(j) \/ partial' = partial
BY DEF Goes, Progress, GiveUp, LoadArchived, ClearCaches, LoadIndex, Finish, FolderKnown,
       ListFolders, UseFolders, CreateFolder, BeginNote, SkipKind, NameKnown, ListNames, UseNames,
       Upload, SaveRecord, SaveFailure, drive, memory, gaps

(* The note in hand, and the folder, while a run is at it.                 *)
LEMMA InHandMoves ==
  ASSUME TInv, NEW j \in Jobs, Goes(j)
  PROVE  /\ run'[j].step \in {"folders", "create", "kind", "names", "upload", "fail"} =>
              run'[j].todo = run[j].todo /\ Note(j)' = Note(j)
         /\ LoadIndex(j) \/ run'[j].todo \subseteq run[j].todo
         /\ run'[j].step \in {"kind", "names", "upload"} =>
              IF run[j].step \in {"kind", "names", "upload"}
              THEN /\ run'[j].folder = run[j].folder /\ (Keeps(j) \/ OneKindLess(j))
                   /\ unread' = unread
              ELSE Begins(j)
         /\ run'[j].step \in {"clear", "index"} => run[j].step \in {"archived", "clear"}
         /\ run'[j].step \notin {"idle", "clear", "index"} =>
              run[j].step \notin {"idle", "archived", "clear"}
         /\ run'[j].step \notin {"idle", "clear", "index", "note"} =>
              run[j].step \notin {"idle", "archived", "clear", "index"}
<1>1. NameKnown(j) \/ UseNames(j) =>
        /\ run[j].step \in {"kind", "names"} /\ run'[j].step \in {"kind", "upload"}
        /\ Keeps(j) \/ OneKindLess(j)
  BY NameMoves
<1>2. Note(j)' = First(run'[j].todo) /\ Note(j) = First(run[j].todo)
  BY DEF Note
<1>3. run'[j].step \in {"kind", "names", "upload"} =>
        IF run[j].step \in {"kind", "names", "upload"}
        THEN run'[j].folder = run[j].folder /\ (Keeps(j) \/ OneKindLess(j))
        ELSE Begins(j)
  BY <1>1, RunMoves, FolderMoves, KindMoves DEF Goes, Progress, From, Keeps, OneKindLess
<1>4. run[j].step \in {"kind", "names", "upload"} => unread' = unread
  BY FolderMoves, Touches DEF From
<1>5. /\ run'[j].step \in {"folders", "create", "kind", "names", "upload", "fail"} =>
           run'[j].todo = run[j].todo
      /\ LoadIndex(j) \/ run'[j].todo \subseteq run[j].todo
      /\ run'[j].step \in {"clear", "index"} => run[j].step \in {"archived", "clear"}
      /\ run'[j].step \notin {"idle", "clear", "index"} =>
           run[j].step \notin {"idle", "archived", "clear"}
      /\ run'[j].step \notin {"idle", "clear", "index", "note"} =>
           run[j].step \notin {"idle", "archived", "clear", "index"}
  BY <1>1, RunMoves, FolderMoves, KindMoves
     DEF Goes, Progress, From, Keeps, Begins, OneKindLess
<1>6. QED
  BY <1>2, <1>3, <1>4, <1>5

(* The drive only gains copies.                                            *)
LEMMA HereStays ==
  ASSUME TInv, TInv', \A f \in Folders, x \in Files : copies'[f][x] >= copies[f][x],
         NEW key \in Keys, Here(key)
  PROVE  Here(key)'
<1>1. key[1] \in Folders /\ key[2] \in Kinds
  BY DEF Keys
<1>2. PICK n \in Notes : Text[n][key[2]] = key[3] /\ copies[key[1]][<<n, key[2]>>] > 0
  BY DEF Here, Present
<1>3. <<n, key[2]>> \in Files
  BY <1>1 DEF Files
<1>4. copies'[key[1]][<<n, key[2]>>] > 0
  BY <1>1, <1>2, <1>3 DEF TInv
<1>5. QED
  BY <1>2, <1>4 DEF Here, Present

LEMMA UploadAdds ==
  ASSUME TInv, NEW j \in Jobs, Goes(j)
  PROVE  /\ \A f \in Folders, x \in Files : copies'[f][x] >= copies[f][x]
         /\ \A f \in Folders, x \in Files : copies'[f][x] # copies[f][x] =>
               Upload(j) /\ f = run[j].folder /\ x = File(j)
<1>1. CASE copies' = copies
  BY <1>1 DEF TInv
<1>2. CASE Upload(j)
  <2>1. run[j].folder \in Folders /\ File(j) \in Files
    BY <1>2, KindToDo, KindInHand DEF Upload
  <2>2. copies' \in {copies, [copies EXCEPT ![run[j].folder][File(j)] = @ + 1]}
    BY <1>2 DEF Upload
  <2>3. ASSUME NEW f \in Folders, NEW x \in Files
        PROVE  \/ copies'[f][x] = copies[f][x]
               \/ /\ copies'[f][x] = copies[f][x] + 1 /\ copies[f][x] \in Nat
                  /\ f = run[j].folder /\ x = File(j)
    BY <2>1, <2>2 DEF TInv
  <2>4. \A f \in Folders, x \in Files : copies[f][x] \in Nat
    BY DEF TInv
  <2>5. QED
    BY <1>2, <2>3, <2>4
<1>3. QED
  BY <1>1, <1>2, Touches

(* A file in its folder is its text in the folder.                         *)
LEMMA FileIsHere ==
  ASSUME NEW f, NEW x \in Files
  PROVE  /\ copies[f][x] > 0 => Here(<<f, x[2], Text[x[1]][x[2]]>>)
         /\ copies'[f][x] > 0 => Here(<<f, x[2], Text[x[1]][x[2]]>>)'
<1>1. x[1] \in Notes /\ x = <<x[1], x[2]>>
  BY DEF Files
<1>2. QED
  BY <1>1 DEF Here, Present

(* What a record of success of this step adds to the records.              *)
LEMMA RecordedMoves ==
  ASSUME TInv, TInv', NEW j \in Jobs, Goes(j), NEW key \in Recorded', key \notin Recorded
  PROVE  /\ SaveRecord(j) /\ run[j].step = "kind" /\ run[j].left = << >>
         /\ key \in Keys /\ key[1] = run[j].folder /\ key[3] = Text[Note(j)][key[2]]
         /\ ~(j \in unread /\ key[2] \in OfBody)
<1>1. PICK n \in Notes, i \in Jobs : /\ record'[n][i] = key[1] /\ Text[n][key[2]] = key[3]
                                     /\ key[2] \in Hashed(n, i)'
  BY DEF Recorded
<1>2. /\ key \in Keys /\ key[1] \in Folders
      /\ record[n][i] # key[1] \/ key[2] \notin Hashed(n, i)
  BY <1>1 DEF Recorded, Keys
<1>3. ~(record' = record /\ partial' = partial)
  BY <1>1, <1>2 DEF Hashed
<1>4. CASE SaveFailure(j)
  <2>1. record' = [record EXCEPT ![Note(j)][j] = FailedRecord]
    BY <1>3, <1>4 DEF SaveFailure, gaps
  <2>2. record'[n][i] = FailedRecord \/ record'[n][i] = record[n][i]
    BY <2>1 DEF TInv
  <2>3. Hashed(n, i)' = Hashed(n, i)
    BY <1>4 DEF SaveFailure, gaps, Hashed
  <2>4. QED
    BY <1>1, <1>2, <2>2, <2>3 DEF FailedRecord, Folders
<1>5. CASE SaveRecord(j)
  <2>1. /\ From(j, "kind", "note") /\ run[j].left = << >>
        /\ record' = [record EXCEPT ![Note(j)][j] = run[j].folder]
        /\ partial' = IF j \in unread THEN partial \cup {<<Note(j), j>>}
                      ELSE partial \ {<<Note(j), j>>}
    <3>1. record' = [record EXCEPT ![Note(j)][j] = run[j].folder] /\ EndNote(j)
      BY <1>3, <1>5 DEF SaveRecord
    <3>2. /\ partial' = IF j \in unread THEN partial \cup {<<Note(j), j>>}
                        ELSE partial \ {<<Note(j), j>>}
          /\ run[j].step = "kind" /\ run[j].left = << >>
      BY <1>3, <1>5 DEF SaveRecord, At
    <3>3. run'[j].step = "note" /\ Only(j)
      BY <3>1, Fields
    <3>4. QED
      BY <3>1, <3>2, <3>3 DEF From
  <2>2. n = Note(j) /\ i = j
    <3>1. CASE <<n, i>> # <<Note(j), j>>
      <4>1. record'[n][i] = record[n][i]
        BY <2>1, <3>1 DEF TInv
      <4>2. Hashed(n, i)' = Hashed(n, i)
        BY <2>1, <3>1 DEF Hashed
      <4>3. QED
        BY <1>1, <1>2, <4>1, <4>2
    <3>2. QED
      BY <3>1
  <2>3. record'[n][i] = run[j].folder
    BY <2>1, <2>2 DEF TInv
  <2>4. ~(j \in unread /\ key[2] \in OfBody)
    BY <1>1, <2>1, <2>2 DEF Hashed
  <2>5. QED
    BY <1>1, <1>2, <1>5, <2>1, <2>2, <2>3, <2>4 DEF From
<1>6. QED
  BY <1>3, <1>4, <1>5, Touches

LEMMA TailIsShorter ==
  ASSUME NEW s \in Seq(Kinds), s # << >>
  PROVE  Tail(s) # s
<1> DEFINE n == Len(s)
           m == Len(Tail(s))
<1>1. n \in Nat /\ m = n - 1
  OBVIOUS
<1>2. Tail(s) = s => m = n
  OBVIOUS
<1> HIDE DEF n, m
<1>3. m # n
  BY <1>1
<1>4. QED
  BY <1>2, <1>3

LEMMA TailLoses ==
  ASSUME NEW s \in Seq(Kinds), s # << >>, NEW i \in DOMAIN s,
         \A m \in DOMAIN Tail(s) : Tail(s)[m] # s[i]
  PROVE  s[i] = Head(s)
<1>1. CASE i = 1
  BY <1>1
<1>2. CASE i # 1
  <2>1. i - 1 \in DOMAIN Tail(s) /\ Tail(s)[i - 1] = s[i]
    BY <1>2
  <2>2. QED
    BY <2>1
<1>3. QED
  BY <1>1, <1>2

-----------------------------------------------------------------------------
(* The truth of the caches of a run that is alone.                         *)
Truth == TrueRecords /\ FreshNames /\ TrueIndex /\ TrueNames /\ DoneIsThere /\ TrueListing

Alone(j) == \A i \in Jobs \ {j} : run[i].step = "idle" /\ run'[i].step = "idle"

LEMMA AloneHere ==
  ASSUME TInv, AloneInv, NEW j \in Jobs, Goes(j), ~overlapped'
  PROVE  Alone(j) /\ ~overlapped /\ j \in Active
<1>1. Only(j) /\ j \in Active /\ ~overlapped
  BY GoesIs
<1>2. QED
  BY <1>1, Others DEF Alone, Only

LEMMA NoNameYet == \A x \in Files : x \notin Unlisted
BY DEF Files, Unlisted

(* A name that is found is that of a file.                                 *)
LEMMA FoundIsThere ==
  ASSUME TInv, Truth, NEW j \in Jobs, run[j].step \in {"kind", "names"}, run[j].left # << >>,
         NEW x \in Files, x[1] \in run[j].todo,
         \/ run[j].step = "kind" /\ x \in nameCache[run[j].folder]
         \/ run[j].step = "names" /\ x \in run[j].seen
  PROVE  copies[run[j].folder][x] > 0
<1>1. run[j].folder \in Folders /\ copies[run[j].folder][x] \in Nat
  BY KindInHand DEF TInv
<1>2. CASE run[j].step = "names" /\ x \in run[j].seen
  BY <1>2 DEF Truth, TrueListing, At
<1>3. CASE run[j].step = "kind" /\ x \in nameCache[run[j].folder]
  <2>1. Cleared(j) /\ ~At(j, "fail") /\ ~At(j, "upload")
    BY <1>3 DEF Cleared, At
  <2>2. copies[run[j].folder][x] # 0
    BY <1>1, <1>3, <2>1 DEF Truth, TrueNames
  <2>3. QED
    BY <1>1, <2>2
<1>4. QED
  BY <1>2, <1>3

LEMMA NameFound ==
  ASSUME TInv, Truth, NEW j \in Jobs, NameKnown(j) \/ UseNames(j), index' # index
  PROVE  index' = index \cup {Key(j)} /\ Here(Key(j)) /\ Key(j) \in Keys
<1>1. /\ run[j].step \in {"kind", "names"} /\ run[j].left # << >> /\ Text[Note(j)][Kind(j)] # Empty
      /\ index' = index \cup {Key(j)}
      /\ \/ run[j].step = "kind" /\ File(j) \in nameCache[run[j].folder]
         \/ run[j].step = "names" /\ File(j) \in run[j].seen
  BY NameMoves
<1>2. File(j) \in Files /\ Note(j) \in run[j].todo /\ Key(j) \in Keys
  BY <1>1, KindInHand
<1>3. File(j)[1] = Note(j) /\ File(j)[2] = Kind(j)
  BY DEF File
<1>4. copies[run[j].folder][File(j)] > 0
  BY <1>1, <1>2, <1>3, FoundIsThere
<1>5. Here(<<run[j].folder, Kind(j), Text[Note(j)][Kind(j)]>>)
  BY <1>2, <1>3, <1>4, FileIsHere
<1>6. QED
  BY <1>1, <1>2, <1>5 DEF Key

LEMMA RecordsStay ==
  ASSUME TInv, TInv', Truth, NEW j \in Jobs, Goes(j), Alone(j)
  PROVE  TrueRecords'
<1>1. SUFFICES ASSUME NEW key \in Recorded' PROVE Here(key)'
  BY DEF TrueRecords
<1>2. key \in Keys
  BY DEF Recorded
<1>3. Here(key)
  <2>1. CASE key \in Recorded
    BY <2>1 DEF Truth, TrueRecords
  <2>2. CASE key \notin Recorded
    <3>1. /\ run[j].step = "kind" /\ run[j].left = << >> /\ key[1] = run[j].folder
          /\ key[3] = Text[Note(j)][key[2]] /\ ~(j \in unread /\ key[2] \in OfBody)
      BY <2>2, RecordedMoves
    <3>2. key[2] \in Kinds /\ key[3] # Empty /\ key = <<key[1], key[2], key[3]>>
      BY <1>2 DEF Keys, Hashes
    <3>3. ToGo(j) = {}
      BY <3>1 DEF ToGo
    <3>4. Here(<<run[j].folder, key[2], Text[Note(j)][key[2]]>>)
      BY <3>1, <3>2, <3>3 DEF Truth, DoneIsThere
    <3>5. QED
      BY <3>1, <3>2, <3>4
  <2>3. QED
    BY <2>1, <2>2
<1>4. QED
  BY <1>2, <1>3, UploadAdds, HereStays

LEMMA IndexStays ==
  ASSUME TInv, TInv', Truth, NEW j \in Jobs, Goes(j), Alone(j)
  PROVE  FreshNames' /\ TrueIndex'
<1>1. FreshNames'
  <2>1. SUFFICES ASSUME NEW i \in Jobs, At(i, "index")' PROVE \A f \in Folders : nameCache'[f] = Unlisted
    BY DEF FreshNames
  <2>2. i = j /\ ClearCaches(j)
    BY <2>1, CameFrom DEF Alone, At
  <2>3. QED
    BY <2>2 DEF ClearCaches
<1>2. ASSUME NEW i \in Jobs, Cleared(i)', NEW key \in index' PROVE Here(key)'
  <2>1. i = j /\ run'[j].step \notin {"idle", "archived", "clear"}
    BY <1>2 DEF Alone, Cleared
  <2>2. key \in Keys
    BY DEF TInv
  <2>3. CASE ClearCaches(j)
    BY <1>2, <2>3 DEF ClearCaches
  <2>4. CASE ~ClearCaches(j)
    <3>1. Cleared(j)
      BY <2>1, <2>4, CameFrom, InHandMoves DEF Cleared
    <3>2. CASE key \in index
      BY <2>2, <3>1, <3>2, UploadAdds, HereStays DEF Truth, TrueIndex
    <3>3. CASE key \notin index /\ LoadIndex(j)
      BY <1>2, <2>2, <3>3, UploadAdds, HereStays DEF LoadIndex, Indexed, Truth, TrueRecords
    <3>4. CASE key \notin index /\ (NameKnown(j) \/ UseNames(j))
      BY <1>2, <2>2, <3>4, NameFound, UploadAdds, HereStays
    <3>5. CASE key \notin index /\ Upload(j)
      <4>1. /\ key = Key(j)
            /\ copies' = [copies EXCEPT ![run[j].folder][File(j)] = @ + 1]
        BY <1>2, <3>5, KindMoves
      <4>2. run[j].folder \in Folders /\ File(j) \in Files
        BY <3>5, KindToDo, KindInHand DEF Upload
      <4>3. copies'[run[j].folder][File(j)] > 0
        BY <4>1, <4>2 DEF TInv
      <4>4. File(j)[1] = Note(j) /\ File(j)[2] = Kind(j)
        BY DEF File
      <4>5. QED
        BY <4>1, <4>2, <4>3, <4>4, FileIsHere DEF Key
    <3>6. QED
      BY <1>2, <2>4, <3>2, <3>3, <3>4, <3>5, Touches
  <2>5. QED
    BY <2>3, <2>4
<1>3. QED
  BY <1>1, <1>2 DEF TrueIndex

LEMMA NamesStay ==
  ASSUME TInv, TInv', Truth, NEW j \in Jobs, Goes(j), Alone(j)
  PROVE  TrueNames'
<1>1. SUFFICES ASSUME NEW i \in Jobs, Cleared(i)', NEW f \in Folders, NEW x \in Files,
                      x \in nameCache'[f], copies'[f][x] = 0
               PROVE  \/ x[1] \notin run'[i].todo
                      \/ At(i, "fail")' /\ x[1] = Note(i)'
                      \/ At(i, "upload")' /\ x = File(i)' /\ f = run'[i].folder
  BY DEF TrueNames
<1>2. i = j /\ run'[j].step \notin {"idle", "archived", "clear"}
  BY <1>1 DEF Alone, Cleared
<1>3. copies[f][x] = 0
  <2>1. copies[f][x] \in Nat /\ copies'[f][x] >= copies[f][x]
    BY UploadAdds DEF TInv
  <2>2. QED
    BY <1>1, <2>1
<1>4. ~ClearCaches(j) /\ ~LoadIndex(j)
  <2>1. ~ClearCaches(j)
    BY <1>1, NoNameYet DEF ClearCaches
  <2>2. ~LoadIndex(j)
    BY <1>1, NoNameYet DEF LoadIndex, Truth, FreshNames
  <2>3. QED
    BY <2>1, <2>2
<1>5. Cleared(j) /\ run'[j].todo \subseteq run[j].todo
  BY <1>2, <1>4, CameFrom, InHandMoves DEF Cleared
<1>6. CASE x \in nameCache[f]
  <2>1. \/ x[1] \notin run[j].todo
        \/ At(j, "fail") /\ x[1] = Note(j)
        \/ At(j, "upload") /\ x = File(j) /\ f = run[j].folder
    BY <1>3, <1>5, <1>6 DEF Truth, TrueNames
  <2>2. CASE x[1] \notin run[j].todo
    BY <1>2, <1>5, <2>2
  <2>3. CASE At(j, "fail") /\ x[1] = Note(j)
    <3>1. SaveFailure(j)
      <4>1. NameKnown(j) \/ UseNames(j) => run[j].step # "fail"
        BY NameMoves
      <4>2. QED
        BY <2>3, <4>1, RunMoves, FolderMoves, KindMoves DEF Goes, Progress, From, At
    <3>2. QED
      BY <1>2, <2>3, <3>1, KindMoves
  <2>4. CASE At(j, "upload") /\ x = File(j) /\ f = run[j].folder
    <3>1. Upload(j)
      <4>1. NameKnown(j) \/ UseNames(j) => run[j].step # "upload"
        BY NameMoves
      <4>2. QED
        BY <2>4, <4>1, RunMoves, FolderMoves, KindMoves DEF Goes, Progress, From, At
    <3>2. run'[j].step = "fail"
      <4>1. CASE copies' = [copies EXCEPT ![run[j].folder][File(j)] = @ + 1]
        BY <1>1, <1>3, <2>4, <4>1 DEF TInv
      <4>2. QED
        BY <3>1, <4>1, KindMoves DEF From
    <3>3. x[1] = Note(j) /\ Note(j)' = Note(j)
      BY <2>4, <3>2, InHandMoves DEF File
    <3>4. QED
      BY <1>2, <3>2, <3>3 DEF At
  <2>5. QED
    BY <2>1, <2>2, <2>3, <2>4
<1>7. CASE x \notin nameCache[f]
  <2>1. NameKnown(j) \/ UseNames(j)
    BY <1>1, <1>4, <1>7, Touches
  <2>2. PICK names \in SUBSET Files :
           /\ \/ run[j].step = "kind" /\ names = nameCache[run[j].folder]
              \/ run[j].step = "names" /\ names = run[j].seen
           /\ \/ /\ nameCache' = [nameCache EXCEPT ![run[j].folder] = names]
                 /\ run'[j].step = "kind" /\ OneKindLess(j)
              \/ /\ nameCache' = [nameCache EXCEPT ![run[j].folder] = names \cup {File(j)}]
                 /\ run'[j].step = "upload" /\ Keeps(j)
    BY <2>1, NameMoves
  <2>3. run[j].left # << >> /\ run[j].folder \in Folders
    BY <2>1, <2>2, NameMoves, KindInHand
  <2>4. f = run[j].folder
    BY <1>1, <1>7, <2>2, <2>3 DEF TInv
  <2>5. CASE x \in names
    <3>1. run[j].step = "names" /\ x \in run[j].seen
      BY <1>7, <2>2, <2>4, <2>5
    <3>2. x[1] \notin run[j].todo
      BY <1>3, <2>3, <2>4, <3>1, FoundIsThere
    <3>3. QED
      BY <1>2, <1>5, <3>2
  <2>6. CASE x \notin names
    <3>1. x = File(j) /\ run'[j].step = "upload" /\ Keeps(j)
      BY <1>1, <2>2, <2>3, <2>4, <2>6 DEF TInv
    <3>2. File(j)' = File(j)
      BY <3>1 DEF Keeps, File, Note, Kind
    <3>3. QED
      BY <1>2, <2>4, <3>1, <3>2 DEF At, Keeps
  <2>7. QED
    BY <2>5, <2>6
<1>8. QED
  BY <1>6, <1>7

LEMMA KindsStay ==
  ASSUME TInv, TInv', Truth, NEW j \in Jobs, Goes(j), Alone(j)
  PROVE  DoneIsThere' /\ TrueListing'
<1>1. ASSUME NEW i \in Jobs, run'[i].step \in {"kind", "names", "upload"}, NEW k \in Kinds,
             k \notin ToGo(i)', (Text[Note(i)][k] # Empty)', ~(i \in unread' /\ k \in OfBody)
      PROVE  Here(<<run[i].folder, k, Text[Note(i)][k]>>)'
  <2>1. i = j /\ Note(j)' = Note(j)
    BY <1>1, InHandMoves DEF Alone
  <2>2. PICK m \in DOMAIN KindOrder : KindOrder[m] = k
    BY DEF Kinds
  <2>3. run[j].step \in {"kind", "names", "upload"}
    <3>1. ASSUME Begins(j) PROVE FALSE
      <4>1. CASE run'[j].left = KindOrder
        BY <1>1, <2>1, <2>2, <4>1 DEF ToGo
      <4>2. CASE run'[j].left = OwnOrder /\ unread' = unread \cup {j}
        <5>1. j \in unread' /\ k \notin {OwnOrder[q] : q \in DOMAIN OwnOrder}
          BY <1>1, <2>1, <4>2 DEF ToGo
        <5>2. QED
          BY <1>1, <2>1, <5>1 DEF OfBody
      <4>3. QED
        BY <3>1, <4>1, <4>2 DEF Begins
    <3>2. QED
      BY <1>1, <2>1, <3>1, InHandMoves
  <2>4. run'[j].folder = run[j].folder /\ (Keeps(j) \/ OneKindLess(j)) /\ unread' = unread
    BY <1>1, <2>1, <2>3, InHandMoves
  <2>5. run[j].todo # {} /\ run[j].folder \in Folders /\ Note(j) \in Notes /\ run[j].left \in Seq(Kinds)
    BY <2>3, InHandNow DEF InHand, RunType
  <2>6. PICK key \in Keys : key = <<run[j].folder, k, Text[Note(j)][k]>>
    <3>1. <<run[j].folder, k, Text[Note(j)][k]>> \in Keys
      BY <1>1, <2>1, <2>5 DEF Keys, Hashes
    <3>2. QED
      BY <3>1
  <2>7. CASE k \notin ToGo(j)
    <3>1. Here(key)
      BY <1>1, <2>1, <2>3, <2>4, <2>6, <2>7 DEF Truth, DoneIsThere
    <3>2. Here(key)'
      BY <2>6, <3>1, UploadAdds, HereStays
    <3>3. QED
      BY <2>1, <2>4, <2>6, <3>2
  <2>8. CASE k \in ToGo(j)
    <3>1. OneKindLess(j) /\ run[j].left # << >> /\ run'[j].left = Tail(run[j].left)
      BY <1>1, <2>1, <2>4, <2>8 DEF ToGo, Keeps, OneKindLess
    <3>2. k = Kind(j)
      <4>1. PICK q \in DOMAIN run[j].left : run[j].left[q] = k
        BY <2>8 DEF ToGo
      <4>2. \A p \in DOMAIN Tail(run[j].left) : Tail(run[j].left)[p] # k
        BY <1>1, <2>1, <3>1 DEF ToGo
      <4>3. QED
        BY <2>5, <3>1, <4>1, <4>2, TailLoses DEF Kind
    <3>3. key = Key(j) /\ Text[Note(j)][Kind(j)] # Empty
      BY <1>1, <2>1, <2>6, <3>2 DEF Key
    <3>4. ~Keeps(j)
      BY <2>5, <3>1, TailIsShorter DEF Keeps
    <3>5. Key(j) \in index' /\ TrueIndex'
      <4>1. TrueIndex'
        BY IndexStays
      <4>2. CASE SkipKind(j)
        BY <3>3, <4>1, <4>2 DEF SkipKind, memory
      <4>3. CASE NameKnown(j) \/ UseNames(j)
        BY <3>4, <4>1, <4>3, NameMoves
      <4>4. CASE Upload(j)
        BY <3>4, <4>1, <4>4, KindMoves
      <4>5. SkipKind(j) \/ NameKnown(j) \/ UseNames(j) \/ Upload(j)
        BY <1>1, <2>1, <2>3, <3>4, RunMoves, FolderMoves, KindMoves DEF Goes, Progress, From
      <4>6. QED
        BY <4>1, <4>2, <4>3, <4>4, <4>5
    <3>6. Cleared(j)'
      BY <1>1, <2>1 DEF Cleared
    <3>7. Here(key)'
      BY <3>3, <3>5, <3>6 DEF TrueIndex
    <3>8. QED
      BY <2>1, <2>4, <2>6, <3>7
  <2>9. QED
    BY <2>7, <2>8
<1>2. ASSUME NEW i \in Jobs, At(i, "names")', NEW x \in run'[i].seen
      PROVE  copies'[run'[i].folder][x] > 0
  <2>1. i = j /\ ListNames(j)
    BY <1>2, CameFrom DEF Alone, At
  <2>2. /\ run'[j].folder = run[j].folder /\ copies' = copies
        /\ run'[j].seen \in {{y \in Files : copies[run[j].folder][y] > 0}, {}}
    BY <2>1, KindMoves DEF ListNames, drive, Keeps
  <2>3. QED
    BY <1>2, <2>1, <2>2
<1>3. QED
  BY <1>1, <1>2 DEF DoneIsThere, TrueListing

LEMMA TruthStart == Init => TruthInv
<1>1. SUFFICES ASSUME Init PROVE Truth
  BY DEF TruthInv, Truth
<1>2. \A n \in Notes, j \in Jobs : record[n][j] \notin Folders
  BY <1>1, BoundsAreNat DEF Init, NoRecord, Folders
<1>3. Recorded = {}
  BY <1>2 DEF Recorded, Keys
<1>4. \A j \in Jobs : run[j].step = "idle"
  BY <1>1 DEF Init, Idle
<1>5. QED
  BY <1>3, <1>4 DEF Truth, TrueRecords, FreshNames, TrueIndex, TrueNames, DoneIsThere,
                    TrueListing, Cleared, At

(* Nothing is lost when no run at work moves and no record is gained.       *)
LEMMA SameTruth ==
  ASSUME Truth, copies' = copies, nameCache' = nameCache, index' = index,
         \A i \in Jobs : run'[i].step \notin {"idle", "archived"} => run'[i] = run[i],
         \A m \in Notes, i \in Jobs : record'[m][i] \in Folders => record'[m][i] = record[m][i],
         unread' = unread, partial' = partial
  PROVE  Truth'
<1>1. TrueRecords'
  <2>1. SUFFICES ASSUME NEW key \in Recorded' PROVE Here(key)'
    BY DEF TrueRecords
  <2>2. key \in Recorded
    BY DEF Recorded, Keys, Hashed
  <2>3. QED
    BY <2>2 DEF Truth, TrueRecords, Here, Present
<1>2. FreshNames' /\ TrueIndex'
  BY DEF Truth, FreshNames, TrueIndex, Here, Present, Cleared, At
<1>3. TrueNames' /\ TrueListing'
  BY DEF Truth, TrueNames, TrueListing, Cleared, At, File, Note, Kind
<1>4. DoneIsThere'
  <2>1. \A i \in Jobs : run'[i].step \in {"kind", "names", "upload"} =>
          run'[i] = run[i] /\ ToGo(i)' = ToGo(i) /\ Note(i)' = Note(i)
    BY DEF ToGo, Note
  <2>2. \A key : Here(key)' <=> Here(key)
    BY DEF Here, Present
  <2>3. QED
    BY <2>1, <2>2 DEF Truth, DoneIsThere
<1>5. QED
  BY <1>1, <1>2, <1>3, <1>4 DEF Truth

LEMMA TruthStep ==
  TInv /\ TInv' /\ AloneInv /\ TruthInv /\ [Next]_vars => TruthInv'
<1>1. SUFFICES ASSUME TInv, TInv', AloneInv, TruthInv, [Next]_vars, ~overlapped'
               PROVE  Truth'
  BY DEF TruthInv, Truth
<1>2. ~overlapped => Truth
  BY <1>1 DEF TruthInv, Truth
<1>3. CASE Next /\ \E j \in Jobs : Goes(j)
  <2>1. PICK j \in Jobs : Goes(j)
    BY <1>3
  <2>2. Alone(j) /\ Truth
    BY <1>1, <1>2, <2>1, AloneHere
  <2>3. QED
    BY <1>1, <2>1, <2>2, RecordsStay, IndexStays, NamesStay, KindsStay DEF Truth
<1>4. CASE Next /\ \E j \in Jobs : Start(j)
  <2>1. PICK j \in Jobs : Start(j)
    BY <1>4
  <2>2. /\ copies' = copies /\ record' = record /\ nameCache' = nameCache /\ index' = index
        /\ ~overlapped /\ unread' = unread /\ partial' = partial
    BY <1>1, <2>1 DEF Start, drive, memory, gaps, TInv
  <2>3. \A i \in Jobs : run'[i].step \notin {"idle", "archived"} => run'[i] = run[i]
    BY <1>1, <2>1, RunMoves DEF From, Only
  <2>4. QED
    BY <1>2, <2>2, <2>3, SameTruth
<1>5. CASE Next /\ \E j \in Jobs, n \in Notes : ClearRecord(j, n)
  <2>1. PICK j \in Jobs, n \in Notes : ClearRecord(j, n)
    BY <1>5
  <2>2. /\ copies' = copies /\ nameCache' = nameCache /\ index' = index /\ run' = run
        /\ ~overlapped /\ unread' = unread /\ partial' = partial
    BY <1>1, <2>1 DEF ClearRecord, Event, drive, memory, gaps
  <2>3. \A m \in Notes, i \in Jobs : record'[m][i] \in Folders => record'[m][i] = record[m][i]
    <3>1. record' = [record EXCEPT ![n][j] = NoRecord] /\ NoRecord \notin Folders
      BY <2>1, BoundsAreNat DEF ClearRecord, NoRecord, Folders
    <3>2. QED
      BY <1>1, <3>1 DEF TInv
  <2>4. QED
    BY <1>2, <2>2, <2>3, SameTruth
<1>6. CASE Next /\ Crash
  <2>1. /\ copies' = copies /\ record' = record /\ partial' = partial /\ ~overlapped
        /\ \A i \in Jobs : run'[i].step = "idle"
    BY <1>1, <1>6 DEF Crash, Event, drive, Idle
  <2>2. TrueRecords'
    BY <1>2, <2>1 DEF Truth, TrueRecords, Recorded, Hashed, Here, Present
  <2>3. QED
    BY <2>1, <2>2 DEF Truth, FreshNames, TrueIndex, TrueNames, DoneIsThere, TrueListing, Cleared, At
<1>7. CASE UNCHANGED vars
  <2>1. /\ copies' = copies /\ record' = record /\ nameCache' = nameCache /\ index' = index
        /\ run' = run /\ ~overlapped /\ unread' = unread /\ partial' = partial
    BY <1>1, <1>7 DEF vars, drive, memory, past, gaps
  <2>2. QED
    BY <1>2, <2>1, SameTruth
<1>8. QED
  BY <1>1, <1>3, <1>4, <1>5, <1>6, <1>7, StepOf

-----------------------------------------------------------------------------
(* While nothing goes wrong, no text comes twice.                          *)
LEMMA NothingWrong ==
  ASSUME TInv, events' = 0
  PROVE  \A dark \in BOOLEAN : ~Event(dark)
BY PastMoves

LEMMA ReadsStay ==
  ASSUME TInv, Once, NEW j \in Jobs, Goes(j), events' = 0
  PROVE  AllRead'
<1>1. unread = {} /\ partial = {}
  BY DEF Once, AllRead
<1>2. unread' = {}
  <2>1. \A f : BeginNote(j, f) => unread' = {}
    BY <1>1, NothingWrong DEF BeginNote
  <2>2. FolderKnown(j) \/ UseFolders(j) \/ CreateFolder(j) => unread' = {}
    BY <1>1, <2>1 DEF FolderKnown, UseFolders, CreateFolder, gaps
  <2>3. QED
    BY <1>1, <2>2, Touches
<1>3. partial' = {}
  BY <1>1, Touches DEF SaveRecord
<1>4. QED
  BY <1>2, <1>3 DEF AllRead

LEMMA AllHashed ==
  /\ AllRead => \A n, j : Hashed(n, j) = Kinds
  /\ AllRead' => \A n, j : Hashed(n, j)' = Kinds
BY DEF AllRead, Hashed

LEMMA OnlyFinishUnloads ==
  ASSUME TInv, NEW j \in Jobs, Goes(j)
  PROVE  /\ Loaded(j) <=> run[j].step \notin {"idle", "archived", "clear", "index"}
         /\ Loaded(j)' <=> run'[j].step \notin {"idle", "archived", "clear", "index"}
         /\ Loaded(j)' => Loaded(j) \/ LoadIndex(j)
         /\ Loaded(j) => Loaded(j)' \/ (Finish(j) /\ run[j].step = "note")
<1>1. NameKnown(j) \/ UseNames(j) =>
        run[j].step \in {"kind", "names"} /\ run'[j].step \in {"kind", "upload"}
  BY NameMoves
<1>2. QED
  BY <1>1, RunMoves, FolderMoves, KindMoves DEF Goes, Progress, From, Loaded, Cleared, At

LEMMA RecordsGrow ==
  ASSUME TInv, TInv', Once, NEW j \in Jobs, Goes(j), events' = 0
  PROVE  /\ \A key \in Recorded : key \in Recorded'
         /\ \A n \in Notes, i \in Jobs : Succeeded(n, i)' =>
              Succeeded(n, i) \/ (n = Note(j) /\ i = j /\ SaveRecord(j) /\ record' # record)
<1>1. ~SaveFailure(j)
  BY DEF SaveFailure, Once
<1>2. \A n, i : Hashed(n, i) = Kinds /\ Hashed(n, i)' = Kinds
  BY ReadsStay, AllHashed DEF Once
<1>3. CASE record' = record
  BY <1>2, <1>3 DEF Recorded, Succeeded
<1>4. CASE SaveRecord(j) /\ record' # record
  <2>1. record' = [record EXCEPT ![Note(j)][j] = run[j].folder] /\ run[j].step = "kind"
    BY <1>4, KindMoves DEF From
  <2>2. Note(j) \in run[j].todo /\ Note(j) \in Notes
    BY <2>1, NoteEnds
  <2>3. record[Note(j)][j] \notin Folders
    BY <2>2 DEF Once, ToDoIsNew, Succeeded
  <2>4. \A n \in Notes, i \in Jobs :
          record'[n][i] = record[n][i] \/ (n = Note(j) /\ i = j)
    BY <2>1 DEF TInv
  <2>5. ASSUME NEW key \in Recorded PROVE key \in Recorded'
    <3>1. PICK n \in Notes, i \in Jobs : record[n][i] = key[1] /\ Text[n][key[2]] = key[3]
      BY DEF Recorded
    <3>2. key \in Keys /\ key[1] \in Folders
      BY DEF Recorded, Keys
    <3>3. record'[n][i] = record[n][i]
      BY <2>3, <2>4, <3>1, <3>2
    <3>4. QED
      BY <1>2, <3>1, <3>2, <3>3 DEF Recorded, Keys
  <2>6. QED
    BY <1>4, <2>4, <2>5 DEF Succeeded
<1>5. QED
  BY <1>1, <1>3, <1>4, Touches

LEMMA RecordStays ==
  ASSUME TInv, TInv', Once, NEW j \in Jobs, Goes(j), Alone(j), Only(j), events' = 0
  PROVE  SeenAll' /\ ToDoIsNew'
<1>1. ASSUME NEW i \in Jobs, run'[i].step \in {"clear", "index"}, NEW n \in Notes, Succeeded(n, i)'
      PROVE  n \in run'[i].seen
  <2>1. i = j
    BY <1>1 DEF Alone
  <2>2. CASE LoadArchived(j)
    <3>1. run'[j].seen = {m \in Notes : Succeeded(m, j)} /\ record' = record
      BY <2>2, NothingWrong, RunMoves DEF LoadArchived
    <3>2. QED
      BY <1>1, <2>1, <3>1 DEF Succeeded
  <2>3. CASE ClearCaches(j)
    <3>1. run[j].step = "clear" /\ run'[j].seen = run[j].seen /\ record' = record
      BY <2>3, RunMoves DEF ClearCaches, From
    <3>2. QED
      BY <1>1, <2>1, <3>1 DEF Succeeded, Once, SeenAll
  <2>4. QED
    BY <1>1, <2>1, <2>2, <2>3, CameFrom
<1>2. ASSUME NEW i \in Jobs, NEW n \in run'[i].todo, Succeeded(n, i)' PROVE FALSE
  <2>1. n \in Notes
    BY DEF TInv, RunType
  <2>2. Succeeded(n, i) \/ (n = Note(j) /\ i = j /\ SaveRecord(j) /\ record' # record)
    BY <1>2, <2>1, RecordsGrow
  <2>3. CASE i # j
    BY <1>2, <2>2, <2>3 DEF Only, Once, ToDoIsNew
  <2>4. CASE i = j /\ LoadIndex(j)
    <3>1. run[j].step = "index" /\ n \notin run[j].seen /\ record' = record
      BY <1>2, <2>4, RunMoves DEF LoadIndex, From, Fresh
    <3>2. QED
      BY <2>1, <2>2, <2>4, <3>1 DEF Once, SeenAll
  <2>5. CASE i = j /\ ~LoadIndex(j)
    <3>1. n \in run[j].todo
      BY <1>2, <2>5, InHandMoves
    <3>2. SaveRecord(j) /\ record' # record /\ n = Note(j)
      BY <2>2, <2>5, <3>1 DEF Once, ToDoIsNew
    <3>3. run'[j].todo = run[j].todo \ {Note(j)}
      BY <3>2, KindMoves
    <3>4. QED
      BY <1>2, <2>5, <3>2, <3>3
  <2>6. QED
    BY <2>3, <2>4, <2>5
<1>3. QED
  BY <1>1, <1>2 DEF SeenAll, ToDoIsNew

LEMMA KeysStay ==
  ASSUME TInv, TInv', Once, NEW j \in Jobs, Goes(j), Alone(j), events' = 0
  PROVE  /\ \A i \in Jobs : ~At(i, "fail")'
         /\ \A i \in Jobs : At(i, "index")' => index' = {}
         /\ \A i \in Jobs : At(i, "names")' \/ At(i, "upload")' => Key(i)' \notin index'
<1>1. ASSUME NEW i \in Jobs, At(i, "fail")' PROVE FALSE
  <2>1. i = j /\ run[j].step # "fail"
    BY <1>1 DEF Alone, At, Once
  <2>2. NameKnown(j) \/ UseNames(j) => run'[j].step # "fail"
    BY NameMoves
  <2>3. QED
    BY <1>1, <2>1, <2>2, NothingWrong, RunMoves, FolderMoves, KindMoves
       DEF Goes, Progress, From, At
<1>2. ASSUME NEW i \in Jobs, At(i, "index")' PROVE index' = {}
  <2>1. ClearCaches(j)
    BY <1>2, CameFrom DEF Alone, At
  <2>2. QED
    BY <2>1 DEF ClearCaches
<1>3. ASSUME NEW i \in Jobs, At(i, "names")' \/ At(i, "upload")' PROVE Key(i)' \notin index'
  <2>1. i = j
    BY <1>3 DEF Alone, At
  <2>2. Keeps(j) => Key(j)' = Key(j)
    BY DEF Keeps, Key, Kind, Note
  <2>3. CASE At(j, "names")'
    <3>1. ListNames(j)
      BY <2>3, CameFrom DEF At
    <3>2. QED
      BY <2>1, <2>2, <3>1, KindMoves DEF ListNames, Wanted, memory
  <2>4. CASE At(j, "upload")'
    <3>1. NameKnown(j) \/ UseNames(j)
      BY <2>4, CameFrom DEF At
    <3>2. index' = index /\ Keeps(j) /\ (Wanted(j) \/ At(j, "names"))
      BY <2>4, <3>1, NameMoves DEF At
    <3>3. QED
      BY <2>1, <2>2, <3>2 DEF Wanted, Once
  <2>5. QED
    BY <1>3, <2>1, <2>3, <2>4
<1>4. QED
  BY <1>1, <1>2, <1>3

LEMMA KnownStays ==
  ASSUME TInv, TInv', Once, NEW j \in Jobs, Goes(j), Alone(j), events' = 0
  PROVE  IndexIsKnown'
<1>1. SUFFICES ASSUME NEW i \in Jobs, Loaded(i)', NEW key \in index', key \notin Recorded'
               PROVE  /\ run'[i].step \in {"kind", "names", "upload"}
                      /\ key[1] = run'[i].folder /\ key[3] = Text[Note(i)'][key[2]]
  BY DEF IndexIsKnown
<1>2. i = j /\ key \notin Recorded /\ key \in Keys
  BY <1>1, RecordsGrow DEF Alone, Loaded, Cleared, TInv
<1>3. ~LoadIndex(j)
  BY <1>1, <1>2 DEF LoadIndex, Indexed, Once
<1>4. Loaded(j)
  BY <1>1, <1>2, <1>3, OnlyFinishUnloads
<1>5. CASE key \in index
  <2>1. /\ run[j].step \in {"kind", "names", "upload"}
        /\ key[1] = run[j].folder /\ key[3] = Text[Note(j)][key[2]]
    BY <1>2, <1>4, <1>5 DEF Once, IndexIsKnown
  <2>2. CASE run'[j].step \in {"kind", "names", "upload"}
    BY <1>2, <2>1, <2>2, InHandMoves
  <2>3. CASE run'[j].step \notin {"kind", "names", "upload"}
    <3>1. SaveRecord(j) /\ record' = [record EXCEPT ![Note(j)][j] = run[j].folder]
          /\ run[j].step = "kind"
      <4>1. NameKnown(j) \/ UseNames(j) => run'[j].step \in {"kind", "upload"}
        BY NameMoves
      <4>2. QED
        BY <2>1, <2>3, <4>1, NothingWrong, RunMoves, FolderMoves, KindMoves
           DEF Goes, Progress, From
    <3>2. Note(j) \in Notes /\ record'[Note(j)][j] = key[1]
      BY <2>1, <3>1, NoteEnds DEF TInv
    <3>3. \A n, k : key[2] \in Hashed(n, k)'
      BY <1>2, ReadsStay, AllHashed DEF Keys
    <3>4. QED
      BY <1>1, <1>2, <2>1, <3>2, <3>3 DEF Recorded
  <2>4. QED
    BY <2>2, <2>3
<1>6. CASE key \notin index
  <2>1. key = Key(j) /\ run'[j].step = "kind" /\ run'[j].folder = run[j].folder
    <3>1. ~ClearCaches(j)
      BY <1>1 DEF ClearCaches
    <3>2. CASE NameKnown(j) \/ UseNames(j)
      BY <1>1, <1>6, <3>2, NameMoves DEF OneKindLess
    <3>3. CASE Upload(j)
      BY <1>1, <1>6, <3>3, KindMoves DEF From, OneKindLess
    <3>4. QED
      BY <1>1, <1>3, <1>6, <3>1, <3>2, <3>3, Touches
  <2>2. Note(j)' = Note(j)
    BY <2>1, InHandMoves
  <2>3. key[1] = run[j].folder /\ key[2] = Kind(j) /\ key[3] = Text[Note(j)][Kind(j)]
    BY <2>1 DEF Key
  <2>4. QED
    BY <1>2, <2>1, <2>2, <2>3
<1>7. QED
  BY <1>5, <1>6

LEMMA OneStays ==
  ASSUME TInv, TInv', Once, NEW j \in Jobs, Goes(j), Alone(j), events' = 0
  PROVE  OnRecord' /\ OneOfAKind'
<1>1. ASSUME NEW f \in Folders, NEW x \in Files, copies'[f][x] > 0
      PROVE  \/ copies[f][x] > 0
             \/ Upload(j) /\ f = run[j].folder /\ x = File(j) /\ KeyOf(f, x) = Key(j)
  <2>1. KeyOf(run[j].folder, File(j)) = Key(j)
    BY DEF KeyOf, Key, File
  <2>2. QED
    BY <1>1, <2>1, UploadAdds
<1>2. ASSUME NEW f \in Folders, NEW x \in Files, copies[f][x] > 0
      PROVE  IF Loaded(j) THEN KeyOf(f, x) \in index ELSE KeyOf(f, x) \in Recorded
  <2>1. (\E i \in Jobs : Loaded(i)) <=> Loaded(j)
    BY DEF Alone, Loaded, Cleared
  <2>2. QED
    BY <1>2, <2>1 DEF Once, OnRecord
<1>3. ASSUME NEW f \in Folders, NEW x \in Files, copies'[f][x] > 0
      PROVE  IF (\E i \in Jobs : Loaded(i))' THEN KeyOf(f, x) \in index' ELSE KeyOf(f, x) \in Recorded'
  <2>1. (\E i \in Jobs : Loaded(i))' <=> Loaded(j)'
    BY DEF Alone, Loaded, Cleared
  <2>2. CASE copies[f][x] > 0 /\ Loaded(j)'
    <3>1. CASE Loaded(j)
      <4>1. KeyOf(f, x) \in index
        BY <1>2, <2>2, <3>1
      <4>2. ~ClearCaches(j)
        BY <3>1, OnlyFinishUnloads DEF ClearCaches, At
      <4>3. ~LoadIndex(j)
        BY <3>1, OnlyFinishUnloads DEF LoadIndex, At
      <4>4. \A key \in index : key \in index'
        BY <4>2, <4>3, Touches, NameMoves, KindMoves
      <4>5. QED
        BY <2>1, <2>2, <4>1, <4>4
    <3>2. CASE ~Loaded(j)
      <4>1. KeyOf(f, x) \in Recorded /\ LoadIndex(j)
        BY <1>2, <2>2, <3>2, OnlyFinishUnloads
      <4>2. index' = index \cup Recorded
        BY <4>1, NothingWrong DEF LoadIndex, Indexed
      <4>3. QED
        BY <2>1, <2>2, <4>1, <4>2
    <3>3. QED
      BY <3>1, <3>2
  <2>3. CASE copies[f][x] > 0 /\ ~Loaded(j)'
    <3>1. KeyOf(f, x) \in Recorded
      <4>1. CASE Loaded(j)
        <5>1. KeyOf(f, x) \in index /\ run[j].step = "note"
          BY <1>2, <2>3, <4>1, OnlyFinishUnloads
        <5>2. QED
          BY <4>1, <5>1 DEF Once, IndexIsKnown
      <4>2. QED
        BY <1>2, <2>3, <4>1
    <3>2. QED
      BY <2>1, <2>3, <3>1, RecordsGrow
  <2>4. CASE ~(copies[f][x] > 0)
    <3>1. Upload(j) /\ KeyOf(f, x) = Key(j)
      BY <1>1, <1>3, <2>4
    <3>2. run'[j].step = "kind" /\ Key(j) \in index'
      BY <3>1, NothingWrong, KindMoves DEF From
    <3>3. Loaded(j)'
      BY <3>2, OnlyFinishUnloads
    <3>4. QED
      BY <2>1, <3>1, <3>2, <3>3
  <2>5. QED
    BY <2>2, <2>3, <2>4
<1>4. OnRecord'
  BY <1>3 DEF OnRecord, KeyOf
<1>5. ASSUME NEW f \in Folders, NEW x \in Files, NEW y \in Files,
             copies'[f][x] > 0, copies'[f][y] > 0, KeyOf(f, x) = KeyOf(f, y)
      PROVE  x = y
  <2>1. Upload(j) => Loaded(j) /\ Key(j) \notin index
    <3>1. Upload(j) => At(j, "upload") /\ run[j].step = "upload"
      BY DEF Upload, At
    <3>2. QED
      BY <3>1, OnlyFinishUnloads DEF Once
  <2>2. CASE copies[f][x] > 0 /\ copies[f][y] > 0
    BY <1>5, <2>2 DEF Once, OneOfAKind
  <2>3. CASE ~(copies[f][x] > 0)
    BY <1>1, <1>2, <1>5, <2>1, <2>3
  <2>4. CASE ~(copies[f][y] > 0)
    BY <1>1, <1>2, <1>5, <2>1, <2>4
  <2>5. QED
    BY <2>2, <2>3, <2>4
<1>6. QED
  BY <1>4, <1>5 DEF OneOfAKind, KeyOf

LEMMA OnceStart == Init => OnceInv
<1>1. SUFFICES ASSUME Init PROVE Once
  BY DEF OnceInv
<1>2. \A n \in Notes, j \in Jobs : record[n][j] \notin Folders
  BY <1>1, BoundsAreNat DEF Init, NoRecord, Folders
<1>3. \A j \in Jobs : run[j].step = "idle" /\ run[j].todo = {}
  BY <1>1 DEF Init, Idle
<1>4. \A f \in Folders, x \in Files : ~(copies[f][x] > 0)
  BY <1>1 DEF Init
<1>5. AllRead
  BY <1>1 DEF Init, AllRead
<1>6. QED
  BY <1>2, <1>3, <1>4, <1>5 DEF Once, OnRecord, OneOfAKind, SeenAll, ToDoIsNew, IndexIsKnown,
                          Loaded, Cleared, At

LEMMA OnceStep ==
  TInv /\ TInv' /\ AloneInv /\ OnceInv /\ [Next]_vars => OnceInv'
<1>1. SUFFICES ASSUME TInv, TInv', AloneInv, OnceInv, [Next]_vars, ~overlapped', events' = 0
               PROVE  Once'
  BY DEF OnceInv
<1>2. ~overlapped /\ events = 0 => Once
  BY <1>1 DEF OnceInv
<1>3. CASE Next /\ \E j \in Jobs : Goes(j)
  <2>1. PICK j \in Jobs : Goes(j)
    BY <1>3
  <2>2. Alone(j) /\ Only(j) /\ Once
    BY <1>1, <1>2, <2>1, AloneHere, GoesIs
  <2>3. QED
    BY <1>1, <2>1, <2>2, ReadsStay, OneStays, KnownStays, KeysStay, RecordStays DEF Once
<1>4. CASE Next /\ \E j \in Jobs : Start(j)
  <2>1. PICK j \in Jobs : Start(j)
    BY <1>4
  <2>2. /\ copies' = copies /\ record' = record /\ events = 0
        /\ ~overlapped /\ \A i \in Jobs : run[i].step = "idle"
        /\ unread' = unread /\ partial' = partial
    BY <1>1, <2>1 DEF Start, At, drive, gaps, TInv
  <2>3. \A i \in Jobs : run'[i].step \in {"idle", "archived"} /\ run'[i].todo = run[i].todo
    BY <1>1, <2>1, <2>2, RunMoves DEF From, Only, Keeps
  <2>4. (\A i \in Jobs : ~Loaded(i)) /\ (\A i \in Jobs : ~Loaded(i)')
    BY <2>2, <2>3 DEF Loaded, Cleared
  <2>5. Once
    BY <1>2, <2>2
  <2>6. OnRecord' /\ OneOfAKind'
    <3>1. Recorded' = Recorded
      BY <2>2 DEF Recorded, Hashed
    <3>2. QED
      BY <2>2, <2>4, <2>5, <3>1 DEF Once, OnRecord, OneOfAKind, KeyOf
  <2>7. ToDoIsNew'
    BY <2>2, <2>3, <2>5 DEF Once, ToDoIsNew, Succeeded
  <2>8. AllRead'
    BY <2>2, <2>5 DEF Once, AllRead
  <2>9. QED
    BY <2>3, <2>4, <2>6, <2>7, <2>8 DEF Once, SeenAll, IndexIsKnown, At
<1>5. CASE Next /\ (\/ \E j \in Jobs, n \in Notes : ClearRecord(j, n)
                    \/ Crash)
  BY <1>1, <1>5, NothingWrong DEF ClearRecord, Crash
<1>6. CASE UNCHANGED vars
  <2>1. /\ copies' = copies /\ record' = record /\ index' = index /\ run' = run
        /\ ~overlapped /\ events = 0 /\ unread' = unread /\ partial' = partial
    BY <1>1, <1>6 DEF vars, drive, memory, past, gaps
  <2>2. Once
    BY <1>2, <2>1
  <2>3. OnRecord' /\ OneOfAKind'
    BY <2>1, <2>2 DEF Once, OnRecord, OneOfAKind, KeyOf, Recorded, Hashed, Loaded, Cleared, At
  <2>4. SeenAll' /\ ToDoIsNew'
    BY <2>1, <2>2 DEF Once, SeenAll, ToDoIsNew, Succeeded
  <2>5. IndexIsKnown'
    BY <2>1, <2>2 DEF Once, IndexIsKnown, Recorded, Hashed, Loaded, Cleared, At, Note
  <2>6. QED
    BY <2>1, <2>2, <2>3, <2>4, <2>5 DEF Once, AllRead, At, Key, Note, Kind
<1>7. QED
  BY <1>1, <1>3, <1>4, <1>5, <1>6, StepOf

-----------------------------------------------------------------------------
(* The notes and runs whose body was left out.                              *)
GapInv == unread \subseteq Jobs /\ partial \subseteq Notes \X Jobs

LEMMA GapStart == Init => GapInv
BY DEF Init, GapInv

LEMMA GapStep == TInv /\ GapInv /\ [Next]_vars => GapInv'
<1>1. SUFFICES ASSUME TInv, GapInv, [Next]_vars PROVE GapInv'
  OBVIOUS
<1>2. CASE Next /\ \E j \in Jobs : Goes(j)
  <2>1. PICK j \in Jobs : Goes(j)
    BY <1>2
  <2>2. unread' \subseteq Jobs
    <3>1. \A f : BeginNote(j, f) => unread' \subseteq Jobs
      BY <1>1 DEF BeginNote, GapInv
    <3>2. FolderKnown(j) \/ UseFolders(j) \/ CreateFolder(j) => unread' \subseteq Jobs
      BY <1>1, <3>1 DEF FolderKnown, UseFolders, CreateFolder, gaps, GapInv
    <3>3. QED
      BY <1>1, <2>1, <3>2, Touches DEF GapInv
  <2>3. partial' \subseteq Notes \X Jobs
    <3>1. CASE SaveRecord(j)
      <4>1. Note(j) \in Notes
        BY <1>1, <3>1, NoteEnds DEF SaveRecord, At
      <4>2. <<Note(j), j>> \in Notes \X Jobs
        BY <4>1
      <4>3. \/ partial' \in {partial \cup {<<Note(j), j>>}, partial \ {<<Note(j), j>>}}
            \/ partial' = partial
        BY <3>1 DEF SaveRecord
      <4>4. QED
        BY <1>1, <4>2, <4>3 DEF GapInv
    <3>2. QED
      BY <1>1, <2>1, <3>1, Touches DEF GapInv
  <2>4. QED
    BY <2>2, <2>3 DEF GapInv
<1>3. CASE Next /\ (\/ \E j \in Jobs : Start(j)
                    \/ \E j \in Jobs, n \in Notes : ClearRecord(j, n)
                    \/ Crash)
  BY <1>1, <1>3 DEF Start, ClearRecord, Crash, gaps, GapInv
<1>4. CASE UNCHANGED vars
  BY <1>1, <1>4 DEF vars, gaps, GapInv
<1>5. QED
  BY <1>1, <1>2, <1>3, <1>4, StepOf

IInv == TInv /\ GapInv /\ AloneInv /\ CopiesInv /\ TruthInv /\ OnceInv

LEMMA ArchiveInductive == Spec => []IInv
<1>1. Init => IInv
  BY GapStart, TypesInit, AloneStart, CopiesStart, TruthStart, OnceStart DEF IInv
<1>2. IInv /\ [Next]_vars => IInv'
  BY TypesStep, GapStep, AloneStep, CopiesStep, TruthStep, OnceStep DEF IInv
<1>3. QED
  BY <1>1, <1>2, PTL DEF Spec

LEMMA InvIsSafe == IInv => ArchiveSafe
<1>1. SUFFICES ASSUME IInv PROVE ArchiveSafe
  OBVIOUS
<1>2. TypeInv
  <2>1. \A j \in Jobs : /\ run[j].step \in Steps /\ run[j].folder \in {NoFolder} \cup Folders
                        /\ run[j].step \in {"kind", "names", "upload"} => run[j].folder # NoFolder
    BY <1>1, InHandNow DEF IInv, RunType, InHand
  <2>2. \A f \in Folders : nameCache[f] = Unlisted \/ nameCache[f] \subseteq Files
    BY <1>1 DEF IInv, TInv
  <2>3. QED
    BY <1>1, <2>1, <2>2 DEF IInv, TInv, GapInv, TypeInv
<1>3. AloneIsTrue
  BY <1>1 DEF IInv, TruthInv, TrueRecords, Here, AloneIsTrue, RecordsAreTrue
<1>4. ASSUME ~blind, NEW f \in Folders, NEW x \in Files PROVE copies[f][x] <= MostCopies
  <2>1. /\ copies[f][x] \in Nat /\ Cardinality(Pending(f, x)) \in Nat /\ MostCopies \in Nat
        /\ Missing(f, x) \in {0, 1}
    BY <1>1, PendingIsFinite, JobsCount DEF IInv, TInv, MostCopies, Missing
  <2>2. copies[f][x] + Cardinality(Pending(f, x)) + Missing(f, x) <= MostCopies
    BY <1>1, <1>4 DEF IInv, CopiesInv, Missing
  <2>3. QED
    BY <2>1, <2>2
<1>5. AloneIsOnce
  BY <1>1, <1>4 DEF IInv, AloneInv, AloneIsOnce, MostCopies
<1>6. ContentOnce
  <2>1. SUFFICES ASSUME ~overlapped, ~(events > 0), NEW f \in Folders, NEW x \in Files,
                        NEW y \in Files, copies[f][x] > 0, copies[f][y] > 0,
                        x[2] = y[2], Text[x[1]][x[2]] = Text[y[1]][y[2]]
                 PROVE  x = y
    BY DEF ContentOnce
  <2>2. Once
    BY <1>1, <2>1 DEF IInv, TInv, OnceInv
  <2>3. KeyOf(f, x) = KeyOf(f, y)
    BY <2>1 DEF KeyOf
  <2>4. QED
    BY <2>1, <2>2, <2>3 DEF Once, OneOfAKind
<1>7. CopiesBounded
  <2>1. MostCopies <= Cardinality(Jobs) /\ MostCopies \in Nat /\ Cardinality(Jobs) \in Nat
    BY JobsCount DEF MostCopies
  <2>2. \A f \in Folders, x \in Files : copies[f][x] \in Nat
    BY <1>1 DEF IInv, TInv
  <2>3. QED
    BY <1>4, <2>1, <2>2 DEF CopiesBounded
<1>8. QED
  BY <1>2, <1>3, <1>5, <1>6, <1>7 DEF ArchiveSafe

(* Whatever the runs of the jobs do (note-archive.service.ts), overlapping, *)
(* failing, crashing, or with their records cleared meanwhile: as long as   *)
(* none overlapped, a record of success is true, and with full readings no  *)
(* file and no folder comes twice; when nothing went wrong no text comes    *)
(* twice; and with full readings overlapping runs make no more copies than  *)
(* there are jobs.                                                         *)
THEOREM ArchiveIsSafe == Spec => []ArchiveSafe
BY ArchiveInductive, InvIsSafe, PTL
=============================================================================
