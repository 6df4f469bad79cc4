SPECIFICATION FairSpec
CONSTANTS
    all = all
    idp = idp
    n1 = n1
    n2 = n2
    pat = pat
    Empty = Empty
    Nobody = Nobody
    Jobs = {all, idp}
    NoteOrder <- MCNotes
    Cand <- MCCand
    Owner <- MCOwner
    KindOrder <- MCKinds
    OwnOrder <- MCOwn
    Text <- MCText
    MaxFolders = 3
    MaxEvents = 1
INVARIANT RecordsAreTrue
