--------------------------- MODULE MCNoteArchive ----------------------------
(* An instance of NoteArchive for TLC: job `idp` applies to the second note *)
(* only, job `all` to both; the two notes have one text in common.          *)
EXTENDS NoteArchive, TLC

CONSTANTS all, idp, n1, n2, pat

MCCand  == (all :> {n1, n2}) @@ (idp :> {n2})
MCOwner == (n1 :> pat) @@ (n2 :> pat)
MCKinds == <<"detail", "summary">>
MCOwn   == <<"summary">>
MCNotes == <<n1, n2>>
MCText  == (n1 :> [detail |-> "same", summary |-> Empty])
        @@ (n2 :> [detail |-> "same", summary |-> "own"])
=============================================================================
