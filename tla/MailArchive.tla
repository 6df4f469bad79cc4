---------------------------- MODULE MailArchive ----------------------------
(***************************************************************************)
(* Archiving the mail of one account (mail-archive.service.ts).  A sync    *)
(* loads the set of mails archived so far, then goes through the inbox and *)
(* the sent folder in order and stores what is not in the set.  One sync   *)
(* is started by the account's button, which starts no second one; others  *)
(* are part of rounds over all accounts (syncAll), which do not look:      *)
(* neither the timer, which does not wait for its last round, nor the      *)
(* route that starts one by hand.  So any number may meet.                 *)
(*                                                                         *)
(* A mail that cannot be parsed ends the sync, whatever comes after it.    *)
(***************************************************************************)
EXTENDS Naturals, FiniteSets

CONSTANTS
  Rounds,       \* bound: the rounds over all accounts that are under way together
  MaxMails,     \* bound: mails that arrive
  MaxFaults,    \* bound: calls that fail, and crashes
  MaxButtons    \* bound: syncs started by the button

MailAssumption ==
  /\ {MaxMails, MaxFaults, MaxButtons} \subseteq Nat
  /\ IsFiniteSet(Rounds) /\ Rounds # {} /\ "button" \notin Rounds

VARIABLES
  box,          \* how many mails each folder has; uids are 1, 2, ...
  bad,          \* the mails that cannot be parsed
  filtered,     \* the mails the account's filter refuses
  rows,         \* how often each mail is archived
  sync,         \* the syncs under way
  buttons, faults

mailVars == <<box, bad, filtered, rows, sync, buttons, faults>>

Syncs == {"button"} \cup Rounds
Folders == {"INBOX", "sent"}
Mails == Folders \X (1..MaxMails)
\* existing is loadExistingUids' set, last what the folder had when it was
\* searched, uid the next to look at; shared (history): another sync was under
\* way at some time since the set was loaded.
Off == [at |-> "off", existing |-> {}, folder |-> "INBOX", uid |-> 1, last |-> 0,
        shared |-> FALSE]

Init ==
  /\ box = [f \in Folders |-> 0]
  /\ bad = {} /\ filtered = {}
  /\ rows = [m \in Mails |-> 0]
  /\ sync = [s \in Syncs |-> Off]
  /\ buttons = 0 /\ faults = 0

OtherOn(s) == \E r \in Syncs \ {s} : sync[r].at # "off"

Arrive(f) ==
  /\ box["INBOX"] + box["sent"] < MaxMails
  /\ box' = [box EXCEPT ![f] = @ + 1]
  /\ \E kind \in {"good", "bad", "filtered"} :
       /\ bad' = IF kind = "bad" THEN bad \cup {<<f, box[f] + 1>>} ELSE bad
       /\ filtered' = IF kind = "filtered" THEN filtered \cup {<<f, box[f] + 1>>} ELSE filtered
  /\ UNCHANGED <<rows, sync, buttons, faults>>

(***************************************************************************)
(* syncAccount.                                                            *)
(***************************************************************************)
\* startSync answers with the sync it has; a round starts one of its own.
Start(s) ==
  /\ sync[s].at = "off"
  /\ s = "button" => buttons < MaxButtons
  /\ buttons' = IF s = "button" THEN buttons + 1 ELSE buttons
  /\ sync' = [sync EXCEPT ![s].at = "load"]
  /\ UNCHANGED <<box, bad, filtered, rows, faults>>

\* Mutant: the mails archived so far are not loaded.
Load_Nothing(s) ==
  /\ sync[s].at = "load"
  /\ sync' = [sync EXCEPT ![s].at = "open", ![s].shared = OtherOn(s)]
  /\ UNCHANGED <<box, bad, filtered, rows, buttons, faults>>

Load(s) ==
  /\ sync[s].at = "load"
  /\ sync' = [r \in Syncs |->
       IF r = s THEN [Off EXCEPT !.at = "open", !.shared = OtherOn(s),
                                 !.existing = {m \in Mails : rows[m] > 0}]
       ELSE [sync[r] EXCEPT !.shared = @ \/ sync[r].at # "off"]]
  /\ UNCHANGED <<box, bad, filtered, rows, buttons, faults>>

Folder(s) == sync[s].folder
\* Mutant: the sync is over after the inbox.
Closed_Inbox(s) == Off

Closed(s) == IF Folder(s) = "INBOX" THEN [sync[s] EXCEPT !.at = "open", !.folder = "sent"]
             ELSE Off

Open(s) ==
  /\ sync[s].at = "open"
  /\ sync' = [sync EXCEPT ![s].at = "mails", ![s].uid = 1, ![s].last = box[Folder(s)]]
  /\ UNCHANGED <<box, bad, filtered, rows, buttons, faults>>

Fault == faults < MaxFaults /\ faults' = faults + 1
\* A folder that cannot be opened is noted and left out.
OpenFails(s) ==
  /\ sync[s].at = "open" /\ Fault
  /\ sync' = [sync EXCEPT ![s] = Closed(s)]
  /\ UNCHANGED <<box, bad, filtered, rows, buttons>>

Mail(s) == <<Folder(s), sync[s].uid>>
HasMail(s) == sync[s].at = "mails" /\ sync[s].uid <= sync[s].last
Advance(s) == sync' = [sync EXCEPT ![s].uid = @ + 1]

Skip(s) ==
  /\ HasMail(s) /\ Mail(s) \in sync[s].existing \cup filtered
  /\ Advance(s)
  /\ UNCHANGED <<box, bad, filtered, rows, buttons, faults>>

Unparsable(s) ==
  /\ HasMail(s) /\ Mail(s) \in bad \ sync[s].existing
  /\ sync' = [sync EXCEPT ![s] = Off]
  /\ UNCHANGED <<box, bad, filtered, rows, buttons, faults>>

ToArchive(s) == HasMail(s) /\ Mail(s) \notin sync[s].existing \cup filtered \cup bad

archiveOne(s) ==
  /\ ToArchive(s)
  /\ rows' = [rows EXCEPT ![Mail(s)] = @ + 1]
  /\ sync' = [sync EXCEPT ![s].uid = @ + 1, ![s].existing = @ \cup {Mail(s)}]
  /\ UNCHANGED <<box, bad, filtered, buttons, faults>>

\* Mutant: the mail is tried again at once.
archiveOneFails_Retries(s) ==
  /\ ToArchive(s) /\ Fault
  /\ \E stored \in BOOLEAN : rows' = IF stored THEN [rows EXCEPT ![Mail(s)] = @ + 1] ELSE rows
  /\ UNCHANGED <<box, bad, filtered, sync, buttons>>

\* Whatever fails ends the sync, be the row stored or not.
archiveOneFails(s) ==
  /\ ToArchive(s) /\ Fault
  /\ \E stored \in BOOLEAN : rows' = IF stored THEN [rows EXCEPT ![Mail(s)] = @ + 1] ELSE rows
  /\ sync' = [sync EXCEPT ![s] = Off]
  /\ UNCHANGED <<box, bad, filtered, buttons>>

Close(s) ==
  /\ sync[s].at = "mails" /\ sync[s].uid > sync[s].last
  /\ sync' = [sync EXCEPT ![s] = Closed(s)]
  /\ UNCHANGED <<box, bad, filtered, rows, buttons, faults>>

Crash ==
  /\ Fault /\ sync' = [s \in Syncs |-> Off]
  /\ UNCHANGED <<box, bad, filtered, rows, buttons>>

Works(s) ==
  Load(s) \/ Open(s) \/ Skip(s) \/ Unparsable(s) \/ archiveOne(s) \/ Close(s)

Next ==
  \/ \E s \in Syncs : Start(s) \/ Works(s) \/ OpenFails(s) \/ archiveOneFails(s)
  \/ \E f \in Folders : Arrive(f)
  \/ Crash

\* A sync goes on (every call of it has a time limit), and the timer comes again.
StartRound == \E s \in Rounds : Start(s)
Fairness == (\A s \in Syncs : WF_mailVars(Works(s))) /\ WF_mailVars(StartRound)
Spec == Init /\ [][Next]_mailVars /\ Fairness

TypeInv ==
  /\ box \in [Folders -> 0..MaxMails] /\ bad \cup filtered \subseteq Mails
  /\ rows \in [Mails -> Nat]
  /\ \A s \in Syncs : sync[s].existing \subseteq Mails /\ sync[s].uid <= MaxMails + 1

(***************************************************************************)
(* Properties.                                                             *)
(***************************************************************************)
\* "Not to collect the same mails twice" (startSync): a mail is stored again only
\* by a sync that had company, whatever failed before, and never more often than
\* syncs can be under way together.  Nothing but the number of rounds that meet
\* keeps it from a third time.
StoredTwiceOnlyInCompany ==
  [][\A m \in Mails : rows'[m] > rows[m] /\ rows[m] > 0 =>
       \E s \in Syncs : Mail(s) = m /\ sync[s].shared /\ sync'[s] # sync[s]]_mailVars
CopiesBounded == \A m \in Mails : rows[m] <= Cardinality(Syncs)

\* A mail comes before another in the order in which every sync meets them.
Before(m, o) ==
  \/ m[1] = o[1] /\ m[2] < o[2]
  \/ m[1] = "INBOX" /\ o[1] = "sent"
Here(m) == m[2] <= box[m[1]]

\* In the end every mail is archived that the filter lets through and that no
\* unparsable mail comes before.
EveryMailArchived ==
  <>[](\A m \in Mails : Here(m) /\ m \notin bad \cup filtered /\ (\A b \in bad : ~Before(b, m))
         => rows[m] > 0)

\* What the archive keeps.
MailKept == [](TypeInv /\ CopiesBounded) /\ StoredTwiceOnlyInCompany

=============================================================================
