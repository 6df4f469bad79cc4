------------------------------ MODULE Recovery ------------------------------
(***************************************************************************)
(* Three things that jobs put right in time, whatever failed before: the   *)
(* state of an AI account (AiAccount), the bodies and recordings of notes  *)
(* (NoteBody) and the archive of a mail account (MailArchive).  They share *)
(* no record, so a behaviour exercises one of them, chosen at the start.   *)
(***************************************************************************)
EXTENDS AiAccount

CONSTANTS
    Notes, Viewers, Jobs, Nightly, MaxRev, MaxOpens, MaxFailures,
    Rounds, MaxMails, MaxFaults, MaxButtons,
    DayLimit    \* of the instance's account, below

VARIABLES
    active,
    note, body, task, opens, failures, keyless, always,
    box, bad, filtered, rows, sync, buttons, faults

Body  == INSTANCE NoteBody WITH up <- note, row <- body
Mail  == INSTANCE MailArchive

ASSUME BodyAssumption  == Body!BodyAssumption
ASSUME MailAssumption  == Mail!MailAssumption

bodyVars  == <<note, body, task, opens, failures, keyless, always>>
mailVars  == <<box, bad, filtered, rows, sync, buttons, faults>>
allVars   == <<active, vars, bodyVars, mailVars>>

RecoveryInit ==
    /\ active \in {"account", "body", "mail"}
    /\ Init /\ Mail!Init
    /\ Body!Init /\ (active = "body" \/ (keyless = {} /\ \A n \in Notes : note[n].has = "nothing"))

InAccount(A) == active = "account" /\ A /\ UNCHANGED <<active, bodyVars, mailVars>>
InBody(A)    == active = "body"    /\ A /\ UNCHANGED <<active, vars, mailVars>>
InMail(A)    == active = "mail"    /\ A /\ UNCHANGED <<active, vars, bodyVars>>

RecoveryNext ==
    InAccount(Next) \/ InBody(Body!Next) \/ InMail(Mail!Next)

(* The fairness of each module, for the one that is exercised.             *)
RecoveryFairness ==
    /\ \A a \in Actors : WF_allVars(InAccount(Step(a)))
    /\ \A w \in Workers : WF_allVars(InAccount(Clear(w)))
    /\ WF_allVars(InAccount(Probe)) /\ WF_allVars(InAccount(Refresh)) /\ WF_allVars(InAccount(Tick))
    /\ \A t \in Viewers \cup Jobs : WF_allVars(InBody(Body!Works(t)))
    /\ WF_allVars(InBody(Body!Run(Nightly)))
    /\ \A s \in Mail!Syncs : WF_allVars(InMail(Mail!Works(s)))
    /\ WF_allVars(InMail(Mail!StartRound))

RecoverySpec == RecoveryInit /\ [][RecoveryNext]_allVars /\ RecoveryFairness

-----------------------------------------------------------------------------
(* A stored recording is dropped, and a body replaced by an older one, only *)
(* by a writer that missed it (NoteBody!BodyKept); a mail is archived again *)
(* only by a sync that met another, and at most once for each of those that *)
(* can be under way together (MailArchive!MailKept).                        *)
StoresKept == Body!BodyKept /\ Mail!MailKept

(* In the end every recording is fetched for which there is a credential    *)
(* (NoteBody!AllFetched), and every mail archived that no broken one blocks *)
(* (MailArchive!EveryMailArchived).                                         *)
StoresComplete == Body!AllFetched /\ Mail!EveryMailArchived

-----------------------------------------------------------------------------
(* For TLC: an account with a daily quota, which expires at the last tick   *)
(* of the clock.                                                           *)
MCNewAccount ==
    [enabled |-> TRUE, manual |-> FALSE, expiresAt |-> Horizon - 1, autoPause |-> TRUE,
     rateUntil |-> 0, overUntil |-> 0, tempUntil |-> 0,
     dayLimit |-> DayLimit, dayUsed |-> 0, dayMark |-> 0,
     monthLimit |-> 0, monthUsed |-> 0, monthMark |-> 0,
     health |-> "normal", fails |-> 0, stored |-> "schedulable"]
=============================================================================
