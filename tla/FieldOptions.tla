---------------------------- MODULE FieldOptions ----------------------------
(***************************************************************************)
(* The options of one select field and the cache of field definitions in   *)
(* the SQL store.  The cache has no lifetime: a reader fills it, every     *)
(* change deletes it.  Options are changed by reading the list, merging    *)
(* and writing the whole list back: a new tag of a record (ensureOptions), *)
(* the roles of the permission configuration (syncRoleOptions), and the    *)
(* role that was deleted (removeRoleOption), which stays when a user has   *)
(* it.  Every query is awaited; the cache is touched between queries.      *)
(***************************************************************************)
EXTENDS Integers, FiniteSets

CONSTANTS Tasks, Options

VARIABLES
    options,   \* the field's options in the database
    cache,     \* the lists the cache holds: none or one
    assigned,  \* options that some user record has
    task,      \* where each request stands
    sticky     \* the cache was filled from a reading made before the last change

vars == <<options, cache, assigned, task, sticky>>

Kinds == {"read", "ensure", "sync", "remove"}
Steps == {"idle", "used", "list", "fill", "select", "write", "clear"}

(* over: the field has been changed since the list seen was read from the   *)
(* database; given: the option was given to a user since the request began. *)
IdleTask == [kind |-> "read", step |-> "idle", arg |-> {}, seen |-> {},
             over |-> FALSE, given |-> FALSE]

TypeInv ==
    /\ options \subseteq Options
    /\ cache \in {{}} \cup {{list} : list \in SUBSET Options}
    /\ assigned \subseteq Options
    /\ task \in [Tasks -> [kind : Kinds, step : Steps, arg : SUBSET Options,
                           seen : SUBSET Options, over : BOOLEAN, given : BOOLEAN]]
    /\ sticky \in BOOLEAN

Init ==
    /\ options \in SUBSET Options
    /\ cache = {}
    /\ assigned = {}
    /\ task = [t \in Tasks |-> IdleTask]
    /\ sticky = FALSE

-----------------------------------------------------------------------------
Goes(t, step) == task' = [task EXCEPT ![t] = IF step = "idle" THEN IdleTask ELSE [@ EXCEPT !.step = step]]

Clearing == \E t \in Tasks : task[t].step = "clear"

(* Where a request goes with the list it has been given: on only if there   *)
(* is something to add, or to remove.                                       *)
AfterList(kind, arg, list) ==
    CASE kind = "read"   -> "idle"
      [] kind = "ensure" -> IF arg \subseteq list THEN "idle" ELSE "write"
      [] kind = "sync"   -> IF arg \subseteq list THEN "idle" ELSE "select"
      [] kind = "remove" -> IF arg \cap list = {} THEN "idle" ELSE "write"

(* A record is read (fieldsOf), a tag is saved, or a role is kept or        *)
(* deleted.                                                                 *)
Begin(t) ==
    /\ task[t].step = "idle"
    /\ \E kind \in Kinds, o \in Options :
          task' = [task EXCEPT ![t] =
                     [IdleTask EXCEPT !.kind = kind,
                                      !.step = IF kind = "remove" THEN "used" ELSE "list",
                                      !.arg = IF kind = "read" THEN {} ELSE {o}]]
    /\ UNCHANGED <<options, cache, assigned, sticky>>

(* Mutant: a role that is in use loses its option as well. *)
CheckUsed_Skips(t) ==
    /\ task[t].step = "used"
    /\ Goes(t, "list")
    /\ UNCHANGED <<options, cache, assigned, sticky>>

(* removeRoleOption: a role that a user has keeps its option. *)
CheckUsed(t) ==
    /\ task[t].step = "used"
    /\ Goes(t, IF task[t].arg \cap assigned # {} THEN "idle" ELSE "list")
    /\ UNCHANGED <<options, cache, assigned, sticky>>

(* fieldsOf: the cached list. *)
ListCached(t) ==
    /\ task[t].step = "list"
    /\ \E list \in cache :
          LET next == AfterList(task[t].kind, task[t].arg, list)
          IN  task' = [task EXCEPT ![t] =
                         IF next = "idle" THEN IdleTask
                         ELSE [@ EXCEPT !.step = next, !.seen = list, !.over = sticky \/ Clearing]]
    /\ UNCHANGED <<options, cache, assigned, sticky>>

(* fieldsOf: the query. *)
ListQuery(t) ==
    /\ task[t].step = "list"
    /\ cache = {}
    /\ task' = [task EXCEPT ![t].step = "fill", ![t].seen = options]
    /\ UNCHANGED <<options, cache, assigned, sticky>>

(* fieldsOf: its answer goes into the cache, whatever changed meanwhile. *)
FillCache(t) ==
    /\ task[t].step = "fill"
    /\ cache' = {task[t].seen}
    /\ sticky' = task[t].over
    /\ Goes(t, AfterList(task[t].kind, task[t].arg, task[t].seen))
    /\ UNCHANGED <<options, assigned>>

(* addFieldOptions reads the property again. *)
SelectField(t) ==
    /\ task[t].step = "select"
    /\ task' = [task EXCEPT ![t].step = "write", ![t].seen = options, ![t].over = FALSE]
    /\ UNCHANGED <<options, cache, assigned, sticky>>

(* The UPDATE of updateField and addFieldOptions: the whole list. *)
WriteField(t) ==
    /\ task[t].step = "write"
    /\ options' = IF task[t].kind = "remove" THEN task[t].seen \ task[t].arg
                                             ELSE task[t].seen \cup task[t].arg
    /\ task' = [u \in Tasks |-> IF u = t THEN [task[u] EXCEPT !.step = "clear"]
                                ELSE [task[u] EXCEPT !.over = @ \/ task[u].step \in {"fill", "write"}]]
    /\ UNCHANGED <<cache, assigned, sticky>>

(* Mutant: the cache is left alone by a removal. *)
ClearCache_NotRemoved(t) ==
    /\ task[t].step = "clear"
    /\ cache' = IF task[t].kind = "remove" THEN cache ELSE {}
    /\ sticky' = FALSE
    /\ Goes(t, "idle")
    /\ UNCHANGED <<options, assigned>>

(* fieldCache.delete once the UPDATE is answered. *)
ClearCache(t) ==
    /\ task[t].step = "clear"
    /\ cache' = {}
    /\ sticky' = FALSE
    /\ Goes(t, "idle")
    /\ UNCHANGED <<options, assigned>>

(* A user record is saved with an option, or without it. *)
Assign(o) ==
    /\ o \in options \ assigned
    /\ assigned' = assigned \cup {o}
    /\ task' = [t \in Tasks |-> [task[t] EXCEPT !.given = @ \/ o \in task[t].arg]]
    /\ UNCHANGED <<options, cache, sticky>>

Unassign(o) ==
    /\ o \in assigned
    /\ assigned' = assigned \ {o}
    /\ UNCHANGED <<options, cache, task, sticky>>

Next ==
    \/ \E t \in Tasks :
          \/ Begin(t) \/ CheckUsed(t) \/ ListCached(t) \/ ListQuery(t) \/ FillCache(t)
          \/ SelectField(t) \/ WriteField(t) \/ ClearCache(t)
    \/ \E o \in Options : Assign(o) \/ Unassign(o)

Spec == Init /\ [][Next]_vars

-----------------------------------------------------------------------------
(* The cached list is the one in the database, except between the UPDATE of *)
(* a change and its deletion of the cache, and after a reader has put a     *)
(* list there that a change had overtaken (which then stays for ever).      *)
StaleHasCause ==
    \/ cache \subseteq {options}
    \/ sticky
    \/ Clearing

(* An option goes only when its role is deleted and no user had it when     *)
(* that began, unless the list that is written back was read before another *)
(* change or came from a cache that was: requests that do not overlap never *)
(* lose an option that another one has added.                               *)
NothingLost ==
    [][\A o \in options \ options', t \in Tasks :
          task[t].step = "write" /\ task'[t].step = "clear" /\ ~task[t].over
             => task[t].kind = "remove" /\ task[t].arg = {o} /\ (o \in assigned => task[t].given)]_vars
=============================================================================
