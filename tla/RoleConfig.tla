----------------------------- MODULE RoleConfig -----------------------------
(***************************************************************************)
(* The roles and their permissions: one JSON value in a row of the         *)
(* configuration table, copied into the engine that authorizes every       *)
(* request.  Creating, changing or deleting a role reads the whole value,  *)
(* writes the whole value back and then loads the engine with it; a start  *)
(* of the server loads it too, after bringing the stored roles up to the   *)
(* current version once.  The table may answer with nothing while it is    *)
(* not ready, which the code takes for a fresh installation.               *)
(***************************************************************************)
EXTENDS Integers, Sequences, FiniteSets

CONSTANTS
    Editors,   \* requests that edit roles at the same time
    BuiltIn,   \* roles of the built-in matrix besides the administrator's
    Custom,    \* roles that may be added
    MaxRows, MaxEdits, MaxBlanks, MaxStops
               \* bounds: configuration rows, edits, wrongly empty answers, stops

RoleBounds == MaxRows \in Nat \ {0} /\ {MaxEdits, MaxBlanks, MaxStops} \subseteq Nat

VARIABLES
    rows,    \* the rows with this key, oldest first; the newest counts
    engine,  \* the roles in the engine (empty while the server is down)
    boot,    \* "down", the steps of the start, "up"
    job,     \* where each request stands; the start uses the entry of Server
    drift,   \* the engine was not loaded with the value that counts
    edits, blanks, stops

vars == <<rows, engine, boot, job, drift, edits, blanks, stops>>

Admin  == "admin"   \* its permissions are locked
Server == "server"
Roles  == {Admin} \cup BuiltIn \cup Custom

NamesApart == Server \notin Editors /\ Admin \notin BuiltIn \cup Custom

(* A permission of old ("view") and one of a module that the current        *)
(* version introduces, which goes to the older roles that have "view".      *)
Permissions == {"view", "read"}
Choices     == {{}, {"view"}}
Current     == 1

RoleType   == [permissions : SUBSET Permissions, version : 0..Current]
ConfigType == UNION {[D -> RoleType] : D \in SUBSET Roles}
None       == [r \in {} |-> {}]

defaultConfig ==
    [r \in {Admin} \cup BuiltIn |->
        [permissions |-> IF r = Admin THEN Permissions ELSE {"view", "read"}, version |-> Current]]

(* The value to be written, the row it goes to (0: a new one); late:        *)
(* another row was written since it was read; blank: it was read as nothing *)
(* though there was something.                                              *)
IdleJob == [step |-> "idle", role |-> Admin, config |-> None, row |-> 0, late |-> FALSE, blank |-> FALSE]

TypeInv ==
    /\ rows \in Seq(ConfigType) /\ Len(rows) <= MaxRows
    /\ engine \in ConfigType
    /\ boot \in {"down", "find", "write", "apply", "up"}
    /\ job \in [Editors \cup {Server} ->
                  [step : {"idle", "find", "write", "apply"}, role : Roles, config : ConfigType,
                   row : 0..MaxRows, late : BOOLEAN, blank : BOOLEAN]]
    /\ drift \in BOOLEAN
    /\ edits \in 0..MaxEdits /\ blanks \in 0..MaxBlanks /\ stops \in 0..MaxStops

Init ==
    /\ \/ rows = <<>>
       \/ \E choice \in Choices, version \in 0..Current :
             rows = <<[r \in {Admin} \cup BuiltIn |-> [permissions |-> choice, version |-> version]]>>
    /\ engine = None
    /\ boot = "down"
    /\ job = [e \in Editors \cup {Server} |-> IdleJob]
    /\ drift = FALSE
    /\ edits = 0 /\ blanks = 0 /\ stops = 0

-----------------------------------------------------------------------------
Stored == rows[Len(rows)]

(* Mutant: the locked role keeps the permissions it was stored with. *)
healLockedRoles_Nothing(config) == config

(* The administrator has every permission, whatever is stored. *)
healLockedRoles(config) ==
    IF Admin \in DOMAIN config THEN [config EXCEPT ![Admin].permissions = Permissions] ELSE config

(* A role of an older version gets what its old permissions imply of the    *)
(* new module; the others stay as they are.                                 *)
migratePermissions(config) ==
    [r \in DOMAIN config |->
        IF config[r].version = Current THEN config[r]
        ELSE [permissions |-> config[r].permissions \cup (IF "view" \in config[r].permissions THEN {"read"} ELSE {}),
              version |-> Current]]

(* readStored: the newest row, or nothing; an answer that is empty although *)
(* there is a row is counted.                                               *)
Answers == {[empty |-> rows = <<>>, wrong |-> FALSE]}
           \cup (IF rows # <<>> /\ blanks < MaxBlanks THEN {[empty |-> TRUE, wrong |-> TRUE]} ELSE {})

Counted(answer) == blanks' = IF answer.wrong THEN blanks + 1 ELSE blanks

(* Mutant: the roles that are not written stay in the engine. *)
applyToEngine_Merges(config) ==
    engine' = [r \in DOMAIN engine \cup DOMAIN config |->
                 IF r \in DOMAIN config THEN healLockedRoles(config)[r] ELSE engine[r]]

(* The engine forgets what it had and takes these roles. *)
applyToEngine(config) == engine' = healLockedRoles(config)

-----------------------------------------------------------------------------
(* ensureLoaded: the stored roles are brought up to date and written first, *)
(* or the built-in matrix is used for this run of the server.               *)
Start ==
    /\ boot = "down"
    /\ \E answer \in Answers :
          LET config == IF answer.empty THEN defaultConfig ELSE Stored
              next   == IF ~answer.empty /\ migratePermissions(config) # config THEN "find" ELSE "apply"
          IN  /\ boot' = next
              /\ job' = [job EXCEPT ![Server] =
                           [IdleJob EXCEPT !.step = next, !.blank = answer.wrong,
                                           !.config = IF answer.empty THEN config ELSE migratePermissions(config)]]
              /\ Counted(answer)
    /\ UNCHANGED <<rows, engine, drift, edits, stops>>

(* Mutant: the change starts from the built-in matrix. *)
Edit_FromDefault(e) ==
    /\ boot = "up" /\ job[e].step = "idle" /\ edits < MaxEdits
    /\ edits' = edits + 1
    /\ \E role \in Roles, choice \in Choices :
          /\ role \in DOMAIN defaultConfig
          /\ job' = [job EXCEPT ![e] =
                       [IdleJob EXCEPT !.step = "find", !.role = role,
                          !.config = [defaultConfig EXCEPT ![role] = [permissions |-> choice, version |-> Current]]]]
    /\ UNCHANGED <<rows, engine, boot, drift, blanks, stops>>

(* createRole, updateRole, deleteRole: from what is read, or from the       *)
(* built-in matrix when nothing is.  The administrator's permissions are    *)
(* not changed and the role is not deleted; its name may be, as any other.  *)
Edit(e) ==
    /\ boot = "up" /\ job[e].step = "idle" /\ edits < MaxEdits
    /\ edits' = edits + 1
    /\ \E answer \in Answers :
          LET config == IF answer.empty THEN defaultConfig ELSE Stored
              Writes(role, edited) ==
                  job' = [job EXCEPT ![e] = [IdleJob EXCEPT !.step = "find", !.role = role,
                                                            !.blank = answer.wrong, !.config = edited]]
              entry(choice) == [permissions |-> choice, version |-> Current]
          IN  /\ Counted(answer)
              /\ \/ \E role \in Roles \ DOMAIN config, choice \in Choices :
                       Writes(role, [r \in DOMAIN config \cup {role} |->
                                       IF r = role THEN entry(choice) ELSE config[r]])
                 \/ \E role \in DOMAIN config \ {Admin}, choice \in Choices :
                       Writes(role, [config EXCEPT ![role] = entry(choice)])
                 \/ \E role \in DOMAIN config :
                       Writes(role, [config EXCEPT ![role].version = Current])
                 \/ \E role \in DOMAIN config \ {Admin} :
                       Writes(role, [r \in DOMAIN config \ {role} |-> config[r]])
    /\ UNCHANGED <<rows, engine, boot, drift, stops>>

Stage(e) == IF e = Server THEN boot' = job'[e].step ELSE UNCHANGED boot

(* persist looks for the row: *)
FindRecord(e) ==
    /\ job[e].step = "find"
    /\ \E answer \in Answers :
          /\ job' = [job EXCEPT ![e].step = "write", ![e].row = IF answer.empty THEN 0 ELSE Len(rows)]
          /\ Counted(answer)
    /\ Stage(e)
    /\ UNCHANGED <<rows, engine, drift, edits, stops>>

(* writes it, or a new one: *)
Persist(e) ==
    /\ job[e].step = "write"
    /\ IF job[e].row = 0
       THEN Len(rows) < MaxRows /\ rows' = Append(rows, healLockedRoles(job[e].config))
       ELSE rows' = [rows EXCEPT ![job[e].row] = healLockedRoles(job[e].config)]
    /\ job' = [f \in DOMAIN job |->
                 IF f = e THEN [job[e] EXCEPT !.step = "apply", !.late = FALSE]
                 ELSE [job[f] EXCEPT !.late = @ \/ job[f].step # "idle"]]
    /\ drift' = (drift \/ job[e].row \notin {0, Len(rows)})
    /\ Stage(e)
    /\ UNCHANGED <<engine, edits, blanks, stops>>

(* and loads the engine, once the write is answered. *)
Apply(e) ==
    /\ job[e].step = "apply"
    /\ applyToEngine(job[e].config)
    /\ drift' = (job[e].late \/ job[e].blank \/ (job[e].row # 0 /\ job[e].row # Len(rows)))
    /\ job' = [job EXCEPT ![e] = IdleJob]
    /\ boot' = IF e = Server THEN "up" ELSE boot
    /\ UNCHANGED <<rows, edits, blanks, stops>>

(* The process stops, in the middle of whatever it does. *)
Stop ==
    /\ boot # "down" /\ stops < MaxStops
    /\ stops' = stops + 1
    /\ boot' = "down"
    /\ engine' = None
    /\ job' = [e \in DOMAIN job |-> IdleJob]
    /\ drift' = FALSE
    /\ UNCHANGED <<rows, edits, blanks>>

Next ==
    \/ Start \/ Stop
    \/ \E e \in Editors : Edit(e)
    \/ \E e \in Editors \cup {Server} : FindRecord(e) \/ Persist(e) \/ Apply(e)

Spec == Init /\ [][Next]_vars

-----------------------------------------------------------------------------
(* Once the server is up the administrator may do everything, whatever was  *)
(* stored and whatever edits overlap (role-management.service.ts:308).      *)
AdminIsFull == boot = "up" => Admin \in DOMAIN engine /\ engine[Admin].permissions = Permissions

(* When no edit is under way the engine has the roles that are stored,      *)
(* unless two edits overlapped, or the built-in matrix was used because the *)
(* table had answered with nothing.                                         *)
EngineFollows ==
    boot = "up" /\ ~drift /\ (\A e \in Editors : job[e].step = "idle") /\ rows # <<>>
       => engine = healLockedRoles(Stored)

Holds(config, r) == IF r \in DOMAIN config THEN config[r].permissions ELSE {}

(* A stored role changes only by an edit of that role, or once when its     *)
(* version is old (a permission taken away does not come back with a        *)
(* restart, role-management.service.ts:47), unless the writer was overtaken *)
(* or had read nothing.                                                     *)
RolesChangeByEdit ==
    [][\A r \in Roles \ {Admin}, e \in Editors \cup {Server} :
          (/\ job[e].step = "write" /\ job'[e].step = "apply"
           /\ rows # <<>> /\ ~job[e].late /\ ~job[e].blank
           /\ Holds(rows'[Len(rows')], r) # Holds(Stored, r))
             => \/ e # Server /\ r = job[e].role
                \/ e = Server /\ Stored[r].version < Current]_vars
=============================================================================
