------------------------------ MODULE RoomBusy ------------------------------
(***************************************************************************)
(* Finding a free meeting room (meeting-room.service.ts) on one day: the   *)
(* table of rooms that a sync fills, the cache of what is taken, the one   *)
(* fetch that callers share, and its two sources.  freebusy answers for    *)
(* any day but may not be permitted; the list of reservations answers only *)
(* once the day's window has begun.  Without an answer the result is       *)
(* "degraded": findFree then finds nothing, and the page is drawn grey.    *)
(*                                                                         *)
(* One room stands for a batch of twenty: each is a call of its own.       *)
(***************************************************************************)
EXTENDS Naturals, FiniteSets

CONSTANTS
  Rooms,       \* the rooms there may be
  Visitors,    \* callers of availability (the page) and of findFree
  Opens,       \* when the window of the day begins (08:00)
  TTL,         \* BUSY_TTL_MS
  Retry,       \* FREEBUSY_RETRY_MS
  MaxTime,     \* bound: the clock
  MaxAsks,     \* bound: calls
  MaxSyncs,    \* bound: syncs begun
  MaxFaults    \* bound: calls that fail

RoomAssumption ==
  /\ IsFiniteSet(Rooms) /\ Rooms # {}
  /\ {Opens, TTL, Retry, MaxTime, MaxAsks, MaxSyncs, MaxFaults} \subseteq Nat
  /\ 0 < TTL /\ TTL < Retry

VARIABLES
  time,        \* the clock, from 1: 0 is "never"
  local,       \* the rooms of the local table
  sync,        \* whether a sync is running, and the rooms it still has to write
  permitted,   \* whether freebusy is permitted
  checkedAt,   \* freebusyCheckedAt
  cache,       \* busyCache of the day
  fetch,       \* busyInFlight of the day
  visitor,     \* what each caller is doing, and what it was told
  asks, syncs, faults,
  tried,       \* history: when freebusy was last called
  unsettled    \* history: rooms written by a sync that has not cleared the cache

vars == <<time, local, sync, permitted, checkedAt, cache, fetch, visitor,
          asks, syncs, faults, tried, unsettled>>
counts == <<asks, syncs, faults>>

Off == [on |-> FALSE, left |-> {}]
\* asked are the rooms of the fetch, asOf the number of syncs when their list
\* was read; read (history) are those the source has answered for.
NoResult == [at |-> 0, putAt |-> 0, degraded |-> TRUE, busy |-> {}, asked |-> {},
             asOf |-> 0, read |-> {}, unknown |-> {}]
NoFetch == [way |-> "none", left |-> {}, asked |-> {}, asOf |-> 0, busy |-> {},
            read |-> {}, unknown |-> {}, since |-> 0]
\* page: the caller is the page, which shows the rooms with what is taken.
Gone == [at |-> "idle", page |-> FALSE, rooms |-> {}, asOf |-> 0, free |-> {}, from |-> NoResult,
         excused |-> {}]

Init ==
  /\ time = 1 /\ local = {CHOOSE r \in Rooms : TRUE} /\ sync = Off
  /\ permitted \in BOOLEAN
  /\ checkedAt = 0 /\ cache = NoResult /\ fetch = NoFetch
  /\ visitor = [v \in Visitors |-> Gone]
  /\ asks = 0 /\ syncs = 0 /\ faults = 0
  /\ tried = 0 /\ unsettled = {}

\* BusyResult of the fetch that is under way.
Result(degraded, busy, unknown) ==
  [at |-> time, putAt |-> syncs, degraded |-> degraded, busy |-> busy,
   asked |-> fetch.asked, asOf |-> fetch.asOf, read |-> fetch.read, unknown |-> unknown]

\* Mutant: a degraded result is used like any other.
Told_Degraded(v, list, result) ==
  [at |-> "told", page |-> visitor[v].page, rooms |-> {}, asOf |-> 0,
   free |-> list \ result.busy, from |-> result, excused |-> unsettled]

\* Of the rooms listed, those that are not taken: the page has them all from a
\* degraded result too, and greys them; findFree has none.
Told(v, list, result) ==
  [at |-> "told", page |-> visitor[v].page, rooms |-> {}, asOf |-> 0,
   free |-> IF result.degraded /\ ~visitor[v].page THEN {} ELSE list \ result.busy,
   from |-> result, excused |-> unsettled]

\* The fetch ends: its result, good or bad, is cached and all who wait get it.
Finish(result) ==
  /\ cache' = result /\ fetch' = NoFetch
  /\ visitor' = [v \in Visitors |-> IF visitor[v].at = "wait"
                                    THEN Told(v, visitor[v].rooms, result) ELSE visitor[v]]

(***************************************************************************)
(* availability, for the page or in findFree: the list of rooms, then what *)
(* is taken.                                                               *)
(***************************************************************************)
List(v) ==
  /\ visitor[v].at = "idle" /\ asks < MaxAsks /\ asks' = asks + 1
  /\ \E page \in BOOLEAN :
       visitor' = [visitor EXCEPT ![v] = [Gone EXCEPT !.at = "look", !.page = page,
                                                      !.rooms = local, !.asOf = syncs]]
  /\ UNCHANGED <<time, local, sync, permitted, checkedAt, cache, fetch, syncs, faults,
                 tried, unsettled>>

reservationWindowAllowed == Opens <= time
freebusyUsable == checkedAt = 0 \/ time - checkedAt > Retry
\* Mutant: the cached result has no lifetime.
Fresh_Always == cache.at # 0

Fresh == cache.at # 0 /\ time - cache.at < TTL

Hit(v) ==
  /\ visitor[v].at = "look" /\ Fresh
  /\ visitor' = [visitor EXCEPT ![v] = Told(v, @.rooms, cache)]
  /\ UNCHANGED <<time, local, sync, permitted, checkedAt, cache, fetch, counts,
                 tried, unsettled>>

Join(v) ==
  /\ visitor[v].at = "look" /\ ~Fresh /\ fetch # NoFetch
  /\ visitor' = [visitor EXCEPT ![v].at = "wait"]
  /\ UNCHANGED <<time, local, sync, permitted, checkedAt, cache, fetch, counts,
                 tried, unsettled>>

\* The start of the fetch; a day that neither source answers for ends it at once.
Fetch(v) ==
  LET started == [NoFetch EXCEPT !.asked = visitor[v].rooms, !.left = visitor[v].rooms,
                                 !.asOf = visitor[v].asOf, !.since = tried]
      refused == [NoResult EXCEPT !.at = time, !.putAt = syncs, !.asked = visitor[v].rooms,
                                  !.asOf = visitor[v].asOf]
  IN
  /\ visitor[v].at = "look" /\ ~Fresh /\ fetch = NoFetch
  /\ checkedAt' = IF freebusyUsable THEN checkedAt ELSE time
  /\ IF freebusyUsable \/ reservationWindowAllowed
     THEN /\ fetch' = [started EXCEPT !.way = IF freebusyUsable THEN "freebusy"
                                              ELSE "reservations"]
          /\ visitor' = [visitor EXCEPT ![v].at = "wait"]
          /\ UNCHANGED cache
     ELSE /\ cache' = refused
          /\ visitor' = [visitor EXCEPT ![v] = Told(v, @.rooms, refused)]
          /\ UNCHANGED fetch
  /\ UNCHANGED <<time, local, sync, permitted, counts, tried, unsettled>>

\* One more room is answered for: free, taken, or (freebusy) unknown, which
\* only adds a warning; the page shows warnings, findFree's result has none.
Answered(r, says) ==
  [fetch EXCEPT !.left = @ \ {r}, !.read = IF says = "unknown" THEN @ ELSE @ \cup {r},
                !.busy = IF says = "busy" THEN @ \cup {r} ELSE @,
                !.unknown = IF says = "unknown" THEN @ \cup {r} ELSE @]
NextRoom(f) ==
  IF f.left # {} THEN fetch' = f /\ UNCHANGED <<cache, visitor>>
  ELSE Finish([Result(FALSE, f.busy, f.unknown) EXCEPT !.read = f.read])

AskFreebusy ==
  /\ fetch.way = "freebusy" /\ permitted
  /\ \E r \in fetch.left, says \in {"free", "busy", "unknown"} : NextRoom(Answered(r, says))
  /\ tried' = time
  /\ UNCHANGED <<time, local, sync, permitted, checkedAt, counts, unsettled>>

\* Mutant: what was answered before the failure is the result.
FreebusyFails_KeepsPart ==
  /\ fetch.way = "freebusy"
  /\ permitted => faults < MaxFaults
  /\ faults' = IF permitted THEN faults + 1 ELSE faults
  /\ checkedAt' = time /\ tried' = time
  /\ Finish(Result(FALSE, fetch.busy, fetch.unknown))
  /\ UNCHANGED <<time, local, sync, permitted, asks, syncs, unsettled>>

\* No permission, or an error: the other source, from the first room on.
FreebusyFails ==
  /\ fetch.way = "freebusy"
  /\ permitted => faults < MaxFaults
  /\ faults' = IF permitted THEN faults + 1 ELSE faults
  /\ checkedAt' = time /\ tried' = time
  /\ IF reservationWindowAllowed
     THEN /\ fetch' = [fetch EXCEPT !.way = "reservations", !.left = fetch.asked,
                                    !.busy = {}, !.read = {}, !.unknown = {}]
          /\ UNCHANGED <<cache, visitor>>
     ELSE Finish(Result(TRUE, {}, {}))
  /\ UNCHANGED <<time, local, sync, permitted, asks, syncs, unsettled>>

AskReservations ==
  /\ fetch.way = "reservations"
  /\ \E r \in fetch.left, says \in {"free", "busy"} : NextRoom(Answered(r, says))
  /\ UNCHANGED <<time, local, sync, permitted, checkedAt, counts, tried, unsettled>>

ReservationsFail ==
  /\ fetch.way = "reservations" /\ faults < MaxFaults /\ faults' = faults + 1
  /\ Finish(Result(TRUE, {}, {}))
  /\ UNCHANGED <<time, local, sync, permitted, checkedAt, asks, syncs, tried, unsettled>>

Leave(v) ==
  /\ visitor[v].at = "told"
  /\ visitor' = [visitor EXCEPT ![v] = Gone]
  /\ UNCHANGED <<time, local, sync, permitted, checkedAt, cache, fetch, counts,
                 tried, unsettled>>

(***************************************************************************)
(* sync: the rooms are written one by one, then the cache is cleared; a    *)
(* write that fails leaves the cache as it is.                             *)
(***************************************************************************)
SyncBegin ==
  /\ sync = Off /\ syncs < MaxSyncs
  /\ \E rs \in SUBSET Rooms : local \subseteq rs /\ sync' = [on |-> TRUE, left |-> rs]
  /\ UNCHANGED <<time, local, permitted, checkedAt, cache, fetch, visitor, counts,
                 tried, unsettled>>

SyncRow(r) ==
  /\ r \in sync.left
  /\ sync' = [sync EXCEPT !.left = @ \ {r}] /\ local' = local \cup {r}
  /\ unsettled' = IF r \in local THEN unsettled ELSE unsettled \cup {r}
  /\ UNCHANGED <<time, permitted, checkedAt, cache, fetch, visitor, counts, tried>>

\* Mutant: a sync leaves the cache alone.
SyncEnd_KeepsCache ==
  /\ sync.on /\ sync.left = {} /\ sync' = Off /\ syncs' = syncs + 1
  /\ unsettled' = {}
  /\ UNCHANGED <<time, local, permitted, checkedAt, cache, fetch, visitor, asks, faults, tried>>

SyncEnd ==
  /\ sync.on /\ sync.left = {} /\ sync' = Off /\ syncs' = syncs + 1
  /\ cache' = NoResult /\ unsettled' = {}
  /\ UNCHANGED <<time, local, permitted, checkedAt, fetch, visitor, asks, faults, tried>>

SyncFails ==
  /\ sync.left # {} /\ faults < MaxFaults
  /\ sync' = Off /\ faults' = faults + 1
  /\ UNCHANGED <<time, local, permitted, checkedAt, cache, fetch, visitor, asks, syncs,
                 tried, unsettled>>

Grant ==
  /\ ~permitted /\ permitted' = TRUE
  /\ UNCHANGED <<time, local, sync, checkedAt, cache, fetch, visitor, counts, tried, unsettled>>

Tick ==
  /\ time < MaxTime /\ time' = time + 1
  /\ UNCHANGED <<local, sync, permitted, checkedAt, cache, fetch, visitor, counts, tried,
                 unsettled>>

Next ==
  \/ \E v \in Visitors : List(v) \/ Hit(v) \/ Join(v) \/ Fetch(v) \/ Leave(v)
  \/ AskFreebusy \/ FreebusyFails \/ AskReservations \/ ReservationsFail
  \/ SyncBegin \/ SyncEnd \/ SyncFails \/ (\E r \in Rooms : SyncRow(r))
  \/ Grant \/ Tick

Spec == Init /\ [][Next]_vars

TypeInv ==
  /\ local \subseteq Rooms /\ local # {}
  /\ sync.left \subseteq Rooms
  /\ fetch.left \subseteq fetch.asked /\ checkedAt <= time /\ tried <= time

(***************************************************************************)
(* Properties.  "An empty answer would be drawn as all free: the most      *)
(* dangerous illusion" (busyFor).                                          *)
(***************************************************************************)
Answers == {v \in Visitors : visitor[v].at = "told"}

\* Rooms of the fetch that are told free and were not read in it.
Unread(v) == (visitor[v].free \cap visitor[v].from.asked) \ visitor[v].from.read

Greyed(v) == visitor[v].page /\ visitor[v].from.degraded
Warned(v) == visitor[v].page /\ visitor[v].from.unknown # {}

\* A room that the fetch asked about and did not read is only told free on a
\* page that is grey; or if the source itself said that it has no answer for
\* that room, on a page with a warning -- and to callers of findFree in silence:
\* its result carries no warnings, though "they must not be dropped in silence,
\* or they are drawn as free" (meeting-room.service.ts:351-353).
FreeWasRead ==
  \A v \in Answers : Unread(v) # {} =>
    \/ Greyed(v)
    \/ Unread(v) \subseteq visitor[v].from.unknown /\ (Warned(v) \/ ~visitor[v].page)

\* A room that was not on the list of the fetch is told free only while its
\* sync has not cleared the cache, or when that fetch's list was read before a
\* sync and its result cached after it.
NewRoomsAsked ==
  \A v \in Answers : visitor[v].free \subseteq
    visitor[v].from.asked \cup visitor[v].excused
      \cup (IF visitor[v].from.asOf < visitor[v].from.putAt THEN Rooms ELSE {})

\* What is told comes from a result less than TTL old.
ToldInTime ==
  [][\A v \in Visitors : visitor[v].at # "told" /\ visitor'[v].at = "told" =>
       time - visitor'[v].from.at < TTL]_vars

\* "It must not be cached for ever: once the permission is granted, it switches
\* back within ten minutes" (FREEBUSY_RETRY_MS).  The code does not keep it:
\* each lookup that skips freebusy renews the mark.
FreebusyRetried ==
  [][fetch = NoFetch /\ fetch'.way = "reservations" => time - tried <= Retry]_vars

=============================================================================
