----------------------------- MODULE Semaphore ------------------------------
(***************************************************************************)
(* What the concurrency gates of the AI gateway promise: at most Limit     *)
(* clients are inside at any time, and one more for each fault and each    *)
(* client forgotten so far.                                                *)
(* Refusals are not visible here, and a crash lets several clients out at  *)
(* once.                                                                   *)
(***************************************************************************)
EXTENDS Integers, FiniteSets

CONSTANTS Clients, Limit

VARIABLES inside, extra

Init == inside = {} /\ extra = 0

Acquire(c) ==
    /\ c \notin inside
    /\ Cardinality(inside) < Limit + extra
    /\ inside' = inside \cup {c}
    /\ UNCHANGED extra

(* A fault lets a client in (or finds it inside), whoever else is there. *)
Fault(c) ==
    /\ inside' = inside \cup {c}
    /\ extra' = extra + 1

(* n clients are no longer counted, inside or not: as many more may come.   *)
Forget(n) ==
    /\ extra' = extra + n
    /\ UNCHANGED inside

Release(S) ==
    /\ S \subseteq inside
    /\ inside' = inside \ S
    /\ UNCHANGED extra

Next == \/ \E c \in Clients : Acquire(c) \/ Fault(c)
        \/ \E n \in 1..Cardinality(Clients) : Forget(n)
        \/ \E S \in SUBSET Clients : Release(S)

Spec == Init /\ [][Next]_<<inside, extra>>
=============================================================================
