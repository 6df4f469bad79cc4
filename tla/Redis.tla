------------------------------- MODULE Redis --------------------------------
(***************************************************************************)
(* The Redis commands the program relies on, as functions from the value   *)
(* of one key to its next value.  A key holds an integer and a lifetime in *)
(* ticks; the lifetime follows the replies of the TTL command: NoKey for a *)
(* key that does not exist, NoExpiry for one that is never deleted.  Each  *)
(* command is atomic; two commands of one caller are two steps.            *)
(***************************************************************************)
EXTENDS Integers

NoKey    == -2
NoExpiry == -1

Missing == [val |-> 0, ttl |-> NoKey]

KeyType(maxTTL) == [val : Int, ttl : NoKey..maxTTL]

Exists(k) == k.ttl # NoKey

(* INCR and DECR create a missing key, without a lifetime, from zero. *)
Add(k, n) == [val |-> k.val + n, ttl |-> IF Exists(k) THEN k.ttl ELSE NoExpiry]
Incr(k)   == Add(k, 1)
Decr(k)   == Add(k, -1)

(* EXPIRE has no effect on a missing key. *)
Expire(k, t) == IF Exists(k) THEN [k EXCEPT !.ttl = t] ELSE k

(* One tick of time: a lifetime that runs out deletes the key. *)
Elapse(k) == CASE k.ttl > 1 -> [k EXCEPT !.ttl = @ - 1]
               [] k.ttl \in {0, 1} -> Missing
               [] OTHER -> k
=============================================================================
