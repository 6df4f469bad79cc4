------------------------------- MODULE Access -------------------------------
(***************************************************************************)
(* Who is let in: the sessions of people, impersonations included          *)
(* (Sessions), and the API tokens of programs with their cached copies     *)
(* (ApiToken).  They share no key, so a behaviour exercises one of them,   *)
(* chosen at the start.                                                    *)
(***************************************************************************)
EXTENDS Sessions, TLC

CONSTANTS Admins, CacheTTL, FirstExpiry, Expiries, Horizon, MaxEdits

VARIABLES active, db, cache, now, req, adm, edits, revoked, revokedAt, raced

Token == INSTANCE ApiToken

ASSUME TokenAssumption == Token!TTLPositive /\ Token!TimesAreNat /\ Token!BoundsAreNat

tokenVars == <<db, cache, now, req, adm, edits, revoked, revokedAt, raced>>
allVars   == <<active, vars, tokenVars>>

AccessInit == active \in {"sessions", "token"} /\ Init /\ Token!Init

SessionStep == active = "sessions" /\ Next       /\ UNCHANGED <<active, tokenVars>>
TokenStep   == active = "token"    /\ Token!Next /\ UNCHANGED <<active, vars>>

AccessSpec == AccessInit /\ [][SessionStep \/ TokenStep]_allVars

-----------------------------------------------------------------------------
(* The cached copy of a token: a stale copy has a cause that passes, and   *)
(* lets a revoked token in for no longer than its own lifetime (ApiToken,  *)
(* where the parts are stated).                                            *)
TokensKept ==
    /\ [](active = "token" => Token!CacheExplained)
    /\ Token!RevokedWithinTTL

-----------------------------------------------------------------------------
(* For TLC: session ids are made up at random, requests are alike and so   *)
(* are administrators; only invariants and action properties are checked.  *)
NameSymmetry == Permutations(Sids) \cup Permutations(Requests) \cup Permutations(Admins)
=============================================================================
