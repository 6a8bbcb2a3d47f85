---------------------------- MODULE SessionCatalog ----------------------------
(***************************************************************************)
(* What the session store promises of its list: a map from session ids to  *)
(* the saved record and its status, changed by three atomic operations.    *)
(* SessionStore implements it when its mutating commands do not overlap.   *)
(***************************************************************************)
EXTENDS Naturals

CONSTANTS Sessions, MaxSaves, Absent

VARIABLES
    catalog,   \* [Sessions -> Absent or the record listed and its status]
    issued     \* number of records ever begun; a cut-off save leaves a gap

Init ==
    /\ catalog = [s \in Sessions |-> Absent]
    /\ issued = 0

Issue ==
    /\ issued < MaxSaves
    /\ issued' = issued + 1
    /\ UNCHANGED catalog

(* The newest record becomes the session's, resumable. *)
Publish(s) ==
    /\ issued > 0
    /\ catalog' = [catalog EXCEPT ![s] = [ver |-> issued, status |-> "resumable"]]
    /\ UNCHANGED issued

Remove(s) ==
    /\ catalog' = [catalog EXCEPT ![s] = Absent]
    /\ UNCHANGED issued

(* Everything that is due at `now` becomes expired, at once; nothing else  *)
(* changes.                                                                *)
ExpireAt(now) ==
    /\ catalog' = [s \in Sessions |->
                     IF catalog[s] # Absent /\ catalog[s].ver <= now
                     THEN [ver |-> catalog[s].ver, status |-> "expired"]
                     ELSE catalog[s]]
    /\ UNCHANGED issued

Next ==
    \/ Issue
    \/ \E s \in Sessions : Publish(s) \/ Remove(s)
    \/ \E now \in 0 .. MaxSaves : ExpireAt(now)

Spec == Init /\ [][Next]_<<catalog, issued>>
===============================================================================
