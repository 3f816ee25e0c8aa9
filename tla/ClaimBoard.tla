------------------------------ MODULE ClaimBoard ------------------------------
(***************************************************************************)
(* What the work tables promise about claims, whoever writes them and      *)
(* however stale the writer: an item is held under at most one claim at a  *)
(* time, a claim is granted to an item that nobody holds, and every grant  *)
(* is counted by exactly one new attempt.                                  *)
(***************************************************************************)
EXTENDS Naturals

CONSTANTS Items, Holders, Nobody

VARIABLES holder, grants
boardVars == <<holder, grants>>

Init ==
  /\ holder = [i \in Items |-> Nobody]
  /\ grants = [i \in Items |-> 0]

(* A free item is granted, under the next attempt number. *)
Grant(i, r) ==
  /\ holder[i] = Nobody
  /\ holder' = [holder EXCEPT ![i] = r]
  /\ grants' = [grants EXCEPT ![i] = @ + 1]

(* Claims end, several at once when leases are recovered. *)
Release(S) ==
  /\ \A i \in S : holder[i] # Nobody
  /\ holder' = [i \in Items |-> IF i \in S THEN Nobody ELSE holder[i]]
  /\ UNCHANGED grants

Next ==
  \/ \E i \in Items, r \in Holders : Grant(i, r)
  \/ \E S \in SUBSET Items : Release(S)

Spec == Init /\ [][Next]_boardVars
=============================================================================
