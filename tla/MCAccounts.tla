----------------------------- MODULE MCAccounts -----------------------------
(* The accounts for TLC: ids, sessions and requests are interchangeable.     *)
EXTENDS Accounts, TLC

Symmetry == Permutations(Id) \cup Permutations(Sid) \cup Permutations(Req) \cup Permutations(Name)

(* Bound: failures are counted for one name at a time.  The limiters keep a  *)
(* count per name, and no handler looks at another name's.                   *)
OneNameLimited ==
  Cardinality({n \in Name : loginFailures[n] + recoverFailures[n] > 0}) <= 1
=============================================================================
