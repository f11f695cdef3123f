--------------------------- MODULE MCVerification ---------------------------
(* Verification for TLC: symmetry of the accounts, roll numbers and sessions, *)
(* and a smaller race.                                                     *)
EXTENDS Verification, TLC

Symmetry == Permutations(Users) \cup Permutations(Rolls) \cup Permutations(Requests)

\* Bound: what overlaps is cards, decisions, manual verifications and the job.
Racing == \A s \in Requests : ~Free(s) => request[s].op \notin {"selfie", "dispute", "roles"}
====
