----------------------------- MODULE MCAccounts -----------------------------
(* One account with two sessions, or failed logins, or two members' roles.  *)
EXTENDS Accounts, TLC

Symmetry == Permutations(Tokens) \cup Permutations(People) \cup Permutations(Sessions)

Administered ==
    \/ db.seeded["bootstrap"] # "no" \/ \E p \in People : db.tier[p] > 0
    \/ \E s \in Open : \E c \in session[s] : c[1] = "tier"

\* An account's sessions and the roles share no row: a behaviour is about one.
\* What is said of the roles is said of requests one after another.
OneConcern ==
    Administered =>
        /\ ~overlapped
        /\ db.handle["handle"] = "none"
        /\ \A s \in Open : \A c \in session[s] : c[1] \notin {"handle", "count"}
=============================================================================
