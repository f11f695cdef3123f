---------------------------- MODULE MCDiscussions ----------------------------
(* Three questions, two answers, two comments and a poll.                  *)
EXTENDS Discussions, TLC

CONSTANTS a1, a2, u1, asker

MCAuthorOf == a1 :> u1 @@ a2 :> asker

Symmetry == Permutations(Questions \ {Thread}) \cup Permutations(Comments)
            \cup Permutations(Options) \cup Permutations(Sessions)

Touched(tables, texts) ==
    \/ \E s \in Open : \E c \in session[s] : c[1] \in tables \/ (c[1] = "status" /\ c[2] \in texts)
    \/ \E t \in texts : db.status[t] # "none"

\* Questions, answers and posts share no row but the thread's, so a behaviour is
\* about merging, about the answers, about the comments, or about the poll.
OneConcern ==
    LET merging  == Touched({"duplicate"}, Questions \ {Thread})
        answers  == Touched({}, Answers)
        comments == Touched({}, Comments)
        ballots  == Touched({"ballot"}, {}) \/ \E u \in Voters : db.ballot[u] # "none"
        thread   == Touched({}, {Thread})
        post     == Touched({}, {Poll})
    IN  /\ merging => ~answers /\ ~post
        /\ thread => ~post
        /\ ~(comments /\ ballots)
        /\ merging => \A q \in Questions : db.raised[q] = "none" /\ db.status[q] \in {"none", "active"}

\* Bound: one text raises something or is taken down by moderators.
FewRaised ==
    Cardinality({t \in Texts : db.raised[t] # "none" \/ db.status[t] \in {"removed", "both"}})
    + Cardinality({s \in Open : \E c \in session[s] : c[1] = "raised"}) <= 1

\* Bound: counters that overlapping sessions let drift.
Drift == \A o \in Options : db.votes[o] <= 2

Small == OneConcern /\ FewRaised /\ Drift
=============================================================================
