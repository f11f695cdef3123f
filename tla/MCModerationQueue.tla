-------------------------- MODULE MCModerationQueue --------------------------
(* Four voters, the first of them appointed, and the author, one of the Trusted. *)
EXTENDS ModerationQueue, TLC

CONSTANTS m1, m2, m3, m4

Symmetry == Permutations({m2, m3, m4}) \cup Permutations(Sessions)

Changing(P(_)) == \E s \in Open : \E c \in session[s] : P(c)

OnVote(c) == c[1] = "vote"
OnAccount(c) == c[1] = "action" /\ c[4].target = "user"
OnAuto(c) == c[1] = "report" /\ c[2] = AutoReport
OnAppeal(c) == c[1] = "appeal" \/ (c[1] = "state" /\ c[4] = "deleted")

\* Four things happen to a report or an account, and a behaviour is about one
\* of them: votes, suspensions with their appeals, the automatic report, appeals.
OneConcern ==
    LET votes   == Changing(OnVote) \/ cast # {}
        account == Changing(OnAccount) \/ \E i \in Actions : db.action[i].target = "user"
        auto    == Changing(OnAuto) \/ db.report[AutoReport] # "none"
        appeals == \/ Changing(OnAppeal) \/ db.state["post"] = "deleted"
                   \/ \E p \in Appeals : db.appeal[p] # "none"
        reports == \E r \in Reporters : db.report[r] # "none"
    IN  /\ votes => ~account /\ ~auto /\ ~appeals
        /\ account => ~auto /\ ~reports
        /\ auto => ~appeals /\ ~reports

\* Bound: four votes, or changes of a vote, of two kinds, under one line of the
\* audit log.
FewVotes ==
    cast # {} => /\ Cardinality(cast) <= 4 /\ Cardinality({c[3] : c \in cast}) <= 2
                 /\ db.action[2] = NoAction /\ Writing("action", 2) = {}
                 /\ db.state["post"] = "removed" => \E r \in Reports : db.penalty[r] > 0

FewAppeals == Cardinality({p \in Appeals : db.appeal[p] # "none"}) <= 2

Small == OneConcern /\ FewVotes /\ FewAppeals
=============================================================================
