----------------------------- MODULE MCWorkshop -----------------------------
(* Two members and two sessions.                                           *)
EXTENDS Workshop, TLC

Symmetry == Permutations(Members) \cup Permutations(Sessions)

Touched(tables, targets) ==
    \/ \E s \in Open : \E c \in session[s] : c[1] \in tables \/ (c[1] = "mark" /\ c[4].on \in targets)
    \/ \E i \in MarkIds : db.mark[i].on \in targets

\* What is published shares no row with the rest of it, so a behaviour is about
\* one of these; votes and takedowns of a resource write different columns.
OneConcern ==
    LET votes    == Touched({}, Resources)
        vault    == Touched({"takedown"}, {}) \/ \E t \in Takedowns : db.takedown[t].status # "none"
        uploads  == Touched({"resource"}, {}) \/ \E r \in Resources : db.resource[r] # "none"
        skill    == Touched({"listing", "endorsed_by"}, {"skill"}) \/ db.listing[1] # "none"
                        \/ db.endorsed_by["owner"] # "anyone"
        follows  == Touched({}, {"owner"})
        handles  == Touched({"handle"}, {}) \/ \E u \in Users : db.handle[u] # u
        project  == Touched({"project"}, {}) \/ db.project["project"] # "none"
        item     == Touched({"item"}, {}) \/ db.item["item"] # "none"
        job      == Touched({"job"}, {}) \/ db.job["job"] # "none"
        other    == Touched({"interview"}, {}) \/ db.interview["interview"] # "none"
        concerns == <<votes, vault, uploads /\ ~votes /\ ~vault, skill, follows, handles,
                      project, item, job, other>>
    IN  Cardinality({i \in DOMAIN concerns : concerns[i]}) <= 1
=============================================================================
