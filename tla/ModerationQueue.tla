--------------------------- MODULE ModerationQueue ---------------------------
(***************************************************************************)
(* Reports, the community's votes on them, the decisions of appointed        *)
(* moderators, suspensions and appeals (app/routers/moderation.py,           *)
(* app/services/moderation.py), the automatic report of a brigaded member    *)
(* (app/services/jobs.py) and the deletion of posts (app/routers/feed.py).   *)
(* One member is the author of the one post that is reported.                *)
(*                                                                         *)
(* Each handler is a request of module Requests.  A vote is the exception:   *)
(* its INSERT is flushed and the votes are counted before the commit, and    *)
(* the first vote on a report, which sets it to in_review, holds the lock    *)
(* of its row from the flush to the commit.                                 *)
(***************************************************************************)
EXTENDS Requests

CONSTANTS
    Author,      \* wrote the post
    Reporters,   \* members who may report it, once each
    AutoReport,  \* the automatic report of the author as brigaded
    Moderators,  \* members of Trusted standing, or appointed
    Staff,       \* the appointed ones
    Admins,      \* moderators who are administrators
    Actions,     \* bound: rows of the audit log, in order of id
    MaxPenalties \* bound: times one report is upheld

ASSUME ModerationAssumption ==
    /\ AutoReport \notin Reporters /\ "none" \notin Reporters \cup {AutoReport}
    /\ Staff \subseteq Moderators /\ Admins \subseteq Staff
    /\ IsFiniteSet(Moderators) /\ IsFiniteSet(Reporters)
    /\ Actions \subseteq Nat /\ MaxPenalties \in Nat
    /\ Unique = {"report", "vote"} /\ Booked = {"penalty"}

VARIABLES
    voting,      \* the report on which a session's vote is to be flushed and counted
    locks,       \* sessions that hold the row of their report
    cast         \* history: the votes that were ever committed

vars == <<requestVars, voting, locks, cast>>

-----------------------------------------------------------------------------
Reports == Reporters \cup {AutoReport}
Statuses == {"none", "open", "in_review", "upheld", "dismissed", "escalated"}
Votes == {"none", "remove", "keep", "escalate"}
AppealStatuses == {"none", "open", "upheld", "denied"}

\* What an action is about: target_type, with the one target of that type.
Targets == {"post", "user"}
NoAction == [target |-> "none", actor |-> "none"]
Action == [target : Targets, actor : Moderators] \cup {NoAction}

CONSENSUS_REQUIRED == 3

\* An action has one appeal; overlapping requests can make it two.
Appeals == Actions \X {1, 2}

Tables ==
    [report  : [Reports -> Statuses],
     kind    : [Reports -> {"none", "moderator", "community"}],
     vote    : [Reports \X Moderators -> Votes],
     penalty : [Reports -> Int],
     state   : [Targets -> {"active", "removed", "deleted", "suspended"}],
     action  : [Actions -> Action],
     appeal  : [Appeals -> AppealStatuses]]

TypeOK ==
    /\ db \in Tables
    /\ ChangesTyped /\ overlapped \in BOOLEAN
    /\ voting \in [Sessions -> Reports \cup {"none"}]
    /\ locks \subseteq Open
    /\ cast \subseteq Reports \X Moderators \X Votes

Init ==
    /\ db = [report  |-> [r \in Reports |-> "none"],
             kind    |-> [r \in Reports |-> "none"],
             vote    |-> [v \in Reports \X Moderators |-> "none"],
             penalty |-> [r \in Reports |-> 0],
             state   |-> [t \in Targets |-> "active"],
             action  |-> [a \in Actions |-> NoAction],
             appeal  |-> [p \in Appeals |-> "none"]]
    /\ session = [s \in Sessions |-> {}]
    /\ overlapped = FALSE
    /\ voting = [s \in Sessions |-> "none"]
    /\ locks = {}
    /\ cast = {}

-----------------------------------------------------------------------------
(* The audit log and what is written to it.                                *)

\* Rows get the next id of the sequence, also when a session is rolled back.
NextAction(d) == {a \in Actions : d.action[a] = NoAction /\ Writing("action", a) = {}}

CanLog(d) == NextAction(d) # {}

LogAction(d, target, actor) ==
    LET a == CHOOSE a \in NextAction(d) : \A b \in NextAction(d) : a <= b
    IN  [d EXCEPT !.action[a] = [target |-> target, actor |-> actor]]

\* Mutant: the removal is not written to the audit log.
RemovedSilently(d, actor) == [d EXCEPT !.state["post"] = "removed"]

Removed(d, actor) == [LogAction(d, "post", actor) EXCEPT !.state["post"] = "removed"]

\* A deleted post has the status of a removed one.
RemoveContent(d, actor) == IF d.state["post"] = "active" THEN Removed(d, actor) ELSE d

\* The automatic report is about a user, which is no content to remove.
ResolveReport(d, r, outcome, kind, actor) ==
    LET noted == [d EXCEPT !.report[r] = outcome, !.kind[r] = kind]
    IN  IF outcome = "dismissed" THEN noted
        ELSE [(IF r = AutoReport THEN noted ELSE RemoveContent(noted, actor)) EXCEPT !.penalty[r] = @ + 1]

-----------------------------------------------------------------------------
(* Reporting.                                                              *)

SubmitReport(s, r) ==
    /\ r # AutoReport /\ db.report[r] = "none"
    /\ Begin(s, [db EXCEPT !.report[r] = "open"])
    /\ UNCHANGED <<voting, locks, cast>>

\* The JSON route does as the form.
ReportContent(s, r) == SubmitReport(s, r)

\* With an earlier automatic report that is no longer open the INSERT meets
\* the unique constraint, and the pass is rolled back.
DetectBrigading(s) ==
    /\ db.report[AutoReport] = "none"
    /\ Begin(s, [db EXCEPT !.report[AutoReport] = "open"])
    /\ UNCHANGED <<voting, locks, cast>>

-----------------------------------------------------------------------------
(* Votes.                                                                  *)

For(d, r, v) == {m \in Moderators : d.vote[<<r, m>>] = v}

\* Escalation comes first, then removal.
TallyWith(d, r, needed) ==
    IF Cardinality(For(d, r, "escalate")) >= 2 THEN "escalated"
    ELSE IF Cardinality(For(d, r, "remove")) >= needed THEN "upheld"
    ELSE IF Cardinality(For(d, r, "keep")) >= needed THEN "dismissed"
    ELSE "none"

\* Mutants: the outcomes are swapped; more than the required number are needed.
TallySwapped(d, r) ==
    LET outcome == TallyWith(d, r, CONSENSUS_REQUIRED)
    IN  CASE outcome = "upheld" -> "dismissed" [] outcome = "dismissed" -> "upheld" [] OTHER -> outcome
TallyAbove(d, r) == TallyWith(d, r, CONSENSUS_REQUIRED + 1)

Tally(d, r) == TallyWith(d, r, CONSENSUS_REQUIRED)

Counted(d, r, m) ==
    LET outcome == Tally(d, r)
    IN  IF outcome = "none" THEN d
        ELSE IF outcome = "escalated" THEN [d EXCEPT !.report[r] = "escalated"]
        ELSE ResolveReport(d, r, outcome, "community", m)

MayVote(m, r) == db.report[r] \in {"open", "in_review"} /\ m # Author

\* The report and the moderator's earlier vote are read, the vote last (Readings).
OpenVote(s, m, r, v) ==
    /\ MayVote(m, r)
    /\ Begin(s, [db EXCEPT !.vote[<<r, m>>] = v, !.report[r] = "in_review"])
    /\ voting' = [voting EXCEPT ![s] = r]
    /\ UNCHANGED <<locks, cast>>

\* Tables d with the report as a request holds it, whatever others make of the row.
Held(d, r, status) == [d EXCEPT !.report[r] = status, !.kind[r] = "none"]

\* The same vote again writes nothing and counts all the same.  When the report
\* is no longer under review, it was when this request read it.
VoteAgain(s, m, r) ==
    /\ m # Author /\ db.vote[<<r, m>>] # "none"
    /\ s \notin Open /\ CanLog(db) /\ db.penalty[r] < MaxPenalties
    /\ LET read == Held(db, r, "in_review")
           result == Counted(read, r, m)
       IN  /\ result # read
           /\ session' = [session EXCEPT ![s] = ChangesFrom(read, result)]
    /\ overlapped' = (overlapped \/ Open # {} \/ db.report[r] # "in_review")
    /\ UNCHANGED <<db, voting, locks, cast>>

Writes(s, r) == s \in Writing("report", r)

\* The row of r is free for s to update.
Free(s, r) == \A t \in locks \ {s} : ~Writes(t, r)

VoteOf(s) == CHOOSE c \in session[s] : c[1] = "vote"

VoterOf(s) == VoteOf(s)[2][2]

\* The earlier vote is read after the report: as it was then, or as another
\* request of the same moderator has left it by now, maybe as it is to be.
Readings(s) ==
    LET c == VoteOf(s)
        now == <<"vote", c[2], db.vote[c[2]], c[4]>>
    IN  {session[s], (session[s] \ {c}) \cup {e \in {now} : e[3] # e[4]}}

\* The flush, and the count of the votes this session can see: those
\* committed and its own.  A verdict is written over what the row holds by then.
CountVotes(s) ==
    LET r == voting[s]
    IN  /\ s \in Open /\ r # "none"
        /\ Writes(s, r) => Free(s, r)
        /\ \E c \in session[s] : c[1] = "vote"
        /\ db.penalty[r] < MaxPenalties
        /\ \E changes \in Readings(s) :
               LET read == Held(db, r, IF Writes(s, r) THEN "open" ELSE "in_review")
                   seen == Held(Flush(changes), r, "in_review")
               IN  /\ \A c \in changes : ~Clash(c)
                   /\ CanLog(seen)
                   /\ session' = [session EXCEPT ![s] = ChangesFrom(read, Counted(seen, r, VoterOf(s)))]
        /\ locks' = IF Writes(s, r) THEN locks \cup {s} ELSE locks
        /\ voting' = [voting EXCEPT ![s] = "none"]
        /\ UNCHANGED <<db, overlapped, cast>>

-----------------------------------------------------------------------------
(* Decisions of appointed moderators.                                      *)

\* No look at the report's status, nor at whose content it is.
Decide(s, m, r) ==
    /\ m \in Staff
    /\ db.report[r] # "none"
    /\ CanLog(db) /\ db.penalty[r] < MaxPenalties
    /\ \E outcome \in {"upheld", "dismissed"} :
           Begin(s, ResolveReport(db, r, outcome, "moderator", m))
    /\ UNCHANGED <<voting, locks, cast>>

\* Days are added to now, whatever suspension runs.
SuspendUser(d, m) == [LogAction(d, "user", m) EXCEPT !.state["user"] = "suspended"]

Suspend(s, m) ==
    /\ m \in Staff /\ m # Author /\ Author \notin Admins
    /\ CanLog(db)
    /\ Begin(s, SuspendUser(db, m))
    /\ UNCHANGED <<voting, locks, cast>>

\* The user of a session whose suspension is over is active again.
SuspensionEnds(s) ==
    /\ db.state["user"] = "suspended"
    /\ Begin(s, [db EXCEPT !.state["user"] = "active"])
    /\ UNCHANGED <<voting, locks, cast>>

\* An administrator lifts it, suspended or not.
Unfreeze(s) == SuspensionEnds(s)

\* By its author, or by a moderator, who leaves a line in the audit log each time.
DeletePost(s) ==
    /\ \/ Begin(s, [db EXCEPT !.state["post"] = "deleted"])
       \/ \E m \in Staff : CanLog(db) /\ Begin(s, Removed(db, m))
    /\ UNCHANGED <<voting, locks, cast>>

-----------------------------------------------------------------------------
(* Appeals.                                                                *)

SubmitAppeal(s, a) ==
    /\ db.action[a] # NoAction
    /\ \A i \in {1, 2} : db.appeal[<<a, i>>] = "none"
    /\ LET i == IF Writing("appeal", <<a, 1>>) = {} THEN 1 ELSE 2
       IN  Begin(s, [db EXCEPT !.appeal[<<a, i>>] = "open"])
    /\ UNCHANGED <<voting, locks, cast>>

\* Mutant: an upheld appeal changes nothing but its own row.
ReversedOnPaper(d, a) == d

\* Whatever the target's status is, and whoever brought it about.
Reversed(d, a) == [d EXCEPT !.state[d.action[a].target] = "active"]

AppealDecided(p, upheld) ==
    IF upheld THEN Reversed([db EXCEPT !.appeal[p] = "upheld"], p[1])
    ELSE [db EXCEPT !.appeal[p] = "denied"]

DecideAppeal(s, m, p) ==
    /\ db.appeal[p] = "open"
    /\ db.action[p[1]].actor # m \/ m \in Admins
    /\ \E upheld \in BOOLEAN : Begin(s, AppealDecided(p, upheld))
    /\ UNCHANGED <<voting, locks, cast>>

-----------------------------------------------------------------------------
CastBy(changes) == {<<c[2][1], c[2][2], c[4]>> : c \in {c \in changes : c[1] = "vote"}}

\* Mutant: the lock of the row is kept after the session.
LocksKept(s) == locks

LocksWithout(s) == locks \ {s}

End(s) ==
    /\ \/ /\ voting[s] = "none"
          /\ \A r \in Reports : Writes(s, r) => Free(s, r)
          /\ Commit(s)
          /\ cast' = cast \cup CastBy(session[s])
       \/ Rollback(s) /\ UNCHANGED cast
    /\ voting' = [voting EXCEPT ![s] = "none"]
    /\ locks' = LocksWithout(s)

Queue(s) ==
    \/ \E r \in Reports : SubmitReport(s, r) \/ ReportContent(s, r)
    \/ DetectBrigading(s)
    \/ \E r \in Reports, m \in Moderators :
           \/ \E v \in Votes \ {"none"} : OpenVote(s, m, r, v)
           \/ VoteAgain(s, m, r)
           \/ Decide(s, m, r)
    \/ CountVotes(s)

Enforcement(s) ==
    \/ \E m \in Moderators : Suspend(s, m) \/ \E p \in Appeals : DecideAppeal(s, m, p)
    \/ SuspensionEnds(s) \/ Unfreeze(s) \/ DeletePost(s)
    \/ \E a \in Actions : SubmitAppeal(s, a)

Next == \E s \in Sessions : Queue(s) \/ Enforcement(s) \/ End(s)

Spec == Init /\ [][Next]_vars

-----------------------------------------------------------------------------
(* Properties.                                                             *)

Undecided(r) == db.report[r] \in {"open", "in_review"}

\* "Three consistent Trusted+ votes resolve a report without a staff moderator"
\* (tally_queue_votes).  No report stays undecided with three votes one way
\* while requests do not overlap; overlapping votes, each of which counts
\* without the others, leave at most one more per further session.
ConsensusDecides ==
    \A r \in Reports, v \in {"remove", "keep"} :
        Undecided(r) => Cardinality(For(db, r, v)) <
                            CONSENSUS_REQUIRED + (IF overlapped THEN Cardinality(Sessions) - 1 ELSE 0)

VoteFor(outcome) == IF outcome = "upheld" THEN "remove" ELSE "keep"

\* "Three consistent Trusted+ votes" (tally_queue_votes): when a report gets a
\* verdict of the community, three members who are not the author have cast the
\* vote for that verdict, remove for upheld and keep for dismissed, whatever was
\* changed or overlapped since the report was opened.
VerdictBacked ==
    [][\A r \in Reports :
          db.kind[r] # "community" /\ db'.kind[r] = "community" =>
             /\ db'.report[r] \in {"upheld", "dismissed"}
             /\ Cardinality({m \in Moderators \ {Author} :
                                <<r, m, VoteFor(db'.report[r])>> \in cast'}) >= CONSENSUS_REQUIRED]_vars

\* "You can appeal this decision" (remove_content, suspend_user): whatever a
\* moderator took down stays down only under an action of which no appeal was
\* upheld, however decisions and appeals overlap.
DownUnderAnAction ==
    \A t \in Targets : db.state[t] \in {"removed", "suspended"} =>
        \E a \in Actions : /\ db.action[a].target = t
                           /\ \A i \in {1, 2} : db.appeal[<<a, i>>] # "upheld"
=============================================================================
