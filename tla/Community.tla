----------------------------- MODULE Community ------------------------------
(***************************************************************************)
(* What one author publishes, and everything that books points on it:       *)
(* publishing, votes (app/services/voting.py), deletions, upheld reports    *)
(* and appeals (app/services/moderation.py and the routers that call it),   *)
(* verification, and the nightly jobs.  Each handler is one step: this is   *)
(* the system with its sessions one after another.                        *)
(*                                                                         *)
(* All rows of reputation_events are the author's, so the book is one.      *)
(***************************************************************************)
EXTENDS Ledger

CONSTANTS
    Posts,        \* ids the author's posts can take
    Answers,      \* ids the author's answers can take
    Voters,       \* the members who vote, all other than the author
    Weights,      \* values of vote_weight, in percent
    MaxEvents,    \* bound: rows in the ledger
    MaxScore,     \* bound: the score of an item
    MaxActions    \* bound: removals awaiting an appeal or its decision

Items == Posts \cup Answers

ASSUME CommunityAssumption ==
    /\ Posts \cap Answers = {}
    /\ IsFiniteSet(Voters)
    /\ Weights \subseteq 5..150
    /\ MaxEvents \in Nat /\ MaxScore \in Nat /\ MaxActions \in Nat

VARIABLES
    status,       \* posts.status, answers.status; absent before publication
    vote,         \* votes: the value of each voter's row on each item, 0 for none
    score,        \* posts.score, answers.score
    removals,     \* remove_content actions on each item not appealed yet
    appeals,      \* open appeals against those actions
    idle,         \* the author's last_active_at is more than 30 days ago
    book          \* the author's ledger and cached score

vars == <<status, vote, score, removals, appeals, idle, book>>

TargetType(i) == IF i \in Posts THEN "post" ELSE "answer"

VoteType(i) == IF i \in Posts THEN "post_vote" ELSE "answer_vote"

Content(i) == <<TargetType(i), i>>

\* A vote row is deleted and made anew, and its rows of the ledger are void by
\* then, so the pair of voter and item stands for the id of the row.
VoteRow(v, i) == <<VoteType(i), v, i>>

Sources ==
    {<<"none">>} \cup {Content(i) : i \in Items} \cup {<<"report", i>> : i \in Items}
    \cup {VoteRow(v, i) : v \in Voters, i \in Items}

Event ==
    [reason : Reasons, pillar : Pillars, points : Int, source : Sources,
     actor : Voters \cup {"staff", "none"}, state : States]

TypeOK ==
    /\ status \in [Items -> {"absent", "active", "removed"}]
    /\ vote \in [Voters -> [Items -> {-1, 0, 1}]]
    /\ score \in [Items -> -Cardinality(Voters) .. MaxScore]
    /\ removals \in [Items -> 0..MaxActions]
    /\ appeals \in [Items -> 0..MaxActions]
    /\ idle \in BOOLEAN
    /\ book \in [events : Seq(Event), rep : [Pillars -> Int], frozen : BOOLEAN, month : Nat]
    /\ Len(book.events) <= MaxEvents

Init ==
    /\ status = [i \in Items |-> "absent"]
    /\ vote = [v \in Voters |-> [i \in Items |-> 0]]
    /\ score = [i \in Items |-> 0]
    /\ removals = [i \in Items |-> 0]
    /\ appeals = [i \in Items |-> 0]
    /\ idle = FALSE
    /\ book = EmptyBook

\* Bound: n more rows fit the ledger.
Fits(n) == Len(book.events) + n <= MaxEvents

\* Points of a spike over the author's last thirty days are held.  Neither the
\* hours nor the rows of other sources are counted here: a choice.
VelocityHold == BOOLEAN

-----------------------------------------------------------------------------
(* The author's requests.                                                  *)

\* Polls unlock at Contributor, the second tier.
MayPoll == TierFloor(Total(book)) > 0

Published(i) ==
    /\ status[i] = "absent"
    /\ status' = [status EXCEPT ![i] = "active"]
    /\ idle' = FALSE
    /\ UNCHANGED <<vote, score, removals, appeals>>

PublishText(p) ==
    /\ Published(p)
    /\ UNCHANGED book

PublishPoll(p) ==
    /\ Fits(1)
    /\ MayPoll
    /\ Published(p)
    /\ \E spike \in VelocityHold :
           book' = Award(book, "poll_created", 100, Content(p), "none", FALSE, spike)

PostAnswer(a) ==
    /\ Fits(1)
    /\ Published(a)
    /\ \E spike \in VelocityHold :
           book' = Award(book, "answer_posted", 100, Content(a), "none", FALSE, spike)

-----------------------------------------------------------------------------
(* cast_vote.                                                              *)

Reason(i) == IF i \in Posts THEN "post_upvote" ELSE "answer_upvote"

SetVote(v, i, value) == vote' = [vote EXCEPT ![v][i] = value]

AwardUpvote(v, i, weight, spike) ==
    Award(book, Reason(i), weight, VoteRow(v, i), v, FALSE, spike)

\* Whether the voter's browser has signed into the author's account.
SameDevice == BOOLEAN

\* By the voter's tier and age and the votes for this author before.
VoteWeight == Weights

\* The vote of a shared device counts for display only.
Weighed(shared) == IF shared THEN {0} ELSE VoteWeight

Upvote(v, i) ==
    /\ status[i] = "active" /\ vote[v][i] = 0
    /\ score[i] < MaxScore
    /\ SetVote(v, i, 1)
    /\ score' = [score EXCEPT ![i] = @ + 1]
    /\ \E shared \in SameDevice, spike \in VelocityHold : \E weight \in Weighed(shared) :
           IF weight > 0 THEN Fits(1) /\ book' = AwardUpvote(v, i, weight, spike)
           ELSE UNCHANGED book
    /\ UNCHANGED <<status, removals, appeals, idle>>

Downvote(v, i) ==
    /\ status[i] = "active" /\ vote[v][i] = 0
    /\ SetVote(v, i, -1)
    /\ score' = [score EXCEPT ![i] = @ - 1]
    /\ UNCHANGED <<status, removals, appeals, idle, book>>

\* The score stays at or above zero when an upvote goes.
ScoreWithout(v, i) == IF vote[v][i] = 1 THEN Greater(0, score[i] - 1) ELSE score[i] + 1

WithdrawVote(v, i) ==
    /\ status[i] = "active" /\ vote[v][i] # 0
    /\ ScoreWithout(v, i) <= MaxScore
    /\ score' = [score EXCEPT ![i] = ScoreWithout(v, i)]
    /\ SetVote(v, i, 0)
    /\ book' = VoidSource(book, VoteRow(v, i))
    /\ UNCHANGED <<status, removals, appeals, idle>>

\* The row keeps its id; the points of an upvote stay, a new upvote earns none.
FlipVote(v, i) ==
    /\ status[i] = "active" /\ vote[v][i] # 0
    /\ score[i] - 2 * vote[v][i] <= MaxScore
    /\ score' = [score EXCEPT ![i] = @ - 2 * vote[v][i]]
    /\ SetVote(v, i, -vote[v][i])
    /\ UNCHANGED <<status, removals, appeals, idle, book>>

\* Of active content, by a member who is not its author.
CastVote(v, i) == Upvote(v, i) \/ Downvote(v, i) \/ WithdrawVote(v, i) \/ FlipVote(v, i)

-----------------------------------------------------------------------------
(* Removals, reports and appeals.                                          *)

\* delete_post, whatever the status of the post; only a moderator's is logged.
DeletePost(p) ==
    /\ status[p] # "absent"
    /\ status' = [status EXCEPT ![p] = "removed"]
    /\ book' = VoidSource(book, Content(p))
    /\ \/ idle' = FALSE /\ UNCHANGED removals
       \/ /\ removals[p] + appeals[p] < MaxActions
          /\ removals' = [removals EXCEPT ![p] = @ + 1]
          /\ UNCHANGED idle
    /\ UNCHANGED <<vote, score, appeals>>

\* remove_content on a book: the item's points go, the author takes a hit.
RemovalPenalty(b, i) ==
    Award(VoidSource(b, Content(i)), "content_removed", 100, Content(i), "staff", TRUE, FALSE)

\* resolve_report on a book, after the removal.
ReportPenalty(b, i, reason) ==
    FreezeIfNeeded(Award(b, reason, 100, <<"report", i>>, "staff", TRUE, FALSE))

\* A report is upheld, by a moderator or by the queue; decide has no guard on
\* the report's status, and content removed before is not removed again.
UpholdReport(i) ==
    /\ status[i] # "absent"
    /\ \E reason \in {"report_upheld", "harassment_upheld"} :
           IF status[i] = "removed" THEN
               /\ Fits(1)
               /\ book' = ReportPenalty(book, i, reason)
               /\ UNCHANGED <<status, removals>>
           ELSE
               /\ Fits(2)
               /\ removals[i] + appeals[i] < MaxActions
               /\ status' = [status EXCEPT ![i] = "removed"]
               /\ removals' = [removals EXCEPT ![i] = @ + 1]
               /\ book' = ReportPenalty(RemovalPenalty(book, i), i, reason)
    /\ UNCHANGED <<vote, score, appeals, idle>>

\* Mutant: an action can be appealed again.
SubmitAppealAgain(i) ==
    /\ removals[i] > 0
    /\ appeals' = [appeals EXCEPT ![i] = @ + 1]
    /\ idle' = FALSE
    /\ UNCHANGED <<status, vote, score, removals, book>>

\* submit_appeal: one appeal per action.
SubmitAppeal(i) ==
    /\ removals[i] > 0
    /\ removals' = [removals EXCEPT ![i] = @ - 1]
    /\ appeals' = [appeals EXCEPT ![i] = @ + 1]
    /\ idle' = FALSE
    /\ UNCHANGED <<status, vote, score, book>>

\* Mutant: the content comes back and the penalty stays.
PenaltyKept(i) == book

\* The penalty of the removal is void; that of the report has another source.
Reversed(i) == LET b == VoidSource(book, Content(i)) IN Recompute(b.events, b)

UpholdAppeal(i) ==
    /\ appeals[i] > 0
    /\ appeals' = [appeals EXCEPT ![i] = @ - 1]
    /\ status' = [status EXCEPT ![i] = "active"]
    /\ book' = Reversed(i)
    /\ UNCHANGED <<vote, score, removals, idle>>

DenyAppeal(i) ==
    /\ appeals[i] > 0
    /\ appeals' = [appeals EXCEPT ![i] = @ - 1]
    /\ UNCHANGED <<status, vote, score, removals, idle, book>>

-----------------------------------------------------------------------------
(* Staff and the scheduler's jobs.                                         *)

\* approve: it books the award at every approval of a record.
Verify ==
    /\ Fits(1)
    /\ book' = Award(book, "verified_tier2", 100, <<"none">>, "none", TRUE, FALSE)
    /\ UNCHANGED <<status, vote, score, removals, appeals, idle>>

Unfreeze ==
    /\ book.frozen
    /\ book' = Unfrozen(book)
    /\ UNCHANGED <<status, vote, score, removals, appeals, idle>>

SettleDue ==
    /\ \E due \in SUBSET Provisional(book) : book' = Settle(book, due)
    /\ UNCHANGED <<status, vote, score, removals, appeals, idle>>

ApplyDecay ==
    /\ Fits(1)
    /\ idle
    /\ Decays(book)
    /\ book' = Decay(book)
    /\ UNCHANGED <<status, vote, score, removals, appeals, idle>>

\* detect_vote_rings found the voter and the author to be a reciprocal pair.
NullifyRing(v) ==
    /\ book' = Nullify(book, v)
    /\ UNCHANGED <<status, vote, score, removals, appeals, idle>>

MonthEnds ==
    /\ book' = NewMonth(book)
    /\ UNCHANGED <<status, vote, score, removals, appeals, idle>>

ThirtyDaysAway ==
    /\ ~idle
    /\ idle' = TRUE
    /\ UNCHANGED <<status, vote, score, removals, appeals, book>>

\* Any request of the author refreshes last_active_at.
Visit ==
    /\ idle
    /\ idle' = FALSE
    /\ UNCHANGED <<status, vote, score, removals, appeals, book>>

-----------------------------------------------------------------------------
Author ==
    \/ \E p \in Posts : PublishText(p) \/ PublishPoll(p)
    \/ \E a \in Answers : PostAnswer(a)
    \/ \E i \in Items : SubmitAppeal(i)
    \/ Visit

\* Through the feed's pages, its buttons' routes and the API alike.
Members == \E v \in Voters, i \in Items : CastVote(v, i)

Staff ==
    \/ \E p \in Posts : DeletePost(p)
    \/ \E i \in Items : UpholdReport(i) \/ UpholdAppeal(i) \/ DenyAppeal(i)
    \/ Verify
    \/ Unfreeze

Jobs ==
    \/ SettleDue
    \/ ApplyDecay
    \/ \E v \in Voters : NullifyRing(v)

Next == Author \/ Members \/ Staff \/ Jobs \/ MonthEnds \/ ThirtyDaysAway

Spec == Init /\ [][Next]_vars

-----------------------------------------------------------------------------
(* Properties.                                                             *)

\* "User.rep_* is a cache recomputed from the ledger" (reputation.py:6-8):
\* whatever the order of awards, withdrawals, settlements and decays, the cached
\* score of a pillar is the sum of the rows that count.
CacheMatchesLedger == \A p \in Pillars : book.rep[p] = Balance(book.events, p)

\* The monthly cap of a pillar bounds what one calendar month pays into it,
\* through withdrawals that give room back and points that are held.
MonthlyCap == \A p \in Pillars : MonthEarned(book, p) <= Cap[p]

\* "it is bounded at -100" (reputation.py:236): penalties, appeals that void one
\* of them and gains never bring the conduct pillar below the floor.
ConductFloor == book.rep["conduct"] >= -Cap["conduct"]

\* "Reverse the conduct penalty that the original action applied"
\* (moderation.py:465): content the community can see carries no removal
\* penalty, whatever was removed, deleted, appealed and restored before.
RestoredCarriesNoPenalty ==
    \A i \in Items : status[i] = "active" =>
        ~\E k \in DOMAIN book.events :
            /\ book.events[k].reason = "content_removed"
            /\ book.events[k].source = Content(i)
            /\ Counts(book.events[k])

\* Points for a vote, paid or held, stand on a vote that still exists: casting,
\* flipping, withdrawing and casting again leave no points of a withdrawn vote.
WithdrawnVoteEarnsNothing ==
    \A v \in Voters, i \in Items : vote[v][i] = 0 =>
        \A k \in DOMAIN book.events :
            book.events[k].source = VoteRow(v, i) => book.events[k].state = "void"
=============================================================================
