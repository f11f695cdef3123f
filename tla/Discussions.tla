---------------------------- MODULE Discussions ----------------------------
(***************************************************************************)
(* Questions, answers and their acceptance (app/routers/qa.py,              *)
(* app/api/routes/qa.py, accept_answer of app/services/voting.py), posts,   *)
(* comments and polls (app/routers/feed.py, app/api/routes/feed.py,          *)
(* app/services/posting.py), and the crisis flags and automatic reports      *)
(* their text can raise.  Questions can be merged into each other; answers   *)
(* are given to one of them, the thread, and comments to one post, a poll.   *)
(*                                                                         *)
(* Each handler is a request of module Requests.  The row of an answer also   *)
(* stands for its answer_posted points.  Votes are in Community, reports and  *)
(* the audit log in ModerationQueue; notifications are left out.              *)
(***************************************************************************)
EXTENDS Requests

CONSTANTS
    Questions,
    Thread,      \* the question that is answered
    Asker,       \* asked it
    Answers,     \* rows an answer can take
    Comments,    \* rows a comment can take
    AuthorOf,    \* who writes each answer; the shared moderator account is one
    Moderators,  \* appointed
    Voters,      \* members who vote in the poll
    Options,     \* of the poll
    Awards       \* bound: answer_accepted events, in order of id

Poll == "poll"

\* Ids of different tables; "none" and "voided" are no ids.
ASSUME DiscussionsAssumption ==
    /\ Thread \in Questions /\ Asker \notin Moderators
    /\ Questions \cap Answers = {} /\ Questions \cap Comments = {} /\ Answers \cap Comments = {}
    /\ Poll \notin Questions \cup Answers \cup Comments
    /\ "none" \notin Questions \cup Answers \cup Options /\ "voided" \notin Answers
    /\ IsFiniteSet(Answers) /\ IsFiniteSet(Comments) /\ IsFiniteSet(Voters)
    /\ AuthorOf \in [Answers -> Moderators \cup Voters \cup {Asker}]
    /\ Awards \subseteq Nat
    /\ Unique = {"ballot"} /\ Booked = {}

vars == requestVars

-----------------------------------------------------------------------------
Texts == Questions \cup Answers \cup Comments \cup {Poll}

\* What moderators removed, its author deleted, or both, has one status in the
\* code; the audit log tells them apart.
Statuses == {"none", "active", "removed", "deleted", "both"}
Raised == {"none", "report", "crisis", "handled"}

ThreadRow == [answer_count : Nat, accepted_answer_id : Answers \cup {"none"}]
PostRow == [comment_count : Nat, points : {0, 1}]

Tables ==
    [status      : [Texts -> Statuses],
     raised      : [Texts -> Raised],
     duplicate   : [Questions -> Questions \cup {"none"}],
     thread      : ThreadRow,
     is_accepted : [Answers -> BOOLEAN],
     award       : [Awards -> Answers \cup {"none", "voided"}],
     post        : PostRow,
     ballot      : [Voters -> Options \cup {"none"}],
     votes       : [Options -> Nat]]

TypeOK == db \in Tables /\ ChangesTyped /\ overlapped \in BOOLEAN

Init ==
    /\ db = [status      |-> [t \in Texts |-> "none"],
             raised      |-> [t \in Texts |-> "none"],
             duplicate   |-> [q \in Questions |-> "none"],
             thread      |-> [answer_count |-> 0, accepted_answer_id |-> "none"],
             is_accepted |-> [a \in Answers |-> FALSE],
             award       |-> [w \in Awards |-> "none"],
             post        |-> [comment_count |-> 0, points |-> 0],
             ballot      |-> [u \in Voters |-> "none"],
             votes       |-> [o \in Options |-> 0]]
    /\ session = [s \in Sessions |-> {}]
    /\ overlapped = FALSE

-----------------------------------------------------------------------------
(* What is written, and what its text raises.                              *)

Exists(t) == db.status[t] # "none"

\* A row nobody has inserted, in the database or in an open session.
Fresh(t) == ~Exists(t) /\ Writing("status", t) = {}

Inserted(t) == [db EXCEPT !.status[t] = "active"]

\* What of a text the word lists can hit; "faculty": an opinion on a named teacher.
WordLists == {"profanity", "hard_block", "crisis", "faculty"}

\* "Crisis wins over everything": a distressed post that also swears is routed
\* for support.  "report" is the verdicts review and flag.
Screen(hits) ==
    IF "crisis" \in hits THEN "crisis"
    ELSE IF "hard_block" \in hits THEN "block"
    ELSE IF hits # {} THEN "report" ELSE "allow"

RaiseCrisis(d, t) == [d EXCEPT !.raised[t] = "crisis"]

\* Questions and answers are only looked at for distress.
Recorded(d, t, verdict) ==
    CASE verdict = "crisis" -> RaiseCrisis(d, t)
      [] verdict = "report" /\ t \in Comments \cup {Poll} -> [d EXCEPT !.raised[t] = "report"]
      [] OTHER -> d

\* A blocked text is not inserted at all.
Screened(d, t) ==
    {Recorded(d, t, Screen(hits)) : hits \in {h \in SUBSET WordLists : Screen(h) # "block"}}

Gone(t) == IF db.status[t] \in {"removed", "both"} THEN "both" ELSE "deleted"

HandleCrisis(s, t) ==
    /\ db.raised[t] = "crisis"
    /\ Begin(s, [db EXCEPT !.raised[t] = "handled"])

\* By a decision on a report; no counter is touched.
RemoveContent(s, t) ==
    /\ db.status[t] = "active"
    /\ Begin(s, [db EXCEPT !.status[t] = "removed"])

\* By an appeal against such a decision, whoever deleted the row since then.
RestoreContent(s, t) ==
    /\ db.status[t] \in {"removed", "both"}
    /\ Begin(s, [db EXCEPT !.status[t] = "active"])

-----------------------------------------------------------------------------
(* Questions.                                                              *)

Ask(s, q) ==
    /\ Fresh(q)
    /\ \E result \in Screened(Inserted(q), q) : Begin(s, result)

\* The JSON route is the form with its fields parsed.
AskByApi(s, q) == Ask(s, q)

\* Mutant: the canonical question is not looked at.
AnyTarget(q, canonical) == q # canonical

MayMerge(q, canonical) == q # canonical /\ db.duplicate[canonical] = "none"

\* Nothing asks whether others were merged into q, or q into another.
MarkDuplicate(s, q, canonical) ==
    /\ Exists(q) /\ Exists(canonical)
    /\ MayMerge(q, canonical)
    /\ Begin(s, [db EXCEPT !.duplicate[q] = canonical])

CloseQuestion(s, q) == Exists(q) /\ Begin(s, [db EXCEPT !.status[q] = Gone(q)])

-----------------------------------------------------------------------------
(* Answers to the thread.                                                  *)

Answered(a) == [Inserted(a) EXCEPT !.thread.answer_count = @ + 1]

Answer(s, a) ==
    /\ db.status[Thread] = "active"
    /\ Fresh(a)
    /\ \E result \in Screened(Answered(a), a) : Begin(s, result)

\* The JSON route can also answer in the name of the shared moderator account.
AnswerByApi(s, a) == Answer(s, a)

NextAward == {w \in Awards : db.award[w] = "none" /\ Writing("award", w) = {}}

\* Mutant: the points of the previous answer stay.
PointsStay(d, previous) == [d EXCEPT !.is_accepted[previous] = FALSE]

Unaccepted(d, previous) ==
    [d EXCEPT !.is_accepted[previous] = FALSE,
              !.award = [w \in Awards |-> IF @[w] = previous THEN "voided" ELSE @[w]]]

Accepted(a) ==
    LET previous == db.thread.accepted_answer_id
        moved == IF previous \notin {"none", a} THEN Unaccepted(db, previous) ELSE db
    IN  [moved EXCEPT !.is_accepted[a] = TRUE, !.thread.accepted_answer_id = a]

Awarded(d, a) ==
    LET w == CHOOSE w \in NextAward : \A v \in NextAward : w <= v
    IN  [d EXCEPT !.award[w] = a]

\* The answer and the thread may be removed; the answer that is accepted
\* already can be accepted again.
Accept(s, a, actor) ==
    /\ Exists(Thread) /\ Exists(a)
    /\ actor \in Moderators \cup {Asker}
    /\ \/ AuthorOf[a] = actor /\ Begin(s, Accepted(a))
       \/ AuthorOf[a] # actor /\ NextAward # {} /\ Begin(s, Awarded(Accepted(a), a))

AcceptByApi(s, a, actor) == Accept(s, a, actor)

-----------------------------------------------------------------------------
(* The post, its comments and its poll.                                    *)

\* Only polls earn points.
CreatePost(s) ==
    /\ Fresh(Poll)
    /\ \E result \in Screened([Inserted(Poll) EXCEPT !.post.points = 1], Poll) : Begin(s, result)

\* Form and JSON route both end in posting.create_post.
CreatePostByForm(s) == CreatePost(s)
CreatePostByApi(s) == CreatePost(s)

\* By its author, or by a moderator, whose deletion is logged as a removal.
DeletePost(s) ==
    /\ Exists(Poll)
    /\ \E status \in {Gone(Poll), "both"} :
           Begin(s, [db EXCEPT !.status[Poll] = status, !.post.points = 0])

DeletePostByApi(s) == DeletePost(s)

AddComment(s, c) ==
    /\ db.status[Poll] = "active"
    /\ Fresh(c)
    /\ \E result \in Screened([Inserted(c) EXCEPT !.post.comment_count = @ + 1], c) :
           Begin(s, result)

AddCommentByForm(s, c) == AddComment(s, c)
AddCommentByApi(s, c) == AddComment(s, c)

\* Mutant: a deleted comment stays in the count.
DeletedUncounted(d, c) == [d EXCEPT !.status[c] = Gone(c)]

\* Mutant: no lower bound.
OneBelow(d, c) == [d EXCEPT !.status[c] = Gone(c), !.post.comment_count = @ - 1]

Deleted(d, c) ==
    [d EXCEPT !.status[c] = Gone(c),
              !.post.comment_count = IF @ > 0 THEN @ - 1 ELSE 0]

\* No look at the status: each repetition takes one from the count.
DeleteComment(s, c) == Exists(c) /\ Begin(s, Deleted(db, c))

DeleteCommentByApi(s, c) == DeleteComment(s, c)

\* Both branches go on to count the option that is chosen.
VotedFor(u, option) ==
    LET previous == db.ballot[u]
        freed == IF previous = "none" THEN db
                 ELSE [db EXCEPT !.votes[previous] = IF @ > 0 THEN @ - 1 ELSE 0]
    IN  [freed EXCEPT !.ballot[u] = option, !.votes[option] = @ + 1]

\* The form counts the same option again as it stood.  The post may be removed.
VotePoll(s, u, option) == Exists(Poll) /\ Begin(s, VotedFor(u, option))

VotePollByApi(s, u, option) == db.ballot[u] # option /\ VotePoll(s, u, option)

-----------------------------------------------------------------------------
Asking(s) ==
    \/ \E q \in Questions : \/ Ask(s, q) \/ AskByApi(s, q) \/ CloseQuestion(s, q)
                            \/ \E c \in Questions : MarkDuplicate(s, q, c)
    \/ \E a \in Answers : \/ Answer(s, a) \/ AnswerByApi(s, a)
                          \/ \E m \in Moderators \cup {Asker} : Accept(s, a, m) \/ AcceptByApi(s, a, m)

Posting(s) ==
    \/ CreatePostByForm(s) \/ CreatePostByApi(s) \/ DeletePost(s) \/ DeletePostByApi(s)
    \/ \E c \in Comments : \/ AddCommentByForm(s, c) \/ AddCommentByApi(s, c)
                           \/ DeleteComment(s, c) \/ DeleteCommentByApi(s, c)
    \/ \E u \in Voters, o \in Options : VotePoll(s, u, o) \/ VotePollByApi(s, u, o)

Next ==
    \E s \in Sessions :
        \/ Asking(s) \/ Posting(s)
        \/ \E t \in Texts : HandleCrisis(s, t) \/ RemoveContent(s, t) \/ RestoreContent(s, t)
        \/ Commit(s) \/ Rollback(s)

Spec == Init /\ [][Next]_vars

-----------------------------------------------------------------------------
(* Properties, of requests that do not overlap: overlapping ones break each. *)

\* A reader who is sent on from a merged question to the canonical one (detail)
\* arrives, however questions were merged and merged again: no questions are
\* merged in a circle.
DuplicatesEnd ==
    ~overlapped =>
        \A merged \in (SUBSET Questions) \ {{}} : \E q \in merged : db.duplicate[q] \notin merged

\* "Mark the answer that solved it" (accept_answer): wherever the mark was moved,
\* the answer the thread names is the one that carries it, and no other answer
\* has points for being accepted.
OneAccepted ==
    ~overlapped =>
        /\ \A a \in Answers : db.is_accepted[a] = (db.thread.accepted_answer_id = a)
        /\ \A w \in Awards : db.award[w] \in Answers => db.is_accepted[db.award[w]]

\* After any changes of mind each option has the votes of the members whose
\* ballot names it, the thread counts its answers, and the post counts no
\* comment that was deleted; one that moderators removed still counts.
TalliesExact ==
    ~overlapped =>
        /\ \A o \in Options : db.votes[o] = Cardinality({u \in Voters : db.ballot[u] = o})
        /\ db.thread.answer_count = Cardinality({a \in Answers : Exists(a)})
        /\ db.post.comment_count <=
               Cardinality({c \in Comments : db.status[c] \in {"active", "removed"}})
=============================================================================
