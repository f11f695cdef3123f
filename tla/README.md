# Loyola Networking: specifications

TLA+ models of the server in `app/`, the TLC configurations that check them on
small instances, and theorems about them that the TLA+ proof system checks. Every
definition is written from the code, and `PROJECT.json` gives the lines each one
stands for. Paths below are relative to the repository.

Sections: 1 the system, 2 what the modules share, 3 Verification, 4 Retention,
5 OcrExecutor, 6 Ledger and Community, 7 Requests and the modules on it, 8 Settings,
9 what is proved, 10 where code and comments disagree, 11 what is not modelled, 12 plan.

To run one check: `tlc -workers 2 -config Community.cfg MCCommunity`; one module of
proofs: `tlapm VerificationProofs.tla`. The longest run takes about four minutes,
the others less.

## 1. The system

A campus network: students prove who they are with a photo of their ID card, then
publish, ask, answer, vote, meet; a reputation score in five pillars follows from
what others make of it. One FastAPI process with asyncio handlers, PostgreSQL behind
SQLAlchemy, one OCR worker process, an APScheduler in the same process, encrypted
files on the disk, and a Flutter client of the JSON API.

| Component | State it keeps | Operations | Talks to |
|---|---|---|---|
| Verification core (`services/verification.py`, `routers/verify.py`, `api/routes/verify.py`, `routers/admin.py`) | `users`: tier, roll number, provisional deadline; `verification_records`; `verification_attempts` | card, selfie, dispute, approve, reject, correct, manual verification, roles, provisional expiry | OCR pool, files, reputation (an award per approval), notifications |
| Images and retention (same file, `services/media.py`) | encrypted files; path columns, `artifacts_purged_at` | save, shred, purge pass | verification, scheduler, admin console |
| OCR process pool (same file) | `_executor`, `_inflight`, the pool's processes and futures | read a card, time out, crash, tear down | verification, queued local OCR |
| Queued local OCR (same file) | `checks`, `words` of records | a second, slower reading | OCR pool, settings |
| Reputation engine (`services/reputation.py`) | `reputation_events`; cache `users.rep_*`, `rep_frozen` | award, void, nullify, recompute, settle, decay, freeze | everything that earns points |
| Voting (`services/voting.py`) | `votes`, `score` columns, accepted answer | cast, flip, withdraw, accept | reputation, antiabuse |
| Moderation (`services/moderation.py`, `routers/moderation.py`) | reports and their votes, actions, appeals, suspensions | queue vote, resolve, remove, restore, appeal | reputation, content |
| Anti-abuse (`services/antiabuse.py`) | counters, vote pairs, signals | rate limits, ring and brigade jobs | voting, moderation |
| Posting, feed, comments, Q&A (`services/posting.py`, `routers/feed.py`, `routers/qa.py`) | posts, comments, questions, answers | publish, delete, answer, accept, merge | reputation, voting |
| Counted registrations (`routers/events.py`, `studyrooms.py`, `mentors.py`, `groups.py`, `api/routes/events.py`, `groups.py`) | events, tickets, rooms, seats, groups, mentoring sessions, and their counters | sign up, withdraw, check in, close, join, confirm | reputation |
| Profiles, projects, vault, opportunities, lost and found (`routers/` of these names, `api/routes/people.py`, `community.py`) | skills, endorsements, follows, projects, applications, resources, takedowns, listings | publish, vote, take down, endorse, follow, apply, decide, resolve | reputation, moderation |
| Authentication (`routers/auth.py`, `api/routes/auth.py`, `deps.py`, `security.py`) | password hash, sessions, rate-limit counters | sign up, in and out, revoke, change, reset | anti-abuse |
| Roles and grants (`routers/admin.py`, `api/routes/community.py`, `services/bootstrap.py`, `community_controls.py`) | `users.roles`, `tier`, grants | give and take roles, grant for a time | verification |
| Settings (`services/settings_store.py`, `routers/admin.py`) | `app_settings`, a cache in the process | read, save, seed | posting, OCR |
| Scheduler (`services/jobs.py`) | none | expiry, purge, settle, decay, rings, brigades, digest | all of the above |
| Database sessions (`db.py`) | | a transaction per request | everything |
| Notifications, search, releases, mobile client, HTML shell | own tables or none | rows appended and marked read, queries, rendering | |

**What is hard here.** Handlers read, await (the OCR for seconds, the database for
milliseconds) and write what they computed from what they read; nothing takes a row
lock and PostgreSQL runs at READ COMMITTED, so two requests of one account, a request
and a reviewer, or a request and a nightly job overlap in ways no test exercises.
Files are written and shredded outside the transaction that names them. One pool is
shared by coroutines that time out, are cancelled or lose their worker. Points for
one act are booked under one key and withdrawn under another, across months, caps,
appeals and freezes. `PROJECT.json` lists these hazards one by one, at their lines.

**What makes each part correct.**

- Verification: one account per roll number; full access only after a person
  approved; provisional access ends; the weekly cap is a cap; a decision is not
  undone by what was in flight when it was taken.
- Retention: no image is shredded while somebody may still have to look at it; every
  image is shredded in the end.
- OCR pool: the count of cards in flight is right, no pool is leaked, idle workers go.
- Reputation: the cache is the ledger; caps, floors and tiers hold through
  withdrawals; withdrawn votes and reversed removals leave nothing behind.
- Moderation queue: three votes decide, no verdict of the community without three members
  who voted for it, and what a moderator took down stays down only under an action one can
  appeal.
- Registrations: never more than the capacity, one check-in, one award.
- Discussions: merged questions lead somewhere, one answer is the accepted one, the
  counters count.
- Accounts: a change of password ends the sessions before it, no window lets more
  passwords be compared than its limit (of requests that commit: a refused one takes its
  own hit back), administrators cannot lock themselves out.
- What members publish: what is taken down is hidden, what is counted has its mark.
- Settings: an edit reaches every reader without a restart.

## 2. What the modules share

**A request is a session.** `get_db` opens a transaction, the handler works, the
transaction commits, or rolls back on any exception. Modules in which sessions overlap
(`Verification`, `Retention`, and those on `Requests`) split a request into an *Open*
step, which keeps what the session read, and a *Commit* step, which writes the columns
whose value the session changed (`Flushed`, `Flush`) over whatever the rows hold by then.
That is what SQLAlchemy's unit of work does at READ COMMITTED: an UPDATE names the dirty
columns only. The same operator gives lost updates where two sessions write one column and
harmless merges where they write two. A `Rollback` step is always possible
(`RollbackHandler` and `RollbackSave` in Retention and Settings, whose names differ so
that one module can extend them both).

**Serial or overlapping.** Some properties are true only of handlers one at a time.
They are checked with the sessions kept apart (`CONSTRAINT OneSession`, or the whole
module `Community`, in which a handler is one step) or in the states that no overlap
precedes (the history variable `overlapped` of `Requests`), and say so. They still have
content: they quantify over every order of handlers, jobs and clocks. What overlap
does to them is said with each; section 10 lists what it breaks against a promise.

**Time.** Deadlines are columns with the values *ahead* and *reached*; a clock action
moves them. Months, thirty days of absence and the 48 hours of settling are actions
or choices, never numbers.

**Abstracted everywhere.** Names, texts, notifications, audit rows and rendering. The
OCR's verdict is a choice.

## 3. Verification

State: `account` (tier 0 to 3, roll number, provisional deadline), `records` in order
of id, `attempts` of the last seven days, `request` (open sessions with what they
loaded), `expiring` (the accounts the expiry job loaded).

| Code | Actions |
|---|---|
| `verify_card` of both routers, `submit_card` | `OpenCard`, `OpenCardByApi` (which refuses the verified), then `RefuseCard` / `AcceptCard` when the OCR answers, then `CommitRefusedCard` / `CommitAcceptedCard` |
| `submit_selfie` of both routers, `dispute` | `OpenSelfie`, `OpenSelfieByApi`, `CommitSelfie`, `OpenDispute`, `CommitDispute` |
| `decide_verification`, `approve`, `reject` | `OpenReview`, `CommitApprove`, `CommitReject` |
| `verify_manually`, `set_roles` | `OpenManual`, `CommitManual`, `OpenRoles`, `CommitRoles` |
| `expire_provisional` | `StartExpiry`, `CommitExpiry` |
| exceptions, restart, clock | `Rollback`, `Crash`, `WindowPasses`, `AttemptsAge` |

Attempts are counted per user; the code also counts the attempts made from the same
device by other accounts, which can only refuse more. `make_admin` of the command
line grants tier 3 without a record; it is an installation step and not part of
the model, nor is `purge-test-accounts`.

| Run | Instance | Shows |
|---|---|---|
| `verification_serial` | 2 accounts, 2 roll numbers, 3 records, cap 1, one session at a time | `TypeOK`; `VerifiedByReviewer`: tier 2 has an approval behind it through cards, expiries, rejections and second decisions; `RejectedClaimReleasesRoll`; `VerifiedKeepsTier` |
| `verification_concurrent` | 2 accounts, 1 roll number, 2 sessions and the job | `OneAccountPerRoll` although the lookup precedes the OCR; `AttemptsOvershoot`: the cap is exceeded by fewer cards than are in the OCR at once |

Three records allow a card, a refusal and a later approval of the older record; two
accounts and one roll number are the smallest contest for a number; with a cap of one,
two sessions already overshoot it. `Racing` leaves selfies, disputes and roles out of
the concurrent run: none of them writes a roll number or an attempt. Accounts, roll
numbers and sessions are interchangeable and declared symmetric; neither run has a
liveness property.

## 4. Retention

State: `rows` (status, whether ever decided, card and selfie paths, deadline, purged
mark), `file` (each name unused, on the disk or shredded, and the committed record it was
saved for), `handler` (the open requests), `purge` (passes under way and the rows they
loaded).

`save_verification` puts the file on the disk when it is called, in the Start step; the
row appears at the commit, and only then does the file belong to a record (`rec`): the
file of a request that is rolled back stays on the disk, belongs to none, and is outside
`PurgedLeavesNothing`, which is about files a record once named. A purge pass is
`StartPurge` (the query), `Shred` (every file of the rows it loaded) and `CommitPurge`
(paths cleared, mark set). `shred` reports failure by a result nobody reads, so a file of
`Stuck` may survive it. `Crash` separates any two steps. The card and the portrait cropped
from it live and die together and are one file. Rows belong to different users, so that
each can be the latest record a selfie or a dispute works on. The console's purge
(`PurgeNow`) is a pass like the nightly one, a member of `Purgers`; the run has one pass
at a time.

Run `retention` (3 file names, 2 sessions, 1 record, a disk on which every shred may
fail): `UndecidedImagesKept`, the images of a record nobody has decided are on the
disk through every race of selfie, dispute, decision, purge and crash (a decided record
that a dispute reopens during a pass may lose its images: the property does not speak of
it); and
`OverdueIsPurged`, a record past its deadline with a final status does not stay so.
One record is enough because a pass treats its rows independently of each other, and
three names give it a card, a selfie and a replacement.

Fairness: the nightly schedule is weak fairness of `StartPurge`; `Shred` and
`CommitPurge` are strongly fair, since a crash can cut any pass short but not every
one. Requests owe nothing.

Nothing in the code ever sets the status "expired" that the purge also looks for, so a
record abandoned in *needs_selfie* or *in_review* keeps its images; `OverdueIsPurged`
is about the statuses that are set.

## 5. OcrExecutor

`run_ocr` and `run_local_queue_ocr` around `ProcessPoolExecutor(max_workers=1)`. The
module lock is never held across an await, so a stretch of a coroutine from one await
to the next is one action: `Start` (or `StartOnBroken`, whose submission raises at
once) and the four ways back, `Answer`, `TimeOut`, `Fail`, `Cancelled`, each with the
`finally` block in it. The library behind it is modelled from its use: its
worker reads one card and its call queue holds two more (`Take`), a taken card cannot be
cancelled, `shutdown(cancel_futures=True)` cancels the rest (`CancelPending`), a dead
worker fails every future (`WorkerDies`).

Run `ocr_pool` (4 cards): `InflightExact`, `NoPoolLeaked`, and `WorkersEnd`: once no
card is in flight, no worker stays alive unless another card comes. None of them says
that the cards of a newer pool are not cancelled by the handler of an older one's crash;
the model lets that happen, as the code does. Four cards are one in a
pool that timed out, one in its successor, one waiting and one that comes late. The
cards of a run are finitely many, so the run may stop where the server goes on
(`CHECK_DEADLOCK FALSE`). Fairness: a call ends at the latest with its timeout
(weak fairness of `Return`), and reading a card ends (`Finish`); the second is an
assumption about OpenCV and Tesseract that nothing in the code enforces.

## 6. Ledger and Community

`Ledger` is `services/reputation.py` as functions on the book of one user: rows in
order of id, the cached pillars, the freeze flag, and the row at which the running
month begins. `Award` (cap, floor, hold, freeze), `VoidSource`, `Nullify`,
`Recompute`, `Settle`, `Decay`, `FreezeIfNeeded` are the functions of the same names.
Points are in hundredths, the scale of the column. `rep_total` and `rep_tier` are
written in the same statement as the pillars and are derived from them. The velocity
hold, which compares 24 hours with 30 days, is a choice (`VelocityHold`), as are the
weight of a vote (`VoteWeight`) and whether voter and author share a browser
(`SameDevice`), in which case the vote counts for display and books nothing.

`Community` composes it with what books points on an author: publishing, votes, deletion,
upheld reports, appeals, verification, the freeze, and the nightly jobs. `CastVote` is a
new vote, a withdrawal or a flip, by what the voter's row holds. A handler is one step,
everything it calls included: `UpholdReport` removes the content if it is still up (void,
penalty, action), books the report's own penalty under the report, and looks at the
freeze. A vote row is identified by voter and item: the code deletes the row on
withdrawal, its ledger rows are void by then, and the next vote makes a new one. The
report's penalty has another source than the removal's, and an appeal reverses only the
latter. The queue that leads to an upheld report, suspensions and their appeals are in
`ModerationQueue`, `accept_answer` and comments in `Discussions`, takedowns in `Workshop`.

Run `community` (1 post, 1 answer, 2 voters, 4 rows; caps and tier thresholds scaled
down so that four rows reach them: conduct 4500, academic 1300, the others 400;
tiers at 0, 1000, 2000):

| Property | What could break it |
|---|---|
| `CacheMatchesLedger` | a path that moves rows and does not recompute |
| `MonthlyCap` | room given back by withdrawals, held rows, several rows at the edge |
| `ConductFloor` | penalties clipped against a score that appeals change |
| `RestoredCarriesNoPenalty` | delete, report, appeal and restore in any order |
| `WithdrawnVoteEarnsNothing` | flips, re-votes, held rows, settlements, rings |

Four rows are what an upheld harassment report, its removal, a second one and a
late award need; two voters what a score below its votes needs. The constraint
`Small` lists what else is bounded: one month end, after two rows; absences after it;
one verification; answers are not removed nor voted down; the second voter only
votes posts down, while the ledger is short.

## 7. Requests and the modules on it

`Requests` is the database under any handler: `db` is a record of tables, a table a
function from rows to a value. `Begin` reads the committed tables, computes what the
handler would make of them (`result`), and keeps the columns that differ with what it
read there; `Commit` writes those columns over whatever they hold by then; `Rollback`
writes nothing. A counter is a column: its read, its addition and its write are the
session's, so two sessions lose an update exactly where the code does. Tables in
`Unique` have their rows inserted under a constraint (`Clash` makes the later commit
fail); tables in `Booked` are history that counts rows inserted, and adds up. A request
that fails, a disconnect and a crash of the process are all a `Rollback` of what is
open. Ids are not given twice, and a row that was deleted is *gone*, not free.

Five modules are written on it, one action per handler, the form and the JSON route
each under its own name. Each holds several tables that share no row; the constraint
`OneConcern` (or `OneGathering`) of its MC module keeps a behaviour to one of them,
since steps on the others could only be interleaved with it and change nothing it
reads. All runs have two sessions: two overlapping requests already show every lost
update, and the bound on what a third would add is part of the property where one
exists (`ConsensusDecides`, `TicketPaid`). Sessions and members are symmetric; no
run here has a liveness property. `CHECK_DEADLOCK` is left on: somebody can always ask.

**Gatherings** (`routers/events.py`, `studyrooms.py`, `groups.py`, `mentors.py`, their JSON
routes): an event with its tickets, a study room, a group, a mentor's sessions.

| Code | Actions |
|---|---|
| `create`, `rsvp`, `do_checkin`, `close_event` and the JSON `create`, `rsvp`, `checkin` | `CreateByForm`, `Create`, `Toggle`, `Rsvp`, `ScanByForm`, `CheckIn`, `Close` |
| study rooms `create`, `join`, `cancel` | `OpenRoom`, `JoinRoom`, `CancelRoom` |
| groups `create`, `join`, `set_role`, JSON `toggle_membership` | `CreateGroup`, `CreateByApi`, `JoinGroup`, `ToggleMembership`, `SetRole` |
| mentors `opt_in`, `request_session`, `respond`, `confirm` | `OptIn`, `RequestSession`, `Respond`, `Confirm` |

Run `gatherings` (2 members, one place in the event, two in the room, one mentoring
slot): `PlacesExact`, the counters are the rows and no place is given twice while
requests do not overlap (with overlap the event is overbooked: capacity is compared
with a counter read before); `TicketPaid`, a ticket pays once, and at most once per
scan in the air when scans overlap; `CreditedByBoth`. A capacity of one is the smallest
contest; `Drift` bounds the counters that overlapping requests let run away.

**ModerationQueue** (`routers/moderation.py`, `services/moderation.py`,
`jobs.detect_brigading`, `feed.delete_post`): reports, votes, decisions, suspensions,
appeals. A queue vote is the one handler that reads after its own flush, so it has two
steps: `OpenVote` reads the report; `CountVotes` flushes the vote and counts what the
session can see, the committed votes and its own. The moderator's earlier vote is read
between the two: as it was at the first or as it is at the second (`Readings`).
`VoteAgain` is a vote equal to the earlier one: there is nothing to flush, and the report
may have been read before what is committed by now. The vote that moves a report to
*in_review* updates its row and holds its lock until the commit (`locks`), which is why
two first votes do not overlap and later ones do.

Run `moderation` (1 report and the automatic one, 4 voters of whom one is appointed, and
the author, 2 actions in the audit log): `ConsensusDecides`: no report stays undecided
with three votes one way, or with one more per further overlapping session;
`VerdictBacked`: in the step by which a report becomes the community's it is upheld or
dismissed, and three members other than the author have cast the vote for that outcome
(*remove* or *keep*), through changes of mind and votes that reopen a decided report. It
is about the step, since later a decision of the staff that finds its own columns as it
left them in a reopened report writes the status alone, under the verdict of the community
committed meanwhile; `DownUnderAnAction`: content or an account a moderator took down
stays down only under an action of which no appeal was upheld. `FewVotes` and `FewAppeals`
bound the votes (four, of two kinds) and the appeals (two): a fourth vote is the one that
overlaps.

**Discussions** (`routers/qa.py`, `feed.py`, their JSON routes, `services/posting.py`,
`voting.accept_answer`, screening and crisis flags): questions that can be merged, the
answers to one of them, comments and ballots on one post.

A text is screened against word lists (`Screen`; which lists hit is a choice): distress
wins over everything and raises a crisis flag, a blocked text is not inserted, and what
is suspicious is inserted with a report (`Recorded`), on posts and comments only.

Run `discussions` (3 questions, 2 answers, 2 comments, 2 voters): `DuplicatesEnd`: no
circle of merged questions (three questions are the shortest chain that could be bent into
one; two merges at once do close a circle of two); `OneAccepted`: the answer the thread
names is the marked one and no other has the points, after any moves of the mark;
`TalliesExact`: ballots, answers and comments are counted right after deletions, removals
and restorations. All three are of requests that do not overlap.

**Accounts** (`routers/auth.py`, `admin.py`, `api/routes/auth.py`, `community.py`,
`deps.py`, `services/bootstrap.py`, `antiabuse.hit_rate_limit`): one member's password and
sessions, the throttle, and the roles of all. The throttle's upsert holds its row until
the request ends, so requests that hit one counter follow each other, and a refused
request rolls its own hit back. `Release` is a new version of the program with other
hashing parameters, after which a sign-in rewrites the hash.

Run `accounts` (2 sessions of one account, 2 passwords, limit 2 in 2 windows; 2 members
with roles): `ChangeEndsSessions`: after a change of password no session begun under an
earlier one is usable, except the one that made the change (without overlap: a sign-in
with the old password that overlaps the change survives it, and its rehash can write the
old password back); `Throttled`: no window has more comparisons that commit than the
limit, however requests overlap (a wrong password on the JSON login is answered by an
exception, which rolls its hit back: of those guesses the code keeps no count);
`AnAdminRemains`: once the first boot made an administrator, what they do to each other
one after another leaves one, and a super administrator is one. `Bootstrap` runs once and
may find nobody, or nobody of the configured name; then there is no administrator.

**Workshop** (`routers/vault.py`, `profiles.py`, `projects.py`, `lostfound.py`,
`opportunities.py`, `api/routes/people.py`, `community.py`, `moderation.decide_takedown`):
what one member publishes. Votes, endorsements, follows and applications are rows of one
kind, *marks*: put on something by a member, once each (the unique constraints, `Once`).
An application is to a role of the project or to the project alone, which has no slots. A
profile can take another handle, under the uniqueness of handles (`UpdateProfile`).

Run `workshop` (2 members, 2 uploads, 2 takedown requests, 2 rows of the skill, 3 marks, a
role with 2 slots): `TakenDownIsHidden`: a resource under an open takedown request cannot
be downloaded unless another request about it was decided or a newer version replaced it,
both of which the code does; `MarksCount`: points of a vote or an endorsement stand
exactly as long as it does, under any overlap, and without overlap a score is its votes, a
skill counts no more endorsements than stand, and no fewer slots are filled than
applicants accepted. The last two are bounds from one side: a skill listed anew starts at
zero above its old endorsements, and an applicant accepted twice fills two slots. Three
marks are what a skill that is removed and listed anew needs: an old endorsement, a new
one, a withdrawal.

## 8. Settings

`services/settings_store.py`, the two handlers of the admin console that save, the readers
and the seeding at start. The process is one (`deploy/loyola.service`), its requests
interleave at their waits: `Miss` asks the database, `Fill` puts the answer into the
cache, however old; `SetSetting` writes the row, caches the value and drops the entry in
one stretch, and `CommitSave` comes later. A reader between the two fills the cache with
the old value again. `Tick` ages entries, `Stop` loses the cache and rolls requests back,
`StartServer` seeds missing rows.

`EditableSetting` is the promise: a current value and the set of values a read may return
now (`offered`). A step may only take values from `offered` away or add the current one: a
value never saved is not read, and one that has gone out of use does not come back. And if
the edits end, in the end only the last one is offered. Run `settings` (3 requests, 2
values, 2 ticks) checks the property `Editable`: each setting implements this under the
mapping `current <- row[k]`, `offered <- Offered(k)`, where `Offered` is the cache entry,
or else the row, with what the database has already answered to waiting readers. Two
values and three requests give a stale reader, a saver and a reader that fills after both.

Fairness: time passes (`Tick`) and the database answers a read (`Fill`). Nothing is asked
of the savers, nor that anybody reads. Without either TLC finds a stale value that is
offered for ever.

## 9. What is proved

Every safety property a run checks is also a theorem, for every value of the constants
that the modules' assumptions allow: any number of members, rows and sessions, and in the
modules where requests overlap, any overlap of them. `TypeOK` of a module is the run's;
where two modules meet in one module of proofs it has the module's name in front
(`OcrTypeOK`, `SettingsTypeOK`, `RetentionTypeOK`, as have `OcrSpec` and the others).

| Module | Theorem | Statement |
|---|---|---|
| `VerificationProofs` | `TypeCorrect`, `UniqueRollNumber`, `OvershootBounded` | `Spec => []TypeOK`, `[]OneAccountPerRoll`, `[]AttemptsOvershoot` |
| | `VerifiedIsVouched`, `RejectedRollFree`, `VerifiedStays` | `SerialSpec => []VerifiedByReviewer`, `[]RejectedClaimReleasesRoll`, `VerifiedKeepsTier` |
| `CommunityProofs` | `CommunityTyped`, `CacheCorrect`, `CapHolds`, `FloorHolds` | `Spec => []TypeOK`, `[]CacheMatchesLedger`, `[]MonthlyCap`, `[]ConductFloor` |
| | `WithdrawnEarnsNothing`, `RestoredIsForgiven` | `[]WithdrawnVoteEarnsNothing`, `[]RestoredCarriesNoPenalty` |
| `AccountsProofs` | `AccountsTyped`, `ThrottleHolds`, `ChangeEndsOthers`, `AdminRemains` | `Spec => []TypeOK`, `[]Throttled`, `[]ChangeEndsSessions`, `[]AnAdminRemains` |
| `GatheringsProofs` | `GatheringsTyped`, `PlacesHold`, `TicketPays`, `BothCredit` | `Spec => []TypeOK`, `[]PlacesExact`, `[]TicketPaid`, `[]CreditedByBoth` |
| `DiscussionsProofs` | `DiscussionsTyped`, `MergesEnd`, `MarkIsOne`, `TalliesHold` | `Spec => []TypeOK`, `[]DuplicatesEnd`, `[]OneAccepted`, `[]TalliesExact` |
| `WorkshopProofs` | `WorkshopTyped`, `TakedownHides`, `MarksAreCounted` | `Spec => []TypeOK`, `[]TakenDownIsHidden`, `[]MarksCount` |
| `OperationsProofs` | `OcrTypeCorrect`, `InflightCounted`, `PoolsShutDown` | `OcrSpec => []OcrTypeOK`, `[]InflightExact`, `[]NoPoolLeaked` |
| | `SettingsTypeCorrect`, `SettingsImplementSafe` | `SettingsSpec => []SettingsTypeOK`, `Template!Safe /\ Lists!Safe` |
| | `RetentionTypeCorrect`, `UndecidedKept` | `RetentionSpec => []RetentionTypeOK`, `[]UndecidedImagesKept` |
| | `QueueTyped`, `ThreeDecide`, `VerdictsStand`, `DownHasAction` | `Spec => []TypeOK`, `[]ConsensusDecides`, `VerdictBacked`, `[]DownUnderAnAction` (ModerationQueue) |

`OperationsProofs` holds four parts that share nothing but the process: they are what
keeps the site running rather than what its members do. `RequestsProofs` holds the
lemmas about `Begin`, `Commit` and `Rollback` that every module on `Requests` cites.

**Assumptions.** Those of the modules, checked by every run. The sessions, voters,
members, marks and cards are finitely many, since they are counted. Ids of different
tables are different, and "none" is no id (`DiscussionsAssumption`,
`WorkshopAssumption`, `ModerationAssumption`, `SettingsAssumption`; `NoRoll`, `NoPool` and
`None` in Verification, OcrExecutor and Retention). Limits are what the code's validators
let through: 2 to 50 seats of a room, 1 to 20 sessions of a mentor, a weekly cap above 0,
caps of pillars that are naturals, weights of a vote from 5 to 150, thresholds that
contain 0, a decay of at most all. Which tables have a unique constraint and which are
history (`Unique`, `Booked`) is fixed by each module. Bounds such as `MaxRecords`,
`MaxEvents` or `MaxScore` are any natural numbers.

### Overlapping requests

In the modules on `Requests` (section 7) an invariant speaks of two things: the
committed tables, and what the open sessions will write to them. A commit writes columns
whose old value may be gone, so a property is kept under overlap only if what is to be
written is right whatever it meets.

- *Without overlap* (`SerialInv` of Accounts, Gatherings, Discussions and Workshop): as
  long as nothing has overlapped, the tables are good, and so is what the one open session
  will make of them (`After`). Each handler then has one thing to show, that it makes good
  tables of good ones (`Sound`), and `FlushAt` carries it over the commit. The good tables
  are defined on a table, not on `db`: `Roled` and `Worded`, `Counted`, `Ticketed` and
  `Confirmed`, `Circleless`, `Marked` and `Tallied`, `Scored`, `Endorsed` and `Filled`.
  That merged questions end is carried by `Circleless`, "every set of questions has one
  whose duplicate is outside it", which a merge into an end of a chain keeps.
- *With overlap*, what open sessions will write is constrained as well.
  `TicketPaid`: a session that pays for a ticket also writes that ticket's check mark
  (`WritesPay`), a check mark is never taken back, and what was paid plus the sessions
  about to pay are no more than the sessions that can be open (`Paid`): one that commits
  turns from the latter into the former, and once the mark is committed nobody begins.
  `CreditedByBoth`: who credits has read or writes both confirmations.
  `MarksCount`: a mark is put under an id only one session writes, together with its
  points, and a mark that is there changes together with them (`MarksWritten`,
  `MarksPaid`).
  `TakenDownIsHidden`: a session that opens a request takes the resource down or has
  found it down; a session that makes a resource downloadable decides a request about it
  or has found it excused, one that replaces it writes the newer version too, and an
  excuse does not go away (`OpenHidden`, `VaultWritten`).
- `Throttled` holds because what an open hit read is still in the row (`HitsAreFresh`): no
  other open request hits the same row (`HitsExclude`). Who is let through hits, below the
  limit (`PassesAreHits`), and the sign-ins of a window are at most its hits
  (`PassedWereCounted`). When `Hit` does not wait for the row, or does not look at the
  limit, the proof fails at the sign-in.

### The queue of reports

`IInv` of `OperationsProofs` has three groups, each of the tables and of what sessions
will write.

- *What is down* (`Supported`): it has an action on which no appeal was upheld, and a
  session that will uphold one also makes the target active. An action is written under
  an id of its own by the session that takes the target down (`ActionsWritten`), and no
  appeal stands on an action that is not there (`NoAppeal`). Without the clause about
  the sessions it is not inductive: an appeal that is being upheld would take the
  action away and leave the target down.
- *Verdicts* (`VotesHeld`, `VotesWritten`, `VerdictsWritten`): a vote in the table was
  cast, by somebody other than the author, on a report that is no longer open; a session
  that has not counted yet writes nothing but its vote and *in_review*, and one that
  writes *in_review* holds the row or has not counted. So what `CountVotes` sees is votes
  that were cast and its own, and three of them are for what it decides (`BackedBy`). A
  session that writes a verdict of the community writes its outcome in the same commit,
  backed by the votes cast and its own: `VerdictBacked` is a step of the commit.
- *Consensus* (`Few`): of an undecided report, the votes one way that are in the table or
  in sessions that have counted without deciding it are fewer than
  `CONSENSUS_REQUIRED`, plus one for each further session if any overlapped. A session
  that counts sees all votes of the table; those it does not see are in other sessions,
  one each (`FS_Surjection` bounds them by the sessions). A decided report that some
  session is about to move to *in_review* again (`Reopened`) has few votes in all
  sessions, so that it has few when it is reopened; a session that is about to replace an
  earlier vote of the table is one whose vote changes (`Revotes`).

### Verification

`TypeOK` is not inductive: the type of a session allows it to have loaded no users row,
and a flush of such a session would write something that is no account. `UserLoaded`
says that a session that writes a users row has loaded one; with it each commit is a lemma
on `FlushAccount`. `UniqueRollNumber` does not use the lookup `AcceptCard` makes, and TLC
finds it violated when the constraint is dropped: the constraint carries the guarantee,
the lookup only words the refusal. `OvershootBounded`: attempts plus open cards only grow in
`OpenCard`, which finds the attempts below the cap.

The other three are of `SerialSpec`, in which no session opens while another is open; what
overlap does to them is in section 10. Their invariant `SerialInv` says that the open
session is *fresh*: what it loaded of the account and the record is what the tables hold.
With that a flush writes what the handler computed, and each property is an argument about
one handler: who raises a tier to 2 approves a record in the same transaction (a reviewer,
or a manual verification), only a rejection lowers it again, and a rejection clears the
roll number in the same transaction.

### Community

`CacheMatchesLedger` is preserved because every function that moves rows ends in
`Recompute`, with one exception that needs an argument: `settle_due` changes states
without recomputing, which is right only because *provisional* and *settled* rows both
count (`SettleCached`). Sums over rows are folds of the community modules; a finite set
induction gives that they depend on the values only (`SumSame`), grow with what is not
negative (`SumGrows`), and gain what is added (`SumWith`).

`MonthlyCap` and `ConductFloor` are proved of a book (`GoodBook`): an award is clipped to
the room its pillar has left, and every other function only takes rows out of the month. A
penalty is clipped to the floor; the floor is kept when rows are voided because a conduct
row that gives points has no source that could be withdrawn (`ConductRows`): what is
voided raises conduct. `TypeOK` needs `ScoreInv`: a score is never below the sum of the
votes, so it stays above all members voting down.

`RestoredCarriesNoPenalty` is not inductive: an item that is published says nothing of the
time before. Its strengthening `PenaltyIsOnRemoved` speaks of all items that are not
removed. With it, and with `Descends` for what a function of the ledger does to rows, each
handler has one thing to show: that it appends no row of a vote that does not stand, or
voids what the vote it withdraws earned (`VoidSourceVoids`), and the same of penalties
(`StepKeeps`). That the sources of votes, content and reports are never equal is a lemma.

### OCR pool, settings, images

`InflightExact`: a start is one more awaiting call, a return one less; so the counter is
positive at every return and the clamp at zero never acts. `NoPoolLeaked`: whoever
replaces or drops the shared pool has shut it down; with `InflightExact`, the last card to
return drops it.

That settings implement the safe part of `EditableSetting` needs no argument about time:
`Fill` moves a value from the waiting readers to the cache, both of which are offered, and
an entry that goes leaves the row (`NextOffers`). Whether the entry is dropped by the save,
by `Tick` or by `Stop` does not matter. It needs `Seeded`: a running process has seeded its
rows, so no read answers "none".

`UndecidedImagesKept` is not inductive either. A file may be shredded by the pass of
another row, by a pass that loaded the row before it changed, or be named by a request
that has not committed. `RetentionInv` rules these out one by one: a row names only files
saved for it (`RowsOwnFiles`); a row with a final status has been decided
(`FinalIsDecided`), and what a pass loaded was decided then and, decisions being permanent,
is decided still (`PassesOnDecided`); the file of an open request is on the disk, saved
for the request's row and named by no row (`RequestsHold`). So no pass shreds a file an
undecided row names. The status test of the query is what carries it: without it
`FinalIsDecided` has nothing to say of the loaded rows, and the proof stops there.

### Only model-checked

`OverdueIsPurged`, `WorkersEnd` and the second half of `Editable` ("if the edits end, only
the last value is offered"): liveness under fairness is out of the prover's reach. So is
what the runs show of the bounds themselves, such as that every action can happen.

## 10. Where code and comments disagree

The run `purged_leaves_nothing` ends in a counterexample: a card, a first selfie and a
second one are committed, the record is decided, its deadline passes and a purge pass
runs to its end. The second selfie replaced the path of the first, whose file stays on the
disk although its record is purged, and "Delete ID images 30 days after verification
completes" is called non-negotiable. Every request of it commits and no shred fails. The
others were met while modelling; the models contain them, and no run is spent on them.

| Where | What happens |
|---|---|
| `services/verification.py:323`, `:614` | A card in the OCR, or the expiry job, writes over an approval committed meanwhile: the verified account drops a tier. |
| `services/verification.py:366` | Approving a record that had been refused verifies an account without a roll number, "the account anchor" (`models.py:104`). |
| `routers/verify.py:60` | The HTML route takes another card of a verified account and replaces its roll number; the JSON route refuses (`api/routes/verify.py:98`). |
| `services/verification.py:84` | After a timeout the busy worker lives on and the next card starts a second one, against "One worker" (line 46). |
| `services/moderation.py:258` | Upvote points are booked under the vote and withdrawn under the post: "Points earned from removed content are withdrawn" (line 256) does not hold of them. |
| `services/jobs.py:153` | The job takes "2% per month of inactivity" (`services/reputation.py:392`) every night. |
| `services/jobs.py:100` | The automatic report names the brigaded member as the target: upholding it penalises the victim. |
| `services/reputation.py:343` | Two overlapping upvotes leave the cached score without one of them until the next recomputation. |
| `routers/vault.py:149` | A new version of a resource that is down makes the old file downloadable again, although "a takedown pulls the file immediately" (line 286). |
| `services/moderation.py:466` | An upheld appeal against a takedown's action withdraws the uploader's own points of publication, and the resource stays down. |
| `services/antiabuse.py:49` | A refused request rolls its own hit back, so refused attempts are not counted. |
| `routers/mentors.py:214` | Two confirmations at once each see only their own: neither pays. |

## 11. What is not modelled

- `run_queued_local_ocr`: a second reading written into the JSON columns `checks` and
  `ocr_words`, which the models abstract; its use of the pool is in `OcrExecutor`.
- OCR of cards (`app/ocr`): a function of a picture; its verdict is a choice.
- Notifications, the digest and the transparency snapshot: rows appended and texts.
- Search and the feed's ranking: queries.
- The update client, the release manifest and the Flutter client: another program; the
  client's stage machine would be the next to model.
- Of an application, a role of another project (nothing checks that it is the project's);
  of a handle, the reserved and malformed ones, which are refused.
- Media of posts and their signed links; data export and account deletion by the command
  line; seeding scripts.
- Connection pools, routing, templates: no state of the system.

## 12. Plan

1. `AbstractLedger`: a set of standing acts, each worth its points; `Community` shown to
   implement it with a refinement mapping from sources to acts, and the refinement proved
   step by step.
2. A theorem on what overlap can do to `PlacesExact`: a bound on how far an event is
   overbooked, as `OvershootBounded` has it for the weekly cap.
3. `Updater` (`mobile/lib/core/updater.dart`): check, download, hash, install, with a second
   check during a download.
4. The columns of `run_queued_local_ocr`.
