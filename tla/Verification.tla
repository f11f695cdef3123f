---------------------------- MODULE Verification ----------------------------
(***************************************************************************)
(* Identity verification (app/services/verification.py, the card, selfie,  *)
(* dispute and manual routes, the reviewer's and the admin's decisions, and *)
(* the job that ends provisional access).  The images are in Retention.    *)
(*                                                                         *)
(* Every request runs in one database session: it loads the rows it works  *)
(* on, may await (the card request awaits the OCR for seconds) and commits  *)
(* at the end (app/db.py get_db).  PostgreSQL is used at READ COMMITTED,   *)
(* without row locks, and SQLAlchemy's UPDATE names only the columns whose  *)
(* value differs from the loaded one.  So a request is an Open step that    *)
(* keeps the rows it loaded and a Commit step that writes the dirty        *)
(* columns over whatever the rows hold by then.                            *)
(***************************************************************************)
EXTENDS Integers, Sequences, FiniteSets

CONSTANTS
    Users,        \* the accounts
    Rolls,        \* roll numbers a card can carry
    NoRoll,       \* users.roll_number IS NULL
    Requests,     \* sessions that can be open at once
    None,         \* no session, or no row loaded
    WeeklyCap,    \* settings.verification_attempts_per_week
    MaxRecords    \* bound: verification records ever created

ASSUME ConstantsAssumption ==
    /\ NoRoll \notin Rolls
    /\ WeeklyCap \in Nat /\ WeeklyCap > 0
    /\ MaxRecords \in Nat
    /\ IsFiniteSet(Requests)

VARIABLES
    account,      \* users: tier, roll number, provisional deadline
    records,      \* verification_records in order of id (and created_at)
    attempts,     \* verification_attempts of the last seven days, per user
    request,      \* the open sessions and what each loaded
    expiring      \* users loaded by the expire_provisional job under way

vars == <<account, records, attempts, request, expiring>>

-----------------------------------------------------------------------------
\* A deadline column: not set, in the future, reached.
Deadlines == {"none", "ahead", "reached"}

Account == [tier : 0..3, roll_number : Rolls \cup {NoRoll}, tier1_expires_at : Deadlines]

Statuses == {"needs_selfie", "in_review", "approved", "rejected"}

Decisions == {"none", "auto_reject", "approved", "rejected"}

\* selfie: selfie_path is set.
Record == [user : Users, status : Statuses, decision : Decisions, selfie : BOOLEAN]

\* "card" is awaiting the OCR; "accepted" and "refused" have its verdict.
Operations == {"card", "accepted", "refused", "selfie", "dispute", "review", "manual", "roles"}

\* loaded is the users row and row the record a request edits, if it does.
Request == [op : Operations, user : Users, loaded : Account \cup {None},
            rec : 0..MaxRecords, row : Record \cup {None},
            roll : Rolls \cup {NoRoll}]

TypeOK ==
    /\ account \in [Users -> Account]
    /\ records \in Seq(Record)
    /\ Len(records) <= MaxRecords
    /\ attempts \in [Users -> Nat]
    /\ request \in [Requests -> Request \cup {None}]
    /\ expiring \subseteq Users

Init ==
    /\ account = [u \in Users |-> [tier |-> 0, roll_number |-> NoRoll, tier1_expires_at |-> "none"]]
    /\ records = <<>>
    /\ attempts = [u \in Users |-> 0]
    /\ request = [s \in Requests |-> None]
    /\ expiring = {}

-----------------------------------------------------------------------------
(* Helpers.                                                                *)

\* A column as the UPDATE leaves it: written only if the session changed it.
Flushed(loaded, edited, current) == IF edited = loaded THEN current ELSE edited

\* The users row after a session that loaded one version and edited it.
FlushAccount(loaded, edited, current) ==
    [tier             |-> Flushed(loaded.tier, edited.tier, current.tier),
     roll_number      |-> Flushed(loaded.roll_number, edited.roll_number, current.roll_number),
     tier1_expires_at |-> Flushed(loaded.tier1_expires_at, edited.tier1_expires_at,
                                  current.tier1_expires_at)]

\* Somebody other than u holds the roll number.
Taken(roll, u) == \E v \in Users \ {u} : account[v].roll_number = roll

\* Mutant: the column is not UNIQUE and only the lookup before the write counts.
NoUniqueColumn(req, roll) == TRUE

\* The flush of a changed roll number meets the UNIQUE constraint of the column.
Assignable(req, roll) == roll = req.loaded.roll_number \/ ~Taken(roll, req.user)

\* Mutant: the cap is compared with > instead of >=.
OneAttemptMore(u) == attempts[u] <= WeeklyCap

\* attempts_this_week is below the cap.  (It also counts the attempts of other
\* accounts from the same device, which can only refuse more cards.)
AttemptsLeft(u) == attempts[u] < WeeklyCap

\* The ids of a user's records; the largest is latest_record.
RecordsOf(u) == {i \in DOMAIN records : records[i].user = u}

IsLatest(i, u) == i \in RecordsOf(u) /\ \A j \in RecordsOf(u) : j <= i

Free(s) == request[s] = None

Running(s, op) == request[s] # None /\ request[s].op = op

\* A session that edits the user's row only, a record only, or both.
UserRequest(op, u) ==
    [op |-> op, user |-> u, loaded |-> account[u], rec |-> 0, row |-> None, roll |-> NoRoll]

RecordRequest(op, i) ==
    [op |-> op, user |-> records[i].user, loaded |-> None, rec |-> i, row |-> records[i],
     roll |-> NoRoll]

ReviewRequest(i) == [RecordRequest("review", i) EXCEPT !.loaded = account[records[i].user]]

Close(s) == request' = [request EXCEPT ![s] = None]

NewRecord(u, status, decision) ==
    [user |-> u, status |-> status, decision |-> decision, selfie |-> FALSE]

-----------------------------------------------------------------------------
(* The card request: routers/verify.py verify_card, api/routes/verify.py    *)
(* submit_card, services/verification.py submit_card.                      *)

\* The cap is read before the OCR; a verified account's card is taken.
OpenCard(s, u) ==
    /\ Free(s)
    /\ AttemptsLeft(u)
    /\ request' = [request EXCEPT ![s] = UserRequest("card", u)]
    /\ UNCHANGED <<account, records, attempts, expiring>>

\* The JSON route turns a verified account away.
OpenCardByApi(s, u) == account[u].tier < 2 /\ OpenCard(s, u)

\* run_ocr answers and evaluate judges: no text, no roll number, an expired
\* card, or a roll number another account holds.  The crops are then on disk.
RefuseCard(s) ==
    /\ Running(s, "card")
    /\ request' = [request EXCEPT ![s].op = "refused"]
    /\ UNCHANGED <<account, records, attempts, expiring>>

\* evaluate decides "pass" or "review" for a roll number it finds free.
AcceptCard(s) ==
    /\ Running(s, "card")
    /\ \E r \in Rolls :
        /\ ~Taken(r, request[s].user)
        /\ request' = [request EXCEPT ![s].op = "accepted", ![s].roll = r]
    /\ UNCHANGED <<account, records, attempts, expiring>>

CommitRefusedCard(s) ==
    /\ Running(s, "refused")
    /\ Len(records) < MaxRecords
    /\ LET u == request[s].user IN
        /\ records' = Append(records, NewRecord(u, "rejected", "auto_reject"))
        /\ attempts' = [attempts EXCEPT ![u] = @ + 1]
    /\ Close(s)
    /\ UNCHANGED <<account, expiring>>

\* Mutant: an accepted card always sets the provisional tier.
CardSetsProvisional(req) ==
    [req.loaded EXCEPT !.roll_number = req.roll, !.tier = 1]

\* Mutant: a card the OCR passes verifies the account.
CardVerifies(req) ==
    [req.loaded EXCEPT !.roll_number = req.roll,
                       !.tier = IF @ < 2 THEN 2 ELSE @]

\* Mutant: the tier is raised by one.
CardRaisesTier(req) == [req.loaded EXCEPT !.roll_number = req.roll, !.tier = @ + 1]

\* What submit_card leaves in the session's user object.
CardAccount(req) ==
    [tier             |-> IF req.loaded.tier < 1 THEN 1 ELSE req.loaded.tier,
     roll_number      |-> req.roll,
     tier1_expires_at |-> req.loaded.tier1_expires_at]

\* A new deadline is a new timestamp, hence always written.
CommitAcceptedCard(s) ==
    /\ Running(s, "accepted")
    /\ Len(records) < MaxRecords
    /\ LET req == request[s]
           u == req.user
           row == FlushAccount(req.loaded, CardAccount(req), account[u])
       IN
        /\ Assignable(req, req.roll)
        /\ account' = [account EXCEPT ![u] =
               IF req.loaded.tier < 1 THEN [row EXCEPT !.tier1_expires_at = "ahead"] ELSE row]
        /\ records' = Append(records, NewRecord(u, "needs_selfie", "none"))
        /\ attempts' = [attempts EXCEPT ![u] = @ + 1]
    /\ Close(s)
    /\ UNCHANGED <<expiring>>

-----------------------------------------------------------------------------
(* The student's later requests, on latest_record.                         *)

OpenSelfie(s, u) ==
    /\ Free(s)
    /\ \E i \in DOMAIN records :
        /\ IsLatest(i, u)
        /\ records[i].status \in {"needs_selfie", "in_review"}
        /\ request' = [request EXCEPT ![s] = RecordRequest("selfie", i)]
    /\ UNCHANGED <<account, records, attempts, expiring>>

OpenSelfieByApi(s, u) == OpenSelfie(s, u)

\* The path is new and always written.
CommitSelfie(s) ==
    /\ Running(s, "selfie")
    /\ LET req == request[s] IN
        /\ records' = [records EXCEPT
               ![req.rec].status = Flushed(req.row.status, "in_review", @),
               ![req.rec].selfie = TRUE]
    /\ Close(s)
    /\ UNCHANGED <<account, attempts, expiring>>

\* A dispute without a selfie only adds a note and is left out.
OpenDispute(s, u) ==
    /\ Free(s)
    /\ \E i \in DOMAIN records :
        /\ IsLatest(i, u)
        /\ records[i].selfie
        /\ request' = [request EXCEPT ![s] = RecordRequest("dispute", i)]
    /\ UNCHANGED <<account, records, attempts, expiring>>

CommitDispute(s) ==
    /\ Running(s, "dispute")
    /\ LET req == request[s] IN
        records' = [records EXCEPT
            ![req.rec].status = Flushed(req.row.status, "in_review", @)]
    /\ Close(s)
    /\ UNCHANGED <<account, attempts, expiring>>

-----------------------------------------------------------------------------
(* The reviewer (routers/admin.py decide_verification) and the admin.       *)

\* Any record can be decided, whatever its status.
OpenReview(s, i) ==
    /\ Free(s)
    /\ i \in DOMAIN records
    /\ request' = [request EXCEPT ![s] = ReviewRequest(i)]
    /\ UNCHANGED <<account, records, attempts, expiring>>

\* What approve leaves in the session's user object, given the roll number that
\* its caller corrected or attached.
ApprovedAccount(loaded, roll) ==
    [tier             |-> IF loaded.tier < 2 THEN 2 ELSE loaded.tier,
     roll_number      |-> roll,
     tier1_expires_at |-> "none"]

\* The record as decided; a decided status is written over the loaded one.
DecidedRecord(req, verdict) ==
    [records[req.rec] EXCEPT
        !.status = Flushed(req.row.status, verdict, @),
        !.decision = Flushed(req.row.decision, verdict, @)]

\* The reviewer may correct the roll number (NoRoll: the field is left blank).
CommitApprove(s) ==
    /\ Running(s, "review")
    /\ LET req == request[s]
           u == req.user
       IN \E correction \in Rolls \cup {NoRoll} :
            LET roll == IF correction = NoRoll THEN req.loaded.roll_number ELSE correction
            IN
            /\ Assignable(req, roll)
            /\ account' = [account EXCEPT ![u] =
                   FlushAccount(req.loaded, ApprovedAccount(req.loaded, roll), @)]
            /\ records' = [records EXCEPT ![req.rec] = DecidedRecord(req, "approved")]
    /\ Close(s)
    /\ UNCHANGED <<attempts, expiring>>

\* Mutant: a rejected account keeps the roll number it claimed.
RejectedKeepsRoll(loaded) == [loaded EXCEPT !.tier = 0]

\* What reject leaves in the session's user object.
RejectedAccount(loaded) ==
    [tier |-> 0, roll_number |-> NoRoll, tier1_expires_at |-> loaded.tier1_expires_at]

CommitReject(s) ==
    /\ Running(s, "review")
    /\ LET req == request[s] IN
        /\ account' = [account EXCEPT ![req.user] =
               FlushAccount(req.loaded, RejectedAccount(req.loaded), @)]
        /\ records' = [records EXCEPT ![req.rec] = DecidedRecord(req, "rejected")]
    /\ Close(s)
    /\ UNCHANGED <<attempts, expiring>>

\* api/routes/verify.py manual turns a verified account away; the command
\* line's verify --force (allow_reverify) does not.
OpenManual(s, u) ==
    /\ Free(s)
    /\ \E force \in BOOLEAN : force \/ account[u].tier < 2
    /\ request' = [request EXCEPT ![s] = UserRequest("manual", u)]
    /\ UNCHANGED <<account, records, attempts, expiring>>

\* verify_manually creates the record and calls approve on it at once.
CommitManual(s) ==
    /\ Running(s, "manual")
    /\ Len(records) < MaxRecords
    /\ LET req == request[s]
           u == req.user
       IN \E r \in Rolls :
            /\ Assignable(req, r)
            /\ account' = [account EXCEPT ![u] =
                   FlushAccount(req.loaded, ApprovedAccount(req.loaded, r), @)]
            /\ records' = Append(records, NewRecord(u, "approved", "approved"))
    /\ Close(s)
    /\ UNCHANGED <<attempts, expiring>>

OpenRoles(s, u) ==
    /\ Free(s)
    /\ request' = [request EXCEPT ![s] = UserRequest("roles", u)]
    /\ UNCHANGED <<account, records, attempts, expiring>>

\* set_roles: a verified account with a role is tier 3, without one tier 2.
CommitRoles(s) ==
    /\ Running(s, "roles")
    /\ LET req == request[s]
           tier == req.loaded.tier
       IN \E granted \in BOOLEAN :
            account' = [account EXCEPT ![req.user].tier = Flushed(tier,
                IF tier < 2 THEN tier ELSE IF granted THEN 3 ELSE 2, @)]
    /\ Close(s)
    /\ UNCHANGED <<records, attempts, expiring>>

\* get_db rolls back on any exception (a refused roll number, a lost client,
\* a database error): no row changes, a file already saved stays.
Rollback(s) ==
    /\ ~Free(s)
    /\ Close(s)
    /\ UNCHANGED <<account, records, attempts, expiring>>

-----------------------------------------------------------------------------
(* The expire_provisional job, a restart, and the clock.                   *)

\* expire_provisional loads every account past its 72 hours ...
StartExpiry ==
    /\ expiring = {}
    /\ expiring' = {u \in Users : account[u].tier = 1 /\ account[u].tier1_expires_at = "reached"}
    /\ expiring' # {}
    /\ UNCHANGED <<account, records, attempts, request>>

\* ... and writes tier 0 to each, which is dirty since it loaded tier 1.
CommitExpiry ==
    /\ expiring # {}
    /\ account' = [u \in Users |->
           IF u \in expiring THEN [account[u] EXCEPT !.tier = 0] ELSE account[u]]
    /\ expiring' = {}
    /\ UNCHANGED <<records, attempts, request>>

\* The server stops: every session is rolled back and the job forgotten.
Crash ==
    /\ request' = [s \in Requests |-> None]
    /\ expiring' = {}
    /\ expiring # {} \/ \E s \in Requests : ~Free(s)
    /\ UNCHANGED <<account, records, attempts>>

WindowPasses(u) ==
    /\ account[u].tier1_expires_at = "ahead"
    /\ account' = [account EXCEPT ![u].tier1_expires_at = "reached"]
    /\ UNCHANGED <<records, attempts, request, expiring>>

\* An attempt leaves the seven-day window, or manage.py reset-attempts runs.
AttemptsAge(u) ==
    /\ attempts[u] > 0
    /\ \E n \in {0, attempts[u] - 1} : attempts' = [attempts EXCEPT ![u] = n]
    /\ UNCHANGED <<account, records, request, expiring>>

Student ==
    \E s \in Requests, u \in Users :
        \/ OpenCard(s, u) \/ OpenCardByApi(s, u)
        \/ OpenSelfie(s, u) \/ OpenSelfieByApi(s, u)
        \/ OpenDispute(s, u)

Staff ==
    \E s \in Requests :
        \/ \E i \in 1..MaxRecords : OpenReview(s, i)
        \/ \E u \in Users : OpenManual(s, u) \/ OpenRoles(s, u)

Session ==
    \E s \in Requests :
        \/ RefuseCard(s) \/ AcceptCard(s)
        \/ CommitRefusedCard(s) \/ CommitAcceptedCard(s)
        \/ CommitSelfie(s) \/ CommitDispute(s)
        \/ CommitApprove(s) \/ CommitReject(s) \/ CommitManual(s) \/ CommitRoles(s)
        \/ Rollback(s)

Jobs == StartExpiry \/ CommitExpiry

Clock == \E u \in Users : WindowPasses(u) \/ AttemptsAge(u)

Next == Student \/ Staff \/ Session \/ Jobs \/ Crash \/ Clock

Spec == Init /\ [][Next]_vars

\* Two sessions, of a request or a job, are never open at once.
OneSession ==
    /\ \A s, t \in Requests : ~Free(s) /\ ~Free(t) => s = t
    /\ \A s \in Requests : ~Free(s) => expiring = {}

\* What the handlers do when no two sessions overlap, as a serializable
\* database would make it appear.  The deployed one is READ COMMITTED: Spec.
SerialSpec == Init /\ [][Next /\ OneSession']_vars

-----------------------------------------------------------------------------
(* Properties that hold however the sessions overlap.                      *)

\* One account per roll number (README: "a database-level unique constraint"):
\* no two accounts hold the same roll number, although the lookup after the
\* OCR and the commit are separate steps of racing requests.
OneAccountPerRoll ==
    \A u, v \in Users :
        u # v /\ account[u].roll_number # NoRoll => account[u].roll_number # account[v].roll_number

\* The card requests of u that have passed the cap and not committed.
CardsOf(u) ==
    {s \in Requests : ~Free(s) /\ request[s].user = u
                               /\ request[s].op \in {"card", "accepted", "refused"}}

\* The weekly cap is read before the OCR and the attempt written after it, so
\* the cap may be exceeded, but only by the cards that are in the OCR at once.
AttemptsOvershoot ==
    \A u \in Users :
        attempts[u] + Cardinality(CardsOf(u)) <= WeeklyCap - 1 + Cardinality(Requests)

-----------------------------------------------------------------------------
(* Properties of the handlers run one at a time.                           *)

\* Full access comes from a person: a verified account has a record whose last
\* decision was an approval, whatever cards, expiries and re-decisions follow.
VerifiedByReviewer ==
    \A u \in Users : account[u].tier >= 2 =>
        \E i \in RecordsOf(u) : records[i].decision = "approved"

\* "Release the roll number so a genuine owner is not locked out by a rejected
\* claim on it" (reject): with every record of it rejected an account holds none.
RejectedClaimReleasesRoll ==
    \A u \in Users : (\A i \in RecordsOf(u) : records[i].status = "rejected")
                        => account[u].roll_number = NoRoll

\* Verification is kept: a verified account drops below tier 2 only in the step
\* that commits a reviewer's rejection of one of its records.
VerifiedKeepsTier ==
    [][\A u \in Users : account[u].tier >= 2 /\ account'[u].tier < 2 =>
        \E s \in Requests : Running(s, "review") /\ request[s].user = u /\ CommitReject(s)]_vars
====
