------------------------- MODULE VerificationProofs -------------------------
(***************************************************************************)
(* What holds of Verification for any accounts, roll numbers, sessions,     *)
(* weekly cap and bound on the records: its types, one account per roll     *)
(* number, and how far the weekly cap can be overshot; and, of requests and  *)
(* jobs one at a time, that full access comes from a reviewer, that only a    *)
(* rejection takes it away, and that a rejected claim frees the roll number.  *)
(***************************************************************************)
EXTENDS Verification, FiniteSetTheorems, TLAPS

-----------------------------------------------------------------------------
(* The inductive invariant.                                                *)

UserOps == {"card", "accepted", "refused", "review", "manual", "roles"}

\* A session that writes to a users row has loaded that row.
UserLoaded == \A s \in Requests : ~Free(s) /\ request[s].op \in UserOps => request[s].loaded \in Account

Inv == TypeOK /\ UserLoaded

\* A flushed column holds the edited or the current value, so the row is one.
LEMMA FlushType ==
    ASSUME NEW loaded \in Account, NEW edited \in Account, NEW current \in Account
    PROVE  FlushAccount(loaded, edited, current) \in Account
BY DEF FlushAccount, Flushed, Account

\* A flush leaves the current roll number or writes the edited one.
LEMMA FlushRoll ==
    ASSUME NEW loaded, NEW edited, NEW current
    PROVE  FlushAccount(loaded, edited, current).roll_number =
               IF edited.roll_number = loaded.roll_number
               THEN current.roll_number ELSE edited.roll_number
BY DEF FlushAccount, Flushed

LEMMA InitInv == Init => Inv
<1> SUFFICES ASSUME Init PROVE Inv
    OBVIOUS
<1>1. account \in [Users -> Account]
    BY DEF Init, Account, Deadlines
<1>2. records \in Seq(Record) /\ Len(records) <= MaxRecords
    BY ConstantsAssumption DEF Init
<1>3. QED
    BY <1>1, <1>2 DEF Init, Inv, TypeOK, UserLoaded, Free

\* An open session edits what it loaded, which it did as a row.
LEMMA SessionType ==
    ASSUME Inv, NEW s \in Requests, ~Free(s)
    PROVE  /\ request[s] \in Request
           /\ request[s].user \in Users
           /\ account[request[s].user] \in Account
           /\ request[s].op \in UserOps => request[s].loaded \in Account
BY DEF Inv, TypeOK, UserLoaded, Free, Request

\* A session that opens with a typed request keeps the invariant.
LEMMA OpenInv ==
    ASSUME Inv, NEW s \in Requests, NEW r \in Request,
           r.op \in UserOps => r.loaded \in Account,
           request' = [request EXCEPT ![s] = r],
           UNCHANGED <<account, records, attempts, expiring>>
    PROVE  Inv'
BY DEF Inv, TypeOK, UserLoaded, Free

\* So does one that closes, or all of them at a crash, with typed rows.
LEMMA CloseInv ==
    ASSUME Inv,
           \A s \in Requests : request'[s] = request[s] \/ request'[s] = None,
           request' = [s \in Requests |-> request'[s]],
           account' \in [Users -> Account],
           records' \in Seq(Record), Len(records') <= MaxRecords,
           attempts' \in [Users -> Nat],
           expiring' \subseteq Users
    PROVE  Inv'
BY DEF Inv, TypeOK, UserLoaded, Free

LEMMA RecordSeq ==
    ASSUME Inv, NEW i \in DOMAIN records
    PROVE  records[i] \in Record /\ i \in 1..Len(records)
BY DEF Inv, TypeOK

\* Requests opened on a record or on an account are typed.
LEMMA UserRequestType ==
    ASSUME Inv, NEW op \in Operations, NEW u \in Users
    PROVE  UserRequest(op, u) \in Request /\ UserRequest(op, u).loaded \in Account
<1>1. account[u] \in Account
    BY DEF Inv, TypeOK
<1>2. QED
    BY <1>1, ConstantsAssumption DEF UserRequest, Request

LEMMA RecordRequestType ==
    ASSUME Inv, NEW op \in Operations, NEW i \in DOMAIN records
    PROVE  /\ RecordRequest(op, i) \in Request
           /\ RecordRequest(op, i).op = op
           /\ ReviewRequest(i) \in Request
           /\ ReviewRequest(i).loaded \in Account
<1>1. records[i] \in Record /\ i \in 0..MaxRecords
    BY RecordSeq, ConstantsAssumption DEF Inv, TypeOK
<1>2. records[i].user \in Users
    BY <1>1 DEF Record
<1>3. account[records[i].user] \in Account
    BY <1>2 DEF Inv, TypeOK
<1>4. RecordRequest(op, i) \in Request /\ RecordRequest(op, i).op = op
    BY <1>1, <1>2 DEF RecordRequest, Request
<1>5. RecordRequest("review", i) \in Request
    BY <1>1, <1>2 DEF RecordRequest, Request, Operations
<1>6. QED
    BY <1>3, <1>4, <1>5 DEF ReviewRequest, Request

-----------------------------------------------------------------------------
(* What the commits write.                                                 *)

LEMMA EditRecord ==
    ASSUME Inv, NEW k, NEW r, k \in DOMAIN records => r \in Record
    PROVE  /\ [records EXCEPT ![k] = r] \in Seq(Record)
           /\ Len([records EXCEPT ![k] = r]) = Len(records)
<1>1. records \in Seq(Record)
    BY DEF Inv, TypeOK
<1>2. CASE k \in DOMAIN records
    BY <1>1, <1>2
<1>3. CASE k \notin DOMAIN records
    <2>1. [records EXCEPT ![k] = r] = records
        BY <1>1, <1>3
    <2>2. QED
        BY <1>1, <2>1
<1>4. QED
    BY <1>2, <1>3

LEMMA AddRecord ==
    ASSUME Inv, NEW u \in Users, NEW status \in Statuses, NEW decision \in Decisions,
           Len(records) < MaxRecords
    PROVE  /\ Append(records, NewRecord(u, status, decision)) \in Seq(Record)
           /\ Len(Append(records, NewRecord(u, status, decision))) <= MaxRecords
<1>1. NewRecord(u, status, decision) \in Record
    BY DEF NewRecord, Record
<1>2. records \in Seq(Record) /\ MaxRecords \in Nat
    BY ConstantsAssumption DEF Inv, TypeOK
<1>3. Len(Append(records, NewRecord(u, status, decision))) = Len(records) + 1
    BY <1>1, <1>2
<1>4. QED
    BY <1>1, <1>2, <1>3

LEMMA DecidedType ==
    ASSUME Inv, NEW req, NEW verdict \in {"approved", "rejected"}, req.rec \in DOMAIN records
    PROVE  DecidedRecord(req, verdict) \in Record
<1>1. records[req.rec] \in Record
    BY DEF Inv, TypeOK
<1>2. QED
    BY <1>1 DEF DecidedRecord, Flushed, Record, Statuses, Decisions

LEMMA CardAccountType ==
    ASSUME NEW req \in Request, req.loaded \in Account
    PROVE  /\ CardAccount(req) \in Account
           /\ CardAccount(req).roll_number = req.roll
<1>1. req.roll \in Rolls \cup {NoRoll}
    BY DEF Request
<1>2. QED
    BY <1>1 DEF CardAccount, Account

LEMMA ApprovedType ==
    ASSUME NEW loaded \in Account, NEW roll \in Rolls \cup {NoRoll}
    PROVE  /\ ApprovedAccount(loaded, roll) \in Account
           /\ ApprovedAccount(loaded, roll).roll_number = roll
BY DEF ApprovedAccount, Account, Deadlines

LEMMA RejectedType ==
    ASSUME NEW loaded \in Account
    PROVE  /\ RejectedAccount(loaded) \in Account
           /\ RejectedAccount(loaded).roll_number = NoRoll
BY DEF RejectedAccount, Account

-----------------------------------------------------------------------------
(* Every step keeps the invariant.                                         *)

LEMMA Closes ==
    ASSUME Inv, NEW s \in Requests, Close(s)
    PROVE  /\ \A t \in Requests : request'[t] = request[t] \/ request'[t] = None
           /\ request' = [t \in Requests |-> request'[t]]
BY DEF Inv, TypeOK, Close

\* A commit that leaves one account and the records typed.
LEMMA CommitInv ==
    ASSUME Inv, NEW s \in Requests, Close(s),
           account' \in [Users -> Account],
           records' \in Seq(Record), Len(records') <= MaxRecords,
           attempts' \in [Users -> Nat],
           expiring' = expiring
    PROVE  Inv'
<1>1. expiring' \subseteq Users
    BY DEF Inv, TypeOK
<1>2. QED
    BY <1>1, Closes, CloseInv

LEMMA OpensInv ==
    ASSUME Inv, NEW s \in Requests, NEW u \in Users
    PROVE  /\ OpenCard(s, u) => Inv'
           /\ OpenSelfie(s, u) => Inv'
           /\ OpenDispute(s, u) => Inv'
           /\ \A i \in 1..MaxRecords : OpenReview(s, i) => Inv'
           /\ OpenManual(s, u) => Inv'
           /\ OpenRoles(s, u) => Inv'
           /\ RefuseCard(s) => Inv'
           /\ AcceptCard(s) => Inv'
<1>1. ASSUME OpenCard(s, u) PROVE Inv'
    BY <1>1, UserRequestType, OpenInv DEF OpenCard, Operations
<1>2. ASSUME OpenSelfie(s, u) PROVE Inv'
    <2>1. PICK i \in DOMAIN records : request' = [request EXCEPT ![s] = RecordRequest("selfie", i)]
        BY <1>2 DEF OpenSelfie
    <2>2. QED
        BY <1>2, <2>1, RecordRequestType, OpenInv DEF OpenSelfie, Operations, UserOps
<1>3. ASSUME OpenDispute(s, u) PROVE Inv'
    <2>1. PICK i \in DOMAIN records : request' = [request EXCEPT ![s] = RecordRequest("dispute", i)]
        BY <1>3 DEF OpenDispute
    <2>2. QED
        BY <1>3, <2>1, RecordRequestType, OpenInv DEF OpenDispute, Operations, UserOps
<1>4. ASSUME NEW i \in 1..MaxRecords, OpenReview(s, i) PROVE Inv'
    BY <1>4, RecordRequestType, OpenInv DEF OpenReview, Operations
<1>5. ASSUME OpenManual(s, u) PROVE Inv'
    BY <1>5, UserRequestType, OpenInv DEF OpenManual, Operations
<1>6. ASSUME OpenRoles(s, u) PROVE Inv'
    BY <1>6, UserRequestType, OpenInv DEF OpenRoles, Operations
<1>7. ASSUME RefuseCard(s) PROVE Inv'
    <2>1. request[s] \in Request /\ request[s].loaded \in Account
        BY <1>7, SessionType DEF RefuseCard, Running, Free, UserOps
    <2>2. [request[s] EXCEPT !.op = "refused"] \in Request
        BY <2>1 DEF Request, Operations
    <2>3. [request[s] EXCEPT !.op = "refused"].loaded \in Account
        BY <2>1 DEF Request
    <2>4. request' = [request EXCEPT ![s] = [request[s] EXCEPT !.op = "refused"]]
        BY <1>7 DEF RefuseCard
    <2>5. QED
        BY <1>7, <2>2, <2>3, <2>4, OpenInv DEF RefuseCard
<1>8. ASSUME AcceptCard(s) PROVE Inv'
    <2>1. request[s] \in Request /\ request[s].loaded \in Account
        BY <1>8, SessionType DEF AcceptCard, Running, Free, UserOps
    <2>2. PICK r \in Rolls :
            request' = [request EXCEPT ![s].op = "accepted", ![s].roll = r]
        BY <1>8 DEF AcceptCard
    <2> DEFINE req == [[request[s] EXCEPT !.op = "accepted"] EXCEPT !.roll = r]
    <2>3. req \in Request /\ req.loaded \in Account
        BY <2>1 DEF Request, Operations
    <2>4. request' = [request EXCEPT ![s] = req]
        BY <2>2 DEF Inv, TypeOK
    <2>5. QED
        BY <1>8, <2>3, <2>4, OpenInv DEF AcceptCard
<1>9. QED
    BY <1>1, <1>2, <1>3, <1>4, <1>5, <1>6, <1>7, <1>8

\* The typed rows of one flush of an account.
LEMMA FlushedAccounts ==
    ASSUME Inv, NEW u \in Users, NEW loaded \in Account, NEW edited \in Account,
           account' = [account EXCEPT ![u] = FlushAccount(loaded, edited, account[u])]
    PROVE  account' \in [Users -> Account]
<1>1. account[u] \in Account /\ account \in [Users -> Account]
    BY DEF Inv, TypeOK
<1>2. FlushAccount(loaded, edited, account[u]) \in Account
    BY <1>1, FlushType
<1>3. QED
    BY <1>1, <1>2

LEMMA CardCommitsInv ==
    ASSUME Inv, NEW s \in Requests
    PROVE  /\ CommitRefusedCard(s) => Inv'
           /\ CommitAcceptedCard(s) => Inv'
<1>1. attempts \in [Users -> Nat] /\ records \in Seq(Record) /\ account \in [Users -> Account]
    BY DEF Inv, TypeOK
<1>2. ASSUME CommitRefusedCard(s) PROVE Inv'
    <2>1. request[s].user \in Users
        BY <1>2, SessionType DEF CommitRefusedCard, Running, Free
    <2>2. records' \in Seq(Record) /\ Len(records') <= MaxRecords
        BY <1>2, <2>1, AddRecord DEF CommitRefusedCard, Statuses, Decisions
    <2>3. attempts' \in [Users -> Nat]
        BY <1>1, <1>2, <2>1 DEF CommitRefusedCard
    <2>4. QED
        BY <1>1, <1>2, <2>2, <2>3, CommitInv DEF CommitRefusedCard
<1>3. ASSUME CommitAcceptedCard(s) PROVE Inv'
    <2> DEFINE req == request[s]
               u == req.user
               row == FlushAccount(req.loaded, CardAccount(req), account[u])
    <2>1. req \in Request /\ u \in Users /\ account[u] \in Account /\ req.loaded \in Account
        BY <1>3, SessionType DEF CommitAcceptedCard, Running, Free, UserOps
    <2>2. records' \in Seq(Record) /\ Len(records') <= MaxRecords
        BY <1>3, <2>1, AddRecord DEF CommitAcceptedCard, Statuses, Decisions
    <2>3. attempts' \in [Users -> Nat]
        BY <1>1, <1>3, <2>1 DEF CommitAcceptedCard
    <2>4. row \in Account
        BY <2>1, CardAccountType, FlushType
    <2>5. [row EXCEPT !.tier1_expires_at = "ahead"] \in Account
        BY <2>4 DEF Account, Deadlines
    <2>6. account' \in [Users -> Account]
        BY <1>1, <1>3, <2>1, <2>4, <2>5 DEF CommitAcceptedCard
    <2>7. QED
        BY <1>3, <2>2, <2>3, <2>6, CommitInv DEF CommitAcceptedCard
<1>4. QED
    BY <1>2, <1>3

LEMMA RecordCommitsInv ==
    ASSUME Inv, NEW s \in Requests
    PROVE  /\ CommitSelfie(s) => Inv'
           /\ CommitDispute(s) => Inv'
<1>1. account \in [Users -> Account] /\ attempts \in [Users -> Nat] /\ MaxRecords \in Nat
      /\ Len(records) <= MaxRecords
    BY ConstantsAssumption DEF Inv, TypeOK
<1> DEFINE k == request[s].rec
           flushed == Flushed(request[s].row.status, "in_review", records[k].status)
           disputed == [records[k] EXCEPT !.status = flushed]
           imaged == [disputed EXCEPT !.selfie = TRUE]
<1>2. k \in DOMAIN records => disputed \in Record /\ imaged \in Record
    <2>1. SUFFICES ASSUME k \in DOMAIN records PROVE disputed \in Record /\ imaged \in Record
        OBVIOUS
    <2>2. records[k] \in Record
        BY <2>1, RecordSeq
    <2>3. flushed \in Statuses
        BY <2>2 DEF Flushed, Record, Statuses
    <2>4. QED
        BY <2>2, <2>3 DEF Record
<1>3. ASSUME CommitSelfie(s) PROVE Inv'
    <2>1. records' = [records EXCEPT ![k] = imaged]
        BY <1>3 DEF CommitSelfie
    <2>2. records' \in Seq(Record) /\ Len(records') <= MaxRecords
        BY <1>1, <1>2, <2>1, EditRecord
    <2>3. QED
        BY <1>1, <1>3, <2>2, CommitInv DEF CommitSelfie
<1>4. ASSUME CommitDispute(s) PROVE Inv'
    <2>1. records' = [records EXCEPT ![k] = disputed]
        BY <1>4 DEF CommitDispute
    <2>2. records' \in Seq(Record) /\ Len(records') <= MaxRecords
        BY <1>1, <1>2, <2>1, EditRecord
    <2>3. QED
        BY <1>1, <1>4, <2>2, CommitInv DEF CommitDispute
<1>5. QED
    BY <1>3, <1>4

LEMMA StaffCommitsInv ==
    ASSUME Inv, NEW s \in Requests
    PROVE  /\ CommitApprove(s) => Inv'
           /\ CommitReject(s) => Inv'
           /\ CommitManual(s) => Inv'
           /\ CommitRoles(s) => Inv'
<1>1. /\ account \in [Users -> Account] /\ attempts \in [Users -> Nat]
      /\ records \in Seq(Record) /\ Len(records) <= MaxRecords /\ MaxRecords \in Nat
    BY ConstantsAssumption DEF Inv, TypeOK
<1> DEFINE req == request[s]
           u == req.user
<1>2. ASSUME ~Free(s), req.op \in {"review", "manual", "roles"}
      PROVE  req \in Request /\ u \in Users /\ account[u] \in Account /\ req.loaded \in Account
    BY <1>2, SessionType DEF UserOps
<1>3. ASSUME NEW verdict \in {"approved", "rejected"}
      PROVE  /\ [records EXCEPT ![req.rec] = DecidedRecord(req, verdict)] \in Seq(Record)
             /\ Len([records EXCEPT ![req.rec] = DecidedRecord(req, verdict)]) <= MaxRecords
    BY <1>1, DecidedType, EditRecord
<1>4. ASSUME CommitApprove(s) PROVE Inv'
    <2>1. req \in Request /\ u \in Users /\ account[u] \in Account /\ req.loaded \in Account
        BY <1>2, <1>4 DEF CommitApprove, Running, Free
    <2>2. PICK correction \in Rolls \cup {NoRoll} :
            account' = [account EXCEPT ![u] = FlushAccount(req.loaded,
                ApprovedAccount(req.loaded,
                    IF correction = NoRoll THEN req.loaded.roll_number ELSE correction), @)]
        BY <1>4 DEF CommitApprove
    <2> DEFINE roll == IF correction = NoRoll THEN req.loaded.roll_number ELSE correction
    <2>3. roll \in Rolls \cup {NoRoll}
        BY <2>1 DEF Account
    <2>4. ApprovedAccount(req.loaded, roll) \in Account
        BY <2>1, <2>3, ApprovedType
    <2>5. account' = [account EXCEPT ![u] =
              FlushAccount(req.loaded, ApprovedAccount(req.loaded, roll), account[u])]
        BY <2>2
    <2>6. account' \in [Users -> Account]
        BY <2>1, <2>4, <2>5, FlushedAccounts
    <2>7. QED
        BY <1>1, <1>3, <1>4, <2>6, CommitInv DEF CommitApprove
<1>5. ASSUME CommitReject(s) PROVE Inv'
    <2>1. req \in Request /\ u \in Users /\ account[u] \in Account /\ req.loaded \in Account
        BY <1>2, <1>5 DEF CommitReject, Running, Free
    <2>2. account' = [account EXCEPT ![u] =
              FlushAccount(req.loaded, RejectedAccount(req.loaded), account[u])]
        BY <1>5 DEF CommitReject
    <2>3. account' \in [Users -> Account]
        BY <2>1, <2>2, RejectedType, FlushedAccounts
    <2>4. QED
        BY <1>1, <1>3, <1>5, <2>3, CommitInv DEF CommitReject
<1>6. ASSUME CommitManual(s) PROVE Inv'
    <2>1. req \in Request /\ u \in Users /\ account[u] \in Account /\ req.loaded \in Account
        BY <1>2, <1>6 DEF CommitManual, Running, Free
    <2>2. PICK r \in Rolls :
            account' = [account EXCEPT ![u] =
                FlushAccount(req.loaded, ApprovedAccount(req.loaded, r), account[u])]
        BY <1>6 DEF CommitManual
    <2>3. account' \in [Users -> Account]
        BY <2>1, <2>2, ApprovedType, FlushedAccounts
    <2>4. records' \in Seq(Record) /\ Len(records') <= MaxRecords
        BY <1>6, <2>1, AddRecord DEF CommitManual, Statuses, Decisions
    <2>5. QED
        BY <1>1, <1>6, <2>3, <2>4, CommitInv DEF CommitManual
<1>7. ASSUME CommitRoles(s) PROVE Inv'
    <2>1. req \in Request /\ u \in Users /\ account[u] \in Account /\ req.loaded \in Account
        BY <1>2, <1>7 DEF CommitRoles, Running, Free
    <2>2. PICK granted \in BOOLEAN : account' = [account EXCEPT ![u].tier = Flushed(req.loaded.tier,
              IF req.loaded.tier < 2 THEN req.loaded.tier ELSE IF granted THEN 3 ELSE 2, @)]
        BY <1>7 DEF CommitRoles
    <2> DEFINE tier == Flushed(req.loaded.tier,
              IF req.loaded.tier < 2 THEN req.loaded.tier ELSE IF granted THEN 3 ELSE 2,
              account[u].tier)
    <2>3. tier \in 0..3
        BY <2>1 DEF Flushed, Account
    <2>4. [account[u] EXCEPT !.tier = tier] \in Account
        BY <2>1, <2>3 DEF Account
    <2>5. account' = [account EXCEPT ![u] = [account[u] EXCEPT !.tier = tier]]
        BY <2>2
    <2>6. account' \in [Users -> Account]
        BY <1>1, <2>1, <2>4, <2>5
    <2>7. QED
        BY <1>1, <1>7, <2>6, CommitInv DEF CommitRoles
<1>8. QED
    BY <1>4, <1>5, <1>6, <1>7

LEMMA OthersInv ==
    ASSUME Inv
    PROVE  /\ \A s \in Requests : Rollback(s) => Inv'
           /\ Jobs => Inv'
           /\ Crash => Inv'
           /\ Clock => Inv'
<1>1. /\ account \in [Users -> Account] /\ attempts \in [Users -> Nat]
      /\ records \in Seq(Record) /\ Len(records) <= MaxRecords
      /\ expiring \subseteq Users
      /\ request = [s \in Requests |-> request[s]]
    BY DEF Inv, TypeOK
<1>2. ASSUME NEW s \in Requests, Rollback(s) PROVE Inv'
    BY <1>1, <1>2, CommitInv DEF Rollback
<1>3. ASSUME Jobs PROVE Inv'
    <2>1. CASE StartExpiry
        BY <1>1, <2>1, CloseInv DEF StartExpiry
    <2>2. CASE CommitExpiry
        <3>1. ASSUME NEW u \in Users PROVE [account[u] EXCEPT !.tier = 0] \in Account
            <4>1. account[u] \in Account
                BY <1>1
            <4>2. QED
                BY <4>1 DEF Account
        <3>2. account' \in [Users -> Account]
            BY <1>1, <2>2, <3>1 DEF CommitExpiry
        <3>3. QED
            BY <1>1, <2>2, <3>2, CloseInv DEF CommitExpiry
    <2>3. QED
        BY <1>3, <2>1, <2>2 DEF Jobs
<1>4. ASSUME Crash PROVE Inv'
    BY <1>1, <1>4, CloseInv DEF Crash
<1>5. ASSUME Clock PROVE Inv'
    <2>1. CASE \E u \in Users : WindowPasses(u)
        <3>1. PICK u \in Users : WindowPasses(u)
            BY <2>1
        <3>2. account[u] \in Account
            BY <1>1
        <3>3. [account[u] EXCEPT !.tier1_expires_at = "reached"] \in Account
            BY <3>2 DEF Account, Deadlines
        <3>4. account' \in [Users -> Account]
            BY <1>1, <3>1, <3>3 DEF WindowPasses
        <3>5. QED
            BY <1>1, <3>1, <3>4, CloseInv DEF WindowPasses
    <2>2. CASE \E u \in Users : AttemptsAge(u)
        <3>1. PICK u \in Users : AttemptsAge(u)
            BY <2>2
        <3>2. attempts' \in [Users -> Nat]
            BY <1>1, <3>1 DEF AttemptsAge
        <3>3. QED
            BY <1>1, <3>1, <3>2, CloseInv DEF AttemptsAge
    <2>3. QED
        BY <1>5, <2>1, <2>2 DEF Clock
<1>6. QED
    BY <1>2, <1>3, <1>4, <1>5

LEMMA NextInv == Inv /\ [Next]_vars => Inv'
<1> SUFFICES ASSUME Inv, [Next]_vars PROVE Inv'
    OBVIOUS
<1>1. CASE Student
    BY <1>1, OpensInv DEF Student, OpenCardByApi, OpenSelfieByApi
<1>2. CASE Staff
    <2>1. CASE \E s \in Requests, i \in 1..MaxRecords : OpenReview(s, i)
        <3>1. PICK s \in Requests, i \in 1..MaxRecords : OpenReview(s, i)
            BY <2>1
        <3>2. records[i].user \in Users
            BY <3>1, RecordSeq DEF OpenReview, Record
        <3>3. QED
            BY <3>1, <3>2, OpensInv
    <2>2. CASE \E s \in Requests, u \in Users : OpenManual(s, u) \/ OpenRoles(s, u)
        BY <2>2, OpensInv
    <2>3. QED
        BY <1>2, <2>1, <2>2 DEF Staff
<1>3. CASE Session
    <2>1. PICK s \in Requests :
            \/ RefuseCard(s) \/ AcceptCard(s)
            \/ CommitRefusedCard(s) \/ CommitAcceptedCard(s)
            \/ CommitSelfie(s) \/ CommitDispute(s)
            \/ CommitApprove(s) \/ CommitReject(s) \/ CommitManual(s) \/ CommitRoles(s)
            \/ Rollback(s)
        BY <1>3 DEF Session
    <2>2. CASE RefuseCard(s) \/ AcceptCard(s)
        <3>1. request[s].user \in Users
            BY <2>2, SessionType DEF RefuseCard, AcceptCard, Running, Free
        <3>2. QED
            BY <2>2, <3>1, OpensInv
    <2>3. QED
        BY <2>1, <2>2, CardCommitsInv, RecordCommitsInv, StaffCommitsInv, OthersInv
<1>4. CASE Jobs \/ Crash \/ Clock
    BY <1>4, OthersInv
<1>5. CASE UNCHANGED vars
    BY <1>5 DEF vars, Inv, TypeOK, UserLoaded, Free
<1>6. QED
    BY <1>1, <1>2, <1>3, <1>4, <1>5 DEF Next

\* The types of Verification hold for any values of its constants: tiers stay
\* within models.py's check constraint and every record's status and decision is
\* one the code knows, whatever sessions overlap.
THEOREM TypeCorrect == Spec => []TypeOK
<1>1. Spec => []Inv
    BY InitInv, NextInv, PTL DEF Spec
<1>2. QED
    BY <1>1, PTL DEF Inv

-----------------------------------------------------------------------------
(* One account per roll number.                                            *)

\* A step changes the roll number of u only, and not to one another holds.
RollChange(u) ==
    /\ \A v \in Users \ {u} : account'[v].roll_number = account[v].roll_number
    /\ \/ account'[u].roll_number \in {account[u].roll_number, NoRoll}
       \/ ~Taken(account'[u].roll_number, u)

LEMMA RollChangeKeeps ==
    ASSUME OneAccountPerRoll, NEW u \in Users, RollChange(u)
    PROVE  OneAccountPerRoll'
BY DEF OneAccountPerRoll, RollChange, Taken

\* The flush of an edited account, its roll number kept, cleared or assignable.
LEMMA FlushRollChange ==
    ASSUME Inv, NEW u \in Users, NEW loaded, NEW edited,
           account' = [account EXCEPT ![u] = FlushAccount(loaded, edited, account[u])],
           \/ edited.roll_number \in {loaded.roll_number, NoRoll}
           \/ ~Taken(edited.roll_number, u)
    PROVE  RollChange(u)
<1>1. account'[u] = FlushAccount(loaded, edited, account[u])
      /\ \A v \in Users \ {u} : account'[v] = account[v]
    BY DEF Inv, TypeOK
<1>2. account'[u].roll_number = IF edited.roll_number = loaded.roll_number
                                THEN account[u].roll_number ELSE edited.roll_number
    BY <1>1, FlushRoll
<1>3. QED
    BY <1>1, <1>2 DEF RollChange

\* The steps that write a roll number, and the steps that write none.
LEMMA CommitRollChange ==
    ASSUME Inv, NEW s \in Requests,
           CommitAcceptedCard(s) \/ CommitApprove(s) \/ CommitReject(s) \/ CommitManual(s)
    PROVE  \E u \in Users : RollChange(u)
<1> DEFINE req == request[s]
           u == req.user
<1>1. req \in Request /\ u \in Users /\ account[u] \in Account /\ req.loaded \in Account
    BY SessionType DEF CommitAcceptedCard, CommitApprove, CommitReject, CommitManual,
                       Running, Free, UserOps
<1>2. CASE CommitAcceptedCard(s)
    <2> DEFINE row == FlushAccount(req.loaded, CardAccount(req), account[u])
    <2>1. account'[u] \in {row, [row EXCEPT !.tier1_expires_at = "ahead"]}
          /\ \A v \in Users \ {u} : account'[v] = account[v]
        BY <1>1, <1>2 DEF CommitAcceptedCard, Inv, TypeOK
    <2>2. row \in Account
        BY <1>1, CardAccountType, FlushType
    <2>3. account'[u].roll_number = row.roll_number
        BY <2>1, <2>2 DEF Account
    <2>4. row.roll_number = IF req.roll = req.loaded.roll_number
                            THEN account[u].roll_number ELSE req.roll
        BY <1>1, FlushRoll, CardAccountType
    <2>5. req.roll = req.loaded.roll_number \/ ~Taken(req.roll, u)
        BY <1>2 DEF CommitAcceptedCard, Assignable
    <2>6. QED
        BY <1>1, <2>1, <2>3, <2>4, <2>5 DEF RollChange
<1>3. CASE CommitApprove(s)
    <2>1. PICK correction \in Rolls \cup {NoRoll} :
            LET roll == IF correction = NoRoll THEN req.loaded.roll_number ELSE correction IN
            /\ Assignable(req, roll)
            /\ account' = [account EXCEPT ![u] =
                   FlushAccount(req.loaded, ApprovedAccount(req.loaded, roll), @)]
        BY <1>3 DEF CommitApprove
    <2> DEFINE roll == IF correction = NoRoll THEN req.loaded.roll_number ELSE correction
    <2>2. roll = req.loaded.roll_number \/ ~Taken(roll, u)
        BY <2>1 DEF Assignable
    <2>3. account' = [account EXCEPT ![u] =
              FlushAccount(req.loaded, ApprovedAccount(req.loaded, roll), account[u])]
        BY <2>1
    <2>4. ApprovedAccount(req.loaded, roll).roll_number = roll
        BY DEF ApprovedAccount
    <2>5. QED
        BY <1>1, <2>2, <2>3, <2>4, FlushRollChange
<1>4. CASE CommitReject(s)
    <2>1. account' = [account EXCEPT ![u] =
              FlushAccount(req.loaded, RejectedAccount(req.loaded), account[u])]
        BY <1>4 DEF CommitReject
    <2>2. QED
        BY <1>1, <2>1, RejectedType, FlushRollChange
<1>5. CASE CommitManual(s)
    <2>1. PICK r \in Rolls :
            /\ Assignable(req, r)
            /\ account' = [account EXCEPT ![u] =
                   FlushAccount(req.loaded, ApprovedAccount(req.loaded, r), account[u])]
        BY <1>5 DEF CommitManual
    <2>2. r = req.loaded.roll_number \/ ~Taken(r, u)
        BY <2>1 DEF Assignable
    <2>3. ApprovedAccount(req.loaded, r).roll_number = r
        BY DEF ApprovedAccount
    <2>4. QED
        BY <1>1, <2>1, <2>2, <2>3, FlushRollChange
<1>6. QED
    BY <1>2, <1>3, <1>4, <1>5

LEMMA RollKept ==
    ASSUME Inv, account' = account
    PROVE  \A u \in Users : account'[u].roll_number = account[u].roll_number
OBVIOUS

\* No other step of the system writes a roll number.
LEMMA OtherSteps ==
    ASSUME Inv, [Next]_vars,
           ~ \E s \in Requests :
                CommitAcceptedCard(s) \/ CommitApprove(s) \/ CommitReject(s) \/ CommitManual(s)
    PROVE  \A u \in Users : account'[u].roll_number = account[u].roll_number
<1>1. account \in [Users -> Account]
    BY DEF Inv, TypeOK
<1>2. CASE \E s \in Requests : CommitRoles(s)
    <2>1. PICK s \in Requests : CommitRoles(s)
        BY <1>2
    <2>2. request[s].user \in Users
        BY <2>1, SessionType DEF CommitRoles, Running, Free
    <2>3. PICK t : account' = [account EXCEPT ![request[s].user] =
                      [account[request[s].user] EXCEPT !.tier = t]]
        BY <2>1 DEF CommitRoles
    <2>4. QED
        BY <1>1, <2>2, <2>3 DEF Account
<1>3. CASE CommitExpiry
    BY <1>1, <1>3 DEF CommitExpiry, Account
<1>4. CASE \E u \in Users : WindowPasses(u)
    <2>1. PICK u \in Users : account' = [account EXCEPT ![u] =
                      [account[u] EXCEPT !.tier1_expires_at = "reached"]]
        BY <1>4 DEF WindowPasses
    <2>2. QED
        BY <1>1, <2>1 DEF Account
<1>5. CASE account' = account
    BY <1>5, RollKept
<1>6. QED
    BY <1>2, <1>3, <1>4, <1>5
    DEF Next, Student, Staff, Session, Jobs, Clock, vars, OpenCard, OpenCardByApi, OpenSelfie,
        OpenSelfieByApi, OpenDispute,
        OpenReview, OpenManual, OpenRoles, RefuseCard, AcceptCard, CommitRefusedCard, CommitSelfie,
        CommitDispute, Rollback, StartExpiry, Crash, AttemptsAge

\* One account per roll number (README, models.py User.roll_number), for any
\* number of accounts and of overlapping sessions: the lookup before a commit
\* can be stale, the constraint met at its flush cannot.
THEOREM UniqueRollNumber == Spec => []OneAccountPerRoll
<1>1. Init => OneAccountPerRoll
    BY DEF Init, OneAccountPerRoll
<1>2. Inv /\ OneAccountPerRoll /\ [Next]_vars => OneAccountPerRoll'
    <2> SUFFICES ASSUME Inv, OneAccountPerRoll, [Next]_vars PROVE OneAccountPerRoll'
        OBVIOUS
    <2>1. CASE \E s \in Requests :
                CommitAcceptedCard(s) \/ CommitApprove(s) \/ CommitReject(s) \/ CommitManual(s)
        BY <2>1, CommitRollChange, RollChangeKeeps
    <2>2. CASE ~ \E s \in Requests :
                CommitAcceptedCard(s) \/ CommitApprove(s) \/ CommitReject(s) \/ CommitManual(s)
        <3>1. \A u \in Users : account'[u].roll_number = account[u].roll_number
            BY <2>2, OtherSteps
        <3>2. QED
            BY <3>1 DEF OneAccountPerRoll
    <2>3. QED
        BY <2>1, <2>2
<1>3. QED
    BY InitInv, NextInv, <1>1, <1>2, PTL DEF Spec

-----------------------------------------------------------------------------
(* How far the weekly cap is overshot.                                     *)

LEMMA CardsFinite ==
    \A u \in Users : /\ IsFiniteSet(CardsOf(u))
                     /\ Cardinality(CardsOf(u)) \in Nat
                     /\ Cardinality(CardsOf(u)) <= Cardinality(Requests)
                     /\ Cardinality(Requests) \in Nat
<1> TAKE u \in Users
<1>1. CardsOf(u) \subseteq Requests
    BY DEF CardsOf
<1>2. QED
    BY <1>1, ConstantsAssumption, FS_Subset, FS_CardinalityType

\* Neither the attempts nor the open cards of u grow.
NoMoreOf(u) == attempts'[u] <= attempts[u] /\ CardsOf(u)' \subseteq CardsOf(u)

LEMMA NoMoreKeeps ==
    ASSUME Inv, Inv', AttemptsOvershoot, NEW u \in Users, NoMoreOf(u)
    PROVE  attempts'[u] + Cardinality(CardsOf(u)') <= WeeklyCap - 1 + Cardinality(Requests)
<1>1. /\ attempts[u] + Cardinality(CardsOf(u)) <= WeeklyCap - 1 + Cardinality(Requests)
      /\ attempts[u] \in Nat /\ attempts'[u] \in Nat /\ attempts'[u] <= attempts[u]
    BY DEF Inv, TypeOK, AttemptsOvershoot, NoMoreOf
<1>2. IsFiniteSet(CardsOf(u)) /\ Cardinality(CardsOf(u)) \in Nat /\ Cardinality(Requests) \in Nat
    BY CardsFinite
<1>3. Cardinality(CardsOf(u)') <= Cardinality(CardsOf(u)) /\ Cardinality(CardsOf(u)') \in Nat
    BY <1>2, FS_Subset, FS_CardinalityType DEF NoMoreOf
<1>4. QED
    BY <1>1, <1>2, <1>3, ConstantsAssumption

\* A card request that opens was below the cap.
LEMMA OpenCardKeeps ==
    ASSUME Inv, AttemptsOvershoot, NEW s \in Requests, NEW u \in Users, OpenCard(s, u),
           NEW v \in Users, Inv'
    PROVE  attempts'[v] + Cardinality(CardsOf(v)') <= WeeklyCap - 1 + Cardinality(Requests)
<1>1. attempts' = attempts /\ request' = [request EXCEPT ![s] = UserRequest("card", u)]
    BY DEF OpenCard
<1>2. CASE v = u
    <2>1. attempts'[v] \in Nat /\ attempts'[v] < WeeklyCap
        BY <1>1, <1>2 DEF OpenCard, AttemptsLeft, Inv, TypeOK
    <2>2. CardsOf(v)' \subseteq Requests
        BY DEF CardsOf
    <2>3. /\ Cardinality(CardsOf(v)') <= Cardinality(Requests)
          /\ Cardinality(CardsOf(v)') \in Nat /\ Cardinality(Requests) \in Nat
        BY <2>2, ConstantsAssumption, FS_Subset, FS_CardinalityType
    <2>4. QED
        BY <2>1, <2>3, ConstantsAssumption
<1>3. CASE v # u
    <2>1. \A t \in Requests : t # s => request'[t] = request[t]
        BY <1>1 DEF Inv, TypeOK
    <2>2. request'[s].user = u
        BY <1>1 DEF Inv, TypeOK, UserRequest
    <2>3. CardsOf(v)' \subseteq CardsOf(v)
        BY <1>3, <2>1, <2>2 DEF CardsOf, Free
    <2>4. attempts'[v] <= attempts[v]
        BY <1>1 DEF Inv, TypeOK
    <2>5. QED
        BY <2>3, <2>4, NoMoreKeeps DEF NoMoreOf
<1>4. QED
    BY <1>2, <1>3

\* The commit of a card adds an attempt and closes a card.
LEMMA CommitCardKeeps ==
    ASSUME Inv, AttemptsOvershoot, NEW s \in Requests,
           CommitRefusedCard(s) \/ CommitAcceptedCard(s), NEW v \in Users, Inv'
    PROVE  attempts'[v] + Cardinality(CardsOf(v)') <= WeeklyCap - 1 + Cardinality(Requests)
<1> DEFINE u == request[s].user
<1>1. /\ ~Free(s) /\ request[s].op \in {"accepted", "refused"}
      /\ u \in Users
      /\ attempts' = [attempts EXCEPT ![u] = @ + 1]
      /\ request' = [request EXCEPT ![s] = None]
    BY SessionType DEF CommitRefusedCard, CommitAcceptedCard, Close, Running, Free
<1>2. \A w \in Users : CardsOf(w)' = CardsOf(w) \ {s}
    BY <1>1 DEF CardsOf, Free, Inv, TypeOK
<1>3. CASE v = u
    <2>1. s \in CardsOf(v)
        BY <1>1, <1>3 DEF CardsOf
    <2>2. IsFiniteSet(CardsOf(v)) /\ Cardinality(CardsOf(v)) \in Nat /\ Cardinality(Requests) \in Nat
        BY CardsFinite
    <2>3. Cardinality(CardsOf(v)') = Cardinality(CardsOf(v)) - 1
        BY <1>2, <2>1, <2>2, FS_RemoveElement
    <2>4. attempts[v] \in Nat /\ attempts'[v] = attempts[v] + 1
        BY <1>1, <1>3 DEF Inv, TypeOK
    <2>5. attempts[v] + Cardinality(CardsOf(v)) <= WeeklyCap - 1 + Cardinality(Requests)
        BY DEF AttemptsOvershoot
    <2>6. QED
        BY <2>2, <2>3, <2>4, <2>5, ConstantsAssumption
<1>4. CASE v # u
    <2>1. attempts'[v] <= attempts[v]
        BY <1>1, <1>4 DEF Inv, TypeOK
    <2>2. QED
        BY <1>2, <2>1, NoMoreKeeps DEF NoMoreOf
<1>5. QED
    BY <1>3, <1>4

CardOps == {"card", "accepted", "refused"}

\* A step that leaves every session as it was, closed, no card, or a card of
\* the account it was already a card of, adds no card to any account.
LEMMA CardsShrink ==
    ASSUME NEW v \in Users,
           \A s \in Requests :
               \/ request'[s] = request[s]
               \/ request'[s] = None
               \/ request'[s].op \notin CardOps
               \/ /\ ~Free(s) /\ request[s].op \in CardOps
                  /\ request'[s].user = request[s].user
    PROVE  CardsOf(v)' \subseteq CardsOf(v)
BY DEF CardsOf, Free, CardOps

\* The steps of the sessions that neither open nor commit a card.
LEMMA SessionsNoMore ==
    ASSUME Inv, [Next]_vars, NEW v \in Users,
           ~ \E s \in Requests, u \in Users : OpenCard(s, u),
           ~ \E s \in Requests : CommitRefusedCard(s) \/ CommitAcceptedCard(s)
    PROVE  NoMoreOf(v)
<1> USE DEF NoMoreOf
<1>1. attempts[v] \in Nat /\ attempts \in [Users -> Nat] /\ request = [s \in Requests |-> request[s]]
    BY DEF Inv, TypeOK
<1>2. CASE \E s \in Requests : Close(s) /\ UNCHANGED attempts
    BY <1>1, <1>2, CardsShrink DEF Close
<1>3. CASE UNCHANGED <<request, attempts>>
    BY <1>1, <1>3, CardsShrink
<1>4. CASE \E s \in Requests, u \in Users, i \in DOMAIN records :
            /\ request' \in {[request EXCEPT ![s] = RecordRequest("selfie", i)],
                             [request EXCEPT ![s] = RecordRequest("dispute", i)],
                             [request EXCEPT ![s] = ReviewRequest(i)],
                             [request EXCEPT ![s] = UserRequest("manual", u)],
                             [request EXCEPT ![s] = UserRequest("roles", u)]}
            /\ UNCHANGED attempts
    <2>1. PICK s \in Requests, u \in Users, i \in DOMAIN records :
            /\ request' \in {[request EXCEPT ![s] = RecordRequest("selfie", i)],
                             [request EXCEPT ![s] = RecordRequest("dispute", i)],
                             [request EXCEPT ![s] = ReviewRequest(i)],
                             [request EXCEPT ![s] = UserRequest("manual", u)],
                             [request EXCEPT ![s] = UserRequest("roles", u)]}
            /\ UNCHANGED attempts
        BY <1>4
    <2>2. request'[s].op \notin CardOps
        BY <1>1, <2>1 DEF RecordRequest, ReviewRequest, UserRequest, CardOps
    <2>3. \A t \in Requests : t # s => request'[t] = request[t]
        BY <1>1, <2>1
    <2>4. QED
        BY <1>1, <2>1, <2>2, <2>3, CardsShrink
<1>5. CASE \E s \in Requests, u \in Users : OpenManual(s, u) \/ OpenRoles(s, u)
    <2>1. PICK s \in Requests, u \in Users : OpenManual(s, u) \/ OpenRoles(s, u)
        BY <1>5
    <2>2. request'[s].op \notin CardOps /\ attempts' = attempts
        BY <1>1, <2>1 DEF OpenManual, OpenRoles, UserRequest, CardOps
    <2>3. \A t \in Requests : t # s => request'[t] = request[t]
        BY <1>1, <2>1 DEF OpenManual, OpenRoles
    <2>4. QED
        BY <1>1, <2>2, <2>3, CardsShrink
<1>6. CASE \E s \in Requests : RefuseCard(s) \/ AcceptCard(s)
    <2>1. PICK s \in Requests : RefuseCard(s) \/ AcceptCard(s)
        BY <1>6
    <2>2. ~Free(s) /\ request[s].op \in CardOps /\ request[s] \in Request
        BY <2>1, SessionType DEF RefuseCard, AcceptCard, Running, Free, CardOps
    <2>3. request'[s].user = request[s].user
          /\ \A t \in Requests : t # s => request'[t] = request[t]
        BY <1>1, <2>1, <2>2, ZenonT(30) DEF RefuseCard, AcceptCard, Request
    <2>4. attempts' = attempts
        BY <2>1 DEF RefuseCard, AcceptCard
    <2>5. QED
        BY <1>1, <2>2, <2>3, <2>4, CardsShrink
<1>7. CASE Crash
    BY <1>1, <1>7, CardsShrink DEF Crash
<1>8. CASE \E u \in Users : AttemptsAge(u)
    BY <1>1, <1>8, CardsShrink DEF AttemptsAge
<1>9. CASE Student
    <2>1. PICK s \in Requests, u \in Users : OpenSelfie(s, u) \/ OpenDispute(s, u)
        BY <1>9 DEF Student, OpenCardByApi, OpenSelfieByApi
    <2>2. QED
        BY <1>4, <2>1 DEF OpenSelfie, OpenDispute
<1>10. CASE Staff
    BY <1>4, <1>5, <1>10 DEF Staff, OpenReview
<1>11. CASE Session
    BY <1>2, <1>6, <1>11 DEF Session, CommitSelfie, CommitDispute, CommitApprove, CommitReject,
                             CommitManual, CommitRoles, Rollback
<1>12. CASE Jobs \/ (\E u \in Users : WindowPasses(u)) \/ UNCHANGED vars
    BY <1>3, <1>12 DEF Jobs, StartExpiry, CommitExpiry, WindowPasses, vars
<1>13. QED
    BY <1>7, <1>8, <1>9, <1>10, <1>11, <1>12 DEF Next, Clock

\* The weekly cap (README, models.py VerificationAttempt) is read before the
\* OCR and counted after it: whatever the number of accounts and sessions, the
\* attempts of a week exceed it by less than the sessions that can be open.
THEOREM OvershootBounded == Spec => []AttemptsOvershoot
<1>1. Init => AttemptsOvershoot
    <2> SUFFICES ASSUME Init, NEW u \in Users
                 PROVE  attempts[u] + Cardinality(CardsOf(u)) <= WeeklyCap - 1 + Cardinality(Requests)
        BY DEF AttemptsOvershoot
    <2>1. CardsOf(u) = {}
        BY DEF Init, CardsOf, Free
    <2>2. Cardinality(CardsOf(u)) = 0
        BY <2>1, FS_EmptySet
    <2>3. QED
        BY <2>2, CardsFinite, ConstantsAssumption DEF Init
<1>2. Inv /\ Inv' /\ AttemptsOvershoot /\ [Next]_vars => AttemptsOvershoot'
    <2> SUFFICES ASSUME Inv, Inv', AttemptsOvershoot, [Next]_vars, NEW v \in Users
                 PROVE  attempts'[v] + Cardinality(CardsOf(v)') <= WeeklyCap - 1 + Cardinality(Requests)
        BY DEF AttemptsOvershoot
    <2>1. CASE \E s \in Requests, u \in Users : OpenCard(s, u)
        BY <2>1, OpenCardKeeps
    <2>2. CASE \E s \in Requests : CommitRefusedCard(s) \/ CommitAcceptedCard(s)
        BY <2>2, CommitCardKeeps
    <2>3. CASE /\ ~ \E s \in Requests, u \in Users : OpenCard(s, u)
               /\ ~ \E s \in Requests : CommitRefusedCard(s) \/ CommitAcceptedCard(s)
        BY <2>3, SessionsNoMore, NoMoreKeeps
    <2>4. QED
        BY <2>1, <2>2, <2>3
<1>3. QED
    BY InitInv, NextInv, <1>1, <1>2, PTL DEF Spec

-----------------------------------------------------------------------------
(* The handlers one at a time.                                             *)

\* What a session loaded is what the database still holds, but for a deadline
\* that may have been reached.
Fresh(s) ==
    LET req == request[s]
    IN  /\ req.op \in UserOps =>
               /\ req.loaded.tier = account[req.user].tier
               /\ req.loaded.roll_number = account[req.user].roll_number
        /\ req.op = "accepted" => req.roll \in Rolls
        /\ req.op \in {"selfie", "dispute", "review"} =>
               /\ req.rec \in DOMAIN records
               /\ req.row = records[req.rec]
               /\ req.user = records[req.rec].user

SerialInv ==
    /\ Inv
    /\ OneSession
    /\ \A s \in Requests : ~Free(s) => Fresh(s)
    /\ \A u \in expiring : account[u].tier = 1

\* The two properties of one account.
Vouched(u) == account[u].tier >= 2 => \E i \in RecordsOf(u) : records[i].decision = "approved"

Released(u) ==
    (\A i \in RecordsOf(u) : records[i].status = "rejected") => account[u].roll_number = NoRoll

\* The last part of VerifiedKeepsTier.
Unverified(u) == \E s \in Requests : Running(s, "review") /\ request[s].user = u /\ CommitReject(s)

\* What a step makes of one account.
Kept(u) ==
    /\ Vouched(u)' /\ Released(u)'
    /\ account[u].tier >= 2 /\ account'[u].tier < 2 => Unverified(u)

LEMMA InitSerial == Init => SerialInv
BY InitInv DEF Init, SerialInv, OneSession, Free

\* No record of u is taken back, or rejected, and its tier is not raised to
\* that of a verified account.
LEMMA Undisturbed ==
    ASSUME SerialInv, Inv', NEW u \in Users, Vouched(u), Released(u),
           account'[u].tier >= 2 <=> account[u].tier >= 2,
           account'[u].roll_number = account[u].roll_number,
           \A i \in RecordsOf(u) :
               /\ i \in RecordsOf(u)'
               /\ records'[i].decision = records[i].decision
               /\ records'[i].status = "rejected" => records[i].status = "rejected"
    PROVE  Kept(u)
<1>1. Vouched(u)'
  BY DEF Vouched
<1>2. Released(u)'
  BY DEF Released
<1>3. account[u].tier \in 0..3 /\ account'[u].tier \in 0..3
  BY DEF SerialInv, Inv, TypeOK, Account
<1> QED BY <1>1, <1>2, <1>3 DEF Kept

\* A step that leaves the records.
LEMMA RecordsLeft ==
    ASSUME SerialInv, Inv', NEW u \in Users, Vouched(u), Released(u), records' = records,
           account'[u].tier >= 2 <=> account[u].tier >= 2,
           account'[u].roll_number = account[u].roll_number
    PROVE  Kept(u)
BY Undisturbed DEF RecordsOf

\* A record that is added belongs to its user and takes none away.
LEMMA Added ==
    ASSUME SerialInv, NEW v \in Users, NEW status \in Statuses, NEW decision \in Decisions,
           records' = Append(records, NewRecord(v, status, decision))
    PROVE  /\ \A u \in Users : \A i \in RecordsOf(u) : i \in RecordsOf(u)' /\ records'[i] = records[i]
           /\ Len(records) + 1 \in RecordsOf(v)'
           /\ records'[Len(records) + 1].status = status
           /\ records'[Len(records) + 1].decision = decision
<1>1. records \in Seq(Record)
  BY DEF SerialInv, Inv, TypeOK
<1>2. NewRecord(v, status, decision) \in Record
  BY DEF NewRecord, Record
<1>3. /\ DOMAIN records = 1..Len(records) /\ DOMAIN records' = 1..(Len(records) + 1)
      /\ records'[Len(records) + 1] = NewRecord(v, status, decision)
      /\ \A i \in 1..Len(records) : records'[i] = records[i]
  BY <1>1, <1>2
<1>4. Len(records) \in Nat
  BY <1>1
<1>5. ASSUME NEW u \in Users, NEW i \in RecordsOf(u)
      PROVE  i \in RecordsOf(u)' /\ records'[i] = records[i]
  BY <1>3, <1>4 DEF RecordsOf
<1>6. Len(records) + 1 \in RecordsOf(v)'
  BY <1>3, <1>4 DEF RecordsOf, NewRecord
<1>7. records'[Len(records) + 1].status = status /\ records'[Len(records) + 1].decision = decision
  BY <1>3 DEF NewRecord
<1> QED BY <1>5, <1>6, <1>7

\* A record that is edited stays its user's.
LEMMA Edited ==
    ASSUME SerialInv, NEW k \in DOMAIN records, NEW r \in Record, r.user = records[k].user,
           records' = [records EXCEPT ![k] = r], NEW u \in Users
    PROVE  /\ RecordsOf(u)' = RecordsOf(u)
           /\ \A i \in RecordsOf(u) : i # k => records'[i] = records[i]
           /\ records'[k] = r
<1>1. records \in Seq(Record)
  BY DEF SerialInv, Inv, TypeOK
<1>2. DOMAIN records' = DOMAIN records /\ records'[k] = r
      /\ \A i \in DOMAIN records : i # k => records'[i] = records[i]
  BY <1>1
<1> QED BY <1>2 DEF RecordsOf

\* The session that commits has what it edits in front of it.
LEMMA Loaded ==
    ASSUME SerialInv, NEW s \in Requests, ~Free(s)
    PROVE  /\ Inv /\ Fresh(s) /\ request[s] \in Request /\ request[s].user \in Users
           /\ account[request[s].user] \in Account
           /\ request[s].op \in UserOps => request[s].loaded \in Account
BY SessionType DEF SerialInv

\* So its flush of an account writes the edited columns, all but the deadline.
LEMMA FlushFresh ==
    ASSUME NEW loaded \in Account, NEW edited \in Account, NEW current \in Account,
           loaded.tier = current.tier, loaded.roll_number = current.roll_number
    PROVE  /\ FlushAccount(loaded, edited, current).tier = edited.tier
           /\ FlushAccount(loaded, edited, current).roll_number = edited.roll_number
BY DEF FlushAccount, Flushed

-----------------------------------------------------------------------------
(* What each commit makes of the accounts.                                 *)

LEMMA CardsKeep ==
    ASSUME SerialInv, Inv', NEW s \in Requests, CommitRefusedCard(s) \/ CommitAcceptedCard(s),
           NEW v \in Users, Vouched(v), Released(v)
    PROVE  Kept(v)
<1> DEFINE req == request[s]
<1>0. PICK u \in Users : u = req.user
  BY Loaded DEF CommitRefusedCard, CommitAcceptedCard, Running, Free
<1> DEFINE row == FlushAccount(req.loaded, CardAccount(req), account[u])
<1>1. /\ u \in Users /\ req \in Request /\ account[u] \in Account /\ account[v] \in Account
      /\ account \in [Users -> Account] /\ req.loaded \in Account
      /\ req.loaded.tier = account[u].tier /\ req.loaded.roll_number = account[u].roll_number
  BY <1>0, Loaded DEF CommitRefusedCard, CommitAcceptedCard, Running, Free, UserOps, Fresh,
                SerialInv, Inv, TypeOK
<1>2. CASE CommitRefusedCard(s)
  <2>1. records' = Append(records, NewRecord(u, "rejected", "auto_reject")) /\ account' = account
    BY <1>0, <1>2 DEF CommitRefusedCard
  <2> "rejected" \in Statuses /\ "auto_reject" \in Decisions
    BY DEF Statuses, Decisions
  <2>2. \A i \in RecordsOf(v) : i \in RecordsOf(v)' /\ records'[i] = records[i]
    BY <1>1, <2>1, Added
  <2>3. account'[v] = account[v] /\ account[v].tier \in 0..3
    BY <1>1, <2>1 DEF Account
  <2> QED BY <2>2, <2>3, Undisturbed
<1>3. CASE CommitAcceptedCard(s)
  <2>1. records' = Append(records, NewRecord(u, "needs_selfie", "none"))
    BY <1>0, <1>3 DEF CommitAcceptedCard
  <2> "needs_selfie" \in Statuses /\ "none" \in Decisions
    BY DEF Statuses, Decisions
  <2>2. /\ \A i \in RecordsOf(v) : i \in RecordsOf(v)' /\ records'[i] = records[i]
        /\ Len(records) + 1 \in RecordsOf(u)'
        /\ records'[Len(records) + 1].status = "needs_selfie"
    BY <1>1, <2>1, Added
  <2>3. account' = [account EXCEPT ![u] =
            IF req.loaded.tier < 1 THEN [row EXCEPT !.tier1_expires_at = "ahead"] ELSE row]
    BY <1>0, <1>3 DEF CommitAcceptedCard
  <2>4. CASE v # u
    <3>1. account'[v] = account[v] /\ account[v].tier \in 0..3
      BY <1>1, <2>3, <2>4 DEF Account
    <3> QED BY <2>2, <3>1, Undisturbed
  <2>5. CASE v = u
    <3>1. CardAccount(req) \in Account
      BY <1>1, CardAccountType
    <3>2. row \in Account /\ row.tier = CardAccount(req).tier
      BY <1>1, <3>1, FlushFresh, FlushType
    <3>3. account'[u].tier = row.tier
      BY <1>1, <2>3, <3>2 DEF Account
    <3>4. account'[u].tier >= 2 <=> account[u].tier >= 2
      BY <1>1, <3>2, <3>3 DEF CardAccount, Account
    <3>5. Vouched(v)'
      BY <2>2, <2>5, <3>4 DEF Vouched
    <3>6. Released(v)'
      BY <2>2, <2>5 DEF Released
    <3>7. account'[u].tier \in 0..3 /\ account[u].tier \in 0..3
      BY <1>1 DEF Inv, TypeOK, Account
    <3> QED BY <2>5, <3>4, <3>5, <3>6, <3>7 DEF Kept
  <2> QED BY <2>4, <2>5
<1> QED BY <1>2, <1>3

LEMMA SelfieKeeps ==
    ASSUME SerialInv, Inv', NEW s \in Requests, CommitSelfie(s) \/ CommitDispute(s),
           NEW v \in Users, Vouched(v), Released(v)
    PROVE  Kept(v)
<1> DEFINE req == request[s]
           k == req.rec
           disputed == [records[k] EXCEPT !.status = Flushed(req.row.status, "in_review", @)]
           imaged == [disputed EXCEPT !.selfie = TRUE]
<1>1. k \in DOMAIN records /\ req.row = records[k] /\ account[v].tier \in 0..3
  BY Loaded DEF CommitSelfie, CommitDispute, Running, Free, Fresh, SerialInv, Inv, TypeOK, Account
<1>2. records[k] \in Record
  BY <1>1, RecordSeq DEF SerialInv
<1>3. disputed.status = "in_review" /\ imaged.status = "in_review"
  BY <1>1, <1>2 DEF Flushed, Record
<1>4. disputed \in Record /\ imaged \in Record
  BY <1>1, <1>2 DEF Record, Flushed, Statuses
<1>5. \A r \in {disputed, imaged} :
          r \in Record /\ r.user = records[k].user /\ r.status = "in_review"
          /\ r.decision = records[k].decision
  BY <1>2, <1>3, <1>4 DEF Record
<1>6. account' = account /\ \E r \in {disputed, imaged} : records' = [records EXCEPT ![k] = r]
  <2>1. CASE CommitSelfie(s)
    BY <2>1 DEF CommitSelfie
  <2>2. CASE CommitDispute(s)
    BY <2>2 DEF CommitDispute
  <2> QED BY <2>1, <2>2
<1> HIDE DEF disputed, imaged
<1>7. PICK r \in {disputed, imaged} : records' = [records EXCEPT ![k] = r]
  BY <1>6
<1>8. /\ RecordsOf(v)' = RecordsOf(v) /\ records'[k] = r
      /\ \A i \in RecordsOf(v) : i # k => records'[i] = records[i]
  BY <1>1, <1>5, <1>7, Edited, ZenonT(30)
<1> QED BY <1>1, <1>5, <1>6, <1>8, Undisturbed

\* A reviewer's decision of a record, with what it makes of the account.
LEMMA Decides ==
    ASSUME SerialInv, Inv', NEW s \in Requests, Running(s, "review"),
           NEW verdict \in {"approved", "rejected"},
           records' = [records EXCEPT ![request[s].rec] = DecidedRecord(request[s], verdict)],
           NEW v \in Users, Vouched(v), Released(v)
    PROVE  /\ v # request[s].user /\ account'[v] = account[v] => Kept(v)
           /\ v = request[s].user => \E i \in RecordsOf(v)' :
                  records'[i].status = verdict /\ records'[i].decision = verdict
<1> DEFINE req == request[s]
           k == req.rec
           r == DecidedRecord(req, verdict)
<1>1. /\ k \in DOMAIN records /\ req.row = records[k] /\ req.user = records[k].user
      /\ account[v].tier \in 0..3
  BY Loaded DEF Running, Free, Fresh, SerialInv, Inv, TypeOK, Account
<1>2. records[k] \in Record
  BY <1>1, RecordSeq DEF SerialInv
<1>3. r \in Record
  BY <1>1, DecidedType DEF SerialInv
<1>4. r.status = verdict /\ r.decision = verdict /\ r.user = records[k].user
  BY <1>1, <1>2 DEF DecidedRecord, Flushed, Record
<1> HIDE DEF r
<1>5. /\ RecordsOf(v)' = RecordsOf(v) /\ records'[k] = r
      /\ \A i \in RecordsOf(v) : i # k => records'[i] = records[i]
  BY <1>1, <1>3, <1>4, Edited DEF r
<1>6. v = req.user => k \in RecordsOf(v)
  BY <1>1 DEF RecordsOf
<1>7. v # req.user => k \notin RecordsOf(v)
  BY <1>1 DEF RecordsOf
<1>8. ASSUME v # req.user, account'[v] = account[v] PROVE Kept(v)
  BY <1>1, <1>5, <1>7, <1>8, Undisturbed
<1> QED BY <1>4, <1>5, <1>6, <1>8

LEMMA ApproveKeeps ==
    ASSUME SerialInv, Inv', NEW s \in Requests, CommitApprove(s),
           NEW v \in Users, Vouched(v), Released(v)
    PROVE  Kept(v)
<1> DEFINE req == request[s]
           u == req.user
<1>1. /\ u \in Users /\ account[u] \in Account /\ account[v] \in Account
      /\ account \in [Users -> Account] /\ req.loaded \in Account
      /\ req.loaded.tier = account[u].tier /\ req.loaded.roll_number = account[u].roll_number
      /\ Running(s, "review")
  BY Loaded DEF CommitApprove, Running, Free, UserOps, Fresh, SerialInv, Inv, TypeOK
<1>2. records' = [records EXCEPT ![req.rec] = DecidedRecord(req, "approved")]
  BY DEF CommitApprove
<1>3. PICK correction \in Rolls \cup {NoRoll} : account' = [account EXCEPT ![u] =
          FlushAccount(req.loaded, ApprovedAccount(req.loaded,
              IF correction = NoRoll THEN req.loaded.roll_number ELSE correction), @)]
  BY DEF CommitApprove
<1> DEFINE roll == IF correction = NoRoll THEN req.loaded.roll_number ELSE correction
           edited == ApprovedAccount(req.loaded, roll)
<1>4. roll \in Rolls \cup {NoRoll}
  BY <1>1 DEF Account
<1>5. edited \in Account /\ edited.tier >= 2
  BY <1>1, <1>4, ApprovedType DEF ApprovedAccount, Account
<1>6. account' = [account EXCEPT ![u] = FlushAccount(req.loaded, edited, account[u])]
  BY <1>3
<1> HIDE DEF edited, roll
<1>7. CASE v # u
  <2>1. account'[v] = account[v]
    BY <1>1, <1>6, <1>7
  <2> QED BY <1>1, <1>2, <1>7, <2>1, Decides
<1>8. CASE v = u
  <2>1. account'[v] = FlushAccount(req.loaded, edited, account[u])
    BY <1>1, <1>6, <1>8
  <2>2. account'[v].tier = edited.tier
    BY <1>1, <1>5, <2>1, FlushFresh
  <2>3. \E i \in RecordsOf(v)' : records'[i].status = "approved" /\ records'[i].decision = "approved"
    BY <1>1, <1>2, <1>8, Decides
  <2>4. Vouched(v)'
    BY <2>3 DEF Vouched
  <2>5. Released(v)'
    BY <2>3 DEF Released
  <2> QED BY <1>5, <2>2, <2>4, <2>5 DEF Kept, Account
<1> QED BY <1>7, <1>8

LEMMA RejectKeeps ==
    ASSUME SerialInv, Inv', NEW s \in Requests, CommitReject(s),
           NEW v \in Users, Vouched(v), Released(v)
    PROVE  Kept(v)
<1> DEFINE req == request[s]
           u == req.user
           edited == RejectedAccount(req.loaded)
<1>1. /\ u \in Users /\ account[u] \in Account /\ account[v] \in Account
      /\ account \in [Users -> Account] /\ req.loaded \in Account
      /\ req.loaded.tier = account[u].tier /\ req.loaded.roll_number = account[u].roll_number
      /\ Running(s, "review")
  BY Loaded DEF CommitReject, Running, Free, UserOps, Fresh, SerialInv, Inv, TypeOK
<1>2. records' = [records EXCEPT ![req.rec] = DecidedRecord(req, "rejected")]
  BY DEF CommitReject
<1>3. account' = [account EXCEPT ![u] = FlushAccount(req.loaded, edited, account[u])]
  BY DEF CommitReject
<1>4. edited \in Account /\ edited.tier = 0 /\ edited.roll_number = NoRoll
  BY <1>1, RejectedType DEF RejectedAccount
<1> HIDE DEF edited
<1>5. CASE v # u
  <2>1. account'[v] = account[v]
    BY <1>1, <1>3, <1>5
  <2> QED BY <1>1, <1>2, <1>5, <2>1, Decides
<1>6. CASE v = u
  <2>1. account'[v] = FlushAccount(req.loaded, edited, account[u])
    BY <1>1, <1>3, <1>6
  <2>2. account'[v].tier = 0 /\ account'[v].roll_number = NoRoll
    BY <1>1, <1>4, <2>1, FlushFresh
  <2>3. Vouched(v)' /\ Released(v)'
    BY <2>2 DEF Vouched, Released
  <2>4. Unverified(v)
    BY <1>1, <1>6 DEF Unverified
  <2> QED BY <2>3, <2>4 DEF Kept
<1> QED BY <1>5, <1>6

LEMMA ManualKeeps ==
    ASSUME SerialInv, Inv', NEW s \in Requests, CommitManual(s),
           NEW v \in Users, Vouched(v), Released(v)
    PROVE  Kept(v)
<1> DEFINE req == request[s]
<1>0. PICK u \in Users : u = req.user
  BY Loaded DEF CommitManual, Running, Free
<1>1. /\ u \in Users /\ account[u] \in Account /\ account[v] \in Account
      /\ account \in [Users -> Account] /\ req.loaded \in Account
      /\ req.loaded.tier = account[u].tier /\ req.loaded.roll_number = account[u].roll_number
  BY <1>0, Loaded DEF CommitManual, Running, Free, UserOps, Fresh, SerialInv, Inv, TypeOK
<1>2. records' = Append(records, NewRecord(u, "approved", "approved"))
  BY <1>0 DEF CommitManual
<1>3. PICK r \in Rolls : account' = [account EXCEPT ![u] =
          FlushAccount(req.loaded, ApprovedAccount(req.loaded, r), account[u])]
  BY <1>0 DEF CommitManual
<1> DEFINE edited == ApprovedAccount(req.loaded, r)
<1>4. edited \in Account /\ edited.tier >= 2
  BY <1>1, ApprovedType DEF ApprovedAccount, Account
<1>5. account' = [account EXCEPT ![u] = FlushAccount(req.loaded, edited, account[u])]
  BY <1>3
<1> HIDE DEF edited
<1> "approved" \in Statuses /\ "approved" \in Decisions
  BY DEF Statuses, Decisions
<1>6. /\ \A i \in RecordsOf(v) : i \in RecordsOf(v)' /\ records'[i] = records[i]
      /\ Len(records) + 1 \in RecordsOf(u)'
      /\ records'[Len(records) + 1].status = "approved"
      /\ records'[Len(records) + 1].decision = "approved"
  BY <1>1, <1>2, Added
<1>7. CASE v # u
  <2>1. account'[v] = account[v] /\ account[v].tier \in 0..3
    BY <1>1, <1>5, <1>7 DEF Account
  <2> QED BY <1>6, <2>1, Undisturbed
<1>8. CASE v = u
  <2>1. account'[v] = FlushAccount(req.loaded, edited, account[u])
    BY <1>1, <1>5, <1>8
  <2>2. account'[v].tier = edited.tier
    BY <1>1, <1>4, <2>1, FlushFresh
  <2>3. Vouched(v)'
    BY <1>6, <1>8 DEF Vouched
  <2>4. Released(v)'
    BY <1>6, <1>8 DEF Released
  <2> QED BY <1>4, <2>2, <2>3, <2>4 DEF Kept, Account
<1> QED BY <1>7, <1>8

LEMMA RolesKeep ==
    ASSUME SerialInv, Inv', NEW s \in Requests, CommitRoles(s),
           NEW v \in Users, Vouched(v), Released(v)
    PROVE  Kept(v)
<1> DEFINE req == request[s]
           u == req.user
<1>1. /\ u \in Users /\ account[u] \in Account /\ account[v] \in Account
      /\ account \in [Users -> Account] /\ req.loaded \in Account
      /\ req.loaded.tier = account[u].tier
  BY Loaded DEF CommitRoles, Running, Free, UserOps, Fresh, SerialInv, Inv, TypeOK
<1>2. records' = records
  BY DEF CommitRoles
<1>3. PICK granted \in BOOLEAN : account' = [account EXCEPT ![u].tier = Flushed(req.loaded.tier,
          IF req.loaded.tier < 2 THEN req.loaded.tier ELSE IF granted THEN 3 ELSE 2, @)]
  BY DEF CommitRoles
<1> DEFINE tier == Flushed(req.loaded.tier,
          IF req.loaded.tier < 2 THEN req.loaded.tier ELSE IF granted THEN 3 ELSE 2, account[u].tier)
<1>4. \/ account[u].tier < 2 /\ tier = account[u].tier
      \/ account[u].tier >= 2 /\ tier \in {2, 3}
  <2>1. CASE req.loaded.tier < 2
    <3>1. tier = account[u].tier
      BY <2>1 DEF Flushed
    <3>2. account[u].tier < 2
      BY <1>1, <2>1
    <3> HIDE DEF tier
    <3> QED BY <3>1, <3>2
  <2>2. CASE req.loaded.tier >= 2
    <3>1. tier \in {2, 3}
      BY <1>1, <2>2 DEF Flushed, Account
    <3> QED BY <1>1, <2>2, <3>1
  <2> QED BY <1>1, <2>1, <2>2 DEF Account
<1>5. account' = [account EXCEPT ![u] = [account[u] EXCEPT !.tier = tier]]
  BY <1>3
<1> HIDE DEF tier
<1>6. /\ account'[u].tier = tier /\ account'[u].roll_number = account[u].roll_number
      /\ v # u => account'[v] = account[v]
  BY <1>1, <1>5 DEF Account
<1>7. account[v].tier \in 0..3
  BY <1>1 DEF Account
<1> QED BY <1>2, <1>4, <1>6, <1>7, RecordsLeft

\* The steps that write no record: the tier of a verified account stays.
LEMMA OthersKeep ==
    ASSUME SerialInv, Inv', NEW v \in Users, Vouched(v), Released(v),
           records' = records, account' = account
    PROVE  Kept(v)
<1>1. account[v].tier \in 0..3
  BY DEF SerialInv, Inv, TypeOK, Account
<1> QED BY <1>1, RecordsLeft

LEMMA ExpiryKeeps ==
    ASSUME SerialInv, Inv', NEW v \in Users, Vouched(v), Released(v), CommitExpiry
    PROVE  Kept(v)
<1>1. account[v] \in Account /\ expiring \subseteq Users
  BY DEF SerialInv, Inv, TypeOK
<1>2. records' = records
      /\ account'[v] = IF v \in expiring THEN [account[v] EXCEPT !.tier = 0] ELSE account[v]
  BY DEF CommitExpiry
<1>3. v \in expiring => account[v].tier = 1
  BY DEF SerialInv
<1> QED BY <1>1, <1>2, <1>3, RecordsLeft DEF Account

LEMMA WindowKeeps ==
    ASSUME SerialInv, Inv', NEW u \in Users, WindowPasses(u), NEW v \in Users, Vouched(v), Released(v)
    PROVE  Kept(v)
<1>1. account[v] \in Account /\ account \in [Users -> Account]
  BY DEF SerialInv, Inv, TypeOK
<1>2. records' = records /\ account'[v].tier = account[v].tier
      /\ account'[v].roll_number = account[v].roll_number
  BY <1>1 DEF WindowPasses, Account
<1> QED BY <1>1, <1>2, RecordsLeft DEF Account

LEMMA StepKeeps ==
    ASSUME SerialInv, [Next]_vars, NEW v \in Users, Vouched(v), Released(v)
    PROVE  Kept(v)
<1> Inv'
  BY NextInv DEF SerialInv
<1>1. CASE \E s \in Requests :
           \/ CommitRefusedCard(s) \/ CommitAcceptedCard(s) \/ CommitSelfie(s) \/ CommitDispute(s)
           \/ CommitApprove(s) \/ CommitReject(s) \/ CommitManual(s) \/ CommitRoles(s)
  BY <1>1, CardsKeep, SelfieKeeps, ApproveKeeps, RejectKeeps, ManualKeeps, RolesKeep
<1>2. CASE CommitExpiry
  BY <1>2, ExpiryKeeps
<1>3. CASE \E u \in Users : WindowPasses(u)
  BY <1>3, WindowKeeps
<1>4. CASE records' = records /\ account' = account
  BY <1>4, OthersKeep
<1> QED BY <1>1, <1>2, <1>3, <1>4
    DEF Next, Student, Staff, Session, Jobs, Clock, vars, OpenCard, OpenCardByApi, OpenSelfie,
        OpenSelfieByApi, OpenDispute, OpenReview, OpenManual, OpenRoles, RefuseCard, AcceptCard,
        Rollback, StartExpiry, Crash, AttemptsAge
-----------------------------------------------------------------------------
(* The invariant of the sessions.                                          *)

\* What no step changed and what a session has just read is not stale.
LEMMA ReadsSerial ==
    ASSUME SerialInv, Inv', OneSession', UNCHANGED <<account, records>>, expiring' \subseteq expiring,
           \A s \in Requests : request'[s] = request[s] \/ Free(s)' \/ Fresh(s)'
    PROVE  SerialInv'
<1>1. ASSUME NEW s \in Requests, ~Free(s)' PROVE Fresh(s)'
  <2>1. CASE request'[s] = request[s]
    <3>1. Fresh(s)
      BY <1>1, <2>1 DEF SerialInv, Free
    <3> QED BY <2>1, <3>1 DEF Fresh
  <2> QED BY <1>1, <2>1
<1> QED BY <1>1 DEF SerialInv

\* With no session open there is nothing to be stale.
LEMMA ClosesSerial ==
    ASSUME SerialInv, Inv', OneSession', \A s \in Requests : Free(s)',
           \A u \in expiring' : account'[u].tier = 1
    PROVE  SerialInv'
BY DEF SerialInv

\* A commit closes the one session.
LEMMA CommitsSerial ==
    ASSUME SerialInv, Inv', OneSession', NEW s \in Requests, ~Free(s), Close(s), expiring' = expiring
    PROVE  SerialInv'
<1>1. \A t \in Requests : Free(t)'
  BY DEF SerialInv, OneSession, Close, Free, Inv, TypeOK
<1>2. expiring' = {}
  BY DEF SerialInv, OneSession
<1> QED BY <1>1, <1>2, ClosesSerial

LEMMA OpensFresh ==
    ASSUME SerialInv, NEW s \in Requests, UNCHANGED <<account, records>>
    PROVE  /\ \A u \in Users, op \in UserOps \ {"accepted", "review"} :
                  request' = [request EXCEPT ![s] = UserRequest(op, u)] => Fresh(s)'
           /\ \A i \in DOMAIN records, op \in {"selfie", "dispute"} :
                  request' = [request EXCEPT ![s] = RecordRequest(op, i)] => Fresh(s)'
           /\ \A i \in DOMAIN records :
                  request' = [request EXCEPT ![s] = ReviewRequest(i)] => Fresh(s)'
<1>0. \A r : request' = [request EXCEPT ![s] = r] => request'[s] = r
  BY DEF SerialInv, Inv, TypeOK
<1>1. ASSUME NEW u \in Users, NEW op \in UserOps \ {"accepted", "review"},
             request' = [request EXCEPT ![s] = UserRequest(op, u)]
      PROVE  Fresh(s)'
  <2>1. request'[s] = UserRequest(op, u)
    BY <1>0, <1>1
  <2>2. request'[s].op = op /\ request'[s].loaded = account[u] /\ request'[s].user = u
    BY <2>1 DEF UserRequest
  <2> QED BY <2>2 DEF Fresh, UserOps
<1>2. ASSUME NEW i \in DOMAIN records, NEW op \in {"selfie", "dispute"},
             request' = [request EXCEPT ![s] = RecordRequest(op, i)]
      PROVE  Fresh(s)'
  <2>1. request'[s] = RecordRequest(op, i)
    BY <1>0, <1>2
  <2>2. /\ request'[s].op = op /\ request'[s].rec = i /\ request'[s].row = records[i]
        /\ request'[s].user = records[i].user
    BY <2>1 DEF RecordRequest
  <2> QED BY <2>2 DEF Fresh, UserOps
<1>3. ASSUME NEW i \in DOMAIN records, request' = [request EXCEPT ![s] = ReviewRequest(i)]
      PROVE  Fresh(s)'
  <2>1. request'[s] = ReviewRequest(i)
    BY <1>0, <1>3
  <2>2. /\ request'[s].op = "review" /\ request'[s].rec = i /\ request'[s].row = records[i]
        /\ request'[s].user = records[i].user /\ request'[s].loaded = account[records[i].user]
    BY <2>1 DEF RecordRequest, ReviewRequest
  <2> QED BY <2>2 DEF Fresh, UserOps
<1> QED BY <1>1, <1>2, <1>3

LEMMA OpensSerial ==
    ASSUME SerialInv, Inv', OneSession', Student \/ Staff
    PROVE  SerialInv'
<1> DEFINE Opens(s) ==
        \/ \E u \in Users, op \in UserOps \ {"accepted", "review"} :
               request' = [request EXCEPT ![s] = UserRequest(op, u)]
        \/ \E i \in DOMAIN records, op \in {"selfie", "dispute"} :
               request' = [request EXCEPT ![s] = RecordRequest(op, i)]
        \/ \E i \in DOMAIN records : request' = [request EXCEPT ![s] = ReviewRequest(i)]
<1>1. UNCHANGED <<account, records, expiring>> /\ \E s \in Requests : Opens(s)
  <2>1. CASE Student
    <3>1. PICK s \in Requests, u \in Users : OpenCard(s, u) \/ OpenSelfie(s, u) \/ OpenDispute(s, u)
      BY <2>1 DEF Student, OpenCardByApi, OpenSelfieByApi
    <3> QED BY <3>1 DEF OpenCard, OpenSelfie, OpenDispute, UserOps
  <2>2. CASE Staff
    BY <2>2 DEF Staff, OpenReview, OpenManual, OpenRoles, UserOps
  <2> QED BY <2>1, <2>2
<1>2. PICK s \in Requests : Opens(s)
  BY <1>1
<1>3. Fresh(s)'
  BY <1>1, <1>2, OpensFresh
<1>4. \A t \in Requests : t # s => request'[t] = request[t]
  BY <1>2 DEF SerialInv, Inv, TypeOK
<1> QED BY <1>1, <1>3, <1>4, ReadsSerial

\* The OCR's verdict leaves what the card request loaded.
LEMMA JudgedSerial ==
    ASSUME SerialInv, Inv', OneSession', NEW s \in Requests, RefuseCard(s) \/ AcceptCard(s)
    PROVE  SerialInv'
<1>1. /\ UNCHANGED <<account, records, expiring>>
      /\ request[s] \in Request /\ Fresh(s) /\ request[s].op = "card"
      /\ request = [t \in Requests |-> request[t]]
  BY Loaded DEF RefuseCard, AcceptCard, Running, Free, SerialInv, Inv, TypeOK
<1>2. /\ request'[s].op \in {"refused", "accepted"}
      /\ request'[s].loaded = request[s].loaded /\ request'[s].user = request[s].user
      /\ request'[s].op = "accepted" => request'[s].roll \in Rolls
  <2>1. CASE RefuseCard(s)
    BY <1>1, <2>1 DEF RefuseCard, Request
  <2>2. CASE AcceptCard(s)
    <3>1. PICK r \in Rolls : request' = [request EXCEPT ![s].op = "accepted", ![s].roll = r]
      BY <2>2 DEF AcceptCard
    <3> QED BY <1>1, <3>1 DEF Request
  <2> QED BY <2>1, <2>2
<1>3. Fresh(s)'
  BY <1>1, <1>2 DEF Fresh, UserOps
<1>4. \A t \in Requests : t # s => request'[t] = request[t]
  BY <1>1 DEF RefuseCard, AcceptCard
<1> QED BY <1>1, <1>3, <1>4, ReadsSerial

LEMMA SessionsSerial ==
    ASSUME SerialInv, Inv', OneSession', Session
    PROVE  SerialInv'
<1>1. CASE \E s \in Requests : RefuseCard(s) \/ AcceptCard(s)
  BY <1>1, JudgedSerial
<1>2. CASE \E s \in Requests : ~Free(s) /\ Close(s) /\ expiring' = expiring
  BY <1>2, CommitsSerial
<1> QED BY <1>1, <1>2
    DEF Session, CommitRefusedCard, CommitAcceptedCard, CommitSelfie, CommitDispute, CommitApprove,
        CommitReject, CommitManual, CommitRoles, Rollback, Running, Free

LEMMA JobsSerial ==
    ASSUME SerialInv, Inv', OneSession', Jobs \/ Crash \/ Clock \/ UNCHANGED vars
    PROVE  SerialInv'
<1>1. account \in [Users -> Account] /\ expiring \subseteq Users
  BY DEF SerialInv, Inv, TypeOK
<1>2. CASE StartExpiry
  <2>1. \A s \in Requests : Free(s)'
    BY <1>2 DEF StartExpiry, OneSession
  <2>2. \A u \in expiring' : account'[u].tier = 1
    BY <1>2 DEF StartExpiry
  <2> QED BY <2>1, <2>2, ClosesSerial
<1>3. CASE CommitExpiry
  <2>1. \A s \in Requests : Free(s)'
    BY <1>3 DEF CommitExpiry, SerialInv, OneSession, Free
  <2> QED BY <1>3, <2>1, ClosesSerial DEF CommitExpiry
<1>4. CASE Crash
  BY <1>4, ReadsSerial DEF Crash, Free
<1>5. CASE \E u \in Users : WindowPasses(u)
  <2>1. PICK u \in Users : WindowPasses(u)
    BY <1>5
  <2>2. \A v \in Users : /\ account'[v].tier = account[v].tier
                         /\ account'[v].roll_number = account[v].roll_number
    BY <1>1, <2>1 DEF WindowPasses, Account
  <2>3. UNCHANGED <<records, request, expiring>>
    BY <2>1 DEF WindowPasses
  <2>4. ASSUME NEW s \in Requests, ~Free(s)' PROVE Fresh(s)'
    <3>1. Fresh(s) /\ request[s].user \in Users
      BY <2>3, <2>4, Loaded DEF SerialInv, Free
    <3> QED BY <2>2, <2>3, <3>1 DEF Fresh
  <2> QED BY <1>1, <2>2, <2>3, <2>4 DEF SerialInv
<1>6. CASE \E u \in Users : AttemptsAge(u)
  BY <1>6, ReadsSerial DEF AttemptsAge
<1>7. CASE UNCHANGED vars
  BY <1>7, ReadsSerial DEF vars
<1> QED BY <1>2, <1>3, <1>4, <1>5, <1>6, <1>7 DEF Jobs, Clock

LEMMA NextSerial == SerialInv /\ [Next /\ OneSession']_vars => SerialInv'
<1> SUFFICES ASSUME SerialInv, [Next /\ OneSession']_vars PROVE SerialInv'
  OBVIOUS
<1>1. Inv'
  BY NextInv DEF SerialInv
<1>2. OneSession'
  BY DEF SerialInv, OneSession, Free, vars
<1> QED BY <1>1, <1>2, OpensSerial, SessionsSerial, JobsSerial DEF Next

\* Both properties and the step relation, together.
Served == VerifiedByReviewer /\ RejectedClaimReleasesRoll

LEMMA InitServed == Init => Served
BY DEF Init, Served, VerifiedByReviewer, RejectedClaimReleasesRoll

LEMMA ServedAt == Served <=> \A u \in Users : Vouched(u) /\ Released(u)
BY DEF Served, Vouched, Released, VerifiedByReviewer, RejectedClaimReleasesRoll

LEMMA NextServed ==
    SerialInv /\ Served /\ [Next /\ OneSession']_vars => Served' /\ \A u \in Users : Kept(u)
<1> SUFFICES ASSUME SerialInv, Served, [Next]_vars PROVE Served' /\ \A u \in Users : Kept(u)
  BY DEF vars
<1>1. \A u \in Users : Kept(u)
  BY ServedAt, StepKeeps
<1>2. \A u \in Users : Vouched(u)' /\ Released(u)'
  BY <1>1 DEF Kept
<1>3. Served'
  BY <1>2 DEF Served, Vouched, Released, VerifiedByReviewer, RejectedClaimReleasesRoll
<1> QED BY <1>1, <1>3

\* Full access comes from a person (approve, submit_card, set_roles,
\* expire_provisional): for any accounts, cards and records, with requests and
\* jobs one at a time, a verified account has an approved record.
THEOREM VerifiedIsVouched == SerialSpec => []VerifiedByReviewer
<1>1. Served => VerifiedByReviewer
  BY DEF Served
<1> QED BY InitSerial, NextSerial, InitServed, NextServed, <1>1, PTL DEF SerialSpec

\* reject sets roll_number to None, and only an approval or a new card gives one
\* back: with requests one at a time, an account whose claims were all rejected
\* leaves its roll number to the genuine owner.
THEOREM RejectedRollFree == SerialSpec => []RejectedClaimReleasesRoll
<1>1. Served => RejectedClaimReleasesRoll
  BY DEF Served
<1> QED BY InitSerial, NextSerial, InitServed, NextServed, <1>1, PTL DEF SerialSpec

\* Nothing but a reviewer's rejection takes full access away: with requests one
\* at a time neither a card, an expiry nor a change of roles drops a verified
\* account below tier 2.
THEOREM VerifiedStays == SerialSpec => VerifiedKeepsTier
<1>1. SerialInv /\ Served /\ [Next /\ OneSession']_vars =>
          [\A u \in Users : account[u].tier >= 2 /\ account'[u].tier < 2 =>
              \E s \in Requests : Running(s, "review") /\ request[s].user = u /\ CommitReject(s)]_vars
  BY NextServed DEF Kept, Unverified
<1> QED BY InitSerial, NextSerial, InitServed, NextServed, <1>1, PTL DEF SerialSpec, VerifiedKeepsTier
=============================================================================
