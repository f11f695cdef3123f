----------------------------- MODULE Retention -----------------------------
(***************************************************************************)
(* The encrypted ID-card and selfie images of verification: the files under *)
(* verification_root, the verification_records that point to them, and the  *)
(* purge pass that shreds them after the retention period                  *)
(* (app/services/verification.py purge_expired_artifacts, the nightly job   *)
(* and the admin console's button).                                        *)
(*                                                                         *)
(* A file is written before the row that names it is committed, and        *)
(* shredded before the row that named it is, so a rollback or a crash       *)
(* separates the two.  Sessions load rows and write back dirty columns, as  *)
(* in Verification.  The card and the portrait cropped from it are saved    *)
(* and shredded together and stand here for one file.                      *)
(***************************************************************************)
EXTENDS Integers, Sequences, FiniteSets

CONSTANTS
    Files,        \* file names: secrets.token_urlsafe never repeats one
    Handlers,     \* requests that can be open at once
    Purgers,      \* purge passes that can run at once: the job, the console's
    Stuck,        \* files the disk may refuse to overwrite and to unlink
    None,         \* no session, or a path that IS NULL
    MaxRecords    \* bound: verification records ever created

ASSUME RetentionAssumption ==
    /\ MaxRecords \in Nat
    /\ Stuck \subseteq Files
    /\ None \notin Files

VARIABLES
    rows,         \* verification_records in order of id
    file,         \* what became of each file name, and the record whose row got it
    handler,      \* the open requests: what each loaded and the file it saved
    purge         \* the purge passes under way and the rows each loaded

retentionVars == <<rows, file, handler, purge>>

-----------------------------------------------------------------------------
Path == Files \cup {None}

\* decided: the decision column is set.  The retention deadline is in the
\* future or reached; every record has one (approve sets a manual one's).
Row == [status : {"needs_selfie", "in_review", "approved", "rejected"}, decided : BOOLEAN,
        card : Path, selfie : Path, deadline : {"ahead", "reached"}, purged : BOOLEAN]

Ids == 1..MaxRecords

\* The rows a session or a purge pass has loaded, by id.
Loaded == UNION {[ids -> Row] : ids \in SUBSET Ids}

Handler == [op : {"card", "selfie", "dispute", "review"}, loaded : Loaded, file : Path]

Purge == [phase : {"loaded", "shredded"}, loaded : Loaded]

\* rec 0: no committed row has named the file (yet).
File == [state : {"unused", "on_disk", "shredded"}, rec : 0..MaxRecords]

RetentionTypeOK ==
    /\ rows \in Seq(Row)
    /\ Len(rows) <= MaxRecords
    /\ file \in [Files -> File]
    /\ handler \in [Handlers -> Handler \cup {None}]
    /\ purge \in [Purgers -> Purge \cup {None}]

RetentionInit ==
    /\ rows = <<>>
    /\ file = [f \in Files |-> [state |-> "unused", rec |-> 0]]
    /\ handler = [s \in Handlers |-> None]
    /\ purge = [p \in Purgers |-> None]

-----------------------------------------------------------------------------
(* Helpers.                                                                *)

\* A column as the UPDATE leaves it: written only if the session changed it.
Flushed(loaded, edited, current) == IF edited = loaded THEN current ELSE edited

OnDisk(f) == file[f].state = "on_disk"

Running(s, op) == handler[s] # None /\ handler[s].op = op

\* The record a request on one record works on, and the row it loaded.
RecordOf(s) == CHOOSE i \in DOMAIN handler[s].loaded : TRUE

RowOf(s) == handler[s].loaded[RecordOf(s)]

OpenHandler(s, op, ids, f) ==
    /\ handler[s] = None
    /\ handler' = [handler EXCEPT ![s] =
           [op |-> op, loaded |-> [i \in ids |-> rows[i]], file |-> f]]

CloseHandler(s) == handler' = [handler EXCEPT ![s] = None]

\* A name not used before; which one makes no difference.
NewFile == CHOOSE f \in Files : file[f].state = "unused"

\* save_verification: the file is on the disk at once, whatever the session does.
Save ==
    /\ \E f \in Files : file[f].state = "unused"
    /\ file' = [file EXCEPT ![NewFile] = [state |-> "on_disk", rec |-> 0]]

\* The paths of a set of rows.
PathsOf(loaded) == {loaded[i].card : i \in DOMAIN loaded} \cup {loaded[i].selfie : i \in DOMAIN loaded}

\* Mutant: the query does not ask for a final status.
OverdueWhateverStatus(row) == row.deadline = "reached" /\ ~row.purged

\* What the purge query selects: overdue, not purged, decided for good.
Overdue(row) ==
    /\ row.deadline = "reached"
    /\ ~row.purged
    /\ row.status \in {"approved", "rejected"}

-----------------------------------------------------------------------------
(* Requests.  Selfies and disputes work on a user's latest record; the rows *)
(* here are different users', so each can be one.                           *)

\* submit_card saves the card after the OCR ...
StartCard(s) ==
    /\ Save
    /\ OpenHandler(s, "card", {}, NewFile)
    /\ UNCHANGED <<rows, purge>>

\* ... and commits a record that is waiting for a selfie or refused at once.
CommitCard(s) ==
    /\ Running(s, "card")
    /\ Len(rows) < MaxRecords
    /\ \E status \in {"needs_selfie", "rejected"} :
        rows' = Append(rows, [status |-> status, decided |-> status = "rejected",
                              card |-> handler[s].file, selfie |-> None,
                              deadline |-> "ahead", purged |-> FALSE])
    /\ file' = [file EXCEPT ![handler[s].file].rec = Len(rows) + 1]
    /\ CloseHandler(s)
    /\ UNCHANGED purge

StartSelfie(s) ==
    /\ Save
    /\ \E i \in DOMAIN rows :
        /\ rows[i].status \in {"needs_selfie", "in_review"}
        /\ OpenHandler(s, "selfie", {i}, NewFile)
    /\ UNCHANGED <<rows, purge>>

\* selfie_path is overwritten: the file of an earlier selfie is left alone.
CommitSelfie(s) ==
    /\ Running(s, "selfie")
    /\ rows' = [rows EXCEPT ![RecordOf(s)].selfie = handler[s].file,
                            ![RecordOf(s)].status = Flushed(RowOf(s).status, "in_review", @)]
    /\ file' = [file EXCEPT ![handler[s].file].rec = RecordOf(s)]
    /\ CloseHandler(s)
    /\ UNCHANGED purge

StartDispute(s) ==
    /\ \E i \in DOMAIN rows : rows[i].selfie # None /\ OpenHandler(s, "dispute", {i}, None)
    /\ UNCHANGED <<rows, file, purge>>

CommitDispute(s) ==
    /\ Running(s, "dispute")
    /\ rows' = [rows EXCEPT ![RecordOf(s)].status = Flushed(RowOf(s).status, "in_review", @)]
    /\ CloseHandler(s)
    /\ UNCHANGED <<file, purge>>

StartReview(s) ==
    /\ \E i \in DOMAIN rows : OpenHandler(s, "review", {i}, None)
    /\ UNCHANGED <<rows, file, purge>>

\* "The retention clock starts when verification completes": a new deadline.
CommitApprove(s) ==
    /\ Running(s, "review")
    /\ rows' = [rows EXCEPT ![RecordOf(s)].status = Flushed(RowOf(s).status, "approved", @),
                            ![RecordOf(s)].decided = TRUE,
                            ![RecordOf(s)].deadline = "ahead"]
    /\ CloseHandler(s)
    /\ UNCHANGED <<file, purge>>

\* reject keeps the deadline set at the capture.
CommitReject(s) ==
    /\ Running(s, "review")
    /\ rows' = [rows EXCEPT ![RecordOf(s)].status = Flushed(RowOf(s).status, "rejected", @),
                            ![RecordOf(s)].decided = TRUE]
    /\ CloseHandler(s)
    /\ UNCHANGED <<file, purge>>

\* verify_manually: a record without images, approved in the same transaction.
VerifyManually ==
    /\ Len(rows) < MaxRecords
    /\ rows' = Append(rows, [status |-> "approved", decided |-> TRUE, card |-> None,
                             selfie |-> None, deadline |-> "ahead", purged |-> FALSE])
    /\ UNCHANGED <<file, handler, purge>>

\* get_db rolls back: no row, but the file stays.
RollbackHandler(s) ==
    /\ handler[s] # None
    /\ CloseHandler(s)
    /\ UNCHANGED <<rows, file, purge>>

-----------------------------------------------------------------------------
(* The purge pass.                                                         *)

StartPurge(p) ==
    /\ purge[p] = None
    /\ LET due == {i \in DOMAIN rows : Overdue(rows[i])} IN
        /\ due # {}
        /\ purge' = [purge EXCEPT ![p] =
               [phase |-> "loaded", loaded |-> [i \in due |-> rows[i]]]]
    /\ UNCHANGED <<rows, file, handler>>

\* The console's button runs the same function.
PurgeNow(p) == StartPurge(p)

\* shred returns False when neither the overwrite nor the unlink succeeds;
\* nothing looks at what it returns.
Shred(p) ==
    /\ purge[p] # None /\ purge[p].phase = "loaded"
    /\ LET named == {f \in PathsOf(purge[p].loaded) \ {None} : OnDisk(f)} IN
       \E failed \in SUBSET (named \cap Stuck) :
        file' = [f \in Files |-> IF f \in named \ failed
                                 THEN [file[f] EXCEPT !.state = "shredded"] ELSE file[f]]
    /\ purge' = [purge EXCEPT ![p].phase = "shredded"]
    /\ UNCHANGED <<rows, handler>>

\* Mutant: artifacts_purged_at is not set.
PurgedWithoutMark(loaded, row) ==
    [row EXCEPT !.card = Flushed(loaded.card, None, @), !.selfie = Flushed(loaded.selfie, None, @)]

\* Mutant: the paths are set to the empty string instead of NULL.
PurgedToEmpty(loaded, row) ==
    [row EXCEPT !.card = Flushed(loaded.card, "", @),
                !.selfie = Flushed(loaded.selfie, "", @),
                !.purged = TRUE]

\* The row the pass leaves: paths it loaded are cleared, the mark is always new.
PurgedRow(loaded, row) ==
    [row EXCEPT !.card = Flushed(loaded.card, None, @),
                !.selfie = Flushed(loaded.selfie, None, @),
                !.purged = TRUE]

CommitPurge(p) ==
    /\ purge[p] # None /\ purge[p].phase = "shredded"
    /\ LET loaded == purge[p].loaded IN
        rows' = [i \in DOMAIN rows |->
                    IF i \in DOMAIN loaded THEN PurgedRow(loaded[i], rows[i]) ELSE rows[i]]
    /\ purge' = [purge EXCEPT ![p] = None]
    /\ UNCHANGED <<file, handler>>

-----------------------------------------------------------------------------
\* The server stops between any two steps; what is on the disk stays.
Crash ==
    /\ (\E s \in Handlers : handler[s] # None) \/ (\E p \in Purgers : purge[p] # None)
    /\ handler' = [s \in Handlers |-> None]
    /\ purge' = [p \in Purgers |-> None]
    /\ UNCHANGED <<rows, file>>

\* The thirty days of a record pass.
DeadlinePasses(i) ==
    /\ i \in DOMAIN rows
    /\ rows[i].deadline = "ahead"
    /\ rows' = [rows EXCEPT ![i].deadline = "reached"]
    /\ UNCHANGED <<file, handler, purge>>

Requested ==
    \E s \in Handlers :
        \/ StartCard(s) \/ CommitCard(s)
        \/ StartSelfie(s) \/ CommitSelfie(s)
        \/ StartDispute(s) \/ CommitDispute(s)
        \/ StartReview(s) \/ CommitApprove(s) \/ CommitReject(s)
        \/ RollbackHandler(s)

Purging == \E p \in Purgers : StartPurge(p) \/ PurgeNow(p) \/ Shred(p) \/ CommitPurge(p)

RetentionNext ==
    \/ Requested
    \/ VerifyManually
    \/ Purging
    \/ Crash
    \/ \E i \in Ids : DeadlinePasses(i)

\* The scheduler starts the pass every night.  A crash can cut any pass short,
\* but not every one: a pass takes far less than the time between two crashes.
RetentionFairness ==
    \A p \in Purgers :
        /\ WF_retentionVars(StartPurge(p))
        /\ SF_retentionVars(Shred(p))
        /\ SF_retentionVars(CommitPurge(p))

RetentionSpec == RetentionInit /\ [][RetentionNext]_retentionVars /\ RetentionFairness

-----------------------------------------------------------------------------
(* Properties.                                                             *)

\* The reviewer has something to look at: however uploads, decisions, purges
\* and crashes interleave, the images of a record nobody has ever decided,
\* automatically or by hand, are on the disk.
UndecidedImagesKept ==
    \A i \in DOMAIN rows : ~rows[i].decided =>
        \A f \in {rows[i].card, rows[i].selfie} \ {None} : OnDisk(f)

\* A record past its deadline with a final decision does not keep its images:
\* it is purged, unless a dispute reopens it or a new approval moves the deadline.
OverdueIsPurged ==
    \A i \in Ids : (i \in DOMAIN rows /\ Overdue(rows[i])) ~> (i \in DOMAIN rows /\ ~Overdue(rows[i]))

\* "Delete ID images 30 days after verification completes.  Non-negotiable."
\* (purge_expired_artifacts): no image that a purged record names, or named
\* before, is on the disk.
PurgedLeavesNothing ==
    \A f \in Files : OnDisk(f) /\ file[f].rec # 0 => ~rows[file[f].rec].purged
====
