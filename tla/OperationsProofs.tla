-------------------------- MODULE OperationsProofs --------------------------
(***************************************************************************)
(* What keeps the site running: four parts that share nothing but the one     *)
(* web process.                                                              *)
(*                                                                         *)
(* The OCR pool: the counter of cards in flight is right and no pool is left  *)
(* behind, for any number of cards, timeouts and crashes of workers.          *)
(* The settings and their cache: they are typed, and implement the safe part  *)
(* of EditableSetting, for any number of requests and values and any time to  *)
(* live.  The images of verification: those of a record nobody has decided    *)
(* are on the disk, for any number of records, requests, purge passes and     *)
(* failing files.  The queue of reports: what decides a report, what a verdict *)
(* rests on and what keeps content down, for any number of members, reports,  *)
(* actions and overlapping requests.                                         *)
(* That the workers end, that reads settle and that overdue records are purged *)
(* is liveness, checked by TLC.                                              *)
(***************************************************************************)
EXTENDS OcrExecutor, Settings, Retention, ModerationQueue, RequestsProofs, FiniteSetTheorems,
        WellFoundedInduction

Awaiting == {c \in Calls : call[c] = "awaiting"}

-----------------------------------------------------------------------------
(* Types.                                                                  *)

LEMMA OcrInitTyped == OcrInit => OcrTypeOK
  BY DEF OcrInit, OcrTypeOK, Task, Outcomes

\* A pool that changes is still one of as many pools.
LEMMA PoolChanged ==
    ASSUME NEW ps \in Seq(Pool), NEW p \in DOMAIN ps, NEW q \in Pool
    PROVE  /\ [ps EXCEPT ![p] = q] \in Seq(Pool)
           /\ DOMAIN [ps EXCEPT ![p] = q] = DOMAIN ps
  OBVIOUS

LEMMA ShutDownTyped ==
    ASSUME OcrTypeOK
    PROVE  /\ ShutDown(pools) \in Seq(Pool)
           /\ DOMAIN ShutDown(pools) = DOMAIN pools
<1>1. CASE executor = NoPool
  BY <1>1 DEF OcrTypeOK, ShutDown
<1>2. CASE executor # NoPool
  <2>1. pools \in Seq(Pool) /\ executor \in DOMAIN pools
    BY <1>2 DEF OcrTypeOK
  <2>2. pools[executor] \in Pool
    BY <2>1
  <2>3. [pools[executor] EXCEPT !.shut = TRUE] \in Pool
    BY <2>2 DEF Pool
  <2>4. ShutDown(pools) = [pools EXCEPT ![executor] = [pools[executor] EXCEPT !.shut = TRUE]]
    BY <1>2 DEF ShutDown
  <2> QED BY <2>1, <2>3, <2>4, PoolChanged
<1> QED BY <1>1, <1>2

LEMMA EndCallTyped ==
    ASSUME OcrTypeOK, NEW c \in Calls, NEW outcome \in Outcomes, NEW shuts, EndCall(c, outcome, shuts)
    PROVE  /\ call' \in [Calls -> {"idle", "awaiting"} \cup Outcomes]
           /\ inflight' \in Nat
           /\ executor' \in {NoPool} \cup DOMAIN pools'
           /\ pools' \in Seq(Pool)
<1>1. call' \in [Calls -> {"idle", "awaiting"} \cup Outcomes]
  BY DEF OcrTypeOK, EndCall
<1>2. inflight' \in Nat
  BY DEF OcrTypeOK, EndCall, Released, Last
<1>3. executor' \in {NoPool} \cup DOMAIN pools' /\ pools' \in Seq(Pool)
  BY ShutDownTyped DEF OcrTypeOK, EndCall
<1> QED BY <1>1, <1>2, <1>3

LEMMA ReturnTyped ==
    ASSUME OcrTypeOK, NEW c \in Calls, Return(c)
    PROVE  OcrTypeOK'
<1>1. \E outcome \in Outcomes, shuts \in BOOLEAN : EndCall(c, outcome, shuts)
  BY DEF Return, Answer, TimeOut, Fail, Cancelled, Outcomes
<1>2. task' \in [Calls -> Task]
  <2>1. CASE TimeOut(c)
    <3>1. task[c] \in Task
      BY DEF OcrTypeOK
    <3>2. [task[c] EXCEPT !.state = IF @ = "pending" THEN "cancelled" ELSE @] \in Task
      BY <3>1 DEF Task
    <3> QED BY <2>1, <3>2 DEF OcrTypeOK, TimeOut
  <2>2. CASE UNCHANGED task
    BY <2>2 DEF OcrTypeOK
  <2> QED BY <2>1, <2>2 DEF Return, Answer, Fail, Cancelled
<1> QED BY <1>1, <1>2, EndCallTyped DEF OcrTypeOK

LEMMA StartTyped ==
    ASSUME OcrTypeOK, NEW c \in Calls, Start(c)
    PROVE  OcrTypeOK'
<1> DEFINE new == [shut |-> FALSE, broken |-> FALSE]
<1>1. new \in Pool
  BY DEF Pool
<1>2. /\ executor' \in DOMAIN pools'
      /\ pools' \in Seq(Pool)
  <2>1. CASE executor = NoPool
    <3>1. pools' = Append(pools, new) /\ executor' = Len(pools) + 1
      BY <2>1 DEF Start
    <3>2. Append(pools, new) \in Seq(Pool) /\ Len(Append(pools, new)) = Len(pools) + 1
      BY <1>1 DEF OcrTypeOK
    <3> QED BY <3>1, <3>2 DEF OcrTypeOK
  <2>2. CASE executor # NoPool
    BY <2>2 DEF OcrTypeOK, Start
  <2> QED BY <2>1, <2>2
<1>3. executor' \in Nat
  BY <1>2
<1>4. [pool |-> executor', state |-> "pending"] \in Task
  BY <1>3 DEF Task
<1>5. task' \in [Calls -> Task]
  BY <1>4 DEF OcrTypeOK, Start
<1>6. call' \in [Calls -> {"idle", "awaiting"} \cup Outcomes] /\ inflight' \in Nat
  BY DEF OcrTypeOK, Start
<1> QED BY <1>2, <1>5, <1>6 DEF OcrTypeOK

LEMMA StartOnBrokenTyped ==
    ASSUME OcrTypeOK, NEW c \in Calls, StartOnBroken(c)
    PROVE  OcrTypeOK'
  BY ShutDownTyped DEF OcrTypeOK, StartOnBroken, Outcomes

\* The pool moves a future from one state to another.
LEMMA TaskMoved ==
    ASSUME NEW t \in Task, NEW s \in {"taken", "done", "lost", "cancelled"}
    PROVE  [t EXCEPT !.state = s] \in Task
  BY DEF Task

LEMMA WorkerDiesTyped ==
    ASSUME OcrTypeOK, NEW p \in PoolIds, WorkerDies(p)
    PROVE  OcrTypeOK'
<1>1. p \in DOMAIN pools /\ pools \in Seq(Pool)
  BY DEF OcrTypeOK, WorkerDies
<1>2. [pools[p] EXCEPT !.broken = TRUE] \in Pool
  <2>1. pools[p] \in Pool
    BY <1>1
  <2> QED BY <2>1 DEF Pool
<1>3. pools' = [pools EXCEPT ![p] = [pools[p] EXCEPT !.broken = TRUE]]
  BY DEF WorkerDies
<1>4. pools' \in Seq(Pool) /\ DOMAIN pools' = DOMAIN pools
  BY <1>1, <1>2, <1>3, PoolChanged
<1>5. task' \in [Calls -> Task]
  <2>1. \A d \in Calls : task[d] \in Task /\ [task[d] EXCEPT !.state = "lost"] \in Task
    BY TaskMoved DEF OcrTypeOK
  <2> QED BY <2>1 DEF WorkerDies
<1> QED BY <1>4, <1>5 DEF OcrTypeOK, WorkerDies

LEMMA PoolStepTyped ==
    ASSUME OcrTypeOK,
           \/ \E c \in Calls : Take(c) \/ Finish(c)
           \/ \E p \in PoolIds : CancelPending(p)
    PROVE  OcrTypeOK'
<1>1. \A d \in Calls : /\ task[d] \in Task
                       /\ [task[d] EXCEPT !.state = "taken"] \in Task
                       /\ [task[d] EXCEPT !.state = "done"] \in Task
                       /\ [task[d] EXCEPT !.state = "cancelled"] \in Task
  BY TaskMoved DEF OcrTypeOK
<1>2. task' \in [Calls -> Task]
  <2>1. ASSUME NEW c \in Calls, Take(c)
        PROVE  task' \in [Calls -> Task]
    BY <1>1, <2>1 DEF OcrTypeOK, Take
  <2>2. ASSUME NEW c \in Calls, Finish(c)
        PROVE  task' \in [Calls -> Task]
    BY <1>1, <2>2 DEF OcrTypeOK, Finish
  <2>3. ASSUME NEW p \in PoolIds, CancelPending(p)
        PROVE  task' \in [Calls -> Task]
    BY <1>1, <2>3 DEF CancelPending
  <2> QED BY <2>1, <2>2, <2>3
<1>3. UNCHANGED <<call, inflight, executor, pools>>
  BY DEF Take, Finish, CancelPending
<1> QED BY <1>2, <1>3 DEF OcrTypeOK

LEMMA OcrNextTyped == OcrTypeOK /\ [OcrNext]_ocrVars => OcrTypeOK'
<1> SUFFICES ASSUME OcrTypeOK, [OcrNext]_ocrVars PROVE OcrTypeOK'
  OBVIOUS
<1>1. ASSUME NEW c \in Calls, Start(c) PROVE OcrTypeOK'
  BY <1>1, StartTyped
<1>2. ASSUME NEW c \in Calls, StartOnBroken(c) PROVE OcrTypeOK'
  BY <1>2, StartOnBrokenTyped
<1>3. ASSUME NEW c \in Calls, Return(c) PROVE OcrTypeOK'
  BY <1>3, ReturnTyped
<1>4. ASSUME \/ \E c \in Calls : Take(c) \/ Finish(c)
             \/ \E p \in PoolIds : CancelPending(p)
      PROVE OcrTypeOK'
  BY <1>4, PoolStepTyped
<1>5. ASSUME NEW p \in PoolIds, WorkerDies(p) PROVE OcrTypeOK'
  BY <1>5, WorkerDiesTyped
<1>6. CASE UNCHANGED ocrVars
  BY <1>6 DEF OcrTypeOK, ocrVars
<1> QED BY <1>1, <1>2, <1>3, <1>4, <1>5, <1>6 DEF OcrNext

\* Calls, counter, pools and futures keep their types: the shared executor is
\* always one of the pools that were made, or none.
THEOREM OcrTypeCorrect == OcrSpec => []OcrTypeOK
  BY OcrInitTyped, OcrNextTyped, PTL DEF OcrSpec

-----------------------------------------------------------------------------
(* The counter.                                                            *)

LEMMA AwaitingFinite == IsFiniteSet(Awaiting)
<1>1. Awaiting \in SUBSET Calls
  BY DEF Awaiting
<1> QED BY <1>1, FS_Subset, OcrAssumption

\* A call that starts is one more, one that ends is one less: the count is at
\* least 1 then, so the clamp at zero takes nothing away.
LEMMA StartCounts ==
    ASSUME OcrTypeOK, InflightExact, NEW c \in Calls, Start(c)
    PROVE  InflightExact'
<1>1. Awaiting' = Awaiting \cup {c} /\ c \notin Awaiting
  BY DEF OcrTypeOK, Start, Awaiting
<1>2. Cardinality(Awaiting') = Cardinality(Awaiting) + 1
  BY <1>1, AwaitingFinite, FS_AddElement
<1> QED BY <1>2 DEF InflightExact, Awaiting, Start

LEMMA EndCounts ==
    ASSUME OcrTypeOK, InflightExact, NEW c \in Calls, NEW outcome \in Outcomes, NEW shuts,
           EndCall(c, outcome, shuts)
    PROVE  InflightExact'
<1>1. Awaiting' = Awaiting \ {c} /\ c \in Awaiting
  BY DEF OcrTypeOK, EndCall, Awaiting, Outcomes
<1>2. Cardinality(Awaiting') = Cardinality(Awaiting) - 1
  BY <1>1, AwaitingFinite, FS_RemoveElement
<1>3. Cardinality(Awaiting) \in Nat /\ Cardinality(Awaiting) # 0
  BY <1>1, AwaitingFinite, FS_CardinalityType, FS_EmptySet
<1>4. inflight = Cardinality(Awaiting)
  BY DEF InflightExact, Awaiting
<1>5. inflight' = inflight - 1
  BY <1>3, <1>4 DEF EndCall, Released, Last
<1> QED BY <1>2, <1>4, <1>5 DEF InflightExact, Awaiting

LEMMA NextCounts == OcrTypeOK /\ InflightExact /\ [OcrNext]_ocrVars => InflightExact'
<1> SUFFICES ASSUME OcrTypeOK, InflightExact, [OcrNext]_ocrVars PROVE InflightExact'
  OBVIOUS
<1>1. ASSUME NEW c \in Calls, Start(c) PROVE InflightExact'
  BY <1>1, StartCounts
<1>2. ASSUME NEW c \in Calls, Return(c) PROVE InflightExact'
  <2>1. \E outcome \in Outcomes, shuts \in BOOLEAN : EndCall(c, outcome, shuts)
    BY <1>2 DEF Return, Answer, TimeOut, Fail, Cancelled, Outcomes
  <2> QED BY <2>1, EndCounts
<1>3. ASSUME NEW c \in Calls, StartOnBroken(c) PROVE InflightExact'
  <2>1. inflight' = inflight /\ Awaiting' = Awaiting
    BY <1>3 DEF OcrTypeOK, StartOnBroken, Awaiting
  <2> QED BY <2>1 DEF InflightExact, Awaiting
<1>4. CASE UNCHANGED <<call, inflight>>
  BY <1>4 DEF InflightExact
<1> QED BY <1>1, <1>2, <1>3, <1>4
     DEF OcrNext, Take, Finish, CancelPending, WorkerDies, ocrVars

\* _inflight is the number of calls between their critical sections, whatever
\* order they end in and whatever becomes of the pool.
THEOREM InflightCounted == OcrSpec => []InflightExact
<1>1. OcrInit => InflightExact
  <2>1. OcrInit => Awaiting = {}
    BY DEF OcrInit, Awaiting
  <2> QED BY <2>1, FS_EmptySet DEF OcrInit, InflightExact, Awaiting
<1> QED BY <1>1, NextCounts, OcrTypeCorrect, PTL DEF OcrSpec

-----------------------------------------------------------------------------
(* The pools.                                                              *)

\* shutdown_executor leaves no pool that was not told to shut down.
LEMMA ShutDownShutsAll ==
    ASSUME OcrTypeOK, NoPoolLeaked
    PROVE  \A p \in DOMAIN ShutDown(pools) : ShutDown(pools)[p].shut
<1> SUFFICES ASSUME NEW p \in DOMAIN ShutDown(pools) PROVE ShutDown(pools)[p].shut
  OBVIOUS
<1>1. p \in DOMAIN pools
  BY ShutDownTyped
<1>2. CASE p # executor
  <2>1. pools[p].shut
    BY <1>1, <1>2 DEF NoPoolLeaked
  <2>2. ShutDown(pools)[p] = pools[p]
    BY <1>1, <1>2 DEF ShutDown, OcrTypeOK
  <2> QED BY <2>1, <2>2
<1>3. CASE p = executor
  <2>1. p # NoPool
    BY <1>1, OcrAssumption DEF OcrTypeOK
  <2>2. pools[p] \in Pool
    BY <1>1 DEF OcrTypeOK
  <2>3. ShutDown(pools)[p] = [pools[p] EXCEPT !.shut = TRUE]
    BY <1>1, <1>3, <2>1 DEF ShutDown, OcrTypeOK
  <2> QED BY <2>2, <2>3 DEF Pool
<1> QED BY <1>2, <1>3

LEMMA StartLeaksNothing ==
    ASSUME OcrTypeOK, NoPoolLeaked, NEW c \in Calls, Start(c)
    PROVE  NoPoolLeaked'
<1>1. inflight' # 0
  BY DEF OcrTypeOK, Start
<1>2. CASE executor = NoPool
  <2>1. /\ pools' = Append(pools, [shut |-> FALSE, broken |-> FALSE])
        /\ executor' = Len(pools) + 1
    BY <1>2 DEF Start
  <2>2. ASSUME NEW p \in DOMAIN pools', p # executor'
        PROVE  p \in DOMAIN pools /\ pools'[p] = pools[p]
    BY <2>1, <2>2 DEF OcrTypeOK
  <2>3. \A p \in DOMAIN pools : p # executor
    BY <1>2, OcrAssumption DEF OcrTypeOK
  <2> QED BY <1>1, <2>2, <2>3 DEF NoPoolLeaked
<1>3. CASE executor # NoPool
  BY <1>1, <1>3 DEF NoPoolLeaked, Start
<1> QED BY <1>2, <1>3

\* The last call to end shuts the pool down, and so does one whose worker
\* crashed: the next call makes another.
LEMMA EndLeaksNothing ==
    ASSUME OcrTypeOK, NoPoolLeaked, NEW c \in Calls, NEW outcome, NEW shuts \in BOOLEAN,
           EndCall(c, outcome, shuts)
    PROVE  NoPoolLeaked'
<1>1. CASE shuts \/ Last
  <2>1. pools' = ShutDown(pools) /\ executor' = NoPool
    BY <1>1 DEF EndCall
  <2> QED BY <2>1, ShutDownShutsAll DEF NoPoolLeaked
<1>2. CASE ~(shuts \/ Last)
  <2>1. UNCHANGED <<pools, executor>> /\ inflight' # 0
    BY <1>2 DEF EndCall, Released, Last, OcrTypeOK
  <2> QED BY <2>1 DEF NoPoolLeaked
<1> QED BY <1>1, <1>2

LEMMA WorkerDiesLeaksNothing ==
    ASSUME OcrTypeOK, NoPoolLeaked, NEW p \in PoolIds, WorkerDies(p)
    PROVE  NoPoolLeaked'
<1>1. pools \in Seq(Pool) /\ p \in DOMAIN pools
  BY DEF OcrTypeOK, WorkerDies
<1>2. pools[p] \in Pool
  BY <1>1
<1>3. pools' = [pools EXCEPT ![p] = [pools[p] EXCEPT !.broken = TRUE]]
  BY DEF WorkerDies
<1>4. [pools[p] EXCEPT !.broken = TRUE].shut = pools[p].shut
  BY <1>2 DEF Pool
<1>5. \A q \in DOMAIN pools : pools'[q].shut = pools[q].shut
  BY <1>1, <1>3, <1>4
<1>6. DOMAIN pools' = DOMAIN pools
  BY <1>3
<1> QED BY <1>5, <1>6 DEF WorkerDies, NoPoolLeaked

LEMMA NextLeaksNothing == OcrTypeOK /\ NoPoolLeaked /\ [OcrNext]_ocrVars => NoPoolLeaked'
<1> SUFFICES ASSUME OcrTypeOK, NoPoolLeaked, [OcrNext]_ocrVars PROVE NoPoolLeaked'
  OBVIOUS
<1>1. ASSUME NEW c \in Calls, Start(c) PROVE NoPoolLeaked'
  BY <1>1, StartLeaksNothing
<1>2. ASSUME NEW c \in Calls, StartOnBroken(c) PROVE NoPoolLeaked'
  BY <1>2, ShutDownShutsAll DEF StartOnBroken, NoPoolLeaked
<1>3. ASSUME NEW c \in Calls, Return(c) PROVE NoPoolLeaked'
  <2>1. \E outcome \in Outcomes, shuts \in BOOLEAN : EndCall(c, outcome, shuts)
    BY <1>3 DEF Return, Answer, TimeOut, Fail, Cancelled, Outcomes
  <2> QED BY <2>1, EndLeaksNothing
<1>4. ASSUME NEW p \in PoolIds, WorkerDies(p) PROVE NoPoolLeaked'
  BY <1>4, WorkerDiesLeaksNothing
<1>5. CASE UNCHANGED <<inflight, executor, pools>>
  BY <1>5 DEF NoPoolLeaked
<1> QED BY <1>1, <1>2, <1>3, <1>4, <1>5
     DEF OcrNext, Take, Finish, CancelPending, ocrVars

\* Every pool but the shared one has been told to shut down, and with no card
\* in flight there is no shared one: a timeout, a crash and a card that comes
\* while another ends leave no worker without an owner.
THEOREM PoolsShutDown == OcrSpec => []NoPoolLeaked
<1>1. OcrInit => NoPoolLeaked
  BY DEF OcrInit, NoPoolLeaked
<1> QED BY <1>1, NextLeaksNothing, OcrTypeCorrect, PTL DEF OcrSpec

-----------------------------------------------------------------------------
-----------------------------------------------------------------------------
(* Types.                                                                  *)

LEMMA SettingsInitTyped == SettingsInit => SettingsTypeOK
  BY SettingsAssumption DEF SettingsInit, SettingsTypeOK, Stored

LEMMA AgedTyped ==
    ASSUME NEW e \in Entry \cup {Absent}
    PROVE  Aged(e) \in Entry \cup {Absent}
  BY SettingsAssumption DEF Aged, Entry, Absent

LEMMA CachedTyped ==
    ASSUME NEW v \in Values
    PROVE  Cached(v) \in Entry /\ Cached(v) # Absent
  BY SettingsAssumption DEF Cached, Entry, Absent

LEMMA MissTyped ==
    ASSUME SettingsTypeOK, NEW q \in Requests, NEW k \in Keys, Miss(q, k), row[k] \in Values
    PROVE  SettingsTypeOK'
  BY DEF SettingsTypeOK, Miss, Waiting

LEMMA SetSettingTyped ==
    ASSUME SettingsTypeOK, NEW q \in Requests, NEW k \in Keys, NEW v \in Values, SetSetting(q, k, v)
    PROVE  SettingsTypeOK'
  BY DEF SettingsTypeOK, SetSetting, Invalidated, Waiting

\* A process that runs has seeded its rows: no read answers "none".
Seeded == up => \A k \in Keys : row[k] # "none"

LEMMA SeededValues ==
    ASSUME SettingsTypeOK, Seeded, up, NEW k \in Keys
    PROVE  row[k] \in Values
  BY DEF SettingsTypeOK, Seeded, Stored

LEMMA StepTyped ==
    ASSUME SettingsTypeOK, Seeded, NEW q \in Requests, Step(q)
    PROVE  SettingsTypeOK' /\ Seeded'
<1>1. "ocr_template" \in Keys /\ "moderation_lists" \in Keys
  BY DEF Keys
<1>2. ASSUME NEW k \in Keys, Miss(q, k)
      PROVE  SettingsTypeOK' /\ Seeded'
  <2>1. up
    BY <1>2 DEF Miss
  <2>2. SettingsTypeOK'
    BY <1>2, <2>1, SeededValues, MissTyped
  <2> QED BY <1>2, <2>2 DEF Miss, Seeded
<1>3. ASSUME NEW k \in Keys, NEW v \in Values, SetSetting(q, k, v)
      PROVE  SettingsTypeOK' /\ Seeded'
  BY <1>3, SetSettingTyped DEF SetSetting, Seeded
<1>4. CASE Fill(q)
  <2>1. request[q] \in Waiting
    BY <1>4 DEF SettingsTypeOK, Fill, Idle
  <2>2. Cached(request[q].value) \in Entry
    BY <2>1, CachedTyped DEF Waiting
  <2> QED BY <1>4, <2>1, <2>2 DEF SettingsTypeOK, Seeded, Fill
<1>5. CASE CommitSave(q)
  <2>1. request[q] \in Waiting
    BY <1>5 DEF SettingsTypeOK, CommitSave, Idle
  <2>2. request[q].value \in Values
    BY <2>1 DEF Waiting
  <2>3. row' \in [Keys -> Stored] /\ Seeded'
    BY <1>5, <2>2, SettingsAssumption DEF SettingsTypeOK, Seeded, CommitSave, Stored
  <2> QED BY <1>5, <2>3 DEF SettingsTypeOK, CommitSave
<1>6. CASE RollbackSave(q)
  BY <1>6 DEF SettingsTypeOK, Seeded, RollbackSave
<1> QED BY <1>1, <1>2, <1>3, <1>4, <1>5, <1>6
        DEF Step, LoadLists, OcrTemplate, SaveOcrSettings, SaveWordLists

LEMMA SettingsNextTyped ==
    ASSUME SettingsTypeOK, Seeded, [SettingsNext]_settingsVars
    PROVE  SettingsTypeOK' /\ Seeded'
<1>1. CASE StartServer
  <2>1. Cached(Seed) \in Entry
    BY CachedTyped, SettingsAssumption
  <2> QED BY <1>1, <2>1, SettingsAssumption DEF SettingsTypeOK, Seeded, StartServer, Stored
<1>2. CASE Stop
  BY <1>2 DEF SettingsTypeOK, Seeded, Stop
<1>3. CASE Tick
  BY <1>3, AgedTyped DEF SettingsTypeOK, Seeded, Tick
<1>4. ASSUME NEW q \in Requests, Step(q)
      PROVE  SettingsTypeOK' /\ Seeded'
  BY <1>4, StepTyped
<1>5. CASE UNCHANGED settingsVars
  BY <1>5 DEF SettingsTypeOK, Seeded, settingsVars
<1> QED BY <1>1, <1>2, <1>3, <1>4, <1>5 DEF SettingsNext

\* The settings, the cache and the waiting requests keep their types, whatever
\* the order of saves, reads and restarts (settings_store.py, admin.py).
THEOREM SettingsTypeCorrect == SettingsSpec => []SettingsTypeOK
<1>1. SettingsInit => SettingsTypeOK /\ Seeded
  BY SettingsInitTyped DEF SettingsInit, Seeded
<1>2. (SettingsTypeOK /\ Seeded) /\ [SettingsNext]_settingsVars => (SettingsTypeOK /\ Seeded)'
  BY SettingsNextTyped
<1> QED BY <1>1, <1>2, PTL DEF SettingsSpec

-----------------------------------------------------------------------------
(* What a read may return.                                                  *)

LEMMA StepOffers ==
    ASSUME SettingsTypeOK, Seeded, NEW q \in Requests, Step(q), NEW k \in Keys
    PROVE  Offered(k)' \subseteq Offered(k) \cup {row[k]'}
<1>1. ASSUME NEW j \in Keys, Miss(q, j)
      PROVE  Offered(k)' \subseteq Offered(k) \cup {row[k]'}
  BY <1>1 DEF SettingsTypeOK, Miss, Offered, Reads
<1>2. ASSUME NEW j \in Keys, NEW v \in Values, SetSetting(q, j, v)
      PROVE  Offered(k)' \subseteq Offered(k) \cup {row[k]'}
  BY <1>2 DEF SettingsTypeOK, SetSetting, Invalidated, Offered, Reads
<1>3. CASE Fill(q)
  BY <1>3 DEF SettingsTypeOK, Fill, Offered, Reads, Cached, Idle
<1>4. CASE CommitSave(q)
  BY <1>4 DEF SettingsTypeOK, CommitSave, Offered, Reads, Idle
<1>5. CASE RollbackSave(q)
  BY <1>5 DEF SettingsTypeOK, RollbackSave, Offered, Reads, Idle
<1> QED BY <1>1, <1>2, <1>3, <1>4, <1>5
        DEF Step, LoadLists, OcrTemplate, SaveOcrSettings, SaveWordLists, Keys

LEMMA NextOffers ==
    ASSUME SettingsTypeOK, Seeded, [SettingsNext]_settingsVars, NEW k \in Keys
    PROVE  Offered(k)' \subseteq Offered(k) \cup {row[k]'}
<1>1. CASE StartServer
  BY <1>1 DEF SettingsTypeOK, StartServer, Offered, Reads, Cached
<1>2. CASE Stop
  BY <1>2 DEF SettingsTypeOK, Stop, Offered, Reads, Idle
<1>3. CASE Tick
  BY <1>3 DEF SettingsTypeOK, Tick, Aged, Offered, Reads
<1>4. ASSUME NEW q \in Requests, Step(q)
      PROVE  Offered(k)' \subseteq Offered(k) \cup {row[k]'}
  BY <1>4, StepOffers
<1>5. CASE UNCHANGED settingsVars
  BY <1>5 DEF settingsVars, Offered, Reads
<1> QED BY <1>1, <1>2, <1>3, <1>4, <1>5 DEF SettingsNext

\* Either setting's step is one of the editable setting, or a stutter.
LEMMA TemplateStep ==
    ASSUME SettingsTypeOK, SettingsTypeOK', Seeded, [SettingsNext]_settingsVars
    PROVE  [Template!Next]_(Template!vars)
<1> DEFINE k == "ocr_template"
<1>1. Offered(k)' \subseteq Offered(k) \cup {row[k]'} /\ Offered(k)' # {}
  BY NextOffers DEF Keys, Offered
<1>2. row[k]' \in Stored
  BY DEF SettingsTypeOK, Keys
<1>3. Template!Offer
  BY <1>1 DEF Template!Offer
<1>4. Template!Edit
  BY <1>2, <1>3 DEF Template!Edit
<1> QED BY <1>4 DEF Template!Next

LEMMA ListsStep ==
    ASSUME SettingsTypeOK, SettingsTypeOK', Seeded, [SettingsNext]_settingsVars
    PROVE  [Lists!Next]_(Lists!vars)
<1> DEFINE k == "moderation_lists"
<1>1. Offered(k)' \subseteq Offered(k) \cup {row[k]'} /\ Offered(k)' # {}
  BY NextOffers DEF Keys, Offered
<1>2. row[k]' \in Stored
  BY DEF SettingsTypeOK, Keys
<1>3. Lists!Offer
  BY <1>1 DEF Lists!Offer
<1>4. Lists!Edit
  BY <1>2, <1>3 DEF Lists!Edit
<1> QED BY <1>4 DEF Lists!Next

LEMMA InitOffers ==
    ASSUME SettingsInit
    PROVE  Template!Init /\ Lists!Init
  BY DEF SettingsInit, Template!Init, Lists!Init, Offered, Reads, Stored, Keys, Idle, Absent

\* The settings implement the safe part of EditableSetting: what a read returns
\* was committed, and an old value does not come back (get_setting, set_setting
\* and the handlers of app/routers/admin.py, across restarts).
THEOREM SettingsImplementSafe == SettingsSpec => Template!Safe /\ Lists!Safe
<1>1. SettingsInit => SettingsTypeOK /\ Seeded
  BY SettingsInitTyped DEF SettingsInit, Seeded
<1>2. (SettingsTypeOK /\ Seeded) /\ [SettingsNext]_settingsVars => (SettingsTypeOK /\ Seeded)'
  BY SettingsNextTyped
<1>3. SettingsTypeOK /\ SettingsTypeOK' /\ Seeded /\ [SettingsNext]_settingsVars => [Template!Next]_(Template!vars)
  BY TemplateStep
<1>4. SettingsTypeOK /\ SettingsTypeOK' /\ Seeded /\ [SettingsNext]_settingsVars => [Lists!Next]_(Lists!vars)
  BY ListsStep
<1>5. SettingsInit => Template!Init /\ Lists!Init
  BY InitOffers
<1> QED BY <1>1, <1>2, <1>3, <1>4, <1>5, PTL DEF SettingsSpec, Template!Safe, Lists!Safe

-----------------------------------------------------------------------------
-----------------------------------------------------------------------------
(* The inductive invariant.  A pass shreds the files its rows named when it   *)
(* loaded them, so it has to be known what the files it may yet shred belong  *)
(* to: to records decided by then, and records stay decided.                 *)

Named(r) == {r.card, r.selfie} \ {None}

\* The file was given to the record.
Owns(i, f) == f \in Files /\ file[f].state # "unused" /\ file[f].rec = i

FinalIsDecided ==
    \A i \in DOMAIN rows : rows[i].status \in {"approved", "rejected"} => rows[i].decided

RowsOwnFiles == \A i \in DOMAIN rows : \A f \in Named(rows[i]) : Owns(i, f)

PassesOnDecided ==
    \A p \in Purgers : purge[p] # None =>
        \A i \in DOMAIN purge[p].loaded :
            /\ i \in DOMAIN rows /\ rows[i].decided
            /\ \A f \in Named(purge[p].loaded[i]) : Owns(i, f)

\* No row, pass or other request has the file.
Unshared(s, f) ==
    /\ \A i \in DOMAIN rows : f \notin Named(rows[i])
    /\ \A p \in Purgers : purge[p] # None =>
           \A i \in DOMAIN purge[p].loaded : f \notin Named(purge[p].loaded[i])
    /\ \A t \in Handlers \ {s} : handler[t] # None => handler[t].file # f

\* What a request that has saved a file still holds of it.
Holds(s) ==
    /\ handler[s].op # "card" => RecordOf(s) \in DOMAIN rows
    /\ handler[s].op \notin {"card", "selfie"} => handler[s].file = None
    /\ handler[s].op \in {"card", "selfie"} =>
           /\ Owns(0, handler[s].file)
           /\ OnDisk(handler[s].file)
           /\ Unshared(s, handler[s].file)

RequestsHold == \A s \in Handlers : handler[s] # None => Holds(s)

RetentionInv ==
    /\ RetentionTypeOK
    /\ FinalIsDecided
    /\ RowsOwnFiles
    /\ PassesOnDecided
    /\ RequestsHold
    /\ UndecidedImagesKept

\* The requests that stay open are as they were.
Closing == \A t \in Handlers : handler'[t] \in {handler[t], None}

-----------------------------------------------------------------------------
(* Types of what the actions put together.                                 *)

\* One row changes.
LEMMA RowChanged ==
    ASSUME RetentionTypeOK, NEW i \in DOMAIN rows, NEW r \in Row, rows' = [rows EXCEPT ![i] = r]
    PROVE  /\ rows' \in Seq(Row) /\ Len(rows') = Len(rows) /\ DOMAIN rows' = DOMAIN rows
           /\ rows'[i] = r
           /\ \A j \in DOMAIN rows : j # i => rows'[j] = rows[j]
  BY DEF RetentionTypeOK

\* A row is added.
LEMMA RowAdded ==
    ASSUME RetentionTypeOK, NEW r \in Row, rows' = Append(rows, r), Len(rows) < MaxRecords
    PROVE  /\ rows' \in Seq(Row) /\ Len(rows') <= MaxRecords
           /\ DOMAIN rows' = DOMAIN rows \cup {Len(rows) + 1}
           /\ Len(rows) + 1 \notin DOMAIN rows
           /\ rows'[Len(rows) + 1] = r
           /\ \A j \in DOMAIN rows : rows'[j] = rows[j]
  BY RetentionAssumption DEF RetentionTypeOK

LEMMA RowTyped ==
    ASSUME RetentionTypeOK, NEW i \in DOMAIN rows
    PROVE  rows[i] \in Row
  BY DEF RetentionTypeOK

\* What a session or a pass loads.
LEMMA LoadedTyped ==
    ASSUME RetentionTypeOK, NEW ids \in SUBSET DOMAIN rows
    PROVE  [i \in ids |-> rows[i]] \in Loaded
<1>1. ids \in SUBSET Ids
  BY RetentionAssumption DEF RetentionTypeOK, Ids
<1>2. [i \in ids |-> rows[i]] \in [ids -> Row]
  BY RowTyped
<1> QED BY <1>1, <1>2 DEF Loaded

LEMMA ReadRow ==
    ASSUME NEW loaded \in Loaded, NEW i \in DOMAIN loaded
    PROVE  loaded[i] \in Row
  BY DEF Loaded

\* A request that a step leaves alone holds what it held, if its file is left
\* alone too and named by nobody else.
LEMMA HoldsOn ==
    ASSUME NEW t \in Handlers, Holds(t), handler'[t] = handler[t], DOMAIN rows \subseteq DOMAIN rows',
           handler[t].op \in {"card", "selfie"} =>
               /\ file'[handler[t].file] = file[handler[t].file]
               /\ Unshared(t, handler[t].file)'
    PROVE  Holds(t)'
<1>1. RecordOf(t)' = RecordOf(t)
  BY DEF RecordOf
<1>2. CASE handler[t].op \in {"card", "selfie"}
  BY <1>1, <1>2 DEF Holds, Owns, OnDisk
<1>3. CASE handler[t].op \notin {"card", "selfie"}
  BY <1>1, <1>3 DEF Holds
<1> QED BY <1>2, <1>3

-----------------------------------------------------------------------------
(* Steps that touch no file.                                               *)

\* One row changes and keeps its paths; a decision is not taken back.
LEMMA RowReviewed ==
    ASSUME RetentionInv, NEW i \in DOMAIN rows, NEW r \in Row, rows' = [rows EXCEPT ![i] = r],
           r.card = rows[i].card, r.selfie = rows[i].selfie,
           rows[i].decided => r.decided,
           r.status \in {"approved", "rejected"} => r.decided,
           UNCHANGED <<file, purge>>,
           handler' \in [Handlers -> Handler \cup {None}], Closing
    PROVE  RetentionInv'
<1>1. /\ rows' \in Seq(Row) /\ Len(rows') = Len(rows) /\ DOMAIN rows' = DOMAIN rows
      /\ rows'[i] = r
      /\ \A j \in DOMAIN rows : j # i => rows'[j] = rows[j]
  BY RowChanged DEF RetentionInv
<1>2. \A j \in DOMAIN rows : Named(rows'[j]) = Named(rows[j])
  BY <1>1 DEF Named
<1>3. RetentionTypeOK'
  BY <1>1 DEF RetentionInv, RetentionTypeOK
<1>4. FinalIsDecided'
  BY <1>1 DEF RetentionInv, FinalIsDecided
<1>5. RowsOwnFiles'
  BY <1>1, <1>2 DEF RetentionInv, RowsOwnFiles, Owns
<1>6. PassesOnDecided'
  BY <1>1 DEF RetentionInv, PassesOnDecided, Owns
<1>7. RequestsHold'
  <2> SUFFICES ASSUME NEW t \in Handlers, handler'[t] # None PROVE Holds(t)'
    BY DEF RequestsHold
  <2>1. handler'[t] = handler[t] /\ Holds(t)
    BY DEF RetentionInv, RequestsHold, Closing
  <2>2. ASSUME handler[t].op \in {"card", "selfie"}
        PROVE  Unshared(t, handler[t].file)'
    <3>1. Unshared(t, handler[t].file)
      BY <2>1, <2>2 DEF Holds
    <3> QED BY <1>1, <1>2, <2>1, <3>1 DEF Unshared, Closing
  <2> QED BY <1>1, <2>1, <2>2, HoldsOn
<1>8. UndecidedImagesKept'
  BY <1>1 DEF RetentionInv, UndecidedImagesKept, OnDisk
<1> QED BY <1>3, <1>4, <1>5, <1>6, <1>7, <1>8 DEF RetentionInv

\* Nothing but requests, some of which end.
LEMMA RequestsClose ==
    ASSUME RetentionInv, UNCHANGED <<rows, file>>, Closing,
           handler' \in [Handlers -> Handler \cup {None}],
           purge' \in [Purgers -> Purge \cup {None}],
           \A p \in Purgers : purge'[p] \in {purge[p], None}
    PROVE  RetentionInv'
<1>1. RetentionTypeOK' /\ FinalIsDecided' /\ RowsOwnFiles' /\ UndecidedImagesKept'
  BY DEF RetentionInv, RetentionTypeOK, FinalIsDecided, RowsOwnFiles, Owns, UndecidedImagesKept, OnDisk
<1>2. PassesOnDecided'
  BY DEF RetentionInv, PassesOnDecided, Owns
<1>3. RequestsHold'
  <2> SUFFICES ASSUME NEW t \in Handlers, handler'[t] # None PROVE Holds(t)'
    BY DEF RequestsHold
  <2>1. handler'[t] = handler[t] /\ Holds(t)
    BY DEF RetentionInv, RequestsHold, Closing
  <2>2. ASSUME handler[t].op \in {"card", "selfie"}
        PROVE  Unshared(t, handler[t].file)'
    <3>1. Unshared(t, handler[t].file)
      BY <2>1, <2>2 DEF Holds
    <3> QED BY <2>1, <3>1 DEF Unshared, Closing
  <2> QED BY <2>1, <2>2, HoldsOn
<1> QED BY <1>1, <1>2, <1>3 DEF RetentionInv

LEMMA CloseTyped ==
    ASSUME RetentionTypeOK, NEW s \in Handlers, CloseHandler(s)
    PROVE  /\ handler' \in [Handlers -> Handler \cup {None}] /\ Closing
           /\ handler'[s] = None
           /\ \A t \in Handlers \ {s} : handler'[t] = handler[t]
  BY DEF RetentionTypeOK, CloseHandler, Closing

LEMMA ReviewStep ==
    ASSUME RetentionInv, NEW s \in Handlers, CommitDispute(s) \/ CommitApprove(s) \/ CommitReject(s)
    PROVE  RetentionInv'
<1> DEFINE i == RecordOf(s)
<1>1. i \in DOMAIN rows
  BY DEF RetentionInv, RequestsHold, Holds, CommitDispute, CommitApprove, CommitReject, Running
<1>2. rows[i] \in Row
  BY <1>1, RowTyped DEF RetentionInv
<1>3. rows[i].status \in {"approved", "rejected"} => rows[i].decided
  BY <1>1 DEF RetentionInv, FinalIsDecided
<1>4. /\ UNCHANGED <<file, purge>>
      /\ handler' \in [Handlers -> Handler \cup {None}] /\ Closing
  BY CloseTyped DEF RetentionInv, CommitDispute, CommitApprove, CommitReject
<1>5. CASE CommitDispute(s)
  <2> DEFINE r == [rows[i] EXCEPT !.status = Flushed(RowOf(s).status, "in_review", @)]
  <2>1. r \in Row
    BY <1>2 DEF Row, Flushed
  <2>2. rows' = [rows EXCEPT ![i] = r]
    BY <1>5 DEF CommitDispute
  <2>3. /\ r.card = rows[i].card /\ r.selfie = rows[i].selfie /\ r.decided = rows[i].decided
        /\ r.status \in {"approved", "rejected"} => r.decided
    BY <1>2, <1>3 DEF Row, Flushed
  <2> HIDE DEF r, i
  <2> QED BY <1>1, <1>4, <2>1, <2>2, <2>3, RowReviewed
<1>6. CASE CommitApprove(s)
  <2> DEFINE r == [rows[i] EXCEPT !.status = Flushed(RowOf(s).status, "approved", @),
                                    !.decided = TRUE, !.deadline = "ahead"]
  <2>1. r \in Row
    BY <1>2 DEF Row, Flushed
  <2>2. rows' = [rows EXCEPT ![i] = r]
    BY <1>1, <1>2, <1>6 DEF CommitApprove, Row
  <2>3. r.card = rows[i].card /\ r.selfie = rows[i].selfie /\ r.decided
    BY <1>2 DEF Row
  <2> HIDE DEF r, i
  <2> QED BY <1>1, <1>4, <2>1, <2>2, <2>3, RowReviewed
<1>7. CASE CommitReject(s)
  <2> DEFINE r == [rows[i] EXCEPT !.status = Flushed(RowOf(s).status, "rejected", @),
                                    !.decided = TRUE]
  <2>1. r \in Row
    BY <1>2 DEF Row, Flushed
  <2>2. rows' = [rows EXCEPT ![i] = r]
    BY <1>1, <1>2, <1>7 DEF CommitReject, Row
  <2>3. r.card = rows[i].card /\ r.selfie = rows[i].selfie /\ r.decided
    BY <1>2 DEF Row
  <2> HIDE DEF r, i
  <2> QED BY <1>1, <1>4, <2>1, <2>2, <2>3, RowReviewed
<1> QED BY <1>5, <1>6, <1>7

LEMMA DeadlineStep ==
    ASSUME RetentionInv, NEW i \in Ids, DeadlinePasses(i)
    PROVE  RetentionInv'
<1> DEFINE r == [rows[i] EXCEPT !.deadline = "reached"]
<1>1. i \in DOMAIN rows
  BY DEF DeadlinePasses
<1>2. rows[i] \in Row
  BY <1>1, RowTyped DEF RetentionInv
<1>3. r \in Row
  BY <1>2 DEF Row
<1>4. rows' = [rows EXCEPT ![i] = r] /\ UNCHANGED <<file, handler, purge>>
  BY DEF DeadlinePasses
<1>5. /\ r.card = rows[i].card /\ r.selfie = rows[i].selfie /\ r.decided = rows[i].decided
      /\ r.status = rows[i].status
  BY <1>2 DEF Row
<1>6. rows[i].status \in {"approved", "rejected"} => rows[i].decided
  BY <1>1 DEF RetentionInv, FinalIsDecided
<1>7. handler' \in [Handlers -> Handler \cup {None}] /\ Closing
  BY <1>4 DEF RetentionInv, RetentionTypeOK, Closing
<1> HIDE DEF r
<1> QED BY <1>1, <1>3, <1>4, <1>5, <1>6, <1>7, RowReviewed

LEMMA OpenTyped ==
    ASSUME RetentionTypeOK, NEW s \in Handlers, NEW op \in {"card", "selfie", "dispute", "review"},
           NEW ids \in SUBSET DOMAIN rows, NEW f \in Path, OpenHandler(s, op, ids, f)
    PROVE  /\ handler' \in [Handlers -> Handler \cup {None}]
           /\ handler[s] = None
           /\ handler'[s].op = op /\ handler'[s].file = f /\ DOMAIN handler'[s].loaded = ids
           /\ \A t \in Handlers \ {s} : handler'[t] = handler[t]
<1> DEFINE new == [op |-> op, loaded |-> [i \in ids |-> rows[i]], file |-> f]
<1>1. new \in Handler
  BY LoadedTyped DEF Handler
<1>2. handler' = [handler EXCEPT ![s] = new]
  BY DEF OpenHandler
<1> QED BY <1>1, <1>2 DEF RetentionTypeOK, OpenHandler

\* A request on one record opens: nothing is written.
LEMMA OpenStep ==
    ASSUME RetentionInv, NEW s \in Handlers, NEW i \in DOMAIN rows, NEW op \in {"dispute", "review"},
           OpenHandler(s, op, {i}, None), UNCHANGED <<rows, file, purge>>
    PROVE  RetentionInv'
<1>1. /\ handler' \in [Handlers -> Handler \cup {None}]
      /\ handler[s] = None
      /\ handler'[s].op = op /\ handler'[s].file = None /\ DOMAIN handler'[s].loaded = {i}
      /\ \A t \in Handlers \ {s} : handler'[t] = handler[t]
  <2>1. PICK ids : ids = {i}
    OBVIOUS
  <2>2. /\ ids \in SUBSET DOMAIN rows /\ None \in Path /\ RetentionTypeOK
        /\ op \in {"card", "selfie", "dispute", "review"}
        /\ OpenHandler(s, op, ids, None)
    BY <2>1 DEF RetentionInv, Path
  <2> QED BY <2>1, <2>2, OpenTyped
<1>2. /\ RetentionTypeOK' /\ FinalIsDecided' /\ RowsOwnFiles' /\ PassesOnDecided'
      /\ UndecidedImagesKept'
  BY <1>1 DEF RetentionInv, RetentionTypeOK, FinalIsDecided, RowsOwnFiles, Owns, PassesOnDecided,
              UndecidedImagesKept, OnDisk
<1>3. Holds(s)'
  BY <1>1 DEF Holds, RecordOf
<1>4. ASSUME NEW t \in Handlers \ {s}, handler'[t] # None
      PROVE  Holds(t)'
  <2>1. handler'[t] = handler[t] /\ Holds(t)
    BY <1>1, <1>4 DEF RetentionInv, RequestsHold
  <2>2. ASSUME handler[t].op \in {"card", "selfie"}
        PROVE  Unshared(t, handler[t].file)'
    <3>1. Unshared(t, handler[t].file) /\ handler[t].file # None
      BY <2>1, <2>2, RetentionAssumption DEF Holds, Owns
    <3> QED BY <1>1, <2>1, <3>1 DEF Unshared
  <2> QED BY <2>1, <2>2, HoldsOn
<1> QED BY <1>2, <1>3, <1>4 DEF RetentionInv, RequestsHold

-----------------------------------------------------------------------------
(* Steps that save a file, or give a saved one to a row.                    *)

\* The name is new: nothing refers to it.
LEMMA SaveFresh ==
    ASSUME RetentionTypeOK, Save
    PROVE  /\ NewFile \in Files /\ file[NewFile].state = "unused"
           /\ file' \in [Files -> File]
           /\ file'[NewFile] = [state |-> "on_disk", rec |-> 0]
           /\ \A f \in Files : f # NewFile => file'[f] = file[f]
<1>1. NewFile \in Files /\ file[NewFile].state = "unused"
  BY DEF Save, NewFile
<1>2. [state |-> "on_disk", rec |-> 0] \in File
  BY RetentionAssumption DEF File
<1> QED BY <1>1, <1>2 DEF RetentionTypeOK, Save

LEMMA SaveStep ==
    ASSUME RetentionInv, NEW s \in Handlers, NEW op \in {"card", "selfie"}, NEW i \in Nat,
           op = "selfie" => i \in DOMAIN rows,
           Save, OpenHandler(s, op, IF op = "card" THEN {} ELSE {i}, NewFile),
           UNCHANGED <<rows, purge>>
    PROVE  RetentionInv'
<1> DEFINE ids == IF op = "card" THEN {} ELSE {i}
<1>0. PICK n : n = NewFile
  OBVIOUS
<1>1. ids \in SUBSET DOMAIN rows
  OBVIOUS
<1>2. /\ n \in Files /\ file[n].state = "unused"
      /\ file' \in [Files -> File]
      /\ file'[n] = [state |-> "on_disk", rec |-> 0]
      /\ \A f \in Files : f # n => file'[f] = file[f]
  BY <1>0, SaveFresh DEF RetentionInv
<1>3. /\ handler' \in [Handlers -> Handler \cup {None}]
      /\ handler[s] = None
      /\ handler'[s].op = op /\ handler'[s].file = n /\ DOMAIN handler'[s].loaded = ids
      /\ \A t \in Handlers \ {s} : handler'[t] = handler[t]
  <2>1. n \in Path /\ RetentionTypeOK /\ OpenHandler(s, op, ids, n)
    BY <1>0, <1>2 DEF RetentionInv, Path
  <2> HIDE DEF ids
  <2> QED BY <1>1, <2>1, OpenTyped
<1> HIDE DEF ids
<1>4. \A j, f : Owns(j, f) => f # n /\ file'[f] = file[f] /\ Owns(j, f)'
  BY <1>2 DEF Owns
<1>5. RetentionTypeOK' /\ FinalIsDecided'
  BY <1>2, <1>3 DEF RetentionInv, RetentionTypeOK, FinalIsDecided
<1>6. RowsOwnFiles' /\ PassesOnDecided'
  BY <1>4 DEF RetentionInv, RowsOwnFiles, PassesOnDecided
<1>7. UndecidedImagesKept'
  <2> SUFFICES ASSUME NEW j \in DOMAIN rows, ~rows[j].decided, NEW f \in Named(rows[j])
               PROVE  OnDisk(f)'
    BY DEF UndecidedImagesKept, Named
  <2>1. OnDisk(f) /\ Owns(j, f)
    BY DEF RetentionInv, UndecidedImagesKept, RowsOwnFiles, Named
  <2> QED BY <2>1, <1>4 DEF OnDisk
<1>8. Unshared(s, n)'
  <2>1. \A j \in DOMAIN rows : n \notin Named(rows[j])
    BY <1>4 DEF RetentionInv, RowsOwnFiles
  <2>2. \A p \in Purgers : purge[p] # None =>
            \A j \in DOMAIN purge[p].loaded : n \notin Named(purge[p].loaded[j])
    BY <1>4 DEF RetentionInv, PassesOnDecided
  <2>3. ASSUME NEW t \in Handlers \ {s}, handler[t] # None
        PROVE  handler[t].file # n
    <3>1. Holds(t) /\ handler[t] \in Handler
      BY <2>3 DEF RetentionInv, RequestsHold, RetentionTypeOK
    <3>2. CASE handler[t].op \in {"card", "selfie"}
      BY <3>1, <3>2, <1>4 DEF Holds
    <3>3. CASE handler[t].op \notin {"card", "selfie"}
      BY <3>1, <3>3, <1>2, RetentionAssumption DEF Holds
    <3> QED BY <3>2, <3>3
  <2> QED BY <2>1, <2>2, <2>3, <1>3 DEF Unshared
<1>9. Holds(s)'
  <2>1. handler'[s].op = "selfie" => RecordOf(s)' = i
    BY <1>3 DEF RecordOf, ids
  <2>2. Owns(0, n)' /\ OnDisk(n)'
    BY <1>2 DEF Owns, OnDisk
  <2> QED BY <1>3, <1>8, <2>1, <2>2 DEF Holds
<1>10. ASSUME NEW t \in Handlers \ {s}, handler'[t] # None
       PROVE  Holds(t)'
  <2>1. handler'[t] = handler[t] /\ Holds(t)
    BY <1>3, <1>10 DEF RetentionInv, RequestsHold
  <2>2. ASSUME handler[t].op \in {"card", "selfie"}
        PROVE  /\ file'[handler[t].file] = file[handler[t].file]
               /\ Unshared(t, handler[t].file)'
    <3>1. Unshared(t, handler[t].file) /\ handler[t].file # n
      BY <2>1, <2>2, <1>4 DEF Holds
    <3>2. file'[handler[t].file] = file[handler[t].file]
      BY <2>1, <2>2, <1>4 DEF Holds
    <3> QED BY <1>3, <2>1, <3>1, <3>2 DEF Unshared
  <2> QED BY <2>1, <2>2, HoldsOn
<1> QED BY <1>5, <1>6, <1>7, <1>9, <1>10 DEF RetentionInv, RequestsHold

LEMMA StartStep ==
    ASSUME RetentionInv, NEW s \in Handlers,
           StartCard(s) \/ StartSelfie(s) \/ StartDispute(s) \/ StartReview(s)
    PROVE  RetentionInv'
<1>1. CASE StartCard(s)
  <2>1. Save /\ OpenHandler(s, "card", {}, NewFile) /\ UNCHANGED <<rows, purge>>
    BY <1>1 DEF StartCard
  <2> QED BY <2>1, SaveStep
<1>2. CASE StartSelfie(s)
  <2>1. PICK i \in DOMAIN rows : Save /\ OpenHandler(s, "selfie", {i}, NewFile)
    BY <1>2 DEF StartSelfie
  <2>2. i \in Nat /\ UNCHANGED <<rows, purge>>
    BY <1>2 DEF StartSelfie, RetentionInv, RetentionTypeOK
  <2> QED BY <2>1, <2>2, SaveStep
<1>3. CASE StartDispute(s)
  <2>1. PICK i \in DOMAIN rows : OpenHandler(s, "dispute", {i}, None)
    BY <1>3 DEF StartDispute
  <2> QED BY <1>3, <2>1, OpenStep DEF StartDispute
<1>4. CASE StartReview(s)
  <2>1. PICK i \in DOMAIN rows : OpenHandler(s, "review", {i}, None)
    BY <1>4 DEF StartReview
  <2> QED BY <1>4, <2>1, OpenStep DEF StartReview
<1> QED BY <1>1, <1>2, <1>3, <1>4

\* A record is committed with the card the request saved, or without images.
LEMMA RecordAdded ==
    ASSUME RetentionInv, NEW r \in Row, Len(rows) < MaxRecords, rows' = Append(rows, r),
           NEW n, n = Len(rows) + 1,
           r.status \in {"approved", "rejected"} => r.decided,
           r.selfie = None,
           file' \in [Files -> File],
           handler' \in [Handlers -> Handler \cup {None}], Closing,
           UNCHANGED purge,
           r.card # None =>
               /\ Owns(n, r.card)' /\ OnDisk(r.card)'
               /\ \A i \in DOMAIN rows : r.card \notin Named(rows[i])
               /\ \A p \in Purgers : purge[p] # None =>
                      \A i \in DOMAIN purge[p].loaded : r.card \notin Named(purge[p].loaded[i])
               /\ \A t \in Handlers : handler'[t] # None => handler'[t].file # r.card,
           \A f \in Files : f # r.card => file'[f] = file[f]
    PROVE  RetentionInv'
<1>1. /\ rows' \in Seq(Row) /\ Len(rows') <= MaxRecords
      /\ DOMAIN rows' = DOMAIN rows \cup {n}
      /\ n \notin DOMAIN rows
      /\ rows'[n] = r
      /\ \A j \in DOMAIN rows : rows'[j] = rows[j]
  BY RowAdded DEF RetentionInv
<1>2. Named(r) = {r.card} \ {None}
  BY DEF Named
<1>3. RetentionTypeOK'
  BY <1>1 DEF RetentionInv, RetentionTypeOK
<1>4. FinalIsDecided'
  BY <1>1 DEF RetentionInv, FinalIsDecided
<1>5. ASSUME NEW i, NEW f, Owns(i, f), f # r.card \/ r.card = None
      PROVE  Owns(i, f)' /\ file'[f] = file[f]
  BY <1>5, RetentionAssumption DEF Owns
<1>6. RowsOwnFiles'
  <2>1. ASSUME NEW j \in DOMAIN rows, NEW f \in Named(rows[j])
        PROVE  Owns(j, f)'
    BY <1>5, <2>1 DEF RetentionInv, RowsOwnFiles
  <2>2. ASSUME NEW f \in Named(r)
        PROVE  Owns(n, f)'
    BY <1>2, <2>2
  <2> QED BY <1>1, <2>1, <2>2 DEF RowsOwnFiles
<1>7. PassesOnDecided'
  <2> SUFFICES ASSUME NEW p \in Purgers, purge[p] # None, NEW i \in DOMAIN purge[p].loaded
               PROVE  /\ i \in DOMAIN rows' /\ rows'[i].decided
                      /\ \A f \in Named(purge[p].loaded[i]) : Owns(i, f)'
    BY DEF PassesOnDecided
  <2>1. /\ i \in DOMAIN rows /\ rows[i].decided
        /\ \A f \in Named(purge[p].loaded[i]) : Owns(i, f)
    BY DEF RetentionInv, PassesOnDecided
  <2>2. ASSUME NEW f \in Named(purge[p].loaded[i])
        PROVE  Owns(i, f)'
    BY <1>5, <2>1, <2>2
  <2> QED BY <1>1, <2>1, <2>2
<1>8. RequestsHold'
  <2> SUFFICES ASSUME NEW t \in Handlers, handler'[t] # None PROVE Holds(t)'
    BY DEF RequestsHold
  <2>1. handler'[t] = handler[t] /\ Holds(t)
    BY DEF RetentionInv, RequestsHold, Closing
  <2>2. ASSUME handler[t].op \in {"card", "selfie"}
        PROVE  /\ file'[handler[t].file] = file[handler[t].file]
               /\ Unshared(t, handler[t].file)'
    <3>1. Unshared(t, handler[t].file) /\ handler[t].file \in Files
      BY <2>1, <2>2 DEF Holds, Owns
    <3>2. handler[t].file # r.card
      BY <2>1, <3>1, RetentionAssumption
    <3>3. file'[handler[t].file] = file[handler[t].file]
      BY <3>1, <3>2
    <3>4. handler[t].file \notin Named(r)
      BY <1>2, <3>2
    <3>5. \A i \in DOMAIN rows' : handler[t].file \notin Named(rows'[i])
      BY <1>1, <3>1, <3>4 DEF Unshared
    <3>6. Unshared(t, handler[t].file)'
      BY <2>1, <3>1, <3>5 DEF Unshared, Closing, Named
    <3> QED BY <3>3, <3>6
  <2> QED BY <1>1, <2>1, <2>2, HoldsOn
<1>9. UndecidedImagesKept'
  <2>1. ASSUME NEW j \in DOMAIN rows, ~rows[j].decided, NEW f \in Named(rows[j])
        PROVE  OnDisk(f)'
    <3>1. OnDisk(f) /\ Owns(j, f)
      BY <2>1 DEF RetentionInv, UndecidedImagesKept, RowsOwnFiles, Named
    <3>2. f # r.card \/ r.card = None
      BY <2>1
    <3> QED BY <1>5, <3>1, <3>2 DEF OnDisk
  <2>2. \A f \in Named(r) : OnDisk(f)'
    BY <1>2
  <2> QED BY <1>1, <2>1, <2>2 DEF UndecidedImagesKept, Named
<1> QED BY <1>3, <1>4, <1>6, <1>7, <1>8, <1>9 DEF RetentionInv

LEMMA CommitCardStep ==
    ASSUME RetentionInv, NEW s \in Handlers, CommitCard(s)
    PROVE  RetentionInv'
<1>1. PICK status \in {"needs_selfie", "rejected"} :
          rows' = Append(rows, [status |-> status, decided |-> status = "rejected",
                                card |-> handler[s].file, selfie |-> None,
                                deadline |-> "ahead", purged |-> FALSE])
  BY DEF CommitCard
<1>2. PICK r : r = [status |-> status, decided |-> status = "rejected",
                        card |-> handler[s].file, selfie |-> None,
                        deadline |-> "ahead", purged |-> FALSE]
  OBVIOUS
<1>3. PICK f : f = handler[s].file
  OBVIOUS
<1>4. /\ f \in Files /\ OnDisk(f) /\ file[f].rec = 0 /\ file[f].state # "unused"
      /\ Unshared(s, f)
  BY <1>3 DEF RetentionInv, RequestsHold, Holds, Owns, CommitCard, Running
<1>5. r \in Row /\ r.card = f /\ r.selfie = None
  BY <1>2, <1>3, <1>4 DEF Row, Path
<1>6. r.status \in {"approved", "rejected"} => r.decided
  BY <1>2
<1>7. Len(rows) < MaxRecords /\ rows' = Append(rows, r) /\ UNCHANGED purge
  BY <1>1, <1>2 DEF CommitCard
<1>8. /\ file' \in [Files -> File]
      /\ file'[f].state = "on_disk" /\ file'[f].rec = Len(rows) + 1
      /\ \A g \in Files : g # f => file'[g] = file[g]
  <2>1. file[f] \in File /\ Len(rows) + 1 \in 0..MaxRecords
    BY <1>4, <1>7, RetentionAssumption DEF RetentionInv, RetentionTypeOK
  <2>2. file' = [file EXCEPT ![f].rec = Len(rows) + 1]
    BY <1>3 DEF CommitCard
  <2>3. [file[f] EXCEPT !.rec = Len(rows) + 1] \in File
    BY <2>1 DEF File
  <2> QED BY <1>4, <2>1, <2>2, <2>3 DEF RetentionInv, RetentionTypeOK, OnDisk, File
<1>9. /\ handler' \in [Handlers -> Handler \cup {None}] /\ Closing
      /\ handler'[s] = None
      /\ \A t \in Handlers \ {s} : handler'[t] = handler[t]
  BY CloseTyped DEF RetentionInv, CommitCard
<1>10. \A t \in Handlers : handler'[t] # None => handler'[t].file # f
  BY <1>4, <1>9 DEF Unshared
<1>11. PICK n : n = Len(rows) + 1
  OBVIOUS
<1>12. Owns(n, f)' /\ OnDisk(f)'
  BY <1>4, <1>8, <1>11 DEF Owns, OnDisk
<1>13. /\ \A i \in DOMAIN rows : f \notin Named(rows[i])
       /\ \A p \in Purgers : purge[p] # None =>
              \A i \in DOMAIN purge[p].loaded : f \notin Named(purge[p].loaded[i])
  BY <1>4 DEF Unshared
<1> QED BY <1>5, <1>6, <1>7, <1>8, <1>9, <1>10, <1>11, <1>12, <1>13, RecordAdded

LEMMA ManualStep ==
    ASSUME RetentionInv, VerifyManually
    PROVE  RetentionInv'
<1>1. PICK r : r = [status |-> "approved", decided |-> TRUE, card |-> None,
                        selfie |-> None, deadline |-> "ahead", purged |-> FALSE]
  OBVIOUS
<1>2. r \in Row /\ r.card = None /\ r.selfie = None /\ r.decided
  BY <1>1 DEF Row, Path
<1>3. Len(rows) < MaxRecords /\ rows' = Append(rows, r) /\ UNCHANGED <<file, handler, purge>>
  BY <1>1 DEF VerifyManually
<1>4. file' \in [Files -> File] /\ handler' \in [Handlers -> Handler \cup {None}] /\ Closing
  BY <1>3 DEF RetentionInv, RetentionTypeOK, Closing
<1> QED BY <1>2, <1>3, <1>4, RecordAdded

\* The new selfie replaces the path of an earlier one, whose file stays.
LEMMA CommitSelfieStep ==
    ASSUME RetentionInv, NEW s \in Handlers, CommitSelfie(s)
    PROVE  RetentionInv'
<1>1. PICK i : i = RecordOf(s)
  OBVIOUS
<1>2. PICK f : f = handler[s].file
  OBVIOUS
<1>3. /\ i \in DOMAIN rows /\ f \in Files
      /\ file[f].rec = 0 /\ file[f].state # "unused" /\ OnDisk(f) /\ Unshared(s, f)
  BY <1>1, <1>2 DEF RetentionInv, RequestsHold, Holds, Owns, CommitSelfie, Running
<1>4. rows[i] \in Row
  BY <1>3, RowTyped DEF RetentionInv
<1>5. PICK r : r = [rows[i] EXCEPT !.selfie = f,
                                       !.status = Flushed(RowOf(s).status, "in_review", @)]
  OBVIOUS
<1>6. /\ r \in Row /\ r.selfie = f /\ r.card = rows[i].card /\ r.decided = rows[i].decided
      /\ r.status \in {rows[i].status, "in_review"}
  BY <1>3, <1>4, <1>5 DEF Row, Path, Flushed
<1>7. /\ rows' = [rows EXCEPT ![i] = r] /\ file' = [file EXCEPT ![f].rec = i]
      /\ UNCHANGED purge
  BY <1>1, <1>2, <1>3, <1>4, <1>5 DEF CommitSelfie, Row
<1>8. /\ rows' \in Seq(Row) /\ Len(rows') = Len(rows) /\ DOMAIN rows' = DOMAIN rows
      /\ rows'[i] = r
      /\ \A j \in DOMAIN rows : j # i => rows'[j] = rows[j]
  BY <1>3, <1>6, <1>7, RowChanged DEF RetentionInv
<1>9. /\ handler' \in [Handlers -> Handler \cup {None}] /\ Closing
      /\ handler'[s] = None
      /\ \A t \in Handlers \ {s} : handler'[t] = handler[t]
  BY CloseTyped DEF RetentionInv, CommitSelfie
<1>10. Named(r) \subseteq Named(rows[i]) \cup {f}
  BY <1>6 DEF Named
<1>11. /\ file' \in [Files -> File]
       /\ file'[f].state = "on_disk" /\ file'[f].rec = i
       /\ \A g \in Files : g # f => file'[g] = file[g]
  <2>1. file[f] \in File /\ i \in 0..MaxRecords
    BY <1>3, RetentionAssumption DEF RetentionInv, RetentionTypeOK
  <2>2. [file[f] EXCEPT !.rec = i] \in File
    BY <2>1 DEF File
  <2> QED BY <1>3, <1>7, <2>1, <2>2 DEF RetentionInv, RetentionTypeOK, OnDisk, File
<1>12. ASSUME NEW j \in DOMAIN rows, NEW g \in Named(rows[j])
       PROVE  g # f /\ file'[g] = file[g] /\ Owns(j, g)
  BY <1>3, <1>11, <1>12 DEF RetentionInv, RowsOwnFiles, Owns, Unshared
<1>13. RetentionTypeOK' /\ FinalIsDecided'
  BY <1>3, <1>6, <1>7, <1>8, <1>9, <1>11 DEF RetentionInv, RetentionTypeOK, FinalIsDecided
<1>14. RowsOwnFiles'
  <2>1. ASSUME NEW j \in DOMAIN rows, NEW g \in Named(rows[j])
        PROVE  Owns(j, g)'
    BY <1>12, <2>1 DEF Owns
  <2>2. Owns(i, f)'
    BY <1>3, <1>11 DEF Owns
  <2> QED BY <1>3, <1>8, <1>10, <2>1, <2>2 DEF RowsOwnFiles
<1>15. PassesOnDecided'
  <2>1. ASSUME NEW p \in Purgers, purge[p] # None, NEW j \in DOMAIN purge[p].loaded,
               NEW g \in Named(purge[p].loaded[j])
        PROVE  Owns(j, g)'
    <3>1. Owns(j, g) /\ g # f
      BY <1>3, <2>1 DEF RetentionInv, PassesOnDecided, Unshared
    <3> QED BY <1>11, <3>1 DEF Owns
  <2> QED BY <1>6, <1>7, <1>8, <2>1 DEF RetentionInv, PassesOnDecided
<1>16. RequestsHold'
  <2> SUFFICES ASSUME NEW t \in Handlers, handler'[t] # None PROVE Holds(t)'
    BY DEF RequestsHold
  <2>1. t # s /\ handler'[t] = handler[t] /\ Holds(t)
    BY <1>9 DEF RetentionInv, RequestsHold
  <2>2. ASSUME handler[t].op \in {"card", "selfie"}
        PROVE  /\ file'[handler[t].file] = file[handler[t].file]
               /\ Unshared(t, handler[t].file)'
    <3>1. Unshared(t, handler[t].file) /\ handler[t].file # f
      BY <1>3, <1>9, <2>1, <2>2 DEF Holds, Unshared
    <3>2. \A j \in DOMAIN rows' : handler[t].file \notin Named(rows'[j])
      BY <1>3, <1>8, <1>10, <3>1 DEF Unshared
    <3>3. file'[handler[t].file] = file[handler[t].file]
      BY <1>11, <2>1, <2>2, <3>1 DEF Holds, Owns
    <3> QED BY <1>7, <1>9, <2>1, <3>1, <3>2, <3>3 DEF Unshared, Closing
  <2> QED BY <1>7, <1>8, <2>1, <2>2, HoldsOn
<1>17. UndecidedImagesKept'
  <2>1. ASSUME NEW j \in DOMAIN rows, ~rows[j].decided, NEW g \in Named(rows[j])
        PROVE  OnDisk(g)'
    BY <1>12, <2>1 DEF RetentionInv, UndecidedImagesKept, Named, OnDisk
  <2>2. OnDisk(f)'
    BY <1>11 DEF OnDisk
  <2>3. \A j \in DOMAIN rows' : ~rows'[j].decided => \A g \in Named(rows'[j]) : OnDisk(g)'
    BY <1>3, <1>6, <1>8, <1>10, <2>1, <2>2
  <2> QED BY <2>3 DEF UndecidedImagesKept, Named
<1> QED BY <1>13, <1>14, <1>15, <1>16, <1>17 DEF RetentionInv

-----------------------------------------------------------------------------
(* The purge pass.                                                         *)

\* What the query selects has a final status, so somebody decided it.
LEMMA StartPurgeStep ==
    ASSUME RetentionInv, NEW p \in Purgers, StartPurge(p)
    PROVE  RetentionInv'
<1>1. PICK due : due = {i \in DOMAIN rows : Overdue(rows[i])}
  OBVIOUS
<1>2. PICK pass : pass = [phase |-> "loaded", loaded |-> [i \in due |-> rows[i]]]
  OBVIOUS
<1>3. purge' = [purge EXCEPT ![p] = pass] /\ UNCHANGED <<rows, file, handler>>
  BY <1>1, <1>2 DEF StartPurge
<1>4. pass \in Purge
  BY <1>1, <1>2, LoadedTyped DEF RetentionInv, Purge
<1>5. purge'[p] = pass /\ \A q \in Purgers \ {p} : purge'[q] = purge[q]
  BY <1>3 DEF RetentionInv, RetentionTypeOK
<1>6. /\ DOMAIN pass.loaded \subseteq DOMAIN rows
      /\ \A i \in DOMAIN pass.loaded : pass.loaded[i] = rows[i] /\ rows[i].decided
  BY <1>1, <1>2 DEF RetentionInv, FinalIsDecided, Overdue
<1>7. /\ RetentionTypeOK' /\ FinalIsDecided' /\ RowsOwnFiles' /\ UndecidedImagesKept'
  BY <1>3, <1>4 DEF RetentionInv, RetentionTypeOK, FinalIsDecided, RowsOwnFiles, Owns,
     UndecidedImagesKept, OnDisk
<1>8. PassesOnDecided'
  <2>1. ASSUME NEW i \in DOMAIN pass.loaded
        PROVE  /\ i \in DOMAIN rows /\ rows[i].decided
               /\ \A f \in Named(pass.loaded[i]) : Owns(i, f)
    BY <1>6, <2>1 DEF RetentionInv, RowsOwnFiles
  <2>2. ASSUME NEW q \in Purgers, purge'[q] # None, NEW i \in DOMAIN purge'[q].loaded
        PROVE  /\ i \in DOMAIN rows /\ rows[i].decided
               /\ \A f \in Named(purge'[q].loaded[i]) : Owns(i, f)
    <3>1. CASE q = p
      BY <1>5, <2>1, <2>2, <3>1
    <3>2. CASE q # p
      BY <1>5, <2>2, <3>2 DEF RetentionInv, PassesOnDecided
    <3> QED BY <3>1, <3>2
  <2> QED BY <1>3, <2>2 DEF PassesOnDecided, Owns
<1>9. RequestsHold'
  <2> SUFFICES ASSUME NEW t \in Handlers, handler[t] # None PROVE Holds(t)'
    BY <1>3 DEF RequestsHold
  <2>1. Holds(t)
    BY DEF RetentionInv, RequestsHold
  <2>2. ASSUME handler[t].op \in {"card", "selfie"}
        PROVE  Unshared(t, handler[t].file)'
    <3>1. Unshared(t, handler[t].file)
      BY <2>1, <2>2 DEF Holds
    <3>2. \A i \in DOMAIN pass.loaded : handler[t].file \notin Named(pass.loaded[i])
      BY <1>6, <3>1 DEF Unshared
    <3>3. \A q \in Purgers : purge'[q] # None =>
              \A i \in DOMAIN purge'[q].loaded : handler[t].file \notin Named(purge'[q].loaded[i])
      BY <1>5, <3>1, <3>2 DEF Unshared
    <3> QED BY <1>3, <3>1, <3>3 DEF Unshared
  <2> QED BY <1>3, <2>1, <2>2, HoldsOn
<1> QED BY <1>7, <1>8, <1>9 DEF RetentionInv

\* The files a pass shreds belong to decided records, and are no request's.
LEMMA ShredStep ==
    ASSUME RetentionInv, NEW p \in Purgers, Shred(p)
    PROVE  RetentionInv'
<1>1. purge[p] # None /\ UNCHANGED <<rows, handler>>
  BY DEF Shred
<1>2. PICK loaded : loaded = purge[p].loaded
  OBVIOUS
<1>3. PICK gone : /\ gone \subseteq PathsOf(loaded) \ {None}
                  /\ file' = [f \in Files |-> IF f \in gone
                                 THEN [file[f] EXCEPT !.state = "shredded"] ELSE file[f]]
  <2>1. PICK failed : file' = [f \in Files |->
            IF f \in {g \in PathsOf(loaded) \ {None} : OnDisk(g)} \ failed
            THEN [file[f] EXCEPT !.state = "shredded"] ELSE file[f]]
    BY <1>2, SMTT(30) DEF Shred
  <2> QED BY <2>1
<1>4. ASSUME NEW f \in gone
      PROVE  \E i \in DOMAIN loaded : f \in Named(loaded[i])
  BY <1>3, <1>4 DEF PathsOf, Named
<1>5. ASSUME NEW f \in Files
      PROVE  /\ file'[f] \in File /\ file'[f].rec = file[f].rec
             /\ file[f].state # "unused" => file'[f].state # "unused"
             /\ f \notin gone => file'[f] = file[f]
  BY <1>3, <1>5 DEF RetentionInv, RetentionTypeOK, File
<1>6. file' \in [Files -> File]
  BY <1>3, <1>5
<1>7. \A i, f : Owns(i, f) => Owns(i, f)'
  BY <1>5 DEF Owns
<1>8. /\ purge' \in [Purgers -> Purge \cup {None}]
      /\ \A q \in Purgers : purge'[q] # None =>
             purge[q] # None /\ purge'[q].loaded = purge[q].loaded
  <2>1. purge[p] \in Purge
    BY <1>1 DEF RetentionInv, RetentionTypeOK
  <2>2. [purge[p] EXCEPT !.phase = "shredded"] \in Purge
        /\ [purge[p] EXCEPT !.phase = "shredded"].loaded = purge[p].loaded
    BY <2>1 DEF Purge
  <2>3. purge' = [purge EXCEPT ![p] = [purge[p] EXCEPT !.phase = "shredded"]]
    BY DEF Shred
  <2> QED BY <1>1, <2>2, <2>3 DEF RetentionInv, RetentionTypeOK
<1>9. RetentionTypeOK' /\ FinalIsDecided'
  BY <1>1, <1>6, <1>8 DEF RetentionInv, RetentionTypeOK, FinalIsDecided
<1>10. RowsOwnFiles'
  BY <1>1, <1>7 DEF RetentionInv, RowsOwnFiles
<1>11. PassesOnDecided'
  <2> SUFFICES ASSUME NEW q \in Purgers, purge'[q] # None, NEW i \in DOMAIN purge'[q].loaded
               PROVE  /\ i \in DOMAIN rows /\ rows[i].decided
                      /\ \A f \in Named(purge'[q].loaded[i]) : Owns(i, f)'
    BY <1>1 DEF PassesOnDecided
  <2>1. purge[q] # None /\ purge'[q].loaded = purge[q].loaded
    BY <1>8
  <2>2. /\ i \in DOMAIN rows /\ rows[i].decided
        /\ \A f \in Named(purge[q].loaded[i]) : Owns(i, f)
    BY <2>1 DEF RetentionInv, PassesOnDecided
  <2> QED BY <1>7, <2>1, <2>2
<1>12. UndecidedImagesKept'
  <2> SUFFICES ASSUME NEW j \in DOMAIN rows, ~rows[j].decided, NEW f \in Named(rows[j])
               PROVE  OnDisk(f)'
    BY <1>1 DEF UndecidedImagesKept, Named
  <2>1. OnDisk(f) /\ Owns(j, f)
    BY DEF RetentionInv, UndecidedImagesKept, RowsOwnFiles, Named
  <2>2. f \notin gone
    <3>1. SUFFICES ASSUME f \in gone PROVE FALSE
      OBVIOUS
    <3>2. PICK i \in DOMAIN loaded : f \in Named(loaded[i])
      BY <1>4, <3>1
    <3>3. rows[i].decided /\ Owns(i, f)
      BY <1>1, <1>2, <3>2 DEF RetentionInv, PassesOnDecided
    <3> QED BY <2>1, <3>3 DEF Owns
  <2> QED BY <1>5, <2>1, <2>2 DEF Owns, OnDisk
<1>13. RequestsHold'
  <2> SUFFICES ASSUME NEW t \in Handlers, handler[t] # None PROVE Holds(t)'
    BY <1>1 DEF RequestsHold
  <2>1. Holds(t)
    BY DEF RetentionInv, RequestsHold
  <2>2. ASSUME handler[t].op \in {"card", "selfie"}
        PROVE  /\ file'[handler[t].file] = file[handler[t].file]
               /\ Unshared(t, handler[t].file)'
    <3>1. Unshared(t, handler[t].file) /\ handler[t].file \in Files
      BY <2>1, <2>2 DEF Holds, Owns
    <3>2. handler[t].file \notin gone
      BY <1>1, <1>2, <1>4, <3>1 DEF Unshared
    <3>3. \A q \in Purgers : purge'[q] # None =>
              \A i \in DOMAIN purge'[q].loaded : handler[t].file \notin Named(purge'[q].loaded[i])
      BY <1>8, <3>1 DEF Unshared
    <3> QED BY <1>1, <1>5, <3>1, <3>2, <3>3 DEF Unshared
  <2> QED BY <1>1, <2>1, <2>2, HoldsOn
<1> QED BY <1>9, <1>10, <1>11, <1>12, <1>13 DEF RetentionInv

\* Paths only go, and the mark and the paths are all that changes.
LEMMA PurgedRowTyped ==
    ASSUME NEW loaded \in Row, NEW r \in Row
    PROVE  /\ PurgedRow(loaded, r) \in Row
           /\ PurgedRow(loaded, r).status = r.status
           /\ PurgedRow(loaded, r).decided = r.decided
           /\ Named(PurgedRow(loaded, r)) \subseteq Named(r)
<1>1. /\ r.card \in Path /\ r.selfie \in Path /\ None \in Path
      /\ r.status \in {"needs_selfie", "in_review", "approved", "rejected"}
      /\ r.decided \in BOOLEAN /\ r.deadline \in {"ahead", "reached"}
  BY DEF Row, Path
<1>2. PICK card : card = Flushed(loaded.card, None, r.card)
  OBVIOUS
<1>3. PICK selfie : selfie = Flushed(loaded.selfie, None, r.selfie)
  OBVIOUS
<1>4. card \in {r.card, None} /\ selfie \in {r.selfie, None}
  BY <1>2, <1>3 DEF Flushed
<1>5. PurgedRow(loaded, r) = [r EXCEPT !.card = card, !.selfie = selfie, !.purged = TRUE]
  BY <1>2, <1>3 DEF PurgedRow, Row
<1>6. PurgedRow(loaded, r) = [status |-> r.status, decided |-> r.decided, card |-> card,
                                selfie |-> selfie, deadline |-> r.deadline, purged |-> TRUE]
  BY <1>5 DEF Row
<1> QED BY <1>1, <1>4, <1>6 DEF Row, Named

LEMMA CommitPurgeStep ==
    ASSUME RetentionInv, NEW p \in Purgers, CommitPurge(p)
    PROVE  RetentionInv'
<1>1. purge[p] # None /\ UNCHANGED <<file, handler>>
  BY DEF CommitPurge
<1>2. PICK loaded : loaded = purge[p].loaded
  OBVIOUS
<1>3. rows' = [i \in DOMAIN rows |->
                  IF i \in DOMAIN loaded THEN PurgedRow(loaded[i], rows[i]) ELSE rows[i]]
  BY <1>2 DEF CommitPurge
<1>4. loaded \in Loaded
  BY <1>1, <1>2 DEF RetentionInv, RetentionTypeOK, Purge
<1>5. ASSUME NEW i \in DOMAIN rows
      PROVE  /\ rows'[i] \in Row
             /\ rows'[i].status = rows[i].status /\ rows'[i].decided = rows[i].decided
             /\ Named(rows'[i]) \subseteq Named(rows[i])
  <2>1. rows[i] \in Row
    BY RowTyped DEF RetentionInv
  <2>2. CASE i \in DOMAIN loaded
    BY <1>3, <1>4, <2>1, <2>2, ReadRow, PurgedRowTyped
  <2>3. CASE i \notin DOMAIN loaded
    BY <1>3, <2>1, <2>3
  <2> QED BY <2>2, <2>3
<1>6. DOMAIN rows' = DOMAIN rows /\ rows' \in Seq(Row) /\ Len(rows') = Len(rows)
  <2>1. DOMAIN rows = 1..Len(rows) /\ Len(rows) \in Nat
    BY DEF RetentionInv, RetentionTypeOK
  <2>2. rows' \in [1..Len(rows) -> Row]
    BY <1>3, <1>5, <2>1
  <2> QED BY <2>1, <2>2
<1>7. /\ purge' \in [Purgers -> Purge \cup {None}]
      /\ \A q \in Purgers : purge'[q] \in {purge[q], None}
  BY DEF CommitPurge, RetentionInv, RetentionTypeOK
<1>8. RetentionTypeOK' /\ FinalIsDecided'
  BY <1>1, <1>5, <1>6, <1>7 DEF RetentionInv, RetentionTypeOK, FinalIsDecided
<1>9. RowsOwnFiles'
  BY <1>1, <1>5, <1>6 DEF RetentionInv, RowsOwnFiles, Owns
<1>10. PassesOnDecided'
  BY <1>1, <1>5, <1>6, <1>7 DEF RetentionInv, PassesOnDecided, Owns
<1>11. RequestsHold'
  <2> SUFFICES ASSUME NEW t \in Handlers, handler[t] # None PROVE Holds(t)'
    BY <1>1 DEF RequestsHold
  <2>1. Holds(t)
    BY DEF RetentionInv, RequestsHold
  <2>2. ASSUME handler[t].op \in {"card", "selfie"}
        PROVE  Unshared(t, handler[t].file)'
    <3>1. Unshared(t, handler[t].file)
      BY <2>1, <2>2 DEF Holds
    <3>2. \A i \in DOMAIN rows' : handler[t].file \notin Named(rows'[i])
      BY <1>5, <1>6, <3>1 DEF Unshared
    <3> QED BY <1>1, <1>7, <3>1, <3>2 DEF Unshared
  <2> QED BY <1>1, <1>6, <2>1, <2>2, HoldsOn
<1>12. UndecidedImagesKept'
  <2> SUFFICES ASSUME NEW j \in DOMAIN rows, ~rows[j].decided, NEW f \in Named(rows'[j])
               PROVE  OnDisk(f)'
    BY <1>5, <1>6 DEF UndecidedImagesKept, Named
  <2>1. f \in Named(rows[j])
    BY <1>5
  <2> QED BY <1>1, <2>1 DEF RetentionInv, UndecidedImagesKept, Named, OnDisk
<1> QED BY <1>8, <1>9, <1>10, <1>11, <1>12 DEF RetentionInv

LEMMA EndStep ==
    ASSUME RetentionInv, (\E s \in Handlers : RollbackHandler(s)) \/ Crash \/ UNCHANGED retentionVars
    PROVE  RetentionInv'
<1>1. UNCHANGED <<rows, file>>
  BY DEF RollbackHandler, Crash, retentionVars
<1>2. handler' \in [Handlers -> Handler \cup {None}] /\ Closing
  <2>1. ASSUME NEW s \in Handlers, RollbackHandler(s)
        PROVE  handler' \in [Handlers -> Handler \cup {None}] /\ Closing
    BY <2>1, CloseTyped DEF RollbackHandler, RetentionInv
  <2>2. CASE Crash \/ UNCHANGED retentionVars
    BY <2>2 DEF Crash, retentionVars, RetentionInv, RetentionTypeOK, Closing
  <2> QED BY <2>1, <2>2
<1>3. /\ purge' \in [Purgers -> Purge \cup {None}]
      /\ \A p \in Purgers : purge'[p] \in {purge[p], None}
  BY DEF RollbackHandler, Crash, retentionVars, RetentionInv, RetentionTypeOK
<1> QED BY <1>1, <1>2, <1>3, RequestsClose

-----------------------------------------------------------------------------
LEMMA InitHolds == RetentionInit => RetentionInv
<1> SUFFICES ASSUME RetentionInit PROVE RetentionInv
  OBVIOUS
<1>1. RetentionTypeOK
  BY RetentionAssumption DEF RetentionInit, RetentionTypeOK, File
<1> QED BY <1>1 DEF RetentionInit, RetentionInv, FinalIsDecided, RowsOwnFiles, PassesOnDecided,
                    RequestsHold, UndecidedImagesKept

LEMMA NextHolds == RetentionInv /\ [RetentionNext]_retentionVars => RetentionInv'
<1> SUFFICES ASSUME RetentionInv, [RetentionNext]_retentionVars PROVE RetentionInv'
  OBVIOUS
<1>1. CASE Requested
  <2>1. ASSUME NEW s \in Handlers,
               StartCard(s) \/ StartSelfie(s) \/ StartDispute(s) \/ StartReview(s)
        PROVE  RetentionInv'
    BY <2>1, StartStep
  <2>2. ASSUME NEW s \in Handlers, CommitCard(s) PROVE RetentionInv'
    BY <2>2, CommitCardStep
  <2>3. ASSUME NEW s \in Handlers, CommitSelfie(s) PROVE RetentionInv'
    BY <2>3, CommitSelfieStep
  <2>4. ASSUME NEW s \in Handlers, CommitDispute(s) \/ CommitApprove(s) \/ CommitReject(s)
        PROVE  RetentionInv'
    BY <2>4, ReviewStep
  <2>5. ASSUME NEW s \in Handlers, RollbackHandler(s) PROVE RetentionInv'
    BY <2>5, EndStep
  <2> QED BY <1>1, <2>1, <2>2, <2>3, <2>4, <2>5 DEF Requested
<1>2. CASE VerifyManually
  BY <1>2, ManualStep
<1>3. CASE Purging
  BY <1>3, StartPurgeStep, ShredStep, CommitPurgeStep DEF Purging, PurgeNow
<1>4. CASE Crash \/ UNCHANGED retentionVars
  BY <1>4, EndStep
<1>5. CASE \E i \in Ids : DeadlinePasses(i)
  BY <1>5, DeadlineStep
<1> QED BY <1>1, <1>2, <1>3, <1>4, <1>5 DEF RetentionNext

\* Rows, files, requests and passes keep their types.
THEOREM RetentionTypeCorrect == RetentionSpec => []RetentionTypeOK
<1>1. RetentionInv => RetentionTypeOK
  BY DEF RetentionInv
<1> QED BY <1>1, InitHolds, NextHolds, PTL DEF RetentionSpec

\* However uploads, decisions, purge passes and crashes interleave, and
\* whichever files resist, the images of a record that nobody has decided are
\* on the disk.
THEOREM UndecidedKept == RetentionSpec => []UndecidedImagesKept
<1>1. RetentionInv => UndecidedImagesKept
  BY DEF RetentionInv
<1> QED BY <1>1, InitHolds, NextHolds, PTL DEF RetentionSpec

-----------------------------------------------------------------------------
-----------------------------------------------------------------------------
(* The queue of reports.                                                    *)

Kinds == {"none", "moderator", "community"}
States == {"active", "removed", "deleted", "suspended"}
Down == {"removed", "suspended"}
Decided == {"upheld", "dismissed", "escalated"}

-----------------------------------------------------------------------------
(* The inductive invariant, of the tables d, what the sessions will write w,  *)
(* the votes to be counted g, the locks l and the votes that were cast k.     *)

(* Actions and appeals.  Whatever is down has an action that supports it: no  *)
(* appeal on it was upheld, and a request that will uphold one makes the       *)
(* target active again.                                                      *)

ActionsWritten(d, w) ==
    \A s \in Sessions : \A c \in w[s] :
        /\ c[1] = "action" =>
              /\ d["action"][c[2]] = NoAction /\ c[4] # NoAction
              /\ \A q \in Sessions \ {s} : \A e \in w[q] : ~(e[1] = "action" /\ e[2] = c[2])
        /\ c[1] = "state" /\ c[4] \in Down =>
              \E e \in w[s] : e[1] = "action" /\ e[4].target = c[2]
        /\ c[1] = "appeal" => d["action"][c[2][1]] # NoAction

NoAppeal(d) == \A p \in Appeals : d["appeal"][p] # "none" => d["action"][p[1]] # NoAction

Upholds(changes, a) == \E c \in changes : c[1] = "appeal" /\ c[2][1] = a /\ c[4] = "upheld"

Reactivates(changes, t) == \E c \in changes : c[1] = "state" /\ c[2] = t /\ c[4] = "active"

Supports(d, w, a, t) ==
    /\ d["action"][a].target = t
    /\ \A i \in {1, 2} : d["appeal"][<<a, i>>] # "upheld"
    /\ \A s \in Sessions : Upholds(w[s], a) => Reactivates(w[s], t)

Supported(d, w) ==
    \A t \in Targets : d["state"][t] \in Down => \E a \in Actions : Supports(d, w, a, t)

(* Votes.  Those in the table were cast, on a report that is no longer open;   *)
(* a request that has not counted yet writes its vote and in_review only, and  *)
(* one that will write in_review holds the row.                              *)

VotesHeld(d, k) ==
    \A r \in Reports, m \in Moderators :
        d["vote"][<<r, m>>] # "none" =>
            /\ m # Author /\ <<r, m, d["vote"][<<r, m>>]>> \in k
            /\ d["report"][r] \notin {"none", "open"}

ReportWritten(w, g, l, s, c) ==
    /\ c[4] # "none"
    /\ c[4] = "open" => c[3] = "none"
    /\ c[4] = "in_review" => s \in l \/ g[s] = c[2]

VoteWritten(d, w, s, c) ==
    /\ c[2][2] # Author /\ c[4] # "none"
    /\ d["report"][c[2][1]] # "none"
    /\ d["report"][c[2][1]] = "open" => \E e \in w[s] : e[1] = "report" /\ e[2] = c[2][1]
    /\ \A e \in w[s] : e[1] = "vote" => e[2] = c[2]

Uncounted(w, g, s) ==
    \A c \in w[s] :
        \/ c[1] = "vote" /\ c[2][1] = g[s]
        \/ c[1] = "report" /\ c[2] = g[s] /\ c[4] = "in_review"

SessionVotes(d, w, g, l, s) ==
    /\ \A c \in w[s] : c[1] = "report" => ReportWritten(w, g, l, s, c)
    /\ \A c \in w[s] : c[1] = "vote" => VoteWritten(d, w, s, c)
    /\ g[s] # "none" => w[s] # {} /\ s \notin l /\ Uncounted(w, g, s)

VotesWritten(d, w, g, l) == \A s \in Sessions : SessionVotes(d, w, g, l, s)

(* Verdicts of the community that are to be written, with the report's status. *)

Behind(r, v, k) == {m \in Moderators \ {Author} : <<r, m, v>> \in k}

BackedBy(r, outcome, k) ==
    outcome \in {"upheld", "dismissed"} /\ Cardinality(Behind(r, VoteFor(outcome), k)) >= CONSENSUS_REQUIRED

VerdictsWritten(w, k) ==
    \A s \in Sessions : \A c \in w[s] :
        c[1] = "kind" /\ c[4] = "community" =>
            \E e \in w[s] : e[1] = "report" /\ e[2] = c[2] /\ BackedBy(c[2], e[4], k \cup CastBy(w[s]))

(* Consensus.  Votes of one kind that are in the table or in sessions ss.      *)

Voting(w, s, r, m, v) == \E c \in w[s] : c[1] = "vote" /\ c[2] = <<r, m>> /\ c[4] = v

Pending(d, w, ss, r, v) ==
    {m \in Moderators : d["vote"][<<r, m>>] = v \/ \E s \in ss : Voting(w, s, r, m, v)}

Ruling(w, s, r) == \E c \in w[s] : c[1] = "report" /\ c[2] = r /\ c[4] \in Decided

Reopening(w, g, s, r) ==
    g[s] = "none" /\ \E c \in w[s] : c[1] = "report" /\ c[2] = r /\ c[4] = "in_review"

\* Sessions that have counted and will leave the report undecided.
Settled(w, g, r) == {s \in Sessions : g[s] = "none" /\ ~Ruling(w, s, r)}

Crowd(o) == CONSENSUS_REQUIRED + (IF o THEN Cardinality(Sessions) - 1 ELSE 0)

IsUndecided(d, r) == d["report"][r] \in {"open", "in_review"}

\* Session s has another vote for the member's row.
Revotes(w, s, r, m, v) == \E c \in w[s] : c[1] = "vote" /\ c[2] = <<r, m>> /\ c[4] # v

\* What session s leaves of votes v in the table, and all that sessions have.
Reopened(d, w, s, r, v) ==
    {m \in Moderators : \/ d["vote"][<<r, m>>] = v /\ ~Revotes(w, s, r, m, v)
                        \/ \E q \in Sessions : Voting(w, q, r, m, v)}

\* A decided report that a session is about to reopen will have few votes then.
Few(d, w, g, o) ==
    \A r \in Reports, v \in {"remove", "keep"} :
        /\ IsUndecided(d, r) => Cardinality(Pending(d, w, Settled(w, g, r), r, v)) < Crowd(o)
        /\ \A s \in Sessions : ~IsUndecided(d, r) /\ Reopening(w, g, s, r) =>
              Cardinality(Reopened(d, w, s, r, v)) < Crowd(o)

TypedInv ==
    /\ SessionsTyped /\ Alone /\ Single
    /\ db \in Tables
    /\ \A s \in Sessions : \A c \in session[s] : Typed(c, Tables)
    /\ overlapped \in BOOLEAN
    /\ voting \in [Sessions -> Reports \cup {"none"}]
    /\ locks \subseteq Open
    /\ cast \subseteq Reports \X Moderators \X Votes

IInv ==
    /\ TypedInv
    /\ ActionsWritten(db, session) /\ NoAppeal(db) /\ Supported(db, session)
    /\ VotesHeld(db, cast) /\ VotesWritten(db, session, voting, locks)
    /\ VerdictsWritten(session, cast)
    /\ Few(db, session, voting, overlapped)

-----------------------------------------------------------------------------
(* Tables with one value changed.                                          *)

Names == {"report", "kind", "vote", "penalty", "state", "action", "appeal"}

Kept(d, e, names) == \A t \in names : e[t] = d[t]

\* Row k of table t set to v.
Set(d, t, k, v) == [d EXCEPT ![t] = [d[t] EXCEPT ![k] = v]]

IsSet(d, e, t, k, v) ==
    /\ Kept(d, e, Names \ {t})
    /\ e[t] = [d[t] EXCEPT ![k] = v]
    /\ e[t][k] = v
    /\ \A j \in DOMAIN d[t] : j # k => e[t][j] = d[t][j]

LEMMA TableRows ==
    ASSUME NEW d \in Tables
    PROVE  /\ DOMAIN d = Names /\ d = [t \in DOMAIN d |-> d[t]]
           /\ DOMAIN d["report"] = Reports /\ d["report"] \in [Reports -> Statuses]
           /\ DOMAIN d["kind"] = Reports /\ d["kind"] \in [Reports -> Kinds]
           /\ DOMAIN d["vote"] = Reports \X Moderators /\ d["vote"] \in [Reports \X Moderators -> Votes]
           /\ DOMAIN d["penalty"] = Reports /\ d["penalty"] \in [Reports -> Int]
           /\ DOMAIN d["state"] = Targets /\ d["state"] \in [Targets -> States]
           /\ DOMAIN d["action"] = Actions /\ d["action"] \in [Actions -> Action]
           /\ DOMAIN d["appeal"] = Appeals /\ d["appeal"] \in [Appeals -> AppealStatuses]
  BY DEF Tables, Names, Kinds, States

LEMMA SetReport ==
    ASSUME NEW d \in Tables, NEW k \in Reports, NEW v \in Statuses
    PROVE  /\ [d EXCEPT !.report[k] = v] = Set(d, "report", k, v)
           /\ Set(d, "report", k, v) \in Tables
           /\ IsSet(d, Set(d, "report", k, v), "report", k, v)
<1>1. /\ DOMAIN d = Names /\ d = [t \in DOMAIN d |-> d[t]]
      /\ d["report"] \in [Reports -> Statuses]
  BY TableRows
<1>2. [d["report"] EXCEPT ![k] = v] \in [Reports -> Statuses]
  BY <1>1
<1>3. Set(d, "report", k, v) \in Tables
  BY <1>2 DEF Set, Tables, Kinds, States
<1>4. IsSet(d, Set(d, "report", k, v), "report", k, v)
  BY <1>1 DEF IsSet, Set, Kept, Names
<1>5. [d EXCEPT !.report[k] = v] = Set(d, "report", k, v)
  BY DEF Set
<1> QED BY <1>3, <1>4, <1>5

LEMMA SetKind ==
    ASSUME NEW d \in Tables, NEW k \in Reports, NEW v \in Kinds
    PROVE  /\ [d EXCEPT !.kind[k] = v] = Set(d, "kind", k, v)
           /\ Set(d, "kind", k, v) \in Tables
           /\ IsSet(d, Set(d, "kind", k, v), "kind", k, v)
<1>1. /\ DOMAIN d = Names /\ d = [t \in DOMAIN d |-> d[t]]
      /\ d["kind"] \in [Reports -> Kinds]
  BY TableRows
<1>2. [d["kind"] EXCEPT ![k] = v] \in [Reports -> Kinds]
  BY <1>1
<1>3. Set(d, "kind", k, v) \in Tables
  BY <1>2 DEF Set, Tables, Kinds, States
<1>4. IsSet(d, Set(d, "kind", k, v), "kind", k, v)
  BY <1>1 DEF IsSet, Set, Kept, Names
<1>5. [d EXCEPT !.kind[k] = v] = Set(d, "kind", k, v)
  BY DEF Set
<1> QED BY <1>3, <1>4, <1>5

LEMMA SetVote ==
    ASSUME NEW d \in Tables, NEW k \in Reports \X Moderators, NEW v \in Votes
    PROVE  /\ [d EXCEPT !.vote[k] = v] = Set(d, "vote", k, v)
           /\ Set(d, "vote", k, v) \in Tables
           /\ IsSet(d, Set(d, "vote", k, v), "vote", k, v)
<1>1. /\ DOMAIN d = Names /\ d = [t \in DOMAIN d |-> d[t]]
      /\ d["vote"] \in [Reports \X Moderators -> Votes]
  BY TableRows
<1>2. [d["vote"] EXCEPT ![k] = v] \in [Reports \X Moderators -> Votes]
  BY <1>1
<1>3. Set(d, "vote", k, v) \in Tables
  BY <1>2 DEF Set, Tables, Kinds, States
<1>4. IsSet(d, Set(d, "vote", k, v), "vote", k, v)
  BY <1>1 DEF IsSet, Set, Kept, Names
<1>5. [d EXCEPT !.vote[k] = v] = Set(d, "vote", k, v)
  BY DEF Set
<1> QED BY <1>3, <1>4, <1>5

LEMMA SetPenalty ==
    ASSUME NEW d \in Tables, NEW k \in Reports, NEW v \in Int
    PROVE  /\ [d EXCEPT !.penalty[k] = v] = Set(d, "penalty", k, v)
           /\ Set(d, "penalty", k, v) \in Tables
           /\ IsSet(d, Set(d, "penalty", k, v), "penalty", k, v)
<1>1. /\ DOMAIN d = Names /\ d = [t \in DOMAIN d |-> d[t]]
      /\ d["penalty"] \in [Reports -> Int]
  BY TableRows
<1>2. [d["penalty"] EXCEPT ![k] = v] \in [Reports -> Int]
  BY <1>1
<1>3. Set(d, "penalty", k, v) \in Tables
  BY <1>2 DEF Set, Tables, Kinds, States
<1>4. IsSet(d, Set(d, "penalty", k, v), "penalty", k, v)
  BY <1>1 DEF IsSet, Set, Kept, Names
<1>5. [d EXCEPT !.penalty[k] = v] = Set(d, "penalty", k, v)
  BY DEF Set
<1> QED BY <1>3, <1>4, <1>5

LEMMA SetState ==
    ASSUME NEW d \in Tables, NEW k \in Targets, NEW v \in States
    PROVE  /\ [d EXCEPT !.state[k] = v] = Set(d, "state", k, v)
           /\ Set(d, "state", k, v) \in Tables
           /\ IsSet(d, Set(d, "state", k, v), "state", k, v)
<1>1. /\ DOMAIN d = Names /\ d = [t \in DOMAIN d |-> d[t]]
      /\ d["state"] \in [Targets -> States]
  BY TableRows
<1>2. [d["state"] EXCEPT ![k] = v] \in [Targets -> States]
  BY <1>1
<1>3. Set(d, "state", k, v) \in Tables
  BY <1>2 DEF Set, Tables, Kinds, States
<1>4. IsSet(d, Set(d, "state", k, v), "state", k, v)
  BY <1>1 DEF IsSet, Set, Kept, Names
<1>5. [d EXCEPT !.state[k] = v] = Set(d, "state", k, v)
  BY DEF Set
<1> QED BY <1>3, <1>4, <1>5

LEMMA SetAction ==
    ASSUME NEW d \in Tables, NEW k \in Actions, NEW v \in Action
    PROVE  /\ [d EXCEPT !.action[k] = v] = Set(d, "action", k, v)
           /\ Set(d, "action", k, v) \in Tables
           /\ IsSet(d, Set(d, "action", k, v), "action", k, v)
<1>1. /\ DOMAIN d = Names /\ d = [t \in DOMAIN d |-> d[t]]
      /\ d["action"] \in [Actions -> Action]
  BY TableRows
<1>2. [d["action"] EXCEPT ![k] = v] \in [Actions -> Action]
  BY <1>1
<1>3. Set(d, "action", k, v) \in Tables
  BY <1>2 DEF Set, Tables, Kinds, States
<1>4. IsSet(d, Set(d, "action", k, v), "action", k, v)
  BY <1>1 DEF IsSet, Set, Kept, Names
<1>5. [d EXCEPT !.action[k] = v] = Set(d, "action", k, v)
  BY DEF Set
<1> QED BY <1>3, <1>4, <1>5

LEMMA SetAppeal ==
    ASSUME NEW d \in Tables, NEW k \in Appeals, NEW v \in AppealStatuses
    PROVE  /\ [d EXCEPT !.appeal[k] = v] = Set(d, "appeal", k, v)
           /\ Set(d, "appeal", k, v) \in Tables
           /\ IsSet(d, Set(d, "appeal", k, v), "appeal", k, v)
<1>1. /\ DOMAIN d = Names /\ d = [t \in DOMAIN d |-> d[t]]
      /\ d["appeal"] \in [Appeals -> AppealStatuses]
  BY TableRows
<1>2. [d["appeal"] EXCEPT ![k] = v] \in [Appeals -> AppealStatuses]
  BY <1>1
<1>3. Set(d, "appeal", k, v) \in Tables
  BY <1>2 DEF Set, Tables, Kinds, States
<1>4. IsSet(d, Set(d, "appeal", k, v), "appeal", k, v)
  BY <1>1 DEF IsSet, Set, Kept, Names
<1>5. [d EXCEPT !.appeal[k] = v] = Set(d, "appeal", k, v)
  BY DEF Set
<1> QED BY <1>3, <1>4, <1>5

-----------------------------------------------------------------------------
(* What handlers do to actions, targets and appeals.                        *)

LEMMA LeastNatural ==
    ASSUME NEW T \in SUBSET Nat, T # {}
    PROVE  \E a \in T : \A b \in T : a <= b
<1>1. PICK n \in T : TRUE
  OBVIOUS
<1> DEFINE Initials == {0..a : a \in {b \in T : b <= n}}
<1>2. IsWellFoundedOn(StrictSubsetOrdering(0..n), SUBSET (0..n))
  <2>1. IsFiniteSet(0..n)
    BY FS_Interval
  <2> QED BY <2>1, FS_StrictSubsetOrderingWellFounded, FS_FiniteSubsetsOfFinite
<1>3. Initials \subseteq SUBSET (0..n) /\ 0..n \in Initials
  OBVIOUS
<1>4. PICK I \in Initials : \A J \in Initials : ~(<<J, I>> \in StrictSubsetOrdering(0..n))
  <2> HIDE DEF Initials
  <2> QED BY <1>2, <1>3, WFMin
<1>5. PICK a \in T : a <= n /\ I = 0..a
  OBVIOUS
<1>6. ASSUME NEW b \in T, ~(a <= b) PROVE FALSE
  <2>1. b < a /\ b <= n
    BY <1>5, <1>6
  <2>2. 0..b \in Initials
    BY <2>1
  <2>3. 0..b \subseteq I /\ a \in I /\ a \notin 0..b
    BY <1>5, <2>1
  <2>4. <<0..b, I>> \in StrictSubsetOrdering(0..n)
    BY <1>3, <2>2, <2>3 DEF StrictSubsetOrdering
  <2> QED BY <1>4, <2>2, <2>4
<1> QED BY <1>6

\* The next line of the audit log is a free one that nobody else writes.
LEMMA Logged ==
    ASSUME NEW d \in Tables, CanLog(d), NEW t \in Targets, NEW m \in Moderators
    PROVE  \E a \in NextAction(d) : LogAction(d, t, m) = Set(d, "action", a, [target |-> t, actor |-> m])
<1> DEFINE least == CHOOSE a \in NextAction(d) : \A b \in NextAction(d) : a <= b
<1>1. NextAction(d) \in SUBSET Actions /\ NextAction(d) # {} /\ Actions \subseteq Nat
  BY ModerationAssumption DEF NextAction, CanLog
<1>2. \E a \in NextAction(d) : \A b \in NextAction(d) : a <= b
  BY <1>1, LeastNatural
<1>3. least \in NextAction(d)
  BY <1>2
<1>4. LogAction(d, t, m) = [d EXCEPT !.action[least] = [target |-> t, actor |-> m]]
  BY Zenon DEF LogAction
<1> HIDE DEF least
<1>5. [target |-> t, actor |-> m] \in Action
  BY DEF Action
<1> QED BY <1>1, <1>3, <1>4, <1>5, SetAction

\* One target goes down under a new action, or actions and targets stay.
Enforced(d, e) ==
    \/ e["action"] = d["action"] /\ e["state"] = d["state"]
    \/ \E a \in NextAction(d), t \in Targets :
          /\ e["action"][a] # NoAction /\ e["action"][a].target = t
          /\ \A b \in Actions : b # a => e["action"][b] = d["action"][b]
          /\ \A u \in Targets : u # t => e["state"][u] = d["state"][u]
          /\ e["state"][t] \in {"removed", "suspended"}

LEMMA LoggedDown ==
    ASSUME NEW d \in Tables, CanLog(d), NEW t \in Targets, NEW m \in Moderators, NEW v \in Down
    PROVE  LET e == [LogAction(d, t, m) EXCEPT !.state[t] = v]
           IN  e \in Tables /\ Kept(d, e, Names \ {"action", "state"}) /\ Enforced(d, e)
<1>1. PICK a \in NextAction(d) : LogAction(d, t, m) = Set(d, "action", a, [target |-> t, actor |-> m])
  BY Logged
<1> DEFINE action == [target |-> t, actor |-> m]
           logged == Set(d, "action", a, action)
           e == Set(logged, "state", t, v)
<1>2. a \in Actions /\ action \in Action /\ v \in States /\ action # NoAction /\ action.target = t
  BY DEF NextAction, Action, Down, States, NoAction, Targets
<1>3. logged \in Tables /\ IsSet(d, logged, "action", a, action)
  BY <1>2, SetAction
<1> HIDE DEF logged
<1>4. e \in Tables /\ IsSet(logged, e, "state", t, v) /\ [logged EXCEPT !.state[t] = v] = e
  BY <1>2, <1>3, SetState
<1> HIDE DEF e, action
<1>5. Kept(d, e, Names \ {"action", "state"})
  BY <1>3, <1>4 DEF Kept, IsSet
<1>6. /\ e["action"][a] = action /\ \A b \in Actions : b # a => e["action"][b] = d["action"][b]
      /\ e["state"][t] = v /\ \A u \in Targets : u # t => e["state"][u] = d["state"][u]
  BY <1>3, <1>4, TableRows DEF IsSet, Kept, Names
<1>7. Enforced(d, e)
  BY <1>2, <1>6 DEF Enforced, Down
<1> QED BY <1>1, <1>4, <1>5, <1>7 DEF logged, action

\* Report r is decided, and the post may have gone down.
Decides(d, e, r, outcome, kind) ==
    /\ e \in Tables /\ Kept(d, e, {"vote", "appeal"}) /\ Enforced(d, e)
    /\ e["report"] = [d["report"] EXCEPT ![r] = outcome]
    /\ e["kind"] = [d["kind"] EXCEPT ![r] = kind]

\* Deciding a report takes the post down at most once, under an action.
LEMMA Resolved ==
    ASSUME NEW d \in Tables, CanLog(d), NEW r \in Reports, NEW outcome \in {"upheld", "dismissed"},
           NEW kind \in {"moderator", "community"}, NEW m \in Moderators
    PROVE  Decides(d, ResolveReport(d, r, outcome, kind, m), r, outcome, kind)
<1> DEFINE decided == Set(d, "report", r, outcome)
           noted == Set(decided, "kind", r, kind)
           removed == RemoveContent(noted, m)
           penalised(e) == [e EXCEPT !.penalty[r] = @ + 1]
<1>1. outcome \in Statuses /\ kind \in Kinds
  BY DEF Statuses, Kinds
<1>2. /\ decided \in Tables
      /\ IsSet(d, decided, "report", r, outcome) /\ decided = [d EXCEPT !.report[r] = outcome]
  BY <1>1, SetReport
<1> HIDE DEF decided
<1>3. /\ noted \in Tables
      /\ IsSet(decided, noted, "kind", r, kind) /\ noted = [decided EXCEPT !.kind[r] = kind]
  <2>1. decided \in Tables /\ kind \in Kinds
    BY <1>1, <1>2
  <2>2. [decided EXCEPT !.kind[r] = kind] = noted
    BY <2>1, SetKind
  <2>3. noted \in Tables /\ IsSet(decided, noted, "kind", r, kind)
    BY <2>1, SetKind, Zenon
  <2> QED BY <2>2, <2>3
<1>4. noted = [d EXCEPT !.report[r] = outcome, !.kind[r] = kind]
  <2>1. [d EXCEPT !.report[r] = outcome, !.kind[r] = kind] =
            [[d EXCEPT !.report[r] = outcome] EXCEPT !.kind[r] = kind]
    OBVIOUS
  <2> HIDE DEF noted
  <2> QED BY <1>2, <1>3, <2>1
<1> HIDE DEF noted
<1>5. /\ Kept(d, noted, {"vote", "appeal", "action", "state", "penalty"})
      /\ noted["report"] = [d["report"] EXCEPT ![r] = outcome]
      /\ noted["kind"] = [d["kind"] EXCEPT ![r] = kind]
  BY <1>2, <1>3 DEF IsSet, Kept, Names
<1>6. NextAction(noted) = NextAction(d) /\ CanLog(noted)
  BY <1>5 DEF NextAction, CanLog, Kept
<1>7. /\ removed \in Tables
      /\ Kept(noted, removed, Names \ {"action", "state"}) /\ Enforced(noted, removed)
  <2>1. CASE noted.state["post"] = "active"
    <3>1. removed = [LogAction(noted, "post", m) EXCEPT !.state["post"] = "removed"]
      BY <2>1, Zenon DEF RemoveContent, Removed
    <3>2. "post" \in Targets /\ "removed" \in Down
      BY DEF Targets, Down
    <3> HIDE DEF removed
    <3> QED BY <1>3, <1>6, <3>1, <3>2, LoggedDown
  <2>2. CASE noted.state["post"] # "active"
    <3>1. removed = noted
      BY <2>2, Zenon DEF RemoveContent
    <3> QED BY <1>3, <3>1 DEF Kept, Enforced
  <2> QED BY <2>1, <2>2
<1>8. ASSUME NEW e \in Tables
      PROVE  penalised(e) \in Tables /\ Kept(e, penalised(e), Names \ {"penalty"})
  <2>1. e["penalty"][r] + 1 \in Int
    BY TableRows
  <2>2. penalised(e) = [e EXCEPT !.penalty[r] = e["penalty"][r] + 1]
    BY TableRows
  <2>3. penalised(e) = Set(e, "penalty", r, e["penalty"][r] + 1)
    BY <2>1, <2>2, SetPenalty
  <2>4. /\ Set(e, "penalty", r, e["penalty"][r] + 1) \in Tables
        /\ IsSet(e, Set(e, "penalty", r, e["penalty"][r] + 1), "penalty", r, e["penalty"][r] + 1)
    BY <2>1, SetPenalty
  <2> HIDE DEF penalised
  <2> QED BY <2>3, <2>4 DEF IsSet
<1> DEFINE result == ResolveReport(d, r, outcome, kind, m)
<1>9. result \in {noted, penalised(noted), penalised(removed)}
  BY <1>4, Zenon DEF ResolveReport
<1> HIDE DEF removed, penalised
<1>10. result \in Tables
  BY <1>3, <1>7, <1>8, <1>9
<1>11. \/ Kept(noted, result, Names \ {"penalty"})
       \/ Kept(removed, result, Names \ {"penalty"})
  BY <1>3, <1>7, <1>8, <1>9 DEF Kept
<1> HIDE DEF result
<1>12. Kept(noted, result, {"vote", "appeal", "report", "kind"}) /\ Enforced(noted, result)
  <2>1. CASE Kept(noted, result, Names \ {"penalty"})
    BY <2>1 DEF Kept, Names, Enforced
  <2>2. CASE Kept(removed, result, Names \ {"penalty"})
    <3>1. result["action"] = removed["action"] /\ result["state"] = removed["state"]
      BY <2>2 DEF Kept, Names
    <3>2. Enforced(noted, result)
      BY <1>7, <3>1 DEF Enforced
    <3>3. Kept(noted, result, {"vote", "appeal", "report", "kind"})
      BY <1>7, <2>2 DEF Kept, Names
    <3> QED BY <3>2, <3>3
  <2> QED BY <1>11, <2>1, <2>2
<1>13. Enforced(d, result)
  <2>1. noted["action"] = d["action"] /\ noted["state"] = d["state"]
    BY <1>5 DEF Kept
  <2> QED BY <1>6, <1>12, <2>1 DEF Enforced
<1>14. Kept(d, result, {"vote", "appeal"})
  BY <1>5, <1>12 DEF Kept
<1>15. result["report"] = noted["report"] /\ result["kind"] = noted["kind"]
  BY <1>12 DEF Kept
<1>16. Decides(d, result, r, outcome, kind)
  BY <1>5, <1>10, <1>13, <1>14, <1>15, Zenon DEF Decides
<1> QED BY <1>16 DEF result

-----------------------------------------------------------------------------
(* The count.                                                              *)

LEMMA FiniteVoters ==
    /\ IsFiniteSet(Moderators)
    /\ \A T \in SUBSET Moderators : IsFiniteSet(T) /\ Cardinality(T) \in Nat
  BY ModerationAssumption, FS_Subset, FS_CardinalityType

LEMMA TallyIs ==
    ASSUME NEW d, NEW r
    PROVE  /\ Tally(d, r) \in {"none", "escalated", "upheld", "dismissed"}
           /\ Tally(d, r) = "none" => \A v \in {"remove", "keep"} : Cardinality(For(d, r, v)) < CONSENSUS_REQUIRED
           /\ Tally(d, r) \in {"upheld", "dismissed"} =>
                 Cardinality(For(d, r, VoteFor(Tally(d, r)))) >= CONSENSUS_REQUIRED
<1>1. \A v : Cardinality(For(d, r, v)) \in Nat
  BY FiniteVoters DEF For
<1>2. VoteFor("upheld") = "remove" /\ VoteFor("dismissed") = "keep"
  BY DEF VoteFor
<1> QED BY <1>1, <1>2 DEF Tally, TallyWith, CONSENSUS_REQUIRED

\* Whoever's vote was counted for a verdict is behind it.
LEMMA CountBacks ==
    ASSUME NEW d, NEW r \in Reports, NEW k, Tally(d, r) \in {"upheld", "dismissed"},
           \A v \in {"remove", "keep"} : For(d, r, v) \subseteq Behind(r, v, k)
    PROVE  BackedBy(r, Tally(d, r), k)
<1> DEFINE v == VoteFor(Tally(d, r))
<1>1. Cardinality(For(d, r, v)) >= CONSENSUS_REQUIRED
  BY TallyIs
<1>2. v \in {"remove", "keep"}
  BY DEF VoteFor
<1>3. For(d, r, v) \subseteq Behind(r, v, k) /\ Behind(r, v, k) \in SUBSET Moderators
  BY <1>2 DEF Behind
<1>4. Cardinality(For(d, r, v)) <= Cardinality(Behind(r, v, k))
  BY <1>3, FiniteVoters, FS_Subset
<1>5. Cardinality(For(d, r, v)) \in Nat /\ Cardinality(Behind(r, v, k)) \in Nat
  BY <1>3, FiniteVoters DEF For
<1> QED BY <1>1, <1>4, <1>5 DEF BackedBy, CONSENSUS_REQUIRED

LEMMA CountedIs ==
    ASSUME NEW d \in Tables, CanLog(d), NEW r \in Reports, NEW m \in Moderators
    PROVE  LET e == Counted(d, r, m)
           IN  /\ e \in Tables /\ Kept(d, e, {"vote", "appeal"}) /\ Enforced(d, e)
               /\ \A q \in Reports : q # r => e["report"][q] = d["report"][q] /\ e["kind"][q] = d["kind"][q]
               /\ e["report"][r] = IF Tally(d, r) = "none" THEN d["report"][r] ELSE Tally(d, r)
               /\ e["kind"][r] = d["kind"][r] \/ Tally(d, r) \in {"upheld", "dismissed"}
<1> DEFINE e == Counted(d, r, m)
<1>1. CASE Tally(d, r) = "none"
  <2>1. e = d
    BY <1>1, Zenon DEF Counted
  <2> HIDE DEF e
  <2> QED BY <1>1, <2>1 DEF Kept, Enforced, e
<1>2. CASE Tally(d, r) = "escalated"
  <2>1. e = [d EXCEPT !.report[r] = "escalated"]
    BY <1>2, Zenon DEF Counted
  <2>2. "escalated" \in Statuses
    BY DEF Statuses
  <2>3. e = Set(d, "report", r, "escalated")
    BY <2>1, <2>2, SetReport
  <2>4. e \in Tables /\ IsSet(d, e, "report", r, "escalated")
    BY <2>2, <2>3, SetReport
  <2> HIDE DEF e
  <2>5. Kept(d, e, {"vote", "appeal", "kind", "action", "state"})
    BY <2>4 DEF IsSet, Kept, Names
  <2>6. e["report"][r] = "escalated" /\ \A q \in Reports : q # r => e["report"][q] = d["report"][q]
    BY <2>4, TableRows DEF IsSet
  <2> QED BY <1>2, <2>4, <2>5, <2>6 DEF Kept, Enforced, e
<1>3. CASE Tally(d, r) \in {"upheld", "dismissed"}
  <2>1. e = ResolveReport(d, r, Tally(d, r), "community", m)
    BY <1>3, Zenon DEF Counted
  <2> DEFINE outcome == Tally(d, r)
  <2> HIDE DEF outcome, e
  <2>2. outcome \in {"upheld", "dismissed"} /\ e = ResolveReport(d, r, outcome, "community", m)
    BY <1>3, <2>1 DEF outcome
  <2>3. /\ e \in Tables /\ Kept(d, e, {"vote", "appeal"}) /\ Enforced(d, e)
        /\ e["report"] = [d["report"] EXCEPT ![r] = outcome]
        /\ e["kind"] = [d["kind"] EXCEPT ![r] = "community"]
    <3>1. "community" \in {"moderator", "community"}
      OBVIOUS
    <3>2. Decides(d, e, r, outcome, "community")
      BY <2>2, <3>1, Resolved
    <3> QED BY <3>2, Zenon DEF Decides
  <2>4. /\ e["report"][r] = outcome
        /\ \A q \in Reports : q # r => e["report"][q] = d["report"][q] /\ e["kind"][q] = d["kind"][q]
    BY <2>3, TableRows
  <2> QED BY <1>3, <2>3, <2>4 DEF e, outcome
<1> QED BY <1>1, <1>2, <1>3, TallyIs

-----------------------------------------------------------------------------
(* The handlers.                                                           *)

\* New lines of the audit log are free ones, what goes down has one, and an
\* appeal that is upheld reverses.
Acts(result) ==
    /\ \A a \in Actions : result["action"][a] # db["action"][a] =>
          db["action"][a] = NoAction /\ result["action"][a] # NoAction /\ Writing("action", a) = {}
    /\ \A t \in Targets : result["state"][t] # db["state"][t] /\ result["state"][t] \in Down =>
          \E a \in Actions : result["action"][a] # db["action"][a] /\ result["action"][a].target = t
    /\ \A p \in Appeals : result["appeal"][p] # db["appeal"][p] =>
          /\ db["action"][p[1]] # NoAction
          /\ result["appeal"][p] = "upheld" => result["state"][db["action"][p[1]].target] = "active"

\* A handler that casts no vote, of the tables it read.
Rules(read, result) ==
    \A r \in Reports :
        /\ \/ result["report"][r] = read["report"][r] \/ result["report"][r] \in Decided
           \/ read["report"][r] = "none" /\ result["report"][r] = "open"
        /\ \/ result["kind"][r] = read["kind"][r] \/ result["kind"][r] # "community"
           \/ result["report"][r] # read["report"][r] /\ BackedBy(r, result["report"][r], cast)

\* Session s begins: it read these tables and will make them the result.
Starts(s, read, result) ==
    /\ s \notin Open /\ result # read
    /\ session' = [session EXCEPT ![s] = ChangesFrom(read, result)]
    /\ overlapped' \in BOOLEAN /\ (overlapped \/ Open # {} => overlapped')
    /\ db' = db

LEMMA BeginStarts ==
    ASSUME NEW s \in Sessions, NEW result, Begin(s, result)
    PROVE  Starts(s, db, result)
  BY DEF Begin, Starts, Changes

Plain(s) ==
    \E read, result \in Tables :
        /\ Starts(s, read, result) /\ Kept(db, read, {"vote", "action", "state", "appeal"})
        /\ Kept(db, result, {"vote"}) /\ Acts(result) /\ Rules(read, result)
        /\ UNCHANGED <<voting, locks, cast>>

LEMMA BeginPlain ==
    ASSUME db \in Tables, NEW s \in Sessions, NEW result \in Tables, Begin(s, result),
           Kept(db, result, {"vote"}), Acts(result), Rules(db, result), UNCHANGED <<voting, locks, cast>>
    PROVE  Plain(s)
  BY BeginStarts DEF Plain, Kept

LEMMA EnforcedActs ==
    ASSUME db \in Tables, NEW result \in Tables, Enforced(db, result), Kept(db, result, {"appeal"})
    PROVE  Acts(result)
<1>1. result["appeal"] = db["appeal"]
  BY DEF Kept
<1>2. CASE result["action"] = db["action"] /\ result["state"] = db["state"]
  BY <1>1, <1>2 DEF Acts
<1>3. CASE result["action"] # db["action"] \/ result["state"] # db["state"]
  <2>1. PICK a \in NextAction(db), t \in Targets :
            /\ result["action"][a] # NoAction /\ result["action"][a].target = t
            /\ \A b \in Actions : b # a => result["action"][b] = db["action"][b]
            /\ \A u \in Targets : u # t => result["state"][u] = db["state"][u]
    BY <1>3 DEF Enforced
  <2>2. a \in Actions /\ db["action"][a] = NoAction /\ Writing("action", a) = {}
    BY DEF NextAction
  <2> QED BY <1>1, <2>1, <2>2 DEF Acts
<1> QED BY <1>2, <1>3

LEMMA RulesKept ==
    ASSUME NEW result, Kept(db, result, {"report", "kind"})
    PROVE  Rules(db, result)
  BY DEF Rules, Kept

\* Targets and appeals that change without an action.
LEMMA QuietActs ==
    ASSUME NEW result, Kept(db, result, {"action", "appeal"}),
           \A t \in Targets : result["state"][t] = db["state"][t] \/ result["state"][t] \notin Down
    PROVE  Acts(result)
  BY DEF Acts, Kept

LEMMA NewReportPlain ==
    ASSUME db \in Tables, NEW s \in Sessions, NEW r \in Reports,
           SubmitReport(s, r) \/ ReportContent(s, r) \/ (r = AutoReport /\ DetectBrigading(s))
    PROVE  Plain(s)
<1> DEFINE result == [db EXCEPT !.report[r] = "open"]
<1>1. Begin(s, result) /\ UNCHANGED <<voting, locks, cast>> /\ db["report"][r] = "none"
  BY Zenon DEF SubmitReport, ReportContent, DetectBrigading
<1>2. "open" \in Statuses
  BY DEF Statuses
<1>3. result = Set(db, "report", r, "open")
  BY <1>2, SetReport
<1>4. result \in Tables /\ IsSet(db, result, "report", r, "open")
  BY <1>2, <1>3, SetReport
<1> HIDE DEF result
<1>5. Kept(db, result, {"vote", "kind", "action", "state", "appeal"})
  BY <1>4 DEF IsSet, Kept, Names
<1>6. Rules(db, result)
  <2>1. \A q \in Reports : q # r => result["report"][q] = db["report"][q]
    BY <1>4, TableRows DEF IsSet
  <2> QED BY <1>1, <1>4, <1>5, <2>1 DEF Rules, IsSet, Kept
<1>7. Acts(result) /\ Kept(db, result, {"vote"})
  BY <1>5, QuietActs DEF Kept
<1> QED BY <1>1, <1>4, <1>6, <1>7, BeginPlain

LEMMA HeldIs ==
    ASSUME NEW d \in Tables, NEW r \in Reports, NEW status \in Statuses
    PROVE  LET e == Held(d, r, status)
           IN  /\ e \in Tables /\ Kept(d, e, {"vote", "penalty", "action", "state", "appeal"})
               /\ e["report"][r] = status /\ e["kind"][r] = "none"
               /\ \A q \in Reports : q # r => e["report"][q] = d["report"][q] /\ e["kind"][q] = d["kind"][q]
<1> DEFINE noted == Set(d, "report", r, status)
           e == Set(noted, "kind", r, "none")
<1>1. noted \in Tables /\ IsSet(d, noted, "report", r, status) /\ [d EXCEPT !.report[r] = status] = noted
  BY SetReport
<1> HIDE DEF noted
<1>2. "none" \in Kinds
  BY DEF Kinds
<1>3. e \in Tables /\ IsSet(noted, e, "kind", r, "none") /\ [noted EXCEPT !.kind[r] = "none"] = e
  BY <1>1, <1>2, SetKind
<1> HIDE DEF e
<1>4. Held(d, r, status) = e
  <2>1. Held(d, r, status) = [[d EXCEPT !.report[r] = status] EXCEPT !.kind[r] = "none"]
    BY DEF Held
  <2> QED BY <1>1, <1>3, <2>1
<1>5. Kept(d, e, {"vote", "penalty", "action", "state", "appeal"})
  BY <1>1, <1>3 DEF IsSet, Kept, Names
<1>6. /\ e["report"] = noted["report"] /\ noted["kind"] = d["kind"]
      /\ e["kind"][r] = "none" /\ noted["report"][r] = status
  BY <1>1, <1>3 DEF IsSet, Kept, Names
<1>7. \A q \in Reports : q # r => e["report"][q] = d["report"][q] /\ e["kind"][q] = d["kind"][q]
  BY <1>1, <1>3, <1>6, TableRows DEF IsSet
<1> QED BY <1>3, <1>4, <1>5, <1>6, <1>7

LEMMA VoteAgainPlain ==
    ASSUME db \in Tables, VotesHeld(db, cast), NEW s \in Sessions, NEW m \in Moderators,
           NEW r \in Reports,
           VoteAgain(s, m, r)
    PROVE  Plain(s)
<1> DEFINE read == Held(db, r, "in_review")
           result == Counted(read, r, m)
<1>1. Starts(s, read, result) /\ UNCHANGED <<voting, locks, cast>> /\ CanLog(db)
  BY DEF VoteAgain, Starts
<1>2. /\ read \in Tables /\ Kept(db, read, {"vote", "penalty", "action", "state", "appeal"})
      /\ read["report"][r] = "in_review"
  <2>1. "in_review" \in Statuses
    BY DEF Statuses
  <2> QED BY <2>1, HeldIs
<1> HIDE DEF read
<1>3. NextAction(read) = NextAction(db) /\ For(read, r, "remove") = For(db, r, "remove") /\ For(read, r, "keep") = For(db, r, "keep")
  BY <1>2 DEF NextAction, For, Kept
<1>4. CanLog(read)
  BY <1>1, <1>3 DEF CanLog
<1>5. /\ result \in Tables /\ Kept(read, result, {"vote", "appeal"}) /\ Enforced(read, result)
      /\ \A q \in Reports : q # r => result["report"][q] = read["report"][q] /\ result["kind"][q] = read["kind"][q]
      /\ result["report"][r] = IF Tally(read, r) = "none" THEN read["report"][r] ELSE Tally(read, r)
      /\ result["kind"][r] = read["kind"][r] \/ Tally(read, r) \in {"upheld", "dismissed"}
  BY <1>2, <1>4, CountedIs, Zenon
<1> HIDE DEF result
<1>6. Tally(read, r) \in {"upheld", "dismissed"} => BackedBy(r, Tally(read, r), cast)
  <2>1. \A v \in {"remove", "keep"} : For(db, r, v) \subseteq Behind(r, v, cast)
    BY DEF For, Behind, VotesHeld
  <2>2. \A v \in {"remove", "keep"} : For(read, r, v) \subseteq Behind(r, v, cast)
    BY <1>3, <2>1
  <2> QED BY <2>2, CountBacks
<1>7. Rules(read, result)
  BY <1>2, <1>5, <1>6, TallyIs DEF Rules, Decided
<1>8. Acts(result)
  <2>1. Enforced(db, result)
    BY <1>2, <1>3, <1>5 DEF Enforced, Kept
  <2>2. Kept(db, result, {"appeal"})
    BY <1>2, <1>5 DEF Kept
  <2> QED BY <1>5, <2>1, <2>2, EnforcedActs
<1>9. Kept(db, read, {"vote", "action", "state", "appeal"}) /\ Kept(db, result, {"vote"})
  BY <1>2, <1>5 DEF Kept
<1> QED BY <1>1, <1>2, <1>5, <1>7, <1>8, <1>9 DEF Plain

LEMMA DecidePlain ==
    ASSUME db \in Tables, NEW s \in Sessions, NEW m \in Moderators, NEW r \in Reports, Decide(s, m, r)
    PROVE  Plain(s)
<1>1. PICK outcome \in {"upheld", "dismissed"} : Begin(s, ResolveReport(db, r, outcome, "moderator", m))
  BY DEF Decide
<1>2. UNCHANGED <<voting, locks, cast>> /\ CanLog(db)
  BY DEF Decide
<1> DEFINE result == ResolveReport(db, r, outcome, "moderator", m)
<1>3. /\ result \in Tables /\ Kept(db, result, {"vote", "appeal"}) /\ Enforced(db, result)
      /\ result["report"] = [db["report"] EXCEPT ![r] = outcome]
      /\ result["kind"] = [db["kind"] EXCEPT ![r] = "moderator"]
  <2>1. "moderator" \in {"moderator", "community"}
    OBVIOUS
  <2>2. Decides(db, result, r, outcome, "moderator")
    BY <1>2, <2>1, Resolved
  <2> QED BY <2>2, Zenon DEF Decides
<1> HIDE DEF result
<1>4. Rules(db, result)
  <2>1. /\ \A q \in Reports : q # r => result["report"][q] = db["report"][q] /\ result["kind"][q] = db["kind"][q]
        /\ result["report"][r] = outcome /\ result["kind"][r] = "moderator"
    BY <1>3, TableRows
  <2> QED BY <2>1 DEF Rules, Decided
<1>5. Acts(result) /\ Kept(db, result, {"vote"})
  BY <1>3, EnforcedActs DEF Kept
<1> QED BY <1>1, <1>2, <1>3, <1>4, <1>5, BeginPlain DEF result

\* Suspensions and removals by a moderator.
LEMMA EnforcesPlain ==
    ASSUME db \in Tables, NEW s \in Sessions, NEW m \in Moderators,
           \/ Suspend(s, m)
           \/ CanLog(db) /\ Begin(s, Removed(db, m)) /\ UNCHANGED <<voting, locks, cast>>
    PROVE  Plain(s)
<1>1. PICK t \in Targets, v \in Down :
          CanLog(db) /\ Begin(s, [LogAction(db, t, m) EXCEPT !.state[t] = v]) /\ UNCHANGED <<voting, locks, cast>>
  <2>1. "user" \in Targets /\ "suspended" \in Down /\ "post" \in Targets /\ "removed" \in Down
    BY DEF Targets, Down
  <2>2. CASE Suspend(s, m)
    BY <2>1, <2>2, Zenon DEF Suspend, SuspendUser
  <2>3. CASE CanLog(db) /\ Begin(s, Removed(db, m)) /\ UNCHANGED <<voting, locks, cast>>
    BY <2>1, <2>3, Zenon DEF Removed
  <2> QED BY <2>2, <2>3
<1> DEFINE result == [LogAction(db, t, m) EXCEPT !.state[t] = v]
<1>2. result \in Tables /\ Kept(db, result, Names \ {"action", "state"}) /\ Enforced(db, result)
  BY <1>1, LoggedDown
<1> HIDE DEF result
<1>3. Kept(db, result, {"vote"}) /\ Kept(db, result, {"appeal"}) /\ Kept(db, result, {"report", "kind"})
  BY <1>2 DEF Kept, Names
<1> QED BY <1>1, <1>2, <1>3, EnforcedActs, RulesKept, BeginPlain DEF result

\* A target that is deleted or active again.
LEMMA QuietPlain ==
    ASSUME db \in Tables, NEW s \in Sessions,
           \/ SuspensionEnds(s) \/ Unfreeze(s)
           \/ Begin(s, [db EXCEPT !.state["post"] = "deleted"]) /\ UNCHANGED <<voting, locks, cast>>
    PROVE  Plain(s)
<1>1. PICK t \in Targets, v \in {"active", "deleted"} :
          Begin(s, [db EXCEPT !.state[t] = v]) /\ UNCHANGED <<voting, locks, cast>>
  <2>1. "user" \in Targets /\ "post" \in Targets
    BY DEF Targets
  <2> QED BY <2>1, Zenon DEF SuspensionEnds, Unfreeze
<1> DEFINE result == [db EXCEPT !.state[t] = v]
<1>2. v \in States /\ v \notin Down
  BY DEF States, Down
<1>3. result = Set(db, "state", t, v)
  BY <1>2, SetState
<1>4. result \in Tables /\ IsSet(db, result, "state", t, v)
  BY <1>2, <1>3, SetState
<1> HIDE DEF result
<1>5. /\ Kept(db, result, {"vote"}) /\ Kept(db, result, {"action", "appeal"})
      /\ Kept(db, result, {"report", "kind"})
  BY <1>4 DEF IsSet, Kept, Names
<1>6. \A u \in Targets : result["state"][u] = db["state"][u] \/ result["state"][u] \notin Down
  BY <1>2, <1>4, TableRows DEF IsSet
<1> QED BY <1>1, <1>4, <1>5, <1>6, QuietActs, RulesKept, BeginPlain DEF result

\* A row of an appeal is written, and nothing that is up goes down.
LEMMA AppealActs ==
    ASSUME db \in Tables, NEW result, NEW p \in Appeals, db["action"][p[1]] # NoAction,
           Kept(db, result, {"action"}),
           \A q \in Appeals : q # p => result["appeal"][q] = db["appeal"][q],
           result["appeal"][p] = "upheld" => result["state"][db["action"][p[1]].target] = "active",
           \A t \in Targets : result["state"][t] = db["state"][t] \/ result["state"][t] \notin Down
    PROVE  Acts(result)
  BY DEF Acts, Kept

LEMMA SubmitAppealPlain ==
    ASSUME db \in Tables, NEW s \in Sessions, NEW a \in Actions, SubmitAppeal(s, a)
    PROVE  Plain(s)
<1>1. PICK i \in {1, 2} : Begin(s, [db EXCEPT !.appeal[<<a, i>>] = "open"])
  BY DEF SubmitAppeal
<1>2. db["action"][a] # NoAction /\ UNCHANGED <<voting, locks, cast>>
  BY DEF SubmitAppeal
<1> DEFINE p == <<a, i>>
           result == [db EXCEPT !.appeal[p] = "open"]
<1>3. p \in Appeals /\ p[1] = a /\ "open" \in AppealStatuses
  BY DEF Appeals, AppealStatuses
<1>4. Begin(s, result)
  BY <1>1
<1> HIDE DEF p
<1>5. result = Set(db, "appeal", p, "open")
  BY <1>3, SetAppeal
<1>6. result \in Tables /\ IsSet(db, result, "appeal", p, "open")
  BY <1>3, <1>5, SetAppeal
<1> HIDE DEF result
<1>7. /\ Kept(db, result, {"vote"})
      /\ Kept(db, result, {"action", "state"}) /\ Kept(db, result, {"report", "kind"})
  BY <1>6 DEF IsSet, Kept, Names
<1>8. result["appeal"][p] # "upheld" /\ \A q \in Appeals : q # p => result["appeal"][q] = db["appeal"][q]
  BY <1>6, TableRows DEF IsSet
<1>9. Acts(result)
  <2>1. Kept(db, result, {"action"}) /\ \A t \in Targets : result["state"][t] = db["state"][t]
    BY <1>7 DEF Kept
  <2> QED BY <1>2, <1>3, <1>8, <2>1, AppealActs
<1> QED BY <1>2, <1>4, <1>6, <1>7, <1>9, RulesKept, BeginPlain

LEMMA DecideAppealPlain ==
    ASSUME db \in Tables, NoAppeal(db), NEW s \in Sessions, NEW m \in Moderators, NEW p \in Appeals,
           DecideAppeal(s, m, p)
    PROVE  Plain(s)
<1>1. PICK upheld \in BOOLEAN : Begin(s, AppealDecided(p, upheld))
  BY DEF DecideAppeal
<1>2. db["appeal"][p] = "open" /\ UNCHANGED <<voting, locks, cast>>
  BY DEF DecideAppeal
<1>3. p[1] \in Actions /\ db["action"][p[1]] # NoAction /\ db["action"][p[1]].target \in Targets
  <2>1. p[1] \in Actions /\ db["action"][p[1]] # NoAction
    BY <1>2 DEF NoAppeal, Appeals
  <2>2. db["action"][p[1]] \in Action
    BY <2>1, TableRows
  <2> QED BY <2>1, <2>2 DEF Action
<1> DEFINE target == db["action"][p[1]].target
           ruled(v) == Set(db, "appeal", p, v)
<1>4. ASSUME NEW v \in AppealStatuses
      PROVE  /\ [db EXCEPT !.appeal[p] = v] = ruled(v) /\ ruled(v) \in Tables
             /\ IsSet(db, ruled(v), "appeal", p, v)
  BY <1>4, SetAppeal
<1>5. /\ "upheld" \in AppealStatuses /\ "denied" \in AppealStatuses
      /\ "active" \in States /\ "active" \notin Down
  BY DEF AppealStatuses, States, Down
<1> HIDE DEF ruled
<1>6. CASE ~upheld
  <2>1. Begin(s, ruled("denied"))
    BY <1>1, <1>4, <1>5, <1>6, Zenon DEF AppealDecided
  <2> DEFINE result == ruled("denied")
  <2>2. result \in Tables /\ IsSet(db, result, "appeal", p, "denied")
    BY <1>4, <1>5
  <2> HIDE DEF result
  <2>3. /\ Kept(db, result, {"vote"})
        /\ Kept(db, result, {"action", "state"}) /\ Kept(db, result, {"report", "kind"})
    BY <2>2 DEF IsSet, Kept, Names
  <2>4. result["appeal"][p] # "upheld" /\ \A q \in Appeals : q # p => result["appeal"][q] = db["appeal"][q]
    BY <2>2, TableRows DEF IsSet
  <2>5. Acts(result)
    <3>1. Kept(db, result, {"action"}) /\ \A t \in Targets : result["state"][t] = db["state"][t]
      BY <2>3 DEF Kept
    <3> QED BY <1>3, <2>4, <3>1, AppealActs
  <2> QED BY <1>2, <2>1, <2>2, <2>3, <2>5, RulesKept, BeginPlain DEF result
<1>7. CASE upheld
  <2> DEFINE reversed == ruled("upheld")
  <2>1. /\ reversed \in Tables
        /\ IsSet(db, reversed, "appeal", p, "upheld") /\ [db EXCEPT !.appeal[p] = "upheld"] = reversed
    BY <1>4, <1>5
  <2> HIDE DEF reversed
  <2>2. reversed["action"] = db["action"]
    BY <2>1 DEF IsSet, Kept, Names
  <2> DEFINE result == Set(reversed, "state", target, "active")
  <2>3. /\ [reversed EXCEPT !.state[target] = "active"] = result /\ result \in Tables
        /\ IsSet(reversed, result, "state", target, "active")
    BY <1>3, <1>5, <2>1, SetState
  <2>4. Begin(s, result)
    <3>1. AppealDecided(p, upheld) = [reversed EXCEPT !.state[reversed["action"][p[1]].target] = "active"]
      BY <1>7, <2>1, Zenon DEF AppealDecided, Reversed
    <3> QED BY <1>1, <2>2, <2>3, <3>1
  <2> HIDE DEF result
  <2>5. /\ Kept(db, result, {"vote"})
        /\ Kept(db, result, {"action"}) /\ Kept(db, result, {"report", "kind"})
    BY <2>1, <2>3 DEF IsSet, Kept, Names
  <2>6. \A q \in Appeals : q # p => result["appeal"][q] = db["appeal"][q]
    BY <2>1, <2>3, TableRows DEF IsSet, Kept, Names
  <2>7. result["state"][target] = "active" /\ \A t \in Targets : result["state"][t] = db["state"][t] \/ result["state"][t] \notin Down
    <3>1. reversed["state"] = db["state"]
      BY <2>1 DEF IsSet, Kept, Names
    <3>2. result["state"][target] = "active" /\ \A t \in Targets : t # target => result["state"][t] = db["state"][t]
      BY <2>1, <2>3, <3>1, TableRows DEF IsSet
    <3> QED BY <1>5, <3>2
  <2>8. Acts(result)
    BY <1>3, <2>5, <2>6, <2>7, AppealActs
  <2> QED BY <1>2, <2>3, <2>4, <2>5, <2>8, RulesKept, BeginPlain
<1> QED BY <1>6, <1>7

\* Every handler but the two steps of a vote.
LEMMA HandlersPlain ==
    ASSUME db \in Tables, VotesHeld(db, cast), NoAppeal(db), NEW s \in Sessions,
           Queue(s) \/ Enforcement(s),
           ~CountVotes(s), \A r \in Reports, m \in Moderators, v \in Votes \ {"none"} : ~OpenVote(s, m, r, v)
    PROVE  Plain(s)
<1>1. CASE Queue(s)
  <2>1. AutoReport \in Reports
    BY DEF Reports
  <2>2. CASE \E r \in Reports : SubmitReport(s, r) \/ ReportContent(s, r)
    BY <2>2, NewReportPlain
  <2>3. CASE DetectBrigading(s)
    BY <2>1, <2>3, NewReportPlain
  <2>4. CASE \E r \in Reports, m \in Moderators : VoteAgain(s, m, r) \/ Decide(s, m, r)
    BY <2>4, VoteAgainPlain, DecidePlain
  <2> QED BY <1>1, <2>2, <2>3, <2>4, Zenon DEF Queue
<1>2. CASE Enforcement(s)
  <2>1. CASE \E m \in Moderators : Suspend(s, m)
    BY <2>1, EnforcesPlain
  <2>2. CASE \E m \in Moderators, p \in Appeals : DecideAppeal(s, m, p)
    BY <2>2, DecideAppealPlain
  <2>3. CASE SuspensionEnds(s) \/ Unfreeze(s)
    BY <2>3, QuietPlain
  <2>4. CASE DeletePost(s)
    <3>1. Staff \subseteq Moderators
      BY ModerationAssumption
    <3>2. UNCHANGED <<voting, locks, cast>>
      BY <2>4 DEF DeletePost
    <3>3. CASE Begin(s, [db EXCEPT !.state["post"] = "deleted"])
      BY <3>2, <3>3, QuietPlain
    <3>4. CASE \E m \in Staff : CanLog(db) /\ Begin(s, Removed(db, m))
      BY <3>1, <3>2, <3>4, EnforcesPlain
    <3> QED BY <2>4, <3>3, <3>4, Zenon DEF DeletePost
  <2>5. CASE \E a \in Actions : SubmitAppeal(s, a)
    BY <2>5, SubmitAppealPlain
  <2> QED BY <1>2, <2>1, <2>2, <2>3, <2>4, <2>5, Zenon DEF Enforcement
<1> QED BY <1>1, <1>2

\* A ballot writes the vote, and in_review over open.
LEMMA BallotIs ==
    ASSUME db \in Tables, NEW s \in Sessions, NEW m \in Moderators, NEW r \in Reports,
           NEW v \in Votes \ {"none"},
           OpenVote(s, m, r, v)
    PROVE  \E result \in Tables :
              /\ Begin(s, result) /\ UNCHANGED <<locks, cast>> /\ voting' = [voting EXCEPT ![s] = r]
              /\ db["report"][r] \in {"open", "in_review"} /\ m # Author
              /\ Kept(db, result, Names \ {"report", "vote"})
              /\ result["vote"][<<r, m>>] = v /\ result["report"][r] = "in_review"
              /\ \A x \in Reports \X Moderators : x # <<r, m>> => result["vote"][x] = db["vote"][x]
              /\ \A q \in Reports : q # r => result["report"][q] = db["report"][q]
<1> DEFINE x == <<r, m>>
           voted == Set(db, "vote", x, v)
<1>1. /\ Begin(s, [db EXCEPT !.vote[x] = v, !.report[r] = "in_review"]) /\ UNCHANGED <<locks, cast>>
      /\ voting' = [voting EXCEPT ![s] = r] /\ db["report"][r] \in {"open", "in_review"} /\ m # Author
  BY Zenon DEF OpenVote, MayVote
<1>2. x \in Reports \X Moderators /\ "in_review" \in Statuses
  BY DEF Statuses
<1>3. voted \in Tables /\ IsSet(db, voted, "vote", x, v) /\ [db EXCEPT !.vote[x] = v] = voted
  <2> HIDE DEF x
  <2> QED BY <1>2, SetVote
<1> HIDE DEF x, voted
<1> DEFINE result == Set(voted, "report", r, "in_review")
<1>4. /\ result \in Tables /\ IsSet(voted, result, "report", r, "in_review")
      /\ [voted EXCEPT !.report[r] = "in_review"] = result
  BY <1>2, <1>3, SetReport
<1> HIDE DEF result
<1>5. [db EXCEPT !.vote[x] = v, !.report[r] = "in_review"] = result
  <2>1. [db EXCEPT !.vote[x] = v, !.report[r] = "in_review"] =
            [[db EXCEPT !.vote[x] = v] EXCEPT !.report[r] = "in_review"]
    OBVIOUS
  <2> QED BY <1>3, <1>4, <2>1
<1>6. /\ Kept(db, result, Names \ {"report", "vote"})
      /\ result["vote"] = voted["vote"] /\ voted["report"] = db["report"]
  BY <1>3, <1>4 DEF IsSet, Kept, Names
<1>7. /\ result["vote"][x] = v
      /\ \A y \in Reports \X Moderators : y # x => result["vote"][y] = db["vote"][y]
  BY <1>3, <1>6, TableRows DEF IsSet
<1>8. /\ result["report"][r] = "in_review"
      /\ \A q \in Reports : q # r => result["report"][q] = db["report"][q]
  BY <1>3, <1>4, <1>6, TableRows DEF IsSet
<1> QED BY <1>1, <1>4, <1>5, <1>6, <1>7, <1>8 DEF x

-----------------------------------------------------------------------------
(* What a session writes, for the result of its handler.                    *)

\* What makes tables d the result.
AreChanges(d, result, changes) ==
    /\ \A c \in changes : /\ c[1] \in Names /\ c[2] \in DOMAIN d[c[1]] /\ c[3] # c[4]
                          /\ c[3] = d[c[1]][c[2]] /\ c[4] = result[c[1]][c[2]]
    /\ \A t \in Names : \A k \in DOMAIN d[t] :
          result[t][k] # d[t][k] => <<t, k, d[t][k], result[t][k]>> \in changes

LEMMA ChangeIsWritten ==
    ASSUME NEW d, NEW e, NEW changes, AreChanges(d, e, changes),
           NEW t \in Names, NEW k \in DOMAIN d[t], e[t][k] # d[t][k]
    PROVE  <<t, k, d[t][k], e[t][k]>> \in changes
  BY Zenon DEF AreChanges

\* Session s will write what makes of the tables it read the result.
WillWrite(s, read, result) ==
    /\ db' = db /\ SessionsTyped'
    /\ AreChanges(read, result, session'[s])
    /\ \A q \in Sessions : q # s => session'[q] = session[q]

LEMMA ChangesWrite ==
    ASSUME SessionsTyped, NEW s \in Sessions, NEW STATE read, read \in Tables, NEW STATE result,
           db' = db, session' = [session EXCEPT ![s] = ChangesFrom(read, result)]
    PROVE  WillWrite(s, read, result) /\ session'[s] = ChangesFrom(read, result)
<1>1. /\ SessionsTyped' /\ session'[s] = ChangesFrom(read, result)
      /\ \A q \in Sessions : q # s => session'[q] = session[q]
  BY DEF SessionsTyped
<1>2. DOMAIN read = Names
  BY TableRows
<1>3. AreChanges(read, result, ChangesFrom(read, result))
  BY <1>2, ChangesFromAre, ChangesFromHold DEF AreChanges
<1> QED BY <1>1, <1>3 DEF WillWrite

\* One change of each row, from and to values of its column.
WellWritten(s) ==
    /\ \A c, e \in session'[s] : c[1] = e[1] /\ c[2] = e[2] => c = e
    /\ \A c \in session'[s] : Typed(c, Tables)

LEMMA ChangesFromWell ==
    ASSUME db \in Tables, NEW s \in Sessions, NEW STATE read, read \in Tables,
           NEW STATE result, result \in Tables, session'[s] = ChangesFrom(read, result)
    PROVE  WellWritten(s)
<1>1. DOMAIN read = DOMAIN db /\ \A t \in DOMAIN db : DOMAIN read[t] = DOMAIN db[t]
  BY TableRows DEF Names
<1>2. ASSUME NEW c \in ChangesFrom(read, result) PROVE Typed(c, Tables)
  BY <1>1, ChangesFromAre DEF Typed
<1> QED BY <1>2, ChangesFromSingle DEF WellWritten

LEMMA TablesShaped ==
    ASSUME NEW d \in Tables, db \in Tables
    PROVE  Shaped(d)
<1>1. DOMAIN d = Names /\ DOMAIN db = Names /\ d = [t \in Names |-> d[t]]
  BY TableRows
<1>2. ASSUME NEW t \in Names PROVE d[t] = [k \in DOMAIN db[t] |-> d[t][k]]
  BY TableRows DEF Names
<1> QED BY <1>1, <1>2 DEF Shaped

LEMMA Begins ==
    ASSUME SessionsTyped, db \in Tables, NEW s \in Sessions, NEW STATE read, read \in Tables,
           NEW STATE result, result \in Tables, Starts(s, read, result)
    PROVE  /\ WillWrite(s, read, result) /\ session'[s] = ChangesFrom(read, result)
           /\ session[s] = {} /\ session'[s] # {}
           /\ overlapped' \in BOOLEAN /\ (overlapped \/ Open # {} => overlapped')
<1>1. /\ s \notin Open /\ result # read /\ session' = [session EXCEPT ![s] = ChangesFrom(read, result)]
      /\ overlapped' \in BOOLEAN /\ (overlapped \/ Open # {} => overlapped') /\ db' = db
  BY DEF Starts
<1>2. WillWrite(s, read, result) /\ session'[s] = ChangesFrom(read, result)
  BY <1>1, ChangesWrite
<1>3. ChangesFrom(read, result) # {}
  <2>1. PICK t \in DOMAIN db : \E k \in DOMAIN db[t] : result[t][k] # read[t][k]
    BY <1>1, TablesShaped, SameTables
  <2>2. DOMAIN read = DOMAIN db /\ DOMAIN read[t] = DOMAIN db[t]
    BY <2>1, TableRows DEF Names
  <2> QED BY <2>1, <2>2, ChangesFromHold
<1> QED BY <1>1, <1>2, <1>3 DEF Open

-----------------------------------------------------------------------------
(* Actions, targets and appeals under the steps.                            *)

LEMMA ActsWritten ==
    ASSUME db \in Tables, ActionsWritten(db, session), Supported(db, session),
           NEW s \in Sessions, NEW result \in Tables, Acts(result),
           NEW read \in Tables, Kept(db, read, {"action", "state", "appeal"}),
           NEW w, AreChanges(read, result, w[s]), \A q \in Sessions : q # s => w[q] = session[q]
    PROVE  ActionsWritten(db, w) /\ Supported(db, w)
<1>0. /\ read["action"] = db["action"] /\ read["state"] = db["state"] /\ read["appeal"] = db["appeal"]
  BY DEF Kept
<1>1. ASSUME NEW c \in w[s]
      PROVE  /\ c[1] = "action" => /\ c[2] \in Actions /\ db["action"][c[2]] = NoAction /\ c[4] # NoAction
                                   /\ Writing("action", c[2]) = {}
             /\ c[1] = "state" /\ c[4] \in Down =>
                   \E e \in w[s] : e[1] = "action" /\ e[4].target = c[2]
             /\ c[1] = "appeal" => db["action"][c[2][1]] # NoAction
  <2>1. c[1] \in {"action", "state", "appeal"} =>
            /\ c[2] \in DOMAIN db[c[1]] /\ c[4] = result[c[1]][c[2]]
            /\ result[c[1]][c[2]] # db[c[1]][c[2]]
    BY <1>0 DEF AreChanges
  <2>2. c[1] = "state" /\ c[4] \in Down => \E e \in w[s] : e[1] = "action" /\ e[4].target = c[2]
    <3>1. SUFFICES ASSUME c[1] = "state", c[4] \in Down
          PROVE \E e \in w[s] : e[1] = "action" /\ e[4].target = c[2]
      OBVIOUS
    <3>2. PICK a \in Actions : result["action"][a] # db["action"][a] /\ result["action"][a].target = c[2]
      BY <2>1, <3>1, TableRows DEF Acts
    <3>3. <<"action", a, db["action"][a], result["action"][a]>> \in w[s]
      BY <1>0, <3>2, TableRows DEF AreChanges, Names
    <3> QED BY <3>2, <3>3
  <2>3. c[1] = "action" => /\ c[2] \in Actions /\ db["action"][c[2]] = NoAction /\ c[4] # NoAction
                           /\ Writing("action", c[2]) = {}
    BY <2>1, TableRows DEF Acts
  <2>4. c[1] = "appeal" => db["action"][c[2][1]] # NoAction
    BY <2>1, TableRows DEF Acts
  <2> QED BY <2>2, <2>3, <2>4
<1>2. ASSUME NEW a, Writing("action", a) = {}, NEW q \in Sessions, NEW e \in session[q]
      PROVE  ~(e[1] = "action" /\ e[2] = a)
  BY <1>2 DEF Writing, Open
<1>3. ActionsWritten(db, w)
  <2>1. ASSUME NEW q \in Sessions, NEW c \in w[q]
        PROVE  c[1] = "action" => \A p \in Sessions \ {q} : \A e \in w[p] : ~(e[1] = "action" /\ e[2] = c[2])
    <3>1. CASE q = s
      BY <1>1, <1>2, <3>1
    <3>2. CASE q # s
      <4>1. c \in session[q]
        BY <3>2
      <4>2. ASSUME c[1] = "action", NEW p \in Sessions \ {q}, NEW e \in w[p], e[1] = "action",
                   e[2] = c[2]
            PROVE  FALSE
        <5>1. CASE p = s
          BY <1>1, <1>2, <4>1, <4>2, <5>1
        <5>2. CASE p # s
          BY <4>1, <4>2, <5>2 DEF ActionsWritten
        <5> QED BY <5>1, <5>2
      <4> QED BY <4>2
    <3> QED BY <3>1, <3>2
  <2>2. ASSUME NEW q \in Sessions, NEW c \in w[q]
        PROVE  /\ c[1] = "action" => db["action"][c[2]] = NoAction /\ c[4] # NoAction
               /\ c[1] = "state" /\ c[4] \in Down => \E e \in w[q] : e[1] = "action" /\ e[4].target = c[2]
               /\ c[1] = "appeal" => db["action"][c[2][1]] # NoAction
    <3>1. CASE q = s
      BY <1>1, <3>1
    <3>2. CASE q # s
      BY <3>2 DEF ActionsWritten
    <3> QED BY <3>1, <3>2
  <2> QED BY <2>1, <2>2 DEF ActionsWritten
<1>4. ASSUME NEW t \in Targets, db["state"][t] \in Down
      PROVE  \E a \in Actions : Supports(db, w, a, t)
  <2>1. PICK a \in Actions : Supports(db, session, a, t)
    BY <1>4 DEF Supported
  <2>2. ASSUME Upholds(w[s], a) PROVE Reactivates(w[s], t)
    <3>1. PICK c \in w[s] : c[1] = "appeal" /\ c[2][1] = a /\ c[4] = "upheld"
      BY <2>2 DEF Upholds
    <3>2. /\ c[2] \in Appeals
          /\ result["appeal"][c[2]] # db["appeal"][c[2]] /\ result["appeal"][c[2]] = "upheld"
      BY <1>0, <3>1, TableRows DEF AreChanges
    <3>3. result["state"][t] = "active" /\ "active" \notin Down
      BY <2>1, <3>1, <3>2 DEF Acts, Supports, Down
    <3>4. <<"state", t, db["state"][t], result["state"][t]>> \in w[s]
      BY <1>0, <1>4, <3>3, TableRows DEF AreChanges, Names
    <3> QED BY <3>3, <3>4 DEF Reactivates
  <2>3. ASSUME NEW q \in Sessions, Upholds(w[q], a) PROVE Reactivates(w[q], t)
    <3>1. CASE q = s
      BY <2>2, <2>3, <3>1
    <3>2. CASE q # s
      <4>1. w[q] = session[q]
        BY <3>2
      <4> QED BY <2>1, <2>3, <4>1 DEF Supports
    <3> QED BY <3>1, <3>2
  <2> QED BY <2>1, <2>3 DEF Supports
<1> QED BY <1>3, <1>4 DEF Supported

-----------------------------------------------------------------------------
(* What changes make of the tables.                                         *)

\* Tables e are d with the changes written; penalties are added up instead.
IsFlushed(d, changes, e) ==
    /\ e \in Tables
    /\ \A t \in Names \ {"penalty"} : \A k \in DOMAIN d[t] :
          \/ \E c \in changes : c[1] = t /\ c[2] = k /\ e[t][k] = c[4]
          \/ e[t][k] = d[t][k] /\ \A c \in changes : ~(c[1] = t /\ c[2] = k)
    /\ \A c \in changes : c[1] \in Names /\ c[2] \in DOMAIN d[c[1]] /\ (c[1] # "penalty" => e[c[1]][c[2]] = c[4])

LEMMA TypedColumns ==
    ASSUME db \in Tables, NEW c, Typed(c, Tables)
    PROVE  /\ c[1] \in Names /\ c[2] \in DOMAIN db[c[1]]
           /\ \E d, e \in Tables : c[3] = d[c[1]][c[2]] /\ c[4] = e[c[1]][c[2]]
           /\ c[1] = "report" => c[2] \in Reports /\ c[4] \in Statuses
           /\ c[1] = "vote" => c[2] \in Reports \X Moderators /\ c[3] \in Votes /\ c[4] \in Votes
           /\ c[1] = "kind" => c[2] \in Reports /\ c[4] \in Kinds
           /\ c[1] = "state" => c[2] \in Targets /\ c[4] \in States
           /\ c[1] = "action" => c[2] \in Actions /\ c[4] \in Action
           /\ c[1] = "appeal" => c[2] \in Appeals /\ c[4] \in AppealStatuses
           /\ c[1] = "penalty" => c[2] \in Reports /\ c[3] \in Int /\ c[4] \in Int
<1>1. /\ c[1] \in Names /\ c[2] \in DOMAIN db[c[1]]
      /\ \E d, e \in Tables : c[3] = d[c[1]][c[2]] /\ c[4] = e[c[1]][c[2]]
  BY TableRows DEF Typed
<1>2. PICK d \in Tables, e \in Tables : c[3] = d[c[1]][c[2]] /\ c[4] = e[c[1]][c[2]]
  BY <1>1
<1>3. /\ c[1] = "report" => c[2] \in Reports /\ e["report"] \in [Reports -> Statuses]
      /\ c[1] = "vote" => /\ c[2] \in Reports \X Moderators
                          /\ d["vote"] \in [Reports \X Moderators -> Votes]
                          /\ e["vote"] \in [Reports \X Moderators -> Votes]
      /\ c[1] = "kind" => c[2] \in Reports /\ e["kind"] \in [Reports -> Kinds]
      /\ c[1] = "state" => c[2] \in Targets /\ e["state"] \in [Targets -> States]
      /\ c[1] = "action" => c[2] \in Actions /\ e["action"] \in [Actions -> Action]
      /\ c[1] = "appeal" => c[2] \in Appeals /\ e["appeal"] \in [Appeals -> AppealStatuses]
      /\ c[1] = "penalty" => /\ c[2] \in Reports
                             /\ d["penalty"] \in [Reports -> Int] /\ e["penalty"] \in [Reports -> Int]
  BY <1>1, TableRows
<1> QED BY <1>1, <1>2, <1>3

LEMMA FlushIs ==
    ASSUME db \in Tables, NEW STATE changes, \A c \in changes : Typed(c, Tables),
           \A c, e \in changes : c[1] = e[1] /\ c[2] = e[2] => c = e
    PROVE  IsFlushed(db, changes, Flush(changes))
<1> DEFINE flushed == Flush(changes)
<1>1. Booked = {"penalty"} /\ DOMAIN db = Names
  BY ModerationAssumption, TableRows
<1>2. \A c \in changes : c[1] \in Names /\ c[2] \in DOMAIN db[c[1]]
  BY TypedColumns
<1>3. ASSUME NEW t \in Names \ {"penalty"}, NEW k \in DOMAIN db[t]
      PROVE  \/ \E c \in changes : c[1] = t /\ c[2] = k /\ flushed[t][k] = c[4]
             \/ flushed[t][k] = db[t][k] /\ \A c \in changes : ~(c[1] = t /\ c[2] = k)
  <2> DEFINE own == {c \in changes : c[1] = t /\ c[2] = k}
  <2>1. /\ own = {} => flushed[t][k] = db[t][k]
        /\ own # {} => \E c \in own : flushed[t][k] = Written(db[t][k], c)
    BY <1>1, FlushRow
  <2> HIDE DEF flushed
  <2> QED BY <1>1, <2>1 DEF Written
<1>4. Shaped(flushed)
  BY FlushShaped
<1>5. ASSUME NEW k \in Reports PROVE flushed["penalty"][k] \in Int
  <2> DEFINE own == {c \in changes : c[1] = "penalty" /\ c[2] = k}
  <2>1. "penalty" \in DOMAIN db /\ k \in DOMAIN db["penalty"] /\ db["penalty"][k] \in Int
    BY <1>1, TableRows DEF Names
  <2>2. /\ own = {} => flushed["penalty"][k] = db["penalty"][k]
        /\ own # {} => \E c \in own : flushed["penalty"][k] = Written(db["penalty"][k], c)
    BY <2>1, FlushRow
  <2>3. \A c \in own : c[3] \in Int /\ c[4] \in Int
    BY TypedColumns
  <2> HIDE DEF flushed
  <2> QED BY <1>1, <2>1, <2>2, <2>3 DEF Written
<1> HIDE DEF flushed
<1>6. ASSUME NEW t \in Names \ {"penalty"}, NEW R, NEW V, \A e \in Tables : e[t] \in [R -> V],
             NEW k \in R
      PROVE  flushed[t][k] \in V
  <2>1. k \in DOMAIN db[t] /\ \A e \in Tables : e[t][k] \in V
    BY <1>6
  <2>2. \E e \in Tables : flushed[t][k] = e[t][k]
    BY <1>3, <2>1, TypedColumns
  <2> QED BY <2>1, <2>2
<1>7. flushed \in Tables
  <2>1. /\ \A k \in Reports : /\ flushed["report"][k] \in Statuses
                              /\ flushed["kind"][k] \in Kinds
        /\ \A k \in Reports \X Moderators : flushed["vote"][k] \in Votes
        /\ \A k \in Targets : flushed["state"][k] \in States
        /\ \A k \in Actions : flushed["action"][k] \in Action
        /\ \A k \in Appeals : flushed["appeal"][k] \in AppealStatuses
    <3>0. Names \ {"penalty"} = {"report", "kind", "vote", "state", "action", "appeal"}
      BY DEF Names
    <3>1. ASSUME NEW k \in Reports PROVE flushed["report"][k] \in Statuses
      <4>1. \A e \in Tables : e["report"] \in [Reports -> Statuses]
        BY TableRows
      <4> QED BY <1>6, <3>0, <4>1
    <3>2. ASSUME NEW k \in Reports PROVE flushed["kind"][k] \in Kinds
      <4>1. \A e \in Tables : e["kind"] \in [Reports -> Kinds]
        BY TableRows
      <4> QED BY <1>6, <3>0, <4>1
    <3>3. ASSUME NEW k \in Reports \X Moderators PROVE flushed["vote"][k] \in Votes
      <4>1. \A e \in Tables : e["vote"] \in [Reports \X Moderators -> Votes]
        BY TableRows
      <4> QED BY <1>6, <3>0, <4>1
    <3>4. ASSUME NEW k \in Targets PROVE flushed["state"][k] \in States
      <4>1. \A e \in Tables : e["state"] \in [Targets -> States]
        BY TableRows
      <4> QED BY <1>6, <3>0, <4>1
    <3>5. ASSUME NEW k \in Actions PROVE flushed["action"][k] \in Action
      <4>1. \A e \in Tables : e["action"] \in [Actions -> Action]
        BY TableRows
      <4> QED BY <1>6, <3>0, <4>1
    <3>6. ASSUME NEW k \in Appeals PROVE flushed["appeal"][k] \in AppealStatuses
      <4>1. \A e \in Tables : e["appeal"] \in [Appeals -> AppealStatuses]
        BY TableRows
      <4> QED BY <1>6, <3>0, <4>1
    <3> QED BY <3>1, <3>2, <3>3, <3>4, <3>5, <3>6
  <2>2. /\ flushed = [t \in Names |-> flushed[t]]
        /\ flushed["report"] = [k \in Reports |-> flushed["report"][k]]
        /\ flushed["kind"] = [k \in Reports |-> flushed["kind"][k]]
        /\ flushed["vote"] = [k \in Reports \X Moderators |-> flushed["vote"][k]]
        /\ flushed["penalty"] = [k \in Reports |-> flushed["penalty"][k]]
        /\ flushed["state"] = [k \in Targets |-> flushed["state"][k]]
        /\ flushed["action"] = [k \in Actions |-> flushed["action"][k]]
        /\ flushed["appeal"] = [k \in Appeals |-> flushed["appeal"][k]]
    <3>1. /\ flushed = [t \in Names |-> flushed[t]]
          /\ \A t \in Names : flushed[t] = [k \in DOMAIN db[t] |-> flushed[t][k]]
      BY <1>1, <1>4 DEF Shaped
    <3> QED BY <3>1, TableRows DEF Names
  <2>3. /\ flushed["report"] \in [Reports -> Statuses] /\ flushed["kind"] \in [Reports -> Kinds]
        /\ flushed["vote"] \in [Reports \X Moderators -> Votes] /\ flushed["penalty"] \in [Reports -> Int]
    BY <1>5, <2>1, <2>2
  <2>4. /\ flushed["state"] \in [Targets -> States] /\ flushed["action"] \in [Actions -> Action]
        /\ flushed["appeal"] \in [Appeals -> AppealStatuses]
    BY <2>1, <2>2
  <2>5. flushed = [t \in Names |-> flushed[t]]
    BY <2>2
  <2> QED BY <2>3, <2>4, <2>5 DEF Tables, Names, Kinds, States
<1>8. ASSUME NEW c \in changes, c[1] # "penalty" PROVE flushed[c[1]][c[2]] = c[4]
  <2>1. PICK e \in changes : e[1] = c[1] /\ e[2] = c[2] /\ flushed[c[1]][c[2]] = e[4]
    BY <1>2, <1>3, <1>8
  <2> QED BY <2>1
<1> QED BY <1>2, <1>3, <1>7, <1>8 DEF IsFlushed, flushed

\* A commit writes them, and meets no clash.
CommitsTo(s) ==
    /\ IsFlushed(db, session[s], db') /\ session[s] # {}
    /\ SessionsTyped' /\ session'[s] = {} /\ \A q \in Sessions : q # s => session'[q] = session[q]
    /\ \A c \in session[s] : /\ c[1] = "vote" => ((c[3] = "none") <=> (db["vote"][c[2]] = "none"))
                             /\ c[1] = "report" => ((c[3] = "none") <=> (db["report"][c[2]] = "none"))
    /\ overlapped' = overlapped

LEMMA Commits ==
    ASSUME db \in Tables, SessionsTyped, Single, NEW s \in Sessions,
           \A c \in session[s] : Typed(c, Tables),
           \A c \in session[s] : c[1] \in {"report", "vote"} => c[4] # "none",
           Commit(s)
    PROVE  CommitsTo(s)
<1>1. /\ s \in Open /\ \A c \in session[s] : ~Clash(c)
      /\ db' = Flush(session[s]) /\ session' = [session EXCEPT ![s] = {}] /\ overlapped' = overlapped
  BY DEF Commit
<1>2. Unique = {"report", "vote"}
  BY ModerationAssumption
<1>3. \A c \in session[s] : /\ c[1] = "vote" => ((c[3] = "none") <=> (db["vote"][c[2]] = "none"))
                            /\ c[1] = "report" => ((c[3] = "none") <=> (db["report"][c[2]] = "none"))
  BY <1>1, <1>2 DEF Clash
<1>4. SessionsTyped' /\ session'[s] = {} /\ \A q \in Sessions : q # s => session'[q] = session[q]
  BY <1>1 DEF SessionsTyped
<1> QED BY <1>1, <1>3, <1>4, FlushIs DEF CommitsTo, Open, Single

LEMMA ActsCommitted ==
    ASSUME db \in Tables, NEW w, ActionsWritten(db, w), NoAppeal(db), Supported(db, w),
           \A q \in Sessions : \A c \in w[q] : /\ c[1] = "action" => c[2] \in Actions
                                               /\ c[1] = "appeal" => c[2] \in Appeals,
           NEW s \in Sessions, NEW d, IsFlushed(db, w[s], d),
           NEW x, x[s] = {}, \A q \in Sessions : q # s => x[q] = w[q]
    PROVE  ActionsWritten(d, x) /\ NoAppeal(d) /\ Supported(d, x)
<1>1. ASSUME NEW a \in Actions
      PROVE  /\ db["action"][a] # NoAction => d["action"][a] = db["action"][a]
             /\ \/ d["action"][a] = db["action"][a]
                \/ d["action"][a] # NoAction /\ \E c \in w[s] : c[1] = "action" /\ c[2] = a /\ c[4] = d["action"][a]
  <2>1. \/ \E c \in w[s] : c[1] = "action" /\ c[2] = a /\ d["action"][a] = c[4]
        \/ d["action"][a] = db["action"][a]
    BY TableRows DEF IsFlushed, Names
  <2> QED BY <2>1 DEF ActionsWritten
<1>2. \A p \in Appeals : p[1] \in Actions
  BY DEF Appeals
<1>3. ASSUME NEW p \in Appeals
      PROVE  \/ \E c \in w[s] : c[1] = "appeal" /\ c[2] = p /\ d["appeal"][p] = c[4]
             \/ d["appeal"][p] = db["appeal"][p]
  BY TableRows DEF IsFlushed, Names
<1>4. NoAppeal(d)
  <2>1. ASSUME NEW p \in Appeals, d["appeal"][p] # "none"
        PROVE  db["action"][p[1]] # NoAction
    BY <1>3, <2>1 DEF NoAppeal, ActionsWritten
  <2> QED BY <1>1, <1>2, <2>1 DEF NoAppeal
<1>5. ActionsWritten(d, x)
  <2>1. ASSUME NEW q \in Sessions, NEW c \in x[q]
        PROVE  /\ q # s /\ c \in w[q]
               /\ c[1] = "action" =>
                     /\ d["action"][c[2]] = NoAction /\ c[4] # NoAction
                     /\ \A p \in Sessions \ {q} : \A e \in x[p] : ~(e[1] = "action" /\ e[2] = c[2])
               /\ c[1] = "state" /\ c[4] \in Down => \E e \in x[q] : e[1] = "action" /\ e[4].target = c[2]
               /\ c[1] = "appeal" => d["action"][c[2][1]] # NoAction
    <3>1. q # s /\ c \in w[q] /\ x[q] = w[q]
      OBVIOUS
    <3>2. c[1] = "action" => /\ c[4] # NoAction /\ d["action"][c[2]] = NoAction
      <4>1. SUFFICES ASSUME c[1] = "action" PROVE c[4] # NoAction /\ d["action"][c[2]] = NoAction
        OBVIOUS
      <4>2. db["action"][c[2]] = NoAction /\ c[4] # NoAction /\ ~\E e \in w[s] : e[1] = "action" /\ e[2] = c[2]
        BY <3>1, <4>1 DEF ActionsWritten
      <4>3. c[2] \in Actions
        <5>1. \A e \in w[q] : e[1] = "action" => e[2] \in Actions
          OBVIOUS
        <5> QED BY <3>1, <4>1, <5>1, Zenon
      <4> QED BY <1>1, <4>2, <4>3
    <3>3. c[1] = "action" => \A p \in Sessions \ {q} : \A e \in x[p] : ~(e[1] = "action" /\ e[2] = c[2])
      BY <3>1 DEF ActionsWritten
    <3>4. c[1] = "appeal" => d["action"][c[2][1]] # NoAction
      <4>1. c[1] = "appeal" => c[2] \in Appeals /\ db["action"][c[2][1]] # NoAction
        BY <3>1 DEF ActionsWritten
      <4> QED BY <1>1, <1>2, <4>1
    <3> QED BY <3>1, <3>2, <3>3, <3>4 DEF ActionsWritten
  <2> QED BY <2>1 DEF ActionsWritten
<1>6. ASSUME NEW t \in Targets, d["state"][t] \in Down
      PROVE  \E a \in Actions : Supports(d, x, a, t)
  <2>1. \A q \in Sessions : x[q] # {} => q # s /\ x[q] = w[q]
    OBVIOUS
  <2>2. CASE \E c \in w[s] : c[1] = "state" /\ c[2] = t /\ d["state"][t] = c[4]
    <3>1. PICK e \in w[s] : e[1] = "action" /\ e[4].target = t
      BY <1>6, <2>2 DEF ActionsWritten
    <3> DEFINE a == e[2]
    <3>2. a \in Actions /\ d["action"][a] = e[4] /\ db["action"][a] = NoAction
      <4>1. e[2] \in Actions
        BY <3>1
      <4>2. d[e[1]][e[2]] = e[4]
        BY <3>1 DEF IsFlushed
      <4>3. db["action"][e[2]] = NoAction
        BY <3>1 DEF ActionsWritten
      <4> QED BY <3>1, <4>1, <4>2, <4>3
    <3> HIDE DEF a
    <3>3. \A q \in Sessions : ~Upholds(x[q], a)
      BY <2>1, <3>2 DEF Upholds, ActionsWritten
    <3>4. ASSUME NEW i \in {1, 2} PROVE d["appeal"][<<a, i>>] # "upheld"
      <4>1. <<a, i>> \in Appeals /\ <<a, i>>[1] = a
        BY <3>2 DEF Appeals
      <4>2. db["appeal"][<<a, i>>] = "none"
        BY <3>2, <4>1 DEF NoAppeal
      <4>3. ~\E c \in w[s] : c[1] = "appeal" /\ c[2] = <<a, i>>
        BY <3>2, <4>1 DEF ActionsWritten
      <4> QED BY <1>3, <4>1, <4>2, <4>3
    <3> QED BY <3>1, <3>2, <3>3, <3>4 DEF Supports
  <2>3. CASE d["state"][t] = db["state"][t] /\ \A c \in w[s] : ~(c[1] = "state" /\ c[2] = t)
    <3>1. PICK a \in Actions : Supports(db, w, a, t)
      BY <1>6, <2>3 DEF Supported
    <3>2. d["action"][a].target = t
      <4>1. db["action"][a] # NoAction
        BY <3>1 DEF Supports, NoAction, Targets
      <4> QED BY <1>1, <3>1, <4>1 DEF Supports
    <3>3. ASSUME NEW i \in {1, 2} PROVE d["appeal"][<<a, i>>] # "upheld"
      <4>1. <<a, i>> \in Appeals /\ <<a, i>>[1] = a
        BY DEF Appeals
      <4>2. ~Upholds(w[s], a)
        BY <2>3, <3>1 DEF Supports, Reactivates
      <4> QED BY <1>3, <3>1, <4>1, <4>2 DEF Supports, Upholds
    <3>4. ASSUME NEW q \in Sessions, Upholds(x[q], a) PROVE Reactivates(x[q], t)
      <4>1. x[q] = w[q]
        BY <2>1, <3>4 DEF Upholds
      <4> QED BY <3>1, <3>4, <4>1 DEF Supports
    <3> QED BY <3>2, <3>3, <3>4 DEF Supports
  <2> QED BY <2>2, <2>3, TableRows DEF IsFlushed, Names
<1> QED BY <1>4, <1>5, <1>6 DEF Supported

-----------------------------------------------------------------------------
(* The count of the votes a session sees.                                   *)

\* Session s is to write in_review over the status of report r.
Reviews(changes, r) == \E c \in changes : c[1] = "report" /\ c[2] = r /\ c[4] = "in_review"

\* It has one vote, v of m on r, and sees the tables seen: the votes that are
\* committed, its own, and the report under review.
Sees(s, r, m, v, seen) ==
    /\ \E c \in session[s] : c[1] = "vote" /\ c[2] = <<r, m>> /\ c[4] = v
    /\ \A c \in session[s] : \/ c[1] = "vote" /\ c[2] = <<r, m>> /\ c[4] = v
                             \/ c[1] = "report" /\ c[2] = r /\ c[4] = "in_review"
    /\ db["report"][r] # "none"
    /\ db["report"][r] = "open" => Reviews(session[s], r)
    /\ seen \in Tables /\ Kept(db, seen, {"action", "state", "appeal"})
    /\ seen["vote"][<<r, m>>] = v
    /\ \A x \in Reports \X Moderators : x # <<r, m>> => seen["vote"][x] = db["vote"][x]
    /\ seen["report"][r] = "in_review" /\ seen["kind"][r] = "none"
    /\ \A q \in Reports : q # r => seen["report"][q] = db["report"][q] /\ seen["kind"][q] = db["kind"][q]

\* The tables it read, with the report as it was undecided.
HadRead(s, r, read) ==
    /\ read \in Tables /\ Kept(db, read, {"vote", "penalty", "action", "state", "appeal"})
    /\ read["report"][r] = IF Reviews(session[s], r) THEN "open" ELSE "in_review"
    /\ read["kind"][r] = "none"
    /\ \A q \in Reports : q # r => read["report"][q] = db["report"][q] /\ read["kind"][q] = db["kind"][q]

CountsTo(s, r, m, v, seen, result) ==
    /\ result \in Tables /\ Kept(seen, result, {"vote", "appeal"}) /\ Acts(result)
    /\ \A q \in Reports : q # r => result["report"][q] = db["report"][q] /\ result["kind"][q] = db["kind"][q]
    /\ result["report"][r] = IF Tally(seen, r) = "none" THEN "in_review" ELSE Tally(seen, r)
    /\ result["kind"][r] = "none" \/ Tally(seen, r) \in {"upheld", "dismissed"}

\* Session s counts vote v of m on report r.
Counts(s, r, m, v, read, seen, result) ==
    /\ r \in Reports /\ m \in Moderators \ {Author} /\ v \in Votes \ {"none"}
    /\ voting[s] = r /\ Sees(s, r, m, v, seen) /\ HadRead(s, r, read) /\ CountsTo(s, r, m, v, seen, result)

\* A session that is to count has one vote, and may review its report.
Ballot(s, r, m, v, vote) ==
    /\ r \in Reports /\ m \in Moderators \ {Author} /\ v \in Votes \ {"none"}
    /\ vote = VoteOf(s) /\ vote \in session[s] /\ m = VoterOf(s)
    /\ vote[1] = "vote" /\ vote[2] = <<r, m>> /\ vote[4] = v
    /\ \A c \in session[s] : c = vote \/ (c[1] = "report" /\ c[2] = r /\ c[4] = "in_review")
    /\ db["report"][r] # "none" /\ (db["report"][r] = "open" => Reviews(session[s], r))

LEMMA SessionVoted ==
    ASSUME db \in Tables, Single, NEW s \in Sessions, \A c \in session[s] : Typed(c, Tables),
           voting \in [Sessions -> Reports \cup {"none"}], voting[s] # "none",
           VotesWritten(db, session, voting, locks), \E c \in session[s] : c[1] = "vote"
    PROVE  \E v, vote : Ballot(s, voting[s], VoterOf(s), v, vote)
<1> DEFINE r == voting[s]
           vote == VoteOf(s)
           m == VoterOf(s)
<1>1. vote \in session[s] /\ vote[1] = "vote" /\ m = vote[2][2]
  BY Zenon DEF VoterOf, VoteOf
<1>2. r \in Reports /\ Uncounted(session, voting, s)
  BY DEF VotesWritten, SessionVotes
<1> HIDE DEF vote, m
<1>3. /\ vote[2] \in Reports \X Moderators /\ vote[4] \in Votes /\ vote[4] # "none" /\ m # Author
      /\ db["report"][vote[2][1]] # "none"
      /\ db["report"][vote[2][1]] = "open" => \E e \in session[s] : e[1] = "report" /\ e[2] = vote[2][1]
      /\ \A e \in session[s] : e[1] = "vote" => e[2] = vote[2]
  BY <1>1, TypedColumns DEF VotesWritten, SessionVotes, VoteWritten
<1>4. vote[2] = <<r, m>> /\ m \in Moderators
  BY <1>1, <1>2, <1>3 DEF Uncounted
<1>5. ASSUME NEW c \in session[s]
      PROVE  c = vote \/ (c[1] = "report" /\ c[2] = r /\ c[4] = "in_review")
  <2>1. CASE c[1] = "vote"
    BY <1>1, <1>3, <2>1 DEF Single
  <2>2. CASE c[1] # "vote"
    BY <1>2, <2>2 DEF Uncounted
  <2> QED BY <2>1, <2>2
<1> HIDE DEF r
<1>6. db["report"][r] # "none" /\ (db["report"][r] = "open" => Reviews(session[s], r))
  BY <1>1, <1>3, <1>4, <1>5 DEF Reviews
<1>7. r \in Reports
  BY <1>2 DEF r
<1>8. Ballot(s, r, m, vote[4], vote)
  BY <1>1, <1>3, <1>4, <1>5, <1>6, <1>7, Zenon DEF Ballot, vote, m
<1> QED BY <1>8 DEF r, m

\* Whichever the earlier vote was, a session flushes its own over it, or finds
\* it there.
LEMMA ReadingsAre ==
    ASSUME db \in Tables, Single, NEW s \in Sessions, \A c \in session[s] : Typed(c, Tables),
           NEW r, NEW m, NEW v, NEW vote, Ballot(s, r, m, v, vote), NEW changes \in Readings(s)
    PROVE  /\ \A c \in changes : Typed(c, Tables)
           /\ \A c, e \in changes : c[1] = e[1] /\ c[2] = e[2] => c = e
           /\ \A c \in changes : \/ c[1] = "vote" /\ c[2] = <<r, m>> /\ c[4] = v
                                 \/ c[1] = "report" /\ c[2] = r /\ c[4] = "in_review"
           /\ \/ \E c \in changes : c[1] = "vote" /\ c[2] = <<r, m>> /\ c[4] = v
              \/ db["vote"][<<r, m>>] = v
           /\ Reviews(changes, r) <=> Reviews(session[s], r)
<1> DEFINE now == <<"vote", vote[2], db["vote"][vote[2]], vote[4]>>
           noted == {e \in {now} : e[3] # e[4]}
<1>1. /\ vote = VoteOf(s) /\ vote \in session[s] /\ vote[1] = "vote" /\ vote[2] = <<r, m>> /\ vote[4] = v
      /\ \A c \in session[s] : c = vote \/ (c[1] = "report" /\ c[2] = r /\ c[4] = "in_review")
  BY DEF Ballot
<1>2. changes = session[s] \/ changes = (session[s] \ {vote}) \cup noted
  BY <1>1, Zenon DEF Readings
<1>3. now[1] = "vote" /\ now[2] = <<r, m>> /\ now[3] = db["vote"][<<r, m>>] /\ now[4] = v
  BY <1>1
<1>4. now[3] # now[4] => Typed(now, Tables)
  <2>1. Typed(vote, Tables)
    BY <1>1
  <2> HIDE DEF now
  <2> QED BY <1>1, <1>3, <2>1 DEF Typed
<1>5. noted \in {{}, {now}} /\ (noted # {} => now[3] # now[4]) /\ (noted = {} => now[3] = now[4])
  OBVIOUS
<1> HIDE DEF now, noted
<1>6. CASE changes = session[s]
  BY <1>1, <1>6 DEF Single
<1>7. CASE changes = (session[s] \ {vote}) \cup noted
  <2>1. ASSUME NEW c \in changes
        PROVE  \/ c = now /\ noted # {}
               \/ c \in session[s] /\ c[1] = "report" /\ c[2] = r /\ c[4] = "in_review"
    BY <1>1, <1>5, <1>7
  <2>2. \A c \in changes : Typed(c, Tables)
    BY <1>4, <1>5, <2>1
  <2>3. \A c, e \in changes : c[1] = e[1] /\ c[2] = e[2] => c = e
    BY <1>3, <2>1 DEF Single
  <2>4. \A c \in changes : \/ c[1] = "vote" /\ c[2] = <<r, m>> /\ c[4] = v
                           \/ c[1] = "report" /\ c[2] = r /\ c[4] = "in_review"
    BY <1>3, <2>1
  <2>5. (\E c \in changes : c[1] = "vote" /\ c[2] = <<r, m>> /\ c[4] = v) \/ db["vote"][<<r, m>>] = v
    BY <1>3, <1>5, <1>7
  <2>6. Reviews(changes, r) <=> Reviews(session[s], r)
    BY <1>1, <1>3, <1>7, <2>1 DEF Reviews
  <2> QED BY <2>2, <2>3, <2>4, <2>5, <2>6
<1> QED BY <1>2, <1>6, <1>7

LEMMA SessionSees ==
    ASSUME db \in Tables, Single, NEW s \in Sessions, \A c \in session[s] : Typed(c, Tables),
           NEW r, NEW m, NEW v, NEW vote, Ballot(s, r, m, v, vote),
           NEW STATE changes, changes \in Readings(s)
    PROVE  Sees(s, r, m, v, Held(Flush(changes), r, "in_review"))
<1> DEFINE flushed == Flush(changes)
           seen == Held(flushed, r, "in_review")
<1>1. /\ \A c \in changes : Typed(c, Tables)
      /\ \A c, e \in changes : c[1] = e[1] /\ c[2] = e[2] => c = e
      /\ \A c \in changes : \/ c[1] = "vote" /\ c[2] = <<r, m>> /\ c[4] = v
                            \/ c[1] = "report" /\ c[2] = r /\ c[4] = "in_review"
      /\ (\E c \in changes : c[1] = "vote" /\ c[2] = <<r, m>> /\ c[4] = v) \/ db["vote"][<<r, m>>] = v
  BY ReadingsAre
<1>2. IsFlushed(db, changes, flushed)
  BY <1>1, FlushIs
<1>3. r \in Reports /\ m \in Moderators /\ <<r, m>> \in Reports \X Moderators
  BY DEF Ballot
<1> HIDE DEF flushed
<1>4. flushed \in Tables
  BY <1>2 DEF IsFlushed
<1>5. /\ seen \in Tables /\ Kept(flushed, seen, {"vote", "penalty", "action", "state", "appeal"})
      /\ seen["report"][r] = "in_review" /\ seen["kind"][r] = "none"
      /\ \A q \in Reports : q # r => seen["report"][q] = flushed["report"][q] /\ seen["kind"][q] = flushed["kind"][q]
  <2>1. "in_review" \in Statuses
    BY DEF Statuses
  <2> QED BY <1>3, <1>4, <2>1, HeldIs
<1> HIDE DEF seen
<1>6. ASSUME NEW t \in Names \ {"penalty"}, NEW k \in DOMAIN db[t]
      PROVE  \/ \E c \in changes : c[1] = t /\ c[2] = k /\ flushed[t][k] = c[4]
             \/ flushed[t][k] = db[t][k] /\ \A c \in changes : ~(c[1] = t /\ c[2] = k)
  BY <1>2 DEF IsFlushed
<1>7. /\ flushed["kind"] = db["kind"] /\ flushed["action"] = db["action"]
      /\ flushed["state"] = db["state"] /\ flushed["appeal"] = db["appeal"]
  <2>1. ASSUME NEW t \in {"kind", "action", "state", "appeal"}, NEW k \in DOMAIN db[t]
        PROVE  flushed[t][k] = db[t][k]
    BY <1>1, <1>6 DEF Names
  <2>2. flushed["kind"] = db["kind"]
    BY <1>4, <2>1, TableRows
  <2>3. flushed["action"] = db["action"]
    BY <1>4, <2>1, TableRows
  <2>4. flushed["state"] = db["state"]
    BY <1>4, <2>1, TableRows
  <2>5. flushed["appeal"] = db["appeal"]
    BY <1>4, <2>1, TableRows
  <2> QED BY <2>2, <2>3, <2>4, <2>5
<1>8. ASSUME NEW x \in Reports \X Moderators
      PROVE  seen["vote"][x] = IF x = <<r, m>> THEN v ELSE db["vote"][x]
  <2>1. "vote" \in Names \ {"penalty"} /\ x \in DOMAIN db["vote"]
    BY TableRows DEF Names
  <2>2. \/ \E c \in changes : c[1] = "vote" /\ c[2] = x /\ flushed["vote"][x] = c[4]
        \/ flushed["vote"][x] = db["vote"][x] /\ \A c \in changes : ~(c[1] = "vote" /\ c[2] = x)
    BY <1>6, <2>1
  <2>3. seen["vote"] = flushed["vote"]
    BY <1>5 DEF Kept
  <2> QED BY <1>1, <2>2, <2>3
<1>9. ASSUME NEW q \in Reports, q # r
      PROVE  seen["report"][q] = db["report"][q] /\ seen["kind"][q] = db["kind"][q]
  <2>1. "report" \in Names \ {"penalty"} /\ q \in DOMAIN db["report"]
    BY TableRows DEF Names
  <2>2. \/ \E c \in changes : c[1] = "report" /\ c[2] = q /\ flushed["report"][q] = c[4]
        \/ flushed["report"][q] = db["report"][q] /\ \A c \in changes : ~(c[1] = "report" /\ c[2] = q)
    BY <1>6, <2>1
  <2> QED BY <1>1, <1>5, <1>7, <1>9, <2>2
<1>10. Kept(db, seen, {"action", "state", "appeal"})
  BY <1>5, <1>7 DEF Kept
<1>11. /\ \E c \in session[s] : c[1] = "vote" /\ c[2] = <<r, m>> /\ c[4] = v
       /\ \A c \in session[s] : \/ c[1] = "vote" /\ c[2] = <<r, m>> /\ c[4] = v
                                \/ c[1] = "report" /\ c[2] = r /\ c[4] = "in_review"
       /\ db["report"][r] # "none" /\ (db["report"][r] = "open" => Reviews(session[s], r))
  BY DEF Ballot
<1>12. Sees(s, r, m, v, seen)
  BY <1>3, <1>5, <1>8, <1>9, <1>10, <1>11 DEF Sees
<1> QED BY <1>12 DEF seen, flushed

LEMMA CountIs ==
    ASSUME db \in Tables, SessionsTyped, Single, NEW s \in Sessions,
           \A c \in session[s] : Typed(c, Tables),
           voting \in [Sessions -> Reports \cup {"none"}], locks \subseteq Open,
           VotesWritten(db, session, voting, locks), CountVotes(s)
    PROVE  \E r, m, v, read, seen, result :
              /\ Counts(s, r, m, v, read, seen, result) /\ session[s] # {}
              /\ WillWrite(s, read, result) /\ WellWritten(s)
              /\ locks' = (IF Reviews(session[s], r) THEN locks \cup {s} ELSE locks)
              /\ voting' = [voting EXCEPT ![s] = "none"] /\ UNCHANGED <<cast, overlapped>>
<1> DEFINE r == voting[s]
           m == VoterOf(s)
           read == Held(db, r, IF Writes(s, r) THEN "open" ELSE "in_review")
<1>1. PICK changes \in Readings(s) :
          LET seen == Held(Flush(changes), r, "in_review")
          IN  CanLog(seen) /\ session' = [session EXCEPT ![s] = ChangesFrom(read, Counted(seen, r, m))]
  BY Zenon DEF CountVotes
<1>2. /\ s \in Open /\ voting[s] # "none"
      /\ \E c \in session[s] : c[1] = "vote"
      /\ locks' = (IF Writes(s, r) THEN locks \cup {s} ELSE locks)
      /\ voting' = [voting EXCEPT ![s] = "none"] /\ UNCHANGED <<db, cast, overlapped>>
  BY Zenon DEF CountVotes
<1>3. PICK v, vote : Ballot(s, r, m, v, vote)
  BY <1>2, SessionVoted
<1> DEFINE seen == Held(Flush(changes), r, "in_review")
           result == Counted(seen, r, m)
<1>4. Sees(s, r, m, v, seen)
  BY <1>3, SessionSees
<1>5. r \in Reports /\ m \in Moderators \ {Author} /\ v \in Votes \ {"none"}
  BY <1>3 DEF Ballot
<1>6. Writes(s, r) <=> Reviews(session[s], r)
  BY <1>2, <1>4 DEF Writes, Writing, Reviews, Sees
<1>7. HadRead(s, r, read)
  <2>1. "open" \in Statuses /\ "in_review" \in Statuses
    BY DEF Statuses
  <2> QED BY <1>5, <1>6, <2>1, HeldIs DEF HadRead
<1> HIDE DEF r, m, seen, read
<1>8. seen \in Tables /\ Kept(db, seen, {"action", "state", "appeal"}) /\ CanLog(seen)
  BY <1>1, <1>4 DEF Sees, seen
<1>9. /\ result \in Tables /\ Kept(seen, result, {"vote", "appeal"}) /\ Enforced(seen, result)
      /\ \A q \in Reports : q # r => result["report"][q] = seen["report"][q] /\ result["kind"][q] = seen["kind"][q]
      /\ result["report"][r] = IF Tally(seen, r) = "none" THEN seen["report"][r] ELSE Tally(seen, r)
      /\ result["kind"][r] = seen["kind"][r] \/ Tally(seen, r) \in {"upheld", "dismissed"}
  BY <1>5, <1>8, CountedIs, Zenon
<1> HIDE DEF result
<1>10. Acts(result)
  <2>1. /\ NextAction(seen) = NextAction(db)
        /\ seen["action"] = db["action"] /\ seen["state"] = db["state"]
    BY <1>8 DEF NextAction, Kept
  <2>2. Enforced(db, result)
    BY <1>9, <2>1 DEF Enforced
  <2>3. Kept(db, result, {"appeal"})
    BY <1>8, <1>9 DEF Kept
  <2> QED BY <1>9, <2>2, <2>3, EnforcedActs
<1>11. CountsTo(s, r, m, v, seen, result)
  BY <1>4, <1>9, <1>10 DEF CountsTo, Sees
<1>12. Counts(s, r, m, v, read, seen, result)
  BY <1>4, <1>5, <1>7, <1>11 DEF Counts, r
<1>13. WillWrite(s, read, result) /\ WellWritten(s)
  <2>1. session' = [session EXCEPT ![s] = ChangesFrom(read, result)] /\ read \in Tables
    BY <1>1, <1>7 DEF HadRead, seen, result
  <2>2. WillWrite(s, read, result) /\ session'[s] = ChangesFrom(read, result)
    BY <1>2, <2>1, ChangesWrite
  <2> QED BY <1>9, <2>1, <2>2, ChangesFromWell
<1>14. locks' = (IF Reviews(session[s], r) THEN locks \cup {s} ELSE locks)
  BY <1>2, <1>6, Zenon DEF r
<1> QED BY <1>2, <1>12, <1>13, <1>14 DEF Open

-----------------------------------------------------------------------------
(* Votes under the steps.                                                   *)

LEMMA SameVotes ==
    ASSUME NEW d, NEW w, NEW g, NEW l, NEW x, NEW h, NEW k, NEW q, SessionVotes(d, w, g, l, q),
           x[q] = w[q], h[q] = g[q], (q \in k) <=> (q \in l)
    PROVE  SessionVotes(d, x, h, k, q)
  BY DEF SessionVotes, ReportWritten, VoteWritten, Uncounted

LEMMA NothingVoted ==
    ASSUME NEW d, NEW w, NEW g, NEW l, NEW q, w[q] = {}, g[q] = "none"
    PROVE  SessionVotes(d, w, g, l, q)
  BY DEF SessionVotes

LEMMA VotesPlain ==
    ASSUME db \in Tables, VotesWritten(db, session, voting, locks), NEW s \in Sessions, session[s] = {},
           NEW read \in Tables, Kept(db, read, {"vote"}),
           NEW result \in Tables, Rules(read, result), Kept(db, result, {"vote"}),
           NEW w, AreChanges(read, result, w[s]), \A q \in Sessions : q # s => w[q] = session[q]
    PROVE  VotesWritten(db, w, voting, locks)
<1>1. voting[s] = "none"
  BY DEF VotesWritten, SessionVotes
<1>2. ASSUME NEW c \in w[s] PROVE c[1] # "vote"
  BY DEF AreChanges, Kept
<1>3. ASSUME NEW c \in w[s], c[1] = "report" PROVE ReportWritten(w, voting, locks, s, c)
  <2>1. /\ c[2] \in Reports /\ c[3] = read["report"][c[2]] /\ c[4] = result["report"][c[2]]
        /\ read["report"][c[2]] # result["report"][c[2]]
    BY <1>3, TableRows DEF AreChanges
  <2> QED BY <2>1 DEF ReportWritten, Rules, Decided
<1>4. SessionVotes(db, w, voting, locks, s)
  BY <1>1, <1>2, <1>3 DEF SessionVotes
<1> QED BY <1>4, SameVotes DEF VotesWritten

LEMMA VotesBallot ==
    ASSUME db \in Tables, VotesWritten(db, session, voting, locks),
           voting \in [Sessions -> Reports \cup {"none"}], locks \subseteq Open,
           NEW s \in Sessions, session[s] = {}, NEW r \in Reports, NEW m \in Moderators \ {Author},
           NEW v \in Votes \ {"none"}, NEW result \in Tables,
           db["report"][r] \in {"open", "in_review"},
           Kept(db, result, Names \ {"report", "vote"}),
           result["vote"][<<r, m>>] = v, result["report"][r] = "in_review",
           \A x \in Reports \X Moderators : x # <<r, m>> => result["vote"][x] = db["vote"][x],
           \A q \in Reports : q # r => result["report"][q] = db["report"][q],
           NEW w, AreChanges(db, result, w[s]), w[s] # {},
           \A q \in Sessions : q # s => w[q] = session[q]
    PROVE  VotesWritten(db, w, [voting EXCEPT ![s] = r], locks)
<1> DEFINE g == [voting EXCEPT ![s] = r]
<1>1. s \notin locks
  BY DEF Open
<1>2. g[s] = r /\ \A q \in Sessions : q # s => g[q] = voting[q]
  OBVIOUS
<1> HIDE DEF g
<1>3. ASSUME NEW c \in w[s]
      PROVE  \/ c[1] = "vote" /\ c[2] = <<r, m>> /\ c[4] = v /\ c[3] = db["vote"][<<r, m>>]
             \/ c[1] = "report" /\ c[2] = r /\ c[4] = "in_review" /\ c[3] = db["report"][r]
  <2>1. /\ c[1] \in Names /\ c[2] \in DOMAIN db[c[1]]
        /\ c[3] = db[c[1]][c[2]] /\ c[4] = result[c[1]][c[2]] /\ c[3] # c[4]
    BY DEF AreChanges
  <2>2. c[1] \in {"report", "vote"}
    BY <2>1 DEF Kept
  <2>3. CASE c[1] = "vote"
    BY <2>1, <2>3, TableRows, SMTT(30)
  <2>4. CASE c[1] = "report"
    BY <2>1, <2>4, TableRows
  <2> QED BY <2>2, <2>3, <2>4
<1>4. ASSUME db["report"][r] = "open" PROVE \E e \in w[s] : e[1] = "report" /\ e[2] = r
  <2>1. <<"report", r, db["report"][r], result["report"][r]>> \in w[s]
    BY <1>4, TableRows DEF AreChanges, Names
  <2> QED BY <2>1
<1>5. ASSUME NEW c \in w[s], c[1] = "report" PROVE ReportWritten(w, g, locks, s, c)
  <2>1. c[2] = r /\ c[4] = "in_review" /\ c[3] = db["report"][r] /\ c[3] # c[4]
    BY <1>3, <1>5 DEF AreChanges
  <2> QED BY <1>2, <1>4, <2>1 DEF ReportWritten
<1>6. ASSUME NEW c \in w[s], c[1] = "vote" PROVE VoteWritten(db, w, s, c)
  <2>1. c[2] = <<r, m>> /\ c[4] = v /\ \A e \in w[s] : e[1] = "vote" => e[2] = <<r, m>>
    BY <1>3, <1>6
  <2> QED BY <1>4, <2>1 DEF VoteWritten
<1>7. Uncounted(w, g, s)
  BY <1>2, <1>3 DEF Uncounted
<1>8. SessionVotes(db, w, g, locks, s)
  BY <1>1, <1>5, <1>6, <1>7 DEF SessionVotes
<1>9. VotesWritten(db, w, g, locks)
  BY <1>2, <1>8, SameVotes DEF VotesWritten
<1> QED BY <1>9 DEF g

LEMMA VotesCount ==
    ASSUME db \in Tables, VotesWritten(db, session, voting, locks),
           voting \in [Sessions -> Reports \cup {"none"}],
           NEW s \in Sessions, NEW r, NEW m, NEW v, NEW read, NEW seen, NEW result,
           Counts(s, r, m, v, read, seen, result),
           NEW w, AreChanges(read, result, w[s]), \A q \in Sessions : q # s => w[q] = session[q]
    PROVE  VotesWritten(db, w, [voting EXCEPT ![s] = "none"],
                        IF Reviews(session[s], r) THEN locks \cup {s} ELSE locks)
<1> DEFINE g == [voting EXCEPT ![s] = "none"]
           l == IF Reviews(session[s], r) THEN locks \cup {s} ELSE locks
<1>1. g[s] = "none" /\ \A q \in Sessions : q # s => g[q] = voting[q] /\ ((q \in l) <=> (q \in locks))
  OBVIOUS
<1>2. Reviews(session[s], r) => s \in l
  OBVIOUS
<1> HIDE DEF g, l
<1>3. /\ r \in Reports /\ m \in Moderators \ {Author} /\ v \in Votes \ {"none"}
      /\ Sees(s, r, m, v, seen) /\ HadRead(s, r, read) /\ CountsTo(s, r, m, v, seen, result)
      /\ read \in Tables
  BY DEF Counts, HadRead
<1>4. ASSUME NEW c \in w[s], c[1] = "report" PROVE ReportWritten(w, g, l, s, c)
  <2>1. c[2] \in Reports /\ c[4] = result["report"][c[2]] /\ result["report"][c[2]] # read["report"][c[2]]
    BY <1>3, <1>4, TableRows DEF AreChanges
  <2>2. c[2] = r
    BY <1>3, <2>1 DEF CountsTo, HadRead
  <2>3. \/ c[4] = "in_review" /\ Reviews(session[s], r)
        \/ c[4] \in {"escalated", "upheld", "dismissed"}
    BY <1>3, <2>1, <2>2, TallyIs DEF CountsTo, HadRead
  <2> QED BY <1>2, <2>3 DEF ReportWritten
<1>5. ASSUME NEW c \in w[s], c[1] = "vote" PROVE c[2] = <<r, m>> /\ c[4] = v
  <2>1. /\ c[2] \in Reports \X Moderators
        /\ c[4] = result["vote"][c[2]] /\ result["vote"][c[2]] # read["vote"][c[2]]
    BY <1>3, <1>5, TableRows DEF AreChanges
  <2> QED BY <1>3, <2>1 DEF CountsTo, Sees, Kept, HadRead
<1>6. db["report"][r] = "open" => \E e \in w[s] : e[1] = "report" /\ e[2] = r
  <2>1. SUFFICES ASSUME db["report"][r] = "open" PROVE \E e \in w[s] : e[1] = "report" /\ e[2] = r
    OBVIOUS
  <2>2. result["report"][r] # read["report"][r]
    BY <1>3, <2>1, TallyIs DEF CountsTo, Sees, HadRead
  <2>3. <<"report", r, read["report"][r], result["report"][r]>> \in w[s]
    BY <1>3, <2>2, TableRows DEF AreChanges, Names
  <2> QED BY <2>3
<1>7. ASSUME NEW c \in w[s], c[1] = "vote" PROVE VoteWritten(db, w, s, c)
  <2>1. c[2] = <<r, m>> /\ c[4] = v /\ (\A e \in w[s] : e[1] = "vote" => e[2] = <<r, m>>) /\ db["report"][r] # "none"
    BY <1>3, <1>5, <1>7 DEF Sees
  <2> QED BY <1>3, <1>6, <2>1 DEF VoteWritten
<1>8. SessionVotes(db, w, g, l, s)
  BY <1>1, <1>4, <1>7 DEF SessionVotes
<1>9. VotesWritten(db, w, g, l)
  BY <1>1, <1>8, SameVotes DEF VotesWritten
<1> QED BY <1>9 DEF g, l

\* Whatever a session writes over a report that is there is neither none nor open.
LEMMA VotesCommitted ==
    ASSUME db \in Tables, VotesHeld(db, cast), VotesWritten(db, session, voting, locks),
           \A q \in Sessions : \A c \in session[q] : Typed(c, Tables),
           voting \in [Sessions -> Reports \cup {"none"}], NEW s \in Sessions, CommitsTo(s), voting[s] = "none",
           locks' = locks \ {s}, cast' = cast \cup CastBy(session[s]), voting' = [voting EXCEPT ![s] = "none"]
    PROVE  VotesHeld(db', cast') /\ VotesWritten(db', session', voting', locks')
<1> DEFINE d == db'
<1>1. IsFlushed(db, session[s], d)
  BY DEF CommitsTo
<1> HIDE DEF d
<1>2. ASSUME NEW r \in Reports
      PROVE  /\ db["report"][r] # "none" => d["report"][r] # "none"
             /\ db["report"][r] # "none" /\ d["report"][r] = "open" =>
                   db["report"][r] = "open" /\ ~\E e \in session[s] : e[1] = "report" /\ e[2] = r
  <2>1. \/ \E c \in session[s] : c[1] = "report" /\ c[2] = r /\ d["report"][r] = c[4]
        \/ d["report"][r] = db["report"][r] /\ \A c \in session[s] : ~(c[1] = "report" /\ c[2] = r)
    BY <1>1, TableRows DEF IsFlushed, Names
  <2>2. CASE \E c \in session[s] : c[1] = "report" /\ c[2] = r /\ d["report"][r] = c[4]
    <3>1. PICK c \in session[s] : c[1] = "report" /\ c[2] = r /\ d["report"][r] = c[4]
      BY <2>2
    <3>2. c[4] # "none" /\ (c[4] = "open" => c[3] = "none")
      BY <3>1 DEF VotesWritten, SessionVotes, ReportWritten
    <3>3. (c[3] = "none") <=> (db["report"][r] = "none")
      BY <3>1 DEF CommitsTo
    <3> QED BY <3>1, <3>2, <3>3
  <2> QED BY <2>1, <2>2
<1>3. ASSUME NEW r \in Reports, NEW m \in Moderators, d["vote"][<<r, m>>] # "none"
      PROVE  /\ m # Author /\ <<r, m, d["vote"][<<r, m>>]>> \in cast'
             /\ d["report"][r] \notin {"none", "open"}
  <2>1. \/ \E c \in session[s] : c[1] = "vote" /\ c[2] = <<r, m>> /\ d["vote"][<<r, m>>] = c[4]
        \/ d["vote"][<<r, m>>] = db["vote"][<<r, m>>]
    BY <1>1, TableRows, SMTT(30) DEF IsFlushed, Names
  <2>2. CASE \E c \in session[s] : c[1] = "vote" /\ c[2] = <<r, m>> /\ d["vote"][<<r, m>>] = c[4]
    <3>1. PICK c \in session[s] : c[1] = "vote" /\ c[2] = <<r, m>> /\ d["vote"][<<r, m>>] = c[4]
      BY <2>2
    <3>2. /\ m # Author /\ db["report"][r] # "none"
          /\ db["report"][r] = "open" => \E e \in session[s] : e[1] = "report" /\ e[2] = r
      BY <3>1 DEF VotesWritten, SessionVotes, VoteWritten
    <3>3. <<r, m, c[4]>> \in CastBy(session[s])
      BY <3>1 DEF CastBy
    <3> QED BY <1>2, <3>1, <3>2, <3>3
  <2>3. CASE d["vote"][<<r, m>>] = db["vote"][<<r, m>>]
    BY <1>2, <1>3, <2>3 DEF VotesHeld
  <2> QED BY <2>1, <2>2, <2>3
<1>4. ASSUME NEW q \in Sessions, q # s PROVE SessionVotes(d, session, voting, locks, q)
  <2>1. ASSUME NEW c \in session[q], c[1] = "vote" PROVE VoteWritten(d, session, q, c)
    <3>1. VoteWritten(db, session, q, c)
      BY <2>1 DEF VotesWritten, SessionVotes
    <3>2. c[2] \in Reports \X Moderators
      BY <2>1, TypedColumns
    <3>3. c[2][1] \in Reports
      BY <3>2
    <3> QED BY <1>2, <3>1, <3>3 DEF VoteWritten
  <2> QED BY <2>1 DEF VotesWritten, SessionVotes
<1>5. /\ session'[s] = {} /\ voting'[s] = "none"
      /\ \A q \in Sessions : q # s => session'[q] = session[q] /\ voting'[q] = voting[q] /\ ((q \in locks') <=> (q \in locks))
  BY DEF CommitsTo
<1>6. VotesWritten(d, session', voting', locks')
  BY <1>4, <1>5, SameVotes, NothingVoted DEF VotesWritten
<1> QED BY <1>3, <1>6 DEF VotesHeld, d

-----------------------------------------------------------------------------
(* Verdicts under the steps.                                                *)

LEMMA BackedMore ==
    ASSUME NEW r, NEW outcome, NEW k, NEW j, BackedBy(r, outcome, k), k \subseteq j
    PROVE  BackedBy(r, outcome, j)
<1> DEFINE v == VoteFor(outcome)
<1>1. Cardinality(Behind(r, v, k)) >= CONSENSUS_REQUIRED
  BY DEF BackedBy
<1>2. /\ Behind(r, v, k) \subseteq Behind(r, v, j)
      /\ Behind(r, v, k) \in SUBSET Moderators /\ Behind(r, v, j) \in SUBSET Moderators
  BY DEF Behind
<1>3. Cardinality(Behind(r, v, k)) <= Cardinality(Behind(r, v, j))
  BY <1>2, FiniteVoters, FS_Subset
<1>4. Cardinality(Behind(r, v, k)) \in Nat /\ Cardinality(Behind(r, v, j)) \in Nat
  BY <1>2, FiniteVoters
<1> QED BY <1>1, <1>3, <1>4 DEF BackedBy, CONSENSUS_REQUIRED

LEMMA VerdictsPlain ==
    ASSUME db \in Tables, VerdictsWritten(session, cast), NEW s \in Sessions,
           NEW read \in Tables, NEW result \in Tables, Rules(read, result),
           NEW w, AreChanges(read, result, w[s]), \A q \in Sessions : q # s => w[q] = session[q]
    PROVE  VerdictsWritten(w, cast)
<1>1. ASSUME NEW c \in w[s], c[1] = "kind", c[4] = "community"
      PROVE  \E e \in w[s] : e[1] = "report" /\ e[2] = c[2] /\ BackedBy(c[2], e[4], cast \cup CastBy(w[s]))
  <2>1. c[2] \in Reports /\ c[4] = result["kind"][c[2]] /\ result["kind"][c[2]] # read["kind"][c[2]]
    BY <1>1, TableRows DEF AreChanges
  <2>2. result["report"][c[2]] # read["report"][c[2]] /\ BackedBy(c[2], result["report"][c[2]], cast)
    BY <1>1, <2>1 DEF Rules
  <2>3. <<"report", c[2], read["report"][c[2]], result["report"][c[2]]>> \in w[s]
    BY <2>1, <2>2, ChangeIsWritten, TableRows DEF Names
  <2> QED BY <2>2, <2>3, BackedMore
<1>2. ASSUME NEW q \in Sessions, q # s PROVE w[q] = session[q]
  BY <1>2
<1> QED BY <1>1, <1>2 DEF VerdictsWritten

LEMMA VerdictsCount ==
    ASSUME db \in Tables, VotesHeld(db, cast), VerdictsWritten(session, cast),
           NEW s \in Sessions, NEW r, NEW m, NEW v, NEW read, NEW seen, NEW result,
           Counts(s, r, m, v, read, seen, result),
           NEW w, AreChanges(read, result, w[s]), \A q \in Sessions : q # s => w[q] = session[q]
    PROVE  VerdictsWritten(w, cast)
<1> DEFINE votes == cast \cup CastBy(w[s])
<1>1. /\ r \in Reports /\ m \in Moderators \ {Author} /\ v \in Votes \ {"none"}
      /\ Sees(s, r, m, v, seen) /\ HadRead(s, r, read) /\ CountsTo(s, r, m, v, seen, result)
      /\ read \in Tables /\ read["vote"] = db["vote"] /\ result["vote"] = seen["vote"]
  BY DEF Counts, HadRead, Kept, CountsTo
<1>2. ASSUME NEW u \in {"remove", "keep"}, NEW x \in For(seen, r, u) PROVE x \in Behind(r, u, votes)
  <2>1. x \in Moderators /\ seen["vote"][<<r, x>>] = u /\ <<r, x>> \in Reports \X Moderators
    BY <1>1, <1>2 DEF For
  <2>2. CASE db["vote"][<<r, x>>] = u
    <3>1. x # Author /\ <<r, x, u>> \in cast
      BY <1>1, <2>1, <2>2 DEF VotesHeld
    <3> QED BY <2>1, <3>1 DEF Behind
  <2>3. CASE db["vote"][<<r, x>>] # u
    <3>1. x = m /\ u = v
      BY <1>1, <2>1, <2>3 DEF Sees
    <3>2. <<"vote", <<r, x>>, read["vote"][<<r, x>>], result["vote"][<<r, x>>]>> \in w[s]
      <4>1. "vote" \in Names /\ <<r, x>> \in DOMAIN read["vote"]
        BY <1>1, <2>1, TableRows DEF Names
      <4>2. result["vote"][<<r, x>>] # read["vote"][<<r, x>>]
        BY <1>1, <2>1, <2>3
      <4> QED BY <4>1, <4>2, ChangeIsWritten
    <3>3. result["vote"][<<r, x>>] = u
      BY <1>1, <2>1
    <3>4. <<r, x, u>> \in CastBy(w[s])
      BY <3>2, <3>3 DEF CastBy
    <3> QED BY <1>1, <2>1, <3>1, <3>4 DEF Behind
  <2> QED BY <2>2, <2>3
<1> HIDE DEF votes
<1>3. ASSUME NEW c \in w[s], c[1] = "kind", c[4] = "community"
      PROVE  \E e \in w[s] : e[1] = "report" /\ e[2] = c[2] /\ BackedBy(c[2], e[4], votes)
  <2>1. c[2] \in Reports /\ c[4] = result["kind"][c[2]] /\ result["kind"][c[2]] # read["kind"][c[2]]
    BY <1>1, <1>3, TableRows DEF AreChanges
  <2>2. c[2] = r
    BY <1>1, <2>1 DEF CountsTo, HadRead
  <2>3. Tally(seen, r) \in {"upheld", "dismissed"} /\ result["report"][r] = Tally(seen, r)
    BY <1>1, <1>3, <2>1, <2>2 DEF CountsTo
  <2>4. BackedBy(r, Tally(seen, r), votes)
    BY <1>1, <1>2, <2>3, CountBacks
  <2>5. <<"report", r, read["report"][r], result["report"][r]>> \in w[s]
    <3>1. result["report"][r] # read["report"][r]
      BY <1>1, <2>3 DEF HadRead
    <3> QED BY <1>1, <3>1, ChangeIsWritten, TableRows DEF Names
  <2> QED BY <2>2, <2>3, <2>4, <2>5
<1>4. ASSUME NEW q \in Sessions, q # s PROVE w[q] = session[q]
  BY <1>4
<1> QED BY <1>3, <1>4 DEF VerdictsWritten, votes

LEMMA VerdictsCommitted ==
    ASSUME NEW w, VerdictsWritten(w, cast), NEW s \in Sessions,
           NEW x, x[s] = {}, \A q \in Sessions : q # s => x[q] = w[q],
           NEW k, k = cast \cup CastBy(w[s])
    PROVE  VerdictsWritten(x, k)
<1>1. ASSUME NEW q \in Sessions, NEW c \in x[q], c[1] = "kind", c[4] = "community"
      PROVE  \E e \in x[q] : e[1] = "report" /\ e[2] = c[2] /\ BackedBy(c[2], e[4], k \cup CastBy(x[q]))
  <2>1. x[q] = w[q]
    BY <1>1
  <2>2. PICK e \in w[q] : e[1] = "report" /\ e[2] = c[2] /\ BackedBy(c[2], e[4], cast \cup CastBy(w[q]))
    BY <1>1, <2>1 DEF VerdictsWritten
  <2>3. cast \cup CastBy(w[q]) \subseteq k \cup CastBy(x[q])
    BY <2>1
  <2> QED BY <2>1, <2>2, <2>3, BackedMore
<1> QED BY <1>1 DEF VerdictsWritten

\* A session that is rolled back takes what it would have written with it.
LEMMA RolledBack ==
    ASSUME ActionsWritten(db, session), Supported(db, session),
           VotesWritten(db, session, voting, locks),
           VerdictsWritten(session, cast), NEW s \in Sessions,
           NEW x, x[s] = {}, \A q \in Sessions : q # s => x[q] = session[q],
           NEW g, g[s] = "none", \A q \in Sessions : q # s => g[q] = voting[q],
           NEW l, l = locks \ {s}
    PROVE  /\ ActionsWritten(db, x) /\ Supported(db, x) /\ VotesWritten(db, x, g, l) /\ VerdictsWritten(x, cast)
<1>1. ActionsWritten(db, x)
  BY DEF ActionsWritten
<1>2. Supported(db, x)
  <2>1. ASSUME NEW a, NEW t, Supports(db, session, a, t) PROVE Supports(db, x, a, t)
    <3>1. ASSUME NEW q \in Sessions, Upholds(x[q], a) PROVE Reactivates(x[q], t)
      <4>1. q # s /\ x[q] = session[q]
        BY <3>1 DEF Upholds
      <4> QED BY <2>1, <3>1, <4>1 DEF Supports
    <3> QED BY <2>1, <3>1 DEF Supports
  <2> QED BY <2>1 DEF Supported
<1>3. VotesWritten(db, x, g, l)
  BY SameVotes, NothingVoted DEF VotesWritten
<1>4. VerdictsWritten(x, cast)
  <2>1. ASSUME NEW q \in Sessions, NEW c \in x[q], c[1] = "kind", c[4] = "community"
        PROVE  \E e \in x[q] : e[1] = "report" /\ e[2] = c[2] /\ BackedBy(c[2], e[4], cast \cup CastBy(x[q]))
    <3>1. q # s /\ x[q] = session[q]
      BY <2>1
    <3> QED BY <2>1, <3>1 DEF VerdictsWritten
  <2> QED BY <2>1 DEF VerdictsWritten
<1> QED BY <1>1, <1>2, <1>3, <1>4

-----------------------------------------------------------------------------
(* Types under the steps.                                                   *)

LEMMA TypedStays ==
    ASSUME db \in Tables, db' \in Tables, NEW c, Typed(c, Tables)
    PROVE  Typed(c, Tables)'
<1>1. DOMAIN db = DOMAIN db' /\ \A t \in Names : DOMAIN db[t] = DOMAIN db'[t]
  BY TableRows DEF Names
<1>2. c[1] \in Names
  BY TypedColumns
<1> QED BY <1>1, <1>2 DEF Typed

LEMMA WritesTyped ==
    ASSUME TypedInv, NEW s \in Sessions, SessionsTyped', db' = db, WellWritten(s),
           \A q \in Sessions : q # s => session'[q] = session[q]
    PROVE  /\ Single' /\ db' \in Tables
           /\ (\A q \in Sessions : \A c \in session[q] : Typed(c, Tables))'
           /\ Open' \subseteq Open \cup {s} /\ Open \subseteq Open' \cup {s}
<1>1. db \in Tables
  BY DEF TypedInv
<1>2. Single'
  <2>1. ASSUME NEW q \in Sessions, NEW c \in session'[q], NEW d \in session'[q], c[1] = d[1],
               c[2] = d[2]
        PROVE  c = d
    <3>1. CASE q = s
      BY <2>1, <3>1 DEF WellWritten
    <3>2. CASE q # s
      BY <2>1, <3>2 DEF TypedInv, Single
    <3> QED BY <3>1, <3>2
  <2> QED BY <2>1 DEF Single
<1>3. ASSUME NEW q \in Sessions, NEW c \in session'[q] PROVE Typed(c, Tables)'
  <2>1. Typed(c, Tables)
    <3>1. CASE q = s
      BY <1>3, <3>1 DEF WellWritten
    <3>2. CASE q # s
      BY <1>3, <3>2 DEF TypedInv
    <3> QED BY <3>1, <3>2
  <2> QED BY <1>1, <2>1, TypedStays
<1>4. Open' \subseteq Open \cup {s} /\ Open \subseteq Open' \cup {s}
  BY DEF Open
<1> QED BY <1>1, <1>2, <1>3, <1>4

LEMMA BeginTyped ==
    ASSUME TypedInv, NEW s \in Sessions, NEW STATE read, read \in Tables,
           NEW STATE result, result \in Tables, Starts(s, read, result),
           voting' \in [Sessions -> Reports \cup {"none"}], UNCHANGED <<locks, cast>>
    PROVE  TypedInv'
<1>1. WillWrite(s, read, result) /\ session'[s] # {} /\ WellWritten(s)
  <2>1. /\ WillWrite(s, read, result) /\ session'[s] # {}
        /\ session'[s] = ChangesFrom(read, result) /\ db \in Tables
    BY Begins DEF TypedInv
  <2> QED BY <2>1, ChangesFromWell
<1>2. overlapped' \in BOOLEAN /\ (overlapped \/ Open # {} => overlapped')
  BY DEF Starts
<1>3. /\ SessionsTyped' /\ Single' /\ db' \in Tables
      /\ (\A q \in Sessions : \A c \in session[q] : Typed(c, Tables))'
      /\ Open' \subseteq Open \cup {s} /\ Open \subseteq Open' \cup {s}
  BY <1>1, WritesTyped DEF WillWrite
<1>4. s \in Open'
  BY <1>1 DEF Open
<1>5. Alone'
  BY <1>2, <1>3 DEF Alone
<1>6. overlapped' \in BOOLEAN
  BY <1>2
<1>7. locks' \subseteq Open' /\ cast' \subseteq Reports \X Moderators \X Votes
  BY <1>3, <1>4 DEF TypedInv
<1> QED BY <1>3, <1>5, <1>6, <1>7 DEF TypedInv

LEMMA CountTyped ==
    ASSUME TypedInv, VotesWritten(db, session, voting, locks), NEW s \in Sessions, CountVotes(s)
    PROVE  TypedInv'
<1>1. PICK r, m, v, read, seen, result :
              /\ Counts(s, r, m, v, read, seen, result) /\ session[s] # {}
              /\ WillWrite(s, read, result) /\ WellWritten(s)
              /\ locks' = (IF Reviews(session[s], r) THEN locks \cup {s} ELSE locks)
              /\ voting' = [voting EXCEPT ![s] = "none"] /\ UNCHANGED <<cast, overlapped>>
  BY CountIs DEF TypedInv
<1>2. /\ SessionsTyped' /\ Single' /\ db' \in Tables
      /\ (\A q \in Sessions : \A c \in session[q] : Typed(c, Tables))'
      /\ Open' \subseteq Open \cup {s} /\ Open \subseteq Open' \cup {s}
  BY <1>1, WritesTyped DEF WillWrite
<1>3. s \in Open /\ s \notin locks
  <2>1. voting[s] # "none"
    BY DEF CountVotes
  <2> QED BY <1>1, <2>1 DEF VotesWritten, SessionVotes, Open
<1>4. Alone'
  BY <1>1, <1>2, <1>3 DEF Alone, TypedInv
<1>5. Reviews(session[s], r) => s \in Open'
  <2>1. SUFFICES ASSUME Reviews(session[s], r) PROVE session'[s] # {}
    BY DEF Open
  <2>2. r \in Reports /\ read \in Tables /\ read["report"][r] # result["report"][r]
    BY <1>1, <2>1, TallyIs DEF Counts, HadRead, CountsTo
  <2>3. <<"report", r, read["report"][r], result["report"][r]>> \in session'[s]
    BY <1>1, <2>2, TableRows, ChangeIsWritten DEF WillWrite, Names
  <2> QED BY <2>3
<1>6. locks' \subseteq Open'
  BY <1>1, <1>2, <1>3, <1>5 DEF TypedInv
<1>7. overlapped' \in BOOLEAN /\ cast' \subseteq Reports \X Moderators \X Votes
  BY <1>1, Zenon DEF TypedInv
<1>8. voting' \in [Sessions -> Reports \cup {"none"}]
  BY <1>1 DEF TypedInv
<1> QED BY <1>2, <1>4, <1>6, <1>7, <1>8 DEF TypedInv

LEMMA EndTyped ==
    ASSUME TypedInv, VotesWritten(db, session, voting, locks), NEW s \in Sessions, End(s)
    PROVE  TypedInv'
<1>1. /\ (Commit(s) /\ cast' = cast \cup CastBy(session[s])) \/ (Rollback(s) /\ UNCHANGED cast)
      /\ voting' = [voting EXCEPT ![s] = "none"] /\ locks' = locks \ {s}
  BY DEF End, LocksWithout
<1>2. /\ SessionsTyped /\ Alone /\ Single /\ db \in Tables
      /\ \A q \in Sessions : \A c \in session[q] : Typed(c, Tables)
  BY DEF TypedInv
<1>3. /\ SessionsTyped' /\ Alone' /\ session'[s] = {} /\ Open' = Open \ {s} /\ overlapped' = overlapped
      /\ \A q \in Sessions : q # s => session'[q] = session[q]
  BY <1>1, <1>2, AloneEnds
<1>4. db' \in Tables
  <2>1. CASE Commit(s)
    <3>1. db' = Flush(session[s])
      BY <2>1 DEF Commit
    <3> QED BY <1>2, <3>1, FlushIs DEF IsFlushed, Single
  <2>2. CASE Rollback(s)
    BY <1>2, <2>2 DEF Rollback
  <2> QED BY <1>1, <2>1, <2>2
<1>5. (\A q \in Sessions : \A c \in session[q] : Typed(c, Tables))'
  <2>1. ASSUME NEW q \in Sessions, NEW c \in session'[q] PROVE Typed(c, Tables)'
    <3>1. c \in session[q]
      BY <1>3, <2>1
    <3> QED BY <1>2, <1>4, <3>1, TypedStays
  <2> QED BY <2>1
<1>6. Single'
  BY <1>2, <1>3 DEF Single
<1>7. cast' \subseteq Reports \X Moderators \X Votes
  <2>1. CastBy(session[s]) \subseteq Reports \X Moderators \X Votes
    <3>1. ASSUME NEW c \in session[s], c[1] = "vote"
          PROVE  <<c[2][1], c[2][2], c[4]>> \in Reports \X Moderators \X Votes
      BY <1>2, <3>1, TypedColumns
    <3> QED BY <3>1 DEF CastBy
  <2> QED BY <1>1, <2>1 DEF TypedInv
<1>8. /\ overlapped' \in BOOLEAN
      /\ voting' \in [Sessions -> Reports \cup {"none"}] /\ locks' \subseteq Open'
  <2>1. overlapped' \in BOOLEAN
    BY <1>3, Zenon DEF TypedInv
  <2> QED BY <1>1, <1>3, <2>1 DEF TypedInv
<1> QED BY <1>3, <1>4, <1>5, <1>6, <1>7, <1>8 DEF TypedInv

-----------------------------------------------------------------------------
(* Consensus under the steps.                                               *)

LEMMA CrowdGrows ==
    ASSUME NEW s \in Sessions, NEW o \in BOOLEAN, NEW p \in BOOLEAN, o => p,
           NEW Q \in SUBSET Moderators, NEW P \in SUBSET Q, Cardinality(Q) < Crowd(o)
    PROVE  Cardinality(P) < Crowd(p)
<1>1. IsFiniteSet(Q) /\ Cardinality(Q) \in Nat /\ Cardinality(P) \in Nat
  BY FiniteVoters
<1>2. Cardinality(P) <= Cardinality(Q)
  BY <1>1, FS_Subset
<1>3. Cardinality(Sessions) \in Nat /\ Cardinality(Sessions) # 0
  BY RequestsAssumption, FS_CardinalityType, FS_EmptySet
<1>4. Crowd(o) \in Nat /\ Crowd(p) \in Nat /\ Crowd(o) <= Crowd(p)
  BY <1>3 DEF Crowd, CONSENSUS_REQUIRED
<1> QED BY <1>1, <1>2, <1>4

\* The members whose vote v on r is in sessions other than s.
Others(w, s, r, v) == {m \in Moderators : \E q \in Sessions \ {s} : Voting(w, q, r, m, v)}

\* Each session has one vote, so they are no more than those sessions.
LEMMA OthersFew ==
    ASSUME NEW w, NEW s \in Sessions, NEW r, NEW v,
           \A q \in Sessions : \A c, e \in w[q] : c[1] = "vote" /\ e[1] = "vote" => c[2] = e[2]
    PROVE  Cardinality(Others(w, s, r, v)) <= Cardinality(Sessions) - 1
<1> DEFINE others == Others(w, s, r, v)
           voters == {q \in Sessions \ {s} : \E m \in Moderators : Voting(w, q, r, m, v)}
           voter == [q \in voters |-> CHOOSE m \in Moderators : Voting(w, q, r, m, v)]
<1>1. ASSUME NEW q \in voters
      PROVE  voter[q] \in others /\ \A m \in Moderators : Voting(w, q, r, m, v) => m = voter[q]
  <2>1. voter[q] = CHOOSE m \in Moderators : Voting(w, q, r, m, v)
    OBVIOUS
  <2>2. \E m \in Moderators : Voting(w, q, r, m, v)
    OBVIOUS
  <2>3. voter[q] \in Moderators /\ Voting(w, q, r, voter[q], v)
    BY <2>1, <2>2
  <2> HIDE DEF voter
  <2>4. ASSUME NEW m \in Moderators, Voting(w, q, r, m, v) PROVE m = voter[q]
    <3>1. PICK c \in w[q], e \in w[q] : /\ c[1] = "vote" /\ c[2] = <<r, m>>
                                        /\ e[1] = "vote" /\ e[2] = <<r, voter[q]>>
      BY <2>3, <2>4 DEF Voting
    <3>2. c[2] = e[2]
      BY <3>1
    <3> QED BY <3>1, <3>2
  <2> QED BY <2>3, <2>4 DEF Others
<1>2. ASSUME NEW m \in others PROVE \E q \in voters : voter[q] = m
  <2>1. PICK q \in Sessions \ {s} : Voting(w, q, r, m, v) /\ m \in Moderators
    BY DEF Others
  <2> HIDE DEF voter
  <2> QED BY <1>1, <2>1
<1>3. voter \in Surjection(voters, others)
  <2>1. voter \in [voters -> others]
    BY <1>1
  <2> HIDE DEF voter, voters, others
  <2> QED BY <1>2, <2>1 DEF Surjection
<1>4. /\ IsFiniteSet(Sessions) /\ IsFiniteSet(Sessions \ {s})
      /\ Cardinality(Sessions \ {s}) = Cardinality(Sessions) - 1 /\ Cardinality(Sessions) \in Nat
  BY RequestsAssumption, FS_RemoveElement, FS_CardinalityType
<1>5. voters \in SUBSET (Sessions \ {s})
  OBVIOUS
<1> HIDE DEF voter, voters, others
<1>6. IsFiniteSet(voters) /\ Cardinality(voters) <= Cardinality(Sessions \ {s})
  BY <1>4, <1>5, FS_Subset
<1>7. IsFiniteSet(others) /\ Cardinality(others) <= Cardinality(voters)
  BY <1>3, <1>6, FS_Surjection
<1>8. Cardinality(voters) \in Nat /\ Cardinality(others) \in Nat
  BY <1>6, <1>7, FS_CardinalityType
<1> QED BY <1>4, <1>6, <1>7, <1>8 DEF others

\* The votes a session saw and those of the other sessions are few when it
\* came to no decision.
LEMMA SeenFew ==
    ASSUME NEW w, NEW s \in Sessions, NEW r, NEW v \in {"remove", "keep"}, NEW seen,
           Tally(seen, r) = "none",
           \A q \in Sessions : \A c, e \in w[q] : c[1] = "vote" /\ e[1] = "vote" => c[2] = e[2],
           NEW o \in BOOLEAN, ~o => \A q \in Sessions \ {s} : w[q] = {},
           NEW P \in SUBSET (For(seen, r, v) \cup Others(w, s, r, v))
    PROVE  Cardinality(P) < Crowd(o)
<1>1. Cardinality(For(seen, r, v)) < CONSENSUS_REQUIRED
  BY TallyIs
<1>2. For(seen, r, v) \in SUBSET Moderators /\ Others(w, s, r, v) \in SUBSET Moderators
  BY DEF For, Others
<1> DEFINE F == For(seen, r, v)
           O == Others(w, s, r, v)
<1> HIDE DEF F, O
<1>3. /\ IsFiniteSet(F) /\ IsFiniteSet(O) /\ Cardinality(F) \in Nat /\ Cardinality(O) \in Nat
      /\ F \cup O \in SUBSET Moderators /\ F \cap O \in SUBSET Moderators
      /\ Cardinality(F) < CONSENSUS_REQUIRED /\ P \in SUBSET (F \cup O)
  BY <1>1, <1>2, FiniteVoters DEF F, O
<1>4. /\ Cardinality(F \cup O) \in Nat /\ Cardinality(P) \in Nat /\ Cardinality(F \cap O) \in Nat
      /\ IsFiniteSet(F \cup O)
  BY <1>3, FiniteVoters
<1>5. Cardinality(P) <= Cardinality(F \cup O)
  BY <1>3, <1>4, FS_Subset
<1>6. Cardinality(F \cup O) = Cardinality(F) + Cardinality(O) - Cardinality(F \cap O)
  BY <1>3, FS_Union
<1>7. Cardinality(Sessions) \in Nat
  BY RequestsAssumption, FS_CardinalityType
<1>8. CASE o
  <2>1. Cardinality(O) <= Cardinality(Sessions) - 1
    BY OthersFew DEF O
  <2> QED BY <1>3, <1>4, <1>5, <1>6, <1>7, <1>8, <2>1 DEF Crowd, CONSENSUS_REQUIRED
<1>9. CASE ~o
  <2>1. O = {}
    BY <1>9 DEF O, Others, Voting
  <2>2. Cardinality(O) = 0
    BY <2>1, FS_EmptySet
  <2> QED BY <1>3, <1>4, <1>5, <1>6, <1>9, <2>2 DEF Crowd, CONSENSUS_REQUIRED
<1> QED BY <1>8, <1>9

LEMMA SameVoting ==
    ASSUME NEW w, NEW g, NEW x, NEW h, NEW q, x[q] = w[q], h[q] = g[q], NEW r
    PROVE  /\ \A m, v : Voting(x, q, r, m, v) <=> Voting(w, q, r, m, v)
           /\ Ruling(x, q, r) <=> Ruling(w, q, r)
           /\ Reopening(x, h, q, r) <=> Reopening(w, g, q, r)
           /\ q \in Settled(x, h, r) <=> q \in Settled(w, g, r)
           /\ \A m, v : Revotes(x, q, r, m, v) <=> Revotes(w, q, r, m, v)
  BY DEF Voting, Ruling, Reopening, Settled, Revotes

\* A session that has no vote that counts, and reopens nothing.
LEMMA FewKept ==
    ASSUME Few(db, session, voting, overlapped), overlapped \in BOOLEAN, NEW p \in BOOLEAN,
           overlapped => p,
           NEW s \in Sessions,
           NEW x, NEW h, \A q \in Sessions : q # s => x[q] = session[q] /\ h[q] = voting[q],
           \A r \in Reports, m \in Moderators, v \in {"remove", "keep"} :
               Voting(x, s, r, m, v) => s \notin Settled(x, h, r) /\ IsUndecided(db, r),
           \A r \in Reports : ~Reopening(x, h, s, r)
    PROVE  Few(db, x, h, p)
<1> SUFFICES ASSUME NEW r \in Reports, NEW v \in {"remove", "keep"}
             PROVE  /\ IsUndecided(db, r) => Cardinality(Pending(db, x, Settled(x, h, r), r, v)) < Crowd(p)
                    /\ \A q \in Sessions : ~IsUndecided(db, r) /\ Reopening(x, h, q, r) =>
                          Cardinality(Reopened(db, x, q, r, v)) < Crowd(p)
  BY DEF Few
<1>1. \A q \in Sessions : q # s => /\ \A m : Voting(x, q, r, m, v) <=> Voting(session, q, r, m, v)
                                   /\ Reopening(x, h, q, r) <=> Reopening(session, voting, q, r)
                                   /\ q \in Settled(x, h, r) <=> q \in Settled(session, voting, r)
                                   /\ \A m : Revotes(x, q, r, m, v) <=> Revotes(session, q, r, m, v)
  BY SameVoting
<1>2. CASE IsUndecided(db, r)
  <2>1. Cardinality(Pending(db, session, Settled(session, voting, r), r, v)) < Crowd(overlapped)
    BY <1>2 DEF Few
  <2>2. ASSUME NEW m \in Moderators, NEW q \in Settled(x, h, r), Voting(x, q, r, m, v)
        PROVE  q \in Settled(session, voting, r) /\ Voting(session, q, r, m, v)
    <3>1. q \in Sessions
      BY DEF Settled
    <3> QED BY <1>1, <2>2, <3>1
  <2>3. /\ Pending(db, x, Settled(x, h, r), r, v) \subseteq Pending(db, session, Settled(session, voting, r), r, v)
        /\ Pending(db, session, Settled(session, voting, r), r, v) \in SUBSET Moderators
    BY <2>2 DEF Pending
  <2> QED BY <1>2, <2>1, <2>3, CrowdGrows
<1>3. ASSUME ~IsUndecided(db, r), NEW q \in Sessions, Reopening(x, h, q, r)
      PROVE  Cardinality(Reopened(db, x, q, r, v)) < Crowd(p)
  <2>1. q # s /\ Reopening(session, voting, q, r)
    BY <1>1, <1>3
  <2>2. Cardinality(Reopened(db, session, q, r, v)) < Crowd(overlapped)
    BY <1>3, <2>1 DEF Few
  <2>3. ASSUME NEW m \in Moderators, NEW u \in Sessions, Voting(x, u, r, m, v)
        PROVE Voting(session, u, r, m, v)
    BY <1>1, <1>3, <2>3
  <2>4. /\ Reopened(db, x, q, r, v) \subseteq Reopened(db, session, q, r, v)
        /\ Reopened(db, session, q, r, v) \in SUBSET Moderators
    BY <1>1, <2>1, <2>3 DEF Reopened
  <2> QED BY <2>2, <2>4, CrowdGrows
<1> QED BY <1>2, <1>3

LEMMA FewPlain ==
    ASSUME db \in Tables, Few(db, session, voting, overlapped), overlapped \in BOOLEAN,
           NEW p \in BOOLEAN, overlapped => p, NEW s \in Sessions,
           NEW read \in Tables, Kept(db, read, {"vote"}),
           NEW result \in Tables, Rules(read, result), Kept(db, result, {"vote"}),
           NEW w, AreChanges(read, result, w[s]), \A q \in Sessions : q # s => w[q] = session[q]
    PROVE  Few(db, w, voting, p)
<1>1. ASSUME NEW c \in w[s] PROVE c[1] # "vote" /\ ~(c[1] = "report" /\ c[4] = "in_review")
  <2>1. c[1] # "vote"
    BY DEF AreChanges, Kept
  <2>2. ASSUME c[1] = "report" PROVE c[4] # "in_review"
    <3>1. /\ c[2] \in Reports
          /\ c[4] = result["report"][c[2]] /\ result["report"][c[2]] # read["report"][c[2]]
      BY <2>2, TableRows DEF AreChanges
    <3> QED BY <3>1 DEF Rules, Decided
  <2> QED BY <2>1, <2>2
<1>2. \A r, m, v : ~Voting(w, s, r, m, v) /\ ~Reopening(w, voting, s, r)
  BY <1>1 DEF Voting, Reopening
<1> QED BY <1>2, FewKept

LEMMA FewBallot ==
    ASSUME db \in Tables, Few(db, session, voting, overlapped), overlapped \in BOOLEAN,
           NEW p \in BOOLEAN, overlapped => p, voting \in [Sessions -> Reports \cup {"none"}],
           NEW s \in Sessions, NEW r \in Reports, db["report"][r] \in {"open", "in_review"},
           NEW g, g = [voting EXCEPT ![s] = r],
           NEW w, Uncounted(w, g, s), \A q \in Sessions : q # s => w[q] = session[q]
    PROVE  Few(db, w, g, p)
<1>1. g[s] = r /\ r # "none" /\ \A q \in Sessions : q # s => g[q] = voting[q]
  <2>1. r # "none"
    BY ModerationAssumption DEF Reports
  <2> QED BY <2>1
<1>2. \A q : s \notin Settled(w, g, q) /\ ~Reopening(w, g, s, q)
  BY <1>1 DEF Settled, Reopening
<1>3. ASSUME NEW q \in Reports, NEW m, NEW v, Voting(w, s, q, m, v) PROVE IsUndecided(db, q)
  <2>1. PICK c \in w[s] : c[1] = "vote" /\ c[2] = <<q, m>>
    BY <1>3 DEF Voting
  <2>2. q = r
    BY <1>1, <2>1 DEF Uncounted
  <2> QED BY <2>2 DEF IsUndecided
<1>4. \A q \in Reports, m \in Moderators, v \in {"remove", "keep"} :
          Voting(w, s, q, m, v) => s \notin Settled(w, g, q) /\ IsUndecided(db, q)
  BY <1>2, <1>3
<1>5. \A q \in Sessions : q # s => w[q] = session[q] /\ g[q] = voting[q]
  BY <1>1
<1>6. \A q \in Reports : ~Reopening(w, g, s, q)
  BY <1>2
<1> QED BY <1>4, <1>5, <1>6, FewKept, ZenonT(30)

LEMMA FewRolledBack ==
    ASSUME Few(db, session, voting, overlapped), overlapped \in BOOLEAN, NEW s \in Sessions,
           NEW x, x[s] = {}, \A q \in Sessions : q # s => x[q] = session[q],
           NEW g, \A q \in Sessions : q # s => g[q] = voting[q]
    PROVE  Few(db, x, g, overlapped)
<1>1. \A r, m, v : ~Voting(x, s, r, m, v) /\ ~Reopening(x, g, s, r)
  BY DEF Voting, Reopening
<1> QED BY <1>1, FewKept

\* A count that came to a decision is a ruling; one that did not saw few votes.
LEMMA FewCount ==
    ASSUME db \in Tables, Few(db, session, voting, overlapped), overlapped \in BOOLEAN,
           VotesWritten(db, session, voting, locks), Alone, voting \in [Sessions -> Reports \cup {"none"}],
           NEW s \in Sessions, session[s] # {}, NEW r, NEW m, NEW v, NEW read, NEW seen, NEW result,
           Counts(s, r, m, v, read, seen, result),
           NEW w, AreChanges(read, result, w[s]), \A q \in Sessions : q # s => w[q] = session[q],
           NEW g, g = [voting EXCEPT ![s] = "none"]
    PROVE  Few(db, w, g, overlapped)
<1>1. g[s] = "none" /\ \A q \in Sessions : q # s => g[q] = voting[q]
  OBVIOUS
<1>2. /\ r \in Reports /\ m \in Moderators \ {Author} /\ voting[s] = r
      /\ Sees(s, r, m, v, seen) /\ HadRead(s, r, read) /\ CountsTo(s, r, m, v, seen, result)
      /\ read \in Tables /\ read["vote"] = db["vote"] /\ result["vote"] = seen["vote"]
  BY DEF Counts, HadRead, CountsTo, Kept
<1>3. s \notin Settled(session, voting, r)
  BY <1>2, ModerationAssumption DEF Settled, Reports
<1>4. ASSUME NEW c \in w[s]
      PROVE  /\ c[1] = "vote" => c[2] = <<r, m>> /\ c[4] = v
             /\ c[1] = "report" => c[2] = r /\ c[4] = result["report"][r]
  <2>1. c[2] \in DOMAIN read[c[1]] /\ c[4] = result[c[1]][c[2]] /\ result[c[1]][c[2]] # read[c[1]][c[2]]
    BY DEF AreChanges
  <2>2. c[1] = "vote" => c[2] = <<r, m>> /\ c[4] = v
    <3>1. SUFFICES ASSUME c[1] = "vote" PROVE c[2] = <<r, m>> /\ c[4] = v
      OBVIOUS
    <3>2. /\ c[2] \in Reports \X Moderators
          /\ c[4] = result["vote"][c[2]] /\ result["vote"][c[2]] # db["vote"][c[2]]
      BY <1>2, <2>1, <3>1, TableRows
    <3> QED BY <1>2, <3>2 DEF Sees
  <2>3. c[1] = "report" => c[2] = r /\ c[4] = result["report"][r]
    BY <1>2, <2>1, TableRows DEF CountsTo, HadRead
  <2> QED BY <2>2, <2>3
<1>5. \A u, a, b : Voting(w, s, u, a, b) => u = r /\ a = m /\ b = v
  BY <1>4 DEF Voting
<1>6. \A q \in Sessions : \A c, e \in session[q] : c[1] = "vote" /\ e[1] = "vote" => c[2] = e[2]
  BY DEF VotesWritten, SessionVotes, VoteWritten
<1>7. ~overlapped => \A q \in Sessions \ {s} : session[q] = {}
  BY DEF Alone, Open
<1>8. ASSUME NEW u \in Reports
      PROVE  \A q \in Sessions : q # s => /\ \A a, b : Voting(w, q, u, a, b) <=> Voting(session, q, u, a, b)
                                          /\ Reopening(w, g, q, u) <=> Reopening(session, voting, q, u)
                                          /\ q \in Settled(w, g, u) <=> q \in Settled(session, voting, u)
                                          /\ \A a, b : Revotes(w, q, u, a, b) <=> Revotes(session, q, u, a, b)
  BY <1>1, SameVoting
<1>9. ASSUME Tally(seen, r) = "none", NEW b \in {"remove", "keep"}, NEW P \in SUBSET Moderators,
             \A a \in P : \/ db["vote"][<<r, a>>] = b /\ (a # m \/ b = v)
                          \/ a = m /\ b = v
                          \/ \E q \in Sessions \ {s} : Voting(session, q, r, a, b)
      PROVE  Cardinality(P) < Crowd(overlapped)
  <2>1. ASSUME NEW a \in P PROVE a \in For(seen, r, b) \cup Others(session, s, r, b)
    <3>1. seen["vote"][<<r, m>>] = v /\ (a # m => seen["vote"][<<r, a>>] = db["vote"][<<r, a>>])
      <4>1. a # m => <<r, a>> # <<r, m>> /\ <<r, a>> \in Reports \X Moderators
        BY <1>2
      <4> QED BY <1>2, <4>1 DEF Sees
    <3>2. CASE db["vote"][<<r, a>>] = b /\ (a # m \/ b = v)
      BY <3>1, <3>2 DEF For
    <3>3. CASE a = m /\ b = v
      BY <3>1, <3>3 DEF For
    <3>4. CASE \E q \in Sessions \ {s} : Voting(session, q, r, a, b)
      BY <3>4 DEF Others
    <3> QED BY <1>9, <3>2, <3>3, <3>4
  <2>2. P \in SUBSET (For(seen, r, b) \cup Others(session, s, r, b))
    BY <2>1
  <2> QED BY <1>6, <1>7, <1>9, <2>2, SeenFew
<1>10. ASSUME NEW u \in Reports, NEW b \in {"remove", "keep"}, IsUndecided(db, u)
       PROVE  Cardinality(Pending(db, w, Settled(w, g, u), u, b)) < Crowd(overlapped)
  <2> DEFINE before == Pending(db, session, Settled(session, voting, u), u, b)
             after == Pending(db, w, Settled(w, g, u), u, b)
  <2>1. /\ before \in SUBSET Moderators
        /\ after \in SUBSET Moderators /\ Cardinality(before) < Crowd(overlapped)
    BY <1>10 DEF Few, Pending
  <2>2. ASSUME NEW a \in after
        PROVE  \/ a \in before
               \/ a = m /\ u = r /\ b = v /\ s \in Settled(w, g, u)
    <3>1. ASSUME NEW q \in Settled(w, g, u), Voting(w, q, u, a, b), q # s PROVE a \in before
      <4>1. q \in Sessions
        BY DEF Settled
      <4>2. q \in Settled(session, voting, u) /\ Voting(session, q, u, a, b)
        BY <1>8, <3>1, <4>1
      <4> QED BY <4>2 DEF Pending
    <3>2. db["vote"][<<u, a>>] = b => a \in before
      BY DEF Pending
    <3>3. db["vote"][<<u, a>>] = b \/ \E q \in Settled(w, g, u) : Voting(w, q, u, a, b)
      BY DEF Pending
    <3> HIDE DEF before, after
    <3>4. ASSUME NEW q \in Settled(w, g, u), Voting(w, q, u, a, b)
          PROVE  a \in before \/ (a = m /\ u = r /\ b = v /\ s \in Settled(w, g, u))
      <4>1. CASE q = s
        BY <1>5, <3>4, <4>1
      <4>2. CASE q # s
        BY <3>1, <3>4, <4>2
      <4> QED BY <4>1, <4>2
    <3> QED BY <3>2, <3>3, <3>4
  <2>3. CASE after \subseteq before
    <3> HIDE DEF before, after
    <3>1. Cardinality(after) < Crowd(overlapped)
      BY <2>1, <2>3, CrowdGrows
    <3> QED BY <3>1 DEF after
  <2>4. CASE ~(after \subseteq before)
    <3>1. u = r /\ b = v /\ s \in Settled(w, g, r)
      BY <2>2, <2>4
    <3>2. Tally(seen, r) = "none"
      <4>1. SUFFICES ASSUME Tally(seen, r) # "none" PROVE Ruling(w, s, r)
        BY <3>1 DEF Settled
      <4>2. result["report"][r] \in Decided /\ result["report"][r] # read["report"][r]
        BY <1>2, <3>1, <4>1, TallyIs DEF CountsTo, HadRead, Decided
      <4>3. <<"report", r, read["report"][r], result["report"][r]>> \in w[s]
        BY <1>2, <4>2, ChangeIsWritten, TableRows DEF Names
      <4> QED BY <4>2, <4>3 DEF Ruling
    <3>3. ASSUME NEW a \in after
          PROVE  \/ db["vote"][<<r, a>>] = b /\ (a # m \/ b = v)
                 \/ a = m /\ b = v
                 \/ \E q \in Sessions \ {s} : Voting(session, q, r, a, b)
      <4>1. CASE a \in before
        <5>1. db["vote"][<<r, a>>] = b \/ \E q \in Settled(session, voting, r) : Voting(session, q, r, a, b)
          BY <3>1, <4>1 DEF Pending
        <5>2. Settled(session, voting, r) \subseteq Sessions \ {s}
          BY <1>3 DEF Settled
        <5> QED BY <3>1, <5>1, <5>2
      <4> QED BY <2>2, <3>3, <4>1
    <3> HIDE DEF after, before
    <3>4. Cardinality(after) < Crowd(overlapped)
      BY <1>9, <2>1, <3>2, <3>3
    <3> QED BY <3>4 DEF after
  <2> QED BY <2>3, <2>4
<1>11. ASSUME NEW u \in Reports, NEW b \in {"remove", "keep"}, ~IsUndecided(db, u),
              NEW q \in Sessions, Reopening(w, g, q, u)
       PROVE  Cardinality(Reopened(db, w, q, u, b)) < Crowd(overlapped)
  <2> DEFINE before == Reopened(db, session, q, u, b)
             after == Reopened(db, w, q, u, b)
  <2>1. ASSUME NEW a \in Moderators, Voting(w, s, u, a, b) PROVE Voting(session, s, u, a, b)
    <3>1. u = r /\ a = m /\ b = v
      BY <1>5, <2>1
    <3> QED BY <1>2, <3>1 DEF Sees, Voting
  <2>2. before \in SUBSET Moderators /\ after \in SUBSET Moderators
    BY DEF Reopened
  <2>3. CASE q # s
    <3>1. Reopening(session, voting, q, u)
      BY <1>8, <1>11, <2>3
    <3>2. Cardinality(before) < Crowd(overlapped)
      BY <1>11, <3>1 DEF Few
    <3>3. after \subseteq before
      <4>1. ASSUME NEW a \in Moderators, NEW p \in Sessions, Voting(w, p, u, a, b)
            PROVE Voting(session, p, u, a, b)
        BY <1>8, <2>1, <4>1
      <4>2. \A a : Revotes(w, q, u, a, b) <=> Revotes(session, q, u, a, b)
        BY <1>8, <2>3
      <4> QED BY <4>1, <4>2 DEF Reopened
    <3> HIDE DEF before, after
    <3>4. Cardinality(after) < Crowd(overlapped)
      BY <2>2, <3>2, <3>3, CrowdGrows
    <3> QED BY <3>4 DEF after
  <2>4. CASE q = s
    <3>1. PICK c \in w[s] : c[1] = "report" /\ c[2] = u /\ c[4] = "in_review"
      BY <1>11, <2>4 DEF Reopening
    <3>2. u = r /\ Tally(seen, r) = "none"
      <4>1. u = r /\ result["report"][r] = "in_review"
        BY <1>4, <3>1
      <4> QED BY <1>2, <4>1, TallyIs DEF CountsTo
    <3>3. ASSUME NEW a \in after
          PROVE  \/ db["vote"][<<r, a>>] = b /\ (a # m \/ b = v)
                 \/ (a = m /\ b = v)
                 \/ \E p \in Sessions \ {s} : Voting(session, p, r, a, b)
      <4>1. \/ db["vote"][<<r, a>>] = b /\ ~Revotes(w, s, r, a, b)
            \/ \E p \in Sessions : Voting(w, p, r, a, b)
        BY <2>4, <3>2 DEF Reopened
      <4>2. ASSUME NEW p \in Sessions, Voting(w, p, r, a, b)
            PROVE  (a = m /\ b = v) \/ (p # s /\ Voting(session, p, r, a, b))
        BY <1>2, <1>5, <1>8, <4>2
      <4>3. ASSUME db["vote"][<<r, m>>] = b, b # v PROVE Revotes(w, s, r, m, b)
        <5>1. "vote" \in Names /\ <<r, m>> \in DOMAIN read["vote"]
          BY <1>2, TableRows DEF Names
        <5>2. result["vote"][<<r, m>>] = v /\ read["vote"][<<r, m>>] = b
          BY <1>2, <4>3 DEF Sees
        <5>3. <<"vote", <<r, m>>, read["vote"][<<r, m>>], result["vote"][<<r, m>>]>> \in w[s]
          BY <4>3, <5>1, <5>2, ChangeIsWritten
        <5> QED BY <4>3, <5>2, <5>3 DEF Revotes
      <4> QED BY <4>1, <4>2, <4>3
    <3> HIDE DEF after, before
    <3>4. Cardinality(after) < Crowd(overlapped)
      BY <1>9, <2>2, <3>2, <3>3
    <3> QED BY <3>4 DEF after
  <2> QED BY <2>3, <2>4
<1> QED BY <1>10, <1>11 DEF Few

\* A commit takes its votes from the session to the table.  It reopens a report
\* only with few votes, and decides one only while no session is to reopen it.
LEMMA FewCommitted ==
    ASSUME db \in Tables, Few(db, session, voting, overlapped), overlapped \in BOOLEAN,
           VotesHeld(db, cast), VotesWritten(db, session, voting, locks), locks \subseteq Open,
           \A q \in Sessions : \A c \in session[q] : Typed(c, Tables),
           NEW s \in Sessions, CommitsTo(s), voting[s] = "none",
           \A r \in Reports : Writes(s, r) => Free(s, r),
           NEW d, IsFlushed(db, session[s], d),
           NEW x, x[s] = {}, \A q \in Sessions : q # s => x[q] = session[q],
           NEW g, g[s] = "none", \A q \in Sessions : q # s => g[q] = voting[q]
    PROVE  Few(d, x, g, overlapped)
<1>1. ASSUME NEW r \in Reports
      PROVE  \/ \E c \in session[s] : c[1] = "report" /\ c[2] = r /\ d["report"][r] = c[4]
             \/ d["report"][r] = db["report"][r] /\ \A c \in session[s] : ~(c[1] = "report" /\ c[2] = r)
  BY TableRows DEF IsFlushed, Names
<1>2. ASSUME NEW r \in Reports, NEW m \in Moderators, NEW v, d["vote"][<<r, m>>] = v
      PROVE  \/ Voting(session, s, r, m, v)
             \/ db["vote"][<<r, m>>] = v /\ ~Revotes(session, s, r, m, v)
  <2>1. \/ \E c \in session[s] : c[1] = "vote" /\ c[2] = <<r, m>> /\ d["vote"][<<r, m>>] = c[4]
        \/ /\ d["vote"][<<r, m>>] = db["vote"][<<r, m>>]
           /\ \A c \in session[s] : ~(c[1] = "vote" /\ c[2] = <<r, m>>)
    <3>1. "vote" \in Names \ {"penalty"} /\ <<r, m>> \in DOMAIN db["vote"]
      BY TableRows DEF Names
    <3> QED BY <3>1 DEF IsFlushed
  <2>2. CASE \E c \in session[s] : c[1] = "vote" /\ c[2] = <<r, m>> /\ d["vote"][<<r, m>>] = c[4]
    BY <1>2, <2>2 DEF Voting
  <2>3. CASE /\ d["vote"][<<r, m>>] = db["vote"][<<r, m>>]
             /\ \A c \in session[s] : ~(c[1] = "vote" /\ c[2] = <<r, m>>)
    BY <1>2, <2>3 DEF Revotes
  <2> QED BY <2>1, <2>2, <2>3
<1>3. ASSUME NEW r \in Reports
      PROVE  /\ \A m, v : ~Voting(x, s, r, m, v)
             /\ ~Reopening(x, g, s, r)
             /\ \A q \in Sessions : q # s => /\ \A m, v : Voting(x, q, r, m, v) <=> Voting(session, q, r, m, v)
                                             /\ Reopening(x, g, q, r) <=> Reopening(session, voting, q, r)
                                             /\ q \in Settled(x, g, r) <=> q \in Settled(session, voting, r)
                                             /\ \A m, v : Revotes(x, q, r, m, v) <=> Revotes(session, q, r, m, v)
  <2>1. (\A m, v : ~Voting(x, s, r, m, v)) /\ ~Reopening(x, g, s, r)
    BY DEF Voting, Reopening
  <2>2. ASSUME NEW q \in Sessions, q # s
        PROVE  /\ \A m, v : Voting(x, q, r, m, v) <=> Voting(session, q, r, m, v)
               /\ Reopening(x, g, q, r) <=> Reopening(session, voting, q, r)
               /\ q \in Settled(x, g, r) <=> q \in Settled(session, voting, r)
               /\ \A m, v : Revotes(x, q, r, m, v) <=> Revotes(session, q, r, m, v)
    <3>1. x[q] = session[q] /\ g[q] = voting[q]
      BY <2>2
    <3> QED BY <3>1, SameVoting
  <2> QED BY <2>1, <2>2
<1>4. ASSUME NEW S \in SUBSET Sessions, NEW T \in SUBSET Sessions, s \in T, S \subseteq T \cup {s},
             NEW r \in Reports, NEW v
      PROVE  /\ Pending(d, x, S, r, v) \subseteq Pending(db, session, T, r, v)
             /\ Pending(db, session, T, r, v) \in SUBSET Moderators
  <2>1. ASSUME NEW m \in Moderators, NEW q \in S, Voting(x, q, r, m, v)
        PROVE q \in T /\ Voting(session, q, r, m, v)
    BY <1>3, <1>4, <2>1
  <2>2. ASSUME NEW m \in Moderators, d["vote"][<<r, m>>] = v
        PROVE  db["vote"][<<r, m>>] = v \/ \E q \in T : Voting(session, q, r, m, v)
    BY <1>2, <1>4, <2>2
  <2> QED BY <2>1, <2>2 DEF Pending
<1>5. ASSUME NEW r \in Reports, NEW v \in {"remove", "keep"}, IsUndecided(d, r)
      PROVE  Cardinality(Pending(d, x, Settled(x, g, r), r, v)) < Crowd(overlapped)
  <2>1. Settled(x, g, r) \in SUBSET Sessions /\ Settled(session, voting, r) \in SUBSET Sessions
    BY DEF Settled
  <2>2. CASE IsUndecided(db, r)
    <3>1. ~Ruling(session, s, r)
      <4>1. ASSUME NEW c \in session[s], c[1] = "report", c[2] = r, c[4] \in Decided PROVE FALSE
        <5>1. d["report"][r] = c[4]
          <6>1. c[1] # "penalty" /\ d[c[1]][c[2]] = c[4]
            BY <4>1 DEF IsFlushed
          <6> QED BY <4>1, <6>1
        <5> QED BY <1>5, <4>1, <5>1 DEF IsUndecided, Decided
      <4> QED BY <4>1 DEF Ruling
    <3>2. s \in Settled(session, voting, r)
      BY <3>1 DEF Settled
    <3>3. Settled(x, g, r) \subseteq Settled(session, voting, r) \cup {s}
      BY <1>3, <2>1
    <3>4. Cardinality(Pending(db, session, Settled(session, voting, r), r, v)) < Crowd(overlapped)
      BY <2>2 DEF Few
    <3>5. /\ Pending(d, x, Settled(x, g, r), r, v) \subseteq Pending(db, session, Settled(session, voting, r), r, v)
          /\ Pending(db, session, Settled(session, voting, r), r, v) \in SUBSET Moderators
      BY <1>4, <2>1, <3>2, <3>3
    <3> QED BY <3>4, <3>5, CrowdGrows
  <2>3. CASE ~IsUndecided(db, r)
    <3>1. PICK c \in session[s] : c[1] = "report" /\ c[2] = r /\ d["report"][r] = c[4]
      BY <1>1, <1>5, <2>3 DEF IsUndecided
    <3>2. CASE c[4] = "in_review"
      <4>1. Reopening(session, voting, s, r)
        BY <3>1, <3>2 DEF Reopening
      <4>2. Cardinality(Reopened(db, session, s, r, v)) < Crowd(overlapped)
        BY <2>3, <4>1 DEF Few
      <4>3. ASSUME NEW m \in Moderators, NEW q \in Settled(x, g, r), Voting(x, q, r, m, v)
            PROVE q \in Sessions /\ Voting(session, q, r, m, v)
        BY <1>3, <2>1, <4>3
      <4>4. /\ Pending(d, x, Settled(x, g, r), r, v) \subseteq Reopened(db, session, s, r, v)
            /\ Reopened(db, session, s, r, v) \in SUBSET Moderators
        BY <1>2, <4>3 DEF Pending, Reopened
      <4> QED BY <4>2, <4>4, CrowdGrows
    <3>3. CASE c[4] = "open"
      <4>1. db["report"][r] = "none"
        BY <3>1, <3>3 DEF VotesWritten, SessionVotes, ReportWritten, CommitsTo
      <4>2. \A m \in Moderators : db["vote"][<<r, m>>] # v
        BY <4>1 DEF VotesHeld
      <4>3. ASSUME NEW q \in Sessions, NEW m, Voting(session, q, r, m, v) PROVE FALSE
        <5>1. PICK e \in session[q] : e[1] = "vote" /\ e[2] = <<r, m>>
          BY <4>3 DEF Voting
        <5>2. db["report"][e[2][1]] # "none"
          BY <5>1 DEF VotesWritten, SessionVotes, VoteWritten
        <5> QED BY <4>1, <5>1, <5>2
      <4>4. Pending(db, session, Sessions, r, v) = {}
        BY <4>2, <4>3 DEF Pending
      <4>5. Pending(d, x, Settled(x, g, r), r, v) = {}
        BY <1>4, <2>1, <4>4
      <4>6. Cardinality(Sessions) \in Nat /\ Cardinality(Sessions) # 0
        BY RequestsAssumption, FS_CardinalityType, FS_EmptySet
      <4> QED BY <4>5, <4>6, FS_EmptySet DEF Crowd, CONSENSUS_REQUIRED
    <3> QED BY <1>5, <3>1, <3>2, <3>3 DEF IsUndecided
  <2> QED BY <2>2, <2>3
<1>6. ASSUME NEW r \in Reports, NEW v \in {"remove", "keep"}, ~IsUndecided(d, r),
             NEW q \in Sessions, Reopening(x, g, q, r)
      PROVE  Cardinality(Reopened(d, x, q, r, v)) < Crowd(overlapped)
  <2>1. q # s /\ Reopening(session, voting, q, r)
    BY <1>3, <1>6
  <2>2. ~IsUndecided(db, r)
    <3>1. SUFFICES ASSUME IsUndecided(db, r) PROVE FALSE
      OBVIOUS
    <3>2. Writes(s, r)
      BY <1>1, <1>6, <3>1 DEF IsUndecided, Writes, Writing, Open
    <3>3. PICK c \in session[q] : c[1] = "report" /\ c[2] = r /\ c[4] = "in_review" /\ voting[q] = "none"
      BY <2>1 DEF Reopening
    <3>4. q \in locks
      <4>1. voting[q] # r
        BY <3>3, ModerationAssumption DEF Reports
      <4> QED BY <3>3, <4>1 DEF VotesWritten, SessionVotes, ReportWritten
    <3>5. Writes(q, r)
      BY <3>3 DEF Writes, Writing, Open
    <3> QED BY <2>1, <3>2, <3>4, <3>5 DEF Free
  <2>3. Cardinality(Reopened(db, session, q, r, v)) < Crowd(overlapped)
    BY <2>1, <2>2 DEF Few
  <2>4. /\ Reopened(d, x, q, r, v) \subseteq Reopened(db, session, q, r, v)
        /\ Reopened(db, session, q, r, v) \in SUBSET Moderators
    <3>1. ASSUME NEW m \in Moderators, NEW p \in Sessions, Voting(x, p, r, m, v)
          PROVE Voting(session, p, r, m, v)
      BY <1>3, <3>1
    <3>2. \A m : Revotes(x, q, r, m, v) <=> Revotes(session, q, r, m, v)
      BY <1>3, <2>1
    <3> QED BY <1>2, <3>1, <3>2 DEF Reopened
  <2> QED BY <2>3, <2>4, CrowdGrows
<1> QED BY <1>5, <1>6 DEF Few

-----------------------------------------------------------------------------
(* The invariant holds.                                                     *)

LEMMA InvInit == Init => IInv
<1> SUFFICES ASSUME Init PROVE IInv
  OBVIOUS
<1>1. db \in Tables
  BY DEF Init, Tables, Statuses, Votes, AppealStatuses, Action
<1>2. /\ \A r \in Reports : db["report"][r] = "none" /\ db["kind"][r] = "none"
      /\ \A x \in Reports \X Moderators : db["vote"][x] = "none"
      /\ \A t \in Targets : db["state"][t] = "active"
      /\ \A p \in Appeals : db["appeal"][p] = "none"
  BY DEF Init
<1>3. /\ \A s \in Sessions : session[s] = {} /\ voting[s] = "none"
      /\ session = [s \in Sessions |-> session[s]] /\ voting \in [Sessions -> Reports \cup {"none"}]
      /\ overlapped = FALSE /\ locks = {} /\ cast = {}
  BY DEF Init
<1>4. Open = {}
  BY <1>3 DEF Open
<1>5. TypedInv
  BY <1>1, <1>3, <1>4 DEF TypedInv, SessionsTyped, Alone, Single
<1>6. ActionsWritten(db, session) /\ NoAppeal(db) /\ Supported(db, session)
  BY <1>2, <1>3 DEF ActionsWritten, NoAppeal, Supported, Down
<1>7. VotesHeld(db, cast) /\ VotesWritten(db, session, voting, locks)
  BY <1>2, <1>3 DEF VotesHeld, VotesWritten, SessionVotes
<1>8. VerdictsWritten(session, cast)
  BY <1>3 DEF VerdictsWritten
<1>9. Few(db, session, voting, overlapped)
  BY <1>2, <1>3 DEF Few, IsUndecided, Reopening
<1> QED BY <1>5, <1>6, <1>7, <1>8, <1>9 DEF IInv

LEMMA BallotAct ==
    ASSUME NEW s \in Sessions, NEW r \in Reports, NEW m \in Moderators, NEW v \in Votes \ {"none"},
           OpenVote(s, m, r, v), IInv
    PROVE  IInv'
<1>1. /\ TypedInv /\ db \in Tables /\ SessionsTyped /\ locks \subseteq Open /\ overlapped \in BOOLEAN
      /\ voting \in [Sessions -> Reports \cup {"none"}]
      /\ ActionsWritten(db, session) /\ NoAppeal(db) /\ Supported(db, session)
      /\ VotesHeld(db, cast) /\ VotesWritten(db, session, voting, locks)
      /\ VerdictsWritten(session, cast)
      /\ Few(db, session, voting, overlapped)
  BY DEF IInv, TypedInv
<1>2. PICK result \in Tables :
              /\ Begin(s, result) /\ UNCHANGED <<locks, cast>> /\ voting' = [voting EXCEPT ![s] = r]
              /\ db["report"][r] \in {"open", "in_review"} /\ m # Author
              /\ Kept(db, result, Names \ {"report", "vote"})
              /\ result["vote"][<<r, m>>] = v /\ result["report"][r] = "in_review"
              /\ \A x \in Reports \X Moderators : x # <<r, m>> => result["vote"][x] = db["vote"][x]
              /\ \A q \in Reports : q # r => result["report"][q] = db["report"][q]
  BY <1>1, BallotIs, ZenonT(30)
<1> DEFINE w == session'
           g == voting'
           p == overlapped'
<1>3. /\ db' = db /\ AreChanges(db, result, w[s]) /\ \A q \in Sessions : q # s => w[q] = session[q]
      /\ session[s] = {} /\ w[s] # {} /\ p \in BOOLEAN /\ (overlapped => p)
  BY <1>1, <1>2, BeginStarts, Begins DEF WillWrite
<1>4. g \in [Sessions -> Reports \cup {"none"}]
  BY <1>1, <1>2
<1>5. TypedInv'
  BY <1>1, <1>2, <1>4, BeginStarts, BeginTyped
<1>6. g = [voting EXCEPT ![s] = r] /\ g[s] = r
  BY <1>1, <1>2
<1> HIDE DEF w, g, p
<1>7. Acts(result) /\ Kept(db, result, {"kind"})
  <2>1. /\ Kept(db, result, {"action", "appeal"})
        /\ Kept(db, result, {"state"}) /\ Kept(db, result, {"kind"})
    BY <1>2 DEF Kept, Names
  <2>2. \A t \in Targets : result["state"][t] = db["state"][t]
    BY <2>1 DEF Kept
  <2> QED BY <2>1, <2>2, QuietActs
<1>8. ActionsWritten(db, w) /\ Supported(db, w)
  BY <1>1, <1>3, <1>7, ActsWritten DEF Kept
<1>9. VotesWritten(db, w, g, locks)
  BY <1>1, <1>2, <1>3, <1>6, VotesBallot
<1>10. VerdictsWritten(w, cast)
  <2>1. ASSUME NEW c \in w[s] PROVE c[1] # "kind"
    BY <1>3, <1>7 DEF AreChanges, Kept
  <2> QED BY <1>1, <1>3, <2>1 DEF VerdictsWritten
<1>11. Few(db, w, g, p)
  <2>1. Uncounted(w, g, s)
    <3>1. g[s] # "none"
      BY <1>6, ModerationAssumption DEF Reports
    <3> QED BY <1>9, <3>1 DEF VotesWritten, SessionVotes
  <2> QED BY <1>1, <1>2, <1>3, <1>6, <2>1, FewBallot
<1> QED BY <1>1, <1>2, <1>3, <1>5, <1>8, <1>9, <1>10, <1>11 DEF IInv, w, g, p

LEMMA PlainAct ==
    ASSUME NEW s \in Sessions, Plain(s), IInv
    PROVE  IInv'
<1>1. /\ TypedInv /\ db \in Tables /\ SessionsTyped /\ overlapped \in BOOLEAN
      /\ voting \in [Sessions -> Reports \cup {"none"}]
      /\ ActionsWritten(db, session) /\ NoAppeal(db) /\ Supported(db, session)
      /\ VotesHeld(db, cast) /\ VotesWritten(db, session, voting, locks)
      /\ VerdictsWritten(session, cast)
      /\ Few(db, session, voting, overlapped)
  BY DEF IInv, TypedInv
<1>2. PICK read, result \in Tables :
          /\ Starts(s, read, result) /\ Kept(db, read, {"vote", "action", "state", "appeal"})
          /\ Kept(db, result, {"vote"}) /\ Acts(result) /\ Rules(read, result)
          /\ UNCHANGED <<voting, locks, cast>>
  BY DEF Plain
<1> DEFINE w == session'
           p == overlapped'
<1>3. /\ db' = db /\ AreChanges(read, result, w[s]) /\ \A q \in Sessions : q # s => w[q] = session[q]
      /\ session[s] = {} /\ p \in BOOLEAN /\ (overlapped => p)
  BY <1>1, <1>2, Begins DEF WillWrite
<1>4. TypedInv'
  BY <1>1, <1>2, BeginTyped
<1> HIDE DEF w, p
<1>5. ActionsWritten(db, w) /\ Supported(db, w)
  BY <1>1, <1>2, <1>3, ActsWritten DEF Kept
<1>6. VotesWritten(db, w, voting, locks)
  <2>1. Kept(db, read, {"vote"})
    BY <1>2 DEF Kept
  <2> QED BY <1>1, <1>2, <1>3, <2>1, VotesPlain
<1>7. VerdictsWritten(w, cast)
  BY <1>1, <1>2, <1>3, VerdictsPlain
<1>8. Few(db, w, voting, p)
  <2>1. Kept(db, read, {"vote"})
    BY <1>2 DEF Kept
  <2> QED BY <1>1, <1>2, <1>3, <2>1, FewPlain
<1> QED BY <1>1, <1>2, <1>3, <1>4, <1>5, <1>6, <1>7, <1>8 DEF IInv, w, p

LEMMA CountAct ==
    ASSUME NEW s \in Sessions, CountVotes(s), IInv
    PROVE  IInv'
<1>1. /\ TypedInv /\ db \in Tables /\ SessionsTyped /\ Single /\ Alone /\ locks \subseteq Open /\ overlapped \in BOOLEAN
      /\ voting \in [Sessions -> Reports \cup {"none"}] /\ \A c \in session[s] : Typed(c, Tables)
      /\ ActionsWritten(db, session) /\ NoAppeal(db) /\ Supported(db, session)
      /\ VotesHeld(db, cast) /\ VotesWritten(db, session, voting, locks)
      /\ VerdictsWritten(session, cast)
      /\ Few(db, session, voting, overlapped)
  BY DEF IInv, TypedInv
<1>2. PICK r, m, v, read, seen, result :
              /\ Counts(s, r, m, v, read, seen, result) /\ session[s] # {}
              /\ WillWrite(s, read, result) /\ WellWritten(s)
              /\ locks' = (IF Reviews(session[s], r) THEN locks \cup {s} ELSE locks)
              /\ voting' = [voting EXCEPT ![s] = "none"] /\ UNCHANGED <<cast, overlapped>>
  BY <1>1, CountIs
<1>3. TypedInv'
  BY <1>1, CountTyped
<1> DEFINE w == session'
           g == voting'
           l == locks'
<1>4. db' = db /\ AreChanges(read, result, w[s]) /\ \A q \in Sessions : q # s => w[q] = session[q]
  BY <1>2 DEF WillWrite
<1>5. /\ g = [voting EXCEPT ![s] = "none"]
      /\ l = (IF Reviews(session[s], r) THEN locks \cup {s} ELSE locks)
  BY <1>2
<1> HIDE DEF w, g, l
<1>6. ActionsWritten(db, w) /\ Supported(db, w)
  <2>1. /\ result \in Tables /\ Acts(result) /\ read \in Tables
        /\ Kept(db, read, {"action", "state", "appeal"})
    BY <1>2 DEF Counts, CountsTo, HadRead, Kept
  <2> QED BY <1>1, <1>4, <2>1, ActsWritten
<1>7. VotesWritten(db, w, g, l)
  BY <1>1, <1>2, <1>4, <1>5, VotesCount
<1>8. VerdictsWritten(w, cast)
  BY <1>1, <1>2, <1>4, VerdictsCount
<1>9. Few(db, w, g, overlapped)
  BY <1>1, <1>2, <1>4, <1>5, FewCount
<1> QED BY <1>1, <1>2, <1>3, <1>4, <1>6, <1>7, <1>8, <1>9 DEF IInv, w, g, l

LEMMA EndAct ==
    ASSUME NEW s \in Sessions, End(s), IInv
    PROVE  IInv'
<1>1. /\ TypedInv /\ db \in Tables /\ SessionsTyped /\ Single /\ Alone /\ locks \subseteq Open /\ overlapped \in BOOLEAN
      /\ voting \in [Sessions -> Reports \cup {"none"}]
      /\ \A q \in Sessions : \A c \in session[q] : Typed(c, Tables)
      /\ ActionsWritten(db, session) /\ NoAppeal(db) /\ Supported(db, session)
      /\ VotesHeld(db, cast) /\ VotesWritten(db, session, voting, locks)
      /\ VerdictsWritten(session, cast)
      /\ Few(db, session, voting, overlapped)
  BY DEF IInv, TypedInv
<1>2. /\ voting' = [voting EXCEPT ![s] = "none"] /\ locks' = locks \ {s}
      /\ \/ /\ voting[s] = "none" /\ \A r \in Reports : Writes(s, r) => Free(s, r)
            /\ Commit(s) /\ cast' = cast \cup CastBy(session[s])
         \/ Rollback(s) /\ UNCHANGED cast
  BY DEF End, LocksWithout
<1>3. TypedInv'
  BY <1>1, EndTyped
<1> DEFINE x == session'
           g == voting'
           l == locks'
           d == db'
           k == cast'
<1>4. g[s] = "none" /\ (\A q \in Sessions : q # s => g[q] = voting[q]) /\ l = locks \ {s}
  BY <1>1, <1>2
<1>5. CASE Rollback(s) /\ UNCHANGED cast
  <2>1. db' = db /\ overlapped' = overlapped /\ x[s] = {} /\ \A q \in Sessions : q # s => x[q] = session[q]
    BY <1>1, <1>5 DEF Rollback, SessionsTyped
  <2> HIDE DEF x, g, l
  <2>2. /\ ActionsWritten(db, x) /\ Supported(db, x)
        /\ VotesWritten(db, x, g, l) /\ VerdictsWritten(x, cast)
    BY <1>1, <1>4, <2>1, RolledBack
  <2>3. Few(db, x, g, overlapped)
    BY <1>1, <1>4, <2>1, FewRolledBack
  <2> QED BY <1>1, <1>3, <1>5, <2>1, <2>2, <2>3 DEF IInv, x, g, l
<1>6. CASE /\ voting[s] = "none" /\ \A r \in Reports : Writes(s, r) => Free(s, r)
           /\ Commit(s) /\ cast' = cast \cup CastBy(session[s])
  <2>1. \A c \in session[s] : c[1] \in {"report", "vote"} => c[4] # "none"
    BY <1>1 DEF VotesWritten, SessionVotes, ReportWritten, VoteWritten
  <2>2. CommitsTo(s)
    BY <1>1, <1>6, <2>1, Commits
  <2>3. VotesHeld(db', cast') /\ VotesWritten(db', session', voting', locks')
    BY <1>1, <1>2, <1>6, <2>2, VotesCommitted
  <2>4. /\ IsFlushed(db, session[s], d) /\ x[s] = {} /\ \A q \in Sessions : q # s => x[q] = session[q]
        /\ overlapped' = overlapped
    BY <2>2 DEF CommitsTo
  <2>5. k = cast \cup CastBy(session[s])
    BY <1>6
  <2> HIDE DEF x, g, l, d, k
  <2>6. ActionsWritten(d, x) /\ NoAppeal(d) /\ Supported(d, x)
    <3>1. \A q \in Sessions : \A c \in session[q] : /\ c[1] = "action" => c[2] \in Actions
                                                    /\ c[1] = "appeal" => c[2] \in Appeals
      BY <1>1, TypedColumns
    <3> QED BY <1>1, <2>4, <3>1, ActsCommitted
  <2>7. VerdictsWritten(x, k)
    BY <1>1, <2>4, <2>5, VerdictsCommitted
  <2>8. Few(d, x, g, overlapped)
    BY <1>1, <1>4, <1>6, <2>2, <2>4, FewCommitted
  <2> QED BY <1>3, <2>3, <2>4, <2>6, <2>7, <2>8 DEF IInv, x, g, l, d, k
<1> QED BY <1>2, <1>5, <1>6

LEMMA InvStep == IInv /\ [Next]_vars => IInv'
<1> SUFFICES ASSUME IInv, [Next]_vars PROVE IInv'
  OBVIOUS
<1>1. CASE UNCHANGED vars
  <2>1. /\ db' = db /\ session' = session /\ overlapped' = overlapped
        /\ voting' = voting /\ locks' = locks /\ cast' = cast
    BY <1>1 DEF vars, requestVars
  <2> QED BY <2>1 DEF IInv, TypedInv, SessionsTyped, Alone, Single, Typed, Open
<1>2. ASSUME NEW s \in Sessions, Queue(s) \/ Enforcement(s) PROVE IInv'
  <2>1. CASE CountVotes(s)
    BY <2>1, CountAct
  <2>2. CASE \E r \in Reports, m \in Moderators, v \in Votes \ {"none"} : OpenVote(s, m, r, v)
    BY <2>2, BallotAct
  <2>3. CASE ~CountVotes(s) /\ \A r \in Reports, m \in Moderators, v \in Votes \ {"none"} : ~OpenVote(s, m, r, v)
    <3>1. db \in Tables /\ VotesHeld(db, cast) /\ NoAppeal(db)
      BY DEF IInv, TypedInv
    <3>2. Plain(s)
      BY <1>2, <2>3, <3>1, HandlersPlain
    <3> QED BY <3>2, PlainAct
  <2> QED BY <2>1, <2>2, <2>3
<1>3. ASSUME NEW s \in Sessions, End(s) PROVE IInv'
  BY <1>3, EndAct
<1> QED BY <1>1, <1>2, <1>3 DEF Next

LEMMA Invariant == Spec => []IInv
  BY InvInit, InvStep, PTL DEF Spec

\* A verdict of the community that a step brings about.
VerdictGiven(r) == db["kind"][r] # "community" /\ db'["kind"][r] = "community"

VerdictStep ==
    [\A r \in Reports :
        db.kind[r] # "community" /\ db'.kind[r] = "community" =>
           /\ db'.report[r] \in {"upheld", "dismissed"}
           /\ Cardinality({m \in Moderators \ {Author} :
                              <<r, m, VoteFor(db'.report[r])>> \in cast'}) >= CONSENSUS_REQUIRED]_vars

\* Only a commit brings one about, with the status it is for.
LEMMA VerdictsAct == IInv /\ [Next]_vars => VerdictStep
<1> SUFFICES ASSUME IInv, Next, NEW r \in Reports, VerdictGiven(r)
             PROVE  BackedBy(r, db'["report"][r], cast')
  BY DEF VerdictStep, VerdictGiven, BackedBy, Behind
<1>1. /\ db \in Tables /\ SessionsTyped /\ Single /\ VotesWritten(db, session, voting, locks)
      /\ \A s \in Sessions : \A c \in session[s] : Typed(c, Tables)
      /\ VerdictsWritten(session, cast)
  BY DEF IInv, TypedInv
<1>2. PICK s \in Sessions : Queue(s) \/ Enforcement(s) \/ End(s)
  BY DEF Next
<1>3. db' # db
  BY DEF VerdictGiven
<1>4. ~Queue(s) /\ ~Enforcement(s)
  BY <1>3 DEF Queue, Enforcement, SubmitReport, ReportContent, DetectBrigading, OpenVote, VoteAgain,
              Decide, CountVotes, Suspend, DecideAppeal, SuspensionEnds, Unfreeze, DeletePost,
              SubmitAppeal, Begin
<1>5. Commit(s) /\ cast' = cast \cup CastBy(session[s])
  BY <1>2, <1>3, <1>4 DEF End, Rollback
<1>6. \A c \in session[s] : c[1] \in {"report", "vote"} => c[4] # "none"
  BY <1>1 DEF VotesWritten, SessionVotes, ReportWritten, VoteWritten
<1>7. IsFlushed(db, session[s], db')
  BY <1>1, <1>5, <1>6, Commits DEF CommitsTo
<1>8. PICK c \in session[s] : c[1] = "kind" /\ c[2] = r /\ c[4] = "community"
  <2>1. \/ \E c \in session[s] : c[1] = "kind" /\ c[2] = r /\ db'["kind"][r] = c[4]
        \/ db'["kind"][r] = db["kind"][r]
    BY <1>1, <1>7, TableRows DEF IsFlushed, Names
  <2> QED BY <2>1 DEF VerdictGiven
<1>9. PICK e \in session[s] : e[1] = "report" /\ e[2] = r /\ BackedBy(r, e[4], cast \cup CastBy(session[s]))
  BY <1>1, <1>8 DEF VerdictsWritten
<1>10. db'["report"][r] = e[4]
  BY <1>7, <1>9 DEF IsFlushed
<1> QED BY <1>5, <1>9, <1>10

-----------------------------------------------------------------------------
(* Theorems.                                                                *)

\* The tables, and what requests will write to them, keep their types.
THEOREM QueueTyped == Spec => []TypeOK
<1>1. IInv => TypeOK
  BY DEF IInv, TypedInv, TypeOK, ChangesTyped, Typed
<1> QED BY <1>1, Invariant, PTL

\* Three votes one way decide a report (tally_queue_votes): while requests do
\* not overlap no report with three stays undecided, and each further request
\* that can be open at once lets at most one more vote go uncounted.
THEOREM ThreeDecide == Spec => []ConsensusDecides
<1>1. IInv => ConsensusDecides
  <2> SUFFICES ASSUME IInv, NEW r \in Reports, NEW v \in {"remove", "keep"}, Undecided(r)
               PROVE  Cardinality(For(db, r, v)) < Crowd(overlapped)
    BY DEF ConsensusDecides, Crowd
  <2> DEFINE votes == For(db, r, v)
             pending == Pending(db, session, Settled(session, voting, r), r, v)
  <2>1. votes \subseteq pending /\ pending \in SUBSET Moderators
    BY DEF For, Pending
  <2>2. Cardinality(pending) < Crowd(overlapped)
    BY DEF IInv, Few, Undecided, IsUndecided
  <2> HIDE DEF votes, pending
  <2>3. /\ IsFiniteSet(pending) /\ Cardinality(pending) \in Nat /\ Cardinality(votes) \in Nat
        /\ Cardinality(Sessions) \in Nat
    BY <2>1, FiniteVoters, RequestsAssumption, FS_CardinalityType
  <2>4. Cardinality(votes) <= Cardinality(pending)
    BY <2>1, <2>3, FS_Subset
  <2>5. Crowd(overlapped) \in Int
    BY <2>3 DEF Crowd, CONSENSUS_REQUIRED
  <2> QED BY <2>2, <2>3, <2>4, <2>5 DEF votes
<1> QED BY <1>1, Invariant, PTL

\* A report gets a verdict of the community only when three members other than
\* the author have cast the vote for that very verdict, whatever was changed or
\* overlapped since it was opened (queue_vote).
THEOREM VerdictsStand == Spec => VerdictBacked
<1>1. IInv /\ [Next]_vars => VerdictStep
  BY VerdictsAct
<1> QED BY <1>1, Invariant, PTL DEF Spec, VerdictBacked, VerdictStep

\* What a moderator took down stays down only under an action that no appeal
\* has reversed (remove_content, suspend_user, decide_appeal).
THEOREM DownHasAction == Spec => []DownUnderAnAction
<1>1. IInv => DownUnderAnAction
  BY DEF IInv, Supported, Supports, Down, DownUnderAnAction
<1> QED BY <1>1, Invariant, PTL
=============================================================================
