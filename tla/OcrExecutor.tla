---------------------------- MODULE OcrExecutor ----------------------------
(***************************************************************************)
(* The process pool that reads ID cards (app/services/verification.py       *)
(* run_ocr and run_local_queue_ocr): created by the first card, shared by    *)
(* the cards in flight and shut down by the last one, by any one whose       *)
(* worker crashed, and outlived by a card that timed out while being read.  *)
(*                                                                         *)
(* _lock is never held across an await, so a coroutine runs from one await   *)
(* to the next without another in between: each action is such a stretch.   *)
(* The pool's manager thread and its worker process act in between.         *)
(***************************************************************************)
EXTENDS Integers, Sequences, FiniteSets

CONSTANTS
    Calls,      \* bound: the cards ever read, by upload or from the queue
    NoPool      \* _executor is None

ASSUME OcrAssumption == NoPool \notin Nat /\ IsFiniteSet(Calls)

VARIABLES
    call,       \* where each run_ocr call is, or how it ended
    inflight,   \* _inflight
    executor,   \* _executor: the index of a pool, or NoPool
    pools,      \* every ProcessPoolExecutor ever made
    task        \* the future each call submitted, and its pool

ocrVars == <<call, inflight, executor, pools, task>>

-----------------------------------------------------------------------------
\* "cancelled": CancelledError, which "except Exception" lets through.
Outcomes == {"answered", "timed_out", "failed", "cancelled"}

Pool == [shut : BOOLEAN, broken : BOOLEAN]

\* Bound: a pool is made by a call, so there are at most as many.
PoolIds == 1..Cardinality(Calls)

\* "taken": in the pool's call queue or being read, no longer cancellable.
Task == [pool : Nat, state : {"none", "pending", "taken", "done", "lost", "cancelled"}]

OcrTypeOK ==
    /\ call \in [Calls -> {"idle", "awaiting"} \cup Outcomes]
    /\ inflight \in Nat
    /\ executor \in {NoPool} \cup DOMAIN pools
    /\ pools \in Seq(Pool)
    /\ task \in [Calls -> Task]

OcrInit ==
    /\ call = [c \in Calls |-> "idle"]
    /\ inflight = 0
    /\ executor = NoPool
    /\ pools = <<>>
    /\ task = [c \in Calls |-> [pool |-> 0, state |-> "none"]]

-----------------------------------------------------------------------------
(* Helpers.                                                                *)

TasksIn(p, state) == {c \in Calls : task[c].pool = p /\ task[c].state = state}

\* A worker process runs: its pool is open, or still has cards it took.
Alive(p) == ~pools[p].broken /\ (~pools[p].shut \/ TasksIn(p, "taken") # {})

\* Mutant: _executor is forgotten without shutting it down.
Forgotten(ps) == ps

\* shutdown_executor on the pools, if there is one to shut down.
ShutDown(ps) == IF executor = NoPool THEN ps ELSE [ps EXCEPT ![executor].shut = TRUE]

\* Mutant: nothing shuts the pool down after the last card.
NeverLast == FALSE

\* The finally block of a call finds no other call in flight.
Last == inflight - 1 <= 0

\* Mutant: the exception's handler and the finally block both count down.
ReleasedTwice == inflight - 2

\* Mutant: only the clamp, the decrement is lost.
NotReleased == IF Last THEN 0 ELSE inflight

\* _inflight after the finally block.
Released == IF Last THEN 0 ELSE inflight - 1

\* A call ends: the finally block, and shutdown_executor where the handler of
\* the exception calls it too.
EndCall(c, outcome, shuts) ==
    /\ call[c] = "awaiting"
    /\ call' = [call EXCEPT ![c] = outcome]
    /\ inflight' = Released
    /\ IF shuts \/ Last
       THEN pools' = ShutDown(pools) /\ executor' = NoPool
       ELSE UNCHANGED <<pools, executor>>

-----------------------------------------------------------------------------
(* The coroutine.                                                          *)

\* get_executor, then the submission to an executor that works.
Start(c) ==
    /\ call[c] = "idle"
    /\ executor # NoPool => ~pools[executor].broken
    /\ inflight' = inflight + 1
    /\ IF executor = NoPool
       THEN /\ pools' = Append(pools, [shut |-> FALSE, broken |-> FALSE])
            /\ executor' = Len(pools) + 1
       ELSE UNCHANGED <<pools, executor>>
    /\ task' = [task EXCEPT ![c] = [pool |-> executor', state |-> "pending"]]
    /\ call' = [call EXCEPT ![c] = "awaiting"]

\* A broken pool refuses the submission: BrokenProcessPool at once.  The
\* counter goes up and down again; the other calls keep it above zero or the
\* pool is shut down, which the handler does anyway.
StartOnBroken(c) ==
    /\ call[c] = "idle"
    /\ executor # NoPool /\ pools[executor].broken
    /\ call' = [call EXCEPT ![c] = "failed"]
    /\ pools' = ShutDown(pools)
    /\ executor' = NoPool
    /\ UNCHANGED <<inflight, task>>

Answer(c) ==
    /\ task[c].state = "done"
    /\ EndCall(c, "answered", FALSE)
    /\ UNCHANGED task

\* wait_for cancels the future, which a card already taken survives.
TimeOut(c) ==
    /\ EndCall(c, "timed_out", FALSE)
    /\ task' = [task EXCEPT ![c].state = IF @ = "pending" THEN "cancelled" ELSE @]

\* BrokenProcessPool: "a crashed worker must not take the request with it".
Fail(c) ==
    /\ task[c].state = "lost"
    /\ EndCall(c, "failed", TRUE)
    /\ UNCHANGED task

\* The pool was shut down under the call, with cancel_futures.
Cancelled(c) ==
    /\ task[c].state = "cancelled"
    /\ EndCall(c, "cancelled", FALSE)
    /\ UNCHANGED task

-----------------------------------------------------------------------------
(* The pool: its manager thread and its worker (concurrent.futures).        *)

\* The worker reads one card and its call queue holds two, max_workers + 1.
Take(c) ==
    /\ task[c].state = "pending"
    /\ Cardinality(TasksIn(task[c].pool, "taken")) < 3
    /\ task' = [task EXCEPT ![c].state = "taken"]
    /\ UNCHANGED <<call, inflight, executor, pools>>

\* read_id_card returns, or raises what the wrapper turns into an answer.
Finish(c) ==
    /\ task[c].state = "taken"
    /\ task' = [task EXCEPT ![c].state = "done"]
    /\ UNCHANGED <<call, inflight, executor, pools>>

\* shutdown(cancel_futures=True) reaches the manager thread.
CancelPending(p) ==
    /\ p \in DOMAIN pools /\ pools[p].shut
    /\ TasksIn(p, "pending") # {}
    /\ task' = [c \in Calls |-> IF c \in TasksIn(p, "pending")
                                THEN [task[c] EXCEPT !.state = "cancelled"] ELSE task[c]]
    /\ UNCHANGED <<call, inflight, executor, pools>>

\* The worker dies (the kernel reclaims its memory): every future fails.
WorkerDies(p) ==
    /\ p \in DOMAIN pools /\ Alive(p)
    /\ pools' = [pools EXCEPT ![p].broken = TRUE]
    /\ task' = [c \in Calls |->
           IF c \in TasksIn(p, "pending") \cup TasksIn(p, "taken")
           THEN [task[c] EXCEPT !.state = "lost"] ELSE task[c]]
    /\ UNCHANGED <<call, inflight, executor>>

Return(c) == Answer(c) \/ TimeOut(c) \/ Fail(c) \/ Cancelled(c)

OcrNext ==
    \/ \E c \in Calls : Start(c) \/ StartOnBroken(c) \/ Return(c) \/ Take(c) \/ Finish(c)
    \/ \E p \in PoolIds : CancelPending(p) \/ WorkerDies(p)

\* A call ends at the latest after its timeout, and reading a card ends.
OcrFairness == \A c \in Calls : WF_ocrVars(Return(c)) /\ WF_ocrVars(Finish(c))

OcrSpec == OcrInit /\ [][OcrNext]_ocrVars /\ OcrFairness

-----------------------------------------------------------------------------
(* Properties.                                                             *)

\* _inflight is the number of calls between their two critical sections, so
\* the clamp "if _inflight <= 0" never hides a lost count.
InflightExact == inflight = Cardinality({c \in Calls : call[c] = "awaiting"})

\* No pool is leaked: every pool but _executor has been told to shut down, and
\* with no card in flight there is none left to tell.
NoPoolLeaked ==
    /\ \A p \in DOMAIN pools : p # executor => pools[p].shut
    /\ inflight = 0 => executor = NoPool

\* "Torn down once the last in-flight card is done": as long as cards are in
\* flight only now and then, no idle worker keeps its memory.
WorkersEnd ==
    (\A c \in Calls : call[c] # "awaiting") ~>
        (\/ \A p \in DOMAIN pools : ~Alive(p)
         \/ \E c \in Calls : call[c] = "awaiting")
====
