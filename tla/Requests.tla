------------------------------ MODULE Requests ------------------------------
(***************************************************************************)
(* The database under the request handlers (app/db.py).                     *)
(*                                                                         *)
(* The database is a record of tables, a table a function from rows to the  *)
(* value of a column, "none" where there is no row.  A request is a session *)
(* that reads the tables when it begins (READ COMMITTED, no row locks) and,  *)
(* when it commits, writes the columns it changed over whatever they hold    *)
(* by then.  A counter is a column like any other: value read, one added,    *)
(* value written.  A request that changes nothing is no session.            *)
(***************************************************************************)
EXTENDS Integers, FiniteSets

CONSTANTS
    Sessions,   \* requests that can be open at once
    Unique,     \* tables whose rows are inserted under a unique constraint
    Booked      \* tables that count the rows inserted: those of all sessions add up

ASSUME RequestsAssumption == IsFiniteSet(Sessions) /\ Unique \cap Booked = {}

VARIABLES
    db,         \* the committed tables
    session,    \* the columns each open session will write, with what it read there
    overlapped  \* history: two sessions have been open at once

requestVars == <<db, session, overlapped>>

Open == {s \in Sessions : session[s] # {}}

\* Table, row, value read, value to write.
ChangesFrom(read, result) ==
    UNION {{<<t, k, read[t][k], result[t][k]>> :
               k \in {k \in DOMAIN read[t] : result[t][k] # read[t][k]}} : t \in DOMAIN read}

Changes(result) == ChangesFrom(db, result)

ChangesTyped ==
    \A s \in Sessions : \A c \in session[s] :
        c[1] \in DOMAIN db /\ c[2] \in DOMAIN db[c[1]] /\ c[3] # c[4]

Begin(s, result) ==
    /\ s \notin Open
    /\ result # db
    /\ session' = [session EXCEPT ![s] = Changes(result)]
    /\ overlapped' = (overlapped \/ Open # {})
    /\ UNCHANGED db

Written(current, c) == IF c[1] \in Booked THEN current + c[4] - c[3] ELSE c[4]

Flush(changes) ==
    [t \in DOMAIN db |-> [k \in DOMAIN db[t] |->
        LET own == {c \in changes : c[1] = t /\ c[2] = k}
        IN  IF own = {} THEN db[t][k] ELSE Written(db[t][k], CHOOSE c \in own : TRUE)]]

\* An INSERT meets the unique constraint, or an UPDATE finds its row gone; a
\* DELETE of a row that is gone only warns.
Clash(c) ==
    /\ c[1] \in Unique
    /\ c[4] # "none"
    /\ (c[3] = "none") # (db[c[1]][c[2]] = "none")

Commit(s) ==
    /\ s \in Open
    /\ \A c \in session[s] : ~Clash(c)
    /\ db' = Flush(session[s])
    /\ session' = [session EXCEPT ![s] = {}]
    /\ UNCHANGED overlapped

Rollback(s) ==
    /\ s \in Open
    /\ session' = [session EXCEPT ![s] = {}]
    /\ UNCHANGED <<db, overlapped>>

\* Sessions that will write row k of table t.
Writing(t, k) == {s \in Open : \E c \in session[s] : c[1] = t /\ c[2] = k}
=============================================================================
