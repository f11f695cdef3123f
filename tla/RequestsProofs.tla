--------------------------- MODULE RequestsProofs ---------------------------
(***************************************************************************)
(* What the requests of module Requests do to tables, for the proofs about  *)
(* the modules built on it.                                                 *)
(*                                                                         *)
(* A session stands for the tables it leads to: After(s) is what the         *)
(* database holds once s commits.  When a session begins alone that is the   *)
(* result of its handler (AloneBegins); when it commits it is the database.  *)
(* So what each handler keeps of the tables it reads holds of the database   *)
(* and of After(s) as long as no two sessions overlap.                       *)
(***************************************************************************)
EXTENDS Requests, TLAPS

\* What a session writes to a row.
Own(s, t, k) == {c \in session[s] : c[1] = t /\ c[2] = k}

After(s) == Flush(session[s])

\* A value with the tables and the rows of the database.
Shaped(d) ==
    /\ d = [t \in DOMAIN db |-> d[t]]
    /\ \A t \in DOMAIN db : d[t] = [k \in DOMAIN db[t] |-> d[t][k]]

\* No two requests have been open at once.
Alone == ~overlapped => \A s, r \in Open : s = r

\* A change of a row from and to values of its column, in tables of type T.
Typed(c, T) ==
    /\ c[1] \in DOMAIN db /\ c[2] \in DOMAIN db[c[1]] /\ c[3] # c[4]
    /\ \E d, e \in T : c[3] = d[c[1]][c[2]] /\ c[4] = e[c[1]][c[2]]

-----------------------------------------------------------------------------
(* Changes and writes.                                                     *)

LEMMA ChangesFromAre ==
    ASSUME NEW STATE read, NEW STATE result, NEW STATE c, c \in ChangesFrom(read, result)
    PROVE  /\ c[1] \in DOMAIN read /\ c[2] \in DOMAIN read[c[1]]
           /\ c = <<c[1], c[2], read[c[1]][c[2]], result[c[1]][c[2]]>>
           /\ c[3] = read[c[1]][c[2]] /\ c[4] = result[c[1]][c[2]] /\ c[3] # c[4]
<1>1. PICK t \in DOMAIN read : c \in
          {<<t, k, read[t][k], result[t][k]>> : k \in {k \in DOMAIN read[t] : result[t][k] # read[t][k]}}
  BY DEF ChangesFrom
<1>2. PICK k \in DOMAIN read[t] :
          result[t][k] # read[t][k] /\ c = <<t, k, read[t][k], result[t][k]>>
  BY <1>1
<1> QED BY <1>2

LEMMA ChangesFromHold ==
    ASSUME NEW STATE read, NEW STATE result, NEW t \in DOMAIN read, NEW k \in DOMAIN read[t],
           result[t][k] # read[t][k]
    PROVE  <<t, k, read[t][k], result[t][k]>> \in ChangesFrom(read, result)
<1>1. <<t, k, read[t][k], result[t][k]>> \in
          {<<t, j, read[t][j], result[t][j]>> : j \in {j \in DOMAIN read[t] : result[t][j] # read[t][j]}}
  OBVIOUS
<1> QED BY <1>1 DEF ChangesFrom

LEMMA ChangesFromSingle ==
    ASSUME NEW STATE read, NEW STATE result, NEW STATE c, c \in ChangesFrom(read, result),
           NEW STATE d, d \in ChangesFrom(read, result), c[1] = d[1], c[2] = d[2]
    PROVE  c = d
<1>1. c = <<c[1], c[2], read[c[1]][c[2]], result[c[1]][c[2]]>>
  BY ChangesFromAre
<1>2. d = <<d[1], d[2], read[d[1]][d[2]], result[d[1]][d[2]]>>
  BY ChangesFromAre
<1> QED BY <1>1, <1>2

LEMMA ChangesAre ==
    ASSUME NEW STATE result, NEW STATE c, c \in Changes(result)
    PROVE  /\ c[1] \in DOMAIN db /\ c[2] \in DOMAIN db[c[1]]
           /\ c = <<c[1], c[2], db[c[1]][c[2]], result[c[1]][c[2]]>>
           /\ c[3] = db[c[1]][c[2]] /\ c[4] = result[c[1]][c[2]] /\ c[3] # c[4]
  BY ChangesFromAre DEF Changes

LEMMA ChangesHold ==
    ASSUME NEW STATE result, NEW t \in DOMAIN db, NEW k \in DOMAIN db[t],
           result[t][k] # db[t][k]
    PROVE  <<t, k, db[t][k], result[t][k]>> \in Changes(result)
  BY ChangesFromHold DEF Changes

LEMMA ChangesTypedAt ==
    ASSUME NEW T, db \in T, NEW STATE result, result \in T
    PROVE  \A c \in Changes(result) : Typed(c, T)
<1> SUFFICES ASSUME NEW c \in Changes(result) PROVE Typed(c, T)
  OBVIOUS
<1> QED BY ChangesAre DEF Typed

\* What a set of changes makes of one row: what it held, or what one of them writes.
LEMMA FlushRow ==
    ASSUME NEW STATE changes, NEW t \in DOMAIN db, NEW k \in DOMAIN db[t]
    PROVE  LET own == {c \in changes : c[1] = t /\ c[2] = k}
           IN  /\ own = {} => Flush(changes)[t][k] = db[t][k]
               /\ own # {} => \E c \in own : Flush(changes)[t][k] = Written(db[t][k], c)
<1> DEFINE own == {c \in changes : c[1] = t /\ c[2] = k}
<1>1. Flush(changes)[t][k] = IF own = {} THEN db[t][k] ELSE Written(db[t][k], CHOOSE c \in own : TRUE)
  BY Zenon DEF Flush
<1>2. own # {} => (CHOOSE c \in own : TRUE) \in own
  OBVIOUS
<1> QED BY <1>1, <1>2

LEMMA FlushShaped ==
    ASSUME NEW STATE changes
    PROVE  Shaped(Flush(changes))
  BY DEF Shaped, Flush

\* What changes make of any tables, for steps that leave the database alone.
MergedTable(t, table, changes) ==
    [k \in DOMAIN table |->
        LET own == {c \in changes : c[1] = t /\ c[2] = k}
        IN  IF own = {} THEN table[k] ELSE Written(table[k], CHOOSE c \in own : TRUE)]

Merged(d, changes) == [t \in DOMAIN d |-> MergedTable(t, d[t], changes)]

LEMMA FlushMerges ==
    ASSUME NEW STATE changes
    PROVE  Flush(changes) = Merged(db, changes)
  BY Zenon DEF Flush, Merged, MergedTable

LEMMA AfterMerges ==
    ASSUME NEW s \in Sessions
    PROVE  After(s) = Merged(db, session[s]) /\ After(s)' = Merged(db', session'[s])
<1>1. After(s) = Merged(db, session[s])
  BY FlushMerges DEF After
<1>2. After(s)' = Merged(db', session'[s])
  BY Zenon DEF After, Flush, Merged, MergedTable, Written
<1> QED BY <1>1, <1>2

\* Tables that have the same rows with the same values are the same.
LEMMA SameTables ==
    ASSUME NEW STATE d, NEW STATE e, Shaped(d), Shaped(e),
           \A t \in DOMAIN db : \A k \in DOMAIN db[t] : d[t][k] = e[t][k]
    PROVE  d = e
<1>1. ASSUME NEW t \in DOMAIN db PROVE d[t] = e[t]
  BY DEF Shaped
<1> QED BY <1>1 DEF Shaped

\* A session that is alone writes the result of its handler.
LEMMA FlushOfChanges ==
    ASSUME NEW STATE result, Shaped(db), Shaped(result),
           \A t \in Booked \cap DOMAIN db : \A k \in DOMAIN db[t] : db[t][k] \in Int /\ result[t][k] \in Int
    PROVE  Flush(Changes(result)) = result
<1> DEFINE flushed == Flush(Changes(result))
<1>1. ASSUME NEW t \in DOMAIN db, NEW k \in DOMAIN db[t]
      PROVE  flushed[t][k] = result[t][k]
  <2> DEFINE own == {c \in Changes(result) : c[1] = t /\ c[2] = k}
  <2>1. CASE own = {}
    <3>1. flushed[t][k] = db[t][k]
      BY <2>1, FlushRow
    <3>2. result[t][k] # db[t][k] => <<t, k, db[t][k], result[t][k]>> \in own
      BY ChangesHold
    <3> QED BY <2>1, <3>1, <3>2
  <2>2. CASE own # {}
    <3>1. \E c \in own : flushed[t][k] = Written(db[t][k], c)
      BY <2>2, FlushRow
    <3>2. ASSUME NEW c \in own PROVE Written(db[t][k], c) = result[t][k]
      <4>1. c[1] = t /\ c[2] = k /\ c[3] = db[t][k] /\ c[4] = result[t][k]
        BY ChangesAre
      <4>2. CASE t \in Booked
        BY <4>1, <4>2 DEF Written
      <4>3. CASE t \notin Booked
        BY <4>1, <4>3 DEF Written
      <4> QED BY <4>2, <4>3
    <3> HIDE DEF own
    <3> QED BY <3>1, <3>2
  <2> QED BY <2>1, <2>2
<1>2. Shaped(flushed)
  BY FlushShaped
<1> HIDE DEF flushed
<1>3. flushed = result
  BY <1>1, <1>2, SameTables
<1> QED BY <1>3 DEF flushed

-----------------------------------------------------------------------------
(* The steps of a session.                                                 *)

SessionsTyped == session = [s \in Sessions |-> session[s]]

LEMMA AloneBegins ==
    ASSUME SessionsTyped, Alone, NEW s \in Sessions, NEW STATE result, Begin(s, result),
           Shaped(db), Shaped(result),
           \A t \in Booked \cap DOMAIN db : \A k \in DOMAIN db[t] : db[t][k] \in Int /\ result[t][k] \in Int
    PROVE  /\ SessionsTyped' /\ Alone'
           /\ db' = db
           /\ session'[s] = Changes(result)
           /\ \A r \in Sessions : r # s => session'[r] = session[r]
           /\ ~overlapped' => ~overlapped /\ Open = {}
           /\ ~overlapped' => \A r \in Open' : r = s /\ After(r)' = result
<1>1. /\ db' = db
      /\ session' = [session EXCEPT ![s] = Changes(result)]
      /\ overlapped' = (overlapped \/ Open # {})
  BY DEF Begin
<1>2. SessionsTyped'
  BY <1>1 DEF SessionsTyped
<1>3. /\ session'[s] = Changes(result)
      /\ \A r \in Sessions : r # s => session'[r] = session[r]
  BY <1>1 DEF SessionsTyped
<1>4. ~overlapped' => ~overlapped /\ Open = {}
  BY <1>1
<1>5. ~overlapped' => \A r \in Open' : r = s
  BY <1>3, <1>4 DEF Open
<1>7. After(s)' = result
  <2>1. After(s)' = Merged(db, Changes(result))
    BY <1>1, <1>3, AfterMerges
  <2>2. Flush(Changes(result)) = result
    BY FlushOfChanges
  <2> QED BY <2>1, <2>2, FlushMerges
<1>8. Alone'
  BY <1>5 DEF Alone
<1> QED BY <1>1, <1>2, <1>3, <1>4, <1>5, <1>7, <1>8

LEMMA AloneEnds ==
    ASSUME SessionsTyped, Alone, NEW s \in Sessions, Commit(s) \/ Rollback(s)
    PROVE  /\ SessionsTyped' /\ Alone'
           /\ session'[s] = {}
           /\ \A r \in Sessions : r # s => session'[r] = session[r]
           /\ overlapped' = overlapped
           /\ ~overlapped' => Open' = {}
           /\ Open' = Open \ {s}
<1>1. session' = [session EXCEPT ![s] = {}] /\ overlapped' = overlapped /\ s \in Open
  BY DEF Commit, Rollback
<1>2. SessionsTyped' /\ session'[s] = {} /\ \A r \in Sessions : r # s => session'[r] = session[r]
  BY <1>1 DEF SessionsTyped
<1>3. Open' = Open \ {s}
  BY <1>2 DEF Open
<1> QED BY <1>1, <1>2, <1>3 DEF Alone

\* What a commit makes of the database.
LEMMA Committed ==
    ASSUME NEW s \in Sessions, Commit(s)
    PROVE  /\ s \in Open /\ db' = After(s) /\ Shaped(db')
           /\ DOMAIN db' = DOMAIN db
           /\ \A t \in DOMAIN db : DOMAIN db'[t] = DOMAIN db[t]
<1>1. s \in Open /\ db' = After(s)
  BY DEF Commit, After
<1>2. Shaped(After(s))
  BY FlushShaped DEF After
<1> QED BY <1>1, <1>2 DEF Shaped

\* What a commit makes of one row.
LEMMA CommitAt ==
    ASSUME NEW s \in Sessions, Commit(s), NEW t \in DOMAIN db, NEW k \in DOMAIN db[t]
    PROVE  /\ DOMAIN db' = DOMAIN db
           /\ db'[t] = [j \in DOMAIN db[t] |-> db'[t][j]]
           /\ IF Own(s, t, k) = {} THEN db'[t][k] = db[t][k]
              ELSE \E c \in Own(s, t, k) : db'[t][k] = Written(db[t][k], c)
<1>1. db' = Flush(session[s])
  BY DEF Commit
<1>2. IF Own(s, t, k) = {} THEN db'[t][k] = db[t][k]
      ELSE \E c \in Own(s, t, k) : db'[t][k] = Written(db[t][k], c)
  BY <1>1, FlushRow DEF Own
<1>3. DOMAIN db' = DOMAIN db /\ db'[t] = [j \in DOMAIN db[t] |-> db'[t][j]]
  BY Committed DEF Shaped
<1> QED BY <1>2, <1>3

\* A session has one change of a row, and a commit writes it.
Single == \A s \in Sessions : \A c, d \in session[s] : c[1] = d[1] /\ c[2] = d[2] => c = d

LEMMA ChangesSingle ==
    ASSUME NEW STATE result, NEW STATE c, c \in Changes(result), NEW STATE d, d \in Changes(result),
           c[1] = d[1], c[2] = d[2]
    PROVE  c = d
<1>1. c = <<c[1], c[2], db[c[1]][c[2]], result[c[1]][c[2]]>>
  BY ChangesAre
<1>2. d = <<d[1], d[2], db[d[1]][d[2]], result[d[1]][d[2]]>>
  BY ChangesAre
<1> QED BY <1>1, <1>2

\* What a session that begins will write of one row.
LEMMA OwnOfChanges ==
    ASSUME NEW STATE result, NEW t \in DOMAIN db, NEW k \in DOMAIN db[t]
    PROVE  {c \in Changes(result) : c[1] = t /\ c[2] = k} =
               IF result[t][k] = db[t][k] THEN {} ELSE {<<t, k, db[t][k], result[t][k]>>}
<1> DEFINE own == {c \in Changes(result) : c[1] = t /\ c[2] = k}
           change == <<t, k, db[t][k], result[t][k]>>
<1>1. ASSUME NEW c \in own PROVE c = change /\ result[t][k] # db[t][k]
  BY ChangesAre
<1>2. result[t][k] # db[t][k] => change \in own
  BY ChangesHold
<1> HIDE DEF own, change
<1> QED BY <1>1, <1>2 DEF own, change

LEMMA NoneWriting ==
    ASSUME NEW t, NEW k, Writing(t, k) = {}
    PROVE  \A s \in Sessions : Own(s, t, k) = {}
  BY DEF Writing, Own, Open

LEMMA CommitWrites ==
    ASSUME Single, NEW s \in Sessions, Commit(s), NEW c \in session[s],
           c[1] \in DOMAIN db, c[2] \in DOMAIN db[c[1]]
    PROVE  db'[c[1]][c[2]] = Written(db[c[1]][c[2]], c)
<1>1. c \in Own(s, c[1], c[2])
  BY DEF Own
<1>2. PICK d \in Own(s, c[1], c[2]) : db'[c[1]][c[2]] = Written(db[c[1]][c[2]], d)
  BY <1>1, CommitAt
<1>3. d = c
  BY <1>2 DEF Own, Single
<1> QED BY <1>2, <1>3

\* A column that is not booked holds a value of its type after a commit.
LEMMA CommitTyped ==
    ASSUME NEW T, NEW s \in Sessions, Commit(s), \A c \in session[s] : Typed(c, T),
           NEW t \in DOMAIN db, NEW k \in DOMAIN db[t], t \notin Booked
    PROVE  db'[t][k] = db[t][k] \/ \E e \in T : db'[t][k] = e[t][k]
<1>1. CASE Own(s, t, k) = {}
  BY <1>1, CommitAt
<1>2. CASE Own(s, t, k) # {}
  <2>1. PICK c \in Own(s, t, k) : db'[t][k] = Written(db[t][k], c)
    BY <1>2, CommitAt
  <2>2. db'[t][k] = c[4] /\ c \in session[s] /\ c[1] = t /\ c[2] = k
    BY <2>1 DEF Written, Own
  <2> QED BY <2>2 DEF Typed
<1> QED BY <1>1, <1>2

\* So does a table of rows R with values in V.
LEMMA CommitTable ==
    ASSUME NEW T, db \in T, NEW s \in Sessions, Commit(s), \A c \in session[s] : Typed(c, T),
           NEW t \in DOMAIN db \ Booked, NEW R, NEW V, \A e \in T : e[t] \in [R -> V]
    PROVE  db'[t] \in [R -> V]
<1>1. DOMAIN db[t] = R /\ \A k \in R : db[t][k] \in V
  OBVIOUS
<1>2. ASSUME NEW k \in R PROVE db'[t][k] \in V
  <2>1. db'[t][k] = db[t][k] \/ \E e \in T : db'[t][k] = e[t][k]
    BY <1>1, CommitTyped
  <2> QED BY <1>1, <2>1
<1>3. db'[t] = [k \in R |-> db'[t][k]]
  BY <1>1, Committed DEF Shaped
<1> QED BY <1>2, <1>3

\* A step outside the sessions leaves what they will write of other tables.
LEMMA AfterTable ==
    ASSUME NEW s \in Sessions, UNCHANGED session, DOMAIN db' = DOMAIN db,
           NEW t \in DOMAIN db, db'[t] = db[t]
    PROVE  After(s)'[t] = After(s)[t]
<1>1. After(s)' = Merged(db', session[s]) /\ After(s) = Merged(db, session[s])
  BY AfterMerges
<1>2. \A d : t \in DOMAIN d => Merged(d, session[s])[t] = MergedTable(t, d[t], session[s])
  BY DEF Merged
<1> QED BY <1>1, <1>2

LEMMA AfterSame ==
    ASSUME NEW s \in Sessions, UNCHANGED <<session, db>>
    PROVE  After(s)' = After(s)
  BY AfterMerges

\* So does it of a row the session has no change of.
LEMMA AfterRow ==
    ASSUME NEW s \in Sessions, UNCHANGED session, DOMAIN db' = DOMAIN db,
           NEW t \in DOMAIN db \ Booked, DOMAIN db'[t] = DOMAIN db[t], NEW k \in DOMAIN db[t]
    PROVE  \/ After(s)'[t][k] = After(s)[t][k]
           \/ After(s)'[t][k] = db'[t][k] /\ After(s)[t][k] = db[t][k]
<1> DEFINE own == {c \in session[s] : c[1] = t /\ c[2] = k}
           writes == CHOOSE c \in own : TRUE
<1>1. After(s)' = Merged(db', session[s]) /\ After(s) = Merged(db, session[s])
  BY AfterMerges
<1>2. /\ After(s)'[t] = MergedTable(t, db'[t], session[s])
      /\ After(s)[t] = MergedTable(t, db[t], session[s])
  BY <1>1 DEF Merged
<1>3. \A table : k \in DOMAIN table => MergedTable(t, table, session[s])[k] =
          IF own = {} THEN table[k] ELSE Written(table[k], writes)
  BY DEF MergedTable
<1> HIDE DEF own, writes
<1>4. own # {} => \A current : Written(current, writes) = writes[4]
  <2>1. own # {} => writes \in own
    BY DEF writes
  <2> QED BY <2>1 DEF own, Written
<1> QED BY <1>2, <1>3, <1>4
=============================================================================
