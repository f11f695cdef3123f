-------------------------- MODULE DiscussionsProofs --------------------------
(***************************************************************************)
(* Merged questions, the accepted answer, and the counters of answers,       *)
(* comments and poll votes, for any number of questions, answers, comments,  *)
(* voters and requests.                                                     *)
(***************************************************************************)
EXTENDS Discussions, RequestsProofs, FiniteSetTheorems

\* What the three properties say of tables d.
Circleless(d) ==
    \A merged \in (SUBSET Questions) \ {{}} : \E q \in merged : d["duplicate"][q] \notin merged

Marked(d) ==
    /\ \A a \in Answers : d["is_accepted"][a] = (d["thread"].accepted_answer_id = a)
    /\ \A w \in Awards : d["award"][w] \in Answers => d["is_accepted"][d["award"][w]]

BallotsFor(d, o) == {u \in Voters : d["ballot"][u] = o}
Existing(d) == {a \in Answers : d["status"][a] # "none"}
Standing(d) == {c \in Comments : d["status"][c] \in {"active", "removed"}}

Tallied(d) ==
    /\ \A o \in Options : d["votes"][o] = Cardinality(BallotsFor(d, o))
    /\ d["thread"].answer_count = Cardinality(Existing(d))
    /\ d["post"].comment_count <= Cardinality(Standing(d))

Good(d) == Circleless(d) /\ Marked(d) /\ Tallied(d)

Sound(s) == \E result \in Tables : Begin(s, result) /\ (Good(db) => Good(result))

Kept(d, e, names) == \A t \in names : e[t] = d[t]

-----------------------------------------------------------------------------
(* What does not concern a property.                                       *)

LEMMA CirclelessKept ==
    ASSUME NEW d \in Tables, NEW e \in Tables, Kept(d, e, {"duplicate"}), Circleless(d)
    PROVE  Circleless(e)
<1>1. e["duplicate"] = d["duplicate"]
  BY DEF Kept
<1> QED BY <1>1, Zenon DEF Circleless

LEMMA MarkedKept ==
    ASSUME NEW d \in Tables, NEW e \in Tables, Kept(d, e, {"is_accepted", "award"}),
           e["thread"].accepted_answer_id = d["thread"].accepted_answer_id, Marked(d)
    PROVE  Marked(e)
<1>1. e["is_accepted"] = d["is_accepted"] /\ e["award"] = d["award"]
  BY DEF Kept
<1> QED BY <1>1 DEF Marked

LEMMA FiniteTexts ==
    ASSUME NEW d
    PROVE  /\ \A o : IsFiniteSet(BallotsFor(d, o)) /\ Cardinality(BallotsFor(d, o)) \in Nat
           /\ IsFiniteSet(Existing(d)) /\ Cardinality(Existing(d)) \in Nat
           /\ IsFiniteSet(Standing(d)) /\ Cardinality(Standing(d)) \in Nat
<1>1. IsFiniteSet(Answers) /\ IsFiniteSet(Comments) /\ IsFiniteSet(Voters)
  BY DiscussionsAssumption
<1>2. \A o : IsFiniteSet(BallotsFor(d, o))
  BY <1>1, FS_Subset DEF BallotsFor
<1>3. IsFiniteSet(Existing(d)) /\ IsFiniteSet(Standing(d))
  BY <1>1, FS_Subset DEF Existing, Standing
<1> QED BY <1>2, <1>3, FS_CardinalityType

\* The answers stay as they are, the comments that stand stand.
LEMMA TalliedKept ==
    ASSUME NEW d \in Tables, NEW e \in Tables, Kept(d, e, {"ballot", "votes", "thread"}),
           e["post"].comment_count = d["post"].comment_count,
           Existing(e) = Existing(d), Standing(d) \subseteq Standing(e), Tallied(d)
    PROVE  Tallied(e)
<1>1. e["ballot"] = d["ballot"] /\ e["votes"] = d["votes"] /\ e["thread"] = d["thread"]
  BY DEF Kept
<1>2. \A o \in Options : BallotsFor(e, o) = BallotsFor(d, o)
  BY <1>1 DEF BallotsFor
<1>3. \A o \in Options : e["votes"][o] = Cardinality(BallotsFor(e, o))
  BY <1>1, <1>2, Zenon DEF Tallied
<1>4. e["thread"].answer_count = Cardinality(Existing(e))
  BY <1>1, Zenon DEF Tallied
<1>5. Cardinality(Standing(d)) <= Cardinality(Standing(e))
  BY FiniteTexts, FS_Subset
<1>6. e["post"].comment_count <= Cardinality(Standing(e))
  <2>1. d["post"].comment_count \in Nat /\ d["post"].comment_count <= Cardinality(Standing(d))
    BY DEF Tables, PostRow, Tallied
  <2> QED BY <1>5, <2>1, FiniteTexts
<1> QED BY <1>3, <1>4, <1>6 DEF Tallied

\* Tables that differ in what is raised, or in nothing a property speaks of.
LEMMA GoodKept ==
    ASSUME NEW d \in Tables, NEW e \in Tables,
           Kept(d, e, {"status", "duplicate", "thread", "is_accepted", "award", "post", "ballot", "votes"}),
           Good(d)
    PROVE  Good(e)
<1>1. Kept(d, e, {"duplicate"}) /\ Kept(d, e, {"is_accepted", "award"}) /\ Kept(d, e, {"ballot", "votes", "thread"})
  BY DEF Kept
<1>2. e["thread"] = d["thread"] /\ e["post"] = d["post"] /\ e["status"] = d["status"]
  BY DEF Kept
<1>3. Existing(e) = Existing(d) /\ Standing(e) = Standing(d)
  BY <1>2 DEF Existing, Standing
<1> QED BY <1>1, <1>2, <1>3, CirclelessKept, MarkedKept, TalliedKept DEF Good

\* The word lists can only raise something.
LEMMA ScreenedKeeps ==
    ASSUME NEW d \in Tables, NEW t \in Texts, NEW result \in Screened(d, t)
    PROVE  /\ result \in Tables
           /\ Good(d) => Good(result)
<1>1. PICK hits \in SUBSET WordLists : result = Recorded(d, t, Screen(hits))
  BY DEF Screened
<1> DEFINE reported == [d EXCEPT !.raised[t] = "report"]
           crisis == [d EXCEPT !.raised[t] = "crisis"]
<1>2. result \in {d, reported, crisis}
  BY <1>1 DEF Recorded, RaiseCrisis
<1>3. reported \in Tables /\ crisis \in Tables
  BY DEF Tables, Raised
<1>4. /\ Kept(d, reported, {"status", "duplicate", "thread", "is_accepted", "award", "post", "ballot", "votes"})
      /\ Kept(d, crisis, {"status", "duplicate", "thread", "is_accepted", "award", "post", "ballot", "votes"})
  BY DEF Kept, Tables
<1> HIDE DEF reported, crisis
<1>5. (Good(d) => Good(reported)) /\ (Good(d) => Good(crisis))
  BY <1>3, <1>4, GoodKept
<1> QED BY <1>2, <1>3, <1>5

\* A handler that writes one of the screened results of d.
LEMMA ScreenedSound ==
    ASSUME db \in Tables, NEW s \in Sessions, NEW d \in Tables, NEW t \in Texts,
           \E result \in Screened(d, t) : Begin(s, result),
           Good(db) => Good(d)
    PROVE  Sound(s)
<1>1. PICK result \in Screened(d, t) : Begin(s, result)
  OBVIOUS
<1>2. result \in Tables /\ (Good(d) => Good(result))
  BY ScreenedKeeps
<1> QED BY <1>1, <1>2 DEF Sound

LEMMA TextsAre ==
    /\ Questions \subseteq Texts /\ Answers \subseteq Texts /\ Comments \subseteq Texts /\ Poll \in Texts
    /\ \A q \in Questions : q \notin Answers /\ q \notin Comments /\ q # Poll
    /\ \A a \in Answers : a \notin Comments /\ a # Poll
    /\ Poll \notin Comments /\ Poll \notin Answers /\ Thread \in Questions
  BY DiscussionsAssumption DEF Texts

-----------------------------------------------------------------------------
(* Removal, restoration and the crisis queue.                              *)

\* A new status that leaves answers existing and comments standing.
LEMMA StatusKeeps ==
    ASSUME NEW d \in Tables, NEW e \in Tables, NEW t \in Texts,
           Kept(d, e, {"raised", "duplicate", "thread", "is_accepted", "award", "ballot", "votes"}),
           e["post"].comment_count = d["post"].comment_count,
           \A u \in Texts : u # t => e["status"][u] = d["status"][u],
           t \in Answers => (e["status"][t] = "none") = (d["status"][t] = "none"),
           t \in Comments => \/ e["status"][t] \in {"active", "removed"}
                             \/ d["status"][t] \notin {"active", "removed"},
           Good(d)
    PROVE  Good(e)
<1>1. Kept(d, e, {"duplicate"}) /\ Kept(d, e, {"is_accepted", "award"}) /\ Kept(d, e, {"ballot", "votes", "thread"})
  BY DEF Kept
<1>2. e["thread"] = d["thread"]
  BY DEF Kept
<1>3. Existing(e) = Existing(d)
  BY TextsAre DEF Existing
<1>4. Standing(d) \subseteq Standing(e)
  BY TextsAre DEF Standing
<1> QED BY <1>1, <1>2, <1>3, <1>4, CirclelessKept, MarkedKept, TalliedKept DEF Good

LEMMA ModeratedSound ==
    ASSUME db \in Tables, NEW s \in Sessions, NEW t \in Texts,
           HandleCrisis(s, t) \/ RemoveContent(s, t) \/ RestoreContent(s, t)
    PROVE  Sound(s)
<1> DEFINE all == {"status", "duplicate", "thread", "is_accepted", "award", "post", "ballot", "votes"}
           others == {"raised", "duplicate", "thread", "is_accepted", "award", "ballot", "votes"}
<1>1. CASE HandleCrisis(s, t)
  <2> DEFINE handled == [db EXCEPT !.raised[t] = "handled"]
  <2>1. Begin(s, handled)
    BY <1>1, Zenon DEF HandleCrisis
  <2>2. handled \in Tables /\ Kept(db, handled, all)
    BY DEF Tables, Raised, Kept
  <2> HIDE DEF handled
  <2>3. Good(db) => Good(handled)
    BY <2>2, GoodKept
  <2> QED BY <2>1, <2>2, <2>3 DEF Sound
<1>2. CASE RemoveContent(s, t)
  <2> DEFINE removed == [db EXCEPT !.status[t] = "removed"]
  <2>1. Begin(s, removed) /\ db["status"][t] = "active"
    BY <1>2, Zenon DEF RemoveContent
  <2>2. /\ removed \in Tables /\ Kept(db, removed, others) /\ removed["post"] = db["post"]
        /\ removed["status"][t] = "removed"
        /\ \A u \in Texts : u # t => removed["status"][u] = db["status"][u]
    BY DEF Tables, Statuses, Kept
  <2> HIDE DEF removed
  <2>3. Good(db) => Good(removed)
    BY <2>1, <2>2, StatusKeeps
  <2> QED BY <2>1, <2>2, <2>3 DEF Sound
<1>3. CASE RestoreContent(s, t)
  <2> DEFINE restored == [db EXCEPT !.status[t] = "active"]
  <2>1. Begin(s, restored) /\ db["status"][t] \in {"removed", "both"}
    BY <1>3, Zenon DEF RestoreContent
  <2>2. /\ restored \in Tables /\ Kept(db, restored, others) /\ restored["post"] = db["post"]
        /\ restored["status"][t] = "active"
        /\ \A u \in Texts : u # t => restored["status"][u] = db["status"][u]
    BY DEF Tables, Statuses, Kept
  <2> HIDE DEF restored
  <2>3. Good(db) => Good(restored)
    BY <2>1, <2>2, StatusKeeps
  <2> QED BY <2>1, <2>2, <2>3 DEF Sound
<1> QED BY <1>1, <1>2, <1>3

-----------------------------------------------------------------------------
(* Questions.                                                              *)

LEMMA AskSound ==
    ASSUME db \in Tables, NEW s \in Sessions, NEW q \in Questions, Ask(s, q)
    PROVE  Sound(s)
<1> DEFINE asked == [db EXCEPT !.status[q] = "active"]
<1>1. \E result \in Screened(asked, q) : Begin(s, result)
  BY Zenon DEF Ask, Inserted
<1>2. /\ asked \in Tables
      /\ Kept(db, asked, {"raised", "duplicate", "thread", "is_accepted", "award", "ballot", "votes"})
      /\ asked["post"] = db["post"]
      /\ \A u \in Texts : u # q => asked["status"][u] = db["status"][u]
  BY DEF Tables, Statuses, Kept
<1> HIDE DEF asked
<1>3. q \in Texts /\ q \notin Answers /\ q \notin Comments
  BY TextsAre
<1>4. Good(db) => Good(asked)
  BY <1>2, <1>3, StatusKeeps
<1> QED BY <1>1, <1>2, <1>3, <1>4, ScreenedSound

LEMMA CloseQuestionSound ==
    ASSUME db \in Tables, NEW s \in Sessions, NEW q \in Questions, CloseQuestion(s, q)
    PROVE  Sound(s)
<1> DEFINE closed == [db EXCEPT !.status[q] = Gone(q)]
<1>1. Begin(s, closed)
  BY Zenon DEF CloseQuestion
<1>2. Gone(q) \in Statuses
  BY DEF Gone, Statuses
<1>3. /\ closed \in Tables
      /\ Kept(db, closed, {"raised", "duplicate", "thread", "is_accepted", "award", "ballot", "votes"})
      /\ closed["post"] = db["post"]
      /\ \A u \in Texts : u # q => closed["status"][u] = db["status"][u]
  BY <1>2 DEF Tables, Kept
<1> HIDE DEF closed
<1>4. q \in Texts /\ q \notin Answers /\ q \notin Comments
  BY TextsAre
<1>5. Good(db) => Good(closed)
  BY <1>3, <1>4, StatusKeeps
<1> QED BY <1>1, <1>3, <1>5 DEF Sound

\* Merging into a question that is not merged itself closes no circle: if the
\* questions of a circle include the canonical one it leads out of them, and if
\* they include only the merged one that leads out to the canonical one.
LEMMA MarkDuplicateSound ==
    ASSUME db \in Tables, NEW s \in Sessions, NEW q \in Questions, NEW canonical \in Questions,
           MarkDuplicate(s, q, canonical)
    PROVE  Sound(s)
<1> DEFINE merges == [db EXCEPT !.duplicate[q] = canonical]
<1>1. Begin(s, merges) /\ q # canonical /\ db["duplicate"][canonical] = "none"
  BY Zenon DEF MarkDuplicate, MayMerge
<1>2. /\ merges \in Tables
      /\ Kept(db, merges, {"status", "raised", "thread", "is_accepted", "award", "post", "ballot", "votes"})
      /\ merges["duplicate"][q] = canonical
      /\ \A p \in Questions : p # q => merges["duplicate"][p] = db["duplicate"][p]
  BY DEF Tables, Kept
<1> HIDE DEF merges
<1>3. ASSUME Circleless(db) PROVE Circleless(merges)
  <2> SUFFICES ASSUME NEW merged \in (SUBSET Questions) \ {{}}
               PROVE  \E p \in merged : merges["duplicate"][p] \notin merged
    BY DEF Circleless
  <2>1. CASE canonical \in merged
    <3>1. merges["duplicate"][canonical] = "none"
      BY <1>1, <1>2
    <3>2. "none" \notin merged
      BY DiscussionsAssumption
    <3> QED BY <2>1, <3>1, <3>2
  <2>2. CASE canonical \notin merged /\ q \in merged
    BY <1>2, <2>2
  <2>3. CASE q \notin merged
    BY <1>2, <1>3, <2>3 DEF Circleless
  <2> QED BY <2>1, <2>2, <2>3
<1>4. ASSUME Good(db) PROVE Good(merges)
  <2>1. /\ Kept(db, merges, {"is_accepted", "award"}) /\ Kept(db, merges, {"ballot", "votes", "thread"})
        /\ merges["thread"] = db["thread"] /\ merges["post"] = db["post"] /\ merges["status"] = db["status"]
    BY <1>2 DEF Kept
  <2>2. Existing(merges) = Existing(db) /\ Standing(merges) = Standing(db)
    BY <2>1 DEF Existing, Standing
  <2> QED BY <1>2, <1>3, <1>4, <2>1, <2>2, MarkedKept, TalliedKept DEF Good
<1> QED BY <1>1, <1>2, <1>4 DEF Sound

-----------------------------------------------------------------------------
(* Answers.                                                                *)

LEMMA AnswerSound ==
    ASSUME db \in Tables, NEW s \in Sessions, NEW a \in Answers, Answer(s, a)
    PROVE  Sound(s)
<1> DEFINE answered == [[db EXCEPT !.status[a] = "active"] EXCEPT !.thread.answer_count = @ + 1]
<1>1. (\E result \in Screened(answered, a) : Begin(s, result)) /\ db["status"][a] = "none"
  BY Zenon DEF Answer, Answered, Inserted, Fresh, Exists
<1>2. /\ answered \in Tables
      /\ Kept(db, answered, {"raised", "duplicate", "is_accepted", "award", "ballot", "votes", "post"})
      /\ answered["thread"].answer_count = db["thread"].answer_count + 1
      /\ answered["thread"].accepted_answer_id = db["thread"].accepted_answer_id
      /\ answered["status"][a] = "active"
      /\ \A u \in Texts : u # a => answered["status"][u] = db["status"][u]
  <2> DEFINE inserted == [db EXCEPT !.status[a] = "active"]
  <2>1. a \in Texts
    BY TextsAre
  <2>2. /\ inserted \in Tables
        /\ Kept(db, inserted, {"raised", "duplicate", "is_accepted", "award", "ballot", "votes", "post", "thread"})
        /\ inserted["status"][a] = "active"
        /\ \A u \in Texts : u # a => inserted["status"][u] = db["status"][u]
    BY <2>1 DEF Tables, Statuses, Kept
  <2>3. answered = [inserted EXCEPT !.thread.answer_count = @ + 1]
    OBVIOUS
  <2> HIDE DEF inserted, answered
  <2>4. /\ answered \in Tables
        /\ Kept(inserted, answered, {"raised", "duplicate", "is_accepted", "award", "ballot", "votes", "post", "status"})
        /\ answered["thread"].answer_count = inserted["thread"].answer_count + 1
        /\ answered["thread"].accepted_answer_id = inserted["thread"].accepted_answer_id
    BY <2>2, <2>3 DEF Tables, ThreadRow, Kept
  <2> QED BY <2>2, <2>4 DEF Kept
<1> HIDE DEF answered
<1>3. ASSUME Good(db) PROVE Good(answered)
  <2>1. Circleless(answered) /\ Marked(answered)
    <3>1. Kept(db, answered, {"duplicate"}) /\ Kept(db, answered, {"is_accepted", "award"})
      BY <1>2 DEF Kept
    <3> QED BY <1>2, <1>3, <3>1, CirclelessKept, MarkedKept DEF Good
  <2>2. /\ answered["ballot"] = db["ballot"] /\ answered["votes"] = db["votes"]
        /\ answered["post"] = db["post"]
    BY <1>2 DEF Kept
  <2>3. \A o \in Options : BallotsFor(answered, o) = BallotsFor(db, o)
    BY <2>2 DEF BallotsFor
  <2>4. Standing(answered) = Standing(db)
    BY <1>2, TextsAre DEF Standing
  <2>5. Existing(answered) = Existing(db) \cup {a} /\ a \notin Existing(db)
    BY <1>1, <1>2, TextsAre DEF Existing
  <2>6. Cardinality(Existing(db) \cup {a}) = Cardinality(Existing(db)) + 1
    BY <2>5, FiniteTexts, FS_AddElement
  <2>7. answered["thread"].answer_count = Cardinality(Existing(answered))
    <3>1. db["thread"].answer_count = Cardinality(Existing(db))
      BY <1>3 DEF Good, Tallied
    <3> QED BY <1>2, <2>5, <2>6, <3>1
  <2>8. \A o \in Options : answered["votes"][o] = Cardinality(BallotsFor(answered, o))
    BY <1>3, <2>2, <2>3, Zenon DEF Good, Tallied
  <2>9. answered["post"].comment_count <= Cardinality(Standing(answered))
    BY <1>3, <2>2, <2>4, Zenon DEF Good, Tallied
  <2> QED BY <2>1, <2>7, <2>8, <2>9 DEF Good, Tallied
<1>4. a \in Texts
  BY TextsAre
<1> QED BY <1>1, <1>2, <1>3, <1>4, ScreenedSound

\* Accepting unmarks the previous answer and voids its points.
LEMMA AcceptedKeeps ==
    ASSUME db \in Tables, NEW a \in Answers
    PROVE  /\ Accepted(a) \in Tables
           /\ Accepted(a)["thread"].accepted_answer_id = a
           /\ Accepted(a)["is_accepted"][a]
           /\ Good(db) => Good(Accepted(a))
<1> DEFINE previous == db["thread"].accepted_answer_id
           unmarks == [db EXCEPT !.is_accepted[previous] = FALSE,
                                 !.award = [w \in Awards |-> IF @[w] = previous THEN "voided" ELSE @[w]]]
           moved == IF previous \notin {"none", a} THEN unmarks ELSE db
           result == [moved EXCEPT !.is_accepted[a] = TRUE, !.thread.accepted_answer_id = a]
<1>1. Accepted(a) = result
  BY Zenon DEF Accepted, Unaccepted
<1>2. previous \in Answers \cup {"none"} /\ db["award"] \in [Awards -> Answers \cup {"none", "voided"}]
  BY DEF Tables, ThreadRow
<1>3. /\ unmarks["award"] = [w \in Awards |-> IF db["award"][w] = previous THEN "voided" ELSE db["award"][w]]
      /\ unmarks["is_accepted"] = [db["is_accepted"] EXCEPT ![previous] = FALSE]
      /\ Kept(db, unmarks, {"status", "raised", "duplicate", "thread", "post", "ballot", "votes"})
      /\ unmarks = [t \in DOMAIN db |-> unmarks[t]]
  BY DEF Kept, Tables
<1>4. unmarks["award"] \in [Awards -> Answers \cup {"none", "voided"}]
  <2>1. \A w \in Awards : (IF db["award"][w] = previous THEN "voided" ELSE db["award"][w])
                              \in Answers \cup {"none", "voided"}
    BY <1>2
  <2> HIDE DEF unmarks, previous
  <2> QED BY <1>3, <2>1
<1>5. unmarks["is_accepted"] \in [Answers -> BOOLEAN]
  <2>1. db["is_accepted"] \in [Answers -> BOOLEAN]
    BY DEF Tables
  <2> HIDE DEF unmarks, previous
  <2> QED BY <1>3, <2>1
<1>6. moved \in Tables
  <2> HIDE DEF unmarks, previous
  <2>1. unmarks \in Tables
    BY <1>3, <1>4, <1>5 DEF Kept, Tables
  <2> QED BY <2>1
<1>7. /\ Kept(db, moved, {"status", "raised", "duplicate", "thread", "post", "ballot", "votes"})
      /\ \A b \in Answers : moved["is_accepted"][b] =
              IF b = previous /\ previous # a THEN FALSE ELSE db["is_accepted"][b]
      /\ \A w \in Awards : moved["award"][w] =
              IF db["award"][w] = previous /\ previous \notin {"none", a} THEN "voided" ELSE db["award"][w]
  <2>1. db["is_accepted"] \in [Answers -> BOOLEAN] /\ "none" \notin Answers
    BY DiscussionsAssumption DEF Tables
  <2> HIDE DEF unmarks, previous
  <2>2. CASE previous \notin {"none", a}
    <3>1. moved = unmarks
      BY <2>2
    <3>2. \A b \in Answers : unmarks["is_accepted"][b] =
              IF b = previous /\ previous # a THEN FALSE ELSE db["is_accepted"][b]
      BY <1>3, <2>1, <2>2
    <3>3. \A w \in Awards : unmarks["award"][w] =
              IF db["award"][w] = previous /\ previous \notin {"none", a} THEN "voided" ELSE db["award"][w]
      BY <1>3, <2>2
    <3> HIDE DEF moved
    <3> QED BY <1>3, <3>1, <3>2, <3>3
  <2>3. CASE previous \in {"none", a}
    <3>1. moved = db
      BY <2>3
    <3> HIDE DEF moved
    <3> QED BY <2>1, <2>3, <3>1 DEF Kept
  <2> QED BY <2>2, <2>3
<1> HIDE DEF moved
<1>8. /\ result \in Tables
      /\ Kept(moved, result, {"status", "raised", "duplicate", "post", "award", "ballot", "votes"})
      /\ result["thread"].accepted_answer_id = a
      /\ result["thread"].answer_count = moved["thread"].answer_count
      /\ result["is_accepted"][a]
      /\ \A b \in Answers : b # a => result["is_accepted"][b] = moved["is_accepted"][b]
  BY <1>6, ZenonT(30) DEF Tables, ThreadRow, Kept
<1> HIDE DEF result
<1>9. /\ Kept(db, result, {"status", "raised", "duplicate", "post", "ballot", "votes"})
      /\ result["thread"].answer_count = db["thread"].answer_count
      /\ result["award"] = moved["award"]
  <2>1. moved["thread"] = db["thread"]
    BY <1>7 DEF Kept
  <2> QED BY <1>7, <1>8, <2>1 DEF Kept
<1>10. ASSUME Good(db) PROVE Good(result)
  <2>1. Circleless(result)
    <3>1. Kept(db, result, {"duplicate"})
      BY <1>9 DEF Kept
    <3> QED BY <1>8, <1>10, <3>1, CirclelessKept DEF Good
  <2>2. \A b \in Answers : db["is_accepted"][b] = (previous = b)
    BY <1>10, Zenon DEF Good, Marked
  <2>3. \A w \in Awards : db["award"][w] \in Answers => db["is_accepted"][db["award"][w]]
    BY <1>10 DEF Good, Marked
  <2>4. "none" \notin Answers /\ "voided" \notin Answers
    BY DiscussionsAssumption
  <2> HIDE DEF previous
  <2>5. ASSUME NEW b \in Answers PROVE result["is_accepted"][b] = (a = b)
    <3>1. CASE b = a
      <4>1. result["is_accepted"] \in [Answers -> BOOLEAN]
        BY <1>8 DEF Tables
      <4>2. result["is_accepted"][b] = TRUE
        BY <1>8, <3>1, <4>1
      <4> QED BY <3>1, <4>2
    <3>2. CASE b # a
      <4>1. result["is_accepted"][b] = FALSE
        BY <1>7, <1>8, <2>2, <3>2
      <4> QED BY <3>2, <4>1
    <3> QED BY <3>1, <3>2
  <2>6. ASSUME NEW w \in Awards, result["award"][w] \in Answers
        PROVE  result["award"][w] = a
    <3>1. CASE db["award"][w] = previous /\ previous \notin {"none", a}
      BY <1>7, <1>9, <2>4, <2>6, <3>1
    <3>2. CASE ~(db["award"][w] = previous /\ previous \notin {"none", a})
      <4>1. result["award"][w] = db["award"][w] /\ db["award"][w] \in Answers
        BY <1>7, <1>9, <2>6, <3>2
      <4>2. previous = db["award"][w]
        BY <2>2, <2>3, <4>1
      <4> QED BY <2>4, <3>2, <4>1, <4>2
    <3> QED BY <3>1, <3>2
  <2>7. Marked(result)
    BY <1>8, <2>5, <2>6 DEF Marked
  <2>8. Tallied(result)
    <3>1. /\ result["ballot"] = db["ballot"] /\ result["votes"] = db["votes"]
          /\ result["post"] = db["post"] /\ result["status"] = db["status"]
      BY <1>9 DEF Kept
    <3>2. \A o \in Options : BallotsFor(result, o) = BallotsFor(db, o)
      BY <3>1 DEF BallotsFor
    <3>3. Existing(result) = Existing(db) /\ Standing(result) = Standing(db)
      BY <3>1 DEF Existing, Standing
    <3>4. \A o \in Options : result["votes"][o] = Cardinality(BallotsFor(result, o))
      BY <1>10, <3>1, <3>2, Zenon DEF Good, Tallied
    <3>5. result["thread"].answer_count = Cardinality(Existing(result))
      BY <1>9, <1>10, <3>3, Zenon DEF Good, Tallied
    <3>6. result["post"].comment_count <= Cardinality(Standing(result))
      BY <1>10, <3>1, <3>3, Zenon DEF Good, Tallied
    <3> QED BY <3>4, <3>5, <3>6 DEF Tallied
  <2> QED BY <2>1, <2>7, <2>8 DEF Good
<1> QED BY <1>1, <1>8, <1>10

LEMMA AcceptSound ==
    ASSUME db \in Tables, NEW s \in Sessions, NEW a \in Answers, NEW actor,
           Accept(s, a, actor)
    PROVE  Sound(s)
<1> DEFINE d == Accepted(a)
           w == CHOOSE w \in NextAward : \A v \in NextAward : w <= v
           awarded == [d EXCEPT !.award[w] = a]
<1>1. Begin(s, d) \/ Begin(s, awarded)
  BY Zenon DEF Accept, Awarded
<1>2. d \in Tables /\ d["is_accepted"][a] /\ (Good(db) => Good(d))
  BY AcceptedKeeps
<1> HIDE DEF d, w
<1>3. /\ awarded \in Tables
      /\ Kept(d, awarded, {"status", "raised", "duplicate", "thread", "is_accepted", "post", "ballot", "votes"})
      /\ \A x \in Awards : awarded["award"][x] \in {d["award"][x], a}
  BY <1>2 DEF Tables, Kept
<1> HIDE DEF awarded
<1>4. ASSUME Good(d) PROVE Good(awarded)
  <2>1. /\ Kept(d, awarded, {"duplicate"}) /\ Kept(d, awarded, {"ballot", "votes", "thread"})
        /\ awarded["thread"] = d["thread"] /\ awarded["post"] = d["post"]
        /\ awarded["status"] = d["status"] /\ awarded["is_accepted"] = d["is_accepted"]
    BY <1>3 DEF Kept
  <2>2. Existing(awarded) = Existing(d) /\ Standing(awarded) = Standing(d)
    BY <2>1 DEF Existing, Standing
  <2>3. Marked(awarded)
    BY <1>2, <1>3, <1>4, <2>1 DEF Good, Marked
  <2> QED BY <1>2, <1>3, <1>4, <2>1, <2>2, <2>3, CirclelessKept, TalliedKept DEF Good
<1> QED BY <1>1, <1>2, <1>3, <1>4 DEF Sound

-----------------------------------------------------------------------------
(* The post, its comments and its poll.                                    *)

LEMMA CreatePostSound ==
    ASSUME db \in Tables, NEW s \in Sessions, CreatePost(s)
    PROVE  Sound(s)
<1> DEFINE inserted == [db EXCEPT !.status[Poll] = "active"]
           created == [inserted EXCEPT !.post.points = 1]
<1>1. \E result \in Screened(created, Poll) : Begin(s, result)
  BY Zenon DEF CreatePost, Inserted
<1>2. Poll \in Texts /\ Poll \notin Answers /\ Poll \notin Comments
  BY TextsAre
<1>3. /\ inserted \in Tables
      /\ Kept(db, inserted, {"raised", "duplicate", "thread", "is_accepted", "award", "ballot", "votes", "post"})
      /\ \A u \in Texts : u # Poll => inserted["status"][u] = db["status"][u]
  BY <1>2 DEF Tables, Statuses, Kept
<1> HIDE DEF inserted
<1>4. /\ created \in Tables
      /\ Kept(inserted, created, {"status", "raised", "duplicate", "thread", "is_accepted", "award", "ballot", "votes"})
      /\ created["post"].comment_count = inserted["post"].comment_count
  BY <1>3 DEF Tables, PostRow, Kept
<1> HIDE DEF created
<1>5. /\ Kept(db, created, {"raised", "duplicate", "thread", "is_accepted", "award", "ballot", "votes"})
      /\ created["post"].comment_count = db["post"].comment_count
      /\ \A u \in Texts : u # Poll => created["status"][u] = db["status"][u]
  BY <1>3, <1>4 DEF Kept
<1>6. Good(db) => Good(created)
  BY <1>2, <1>4, <1>5, StatusKeeps
<1> QED BY <1>1, <1>2, <1>4, <1>6, ScreenedSound

LEMMA DeletePostSound ==
    ASSUME db \in Tables, NEW s \in Sessions, DeletePost(s)
    PROVE  Sound(s)
<1>1. PICK status \in {Gone(Poll), "both"} :
          Begin(s, [db EXCEPT !.status[Poll] = status, !.post.points = 0])
  BY Zenon DEF DeletePost
<1>2. status \in Statuses
  BY DEF Gone, Statuses
<1> DEFINE deleted == [db EXCEPT !.status[Poll] = status, !.post.points = 0]
<1>3. Poll \in Texts /\ Poll \notin Answers /\ Poll \notin Comments
  BY TextsAre
<1>4. /\ deleted \in Tables
      /\ Kept(db, deleted, {"raised", "duplicate", "thread", "is_accepted", "award", "ballot", "votes"})
      /\ deleted["post"].comment_count = db["post"].comment_count
      /\ \A u \in Texts : u # Poll => deleted["status"][u] = db["status"][u]
  BY <1>2, <1>3 DEF Tables, PostRow, Kept
<1>5. Begin(s, deleted)
  BY <1>1
<1> HIDE DEF deleted
<1>6. Good(db) => Good(deleted)
  BY <1>3, <1>4, StatusKeeps
<1> QED BY <1>4, <1>5, <1>6 DEF Sound

\* Comments that leave everything but their count and one status.
LEMMA CommentsKeep ==
    ASSUME NEW d \in Tables, NEW e \in Tables, NEW c \in Comments,
           Kept(d, e, {"raised", "duplicate", "thread", "is_accepted", "award", "ballot", "votes"}),
           \A u \in Texts : u # c => e["status"][u] = d["status"][u],
           e["post"].comment_count <= Cardinality(Standing(e)),
           Good(d)
    PROVE  Good(e)
<1>1. /\ Kept(d, e, {"duplicate"}) /\ Kept(d, e, {"is_accepted", "award"})
      /\ e["thread"] = d["thread"] /\ e["ballot"] = d["ballot"] /\ e["votes"] = d["votes"]
  BY DEF Kept
<1>2. Existing(e) = Existing(d)
  BY TextsAre DEF Existing
<1>3. \A o \in Options : BallotsFor(e, o) = BallotsFor(d, o)
  BY <1>1 DEF BallotsFor
<1>4. \A o \in Options : e["votes"][o] = Cardinality(BallotsFor(e, o))
  BY <1>1, <1>3, Zenon DEF Good, Tallied
<1>5. e["thread"].answer_count = Cardinality(Existing(e))
  BY <1>1, <1>2, Zenon DEF Good, Tallied
<1> QED BY <1>1, <1>4, <1>5, CirclelessKept, MarkedKept DEF Good, Tallied

LEMMA AddCommentSound ==
    ASSUME db \in Tables, NEW s \in Sessions, NEW c \in Comments, AddComment(s, c)
    PROVE  Sound(s)
<1> DEFINE inserted == [db EXCEPT !.status[c] = "active"]
           added == [inserted EXCEPT !.post.comment_count = @ + 1]
<1>1. (\E result \in Screened(added, c) : Begin(s, result)) /\ db["status"][c] = "none"
  BY Zenon DEF AddComment, Inserted, Fresh, Exists
<1>2. c \in Texts
  BY TextsAre
<1>3. /\ inserted \in Tables
      /\ Kept(db, inserted, {"raised", "duplicate", "thread", "is_accepted", "award", "ballot", "votes", "post"})
      /\ inserted["status"][c] = "active"
      /\ \A u \in Texts : u # c => inserted["status"][u] = db["status"][u]
  BY <1>2 DEF Tables, Statuses, Kept
<1> HIDE DEF inserted
<1>4. /\ added \in Tables
      /\ Kept(inserted, added, {"status", "raised", "duplicate", "thread", "is_accepted", "award", "ballot", "votes"})
      /\ added["post"].comment_count = inserted["post"].comment_count + 1
  BY <1>3 DEF Tables, PostRow, Kept
<1> HIDE DEF added
<1>5. /\ Kept(db, added, {"raised", "duplicate", "thread", "is_accepted", "award", "ballot", "votes"})
      /\ added["post"].comment_count = db["post"].comment_count + 1
      /\ added["status"][c] = "active"
      /\ \A u \in Texts : u # c => added["status"][u] = db["status"][u]
  BY <1>3, <1>4 DEF Kept
<1>6. ASSUME Good(db) PROVE Good(added)
  <2>1. Standing(added) = Standing(db) \cup {c} /\ c \notin Standing(db)
    BY <1>1, <1>5, TextsAre DEF Standing
  <2>2. Cardinality(Standing(db) \cup {c}) = Cardinality(Standing(db)) + 1
    BY <2>1, FiniteTexts, FS_AddElement
  <2>3. db["post"].comment_count <= Cardinality(Standing(db)) /\ db["post"].comment_count \in Nat
    BY <1>6 DEF Good, Tallied, Tables, PostRow
  <2>4. added["post"].comment_count <= Cardinality(Standing(db)) + 1
    BY <1>5, <2>3, FiniteTexts
  <2>5. added["post"].comment_count <= Cardinality(Standing(added))
    BY <2>1, <2>2, <2>4
  <2> QED BY <1>4, <1>5, <1>6, <2>5, CommentsKeep
<1> QED BY <1>1, <1>2, <1>4, <1>6, ScreenedSound

LEMMA DeleteCommentSound ==
    ASSUME db \in Tables, NEW s \in Sessions, NEW c \in Comments, DeleteComment(s, c)
    PROVE  Sound(s)
<1> DEFINE count == db["post"].comment_count
           deleted == [db EXCEPT !.status[c] = Gone(c),
                                 !.post.comment_count = IF @ > 0 THEN @ - 1 ELSE 0]
<1>1. Begin(s, deleted)
  BY Zenon DEF DeleteComment, Deleted
<1>2. c \in Texts /\ Gone(c) \in {"both", "deleted"} /\ Gone(c) \in Statuses /\ count \in Nat
  BY TextsAre DEF Gone, Statuses, Tables, PostRow
<1>3. /\ deleted \in Tables
      /\ Kept(db, deleted, {"raised", "duplicate", "thread", "is_accepted", "award", "ballot", "votes"})
      /\ deleted["post"].comment_count = (IF count > 0 THEN count - 1 ELSE 0)
      /\ deleted["status"][c] = Gone(c)
      /\ \A u \in Texts : u # c => deleted["status"][u] = db["status"][u]
  <2> DEFINE marked == [db EXCEPT !.status[c] = Gone(c)]
             left == IF count > 0 THEN count - 1 ELSE 0
  <2>1. /\ marked \in Tables
        /\ Kept(db, marked, {"raised", "duplicate", "thread", "is_accepted", "award", "ballot", "votes", "post"})
        /\ marked["status"][c] = Gone(c)
        /\ \A u \in Texts : u # c => marked["status"][u] = db["status"][u]
    BY <1>2 DEF Tables, Kept
  <2>2. deleted = [marked EXCEPT !.post.comment_count = left]
    BY DEF Tables, PostRow
  <2>3. left \in Nat
    BY <1>2
  <2> HIDE DEF marked, deleted, left
  <2>4. /\ deleted \in Tables
        /\ Kept(marked, deleted, {"status", "raised", "duplicate", "thread", "is_accepted", "award", "ballot", "votes"})
        /\ deleted["post"].comment_count = left
    BY <2>1, <2>2, <2>3 DEF Tables, PostRow, Kept
  <2> QED BY <2>1, <2>4 DEF Kept, left
<1> HIDE DEF deleted
<1>4. ASSUME Good(db) PROVE Good(deleted)
  <2>1. Standing(deleted) = Standing(db) \ {c}
    BY <1>2, <1>3, TextsAre DEF Standing
  <2>2. /\ Cardinality(Standing(db) \ {c}) >= Cardinality(Standing(db)) - 1
        /\ Cardinality(Standing(db) \ {c}) \in Nat
    <3>1. c \in Standing(db) => Cardinality(Standing(db) \ {c}) = Cardinality(Standing(db)) - 1
      BY FiniteTexts, FS_RemoveElement
    <3>2. c \notin Standing(db) => Standing(db) \ {c} = Standing(db)
      OBVIOUS
    <3>3. c \notin Standing(db) => Cardinality(Standing(db) \ {c}) = Cardinality(Standing(db))
      BY <3>2, Zenon
    <3>4. IsFiniteSet(Standing(db) \ {c})
      BY FiniteTexts, FS_Subset
    <3>5. Cardinality(Standing(db) \ {c}) \in Nat
      BY <3>4, FS_CardinalityType
    <3> QED BY <3>1, <3>3, <3>5, FiniteTexts
  <2>3. count <= Cardinality(Standing(db))
    BY <1>4 DEF Good, Tallied
  <2> HIDE DEF count
  <2>4. deleted["post"].comment_count <= Cardinality(Standing(db) \ {c})
    BY <1>2, <1>3, <2>2, <2>3, FiniteTexts
  <2>5. deleted["post"].comment_count <= Cardinality(Standing(deleted))
    BY <2>1, <2>4, Zenon
  <2> QED BY <1>3, <1>4, <2>5, CommentsKeep
<1> QED BY <1>1, <1>3, <1>4 DEF Sound

\* The member's ballot moves from one option to another, and a vote with it.
LEMMA VotePollSound ==
    ASSUME db \in Tables, NEW s \in Sessions, NEW u \in Voters, NEW option \in Options,
           VotePoll(s, u, option)
    PROVE  Sound(s)
<1> DEFINE previous == db["ballot"][u]
           taken == [db EXCEPT !.votes[previous] = IF @ > 0 THEN @ - 1 ELSE 0]
           freed == IF previous = "none" THEN db ELSE taken
           result == [freed EXCEPT !.ballot[u] = option, !.votes[option] = @ + 1]
           all == {"status", "raised", "duplicate", "thread", "is_accepted", "award", "post"}
<1>1. Begin(s, result)
  BY Zenon DEF VotePoll, VotedFor
<1>2. /\ previous \in Options \cup {"none"} /\ "none" \notin Options
      /\ \A o \in Options : db["votes"][o] \in Nat
  BY DiscussionsAssumption DEF Tables
<1>3. /\ freed \in Tables
      /\ Kept(db, freed, all) /\ freed["ballot"] = db["ballot"]
      /\ \A o \in Options : freed["votes"][o] =
             IF o = previous THEN (IF db["votes"][o] > 0 THEN db["votes"][o] - 1 ELSE 0) ELSE db["votes"][o]
  <2>1. CASE previous = "none"
    BY <1>2, <2>1 DEF Kept
  <2>2. CASE previous # "none"
    <3>1. previous \in Options
      BY <1>2, <2>2
    <3>2. /\ taken \in Tables
          /\ Kept(db, taken, all) /\ taken["ballot"] = db["ballot"]
          /\ \A o \in Options : taken["votes"][o] =
                 IF o = previous THEN (IF db["votes"][o] > 0 THEN db["votes"][o] - 1 ELSE 0) ELSE db["votes"][o]
      <4> HIDE DEF previous
      <4> QED BY <3>1, <1>2 DEF Tables, Kept
    <3>3. freed = taken
      BY <2>2
    <3> HIDE DEF freed, taken
    <3> QED BY <3>2, <3>3
  <2> QED BY <2>1, <2>2
<1> HIDE DEF freed
<1>4. /\ result \in Tables
      /\ Kept(freed, result, all)
      /\ result["ballot"][u] = option
      /\ \A v \in Voters : v # u => result["ballot"][v] = freed["ballot"][v]
      /\ \A o \in Options : result["votes"][o] =
             IF o = option THEN freed["votes"][o] + 1 ELSE freed["votes"][o]
  <2> DEFINE cast == [freed EXCEPT !.ballot[u] = option]
  <2>1. /\ cast \in Tables
        /\ Kept(freed, cast, all) /\ cast["votes"] = freed["votes"]
        /\ cast["ballot"][u] = option
        /\ \A v \in Voters : v # u => cast["ballot"][v] = freed["ballot"][v]
    BY <1>3, SMTT(30) DEF Tables, Kept
  <2>2. result = [cast EXCEPT !.votes[option] = @ + 1]
    BY <1>3 DEF Tables
  <2> HIDE DEF cast, result
  <2>3. /\ result \in Tables
        /\ Kept(cast, result, all) /\ result["ballot"] = cast["ballot"]
        /\ \A o \in Options : result["votes"][o] =
               IF o = option THEN cast["votes"][o] + 1 ELSE cast["votes"][o]
    BY <2>1, <2>2 DEF Tables, Kept
  <2>4. Kept(freed, result, all)
    BY <2>1, <2>3 DEF Kept
  <2> HIDE DEF previous, all
  <2> QED BY <2>1, <2>3, <2>4
<1> HIDE DEF result
<1>5. Kept(db, result, all)
  BY <1>3, <1>4 DEF Kept
<1>6. ASSUME Good(db), NEW o \in Options
      PROVE  result["votes"][o] = Cardinality(BallotsFor(result, o))
  <2> DEFINE before == BallotsFor(db, o)
             after == BallotsFor(result, o)
  <2>1. db["votes"][o] = Cardinality(before) /\ IsFiniteSet(before) /\ Cardinality(before) \in Nat
    BY <1>6, FiniteTexts DEF Good, Tallied
  <2>2. /\ o = option => after = before \cup {u}
        /\ o # option => after = before \ {u}
        /\ u \in before <=> previous = o
    BY <1>3, <1>4 DEF BallotsFor
  <2>3. /\ result["votes"][o] = IF o = option THEN freed["votes"][o] + 1 ELSE freed["votes"][o]
        /\ freed["votes"][o] =
             IF o = previous THEN (IF db["votes"][o] > 0 THEN db["votes"][o] - 1 ELSE 0) ELSE db["votes"][o]
    BY <1>3, <1>4
  <2> HIDE DEF before, after, previous
  <2>4. CASE previous = o
    <3>1. before # {} /\ Cardinality(before) # 0 /\ before \cup {u} = before
      BY <2>1, <2>2, <2>4, FS_EmptySet
    <3>2. Cardinality(before \ {u}) = Cardinality(before) - 1
      BY <2>1, <2>2, <2>4, FS_RemoveElement
    <3>3. CASE o = option
      <4>1. Cardinality(after) = Cardinality(before)
        BY <2>2, <3>1, <3>3, Zenon
      <4> QED BY <2>1, <2>3, <2>4, <3>1, <3>3, <4>1 DEF after
    <3>4. CASE o # option
      <4>1. Cardinality(after) = Cardinality(before \ {u})
        BY <2>2, <3>4, Zenon
      <4> QED BY <2>1, <2>3, <2>4, <3>1, <3>2, <3>4, <4>1 DEF after
    <3> QED BY <3>3, <3>4
  <2>5. CASE previous # o
    <3>1. CASE o = option
      <4>1. Cardinality(before \cup {u}) = Cardinality(before) + 1
        BY <2>1, <2>2, <2>5, FS_AddElement
      <4>2. Cardinality(after) = Cardinality(before \cup {u})
        BY <2>2, <3>1, Zenon
      <4> QED BY <2>1, <2>3, <2>5, <3>1, <4>1, <4>2 DEF after
    <3>2. CASE o # option
      <4>1. before \ {u} = before
        BY <2>2, <2>5
      <4>2. Cardinality(after) = Cardinality(before)
        BY <2>2, <3>2, <4>1, Zenon
      <4> QED BY <2>1, <2>3, <2>5, <3>2, <4>2 DEF after
    <3> QED BY <3>1, <3>2
  <2> QED BY <2>4, <2>5
<1>7. ASSUME Good(db) PROVE Good(result)
  <2>1. /\ Kept(db, result, {"duplicate"}) /\ Kept(db, result, {"is_accepted", "award"})
        /\ result["thread"] = db["thread"] /\ result["post"] = db["post"] /\ result["status"] = db["status"]
    BY <1>5 DEF Kept
  <2>2. Existing(result) = Existing(db) /\ Standing(result) = Standing(db)
    BY <2>1 DEF Existing, Standing
  <2>3. result["thread"].answer_count = Cardinality(Existing(result))
    BY <1>7, <2>1, <2>2, Zenon DEF Good, Tallied
  <2>4. result["post"].comment_count <= Cardinality(Standing(result))
    BY <1>7, <2>1, <2>2, Zenon DEF Good, Tallied
  <2> QED BY <1>4, <1>6, <1>7, <2>1, <2>3, <2>4, CirclelessKept, MarkedKept DEF Good, Tallied
<1> QED BY <1>1, <1>4, <1>7 DEF Sound

\* Every handler.
LEMMA HandlersSound ==
    ASSUME db \in Tables, NEW s \in Sessions,
           \/ Asking(s) \/ Posting(s)
           \/ \E t \in Texts : HandleCrisis(s, t) \/ RemoveContent(s, t) \/ RestoreContent(s, t)
    PROVE  Sound(s)
<1>1. CASE Asking(s)
  BY <1>1, AskSound, CloseQuestionSound, MarkDuplicateSound, AnswerSound, AcceptSound
     DEF Asking, AskByApi, AnswerByApi, AcceptByApi
<1>2. CASE Posting(s)
  BY <1>2, CreatePostSound, DeletePostSound, AddCommentSound, DeleteCommentSound, VotePollSound
     DEF Posting, CreatePostByForm, CreatePostByApi, DeletePostByApi, AddCommentByForm, AddCommentByApi,
         DeleteCommentByApi, VotePollByApi
<1> QED BY <1>1, <1>2, ModeratedSound

-----------------------------------------------------------------------------
(* The invariant.                                                          *)

TypedInv ==
    /\ SessionsTyped
    /\ db \in Tables
    /\ \A s \in Sessions : \A c \in session[s] : Typed(c, Tables)
    /\ overlapped \in BOOLEAN

\* As long as no two requests have overlapped, the database is right and so is
\* what the one open session will make of it.
SerialInv ==
    /\ Alone
    /\ ~overlapped => Good(db) /\ \A s \in Open : Good(After(s))

IInv == TypedInv /\ SerialInv

LEMMA TablesShaped ==
    ASSUME NEW d \in Tables, db \in Tables
    PROVE  Shaped(d)
  BY DEF Tables, Shaped, ThreadRow, PostRow

LEMMA BeginsKeep ==
    ASSUME IInv, NEW s \in Sessions, Sound(s)
    PROVE  IInv'
<1>1. PICK result \in Tables : Begin(s, result) /\ (Good(db) => Good(result))
  BY DEF Sound
<1>2. SessionsTyped /\ Alone /\ db \in Tables
  BY DEF IInv, TypedInv, SerialInv
<1>3. Shaped(db) /\ Shaped(result)
  BY <1>2, TablesShaped
<1>4. \A t \in Booked \cap DOMAIN db : \A k \in DOMAIN db[t] : db[t][k] \in Int /\ result[t][k] \in Int
  BY DiscussionsAssumption
<1>5. /\ SessionsTyped' /\ Alone'
      /\ db' = db
      /\ session'[s] = Changes(result)
      /\ \A r \in Sessions : r # s => session'[r] = session[r]
      /\ ~overlapped' => ~overlapped /\ Open = {}
      /\ ~overlapped' => \A r \in Open' : r = s /\ After(r)' = result
  BY <1>1, <1>2, <1>3, <1>4, AloneBegins
<1>6. TypedInv'
  <2>1. \A c \in Changes(result) : Typed(c, Tables)
    BY <1>2, ChangesTypedAt
  <2>2. ASSUME NEW r \in Sessions, NEW c \in session'[r] PROVE Typed(c, Tables)
    BY <1>5, <2>1, <2>2 DEF IInv, TypedInv
  <2>3. \A r \in Sessions : \A c \in session'[r] : Typed(c, Tables)'
    BY <1>5, <2>2 DEF Typed
  <2>4. overlapped' \in BOOLEAN
    BY <1>1 DEF Begin, IInv, TypedInv
  <2> QED BY <1>2, <1>5, <2>3, <2>4 DEF TypedInv
<1>7. SerialInv'
  <2> USE DEF Good, Circleless, Marked, Tallied, BallotsFor, Existing, Standing
  <2>1. ~overlapped' => Good(db) /\ Good(result)
    BY <1>1, <1>5 DEF IInv, SerialInv
  <2>2. ASSUME NEW r \in Open', ~overlapped' PROVE Good(After(r))'
    <3> DEFINE e == After(r)'
    <3>1. e = result /\ Good(result)
      BY <1>5, <2>1, <2>2
    <3> HIDE DEF e
    <3>2. Good(e)
      BY <3>1
    <3> QED BY <3>2 DEF e
  <2>3. ~overlapped' => Good(db)'
    BY <1>5, <2>1
  <2> QED BY <1>5, <2>2, <2>3 DEF SerialInv
<1> QED BY <1>6, <1>7 DEF IInv

\* The rows of counters keep their types.
LEMMA CommitsRows ==
    ASSUME TypedInv, NEW s \in Sessions, Commit(s)
    PROVE  db'["thread"] \in ThreadRow /\ db'["post"] \in PostRow
<1>1. /\ db \in Tables /\ \A c \in session[s] : Typed(c, Tables)
      /\ {"thread", "post"} \subseteq DOMAIN db \ Booked
  BY DiscussionsAssumption DEF TypedInv, Tables
<1>2. ASSUME NEW t \in {"thread", "post"}
      PROVE  /\ db'[t] = [k \in DOMAIN db[t] |-> db'[t][k]]
             /\ \A k \in DOMAIN db[t] : db'[t][k] = db[t][k] \/ \E e \in Tables : db'[t][k] = e[t][k]
  <2>1. t \in DOMAIN db /\ t \notin Booked
    BY <1>1
  <2>2. db'[t] = [k \in DOMAIN db[t] |-> db'[t][k]]
    BY <2>1, Committed DEF Shaped
  <2>3. ASSUME NEW k \in DOMAIN db[t]
        PROVE  db'[t][k] = db[t][k] \/ \E e \in Tables : db'[t][k] = e[t][k]
    BY <1>1, <2>1, CommitTyped
  <2> QED BY <2>2, <2>3
<1>3. db'["thread"] \in ThreadRow
  <2>1. /\ DOMAIN db["thread"] = {"answer_count", "accepted_answer_id"}
        /\ \A e \in Tables : e["thread"] \in ThreadRow
    BY <1>1 DEF Tables, ThreadRow
  <2>2. \E e \in Tables : db'["thread"].answer_count = e["thread"].answer_count
    BY <1>1, <1>2, <2>1
  <2>3. \E e \in Tables : db'["thread"].accepted_answer_id = e["thread"].accepted_answer_id
    BY <1>1, <1>2, <2>1
  <2> QED BY <1>2, <2>1, <2>2, <2>3 DEF ThreadRow
<1>4. db'["post"] \in PostRow
  <2>1. /\ DOMAIN db["post"] = {"comment_count", "points"}
        /\ \A e \in Tables : e["post"] \in PostRow
    BY <1>1 DEF Tables, PostRow
  <2>2. \E e \in Tables : db'["post"].comment_count = e["post"].comment_count
    BY <1>1, <1>2, <2>1
  <2>3. \E e \in Tables : db'["post"].points = e["post"].points
    BY <1>1, <1>2, <2>1
  <2> QED BY <1>2, <2>1, <2>2, <2>3 DEF PostRow
<1> QED BY <1>3, <1>4

LEMMA CommitsTyped ==
    ASSUME TypedInv, NEW s \in Sessions, Commit(s)
    PROVE  TypedInv'
<1>1. /\ session'[s] = {} /\ SessionsTyped'
      /\ \A r \in Sessions : r # s => session'[r] = session[r]
      /\ overlapped' = overlapped
  BY DEF Commit, TypedInv, SessionsTyped
<1>2. Shaped(db') /\ DOMAIN db' = DOMAIN db /\ \A t \in DOMAIN db : DOMAIN db'[t] = DOMAIN db[t]
  BY Committed
<1>3. db' = [t \in DOMAIN db |-> db'[t]]
  BY <1>2 DEF Shaped
<1>4. /\ db \in Tables /\ Booked = {} /\ \A c \in session[s] : Typed(c, Tables)
      /\ DOMAIN db = {"status", "raised", "duplicate", "thread", "is_accepted", "award", "post", "ballot", "votes"}
  BY DiscussionsAssumption DEF TypedInv, Tables
<1>5. db'["status"] \in [Texts -> Statuses]
  <2>1. "status" \in DOMAIN db \ Booked
    BY <1>4
  <2>2. \A e \in Tables : e["status"] \in [Texts -> Statuses]
    BY DEF Tables
  <2> QED BY <1>4, <2>1, <2>2, CommitTable, Zenon
<1>6. db'["raised"] \in [Texts -> Raised]
  <2>1. "raised" \in DOMAIN db \ Booked
    BY <1>4
  <2>2. \A e \in Tables : e["raised"] \in [Texts -> Raised]
    BY DEF Tables
  <2> QED BY <1>4, <2>1, <2>2, CommitTable, Zenon
<1>7. db'["duplicate"] \in [Questions -> Questions \cup {"none"}]
  <2> DEFINE values == Questions \cup {"none"}
  <2>1. "duplicate" \in DOMAIN db \ Booked
    BY <1>4
  <2>2. \A e \in Tables : e["duplicate"] \in [Questions -> values]
    BY DEF Tables
  <2> HIDE DEF values
  <2>3. db'["duplicate"] \in [Questions -> values]
    BY <1>4, <2>1, <2>2, CommitTable, Zenon
  <2> QED BY <2>3 DEF values
<1>8. db'["is_accepted"] \in [Answers -> BOOLEAN]
  <2>1. "is_accepted" \in DOMAIN db \ Booked
    BY <1>4
  <2>2. \A e \in Tables : e["is_accepted"] \in [Answers -> BOOLEAN]
    BY DEF Tables
  <2> QED BY <1>4, <2>1, <2>2, CommitTable, Zenon
<1>9. db'["award"] \in [Awards -> Answers \cup {"none", "voided"}]
  <2> DEFINE values == Answers \cup {"none", "voided"}
  <2>1. "award" \in DOMAIN db \ Booked
    BY <1>4
  <2>2. \A e \in Tables : e["award"] \in [Awards -> values]
    BY DEF Tables
  <2> HIDE DEF values
  <2>3. db'["award"] \in [Awards -> values]
    BY <1>4, <2>1, <2>2, CommitTable, Zenon
  <2> QED BY <2>3 DEF values
<1>10. db'["ballot"] \in [Voters -> Options \cup {"none"}]
  <2> DEFINE values == Options \cup {"none"}
  <2>1. "ballot" \in DOMAIN db \ Booked
    BY <1>4
  <2>2. \A e \in Tables : e["ballot"] \in [Voters -> values]
    BY DEF Tables
  <2> HIDE DEF values
  <2>3. db'["ballot"] \in [Voters -> values]
    BY <1>4, <2>1, <2>2, CommitTable, Zenon
  <2> QED BY <2>3 DEF values
<1>11. db'["votes"] \in [Options -> Nat]
  <2>1. "votes" \in DOMAIN db \ Booked
    BY <1>4
  <2>2. \A e \in Tables : e["votes"] \in [Options -> Nat]
    BY DEF Tables
  <2> QED BY <1>4, <2>1, <2>2, CommitTable, Zenon
<1>12. db' \in Tables
  BY <1>3, <1>4, <1>5, <1>6, <1>7, <1>8, <1>9, <1>10, <1>11, CommitsRows DEF Tables
<1>13. \A r \in Sessions : \A c \in session'[r] : Typed(c, Tables)'
  BY <1>1, <1>2 DEF TypedInv, Typed
<1> QED BY <1>1, <1>12, <1>13 DEF TypedInv

LEMMA EndsKeep ==
    ASSUME IInv, NEW s \in Sessions, Commit(s) \/ Rollback(s)
    PROVE  IInv'
<1> USE DEF Good, Circleless, Marked, Tallied, BallotsFor, Existing, Standing
<1>1. SessionsTyped' /\ Alone' /\ overlapped' = overlapped /\ (~overlapped' => Open' = {})
  BY AloneEnds DEF IInv, TypedInv, SerialInv
<1>2. CASE Commit(s)
  <2>1. s \in Open /\ db' = After(s)
    BY <1>2, Committed
  <2>2. ~overlapped => Good(After(s))
    BY <2>1 DEF IInv, SerialInv
  <2>3. ~overlapped => Good(db)'
    BY <2>1, <2>2
  <2> QED BY <1>1, <1>2, <2>3, CommitsTyped DEF IInv, SerialInv
<1>3. CASE Rollback(s)
  <2>1. db' = db /\ session'[s] = {} /\ \A r \in Sessions : r # s => session'[r] = session[r]
    BY <1>3 DEF Rollback, IInv, TypedInv, SessionsTyped
  <2>2. ~overlapped => Good(db)'
    BY <2>1 DEF IInv, SerialInv
  <2>3. TypedInv'
    BY <1>1, <2>1 DEF IInv, TypedInv, Typed
  <2> QED BY <1>1, <2>2, <2>3 DEF IInv, SerialInv
<1> QED BY <1>2, <1>3

LEMMA StutterKeeps ==
    ASSUME IInv, UNCHANGED vars
    PROVE  IInv'
<1>1. UNCHANGED <<db, session, overlapped>> /\ Open' = Open
  BY DEF requestVars, vars, Open
<1>2. TypedInv'
  BY <1>1 DEF IInv, TypedInv, Typed, SessionsTyped
<1>3. ~overlapped => Good(db) /\ \A r \in Open : Good(After(r))
  BY DEF IInv, SerialInv
<1>4. Alone'
  BY <1>1 DEF IInv, SerialInv, Alone
<1> USE DEF Good, Circleless, Marked, Tallied, BallotsFor, Existing, Standing
<1>5. ~overlapped' => Good(db)'
  BY <1>1, <1>3
<1>6. ASSUME NEW r \in Open, Good(After(r)) PROVE Good(After(r))'
  <2> DEFINE d == After(r)
             e == After(r)'
  <2>1. e = d /\ Good(d)
    BY <1>1, <1>6, AfterSame DEF Open
  <2> HIDE DEF d, e
  <2>2. Good(e)
    BY <2>1
  <2> QED BY <2>2 DEF e
<1> QED BY <1>1, <1>2, <1>3, <1>4, <1>5, <1>6 DEF IInv, SerialInv

LEMMA InitDiscusses == Init => IInv
<1> SUFFICES ASSUME Init PROVE IInv
  OBVIOUS
<1>1. session = [s \in Sessions |-> {}] /\ overlapped = FALSE /\ Open = {}
  BY DEF Init, Open
<1>2. db \in Tables
  <2>1. db["thread"] \in ThreadRow /\ db["post"] \in PostRow
    BY DEF Init, ThreadRow, PostRow
  <2> QED BY <2>1 DEF Init, Tables, Statuses, Raised
<1>3. Circleless(db)
  <2> SUFFICES ASSUME NEW merged \in (SUBSET Questions) \ {{}}
               PROVE  \E q \in merged : db["duplicate"][q] \notin merged
    BY DEF Circleless
  <2>1. PICK q \in merged : q \in Questions
    OBVIOUS
  <2>2. db["duplicate"][q] = "none" /\ "none" \notin merged
    BY <2>1, DiscussionsAssumption DEF Init
  <2> QED BY <2>1, <2>2
<1>4. Marked(db)
  BY DiscussionsAssumption DEF Init, Marked
<1>5. Tallied(db)
  <2>1. /\ Existing(db) = {} /\ \A o \in Options : BallotsFor(db, o) = {}
        /\ db["post"].comment_count = 0 /\ db["thread"].answer_count = 0
        /\ \A o \in Options : db["votes"][o] = 0
    BY TextsAre, DiscussionsAssumption DEF Init, Existing, BallotsFor
  <2>2. Cardinality({}) = 0
    BY FS_EmptySet
  <2>3. Cardinality(Existing(db)) = 0 /\ \A o \in Options : Cardinality(BallotsFor(db, o)) = 0
    BY <2>1, <2>2, Zenon
  <2> QED BY <2>1, <2>3, FiniteTexts DEF Tallied
<1> QED BY <1>1, <1>2, <1>3, <1>4, <1>5 DEF IInv, TypedInv, SessionsTyped, SerialInv, Alone, Good

LEMMA NextDiscusses == IInv /\ [Next]_vars => IInv'
<1> SUFFICES ASSUME IInv, [Next]_vars PROVE IInv'
  OBVIOUS
<1>1. CASE UNCHANGED vars
  BY <1>1, StutterKeeps
<1>2. CASE Next
  <2>1. PICK s \in Sessions :
            \/ Asking(s) \/ Posting(s)
            \/ \E t \in Texts : HandleCrisis(s, t) \/ RemoveContent(s, t) \/ RestoreContent(s, t)
            \/ Commit(s) \/ Rollback(s)
    BY <1>2 DEF Next
  <2>2. CASE Commit(s) \/ Rollback(s)
    BY <2>2, EndsKeep
  <2>3. CASE ~(Commit(s) \/ Rollback(s))
    <3>1. Sound(s)
      BY <2>1, <2>3, HandlersSound DEF IInv, TypedInv
    <3> QED BY <3>1, BeginsKeep
  <2> QED BY <2>2, <2>3
<1> QED BY <1>1, <1>2

LEMMA DiscussionsInvariant == Spec => []IInv
<1> QED BY InitDiscusses, NextDiscusses, PTL DEF Spec

\* Every table keeps its columns' types, and so does what is still to be
\* written, whatever overlaps.
THEOREM DiscussionsTyped == Spec => []TypeOK
<1>1. IInv => TypeOK
  BY DEF IInv, TypedInv, TypeOK, ChangesTyped, Typed
<1> QED BY <1>1, DiscussionsInvariant, PTL

\* A reader sent on from merged question to merged question (detail) arrives: for
\* any number of questions, merged one request at a time in any order, no circle.
THEOREM MergesEnd == Spec => []DuplicatesEnd
<1>1. IInv => DuplicatesEnd
  BY DEF IInv, SerialInv, Good, Circleless, DuplicatesEnd
<1> QED BY <1>1, DiscussionsInvariant, PTL

\* Wherever accept_answer moves the mark, the thread's answer carries it and is the
\* only one with points, for any number of answers and changes of mind.
THEOREM MarkIsOne == Spec => []OneAccepted
<1>1. IInv => OneAccepted
  BY DEF IInv, SerialInv, Good, Marked, OneAccepted
<1> QED BY <1>1, DiscussionsInvariant, PTL

\* The counters of answers, comments and votes follow their rows, for any number
\* of them, through votes changed, comments deleted twice and texts restored.
THEOREM TalliesHold == Spec => []TalliesExact
<1>1. IInv => TalliesExact
  BY DEF IInv, SerialInv, Good, Tallied, BallotsFor, Existing, Standing, TalliesExact, Exists
<1> QED BY <1>1, DiscussionsInvariant, PTL
=============================================================================
