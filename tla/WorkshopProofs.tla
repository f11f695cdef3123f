--------------------------- MODULE WorkshopProofs ---------------------------
(***************************************************************************)
(* Votes, endorsements and their points, and takedowns, for any number of    *)
(* members, resources, marks and requests, whatever overlaps; the counters    *)
(* as long as nothing overlaps.                                             *)
(***************************************************************************)
EXTENDS Workshop, RequestsProofs, FiniteSetTheorems

-----------------------------------------------------------------------------
(* Marks and points, whatever overlaps.                                    *)

\* Votes and endorsements have points; follows and applications have states.
Paying == Resources \cup {"skill"}

Fits(m) ==
    \/ m = NoMark
    \/ m.on \in Paying /\ m.status \in {"put", "gone"}
    \/ m.on \notin Paying /\ m.status \in {"pending", "accepted", "declined", "gone"}

MarksPaid ==
    \A i \in MarkIds :
        /\ Fits(db["mark"][i])
        /\ (db["points"][i] = "paid") = (db["mark"][i].status = "put")
        /\ db["mark"][i] = NoMark => db["points"][i] = "none"

\* A session puts a mark under an id no other session writes, or changes a mark
\* that is there, with the points that belong to what it will be.
MarksWritten ==
    \A s \in Sessions : \A c \in session[s] :
        /\ c[1] = "points" => Own(s, "mark", c[2]) # {}
        /\ c[1] = "mark" =>
              /\ c[4] # NoMark /\ Fits(c[4])
              /\ c[4].on \in Paying => (c[4].status = "put") = (c[3] = NoMark)
              /\ Own(s, "points", c[2]) =
                    IF c[4].on \notin Paying THEN {}
                    ELSE IF c[3] = NoMark THEN {<<"points", c[2], "none", "paid">>}
                    ELSE {<<"points", c[2], "paid", "voided">>}
              /\ IF c[3] = NoMark
                 THEN db["mark"][c[2]] = NoMark /\ \A r \in Sessions \ {s} : Own(r, "mark", c[2]) = {}
                 ELSE db["mark"][c[2]] # NoMark /\ db["mark"][c[2]].on = c[4].on

-----------------------------------------------------------------------------
(* Takedowns, whatever overlaps.                                           *)

NoRequest == [on |-> "none", status |-> "none"]

\* Another request about the resource was decided, or a newer version replaced it.
Excused(d, r) ==
    \/ \E o \in Takedowns : d["takedown"][o].on = r /\ d["takedown"][o].status # "open"
    \/ \E new \in Resources : d["parent"][new] = r

Hidden(d, r) == d["resource"][r] \in {"active", "superseded"} => Excused(d, r)

OpenHidden ==
    /\ \A t \in Takedowns :
           /\ (db["takedown"][t].status = "none") = (db["takedown"][t].on = "none")
           /\ db["takedown"][t].on # "none" => db["resource"][db["takedown"][t].on] # "none"
           /\ db["takedown"][t].status = "open" => Hidden(db, db["takedown"][t].on)
    /\ \A r \in Resources : db["resource"][r] = "none" => db["parent"][r] = "none"

\* What a session writes of a request, of a resource and of a version.
RequestWritten(s, c) ==
    /\ c[4].on \in Resources /\ c[4].status # "none" /\ db["resource"][c[4].on] # "none"
    /\ IF c[4].status = "open"
       THEN /\ db["takedown"][c[2]] = NoRequest
            /\ \A r \in Sessions \ {s} : Own(r, "takedown", c[2]) = {}
            /\ \A d \in Own(s, "resource", c[4].on) : d[4] = "takedown"
            /\ Own(s, "resource", c[4].on) = {} => Hidden(db, c[4].on)
       ELSE db["takedown"][c[2]].on = c[4].on

ResourceWritten(s, c) ==
    /\ c[4] # "none"
    /\ IF c[3] = "none"
       THEN db["resource"][c[2]] = "none" /\ \A r \in Sessions \ {s} : Own(r, "resource", c[2]) = {}
       ELSE /\ db["resource"][c[2]] # "none"
            /\ c[4] = "active" => \/ Excused(db, c[2])
                                  \/ \E d \in session[s] : d[1] = "takedown" /\ d[4].on = c[2] /\ d[4].status # "open"
    /\ c[4] = "superseded" => \E d \in session[s] : d[1] = "parent" /\ d[4] = c[2]

ParentWritten(s, c) ==
    /\ db["resource"][c[2]] = "none"
    /\ \E d \in Own(s, "resource", c[2]) : d[3] = "none"

VaultWritten ==
    \A s \in Sessions : \A c \in session[s] :
        /\ c[1] = "takedown" => RequestWritten(s, c)
        /\ c[1] = "resource" => ResourceWritten(s, c)
        /\ c[1] = "parent" => ParentWritten(s, c)

-----------------------------------------------------------------------------
(* Counts, as long as nothing overlaps.                                    *)

Taken(d) == {i \in MarksOn(d, "role") : d["mark"][i].status = "accepted"}

Scored(d) == \A r \in Resources : d["score"][r] = Cardinality(MarksOn(d, r))

Endorsed(d) ==
    /\ \A k \in Listings : d["listing"][k] = "listed" =>
           /\ d["endorsement_count"][k] <= Cardinality(MarksOn(d, "skill"))
           /\ \A j \in Listings : d["listing"][j] = "listed" => j = k
    /\ \A k \in Listings : d["listing"][k] = "none" => d["endorsement_count"][k] = 0

Filled(d) == d["filled"]["role"] >= Cardinality(Taken(d)) \/ d["filled"]["role"] = Slots

Good(d) == Scored(d) /\ Endorsed(d) /\ Filled(d)

-----------------------------------------------------------------------------
(* Tables with one value changed.                                          *)

Names ==
    {"resource", "parent", "takedown", "score", "listing", "endorsement_count", "endorsed_by", "handle", "mark", "points",
     "project", "filled", "item", "credits", "job", "official", "interview"}

Kept(d, e, names) == \A t \in names : e[t] = d[t]

\* Row k of table t set to v.
Set(d, t, k, v) == [d EXCEPT ![t] = [d[t] EXCEPT ![k] = v]]

IsSet(d, e, t, k, v) ==
    /\ Kept(d, e, Names \ {t})
    /\ e[t] = [d[t] EXCEPT ![k] = v]
    /\ e[t][k] = v
    /\ \A j \in DOMAIN d[t] : j # k => e[t][j] = d[t][j]

LEMMA SetResource ==
    ASSUME NEW d \in Tables, NEW k \in Resources,
           NEW v \in {"none", "active", "superseded", "takedown", "removed"}
    PROVE  /\ [d EXCEPT !.resource[k] = v] = Set(d, "resource", k, v)
           /\ Set(d, "resource", k, v) \in Tables
           /\ IsSet(d, Set(d, "resource", k, v), "resource", k, v)
<1>1. /\ DOMAIN d = Names /\ d = [t \in DOMAIN d |-> d[t]]
      /\ d["resource"] \in [Resources -> {"none", "active", "superseded", "takedown", "removed"}]
  BY DEF Tables, Names
<1>2. [d["resource"] EXCEPT ![k] = v] \in [Resources -> {"none", "active", "superseded", "takedown", "removed"}]
  BY <1>1
<1>3. Set(d, "resource", k, v) \in Tables
  BY <1>2 DEF Set, Tables
<1>4. IsSet(d, Set(d, "resource", k, v), "resource", k, v)
  BY <1>1 DEF IsSet, Set, Kept, Names
<1>5. [d EXCEPT !.resource[k] = v] = Set(d, "resource", k, v)
  BY DEF Set
<1> QED BY <1>3, <1>4, <1>5

LEMMA SetParent ==
    ASSUME NEW d \in Tables, NEW k \in Resources,
           NEW v \in Resources \cup {"none"}
    PROVE  /\ [d EXCEPT !.parent[k] = v] = Set(d, "parent", k, v)
           /\ Set(d, "parent", k, v) \in Tables
           /\ IsSet(d, Set(d, "parent", k, v), "parent", k, v)
<1>1. /\ DOMAIN d = Names /\ d = [t \in DOMAIN d |-> d[t]]
      /\ d["parent"] \in [Resources -> Resources \cup {"none"}]
  BY DEF Tables, Names
<1>2. [d["parent"] EXCEPT ![k] = v] \in [Resources -> Resources \cup {"none"}]
  BY <1>1
<1>3. Set(d, "parent", k, v) \in Tables
  BY <1>2 DEF Set, Tables
<1>4. IsSet(d, Set(d, "parent", k, v), "parent", k, v)
  BY <1>1 DEF IsSet, Set, Kept, Names
<1>5. [d EXCEPT !.parent[k] = v] = Set(d, "parent", k, v)
  BY DEF Set
<1> QED BY <1>3, <1>4, <1>5

LEMMA SetTakedown ==
    ASSUME NEW d \in Tables, NEW k \in Takedowns,
           NEW v \in Request
    PROVE  /\ [d EXCEPT !.takedown[k] = v] = Set(d, "takedown", k, v)
           /\ Set(d, "takedown", k, v) \in Tables
           /\ IsSet(d, Set(d, "takedown", k, v), "takedown", k, v)
<1>1. /\ DOMAIN d = Names /\ d = [t \in DOMAIN d |-> d[t]]
      /\ d["takedown"] \in [Takedowns -> Request]
  BY DEF Tables, Names
<1>2. [d["takedown"] EXCEPT ![k] = v] \in [Takedowns -> Request]
  BY <1>1
<1>3. Set(d, "takedown", k, v) \in Tables
  BY <1>2 DEF Set, Tables
<1>4. IsSet(d, Set(d, "takedown", k, v), "takedown", k, v)
  BY <1>1 DEF IsSet, Set, Kept, Names
<1>5. [d EXCEPT !.takedown[k] = v] = Set(d, "takedown", k, v)
  BY DEF Set
<1> QED BY <1>3, <1>4, <1>5

LEMMA SetScore ==
    ASSUME NEW d \in Tables, NEW k \in Resources,
           NEW v \in Nat
    PROVE  /\ [d EXCEPT !.score[k] = v] = Set(d, "score", k, v)
           /\ Set(d, "score", k, v) \in Tables
           /\ IsSet(d, Set(d, "score", k, v), "score", k, v)
<1>1. /\ DOMAIN d = Names /\ d = [t \in DOMAIN d |-> d[t]]
      /\ d["score"] \in [Resources -> Nat]
  BY DEF Tables, Names
<1>2. [d["score"] EXCEPT ![k] = v] \in [Resources -> Nat]
  BY <1>1
<1>3. Set(d, "score", k, v) \in Tables
  BY <1>2 DEF Set, Tables
<1>4. IsSet(d, Set(d, "score", k, v), "score", k, v)
  BY <1>1 DEF IsSet, Set, Kept, Names
<1>5. [d EXCEPT !.score[k] = v] = Set(d, "score", k, v)
  BY DEF Set
<1> QED BY <1>3, <1>4, <1>5

LEMMA SetListing ==
    ASSUME NEW d \in Tables, NEW k \in Listings,
           NEW v \in {"none", "listed", "gone"}
    PROVE  /\ [d EXCEPT !.listing[k] = v] = Set(d, "listing", k, v)
           /\ Set(d, "listing", k, v) \in Tables
           /\ IsSet(d, Set(d, "listing", k, v), "listing", k, v)
<1>1. /\ DOMAIN d = Names /\ d = [t \in DOMAIN d |-> d[t]]
      /\ d["listing"] \in [Listings -> {"none", "listed", "gone"}]
  BY DEF Tables, Names
<1>2. [d["listing"] EXCEPT ![k] = v] \in [Listings -> {"none", "listed", "gone"}]
  BY <1>1
<1>3. Set(d, "listing", k, v) \in Tables
  BY <1>2 DEF Set, Tables
<1>4. IsSet(d, Set(d, "listing", k, v), "listing", k, v)
  BY <1>1 DEF IsSet, Set, Kept, Names
<1>5. [d EXCEPT !.listing[k] = v] = Set(d, "listing", k, v)
  BY DEF Set
<1> QED BY <1>3, <1>4, <1>5

LEMMA SetCount ==
    ASSUME NEW d \in Tables, NEW k \in Listings,
           NEW v \in Nat
    PROVE  /\ [d EXCEPT !.endorsement_count[k] = v] = Set(d, "endorsement_count", k, v)
           /\ Set(d, "endorsement_count", k, v) \in Tables
           /\ IsSet(d, Set(d, "endorsement_count", k, v), "endorsement_count", k, v)
<1>1. /\ DOMAIN d = Names /\ d = [t \in DOMAIN d |-> d[t]]
      /\ d["endorsement_count"] \in [Listings -> Nat]
  BY DEF Tables, Names
<1>2. [d["endorsement_count"] EXCEPT ![k] = v] \in [Listings -> Nat]
  BY <1>1
<1>3. Set(d, "endorsement_count", k, v) \in Tables
  BY <1>2 DEF Set, Tables
<1>4. IsSet(d, Set(d, "endorsement_count", k, v), "endorsement_count", k, v)
  BY <1>1 DEF IsSet, Set, Kept, Names
<1>5. [d EXCEPT !.endorsement_count[k] = v] = Set(d, "endorsement_count", k, v)
  BY DEF Set
<1> QED BY <1>3, <1>4, <1>5

LEMMA SetMark ==
    ASSUME NEW d \in Tables, NEW k \in MarkIds,
           NEW v \in Mark
    PROVE  /\ [d EXCEPT !.mark[k] = v] = Set(d, "mark", k, v)
           /\ Set(d, "mark", k, v) \in Tables
           /\ IsSet(d, Set(d, "mark", k, v), "mark", k, v)
<1>1. /\ DOMAIN d = Names /\ d = [t \in DOMAIN d |-> d[t]]
      /\ d["mark"] \in [MarkIds -> Mark]
  BY DEF Tables, Names
<1>2. [d["mark"] EXCEPT ![k] = v] \in [MarkIds -> Mark]
  BY <1>1
<1>3. Set(d, "mark", k, v) \in Tables
  BY <1>2 DEF Set, Tables
<1>4. IsSet(d, Set(d, "mark", k, v), "mark", k, v)
  BY <1>1 DEF IsSet, Set, Kept, Names
<1>5. [d EXCEPT !.mark[k] = v] = Set(d, "mark", k, v)
  BY DEF Set
<1> QED BY <1>3, <1>4, <1>5

LEMMA SetPoints ==
    ASSUME NEW d \in Tables, NEW k \in MarkIds,
           NEW v \in {"none", "paid", "voided"}
    PROVE  /\ [d EXCEPT !.points[k] = v] = Set(d, "points", k, v)
           /\ Set(d, "points", k, v) \in Tables
           /\ IsSet(d, Set(d, "points", k, v), "points", k, v)
<1>1. /\ DOMAIN d = Names /\ d = [t \in DOMAIN d |-> d[t]]
      /\ d["points"] \in [MarkIds -> {"none", "paid", "voided"}]
  BY DEF Tables, Names
<1>2. [d["points"] EXCEPT ![k] = v] \in [MarkIds -> {"none", "paid", "voided"}]
  BY <1>1
<1>3. Set(d, "points", k, v) \in Tables
  BY <1>2 DEF Set, Tables
<1>4. IsSet(d, Set(d, "points", k, v), "points", k, v)
  BY <1>1 DEF IsSet, Set, Kept, Names
<1>5. [d EXCEPT !.points[k] = v] = Set(d, "points", k, v)
  BY DEF Set
<1> QED BY <1>3, <1>4, <1>5

LEMMA SetFilled ==
    ASSUME NEW d \in Tables, NEW k \in {"role"},
           NEW v \in 0..Slots
    PROVE  /\ [d EXCEPT !.filled[k] = v] = Set(d, "filled", k, v)
           /\ Set(d, "filled", k, v) \in Tables
           /\ IsSet(d, Set(d, "filled", k, v), "filled", k, v)
<1>1. /\ DOMAIN d = Names /\ d = [t \in DOMAIN d |-> d[t]]
      /\ d["filled"] \in [{"role"} -> 0..Slots]
  BY DEF Tables, Names
<1>2. [d["filled"] EXCEPT ![k] = v] \in [{"role"} -> 0..Slots]
  BY <1>1
<1>3. Set(d, "filled", k, v) \in Tables
  BY <1>2 DEF Set, Tables
<1>4. IsSet(d, Set(d, "filled", k, v), "filled", k, v)
  BY <1>1 DEF IsSet, Set, Kept, Names
<1>5. [d EXCEPT !.filled[k] = v] = Set(d, "filled", k, v)
  BY DEF Set
<1> QED BY <1>3, <1>4, <1>5

LEMMA SetCredits ==
    ASSUME NEW d \in Tables, NEW k \in {"item"},
           NEW v \in Nat
    PROVE  /\ [d EXCEPT !.credits[k] = v] = Set(d, "credits", k, v)
           /\ Set(d, "credits", k, v) \in Tables
           /\ IsSet(d, Set(d, "credits", k, v), "credits", k, v)
<1>1. /\ DOMAIN d = Names /\ d = [t \in DOMAIN d |-> d[t]]
      /\ d["credits"] \in [{"item"} -> Nat]
  BY DEF Tables, Names
<1>2. [d["credits"] EXCEPT ![k] = v] \in [{"item"} -> Nat]
  BY <1>1
<1>3. Set(d, "credits", k, v) \in Tables
  BY <1>2 DEF Set, Tables
<1>4. IsSet(d, Set(d, "credits", k, v), "credits", k, v)
  BY <1>1 DEF IsSet, Set, Kept, Names
<1>5. [d EXCEPT !.credits[k] = v] = Set(d, "credits", k, v)
  BY DEF Set
<1> QED BY <1>3, <1>4, <1>5

-----------------------------------------------------------------------------
(* What a handler does.                                                    *)

\* To one mark: nothing, or it puts it under a fresh id, or it changes it, and
\* the points follow.
MarkMoves(result, i) ==
    \/ result["mark"][i] = db["mark"][i] /\ result["points"][i] = db["points"][i]
    \/ /\ db["mark"][i] = NoMark /\ Writing("mark", i) = {}
       /\ result["mark"][i] # NoMark /\ Fits(result["mark"][i])
       /\ result["mark"][i].status \in {"put", "pending"}
       /\ result["points"][i] = IF result["mark"][i].on \in Paying THEN "paid" ELSE db["points"][i]
    \/ /\ db["mark"][i] # NoMark /\ db["mark"][i].status # "gone"
       /\ result["mark"][i] # NoMark /\ Fits(result["mark"][i])
       /\ result["mark"][i].on = db["mark"][i].on /\ result["mark"][i].status # "put"
       /\ result["points"][i] = IF db["points"][i] = "paid" THEN "voided" ELSE db["points"][i]

RequestMoves(result, t) ==
    LET on == result["takedown"][t].on
    IN  /\ on \in Resources /\ db["resource"][on] # "none"
        /\ \/ /\ db["takedown"][t] = NoRequest /\ Writing("takedown", t) = {}
              /\ result["takedown"][t].status = "open" /\ result["resource"][on] = "takedown"
           \/ /\ db["takedown"][t].on = on /\ db["takedown"][t].status # "none"
              /\ result["takedown"][t].status \in {"upheld", "dismissed"}

ResourceMoves(result, r) ==
    /\ result["resource"][r] # "none"
    /\ db["resource"][r] = "none" => Writing("resource", r) = {} /\ result["resource"][r] = "active"
    /\ result["resource"][r] = "superseded" =>
           \E new \in Resources : db["resource"][new] = "none" /\ result["parent"][new] = r
    /\ result["resource"][r] = "active" /\ db["resource"][r] # "none" =>
           \E t \in Takedowns : result["takedown"][t].on = r /\ result["takedown"][t].status = "dismissed"

VaultMoves(result) ==
    /\ \A t \in Takedowns : result["takedown"][t] # db["takedown"][t] => RequestMoves(result, t)
    /\ \A r \in Resources : result["resource"][r] # db["resource"][r] => ResourceMoves(result, r)
    /\ \A r \in Resources : result["parent"][r] # db["parent"][r] =>
           db["resource"][r] = "none" /\ result["resource"][r] = "active"

Moves(result) ==
    /\ \A i \in MarkIds : MarkMoves(result, i)
    /\ VaultMoves(result)
    /\ result["credits"]["item"] \in {db["credits"]["item"], db["credits"]["item"] + 1}

Sound(s) == \E result \in Tables : Begin(s, result) /\ (Good(db) => Good(result)) /\ Moves(result)

MarkTables == {"mark", "points"}
VaultTables == {"resource", "parent", "takedown"}
CountTables == {"score", "listing", "endorsement_count", "filled"}

LEMMA MarksStay ==
    ASSUME NEW result, Kept(db, result, MarkTables)
    PROVE  \A i \in MarkIds : MarkMoves(result, i)
  BY DEF Kept, MarkTables, MarkMoves

LEMMA VaultStays ==
    ASSUME NEW result, Kept(db, result, VaultTables)
    PROVE  VaultMoves(result)
  BY DEF Kept, VaultTables, VaultMoves

LEMMA CountsStay ==
    ASSUME NEW result, Kept(db, result, {"mark"} \cup CountTables), Good(db)
    PROVE  Good(result)
<1>1. /\ result["mark"] = db["mark"] /\ result["score"] = db["score"] /\ result["listing"] = db["listing"]
      /\ result["endorsement_count"] = db["endorsement_count"] /\ result["filled"] = db["filled"]
  BY DEF Kept, CountTables
<1>2. \A x : MarksOn(result, x) = MarksOn(db, x)
  BY <1>1 DEF MarksOn
<1>3. Taken(result) = Taken(db)
  BY <1>1, <1>2 DEF Taken
<1>4. Scored(result)
  BY <1>1, <1>2, Zenon DEF Scored, Good
<1>5. Endorsed(result)
  BY <1>1, <1>2, Zenon DEF Endorsed, Good
<1>6. Filled(result)
  BY <1>1, <1>3, Zenon DEF Filled, Good
<1> QED BY <1>4, <1>5, <1>6 DEF Good

\* A handler that has to do with none of these.
LEMMA ElsewhereSound ==
    ASSUME NEW s \in Sessions, NEW result \in Tables, Begin(s, result),
           Kept(db, result, MarkTables \cup VaultTables \cup CountTables \cup {"credits"})
    PROVE  Sound(s)
<1>1. /\ Kept(db, result, MarkTables) /\ Kept(db, result, VaultTables)
      /\ Kept(db, result, {"mark"} \cup CountTables) /\ result["credits"] = db["credits"]
  BY DEF Kept, MarkTables
<1> QED BY <1>1, MarksStay, VaultStays, CountsStay DEF Sound, Moves

LEMMA BoardsSound ==
    ASSUME db \in Tables, NEW s \in Sessions,
           \/ SaveProfile(s) \/ (\E u \in Users : UpdateProfile(s, u)) \/ CreateProject(s) \/ SetStatus(s) \/ ReportItem(s) \/ DeleteItem(s)
           \/ CreateJob(s) \/ MarkOfficial(s) \/ CloseJob(s) \/ CreateInterview(s)
    PROVE  Sound(s)
<1> DEFINE kept == MarkTables \cup VaultTables \cup CountTables \cup {"credits"}
<1> USE DEF MarkTables, VaultTables, CountTables
<1>1. CASE SaveProfile(s)
  <2>1. PICK policy \in {"anyone", "nobody"} : Begin(s, [db EXCEPT !.endorsed_by["owner"] = policy])
    BY <1>1, Zenon DEF SaveProfile
  <2> DEFINE result == [db EXCEPT !.endorsed_by["owner"] = policy]
  <2>2. Begin(s, result)
    BY <2>1
  <2>3. result \in Tables /\ Kept(db, result, kept)
    BY DEF Tables, Kept
  <2> HIDE DEF result
  <2> QED BY <2>2, <2>3, ElsewhereSound
<1>2. CASE CreateProject(s)
  <2> DEFINE result == [db EXCEPT !.project["project"] = "open"]
  <2>2. Begin(s, result)
    BY <1>2, Zenon DEF CreateProject
  <2>3. result \in Tables /\ Kept(db, result, kept)
    BY DEF Tables, Kept
  <2> HIDE DEF result
  <2> QED BY <2>2, <2>3, ElsewhereSound
<1>3. CASE SetStatus(s)
  <2>1. PICK status \in {"open", "closed"} : Begin(s, [db EXCEPT !.project["project"] = status])
    BY <1>3, Zenon DEF SetStatus
  <2> DEFINE result == [db EXCEPT !.project["project"] = status]
  <2>2. Begin(s, result)
    BY <2>1
  <2>3. result \in Tables /\ Kept(db, result, kept)
    BY DEF Tables, Kept
  <2> HIDE DEF result
  <2> QED BY <2>2, <2>3, ElsewhereSound
<1>4. CASE ReportItem(s)
  <2> DEFINE result == [db EXCEPT !.item["item"] = "open"]
  <2>2. Begin(s, result)
    BY <1>4, Zenon DEF ReportItem
  <2>3. result \in Tables /\ Kept(db, result, kept)
    BY DEF Tables, Kept
  <2> HIDE DEF result
  <2> QED BY <2>2, <2>3, ElsewhereSound
<1>5. CASE DeleteItem(s)
  <2> DEFINE result == [db EXCEPT !.item["item"] = "removed"]
  <2>2. Begin(s, result)
    BY <1>5, Zenon DEF DeleteItem
  <2>3. result \in Tables /\ Kept(db, result, kept)
    BY DEF Tables, Kept
  <2> HIDE DEF result
  <2> QED BY <2>2, <2>3, ElsewhereSound
<1>6. CASE CreateJob(s)
  <2> DEFINE result == [db EXCEPT !.job["job"] = "active"]
  <2>2. Begin(s, result)
    BY <1>6, Zenon DEF CreateJob
  <2>3. result \in Tables /\ Kept(db, result, kept)
    BY DEF Tables, Kept
  <2> HIDE DEF result
  <2> QED BY <2>2, <2>3, ElsewhereSound
<1>7. CASE MarkOfficial(s)
  <2> DEFINE result == [db EXCEPT !.official["job"] = ~@]
  <2>2. Begin(s, result)
    BY <1>7, Zenon DEF MarkOfficial
  <2>3. result \in Tables /\ Kept(db, result, kept)
    BY DEF Tables, Kept
  <2> HIDE DEF result
  <2> QED BY <2>2, <2>3, ElsewhereSound
<1>8. CASE CloseJob(s)
  <2> DEFINE result == [db EXCEPT !.job["job"] = "closed"]
  <2>2. Begin(s, result)
    BY <1>8, Zenon DEF CloseJob
  <2>3. result \in Tables /\ Kept(db, result, kept)
    BY DEF Tables, Kept
  <2> HIDE DEF result
  <2> QED BY <2>2, <2>3, ElsewhereSound
<1>9. CASE CreateInterview(s)
  <2> DEFINE result == [db EXCEPT !.interview["interview"] = "active"]
  <2>2. Begin(s, result)
    BY <1>9, Zenon DEF CreateInterview
  <2>3. result \in Tables /\ Kept(db, result, kept)
    BY DEF Tables, Kept
  <2> HIDE DEF result
  <2> QED BY <2>2, <2>3, ElsewhereSound
<1>10. ASSUME NEW u \in Users, UpdateProfile(s, u) PROVE Sound(s)
  <2>1. PICK name \in Handles \ {db.handle[v] : v \in Users \ {u}},
             policy \in IF u = "owner" THEN {"anyone", "nobody"} ELSE {db.endorsed_by["owner"]} :
                Begin(s, [db EXCEPT !.handle[u] = name, !.endorsed_by["owner"] = policy])
    BY <1>10, Zenon DEF UpdateProfile
  <2> DEFINE result == [db EXCEPT !.handle[u] = name, !.endorsed_by["owner"] = policy]
  <2>2. Begin(s, result)
    BY <2>1
  <2>3. name \in Handles /\ policy \in {"anyone", "nobody"}
    BY <2>1 DEF Tables
  <2>4. result \in Tables /\ Kept(db, result, kept)
    BY <2>3 DEF Tables, Kept
  <2> HIDE DEF result
  <2> QED BY <2>2, <2>4, ElsewhereSound
<1> QED BY <1>1, <1>2, <1>3, <1>4, <1>5, <1>6, <1>7, <1>8, <1>9, <1>10

LEMMA ResolveSound ==
    ASSUME db \in Tables, NEW s \in Sessions, Resolve(s)
    PROVE  Sound(s)
<1> DEFINE resolved == [db EXCEPT !.item["item"] = "resolved"]
           credited == Set(resolved, "credits", "item", db["credits"]["item"] + 1)
           kept == MarkTables \cup VaultTables \cup CountTables
<1>1. resolved \in Tables /\ Kept(db, resolved, kept \cup {"credits"})
  BY DEF Tables, Kept, MarkTables, VaultTables, CountTables
<1>2. Begin(s, resolved) \/ Begin(s, credited)
  <2>1. [db EXCEPT !.item["item"] = "resolved", !.credits["item"] = @ + 1] = credited
    BY DEF Tables, Set
  <2> QED BY <2>1, Zenon DEF Resolve
<1> HIDE DEF resolved
<1>3. db["credits"]["item"] + 1 \in Nat
  BY DEF Tables
<1>4. credited \in Tables /\ IsSet(resolved, credited, "credits", "item", db["credits"]["item"] + 1)
  BY <1>1, <1>3, SetCredits
<1> HIDE DEF credited
<1>5. Kept(db, credited, kept) /\ credited["credits"]["item"] = db["credits"]["item"] + 1
  BY <1>1, <1>4 DEF Kept, IsSet, Names, MarkTables, VaultTables, CountTables
<1>6. ASSUME NEW result \in {resolved, credited}, Begin(s, result) PROVE Sound(s)
  <2>1. /\ result \in Tables /\ Kept(db, result, MarkTables) /\ Kept(db, result, VaultTables)
        /\ Kept(db, result, {"mark"} \cup CountTables)
        /\ result["credits"]["item"] \in {db["credits"]["item"], db["credits"]["item"] + 1}
    BY <1>1, <1>4, <1>5 DEF Kept, MarkTables
  <2> QED BY <1>6, <2>1, MarksStay, VaultStays, CountsStay DEF Sound, Moves
<1> QED BY <1>2, <1>6

-----------------------------------------------------------------------------
(* The vault's handlers.                                                   *)

LEMMA NextIdFree ==
    ASSUME NEW table, NEW none, NEW i \in NextId(table, none)
    PROVE  i \in DOMAIN db[table] /\ db[table][i] = none /\ Writing(table, i) = {}
  BY DEF NextId

LEMMA VaultSound ==
    ASSUME NEW s \in Sessions, NEW result \in Tables, Begin(s, result),
           Kept(db, result, Names \ VaultTables), VaultMoves(result)
    PROVE  Sound(s)
<1>1. /\ Kept(db, result, MarkTables) /\ Kept(db, result, {"mark"} \cup CountTables)
      /\ result["credits"] = db["credits"]
  BY DEF Kept, MarkTables, CountTables, VaultTables, Names
<1> QED BY <1>1, MarksStay, CountsStay DEF Sound, Moves

LEMMA UploadSound ==
    ASSUME db \in Tables, NEW s \in Sessions, Upload(s)
    PROVE  Sound(s)
<1>1. PICK r \in Resources :
          /\ db["resource"][r] = "none" /\ Writing("resource", r) = {}
          /\ LET new == [db EXCEPT !.resource[r] = "active"]
             IN  \/ Begin(s, new)
                 \/ \E old \in Resources :
                        /\ db["resource"][old] # "none"
                        /\ Begin(s, [new EXCEPT !.resource[old] = "superseded", !.parent[r] = old])
  BY Zenon DEF Upload
<1> DEFINE new == Set(db, "resource", r, "active")
<1>2. /\ [db EXCEPT !.resource[r] = "active"] = new
      /\ new \in Tables /\ IsSet(db, new, "resource", r, "active")
  BY SetResource
<1> HIDE DEF new
<1>3. /\ \A q \in Resources : q # r => new["resource"][q] = db["resource"][q]
      /\ DOMAIN new["resource"] = Resources /\ DOMAIN new["parent"] = Resources
  BY <1>2 DEF IsSet, Tables
<1>4. CASE Begin(s, new)
  <2>1. Kept(db, new, Names \ VaultTables) /\ new["takedown"] = db["takedown"] /\ new["parent"] = db["parent"]
    BY <1>2 DEF Kept, IsSet, VaultTables, Names
  <2>2. VaultMoves(new)
    BY <1>1, <1>2, <1>3, <2>1 DEF VaultMoves, ResourceMoves, IsSet
  <2> QED BY <1>2, <1>4, <2>1, <2>2, VaultSound
<1>5. ASSUME NEW old \in Resources, db["resource"][old] # "none",
             Begin(s, [new EXCEPT !.resource[old] = "superseded", !.parent[r] = old])
      PROVE  Sound(s)
  <2> DEFINE replaced == Set(new, "resource", old, "superseded")
             result == Set(replaced, "parent", r, old)
  <2>1. [new EXCEPT !.resource[old] = "superseded", !.parent[r] = old] = result
    BY <1>2 DEF Tables, Set
  <2>2. replaced \in Tables /\ IsSet(new, replaced, "resource", old, "superseded")
    BY <1>2, SetResource
  <2>3. result \in Tables /\ IsSet(replaced, result, "parent", r, old)
    BY <2>2, SetParent
  <2> HIDE DEF replaced
  <2>4. /\ Begin(s, result) /\ old # r
        /\ Kept(db, result, Names \ VaultTables) /\ result["takedown"] = db["takedown"]
        /\ result["parent"][r] = old /\ result["resource"][old] = "superseded"
        /\ \A q \in Resources : q # r => result["parent"][q] = db["parent"][q]
        /\ \A q \in Resources : q # old => result["resource"][q] = new["resource"][q]
    <3> HIDE DEF result
    <3>1. Begin(s, result) /\ old # r
      BY <1>1, <1>5, <2>1
    <3>2. Kept(db, result, Names \ VaultTables) /\ result["takedown"] = db["takedown"]
      BY <1>2, <2>2, <2>3 DEF IsSet, Kept, VaultTables, Names
    <3>3. /\ new["parent"] = db["parent"] /\ replaced["parent"] = new["parent"]
          /\ result["resource"] = replaced["resource"]
      BY <1>2, <2>2, <2>3 DEF IsSet, Kept, Names
    <3> QED BY <1>3, <2>2, <2>3, <3>1, <3>2, <3>3 DEF IsSet
  <2> HIDE DEF result
  <2>5. VaultMoves(result)
    <3>1. \A q \in Resources : result["resource"][q] # db["resource"][q] => q \in {r, old}
      BY <1>3, <2>4
    <3>2. ResourceMoves(result, r)
      BY <1>1, <1>2, <2>4 DEF ResourceMoves, IsSet
    <3>3. ResourceMoves(result, old)
      BY <1>1, <1>5, <2>4 DEF ResourceMoves
    <3>4. result["resource"][r] = "active"
      BY <1>2, <2>4 DEF IsSet
    <3> QED BY <1>1, <2>4, <3>1, <3>2, <3>3, <3>4 DEF VaultMoves
  <2> QED BY <2>3, <2>4, <2>5, VaultSound
<1> QED BY <1>1, <1>2, <1>4, <1>5

\* One request and the resource it is about.
LEMMA RequestSound ==
    ASSUME db \in Tables, NEW s \in Sessions, NEW t \in Takedowns, NEW request \in Request,
           NEW r \in Resources, NEW becomes \in {"takedown", "removed", "active"},
           Begin(s, Set(Set(db, "takedown", t, request), "resource", r, becomes)),
           request.on = r, db["resource"][r] # "none",
           \/ /\ db["takedown"][t] = NoRequest /\ Writing("takedown", t) = {}
              /\ request.status = "open" /\ becomes = "takedown"
           \/ /\ db["takedown"][t].on = r /\ db["takedown"][t].status # "none"
              /\ request.status \in {"upheld", "dismissed"}
              /\ becomes = "active" => request.status = "dismissed"
    PROVE  Sound(s)
<1> DEFINE filed == Set(db, "takedown", t, request)
           result == Set(filed, "resource", r, becomes)
<1>1. filed \in Tables /\ IsSet(db, filed, "takedown", t, request)
  BY SetTakedown
<1>2. becomes \in {"none", "active", "superseded", "takedown", "removed"}
  OBVIOUS
<1>3. Begin(s, result)
  OBVIOUS
<1> HIDE DEF filed
<1>9. result \in Tables /\ IsSet(filed, result, "resource", r, becomes)
  BY <1>1, <1>2, SetResource
<1> HIDE DEF result
<1>4. /\ Kept(db, result, Names \ VaultTables) /\ result["takedown"] = filed["takedown"]
      /\ result["parent"] = db["parent"] /\ filed["resource"] = db["resource"]
  BY <1>1, <1>9 DEF IsSet, Kept, VaultTables, Names
<1>5. /\ result["takedown"][t] = request /\ \A u \in Takedowns : u # t => result["takedown"][u] = db["takedown"][u]
      /\ result["resource"][r] = becomes /\ \A q \in Resources : q # r => result["resource"][q] = db["resource"][q]
  BY <1>1, <1>4, <1>9 DEF IsSet, Tables
<1>6. RequestMoves(result, t)
  BY <1>5 DEF RequestMoves
<1>7. ResourceMoves(result, r)
  BY <1>5 DEF ResourceMoves
<1>8. VaultMoves(result)
  BY <1>4, <1>5, <1>6, <1>7 DEF VaultMoves
<1> QED BY <1>3, <1>4, <1>8, <1>9, VaultSound

LEMMA TakedownSound ==
    ASSUME db \in Tables, NEW s \in Sessions, NEW r \in Resources, Takedown(s, r)
    PROVE  Sound(s)
<1> DEFINE request == [on |-> r, status |-> "open"]
<1>1. PICK t \in NextId("takedown", NoRequest) :
          Begin(s, [[db EXCEPT !.takedown[t] = request] EXCEPT !.resource[r] = "takedown"])
  BY Zenon DEF Takedown, PulledDown, NoRequest
<1>2. t \in Takedowns /\ db["takedown"][t] = NoRequest /\ Writing("takedown", t) = {}
  BY <1>1, NextIdFree DEF Tables
<1>3. db["resource"][r] # "none"
  BY Zenon DEF Takedown
<1>4. request \in Request /\ request.on = r /\ request.status = "open"
  BY DEF Request
<1> HIDE DEF request
<1>5. [db EXCEPT !.takedown[t] = request] = Set(db, "takedown", t, request) /\ Set(db, "takedown", t, request) \in Tables
  BY <1>2, <1>4, SetTakedown
<1>6. [[db EXCEPT !.takedown[t] = request] EXCEPT !.resource[r] = "takedown"]
          = Set(Set(db, "takedown", t, request), "resource", r, "takedown")
  BY <1>5, SetResource
<1> QED BY <1>1, <1>2, <1>3, <1>4, <1>6, RequestSound

LEMMA DecideTakedownSound ==
    ASSUME db \in Tables, OpenHidden, NEW s \in Sessions, NEW t \in Takedowns, DecideTakedown(s, t)
    PROVE  Sound(s)
<1> DEFINE r == db["takedown"][t].on
<1>1. PICK status \in {"upheld", "dismissed"}, becomes \in {"removed", "active"} :
          /\ becomes = "active" => status = "dismissed"
          /\ Begin(s, [db EXCEPT !.takedown[t].status = status, !.resource[r] = becomes])
  BY Zenon DEF DecideTakedown
<1>2. db["takedown"][t] \in Request /\ db["takedown"][t].status # "none"
  BY DEF DecideTakedown, Tables
<1>3. r \in Resources /\ db["resource"][r] # "none"
  BY <1>2 DEF OpenHidden, Request
<1> DEFINE decided == [db["takedown"][t] EXCEPT !.status = status]
<1>4. [db EXCEPT !.takedown[t].status = status, !.resource[r] = becomes]
          = Set(Set(db, "takedown", t, decided), "resource", r, becomes)
  BY <1>3 DEF Tables, Set
<1>5. decided \in Request /\ decided.on = r /\ decided.status = status
  BY <1>2 DEF Request
<1> HIDE DEF decided
<1> QED BY <1>1, <1>2, <1>3, <1>4, <1>5, RequestSound

-----------------------------------------------------------------------------
(* What is done to marks.                                                  *)

\* Tables e are the database with mark i as m and its points as p.
MarkIs(e, i, m, p) ==
    /\ e \in Tables
    /\ Kept(db, e, Names \ MarkTables)
    /\ e["mark"][i] = m /\ e["points"][i] = p
    /\ \A j \in MarkIds : j # i => e["mark"][j] = db["mark"][j] /\ e["points"][j] = db["points"][j]

\* The points follow the mark.
MarkFollows(i, m, p) ==
    \/ /\ db["mark"][i] = NoMark /\ Writing("mark", i) = {}
       /\ m # NoMark /\ Fits(m) /\ m.status \in {"put", "pending"}
       /\ p = IF m.on \in Paying THEN "paid" ELSE db["points"][i]
    \/ /\ db["mark"][i] # NoMark /\ db["mark"][i].status # "gone"
       /\ m # NoMark /\ Fits(m) /\ m.on = db["mark"][i].on /\ m.status # "put"
       /\ p = IF db["points"][i] = "paid" THEN "voided" ELSE db["points"][i]

LEMMA MarkSetIs ==
    ASSUME db \in Tables, NEW i \in MarkIds, NEW m \in Mark
    PROVE  MarkIs(Set(db, "mark", i, m), i, m, db["points"][i])
<1> DEFINE e == Set(db, "mark", i, m)
<1>1. e \in Tables /\ IsSet(db, e, "mark", i, m) /\ DOMAIN db["mark"] = MarkIds
  BY SetMark DEF Tables
<1> HIDE DEF e
<1>2. MarkIs(e, i, m, db["points"][i])
  BY <1>1 DEF MarkIs, IsSet, Kept, MarkTables, Names
<1> QED BY <1>2 DEF e

LEMMA PointsSetIs ==
    ASSUME db \in Tables, NEW i \in MarkIds, NEW m \in Mark, NEW p \in {"none", "paid", "voided"}
    PROVE  MarkIs(Set(Set(db, "mark", i, m), "points", i, p), i, m, p)
<1> DEFINE d == Set(db, "mark", i, m)
           e == Set(d, "points", i, p)
<1>1. MarkIs(d, i, m, db["points"][i])
  BY MarkSetIs
<1> HIDE DEF d
<1>2. d \in Tables /\ DOMAIN d["points"] = MarkIds
  BY <1>1 DEF MarkIs, Tables
<1>4. e \in Tables /\ IsSet(d, e, "points", i, p)
  BY <1>2, SetPoints
<1> HIDE DEF e
<1>3. MarkIs(e, i, m, p)
  BY <1>1, <1>2, <1>4 DEF MarkIs, IsSet, Kept, MarkTables, Names
<1> QED BY <1>3 DEF e, d

TargetsAre == /\ Resources \subseteq Paying /\ "skill" \in Paying /\ "owner" \notin Paying
              /\ "role" \notin Paying /\ "project" \notin Paying
              /\ "skill" \notin Resources /\ "owner" \notin Resources
              /\ "role" \notin Resources /\ "project" \notin Resources
              /\ Targets = Resources \cup {"skill", "owner", "role", "project"} /\ "none" \notin Targets

LEMMA TargetsDiffer == TargetsAre
  BY WorkshopAssumption DEF TargetsAre, Targets, Paying

\* A follow or an application is put, a vote or an endorsement with points.
LEMMA PutIs ==
    ASSUME db \in Tables, NEW i \in NextId("mark", NoMark), NEW u \in Members,
           NEW target \in {"owner", "role", "project"}
    PROVE  LET m == [on |-> target, by |-> u, status |-> "pending"]
           IN  /\ i \in MarkIds /\ MarkFollows(i, m, db["points"][i])
               /\ MarkIs(Put(i, target, u, "pending"), i, m, db["points"][i])
<1> DEFINE m == [on |-> target, by |-> u, status |-> "pending"]
<1>1. i \in MarkIds /\ db["mark"][i] = NoMark /\ Writing("mark", i) = {}
  BY NextIdFree DEF Tables
<1>2. m \in Mark /\ m # NoMark /\ Fits(m) /\ m.on = target /\ m.status = "pending" /\ target \notin Paying
  BY TargetsDiffer DEF TargetsAre, Mark, NoMark, Fits
<1>3. Put(i, target, u, "pending") = Set(db, "mark", i, m)
  <2>1. Put(i, target, u, "pending") = [db EXCEPT !.mark[i] = m]
    BY Zenon DEF Put
  <2> HIDE DEF m
  <2> QED BY <1>1, <1>2, <2>1, SetMark
<1> HIDE DEF m
<1>4. MarkFollows(i, m, db["points"][i])
  BY <1>1, <1>2 DEF MarkFollows
<1>5. MarkIs(Put(i, target, u, "pending"), i, m, db["points"][i])
  BY <1>1, <1>2, <1>3, MarkSetIs
<1> QED BY <1>1, <1>4, <1>5 DEF m

LEMMA PaidPutIs ==
    ASSUME db \in Tables, NEW i \in NextId("mark", NoMark), NEW u \in Members, NEW target \in Paying
    PROVE  LET m == [on |-> target, by |-> u, status |-> "put"]
           IN  /\ i \in MarkIds /\ MarkFollows(i, m, "paid")
               /\ MarkIs(Paid(Put(i, target, u, "put"), i), i, m, "paid")
<1> DEFINE m == [on |-> target, by |-> u, status |-> "put"]
<1>1. i \in MarkIds /\ db["mark"][i] = NoMark /\ Writing("mark", i) = {}
  BY NextIdFree DEF Tables
<1>2. m \in Mark /\ m # NoMark /\ Fits(m) /\ m.on = target /\ m.status = "put"
  BY TargetsDiffer DEF TargetsAre, Mark, NoMark, Fits, Paying
<1>3. Paid(Put(i, target, u, "put"), i) = Set(Set(db, "mark", i, m), "points", i, "paid")
  <2>1. Paid(Put(i, target, u, "put"), i) = [[db EXCEPT !.mark[i] = m] EXCEPT !.points[i] = "paid"]
    BY Zenon DEF Paid, Put
  <2> HIDE DEF m
  <2>2. [db EXCEPT !.mark[i] = m] = Set(db, "mark", i, m) /\ Set(db, "mark", i, m) \in Tables
    BY <1>1, <1>2, SetMark
  <2> QED BY <1>1, <2>1, <2>2, SetPoints
<1> HIDE DEF m
<1>4. MarkFollows(i, m, "paid")
  BY <1>1, <1>2 DEF MarkFollows
<1>5. MarkIs(Paid(Put(i, target, u, "put"), i), i, m, "paid")
  BY <1>1, <1>2, <1>3, PointsSetIs
<1> QED BY <1>1, <1>4, <1>5 DEF m

LEMMA WithdrawnIs ==
    ASSUME db \in Tables, NEW i \in MarkIds, Live(db["mark"][i])
    PROVE  LET m == [db["mark"][i] EXCEPT !.status = "gone"]
               p == IF db["points"][i] = "paid" THEN "voided" ELSE db["points"][i]
           IN  /\ m # NoMark /\ m.status = "gone" /\ m.on = db["mark"][i].on
               /\ MarkFollows(i, m, p)
               /\ MarkIs(Withdrawn(db, i), i, m, p)
<1> DEFINE m == [db["mark"][i] EXCEPT !.status = "gone"]
           p == IF db["points"][i] = "paid" THEN "voided" ELSE db["points"][i]
<1>1. db["mark"][i] \in Mark /\ db["mark"][i] # NoMark /\ db["mark"][i].status # "gone"
  BY DEF Tables, Live
<1>2. m \in Mark /\ m # NoMark /\ m.on = db["mark"][i].on /\ m.status = "gone" /\ Fits(m)
  BY <1>1 DEF Mark, NoMark, Fits
<1>3. p \in {"none", "paid", "voided"}
  BY DEF Tables
<1>4. Withdrawn(db, i) = Set(Set(db, "mark", i, m), "points", i, p)
  BY DEF Withdrawn, Set, Tables
<1> HIDE DEF m
<1>5. MarkFollows(i, m, p)
  BY <1>1, <1>2 DEF MarkFollows
<1> HIDE DEF p
<1>6. MarkIs(Withdrawn(db, i), i, m, p)
  BY <1>2, <1>3, <1>4, PointsSetIs
<1> QED BY <1>2, <1>5, <1>6 DEF m, p

\* A follow or an application is answered.
LEMMA AnsweredIs ==
    ASSUME db \in Tables, MarksPaid, NEW i \in MarkIds, Live(db["mark"][i]),
           db["mark"][i].on \in {"owner", "role", "project"}, NEW status \in {"accepted", "declined"}
    PROVE  LET m == [db["mark"][i] EXCEPT !.status = status]
           IN  /\ m # NoMark /\ m.status = status /\ m.on = db["mark"][i].on
               /\ MarkFollows(i, m, db["points"][i])
               /\ [db EXCEPT !.mark[i].status = status] = Set(db, "mark", i, m)
               /\ MarkIs(Set(db, "mark", i, m), i, m, db["points"][i])
<1> DEFINE m == [db["mark"][i] EXCEPT !.status = status]
<1>1. /\ db["mark"][i] \in Mark /\ db["mark"][i] # NoMark /\ db["mark"][i].status # "gone"
      /\ db["mark"][i].on \notin Paying
  BY TargetsDiffer DEF Tables, Live, TargetsAre
<1>2. m \in Mark /\ m # NoMark /\ m.on = db["mark"][i].on /\ m.status = status /\ Fits(m)
  BY <1>1 DEF Mark, NoMark, Fits
<1>3. db["points"][i] # "paid"
  BY <1>1 DEF MarksPaid, Fits
<1>4. [db EXCEPT !.mark[i].status = status] = Set(db, "mark", i, m)
  BY DEF Set, Tables
<1> HIDE DEF m
<1>5. MarkFollows(i, m, db["points"][i])
  BY <1>1, <1>2, <1>3 DEF MarkFollows
<1>6. MarkIs(Set(db, "mark", i, m), i, m, db["points"][i])
  BY <1>2, MarkSetIs
<1> QED BY <1>2, <1>4, <1>5, <1>6 DEF m

-----------------------------------------------------------------------------
(* Counting marks.                                                         *)

LEMMA FiniteMarks ==
    ASSUME NEW d
    PROVE  /\ \A x : IsFiniteSet(MarksOn(d, x)) /\ Cardinality(MarksOn(d, x)) \in Nat
           /\ IsFiniteSet(Taken(d)) /\ Cardinality(Taken(d)) \in Nat
<1>1. \A x : IsFiniteSet(MarksOn(d, x))
  BY WorkshopAssumption, FS_Subset DEF MarksOn
<1>2. IsFiniteSet(Taken(d))
  BY <1>1, FS_Subset DEF Taken
<1> QED BY <1>1, <1>2, FS_CardinalityType

\* Tables d are the database but for mark i, which is m there, on target x.
MarkedAs(d, i, m, x) ==
    /\ d["mark"][i] = m /\ \A j \in MarkIds : j # i => d["mark"][j] = db["mark"][j]
    /\ Live(m) => m.on = x
    /\ Live(db["mark"][i]) => db["mark"][i].on = x

LEMMA OnOthers ==
    ASSUME NEW d, NEW i \in MarkIds, NEW m, NEW x, MarkedAs(d, i, m, x)
    PROVE  /\ \A y : y # x => MarksOn(d, y) = MarksOn(db, y)
           /\ x # "role" => Taken(d) = Taken(db)
<1>1. \A y : y # x => MarksOn(d, y) = MarksOn(db, y)
  BY DEF MarkedAs, MarksOn
<1>2. x # "role" => Taken(d) = Taken(db)
  <2>1. \A j \in MarkIds : j # i => d["mark"][j] = db["mark"][j]
    BY DEF MarkedAs
  <2>2. x # "role" => i \notin MarksOn(d, "role") /\ i \notin MarksOn(db, "role")
    BY DEF MarkedAs, MarksOn
  <2>3. x # "role" => MarksOn(d, "role") = MarksOn(db, "role")
    BY <1>1
  <2>4. \A e : MarksOn(e, "role") \subseteq MarkIds
    BY DEF MarksOn
  <2> QED BY <2>1, <2>2, <2>3, <2>4 DEF Taken
<1> QED BY <1>1, <1>2

LEMMA OnPut ==
    ASSUME NEW d, NEW i \in MarkIds, NEW m, NEW x, MarkedAs(d, i, m, x), Live(m), ~Live(db["mark"][i])
    PROVE  Cardinality(MarksOn(d, x)) = Cardinality(MarksOn(db, x)) + 1
<1>1. MarksOn(d, x) = MarksOn(db, x) \cup {i} /\ i \notin MarksOn(db, x)
  BY DEF MarkedAs, MarksOn
<1>2. Cardinality(MarksOn(db, x) \cup {i}) = Cardinality(MarksOn(db, x)) + 1
  BY <1>1, FiniteMarks, FS_AddElement
<1> QED BY <1>1, <1>2, Zenon

LEMMA OnGone ==
    ASSUME NEW d, NEW i \in MarkIds, NEW m, NEW x, MarkedAs(d, i, m, x), ~Live(m), Live(db["mark"][i])
    PROVE  /\ Cardinality(MarksOn(d, x)) = Cardinality(MarksOn(db, x)) - 1
           /\ Cardinality(MarksOn(db, x)) > 0
<1>1. MarksOn(d, x) = MarksOn(db, x) \ {i} /\ i \in MarksOn(db, x)
  BY DEF MarkedAs, MarksOn
<1>2. Cardinality(MarksOn(db, x) \ {i}) = Cardinality(MarksOn(db, x)) - 1
  BY <1>1, FiniteMarks, FS_RemoveElement
<1>3. Cardinality(MarksOn(d, x)) = Cardinality(MarksOn(db, x)) - 1
  BY <1>1, <1>2, Zenon
<1>4. Cardinality(MarksOn(db, x)) # 0
  BY <1>1, FiniteMarks, FS_EmptySet
<1>5. Cardinality(MarksOn(db, x)) \in Nat
  BY FiniteMarks
<1> QED BY <1>3, <1>4, <1>5

\* What is left as it is counts as before.
LEMMA ScoredKept ==
    ASSUME NEW d, d["score"] = db["score"], \A r \in Resources : MarksOn(d, r) = MarksOn(db, r), Scored(db)
    PROVE  Scored(d)
  BY Zenon DEF Scored

LEMMA EndorsedKept ==
    ASSUME NEW d, d["listing"] = db["listing"], d["endorsement_count"] = db["endorsement_count"],
           MarksOn(d, "skill") = MarksOn(db, "skill"), Endorsed(db)
    PROVE  Endorsed(d)
  BY Zenon DEF Endorsed

LEMMA FilledKept ==
    ASSUME NEW d, d["filled"] = db["filled"], Taken(d) = Taken(db), Filled(db)
    PROVE  Filled(d)
  BY Zenon DEF Filled

\* A handler that changes one mark, with its points, and one counter.
LEMMA MarkSound ==
    ASSUME NEW s \in Sessions, NEW i \in MarkIds, NEW m, NEW p, NEW e, MarkIs(e, i, m, p), MarkFollows(i, m, p),
           NEW result \in Tables, NEW col \in CountTables, Kept(e, result, Names \ {col}),
           Begin(s, result), Good(db) => Good(result)
    PROVE  Sound(s)
<1>1. result["mark"] = e["mark"] /\ result["points"] = e["points"]
  BY DEF Kept, CountTables, Names
<1>2. Kept(db, result, VaultTables) /\ result["credits"] = db["credits"]
  BY DEF MarkIs, Kept, CountTables, MarkTables, VaultTables, Names
<1>3. MarkMoves(result, i)
  BY <1>1 DEF MarkMoves, MarkIs, MarkFollows
<1>4. \A j \in MarkIds : j # i => MarkMoves(result, j)
  BY <1>1 DEF MarkMoves, MarkIs
<1> QED BY <1>2, <1>3, <1>4, VaultStays DEF Sound, Moves

\* The counters of tables that differ from the database in one mark, its points
\* and counter col.
LEMMA CountersOf ==
    ASSUME NEW i, NEW m, NEW p, NEW e, MarkIs(e, i, m, p),
           NEW result, NEW col \in CountTables, Kept(e, result, Names \ {col})
    PROVE  /\ result["mark"][i] = m /\ \A j \in MarkIds : j # i => result["mark"][j] = db["mark"][j]
           /\ \A t \in CountTables \ {col} : result[t] = db[t]
           /\ e[col] = db[col]
<1>1. result["mark"] = e["mark"]
  BY DEF Kept, CountTables, Names
<1>2. \A t \in CountTables : e[t] = db[t]
  BY DEF MarkIs, Kept, MarkTables, CountTables, Names
<1>3. \A t \in CountTables \ {col} : result[t] = e[t]
  BY DEF Kept, CountTables, Names
<1> QED BY <1>1, <1>2, <1>3 DEF MarkIs

-----------------------------------------------------------------------------
(* Votes and endorsements.                                                 *)

LEMMA VoteResourceSound ==
    ASSUME db \in Tables, NEW s \in Sessions, NEW u \in Members, NEW r \in Resources, VoteResource(s, u, r)
    PROVE  Sound(s)
<1>1. r \in Paying /\ r # "role" /\ r # "none"
  BY TargetsDiffer DEF TargetsAre
<1>2. ASSUME NEW i \in MarkOf(r, u),
             Begin(s, [Withdrawn(db, i) EXCEPT !.score[r] = LessOne(@)])
      PROVE  Sound(s)
  <2> DEFINE e == Withdrawn(db, i)
             m == [db["mark"][i] EXCEPT !.status = "gone"]
             p == IF db["points"][i] = "paid" THEN "voided" ELSE db["points"][i]
             n == LessOne(e["score"][r])
             result == Set(e, "score", r, n)
  <2>1. i \in MarkIds /\ Live(db["mark"][i]) /\ db["mark"][i].on = r
    BY DEF MarkOf, MarksOn
  <2>2. /\ m.status = "gone" /\ m.on = r /\ m # NoMark
        /\ MarkFollows(i, m, p) /\ MarkIs(e, i, m, p)
    BY <2>1, WithdrawnIs
  <2> HIDE DEF e, m, p
  <2>3. e \in Tables /\ "score" \in CountTables
    BY <2>2 DEF MarkIs, CountTables
  <2>4. n \in Nat
    BY <2>3 DEF LessOne, Tables
  <2>5. [e EXCEPT !.score[r] = LessOne(@)] = result
    BY <2>3 DEF Set, Tables
  <2>6. result \in Tables /\ IsSet(e, result, "score", r, n)
    BY <2>3, <2>4, SetScore
  <2>7. Begin(s, result)
    BY <1>2, <2>5, Zenon DEF e
  <2> HIDE DEF result, n
  <2>8. Kept(e, result, Names \ {"score"})
    BY <2>6 DEF IsSet
  <2>9. /\ result["mark"][i] = m /\ \A j \in MarkIds : j # i => result["mark"][j] = db["mark"][j]
        /\ \A t \in CountTables \ {"score"} : result[t] = db[t]
        /\ e["score"] = db["score"]
    BY <2>2, <2>3, <2>8, CountersOf
  <2>10. MarkedAs(result, i, m, r) /\ ~Live(m)
    BY <2>1, <2>2, <2>9 DEF MarkedAs, Live
  <2>11. /\ \A y : y # r => MarksOn(result, y) = MarksOn(db, y)
         /\ Taken(result) = Taken(db)
         /\ Cardinality(MarksOn(result, r)) = Cardinality(MarksOn(db, r)) - 1
         /\ Cardinality(MarksOn(db, r)) > 0 /\ Cardinality(MarksOn(db, r)) \in Nat
    BY <1>1, <2>1, <2>10, OnOthers, OnGone, FiniteMarks
  <2>12. /\ result["score"][r] = LessOne(db["score"][r])
         /\ \A j \in Resources : j # r => result["score"][j] = db["score"][j]
    BY <2>3, <2>6, <2>9 DEF IsSet, n, Tables
  <2>13. ASSUME Good(db) PROVE Good(result)
    <3>1. \A q \in Resources : db["score"][q] = Cardinality(MarksOn(db, q))
      BY <2>13 DEF Good, Scored
    <3>2. result["score"][r] = Cardinality(MarksOn(result, r))
      BY <2>11, <2>12, <3>1 DEF LessOne
    <3>3. ASSUME NEW q \in Resources, q # r PROVE result["score"][q] = Cardinality(MarksOn(result, q))
      <4>1. MarksOn(result, q) = MarksOn(db, q)
        BY <2>11, <3>3
      <4>2. Cardinality(MarksOn(result, q)) = Cardinality(MarksOn(db, q))
        BY <4>1, Zenon
      <4> QED BY <2>12, <3>1, <3>3, <4>2
    <3>4. Scored(result)
      BY <3>2, <3>3 DEF Scored
    <3>5. MarksOn(result, "skill") = MarksOn(db, "skill")
      BY <2>11, TargetsDiffer DEF TargetsAre
    <3>6. /\ result["listing"] = db["listing"] /\ result["endorsement_count"] = db["endorsement_count"]
          /\ result["filled"] = db["filled"]
      BY <2>9 DEF CountTables
    <3>7. Endorsed(db) /\ Filled(db)
      BY <2>13 DEF Good
    <3>8. Endorsed(result)
      BY <3>5, <3>6, <3>7, EndorsedKept, Zenon
    <3>9. Filled(result)
      BY <2>11, <3>6, <3>7, FilledKept, Zenon
    <3> QED BY <3>4, <3>8, <3>9 DEF Good
  <2> QED BY <2>1, <2>2, <2>3, <2>6, <2>7, <2>8, <2>13, MarkSound
<1>3. ASSUME NEW i \in NextId("mark", NoMark),
             Begin(s, [Paid(Put(i, r, u, "put"), i) EXCEPT !.score[r] = @ + 1])
      PROVE  Sound(s)
  <2> DEFINE e == Paid(Put(i, r, u, "put"), i)
             m == [on |-> r, by |-> u, status |-> "put"]
             n == e["score"][r] + 1
             result == Set(e, "score", r, n)
  <2>1. i \in MarkIds /\ db["mark"][i] = NoMark
    BY NextIdFree DEF Tables
  <2>2. MarkFollows(i, m, "paid") /\ MarkIs(e, i, m, "paid")
    BY <1>1, PaidPutIs
  <2>0. m.status = "put" /\ m.on = r /\ m # NoMark
    BY <1>1 DEF NoMark
  <2> HIDE DEF e, m
  <2>3. e \in Tables /\ "score" \in CountTables
    BY <2>2 DEF MarkIs, CountTables
  <2>4. n \in Nat
    BY <2>3 DEF Tables
  <2>5. [e EXCEPT !.score[r] = @ + 1] = result
    BY <2>3 DEF Set, Tables
  <2>6. result \in Tables /\ IsSet(e, result, "score", r, n)
    BY <2>3, <2>4, SetScore
  <2>7. Begin(s, result)
    BY <1>3, <2>5, Zenon DEF e
  <2> HIDE DEF result, n
  <2>8. Kept(e, result, Names \ {"score"})
    BY <2>6 DEF IsSet
  <2>9. /\ result["mark"][i] = m /\ \A j \in MarkIds : j # i => result["mark"][j] = db["mark"][j]
        /\ \A t \in CountTables \ {"score"} : result[t] = db[t]
        /\ e["score"] = db["score"]
    BY <2>2, <2>3, <2>8, CountersOf
  <2>10. MarkedAs(result, i, m, r) /\ Live(m) /\ ~Live(db["mark"][i])
    BY <2>0, <2>1, <2>9 DEF MarkedAs, Live
  <2>11. /\ \A y : y # r => MarksOn(result, y) = MarksOn(db, y)
         /\ Taken(result) = Taken(db)
         /\ Cardinality(MarksOn(result, r)) = Cardinality(MarksOn(db, r)) + 1
         /\ Cardinality(MarksOn(db, r)) \in Nat
    BY <1>1, <2>1, <2>10, OnOthers, OnPut, FiniteMarks
  <2>12. /\ result["score"][r] = db["score"][r] + 1
         /\ \A j \in Resources : j # r => result["score"][j] = db["score"][j]
    BY <2>3, <2>6, <2>9 DEF IsSet, n, Tables
  <2>13. ASSUME Good(db) PROVE Good(result)
    <3>1. \A q \in Resources : db["score"][q] = Cardinality(MarksOn(db, q))
      BY <2>13 DEF Good, Scored
    <3>2. result["score"][r] = Cardinality(MarksOn(result, r))
      BY <2>11, <2>12, <3>1 DEF LessOne
    <3>3. ASSUME NEW q \in Resources, q # r PROVE result["score"][q] = Cardinality(MarksOn(result, q))
      <4>1. MarksOn(result, q) = MarksOn(db, q)
        BY <2>11, <3>3
      <4>2. Cardinality(MarksOn(result, q)) = Cardinality(MarksOn(db, q))
        BY <4>1, Zenon
      <4> QED BY <2>12, <3>1, <3>3, <4>2
    <3>4. Scored(result)
      BY <3>2, <3>3 DEF Scored
    <3>5. MarksOn(result, "skill") = MarksOn(db, "skill")
      BY <2>11, TargetsDiffer DEF TargetsAre
    <3>6. /\ result["listing"] = db["listing"] /\ result["endorsement_count"] = db["endorsement_count"]
          /\ result["filled"] = db["filled"]
      BY <2>9 DEF CountTables
    <3>7. Endorsed(db) /\ Filled(db)
      BY <2>13 DEF Good
    <3>8. Endorsed(result)
      BY <3>5, <3>6, <3>7, EndorsedKept, Zenon
    <3>9. Filled(result)
      BY <2>11, <3>6, <3>7, FilledKept, Zenon
    <3> QED BY <3>4, <3>8, <3>9 DEF Good
  <2> QED BY <2>1, <2>2, <2>3, <2>6, <2>7, <2>8, <2>13, MarkSound
<1> QED BY <1>2, <1>3, Zenon DEF VoteResource

LEMMA EndorsedOnceSound ==
    ASSUME db \in Tables, NEW s \in Sessions, NEW u \in Members, NEW k \in Listings,
           db["listing"][k] = "listed",
           \/ \E i \in MarkOf("skill", u) :
                  Begin(s, [Withdrawn(db, i) EXCEPT !.endorsement_count[k] = LessOne(@)])
           \/ \E i \in NextId("mark", NoMark) :
                  Begin(s, [Paid(Put(i, "skill", u, "put"), i) EXCEPT !.endorsement_count[k] = @ + 1])
    PROVE  Sound(s)
<1>0. db["listing"][k] = "listed"
  OBVIOUS
<1>1. "skill" \in Paying /\ "skill" # "role" /\ "skill" # "none"
  BY TargetsDiffer DEF TargetsAre
<1>2. ASSUME NEW i \in MarkOf("skill", u),
             Begin(s, [Withdrawn(db, i) EXCEPT !.endorsement_count[k] = LessOne(@)])
      PROVE  Sound(s)
  <2> DEFINE e == Withdrawn(db, i)
             m == [db["mark"][i] EXCEPT !.status = "gone"]
             p == IF db["points"][i] = "paid" THEN "voided" ELSE db["points"][i]
             n == LessOne(e["endorsement_count"][k])
             result == Set(e, "endorsement_count", k, n)
  <2>1. i \in MarkIds /\ Live(db["mark"][i]) /\ db["mark"][i].on = "skill"
    BY DEF MarkOf, MarksOn
  <2>2. /\ m.status = "gone" /\ m.on = "skill" /\ m # NoMark
        /\ MarkFollows(i, m, p) /\ MarkIs(e, i, m, p)
    BY <2>1, WithdrawnIs
  <2> HIDE DEF e, m, p
  <2>3. e \in Tables /\ "endorsement_count" \in CountTables
    BY <2>2 DEF MarkIs, CountTables
  <2>4. n \in Nat
    BY <2>3 DEF LessOne, Tables
  <2>5. [e EXCEPT !.endorsement_count[k] = LessOne(@)] = result
    BY <2>3 DEF Set, Tables
  <2>6. result \in Tables /\ IsSet(e, result, "endorsement_count", k, n)
    BY <2>3, <2>4, SetCount
  <2>7. Begin(s, result)
    BY <1>2, <2>5, Zenon DEF e
  <2> HIDE DEF result, n
  <2>8. Kept(e, result, Names \ {"endorsement_count"})
    BY <2>6 DEF IsSet
  <2>9. /\ result["mark"][i] = m /\ \A j \in MarkIds : j # i => result["mark"][j] = db["mark"][j]
        /\ \A t \in CountTables \ {"endorsement_count"} : result[t] = db[t]
        /\ e["endorsement_count"] = db["endorsement_count"]
    BY <2>2, <2>3, <2>8, CountersOf
  <2>10. MarkedAs(result, i, m, "skill") /\ ~Live(m)
    BY <2>1, <2>2, <2>9 DEF MarkedAs, Live
  <2>11. /\ \A y : y # "skill" => MarksOn(result, y) = MarksOn(db, y)
         /\ Taken(result) = Taken(db)
         /\ Cardinality(MarksOn(result, "skill")) = Cardinality(MarksOn(db, "skill")) - 1
         /\ Cardinality(MarksOn(db, "skill")) > 0 /\ Cardinality(MarksOn(db, "skill")) \in Nat
    BY <1>1, <2>1, <2>10, OnOthers, OnGone, FiniteMarks
  <2>12. /\ result["endorsement_count"][k] = LessOne(db["endorsement_count"][k])
         /\ \A j \in Listings : j # k => result["endorsement_count"][j] = db["endorsement_count"][j]
    BY <2>3, <2>6, <2>9 DEF IsSet, n, Tables
  <2>13. ASSUME Good(db) PROVE Good(result)
    <3>1. /\ \A j \in Listings : db["listing"][j] = "listed" => j = k
          /\ db["endorsement_count"][k] <= Cardinality(MarksOn(db, "skill"))
          /\ \A j \in Listings : db["listing"][j] = "none" => db["endorsement_count"][j] = 0
      BY <1>0, <2>13 DEF Good, Endorsed
    <3>2. result["listing"] = db["listing"] /\ result["score"] = db["score"] /\ result["filled"] = db["filled"]
      BY <2>9 DEF CountTables
    <3>3. result["endorsement_count"][k] <= Cardinality(MarksOn(result, "skill"))
      <4>1. db["endorsement_count"][k] \in Nat
        BY DEF Tables
      <4> QED BY <2>11, <2>12, <3>1, <4>1 DEF LessOne
    <3>4. Endorsed(result)
      BY <1>0, <2>12, <3>1, <3>2, <3>3 DEF Endorsed
    <3>5. \A r \in Resources : MarksOn(result, r) = MarksOn(db, r)
      BY <2>11, TargetsDiffer DEF TargetsAre
    <3>6. Scored(db) /\ Filled(db)
      BY <2>13 DEF Good
    <3>7. Scored(result)
      BY <3>2, <3>5, <3>6, ScoredKept, Zenon
    <3>8. Filled(result)
      BY <2>11, <3>2, <3>6, FilledKept, Zenon
    <3> QED BY <3>4, <3>7, <3>8 DEF Good
  <2> QED BY <2>1, <2>2, <2>3, <2>6, <2>7, <2>8, <2>13, MarkSound
<1>3. ASSUME NEW i \in NextId("mark", NoMark),
             Begin(s, [Paid(Put(i, "skill", u, "put"), i) EXCEPT !.endorsement_count[k] = @ + 1])
      PROVE  Sound(s)
  <2> DEFINE e == Paid(Put(i, "skill", u, "put"), i)
             m == [on |-> "skill", by |-> u, status |-> "put"]
             n == e["endorsement_count"][k] + 1
             result == Set(e, "endorsement_count", k, n)
  <2>1. i \in MarkIds /\ db["mark"][i] = NoMark
    BY NextIdFree DEF Tables
  <2>2. MarkFollows(i, m, "paid") /\ MarkIs(e, i, m, "paid")
    BY <1>1, PaidPutIs
  <2>0. m.status = "put" /\ m.on = "skill" /\ m # NoMark
    BY <1>1 DEF NoMark
  <2> HIDE DEF e, m
  <2>3. e \in Tables /\ "endorsement_count" \in CountTables
    BY <2>2 DEF MarkIs, CountTables
  <2>4. n \in Nat
    BY <2>3 DEF Tables
  <2>5. [e EXCEPT !.endorsement_count[k] = @ + 1] = result
    BY <2>3 DEF Set, Tables
  <2>6. result \in Tables /\ IsSet(e, result, "endorsement_count", k, n)
    BY <2>3, <2>4, SetCount
  <2>7. Begin(s, result)
    BY <1>3, <2>5, Zenon DEF e
  <2> HIDE DEF result, n
  <2>8. Kept(e, result, Names \ {"endorsement_count"})
    BY <2>6 DEF IsSet
  <2>9. /\ result["mark"][i] = m /\ \A j \in MarkIds : j # i => result["mark"][j] = db["mark"][j]
        /\ \A t \in CountTables \ {"endorsement_count"} : result[t] = db[t]
        /\ e["endorsement_count"] = db["endorsement_count"]
    BY <2>2, <2>3, <2>8, CountersOf
  <2>10. MarkedAs(result, i, m, "skill") /\ Live(m) /\ ~Live(db["mark"][i])
    BY <2>0, <2>1, <2>9 DEF MarkedAs, Live
  <2>11. /\ \A y : y # "skill" => MarksOn(result, y) = MarksOn(db, y)
         /\ Taken(result) = Taken(db)
         /\ Cardinality(MarksOn(result, "skill")) = Cardinality(MarksOn(db, "skill")) + 1
         /\ Cardinality(MarksOn(db, "skill")) \in Nat
    BY <1>1, <2>1, <2>10, OnOthers, OnPut, FiniteMarks
  <2>12. /\ result["endorsement_count"][k] = db["endorsement_count"][k] + 1
         /\ \A j \in Listings : j # k => result["endorsement_count"][j] = db["endorsement_count"][j]
    BY <2>3, <2>6, <2>9 DEF IsSet, n, Tables
  <2>13. ASSUME Good(db) PROVE Good(result)
    <3>1. /\ \A j \in Listings : db["listing"][j] = "listed" => j = k
          /\ db["endorsement_count"][k] <= Cardinality(MarksOn(db, "skill"))
          /\ \A j \in Listings : db["listing"][j] = "none" => db["endorsement_count"][j] = 0
      BY <1>0, <2>13 DEF Good, Endorsed
    <3>2. result["listing"] = db["listing"] /\ result["score"] = db["score"] /\ result["filled"] = db["filled"]
      BY <2>9 DEF CountTables
    <3>3. result["endorsement_count"][k] <= Cardinality(MarksOn(result, "skill"))
      <4>1. db["endorsement_count"][k] \in Nat
        BY DEF Tables
      <4> QED BY <2>11, <2>12, <3>1, <4>1 DEF LessOne
    <3>4. Endorsed(result)
      BY <1>0, <2>12, <3>1, <3>2, <3>3 DEF Endorsed
    <3>5. \A r \in Resources : MarksOn(result, r) = MarksOn(db, r)
      BY <2>11, TargetsDiffer DEF TargetsAre
    <3>6. Scored(db) /\ Filled(db)
      BY <2>13 DEF Good
    <3>7. Scored(result)
      BY <3>2, <3>5, <3>6, ScoredKept, Zenon
    <3>8. Filled(result)
      BY <2>11, <3>2, <3>6, FilledKept, Zenon
    <3> QED BY <3>4, <3>7, <3>8 DEF Good
  <2> QED BY <2>1, <2>2, <2>3, <2>6, <2>7, <2>8, <2>13, MarkSound
<1> QED BY <1>2, <1>3

LEMMA EndorseSound ==
    ASSUME db \in Tables, NEW s \in Sessions, NEW u \in Members, Endorse(s, u)
    PROVE  Sound(s)
<1>1. PICK k \in Listed :
          \/ \E i \in MarkOf("skill", u) :
                 Begin(s, [Withdrawn(db, i) EXCEPT !.endorsement_count[k] = LessOne(@)])
          \/ \E i \in NextId("mark", NoMark) :
                 Begin(s, [Paid(Put(i, "skill", u, "put"), i) EXCEPT !.endorsement_count[k] = @ + 1])
  BY Zenon DEF Endorse
<1>2. k \in Listings /\ db["listing"][k] = "listed"
  BY DEF Listed
<1> QED BY <1>1, <1>2, EndorsedOnceSound

-----------------------------------------------------------------------------
(* Followers and the skill.                                                *)

\* A mark nothing counts: a follow, or an application that names no role.
LEMMA FollowSound ==
    ASSUME NEW s \in Sessions, NEW i \in MarkIds, NEW m, NEW p, NEW e, MarkIs(e, i, m, p), MarkFollows(i, m, p),
           NEW x \in {"owner", "project"}, Live(m) => m.on = x, Live(db["mark"][i]) => db["mark"][i].on = x,
           Begin(s, e)
    PROVE  Sound(s)
<1>1. e \in Tables /\ Kept(e, e, Names \ {"score"}) /\ "score" \in CountTables
  BY DEF MarkIs, Kept, CountTables
<1>2. MarkedAs(e, i, m, x)
  BY DEF MarkIs, MarkedAs
<1>3. /\ \A y : y # x => MarksOn(e, y) = MarksOn(db, y)
      /\ Taken(e) = Taken(db)
  BY <1>2, OnOthers
<1>4. /\ e["score"] = db["score"] /\ e["listing"] = db["listing"]
      /\ e["endorsement_count"] = db["endorsement_count"] /\ e["filled"] = db["filled"]
  BY DEF MarkIs, Kept, MarkTables, Names
<1>5. MarksOn(e, "skill") = MarksOn(db, "skill") /\ \A r \in Resources : MarksOn(e, r) = MarksOn(db, r)
  BY <1>3, TargetsDiffer DEF TargetsAre
<1>6. ASSUME Good(db) PROVE Good(e)
  <2>1. Scored(db) /\ Endorsed(db) /\ Filled(db)
    BY <1>6 DEF Good
  <2>2. Scored(e)
    BY <1>4, <1>5, <2>1, ScoredKept, Zenon
  <2>3. Endorsed(e)
    BY <1>4, <1>5, <2>1, EndorsedKept, Zenon
  <2>4. Filled(e)
    BY <1>3, <1>4, <2>1, FilledKept, Zenon
  <2> QED BY <2>2, <2>3, <2>4 DEF Good
<1> QED BY <1>1, <1>6, MarkSound

LEMMA UnfollowSound ==
    ASSUME db \in Tables, NEW s \in Sessions, NEW i \in MarkIds, Live(db["mark"][i]),
           db["mark"][i].on = "owner", Begin(s, Withdrawn(db, i))
    PROVE  Sound(s)
<1> DEFINE e == Withdrawn(db, i)
           m == [db["mark"][i] EXCEPT !.status = "gone"]
           p == IF db["points"][i] = "paid" THEN "voided" ELSE db["points"][i]
<1>1. m.status = "gone" /\ m.on = "owner" /\ MarkFollows(i, m, p) /\ MarkIs(e, i, m, p)
  BY WithdrawnIs
<1>2. Begin(s, e)
  OBVIOUS
<1> HIDE DEF e, m, p
<1> QED BY <1>1, <1>2, FollowSound

LEMMA ToggleFollowSound ==
    ASSUME db \in Tables, NEW s \in Sessions, NEW u \in Members, ToggleFollow(s, u)
    PROVE  Sound(s)
<1>1. CASE \E i \in MarkOf("owner", u) : Begin(s, Withdrawn(db, i))
  BY <1>1, UnfollowSound DEF MarkOf, MarksOn
<1>2. ASSUME NEW i \in NextId("mark", NoMark), Begin(s, Put(i, "owner", u, "pending")) PROVE Sound(s)
  <2> DEFINE e == Put(i, "owner", u, "pending")
             m == [on |-> "owner", by |-> u, status |-> "pending"]
             p == db["points"][i]
  <2>1. i \in MarkIds /\ db["mark"][i] = NoMark
    BY NextIdFree DEF Tables
  <2>2. m.on = "owner" /\ MarkFollows(i, m, p) /\ MarkIs(e, i, m, p)
    BY PutIs
  <2>3. Begin(s, e) /\ ~Live(db["mark"][i])
    BY <1>2, <2>1 DEF Live
  <2> HIDE DEF e, m, p
  <2> QED BY <2>1, <2>2, <2>3, FollowSound
<1> QED BY <1>1, <1>2, Zenon DEF ToggleFollow

LEMMA FollowersSound ==
    ASSUME db \in Tables, MarksPaid, NEW s \in Sessions, NEW i \in MarkIds, DecideFollow(s, i) \/ RemoveFollower(s, i)
    PROVE  Sound(s)
<1>1. Live(db["mark"][i]) /\ db["mark"][i].on = "owner"
  BY DEF DecideFollow, RemoveFollower, MarksOn
<1>2. CASE Begin(s, Withdrawn(db, i))
  BY <1>1, <1>2, UnfollowSound
<1>3. CASE Begin(s, [db EXCEPT !.mark[i].status = "accepted"])
  <2> DEFINE m == [db["mark"][i] EXCEPT !.status = "accepted"]
             e == Set(db, "mark", i, m)
             p == db["points"][i]
  <2>1. /\ m.on = "owner" /\ MarkFollows(i, m, p) /\ MarkIs(e, i, m, p)
        /\ [db EXCEPT !.mark[i].status = "accepted"] = e
    BY <1>1, AnsweredIs
  <2>2. Begin(s, e)
    BY <1>3, <2>1
  <2> HIDE DEF e, m, p
  <2> QED BY <1>1, <2>1, <2>2, FollowSound
<1> QED BY <1>2, <1>3, Zenon DEF DecideFollow, RemoveFollower

LEMMA SkillSound ==
    ASSUME db \in Tables, NEW s \in Sessions, AddSkill(s) \/ RemoveSkill(s)
    PROVE  Sound(s)
<1>1. PICK k \in Listings, state \in {"listed", "gone"} :
          /\ Begin(s, [db EXCEPT !.listing[k] = state])
          /\ state = "listed" => db["listing"][k] = "none" /\ Listed = {}
  <2>1. CASE AddSkill(s)
    <3>1. PICK k \in NextId("listing", "none") : Begin(s, [db EXCEPT !.listing[k] = "listed"])
      BY <2>1, Zenon DEF AddSkill
    <3>2. k \in Listings /\ db["listing"][k] = "none"
      BY <3>1, NextIdFree DEF Tables
    <3>3. Listed = {}
      BY <2>1, Zenon DEF AddSkill
    <3> QED BY <3>1, <3>2, <3>3
  <2>2. CASE RemoveSkill(s)
    <3>1. PICK k \in Listed : Begin(s, [db EXCEPT !.listing[k] = "gone"])
      BY <2>2, Zenon DEF RemoveSkill
    <3>2. k \in Listings
      BY DEF Listed
    <3> QED BY <3>1, <3>2
  <2> QED BY <2>1, <2>2
<1> DEFINE result == Set(db, "listing", k, state)
<1>2. state \in {"none", "listed", "gone"}
  OBVIOUS
<1>3. /\ [db EXCEPT !.listing[k] = state] = result
      /\ result \in Tables /\ IsSet(db, result, "listing", k, state) /\ DOMAIN db["listing"] = Listings
  <2>1. DOMAIN db["listing"] = Listings
    BY DEF Tables
  <2> QED BY <1>2, <2>1, SetListing
<1>4. Begin(s, result)
  BY <1>1, <1>3
<1> HIDE DEF result
<1>5. /\ Kept(db, result, MarkTables) /\ Kept(db, result, VaultTables) /\ result["credits"] = db["credits"]
      /\ result["mark"] = db["mark"] /\ result["score"] = db["score"] /\ result["filled"] = db["filled"]
      /\ result["endorsement_count"] = db["endorsement_count"]
  BY <1>3 DEF IsSet, Kept, MarkTables, VaultTables, Names
<1>6. ASSUME Good(db) PROVE Good(result)
  <2>1. \A x : MarksOn(result, x) = MarksOn(db, x)
    BY <1>5 DEF MarksOn
  <2>2. Taken(result) = Taken(db)
    BY <1>5, <2>1 DEF Taken
  <2>3. Scored(db) /\ Endorsed(db) /\ Filled(db)
    BY <1>6 DEF Good
  <2>4. Scored(result)
    BY <1>5, <2>1, <2>3, ScoredKept, Zenon
  <2>5. Filled(result)
    BY <1>5, <2>2, <2>3, FilledKept, Zenon
  <2>6. Endorsed(result)
    <3>1. Cardinality(MarksOn(result, "skill")) = Cardinality(MarksOn(db, "skill"))
      BY <2>1, Zenon
    <3>2. result["listing"][k] = state /\ \A j \in Listings : j # k => result["listing"][j] = db["listing"][j]
      BY <1>3 DEF IsSet
    <3>3. CASE state = "gone"
      BY <1>5, <2>3, <3>1, <3>2, <3>3 DEF Endorsed
    <3>4. CASE state = "listed"
      <4>1. \A j \in Listings : db["listing"][j] # "listed"
        BY <1>1, <3>4 DEF Listed
      <4>2. db["endorsement_count"][k] = 0
        BY <1>1, <2>3, <3>4 DEF Endorsed
      <4>3. 0 <= Cardinality(MarksOn(result, "skill"))
        BY FiniteMarks
      <4> QED BY <1>5, <2>3, <3>2, <3>4, <4>1, <4>2, <4>3 DEF Endorsed
    <3> QED BY <3>3, <3>4
  <2> QED BY <2>4, <2>5, <2>6 DEF Good
<1> QED BY <1>3, <1>4, <1>5, <1>6, MarksStay, VaultStays DEF Sound, Moves

-----------------------------------------------------------------------------
(* Applications for the role.                                              *)

\* The slots filled keep up with the applicants accepted.
LEMMA RoleSound ==
    ASSUME NEW s \in Sessions, NEW i \in MarkIds, NEW m, NEW p, NEW e, MarkIs(e, i, m, p), MarkFollows(i, m, p),
           m.on = "role", Live(db["mark"][i]) => db["mark"][i].on = "role",
           NEW result \in Tables, Kept(e, result, Names \ {"filled"}), Begin(s, result),
           Filled(db) => Filled(result)
    PROVE  Sound(s)
<1>1. "filled" \in CountTables
  BY DEF CountTables
<1>2. /\ result["mark"][i] = m /\ \A j \in MarkIds : j # i => result["mark"][j] = db["mark"][j]
      /\ \A t \in CountTables \ {"filled"} : result[t] = db[t]
  BY <1>1, CountersOf
<1>3. MarkedAs(result, i, m, "role")
  BY <1>2 DEF MarkedAs
<1>4. MarksOn(result, "skill") = MarksOn(db, "skill") /\ \A r \in Resources : MarksOn(result, r) = MarksOn(db, r)
  BY <1>3, OnOthers, TargetsDiffer DEF TargetsAre
<1>5. /\ result["score"] = db["score"] /\ result["listing"] = db["listing"]
      /\ result["endorsement_count"] = db["endorsement_count"]
  BY <1>2 DEF CountTables
<1>6. ASSUME Good(db) PROVE Good(result)
  <2>1. Scored(db) /\ Endorsed(db) /\ Filled(db)
    BY <1>6 DEF Good
  <2>2. Scored(result)
    BY <1>4, <1>5, <2>1, ScoredKept, Zenon
  <2>3. Endorsed(result)
    BY <1>4, <1>5, <2>1, EndorsedKept, Zenon
  <2> QED BY <2>1, <2>2, <2>3 DEF Good
<1> QED BY <1>1, <1>6, MarkSound

\* Of the applicants accepted, at most i is new.
LEMMA TakenOf ==
    ASSUME NEW d, NEW i \in MarkIds, NEW m, MarkedAs(d, i, m, "role")
    PROVE  /\ Cardinality(Taken(d)) <= Cardinality(Taken(db)) + 1
           /\ m.status # "accepted" => Cardinality(Taken(d)) <= Cardinality(Taken(db))
<1>1. Taken(d) \subseteq Taken(db) \cup {i} /\ (m.status # "accepted" => Taken(d) \subseteq Taken(db))
  BY DEF Taken, MarksOn, MarkedAs
<1>2. IsFiniteSet(Taken(db)) /\ Cardinality(Taken(db)) \in Nat /\ Cardinality(Taken(d)) \in Nat
  BY FiniteMarks
<1>3. /\ IsFiniteSet(Taken(db) \cup {i})
      /\ Cardinality(Taken(db) \cup {i}) = IF i \in Taken(db) THEN Cardinality(Taken(db)) ELSE Cardinality(Taken(db)) + 1
  BY <1>2, FS_AddElement
<1>4. Cardinality(Taken(d)) <= Cardinality(Taken(db) \cup {i})
  BY <1>1, <1>3, FS_Subset
<1>5. m.status # "accepted" => Cardinality(Taken(d)) <= Cardinality(Taken(db))
  BY <1>1, <1>2, FS_Subset
<1> QED BY <1>2, <1>3, <1>4, <1>5

\* Whoever applies or is declined takes no slot.
LEMMA NoSlotSound ==
    ASSUME db \in Tables, NEW s \in Sessions, NEW i \in MarkIds, NEW m, NEW p, NEW e,
           MarkIs(e, i, m, p), MarkFollows(i, m, p),
           m.on = "role", m.status # "accepted", Live(db["mark"][i]) => db["mark"][i].on = "role",
           Begin(s, e)
    PROVE  Sound(s)
<1>1. e \in Tables /\ Kept(e, e, Names \ {"filled"}) /\ e["filled"] = db["filled"] /\ MarkedAs(e, i, m, "role")
  BY DEF MarkIs, Kept, MarkTables, Names, MarkedAs
<1>2. Filled(db) => Filled(e)
  <2>1. Cardinality(Taken(e)) <= Cardinality(Taken(db)) /\ Cardinality(Taken(e)) \in Nat /\ Cardinality(Taken(db)) \in Nat
    BY <1>1, TakenOf, FiniteMarks
  <2>2. db["filled"]["role"] \in Int
    BY DEF Tables
  <2> QED BY <1>1, <2>1, <2>2 DEF Filled
<1> QED BY <1>1, <1>2, RoleSound

LEMMA ApplySound ==
    ASSUME db \in Tables, NEW s \in Sessions, NEW u \in Members, Apply(s, u)
    PROVE  Sound(s)
<1>1. PICK target \in {"role", "project"}, i \in NextId("mark", NoMark) : Begin(s, Put(i, target, u, "pending"))
  BY Zenon DEF Apply
<1> DEFINE e == Put(i, target, u, "pending")
           m == [on |-> target, by |-> u, status |-> "pending"]
           p == db["points"][i]
<1>2. i \in MarkIds /\ ~Live(db["mark"][i])
  BY NextIdFree DEF Tables, Live
<1>3. m.on = target /\ m.status # "accepted" /\ MarkFollows(i, m, p) /\ MarkIs(e, i, m, p)
  BY PutIs
<1>4. Begin(s, e)
  BY <1>1
<1> HIDE DEF e, m, p
<1>5. CASE target = "role"
  BY <1>2, <1>3, <1>4, <1>5, NoSlotSound
<1>6. CASE target = "project"
  BY <1>2, <1>3, <1>4, <1>6, FollowSound
<1> QED BY <1>5, <1>6

LEMMA DecideApplicationSound ==
    ASSUME db \in Tables, MarksPaid, NEW s \in Sessions, NEW i \in MarkIds, DecideApplication(s, i)
    PROVE  Sound(s)
<1>1. /\ Live(db["mark"][i]) /\ db["mark"][i].on \in {"role", "project"}
      /\ \/ \E status \in {"accepted", "declined"} :
                 /\ status = "declined" \/ db["mark"][i].on = "project"
                 /\ Begin(s, [db EXCEPT !.mark[i].status = status])
         \/ /\ db["mark"][i].on = "role"
            /\ Begin(s, [db EXCEPT !.mark[i].status = "accepted",
                                   !.filled["role"] = IF @ < Slots THEN @ + 1 ELSE Slots])
  BY DEF DecideApplication, MarksOn
\* No role, or no slot of it.
<1>2. ASSUME NEW status \in {"accepted", "declined"}, status = "declined" \/ db["mark"][i].on = "project",
             Begin(s, [db EXCEPT !.mark[i].status = status])
      PROVE  Sound(s)
  <2> DEFINE m == [db["mark"][i] EXCEPT !.status = status]
             e == Set(db, "mark", i, m)
             p == db["points"][i]
  <2>1. /\ m.on = db["mark"][i].on /\ m.status = status /\ MarkFollows(i, m, p) /\ MarkIs(e, i, m, p)
        /\ [db EXCEPT !.mark[i].status = status] = e
    BY <1>1, AnsweredIs
  <2>2. Begin(s, e)
    BY <1>2, <2>1
  <2> HIDE DEF e, m, p
  <2>3. CASE db["mark"][i].on = "role"
    BY <1>2, <2>1, <2>2, <2>3, NoSlotSound
  <2>4. CASE db["mark"][i].on = "project"
    BY <2>1, <2>2, <2>4, FollowSound
  <2> QED BY <1>1, <2>3, <2>4
<1>3. ASSUME db["mark"][i].on = "role",
             Begin(s, [db EXCEPT !.mark[i].status = "accepted",
                                 !.filled["role"] = IF @ < Slots THEN @ + 1 ELSE Slots])
      PROVE  Sound(s)
  <2> DEFINE m == [db["mark"][i] EXCEPT !.status = "accepted"]
             e == Set(db, "mark", i, m)
             p == db["points"][i]
             n == IF db["filled"]["role"] < Slots THEN db["filled"]["role"] + 1 ELSE Slots
             result == Set(e, "filled", "role", n)
  <2>1. m.on = "role" /\ MarkFollows(i, m, p) /\ MarkIs(e, i, m, p)
    BY <1>1, <1>3, AnsweredIs
  <2>2. [db EXCEPT !.mark[i].status = "accepted",
                   !.filled["role"] = IF @ < Slots THEN @ + 1 ELSE Slots] = result
    BY DEF Tables, Set
  <2>3. Begin(s, result)
    BY <1>3, <2>2, Zenon
  <2> HIDE DEF e, m, p
  <2>4. e \in Tables /\ e["filled"] = db["filled"]
    BY <2>1 DEF MarkIs, Kept, MarkTables, Names
  <2>5. db["filled"]["role"] \in 0..Slots /\ Slots \in Nat /\ n \in 0..Slots
    BY WorkshopAssumption DEF Tables
  <2>6. result \in Tables /\ IsSet(e, result, "filled", "role", n)
    BY <2>4, <2>5, SetFilled
  <2> HIDE DEF result
  <2>7. Kept(e, result, Names \ {"filled"}) /\ result["filled"]["role"] = n
    BY <2>6 DEF IsSet
  <2>8. MarkedAs(result, i, m, "role")
    BY <1>1, <1>3, <2>1, <2>7 DEF MarkedAs, MarkIs, Kept, Names
  <2>9. Filled(db) => Filled(result)
    <3>1. Cardinality(Taken(result)) <= Cardinality(Taken(db)) + 1 /\ Cardinality(Taken(result)) \in Nat
          /\ Cardinality(Taken(db)) \in Nat
      BY <2>8, TakenOf, FiniteMarks
    <3> QED BY <2>5, <2>7, <3>1 DEF Filled
  <2> QED BY <1>1, <1>3, <2>1, <2>3, <2>6, <2>7, <2>9, RoleSound
<1> QED BY <1>1, <1>2, <1>3, Zenon

\* Every handler.
LEMMA HandlersSound ==
    ASSUME db \in Tables, MarksPaid, OpenHidden, NEW s \in Sessions, Vault(s) \/ Profile(s) \/ Boards(s)
    PROVE  Sound(s)
<1>1. CASE Vault(s)
  BY <1>1, UploadSound, TakedownSound, VoteResourceSound, DecideTakedownSound DEF Vault
<1>2. CASE Profile(s)
  BY <1>2, SkillSound, BoardsSound, EndorseSound, ToggleFollowSound, FollowersSound
     DEF Profile, AddSkillByApi, RemoveSkillByApi
<1>3. CASE Boards(s)
  BY <1>3, BoardsSound, ResolveSound, ApplySound, DecideApplicationSound DEF Boards
<1> QED BY <1>1, <1>2, <1>3

-----------------------------------------------------------------------------
(* The invariant.                                                          *)

TypedInv ==
    /\ SessionsTyped
    /\ db \in Tables
    /\ \A s \in Sessions : \A c \in session[s] : Typed(c, Tables)
    /\ \A s \in Sessions : \A c \in session[s] : c[1] = "credits" => c[4] = c[3] + 1
    /\ overlapped \in BOOLEAN

\* As long as no two requests have overlapped, the counters are right and so are
\* those the one open session will leave.
SerialInv ==
    /\ Alone
    /\ ~overlapped => Good(db) /\ \A s \in Open : Good(After(s))

IInv ==
    /\ TypedInv /\ Single
    /\ MarksPaid /\ MarksWritten
    /\ OpenHidden /\ VaultWritten
    /\ SerialInv

LEMMA TablesShaped ==
    ASSUME NEW d \in Tables, db \in Tables
    PROVE  Shaped(d)
  BY DEF Tables, Shaped

LEMMA TableRows ==
    ASSUME db \in Tables
    PROVE  /\ DOMAIN db = Names
           /\ DOMAIN db["mark"] = MarkIds /\ DOMAIN db["points"] = MarkIds
           /\ DOMAIN db["takedown"] = Takedowns
           /\ DOMAIN db["resource"] = Resources /\ DOMAIN db["parent"] = Resources
  BY DEF Tables, Names

-----------------------------------------------------------------------------
(* A request begins.                                                       *)

LEMMA Begins ==
    ASSUME IInv, NEW s \in Sessions, NEW STATE result, result \in Tables, Begin(s, result)
    PROVE  /\ SessionsTyped' /\ Alone'
           /\ db' = db
           /\ session'[s] = Changes(result) /\ session[s] = {}
           /\ \A r \in Sessions : r # s => session'[r] = session[r]
           /\ ~overlapped' => ~overlapped /\ Open = {}
           /\ ~overlapped' => \A r \in Open' : r = s /\ After(r)' = result
<1>1. SessionsTyped /\ Alone /\ db \in Tables
  BY DEF IInv, TypedInv, SerialInv
<1>2. Shaped(db) /\ Shaped(result)
  BY <1>1, TablesShaped
<1>3. \A t \in Booked \cap DOMAIN db : \A k \in DOMAIN db[t] : db[t][k] \in Int /\ result[t][k] \in Int
  <2>1. Booked = {"credits"}
    BY WorkshopAssumption
  <2>2. db["credits"] \in [{"item"} -> Nat] /\ result["credits"] \in [{"item"} -> Nat]
    BY <1>1 DEF Tables
  <2> QED BY <2>1, <2>2
<1>4. session[s] = {}
  BY DEF Begin, Open
<1> QED BY <1>1, <1>2, <1>3, <1>4, AloneBegins

LEMMA BeginsTyped ==
    ASSUME IInv, NEW s \in Sessions, NEW STATE result, result \in Tables, Begin(s, result),
           result["credits"]["item"] \in {db["credits"]["item"], db["credits"]["item"] + 1}
    PROVE  TypedInv' /\ Single'
<1>1. /\ SessionsTyped' /\ db' = db /\ db \in Tables
      /\ session'[s] = Changes(result)
      /\ \A r \in Sessions : r # s => session'[r] = session[r]
  BY Begins DEF IInv, TypedInv
<1>2. \A c \in Changes(result) : Typed(c, Tables)
  BY <1>1, ChangesTypedAt
<1>3. ASSUME NEW c \in Changes(result), c[1] = "credits" PROVE c[4] = c[3] + 1
  <2>1. /\ c[2] \in DOMAIN db["credits"] /\ c[3] = db["credits"][c[2]]
        /\ c[4] = result["credits"][c[2]] /\ c[3] # c[4]
    BY <1>3, ChangesAre
  <2>2. DOMAIN db["credits"] = {"item"}
    BY <1>1 DEF Tables
  <2> QED BY <2>1, <2>2
<1>4. ASSUME NEW r \in Sessions, NEW c \in session'[r]
      PROVE  Typed(c, Tables) /\ (c[1] = "credits" => c[4] = c[3] + 1)
  BY <1>1, <1>2, <1>3, <1>4 DEF IInv, TypedInv
<1>5. \A r \in Sessions : \A c \in session'[r] : Typed(c, Tables)' /\ (c[1] = "credits" => c[4] = c[3] + 1)
  BY <1>1, <1>4 DEF Typed
<1>6. overlapped' \in BOOLEAN
  BY DEF Begin, IInv, TypedInv
<1>7. ASSUME NEW r \in Sessions, NEW c \in session'[r], NEW d \in session'[r], c[1] = d[1], c[2] = d[2]
      PROVE  c = d
  <2>1. CASE r = s
    BY <1>1, <1>7, <2>1, ChangesSingle
  <2>2. CASE r # s
    BY <1>1, <1>7, <2>2 DEF IInv, Single
  <2> QED BY <2>1, <2>2
<1> QED BY <1>1, <1>5, <1>6, <1>7 DEF TypedInv, Single

LEMMA BeginsSerial ==
    ASSUME IInv, NEW s \in Sessions, NEW STATE result, result \in Tables, Begin(s, result),
           Good(db) => Good(result)
    PROVE  SerialInv'
<1>1. /\ Alone' /\ db' = db
      /\ ~overlapped' => ~overlapped /\ Open = {}
      /\ ~overlapped' => \A r \in Open' : r = s /\ After(r)' = result
  BY Begins
<1>2. ~overlapped' => Good(db) /\ Good(result)
  BY <1>1 DEF IInv, SerialInv
<1> USE DEF Good, Scored, Endorsed, Filled, Taken, MarksOn, Live, NoMark
<1>3. ASSUME NEW r \in Open', ~overlapped' PROVE Good(After(r))'
  <2> DEFINE e == After(r)'
  <2>1. e = result /\ Good(result)
    BY <1>1, <1>2, <1>3
  <2> HIDE DEF e
  <2>2. Good(e)
    BY <2>1
  <2> QED BY <2>2 DEF e
<1>4. ~overlapped' => Good(db)'
  BY <1>1, <1>2
<1> QED BY <1>1, <1>3, <1>4 DEF SerialInv

\* A mark's change and its points' go together.
LEMMA MarkChanges ==
    ASSUME db \in Tables, MarksPaid, NEW STATE result, \A i \in MarkIds : MarkMoves(result, i),
           NEW c \in Changes(result), c[1] = "mark"
    PROVE  LET own == {d \in Changes(result) : d[1] = "points" /\ d[2] = c[2]}
           IN  /\ c[2] \in MarkIds /\ c[3] = db["mark"][c[2]]
               /\ c[4] # NoMark /\ Fits(c[4])
               /\ c[4].on \in Paying => (c[4].status = "put") = (c[3] = NoMark)
               /\ own = IF c[4].on \notin Paying THEN {}
                        ELSE IF c[3] = NoMark THEN {<<"points", c[2], "none", "paid">>}
                        ELSE {<<"points", c[2], "paid", "voided">>}
               /\ IF c[3] = NoMark THEN Writing("mark", c[2]) = {} ELSE db["mark"][c[2]].on = c[4].on
<1> DEFINE own == {d \in Changes(result) : d[1] = "points" /\ d[2] = c[2]}
           before == db["mark"][c[2]]
<1>1. /\ c[2] \in MarkIds /\ c[3] = before /\ c[4] = result["mark"][c[2]] /\ c[3] # c[4]
  BY ChangesAre, TableRows
<1>2. own = IF result["points"][c[2]] = db["points"][c[2]] THEN {}
            ELSE {<<"points", c[2], db["points"][c[2]], result["points"][c[2]]>>}
  BY <1>1, TableRows, OwnOfChanges DEF Names
<1>3. /\ Fits(before) /\ (db["points"][c[2]] = "paid") = (before.status = "put")
      /\ before = NoMark => db["points"][c[2]] = "none"
  BY <1>1 DEF MarksPaid
<1> HIDE DEF own
<1>4. CASE /\ before = NoMark /\ Writing("mark", c[2]) = {}
           /\ c[4] # NoMark /\ Fits(c[4]) /\ c[4].status \in {"put", "pending"}
           /\ result["points"][c[2]] = IF c[4].on \in Paying THEN "paid" ELSE db["points"][c[2]]
  <2>1. c[4].on \in Paying => c[4].status = "put"
    BY <1>4 DEF Fits
  <2>2. own = IF c[4].on \notin Paying THEN {} ELSE {<<"points", c[2], "none", "paid">>}
    BY <1>2, <1>3, <1>4
  <2> QED BY <1>1, <1>4, <2>1, <2>2 DEF own
<1>5. CASE /\ before # NoMark /\ before.status # "gone"
           /\ c[4] # NoMark /\ Fits(c[4]) /\ c[4].on = before.on /\ c[4].status # "put"
           /\ result["points"][c[2]] = IF db["points"][c[2]] = "paid" THEN "voided" ELSE db["points"][c[2]]
  <2>1. (before.on \in Paying) = (before.status = "put")
    BY <1>3, <1>5 DEF Fits
  <2>2. own = IF c[4].on \notin Paying THEN {} ELSE {<<"points", c[2], "paid", "voided">>}
    BY <1>2, <1>3, <1>5, <2>1
  <2> QED BY <1>1, <1>5, <2>2 DEF own
<1>6. MarkMoves(result, c[2])
  BY <1>1
<1> QED BY <1>1, <1>4, <1>5, <1>6 DEF MarkMoves

LEMMA BeginsMarks ==
    ASSUME IInv, NEW s \in Sessions, NEW STATE result, result \in Tables, Begin(s, result),
           \A i \in MarkIds : MarkMoves(result, i)
    PROVE  MarksPaid' /\ MarksWritten'
<1> DEFINE own(r, t, k) == {c \in session'[r] : c[1] = t /\ c[2] = k}
<1>1. /\ db' = db /\ db \in Tables /\ MarksPaid /\ MarksWritten
      /\ session'[s] = Changes(result) /\ session[s] = {}
      /\ \A r \in Sessions : r # s => session'[r] = session[r]
  BY Begins DEF IInv, TypedInv
<1>2. \A r \in Sessions : r # s => \A t, k : own(r, t, k) = Own(r, t, k)
  BY <1>1 DEF Own
<1>3. ASSUME NEW c \in Changes(result), c[1] = "points"
      PROVE  own(s, "mark", c[2]) # {}
  <2>1. c[2] \in MarkIds /\ result["points"][c[2]] # db["points"][c[2]]
    BY <1>1, <1>3, ChangesAre, TableRows
  <2>2. MarkMoves(result, c[2]) /\ Fits(db["mark"][c[2]])
        /\ (db["points"][c[2]] = "paid") = (db["mark"][c[2]].status = "put")
    BY <1>1, <2>1 DEF MarksPaid
  <2>3. result["mark"][c[2]] # db["mark"][c[2]]
    BY <2>1, <2>2 DEF MarkMoves
  <2>4. own(s, "mark", c[2]) = {<<"mark", c[2], db["mark"][c[2]], result["mark"][c[2]]>>}
    BY <1>1, <2>1, <2>3, TableRows, OwnOfChanges DEF Names
  <2> QED BY <2>4
<1>4. ASSUME NEW c \in Changes(result), c[1] = "mark"
      PROVE  /\ c[4] # NoMark /\ Fits(c[4])
             /\ c[4].on \in Paying => (c[4].status = "put") = (c[3] = NoMark)
             /\ own(s, "points", c[2]) =
                   IF c[4].on \notin Paying THEN {}
                   ELSE IF c[3] = NoMark THEN {<<"points", c[2], "none", "paid">>}
                   ELSE {<<"points", c[2], "paid", "voided">>}
             /\ IF c[3] = NoMark
                THEN db["mark"][c[2]] = NoMark /\ \A r \in Sessions \ {s} : own(r, "mark", c[2]) = {}
                ELSE db["mark"][c[2]] # NoMark /\ db["mark"][c[2]].on = c[4].on
  <2>1. /\ c[3] = db["mark"][c[2]]
        /\ c[4] # NoMark /\ Fits(c[4])
        /\ c[4].on \in Paying => (c[4].status = "put") = (c[3] = NoMark)
        /\ own(s, "points", c[2]) =
              IF c[4].on \notin Paying THEN {}
              ELSE IF c[3] = NoMark THEN {<<"points", c[2], "none", "paid">>}
              ELSE {<<"points", c[2], "paid", "voided">>}
        /\ IF c[3] = NoMark THEN Writing("mark", c[2]) = {} ELSE db["mark"][c[2]].on = c[4].on
    BY <1>1, <1>4, MarkChanges
  <2>2. c[3] = NoMark => \A r \in Sessions \ {s} : own(r, "mark", c[2]) = {}
    BY <1>2, <2>1, NoneWriting
  <2> HIDE DEF own
  <2> QED BY <2>1, <2>2
<1>5. ASSUME NEW r \in Sessions, r # s, NEW c \in session[r]
      PROVE  /\ c[1] = "points" => own(r, "mark", c[2]) # {}
             /\ c[1] = "mark" =>
                   /\ c[4] # NoMark /\ Fits(c[4])
                   /\ c[4].on \in Paying => (c[4].status = "put") = (c[3] = NoMark)
                   /\ own(r, "points", c[2]) =
                         IF c[4].on \notin Paying THEN {}
                         ELSE IF c[3] = NoMark THEN {<<"points", c[2], "none", "paid">>}
                         ELSE {<<"points", c[2], "paid", "voided">>}
                   /\ IF c[3] = NoMark
                      THEN db["mark"][c[2]] = NoMark /\ \A q \in Sessions \ {r} : own(q, "mark", c[2]) = {}
                      ELSE db["mark"][c[2]] # NoMark /\ db["mark"][c[2]].on = c[4].on
  <2>1. /\ c[1] = "points" => Own(r, "mark", c[2]) # {}
        /\ c[1] = "mark" =>
              /\ c[4] # NoMark /\ Fits(c[4])
              /\ c[4].on \in Paying => (c[4].status = "put") = (c[3] = NoMark)
              /\ Own(r, "points", c[2]) =
                    IF c[4].on \notin Paying THEN {}
                    ELSE IF c[3] = NoMark THEN {<<"points", c[2], "none", "paid">>}
                    ELSE {<<"points", c[2], "paid", "voided">>}
              /\ IF c[3] = NoMark
                 THEN db["mark"][c[2]] = NoMark /\ \A q \in Sessions \ {r} : Own(q, "mark", c[2]) = {}
                 ELSE db["mark"][c[2]] # NoMark /\ db["mark"][c[2]].on = c[4].on
    BY <1>1 DEF MarksWritten
  <2>2. own(r, "mark", c[2]) = Own(r, "mark", c[2]) /\ own(r, "points", c[2]) = Own(r, "points", c[2])
    BY <1>2, <1>5
  <2>3. ASSUME c[1] = "mark", c[3] = NoMark, NEW d \in own(s, "mark", c[2]) PROVE FALSE
    <3>1. db["mark"][c[2]] = NoMark
      BY <2>1, <2>3
    <3>2. r \in Writing("mark", c[2])
      BY <2>3 DEF Writing, Open
    <3>3. d \in Changes(result) /\ d[1] = "mark" /\ d[2] = c[2]
      BY <1>1, <2>3
    <3>4. d[3] = db["mark"][d[2]] /\ (d[3] = NoMark => Writing("mark", d[2]) = {})
      BY <1>1, <3>3, MarkChanges
    <3> QED BY <3>1, <3>2, <3>3, <3>4
  <2>4. ASSUME c[1] = "mark", c[3] = NoMark, NEW q \in Sessions \ {r} PROVE own(q, "mark", c[2]) = {}
    <3>1. CASE q = s
      <4>1. ~\E d \in own(s, "mark", c[2]) : TRUE
        BY <2>3, <2>4
      <4> HIDE DEF own
      <4> QED BY <3>1, <4>1
    <3>2. CASE q # s
      <4>1. own(q, "mark", c[2]) = Own(q, "mark", c[2]) /\ Own(q, "mark", c[2]) = {}
        BY <1>2, <2>1, <2>4, <3>2
      <4> QED BY <4>1
    <3> QED BY <3>1, <3>2
  <2> HIDE DEF own
  <2> QED BY <2>1, <2>2, <2>4
<1>6. MarksPaid'
  BY <1>1 DEF MarksPaid, Fits, NoMark, Paying
<1>7. ASSUME NEW r \in Sessions, NEW c \in session'[r]
      PROVE  /\ c[1] = "points" => own(r, "mark", c[2]) # {}
             /\ c[1] = "mark" =>
                   /\ c[4] # NoMark /\ Fits(c[4])
                   /\ c[4].on \in Paying => (c[4].status = "put") = (c[3] = NoMark)
                   /\ own(r, "points", c[2]) =
                         IF c[4].on \notin Paying THEN {}
                         ELSE IF c[3] = NoMark THEN {<<"points", c[2], "none", "paid">>}
                         ELSE {<<"points", c[2], "paid", "voided">>}
                   /\ IF c[3] = NoMark
                      THEN db["mark"][c[2]] = NoMark /\ \A q \in Sessions \ {r} : own(q, "mark", c[2]) = {}
                      ELSE db["mark"][c[2]] # NoMark /\ db["mark"][c[2]].on = c[4].on
  <2>1. CASE r = s
    <3>1. c \in Changes(result)
      BY <1>1, <1>7, <2>1
    <3> HIDE DEF own
    <3> QED BY <1>3, <1>4, <2>1, <3>1
  <2>2. CASE r # s
    <3>1. c \in session[r]
      BY <1>1, <1>7, <2>2
    <3> HIDE DEF own
    <3> QED BY <1>5, <2>2, <3>1
  <2> QED BY <2>1, <2>2
<1>8. MarksWritten'
  BY <1>1, <1>7 DEF MarksWritten, Own, Fits, NoMark, Paying
<1> QED BY <1>6, <1>8

\* What a request of the vault will write, when it begins.
LEMMA RequestChanges ==
    ASSUME db \in Tables, NEW STATE result, result \in Tables, VaultMoves(result),
           NEW c \in Changes(result), c[1] = "takedown"
    PROVE  LET own == {d \in Changes(result) : d[1] = "resource" /\ d[2] = c[4].on}
           IN  /\ c[2] \in Takedowns /\ c[4].on \in Resources /\ c[4].status # "none"
               /\ db["resource"][c[4].on] # "none"
               /\ IF c[4].status = "open"
                  THEN /\ db["takedown"][c[2]] = NoRequest /\ Writing("takedown", c[2]) = {}
                       /\ \A d \in own : d[4] = "takedown"
                       /\ own = {} => db["resource"][c[4].on] = "takedown"
                  ELSE db["takedown"][c[2]].on = c[4].on /\ db["takedown"][c[2]] # NoRequest
<1>1. /\ c[2] \in Takedowns /\ c[4] = result["takedown"][c[2]]
      /\ result["takedown"][c[2]] # db["takedown"][c[2]]
  BY ChangesAre, TableRows
<1>2. RequestMoves(result, c[2])
  BY <1>1 DEF VaultMoves
<1>3. /\ c[4].on \in Resources /\ db["resource"][c[4].on] # "none"
      /\ \/ /\ db["takedown"][c[2]] = NoRequest /\ Writing("takedown", c[2]) = {}
            /\ c[4].status = "open" /\ result["resource"][c[4].on] = "takedown"
         \/ /\ db["takedown"][c[2]].on = c[4].on /\ db["takedown"][c[2]].status # "none"
            /\ c[4].status \in {"upheld", "dismissed"}
  BY <1>1, <1>2 DEF RequestMoves
<1> DEFINE own == {d \in Changes(result) : d[1] = "resource" /\ d[2] = c[4].on}
           before == db["resource"][c[4].on]
           after == result["resource"][c[4].on]
<1>4. own = IF after = before THEN {} ELSE {<<"resource", c[4].on, before, after>>}
  BY <1>3, TableRows, OwnOfChanges DEF Names
<1>5. after = "takedown" => (\A d \in own : d[4] = "takedown") /\ (own = {} => before = "takedown")
  <2> DEFINE change == <<"resource", c[4].on, before, after>>
  <2>1. change[4] = after
    OBVIOUS
  <2>2. own = IF after = before THEN {} ELSE {change}
    BY <1>4
  <2> HIDE DEF own, before, after, change
  <2> QED BY <2>1, <2>2
<1> HIDE DEF own
<1>6. db["takedown"][c[2]].status # "none" => db["takedown"][c[2]] # NoRequest
  BY DEF NoRequest
<1> QED BY <1>1, <1>3, <1>5, <1>6 DEF own

LEMMA ResourceChanges ==
    ASSUME db \in Tables, OpenHidden, NEW STATE result, result \in Tables, VaultMoves(result),
           NEW c \in Changes(result), c[1] = "resource"
    PROVE  /\ c[2] \in Resources /\ c[3] = db["resource"][c[2]] /\ c[4] # "none"
           /\ c[3] = "none" => Writing("resource", c[2]) = {}
           /\ c[4] = "active" /\ c[3] # "none" =>
                 \/ Excused(db, c[2])
                 \/ \E d \in Changes(result) : d[1] = "takedown" /\ d[4].on = c[2] /\ d[4].status # "open"
           /\ c[4] = "superseded" => \E d \in Changes(result) : d[1] = "parent" /\ d[4] = c[2]
<1>1. /\ c[2] \in Resources /\ c[3] = db["resource"][c[2]] /\ c[4] = result["resource"][c[2]]
      /\ result["resource"][c[2]] # db["resource"][c[2]]
  BY ChangesAre, TableRows
<1>2. ResourceMoves(result, c[2])
  BY <1>1 DEF VaultMoves
<1>3. ASSUME c[4] = "active", c[3] # "none"
      PROVE  \/ Excused(db, c[2])
             \/ \E d \in Changes(result) : d[1] = "takedown" /\ d[4].on = c[2] /\ d[4].status # "open"
  <2>1. PICK t \in Takedowns : result["takedown"][t].on = c[2] /\ result["takedown"][t].status = "dismissed"
    BY <1>1, <1>2, <1>3 DEF ResourceMoves
  <2>2. CASE result["takedown"][t] = db["takedown"][t]
    BY <2>1, <2>2 DEF Excused
  <2>3. CASE result["takedown"][t] # db["takedown"][t]
    <3>1. <<"takedown", t, db["takedown"][t], result["takedown"][t]>> \in Changes(result)
      BY <2>3, TableRows, ChangesHold DEF Names
    <3> QED BY <2>1, <3>1
  <2> QED BY <2>2, <2>3
<1>4. ASSUME c[4] = "superseded"
      PROVE  \E d \in Changes(result) : d[1] = "parent" /\ d[4] = c[2]
  <2>1. PICK new \in Resources : db["resource"][new] = "none" /\ result["parent"][new] = c[2]
    BY <1>1, <1>2, <1>4 DEF ResourceMoves
  <2>2. db["parent"][new] = "none" /\ "none" \notin Resources
    BY <2>1, WorkshopAssumption DEF OpenHidden
  <2>3. <<"parent", new, db["parent"][new], result["parent"][new]>> \in Changes(result)
    BY <1>1, <2>1, <2>2, TableRows, ChangesHold DEF Names
  <2> QED BY <2>1, <2>3
<1> QED BY <1>1, <1>2, <1>3, <1>4 DEF ResourceMoves

LEMMA ParentChanges ==
    ASSUME db \in Tables, NEW STATE result, result \in Tables, VaultMoves(result),
           NEW c \in Changes(result), c[1] = "parent"
    PROVE  /\ c[2] \in Resources /\ db["resource"][c[2]] = "none"
           /\ \E d \in Changes(result) : d[1] = "resource" /\ d[2] = c[2] /\ d[3] = "none"
<1>1. c[2] \in Resources /\ result["parent"][c[2]] # db["parent"][c[2]]
  BY ChangesAre, TableRows
<1>2. db["resource"][c[2]] = "none" /\ result["resource"][c[2]] = "active"
  BY <1>1 DEF VaultMoves
<1>3. <<"resource", c[2], db["resource"][c[2]], result["resource"][c[2]]>> \in Changes(result)
  BY <1>1, <1>2, TableRows, ChangesHold DEF Names
<1> QED BY <1>1, <1>2, <1>3

\* What the other sessions write of the vault, when s begins, is still theirs alone.
LEMMA OthersAlone ==
    ASSUME IInv, NEW s \in Sessions, NEW STATE result, result \in Tables, Begin(s, result), VaultMoves(result),
           NEW r \in Sessions, r # s, NEW c \in session[r]
    PROVE  /\ c[1] = "takedown" /\ c[4].status = "open" =>
                 \A d \in Changes(result) : ~(d[1] = "takedown" /\ d[2] = c[2])
           /\ c[1] = "resource" /\ c[3] = "none" =>
                 \A d \in Changes(result) : ~(d[1] = "resource" /\ d[2] = c[2])
<1>1. db \in Tables /\ OpenHidden /\ (c[1] = "takedown" => RequestWritten(r, c)) /\ (c[1] = "resource" => ResourceWritten(r, c))
  BY DEF IInv, TypedInv, VaultWritten
<1>2. ASSUME c[1] = "takedown", c[4].status = "open", NEW d \in Changes(result), d[1] = "takedown", d[2] = c[2]
      PROVE  FALSE
  <2>1. db["takedown"][c[2]] = NoRequest /\ r \in Writing("takedown", c[2])
    BY <1>1, <1>2 DEF RequestWritten, Writing, Open
  <2>2. IF d[4].status = "open" THEN Writing("takedown", d[2]) = {} ELSE db["takedown"][d[2]] # NoRequest
    BY <1>1, <1>2, RequestChanges
  <2> QED BY <1>2, <2>1, <2>2
<1>3. ASSUME c[1] = "resource", c[3] = "none", NEW d \in Changes(result), d[1] = "resource", d[2] = c[2]
      PROVE  FALSE
  <2>1. db["resource"][c[2]] = "none" /\ r \in Writing("resource", c[2])
    BY <1>1, <1>3 DEF ResourceWritten, Writing, Open
  <2>2. d[3] = db["resource"][d[2]] /\ (d[3] = "none" => Writing("resource", d[2]) = {})
    BY <1>1, <1>3, ResourceChanges
  <2> QED BY <1>3, <2>1, <2>2
<1> QED BY <1>2, <1>3

LEMMA BeginsVault ==
    ASSUME IInv, NEW s \in Sessions, NEW STATE result, result \in Tables, Begin(s, result), VaultMoves(result)
    PROVE  OpenHidden' /\ VaultWritten'
<1> DEFINE own(r, t, k) == {c \in session'[r] : c[1] = t /\ c[2] = k}
<1>1. /\ db' = db /\ db \in Tables /\ OpenHidden /\ VaultWritten
      /\ session'[s] = Changes(result) /\ session[s] = {}
      /\ \A r \in Sessions : r # s => session'[r] = session[r]
  BY Begins DEF IInv, TypedInv
<1>2. \A r \in Sessions : r # s => \A t, k : own(r, t, k) = Own(r, t, k)
  BY <1>1 DEF Own
<1>3. \A t, k : own(s, t, k) = {c \in Changes(result) : c[1] = t /\ c[2] = k}
  BY <1>1
<1>4. OpenHidden'
  BY <1>1 DEF OpenHidden, Hidden, Excused
<1>5. ASSUME NEW r \in Sessions, NEW c \in session'[r], c[1] = "takedown"
      PROVE  /\ c[4].on \in Resources /\ c[4].status # "none" /\ db["resource"][c[4].on] # "none"
             /\ IF c[4].status = "open"
                THEN /\ db["takedown"][c[2]] = NoRequest
                     /\ \A q \in Sessions \ {r} : own(q, "takedown", c[2]) = {}
                     /\ \A d \in own(r, "resource", c[4].on) : d[4] = "takedown"
                     /\ own(r, "resource", c[4].on) = {} => Hidden(db, c[4].on)
                ELSE db["takedown"][c[2]].on = c[4].on
  <2>1. CASE r = s
    <3>1. c \in Changes(result)
      BY <1>1, <1>5, <2>1
    <3> DEFINE mine == {d \in Changes(result) : d[1] = "resource" /\ d[2] = c[4].on}
    <3>2. /\ c[4].on \in Resources /\ c[4].status # "none"
          /\ db["resource"][c[4].on] # "none"
          /\ IF c[4].status = "open"
             THEN /\ db["takedown"][c[2]] = NoRequest /\ Writing("takedown", c[2]) = {}
                  /\ \A d \in mine : d[4] = "takedown"
                  /\ mine = {} => db["resource"][c[4].on] = "takedown"
             ELSE db["takedown"][c[2]].on = c[4].on
      BY <1>1, <1>5, <3>1, RequestChanges
    <3>3. mine = own(r, "resource", c[4].on)
      BY <1>3, <2>1
    <3>4. Writing("takedown", c[2]) = {} => \A q \in Sessions \ {r} : own(q, "takedown", c[2]) = {}
      BY <1>2, <2>1, NoneWriting
    <3> HIDE DEF own, mine
    <3> QED BY <3>2, <3>3, <3>4 DEF Hidden
  <2>2. CASE r # s
    <3>1. c \in session[r] /\ RequestWritten(r, c)
      BY <1>1, <1>5, <2>2 DEF VaultWritten
    <3>2. own(r, "resource", c[4].on) = Own(r, "resource", c[4].on)
      BY <1>2, <2>2
    <3>3. ASSUME c[4].status = "open", NEW q \in Sessions \ {r} PROVE own(q, "takedown", c[2]) = {}
      <4>1. CASE q = s
        <5>1. \A d \in Changes(result) : ~(d[1] = "takedown" /\ d[2] = c[2])
          BY <1>5, <2>2, <3>1, <3>3, OthersAlone
        <5> QED BY <1>3, <4>1, <5>1
      <4>2. CASE q # s
        <5>1. own(q, "takedown", c[2]) = Own(q, "takedown", c[2]) /\ Own(q, "takedown", c[2]) = {}
          BY <1>2, <3>1, <3>3, <4>2 DEF RequestWritten
        <5> QED BY <5>1
      <4> QED BY <4>1, <4>2
    <3> HIDE DEF own
    <3> QED BY <3>1, <3>2, <3>3 DEF RequestWritten
  <2> QED BY <2>1, <2>2
<1>6. ASSUME NEW r \in Sessions, NEW c \in session'[r], c[1] = "resource"
      PROVE  /\ c[4] # "none"
             /\ IF c[3] = "none"
                THEN db["resource"][c[2]] = "none" /\ \A q \in Sessions \ {r} : own(q, "resource", c[2]) = {}
                ELSE /\ db["resource"][c[2]] # "none"
                     /\ c[4] = "active" =>
                           \/ Excused(db, c[2])
                           \/ \E d \in session'[r] : d[1] = "takedown" /\ d[4].on = c[2] /\ d[4].status # "open"
             /\ c[4] = "superseded" => \E d \in session'[r] : d[1] = "parent" /\ d[4] = c[2]
  <2>1. CASE r = s
    <3>1. c \in Changes(result)
      BY <1>1, <1>6, <2>1
    <3>2. /\ c[3] = db["resource"][c[2]] /\ c[4] # "none"
          /\ c[3] = "none" => Writing("resource", c[2]) = {}
          /\ c[4] = "active" /\ c[3] # "none" =>
                \/ Excused(db, c[2])
                \/ \E d \in Changes(result) : d[1] = "takedown" /\ d[4].on = c[2] /\ d[4].status # "open"
          /\ c[4] = "superseded" => \E d \in Changes(result) : d[1] = "parent" /\ d[4] = c[2]
      BY <1>1, <1>6, <3>1, ResourceChanges
    <3>3. Writing("resource", c[2]) = {} => \A q \in Sessions \ {r} : own(q, "resource", c[2]) = {}
      BY <1>2, <2>1, NoneWriting
    <3> HIDE DEF own
    <3> QED BY <1>1, <2>1, <3>2, <3>3
  <2>2. CASE r # s
    <3>1. c \in session[r] /\ ResourceWritten(r, c) /\ session'[r] = session[r]
      BY <1>1, <1>6, <2>2 DEF VaultWritten
    <3>2. ASSUME c[3] = "none", NEW q \in Sessions \ {r} PROVE own(q, "resource", c[2]) = {}
      <4>1. CASE q = s
        <5>1. \A d \in Changes(result) : ~(d[1] = "resource" /\ d[2] = c[2])
          BY <1>6, <2>2, <3>1, <3>2, OthersAlone
        <5>2. own(s, "resource", c[2]) = {d \in Changes(result) : d[1] = "resource" /\ d[2] = c[2]}
          BY <1>3
        <5> HIDE DEF own
        <5> QED BY <4>1, <5>1, <5>2
      <4>2. CASE q # s
        <5>1. own(q, "resource", c[2]) = Own(q, "resource", c[2]) /\ Own(q, "resource", c[2]) = {}
          BY <1>2, <3>1, <3>2, <4>2 DEF ResourceWritten
        <5> QED BY <5>1
      <4> QED BY <4>1, <4>2
    <3> HIDE DEF own
    <3> QED BY <3>1, <3>2 DEF ResourceWritten
  <2> QED BY <2>1, <2>2
<1>7. ASSUME NEW r \in Sessions, NEW c \in session'[r], c[1] = "parent"
      PROVE  db["resource"][c[2]] = "none" /\ \E d \in own(r, "resource", c[2]) : d[3] = "none"
  <2>1. CASE r = s
    <3>1. c \in Changes(result)
      BY <1>1, <1>7, <2>1
    <3>2. /\ db["resource"][c[2]] = "none"
          /\ \E d \in Changes(result) : d[1] = "resource" /\ d[2] = c[2] /\ d[3] = "none"
      BY <1>1, <1>7, <3>1, ParentChanges
    <3> QED BY <1>1, <2>1, <3>2
  <2>2. CASE r # s
    <3>1. c \in session[r] /\ ParentWritten(r, c)
      BY <1>1, <1>7, <2>2 DEF VaultWritten
    <3>2. own(r, "resource", c[2]) = Own(r, "resource", c[2])
      BY <1>2, <2>2
    <3> HIDE DEF own
    <3> QED BY <3>1, <3>2 DEF ParentWritten
  <2> QED BY <2>1, <2>2
<1>8. VaultWritten'
  <2>1. \A r \in Sessions : \A c \in session'[r] : c[1] = "takedown" => RequestWritten(r, c)'
    BY <1>1, <1>5 DEF RequestWritten, Own, NoRequest, Hidden, Excused
  <2>2. \A r \in Sessions : \A c \in session'[r] : c[1] = "resource" => ResourceWritten(r, c)'
    BY <1>1, <1>6 DEF ResourceWritten, Own, Excused
  <2>3. \A r \in Sessions : \A c \in session'[r] : c[1] = "parent" => ParentWritten(r, c)'
    BY <1>1, <1>7 DEF ParentWritten, Own
  <2> QED BY <2>1, <2>2, <2>3 DEF VaultWritten
<1> QED BY <1>4, <1>8

LEMMA BeginsKeep ==
    ASSUME IInv, NEW s \in Sessions, Sound(s)
    PROVE  IInv'
<1>1. PICK result \in Tables : Begin(s, result) /\ (Good(db) => Good(result)) /\ Moves(result)
  BY DEF Sound
<1>2. TypedInv' /\ Single'
  BY <1>1, BeginsTyped DEF Moves
<1>3. SerialInv'
  BY <1>1, BeginsSerial
<1>4. MarksPaid' /\ MarksWritten'
  BY <1>1, BeginsMarks DEF Moves
<1>5. OpenHidden' /\ VaultWritten'
  BY <1>1, BeginsVault DEF Moves
<1> QED BY <1>2, <1>3, <1>4, <1>5 DEF IInv

-----------------------------------------------------------------------------
(* A request commits.                                                      *)

\* In tables e stands what s writes, and elsewhere what stood there.
LeadsTo(s, e) ==
    \A t \in MarkTables \cup VaultTables : \A k \in DOMAIN db[t] :
        /\ Own(s, t, k) = {} => e[t][k] = db[t][k]
        /\ \A c \in Own(s, t, k) : e[t][k] = c[4]

LEMMA CommitLeads ==
    ASSUME IInv, NEW s \in Sessions, Commit(s)
    PROVE  LeadsTo(s, db')
<1>1. DOMAIN db = Names /\ Booked = {"credits"} /\ Single
  BY TableRows, WorkshopAssumption DEF IInv, TypedInv
<1> SUFFICES ASSUME NEW t \in MarkTables \cup VaultTables, NEW k \in DOMAIN db[t]
             PROVE  /\ Own(s, t, k) = {} => db'[t][k] = db[t][k]
                    /\ \A c \in Own(s, t, k) : db'[t][k] = c[4]
  BY DEF LeadsTo
<1>2. t \in DOMAIN db /\ t \notin Booked
  BY <1>1 DEF MarkTables, VaultTables, Names
<1>3. Own(s, t, k) = {} => db'[t][k] = db[t][k]
  BY <1>2, CommitAt
<1>4. ASSUME NEW c \in Own(s, t, k) PROVE db'[t][k] = c[4]
  <2>1. c \in session[s] /\ c[1] = t /\ c[2] = k
    BY DEF Own
  <2>2. db'[t][k] = Written(db[t][k], c)
    BY <1>1, <1>2, <2>1, CommitWrites
  <2> QED BY <1>2, <2>1, <2>2 DEF Written
<1> QED BY <1>3, <1>4

\* The marks s writes stand with the points that belong to them.
LEMMA LeadsToPaid ==
    ASSUME IInv, NEW s \in Sessions, NEW STATE e, LeadsTo(s, e), NEW i \in MarkIds
    PROVE  /\ Fits(e["mark"][i])
           /\ (e["points"][i] = "paid") = (e["mark"][i].status = "put")
           /\ e["mark"][i] = NoMark => e["points"][i] = "none"
           /\ Own(s, "mark", i) = {} => e["mark"][i] = db["mark"][i]
           /\ db["mark"][i] # NoMark => e["mark"][i] # NoMark /\ e["mark"][i].on = db["mark"][i].on
<1>1. /\ Fits(db["mark"][i])
      /\ (db["points"][i] = "paid") = (db["mark"][i].status = "put")
      /\ db["mark"][i] = NoMark => db["points"][i] = "none"
  BY DEF IInv, MarksPaid
<1>2. /\ Own(s, "mark", i) = {} => e["mark"][i] = db["mark"][i]
      /\ \A c \in Own(s, "mark", i) : e["mark"][i] = c[4]
      /\ Own(s, "points", i) = {} => e["points"][i] = db["points"][i]
      /\ \A c \in Own(s, "points", i) : e["points"][i] = c[4]
  BY TableRows DEF IInv, TypedInv, LeadsTo, MarkTables
<1>3. CASE Own(s, "mark", i) = {}
  <2>1. ASSUME NEW c \in Own(s, "points", i) PROVE FALSE
    <3>1. c \in session[s] /\ c[1] = "points" /\ c[2] = i
      BY DEF Own
    <3>2. Own(s, "mark", c[2]) # {}
      BY <3>1 DEF IInv, MarksWritten
    <3> QED BY <1>3, <3>1, <3>2
  <2>2. Own(s, "points", i) = {}
    BY <2>1
  <2> QED BY <1>1, <1>2, <1>3, <2>2
<1>4. CASE Own(s, "mark", i) # {}
  <2>1. PICK c \in Own(s, "mark", i) : TRUE
    BY <1>4
  <2>2. c \in session[s] /\ c[1] = "mark" /\ c[2] = i
    BY <2>1 DEF Own
  <2>3. /\ c[4] # NoMark /\ Fits(c[4])
        /\ c[4].on \in Paying => (c[4].status = "put") = (c[3] = NoMark)
        /\ Own(s, "points", i) =
              IF c[4].on \notin Paying THEN {}
              ELSE IF c[3] = NoMark THEN {<<"points", i, "none", "paid">>}
              ELSE {<<"points", i, "paid", "voided">>}
        /\ c[3] = NoMark => db["mark"][i] = NoMark
        /\ c[3] # NoMark => db["mark"][i] # NoMark /\ db["mark"][i].on = c[4].on
    BY <2>2 DEF IInv, MarksWritten
  <2>4. e["mark"][i] = c[4]
    BY <1>2, <2>1
  <2>5. c[4].on \notin Paying => c[4].status # "put" /\ e["points"][i] # "paid"
    <3> SUFFICES ASSUME c[4].on \notin Paying PROVE c[4].status # "put" /\ e["points"][i] # "paid"
      OBVIOUS
    <3>1. c[4].status # "put" /\ e["points"][i] = db["points"][i]
      BY <1>2, <2>3 DEF Fits
    <3>2. db["mark"][i] # NoMark => db["mark"][i].status # "put"
      BY <1>1, <2>3 DEF Fits
    <3> QED BY <1>1, <3>1, <3>2
  <2>6. c[4].on \in Paying => (e["points"][i] = "paid") = (c[4].status = "put")
    <3> SUFFICES ASSUME c[4].on \in Paying PROVE (e["points"][i] = "paid") = (c[4].status = "put")
      OBVIOUS
    <3>1. CASE c[3] = NoMark
      <4>1. <<"points", i, "none", "paid">> \in Own(s, "points", i)
        BY <2>3, <3>1
      <4>2. e["points"][i] = "paid"
        BY <1>2, <4>1
      <4> QED BY <2>3, <3>1, <4>2
    <3>2. CASE c[3] # NoMark
      <4>1. <<"points", i, "paid", "voided">> \in Own(s, "points", i)
        BY <2>3, <3>2
      <4>2. e["points"][i] = "voided"
        BY <1>2, <4>1
      <4> QED BY <2>3, <3>2, <4>2
    <3> QED BY <3>1, <3>2
  <2>7. (e["points"][i] = "paid") = (c[4].status = "put")
    BY <2>5, <2>6
  <2> QED BY <1>4, <2>3, <2>4, <2>7
<1> QED BY <1>3, <1>4

\* What the sessions that stay open write fits the marks s leaves.
LEMMA CommitsMarks ==
    ASSUME IInv, NEW s \in Sessions, Commit(s)
    PROVE  MarksPaid' /\ MarksWritten'
<1> DEFINE e == db'
           own(r, t, k) == {c \in session'[r] : c[1] = t /\ c[2] = k}
<1>1. LeadsTo(s, e) /\ MarksWritten /\ db \in Tables /\ \A r \in Sessions : \A c \in session[r] : Typed(c, Tables)
  BY CommitLeads DEF IInv, TypedInv
<1>2. session'[s] = {} /\ \A r \in Sessions : r # s => session'[r] = session[r]
  BY DEF Commit, IInv, TypedInv, SessionsTyped
<1>3. \A r \in Sessions : r # s => \A t, k : own(r, t, k) = Own(r, t, k)
  BY <1>2 DEF Own
<1>4. \A t, k : own(s, t, k) = {}
  BY <1>2
<1> HIDE DEF e
<1>5. \A i \in MarkIds :
          /\ Fits(e["mark"][i])
          /\ (e["points"][i] = "paid") = (e["mark"][i].status = "put")
          /\ e["mark"][i] = NoMark => e["points"][i] = "none"
          /\ Own(s, "mark", i) = {} => e["mark"][i] = db["mark"][i]
          /\ db["mark"][i] # NoMark => e["mark"][i] # NoMark /\ e["mark"][i].on = db["mark"][i].on
  BY <1>1, LeadsToPaid
<1>6. ASSUME NEW r \in Sessions, NEW c \in session'[r]
      PROVE  /\ c[1] = "points" => own(r, "mark", c[2]) # {}
             /\ c[1] = "mark" =>
                   /\ c[4] # NoMark /\ Fits(c[4])
                   /\ c[4].on \in Paying => (c[4].status = "put") = (c[3] = NoMark)
                   /\ own(r, "points", c[2]) =
                         IF c[4].on \notin Paying THEN {}
                         ELSE IF c[3] = NoMark THEN {<<"points", c[2], "none", "paid">>}
                         ELSE {<<"points", c[2], "paid", "voided">>}
                   /\ IF c[3] = NoMark
                      THEN e["mark"][c[2]] = NoMark /\ \A q \in Sessions \ {r} : own(q, "mark", c[2]) = {}
                      ELSE e["mark"][c[2]] # NoMark /\ e["mark"][c[2]].on = c[4].on
  <2>1. r # s /\ c \in session[r]
    BY <1>2, <1>6
  <2>2. /\ c[1] = "points" => Own(r, "mark", c[2]) # {}
        /\ c[1] = "mark" =>
              /\ c[4] # NoMark /\ Fits(c[4])
              /\ c[4].on \in Paying => (c[4].status = "put") = (c[3] = NoMark)
              /\ Own(r, "points", c[2]) =
                    IF c[4].on \notin Paying THEN {}
                    ELSE IF c[3] = NoMark THEN {<<"points", c[2], "none", "paid">>}
                    ELSE {<<"points", c[2], "paid", "voided">>}
              /\ IF c[3] = NoMark
                 THEN db["mark"][c[2]] = NoMark /\ \A q \in Sessions \ {r} : Own(q, "mark", c[2]) = {}
                 ELSE db["mark"][c[2]] # NoMark /\ db["mark"][c[2]].on = c[4].on
    BY <1>1, <2>1 DEF MarksWritten
  <2>3. own(r, "mark", c[2]) = Own(r, "mark", c[2]) /\ own(r, "points", c[2]) = Own(r, "points", c[2])
    BY <1>3, <2>1
  <2>4. c[1] = "mark" => c[2] \in MarkIds
    BY <1>1, <2>1, TableRows DEF Typed
  <2>5. ASSUME c[1] = "mark", c[3] = NoMark, NEW q \in Sessions \ {r} PROVE own(q, "mark", c[2]) = {}
    BY <1>3, <1>4, <2>2, <2>5
  <2>6. ASSUME c[1] = "mark"
        PROVE  IF c[3] = NoMark THEN e["mark"][c[2]] = NoMark
               ELSE e["mark"][c[2]] # NoMark /\ e["mark"][c[2]].on = c[4].on
    <3>1. CASE c[3] = NoMark
      <4>1. Own(s, "mark", c[2]) = {} /\ db["mark"][c[2]] = NoMark
        BY <2>1, <2>2, <2>6, <3>1
      <4> QED BY <1>5, <2>4, <2>6, <3>1, <4>1
    <3>2. CASE c[3] # NoMark
      BY <1>5, <2>2, <2>4, <2>6, <3>2
    <3> QED BY <3>1, <3>2
  <2> HIDE DEF own
  <2> QED BY <2>2, <2>3, <2>5, <2>6
<1>7. MarksPaid'
  BY <1>5 DEF MarksPaid, Fits, NoMark, Paying, e
<1>8. MarksWritten'
  BY <1>6 DEF MarksWritten, Own, Fits, NoMark, Paying, e
<1> QED BY <1>7, <1>8

\* What s makes of one row of the vault.
LEMMA LeadsToVault ==
    ASSUME IInv, NEW s \in Sessions, NEW STATE e, LeadsTo(s, e)
    PROVE  /\ \A t \in Takedowns :
                  \/ Own(s, "takedown", t) = {} /\ e["takedown"][t] = db["takedown"][t]
                  \/ \E c \in session[s] : /\ c[1] = "takedown" /\ c[2] = t /\ e["takedown"][t] = c[4]
                                           /\ RequestWritten(s, c)
           /\ \A r \in Resources :
                  \/ Own(s, "resource", r) = {} /\ e["resource"][r] = db["resource"][r]
                  \/ \E c \in session[s] : /\ c[1] = "resource" /\ c[2] = r /\ e["resource"][r] = c[4]
                                           /\ ResourceWritten(s, c)
           /\ \A r \in Resources :
                  \/ Own(s, "parent", r) = {} /\ e["parent"][r] = db["parent"][r]
                  \/ db["resource"][r] = "none" /\ e["resource"][r] # "none"
           /\ \A c \in session[s] : c[1] = "takedown" => c[2] \in Takedowns /\ e["takedown"][c[2]] = c[4]
           /\ \A c \in session[s] : c[1] = "parent" => c[2] \in Resources /\ e["parent"][c[2]] = c[4]
<1>1. /\ VaultWritten /\ db \in Tables /\ \A c \in session[s] : Typed(c, Tables)
      /\ DOMAIN db["takedown"] = Takedowns /\ DOMAIN db["resource"] = Resources /\ DOMAIN db["parent"] = Resources
  BY TableRows DEF IInv, TypedInv
<1>2. ASSUME NEW c \in session[s], c[1] \in VaultTables
      PROVE  c[2] \in DOMAIN db[c[1]] /\ c \in Own(s, c[1], c[2]) /\ e[c[1]][c[2]] = c[4]
  <2>1. c[2] \in DOMAIN db[c[1]] /\ c \in Own(s, c[1], c[2])
    BY <1>1 DEF Typed, Own
  <2> QED BY <1>2, <2>1 DEF LeadsTo
<1>3. ASSUME NEW t \in VaultTables, NEW k \in DOMAIN db[t], Own(s, t, k) = {}
      PROVE  e[t][k] = db[t][k]
  BY <1>3 DEF LeadsTo
<1>4. ASSUME NEW t \in VaultTables, NEW k \in DOMAIN db[t], Own(s, t, k) # {}
      PROVE  \E c \in session[s] : c[1] = t /\ c[2] = k /\ e[t][k] = c[4]
  <2>1. PICK c \in Own(s, t, k) : TRUE
    BY <1>4
  <2>2. c \in session[s] /\ c[1] = t /\ c[2] = k
    BY <2>1 DEF Own
  <2> QED BY <1>2, <2>2
<1>5. "takedown" \in VaultTables /\ "resource" \in VaultTables /\ "parent" \in VaultTables
  BY DEF VaultTables
<1>6. ASSUME NEW t \in Takedowns, Own(s, "takedown", t) # {}
      PROVE  \E c \in session[s] : /\ c[1] = "takedown" /\ c[2] = t /\ e["takedown"][t] = c[4]
                                   /\ RequestWritten(s, c)
  <2>1. \E c \in session[s] : c[1] = "takedown" /\ c[2] = t /\ e["takedown"][t] = c[4]
    BY <1>1, <1>4, <1>5, <1>6
  <2> QED BY <1>1, <2>1 DEF VaultWritten
<1>7. ASSUME NEW r \in Resources, Own(s, "resource", r) # {}
      PROVE  \E c \in session[s] : /\ c[1] = "resource" /\ c[2] = r /\ e["resource"][r] = c[4]
                                   /\ ResourceWritten(s, c)
  <2>1. \E c \in session[s] : c[1] = "resource" /\ c[2] = r /\ e["resource"][r] = c[4]
    BY <1>1, <1>4, <1>5, <1>7
  <2> QED BY <1>1, <2>1 DEF VaultWritten
<1>8. ASSUME NEW r \in Resources, Own(s, "parent", r) # {}
      PROVE  db["resource"][r] = "none" /\ e["resource"][r] # "none"
  <2>1. PICK c \in session[s] : c[1] = "parent" /\ c[2] = r
    BY <1>1, <1>4, <1>5, <1>8
  <2>2. db["resource"][r] = "none" /\ Own(s, "resource", r) # {}
    BY <1>1, <2>1 DEF VaultWritten, ParentWritten
  <2>3. e["resource"][r] # "none"
    BY <1>7, <2>2 DEF ResourceWritten
  <2> QED BY <2>2, <2>3
<1>9. \A c \in session[s] : c[1] = "takedown" => c[2] \in Takedowns /\ e["takedown"][c[2]] = c[4]
  BY <1>1, <1>2, <1>5
<1>10. \A c \in session[s] : c[1] = "parent" => c[2] \in Resources /\ e["parent"][c[2]] = c[4]
  BY <1>1, <1>2, <1>5
<1>11. /\ \A t \in Takedowns : Own(s, "takedown", t) = {} => e["takedown"][t] = db["takedown"][t]
       /\ \A r \in Resources : Own(s, "resource", r) = {} => e["resource"][r] = db["resource"][r]
       /\ \A r \in Resources : Own(s, "parent", r) = {} => e["parent"][r] = db["parent"][r]
  BY <1>1, <1>3, <1>5
<1> QED BY <1>6, <1>7, <1>8, <1>9, <1>10, <1>11

\* An excuse stays one, a resource that is there stays there, and what was hidden
\* stays hidden or gets an excuse.
LEMMA HiddenStays ==
    ASSUME IInv, NEW s \in Sessions, NEW STATE e, LeadsTo(s, e), NEW r \in Resources
    PROVE  /\ Excused(db, r) => Excused(e, r)
           /\ db["resource"][r] # "none" => e["resource"][r] # "none"
           /\ db["resource"][r] # "none" /\ Hidden(db, r) => Hidden(e, r)
<1>1. OpenHidden /\ "none" \notin Resources
  BY WorkshopAssumption DEF IInv
<1>2. Excused(db, r) => Excused(e, r)
  <2>1. ASSUME NEW o \in Takedowns, db["takedown"][o].on = r, db["takedown"][o].status # "open"
        PROVE  e["takedown"][o].on = r /\ e["takedown"][o].status # "open"
    <3>1. CASE e["takedown"][o] = db["takedown"][o]
      BY <2>1, <3>1
    <3>2. CASE \E c \in session[s] : c[2] = o /\ e["takedown"][o] = c[4] /\ RequestWritten(s, c)
      <4>1. PICK c \in session[s] : c[2] = o /\ e["takedown"][o] = c[4] /\ RequestWritten(s, c)
        BY <3>2
      <4>2. c[4].status # "open"
        BY <1>1, <2>1, <4>1 DEF RequestWritten, NoRequest
      <4> QED BY <2>1, <4>1, <4>2 DEF RequestWritten
    <3> QED BY <3>1, <3>2, LeadsToVault
  <2>2. ASSUME NEW new \in Resources, db["parent"][new] = r
        PROVE  e["parent"][new] = r
    BY <1>1, <2>2, LeadsToVault DEF OpenHidden
  <2> QED BY <2>1, <2>2 DEF Excused
<1>3. db["resource"][r] # "none" => e["resource"][r] # "none"
  BY LeadsToVault DEF ResourceWritten
<1>4. ASSUME db["resource"][r] # "none", Hidden(db, r), e["resource"][r] \in {"active", "superseded"}
      PROVE  Excused(e, r)
  <2>1. CASE e["resource"][r] = db["resource"][r]
    BY <1>2, <1>4, <2>1 DEF Hidden
  <2>2. CASE \E c \in session[s] : c[2] = r /\ e["resource"][r] = c[4] /\ ResourceWritten(s, c)
    <3>1. PICK c \in session[s] : c[2] = r /\ e["resource"][r] = c[4] /\ ResourceWritten(s, c)
      BY <2>2
    <3>2. \/ Excused(db, r)
          \/ \E d \in session[s] : d[1] = "takedown" /\ d[4].on = r /\ d[4].status # "open"
          \/ \E d \in session[s] : d[1] = "parent" /\ d[4] = r
      BY <1>4, <3>1 DEF ResourceWritten
    <3>3. ASSUME NEW d \in session[s], d[1] = "takedown", d[4].on = r, d[4].status # "open" PROVE Excused(e, r)
      BY <3>3, LeadsToVault DEF Excused
    <3>4. ASSUME NEW d \in session[s], d[1] = "parent", d[4] = r PROVE Excused(e, r)
      BY <3>4, LeadsToVault DEF Excused
    <3> QED BY <1>2, <3>2, <3>3, <3>4
  <2> QED BY <2>1, <2>2, LeadsToVault
<1> QED BY <1>2, <1>3, <1>4 DEF Hidden

LEMMA LeadsToHidden ==
    ASSUME IInv, NEW s \in Sessions, NEW STATE e, LeadsTo(s, e)
    PROVE  /\ \A t \in Takedowns :
                  /\ (e["takedown"][t].status = "none") = (e["takedown"][t].on = "none")
                  /\ e["takedown"][t].on # "none" => e["resource"][e["takedown"][t].on] # "none"
                  /\ e["takedown"][t].status = "open" => Hidden(e, e["takedown"][t].on)
           /\ \A r \in Resources : e["resource"][r] = "none" => e["parent"][r] = "none"
<1>1. OpenHidden /\ "none" \notin Resources /\ db \in Tables
  BY WorkshopAssumption DEF IInv, TypedInv
<1>2. ASSUME NEW t \in Takedowns
      PROVE  /\ (e["takedown"][t].status = "none") = (e["takedown"][t].on = "none")
             /\ e["takedown"][t].on # "none" => e["resource"][e["takedown"][t].on] # "none"
             /\ e["takedown"][t].status = "open" => Hidden(e, e["takedown"][t].on)
  <2>1. CASE e["takedown"][t] = db["takedown"][t]
    <3> DEFINE on == db["takedown"][t].on
    <3>1. /\ (db["takedown"][t].status = "none") = (on = "none")
          /\ on # "none" => db["resource"][on] # "none"
          /\ db["takedown"][t].status = "open" => Hidden(db, on)
      BY <1>1 DEF OpenHidden
    <3>2. on \in Resources \cup {"none"}
      BY <1>1 DEF Tables, Request
    <3> HIDE DEF on
    <3>3. on # "none" => e["resource"][on] # "none" /\ (Hidden(db, on) => Hidden(e, on))
      BY <3>1, <3>2, HiddenStays
    <3> QED BY <2>1, <3>1, <3>3 DEF on
  <2>2. CASE \E c \in session[s] : c[2] = t /\ e["takedown"][t] = c[4] /\ RequestWritten(s, c)
    <3>1. PICK c \in session[s] : c[2] = t /\ e["takedown"][t] = c[4] /\ RequestWritten(s, c)
      BY <2>2
    <3> DEFINE on == c[4].on
    <3>2. /\ on \in Resources /\ c[4].status # "none" /\ db["resource"][on] # "none"
          /\ c[4].status = "open" =>
                /\ \A d \in Own(s, "resource", on) : d[4] = "takedown"
                /\ Own(s, "resource", on) = {} => Hidden(db, on)
      BY <3>1 DEF RequestWritten
    <3> HIDE DEF on
    <3>3. e["resource"][on] # "none" /\ (Hidden(db, on) => Hidden(e, on))
      BY <3>2, HiddenStays
    <3>4. ASSUME c[4].status = "open" PROVE Hidden(e, on)
      <4>1. CASE Own(s, "resource", on) = {}
        BY <3>2, <3>3, <3>4, <4>1
      <4>2. CASE Own(s, "resource", on) # {}
        <5>1. PICK d \in session[s] : d[1] = "resource" /\ d[2] = on /\ e["resource"][on] = d[4]
          BY <3>2, <4>2, LeadsToVault
        <5>2. d[4] = "takedown"
          BY <3>2, <3>4, <5>1 DEF Own
        <5> QED BY <5>1, <5>2 DEF Hidden
      <4> QED BY <4>1, <4>2
    <3> QED BY <1>1, <3>1, <3>2, <3>3, <3>4 DEF on
  <2> QED BY <2>1, <2>2, LeadsToVault
<1>3. ASSUME NEW r \in Resources, e["resource"][r] = "none" PROVE e["parent"][r] = "none"
  <2>1. db["resource"][r] = "none"
    BY <1>3, HiddenStays
  <2>2. e["parent"][r] = db["parent"][r]
    BY <1>3, LeadsToVault
  <2> QED BY <1>1, <2>1, <2>2 DEF OpenHidden
<1> QED BY <1>2, <1>3

\* What the sessions that stay open write fits the vault s leaves.
LEMMA CommitsVault ==
    ASSUME IInv, NEW s \in Sessions, Commit(s)
    PROVE  OpenHidden' /\ VaultWritten'
<1> DEFINE e == db'
           own(r, t, k) == {c \in session'[r] : c[1] = t /\ c[2] = k}
<1>1. /\ LeadsTo(s, e) /\ VaultWritten /\ OpenHidden /\ "none" \notin Resources
      /\ db \in Tables /\ \A r \in Sessions : \A c \in session[r] : Typed(c, Tables)
  BY CommitLeads, WorkshopAssumption DEF IInv, TypedInv
<1>2. session'[s] = {} /\ \A r \in Sessions : r # s => session'[r] = session[r]
  BY DEF Commit, IInv, TypedInv, SessionsTyped
<1>3. \A r \in Sessions : r # s => \A t, k : own(r, t, k) = Own(r, t, k)
  BY <1>2 DEF Own
<1>4. \A t, k : own(s, t, k) = {}
  BY <1>2
<1>5. \A r \in Sessions : \A c \in session'[r] : r # s /\ c \in session[r] /\ session'[r] = session[r]
  BY <1>2
<1> HIDE DEF e, own
<1>6. \A r \in Sessions : \A c \in session[r] :
          /\ c[1] = "takedown" => c[2] \in Takedowns
          /\ c[1] = "resource" => c[2] \in Resources
          /\ c[1] = "parent" => c[2] \in Resources
  BY <1>1, TableRows DEF Typed
<1>7. /\ \A t \in Takedowns : Own(s, "takedown", t) = {} => e["takedown"][t] = db["takedown"][t]
      /\ \A r \in Resources : Own(s, "resource", r) = {} => e["resource"][r] = db["resource"][r]
  BY <1>1, TableRows DEF LeadsTo, VaultTables
<1>8. OpenHidden'
  BY <1>1, LeadsToHidden DEF OpenHidden, Hidden, Excused, e
<1>9. ASSUME NEW r \in Sessions, NEW c \in session'[r], c[1] = "takedown"
      PROVE  /\ c[4].on \in Resources /\ c[4].status # "none" /\ e["resource"][c[4].on] # "none"
             /\ IF c[4].status = "open"
                THEN /\ e["takedown"][c[2]] = NoRequest
                     /\ \A q \in Sessions \ {r} : own(q, "takedown", c[2]) = {}
                     /\ \A d \in own(r, "resource", c[4].on) : d[4] = "takedown"
                     /\ own(r, "resource", c[4].on) = {} => Hidden(e, c[4].on)
                ELSE e["takedown"][c[2]].on = c[4].on
  <2>1. r # s /\ c \in session[r] /\ c[2] \in Takedowns /\ RequestWritten(r, c)
    BY <1>1, <1>5, <1>6, <1>9 DEF VaultWritten
  <2>2. own(r, "resource", c[4].on) = Own(r, "resource", c[4].on)
    BY <1>3, <2>1
  <2>3. /\ c[4].on \in Resources /\ c[4].status # "none" /\ e["resource"][c[4].on] # "none"
        /\ Hidden(db, c[4].on) => Hidden(e, c[4].on)
    BY <1>1, <2>1, HiddenStays DEF RequestWritten
  <2>4. ASSUME c[4].status = "open", NEW q \in Sessions \ {r} PROVE own(q, "takedown", c[2]) = {}
    BY <1>3, <1>4, <2>1, <2>4 DEF RequestWritten
  <2>5. c[4].status = "open" => e["takedown"][c[2]] = NoRequest
    BY <1>7, <2>1 DEF RequestWritten
  <2>6. ASSUME c[4].status # "open" PROVE e["takedown"][c[2]].on = c[4].on
    <3>1. db["takedown"][c[2]].on = c[4].on
      BY <2>1, <2>6 DEF RequestWritten
    <3>2. CASE e["takedown"][c[2]] = db["takedown"][c[2]]
      BY <3>1, <3>2
    <3>3. CASE \E d \in session[s] : d[2] = c[2] /\ e["takedown"][c[2]] = d[4] /\ RequestWritten(s, d)
      BY <1>1, <2>3, <3>1, <3>3 DEF RequestWritten, NoRequest
    <3> QED BY <1>1, <2>1, <3>2, <3>3, LeadsToVault
  <2> QED BY <2>1, <2>2, <2>3, <2>4, <2>5, <2>6 DEF RequestWritten
<1>10. ASSUME NEW r \in Sessions, NEW c \in session'[r], c[1] = "resource"
       PROVE  /\ c[4] # "none"
              /\ IF c[3] = "none"
                 THEN e["resource"][c[2]] = "none" /\ \A q \in Sessions \ {r} : own(q, "resource", c[2]) = {}
                 ELSE /\ e["resource"][c[2]] # "none"
                      /\ c[4] = "active" =>
                            \/ Excused(e, c[2])
                            \/ \E d \in session'[r] : d[1] = "takedown" /\ d[4].on = c[2] /\ d[4].status # "open"
              /\ c[4] = "superseded" => \E d \in session'[r] : d[1] = "parent" /\ d[4] = c[2]
  <2>1. r # s /\ c \in session[r] /\ session'[r] = session[r] /\ c[2] \in Resources /\ ResourceWritten(r, c)
    BY <1>1, <1>5, <1>6, <1>10 DEF VaultWritten
  <2>2. ASSUME c[3] = "none", NEW q \in Sessions \ {r} PROVE own(q, "resource", c[2]) = {}
    BY <1>3, <1>4, <2>1, <2>2 DEF ResourceWritten
  <2>3. c[3] = "none" => e["resource"][c[2]] = "none"
    BY <1>7, <2>1 DEF ResourceWritten
  <2>4. c[3] # "none" => e["resource"][c[2]] # "none"
    BY <1>1, <2>1, HiddenStays DEF ResourceWritten
  <2>5. Excused(db, c[2]) => Excused(e, c[2])
    BY <1>1, <2>1, HiddenStays
  <2> QED BY <2>1, <2>2, <2>3, <2>4, <2>5 DEF ResourceWritten
<1>11. ASSUME NEW r \in Sessions, NEW c \in session'[r], c[1] = "parent"
       PROVE  e["resource"][c[2]] = "none" /\ \E d \in own(r, "resource", c[2]) : d[3] = "none"
  <2>1. r # s /\ c \in session[r] /\ c[2] \in Resources /\ ParentWritten(r, c)
    BY <1>1, <1>5, <1>6, <1>11 DEF VaultWritten
  <2>2. PICK d \in Own(r, "resource", c[2]) : d[3] = "none"
    BY <2>1 DEF ParentWritten
  <2>3. d \in session[r] /\ d[1] = "resource" /\ d[2] = c[2]
    BY <2>2 DEF Own
  <2>4. ResourceWritten(r, d)
    BY <1>1, <2>3 DEF VaultWritten
  <2>5. Own(s, "resource", c[2]) = {} /\ db["resource"][c[2]] = "none"
    BY <2>1, <2>2, <2>3, <2>4 DEF ResourceWritten
  <2>6. own(r, "resource", c[2]) = Own(r, "resource", c[2])
    BY <1>3, <2>1
  <2> QED BY <1>7, <2>1, <2>2, <2>5, <2>6
<1>12. VaultWritten'
  <2> USE DEF own, e
  <2>1. \A r \in Sessions : \A c \in session'[r] : c[1] = "takedown" => RequestWritten(r, c)'
    BY <1>9 DEF RequestWritten, Own, NoRequest, Hidden, Excused
  <2>2. \A r \in Sessions : \A c \in session'[r] : c[1] = "resource" => ResourceWritten(r, c)'
    BY <1>10 DEF ResourceWritten, Own, Excused
  <2>3. \A r \in Sessions : \A c \in session'[r] : c[1] = "parent" => ParentWritten(r, c)'
    BY <1>11 DEF ParentWritten, Own
  <2> QED BY <2>1, <2>2, <2>3 DEF VaultWritten
<1> QED BY <1>8, <1>12

LEMMA CommitsTyped ==
    ASSUME TypedInv, NEW s \in Sessions, Commit(s)
    PROVE  TypedInv'
<1>1. /\ session'[s] = {} /\ SessionsTyped'
      /\ \A r \in Sessions : r # s => session'[r] = session[r]
      /\ overlapped' = overlapped
  BY DEF Commit, TypedInv, SessionsTyped
<1>2. Shaped(db') /\ DOMAIN db' = DOMAIN db /\ \A t \in DOMAIN db : DOMAIN db'[t] = DOMAIN db[t]
  BY Committed
<1>3. db' = [t \in Names |-> db'[t]]
  BY <1>2, TableRows DEF Shaped, TypedInv
<1>4. /\ db \in Tables /\ Booked = {"credits"} /\ \A c \in session[s] : Typed(c, Tables)
      /\ DOMAIN db = Names
  BY WorkshopAssumption, TableRows DEF TypedInv
<1>5. db'["resource"] \in [Resources -> {"none", "active", "superseded", "takedown", "removed"}]
  <2> DEFINE values == {"none", "active", "superseded", "takedown", "removed"}
  <2>1. "resource" \in DOMAIN db \ Booked
    BY <1>4 DEF Names
  <2>2. \A e \in Tables : e["resource"] \in [Resources -> values]
    BY DEF Tables
  <2> HIDE DEF values
  <2>3. db'["resource"] \in [Resources -> values]
    BY <1>4, <2>1, <2>2, CommitTable, Zenon
  <2> QED BY <2>3 DEF values
<1>6. db'["parent"] \in [Resources -> Resources \cup {"none"}]
  <2> DEFINE values == Resources \cup {"none"}
  <2>1. "parent" \in DOMAIN db \ Booked
    BY <1>4 DEF Names
  <2>2. \A e \in Tables : e["parent"] \in [Resources -> values]
    BY DEF Tables
  <2> HIDE DEF values
  <2>3. db'["parent"] \in [Resources -> values]
    BY <1>4, <2>1, <2>2, CommitTable, Zenon
  <2> QED BY <2>3 DEF values
<1>7. db'["score"] \in [Resources -> Nat]
  <2>1. "score" \in DOMAIN db \ Booked
    BY <1>4 DEF Names
  <2>2. \A e \in Tables : e["score"] \in [Resources -> Nat]
    BY DEF Tables
  <2> QED BY <1>4, <2>1, <2>2, CommitTable, Zenon
<1>8. db'["takedown"] \in [Takedowns -> Request]
  <2>1. "takedown" \in DOMAIN db \ Booked
    BY <1>4 DEF Names
  <2>2. \A e \in Tables : e["takedown"] \in [Takedowns -> Request]
    BY DEF Tables
  <2> QED BY <1>4, <2>1, <2>2, CommitTable, Zenon
<1>9. db'["listing"] \in [Listings -> {"none", "listed", "gone"}]
  <2> DEFINE values == {"none", "listed", "gone"}
  <2>1. "listing" \in DOMAIN db \ Booked
    BY <1>4 DEF Names
  <2>2. \A e \in Tables : e["listing"] \in [Listings -> values]
    BY DEF Tables
  <2> HIDE DEF values
  <2>3. db'["listing"] \in [Listings -> values]
    BY <1>4, <2>1, <2>2, CommitTable, Zenon
  <2> QED BY <2>3 DEF values
<1>10. db'["endorsement_count"] \in [Listings -> Nat]
  <2>1. "endorsement_count" \in DOMAIN db \ Booked
    BY <1>4 DEF Names
  <2>2. \A e \in Tables : e["endorsement_count"] \in [Listings -> Nat]
    BY DEF Tables
  <2> QED BY <1>4, <2>1, <2>2, CommitTable, Zenon
<1>11. db'["endorsed_by"] \in [{"owner"} -> {"anyone", "nobody"}]
  <2> DEFINE values == {"anyone", "nobody"}
  <2>1. "endorsed_by" \in DOMAIN db \ Booked
    BY <1>4 DEF Names
  <2>2. \A e \in Tables : e["endorsed_by"] \in [{"owner"} -> values]
    BY DEF Tables
  <2> HIDE DEF values
  <2>3. db'["endorsed_by"] \in [{"owner"} -> values]
    BY <1>4, <2>1, <2>2, CommitTable, Zenon
  <2> QED BY <2>3 DEF values
<1>12. db'["mark"] \in [MarkIds -> Mark]
  <2>1. "mark" \in DOMAIN db \ Booked
    BY <1>4 DEF Names
  <2>2. \A e \in Tables : e["mark"] \in [MarkIds -> Mark]
    BY DEF Tables
  <2> QED BY <1>4, <2>1, <2>2, CommitTable, Zenon
<1>13. db'["points"] \in [MarkIds -> {"none", "paid", "voided"}]
  <2> DEFINE values == {"none", "paid", "voided"}
  <2>1. "points" \in DOMAIN db \ Booked
    BY <1>4 DEF Names
  <2>2. \A e \in Tables : e["points"] \in [MarkIds -> values]
    BY DEF Tables
  <2> HIDE DEF values
  <2>3. db'["points"] \in [MarkIds -> values]
    BY <1>4, <2>1, <2>2, CommitTable, Zenon
  <2> QED BY <2>3 DEF values
<1>14. db'["project"] \in [{"project"} -> {"none", "open", "closed"}]
  <2> DEFINE values == {"none", "open", "closed"}
  <2>1. "project" \in DOMAIN db \ Booked
    BY <1>4 DEF Names
  <2>2. \A e \in Tables : e["project"] \in [{"project"} -> values]
    BY DEF Tables
  <2> HIDE DEF values
  <2>3. db'["project"] \in [{"project"} -> values]
    BY <1>4, <2>1, <2>2, CommitTable, Zenon
  <2> QED BY <2>3 DEF values
<1>15. db'["filled"] \in [{"role"} -> 0..Slots]
  <2>1. "filled" \in DOMAIN db \ Booked
    BY <1>4 DEF Names
  <2>2. \A e \in Tables : e["filled"] \in [{"role"} -> 0..Slots]
    BY DEF Tables
  <2> QED BY <1>4, <2>1, <2>2, CommitTable, Zenon
<1>16. db'["item"] \in [{"item"} -> {"none", "open", "resolved", "removed"}]
  <2> DEFINE values == {"none", "open", "resolved", "removed"}
  <2>1. "item" \in DOMAIN db \ Booked
    BY <1>4 DEF Names
  <2>2. \A e \in Tables : e["item"] \in [{"item"} -> values]
    BY DEF Tables
  <2> HIDE DEF values
  <2>3. db'["item"] \in [{"item"} -> values]
    BY <1>4, <2>1, <2>2, CommitTable, Zenon
  <2> QED BY <2>3 DEF values
<1>17. db'["job"] \in [{"job"} -> {"none", "active", "closed"}]
  <2> DEFINE values == {"none", "active", "closed"}
  <2>1. "job" \in DOMAIN db \ Booked
    BY <1>4 DEF Names
  <2>2. \A e \in Tables : e["job"] \in [{"job"} -> values]
    BY DEF Tables
  <2> HIDE DEF values
  <2>3. db'["job"] \in [{"job"} -> values]
    BY <1>4, <2>1, <2>2, CommitTable, Zenon
  <2> QED BY <2>3 DEF values
<1>18. db'["official"] \in [{"job"} -> BOOLEAN]
  <2>1. "official" \in DOMAIN db \ Booked
    BY <1>4 DEF Names
  <2>2. \A e \in Tables : e["official"] \in [{"job"} -> BOOLEAN]
    BY DEF Tables
  <2> QED BY <1>4, <2>1, <2>2, CommitTable, Zenon
<1>19. db'["interview"] \in [{"interview"} -> {"none", "active"}]
  <2> DEFINE values == {"none", "active"}
  <2>1. "interview" \in DOMAIN db \ Booked
    BY <1>4 DEF Names
  <2>2. \A e \in Tables : e["interview"] \in [{"interview"} -> values]
    BY DEF Tables
  <2> HIDE DEF values
  <2>3. db'["interview"] \in [{"interview"} -> values]
    BY <1>4, <2>1, <2>2, CommitTable, Zenon
  <2> QED BY <2>3 DEF values
\* One credit more at each commit, whatever others have added since.
<1>20. db'["credits"] \in [{"item"} -> Nat]
  <2>1. /\ "credits" \in DOMAIN db /\ DOMAIN db["credits"] = {"item"}
        /\ db["credits"]["item"] \in Nat
    BY <1>4 DEF Tables
  <2>2. db'["credits"] = [k \in {"item"} |-> db'["credits"][k]]
    BY <1>2, <2>1 DEF Shaped
  <2>3. IF Own(s, "credits", "item") = {} THEN db'["credits"]["item"] = db["credits"]["item"]
        ELSE \E c \in Own(s, "credits", "item") : db'["credits"]["item"] = Written(db["credits"]["item"], c)
    <3>1. "credits" \in DOMAIN db /\ "item" \in DOMAIN db["credits"]
      BY <2>1
    <3> QED BY <3>1, CommitAt, Zenon
  <2>4. ASSUME NEW c \in Own(s, "credits", "item")
        PROVE  Written(db["credits"]["item"], c) = db["credits"]["item"] + 1
    <3>1. c \in session[s] /\ c[1] = "credits" /\ c[2] = "item"
      BY DEF Own
    <3>2. c[4] = c[3] + 1 /\ Typed(c, Tables)
      BY <3>1 DEF TypedInv
    <3>3. \E d \in Tables : c[3] = d["credits"]["item"]
      BY <3>1, <3>2 DEF Typed
    <3>4. c[3] \in Nat
      BY <3>3 DEF Tables
    <3> QED BY <1>4, <2>1, <3>1, <3>2, <3>4 DEF Written
  <2>5. db'["credits"]["item"] \in Nat
    BY <2>1, <2>3, <2>4
  <2> QED BY <2>2, <2>5
<1>21. db'["handle"] \in [Users -> Handles]
  <2>1. "handle" \in DOMAIN db \ Booked
    BY <1>4 DEF Names
  <2>2. \A e \in Tables : e["handle"] \in [Users -> Handles]
    BY DEF Tables
  <2> QED BY <1>4, <2>1, <2>2, CommitTable, Zenon
<1>22. db' \in Tables
  BY <1>3, <1>5, <1>6, <1>7, <1>8, <1>9, <1>10, <1>11, <1>12, <1>13, <1>14, <1>15, <1>16, <1>17, <1>18, <1>19, <1>20, <1>21
     DEF Tables, Names
<1>23. \A r \in Sessions : \A c \in session'[r] :
          Typed(c, Tables)' /\ (c[1] = "credits" => c[4] = c[3] + 1)
  BY <1>1, <1>2 DEF TypedInv, Typed
<1> QED BY <1>1, <1>22, <1>23 DEF TypedInv

LEMMA CommitsSerial ==
    ASSUME IInv, NEW s \in Sessions, Commit(s)
    PROVE  SerialInv'
<1>1. Alone' /\ overlapped' = overlapped /\ (~overlapped' => Open' = {})
  BY AloneEnds DEF IInv, TypedInv, SerialInv
<1>2. s \in Open /\ db' = After(s)
  BY Committed
<1>3. ~overlapped => Good(After(s))
  BY <1>2 DEF IInv, SerialInv
<1>4. ~overlapped => Good(db)'
  BY <1>2, <1>3 DEF Good, Scored, Endorsed, Filled, Taken, MarksOn, Live, NoMark
<1> QED BY <1>1, <1>4 DEF SerialInv

LEMMA CommitsKeep ==
    ASSUME IInv, NEW s \in Sessions, Commit(s)
    PROVE  IInv'
<1>1. TypedInv'
  BY CommitsTyped DEF IInv
<1>2. Single'
  BY DEF Commit, IInv, TypedInv, SessionsTyped, Single
<1> QED BY <1>1, <1>2, CommitsMarks, CommitsVault, CommitsSerial DEF IInv

-----------------------------------------------------------------------------
(* A request is given up, or nothing happens.                              *)

\* What holds of sessions that each stay as they are or go away.
LEMMA DroppedKeeps ==
    ASSUME IInv, UNCHANGED <<db, overlapped>>, SessionsTyped', Alone',
           \A s \in Sessions : session'[s] = session[s] \/ session'[s] = {},
           ~overlapped => \A s \in Open' : After(s)' = After(s)
    PROVE  IInv'
<1> DEFINE own(r, t, k) == {c \in session'[r] : c[1] = t /\ c[2] = k}
<1>1. \A r \in Sessions : \A c \in session'[r] : c \in session[r] /\ session'[r] = session[r]
  OBVIOUS
<1>2. \A r \in Sessions : \A c \in session'[r] : \A t, k : own(r, t, k) = Own(r, t, k)
  BY <1>1 DEF Own
<1>3. \A q \in Sessions : \A t, k : Own(q, t, k) = {} => own(q, t, k) = {}
  BY DEF Own
<1>4. TypedInv' /\ Single'
  BY <1>1 DEF IInv, TypedInv, Typed, Single
<1>5. MarksPaid'
  BY DEF IInv, MarksPaid, Fits, NoMark, Paying
<1>6. OpenHidden'
  BY DEF IInv, OpenHidden, Hidden, Excused
<1>7. MarksWritten'
  <2>1. MarksWritten
    BY DEF IInv
  <2>2. ASSUME NEW r \in Sessions, NEW c \in session'[r]
        PROVE  /\ c[1] = "points" => own(r, "mark", c[2]) # {}
               /\ c[1] = "mark" =>
                     /\ c[4] # NoMark /\ Fits(c[4])
                     /\ c[4].on \in Paying => (c[4].status = "put") = (c[3] = NoMark)
                     /\ own(r, "points", c[2]) =
                           IF c[4].on \notin Paying THEN {}
                           ELSE IF c[3] = NoMark THEN {<<"points", c[2], "none", "paid">>}
                           ELSE {<<"points", c[2], "paid", "voided">>}
                     /\ IF c[3] = NoMark
                        THEN db["mark"][c[2]] = NoMark /\ \A q \in Sessions \ {r} : own(q, "mark", c[2]) = {}
                        ELSE db["mark"][c[2]] # NoMark /\ db["mark"][c[2]].on = c[4].on
    <3>1. /\ c \in session[r]
          /\ own(r, "mark", c[2]) = Own(r, "mark", c[2]) /\ own(r, "points", c[2]) = Own(r, "points", c[2])
      BY <1>1, <1>2, <2>2
    <3>2. \A q \in Sessions : Own(q, "mark", c[2]) = {} => own(q, "mark", c[2]) = {}
      BY <1>3
    <3> HIDE DEF own
    <3> QED BY <2>1, <3>1, <3>2 DEF MarksWritten
  <2> QED BY <2>2 DEF MarksWritten, Own, Fits, NoMark, Paying
<1>8. VaultWritten'
  <2>1. VaultWritten
    BY DEF IInv
  <2>2. ASSUME NEW r \in Sessions, NEW c \in session'[r], c[1] = "takedown"
        PROVE  /\ c[4].on \in Resources /\ c[4].status # "none" /\ db["resource"][c[4].on] # "none"
               /\ IF c[4].status = "open"
                  THEN /\ db["takedown"][c[2]] = NoRequest
                       /\ \A q \in Sessions \ {r} : own(q, "takedown", c[2]) = {}
                       /\ \A d \in own(r, "resource", c[4].on) : d[4] = "takedown"
                       /\ own(r, "resource", c[4].on) = {} => Hidden(db, c[4].on)
                  ELSE db["takedown"][c[2]].on = c[4].on
    <3>1. RequestWritten(r, c) /\ own(r, "resource", c[4].on) = Own(r, "resource", c[4].on)
      BY <1>1, <1>2, <2>1, <2>2 DEF VaultWritten
    <3>2. \A q \in Sessions : Own(q, "takedown", c[2]) = {} => own(q, "takedown", c[2]) = {}
      BY <1>3
    <3> HIDE DEF own
    <3> QED BY <3>1, <3>2 DEF RequestWritten
  <2>3. ASSUME NEW r \in Sessions, NEW c \in session'[r], c[1] = "resource"
        PROVE  /\ c[4] # "none"
               /\ IF c[3] = "none"
                  THEN db["resource"][c[2]] = "none" /\ \A q \in Sessions \ {r} : own(q, "resource", c[2]) = {}
                  ELSE /\ db["resource"][c[2]] # "none"
                       /\ c[4] = "active" =>
                             \/ Excused(db, c[2])
                             \/ \E d \in session'[r] : d[1] = "takedown" /\ d[4].on = c[2] /\ d[4].status # "open"
               /\ c[4] = "superseded" => \E d \in session'[r] : d[1] = "parent" /\ d[4] = c[2]
    <3>1. ResourceWritten(r, c) /\ session'[r] = session[r]
      BY <1>1, <2>1, <2>3 DEF VaultWritten
    <3>2. \A q \in Sessions : Own(q, "resource", c[2]) = {} => own(q, "resource", c[2]) = {}
      BY <1>3
    <3> HIDE DEF own
    <3> QED BY <3>1, <3>2 DEF ResourceWritten
  <2>4. ASSUME NEW r \in Sessions, NEW c \in session'[r], c[1] = "parent"
        PROVE  db["resource"][c[2]] = "none" /\ \E d \in own(r, "resource", c[2]) : d[3] = "none"
    <3>1. ParentWritten(r, c) /\ own(r, "resource", c[2]) = Own(r, "resource", c[2])
      BY <1>1, <1>2, <2>1, <2>4 DEF VaultWritten
    <3> HIDE DEF own
    <3> QED BY <3>1 DEF ParentWritten
  <2>5. \A r \in Sessions : \A c \in session'[r] : c[1] = "takedown" => RequestWritten(r, c)'
    BY <2>2 DEF RequestWritten, Own, NoRequest, Hidden, Excused
  <2>6. \A r \in Sessions : \A c \in session'[r] : c[1] = "resource" => ResourceWritten(r, c)'
    BY <2>3 DEF ResourceWritten, Own, Excused
  <2>7. \A r \in Sessions : \A c \in session'[r] : c[1] = "parent" => ParentWritten(r, c)'
    BY <2>4 DEF ParentWritten, Own
  <2> QED BY <2>5, <2>6, <2>7 DEF VaultWritten
<1>9. SerialInv'
  <2> USE DEF Good, Scored, Endorsed, Filled, Taken, MarksOn, Live, NoMark
  <2>1. Open' \subseteq Open
    BY DEF Open
  <2>2. ~overlapped => Good(db) /\ \A r \in Open : Good(After(r))
    BY DEF IInv, SerialInv
  <2>3. ~overlapped' => Good(db)'
    BY <2>2
  <2>4. ASSUME NEW r \in Open', ~overlapped PROVE Good(After(r))'
    <3> DEFINE d == After(r)
               e == After(r)'
    <3>1. e = d /\ Good(d)
      BY <2>1, <2>2, <2>4
    <3> HIDE DEF d, e
    <3>2. Good(e)
      BY <3>1
    <3> QED BY <3>2 DEF e
  <2> QED BY <2>3, <2>4 DEF SerialInv
<1> QED BY <1>4, <1>5, <1>6, <1>7, <1>8, <1>9 DEF IInv

LEMMA RollbackKeeps ==
    ASSUME IInv, NEW s \in Sessions, Rollback(s)
    PROVE  IInv'
<1>1. /\ SessionsTyped' /\ Alone' /\ session'[s] = {}
      /\ \A r \in Sessions : r # s => session'[r] = session[r]
      /\ ~overlapped' => Open' = {}
  BY AloneEnds DEF IInv, TypedInv, SerialInv
<1>2. UNCHANGED <<db, overlapped>>
  BY DEF Rollback
<1> QED BY <1>1, <1>2, DroppedKeeps

LEMMA StutterKeeps ==
    ASSUME IInv, UNCHANGED vars
    PROVE  IInv'
<1>1. UNCHANGED <<db, overlapped>> /\ UNCHANGED session /\ Open' = Open
  BY DEF requestVars, vars, Open
<1>2. SessionsTyped' /\ Alone'
  BY <1>1 DEF IInv, TypedInv, SessionsTyped, SerialInv, Alone
<1>3. \A r \in Sessions : After(r)' = After(r)
  BY <1>1, AfterSame
<1>4. \A r \in Open' : After(r)' = After(r)
  BY <1>1, <1>3 DEF Open
<1> QED BY <1>1, <1>2, <1>4, DroppedKeeps

LEMMA InitWorks == Init => IInv
<1> SUFFICES ASSUME Init PROVE IInv
  OBVIOUS
<1>1. session = [s \in Sessions |-> {}] /\ overlapped = FALSE /\ Open = {}
  BY DEF Init, Open
<1>2. db \in Tables
  <2>1. /\ NoMark \in Mark /\ [on |-> "none", status |-> "none"] \in Request
        /\ 0 \in 0..Slots
    BY WorkshopAssumption DEF Mark, Request
  <2>2. [u \in Users |-> u] \in [Users -> Handles]
    BY DEF Handles
  <2> QED BY <2>1, <2>2 DEF Init, Tables
<1>3. MarksPaid /\ OpenHidden
  BY DEF Init, MarksPaid, Fits, NoMark, OpenHidden
<1>4. MarksWritten /\ VaultWritten /\ Single
  BY <1>1 DEF MarksWritten, VaultWritten, Single
<1>5. Good(db)
  <2>1. /\ \A x : MarksOn(db, x) = {}
        /\ Taken(db) = {}
    BY DEF Init, MarksOn, Live, Taken
  <2>2. Cardinality({}) = 0
    BY FS_EmptySet
  <2>3. Cardinality(Taken(db)) = 0 /\ \A x : Cardinality(MarksOn(db, x)) = 0
    BY <2>1, <2>2, Zenon
  <2>4. Scored(db)
    BY <2>3 DEF Init, Scored
  <2>5. Endorsed(db)
    BY DEF Init, Endorsed
  <2>6. Filled(db)
    BY <2>3 DEF Init, Filled
  <2> QED BY <2>4, <2>5, <2>6 DEF Good
<1> QED BY <1>1, <1>2, <1>3, <1>4, <1>5 DEF IInv, TypedInv, SessionsTyped, SerialInv, Alone

LEMMA NextWorks == IInv /\ [Next]_vars => IInv'
<1> SUFFICES ASSUME IInv, [Next]_vars PROVE IInv'
  OBVIOUS
<1>1. CASE UNCHANGED vars
  BY <1>1, StutterKeeps
<1>2. CASE Next
  <2>1. PICK s \in Sessions : Vault(s) \/ Profile(s) \/ Boards(s) \/ Commit(s) \/ Rollback(s)
    BY <1>2 DEF Next, End
  <2>2. CASE Commit(s) \/ Rollback(s)
    BY <2>2, CommitsKeep, RollbackKeeps
  <2>3. CASE Vault(s) \/ Profile(s) \/ Boards(s)
    <3>1. Sound(s)
      BY <2>3, HandlersSound DEF IInv, TypedInv
    <3> QED BY <3>1, BeginsKeep
  <2> QED BY <2>1, <2>2, <2>3
<1> QED BY <1>1, <1>2

LEMMA WorkshopInvariant == Spec => []IInv
<1> QED BY InitWorks, NextWorks, PTL DEF Spec

\* Every table keeps its columns' types, and so does what is still to be
\* written, whatever overlaps.
THEOREM WorkshopTyped == Spec => []TypeOK
<1>1. IInv => TypeOK
  BY DEF IInv, TypedInv, TypeOK, ChangesTyped, Typed
<1> QED BY <1>1, WorkshopInvariant, PTL

\* The file of takedown is out of reach until a decision or a newer version, for
\* any number of resources and takedown requests, however uploads, decisions and
\* further requests about it overlap.
THEOREM TakedownHides == Spec => []TakenDownIsHidden
<1>1. ASSUME IInv PROVE TakenDownIsHidden
  <2> SUFFICES ASSUME NEW t \in Takedowns, db["takedown"][t].status = "open",
                      Downloadable(db["takedown"][t].on)
               PROVE  \/ \E o \in Takedowns \ {t} :
                             db["takedown"][o].on = db["takedown"][t].on /\ db["takedown"][o].status # "open"
                      \/ \E new \in Resources : db["parent"][new] = db["takedown"][t].on
    BY DEF TakenDownIsHidden
  <2>1. Hidden(db, db["takedown"][t].on)
    BY <1>1 DEF IInv, OpenHidden
  <2> QED BY <2>1 DEF Hidden, Excused, Downloadable
<1> QED BY <1>1, WorkshopInvariant, PTL

\* A vote or an endorsement and its points come and go together, for any number
\* of members, however toggles overlap; with no overlap the score, the count of a
\* skill listed anew and the slots filled follow the marks.
THEOREM MarksAreCounted == Spec => []MarksCount
<1>1. ASSUME IInv PROVE MarksCount
  <2>1. ASSUME NEW i \in MarkIds
        PROVE  (db["points"][i] = "paid") = (Live(db["mark"][i]) /\ db["mark"][i].status = "put")
    BY <1>1 DEF IInv, MarksPaid, Live, NoMark
  <2>2. ~overlapped => Scored(db) /\ Endorsed(db) /\ Filled(db)
    BY <1>1 DEF IInv, SerialInv, Good
  <2> QED BY <2>1, <2>2 DEF MarksCount, Scored, Endorsed, Filled, Taken, Listed
<1> QED BY <1>1, WorkshopInvariant, PTL
=============================================================================
