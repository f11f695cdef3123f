------------------------------ MODULE Workshop ------------------------------
(***************************************************************************)
(* What members publish and what others put on it: resources of the vault,   *)
(* their votes and takedowns (app/routers/vault.py, decide_takedown of        *)
(* app/routers/moderation.py), a profile's skill, its endorsements and        *)
(* followers (profiles.py, app/api/routes/people.py, community.py), a project *)
(* with one role (projects.py), a lost item and a job listing                 *)
(* (lostfound.py, opportunities.py).  One member, the owner, publishes.       *)
(*                                                                         *)
(* Votes, endorsements, follows and applications are rows of one kind here,   *)
(* marks: each is put on something by a member, who has one of it, under an   *)
(* id that is never given again.  Each handler is a request of module         *)
(* Requests; files, texts, notifications and the audit log are left out.      *)
(***************************************************************************)
EXTENDS Requests

CONSTANTS
    Members,     \* others than the owner
    Resources,   \* bound: uploads
    Listings,    \* bound: rows of user_skills for the skill
    MarkIds,     \* bound: marks ever put
    Takedowns,   \* bound: takedown requests
    Slots,       \* project_roles.slots, between 1 and 20
    MaxCredits   \* bound: times the lost item is resolved

ASSUME WorkshopAssumption ==
    /\ {"none", "skill", "owner", "role", "project"} \cap Resources = {} /\ Listings \subseteq Nat
    /\ MarkIds \subseteq Nat /\ Takedowns \subseteq Nat
    /\ IsFiniteSet(MarkIds) /\ IsFiniteSet(Members)
    /\ Slots \in 1..20 /\ MaxCredits \in Nat
    /\ Unique = {} /\ Booked = {"credits"}

vars == requestVars

-----------------------------------------------------------------------------
(* Rows of the tables.                                                     *)

\* An application is on the role it names, or on the project.
Targets == Resources \cup {"skill", "owner", "role", "project"}
NoMark == [on |-> "none", by |-> "none", status |-> "none"]
Mark == {NoMark} \cup
        [on : Targets, by : Members, status : {"put", "pending", "accepted", "declined", "gone"}]

Request == [on : Resources \cup {"none"}, status : {"none", "open", "upheld", "dismissed"}]

\* Everybody signed up under a handle, and one more is free.
Users == Members \cup {"owner"}
Handles == Users \cup {"free"}

Tables ==
    [resource : [Resources -> {"none", "active", "superseded", "takedown", "removed"}],
     parent   : [Resources -> Resources \cup {"none"}],
     score    : [Resources -> Nat],
     takedown : [Takedowns -> Request],
     listing  : [Listings -> {"none", "listed", "gone"}],
     endorsement_count : [Listings -> Nat],
     endorsed_by : [{"owner"} -> {"anyone", "nobody"}],
     handle   : [Users -> Handles],
     mark     : [MarkIds -> Mark],
     points   : [MarkIds -> {"none", "paid", "voided"}],
     project  : [{"project"} -> {"none", "open", "closed"}],
     filled   : [{"role"} -> 0..Slots],
     item     : [{"item"} -> {"none", "open", "resolved", "removed"}],
     credits  : [{"item"} -> Nat],
     job      : [{"job"} -> {"none", "active", "closed"}],
     official : [{"job"} -> BOOLEAN],
     interview : [{"interview"} -> {"none", "active"}]]

TypeOK == db \in Tables /\ ChangesTyped /\ overlapped \in BOOLEAN

Init ==
    /\ db = [resource |-> [r \in Resources |-> "none"],
             parent   |-> [r \in Resources |-> "none"],
             score    |-> [r \in Resources |-> 0],
             takedown |-> [t \in Takedowns |-> [on |-> "none", status |-> "none"]],
             listing  |-> [k \in Listings |-> "none"],
             endorsement_count |-> [k \in Listings |-> 0],
             endorsed_by |-> [o \in {"owner"} |-> "anyone"],
             handle   |-> [u \in Users |-> u],
             mark     |-> [i \in MarkIds |-> NoMark],
             points   |-> [i \in MarkIds |-> "none"],
             project  |-> [p \in {"project"} |-> "none"],
             filled   |-> [r \in {"role"} |-> 0],
             item     |-> [l \in {"item"} |-> "none"],
             credits  |-> [l \in {"item"} |-> 0],
             job      |-> [j \in {"job"} |-> "none"],
             official |-> [j \in {"job"} |-> FALSE],
             interview |-> [x \in {"interview"} |-> "none"]]
    /\ session = [s \in Sessions |-> {}]
    /\ overlapped = FALSE

-----------------------------------------------------------------------------
(* Marks.                                                                  *)

\* The next id of a table no session has taken.
NextId(table, none) ==
    LET free == {i \in DOMAIN db[table] : db[table][i] = none /\ Writing(table, i) = {}}
    IN  {i \in free : \A j \in free : i <= j}

Live(m) == m # NoMark /\ m.status # "gone"

MarksOn(tables, target) == {i \in MarkIds : Live(tables.mark[i]) /\ tables.mark[i].on = target}

MarkOf(target, u) == {i \in MarksOn(db, target) : db.mark[i].by = u}

Put(i, target, u, status) == [db EXCEPT !.mark[i] = [on |-> target, by |-> u, status |-> status]]

Paid(d, i) == [d EXCEPT !.points[i] = "paid"]

\* Mutant: the points of the mark are not withdrawn with it.
PointsStay(d, i) == [d EXCEPT !.mark[i].status = "gone"]

Withdrawn(d, i) ==
    [d EXCEPT !.mark[i].status = "gone",
              !.points[i] = IF @ = "paid" THEN "voided" ELSE @]

\* Mutant: the count goes below zero.
OneLess(n) == n - 1

LessOne(n) == IF n > 0 THEN n - 1 ELSE 0

-----------------------------------------------------------------------------
(* The vault.                                                              *)

\* The earlier version is superseded whatever its status was.
Upload(s) ==
    \E r \in Resources :
        /\ db.resource[r] = "none" /\ Writing("resource", r) = {}
        /\ LET new == [db EXCEPT !.resource[r] = "active"]
           IN  \/ Begin(s, new)
               \/ \E old \in Resources :
                      /\ db.resource[old] # "none"
                      /\ Begin(s, [new EXCEPT !.resource[old] = "superseded", !.parent[r] = old])

Downloadable(r) == db.resource[r] \in {"active", "superseded"}

VoteResource(s, u, r) ==
    /\ db.resource[r] = "active"
    /\ \/ \E i \in MarkOf(r, u) : Begin(s, [Withdrawn(db, i) EXCEPT !.score[r] = LessOne(@)])
       \/ /\ MarkOf(r, u) = {}
          /\ \E i \in NextId("mark", NoMark) :
                 Begin(s, [Paid(Put(i, r, u, "put"), i) EXCEPT !.score[r] = @ + 1])

\* Mutant: the file stays where it is until a moderator decides.
LeftVisible(d, r) == d

PulledDown(d, r) == [d EXCEPT !.resource[r] = "takedown"]

Takedown(s, r) ==
    /\ db.resource[r] # "none"
    /\ \E t \in NextId("takedown", [on |-> "none", status |-> "none"]) :
           Begin(s, PulledDown([db EXCEPT !.takedown[t] = [on |-> r, status |-> "open"]], r))

\* No look at the request's status, nor at other requests about the resource.
DecideTakedown(s, t) ==
    /\ db.takedown[t].status # "none"
    /\ LET r == db.takedown[t].on
       IN  \/ Begin(s, [db EXCEPT !.takedown[t].status = "upheld", !.resource[r] = "removed"])
           \/ Begin(s, [db EXCEPT !.takedown[t].status = "dismissed", !.resource[r] = "active"])

-----------------------------------------------------------------------------
(* The profile: a skill, endorsements, followers.                          *)

Listed == {k \in Listings : db.listing[k] = "listed"}

\* The limits of fifteen and twelve skills are left out: there is one.
AddSkill(s) ==
    /\ Listed = {}
    /\ \E k \in NextId("listing", "none") : Begin(s, [db EXCEPT !.listing[k] = "listed"])

AddSkillByApi(s) == AddSkill(s)

\* The endorsements stay.
RemoveSkill(s) == \E k \in Listed : Begin(s, [db EXCEPT !.listing[k] = "gone"])

RemoveSkillByApi(s) == RemoveSkill(s)

\* Of the profile only who may endorse matters here.
SaveProfile(s) ==
    \E policy \in {"anyone", "nobody"} : Begin(s, [db EXCEPT !.endorsed_by["owner"] = policy])

\* The JSON route takes a handle too: the member's own, or one nobody else has.
UpdateProfile(s, u) ==
    \E name \in Handles \ {db.handle[v] : v \in Users \ {u}} :
    \E policy \in IF u = "owner" THEN {"anyone", "nobody"} ELSE {db.endorsed_by["owner"]} :
        Begin(s, [db EXCEPT !.handle[u] = name, !.endorsed_by["owner"] = policy])

\* A toggle, which neither way is open to those the owner's policy excludes.
Endorse(s, u) ==
    /\ db.endorsed_by["owner"] = "anyone"
    /\ \E k \in Listed :
        \/ \E i \in MarkOf("skill", u) :
               Begin(s, [Withdrawn(db, i) EXCEPT !.endorsement_count[k] = LessOne(@)])
        \/ /\ MarkOf("skill", u) = {}
           /\ \E i \in NextId("mark", NoMark) :
                  Begin(s, [Paid(Put(i, "skill", u, "put"), i) EXCEPT !.endorsement_count[k] = @ + 1])

ToggleFollow(s, u) ==
    \/ \E i \in MarkOf("owner", u) : Begin(s, Withdrawn(db, i))
    \/ /\ MarkOf("owner", u) = {}
       /\ \E i \in NextId("mark", NoMark) : Begin(s, Put(i, "owner", u, "pending"))

DecideFollow(s, i) ==
    /\ i \in MarksOn(db, "owner") /\ db.mark[i].status = "pending"
    /\ \/ Begin(s, [db EXCEPT !.mark[i].status = "accepted"])
       \/ Begin(s, Withdrawn(db, i))

RemoveFollower(s, i) ==
    /\ i \in MarksOn(db, "owner") /\ db.mark[i].status = "accepted"
    /\ Begin(s, Withdrawn(db, i))

-----------------------------------------------------------------------------
(* The project, the lost item, the listing.                                *)

CreateProject(s) == db.project["project"] = "none" /\ Begin(s, [db EXCEPT !.project["project"] = "open"])

Apply(s, u) ==
    /\ db.project["project"] = "open"
    /\ MarkOf("role", u) \cup MarkOf("project", u) = {}
    /\ \E target \in {"role", "project"} : \E i \in NextId("mark", NoMark) :
           Begin(s, Put(i, target, u, "pending"))

\* Accepting again fills another slot, and declining frees none.
DecideApplication(s, i) ==
    \/ /\ i \in MarksOn(db, "role")
       /\ Begin(s, [db EXCEPT !.mark[i].status = "accepted",
                              !.filled["role"] = IF @ < Slots THEN @ + 1 ELSE Slots])
    \/ /\ i \in MarksOn(db, "project")
       /\ Begin(s, [db EXCEPT !.mark[i].status = "accepted"])
    \/ /\ i \in MarksOn(db, "role") \cup MarksOn(db, "project")
       /\ Begin(s, [db EXCEPT !.mark[i].status = "declined"])

SetStatus(s) ==
    /\ db.project["project"] # "none"
    /\ \E status \in {"open", "closed"} : Begin(s, [db EXCEPT !.project["project"] = status])

ReportItem(s) == db.item["item"] = "none" /\ Begin(s, [db EXCEPT !.item["item"] = "open"])

\* A helper who is named is credited each time.
Resolve(s) ==
    /\ db.item["item"] # "none"
    /\ \/ Begin(s, [db EXCEPT !.item["item"] = "resolved"])
       \/ /\ db.credits["item"] < MaxCredits
          /\ Begin(s, [db EXCEPT !.item["item"] = "resolved", !.credits["item"] = @ + 1])

DeleteItem(s) == db.item["item"] # "none" /\ Begin(s, [db EXCEPT !.item["item"] = "removed"])

CreateJob(s) == db.job["job"] = "none" /\ Begin(s, [db EXCEPT !.job["job"] = "active"])

MarkOfficial(s) == db.job["job"] # "none" /\ Begin(s, [db EXCEPT !.official["job"] = ~@])

CloseJob(s) == db.job["job"] # "none" /\ Begin(s, [db EXCEPT !.job["job"] = "closed"])

CreateInterview(s) ==
    db.interview["interview"] = "none" /\ Begin(s, [db EXCEPT !.interview["interview"] = "active"])

-----------------------------------------------------------------------------
(* The end of a request.                                                   *)

\* A project has one application of a member, whichever role it names.
Place(target) == IF target = "role" THEN "project" ELSE target

\* The unique constraints: one mark of a member in a place, one row per skill,
\* one member of a handle.
Once(tables) ==
    /\ \A i, j \in MarkIds :
           /\ i # j /\ Live(tables.mark[i]) /\ Live(tables.mark[j])
           => Place(tables.mark[i].on) # Place(tables.mark[j].on) \/ tables.mark[i].by # tables.mark[j].by
    /\ Cardinality({k \in Listings : tables.listing[k] = "listed"}) <= 1
    /\ \A u, v \in Users : u # v => tables.handle[u] # tables.handle[v]

\* An UPDATE whose row was deleted meanwhile fails; a DELETE does not.
Updates(c) ==
    \/ c[1] = "mark" /\ c[3] # NoMark /\ c[4].status # "gone" /\ ~Live(db.mark[c[2]])
    \/ c[1] = "endorsement_count" /\ db.listing[c[2]] # "listed"

End(s) ==
    \/ /\ Once(Flush(session[s])) /\ ~\E c \in session[s] : Updates(c)
       /\ Commit(s)
    \/ Rollback(s)

Vault(s) ==
    \/ Upload(s)
    \/ \E r \in Resources : Takedown(s, r) \/ \E u \in Members : VoteResource(s, u, r)
    \/ \E t \in Takedowns : DecideTakedown(s, t)

Profile(s) ==
    \/ AddSkill(s) \/ AddSkillByApi(s) \/ RemoveSkill(s) \/ RemoveSkillByApi(s)
    \/ SaveProfile(s) \/ \E u \in Users : UpdateProfile(s, u)
    \/ \E u \in Members : Endorse(s, u) \/ ToggleFollow(s, u)
    \/ \E i \in MarkIds : DecideFollow(s, i) \/ RemoveFollower(s, i)

Boards(s) ==
    \/ CreateProject(s) \/ SetStatus(s)
    \/ \E u \in Members : Apply(s, u)
    \/ \E i \in MarkIds : DecideApplication(s, i)
    \/ ReportItem(s) \/ Resolve(s) \/ DeleteItem(s)
    \/ CreateJob(s) \/ MarkOfficial(s) \/ CloseJob(s) \/ CreateInterview(s)

Next == \E s \in Sessions : Vault(s) \/ Profile(s) \/ Boards(s) \/ End(s)

Spec == Init /\ [][Next]_vars

-----------------------------------------------------------------------------
(* Properties.                                                             *)

\* "A takedown pulls the file immediately, then a moderator decides" (takedown):
\* however requests overlap, a resource with an open request can be downloaded
\* only if another request about it was decided or a newer version replaced it.
TakenDownIsHidden ==
    \A t \in Takedowns : db.takedown[t].status = "open" =>
        LET r == db.takedown[t].on
        IN  Downloadable(r) => \/ \E o \in Takedowns \ {t} :
                                      db.takedown[o].on = r /\ db.takedown[o].status # "open"
                               \/ \E new \in Resources : db.parent[new] = r

\* An upvote or an endorsement has its points for as long as it stands, through
\* second thoughts and overlapping requests, and with no overlap the score
\* counts the votes, a skill listed anew counts no endorsement that is not there,
\* and a role has no fewer slots filled than applicants accepted, while it has any.
MarksCount ==
    /\ \A i \in MarkIds :
           (db.points[i] = "paid") = (Live(db.mark[i]) /\ db.mark[i].status = "put")
    /\ ~overlapped =>
           /\ \A r \in Resources : db.score[r] = Cardinality(MarksOn(db, r))
           /\ \A k \in Listed : db.endorsement_count[k] <= Cardinality(MarksOn(db, "skill"))
           /\ LET accepted == Cardinality({i \in MarksOn(db, "role") : db.mark[i].status = "accepted"})
              IN  db.filled["role"] >= accepted \/ db.filled["role"] = Slots
=============================================================================
