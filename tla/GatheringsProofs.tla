-------------------------- MODULE GatheringsProofs --------------------------
(***************************************************************************)
(* Places, tickets and confirmations, for any number of members, bookings,   *)
(* capacities and requests open at once.                                    *)
(***************************************************************************)
EXTENDS Gatherings, RequestsProofs, FiniteSetTheorems

\* Every counter of tables d is the number of rows it counts, and there is room.
EventCounted(d) ==
    /\ d["event"].rsvp_count = Cardinality(RowsIn(d["rsvp"], "going"))
    /\ Capacity > 0 => d["event"].rsvp_count <= Capacity

RoomCounted(d) ==
    /\ IF d["room"].status = "none"
       THEN RowsIn(d["seat"], "taken") = {} /\ d["room"].member_count = 1
       ELSE d["room"].member_count = Cardinality(RowsIn(d["seat"], "taken"))
    /\ Cardinality(RowsIn(d["seat"], "taken")) <= RoomCapacity

GroupCounted(d) ==
    IF d["group"].exists
    THEN d["group"].member_count = Cardinality(Members \ RowsIn(d["member"], "none"))
    ELSE Members \ RowsIn(d["member"], "none") = {} /\ d["group"].member_count = 1

Counted(d) == EventCounted(d) /\ RoomCounted(d) /\ GroupCounted(d)

Both(d, i) == \A side \in Sides : d["confirmed"][<<i, side>>]

\* Every ticket that was scanned has paid, and every booking confirmed by both.
Ticketed(d) == \A u \in Users : d["paid"][<<"rsvp", u>>] = (IF d["checked"][u] THEN 1 ELSE 0)

Confirmed(d) ==
    \A i \in Bookings :
        /\ d["credited"][i] = Both(d, i)
        /\ d["paid"][<<"booking", i>>] = (IF Both(d, i) THEN 1 ELSE 0)

\* What no handler does, whatever it has read: it unchecks no ticket and takes
\* back no confirmation, pays for a ticket only as it checks it, pays once, and
\* credits only what both have confirmed.
Paying(d, e) ==
    /\ \A u \in Users : d["checked"][u] => e["checked"][u]
    /\ \A u \in Users : e["paid"][<<"rsvp", u>>] # d["paid"][<<"rsvp", u>>] =>
           ~d["checked"][u] /\ e["checked"][u]
    /\ \A a \in Acts : e["paid"][a] \in {d["paid"][a], d["paid"][a] + 1}
    /\ \A c \in Bookings \X Sides : d["confirmed"][c] => e["confirmed"][c]
    /\ \A i \in Bookings : e["credited"][i] # d["credited"][i] => e["credited"][i] /\ Both(e, i)

Sound(s) ==
    \E result \in Tables :
        /\ Begin(s, result)
        /\ Counted(db) => Counted(result)
        /\ Ticketed(db) => Ticketed(result)
        /\ Confirmed(db) => Confirmed(result)
        /\ Paying(db, result)

-----------------------------------------------------------------------------
(* Counting rows.                                                          *)

LEMMA OneMore ==
    ASSUME NEW R, NEW V, NEW f \in [R -> V], NEW g \in [R -> V], NEW k \in R, NEW v,
           IsFiniteSet(R),
           \A j \in R : j # k => g[j] = f[j],
           f[k] # v, g[k] = v
    PROVE  Cardinality(RowsIn(g, v)) = Cardinality(RowsIn(f, v)) + 1
<1>1. RowsIn(g, v) = RowsIn(f, v) \cup {k} /\ k \notin RowsIn(f, v)
  BY DEF RowsIn
<1>2. IsFiniteSet(RowsIn(f, v))
  BY FS_Subset DEF RowsIn
<1>3. Cardinality(RowsIn(f, v) \cup {k}) = Cardinality(RowsIn(f, v)) + 1
  BY <1>1, <1>2, FS_AddElement
<1> QED BY <1>1, <1>3

LEMMA CountType ==
    ASSUME NEW R, NEW V, NEW f \in [R -> V], NEW v, IsFiniteSet(R)
    PROVE  IsFiniteSet(RowsIn(f, v)) /\ Cardinality(RowsIn(f, v)) \in Nat
<1>1. IsFiniteSet(RowsIn(f, v))
  BY FS_Subset DEF RowsIn
<1> QED BY <1>1, FS_CardinalityType

\* The rows that are not v.
LEMMA OneMoreLeft ==
    ASSUME NEW R, NEW V, NEW f \in [R -> V], NEW g \in [R -> V], NEW k \in R, NEW v,
           IsFiniteSet(R),
           \A j \in R : j # k => g[j] = f[j],
           f[k] = v, g[k] # v
    PROVE  Cardinality(R \ RowsIn(g, v)) = Cardinality(R \ RowsIn(f, v)) + 1
<1>1. R \ RowsIn(g, v) = (R \ RowsIn(f, v)) \cup {k} /\ k \notin R \ RowsIn(f, v)
  BY DEF RowsIn
<1>2. IsFiniteSet(R \ RowsIn(f, v))
  BY FS_Subset
<1>3. Cardinality((R \ RowsIn(f, v)) \cup {k}) = Cardinality(R \ RowsIn(f, v)) + 1
  BY <1>1, <1>2, FS_AddElement
<1> QED BY <1>1, <1>3

LEMMA LeftType ==
    ASSUME NEW R, NEW f, NEW v, IsFiniteSet(R)
    PROVE  Cardinality(R \ RowsIn(f, v)) \in Nat
<1>1. IsFiniteSet(R \ RowsIn(f, v))
  BY FS_Subset
<1> QED BY <1>1, FS_CardinalityType

LEMMA FiniteMembers ==
    /\ IsFiniteSet(Users) /\ IsFiniteSet(Members) /\ Host \in Members /\ Host \notin Users
    /\ Users \subseteq Members
  BY GatheringsAssumption, FS_AddElement DEF Members

-----------------------------------------------------------------------------
(* The event.                                                              *)

\* The tables two handlers' results share.
Kept(result, names) == \A t \in names : result[t] = db[t]

RoomTables == {"room", "seat"}
MentorTables == {"mentor", "booking", "confirmed", "credited"}

\* A handler that has nothing to do with tickets or confirmations.
LEMMA PaysNothing ==
    ASSUME db \in Tables, NEW result \in Tables,
           Kept(result, {"checked", "confirmed", "credited", "paid"})
    PROVE  /\ Ticketed(db) => Ticketed(result)
           /\ Confirmed(db) => Confirmed(result)
           /\ Paying(db, result)
<1>1. Ticketed(db) => Ticketed(result)
  BY DEF Kept, Ticketed
<1>2. Confirmed(db) => Confirmed(result)
  BY DEF Kept, Confirmed, Both
<1>3. Paying(db, result)
  BY DEF Kept, Paying
<1> QED BY <1>1, <1>2, <1>3

LEMMA CreateSound ==
    ASSUME db \in Tables, NEW s \in Sessions, CreateByForm(s)
    PROVE  Sound(s)
<1>1. PICK official \in BOOLEAN : Begin(s, Created(official))
  BY DEF CreateByForm
<1> DEFINE event == [db["event"] EXCEPT !.status = "active", !.official = official]
           result == [db EXCEPT !["event"] = event]
<1>2. Created(official) = result
  BY DEF Created, Tables, EventRow
<1>3. event \in EventRow /\ event.rsvp_count = db["event"].rsvp_count
  BY DEF Tables, EventRow
<1> HIDE DEF event
<1>4. result \in Tables
  BY <1>3 DEF Tables
<1>5. /\ Kept(result, RoomTables \cup MentorTables \cup {"rsvp", "checked", "group", "member", "paid"})
      /\ result["event"] = event
  BY DEF Tables, Kept, RoomTables, MentorTables
<1> HIDE DEF result
<1>6. Counted(db) => Counted(result)
  BY <1>3, <1>5 DEF Kept, RoomTables, Counted, EventCounted, RoomCounted, GroupCounted
<1>7. Kept(result, {"checked", "confirmed", "credited", "paid"})
  BY <1>5 DEF Kept, MentorTables
<1> QED BY <1>1, <1>2, <1>4, <1>6, <1>7, PaysNothing DEF Sound

\* An RSVP counts one more or one fewer.
LEMMA CancelledSound ==
    ASSUME db \in Tables, NEW s \in Sessions, NEW u \in Users,
           db["rsvp"][u] = "going", Begin(s, Cancelled(u))
    PROVE  Sound(s)
<1> DEFINE rsvp == [db["rsvp"] EXCEPT ![u] = "cancelled"]
           event == [db["event"] EXCEPT !.rsvp_count = LessOne(@)]
           result == [db EXCEPT !["rsvp"] = rsvp, !["event"] = event]
<1>1. Cancelled(u) = result
  BY DEF Cancelled, Tables, EventRow
<1>2. /\ rsvp \in [Users -> RsvpStates]
      /\ event \in EventRow /\ event.rsvp_count = LessOne(db["event"].rsvp_count)
  BY DEF Tables, EventRow, RsvpStates, LessOne
<1>3. EventCounted(db) =>
          /\ LessOne(db["event"].rsvp_count) = Cardinality(RowsIn(rsvp, "going"))
          /\ Capacity > 0 => Cardinality(RowsIn(rsvp, "going")) <= Capacity
  <2>1. /\ db["rsvp"] \in [Users -> RsvpStates] /\ rsvp \in [Users -> RsvpStates]
        /\ rsvp[u] # "going" /\ \A o \in Users : o # u => rsvp[o] = db["rsvp"][o]
    BY DEF Tables, RsvpStates
  <2> HIDE DEF rsvp, event, result
  <2>2. Cardinality(RowsIn(db["rsvp"], "going")) = Cardinality(RowsIn(rsvp, "going")) + 1
    BY <2>1, FiniteMembers, OneMore
  <2>3. Cardinality(RowsIn(rsvp, "going")) \in Nat
    BY <2>1, FiniteMembers, CountType
  <2> QED BY <2>2, <2>3, GatheringsAssumption DEF EventCounted, LessOne
<1> HIDE DEF rsvp, event
<1>4. result \in Tables
  BY <1>2 DEF Tables
<1>5. /\ Kept(result, RoomTables \cup MentorTables \cup {"checked", "group", "member", "paid"})
      /\ result["event"] = event /\ result["rsvp"] = rsvp
  BY DEF Tables, Kept, RoomTables, MentorTables
<1> HIDE DEF result
<1>6. Counted(db) => Counted(result)
  BY <1>2, <1>3, <1>5 DEF Kept, RoomTables, Counted, EventCounted, RoomCounted, GroupCounted
<1>7. Kept(result, {"checked", "confirmed", "credited", "paid"})
  BY <1>5 DEF Kept, MentorTables
<1> QED BY <1>1, <1>4, <1>6, <1>7, PaysNothing DEF Sound

LEMMA GoingSound ==
    ASSUME db \in Tables, NEW s \in Sessions, NEW u \in Users,
           db["rsvp"][u] # "going", ~Full, Begin(s, Going(u))
    PROVE  Sound(s)
<1> DEFINE rsvp == [db["rsvp"] EXCEPT ![u] = "going"]
           event == [db["event"] EXCEPT !.rsvp_count = @ + 1]
           result == [db EXCEPT !["rsvp"] = rsvp, !["event"] = event]
<1>1. Going(u) = result
  BY DEF Going, Tables, EventRow
<1>2. /\ rsvp \in [Users -> RsvpStates]
      /\ event \in EventRow /\ event.rsvp_count = db["event"].rsvp_count + 1
  BY DEF Tables, EventRow, RsvpStates
<1>3. EventCounted(db) =>
          /\ db["event"].rsvp_count + 1 = Cardinality(RowsIn(rsvp, "going"))
          /\ Capacity > 0 => Cardinality(RowsIn(rsvp, "going")) <= Capacity
  <2>1. Cardinality(RowsIn(rsvp, "going")) = Cardinality(RowsIn(db["rsvp"], "going")) + 1
    <3>1. /\ db["rsvp"] \in [Users -> RsvpStates] /\ rsvp \in [Users -> RsvpStates]
          /\ rsvp[u] = "going" /\ \A o \in Users : o # u => rsvp[o] = db["rsvp"][o]
      BY DEF Tables, RsvpStates
    <3> HIDE DEF rsvp
    <3> QED BY <3>1, FiniteMembers, OneMore
  <2>2. db["event"].rsvp_count \in Nat
    BY DEF Tables, EventRow
  <2> QED BY <2>1, <2>2, GatheringsAssumption DEF EventCounted, Full
<1> HIDE DEF rsvp, event
<1>4. result \in Tables
  BY <1>2 DEF Tables
<1>5. /\ Kept(result, RoomTables \cup MentorTables \cup {"checked", "group", "member", "paid"})
      /\ result["event"] = event /\ result["rsvp"] = rsvp
  BY DEF Tables, Kept, RoomTables, MentorTables
<1> HIDE DEF result
<1>6. Counted(db) => Counted(result)
  BY <1>2, <1>3, <1>5 DEF Kept, RoomTables, Counted, EventCounted, RoomCounted, GroupCounted
<1>7. Kept(result, {"checked", "confirmed", "credited", "paid"})
  BY <1>5 DEF Kept, MentorTables
<1> QED BY <1>1, <1>4, <1>6, <1>7, PaysNothing DEF Sound

LEMMA RsvpSound ==
    ASSUME db \in Tables, NEW s \in Sessions, NEW u \in Users, Toggle(s, u) \/ Rsvp(s, u)
    PROVE  Sound(s)
<1>1. \/ db["rsvp"][u] = "going" /\ Begin(s, Cancelled(u))
      \/ db["rsvp"][u] # "going" /\ ~Full /\ Begin(s, Going(u))
  BY DEF Toggle, Rsvp
<1> QED BY <1>1, CancelledSound, GoingSound

\* A ticket is checked and pays.
LEMMA ScanSound ==
    ASSUME db \in Tables, NEW s \in Sessions, NEW u \in Users, ScanByForm(s, u)
    PROVE  Sound(s)
<1> DEFINE checked == [db["checked"] EXCEPT ![u] = TRUE]
           event == [db["event"] EXCEPT !.checkin_count = @ + 1]
           paid == [db["paid"] EXCEPT ![<<"rsvp", u>>] = @ + 1]
           result == [db EXCEPT !["checked"] = checked, !["event"] = event, !["paid"] = paid]
<1>1. ~db["checked"][u] /\ Begin(s, result)
  <2>1. [db EXCEPT !.checked[u] = TRUE, !.event.checkin_count = @ + 1,
                   !.paid[<<"rsvp", u>>] = @ + 1] = result
    BY DEF Tables, EventRow
  <2> HIDE DEF result
  <2> QED BY <2>1 DEF ScanByForm, TicketUnused
<1>2. /\ checked \in [Users -> BOOLEAN]
      /\ event \in EventRow /\ event.rsvp_count = db["event"].rsvp_count
  BY DEF Tables, EventRow
<1>3. /\ paid \in [Acts -> Nat]
      /\ \A a \in Acts : paid[a] = (IF a = <<"rsvp", u>> THEN db["paid"][a] + 1 ELSE db["paid"][a])
      /\ <<"rsvp", u>> \in Acts
  BY DEF Tables, Acts
<1>4. \A o \in Users : checked[o] = (IF o = u THEN TRUE ELSE db["checked"][o])
  BY DEF Tables
<1> HIDE DEF checked, event, paid
<1>5. result \in Tables
  BY <1>2, <1>3 DEF Tables
<1>6. /\ Kept(result, RoomTables \cup MentorTables \cup {"rsvp", "group", "member"})
      /\ result["event"] = event /\ result["checked"] = checked /\ result["paid"] = paid
  BY DEF Tables, Kept, RoomTables, MentorTables
<1> HIDE DEF result
<1>7. Counted(db) => Counted(result)
  BY <1>2, <1>6 DEF Kept, RoomTables, Counted, EventCounted, RoomCounted, GroupCounted
<1>8. \A o \in Users : paid[<<"rsvp", o>>] =
          (IF o = u THEN db["paid"][<<"rsvp", o>>] + 1 ELSE db["paid"][<<"rsvp", o>>])
  BY <1>3 DEF Acts
<1>9. Ticketed(db) => Ticketed(result)
  <2>1. ASSUME NEW o \in Users, db["paid"][<<"rsvp", o>>] = (IF db["checked"][o] THEN 1 ELSE 0)
        PROVE  paid[<<"rsvp", o>>] = (IF checked[o] THEN 1 ELSE 0)
    <3>1. CASE o = u
      <4>1. ~db["checked"][o] /\ checked[o]
        BY <1>1, <1>4, <3>1
      <4>2. db["paid"][<<"rsvp", o>>] = 0
        BY <2>1, <4>1
      <4> QED BY <1>8, <3>1, <4>1, <4>2
    <3>2. CASE o # u
      BY <1>4, <1>8, <2>1, <3>2
    <3> QED BY <3>1, <3>2
  <2> QED BY <1>6, <2>1 DEF Ticketed
<1>10. \A i \in Bookings : paid[<<"booking", i>>] = db["paid"][<<"booking", i>>]
  BY <1>3 DEF Acts
<1>11. Confirmed(db) => Confirmed(result)
  BY <1>6, <1>10 DEF Confirmed, Both, Kept, MentorTables
<1>12. Paying(db, result)
  <2>1. \A a \in Acts : paid[a] \in {db["paid"][a], db["paid"][a] + 1}
    BY <1>3
  <2>2. \A o \in Users : paid[<<"rsvp", o>>] # db["paid"][<<"rsvp", o>>] => o = u
    BY <1>8
  <2> QED BY <1>1, <1>4, <1>6, <2>1, <2>2 DEF Paying, Kept, MentorTables
<1> QED BY <1>1, <1>5, <1>7, <1>9, <1>11, <1>12 DEF Sound

\* Closing pays the host and counts for the club: no place, no ticket.
LEMMA CloseSound ==
    ASSUME db \in Tables, NEW s \in Sessions, Close(s)
    PROVE  Sound(s)
<1> DEFINE event == [db["event"] EXCEPT !.status = "closed"]
           credit == IF db["event"].checkin_count > 0 THEN 1 ELSE 0
           paid == [db["paid"] EXCEPT ![<<"event", Host>>] = @ + credit]
           standing == [db["group"] EXCEPT !.events = 0, !.checkins = db["event"].checkin_count]
           group == IF db["event"].official THEN standing ELSE db["group"]
           result == [db EXCEPT !["event"] = event, !["paid"] = paid, !["group"] = group]
<1>1. Begin(s, result)
  <2> DEFINE closed == [db EXCEPT !.event.status = "closed"]
             credited == [closed EXCEPT !.paid[<<"event", Host>>] = @ + credit]
  <2>1. Begin(s, ClubStanding(credited))
    BY DEF Close
  <2>2. credited = [db EXCEPT !["event"] = event, !["paid"] = paid]
    BY DEF Tables, EventRow
  <2>3. /\ event.status = "closed" /\ event.official = db["event"].official
        /\ event.checkin_count = db["event"].checkin_count
    BY DEF Tables, EventRow
  <2>4. credited["event"] = event /\ credited["group"] = db["group"]
    BY <2>2 DEF Tables
  <2> HIDE DEF event, paid, credited, credit
  <2>5. CASE db["event"].official
    <3>1. ClubStanding(credited) = [credited EXCEPT !["group"] = standing]
      BY <2>2, <2>3, <2>4, <2>5 DEF ClubStanding, Tables, GroupRow
    <3>2. [credited EXCEPT !["group"] = standing] = result
      BY <2>2, <2>5 DEF Tables
    <3> QED BY <2>1, <3>1, <3>2
  <2>6. CASE ~db["event"].official
    <3>1. ClubStanding(credited) = credited
      BY <2>3, <2>4, <2>6 DEF ClubStanding
    <3>2. credited = result
      BY <2>2, <2>6 DEF Tables
    <3> QED BY <2>1, <3>1, <3>2
  <2> QED BY <2>5, <2>6
<1>2. event \in EventRow /\ event.rsvp_count = db["event"].rsvp_count
  BY DEF Tables, EventRow
<1>3. /\ paid \in [Acts -> Nat]
      /\ \A a \in Acts : paid[a] \in {db["paid"][a], db["paid"][a] + 1}
      /\ \A a \in Acts : a # <<"event", Host>> => paid[a] = db["paid"][a]
  <2>1. db["paid"] \in [Acts -> Nat] /\ (credit = 0 \/ credit = 1)
    BY DEF Tables
  <2> HIDE DEF credit
  <2>2. /\ paid \in [Acts -> Nat]
        /\ \A a \in Acts : paid[a] = (IF a = <<"event", Host>> THEN db["paid"][a] + credit ELSE db["paid"][a])
    <3>1. \A a \in Acts : paid[a] = (IF a = <<"event", Host>> THEN db["paid"][a] + credit ELSE db["paid"][a])
      BY <2>1
    <3>2. paid = [a \in Acts |-> paid[a]]
      BY <2>1
    <3> HIDE DEF paid
    <3> QED BY <2>1, <3>1, <3>2
  <2> HIDE DEF paid
  <2> QED BY <2>1, <2>2
<1>4. /\ group \in GroupRow
      /\ group.exists = db["group"].exists /\ group.member_count = db["group"].member_count
  BY DEF Tables, EventRow, GroupRow
<1> HIDE DEF event, paid, group
<1>5. result \in Tables
  BY <1>2, <1>3, <1>4 DEF Tables
<1>6. /\ Kept(result, RoomTables \cup MentorTables \cup {"rsvp", "checked", "member"})
      /\ result["event"] = event /\ result["group"] = group /\ result["paid"] = paid
  BY DEF Tables, Kept, RoomTables, MentorTables
<1> HIDE DEF result
<1>7. Counted(db) => Counted(result)
  BY <1>2, <1>4, <1>6 DEF Kept, RoomTables, Counted, EventCounted, RoomCounted, GroupCounted
<1>8. /\ \A u \in Users : paid[<<"rsvp", u>>] = db["paid"][<<"rsvp", u>>]
      /\ \A i \in Bookings : paid[<<"booking", i>>] = db["paid"][<<"booking", i>>]
  BY <1>3 DEF Acts
<1>9. Ticketed(db) => Ticketed(result)
  BY <1>6, <1>8 DEF Kept, Ticketed
<1>10. Confirmed(db) => Confirmed(result)
  BY <1>6, <1>8 DEF Kept, MentorTables, Confirmed, Both
<1>11. Paying(db, result)
  BY <1>3, <1>6, <1>8 DEF Kept, MentorTables, Paying
<1> QED BY <1>1, <1>5, <1>7, <1>9, <1>10, <1>11 DEF Sound

-----------------------------------------------------------------------------
(* The study room.                                                         *)

\* A handler that changes the room and its seats only.
LEMMA RoomChanged ==
    ASSUME db \in Tables, NEW s \in Sessions, NEW room \in RoomRow, NEW seat \in [Members -> Seats],
           Begin(s, [db EXCEPT !["room"] = room, !["seat"] = seat]),
           RoomCounted(db) =>
               /\ IF room.status = "none"
                  THEN RowsIn(seat, "taken") = {} /\ room.member_count = 1
                  ELSE room.member_count = Cardinality(RowsIn(seat, "taken"))
               /\ Cardinality(RowsIn(seat, "taken")) <= RoomCapacity
    PROVE  Sound(s)
<1> DEFINE result == [db EXCEPT !["room"] = room, !["seat"] = seat]
<1>1. result \in Tables
  BY DEF Tables
<1>2. /\ Kept(result, MentorTables \cup {"event", "rsvp", "checked", "group", "member", "paid"})
      /\ result["room"] = room /\ result["seat"] = seat
  BY DEF Tables, Kept, MentorTables
<1>3. Begin(s, result)
  OBVIOUS
<1> HIDE DEF result
<1>4. RoomCounted(db) => RoomCounted(result)
  BY <1>2 DEF RoomCounted
<1>5. Counted(db) => Counted(result)
  BY <1>2, <1>4 DEF Kept, Counted, EventCounted, GroupCounted
<1>6. Kept(result, {"checked", "confirmed", "credited", "paid"})
  BY <1>2 DEF Kept, MentorTables
<1> QED BY <1>1, <1>3, <1>5, <1>6, PaysNothing DEF Sound

LEMMA OpenRoomSound ==
    ASSUME db \in Tables, NEW s \in Sessions, OpenRoom(s)
    PROVE  Sound(s)
<1> DEFINE room == [db["room"] EXCEPT !.status = "active", !.points = 1]
           seat == [db["seat"] EXCEPT ![Host] = "taken"]
<1>1. Begin(s, [db EXCEPT !["room"] = room, !["seat"] = seat])
  <2>1. [db EXCEPT !.room.status = "active", !.room.points = 1, !.seat[Host] = "taken"]
            = [db EXCEPT !["room"] = room, !["seat"] = seat]
    BY DEF Tables, RoomRow
  <2> HIDE DEF room, seat
  <2> QED BY <2>1 DEF OpenRoom
<1>2. /\ room \in RoomRow /\ room.status = "active"
      /\ room.member_count = db["room"].member_count /\ db["room"].status = "none"
  BY DEF Tables, RoomRow, OpenRoom
<1>3. /\ seat \in [Members -> Seats]
      /\ RowsIn(db["seat"], "taken") = {} => RowsIn(seat, "taken") = {Host}
  BY FiniteMembers DEF Tables, Seats, RowsIn
<1> HIDE DEF room, seat
<1>4. Cardinality({Host}) = 1 /\ 1 <= RoomCapacity
  BY FS_Singleton, GatheringsAssumption
<1>5. RoomCounted(db) =>
          /\ room.member_count = Cardinality(RowsIn(seat, "taken"))
          /\ Cardinality(RowsIn(seat, "taken")) <= RoomCapacity
  BY <1>2, <1>3, <1>4 DEF RoomCounted
<1> QED BY <1>1, <1>2, <1>3, <1>5, RoomChanged

LEMMA JoinRoomSound ==
    ASSUME db \in Tables, NEW s \in Sessions, NEW u \in Members, JoinRoom(s, u)
    PROVE  Sound(s)
<1>0. /\ db["room"] \in RoomRow /\ db["room"].status = "active"
      /\ db["seat"] \in [Members -> Seats]
  BY DEF JoinRoom, Tables
<1>1. CASE /\ db["seat"][u] = "taken"
           /\ Begin(s, [db EXCEPT !.seat[u] = "none", !.room.member_count = LessOne(@)])
  <2> DEFINE room == [db["room"] EXCEPT !.member_count = LessOne(@)]
             seat == [db["seat"] EXCEPT ![u] = "none"]
  <2>1. Begin(s, [db EXCEPT !["room"] = room, !["seat"] = seat])
    <3>1. [db EXCEPT !.seat[u] = "none", !.room.member_count = LessOne(@)]
              = [db EXCEPT !["room"] = room, !["seat"] = seat]
      BY DEF Tables, RoomRow
    <3> HIDE DEF room, seat
    <3> QED BY <1>1, <3>1
  <2>2. /\ room \in RoomRow /\ room.status = "active"
        /\ room.member_count = LessOne(db["room"].member_count)
    BY <1>0 DEF RoomRow, LessOne
  <2>3. /\ seat \in [Members -> Seats] /\ seat[u] # "taken"
        /\ \A o \in Members : o # u => seat[o] = db["seat"][o]
    BY <1>0 DEF Seats
  <2> HIDE DEF room, seat
  <2>4. Cardinality(RowsIn(db["seat"], "taken")) = Cardinality(RowsIn(seat, "taken")) + 1
    BY <1>0, <1>1, <2>3, FiniteMembers, OneMore
  <2>5. Cardinality(RowsIn(seat, "taken")) \in Nat
    BY <2>3, FiniteMembers, CountType
  <2>6. RoomCounted(db) =>
            /\ room.member_count = Cardinality(RowsIn(seat, "taken"))
            /\ Cardinality(RowsIn(seat, "taken")) <= RoomCapacity
    BY <1>0, <2>2, <2>4, <2>5, GatheringsAssumption DEF RoomCounted, LessOne
  <2> QED BY <2>1, <2>2, <2>3, <2>6, RoomChanged
<1>2. CASE /\ db["seat"][u] = "none" /\ db["room"].member_count < RoomCapacity
           /\ Begin(s, [db EXCEPT !.seat[u] = "taken", !.room.member_count = @ + 1])
  <2> DEFINE room == [db["room"] EXCEPT !.member_count = @ + 1]
             seat == [db["seat"] EXCEPT ![u] = "taken"]
  <2>1. Begin(s, [db EXCEPT !["room"] = room, !["seat"] = seat])
    <3>1. [db EXCEPT !.seat[u] = "taken", !.room.member_count = @ + 1]
              = [db EXCEPT !["room"] = room, !["seat"] = seat]
      BY DEF Tables, RoomRow
    <3> HIDE DEF room, seat
    <3> QED BY <1>2, <3>1
  <2>2. /\ room \in RoomRow /\ room.status = "active"
        /\ room.member_count = db["room"].member_count + 1
    BY <1>0 DEF RoomRow
  <2>3. /\ seat \in [Members -> Seats] /\ seat[u] = "taken"
        /\ \A o \in Members : o # u => seat[o] = db["seat"][o]
    BY <1>0 DEF Seats
  <2> HIDE DEF room, seat
  <2>4. Cardinality(RowsIn(seat, "taken")) = Cardinality(RowsIn(db["seat"], "taken")) + 1
    BY <1>0, <1>2, <2>3, FiniteMembers, OneMore
  <2>5. Cardinality(RowsIn(db["seat"], "taken")) \in Nat
    BY <1>0, FiniteMembers, CountType
  <2>6. RoomCounted(db) =>
            /\ room.member_count = Cardinality(RowsIn(seat, "taken"))
            /\ Cardinality(RowsIn(seat, "taken")) <= RoomCapacity
    BY <1>0, <1>2, <2>2, <2>4, <2>5, GatheringsAssumption DEF RoomCounted
  <2> QED BY <2>1, <2>2, <2>3, <2>6, RoomChanged
<1> QED BY <1>1, <1>2 DEF JoinRoom

LEMMA CancelRoomSound ==
    ASSUME db \in Tables, NEW s \in Sessions, CancelRoom(s)
    PROVE  Sound(s)
<1> DEFINE room == [db["room"] EXCEPT !.status = "cancelled", !.points = 0]
           seat == db["seat"]
<1>1. Begin(s, [db EXCEPT !["room"] = room, !["seat"] = seat])
  <2>1. [db EXCEPT !.room.status = "cancelled", !.room.points = 0]
            = [db EXCEPT !["room"] = room, !["seat"] = seat]
    BY DEF Tables, RoomRow
  <2> HIDE DEF room, seat
  <2> QED BY <2>1 DEF CancelRoom
<1>2. /\ room \in RoomRow /\ room.status = "cancelled"
      /\ room.member_count = db["room"].member_count /\ db["room"].status # "none"
  BY DEF Tables, RoomRow, CancelRoom
<1>3. seat \in [Members -> Seats]
  BY DEF Tables
<1> HIDE DEF room
<1>4. RoomCounted(db) =>
          /\ room.member_count = Cardinality(RowsIn(seat, "taken"))
          /\ Cardinality(RowsIn(seat, "taken")) <= RoomCapacity
  BY <1>2 DEF RoomCounted
<1> HIDE DEF seat
<1> QED BY <1>1, <1>2, <1>3, <1>4, RoomChanged

-----------------------------------------------------------------------------
(* The group.                                                              *)

\* A handler that changes the group and its members only.
LEMMA GroupChanged ==
    ASSUME db \in Tables, NEW s \in Sessions, NEW group \in GroupRow, NEW member \in [Members -> Roles],
           Begin(s, [db EXCEPT !["group"] = group, !["member"] = member]),
           GroupCounted(db) =>
               /\ group.exists
               /\ group.member_count = Cardinality(Members \ RowsIn(member, "none"))
    PROVE  Sound(s)
<1> DEFINE result == [db EXCEPT !["group"] = group, !["member"] = member]
<1>1. result \in Tables
  BY DEF Tables
<1>2. /\ Kept(result, RoomTables \cup MentorTables \cup {"event", "rsvp", "checked", "paid"})
      /\ result["group"] = group /\ result["member"] = member
  BY DEF Tables, Kept, RoomTables, MentorTables
<1>3. Begin(s, result)
  OBVIOUS
<1> HIDE DEF result
<1>4. GroupCounted(db) => GroupCounted(result)
  BY <1>2 DEF GroupCounted
<1>5. Counted(db) => Counted(result)
  BY <1>2, <1>4 DEF Kept, RoomTables, Counted, EventCounted, RoomCounted
<1>6. Kept(result, {"checked", "confirmed", "credited", "paid"})
  BY <1>2 DEF Kept, MentorTables
<1> QED BY <1>1, <1>3, <1>5, <1>6, PaysNothing DEF Sound

LEMMA CreateGroupSound ==
    ASSUME db \in Tables, NEW s \in Sessions, CreateGroup(s)
    PROVE  Sound(s)
<1> DEFINE group == [db["group"] EXCEPT !.exists = TRUE]
           member == [db["member"] EXCEPT ![Host] = "admin"]
<1>1. Begin(s, [db EXCEPT !["group"] = group, !["member"] = member])
  <2>1. [db EXCEPT !.group.exists = TRUE, !.member[Host] = "admin"]
            = [db EXCEPT !["group"] = group, !["member"] = member]
    BY DEF Tables, GroupRow
  <2> HIDE DEF group, member
  <2> QED BY <2>1 DEF CreateGroup
<1>2. /\ group \in GroupRow /\ group.exists
      /\ group.member_count = db["group"].member_count /\ ~db["group"].exists
  BY DEF Tables, GroupRow, CreateGroup
<1>3. /\ member \in [Members -> Roles]
      /\ Members \ RowsIn(db["member"], "none") = {} => Members \ RowsIn(member, "none") = {Host}
  BY FiniteMembers DEF Tables, Roles, RowsIn
<1> HIDE DEF group, member
<1>4. Cardinality({Host}) = 1
  BY FS_Singleton
<1>5. GroupCounted(db) => group.member_count = Cardinality(Members \ RowsIn(member, "none"))
  BY <1>2, <1>3, <1>4 DEF GroupCounted
<1> QED BY <1>1, <1>2, <1>3, <1>5, GroupChanged

LEMMA JoinGroupSound ==
    ASSUME db \in Tables, NEW s \in Sessions, NEW u \in Members, JoinGroup(s, u)
    PROVE  Sound(s)
<1>0. /\ db["group"] \in GroupRow /\ db["group"].exists
      /\ db["member"] \in [Members -> Roles]
  BY DEF JoinGroup, Tables
<1>1. CASE /\ db["member"][u] # "none"
           /\ Begin(s, [db EXCEPT !.member[u] = "none", !.group.member_count = LessOne(@)])
  <2> DEFINE group == [db["group"] EXCEPT !.member_count = LessOne(@)]
             member == [db["member"] EXCEPT ![u] = "none"]
  <2>1. Begin(s, [db EXCEPT !["group"] = group, !["member"] = member])
    <3>1. [db EXCEPT !.member[u] = "none", !.group.member_count = LessOne(@)]
              = [db EXCEPT !["group"] = group, !["member"] = member]
      BY DEF Tables, GroupRow
    <3> HIDE DEF group, member
    <3> QED BY <1>1, <3>1
  <2>2. /\ group \in GroupRow /\ group.exists
        /\ group.member_count = LessOne(db["group"].member_count)
    BY <1>0 DEF GroupRow, LessOne
  <2>3. /\ member \in [Members -> Roles] /\ member[u] = "none"
        /\ \A o \in Members : o # u => member[o] = db["member"][o]
    BY <1>0 DEF Roles
  <2> HIDE DEF group, member
  <2>4. Cardinality(Members \ RowsIn(db["member"], "none"))
            = Cardinality(Members \ RowsIn(member, "none")) + 1
    BY <1>0, <1>1, <2>3, FiniteMembers, OneMoreLeft
  <2>5. Cardinality(Members \ RowsIn(member, "none")) \in Nat
    BY FiniteMembers, LeftType
  <2>6. GroupCounted(db) => group.member_count = Cardinality(Members \ RowsIn(member, "none"))
    BY <1>0, <2>2, <2>4, <2>5 DEF GroupCounted, LessOne
  <2> QED BY <2>1, <2>2, <2>3, <2>6, GroupChanged
<1>2. CASE /\ db["member"][u] = "none"
           /\ Begin(s, [db EXCEPT !.member[u] = "member", !.group.member_count = @ + 1])
  <2> DEFINE group == [db["group"] EXCEPT !.member_count = @ + 1]
             member == [db["member"] EXCEPT ![u] = "member"]
  <2>1. Begin(s, [db EXCEPT !["group"] = group, !["member"] = member])
    <3>1. [db EXCEPT !.member[u] = "member", !.group.member_count = @ + 1]
              = [db EXCEPT !["group"] = group, !["member"] = member]
      BY DEF Tables, GroupRow
    <3> HIDE DEF group, member
    <3> QED BY <1>2, <3>1
  <2>2. /\ group \in GroupRow /\ group.exists
        /\ group.member_count = db["group"].member_count + 1
    BY <1>0 DEF GroupRow
  <2>3. /\ member \in [Members -> Roles] /\ member[u] # "none"
        /\ \A o \in Members : o # u => member[o] = db["member"][o]
    BY <1>0 DEF Roles
  <2> HIDE DEF group, member
  <2>4. Cardinality(Members \ RowsIn(member, "none"))
            = Cardinality(Members \ RowsIn(db["member"], "none")) + 1
    BY <1>0, <1>2, <2>3, FiniteMembers, OneMoreLeft
  <2>5. GroupCounted(db) => group.member_count = Cardinality(Members \ RowsIn(member, "none"))
    BY <1>0, <2>2, <2>4 DEF GroupCounted
  <2> QED BY <2>1, <2>2, <2>3, <2>5, GroupChanged
<1> QED BY <1>1, <1>2 DEF JoinGroup

LEMMA SetRoleSound ==
    ASSUME db \in Tables, NEW s \in Sessions, NEW u \in Members, SetRole(s, u)
    PROVE  Sound(s)
<1>1. PICK role \in Roles \ {"none"} : Begin(s, [db EXCEPT !.member[u] = role])
  BY DEF SetRole
<1> DEFINE group == db["group"]
           member == [db["member"] EXCEPT ![u] = role]
<1>2. Begin(s, [db EXCEPT !["group"] = group, !["member"] = member])
  <2>1. [db EXCEPT !.member[u] = role] = [db EXCEPT !["group"] = group, !["member"] = member]
    BY DEF Tables
  <2> HIDE DEF group, member
  <2> QED BY <1>1, <2>1
<1>3. group \in GroupRow /\ db["group"].exists /\ db["member"][u] # "none"
  BY DEF Tables, SetRole
<1>4. /\ member \in [Members -> Roles]
      /\ Members \ RowsIn(member, "none") = Members \ RowsIn(db["member"], "none")
  BY <1>3 DEF Tables, RowsIn
<1> HIDE DEF member
<1>5. GroupCounted(db) => group.exists /\ group.member_count = Cardinality(Members \ RowsIn(member, "none"))
  BY <1>3, <1>4 DEF GroupCounted
<1> HIDE DEF group
<1> QED BY <1>2, <1>3, <1>4, <1>5, GroupChanged

-----------------------------------------------------------------------------
(* The mentor's sessions.                                                  *)

\* A handler that changes the mentor and the bookings only, and confirms nothing.
LEMMA BookingsChanged ==
    ASSUME db \in Tables, NEW s \in Sessions, NEW mentor \in MentorRow,
           NEW booking \in [Bookings -> BookingStatuses],
           Begin(s, [db EXCEPT !["mentor"] = mentor, !["booking"] = booking])
    PROVE  Sound(s)
<1> DEFINE result == [db EXCEPT !["mentor"] = mentor, !["booking"] = booking]
<1>1. result \in Tables
  BY DEF Tables
<1>2. /\ Kept(result, RoomTables \cup {"event", "rsvp", "checked", "group", "member", "paid"})
      /\ Kept(result, {"checked", "confirmed", "credited", "paid"})
  BY DEF Tables, Kept, RoomTables
<1>3. Begin(s, result)
  OBVIOUS
<1> HIDE DEF result
<1>4. Counted(db) => Counted(result)
  BY <1>2 DEF Kept, RoomTables, Counted, EventCounted, RoomCounted, GroupCounted
<1> QED BY <1>1, <1>2, <1>3, <1>4, PaysNothing DEF Sound

LEMMA BookingSound ==
    ASSUME db \in Tables, NEW s \in Sessions,
           OptIn(s) \/ RequestSession(s) \/ \E i \in Bookings : Respond(s, i)
    PROVE  Sound(s)
<1>1. CASE OptIn(s)
  <2>1. PICK active \in BOOLEAN : Begin(s, [db EXCEPT !.mentor.active = active])
    BY <1>1 DEF OptIn
  <2> DEFINE mentor == [db["mentor"] EXCEPT !.active = active]
             booking == db["booking"]
  <2>2. [db EXCEPT !.mentor.active = active] = [db EXCEPT !["mentor"] = mentor, !["booking"] = booking]
    BY DEF Tables, MentorRow
  <2>3. mentor \in MentorRow /\ booking \in [Bookings -> BookingStatuses]
    BY DEF Tables, MentorRow
  <2> HIDE DEF mentor, booking
  <2> QED BY <2>1, <2>2, <2>3, BookingsChanged
<1>2. ASSUME NEW i \in Bookings, NEW status \in BookingStatuses, Begin(s, [db EXCEPT !.booking[i] = status])
      PROVE  Sound(s)
  <2> DEFINE mentor == db["mentor"]
             booking == [db["booking"] EXCEPT ![i] = status]
  <2>1. [db EXCEPT !.booking[i] = status] = [db EXCEPT !["mentor"] = mentor, !["booking"] = booking]
    BY DEF Tables
  <2>2. mentor \in MentorRow /\ booking \in [Bookings -> BookingStatuses]
    BY DEF Tables
  <2> HIDE DEF mentor, booking
  <2> QED BY <1>2, <2>1, <2>2, BookingsChanged
<1>3. CASE RequestSession(s)
  <2> DEFINE i == CHOOSE i \in NextBooking : TRUE
  <2>1. i \in NextBooking /\ Begin(s, [db EXCEPT !.booking[i] = "requested"])
    BY <1>3 DEF RequestSession
  <2>2. i \in Bookings
    BY <2>1 DEF NextBooking
  <2> HIDE DEF i
  <2> QED BY <1>2, <2>1, <2>2 DEF BookingStatuses
<1>4. ASSUME NEW i \in Bookings, Respond(s, i) PROVE Sound(s)
  BY <1>2, <1>4 DEF Respond, BookingStatuses
<1> QED BY <1>1, <1>3, <1>4

\* The second confirmation credits and pays, the first only confirms.
LEMMA ConfirmSound ==
    ASSUME db \in Tables, NEW s \in Sessions, NEW i \in Bookings, NEW side \in Sides, Confirm(s, i, side)
    PROVE  Sound(s)
<1> DEFINE confirmed == [db["confirmed"] EXCEPT ![<<i, side>>] = TRUE]
           marked == [db EXCEPT !["confirmed"] = confirmed]
<1>1. [db EXCEPT !.confirmed[<<i, side>>] = TRUE] = marked
  BY DEF Tables
<1>2. /\ confirmed \in [Bookings \X Sides -> BOOLEAN]
      /\ \A c \in Bookings \X Sides : confirmed[c] = (IF c = <<i, side>> THEN TRUE ELSE db["confirmed"][c])
  BY DEF Tables
<1>3. \A j \in Bookings : \A other \in Sides :
          confirmed[<<j, other>>] = (IF j = i /\ other = side THEN TRUE ELSE db["confirmed"][<<j, other>>])
  BY <1>2
<1> DEFINE credits == BothSides(i, side) /\ ~db["credited"][i]
<1>4. BothSides(i, side) = \A other \in Sides : confirmed[<<i, other>>]
  BY <1>3 DEF BothSides
<1> HIDE DEF confirmed
<1>5. CASE credits
  <2> DEFINE booking == [db["booking"] EXCEPT ![i] = "completed"]
             credited == [db["credited"] EXCEPT ![i] = TRUE]
             mentor == [db["mentor"] EXCEPT !.sessions_done = @ + 1]
             paid == [db["paid"] EXCEPT ![<<"booking", i>>] = @ + 1]
             result == [db EXCEPT !["confirmed"] = confirmed, !["booking"] = booking,
                                  !["credited"] = credited, !["mentor"] = mentor, !["paid"] = paid]
  <2>1. [marked EXCEPT !.booking[i] = "completed", !.credited[i] = TRUE,
                       !.mentor.sessions_done = @ + 1, !.paid[<<"booking", i>>] = @ + 1] = result
    BY DEF Tables, MentorRow
  <2>2. Begin(s, result)
    <3> HIDE DEF result, marked
    <3> QED BY <1>1, <1>5, <2>1 DEF Confirm
  <2>3. /\ booking \in [Bookings -> BookingStatuses] /\ mentor \in MentorRow
        /\ credited \in [Bookings -> BOOLEAN]
        /\ \A j \in Bookings : credited[j] = (IF j = i THEN TRUE ELSE db["credited"][j])
    <3>1. booking \in [Bookings -> BookingStatuses]
      BY DEF Tables, BookingStatuses
    <3>2. mentor \in MentorRow
      BY DEF Tables, MentorRow
    <3>3. /\ credited \in [Bookings -> BOOLEAN]
          /\ \A j \in Bookings : credited[j] = (IF j = i THEN TRUE ELSE db["credited"][j])
      BY DEF Tables
    <3> QED BY <3>1, <3>2, <3>3
  <2>4. /\ paid \in [Acts -> Nat]
        /\ \A a \in Acts : paid[a] = (IF a = <<"booking", i>> THEN db["paid"][a] + 1 ELSE db["paid"][a])
    <3>0. db["paid"] \in [Acts -> Nat]
      BY DEF Tables
    <3>1. \A a \in Acts : paid[a] = (IF a = <<"booking", i>> THEN db["paid"][a] + 1 ELSE db["paid"][a])
      BY <3>0
    <3>2. paid = [a \in Acts |-> paid[a]]
      BY <3>0
    <3> HIDE DEF paid
    <3> QED BY <3>0, <3>1, <3>2
  <2> HIDE DEF booking, credited, mentor, paid
  <2>5. result \in Tables
    BY <1>2, <2>3, <2>4 DEF Tables
  <2>6. /\ Kept(result, RoomTables \cup {"event", "rsvp", "checked", "group", "member"})
        /\ result["confirmed"] = confirmed /\ result["credited"] = credited /\ result["paid"] = paid
    BY DEF Tables, Kept, RoomTables
  <2> HIDE DEF result
  <2>7. Counted(db) => Counted(result)
    BY <2>6 DEF Kept, RoomTables, Counted, EventCounted, RoomCounted, GroupCounted
  <2>8. /\ \A u \in Users : paid[<<"rsvp", u>>] = db["paid"][<<"rsvp", u>>]
        /\ \A j \in Bookings : paid[<<"booking", j>>] =
               (IF j = i THEN db["paid"][<<"booking", j>>] + 1 ELSE db["paid"][<<"booking", j>>])
        /\ \A a \in Acts : paid[a] \in {db["paid"][a], db["paid"][a] + 1}
    BY <2>4 DEF Acts
  <2>9. Ticketed(db) => Ticketed(result)
    BY <2>6, <2>8 DEF Kept, Ticketed
  <2>10. /\ Both(result, i)
         /\ \A j \in Bookings : j # i => Both(result, j) = Both(db, j)
    BY <1>3, <1>4, <1>5, <2>6 DEF Both
  <2>11. Confirmed(db) => Confirmed(result)
    <3> SUFFICES ASSUME Confirmed(db), NEW j \in Bookings
                 PROVE  /\ credited[j] = Both(result, j)
                        /\ paid[<<"booking", j>>] = (IF Both(result, j) THEN 1 ELSE 0)
      BY <2>6 DEF Confirmed
    <3>1. /\ db["credited"][j] = Both(db, j)
          /\ db["paid"][<<"booking", j>>] = (IF Both(db, j) THEN 1 ELSE 0)
      BY DEF Confirmed
    <3>2. CASE j = i
      <4>1. ~Both(db, j)
        BY <1>5, <3>1, <3>2
      <4>2. db["paid"][<<"booking", j>>] = 0
        BY <3>1, <4>1
      <4>3. paid[<<"booking", j>>] = 1
        BY <2>8, <3>2, <4>2
      <4> QED BY <2>3, <2>10, <3>2, <4>3
    <3>3. CASE j # i
      BY <2>3, <2>8, <2>10, <3>1, <3>3
    <3> QED BY <3>2, <3>3
  <2>12. Paying(db, result)
    <3>1. \A c \in Bookings \X Sides : db["confirmed"][c] => confirmed[c]
      BY <1>2
    <3>2. \A j \in Bookings : credited[j] # db["credited"][j] => credited[j] /\ Both(result, j)
      BY <2>3, <2>10
    <3> QED BY <2>6, <2>8, <3>1, <3>2 DEF Paying, Kept
  <2> QED BY <2>2, <2>5, <2>7, <2>9, <2>11, <2>12 DEF Sound
<1>6. CASE ~credits
  <2>1. Begin(s, marked)
    <3> HIDE DEF marked
    <3> QED BY <1>1, <1>6 DEF Confirm
  <2>2. marked \in Tables
    BY <1>2 DEF Tables
  <2>3. /\ Kept(marked, RoomTables \cup {"event", "rsvp", "checked", "group", "member", "credited", "paid"})
        /\ marked["confirmed"] = confirmed
    BY DEF Tables, Kept, RoomTables
  <2> HIDE DEF marked
  <2>4. Counted(db) => Counted(marked)
    BY <2>3 DEF Kept, RoomTables, Counted, EventCounted, RoomCounted, GroupCounted
  <2>5. Ticketed(db) => Ticketed(marked)
    BY <2>3 DEF Kept, Ticketed
  <2>6. Confirmed(db) => Confirmed(marked)
    <3> SUFFICES ASSUME Confirmed(db), NEW j \in Bookings
                 PROVE  Both(marked, j) = Both(db, j)
      BY <2>3 DEF Confirmed, Kept
    <3>1. CASE j = i
      <4>1. db["credited"][i] = Both(db, i)
        BY DEF Confirmed
      <4>2. Both(marked, i) = BothSides(i, side)
        BY <1>4, <2>3 DEF Both
      <4>3. Both(db, i) => BothSides(i, side)
        BY DEF Both, BothSides
      <4>4. BothSides(i, side) => db["credited"][i]
        BY <1>6
      <4>5. Both(marked, i) <=> Both(db, i)
        BY <4>1, <4>2, <4>3, <4>4
      <4> QED BY <3>1, <4>5 DEF Both
    <3>2. CASE j # i
      BY <1>3, <2>3, <3>2 DEF Both
    <3> QED BY <3>1, <3>2
  <2>7. Paying(db, marked)
    <3>1. \A c \in Bookings \X Sides : db["confirmed"][c] => confirmed[c]
      BY <1>2
    <3> QED BY <2>3, <3>1 DEF Paying, Kept
  <2> QED BY <2>1, <2>2, <2>4, <2>5, <2>6, <2>7 DEF Sound
<1> QED BY <1>5, <1>6

\* Every handler.
LEMMA HandlersSound ==
    ASSUME db \in Tables, NEW s \in Sessions, Event(s) \/ Room(s) \/ Group(s) \/ Mentor(s)
    PROVE  Sound(s)
<1>1. CASE Event(s)
  BY <1>1, CreateSound, RsvpSound, ScanSound, CloseSound DEF Event, Create, CheckIn
<1>2. CASE Room(s)
  BY <1>2, OpenRoomSound, JoinRoomSound, CancelRoomSound DEF Room
<1>3. CASE Group(s)
  BY <1>3, CreateGroupSound, JoinGroupSound, SetRoleSound DEF Group, CreateByApi, ToggleMembership
<1>4. CASE Mentor(s)
  BY <1>4, BookingSound, ConfirmSound DEF Mentor
<1> QED BY <1>1, <1>2, <1>3, <1>4

-----------------------------------------------------------------------------
(* The invariant.                                                          *)

TypedInv ==
    /\ SessionsTyped
    /\ db \in Tables
    /\ \A s \in Sessions : \A c \in session[s] : Typed(c, Tables)
    /\ started \in BOOLEAN /\ overlapped \in BOOLEAN

\* What the open sessions will write, whatever overlaps.
WritesPay ==
    \A s \in Sessions : \A c \in session[s] :
        /\ c[1] \in {"checked", "confirmed"} => c[4] = TRUE
        /\ c[1] = "paid" => c[4] = c[3] + 1 /\ \A u \in Users : c[2] = <<"rsvp", u>> => Own(s, "checked", u) # {}
        /\ c[1] = "credited" => \A side \in Sides :
               db["confirmed"][<<c[2], side>>] \/ Own(s, "confirmed", <<c[2], side>>) # {}

\* What has been paid and credited, whatever overlaps.
Paid ==
    /\ \A u \in Users : db["checked"][u] \/ db["paid"][<<"rsvp", u>>] = 0
    /\ \A u \in Users :
           db["paid"][<<"rsvp", u>>] + Cardinality(Writing("checked", u)) <= Cardinality(Sessions)
    /\ \A i \in Bookings : db["credited"][i] => Both(db, i)

\* As long as no two requests have overlapped, the database and what the one
\* open session will make of it count and pay exactly.
Exact(d) == Counted(d) /\ Ticketed(d) /\ Confirmed(d)

SerialInv ==
    /\ Alone
    /\ ~overlapped => Exact(db) /\ \A s \in Open : Exact(After(s))

IInv == TypedInv /\ WritesPay /\ Paid /\ SerialInv

-----------------------------------------------------------------------------
(* A request begins.                                                       *)

LEMMA TablesShaped ==
    ASSUME NEW d \in Tables, db \in Tables
    PROVE  Shaped(d) /\ \A a \in Acts : d["paid"][a] \in Int
<1>1. \A a \in Acts : d["paid"][a] \in Int
  BY DEF Tables
<1>2. Shaped(d)
  BY DEF Tables, Shaped, EventRow, RoomRow, GroupRow, MentorRow
<1> QED BY <1>1, <1>2

LEMMA BeginsTyped ==
    ASSUME TypedInv, SerialInv, NEW s \in Sessions, NEW result \in Tables, Begin(s, result),
           Exact(db) => Exact(result), UNCHANGED started
    PROVE  /\ TypedInv' /\ SerialInv'
           /\ db' = db /\ session'[s] = Changes(result)
           /\ \A r \in Sessions : r # s => session'[r] = session[r]
<1>1. SessionsTyped /\ Alone /\ db \in Tables
  BY DEF TypedInv, SerialInv
<1>2. Shaped(db) /\ Shaped(result)
  BY <1>1, TablesShaped
<1>3. \A t \in Booked \cap DOMAIN db : \A k \in DOMAIN db[t] : db[t][k] \in Int /\ result[t][k] \in Int
  <2>1. Booked = {"paid"} /\ DOMAIN db["paid"] = Acts
    BY <1>1, GatheringsAssumption DEF Tables
  <2> QED BY <1>1, <2>1, TablesShaped
<1>4. /\ SessionsTyped' /\ Alone'
      /\ db' = db
      /\ session'[s] = Changes(result)
      /\ \A r \in Sessions : r # s => session'[r] = session[r]
      /\ ~overlapped' => ~overlapped /\ Open = {}
      /\ ~overlapped' => \A r \in Open' : r = s /\ After(r)' = result
  BY <1>1, <1>2, <1>3, AloneBegins
<1>5. TypedInv'
  <2>1. \A c \in Changes(result) : Typed(c, Tables)
    BY <1>1, ChangesTypedAt
  <2>2. ASSUME NEW r \in Sessions, NEW c \in session'[r] PROVE Typed(c, Tables)
    BY <1>4, <2>1, <2>2 DEF TypedInv
  <2>3. \A r \in Sessions : \A c \in session'[r] : Typed(c, Tables)'
    BY <1>4, <2>2 DEF Typed
  <2>4. overlapped' \in BOOLEAN
    BY DEF Begin, TypedInv
  <2> QED BY <1>1, <1>4, <2>3, <2>4 DEF TypedInv
<1>6. SerialInv'
  <2> USE DEF Exact, Counted, EventCounted, RoomCounted, GroupCounted, Ticketed, Confirmed, Both
  <2>1. ~overlapped' => Exact(db) /\ Exact(result)
    BY <1>4 DEF SerialInv
  <2>2. ~overlapped' => \A r \in Open' : Exact(After(r))'
    BY <1>4, <2>1, ZenonT(30)
  <2>3. ~overlapped' => Exact(db)'
    BY <1>4, <2>1
  <2> QED BY <1>4, <2>2, <2>3 DEF SerialInv
<1> QED BY <1>4, <1>5, <1>6

LEMMA BeginsPay ==
    ASSUME TypedInv, WritesPay, Paid, NEW s \in Sessions, NEW result \in Tables, Begin(s, result),
           Paying(db, result), SessionsTyped',
           db' = db, session'[s] = Changes(result),
           \A r \in Sessions : r # s => session'[r] = session[r]
    PROVE  WritesPay' /\ Paid'
<1>1. db \in Tables /\ SessionsTyped /\ session[s] = {}
  BY DEF TypedInv, Begin, Open
<1>2. ASSUME NEW c \in Changes(result)
      PROVE  /\ c[1] \in {"checked", "confirmed"} => c[4] = TRUE
             /\ c[1] = "paid" => /\ c[4] = c[3] + 1
                                 /\ \A u \in Users : c[2] = <<"rsvp", u>> =>
                                        <<"checked", u, db["checked"][u], result["checked"][u]>> \in Changes(result)
             /\ c[1] = "credited" => \A side \in Sides :
                    \/ db["confirmed"][<<c[2], side>>]
                    \/ <<"confirmed", <<c[2], side>>, db["confirmed"][<<c[2], side>>],
                         result["confirmed"][<<c[2], side>>]>> \in Changes(result)
  <2>1. /\ c[1] \in DOMAIN db /\ c[2] \in DOMAIN db[c[1]]
        /\ c[3] = db[c[1]][c[2]] /\ c[4] = result[c[1]][c[2]] /\ c[3] # c[4]
    BY ChangesAre
  <2>2. CASE c[1] = "checked"
    <3>1. c[2] \in Users /\ db["checked"][c[2]] \in BOOLEAN /\ result["checked"][c[2]] \in BOOLEAN
      BY <1>1, <2>1, <2>2 DEF Tables
    <3>2. c[4] = TRUE
      BY <2>1, <2>2, <3>1 DEF Paying
    <3> QED BY <2>2, <3>2
  <2>3. CASE c[1] = "confirmed"
    <3>1. /\ c[2] \in Bookings \X Sides
          /\ db["confirmed"][c[2]] \in BOOLEAN /\ result["confirmed"][c[2]] \in BOOLEAN
      BY <1>1, <2>1, <2>3 DEF Tables
    <3>2. c[4] = TRUE
      BY <2>1, <2>3, <3>1 DEF Paying
    <3> QED BY <2>3, <3>2
  <2>4. CASE c[1] = "paid"
    <3>1. c[2] \in Acts
      BY <1>1, <2>1, <2>4 DEF Tables
    <3>2. c[4] = c[3] + 1
      BY <2>1, <2>4, <3>1 DEF Paying
    <3>3. ASSUME NEW u \in Users, c[2] = <<"rsvp", u>>
          PROVE  <<"checked", u, db["checked"][u], result["checked"][u]>> \in Changes(result)
      <4>1. ~db["checked"][u] /\ result["checked"][u]
        BY <2>1, <2>4, <3>3 DEF Paying
      <4>2. "checked" \in DOMAIN db /\ u \in DOMAIN db["checked"]
        BY <1>1 DEF Tables
      <4> QED BY <4>1, <4>2, ChangesHold
    <3> QED BY <2>4, <3>2, <3>3
  <2>5. CASE c[1] = "credited"
    <3>1. c[2] \in Bookings /\ Both(result, c[2])
      BY <1>1, <2>1, <2>5 DEF Tables, Paying
    <3>2. ASSUME NEW side \in Sides, ~db["confirmed"][<<c[2], side>>]
          PROVE  <<"confirmed", <<c[2], side>>, db["confirmed"][<<c[2], side>>],
                   result["confirmed"][<<c[2], side>>]>> \in Changes(result)
      <4>1. result["confirmed"][<<c[2], side>>]
        BY <3>1 DEF Both
      <4>2. "confirmed" \in DOMAIN db /\ <<c[2], side>> \in DOMAIN db["confirmed"]
        BY <1>1, <3>1 DEF Tables
      <4> QED BY <3>2, <4>1, <4>2, ChangesHold
    <3> QED BY <2>5, <3>2
  <2> QED BY <2>2, <2>3, <2>4, <2>5
<1>3. WritesPay'
  <2> SUFFICES ASSUME NEW r \in Sessions, NEW c \in session'[r]
               PROVE  /\ c[1] \in {"checked", "confirmed"} => c[4] = TRUE
                      /\ c[1] = "paid" => /\ c[4] = c[3] + 1
                                          /\ \A u \in Users : c[2] = <<"rsvp", u>> => Own(r, "checked", u)' # {}
                      /\ c[1] = "credited" => \A side \in Sides :
                             db["confirmed"][<<c[2], side>>] \/ Own(r, "confirmed", <<c[2], side>>)' # {}
    BY DEF WritesPay
  <2>1. CASE r = s
    <3>1. c \in Changes(result)
      BY <2>1
    <3>2. \A t, k, x, y : <<t, k, x, y>> \in Changes(result) => Own(r, t, k)' # {}
      BY <2>1 DEF Own
    <3> QED BY <1>2, <3>1, <3>2
  <2>2. CASE r # s
    <3>1. c \in session[r] /\ \A t, k : Own(r, t, k)' = Own(r, t, k)
      BY <2>2 DEF Own
    <3> QED BY <3>1 DEF WritesPay
  <2> QED BY <2>1, <2>2
<1>4. ASSUME NEW u \in Users
      PROVE  db["paid"][<<"rsvp", u>>] + Cardinality(Writing("checked", u)') <= Cardinality(Sessions)
  <2>1. CASE db["checked"][u]
    <3>1. ASSUME NEW c \in Changes(result) PROVE ~(c[1] = "checked" /\ c[2] = u)
      BY <2>1, <3>1, <1>1, <1>2, ChangesAre DEF Tables
    <3>2. Writing("checked", u)' = Writing("checked", u)
      BY <1>1, <3>1 DEF Writing, Open
    <3> QED BY <3>2 DEF Paid
  <2>2. CASE ~db["checked"][u]
    <3>1. db["paid"][<<"rsvp", u>>] = 0
      BY <2>2 DEF Paid
    <3>2. Writing("checked", u)' \subseteq Sessions
      BY DEF Writing, Open
    <3>3. Cardinality(Writing("checked", u)') <= Cardinality(Sessions)
      BY <3>2, RequestsAssumption, FS_Subset
    <3>4. Cardinality(Writing("checked", u)') \in Nat
      BY <3>2, RequestsAssumption, FS_Subset, FS_CardinalityType
    <3> QED BY <3>1, <3>3, <3>4
  <2> QED BY <2>1, <2>2
<1>5. Paid'
  BY <1>4 DEF Paid, Both
<1> QED BY <1>3, <1>5

-----------------------------------------------------------------------------
(* It commits, or it is rolled back.                                       *)

\* A row of counters and states holds values of its columns' types.
LEMMA CommitsRows ==
    ASSUME TypedInv, NEW s \in Sessions, Commit(s)
    PROVE  /\ db'["event"] \in EventRow /\ db'["room"] \in RoomRow
           /\ db'["group"] \in GroupRow /\ db'["mentor"] \in MentorRow
<1>1. /\ db \in Tables /\ \A c \in session[s] : Typed(c, Tables)
      /\ {"event", "room", "group", "mentor"} \subseteq DOMAIN db \ Booked
  BY GatheringsAssumption DEF TypedInv, Tables
<1>2. ASSUME NEW t \in {"event", "room", "group", "mentor"}
      PROVE  /\ db'[t] = [k \in DOMAIN db[t] |-> db'[t][k]]
             /\ \A k \in DOMAIN db[t] : db'[t][k] = db[t][k] \/ \E e \in Tables : db'[t][k] = e[t][k]
  <2>1. t \in DOMAIN db /\ t \notin Booked
    BY <1>1
  <2>2. db'[t] = [k \in DOMAIN db[t] |-> db'[t][k]]
    BY <2>1, Committed DEF Shaped
  <2>3. ASSUME NEW k \in DOMAIN db[t]
        PROVE  db'[t][k] = db[t][k] \/ \E e \in Tables : db'[t][k] = e[t][k]
    BY <1>1, <2>1, CommitTyped
  <2> QED BY <2>2, <2>3
<1>3. db'["event"] \in EventRow
  <2>1. /\ DOMAIN db["event"] = {"status", "official", "rsvp_count", "checkin_count"}
        /\ \A e \in Tables : e["event"] \in EventRow
    BY <1>1 DEF Tables, EventRow
  <2>2. \E e \in Tables : db'["event"].status = e["event"].status
    BY <1>1, <1>2, <2>1
  <2>3. \E e \in Tables : db'["event"].official = e["event"].official
    BY <1>1, <1>2, <2>1
  <2>4. \E e \in Tables : db'["event"].rsvp_count = e["event"].rsvp_count
    BY <1>1, <1>2, <2>1
  <2>5. \E e \in Tables : db'["event"].checkin_count = e["event"].checkin_count
    BY <1>1, <1>2, <2>1
  <2> QED BY <1>2, <2>1, <2>2, <2>3, <2>4, <2>5 DEF EventRow
<1>4. db'["room"] \in RoomRow
  <2>1. /\ DOMAIN db["room"] = {"status", "member_count", "points"}
        /\ \A e \in Tables : e["room"] \in RoomRow
    BY <1>1 DEF Tables, RoomRow
  <2>2. \E e \in Tables : db'["room"].status = e["room"].status
    BY <1>1, <1>2, <2>1
  <2>3. \E e \in Tables : db'["room"].member_count = e["room"].member_count
    BY <1>1, <1>2, <2>1
  <2>4. \E e \in Tables : db'["room"].points = e["room"].points
    BY <1>1, <1>2, <2>1
  <2> QED BY <1>2, <2>1, <2>2, <2>3, <2>4 DEF RoomRow
<1>5. db'["group"] \in GroupRow
  <2>1. /\ DOMAIN db["group"] = {"exists", "member_count", "events", "checkins"}
        /\ \A e \in Tables : e["group"] \in GroupRow
    BY <1>1 DEF Tables, GroupRow
  <2>2. \E e \in Tables : db'["group"].exists = e["group"].exists
    BY <1>1, <1>2, <2>1
  <2>3. \E e \in Tables : db'["group"].member_count = e["group"].member_count
    BY <1>1, <1>2, <2>1
  <2>4. \E e \in Tables : db'["group"].events = e["group"].events
    BY <1>1, <1>2, <2>1
  <2>5. \E e \in Tables : db'["group"].checkins = e["group"].checkins
    BY <1>1, <1>2, <2>1
  <2> QED BY <1>2, <2>1, <2>2, <2>3, <2>4, <2>5 DEF GroupRow
<1>6. db'["mentor"] \in MentorRow
  <2>1. /\ DOMAIN db["mentor"] = {"active", "sessions_done"}
        /\ \A e \in Tables : e["mentor"] \in MentorRow
    BY <1>1 DEF Tables, MentorRow
  <2>2. \E e \in Tables : db'["mentor"].active = e["mentor"].active
    BY <1>1, <1>2, <2>1
  <2>3. \E e \in Tables : db'["mentor"].sessions_done = e["mentor"].sessions_done
    BY <1>1, <1>2, <2>1
  <2> QED BY <1>2, <2>1, <2>2, <2>3 DEF MentorRow
<1> QED BY <1>3, <1>4, <1>5, <1>6

\* A payment adds one to what has been paid by then.
LEMMA CommitsPaid ==
    ASSUME TypedInv, WritesPay, NEW s \in Sessions, Commit(s)
    PROVE  /\ db'["paid"] \in [Acts -> Nat]
           /\ \A a \in Acts : db'["paid"][a] =
                  (IF Own(s, "paid", a) = {} THEN db["paid"][a] ELSE db["paid"][a] + 1)
<1>1. /\ db \in Tables /\ "paid" \in DOMAIN db /\ DOMAIN db["paid"] = Acts /\ "paid" \in Booked
      /\ db["paid"] \in [Acts -> Nat] /\ \A e \in Tables : e["paid"] \in [Acts -> Nat]
  BY GatheringsAssumption DEF TypedInv, Tables
<1>2. ASSUME NEW a \in Acts, Own(s, "paid", a) # {}
      PROVE  db'["paid"][a] = db["paid"][a] + 1
  <2>1. PICK c \in Own(s, "paid", a) : db'["paid"][a] = Written(db["paid"][a], c)
    BY <1>1, <1>2, CommitAt
  <2>2. c \in session[s] /\ c[1] = "paid" /\ c[2] = a
    BY <2>1 DEF Own
  <2>3. c[4] = c[3] + 1 /\ c[3] \in Nat
    BY <1>1, <2>2 DEF WritesPay, TypedInv, Typed
  <2> QED BY <1>1, <2>1, <2>2, <2>3 DEF Written
<1>3. \A a \in Acts : db'["paid"][a] =
          (IF Own(s, "paid", a) = {} THEN db["paid"][a] ELSE db["paid"][a] + 1)
  BY <1>1, <1>2, CommitAt
<1>4. db'["paid"] = [a \in Acts |-> db'["paid"][a]]
  BY <1>1, Committed DEF Shaped
<1> QED BY <1>1, <1>3, <1>4

LEMMA CommitsTyped ==
    ASSUME TypedInv, WritesPay, NEW s \in Sessions, Commit(s), UNCHANGED started
    PROVE  TypedInv'
<1>1. /\ session'[s] = {} /\ SessionsTyped'
      /\ \A r \in Sessions : r # s => session'[r] = session[r]
      /\ overlapped' = overlapped
  BY DEF Commit, TypedInv, SessionsTyped
<1>2. Shaped(db') /\ DOMAIN db' = DOMAIN db /\ \A t \in DOMAIN db : DOMAIN db'[t] = DOMAIN db[t]
  BY Committed
<1>3. db' = [t \in DOMAIN db |-> db'[t]]
  BY <1>2 DEF Shaped
<1>4. /\ db \in Tables /\ Booked = {"paid"} /\ \A c \in session[s] : Typed(c, Tables)
      /\ DOMAIN db = {"event", "rsvp", "checked", "room", "seat", "group", "member", "mentor",
                      "booking", "confirmed", "credited", "paid"}
  BY GatheringsAssumption DEF TypedInv, Tables
<1>5. db'["rsvp"] \in [Users -> RsvpStates]
  <2>1. "rsvp" \in DOMAIN db \ Booked
    BY <1>4
  <2>2. \A e \in Tables : e["rsvp"] \in [Users -> RsvpStates]
    BY DEF Tables
  <2> QED BY <1>4, <2>1, <2>2, CommitTable, Zenon
<1>6. db'["checked"] \in [Users -> BOOLEAN]
  <2>1. "checked" \in DOMAIN db \ Booked
    BY <1>4
  <2>2. \A e \in Tables : e["checked"] \in [Users -> BOOLEAN]
    BY DEF Tables
  <2> QED BY <1>4, <2>1, <2>2, CommitTable, Zenon
<1>7. db'["seat"] \in [Members -> Seats]
  <2>1. "seat" \in DOMAIN db \ Booked
    BY <1>4
  <2>2. \A e \in Tables : e["seat"] \in [Members -> Seats]
    BY DEF Tables
  <2> QED BY <1>4, <2>1, <2>2, CommitTable, Zenon
<1>8. db'["member"] \in [Members -> Roles]
  <2>1. "member" \in DOMAIN db \ Booked
    BY <1>4
  <2>2. \A e \in Tables : e["member"] \in [Members -> Roles]
    BY DEF Tables
  <2> QED BY <1>4, <2>1, <2>2, CommitTable, Zenon
<1>9. db'["booking"] \in [Bookings -> BookingStatuses]
  <2>1. "booking" \in DOMAIN db \ Booked
    BY <1>4
  <2>2. \A e \in Tables : e["booking"] \in [Bookings -> BookingStatuses]
    BY DEF Tables
  <2> QED BY <1>4, <2>1, <2>2, CommitTable, Zenon
<1>10. db'["confirmed"] \in [Bookings \X Sides -> BOOLEAN]
  <2> DEFINE rows == Bookings \X Sides
  <2>1. "confirmed" \in DOMAIN db \ Booked
    BY <1>4
  <2>2. \A e \in Tables : e["confirmed"] \in [rows -> BOOLEAN]
    BY DEF Tables
  <2> HIDE DEF rows
  <2>3. db'["confirmed"] \in [rows -> BOOLEAN]
    BY <1>4, <2>1, <2>2, CommitTable, Zenon
  <2> QED BY <2>3 DEF rows
<1>11. db'["credited"] \in [Bookings -> BOOLEAN]
  <2>1. "credited" \in DOMAIN db \ Booked
    BY <1>4
  <2>2. \A e \in Tables : e["credited"] \in [Bookings -> BOOLEAN]
    BY DEF Tables
  <2> QED BY <1>4, <2>1, <2>2, CommitTable, Zenon
<1>12. db' \in Tables
  BY <1>3, <1>4, <1>5, <1>6, <1>7, <1>8, <1>9, <1>10, <1>11, CommitsRows, CommitsPaid DEF Tables
<1>13. \A r \in Sessions : \A c \in session'[r] : Typed(c, Tables)'
  BY <1>1, <1>2 DEF TypedInv, Typed
<1> QED BY <1>1, <1>12, <1>13 DEF TypedInv

LEMMA CommitsPay ==
    ASSUME TypedInv, WritesPay, Paid, NEW s \in Sessions, Commit(s)
    PROVE  WritesPay' /\ Paid'
<1>1. /\ session'[s] = {} /\ SessionsTyped'
      /\ \A r \in Sessions : r # s => session'[r] = session[r]
      /\ Open' = Open \ {s} /\ s \in Open
  BY DEF Commit, TypedInv, SessionsTyped, Open
<1>2. /\ db \in Tables
      /\ {"checked", "confirmed", "credited"} \subseteq DOMAIN db \ Booked
      /\ DOMAIN db["checked"] = Users /\ DOMAIN db["confirmed"] = Bookings \X Sides
      /\ DOMAIN db["credited"] = Bookings
  BY GatheringsAssumption DEF TypedInv, Tables
\* A ticket checked and a side confirmed stay so, and what s writes of them is written.
<1>3. ASSUME NEW t \in {"checked", "confirmed"}, NEW k \in DOMAIN db[t],
             db[t][k] \/ Own(s, t, k) # {}
      PROVE  db'[t][k]
  <2>0. t \in DOMAIN db /\ t \notin Booked
    BY <1>2
  <2>1. CASE Own(s, t, k) = {}
    BY <1>3, <2>0, <2>1, CommitAt
  <2>2. CASE Own(s, t, k) # {}
    <3>1. PICK c \in Own(s, t, k) : db'[t][k] = Written(db[t][k], c)
      BY <2>0, <2>2, CommitAt
    <3>2. c \in session[s] /\ c[1] = t
      BY <3>1 DEF Own
    <3>3. c[4] = TRUE
      BY <3>2 DEF WritesPay
    <3> QED BY <2>0, <3>1, <3>2, <3>3 DEF Written
  <2> QED BY <2>1, <2>2
<1>4. \A i \in Bookings : \A side \in Sides :
          db["confirmed"][<<i, side>>] \/ Own(s, "confirmed", <<i, side>>) # {} => db'["confirmed"][<<i, side>>]
  BY <1>2, <1>3
<1>5. WritesPay'
  <2> SUFFICES ASSUME NEW r \in Sessions, NEW c \in session'[r]
               PROVE  /\ c[1] \in {"checked", "confirmed"} => c[4] = TRUE
                      /\ c[1] = "paid" => /\ c[4] = c[3] + 1
                                          /\ \A u \in Users : c[2] = <<"rsvp", u>> => Own(r, "checked", u)' # {}
                      /\ c[1] = "credited" => \A side \in Sides :
                             db'["confirmed"][<<c[2], side>>] \/ Own(r, "confirmed", <<c[2], side>>)' # {}
    BY DEF WritesPay
  <2>1. r # s /\ c \in session[r] /\ \A t, k : Own(r, t, k)' = Own(r, t, k)
    BY <1>1 DEF Own
  <2>2. c[1] = "credited" => c[2] \in Bookings
    BY <1>2, <2>1 DEF TypedInv, Typed
  <2> QED BY <1>4, <2>1, <2>2 DEF WritesPay
<1>6. ASSUME NEW u \in Users PROVE <<"rsvp", u>> \in Acts /\ u \in DOMAIN db["checked"]
  BY <1>2 DEF Acts
<1>7. ASSUME NEW u \in Users, Own(s, "paid", <<"rsvp", u>>) # {} PROVE Own(s, "checked", u) # {}
  BY <1>7 DEF WritesPay, Own
<1>8. \A u \in Users : db'["checked"][u] \/ db'["paid"][<<"rsvp", u>>] = 0
  <2> SUFFICES ASSUME NEW u \in Users, ~db'["checked"][u]
               PROVE  db'["paid"][<<"rsvp", u>>] = 0
    OBVIOUS
  <2>1. ~db["checked"][u] /\ Own(s, "checked", u) = {}
    BY <1>3, <1>6
  <2>2. db["paid"][<<"rsvp", u>>] = 0 /\ Own(s, "paid", <<"rsvp", u>>) = {}
    BY <1>7, <2>1 DEF Paid
  <2> QED BY <1>6, <2>2, CommitsPaid
<1>9. \A u \in Users :
          db'["paid"][<<"rsvp", u>>] + Cardinality(Writing("checked", u)') <= Cardinality(Sessions)
  <2> SUFFICES ASSUME NEW u \in Users
               PROVE  db'["paid"][<<"rsvp", u>>] + Cardinality(Writing("checked", u)') <= Cardinality(Sessions)
    OBVIOUS
  <2>1. /\ db["paid"][<<"rsvp", u>>] + Cardinality(Writing("checked", u)) <= Cardinality(Sessions)
        /\ db["paid"][<<"rsvp", u>>] \in Nat
    BY <1>2, <1>6 DEF Paid, Tables
  <2>2. IsFiniteSet(Writing("checked", u)) /\ IsFiniteSet(Sessions)
    <3>1. Writing("checked", u) \subseteq Sessions
      BY DEF Writing, Open
    <3> QED BY <3>1, RequestsAssumption, FS_Subset
  <2>3. Writing("checked", u)' = Writing("checked", u) \ {s}
    BY <1>1 DEF Writing, Open
  <2>4. /\ Cardinality(Writing("checked", u)) \in Nat /\ Cardinality(Sessions) \in Nat
        /\ Cardinality(Writing("checked", u)') \in Nat
        /\ Cardinality(Writing("checked", u)') <= Cardinality(Writing("checked", u))
    <3> DEFINE writing == Writing("checked", u)
    <3>1. IsFiniteSet(writing \ {s}) /\ Cardinality(writing \ {s}) <= Cardinality(writing)
      BY <2>2, FS_Subset
    <3> QED BY <2>2, <2>3, <3>1, FS_CardinalityType
  <2>5. CASE Own(s, "paid", <<"rsvp", u>>) = {}
    <3>1. db'["paid"][<<"rsvp", u>>] = db["paid"][<<"rsvp", u>>]
      BY <1>6, <2>5, CommitsPaid
    <3> QED BY <2>1, <2>4, <3>1
  <2>6. CASE Own(s, "paid", <<"rsvp", u>>) # {}
    <3>1. db'["paid"][<<"rsvp", u>>] = db["paid"][<<"rsvp", u>>] + 1
      BY <1>6, <2>6, CommitsPaid
    <3>2. s \in Writing("checked", u)
      BY <1>1, <1>7, <2>6 DEF Writing, Own
    <3>3. Cardinality(Writing("checked", u)') = Cardinality(Writing("checked", u)) - 1
      BY <2>2, <2>3, <3>2, FS_RemoveElement
    <3> QED BY <2>1, <2>4, <3>1, <3>3
  <2> QED BY <2>5, <2>6
<1>10. \A i \in Bookings : db'["credited"][i] => \A side \in Sides : db'["confirmed"][<<i, side>>]
  <2> SUFFICES ASSUME NEW i \in Bookings, db'["credited"][i], NEW side \in Sides
               PROVE  db["confirmed"][<<i, side>>] \/ Own(s, "confirmed", <<i, side>>) # {}
    BY <1>4
  <2>1. CASE Own(s, "credited", i) = {}
    <3>1. db'["credited"][i] = db["credited"][i]
      BY <1>2, <2>1, CommitAt
    <3> QED BY <3>1 DEF Paid, Both
  <2>2. CASE Own(s, "credited", i) # {}
    <3>1. PICK c \in session[s] : c[1] = "credited" /\ c[2] = i
      BY <2>2 DEF Own
    <3> QED BY <3>1 DEF WritesPay
  <2> QED BY <2>1, <2>2
<1> QED BY <1>5, <1>8, <1>9, <1>10 DEF Paid, Both

LEMMA RollbacksKeep ==
    ASSUME TypedInv, WritesPay, Paid, NEW s \in Sessions, Rollback(s), UNCHANGED started
    PROVE  TypedInv' /\ WritesPay' /\ Paid'
<1>1. /\ session'[s] = {} /\ SessionsTyped'
      /\ \A r \in Sessions : r # s => session'[r] = session[r]
      /\ overlapped' = overlapped /\ db' = db
      /\ Open' = Open \ {s} /\ s \in Open
  BY DEF Rollback, TypedInv, SessionsTyped, Open
<1>2. TypedInv'
  BY <1>1 DEF TypedInv, Typed
<1>3. WritesPay'
  <2>1. \A r \in Sessions : \A c \in session'[r] :
            r # s /\ c \in session[r] /\ \A t, k : Own(r, t, k)' = Own(r, t, k)
    BY <1>1 DEF Own
  <2> QED BY <1>1, <2>1 DEF WritesPay
<1>4. ASSUME NEW u \in Users
      PROVE  db["paid"][<<"rsvp", u>>] + Cardinality(Writing("checked", u)') <= Cardinality(Sessions)
  <2>1. Writing("checked", u) \subseteq Sessions /\ Writing("checked", u)' \subseteq Writing("checked", u)
    BY <1>1 DEF Writing, Open
  <2>2. IsFiniteSet(Writing("checked", u)) /\ IsFiniteSet(Writing("checked", u)') /\ IsFiniteSet(Sessions)
    BY <2>1, RequestsAssumption, FS_Subset
  <2>3. Cardinality(Writing("checked", u)') <= Cardinality(Writing("checked", u))
    BY <2>1, <2>2, FS_Subset
  <2>4. /\ Cardinality(Writing("checked", u)') \in Nat /\ Cardinality(Writing("checked", u)) \in Nat
        /\ Cardinality(Sessions) \in Nat
    BY <2>2, FS_CardinalityType
  <2>5. /\ db["paid"][<<"rsvp", u>>] + Cardinality(Writing("checked", u)) <= Cardinality(Sessions)
        /\ db["paid"][<<"rsvp", u>>] \in Nat
    BY DEF Paid, TypedInv, Tables, Acts
  <2> QED BY <2>3, <2>4, <2>5
<1>5. Paid'
  BY <1>1, <1>4 DEF Paid, Both
<1> QED BY <1>2, <1>3, <1>5

LEMMA EndsKeep ==
    ASSUME TypedInv, SerialInv, NEW s \in Sessions, Commit(s) \/ Rollback(s)
    PROVE  SerialInv'
<1> USE DEF Exact, Counted, EventCounted, RoomCounted, GroupCounted, Ticketed, Confirmed, Both
<1>1. /\ Alone' /\ overlapped' = overlapped /\ (~overlapped' => Open' = {})
  BY AloneEnds DEF TypedInv, SerialInv
<1>2. CASE Commit(s)
  <2>1. s \in Open /\ db' = After(s)
    BY <1>2, Committed
  <2>2. ~overlapped => Exact(After(s))
    BY <2>1 DEF SerialInv
  <2>3. ~overlapped => Exact(db)'
    BY <2>1, <2>2
  <2> QED BY <1>1, <2>3 DEF SerialInv
<1>3. CASE Rollback(s)
  <2>1. db' = db
    BY <1>3 DEF Rollback
  <2>2. ~overlapped => Exact(db)'
    BY <2>1 DEF SerialInv
  <2> QED BY <1>1, <2>2 DEF SerialInv
<1> QED BY <1>2, <1>3

-----------------------------------------------------------------------------
\* The clock, and steps of nobody.
LEMMA StartsKeep ==
    ASSUME IInv, EventStarts \/ UNCHANGED vars
    PROVE  IInv'
<1>1. UNCHANGED <<db, session, overlapped>> /\ started' \in BOOLEAN /\ Open' = Open
  BY DEF EventStarts, requestVars, vars, IInv, TypedInv, Open
<1>2. TypedInv'
  BY <1>1 DEF IInv, TypedInv, Typed, SessionsTyped
<1>3. WritesPay' /\ Paid'
  BY <1>1 DEF IInv, WritesPay, Paid, Both, Own, Writing
<1>4. \A r \in Open : After(r)' = After(r)
  BY <1>1, AfterSame DEF Open
<1>5. SerialInv'
  <2>1. Alone'
    BY <1>1 DEF IInv, SerialInv, Alone
  <2>2. ~overlapped => Exact(db) /\ \A r \in Open : Exact(After(r))
    BY DEF IInv, SerialInv
  <2> USE DEF Exact, Counted, EventCounted, RoomCounted, GroupCounted, Ticketed, Confirmed, Both
  <2>3. ~overlapped' => Exact(db)'
    BY <1>1, <2>2
  <2>4. ASSUME NEW r \in Open, Exact(After(r)) PROVE Exact(After(r))'
    <3> DEFINE d == After(r)
               e == After(r)'
    <3>1. e = d /\ Exact(d)
      BY <1>4, <2>4
    <3> HIDE DEF d, e
    <3>2. Exact(e)
      BY <3>1
    <3> QED BY <3>2 DEF e
  <2> QED BY <1>1, <2>1, <2>2, <2>3, <2>4 DEF SerialInv
<1> QED BY <1>2, <1>3, <1>5 DEF IInv

LEMMA InitGathers == Init => IInv
<1> SUFFICES ASSUME Init PROVE IInv
  OBVIOUS
<1>1. /\ session = [s \in Sessions |-> {}] /\ overlapped = FALSE /\ started = FALSE /\ Open = {}
  BY DEF Init, Open
<1>2. db \in Tables
  <2>1. db["event"] \in EventRow /\ db["room"] \in RoomRow /\ db["group"] \in GroupRow /\ db["mentor"] \in MentorRow
    BY DEF Init, EventRow, RoomRow, GroupRow, MentorRow
  <2> QED BY <2>1 DEF Init, Tables, RsvpStates, Seats, Roles, BookingStatuses
<1>3. TypedInv /\ WritesPay
  BY <1>1, <1>2 DEF TypedInv, SessionsTyped, WritesPay
<1>4. /\ db["checked"] = [u \in Users |-> FALSE] /\ db["credited"] = [i \in Bookings |-> FALSE]
      /\ db["confirmed"] = [c \in Bookings \X Sides |-> FALSE] /\ db["paid"] = [a \in Acts |-> 0]
  BY DEF Init
<1>5. /\ \A u \in Users : db["paid"][<<"rsvp", u>>] = 0
      /\ \A i \in Bookings : db["paid"][<<"booking", i>>] = 0
  BY <1>4 DEF Acts
<1>6. \A i \in Bookings : Both(db, i) = FALSE
  BY <1>4 DEF Both, Sides
<1>7. Paid
  <2>1. \A u \in Users : Writing("checked", u) = {}
    BY <1>1 DEF Writing
  <2>2. Cardinality({}) = 0 /\ Cardinality(Sessions) \in Nat
    BY RequestsAssumption, FS_EmptySet, FS_CardinalityType
  <2>3. ASSUME NEW u \in Users
        PROVE  db["paid"][<<"rsvp", u>>] + Cardinality(Writing("checked", u)) <= Cardinality(Sessions)
    <3>1. Cardinality(Writing("checked", u)) = 0
      BY <2>1, <2>2
    <3>2. db["paid"][<<"rsvp", u>>] = 0
      BY <1>5
    <3> QED BY <2>2, <3>1, <3>2
  <2> QED BY <1>4, <1>5, <2>3 DEF Paid
<1>8. Ticketed(db) /\ Confirmed(db)
  BY <1>4, <1>5, <1>6 DEF Ticketed, Confirmed
<1>9. Counted(db)
  <2>1. RowsIn(db["rsvp"], "going") = {} /\ RowsIn(db["seat"], "taken") = {}
    BY DEF Init, RowsIn
  <2>2. Members \ RowsIn(db["member"], "none") = {}
    BY DEF Init, RowsIn
  <2>3. Cardinality({}) = 0
    BY FS_EmptySet
  <2>4. /\ db["event"].rsvp_count = 0 /\ db["room"].status = "none" /\ db["room"].member_count = 1
        /\ ~db["group"].exists /\ db["group"].member_count = 1
    BY DEF Init
  <2> QED BY <2>1, <2>2, <2>3, <2>4, GatheringsAssumption DEF Counted, EventCounted, RoomCounted, GroupCounted
<1> QED BY <1>1, <1>3, <1>7, <1>8, <1>9 DEF IInv, SerialInv, Alone, Exact

LEMMA NextGathers == IInv /\ [Next]_vars => IInv'
<1> SUFFICES ASSUME IInv, [Next]_vars PROVE IInv'
  OBVIOUS
<1>1. ASSUME NEW s \in Sessions, UNCHANGED started, Event(s) \/ Room(s) \/ Group(s) \/ Mentor(s)
      PROVE  IInv'
  <2>1. PICK result \in Tables : /\ Begin(s, result)
                                 /\ Exact(db) => Exact(result)
                                 /\ Paying(db, result)
    BY <1>1, HandlersSound DEF IInv, TypedInv, Sound, Exact
  <2>2. /\ TypedInv' /\ SerialInv'
        /\ db' = db /\ session'[s] = Changes(result)
        /\ \A r \in Sessions : r # s => session'[r] = session[r]
    BY <1>1, <2>1, BeginsTyped DEF IInv
  <2>3. WritesPay' /\ Paid'
    <3>1. SessionsTyped'
      BY <2>2 DEF TypedInv
    <3> QED BY <2>1, <2>2, <3>1, BeginsPay DEF IInv
  <2> QED BY <2>2, <2>3 DEF IInv
<1>2. ASSUME NEW s \in Sessions, UNCHANGED started, Commit(s)
      PROVE  IInv'
  BY <1>2, CommitsTyped, CommitsPay, EndsKeep DEF IInv
<1>3. ASSUME NEW s \in Sessions, UNCHANGED started, Rollback(s)
      PROVE  IInv'
  BY <1>3, RollbacksKeep, EndsKeep DEF IInv
<1> QED BY <1>1, <1>2, <1>3, StartsKeep DEF Next

LEMMA GatheringsInvariant == Spec => []IInv
<1> QED BY InitGathers, NextGathers, PTL DEF Spec

\* Every table keeps its columns' types, and so does what is still to be
\* written, whatever overlaps.
THEOREM GatheringsTyped == Spec => []TypeOK
<1>1. IInv => TypeOK
  BY DEF IInv, TypedInv, TypeOK, ChangesTyped, Typed
<1> QED BY <1>1, GatheringsInvariant, PTL

\* Every counter is the number of rows it counts and no place is given twice,
\* for any number of members and any capacity, as long as no two requests overlap.
THEOREM PlacesHold == Spec => []PlacesExact
<1>1. IInv => PlacesExact
  BY DEF IInv, SerialInv, Exact, Counted, EventCounted, RoomCounted, GroupCounted, PlacesExact
<1> QED BY <1>1, GatheringsInvariant, PTL

\* "Attendance reputation is awarded here and only here" (events.py, check-in): a
\* ticket pays once, or once per request in the air when scans of it overlap.
THEOREM TicketPays == Spec => []TicketPaid
<1>1. IInv => TicketPaid
  BY DEF IInv, SerialInv, Exact, Ticketed, Paid, TicketPaid
<1> QED BY <1>1, GatheringsInvariant, PTL

\* "Both sides confirm; points land only when the second one does" (mentors.py,
\* confirm): for any number of bookings, and whatever overlaps as to the credit.
THEOREM BothCredit == Spec => []CreditedByBoth
<1>1. IInv => CreditedByBoth
  BY DEF IInv, SerialInv, Exact, Confirmed, Paid, Both, CreditedByBoth
<1> QED BY <1>1, GatheringsInvariant, PTL
=============================================================================
