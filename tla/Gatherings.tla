----------------------------- MODULE Gatherings -----------------------------
(***************************************************************************)
(* What members sign up for: an event with tickets and check-in             *)
(* (app/routers/events.py, app/api/routes/events.py), a study room, a group *)
(* and a mentor's sessions (studyrooms.py, groups.py, mentors.py).  Their    *)
(* rows are independent of each other, so there is one of each here, all     *)
(* of them run by the same member.                                         *)
(*                                                                         *)
(* Each handler is a request of module Requests.                             *)
(***************************************************************************)
EXTENDS Requests

CONSTANTS
    Users,        \* members who sign up
    Host,         \* hosts the event and the room, owns the group, is the mentor
    Capacity,     \* events.capacity; 0: unlimited
    RoomCapacity, \* study_rooms.capacity, between 2 and 50
    MentorCapacity, \* mentor_profiles.capacity_per_month, between 1 and 20
    Bookings,     \* bound: mentoring sessions asked for in a month
    MaxClosed     \* bound: times the event is closed

ASSUME GatheringsAssumption ==
    /\ Host \notin Users /\ IsFiniteSet(Users)
    /\ Unique = {"rsvp", "seat", "member"} /\ Booked = {"paid"}
    /\ Capacity \in Nat /\ RoomCapacity \in 2..50 /\ MentorCapacity \in 1..20
    /\ MaxClosed \in Nat

VARIABLE
    started       \* events.starts_at is past

vars == <<requestVars, started>>

-----------------------------------------------------------------------------
Members == Users \cup {Host}

Sides == {"mentor", "mentee"}

\* What else rep.award has been called for, and how often.
Acts == {<<"rsvp", u>> : u \in Users} \cup {<<"booking", i>> : i \in Bookings}
        \cup {<<"event", Host>>}

EventRow == [status : {"none", "active", "closed"}, official : BOOLEAN,
             rsvp_count : Nat, checkin_count : Nat]
RsvpStates == {"none", "going", "cancelled"}
\* points: study_room_hosted has been awarded and not withdrawn.
RoomRow == [status : {"none", "active", "cancelled"}, member_count : Nat, points : {0, 1}]
Seats == {"none", "taken"}
GroupRow == [exists : BOOLEAN, member_count : Nat, events : Nat, checkins : Nat]
Roles == {"none", "member", "officer", "admin"}
MentorRow == [active : BOOLEAN, sessions_done : Nat]
BookingStatuses == {"none", "requested", "accepted", "declined", "completed"}

Tables ==
    [event     : EventRow,
     rsvp      : [Users -> RsvpStates],
     checked   : [Users -> BOOLEAN],
     room      : RoomRow,
     seat      : [Members -> Seats],
     group     : GroupRow,
     member    : [Members -> Roles],
     mentor    : MentorRow,
     booking   : [Bookings -> BookingStatuses],
     confirmed : [Bookings \X Sides -> BOOLEAN],
     credited  : [Bookings -> BOOLEAN],
     paid      : [Acts -> Nat]]

TypeOK ==
    /\ db \in Tables
    /\ ChangesTyped
    /\ started \in BOOLEAN /\ overlapped \in BOOLEAN

Init ==
    /\ db = [event     |-> [status |-> "none", official |-> FALSE, rsvp_count |-> 0, checkin_count |-> 0],
             rsvp      |-> [u \in Users |-> "none"],
             checked   |-> [u \in Users |-> FALSE],
             room      |-> [status |-> "none", member_count |-> 1, points |-> 0],
             seat      |-> [u \in Members |-> "none"],
             group     |-> [exists |-> FALSE, member_count |-> 1, events |-> 0, checkins |-> 0],
             member    |-> [u \in Members |-> "none"],
             mentor    |-> [active |-> FALSE, sessions_done |-> 0],
             booking   |-> [i \in Bookings |-> "none"],
             confirmed |-> [c \in Bookings \X Sides |-> FALSE],
             credited  |-> [i \in Bookings |-> FALSE],
             paid      |-> [a \in Acts |-> 0]]
    /\ session = [s \in Sessions |-> {}]
    /\ started = FALSE
    /\ overlapped = FALSE

-----------------------------------------------------------------------------
\* Mutant: the counter is not kept from falling below zero.
OneLess(n) == n - 1

LessOne(n) == IF n > 0 THEN n - 1 ELSE 0

-----------------------------------------------------------------------------
(* The event.                                                              *)

\* Only an officer or admin of a group hosts in its name.
Created(official) == [db EXCEPT !.event.status = "active", !.event.official = official]

MayHost(official) ==
    /\ db.event.status = "none"
    /\ official => db.group.exists /\ db.member[Host] \in {"officer", "admin"}

CreateByForm(s) == \E official \in BOOLEAN : MayHost(official) /\ Begin(s, Created(official))

\* The JSON route is the form without its parsing.
Create(s) == CreateByForm(s)

Full == Capacity > 0 /\ db.event.rsvp_count >= Capacity

OpenToRsvp(u) == db.event.status = "active" /\ ~db.checked[u]

\* Mutant: a cancelled RSVP keeps its place in the count.
CancelledQuietly(u) == [db EXCEPT !.rsvp[u] = "cancelled"]

Cancelled(u) ==
    [db EXCEPT !.rsvp[u] = "cancelled", !.event.rsvp_count = LessOne(@)]

Going(u) == [db EXCEPT !.rsvp[u] = "going", !.event.rsvp_count = @ + 1]

\* The form toggles: going and cancelled.
Toggle(s, u) ==
    /\ OpenToRsvp(u)
    /\ \/ db.rsvp[u] = "going" /\ Begin(s, Cancelled(u))
       \/ db.rsvp[u] # "going" /\ ~Full /\ Begin(s, Going(u))

\* The JSON route names a state, and a first RSVP is going whatever it names.
Rsvp(s, u) ==
    /\ OpenToRsvp(u)
    /\ \E state \in {"going", "cancelled"} :
        \/ db.rsvp[u] = "going" /\ Begin(s, Cancelled(u))
        \/ db.rsvp[u] = "cancelled" /\ state = "going" /\ ~Full /\ Begin(s, Going(u))
        \/ db.rsvp[u] = "none" /\ ~Full /\ Begin(s, Going(u))

\* Mutant: the ticket is not looked up as used.
UsedTicketPasses(u) == db.rsvp[u] # "none"

\* A ticket is valid for its RSVP, whatever became of the RSVP or the event.
TicketUnused(u) == db.rsvp[u] # "none" /\ ~db.checked[u]

ScanByForm(s, u) ==
    /\ TicketUnused(u)
    /\ Begin(s, [db EXCEPT !.checked[u] = TRUE,
                           !.event.checkin_count = @ + 1,
                           !.paid[<<"rsvp", u>>] = @ + 1])

\* The JSON route scans as the form does.
CheckIn(s, u) == ScanByForm(s, u)

\* recompute_club_reputation flushes first: the closed event no longer counts
\* among the active ones.  The members' average is left out.
ClubStanding(tables) ==
    IF tables.event.official
    THEN [tables EXCEPT !.group.events = IF tables.event.status = "active" THEN 1 ELSE 0,
                        !.group.checkins = tables.event.checkin_count]
    ELSE tables

\* Nothing asks whether the event is closed already.
Close(s) ==
    /\ started
    /\ db.event.status # "none"
    /\ db.paid[<<"event", Host>>] < MaxClosed
    /\ LET closed == [db EXCEPT !.event.status = "closed"]
           credit == IF db.event.checkin_count > 0 THEN 1 ELSE 0
       IN  Begin(s, ClubStanding([closed EXCEPT !.paid[<<"event", Host>>] = @ + credit]))

EventStarts ==
    /\ ~started /\ db.event.status # "none"
    /\ started' = TRUE
    /\ UNCHANGED requestVars

-----------------------------------------------------------------------------
(* The study room.                                                         *)

OpenRoom(s) ==
    /\ db.room.status = "none"
    /\ Begin(s, [db EXCEPT !.room.status = "active", !.room.points = 1,
                           !.seat[Host] = "taken"])

\* The host cancels the room instead of leaving it.
JoinRoom(s, u) ==
    /\ db.room.status = "active"
    /\ \/ /\ db.seat[u] = "taken" /\ u # Host
          /\ Begin(s, [db EXCEPT !.seat[u] = "none", !.room.member_count = LessOne(@)])
       \/ /\ db.seat[u] = "none" /\ db.room.member_count < RoomCapacity
          /\ Begin(s, [db EXCEPT !.seat[u] = "taken", !.room.member_count = @ + 1])

\* The points for hosting are withdrawn.
CancelRoom(s) ==
    /\ db.room.status # "none"
    /\ Begin(s, [db EXCEPT !.room.status = "cancelled", !.room.points = 0])

-----------------------------------------------------------------------------
(* The group.                                                              *)

CreateGroup(s) ==
    /\ ~db.group.exists
    /\ Begin(s, [db EXCEPT !.group.exists = TRUE, !.member[Host] = "admin"])

\* The owner cannot leave as an admin, but can take another role first.
JoinGroup(s, u) ==
    /\ db.group.exists
    /\ \/ /\ db.member[u] # "none" /\ ~(u = Host /\ db.member[u] = "admin")
          /\ Begin(s, [db EXCEPT !.member[u] = "none", !.group.member_count = LessOne(@)])
       \/ /\ db.member[u] = "none"
          /\ Begin(s, [db EXCEPT !.member[u] = "member", !.group.member_count = @ + 1])

\* The JSON routes create and join as the forms do.
CreateByApi(s) == CreateGroup(s)
ToggleMembership(s, u) == JoinGroup(s, u)

SetRole(s, u) ==
    /\ db.group.exists /\ db.member[u] # "none"
    /\ \E role \in Roles \ {"none"} : Begin(s, [db EXCEPT !.member[u] = role])

-----------------------------------------------------------------------------
(* The mentor's sessions.                                                  *)

OptIn(s) == \E active \in BOOLEAN : Begin(s, [db EXCEPT !.mentor.active = active])

Taken == {i \in Bookings : db.booking[i] \in {"requested", "accepted", "completed"}}

\* The next row nobody has asked for, in the database or in an open session.
NextBooking ==
    {i \in Bookings :
        /\ db.booking[i] = "none"
        /\ Writing("booking", i) = {}}

RequestSession(s) ==
    /\ db.mentor.active
    /\ Cardinality(Taken) < MentorCapacity
    /\ NextBooking # {}
    /\ LET i == CHOOSE i \in NextBooking : TRUE IN Begin(s, [db EXCEPT !.booking[i] = "requested"])

\* A request can be answered again at any time, also once it is completed.
Respond(s, i) ==
    /\ db.booking[i] # "none"
    /\ \E action \in {"accepted", "declined"} : Begin(s, [db EXCEPT !.booking[i] = action])

\* Mutant: the first confirmation credits.
EitherSide(i, side) == TRUE

BothSides(i, side) == \A other \in Sides \ {side} : db.confirmed[<<i, other>>]

Confirm(s, i, side) ==
    /\ db.booking[i] \in {"accepted", "completed"}
    /\ LET marked == [db EXCEPT !.confirmed[<<i, side>>] = TRUE]
       IN  Begin(s, IF BothSides(i, side) /\ ~db.credited[i]
                    THEN [marked EXCEPT !.booking[i] = "completed", !.credited[i] = TRUE,
                                        !.mentor.sessions_done = @ + 1,
                                        !.paid[<<"booking", i>>] = @ + 1]
                    ELSE marked)

-----------------------------------------------------------------------------
Event(s) == \/ \E u \in Users : Toggle(s, u) \/ Rsvp(s, u) \/ ScanByForm(s, u) \/ CheckIn(s, u)
            \/ CreateByForm(s) \/ Create(s) \/ Close(s)

Room(s) == OpenRoom(s) \/ (\E u \in Members : JoinRoom(s, u)) \/ CancelRoom(s)

Group(s) ==
    \/ CreateGroup(s) \/ CreateByApi(s)
    \/ \E u \in Members : JoinGroup(s, u) \/ ToggleMembership(s, u) \/ SetRole(s, u)

Mentor(s) ==
    \/ OptIn(s) \/ RequestSession(s)
    \/ \E i \in Bookings : Respond(s, i) \/ \E side \in Sides : Confirm(s, i, side)

Next ==
    \/ /\ \E s \in Sessions :
              Event(s) \/ Room(s) \/ Group(s) \/ Mentor(s) \/ Commit(s) \/ Rollback(s)
       /\ UNCHANGED started
    \/ EventStarts

Spec == Init /\ [][Next]_vars

-----------------------------------------------------------------------------
(* Properties.                                                             *)

RowsIn(table, value) == {k \in DOMAIN table : table[k] = value}

\* Sign-ups, withdrawals, second thoughts and check-ins in any order keep every
\* counter equal to the rows it counts and no place is given twice, as long as
\* no two requests overlap.
PlacesExact ==
    ~overlapped =>
        /\ db.event.rsvp_count = Cardinality(RowsIn(db.rsvp, "going"))
        /\ Capacity > 0 => Cardinality(RowsIn(db.rsvp, "going")) <= Capacity
        /\ db.room.status # "none" =>
               db.room.member_count = Cardinality(RowsIn(db.seat, "taken"))
        /\ Cardinality(RowsIn(db.seat, "taken")) <= RoomCapacity
        /\ db.group.exists => db.group.member_count = Cardinality(Members \ RowsIn(db.member, "none"))

\* "Attendance reputation is awarded here and only here" (check-in): a ticket pays
\* once, and at most once per scan in the air when scans of it overlap.
TicketPaid ==
    \A u \in Users :
        /\ db.paid[<<"rsvp", u>>] + Cardinality(Writing("checked", u)) <= Cardinality(Sessions)
        /\ ~overlapped => db.paid[<<"rsvp", u>>] = (IF db.checked[u] THEN 1 ELSE 0)

\* "Both sides confirm; points land only when the second one does" (confirm):
\* a credited session was confirmed by both, however requests overlap, and
\* without overlap the second confirmation pays, once.
CreditedByBoth ==
    \A i \in Bookings :
        LET both == \A side \in Sides : db.confirmed[<<i, side>>]
        IN  /\ db.credited[i] => both
            /\ ~overlapped => db.credited[i] = both
            /\ ~overlapped => db.paid[<<"booking", i>>] = (IF both THEN 1 ELSE 0)
=============================================================================
