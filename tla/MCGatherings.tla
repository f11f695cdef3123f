---------------------------- MODULE MCGatherings ----------------------------
(* Two members and two sessions.                                           *)
EXTENDS Gatherings, TLC

Symmetry == Permutations(Users) \cup Permutations(Sessions)

\* Tables that are written to, or about to be.
Touched(tables) ==
    \/ \E s \in Open : \E c \in session[s] : c[1] \in tables
    \/ "rsvp" \in tables /\ db.event.status # "none"
    \/ "room" \in tables /\ db.room.status # "none"
    \/ "member" \in tables /\ ((\E u \in Users : db.member[u] # "none") \/ db.member[Host] \in {"member", "officer"})
    \/ "mentor" \in tables /\ (db.mentor.active \/ \E i \in Bookings : db.booking[i] # "none")

\* The gatherings share no row but the standing of the group that hosts the
\* event, so a behaviour is about one of them.
OneGathering ==
    LET part == <<{"event", "rsvp"}, {"room", "seat"}, {"member"}, {"mentor", "booking"}>>
    IN  /\ Cardinality({i \in 1..4 : Touched(part[i])}) <= 1
        /\ db.group.exists => ~Touched(part[2]) /\ ~Touched(part[4])

\* Bound: counters that overlapping sessions let drift.
Drift == /\ db.event.rsvp_count <= 2 /\ db.event.checkin_count <= 2
         /\ db.room.member_count <= 3 /\ db.group.member_count <= 4

Small == OneGathering /\ Drift
=============================================================================
