\* Two members and two overlapping sessions; one place, one mentoring slot too many.
CONSTANTS
    u1 = u1
    u2 = u2
    s1 = s1
    s2 = s2
    h = h
    Users = {u1, u2}
    Host = h
    Sessions = {s1, s2}
    Unique = {"rsvp", "seat", "member"}
    Booked = {"paid"}
    Capacity = 1
    RoomCapacity = 2
    MentorCapacity = 1
    Bookings = {1, 2}
    MaxClosed = 2
SPECIFICATION Spec
CONSTRAINT Small
SYMMETRY Symmetry
INVARIANTS
    TypeOK
    PlacesExact
    TicketPaid
    CreditedByBoth
