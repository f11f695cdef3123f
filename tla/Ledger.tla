------------------------------- MODULE Ledger -------------------------------
(***************************************************************************)
(* The reputation engine (app/services/reputation.py) as functions on the   *)
(* book of one user: the rows of reputation_events in order of id, the      *)
(* cached users.rep_* columns, users.rep_frozen, and where the rows of the  *)
(* running calendar month begin.  Points are counted in hundredths, the     *)
(* scale of the NUMERIC(10, 2) column.  rep_total and rep_tier are written  *)
(* with the pillars, so they are derived from them here.                    *)
(***************************************************************************)
EXTENDS Integers, Sequences, FiniteSets, Functions

CONSTANTS
    Cap,          \* PILLAR_MONTHLY_CAPS, per pillar, in hundredths
    Thresholds,   \* the entry thresholds of REP_TIERS, in hundredths
    DecayPercent  \* settings.decay_percent_per_idle_month

Pillars == {"academic", "build", "service", "participation", "conduct"}

\* POINTS, for the reasons the modelled handlers use.
Points ==
    [answer_upvote    |-> 1200, post_upvote       |-> 200,
     poll_created     |-> 300,  answer_posted     |-> 200,
     verified_tier2   |-> 1500, content_removed   |-> -1500,
     report_upheld    |-> -2500, harassment_upheld |-> -4000]

PillarOf ==
    [answer_upvote    |-> "academic",      post_upvote       |-> "participation",
     poll_created     |-> "participation", answer_posted     |-> "participation",
     verified_tier2   |-> "conduct",       content_removed   |-> "conduct",
     report_upheld    |-> "conduct",       harassment_upheld |-> "conduct"]

Reasons == DOMAIN Points \cup {"inactivity_decay"}

States == {"provisional", "settled", "held", "void"}

ASSUME LedgerAssumption ==
    /\ Cap \in [Pillars -> Nat]
    /\ Thresholds \subseteq Nat /\ 0 \in Thresholds
    /\ DecayPercent \in 0..100

Book(events, rep, frozen, month) ==
    [events |-> events, rep |-> rep, frozen |-> frozen, month |-> month]

EmptyBook == Book(<<>>, [p \in Pillars |-> 0], FALSE, 0)

-----------------------------------------------------------------------------
(* Sums over the rows.                                                     *)

Lesser(a, b) == IF a <= b THEN a ELSE b

Greater(a, b) == IF a >= b THEN a ELSE b

\* The rows recompute and _month_earned sum.
Counts(e) == e.state \in {"provisional", "settled"}

PointsOf(events, rows) == SumFunctionOnSet([i \in DOMAIN events |-> events[i].points], rows)

\* What the ledger gives a pillar.
Balance(events, p) ==
    PointsOf(events, {i \in DOMAIN events : events[i].pillar = p /\ Counts(events[i])})

\* _month_earned: the positive points of this calendar month.
MonthEarned(b, p) ==
    PointsOf(b.events, {i \in DOMAIN b.events :
        i > b.month /\ b.events[i].pillar = p /\ Counts(b.events[i]) /\ b.events[i].points > 0})

\* recompute: the cached columns once the ledger holds these rows.
Recompute(events, b) ==
    Book(events, [p \in Pillars |-> Balance(events, p)], b.frozen, b.month)

Total(b) == SumFunction(b.rep)

\* tier_floor; rep_tier is the label of the same threshold.
TierFloor(total) ==
    LET reached == {t \in Thresholds : t <= total}
    IN  IF reached = {} THEN 0 ELSE CHOOSE t \in reached : \A u \in reached : u <= t

-----------------------------------------------------------------------------
(* award.                                                                  *)

\* Mutant: the whole award is paid as long as the cap is not reached.
CapBeforeAward(b, p, raw) == IF MonthEarned(b, p) < Cap[p] THEN raw ELSE 0

\* A gain is cut to the room under the monthly cap.
UnderCap(b, p, raw) == Lesser(raw, Greater(0, Cap[p] - MonthEarned(b, p)))

\* Mutant: a penalty is booked whole.
NoFloor(b, p, raw) == raw

\* A penalty is cut so that the cached score stays at or above -cap.
AboveFloor(b, p, raw) ==
    IF b.rep[p] + raw < -Cap[p] THEN Lesser(0, -Cap[p] - b.rep[p]) ELSE raw

\* A frozen score takes penalties and earns nothing.
Barred(b, raw) == b.frozen /\ raw > 0

\* weight is the multiplier in percent; spike is the verdict of _velocity_hold,
\* which compares 24 hours with 30 days of rows and is left open here.
Award(b, reason, weight, source, actor, immediate, spike) ==
    LET raw    == (Points[reason] * weight) \div 100
        p      == PillarOf[reason]
        points == IF raw > 0 THEN UnderCap(b, p, raw) ELSE AboveFloor(b, p, raw)
        state  == IF immediate \/ points <= 0 THEN "settled"
                  ELSE IF spike THEN "held" ELSE "provisional"
        event  == [reason |-> reason, pillar |-> p, points |-> points, source |-> source,
                   actor |-> actor, state |-> state]
    IN  IF Barred(b, raw) THEN b
        ELSE Recompute(Append(b.events, event), b)

-----------------------------------------------------------------------------
(* Moving rows from one state to another.                                  *)

InState(e, state) ==
    [reason |-> e.reason, pillar |-> e.pillar, points |-> e.points, source |-> e.source,
     actor |-> e.actor, state |-> state]

Moved(events, rows, state) ==
    [i \in DOMAIN events |-> IF i \in rows THEN InState(events[i], state) ELSE events[i]]

\* Mutant: the cached score is left as it was.
VoidOnly(b, rows) == Book(Moved(b.events, rows, "void"), b.rep, b.frozen, b.month)

VoidRows(b, rows) ==
    IF rows = {} THEN b ELSE Recompute(Moved(b.events, rows, "void"), b)

\* Mutant: only the rows that count are voided, not those that are held.
VoidPaid(b, source) ==
    VoidRows(b, {i \in DOMAIN b.events : b.events[i].source = source /\ Counts(b.events[i])})

\* void_events
VoidSource(b, source) ==
    VoidRows(b, {i \in DOMAIN b.events : b.events[i].source = source /\ b.events[i].state # "void"})

\* nullify_votes_between
Nullify(b, actor) ==
    VoidRows(b, {i \in DOMAIN b.events :
        b.events[i].actor = actor /\ b.events[i].state \in {"provisional", "held"}})

Provisional(b) == {i \in DOMAIN b.events : b.events[i].state = "provisional"}

\* settle_due, for the provisional rows whose 48 hours are over.
Settle(b, due) == Book(Moved(b.events, due, "settled"), b.rep, b.frozen, b.month)

-----------------------------------------------------------------------------
(* apply_decay and freeze_if_needed.                                       *)

\* What an idle month takes from a total, rounded to hundredths.
DecayOf(total) ==
    Lesser((total * DecayPercent + 50) \div 100, total - TierFloor(total))

\* The pillars decay is charged to, in the order the code lists them.
Decaying == <<"academic", "build", "service", "participation">>

\* The first of the largest.
LargestPillar(b) ==
    Decaying[CHOOSE i \in DOMAIN Decaying : \A j \in DOMAIN Decaying :
        LET here == b.rep[Decaying[i]]
            there == b.rep[Decaying[j]]
        IN  here > there \/ (here = there /\ i <= j)]

Decays(b) == Total(b) > 0 /\ DecayOf(Total(b)) > 1

Decay(b) ==
    LET event == [reason |-> "inactivity_decay", pillar |-> LargestPillar(b),
                  points |-> -DecayOf(Total(b)), source |-> <<"none">>, actor |-> "none",
                  state |-> "settled"]
    IN  Recompute(Append(b.events, event), b)

\* It counts the rows whatever their state.
UpheldHarassment(b) == {i \in DOMAIN b.events : b.events[i].reason = "harassment_upheld"}

FreezeIfNeeded(b) ==
    Book(b.events, b.rep, b.frozen \/ Cardinality(UpheldHarassment(b)) >= 2, b.month)

\* An administrator lifts the freeze.
Unfrozen(b) == Book(b.events, b.rep, FALSE, b.month)

\* The rows booked so far belong to months before the running one.
NewMonth(b) == Book(b.events, b.rep, b.frozen, Len(b.events))
=============================================================================
