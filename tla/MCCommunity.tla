---------------------------- MODULE MCCommunity -----------------------------
(* A small instance: caps and tiers are scaled so that a few rows reach them. *)
EXTENDS Community

MCCap == [p \in Pillars |-> IF p = "conduct" THEN 4500 ELSE IF p = "academic" THEN 1300 ELSE 400]

MCThresholds == {0, 1000, 2000}

\* The month ends once, after two rows, and absences begin after that; the
\* account is verified once; answers are neither removed nor voted down; the
\* second voter only votes posts down, while the ledger is short.
Small ==
    /\ book.month \in {0, 2}
    /\ idle => book.month = 2
    /\ Cardinality({k \in DOMAIN book.events : book.events[k].reason = "verified_tier2"}) <= 1
    /\ \A i \in Answers : status[i] # "removed" /\ vote["v1"][i] # -1 /\ vote["v2"][i] = 0
    /\ \A i \in Posts : vote["v2"][i] \in (IF Len(book.events) <= 2 THEN {0, -1} ELSE {0})
=============================================================================
