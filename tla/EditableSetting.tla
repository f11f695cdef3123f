--------------------------- MODULE EditableSetting ---------------------------
(***************************************************************************)
(* What the admin console promises of a setting, "correctable from the admin *)
(* console [...] not in a redeploy" (app/services/settings_store.py): it can  *)
(* be edited while it is read; a read may be late, but what it returns was    *)
(* saved, a value that has gone out of use does not come back by itself, and  *)
(* once the edits are over every read returns the last one.                  *)
(***************************************************************************)
CONSTANT Values

VARIABLES
    current,  \* what was saved last
    offered   \* what a read may return

vars == <<current, offered>>

Init == current \in Values /\ offered = {current}

\* What a read may return next: something it could return already, or the last save.
Offer == offered' # {} /\ offered' \subseteq offered \cup {current'}

Edit == current' \in Values /\ Offer

Serve == UNCHANGED current /\ Offer

Next == Edit \/ Serve

Safe == Init /\ [][Next]_vars

Settles == <>[][FALSE]_current => <>[](offered = {current})

Spec == Safe /\ Settles
=============================================================================
