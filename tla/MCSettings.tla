----------------------------- MODULE MCSettings -----------------------------
(* No symmetry: a temporal property is checked.                             *)
EXTENDS Settings
=============================================================================
