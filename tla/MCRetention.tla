---------------------------- MODULE MCRetention ----------------------------
(* Retention for TLC.  No symmetry: the run checks a liveness property.     *)
EXTENDS Retention
====
