--------------------------- MODULE MCOcrExecutor ---------------------------
(* OcrExecutor for TLC.  No symmetry: the run checks a liveness property.   *)
EXTENDS OcrExecutor
====
