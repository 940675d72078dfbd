------------------------------- MODULE MCJobs -------------------------------
(* Small instances of Jobs for TLC.                                        *)
EXTENDS Jobs, TLC

(* One kind per behaviour: config file and stream, config file, neither.   *)
MCKinds == {"documentation", "search", "details"}

(* The tasks that open no log stream.                                      *)
MCSilentKinds == AllKinds \ Streams

(* Jobs and workers are interchangeable in the runs without liveness.      *)
MCSymmetry == Permutations(Job) \cup Permutations(Worker)
=============================================================================
