-------------------------- MODULE MCBackgroundJobs ---------------------------
(* Instances of the job queue for TLC.                                     *)
EXTENDS BackgroundJobs

CONSTANTS s1, n1

NoRows == {}
FirstRow == {<<s1, 1>>}
Note == {<<n1, 1>>}
=============================================================================
