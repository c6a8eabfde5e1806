---------------------------- MODULE MCDatasetRun ----------------------------
(* Instances of DatasetRun for TLC.                                        *)
EXTENDS DatasetRun

TwoCases == {1, 2}
OneEach == [label \in {"x", "y"} |-> 1]

\* One database has the expected distribution.  Labels read partly from the second and
\* partly from the third have it too, although neither of them has.
ThreeDatabases == {<<"x", "y">>, <<"x", "x">>, <<"y", "y">>}
=============================================================================
