---------------------------- MODULE MCThreadPool ----------------------------
(* Instances of ThreadPool for TLC.                                        *)
EXTENDS ThreadPool

CONSTANTS w1, w2

TwoWorkers == {w1, w2}
OneWorker == {w1}
AnyRequest == {"error", "static", "dynamic", "truncated"}
OnlyDynamic == {"dynamic"}
=============================================================================
