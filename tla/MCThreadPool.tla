---------------------------- MODULE MCThreadPool ----------------------------
(* Instances of ThreadPool for TLC: integers handed to an executor, and     *)
(* executors, are model values.                                            *)
EXTENDS ThreadPool

CONSTANTS v1, v2, hash32, hash64

MCValues == {v1, v2}
MCExecutors == {hash32, hash64}

=============================================================================
