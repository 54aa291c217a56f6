----------------------------- MODULE MCWorkQueue -----------------------------
(* Instances of WorkQueue for TLC. *)
EXTENDS WorkQueue

(* Ranges of integers are definitions: a cfg knows no negative numbers. *)
MCWorkerArgs == {-1, 1, 2, 3, 10001}
MCCapacityArgs == 0..2
MCStartArgs == {-1, 3}
MCEndArgs == {1, 5}

=============================================================================
