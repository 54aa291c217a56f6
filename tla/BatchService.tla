---------------------------- MODULE BatchService ----------------------------
(***************************************************************************)
(* What a thread pool promises its user, without threads: the pool opens   *)
(* or it does not; a call with n values and an executor is answered with   *)
(* an array of n results in the order of the values; close ends it.        *)
(***************************************************************************)
EXTENDS Naturals

CONSTANTS
  Requests,     (* the calls: records of vals (a function) and exec        *)
  Apply(_, _),  (* what an executor returns for a value                    *)
  NoRequest, NoReply

VARIABLES phase, request, reply

vars == <<phase, request, reply>>

Answer(r) == [j \in DOMAIN r.vals |-> Apply(r.exec, r.vals[j])]

Init == phase = "opening" /\ request = NoRequest /\ reply = NoReply

Open ==
  /\ phase = "opening"
  /\ phase' \in {"ready", "null"}
  /\ UNCHANGED <<request, reply>>

Call ==
  /\ phase = "ready"
  /\ phase' = "busy"
  /\ request' \in Requests
  /\ reply' = NoReply

Return ==
  /\ phase = "busy"
  /\ phase' = "ready"
  /\ reply' = Answer(request)
  /\ UNCHANGED request

Close ==
  /\ phase = "ready"
  /\ phase' = "closing"
  /\ reply' = NoReply
  /\ UNCHANGED request

Closed ==
  /\ phase = "closing"
  /\ phase' = "closed"
  /\ UNCHANGED <<request, reply>>

Next == Open \/ Call \/ Return \/ Close \/ Closed

(* A call that was accepted is answered; a close that was asked for ends. *)
Spec == Init /\ [][Next]_vars /\ WF_vars(Return) /\ WF_vars(Closed)

=============================================================================
