---------------------------- MODULE MCHashFactor ----------------------------
(* Instances of HashFactor for TLC: each behaviour keeps to one of the plans. *)
EXTENDS HashFactor

VARIABLE plan

planVars == <<vars, plan>>

(* Two calls with any target of both versions and up to two workers, one     *)
(* failure and one interrupt.                                                *)
TwoCalls == [ calls      |-> <<{6, 8} \X {1, 2}, {6, 8} \X {1, 2}>>,
              failures   |-> 1,
              interrupts |-> 1 ]

(* Three calls, of which two fail: one candidate and three workers, two of   *)
(* which may fail and one be done before the parent sends the third zero;    *)
(* or two workers, one of which a failed fork may leave behind to the two    *)
(* calls that follow.                                                        *)
ThreeCalls == [ calls      |-> <<{<<4, 3>>, <<6, 2>>}, {<<8, 1>>}, {<<8, 2>>}>>,
                failures   |-> 2,
                interrupts |-> 0 ]

InPlan ==
  /\ runs' # runs => runs' \in DOMAIN plan.calls /\ <<target', nworkers'>> \in plan.calls[runs']
  /\ failures' <= plan.failures
  /\ interrupts' <= plan.interrupts

Planned(A) == A /\ InPlan /\ UNCHANGED plan

PlannedInit == Init /\ plan \in {TwoCalls, ThreeCalls}

PlannedSpec ==
  /\ PlannedInit
  /\ [][Planned(Next)]_planVars
  /\ WF_planVars(Planned(ParentStep)) /\ \A w \in Worker : WF_planVars(Planned(WorkerStep(w)))

=============================================================================
