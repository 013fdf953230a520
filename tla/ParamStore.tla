------------------------------ MODULE ParamStore ------------------------------
(***************************************************************************)
(* What the parameter servers promise the training groups: every parameter *)
(* is one register that the first group's initial value is placed in once, *)
(* and that takes every gradient of every group exactly once, one at a     *)
(* time.  Within a group training is bulk synchronous: no gradient of step *)
(* s + 1 is applied to any parameter before all parameters have that       *)
(* group's gradient of step s.  Between groups nothing is ordered.         *)
(***************************************************************************)
EXTENDS Integers

CONSTANTS
  Params, Groups,
  FirstStep, TrainSteps,  \* gradients are those of steps FirstStep .. TrainSteps - 1
  InitialValue            \* the value Param::Init draws

VARIABLES
  value,    \* value[p]: the contributions in p: InitialValue, gradients <<g, s>>
  version   \* version[p]: FirstStep plus the gradients taken, -1 when not placed

Init ==
  /\ value   = [p \in Params |-> {}]
  /\ version = [p \in Params |-> -1]

Place(p) ==
  /\ value[p] = {}
  /\ value'   = [value EXCEPT ![p] = {InitialValue}]
  /\ version' = [version EXCEPT ![p] = FirstStep]

\* Gradient s of group g is the next one that p may take.
Due(g, s, p) ==
  /\ <<g, s>> \notin value[p]
  /\ s = FirstStep \/ \A q \in Params : <<g, s - 1>> \in value[q]

Apply(g, s, p) ==
  /\ value[p] # {}
  /\ Due(g, s, p)
  /\ value'   = [value EXCEPT ![p] = @ \cup {<<g, s>>}]
  /\ version' = [version EXCEPT ![p] = @ + 1]

Next ==
  \E p \in Params :
    \/ Place(p)
    \/ \E g \in Groups, s \in FirstStep .. TrainSteps - 1 : Apply(g, s, p)

Spec == Init /\ [][Next]_<<value, version>>
=============================================================================
