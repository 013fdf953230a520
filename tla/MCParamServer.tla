---------------------------- MODULE MCParamServer ----------------------------
(* Instances of ParamServer. *)
EXTENDS ParamServer

\* A net of two layers, the first with the weight and bias 0 and 1, the
\* second with parameter 2: Backward takes the layers in reverse.
MCBackward3 == <<2, 0, 1>>
MCBackward2 == <<1, 0>>
MCBackward1 == <<0>>

\* A test before every step from the second on, no validation.
MCPasses ==
  {[after |-> 1, frequency |-> 1, steps |-> 1], [after |-> 0, frequency |-> 0, steps |-> 0]}
MCNoPasses == {}
=============================================================================
