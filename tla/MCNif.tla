-------------------------------- MODULE MCNif --------------------------------
(* Small instances of the parts of the NIF library for TLC.  They share no     *)
(* state; a behaviour exercises one of them, the other ones stay as they are.  *)
EXTENDS NifEnvs, NifResources, NifCalls, NifTranscode

VARIABLE part   \* the part that is exercised

SizeOf  == [y \in ResourceTypes |-> IF y = "small" THEN 1 ELSE 3]
AlignOf == [y \in ResourceTypes |-> IF y = "small" THEN 1 ELSE 4]

Parts == {"envs", "resources", "calls", "terms"}

vars == <<part, envVars, resVars, callVars, termVars>>

Init == part \in Parts /\ EnvInit /\ ResInit /\ CallInit /\ TermInit

Next ==
  \/ part = "envs" /\ EnvNext /\ UNCHANGED <<part, resVars, callVars, termVars>>
  \/ part = "resources" /\ ResNext /\ UNCHANGED <<part, envVars, callVars, termVars>>
  \/ part = "calls" /\ CallNext /\ UNCHANGED <<part, envVars, resVars, termVars>>
  \/ part = "terms" /\ TermNext /\ UNCHANGED <<part, envVars, resVars, callVars>>

Spec == Init /\ [][Next]_vars
=============================================================================
