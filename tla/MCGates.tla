-------------------------------- MODULE MCGates --------------------------------
(* The gates of a request: the admission of its API key, the circuits of   *)
(* endpoints and proxies, and the gate its answer passes.  They share no   *)
(* variable; part is the one that moves, the others stay in an initial     *)
(* state.  c1 and c2 are calls of the circuits and requests of the         *)
(* admission.                                                              *)
EXTENDS MCApiKeyAdmission, MCUpstreamHealth, StreamGate

VARIABLE part

GateKindsChecked ==
  {GateKind({}), GateKind({"strict", "frames", "blank"}), GateKind({"strict", "precommit"}),
   GateKind({"strict", "require", "precommit", "frames"}),
   GateKind({"strict", "require", "defer", "allow", "precommit"}), GateKind({"strict", "defer"})}

GatesInit ==
  /\ part \in {"admission", "circuits", "stream"}
  /\ Init /\ HealthInit /\ GateInit
  /\ part = "admission" \/ entry = (CHOOSE l \in Limits : TRUE)
  /\ part = "stream" \/ kind = (CHOOSE k \in GateKinds : TRUE)

GatesNext ==
  /\ \/ part = "admission" /\ Next /\ UNCHANGED <<healthVars, gateVars>>
     \/ part = "circuits" /\ HealthNext /\ UNCHANGED <<vars, gateVars>>
     \/ part = "stream" /\ GateNext /\ UNCHANGED <<vars, healthVars>>
  /\ UNCHANGED part

GatesSpec == GatesInit /\ [][GatesNext]_<<part, vars, healthVars, gateVars>>

GatesSymmetry == Permutations({c1, c2})
=============================================================================
