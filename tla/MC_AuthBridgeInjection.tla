------------------------ MODULE MC_AuthBridgeInjection ------------------------
(* One workload named "agent", one failing call, and platform defaults    *)
(* that start as the Helm values deploy them and may be reloaded to turn   *)
(* spiffe-helper off.                                                      *)
EXTENDS AuthBridgeInjection

MCCrName == [w \in Workloads |-> CHOOSE n \in SANames : TRUE]

\* sidecars.<sidecar>.enabled of the Helm values (part_002 lines 198-200).
MCHelmDefaults == [x \in SidecarKeys |-> TRUE]
MCDefaultsChoices == {MCHelmDefaults, [MCHelmDefaults EXCEPT !.spiffe = FALSE]}

MCOptOutChoices == {"clientReg"}

\* The gate settings test-precedence.sh sets: all on, envoyProxy off in
\* Test 3, the global kill switch in Test 5.
MCAllOn == [global |-> TRUE, envoy |-> TRUE, spiffe |-> TRUE, clientReg |-> TRUE]
MCGateChoices == {MCAllOn, [MCAllOn EXCEPT !.envoy = FALSE],
                  [MCAllOn EXCEPT !.global = FALSE]}

MCSpireChoices == {"enabled", "absent"}
=============================================================================
