------------------------- MODULE AuthBridgeTemplate -------------------------
(***************************************************************************)
(* What the AuthBridge injector promises of a workload's pod template, as  *)
(* seen by the pods it runs: the sidecars it holds only ever grow, and     *)
(* they arrive in groups -- envoy-proxy with the proxy-init that redirects *)
(* traffic to it, spiffe-helper, client-registration -- each group in one  *)
(* admitted write.  Which groups arrive, and when, is left open.           *)
(***************************************************************************)
CONSTANT Workloads

VARIABLE present   \* present[w]: the sidecars in the template of w

Groups == {{"envoy", "proxyInit"}, {"spiffe"}, {"clientReg"}}

Init == present = [w \in Workloads |-> {}]

\* One admitted write of w adds some whole groups.
Install(w, G) ==
    /\ G # {}
    /\ present' = [present EXCEPT ![w] = @ \cup UNION G]

Next == \E w \in Workloads, G \in SUBSET Groups : Install(w, G)

Spec == Init /\ [][Next]_present
=============================================================================
