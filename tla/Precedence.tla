------------------------------ MODULE Precedence ------------------------------
(***************************************************************************)
(* The multi-layer precedence chain that decides, per sidecar, whether     *)
(* InjectAuthBridge injects it (NewPrecedenceEvaluator(...).Evaluate at    *)
(* pod_mutator.go:125-126).  The evaluator's Go source is not in the       *)
(* repository; its layers are the ones part_002 lines 55-69 document and  *)
(* demo-precedence.sh lists (appended to mcpserver_webhook.go, lines       *)
(* 930-941 and 1175-1181).                                                 *)
(*                                                                         *)
(* Every layer can only veto a sidecar: a sidecar is injected when no      *)
(* layer of the chain skips it.  proxy-init follows envoy-proxy            *)
(* (part_002 line 69).  spiffe-helper needs kagenti.io/spire=enabled       *)
(* (part_002 line 172, the comment at pod_mutator.go:101-105 and           *)
(* TestInjectAuthBridge_NoSACreationWithoutSpire), although the demo's     *)
(* scenario 1 expects it without the label.                                *)
(***************************************************************************)
EXTENDS Naturals, Sequences

\* The sidecars with a gate, an opt-out label and a platform default.
SidecarKeys == {"envoy", "spiffe", "clientReg"}

\* The layers in the order of the chain (lines 933-941).
Layers == <<"globalGate", "sidecarGate", "namespace", "workloadLabel",
            "crOverride", "platformDefault", "spireLabel">>

(***************************************************************************)
(* What the chain reads: the feature gates of feature-gates.yaml           *)
(* (globalEnabled, envoyProxy, spiffeHelper, clientRegistration), the      *)
(* namespace label kagenti-enabled=true, the workload labels               *)
(* kagenti.io/<sidecar>-inject=false (optOut) and kagenti.io/spire, and    *)
(* the platform defaults sidecars.<sidecar>.enabled.                       *)
(***************************************************************************)
Gates == [global : BOOLEAN, envoy : BOOLEAN, spiffe : BOOLEAN, clientReg : BOOLEAN]
SpireLabels == {"enabled", "disabled", "absent"}
Inputs(Defaults) == [gates : Gates, nsEnabled : BOOLEAN,
                     optOut : SUBSET SidecarKeys, spire : SpireLabels,
                     defaults : {Defaults}]

\* Whether layer l skips sidecar x for input in.  The TokenExchange CR
\* override (Layer 5) is a stub that never decides; Layer 7 vetoes
\* spiffe-helper unless the workload carries kagenti.io/spire=enabled.
LayerSkips(l, x, in) ==
    CASE l = "globalGate"      -> ~in.gates.global
      [] l = "sidecarGate"     -> ~in.gates[x]
      [] l = "namespace"       -> ~in.nsEnabled
      [] l = "workloadLabel"   -> x \in in.optOut
      [] l = "crOverride"      -> FALSE
      [] l = "platformDefault" -> ~in.defaults[x]
      [] l = "spireLabel"      -> x = "spiffe" /\ in.spire # "enabled"

\* Sidecar x is injected when no layer of the chain vetoes it.
Injects(x, in) == \A i \in 1..Len(Layers) : ~LayerSkips(Layers[i], x, in)

\* The decision record InjectAuthBridge reads (lines 129-137).
Evaluate(in) ==
    [envoy |-> Injects("envoy", in), proxyInit |-> Injects("envoy", in),
     spiffe |-> Injects("spiffe", in), clientReg |-> Injects("clientReg", in)]
=============================================================================
