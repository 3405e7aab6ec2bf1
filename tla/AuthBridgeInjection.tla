-------------------------- MODULE AuthBridgeInjection --------------------------
(***************************************************************************)
(* The precedence chain composed with PodMutator: InjectAuthBridge's       *)
(* decision is no longer any decision but Evaluate of what the request     *)
(* carries and of the feature gates at the moment it is evaluated          *)
(* (pod_mutator.go:121-126).  The gates and the platform config are hot-  *)
(* reloaded from their ConfigMaps at any time, each by its own loader, and *)
(* every UPDATE of a workload may change its labels, so successive         *)
(* invocations on one template see different inputs.                       *)
(***************************************************************************)
EXTENDS Naturals, FiniteSets, Precedence

CONSTANTS
    Workloads, SANames, CrName, MaxFailures,
    DefaultsChoices,    \* sidecars.<sidecar>.enabled settings the platform config may hold
    OptOutChoices,      \* sidecars a workload may opt out of by label
    SpireChoices,       \* values of kagenti.io/spire a workload may carry
    GateChoices         \* feature-gate settings the ConfigMap may hold

ASSUME DefaultsChoices \subseteq [SidecarKeys -> BOOLEAN] /\ GateChoices \subseteq Gates
       /\ OptOutChoices \subseteq SidecarKeys /\ SpireChoices \subseteq SpireLabels

VARIABLES
    tmpl, work, pc, dec, sa, failures,
    gates,   \* the feature gates the webhook currently holds
    config,  \* the sidecar defaults of the platform config it currently holds
    lab      \* lab[w]: the labels of the request of w

pmVars == <<tmpl, work, pc, dec, sa, failures>>
vars == <<pmVars, gates, config, lab>>

\* Workload labels the chain reads.
Labels == [optOut : SUBSET OptOutChoices, spire : SpireChoices]

\* The chain's input for the request of w; the namespace is opted in, or
\* the webhook is not called at all (namespaceSelector, Tier 0).
Inp(w) == [gates |-> gates, nsEnabled |-> TRUE, optOut |-> lab[w].optOut,
           spire |-> lab[w].spire, defaults |-> config]

\* The decision record of lines 129-137; GetNamespace below fixes which.
DecisionRecords == [envoy : BOOLEAN, proxyInit : BOOLEAN, spiffe : BOOLEAN, clientReg : BOOLEAN]

PM == INSTANCE PodMutator WITH Decisions <- DecisionRecords

Init ==
    /\ PM!Init
    /\ gates \in GateChoices
    /\ config \in DefaultsChoices
    /\ lab \in [Workloads -> Labels]

\* A client sends workload w with some labels.
Submit(w) ==
    /\ PM!Submit(w)
    /\ \E l \in Labels : lab' = [lab EXCEPT ![w] = l]
    /\ UNCHANGED <<gates, config>>

\* The chain evaluates the gates of this moment and the request's labels.
GetNamespace(w) ==
    /\ PM!GetNamespace(w)
    /\ dec'[w] = Evaluate(Inp(w))
    /\ UNCHANGED <<gates, config, lab>>

\* The feature-gate loader reloads a changed ConfigMap.
ReloadGates ==
    /\ gates' \in GateChoices \ {gates}
    /\ UNCHANGED <<pmVars, config, lab>>

\* The platform-config loader reloads a changed ConfigMap, independently
\* of the gates: GetPlatformConfig and GetFeatureGates are two getters.
ReloadConfig ==
    /\ config' \in DefaultsChoices \ {config}
    /\ UNCHANGED <<pmVars, gates, lab>>

\* The steps of InjectAuthBridge and the cluster that read neither.
Rest ==
    /\ \/ \E w \in Workloads : \/ PM!CreateServiceAccount(w)
                               \/ PM!GetServiceAccount(w)
                               \/ PM!CallFails(w)
                               \/ PM!Commit(w)
                               \/ PM!CommitRejected(w)
       \/ \E n \in SANames : PM!DeleteServiceAccount(n)
    /\ UNCHANGED <<gates, config, lab>>

Next ==
    \/ \E w \in Workloads : Submit(w) \/ GetNamespace(w)
    \/ ReloadGates
    \/ ReloadConfig
    \/ Rest

Spec == Init /\ [][Next]_vars

-----------------------------------------------------------------------------
\* The InjectAuthBridge container names of the decision's keys.
ContainerOf == [envoy |-> PM!Envoy, spiffe |-> PM!SpiffeHelper,
                clientReg |-> PM!ClientRegistration]
Present(pod, x) == IF x = "proxyInit" THEN pod.init > 0 ELSE pod.cont[ContainerOf[x]] > 0

\* The sidecars of a template, by the keys of the decision.
Installed(pod) == {x \in SidecarKeys \cup {"proxyInit"} : Present(pod, x)}

Template == INSTANCE AuthBridgeTemplate WITH present <- [w \in Workloads |-> Installed(tmpl[w])]

-----------------------------------------------------------------------------
TypeOK ==
    /\ PM!TypeOK
    /\ gates \in GateChoices
    /\ config \in DefaultsChoices
    /\ lab \in [Workloads -> Labels]

(***************************************************************************)
(* PodMutator's volume property, now under the decisions the chain really  *)
(* returns: every svid-output mount has its volume (lines 199-204),       *)
(* whatever reloads of the gates and the platform defaults and label       *)
(* changes came between the invocations that built the template.          *)
(***************************************************************************)
MountsHaveVolumes == PM!MountsHaveVolumes

(***************************************************************************)
(* The composition implements AuthBridgeTemplate: however gates and       *)
(* platform defaults are reloaded and labels changed between the          *)
(* invocations InjectAuthBridge gets for CREATE and every UPDATE, and     *)
(* however its API calls fail or its commits are rejected, each committed *)
(* template keeps every sidecar it had and gains only whole groups.       *)
(* InjectAuthBridge never removes a sidecar the chain no longer wants     *)
(* (lines 166-209 only append).                                            *)
(***************************************************************************)
TemplateSpec == Template!Spec
=============================================================================
