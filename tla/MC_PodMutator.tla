---------------------------- MODULE MC_PodMutator ----------------------------
(* Every workload is named "agent" (a Deployment and a StatefulSet of one *)
(* name share ServiceAccount "agent"), and the precedence evaluator may    *)
(* return any of its decisions.                                            *)
EXTENDS PodMutator

MCCrName == [w \in Workloads |-> CHOOSE n \in SANames : TRUE]

MCDecisions == [envoy : BOOLEAN, proxyInit : BOOLEAN,
                spiffe : BOOLEAN, clientReg : BOOLEAN]
=============================================================================
