------------------------------ MODULE PodMutator ------------------------------
(***************************************************************************)
(* PodMutator.InjectAuthBridge of kagenti-webhook                          *)
(* (internal/webhook/injector/pod_mutator.go), called by the AuthBridge    *)
(* webhook for the pod template of every Deployment, StatefulSet, ... on   *)
(* CREATE and on every UPDATE.  On an UPDATE the template it is given      *)
(* already holds the sidecars an earlier invocation injected, so the      *)
(* function is applied again and again to its own output, each time with  *)
(* the decision the precedence evaluator makes from the labels and the     *)
(* feature gates of that moment.                                           *)
(*                                                                         *)
(* A pod template is abstracted to what the code reads and writes: how     *)
(* many containers of each sidecar name it has, whether the first of them  *)
(* was built in SPIRE mode (it then mounts svid-output), how many          *)
(* proxy-init init containers and volumes of each name it has, and its     *)
(* serviceAccountName.  The precedence evaluator is not part of the        *)
(* source; its decision is any member of the constant set Decisions.       *)
(* The ServiceAccounts of the namespace are shared by all workloads, so    *)
(* requests of several workloads interleave at the API calls.              *)
(***************************************************************************)
EXTENDS Naturals, FiniteSets

CONSTANTS
    Workloads,      \* workloads (Deployments, ...) of one namespace
    SANames,        \* names a workload may have (crName)
    CrName,         \* CrName[w]: the name of workload w
    Decisions,      \* decisions the precedence evaluator may return
    MaxFailures     \* bound on API calls that return an error

ASSUME CrName \in [Workloads -> SANames] /\ MaxFailures \in Nat

\* Container, init container and volume names the mutator manages.
Envoy == "envoy-proxy"
SpiffeHelper == "spiffe-helper"
ClientRegistration == "kagenti-client-registration"
Sidecars == {Envoy, SpiffeHelper, ClientRegistration}
SvidOutput == "svid-output"
\* "shared" stands for the volumes BuildRequiredVolumesNoSpire returns;
\* BuildRequiredVolumes returns them and the SPIRE volumes, of which only
\* svid-output is mounted by containers built in SPIRE mode.
VolumeNames == {"shared", SvidOutput}
\* serviceAccountName values: unset, "default", one a user chose, crNames.
SAValues == {"", "default", "custom"} \cup SANames

VARIABLES
    tmpl,        \* tmpl[w]: the pod template of w as persisted
    work,        \* work[w]: the copy the in-flight request of w mutates
    pc,          \* pc[w]: where the request of w is
    dec,         \* dec[w]: the decision of the request of w
    sa,          \* sa[n]: the ServiceAccount n of the namespace
    failures     \* API calls that have failed so far

vars == <<tmpl, work, pc, dec, sa, failures>>

PodSpecs == [cont : [Sidecars -> Nat], spire : [Sidecars -> BOOLEAN],
             init : Nat, vols : [VolumeNames -> Nat], sa : SAValues]

EmptyPod == [cont |-> [c \in Sidecars |-> 0],
             spire |-> [c \in Sidecars |-> FALSE],
             init |-> 0, vols |-> [v \in VolumeNames |-> 0], sa |-> ""]

\* decision.AnyInjected()
AnyInjected(d) == d.envoy \/ d.proxyInit \/ d.spiffe \/ d.clientReg

\* A container of this name built in SPIRE mode mounts svid-output; the
\* spiffe-helper always does.
MountsSvid(pod, c) == pod.cont[c] > 0 /\ (c = SpiffeHelper \/ pod.spire[c])

\* Mutant: the existence check ignores what is already there.
containerExistsNever(pod, c) == FALSE

containerExists(pod, c) == pod.cont[c] > 0

volumeExists(pod, v) == pod.vols[v] > 0

\* Mutant: the volume set keyed on client-registration instead of SPIRE.
requiredVolumesByClientReg(d) ==
    IF d.clientReg THEN VolumeNames ELSE {"shared"}

\* BuildRequiredVolumes() when spireEnabled, else BuildRequiredVolumesNoSpire().
requiredVolumes(d) == IF d.spiffe THEN VolumeNames ELSE {"shared"}

\* Append container c, built with the SPIRE option, unless one exists.
InjectIf(pod, c, want, spire) ==
    IF want /\ ~containerExists(pod, c)
    THEN [pod EXCEPT !.cont[c] = @ + 1,
                     !.spire[c] = IF pod.cont[c] = 0 THEN spire ELSE @]
    ELSE pod

\* Mutant: lines 167-175 reset the slices without the nil checks.
MutateResetSlices(pod, d) ==
    LET p0 == [pod EXCEPT !.cont = [c \in Sidecars |-> 0], !.init = 0,
                          !.vols = [v \in VolumeNames |-> 0]]
        p1 == InjectIf(p0, Envoy, d.envoy, d.spiffe)
        p2 == IF d.proxyInit THEN [p1 EXCEPT !.init = 1] ELSE p1
        p3 == InjectIf(InjectIf(p2, SpiffeHelper, d.spiffe, d.spiffe),
                       ClientRegistration, d.clientReg, d.spiffe)
    IN [p3 EXCEPT !.vols = [v \in VolumeNames |->
            IF v \in requiredVolumes(d) THEN 1 ELSE 0]]

\* Lines 166-209 of InjectAuthBridge: the sidecars of decision d in the
\* code's order, then the volumes spireEnabled calls for.
Mutate(pod, d) ==
    LET spire == d.spiffe
        p1 == InjectIf(pod, Envoy, d.envoy, spire)
        p2 == IF d.proxyInit /\ pod.init = 0 THEN [p1 EXCEPT !.init = 1] ELSE p1
        p3 == InjectIf(InjectIf(p2, SpiffeHelper, d.spiffe, spire),
                       ClientRegistration, d.clientReg, spire)
    IN [p3 EXCEPT !.vols = [v \in VolumeNames |->
            IF v \in requiredVolumes(d) /\ ~volumeExists(p3, v)
            THEN @[v] + 1 ELSE @[v]]]

\* The request's result: persist the mutated template, back to idle.
Done(w, pod) ==
    /\ work' = [work EXCEPT ![w] = pod]
    /\ pc' = [pc EXCEPT ![w] = "commit"]

\* Line 157: SPIRE needs a dedicated ServiceAccount unless one is named.
needsDedicatedSA(pod) == pod.sa \in {"", "default"}

Init ==
    /\ tmpl = [w \in Workloads |-> EmptyPod]
    /\ work = [w \in Workloads |-> EmptyPod]
    /\ pc = [w \in Workloads |-> "idle"]
    /\ dec = [w \in Workloads |-> CHOOSE d \in Decisions : TRUE]
    /\ sa \in [SANames -> {"absent", "foreign"}]
    /\ failures = 0

(***************************************************************************)
(* A client creates or updates workload w.  The template it sends is the   *)
(* persisted one, sidecars included, possibly with serviceAccountName      *)
(* edited.  Lines 92-111: unless the workload is labelled an agent or a    *)
(* tool with kagenti.io/inject=enabled, InjectAuthBridge returns false at  *)
(* once and the template is admitted as sent.                              *)
(***************************************************************************)
Submit(w) ==
    /\ pc[w] = "idle"
    /\ \E s \in {tmpl[w].sa, "", "default", "custom"}, eligible \in BOOLEAN :
         LET pod == [tmpl[w] EXCEPT !.sa = s] IN
         IF eligible
         THEN /\ work' = [work EXCEPT ![w] = pod]
              /\ pc' = [pc EXCEPT ![w] = "ns"]
         ELSE Done(w, pod)
    /\ UNCHANGED <<tmpl, dec, sa, failures>>

(***************************************************************************)
(* Lines 113-164 up to the ServiceAccount: the namespace is fetched, the   *)
(* precedence chain decides, nothing happens when no sidecar is wanted,    *)
(* and SPIRE with an unset or "default" serviceAccountName goes on to      *)
(* ensureServiceAccount; otherwise lines 166-216 mutate the template.      *)
(***************************************************************************)
GetNamespace(w) ==
    /\ pc[w] = "ns"
    /\ \E d \in Decisions :
         /\ dec' = [dec EXCEPT ![w] = d]
         /\ CASE ~AnyInjected(d) -> Done(w, work[w])
              [] d.spiffe /\ needsDedicatedSA(work[w]) ->
                   /\ pc' = [pc EXCEPT ![w] = "ensureSA"]
                   /\ UNCHANGED work
              [] OTHER -> Done(w, Mutate(work[w], d))
    /\ UNCHANGED <<tmpl, sa, failures>>

(***************************************************************************)
(* ensureServiceAccount, its Create (lines 227-236, 252-255), then lines   *)
(* 162-216: a new ServiceAccount crName labelled managed-by=webhook, then  *)
(* serviceAccountName := crName and the sidecars and volumes.              *)
(* AlreadyExists goes on to the Get.                                       *)
(***************************************************************************)
CreateServiceAccount(w) ==
    /\ pc[w] = "ensureSA"
    /\ LET n == CrName[w] IN
       IF sa[n] = "absent"
       THEN /\ sa' = [sa EXCEPT ![n] = "managed"]
            /\ Done(w, Mutate([work[w] EXCEPT !.sa = n], dec[w]))
       ELSE /\ pc' = [pc EXCEPT ![w] = "getSA"]
            /\ UNCHANGED <<sa, work>>
    /\ UNCHANGED <<tmpl, dec, failures>>

(***************************************************************************)
(* ensureServiceAccount after AlreadyExists (lines 237-250): the Get only  *)
(* decides what is logged -- a failed Get, NotFound included, a            *)
(* ServiceAccount of somebody else, or ours -- and nil is returned in      *)
(* every case, so InjectAuthBridge goes on with lines 162-216.             *)
(***************************************************************************)
GetServiceAccount(w) ==
    /\ pc[w] = "getSA"
    /\ Done(w, Mutate([work[w] EXCEPT !.sa = CrName[w]], dec[w]))
    /\ UNCHANGED <<tmpl, dec, sa, failures>>

\* A user or a namespace cleanup deletes ServiceAccount n.
DeleteServiceAccount(n) ==
    /\ sa[n] # "absent"
    /\ sa' = [sa EXCEPT ![n] = "absent"]
    /\ UNCHANGED <<tmpl, work, pc, dec, failures>>

(***************************************************************************)
(* The namespace Get (line 115) or the ServiceAccount Create (line 252)    *)
(* returns an error: InjectAuthBridge returns it and the webhook denies    *)
(* the request, so nothing of it is persisted.                             *)
(***************************************************************************)
CallFails(w) ==
    /\ pc[w] \in {"ns", "ensureSA"}
    /\ failures < MaxFailures
    /\ failures' = failures + 1
    /\ pc' = [pc EXCEPT ![w] = "idle"]
    /\ UNCHANGED <<tmpl, work, dec, sa>>

\* The API server persists the admitted template.
Commit(w) ==
    /\ pc[w] = "commit"
    /\ tmpl' = [tmpl EXCEPT ![w] = work[w]]
    /\ pc' = [pc EXCEPT ![w] = "idle"]
    /\ UNCHANGED <<work, dec, sa, failures>>

(***************************************************************************)
(* The API server fails the request after InjectAuthBridge returned true  *)
(* (a later admission webhook denies it, an UPDATE conflicts, or it was a *)
(* dry run): the template is not persisted, but a ServiceAccount           *)
(* ensureServiceAccount created for it stays.                              *)
(***************************************************************************)
CommitRejected(w) ==
    /\ pc[w] = "commit"
    /\ failures < MaxFailures
    /\ failures' = failures + 1
    /\ pc' = [pc EXCEPT ![w] = "idle"]
    /\ UNCHANGED <<tmpl, work, dec, sa>>

Next ==
    \/ \E w \in Workloads :
        \/ Submit(w)
        \/ GetNamespace(w)
        \/ CreateServiceAccount(w)
        \/ GetServiceAccount(w)
        \/ CallFails(w)
        \/ Commit(w)
        \/ CommitRejected(w)
    \/ \E n \in SANames : DeleteServiceAccount(n)

Spec == Init /\ [][Next]_vars

-----------------------------------------------------------------------------
(***************************************************************************)
(* Type invariant.  A template holds at most one container, init          *)
(* container and volume of each name, as the API server requires of a pod *)
(* spec: reinvoking InjectAuthBridge on its own output must not append a  *)
(* sidecar or volume a second time (containerExists, volumeExists).        *)
(***************************************************************************)
TypeOK ==
    /\ \A w \in Workloads : \A pod \in {tmpl[w], work[w]} :
         /\ pod \in PodSpecs
         /\ \A c \in Sidecars : pod.cont[c] <= 1
         /\ pod.init <= 1
         /\ \A v \in VolumeNames : pod.vols[v] <= 1
    /\ pc \in [Workloads -> {"idle", "ns", "ensureSA", "getSA", "commit"}]
    /\ dec \in [Workloads -> Decisions]
    /\ sa \in [SANames -> {"absent", "managed", "foreign"}]
    /\ failures \in 0..MaxFailures

(***************************************************************************)
(* Every persisted template that has a container mounting svid-output (a   *)
(* spiffe-helper, or an envoy-proxy or client-registration built in SPIRE  *)
(* mode) also has the svid-output volume, whatever decisions the           *)
(* invocations that built it up made: the volume set chosen at lines       *)
(* 199-204 must cover the mounts of every container injected.              *)
(***************************************************************************)
MountsHaveVolumes ==
    \A w \in Workloads :
        (\E c \in Sidecars : MountsSvid(tmpl[w], c))
            => volumeExists(tmpl[w], SvidOutput)

(***************************************************************************)
(* In a template with a spiffe-helper, the envoy-proxy and the             *)
(* client-registration sidecars run in SPIRE mode and read the SVID it     *)
(* writes to svid-output (the comment at lines 197-198, and the envoy      *)
(* builder's tests).                                                       *)
(***************************************************************************)
SpireModeConsistent ==
    \A w \in Workloads :
        tmpl[w].cont[SpiffeHelper] > 0 =>
            \A c \in {Envoy, ClientRegistration} :
                tmpl[w].cont[c] > 0 => tmpl[w].spire[c]

(***************************************************************************)
(* When ensureServiceAccount returns nil, the ServiceAccount the template *)
(* is then pointed at exists: "ensure a dedicated ServiceAccount exists"  *)
(* (line 155), whichever of Create and Get answered.                       *)
(***************************************************************************)
EnsuredServiceAccountExists ==
    [][\A w \in Workloads :
         (pc[w] \in {"ensureSA", "getSA"} /\ pc'[w] = "commit")
            => sa'[CrName[w]] # "absent"]_vars
=============================================================================
