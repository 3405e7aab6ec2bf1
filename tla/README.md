# TLA+ models of kagenti-webhook

This directory holds TLA+ models of the two state-changing parts of
`kagenti-webhook`. Each model is written from the Go source, and TLC
configurations check it.

## The system

`kagenti-webhook` is a Kubernetes admission webhook (controller-runtime).

* **MCPServer defaulter**
  * Source: `internal/webhook/v1alpha1/mcpserver_webhook.go`, lines 83-549.
  * It is called for toolhive `MCPServer` CREATE and UPDATE.
  * It injects AuthBridge sidecars into the pod template.
  * Unless `toolhive.kagenti.com/auto-gateway: "false"`, it also:
    * adds the finalizer `toolhive.kagenti.com/gateway-cleanup`;
    * creates or updates two children, an HTTPRoute `<name>-route` and a gateway MCPServer `<name>-gateway`. They carry the managed-by and parent labels.
  * When an UPDATE reaches it for a deleting MCPServer, it lists the children by parent labels, deletes them, and drops the finalizer.
  * The validator accepts everything.
* **PodMutator**
  * Source: `internal/webhook/injector/pod_mutator.go`.
  * `InjectAuthBridge` is called by the workload webhook for every Deployment, StatefulSet, ... pod template, on CREATE and UPDATE.
  * It pre-filters on `kagenti.io/type` and `kagenti.io/inject`, reads the namespace, and asks the precedence evaluator which sidecars to inject.
  * It then appends the missing ones: envoy-proxy, proxy-init, spiffe-helper and client-registration, plus their volumes.
  * In SPIRE mode it also ensures a dedicated ServiceAccount.

They interact only through the Kubernetes API server. It calls the handlers, and it commits or rejects the object after they return. Requests run concurrently, and the handlers' own API calls interleave with other requests.

The precedence evaluator, the config loader and the container builders are not part of `src/`. Only the builders' tests (`src/unnamed/part_003`) and two shell scripts describe them. The scripts are `test-precedence.sh` and `demo-precedence.sh`, appended to the webhook file at lines 550-1481. `Default` calls `d.Mutator.MutatePodSpec`, which `pod_mutator.go` does not define. The model treats that call as an opaque step that may fail.

## Modules

| module | models | state | actions |
|---|---|---|---|
| `MCPServerGateway` | MCPServer defaulter + API server | `server`: persisted MCPServers (deleting, finalizer, annotation, port, prefix); `child`: HTTPRoute / gateway MCPServer (absent, managed with a spec, foreign); `req`: per request slot the object, pc, staleness flags; `failures` | `SubmitCreate`, `SubmitUpdate`, `ClientDelete` (clients); `Default`, `createOrUpdateGet`, `createOrUpdateWrite`, `cleanupList`, `cleanupDelete` (one per API call of the handler); `CallFails`; `Commit` (API server) |
| `PodMutator` | `InjectAuthBridge`, `ensureServiceAccount` + API server | `tmpl`: persisted pod templates (per sidecar a count and its SPIRE mode, volumes, serviceAccountName); `work`: the request's copy; `pc`, `dec`; `sa`: ServiceAccounts; `failures` | `Submit`, `GetNamespace`, `CreateServiceAccount`, `GetServiceAccount` (after AlreadyExists), `DeleteServiceAccount` (a user), `CallFails`, `Commit`, `CommitRejected` (the API server fails the request after the webhook returned: a later webhook, a conflict, a dry run) |
| `Precedence` | the precedence chain (no Go source; layers as `part_002` lines 55-69 and the `demo-precedence.sh` header list them, Layer 7 as `part_002` line 172 and the Go tests state it) | none: pure operators | `LayerSkips` per layer, `Injects`, `Evaluate` (proxy-init follows envoy) |
| `AuthBridgeInjection` | `PodMutator` composed with `Precedence` and the hot reloads of the feature gates and the platform config | PodMutator's variables, `gates`, `config` (the platform config's sidecar defaults), `lab` (the request's labels) | `Submit` (new labels), `GetNamespace` (decision = `Evaluate` of the current gates, defaults and labels), `ReloadGates`, `ReloadConfig`, the other PodMutator actions |
| `GatewayChild` | abstract lifecycle of one gateway child and its parent MCPServer | `parent` (exists, deleting, finalizer), `state`, `spec` of the child | `ParentStep` (a parent only moves forward and keeps its finalizer while live; it leaves only without our child), `Write` (only an absent or own child), `Remove` (only when the parent is not live) |
| `AuthBridgeTemplate` | abstract promise of the injector | `present`: the sidecars of each template | `Install`: whole groups are added, nothing removed |
| `MC_*` | model values and constant definitions for TLC | | |

Correspondence to the code:

* In `MCPServerGateway`, the port and prefix defaults follow `buildHTTPRoute` and `buildGatewayMCPServer`: port 0 becomes 8000, and an absent prefix becomes `<name>_`.
  * A child's spec is abstracted to the value derived from them.
  * `needsUpdate` compares the specs. The labels of a managed child are always the desired ones.
* Optimistic concurrency is modelled by flags, not counters:
  * `stale` records that the MCPServer changed since the request read it.
  * `cstale` records that the child changed since its Get.
* In `MCPServerGateway`, `UserDeleteChild` and `UserCreateChild` (enabled by the constant `UserEdits`) are users editing children by hand; they mark in-flight Gets stale.
* `Child(k, s) == INSTANCE GatewayChild WITH ...` maps each child and its parent's existence, deletion flag and finalizer onto the abstract module, one instance per child.
  * `ChildLifecycle` is the conjunction of the instances' `Spec`. The box is moved outside the quantifier so that TLC can check it.
  * It is checked as a PROPERTY of `mcp_serial`, so the webhook and API server are shown to implement the per-child promise.
  * With two concurrent requests it does not hold. `mcp_stale_cleanup` shows why.
  * It does not hold under user edits either. A user's recreated child is deleted by the same Delete by name, which `mcp_user_recreate` shows.
* In `AuthBridgeInjection`, `PM == INSTANCE PodMutator WITH Decisions <- ...` restricts PodMutator's free decision to what `Evaluate` can return. `GetNamespace` additionally fixes it to `Evaluate(Inp(w))`, with the gates and the platform defaults read at that step (`pod_mutator.go:121-126`). The two loaders reload independently, so reading both in one step still lets every pairing of old and new values occur.
* `Template == INSTANCE AuthBridgeTemplate WITH present <- ...` maps each template to its set of sidecars; `TemplateSpec` (the abstract `Spec`) is checked as a PROPERTY, so the composition is shown to implement the abstract promise.
* In `PodMutator`, `Mutate` is lines 166-209 in the code's order.
  * `InjectIf` is the `containerExists`-guarded append.
  * `requiredVolumes` is the spire/no-spire volume choice.
  * "shared" stands for the no-SPIRE volume set, and `svid-output` for the SPIRE-only volume that SPIRE-mode containers mount.

## Runs

| run | cfg | expect | shows |
|---|---|---|---|
| mcp_serial | `MCPServerGateway_serial.cfg` | pass | With one request at a time, one failing call, DELETEs and prefix changes:<br>• a committed MCPServer matches its children (`CommitInSync`);<br>• every child implements `GatewayChild` (`ChildLifecycle`): foreign children are never touched, children are removed only when the parent is not live, a finalized MCPServer leaves only without children, and a live MCPServer keeps its finalizer. |
| mcp_race_cleanup | `_race_cleanup.cfg` | violation | A rejected duplicate CREATE writes children for a parent persisted without a finalizer. They are orphaned on DELETE. |
| mcp_race_update | `_race_update.cfg` | violation | Children get the last write while the parent gets the first commit, so the two disagree. |
| mcp_orphan | `_orphan.cfg` | violation | A failing gateway create leaves the HTTPRoute without a parent. |
| mcp_dryrun | `_dryrun.cfg` | violation | A dry-run creates children despite `sideEffects=None`. |
| mcp_stuck_delete | `_stuck_delete.cfg` | violation | DELETE never reaches `Default`, so the finalizer stays until some UPDATE. |
| mcp_stale_cleanup | `_stale_cleanup.cfg` | violation | Two UPDATEs of a deleting MCPServer both run the cleanup. The first removes the finalizer, and a new MCPServer of the same name is created and gets its HTTPRoute. The second, still between List and Delete, then deletes that route by name (`mcpserver_webhook.go:470`, no UID precondition). |
| mcp_user_edits | `_user_edits.cfg` | pass | Users delete the webhook's children and create their own of the same name between any two API calls. A child the webhook did not make still never becomes one it manages (`ForeignNeverAdopted`): the Update of a child re-created after the Get conflicts on the Get's resourceVersion (lines 373-379), and the Create fails with AlreadyExists (lines 343-350). |
| mcp_user_recreate | `_user_recreate.cfg` | violation | A user deletes the webhook's HTTPRoute and creates their own of that name while a cleanup is between its List (line 461) and its Delete (line 470). The cleanup deletes the user's route (`ForeignUntouched`): the Delete by name carries no UID precondition. |
| pod_sa_deleted | `PodMutator_sa_deleted.cfg` | violation | The SA is deleted between Create (AlreadyExists) and Get; the NotFound Get returns nil, and the template names an absent SA (`pod_mutator.go:239`). |
| auth_chain | `AuthBridgeInjection_chain.cfg` | pass | The chain feeds `InjectAuthBridge`, which is applied repeatedly to its own output while gates and platform defaults reload, labels change, SAs are deleted, and a call fails or a commit is rejected. It checks:<br>• every svid-output mount has its volume (`MountsHaveVolumes`);<br>• the templates implement `AuthBridgeTemplate`: they are append-only and gain whole groups (`TemplateSpec`). |
| pod_spire_mode | `PodMutator_spire_mode.cfg` | violation | Enabling SPIRE later adds spiffe-helper, but envoy-proxy and client-registration keep their non-SPIRE form. |

Every property of a passing run has a mutant in `PROJECT.json`: a plausible bug in the mapped definition that TLC catches.

## Bounds and fairness

* **MCPServerGateway**
  * One MCPServer, because children are per parent and parents do not interact.
  * Ports {0, 9000}, so that the default applies.
  * Prefixes: {px} in the serial and user-edit runs, {} where the user recreates a child.
  * `MaxFailures` 0-1.
  * One or two request slots. Two is the least that shows the races; the user runs need one, because the user is the second actor.
  * Fairness is weak fairness on each slot's handler and commit steps: the webhook server finishes every request it accepted. Clients get no fairness. `DeletionCompletes` is therefore violated when nobody sends an UPDATE, which is the point of that run.
* **PodMutator**
  * One workload in the runs. The shared-ServiceAccount interleaving has no property beyond the SA name.
  * The violation runs allow every decision. In `auth_chain` the decisions come from the chain.
  * Per-workload state is bounded, because containers and volumes are capped by the existence checks. No invocation bound is needed.

* **AuthBridgeInjection**
  * One workload.
  * Platform defaults: the Helm values (every sidecar enabled, `part_002` lines 198-200), reloadable to spiffe-helper disabled. envoy-proxy is turned off through its gate instead.
  * Three gate settings: all on, envoyProxy off (`test-precedence.sh` Test 3), and the global kill switch thrown (Test 5).
  * No fairness: both properties are safety.
  * Labels: opt out of client-registration or not; `kagenti.io/spire` enabled or absent, so that an UPDATE may add spiffe-helper to a template that already has the other sidecars. envoy-proxy is switched off through its gate.
  * One failing call or rejected commit.
  * 415k states in about 35 seconds.

## The scripts and the code

* The scripts never set `kagenti.io/inject: enabled`, yet `pod_mutator.go:104-111` requires it. As written, every scenario that expects sidecars would find none.
* Demo scenario 1 and `DEPLOYMENT.md` Test 2 expect spiffe-helper without any `kagenti.io/spire` label, and the demo header describes Layer 7 as a veto on `kagenti.io/spire=disabled`. `part_002` line 172, the comment at `pod_mutator.go:101-105` and `TestInjectAuthBridge_NoSACreationWithoutSpire` say spiffe-helper needs `kagenti.io/spire=enabled`. `Precedence` follows the documentation and the Go test.
* `kagenti-webhook/README.md` line 115 says client-registration needs the label too; `part_002` line 172 names only spiffe-helper. The model follows line 172 and the test.
* The scripts are not a reference the model is checked against: the Go source of the evaluator is missing, and the scripts disagree with the documentation.

## Not modelled

* The precedence evaluator's Go source is not in the repository. `Precedence` is written from its documentation, and the loader's file watching and parsing are left out.
* The platform config's images and resources. Only its sidecar defaults are modelled; nothing else in it changes a decision.
* Container contents.
* The AuthBridge processor of `spec.md`: the bypass matcher, JWT validation, token exchange, key cache and credential bootstrap. Neither `src/` nor the rest of the repository holds its code, so a model could only restate the spec's own design choices.
* Opting out with auto-gateway `"false"` on UPDATE leaves the children and the finalizer in place (`mcpserver_webhook.go:168`). No comment, test or spec says whether they should go, so no property takes a side on the stale route. `ChildLifecycle` checks that the finalizer stays, so the cleanup still runs on DELETE.
* The older webhook revision (`part_004`, no finalizer, no cleanup) is superseded by the modelled one.
* Shell scripts and CI.

## Open work

1. Two workloads sharing a ServiceAccount, with a reduced decision set so that TLC can finish.
2. Children that drift from a live MCPServer after a rejected CREATE or UPDATE: no comment or document states that they must match it between admissions.
