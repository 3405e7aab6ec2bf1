--------------------------- MODULE MCPServerGateway ---------------------------
(***************************************************************************)
(* The MCPServer mutating admission webhook of kagenti-webhook             *)
(* (internal/webhook/v1alpha1/mcpserver_webhook.go).  Its Default handler, *)
(* besides injecting sidecars, creates two children for every toolhive     *)
(* MCPServer -- an HTTPRoute "<name>-route" and an MCP Gateway MCPServer   *)
(* "<name>-gateway" -- adds the finalizer toolhive.kagenti.com/            *)
(* gateway-cleanup, and deletes the children when an UPDATE of a deleting  *)
(* MCPServer reaches it.                                                   *)
(*                                                                         *)
(* The API server around the handler is part of the model, because the    *)
(* hazards are in how the two interact: it calls Default for CREATE and    *)
(* UPDATE only (the kubebuilder marker's verbs), possibly for a dry run,   *)
(* concurrently for several requests, and persists the object only when    *)
(* Default returns nil and, for an UPDATE, the resource version the client *)
(* read is still current.  Every Kubernetes API call the handler makes is  *)
(* one step, so other requests interleave between them, and any of them    *)
(* may fail.                                                               *)
(***************************************************************************)
EXTENDS Naturals, FiniteSets

CONSTANTS
    Servers,        \* names of toolhive MCPServers, all in one namespace
    Slots,          \* admission requests that can be in flight at once
    Ports,          \* values a client may give spec.proxyPort (0 = unset)
    DefaultPort,    \* the route's port when spec.proxyPort is 0 (8000)
    Prefixes,       \* values a client may give the tool-prefix annotation
    NoPrefix,       \* the tool-prefix annotation is absent
    DefaultPrefix,  \* the gateway's tool prefix "<name>_" when it is absent
    NoSpec,         \* spec of a child that is absent or not ours
    MaxFailures,    \* bound on API calls that return an error
    DryRunAllowed,  \* whether clients send server-side dry-run requests
    UserEdits       \* whether users delete and create children themselves

ASSUME 0 \in Ports /\ DefaultPort \notin Ports /\ MaxFailures \in Nat

VARIABLES
    server,     \* server[s]: the MCPServer s as persisted by the API server
    child,      \* child[<<k, s>>]: the child of kind k of MCPServer s
    req,        \* req[r]: the admission request in slot r
    failures    \* number of API calls that have failed so far

vars == <<server, child, req, failures>>

Kinds == {"route", "gateway"}

(***************************************************************************)
(* The object a request carries: the fields of an MCPServer the handler    *)
(* reads or writes.  deleting: DeletionTimestamp is set; fin: Finalizers   *)
(* contains toolhive.kagenti.com/gateway-cleanup; auto: the auto-gateway   *)
(* annotation is not "false"; port: spec.proxyPort; prefix: the tool-      *)
(* prefix annotation.                                                      *)
(***************************************************************************)
Obj == [deleting : BOOLEAN, fin : BOOLEAN, auto : BOOLEAN,
        port : Ports, prefix : Prefixes \cup {NoPrefix}]

Persisted(o) == [exists |-> TRUE, deleting |-> o.deleting, fin |-> o.fin,
                  auto |-> o.auto, port |-> o.port, prefix |-> o.prefix]
Absent == [exists |-> FALSE, deleting |-> FALSE, fin |-> FALSE,
           auto |-> FALSE, port |-> 0, prefix |-> NoPrefix]
ObjOf(sv) == [deleting |-> sv.deleting, fin |-> sv.fin, auto |-> sv.auto,
              port |-> sv.port, prefix |-> sv.prefix]

NoChild == [state |-> "absent", spec |-> NoSpec]

PCs == {"idle", "default", "get", "write", "list", "delete", "commit"}
Idle == [pc |-> "idle", srv |-> CHOOSE s \in Servers : TRUE, op |-> "create",
         dry |-> FALSE, obj |-> ObjOf(Absent), stale |-> FALSE,
         kind |-> "route", plan |-> "create", cstale |-> FALSE]

(***************************************************************************)
(* generateGatewayCRs: children are generated unless the auto-gateway      *)
(* annotation is "false".  buildHTTPRoute: the backend port is             *)
(* spec.proxyPort, or 8000 when it is 0.  buildGatewayMCPServer: the tool  *)
(* prefix is the annotation's value, or "<name>_" when it is absent.       *)
(***************************************************************************)
generateGatewayCRs(o) == o.auto
\* Mutation of ServicePort: spec.proxyPort used as is, 0 included.
ServicePortNoDefault(p) == p
ServicePort(p) == IF p # 0 THEN p ELSE DefaultPort
ToolPrefix(x) == IF x # NoPrefix THEN x ELSE DefaultPrefix
DesiredSpec(k, o) == IF k = "route" THEN ServicePort(o.port) ELSE ToolPrefix(o.prefix)

(***************************************************************************)
(* needsUpdate: labels of a child we manage are always the desired ones,   *)
(* so an update is needed exactly when the spec differs.                   *)
(***************************************************************************)
\* Mutation of needsUpdate: only labels and annotations compared.
needsUpdateLabelsOnly(c, o, k) == FALSE
needsUpdate(c, o, k) == c.spec # DesiredSpec(k, o)

\* Any change of MCPServer s bumps its resourceVersion: requests that read
\* the old one now conflict at commit.
MarkStale(s) ==
    [r \in Slots |-> IF req[r].pc # "idle" /\ req[r].srv = s
                     THEN [req[r] EXCEPT !.stale = TRUE] ELSE req[r]]

\* Any write of child <<k, s>> bumps its resourceVersion: an Update built
\* from an earlier Get of it now conflicts.
MarkChildStale(rq, k, s) ==
    [r \in Slots |-> IF rq[r].pc # "idle" /\ rq[r].srv = s /\ rq[r].kind = k
                     THEN [rq[r] EXCEPT !.cstale = TRUE] ELSE rq[r]]

Finish(r) == req' = [req EXCEPT ![r] = Idle]

-----------------------------------------------------------------------------
(* Clients of the API server.                                              *)

\* POST of a new MCPServer (the API server calls Default even when one of
\* that name exists, and fails the CREATE only afterwards).
SubmitCreate(r, s) ==
    /\ req[r].pc = "idle"
    /\ \E o \in Obj, dry \in {FALSE, DryRunAllowed} :
        /\ ~o.deleting /\ ~o.fin
        /\ req' = [req EXCEPT ![r] = [Idle EXCEPT !.pc = "default", !.srv = s,
                                      !.op = "create", !.dry = dry, !.obj = o]]
    /\ UNCHANGED <<server, child, failures>>

\* PUT of MCPServer s with the resourceVersion just read: the client may
\* change the annotations and the port; metadata comes from what it read.
SubmitUpdate(r, s) ==
    /\ req[r].pc = "idle"
    /\ server[s].exists
    /\ \E auto \in BOOLEAN, port \in Ports, prefix \in Prefixes \cup {NoPrefix},
          dry \in {FALSE, DryRunAllowed} :
        req' = [req EXCEPT ![r] =
                  [Idle EXCEPT !.pc = "default", !.srv = s, !.op = "update",
                   !.dry = dry,
                   !.obj = [ObjOf(server[s]) EXCEPT !.auto = auto,
                            !.port = port, !.prefix = prefix]]]
    /\ UNCHANGED <<server, child, failures>>

\* DELETE of MCPServer s.  Default is not registered for DELETE: with a
\* finalizer the API server only sets the DeletionTimestamp, without one it
\* removes the object.
ClientDelete(s) ==
    /\ server[s].exists /\ ~server[s].deleting
    /\ server' = [server EXCEPT ![s] = IF @.fin THEN [@ EXCEPT !.deleting = TRUE]
                                                ELSE Absent]
    /\ req' = MarkStale(s)
    /\ UNCHANGED <<child, failures>>

\* A user deletes a child the webhook made (kubectl delete httproute ...).
UserDeleteChild(k, s) ==
    /\ UserEdits
    /\ child[<<k, s>>].state = "managed"
    /\ child' = [child EXCEPT ![<<k, s>>] = NoChild]
    /\ req' = MarkChildStale(req, k, s)
    /\ UNCHANGED <<server, failures>>

\* A user creates a child of that name, without the webhook's labels.
UserCreateChild(k, s) ==
    /\ UserEdits
    /\ child[<<k, s>>].state = "absent"
    /\ child' = [child EXCEPT ![<<k, s>>] = [state |-> "foreign", spec |-> NoSpec]]
    /\ req' = MarkChildStale(req, k, s)
    /\ UNCHANGED <<server, failures>>

-----------------------------------------------------------------------------
(* The handler: one action per Kubernetes API call it makes.               *)

\* Mutation of Default: an opted-out object loses the finalizer.
DefaultOptOutDropsFinalizer(r) ==
    LET o == req[r].obj IN
    /\ req[r].pc = "default"
    /\ req' = [req EXCEPT ![r] =
                 CASE o.deleting /\ o.fin -> [@ EXCEPT !.pc = "list", !.kind = "route"]
                   [] o.deleting          -> [@ EXCEPT !.pc = "commit"]
                   [] generateGatewayCRs(o) ->
                        [@ EXCEPT !.pc = "get", !.kind = "route", !.obj.fin = TRUE]
                   [] OTHER               -> [@ EXCEPT !.pc = "commit", !.obj.fin = FALSE]]
    /\ UNCHANGED <<server, child, failures>>

\* Default up to its first API call.  A deleting object goes to the
\* cleanup when it carries our finalizer and is passed through otherwise;
\* any other object gets the sidecars (MutatePodSpec, which may fail: see
\* CallFails) and, when generateGatewayCRs holds, the finalizer and the
\* children, HTTPRoute first.
Default(r) ==
    LET o == req[r].obj IN
    /\ req[r].pc = "default"
    /\ req' = [req EXCEPT ![r] =
                 CASE o.deleting /\ o.fin -> [@ EXCEPT !.pc = "list", !.kind = "route"]
                   [] o.deleting          -> [@ EXCEPT !.pc = "commit"]
                   [] generateGatewayCRs(o) ->
                        [@ EXCEPT !.pc = "get", !.kind = "route", !.obj.fin = TRUE]
                   [] OTHER               -> [@ EXCEPT !.pc = "commit"]]
    /\ UNCHANGED <<server, child, failures>>

\* After a child is in place: the HTTPRoute is followed by the gateway
\* MCPServer, which is followed by the return of Default.
AfterCreateOrUpdate(q) ==
    IF q.kind = "route" THEN [q EXCEPT !.kind = "gateway", !.pc = "get"]
                        ELSE [q EXCEPT !.pc = "commit"]

\* Mutation of createOrUpdateGet: the managed-by label is not checked.
createOrUpdateGetAnyOwner(r) ==
    LET q == req[r]
        c == child[<<q.kind, q.srv>>]
    IN
    /\ q.pc = "get"
    /\ req' = [req EXCEPT ![r] =
                 CASE c.state = "absent" -> [q EXCEPT !.pc = "write", !.plan = "create"]
                   [] needsUpdate(c, q.obj, q.kind) ->
                        [q EXCEPT !.pc = "write", !.plan = "update", !.cstale = FALSE]
                   [] OTHER -> AfterCreateOrUpdate(q)]
    /\ UNCHANGED <<server, child, failures>>

\* createOrUpdateResource, its Get: an absent child is to be created, one
\* without our managed-by label is left alone, one of ours is updated when
\* needsUpdate says so.
createOrUpdateGet(r) ==
    LET q == req[r]
        c == child[<<q.kind, q.srv>>]
    IN
    /\ q.pc = "get"
    /\ req' = [req EXCEPT ![r] =
                 CASE c.state = "absent" -> [q EXCEPT !.pc = "write", !.plan = "create"]
                   [] c.state = "managed" /\ needsUpdate(c, q.obj, q.kind) ->
                        [q EXCEPT !.pc = "write", !.plan = "update", !.cstale = FALSE]
                   [] OTHER -> AfterCreateOrUpdate(q)]
    /\ UNCHANGED <<server, child, failures>>

\* Mutation of createOrUpdateWrite: the Update carries no resourceVersion.
createOrUpdateWriteNoPrecondition(r) ==
    LET q == req[r]
        key == <<q.kind, q.srv>>
        ok == IF q.plan = "create" THEN child[key].state = "absent"
                                   ELSE child[key].state # "absent"
    IN
    /\ q.pc = "write"
    /\ IF ok
       THEN /\ child' = [child EXCEPT ![key] =
                           [state |-> "managed", spec |-> DesiredSpec(q.kind, q.obj)]]
            /\ req' = [MarkChildStale(req, q.kind, q.srv) EXCEPT ![r] = AfterCreateOrUpdate(q)]
       ELSE /\ Finish(r)
            /\ UNCHANGED child
    /\ UNCHANGED <<server, failures>>

\* createOrUpdateResource, its Create or Update.  Create fails with
\* AlreadyExists when the child appeared since the Get; Update carries the
\* resourceVersion of the Get and fails when the child changed since.
\* Either error is returned by Default, which fails the admission.
createOrUpdateWrite(r) ==
    LET q == req[r]
        key == <<q.kind, q.srv>>
        ok == IF q.plan = "create" THEN child[key].state = "absent"
                                   ELSE ~q.cstale /\ child[key].state # "absent"
    IN
    /\ q.pc = "write"
    /\ IF ok
       THEN /\ child' = [child EXCEPT ![key] =
                           [state |-> "managed", spec |-> DesiredSpec(q.kind, q.obj)]]
            /\ req' = [MarkChildStale(req, q.kind, q.srv) EXCEPT ![r] = AfterCreateOrUpdate(q)]
       ELSE /\ Finish(r)
            /\ UNCHANGED child
    /\ UNCHANGED <<server, failures>>

\* After the children of one kind are deleted: HTTPRoutes are followed by
\* gateway MCPServers, which are followed by removing the finalizer.
AfterCleanup(q) ==
    IF q.kind = "route" THEN [q EXCEPT !.kind = "gateway", !.pc = "list"]
                        ELSE [q EXCEPT !.obj.fin = FALSE, !.pc = "commit"]

\* cleanupGatewayResources, a List by the parent-server and
\* parent-namespace labels: only a child we created carries them.
cleanupList(r) ==
    LET q == req[r] IN
    /\ q.pc = "list"
    /\ req' = [req EXCEPT ![r] = IF child[<<q.kind, q.srv>>].state = "managed"
                                 THEN [q EXCEPT !.pc = "delete"]
                                 ELSE AfterCleanup(q)]
    /\ UNCHANGED <<server, child, failures>>

\* cleanupGatewayResources, a Delete of the listed item by name, without
\* preconditions; NotFound is not an error.
cleanupDelete(r) ==
    LET q == req[r] IN
    /\ q.pc = "delete"
    /\ child' = [child EXCEPT ![<<q.kind, q.srv>>] = NoChild]
    /\ req' = [MarkChildStale(req, q.kind, q.srv) EXCEPT ![r] = AfterCleanup(q)]
    /\ UNCHANGED <<server, failures>>

\* An API call of the handler returns an error (a failing MutatePodSpec,
\* Forbidden on Create, a timeout of the cleanup context, ...): Default
\* returns it and the API server fails the admission.
CallFails(r) ==
    /\ failures < MaxFailures
    /\ \/ req[r].pc \in {"get", "write", "list", "delete"}
       \/ req[r].pc = "default" /\ ~req[r].obj.deleting
    /\ failures' = failures + 1
    /\ Finish(r)
    /\ UNCHANGED <<server, child>>

-----------------------------------------------------------------------------
(* The API server after Default returned nil.                              *)

\* The MCPServer validator accepts everything.  A dry run persists nothing;
\* a CREATE fails when the name exists; an UPDATE fails on a stale
\* resourceVersion, and removes the object when it leaves a deleting object
\* without finalizers.
\* Mutation of CommitAllowed: the resourceVersion of an UPDATE not checked.
CommitAllowedIgnoreStale(q) ==
    IF q.op = "create" THEN ~server[q.srv].exists ELSE server[q.srv].exists

CommitAllowed(q) ==
    IF q.op = "create" THEN ~server[q.srv].exists
                       ELSE server[q.srv].exists /\ ~q.stale

Commit(r) ==
    LET q == req[r] IN
    /\ q.pc = "commit"
    /\ IF ~q.dry /\ CommitAllowed(q)
       THEN /\ server' = [server EXCEPT ![q.srv] =
                            IF q.obj.deleting /\ ~q.obj.fin THEN Absent
                                                           ELSE Persisted(q.obj)]
            /\ req' = [MarkStale(q.srv) EXCEPT ![r] = Idle]
       ELSE /\ Finish(r)
            /\ UNCHANGED server
    /\ UNCHANGED <<child, failures>>

-----------------------------------------------------------------------------
\* A child that already exists when the system starts is one a user made,
\* without our managed-by and parent labels.
Init ==
    /\ server = [s \in Servers |-> Absent]
    /\ child \in [Kinds \X Servers -> {NoChild, [state |-> "foreign", spec |-> NoSpec]}]
    /\ req = [r \in Slots |-> Idle]
    /\ failures = 0

Handle(r) ==
    \/ Default(r)
    \/ createOrUpdateGet(r)
    \/ createOrUpdateWrite(r)
    \/ cleanupList(r)
    \/ cleanupDelete(r)
    \/ Commit(r)

Next ==
    \/ \E r \in Slots, s \in Servers : SubmitCreate(r, s) \/ SubmitUpdate(r, s)
    \/ \E s \in Servers : ClientDelete(s)
    \/ \E k \in Kinds, s \in Servers : UserDeleteChild(k, s) \/ UserCreateChild(k, s)
    \/ \E r \in Slots : Handle(r) \/ CallFails(r)

\* The webhook server runs every request it accepted to completion, and
\* the API server then answers it; clients owe nothing.
Fairness == \A r \in Slots : WF_vars(Handle(r))

Spec == Init /\ [][Next]_vars /\ Fairness

-----------------------------------------------------------------------------
(* Properties.                                                             *)

RouteSpecs == (Ports \ {0}) \cup {DefaultPort}
GatewaySpecs == Prefixes \cup {DefaultPrefix}
SpecsOf(k) == IF k = "route" THEN RouteSpecs ELSE GatewaySpecs

\* Every value has its type; in particular an HTTPRoute we manage never has
\* backend port 0 (buildHTTPRoute defaults an unset spec.proxyPort to 8000)
\* and a gateway MCPServer always has a tool prefix.
TypeOK ==
    /\ server \in [Servers -> {Absent} \cup {Persisted(o) : o \in Obj}]
    /\ \A k \in Kinds, s \in Servers :
        \/ child[<<k, s>>] \in {NoChild, [state |-> "foreign", spec |-> NoSpec]}
        \/ child[<<k, s>>].state = "managed" /\ child[<<k, s>>].spec \in SpecsOf(k)
    /\ \A r \in Slots : /\ req[r].pc \in PCs /\ req[r].srv \in Servers
                       /\ req[r].obj \in Obj /\ req[r].kind \in Kinds
    /\ failures \in 0..MaxFailures

\* A child somebody else made (no managed-by label) is never updated or
\* deleted by the handler: createOrUpdateResource skips it (line 360) and
\* cleanupGatewayResources lists only children with our parent labels
\* (lines 461-465).
ForeignUntouched ==
    [][\A k \in Kinds, s \in Servers :
         child[<<k, s>>].state = "foreign" => child'[<<k, s>>] = child[<<k, s>>]]_vars

\* A child somebody else made never becomes one of ours: a user who
\* deletes our child and creates their own between the handler's Get and
\* its Update or Create makes the Update conflict on the resourceVersion
\* of the Get (lines 373-379) and the Create fail with AlreadyExists
\* (lines 343-350), so the user's child is never overwritten.
ForeignNeverAdopted ==
    [][\A k \in Kinds, s \in Servers :
         child[<<k, s>>].state = "foreign" => child'[<<k, s>>].state # "managed"]_vars

\* The children of MCPServer s match object o: each is ours with the spec
\* o asks for, or is somebody else's and was left alone.
InSync(s, o) ==
    \A k \in Kinds : \/ child[<<k, s>>].state = "foreign"
                    \/ /\ child[<<k, s>>].state = "managed"
                       /\ child[<<k, s>>].spec = DesiredSpec(k, o)

\* When the API server is about to persist a live MCPServer that wants
\* gateway children, they exist and match it: Default returns nil only
\* after createOrUpdateResource succeeded for both.
CommitInSync ==
    \A r \in Slots :
        LET q == req[r] IN
        (/\ q.pc = "commit" /\ ~q.dry /\ CommitAllowed(q)
         /\ ~q.obj.deleting /\ generateGatewayCRs(q.obj)) => InSync(q.srv, q.obj)

\* No child we created outlives its MCPServer, except while an admission
\* request for that MCPServer is still in flight.
NoOrphans ==
    \A k \in Kinds, s \in Servers :
        child[<<k, s>>].state = "managed" =>
            \/ server[s].exists
            \/ \E r \in Slots : req[r].pc # "idle" /\ req[r].srv = s

\* The marker declares sideEffects=None: a dry-run admission must not
\* create, update or delete anything.
DryRunHasNoSideEffects ==
    [][\A r \in Slots :
         req[r].dry => ~((createOrUpdateWrite(r) \/ cleanupDelete(r)) /\ child' # child)]_vars

\* MCPServer s is in the cluster and not being deleted.
Live(s) == server[s].exists /\ ~server[s].deleting

\* The cleanup never deletes a child of a live MCPServer: it runs for a
\* deleting MCPServer, whose children must go, and never for one of the
\* same name created since (cleanupGatewayResources deletes what it
\* listed by name, with no UID precondition).
CleanupSparesLive ==
    [][\A r \in Slots :
         (cleanupDelete(r) /\ child[<<req[r].kind, req[r].srv>>].state = "managed")
            => ~Live(req[r].srv)]_vars

\* Each child, with its parent's existence, deletion and finalizer, seen
\* through the abstract lifecycle of GatewayChild.
Child(k, s) == INSTANCE GatewayChild WITH
    parent <- [exists |-> server[s].exists, deleting |-> server[s].deleting,
               fin |-> server[s].fin],
    state <- child[<<k, s>>].state,
    spec <- child[<<k, s>>].spec,
    Specs <- SpecsOf(k)

(***************************************************************************)
(* The webhook and the API server together implement GatewayChild for     *)
(* every child: whatever requests, failures and DELETEs interleave, a     *)
(* parent only moves forward through its lifecycle and keeps the          *)
(* finalizer while live, leaves only without our children, and a child    *)
(* is written only when absent or ours and removed only when its parent   *)
(* is not live.  (The conjunction of the instances' Spec, with the box   *)
(* moved outside the quantifier.)                                          *)
(***************************************************************************)
ChildLifecycle ==
    /\ \A k \in Kinds, s \in Servers : Child(k, s)!Init
    /\ [][\A k \in Kinds, s \in Servers : [Child(k, s)!Next]_(Child(k, s)!vars)]_vars

\* A deleted MCPServer eventually leaves the cluster.
DeletionCompletes == \A s \in Servers : server[s].deleting ~> ~server[s].exists

=============================================================================
