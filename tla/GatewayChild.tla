----------------------------- MODULE GatewayChild -----------------------------
(***************************************************************************)
(* What the MCPServer webhook promises of one gateway child (an HTTPRoute *)
(* or gateway MCPServer) and the MCPServer it belongs to, with the         *)
(* webhook's requests hidden:                                              *)
(*   - the parent is created, updated, marked deleting (only when it       *)
(*     carries the gateway-cleanup finalizer) or removed; a live parent    *)
(*     never loses the finalizer, and a deleting one never revives;        *)
(*   - a parent that carried the finalizer leaves only without a child    *)
(*     of ours;                                                            *)
(*   - the webhook writes only a child that is absent or its own, with    *)
(*     one of the specs it builds;                                         *)
(*   - it removes its child only when the parent is not live.             *)
(* Nobody else edits the child: a child that is not ours is there from   *)
(* the start and stays.                                                    *)
(***************************************************************************)
CONSTANTS
    Specs,     \* the specs the webhook builds for a child of this kind
    NoSpec     \* spec of a child that is absent or not ours

VARIABLES
    parent,    \* [exists, deleting, fin] of the MCPServer
    state,     \* "absent", "managed" or "foreign"
    spec       \* the child's spec when it is managed

vars == <<parent, state, spec>>

Gone == [exists |-> FALSE, deleting |-> FALSE, fin |-> FALSE]
Parents == {Gone} \cup [exists : {TRUE}, deleting : BOOLEAN, fin : BOOLEAN]
Live == parent.exists /\ ~parent.deleting

Init ==
    /\ parent = Gone
    /\ state \in {"absent", "foreign"}
    /\ spec = NoSpec

\* A committed admission or a DELETE changes the parent.
ParentStep ==
    /\ parent' \in Parents \ {parent}
    /\ ~parent.exists => ~parent'.deleting
    /\ parent.deleting => ~parent'.exists
    /\ Live /\ parent.fin => parent'.fin
    /\ Live /\ parent'.deleting => parent.fin
    /\ parent.fin /\ ~parent'.exists => state # "managed"
    /\ UNCHANGED <<state, spec>>

\* The webhook creates or updates its child.
Write ==
    /\ state # "foreign"
    /\ state' = "managed"
    /\ spec' \in Specs
    /\ <<state', spec'>> # <<state, spec>>
    /\ UNCHANGED parent

\* The webhook deletes its child.
Remove ==
    /\ state = "managed" /\ ~Live
    /\ state' = "absent" /\ spec' = NoSpec
    /\ UNCHANGED parent

Next == ParentStep \/ Write \/ Remove

Spec == Init /\ [][Next]_vars
=============================================================================
