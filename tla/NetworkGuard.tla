------------------------------ MODULE NetworkGuard ------------------------------
(***************************************************************************)
(* The removal of the filters that an obsolete version left in the Windows *)
(* filtering platform (net/src/windows_network_guard.cpp), which the       *)
(* installer runs (trusttunnel/src/trusttunnel_client.cpp). Any call may   *)
(* fail, a watchdog may end the process, and other products change their   *)
(* own objects, or take the keys of ours, between any two calls.           *)
(***************************************************************************)
EXTENDS FiniteSets

CONSTANT
    GuardObjects    \* [kind, blocking, space, no]: filters have an identifier, the rest the key of its space

\* Only filters block.
ASSUME ObjectsAssumption ==
    \A o \in GuardObjects : /\ o.kind \in {"filter", "sublayer", "provider"} /\ o.blocking \in BOOLEAN
                            /\ o.blocking => o.kind = "filter"

VARIABLES
    wfp,        \* the owner of each object: "none", "ours" or "other"
    guard,      \* the process that inspects and removes
    removed     \* history: what it has removed, with its owner at that time

guardVars == <<wfp, guard, removed>>

GuardInit ==
    /\ wfp \in [GuardObjects -> {"none", "ours", "other"}]
    /\ guard = [pc |-> "idle", todo |-> {}, kind |-> "filter", ok |-> TRUE, success |-> FALSE, armed |-> FALSE]
    /\ removed = {}

\* network_guard_legacy_object_owned: the key, the provider, the sublayer and the marker are ours.
Owned(o) == wfp[o] = "ours"

\* has_owned_block of a snapshot
HasOwnedBlock(objects) == \E o \in objects : o.kind = "filter" /\ o.blocking

\* inspect, with inspect_filters for every layer: the objects of ours it finds, and whether every call was
\* answered before the time was up.
Snapshots ==
    {[complete |-> TRUE, objects |-> {o \in GuardObjects : Owned(o)}]}
        \cup [complete : {FALSE}, objects : SUBSET {o \in GuardObjects : Owned(o)}]

\* status(): inspection alone
Status ==
    /\ guard.pc = "idle"
    /\ \E s \in Snapshots :
          guard' = [guard EXCEPT !.pc = "done", !.success = s.complete, !.armed = ~s.complete \/ HasOwnedBlock(s.objects)]
    /\ UNCHANGED <<wfp, removed>>

\* release(): the blocks of the first snapshot are to go.
Release ==
    /\ guard.pc = "idle"
    /\ \E s \in Snapshots :
          guard' = [guard EXCEPT !.pc = "blocks", !.ok = s.complete, !.todo = {o \in s.objects : HasOwnedBlock({o})}]
    /\ UNCHANGED <<wfp, removed>>

\* A filter keeps its sublayer and its provider, and a sublayer its provider.
InUse(o) ==
    \E p \in GuardObjects :
        /\ wfp[p] # "none" /\ p.space = o.space
        /\ <<p.kind, o.kind>> \in {<<"filter", "sublayer">>, <<"filter", "provider">>, <<"sublayer", "provider">>}

\* remove: within a transaction remove_current looks again at whose object it is, and what is gone counts
\* as removed. Too late, or with an error, nothing changes.
Remove(o) ==
    \/ /\ Owned(o) /\ ~InUse(o)
       /\ wfp' = [wfp EXCEPT ![o] = "none"] /\ removed' = removed \cup {[object |-> o, owner |-> wfp[o]]}
       /\ guard' = [guard EXCEPT !.todo = @ \ {o}]
    \/ /\ wfp[o] = "none" /\ guard' = [guard EXCEPT !.todo = @ \ {o}]
       /\ UNCHANGED <<wfp, removed>>
    \/ /\ guard' = [guard EXCEPT !.todo = @ \ {o}, !.ok = FALSE]
       /\ UNCHANGED <<wfp, removed>>

\* The loops of network_guard_cleanup
RemoveOne ==
    /\ guard.pc \in {"blocks", "rest"}
    /\ \E o \in guard.todo : (guard.pc = "rest" => o.kind = guard.kind) /\ Remove(o)

\* A slip: the cleanup goes on although a removal failed.
Confirmed_anyway(s) == s.complete

\* Every block is confirmed absent,
Confirmed(s) == guard.ok /\ s.complete /\ ~HasOwnedBlock(s.objects)

\* else the cleanup ends here; then the rest goes, kind by kind.
ConfirmBlocks ==
    /\ guard.pc = "blocks" /\ guard.todo = {}
    /\ \E s \in Snapshots :
          guard' = IF Confirmed(s) THEN [guard EXCEPT !.pc = "rest", !.todo = s.objects \ {o \in s.objects : HasOwnedBlock({o})}]
                   ELSE [guard EXCEPT !.pc = "done", !.success = FALSE, !.armed = ~s.complete \/ HasOwnedBlock(s.objects)]
    /\ UNCHANGED <<wfp, removed>>

NextKind ==
    /\ guard.pc = "rest" /\ \A o \in guard.todo : o.kind # guard.kind
    /\ \/ guard.kind = "filter" /\ guard' = [guard EXCEPT !.kind = "sublayer"]
       \/ guard.kind = "sublayer" /\ guard' = [guard EXCEPT !.kind = "provider"]
       \/ /\ guard.kind = "provider"
          /\ \E s \in Snapshots :
                LET armed == ~s.complete \/ HasOwnedBlock(s.objects)
                IN  guard' = [guard EXCEPT !.pc = "done", !.armed = armed, !.success = guard.ok /\ s.complete /\ ~armed]
    /\ UNCHANGED <<wfp, removed>>

\* CleanupWatchdog: the deadline passes and the process is terminated. The installer may run it again.
Terminate ==
    /\ guard.pc \in {"blocks", "rest"}
    /\ guard' = [guard EXCEPT !.pc = "done", !.success = FALSE, !.armed = TRUE, !.todo = {}]
    /\ UNCHANGED <<wfp, removed>>

RunAgain ==
    /\ guard.pc = "done"
    /\ guard' = [pc |-> "idle", todo |-> {}, kind |-> "filter", ok |-> TRUE, success |-> FALSE, armed |-> FALSE]
    /\ UNCHANGED <<wfp, removed>>

\* Others: an object of ours disappears, or its key is taken. A filter's identifier is never used again.
OthersChange ==
    /\ \E o \in GuardObjects :
          \/ wfp[o] # "none" /\ ~InUse(o) /\ wfp' = [wfp EXCEPT ![o] = "none"]
          \/ o.kind # "filter" /\ wfp[o] = "none" /\ wfp' = [wfp EXCEPT ![o] = "other"]
    /\ UNCHANGED <<guard, removed>>

GuardNext ==
    \/ Status
    \/ Release
    \/ RemoveOne
    \/ ConfirmBlocks
    \/ NextKind
    \/ Terminate
    \/ RunAgain
    \/ OthersChange

GuardSpec == GuardInit /\ [][GuardNext]_guardVars

-----------------------------------------------------------------------------
\* Properties

\* A cleanup that fails, is cut short or repeated at any point never leaves the machine more restricted
\* than before: once it has removed anything but a block, no block of ours is left; and it never removes
\* what others own. When it reports success nothing of ours is left, and "not armed" means no block.
CleanupNeverRestricts ==
    /\ (\E r \in removed : ~r.object.blocking) => \A o \in GuardObjects : o.blocking => ~Owned(o)
    /\ \A r \in removed : r.owner = "ours"
    /\ guard.pc = "done" /\ ~guard.armed => \A o \in GuardObjects : o.blocking => ~Owned(o)
    /\ guard.pc = "done" /\ guard.success /\ guard.kind = "provider" => \A o \in GuardObjects : ~Owned(o)
=============================================================================
