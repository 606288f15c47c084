------------------------------- MODULE LiveTools -------------------------------
(***************************************************************************)
(* The tool surface of an agent: its own registry plus registries that     *)
(* their owners keep changing while mounted.  One announced call steps     *)
(* through it: the surface is listed and narrowed, the name is bound to a  *)
(* registry entry, the gates may take long, and the binding is checked     *)
(* again before it is dispatched.  Each registry and the list of mounts    *)
(* has a lock of its own, so a scan over them sees no single moment.       *)
(* The state of one tool name is kept; other names only move generations.  *)
(***************************************************************************)
EXTENDS Naturals, SequencesExt

CONSTANTS
  Local,       \* the agent's private registry
  Externals,   \* registries that may be mounted
  Loaded,      \* registries that come with the tool
  None,        \* no registry
  MaxChanges   \* bound: changes made to registries

ASSUME LiveToolsAssumption ==
  /\ Local \notin Externals /\ None \notin Externals /\ None # Local
  /\ Loaded \subseteq Externals \cup {Local}
  /\ MaxChanges \in Nat

Registries == Externals \cup {Local}

\* A definition with the function it was registered with, and whether the model
\* may see it (exposed to agents, its capabilities present).
Definitions == [made : Nat, shown : BOOLEAN]
Absent      == [made |-> 0, shown |-> FALSE]

Threads == {"agent", "host"}

VARIABLES
  tool,        \* _defs and _callables of each registry at the name, or Absent
  gen,         \* _generation of each registry
  dispatcher,  \* _dispatch of each registry
  mounts,      \* _mounts
  disabled,    \* whether the name is in ToolAccess._disabled
  changes,     \* changes made so far
  at,          \* where the agent's call, and a mount_tools() of the host, are
  todo,        \* registries a scan has still to look at
  found,       \* the registry a scan found the name in
  surface,     \* whether the call's surface has the name
  binding,     \* the ToolBinding of the call
  outcome,     \* how the call ended
  mounting,    \* the registry mount_tools() is validating
  rivals,      \* history: registries that published the name throughout a scan
  reachable,   \* history: registries mounted at some time since the gates passed
  disturbed    \* history: a call was ended by the registry being validated

registryVars == <<tool, gen, dispatcher, changes>>
callVars     == <<surface, binding, outcome, reachable>>
scanVars     == <<at, todo, found>>
vars == <<registryVars, mounts, disabled, scanVars, callVars, mounting, rivals,
          disturbed>>

Publishes(r) == tool[r].made # 0
Entries      == <<Local>> \o mounts
Mounted      == {Local} \cup Range(mounts)

Bindings == [registry : Registries \cup {None}, gen : Nat, def : Definitions,
             dispatcher : Nat]
Unbound  == [registry |-> None, gen |-> 0, def |-> Absent, dispatcher |-> 0]

Init ==
  /\ tool = [r \in Registries |-> IF r \in Loaded THEN [made |-> 1, shown |-> TRUE]
                                  ELSE Absent]
  /\ gen = [r \in Registries |-> IF r \in Loaded THEN 1 ELSE 0]
  /\ dispatcher = [r \in Registries |-> 0]
  /\ mounts = <<>> /\ disabled = FALSE /\ changes = 0
  /\ at = [t \in Threads |-> "idle"]
  /\ todo = [t \in Threads |-> <<>>]
  /\ found = [t \in Threads |-> None]
  /\ surface = FALSE /\ binding = Unbound /\ outcome = "none"
  /\ mounting = None
  /\ rivals = [t \in Threads |-> {}] /\ reachable = {} /\ disturbed = FALSE

-------------------------------------------------------------------------------
(* Changes of a registry, each under its lock.  Those of the private       *)
(* registry are rejected during a run, expose_tool() excepted.             *)

Composable(r) == r = Local => at["agent"] = "idle"

ChangeOf(r) ==
  /\ changes < MaxChanges
  /\ changes' = changes + 1
  /\ gen' = [gen EXCEPT ![r] = @ + 1]
  /\ UNCHANGED <<mounts, disabled, scanVars, callVars, mounting, disturbed>>

AddTool(r) ==
  /\ Composable(r) /\ ~Publishes(r)
  /\ \E shown \in BOOLEAN :
       tool' = [tool EXCEPT ![r] = [made |-> gen[r] + 1, shown |-> shown]]
  /\ ChangeOf(r)
  /\ UNCHANGED <<dispatcher, rivals>>

\* Variant: only additions move the generation.
RemoveToolQuietly(r) ==
  /\ r # Local /\ Publishes(r)
  /\ tool' = [tool EXCEPT ![r] = Absent]
  /\ rivals' = [t \in Threads |-> rivals[t] \ {r}]
  /\ changes < MaxChanges
  /\ changes' = changes + 1
  /\ UNCHANGED <<gen, mounts, disabled, scanVars, callVars, mounting, disturbed,
                 dispatcher>>

\* remove_owner(); the agent never calls it on its own registry.
RemoveTool(r) ==
  /\ r # Local /\ Publishes(r)
  /\ tool' = [tool EXCEPT ![r] = Absent]
  /\ rivals' = [t \in Threads |-> rivals[t] \ {r}]
  /\ ChangeOf(r)
  /\ UNCHANGED dispatcher

SetExposure(r) ==
  /\ Publishes(r)
  /\ \E shown \in BOOLEAN : tool' = [tool EXCEPT ![r].shown = shown]
  /\ ChangeOf(r)
  /\ UNCHANGED <<dispatcher, rivals>>

SetDispatcher(r) ==
  /\ Composable(r)
  /\ dispatcher' = [dispatcher EXCEPT ![r] = gen[r] + 1]
  /\ ChangeOf(r)
  /\ UNCHANGED <<tool, rivals>>

\* Another name is added or removed.
ChangeOther(r) ==
  /\ Composable(r)
  /\ ChangeOf(r)
  /\ UNCHANGED <<tool, dispatcher, rivals>>

DisableOrEnable ==
  /\ disabled' = ~disabled
  /\ UNCHANGED <<registryVars, mounts, scanVars, callVars, mounting, rivals,
                 disturbed>>

-------------------------------------------------------------------------------
(* Scans: the registries in resolution order, from a copy of the mounts    *)
(* taken under the lock.                                                   *)

StartScan(t, place) ==
  /\ at' = [at EXCEPT ![t] = place]
  /\ todo' = [todo EXCEPT ![t] = Entries]
  /\ found' = [found EXCEPT ![t] = None]
  /\ rivals' = [rivals EXCEPT ![t] = {r \in Mounted : Publishes(r)}]

EndScan(t, place) ==
  /\ at' = [at EXCEPT ![t] = place]
  /\ todo' = [todo EXCEPT ![t] = <<>>]
  /\ found' = [found EXCEPT ![t] = None]
  /\ rivals' = [rivals EXCEPT ![t] = {}]

Scanning == {"listing", "finding", "refinding", "validating"}
Scans(t) == at[t] \in Scanning /\ todo[t] # <<>>
Conflict(t) == Scans(t) /\ Publishes(Head(todo[t])) /\ found[t] # None

\* Variant: the later registry takes the name over.
PassShadowing(t) ==
  /\ Scans(t)
  /\ LET r == Head(todo[t])
     IN  /\ found' = [found EXCEPT ![t] = IF Publishes(r) THEN r ELSE @]
         /\ surface' = IF at[t] = "listing" /\ t = "agent" /\ Publishes(r)
                       THEN tool[r].shown ELSE surface
  /\ todo' = [todo EXCEPT ![t] = Tail(@)]
  /\ UNCHANGED <<registryVars, mounts, disabled, at, binding, outcome, reachable,
                 mounting, rivals, disturbed>>

\* One registry is read under its lock: it has the name, or not.
Pass(t) ==
  /\ Scans(t) /\ ~Conflict(t)
  /\ LET r == Head(todo[t])
     IN  /\ found' = [found EXCEPT ![t] = IF Publishes(r) THEN r ELSE @]
         /\ surface' = IF at[t] = "listing" /\ t = "agent" /\ Publishes(r)
                       THEN tool[r].shown ELSE surface
  /\ todo' = [todo EXCEPT ![t] = Tail(@)]
  /\ UNCHANGED <<registryVars, mounts, disabled, at, binding, outcome, reachable,
                 mounting, rivals, disturbed>>

Scanned(t, place) == at[t] = place /\ todo[t] = <<>>

-------------------------------------------------------------------------------
(* mount_tools() and unmount_tools(): live-safe, at any time.              *)

MountStart(r) ==
  /\ at["host"] = "idle" /\ r \notin Range(mounts)
  /\ mounts' = Append(mounts, r)
  /\ mounting' = r
  /\ reachable' = reachable \cup {r}
  /\ at' = [at EXCEPT !["host"] = "mounted"]
  /\ UNCHANGED <<registryVars, disabled, todo, found, surface, binding, outcome, rivals,
                 disturbed>>

\* The registry is visible to the agent from here on, and listed only now.
MountLists ==
  /\ at["host"] = "mounted"
  /\ StartScan("host", "listing")
  /\ UNCHANGED <<registryVars, mounts, disabled, callVars, mounting, disturbed>>

MountValidates ==
  /\ Scanned("host", "listing")
  /\ StartScan("host", "validating")
  /\ UNCHANGED <<registryVars, mounts, disabled, callVars, mounting, disturbed>>

MountReturns ==
  /\ Scanned("host", "validating")
  /\ EndScan("host", "idle")
  /\ mounting' = None /\ disturbed' = FALSE
  /\ UNCHANGED <<registryVars, mounts, disabled, callVars>>

Detach(r) == \E i \in DOMAIN mounts : mounts[i] = r /\ mounts' = RemoveAt(mounts, i)

\* A conflict, or an approval check that reads an argument its tool lacks.  The
\* registry may have been unmounted by somebody else.
MountRefused ==
  /\ Conflict("host") \/ Scanned("host", "validating")
  /\ Detach(mounting) \/ (mounting \notin Range(mounts) /\ UNCHANGED mounts)
  /\ mounting' = None /\ disturbed' = FALSE
  /\ EndScan("host", "idle")
  /\ UNCHANGED <<registryVars, disabled, callVars>>

Unmount(r) ==
  /\ Detach(r)
  /\ UNCHANGED <<registryVars, disabled, scanVars, callVars, mounting, rivals,
                 disturbed>>

-------------------------------------------------------------------------------
(* One announced call: _run_one_call() and execute_binding().              *)

EndCall(o) ==
  /\ EndScan("agent", "idle")
  /\ surface' = FALSE /\ binding' = Unbound
  /\ outcome' = o /\ reachable' = {}

CallStart ==
  /\ at["agent"] = "idle"
  /\ StartScan("agent", "listing")
  /\ surface' = FALSE /\ outcome' = "none"
  /\ UNCHANGED <<registryVars, mounts, disabled, binding, reachable, mounting,
                 disturbed>>

\* surface() and resolve() let ToolNameConflictError pass, out of the batch;
\* execute_binding() answers it with an error.
CallConflicts ==
  /\ Conflict("agent")
  /\ EndCall(IF at["agent"] = "refinding" THEN "error" ELSE "raised")
  /\ disturbed' = (disturbed \/ (mounting # None /\ at["agent"] # "refinding"
                                 /\ mounting \in {Head(todo["agent"]), found["agent"]}))
  /\ UNCHANGED <<registryVars, mounts, disabled, mounting>>

\* resolve_surface(), with the disabled names read behind the listing.
Narrow ==
  /\ Scanned("agent", "listing")
  /\ surface' = (surface /\ ~disabled)
  /\ EndScan("agent", "scoping")
  /\ UNCHANGED <<registryVars, mounts, disabled, binding, outcome, reachable, mounting,
                 disturbed>>

\* reject_out_of_scope(), which looks at the disabled names again.
InScope == ~disabled /\ surface

CallBlocked ==
  /\ at["agent"] = "scoping" /\ ~InScope
  /\ EndCall("error")
  /\ UNCHANGED <<registryVars, mounts, disabled, mounting, disturbed>>

CallInScope ==
  /\ at["agent"] = "scoping" /\ InScope
  /\ StartScan("agent", "finding")
  /\ surface' = FALSE
  /\ UNCHANGED <<registryVars, mounts, disabled, binding, outcome, reachable, mounting,
                 disturbed>>

\* The name is gone from every registry, or only from the one just found.
CallUnknown ==
  /\ Scanned("agent", "finding")
  /\ found["agent"] # None => ~Publishes(found["agent"])
  /\ EndCall("error")
  /\ UNCHANGED <<registryVars, mounts, disabled, mounting, disturbed>>

\* The entry is read under the registry's lock; its arguments are validated.
CallBinds ==
  /\ Scanned("agent", "finding")
  /\ found["agent"] # None /\ Publishes(found["agent"])
  /\ LET r == found["agent"]
     IN  binding' = [registry |-> r, gen |-> gen[r], def |-> tool[r],
                     dispatcher |-> dispatcher[r]]
  /\ EndScan("agent", "gating")
  /\ UNCHANGED <<registryVars, mounts, disabled, surface, outcome, reachable, mounting,
                 disturbed>>

GateRefuses ==
  /\ at["agent"] = "gating"
  /\ EndCall("error")
  /\ UNCHANGED <<registryVars, mounts, disabled, mounting, disturbed>>

\* Variant: the binding's registry is used without looking for the name again.
GateAllowsBlindly ==
  /\ at["agent"] = "gating"
  /\ at' = [at EXCEPT !["agent"] = "refinding"]
  /\ found' = [found EXCEPT !["agent"] = binding.registry]
  /\ rivals' = [rivals EXCEPT !["agent"] = {}]
  /\ reachable' = Mounted
  /\ UNCHANGED <<registryVars, mounts, disabled, todo, surface, binding, outcome,
                 mounting, disturbed>>

GateAllows ==
  /\ at["agent"] = "gating"
  /\ StartScan("agent", "refinding")
  /\ reachable' = Mounted
  /\ UNCHANGED <<registryVars, mounts, disabled, surface, binding, outcome, mounting,
                 disturbed>>

\* Nobody has the name any more, or another registry has it.
CallMoved ==
  /\ Scanned("agent", "refinding") /\ found["agent"] # binding.registry
  /\ EndCall("error")
  /\ UNCHANGED <<registryVars, mounts, disabled, mounting, disturbed>>

\* The generation is compared under the registry's lock, then the function bound
\* earlier is handed to the dispatcher bound earlier.
CallStale ==
  /\ Scanned("agent", "refinding") /\ found["agent"] = binding.registry
  /\ binding.gen # gen[binding.registry]
  /\ EndCall("error")
  /\ UNCHANGED <<registryVars, mounts, disabled, mounting, disturbed>>

Dispatch ==
  /\ Scanned("agent", "refinding") /\ found["agent"] = binding.registry
  /\ binding.gen = gen[binding.registry]
  /\ EndCall("ran")
  /\ UNCHANGED <<registryVars, mounts, disabled, mounting, disturbed>>

-------------------------------------------------------------------------------
Owner == \E r \in Registries : \/ AddTool(r) \/ RemoveTool(r) \/ SetExposure(r)
                              \/ SetDispatcher(r) \/ ChangeOther(r)

Host == \/ DisableOrEnable \/ Pass("host") \/ MountLists \/ MountValidates
        \/ MountReturns \/ MountRefused
        \/ \E r \in Externals : MountStart(r) \/ Unmount(r)

Call == \/ CallStart \/ Pass("agent") \/ CallConflicts \/ Narrow \/ CallBlocked
        \/ CallInScope \/ CallUnknown \/ CallBinds \/ GateRefuses \/ GateAllows
        \/ CallMoved \/ CallStale \/ Dispatch

Next == Owner \/ Host \/ Call

Spec == Init /\ [][Next]_vars

-------------------------------------------------------------------------------
(* Properties.                                                             *)

\* Every variable has its type, and a registry is mounted at most once, whatever
\* mount_tools() calls of the host come and go.
TypeOK ==
  /\ tool \in [Registries -> Definitions]
  /\ gen \in [Registries -> Nat] /\ dispatcher \in [Registries -> Nat]
  /\ mounts \in Seq(Externals) /\ disabled \in BOOLEAN /\ changes \in 0..MaxChanges
  /\ at \in [Threads -> {"idle", "mounted", "scoping", "gating"} \cup Scanning]
  /\ todo \in [Threads -> Seq(Registries)]
  /\ found \in [Threads -> Registries \cup {None}]
  /\ surface \in BOOLEAN /\ binding \in Bindings
  /\ outcome \in {"none", "error", "raised", "ran"}
  /\ mounting \in Externals \cup {None}
  /\ rivals \in [Threads -> SUBSET Registries] /\ reachable \subseteq Registries
  /\ disturbed \in BOOLEAN
  /\ \A i, j \in DOMAIN mounts : mounts[i] = mounts[j] => i = j

Runs == outcome # "ran" /\ outcome' = "ran"

\* What runs is what was validated, shown to the approver and approved: at the
\* moment the call is let through, the registry still publishes that definition
\* with that function and dispatcher, however often it was removed, added again,
\* hidden or rerouted in between (generation check in execute_binding).
ReplacedNeverRuns ==
  [][Runs => /\ tool[binding.registry] = binding.def
             /\ dispatcher[binding.registry] = binding.dispatcher]_vars

\* A scan that ends without a conflict saw every registry that published the name
\* from its beginning to its end: two publishers never shadow each other silently,
\* although each is read at a moment of its own (_registry_for, list_tools).
NoSilentShadow ==
  \A t \in Threads : todo[t] = <<>> => rivals[t] \subseteq {found[t]}

\* A registry that was unmounted while the gates were asking, and not mounted
\* again, runs nothing for this agent (execute_binding looks the name up again).
UnmountedStaysOut == [][Runs => binding.registry \in reachable]_vars

\* What base.py says of mount_tools, that it stays live-safe: a mount that is
\* refused has ended no call of a run.
LiveMountIsSafe ==
  [][mounting' = None /\ mounting \in Range(mounts) \ Range(mounts') => ~disturbed]_vars
===============================================================================
