---------------------------- MODULE PolicyVersions ----------------------------
(***************************************************************************)
(* The policy package: the registry of policy implementations, the         *)
(* registry of configuration versions with the one that is active, the     *)
(* preflight that a version passes before it becomes active, and the audit *)
(* records of activations and rollbacks.  Every call is synchronous, so    *)
(* each is one action.                                                     *)
(*                                                                         *)
(* Operators whose comment starts with "Faulty:" are not part of the       *)
(* specification.                                                          *)
(***************************************************************************)
EXTENDS Naturals, Sequences, SequencesExt, Selections

CONSTANTS
    Versions,     \* configVersion strings
    ContentOf,    \* version -> the contents it may be added with
    Registered,   \* descriptors registered when the process starts
    Descriptors,  \* descriptors that callers register later
    None

Kinds == {"ranking", "fund_waterfall", "candidate_selection"}

\* A descriptor names a policy; a blank name or version is the key None.
IsDescriptor(d) == DOMAIN d = {"kind", "key"} /\ d.kind \in Kinds

ASSUME PolicyAssumption ==
    /\ \A d \in Registered : IsDescriptor(d) /\ d.key # None
    /\ \A d \in Descriptors : IsDescriptor(d)
    /\ DOMAIN ContentOf = Versions
    /\ \A v \in Versions : \A c \in ContentOf[v] :
         DOMAIN c = Kinds /\ \A k \in Kinds : IsDescriptor(c[k])
    /\ None \notin Versions

VARIABLES
    entries,   \* the policy registry: descriptor -> "sound" or "faulty"
    versions,  \* known versions: version -> [status, previous, content]
    active,    \* the version whose name the registry holds as active
    trail,     \* audit records, oldest first
    approved   \* history: the content that passed the last preflight

policyVars == <<entries, versions, active, trail, approved>>

PolicyStatus == {"draft", "validated", "active", "rolled_back", "rejected"}

-----------------------------------------------------------------------------
(* The preflight.                                                          *)

Resolves(d) == d \in DOMAIN entries

\* The root names a policy of the right type for each slot, none blank, and
\* each of them is registered.
RootIsValid(content) ==
    /\ \A k \in Kinds : content[k].kind = k /\ content[k].key # None
    /\ \A k \in Kinds : Resolves(content[k])

BundleResolves(content) ==
    RootIsValid(content) /\ \A k \in Kinds : Resolves(content[k])

\* Each policy of the bundle is called once on a stub case: it must return
\* and its result must carry name, version and explanation.
DryRunSucceeds(content) == \A k \in Kinds : entries[content[k]] = "sound"

PreflightPasses(content) ==
    /\ RootIsValid(content)
    /\ BundleResolves(content)
    /\ DryRunSucceeds(content)

-----------------------------------------------------------------------------
(* What the registries answer.                                             *)

\* The record under the active name: whatever was last stored there.
ActiveVersion == IF active = None THEN None ELSE versions[active]

DifferingKinds(from, to) == {k \in Kinds : from[k] # to[k]}

ReadView ==
    [active |-> active,
     status |-> IF active = None THEN None ELSE versions[active].status,
     rollbackAvailable |-> active # None /\ versions[active].previous # None]

AuditRecord(action, from, to, result, diff) ==
    [action |-> action, from |-> from, to |-> to, result |-> result, diff |-> diff]

Changes == Selected(trail, {i \in DOMAIN trail : trail[i].result = "activated"})

-----------------------------------------------------------------------------
(* Actions.                                                                *)

\* The policy registry: a blank descriptor and an implementation of another
\* type are refused; anything else is stored over what was there.
Register(d, type, outcome) ==
    /\ d.key # None /\ type = d.kind
    /\ entries' = [e \in DOMAIN entries \union {d} |->
                     IF e = d THEN outcome ELSE entries[e]]
    /\ UNCHANGED <<versions, active, trail, approved>>

\* A draft is stored over whatever the version held, the active one included.
AddVersion(v, content) ==
    /\ versions' = [w \in DOMAIN versions \union {v} |->
           IF w = v
           THEN [status |-> "draft", previous |-> None, content |-> content]
           ELSE versions[w]]
    /\ UNCHANGED <<entries, active, trail, approved>>

Put(map, v, field, value) == [map EXCEPT ![v][field] = value]

\* The current version steps down, the other one becomes active and
\* remembers whom it replaced.
SwitchedTo(v) ==
    LET demoted == IF active = None THEN versions
                   ELSE Put(versions, active, "status", "rolled_back")
    IN  [demoted EXCEPT ![v].status = "active", ![v].previous = active]

\* Faulty: a rollback leaves the predecessor that the version had before.
SwitchedBackTo(v) ==
    [Put(versions, active, "status", "rolled_back") EXCEPT ![v].status = "active"]

RollbackTo(v) == SwitchedTo(v)

Diff(v) == IF active = None THEN None
           ELSE DifferingKinds(versions[active].content, versions[v].content)

\* Both orchestrations record the result, whatever it was.
Record(action, to, result, diff) ==
    trail' = Append(trail, AuditRecord(action, active, to, result, diff))

Activates(v) ==
    /\ versions' = SwitchedTo(v)
    /\ active' = v
    /\ approved' = versions[v].content
    /\ Record("activate", v, "activated", Diff(v))

ActivationRefused(v, override) ==
    \/ active # None /\ ~override
    \/ versions[v].status \notin {"draft", "validated", "rolled_back"}

Activate(v, override) ==
    /\ UNCHANGED entries
    /\ \/ /\ v \notin DOMAIN versions
          /\ Record("activate", v, "rejected", None)
          /\ UNCHANGED <<versions, active, approved>>
       \/ /\ v = active
          /\ Record("activate", v, "already_active", None)
          /\ UNCHANGED <<versions, active, approved>>
       \/ /\ v \in DOMAIN versions \ {active} /\ ActivationRefused(v, override)
          /\ Record("activate", v, "rejected", None)
          /\ UNCHANGED <<versions, active, approved>>
       \/ /\ v \in DOMAIN versions \ {active} /\ ~ActivationRefused(v, override)
          /\ ~PreflightPasses(versions[v].content)
          /\ versions' = Put(versions, v, "status", "rejected")
          /\ Record("activate", v, "rejected", None)
          /\ UNCHANGED <<active, approved>>
       \/ /\ v \in DOMAIN versions \ {active} /\ ~ActivationRefused(v, override)
          /\ PreflightPasses(versions[v].content)
          /\ Activates(v)

\* The predecessor of the active version, whatever its status is by now.
Rollback ==
    LET target == IF active = None THEN None ELSE versions[active].previous
    IN  /\ UNCHANGED entries
        /\ \/ /\ target = None
              /\ Record("rollback", active, "rejected", None)
              /\ UNCHANGED <<versions, active, approved>>
           \/ /\ target # None /\ ~PreflightPasses(versions[target].content)
              /\ Record("rollback", target, "rejected", None)
              /\ UNCHANGED <<versions, active, approved>>
           \/ /\ target # None /\ PreflightPasses(versions[target].content)
              /\ versions' = RollbackTo(target)
              /\ active' = target
              /\ approved' = versions[target].content
              /\ Record("rollback", target, "activated", Diff(target))

PolicyInit ==
    /\ entries = [d \in Registered |-> "sound"]
    /\ versions = [v \in {} |-> None]
    /\ active = None
    /\ trail = <<>>
    /\ approved = None

-----------------------------------------------------------------------------
(* Properties.                                                             *)

\* The registries hold records of the right shape.
PolicyTypeOK ==
    /\ DOMAIN entries \subseteq Registered \union Descriptors
    /\ \A d \in DOMAIN entries : entries[d] \in {"sound", "faulty"}
    /\ DOMAIN versions \subseteq Versions
    /\ \A v \in DOMAIN versions :
         /\ versions[v].status \in PolicyStatus
         /\ versions[v].previous \in DOMAIN versions \union {None}
         /\ versions[v].content \in ContentOf[v]
    /\ active \in DOMAIN versions \union {None}

\* The active version is the one that the last recorded change names, each
\* change starts from the version that the one before it made active, and a
\* rollback undoes exactly the change before it; the next rollback does so
\* too, and is offered unless the active version was added anew
\* (policy-config-activation-orchestrator.ts 22-78).
ChangesChain ==
    /\ active = IF Changes = <<>> THEN None ELSE Last(Changes).to
    /\ \A i \in DOMAIN Changes :
         /\ Changes[i].from = IF i = 1 THEN None ELSE Changes[i - 1].to
         /\ Changes[i].action = "rollback" =>
              i > 1 /\ Changes[i].to = Changes[i - 1].from
    /\ active # None =>
         /\ versions[active].previous \in {None, Last(Changes).from}
         /\ ReadView.status = "active" =>
              ReadView.rollbackAvailable = (Last(Changes).from # None)

\* No version but the one in force is marked active, and one that is so
\* marked has the content that passed the preflight; a version that is in
\* force without the mark was added anew over the active one
\* (policy-config-activation.ts 105-140, policy-config-rollback.ts 47-78).
MarkIsApproval ==
    \A v \in DOMAIN versions : versions[v].status = "active" =>
        v = active /\ versions[v].content = approved
=============================================================================
