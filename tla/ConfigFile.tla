------------------------------ MODULE ConfigFile ------------------------------
(***************************************************************************)
(* createFileConfig (adapters/config-file): configuration versions in      *)
(* memory, mirrored in a history directory.  Memory is ahead of the disk   *)
(* while a call awaits one of its writes; at each of these awaits the      *)
(* other calls run, the write may fail and the process may die.            *)
(*                                                                         *)
(* A version is a number and a content; the hash of a content is the       *)
(* content itself.  A write of state.json carries what memory held when it *)
(* was issued (snap) and lands with its rename.                            *)
(*                                                                         *)
(* Operators whose comment starts with "Faulty:" are not part of the       *)
(* specification.                                                          *)
(***************************************************************************)
EXTENDS Integers, Sequences, FiniteSetsExt, Functions

CONSTANTS
    Reloaders,      \* open calls that can be a reload
    Operators,      \* open calls that can be an activation or a rollback
    Boot,           \* the call of init, alone until it is over
    Nobody,         \* whom a version staged by the synchronous preview is for
    Contents,       \* what a configuration can say
    Unreadable,     \* the YAML file is missing, cannot be parsed or is not valid
    None,
    AutoActivate,   \* the option autoActivate is "onLoad"
    MaxVersions,    \* the option historyRetention.maxVersions
    VersionBound,   \* bound of the model: version numbers
    AuditBound      \* bound of the model: lines of the audit file

Callers == Reloaders \union Operators

ASSUME OptionsAssumption ==
    /\ AutoActivate \in BOOLEAN
    /\ MaxVersions \in Nat /\ VersionBound \in Nat \ {0} /\ AuditBound \in Nat
    /\ Boot \notin Callers /\ Nobody \notin Callers \union {Boot}
    /\ Unreadable \notin Contents /\ None \notin Contents \union Callers \union {Boot}

VARIABLES
    yaml,       \* what the operators' file says
    life,       \* LifecycleState
    mem,        \* versions, active (0: null), next, hash, trail
    disk,       \* the history directory: files, state, audit
    gate,       \* reloadInFlight: the reload whose promise it holds
    call,       \* where each call is
    jobs,       \* the versions that are being persisted
    retired     \* contents that retention has removed

vars == <<yaml, life, mem, disk, gate, call, jobs, retired>>

Numbers == 1 .. VersionBound
Versions == UNION {[S -> Contents] : S \in SUBSET Numbers}
Entries == [from : {0} \union Numbers, to : Numbers]
Snapshots == [next : 1 .. VersionBound + 1, active : {0} \union Numbers,
              hash : Contents \union {None}]

\* number: the version the call loads or activates; from: the one it replaces;
\* snap: the state it is writing; behind: the reload it waits for.
Idle == [op |-> "none", at |-> "idle", number |-> 0, from |-> 0, snap |-> None,
         behind |-> None]

TypeOK ==
    /\ yaml \in Contents \union {Unreadable}
    /\ life \in {"created", "running", "shut_down"}
    /\ mem.versions \in Versions /\ disk.files \in Versions
    /\ mem.active \in {0} \union Numbers
    /\ mem.next \in 1 .. VersionBound + 1
    /\ mem.hash \in Contents \union {None}
    /\ Range(mem.trail) \union Range(disk.audit) \subseteq Entries
    /\ disk.state \in Snapshots \union {None}
    /\ gate \in Callers \union {None}
    /\ \A c \in Callers \union {Boot} :
         /\ call[c].op \in {"none", "init", "reload", "activate"}
         /\ call[c].at \in {"idle", "queued", "drain", "read", "stage", "mark",
                            "append", "commit"}
         /\ call[c].number \in {0} \union Numbers /\ call[c].from \in {0} \union Numbers
         /\ call[c].snap \in Snapshots \union {None}
         /\ call[c].behind \in Callers \union {None}
    /\ DOMAIN jobs \subseteq 1 .. mem.next - 1      \* no number is drawn twice
    /\ \A n \in DOMAIN jobs :
         /\ jobs[n].at \in {"file", "state", "retention"}
         /\ jobs[n].for \in Callers \union {Boot, Nobody}
         /\ jobs[n].content \in Contents /\ jobs[n].snap \in Snapshots \union {None}
         /\ jobs[n].candidates \subseteq Numbers /\ jobs[n].left \in Int
    /\ retired \subseteq Contents

Blank == [versions |-> <<>>, active |-> 0, next |-> 1, hash |-> None, trail |-> <<>>]

Init ==
    /\ yaml \in Contents \union {Unreadable}
    /\ life = "created" /\ mem = Blank
    /\ disk = [files |-> <<>>, state |-> None, audit |-> <<>>]
    /\ gate = None /\ call = [c \in Callers \union {Boot} |-> Idle]
    /\ jobs = <<>> /\ retired = {}

-----------------------------------------------------------------------------
(***************************************************************************)
(* What memory becomes, in one turn of the event loop.                     *)
(***************************************************************************)
Put(f, n, v) == [m \in DOMAIN f \union {n} |-> IF m = n THEN v ELSE f[m]]
Without(f, n) == [m \in DOMAIN f \ {n} |-> f[m]]

\* The payload of writeStateFile.
Snapshot(m) == [next |-> m.next, active |-> m.active, hash |-> m.hash]

\* A new version is in memory under the next number.
Staged(m, content) ==
    [m EXCEPT !.versions = Put(@, m.next, content), !.next = @ + 1]

\* Faulty: the content counts as loaded before it is on disk.
LoadedMarked(m, content) == [Staged(m, content) EXCEPT !.hash = content]

\* init and reload stage what they read.
Loaded(m, content) == Staged(m, content)

\* Faulty: the audit trail is extended with the pointer.
FlippedAndAudited(m, n) ==
    [m EXCEPT !.active = n, !.trail = Append(@, [from |-> m.active, to |-> n])]

\* recordActivation flips the pointer before its first write.
Flipped(m, n) == [m EXCEPT !.active = n]

-----------------------------------------------------------------------------
(***************************************************************************)
(* The end of a call.                                                      *)
(***************************************************************************)
WithCall(c, r) == call' = [call EXCEPT ![c] = r]

\* Faulty: a reload that fails leaves its promise pending.
ReleasedOnSuccess(c, ok) ==
    IF ok THEN /\ gate' = None
               /\ call' = [w \in DOMAIN call |->
                     IF call[w].behind = c
                     THEN [Idle EXCEPT !.op = "reload", !.at = "drain"]
                     ELSE IF w = c THEN Idle ELSE call[w]]
          ELSE gate' = None /\ WithCall(c, Idle)

\* The finally clause of reload: reloadInFlight is cleared, whoever holds it by
\* then, and all that queued behind this reload resume before anything else runs,
\* each in turn becoming the holder.
Released(c, ok) ==
    LET woken == {w \in Callers : call[w].behind = c}
    IN  /\ gate' \in IF woken = {} THEN {None} ELSE woken
        /\ call' = [w \in DOMAIN call |->
                      IF w = c THEN Idle
                      ELSE IF w \in woken THEN [Idle EXCEPT !.op = "reload", !.at = "drain"]
                      ELSE call[w]]

\* The call c returns with memory m.  A process whose init fails gives up.
End(c, ok, m) ==
    CASE call[c].op = "activate" -> /\ mem' = m /\ WithCall(c, Idle)
                                    /\ UNCHANGED <<life, gate>>
      [] call[c].op = "reload" -> mem' = m /\ Released(c, ok) /\ UNCHANGED life
      [] call[c].op = "init" -> /\ mem' = IF ok THEN m ELSE Blank
                                /\ life' = IF ok THEN "running" ELSE "created"
                                /\ WithCall(c, Idle) /\ UNCHANGED gate

\* recordActivation up to its first await.
BeginActivation(c, op, n) ==
    /\ mem' = Flipped(mem, n)
    /\ WithCall(c, [Idle EXCEPT !.op = op, !.at = "append", !.number = n,
                                !.from = mem.active])

-----------------------------------------------------------------------------
(***************************************************************************)
(* Persisting a version: previewInternal, and the task of preview.         *)
(***************************************************************************)
Job(owner, content) == [at |-> "file", for |-> owner, content |-> content,
                        snap |-> None, candidates |-> {}, left |-> 0]

\* preview returns the number before anything is on disk.
Preview ==
    /\ life = "running" /\ mem.next <= VersionBound
    /\ \E content \in Contents :
         /\ mem' = Staged(mem, content)
         /\ jobs' = Put(jobs, mem.next, Job(Nobody, content))
    /\ UNCHANGED <<yaml, life, disk, gate, call, retired>>

WriteVersionFile(n) ==
    /\ jobs[n].at = "file"
    /\ disk' = [disk EXCEPT !.files = Put(@, n, jobs[n].content)]
    /\ jobs' = [jobs EXCEPT ![n].at = "state", ![n].snap = Snapshot(mem)]
    /\ UNCHANGED <<yaml, life, mem, gate, call, retired>>

\* After state.json comes enforceRetention, which reads the active version once.
WriteVersionState(n) ==
    /\ jobs[n].at = "state"
    /\ disk' = [disk EXCEPT !.state = jobs[n].snap]
    /\ jobs' = [jobs EXCEPT ![n].at = "retention", ![n].snap = None,
                  ![n].candidates = DOMAIN mem.versions \ {mem.active},
                  ![n].left = Cardinality(DOMAIN mem.versions) - MaxVersions]
    /\ UNCHANGED <<yaml, life, mem, gate, call, retired>>

Retiring(job) == job.at = "retention" /\ job.left > 0 /\ job.candidates # {}

\* One rm: the oldest candidate goes; if rm fails it stays and the next is tried.
Retire(n) ==
    LET oldest == Min(jobs[n].candidates)
        passed == [jobs EXCEPT ![n].candidates = @ \ {oldest}]
    IN
    /\ Retiring(jobs[n])
    /\ \/ /\ disk' = [disk EXCEPT !.files = Without(@, oldest)]
          /\ mem' = [mem EXCEPT !.versions = Without(@, oldest)]
          /\ retired' = retired \union
                {disk.files[m] : m \in {oldest} \intersect DOMAIN disk.files}
          /\ jobs' = [passed EXCEPT ![n].left = @ - 1]
       \/ jobs' = passed /\ UNCHANGED <<disk, mem, retired>>
    /\ UNCHANGED <<yaml, life, gate, call>>

\* The version is persisted.  A load notes which content it was and issues the
\* write of that.
Persisted(n) ==
    LET c == jobs[n].for
        m == [mem EXCEPT !.hash = jobs[n].content]
    IN
    /\ jobs[n].at = "retention" /\ ~Retiring(jobs[n])
    /\ jobs' = Without(jobs, n)
    /\ IF c = Nobody THEN UNCHANGED <<mem, call>>
       ELSE /\ mem' = m
            /\ WithCall(c, [call[c] EXCEPT !.at = "mark", !.snap = Snapshot(m)])
    /\ UNCHANGED <<yaml, life, disk, gate, retired>>

\* One of its two writes fails: noted in lastError, or the load fails.
PersistFails(n) ==
    /\ jobs[n].at \in {"file", "state"}
    /\ jobs' = Without(jobs, n)
    /\ IF jobs[n].for = Nobody THEN UNCHANGED <<life, mem, gate, call>>
       ELSE End(jobs[n].for, FALSE, mem)
    /\ UNCHANGED <<yaml, disk, retired>>

-----------------------------------------------------------------------------
(***************************************************************************)
(* Activation by an operator, by reload or by init: the audit line, then   *)
(* state.json, then the audit trail in memory.  The pointer goes back to   *)
(* what the call found if a write fails.                                   *)
(***************************************************************************)

\* activate and rollback, which differ in the cause they record.
Activate(c) ==
    /\ life = "running" /\ call[c] = Idle
    /\ \E n \in DOMAIN mem.versions : BeginActivation(c, "activate", n)
    /\ UNCHANGED <<yaml, life, disk, gate, jobs, retired>>

AppendAuditLine(c) ==
    /\ call[c].at = "append" /\ Len(disk.audit) < AuditBound
    /\ disk' = [disk EXCEPT !.audit =
                  Append(@, [from |-> call[c].from, to |-> call[c].number])]
    /\ WithCall(c, [call[c] EXCEPT !.at = "commit", !.snap = Snapshot(mem)])
    /\ UNCHANGED <<yaml, life, mem, gate, jobs, retired>>

CommitActivation(c) ==
    /\ call[c].at = "commit"
    /\ disk' = [disk EXCEPT !.state = call[c].snap]
    /\ End(c, TRUE, [mem EXCEPT !.trail =
                       Append(@, [from |-> call[c].from, to |-> call[c].number])])
    /\ UNCHANGED <<yaml, jobs, retired>>

ActivationFails(c) ==
    /\ call[c].at \in {"append", "commit"}
    /\ End(c, FALSE, [mem EXCEPT !.active = call[c].from])
    /\ UNCHANGED <<yaml, disk, jobs, retired>>

-----------------------------------------------------------------------------
(***************************************************************************)
(* reload, called by operators and by the watcher of the file.             *)
(***************************************************************************)
Reload(c) ==
    /\ life # "created" /\ call[c] = Idle
    /\ IF gate = None
       THEN gate' = c /\ WithCall(c, [Idle EXCEPT !.op = "reload", !.at = "drain"])
       ELSE /\ WithCall(c, [Idle EXCEPT !.op = "reload", !.at = "queued", !.behind = gate])
            /\ UNCHANGED gate
    /\ UNCHANGED <<yaml, life, mem, disk, jobs, retired>>

\* drainPendingPersistence, and the check of the life cycle after it.
Drained == \A n \in DOMAIN jobs : jobs[n].for # Nobody

Drain(c) ==
    /\ call[c].at = "drain" /\ Drained
    /\ IF life = "running"
       THEN WithCall(c, [call[c] EXCEPT !.at = "read"]) /\ UNCHANGED <<life, mem, gate>>
       ELSE End(c, FALSE, mem)
    /\ UNCHANGED <<yaml, disk, jobs, retired>>

\* The file is read: unusable (or beyond the bound), known, or a new version.
Read(c) ==
    /\ call[c].at = "read"
    /\ \/ /\ yaml = Unreadable \/ mem.next > VersionBound
          /\ End(c, FALSE, mem) /\ UNCHANGED jobs
       \/ /\ yaml = mem.hash
          /\ End(c, TRUE, mem) /\ UNCHANGED jobs
       \/ /\ yaml \in Contents \ {mem.hash} /\ mem.next <= VersionBound
          /\ mem' = Loaded(mem, yaml)
          /\ jobs' = Put(jobs, mem.next, Job(c, yaml))
          /\ WithCall(c, [call[c] EXCEPT !.at = "stage", !.number = mem.next])
          /\ UNCHANGED <<life, gate>>
    /\ UNCHANGED <<yaml, disk, retired>>

\* The hash is in state.json; the new version is activated now, later or never.
MarkLoaded(c) ==
    /\ call[c].at = "mark"
    /\ disk' = [disk EXCEPT !.state = call[c].snap]
    /\ IF AutoActivate
       THEN BeginActivation(c, call[c].op, call[c].number) /\ UNCHANGED <<life, gate>>
       ELSE End(c, TRUE, mem)
    /\ UNCHANGED <<yaml, jobs, retired>>

MarkFails(c) ==
    /\ call[c].at = "mark"
    /\ End(c, FALSE, mem)
    /\ UNCHANGED <<yaml, disk, jobs, retired>>

-----------------------------------------------------------------------------
(***************************************************************************)
(* The process and the file.                                               *)
(***************************************************************************)

\* restoreFromHistory reads every version file and audit line, whatever state.json
\* says of the next number.
Restored ==
    IF disk.state = None THEN Blank
    ELSE [versions |-> disk.files, active |-> disk.state.active, next |-> disk.state.next,
          hash |-> disk.state.hash, trail |-> disk.audit]

\* The checks of init that stop a restart.
Restorable ==
    /\ yaml # Unreadable
    /\ Restored.active \in {0} \union DOMAIN Restored.versions

Start ==
    /\ life = "created" /\ call[Boot] = Idle /\ Restorable
    /\ IF yaml = Restored.hash
       THEN life' = "running" /\ mem' = Restored /\ UNCHANGED <<call, jobs>>
       ELSE /\ Restored.next <= VersionBound
            /\ mem' = Loaded(Restored, yaml)
            /\ jobs' = Put(jobs, Restored.next, Job(Boot, yaml))
            /\ WithCall(Boot, [Idle EXCEPT !.op = "init", !.at = "stage",
                                           !.number = Restored.next])
            /\ UNCHANGED life
    /\ UNCHANGED <<yaml, disk, gate, retired>>

\* Calls that are open go on after it.
Shutdown ==
    /\ life = "running" /\ Drained
    /\ life' = "shut_down"
    /\ UNCHANGED <<yaml, mem, disk, gate, call, jobs, retired>>

\* The process ends, at any await or after its shutdown, and another one starts.
Crash ==
    /\ life' = "created" /\ mem' = Blank /\ gate' = None /\ jobs' = <<>>
    /\ call' = [c \in DOMAIN call |-> Idle]
    /\ UNCHANGED <<yaml, disk, retired>>

EditYaml ==
    /\ yaml' \in (Contents \union {Unreadable}) \ {yaml}
    /\ UNCHANGED <<life, mem, disk, gate, call, jobs, retired>>

JobStep(n) ==
    \/ WriteVersionFile(n) \/ WriteVersionState(n) \/ Retire(n)
    \/ Persisted(n) \/ PersistFails(n)

CallStep(c) ==
    \/ Drain(c) \/ Read(c) \/ MarkLoaded(c) \/ MarkFails(c)
    \/ AppendAuditLine(c) \/ CommitActivation(c) \/ ActivationFails(c)

Next ==
    \/ Preview
    \/ \E c \in Operators : Activate(c)
    \/ \E c \in Reloaders : Reload(c)
    \/ \E n \in DOMAIN jobs : JobStep(n)
    \/ \E c \in Callers \union {Boot} : CallStep(c)
    \/ Start \/ Shutdown \/ Crash \/ EditYaml

Spec == Init /\ [][Next]_vars

\* Every write the adapter has issued ends, and an open call goes on.
Fairness ==
    /\ \A n \in Numbers : WF_vars(n \in DOMAIN jobs /\ JobStep(n))
    /\ \A c \in Callers \union {Boot} : WF_vars(CallStep(c))

FairSpec == Spec /\ Fairness

-----------------------------------------------------------------------------
(* Properties *)

Occurrences(e, s) == Cardinality({i \in DOMAIN s : s[i] = e})

\* An activation that was acknowledged is in the audit file, once for each time:
\* the trail in memory has nothing the disk has not, across restarts too
\* (recordActivation pushes the entry when both writes are done).
AuditedBeforeAcknowledged ==
    \A e \in Range(mem.trail) : Occurrences(e, mem.trail) <= Occurrences(e, disk.audit)

\* An edit of the file is not lost: when state.json says that a content has been
\* loaded, so that a restart or a reload will skip it, a version with this content
\* is on disk, or was until retention removed it.  Holds at every crash point.
NoEditLost ==
    disk.state # None /\ disk.state.hash # None =>
        disk.state.hash \in Range(disk.files) \union retired

\* A reload settles, also one that queued behind others that failed.
ReloadsSettle ==
    \A c \in Callers : call[c].op = "reload" ~> call[c].op # "reload"

\* Retention removes versions that are not active only (the comment on
\* enforceRetention, the adapter's README, docs/phase8/12).
RetentionSparesActive ==
    [][mem.active \notin DOMAIN disk.files \ DOMAIN disk'.files]_vars
=============================================================================
