--------------------------- MODULE ConfigFileProofs ---------------------------
(***************************************************************************)
(* The config file adapter, for any number of calls, contents and          *)
(* versions: what memory has acknowledged is in the audit file, and a      *)
(* content that state.json says was loaded is in a version file.           *)
(***************************************************************************)
EXTENDS ConfigFile, FiniteSetTheorems, TLAPS

Everyone == Callers \union {Boot}

-----------------------------------------------------------------------------
(***************************************************************************)
(* Types, as sets of records.                                              *)
(***************************************************************************)
Memories == [versions : Versions, active : {0} \union Numbers, next : 1 .. VersionBound + 1,
             hash : Contents \union {None}, trail : Seq(Entries)]

Disks == [files : Versions, state : Snapshots \union {None}, audit : Seq(Entries)]

OpenCalls ==
    [op : {"none", "init", "reload", "activate"},
     at : {"idle", "queued", "drain", "read", "stage", "mark", "append", "commit"},
     number : {0} \union Numbers, from : {0} \union Numbers,
     snap : Snapshots \union {None}, behind : Callers \union {None}]

JobRecords ==
    [at : {"file", "state", "retention"}, for : Everyone \union {Nobody},
     content : Contents, snap : Snapshots \union {None},
     candidates : SUBSET Numbers, left : Int]

TypeInv ==
    /\ yaml \in Contents \union {Unreadable}
    /\ life \in {"created", "running", "shut_down"}
    /\ mem \in Memories
    /\ disk \in Disks
    /\ gate \in Callers \union {None}
    /\ call \in [Everyone -> OpenCalls]
    /\ jobs \in [DOMAIN jobs -> JobRecords]
    /\ DOMAIN jobs \subseteq 1 .. mem.next - 1
    /\ retired \subseteq Contents

-----------------------------------------------------------------------------
(***************************************************************************)
(* Which calls there are in which life of the process.                     *)
(***************************************************************************)
\* A call is at a place of the operation it is in; init is Boot's, before running.
CallKnowsItsOp(c) ==
    /\ call[c].op = "none" <=> call[c].at = "idle"
    /\ call[c].at = "idle" => call[c] = Idle
    /\ call[c].op = "init" <=> c = Boot /\ call[c].at # "idle"
    /\ call[c].op = "init" => life = "created"
    /\ call[c].at \in {"queued", "drain", "read"} => call[c].op = "reload"
    /\ call[c].at \in {"stage", "mark"} => call[c].op \in {"init", "reload"}
    /\ call[c].at \in {"stage", "mark", "append", "commit"} => call[c].number \in Numbers
    /\ call[c].behind # None => call[c].at = "queued"

\* A version that is persisted for a call has that call waiting for it.
JobKnowsItsCall(n) ==
    jobs[n].for # Nobody => /\ call[jobs[n].for].at = "stage"
                            /\ call[jobs[n].for].number = n

\* Until it runs nobody else has called, and what is persisted is for init.
BootIsAlone ==
    life = "created" => /\ \A c \in Callers : call[c] = Idle
                        /\ \A n \in DOMAIN jobs : jobs[n].for = Boot

CallsInv ==
    /\ \A c \in Everyone : CallKnowsItsOp(c)
    /\ \A n \in DOMAIN jobs : JobKnowsItsCall(n)
    /\ BootIsAlone

-----------------------------------------------------------------------------
(***************************************************************************)
(* The audit file: each acknowledged activation has its line, and so has   *)
(* each call that has appended and not returned.                           *)
(***************************************************************************)
EntryOf(c) == [from |-> call[c].from, to |-> call[c].number]
Committing(e) == {c \in Everyone : call[c].at = "commit" /\ EntryOf(c) = e}

AuditInv ==
    \A e \in Entries :
      /\ IsFiniteSet(Committing(e))
      /\ Occurrences(e, mem.trail) + Cardinality(Committing(e)) <= Occurrences(e, disk.audit)

-----------------------------------------------------------------------------
(***************************************************************************)
(* The version files: each content that is recorded as loaded, in memory,  *)
(* in state.json or in a write of it that is on its way, is in a file with *)
(* a lower number than any version to come, which nobody is writing.       *)
(***************************************************************************)
BeingWritten(n) == n \in DOMAIN jobs /\ jobs[n].at = "file"

Kept(content, next) ==
    \/ content \in retired
    \/ \E m \in DOMAIN disk.files : /\ m < next /\ disk.files[m] = content
                                    /\ ~BeingWritten(m)

SnapshotKept(s) == s.hash # None => Kept(s.hash, s.next)

\* A write of state.json was issued by this process: it knows no later number.
Issued(s) == s # None => SnapshotKept(s) /\ s.next <= mem.next

EditsInv ==
    /\ SnapshotKept(mem)
    /\ disk.state # None => SnapshotKept(disk.state)
    /\ (disk.state # None /\ (life # "created" \/ call[Boot] # Idle))
         => disk.state.next <= mem.next
    /\ \A c \in Everyone : Issued(call[c].snap)
    /\ \A n \in DOMAIN jobs :
         /\ Issued(jobs[n].snap)
         /\ jobs[n].at # "file" => Kept(jobs[n].content, n + 1)

IInv == TypeInv /\ CallsInv /\ AuditInv /\ EditsInv

-----------------------------------------------------------------------------
(***************************************************************************)
(* Versions, memories and snapshots.                                       *)
(***************************************************************************)
LEMMA VersionsAreFunctions ==
    ASSUME NEW f
    PROVE  f \in Versions <=> f \in [DOMAIN f -> Contents] /\ DOMAIN f \subseteq Numbers
BY DEF Versions

LEMMA PutVersion ==
    ASSUME NEW f \in Versions, NEW n \in Numbers, NEW v \in Contents
    PROVE  Put(f, n, v) \in Versions
<1>1. f \in [DOMAIN f -> Contents] /\ DOMAIN f \subseteq Numbers
  BY VersionsAreFunctions
<1>2. DOMAIN Put(f, n, v) = DOMAIN f \union {n}
  BY DEF Put
<1>3. Put(f, n, v) \in [DOMAIN f \union {n} -> Contents]
  BY <1>1 DEF Put
<1> QED
  BY <1>1, <1>2, <1>3, VersionsAreFunctions

LEMMA WithoutVersion ==
    ASSUME NEW f \in Versions, NEW n
    PROVE  Without(f, n) \in Versions
<1>1. f \in [DOMAIN f -> Contents] /\ DOMAIN f \subseteq Numbers
  BY VersionsAreFunctions
<1>2. Without(f, n) \in [DOMAIN f \ {n} -> Contents]
  BY <1>1 DEF Without
<1> QED
  BY <1>1, <1>2 DEF Versions

LEMMA NoVersions == <<>> \in Versions /\ DOMAIN <<>> = {}
<1>1. <<>> \in [{} -> Contents] /\ DOMAIN <<>> = {}
  OBVIOUS
<1> QED
  BY <1>1 DEF Versions

LEMMA Bounds ==
    /\ Numbers \subseteq 1 .. VersionBound + 1
    /\ 1 .. VersionBound + 1 \subseteq Nat \ {0}
    /\ \A n \in 1 .. VersionBound + 1 : n <= VersionBound => n \in Numbers /\ n + 1 \in 1 .. VersionBound + 1
BY OptionsAssumption DEF Numbers

LEMMA BlankMemory == Blank \in Memories
<1>1. 1 \in 1 .. VersionBound + 1 /\ 0 \in {0} \union Numbers
  BY OptionsAssumption
<1>2. <<>> \in Seq(Entries)
  OBVIOUS
<1> QED
  BY <1>1, <1>2, NoVersions DEF Blank, Memories

\* A version is loaded under the next number, and memory stays a memory.
LEMMA StagedMemory ==
    ASSUME NEW m \in Memories, m.next <= VersionBound, NEW content \in Contents
    PROVE  /\ Staged(m, content) \in Memories
           /\ Staged(m, content).next = m.next + 1
           /\ Staged(m, content).hash = m.hash
           /\ Staged(m, content).trail = m.trail
           /\ m.next \in Numbers
<1>1. m.next \in Numbers /\ m.next + 1 \in 1 .. VersionBound + 1
  BY Bounds DEF Memories
<1>2. Put(m.versions, m.next, content) \in Versions
  BY <1>1, PutVersion DEF Memories
<1>3. Staged(m, content) = [m EXCEPT !.versions = Put(m.versions, m.next, content),
                                     !.next = m.next + 1]
  BY DEF Staged
<1> QED
  BY <1>1, <1>2, <1>3 DEF Memories

LEMMA SnapshotType ==
    ASSUME NEW m \in Memories
    PROVE  /\ Snapshot(m) \in Snapshots
           /\ Snapshot(m).next = m.next /\ Snapshot(m).hash = m.hash
BY DEF Memories, Snapshot, Snapshots

\* What a restart reads is a memory, with what state.json says.
LEMMA RestoredMemory ==
    ASSUME disk \in Disks
    PROVE  /\ Restored \in Memories
           /\ disk.state = None => Restored = Blank
           /\ disk.state # None =>
                /\ Restored.trail = disk.audit
                /\ Restored.next = disk.state.next /\ Restored.hash = disk.state.hash
<1>1. CASE disk.state = None
  BY <1>1, BlankMemory DEF Restored
<1>2. CASE disk.state # None
  BY <1>2 DEF Restored, Disks, Snapshots, Memories
<1> QED
  BY <1>1, <1>2

-----------------------------------------------------------------------------
(***************************************************************************)
(* How often an entry occurs in a trail.                                   *)
(***************************************************************************)
LEMMA OccurrencesType ==
    ASSUME NEW s \in Seq(Entries), NEW e
    PROVE  /\ IsFiniteSet({i \in DOMAIN s : s[i] = e})
           /\ Occurrences(e, s) \in Nat
<1>1. DOMAIN s = 1 .. Len(s) /\ Len(s) \in Nat
  OBVIOUS
<1>2. IsFiniteSet(DOMAIN s)
  BY <1>1, FS_Interval
<1>3. {i \in DOMAIN s : s[i] = e} \in SUBSET DOMAIN s
  OBVIOUS
<1>4. IsFiniteSet({i \in DOMAIN s : s[i] = e})
  BY <1>2, <1>3, FS_Subset
<1> QED
  BY <1>4, FS_CardinalityType DEF Occurrences

LEMMA OccurrencesInNothing ==
    ASSUME NEW e
    PROVE  Occurrences(e, <<>>) = 0
<1>1. {i \in DOMAIN <<>> : <<>>[i] = e} = {}
  OBVIOUS
<1> QED
  BY <1>1, FS_EmptySet DEF Occurrences

LEMMA OccurrencesAfterAppend ==
    ASSUME NEW s \in Seq(Entries), NEW x \in Entries, NEW e
    PROVE  Occurrences(e, Append(s, x))
             = IF x = e THEN Occurrences(e, s) + 1 ELSE Occurrences(e, s)
<1> DEFINE At(t) == {i \in DOMAIN t : t[i] = e}
           last == Len(s) + 1
<1>1. /\ DOMAIN s = 1 .. Len(s) /\ Len(s) \in Nat
      /\ DOMAIN Append(s, x) = 1 .. last
      /\ Append(s, x)[last] = x
      /\ \A i \in DOMAIN s : Append(s, x)[i] = s[i]
  OBVIOUS
<1>2. At(Append(s, x)) = IF x = e THEN At(s) \union {last} ELSE At(s)
  BY <1>1
<1>3. last \notin At(s)
  BY <1>1
<1>4. IsFiniteSet(At(s))
  BY OccurrencesType
<1>5. Cardinality(At(s) \union {last}) = Cardinality(At(s)) + 1
  BY <1>3, <1>4, FS_AddElement
<1> QED
  BY <1>2, <1>5 DEF Occurrences

-----------------------------------------------------------------------------
(***************************************************************************)
(* What keeps the audit and the version files in order.                    *)
(***************************************************************************)
\* Nobody comes to the commit, no line is lost and nothing is acknowledged.
LEMMA AuditFrame ==
    ASSUME TypeInv, AuditInv,
           \A c \in Everyone : call'[c].at = "commit" => call'[c] = call[c],
           mem'.trail = mem.trail \/ mem'.trail = <<>>,
           disk'.audit = disk.audit
    PROVE  AuditInv'
<1> SUFFICES ASSUME NEW e \in Entries
             PROVE  /\ IsFiniteSet(Committing(e)')
                    /\ Occurrences(e, mem'.trail) + Cardinality(Committing(e)')
                         <= Occurrences(e, disk'.audit)
  BY DEF AuditInv
<1>1. /\ IsFiniteSet(Committing(e))
      /\ Occurrences(e, mem.trail) + Cardinality(Committing(e)) <= Occurrences(e, disk.audit)
  BY DEF AuditInv
<1>2. Committing(e)' \in SUBSET Committing(e)
  BY DEF Committing, EntryOf
<1>3. /\ IsFiniteSet(Committing(e)')
      /\ Cardinality(Committing(e)') <= Cardinality(Committing(e))
  BY <1>1, <1>2, FS_Subset
<1>4. Cardinality(Committing(e)') \in Nat /\ Cardinality(Committing(e)) \in Nat
  BY <1>1, <1>3, FS_CardinalityType
<1>5. Occurrences(e, mem.trail) \in Nat /\ Occurrences(e, disk.audit) \in Nat
  BY OccurrencesType DEF TypeInv, Memories, Disks
<1>6. Occurrences(e, mem'.trail) \in Nat /\ Occurrences(e, mem'.trail) <= Occurrences(e, mem.trail)
  BY <1>5, OccurrencesInNothing
<1> QED
  BY <1>1, <1>3, <1>4, <1>5, <1>6

\* A version file with a number below b is there after the step, or its content is
\* known to be retired.
FilesStay(b) ==
    /\ retired \subseteq retired'
    /\ \A m \in DOMAIN disk.files : m < b /\ ~BeingWritten(m) =>
         \/ /\ m \in DOMAIN disk'.files /\ disk'.files[m] = disk.files[m]
            /\ ~BeingWritten(m)'
         \/ disk.files[m] \in retired'

\* The same of the state after the step, for contents and snapshots of any state.
KeptThen(content, next) ==
    \/ content \in retired'
    \/ \E m \in DOMAIN disk'.files : /\ m < next /\ disk'.files[m] = content
                                     /\ ~BeingWritten(m)'

SnapshotKeptThen(s) == s.hash # None => KeptThen(s.hash, s.next)
IssuedThen(s) == s # None => SnapshotKeptThen(s) /\ s.next <= mem'.next

LEMMA KeptStays ==
    ASSUME disk \in Disks, NEW b \in Int, FilesStay(b),
           NEW content, NEW k \in Int, NEW l \in Int, k <= b, k <= l, Kept(content, k)
    PROVE  KeptThen(content, l)
<1>1. CASE content \in retired
  BY <1>1 DEF FilesStay, Kept, KeptThen
<1>2. CASE content \notin retired
  <2>1. PICK m \in DOMAIN disk.files :
          m < k /\ disk.files[m] = content /\ ~BeingWritten(m)
    BY <1>2 DEF Kept
  <2>2. disk.files \in Versions
    BY DEF Disks
  <2>3. m \in Int
    BY <2>1, <2>2, VersionsAreFunctions, Bounds
  <2>4. m < b /\ m < l
    BY <2>1, <2>3
  <2> QED
    BY <2>1, <2>4 DEF FilesStay, Kept, KeptThen
<1> QED
  BY <1>1, <1>2

\* s is a state that some call or job is writing.
Written(s) == (\E c \in Everyone : s = call[c].snap) \/ (\E n \in DOMAIN jobs : s = jobs[n].snap)

\* What a step may do with contents, snapshots and the jobs.
ContentsStay ==
    /\ mem'.hash = mem.hash \/ KeptThen(mem'.hash, mem'.next)
    /\ disk'.state = disk.state \/ Written(disk'.state)
    /\ life' # "created" \/ call'[Boot] # Idle => life # "created" \/ call[Boot] # Idle
    /\ \A c \in Everyone : call'[c].snap \in {call[c].snap, None, Snapshot(mem')}
    /\ \A n \in DOMAIN jobs' :
         \/ jobs'[n].at = "file" /\ jobs'[n].snap = None
         \/ /\ n \in DOMAIN jobs /\ jobs'[n].content = jobs[n].content
            /\ jobs'[n].snap \in {jobs[n].snap, None, Snapshot(mem')}
            /\ jobs'[n].at # "file" => jobs[n].at # "file" \/ KeptThen(jobs[n].content, n + 1)

LEMMA EditsFrame ==
    ASSUME TypeInv, TypeInv', EditsInv, ContentsStay, mem.next <= mem'.next,
           NEW b \in Int, FilesStay(b), mem.next <= b,
           disk.state # None => disk.state.next <= b
    PROVE  EditsInv'
<1>1. disk \in Disks /\ mem.next \in Int /\ mem'.next \in Int /\ mem' \in Memories
  BY Bounds DEF TypeInv, Memories
<1>2. SnapshotKeptThen(mem')
  BY <1>1, KeptStays DEF SnapshotKept, SnapshotKeptThen, ContentsStay, EditsInv
<1>3. ASSUME NEW s \in Snapshots \union {None}, Issued(s)
      PROVE  IssuedThen(s)
  <2> SUFFICES ASSUME s # None
               PROVE  SnapshotKeptThen(s) /\ s.next <= mem'.next
    BY DEF IssuedThen
  <2>1. SnapshotKept(s) /\ s.next <= mem.next /\ s.next \in Int
    BY <1>3, Bounds DEF Issued, Snapshots
  <2> QED
    BY <1>1, <2>1, KeptStays DEF SnapshotKept, SnapshotKeptThen
<1>4. IssuedThen(Snapshot(mem')) /\ IssuedThen(None)
  BY <1>1, <1>2, SnapshotType DEF IssuedThen, SnapshotKeptThen
<1>5. \A c \in Everyone : call[c].snap \in Snapshots \union {None} /\ Issued(call[c].snap)
  BY DEF EditsInv, TypeInv, OpenCalls
<1>6. \A n \in DOMAIN jobs :
        /\ jobs[n].snap \in Snapshots \union {None} /\ Issued(jobs[n].snap)
        /\ n \in Int /\ n + 1 <= mem.next
  BY <1>1 DEF EditsInv, TypeInv, JobRecords
<1>7. disk'.state # None => SnapshotKeptThen(disk'.state)
  <2>1. CASE disk'.state = disk.state
    <3> SUFFICES ASSUME disk.state # None, disk.state.hash # None
                 PROVE  KeptThen(disk.state.hash, disk.state.next)
      BY <2>1 DEF SnapshotKeptThen
    <3>1. disk.state.next \in Int
      BY Bounds DEF TypeInv, Disks, Snapshots
    <3>2. Kept(disk.state.hash, disk.state.next)
      BY DEF EditsInv, SnapshotKept
    <3> QED
      BY <1>1, <3>1, <3>2, KeptStays
  <2>2. CASE Written(disk'.state)
    BY <1>3, <1>5, <1>6, <2>2 DEF Written, IssuedThen
  <2> QED
    BY <2>1, <2>2 DEF ContentsStay
<1>8. (disk'.state # None /\ (life' # "created" \/ call'[Boot] # Idle))
         => disk'.state.next <= mem'.next
  <2>1. CASE disk'.state = disk.state
    <3> SUFFICES ASSUME disk.state # None, life # "created" \/ call[Boot] # Idle
                 PROVE  disk.state.next <= mem'.next
      BY <2>1 DEF ContentsStay
    <3>1. disk.state.next \in Int /\ disk.state.next <= mem.next
      BY Bounds DEF EditsInv, TypeInv, Disks, Snapshots
    <3> QED
      BY <1>1, <3>1
  <2>2. CASE Written(disk'.state)
    BY <1>3, <1>5, <1>6, <2>2 DEF Written, IssuedThen
  <2> QED
    BY <2>1, <2>2 DEF ContentsStay
<1>9. \A c \in Everyone : IssuedThen(call'[c].snap)
  <2> SUFFICES ASSUME NEW c \in Everyone
               PROVE  IssuedThen(call'[c].snap)
    OBVIOUS
  <2> QED
    BY <1>3, <1>4, <1>5 DEF ContentsStay
<1>10. ASSUME NEW n \in DOMAIN jobs'
       PROVE  /\ IssuedThen(jobs'[n].snap)
              /\ jobs'[n].at # "file" => KeptThen(jobs'[n].content, n + 1)
  <2>1. IssuedThen(jobs'[n].snap)
    BY <1>3, <1>4, <1>6 DEF ContentsStay
  <2>2. ASSUME jobs'[n].at # "file", n \in DOMAIN jobs, jobs[n].at # "file"
        PROVE  KeptThen(jobs[n].content, n + 1)
    <3>1. Kept(jobs[n].content, n + 1) /\ n + 1 \in Int /\ n + 1 <= b
      BY <1>1, <1>6, <2>2 DEF EditsInv
    <3> QED
      BY <1>1, <3>1, KeptStays
  <2> QED
    BY <2>1, <2>2 DEF ContentsStay
<1> QED
  BY <1>2, <1>7, <1>8, <1>9, <1>10
  DEF EditsInv, SnapshotKept, SnapshotKeptThen, Issued, IssuedThen, Kept, KeptThen

\* A process that has ended, or whose init has failed, leaves only the disk.
LEMMA EditsAfterCrash ==
    ASSUME disk \in Disks, EditsInv, mem' = Blank, life' = "created",
           \A c \in Everyone : call'[c] = Idle, DOMAIN jobs' = {},
           UNCHANGED <<disk, retired>>
    PROVE  EditsInv'
<1>1. \A h, k : Kept(h, k) => KeptThen(h, k)
  BY DEF Kept, KeptThen, BeingWritten
<1>2. Boot \in Everyone
  BY DEF Everyone
<1> QED
  BY <1>1, <1>2 DEF EditsInv, SnapshotKept, Issued, Kept, KeptThen, Blank, Idle

-----------------------------------------------------------------------------
(***************************************************************************)
(* The end of a call.                                                      *)
(***************************************************************************)
Resumed == [Idle EXCEPT !.op = "reload", !.at = "drain"]

LEMMA CallTypes ==
    /\ Idle \in OpenCalls /\ Resumed \in OpenCalls
    /\ Idle.op = "none" /\ Idle.at = "idle" /\ Idle.snap = None /\ Idle.behind = None
    /\ Resumed.op = "reload" /\ Resumed.at = "drain" /\ Resumed.snap = None
    /\ Resumed.behind = None /\ Resumed # Idle
    /\ Boot \notin Callers /\ Boot \in Everyone /\ Nobody \notin Everyone
BY OptionsAssumption DEF Idle, Resumed, OpenCalls, Everyone

\* c is gone, and those that queued behind its reload go on; memory is m, or the process
\* gives up.
Ended(c, ok, m) ==
    /\ call' \in [Everyone -> OpenCalls] /\ gate' \in Callers \union {None}
    /\ call'[c] = Idle
    /\ \A d \in Everyone \ {c} :
         \/ call'[d] = call[d]
         \/ /\ call[d].at = "queued" /\ call[d] # Idle /\ d # Boot /\ life' = life
            /\ call'[d] = Resumed
    /\ \/ mem' = m /\ life' = life /\ c # Boot
       \/ c = Boot /\ ok /\ mem' = m /\ life' = "running" /\ life = "created"
       \/ c = Boot /\ ~ok /\ mem' = Blank /\ life' = "created" /\ life = "created"

LEMMA EndOfCall ==
    ASSUME TypeInv, CallsInv, NEW c \in Everyone, call[c].at \notin {"idle", "queued"},
           NEW ok \in BOOLEAN, NEW m, End(c, ok, m)
    PROVE  Ended(c, ok, m)
<1>1. CallKnowsItsOp(c) /\ \A d \in Everyone : CallKnowsItsOp(d)
  BY DEF CallsInv
<1>2. call \in [Everyone -> OpenCalls] /\ gate \in Callers \union {None}
  BY DEF TypeInv
<1>3. call[c].op \in {"activate", "reload", "init"}
  BY <1>1, <1>2 DEF CallKnowsItsOp, OpenCalls
<1>4. c = Boot <=> call[c].op = "init"
  BY <1>1 DEF CallKnowsItsOp
<1>5. CASE call[c].op = "activate"
  <2>1. mem' = m /\ call' = [call EXCEPT ![c] = Idle] /\ UNCHANGED <<life, gate>>
    BY <1>5 DEF End, WithCall
  <2> QED
    BY <1>2, <1>4, <1>5, <2>1, CallTypes DEF Ended
<1>6. CASE call[c].op = "init"
  <2>1. /\ mem' = IF ok THEN m ELSE Blank
        /\ life' = IF ok THEN "running" ELSE "created"
        /\ call' = [call EXCEPT ![c] = Idle] /\ UNCHANGED gate
    BY <1>6 DEF End, WithCall
  <2>2. life = "created"
    BY <1>1, <1>6 DEF CallKnowsItsOp
  <2> QED
    BY <1>2, <1>4, <1>6, <2>1, <2>2, CallTypes DEF Ended
<1>7. CASE call[c].op = "reload"
  <2> DEFINE woken == {w \in Callers : call[w].behind = c}
  <2>1. mem' = m /\ Released(c, ok) /\ UNCHANGED life
    BY <1>7 DEF End
  <2>2. /\ gate' \in IF woken = {} THEN {None} ELSE woken
        /\ call' = [w \in DOMAIN call |->
                      IF w = c THEN Idle ELSE IF w \in woken THEN Resumed ELSE call[w]]
    BY <2>1 DEF Released, Resumed
  <2>3. c \in Callers /\ c # None
    BY <1>4, <1>7, OptionsAssumption DEF Everyone
  <2>4. \A d \in woken : call[d].at = "queued" /\ call[d] # Idle /\ d # Boot
    BY <1>1, <2>3, CallTypes DEF CallKnowsItsOp, Everyone
  <2>5. call' \in [Everyone -> OpenCalls]
    BY <1>2, <2>2, CallTypes
  <2>6. \A d \in Everyone \ {c} :
          \/ call'[d] = call[d]
          \/ d \in woken /\ call'[d] = Resumed
    BY <1>2, <2>2
  <2>7. gate' \in Callers \union {None} /\ call'[c] = Idle
    BY <1>2, <2>2
  <2> QED
    BY <1>4, <1>7, <2>1, <2>4, <2>5, <2>6, <2>7 DEF Ended
<1> QED
  BY <1>3, <1>5, <1>6, <1>7

\* The end of a call keeps types, calls and audit, when its version is off the list.
LEMMA EndKeepsCalls ==
    ASSUME TypeInv, CallsInv, NEW c \in Everyone, NEW ok \in BOOLEAN, NEW m \in Memories,
           Ended(c, ok, m), m.next = mem.next,
           jobs' \in [DOMAIN jobs' -> JobRecords], DOMAIN jobs' \subseteq DOMAIN jobs,
           \A n \in DOMAIN jobs' : jobs'[n].for = jobs[n].for /\ jobs[n].for # c,
           disk' \in Disks, UNCHANGED <<yaml, retired>>
    PROVE  TypeInv' /\ CallsInv'
<1>1. CASE c = Boot /\ ~ok
  <2>1. mem' = Blank /\ life = "created" /\ life' = "created"
    BY <1>1 DEF Ended
  <2>2. DOMAIN jobs' = {}
    BY <1>1, <2>1 DEF CallsInv, BootIsAlone
  <2>3. \A d \in Everyone : call'[d] = Idle
    <3>1. \A d \in Callers : call[d] = Idle
      BY <2>1 DEF CallsInv, BootIsAlone
    <3> QED
      BY <1>1, <3>1 DEF Ended, Everyone
  <2>4. TypeInv'
    BY <1>1, <2>1, <2>2, BlankMemory DEF TypeInv, Ended
  <2>5. CallsInv'
    BY <2>2, <2>3, CallTypes DEF CallsInv, CallKnowsItsOp, JobKnowsItsCall, BootIsAlone, Everyone
  <2> QED
    BY <2>4, <2>5
<1>2. CASE mem' = m /\ (c = Boot => life' = "running")
  <2>1. life' \in {"created", "running", "shut_down"}
    BY DEF TypeInv, Ended
  <2>2. TypeInv'
    BY <1>2, <2>1 DEF TypeInv, Ended
  <2>3. ASSUME NEW d \in Everyone
        PROVE  CallKnowsItsOp(d)'
    <3>1. CASE d = c
      BY <3>1, CallTypes DEF Ended, CallKnowsItsOp
    <3>2. CASE d # c /\ call'[d] = call[d]
      <4>1. CallKnowsItsOp(d)
        BY DEF CallsInv
      <4>2. call[d].op = "init" => life' = "created"
        BY <3>2, <4>1 DEF Ended, CallKnowsItsOp
      <4> QED
        BY <3>2, <4>1, <4>2 DEF CallKnowsItsOp
    <3>3. CASE d # c /\ call'[d] = Resumed /\ d # Boot
      BY <3>3, CallTypes DEF CallKnowsItsOp
    <3> QED
      BY <3>1, <3>2, <3>3 DEF Ended
  <2>4. ASSUME NEW n \in DOMAIN jobs'
        PROVE  JobKnowsItsCall(n)'
    <3> SUFFICES ASSUME jobs[n].for # Nobody
                 PROVE  call'[jobs[n].for].at = "stage" /\ call'[jobs[n].for].number = n
      BY DEF JobKnowsItsCall
    <3>1. n \in DOMAIN jobs /\ jobs[n].for # c
      BY <2>4
    <3>2. jobs[n].for \in Everyone /\ call[jobs[n].for].at = "stage"
          /\ call[jobs[n].for].number = n
      BY <3>1 DEF CallsInv, JobKnowsItsCall, TypeInv, JobRecords
    <3> QED
      BY <3>1, <3>2 DEF Ended
  <2>5. BootIsAlone'
    <3> SUFFICES ASSUME life' = "created"
                 PROVE  /\ \A d \in Callers : call'[d] = Idle
                        /\ \A n \in DOMAIN jobs' : jobs'[n].for = Boot
      BY DEF BootIsAlone
    <3>1. life = "created"
      BY <1>2 DEF Ended
    <3>2. /\ \A d \in Callers : call[d] = Idle
          /\ \A n \in DOMAIN jobs : jobs[n].for = Boot
      BY <3>1 DEF CallsInv, BootIsAlone
    <3> QED
      BY <3>2 DEF Ended, Everyone
  <2> QED
    BY <2>2, <2>3, <2>4, <2>5 DEF CallsInv
<1> QED
  BY <1>1, <1>2 DEF Ended

\* A call that is not persisting a version has none on the list.
LEMMA NoJobOf ==
    ASSUME CallsInv, NEW c \in Everyone, call[c].at # "stage"
    PROVE  \A n \in DOMAIN jobs : jobs[n].for # c
BY CallTypes DEF CallsInv, JobKnowsItsCall

\* The end of a call keeps contents and files.
LEMMA EndKeepsFiles ==
    ASSUME TypeInv, CallsInv, AuditInv, EditsInv, NEW c \in Everyone,
           call[c].at \notin {"idle", "queued"},
           NEW ok \in BOOLEAN, NEW m \in Memories, End(c, ok, m),
           m.next = mem.next, m.hash = mem.hash,
           jobs' \in [DOMAIN jobs' -> JobRecords], DOMAIN jobs' \subseteq DOMAIN jobs,
           \A n \in DOMAIN jobs' : jobs'[n] = jobs[n] /\ jobs[n].for # c,
           disk' \in Disks, disk'.files = disk.files, ok \/ disk' = disk,
           disk'.state = disk.state \/ Written(disk'.state),
           UNCHANGED <<yaml, retired>>
    PROVE  /\ TypeInv' /\ CallsInv' /\ EditsInv'
           /\ Ended(c, ok, m)
           /\ m.trail = mem.trail /\ disk'.audit = disk.audit => AuditInv'
<1>1. Ended(c, ok, m)
  BY EndOfCall
<1>2. TypeInv' /\ CallsInv'
  BY <1>1, EndKeepsCalls
<1>3. EditsInv'
  <2>1. CASE c = Boot /\ ~ok
    <3>1. mem' = Blank /\ life = "created" /\ life' = "created" /\ UNCHANGED <<disk, retired>>
      BY <1>1, <2>1 DEF Ended
    <3>2. DOMAIN jobs' = {}
      BY <2>1, <3>1 DEF CallsInv, BootIsAlone
    <3>3. \A d \in Everyone : call'[d] = Idle
      BY <1>1, <2>1, <3>1 DEF Ended, CallsInv, BootIsAlone, Everyone
    <3> QED
      BY <3>1, <3>2, <3>3, EditsAfterCrash DEF TypeInv
  <2>2. CASE ~(c = Boot /\ ~ok)
    <3>1. mem' = m
      BY <1>1, <2>2 DEF Ended
    <3>2. FilesStay(VersionBound + 1)
      BY DEF FilesStay, BeingWritten
    <3>3. VersionBound + 1 \in Int /\ mem.next <= VersionBound + 1
      BY OptionsAssumption, Bounds DEF TypeInv, Memories
    <3>4. disk.state # None => disk.state.next <= VersionBound + 1
      BY OptionsAssumption, Bounds DEF TypeInv, Disks, Snapshots
    <3>5. \A d \in Everyone : call'[d].snap \in {call[d].snap, None}
      BY <1>1, CallTypes DEF Ended
    <3>6. life' # "created" \/ call'[Boot] # Idle => life # "created" \/ call[Boot] # Idle
      <4>1. call[Boot] = Idle => c # Boot
        BY CallTypes
      <4> QED
        BY <1>1, <4>1, CallTypes DEF Ended
    <3>7. ContentsStay
      BY <3>1, <3>5, <3>6 DEF ContentsStay
    <3>8. mem.next <= mem'.next
      BY <3>1, Bounds DEF TypeInv, Memories
    <3> QED
      BY <1>2, <3>2, <3>3, <3>4, <3>7, <3>8, EditsFrame
  <2> QED
    BY <2>1, <2>2
<1>4. ASSUME m.trail = mem.trail, disk'.audit = disk.audit
      PROVE  AuditInv'
  <2>1. \A d \in Everyone : call'[d].at = "commit" => call'[d] = call[d]
    BY <1>1, CallTypes DEF Ended
  <2>2. mem'.trail = mem.trail \/ mem'.trail = <<>>
    BY <1>1, <1>4 DEF Ended, Blank
  <2> QED
    BY <1>4, <2>1, <2>2, AuditFrame
<1> QED
  BY <1>1, <1>2, <1>3, <1>4

\* The other steps, which keep the numbers, contents and versions files: the
\* hypotheses on edits that do not speak of what the step writes.
LEMMA SameFiles ==
    ASSUME TypeInv, TypeInv', EditsInv, ContentsStay, mem'.next = mem.next,
           UNCHANGED <<retired>>, disk'.files = disk.files,
           \A n \in DOMAIN jobs' : jobs'[n].at = "file" => BeingWritten(n)
    PROVE  EditsInv'
<1>1. FilesStay(VersionBound + 1)
  BY DEF FilesStay, BeingWritten
<1>2. VersionBound + 1 \in Int /\ mem.next <= VersionBound + 1 /\ mem.next <= mem'.next
  BY OptionsAssumption, Bounds DEF TypeInv, Memories
<1>3. disk.state # None => disk.state.next <= VersionBound + 1
  BY OptionsAssumption, Bounds DEF TypeInv, Disks, Snapshots
<1> QED
  BY <1>1, <1>2, <1>3, EditsFrame

-----------------------------------------------------------------------------
(***************************************************************************)
(* Steps in which one call goes on, and steps of no call.                  *)
(***************************************************************************)
\* A call c that is open, or is opened while the process runs, stands at r.
LEMMA OneCallMoves ==
    ASSUME TypeInv, CallsInv, NEW c \in Everyone, NEW r \in OpenCalls,
           call' = [call EXCEPT ![c] = r], life' = life,
           \/ call[c].at # "idle" /\ r.op = call[c].op
           \/ c # Boot /\ life # "created" /\ r.op \in {"reload", "activate"},
           r.at # "idle",
           r.at \in {"queued", "drain", "read"} => r.op = "reload",
           r.at \in {"stage", "mark"} => r.op \in {"init", "reload"},
           r.at \in {"stage", "mark", "append", "commit"} => r.number \in Numbers,
           r.behind # None => r.at = "queued",
           \A n \in DOMAIN jobs' :
             \/ n \in DOMAIN jobs /\ jobs'[n].for = jobs[n].for /\ jobs[n].for # c
             \/ jobs'[n].for = c /\ r.at = "stage" /\ r.number = n
    PROVE  CallsInv'
<1>1. c # Boot => life # "created"
  BY CallTypes DEF CallsInv, BootIsAlone, CallKnowsItsOp, Everyone
<1>2. call'[c] = r /\ \A d \in Everyone \ {c} : call'[d] = call[d]
  BY DEF TypeInv
<1>3. ASSUME NEW d \in Everyone
      PROVE  CallKnowsItsOp(d)'
  <2>1. CallKnowsItsOp(d)
    BY DEF CallsInv
  <2>2. CASE d # c
    BY <1>2, <2>1, <2>2 DEF CallKnowsItsOp
  <2>3. CASE d = c
    BY <1>2, <2>1, <2>3 DEF CallKnowsItsOp
  <2> QED
    BY <2>2, <2>3
<1>4. ASSUME NEW n \in DOMAIN jobs'
      PROVE  JobKnowsItsCall(n)'
  <2> SUFFICES ASSUME jobs'[n].for # Nobody
               PROVE  call'[jobs'[n].for].at = "stage" /\ call'[jobs'[n].for].number = n
    BY DEF JobKnowsItsCall
  <2>1. CASE jobs'[n].for = c /\ r.at = "stage" /\ r.number = n
    BY <1>2, <2>1
  <2>2. CASE n \in DOMAIN jobs /\ jobs'[n].for = jobs[n].for /\ jobs[n].for # c
    <3>1. jobs[n].for \in Everyone
      BY <2>2 DEF TypeInv, JobRecords
    <3> QED
      BY <1>2, <2>2, <3>1 DEF CallsInv, JobKnowsItsCall
  <2> QED
    BY <1>4, <2>1, <2>2
<1>5. BootIsAlone'
  <2> SUFFICES ASSUME life = "created"
               PROVE  /\ \A d \in Callers : call'[d] = Idle
                      /\ \A n \in DOMAIN jobs' : jobs'[n].for = Boot
    BY DEF BootIsAlone
  <2>1. c = Boot
    BY <1>1
  <2> QED
    BY <1>2, <2>1, CallTypes DEF CallsInv, BootIsAlone, Everyone
<1> QED
  BY <1>3, <1>4, <1>5 DEF CallsInv

\* No call moves.
LEMMA NoCallMoves ==
    ASSUME CallsInv, UNCHANGED <<life, call>>,
           \A n \in DOMAIN jobs' :
             \/ n \in DOMAIN jobs /\ jobs'[n].for = jobs[n].for
             \/ jobs'[n].for = Nobody /\ life # "created"
    PROVE  CallsInv'
<1>1. \A c \in Everyone : CallKnowsItsOp(c)'
  BY DEF CallsInv, CallKnowsItsOp
<1>2. \A n \in DOMAIN jobs' : JobKnowsItsCall(n)'
  BY DEF CallsInv, JobKnowsItsCall
<1>3. BootIsAlone'
  BY DEF CallsInv, BootIsAlone
<1> QED
  BY <1>1, <1>2, <1>3 DEF CallsInv

\* The tasks that are going on, with one of them somewhere else.
LEMMA JobsType ==
    ASSUME TypeInv
    PROVE  /\ \A n \in DOMAIN jobs : jobs[n] \in JobRecords /\ n \in Nat /\ n < mem.next
           /\ \A n : Without(jobs, n) \in [DOMAIN jobs \ {n} -> JobRecords]
           /\ \A n : DOMAIN Without(jobs, n) = DOMAIN jobs \ {n}
           /\ \A n : \A j \in JobRecords : Put(jobs, n, j) \in [DOMAIN jobs \union {n} -> JobRecords]
           /\ \A n, j : DOMAIN Put(jobs, n, j) = DOMAIN jobs \union {n}
           /\ mem.next \in 1 .. VersionBound + 1
<1>1. mem.next \in 1 .. VersionBound + 1 /\ mem.next \in Nat
  BY Bounds DEF TypeInv, Memories
<1>2. jobs \in [DOMAIN jobs -> JobRecords] /\ DOMAIN jobs \subseteq 1 .. mem.next - 1
  BY DEF TypeInv
<1>3. \A n : Without(jobs, n) = [m \in DOMAIN jobs \ {n} |-> jobs[m]]
  BY DEF Without
<1>4. \A n, j : Put(jobs, n, j) = [m \in DOMAIN jobs \union {n} |-> IF m = n THEN j ELSE jobs[m]]
  BY DEF Put
<1>5. \A n \in DOMAIN jobs : jobs[n] \in JobRecords /\ n \in Nat /\ n < mem.next
  BY <1>1, <1>2
<1>6. \A n : DOMAIN Without(jobs, n) = DOMAIN jobs \ {n}
  BY <1>3
<1>7. \A n, j : DOMAIN Put(jobs, n, j) = DOMAIN jobs \union {n}
  BY <1>4
<1>8. \A n : Without(jobs, n) \in [DOMAIN jobs \ {n} -> JobRecords]
  BY <1>3, <1>5
<1>9. ASSUME NEW n, NEW j, j \in JobRecords
      PROVE  Put(jobs, n, j) \in [DOMAIN jobs \union {n} -> JobRecords]
  <2> DEFINE f == [m \in DOMAIN jobs \union {n} |-> IF m = n THEN j ELSE jobs[m]]
  <2>1. \A m \in DOMAIN jobs \union {n} : f[m] \in JobRecords
    BY <1>5, <1>9
  <2>2. f \in [DOMAIN jobs \union {n} -> JobRecords]
    BY <2>1
  <2> QED
    BY <2>2, <1>4
<1>10. \A n : \A j \in JobRecords : Put(jobs, n, j) \in [DOMAIN jobs \union {n} -> JobRecords]
  BY <1>9
<1> QED
  BY <1>1, <1>5, <1>6, <1>7, <1>8, <1>10

LEMMA NewJob ==
    ASSUME NEW owner \in Everyone \union {Nobody}, NEW content \in Contents
    PROVE  /\ Job(owner, content) \in JobRecords
           /\ Job(owner, content).for = owner /\ Job(owner, content).at = "file"
           /\ Job(owner, content).snap = None /\ Job(owner, content).content = content
BY DEF Job, JobRecords

-----------------------------------------------------------------------------
(***************************************************************************)
(* Each step keeps the invariant: previews and what they start.            *)
(***************************************************************************)
LEMMA PreviewKeeps == IInv /\ Preview => IInv'
<1> SUFFICES ASSUME IInv, Preview
             PROVE  IInv'
  OBVIOUS
<1> USE DEF IInv
<1>1. PICK content \in Contents :
        /\ mem' = Staged(mem, content)
        /\ jobs' = Put(jobs, mem.next, Job(Nobody, content))
  BY DEF Preview
<1>2. /\ life = "running" /\ mem.next <= VersionBound
      /\ UNCHANGED <<yaml, life, disk, gate, call, retired>>
  BY DEF Preview
<1>3. /\ mem' \in Memories /\ mem'.next = mem.next + 1 /\ mem'.hash = mem.hash
      /\ mem'.trail = mem.trail /\ mem.next \in Nat
  BY <1>1, <1>2, StagedMemory, Bounds DEF TypeInv
<1>4. /\ jobs' \in [DOMAIN jobs' -> JobRecords]
      /\ DOMAIN jobs' = DOMAIN jobs \union {mem.next}
      /\ jobs'[mem.next] = Job(Nobody, content)
      /\ \A n \in DOMAIN jobs : n # mem.next /\ jobs'[n] = jobs[n]
  <2>1. /\ jobs' \in [DOMAIN jobs \union {mem.next} -> JobRecords]
        /\ DOMAIN jobs' = DOMAIN jobs \union {mem.next}
    BY <1>1, JobsType, NewJob
  <2>2. \A n \in DOMAIN jobs : n # mem.next
    BY <1>3, JobsType
  <2> QED
    BY <1>1, <2>1, <2>2 DEF Put
<1>5. TypeInv'
  <2>1. DOMAIN jobs' \subseteq 1 .. mem'.next - 1
    BY <1>3, <1>4, JobsType DEF TypeInv
  <2> QED
    BY <1>2, <1>3, <1>4, <2>1 DEF TypeInv
<1>6. CallsInv'
  BY <1>2, <1>4, NewJob, NoCallMoves, SMTT(20)
<1>7. AuditInv'
  BY <1>2, <1>3, AuditFrame
<1>8. EditsInv'
  <2>1. FilesStay(mem.next)
    <3>1. \A m \in DOMAIN disk.files : m < mem.next /\ ~BeingWritten(m) => ~BeingWritten(m)'
      BY <1>3, <1>4 DEF BeingWritten
    <3> QED
      BY <1>2, <3>1 DEF FilesStay
  <2>2. ContentsStay
    <3>1. \A n \in DOMAIN jobs' :
            \/ jobs'[n].at = "file" /\ jobs'[n].snap = None
            \/ n \in DOMAIN jobs /\ jobs'[n] = jobs[n]
      BY <1>4, NewJob
    <3> QED
      BY <1>2, <1>3, <3>1 DEF ContentsStay
  <2>3. disk.state # None => disk.state.next <= mem.next
    BY <1>2 DEF EditsInv
  <2> QED
    BY <1>3, <1>5, <2>1, <2>2, <2>3, EditsFrame
<1> QED
  BY <1>5, <1>6, <1>7, <1>8

LEMMA WriteVersionFileKeeps ==
    ASSUME IInv, NEW n \in DOMAIN jobs, WriteVersionFile(n)
    PROVE  IInv'
<1> USE DEF IInv
<1>1. /\ jobs[n].at = "file" /\ disk' = [disk EXCEPT !.files = Put(disk.files, n, jobs[n].content)]
      /\ jobs' = [jobs EXCEPT ![n].at = "state", ![n].snap = Snapshot(mem)]
      /\ UNCHANGED <<yaml, life, mem, gate, call, retired>>
  BY DEF WriteVersionFile
<1>2. jobs[n] \in JobRecords /\ n \in Numbers /\ n \in Nat /\ n + 1 <= mem.next
  <2>1. jobs[n] \in JobRecords /\ n \in Nat /\ n < mem.next /\ n \in 1 .. mem.next - 1
    BY JobsType DEF TypeInv
  <2>2. mem.next \in 1 .. VersionBound + 1
    BY JobsType
  <2> QED
    BY <2>1, <2>2, OptionsAssumption DEF Numbers
<1>3. /\ disk' \in Disks /\ disk'.audit = disk.audit /\ disk'.state = disk.state
      /\ DOMAIN disk'.files = DOMAIN disk.files \union {n}
      /\ disk'.files[n] = jobs[n].content
      /\ \A m \in DOMAIN disk.files : m # n => disk'.files[m] = disk.files[m]
  <2>1. disk'.files = Put(disk.files, n, jobs[n].content)
    BY <1>1 DEF TypeInv, Disks
  <2>2. disk'.files \in Versions
    BY <1>2, <2>1, PutVersion DEF TypeInv, Disks, JobRecords
  <2>3. disk' \in Disks /\ disk'.audit = disk.audit /\ disk'.state = disk.state
    BY <1>1, <2>1, <2>2 DEF TypeInv, Disks
  <2> QED
    BY <2>1, <2>3 DEF Put
<1>4. /\ jobs' \in [DOMAIN jobs -> JobRecords]
      /\ jobs'[n].at = "state" /\ jobs'[n].snap = Snapshot(mem)
      /\ jobs'[n].for = jobs[n].for /\ jobs'[n].content = jobs[n].content
      /\ \A m \in DOMAIN jobs : m # n => jobs'[m] = jobs[m]
  <2>1. Snapshot(mem) \in Snapshots
    BY SnapshotType DEF TypeInv
  <2>2. [jobs[n] EXCEPT !.at = "state", !.snap = Snapshot(mem)] \in JobRecords
    BY <1>2, <2>1 DEF JobRecords
  <2> QED
    BY <1>1, <1>2, <2>2, JobsType DEF JobRecords
<1>5. TypeInv'
  BY <1>1, <1>3, <1>4 DEF TypeInv
<1>6. CallsInv'
  BY <1>1, <1>4, NoCallMoves
<1>7. AuditInv'
  BY <1>1, <1>3, AuditFrame
<1>8. EditsInv'
  <2>1. FilesStay(VersionBound + 1)
    BY <1>1, <1>3, <1>4 DEF FilesStay, BeingWritten
  <2>2. KeptThen(jobs[n].content, n + 1)
    BY <1>2, <1>3, <1>4 DEF KeptThen, BeingWritten
  <2>3. ContentsStay
    BY <1>1, <1>3, <1>4, <2>2 DEF ContentsStay
  <2>4. VersionBound + 1 \in Int /\ mem.next <= VersionBound + 1
    BY OptionsAssumption, Bounds DEF TypeInv, Memories
  <2>5. disk.state # None => disk.state.next <= VersionBound + 1
    BY OptionsAssumption, Bounds DEF TypeInv, Disks, Snapshots
  <2>6. mem.next <= mem'.next
    BY <1>1, <1>2, JobsType
  <2> QED
    BY <1>5, <2>1, <2>3, <2>4, <2>5, <2>6, EditsFrame
<1> QED
  BY <1>5, <1>6, <1>7, <1>8

LEMMA WriteVersionStateKeeps ==
    ASSUME IInv, NEW n \in DOMAIN jobs, WriteVersionState(n)
    PROVE  IInv'
<1> USE DEF IInv
<1> DEFINE candidates == DOMAIN mem.versions \ {mem.active}
           left == Cardinality(DOMAIN mem.versions) - MaxVersions
<1>1. /\ jobs[n].at = "state" /\ disk' = [disk EXCEPT !.state = jobs[n].snap]
      /\ jobs' = [jobs EXCEPT ![n].at = "retention", ![n].snap = None,
                    ![n].candidates = candidates, ![n].left = left]
      /\ UNCHANGED <<yaml, life, mem, gate, call, retired>>
  BY DEF WriteVersionState
<1>2. jobs[n] \in JobRecords
  BY JobsType
<1>3. /\ disk' \in Disks /\ disk'.audit = disk.audit /\ disk'.state = jobs[n].snap
      /\ disk'.files = disk.files
  BY <1>1, <1>2 DEF TypeInv, Disks, JobRecords
<1>4. candidates \subseteq Numbers /\ left \in Int
  <2>1. DOMAIN mem.versions \subseteq Numbers
    BY VersionsAreFunctions DEF TypeInv, Memories
  <2>2. IsFiniteSet(Numbers)
    BY OptionsAssumption, FS_Interval DEF Numbers
  <2>3. Cardinality(DOMAIN mem.versions) \in Nat
    BY <2>1, <2>2, FS_Subset, FS_CardinalityType
  <2> QED
    BY <2>1, <2>3, OptionsAssumption
<1>5. /\ jobs' \in [DOMAIN jobs -> JobRecords]
      /\ jobs'[n].at = "retention" /\ jobs'[n].snap = None
      /\ jobs'[n].for = jobs[n].for /\ jobs'[n].content = jobs[n].content
      /\ \A m \in DOMAIN jobs : m # n => jobs'[m] = jobs[m]
  <2> HIDE DEF candidates, left
  <2>1. [jobs[n] EXCEPT !.at = "retention", !.snap = None, !.candidates = candidates,
                        !.left = left] \in JobRecords
    BY <1>2, <1>4 DEF JobRecords
  <2> QED
    BY <1>1, <1>2, <2>1, JobsType DEF JobRecords
<1>6. TypeInv'
  BY <1>1, <1>3, <1>5 DEF TypeInv
<1>7. CallsInv'
  BY <1>1, <1>5, NoCallMoves
<1>8. AuditInv'
  BY <1>1, <1>3, AuditFrame
<1>9. EditsInv'
  <2>1. ContentsStay
    BY <1>1, <1>3, <1>5 DEF ContentsStay, Written
  <2> QED
    BY <1>1, <1>3, <1>5, <1>6, <2>1, SameFiles DEF BeingWritten
<1> QED
  BY <1>6, <1>7, <1>8, <1>9

LEMMA RetireKeeps ==
    ASSUME IInv, NEW n \in DOMAIN jobs, Retire(n)
    PROVE  IInv'
<1> USE DEF IInv
<1> DEFINE oldest == Min(jobs[n].candidates)
           passed == [jobs EXCEPT ![n].candidates = jobs[n].candidates \ {oldest}]
<1> HIDE DEF oldest
<1>1. /\ jobs[n].at = "retention" /\ UNCHANGED <<yaml, life, gate, call>>
      /\ \/ /\ disk' = [disk EXCEPT !.files = Without(disk.files, oldest)]
            /\ mem' = [mem EXCEPT !.versions = Without(mem.versions, oldest)]
            /\ retired' = retired \union
                  {disk.files[m] : m \in {oldest} \intersect DOMAIN disk.files}
            /\ jobs' = [passed EXCEPT ![n].left = @ - 1]
         \/ jobs' = passed /\ UNCHANGED <<disk, mem, retired>>
  BY DEF Retire, Retiring, oldest
<1>2. jobs[n] \in JobRecords
  BY JobsType
<1>3. /\ jobs' \in [DOMAIN jobs -> JobRecords]
      /\ jobs'[n].at = "retention" /\ jobs'[n].snap = jobs[n].snap
      /\ jobs'[n].for = jobs[n].for /\ jobs'[n].content = jobs[n].content
      /\ \A m \in DOMAIN jobs : m # n => jobs'[m] = jobs[m]
  <2> DEFINE one == [jobs[n] EXCEPT !.candidates = jobs[n].candidates \ {oldest}]
             two == [one EXCEPT !.left = one.left - 1]
  <2>1. one \in JobRecords /\ one.at = "retention" /\ one.snap = jobs[n].snap
        /\ one.for = jobs[n].for /\ one.content = jobs[n].content
    BY <1>1, <1>2 DEF JobRecords
  <2>2. two \in JobRecords /\ two.at = "retention" /\ two.snap = jobs[n].snap
        /\ two.for = jobs[n].for /\ two.content = jobs[n].content
    <3> HIDE DEF one
    <3>1. one.left - 1 \in Int
      BY <2>1 DEF JobRecords
    <3>2. two = [one EXCEPT !.left = one.left - 1]
      BY Zenon
    <3> HIDE DEF two
    <3> QED
      BY <2>1, <3>1, <3>2 DEF JobRecords
  <2>3. passed = [jobs EXCEPT ![n] = one]
    OBVIOUS
  <2>4. [passed EXCEPT ![n].left = @ - 1] = [jobs EXCEPT ![n] = two]
    BY <2>3
  <2>5. jobs' = [jobs EXCEPT ![n] = one] \/ jobs' = [jobs EXCEPT ![n] = two]
    BY <1>1, <2>3, <2>4
  <2> HIDE DEF one, two, passed
  <2> QED
    BY <2>1, <2>2, <2>5, JobsType
<1> HIDE DEF passed
<1>4. /\ disk' \in Disks /\ mem' \in Memories /\ retired' \subseteq Contents
      /\ retired \subseteq retired'
      /\ disk'.audit = disk.audit /\ disk'.state = disk.state
      /\ mem'.trail = mem.trail /\ mem'.next = mem.next /\ mem'.hash = mem.hash
      /\ \A m \in DOMAIN disk.files :
           \/ m \in DOMAIN disk'.files /\ disk'.files[m] = disk.files[m]
           \/ disk.files[m] \in retired'
  <2>1. CASE UNCHANGED <<disk, mem, retired>>
    BY <2>1 DEF TypeInv
  <2>2. CASE /\ disk' = [disk EXCEPT !.files = Without(disk.files, oldest)]
             /\ mem' = [mem EXCEPT !.versions = Without(mem.versions, oldest)]
             /\ retired' = retired \union
                   {disk.files[m] : m \in {oldest} \intersect DOMAIN disk.files}
    <3>1. Without(disk.files, oldest) \in Versions /\ Without(mem.versions, oldest) \in Versions
      BY WithoutVersion DEF TypeInv, Disks, Memories
    <3>2. /\ disk' \in Disks /\ mem' \in Memories
          /\ disk'.files = Without(disk.files, oldest)
          /\ disk'.audit = disk.audit /\ disk'.state = disk.state
          /\ mem'.trail = mem.trail /\ mem'.next = mem.next /\ mem'.hash = mem.hash
      BY <2>2, <3>1 DEF TypeInv, Disks, Memories
    <3>3. \A m \in DOMAIN disk.files : disk.files[m] \in Contents
      BY VersionsAreFunctions DEF TypeInv, Disks
    <3>4. retired' \subseteq Contents /\ retired \subseteq retired'
      BY <2>2, <3>3 DEF TypeInv
    <3>5. \A m \in DOMAIN disk.files :
            \/ m \in DOMAIN disk'.files /\ disk'.files[m] = disk.files[m]
            \/ disk.files[m] \in retired'
      BY <2>2, <3>2 DEF Without
    <3> QED
      BY <3>2, <3>4, <3>5
  <2> QED
    BY <1>1, <2>1, <2>2
<1>5. TypeInv'
  BY <1>1, <1>3, <1>4 DEF TypeInv
<1>6. CallsInv'
  BY <1>1, <1>3, NoCallMoves
<1>7. AuditInv'
  BY <1>1, <1>4, AuditFrame
<1>8. EditsInv'
  <2>1. FilesStay(VersionBound + 1)
    BY <1>1, <1>3, <1>4 DEF FilesStay, BeingWritten
  <2>2. ContentsStay
    BY <1>1, <1>3, <1>4 DEF ContentsStay
  <2>3. VersionBound + 1 \in Int /\ mem.next <= VersionBound + 1 /\ mem.next <= mem'.next
    BY <1>4, OptionsAssumption, Bounds DEF TypeInv, Memories
  <2>4. disk.state # None => disk.state.next <= VersionBound + 1
    BY OptionsAssumption, Bounds DEF TypeInv, Disks, Snapshots
  <2> QED
    BY <1>5, <2>1, <2>2, <2>3, <2>4, EditsFrame
<1> QED
  BY <1>5, <1>6, <1>7, <1>8

LEMMA PersistedKeeps ==
    ASSUME IInv, NEW n \in DOMAIN jobs, Persisted(n)
    PROVE  IInv'
<1> USE DEF IInv
<1> DEFINE c == jobs[n].for
           m == [mem EXCEPT !.hash = jobs[n].content]
           r == [call[c] EXCEPT !.at = "mark", !.snap = Snapshot(m)]
<1>1. /\ jobs[n].at = "retention" /\ jobs' = Without(jobs, n)
      /\ UNCHANGED <<yaml, life, disk, gate, retired>>
      /\ c = Nobody => UNCHANGED <<mem, call>>
      /\ c # Nobody => mem' = m /\ call' = [call EXCEPT ![c] = r]
  BY DEF Persisted, WithCall
<1>2. jobs[n] \in JobRecords /\ c \in Everyone \union {Nobody}
  BY JobsType DEF JobRecords
<1>3. /\ jobs' \in [DOMAIN jobs' -> JobRecords] /\ DOMAIN jobs' = DOMAIN jobs \ {n}
      /\ \A k \in DOMAIN jobs' : jobs'[k] = jobs[k]
  BY <1>1, JobsType DEF Without
<1>4. /\ mem' \in Memories /\ mem'.next = mem.next /\ mem'.trail = mem.trail
      /\ mem'.hash = mem.hash \/ (mem'.hash = jobs[n].content)
  <2>1. m \in Memories /\ m.next = mem.next /\ m.trail = mem.trail /\ m.hash = jobs[n].content
    BY <1>2 DEF TypeInv, Memories, JobRecords
  <2> HIDE DEF m
  <2> QED
    BY <1>1, <2>1 DEF TypeInv
<1>5. c # Nobody => /\ c \in Everyone /\ call[c].at = "stage" /\ call[c].number = n
                    /\ r \in OpenCalls /\ r.op = call[c].op /\ r.at = "mark" /\ r.number = n
                    /\ r.behind = call[c].behind /\ r.snap = Snapshot(mem')
  <2> SUFFICES ASSUME c # Nobody
               PROVE  /\ c \in Everyone /\ call[c].at = "stage" /\ call[c].number = n
                      /\ r \in OpenCalls /\ r.op = call[c].op /\ r.at = "mark" /\ r.number = n
                      /\ r.behind = call[c].behind /\ r.snap = Snapshot(mem')
    OBVIOUS
  <2>1. c \in Everyone /\ call[c].at = "stage" /\ call[c].number = n
    BY <1>2 DEF CallsInv, JobKnowsItsCall
  <2>2. Snapshot(m) \in Snapshots /\ Snapshot(m) = Snapshot(mem')
    BY <1>1, <1>4, SnapshotType
  <2> HIDE DEF m, c
  <2> QED
    BY <2>1, <2>2 DEF TypeInv, OpenCalls
<1> HIDE DEF m, r
<1>6. TypeInv'
  <2>1. call' \in [Everyone -> OpenCalls]
    BY <1>1, <1>5 DEF TypeInv
  <2>2. DOMAIN jobs' \subseteq 1 .. mem'.next - 1
    BY <1>3, <1>4 DEF TypeInv
  <2> QED
    BY <1>1, <1>3, <1>4, <2>1, <2>2 DEF TypeInv
<1>7. CallsInv'
  <2>1. CASE c = Nobody
    BY <1>1, <1>3, <2>1, NoCallMoves
  <2>2. CASE c # Nobody
    <3>1. \A k \in DOMAIN jobs' : jobs[k].for # c
      BY <1>3, <1>5, <2>2 DEF CallsInv, JobKnowsItsCall
    <3>2. CallKnowsItsOp(c) /\ n \in Numbers
      BY <1>5, <2>2 DEF CallsInv, CallKnowsItsOp
    <3> QED
      BY <1>1, <1>3, <1>5, <2>2, <3>1, <3>2, OneCallMoves DEF CallKnowsItsOp
  <2> QED
    BY <2>1, <2>2
<1>8. AuditInv'
  <2>1. \A d \in Everyone : call'[d].at = "commit" => call'[d] = call[d]
    BY <1>1, <1>5 DEF TypeInv
  <2> QED
    BY <1>1, <1>4, <2>1, AuditFrame
<1>9. EditsInv'
  <2>1. KeptThen(jobs[n].content, mem'.next)
    <3>1. Kept(jobs[n].content, n + 1) /\ n \in Nat /\ n < mem.next /\ mem.next \in Nat
      BY <1>1, JobsType, Bounds DEF EditsInv
    <3>2. \A k \in DOMAIN disk.files : k \in Int
      BY VersionsAreFunctions, Bounds DEF TypeInv, Disks
    <3>3. \A k \in Int : k < n + 1 => k < mem'.next
      BY <1>4, <3>1
    <3> QED
      BY <1>1, <1>3, <3>1, <3>2, <3>3 DEF Kept, KeptThen, BeingWritten
  <2>2. \A d \in Everyone : call'[d].snap \in {call[d].snap, Snapshot(mem')}
    BY <1>1, <1>5 DEF TypeInv
  <2>3. life' # "created" \/ call'[Boot] # Idle => life # "created" \/ call[Boot] # Idle
    BY <1>1, <1>5, CallTypes DEF TypeInv
  <2>4. ContentsStay
    BY <1>1, <1>3, <1>4, <2>1, <2>2, <2>3 DEF ContentsStay
  <2> QED
    BY <1>1, <1>3, <1>4, <1>6, <2>4, SameFiles DEF BeingWritten
<1> QED
  BY <1>6, <1>7, <1>8, <1>9

LEMMA PersistFailsKeeps ==
    ASSUME IInv, NEW n \in DOMAIN jobs, PersistFails(n)
    PROVE  IInv'
<1> USE DEF IInv
<1> DEFINE c == jobs[n].for
<1>1. /\ jobs' = Without(jobs, n) /\ UNCHANGED <<yaml, disk, retired>>
      /\ c = Nobody => UNCHANGED <<life, mem, gate, call>>
      /\ c # Nobody => End(c, FALSE, mem)
  BY DEF PersistFails
<1>2. jobs[n] \in JobRecords /\ c \in Everyone \union {Nobody}
  BY JobsType DEF JobRecords
<1>3. /\ jobs' \in [DOMAIN jobs' -> JobRecords] /\ DOMAIN jobs' = DOMAIN jobs \ {n}
      /\ \A k \in DOMAIN jobs' : jobs'[k] = jobs[k]
  BY <1>1, JobsType DEF Without
<1>4. CASE c = Nobody
  <2>1. TypeInv'
    BY <1>1, <1>3, <1>4 DEF TypeInv
  <2>2. CallsInv'
    BY <1>1, <1>3, <1>4, NoCallMoves
  <2>3. AuditInv'
    BY <1>1, <1>4, AuditFrame
  <2>4. ContentsStay
    BY <1>1, <1>3, <1>4 DEF ContentsStay
  <2>5. EditsInv'
    BY <1>1, <1>3, <1>4, <2>1, <2>4, SameFiles DEF BeingWritten
  <2> QED
    BY <2>1, <2>2, <2>3, <2>5
<1>5. CASE c # Nobody
  <2>1. c \in Everyone /\ call[c].at = "stage" /\ call[c].number = n
    BY <1>2, <1>5 DEF CallsInv, JobKnowsItsCall
  <2>2. \A k \in DOMAIN jobs' : jobs[k].for # c
    BY <1>3, <1>5, <2>1 DEF CallsInv, JobKnowsItsCall
  <2>3. mem \in Memories /\ disk' \in Disks /\ disk' = disk
    BY <1>1 DEF TypeInv
  <2> HIDE DEF c
  <2> QED
    BY <1>1, <1>3, <1>5, <2>1, <2>2, <2>3, EndKeepsFiles
<1> QED
  BY <1>4, <1>5

-----------------------------------------------------------------------------
(***************************************************************************)
(* Each step keeps the invariant: activations.                             *)
(***************************************************************************)
\* An activation begins with the pointer, in memory only.
LEMMA BeginActivationKeeps ==
    ASSUME IInv, NEW c \in Everyone, NEW op, NEW n \in Numbers, BeginActivation(c, op, n),
           disk' \in Disks, disk'.files = disk.files, disk'.audit = disk.audit,
           disk'.state = disk.state \/ Written(disk'.state),
           UNCHANGED <<yaml, life, gate, jobs, retired>>,
           \/ call[c].at = "mark" /\ op = call[c].op
           \/ c # Boot /\ life # "created" /\ op = "activate" /\ call[c] = Idle
    PROVE  IInv'
<1> USE DEF IInv
<1> DEFINE r == [Idle EXCEPT !.op = op, !.at = "append", !.number = n, !.from = mem.active]
<1>1. mem' = [mem EXCEPT !.active = n] /\ call' = [call EXCEPT ![c] = r]
  BY DEF BeginActivation, Flipped, WithCall
<1>2. /\ mem' \in Memories /\ mem'.next = mem.next /\ mem'.hash = mem.hash
      /\ mem'.trail = mem.trail
  BY <1>1 DEF TypeInv, Memories
<1>3. op \in {"none", "init", "reload", "activate"} /\ mem.active \in {0} \union Numbers
  BY DEF TypeInv, OpenCalls, Memories
<1>4. /\ r \in OpenCalls /\ r.op = op /\ r.at = "append" /\ r.number = n
      /\ r.snap = None /\ r.behind = None
  BY <1>3 DEF OpenCalls, Idle
<1> HIDE DEF r
<1>5. TypeInv'
  BY <1>1, <1>2, <1>4 DEF TypeInv
<1>6. CallsInv'
  <2>1. \A k \in DOMAIN jobs : jobs[k].for # c
    BY NoJobOf, CallTypes
  <2> QED
    BY <1>1, <1>4, <2>1, OneCallMoves
<1>7. \A d \in Everyone : \/ call'[d] = call[d]
                          \/ d = c /\ call'[d].at = "append" /\ call'[d].snap = None
  BY <1>1, <1>4 DEF TypeInv
<1>8. AuditInv'
  BY <1>2, <1>7, AuditFrame
<1>9. EditsInv'
  <2>1. life' # "created" \/ call'[Boot] # Idle => life # "created" \/ call[Boot] # Idle
    BY <1>7, CallTypes
  <2>2. ContentsStay
    BY <1>2, <1>7, <2>1 DEF ContentsStay
  <2> QED
    BY <1>2, <1>5, <2>2, SameFiles DEF BeingWritten
<1> QED
  BY <1>5, <1>6, <1>8, <1>9

LEMMA ActivateKeeps ==
    ASSUME IInv, NEW c \in Operators, Activate(c)
    PROVE  IInv'
<1>1. PICK n \in DOMAIN mem.versions : BeginActivation(c, "activate", n)
  BY DEF Activate
<1>2. n \in Numbers
  BY VersionsAreFunctions DEF IInv, TypeInv, Memories
<1>3. c \in Everyone /\ c # Boot
  BY OptionsAssumption DEF Everyone, Callers
<1>4. disk \in Disks
  BY DEF IInv, TypeInv
<1> QED
  BY <1>1, <1>2, <1>3, <1>4, BeginActivationKeeps DEF Activate

\* The line is in the file before the state: one more line, one more at the commit.
LEMMA AppendAuditLineKeeps ==
    ASSUME IInv, NEW c \in Everyone, AppendAuditLine(c)
    PROVE  IInv'
<1> USE DEF IInv
<1> DEFINE r == [call[c] EXCEPT !.at = "commit", !.snap = Snapshot(mem)]
           x == EntryOf(c)
<1>1. /\ call[c].at = "append" /\ UNCHANGED <<yaml, life, mem, gate, jobs, retired>>
      /\ disk' = [disk EXCEPT !.audit = Append(disk.audit, x)]
      /\ call' = [call EXCEPT ![c] = r]
  BY DEF AppendAuditLine, WithCall, EntryOf
<1>2. call[c] \in OpenCalls /\ CallKnowsItsOp(c) /\ x \in Entries
  <2>1. call[c] \in OpenCalls /\ CallKnowsItsOp(c)
    BY DEF TypeInv, CallsInv
  <2> QED
    BY <1>1, <2>1 DEF CallKnowsItsOp, OpenCalls, EntryOf, Entries
<1>3. /\ r \in OpenCalls /\ r.op = call[c].op /\ r.at = "commit" /\ r.number = call[c].number
      /\ r.from = call[c].from /\ r.snap = Snapshot(mem) /\ r.behind = call[c].behind
  <2>1. Snapshot(mem) \in Snapshots
    BY SnapshotType DEF TypeInv
  <2> QED
    BY <1>2, <2>1 DEF OpenCalls
<1>4. /\ disk' \in Disks /\ disk'.audit = Append(disk.audit, x)
      /\ disk'.files = disk.files /\ disk'.state = disk.state
  <2>1. Append(disk.audit, x) \in Seq(Entries)
    BY <1>2 DEF TypeInv, Disks
  <2> QED
    BY <1>1, <2>1 DEF TypeInv, Disks
<1> HIDE DEF r, x
<1>5. TypeInv'
  BY <1>1, <1>3, <1>4 DEF TypeInv
<1>6. CallsInv'
  <2>1. \A k \in DOMAIN jobs : jobs[k].for # c
    BY <1>1, NoJobOf
  <2> QED
    BY <1>1, <1>2, <1>3, <2>1, OneCallMoves, ZenonT(30) DEF CallKnowsItsOp
<1>7. call'[c] = r /\ \A d \in Everyone \ {c} : call'[d] = call[d]
  BY <1>1 DEF TypeInv
<1>8. AuditInv'
  <2> SUFFICES ASSUME NEW e \in Entries
               PROVE  /\ IsFiniteSet(Committing(e)')
                      /\ Occurrences(e, mem'.trail) + Cardinality(Committing(e)')
                           <= Occurrences(e, disk'.audit)
    BY DEF AuditInv
  <2>1. /\ IsFiniteSet(Committing(e))
        /\ Occurrences(e, mem.trail) + Cardinality(Committing(e)) <= Occurrences(e, disk.audit)
    BY DEF AuditInv
  <2>2. Cardinality(Committing(e)) \in Nat
    BY <2>1, FS_CardinalityType
  <2>3. Occurrences(e, mem.trail) \in Nat /\ Occurrences(e, disk.audit) \in Nat
    BY OccurrencesType DEF TypeInv, Memories, Disks
  <2>4. Occurrences(e, disk'.audit)
          = IF x = e THEN Occurrences(e, disk.audit) + 1 ELSE Occurrences(e, disk.audit)
    BY <1>2, <1>4, OccurrencesAfterAppend DEF TypeInv, Disks
  <2>5. CASE x = e
    <3>1. Committing(e)' = Committing(e) \union {c} /\ c \notin Committing(e)
      BY <1>1, <1>3, <1>7, <2>5 DEF Committing, EntryOf, x
    <3>2. IsFiniteSet(Committing(e)') /\ Cardinality(Committing(e)') = Cardinality(Committing(e)) + 1
      BY <2>1, <3>1, FS_AddElement
    <3> QED
      BY <1>1, <2>1, <2>2, <2>3, <2>4, <2>5, <3>2
  <2>6. CASE x # e
    <3>1. Committing(e)' = Committing(e)
      BY <1>1, <1>3, <1>7, <2>6 DEF Committing, EntryOf, x
    <3> QED
      BY <1>1, <2>1, <2>4, <2>6, <3>1
  <2> QED
    BY <2>5, <2>6
<1>9. EditsInv'
  <2>1. life' # "created" \/ call'[Boot] # Idle => life # "created" \/ call[Boot] # Idle
    BY <1>1, <1>7, CallTypes
  <2>2. ContentsStay
    BY <1>1, <1>3, <1>4, <1>7, <2>1 DEF ContentsStay
  <2> QED
    BY <1>1, <1>4, <1>5, <2>2, SameFiles DEF BeingWritten
<1> QED
  BY <1>5, <1>6, <1>8, <1>9

\* The call that returns was one of those at the commit: its line pays for the entry.
LEMMA CommitActivationKeeps ==
    ASSUME IInv, NEW c \in Everyone, CommitActivation(c)
    PROVE  IInv'
<1> USE DEF IInv
<1> DEFINE x == EntryOf(c)
           m == [mem EXCEPT !.trail = Append(mem.trail, x)]
<1>1. /\ call[c].at = "commit" /\ disk' = [disk EXCEPT !.state = call[c].snap]
      /\ End(c, TRUE, m) /\ UNCHANGED <<yaml, jobs, retired>>
  BY DEF CommitActivation, EntryOf
<1>2. call[c] \in OpenCalls /\ x \in Entries
  <2>1. call[c] \in OpenCalls /\ CallKnowsItsOp(c)
    BY DEF TypeInv, CallsInv
  <2> QED
    BY <1>1, <2>1 DEF CallKnowsItsOp, OpenCalls, EntryOf, Entries
<1>3. /\ disk' \in Disks /\ disk'.audit = disk.audit /\ disk'.files = disk.files
      /\ Written(disk'.state)
  BY <1>1, <1>2 DEF TypeInv, Disks, OpenCalls, Written
<1>4. /\ m \in Memories /\ m.next = mem.next /\ m.hash = mem.hash
      /\ m.trail = Append(mem.trail, x)
  <2>1. Append(mem.trail, x) \in Seq(Entries)
    BY <1>2 DEF TypeInv, Memories
  <2> QED
    BY <2>1 DEF TypeInv, Memories
<1> HIDE DEF m, x
<1>5. \A k \in DOMAIN jobs : jobs[k].for # c
  BY <1>1, NoJobOf
<1>6. jobs \in [DOMAIN jobs -> JobRecords]
  BY DEF TypeInv
<1>7. TypeInv' /\ CallsInv' /\ EditsInv' /\ Ended(c, TRUE, m)
  BY <1>1, <1>3, <1>4, <1>5, <1>6, EndKeepsFiles
<1>8. AuditInv'
  <2> SUFFICES ASSUME NEW e \in Entries
               PROVE  /\ IsFiniteSet(Committing(e)')
                      /\ Occurrences(e, mem'.trail) + Cardinality(Committing(e)')
                           <= Occurrences(e, disk'.audit)
    BY DEF AuditInv
  <2>1. /\ IsFiniteSet(Committing(e))
        /\ Occurrences(e, mem.trail) + Cardinality(Committing(e)) <= Occurrences(e, disk.audit)
    BY DEF AuditInv
  <2>2. Cardinality(Committing(e)) \in Nat
    BY <2>1, FS_CardinalityType
  <2>3. Occurrences(e, mem.trail) \in Nat /\ Occurrences(e, disk.audit) \in Nat
    BY OccurrencesType DEF TypeInv, Memories, Disks
  <2>4. mem' = m
    BY <1>7 DEF Ended
  <2>5. Occurrences(e, mem'.trail)
          = IF x = e THEN Occurrences(e, mem.trail) + 1 ELSE Occurrences(e, mem.trail)
    <3>1. mem.trail \in Seq(Entries)
      BY DEF TypeInv, Memories
    <3>2. mem'.trail = Append(mem.trail, x)
      BY <1>4, <2>4
    <3>3. Occurrences(e, Append(mem.trail, x))
            = IF x = e THEN Occurrences(e, mem.trail) + 1 ELSE Occurrences(e, mem.trail)
      BY <1>2, <3>1, OccurrencesAfterAppend
    <3> QED
      BY <3>2, <3>3
  <2>6. Committing(e)' \in SUBSET (Committing(e) \ {c})
    BY <1>7, CallTypes DEF Ended, Committing, EntryOf
  <2>7. /\ IsFiniteSet(Committing(e) \ {c})
        /\ Cardinality(Committing(e) \ {c})
             = IF c \in Committing(e) THEN Cardinality(Committing(e)) - 1
                                      ELSE Cardinality(Committing(e))
    BY <2>1, FS_RemoveElement
  <2>8. /\ IsFiniteSet(Committing(e)') /\ Cardinality(Committing(e)') \in Nat
        /\ Cardinality(Committing(e)') <= Cardinality(Committing(e) \ {c})
    BY <2>6, <2>7, FS_Subset, FS_CardinalityType
  <2>9. x = e => c \in Committing(e)
    BY <1>1 DEF Committing, x
  <2> QED
    BY <1>3, <2>1, <2>2, <2>3, <2>5, <2>7, <2>8, <2>9
<1> QED
  BY <1>7, <1>8

LEMMA ActivationFailsKeeps ==
    ASSUME IInv, NEW c \in Everyone, ActivationFails(c)
    PROVE  IInv'
<1> USE DEF IInv
<1> DEFINE m == [mem EXCEPT !.active = call[c].from]
<1>1. /\ call[c].at \in {"append", "commit"} /\ End(c, FALSE, m)
      /\ UNCHANGED <<yaml, disk, jobs, retired>>
  BY DEF ActivationFails
<1>2. /\ m \in Memories /\ m.next = mem.next /\ m.hash = mem.hash /\ m.trail = mem.trail
  BY DEF TypeInv, Memories, OpenCalls
<1> HIDE DEF m
<1>3. \A k \in DOMAIN jobs : jobs[k].for # c
  BY <1>1, NoJobOf
<1>4. jobs \in [DOMAIN jobs -> JobRecords] /\ disk \in Disks
  BY DEF TypeInv
<1> QED
  BY <1>1, <1>2, <1>3, <1>4, EndKeepsFiles

-----------------------------------------------------------------------------
(***************************************************************************)
(* Each step keeps the invariant: reloads.                                 *)
(***************************************************************************)
\* A call that goes on without touching memory, disk or jobs.
LEMMA CallGoesOn ==
    ASSUME IInv, NEW c \in Everyone, NEW r \in OpenCalls, call' = [call EXCEPT ![c] = r],
           gate' \in Callers \union {None},
           UNCHANGED <<yaml, life, mem, disk, jobs, retired>>,
           \/ call[c].at = "drain" /\ c # Boot /\ r.op = call[c].op
           \/ c # Boot /\ life # "created" /\ r.op = "reload" /\ call[c] = Idle,
           r.op = "reload", r.snap = call[c].snap \/ r.snap = None,
           r.at \in {"queued", "drain", "read"},
           r.behind # None => r.at = "queued"
    PROVE  IInv'
<1> USE DEF IInv
<1>1. TypeInv'
  BY DEF TypeInv
<1>2. \A d \in Everyone : call'[d] = call[d] \/ (d = c /\ call'[d] = r)
  BY DEF TypeInv
<1>3. CallsInv'
  <2>1. \A k \in DOMAIN jobs : jobs[k].for # c
    BY NoJobOf, CallTypes
  <2> QED
    BY <2>1, OneCallMoves
<1>4. AuditInv'
  BY <1>2, AuditFrame
<1>5. EditsInv'
  <2>1. ContentsStay
    BY <1>2, CallTypes DEF ContentsStay
  <2> QED
    BY <1>1, <2>1, SameFiles DEF BeingWritten
<1> QED
  BY <1>1, <1>3, <1>4, <1>5

LEMMA ReloadKeeps ==
    ASSUME IInv, NEW c \in Reloaders, Reload(c)
    PROVE  IInv'
<1>1. c \in Everyone /\ c \in Callers /\ c # Boot
  BY OptionsAssumption DEF Everyone, Callers
<1>2. /\ life # "created" /\ call[c] = Idle /\ UNCHANGED <<yaml, life, mem, disk, jobs, retired>>
  BY DEF Reload
<1>3. CASE gate = None
  <2>1. gate' = c /\ call' = [call EXCEPT ![c] = Resumed]
    BY <1>3 DEF Reload, WithCall, Resumed
  <2> QED
    BY <1>1, <1>2, <2>1, CallTypes, CallGoesOn
<1>4. CASE gate # None
  <2> DEFINE r == [Idle EXCEPT !.op = "reload", !.at = "queued", !.behind = gate]
  <2>1. gate' = gate /\ call' = [call EXCEPT ![c] = r]
    BY <1>4 DEF Reload, WithCall
  <2>2. gate \in Callers \union {None}
    BY DEF IInv, TypeInv
  <2>3. r \in OpenCalls /\ r.op = "reload" /\ r.at = "queued" /\ r.snap = None
    BY <2>2 DEF Idle, OpenCalls
  <2> HIDE DEF r
  <2> QED
    BY <1>1, <1>2, <2>1, <2>2, <2>3, CallGoesOn
<1> QED
  BY <1>3, <1>4

LEMMA DrainKeeps ==
    ASSUME IInv, NEW c \in Everyone, Drain(c)
    PROVE  IInv'
<1> USE DEF IInv
<1>1. call[c].at = "drain" /\ UNCHANGED <<yaml, disk, jobs, retired>>
  BY DEF Drain
<1>2. call[c] \in OpenCalls /\ CallKnowsItsOp(c)
  BY DEF TypeInv, CallsInv
<1>3. call[c].op = "reload" /\ c # Boot /\ call[c].behind = None
  BY <1>1, <1>2 DEF CallKnowsItsOp
<1>4. CASE life = "running"
  <2> DEFINE r == [call[c] EXCEPT !.at = "read"]
  <2>1. call' = [call EXCEPT ![c] = r] /\ UNCHANGED <<life, mem, gate>>
    BY <1>4 DEF Drain, WithCall
  <2>2. r \in OpenCalls /\ r.op = call[c].op /\ r.at = "read" /\ r.snap = call[c].snap
        /\ r.behind = call[c].behind
    BY <1>2 DEF OpenCalls
  <2>3. gate' \in Callers \union {None}
    BY <2>1 DEF TypeInv
  <2> HIDE DEF r
  <2> QED
    BY <1>1, <1>3, <2>1, <2>2, <2>3, CallGoesOn
<1>5. CASE life # "running"
  <2>1. End(c, FALSE, mem)
    BY <1>5 DEF Drain
  <2>2. \A k \in DOMAIN jobs : jobs[k].for # c
    BY <1>1, NoJobOf
  <2>3. jobs \in [DOMAIN jobs -> JobRecords] /\ disk \in Disks /\ mem \in Memories
    BY DEF TypeInv
  <2> QED
    BY <1>1, <2>1, <2>2, <2>3, EndKeepsFiles
<1> QED
  BY <1>4, <1>5

LEMMA ReadKeeps ==
    ASSUME IInv, NEW c \in Everyone, Read(c)
    PROVE  IInv'
<1> USE DEF IInv
<1>1. call[c].at = "read" /\ UNCHANGED <<yaml, disk, retired>>
  BY DEF Read
<1>2. call[c] \in OpenCalls /\ CallKnowsItsOp(c)
  BY DEF TypeInv, CallsInv
<1>3. call[c].op = "reload" /\ c # Boot /\ call[c].behind = None /\ c \in Callers
  BY <1>1, <1>2 DEF CallKnowsItsOp, Everyone
<1>4. ASSUME NEW ok \in BOOLEAN, End(c, ok, mem), UNCHANGED jobs
      PROVE  IInv'
  <2>1. \A k \in DOMAIN jobs : jobs[k].for # c
    BY <1>1, NoJobOf
  <2>2. jobs \in [DOMAIN jobs -> JobRecords] /\ disk \in Disks /\ mem \in Memories
    BY DEF TypeInv
  <2> QED
    BY <1>1, <1>4, <2>1, <2>2, EndKeepsFiles
<1>5. CASE /\ yaml \in Contents \ {mem.hash} /\ mem.next <= VersionBound
           /\ mem' = Loaded(mem, yaml)
           /\ jobs' = Put(jobs, mem.next, Job(c, yaml))
           /\ WithCall(c, [call[c] EXCEPT !.at = "stage", !.number = mem.next])
           /\ UNCHANGED <<life, gate>>
  <2> DEFINE r == [call[c] EXCEPT !.at = "stage", !.number = mem.next]
  <2>1. /\ mem' \in Memories /\ mem'.next = mem.next + 1 /\ mem'.hash = mem.hash
        /\ mem'.trail = mem.trail /\ mem.next \in Numbers /\ mem.next \in Nat
    BY <1>5, StagedMemory, Bounds DEF TypeInv, Loaded
  <2>2. /\ r \in OpenCalls /\ r.op = "reload" /\ r.at = "stage" /\ r.number = mem.next
        /\ r.snap = call[c].snap /\ r.behind = None
    BY <1>2, <1>3, <2>1 DEF OpenCalls
  <2>3. call' = [call EXCEPT ![c] = r]
    BY <1>5 DEF WithCall
  <2> HIDE DEF r
  <2>4. /\ jobs' \in [DOMAIN jobs' -> JobRecords]
        /\ DOMAIN jobs' = DOMAIN jobs \union {mem.next}
        /\ jobs'[mem.next] = Job(c, yaml)
        /\ \A n \in DOMAIN jobs : n # mem.next /\ jobs'[n] = jobs[n]
    <3>1. /\ jobs' \in [DOMAIN jobs \union {mem.next} -> JobRecords]
          /\ DOMAIN jobs' = DOMAIN jobs \union {mem.next}
      BY <1>5, JobsType, NewJob
    <3>2. \A n \in DOMAIN jobs : n # mem.next
      BY <2>1, JobsType
    <3> QED
      BY <1>5, <3>1, <3>2 DEF Put
  <2>5. TypeInv'
    <3>1. DOMAIN jobs' \subseteq 1 .. mem'.next - 1
      BY <2>1, <2>4, JobsType DEF TypeInv
    <3>2. call' \in [Everyone -> OpenCalls]
      BY <2>2, <2>3 DEF TypeInv
    <3> QED
      BY <1>1, <1>5, <2>1, <2>4, <3>1, <3>2 DEF TypeInv
  <2>6. CallsInv'
    <3>1. \A k \in DOMAIN jobs : jobs[k].for # c
      BY <1>1, NoJobOf
    <3>2. \A k \in DOMAIN jobs' :
            \/ k \in DOMAIN jobs /\ jobs'[k].for = jobs[k].for /\ jobs[k].for # c
            \/ jobs'[k].for = c /\ r.at = "stage" /\ r.number = k
      BY <1>5, <2>2, <2>4, <3>1, NewJob
    <3>3. r.number \in Numbers
      BY <2>1, <2>2
    <3> QED
      BY <1>1, <1>3, <1>5, <2>2, <2>3, <3>2, <3>3, OneCallMoves, ZenonT(30)
  <2>7. \A d \in Everyone : \/ call'[d] = call[d]
                            \/ d = c /\ call'[d].at = "stage" /\ call'[d].snap = call[d].snap
    BY <2>2, <2>3 DEF TypeInv
  <2>8. AuditInv'
    BY <1>1, <2>1, <2>7, AuditFrame
  <2>9. EditsInv'
    <3>1. FilesStay(mem.next)
      <4>1. \A m \in DOMAIN disk.files : m < mem.next /\ ~BeingWritten(m) => ~BeingWritten(m)'
        BY <2>1, <2>4 DEF BeingWritten
      <4> QED
        BY <1>1, <4>1 DEF FilesStay
    <3>2. \A n \in DOMAIN jobs' :
            \/ jobs'[n].at = "file" /\ jobs'[n].snap = None
            \/ n \in DOMAIN jobs /\ jobs'[n] = jobs[n]
      BY <1>5, <2>4, NewJob
    <3>3. life # "created"
      BY <1>1, <1>3, CallTypes DEF CallsInv, BootIsAlone
    <3>4. ContentsStay
      BY <1>1, <2>1, <2>7, <3>2, <3>3 DEF ContentsStay
    <3>5. disk.state # None => disk.state.next <= mem.next
      BY <3>3 DEF EditsInv
    <3> QED
      BY <2>1, <2>5, <3>1, <3>4, <3>5, EditsFrame
  <2> QED
    BY <2>5, <2>6, <2>8, <2>9
<1> QED
  BY <1>4, <1>5 DEF Read

\* The content is on disk and now recorded; the activation begins, or the call is over.
LEMMA MarkLoadedKeeps ==
    ASSUME IInv, NEW c \in Everyone, MarkLoaded(c)
    PROVE  IInv'
<1> USE DEF IInv
<1>1. /\ call[c].at = "mark" /\ disk' = [disk EXCEPT !.state = call[c].snap]
      /\ UNCHANGED <<yaml, jobs, retired>>
  BY DEF MarkLoaded
<1>2. call[c] \in OpenCalls /\ CallKnowsItsOp(c)
  BY DEF TypeInv, CallsInv
<1>3. /\ disk' \in Disks /\ disk'.audit = disk.audit /\ disk'.files = disk.files
      /\ Written(disk'.state)
  BY <1>1, <1>2 DEF TypeInv, Disks, OpenCalls, Written
<1>4. CASE AutoActivate
  <2>1. BeginActivation(c, call[c].op, call[c].number) /\ UNCHANGED <<life, gate>>
    BY <1>4 DEF MarkLoaded
  <2>2. call[c].number \in Numbers
    BY <1>1, <1>2 DEF CallKnowsItsOp
  <2> QED
    BY <1>1, <1>3, <2>1, <2>2, BeginActivationKeeps
<1>5. CASE ~AutoActivate
  <2>1. End(c, TRUE, mem)
    BY <1>5 DEF MarkLoaded
  <2>2. \A k \in DOMAIN jobs : jobs[k].for # c
    BY <1>1, NoJobOf
  <2>3. jobs \in [DOMAIN jobs -> JobRecords] /\ mem \in Memories
    BY DEF TypeInv
  <2> QED
    BY <1>1, <1>3, <2>1, <2>2, <2>3, EndKeepsFiles
<1> QED
  BY <1>4, <1>5

LEMMA MarkFailsKeeps ==
    ASSUME IInv, NEW c \in Everyone, MarkFails(c)
    PROVE  IInv'
<1> USE DEF IInv
<1>1. call[c].at = "mark" /\ End(c, FALSE, mem) /\ UNCHANGED <<yaml, disk, jobs, retired>>
  BY DEF MarkFails
<1>2. \A k \in DOMAIN jobs : jobs[k].for # c
  BY <1>1, NoJobOf
<1>3. jobs \in [DOMAIN jobs -> JobRecords] /\ disk \in Disks /\ mem \in Memories
  BY DEF TypeInv
<1> QED
  BY <1>1, <1>2, <1>3, EndKeepsFiles

-----------------------------------------------------------------------------
(***************************************************************************)
(* Each step keeps the invariant: the process and the file.                *)
(***************************************************************************)
\* Before init nothing is going on.
LEMMA NothingBeforeInit ==
    ASSUME CallsInv, life = "created", call[Boot] = Idle
    PROVE  DOMAIN jobs = {} /\ \A c \in Everyone : call[c] = Idle
<1>1. \A c \in Everyone : call[c] = Idle
  BY DEF CallsInv, BootIsAlone, Everyone
<1>2. \A n \in DOMAIN jobs : jobs[n].for = Boot /\ call[Boot].at = "stage"
  BY CallTypes DEF CallsInv, BootIsAlone, JobKnowsItsCall
<1> QED
  BY <1>1, <1>2, CallTypes

\* Nobody is at the commit, and memory has the trail of the file, or none.
LEMMA AuditOfQuietProcess ==
    ASSUME disk' \in Disks, \A c \in Everyone : call'[c].at # "commit",
           mem'.trail = disk'.audit \/ mem'.trail = <<>>
    PROVE  AuditInv'
<1> SUFFICES ASSUME NEW e \in Entries
             PROVE  /\ IsFiniteSet(Committing(e)')
                    /\ Occurrences(e, mem'.trail) + Cardinality(Committing(e)')
                         <= Occurrences(e, disk'.audit)
  BY DEF AuditInv
<1>1. Committing(e)' = {}
  BY DEF Committing
<1>2. IsFiniteSet(Committing(e)') /\ Cardinality(Committing(e)') = 0
  BY <1>1, FS_EmptySet
<1>3. Occurrences(e, disk'.audit) \in Nat
  BY OccurrencesType DEF Disks
<1>4. Occurrences(e, mem'.trail) <= Occurrences(e, disk'.audit)
      /\ Occurrences(e, mem'.trail) \in Nat
  BY <1>3, OccurrencesInNothing
<1> QED
  BY <1>2, <1>3, <1>4

LEMMA StartKeeps == ASSUME IInv, Start PROVE IInv'
<1> USE DEF IInv
<1> DEFINE r == [Idle EXCEPT !.op = "init", !.at = "stage", !.number = Restored.next]
<1>1. /\ life = "created" /\ call[Boot] = Idle /\ yaml \in Contents
      /\ UNCHANGED <<yaml, disk, gate, retired>>
  BY DEF Start, Restorable, TypeInv
<1>2. DOMAIN jobs = {} /\ \A c \in Everyone : call[c] = Idle
  BY <1>1, NothingBeforeInit
<1>3. /\ Restored \in Memories /\ Restored.next \in Nat
      /\ Restored.next \in 1 .. VersionBound + 1
      /\ Restored.trail = disk.audit \/ Restored.trail = <<>>
      /\ disk.state # None => Restored.next = disk.state.next
      /\ Restored.hash # None => disk.state # None /\ Restored.hash = disk.state.hash
  BY RestoredMemory, Bounds DEF TypeInv, Memories, Blank
<1>4. disk \in Disks /\ call \in [Everyone -> OpenCalls]
  BY DEF TypeInv
<1>5. Restored.hash # None => Kept(Restored.hash, Restored.next)
  BY <1>3 DEF EditsInv, SnapshotKept
<1> HIDE DEF r
<1>6. CASE yaml = Restored.hash
  <2>1. life' = "running" /\ mem' = Restored /\ UNCHANGED <<call, jobs>>
    BY <1>6 DEF Start
  <2>2. TypeInv'
    BY <1>1, <1>2, <1>3, <2>1 DEF TypeInv
  <2>3. CallsInv'
    <3>1. \A c \in Everyone : CallKnowsItsOp(c)'
      BY <1>2, <2>1, CallTypes DEF CallKnowsItsOp
    <3> QED
      BY <1>2, <2>1, <3>1 DEF CallsInv, BootIsAlone
  <2>4. AuditInv'
    BY <1>1, <1>2, <1>3, <1>4, <2>1, CallTypes, AuditOfQuietProcess
  <2>5. EditsInv'
    <3>1. \A h, k : Kept(h, k) => Kept(h, k)'
      BY <1>1, <2>1 DEF Kept, BeingWritten
    <3>2. SnapshotKept(mem)'
      BY <1>5, <2>1, <3>1 DEF SnapshotKept, Kept, BeingWritten
    <3>3. disk.state # None => SnapshotKept(disk.state)'
      BY <1>1, <3>1 DEF EditsInv, SnapshotKept
    <3>4. disk.state # None => disk.state.next <= mem'.next
      BY <1>3, <2>1
    <3> QED
      BY <1>1, <1>2, <2>1, <3>2, <3>3, <3>4, CallTypes DEF EditsInv, Issued
  <2> QED
    BY <2>2, <2>3, <2>4, <2>5
<1>7. CASE yaml # Restored.hash
  <2>1. /\ Restored.next <= VersionBound /\ mem' = Staged(Restored, yaml)
        /\ jobs' = Put(jobs, Restored.next, Job(Boot, yaml))
        /\ call' = [call EXCEPT ![Boot] = r] /\ life' = "created"
    BY <1>1, <1>7 DEF Start, Loaded, WithCall, r
  <2>2. /\ mem' \in Memories /\ mem'.next = Restored.next + 1 /\ mem'.hash = Restored.hash
        /\ mem'.trail = Restored.trail /\ Restored.next \in Numbers
    BY <1>1, <1>3, <2>1, StagedMemory
  <2>3. /\ r \in OpenCalls /\ r.op = "init" /\ r.at = "stage" /\ r.number = Restored.next
        /\ r.snap = None /\ r.behind = None
    BY <2>2 DEF r, Idle, OpenCalls
  <2>4. /\ jobs' \in [DOMAIN jobs' -> JobRecords]
        /\ DOMAIN jobs' = {Restored.next} /\ jobs'[Restored.next] = Job(Boot, yaml)
    <3>1. Job(Boot, yaml) \in JobRecords
      BY <1>1, CallTypes, NewJob
    <3>2. /\ jobs' \in [DOMAIN jobs \union {Restored.next} -> JobRecords]
          /\ DOMAIN jobs' = DOMAIN jobs \union {Restored.next}
      BY <2>1, <3>1, JobsType
    <3> QED
      BY <1>2, <2>1, <3>2 DEF Put
  <2>5. TypeInv'
    <3>1. DOMAIN jobs' \subseteq 1 .. mem'.next - 1
      BY <1>3, <2>2, <2>4
    <3>2. call' \in [Everyone -> OpenCalls]
      BY <1>4, <2>1, <2>3
    <3> QED
      BY <1>1, <2>1, <2>2, <2>4, <3>1, <3>2 DEF TypeInv
  <2>6. call'[Boot] = r /\ \A c \in Everyone \ {Boot} : call'[c] = Idle
    BY <1>2, <1>4, <2>1, CallTypes
  <2>7. CallsInv'
    <3>1. \A c \in Everyone : CallKnowsItsOp(c)'
      BY <2>1, <2>2, <2>3, <2>6, CallTypes DEF CallKnowsItsOp
    <3>2. \A n \in DOMAIN jobs' : jobs'[n].for = Boot /\ n = Restored.next
      BY <1>1, <2>4, CallTypes, NewJob
    <3>3. \A n \in DOMAIN jobs' : JobKnowsItsCall(n)'
      BY <2>3, <2>6, <3>2 DEF JobKnowsItsCall
    <3>4. BootIsAlone'
      BY <2>6, <3>2, CallTypes DEF BootIsAlone, Everyone
    <3> QED
      BY <3>1, <3>3, <3>4 DEF CallsInv
  <2>8. AuditInv'
    <3>1. \A c \in Everyone : call'[c].at # "commit"
      BY <2>3, <2>6, CallTypes
    <3> QED
      BY <1>1, <1>3, <1>4, <2>2, <3>1, AuditOfQuietProcess
  <2>9. EditsInv'
    <3>1. FilesStay(Restored.next)
      <4>1. \A m \in DOMAIN disk.files : m < Restored.next => m \notin DOMAIN jobs'
        BY <1>3, <2>4
      <4> QED
        BY <1>1, <4>1 DEF FilesStay, BeingWritten
    <3>2. SnapshotKept(mem)'
      <4>1. mem'.hash # None => KeptThen(mem'.hash, mem'.next)
        BY <1>3, <1>4, <1>5, <2>2, <3>1, KeptStays
      <4> QED
        BY <4>1 DEF SnapshotKept, Kept, KeptThen
    <3>3. disk.state # None => SnapshotKept(disk.state)'
      <4>1. (disk.state # None /\ disk.state.hash # None)
              => KeptThen(disk.state.hash, disk.state.next)
        BY <1>3, <1>4, <3>1, KeptStays DEF EditsInv, SnapshotKept
      <4> QED
        BY <1>1, <4>1 DEF SnapshotKept, Kept, KeptThen
    <3>4. disk.state # None => disk.state.next <= mem'.next
      BY <1>3, <2>2
    <3>5. \A c \in Everyone : call'[c].snap = None
      BY <2>3, <2>6, CallTypes
    <3>6. \A n \in DOMAIN jobs' : jobs'[n].at = "file" /\ jobs'[n].snap = None
      BY <1>1, <2>4, CallTypes, NewJob
    <3> QED
      BY <1>1, <3>2, <3>3, <3>4, <3>5, <3>6 DEF EditsInv, Issued
  <2> QED
    BY <2>5, <2>7, <2>8, <2>9
<1> QED
  BY <1>6, <1>7

LEMMA ShutdownKeeps == ASSUME IInv, Shutdown PROVE IInv'
<1> USE DEF IInv
<1>1. life = "running" /\ life' = "shut_down" /\ UNCHANGED <<yaml, mem, disk, gate, call, jobs, retired>>
  BY DEF Shutdown
<1>2. TypeInv'
  BY <1>1 DEF TypeInv
<1>3. CallsInv'
  BY <1>1 DEF CallsInv, CallKnowsItsOp, JobKnowsItsCall, BootIsAlone
<1>4. AuditInv'
  BY <1>1, AuditFrame
<1>5. EditsInv'
  BY <1>1 DEF EditsInv, SnapshotKept, Issued, Kept, BeingWritten
<1> QED
  BY <1>2, <1>3, <1>4, <1>5

LEMMA CrashKeeps == ASSUME IInv, Crash PROVE IInv'
<1> USE DEF IInv
<1>1. /\ life' = "created" /\ mem' = Blank /\ gate' = None /\ jobs' = <<>>
      /\ call' = [c \in Everyone |-> Idle] /\ UNCHANGED <<yaml, disk, retired>>
  BY DEF Crash, TypeInv
<1>2. DOMAIN jobs' = {} /\ jobs' \in [DOMAIN jobs' -> JobRecords]
  BY <1>1
<1>3. \A c \in Everyone : call'[c] = Idle
  BY <1>1
<1>4. disk \in Disks
  BY DEF TypeInv
<1>5. TypeInv'
  BY <1>1, <1>2, BlankMemory, CallTypes DEF TypeInv
<1>6. CallsInv'
  BY <1>2, <1>3, CallTypes DEF CallsInv, CallKnowsItsOp, BootIsAlone, Everyone
<1>7. AuditInv'
  BY <1>1, <1>3, <1>4, CallTypes, AuditOfQuietProcess DEF Blank
<1>8. EditsInv'
  BY <1>1, <1>2, <1>3, <1>4, EditsAfterCrash
<1> QED
  BY <1>5, <1>6, <1>7, <1>8

LEMMA OthersKeep ==
    ASSUME IInv, UNCHANGED <<life, mem, disk, gate, call, jobs, retired>>,
           yaml' \in Contents \union {Unreadable}
    PROVE  IInv'
<1> USE DEF IInv
<1>1. TypeInv'
  BY DEF TypeInv
<1>2. CallsInv'
  BY DEF CallsInv, CallKnowsItsOp, JobKnowsItsCall, BootIsAlone
<1>3. AuditInv'
  BY AuditFrame
<1>4. EditsInv'
  BY DEF EditsInv, SnapshotKept, Issued, Kept, BeingWritten
<1> QED
  BY <1>1, <1>2, <1>3, <1>4

-----------------------------------------------------------------------------
(***************************************************************************)
(* The theorems.                                                           *)
(***************************************************************************)
LEMMA InitInvariant == Init => IInv
<1> SUFFICES ASSUME Init
             PROVE  IInv
  OBVIOUS
<1>1. /\ DOMAIN jobs = {} /\ jobs \in [DOMAIN jobs -> JobRecords]
      /\ \A c \in Everyone : call[c] = Idle
      /\ life = "created" /\ mem = Blank /\ gate = None /\ retired = {}
      /\ call \in [Everyone -> OpenCalls] /\ yaml \in Contents \union {Unreadable}
  BY CallTypes DEF Init, Everyone
<1>2. disk \in Disks /\ disk.state = None /\ disk.audit = <<>>
  <2>1. <<>> \in Seq(Entries)
    OBVIOUS
  <2> QED
    BY <2>1, NoVersions DEF Init, Disks
<1>3. TypeInv
  BY <1>1, <1>2, BlankMemory DEF TypeInv
<1>4. CallsInv
  BY <1>1, CallTypes DEF CallsInv, CallKnowsItsOp, BootIsAlone, Everyone
<1>5. AuditInv
  <2> SUFFICES ASSUME NEW e \in Entries
               PROVE  /\ IsFiniteSet(Committing(e))
                      /\ Occurrences(e, mem.trail) + Cardinality(Committing(e))
                           <= Occurrences(e, disk.audit)
    BY DEF AuditInv
  <2>1. Committing(e) = {}
    BY <1>1, CallTypes DEF Committing
  <2> QED
    BY <1>1, <1>2, <2>1, FS_EmptySet, OccurrencesInNothing DEF Blank
<1>6. EditsInv
  BY <1>1, <1>2, CallTypes DEF EditsInv, SnapshotKept, Issued, Blank
<1> QED
  BY <1>3, <1>4, <1>5, <1>6 DEF IInv

LEMMA NextInvariant == IInv /\ [Next]_vars => IInv'
<1> SUFFICES ASSUME IInv, [Next]_vars
             PROVE  IInv'
  OBVIOUS
<1>1. ASSUME NEW n \in DOMAIN jobs, JobStep(n)
      PROVE  IInv'
  BY <1>1, WriteVersionFileKeeps, WriteVersionStateKeeps, RetireKeeps, PersistedKeeps,
     PersistFailsKeeps DEF JobStep
<1>2. ASSUME NEW c \in Everyone, CallStep(c)
      PROVE  IInv'
  BY <1>2, DrainKeeps, ReadKeeps, MarkLoadedKeeps, MarkFailsKeeps, AppendAuditLineKeeps,
     CommitActivationKeeps, ActivationFailsKeeps DEF CallStep
<1>3. CASE EditYaml
  BY <1>3, OthersKeep DEF EditYaml
<1>4. CASE UNCHANGED vars
  <2>1. yaml \in Contents \union {Unreadable}
    BY DEF IInv, TypeInv
  <2> QED
    BY <1>4, <2>1, OthersKeep DEF vars
<1> QED
  BY <1>1, <1>2, <1>3, <1>4, PreviewKeeps, ActivateKeeps, ReloadKeeps, StartKeeps,
     ShutdownKeeps, CrashKeeps DEF Next, Everyone

\* The invariant holds in every state the adapter can reach, crashes included.
THEOREM InvariantHolds == Spec => []IInv
  BY InitInvariant, NextInvariant, PTL DEF Spec

\* Every variable stays in its domain; in particular no version number is drawn twice
\* by one process.
THEOREM TypeCorrect == Spec => []TypeOK
<1>1. IInv => TypeOK
  <2> SUFFICES ASSUME IInv
               PROVE  TypeOK
    OBVIOUS
  <2> USE DEF IInv
  <2>1. Range(mem.trail) \union Range(disk.audit) \subseteq Entries
    <3>1. mem.trail \in Seq(Entries) /\ disk.audit \in Seq(Entries)
      BY DEF TypeInv, Memories, Disks
    <3> QED
      BY <3>1 DEF Range
  <2>2. \A c \in Everyone :
         /\ call[c].op \in {"none", "init", "reload", "activate"}
         /\ call[c].at \in {"idle", "queued", "drain", "read", "stage", "mark",
                            "append", "commit"}
         /\ call[c].number \in {0} \union Numbers /\ call[c].from \in {0} \union Numbers
         /\ call[c].snap \in Snapshots \union {None}
         /\ call[c].behind \in Callers \union {None}
    BY DEF TypeInv, OpenCalls
  <2>3. \A n \in DOMAIN jobs :
         /\ jobs[n].at \in {"file", "state", "retention"}
         /\ jobs[n].for \in Callers \union {Boot, Nobody}
         /\ jobs[n].content \in Contents /\ jobs[n].snap \in Snapshots \union {None}
         /\ jobs[n].candidates \subseteq Numbers /\ jobs[n].left \in Int
    BY JobsType DEF JobRecords, Everyone
  <2>4. /\ mem.versions \in Versions /\ disk.files \in Versions
        /\ mem.active \in {0} \union Numbers
        /\ mem.next \in 1 .. VersionBound + 1
        /\ mem.hash \in Contents \union {None}
        /\ disk.state \in Snapshots \union {None}
    BY DEF TypeInv, Memories, Disks
  <2> QED
    BY <2>1, <2>2, <2>3, <2>4 DEF TypeOK, TypeInv, Everyone
<1>2. QED
  BY <1>1, InvariantHolds, PTL

\* An activation that was acknowledged is in the audit file, as often as memory says, for
\* any number of calls that activate, reload, fail and crash in between.
THEOREM AuditedFirst == Spec => []AuditedBeforeAcknowledged
<1>1. IInv => AuditedBeforeAcknowledged
  <2> SUFFICES ASSUME IInv, NEW e \in Range(mem.trail)
               PROVE  Occurrences(e, mem.trail) <= Occurrences(e, disk.audit)
    BY DEF AuditedBeforeAcknowledged
  <2> USE DEF IInv
  <2>1. mem.trail \in Seq(Entries) /\ disk.audit \in Seq(Entries)
    BY DEF TypeInv, Memories, Disks
  <2>2. e \in Entries
    BY <2>1 DEF Range
  <2>3. /\ IsFiniteSet(Committing(e))
        /\ Occurrences(e, mem.trail) + Cardinality(Committing(e)) <= Occurrences(e, disk.audit)
    BY <2>2 DEF AuditInv
  <2>4. Cardinality(Committing(e)) \in Nat
    BY <2>3, FS_CardinalityType
  <2>5. Occurrences(e, mem.trail) \in Nat /\ Occurrences(e, disk.audit) \in Nat
    BY <2>1, OccurrencesType
  <2> QED
    BY <2>3, <2>4, <2>5
<1>2. QED
  BY <1>1, InvariantHolds, PTL

\* No edit of the file is lost, at any crash point: the content that state.json says was
\* loaded is in a version file, or was until retention removed it.
THEOREM EditsAreKept == Spec => []NoEditLost
<1>1. IInv => NoEditLost
  BY DEF IInv, EditsInv, SnapshotKept, Kept, NoEditLost, Range
<1>2. QED
  BY <1>1, InvariantHolds, PTL
=============================================================================
