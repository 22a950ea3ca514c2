---------------------------- MODULE ImageDirProofs ----------------------------
(***************************************************************************)
(* Type correctness of ImageDir, that index.json never names an incomplete *)
(* image, that state.json is truthful, that resumable .parts are kept and  *)
(* reports are true, and that ImageDir implements LayoutStore, for any     *)
(* processes, digests, manifests and bound on faults.                      *)
(***************************************************************************)
EXTENDS ImageDir, TLAPS

------------------------------------------------------------------------------
(* The inductive invariant                                                  *)

\* After StoreManifestBlob, until the deferred Release.
Working == {"mirror", "reconcile", "part", "clean", "ctrl", "mark", "connect",
            "download", "final", "layout", "index", "export"}

\* What process p may rely on. Only its holder is inside the lock; what it
\* remembers as committed is stored; the object it commits has been renamed;
\* and past the download everything is committed.
ProcSafe(p) ==
    /\ ~At(p, "idle") => mem[p].mfst \in Manifest
    /\ ~At(p, "idle") /\ ~At(p, "lock") => lock = p
    /\ mem[p].done \subseteq Stored
    /\ mem[p].pc \in Working => mblob[mem[p].mfst] = "good"
    /\ mem[p].pc \in {"part", "clean", "ctrl", "mark"} => mem[p].cur \in Digest
    /\ mem[p].pc \in {"ctrl", "mark"} => mem[p].cur \in Stored
    /\ mem[p].pc \in {"final", "layout", "index", "export"} =>
           Objects[mem[p].mfst] \subseteq mem[p].done
    /\ At(p, "index") => marker

\* Without media errors a blob in blobs/ is never anything but valid: only
\* verified .parts are renamed there.
NoBadBlob == \A d \in Digest : blob[d] # "bad"

Safe ==
    /\ \A p \in Proc : ProcSafe(p)
    /\ NoBadBlob
    /\ StateTruthful
    /\ IndexComplete

IInv == TypeOK /\ Safe
------------------------------------------------------------------------------
(* Lemmas                                                                   *)

\* Become changes the memory of one process and keeps its type.
LEMMA BecomeType ==
    ASSUME mem \in [Proc -> Memory], NEW p \in Proc, NEW m \in Memory, Become(p, m)
    PROVE  /\ mem' \in [Proc -> Memory]
           /\ mem'[p] = m
           /\ \A q \in Proc : q # p => mem'[q] = mem[q]
BY DEF Become

\* Idle is a memory.
LEMMA IdleType == Idle \in Memory
BY DEF Idle, Memory, Location, Empty

\* A step of process p that takes nothing away from the store, and the lock
\* from nobody else, leaves what the others rely on alone.
LEMMA OthersSafe ==
    ASSUME TypeOK, Safe, NEW p \in Proc, NEW m, Become(p, m),
           Stored \subseteq Stored',
           \A n \in Manifest : mblob[n] = "good" => mblob'[n] = "good",
           marker => marker',
           lock' = lock \/ lock \in {None, p},
           NEW q \in Proc, q # p
    PROVE  ProcSafe(q)'
<1>1. mem'[q] = mem[q]
    BY DEF Become, TypeOK
<1>2. ProcSafe(q)
    BY DEF Safe
<1>3. ~At(q, "idle") /\ ~At(q, "lock") => lock' = q
    BY <1>2, NoneAssumption DEF ProcSafe
<1>4. mem[q].pc \in Working => mem[q].mfst \in Manifest
    BY <1>2 DEF ProcSafe, At, Working
<1> QED
    BY <1>1, <1>2, <1>3, <1>4 DEF ProcSafe, At, Stored

\* Persist writes state.json truthfully if the memory is truthful.
LEMMA PersistSafe ==
    ASSUME TypeOK, StateTruthful, NEW p \in Proc, NEW m \in Memory, Persist(p, m),
           m.mfst \in Manifest, m.done \subseteq Stored, Stored \subseteq Stored'
    PROVE  /\ Become(p, [m EXCEPT !.recent = TRUE])
           /\ [m EXCEPT !.recent = TRUE] \in Memory
           /\ stateFile' \in State \cup {None}
           /\ faults' \in 0..MaxFaults
           /\ StateTruthful'
<1>1. [m EXCEPT !.recent = TRUE] \in Memory
    BY DEF Memory
<1>2. Snapshot(m) \in State /\ Snapshot(m).done = m.done
    BY DEF Snapshot, State, Memory
<1>3. stateFile' = stateFile \/ stateFile' = Snapshot(m)
    BY DEF Persist
<1>4. faults' \in 0..MaxFaults
    BY MaxFaultsAssumption DEF Persist, Fault, NoFault, TypeOK
<1>5. StateTruthful'
    BY <1>2, <1>3 DEF StateTruthful
<1> QED
    BY <1>1, <1>2, <1>3, <1>4, <1>5 DEF Persist, TypeOK

\* What is left to show of a step of process p: types, what p itself relies on
\* afterwards, and the facts about the directory.
LEMMA StepSafe ==
    ASSUME IInv, NEW p \in Proc, NEW m \in Memory, Become(p, m),
           Stored \subseteq Stored',
           \A n \in Manifest : mblob[n] = "good" => mblob'[n] = "good",
           marker => marker',
           lock' = lock \/ lock \in {None, p},
           mem'[p] = m => ProcSafe(p)',
           NoBadBlob', StateTruthful', IndexComplete'
    PROVE  Safe'
<1>1. ProcSafe(p)'
    BY BecomeType DEF IInv, TypeOK
<1>2. ASSUME NEW q \in Proc, q # p PROVE ProcSafe(q)'
    BY <1>2, OthersSafe DEF IInv
<1> QED
    BY <1>1, <1>2 DEF Safe

\* A step that leaves the directory itself alone.
LEMMA QuietStep ==
    ASSUME IInv, NEW p \in Proc, NEW m \in Memory, Become(p, m),
           UNCHANGED <<stateFile, files, layout>>,
           lock' \in Proc \cup {None},
           lock' = lock \/ lock \in {None, p},
           faults' \in 0..MaxFaults,
           mem'[p] = m => ProcSafe(p)'
    PROVE  IInv'
<1>1. TypeOK'
    BY BecomeType DEF IInv, TypeOK, files, layout
<1>2. Stored' = Stored /\ NoBadBlob' /\ StateTruthful' /\ IndexComplete'
    BY DEF IInv, Safe, NoBadBlob, StateTruthful, IndexComplete, Stored, files, layout
<1>3. Safe'
    BY <1>2, StepSafe DEF files, layout
<1> QED
    BY <1>1, <1>3 DEF IInv

\* A step of process p on the files of tmp/ and blobs/ only.
LEMMA FileStep ==
    ASSUME IInv, NEW p \in Proc, NEW m \in Memory, Become(p, m),
           UNCHANGED <<lock, stateFile, layout>>,
           blob' \in [Digest -> BlobContent], part' \in [Digest -> PartContent],
           ctrl' \in [Digest -> BOOLEAN], live' \in SUBSET Digest,
           faults' \in 0..MaxFaults,
           Stored \subseteq Stored', NoBadBlob',
           mem'[p] = m => ProcSafe(p)'
    PROVE  IInv'
<1>1. TypeOK'
    BY BecomeType DEF IInv, TypeOK, layout
<1>2. StateTruthful' /\ IndexComplete'
    BY DEF IInv, Safe, StateTruthful, IndexComplete, layout
<1>3. Safe'
    BY <1>2, StepSafe DEF layout
<1> QED
    BY <1>1, <1>3 DEF IInv

\* A step of process p that saves state.json and leaves blobs/ alone.
LEMMA PersistStep ==
    ASSUME IInv, NEW p \in Proc, NEW m \in Memory, Persist(p, m),
           m.mfst \in Manifest, m.done \subseteq Stored,
           UNCHANGED <<lock, blob, layout>>,
           part' \in [Digest -> PartContent],
           ctrl' \in [Digest -> BOOLEAN], live' \in SUBSET Digest,
           mem'[p] = [m EXCEPT !.recent = TRUE] => ProcSafe(p)'
    PROVE  IInv'
<1> DEFINE r == [m EXCEPT !.recent = TRUE]
<1>1. Stored' = Stored
    BY DEF Stored
<1>2. /\ Become(p, r)
      /\ r \in Memory
      /\ stateFile' \in State \cup {None}
      /\ faults' \in 0..MaxFaults
      /\ StateTruthful'
    BY <1>1, PersistSafe DEF IInv, Safe
<1>3. TypeOK'
    BY <1>2, BecomeType DEF IInv, TypeOK, layout
<1>4. NoBadBlob' /\ IndexComplete'
    BY <1>1 DEF IInv, Safe, NoBadBlob, IndexComplete, layout
<1>5. Safe'
    BY <1>1, <1>2, <1>4, StepSafe DEF layout
<1> QED
    BY <1>3, <1>5 DEF IInv

\* p only moves on, with the same files: it may as well from location a to b.
LEMMA GotoMemory ==
    ASSUME IInv, NEW p \in Proc, NEW l \in Location
    PROVE  [mem[p] EXCEPT !.pc = l] \in Memory
BY DEF IInv, TypeOK, Memory

------------------------------------------------------------------------------
(* Steps of Build                                                           *)

LEMMA StartSafe ==
    ASSUME IInv, NEW p \in Proc, NEW n \in Manifest, NEW v \in BOOLEAN, Start(p, n, v)
    PROVE  IInv'
<1> DEFINE m == [Idle EXCEPT !.pc = "lock", !.mfst = n, !.verify = v]
<1>1. m \in Memory
    BY DEF Idle, Memory, Location, Empty
<1>2. mem'[p] = m => ProcSafe(p)'
    BY DEF ProcSafe, At, Idle, Working
<1> QED
    BY <1>1, <1>2, QuietStep DEF Start, IInv, TypeOK

LEMMA LockImageDirSafe ==
    ASSUME IInv, NEW p \in Proc, LockImageDir(p)
    PROVE  IInv'
<1>1. CASE lock = None /\ lock' = p /\ Goto(p, "load")
    <2> DEFINE m == [mem[p] EXCEPT !.pc = "load"]
    <2>1. m \in Memory
        BY DEF IInv, TypeOK, Memory, Location
    <2>2. mem'[p] = m => ProcSafe(p)'
        BY <1>1 DEF LockImageDir, IInv, TypeOK, Safe, ProcSafe, At, Working, Memory, Stored, files
    <2> QED
        BY <1>1, <2>1, <2>2, QuietStep DEF Goto, LockImageDir, IInv, TypeOK
<1>2. CASE lock # None /\ UNCHANGED lock /\ Become(p, Idle)
    <2>1. mem'[p] = Idle => ProcSafe(p)'
        BY DEF ProcSafe, At, Idle, Working
    <2> QED
        BY <1>2, <2>1, IdleType, QuietStep DEF LockImageDir, IInv, TypeOK
<1> QED
    BY <1>1, <1>2 DEF LockImageDir

LEMMA BuildFailsSafe ==
    ASSUME IInv, NEW p \in Proc, BuildFails(p)
    PROVE  IInv'
<1>1. mem'[p] = Idle => ProcSafe(p)'
    BY DEF ProcSafe, At, Idle, Working
<1>2. lock = p
    BY DEF BuildFails, IInv, Safe, ProcSafe, At
<1>3. faults' \in 0..MaxFaults
    BY MaxFaultsAssumption DEF BuildFails, Fault, IInv, TypeOK
<1> QED
    BY <1>1, <1>2, <1>3, IdleType, QuietStep DEF BuildFails

LEMMA LoadStateSafe ==
    ASSUME IInv, NEW p \in Proc, LoadState(p)
    PROVE  IInv'
<1> DEFINE prev == IF Adoptable(stateFile, mem[p].mfst)
                   THEN [done |-> stateFile.done, blind |-> stateFile.blind]
                   ELSE Empty
           m == [mem[p] EXCEPT !.pc = "store", !.prev = prev]
<1>1. prev \in [done : SUBSET Digest, blind : SUBSET Digest]
    BY DEF Adoptable, IInv, TypeOK, State, Empty
<1>2. mem[p] \in Memory
    BY DEF IInv, TypeOK
<1>3. m \in Memory
    BY <1>1, <1>2 DEF Memory, Location
<1>4. mem'[p] = m => ProcSafe(p)'
    BY <1>2 DEF LoadState, IInv, Safe, ProcSafe, At, Working, Memory, Stored, files
<1> QED
    BY <1>3, <1>4, QuietStep DEF LoadState, IInv, TypeOK

LEMMA StoreManifestBlobSafe ==
    ASSUME IInv, NEW p \in Proc, StoreManifestBlob(p)
    PROVE  IInv'
<1> DEFINE n == mem[p].mfst
<1>1. mem[p] \in Memory /\ n \in Manifest /\ lock = p /\ mem[p].done \subseteq Stored
    BY DEF IInv, TypeOK, Safe, ProcSafe, StoreManifestBlob, At
<1>2. Stored' = Stored
    BY DEF StoreManifestBlob, files, Stored
<1>3. CASE Verified(mblob[n])
    <2> DEFINE m == [mem[p] EXCEPT !.pc = "reconcile", !.todo = Objects[n]]
    <2>1. m \in Memory
        BY <1>1, ObjectsAssumption DEF Memory, Location
    <2>2. Become(p, m) /\ UNCHANGED <<lock, stateFile, files, layout, faults>>
        BY <1>3 DEF StoreManifestBlob, layout
    <2>3. mem'[p] = m => ProcSafe(p)'
        BY <1>1, <1>2, <1>3, <2>2 DEF ProcSafe, At, Working, Memory, Verified, layout
    <2> QED
        BY <2>1, <2>2, <2>3, QuietStep DEF IInv, TypeOK
<1>4. CASE ~Verified(mblob[n])
    <2> DEFINE m == [mem[p] EXCEPT !.pc = "mirror"]
    <2>1. m \in Memory /\ Become(p, m)
        BY <1>4, GotoMemory DEF StoreManifestBlob, Goto, Location
    <2>2. mblob' = [mblob EXCEPT ![n] = "good"]
        BY <1>4 DEF StoreManifestBlob
    <2>3. mblob' \in [Manifest -> BlobContent] /\ mblob'[n] = "good"
        BY <1>1, <2>2 DEF IInv, TypeOK, BlobContent
    <2>4. \A k \in Manifest : mblob[k] = "good" => mblob'[k] = "good"
        BY <2>2 DEF IInv, TypeOK
    <2>5. TypeOK'
        BY <2>1, <2>3, BecomeType DEF StoreManifestBlob, IInv, TypeOK, files
    <2>6. StateTruthful' /\ NoBadBlob'
        BY <1>2 DEF StoreManifestBlob, IInv, Safe, StateTruthful, NoBadBlob, files
    <2>7. IndexComplete'
        BY <1>2, <2>4 DEF StoreManifestBlob, IInv, TypeOK, Safe, IndexComplete
    <2>8. mem'[p] = m => ProcSafe(p)'
        BY <1>1, <1>2, <2>3 DEF StoreManifestBlob, ProcSafe, At, Working, Memory
    <2>9. Safe'
        BY <1>2, <2>1, <2>4, <2>6, <2>7, <2>8, StepSafe DEF StoreManifestBlob
    <2> QED
        BY <2>5, <2>9 DEF IInv
<1> QED
    BY <1>3, <1>4

LEMMA MirrorManifestSafe ==
    ASSUME IInv, NEW p \in Proc, MirrorManifest(p)
    PROVE  IInv'
<1> DEFINE m == [mem[p] EXCEPT !.pc = "reconcile", !.todo = Objects[mem[p].mfst]]
<1>1. /\ mem[p] \in Memory /\ mem[p].mfst \in Manifest /\ lock = p
      /\ mem[p].done \subseteq Stored /\ mblob[mem[p].mfst] = "good"
    BY DEF IInv, TypeOK, Safe, ProcSafe, MirrorManifest, At, Working
<1>2. m \in Memory
    BY <1>1, ObjectsAssumption DEF Memory, Location
<1>3. Stored' = Stored /\ StateTruthful' /\ NoBadBlob' /\ IndexComplete'
    BY DEF MirrorManifest, IInv, Safe, Stored, StateTruthful, NoBadBlob, IndexComplete, files
<1>4. mem'[p] = m => ProcSafe(p)'
    BY <1>1, <1>3 DEF MirrorManifest, ProcSafe, At, Working, Memory
<1>5. TypeOK'
    BY <1>1, <1>2, BecomeType DEF MirrorManifest, IInv, TypeOK, files
<1>6. Safe'
    BY <1>2, <1>3, <1>4, StepSafe DEF MirrorManifest
<1> QED
    BY <1>5, <1>6 DEF IInv

LEMMA ReconcileBlobSafe ==
    ASSUME IInv, NEW p \in Proc, NEW d \in Digest, ReconcileBlob(p, d)
    PROVE  IInv'
<1> DEFINE k == [mem[p] EXCEPT !.todo = @ \ {d}, !.blind = @ \cup Carried(mem[p], d)]
<1>1. /\ mem[p] \in Memory /\ mem[p].mfst \in Manifest /\ lock = p
      /\ mem[p].done \subseteq Stored /\ mblob[mem[p].mfst] = "good"
    BY DEF IInv, TypeOK, Safe, ProcSafe, ReconcileBlob, At, Working
<1>2. k \in Memory
    BY <1>1 DEF Memory, Carried
<1>3. blob[d] \in {"none", "good"}
    BY DEF IInv, Safe, NoBadBlob, TypeOK, BlobContent
<1>4. CASE Acceptable(mem[p], d)
    <2> DEFINE m == [k EXCEPT !.done = @ \cup {d}]
    <2>1. d \in Stored
        BY <1>3, <1>4 DEF Acceptable, Verified, Stored
    <2>2. m \in Memory
        BY <1>2 DEF Memory
    <2>3. Become(p, m) /\ UNCHANGED <<lock, stateFile, files, layout, faults>>
        BY <1>4 DEF ReconcileBlob, files
    <2>4. m.pc = "reconcile" /\ m.mfst = mem[p].mfst /\ m.done = mem[p].done \cup {d}
        BY <1>1 DEF ReconcileBlob, At, Memory
    <2>5. mem'[p] = m => ProcSafe(p)'
        BY <1>1, <2>1, <2>3, <2>4 DEF ProcSafe, At, Working, Stored, files, layout
    <2> QED
        BY <2>2, <2>3, <2>5, QuietStep DEF IInv, TypeOK
<1>5. CASE ~Acceptable(mem[p], d)
    <2> DEFINE m == [k EXCEPT !.pc = "part", !.cur = d]
    <2>1. m \in Memory
        BY <1>2 DEF Memory, Location
    <2>2. Become(p, m) /\ blob' = IF k.verify THEN [blob EXCEPT ![d] = "none"] ELSE blob
        BY <1>5 DEF ReconcileBlob
    <2>3. blob[d] # "good"
        BY <1>5 DEF Acceptable, Verified
    <2>4. blob' \in [Digest -> BlobContent] /\ Stored' = Stored /\ NoBadBlob'
        BY <2>2, <2>3 DEF IInv, TypeOK, Safe, BlobContent, Stored, NoBadBlob
    <2>5. m.pc = "part" /\ m.mfst = mem[p].mfst /\ m.done = mem[p].done /\ m.cur = d
        BY <1>1 DEF Memory
    <2>6. mem'[p] = m => ProcSafe(p)'
        BY <1>1, <2>4, <2>5 DEF ReconcileBlob, ProcSafe, At, Working, layout
    <2> QED
        BY <2>1, <2>2, <2>4, <2>6, FileStep DEF ReconcileBlob, IInv, TypeOK
<1> QED
    BY <1>4, <1>5

\* What holds of p inside the lock while it handles one object.
LEMMA CommitFacts ==
    ASSUME IInv, NEW p \in Proc, mem[p].pc \in {"part", "clean", "ctrl", "mark"}
    PROVE  /\ mem[p] \in Memory
           /\ mem[p].mfst \in Manifest
           /\ lock = p
           /\ mem[p].done \subseteq Stored
           /\ mblob[mem[p].mfst] = "good"
           /\ mem[p].cur \in Digest
           /\ mem[p].pc \in {"ctrl", "mark"} => mem[p].cur \in Stored
BY DEF IInv, TypeOK, Safe, ProcSafe, At, Working

\* Renaming a verified .part adds its blob to the store.
LEMMA RenameStores ==
    ASSUME IInv, NEW d \in Digest, Verified(part[d]), RenamePart(d)
    PROVE  /\ blob' \in [Digest -> BlobContent]
           /\ part' \in [Digest -> PartContent]
           /\ live' \in SUBSET Digest
           /\ Stored \subseteq Stored'
           /\ d \in Stored'
           /\ NoBadBlob'
BY DEF IInv, TypeOK, Safe, NoBadBlob, Verified, RenamePart, Unlink, BlobContent, PartContent, Stored

\* Unlinking a .part keeps the types.
LEMMA UnlinkType ==
    ASSUME TypeOK, NEW d \in Digest, Unlink(d)
    PROVE  part' \in [Digest -> PartContent] /\ live' \in SUBSET Digest
BY DEF TypeOK, Unlink, PartContent

LEMMA ReconcilePartSafe ==
    ASSUME IInv, NEW p \in Proc, ReconcilePart(p)
    PROVE  IInv'
<1> DEFINE d == mem[p].cur
<1> USE DEF ReconcilePart
<1>1. /\ mem[p] \in Memory /\ mem[p].mfst \in Manifest /\ lock = p
      /\ mem[p].done \subseteq Stored /\ mblob[mem[p].mfst] = "good" /\ d \in Digest
    BY CommitFacts DEF At
<1>2. UNCHANGED <<lock, stateFile, layout>>
    OBVIOUS
<1>3. TypeOK
    BY DEF IInv
<1>4. CASE /\ Verified(part[d]) /\ RenamePart(d)
           /\ Become(p, [mem[p] EXCEPT !.pc = "ctrl", !.back = "reconcile"])
           /\ UNCHANGED <<ctrl, faults>>
    <2> DEFINE m == [mem[p] EXCEPT !.pc = "ctrl", !.back = "reconcile"]
    <2>1. m \in Memory
        BY <1>1 DEF Memory, Location
    <2>2. m.pc = "ctrl" /\ m.mfst = mem[p].mfst /\ m.done = mem[p].done /\ m.cur = d
        BY <1>1 DEF Memory
    <2>3. mem'[p] = m => ProcSafe(p)'
        BY <1>1, <1>2, <1>4, <2>2, RenameStores DEF ProcSafe, At, Working, layout
    <2> QED
        BY <1>1, <1>2, <1>3, <1>4, <2>1, <2>3, RenameStores, FileStep DEF TypeOK
<1>5. CASE Verified(part[d]) /\ Fault /\ Goto(p, "reconcile") /\ UNCHANGED files
    <2> DEFINE m == [mem[p] EXCEPT !.pc = "reconcile"]
    <2>1. m \in Memory
        BY GotoMemory DEF Location
    <2>2. mem'[p] = m => ProcSafe(p)'
        BY <1>1, <1>2, <1>5 DEF ProcSafe, At, Working, Memory, layout, files, Stored
    <2>3. faults' \in 0..MaxFaults
        BY <1>3, <1>5, MaxFaultsAssumption DEF Fault, TypeOK
    <2> QED
        BY <1>2, <1>3, <1>5, <2>1, <2>2, <2>3, QuietStep DEF Goto, TypeOK
<1>6. CASE /\ part[d] \in {"bad", "over"} /\ Unlink(d)
           /\ Become(p, [mem[p] EXCEPT !.pc = "clean", !.back = "reconcile"])
           /\ UNCHANGED <<blob, ctrl, faults>>
    <2> DEFINE m == [mem[p] EXCEPT !.pc = "clean", !.back = "reconcile"]
    <2>1. m \in Memory
        BY <1>1 DEF Memory, Location
    <2>2. m.pc = "clean" /\ m.mfst = mem[p].mfst /\ m.done = mem[p].done /\ m.cur = d
        BY <1>1 DEF Memory
    <2>3. Stored' = Stored /\ NoBadBlob'
        BY <1>6 DEF Stored, NoBadBlob, IInv, Safe
    <2>4. mem'[p] = m => ProcSafe(p)'
        BY <1>1, <1>2, <2>2, <2>3 DEF ProcSafe, At, Working, layout
    <2> QED
        BY <1>1, <1>2, <1>3, <1>6, <2>1, <2>3, <2>4, UnlinkType, FileStep DEF TypeOK
<1>7. CASE part[d] = "partial" /\ Goto(p, "reconcile") /\ UNCHANGED <<files, faults>>
    <2> DEFINE m == [mem[p] EXCEPT !.pc = "reconcile"]
    <2>1. m \in Memory
        BY GotoMemory DEF Location
    <2>2. mem'[p] = m => ProcSafe(p)'
        BY <1>1, <1>2, <1>7 DEF ProcSafe, At, Working, Memory, layout, files, Stored
    <2> QED
        BY <1>2, <1>3, <1>7, <2>1, <2>2, QuietStep DEF Goto, TypeOK
<1>8. CASE part[d] = "none" /\ RemoveCtrl(d) /\ Goto(p, "reconcile") /\ UNCHANGED <<blob, part, live, faults>>
    <2> DEFINE m == [mem[p] EXCEPT !.pc = "reconcile"]
    <2>1. m \in Memory
        BY GotoMemory DEF Location
    <2>2. Stored' = Stored /\ NoBadBlob'
        BY <1>8 DEF Stored, NoBadBlob, IInv, Safe
    <2>3. mem'[p] = m => ProcSafe(p)'
        BY <1>1, <1>2, <2>2 DEF ProcSafe, At, Working, Memory, layout
    <2>4. ctrl' \in [Digest -> BOOLEAN]
        BY <1>3, <1>8 DEF RemoveCtrl, TypeOK
    <2> QED
        BY <1>2, <1>3, <1>8, <2>1, <2>2, <2>3, <2>4, FileStep DEF Goto, TypeOK
<1> QED
    BY <1>4, <1>5, <1>6, <1>7, <1>8

LEMMA RemoveOrphanCtrlSafe ==
    ASSUME IInv, NEW p \in Proc, RemoveOrphanCtrl(p)
    PROVE  IInv'
<1> DEFINE m == [mem[p] EXCEPT !.pc = mem[p].back]
<1>1. /\ mem[p] \in Memory /\ mem[p].mfst \in Manifest /\ lock = p
      /\ mem[p].done \subseteq Stored /\ mblob[mem[p].mfst] = "good"
    BY CommitFacts DEF RemoveOrphanCtrl, At
<1>2. m.pc \in {"reconcile", "download"} /\ m.mfst = mem[p].mfst /\ m.done = mem[p].done
    BY <1>1 DEF Memory
<1>3. m \in Memory
    BY <1>1 DEF Memory, Location
<1>4. Stored' = Stored /\ NoBadBlob'
    BY DEF RemoveOrphanCtrl, Stored, NoBadBlob, IInv, Safe
<1>5. mem'[p] = m => ProcSafe(p)'
    BY <1>1, <1>2, <1>4 DEF RemoveOrphanCtrl, ProcSafe, At, Working, layout
<1>6. ctrl' \in [Digest -> BOOLEAN]
    BY DEF RemoveOrphanCtrl, RemoveCtrl, IInv, TypeOK
<1> QED
    BY <1>3, <1>4, <1>5, <1>6, FileStep DEF RemoveOrphanCtrl, Goto, IInv, TypeOK

LEMMA CommitRemovesCtrlSafe ==
    ASSUME IInv, NEW p \in Proc, CommitRemovesCtrl(p)
    PROVE  IInv'
<1> DEFINE m == [mem[p] EXCEPT !.pc = "mark"]
<1>1. /\ mem[p] \in Memory /\ mem[p].mfst \in Manifest /\ lock = p /\ mem[p].cur \in Digest
      /\ mem[p].done \subseteq Stored /\ mblob[mem[p].mfst] = "good" /\ mem[p].cur \in Stored
    BY CommitFacts DEF CommitRemovesCtrl, At
<1>2. m \in Memory
    BY GotoMemory DEF Location
<1>3. Stored' = Stored /\ NoBadBlob'
    BY DEF CommitRemovesCtrl, Stored, NoBadBlob, IInv, Safe
<1>4. mem'[p] = m => ProcSafe(p)'
    BY <1>1, <1>3 DEF CommitRemovesCtrl, ProcSafe, At, Working, Memory, layout
<1>5. ctrl' \in [Digest -> BOOLEAN]
    BY DEF CommitRemovesCtrl, RemoveCtrl, IInv, TypeOK
<1> QED
    BY <1>2, <1>3, <1>4, <1>5, FileStep DEF CommitRemovesCtrl, Goto, IInv, TypeOK

LEMMA MarkCommittedSafe ==
    ASSUME IInv, NEW p \in Proc, MarkCommitted(p)
    PROVE  IInv'
<1> DEFINE m == [mem[p] EXCEPT !.pc = mem[p].back, !.done = @ \cup {mem[p].cur}]
           r == [m EXCEPT !.recent = TRUE]
<1>1. /\ mem[p] \in Memory /\ mem[p].mfst \in Manifest /\ lock = p /\ mem[p].cur \in Digest
      /\ mem[p].done \subseteq Stored /\ mblob[mem[p].mfst] = "good" /\ mem[p].cur \in Stored
    BY CommitFacts DEF MarkCommitted, At
<1>2. m \in Memory
    BY <1>1 DEF Memory, Location
<1>3. m.mfst \in Manifest /\ m.done \subseteq Stored
    BY <1>1 DEF Memory
<1>4. r.pc \in {"reconcile", "download"} /\ r.mfst = m.mfst /\ r.done = m.done
    BY <1>1, <1>2 DEF Memory
<1>5. m.mfst = mem[p].mfst
    BY <1>1 DEF Memory
<1>6. mem'[p] = r => ProcSafe(p)'
    BY <1>1, <1>3, <1>4, <1>5 DEF MarkCommitted, ProcSafe, At, Working, Stored, files, layout
<1> QED
    BY <1>2, <1>3, <1>6, PersistStep DEF MarkCommitted, IInv, TypeOK, files

LEMMA SaveNowSafe ==
    ASSUME IInv, NEW p \in Proc, SaveNow(p)
    PROVE  IInv'
<1> DEFINE m == [mem[p] EXCEPT !.pc = IF Pending(mem[p]) = {} THEN "final" ELSE "connect"]
           r == [m EXCEPT !.recent = TRUE]
<1> USE DEF SaveNow
<1>1. /\ mem[p] \in Memory /\ mem[p].mfst \in Manifest /\ lock = p
      /\ mem[p].done \subseteq Stored /\ mblob[mem[p].mfst] = "good"
    BY DEF IInv, TypeOK, Safe, ProcSafe, At, Working
<1>2. m \in Memory
    BY GotoMemory DEF Location
<1>3. CASE /\ stateFile' = IF Throttled(m) THEN stateFile ELSE Snapshot(m)
           /\ Become(p, r)
           /\ UNCHANGED <<lock, faults>>
    <2>1. r \in Memory /\ r.pc = m.pc /\ r.mfst = mem[p].mfst /\ r.done = mem[p].done
        BY <1>1, <1>2 DEF Memory
    <2>2. m.pc \in {"final", "connect"} /\ (m.pc = "final" => Objects[mem[p].mfst] \subseteq mem[p].done)
        BY <1>1 DEF Memory, Pending
    <2>3. Snapshot(m) \in State /\ Snapshot(m).done = mem[p].done
        BY <1>1, <1>2 DEF Snapshot, State, Memory
    <2>4. Stored' = Stored /\ NoBadBlob' /\ IndexComplete'
        BY DEF IInv, Safe, Stored, NoBadBlob, IndexComplete, files, layout
    <2>5. StateTruthful'
        BY <1>1, <1>3, <2>3, <2>4 DEF StateTruthful, IInv, Safe
    <2>6. mem'[p] = r => ProcSafe(p)'
        BY <1>1, <1>3, <2>1, <2>2, <2>4 DEF ProcSafe, At, Working, layout
    <2>7. TypeOK'
        BY <1>3, <2>1, <2>3, BecomeType DEF IInv, TypeOK, files, layout
    <2>8. Safe'
        BY <1>3, <2>1, <2>4, <2>5, <2>6, StepSafe DEF layout
    <2> QED
        BY <2>7, <2>8 DEF IInv
<1>4. CASE Fault /\ lock' = None /\ Become(p, Idle) /\ UNCHANGED stateFile
    <2>1. mem'[p] = Idle => ProcSafe(p)'
        BY DEF ProcSafe, At, Idle, Working
    <2>2. faults' \in 0..MaxFaults
        BY <1>4, MaxFaultsAssumption DEF Fault, IInv, TypeOK
    <2> QED
        BY <1>1, <1>4, <2>1, <2>2, IdleType, QuietStep
<1> QED
    BY <1>3, <1>4

------------------------------------------------------------------------------
(* Steps of pull after Build                                                *)

\* What holds of p inside the lock.
LEMMA LockedFacts ==
    ASSUME IInv, NEW p \in Proc, ~At(p, "idle"), ~At(p, "lock")
    PROVE  /\ mem[p] \in Memory
           /\ mem[p].mfst \in Manifest
           /\ lock = p
           /\ mem[p].done \subseteq Stored
           /\ mem[p].pc \in Working => mblob[mem[p].mfst] = "good"
           /\ mem[p].pc \in {"final", "layout", "index", "export"} =>
                  Objects[mem[p].mfst] \subseteq mem[p].done
           /\ At(p, "index") => marker
BY DEF IInv, TypeOK, Safe, ProcSafe

LEMMA FaultType ==
    ASSUME TypeOK, Fault \/ NoFault
    PROVE  faults' \in 0..MaxFaults
BY MaxFaultsAssumption DEF TypeOK, Fault, NoFault

\* Moving on to a location that relies on nothing new.
LEMMA GotoStep ==
    ASSUME IInv, NEW p \in Proc, ~At(p, "idle"), ~At(p, "lock"),
           NEW l \in {"download", "final", "release", "layout"}, Goto(p, l),
           l = "release" \/ mem[p].pc \in Working,
           l \in {"final", "layout"} => Objects[mem[p].mfst] \subseteq mem[p].done,
           Fault \/ NoFault,
           UNCHANGED <<lock, stateFile, files, layout>>
    PROVE  IInv'
<1> DEFINE m == [mem[p] EXCEPT !.pc = l]
<1>1. m \in Memory
    BY GotoMemory DEF Location
<1>2. m.pc = l /\ m.mfst = mem[p].mfst /\ m.done = mem[p].done
    BY LockedFacts DEF Memory
<1>3. mem'[p] = m => ProcSafe(p)'
    BY <1>2, LockedFacts DEF ProcSafe, At, Working, Stored, files, layout
<1>4. faults' \in 0..MaxFaults
    BY FaultType DEF IInv
<1> QED
    BY <1>1, <1>3, <1>4, QuietStep DEF Goto, IInv, TypeOK

LEMMA ConnectAria2Safe ==
    ASSUME IInv, NEW p \in Proc, ConnectAria2(p)
    PROVE  IInv'
BY GotoStep DEF ConnectAria2, At, Working

LEMMA RunReturnsSafe ==
    ASSUME IInv, NEW p \in Proc, RunReturns(p)
    PROVE  IInv'
BY GotoStep DEF RunReturns, Pending, At, Working

\* A step of the download phase stays in it, or handles one object.
LEMMA DownloadFacts ==
    ASSUME IInv, NEW p \in Proc, At(p, "download")
    PROVE  /\ mem[p] \in Memory
           /\ mem[p].mfst \in Manifest
           /\ lock = p
           /\ mem[p].done \subseteq Stored
           /\ mblob[mem[p].mfst] = "good"
BY LockedFacts DEF At, Working

LEMMA VerifyAndCommitSafe ==
    ASSUME IInv, NEW p \in Proc, NEW d \in Digest, VerifyAndCommit(p, d)
    PROVE  IInv'
<1> USE DEF VerifyAndCommit
<1>1. /\ mem[p] \in Memory /\ mem[p].mfst \in Manifest /\ lock = p
      /\ mem[p].done \subseteq Stored /\ mblob[mem[p].mfst] = "good"
    BY DownloadFacts
<1>2. TypeOK /\ UNCHANGED <<lock, stateFile, ctrl, layout>>
    BY DEF IInv
<1>3. CASE /\ Verified(part[d]) /\ RenamePart(d) /\ NoFault
           /\ Become(p, [mem[p] EXCEPT !.pc = "ctrl", !.cur = d, !.back = "download"])
    <2> DEFINE m == [mem[p] EXCEPT !.pc = "ctrl", !.cur = d, !.back = "download"]
    <2>1. m \in Memory
        BY <1>1 DEF Memory, Location
    <2>2. m.pc = "ctrl" /\ m.mfst = mem[p].mfst /\ m.done = mem[p].done /\ m.cur = d
        BY <1>1 DEF Memory
    <2>3. mem'[p] = m => ProcSafe(p)'
        BY <1>1, <1>2, <1>3, <2>2, RenameStores DEF ProcSafe, At, Working, layout
    <2> QED
        BY <1>2, <1>3, <2>1, <2>3, RenameStores, FaultType, FileStep DEF TypeOK
<1>4. CASE Fault /\ UNCHANGED <<blob, part, live, mem>>
    <2>1. Become(p, mem[p])
        BY <1>2, <1>4 DEF Become, TypeOK
    <2>2. mem'[p] = mem[p] => ProcSafe(p)'
        BY <1>1, <1>2, <1>4 DEF ProcSafe, At, Working, Stored, layout
    <2> QED
        BY <1>1, <1>2, <1>4, <2>1, <2>2, FaultType, QuietStep DEF files, TypeOK
<1>5. CASE /\ Unlink(d) /\ NoFault /\ UNCHANGED blob
           /\ Become(p, [mem[p] EXCEPT !.pc = "clean", !.cur = d, !.back = "download"])
    <2> DEFINE m == [mem[p] EXCEPT !.pc = "clean", !.cur = d, !.back = "download"]
    <2>1. m \in Memory
        BY <1>1 DEF Memory, Location
    <2>2. m.pc = "clean" /\ m.mfst = mem[p].mfst /\ m.done = mem[p].done /\ m.cur = d
        BY <1>1 DEF Memory
    <2>3. Stored' = Stored /\ NoBadBlob'
        BY <1>5 DEF Stored, NoBadBlob, IInv, Safe
    <2>4. mem'[p] = m => ProcSafe(p)'
        BY <1>1, <1>2, <2>2, <2>3 DEF ProcSafe, At, Working, layout
    <2> QED
        BY <1>2, <1>5, <2>1, <2>3, <2>4, UnlinkType, FaultType, FileStep DEF TypeOK
<1> QED
    BY <1>3, <1>4, <1>5

LEMMA DiscardPartSafe ==
    ASSUME IInv, NEW p \in Proc, NEW d \in Digest, DiscardPart(p, d)
    PROVE  IInv'
<1> DEFINE m == [mem[p] EXCEPT !.pc = "clean", !.cur = d, !.back = "download"]
<1> USE DEF DiscardPart
<1>1. /\ mem[p] \in Memory /\ mem[p].mfst \in Manifest /\ lock = p
      /\ mem[p].done \subseteq Stored /\ mblob[mem[p].mfst] = "good"
    BY DownloadFacts
<1>2. m \in Memory
    BY <1>1 DEF Memory, Location
<1>3. m.pc = "clean" /\ m.mfst = mem[p].mfst /\ m.done = mem[p].done /\ m.cur = d
    BY <1>1 DEF Memory
<1>4. Stored' = Stored /\ NoBadBlob'
    BY DEF Stored, NoBadBlob, IInv, Safe
<1>5. mem'[p] = m => ProcSafe(p)'
    BY <1>1, <1>3, <1>4 DEF ProcSafe, At, Working, layout
<1> QED
    BY <1>2, <1>4, <1>5, UnlinkType, FaultType, FileStep DEF IInv, TypeOK

\* A save in the download phase by which the task list learns nothing that is
\* not stored.
LEMMA DownloadPersist ==
    ASSUME IInv, NEW p \in Proc, At(p, "download"), NEW m \in Memory, Persist(p, m),
           m.pc = "download", m.mfst = mem[p].mfst, m.done = mem[p].done,
           UNCHANGED <<lock, blob, layout>>,
           part' \in [Digest -> PartContent],
           ctrl' \in [Digest -> BOOLEAN], live' \in SUBSET Digest
    PROVE  IInv'
<1> DEFINE r == [m EXCEPT !.recent = TRUE]
<1>1. r.pc = m.pc /\ r.mfst = m.mfst /\ r.done = m.done
    BY DEF Memory
<1>2. mem'[p] = r => ProcSafe(p)'
    BY <1>1, DownloadFacts DEF ProcSafe, At, Working, Stored, layout
<1> QED
    BY <1>2, DownloadFacts, PersistStep

LEMMA SubmitTaskSafe ==
    ASSUME IInv, NEW p \in Proc, NEW d \in Digest, SubmitTask(p, d)
    PROVE  IInv'
<1>1. ctrl' \in [Digest -> BOOLEAN] /\ live' \in SUBSET Digest
    BY DEF SubmitTask, IInv, TypeOK
<1>2. mem[p].pc = "download"
    BY DEF SubmitTask, At
<1> QED
    BY <1>1, <1>2, DownloadFacts, DownloadPersist DEF SubmitTask, IInv, TypeOK

LEMMA MarkRangeUnsupportedSafe ==
    ASSUME IInv, NEW p \in Proc, NEW d \in Digest, MarkRangeUnsupported(p, d)
    PROVE  IInv'
<1> DEFINE m == [mem[p] EXCEPT !.blind = @ \cup {d}]
<1>1. mem[p] \in Memory /\ mem[p].pc = "download"
    BY DownloadFacts DEF MarkRangeUnsupported, At
<1>2. m \in Memory /\ m.pc = "download" /\ m.mfst = mem[p].mfst /\ m.done = mem[p].done
    BY <1>1 DEF Memory
<1> QED
    BY <1>2, DownloadPersist DEF MarkRangeUnsupported, files, IInv, TypeOK

LEMMA LearnRangeBlindSafe ==
    ASSUME IInv, NEW p \in Proc, LearnRangeBlind(p)
    PROVE  IInv'
<1> DEFINE m == [mem[p] EXCEPT !.source = TRUE]
<1>1. m \in Memory
    BY DownloadFacts DEF LearnRangeBlind, Memory
<1>2. m.pc = mem[p].pc /\ m.mfst = mem[p].mfst /\ m.done = mem[p].done
    BY DownloadFacts DEF LearnRangeBlind, Memory
<1>3. mem'[p] = m => ProcSafe(p)'
    BY <1>2, DownloadFacts DEF LearnRangeBlind, ProcSafe, At, Working, Stored, files, layout
<1> QED
    BY <1>1, <1>3, QuietStep DEF LearnRangeBlind, IInv, TypeOK

------------------------------------------------------------------------------
(* Steps of the layout assembly and of Release                              *)

LEMMA SaveFinalSafe ==
    ASSUME IInv, NEW p \in Proc, SaveFinal(p)
    PROVE  IInv'
<1> DEFINE m == [mem[p] EXCEPT !.pc = "layout", !.recent = FALSE]
           r == [m EXCEPT !.recent = TRUE]
<1>1. /\ mem[p] \in Memory /\ mem[p].mfst \in Manifest /\ lock = p
      /\ mem[p].done \subseteq Stored /\ mblob[mem[p].mfst] = "good"
      /\ Objects[mem[p].mfst] \subseteq mem[p].done
    BY LockedFacts DEF SaveFinal, At, Working
<1>2. m \in Memory
    BY <1>1 DEF Memory, Location
<1>3. m.mfst = mem[p].mfst /\ m.done = mem[p].done
    BY <1>1 DEF Memory
<1>4. r.pc = "layout" /\ r.mfst = mem[p].mfst /\ r.done = mem[p].done
    BY <1>1 DEF Memory
<1>5. mem'[p] = r => ProcSafe(p)'
    BY <1>1, <1>4 DEF SaveFinal, ProcSafe, At, Working, Stored, files, layout
<1> QED
    BY <1>1, <1>2, <1>3, <1>5, PersistStep DEF SaveFinal, files, IInv, TypeOK

LEMMA EnsureLayoutSafe ==
    ASSUME IInv, NEW p \in Proc, EnsureLayout(p)
    PROVE  IInv'
<1> USE DEF EnsureLayout
<1>1. /\ mem[p] \in Memory /\ mem[p].mfst \in Manifest /\ lock = p
      /\ mem[p].done \subseteq Stored /\ mblob[mem[p].mfst] = "good"
      /\ Objects[mem[p].mfst] \subseteq mem[p].done
    BY LockedFacts DEF At, Working
<1>2. CASE marker' = TRUE /\ Goto(p, "index") /\ NoFault
    <2> DEFINE m == [mem[p] EXCEPT !.pc = "index"]
    <2>1. m \in Memory /\ Become(p, m)
        BY <1>2, GotoMemory DEF Goto, Location
    <2>2. m.pc = "index" /\ m.mfst = mem[p].mfst /\ m.done = mem[p].done
        BY <1>1 DEF Memory
    <2>3. Stored' = Stored /\ NoBadBlob' /\ StateTruthful' /\ IndexComplete'
        BY <1>2 DEF IInv, Safe, Stored, NoBadBlob, StateTruthful, IndexComplete, files
    <2>4. mem'[p] = m => ProcSafe(p)'
        BY <1>1, <1>2, <2>2, <2>3 DEF ProcSafe, At, Working
    <2>5. TypeOK'
        BY <1>2, <2>1, BecomeType, FaultType DEF IInv, TypeOK, files
    <2>6. Safe'
        BY <1>2, <2>1, <2>3, <2>4, StepSafe
    <2> QED
        BY <2>5, <2>6 DEF IInv
<1>3. CASE UNCHANGED marker /\ Goto(p, "release") /\ Fault
    BY <1>3, GotoStep DEF layout, At
<1> QED
    BY <1>2, <1>3

LEMMA WriteIndexSafe ==
    ASSUME IInv, NEW p \in Proc, WriteIndex(p)
    PROVE  IInv'
<1> USE DEF WriteIndex
<1>1. /\ mem[p] \in Memory /\ mem[p].mfst \in Manifest /\ lock = p
      /\ mem[p].done \subseteq Stored /\ mblob[mem[p].mfst] = "good"
      /\ Objects[mem[p].mfst] \subseteq mem[p].done /\ marker
    BY LockedFacts DEF At, Working
<1>2. CASE index' = mem[p].mfst /\ Goto(p, "export") /\ NoFault
    <2> DEFINE m == [mem[p] EXCEPT !.pc = "export"]
    <2>1. m \in Memory /\ Become(p, m)
        BY <1>2, GotoMemory DEF Goto, Location
    <2>2. m.pc = "export" /\ m.mfst = mem[p].mfst /\ m.done = mem[p].done
        BY <1>1 DEF Memory
    <2>3. Stored' = Stored /\ NoBadBlob' /\ StateTruthful'
        BY <1>2 DEF IInv, Safe, Stored, NoBadBlob, StateTruthful, files
    <2>4. IndexComplete'
        BY <1>1, <1>2, <2>3 DEF IndexComplete
    <2>5. mem'[p] = m => ProcSafe(p)'
        BY <1>1, <1>2, <2>2, <2>3 DEF ProcSafe, At, Working
    <2>6. TypeOK'
        BY <1>1, <1>2, <2>1, BecomeType, FaultType DEF IInv, TypeOK, files
    <2>7. Safe'
        BY <1>2, <2>1, <2>3, <2>4, <2>5, StepSafe
    <2> QED
        BY <2>6, <2>7 DEF IInv
<1>3. CASE UNCHANGED index /\ Goto(p, "release") /\ Fault
    BY <1>3, GotoStep DEF layout, At
<1> QED
    BY <1>2, <1>3

LEMMA ExportSafe ==
    ASSUME IInv, NEW p \in Proc, Export(p)
    PROVE  IInv'
BY GotoStep DEF Export, NoFault, At

LEMMA ReleaseSavesSafe ==
    ASSUME IInv, NEW p \in Proc, ReleaseSaves(p)
    PROVE  IInv'
<1> DEFINE m == [mem[p] EXCEPT !.pc = "unlock", !.recent = FALSE]
           r == [m EXCEPT !.recent = TRUE]
<1>1. /\ mem[p] \in Memory /\ mem[p].mfst \in Manifest /\ lock = p
      /\ mem[p].done \subseteq Stored
    BY LockedFacts DEF ReleaseSaves, At
<1>2. m \in Memory
    BY <1>1 DEF Memory, Location
<1>3. m.mfst = mem[p].mfst /\ m.done = mem[p].done
    BY <1>1 DEF Memory
<1>4. r.pc = "unlock" /\ r.mfst = mem[p].mfst /\ r.done = mem[p].done
    BY <1>1 DEF Memory
<1>5. mem'[p] = r => ProcSafe(p)'
    BY <1>1, <1>4 DEF ReleaseSaves, ProcSafe, At, Working, Stored
<1>6. live' \in SUBSET Digest /\ ctrl' \in [Digest -> BOOLEAN]
    BY DEF ReleaseSaves, StopDaemon, IInv, TypeOK
<1> QED
    BY <1>1, <1>2, <1>3, <1>5, <1>6, PersistStep DEF ReleaseSaves, IInv, TypeOK

LEMMA ReleaseUnlocksSafe ==
    ASSUME IInv, NEW p \in Proc, ReleaseUnlocks(p)
    PROVE  IInv'
<1>1. mem'[p] = Idle => ProcSafe(p)'
    BY DEF ProcSafe, At, Idle, Working
<1>2. lock = p
    BY LockedFacts DEF ReleaseUnlocks, At
<1> QED
    BY <1>1, <1>2, IdleType, QuietStep DEF ReleaseUnlocks, IInv, TypeOK

------------------------------------------------------------------------------
(* Steps of the environment                                                 *)

LEMMA TickSafe ==
    ASSUME IInv, NEW p \in Proc, Tick(p)
    PROVE  IInv'
<1> DEFINE m == [mem[p] EXCEPT !.recent = FALSE]
<1>1. mem[p] \in Memory /\ ProcSafe(p)
    BY DEF IInv, TypeOK, Safe
<1>2. /\ m \in Memory
      /\ m.pc = mem[p].pc /\ m.mfst = mem[p].mfst /\ m.done = mem[p].done /\ m.cur = mem[p].cur
    BY <1>1 DEF Memory
<1>3. mem'[p] = m => ProcSafe(p)'
    BY <1>1, <1>2 DEF Tick, ProcSafe, At, Working, Stored, files, layout
<1> QED
    BY <1>2, <1>3, QuietStep DEF Tick, IInv, TypeOK

LEMMA CrashSafe ==
    ASSUME IInv, NEW p \in Proc, Crash(p)
    PROVE  IInv'
<1>1. mem'[p] = Idle => ProcSafe(p)'
    BY DEF ProcSafe, At, Idle, Working
<1>2. lock' \in Proc \cup {None} /\ (lock' = lock \/ lock \in {None, p})
    BY DEF Crash, IInv, TypeOK
<1>3. faults' \in 0..MaxFaults
    BY FaultType DEF Crash, IInv
<1> QED
    BY <1>1, <1>2, <1>3, IdleType, QuietStep DEF Crash

\* aria2 touches no blob and no process, only tmp/.
LEMMA Aria2Step ==
    ASSUME IInv, UNCHANGED <<lock, stateFile, blob, layout, mem>>,
           part' \in [Digest -> PartContent],
           ctrl' \in [Digest -> BOOLEAN], live' \in SUBSET Digest,
           faults' \in 0..MaxFaults
    PROVE  IInv'
<1>1. TypeOK'
    BY DEF IInv, TypeOK, layout
<1>2. Stored' = Stored
    BY DEF Stored
<1>3. ASSUME NEW p \in Proc PROVE ProcSafe(p)'
    BY <1>2 DEF IInv, Safe, ProcSafe, At, layout
<1>4. NoBadBlob' /\ StateTruthful' /\ IndexComplete'
    BY <1>2 DEF IInv, Safe, NoBadBlob, StateTruthful, IndexComplete, layout
<1> QED
    BY <1>1, <1>3, <1>4 DEF IInv, Safe

LEMMA Aria2WriteSafe ==
    ASSUME IInv, NEW d \in Digest, Aria2Write(d)
    PROVE  IInv'
<1>1. part' \in [Digest -> PartContent]
    BY DEF Aria2Write, IInv, TypeOK, PartContent
<1>2. ctrl' \in [Digest -> BOOLEAN] /\ live' \in SUBSET Digest
    BY DEF Aria2Write, IInv, TypeOK
<1>3. faults' \in 0..MaxFaults
    BY FaultType DEF Aria2Write, IInv
<1> QED
    BY <1>1, <1>2, <1>3, Aria2Step DEF Aria2Write

LEMMA Aria2StopsSafe ==
    ASSUME IInv, NEW d \in Digest, Aria2Stops(d)
    PROVE  IInv'
<1>1. ctrl' \in [Digest -> BOOLEAN] /\ live' \in SUBSET Digest /\ part' \in [Digest -> PartContent]
    BY DEF Aria2Stops, IInv, TypeOK
<1>2. faults' \in 0..MaxFaults
    BY FaultType DEF Aria2Stops, IInv
<1> QED
    BY <1>1, <1>2, Aria2Step DEF Aria2Stops

------------------------------------------------------------------------------
(* The theorems                                                             *)

LEMMA InitSafe == Init => IInv
<1> SUFFICES ASSUME Init PROVE IInv
    OBVIOUS
<1>1. TypeOK
    <2>1. blob \in [Digest -> BlobContent] /\ mblob \in [Manifest -> BlobContent]
        BY DEF Init, BlobContent
    <2>2. part \in [Digest -> PartContent]
        BY DEF Init, PartContent
    <2>3. ctrl \in [Digest -> BOOLEAN] /\ mem \in [Proc -> Memory]
        BY IdleType DEF Init
    <2>4. faults \in 0..MaxFaults
        BY MaxFaultsAssumption DEF Init
    <2> QED
        BY <2>1, <2>2, <2>3, <2>4 DEF Init, TypeOK
<1>2. Safe
    BY DEF Init, Safe, ProcSafe, At, Idle, Working, NoBadBlob, StateTruthful, IndexComplete
<1> QED
    BY <1>1, <1>2 DEF IInv

LEMMA StutterSafe == IInv /\ UNCHANGED vars => IInv'
BY DEF IInv, TypeOK, Safe, ProcSafe, At, Working, NoBadBlob, StateTruthful, IndexComplete,
       Stored, vars, files, layout

LEMMA NextSafe == IInv /\ [Next]_vars => IInv'
<1> SUFFICES ASSUME IInv, [Next]_vars PROVE IInv'
    OBVIOUS
<1>1. ASSUME NEW p \in Proc, Run(p) PROVE IInv'
    BY <1>1, StartSafe DEF Run
<1>2. ASSUME NEW p \in Proc, BuildStep(p) PROVE IInv'
    BY <1>2, LockImageDirSafe, LoadStateSafe, StoreManifestBlobSafe, MirrorManifestSafe,
       ReconcileBlobSafe, ReconcilePartSafe, SaveNowSafe DEF BuildStep
<1>3. ASSUME NEW p \in Proc, CommitStep(p) PROVE IInv'
    BY <1>3, CommitRemovesCtrlSafe, MarkCommittedSafe, RemoveOrphanCtrlSafe DEF CommitStep
<1>4. ASSUME NEW p \in Proc, DownloadStep(p) PROVE IInv'
    BY <1>4, ConnectAria2Safe, VerifyAndCommitSafe, DiscardPartSafe, SubmitTaskSafe,
       RunReturnsSafe DEF DownloadStep
<1>5. ASSUME NEW p \in Proc, LayoutStep(p) PROVE IInv'
    BY <1>5, SaveFinalSafe, EnsureLayoutSafe, WriteIndexSafe, ExportSafe, ReleaseSavesSafe,
       ReleaseUnlocksSafe DEF LayoutStep
<1>6. ASSUME NEW p \in Proc, Tick(p) \/ BuildFails(p) \/ Crash(p) \/ LearnRangeBlind(p)
      PROVE IInv'
    BY <1>6, TickSafe, BuildFailsSafe, CrashSafe, LearnRangeBlindSafe
<1>7. ASSUME NEW p \in Proc, NEW d \in Digest, MarkRangeUnsupported(p, d) PROVE IInv'
    BY <1>7, MarkRangeUnsupportedSafe
<1>8. ASSUME NEW d \in Digest, Aria2Write(d) \/ Aria2Stops(d) PROVE IInv'
    BY <1>8, Aria2WriteSafe, Aria2StopsSafe
<1>9. CASE UNCHANGED vars
    BY <1>9, StutterSafe
<1> QED
    BY <1>1, <1>2, <1>3, <1>4, <1>5, <1>6, <1>7, <1>8, <1>9 DEF Next, Step

\* The inductive invariant holds of every reachable state of the directory.
THEOREM Invariant == Spec => []IInv
BY InitSafe, NextSafe, PTL DEF Spec

\* Every variable of the directory keeps its type.
THEOREM TypeCorrect == Spec => []TypeOK
<1>1. IInv => TypeOK
    BY DEF IInv
<1> QED
    BY <1>1, Invariant, PTL

\* index.json never names an image that is not complete in the directory,
\* whatever the number of processes, crashes and moves of the tag.
THEOREM IndexAlwaysComplete == Spec => []IndexComplete
<1>1. IInv => IndexComplete
    BY DEF IInv, Safe
<1> QED
    BY <1>1, Invariant, PTL

\* state.json never calls an object committed whose blob is not in place.
THEOREM StateAlwaysTruthful == Spec => []StateTruthful
<1>1. IInv => StateTruthful
    BY DEF IInv, Safe
<1> QED
    BY <1>1, Invariant, PTL

------------------------------------------------------------------------------
(* ImageDir implements LayoutStore                                          *)

LEMMA InitRefines == Init => Store!Init
BY DEF Init, Store!Init, Stored

\* A step that keeps the blobs and index.json is a stutter of the store.
LEMMA Stutters ==
    ASSUME UNCHANGED <<blob, mblob, index>>
    PROVE  UNCHANGED Store!vars
BY DEF Store!vars, Stored

\* Committing a verified .part stores its blob.
LEMMA RenameRefines ==
    ASSUME IInv, NEW d \in Digest, Verified(part[d]), RenamePart(d), UNCHANGED <<mblob, index>>
    PROVE  Store!StoreBlob(d)
<1>1. Stored' = Stored \cup {d}
    BY DEF IInv, TypeOK, Verified, RenamePart, Stored
<1> QED
    BY <1>1 DEF Store!StoreBlob

LEMMA ReconcileRefines ==
    ASSUME IInv, NEW p \in Proc, ReconcilePart(p)
    PROVE  [Store!Next]_(Store!vars)
<1>1. mem[p].cur \in Digest
    BY CommitFacts DEF ReconcilePart, At
<1>2. CASE Verified(part[mem[p].cur]) /\ RenamePart(mem[p].cur)
    BY <1>1, <1>2, RenameRefines DEF ReconcilePart, layout, Store!Next
<1>3. CASE UNCHANGED blob
    BY <1>3, Stutters DEF ReconcilePart, layout
<1> QED
    BY <1>2, <1>3 DEF ReconcilePart, files

LEMMA VerifyAndCommitRefines ==
    ASSUME IInv, NEW p \in Proc, NEW d \in Digest, VerifyAndCommit(p, d)
    PROVE  [Store!Next]_(Store!vars)
<1>1. CASE Verified(part[d]) /\ RenamePart(d)
    BY <1>1, RenameRefines DEF VerifyAndCommit, layout, Store!Next
<1>2. CASE UNCHANGED blob
    BY <1>2, Stutters DEF VerifyAndCommit, layout
<1> QED
    BY <1>1, <1>2 DEF VerifyAndCommit

\* Reconciliation removes a blob only if it is not the digest's content.
LEMMA ReconcileBlobRefines ==
    ASSUME IInv, NEW p \in Proc, NEW d \in Digest, ReconcileBlob(p, d)
    PROVE  UNCHANGED Store!vars
<1>1. Stored' = Stored
    <2>1. CASE UNCHANGED blob
        BY <2>1 DEF Stored
    <2>2. CASE ~Acceptable(mem[p], d) /\ blob' = [blob EXCEPT ![d] = "none"]
        BY <2>2 DEF Acceptable, Verified, Stored, IInv, TypeOK
    <2> QED
        BY <2>1, <2>2 DEF ReconcileBlob
<1> QED
    BY <1>1 DEF ReconcileBlob, layout, Store!vars

LEMMA StoreManifestRefines ==
    ASSUME IInv, NEW p \in Proc, StoreManifestBlob(p)
    PROVE  [Store!Next]_(Store!vars)
<1>1. mem[p].mfst \in Manifest
    BY DEF StoreManifestBlob, IInv, Safe, ProcSafe, At
<1>2. Stored' = Stored /\ UNCHANGED index
    BY DEF StoreManifestBlob, files, Stored
<1>3. CASE UNCHANGED mblob
    BY <1>3, Stutters DEF StoreManifestBlob, files
<1>4. CASE mblob' = [mblob EXCEPT ![mem[p].mfst] = "good"]
    <2>1. {k \in Manifest : mblob'[k] = "good"} = {k \in Manifest : mblob[k] = "good"} \cup {mem[p].mfst}
        BY <1>1, <1>4 DEF IInv, TypeOK
    <2>2. \E m \in Manifest : Store!StoreManifest(m)
        BY <1>1, <1>2, <2>1 DEF Store!StoreManifest
    <2> QED
        BY <2>2 DEF Store!Next
<1> QED
    BY <1>3, <1>4 DEF StoreManifestBlob

\* index.json is written when the manifest and all its blobs are stored.
LEMMA WriteIndexRefines ==
    ASSUME IInv, NEW p \in Proc, WriteIndex(p)
    PROVE  [Store!Next]_(Store!vars)
<1>1. /\ mem[p].mfst \in Manifest /\ mblob[mem[p].mfst] = "good"
      /\ Objects[mem[p].mfst] \subseteq Stored
    BY LockedFacts DEF WriteIndex, At, Working
<1>2. CASE index' = mem[p].mfst
    <2>1. Store!Publish(mem[p].mfst)
        BY <1>1, <1>2 DEF WriteIndex, files, Store!Publish, Stored
    <2> QED
        BY <1>1, <2>1 DEF Store!Next
<1>3. CASE UNCHANGED index
    BY <1>3, Stutters DEF WriteIndex, files
<1> QED
    BY <1>2, <1>3 DEF WriteIndex

LEMMA NextRefines == IInv /\ [Next]_vars => [Store!Next]_(Store!vars)
<1> SUFFICES ASSUME IInv, [Next]_vars PROVE [Store!Next]_(Store!vars)
    OBVIOUS
<1>1. ASSUME NEW p \in Proc, Run(p) PROVE UNCHANGED Store!vars
    BY <1>1, Stutters DEF Run, Start, files, layout
<1>2. ASSUME NEW p \in Proc, BuildStep(p) PROVE [Store!Next]_(Store!vars)
    <2>1. CASE LockImageDir(p) \/ LoadState(p) \/ MirrorManifest(p) \/ SaveNow(p)
        BY <2>1, Stutters DEF LockImageDir, LoadState, MirrorManifest, SaveNow, files, layout
    <2>2. CASE StoreManifestBlob(p)
        BY <2>2, StoreManifestRefines
    <2>3. CASE \E d \in Digest : ReconcileBlob(p, d)
        BY <2>3, ReconcileBlobRefines
    <2>4. CASE ReconcilePart(p)
        BY <2>4, ReconcileRefines
    <2> QED
        BY <1>2, <2>1, <2>2, <2>3, <2>4 DEF BuildStep
<1>3. ASSUME NEW p \in Proc, CommitStep(p) PROVE UNCHANGED Store!vars
    BY <1>3, Stutters DEF CommitStep, CommitRemovesCtrl, MarkCommitted, RemoveOrphanCtrl,
       files, layout
<1>4. ASSUME NEW p \in Proc, DownloadStep(p) PROVE [Store!Next]_(Store!vars)
    <2>1. CASE ConnectAria2(p) \/ RunReturns(p)
        BY <2>1, Stutters DEF ConnectAria2, RunReturns, files, layout
    <2>2. ASSUME NEW d \in Digest, DiscardPart(p, d) \/ SubmitTask(p, d) PROVE UNCHANGED Store!vars
        BY <2>2, Stutters DEF DiscardPart, SubmitTask, layout
    <2> QED
        BY <1>4, <2>1, <2>2, VerifyAndCommitRefines DEF DownloadStep
<1>5. ASSUME NEW p \in Proc, LayoutStep(p) PROVE [Store!Next]_(Store!vars)
    <2>1. CASE SaveFinal(p) \/ EnsureLayout(p) \/ Export(p) \/ ReleaseUnlocks(p)
        BY <2>1, Stutters DEF SaveFinal, EnsureLayout, Export, ReleaseUnlocks, files, layout
    <2>2. CASE ReleaseSaves(p)
        BY <2>2, Stutters DEF ReleaseSaves, layout
    <2>3. CASE WriteIndex(p)
        BY <2>3, WriteIndexRefines
    <2> QED
        BY <1>5, <2>1, <2>2, <2>3 DEF LayoutStep
<1>6. ASSUME NEW p \in Proc, Tick(p) \/ BuildFails(p) \/ Crash(p) \/ LearnRangeBlind(p)
      PROVE UNCHANGED Store!vars
    BY <1>6, Stutters DEF Tick, BuildFails, Crash, LearnRangeBlind, files, layout
<1>7. ASSUME NEW p \in Proc, NEW d \in Digest, MarkRangeUnsupported(p, d)
      PROVE UNCHANGED Store!vars
    BY <1>7, Stutters DEF MarkRangeUnsupported, files, layout
<1>8. ASSUME NEW d \in Digest, Aria2Write(d) \/ Aria2Stops(d) PROVE UNCHANGED Store!vars
    BY <1>8, Stutters DEF Aria2Write, Aria2Stops, layout
<1>9. CASE UNCHANGED vars
    BY <1>9, Stutters DEF vars, files, layout
<1> QED
    BY <1>1, <1>2, <1>3, <1>4, <1>5, <1>6, <1>7, <1>8, <1>9 DEF Next, Step

\* The directory implements the abstract layout store: blobs are only added
\* and an image is published only once it is complete.
THEOREM Implements == Spec => ImplementsStore
<1>1. Init => Store!Init
    BY InitRefines
<1>2. IInv /\ [Next]_vars => [Store!Next]_(Store!vars)
    BY NextRefines
<1> QED
    BY <1>1, <1>2, Invariant, PTL DEF Spec, ImplementsStore, Store!Spec

------------------------------------------------------------------------------
(* What is given up, and what is reported                                   *)

\* All that a resumable .part depends on: who deletes one has taken its digest
\* from the manifest, or holds the lock.
PartFacts ==
    /\ part \in [Digest -> PartContent]
    /\ \A p \in Proc : At(p, "part") => mem[p].cur \in Digest
    /\ \A p \in Proc : At(p, "download") => lock = p

\* A .part that step removes is not partial unless the source is known blind.
LEMMA GivesUp ==
    ASSUME part \in [Digest -> PartContent], NEW e \in Digest, Unlink(e),
           part[e] = "partial" => KnownBlind(e),
           NEW d \in Digest, Resumable(d), part'[d] = "none"
    PROVE  KnownBlind(d)
BY DEF Unlink, Resumable

LEMMA PartialKept ==
    ASSUME PartFacts, [RotNext]_vars, NEW d \in Digest, Resumable(d), part'[d] = "none"
    PROVE  KnownBlind(d)
<1>1. ASSUME NEW p \in Proc, ReconcilePart(p) PROVE KnownBlind(d)
    <2>1. mem[p].cur \in Digest
        BY <1>1 DEF PartFacts, ReconcilePart
    <2>2. CASE UNCHANGED part
        BY <2>2 DEF Resumable
    <2>3. CASE part[mem[p].cur] # "partial" /\ Unlink(mem[p].cur)
        BY <2>1, <2>3, GivesUp DEF PartFacts
    <2> QED
        BY <1>1, <2>2, <2>3 DEF ReconcilePart, RenamePart, Verified, files
<1>2. ASSUME NEW p \in Proc, NEW e \in Digest, VerifyAndCommit(p, e) PROVE KnownBlind(d)
    <2>1. CASE UNCHANGED part
        BY <2>1 DEF Resumable
    <2>2. CASE part[e] # "partial" /\ Unlink(e)
        BY <2>2, GivesUp DEF PartFacts
    <2> QED
        BY <1>2, <2>1, <2>2 DEF VerifyAndCommit, FullSize, RenamePart
<1>3. ASSUME NEW p \in Proc, NEW e \in Digest, DiscardPart(p, e) PROVE KnownBlind(d)
    <2>1. lock = p
        BY <1>3 DEF PartFacts, DiscardPart
    <2>2. part[e] = "partial" => KnownBlind(e)
        BY <1>3, <2>1 DEF DiscardPart, Discardable, Overtaken, KnownBlind
    <2> QED
        BY <1>3, <2>2, GivesUp DEF PartFacts, DiscardPart
<1>4. ASSUME NEW e \in Digest, Aria2Write(e) PROVE KnownBlind(d)
    BY <1>4 DEF PartFacts, Aria2Write, Resumable
<1>5. ASSUME NEW p \in Proc, Step(p)
      PROVE  \/ UNCHANGED part \/ ReconcilePart(p)
             \/ \E e \in Digest : VerifyAndCommit(p, e) \/ DiscardPart(p, e)
    <2>1. BuildStep(p) => UNCHANGED part \/ ReconcilePart(p)
        BY DEF BuildStep, LockImageDir, LoadState, StoreManifestBlob, MirrorManifest,
           ReconcileBlob, SaveNow, files
    <2>2. CommitStep(p) => UNCHANGED part
        BY DEF CommitStep, CommitRemovesCtrl, MarkCommitted, RemoveOrphanCtrl, files
    <2>3. DownloadStep(p) =>
            UNCHANGED part \/ \E e \in Digest : VerifyAndCommit(p, e) \/ DiscardPart(p, e)
        BY DEF DownloadStep, ConnectAria2, SubmitTask, RunReturns, files
    <2>4. LayoutStep(p) => UNCHANGED part
        BY DEF LayoutStep, SaveFinal, EnsureLayout, WriteIndex, Export, ReleaseSaves,
           ReleaseUnlocks, files
    <2> QED
        BY <1>5, <2>1, <2>2, <2>3, <2>4 DEF Step
<1>6. ASSUME NEW p \in Proc,
             \/ Run(p) \/ Tick(p) \/ BuildFails(p) \/ Crash(p) \/ LearnRangeBlind(p)
             \/ \E e \in Digest : MarkRangeUnsupported(p, e)
      PROVE  UNCHANGED part
    BY <1>6 DEF Run, Start, Tick, BuildFails, Crash, LearnRangeBlind, MarkRangeUnsupported, files
<1>7. ASSUME NEW e \in Digest, Aria2Stops(e) PROVE UNCHANGED part
    BY <1>7 DEF Aria2Stops
<1>8. Rot => UNCHANGED part
    BY DEF Rot
<1>9. ~UNCHANGED part
    BY DEF Resumable
<1> QED
    BY <1>1, <1>2, <1>3, <1>4, <1>5, <1>6, <1>7, <1>8, <1>9 DEF RotNext, Next, vars, files

\* No step of any run gives up a resumable .part unless the process that
\* holds the directory knows that the source ignores Range.
THEOREM PartialsAlwaysKept == Spec => KeepsPartial
<1>1. IInv /\ [Next]_vars =>
        [\A d \in Digest : Resumable(d) /\ part'[d] = "none" => KnownBlind(d)]_vars
    <2>1. IInv => PartFacts
        BY CommitFacts, DownloadFacts DEF PartFacts, At, IInv, TypeOK
    <2> QED
        BY <2>1, PartialKept DEF RotNext
<1> QED
    BY <1>1, Invariant, PTL DEF Spec, KeepsPartial

\* A step brings nobody to the summary and changes nobody's manifest there.
NoneReports ==
    \A q \in Proc : mem'[q].pc = "export" => mem[q].pc = "export" /\ mem'[q].mfst = mem[q].mfst

LEMMA BecomeReports ==
    ASSUME IInv, NEW p \in Proc, NEW m, Become(p, m),
           m.pc = "export" => mem[p].pc = "export" /\ m.mfst = mem[p].mfst
    PROVE  NoneReports
BY DEF Become, NoneReports, IInv, TypeOK

\* Persist makes p's memory the given one, as far as locations go.
LEMMA PersistReports ==
    ASSUME IInv, NEW p \in Proc, NEW m \in Memory, Persist(p, m), m.pc # "export"
    PROVE  NoneReports
<1>1. [m EXCEPT !.recent = TRUE].pc = m.pc
    BY DEF Memory
<1> QED
    BY <1>1, BecomeReports DEF Persist

LEMMA GotoReports ==
    ASSUME IInv, NEW p \in Proc, NEW l, l # "export", Goto(p, l)
    PROVE  NoneReports
<1>1. [mem[p] EXCEPT !.pc = l].pc = l
    BY DEF IInv, TypeOK, Memory
<1> QED
    BY <1>1, BecomeReports DEF Goto

LEMMA BuildReports ==
    ASSUME IInv, NEW p \in Proc, Run(p) \/ BuildStep(p) \/ BuildFails(p) \/ Crash(p) \/ Tick(p)
    PROVE  NoneReports /\ UNCHANGED index
<1>1. mem[p] \in Memory
    BY DEF IInv, TypeOK
<1>2. Idle.pc = "idle"
    BY DEF Idle
<1>3. CASE Run(p)
    BY <1>3, BecomeReports DEF Run, Start, Idle, layout
<1>4. CASE LockImageDir(p)
    BY <1>2, <1>4, GotoReports, BecomeReports DEF LockImageDir, layout
<1>5. CASE LoadState(p)
    BY <1>1, <1>5, BecomeReports DEF LoadState, Memory, layout
<1>6. CASE StoreManifestBlob(p)
    BY <1>1, <1>6, BecomeReports, GotoReports DEF StoreManifestBlob, Memory
<1>7. CASE MirrorManifest(p)
    BY <1>1, <1>7, BecomeReports DEF MirrorManifest, Memory
<1>8. ASSUME NEW d \in Digest, ReconcileBlob(p, d) PROVE NoneReports /\ UNCHANGED index
    <2>1. At(p, "reconcile") /\ UNCHANGED index
        BY <1>8 DEF ReconcileBlob, layout
    <2> DEFINE m == [mem[p] EXCEPT !.todo = @ \ {d}, !.blind = @ \cup Carried(mem[p], d)]
    <2>2. CASE Become(p, [m EXCEPT !.done = @ \cup {d}])
        BY <1>1, <2>1, <2>2, BecomeReports DEF Memory, At
    <2>3. CASE Become(p, [m EXCEPT !.pc = "part", !.cur = d])
        BY <1>1, <2>1, <2>3, BecomeReports DEF Memory
    <2> QED
        BY <1>8, <2>1, <2>2, <2>3 DEF ReconcileBlob
<1>9. CASE ReconcilePart(p)
    <2>1. UNCHANGED index
        BY <1>9 DEF ReconcilePart, layout
    <2>2. ASSUME NEW l \in {"ctrl", "clean"},
                 Become(p, [mem[p] EXCEPT !.pc = l, !.back = "reconcile"])
          PROVE  NoneReports
        BY <1>1, <2>2, BecomeReports DEF Memory
    <2>3. CASE Goto(p, "reconcile")
        BY <2>1, <2>3, GotoReports
    <2> QED
        BY <1>9, <2>1, <2>2, <2>3 DEF ReconcilePart
<1>10. CASE SaveNow(p)
    <2>1. UNCHANGED index
        BY <1>10 DEF SaveNow, layout
    <2>2. CASE Become(p, Idle)
        BY <1>2, <2>1, <2>2, BecomeReports
    <2>3. ASSUME NEW l \in {"final", "connect"},
                 Become(p, [[mem[p] EXCEPT !.pc = l] EXCEPT !.recent = TRUE])
          PROVE  NoneReports
        BY <1>1, <2>3, BecomeReports DEF Memory
    <2> QED
        BY <1>10, <2>1, <2>2, <2>3 DEF SaveNow
<1>11. CASE BuildFails(p)
    BY <1>2, <1>11, BecomeReports DEF BuildFails, layout
<1>12. CASE Crash(p)
    BY <1>2, <1>12, BecomeReports DEF Crash, layout
<1>13. CASE Tick(p)
    BY <1>1, <1>13, BecomeReports DEF Tick, Memory, layout
<1> QED
    BY <1>3, <1>4, <1>5, <1>6, <1>7, <1>8, <1>9, <1>10, <1>11, <1>12, <1>13 DEF BuildStep

LEMMA DownloadReports ==
    ASSUME IInv, NEW p \in Proc,
           \/ CommitStep(p) \/ DownloadStep(p) \/ LearnRangeBlind(p)
           \/ \E d \in Digest : MarkRangeUnsupported(p, d)
    PROVE  NoneReports /\ UNCHANGED index
<1>1. mem[p] \in Memory
    BY DEF IInv, TypeOK
<1>2. mem[p].back \in {"reconcile", "download"}
    BY <1>1 DEF Memory
<1>3. CASE CommitStep(p)
    <2>1. CASE CommitRemovesCtrl(p) \/ RemoveOrphanCtrl(p)
        BY <1>2, <2>1, GotoReports DEF CommitRemovesCtrl, RemoveOrphanCtrl, layout
    <2>2. CASE MarkCommitted(p)
        <3> DEFINE m == [mem[p] EXCEPT !.pc = mem[p].back, !.done = @ \cup {mem[p].cur}]
        <3>1. mem[p].cur \in Digest
            BY <2>2, CommitFacts DEF MarkCommitted, At
        <3>2. m \in Memory /\ m.pc # "export"
            BY <1>1, <1>2, <3>1 DEF Memory, Location
        <3>3. Persist(p, m) /\ UNCHANGED index
            BY <2>2 DEF MarkCommitted, layout
        <3> HIDE DEF m
        <3> QED
            BY <3>2, <3>3, PersistReports
    <2> QED
        BY <1>3, <2>1, <2>2 DEF CommitStep
<1>4. CASE ConnectAria2(p) \/ RunReturns(p)
    BY <1>4, GotoReports DEF ConnectAria2, RunReturns, layout
<1>5. ASSUME NEW d \in Digest, VerifyAndCommit(p, d) \/ DiscardPart(p, d)
      PROVE  NoneReports /\ UNCHANGED index
    <2>1. UNCHANGED index
        BY <1>5 DEF VerifyAndCommit, DiscardPart, layout
    <2>2. ASSUME NEW l \in {"ctrl", "clean"},
                 Become(p, [mem[p] EXCEPT !.pc = l, !.cur = d, !.back = "download"])
          PROVE  NoneReports
        BY <1>1, <2>2, BecomeReports DEF Memory
    <2>3. CASE UNCHANGED mem
        BY <2>1, <2>3 DEF NoneReports
    <2> QED
        BY <1>5, <2>1, <2>2, <2>3 DEF VerifyAndCommit, DiscardPart
<1>6. ASSUME NEW d \in Digest, SubmitTask(p, d) PROVE NoneReports /\ UNCHANGED index
    BY <1>1, <1>6, PersistReports DEF SubmitTask, At, layout
<1>7. CASE LearnRangeBlind(p)
    BY <1>1, <1>7, BecomeReports DEF LearnRangeBlind, Memory, layout
<1>8. ASSUME NEW d \in Digest, MarkRangeUnsupported(p, d) PROVE NoneReports /\ UNCHANGED index
    <2> DEFINE m == [mem[p] EXCEPT !.blind = @ \cup {d}]
    <2>1. m \in Memory /\ m.pc # "export"
        BY <1>1, <1>8 DEF MarkRangeUnsupported, At, Memory
    <2>2. Persist(p, m) /\ UNCHANGED index
        BY <1>8 DEF MarkRangeUnsupported, layout
    <2> HIDE DEF m
    <2> QED
        BY <2>1, <2>2, PersistReports
<1> QED
    BY <1>3, <1>4, <1>5, <1>6, <1>7, <1>8 DEF DownloadStep

LEMMA LayoutReports ==
    ASSUME IInv, NEW p \in Proc, LayoutStep(p), ~WriteIndex(p)
    PROVE  NoneReports /\ UNCHANGED index
<1>1. mem[p] \in Memory
    BY DEF IInv, TypeOK
<1>2. CASE SaveFinal(p)
    <2> DEFINE m == [mem[p] EXCEPT !.pc = "layout", !.recent = FALSE]
    <2>1. m \in Memory /\ m.pc # "export"
        BY <1>1 DEF Memory, Location
    <2>2. Persist(p, m) /\ UNCHANGED index
        BY <1>2 DEF SaveFinal, layout
    <2> HIDE DEF m
    <2> QED
        BY <2>1, <2>2, PersistReports
<1>3. CASE ReleaseSaves(p)
    <2> DEFINE m == [mem[p] EXCEPT !.pc = "unlock", !.recent = FALSE]
    <2>1. m \in Memory /\ m.pc # "export"
        BY <1>1 DEF Memory, Location
    <2>2. Persist(p, m) /\ UNCHANGED index
        BY <1>3 DEF ReleaseSaves, layout
    <2> HIDE DEF m
    <2> QED
        BY <2>1, <2>2, PersistReports
<1>4. CASE EnsureLayout(p) \/ Export(p)
    BY <1>4, GotoReports DEF EnsureLayout, Export, layout
<1>5. CASE ReleaseUnlocks(p)
    <2>1. Idle.pc = "idle"
        BY DEF Idle
    <2> QED
        BY <1>5, <2>1, BecomeReports DEF ReleaseUnlocks, layout
<1> QED
    BY <1>2, <1>3, <1>4, <1>5 DEF LayoutStep

\* The one step that publishes: only p is past the lock, and it reports what
\* it has just written.
LEMMA WriteIndexReports ==
    ASSUME IInv, ReportsPublished, NEW p \in Proc, WriteIndex(p)
    PROVE  ReportsPublished'
<1>1. mem[p] \in Memory /\ lock = p
    BY LockedFacts DEF WriteIndex, At, Working
<1>2. \A q \in Proc : q # p => mem'[q] = mem[q] /\ mem[q].pc # "export"
    <2>1. mem \in [Proc -> Memory] /\ \A q \in Proc : mem[q].pc = "export" => lock = q
        BY DEF IInv, TypeOK, Safe, ProcSafe, At
    <2> QED
        BY <1>1, <2>1 DEF WriteIndex, Goto, Become
<1>3. mem'[p].mfst = mem[p].mfst
    BY <1>1 DEF WriteIndex, Goto, Become, IInv, TypeOK, Memory
<1>4. mem'[p].pc = "export" => index' = mem[p].mfst
    BY <1>1 DEF WriteIndex, Goto, Become, IInv, TypeOK, Memory
<1> QED
    BY <1>2, <1>3, <1>4 DEF ReportsPublished, At

LEMMA NextReports == IInv /\ ReportsPublished /\ [Next]_vars => ReportsPublished'
<1> SUFFICES ASSUME IInv, ReportsPublished, [Next]_vars PROVE ReportsPublished'
    OBVIOUS
<1>1. CASE NoneReports /\ UNCHANGED index
    BY <1>1 DEF NoneReports, ReportsPublished, At
<1>2. ASSUME NEW p \in Proc, Step(p) PROVE (NoneReports /\ UNCHANGED index) \/ WriteIndex(p)
    BY <1>2, BuildReports, DownloadReports, LayoutReports DEF Step
<1>3. ASSUME NEW d \in Digest, Aria2Write(d) \/ Aria2Stops(d) PROVE NoneReports /\ UNCHANGED index
    BY <1>3 DEF Aria2Write, Aria2Stops, NoneReports, layout
<1>4. CASE UNCHANGED vars
    BY <1>1, <1>4 DEF vars, NoneReports, layout
<1>5. ASSUME NEW p \in Proc, WriteIndex(p) PROVE ReportsPublished'
    BY <1>5, WriteIndexReports
<1> QED
    BY <1>1, <1>2, <1>3, <1>4, <1>5, BuildReports, DownloadReports DEF Next

\* However many processes run on the directory, and whatever manifests they
\* resolved, one that reports success has its own manifest in index.json.
THEOREM ReportsAlwaysPublished == Spec => []ReportsPublished
<1>1. Init => ReportsPublished
    BY DEF Init, Idle, ReportsPublished, At
<1> QED
    BY <1>1, Invariant, NextReports, PTL DEF Spec
==============================================================================
