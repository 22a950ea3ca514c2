-------------------------- MODULE ImageDirRotProofs --------------------------
(***************************************************************************)
(* What a finished run leaves behind when blobs, manifests and state.json  *)
(* may be damaged or lost between runs: under --verify a valid image,      *)
(* otherwise at least every blob; and in either case the image it reports, *)
(* and each resumable .part. Blobs need not be valid here, and state.json  *)
(* need not be truthful, so the argument is about what the holder of the   *)
(* lock has looked at itself.                                              *)
(***************************************************************************)
EXTENDS ImageDirProofs

Inside(p) == mem[p].pc \notin {"idle", "lock"}

Present == {d \in Digest : blob[d] # "none"}

\* What Build asks of a committed object's blob.
Kept(verify) == IF verify THEN Stored ELSE Present

Finishing == {"final", "layout", "index", "export"}

\* Whoever is inside the lock has, for every object it calls committed, seen
\* the blob or put it there since it took the lock.
Healthy(p) ==
    /\ ~Inside(p) => mem[p].done = {}
    /\ mem[p].pc # "idle" => mem[p].mfst \in Manifest
    /\ Inside(p) => lock = p
    /\ mem[p].done \subseteq Kept(mem[p].verify)
    /\ mem[p].pc \in Working => mblob[mem[p].mfst] = "good"
    /\ mem[p].pc \in {"part", "clean", "ctrl", "mark"} => mem[p].cur \in Digest
    /\ mem[p].pc \in {"ctrl", "mark"} => mem[p].cur \in Stored
    /\ mem[p].pc \in Finishing => Objects[mem[p].mfst] \subseteq mem[p].done
    /\ mem[p].pc = "export" => index = mem[p].mfst

HealthType ==
    /\ stateFile \in State \cup {None}
    /\ blob \in [Digest -> BlobContent]
    /\ mblob \in [Manifest -> BlobContent]
    /\ mem \in [Proc -> Memory]

HealthInv == HealthType /\ \A p \in Proc : Healthy(p)

------------------------------------------------------------------------------
(* Lemmas                                                                   *)

LEMMA StoredPresent == Stored \subseteq Present
BY DEF Stored, Present

\* Only the process inside the lock touches what anyone relies on.
LEMMA StepHealthy ==
    ASSUME HealthInv, NEW p \in Proc, NEW m \in Memory, Become(p, m),
           stateFile' \in State \cup {None},
           blob' \in [Digest -> BlobContent], mblob' \in [Manifest -> BlobContent],
           Inside(p) \/ UNCHANGED <<blob, mblob, index>>,
           lock' = lock \/ lock \in {None, p},
           mem'[p] = m => Healthy(p)'
    PROVE  HealthInv'
<1>1. /\ mem' \in [Proc -> Memory] /\ mem'[p] = m
      /\ \A q \in Proc : q # p => mem'[q] = mem[q]
    BY BecomeType DEF HealthInv, HealthType
<1>2. ASSUME NEW q \in Proc, q # p, ~Inside(q) PROVE Healthy(q)'
    BY <1>1, <1>2 DEF HealthInv, Healthy, Inside, Working, Finishing
<1>3. ASSUME NEW q \in Proc, q # p, Inside(q) PROVE Healthy(q)'
    <2>1. Healthy(q) /\ Healthy(p)
        BY DEF HealthInv
    <2>2. lock = q /\ ~Inside(p)
        BY <1>3, <2>1 DEF Healthy
    <2>3. UNCHANGED <<blob, mblob, index, lock>>
        BY <1>3, <2>2, NoneAssumption
    <2>4. UNCHANGED <<Stored, Present>>
        BY <2>3 DEF Stored, Present
    <2>5. mem'[q] = mem[q]
        BY <1>1, <1>3
    <2> QED
        BY <2>1, <2>3, <2>4, <2>5 DEF Healthy, Inside, Kept
<1> QED
    BY <1>1, <1>2, <1>3 DEF HealthInv, HealthType

\* A step inside the lock after which p relies on the same blobs.
LEMMA MoveHealthy ==
    ASSUME HealthInv, NEW p \in Proc, Inside(p), NEW m \in Memory, Become(p, m),
           stateFile' \in State \cup {None},
           UNCHANGED <<lock, blob>>,
           mblob' \in [Manifest -> BlobContent],
           m.pc \notin {"idle", "lock"},
           m.mfst = mem[p].mfst, m.verify = mem[p].verify, m.done = mem[p].done,
           m.pc \in Working => mblob'[m.mfst] = "good",
           m.pc \in {"part", "clean", "ctrl", "mark"} => m.cur \in Digest,
           m.pc \in {"ctrl", "mark"} => m.cur \in Stored,
           m.pc \in Finishing => Objects[m.mfst] \subseteq m.done,
           m.pc = "export" => index' = m.mfst
    PROVE  HealthInv'
<1>1. Healthy(p)
    BY DEF HealthInv
<1>2. UNCHANGED <<Stored, Present>>
    BY DEF Stored, Present
<1>3. mem'[p] = m => Healthy(p)'
    BY <1>1, <1>2 DEF Healthy, Inside, Kept
<1> QED
    BY <1>3, StepHealthy DEF HealthInv, HealthType

\* p is no longer there; nobody relies on its memory any more.
LEMMA LeaveHealthy ==
    ASSUME HealthInv, NEW p \in Proc, Become(p, Idle),
           UNCHANGED <<stateFile, blob, mblob, index>>,
           lock' = lock \/ lock \in {None, p}
    PROVE  HealthInv'
<1>1. mem'[p] = Idle => Healthy(p)'
    BY DEF Idle, Healthy, Inside, Working, Finishing
<1> QED
    BY <1>1, IdleType, StepHealthy DEF HealthInv, HealthType

LEMMA PersistHealthy ==
    ASSUME HealthType, NEW p \in Proc, NEW m \in Memory, m.mfst \in Manifest, Persist(p, m)
    PROVE  /\ Become(p, [m EXCEPT !.recent = TRUE])
           /\ [m EXCEPT !.recent = TRUE] \in Memory
           /\ stateFile' \in State \cup {None}
<1>1. Snapshot(m) \in State
    BY DEF Snapshot, State, Memory
<1> QED
    BY <1>1 DEF Persist, Memory, HealthType

\* What p knows when it is inside the lock.
LEMMA InsideFacts ==
    ASSUME HealthInv, NEW p \in Proc, Inside(p)
    PROVE  /\ Healthy(p)
           /\ mem[p] \in Memory
           /\ mem[p].mfst \in Manifest
           /\ lock = p
           /\ HealthType
BY DEF HealthInv, HealthType, Healthy, Inside

------------------------------------------------------------------------------
(* Steps                                                                    *)

LEMMA BuildHealthy ==
    ASSUME HealthInv, NEW p \in Proc,
           LockImageDir(p) \/ LoadState(p) \/ StoreManifestBlob(p) \/ MirrorManifest(p)
    PROVE  HealthInv'
<1>1. CASE LockImageDir(p) /\ lock = None /\ lock' = p /\ Goto(p, "load")
    <2> DEFINE m == [mem[p] EXCEPT !.pc = "load"]
    <2>1. mem[p] \in Memory /\ Healthy(p) /\ mem[p].pc = "lock"
        BY <1>1 DEF LockImageDir, At, HealthInv, HealthType
    <2>2. /\ m \in Memory /\ m.pc = "load" /\ m.mfst = mem[p].mfst
          /\ m.done = mem[p].done /\ m.verify = mem[p].verify
        BY <2>1 DEF Memory, Location
    <2>3. mem'[p] = m => Healthy(p)'
        BY <1>1, <2>1, <2>2 DEF Healthy, Inside, Working, Finishing
    <2> QED
        BY <1>1, <2>2, <2>3, StepHealthy
           DEF LockImageDir, Goto, HealthInv, HealthType, files, layout
<1>2. CASE LockImageDir(p) /\ UNCHANGED lock /\ Become(p, Idle)
    BY <1>2, LeaveHealthy DEF LockImageDir, files, layout
<1>3. CASE LoadState(p)
    <2> DEFINE prev == IF Adoptable(stateFile, mem[p].mfst)
                       THEN [done |-> stateFile.done, blind |-> stateFile.blind]
                       ELSE Empty
               m == [mem[p] EXCEPT !.pc = "store", !.prev = prev]
    <2>1. Inside(p)
        BY <1>3 DEF LoadState, At, Inside
    <2>2. mem[p] \in Memory /\ HealthType
        BY <2>1, InsideFacts
    <2>3. prev \in [done : SUBSET Digest, blind : SUBSET Digest]
        BY <2>2 DEF Adoptable, HealthType, State, Empty
    <2>4. /\ m \in Memory /\ m.pc = "store" /\ m.mfst = mem[p].mfst
          /\ m.done = mem[p].done /\ m.verify = mem[p].verify
        BY <2>2, <2>3 DEF Memory, Location
    <2> QED
        BY <1>3, <2>1, <2>2, <2>4, MoveHealthy
           DEF LoadState, HealthType, Working, Finishing, files, layout
<1>4. CASE StoreManifestBlob(p) /\ Verified(mblob[mem[p].mfst])
    <2> DEFINE m == [mem[p] EXCEPT !.pc = "reconcile", !.todo = Objects[mem[p].mfst]]
    <2>1. Inside(p)
        BY <1>4 DEF StoreManifestBlob, At, Inside
    <2>2. mem[p] \in Memory /\ HealthType /\ mem[p].mfst \in Manifest
        BY <2>1, InsideFacts
    <2>3. /\ m \in Memory /\ m.pc = "reconcile" /\ m.mfst = mem[p].mfst
          /\ m.done = mem[p].done /\ m.verify = mem[p].verify
        BY <2>2, ObjectsAssumption DEF Memory, Location
    <2>4. Become(p, m) /\ UNCHANGED <<lock, stateFile, blob, mblob, index>>
        BY <1>4 DEF StoreManifestBlob, files
    <2> QED
        BY <1>4, <2>1, <2>2, <2>3, <2>4, MoveHealthy
           DEF HealthType, Verified, Finishing
<1>5. CASE StoreManifestBlob(p) /\ ~Verified(mblob[mem[p].mfst])
    <2> DEFINE m == [mem[p] EXCEPT !.pc = "mirror"]
    <2>1. Inside(p)
        BY <1>5 DEF StoreManifestBlob, At, Inside
    <2>2. mem[p] \in Memory /\ HealthType /\ mem[p].mfst \in Manifest
        BY <2>1, InsideFacts
    <2>3. /\ m \in Memory /\ m.pc = "mirror" /\ m.mfst = mem[p].mfst
          /\ m.done = mem[p].done /\ m.verify = mem[p].verify
        BY <2>2 DEF Memory, Location
    <2>4. /\ Become(p, m) /\ UNCHANGED <<lock, stateFile, blob, index>>
          /\ mblob' = [mblob EXCEPT ![mem[p].mfst] = "good"]
        BY <1>5 DEF StoreManifestBlob, Goto, files
    <2>5. mblob' \in [Manifest -> BlobContent] /\ mblob'[mem[p].mfst] = "good"
        BY <2>2, <2>4 DEF HealthType, BlobContent
    <2> QED
        BY <2>1, <2>2, <2>3, <2>4, <2>5, MoveHealthy DEF HealthType, Finishing
<1>6. CASE MirrorManifest(p)
    <2> DEFINE m == [mem[p] EXCEPT !.pc = "reconcile", !.todo = Objects[mem[p].mfst]]
    <2>1. Inside(p) /\ mem[p].pc \in Working
        BY <1>6 DEF MirrorManifest, At, Inside, Working
    <2>2. mem[p] \in Memory /\ HealthType /\ mem[p].mfst \in Manifest /\ Healthy(p)
        BY <2>1, InsideFacts
    <2>3. /\ m \in Memory /\ m.pc = "reconcile" /\ m.mfst = mem[p].mfst
          /\ m.done = mem[p].done /\ m.verify = mem[p].verify
        BY <2>2, ObjectsAssumption DEF Memory, Location
    <2>4. mblob[mem[p].mfst] = "good"
        BY <2>1, <2>2 DEF Healthy
    <2> QED
        BY <1>6, <2>1, <2>2, <2>3, <2>4, MoveHealthy
           DEF MirrorManifest, HealthType, Finishing, files
<1> QED
    BY <1>1, <1>2, <1>3, <1>4, <1>5, <1>6 DEF LockImageDir

\* An object enters done only when its blob was seen, valid under --verify;
\* and only an invalid one, which is not in done then, is removed.
LEMMA ReconcileBlobHealthy ==
    ASSUME HealthInv, NEW p \in Proc, NEW d \in Digest, ReconcileBlob(p, d)
    PROVE  HealthInv'
<1> DEFINE k == [mem[p] EXCEPT !.todo = @ \ {d}, !.blind = @ \cup Carried(mem[p], d)]
<1>1. Inside(p) /\ mem[p].pc = "reconcile" /\ mem[p].pc \in Working
    BY DEF ReconcileBlob, At, Inside, Working
<1>2. mem[p] \in Memory /\ HealthType /\ mem[p].mfst \in Manifest /\ Healthy(p) /\ lock = p
    BY <1>1, InsideFacts
<1>3. /\ k \in Memory /\ k.pc = "reconcile" /\ k.mfst = mem[p].mfst
      /\ k.done = mem[p].done /\ k.verify = mem[p].verify
    BY <1>1, <1>2 DEF Memory, Carried
<1>4. mblob[mem[p].mfst] = "good" /\ mem[p].done \subseteq Kept(mem[p].verify)
    BY <1>1, <1>2 DEF Healthy
<1>5. CASE Acceptable(mem[p], d)
    <2> DEFINE m == [k EXCEPT !.done = @ \cup {d}]
    <2>1. /\ m \in Memory /\ m.pc = "reconcile" /\ m.mfst = mem[p].mfst
          /\ m.done = mem[p].done \cup {d} /\ m.verify = mem[p].verify
        BY <1>3 DEF Memory
    <2>2. Become(p, m) /\ UNCHANGED <<lock, stateFile, blob, mblob, index>>
        BY <1>5 DEF ReconcileBlob, layout
    <2>3. d \in Kept(mem[p].verify)
        BY <1>5 DEF Acceptable, Trusted, Verified, Kept, Stored, Present
    <2>4. UNCHANGED <<Stored, Present>>
        BY <2>2 DEF Stored, Present
    <2>5. mem'[p] = m => Healthy(p)'
        BY <1>2, <1>4, <2>1, <2>2, <2>3, <2>4 DEF Healthy, Inside, Kept, Finishing
    <2> QED
        BY <1>1, <1>2, <2>1, <2>2, <2>5, StepHealthy DEF HealthType
<1>6. CASE ~Acceptable(mem[p], d)
    <2> DEFINE m == [k EXCEPT !.pc = "part", !.cur = d]
    <2>1. /\ m \in Memory /\ m.pc = "part" /\ m.mfst = mem[p].mfst /\ m.cur = d
          /\ m.done = mem[p].done /\ m.verify = mem[p].verify
        BY <1>3 DEF Memory, Location
    <2>2. /\ Become(p, m) /\ UNCHANGED <<lock, stateFile, mblob, index>>
          /\ blob' = IF k.verify THEN [blob EXCEPT ![d] = "none"] ELSE blob
        BY <1>6 DEF ReconcileBlob, layout
    <2>3. blob[d] # "good"
        BY <1>6 DEF Acceptable, Verified
    <2>4. blob' \in [Digest -> BlobContent]
        BY <1>2, <2>2 DEF HealthType, BlobContent
    <2>5. Stored' = Stored
        BY <1>2, <2>2, <2>3 DEF Stored, HealthType
    <2>6. ~mem[p].verify => Present' = Present
        BY <1>3, <2>2 DEF Present
    <2>7. mem'[p] = m => Healthy(p)'
        BY <1>2, <1>4, <2>1, <2>2, <2>5, <2>6 DEF Healthy, Inside, Kept, Finishing
    <2> QED
        BY <1>1, <1>2, <2>1, <2>2, <2>4, <2>7, StepHealthy DEF HealthType
<1> QED
    BY <1>5, <1>6

\* Renaming a verified .part never makes a blob worse, whatever was there.
LEMMA RenameHealthy ==
    ASSUME HealthInv, NEW p \in Proc, mem[p].pc \in {"part", "download"},
           NEW d \in Digest, Verified(part[d]), RenamePart(d),
           NEW b \in {"reconcile", "download"},
           Become(p, [mem[p] EXCEPT !.pc = "ctrl", !.cur = d, !.back = b]),
           UNCHANGED <<lock, stateFile, mblob, index>>
    PROVE  HealthInv'
<1> DEFINE m == [mem[p] EXCEPT !.pc = "ctrl", !.cur = d, !.back = b]
<1>1. Inside(p) /\ mem[p].pc \in Working
    BY DEF Inside, Working
<1>2. mem[p] \in Memory /\ HealthType /\ mem[p].mfst \in Manifest /\ Healthy(p) /\ lock = p
    BY <1>1, InsideFacts
<1>3. /\ m \in Memory /\ m.pc = "ctrl" /\ m.mfst = mem[p].mfst /\ m.cur = d
      /\ m.done = mem[p].done /\ m.verify = mem[p].verify
    BY <1>2 DEF Memory, Location
<1>4. blob' = [blob EXCEPT ![d] = "good"]
    BY DEF RenamePart, Verified
<1>5. blob' \in [Digest -> BlobContent]
    BY <1>2, <1>4 DEF HealthType, BlobContent
<1>6. d \in Stored' /\ Stored \subseteq Stored' /\ Present \subseteq Present'
    BY <1>2, <1>4 DEF HealthType, Stored, Present
<1>7. mblob[mem[p].mfst] = "good" /\ mem[p].done \subseteq Kept(mem[p].verify)
    BY <1>1, <1>2 DEF Healthy
<1>8. mem'[p] = m => Healthy(p)'
    BY <1>2, <1>3, <1>6, <1>7 DEF Healthy, Inside, Kept, Finishing
<1> QED
    BY <1>1, <1>2, <1>3, <1>5, <1>8, StepHealthy DEF HealthType

\* p goes on inside the lock, with the same memory but for a few fields.
LEMMA OnHealthy ==
    ASSUME HealthInv, NEW p \in Proc, mem[p].pc \in Working,
           NEW m \in Memory, Become(p, m),
           stateFile' \in State \cup {None},
           UNCHANGED <<lock, blob, mblob>>,
           m.pc \notin {"idle", "lock", "ctrl", "mark"},
           m.mfst = mem[p].mfst, m.verify = mem[p].verify, m.done = mem[p].done,
           m.pc \in {"part", "clean"} => m.cur \in Digest,
           m.pc \in Finishing => mem[p].pc \in Finishing \/ Objects[m.mfst] \subseteq m.done,
           m.pc = "export" => index' = m.mfst
    PROVE  HealthInv'
<1>1. Inside(p)
    BY DEF Inside, Working
<1>2. HealthType /\ Healthy(p)
    BY <1>1, InsideFacts
<1>3. mblob[m.mfst] = "good" /\ (m.pc \in Finishing => Objects[m.mfst] \subseteq m.done)
    BY <1>2 DEF Healthy
<1> QED
    BY <1>1, <1>2, <1>3, MoveHealthy DEF HealthType

LEMMA ReconcilePartHealthy ==
    ASSUME HealthInv, NEW p \in Proc, ReconcilePart(p)
    PROVE  HealthInv'
<1> DEFINE d == mem[p].cur
<1>1. mem[p].pc = "part" /\ mem[p].pc \in Working /\ Inside(p)
    BY DEF ReconcilePart, At, Working, Inside
<1>2. mem[p] \in Memory /\ HealthType /\ d \in Digest
    BY <1>1, InsideFacts DEF Healthy
<1>3. UNCHANGED <<lock, stateFile, mblob, index>>
    BY DEF ReconcilePart, layout
<1>4. CASE /\ Verified(part[d]) /\ RenamePart(d)
           /\ Become(p, [mem[p] EXCEPT !.pc = "ctrl", !.back = "reconcile"])
    <2>1. [mem[p] EXCEPT !.pc = "ctrl", !.back = "reconcile"]
            = [mem[p] EXCEPT !.pc = "ctrl", !.cur = d, !.back = "reconcile"]
        BY <1>2 DEF Memory
    <2> QED
        BY <1>1, <1>2, <1>3, <1>4, <2>1, RenameHealthy
<1>5. CASE Goto(p, "reconcile") /\ UNCHANGED blob
    <2> DEFINE m == [mem[p] EXCEPT !.pc = "reconcile"]
    <2>1. /\ m \in Memory /\ m.pc = "reconcile" /\ m.mfst = mem[p].mfst
          /\ m.done = mem[p].done /\ m.verify = mem[p].verify
        BY <1>2 DEF Memory, Location
    <2> QED
        BY <1>1, <1>2, <1>3, <1>5, <2>1, OnHealthy DEF Goto, HealthType, Finishing
<1>6. CASE /\ Become(p, [mem[p] EXCEPT !.pc = "clean", !.back = "reconcile"])
           /\ UNCHANGED blob
    <2> DEFINE m == [mem[p] EXCEPT !.pc = "clean", !.back = "reconcile"]
    <2>1. /\ m \in Memory /\ m.pc = "clean" /\ m.mfst = mem[p].mfst /\ m.cur = d
          /\ m.done = mem[p].done /\ m.verify = mem[p].verify
        BY <1>2 DEF Memory, Location
    <2> QED
        BY <1>1, <1>2, <1>3, <1>6, <2>1, OnHealthy DEF HealthType, Finishing
<1> QED
    BY <1>4, <1>5, <1>6 DEF ReconcilePart, files

LEMMA CommitHealthy ==
    ASSUME HealthInv, NEW p \in Proc, CommitStep(p)
    PROVE  HealthInv'
<1>1. mem[p].pc \in {"clean", "ctrl", "mark"} /\ mem[p].pc \in Working /\ Inside(p)
    BY DEF CommitStep, CommitRemovesCtrl, MarkCommitted, RemoveOrphanCtrl, At, Working, Inside
<1>2. /\ mem[p] \in Memory /\ HealthType /\ Healthy(p) /\ lock = p
      /\ mem[p].mfst \in Manifest /\ mem[p].cur \in Digest
    BY <1>1, InsideFacts DEF Healthy
<1>3. CASE RemoveOrphanCtrl(p)
    <2> DEFINE m == [mem[p] EXCEPT !.pc = mem[p].back]
    <2>1. /\ m \in Memory /\ m.pc \in {"reconcile", "download"} /\ m.mfst = mem[p].mfst
          /\ m.done = mem[p].done /\ m.verify = mem[p].verify
        BY <1>2 DEF Memory, Location
    <2> QED
        BY <1>1, <1>2, <1>3, <2>1, OnHealthy
           DEF RemoveOrphanCtrl, Goto, HealthType, Finishing, layout
<1>4. CASE CommitRemovesCtrl(p)
    <2> DEFINE m == [mem[p] EXCEPT !.pc = "mark"]
    <2>1. /\ m \in Memory /\ m.pc = "mark" /\ m.mfst = mem[p].mfst /\ m.cur = mem[p].cur
          /\ m.done = mem[p].done /\ m.verify = mem[p].verify
        BY <1>2 DEF Memory, Location
    <2>2. mem[p].cur \in Stored /\ mblob[mem[p].mfst] = "good"
        BY <1>1, <1>2, <1>4 DEF CommitRemovesCtrl, At, Healthy
    <2> QED
        BY <1>1, <1>2, <1>4, <2>1, <2>2, MoveHealthy
           DEF CommitRemovesCtrl, Goto, HealthType, Finishing, layout
<1>5. CASE MarkCommitted(p)
    <2> DEFINE k == [mem[p] EXCEPT !.pc = mem[p].back, !.done = @ \cup {mem[p].cur}]
               m == [k EXCEPT !.recent = TRUE]
    <2>1. /\ k \in Memory /\ k.pc \in {"reconcile", "download"} /\ k.mfst = mem[p].mfst
          /\ k.done = mem[p].done \cup {mem[p].cur} /\ k.verify = mem[p].verify
        BY <1>2 DEF Memory, Location
    <2>2. m \in Memory /\ Become(p, m) /\ stateFile' \in State \cup {None}
        BY <1>2, <1>5, <2>1, PersistHealthy DEF MarkCommitted
    <2>3. /\ m.pc \in {"reconcile", "download"} /\ m.mfst = mem[p].mfst
          /\ m.done = mem[p].done \cup {mem[p].cur} /\ m.verify = mem[p].verify
        BY <2>1 DEF Memory
    <2>4. UNCHANGED <<lock, blob, mblob, index>>
        BY <1>5 DEF MarkCommitted, files, layout
    <2>5. mem[p].cur \in Stored /\ mblob[mem[p].mfst] = "good"
             /\ mem[p].done \subseteq Kept(mem[p].verify)
        BY <1>1, <1>2, <1>5 DEF MarkCommitted, At, Healthy
    <2>6. UNCHANGED <<Stored, Present>>
        BY <2>4 DEF Stored, Present
    <2>7. mem'[p] = m => Healthy(p)'
        BY <1>2, <2>3, <2>4, <2>5, <2>6, StoredPresent DEF Healthy, Inside, Kept, Finishing
    <2> QED
        BY <1>1, <1>2, <2>2, <2>4, <2>7, StepHealthy DEF HealthType
<1> QED
    BY <1>3, <1>4, <1>5 DEF CommitStep

LEMMA SaveNowHealthy ==
    ASSUME HealthInv, NEW p \in Proc, SaveNow(p)
    PROVE  HealthInv'
<1> DEFINE k == [mem[p] EXCEPT !.pc = IF Pending(mem[p]) = {} THEN "final" ELSE "connect"]
           m == [k EXCEPT !.recent = TRUE]
<1>1. mem[p].pc = "reconcile" /\ mem[p].pc \in Working /\ Inside(p)
    BY DEF SaveNow, At, Working, Inside
<1>2. mem[p] \in Memory /\ HealthType /\ lock = p /\ mem[p].mfst \in Manifest
    BY <1>1, InsideFacts
<1>3. /\ k \in Memory /\ k.pc \in {"final", "connect"} /\ k.mfst = mem[p].mfst
      /\ k.done = mem[p].done /\ k.verify = mem[p].verify
      /\ k.pc = "final" => Pending(mem[p]) = {}
    BY <1>2 DEF Memory, Location
<1>4. /\ m \in Memory /\ m.pc \in {"final", "connect"} /\ m.mfst = mem[p].mfst
      /\ m.done = mem[p].done /\ m.verify = mem[p].verify
      /\ m.pc = "final" => Objects[m.mfst] \subseteq m.done
    BY <1>3 DEF Memory, Pending
<1>5. Snapshot(k) \in State
    BY <1>2, <1>3 DEF Snapshot, State, Memory
<1>6. CASE /\ stateFile' = IF Throttled(k) THEN stateFile ELSE Snapshot(k)
           /\ Become(p, m) /\ UNCHANGED <<lock, faults>>
    <2>1. stateFile' \in State \cup {None}
        BY <1>2, <1>5, <1>6 DEF HealthType
    <2>2. UNCHANGED <<blob, mblob, index>>
        BY DEF SaveNow, files, layout
    <2> QED
        BY <1>1, <1>2, <1>4, <1>6, <2>1, <2>2, OnHealthy DEF Finishing
<1>7. CASE lock' = None /\ Become(p, Idle) /\ UNCHANGED stateFile
    BY <1>2, <1>7, LeaveHealthy DEF SaveNow, files, layout
<1> QED
    BY <1>6, <1>7 DEF SaveNow

LEMMA GotoHealthy ==
    ASSUME HealthInv, NEW p \in Proc, mem[p].pc \in Working,
           NEW l \in {"download", "release", "final", "index", "export"}, Goto(p, l),
           UNCHANGED <<lock, stateFile, blob, mblob>>,
           l \in Finishing => mem[p].pc \in Finishing \/ Pending(mem[p]) = {},
           l = "export" => index' = mem[p].mfst
    PROVE  HealthInv'
<1> DEFINE m == [mem[p] EXCEPT !.pc = l]
<1>1. mem[p] \in Memory /\ HealthType
    BY DEF HealthInv, HealthType
<1>2. /\ m \in Memory /\ m.pc = l /\ m.mfst = mem[p].mfst
      /\ m.done = mem[p].done /\ m.verify = mem[p].verify
    BY <1>1 DEF Memory, Location
<1>3. m.pc \in Finishing => mem[p].pc \in Finishing \/ Objects[m.mfst] \subseteq m.done
    BY <1>2 DEF Pending
<1> QED
    BY <1>1, <1>2, <1>3, OnHealthy DEF Goto, HealthType

\* p saves state.json and goes on inside the lock.
LEMMA SaveHealthy ==
    ASSUME HealthInv, NEW p \in Proc, mem[p].pc \in Working,
           NEW k \in Memory, Persist(p, k),
           UNCHANGED <<lock, blob, mblob>>,
           k.pc \in {"download", "layout"},
           k.pc = "layout" => mem[p].pc \in Finishing,
           k.mfst = mem[p].mfst, k.verify = mem[p].verify, k.done = mem[p].done
    PROVE  HealthInv'
<1> DEFINE m == [k EXCEPT !.recent = TRUE]
<1>1. HealthType /\ k.mfst \in Manifest
    BY InsideFacts DEF Inside, Working
<1>2. m \in Memory /\ Become(p, m) /\ stateFile' \in State \cup {None}
    BY <1>1, PersistHealthy
<1>3. /\ m.pc = k.pc /\ m.mfst = mem[p].mfst
      /\ m.done = mem[p].done /\ m.verify = mem[p].verify
    BY DEF Memory
<1> QED
    BY <1>2, <1>3, OnHealthy DEF Finishing

\* A .part is deleted: its control file is next.
LEMMA CleanHealthy ==
    ASSUME HealthInv, NEW p \in Proc, mem[p].pc \in Working, NEW d \in Digest,
           Become(p, [mem[p] EXCEPT !.pc = "clean", !.cur = d, !.back = "download"]),
           UNCHANGED <<lock, stateFile, blob, mblob>>
    PROVE  HealthInv'
<1> DEFINE m == [mem[p] EXCEPT !.pc = "clean", !.cur = d, !.back = "download"]
<1>1. mem[p] \in Memory /\ HealthType
    BY DEF HealthInv, HealthType
<1>2. /\ m \in Memory /\ m.pc = "clean" /\ m.mfst = mem[p].mfst /\ m.cur = d
      /\ m.done = mem[p].done /\ m.verify = mem[p].verify
    BY <1>1 DEF Memory, Location
<1> QED
    BY <1>1, <1>2, OnHealthy DEF HealthType, Finishing

LEMMA DownloadHealthy ==
    ASSUME HealthInv, NEW p \in Proc,
           \/ DownloadStep(p) \/ LearnRangeBlind(p)
           \/ \E d \in Digest : MarkRangeUnsupported(p, d)
    PROVE  HealthInv'
<1>1. mem[p].pc \in {"connect", "download"} /\ mem[p].pc \in Working
    BY DEF DownloadStep, ConnectAria2, VerifyAndCommit, DiscardPart, SubmitTask, RunReturns,
           LearnRangeBlind, MarkRangeUnsupported, At, Working
<1>2. mem[p] \in Memory /\ HealthType
    BY DEF HealthInv, HealthType
<1>3. CASE ConnectAria2(p)
    BY <1>1, <1>3, GotoHealthy DEF ConnectAria2, files, layout, Finishing
<1>4. CASE RunReturns(p)
    BY <1>1, <1>4, GotoHealthy DEF RunReturns, files, layout, Finishing
<1>5. ASSUME NEW d \in Digest, VerifyAndCommit(p, d) PROVE HealthInv'
    <2>1. UNCHANGED <<lock, stateFile, mblob, index>> /\ mem[p].pc = "download"
        BY <1>5 DEF VerifyAndCommit, layout, At
    <2>2. CASE /\ Verified(part[d]) /\ RenamePart(d)
               /\ Become(p, [mem[p] EXCEPT !.pc = "ctrl", !.cur = d, !.back = "download"])
        BY <2>1, <2>2, RenameHealthy
    <2>3. CASE UNCHANGED <<blob, mem>>
        <3>1. UNCHANGED <<Stored, Present>>
            BY <2>3 DEF Stored, Present
        <3> QED
            BY <2>1, <2>3, <3>1 DEF HealthInv, HealthType, Healthy, Inside, Kept
    <2>4. CASE /\ Become(p, [mem[p] EXCEPT !.pc = "clean", !.cur = d, !.back = "download"])
               /\ UNCHANGED blob
        BY <1>1, <2>1, <2>4, CleanHealthy
    <2> QED
        BY <1>5, <2>2, <2>3, <2>4 DEF VerifyAndCommit
<1>6. ASSUME NEW d \in Digest, DiscardPart(p, d) PROVE HealthInv'
    BY <1>1, <1>6, CleanHealthy DEF DiscardPart, layout
<1>7. ASSUME NEW d \in Digest, SubmitTask(p, d) PROVE HealthInv'
    BY <1>1, <1>2, <1>7, SaveHealthy DEF SubmitTask, At, layout
<1>8. CASE LearnRangeBlind(p)
    <2> DEFINE m == [mem[p] EXCEPT !.source = TRUE]
    <2>1. /\ m \in Memory /\ m.pc = "download" /\ m.mfst = mem[p].mfst
          /\ m.done = mem[p].done /\ m.verify = mem[p].verify
        BY <1>2, <1>8 DEF Memory, LearnRangeBlind, At
    <2> QED
        BY <1>1, <1>2, <1>8, <2>1, OnHealthy
           DEF LearnRangeBlind, HealthType, Finishing, files, layout
<1>9. ASSUME NEW d \in Digest, MarkRangeUnsupported(p, d) PROVE HealthInv'
    <2> DEFINE k == [mem[p] EXCEPT !.blind = @ \cup {d}]
    <2>1. /\ k \in Memory /\ k.pc = "download" /\ k.mfst = mem[p].mfst
          /\ k.done = mem[p].done /\ k.verify = mem[p].verify
        BY <1>2, <1>9 DEF Memory, MarkRangeUnsupported, At
    <2> QED
        BY <1>1, <1>9, <2>1, SaveHealthy DEF MarkRangeUnsupported, files, layout
<1> QED
    BY <1>3, <1>4, <1>5, <1>6, <1>7, <1>8, <1>9 DEF DownloadStep

LEMMA LayoutHealthy ==
    ASSUME HealthInv, NEW p \in Proc, LayoutStep(p)
    PROVE  HealthInv'
<1>1. mem[p] \in Memory /\ HealthType /\ Healthy(p)
    BY DEF HealthInv, HealthType
<1>2. CASE SaveFinal(p)
    <2> DEFINE k == [mem[p] EXCEPT !.pc = "layout", !.recent = FALSE]
    <2>1. /\ k \in Memory /\ k.pc = "layout" /\ k.mfst = mem[p].mfst
          /\ k.done = mem[p].done /\ k.verify = mem[p].verify
        BY <1>1 DEF Memory, Location
    <2> QED
        BY <1>2, <2>1, SaveHealthy DEF SaveFinal, At, Working, Finishing, files, layout
<1>3. CASE EnsureLayout(p)
    BY <1>3, GotoHealthy DEF EnsureLayout, At, Working, Finishing, files
<1>4. CASE WriteIndex(p)
    BY <1>4, GotoHealthy DEF WriteIndex, At, Working, Finishing, files
<1>5. CASE Export(p)
    BY <1>5, GotoHealthy DEF Export, At, Working, Finishing, files, layout
<1>6. CASE ReleaseSaves(p)
    <2> DEFINE k == [mem[p] EXCEPT !.pc = "unlock", !.recent = FALSE]
               m == [k EXCEPT !.recent = TRUE]
    <2>1. Inside(p)
        BY <1>6 DEF ReleaseSaves, At, Inside
    <2>2. mem[p].mfst \in Manifest
        BY <2>1, InsideFacts
    <2>3. /\ k \in Memory /\ k.pc = "unlock" /\ k.mfst = mem[p].mfst
          /\ k.done = mem[p].done /\ k.verify = mem[p].verify
        BY <1>1 DEF Memory, Location
    <2>4. m \in Memory /\ Become(p, m) /\ stateFile' \in State \cup {None}
        BY <1>1, <1>6, <2>2, <2>3, PersistHealthy DEF ReleaseSaves
    <2>5. /\ m.pc = "unlock" /\ m.mfst = mem[p].mfst
          /\ m.done = mem[p].done /\ m.verify = mem[p].verify
        BY <2>3 DEF Memory
    <2>6. UNCHANGED <<lock, blob, mblob>>
        BY <1>6 DEF ReleaseSaves, layout
    <2> QED
        BY <1>1, <2>1, <2>4, <2>5, <2>6, MoveHealthy DEF HealthType, Working, Finishing
<1>7. CASE ReleaseUnlocks(p)
    BY <1>1, <1>7, LeaveHealthy DEF ReleaseUnlocks, At, Healthy, Inside, files, layout
<1> QED
    BY <1>2, <1>3, <1>4, <1>5, <1>6, <1>7 DEF LayoutStep

\* Steps that leave blobs alone and whose process is outside the lock, or about to be.
LEMMA EdgeHealthy ==
    ASSUME HealthInv, NEW p \in Proc, Run(p) \/ BuildFails(p) \/ Crash(p) \/ Tick(p)
    PROVE  HealthInv'
<1>1. mem[p] \in Memory /\ HealthType /\ Healthy(p)
    BY DEF HealthInv, HealthType
<1>2. ASSUME NEW n \in Manifest, NEW v \in BOOLEAN, Start(p, n, v) PROVE HealthInv'
    <2> DEFINE m == [Idle EXCEPT !.pc = "lock", !.mfst = n, !.verify = v]
    <2>1. m \in Memory
        BY DEF Idle, Memory, Location, Empty
    <2>2. mem'[p] = m => Healthy(p)'
        BY DEF Healthy, Inside, Idle, Working, Finishing
    <2> QED
        BY <1>1, <1>2, <2>1, <2>2, StepHealthy DEF Start, HealthType, files, layout
<1>3. CASE BuildFails(p)
    BY <1>1, <1>3, LeaveHealthy DEF BuildFails, At, Healthy, Inside, files, layout
<1>4. CASE Crash(p)
    BY <1>1, <1>4, LeaveHealthy DEF Crash, files, layout
<1>5. CASE Tick(p)
    <2> DEFINE m == [mem[p] EXCEPT !.recent = FALSE]
    <2>1. /\ m \in Memory /\ m.pc = mem[p].pc /\ m.mfst = mem[p].mfst /\ m.cur = mem[p].cur
          /\ m.done = mem[p].done /\ m.verify = mem[p].verify
        BY <1>1 DEF Memory
    <2>2. UNCHANGED <<lock, stateFile, blob, mblob, index>> /\ Become(p, m)
        BY <1>5 DEF Tick, files, layout
    <2>3. UNCHANGED <<Stored, Present>>
        BY <2>2 DEF Stored, Present
    <2>4. mem'[p] = m => Healthy(p)'
        BY <1>1, <2>1, <2>2, <2>3 DEF Healthy, Inside, Kept
    <2> QED
        BY <1>1, <2>1, <2>2, <2>4, StepHealthy DEF HealthType
<1> QED
    BY <1>2, <1>3, <1>4, <1>5 DEF Run

\* Damage is done while nobody is inside the lock, so nobody has relied on
\* anything yet; and aria2 touches no blob.
LEMMA EnvironmentHealthy ==
    ASSUME HealthInv,
           \/ Rot \/ UNCHANGED vars
           \/ \E d \in Digest : Aria2Write(d) \/ Aria2Stops(d)
    PROVE  HealthInv'
<1>1. CASE Rot
    <2>1. \A p \in Proc : Healthy(p) /\ ~Inside(p)
        BY <1>1, NoneAssumption DEF Rot, HealthInv, Healthy
    <2>2. UNCHANGED <<lock, mem>>
        BY <1>1 DEF Rot
    <2>3. HealthType'
        BY <1>1, <2>2 DEF Rot, HealthInv, HealthType, BlobContent
    <2>4. \A p \in Proc : Healthy(p)'
        BY <2>1, <2>2 DEF Healthy, Inside, Working, Finishing
    <2> QED
        BY <2>3, <2>4 DEF HealthInv
<1>2. ASSUME \/ UNCHANGED vars
             \/ \E d \in Digest : Aria2Write(d) \/ Aria2Stops(d)
      PROVE  HealthInv'
    <2>1. UNCHANGED <<lock, stateFile, blob, mblob, index, mem>>
        BY <1>2 DEF vars, files, layout, Aria2Write, Aria2Stops
    <2>2. UNCHANGED <<Stored, Present>>
        BY <2>1 DEF Stored, Present
    <2> QED
        BY <2>1, <2>2 DEF HealthInv, HealthType, Healthy, Inside, Kept
<1> QED
    BY <1>1, <1>2

LEMMA NextHealthy == HealthInv /\ [RotNext]_vars => HealthInv'
<1> SUFFICES ASSUME HealthInv, [RotNext]_vars PROVE HealthInv'
    OBVIOUS
<1>1. ASSUME NEW p \in Proc, BuildStep(p) PROVE HealthInv'
    BY <1>1, BuildHealthy, ReconcileBlobHealthy, ReconcilePartHealthy, SaveNowHealthy
       DEF BuildStep
<1>2. ASSUME NEW p \in Proc, Step(p) PROVE HealthInv'
    BY <1>1, <1>2, CommitHealthy, DownloadHealthy, LayoutHealthy DEF Step
<1>3. CASE Next
    BY <1>2, <1>3, EdgeHealthy, DownloadHealthy, EnvironmentHealthy DEF Next
<1> QED
    BY <1>3, EnvironmentHealthy DEF RotNext

LEMMA InitHealthy == Init => HealthInv
<1> SUFFICES ASSUME Init PROVE HealthInv
    OBVIOUS
<1>1. \A p \in Proc : mem[p] = Idle
    BY DEF Init
<1>2. HealthType
    BY IdleType DEF Init, HealthType, BlobContent
<1>3. \A p \in Proc : Healthy(p)
    BY <1>1 DEF Idle, Healthy, Inside, Working, Finishing
<1> QED
    BY <1>2, <1>3 DEF HealthInv

------------------------------------------------------------------------------
(* Theorems                                                                 *)

LEMMA Health == RotSpec => []HealthInv
BY InitHealthy, NextHealthy, PTL DEF RotSpec

\* The types of what the damage does not touch.
LEMMA RestTyped ==
    ASSUME HealthInv, TypeOK, [RotNext]_vars
    PROVE  /\ lock' \in Proc \cup {None}
           /\ part' \in [Digest -> PartContent]
           /\ ctrl' \in [Digest -> BOOLEAN]
           /\ mjson' \in Manifest \cup {None}
           /\ marker' \in BOOLEAN
           /\ index' \in Manifest \cup {None}
           /\ live' \in SUBSET Digest
           /\ faults' \in 0..MaxFaults
<1> DEFINE Rest ==
        /\ lock' \in Proc \cup {None}
        /\ part' \in [Digest -> PartContent]
        /\ ctrl' \in [Digest -> BOOLEAN]
        /\ mjson' \in Manifest \cup {None}
        /\ marker' \in BOOLEAN
        /\ index' \in Manifest \cup {None}
        /\ live' \in SUBSET Digest
        /\ faults' \in 0..MaxFaults
<1>1. NoFault \/ Fault => faults' \in 0..MaxFaults
    BY MaxFaultsAssumption DEF NoFault, Fault, TypeOK
<1>2. ASSUME NEW p \in Proc, NEW m, Persist(p, m) PROVE faults' \in 0..MaxFaults
    BY <1>1, <1>2 DEF Persist, NoFault
<1>3. ASSUME NEW d \in Digest, Unlink(d) \/ RenamePart(d)
      PROVE  part' \in [Digest -> PartContent] /\ live' \in SUBSET Digest
    BY <1>3, UnlinkType DEF RenamePart
<1>4. ASSUME NEW d \in Digest, RemoveCtrl(d) PROVE ctrl' \in [Digest -> BOOLEAN]
    BY <1>4 DEF RemoveCtrl, TypeOK
<1>5. ASSUME NEW p \in Proc, mem[p].pc \in {"store", "mirror", "index"}
      PROVE  mem[p].mfst \in Manifest
    BY <1>5 DEF HealthInv, Healthy
<1>6. ASSUME NEW p \in Proc, mem[p].pc \in {"part", "clean", "ctrl", "mark"}
      PROVE  mem[p].cur \in Digest
    BY <1>6 DEF HealthInv, Healthy
<1>7. ASSUME NEW p \in Proc, BuildStep(p) PROVE Rest
    <2>1. CASE LockImageDir(p) \/ LoadState(p)
        BY <2>1, <1>1 DEF LockImageDir, LoadState, TypeOK, files, layout
    <2>2. CASE StoreManifestBlob(p) \/ MirrorManifest(p)
        BY <2>2, <1>5 DEF StoreManifestBlob, MirrorManifest, At, TypeOK, files
    <2>3. ASSUME NEW d \in Digest, ReconcileBlob(p, d) PROVE Rest
        BY <2>3 DEF ReconcileBlob, TypeOK, layout
    <2>4. CASE ReconcilePart(p)
        BY <2>4, <1>1, <1>3, <1>4, <1>6 DEF ReconcilePart, At, TypeOK, files, layout
    <2>5. CASE SaveNow(p)
        BY <2>5, <1>1 DEF SaveNow, TypeOK, files, layout
    <2> QED
        BY <1>7, <2>1, <2>2, <2>3, <2>4, <2>5 DEF BuildStep
<1>8. ASSUME NEW p \in Proc, CommitStep(p) PROVE Rest
    BY <1>8, <1>2, <1>4, <1>6
       DEF CommitStep, CommitRemovesCtrl, MarkCommitted, RemoveOrphanCtrl, At, TypeOK, files, layout
<1>9. ASSUME NEW p \in Proc, DownloadStep(p) PROVE Rest
    <2>1. ASSUME NEW d \in Digest, VerifyAndCommit(p, d) \/ DiscardPart(p, d) PROVE Rest
        BY <2>1, <1>1, <1>3 DEF VerifyAndCommit, DiscardPart, TypeOK, layout
    <2>2. ASSUME NEW d \in Digest, SubmitTask(p, d) PROVE Rest
        BY <2>2, <1>2 DEF SubmitTask, TypeOK, layout
    <2>3. CASE ConnectAria2(p) \/ RunReturns(p)
        BY <2>3, <1>1 DEF ConnectAria2, RunReturns, TypeOK, files, layout
    <2> QED
        BY <1>9, <2>1, <2>2, <2>3 DEF DownloadStep
<1>10. ASSUME NEW p \in Proc, LayoutStep(p) PROVE Rest
    <2>1. CASE SaveFinal(p) \/ ReleaseUnlocks(p) \/ Export(p)
        BY <2>1, <1>2 DEF SaveFinal, ReleaseUnlocks, Export, TypeOK, files, layout
    <2>2. CASE EnsureLayout(p) \/ WriteIndex(p)
        BY <2>2, <1>1, <1>5 DEF EnsureLayout, WriteIndex, At, TypeOK, files
    <2>3. CASE ReleaseSaves(p)
        BY <2>3, <1>2 DEF ReleaseSaves, StopDaemon, TypeOK, layout
    <2> QED
        BY <1>10, <2>1, <2>2, <2>3 DEF LayoutStep
<1>11. ASSUME NEW p \in Proc, Run(p) \/ Tick(p) \/ BuildFails(p) \/ Crash(p) PROVE Rest
    BY <1>11, <1>1 DEF Run, Start, Tick, BuildFails, Crash, TypeOK, files, layout
<1>12. ASSUME NEW p \in Proc, LearnRangeBlind(p) PROVE Rest
    BY <1>12 DEF LearnRangeBlind, TypeOK, files, layout
<1>13. ASSUME NEW p \in Proc, NEW d \in Digest, MarkRangeUnsupported(p, d) PROVE Rest
    BY <1>13, <1>2 DEF MarkRangeUnsupported, TypeOK, files, layout
<1>14. ASSUME NEW d \in Digest, Aria2Write(d) \/ Aria2Stops(d) PROVE Rest
    BY <1>14, <1>1 DEF Aria2Write, Aria2Stops, PartContent, TypeOK, layout
<1>15. CASE Rot \/ UNCHANGED vars
    BY <1>15, <1>1 DEF Rot, TypeOK, vars, files, layout
<1> QED
    BY <1>7, <1>8, <1>9, <1>10, <1>11, <1>12, <1>13, <1>14, <1>15 DEF RotNext, Next, Step

\* The type invariant also holds when blobs, manifests and state.json are
\* damaged or lost between runs.
THEOREM RotTypeCorrect == RotSpec => []TypeOK
<1>1. Init => TypeOK
    BY InitSafe DEF IInv
<1>2. HealthInv /\ HealthInv' /\ TypeOK /\ [RotNext]_vars => TypeOK'
    BY RestTyped DEF HealthInv, HealthType, TypeOK
<1> QED
    BY <1>1, <1>2, Health, PTL DEF RotSpec

\* Damage between runs costs no resumable .part: no run that repairs a blob or
\* starts without state.json throws away what was downloaded of another.
THEOREM PartialsKeptUnderRot == RotSpec => KeepsPartial
<1>1. HealthInv /\ TypeOK => PartFacts
    BY DEF HealthInv, Healthy, PartFacts, At, Inside, TypeOK
<1>2. HealthInv /\ TypeOK /\ [RotNext]_vars =>
        [\A d \in Digest : Resumable(d) /\ part'[d] = "none" => KnownBlind(d)]_vars
    BY <1>1, PartialKept
<1> QED
    BY <1>2, Health, RotTypeCorrect, PTL DEF RotSpec, KeepsPartial

\* However blobs, manifests and state.json were damaged or lost between runs,
\* a run with --verify that finishes leaves every blob it publishes valid.
THEOREM VerifyAlwaysHeals == RotSpec => []VerifyHeals
<1>1. HealthInv => VerifyHeals
    BY DEF HealthInv, Healthy, VerifyHeals, At, Kept, Working, Finishing
<1> QED
    BY <1>1, Health, PTL

\* Without --verify a finished run has at least every blob it publishes,
\* although it took the word of a state.json for their content.
THEOREM PublishedAlwaysPresent == RotSpec => []PublishedPresent
<1>1. HealthInv => PublishedPresent
    BY DEF HealthInv, Healthy, PublishedPresent, At, Kept, Stored, Present, Finishing
<1> QED
    BY <1>1, Health, PTL

\* Damage between runs does not make a run report an image that is not the
\* published one, either.
THEOREM ReportsAlwaysTrue == RotSpec => []ReportsPublished
<1>1. HealthInv => ReportsPublished
    BY DEF HealthInv, Healthy, ReportsPublished, At
<1> QED
    BY <1>1, Health, PTL
==============================================================================
