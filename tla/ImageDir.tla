------------------------------ MODULE ImageDir -------------------------------
(***************************************************************************)
(* One image directory <output>/<registry>/<repo>/<tag> and the imgpull    *)
(* processes that work on it: plan.Build with its reconciliation against   *)
(* state.json and the files, the download phase seen from the directory,   *)
(* the throttled saves of state.json, and the assembly of the OCI layout.  *)
(* Processes exclude each other by an advisory lock, may die at any step,  *)
(* and may be started again with another manifest for the same tag.        *)
(* aria2 (external) keeps writing to .part files whoever holds the lock.   *)
(***************************************************************************)
EXTENDS Naturals, FiniteSets

CONSTANTS Proc,      \* imgpull processes started on this directory
          Digest,    \* digests of config and layer blobs
          Manifest,  \* manifests the tag may resolve to over time
          Objects,   \* Objects[m]: digests of the config and layers of m
          None,      \* no process, no file, no manifest
          MaxFaults  \* bound on crashes, I/O errors and bad transfers

ASSUME ObjectsAssumption == Objects \in [Manifest -> SUBSET Digest]
ASSUME NoneAssumption == None \notin Proc /\ None \notin Manifest
ASSUME MaxFaultsAssumption == MaxFaults \in Nat

VARIABLES
    lock,       \* holder of .imgpull.lock
    stateFile,  \* state.json: None, or what persistLocked last wrote
    blob,       \* blobs/<algo>/<hex>, per digest
    part,       \* tmp/<digest>.part
    ctrl,       \* is there a tmp/<digest>.part.aria2
    mblob,      \* the manifest stored as a blob
    mjson,      \* the manifest manifest.json mirrors
    marker,     \* is there an oci-layout file
    index,      \* the manifest index.json names
    live,       \* digests for which some aria2 task writes the .part
    mem,        \* memory of each process
    faults      \* faults so far

files == <<blob, part, ctrl, live>>
layout == <<mblob, mjson, marker, index>>
vars == <<lock, stateFile, files, layout, mem, faults>>

\* A blob is absent, exactly the digest's content, or anything else.
BlobContent == {"none", "good", "bad"}
\* A .part is absent, shorter than the object, of its size with the right or
\* with wrong content, or longer.
PartContent == {"none", "partial", "good", "bad", "over"}

\* The objects of state.json: their manifest, which are committed, and which
\* carry RangeUnsupported.
State == [mfst : Manifest, done : SUBSET Digest, blind : SUBSET Digest]

Location == {"idle", "lock", "load", "store", "mirror", "reconcile", "part",
             "clean", "ctrl", "mark", "connect", "download", "final", "layout",
             "index", "export", "release", "unlock"}

\* pc: next step; mfst: resolved manifest; verify: --verify; prev: adopted
\* state.json; todo: objects Build has still to reconcile; cur: object being
\* moved or cleaned; back: where that returns to; done: committed tasks;
\* blind: tasks with RangeUnsupported; source: the client has seen the source
\* ignore Range; recent: lastSave less than 1s ago.
Memory == [pc : Location, mfst : Manifest \cup {None}, verify : BOOLEAN,
           prev : [done : SUBSET Digest, blind : SUBSET Digest],
           todo : SUBSET Digest, cur : Digest \cup {None},
           back : {"reconcile", "download"},
           done : SUBSET Digest, blind : SUBSET Digest, source : BOOLEAN,
           recent : BOOLEAN]

Empty == [done |-> {}, blind |-> {}]

Idle == [pc |-> "idle", mfst |-> None, verify |-> FALSE, prev |-> Empty,
         todo |-> {}, cur |-> None, back |-> "reconcile",
         done |-> {}, blind |-> {}, source |-> FALSE, recent |-> FALSE]

TypeOK ==
    /\ lock \in Proc \cup {None}
    /\ stateFile \in State \cup {None}
    /\ blob \in [Digest -> BlobContent]
    /\ part \in [Digest -> PartContent]
    /\ ctrl \in [Digest -> BOOLEAN]
    /\ mblob \in [Manifest -> BlobContent]
    /\ mjson \in Manifest \cup {None}
    /\ marker \in BOOLEAN
    /\ index \in Manifest \cup {None}
    /\ live \in SUBSET Digest
    /\ mem \in [Proc -> Memory]
    /\ faults \in 0..MaxFaults

Init ==
    /\ lock = None
    /\ stateFile = None
    /\ blob = [d \in Digest |-> "none"]
    /\ part = [d \in Digest |-> "none"]
    /\ ctrl = [d \in Digest |-> FALSE]
    /\ mblob = [m \in Manifest |-> "none"]
    /\ mjson = None
    /\ marker = FALSE
    /\ index = None
    /\ live = {}
    /\ mem = [p \in Proc |-> Idle]
    /\ faults = 0

------------------------------------------------------------------------------
(* Steps of the process memory, of state.json and of the files.             *)

At(p, l) == mem[p].pc = l
Become(p, m) == mem' = [mem EXCEPT ![p] = m]
Goto(p, l) == Become(p, [mem[p] EXCEPT !.pc = l])

\* The step fails for a reason of the environment.
Fault == faults < MaxFaults /\ faults' = faults + 1
NoFault == UNCHANGED faults

\* persistLocked is a no-op within a second of the last save.
Throttled(m) == m.recent

\* Slip: the save forgets which manifest it belongs to.
SnapshotOfNoManifest(m) == [mfst |-> None, done |-> m.done, blind |-> m.blind]

Snapshot(m) == [mfst |-> m.mfst, done |-> m.done, blind |-> m.blind]

\* p goes on with memory m and calls persistLocked, whose error the callers
\* other than Build drop; lastSave is set before the write is tried.
Persist(p, m) ==
    /\ Become(p, [m EXCEPT !.recent = TRUE])
    /\ \/ Throttled(m) /\ UNCHANGED <<stateFile, faults>>
       \/ ~Throttled(m) /\ stateFile' = Snapshot(m) /\ NoFault
       \/ ~Throttled(m) /\ UNCHANGED stateFile /\ Fault

\* An unlinked or renamed .part no longer is the file aria2 writes to.
Unlink(d) ==
    /\ part' = [part EXCEPT ![d] = "none"]
    /\ live' = live \ {d}

\* os.Rename of the .part onto the final path.
RenamePart(d) ==
    /\ blob' = [blob EXCEPT ![d] = part[d]]
    /\ Unlink(d)

RemoveCtrl(d) == ctrl' = [ctrl EXCEPT ![d] = FALSE]

\* Slip: the size alone is checked.
VerifiedBySize(c) == c \in {"good", "bad"}

\* verify.Blob: size and digest match.
Verified(c) == c = "good"

\* The size alone matches: Stat against t.Size.
FullSize(c) == c \in {"good", "bad"}

------------------------------------------------------------------------------
(* plan.Build                                                               *)

\* pull has resolved the reference to manifest m and calls Build.
Start(p, m, v) ==
    /\ At(p, "idle")
    /\ Become(p, [Idle EXCEPT !.pc = "lock", !.mfst = m, !.verify = v])
    /\ UNCHANGED <<lock, stateFile, files, layout, faults>>

\* A non-blocking flock: the loser of the race gives up.
LockImageDir(p) ==
    /\ At(p, "lock")
    /\ \/ lock = None /\ lock' = p /\ Goto(p, "load")
       \/ lock # None /\ UNCHANGED lock /\ Become(p, Idle)
    /\ UNCHANGED <<stateFile, files, layout, faults>>

\* Build returns an error: lock.Release without a save, pull exits.
BuildFails(p) ==
    /\ At(p, "load") \/ At(p, "store") \/ At(p, "mirror")
    /\ lock' = None
    /\ Become(p, Idle)
    /\ Fault
    /\ UNCHANGED <<stateFile, files, layout>>

\* state.json counts only when it is about the same manifest.
Adoptable(s, m) == s # None /\ s.mfst = m

LoadState(p) ==
    /\ At(p, "load")
    /\ Become(p, [mem[p] EXCEPT !.pc = "store",
           !.prev = IF Adoptable(stateFile, mem[p].mfst)
                    THEN [done |-> stateFile.done, blind |-> stateFile.blind]
                    ELSE Empty])
    /\ UNCHANGED <<lock, stateFile, files, layout, faults>>

\* storeManifestBlob: nothing to do when the blob is there and valid.
StoreManifestBlob(p) ==
    /\ At(p, "store")
    /\ LET m == mem[p].mfst IN
       IF Verified(mblob[m])
       THEN /\ Become(p, [mem[p] EXCEPT !.pc = "reconcile", !.todo = Objects[m]])
            /\ UNCHANGED mblob
       ELSE /\ Goto(p, "mirror")
            /\ mblob' = [mblob EXCEPT ![m] = "good"]
    /\ UNCHANGED <<lock, stateFile, files, mjson, marker, index, faults>>

MirrorManifest(p) ==
    /\ At(p, "mirror")
    /\ mjson' = mem[p].mfst
    /\ Become(p, [mem[p] EXCEPT !.pc = "reconcile", !.todo = Objects[mem[p].mfst]])
    /\ UNCHANGED <<lock, stateFile, files, mblob, marker, index, faults>>

\* Slip: --verify does not reach the adoption of committed tasks.
TrustedUnderVerify(m, d) == d \in m.prev.done

\* The task as Build adopts it: previously committed and not to be verified
\* again, so that reconcileTask only asks whether the blob is still there.
Trusted(m, d) == d \in m.prev.done /\ ~m.verify

\* Slip: a committed task is trusted without looking for its blob.
AcceptableUnseen(m, d) == Trusted(m, d) \/ Verified(blob[d])

\* Slip: only what state.json lists is accepted, not a valid blob by itself.
AcceptableByStateOnly(m, d) == Trusted(m, d) /\ blob[d] # "none"

Acceptable(m, d) ==
    \/ Trusted(m, d) /\ blob[d] # "none"
    \/ Verified(blob[d])

\* RangeUnsupported is carried over from tasks that were not committed.
Carried(m, d) == IF d \in m.prev.blind \ m.prev.done THEN {d} ELSE {}

\* First half of reconcileTask: accept the final blob, or under --verify
\* remove an invalid one and look at the .part.
ReconcileBlob(p, d) ==
    /\ At(p, "reconcile")
    /\ d \in mem[p].todo
    /\ LET m == [mem[p] EXCEPT !.todo = @ \ {d}, !.blind = @ \cup Carried(mem[p], d)] IN
       IF Acceptable(mem[p], d)
       THEN /\ Become(p, [m EXCEPT !.done = @ \cup {d}])
            /\ UNCHANGED blob
       ELSE /\ Become(p, [m EXCEPT !.pc = "part", !.cur = d])
            /\ blob' = IF m.verify THEN [blob EXCEPT ![d] = "none"] ELSE blob
    /\ UNCHANGED <<lock, stateFile, part, ctrl, live, layout, faults>>

\* Second half: what becomes of the .part.
ReconcilePart(p) ==
    LET d == mem[p].cur IN
    /\ At(p, "part")
    /\ UNCHANGED <<lock, stateFile, layout>>
    /\ \/ /\ Verified(part[d])            \* complete: commit without aria2
          /\ RenamePart(d)
          /\ Become(p, [mem[p] EXCEPT !.pc = "ctrl", !.back = "reconcile"])
          /\ UNCHANGED <<ctrl, faults>>
       \/ /\ Verified(part[d])            \* the rename fails: only a warning
          /\ Fault
          /\ Goto(p, "reconcile")
          /\ UNCHANGED files
       \/ /\ part[d] \in {"bad", "over"}  \* corrupt or oversized: start over
          /\ Unlink(d)
          /\ Become(p, [mem[p] EXCEPT !.pc = "clean", !.back = "reconcile"])
          /\ UNCHANGED <<blob, ctrl, faults>>
       \/ /\ part[d] = "partial"          \* left for aria2 to resume
          /\ Goto(p, "reconcile")
          /\ UNCHANGED <<files, faults>>
       \/ /\ part[d] = "none"             \* a control file alone is junk
          /\ RemoveCtrl(d)
          /\ Goto(p, "reconcile")
          /\ UNCHANGED <<blob, part, live, faults>>

\* The second os.Remove, after a .part was deleted.
RemoveOrphanCtrl(p) ==
    /\ At(p, "clean")
    /\ RemoveCtrl(mem[p].cur)
    /\ Goto(p, mem[p].back)
    /\ UNCHANGED <<lock, stateFile, blob, part, live, layout, faults>>

\* commitFile after the rename: drop the control file ...
CommitRemovesCtrl(p) ==
    /\ At(p, "ctrl")
    /\ RemoveCtrl(mem[p].cur)
    /\ Goto(p, "mark")
    /\ UNCHANGED <<lock, stateFile, blob, part, live, layout, faults>>

\* ... and markCommittedLocked.
MarkCommitted(p) ==
    /\ At(p, "mark")
    /\ Persist(p, [mem[p] EXCEPT !.pc = mem[p].back, !.done = @ \cup {mem[p].cur}])
    /\ UNCHANGED <<lock, files, layout>>

Pending(m) == Objects[m.mfst] \ m.done

\* Build's last step, SaveNow. pull goes on to aria2 if something is missing.
SaveNow(p) ==
    LET m == [mem[p] EXCEPT !.pc = IF Pending(mem[p]) = {} THEN "final" ELSE "connect"] IN
    /\ At(p, "reconcile")
    /\ mem[p].todo = {}
    /\ UNCHANGED <<files, layout>>
    /\ \/ /\ stateFile' = IF Throttled(m) THEN stateFile ELSE Snapshot(m)
          /\ Become(p, [m EXCEPT !.recent = TRUE])
          /\ UNCHANGED <<lock, faults>>
       \/ /\ ~Throttled(m) /\ Fault       \* write error: Build fails
          /\ lock' = None
          /\ Become(p, Idle)
          /\ UNCHANGED stateFile

------------------------------------------------------------------------------
(* pull after Build: the download phase as the directory sees it            *)

ConnectAria2(p) ==
    /\ At(p, "connect")
    /\ \/ Goto(p, "download") /\ NoFault
       \/ Goto(p, "release") /\ Fault     \* unreachable, or did not start
    /\ UNCHANGED <<lock, stateFile, files, layout>>

\* An attempt with a .part of the object's size verifies it: CommitVerified
\* moves it, a mismatch deletes it.
VerifyAndCommit(p, d) ==
    /\ At(p, "download")
    /\ d \in Pending(mem[p])
    /\ FullSize(part[d])
    /\ \/ /\ Verified(part[d])
          /\ RenamePart(d)
          /\ Become(p, [mem[p] EXCEPT !.pc = "ctrl", !.cur = d, !.back = "download"])
          /\ NoFault
       \/ /\ Verified(part[d])            \* the rename fails: retried
          /\ Fault
          /\ UNCHANGED <<blob, part, live, mem>>
       \/ /\ ~Verified(part[d])
          /\ Unlink(d)
          /\ Become(p, [mem[p] EXCEPT !.pc = "clean", !.cur = d, !.back = "download"])
          /\ NoFault
          /\ UNCHANGED blob
    /\ UNCHANGED <<lock, stateFile, ctrl, layout>>

\* Slip: every partial .part is discarded before a submission.
DiscardableAlways(m, d) ==
    \/ part[d] = "over"
    \/ part[d] = "partial" /\ d \notin live

\* Slip: precheck leaves an oversized .part in place.
DiscardableUnlessOver(m, d) ==
    part[d] = "partial" /\ d \notin live /\ (d \in m.blind \/ m.source)

\* precheck deletes an oversized .part, whoever writes it; before a fresh
\* submission discardUnresumablePart deletes one the source cannot continue.
Discardable(m, d) ==
    \/ part[d] = "over"
    \/ part[d] = "partial" /\ d \notin live /\ (d \in m.blind \/ m.source)

\* That discard removes whatever it finds by then: a .part that a task missed
\* by both listings still writes, or one it completed since the attempt's Stat.
Overtaken(m, d) ==
    /\ d \in m.blind \/ m.source
    /\ part[d] # "none"
    /\ d \in live \/ FullSize(part[d])

\* Being overtaken, which a retry may be again, is counted like a fault.
DiscardPart(p, d) ==
    /\ At(p, "download")
    /\ d \in Pending(mem[p])
    /\ \/ Discardable(mem[p], d) /\ NoFault
       \/ Overtaken(mem[p], d) /\ Fault
    /\ Unlink(d)
    /\ Become(p, [mem[p] EXCEPT !.pc = "clean", !.cur = d, !.back = "download"])
    /\ UNCHANGED <<lock, stateFile, blob, ctrl, layout>>

\* precheck removes a control file without .part, submitTask adds the aria2
\* task, SetTask persists.
SubmitTask(p, d) ==
    /\ At(p, "download")
    /\ d \in Pending(mem[p]) \ live
    /\ ~FullSize(part[d]) /\ ~Discardable(mem[p], d)
    /\ live' = live \cup {d}
    /\ ctrl' = [ctrl EXCEPT ![d] = @ /\ part[d] # "none"]
    /\ Persist(p, mem[p])
    /\ UNCHANGED <<lock, blob, part, layout>>

\* A probe of ResolveBlobURL latches Client.rangeBlind.
LearnRangeBlind(p) ==
    /\ At(p, "download")
    /\ ~mem[p].source
    /\ Become(p, [mem[p] EXCEPT !.source = TRUE])
    /\ UNCHANGED <<lock, stateFile, files, layout, faults>>

\* The latch, or a failed resume, is recorded for one task.
MarkRangeUnsupported(p, d) ==
    /\ At(p, "download")
    /\ d \in Pending(mem[p]) \ mem[p].blind
    /\ Persist(p, [mem[p] EXCEPT !.blind = @ \cup {d}])
    /\ UNCHANGED <<lock, files, layout>>

\* Slip: pull goes on whatever Run returned.
RunResultIgnored(p) ==
    /\ At(p, "download")
    /\ Goto(p, "final")
    /\ UNCHANGED <<lock, stateFile, files, layout, faults>>

\* Scheduler.Run returns: nil once everything is committed, or an error or a
\* cancellation, which a run that has everything may see too; then pull exits
\* through Release.
RunReturns(p) ==
    /\ At(p, "download")
    /\ \/ Pending(mem[p]) = {} /\ Goto(p, "final") /\ NoFault
       \/ Goto(p, "release") /\ Fault
    /\ UNCHANGED <<lock, stateFile, files, layout>>

\* SaveFinal resets lastSave first, so it always writes; errors are logged.
SaveFinal(p) ==
    /\ At(p, "final")
    /\ Persist(p, [mem[p] EXCEPT !.pc = "layout", !.recent = FALSE])
    /\ UNCHANGED <<lock, files, layout>>

EnsureLayout(p) ==
    /\ At(p, "layout")
    /\ \/ marker' = TRUE /\ Goto(p, "index") /\ NoFault
       \/ UNCHANGED marker /\ Goto(p, "release") /\ Fault
    /\ UNCHANGED <<lock, stateFile, files, mblob, mjson, index>>

\* Slip: the error of WriteIndex is only logged.
WriteIndexUnchecked(p) ==
    /\ At(p, "index")
    /\ \/ index' = mem[p].mfst /\ Goto(p, "export") /\ NoFault
       \/ UNCHANGED index /\ Goto(p, "export") /\ Fault
    /\ UNCHANGED <<lock, stateFile, files, mblob, mjson, marker>>

WriteIndex(p) ==
    /\ At(p, "index")
    /\ \/ index' = mem[p].mfst /\ Goto(p, "export") /\ NoFault
       \/ UNCHANGED index /\ Goto(p, "release") /\ Fault
    /\ UNCHANGED <<lock, stateFile, files, mblob, mjson, marker>>

\* The summary, or the docker-archive export, which reads the layout only.
Export(p) ==
    /\ At(p, "export")
    /\ Goto(p, "release")
    /\ UNCHANGED <<lock, stateFile, files, layout, faults>>

\* The deferred calls: Daemon.Stop if pull spawned its own aria2, whose tasks
\* end; then Release, which is SaveFinal and the lock.
StopDaemon ==
    /\ live' = {}
    /\ ctrl' = [d \in Digest |-> IF d \in live THEN part[d] = "partial" ELSE ctrl[d]]

ReleaseSaves(p) ==
    /\ At(p, "release")
    /\ Persist(p, [mem[p] EXCEPT !.pc = "unlock", !.recent = FALSE])
    /\ StopDaemon \/ UNCHANGED <<live, ctrl>>
    /\ UNCHANGED <<lock, blob, part, layout>>

ReleaseUnlocks(p) ==
    /\ At(p, "unlock")
    /\ lock' = None
    /\ Become(p, Idle)
    /\ UNCHANGED <<stateFile, files, layout, faults>>

------------------------------------------------------------------------------
(* The environment                                                          *)

\* More than a second passes after the last save.
Tick(p) ==
    /\ mem[p].recent
    /\ Become(p, [mem[p] EXCEPT !.recent = FALSE])
    /\ UNCHANGED <<lock, stateFile, files, layout, faults>>

\* The process is killed. The kernel drops its lock, the files stay, and
\* aria2 may well go on.
Crash(p) ==
    /\ ~At(p, "idle")
    /\ Fault
    /\ lock' = IF lock = p THEN None ELSE lock
    /\ Become(p, Idle)
    /\ UNCHANGED <<stateFile, files, layout>>

\* aria2 writes to the .part, to its last byte or not. With split=1 and no
\* preallocation the size grows with the content.
Aria2Write(d) ==
    /\ d \in live
    /\ part[d] \in {"none", "partial"}
    /\ \/ \E c \in {"partial", "good"} : part' = [part EXCEPT ![d] = c] /\ NoFault
       \/ \E c \in {"bad", "over"} : part' = [part EXCEPT ![d] = c] /\ Fault
    /\ ctrl' = [ctrl EXCEPT ![d] = TRUE]
    /\ UNCHANGED <<lock, stateFile, blob, live, layout, mem>>

\* The task ends: a finished one takes its control file away, one that failed
\* or was removed saves it.
Aria2Stops(d) ==
    /\ d \in live
    /\ live' = live \ {d}
    /\ ctrl' = [ctrl EXCEPT ![d] = part[d] = "partial"]
    /\ IF part[d] \in {"none", "partial"} THEN Fault ELSE NoFault
    /\ UNCHANGED <<lock, stateFile, blob, part, layout, mem>>

BuildStep(p) ==
    \/ LockImageDir(p) \/ LoadState(p) \/ StoreManifestBlob(p) \/ MirrorManifest(p)
    \/ \E d \in Digest : ReconcileBlob(p, d)
    \/ ReconcilePart(p) \/ SaveNow(p)

CommitStep(p) == CommitRemovesCtrl(p) \/ MarkCommitted(p) \/ RemoveOrphanCtrl(p)

DownloadStep(p) ==
    \/ ConnectAria2(p)
    \/ \E d \in Digest : VerifyAndCommit(p, d) \/ DiscardPart(p, d) \/ SubmitTask(p, d)
    \/ RunReturns(p)

LayoutStep(p) ==
    SaveFinal(p) \/ EnsureLayout(p) \/ WriteIndex(p) \/ Export(p)
        \/ ReleaseSaves(p) \/ ReleaseUnlocks(p)

Step(p) == BuildStep(p) \/ CommitStep(p) \/ DownloadStep(p) \/ LayoutStep(p)

Run(p) == \E m \in Manifest, v \in BOOLEAN : Start(p, m, v)

Next ==
    \/ \E p \in Proc : Run(p) \/ Step(p) \/ Tick(p) \/ BuildFails(p) \/ Crash(p)
    \/ \E p \in Proc : LearnRangeBlind(p) \/ \E d \in Digest : MarkRangeUnsupported(p, d)
    \/ \E d \in Digest : Aria2Write(d) \/ Aria2Stops(d)

Spec == Init /\ [][Next]_vars

\* The user reruns imgpull until it succeeds, a process that runs keeps
\* running, and an aria2 task that is alive eventually gets its bytes.
Fairness ==
    /\ \A p \in Proc : WF_vars(Run(p)) /\ WF_vars(Step(p))
    /\ \A d \in Digest : WF_vars(part[d] # "good" /\ Aria2Write(d) /\ part'[d] = "good")

FairSpec == Spec /\ Fairness

------------------------------------------------------------------------------
(* Media and user errors between runs                                       *)

\* While no process holds the directory, a blob is deleted or corrupted, or
\* state.json becomes unreadable (loadState then starts from scratch).
Rot ==
    /\ lock = None
    /\ Fault
    /\ \/ \E d \in Digest, c \in {"none", "bad"} :
             blob[d] = "good" /\ blob' = [blob EXCEPT ![d] = c] /\ UNCHANGED <<mblob, stateFile>>
       \/ \E m \in Manifest, c \in {"none", "bad"} :
             mblob[m] = "good" /\ mblob' = [mblob EXCEPT ![m] = c] /\ UNCHANGED <<blob, stateFile>>
       \/ stateFile # None /\ stateFile' = None /\ UNCHANGED <<blob, mblob>>
    /\ UNCHANGED <<lock, part, ctrl, live, mjson, marker, index, mem>>

RotNext == Next \/ Rot

RotSpec == Init /\ [][RotNext]_vars

RotFairSpec == RotSpec /\ Fairness

------------------------------------------------------------------------------
(* Properties                                                               *)

Stored == {d \in Digest : blob[d] = "good"}

\* index.json never names an incomplete image: the marker, the manifest and
\* every blob of the named manifest are in place and valid, although a tag
\* may move, runs may die at any step and state.json may be stale
\* (main.go, step 5: "only after everything is verified").
IndexComplete ==
    index # None =>
        /\ marker
        /\ mblob[index] = "good"
        /\ Objects[index] \subseteq Stored

\* Whatever the crash, state.json on disk never calls an object committed
\* whose blob is not in place, which is what lets the next Build trust it.
StateTruthful == stateFile # None => stateFile.done \subseteq Stored

\* The directory implements the abstract layout store.
Store == INSTANCE LayoutStore WITH
    stored <- Stored,
    manifests <- {m \in Manifest : mblob[m] = "good"},
    published <- index

ImplementsStore == Store!Spec

\* A partial .part is given up only when the source is known to ignore Range:
\* neither a crash, a rerun, another manifest nor reconciliation deletes what
\* aria2 can resume (README: rerun to resume from tmp/*.part).
Resumable(d) == part[d] = "partial"
KnownBlind(d) == \E p \in Proc : lock = p /\ (mem[p].source \/ d \in mem[p].blind)
KeepsPartial == [][\A d \in Digest :
                     Resumable(d) /\ part'[d] = "none" => KnownBlind(d)]_vars

\* What a run reports as done is what the directory publishes: the lock keeps
\* a second imgpull, even one that resolved the tag to another manifest, from
\* replacing index.json before the first has exported it.
ReportsPublished == \A p \in Proc : At(p, "export") => index = mem[p].mfst

\* Once faults stop, reruns get through Build and the download to a published
\* image, again and again: no crash leaves the directory in a state that
\* every later run fails on.
Publishes == []<>(\E p \in Proc : At(p, "export"))

\* A finished run with --verify leaves only valid blobs behind, even if they
\* were damaged or deleted while no imgpull ran.
VerifyHeals ==
    \A p \in Proc : At(p, "export") /\ mem[p].verify =>
        Objects[mem[p].mfst] \subseteq Stored /\ mblob[mem[p].mfst] = "good"

\* Without --verify a finished run may trust state.json about content, but
\* every blob it publishes is at least present.
PublishedPresent ==
    \A p \in Proc : At(p, "export") =>
        \A d \in Objects[mem[p].mfst] : blob[d] # "none"

\* storeManifestBlob's comment: it stores the manifest "and mirrors it to
\* manifest.json", so a finished run should leave its own manifest there.
ManifestMirrored == \A p \in Proc : At(p, "export") => mjson = mem[p].mfst
==============================================================================
