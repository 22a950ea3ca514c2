------------------------------ MODULE Scheduler ------------------------------
(***************************************************************************)
(* Scheduler.Run: one goroutine per pending object takes a slot, looks for *)
(* a live aria2 task, resolves a URL, submits, polls, verifies and commits *)
(* the .part, and retries. aria2 (external) runs on its own next to them;  *)
(* its calls, the registry and the transfers may fail, and the user may    *)
(* cancel at any moment. Init is what plan.Build leaves behind.            *)
(***************************************************************************)
EXTENDS Naturals, FiniteSets

CONSTANTS
    Obj,            \* pending objects of the manifest
    Digest,         \* their digests: .part and blob names
    DigestOf,       \* DigestOf[o]: the digest of object o
    None,           \* no task
    Concurrency,    \* --concurrency
    MaxRetries,     \* --max-retries: attempts per object
    MaxPollErrs,    \* failed polls in a row that waitTask tolerates (10)
    AltURLs,        \* alternate URLs of an object in the manifest
    SourceBlind,    \* does the source ignore Range requests
    Codes,          \* aria2 error codes that occur
    RpcFaults,      \* subset of {"error", "deadline", "lost"}
    Resolutions,    \* outcomes of ResolveBlobURL
    Leftovers,      \* states of an aria2 task an earlier run left behind
    MaxActive,      \* aria2's max-concurrent-downloads
    MaxGid,         \* bound on aria2 tasks ever added
    MaxFaults       \* bound on failed calls and transfers

ASSUME DigestOfAssumption == DigestOf \in [Obj -> Digest]
ASSUME NumbersAssumption ==
    /\ {Concurrency, MaxRetries, MaxActive} \subseteq Nat \ {0}
    /\ {MaxPollErrs, AltURLs, MaxGid, MaxFaults} \subseteq Nat
    /\ SourceBlind \in BOOLEAN
ASSUME FaultsAssumption ==
    /\ Codes \subseteq {"1", "3", "8", "12", "14"}
    /\ RpcFaults \subseteq {"error", "deadline", "lost"}
    /\ Resolutions \subseteq {"direct", "signed", "notfound", "error", "deadline"}
    /\ Leftovers \subseteq {"waiting", "active", "paused"}
ASSUME GidAssumption == None \notin Nat

Gid == 1..MaxGid

VARIABLES
    main,       \* Run: launching, waiting, or what it returned
    cancelled,  \* ctx was canceled
    pc,         \* where each goroutine is
    attempt,    \* its attempt number
    gid,        \* the aria2 task it watches, local to an attempt
    polls,      \* pollErrs
    last,       \* how its last attempt failed
    res,        \* what downloadObject returned
    status,     \* task.Status
    url,        \* task.URL: none, a resolved one, or an alternate of the manifest
    expires,    \* does task.URLExpiresAt hold a time
    fresh,      \* was url resolved in the present attempt
    alt,        \* number of task.AltURLs left
    blind,      \* task.RangeUnsupported
    rangeBlind, \* Client.rangeBlind
    part,       \* tmp/<digest>.part; its control file is left to ImageDir
    blob,       \* blobs/<digest>
    aria,       \* aria2's tasks
    faults

local == <<attempt, gid, polls, last, res>>
task == <<status, url, expires, fresh, alt, blind>>
files == <<part, blob>>
env == <<main, cancelled, faults>>
vars == <<env, pc, local, task, rangeBlind, files, aria>>

\* An empty .part counts as none.
Content == {"none", "partial", "good", "bad", "over"}

Location == {"unborn", "queued", "attempt", "tellActive", "tellWaiting", "url",
             "submit", "addUri", "poll", "watchFile", "verify", "commit",
             "retry", "backoff", "done"}

\* att: the task holds the present .part open. A task is "gone" once its
\* result was removed.
Aria2Task == [st : {"none", "waiting", "active", "paused", "complete", "error",
                    "removed", "gone"},
              dig : Digest \cup {None}, att : BOOLEAN, code : Codes \cup {"11", "8", "0"}]

NoTask == [st |-> "none", dig |-> None, att |-> FALSE, code |-> "0"]

TypeOK ==
    /\ main \in {"launch", "wait", "ok", "failed", "canceled"}
    /\ cancelled \in BOOLEAN
    /\ pc \in [Obj -> Location]
    /\ attempt \in [Obj -> 1..MaxRetries]
    /\ gid \in [Obj -> Gid \cup {None}]
    /\ polls \in [Obj -> 0..MaxPollErrs]
    /\ last \in [Obj -> {"none", "retry", "cleanup", "auth", "code8"}]
    /\ res \in [Obj -> {"none", "nil", "error", "canceled", "deadline"}]
    /\ status \in [Obj -> {"pending", "downloading", "committed", "failed"}]
    /\ url \in [Obj -> {"none", "blob", "alt"}]
    /\ expires \in [Obj -> BOOLEAN]
    /\ fresh \in [Obj -> BOOLEAN]
    /\ alt \in [Obj -> 0..AltURLs]
    /\ blind \in [Obj -> BOOLEAN]
    /\ rangeBlind \in BOOLEAN
    /\ part \in [Digest -> Content]
    /\ blob \in [Digest -> Content]
    /\ aria \in [Gid -> Aria2Task]
    /\ faults \in 0..MaxFaults

\* Build left a partial .part alone, or a complete one whose rename failed, and
\* an external aria2 may still have one task of an earlier run.
Init ==
    /\ main = "launch"
    /\ cancelled = FALSE
    /\ pc = [o \in Obj |-> "unborn"]
    /\ attempt = [o \in Obj |-> 1]
    /\ gid = [o \in Obj |-> None]
    /\ polls = [o \in Obj |-> 0]
    /\ last = [o \in Obj |-> "none"]
    /\ res = [o \in Obj |-> "none"]
    /\ status = [o \in Obj |-> "pending"]
    /\ url = [o \in Obj |-> "none"]
    /\ expires = [o \in Obj |-> FALSE]
    /\ fresh = [o \in Obj |-> FALSE]
    /\ alt = [o \in Obj |-> AltURLs]
    /\ blind \in [Obj -> {FALSE, SourceBlind}]
    /\ rangeBlind = FALSE
    /\ part \in [Digest -> {"none", "partial", "good"}]
    /\ blob = [d \in Digest |-> "none"]
    /\ \/ aria = [g \in Gid |-> NoTask]
       \/ \E s \in Leftovers, d \in Digest :
            aria = [g \in Gid |-> IF g = 1 THEN [NoTask EXCEPT !.st = s, !.dig = d, !.att = (s = "active")]
                                 ELSE NoTask]
    /\ faults = 0

------------------------------------------------------------------------------
(* Steps of a goroutine                                                     *)

At(o, l) == pc[o] = l
Goto(o, l) == pc' = [pc EXCEPT ![o] = l]
Part(o) == part[DigestOf[o]]
Fault == faults < MaxFaults /\ faults' = faults + 1

\* Slip: any .part that is there counts as complete.
FullSizeIfPresent(c) == c # "none"

\* The .part has the object's size.
FullSize(c) == c \in {"good", "bad"}

\* Slip: the digest is not compared.
VerifiedBySize(c) == c \in {"good", "bad"}

\* verify.Blob
Verified(c) == c = "good"

LiveState == {"waiting", "active", "paused"}

\* os.Remove of the .part: whoever had it open goes on writing to an unlinked
\* file.
Detached(d) == [g \in Gid |-> IF aria[g].dig = d THEN [aria[g] EXCEPT !.att = FALSE] ELSE aria[g]]

RemovePart(d) == part' = [part EXCEPT ![d] = "none"]

\* downloadObject returns r; MarkFailed only when s says so.
Return(o, r, s) ==
    /\ Goto(o, "done")
    /\ res' = [res EXCEPT ![o] = r]
    /\ status' = [status EXCEPT ![o] = s]
    /\ gid' = [gid EXCEPT ![o] = None]
    /\ polls' = [polls EXCEPT ![o] = 0]
    /\ UNCHANGED <<attempt, last>>

\* Slip: one attempt too many.
ExhaustedLate(o) == attempt[o] > MaxRetries

Exhausted(o) == attempt[o] >= MaxRetries

\* How downloadObject deals with an error of an attempt: a cancellation or a
\* deadline returns at once, a fatal one after MarkFailed, and any other is
\* retried while attempts are left. No other class is told apart.
AttemptFails(o, class) ==
    \/ class \in {"canceled", "deadline"} /\ Return(o, class, status[o])
    \/ class = "fatal" /\ Return(o, "error", "failed")
    \/ class \notin {"canceled", "deadline", "fatal"} /\ Exhausted(o)
         /\ Return(o, "error", "failed")
    \/ /\ class \notin {"canceled", "deadline", "fatal"} /\ ~Exhausted(o)
       /\ Goto(o, "retry")
       /\ last' = [last EXCEPT ![o] = class]
       /\ gid' = [gid EXCEPT ![o] = None]
       /\ polls' = [polls EXCEPT ![o] = 0]
       /\ UNCHANGED <<attempt, res, status>>

\* An RPC of an attempt fails: by the cancellation of ctx, or by a fault.
RpcFails(o) ==
    \/ cancelled /\ AttemptFails(o, "canceled") /\ UNCHANGED faults
    \/ "error" \in RpcFaults /\ Fault /\ AttemptFails(o, "retry")
    \/ "deadline" \in RpcFaults /\ Fault /\ AttemptFails(o, "deadline")

------------------------------------------------------------------------------
(* Run                                                                      *)

Launch(o) ==
    /\ main = "launch" /\ ~cancelled
    /\ At(o, "unborn")
    /\ Goto(o, "queued")
    /\ UNCHANGED <<env, local, task, rangeBlind, files, aria>>

\* The launching loop ends with the last object, or early when cancelled.
StopLaunching ==
    /\ main = "launch"
    /\ cancelled \/ \A o \in Obj : ~At(o, "unborn")
    /\ main' = "wait"
    /\ UNCHANGED <<cancelled, faults, pc, local, task, rangeBlind, files, aria>>

\* Slip: deadlines are left out of the joined errors as well.
ReportedErrors(r) == r = "error"

\* Errors that Run joins: all but cancellations.
Reported(r) == r \in {"error", "deadline"}

\* Slip: wg.Add is called by the goroutine itself, once it has its slot.
RunReturnsEarly ==
    /\ main = "wait"
    /\ \A o \in Obj : pc[o] \in {"unborn", "queued", "done"}
    /\ main' = IF cancelled THEN "canceled"
               ELSE IF \E o \in Obj : Reported(res[o]) THEN "failed"
               ELSE "ok"
    /\ UNCHANGED <<cancelled, faults, pc, local, task, rangeBlind, files, aria>>

\* wg.Wait is over.
RunReturns ==
    /\ main = "wait"
    /\ \A o \in Obj : pc[o] \in {"unborn", "done"}
    /\ main' = IF cancelled THEN "canceled"
               ELSE IF \E o \in Obj : Reported(res[o]) THEN "failed"
               ELSE "ok"
    /\ UNCHANGED <<cancelled, faults, pc, local, task, rangeBlind, files, aria>>

Holders == {o \in Obj : pc[o] \notin {"unborn", "queued", "done"}}

AcquireSlot(o) ==
    /\ At(o, "queued")
    /\ Cardinality(Holders) < Concurrency
    /\ Goto(o, "attempt")
    /\ UNCHANGED <<env, local, task, rangeBlind, files, aria>>

QueuedCancelled(o) ==
    /\ At(o, "queued") /\ cancelled
    /\ Return(o, "canceled", status[o])
    /\ UNCHANGED <<env, url, expires, fresh, alt, blind, rangeBlind, files, aria>>

------------------------------------------------------------------------------
(* attempt                                                                  *)

\* A .part of full size goes straight to verification; otherwise precheck
\* removes an oversized .part.
StartAttempt(o) ==
    LET d == DigestOf[o] IN
    /\ At(o, "attempt")
    /\ fresh' = [fresh EXCEPT ![o] = FALSE]
    /\ \/ FullSize(part[d]) /\ Goto(o, "verify") /\ UNCHANGED <<part, aria>>
       \/ /\ part[d] = "over"
          /\ RemovePart(d)
          /\ aria' = Detached(d)
          /\ Goto(o, "tellActive")
       \/ /\ part[d] \in {"none", "partial"}
          /\ Goto(o, "tellActive")
          /\ UNCHANGED <<part, aria>>
    /\ UNCHANGED <<env, local, status, url, expires, alt, blind, rangeBlind, blob>>

\* The tasks on o's .part path that an RPC listing states S shows.
Matching(o, S) == {g \in Gid : aria[g].st \in S /\ aria[g].dig = DigestOf[o]}

\* A listing: adopt one of its tasks unless an earlier listing had one.
Adopt(o, S) ==
    \/ gid[o] = None /\ \E g \in Matching(o, S) : gid' = [gid EXCEPT ![o] = g]
    \/ (gid[o] # None \/ Matching(o, S) = {}) /\ UNCHANGED gid

TellActive(o) ==
    /\ At(o, "tellActive")
    /\ \/ /\ Adopt(o, {"active"})
          /\ Goto(o, "tellWaiting")
          /\ UNCHANGED <<faults, attempt, polls, last, res, status>>
       \/ RpcFails(o)
    /\ UNCHANGED <<main, cancelled, url, expires, fresh, alt, blind, rangeBlind, files, aria>>

TellWaiting(o) ==
    /\ At(o, "tellWaiting")
    /\ \/ /\ Adopt(o, {"waiting", "paused"})
          /\ Goto(o, "url")
          /\ UNCHANGED <<faults, attempt, polls, last, res, status>>
       \/ RpcFails(o)
    /\ UNCHANGED <<main, cancelled, url, expires, fresh, alt, blind, rangeBlind, files, aria>>

\* The remembered URL is used until its expiry, which may have come.
ReuseURL(o) ==
    /\ At(o, "url")
    /\ url[o] # "none"
    /\ Goto(o, "submit")
    /\ UNCHANGED <<env, local, task, rangeBlind, files, aria>>

MustResolve(o) == At(o, "url") /\ (url[o] = "none" \/ expires[o])

\* ResolveBlobURL succeeds; its probes may have latched rangeBlind, which is
\* recorded for this task too (which forgets its old URL and expiry; else
\* SetTask keeps an old expiry when the new URL has none).
ResolveURL(o, kind) ==
    /\ MustResolve(o)
    /\ kind \in Resolutions \cap {"direct", "signed"}
    /\ rangeBlind' \in {rangeBlind, SourceBlind \/ rangeBlind}
    /\ blind' = [blind EXCEPT ![o] = @ \/ rangeBlind']
    /\ url' = [url EXCEPT ![o] = "blob"]
    /\ expires' = [expires EXCEPT ![o] = kind = "signed" \/ (@ /\ ~rangeBlind')]
    /\ fresh' = [fresh EXCEPT ![o] = TRUE]
    /\ status' = [status EXCEPT ![o] = "downloading"]
    /\ Goto(o, "submit")
    /\ UNCHANGED <<env, local, alt, files, aria>>

\* The blob is not there: the next alternate URL is recorded and the .part
\* watched, without any submission; with none left the task fails for good.
BlobNotFound(o) ==
    /\ MustResolve(o)
    /\ "notfound" \in Resolutions
    /\ Fault
    /\ \/ /\ alt[o] > 0
          /\ alt' = [alt EXCEPT ![o] = @ - 1]
          /\ url' = [url EXCEPT ![o] = "alt"]
          /\ status' = [status EXCEPT ![o] = "downloading"]
          /\ gid' = [gid EXCEPT ![o] = None]
          /\ Goto(o, "watchFile")
          /\ UNCHANGED <<attempt, polls, last, res>>
       \/ alt[o] = 0 /\ AttemptFails(o, "fatal") /\ UNCHANGED <<alt, url>>
    /\ UNCHANGED <<main, cancelled, expires, fresh, blind, rangeBlind, files, aria>>

ResolveFails(o) ==
    /\ MustResolve(o)
    /\ \/ cancelled /\ AttemptFails(o, "canceled") /\ UNCHANGED faults
       \/ "error" \in Resolutions /\ Fault /\ AttemptFails(o, "retry")
       \/ "deadline" \in Resolutions /\ Fault /\ AttemptFails(o, "deadline")
    /\ UNCHANGED <<main, cancelled, url, expires, fresh, alt, blind, rangeBlind, files, aria>>

\* Slip: what a previous run or attempt recorded for the task is ignored.
NotResumableByProbe(o) == rangeBlind

NotResumable(o) == blind[o] \/ rangeBlind

\* submitAndWatch: a found task is watched; before a fresh submission a
\* .part the source cannot continue is discarded, whatever its size is by now.
SubmitAndWatch(o) ==
    LET d == DigestOf[o] IN
    /\ At(o, "submit")
    /\ \/ gid[o] # None /\ Goto(o, "poll") /\ UNCHANGED <<part, aria>>
       \/ /\ gid[o] = None
          /\ Goto(o, "addUri")
          /\ IF NotResumable(o) /\ part[d] # "none"
             THEN RemovePart(d) /\ aria' = Detached(d)
             ELSE UNCHANGED <<part, aria>>
    /\ UNCHANGED <<env, local, task, rangeBlind, blob>>

\* aria2 queues the task under the next gid.
Enqueued(g, d) ==
    /\ aria[g].st = "none"
    /\ \A h \in Gid : h < g => aria[h].st # "none"
    /\ aria' = [aria EXCEPT ![g] = [NoTask EXCEPT !.st = "waiting", !.dig = d]]

\* submitTask, its fallback without checksum and headers included. When the
\* answer is lost, or waited for no longer, aria2 has the task all the same.
AddURI(o) ==
    /\ At(o, "addUri")
    /\ \/ \E g \in Gid :
             /\ Enqueued(g, DigestOf[o])
             /\ gid' = [gid EXCEPT ![o] = g]
             /\ status' = [status EXCEPT ![o] = "downloading"]
             /\ Goto(o, "poll")
             /\ UNCHANGED <<faults, attempt, polls, last, res>>
       \/ "lost" \in RpcFaults /\ RpcFails(o) /\ \E g \in Gid : Enqueued(g, DigestOf[o])
       \/ RpcFails(o) /\ UNCHANGED aria
    /\ UNCHANGED <<main, cancelled, url, expires, fresh, alt, blind, rangeBlind, files>>

------------------------------------------------------------------------------
(* waitTask, verifyAndCommit, and the retry loop                            *)

\* classifyAria2Failure. Code 8 stays retryable; 11 is aria2's own refusal of
\* a second task on one file.
Class(code) ==
    CASE code = "3" -> "fatal"
      [] code \in {"11", "12"} -> "cleanup"
      [] code = "14" -> "auth"
      [] code = "8" -> "code8"
      [] OTHER -> "retry"

\* RemoveDownloadResult, whose failure is ignored.
ResultRemoved(g) == aria' = [aria EXCEPT ![g].st = "gone"]

PollComplete(o) ==
    /\ At(o, "poll")
    /\ aria[gid[o]].st = "complete"
    /\ ResultRemoved(gid[o])
    /\ \/ /\ FullSize(Part(o))
          /\ Goto(o, "verify")
          /\ polls' = [polls EXCEPT ![o] = 0]
          /\ UNCHANGED <<attempt, gid, last, res, status>>
       \/ ~FullSize(Part(o)) /\ AttemptFails(o, "retry")
    /\ UNCHANGED <<env, url, expires, fresh, alt, blind, rangeBlind, files>>

\* After code 8 a probe decides whether the source ignores Range: it may miss
\* that, but is never wrong in saying so. Either way the URL is dropped.
ProbeVerdict(o) == {NotResumable(o), NotResumable(o) \/ SourceBlind}

\* Slip: only the expiry is dropped.
ForgetExpiry(o) ==
    /\ expires' = [expires EXCEPT ![o] = FALSE]
    /\ UNCHANGED url

ForgetURL(o) ==
    /\ url' = [url EXCEPT ![o] = "none"]
    /\ expires' = [expires EXCEPT ![o] = FALSE]

PollError(o) ==
    LET code == aria[gid[o]].code IN
    /\ At(o, "poll")
    /\ aria[gid[o]].st = "error"
    /\ ResultRemoved(gid[o])
    /\ IF code = "8"
       THEN /\ \E v \in ProbeVerdict(o) : blind' = [blind EXCEPT ![o] = @ \/ v]
            /\ ForgetURL(o)
       ELSE UNCHANGED <<blind, url, expires>>
    /\ AttemptFails(o, Class(code))
    /\ UNCHANGED <<env, fresh, alt, rangeBlind, files>>

\* Slip: "removed" is taken for one of the states to keep polling in.
PollRemovedIgnored(o) ==
    /\ At(o, "poll")
    /\ aria[gid[o]].st = "removed"
    /\ UNCHANGED vars

PollRemoved(o) ==
    /\ At(o, "poll")
    /\ aria[gid[o]].st = "removed"
    /\ AttemptFails(o, "retry")
    /\ UNCHANGED <<env, url, expires, fresh, alt, blind, rangeBlind, files, aria>>

PollAlive(o) ==
    /\ At(o, "poll")
    /\ aria[gid[o]].st \in LiveState
    /\ polls[o] > 0
    /\ polls' = [polls EXCEPT ![o] = 0]
    /\ UNCHANGED <<env, pc, attempt, gid, last, res, task, rangeBlind, files, aria>>

\* tellStatus fails, because of a fault or because aria2 has forgotten the
\* gid. A timeout counts like any other failed poll, until it is the last.
PollFails(o) ==
    /\ At(o, "poll")
    /\ \/ RpcFaults # {} /\ Fault
       \/ aria[gid[o]].st = "gone" /\ UNCHANGED faults
    /\ \/ polls[o] = MaxPollErrs
            /\ \E class \in {"retry"} \cup (RpcFaults \cap {"deadline"}) : AttemptFails(o, class)
       \/ /\ polls[o] < MaxPollErrs
          /\ polls' = [polls EXCEPT ![o] = @ + 1]
          /\ UNCHANGED <<pc, attempt, gid, last, res, status>>
    /\ UNCHANGED <<main, cancelled, url, expires, fresh, alt, blind, rangeBlind, files, aria>>

\* Slip: the cancellation is not seen while the task is alive.
PollCancelledLate(o) ==
    /\ At(o, "poll") /\ cancelled
    /\ aria[gid[o]].st \notin LiveState
    /\ Return(o, "canceled", status[o])
    /\ UNCHANGED <<env, url, expires, fresh, alt, blind, rangeBlind, files, aria>>

\* The cancellation is seen between two polls: stopTask, which may fail, and
\* return; or it interrupts tellStatus, and the task is not stopped.
PollCancelled(o) ==
    /\ At(o, "poll") /\ cancelled
    /\ Return(o, "canceled", status[o])
    /\ \/ aria[gid[o]].st \in LiveState /\ aria' = [aria EXCEPT ![gid[o]].st = "removed", ![gid[o]].att = FALSE]
       \/ UNCHANGED aria
    /\ UNCHANGED <<env, url, expires, fresh, alt, blind, rangeBlind, files>>

\* waitTask without a gid watches the file alone.
WatchFile(o) ==
    /\ At(o, "watchFile")
    /\ \/ /\ cancelled
          /\ Return(o, "canceled", status[o])
       \/ /\ FullSize(Part(o))
          /\ Goto(o, "verify")
          /\ UNCHANGED <<local, status>>
    /\ UNCHANGED <<env, url, expires, fresh, alt, blind, rangeBlind, files, aria>>

\* verify.Blob reads the .part; a mismatch deletes it.
Verify(o) ==
    /\ At(o, "verify")
    /\ \/ /\ Verified(Part(o))
          /\ Goto(o, "commit")
          /\ UNCHANGED <<local, status, part, aria>>
       \/ /\ ~Verified(Part(o))
          /\ RemovePart(DigestOf[o])
          /\ aria' = Detached(DigestOf[o])
          /\ AttemptFails(o, "cleanup")
    /\ UNCHANGED <<env, url, expires, fresh, alt, blind, rangeBlind, blob>>

\* CommitVerified, under the plan's mutex: rename, control file, status. The
\* rename takes the .part as it is now, and fails when it is no longer there
\* or by an I/O error.
Commit(o) ==
    LET d == DigestOf[o] IN
    /\ At(o, "commit")
    /\ \/ /\ part[d] # "none"
          /\ blob' = [blob EXCEPT ![d] = part[d]]
          /\ RemovePart(d)
          /\ aria' = Detached(d)
          /\ Return(o, "nil", "committed")
          /\ ForgetURL(o)
          /\ UNCHANGED faults
       \/ /\ \/ part[d] = "none" /\ UNCHANGED faults
             \/ part[d] # "none" /\ Fault
          /\ AttemptFails(o, "retry")
          /\ UNCHANGED <<files, aria, url, expires>>
    /\ UNCHANGED <<main, cancelled, fresh, alt, blind, rangeBlind>>

\* Slip: the loop's counter does not advance.
RetryUncounted(o) ==
    /\ At(o, "retry")
    /\ \/ cancelled /\ Return(o, "canceled", status[o])
       \/ /\ ~cancelled
          /\ status' = [status EXCEPT ![o] = "pending"]
          /\ Goto(o, "backoff")
          /\ UNCHANGED <<attempt, gid, polls, last, res>>
    /\ UNCHANGED <<env, url, expires, fresh, alt, blind, rangeBlind, files, aria>>

\* The head of the loop: MarkRetry, and on to the backoff.
Retry(o) ==
    /\ At(o, "retry")
    /\ \/ cancelled /\ Return(o, "canceled", status[o])
       \/ /\ ~cancelled
          /\ attempt' = [attempt EXCEPT ![o] = @ + 1]
          /\ status' = [status EXCEPT ![o] = "pending"]
          /\ Goto(o, "backoff")
          /\ UNCHANGED <<gid, polls, last, res>>
    /\ UNCHANGED <<env, url, expires, fresh, alt, blind, rangeBlind, files, aria>>

Backoff(o) ==
    /\ At(o, "backoff")
    /\ \/ cancelled /\ Return(o, "canceled", status[o])
       \/ Goto(o, "attempt") /\ UNCHANGED <<local, status>>
    /\ UNCHANGED <<env, url, expires, fresh, alt, blind, rangeBlind, files, aria>>

------------------------------------------------------------------------------
(* aria2 and the user                                                       *)

Active == {g \in Gid : aria[g].st = "active"}

\* A waiting task starts: refused when another is on the same file, and, on
\* a source that ignores Range, when there is something to resume.
Activate(g) ==
    /\ aria[g].st = "waiting"
    /\ Cardinality(Active) < MaxActive
    /\ aria' = [aria EXCEPT ![g] =
         IF \E h \in Active : aria[h].dig = aria[g].dig
           THEN [@ EXCEPT !.st = "error", !.code = "11"]
         ELSE IF SourceBlind /\ part[aria[g].dig] = "partial"
           THEN [@ EXCEPT !.st = "error", !.code = "8"]
         ELSE [@ EXCEPT !.st = "active", !.att = TRUE]]
    /\ UNCHANGED <<env, pc, local, task, rangeBlind, files>>

\* Bytes arrive for the file the task has open, the last ones or not.
Receive(g, c) ==
    LET d == aria[g].dig IN
    /\ aria[g].st = "active" /\ aria[g].att
    /\ part[d] \in {"none", "partial"}
    /\ part' = [part EXCEPT ![d] = c]
    /\ IF c \in {"bad", "over"} THEN Fault ELSE UNCHANGED faults
    /\ UNCHANGED <<main, cancelled, pc, local, task, rangeBlind, blob, aria>>

\* The task has all its bytes, in a file that may have been unlinked.
Finish(g) ==
    LET t == aria[g] IN
    /\ t.st = "active"
    /\ t.att => part[t.dig] \in {"good", "bad", "over"}
    /\ aria' = [aria EXCEPT ![g].st = "complete", ![g].att = FALSE]
    /\ UNCHANGED <<env, pc, local, task, rangeBlind, part, blob>>

\* The transfer fails, or someone removes the task.
Break(g) ==
    /\ aria[g].st \in {"waiting", "active"}
    /\ Fault
    /\ \/ \E c \in Codes : aria' = [aria EXCEPT ![g].st = "error", ![g].att = FALSE, ![g].code = c]
       \/ aria' = [aria EXCEPT ![g].st = "removed", ![g].att = FALSE]
    /\ UNCHANGED <<main, cancelled, pc, local, task, rangeBlind, files>>

Cancel ==
    /\ ~cancelled
    /\ main \in {"launch", "wait"}
    /\ cancelled' = TRUE
    /\ UNCHANGED <<main, faults, pc, local, task, rangeBlind, files, aria>>

Terminated == main \in {"ok", "failed", "canceled"}
Idle == Terminated /\ UNCHANGED vars

Resolve(o) ==
    \/ ReuseURL(o)
    \/ \E kind \in {"direct", "signed"} : ResolveURL(o, kind)
    \/ BlobNotFound(o) \/ ResolveFails(o)

Poll(o) == PollComplete(o) \/ PollError(o) \/ PollRemoved(o) \/ PollAlive(o)
             \/ PollFails(o) \/ PollCancelled(o)

Goroutine(o) ==
    \/ AcquireSlot(o) \/ QueuedCancelled(o) \/ StartAttempt(o)
    \/ TellActive(o) \/ TellWaiting(o) \/ Resolve(o) \/ SubmitAndWatch(o) \/ AddURI(o)
    \/ Poll(o) \/ WatchFile(o) \/ Verify(o) \/ Commit(o) \/ Retry(o) \/ Backoff(o)

Main == StopLaunching \/ RunReturns \/ \E o \in Obj : Launch(o)

Aria2(g) ==
    Activate(g) \/ (\E c \in {"partial", "good", "bad", "over"} : Receive(g, c))
        \/ Finish(g) \/ Break(g)

Next ==
    \/ Main \/ Cancel \/ Idle
    \/ \E o \in Obj : Goroutine(o)
    \/ \E g \in Gid : Aria2(g)

Spec == Init /\ [][Next]_vars

\* The runtime schedules every goroutine.
GoFairness == WF_vars(Main) /\ \A o \in Obj : WF_vars(Goroutine(o))

\* A running aria2 starts waiting tasks and gets and reports all the bytes.
Aria2Fairness ==
    \A g \in Gid : /\ WF_vars(Activate(g)) /\ WF_vars(Finish(g))
                   /\ WF_vars(Receive(g, "good"))

GoFairSpec == Spec /\ GoFairness

------------------------------------------------------------------------------
(* Properties                                                               *)

\* What is marked committed lies in blobs/ complete and with the right digest
\* (commitFile's contract: the caller verified digest and size), however
\* aria2, leftover tasks and retries interleave with verification and rename.
CommitSound == \A o \in Obj : status[o] = "committed" => blob[DigestOf[o]] = "good"

\* Run returns nil only when every object is committed: no error is lost on
\* the way through the retry loop, the slots and the joined errors.
ResultSound == main = "ok" => \A o \in Obj : status[o] = "committed"

\* Seen from pull, Run is a Download: see there.
Pulled == INSTANCE Download WITH
    stored <- {d \in Digest : blob[d] = "good"},
    committed <- {o \in Obj : status[o] = "committed"},
    result <- IF Terminated THEN main ELSE "none"

ImplementsDownload == Pulled!Spec

\* The order of the locations inside an attempt.
Stage(l) ==
    CASE l = "unborn" -> 0
      [] l = "queued" -> 1
      [] l = "backoff" -> 2
      [] l = "attempt" -> 3
      [] l = "tellActive" -> 4
      [] l = "tellWaiting" -> 5
      [] l = "url" -> 6
      [] l \in {"submit", "watchFile"} -> 7
      [] l = "addUri" -> 8
      [] l = "poll" -> 9
      [] l = "verify" -> 10
      [] l = "commit" -> 11
      [] l = "retry" -> 12
      [] OTHER -> 13

\* A goroutine goes back to an earlier stage only by using up an attempt, so
\* that no error, answer or state of aria2 keeps it going round for ever.
AttemptsForward ==
    [][\A o \in Obj : pc'[o] # pc[o] =>
         \/ attempt'[o] > attempt[o]
         \/ attempt'[o] = attempt[o] /\ Stage(pc'[o]) > Stage(pc[o])]_vars

GivenUp(d) == part[d] \in {"partial", "good"} /\ part'[d] = "none"

\* After a failure of the cleanup class the .part "must be deleted before the
\* next attempt" (partCleanupError), which the code leaves undone.
Condemned(o) == last[o] = "cleanup" /\ pc[o] \in {"retry", "backoff", "attempt"}

\* A .part that can be resumed or committed is thrown away only on a source
\* known to ignore Range (discardUnresumablePart), or where a failure of the
\* cleanup class is to be cleaned up: retryableError retries "without touching
\* the .part", authRetryError "while keeping" it, and a complete one goes
\* nowhere but into blobs/.
KeepsProgress ==
    [][\A d \in Digest : GivenUp(d) =>
         \/ part[d] = "good" /\ blob'[d] = "good"
         \/ \E o \in Obj : DigestOf[o] = d /\ (NotResumable(o) \/ Condemned(o))]_vars

\* After code 8 the next submission uses a URL resolved anew, "so the next
\* attempt cannot resubmit the same URL" (waitTask).
Code8ReResolves ==
    \A o \in Obj : At(o, "addUri") /\ last[o] = "code8" => fresh[o]

\* When the source is known to be unresumable aria2 is given a .part to resume
\* (which it would refuse with code 8 until the attempts run out) only if one
\* of its own tasks on that file, unseen by both listings or left behind by an
\* earlier attempt, wrote it after the discard.
NoHopelessResume ==
    \A o \in Obj : At(o, "addUri") /\ blind[o] /\ Part(o) = "partial" =>
        \E g \in Gid :
            /\ aria[g].dig = DigestOf[o]
            /\ (aria[g].st = "active" /\ aria[g].att) \/ aria[g].st \in {"error", "removed"}

\* Run returns: while aria2 works, no goroutine, slot, retry or poll keeps it
\* waiting.
Termination == Aria2Fairness => <>Terminated

\* Once cancelled Run returns, even if aria2 does nothing any more: the
\* goroutines waiting for slots, RPCs, polls and backoffs all notice.
CancelReturns == cancelled ~> Terminated

\* authRetryError's comment: "refresh auth, re-resolve the URL, and retry".
AuthReResolves ==
    \A o \in Obj : At(o, "addUri") /\ last[o] = "auth" => fresh[o]

\* README: network errors and timeouts are retried with backoff.
TimeoutsRetried == \A o \in Obj : res[o] = "deadline" => Exhausted(o)
==============================================================================
