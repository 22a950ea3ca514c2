---------------------------- MODULE SchedulerProofs ---------------------------
(***************************************************************************)
(* Type correctness of Scheduler, that Run reports success only when every *)
(* object is committed, that committed means a verified blob, that no      *)
(* progress is thrown away, and that a URL refused with code 8 is not used *)
(* again, for any objects, limits and kinds of faults.                     *)
(***************************************************************************)
EXTENDS Scheduler, TLAPS

------------------------------------------------------------------------------
(* Types of the parts of a step                                             *)

\* The part of TypeOK that the retry loop of a goroutine writes, with what
\* keeps attempt in its range: a retry is only begun with attempts left.
LoopInv ==
    /\ pc \in [Obj -> Location]
    /\ attempt \in [Obj -> 1..MaxRetries]
    /\ gid \in [Obj -> Gid \cup {None}]
    /\ polls \in [Obj -> 0..MaxPollErrs]
    /\ last \in [Obj -> {"none", "retry", "cleanup", "auth", "code8"}]
    /\ res \in [Obj -> {"none", "nil", "error", "canceled", "deadline"}]
    /\ status \in [Obj -> {"pending", "downloading", "committed", "failed"}]
    /\ \A o \in Obj : pc[o] = "retry" => attempt[o] < MaxRetries

\* The rest: the remembered URL of each task, the files, aria2 and Run.
RestType ==
    /\ main \in {"launch", "wait", "ok", "failed", "canceled"}
    /\ cancelled \in BOOLEAN
    /\ url \in [Obj -> {"none", "blob", "alt"}]
    /\ expires \in [Obj -> BOOLEAN]
    /\ fresh \in [Obj -> BOOLEAN]
    /\ alt \in [Obj -> 0..AltURLs]
    /\ blind \in [Obj -> BOOLEAN]
    /\ rangeBlind \in BOOLEAN
    /\ part \in [Digest -> Content]
    /\ blob \in [Digest -> Content]
    /\ aria \in [Gid -> Aria2Task]
    /\ faults \in 0..MaxFaults

LEMMA TypeSplit == LoopInv /\ RestType => TypeOK
BY DEF TypeOK, LoopInv, RestType

\* The errors an attempt ends with, as the retry loop tells them apart.
ErrorClass == {"canceled", "deadline", "fatal", "retry", "cleanup", "auth", "code8"}

LEMMA ReturnType ==
    ASSUME LoopInv, NEW o \in Obj, NEW r \in {"nil", "error", "canceled", "deadline"},
           NEW s \in {"pending", "downloading", "committed", "failed"}, Return(o, r, s)
    PROVE  LoopInv'
<1>1. 0 \in 0..MaxPollErrs
    BY NumbersAssumption
<1> QED
    BY <1>1 DEF LoopInv, Return, Goto, Location

LEMMA AttemptFailsType ==
    ASSUME LoopInv, NEW o \in Obj, NEW class \in ErrorClass, AttemptFails(o, class)
    PROVE  LoopInv'
<1>1. status[o] \in {"pending", "downloading", "committed", "failed"}
    BY DEF LoopInv
<1>2. CASE class \in {"canceled", "deadline"} /\ Return(o, class, status[o])
    BY <1>1, <1>2, ReturnType
<1>3. CASE Return(o, "error", "failed")
    BY <1>3, ReturnType
<1>4. CASE /\ class \notin {"canceled", "deadline", "fatal"} /\ ~Exhausted(o) /\ Goto(o, "retry")
           /\ last' = [last EXCEPT ![o] = class]
           /\ gid' = [gid EXCEPT ![o] = None]
           /\ polls' = [polls EXCEPT ![o] = 0]
           /\ UNCHANGED <<attempt, res, status>>
    <2>1. class \in {"retry", "cleanup", "auth", "code8"}
        BY <1>4 DEF ErrorClass
    <2>2. 0 \in 0..MaxPollErrs
        BY NumbersAssumption
    <2>3. ~Exhausted(o) => attempt[o] < MaxRetries
        BY NumbersAssumption DEF Exhausted, LoopInv
    <2> QED
        BY <1>4, <2>1, <2>2, <2>3 DEF LoopInv, Goto, Location
<1> QED
    BY <1>2, <1>3, <1>4 DEF AttemptFails

LEMMA FaultType ==
    ASSUME RestType, Fault \/ UNCHANGED faults
    PROVE  faults' \in 0..MaxFaults
BY NumbersAssumption DEF RestType, Fault

LEMMA RpcFailsType ==
    ASSUME LoopInv, RestType, NEW o \in Obj, RpcFails(o)
    PROVE  LoopInv' /\ faults' \in 0..MaxFaults
BY AttemptFailsType, FaultType DEF RpcFails, ErrorClass

\* An attempt moves on, and the rest of the loop's state stays.
LEMMA GotoType ==
    ASSUME LoopInv, NEW o \in Obj, NEW l \in Location, Goto(o, l)
    PROVE  /\ pc' \in [Obj -> Location]
           /\ l # "retry" => \A q \in Obj : pc'[q] = "retry" => pc[q] = "retry"
BY DEF LoopInv, Goto

LEMMA DetachedType ==
    ASSUME RestType, NEW d
    PROVE  Detached(d) \in [Gid -> Aria2Task]
BY DEF RestType, Detached, Aria2Task

LEMMA RemovePartType ==
    ASSUME RestType, NEW d, RemovePart(d)
    PROVE  part' \in [Digest -> Content]
BY DEF RestType, RemovePart, Content

LEMMA ForgetURLType ==
    ASSUME RestType, NEW o \in Obj, ForgetURL(o)
    PROVE  url' \in [Obj -> {"none", "blob", "alt"}] /\ expires' \in [Obj -> BOOLEAN]
BY DEF RestType, ForgetURL

LEMMA ClassType == ASSUME NEW code PROVE Class(code) \in ErrorClass
BY DEF Class, ErrorClass

\* aria2's tasks keep their type whatever an RPC or the transfer does to one.
LEMMA TaskType ==
    ASSUME RestType, NEW g \in Gid, NEW st \in {"active", "complete", "error", "removed", "gone"},
           NEW att \in BOOLEAN, NEW code \in Codes \cup {"11", "8", "0"}
    PROVE  /\ [aria EXCEPT ![g].st = st] \in [Gid -> Aria2Task]
           /\ [aria EXCEPT ![g].st = st, ![g].att = att] \in [Gid -> Aria2Task]
           /\ [aria EXCEPT ![g].st = st, ![g].att = att, ![g].code = code] \in [Gid -> Aria2Task]
           /\ [aria EXCEPT ![g] = [@ EXCEPT !.st = st, !.code = code]] \in [Gid -> Aria2Task]
           /\ [aria EXCEPT ![g] = [@ EXCEPT !.st = st, !.att = att]] \in [Gid -> Aria2Task]
<1>1. aria \in [Gid -> Aria2Task]
    BY DEF RestType
<1>2. \A t \in Aria2Task : /\ [t EXCEPT !.st = st] \in Aria2Task
                            /\ [t EXCEPT !.att = att] \in Aria2Task
                            /\ [t EXCEPT !.code = code] \in Aria2Task
    BY DEF Aria2Task
<1>3. \A a \in [Gid -> Aria2Task] : /\ [a EXCEPT ![g].st = st] \in [Gid -> Aria2Task]
                                    /\ [a EXCEPT ![g].att = att] \in [Gid -> Aria2Task]
                                    /\ [a EXCEPT ![g].code = code] \in [Gid -> Aria2Task]
    BY <1>2
<1>4. [aria EXCEPT ![g].st = st] \in [Gid -> Aria2Task]
    BY <1>1, <1>3
<1>5. [aria EXCEPT ![g].st = st, ![g].att = att] \in [Gid -> Aria2Task]
    BY <1>3, <1>4
<1>6. [aria EXCEPT ![g].st = st, ![g].att = att, ![g].code = code] \in [Gid -> Aria2Task]
    BY <1>3, <1>5
<1>7. [aria[g] EXCEPT !.st = st, !.code = code] \in Aria2Task
    BY <1>1, <1>2
<1>8. [aria[g] EXCEPT !.st = st, !.att = att] \in Aria2Task
    BY <1>1, <1>2
<1> QED
    BY <1>1, <1>4, <1>5, <1>6, <1>7, <1>8

\* The same for the task a goroutine watches, if it watches one.
LEMMA WatchedType ==
    ASSUME LoopInv, RestType, NEW o \in Obj, NEW st \in {"removed", "gone"}
    PROVE  /\ [aria EXCEPT ![gid[o]].st = st] \in [Gid -> Aria2Task]
           /\ [aria EXCEPT ![gid[o]].st = st, ![gid[o]].att = FALSE] \in [Gid -> Aria2Task]
<1>1. CASE gid[o] \in Gid
    BY <1>1, TaskType, FALSE \in BOOLEAN
<1>2. CASE gid[o] \notin Gid
    BY <1>2 DEF RestType
<1> QED
    BY <1>1, <1>2

LEMMA EnqueuedType ==
    ASSUME RestType, NEW g \in Gid, NEW d \in Digest, Enqueued(g, d)
    PROVE  aria' \in [Gid -> Aria2Task]
<1>1. [NoTask EXCEPT !.st = "waiting", !.dig = d] \in Aria2Task
    BY DEF NoTask, Aria2Task
<1> QED
    BY <1>1 DEF RestType, Enqueued

LEMMA DigestType == ASSUME NEW o \in Obj PROVE DigestOf[o] \in Digest
BY DigestOfAssumption

------------------------------------------------------------------------------
(* Every step keeps the types                                               *)

LEMMA MainType ==
    ASSUME LoopInv, RestType, Main
    PROVE  LoopInv' /\ RestType'
<1>1. ASSUME NEW o \in Obj, Launch(o) PROVE LoopInv' /\ RestType'
    BY <1>1 DEF Launch, Goto, LoopInv, RestType, Location, env, local, task, files
<1>2. CASE StopLaunching
    BY <1>2 DEF StopLaunching, LoopInv, RestType, local, task, files
<1>3. CASE RunReturns
    BY <1>3 DEF RunReturns, LoopInv, RestType, local, task, files
<1> QED
    BY <1>1, <1>2, <1>3 DEF Main

LEMMA SlotType ==
    ASSUME LoopInv, RestType, NEW o \in Obj, AcquireSlot(o) \/ QueuedCancelled(o)
    PROVE  LoopInv' /\ RestType'
<1>1. CASE AcquireSlot(o)
    BY <1>1 DEF AcquireSlot, Goto, LoopInv, RestType, Location, env, local, task, files
<1>2. CASE QueuedCancelled(o)
    <2>1. LoopInv'
        BY <1>2, ReturnType DEF QueuedCancelled, LoopInv
    <2> QED
        BY <1>2, <2>1 DEF QueuedCancelled, RestType, env, files
<1> QED
    BY <1>1, <1>2

LEMMA StartAttemptType ==
    ASSUME LoopInv, RestType, NEW o \in Obj, StartAttempt(o)
    PROVE  LoopInv' /\ RestType'
<1> DEFINE d == DigestOf[o]
<1> USE DEF StartAttempt
<1>1. pc' \in [Obj -> Location] /\ \A q \in Obj : pc'[q] = "retry" => pc[q] = "retry"
    BY GotoType DEF Location
<1>2. LoopInv'
    BY <1>1 DEF LoopInv, local
<1>3. fresh' \in [Obj -> BOOLEAN]
    BY DEF RestType
<1>4. part' \in [Digest -> Content] /\ aria' \in [Gid -> Aria2Task]
    <2>1. CASE UNCHANGED <<part, aria>>
        BY <2>1 DEF RestType
    <2>2. CASE RemovePart(d) /\ aria' = Detached(d)
        BY <2>2, RemovePartType, DetachedType
    <2> QED
        BY <2>1, <2>2
<1>5. RestType'
    BY <1>3, <1>4 DEF RestType, env
<1> QED
    BY <1>2, <1>5

LEMMA FindTaskType ==
    ASSUME LoopInv, RestType, NEW o \in Obj, TellActive(o) \/ TellWaiting(o)
    PROVE  LoopInv' /\ RestType'
<1>1. ASSUME NEW S, Adopt(o, S) PROVE gid' \in [Obj -> Gid \cup {None}]
    BY <1>1 DEF Adopt, Matching, LoopInv
<1>2. CASE TellActive(o)
    <2>1. ASSUME Adopt(o, {"active"}), Goto(o, "tellWaiting"),
                 UNCHANGED <<faults, attempt, polls, last, res, status>>
          PROVE  LoopInv' /\ faults' \in 0..MaxFaults
        BY <1>1, <2>1, GotoType DEF LoopInv, RestType, Location
    <2>2. LoopInv' /\ faults' \in 0..MaxFaults
        BY <1>2, <2>1, RpcFailsType DEF TellActive
    <2> QED
        BY <1>2, <2>2 DEF TellActive, RestType, files
<1>3. CASE TellWaiting(o)
    <2>1. ASSUME Adopt(o, {"waiting", "paused"}), Goto(o, "url"),
                 UNCHANGED <<faults, attempt, polls, last, res, status>>
          PROVE  LoopInv' /\ faults' \in 0..MaxFaults
        BY <1>1, <2>1, GotoType DEF LoopInv, RestType, Location
    <2>2. LoopInv' /\ faults' \in 0..MaxFaults
        BY <1>3, <2>1, RpcFailsType DEF TellWaiting
    <2> QED
        BY <1>3, <2>2 DEF TellWaiting, RestType, files
<1> QED
    BY <1>2, <1>3

LEMMA ResolveType ==
    ASSUME LoopInv, RestType, NEW o \in Obj, Resolve(o)
    PROVE  LoopInv' /\ RestType'
<1>1. CASE ReuseURL(o)
    BY <1>1 DEF ReuseURL, Goto, LoopInv, RestType, Location, env, local, task, files
<1>2. ASSUME NEW kind, ResolveURL(o, kind) PROVE LoopInv' /\ RestType'
    <2>1. pc' \in [Obj -> Location] /\ \A q \in Obj : pc'[q] = "retry" => pc[q] = "retry"
        BY <1>2, GotoType DEF ResolveURL, Location
    <2>2. LoopInv'
        BY <1>2, <2>1 DEF ResolveURL, LoopInv, local
    <2>3. rangeBlind' \in BOOLEAN
        BY <1>2, NumbersAssumption DEF ResolveURL, RestType
    <2>4. blind' \in [Obj -> BOOLEAN] /\ expires' \in [Obj -> BOOLEAN]
        BY <1>2, <2>3 DEF ResolveURL, RestType
    <2>5. url' \in [Obj -> {"none", "blob", "alt"}] /\ fresh' \in [Obj -> BOOLEAN]
        BY <1>2 DEF ResolveURL, RestType
    <2>6. RestType'
        BY <1>2, <2>3, <2>4, <2>5 DEF ResolveURL, RestType, env, files
    <2> QED
        BY <2>2, <2>6
<1>3. CASE BlobNotFound(o)
    <2>1. LoopInv' /\ alt' \in [Obj -> 0..AltURLs] /\ url' \in [Obj -> {"none", "blob", "alt"}]
        <3>1. CASE /\ alt[o] > 0
                   /\ alt' = [alt EXCEPT ![o] = @ - 1]
                   /\ url' = [url EXCEPT ![o] = "alt"]
                   /\ status' = [status EXCEPT ![o] = "downloading"]
                   /\ gid' = [gid EXCEPT ![o] = None]
                   /\ Goto(o, "watchFile")
                   /\ UNCHANGED <<attempt, polls, last, res>>
            <4>1. alt[o] - 1 \in 0..AltURLs
                BY <3>1, NumbersAssumption DEF RestType
            <4> QED
                BY <3>1, <4>1, GotoType DEF LoopInv, RestType, Location
        <3>2. CASE AttemptFails(o, "fatal") /\ UNCHANGED <<alt, url>>
            BY <3>2, AttemptFailsType DEF RestType, ErrorClass
        <3> QED
            BY <1>3, <3>1, <3>2 DEF BlobNotFound
    <2>2. faults' \in 0..MaxFaults
        BY <1>3, FaultType DEF BlobNotFound
    <2> QED
        BY <1>3, <2>1, <2>2 DEF BlobNotFound, RestType, files
<1>4. CASE ResolveFails(o)
    <2>1. LoopInv' /\ faults' \in 0..MaxFaults
        BY <1>4, AttemptFailsType, FaultType DEF ResolveFails, ErrorClass
    <2> QED
        BY <1>4, <2>1 DEF ResolveFails, RestType, files
<1> QED
    BY <1>1, <1>2, <1>3, <1>4 DEF Resolve

LEMMA SubmitType ==
    ASSUME LoopInv, RestType, NEW o \in Obj, SubmitAndWatch(o) \/ AddURI(o)
    PROVE  LoopInv' /\ RestType'
<1>1. CASE SubmitAndWatch(o)
    <2> USE <1>1 DEF SubmitAndWatch
    <2>1. pc' \in [Obj -> Location] /\ \A q \in Obj : pc'[q] = "retry" => pc[q] = "retry"
        BY GotoType DEF Location
    <2>2. part' \in [Digest -> Content] /\ aria' \in [Gid -> Aria2Task]
        <3>1. CASE UNCHANGED <<part, aria>>
            BY <3>1 DEF RestType
        <3>2. CASE RemovePart(DigestOf[o]) /\ aria' = Detached(DigestOf[o])
            BY <3>2, RemovePartType, DetachedType
        <3> QED
            BY <3>1, <3>2
    <2>3. LoopInv'
        BY <2>1 DEF LoopInv, local, task
    <2> QED
        BY <2>2, <2>3 DEF RestType, env, task
<1>2. CASE AddURI(o)
    <2>1. aria' \in [Gid -> Aria2Task]
        BY <1>2, DigestType, EnqueuedType DEF AddURI, RestType
    <2>2. LoopInv' /\ faults' \in 0..MaxFaults
        <3>1. ASSUME NEW g \in Gid, gid' = [gid EXCEPT ![o] = g],
                     status' = [status EXCEPT ![o] = "downloading"], Goto(o, "poll"),
                     UNCHANGED <<faults, attempt, polls, last, res>>
              PROVE  LoopInv' /\ faults' \in 0..MaxFaults
            BY <3>1, GotoType DEF LoopInv, RestType, Location
        <3>2. CASE RpcFails(o)
            BY <3>2, RpcFailsType
        <3> QED
            BY <1>2, <3>1, <3>2 DEF AddURI
    <2> QED
        BY <1>2, <2>1, <2>2 DEF AddURI, RestType, files
<1> QED
    BY <1>1, <1>2

LEMMA PollType ==
    ASSUME LoopInv, RestType, NEW o \in Obj, Poll(o)
    PROVE  LoopInv' /\ RestType'
<1>0. 0 \in 0..MaxPollErrs
    BY NumbersAssumption
<1>1. CASE PollComplete(o)
    <2>1. aria' \in [Gid -> Aria2Task]
        BY <1>1, WatchedType DEF PollComplete, ResultRemoved
    <2>2. CASE Goto(o, "verify") /\ polls' = [polls EXCEPT ![o] = 0]
                 /\ UNCHANGED <<attempt, gid, last, res, status>>
        BY <1>0, <1>1, <2>1, <2>2, GotoType DEF PollComplete, LoopInv, RestType, Location, env, files
    <2>3. CASE AttemptFails(o, "retry")
        <3>1. LoopInv'
            BY <2>3, AttemptFailsType DEF ErrorClass
        <3> QED
            BY <1>1, <2>1, <3>1 DEF PollComplete, RestType, env, files
    <2> QED
        BY <1>1, <2>2, <2>3 DEF PollComplete
<1>2. CASE PollError(o)
    <2>1. aria' \in [Gid -> Aria2Task]
        BY <1>2, WatchedType DEF PollError, ResultRemoved
    <2>2. LoopInv'
        BY <1>2, ClassType, AttemptFailsType DEF PollError
    <2>3. /\ url' \in [Obj -> {"none", "blob", "alt"}] /\ expires' \in [Obj -> BOOLEAN]
          /\ blind' \in [Obj -> BOOLEAN]
        <3>1. CASE UNCHANGED <<blind, url, expires>>
            BY <3>1 DEF RestType
        <3>2. ASSUME NEW v \in ProbeVerdict(o), blind' = [blind EXCEPT ![o] = @ \/ v], ForgetURL(o)
              PROVE  /\ url' \in [Obj -> {"none", "blob", "alt"}] /\ expires' \in [Obj -> BOOLEAN]
                     /\ blind' \in [Obj -> BOOLEAN]
            BY <3>2, ForgetURLType DEF RestType
        <3> QED
            BY <1>2, <3>1, <3>2 DEF PollError
    <2> QED
        BY <1>2, <2>1, <2>2, <2>3 DEF PollError, RestType, env, files
<1>3. CASE PollRemoved(o)
    <2>1. LoopInv'
        BY <1>3, AttemptFailsType DEF PollRemoved, ErrorClass
    <2> QED
        BY <1>3, <2>1 DEF PollRemoved, RestType, env, files
<1>4. CASE PollAlive(o)
    BY <1>0, <1>4 DEF PollAlive, LoopInv, RestType, env, task, files
<1>5. CASE PollFails(o)
    <2>1. faults' \in 0..MaxFaults
        BY <1>5, FaultType DEF PollFails
    <2>2. LoopInv'
        <3>1. ASSUME NEW class \in ErrorClass, AttemptFails(o, class) PROVE LoopInv'
            BY <3>1, AttemptFailsType
        <3>2. CASE /\ polls[o] < MaxPollErrs
                   /\ polls' = [polls EXCEPT ![o] = @ + 1]
                   /\ UNCHANGED <<pc, attempt, gid, last, res, status>>
            <4>1. polls[o] + 1 \in 0..MaxPollErrs
                BY <3>2, NumbersAssumption DEF LoopInv
            <4> QED
                BY <3>2, <4>1 DEF LoopInv
        <3> QED
            BY <1>5, <3>1, <3>2 DEF PollFails, ErrorClass
    <2> QED
        BY <1>5, <2>1, <2>2 DEF PollFails, RestType, files
<1>6. CASE PollCancelled(o)
    <2>1. aria' \in [Gid -> Aria2Task]
        <3>1. CASE aria' = [aria EXCEPT ![gid[o]].st = "removed", ![gid[o]].att = FALSE]
            BY <3>1, WatchedType
        <3>2. CASE UNCHANGED aria
            BY <3>2 DEF RestType
        <3> QED
            BY <1>6, <3>1, <3>2 DEF PollCancelled
    <2>2. LoopInv'
        BY <1>6, ReturnType DEF PollCancelled, LoopInv
    <2> QED
        BY <1>6, <2>1, <2>2 DEF PollCancelled, RestType, env, files
<1> QED
    BY <1>1, <1>2, <1>3, <1>4, <1>5, <1>6 DEF Poll

LEMMA FinishAttemptType ==
    ASSUME LoopInv, RestType, NEW o \in Obj, WatchFile(o) \/ Verify(o) \/ Commit(o)
    PROVE  LoopInv' /\ RestType'
<1>1. CASE WatchFile(o)
    <2>1. CASE Return(o, "canceled", status[o])
        <3>1. LoopInv'
            BY <2>1, ReturnType DEF LoopInv
        <3> QED
            BY <1>1, <3>1 DEF WatchFile, RestType, env, files
    <2>2. CASE Goto(o, "verify") /\ UNCHANGED <<local, status>>
        <3>1. LoopInv'
            BY <2>2, GotoType DEF LoopInv, Location, local
        <3> QED
            BY <1>1, <3>1 DEF WatchFile, RestType, env, files
    <2> QED
        BY <1>1, <2>1, <2>2 DEF WatchFile
<1>2. CASE Verify(o)
    <2>1. CASE Goto(o, "commit") /\ UNCHANGED <<local, status, part, aria>>
        <3>1. LoopInv'
            BY <2>1, GotoType DEF LoopInv, Location, local
        <3> QED
            BY <1>2, <2>1, <3>1 DEF Verify, RestType, env
    <2>2. CASE RemovePart(DigestOf[o]) /\ aria' = Detached(DigestOf[o]) /\ AttemptFails(o, "cleanup")
        <3>1. LoopInv'
            BY <2>2, AttemptFailsType DEF ErrorClass
        <3>2. part' \in [Digest -> Content] /\ aria' \in [Gid -> Aria2Task]
            BY <2>2, RemovePartType, DetachedType
        <3> QED
            BY <1>2, <3>1, <3>2 DEF Verify, RestType, env
    <2> QED
        BY <1>2, <2>1, <2>2 DEF Verify
<1>3. CASE Commit(o)
    <2> DEFINE d == DigestOf[o]
    <2>0. faults' \in 0..MaxFaults
        BY <1>3, FaultType DEF Commit
    <2>1. CASE /\ blob' = [blob EXCEPT ![d] = part[d]]
               /\ RemovePart(d)
               /\ aria' = Detached(d)
               /\ Return(o, "nil", "committed")
               /\ ForgetURL(o)
        <3>1. LoopInv'
            BY <2>1, ReturnType
        <3>2. part' \in [Digest -> Content] /\ aria' \in [Gid -> Aria2Task]
            BY <2>1, RemovePartType, DetachedType
        <3>3. blob' \in [Digest -> Content]
            BY <2>1, DigestType DEF RestType
        <3>4. url' \in [Obj -> {"none", "blob", "alt"}] /\ expires' \in [Obj -> BOOLEAN]
            BY <2>1, ForgetURLType
        <3> QED
            BY <1>3, <2>0, <3>1, <3>2, <3>3, <3>4 DEF Commit, RestType
    <2>2. CASE AttemptFails(o, "retry") /\ UNCHANGED <<files, aria, url, expires>>
        <3>1. LoopInv'
            BY <2>2, AttemptFailsType DEF ErrorClass
        <3> QED
            BY <1>3, <2>0, <2>2, <3>1 DEF Commit, RestType, files
    <2> QED
        BY <1>3, <2>1, <2>2 DEF Commit
<1> QED
    BY <1>1, <1>2, <1>3

LEMMA RetryType ==
    ASSUME LoopInv, RestType, NEW o \in Obj, Retry(o) \/ Backoff(o)
    PROVE  LoopInv' /\ RestType'
<1>1. CASE Return(o, "canceled", status[o])
    <2>1. LoopInv'
        BY <1>1, ReturnType DEF LoopInv
    <2> QED
        BY <2>1 DEF Retry, Backoff, RestType, env, files
<1>2. CASE Backoff(o) /\ Goto(o, "attempt") /\ UNCHANGED <<local, status>>
    <2>1. LoopInv'
        BY <1>2, GotoType DEF LoopInv, Location, local
    <2> QED
        BY <1>2, <2>1 DEF Backoff, RestType, env, files
<1>3. CASE /\ Retry(o)
           /\ attempt' = [attempt EXCEPT ![o] = @ + 1]
           /\ status' = [status EXCEPT ![o] = "pending"]
           /\ Goto(o, "backoff")
           /\ UNCHANGED <<gid, polls, last, res>>
    <2>1. LoopInv'
        <3>1. attempt[o] + 1 \in 1..MaxRetries
            BY <1>3, NumbersAssumption DEF Retry, At, LoopInv
        <3> QED
            BY <1>3, <3>1 DEF Goto, LoopInv, Location
    <2> QED
        BY <1>3, <2>1 DEF Retry, RestType, env, files
<1> QED
    BY <1>1, <1>2, <1>3 DEF Retry, Backoff

LEMMA Aria2StepType ==
    ASSUME LoopInv, RestType, NEW g \in Gid, Aria2(g)
    PROVE  LoopInv' /\ RestType'
<1>1. ASSUME UNCHANGED <<pc, local, status>> PROVE LoopInv'
    BY <1>1 DEF LoopInv, local
<1>2. CASE Activate(g)
    <2>1. aria' \in [Gid -> Aria2Task]
        <3>1. aria[g] \in Aria2Task
            BY DEF RestType
        <3>2. /\ [aria[g] EXCEPT !.st = "error", !.code = "11"] \in Aria2Task
              /\ [aria[g] EXCEPT !.st = "error", !.code = "8"] \in Aria2Task
              /\ [aria[g] EXCEPT !.st = "active", !.att = TRUE] \in Aria2Task
            BY <3>1 DEF Aria2Task
        <3>3. \E t \in Aria2Task : aria' = [aria EXCEPT ![g] = t]
            BY <1>2, <3>2 DEF Activate
        <3> QED
            BY <3>3 DEF RestType
    <2> QED
        BY <1>1, <1>2, <2>1 DEF Activate, RestType, env, task, files
<1>3. ASSUME NEW c \in {"partial", "good", "bad", "over"}, Receive(g, c) PROVE LoopInv' /\ RestType'
    <2>1. faults' \in 0..MaxFaults
        BY <1>3, FaultType DEF Receive
    <2>2. part' \in [Digest -> Content]
        BY <1>3 DEF Receive, RestType, Content
    <2> QED
        BY <1>1, <1>3, <2>1, <2>2 DEF Receive, RestType, task
<1>4. CASE Finish(g)
    <2>1. aria' \in [Gid -> Aria2Task]
        BY <1>4, TaskType DEF Finish
    <2> QED
        BY <1>1, <1>4, <2>1 DEF Finish, RestType, env, task
<1>5. CASE Break(g)
    <2>1. faults' \in 0..MaxFaults
        BY <1>5, FaultType DEF Break
    <2>2. aria' \in [Gid -> Aria2Task]
        <3>1. ASSUME NEW c \in Codes,
                     aria' = [aria EXCEPT ![g].st = "error", ![g].att = FALSE, ![g].code = c]
              PROVE  aria' \in [Gid -> Aria2Task]
            BY <3>1, TaskType
        <3>2. CASE aria' = [aria EXCEPT ![g].st = "removed", ![g].att = FALSE]
            BY <3>2, TaskType
        <3> QED
            BY <1>5, <3>1, <3>2 DEF Break
    <2> QED
        BY <1>1, <1>5, <2>1, <2>2 DEF Break, RestType, task, files
<1> QED
    BY <1>2, <1>3, <1>4, <1>5 DEF Aria2

LEMMA InitType == Init => LoopInv /\ RestType
<1> SUFFICES ASSUME Init PROVE LoopInv /\ RestType
    OBVIOUS
<1>1. LoopInv
    <2>1. 1 \in 1..MaxRetries /\ 0 \in 0..MaxPollErrs
        BY NumbersAssumption
    <2> QED
        BY <2>1 DEF Init, LoopInv, Location
<1>2. RestType
    <2>1. AltURLs \in 0..AltURLs /\ 0 \in 0..MaxFaults
        BY NumbersAssumption
    <2>2. /\ url = [o \in Obj |-> "none"]
          /\ alt = [o \in Obj |-> AltURLs]
          /\ faults = 0
          /\ expires = [o \in Obj |-> FALSE]
          /\ fresh = [o \in Obj |-> FALSE]
          /\ blind \in [Obj -> {FALSE, SourceBlind}]
          /\ part \in [Digest -> {"none", "partial", "good"}]
          /\ blob = [d \in Digest |-> "none"]
        BY DEF Init
    <2>3. /\ url \in [Obj -> {"none", "blob", "alt"}]
          /\ alt \in [Obj -> 0..AltURLs]
          /\ faults \in 0..MaxFaults
          /\ expires \in [Obj -> BOOLEAN] /\ fresh \in [Obj -> BOOLEAN]
        BY <2>1, <2>2
    <2>4. blind \in [Obj -> BOOLEAN]
        BY <2>2, NumbersAssumption
    <2>5. part \in [Digest -> Content] /\ blob \in [Digest -> Content]
        BY <2>2 DEF Content
    <2>6. aria \in [Gid -> Aria2Task]
        <3>1. NoTask \in Aria2Task
            BY DEF NoTask, Aria2Task
        <3>2. ASSUME NEW st \in Leftovers, NEW d \in Digest
              PROVE  [NoTask EXCEPT !.st = st, !.dig = d, !.att = (st = "active")] \in Aria2Task
            BY FaultsAssumption DEF NoTask, Aria2Task
        <3>3. CASE aria = [g \in Gid |-> NoTask]
            BY <3>1, <3>3
        <3>4. ASSUME NEW st \in Leftovers, NEW d \in Digest,
                     aria = [g \in Gid |->
                               IF g = 1 THEN [NoTask EXCEPT !.st = st, !.dig = d, !.att = (st = "active")]
                               ELSE NoTask]
              PROVE  aria \in [Gid -> Aria2Task]
            BY <3>1, <3>2, <3>4
        <3> QED
            BY <3>3, <3>4 DEF Init
    <2> QED
        BY <2>3, <2>4, <2>5, <2>6 DEF Init, RestType
<1> QED
    BY <1>1, <1>2

LEMMA GoroutineType ==
    ASSUME LoopInv, RestType, NEW o \in Obj, Goroutine(o)
    PROVE  LoopInv' /\ RestType'
BY SlotType, StartAttemptType, FindTaskType, ResolveType, SubmitType, PollType,
   FinishAttemptType, RetryType DEF Goroutine

LEMMA NextType == LoopInv /\ RestType /\ [Next]_vars => LoopInv' /\ RestType'
<1> SUFFICES ASSUME LoopInv, RestType, [Next]_vars PROVE LoopInv' /\ RestType'
    OBVIOUS
<1>1. CASE Main
    BY <1>1, MainType
<1>2. CASE Cancel
    BY <1>2 DEF Cancel, LoopInv, RestType, local, task, files
<1>3. CASE UNCHANGED vars
    BY <1>3 DEF vars, LoopInv, RestType, env, local, task, files
<1>4. ASSUME NEW o \in Obj, Goroutine(o) PROVE LoopInv' /\ RestType'
    BY <1>4, GoroutineType
<1>5. ASSUME NEW g \in Gid, Aria2(g) PROVE LoopInv' /\ RestType'
    BY <1>5, Aria2StepType
<1> QED
    BY <1>1, <1>2, <1>3, <1>4, <1>5 DEF Next, Idle

LEMMA Typed == Spec => [](LoopInv /\ RestType)
BY InitType, NextType, PTL DEF Spec

\* Every variable of the scheduler keeps its type; in particular no goroutine
\* makes more than MaxRetries attempts, however its attempts end.
THEOREM TypeCorrect == Spec => []TypeOK
BY Typed, TypeSplit, PTL

------------------------------------------------------------------------------
(* What Run returns                                                         *)

\* A goroutine that returned nil has committed, one that returned a
\* cancellation saw one, and only a cancellation leaves objects unlaunched.
Returned(o) ==
    /\ pc[o] = "done" => res[o] # "none"
    /\ res[o] = "nil" => pc[o] = "done" /\ status[o] = "committed"
    /\ res[o] = "canceled" => cancelled
    /\ pc[o] = "unborn" /\ main # "launch" => cancelled
    /\ main = "ok" => pc[o] = "done" /\ status[o] = "committed"

RInv == \A o \in Obj : Returned(o)

\* One goroutine moves on, while Run waits.
LEMMA MovesReturned ==
    ASSUME LoopInv, RInv, NEW o \in Obj, pc[o] \notin {"unborn", "done"},
           UNCHANGED <<main, cancelled, res>>,
           \A q \in Obj : q # o => pc'[q] = pc[q] /\ status'[q] = status[q],
           pc'[o] \notin {"unborn", "done"}
    PROVE  RInv'
<1>1. main # "ok" /\ res[o] # "nil"
    BY DEF RInv, Returned
<1>2. Returned(o)'
    BY <1>1 DEF RInv, Returned
<1>3. ASSUME NEW q \in Obj, q # o PROVE Returned(q)'
    BY <1>3 DEF RInv, Returned
<1> QED
    BY <1>2, <1>3 DEF RInv

LEMMA ReturnReturned ==
    ASSUME LoopInv, RInv, NEW o \in Obj, pc[o] \notin {"unborn", "done"},
           UNCHANGED <<main, cancelled>>,
           NEW r \in {"nil", "error", "canceled", "deadline"},
           NEW s \in {"pending", "downloading", "committed", "failed"}, Return(o, r, s),
           r = "nil" => s = "committed", r = "canceled" => cancelled
    PROVE  RInv'
<1>1. main # "ok"
    BY DEF RInv, Returned
<1>2. pc'[o] = "done" /\ res'[o] = r /\ status'[o] = s
    BY DEF LoopInv, Return, Goto
<1>3. Returned(o)'
    BY <1>1, <1>2 DEF RInv, Returned
<1>4. ASSUME NEW q \in Obj, q # o PROVE Returned(q)'
    BY <1>4 DEF RInv, Returned, Return, Goto, LoopInv
<1> QED
    BY <1>3, <1>4 DEF RInv

LEMMA AttemptFailsReturned ==
    ASSUME LoopInv, RInv, NEW o \in Obj, pc[o] \notin {"unborn", "done"},
           UNCHANGED <<main, cancelled>>,
           NEW class \in ErrorClass, AttemptFails(o, class),
           class = "canceled" => cancelled
    PROVE  RInv'
<1>1. status[o] \in {"pending", "downloading", "committed", "failed"}
    BY DEF LoopInv
<1>2. CASE class \in {"canceled", "deadline"} /\ Return(o, class, status[o])
    BY <1>1, <1>2, ReturnReturned
<1>3. CASE Return(o, "error", "failed")
    BY <1>3, ReturnReturned
<1>4. CASE Goto(o, "retry") /\ UNCHANGED <<res, status>>
    <2>1. pc'[o] = "retry" /\ \A q \in Obj : q # o => pc'[q] = pc[q]
        BY <1>4 DEF Goto, LoopInv
    <2> QED
        BY <1>4, <2>1, MovesReturned
<1> QED
    BY <1>2, <1>3, <1>4 DEF AttemptFails

LEMMA RpcFailsReturned ==
    ASSUME LoopInv, RInv, NEW o \in Obj, pc[o] \notin {"unborn", "done"},
           UNCHANGED <<main, cancelled>>, RpcFails(o)
    PROVE  RInv'
BY AttemptFailsReturned DEF RpcFails, ErrorClass

\* A goroutine goes to another location inside its attempts.
LEMMA GotoReturned ==
    ASSUME LoopInv, RInv, NEW o \in Obj, pc[o] \notin {"unborn", "done"},
           UNCHANGED <<main, cancelled, res>>,
           NEW l \in Location \ {"unborn", "done"}, Goto(o, l),
           status' = status \/ \E s : status' = [status EXCEPT ![o] = s]
    PROVE  RInv'
<1>1. pc'[o] = l /\ \A q \in Obj : q # o => pc'[q] = pc[q]
    BY DEF Goto, LoopInv
<1>2. \A q \in Obj : q # o => status'[q] = status[q]
    BY DEF LoopInv
<1> QED
    BY <1>1, <1>2, MovesReturned DEF Location

LEMMA MainReturned ==
    ASSUME LoopInv, RestType, RInv, Main
    PROVE  RInv'
<1>1. ASSUME NEW o \in Obj, Launch(o) PROVE RInv'
    BY <1>1 DEF Launch, At, Goto, RInv, Returned, LoopInv, env, local, task
<1>2. CASE StopLaunching
    BY <1>2 DEF StopLaunching, At, RInv, Returned, local, task
<1>3. CASE RunReturns
    <2>1. ASSUME NEW o \in Obj PROVE Returned(o)'
        <3>1. main' = "ok" => pc[o] = "done" /\ res[o] = "nil"
            <4>1. main' = "ok" => ~cancelled /\ ~Reported(res[o])
                BY <1>3 DEF RunReturns
            <4>2. pc[o] \in {"unborn", "done"} /\ main # "launch"
                BY <1>3 DEF RunReturns
            <4>3. res[o] \in {"none", "nil", "error", "canceled", "deadline"}
                BY DEF LoopInv
            <4> QED
                BY <4>1, <4>2, <4>3 DEF Reported, RInv, Returned
        <3> QED
            BY <1>3, <3>1 DEF RunReturns, RInv, Returned, local, task
    <2> QED
        BY <2>1 DEF RInv
<1> QED
    BY <1>1, <1>2, <1>3 DEF Main

\* The end of an attempt: what is left of the step after its guard.
LEMMA GoroutineReturned ==
    ASSUME LoopInv, RestType, RInv, NEW o \in Obj, Goroutine(o)
    PROVE  RInv'
<1>0. status[o] \in {"pending", "downloading", "committed", "failed"}
    BY DEF LoopInv
<1>1. CASE AcquireSlot(o)
    BY <1>1, GotoReturned DEF AcquireSlot, At, Location, env, local, task
<1>2. CASE QueuedCancelled(o)
    BY <1>0, <1>2, ReturnReturned DEF QueuedCancelled, At, env
<1>3. CASE StartAttempt(o)
    BY <1>3, GotoReturned DEF StartAttempt, At, Location, env, local
<1>4. CASE TellActive(o)
    BY <1>4, GotoReturned, RpcFailsReturned DEF TellActive, At, Location
<1>5. CASE TellWaiting(o)
    BY <1>5, GotoReturned, RpcFailsReturned DEF TellWaiting, At, Location
<1>6. CASE Resolve(o)
    <2>1. CASE ReuseURL(o)
        BY <2>1, GotoReturned DEF ReuseURL, At, Location, env, local, task
    <2>2. ASSUME NEW kind, ResolveURL(o, kind) PROVE RInv'
        BY <2>2, GotoReturned DEF ResolveURL, MustResolve, At, Location, env, local
    <2>3. CASE BlobNotFound(o)
        BY <2>3, GotoReturned, AttemptFailsReturned
           DEF BlobNotFound, MustResolve, At, Location, ErrorClass
    <2>4. CASE ResolveFails(o)
        BY <2>4, AttemptFailsReturned DEF ResolveFails, MustResolve, At, ErrorClass
    <2> QED
        BY <1>6, <2>1, <2>2, <2>3, <2>4 DEF Resolve
<1>7. CASE SubmitAndWatch(o)
    BY <1>7, GotoReturned DEF SubmitAndWatch, At, Location, env, local, task
<1>8. CASE AddURI(o)
    BY <1>8, GotoReturned, RpcFailsReturned DEF AddURI, At, Location
<1>9. CASE Poll(o)
    <2>1. CASE PollComplete(o)
        BY <2>1, GotoReturned, AttemptFailsReturned DEF PollComplete, At, Location, ErrorClass, env
    <2>2. CASE PollError(o)
        <3>1. Class(aria[gid[o]].code) # "canceled"
            BY DEF Class
        <3> QED
            BY <2>2, <3>1, ClassType, AttemptFailsReturned DEF PollError, At, env
    <2>3. CASE PollRemoved(o)
        BY <2>3, AttemptFailsReturned DEF PollRemoved, At, ErrorClass, env
    <2>4. CASE PollAlive(o)
        BY <2>4 DEF PollAlive, RInv, Returned, env, task
    <2>5. CASE PollFails(o)
        <3>1. CASE UNCHANGED <<pc, attempt, gid, last, res, status>>
            BY <2>5, <3>1 DEF PollFails, RInv, Returned
        <3>2. ASSUME NEW class \in {"retry", "deadline"}, AttemptFails(o, class) PROVE RInv'
            BY <2>5, <3>2, AttemptFailsReturned DEF PollFails, At, ErrorClass
        <3> QED
            BY <2>5, <3>1, <3>2 DEF PollFails
    <2>6. CASE PollCancelled(o)
        BY <1>0, <2>6, ReturnReturned DEF PollCancelled, At, env
    <2> QED
        BY <1>9, <2>1, <2>2, <2>3, <2>4, <2>5, <2>6 DEF Poll
<1>10. CASE WatchFile(o)
    BY <1>0, <1>10, GotoReturned, ReturnReturned DEF WatchFile, At, Location, env, local
<1>11. CASE Verify(o)
    BY <1>11, GotoReturned, AttemptFailsReturned DEF Verify, At, Location, ErrorClass, env, local
<1>12. CASE Commit(o)
    BY <1>12, ReturnReturned, AttemptFailsReturned DEF Commit, At, ErrorClass
<1>13. CASE Retry(o)
    BY <1>0, <1>13, GotoReturned, ReturnReturned DEF Retry, At, Location, env
<1>14. CASE Backoff(o)
    BY <1>0, <1>14, GotoReturned, ReturnReturned DEF Backoff, At, Location, env, local
<1> QED
    BY <1>1, <1>2, <1>3, <1>4, <1>5, <1>6, <1>7, <1>8, <1>9, <1>10, <1>11, <1>12, <1>13, <1>14
       DEF Goroutine

LEMMA NextReturned == LoopInv /\ RestType /\ RInv /\ [Next]_vars => RInv'
<1> SUFFICES ASSUME LoopInv, RestType, RInv, [Next]_vars PROVE RInv'
    OBVIOUS
<1>1. CASE Cancel
    BY <1>1 DEF Cancel, RInv, Returned, local, task
<1>2. ASSUME NEW g \in Gid, Aria2(g) PROVE RInv'
    BY <1>2 DEF Aria2, Activate, Receive, Finish, Break, RInv, Returned, env, local, task
<1>3. CASE UNCHANGED vars
    BY <1>3 DEF vars, RInv, Returned, env, local, task
<1> QED
    BY <1>1, <1>2, <1>3, MainReturned, GoroutineReturned DEF Next, Idle

\* What every goroutine starts with.
LEMMA InitUnborn ==
    ASSUME Init, NEW o \in Obj
    PROVE  /\ main = "launch"
           /\ pc[o] = "unborn" /\ status[o] = "pending"
           /\ res[o] = "none" /\ last[o] = "none"
<1>1. /\ main = "launch"
      /\ pc = [x \in Obj |-> "unborn"] /\ status = [x \in Obj |-> "pending"]
      /\ res = [x \in Obj |-> "none"] /\ last = [x \in Obj |-> "none"]
    BY DEF Init
<1> QED
    BY <1>1

\* Run reports success only when every object is committed: no error, no
\* cancellation and no unlaunched object is lost on the way.
THEOREM ResultAlwaysSound == Spec => []ResultSound
<1>1. Init => RInv
    BY InitUnborn DEF RInv, Returned
<1>2. RInv => ResultSound
    BY DEF RInv, Returned, ResultSound
<1> QED
    BY <1>1, <1>2, Typed, NextReturned, PTL DEF Spec

------------------------------------------------------------------------------
(* What is committed                                                        *)

\* Each digest is listed once, so that no two goroutines share a .part.
Distinct == \A o, q \in Obj : DigestOf[o] = DigestOf[q] => o = q

\* Between verify.Blob and the rename nobody touches a complete .part.
Sound(o) ==
    /\ pc[o] = "commit" => Part(o) = "good"
    /\ status[o] = "committed" => blob[DigestOf[o]] = "good"

SInv == \A o \in Obj : Sound(o)

\* A step of goroutine o on its own .part and blob.
LEMMA OwnSound ==
    ASSUME Distinct, SInv, NEW o \in Obj,
           \A q \in Obj : q # o => pc'[q] = pc[q] /\ status'[q] = status[q],
           \A d \in Digest : d # DigestOf[o] => part'[d] = part[d] /\ blob'[d] = blob[d],
           Sound(o)'
    PROVE  SInv'
<1>1. ASSUME NEW q \in Obj, q # o PROVE Sound(q)'
    <2>1. DigestOf[q] # DigestOf[o] /\ DigestOf[q] \in Digest
        BY <1>1, DigestType DEF Distinct
    <2> QED
        BY <1>1, <2>1 DEF SInv, Sound, Part
<1> QED
    BY <1>1 DEF SInv

\* How a goroutine's step changes its own location and status when it does
\* not commit: not to "commit", and not to "committed".
Uncommitting(o) ==
    /\ pc'[o] # "commit"
    /\ status'[o] = "committed" => status[o] = "committed"
    /\ \A q \in Obj : q # o => pc'[q] = pc[q] /\ status'[q] = status[q]

LEMMA ReturnUncommitting ==
    ASSUME LoopInv, NEW o \in Obj, NEW r, NEW s, s # "committed" \/ s = status[o], Return(o, r, s)
    PROVE  Uncommitting(o)
BY DEF LoopInv, Return, Goto, Uncommitting

LEMMA AttemptFailsUncommitting ==
    ASSUME LoopInv, NEW o \in Obj, NEW class, AttemptFails(o, class)
    PROVE  Uncommitting(o)
<1>1. CASE Return(o, class, status[o])
    BY <1>1, ReturnUncommitting
<1>2. CASE Return(o, "error", "failed")
    BY <1>2, ReturnUncommitting
<1>3. CASE Goto(o, "retry") /\ UNCHANGED status
    BY <1>3 DEF LoopInv, Goto, Uncommitting
<1> QED
    BY <1>1, <1>2, <1>3 DEF AttemptFails

LEMMA RpcFailsUncommitting ==
    ASSUME LoopInv, NEW o \in Obj, RpcFails(o)
    PROVE  Uncommitting(o)
BY AttemptFailsUncommitting DEF RpcFails

LEMMA GotoUncommitting ==
    ASSUME LoopInv, NEW o \in Obj, NEW l, l # "commit", Goto(o, l),
           \/ UNCHANGED status
           \/ \E s \in {"pending", "downloading"} : status' = [status EXCEPT ![o] = s]
    PROVE  Uncommitting(o)
BY DEF LoopInv, Goto, Uncommitting

\* Such a step may do to o's own .part what it likes.
LEMMA UncommittingSound ==
    ASSUME Distinct, SInv, NEW o \in Obj, Uncommitting(o), UNCHANGED blob,
           UNCHANGED part \/ RemovePart(DigestOf[o]), RestType
    PROVE  SInv'
<1>1. \A d \in Digest : d # DigestOf[o] => part'[d] = part[d] /\ blob'[d] = blob[d]
    BY DEF RemovePart, RestType
<1>2. Sound(o)'
    BY DEF Uncommitting, SInv, Sound
<1> QED
    BY <1>1, <1>2, OwnSound DEF Uncommitting

LEMMA GoroutineSound ==
    ASSUME Distinct, LoopInv, RestType, SInv, NEW o \in Obj, Goroutine(o)
    PROVE  SInv'
<1>1. CASE AcquireSlot(o)
    <2>1. Uncommitting(o)
        BY <1>1, GotoUncommitting DEF AcquireSlot, task
    <2> QED
        BY <1>1, <2>1, UncommittingSound DEF AcquireSlot, files
<1>2. CASE QueuedCancelled(o)
    <2>1. Uncommitting(o)
        BY <1>2, ReturnUncommitting DEF QueuedCancelled
    <2> QED
        BY <1>2, <2>1, UncommittingSound DEF QueuedCancelled, files
<1>3. CASE StartAttempt(o)
    <2>1. Uncommitting(o)
        BY <1>3, GotoUncommitting DEF StartAttempt
    <2> QED
        BY <1>3, <2>1, UncommittingSound DEF StartAttempt
<1>4. CASE TellActive(o)
    <2>1. Uncommitting(o)
        BY <1>4, GotoUncommitting, RpcFailsUncommitting DEF TellActive
    <2> QED
        BY <1>4, <2>1, UncommittingSound DEF TellActive, files
<1>5. CASE TellWaiting(o)
    <2>1. Uncommitting(o)
        BY <1>5, GotoUncommitting, RpcFailsUncommitting DEF TellWaiting
    <2> QED
        BY <1>5, <2>1, UncommittingSound DEF TellWaiting, files
<1>6. CASE Resolve(o)
    <2>1. Uncommitting(o)
        <3>1. CASE ReuseURL(o)
            BY <3>1, GotoUncommitting DEF ReuseURL, task
        <3>2. ASSUME NEW kind, ResolveURL(o, kind) PROVE Uncommitting(o)
            BY <3>2, GotoUncommitting DEF ResolveURL
        <3>3. CASE BlobNotFound(o)
            BY <3>3, GotoUncommitting, AttemptFailsUncommitting DEF BlobNotFound
        <3>4. CASE ResolveFails(o)
            BY <3>4, AttemptFailsUncommitting DEF ResolveFails
        <3> QED
            BY <1>6, <3>1, <3>2, <3>3, <3>4 DEF Resolve
    <2>2. UNCHANGED <<part, blob>>
        BY <1>6 DEF Resolve, ReuseURL, ResolveURL, BlobNotFound, ResolveFails, files
    <2> QED
        BY <2>1, <2>2, UncommittingSound
<1>7. CASE SubmitAndWatch(o)
    <2>1. Uncommitting(o)
        BY <1>7, GotoUncommitting DEF SubmitAndWatch, task
    <2> QED
        BY <1>7, <2>1, UncommittingSound DEF SubmitAndWatch
<1>8. CASE AddURI(o)
    <2>1. Uncommitting(o)
        BY <1>8, GotoUncommitting, RpcFailsUncommitting DEF AddURI
    <2> QED
        BY <1>8, <2>1, UncommittingSound DEF AddURI, files
<1>9. CASE Poll(o)
    <2>1. UNCHANGED <<part, blob>>
        BY <1>9 DEF Poll, PollComplete, PollError, PollRemoved, PollAlive, PollFails,
           PollCancelled, files
    <2>2. CASE PollComplete(o) \/ PollError(o) \/ PollRemoved(o) \/ PollCancelled(o)
        <3>1. Uncommitting(o)
            BY <2>2, GotoUncommitting, AttemptFailsUncommitting, ReturnUncommitting
               DEF PollComplete, PollError, PollRemoved, PollCancelled
        <3> QED
            BY <2>1, <3>1, UncommittingSound
    <2>3. CASE PollAlive(o) \/ PollFails(o)
        <3>1. CASE UNCHANGED <<pc, status>>
            BY <2>1, <3>1 DEF SInv, Sound, Part
        <3>2. ASSUME NEW class, AttemptFails(o, class) PROVE SInv'
            BY <2>1, <3>2, AttemptFailsUncommitting, UncommittingSound
        <3> QED
            BY <2>3, <3>1, <3>2 DEF PollAlive, PollFails, task
    <2> QED
        BY <1>9, <2>2, <2>3 DEF Poll
<1>10. CASE WatchFile(o)
    <2>1. Uncommitting(o)
        BY <1>10, GotoUncommitting, ReturnUncommitting DEF WatchFile
    <2> QED
        BY <1>10, <2>1, UncommittingSound DEF WatchFile, files
<1>11. CASE Verify(o)
    <2>1. CASE Verified(Part(o)) /\ Goto(o, "commit") /\ UNCHANGED <<local, status, part, aria>>
        <3>1. \A q \in Obj : q # o => pc'[q] = pc[q]
            BY <2>1 DEF Goto, LoopInv
        <3>2. Sound(o)'
            BY <1>11, <2>1 DEF Verify, Verified, SInv, Sound, Part
        <3> QED
            BY <1>11, <2>1, <3>1, <3>2, OwnSound DEF Verify
    <2>2. CASE RemovePart(DigestOf[o]) /\ AttemptFails(o, "cleanup")
        BY <1>11, <2>2, AttemptFailsUncommitting, UncommittingSound DEF Verify
    <2> QED
        BY <1>11, <2>1, <2>2 DEF Verify
<1>12. CASE Commit(o)
    <2> DEFINE d == DigestOf[o]
    <2>1. CASE blob' = [blob EXCEPT ![d] = part[d]] /\ RemovePart(d) /\ Return(o, "nil", "committed")
        <3>1. Part(o) = "good"
            BY <1>12 DEF Commit, At, SInv, Sound
        <3>2. blob'[d] = "good" /\ pc'[o] = "done"
            BY <2>1, <3>1, DigestType DEF Return, Goto, Part, LoopInv, RestType
        <3>3. \A c \in Digest : c # d => part'[c] = part[c] /\ blob'[c] = blob[c]
            BY <2>1 DEF RemovePart, RestType
        <3>4. \A q \in Obj : q # o => pc'[q] = pc[q] /\ status'[q] = status[q]
            BY <2>1 DEF Return, Goto, LoopInv
        <3>5. Sound(o)'
            BY <3>2 DEF Sound
        <3> QED
            BY <3>3, <3>4, <3>5, OwnSound
    <2>2. CASE AttemptFails(o, "retry") /\ UNCHANGED files
        BY <2>2, AttemptFailsUncommitting, UncommittingSound DEF files
    <2> QED
        BY <1>12, <2>1, <2>2 DEF Commit
<1>13. CASE Retry(o)
    <2>1. Uncommitting(o)
        BY <1>13, GotoUncommitting, ReturnUncommitting DEF Retry
    <2> QED
        BY <1>13, <2>1, UncommittingSound DEF Retry, files
<1>14. CASE Backoff(o)
    <2>1. Uncommitting(o)
        BY <1>14, GotoUncommitting, ReturnUncommitting DEF Backoff
    <2> QED
        BY <1>14, <2>1, UncommittingSound DEF Backoff, files
<1> QED
    BY <1>1, <1>2, <1>3, <1>4, <1>5, <1>6, <1>7, <1>8, <1>9, <1>10, <1>11, <1>12, <1>13, <1>14
       DEF Goroutine

\* aria2 writes only to a .part that is not complete yet.
LEMMA Aria2Sound ==
    ASSUME LoopInv, RestType, SInv, NEW g \in Gid, Aria2(g)
    PROVE  SInv'
<1>1. UNCHANGED <<pc, status, blob>>
    BY DEF Aria2, Activate, Receive, Finish, Break, task, files
<1>2. \A d \in Digest : part[d] = "good" => part'[d] = "good"
    BY DEF Aria2, Activate, Receive, Finish, Break, files, RestType
<1> QED
    BY <1>1, <1>2, DigestType DEF SInv, Sound, Part

LEMMA NextSound == Distinct /\ LoopInv /\ RestType /\ SInv /\ [Next]_vars => SInv'
<1> SUFFICES ASSUME Distinct, LoopInv, RestType, SInv, [Next]_vars PROVE SInv'
    OBVIOUS
<1>1. CASE Main
    <2>1. UNCHANGED <<status, part, blob>>
        BY <1>1 DEF Main, Launch, StopLaunching, RunReturns, task, files
    <2>2. \A o \in Obj : pc'[o] = "commit" => pc[o] = "commit"
        BY <1>1 DEF Main, Launch, Goto, StopLaunching, RunReturns, LoopInv
    <2> QED
        BY <2>1, <2>2 DEF SInv, Sound, Part
<1>2. CASE Cancel \/ UNCHANGED vars
    BY <1>2 DEF Cancel, vars, SInv, Sound, Part, task, files
<1> QED
    BY <1>1, <1>2, GoroutineSound, Aria2Sound DEF Next, Idle

\* If the manifest lists no digest twice, what is committed is a blob of the
\* right size and content, whatever aria2, retries and the user do between
\* the verification of the .part and its rename.
THEOREM CommitAlwaysSound ==
    ASSUME Distinct
    PROVE  Spec => []CommitSound
<1>1. Init => SInv
    BY InitUnborn DEF SInv, Sound
<1>2. SInv => CommitSound
    BY DEF SInv, Sound, CommitSound
<1>3. LoopInv /\ RestType /\ SInv /\ [Next]_vars => SInv'
    BY NextSound
<1> QED
    BY <1>1, <1>2, <1>3, Typed, PTL DEF Spec

------------------------------------------------------------------------------
(* What is thrown away                                                      *)

\* A goroutine verifies and commits only a .part of the object's size.
Full(o) == pc[o] = "verify" => FullSize(Part(o))

FInv == \A o \in Obj : Full(o)

\* A step that brings o to no verification keeps everybody's .part full.
LEMMA OwnFull ==
    ASSUME Distinct, LoopInv, RestType, FInv, NEW o \in Obj,
           \A q \in Obj : q # o => pc'[q] = pc[q],
           UNCHANGED part \/ RemovePart(DigestOf[o]),
           pc'[o] = "verify" => FullSize(Part(o)) /\ UNCHANGED part
    PROVE  FInv'
<1>1. ASSUME NEW q \in Obj, q # o PROVE Full(q)'
    <2>1. DigestOf[q] # DigestOf[o] /\ DigestOf[q] \in Digest
        BY <1>1, DigestType DEF Distinct
    <2>2. part'[DigestOf[q]] = part[DigestOf[q]]
        BY <2>1 DEF RemovePart, RestType
    <2> QED
        BY <1>1, <2>2 DEF FInv, Full, Part, FullSize
<1>2. Full(o)'
    BY DEF Full, Part, FullSize
<1> QED
    BY <1>1, <1>2 DEF FInv

\* How a step moves o, when it does not bring o to a verification.
Elsewhere(o) ==
    /\ pc'[o] # "verify"
    /\ \A q \in Obj : q # o => pc'[q] = pc[q]

LEMMA GotoElsewhere ==
    ASSUME LoopInv, NEW o \in Obj, NEW l, l # "verify", Goto(o, l)
    PROVE  Elsewhere(o)
BY DEF LoopInv, Goto, Elsewhere

LEMMA ReturnElsewhere ==
    ASSUME LoopInv, NEW o \in Obj, NEW r, NEW s, Return(o, r, s)
    PROVE  Elsewhere(o)
BY GotoElsewhere DEF Return

LEMMA AttemptFailsElsewhere ==
    ASSUME LoopInv, NEW o \in Obj, NEW class, AttemptFails(o, class)
    PROVE  Elsewhere(o)
BY GotoElsewhere, ReturnElsewhere DEF AttemptFails

LEMMA RpcFailsElsewhere ==
    ASSUME LoopInv, NEW o \in Obj, RpcFails(o)
    PROVE  Elsewhere(o)
BY AttemptFailsElsewhere DEF RpcFails

LEMMA GoroutineFull ==
    ASSUME Distinct, LoopInv, RestType, FInv, NEW o \in Obj, Goroutine(o)
    PROVE  FInv'
<1>1. CASE AcquireSlot(o) \/ QueuedCancelled(o) \/ TellActive(o) \/ TellWaiting(o) \/ AddURI(o)
    <2>1. Elsewhere(o)
        BY <1>1, GotoElsewhere, ReturnElsewhere, RpcFailsElsewhere
           DEF AcquireSlot, QueuedCancelled, TellActive, TellWaiting, AddURI
    <2>2. UNCHANGED part
        BY <1>1 DEF AcquireSlot, QueuedCancelled, TellActive, TellWaiting, AddURI, files
    <2> QED
        BY <2>1, <2>2, OwnFull DEF Elsewhere
<1>2. CASE StartAttempt(o)
    <2>1. CASE FullSize(Part(o)) /\ Goto(o, "verify") /\ UNCHANGED part
        <3>1. \A q \in Obj : q # o => pc'[q] = pc[q]
            BY <2>1 DEF Goto, LoopInv
        <3> QED
            BY <2>1, <3>1, OwnFull
    <2>2. CASE Goto(o, "tellActive") /\ (UNCHANGED part \/ RemovePart(DigestOf[o]))
        BY <2>2, GotoElsewhere, OwnFull DEF Elsewhere
    <2> QED
        BY <1>2, <2>1, <2>2 DEF StartAttempt, Part
<1>3. CASE Resolve(o)
    <2>1. Elsewhere(o)
        <3>1. CASE ReuseURL(o)
            BY <3>1, GotoElsewhere DEF ReuseURL
        <3>2. ASSUME NEW kind, ResolveURL(o, kind) PROVE Elsewhere(o)
            BY <3>2, GotoElsewhere DEF ResolveURL
        <3>3. CASE BlobNotFound(o) \/ ResolveFails(o)
            BY <3>3, GotoElsewhere, AttemptFailsElsewhere DEF BlobNotFound, ResolveFails
        <3> QED
            BY <1>3, <3>1, <3>2, <3>3 DEF Resolve
    <2>2. UNCHANGED part
        BY <1>3 DEF Resolve, ReuseURL, ResolveURL, BlobNotFound, ResolveFails, files
    <2> QED
        BY <2>1, <2>2, OwnFull DEF Elsewhere
<1>4. CASE SubmitAndWatch(o)
    BY <1>4, GotoElsewhere, OwnFull DEF SubmitAndWatch, Elsewhere
<1>5. CASE Poll(o)
    <2>1. UNCHANGED part
        BY <1>5 DEF Poll, PollComplete, PollError, PollRemoved, PollAlive, PollFails,
           PollCancelled, files
    <2>2. CASE FullSize(Part(o)) /\ Goto(o, "verify")
        <3>1. \A q \in Obj : q # o => pc'[q] = pc[q]
            BY <2>2 DEF Goto, LoopInv
        <3> QED
            BY <2>1, <2>2, <3>1, OwnFull
    <2>3. CASE Elsewhere(o)
        BY <2>1, <2>3, OwnFull DEF Elsewhere
    <2>4. CASE UNCHANGED pc
        BY <2>1, <2>4 DEF FInv, Full, Part, FullSize
    <2>5. (FullSize(Part(o)) /\ Goto(o, "verify")) \/ Elsewhere(o) \/ UNCHANGED pc
        BY <1>5, AttemptFailsElsewhere, ReturnElsewhere
           DEF Poll, PollComplete, PollError, PollRemoved, PollAlive, PollFails, PollCancelled
    <2> QED
        BY <2>2, <2>3, <2>4, <2>5
<1>6. CASE WatchFile(o)
    <2>1. UNCHANGED part
        BY <1>6 DEF WatchFile, files
    <2>2. CASE Return(o, "canceled", status[o])
        BY <2>1, <2>2, ReturnElsewhere, OwnFull DEF Elsewhere
    <2>3. CASE FullSize(Part(o)) /\ Goto(o, "verify")
        <3>1. \A q \in Obj : q # o => pc'[q] = pc[q]
            BY <2>3 DEF Goto, LoopInv
        <3> QED
            BY <2>1, <2>3, <3>1, OwnFull
    <2> QED
        BY <1>6, <2>2, <2>3 DEF WatchFile
<1>7. CASE Verify(o)
    <2>1. Elsewhere(o)
        BY <1>7, GotoElsewhere, AttemptFailsElsewhere DEF Verify
    <2> QED
        BY <1>7, <2>1, OwnFull DEF Verify, Elsewhere
<1>8. CASE Commit(o)
    <2>1. Elsewhere(o)
        BY <1>8, ReturnElsewhere, AttemptFailsElsewhere DEF Commit
    <2> QED
        BY <1>8, <2>1, OwnFull DEF Commit, Elsewhere, files
<1>9. CASE Retry(o) \/ Backoff(o)
    <2>1. Elsewhere(o) /\ UNCHANGED part
        BY <1>9, GotoElsewhere, ReturnElsewhere DEF Retry, Backoff, files
    <2> QED
        BY <2>1, OwnFull DEF Elsewhere
<1> QED
    BY <1>1, <1>2, <1>3, <1>4, <1>5, <1>6, <1>7, <1>8, <1>9 DEF Goroutine

LEMMA NextFull == Distinct /\ LoopInv /\ RestType /\ FInv /\ [Next]_vars => FInv'
<1> SUFFICES ASSUME Distinct, LoopInv, RestType, FInv, [Next]_vars PROVE FInv'
    OBVIOUS
<1>1. CASE Main
    <2>1. UNCHANGED part
        BY <1>1 DEF Main, Launch, StopLaunching, RunReturns, files
    <2>2. \A o \in Obj : pc'[o] = "verify" => pc[o] = "verify"
        BY <1>1 DEF Main, Launch, Goto, StopLaunching, RunReturns, LoopInv
    <2> QED
        BY <2>1, <2>2 DEF FInv, Full, Part, FullSize
<1>2. ASSUME NEW g \in Gid, Aria2(g) PROVE FInv'
    <2>1. UNCHANGED pc
        BY <1>2 DEF Aria2, Activate, Receive, Finish, Break
    <2>2. \A d \in Digest : FullSize(part[d]) => part'[d] = part[d]
        BY <1>2 DEF Aria2, Activate, Receive, Finish, Break, files, FullSize, RestType
    <2> QED
        BY <2>1, <2>2, DigestType DEF FInv, Full, Part, FullSize
<1>3. CASE Cancel \/ UNCHANGED vars
    BY <1>3 DEF Cancel, vars, FInv, Full, Part, FullSize, files
<1> QED
    BY <1>1, <1>2, <1>3, GoroutineFull DEF Next, Idle

\* Which steps take a .part away, and what they know of it.
LEMMA Removes ==
    ASSUME Distinct, LoopInv, RestType, SInv, FInv, [Next]_vars,
           NEW d \in Digest, GivenUp(d)
    PROVE  \/ part[d] = "good" /\ blob'[d] = "good"
           \/ \E o \in Obj : DigestOf[o] = d /\ NotResumable(o)
<1>0. part[d] \in {"partial", "good"} /\ part'[d] # part[d]
    BY DEF GivenUp
<1>1. ASSUME NEW o \in Obj, RemovePart(DigestOf[o]) PROVE DigestOf[o] = d
    BY <1>0, <1>1, DigestType DEF RemovePart, RestType
<1>2. ASSUME NEW o \in Obj, StartAttempt(o) PROVE FALSE
    BY <1>0, <1>1, <1>2 DEF StartAttempt
<1>3. ASSUME NEW o \in Obj, SubmitAndWatch(o) PROVE DigestOf[o] = d /\ NotResumable(o)
    BY <1>0, <1>1, <1>3 DEF SubmitAndWatch
<1>4. ASSUME NEW o \in Obj, Verify(o) PROVE FALSE
    <2>1. RemovePart(DigestOf[o]) /\ ~Verified(Part(o)) /\ FullSize(Part(o))
        BY <1>0, <1>4 DEF Verify, At, FInv, Full
    <2> QED
        BY <1>0, <1>1, <2>1 DEF Part, Verified, FullSize
<1>5. ASSUME NEW o \in Obj, Commit(o) PROVE part[d] = "good" /\ blob'[d] = "good"
    <2>1. Part(o) = "good"
        BY <1>5 DEF Commit, At, SInv, Sound
    <2>2. RemovePart(DigestOf[o]) /\ blob' = [blob EXCEPT ![DigestOf[o]] = part[DigestOf[o]]]
        BY <1>0, <1>5 DEF Commit, files
    <2> QED
        BY <1>1, <2>1, <2>2 DEF Part, RestType
<1>6. ASSUME NEW o \in Obj, Goroutine(o)
      PROVE  \/ StartAttempt(o) \/ SubmitAndWatch(o) \/ Verify(o) \/ Commit(o)
    BY <1>0, <1>6 DEF Goroutine, AcquireSlot, QueuedCancelled, TellActive, TellWaiting, Resolve,
       ReuseURL, ResolveURL, BlobNotFound, ResolveFails, AddURI, Poll, PollComplete, PollError,
       PollRemoved, PollAlive, PollFails, PollCancelled, WatchFile, Retry, Backoff, files
<1>7. ASSUME NEW g \in Gid, Aria2(g) PROVE FALSE
    BY <1>0, <1>7 DEF Aria2, Activate, Receive, Finish, Break, files, RestType, GivenUp
<1>8. CASE Main \/ Cancel \/ UNCHANGED vars
    BY <1>0, <1>8 DEF Main, Launch, StopLaunching, RunReturns, Cancel, vars, files
<1> QED
    BY <1>2, <1>3, <1>4, <1>5, <1>6, <1>7, <1>8 DEF Next, Idle

\* If the manifest lists no digest twice, no step throws a resumable or
\* complete .part away unless the source is known to ignore Range, or a
\* failure of the cleanup class asks for it.
THEOREM ProgressAlwaysKept ==
    ASSUME Distinct
    PROVE  Spec => KeepsProgress
<1>1. Init => SInv /\ FInv
    BY InitUnborn DEF SInv, Sound, FInv, Full
<1>2. LoopInv /\ RestType /\ SInv /\ [Next]_vars => SInv'
    BY NextSound
<1>3. LoopInv /\ RestType /\ FInv /\ [Next]_vars => FInv'
    BY NextFull
<1>4. LoopInv /\ RestType /\ SInv /\ FInv /\ [Next]_vars =>
        [\A d \in Digest : GivenUp(d) =>
            \/ part[d] = "good" /\ blob'[d] = "good"
            \/ \E o \in Obj : DigestOf[o] = d /\ (NotResumable(o) \/ Condemned(o))]_vars
    BY Removes
<1> QED
    BY <1>1, <1>2, <1>3, <1>4, Typed, PTL DEF Spec, KeepsProgress

------------------------------------------------------------------------------
(* What is resubmitted after code 8                                         *)

\* From the failure with code 8 to the next resolution the task remembers no
\* URL, so that what it submits then was resolved in the present attempt.
Renewed(o) ==
    last[o] = "code8" =>
        /\ pc[o] \notin {"unborn", "queued"}
        /\ pc[o] \in {"retry", "backoff", "attempt", "tellActive", "tellWaiting", "url"}
               => url[o] = "none"
        /\ pc[o] \in {"submit", "addUri"} => fresh[o]

CInv == \A o \in Obj : Renewed(o)

\* A step of o leaves what Renewed says of the others alone.
OthersURL(o) ==
    \A q \in Obj : q # o =>
        pc'[q] = pc[q] /\ last'[q] = last[q] /\ url'[q] = url[q] /\ fresh'[q] = fresh[q]

LEMMA StepRenewed ==
    ASSUME CInv, NEW o \in Obj, OthersURL(o), Renewed(o)'
    PROVE  CInv'
<1>1. ASSUME NEW q \in Obj, q # o PROVE Renewed(q)'
    BY <1>1 DEF CInv, Renewed, OthersURL
<1> QED
    BY <1>1 DEF CInv

\* A goroutine goes on to location l with url, fresh and last as they are.
LEMMA GotoRenewed ==
    ASSUME LoopInv, CInv, NEW o \in Obj, NEW l, Goto(o, l), UNCHANGED <<last, url, fresh>>,
           \/ l \in {"poll", "watchFile", "verify", "commit", "done"}
           \/ /\ l \in {"retry", "backoff", "attempt", "tellActive", "tellWaiting", "url"}
              /\ pc[o] \in {"retry", "backoff", "attempt", "tellActive", "tellWaiting", "url"}
           \/ l \in {"submit", "addUri"} /\ pc[o] \in {"submit", "addUri"}
    PROVE  CInv'
<1>1. OthersURL(o)
    BY DEF Goto, OthersURL, LoopInv
<1>2. Renewed(o)'
    BY DEF Goto, CInv, Renewed, LoopInv
<1> QED
    BY <1>1, <1>2, StepRenewed

LEMMA ReturnRenewed ==
    ASSUME LoopInv, RestType, CInv, NEW o \in Obj, NEW r, NEW s, Return(o, r, s), UNCHANGED fresh,
           UNCHANGED url \/ ForgetURL(o)
    PROVE  CInv'
<1>1. OthersURL(o) /\ pc'[o] = "done"
    BY DEF Return, Goto, ForgetURL, OthersURL, LoopInv, RestType
<1> QED
    BY <1>1, StepRenewed DEF Renewed

LEMMA AttemptFailsRenewed ==
    ASSUME LoopInv, RestType, CInv, NEW o \in Obj, NEW class, AttemptFails(o, class), UNCHANGED fresh,
           (UNCHANGED url /\ class # "code8") \/ ForgetURL(o)
    PROVE  CInv'
<1>1. CASE \E r, s : Return(o, r, s)
    BY <1>1, ReturnRenewed
<1>2. CASE Goto(o, "retry") /\ last' = [last EXCEPT ![o] = class]
    <2>1. OthersURL(o)
        BY <1>2 DEF Goto, ForgetURL, OthersURL, LoopInv, RestType
    <2>2. pc'[o] = "retry" /\ last'[o] = class
        BY <1>2 DEF Goto, LoopInv
    <2>3. class = "code8" => url'[o] = "none"
        BY DEF ForgetURL, RestType
    <2> QED
        BY <2>1, <2>2, <2>3, StepRenewed DEF Renewed
<1> QED
    BY <1>1, <1>2 DEF AttemptFails

LEMMA RpcFailsRenewed ==
    ASSUME LoopInv, RestType, CInv, NEW o \in Obj, RpcFails(o), UNCHANGED <<url, fresh>>
    PROVE  CInv'
BY AttemptFailsRenewed DEF RpcFails

LEMMA FindRenewed ==
    ASSUME LoopInv, RestType, CInv, NEW o \in Obj,
           AcquireSlot(o) \/ QueuedCancelled(o) \/ StartAttempt(o) \/ TellActive(o) \/ TellWaiting(o)
    PROVE  CInv'
<1>1. CASE AcquireSlot(o)
    <2>1. last[o] # "code8"
        BY <1>1 DEF AcquireSlot, At, CInv, Renewed
    <2>2. OthersURL(o) /\ last'[o] = last[o]
        BY <1>1 DEF AcquireSlot, Goto, OthersURL, LoopInv, local, task
    <2> QED
        BY <2>1, <2>2, StepRenewed DEF Renewed
<1>2. CASE QueuedCancelled(o)
    BY <1>2, ReturnRenewed DEF QueuedCancelled
<1>3. CASE StartAttempt(o)
    <2>1. pc[o] = "attempt" /\ UNCHANGED <<last, url>> /\ fresh' = [fresh EXCEPT ![o] = FALSE]
        BY <1>3 DEF StartAttempt, At, local
    <2>2. Goto(o, "verify") \/ Goto(o, "tellActive")
        BY <1>3 DEF StartAttempt
    <2>3. OthersURL(o)
        BY <2>1, <2>2 DEF Goto, OthersURL, LoopInv, RestType
    <2>4. Renewed(o)'
        BY <2>1, <2>2 DEF Goto, CInv, Renewed, LoopInv
    <2> QED
        BY <2>3, <2>4, StepRenewed
<1>4. CASE TellActive(o)
    BY <1>4, GotoRenewed, RpcFailsRenewed DEF TellActive, At
<1>5. CASE TellWaiting(o)
    BY <1>5, GotoRenewed, RpcFailsRenewed DEF TellWaiting, At
<1> QED
    BY <1>1, <1>2, <1>3, <1>4, <1>5

LEMMA ResolveRenewed ==
    ASSUME LoopInv, RestType, CInv, NEW o \in Obj, Resolve(o)
    PROVE  CInv'
<1>1. CASE ReuseURL(o)
    <2>1. last[o] # "code8"
        BY <1>1 DEF ReuseURL, At, CInv, Renewed
    <2>2. OthersURL(o) /\ last'[o] = last[o]
        BY <1>1 DEF ReuseURL, Goto, OthersURL, LoopInv, local, task
    <2> QED
        BY <2>1, <2>2, StepRenewed DEF Renewed
<1>2. ASSUME NEW kind, ResolveURL(o, kind) PROVE CInv'
    <2>1. pc'[o] = "submit" /\ fresh'[o]
        BY <1>2 DEF ResolveURL, Goto, LoopInv, RestType
    <2>2. OthersURL(o)
        BY <1>2 DEF ResolveURL, Goto, OthersURL, LoopInv, RestType, local
    <2> QED
        BY <2>1, <2>2, StepRenewed DEF Renewed
<1>3. CASE BlobNotFound(o)
    <2>1. CASE Goto(o, "watchFile") /\ url' = [url EXCEPT ![o] = "alt"] /\ UNCHANGED <<last, fresh>>
        <3>1. pc'[o] = "watchFile" /\ OthersURL(o)
            BY <2>1 DEF Goto, OthersURL, LoopInv, RestType
        <3> QED
            BY <3>1, StepRenewed DEF Renewed
    <2>2. CASE AttemptFails(o, "fatal") /\ UNCHANGED <<url, fresh>>
        BY <2>2, AttemptFailsRenewed
    <2> QED
        BY <1>3, <2>1, <2>2 DEF BlobNotFound
<1>4. CASE ResolveFails(o)
    BY <1>4, AttemptFailsRenewed DEF ResolveFails
<1> QED
    BY <1>1, <1>2, <1>3, <1>4 DEF Resolve

LEMMA PollRenewed ==
    ASSUME LoopInv, RestType, CInv, NEW o \in Obj, Poll(o)
    PROVE  CInv'
<1>1. CASE PollComplete(o)
    BY <1>1, GotoRenewed, AttemptFailsRenewed DEF PollComplete
<1>2. CASE PollError(o)
    <2>1. Class(aria[gid[o]].code) = "code8" => aria[gid[o]].code = "8"
        BY DEF Class
    <2>2. AttemptFails(o, Class(aria[gid[o]].code)) /\ UNCHANGED fresh
        BY <1>2 DEF PollError
    <2>3. IF aria[gid[o]].code = "8" THEN ForgetURL(o) ELSE UNCHANGED url
        BY <1>2 DEF PollError
    <2> QED
        BY <2>1, <2>2, <2>3, AttemptFailsRenewed
<1>3. CASE PollRemoved(o)
    BY <1>3, AttemptFailsRenewed DEF PollRemoved
<1>4. CASE PollAlive(o)
    BY <1>4 DEF PollAlive, CInv, Renewed, task
<1>5. CASE PollFails(o)
    <2>1. UNCHANGED <<url, fresh>>
        BY <1>5 DEF PollFails
    <2>2. CASE UNCHANGED <<pc, last>>
        BY <2>1, <2>2 DEF CInv, Renewed
    <2>3. CASE \E class \in {"retry", "deadline"} : AttemptFails(o, class)
        BY <2>1, <2>3, AttemptFailsRenewed
    <2> QED
        BY <1>5, <2>2, <2>3 DEF PollFails
<1>6. CASE PollCancelled(o)
    BY <1>6, ReturnRenewed DEF PollCancelled
<1> QED
    BY <1>1, <1>2, <1>3, <1>4, <1>5, <1>6 DEF Poll

LEMMA GoroutineRenewed ==
    ASSUME LoopInv, RestType, CInv, NEW o \in Obj, Goroutine(o)
    PROVE  CInv'
<1>1. CASE SubmitAndWatch(o)
    <2>1. pc[o] = "submit" /\ UNCHANGED <<last, url, fresh>>
        BY <1>1 DEF SubmitAndWatch, At, local, task
    <2>2. Goto(o, "poll") \/ Goto(o, "addUri")
        BY <1>1 DEF SubmitAndWatch
    <2> QED
        BY <2>1, <2>2, GotoRenewed
<1>2. CASE AddURI(o)
    BY <1>2, GotoRenewed, RpcFailsRenewed DEF AddURI
<1>3. CASE WatchFile(o)
    BY <1>3, GotoRenewed, ReturnRenewed DEF WatchFile, local
<1>4. CASE Verify(o)
    BY <1>4, GotoRenewed, AttemptFailsRenewed DEF Verify, local
<1>5. CASE Commit(o)
    BY <1>5, ReturnRenewed, AttemptFailsRenewed DEF Commit
<1>6. CASE Retry(o)
    BY <1>6, GotoRenewed, ReturnRenewed DEF Retry, At
<1>7. CASE Backoff(o)
    BY <1>7, GotoRenewed, ReturnRenewed DEF Backoff, At, local
<1> QED
    BY <1>1, <1>2, <1>3, <1>4, <1>5, <1>6, <1>7, FindRenewed, ResolveRenewed, PollRenewed
       DEF Goroutine

LEMMA NextRenewed == LoopInv /\ RestType /\ CInv /\ [Next]_vars => CInv'
<1> SUFFICES ASSUME LoopInv, RestType, CInv, [Next]_vars PROVE CInv'
    OBVIOUS
<1>1. ASSUME NEW o \in Obj, Launch(o) PROVE CInv'
    <2>1. OthersURL(o) /\ last'[o] = last[o]
        BY <1>1 DEF Launch, Goto, OthersURL, LoopInv, local, task
    <2>2. last[o] # "code8"
        BY <1>1 DEF Launch, At, CInv, Renewed
    <2> QED
        BY <2>1, <2>2, StepRenewed DEF Renewed
<1>2. CASE StopLaunching \/ RunReturns \/ Cancel
    BY <1>2 DEF StopLaunching, RunReturns, Cancel, local, task, CInv, Renewed
<1>3. ASSUME NEW g \in Gid, Aria2(g) PROVE CInv'
    BY <1>3 DEF Aria2, Activate, Receive, Finish, Break, local, task, CInv, Renewed
<1>4. CASE UNCHANGED vars
    BY <1>4 DEF vars, local, task, CInv, Renewed
<1> QED
    BY <1>1, <1>2, <1>3, <1>4, GoroutineRenewed DEF Next, Main, Idle

\* The URL that code 8 refused is not submitted again: the next submission is
\* of a URL resolved in its own attempt.
THEOREM Code8AlwaysReResolves == Spec => []Code8ReResolves
<1>1. Init => CInv
    BY InitUnborn DEF CInv, Renewed
<1>2. CInv => Code8ReResolves
    BY DEF CInv, Renewed, Code8ReResolves, At
<1> QED
    BY <1>1, <1>2, Typed, NextRenewed, PTL DEF Spec

------------------------------------------------------------------------------
(* Resuming on a source that ignores Range                                  *)

\* A task that is writing the .part of d, or has ended since it did.
Writer(d) ==
    \E g \in Gid :
        /\ aria[g].dig = d
        /\ (aria[g].st = "active" /\ aria[g].att) \/ aria[g].st \in {"error", "removed"}

Hopeful(o) == pc[o] = "addUri" /\ blind[o] /\ Part(o) = "partial" => Writer(DigestOf[o])

HInv == \A o \in Obj : Hopeful(o)

\* The task a goroutine watches is one on its own .part.
Own(o) == gid[o] # None => aria[gid[o]].st # "none" /\ aria[gid[o]].dig = DigestOf[o]

GInv == \A o \in Obj : Own(o)

\* aria2 forgets no task and moves none to another file.
TasksKept ==
    \A g \in Gid : aria[g].st # "none" => aria'[g].st # "none" /\ aria'[g].dig = aria[g].dig

LEMMA EnqueuedKept ==
    ASSUME LoopInv, RestType, NEW g \in Gid, NEW d \in Digest, Enqueued(g, d)
    PROVE  /\ TasksKept
           /\ aria'[g].st # "none" /\ aria'[g].dig = d
           /\ \A h \in Gid : aria[h].st # "none" => aria'[h] = aria[h]
BY DEF LoopInv, RestType, Enqueued, TasksKept, NoTask

\* What unlinking the .part of d, removing the result of task g, and stopping
\* it do to the tasks.
LEMMA DetachedKept ==
    ASSUME LoopInv, RestType, NEW d, aria' = Detached(d)
    PROVE  TasksKept /\ \A h \in Gid : aria[h].dig # d => aria'[h] = aria[h]
BY DEF LoopInv, RestType, Detached, TasksKept, Aria2Task

LEMMA ResultKept ==
    ASSUME LoopInv, RestType, NEW g, ResultRemoved(g)
    PROVE  TasksKept /\ \A h \in Gid : h # g => aria'[h] = aria[h]
BY DEF LoopInv, RestType, ResultRemoved, TasksKept, Aria2Task

LEMMA StoppedKept ==
    ASSUME LoopInv, RestType, NEW g,
           aria' = [aria EXCEPT ![g].st = "removed", ![g].att = FALSE]
    PROVE  TasksKept /\ \A h \in Gid : h # g => aria'[h] = aria[h]
BY DEF LoopInv, RestType, TasksKept, Aria2Task

\* Without a gid there is nothing to remove or to stop.
LEMMA NoWatch ==
    ASSUME LoopInv, RestType, NEW o \in Obj, gid[o] \notin Gid,
           \/ ResultRemoved(gid[o])
           \/ aria' = [aria EXCEPT ![gid[o]].st = "removed", ![gid[o]].att = FALSE]
           \/ UNCHANGED aria
    PROVE  UNCHANGED aria
BY DEF LoopInv, RestType, ResultRemoved

\* A step of goroutine o: what it leaves alone, which task it watches then,
\* and that it comes to a submission only past discardUnresumablePart.
OthersLeft(o) ==
    /\ \A q \in Obj : q # o => pc'[q] = pc[q] /\ gid'[q] = gid[q] /\ blind'[q] = blind[q]
    /\ \A d \in Digest : d # DigestOf[o] => part'[d] = part[d]
    /\ \A h \in Gid : aria[h].st # "none" /\ aria[h].dig # DigestOf[o] => aria'[h] = aria[h]

WatchesOwn(o) ==
    \/ gid'[o] \in {None, gid[o]}
    \/ aria'[gid'[o]].st # "none" /\ aria'[gid'[o]].dig = DigestOf[o]

Discards(o) == pc'[o] = "addUri" => UNCHANGED blind /\ (blind[o] => part'[DigestOf[o]] # "partial")

LEMMA OwnHopeful ==
    ASSUME Distinct, LoopInv, RestType, GInv, HInv, NEW o \in Obj,
           TasksKept, OthersLeft(o), WatchesOwn(o), Discards(o)
    PROVE  GInv' /\ HInv'
<1>1. ASSUME NEW q \in Obj, gid'[q] = gid[q] PROVE Own(q)'
    <2>1. gid[q] # None => gid[q] \in Gid /\ Own(q)
        BY DEF LoopInv, GInv
    <2> QED
        BY <1>1, <2>1 DEF Own, TasksKept
<1>2. Own(o)'
    <2>1. CASE gid'[o] = gid[o]
        BY <1>1, <2>1
    <2> QED
        BY <2>1 DEF Own, WatchesOwn
<1>3. ASSUME NEW q \in Obj, q # o PROVE Hopeful(q)'
    <2>1. DigestOf[q] # DigestOf[o] /\ DigestOf[q] \in Digest
        BY <1>3, DigestType DEF Distinct
    <2>2. /\ pc'[q] = pc[q] /\ blind'[q] = blind[q]
          /\ part'[DigestOf[q]] = part[DigestOf[q]]
        BY <1>3, <2>1 DEF OthersLeft
    <2>3. Writer(DigestOf[q]) => Writer(DigestOf[q])'
        BY <2>1 DEF Writer, OthersLeft
    <2> QED
        BY <2>2, <2>3 DEF HInv, Hopeful, Part
<1>4. Hopeful(o)'
    BY DEF Hopeful, Discards, Part
<1>5. GInv'
    BY <1>1, <1>2 DEF GInv, OthersLeft
<1> QED
    BY <1>3, <1>4, <1>5 DEF HInv

\* How a step moves goroutine o when it does not bring it to a submission.
Aside(o) ==
    /\ \A q \in Obj : q # o => pc'[q] = pc[q] /\ gid'[q] = gid[q]
    /\ pc'[o] # "addUri"
    /\ gid'[o] \in {None, gid[o]}

LEMMA GotoAside ==
    ASSUME LoopInv, NEW o \in Obj, NEW l, l # "addUri", Goto(o, l),
           UNCHANGED gid \/ gid' = [gid EXCEPT ![o] = None]
    PROVE  Aside(o)
BY DEF LoopInv, Goto, Aside

LEMMA ReturnAside ==
    ASSUME LoopInv, NEW o \in Obj, NEW r, NEW s, Return(o, r, s)
    PROVE  Aside(o)
BY GotoAside DEF Return

LEMMA AttemptFailsAside ==
    ASSUME LoopInv, NEW o \in Obj, NEW class, AttemptFails(o, class)
    PROVE  Aside(o)
BY GotoAside, ReturnAside DEF AttemptFails

LEMMA RpcFailsAside ==
    ASSUME LoopInv, NEW o \in Obj, RpcFails(o)
    PROVE  Aside(o)
BY AttemptFailsAside DEF RpcFails

\* Such a step may do what it likes to o's own .part, task and findings.
LEMMA AsideHopeful ==
    ASSUME Distinct, LoopInv, RestType, GInv, HInv, NEW o \in Obj, Aside(o),
           UNCHANGED part \/ RemovePart(DigestOf[o]),
           UNCHANGED blind \/ \E v : blind' = [blind EXCEPT ![o] = v],
           \/ UNCHANGED aria
           \/ aria' = Detached(DigestOf[o])
           \/ gid[o] \in Gid /\ ResultRemoved(gid[o])
           \/ gid[o] \in Gid /\ aria' = [aria EXCEPT ![gid[o]].st = "removed", ![gid[o]].att = FALSE]
           \/ \E g \in Gid : Enqueued(g, DigestOf[o])
    PROVE  GInv' /\ HInv'
<1>1. gid[o] \in Gid => aria[gid[o]].dig = DigestOf[o]
    BY GidAssumption DEF GInv, Own, Gid
<1>2. TasksKept /\ \A h \in Gid : aria[h].st # "none" /\ aria[h].dig # DigestOf[o] => aria'[h] = aria[h]
    <2>1. CASE UNCHANGED aria
        BY <2>1 DEF TasksKept
    <2>2. CASE aria' = Detached(DigestOf[o])
        BY <2>2, DetachedKept
    <2>3. CASE gid[o] \in Gid /\ ResultRemoved(gid[o])
        BY <1>1, <2>3, ResultKept
    <2>4. CASE gid[o] \in Gid /\ aria' = [aria EXCEPT ![gid[o]].st = "removed", ![gid[o]].att = FALSE]
        BY <1>1, <2>4, StoppedKept
    <2>5. ASSUME NEW g \in Gid, Enqueued(g, DigestOf[o])
          PROVE  TasksKept /\ \A h \in Gid : aria[h].st # "none" => aria'[h] = aria[h]
        BY <2>5, DigestType, EnqueuedKept
    <2> QED
        BY <2>1, <2>2, <2>3, <2>4, <2>5
<1>3. \A q \in Obj : q # o => blind'[q] = blind[q]
    BY DEF RestType
<1>4. \A d \in Digest : d # DigestOf[o] => part'[d] = part[d]
    BY DEF RemovePart, RestType
<1>5. OthersLeft(o) /\ WatchesOwn(o) /\ Discards(o)
    BY <1>2, <1>3, <1>4 DEF Aside, OthersLeft, WatchesOwn, Discards
<1> QED
    BY <1>2, <1>5, OwnHopeful

\* A listing adopts a task on o's own .part.
LEMMA AdoptHopeful ==
    ASSUME Distinct, LoopInv, RestType, GInv, HInv, NEW o \in Obj, NEW S, "none" \notin S,
           Adopt(o, S), NEW l, l # "addUri", Goto(o, l), UNCHANGED <<part, blind, aria>>
    PROVE  GInv' /\ HInv'
<1>1. pc'[o] # "addUri" /\ \A q \in Obj : q # o => pc'[q] = pc[q] /\ gid'[q] = gid[q]
    BY DEF LoopInv, Goto, Adopt
<1>2. WatchesOwn(o)
    BY DEF LoopInv, Adopt, Matching, WatchesOwn
<1>3. TasksKept /\ OthersLeft(o) /\ Discards(o)
    BY <1>1 DEF TasksKept, OthersLeft, Discards
<1> QED
    BY <1>2, <1>3, OwnHopeful

\* The discard, and a fresh submission.
LEMMA SubmitHopeful ==
    ASSUME Distinct, LoopInv, RestType, GInv, HInv, NEW o \in Obj, SubmitAndWatch(o)
    PROVE  GInv' /\ HInv'
<1>1. CASE Goto(o, "poll") /\ UNCHANGED <<part, aria>>
    BY <1>1, GotoAside, AsideHopeful DEF SubmitAndWatch, local, task
<1>2. CASE /\ Goto(o, "addUri")
           /\ IF NotResumable(o) /\ part[DigestOf[o]] # "none"
              THEN RemovePart(DigestOf[o]) /\ aria' = Detached(DigestOf[o])
              ELSE UNCHANGED <<part, aria>>
    <2>1. UNCHANGED <<gid, blind>>
        BY DEF SubmitAndWatch, local, task
    <2>2. TasksKept /\ \A h \in Gid : aria[h].dig # DigestOf[o] => aria'[h] = aria[h]
        BY <1>2, DetachedKept DEF TasksKept
    <2>3. \A d \in Digest : d # DigestOf[o] => part'[d] = part[d]
        BY <1>2 DEF RemovePart, RestType
    <2>4. blind[o] => part'[DigestOf[o]] # "partial"
        BY <1>2, DigestType DEF NotResumable, RemovePart, RestType
    <2>5. \A q \in Obj : q # o => pc'[q] = pc[q]
        BY <1>2 DEF Goto, LoopInv
    <2> QED
        BY <2>1, <2>2, <2>3, <2>4, <2>5, OwnHopeful DEF OthersLeft, WatchesOwn, Discards
<1> QED
    BY <1>1, <1>2 DEF SubmitAndWatch

LEMMA AddURIHopeful ==
    ASSUME Distinct, LoopInv, RestType, GInv, HInv, NEW o \in Obj, AddURI(o)
    PROVE  GInv' /\ HInv'
<1>1. UNCHANGED <<part, blind>>
    BY DEF AddURI, files
<1>2. ASSUME NEW g \in Gid, Enqueued(g, DigestOf[o]), gid' = [gid EXCEPT ![o] = g], Goto(o, "poll")
      PROVE  GInv' /\ HInv'
    <2>1. /\ TasksKept /\ aria'[g].st # "none" /\ aria'[g].dig = DigestOf[o]
          /\ \A h \in Gid : aria[h].st # "none" => aria'[h] = aria[h]
        BY <1>2, DigestType, EnqueuedKept
    <2>2. gid'[o] = g /\ \A q \in Obj : q # o => pc'[q] = pc[q] /\ gid'[q] = gid[q]
        BY <1>2 DEF LoopInv, Goto
    <2>3. pc'[o] # "addUri"
        BY <1>2 DEF LoopInv, Goto
    <2> QED
        BY <1>1, <2>1, <2>2, <2>3, OwnHopeful DEF OthersLeft, WatchesOwn, Discards
<1>3. ASSUME RpcFails(o), UNCHANGED aria \/ \E g \in Gid : Enqueued(g, DigestOf[o])
      PROVE  GInv' /\ HInv'
    BY <1>1, <1>3, RpcFailsAside, AsideHopeful
<1> QED
    BY <1>2, <1>3 DEF AddURI

LEMMA PollHopeful ==
    ASSUME Distinct, LoopInv, RestType, GInv, HInv, NEW o \in Obj, Poll(o)
    PROVE  GInv' /\ HInv'
<1>1. UNCHANGED part
    BY DEF Poll, PollComplete, PollError, PollRemoved, PollAlive, PollFails, PollCancelled, files
<1>2. CASE PollComplete(o)
    <2>1. Aside(o)
        BY <1>2, GotoAside, AttemptFailsAside DEF PollComplete
    <2>2. gid[o] \in Gid \/ UNCHANGED aria
        BY <1>2, NoWatch DEF PollComplete
    <2> QED
        BY <1>1, <1>2, <2>1, <2>2, AsideHopeful DEF PollComplete
<1>3. CASE PollError(o)
    <2>1. Aside(o)
        BY <1>3, AttemptFailsAside DEF PollError
    <2>2. gid[o] \in Gid \/ UNCHANGED aria
        BY <1>3, NoWatch DEF PollError
    <2>3. UNCHANGED blind \/ \E v : blind' = [blind EXCEPT ![o] = v]
        BY <1>3 DEF PollError
    <2> QED
        BY <1>1, <1>3, <2>1, <2>2, <2>3, AsideHopeful DEF PollError
<1>4. CASE PollRemoved(o)
    BY <1>1, <1>4, AttemptFailsAside, AsideHopeful DEF PollRemoved
<1>5. CASE PollAlive(o) \/ PollFails(o)
    <2>1. UNCHANGED <<blind, aria>>
        BY <1>5 DEF PollAlive, PollFails, task
    <2>2. CASE UNCHANGED <<pc, gid>>
        BY <1>1, <2>1, <2>2 DEF GInv, HInv, Own, Hopeful, Writer, Part
    <2>3. ASSUME NEW class, AttemptFails(o, class) PROVE GInv' /\ HInv'
        BY <1>1, <2>1, <2>3, AttemptFailsAside, AsideHopeful
    <2> QED
        BY <1>5, <2>2, <2>3 DEF PollAlive, PollFails
<1>6. CASE PollCancelled(o)
    <2>1. Aside(o)
        BY <1>6, ReturnAside DEF PollCancelled
    <2>2. gid[o] \in Gid \/ UNCHANGED aria
        BY <1>6, NoWatch DEF PollCancelled
    <2> QED
        BY <1>1, <1>6, <2>1, <2>2, AsideHopeful DEF PollCancelled
<1> QED
    BY <1>2, <1>3, <1>4, <1>5, <1>6 DEF Poll

LEMMA GoroutineHopeful ==
    ASSUME Distinct, LoopInv, RestType, GInv, HInv, NEW o \in Obj, Goroutine(o)
    PROVE  GInv' /\ HInv'
<1>1. CASE AcquireSlot(o) \/ QueuedCancelled(o) \/ WatchFile(o) \/ Retry(o) \/ Backoff(o)
    <2>1. Aside(o) /\ UNCHANGED <<part, blind, aria>>
        BY <1>1, GotoAside, ReturnAside
           DEF AcquireSlot, QueuedCancelled, WatchFile, Retry, Backoff, files, local, task
    <2> QED
        BY <2>1, AsideHopeful
<1>2. CASE StartAttempt(o)
    <2>1. Aside(o) /\ UNCHANGED blind
        BY <1>2, GotoAside DEF StartAttempt, local
    <2> QED
        BY <1>2, <2>1, AsideHopeful DEF StartAttempt
<1>3. CASE TellActive(o)
    <2>1. UNCHANGED <<part, blind, aria>>
        BY <1>3 DEF TellActive, files
    <2> QED
        BY <1>3, <2>1, AdoptHopeful, RpcFailsAside, AsideHopeful DEF TellActive
<1>4. CASE TellWaiting(o)
    <2>1. UNCHANGED <<part, blind, aria>>
        BY <1>4 DEF TellWaiting, files
    <2> QED
        BY <1>4, <2>1, AdoptHopeful, RpcFailsAside, AsideHopeful DEF TellWaiting
<1>5. CASE Resolve(o)
    <2>1. UNCHANGED <<part, aria>>
        BY <1>5 DEF Resolve, ReuseURL, ResolveURL, BlobNotFound, ResolveFails, files
    <2>2. CASE ReuseURL(o)
        BY <2>1, <2>2, GotoAside, AsideHopeful DEF ReuseURL, local, task
    <2>3. ASSUME NEW kind, ResolveURL(o, kind) PROVE GInv' /\ HInv'
        BY <2>1, <2>3, GotoAside, AsideHopeful DEF ResolveURL, local
    <2>4. CASE BlobNotFound(o)
        BY <2>1, <2>4, GotoAside, AttemptFailsAside, AsideHopeful DEF BlobNotFound
    <2>5. CASE ResolveFails(o)
        BY <2>1, <2>5, AttemptFailsAside, AsideHopeful DEF ResolveFails
    <2> QED
        BY <1>5, <2>2, <2>3, <2>4, <2>5 DEF Resolve
<1>6. CASE Verify(o)
    <2>1. Aside(o) /\ UNCHANGED blind
        BY <1>6, GotoAside, AttemptFailsAside DEF Verify, local
    <2> QED
        BY <1>6, <2>1, AsideHopeful DEF Verify
<1>7. CASE Commit(o)
    <2>1. Aside(o) /\ UNCHANGED blind
        BY <1>7, ReturnAside, AttemptFailsAside DEF Commit
    <2> QED
        BY <1>7, <2>1, AsideHopeful DEF Commit, files
<1> QED
    BY <1>1, <1>2, <1>3, <1>4, <1>5, <1>6, <1>7, SubmitHopeful, AddURIHopeful, PollHopeful
       DEF Goroutine

\* What a task has written stays its work when it ends.
LEMMA Aria2Hopeful ==
    ASSUME LoopInv, RestType, GInv, HInv, NEW g \in Gid, Aria2(g)
    PROVE  GInv' /\ HInv'
<1>1. UNCHANGED <<pc, gid, blind>>
    BY DEF Aria2, Activate, Receive, Finish, Break, local, task
<1>2. TasksKept /\ \A h \in Gid : h # g => aria'[h] = aria[h]
    <2>1. aria[g] \in Aria2Task
        BY DEF RestType
    <2>2. CASE Activate(g)
        <3>1. \A h \in Gid : h # g => aria'[h] = aria[h]
            BY <2>2 DEF Activate, RestType
        <3>2. aria'[g].st # "none" /\ aria'[g].dig = aria[g].dig
            BY <2>1, <2>2 DEF Activate, RestType, Aria2Task
        <3> QED
            BY <3>1, <3>2 DEF TasksKept
    <2>3. ASSUME NEW c, Receive(g, c) PROVE UNCHANGED aria
        BY <2>3 DEF Receive
    <2>4. CASE Finish(g)
        BY <2>1, <2>4 DEF Finish, RestType, Aria2Task, TasksKept
    <2>5. CASE Break(g)
        BY <2>1, <2>5 DEF Break, RestType, Aria2Task, TasksKept
    <2> QED
        BY <2>2, <2>3, <2>4, <2>5 DEF Aria2, TasksKept
<1>3. GInv'
    BY <1>1, <1>2 DEF GInv, Own, TasksKept, LoopInv
<1>4. ASSUME NEW d \in Digest, part'[d] = "partial", part[d] = "partial" => Writer(d)
      PROVE  Writer(d)'
    <2>1. CASE Activate(g)
        <3>1. part[d] = "partial" /\ aria[g].st = "waiting"
            BY <1>4, <2>1 DEF Activate, files
        <3> QED
            BY <1>2, <1>4, <3>1 DEF Writer
    <2>2. ASSUME NEW c, Receive(g, c) PROVE Writer(d)'
        <3>1. aria' = aria /\ aria[g].st = "active" /\ aria[g].att
            BY <2>2 DEF Receive
        <3>2. CASE d = aria[g].dig
            BY <3>1, <3>2 DEF Writer
        <3>3. CASE d # aria[g].dig
            BY <1>4, <2>2, <3>1, <3>3 DEF Receive, Writer, RestType
        <3> QED
            BY <3>2, <3>3
    <2>3. CASE Finish(g)
        <3>1. /\ part[d] = "partial" /\ aria[g].st = "active"
              /\ aria[g].att => aria[g].dig # d
            BY <1>4, <2>3 DEF Finish
        <3> QED
            BY <1>2, <1>4, <3>1 DEF Writer
    <2>4. CASE Break(g)
        <3>1. part[d] = "partial" /\ aria[g].st \in {"waiting", "active"}
            BY <1>4, <2>4 DEF Break, files
        <3>2. aria'[g].st \in {"error", "removed"} /\ aria'[g].dig = aria[g].dig
            BY <2>4 DEF Break, RestType, Aria2Task
        <3> QED
            BY <1>2, <1>4, <3>1, <3>2 DEF Writer
    <2> QED
        BY <2>1, <2>2, <2>3, <2>4 DEF Aria2
<1>5. HInv'
    BY <1>1, <1>4, DigestType DEF HInv, Hopeful, Part
<1> QED
    BY <1>3, <1>5

LEMMA NextHopeful ==
    Distinct /\ LoopInv /\ RestType /\ GInv /\ HInv /\ [Next]_vars => GInv' /\ HInv'
<1> SUFFICES ASSUME Distinct, LoopInv, RestType, GInv, HInv, [Next]_vars PROVE GInv' /\ HInv'
    OBVIOUS
<1>1. CASE Main
    <2>1. UNCHANGED <<gid, blind, part, aria>>
        BY <1>1 DEF Main, Launch, StopLaunching, RunReturns, local, task, files
    <2>2. \A o \in Obj : pc'[o] = "addUri" => pc[o] = "addUri"
        BY <1>1 DEF Main, Launch, Goto, StopLaunching, RunReturns, LoopInv
    <2> QED
        BY <2>1, <2>2 DEF GInv, HInv, Own, Hopeful, Writer, Part
<1>2. CASE Cancel \/ UNCHANGED vars
    BY <1>2 DEF Cancel, vars, local, task, files, GInv, HInv, Own, Hopeful, Writer, Part
<1> QED
    BY <1>1, <1>2, GoroutineHopeful, Aria2Hopeful DEF Next, Idle

\* If the manifest lists no digest twice, a submission that aria2 would refuse
\* to resume is the work of an aria2 task nobody watches, and of nothing else.
THEOREM NeverHopelessAlone ==
    ASSUME Distinct
    PROVE  Spec => []NoHopelessResume
<1>1. Init => GInv /\ HInv
    <2>0. Init => pc = [o \in Obj |-> "unborn"] /\ gid = [o \in Obj |-> None]
        BY Zenon DEF Init
    <2>1. Init => \A o \in Obj : pc[o] = "unborn" /\ gid[o] = None
        BY <2>0
    <2> QED
        BY <2>1 DEF GInv, HInv, Own, Hopeful
<1>2. HInv => NoHopelessResume
    BY DEF HInv, Hopeful, Writer, At, NoHopelessResume
<1>3. LoopInv /\ RestType /\ GInv /\ HInv /\ [Next]_vars => GInv' /\ HInv'
    BY NextHopeful
<1> QED
    BY <1>1, <1>2, <1>3, Typed, PTL DEF Spec

------------------------------------------------------------------------------
(* Every attempt goes forward                                               *)

\* Goroutine o stays where it is or gets further in its attempts.
Forward(o) ==
    pc'[o] # pc[o] =>
        \/ attempt'[o] > attempt[o]
        \/ attempt'[o] = attempt[o] /\ Stage(pc'[o]) > Stage(pc[o])

AllForward == \A o \in Obj : Forward(o)

LEMMA GotoForward ==
    ASSUME LoopInv, NEW o \in Obj, NEW l, Goto(o, l), UNCHANGED attempt,
           Stage(l) > Stage(pc[o])
    PROVE  AllForward
<1>1. pc'[o] = l /\ \A q \in Obj : q # o => pc'[q] = pc[q]
    BY DEF LoopInv, Goto
<1> QED
    BY <1>1 DEF AllForward, Forward

\* A goroutine may return from wherever it is.
LEMMA ReturnForward ==
    ASSUME LoopInv, NEW o \in Obj, NEW r, NEW s, pc[o] # "done", Return(o, r, s)
    PROVE  AllForward
<1>1. pc[o] \in Location
    BY DEF LoopInv
<1>2. Stage("done") > Stage(pc[o])
    BY <1>1 DEF Stage, Location
<1> QED
    BY <1>2, GotoForward DEF Return

\* An attempt may fail wherever it is, and then waits for the next one.
LEMMA AttemptFailsForward ==
    ASSUME LoopInv, NEW o \in Obj, NEW class, pc[o] \notin {"retry", "done"},
           AttemptFails(o, class)
    PROVE  AllForward
<1>1. pc[o] \in Location
    BY DEF LoopInv
<1>2. Stage("retry") > Stage(pc[o])
    BY <1>1 DEF Stage, Location
<1>3. ASSUME NEW r, NEW s, Return(o, r, s) PROVE AllForward
    BY <1>3, ReturnForward
<1>4. ASSUME Goto(o, "retry"), UNCHANGED attempt PROVE AllForward
    BY <1>2, <1>4, GotoForward
<1> QED
    BY <1>3, <1>4 DEF AttemptFails

LEMMA RpcFailsForward ==
    ASSUME LoopInv, NEW o \in Obj, pc[o] \notin {"retry", "done"}, RpcFails(o)
    PROVE  AllForward
BY AttemptFailsForward DEF RpcFails

LEMMA PollForward ==
    ASSUME LoopInv, NEW o \in Obj, Poll(o)
    PROVE  AllForward
<1>1. At(o, "poll")
    BY DEF Poll, PollComplete, PollError, PollRemoved, PollAlive, PollFails, PollCancelled
<1>2. ASSUME NEW class, AttemptFails(o, class) PROVE AllForward
    BY <1>1, <1>2, AttemptFailsForward DEF At
<1>3. ASSUME NEW r, NEW s, Return(o, r, s) PROVE AllForward
    BY <1>1, <1>3, ReturnForward DEF At
<1>4. ASSUME Goto(o, "verify"), UNCHANGED attempt PROVE AllForward
    BY <1>1, <1>4, GotoForward DEF At, Stage
<1>5. ASSUME UNCHANGED pc PROVE AllForward
    BY <1>5 DEF AllForward, Forward
<1> QED
    BY <1>2, <1>3, <1>4, <1>5
       DEF Poll, PollComplete, PollError, PollRemoved, PollAlive, PollFails, PollCancelled

LEMMA RetryForward ==
    ASSUME LoopInv, NEW o \in Obj, Retry(o) \/ Backoff(o)
    PROVE  AllForward
<1>1. CASE Return(o, "canceled", status[o])
    BY <1>1, ReturnForward DEF Retry, Backoff, At
<1>2. CASE Backoff(o) /\ Goto(o, "attempt") /\ UNCHANGED local
    BY <1>2, GotoForward DEF Backoff, At, Stage, local
<1>3. CASE attempt' = [attempt EXCEPT ![o] = @ + 1] /\ Goto(o, "backoff")
    <2>1. attempt'[o] > attempt[o]
        BY <1>3, NumbersAssumption DEF LoopInv
    <2>2. \A q \in Obj : q # o => pc'[q] = pc[q]
        BY <1>3 DEF LoopInv, Goto
    <2> QED
        BY <2>1, <2>2 DEF AllForward, Forward
<1> QED
    BY <1>1, <1>2, <1>3 DEF Retry, Backoff

LEMMA GoroutineForward ==
    ASSUME LoopInv, NEW o \in Obj, Goroutine(o)
    PROVE  AllForward
<1>1. CASE AcquireSlot(o)
    BY <1>1, GotoForward DEF AcquireSlot, At, Stage, local
<1>2. CASE QueuedCancelled(o)
    BY <1>2, ReturnForward DEF QueuedCancelled, At
<1>3. CASE StartAttempt(o)
    BY <1>3, GotoForward DEF StartAttempt, At, Stage, local
<1>4. CASE TellActive(o)
    BY <1>4, GotoForward, RpcFailsForward DEF TellActive, At, Stage
<1>5. CASE TellWaiting(o)
    BY <1>5, GotoForward, RpcFailsForward DEF TellWaiting, At, Stage
<1>6. CASE Resolve(o)
    <2>1. CASE ReuseURL(o)
        BY <2>1, GotoForward DEF ReuseURL, At, Stage, local
    <2>2. ASSUME NEW kind, ResolveURL(o, kind) PROVE AllForward
        BY <2>2, GotoForward DEF ResolveURL, MustResolve, At, Stage, local
    <2>3. CASE BlobNotFound(o)
        BY <2>3, GotoForward, AttemptFailsForward DEF BlobNotFound, MustResolve, At, Stage
    <2>4. CASE ResolveFails(o)
        BY <2>4, AttemptFailsForward DEF ResolveFails, MustResolve, At
    <2> QED
        BY <1>6, <2>1, <2>2, <2>3, <2>4 DEF Resolve
<1>7. CASE SubmitAndWatch(o)
    BY <1>7, GotoForward DEF SubmitAndWatch, At, Stage, local
<1>8. CASE AddURI(o)
    BY <1>8, GotoForward, RpcFailsForward DEF AddURI, At, Stage
<1>9. CASE WatchFile(o)
    BY <1>9, GotoForward, ReturnForward DEF WatchFile, At, Stage, local
<1>10. CASE Verify(o)
    BY <1>10, GotoForward, AttemptFailsForward DEF Verify, At, Stage, local
<1>11. CASE Commit(o)
    BY <1>11, ReturnForward, AttemptFailsForward DEF Commit, At
<1> QED
    BY <1>1, <1>2, <1>3, <1>4, <1>5, <1>6, <1>7, <1>8, <1>9, <1>10, <1>11,
       PollForward, RetryForward DEF Goroutine

LEMMA NextForward == LoopInv /\ RestType /\ [Next]_vars => [AllForward]_vars
<1> SUFFICES ASSUME LoopInv, RestType, Next PROVE AllForward
    OBVIOUS
<1>1. ASSUME NEW o \in Obj, Launch(o) PROVE AllForward
    BY <1>1, GotoForward DEF Launch, At, Stage, local
<1>2. ASSUME UNCHANGED pc PROVE AllForward
    BY <1>2 DEF AllForward, Forward
<1>3. CASE StopLaunching \/ RunReturns \/ Cancel \/ Idle
    BY <1>2, <1>3 DEF StopLaunching, RunReturns, Cancel, Idle, vars
<1>4. ASSUME NEW g \in Gid, Aria2(g) PROVE AllForward
    BY <1>2, <1>4 DEF Aria2, Activate, Receive, Finish, Break
<1> QED
    BY <1>1, <1>3, <1>4, GoroutineForward DEF Next, Main

\* No goroutine goes round inside an attempt: it gets back to an earlier stage
\* only with the next attempt, of which there are MaxRetries (TypeCorrect), so
\* that each changes its place at most 14 * MaxRetries times.
THEOREM AttemptsAlwaysForward == Spec => AttemptsForward
<1>1. LoopInv /\ RestType /\ [Next]_vars =>
        [\A o \in Obj : pc'[o] # pc[o] =>
            \/ attempt'[o] > attempt[o]
            \/ attempt'[o] = attempt[o] /\ Stage(pc'[o]) > Stage(pc[o])]_vars
    BY NextForward DEF AllForward, Forward
<1> QED
    BY <1>1, Typed, PTL DEF Spec, AttemptsForward

\* Once canceled, a goroutine begins no other attempt.
LEMMA CancelledAttempt ==
    ASSUME LoopInv, NEW o \in Obj, Goroutine(o), cancelled
    PROVE  UNCHANGED attempt
<1>1. ASSUME NEW class, AttemptFails(o, class) PROVE UNCHANGED attempt
    BY <1>1 DEF AttemptFails, Return
<1>2. ASSUME RpcFails(o) PROVE UNCHANGED attempt
    BY <1>1, <1>2 DEF RpcFails
<1>3. CASE Poll(o)
    BY <1>1, <1>3 DEF Poll, PollComplete, PollError, PollRemoved, PollAlive, PollFails,
       PollCancelled, Return
<1>4. CASE Resolve(o)
    BY <1>1, <1>4 DEF Resolve, ReuseURL, ResolveURL, BlobNotFound, ResolveFails, local
<1>5. CASE TellActive(o) \/ TellWaiting(o) \/ SubmitAndWatch(o) \/ AddURI(o)
    BY <1>2, <1>5 DEF TellActive, TellWaiting, SubmitAndWatch, AddURI, local
<1>6. CASE AcquireSlot(o) \/ QueuedCancelled(o) \/ StartAttempt(o)
    BY <1>6 DEF AcquireSlot, QueuedCancelled, StartAttempt, Return, local
<1>7. CASE WatchFile(o) \/ Verify(o) \/ Commit(o) \/ Retry(o) \/ Backoff(o)
    BY <1>1, <1>7 DEF WatchFile, Verify, Commit, Retry, Backoff, Return, local
<1> QED
    BY <1>3, <1>4, <1>5, <1>6, <1>7 DEF Goroutine

\* After a cancellation nothing is retried: every move of a goroutine is
\* towards its return, at most 13 of them, wherever the cancellation found it.
\* (That it makes them needs fairness, see CancelReturns.)
THEOREM CancelledNeverRetries ==
    Spec => [][cancelled => \A o \in Obj : pc'[o] # pc[o] =>
                   attempt'[o] = attempt[o] /\ Stage(pc'[o]) > Stage(pc[o])]_vars
<1>1. ASSUME LoopInv, RestType, Next, cancelled PROVE UNCHANGED attempt
    <2>1. ASSUME NEW g \in Gid, Aria2(g) PROVE UNCHANGED attempt
        BY <2>1 DEF Aria2, Activate, Receive, Finish, Break, local
    <2>2. CASE Main \/ Cancel \/ Idle
        BY <2>2 DEF Main, Launch, StopLaunching, RunReturns, Cancel, Idle, vars, local
    <2> QED
        BY <1>1, <2>1, <2>2, CancelledAttempt DEF Next
<1>2. LoopInv /\ RestType /\ [Next]_vars =>
        [cancelled => \A o \in Obj : pc'[o] # pc[o] =>
             attempt'[o] = attempt[o] /\ Stage(pc'[o]) > Stage(pc[o])]_vars
    <2> SUFFICES ASSUME LoopInv, RestType, Next, cancelled, NEW o \in Obj, pc'[o] # pc[o]
                 PROVE  attempt'[o] = attempt[o] /\ Stage(pc'[o]) > Stage(pc[o])
        OBVIOUS
    <2>1. attempt'[o] = attempt[o] /\ attempt[o] \in Nat
        BY <1>1, NumbersAssumption DEF LoopInv
    <2>2. Forward(o)
        BY NextForward DEF AllForward, vars
    <2> QED
        BY <2>1, <2>2 DEF Forward
<1> QED
    BY <1>2, Typed, PTL DEF Spec

------------------------------------------------------------------------------
(* Scheduler implements Download                                            *)

\* A committed object is one whose goroutine returned nil, and Run's outcome
\* leaves no goroutine behind.
Settled(o) ==
    /\ status[o] = "committed" => pc[o] = "done" /\ res[o] = "nil"
    /\ Terminated => pc[o] \in {"unborn", "done"}

DInv == \A o \in Obj : Settled(o)

\* A step of goroutine o that does not commit it.
Leaves(o) ==
    /\ status'[o] = "committed" => status[o] = "committed"
    /\ \A q \in Obj : q # o => pc'[q] = pc[q] /\ res'[q] = res[q] /\ status'[q] = status[q]

LEMMA ReturnLeaves ==
    ASSUME LoopInv, NEW o \in Obj, NEW r, NEW s, s # "committed" \/ s = status[o], Return(o, r, s)
    PROVE  Leaves(o)
BY DEF LoopInv, Return, Goto, Leaves

LEMMA AttemptFailsLeaves ==
    ASSUME LoopInv, NEW o \in Obj, NEW class, AttemptFails(o, class)
    PROVE  Leaves(o)
<1>1. CASE Return(o, class, status[o])
    BY <1>1, ReturnLeaves
<1>2. CASE Return(o, "error", "failed")
    BY <1>2, ReturnLeaves
<1>3. CASE Goto(o, "retry") /\ UNCHANGED <<res, status>>
    BY <1>3 DEF LoopInv, Goto, Leaves
<1> QED
    BY <1>1, <1>2, <1>3 DEF AttemptFails

LEMMA RpcFailsLeaves ==
    ASSUME LoopInv, NEW o \in Obj, RpcFails(o)
    PROVE  Leaves(o)
BY AttemptFailsLeaves DEF RpcFails

LEMMA GotoLeaves ==
    ASSUME LoopInv, NEW o \in Obj, NEW l, Goto(o, l), UNCHANGED res,
           \/ UNCHANGED status
           \/ \E s \in {"pending", "downloading"} : status' = [status EXCEPT ![o] = s]
    PROVE  Leaves(o)
BY DEF LoopInv, Goto, Leaves

LEMMA PollLeaves ==
    ASSUME LoopInv, NEW o \in Obj, Poll(o)
    PROVE  Leaves(o) /\ UNCHANGED blob
<1>1. UNCHANGED blob
    BY DEF Poll, PollComplete, PollError, PollRemoved, PollAlive, PollFails, PollCancelled, files
<1>2. CASE PollComplete(o) \/ PollError(o) \/ PollRemoved(o) \/ PollCancelled(o)
    BY <1>1, <1>2, GotoLeaves, AttemptFailsLeaves, ReturnLeaves
       DEF PollComplete, PollError, PollRemoved, PollCancelled
<1>3. CASE PollAlive(o) \/ PollFails(o)
    <2>1. CASE UNCHANGED <<pc, res, status>>
        BY <1>1, <2>1 DEF Leaves
    <2>2. ASSUME NEW class, AttemptFails(o, class) PROVE Leaves(o)
        BY <2>2, AttemptFailsLeaves
    <2> QED
        BY <1>1, <1>3, <2>1, <2>2 DEF PollAlive, PollFails, task
<1> QED
    BY <1>2, <1>3 DEF Poll

\* The one way for a goroutine to change blobs/ and to commit.
Commits(o) ==
    /\ At(o, "commit")
    /\ blob' = [blob EXCEPT ![DigestOf[o]] = Part(o)]
    /\ Return(o, "nil", "committed")

LEMMA GoroutineCommits ==
    ASSUME LoopInv, NEW o \in Obj, Goroutine(o)
    PROVE  (Leaves(o) /\ UNCHANGED blob) \/ Commits(o)
<1>1. CASE AcquireSlot(o) \/ QueuedCancelled(o) \/ StartAttempt(o)
    BY <1>1, GotoLeaves, ReturnLeaves
       DEF AcquireSlot, QueuedCancelled, StartAttempt, local, task, files
<1>2. CASE TellActive(o) \/ TellWaiting(o) \/ SubmitAndWatch(o) \/ AddURI(o)
    BY <1>2, GotoLeaves, RpcFailsLeaves
       DEF TellActive, TellWaiting, SubmitAndWatch, AddURI, local, task, files
<1>3. CASE Resolve(o)
    <2>1. CASE ReuseURL(o)
        BY <2>1, GotoLeaves DEF ReuseURL, local, task, files
    <2>2. ASSUME NEW kind, ResolveURL(o, kind) PROVE Leaves(o) /\ UNCHANGED blob
        BY <2>2, GotoLeaves DEF ResolveURL, local, files
    <2>3. CASE BlobNotFound(o) \/ ResolveFails(o)
        BY <2>3, GotoLeaves, AttemptFailsLeaves DEF BlobNotFound, ResolveFails, files
    <2> QED
        BY <1>3, <2>1, <2>2, <2>3 DEF Resolve
<1>4. CASE WatchFile(o) \/ Retry(o) \/ Backoff(o)
    BY <1>4, GotoLeaves, ReturnLeaves DEF WatchFile, Retry, Backoff, local, files
<1>5. CASE Verify(o)
    BY <1>5, GotoLeaves, AttemptFailsLeaves DEF Verify, local
<1>6. CASE Commit(o)
    BY <1>6, AttemptFailsLeaves DEF Commit, Commits, Part, files
<1> QED
    BY <1>1, <1>2, <1>3, <1>4, <1>5, <1>6, PollLeaves DEF Goroutine

\* Only goroutines that have started, and not returned, take steps.
LEMMA GoroutineRuns ==
    ASSUME NEW o \in Obj, Goroutine(o)
    PROVE  pc[o] \notin {"unborn", "done"} /\ UNCHANGED main
BY DEF Goroutine, AcquireSlot, QueuedCancelled, StartAttempt, TellActive, TellWaiting, Resolve,
   ReuseURL, ResolveURL, MustResolve, BlobNotFound, ResolveFails, SubmitAndWatch, AddURI, Poll,
   PollComplete, PollError, PollRemoved, PollAlive, PollFails, PollCancelled, WatchFile, Verify,
   Commit, Retry, Backoff, At, env

LEMMA GoroutineSettled ==
    ASSUME LoopInv, DInv, NEW o \in Obj, Goroutine(o)
    PROVE  DInv'
<1>1. pc[o] \notin {"unborn", "done"} /\ UNCHANGED main
    BY GoroutineRuns
<1>2. ~Terminated /\ ~Terminated' /\ status[o] # "committed"
    BY <1>1 DEF DInv, Settled, Terminated
<1>3. CASE Leaves(o)
    BY <1>2, <1>3 DEF Leaves, DInv, Settled
<1>4. CASE Commits(o)
    <2>1. pc'[o] = "done" /\ res'[o] = "nil"
        BY <1>4 DEF Commits, Return, Goto, LoopInv
    <2>2. \A q \in Obj : q # o => pc'[q] = pc[q] /\ res'[q] = res[q] /\ status'[q] = status[q]
        BY <1>4 DEF Commits, Return, Goto, LoopInv
    <2> QED
        BY <1>2, <2>1, <2>2 DEF DInv, Settled
<1> QED
    BY <1>3, <1>4, GoroutineCommits

LEMMA NextSettled == LoopInv /\ RestType /\ DInv /\ [Next]_vars => DInv'
<1> SUFFICES ASSUME LoopInv, RestType, DInv, [Next]_vars PROVE DInv'
    OBVIOUS
<1>1. ASSUME NEW o \in Obj, Launch(o) PROVE DInv'
    <2>1. ~Terminated' /\ UNCHANGED <<res, status>>
        BY <1>1 DEF Launch, Terminated, env, local, task
    <2>2. \A q \in Obj : status[q] = "committed" => pc'[q] = "done"
        BY <1>1 DEF Launch, At, Goto, LoopInv, DInv, Settled
    <2> QED
        BY <2>1, <2>2 DEF DInv, Settled
<1>2. CASE StopLaunching
    BY <1>2 DEF StopLaunching, DInv, Settled, Terminated, local, task
<1>3. CASE RunReturns
    BY <1>3 DEF RunReturns, DInv, Settled, local, task
<1>4. CASE Cancel \/ UNCHANGED vars
    BY <1>4 DEF Cancel, vars, env, DInv, Settled, Terminated, local, task
<1>5. ASSUME NEW g \in Gid, Aria2(g) PROVE DInv'
    BY <1>5 DEF Aria2, Activate, Receive, Finish, Break, env, DInv, Settled, Terminated, local, task
<1> QED
    BY <1>1, <1>2, <1>3, <1>4, <1>5, GoroutineSettled DEF Next, Main, Idle

\* A step that changes neither blobs/ nor what is committed nor the outcome.
LEMMA StepStutters ==
    ASSUME UNCHANGED <<main, blob>>,
           \A o \in Obj : (status'[o] = "committed") = (status[o] = "committed")
    PROVE  UNCHANGED Pulled!vars
BY DEF Pulled!vars, Terminated

\* The rename of a verified .part commits the object, and stores its digest.
LEMMA CommitRefines ==
    ASSUME LoopInv, RestType, SInv, DInv, NEW o \in Obj, Commits(o), UNCHANGED main
    PROVE  Pulled!Commit(o)
<1> DEFINE d == DigestOf[o]
<1>1. Part(o) = "good" /\ d \in Digest
    BY DigestType DEF Commits, At, SInv, Sound
<1>2. blob'[d] = "good" /\ \A c \in Digest : c # d => blob'[c] = blob[c]
    BY <1>1 DEF Commits, RestType
<1>3. {c \in Digest : blob'[c] = "good"} = {c \in Digest : blob[c] = "good"} \cup {d}
    BY <1>1, <1>2
<1>4. status'[o] = "committed" /\ \A q \in Obj : q # o => status'[q] = status[q]
    BY DEF Commits, Return, LoopInv
<1>5. {q \in Obj : status'[q] = "committed"} = {q \in Obj : status[q] = "committed"} \cup {o}
    BY <1>4
<1>6. ~Terminated /\ ~Terminated'
    BY DEF Commits, At, DInv, Settled, Terminated
<1> QED
    BY <1>3, <1>5, <1>6 DEF Pulled!Commit

LEMMA ReturnRefines ==
    ASSUME LoopInv, RestType, RInv, DInv, RunReturns
    PROVE  \E r \in {"ok", "failed", "canceled"} : Pulled!Return(r)
<1> DEFINE done == {o \in Obj : status[o] = "committed"}
<1>1. main' \in {"ok", "failed", "canceled"} /\ main = "wait" /\ UNCHANGED <<status, blob>>
    BY DEF RunReturns, task, files
<1>2. ~Terminated /\ Terminated'
    BY <1>1 DEF Terminated
<1>3. main' = "ok" => done = Obj
    <2>1. RInv'
        BY MainReturned DEF Main
    <2>2. main' = "ok" => \A o \in Obj : status[o] = "committed"
        BY <1>1, <2>1 DEF RInv, Returned
    <2> QED
        BY <2>2
<1>4. main' = "failed" => done # Obj
    <2>1. main' = "failed" => \E o \in Obj : Reported(res[o])
        BY DEF RunReturns
    <2>2. \A o \in Obj : Reported(res[o]) => o \notin done
        BY DEF Reported, DInv, Settled
    <2> QED
        BY <2>1, <2>2
<1>5. Pulled!Return(main')
    BY <1>1, <1>2, <1>3, <1>4 DEF Pulled!Return
<1> QED
    BY <1>1, <1>5

LEMMA NextRefines ==
    LoopInv /\ RestType /\ RInv /\ SInv /\ DInv /\ [Next]_vars => [Pulled!Next]_(Pulled!vars)
<1> SUFFICES ASSUME LoopInv, RestType, RInv, SInv, DInv, [Next]_vars
             PROVE  [Pulled!Next]_(Pulled!vars)
    OBVIOUS
<1>1. ASSUME NEW o \in Obj, Goroutine(o) PROVE [Pulled!Next]_(Pulled!vars)
    <2>1. pc[o] # "done" /\ UNCHANGED main
        BY <1>1, GoroutineRuns
    <2>2. CASE Leaves(o) /\ UNCHANGED blob
        <3>1. status[o] # "committed"
            BY <2>1 DEF DInv, Settled
        <3>2. \A q \in Obj : (status'[q] = "committed") = (status[q] = "committed")
            BY <2>2, <3>1 DEF Leaves
        <3> QED
            BY <2>1, <2>2, <3>2, StepStutters
    <2>3. CASE Commits(o)
        BY <2>1, <2>3, CommitRefines DEF Pulled!Next
    <2> QED
        BY <1>1, <2>2, <2>3, GoroutineCommits
<1>2. CASE RunReturns
    BY <1>2, ReturnRefines DEF Pulled!Next
<1>3. ASSUME NEW o \in Obj, Launch(o) PROVE UNCHANGED <<main, blob, status>>
    BY <1>3 DEF Launch, env, task, files
<1>4. ASSUME NEW g \in Gid, Aria2(g) PROVE UNCHANGED <<main, blob, status>>
    BY <1>4 DEF Aria2, Activate, Receive, Finish, Break, env, task, files
<1>5. CASE Cancel \/ UNCHANGED vars
    <2>1. UNCHANGED <<main, blob, status>>
        BY <1>5 DEF Cancel, vars, env, task, files
    <2> QED
        BY <2>1, StepStutters
<1>6. CASE StopLaunching
    BY <1>6 DEF StopLaunching, Terminated, task, files, Pulled!vars
<1> QED
    BY <1>1, <1>2, <1>3, <1>4, <1>5, <1>6, StepStutters DEF Next, Main, Idle

\* If the manifest lists no digest twice, Run is a Download: what it commits
\* is complete in blobs/ and stays there, its outcome tells nil from failure
\* truly, and after it no goroutine, retry or late answer commits anything.
THEOREM SchedulerImplementsDownload ==
    ASSUME Distinct
    PROVE  Spec => ImplementsDownload
<1>1. Init => Pulled!Init
    <2>1. Init => /\ main = "launch" /\ blob = [d \in Digest |-> "none"]
                  /\ status = [o \in Obj |-> "pending"]
        BY Zenon DEF Init
    <2> QED
        BY <2>1 DEF Pulled!Init, Terminated
<1>2. Init => RInv /\ SInv /\ DInv
    <2>1. Init => DInv
        BY InitUnborn DEF DInv, Settled, Terminated
    <2> QED
        BY <2>1, InitUnborn DEF RInv, Returned, SInv, Sound
<1>3. LoopInv /\ RestType /\ SInv /\ [Next]_vars => SInv'
    BY NextSound
<1> QED
    BY <1>1, <1>2, <1>3, Typed, NextReturned, NextSettled, NextRefines, PTL
       DEF Spec, ImplementsDownload, Pulled!Spec

\* What Download is for: whoever is told "ok" has the complete content of
\* every object, and keeps it.
THEOREM OkAlwaysDelivered ==
    ASSUME Distinct
    PROVE  Spec => []Pulled!Delivered
<1> DEFINE Kept == /\ {o \in Obj : status[o] = "committed"} \subseteq
                        {o \in Obj : DigestOf[o] \in {d \in Digest : blob[d] = "good"}}
                   /\ Pulled!Delivered
<1>1. Pulled!Init => Kept
    BY DEF Pulled!Init, Pulled!Delivered
<1>2. Kept /\ [Pulled!Next]_(Pulled!vars) => Kept'
    BY DEF Pulled!Next, Pulled!Commit, Pulled!Return, Pulled!vars, Pulled!Delivered
<1>3. Kept => Pulled!Delivered
    OBVIOUS
<1> HIDE DEF Kept
<1> QED
    BY <1>1, <1>2, <1>3, SchedulerImplementsDownload, PTL DEF ImplementsDownload, Pulled!Spec
==============================================================================
