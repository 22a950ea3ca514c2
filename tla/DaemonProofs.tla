---------------------------- MODULE DaemonProofs -----------------------------
(***************************************************************************)
(* For any processes, directories and ports: the lock of a directory       *)
(* covers the daemon that writes in it, a pull that returns leaves none at *)
(* work, and nobody uses or stops the daemon of another process.           *)
(***************************************************************************)
EXTENDS Daemon, TLAPS

\* From Build to Release the process holds the lock of its directory.
Holds == {"locked", "probe", "check", "download", "stop", "await", "unlock"}

LockInv ==
    /\ \A p \in Proc : pc[p] \in Holds => lock[DirOf[p]] = p
    /\ \A d \in Dir : lock[d] \in Proc => DirOf[lock[d]] = d /\ pc[lock[d]] \in Holds

\* A daemon is at work only between Spawn and the end of Stop, unless its imgpull was killed.
WorkInv ==
    \A p \in Proc :
        daemon[p] \in Live => pc[p] \in {"probe", "check", "download", "stop", "await", "dead"}

\* StartDaemon makes no call after the last that fits.
CountInv ==
    \A p \in Proc :
        /\ pc[p] \in {"idle", "locked"} => probes[p] = 0
        /\ pc[p] = "probe" => probes[p] < MaxProbes

DInv == DaemonTypeOK /\ LockInv /\ WorkInv

LEMMA InitDInv == DaemonInit => DInv
BY DirOfAssumption, NoProcAssumption, PortAssumption, BoundsAssumption
   DEF DaemonInit, DInv, DaemonTypeOK, LockInv, WorkInv, Live, Listening, Places, Holds

\* The steps of a pull between Build and Release that move no lock.
LEMMA MoveInv ==
    ASSUME DInv, NEW p \in Proc, NEW place \in Holds, pc[p] \in Holds, Goto(p, place),
           UNCHANGED lock, DaemonTypeOK',
           \A q \in Proc : daemon'[q] \in Live => daemon[q] \in Live \/ q = p,
           daemon'[p] \in Live => place \in {"probe", "check", "download", "stop", "await"}
    PROVE  DInv'
<1>1. \A q \in Proc \ {p} : pc'[q] = pc[q]
    BY DEF Goto, DInv, DaemonTypeOK
<1>2. pc'[p] = place
    BY DEF Goto, DInv, DaemonTypeOK
<1>3. LockInv'
    BY <1>1, <1>2 DEF DInv, LockInv
<1>4. WorkInv'
    BY <1>1, <1>2 DEF DInv, WorkInv
<1> QED
    BY <1>3, <1>4 DEF DInv

\* A process that lets go of the lock, with its daemon over or itself killed.
LEMMA LeavesInv ==
    ASSUME DInv, NEW p \in Proc, NEW place \in {"returned", "dead"}, Leaves(p, place),
           place = "returned" => daemon[p] \notin Live, pc[p] \in Holds, kills' \in 0..MaxKills
    PROVE  DInv'
<1>1. DaemonTypeOK'
    BY BoundsAssumption DEF Leaves, Goto, DInv, DaemonTypeOK, Places
<1>2. \A q \in Proc \ {p} : pc'[q] = pc[q]
    BY DEF Leaves, Goto, DInv, DaemonTypeOK
<1>3. pc'[p] = place
    BY DEF Leaves, Goto, DInv, DaemonTypeOK
<1>4. LockInv'
    <2>1. \A d \in Dir : lock'[d] = IF lock[d] = p THEN NoProc ELSE lock[d]
        BY DEF Leaves
    <2>2. ASSUME NEW q \in Proc, pc'[q] \in Holds PROVE lock'[DirOf[q]] = q
        <3>1. q # p /\ lock[DirOf[q]] = q
            BY <1>2, <1>3, <2>2 DEF DInv, LockInv, Holds
        <3> QED
            BY <2>1, <3>1, DirOfAssumption
    <2>3. ASSUME NEW d \in Dir, lock'[d] \in Proc
          PROVE  DirOf[lock'[d]] = d /\ pc'[lock'[d]] \in Holds
        <3>1. lock'[d] = lock[d] /\ lock[d] # p
            BY <2>1, <2>3, NoProcAssumption
        <3> QED
            BY <1>2, <2>3, <3>1 DEF DInv, LockInv
    <2> QED
        BY <2>2, <2>3 DEF LockInv
<1>5. WorkInv'
    <2>1. daemon' = daemon
        BY DEF Leaves
    <2> QED
        BY <1>2, <1>3, <2>1 DEF DInv, WorkInv
<1> QED
    BY <1>1, <1>4, <1>5 DEF DInv

LEMMA OwnInv ==
    ASSUME DInv, NEW q \in Proc, NEW from, NEW to \in Live \cup {"gone"}, Own(q, from, to),
           from \subseteq Live \/ to = "gone"
    PROVE  DInv'
<1>1. DaemonTypeOK'
    BY DEF Own, Becomes, DInv, DaemonTypeOK, Live, Listening
<1>2. LockInv'
    BY DEF Own, DInv, LockInv
<1>3. \A p \in Proc : daemon'[p] \in Live => daemon[p] \in Live
    <2>1. \A p \in Proc \ {q} : daemon'[p] = daemon[p]
        BY DEF Own, Becomes, DInv, DaemonTypeOK
    <2>2. daemon'[q] = to /\ daemon[q] \in from
        BY DEF Own, Becomes, DInv, DaemonTypeOK
    <2>3. "gone" \notin Live
        BY DEF Live, Listening
    <2> QED
        BY <2>1, <2>2, <2>3
<1>4. WorkInv'
    BY <1>3 DEF Own, DInv, WorkInv
<1> QED
    BY <1>1, <1>2, <1>4 DEF DInv

LEMMA BuildInv == ASSUME DInv, NEW p \in Proc, Build(p) PROVE DInv'
<1>1. \A q \in Proc \ {p} : pc'[q] = pc[q]
    BY DEF Build, Goto, DInv, DaemonTypeOK
<1>2. daemon[p] \notin Live
    BY DEF Build, DInv, WorkInv
<1>3. CASE lock[DirOf[p]] = NoProc /\ lock' = [lock EXCEPT ![DirOf[p]] = p] /\ Goto(p, "locked")
    <2>1. DaemonTypeOK'
        BY <1>3, DirOfAssumption DEF Build, Goto, DInv, DaemonTypeOK, Places
    <2>2. pc'[p] = "locked" /\ lock'[DirOf[p]] = p
        BY <1>3, DirOfAssumption DEF Goto, DInv, DaemonTypeOK
    <2>3. \A d \in Dir \ {DirOf[p]} : lock'[d] = lock[d]
        BY <1>3 DEF DInv, DaemonTypeOK
    <2>4. ASSUME NEW q \in Proc, pc'[q] \in Holds PROVE lock'[DirOf[q]] = q
        <3>1. CASE q = p
            BY <2>2, <3>1
        <3>2. CASE q # p
            <4>1. lock[DirOf[q]] = q
                BY <1>1, <2>4, <3>2 DEF DInv, LockInv
            <4>2. DirOf[q] # DirOf[p]
                BY <1>3, <4>1, NoProcAssumption
            <4> QED
                BY <2>3, <4>1, <4>2, DirOfAssumption
        <3> QED
            BY <3>1, <3>2
    <2>5. ASSUME NEW d \in Dir, lock'[d] \in Proc
          PROVE  DirOf[lock'[d]] = d /\ pc'[lock'[d]] \in Holds
        <3>1. CASE d = DirOf[p]
            BY <2>2, <3>1 DEF Holds
        <3>2. CASE d # DirOf[p]
            <4>1. lock'[d] = lock[d] /\ DirOf[lock[d]] = d /\ pc[lock[d]] \in Holds
                BY <2>3, <2>5, <3>2 DEF DInv, LockInv
            <4>2. lock[d] \in Proc \ {p}
                BY <2>5, <3>2, <4>1
            <4> QED
                BY <1>1, <4>1, <4>2
        <3> QED
            BY <3>1, <3>2
    <2>6. WorkInv'
        BY <1>1, <1>2 DEF Build, DInv, WorkInv
    <2> QED
        BY <2>1, <2>4, <2>5, <2>6 DEF DInv, LockInv
<1>4. CASE Goto(p, "returned") /\ UNCHANGED lock
    <2>1. DaemonTypeOK'
        BY <1>4 DEF Build, Goto, DInv, DaemonTypeOK, Places
    <2>2. pc[p] = "idle" /\ pc'[p] = "returned"
        BY <1>4 DEF Build, Goto, DInv, DaemonTypeOK
    <2>3. LockInv'
        BY <1>1, <1>4, <2>2 DEF DInv, LockInv, Holds
    <2>4. WorkInv'
        BY <1>1, <1>2 DEF Build, DInv, WorkInv
    <2> QED
        BY <2>1, <2>3, <2>4 DEF DInv
<1> QED
    BY <1>3, <1>4 DEF Build

LEMMA NoDaemonInv == ASSUME DInv, NEW p \in Proc, NoDaemon(p) PROVE DInv'
<1>1. DaemonTypeOK'
    BY DEF NoDaemon, Goto, DInv, DaemonTypeOK, Places
<1>2. daemon[p] \notin Live
    BY DEF NoDaemon, DInv, WorkInv
<1> QED
    BY <1>1, <1>2, MoveInv DEF NoDaemon, Holds

LEMMA ConnectExternalInv == ASSUME DInv, NEW p \in Proc, ConnectExternal(p) PROVE DInv'
<1>1. DaemonTypeOK'
    BY DEF ConnectExternal, Goto, DInv, DaemonTypeOK, Places
<1> QED
    BY <1>1, MoveInv DEF ConnectExternal, Holds

LEMMA SpawnInv == ASSUME DInv, NEW p \in Proc, Spawn(p) PROVE DInv'
<1>1. DaemonTypeOK'
    BY DEF Spawn, Goto, Becomes, DInv, DaemonTypeOK, Places, Live
<1>2. \A q \in Proc : daemon'[q] \in Live => daemon[q] \in Live \/ q = p
    BY DEF Spawn, Becomes, DInv, DaemonTypeOK
<1> QED
    BY <1>1, <1>2, MoveInv DEF Spawn, Holds

LEMMA RunReturnsInv == ASSUME DInv, NEW p \in Proc, RunReturns(p) PROVE DInv'
<1>1. DaemonTypeOK'
    BY DEF RunReturns, Goto, DInv, DaemonTypeOK, Places
<1>2. CASE daemon[p] = "none"
    <2>1. daemon[p] \notin Live
        BY <1>2 DEF Live, Listening
    <2> QED
        BY <1>1, <1>2, <2>1, MoveInv DEF RunReturns, Holds
<1>3. CASE daemon[p] # "none"
    BY <1>1, <1>3, MoveInv DEF RunReturns, Holds
<1> QED
    BY <1>2, <1>3

LEMMA CheckInv == ASSUME DInv, NEW p \in Proc, Check(p) PROVE DInv'
<1>1. DaemonTypeOK'
    BY DEF Check, Goto, DInv, DaemonTypeOK, Places
<1>2. daemon' = daemon /\ UNCHANGED lock /\ pc[p] \in Holds
    BY DEF Check, Holds
<1>3. CASE daemon[p] = "gone" /\ Goto(p, "unlock")
    <2>1. daemon[p] \notin Live
        BY <1>3 DEF Live, Listening
    <2> QED
        BY <1>1, <1>2, <1>3, <2>1, MoveInv DEF Holds
<1>4. CASE Goto(p, "probe")
    BY <1>1, <1>2, <1>4, MoveInv DEF Holds
<1>5. CASE Goto(p, "stop")
    BY <1>1, <1>2, <1>5, MoveInv DEF Holds
<1> QED
    BY <1>3, <1>4, <1>5 DEF Check

LEMMA ShutdownInv == ASSUME DInv, NEW p \in Proc, Shutdown(p) PROVE DInv'
<1>1. DaemonTypeOK'
    BY DEF Shutdown, Goto, DInv, DaemonTypeOK, Places, Live, Listening
<1>2. \A q \in Proc : daemon'[q] \in Live => daemon[q] \in Live \/ q = p
    BY DEF Shutdown, Accepts
<1> QED
    BY <1>1, <1>2, MoveInv DEF Shutdown, Holds

LEMMA AwaitInv == ASSUME DInv, NEW p \in Proc, Await(p) PROVE DInv'
<1>1. DaemonTypeOK'
    BY DEF Await, Goto, Becomes, DInv, DaemonTypeOK, Places
<1>2. daemon'[p] \notin Live
    BY DEF Await, Becomes, DInv, DaemonTypeOK, Live, Listening
<1>3. \A q \in Proc : daemon'[q] \in Live => daemon[q] \in Live \/ q = p
    BY DEF Await, Becomes, DInv, DaemonTypeOK
<1> QED
    BY <1>1, <1>2, <1>3, MoveInv DEF Await, Holds

LEMMA ProbeInv == ASSUME DInv, CountInv, NEW p \in Proc, Probe(p) PROVE DInv'
<1>1. DaemonTypeOK'
    <2>1. probes[p] + 1 \in 0..MaxProbes
        BY BoundsAssumption DEF Probe, CountInv, DInv, DaemonTypeOK
    <2> QED
        BY <2>1 DEF Probe, Goto, DInv, DaemonTypeOK, Places
<1>2. CASE Goto(p, "download")
    BY <1>1, <1>2, MoveInv DEF Probe, Holds
<1>3. CASE Goto(p, "check")
    BY <1>1, <1>3, MoveInv DEF Probe, Holds
<1> QED
    BY <1>2, <1>3 DEF Probe

LEMMA CountStep == ASSUME DInv, CountInv, DaemonNext PROVE CountInv'
<1>1. ASSUME NEW p \in Proc, NEW place, Goto(p, place), place \notin {"idle", "locked", "probe"},
             \A q \in Proc \ {p} : probes'[q] = probes[q]
      PROVE  CountInv'
    BY <1>1 DEF Goto, CountInv, DInv, DaemonTypeOK
<1>2. ASSUME UNCHANGED <<pc, probes>> PROVE CountInv'
    BY <1>2 DEF CountInv
<1>3. ASSUME NEW p \in Proc, PullStep(p) PROVE CountInv'
    <2>1. CASE Build(p) \/ Spawn(p)
        BY <2>1, BoundsAssumption DEF Build, Spawn, Goto, CountInv, DInv, DaemonTypeOK
    <2>2. CASE Probe(p)
        <3>1. \A q \in Proc \ {p} : probes'[q] = probes[q]
            BY <2>2 DEF Probe, DInv, DaemonTypeOK
        <3>2. CASE Goto(p, "download")
            BY <1>1, <3>1, <3>2
        <3>3. CASE Goto(p, "check")
            BY <1>1, <3>1, <3>3
        <3> QED
            BY <2>2, <3>2, <3>3 DEF Probe
    <2>3. CASE Check(p)
        BY <2>3 DEF Check, Goto, CountInv, DInv, DaemonTypeOK
    <2>4. CASE NoDaemon(p) \/ ConnectExternal(p) \/ Shutdown(p) \/ Await(p)
        BY <1>1, <2>4 DEF NoDaemon, ConnectExternal, Shutdown, Await
    <2>5. CASE Release(p)
        <3>1. \A q \in Proc \ {p} : probes'[q] = probes[q]
            BY <2>5 DEF Release, Leaves, DInv, DaemonTypeOK
        <3> QED
            BY <1>1, <2>5, <3>1 DEF Release, Leaves
    <2> QED
        BY <1>3, <2>1, <2>2, <2>3, <2>4, <2>5 DEF PullStep
<1>4. ASSUME NEW p \in Proc, RunReturns(p) PROVE CountInv'
    <2>1. CASE Goto(p, "unlock")
        BY <1>1, <1>4, <2>1 DEF RunReturns
    <2>2. CASE Goto(p, "stop")
        BY <1>1, <1>4, <2>2 DEF RunReturns
    <2> QED
        BY <1>4, <2>1, <2>2 DEF RunReturns
<1>5. ASSUME NEW p \in Proc, Killed(p) PROVE CountInv'
    <2>1. \A q \in Proc \ {p} : probes'[q] = probes[q]
        BY <1>5 DEF Killed, Leaves, DInv, DaemonTypeOK
    <2> QED
        BY <1>1, <1>5, <2>1 DEF Killed, Leaves
<1>6. ASSUME NEW p \in Proc, Cancel(p) \/ DaemonStep(p) PROVE CountInv'
    BY <1>2, <1>6 DEF Cancel, DaemonStep, Bind, Hang, Recover, Crash, Ends, Orphan, Own
<1> QED
    BY <1>3, <1>4, <1>5, <1>6 DEF DaemonNext

LEMMA CancelInv == ASSUME DInv, NEW p \in Proc, Cancel(p) PROVE DInv'
BY DEF Cancel, DInv, DaemonTypeOK, LockInv, WorkInv

LEMMA ReleaseInv == ASSUME DInv, NEW p \in Proc, Release(p) PROVE DInv'
<1>1. daemon[p] \notin Live /\ pc[p] \in Holds
    BY DEF Release, DInv, WorkInv, Holds
<1>2. kills' \in 0..MaxKills
    BY DEF Release, DInv, DaemonTypeOK
<1> QED
    BY <1>1, <1>2, LeavesInv DEF Release

LEMMA KilledInv == ASSUME DInv, NEW p \in Proc, Killed(p) PROVE DInv'
<1>1. pc[p] \in Holds
    BY DEF Killed, DInv, DaemonTypeOK, Places, Holds
<1>2. kills' \in 0..MaxKills
    BY BoundsAssumption DEF Killed, DInv, DaemonTypeOK
<1> QED
    BY <1>1, <1>2, LeavesInv DEF Killed

LEMMA DaemonStepInv == ASSUME DInv, NEW q \in Proc, DaemonStep(q) PROVE DInv'
<1>1. CASE Bind(q)
    <2>1. CASE PortTaken(q)
        BY <1>1, <2>1, OwnInv DEF Bind
    <2>2. CASE ~PortTaken(q)
        BY <1>1, <2>2, OwnInv DEF Bind, Live, Listening
    <2> QED
        BY <2>1, <2>2
<1>2. CASE Hang(q) \/ Recover(q)
    BY <1>2, OwnInv DEF Hang, Recover, Live, Listening
<1>3. CASE Crash(q) \/ Ends(q)
    BY <1>3, OwnInv DEF Crash, Ends
<1>4. CASE Orphan(q)
    BY <1>4, OwnInv DEF Orphan, Live, Listening
<1> QED
    BY <1>1, <1>2, <1>3, <1>4 DEF DaemonStep

LEMMA NextDInv == DInv /\ CountInv /\ [DaemonNext]_dvars => (DInv /\ CountInv)'
<1> SUFFICES ASSUME DInv, CountInv, [DaemonNext]_dvars PROVE DInv' /\ CountInv'
    OBVIOUS
<1>1. CASE DaemonNext
    <2>1. ASSUME NEW p \in Proc, PullStep(p) PROVE DInv'
        BY <2>1, BuildInv, NoDaemonInv, ConnectExternalInv, SpawnInv, ProbeInv, CheckInv,
           ShutdownInv, AwaitInv, ReleaseInv DEF PullStep
    <2> QED
        BY <1>1, <2>1, RunReturnsInv, CancelInv, KilledInv, DaemonStepInv, CountStep DEF DaemonNext
<1>2. CASE UNCHANGED dvars
    BY <1>2 DEF dvars, DInv, DaemonTypeOK, LockInv, WorkInv, CountInv
<1> QED
    BY <1>1, <1>2

LEMMA DaemonInvariant == DaemonSpec => [](DInv /\ CountInv)
<1>1. DaemonInit => DInv /\ CountInv
    BY InitDInv DEF DaemonInit, CountInv
<1> QED
    BY <1>1, NextDInv, PTL DEF DaemonSpec

\* The state of the processes and daemons stays in its type: StartDaemon makes a bounded number of calls.
THEOREM DaemonTypeCorrect == DaemonSpec => []DaemonTypeOK
<1>1. DInv => DaemonTypeOK
    BY DEF DInv
<1> QED
    BY <1>1, DaemonInvariant, PTL

\* The flock of an image directory covers the daemon: two daemons are at work
\* in it only after one of their imgpulls was killed.
THEOREM WriterAlwaysLone == DaemonSpec => []LoneWriter
<1>1. DInv => LoneWriter
    <2> SUFFICES ASSUME DInv, NEW p \in Proc, NEW q \in Proc, p # q, DirOf[p] = DirOf[q],
                        daemon[p] \in Live, daemon[q] \in Live, pc[p] # "dead", pc[q] # "dead"
                 PROVE  FALSE
        BY DEF LoneWriter
    <2>1. pc[p] \in Holds /\ pc[q] \in Holds
        BY DEF DInv, WorkInv, Holds
    <2> QED
        BY <2>1 DEF DInv, LockInv
<1> QED
    BY <1>1, DaemonInvariant, PTL

\* No daemon is at work for a pull that has returned, however it ended.
THEOREM NeverLeft == DaemonSpec => []NoneLeft
<1>1. DInv => NoneLeft
    BY DEF DInv, WorkInv, NoneLeft
<1> QED
    BY <1>1, DaemonInvariant, PTL

\* The secret keeps processes that race for a port apart.
THEOREM AlwaysOwnDaemon == DaemonSpec => OwnDaemonOnly
<1> DEFINE Apart == \A p \in Proc :
        /\ pc[p] = "probe" /\ pc'[p] = "download" => daemon[p] = "serving"
        /\ daemon[p] = "serving" /\ daemon'[p] = "ending" => pc[p] \in {"stop", "returned", "dead"}
<1>1. ASSUME DInv, NEW p \in Proc, PullStep(p) \/ RunReturns(p) \/ Cancel(p) \/ Killed(p) PROVE Apart
    <2>1. CASE Probe(p)
        BY <1>1, <2>1 DEF Probe, Goto, Accepts, DInv, DaemonTypeOK
    <2>2. CASE Shutdown(p)
        BY <1>1, <2>2 DEF Shutdown, Goto, Accepts, DInv, DaemonTypeOK
    <2>3. CASE Spawn(p) \/ Await(p)
        BY <1>1, <2>3 DEF Spawn, Await, Goto, Becomes, DInv, DaemonTypeOK
    <2>4. CASE Build(p) \/ NoDaemon(p) \/ ConnectExternal(p) \/ Check(p) \/ RunReturns(p) \/ Cancel(p)
        BY <1>1, <2>4 DEF Build, NoDaemon, ConnectExternal, Check, RunReturns, Cancel, Goto,
           DInv, DaemonTypeOK
    <2>5. CASE Release(p) \/ Killed(p)
        BY <1>1, <2>5 DEF Release, Killed, Leaves, Goto, DInv, DaemonTypeOK
    <2> QED
        BY <1>1, <2>1, <2>2, <2>3, <2>4, <2>5 DEF PullStep
<1>2. ASSUME DInv, NEW q \in Proc, DaemonStep(q) PROVE Apart
    <2>1. CASE Orphan(q)
        BY <1>2, <2>1 DEF Orphan, Own, Becomes, DInv, DaemonTypeOK
    <2>2. CASE Bind(q) \/ Hang(q) \/ Recover(q) \/ Crash(q) \/ Ends(q)
        BY <1>2, <2>2 DEF Bind, Hang, Recover, Crash, Ends, Own, Becomes, DInv, DaemonTypeOK
    <2> QED
        BY <1>2, <2>1, <2>2 DEF DaemonStep
<1>3. DInv /\ [DaemonNext]_dvars => [Apart]_dvars
    BY <1>1, <1>2 DEF DaemonNext
<1> QED
    BY <1>3, DaemonInvariant, PTL DEF DaemonSpec, OwnDaemonOnly

------------------------------------------------------------------------------
(* A pull takes a bounded number of steps                                   *)

\* How many steps of its own a pull has left at most, Run counted as one:
\* each round of StartDaemon's loop uses up one of the calls that fit.
StepsLeft(p) ==
    CASE pc[p] = "idle" -> 2 * MaxProbes + 7
      [] pc[p] = "locked" -> 2 * MaxProbes + 6
      [] pc[p] = "check" -> 2 * (MaxProbes - probes[p]) + 6
      [] pc[p] = "probe" -> 2 * (MaxProbes - probes[p]) + 5
      [] pc[p] = "download" -> 4
      [] pc[p] = "stop" -> 3
      [] pc[p] = "await" -> 2
      [] pc[p] = "unlock" -> 1
      [] OTHER -> 0

LowersSteps(p) == pc'[p] # pc[p] => StepsLeft(p)' < StepsLeft(p)

RunsDown == \A p \in Proc : LowersSteps(p)

LEMMA StepsLeftBounds ==
    ASSUME DInv, NEW p \in Proc
    PROVE  StepsLeft(p) \in 0..(2 * MaxProbes + 7)
<1>1. probes[p] \in 0..MaxProbes /\ pc[p] \in Places
    BY DEF DInv, DaemonTypeOK
<1> QED
    BY <1>1, BoundsAssumption DEF StepsLeft, Places

\* A step that moves p alone.
LEMMA OneRunsDown ==
    ASSUME DInv, NEW p \in Proc, NEW place, Goto(p, place), LowersSteps(p)
    PROVE  RunsDown
<1>1. \A q \in Proc : q # p => pc'[q] = pc[q]
    BY DEF Goto, DInv, DaemonTypeOK
<1> QED
    BY <1>1 DEF RunsDown, LowersSteps

LEMMA PullRunsDown ==
    ASSUME DInv, CountInv, NEW p \in Proc, PullStep(p) \/ RunReturns(p) \/ Killed(p)
    PROVE  RunsDown
<1>1. probes[p] \in 0..MaxProbes /\ pc[p] \in Places
    BY DEF DInv, DaemonTypeOK
<1>2. ASSUME NEW place, Goto(p, place) PROVE pc'[p] = place
    BY <1>2 DEF Goto, DInv, DaemonTypeOK
<1> USE BoundsAssumption
<1>3. CASE Build(p)
    <2>1. \E place \in {"locked", "returned"} : Goto(p, place)
        BY <1>3 DEF Build
    <2> QED
        BY <1>2, <1>3, <2>1, OneRunsDown DEF Build, LowersSteps, StepsLeft
<1>4. CASE NoDaemon(p) \/ ConnectExternal(p)
    BY <1>2, <1>4, OneRunsDown DEF NoDaemon, ConnectExternal, LowersSteps, StepsLeft
<1>5. CASE Spawn(p)
    <2>1. probes[p] = 0 /\ probes'[p] = 0
        BY <1>5 DEF Spawn, CountInv
    <2> QED
        BY <1>2, <1>5, <2>1, OneRunsDown DEF Spawn, LowersSteps, StepsLeft
<1>6. CASE Probe(p)
    <2>1. probes'[p] = probes[p] + 1
        BY <1>6 DEF Probe, DInv, DaemonTypeOK
    <2>2. \E place \in {"download", "check"} : Goto(p, place)
        BY <1>6 DEF Probe
    <2> QED
        BY <1>1, <1>2, <1>6, <2>1, <2>2, OneRunsDown DEF Probe, LowersSteps, StepsLeft
<1>7. CASE Check(p)
    <2>1. \E place \in {"stop", "unlock", "probe"} : Goto(p, place)
        BY <1>7 DEF Check
    <2> QED
        BY <1>1, <1>2, <1>7, <2>1, OneRunsDown DEF Check, LowersSteps, StepsLeft
<1>8. CASE RunReturns(p)
    <2>1. \E place \in {"stop", "unlock"} : Goto(p, place)
        BY <1>8 DEF RunReturns
    <2> QED
        BY <1>2, <1>8, <2>1, OneRunsDown DEF RunReturns, LowersSteps, StepsLeft
<1>9. CASE Shutdown(p) \/ Await(p)
    BY <1>2, <1>9, OneRunsDown DEF Shutdown, Await, LowersSteps, StepsLeft
<1>10. CASE Release(p)
    BY <1>2, <1>10, OneRunsDown DEF Release, Leaves, LowersSteps, StepsLeft
<1>11. CASE Killed(p)
    <2>1. StepsLeft(p) > 0
        BY <1>1, <1>11 DEF Killed, StepsLeft, Places
    <2>2. Goto(p, "dead")
        BY <1>11 DEF Killed, Leaves
    <2> QED
        BY <1>2, <2>1, <2>2, OneRunsDown DEF LowersSteps, StepsLeft
<1> QED
    BY <1>3, <1>4, <1>5, <1>6, <1>7, <1>8, <1>9, <1>10, <1>11 DEF PullStep

\* Whatever the daemons, the ports, the other processes and signals do, each
\* step of a pull brings it nearer its return: StartDaemon's loop, Stop and
\* the deferred calls take 2 * MaxProbes + 7 steps at most. (That it takes
\* them at all needs fairness, see PullReturns.)
THEOREM PullAlwaysRunsDown ==
    DaemonSpec => /\ [](\A p \in Proc : StepsLeft(p) \in 0..(2 * MaxProbes + 7))
                  /\ [][RunsDown]_dvars
<1>1. DInv => \A p \in Proc : StepsLeft(p) \in 0..(2 * MaxProbes + 7)
    BY StepsLeftBounds
<1>2. DInv /\ CountInv /\ [DaemonNext]_dvars => [RunsDown]_dvars
    <2> SUFFICES ASSUME DInv, CountInv, DaemonNext PROVE RunsDown
        OBVIOUS
    <2>1. ASSUME NEW p \in Proc, Cancel(p) \/ DaemonStep(p) PROVE UNCHANGED pc
        BY <2>1 DEF Cancel, DaemonStep, Bind, Hang, Recover, Crash, Ends, Orphan, Own
    <2>2. UNCHANGED pc => RunsDown
        BY DEF RunsDown, LowersSteps
    <2> QED
        BY <2>1, <2>2, PullRunsDown DEF DaemonNext
<1> QED
    BY <1>1, <1>2, DaemonInvariant, PTL DEF DaemonSpec
==============================================================================
