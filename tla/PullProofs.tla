----------------------------- MODULE PullProofs ------------------------------
(***************************************************************************)
(* The composition keeps what its parts promise: every behaviour of Pull   *)
(* is one of Daemon and, for the process looked at, one of Panel.          *)
(***************************************************************************)
EXTENDS Pull, DaemonProofs, PanelProofs

LEMMA PullNextIsDaemonNext == [PullNext]_allvars => [DaemonNext]_dvars
<1> SUFFICES ASSUME [PullNext]_allvars PROVE DaemonNext \/ UNCHANGED dvars
    OBVIOUS
<1>1. CASE Displays \/ PullOver \/ UNCHANGED allvars
    BY <1>1 DEF Displays, PullOver, allvars
<1>2. CASE SelfReturns \/ SelfCancelled
    BY <1>2, SelfAssumption DEF SelfReturns, SelfCancelled, DaemonNext
<1>3. CASE SelfEnds
    BY <1>3, SelfAssumption DEF SelfEnds, DaemonNext, PullStep
<1>4. CASE SelfRuns
    BY <1>4, SelfAssumption DEF SelfRuns, DaemonNext, PullStep
<1>5. CASE SelfStep
    BY <1>5, SelfAssumption DEF SelfStep, DaemonNext, PullStep
<1>6. CASE \E p \in Proc \ {Self} : OtherStep(p)
    BY <1>6 DEF OtherStep, DaemonNext
<1>7. CASE \E q \in Proc : DaemonStep(q)
    BY <1>7 DEF DaemonNext
<1> QED
    BY <1>1, <1>2, <1>3, <1>4, <1>5, <1>6, <1>7 DEF PullNext

\* Whatever the terminal does, the processes, their locks and their daemons behave as Daemon says.
THEOREM PullImplementsDaemon == PullSpec => DaemonSpec
<1>1. PullInit => DaemonInit
    BY DEF PullInit
<1> QED
    BY <1>1, PullNextIsDaemonNext, PTL DEF PullSpec, DaemonSpec

------------------------------------------------------------------------------

\* Before Run there is no panel that could have been interrupted.
Early == {"idle", "locked", "probe", "check"}

EarlyInv == pc[Self] \in Early => interrupted = FALSE

LEMMA EarlyFirst ==
    ASSUME DInv, DaemonNext \/ UNCHANGED dvars, pc'[Self] \in Early
    PROVE  pc[Self] \in Early
<1>1. ASSUME NEW p \in Proc, NEW place, Goto(p, place), place \in Early => pc[p] \in Early
      PROVE  pc[Self] \in Early
    BY <1>1, SelfAssumption DEF Goto, DInv, DaemonTypeOK
<1>2. ASSUME NEW p \in Proc, PullStep(p) PROVE pc[Self] \in Early
    <2>1. CASE Build(p)
        BY <1>1, <2>1 DEF Build, Early
    <2>2. CASE NoDaemon(p) \/ ConnectExternal(p) \/ Spawn(p)
        BY <1>1, <2>2 DEF NoDaemon, ConnectExternal, Spawn, Early
    <2>3. CASE Probe(p)
        BY <1>1, <2>3 DEF Probe, Early
    <2>4. CASE Check(p)
        BY <1>1, <2>4 DEF Check, Early
    <2>5. CASE Shutdown(p) \/ Await(p) \/ Release(p)
        BY <1>1, <2>5 DEF Shutdown, Await, Release, Leaves, Early
    <2> QED
        BY <1>2, <2>1, <2>2, <2>3, <2>4, <2>5 DEF PullStep
<1>3. ASSUME NEW p \in Proc, RunReturns(p) \/ Killed(p) PROVE pc[Self] \in Early
    <2>1. CASE RunReturns(p)
        BY <1>1, <2>1 DEF RunReturns, Early
    <2>2. CASE Killed(p)
        BY <1>1, <2>2 DEF Killed, Leaves, Early
    <2> QED
        BY <1>3, <2>1, <2>2
<1>4. ASSUME NEW p \in Proc, Cancel(p) \/ DaemonStep(p) PROVE pc[Self] \in Early
    BY <1>4 DEF Cancel, DaemonStep, Bind, Hang, Recover, Crash, Ends, Orphan, Own
<1>5. CASE UNCHANGED dvars
    BY <1>5 DEF dvars
<1> QED
    BY <1>2, <1>3, <1>4, <1>5 DEF DaemonNext

LEMMA PanelStepInterrupted == PanelStep => interrupted' = interrupted
BY DEF PanelStep, Lock, Draw, EraseRow, Cleared, PrintEvent, PrintRow, Rendered, Work, Begin,
   LogEvent, End, RunStep, FinalPanel, Close, PlainLine, Tick, LoopEnds, Snapshot

LEMMA NextEarlyInv == DInv /\ EarlyInv /\ [PullNext]_allvars => EarlyInv'
<1> SUFFICES ASSUME DInv, EarlyInv, [PullNext]_allvars, pc'[Self] \in Early PROVE interrupted' = FALSE
    BY DEF EarlyInv
<1>1. interrupted = FALSE /\ pc[Self] \in Early
    BY EarlyFirst, PullNextIsDaemonNext DEF EarlyInv
<1>2. CASE Displays
    BY <1>1, <1>2, PanelStepInterrupted DEF Displays
<1>3. CASE SelfCancelled
    BY <1>1, <1>3 DEF SelfCancelled, pvars, Early
<1>4. CASE SelfEnds
    BY <1>4 DEF SelfEnds, Exit
<1>5. CASE SelfRuns
    BY <1>5 DEF SelfRuns, Early
<1>6. CASE UNCHANGED pvars
    BY <1>1, <1>6 DEF pvars
<1> QED
    BY <1>2, <1>3, <1>4, <1>5, <1>6 DEF PullNext, SelfReturns, PullOver, allvars

LEMMA PullNextIsPanelNext == EarlyInv /\ [PullNext]_allvars => [PanelNext]_pvars
<1> SUFFICES ASSUME EarlyInv, [PullNext]_allvars PROVE PanelNext \/ UNCHANGED pvars
    OBVIOUS
<1>1. CASE Displays
    BY <1>1 DEF Displays, PanelNext
<1>2. CASE SelfCancelled
    BY <1>2 DEF SelfCancelled, PanelNext
<1>3. CASE SelfEnds
    BY <1>3 DEF SelfEnds, PanelNext
<1>4. CASE SelfRuns
    <2>1. interrupted = FALSE
        BY <1>4 DEF SelfRuns, Probe, ConnectExternal, EarlyInv, Early
    <2>2. interrupted' = TRUE \/ interrupted' = FALSE
        BY <1>4 DEF SelfRuns
    <2>3. UNCHANGED <<tpc, mu, screen, drawn, erased, frame, logged>>
        BY <1>4 DEF SelfRuns
    <2>4. CASE interrupted' = TRUE
        BY <2>1, <2>3, <2>4 DEF PanelNext, Interrupt
    <2> QED
        BY <1>4, <2>1, <2>2, <2>3, <2>4 DEF pvars
<1>5. CASE UNCHANGED pvars
    BY <1>5
<1> QED
    BY <1>1, <1>2, <1>3, <1>4, <1>5 DEF PullNext, SelfReturns, PullOver, allvars

\* Whatever the daemons and the other processes do, the terminal behaves as Panel says.
THEOREM PullImplementsPanel == PullSpec => PanelSpec
<1>1. PullInit => PanelInit /\ EarlyInv
    BY DEF PullInit, PanelInit, EarlyInv
<1> QED
    BY <1>1, PullImplementsDaemon, DaemonInvariant, NextEarlyInv, PullNextIsPanelNext, PTL
       DEF PullSpec, PanelSpec

\* In the composition, too, the flock covers the daemon and a pull leaves none at work.
THEOREM PullAlwaysAlone == PullSpec => [](LoneWriter /\ NoneLeft)
BY PullImplementsDaemon, WriterAlwaysLone, NeverLeft, PTL

\* In the composition, too, the panel stays whole and no event line is erased.
THEOREM PullKeepsTerminal == PullSpec => []PanelWhole /\ EventsKept
BY PullImplementsPanel, PanelAlwaysWhole, EventsAlwaysKept, PTL

\* In the composition, too, processes that race for a port are kept apart, and
\* every step of a pull brings it nearer its return, whatever the terminal does.
THEOREM PullStaysApart == PullSpec => OwnDaemonOnly /\ [][RunsDown]_dvars
BY PullImplementsDaemon, AlwaysOwnDaemon, PullAlwaysRunsDown, PTL

\* In the composition, too, the mutex of the panel is let go in bounded time.
THEOREM PullReleasesMutex ==
    PullSpec => /\ [](mu # "free" => CanDraw(mu) /\ StepsHeld \in 1..(2 * MaxRows + 2))
                /\ [][mu # "free" => \/ StepsHeld' < StepsHeld
                                     \/ StepsHeld' = StepsHeld /\ UNCHANGED mu]_pvars
BY PullImplementsPanel, MutexAlwaysReleased, PTL

\* Both parts keep their types in the composition.
THEOREM PullTypeCorrect == PullSpec => [](DaemonTypeOK /\ PanelTypeOK)
BY PullImplementsDaemon, PullImplementsPanel, DaemonTypeCorrect, PanelTypeCorrect, PTL
==============================================================================
