--------------------------------- MODULE Pull --------------------------------
(***************************************************************************)
(* pull as a process among others: the lock, the daemon and, for one of    *)
(* them, the terminal while Scheduler.Run downloads and afterwards.        *)
(***************************************************************************)
EXTENDS Daemon, Panel

CONSTANT Self   \* the process whose terminal is looked at

ASSUME SelfAssumption == Self \in Proc

allvars == <<dvars, pvars>>

PullInit == DaemonInit /\ PanelInit

\* Run's goroutines exist while it runs; progressLoop may outlive it, until the process ends.
Displaying ==
    \/ pc[Self] = "download"
    \/ pc[Self] \in {"stop", "await", "unlock"} /\ tpc["run"] = "over"

Displays == Displaying /\ PanelStep /\ UNCHANGED dvars

\* Self leaves Run when all its goroutines but progressLoop are done.
SelfReturns == tpc["run"] = "over" /\ RunReturns(Self) /\ UNCHANGED pvars

SelfCancelled ==
    /\ Cancel(Self)
    /\ IF pc[Self] = "download" /\ tpc["run"] # "over"
         THEN Interrupt
         ELSE UNCHANGED pvars

SelfEnds == (Release(Self) \/ Killed(Self)) /\ Exit

\* ctx is canceled already when Run begins.
SelfRuns ==
    /\ Probe(Self) \/ ConnectExternal(Self)
    /\ interrupted' = (pc'[Self] = "download" /\ cancelled[Self])
    /\ UNCHANGED <<tpc, mu, screen, drawn, erased, frame, logged>>

SelfStep ==
    \/ Build(Self) \/ NoDaemon(Self) \/ Spawn(Self) \/ Check(Self)
    \/ Shutdown(Self) \/ Await(Self)

OtherStep(p) == PullStep(p) \/ RunReturns(p) \/ Cancel(p) \/ Killed(p)

PullOver ==
    /\ \A p \in Proc : pc[p] \in {"returned", "dead"} /\ daemon[p] \in {"none", "gone"}
    /\ UNCHANGED allvars

PullNext ==
    \/ Displays \/ SelfReturns \/ SelfCancelled \/ SelfEnds \/ SelfRuns
    \/ SelfStep /\ UNCHANGED pvars
    \/ \E p \in Proc \ {Self} : OtherStep(p) /\ UNCHANGED pvars
    \/ \E q \in Proc : DaemonStep(q) /\ UNCHANGED pvars
    \/ PullOver

\* What Self's main goroutine does.
MainStep ==
    \/ SelfStep /\ UNCHANGED pvars
    \/ SelfRuns
    \/ Displaying /\ RunStep /\ UNCHANGED dvars
    \/ SelfReturns
    \/ Release(Self) /\ Exit

\* Every process and goroutine runs. Each object's goroutine comes to its end,
\* and so does Run in the other processes (Scheduler.Termination). The mutex
\* goes to whoever has waited too long for it, so nobody starves while
\* progressLoop takes it again and again. A daemon binds its port, shuts down
\* when asked and looks for its owner; it need not recover from a hang.
PullFairness ==
    /\ WF_allvars(MainStep)
    /\ \A w \in Worker : WF_allvars(Displaying /\ Work(w) /\ UNCHANGED dvars)
    /\ WF_allvars(Displaying /\ (\E t \in Thread : Draw(t)) /\ UNCHANGED dvars)
    /\ \A t \in Thread \ {"loop"} : SF_allvars(Displaying /\ Lock(t) /\ UNCHANGED dvars)
    /\ \A p \in Proc \ {Self} : WF_allvars((PullStep(p) \/ RunReturns(p)) /\ UNCHANGED pvars)
    /\ \A q \in Proc : WF_allvars((Bind(q) \/ Ends(q) \/ Orphan(q)) /\ UNCHANGED pvars)

PullSpec == PullInit /\ [][PullNext]_allvars /\ PullFairness

------------------------------------------------------------------------------
(* Properties                                                               *)

\* A pull that has begun returns, unless its process is killed, whatever the
\* daemons do: they may hang before or after they answer, crash, or lose
\* their port, and the terminal is drawn on all the while.
PullReturns == \A p \in Proc : pc[p] # "idle" ~> pc[p] \in {"returned", "dead"}
==============================================================================
