-------------------------------- MODULE Daemon -------------------------------
(***************************************************************************)
(* The aria2c process of a pull, from StartDaemon to Stop, and the lock of *)
(* the image directory it writes in. Several imgpull processes run, one    *)
(* pull each; any of them may be killed, and its daemon then outlives it   *)
(* until it notices. aria2c itself (external) is known by what StartDaemon *)
(* and Stop expect of it.                                                  *)
(***************************************************************************)
EXTENDS Naturals

CONSTANTS
    Proc,       \* imgpull processes; also names the daemon each one spawns
    Dir,        \* image directories
    DirOf,      \* DirOf[p]: the one p pulls into
    Port,       \* free TCP ports the system hands out
    MaxProbes,  \* GetVersion calls that fit into the 15 s of StartDaemon
    MaxKills,   \* how often an imgpull process may be killed (bound)
    NoProc      \* nobody holds the lock

ASSUME DirOfAssumption == DirOf \in [Proc -> Dir]
ASSUME NoProcAssumption == NoProc \notin Proc
ASSUME PortAssumption == Port # {}
ASSUME BoundsAssumption == MaxProbes \in Nat \ {0} /\ MaxKills \in Nat

VARIABLES
    pc,         \* where each pull is; "dead" means the process was killed
    lock,       \* the holder of each directory's flock
    daemon,     \* the state of the aria2c each process spawned
    port,       \* --rpc-listen-port of that daemon
    probes,     \* GetVersion calls made by StartDaemon
    cancelled,  \* ctx was canceled by a signal
    kills       \* imgpull processes killed so far

dvars == <<pc, lock, daemon, port, probes, cancelled, kills>>

Places == {"idle", "locked", "probe", "check", "download", "stop", "await",
           "unlock", "returned", "dead"}

\* "hung" does not answer; "ending" was asked to shut down; "killed" has got
\* SIGKILL and is not reaped yet.
Listening == {"serving", "hung", "ending"}
Live == Listening \cup {"starting"}

DaemonTypeOK ==
    /\ pc \in [Proc -> Places]
    /\ lock \in [Dir -> Proc \cup {NoProc}]
    /\ daemon \in [Proc -> Live \cup {"none", "killed", "gone"}]
    /\ port \in [Proc -> Port]
    /\ probes \in [Proc -> 0..MaxProbes]
    /\ cancelled \in [Proc -> BOOLEAN]
    /\ kills \in 0..MaxKills

DaemonInit ==
    /\ pc = [p \in Proc |-> "idle"]
    /\ lock = [d \in Dir |-> NoProc]
    /\ daemon = [p \in Proc |-> "none"]
    /\ port \in [Proc -> {CHOOSE n \in Port : TRUE}]
    /\ probes = [p \in Proc |-> 0]
    /\ cancelled = [p \in Proc |-> FALSE]
    /\ kills = 0

Goto(p, place) == pc' = [pc EXCEPT ![p] = place]

Becomes(p, state) == daemon' = [daemon EXCEPT ![p] = state]

------------------------------------------------------------------------------
(* The pull *)

\* plan.Build takes the directory's lock, or fails at once.
Build(p) ==
    /\ pc[p] = "idle"
    /\ \/ /\ lock[DirOf[p]] = NoProc
          /\ lock' = [lock EXCEPT ![DirOf[p]] = p]
          /\ Goto(p, "locked")
       \/ /\ lock[DirOf[p]] # NoProc
          /\ Goto(p, "returned")
          /\ UNCHANGED lock
    /\ UNCHANGED <<daemon, port, probes, cancelled, kills>>

\* Nothing is pending; or the daemon of --aria2-rpc does not answer; or no aria2c can be started.
NoDaemon(p) ==
    /\ pc[p] = "locked"
    /\ Goto(p, "unlock")
    /\ UNCHANGED <<lock, daemon, port, probes, cancelled, kills>>

\* With --aria2-rpc no daemon is spawned.
ConnectExternal(p) ==
    /\ pc[p] = "locked"
    /\ Goto(p, "download")
    /\ UNCHANGED <<lock, daemon, port, probes, cancelled, kills>>

\* freeTCPPort closes its listener before aria2c is started, so another daemon may take the port.
Spawn(p) ==
    /\ pc[p] = "locked"
    /\ \E n \in Port :
         /\ \A q \in Proc : daemon[q] \in Listening => port[q] # n
         /\ port' = [port EXCEPT ![p] = n]
    /\ Becomes(p, "starting")
    /\ Goto(p, "probe")
    /\ UNCHANGED <<lock, probes, cancelled, kills>>

\* Slip: aria2c is started without --rpc-secret.
AcceptsAnyone(p, q) == daemon[q] = "serving" /\ port[q] = port[p]

\* Whether a call of p is carried out by the daemon of q: it listens on that port and p knows its secret.
Accepts(p, q) == daemon[q] = "serving" /\ port[q] = port[p] /\ q = p

\* GetVersion, within a second.
Probe(p) ==
    /\ pc[p] = "probe"
    /\ Goto(p, IF \E q \in Proc : Accepts(p, q) THEN "download" ELSE "check")
    /\ probes' = [probes EXCEPT ![p] = @ + 1]
    /\ UNCHANGED <<lock, daemon, port, cancelled, kills>>

\* Slip: StartDaemon waits for the daemon without a deadline.
CheckUntimed(p) ==
    /\ pc[p] = "check"
    /\ \/ cancelled[p] /\ Goto(p, "stop")
       \/ daemon[p] = "gone" /\ Goto(p, "unlock")
       \/ ~cancelled[p] /\ Goto(p, "probe")
    /\ UNCHANGED <<lock, daemon, port, probes, cancelled, kills>>

\* Slip: the loop is left at the deadline without stopping the daemon.
CheckAbandons(p) ==
    /\ pc[p] = "check"
    /\ \/ cancelled[p] /\ Goto(p, "stop")
       \/ daemon[p] = "gone" /\ Goto(p, "unlock")
       \/ ~cancelled[p] /\ probes[p] < MaxProbes /\ Goto(p, "probe")
       \/ ~cancelled[p] /\ Goto(p, "unlock")
    /\ UNCHANGED <<lock, daemon, port, probes, cancelled, kills>>

\* No answer: canceled; or exited, as the reader of its stderr tells, perhaps
\* late; or again, as long as 15 s have not passed; or too late.
Check(p) ==
    /\ pc[p] = "check"
    /\ \/ cancelled[p] /\ Goto(p, "stop")
       \/ daemon[p] = "gone" /\ Goto(p, "unlock")
       \/ ~cancelled[p] /\ probes[p] < MaxProbes /\ Goto(p, "probe")
       \/ ~cancelled[p] /\ Goto(p, "stop")
    /\ UNCHANGED <<lock, daemon, port, probes, cancelled, kills>>

\* Run is over, and so is what pull does after it; the deferred calls follow,
\* Stop among them if there is a daemon.
RunReturns(p) ==
    /\ pc[p] = "download"
    /\ Goto(p, IF daemon[p] = "none" THEN "unlock" ELSE "stop")
    /\ UNCHANGED <<lock, daemon, port, probes, cancelled, kills>>

\* Slip: Release is deferred after Stop, and runs before it.
ShutdownUnlocked(p) ==
    /\ pc[p] = "stop"
    /\ daemon' = [q \in Proc |-> IF Accepts(p, q) THEN "ending" ELSE daemon[q]]
    /\ lock' = [d \in Dir |-> IF lock[d] = p THEN NoProc ELSE lock[d]]
    /\ Goto(p, "await")
    /\ UNCHANGED <<port, probes, cancelled, kills>>

\* Stop asks for a shutdown; whether the call is carried out or fails, it goes on.
Shutdown(p) ==
    /\ pc[p] = "stop"
    /\ daemon' = [q \in Proc |-> IF Accepts(p, q) THEN "ending" ELSE daemon[q]]
    /\ Goto(p, "await")
    /\ UNCHANGED <<lock, port, probes, cancelled, kills>>

\* Slip: Stop waits for the exit, however long it takes.
AwaitForever(p) ==
    /\ pc[p] = "await" /\ daemon[p] = "gone"
    /\ Goto(p, "unlock")
    /\ UNCHANGED <<lock, daemon, port, probes, cancelled, kills>>

\* The daemon exits, or after 5 s it is killed; Stop does not wait for the kill to take effect.
Await(p) ==
    /\ pc[p] = "await"
    /\ \/ daemon[p] = "gone" /\ UNCHANGED daemon
       \/ Becomes(p, IF daemon[p] = "gone" THEN "gone" ELSE "killed")
    /\ Goto(p, "unlock")
    /\ UNCHANGED <<lock, port, probes, cancelled, kills>>

\* The process ends, and with it its locals and its hold on the lock.
Leaves(p, place) ==
    /\ lock' = [d \in Dir |-> IF lock[d] = p THEN NoProc ELSE lock[d]]
    /\ Goto(p, place)
    /\ probes' = [probes EXCEPT ![p] = 0]
    /\ cancelled' = [cancelled EXCEPT ![p] = FALSE]
    /\ UNCHANGED <<daemon, port>>

Release(p) == pc[p] = "unlock" /\ Leaves(p, "returned") /\ UNCHANGED kills

\* SIGINT or SIGTERM; nothing looks at ctx again once Stop has begun.
Cancel(p) ==
    /\ pc[p] \in {"locked", "probe", "check", "download"} /\ ~cancelled[p]
    /\ cancelled' = [cancelled EXCEPT ![p] = TRUE]
    /\ UNCHANGED <<pc, lock, daemon, port, probes, kills>>

\* The process is killed; the kernel drops its flock, aria2c does not inherit it.
Killed(p) ==
    /\ pc[p] \notin {"idle", "returned", "dead"} /\ kills < MaxKills
    /\ kills' = kills + 1
    /\ Leaves(p, "dead")

------------------------------------------------------------------------------
(* aria2c (external) *)

Own(q, from, to) ==
    /\ daemon[q] \in from
    /\ Becomes(q, to)
    /\ UNCHANGED <<pc, lock, port, probes, cancelled, kills>>

PortTaken(q) == \E r \in Proc \ {q} : daemon[r] \in Listening /\ port[r] = port[q]

\* It listens on its port, or exits when another process does.
Bind(q) == Own(q, {"starting"}, IF PortTaken(q) THEN "gone" ELSE "serving")

Hang(q) == Own(q, {"serving"}, "hung")

Recover(q) == Own(q, {"hung"}, "serving")

Crash(q) == Own(q, Live, "gone")

\* It has shut down, or the kill has taken effect.
Ends(q) == Own(q, {"ending", "killed"}, "gone")

\* Slip: --stop-with-process names a process that lives on.
OrphanUnwatched(q) == FALSE /\ UNCHANGED dvars

\* --stop-with-process: it shuts down when the imgpull that spawned it is gone.
Orphan(q) == pc[q] \in {"returned", "dead"} /\ Own(q, {"serving"}, "ending")

------------------------------------------------------------------------------

\* What a pull does by itself, but for the return of Run.
PullStep(p) ==
    \/ Build(p) \/ NoDaemon(p) \/ ConnectExternal(p) \/ Spawn(p) \/ Probe(p)
    \/ Check(p) \/ Shutdown(p) \/ Await(p) \/ Release(p)

DaemonStep(q) ==
    \/ Bind(q) \/ Hang(q) \/ Recover(q) \/ Crash(q) \/ Ends(q) \/ Orphan(q)

DaemonNext ==
    \E p \in Proc :
        PullStep(p) \/ RunReturns(p) \/ Cancel(p) \/ Killed(p) \/ DaemonStep(p)

DaemonSpec == DaemonInit /\ [][DaemonNext]_dvars

------------------------------------------------------------------------------
(* Properties                                                               *)

\* Two daemons run in one image directory only when the imgpull of one of
\* them was killed: Stop comes before Release, so the lock covers the daemon.
\* (One that got SIGKILL is not counted: Release does not wait for its end.)
LoneWriter ==
    \A p, q \in Proc :
        /\ p # q /\ DirOf[p] = DirOf[q]
        /\ daemon[p] \in Live /\ daemon[q] \in Live
        => pc[p] = "dead" \/ pc[q] = "dead"

\* However StartDaemon and Run end, with the daemon hung, not up yet or not
\* reachable, a pull that returns leaves no daemon at work.
NoneLeft == \A p \in Proc : pc[p] = "returned" => daemon[p] \notin Live

\* When two daemons race for a port, no pull downloads through the other's,
\* and none is shut down by a Stop that is not its owner's.
OwnDaemonOnly ==
    [][\A p \in Proc :
        /\ pc[p] = "probe" /\ pc'[p] = "download" => daemon[p] = "serving"
        /\ daemon[p] = "serving" /\ daemon'[p] = "ending"
             => pc[p] \in {"stop", "returned", "dead"}]_dvars

\* The daemon of a killed imgpull ends too, unless it hangs for good.
OrphansEnd ==
    \A p \in Proc : pc[p] \in {"returned", "dead"} ~> daemon[p] \in {"none", "gone", "hung"}
==============================================================================
