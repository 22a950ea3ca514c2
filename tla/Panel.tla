-------------------------------- MODULE Panel --------------------------------
(***************************************************************************)
(* Scheduler.Run and the terminal: one goroutine per object prints event   *)
(* lines (Logf), progressLoop redraws the panel at each tick and Run draws *)
(* it a last time, all under Progress.mu and one write at a time. The rest *)
(* of pull prints past the panel, with the log package.                    *)
(***************************************************************************)
EXTENDS Naturals, Sequences, FiniteSets

CONSTANTS
    Worker,     \* the goroutines of Run; also names the event lines of each
    MaxEvents   \* event lines a goroutine prints (bound)

Thread == Worker \cup {"loop", "run"}

ASSUME WorkerAssumption ==
    IsFiniteSet(Worker) /\ Worker \cap {"loop", "run", "free", "row", "plain"} = {}
ASSUME EventsAssumption == MaxEvents \in Nat

VARIABLES
    tpc,        \* where each goroutine is
    mu,         \* who holds Progress.mu
    screen,     \* the lines on the terminal
    drawn,      \* Progress.drawn: panel rows thought to be on screen
    erased,     \* rows clearLocked has erased so far, per goroutine
    frame,      \* rows still to print of the frame a goroutine renders
    logged,     \* event lines each goroutine has printed
    interrupted \* ctx was canceled

pvars == <<tpc, mu, screen, drawn, erased, frame, logged, interrupted>>

Holding == {"erase", "print"}

PanelTypeOK ==
    /\ tpc \in [Thread -> {"wait", "work", "select", "lock", "close", "returned",
                           "over", "done", "exited"} \cup Holding]
    /\ mu \in Thread \cup {"free"}
    /\ screen \in Seq(Worker \cup {"row", "plain"})
    /\ drawn \in 0..(Cardinality(Worker) + 1)
    /\ erased \in [Thread -> 0..drawn]
    /\ frame \in [Thread -> 0..(Cardinality(Worker) + 1)]
    /\ logged \in [Worker -> 0..MaxEvents]
    /\ interrupted \in BOOLEAN

PanelInit ==
    /\ tpc = [t \in Thread |-> IF t = "loop" THEN "select" ELSE "wait"]
    /\ mu = "free"
    /\ screen = <<>>
    /\ drawn = 0
    /\ erased = [t \in Thread |-> 0]
    /\ frame = [t \in Thread |-> 0]
    /\ logged = [w \in Worker |-> 0]
    /\ interrupted = FALSE

Moves(t, place) == tpc' = [tpc EXCEPT ![t] = place]

------------------------------------------------------------------------------
(* Progress *)

\* Slip: the lines are written without taking the mutex.
LockNothing(t) ==
    /\ tpc[t] = "lock"
    /\ mu' = t
    /\ Moves(t, "erase")
    /\ UNCHANGED <<screen, drawn, erased, frame, logged, interrupted>>

Lock(t) ==
    /\ tpc[t] = "lock" /\ mu = "free"
    /\ mu' = t
    /\ Moves(t, "erase")
    /\ UNCHANGED <<screen, drawn, erased, frame, logged, interrupted>>

\* clearLocked, row by row.
EraseRow(t) ==
    /\ tpc[t] = "erase" /\ erased[t] < drawn
    /\ screen' = SubSeq(screen, 1, Len(screen) - 1)
    /\ erased' = [erased EXCEPT ![t] = @ + 1]
    /\ UNCHANGED <<tpc, mu, drawn, frame, logged, interrupted>>

\* Slip: the rows are still counted as drawn after they were erased.
ClearedUncounted(t) ==
    /\ tpc[t] = "erase" /\ erased[t] = drawn
    /\ erased' = [erased EXCEPT ![t] = 0]
    /\ Moves(t, "print")
    /\ UNCHANGED <<mu, screen, drawn, frame, logged, interrupted>>

Cleared(t) ==
    /\ tpc[t] = "erase" /\ erased[t] = drawn
    /\ drawn' = 0
    /\ erased' = [erased EXCEPT ![t] = 0]
    /\ Moves(t, "print")
    /\ UNCHANGED <<mu, screen, frame, logged, interrupted>>

\* Logf: the event line goes where the panel was.
PrintEvent(w) ==
    /\ w \in Worker /\ tpc[w] = "print"
    /\ screen' = Append(screen, w)
    /\ logged' = [logged EXCEPT ![w] = @ + 1]
    /\ mu' = "free"
    /\ Moves(w, "work")
    /\ UNCHANGED <<drawn, erased, frame, interrupted>>

\* Render, row by row.
PrintRow(t) ==
    /\ t \in {"loop", "run"} /\ tpc[t] = "print" /\ frame[t] > 0
    /\ screen' = Append(screen, "row")
    /\ drawn' = drawn + 1
    /\ frame' = [frame EXCEPT ![t] = @ - 1]
    /\ UNCHANGED <<tpc, mu, erased, logged, interrupted>>

Rendered(t) ==
    /\ t \in {"loop", "run"} /\ tpc[t] = "print" /\ frame[t] = 0
    /\ mu' = "free"
    /\ Moves(t, IF t = "loop" THEN "select" ELSE "close")
    /\ UNCHANGED <<screen, drawn, erased, frame, logged, interrupted>>

------------------------------------------------------------------------------
(* Run *)

\* Objects that may have a row in the panel; waitTask's end takes an object out
\* of live although downloadObject goes on.
InFlight == {w \in Worker : tpc[w] \in {"work", "lock"} \cup Holding}

\* renderProgress: the snapshot is taken first, the frame drawn when mu is free.
Snapshot(t) ==
    /\ \E live \in SUBSET InFlight : frame' = [frame EXCEPT ![t] = Cardinality(live) + 1]
    /\ Moves(t, "lock")
    /\ UNCHANGED <<mu, screen, drawn, erased, logged, interrupted>>

\* A goroutine gets its place in sem, or ctx is canceled before.
Begin(w) ==
    /\ w \in Worker /\ tpc[w] = "wait"
    /\ \/ Moves(w, "work")
       \/ interrupted /\ Moves(w, "done")
    /\ UNCHANGED <<mu, screen, drawn, erased, frame, logged, interrupted>>

LogEvent(w) ==
    /\ w \in Worker /\ tpc[w] = "work" /\ logged[w] < MaxEvents
    /\ Moves(w, "lock")
    /\ UNCHANGED <<mu, screen, drawn, erased, frame, logged, interrupted>>

End(w) ==
    /\ w \in Worker /\ tpc[w] = "work"
    /\ Moves(w, "done")
    /\ UNCHANGED <<mu, screen, drawn, erased, frame, logged, interrupted>>

Tick == tpc["loop"] = "select" /\ Snapshot("loop")

\* wg.Wait is over; Run leaves a final panel.
FinalPanel == tpc["run"] = "wait" /\ (\A w \in Worker : tpc[w] = "done") /\ Snapshot("run")

\* The deferred close of done; a render of the loop may still be under way.
Close ==
    /\ tpc["run"] = "close"
    /\ Moves("run", "returned")
    /\ UNCHANGED <<mu, screen, drawn, erased, frame, logged, interrupted>>

\* progressLoop ends when ctx or done is closed, if select does not take a tick.
LoopEnds ==
    /\ tpc["loop"] = "select"
    /\ interrupted \/ tpc["run"] \in {"returned", "over"}
    /\ Moves("loop", "done")
    /\ UNCHANGED <<mu, screen, drawn, erased, frame, logged, interrupted>>

\* pull prints what became of the download, without the mutex.
PlainLine ==
    /\ tpc["run"] = "returned"
    /\ screen' = Append(screen, "plain")
    /\ Moves("run", "over")
    /\ UNCHANGED <<mu, drawn, erased, frame, logged, interrupted>>

Interrupt ==
    /\ ~interrupted /\ interrupted' = TRUE
    /\ UNCHANGED <<tpc, mu, screen, drawn, erased, frame, logged>>

\* The process ends and leaves the terminal to others; what was drawn does not matter any more.
Exit ==
    /\ tpc' = [t \in Thread |-> "exited"]
    /\ mu' = "free" /\ screen' = <<>> /\ drawn' = 0
    /\ erased' = [t \in Thread |-> 0]
    /\ frame' = [t \in Thread |-> 0]
    /\ logged' = [w \in Worker |-> 0]
    /\ interrupted' = FALSE

\* What whoever holds the mutex does.
Draw(t) == EraseRow(t) \/ Cleared(t) \/ PrintEvent(t) \/ PrintRow(t) \/ Rendered(t)

Work(w) == Begin(w) \/ LogEvent(w) \/ End(w)

RunStep == FinalPanel \/ Close \/ PlainLine

PanelStep ==
    \/ \E t \in Thread : Lock(t) \/ Draw(t)
    \/ \E w \in Worker : Work(w)
    \/ RunStep \/ Tick \/ LoopEnds

PanelNext == PanelStep \/ Interrupt \/ Exit

PanelSpec == PanelInit /\ [][PanelNext]_pvars

------------------------------------------------------------------------------
(* Properties                                                               *)

\* Event lines stay on the terminal: whatever goroutines interleave, and even
\* when a late render follows what pull prints after Run, only rows of the
\* panel and those later lines are erased.
EventsKept ==
    [][tpc'["run"] # "exited" =>
         \A i \in DOMAIN screen :
           screen[i] \in Worker => i \in DOMAIN screen' /\ screen'[i] = screen[i]]_pvars

\* Until pull prints past it, the panel is whole: while nobody is drawing, its
\* rows are the last lines of the terminal and Progress knows how many.
PanelWhole ==
    mu = "free" /\ tpc["run"] \notin {"over", "exited"} =>
        drawn <= Len(screen) /\
        \A i \in DOMAIN screen : screen[i] = "row" <=> i > Len(screen) - drawn
==============================================================================
