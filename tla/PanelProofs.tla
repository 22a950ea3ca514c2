----------------------------- MODULE PanelProofs -----------------------------
(***************************************************************************)
(* For any number of goroutines and event lines: the panel's rows are the  *)
(* last lines of the terminal as long as nothing is printed past them, and *)
(* no event line is ever erased.                                           *)
(***************************************************************************)
EXTENDS Panel, FiniteSetTheorems, SequenceTheorems, TLAPS

MaxRows == Cardinality(Worker) + 1

\* Rows of the panel that are on screen: while they are erased, drawn counts too many.
Rows == IF mu = "free" THEN drawn ELSE drawn - erased[mu]

MutexInv ==
    /\ \A t \in Thread : tpc[t] \in Holding <=> mu = t
    /\ \A t \in Thread : erased[t] > 0 => tpc[t] = "erase"

\* What is printed under the mutex fits below what is drawn.
FrameInv ==
    /\ \A t \in Thread : tpc[t] = "print" => drawn + frame[t] <= MaxRows
    /\ \A w \in Worker : frame[w] = 0
    /\ \A w \in Worker : tpc[w] = "print" => drawn = 0

LoggedInv == \A w \in Worker : tpc[w] \in {"lock"} \cup Holding => logged[w] < MaxEvents

\* The lines that Render or Logf would erase hold no event.
TailInv ==
    /\ Rows <= Len(screen)
    /\ \A i \in DOMAIN screen : i > Len(screen) - Rows => screen[i] \notin Worker

WholeInv ==
    tpc["run"] # "over" =>
        \A i \in DOMAIN screen : screen[i] = "row" <=> i > Len(screen) - Rows

PInv == PanelTypeOK /\ MutexInv /\ FrameInv /\ LoggedInv /\ TailInv /\ WholeInv

LEMMA RowCount == Cardinality(Worker) \in Nat /\ MaxRows \in Nat
BY WorkerAssumption, FS_CardinalityType DEF MaxRows

LEMMA Threads ==
    /\ Worker \subseteq Thread /\ "loop" \in Thread /\ "run" \in Thread
    /\ "free" \notin Thread /\ "loop" \notin Worker /\ "run" \notin Worker
    /\ "row" \notin Worker /\ "plain" \notin Worker
BY WorkerAssumption DEF Thread

LEMMA RowsType == PanelTypeOK => Rows \in Nat /\ Rows <= drawn /\ drawn \in Nat
BY RowCount DEF PanelTypeOK, Rows

LEMMA InitPInv == PanelInit => PInv
<1> SUFFICES ASSUME PanelInit PROVE PInv
    OBVIOUS
<1>1. PanelTypeOK
    <2>1. erased \in [Thread -> 0..0] /\ frame \in [Thread -> 0..0] /\ drawn = 0
        BY DEF PanelInit
    <2>2. screen \in Seq(Worker \cup {"row", "plain"})
        BY DEF PanelInit
    <2>3. \A n \in 0..0 : n \in 0..(Cardinality(Worker) + 1)
        BY RowCount
    <2>4. frame \in [Thread -> 0..(Cardinality(Worker) + 1)]
        BY <2>1, <2>3
    <2>5. drawn \in 0..(Cardinality(Worker) + 1) /\ erased \in [Thread -> 0..drawn]
        BY <2>1, <2>3
    <2>6. logged \in [Worker -> 0..MaxEvents]
        BY EventsAssumption DEF PanelInit
    <2>7. tpc \in [Thread -> {"wait", "select", "exited"}] /\ mu = "free" /\ interrupted = FALSE
        BY DEF PanelInit
    <2> QED
        BY <2>2, <2>4, <2>5, <2>6, <2>7 DEF PanelTypeOK
<1>2. MutexInv /\ FrameInv /\ LoggedInv
    BY RowCount, Threads DEF PanelInit, MutexInv, FrameInv, LoggedInv, Holding
<1>3. TailInv /\ WholeInv
    BY DEF PanelInit, TailInv, WholeInv, Rows
<1> QED
    BY <1>1, <1>2, <1>3 DEF PInv

\* Steps of a goroutine outside the mutex.
LEMMA OutsideInv ==
    ASSUME PInv, NEW t \in Thread, NEW place, Moves(t, place), PanelTypeOK',
           tpc[t] \notin Holding, place \notin Holding,
           UNCHANGED <<mu, screen, drawn, erased, logged>>,
           \A u \in Thread : u # t => frame'[u] = frame[u],
           t \in Worker => frame'[t] = 0 /\ (place = "lock" => logged[t] < MaxEvents),
           place # "over", tpc[t] # "over"
    PROVE  PInv'
<1>1. \A u \in Thread \ {t} : tpc'[u] = tpc[u]
    BY DEF Moves, PInv, PanelTypeOK
<1>2. tpc'[t] = place
    BY DEF Moves, PInv, PanelTypeOK
<1>3. MutexInv'
    BY <1>1, <1>2 DEF PInv, MutexInv, Holding
<1>4. FrameInv'
    BY <1>1, <1>2, Threads DEF PInv, FrameInv, Holding
<1>5. LoggedInv'
    BY <1>1, <1>2, Threads DEF PInv, LoggedInv, Holding
<1>6. Rows' = Rows
    BY DEF Rows
<1>7. TailInv'
    BY <1>6 DEF PInv, TailInv
<1>8. WholeInv'
    <2>1. tpc'["run"] # "over" => tpc["run"] # "over"
        BY <1>1, <1>2, Threads
    <2> QED
        BY <1>6, <2>1 DEF PInv, WholeInv
<1> QED
    BY <1>3, <1>4, <1>5, <1>7, <1>8 DEF PInv

LEMMA LiveCount == \A live \in SUBSET InFlight : Cardinality(live) + 1 \in 0..MaxRows
<1> SUFFICES ASSUME NEW live \in SUBSET InFlight PROVE Cardinality(live) + 1 \in 0..MaxRows
    OBVIOUS
<1>1. live \subseteq Worker
    BY DEF InFlight
<1>2. IsFiniteSet(live) /\ Cardinality(live) <= Cardinality(Worker)
    BY <1>1, WorkerAssumption, FS_Subset
<1>3. Cardinality(live) \in Nat
    BY <1>2, FS_CardinalityType
<1> QED
    BY <1>2, <1>3, RowCount DEF MaxRows

LEMMA SnapshotInv ==
    ASSUME PInv, NEW t \in {"loop", "run"}, tpc[t] \in {"select", "wait"}, Snapshot(t)
    PROVE  PInv'
<1>1. PanelTypeOK'
    BY LiveCount, Threads DEF Snapshot, Moves, PInv, PanelTypeOK, MaxRows
<1>2. \A u \in Thread : u # t => frame'[u] = frame[u]
    BY DEF Snapshot, PInv, PanelTypeOK
<1> QED
    BY <1>1, <1>2, Threads, OutsideInv DEF Snapshot, Holding

LEMMA GoroutineInv == ASSUME PInv, NEW w \in Worker, Work(w) PROVE PInv'
<1> w \in Thread /\ frame[w] = 0
    BY Threads DEF PInv, FrameInv
<1>1. PanelTypeOK'
    BY Threads DEF Work, Begin, LogEvent, End, Moves, PInv, PanelTypeOK
<1>2. CASE Begin(w)
    <2>1. CASE Moves(w, "work")
        BY <1>1, <1>2, <2>1, OutsideInv DEF Begin, Holding
    <2>2. CASE Moves(w, "done")
        BY <1>1, <1>2, <2>2, OutsideInv DEF Begin, Holding
    <2> QED
        BY <1>2, <2>1, <2>2 DEF Begin
<1>3. CASE LogEvent(w)
    BY <1>1, <1>3, OutsideInv DEF LogEvent, Holding
<1>4. CASE End(w)
    BY <1>1, <1>4, OutsideInv DEF End, Holding
<1> QED
    BY <1>2, <1>3, <1>4 DEF Work

LEMMA LoopEndsInv == ASSUME PInv, LoopEnds PROVE PInv'
<1>1. PanelTypeOK'
    BY Threads DEF LoopEnds, Moves, PInv, PanelTypeOK
<1> QED
    BY <1>1, Threads, OutsideInv DEF LoopEnds, Holding

LEMMA CloseInv == ASSUME PInv, Close PROVE PInv'
<1>1. PanelTypeOK'
    BY Threads DEF Close, Moves, PInv, PanelTypeOK
<1> QED
    BY <1>1, Threads, OutsideInv DEF Close, Holding

\* A line is added below: the lines that would be erased move down by one.
LEMMA PlainLineInv == ASSUME PInv, PlainLine PROVE PInv'
<1> DEFINE L == Len(screen)
<1>1. PanelTypeOK'
    BY Threads DEF PlainLine, Moves, PInv, PanelTypeOK
<1>2. \A u \in Thread \ {"run"} : tpc'[u] = tpc[u]
    BY DEF PlainLine, Moves, PInv, PanelTypeOK
<1>3. tpc["run"] = "returned" /\ tpc'["run"] = "over"
    BY Threads DEF PlainLine, Moves, PInv, PanelTypeOK
<1>4. MutexInv' /\ FrameInv' /\ LoggedInv'
    BY <1>2, <1>3, Threads DEF PlainLine, PInv, MutexInv, FrameInv, LoggedInv, Holding
<1>5. Rows' = Rows /\ Rows \in Nat
    BY RowsType DEF PlainLine, Rows, PInv
<1>6. Len(screen') = L + 1 /\ L \in Nat /\ screen'[L + 1] = "plain"
      /\ \A i \in 1..L : screen'[i] = screen[i]
    BY DEF PlainLine, PInv, PanelTypeOK
<1>7. DOMAIN screen' = 1..(L + 1) /\ DOMAIN screen = 1..L
    BY <1>1, <1>6 DEF PInv, PanelTypeOK
<1>8. TailInv'
    BY <1>5, <1>6, <1>7, Threads DEF PInv, TailInv
<1>9. WholeInv'
    BY <1>3 DEF WholeInv
<1> QED
    BY <1>1, <1>4, <1>8, <1>9 DEF PInv

LEMMA TakeMutexInv == ASSUME PInv, NEW t \in Thread, Lock(t) PROVE PInv'
<1>1. PanelTypeOK'
    BY DEF Lock, Moves, PInv, PanelTypeOK, Holding
<1>2. \A u \in Thread \ {t} : tpc'[u] = tpc[u]
    BY DEF Lock, Moves, PInv, PanelTypeOK
<1>3. tpc[t] = "lock" /\ tpc'[t] = "erase" /\ mu' = t /\ erased[t] = 0
    <2>1. ~(erased[t] > 0)
        BY DEF Lock, PInv, MutexInv
    <2> QED
        BY <2>1, RowCount DEF Lock, Moves, PInv, PanelTypeOK
<1>4. MutexInv'
    BY <1>2, <1>3, Threads DEF Lock, PInv, MutexInv, Holding
<1>5. FrameInv'
    BY <1>2, <1>3, Threads DEF Lock, PInv, FrameInv
<1>6. LoggedInv'
    BY <1>2, <1>3, Threads DEF Lock, PInv, LoggedInv, Holding
<1>7. Rows' = Rows
    BY <1>3, Threads, RowsType DEF Lock, Rows, PInv, PanelTypeOK
<1>8. TailInv'
    BY <1>7 DEF Lock, PInv, TailInv
<1>9. WholeInv'
    <2>1. tpc'["run"] # "over" => tpc["run"] # "over"
        BY <1>2, <1>3, Threads
    <2> QED
        BY <1>7, <2>1 DEF Lock, PInv, WholeInv
<1> QED
    BY <1>1, <1>4, <1>5, <1>6, <1>8, <1>9 DEF PInv

LEMMA ShorterByOne ==
    ASSUME NEW S, NEW s \in Seq(S), Len(s) >= 1
    PROVE  LET r == SubSeq(s, 1, Len(s) - 1) IN
             /\ r \in Seq(S) /\ Len(r) = Len(s) - 1 /\ DOMAIN r = 1..(Len(s) - 1)
             /\ \A i \in 1..(Len(s) - 1) : r[i] = s[i]
<1> DEFINE n == Len(s) - 1
           r == SubSeq(s, 1, n)
<1>1. n \in Nat /\ n \in Int /\ 1 \in Int /\ \A i \in 1..n : s[i] \in S
    OBVIOUS
<1>2. /\ r \in Seq(S) /\ Len(r) = IF 1 <= n THEN n - 1 + 1 ELSE 0
      /\ \A i \in 1..(n - 1 + 1) : r[i] = s[1 + i - 1]
    BY <1>1, SubSeqProperties
<1>3. Len(r) = n
    <2> HIDE DEF r, n
    <2>1. CASE 1 <= n
        BY <1>1, <1>2, <2>1
    <2>2. CASE ~(1 <= n)
        BY <1>1, <1>2, <2>2
    <2> QED
        BY <2>1, <2>2
<1>4. \A i \in 1..n : r[i] = s[i]
    BY <1>1, <1>2
<1> QED
    BY <1>2, <1>3, <1>4

LEMMA EraseRowInv == ASSUME PInv, NEW t \in Thread, EraseRow(t) PROVE PInv'
<1> DEFINE L == Len(screen)
<1>1. mu = t /\ mu # "free" /\ mu' = mu /\ drawn' = drawn /\ drawn \in Nat
    BY Threads, RowsType DEF EraseRow, PInv, MutexInv, Holding
<1>2. erased'[t] = erased[t] + 1 /\ erased[t] \in Nat /\ erased[t] < drawn
      /\ \A u \in Thread \ {t} : erased'[u] = erased[u]
    BY RowsType DEF EraseRow, PInv, PanelTypeOK
<1>3. Rows = drawn - erased[t] /\ Rows' = drawn - erased[t] - 1
    BY <1>1, <1>2 DEF Rows
<1>4. L \in Nat /\ 1 <= Rows /\ Rows <= L /\ Rows \in Int
    BY <1>1, <1>2, <1>3 DEF PInv, TailInv, PanelTypeOK
<1>5. screen' = SubSeq(screen, 1, L - 1) /\ screen \in Seq(Worker \cup {"row", "plain"})
    BY DEF EraseRow, PInv, PanelTypeOK
<1>6. Len(screen') = L - 1 /\ screen' \in Seq(Worker \cup {"row", "plain"})
      /\ \A i \in 1..(L - 1) : screen'[i] = screen[i]
    <2>1. L >= 1
        BY <1>4
    <2> QED
        BY <1>5, <2>1, ShorterByOne
<1>7. DOMAIN screen' = 1..(L - 1) /\ DOMAIN screen = 1..L
    BY <1>5, <1>6
<1>8. PanelTypeOK'
    BY <1>1, <1>2, <1>6 DEF EraseRow, PInv, PanelTypeOK
<1>9. MutexInv'
    BY <1>2 DEF EraseRow, PInv, MutexInv
<1>10. FrameInv' /\ LoggedInv'
    BY DEF EraseRow, PInv, FrameInv, LoggedInv
<1>11. Len(screen') - Rows' = L - Rows /\ Rows' <= Len(screen')
    BY <1>1, <1>2, <1>3, <1>4, <1>6
<1>12. TailInv'
    <2>1. \A i \in 1..L : i > L - Rows => screen[i] \notin Worker
        BY <1>7 DEF PInv, TailInv
    <2> QED
        BY <1>4, <1>6, <1>7, <1>11, <2>1 DEF TailInv
<1>13. WholeInv'
    <2>1. tpc' = tpc
        BY DEF EraseRow
    <2>2. tpc["run"] # "over" => \A i \in 1..L : screen[i] = "row" <=> i > L - Rows
        BY <1>7 DEF PInv, WholeInv
    <2> QED
        BY <1>4, <1>6, <1>7, <1>11, <2>1, <2>2 DEF WholeInv
<1> QED
    BY <1>8, <1>9, <1>10, <1>12, <1>13 DEF PInv

LEMMA ClearedInv == ASSUME PInv, NEW t \in Thread, Cleared(t) PROVE PInv'
<1>1. mu = t /\ mu # "free" /\ mu' = mu /\ drawn' = 0 /\ erased[t] = drawn
    BY Threads DEF Cleared, PInv, MutexInv, Holding
<1>2. /\ erased'[t] = 0 /\ tpc'[t] = "print" /\ tpc[t] = "erase"
      /\ \A u \in Thread \ {t} : erased'[u] = erased[u] /\ tpc'[u] = tpc[u]
    BY DEF Cleared, Moves, PInv, PanelTypeOK
<1>3. \A u \in Thread \ {t} : erased[u] = 0
    BY <1>1, RowsType DEF PInv, MutexInv, PanelTypeOK, Holding
<1>4. PanelTypeOK'
    <2>1. erased' = [erased EXCEPT ![t] = 0]
        BY DEF Cleared
    <2>2. erased' \in [Thread -> 0..0]
        BY <1>2, <1>3, <2>1 DEF PInv, PanelTypeOK
    <2> QED
        BY <1>1, <2>2, RowCount DEF Cleared, Moves, PInv, PanelTypeOK, Holding, MaxRows
<1>5. MutexInv'
    BY <1>1, <1>2, <1>3 DEF PInv, MutexInv, Holding
<1>6. FrameInv'
    <2>1. frame' = frame /\ \A u \in Thread : frame[u] \in 0..MaxRows
        BY DEF Cleared, PInv, PanelTypeOK, MaxRows
    <2> QED
        BY <1>1, <2>1, RowCount DEF PInv, FrameInv
<1>7. LoggedInv'
    BY <1>2, Threads DEF Cleared, PInv, LoggedInv, Holding
<1>8. Rows = 0 /\ Rows' = 0
    BY <1>1, <1>2, RowsType DEF Rows, PInv, PanelTypeOK
<1>9. TailInv'
    BY <1>8 DEF Cleared, PInv, TailInv
<1>10. WholeInv'
    <2>1. tpc'["run"] # "over" => tpc["run"] # "over"
        BY <1>2, Threads
    <2> QED
        BY <1>8, <2>1 DEF Cleared, PInv, WholeInv
<1> QED
    BY <1>4, <1>5, <1>6, <1>7, <1>9, <1>10 DEF PInv

\* An event line is printed where nothing is drawn.
LEMMA PrintEventInv == ASSUME PInv, NEW w \in Worker, PrintEvent(w) PROVE PInv'
<1> DEFINE L == Len(screen)
<1>1. w \in Thread /\ tpc[w] = "print" /\ mu = w /\ mu # "free" /\ mu' = "free"
    BY Threads DEF PrintEvent, PInv, MutexInv, Holding
<1>2. tpc'[w] = "work" /\ \A u \in Thread \ {w} : tpc'[u] = tpc[u]
    BY <1>1 DEF PrintEvent, Moves, PInv, PanelTypeOK
<1>3. drawn = 0 /\ drawn' = 0 /\ erased[w] = 0
    BY <1>1, RowsType DEF PrintEvent, PInv, FrameInv, PanelTypeOK
<1>4. Rows = 0 /\ Rows' = 0
    BY <1>1, <1>3 DEF Rows
<1>5. /\ Len(screen') = L + 1 /\ L \in Nat /\ screen'[L + 1] = w
      /\ \A i \in 1..L : screen'[i] = screen[i]
      /\ screen' \in Seq(Worker \cup {"row", "plain"})
    BY DEF PrintEvent, PInv, PanelTypeOK
<1>6. DOMAIN screen' = 1..(L + 1) /\ DOMAIN screen = 1..L
    BY <1>5 DEF PInv, PanelTypeOK
<1>7. logged[w] < MaxEvents
    BY <1>1 DEF PInv, LoggedInv, Holding
<1>8. PanelTypeOK'
    <2>1. logged' \in [Worker -> 0..MaxEvents]
        BY <1>7, EventsAssumption DEF PrintEvent, PInv, PanelTypeOK
    <2> QED
        BY <1>1, <1>5, <2>1 DEF PrintEvent, Moves, PInv, PanelTypeOK
<1>9. MutexInv'
    <2>1. \A u \in Thread : tpc'[u] \notin Holding
        BY <1>1, <1>2 DEF PInv, MutexInv, Holding
    <2>2. \A u \in Thread : ~(erased'[u] > 0)
        BY <1>1, <1>3 DEF PrintEvent, PInv, MutexInv, Holding
    <2> QED
        BY <1>1, <2>1, <2>2, Threads DEF MutexInv
<1>10. FrameInv'
    BY <1>2, <1>3, Threads DEF PrintEvent, PInv, FrameInv
<1>11. LoggedInv'
    <2>1. \A u \in Worker \ {w} : logged'[u] = logged[u]
        BY DEF PrintEvent, PInv, PanelTypeOK
    <2> QED
        BY <1>2, <2>1, Threads DEF PInv, LoggedInv, Holding
<1>12. TailInv'
    BY <1>4, <1>5, <1>6 DEF TailInv
<1>13. WholeInv'
    <2>1. tpc'["run"] # "over" => tpc["run"] # "over"
        BY <1>2, Threads
    <2> QED
        BY <1>4, <1>5, <1>6, <2>1, Threads DEF PInv, WholeInv
<1> QED
    BY <1>8, <1>9, <1>10, <1>11, <1>12, <1>13 DEF PInv

LEMMA PrintRowInv == ASSUME PInv, NEW t \in Thread, PrintRow(t) PROVE PInv'
<1> DEFINE L == Len(screen)
<1>1. tpc[t] = "print" /\ mu = t /\ mu # "free" /\ mu' = mu /\ tpc' = tpc /\ t \notin Worker
    BY Threads DEF PrintRow, PInv, MutexInv, Holding
<1>2. drawn' = drawn + 1 /\ drawn \in Nat /\ erased[t] = 0 /\ erased' = erased
    BY <1>1, RowsType DEF PrintRow, PInv, MutexInv, PanelTypeOK
<1>3. Rows = drawn /\ Rows' = drawn + 1
    BY <1>1, <1>2 DEF Rows
<1>4. /\ Len(screen') = L + 1 /\ L \in Nat /\ screen'[L + 1] = "row"
      /\ \A i \in 1..L : screen'[i] = screen[i]
      /\ screen' \in Seq(Worker \cup {"row", "plain"})
    BY DEF PrintRow, PInv, PanelTypeOK
<1>5. DOMAIN screen' = 1..(L + 1) /\ DOMAIN screen = 1..L
    BY <1>4 DEF PInv, PanelTypeOK
<1>6. /\ frame[t] \in 1..MaxRows /\ frame'[t] = frame[t] - 1
      /\ \A u \in Thread \ {t} : frame'[u] = frame[u]
    BY RowCount DEF PrintRow, PInv, PanelTypeOK, MaxRows
<1>7. drawn + frame[t] <= MaxRows
    BY <1>1 DEF PInv, FrameInv
<1>8. PanelTypeOK'
    <2>1. drawn' \in 0..MaxRows
        BY <1>2, <1>6, <1>7, RowCount
    <2>2. erased' \in [Thread -> 0..drawn']
        BY <1>2 DEF PInv, PanelTypeOK
    <2>3. frame' \in [Thread -> 0..MaxRows]
        BY <1>6, RowCount DEF PrintRow, PInv, PanelTypeOK, MaxRows
    <2> QED
        BY <1>1, <1>4, <2>1, <2>2, <2>3 DEF PrintRow, PInv, PanelTypeOK, MaxRows
<1>9. MutexInv'
    BY <1>1, <1>2 DEF PInv, MutexInv
<1>10. \A u \in Thread \ {t} : tpc[u] # "print"
    BY <1>1 DEF PInv, MutexInv, Holding
<1>11. FrameInv'
    BY <1>1, <1>2, <1>6, <1>7, <1>10, RowCount, Threads DEF PInv, FrameInv
<1>12. LoggedInv'
    BY DEF PrintRow, PInv, LoggedInv
<1>13. TailInv'
    BY <1>2, <1>3, <1>4, <1>5, Threads DEF PInv, TailInv
<1>14. WholeInv'
    BY <1>1, <1>2, <1>3, <1>4, <1>5 DEF PInv, WholeInv
<1> QED
    BY <1>8, <1>9, <1>11, <1>12, <1>13, <1>14 DEF PInv

LEMMA RenderedInv == ASSUME PInv, NEW t \in Thread, Rendered(t) PROVE PInv'
<1>1. tpc[t] = "print" /\ mu = t /\ mu # "free" /\ mu' = "free" /\ t \notin Worker
    BY Threads DEF Rendered, PInv, MutexInv, Holding
<1>2. /\ tpc'[t] \in {"select", "close"}
      /\ \A u \in Thread \ {t} : tpc'[u] = tpc[u]
    BY DEF Rendered, Moves, PInv, PanelTypeOK
<1>3. erased[t] = 0
    <2>1. ~(erased[t] > 0)
        BY <1>1 DEF PInv, MutexInv
    <2> QED
        BY <2>1, RowsType DEF PInv, PanelTypeOK
<1>4. PanelTypeOK'
    BY DEF Rendered, Moves, PInv, PanelTypeOK
<1>5. MutexInv'
    BY <1>1, <1>2, <1>3, Threads DEF Rendered, PInv, MutexInv, Holding
<1>6. FrameInv' /\ LoggedInv'
    BY <1>1, <1>2, Threads DEF Rendered, PInv, FrameInv, LoggedInv, Holding
<1>7. Rows' = Rows
    BY <1>1, <1>3, RowsType DEF Rendered, Rows, PInv
<1>8. TailInv'
    BY <1>7 DEF Rendered, PInv, TailInv
<1>9. WholeInv'
    <2>1. tpc'["run"] # "over" => tpc["run"] # "over"
        BY <1>1, <1>2, Threads
    <2> QED
        BY <1>7, <2>1 DEF Rendered, PInv, WholeInv
<1> QED
    BY <1>4, <1>5, <1>6, <1>8, <1>9 DEF PInv

LEMMA ExitInv == ASSUME PInv, Exit PROVE PInv'
<1>1. PanelTypeOK'
    <2>1. erased' \in [Thread -> 0..0] /\ frame' \in [Thread -> 0..0] /\ drawn' = 0
        BY DEF Exit
    <2>2. screen' \in Seq(Worker \cup {"row", "plain"})
        BY DEF Exit
    <2>3. \A n \in 0..0 : n \in 0..(Cardinality(Worker) + 1)
        BY RowCount
    <2>4. frame' \in [Thread -> 0..(Cardinality(Worker) + 1)]
        BY <2>1, <2>3
    <2>5. drawn' \in 0..(Cardinality(Worker) + 1) /\ erased' \in [Thread -> 0..drawn']
        BY <2>1, <2>3
    <2>6. logged' \in [Worker -> 0..MaxEvents]
        BY EventsAssumption DEF Exit
    <2>7. tpc' \in [Thread -> {"wait", "select", "exited"}] /\ mu' = "free" /\ interrupted' = FALSE
        BY DEF Exit
    <2> QED
        BY <2>2, <2>4, <2>5, <2>6, <2>7 DEF PanelTypeOK
<1>2. MutexInv' /\ FrameInv' /\ LoggedInv'
    BY RowCount, Threads DEF Exit, MutexInv, FrameInv, LoggedInv, Holding
<1>3. TailInv' /\ WholeInv'
    BY DEF Exit, TailInv, WholeInv, Rows
<1> QED
    BY <1>1, <1>2, <1>3 DEF PInv

LEMMA NextPInv == PInv /\ [PanelNext]_pvars => PInv'
<1> SUFFICES ASSUME PInv, [PanelNext]_pvars PROVE PInv'
    OBVIOUS
<1>1. CASE PanelStep
    <2>1. ASSUME NEW t \in Thread, Lock(t) \/ Draw(t) PROVE PInv'
        <3>1. CASE PrintEvent(t)
            BY <3>1, PrintEventInv DEF PrintEvent
        <3> QED
            BY <2>1, <3>1, TakeMutexInv, EraseRowInv, ClearedInv, PrintRowInv, RenderedInv DEF Draw
    <2>2. CASE Tick
        BY <2>2, SnapshotInv DEF Tick
    <2>3. CASE FinalPanel
        BY <2>3, SnapshotInv DEF FinalPanel
    <2> QED
        BY <1>1, <2>1, <2>2, <2>3, GoroutineInv, CloseInv, PlainLineInv, LoopEndsInv DEF PanelStep, RunStep
<1>2. CASE Interrupt
    BY <1>2 DEF Interrupt, PInv, PanelTypeOK, MutexInv, FrameInv, LoggedInv, TailInv, WholeInv, Rows
<1>3. CASE Exit
    BY <1>3, ExitInv
<1>4. CASE UNCHANGED pvars
    BY <1>4 DEF pvars, PInv, PanelTypeOK, MutexInv, FrameInv, LoggedInv, TailInv, WholeInv, Rows
<1> QED
    BY <1>1, <1>2, <1>3, <1>4 DEF PanelNext

LEMMA PanelInvariant == PanelSpec => []PInv
BY InitPInv, NextPInv, PTL DEF PanelSpec

\* The panel never has more rows than objects in flight and its header.
THEOREM PanelTypeCorrect == PanelSpec => []PanelTypeOK
<1>1. PInv => PanelTypeOK
    BY DEF PInv
<1> QED
    BY <1>1, PanelInvariant, PTL

\* Until something is printed past it the panel stays in one piece at the end of the terminal.
THEOREM PanelAlwaysWhole == PanelSpec => []PanelWhole
<1>1. PInv => PanelWhole
    BY DEF PInv, PanelWhole, TailInv, WholeInv, Rows
<1> QED
    BY <1>1, PanelInvariant, PTL

\* Nothing but rows of the panel and lines printed past it is ever erased.
THEOREM EventsAlwaysKept == PanelSpec => EventsKept
<1> DEFINE Kept ==
        tpc'["run"] # "exited" =>
          \A i \in DOMAIN screen :
            screen[i] \in Worker => i \in DOMAIN screen' /\ screen'[i] = screen[i]
<1>1. ASSUME PInv, NEW t \in Thread, EraseRow(t) PROVE Kept
    <2> DEFINE L == Len(screen)
    <2>1. mu = t /\ mu # "free" /\ erased[t] < drawn /\ erased[t] \in Nat /\ drawn \in Nat
        BY <1>1, Threads, RowsType DEF EraseRow, PInv, PanelTypeOK, MutexInv, Holding
    <2>2. Rows >= 1 /\ Rows <= L /\ L \in Nat /\ Rows \in Nat
        <3>1. Rows = drawn - erased[t]
            BY <2>1 DEF Rows
        <3> QED
            BY <1>1, <2>1, <3>1 DEF PInv, TailInv, PanelTypeOK
    <2>3. screen' = SubSeq(screen, 1, L - 1) /\ DOMAIN screen = 1..L
          /\ screen \in Seq(Worker \cup {"row", "plain"})
        BY <1>1 DEF EraseRow, PInv, PanelTypeOK
    <2>4. DOMAIN screen' = 1..(L - 1) /\ \A i \in 1..(L - 1) : screen'[i] = screen[i]
        BY <2>2, <2>3, ShorterByOne
    <2>5. screen[L] \notin Worker
        <3>1. L \in DOMAIN screen /\ L > L - Rows
            BY <2>2, <2>3
        <3> QED
            BY <1>1, <3>1 DEF PInv, TailInv
    <2> QED
        BY <2>2, <2>3, <2>4, <2>5
<1>2. ASSUME PInv, NEW l, screen' = Append(screen, l) PROVE Kept
    BY <1>2 DEF PInv, PanelTypeOK
<1>3. ASSUME screen' = screen PROVE Kept
    BY <1>3
<1>4. ASSUME PInv, PanelStep PROVE Kept
    <2>1. ASSUME NEW t \in Thread, Lock(t) \/ Draw(t) PROVE Kept
        BY <1>1, <1>2, <1>3, <1>4, <2>1 DEF Lock, Draw, Cleared, PrintEvent, PrintRow, Rendered
    <2>2. ASSUME NEW w \in Worker, Work(w) PROVE Kept
        BY <1>3, <2>2 DEF Work, Begin, LogEvent, End
    <2>3. CASE PlainLine
        BY <1>2, <1>4, <2>3 DEF PlainLine
    <2>4. CASE FinalPanel \/ Close \/ Tick \/ LoopEnds
        BY <1>3, <2>4 DEF FinalPanel, Close, Tick, LoopEnds, Snapshot
    <2> QED
        BY <1>4, <2>1, <2>2, <2>3, <2>4 DEF PanelStep, RunStep
<1>5. ASSUME Exit PROVE Kept
    BY <1>5, Threads DEF Exit
<1>6. PInv /\ [PanelNext]_pvars => [Kept]_pvars
    BY <1>3, <1>4, <1>5 DEF PanelNext, Interrupt
<1> QED
    BY <1>6, PanelInvariant, PTL DEF PanelSpec, EventsKept

------------------------------------------------------------------------------
(* The mutex is let go again                                                *)

\* What its holder can do next.
CanDraw(t) ==
    \/ tpc[t] = "erase" /\ (erased[t] < drawn \/ erased[t] = drawn)
    \/ tpc[t] = "print" /\ (t \in Worker \/ t \in {"loop", "run"})

\* How many steps its holder takes at most until it lets the mutex go: the
\* rows to erase, the rows to print, and the step that ends each of them.
StepsHeld ==
    IF mu = "free" THEN 0
    ELSE (IF tpc[mu] = "erase" THEN drawn - erased[mu] + 1 ELSE 0) + frame[mu] + 1

LEMMA StepsHeldBounds ==
    PInv /\ mu # "free" => CanDraw(mu) /\ StepsHeld \in 1..(2 * MaxRows + 2)
<1> SUFFICES ASSUME PInv, mu # "free"
             PROVE  CanDraw(mu) /\ StepsHeld \in 1..(2 * MaxRows + 2)
    OBVIOUS
<1>1. mu \in Thread /\ tpc[mu] \in Holding
    BY DEF PInv, PanelTypeOK, MutexInv
<1>2. erased[mu] \in 0..drawn /\ frame[mu] \in 0..MaxRows /\ drawn \in 0..MaxRows
    BY <1>1 DEF PInv, PanelTypeOK, MaxRows
<1> QED
    BY <1>1, <1>2, RowCount DEF CanDraw, StepsHeld, Holding, Thread

\* Each step of the holder brings it nearer the unlock.
LEMMA DrawShortens ==
    ASSUME PInv, NEW t \in Thread, Draw(t)
    PROVE  mu = t /\ StepsHeld' < StepsHeld
<1>1. tpc[t] \in Holding
    BY DEF Draw, EraseRow, Cleared, PrintEvent, PrintRow, Rendered, Holding
<1>2. mu = t /\ t # "free"
    BY <1>1, Threads DEF PInv, MutexInv
<1>3. erased[t] \in 0..drawn /\ frame[t] \in 0..MaxRows /\ drawn \in 0..MaxRows
    BY DEF PInv, PanelTypeOK, MaxRows
<1>4. CASE EraseRow(t)
    <2>1. erased'[t] = erased[t] + 1 /\ tpc[t] = "erase"
        BY <1>4 DEF EraseRow, PInv, PanelTypeOK
    <2> QED
        BY <1>2, <1>3, <1>4, <2>1, RowCount DEF EraseRow, StepsHeld
<1>5. CASE Cleared(t)
    <2>1. tpc'[t] = "print" /\ tpc[t] = "erase"
        BY <1>5 DEF Cleared, Moves, PInv, PanelTypeOK
    <2> QED
        BY <1>2, <1>3, <1>5, <2>1, RowCount DEF Cleared, StepsHeld
<1>6. CASE PrintRow(t)
    <2>1. frame'[t] = frame[t] - 1 /\ tpc[t] = "print"
        BY <1>6 DEF PrintRow, PInv, PanelTypeOK
    <2> QED
        BY <1>2, <1>3, <1>6, <2>1, RowCount DEF PrintRow, StepsHeld
<1>7. CASE PrintEvent(t) \/ Rendered(t)
    <2>1. mu' = "free" /\ tpc[t] = "print"
        BY <1>7 DEF PrintEvent, Rendered
    <2> QED
        BY <1>2, <1>3, <2>1, RowCount DEF StepsHeld
<1> QED
    BY <1>2, <1>4, <1>5, <1>6, <1>7 DEF Draw

\* A goroutine outside the mutex moves, and its holder does not notice.
LEMMA OutsideHeld ==
    ASSUME PInv, mu # "free", NEW t \in Thread, tpc[t] \notin Holding, NEW place, Moves(t, place),
           UNCHANGED <<mu, drawn, erased>>, \A u \in Thread : u # t => frame'[u] = frame[u]
    PROVE  StepsHeld' = StepsHeld /\ UNCHANGED mu
<1>1. mu \in Thread /\ mu # t
    BY DEF PInv, PanelTypeOK, MutexInv
<1>2. tpc'[mu] = tpc[mu] /\ frame'[mu] = frame[mu]
    BY <1>1 DEF Moves, PInv, PanelTypeOK
<1> QED
    BY <1>2 DEF StepsHeld

LEMMA NextHeld ==
    ASSUME PInv, PanelNext, mu # "free"
    PROVE  \/ StepsHeld' < StepsHeld
           \/ StepsHeld' = StepsHeld /\ UNCHANGED mu
<1> USE Threads
<1>1. ASSUME NEW t \in Thread, Lock(t) PROVE FALSE
    BY <1>1 DEF Lock
<1>2. ASSUME NEW w \in Worker, Work(w) PROVE StepsHeld' = StepsHeld /\ UNCHANGED mu
    <2>1. tpc[w] \notin Holding /\ w \in Thread
        BY <1>2 DEF Work, Begin, LogEvent, End, Holding
    <2>2. \E place : Moves(w, place)
        BY <1>2 DEF Work, Begin, LogEvent, End
    <2> QED
        BY <1>2, <2>1, <2>2, OutsideHeld DEF Work, Begin, LogEvent, End
<1>3. ASSUME NEW t \in {"loop", "run"}, tpc[t] \in {"select", "wait"}, Snapshot(t)
      PROVE  StepsHeld' = StepsHeld /\ UNCHANGED mu
    <2>1. \A u \in Thread : u # t => frame'[u] = frame[u]
        BY <1>3 DEF Snapshot, PInv, PanelTypeOK
    <2> QED
        BY <1>3, <2>1, OutsideHeld DEF Snapshot, Holding
<1>4. CASE Tick \/ FinalPanel
    BY <1>3, <1>4 DEF Tick, FinalPanel
<1>5. CASE Close \/ PlainLine \/ LoopEnds
    BY <1>5, OutsideHeld DEF Close, PlainLine, LoopEnds, Holding
<1>6. CASE Interrupt
    BY <1>6 DEF Interrupt, StepsHeld
<1>7. CASE Exit
    <2>1. StepsHeld' = 0 /\ StepsHeld > 0
        BY <1>7, StepsHeldBounds, RowCount DEF Exit, StepsHeld
    <2> QED
        BY <2>1
<1> QED
    BY <1>1, <1>2, <1>4, <1>5, <1>6, <1>7, DrawShortens DEF PanelNext, PanelStep, RunStep

\* Whoever has the mutex can always go on and lets it go within 2 * MaxRows + 2
\* steps of its own, which no tick, event line or interrupt prolongs: the
\* panel is a deadlock or a bottleneck for no goroutine of Run.
THEOREM MutexAlwaysReleased ==
    PanelSpec => /\ [](mu # "free" => CanDraw(mu) /\ StepsHeld \in 1..(2 * MaxRows + 2))
                 /\ [][(\E t \in Thread : Draw(t)) => StepsHeld' < StepsHeld]_pvars
                 /\ [][mu # "free" => \/ StepsHeld' < StepsHeld
                                      \/ StepsHeld' = StepsHeld /\ UNCHANGED mu]_pvars
<1>1. PInv /\ [PanelNext]_pvars => [(\E t \in Thread : Draw(t)) => StepsHeld' < StepsHeld]_pvars
    BY DrawShortens
<1>2. PInv /\ [PanelNext]_pvars =>
        [mu # "free" => \/ StepsHeld' < StepsHeld
                        \/ StepsHeld' = StepsHeld /\ UNCHANGED mu]_pvars
    BY NextHeld
<1> QED
    BY <1>1, <1>2, StepsHeldBounds, PanelInvariant, PTL DEF PanelSpec
==============================================================================
