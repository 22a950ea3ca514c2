-------------------------- MODULE BlobResolverProofs --------------------------
(***************************************************************************)
(* Type correctness of BlobResolver, its counters included, that no 404 of *)
(* a HEAD latches skipHead, and that a refused token is not presented      *)
(* again, for any number of goroutines and any answers of the registry.    *)
(***************************************************************************)
EXTENDS BlobResolver, Functions, FiniteSetTheorems, WellFoundedInduction, TLAPS

------------------------------------------------------------------------------
(* Types                                                                    *)

\* The part of TypeOK that the goroutines write for themselves.
LocalType ==
    /\ pc \in [Blob -> {"header", "ping", "token", "probe", "head", "get",
                        "invalidate", "pause", "done"}]
    /\ attempt \in [Blob -> 1..MaxAttempts]
    /\ hop \in [Blob -> 0..(MaxHops - 1)]
    /\ notFound \in [Blob -> 0..(MaxAttempts - 1)]
    /\ head404 \in [Blob -> BOOLEAN]
    /\ header \in [Blob -> Header]
    /\ refused \in [Blob -> Header]
    /\ lastErr \in [Blob -> Error \cup {"none"}]
    /\ res \in [Blob -> Error \cup {"none", "url"}]

\* The part they share.
SharedType ==
    /\ mu \in Blob \cup {None}
    /\ cache \in [refreshed : BOOLEAN, value : Header, far : BOOLEAN]
    /\ skipHead \in BOOLEAN /\ rangeBlind \in BOOLEAN

LEMMA TypeSplit == TypeOK <=> LocalType /\ SharedType
    BY DEF TypeOK, LocalType, SharedType

LEMMA ReturnType ==
    ASSUME LocalType, NEW b \in Blob, NEW r \in Error \cup {"none", "url"}, Return(b, r)
    PROVE  LocalType'
<1>1. 1 \in 1..MaxAttempts /\ 0 \in 0..(MaxHops - 1) /\ 0 \in 0..(MaxAttempts - 1)
    BY BoundsAssumption
<1> QED
    BY <1>1 DEF LocalType, Return, Goto, Header

LEMMA OnceFailsType ==
    ASSUME LocalType, NEW b \in Blob, NEW e \in Error, OnceFails(b, e)
    PROVE  LocalType'
<1>1. CASE Return(b, e)
    BY <1>1, ReturnType
<1>2. CASE ~Return(b, e)
    <2>1. 0 \in 0..(MaxHops - 1)
        BY BoundsAssumption
    <2>2. e = "notfound" => notFound[b] + 1 \in 0..(MaxAttempts - 1)
        BY <1>2, BoundsAssumption DEF OnceFails, LocalType
    <2>3. e # "notfound" => notFound[b] \in 0..(MaxAttempts - 1)
        BY DEF LocalType
    <2>4. header[b] \in Header /\ refused[b] \in Header /\ None \in Header
        BY DEF LocalType, Header
    <2>5. pc' \in [Blob -> {"header", "ping", "token", "probe", "head", "get",
                           "invalidate", "pause", "done"}]
        BY <1>2 DEF OnceFails, LocalType, Goto
    <2>6. notFound' \in [Blob -> 0..(MaxAttempts - 1)]
        BY <1>2, <2>2, <2>3 DEF OnceFails, LocalType
    <2>7. refused' \in [Blob -> Header] /\ header' \in [Blob -> Header]
        BY <1>2, <2>4 DEF OnceFails, LocalType
    <2>8. hop' \in [Blob -> 0..(MaxHops - 1)] /\ lastErr' \in [Blob -> Error \cup {"none"}]
        BY <1>2, <2>1 DEF OnceFails, LocalType
    <2>9. attempt' = attempt /\ res' = res /\ head404' = [head404 EXCEPT ![b] = FALSE]
        BY <1>2 DEF OnceFails
    <2> QED
        BY <2>5, <2>6, <2>7, <2>8, <2>9 DEF LocalType
<1> QED
    BY <1>1, <1>2

LEMMA NextAttemptType ==
    ASSUME LocalType, NEW b \in Blob, NextAttempt(b)
    PROVE  LocalType'
<1>1. CASE attempt[b] < MaxAttempts
    <2>1. attempt[b] + 1 \in 1..MaxAttempts
        BY <1>1, BoundsAssumption DEF LocalType
    <2> QED
        BY <1>1, <2>1 DEF NextAttempt, LocalType, Goto
<1>2. CASE ~(attempt[b] < MaxAttempts)
    BY <1>2, ReturnType DEF NextAttempt, LocalType
<1> QED
    BY <1>1, <1>2

LEMMA RefreshedType ==
    ASSUME LocalType, SharedType, NEW b \in Blob, NEW v \in Header, Refreshed(b, v), UNCHANGED latches
    PROVE  LocalType' /\ SharedType'
    BY DEF Refreshed, LocalType, SharedType, Goto, latches

LEMMA RefreshFailsType ==
    ASSUME LocalType, SharedType, NEW b \in Blob, NEW e \in Error, RefreshFails(b, e), UNCHANGED latches
    PROVE  LocalType' /\ SharedType'
    BY OnceFailsType DEF RefreshFails, SharedType, latches

\* Authenticator.
LEMMA AuthenticatorType ==
    ASSUME LocalType, SharedType, NEW b \in Blob,
           AuthHeader(b) \/ Ping(b) \/ FetchBearer(b) \/ Invalidate(b)
    PROVE  LocalType' /\ SharedType'
<1>1. CASE AuthHeader(b)
    BY <1>1 DEF AuthHeader, LocalType, SharedType, Goto, latches
<1>2. CASE Ping(b)
    <2>1. PICK a \in PingAnswers :
             \/ a = "anonymous" /\ Refreshed(b, None)
             \/ a = "basic" /\ Refreshed(b, 0)
             \/ a = "bearer" /\ Goto(b, "token") /\ UNCHANGED <<mu, cache, local, res>>
             \/ a \in {"error", "ctx"} /\ RefreshFails(b, a)
        BY <1>2 DEF Ping
    <2>2. UNCHANGED latches
        BY <1>2 DEF Ping
    <2>3. CASE Goto(b, "token") /\ UNCHANGED <<mu, cache, local, res>>
        BY <2>2, <2>3 DEF Goto, LocalType, SharedType, latches, local
    <2> QED
        BY <2>1, <2>2, <2>3, RefreshedType, RefreshFailsType DEF Header, Error
<1>3. CASE FetchBearer(b)
    BY <1>3, RefreshedType, RefreshFailsType DEF FetchBearer, Header, Error
<1>4. CASE Invalidate(b)
    BY <1>4, NextAttemptType DEF Invalidate, SharedType, latches, Header
<1> QED
    BY <1>1, <1>2, <1>3, <1>4

LEMMA HeadProbeType ==
    ASSUME LocalType, SharedType, NEW b \in Blob, HeadProbe(b)
    PROVE  LocalType' /\ SharedType'
<1>1. PICK a \in HeadAnswers :
         \/ a \in {"ok", "cdn"} /\ Return(b, "url") /\ UNCHANGED latches
         \/ a = "samehost" /\ FollowRedirect(b) /\ UNCHANGED latches
         \/ a = "astray" /\ OnceFails(b, "error") /\ UNCHANGED latches
         \/ a \in {"unauthorized", "ctx"} /\ OnceFails(b, a) /\ UNCHANGED latches
         \/ a \in {"notfound", "error", "unanswered", "unsupported"} /\ TryGet(b, a)
    BY DEF HeadProbe
<1>2. UNCHANGED shared
    BY DEF HeadProbe
<1>3. CASE Return(b, "url") /\ UNCHANGED latches
    BY <1>2, <1>3, ReturnType DEF SharedType, shared, latches
<1>4. CASE FollowRedirect(b) /\ UNCHANGED latches
    <2>1. CASE HopsLeft(b)
        <3>1. hop[b] + 1 \in 0..(MaxHops - 1)
            BY <2>1, BoundsAssumption DEF HopsLeft, LocalType
        <3> QED
            BY <1>2, <1>4, <2>1, <3>1 DEF FollowRedirect, LocalType, SharedType, shared, latches
    <2>2. CASE ~HopsLeft(b)
        BY <1>2, <1>4, <2>2, OnceFailsType DEF FollowRedirect, Error, SharedType, shared, latches
    <2> QED
        BY <2>1, <2>2
<1>5. ASSUME NEW e \in Error, OnceFails(b, e), UNCHANGED latches PROVE LocalType' /\ SharedType'
    BY <1>2, <1>5, OnceFailsType DEF SharedType, shared, latches
<1>6. CASE TryGet(b, a)
    <2>1. (a = "notfound") \in BOOLEAN /\ (skipHead \/ a \in {"unanswered", "unsupported"}) \in BOOLEAN
        OBVIOUS
    <2>2. LocalType'
        BY <1>6, <2>1 DEF TryGet, LocalType, Goto
    <2>3. SharedType'
        BY <1>2, <1>6, <2>1 DEF TryGet, SharedType, shared
    <2> QED
        BY <2>2, <2>3
<1> QED
    BY <1>1, <1>3, <1>4, <1>5, <1>6 DEF Error

\* resolveBlobURLOnce and the loop around it.
LEMMA ProbeType ==
    ASSUME LocalType, SharedType, NEW b \in Blob,
           ChooseProbe(b) \/ HeadProbe(b) \/ RangeGet(b) \/ Pause(b)
    PROVE  LocalType' /\ SharedType'
<1>1. CASE ChooseProbe(b)
    BY <1>1 DEF ChooseProbe, LocalType, SharedType, Goto, shared, latches, local
<1>2. CASE HeadProbe(b)
    BY <1>2, HeadProbeType
<1>3. CASE RangeGet(b)
    <2>1. PICK a \in GetAnswers :
             /\ \/ a \in Success /\ Return(b, "url")
                \/ a \notin Success /\ OnceFails(b, a)
             /\ rangeBlind' = (rangeBlind \/ a = "full")
             /\ skipHead' = LatchedByGet(b, a \in Success)
        BY <1>3 DEF RangeGet
    <2>2. a \notin Success => a \in Error
        BY AnswersAssumption DEF Success, Error
    <2>3. LocalType'
        BY <2>1, <2>2, ReturnType, OnceFailsType
    <2>4. SharedType'
        BY <1>3, <2>1 DEF RangeGet, SharedType, shared, LatchedByGet
    <2> QED
        BY <2>3, <2>4
<1>4. CASE Pause(b)
    BY <1>4, NextAttemptType, ReturnType DEF Pause, Error, SharedType, shared, latches
<1> QED
    BY <1>1, <1>2, <1>3, <1>4

LEMMA NextType == LocalType /\ SharedType /\ [Next]_vars => LocalType' /\ SharedType'
<1> SUFFICES ASSUME LocalType, SharedType, [Next]_vars PROVE LocalType' /\ SharedType'
    OBVIOUS
<1>1. ASSUME NEW b \in Blob, Step(b) PROVE LocalType' /\ SharedType'
    BY <1>1, AuthenticatorType, ProbeType DEF Step
<1>2. CASE Expire
    BY <1>2 DEF Expire, LocalType, SharedType, latches, local
<1>3. CASE UNCHANGED vars
    BY <1>3 DEF vars, LocalType, SharedType, shared, latches, local
<1> QED
    BY <1>1, <1>2, <1>3 DEF Next, Done

LEMMA InitType == Init => LocalType /\ SharedType
<1>1. 1 \in 1..MaxAttempts /\ 0 \in 0..(MaxHops - 1) /\ 0 \in 0..(MaxAttempts - 1)
    BY BoundsAssumption
<1>2. None \in Header
    BY DEF Header
<1>3. Init => LocalType
    BY <1>1, <1>2 DEF Init, LocalType
<1>4. Init => SharedType
    <2>1. Init => mu = None /\ cache = [refreshed |-> FALSE, value |-> None, far |-> FALSE]
        BY DEF Init
    <2>2. Init => skipHead = FALSE /\ rangeBlind = FALSE
        BY Zenon DEF Init
    <2>3. Init => mu \in Blob \cup {None} /\ cache \in [refreshed : BOOLEAN, value : Header, far : BOOLEAN]
        <3>1. [refreshed |-> FALSE, value |-> None, far |-> FALSE]
                \in [refreshed : BOOLEAN, value : Header, far : BOOLEAN]
            BY <1>2
        <3> QED
            BY <2>1, <3>1
    <2>4. Init => skipHead \in BOOLEAN /\ rangeBlind \in BOOLEAN
        BY <2>2, Zenon
    <2> QED
        BY <2>3, <2>4 DEF SharedType
<1> QED
    BY <1>3, <1>4

LEMMA Typed == Steps => [](LocalType /\ SharedType)
    BY InitType, NextType, PTL DEF Steps

\* The type invariant: attempts, redirects and 404 verdicts stay within their
\* limits on every path through the retry loop.
THEOREM TypeCorrect == Steps => []TypeOK
    BY Typed, TypeSplit, PTL

------------------------------------------------------------------------------
(* skipHead                                                                 *)

\* A step that latches skipHead is no HEAD's 404, or one the GET disproved.
LatchedFairly ==
    skipHead' # skipHead => \E b \in Blob :
        \/ At(b, "head") /\ pc'[b] = "get" /\ ~head404'[b]
        \/ At(b, "get") /\ head404[b] /\ res'[b] = "url"

LEMMA NextLatches == LocalType /\ SharedType /\ [Next]_vars => LatchedFairly
<1> SUFFICES ASSUME LocalType, SharedType, [Next]_vars PROVE LatchedFairly
    OBVIOUS
<1>1. CASE UNCHANGED latches
    BY <1>1 DEF latches, LatchedFairly
<1>2. ASSUME NEW b \in Blob, NEW a \in HeadAnswers, At(b, "head"), TryGet(b, a)
      PROVE  LatchedFairly
    <2>1. CASE a \in {"unanswered", "unsupported"}
        <3>1. pc'[b] = "get" /\ head404'[b] = (a = "notfound")
            BY <1>2 DEF TryGet, Goto, LocalType
        <3> QED
            BY <1>2, <2>1, <3>1 DEF LatchedFairly
    <2>2. CASE a \notin {"unanswered", "unsupported"}
        <3>1. skipHead' = (skipHead \/ a \in {"unanswered", "unsupported"})
            BY <1>2, Zenon DEF TryGet
        <3>2. skipHead' = skipHead
            BY <2>2, <3>1 DEF SharedType
        <3> QED
            BY <3>2 DEF LatchedFairly
    <2> QED
        BY <2>1, <2>2
<1>3. ASSUME NEW b \in Blob, RangeGet(b) PROVE LatchedFairly
    <2>1. PICK a \in GetAnswers :
             /\ \/ a \in Success /\ Return(b, "url")
                \/ a \notin Success /\ OnceFails(b, a)
             /\ skipHead' = LatchedByGet(b, a \in Success)
        BY <1>3 DEF RangeGet
    <2>2. CASE head404[b] /\ a \in Success
        <3>1. res'[b] = "url"
            BY <2>1, <2>2 DEF Return, LocalType
        <3> QED
            BY <1>3, <2>2, <3>1 DEF RangeGet, LatchedFairly
    <2>3. CASE ~(head404[b] /\ a \in Success)
        <3>1. skipHead' = (skipHead \/ (head404[b] /\ a \in Success))
            BY <2>1, Zenon DEF LatchedByGet
        <3>2. skipHead' = skipHead
            BY <2>3, <3>1 DEF SharedType
        <3> QED
            BY <3>2 DEF LatchedFairly
    <2> QED
        BY <2>2, <2>3
<1>4. ASSUME NEW b \in Blob, HeadProbe(b) PROVE LatchedFairly
    BY <1>1, <1>2, <1>4 DEF HeadProbe
<1>5. ASSUME NEW b \in Blob, AuthHeader(b) \/ Ping(b) \/ FetchBearer(b) \/ Invalidate(b)
                                \/ ChooseProbe(b) \/ Pause(b)
      PROVE  UNCHANGED latches
    BY <1>5 DEF AuthHeader, Ping, FetchBearer, Invalidate, ChooseProbe, Pause
<1>6. CASE Expire \/ Done \/ UNCHANGED vars
    BY <1>1, <1>6 DEF Expire, Done, vars
<1> QED
    BY <1>1, <1>3, <1>4, <1>5, <1>6 DEF Next, Step

\* No flaky 404 of a HEAD changes how the other goroutines' blobs are probed:
\* skipHead is latched by another answer, or once a GET disproved the 404.
THEOREM SkipHeadNeverByNotFound == Steps => NotFoundNeverLatches
<1>1. LocalType /\ SharedType /\ [Next]_vars =>
        [skipHead' # skipHead => \E b \in Blob :
            \/ At(b, "head") /\ pc'[b] = "get" /\ ~head404'[b]
            \/ At(b, "get") /\ head404[b] /\ res'[b] = "url"]_vars
    BY NextLatches DEF LatchedFairly
<1> QED
    BY <1>1, Typed, PTL DEF Steps, NotFoundNeverLatches

------------------------------------------------------------------------------
(* Refused tokens                                                           *)

Bearer(h) == h \notin {None, 0}

\* Once the refused bearer token of b was invalidated, the cache does not
\* hold it, whoever refreshed it since; and b's own header is another one.
Fresh(b) ==
    /\ Bearer(refused[b]) /\ pc[b] # "invalidate" => cache.value # refused[b]
    /\ Bearer(refused[b]) /\ pc[b] \in {"probe", "head", "get"} => header[b] # refused[b]

NInv == \A b \in Blob : Fresh(b)

\* The cache keeps its value, or gets one that is none, Basic, or new.
CacheMoves ==
    \/ cache'.value = cache.value
    \/ ~Bearer(cache'.value)
    \/ \A b \in Blob : cache'.value # refused[b]

\* A step of b leaves the others' tokens alone.
OthersKeep(b) ==
    \A q \in Blob : q # b =>
        pc'[q] = pc[q] /\ refused'[q] = refused[q] /\ header'[q] = header[q]

LEMMA StepFresh ==
    ASSUME NInv, NEW b \in Blob, OthersKeep(b), CacheMoves, Fresh(b)'
    PROVE  NInv'
<1>1. ASSUME NEW q \in Blob, q # b PROVE Fresh(q)'
    BY <1>1 DEF NInv, Fresh, OthersKeep, CacheMoves, Bearer
<1> QED
    BY <1>1 DEF NInv

LEMMA ReturnFresh ==
    ASSUME LocalType, NInv, NEW b \in Blob, NEW r, Return(b, r), CacheMoves
    PROVE  NInv'
<1>1. OthersKeep(b)
    BY DEF Return, Goto, OthersKeep, LocalType
<1>2. Fresh(b)'
    BY DEF Return, Fresh, Bearer, LocalType
<1> QED
    BY <1>1, <1>2, StepFresh

LEMMA OnceFailsFresh ==
    ASSUME LocalType, NInv, NEW b \in Blob, NEW e \in Error, OnceFails(b, e),
           cache' = cache, pc[b] # "invalidate"
    PROVE  NInv'
<1>1. CASE Return(b, e)
    BY <1>1, ReturnFresh DEF CacheMoves
<1>2. CASE ~Return(b, e)
    <2>1. OthersKeep(b)
        BY <1>2 DEF OnceFails, Goto, OthersKeep, LocalType
    <2>2. pc'[b] = IF e = "unauthorized" THEN "invalidate" ELSE "pause"
        BY <1>2 DEF OnceFails, Goto, LocalType
    <2>3. refused'[b] = IF e = "unauthorized" THEN header[b] ELSE refused[b]
        BY <1>2 DEF OnceFails, LocalType
    <2>4. Fresh(b)'
        BY <2>2, <2>3 DEF NInv, Fresh
    <2> QED
        BY <2>1, <2>4, StepFresh DEF CacheMoves
<1> QED
    BY <1>1, <1>2

LEMMA NextAttemptFresh ==
    ASSUME LocalType, NInv, NEW b \in Blob, NextAttempt(b),
           \/ cache' = cache /\ pc[b] # "invalidate"
           \/ cache'.value = None
    PROVE  NInv'
<1>1. CASE attempt[b] < MaxAttempts
    <2>1. OthersKeep(b)
        BY <1>1 DEF NextAttempt, Goto, OthersKeep, LocalType
    <2>2. pc'[b] = "header" /\ refused'[b] = refused[b]
        BY <1>1 DEF NextAttempt, Goto, LocalType
    <2>3. Fresh(b)'
        BY <2>2 DEF NInv, Fresh, Bearer
    <2> QED
        BY <2>1, <2>3, StepFresh DEF CacheMoves, Bearer
<1>2. CASE ~(attempt[b] < MaxAttempts)
    BY <1>2, ReturnFresh DEF NextAttempt, CacheMoves, Bearer
<1> QED
    BY <1>1, <1>2

LEMMA RefreshedFresh ==
    ASSUME LocalType, NInv, NEW b \in Blob, NEW v, Refreshed(b, v),
           ~Bearer(v) \/ \A q \in Blob : v # refused[q]
    PROVE  NInv'
<1>1. cache'.value = v /\ CacheMoves
    BY DEF Refreshed, CacheMoves
<1>2. OthersKeep(b)
    BY DEF Refreshed, Goto, OthersKeep, LocalType
<1>3. header'[b] = v /\ refused'[b] = refused[b]
    BY DEF Refreshed, LocalType
<1>4. Fresh(b)'
    BY <1>1, <1>3 DEF Fresh, Bearer
<1> QED
    BY <1>1, <1>2, <1>4, StepFresh

\* The header a probe uses is the cached one, which is not the refused one.
LEMMA AuthHeaderFresh ==
    ASSUME LocalType, NInv, NEW b \in Blob, AuthHeader(b)
    PROVE  NInv'
<1>1. OthersKeep(b) /\ CacheMoves
    BY DEF AuthHeader, Goto, OthersKeep, CacheMoves, LocalType
<1>2. /\ cache' = cache /\ refused'[b] = refused[b] /\ pc[b] = "header"
      /\ \/ pc'[b] = "ping"
         \/ pc'[b] = "probe" /\ header'[b] = cache.value
    BY DEF AuthHeader, Goto, At, LocalType
<1>3. Fresh(b)'
    BY <1>2 DEF NInv, Fresh
<1> QED
    BY <1>1, <1>3, StepFresh

LEMMA PingFresh ==
    ASSUME LocalType, NInv, NEW b \in Blob, Ping(b)
    PROVE  NInv'
<1>1. PICK a \in PingAnswers :
         \/ a = "anonymous" /\ Refreshed(b, None)
         \/ a = "basic" /\ Refreshed(b, 0)
         \/ a = "bearer" /\ Goto(b, "token") /\ UNCHANGED <<mu, cache, local, res>>
         \/ a \in {"error", "ctx"} /\ RefreshFails(b, a)
    BY DEF Ping
<1>2. pc[b] = "ping"
    BY DEF Ping, At
<1>3. CASE Refreshed(b, None) \/ Refreshed(b, 0)
    BY <1>3, RefreshedFresh DEF Bearer
<1>4. CASE Goto(b, "token") /\ UNCHANGED <<mu, cache, local, res>>
    <2>1. OthersKeep(b) /\ CacheMoves
        BY <1>4 DEF Goto, OthersKeep, CacheMoves, LocalType, local
    <2>2. Fresh(b)'
        BY <1>2, <1>4 DEF Goto, NInv, Fresh, LocalType, local
    <2> QED
        BY <2>1, <2>2, StepFresh
<1>5. CASE a \in {"error", "ctx"} /\ RefreshFails(b, a)
    BY <1>2, <1>5, OnceFailsFresh DEF RefreshFails, Error
<1> QED
    BY <1>1, <1>3, <1>4, <1>5

LEMMA FetchBearerFresh ==
    ASSUME LocalType, NInv, NEW b \in Blob, FetchBearer(b)
    PROVE  NInv'
<1>1. ASSUME NEW t \in Token \ Remembered, Refreshed(b, t) PROVE NInv'
    <2>1. \A q \in Blob : t # refused[q]
        BY DEF Remembered
    <2> QED
        BY <1>1, <2>1, RefreshedFresh
<1>2. ASSUME NEW e \in {"error", "ctx"}, RefreshFails(b, e) PROVE NInv'
    BY <1>2, OnceFailsFresh DEF RefreshFails, Error, FetchBearer, At
<1> QED
    BY <1>1, <1>2 DEF FetchBearer

\* Steps between the header and the verdict: b goes from one probe to the next.
LEMMA ProbingFresh ==
    ASSUME LocalType, NInv, NEW b \in Blob, UNCHANGED <<cache, header, refused>>,
           pc[b] \in {"probe", "head", "get"}, pc' = pc \/ Goto(b, "head") \/ Goto(b, "get")
    PROVE  NInv'
<1>1. OthersKeep(b) /\ CacheMoves
    BY DEF Goto, OthersKeep, CacheMoves, LocalType
<1>2. Fresh(b)'
    BY DEF Goto, NInv, Fresh, LocalType
<1> QED
    BY <1>1, <1>2, StepFresh

LEMMA HeadProbeFresh ==
    ASSUME LocalType, NInv, NEW b \in Blob, HeadProbe(b)
    PROVE  NInv'
<1>1. PICK a \in HeadAnswers :
         \/ a \in {"ok", "cdn"} /\ Return(b, "url") /\ UNCHANGED latches
         \/ a = "samehost" /\ FollowRedirect(b) /\ UNCHANGED latches
         \/ a = "astray" /\ OnceFails(b, "error") /\ UNCHANGED latches
         \/ a \in {"unauthorized", "ctx"} /\ OnceFails(b, a) /\ UNCHANGED latches
         \/ a \in {"notfound", "error", "unanswered", "unsupported"} /\ TryGet(b, a)
    BY DEF HeadProbe
<1>2. cache' = cache /\ pc[b] = "head"
    BY DEF HeadProbe, At, shared
<1>3. CASE Return(b, "url")
    BY <1>2, <1>3, ReturnFresh DEF CacheMoves
<1>4. CASE FollowRedirect(b)
    BY <1>2, <1>4, OnceFailsFresh, ProbingFresh DEF FollowRedirect, Error
<1>5. ASSUME NEW e \in Error, OnceFails(b, e) PROVE NInv'
    BY <1>2, <1>5, OnceFailsFresh
<1>6. CASE TryGet(b, a)
    BY <1>2, <1>6, ProbingFresh DEF TryGet
<1> QED
    BY <1>1, <1>3, <1>4, <1>5, <1>6 DEF Error

LEMMA RangeGetFresh ==
    ASSUME LocalType, NInv, NEW b \in Blob, RangeGet(b)
    PROVE  NInv'
<1>1. PICK a \in GetAnswers : \/ a \in Success /\ Return(b, "url")
                              \/ a \notin Success /\ OnceFails(b, a)
    BY DEF RangeGet
<1>2. cache' = cache /\ pc[b] = "get"
    BY DEF RangeGet, At, shared
<1>3. a \notin Success => a \in Error
    BY AnswersAssumption DEF Success, Error
<1> QED
    BY <1>1, <1>2, <1>3, ReturnFresh, OnceFailsFresh DEF CacheMoves

LEMMA NextFresh == LocalType /\ SharedType /\ NInv /\ [Next]_vars => NInv'
<1> SUFFICES ASSUME LocalType, SharedType, NInv, [Next]_vars PROVE NInv'
    OBVIOUS
<1>1. ASSUME NEW b \in Blob, Invalidate(b) PROVE NInv'
    BY <1>1, NextAttemptFresh DEF Invalidate
<1>2. ASSUME NEW b \in Blob, Pause(b) PROVE NInv'
    BY <1>2, NextAttemptFresh, ReturnFresh DEF Pause, At, shared, CacheMoves
<1>3. ASSUME NEW b \in Blob, ChooseProbe(b) PROVE NInv'
    BY <1>3, ProbingFresh DEF ChooseProbe, At, shared, local
<1>4. ASSUME NEW b \in Blob, Step(b) PROVE NInv'
    BY <1>1, <1>2, <1>3, <1>4, AuthHeaderFresh, PingFresh, FetchBearerFresh,
       HeadProbeFresh, RangeGetFresh DEF Step
<1>5. CASE Expire
    BY <1>5 DEF Expire, SharedType, local, NInv, Fresh
<1>6. CASE UNCHANGED vars
    BY <1>6 DEF vars, shared, local, NInv, Fresh
<1> QED
    BY <1>4, <1>5, <1>6 DEF Next, Done

\* After a 401 the next probe presents another token than the refused one,
\* however other goroutines refresh and invalidate the cache meanwhile.
THEOREM RefusedNeverRepeated == Steps => []NeverRepeatsRefused
<1>1. Init => NInv
    BY DEF Init, NInv, Fresh, Bearer
<1>2. NInv => NeverRepeatsRefused
    BY DEF NInv, Fresh, Bearer, NeverRepeatsRefused
<1> QED
    BY <1>1, <1>2, Typed, NextFresh, PTL DEF Steps

------------------------------------------------------------------------------
(* Missing blobs                                                            *)

\* The error a goroutine waits after is the one its attempt ended with.
Waits(b) ==
    /\ pc[b] = "invalidate" => lastErr[b] = "unauthorized"
    /\ pc[b] = "pause" /\ lastErr[b] = "notfound" => notFound[b] > 0

WInv == \A b \in Blob : Waits(b)

\* A step of b leaves the others' verdicts alone.
OthersWait(b) ==
    \A q \in Blob : q # b =>
        pc'[q] = pc[q] /\ lastErr'[q] = lastErr[q] /\ notFound'[q] = notFound[q]

LEMMA StepWaits ==
    ASSUME WInv, NEW b \in Blob, OthersWait(b), pc'[b] \notin {"invalidate", "pause"} \/ Waits(b)'
    PROVE  WInv'
BY DEF WInv, Waits, OthersWait

LEMMA ReturnWaits ==
    ASSUME LocalType, WInv, NEW b \in Blob, NEW r, Return(b, r)
    PROVE  WInv'
<1>1. OthersWait(b) /\ pc'[b] = "done"
    BY DEF Return, Goto, OthersWait, LocalType
<1> QED
    BY <1>1, StepWaits

LEMMA OnceFailsWaits ==
    ASSUME LocalType, WInv, NEW b \in Blob, NEW e \in Error, OnceFails(b, e)
    PROVE  WInv'
<1>1. CASE Return(b, e)
    BY <1>1, ReturnWaits
<1>2. CASE ~Return(b, e)
    <2>1. OthersWait(b) /\ lastErr'[b] = e
        BY <1>2 DEF OnceFails, Goto, OthersWait, LocalType
    <2>2. pc'[b] = IF e = "unauthorized" THEN "invalidate" ELSE "pause"
        BY <1>2 DEF OnceFails, Goto, LocalType
    <2>3. e = "notfound" => notFound'[b] > 0
        BY <1>2, BoundsAssumption DEF OnceFails, LocalType
    <2> QED
        BY <2>1, <2>2, <2>3, StepWaits DEF Waits
<1> QED
    BY <1>1, <1>2

LEMMA NextAttemptWaits ==
    ASSUME LocalType, WInv, NEW b \in Blob, NextAttempt(b)
    PROVE  WInv'
<1>1. CASE Return(b, lastErr[b])
    BY <1>1, ReturnWaits
<1>2. CASE Goto(b, "header") /\ lastErr' = [lastErr EXCEPT ![b] = "none"] /\ notFound' = notFound
    <2>1. OthersWait(b) /\ pc'[b] = "header"
        BY <1>2 DEF Goto, OthersWait, LocalType
    <2> QED
        BY <2>1, StepWaits
<1> QED
    BY <1>1, <1>2 DEF NextAttempt

\* Steps that go on without a verdict.
LEMMA ProbingWaits ==
    ASSUME LocalType, WInv, NEW b \in Blob, NEW l \in {"header", "ping", "token", "probe", "head", "get"},
           Goto(b, l), UNCHANGED <<lastErr, notFound>>
    PROVE  WInv'
<1>1. OthersWait(b) /\ pc'[b] = l
    BY DEF Goto, OthersWait, LocalType
<1> QED
    BY <1>1, StepWaits

LEMMA StepOfWaits ==
    ASSUME LocalType, WInv, NEW b \in Blob, Step(b)
    PROVE  WInv'
<1>1. CASE AuthHeader(b)
    BY <1>1, ProbingWaits DEF AuthHeader
<1>2. CASE Ping(b)
    <2>1. ASSUME NEW v, Refreshed(b, v) PROVE WInv'
        BY <2>1, ProbingWaits DEF Refreshed
    <2>2. ASSUME NEW e \in {"error", "ctx"}, RefreshFails(b, e) PROVE WInv'
        BY <2>2, OnceFailsWaits DEF RefreshFails, Error
    <2>3. CASE Goto(b, "token") /\ UNCHANGED <<mu, cache, local, res>>
        BY <2>3, ProbingWaits DEF local
    <2> QED
        BY <1>2, <2>1, <2>2, <2>3 DEF Ping
<1>3. CASE FetchBearer(b)
    <2>1. ASSUME NEW v, Refreshed(b, v) PROVE WInv'
        BY <2>1, ProbingWaits DEF Refreshed
    <2>2. ASSUME NEW e \in {"error", "ctx"}, RefreshFails(b, e) PROVE WInv'
        BY <2>2, OnceFailsWaits DEF RefreshFails, Error
    <2> QED
        BY <1>3, <2>1, <2>2 DEF FetchBearer
<1>4. CASE Invalidate(b)
    BY <1>4, NextAttemptWaits DEF Invalidate
<1>5. CASE ChooseProbe(b)
    BY <1>5, ProbingWaits DEF ChooseProbe, local
<1>6. CASE HeadProbe(b)
    <2>1. ASSUME NEW a, TryGet(b, a) PROVE WInv'
        BY <2>1, ProbingWaits DEF TryGet
    <2>2. CASE FollowRedirect(b)
        <3>1. CASE UNCHANGED <<pc, lastErr, notFound>>
            BY <3>1 DEF WInv, Waits
        <3> QED
            BY <2>2, <3>1, OnceFailsWaits DEF FollowRedirect, Error
    <2> QED
        BY <1>6, <2>1, <2>2, ReturnWaits, OnceFailsWaits DEF HeadProbe, Error
<1>7. CASE RangeGet(b)
    BY <1>7, ReturnWaits, OnceFailsWaits, AnswersAssumption DEF RangeGet, Success, Error
<1>8. CASE Pause(b)
    BY <1>8, NextAttemptWaits, ReturnWaits DEF Pause
<1> QED
    BY <1>1, <1>2, <1>3, <1>4, <1>5, <1>6, <1>7, <1>8 DEF Step

LEMMA NextWaits == LocalType /\ WInv /\ [Next]_vars => WInv'
<1>1. ASSUME WInv, UNCHANGED <<pc, lastErr, notFound>> PROVE WInv'
    BY <1>1 DEF WInv, Waits
<1> QED
    BY <1>1, StepOfWaits DEF Next, Expire, Done, vars, local

\* What a step of b returns.
Verdict(b) ==
    res'[b] = "notfound" /\ res[b] = "none" =>
        \/ At(b, "get")
        \/ At(b, "pause") /\ lastErr[b] = "notfound" /\ notFound[b] > 0 /\ attempt[b] = MaxAttempts

LEMMA OnceFailsVerdict ==
    ASSUME LocalType, NEW b \in Blob, NEW e \in Error \ {"notfound"}, OnceFails(b, e)
    PROVE  Verdict(b) /\ \A q \in Blob : q # b => res'[q] = res[q]
BY DEF OnceFails, Return, LocalType, Verdict

LEMMA NextAttemptVerdict ==
    ASSUME LocalType, WInv, NEW b \in Blob, NextAttempt(b), pc[b] \in {"invalidate", "pause"}
    PROVE  Verdict(b) /\ \A q \in Blob : q # b => res'[q] = res[q]
<1>1. CASE attempt[b] < MaxAttempts
    BY <1>1 DEF NextAttempt, Verdict
<1>2. CASE ~(attempt[b] < MaxAttempts)
    <2>1. attempt[b] = MaxAttempts
        BY <1>2, BoundsAssumption DEF LocalType
    <2>2. res' = [res EXCEPT ![b] = lastErr[b]]
        BY <1>2 DEF NextAttempt, Return
    <2> QED
        BY <2>1, <2>2 DEF WInv, Waits, Verdict, LocalType, At
<1> QED
    BY <1>1, <1>2

LEMMA StepVerdict ==
    ASSUME LocalType, WInv, NEW b \in Blob, Step(b)
    PROVE  Verdict(b) /\ \A q \in Blob : q # b => res'[q] = res[q]
<1> DEFINE Goal == Verdict(b) /\ \A q \in Blob : q # b => res'[q] = res[q]
<1>1. CASE res' = res
    BY <1>1 DEF Verdict
<1>2. ASSUME NEW e \in {"error", "ctx"}, RefreshFails(b, e) PROVE Goal
    BY <1>2, OnceFailsVerdict DEF RefreshFails, Error
<1>3. ASSUME NEW v, Refreshed(b, v) PROVE Goal
    BY <1>1, <1>3 DEF Refreshed
<1>4. ASSUME NEW r, r # "notfound", Return(b, r) PROVE Goal
    BY <1>4 DEF Return, Verdict, LocalType
<1>5. CASE AuthHeader(b) \/ ChooseProbe(b)
    BY <1>1, <1>5 DEF AuthHeader, ChooseProbe
<1>6. CASE Ping(b) \/ FetchBearer(b)
    BY <1>1, <1>2, <1>3, <1>6 DEF Ping, FetchBearer
<1>7. CASE Invalidate(b)
    BY <1>7, NextAttemptVerdict DEF Invalidate, At
<1>8. CASE HeadProbe(b)
    <2>1. ASSUME NEW a, TryGet(b, a) PROVE Goal
        BY <1>1, <2>1 DEF TryGet
    <2>2. CASE FollowRedirect(b)
        BY <1>1, <2>2, OnceFailsVerdict DEF FollowRedirect, Error
    <2> QED
        BY <1>4, <1>8, <2>1, <2>2, OnceFailsVerdict DEF HeadProbe, Error
<1>9. CASE RangeGet(b)
    <2>1. At(b, "get")
        BY <1>9 DEF RangeGet
    <2>2. \A q \in Blob : q # b => res'[q] = res[q]
        BY <1>9 DEF RangeGet, OnceFails, Return, LocalType
    <2> QED
        BY <2>1, <2>2 DEF Verdict
<1>10. CASE Pause(b)
    BY <1>4, <1>10, NextAttemptVerdict DEF Pause, At
<1> QED
    BY <1>5, <1>6, <1>7, <1>8, <1>9, <1>10 DEF Step

\* Neither a HEAD alone nor the 404 of an earlier attempt makes a blob missing.
THEOREM MissingAlwaysOnEvidence == Steps => MissingOnEvidence
<1>1. Init => WInv
    BY DEF Init, WInv, Waits
<1>2. LocalType /\ WInv /\ [Next]_vars => [\A b \in Blob : Verdict(b)]_vars
    <2>1. ASSUME res' = res PROVE \A b \in Blob : Verdict(b)
        BY <2>1 DEF Verdict
    <2>2. ASSUME LocalType, WInv, NEW b \in Blob, Step(b) PROVE \A q \in Blob : Verdict(q)
        <3>1. ASSUME NEW q \in Blob, q # b PROVE Verdict(q)
            BY <2>2, <3>1, StepVerdict DEF Verdict
        <3> QED
            BY <2>2, <3>1, StepVerdict
    <2> QED
        BY <2>1, <2>2 DEF Next, Expire, Done, vars
<1> QED
    BY <1>1, <1>2, Typed, NextWaits, PTL DEF Steps, MissingOnEvidence, Verdict

------------------------------------------------------------------------------
(* The mutex                                                                *)

\* A step of b leaves what the others have got alone.
Apart(b) ==
    \A q \in Blob : q # b =>
        /\ pc'[q] = pc[q] /\ attempt'[q] = attempt[q] /\ hop'[q] = hop[q]
        /\ header'[q] = header[q]

LEMMA ReturnApart ==
    ASSUME LocalType, NEW b \in Blob, NEW r, Return(b, r)
    PROVE  Apart(b) /\ pc'[b] = "done" /\ header'[b] = None
BY DEF Return, Goto, Apart, LocalType

LEMMA OnceFailsApart ==
    ASSUME LocalType, NEW b \in Blob, NEW e, OnceFails(b, e)
    PROVE  /\ Apart(b) /\ header'[b] = None
           /\ \/ pc'[b] = "done"
              \/ pc'[b] \in {"invalidate", "pause"} /\ attempt'[b] = attempt[b]
<1>1. CASE Return(b, e)
    BY <1>1, ReturnApart
<1>2. CASE ~Return(b, e)
    BY <1>2 DEF OnceFails, Goto, Apart, LocalType
<1> QED
    BY <1>1, <1>2

LEMMA NextAttemptApart ==
    ASSUME LocalType, NEW b \in Blob, NextAttempt(b)
    PROVE  /\ Apart(b)
           /\ header'[b] \in {None, header[b]}
           /\ \/ pc'[b] = "done"
              \/ pc'[b] = "header" /\ attempt'[b] > attempt[b]
<1>1. CASE attempt[b] < MaxAttempts
    BY <1>1 DEF NextAttempt, Goto, Apart, LocalType
<1>2. CASE ~(attempt[b] < MaxAttempts)
    BY <1>2, ReturnApart DEF NextAttempt
<1> QED
    BY <1>1, <1>2

\* b goes to l, with the header it has.
Moves(b, l) == Goto(b, l) /\ UNCHANGED <<attempt, hop, header>>

LEMMA MovesApart ==
    ASSUME LocalType, NEW b \in Blob, NEW l, Moves(b, l)
    PROVE  Apart(b) /\ pc'[b] = l /\ attempt'[b] = attempt[b] /\ hop'[b] = hop[b]
             /\ header'[b] = header[b]
BY DEF Moves, Goto, Apart, LocalType

LEMMA RefreshedApart ==
    ASSUME LocalType, NEW b \in Blob, NEW v, Refreshed(b, v)
    PROVE  Apart(b) /\ pc'[b] = "probe" /\ attempt'[b] = attempt[b] /\ mu' = None
BY DEF Refreshed, Goto, Apart, LocalType

Waiting == {"header", "pause", "invalidate"}
Refreshing == {"ping", "token"}

\* A goroutine has no header before it has asked for one.
Bare(b) == pc[b] \in Waiting \cup Refreshing => header[b] = None

EInv == RefreshExclusive /\ \A b \in Blob : Bare(b)

\* b neither takes nor gives back the mutex; or gives it back; or takes it.
Holds(b) ==
    \/ mu' = mu /\ (pc[b] \in Refreshing <=> pc'[b] \in Refreshing)
    \/ mu = b /\ mu' = None /\ pc'[b] \notin Refreshing
    \/ mu = None /\ mu' = b /\ pc'[b] \in Refreshing

LEMMA StepExclusive ==
    ASSUME LocalType, EInv, NEW b \in Blob, Apart(b), Holds(b), Bare(b)'
    PROVE  EInv'
<1>1. ASSUME NEW q \in Blob, q # b PROVE (mu' = q <=> pc'[q] \in Refreshing) /\ Bare(q)'
    BY <1>1, BlobAssumption DEF EInv, RefreshExclusive, Apart, Holds, Bare, Refreshing
<1>2. mu' = b <=> pc'[b] \in Refreshing
    BY BlobAssumption DEF EInv, RefreshExclusive, Holds, Refreshing
<1> QED
    BY <1>1, <1>2 DEF EInv, RefreshExclusive, Refreshing

LEMMA RefreshFailsExclusive ==
    ASSUME LocalType, EInv, NEW b \in Blob, NEW e, RefreshFails(b, e), pc[b] \in Refreshing
    PROVE  EInv'
<1>1. Apart(b) /\ header'[b] = None /\ pc'[b] \in {"done", "invalidate", "pause"} /\ mu' = None
    BY OnceFailsApart DEF RefreshFails
<1>2. mu = b
    BY DEF EInv, RefreshExclusive, Refreshing
<1> QED
    BY <1>1, <1>2, StepExclusive DEF Holds, Bare, Refreshing

LEMMA RefreshedExclusive ==
    ASSUME LocalType, EInv, NEW b \in Blob, NEW v, Refreshed(b, v), pc[b] \in Refreshing
    PROVE  EInv'
<1>1. mu = b
    BY DEF EInv, RefreshExclusive, Refreshing
<1> QED
    BY <1>1, RefreshedApart, StepExclusive DEF Holds, Bare, Refreshing, Waiting

LEMMA AuthenticatorExclusive ==
    ASSUME LocalType, EInv, NEW b \in Blob,
           AuthHeader(b) \/ Ping(b) \/ FetchBearer(b) \/ Invalidate(b)
    PROVE  EInv'
<1>1. CASE AuthHeader(b)
    <2>1. pc[b] = "header" /\ mu = None
        BY <1>1 DEF AuthHeader, At
    <2>2. CASE Usable
        <3>1. Apart(b) /\ pc'[b] = "probe" /\ mu' = mu
            BY <1>1, <2>2 DEF AuthHeader, Goto, Apart, LocalType
        <3> QED
            BY <2>1, <3>1, StepExclusive DEF Holds, Bare, Refreshing, Waiting
    <2>3. CASE ~Usable
        <3>1. Moves(b, "ping") /\ mu' = b
            BY <1>1, <2>3 DEF AuthHeader, Moves
        <3>2. Bare(b)'
            BY <2>1, <3>1, MovesApart DEF EInv, Bare, Waiting
        <3> QED
            BY <2>1, <3>1, <3>2, MovesApart, StepExclusive DEF Holds, Refreshing
    <2> QED
        BY <2>2, <2>3
<1>2. CASE Ping(b)
    <2>1. pc[b] = "ping"
        BY <1>2 DEF Ping, At
    <2>2. CASE Goto(b, "token") /\ UNCHANGED <<mu, cache, local, res>>
        <3>1. Moves(b, "token") /\ mu' = mu
            BY <2>2 DEF Moves, local
        <3>2. Bare(b)'
            BY <2>1, <3>1, MovesApart DEF EInv, Bare, Refreshing
        <3> QED
            BY <2>1, <3>1, <3>2, MovesApart, StepExclusive DEF Holds, Refreshing
    <2> QED
        BY <1>2, <2>1, <2>2, RefreshedExclusive, RefreshFailsExclusive DEF Ping, Refreshing
<1>3. CASE FetchBearer(b)
    <2>1. pc[b] \in Refreshing
        BY <1>3 DEF FetchBearer, At, Refreshing
    <2> QED
        BY <1>3, <2>1, RefreshedExclusive, RefreshFailsExclusive DEF FetchBearer
<1>4. CASE Invalidate(b)
    <2>1. pc[b] = "invalidate" /\ mu' = mu /\ NextAttempt(b)
        BY <1>4 DEF Invalidate, At
    <2>2. Apart(b) /\ header'[b] \in {None, header[b]} /\ pc'[b] \in {"done", "header"}
        BY <2>1, NextAttemptApart
    <2>3. Bare(b)' /\ Holds(b)
        BY <2>1, <2>2 DEF EInv, Bare, Holds, Waiting, Refreshing
    <2> QED
        BY <2>2, <2>3, StepExclusive
<1> QED
    BY <1>1, <1>2, <1>3, <1>4

\* Outside of a refresh nobody touches the mutex.
LEMMA ProbeExclusive ==
    ASSUME LocalType, EInv, NEW b \in Blob,
           ChooseProbe(b) \/ HeadProbe(b) \/ RangeGet(b) \/ Pause(b)
    PROVE  EInv'
<1>1. mu' = mu /\ pc[b] \in {"probe", "head", "get", "pause"}
    BY DEF ChooseProbe, HeadProbe, RangeGet, Pause, At, shared
<1>2. ASSUME Apart(b), pc'[b] \in {"done", "invalidate", "pause"}, header'[b] = None PROVE EInv'
    BY <1>1, <1>2, StepExclusive DEF Holds, Bare, Refreshing
<1>3. ASSUME NEW l \in {"head", "get"}, Moves(b, l) PROVE EInv'
    BY <1>1, <1>3, MovesApart, StepExclusive DEF Holds, Bare, Refreshing, Waiting
<1>4. ASSUME NEW e, Return(b, e) \/ OnceFails(b, e) PROVE EInv'
    BY <1>2, <1>4, ReturnApart, OnceFailsApart
<1>5. CASE ChooseProbe(b)
    BY <1>3, <1>5 DEF ChooseProbe, Moves, local
<1>6. CASE HeadProbe(b)
    <2>1. ASSUME NEW a, TryGet(b, a) PROVE EInv'
        BY <1>3, <2>1 DEF TryGet, Moves
    <2>2. CASE FollowRedirect(b) /\ HopsLeft(b)
        <3>1. Apart(b) /\ UNCHANGED <<pc, header>>
            BY <2>2 DEF FollowRedirect, Apart, LocalType
        <3> QED
            BY <1>1, <3>1, StepExclusive DEF Holds, Bare, EInv
    <2>3. CASE FollowRedirect(b) /\ ~HopsLeft(b)
        BY <1>4, <2>3 DEF FollowRedirect
    <2> QED
        BY <1>4, <1>6, <2>1, <2>2, <2>3 DEF HeadProbe
<1>7. CASE RangeGet(b)
    BY <1>4, <1>7 DEF RangeGet
<1>8. CASE Pause(b)
    <2>1. CASE NextAttempt(b)
        <3>1. Apart(b) /\ header'[b] \in {None, header[b]} /\ pc'[b] \in {"done", "header"}
            BY <2>1, NextAttemptApart
        <3>2. Bare(b)' /\ Holds(b)
            BY <1>1, <1>8, <3>1 DEF EInv, Bare, Holds, Pause, At, Waiting, Refreshing
        <3> QED
            BY <3>1, <3>2, StepExclusive
    <2> QED
        BY <1>4, <1>8, <2>1 DEF Pause
<1> QED
    BY <1>5, <1>6, <1>7, <1>8

LEMMA NextExclusive == LocalType /\ EInv /\ [Next]_vars => EInv'
<1>1. ASSUME EInv, UNCHANGED <<mu, pc, header>> PROVE EInv'
    BY <1>1 DEF EInv, RefreshExclusive, Bare
<1> QED
    BY <1>1, AuthenticatorExclusive, ProbeExclusive
    DEF Next, Step, Expire, Done, vars, shared, local

LEMMA Exclusive == Steps => []EInv
<1>1. Init => EInv
    BY BlobAssumption DEF Init, EInv, RefreshExclusive, Bare
<1> QED
    BY <1>1, Typed, NextExclusive, PTL DEF Steps

\* The mutex is held by the one goroutine that refreshes, and by nobody once
\* its refresh has ended, well or not.
THEOREM RefreshAlwaysExclusive == Steps => []RefreshExclusive
<1>1. EInv => RefreshExclusive
    BY DEF EInv
<1> QED
    BY <1>1, Exclusive, PTL

\* Whoever waits for the mutex waits for a goroutine that is not waiting.
GoesOn(b) == ~At(b, "done") /\ (pc[b] \in {"header", "invalidate"} => mu = None)

\* Goroutines never all wait for each other: while a call has not returned,
\* some goroutine can go on.
THEOREM NeverAllWait == Steps => [](\A b \in Blob : ~At(b, "done") => \E q \in Blob : GoesOn(q))
<1>1. SharedType /\ EInv => \A b \in Blob : ~At(b, "done") => \E q \in Blob : GoesOn(q)
    <2> SUFFICES ASSUME SharedType, EInv, NEW b \in Blob, ~At(b, "done")
                 PROVE  \E q \in Blob : GoesOn(q)
        OBVIOUS
    <2>1. CASE mu = None
        BY <2>1 DEF GoesOn
    <2>2. CASE mu \in Blob
        <3>1. pc[mu] \in {"ping", "token"}
            BY <2>2 DEF EInv, RefreshExclusive
        <3> QED
            BY <2>2, <3>1 DEF GoesOn, At
    <2> QED
        BY <2>1, <2>2 DEF SharedType
<1> QED
    BY <1>1, Typed, Exclusive, PTL

------------------------------------------------------------------------------
(* The supply of tokens                                                     *)

LEMMA Least ==
    ASSUME NEW S \in SUBSET Nat, S # {}
    PROVE  \E m \in S : \A n \in S : m <= n
<1>1. PICK m \in S : \A n \in S : ~(<<n, m>> \in OpToRel(<, Nat))
    BY NatLessThanWellFounded, WFMin, Zenon
<1>2. ASSUME NEW n \in S PROVE m <= n
    <2>1. <<n, m>> \in OpToRel(<, Nat) <=> n < m
        <3>1. <<n, m>> \in Nat \X Nat
            OBVIOUS
        <3>2. <<n, m>>[1] = n /\ <<n, m>>[2] = m
            OBVIOUS
        <3> QED
            BY <3>1, <3>2, Zenon DEF OpToRel
    <2>2. ~(n < m)
        BY <1>1, <2>1, Zenon
    <2> QED
        BY <2>2
<1> QED
    BY <1>2

LEMMA ValuesBound ==
    ASSUME NEW S, NEW T, NEW f \in [S -> T], IsFiniteSet(S)
    PROVE  IsFiniteSet({f[x] : x \in S}) /\ Cardinality({f[x] : x \in S}) <= Cardinality(S)
<1>1. f \in Surjection(S, {f[x] : x \in S})
    BY DEF Surjection
<1> QED
    BY <1>1, FS_Surjection

LEMMA UnionBound ==
    ASSUME NEW S, NEW T, IsFiniteSet(S), IsFiniteSet(T)
    PROVE  IsFiniteSet(S \cup T) /\ Cardinality(S \cup T) <= Cardinality(S) + Cardinality(T)
<1>1. IsFiniteSet(S \cap T)
    BY FS_Subset
<1>2. Cardinality(S) \in Nat /\ Cardinality(T) \in Nat /\ Cardinality(S \cap T) \in Nat
    BY <1>1, FS_CardinalityType
<1>3. IsFiniteSet(S \cup T)
        /\ Cardinality(S \cup T) = Cardinality(S) + Cardinality(T) - Cardinality(S \cap T)
    BY FS_Union, Zenon
<1> QED
    BY <1>2, <1>3

\* A goroutine that asks for a token remembers one value fewer than it could,
\* so the values that are remembered cannot be all the tokens there are.
LEMMA TokenLeft ==
    ASSUME LocalType, NEW b \in Blob, header[b] = None
    PROVE  Token \ Remembered # {}
<1> DEFINE n == Cardinality(Blob)
           Others == Blob \ {b}
           g == [q \in Others |-> header[q]]
           H == {g[q] : q \in Others}
           R == {refused[q] : q \in Blob}
<1>1. IsFiniteSet(Blob) /\ n \in Nat
    BY BlobAssumption, FS_CardinalityType
<1>2. IsFiniteSet(Others) /\ Cardinality(Others) = n - 1
    BY <1>1, FS_RemoveElement
<1>3. IsFiniteSet(H) /\ Cardinality(H) <= n - 1
    <2>1. g \in [Others -> Header]
        BY DEF LocalType
    <2> HIDE DEF g, Others
    <2> QED
        BY <1>2, <2>1, ValuesBound, Zenon
<1>4. IsFiniteSet(R) /\ Cardinality(R) <= n
    <2>1. refused \in [Blob -> Header]
        BY DEF LocalType
    <2> QED
        BY <1>1, <2>1, ValuesBound, Zenon
<1>5. IsFiniteSet({cache.value}) /\ Cardinality({cache.value}) = 1
    BY FS_Singleton
<1>6. Remembered \subseteq {None} \cup ({cache.value} \cup (H \cup R))
    BY DEF Remembered
<1>7. None \notin Token
    BY <1>1, BlobAssumption DEF Token
<1>8. IsFiniteSet(Token) /\ Cardinality(Token) = 2 * n + 1
    BY <1>1, FS_Interval DEF Token
<1> HIDE DEF n, H, R
<1> DEFINE U == {cache.value} \cup (H \cup R)
<1>9. IsFiniteSet(U) /\ Cardinality(U) <= 2 * n
    <2>1. IsFiniteSet(H \cup R) /\ Cardinality(H \cup R) <= (n - 1) + n
        BY <1>1, <1>3, <1>4, UnionBound, FS_CardinalityType
    <2> QED
        BY <1>1, <1>5, <2>1, UnionBound, FS_CardinalityType
<1>10. ~(Token \subseteq U)
    <2> SUFFICES ASSUME Token \subseteq U PROVE FALSE
        OBVIOUS
    <2>1. Cardinality(Token) <= Cardinality(U)
        BY <1>9, FS_Subset
    <2> QED
        BY <1>1, <1>8, <1>9, <2>1, FS_CardinalityType
<1> QED
    BY <1>6, <1>7, <1>10

\* The finite supply of tokens never stands in for a failure: whenever a
\* goroutine asks for one, there is a next one that nobody remembers.
THEOREM TokensNeverRunOut ==
    Steps => [](\A b \in Blob : At(b, "token") =>
                  \E t \in Token \ Remembered : \A u \in Token \ Remembered : t <= u)
<1>1. LocalType /\ EInv =>
        \A b \in Blob : At(b, "token") =>
          \E t \in Token \ Remembered : \A u \in Token \ Remembered : t <= u
    <2> SUFFICES ASSUME LocalType, EInv, NEW b \in Blob, At(b, "token")
                 PROVE  \E t \in Token \ Remembered : \A u \in Token \ Remembered : t <= u
        OBVIOUS
    <2>1. Token \ Remembered # {}
        BY TokenLeft DEF EInv, Bare, At, Refreshing
    <2>2. Token \ Remembered \in SUBSET Nat
        BY BlobAssumption, FS_CardinalityType DEF Token
    <2> QED
        BY <2>1, <2>2, Least
<1> QED
    BY <1>1, Typed, Exclusive, PTL

------------------------------------------------------------------------------
(* The end of a call                                                        *)

\* A step of b leads nearer its return, and no one else's changes its place.
LEMMA StepNearer ==
    ASSUME LocalType, NEW b \in Blob, Step(b)
    PROVE  Apart(b) /\ Nearer(b)
<1> USE BoundsAssumption DEF Nearer
<1>1. attempt[b] \in Nat /\ hop[b] \in 0..(MaxHops - 1) /\ MaxHops \in Nat
    BY DEF LocalType
<1>2. ASSUME NEW e, OnceFails(b, e), pc[b] \in {"ping", "token", "head", "get"}
      PROVE  Apart(b) /\ Nearer(b)
    <2>1. /\ Apart(b)
          /\ \/ pc'[b] = "done"
             \/ pc'[b] \in {"invalidate", "pause"} /\ attempt'[b] = attempt[b]
        BY <1>2, OnceFailsApart
    <2>2. pc'[b] \in {"invalidate", "pause"} => Stage(b)' = 0
        BY DEF Stage
    <2>3. Stage(b) > 0
        BY <1>1, <1>2 DEF Stage
    <2> QED
        BY <2>1, <2>2, <2>3
<1>3. ASSUME NextAttempt(b) PROVE Apart(b) /\ Nearer(b)
    BY <1>3, NextAttemptApart
<1>4. ASSUME NEW r, Return(b, r) PROVE Apart(b) /\ Nearer(b)
    BY <1>4, ReturnApart
<1>5. ASSUME NEW v, Refreshed(b, v), pc[b] \in Refreshing PROVE Apart(b) /\ Nearer(b)
    <2>1. Apart(b) /\ pc'[b] = "probe" /\ attempt'[b] = attempt[b]
        BY <1>5, RefreshedApart
    <2> QED
        BY <1>1, <1>5, <2>1 DEF Stage, Refreshing
<1>6. ASSUME NEW l, Moves(b, l), \/ pc[b] = "header" /\ l = "ping"
                                 \/ pc[b] = "ping" /\ l = "token"
                                 \/ pc[b] = "probe" /\ l \in {"head", "get"}
                                 \/ pc[b] = "head" /\ l = "get"
      PROVE  Apart(b) /\ Nearer(b)
    <2>1. Apart(b) /\ pc'[b] = l /\ attempt'[b] = attempt[b] /\ hop'[b] = hop[b]
        BY <1>6, MovesApart
    <2> QED
        BY <1>1, <1>6, <2>1 DEF Stage
<1>7. CASE AuthHeader(b)
    <2>1. CASE Usable
        <3>1. Apart(b) /\ pc[b] = "header" /\ pc'[b] = "probe" /\ attempt'[b] = attempt[b]
            BY <1>7, <2>1 DEF AuthHeader, Goto, At, Apart, LocalType
        <3> QED
            BY <1>1, <3>1 DEF Stage
    <2>2. CASE ~Usable
        BY <1>6, <1>7, <2>2 DEF AuthHeader, Moves, At
    <2> QED
        BY <2>1, <2>2
<1>8. CASE Ping(b) \/ FetchBearer(b)
    <2>1. CASE Goto(b, "token") /\ UNCHANGED <<mu, cache, local, res>> /\ pc[b] = "ping"
        BY <1>6, <2>1 DEF Moves, local
    <2> QED
        BY <1>2, <1>5, <1>8, <2>1 DEF Ping, FetchBearer, RefreshFails, At, Refreshing
<1>9. CASE ChooseProbe(b)
    <2>1. pc[b] = "probe" /\ (Moves(b, "head") \/ Moves(b, "get"))
        BY <1>9 DEF ChooseProbe, At, Moves, local
    <2> QED
        BY <1>6, <2>1
<1>10. CASE HeadProbe(b)
    <2>1. pc[b] = "head"
        BY <1>10 DEF HeadProbe, At
    <2>2. CASE FollowRedirect(b) /\ HopsLeft(b)
        <3>1. Apart(b) /\ hop'[b] = hop[b] + 1 /\ pc' = pc /\ attempt'[b] = attempt[b]
            BY <2>2 DEF FollowRedirect, Apart, LocalType
        <3> QED
            BY <1>1, <2>1, <3>1 DEF Stage
    <2>3. ASSUME NEW a, TryGet(b, a) PROVE Apart(b) /\ Nearer(b)
        BY <1>6, <2>1, <2>3 DEF TryGet, Moves
    <2> QED
        BY <1>2, <1>4, <1>10, <2>1, <2>2, <2>3 DEF HeadProbe, FollowRedirect
<1>11. CASE RangeGet(b)
    BY <1>2, <1>4, <1>11 DEF RangeGet, At
<1>12. CASE Invalidate(b) \/ Pause(b)
    BY <1>3, <1>4, <1>12 DEF Invalidate, Pause
<1> QED
    BY <1>7, <1>8, <1>9, <1>10, <1>11, <1>12 DEF Step

\* A call of b has moved only if it got nearer its end.
Advances(b) == pc'[b] # pc[b] \/ hop'[b] # hop[b] => Nearer(b)

LEMMA NextAdvances ==
    ASSUME LocalType, [Next]_vars
    PROVE  \A b \in Blob : Advances(b)
<1>1. ASSUME NEW b \in Blob, Step(b) PROVE \A q \in Blob : Advances(q)
    BY <1>1, StepNearer DEF Apart, Advances
<1>2. ASSUME UNCHANGED <<pc, hop>> PROVE \A q \in Blob : Advances(q)
    BY <1>2 DEF Advances
<1> QED
    BY <1>1, <1>2 DEF Next, Expire, Done, vars, local

\* No goroutine's call ever goes back: attempts and redirects are used up and
\* not given back, however often the others drop the token they share.
THEOREM ResolvesAlwaysAdvance == Steps => [][\A b \in Blob : Advances(b)]_vars
<1>1. LocalType /\ [Next]_vars => [\A b \in Blob : Advances(b)]_vars
    BY NextAdvances
<1> QED
    BY <1>1, Typed, PTL DEF Steps
==============================================================================
