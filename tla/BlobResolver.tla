----------------------------- MODULE BlobResolver ----------------------------
(***************************************************************************)
(* Client.ResolveBlobURL run by several download goroutines at once. They  *)
(* share an Authenticator, whose token cache is guarded by a mutex that is *)
(* held across the network calls of a refresh, and the client's latches    *)
(* skipHead and rangeBlind, which any of them may set between two steps of *)
(* another. The registry (external) answers each request as it likes.      *)
(***************************************************************************)
EXTENDS Naturals, FiniteSets

CONSTANTS Blob,         \* blobs being resolved, each by its goroutine
          MaxAttempts,  \* attempts, and verdicts that confirm a 404 (3)
          MaxHops,      \* same-host redirects a HEAD probe follows (6)
          None,         \* no Authorization header; nobody holds the mutex
          PingAnswers,  \* what GET /v2/ may answer
          HeadAnswers,  \* what a HEAD probe may answer
          GetAnswers    \* what a ranged GET may answer

ASSUME AnswersAssumption ==
    /\ PingAnswers \subseteq {"anonymous", "bearer", "basic", "error", "ctx"}
    /\ HeadAnswers \subseteq {"ok", "cdn", "samehost", "astray", "unauthorized",
                              "unsupported", "notfound", "error", "unanswered", "ctx"}
    /\ GetAnswers \subseteq {"partial", "full", "cdn", "samehost", "unauthorized",
                             "notfound", "error", "ctx"}
ASSUME BoundsAssumption == {MaxAttempts, MaxHops} \subseteq Nat \ {0}
ASSUME BlobAssumption == IsFiniteSet(Blob) /\ None \notin Blob /\ None \notin Nat

\* 0 is the Basic value. A new bearer token differs from every value still
\* remembered somewhere; forgotten numbers are issued again.
Token == 1..(2 * Cardinality(Blob) + 1)
Header == {0, None} \cup Token

VARIABLES
    mu,         \* holder of Authenticator.mu
    cache,      \* refreshed, authValue, and whether expiresAt is far enough
    skipHead, rangeBlind,
    pc, attempt,
    hop,        \* same-host redirects followed
    notFound,   \* 404 verdicts
    head404,    \* did this attempt's HEAD answer 404
    header,     \* the Authorization value this attempt uses
    refused,    \* the value that was last answered with 401 or 403
    lastErr,    \* the error of the last attempt
    res         \* what ResolveBlobURL returned

shared == <<mu, cache>>
latches == <<skipHead, rangeBlind>>
local == <<attempt, hop, notFound, head404, header, refused, lastErr>>
vars == <<shared, latches, pc, local, res>>

Error == {"unauthorized", "notfound", "error", "ctx"}

TypeOK ==
    /\ mu \in Blob \cup {None}
    /\ cache \in [refreshed : BOOLEAN, value : Header, far : BOOLEAN]
    /\ {skipHead, rangeBlind} \subseteq BOOLEAN
    /\ pc \in [Blob -> {"header", "ping", "token", "probe", "head", "get",
                        "invalidate", "pause", "done"}]
    /\ attempt \in [Blob -> 1..MaxAttempts]
    /\ hop \in [Blob -> 0..(MaxHops - 1)]
    /\ notFound \in [Blob -> 0..(MaxAttempts - 1)]
    /\ head404 \in [Blob -> BOOLEAN]
    /\ header \in [Blob -> Header]
    /\ refused \in [Blob -> Header]
    /\ lastErr \in [Blob -> Error \cup {"none"}]
    /\ res \in [Blob -> Error \cup {"none", "url"}]

Init ==
    /\ mu = None
    /\ cache = [refreshed |-> FALSE, value |-> None, far |-> FALSE]
    /\ skipHead = FALSE /\ rangeBlind = FALSE
    /\ pc = [b \in Blob |-> "header"]
    /\ attempt = [b \in Blob |-> 1]
    /\ hop = [b \in Blob |-> 0]
    /\ notFound = [b \in Blob |-> 0]
    /\ head404 = [b \in Blob |-> FALSE]
    /\ header = [b \in Blob |-> None]
    /\ refused = [b \in Blob |-> None]
    /\ lastErr = [b \in Blob |-> "none"]
    /\ res = [b \in Blob |-> "none"]

------------------------------------------------------------------------------
At(b, l) == pc[b] = l
Goto(b, l) == pc' = [pc EXCEPT ![b] = l]

\* ResolveBlobURL returns r, and its locals are gone.
Return(b, r) ==
    /\ Goto(b, "done")
    /\ res' = [res EXCEPT ![b] = r]
    /\ attempt' = [attempt EXCEPT ![b] = 1]
    /\ hop' = [hop EXCEPT ![b] = 0]
    /\ notFound' = [notFound EXCEPT ![b] = 0]
    /\ head404' = [head404 EXCEPT ![b] = FALSE]
    /\ header' = [header EXCEPT ![b] = None]
    /\ refused' = [refused EXCEPT ![b] = None]
    /\ lastErr' = [lastErr EXCEPT ![b] = "none"]

\* resolveBlobURLOnce failed. A cancellation or a deadline ("ctx") returns at
\* once, and so does the third 404; a refused header is invalidated, anything
\* else waited for.
OnceFails(b, e) ==
    \/ e = "ctx" /\ Return(b, e)
    \/ e = "notfound" /\ notFound[b] + 1 >= MaxAttempts /\ Return(b, e)
    \/ /\ e \in {"unauthorized", "notfound", "error"}
       /\ e = "notfound" => notFound[b] + 1 < MaxAttempts
       /\ Goto(b, IF e = "unauthorized" THEN "invalidate" ELSE "pause")
       /\ lastErr' = [lastErr EXCEPT ![b] = e]
       /\ notFound' = [notFound EXCEPT ![b] = IF e = "notfound" THEN @ + 1 ELSE @]
       /\ refused' = [refused EXCEPT ![b] = IF e = "unauthorized" THEN header[b] ELSE @]
       /\ hop' = [hop EXCEPT ![b] = 0]
       /\ head404' = [head404 EXCEPT ![b] = FALSE]
       /\ header' = [header EXCEPT ![b] = None]
       /\ UNCHANGED <<attempt, res>>

\* Slip: a refused attempt is not counted.
NextAttemptUncounted(b) ==
    IF attempt[b] < MaxAttempts \/ lastErr[b] = "unauthorized"
    THEN /\ Goto(b, "header")
         /\ attempt' = [attempt EXCEPT ![b] = IF lastErr[b] = "unauthorized" THEN @ ELSE @ + 1]
         /\ lastErr' = [lastErr EXCEPT ![b] = "none"]
         /\ UNCHANGED <<hop, notFound, head404, header, refused, res>>
    ELSE Return(b, lastErr[b])

\* The loop goes on, or ends with the last error.
NextAttempt(b) ==
    IF attempt[b] < MaxAttempts
    THEN /\ Goto(b, "header")
         /\ attempt' = [attempt EXCEPT ![b] = @ + 1]
         /\ lastErr' = [lastErr EXCEPT ![b] = "none"]
         /\ UNCHANGED <<hop, notFound, head404, header, refused, res>>
    ELSE Return(b, lastErr[b])

Pause(b) ==
    /\ At(b, "pause")
    /\ NextAttempt(b) \/ Return(b, "ctx")
    /\ UNCHANGED <<shared, latches>>

------------------------------------------------------------------------------
(* Authenticator                                                            *)

Usable == cache.refreshed /\ (cache.value = None \/ cache.far)

\* Header: the cached value, or a refresh that keeps the mutex.
AuthHeader(b) ==
    /\ At(b, "header")
    /\ mu = None
    /\ \/ /\ Usable
          /\ header' = [header EXCEPT ![b] = cache.value]
          /\ Goto(b, "probe")
          /\ UNCHANGED mu
       \/ /\ ~Usable
          /\ mu' = b
          /\ Goto(b, "ping")
          /\ UNCHANGED header
    /\ UNCHANGED <<cache, latches, attempt, hop, notFound, head404, refused, lastErr, res>>

\* A refresh ends with value v, and Header returns it.
Refreshed(b, v) ==
    /\ cache' = [refreshed |-> TRUE, value |-> v, far |-> TRUE]
    /\ header' = [header EXCEPT ![b] = v]
    /\ mu' = None
    /\ Goto(b, "probe")
    /\ UNCHANGED <<attempt, hop, notFound, head404, refused, lastErr, res>>

\* Slip: an early return of Header leaves the mutex locked.
RefreshFailsLocked(b, e) == UNCHANGED <<mu, cache>> /\ OnceFails(b, e)

RefreshFails(b, e) == mu' = None /\ UNCHANGED cache /\ OnceFails(b, e)

\* refreshLocked and handleChallengeLocked.
Ping(b) ==
    /\ At(b, "ping")
    /\ \E a \in PingAnswers :
         \/ a = "anonymous" /\ Refreshed(b, None)
         \/ a = "basic" /\ Refreshed(b, 0)
         \/ a = "bearer" /\ Goto(b, "token") /\ UNCHANGED <<mu, cache, local, res>>
         \/ a \in {"error", "ctx"} /\ RefreshFails(b, a)
    /\ UNCHANGED latches

Remembered == {cache.value} \cup {header[b] : b \in Blob} \cup {refused[b] : b \in Blob}

FetchBearer(b) ==
    /\ At(b, "token")
    /\ \/ \E t \in Token \ Remembered :
             (\A u \in Token \ Remembered : t <= u) /\ Refreshed(b, t)
       \/ \E e \in PingAnswers \cap {"error", "ctx"} : RefreshFails(b, e)
    /\ UNCHANGED latches

\* Slip: the cache is marked stale only if it was near its expiry anyway.
InvalidateStale(b) ==
    /\ At(b, "invalidate")
    /\ mu = None
    /\ cache' = IF cache.far THEN cache ELSE [cache EXCEPT !.refreshed = FALSE]
    /\ NextAttempt(b)
    /\ UNCHANGED <<mu, latches>>

\* Drops whatever the cache holds by now, and goes on without a pause.
Invalidate(b) ==
    /\ At(b, "invalidate")
    /\ mu = None
    /\ cache' = [refreshed |-> FALSE, value |-> None, far |-> FALSE]
    /\ NextAttempt(b)
    /\ UNCHANGED <<mu, latches>>

\* The cached value comes within 30 seconds of its expiry.
Expire ==
    /\ mu = None /\ cache.far
    /\ cache' = [cache EXCEPT !.far = FALSE]
    /\ UNCHANGED <<mu, latches, pc, local, res>>

------------------------------------------------------------------------------
(* resolveBlobURLOnce                                                       *)

ChooseProbe(b) ==
    /\ At(b, "probe")
    /\ Goto(b, IF skipHead THEN "get" ELSE "head")
    /\ UNCHANGED <<shared, latches, local, res>>

\* HEAD does not settle it: ask with a ranged GET. A HEAD that is unsupported
\* or has no answer latches skipHead first, whether it timed out or the
\* connection was refused or reset.
TryGet(b, a) ==
    /\ Goto(b, "get")
    /\ skipHead' = (skipHead \/ a \in {"unanswered", "unsupported"})
    /\ head404' = [head404 EXCEPT ![b] = a = "notfound"]
    /\ UNCHANGED <<rangeBlind, attempt, hop, notFound, header, refused, lastErr, res>>

\* Slip: one redirect too many.
HopsLeftLate(b) == hop[b] < MaxHops

HopsLeft(b) == hop[b] < MaxHops - 1

FollowRedirect(b) ==
    IF HopsLeft(b)
    THEN /\ hop' = [hop EXCEPT ![b] = @ + 1]
         /\ UNCHANGED <<pc, attempt, notFound, head404, header, refused, lastErr, res>>
    ELSE OnceFails(b, "error")

\* Slip: a 404 of HEAD is taken at its word.
HeadProbeTrusted(b) ==
    /\ At(b, "head")
    /\ \E a \in HeadAnswers :
         \/ a \in {"ok", "cdn"} /\ Return(b, "url") /\ UNCHANGED latches
         \/ a = "samehost" /\ FollowRedirect(b) /\ UNCHANGED latches
         \/ a = "astray" /\ OnceFails(b, "error") /\ UNCHANGED latches
         \/ a \in {"unauthorized", "notfound", "ctx"} /\ OnceFails(b, a) /\ UNCHANGED latches
         \/ a \in {"error", "unanswered", "unsupported"} /\ TryGet(b, a)
    /\ UNCHANGED shared

\* "astray" redirects without a Location that can be used.
HeadProbe(b) ==
    /\ At(b, "head")
    /\ \E a \in HeadAnswers :
         \/ a \in {"ok", "cdn"} /\ Return(b, "url") /\ UNCHANGED latches
         \/ a = "samehost" /\ FollowRedirect(b) /\ UNCHANGED latches
         \/ a = "astray" /\ OnceFails(b, "error") /\ UNCHANGED latches
         \/ a \in {"unauthorized", "ctx"} /\ OnceFails(b, a) /\ UNCHANGED latches
         \/ a \in {"notfound", "error", "unanswered", "unsupported"} /\ TryGet(b, a)
    /\ UNCHANGED shared

\* Slip: a 404 of HEAD latches skipHead whatever the GET says.
LatchedByGet404(b, success) == skipHead \/ head404[b]

\* A GET that succeeds where HEAD said 404 latches skipHead.
LatchedByGet(b, success) == skipHead \/ (head404[b] /\ success)

Success == {"partial", "full", "cdn", "samehost"}

\* resolveViaRangeGet: a full answer to a ranged request latches rangeBlind.
RangeGet(b) ==
    /\ At(b, "get")
    /\ \E a \in GetAnswers :
         /\ \/ a \in Success /\ Return(b, "url")
            \/ a \notin Success /\ OnceFails(b, a)
         /\ rangeBlind' = (rangeBlind \/ a = "full")
         /\ skipHead' = LatchedByGet(b, a \in Success)
    /\ UNCHANGED shared

Step(b) ==
    \/ AuthHeader(b) \/ Ping(b) \/ FetchBearer(b) \/ Invalidate(b)
    \/ ChooseProbe(b) \/ HeadProbe(b) \/ RangeGet(b) \/ Pause(b)

Done == (\A b \in Blob : At(b, "done")) /\ UNCHANGED vars

Next == (\E b \in Blob : Step(b)) \/ Expire \/ Done

\* Goroutines run, and every request is answered or times out. Nothing need
\* be assumed of the mutex: the others' attempts, which may go first, run out.
Fairness == \A b \in Blob : WF_vars(Step(b))

Steps == Init /\ [][Next]_vars

Spec == Steps /\ Fairness

------------------------------------------------------------------------------
(* Properties                                                               *)

\* After a 401 the next probe never presents the bearer token that was just
\* refused, although other goroutines refresh and invalidate the shared cache
\* in between ("callers should call Invalidate() and ask again").
NeverRepeatsRefused ==
    \A b \in Blob : pc[b] \in {"probe", "head", "get"} /\ refused[b] \notin {None, 0}
                        => header[b] # refused[b]

\* One goroutine at a time refreshes, and it gives the mutex back on every way
\* out of the refresh: a goroutine that waits for it waits for one that runs.
RefreshExclusive == \A b \in Blob : mu = b <=> pc[b] \in {"ping", "token"}

\* How far an attempt is from its end, the redirects that are left included.
Stage(b) ==
    CASE pc[b] = "header" -> MaxHops + 5
      [] pc[b] = "ping" -> MaxHops + 4
      [] pc[b] = "token" -> MaxHops + 3
      [] pc[b] = "probe" -> MaxHops + 2
      [] pc[b] = "head" -> MaxHops + 1 - hop[b]
      [] pc[b] = "get" -> 1
      [] OTHER -> 0

\* b gets nearer its return: another attempt, or a later stage of this one.
Nearer(b) ==
    \/ pc'[b] = "done"
    \/ attempt'[b] > attempt[b]
    \/ attempt'[b] = attempt[b] /\ Stage(b)' < Stage(b)

\* A HEAD's flaky 404 never decides how later blobs are probed: what latches
\* skipHead for all of them is another answer, or the ranged GET of the same
\* attempt that disproves the 404 (comment of Client.skipHead).
NotFoundNeverLatches ==
    [][skipHead' # skipHead => \E b \in Blob :
         \/ At(b, "head") /\ pc'[b] = "get" /\ ~head404'[b]
         \/ At(b, "get") /\ head404[b] /\ res'[b] = "url"]_vars

\* A blob is declared missing only on the word of the last attempt, and of its
\* ranged GET when HEAD said otherwise or was not asked: neither an earlier
\* attempt's 404 nor a HEAD alone is enough (comment above the GET after 404).
MissingOnEvidence ==
    [][\A b \in Blob : res'[b] = "notfound" /\ res[b] = "none" =>
         \/ At(b, "get")
         \/ At(b, "pause") /\ lastErr[b] = "notfound" /\ notFound[b] > 0
              /\ attempt[b] = MaxAttempts]_vars

\* ResolveBlobURL's comment: "demand several consecutive verdicts before
\* declaring the blob missing".
NotFoundConfirmed ==
    [][\A b \in Blob : res'[b] = "notfound" /\ res[b] = "none" =>
         notFound[b] + (IF At(b, "get") THEN 1 ELSE 0) >= MaxAttempts]_vars
==============================================================================
