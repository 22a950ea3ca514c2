---------------------------- MODULE RegistryProofs -----------------------------
(***************************************************************************)
(* For any documents, nesting, platform and faults: what is returned is    *)
(* what the tag led to during the call, and transient failures are         *)
(* returned only when all attempts are used up. Then the composition: what *)
(* was proved of the two resolutions holds of a pull that makes both.      *)
(***************************************************************************)
EXTENDS Registry, BlobResolverProofs, SequenceTheorems

\* path follows the entries selected for the platform, from the tag.
Chain(p) ==
    \A n \in 1..(Len(p) - 1) :
        /\ Kind[p[n]] = "index"
        /\ \E i \in DOMAIN Entries[p[n]] :
             SelectPlatform(p[n], i) /\ Entries[p[n]][i].doc = p[n + 1]

FromTag == path # <<>> /\ path[1] \in held /\ Chain(path)

MInv ==
    /\ ManifestTypeOK
    /\ tag \in held
    /\ mpc = "walk" => FromTag
    /\ mpc # "returned" => mres = "none"
    /\ mpc = "backoff" => try < Tries
    /\ mres \in Doc =>
         FromTag /\ path[Len(path)] = mres /\ Kind[mres] \in {"manifest", "bareManifest"}
    /\ mres \in {"transient", "deadline"} => try = Tries \/ mcancelled

LEMMA FailureIsNoDoc == \A e \in Failure \cup {"none"} : e \notin Doc
    BY ManifestFaultsAssumption DEF Failure

LEMMA ReturnErrorInv ==
    ASSUME MInv, mpc # "returned", NEW e \in Failure, ManifestReturn(e),
           e \in {"transient", "deadline"} => try = Tries \/ mcancelled,
           UNCHANGED <<tag, held, mcancelled>>
    PROVE  MInv'
BY FailureIsNoDoc DEF MInv, ManifestTypeOK, ManifestReturn

\* A failed attempt leaves for the backoff, or returns its error.
LEMMA TryFailsInv ==
    ASSUME MInv, mpc # "returned", NEW e \in Failure, TryFails(e), UNCHANGED <<tag, held, mcancelled>>
    PROVE  MInv'
<1>1. CASE (mcancelled \/ ~RetryableFetch(e) \/ try >= Tries) /\ ManifestReturn(e)
    <2>1. e \in {"transient", "deadline"} => try = Tries \/ mcancelled
        BY <1>1, LimitsAssumption DEF RetryableFetch, MInv, ManifestTypeOK
    <2> QED
        BY <1>1, <2>1, ReturnErrorInv
<1>2. CASE try < Tries /\ mpc' = "backoff" /\ path' = <<>> /\ UNCHANGED <<try, mres>>
    <2>1. ManifestTypeOK'
        <3>1. <<>> \in Seq(Doc) /\ Len(<<>>) = 0
            OBVIOUS
        <3> QED
            BY <1>2, <3>1, LimitsAssumption DEF MInv, ManifestTypeOK
    <2> QED
        BY <1>2, <2>1, FailureIsNoDoc DEF MInv
<1> QED
    BY <1>1, <1>2 DEF TryFails

LEMMA GetFailsInv ==
    ASSUME MInv, mpc # "returned", GetFails, UNCHANGED <<tag, held, mcancelled>>
    PROVE  MInv'
BY TryFailsInv, ManifestFaultsAssumption DEF GetFails, Failure

LEMMA GetTagInv == ASSUME MInv, GetTag PROVE MInv'
<1>1. CASE mpc' = "walk" /\ path' = <<tag>> /\ UNCHANGED <<try, mres>>
    <2>1. UNCHANGED <<tag, held, mcancelled>> /\ mpc = "tag"
        BY DEF GetTag
    <2>2. <<tag>> \in Seq(Doc) /\ Len(<<tag>>) = 1 /\ <<tag>>[1] = tag /\ <<tag>> # <<>>
        BY DocAssumption DEF MInv, ManifestTypeOK
    <2>3. ManifestTypeOK'
        BY <1>1, <2>1, <2>2, LimitsAssumption DEF MInv, ManifestTypeOK
    <2>4. FromTag'
        BY <1>1, <2>1, <2>2 DEF MInv, FromTag, Chain
    <2> QED
        BY <1>1, <2>1, <2>3, <2>4, FailureIsNoDoc DEF MInv
<1>2. CASE GetFails
    BY <1>2, GetFailsInv DEF GetTag
<1> QED
    BY <1>1, <1>2 DEF GetTag

\* The chain grows by the entry selected.
LEMMA AppendChain ==
    ASSUME NEW p \in Seq(Doc), p # <<>>, Chain(p), Kind[p[Len(p)]] = "index",
           NEW i \in DOMAIN Entries[p[Len(p)]], SelectPlatform(p[Len(p)], i)
    PROVE  LET q == Append(p, Entries[p[Len(p)]][i].doc) IN
             /\ q \in Seq(Doc) /\ Len(q) = Len(p) + 1 /\ q # <<>> /\ q[1] = p[1]
             /\ Chain(q)
<1> DEFINE c == Entries[p[Len(p)]][i].doc
           q == Append(p, c)
<1>1. Len(p) \in Nat /\ Len(p) > 0
    OBVIOUS
<1>2. p[Len(p)] \in Doc
    BY <1>1
<1>3. c \in Doc
    <2>1. Entries[p[Len(p)]] \in Seq(Descriptor)
        BY <1>2, DocAssumption
    <2>2. Entries[p[Len(p)]][i] \in Descriptor
        BY <2>1
    <2> QED
        BY <2>2 DEF Descriptor
<1>4. q \in Seq(Doc) /\ Len(q) = Len(p) + 1
    BY <1>3
<1>5. \A n \in 1..Len(p) : q[n] = p[n]
    BY <1>3
<1>6. q[Len(p) + 1] = c
    BY <1>3
<1>7. ASSUME NEW n \in 1..(Len(q) - 1)
      PROVE  /\ Kind[q[n]] = "index"
             /\ \E k \in DOMAIN Entries[q[n]] :
                  SelectPlatform(q[n], k) /\ Entries[q[n]][k].doc = q[n + 1]
    <2>1. CASE n = Len(p)
        BY <1>1, <1>5, <1>6, <2>1
    <2>2. CASE n # Len(p)
        <3>1. n \in 1..(Len(p) - 1) /\ n \in 1..Len(p) /\ n + 1 \in 1..Len(p)
            BY <1>1, <1>4, <2>2
        <3> QED
            BY <1>5, <3>1 DEF Chain
    <2> QED
        BY <2>1, <2>2
<1> HIDE DEF c, q
<1>8. Chain(q)
    BY <1>7 DEF Chain
<1> QED
    BY <1>1, <1>4, <1>5, <1>8 DEF q, c

LEMMA DescendInv == ASSUME MInv, Descend PROVE MInv'
<1>1. /\ mpc = "walk" /\ Kind[Desc] = "index" /\ DepthLeft
      /\ UNCHANGED <<tag, held, mcancelled>>
    BY DEF Descend
<1>2. PICK i \in DOMAIN Entries[Desc] :
         /\ SelectPlatform(Desc, i)
         /\ \/ path' = Append(path, Entries[Desc][i].doc) /\ UNCHANGED <<mpc, try, mres>>
            \/ GetFails
    BY DEF Descend
<1>3. CASE path' = Append(path, Entries[Desc][i].doc) /\ UNCHANGED <<mpc, try, mres>>
    <2>1. path \in Seq(Doc) /\ FromTag
        BY <1>1 DEF MInv, ManifestTypeOK
    <2>2. /\ path' \in Seq(Doc) /\ Len(path') = Len(path) + 1 /\ path' # <<>>
          /\ path'[1] = path[1] /\ Chain(path')
        BY <1>1, <1>2, <1>3, <2>1, AppendChain DEF FromTag, Desc
    <2>3. Len(path') <= MaxDepth + 1
        BY <1>1, <2>1, <2>2, LimitsAssumption DEF DepthLeft, Depth
    <2>4. ManifestTypeOK' /\ FromTag'
        BY <1>1, <1>3, <2>1, <2>2, <2>3 DEF MInv, ManifestTypeOK, FromTag, Chain
    <2> QED
        BY <1>1, <1>3, <2>4, FailureIsNoDoc DEF MInv
<1>4. CASE GetFails
    BY <1>1, <1>4, GetFailsInv
<1> QED
    BY <1>2, <1>3, <1>4

LEMMA DeliverInv == ASSUME MInv, Deliver PROVE MInv'
<1>1. /\ mpc = "walk" /\ Kind[Desc] \in {"manifest", "bareManifest"} /\ mpc' = "returned"
      /\ mres' = Desc /\ UNCHANGED <<try, path, tag, held, mcancelled>>
    BY DEF Deliver, ManifestReturn
<1>2. path \in Seq(Doc) /\ FromTag
    BY <1>1 DEF MInv, ManifestTypeOK
<1>3. Desc \in Doc /\ Desc = path[Len(path)]
    BY <1>2 DEF FromTag, Desc
<1>4. Desc \notin Failure
    BY <1>3, FailureIsNoDoc
<1> QED
    BY <1>1, <1>2, <1>3, <1>4 DEF MInv, ManifestTypeOK, FromTag, Chain, Failure

LEMMA BackoffInv == ASSUME MInv, ManifestBackoff PROVE MInv'
<1>1. mpc = "backoff" /\ UNCHANGED <<tag, held, mcancelled>>
    BY DEF ManifestBackoff
<1>2. CASE ManifestReturn("canceled")
    BY <1>1, <1>2, ReturnErrorInv DEF Failure
<1>3. CASE mpc' = "tag" /\ try' = try + 1 /\ UNCHANGED <<path, mres>>
    <2>1. try < Tries /\ try \in Nat /\ Tries \in Nat /\ mres = "none"
        BY <1>1, LimitsAssumption DEF MInv, ManifestTypeOK
    <2>2. try' \in 1..Tries
        BY <1>3, <2>1
    <2> QED
        BY <1>1, <1>3, <2>1, <2>2, FailureIsNoDoc DEF MInv, ManifestTypeOK
<1> QED
    BY <1>1, <1>2, <1>3 DEF ManifestBackoff

LEMMA RejectInv == ASSUME MInv, Reject PROVE MInv'
BY TryFailsInv DEF Reject, Failure

\* A moving tag does not touch the chain, and held only grows.
LEMMA MoveTagInv == ASSUME MInv, MoveTag PROVE MInv'
<1>1. /\ UNCHANGED <<mpc, try, path, mcancelled, mres>> /\ mpc # "returned" /\ mres = "none"
      /\ tag' \in Tagged /\ held' = held \cup {tag'}
    BY DEF MoveTag, MInv
<1>2. mpc = "walk" => FromTag'
    BY <1>1 DEF MInv, FromTag, Chain
<1> QED
    BY <1>1, <1>2, FailureIsNoDoc DEF MInv, ManifestTypeOK

LEMMA CancelInv == ASSUME MInv, ManifestCancel PROVE MInv'
BY FailureIsNoDoc DEF ManifestCancel, MInv, ManifestTypeOK, FromTag, Chain

LEMMA StutterInv == ASSUME MInv, UNCHANGED mvars PROVE MInv'
BY DEF mvars, MInv, ManifestTypeOK, FromTag, Chain

LEMMA ManifestInitInv == ASSUME ManifestInit PROVE MInv
<1>1. <<>> \in Seq(Doc) /\ Len(<<>>) = 0
    OBVIOUS
<1>2. 1 \in 1..Tries /\ 0 <= MaxDepth + 1
    BY LimitsAssumption
<1>3. ManifestTypeOK
    BY <1>1, <1>2 DEF ManifestInit, ManifestTypeOK
<1> QED
    BY <1>3, FailureIsNoDoc DEF ManifestInit, MInv

LEMMA MNextInv == MInv /\ [ManifestNext]_mvars => MInv'
BY GetTagInv, DescendInv, RejectInv, DeliverInv, BackoffInv, MoveTagInv, CancelInv, StutterInv
   DEF ManifestNext, ManifestStep

LEMMA ManifestInvariant == ManifestSpec => []MInv
BY ManifestInitInv, MNextInv, PTL DEF ManifestSpec

------------------------------------------------------------------------------
\* SelectPlatform's matching is the relation Serves, and it takes the first.
LEMMA SelectsFirstServed ==
    ASSUME NEW d, NEW i \in DOMAIN Entries[d], SelectPlatform(d, i)
    PROVE  Serves(d, i) /\ \A j \in DOMAIN Entries[d] : Serves(d, j) => i <= j
<1>1. \A j \in DOMAIN Entries[d] : j \in Matching(d) <=> Serves(d, j)
    BY DEF Matching, Serves, Unknown, Matches
<1> QED
    BY <1>1 DEF SelectPlatform

\* The call keeps its types; path is never longer than the hops allow.
THEOREM ManifestTypeCorrect == ManifestSpec => []ManifestTypeOK
<1>1. MInv => ManifestTypeOK
    BY DEF MInv
<1> QED
    BY <1>1, ManifestInvariant, PTL

LEMMA InvAnswers == MInv => ResultFromTag /\ TransientRetried
<1>1. MInv => TransientRetried
    BY DEF MInv, TransientRetried
<1>2. ASSUME MInv, mres \in Doc PROVE ResultFromTag
    <2>1. FromTag /\ path[Len(path)] = mres /\ Kind[mres] \in {"manifest", "bareManifest"}
        BY <1>2 DEF MInv
    <2> QED
        BY <2>1, SelectsFirstServed DEF ResultFromTag, FromTag, Chain
<1> QED
    BY <1>1, <1>2 DEF ResultFromTag

\* A manifest returned is what the tag led to at some moment of the call.
THEOREM ResultAlwaysFromTag == ManifestSpec => []ResultFromTag
BY InvAnswers, ManifestInvariant, PTL

\* A transient failure is returned only when every attempt was made, or after
\* a cancellation.
THEOREM TransientAlwaysRetried == ManifestSpec => []TransientRetried
BY InvAnswers, ManifestInvariant, PTL

------------------------------------------------------------------------------
(* The selection                                                            *)

\* An index that lists an entry for the platform has exactly one that is taken.
LEMMA SelectsOne ==
    ASSUME NEW d \in Doc, Matching(d) # {}
    PROVE  \E i \in DOMAIN Entries[d] :
             SelectPlatform(d, i) /\ \A j : SelectPlatform(d, j) => j = i
<1>1. Matching(d) \subseteq DOMAIN Entries[d] /\ Matching(d) \in SUBSET Nat
    <2>1. Entries[d] \in Seq(Descriptor)
        BY DocAssumption
    <2>2. DOMAIN Entries[d] = 1..Len(Entries[d]) /\ Len(Entries[d]) \in Nat
        BY <2>1
    <2> QED
        BY <2>2 DEF Matching
<1>2. PICK i \in Matching(d) : \A j \in Matching(d) : i <= j
    BY <1>1, Least
<1>3. \A j : SelectPlatform(d, j) => j = i
    BY <1>1, <1>2 DEF SelectPlatform
<1> QED
    BY <1>1, <1>2, <1>3 DEF SelectPlatform

\* A walk is never at a loss: whatever the document fetched last is, it is an
\* index with an entry to descend to, or it is delivered, or it is rejected.
THEOREM WalkNeverStuck ==
    ManifestSpec => [](mpc = "walk" =>
        \/ /\ Kind[Desc] = "index" /\ DepthLeft
           /\ \E i \in DOMAIN Entries[Desc] : SelectPlatform(Desc, i)
        \/ Kind[Desc] = "index" /\ (~DepthLeft \/ Matching(Desc) = {})
        \/ Kind[Desc] \in {"bareIndex", "invalid", "other"}
        \/ Kind[Desc] \in {"manifest", "bareManifest"})
<1> DEFINE Cases ==
      \/ /\ Kind[Desc] = "index" /\ DepthLeft
         /\ \E i \in DOMAIN Entries[Desc] : SelectPlatform(Desc, i)
      \/ Kind[Desc] = "index" /\ (~DepthLeft \/ Matching(Desc) = {})
      \/ Kind[Desc] \in {"bareIndex", "invalid", "other"}
      \/ Kind[Desc] \in {"manifest", "bareManifest"}
<1>1. MInv => (mpc = "walk" => Cases)
    <2> SUFFICES ASSUME MInv, mpc = "walk" PROVE Cases
        OBVIOUS
    <2>1. path \in Seq(Doc) /\ path # <<>>
        BY DEF MInv, ManifestTypeOK, FromTag
    <2>2. Desc \in Doc
        BY <2>1 DEF Desc
    <2>3. Kind[Desc] \in Kinds
        BY <2>2, DocAssumption
    <2>4. Matching(Desc) # {} => \E i \in DOMAIN Entries[Desc] : SelectPlatform(Desc, i)
        BY <2>2, SelectsOne
    <2> QED
        BY <2>3, <2>4 DEF Kinds
<1> QED
    BY <1>1, ManifestInvariant, PTL

------------------------------------------------------------------------------
(* The end of the call                                                      *)

LEMMA TryFailsNearer ==
    ASSUME MInv, mpc \in {"tag", "walk"}, NEW e, TryFails(e)
    PROVE  ManifestNearer
<1>1. CASE ManifestReturn(e)
    BY <1>1 DEF ManifestReturn, ManifestNearer
<1>2. CASE mpc' = "backoff" /\ try' = try
    <2>1. ManifestStage' = 0
        BY <1>2 DEF ManifestStage
    <2>2. ManifestStage > 0
        BY LimitsAssumption DEF MInv, ManifestTypeOK, ManifestStage
    <2> QED
        BY <1>2, <2>1, <2>2 DEF ManifestNearer
<1> QED
    BY <1>1, <1>2 DEF TryFails

\* Every step of the call leads nearer its end: a document more of a chain
\* that is no longer than the hops allow, an attempt more, or the return.
LEMMA StepGetsNearer ==
    ASSUME MInv, ManifestStep
    PROVE  ManifestNearer
<1>1. ASSUME mpc \in {"tag", "walk"}, GetFails PROVE ManifestNearer
    BY <1>1, TryFailsNearer DEF GetFails
<1>2. CASE GetTag
    <2>1. CASE mpc' = "walk" /\ path' = <<tag>> /\ try' = try
        <3>1. mpc = "tag" /\ Len(path') = 1
            BY <1>2, <2>1 DEF GetTag
        <3> QED
            BY <2>1, <3>1, LimitsAssumption DEF ManifestNearer, ManifestStage
    <2> QED
        BY <1>1, <1>2, <2>1 DEF GetTag
<1>3. CASE Descend
    <2>1. mpc = "walk"
        BY <1>3 DEF Descend
    <2>2. ASSUME NEW d, path' = Append(path, d), mpc' = mpc, try' = try PROVE ManifestNearer
        <3>1. path \in Seq(Doc)
            BY DEF MInv, ManifestTypeOK
        <3>2. Len(path') = Len(path) + 1 /\ Len(path) \in Nat
            BY <2>2, <3>1
        <3> QED
            BY <2>1, <2>2, <3>2, LimitsAssumption DEF ManifestNearer, ManifestStage
    <2> QED
        BY <1>1, <1>3, <2>1, <2>2 DEF Descend
<1>4. CASE Reject
    BY <1>4, TryFailsNearer DEF Reject
<1>5. CASE Deliver
    BY <1>5 DEF Deliver, ManifestReturn, ManifestNearer
<1>6. CASE ManifestBackoff
    BY <1>6 DEF ManifestBackoff, ManifestReturn, ManifestNearer, MInv, ManifestTypeOK
<1> QED
    BY <1>2, <1>3, <1>4, <1>5, <1>6 DEF ManifestStep

\* The call moves only towards its end.
Goes == mpc = "returned" \/ UNCHANGED <<mpc, try, path>> \/ ManifestNearer

LEMMA ManifestGoes == MInv /\ [ManifestNext]_mvars => Goes
    BY StepGetsNearer DEF ManifestNext, MoveTag, ManifestCancel, mvars, Goes

\* The manifest's resolution only ever uses up attempts and hops.
THEOREM ManifestAlwaysAdvances == ManifestSpec => [][Goes]_mvars
<1>1. MInv /\ [ManifestNext]_mvars => [Goes]_mvars
    BY ManifestGoes
<1> QED
    BY <1>1, ManifestInvariant, PTL DEF ManifestSpec

------------------------------------------------------------------------------
(* The composition                                                          *)

LEMMA RegistryStepIsBlobStep == [RegistryNext]_rvars => [Next]_vars
BY DEF RegistryNext, ResolvingManifest, ManifestDone, ResolvingBlob, TokenExpires, PullOver,
       rvars, Next

\* Before, between and after its own steps the manifest's resolution does not
\* touch the blobs', nor the other way round: a pull's blobs are resolved as
\* BlobResolver says.
THEOREM RegistryImplementsBlobs == RegistrySpec => Steps
<1>1. RegistryInit => Init
    BY DEF RegistryInit
<1> QED
    BY <1>1, RegistryStepIsBlobStep, PTL DEF RegistrySpec, Steps

\* While the manifest is resolved MInv holds; afterwards the locals are gone.
ManifestGone ==
    /\ mpc = "returned" /\ mres = "none"
    /\ path = <<>> /\ held = {} /\ try = 1
    /\ tag \in Tagged /\ mcancelled \in BOOLEAN

RInv == IF phase = "manifest" THEN MInv ELSE ManifestGone

LEMMA DoneGone == ASSUME MInv, ManifestDone PROVE ManifestGone'
<1>1. Tagged # {}
    BY DEF MInv, ManifestTypeOK
<1> QED
    BY <1>1 DEF ManifestDone, ManifestGone, MInv, ManifestTypeOK

LEMMA RNextInv == RInv /\ [RegistryNext]_rvars => RInv'
<1> SUFFICES ASSUME RInv, [RegistryNext]_rvars PROVE RInv'
    OBVIOUS
<1>1. CASE ResolvingManifest
    BY <1>1, MNextInv DEF ResolvingManifest, RInv
<1>2. CASE ManifestDone
    <2>1. MInv /\ phase' # "manifest"
        BY <1>2 DEF ManifestDone, RInv
    <2> QED
        BY <1>2, <2>1, DoneGone DEF RInv
<1>3. CASE UNCHANGED <<mvars, phase>>
    <2>1. MInv => MInv'
        BY <1>3, StutterInv
    <2> QED
        BY <1>3, <2>1 DEF RInv, ManifestGone, mvars
<1> QED
    BY <1>1, <1>2, <1>3 DEF RegistryNext, ResolvingBlob, TokenExpires, PullOver, rvars

LEMMA RegistryInvariant == RegistrySpec => []RInv
<1>1. RegistryInit => RInv
    BY ManifestInitInv DEF RegistryInit, RInv
<1> QED
    BY <1>1, RNextInv, PTL DEF RegistrySpec

LEMMA GoneFacts ==
    ASSUME ManifestGone
    PROVE  ManifestTypeOK /\ ResultFromTag /\ TransientRetried
<1>1. <<>> \in Seq(Doc) /\ Len(<<>>) = 0
    OBVIOUS
<1>2. 1 \in 1..Tries /\ 0 <= MaxDepth + 1
    BY LimitsAssumption
<1> QED
    BY <1>1, <1>2, FailureIsNoDoc DEF ManifestGone, ManifestTypeOK, ResultFromTag, TransientRetried

\* In a whole pull both resolutions keep their types: no counter, hop or chain
\* of either exceeds its limit, before, during or after the other.
THEOREM RegistryTypeCorrect == RegistrySpec => [](TypeOK /\ ManifestTypeOK)
<1>1. RInv => ManifestTypeOK
    BY GoneFacts DEF RInv, MInv
<1> QED
    BY <1>1, RegistryInvariant, RegistryImplementsBlobs, TypeCorrect, PTL

\* In a whole pull, too, what is returned for the tag is what it led to during
\* the call, and a transient failure is returned only after every attempt.
THEOREM RegistryAnswersAlwaysSound == RegistrySpec => [](ResultFromTag /\ TransientRetried)
<1>1. MInv => ResultFromTag /\ TransientRetried
    BY InvAnswers
<1>2. RInv => ResultFromTag /\ TransientRetried
    BY <1>1, GoneFacts DEF RInv
<1> QED
    BY <1>2, RegistryInvariant, PTL

\* In a whole pull, too, refused tokens are not presented again, one goroutine
\* at a time refreshes, and no 404 of a HEAD latches skipHead.
THEOREM RegistryTokensAlwaysSound ==
    RegistrySpec => [](NeverRepeatsRefused /\ RefreshExclusive) /\ NotFoundNeverLatches
BY RegistryImplementsBlobs, RefusedNeverRepeated, RefreshAlwaysExclusive,
   SkipHeadNeverByNotFound, PTL

\* In a whole pull, too, no blob is declared missing by a HEAD alone or by the
\* 404 of an earlier attempt.
THEOREM RegistryMissingOnEvidence == RegistrySpec => MissingOnEvidence
BY RegistryImplementsBlobs, MissingAlwaysOnEvidence, PTL

\* No call of a pull ever goes back, so each makes a bounded number of steps,
\* whatever the registry answers and wherever the tag moves.
THEOREM CallsAlwaysGetNearer == RegistrySpec => CallsGetNearer
<1>1. LocalType /\ RInv /\ [RegistryNext]_rvars =>
        [/\ mpc = "returned" \/ UNCHANGED <<mpc, try, path>> \/ ManifestNearer
         /\ \A b \in Blob : pc'[b] # pc[b] \/ hop'[b] # hop[b] => Nearer(b)]_rvars
    <2> SUFFICES ASSUME LocalType, RInv, RegistryNext
                 PROVE  Goes /\ \A b \in Blob : Advances(b)
        BY DEF Goes, Advances
    <2>1. \A b \in Blob : Advances(b)
        BY NextAdvances, RegistryStepIsBlobStep
    <2>2. ASSUME ResolvingManifest PROVE Goes
        BY <2>2, ManifestGoes DEF ResolvingManifest, RInv
    <2>3. ASSUME ManifestDone PROVE Goes
        BY <2>3 DEF ManifestDone, Goes
    <2>4. ASSUME UNCHANGED mvars PROVE Goes
        BY <2>4 DEF mvars, Goes
    <2>5. Goes
        BY <2>2, <2>3, <2>4 DEF RegistryNext, ResolvingBlob, TokenExpires, PullOver, rvars
    <2> QED
        BY <2>1, <2>5
<1> QED
    BY <1>1, RegistryInvariant, RegistryImplementsBlobs, Typed, PTL DEF RegistrySpec, CallsGetNearer
==============================================================================
