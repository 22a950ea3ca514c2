-------------------------- MODULE ManifestResolver ---------------------------
(***************************************************************************)
(* ResolveManifestOpts: from the tag to the manifest of one platform,      *)
(* through nested indexes, in attempts that each start from the tag again. *)
(* The registry (external) may move the tag at any time, fail or never     *)
(* answer; documents fetched by digest are immutable. The names differ     *)
(* from BlobResolver's, so that Registry can extend both.                  *)
(***************************************************************************)
EXTENDS Naturals, Sequences

CONSTANTS
    Doc,        \* documents (indexes, manifests, others), by their digests
    Kind,       \* Kind[d]: media type and shape of document d
    Entries,    \* Entries[d]: the descriptors index d lists, in order
    Tagged,     \* documents the tag may point to
    Want,       \* the platform asked for
    Tries,      \* attempts (3)
    MaxDepth,   \* index hops that are followed (4)
    Faults      \* how a request may fail

\* "bare" documents have an unknown media type and are sniffed; an invalid
\* manifest lacks a digest, or does not parse.
Kinds == {"index", "manifest", "bareIndex", "bareManifest", "invalid", "other"}

Descriptor == [doc : Doc, os : STRING, arch : STRING, variant : STRING]

ASSUME DocAssumption ==
    /\ Kind \in [Doc -> Kinds]
    /\ DOMAIN Entries = Doc
    /\ \A d \in Doc : Entries[d] \in Seq(Descriptor)
    /\ Tagged \subseteq Doc
ASSUME LimitsAssumption == Tries \in Nat \ {0} /\ MaxDepth \in Nat
ASSUME ManifestFaultsAssumption ==
    /\ Faults \subseteq {"transient", "deadline", "broken", "definitive"}
    /\ Doc \cap {"none", "canceled", "transient", "deadline", "broken", "definitive"} = {}

VARIABLES
    mpc,        \* asking for the tag, walking the chain, backing off, returned
    try,        \* attempt
    path,       \* documents fetched in this attempt; the last is desc
    tag,        \* what the tag points to
    held,       \* what it has pointed to since the call began
    mcancelled, \* ctx was canceled
    mres        \* the manifest returned, or the class of the error

mvars == <<mpc, try, path, tag, held, mcancelled, mres>>

\* "broken": the connection breaks while the body is read.
Failure == {"transient", "deadline", "broken", "definitive", "canceled"}

ManifestTypeOK ==
    /\ mpc \in {"tag", "walk", "backoff", "returned"}
    /\ try \in 1..Tries
    /\ path \in Seq(Doc)
    /\ Len(path) <= MaxDepth + 1
    /\ tag \in Tagged
    /\ held \subseteq Tagged
    /\ mcancelled \in BOOLEAN
    /\ mres \in Doc \cup Failure \cup {"none"}

ManifestInit ==
    /\ mpc = "tag"
    /\ try = 1
    /\ path = <<>>
    /\ tag \in Tagged
    /\ held = {tag}
    /\ mcancelled = FALSE
    /\ mres = "none"

------------------------------------------------------------------------------
(* Platform selection                                                       *)

Unknown(p) == p.os = "unknown" \/ p.arch = "unknown"

\* amd64 without a variant is v1.
Variant(p) == IF p.variant = "" /\ p.arch = "amd64" THEN "v1" ELSE p.variant

\* An empty variant on either side matches any.
Matches(p, e) ==
    /\ e.os = p.os /\ e.arch = p.arch
    /\ Variant(e) = Variant(p) \/ Variant(e) = "" \/ Variant(p) = ""

Matching(d) == {i \in DOMAIN Entries[d] : ~Unknown(Entries[d][i]) /\ Matches(Want, Entries[d][i])}

\* SelectPlatform picks the first entry that matches, if any does.
SelectPlatform(d, i) == i \in Matching(d) /\ \A j \in Matching(d) : i <= j

------------------------------------------------------------------------------
(* Attempts                                                                 *)

ManifestReturn(r) ==
    /\ mpc' = "returned"
    /\ mres' = r
    /\ UNCHANGED <<try, path>>

\* Slip: a deadline of the attempt is taken for the end of the run.
RetryableUnlessLate(e) == e = "transient"

\* retryableFetchErr: 5xx, 429, url.Error and deadlines, but neither other
\* statuses nor what goes wrong after the headers.
RetryableFetch(e) == e \in {"transient", "deadline"}

\* An attempt fails. Nothing is retried once ctx is canceled.
TryFails(e) ==
    \/ /\ mcancelled \/ ~RetryableFetch(e) \/ try >= Tries
       /\ ManifestReturn(e)
    \/ /\ ~mcancelled /\ RetryableFetch(e) /\ try < Tries
       /\ mpc' = "backoff"
       /\ path' = <<>>
       /\ UNCHANGED <<try, mres>>

\* remote.Get fails, or the deadline of the attempt ends it.
GetFails ==
    \/ \E e \in Faults : TryFails(e)
    \/ mcancelled /\ TryFails("canceled")

GetTag ==
    /\ mpc = "tag"
    /\ \/ mpc' = "walk" /\ path' = <<tag>> /\ UNCHANGED <<try, mres>>
       \/ GetFails
    /\ UNCHANGED <<tag, held, mcancelled>>

Desc == path[Len(path)]
Depth == Len(path) - 1

\* Slip: one index too many.
DepthLeftLate == Depth <= MaxDepth

DepthLeft == Depth < MaxDepth

\* Slip: the child is asked for by the tag.
DescendByTag ==
    /\ mpc = "walk"
    /\ Kind[Desc] = "index"
    /\ DepthLeft
    /\ Matching(Desc) # {}
    /\ \/ path' = Append(path, tag) /\ UNCHANGED <<mpc, try, mres>>
       \/ GetFails
    /\ UNCHANGED <<tag, held, mcancelled>>

\* An index: its entry for the platform is fetched, by digest.
Descend ==
    /\ mpc = "walk"
    /\ Kind[Desc] = "index"
    /\ DepthLeft
    /\ \E i \in DOMAIN Entries[Desc] :
         /\ SelectPlatform(Desc, i)
         /\ \/ path' = Append(path, Entries[Desc][i].doc) /\ UNCHANGED <<mpc, try, mres>>
            \/ GetFails
    /\ UNCHANGED <<tag, held, mcancelled>>

\* Too deep, no such platform, an unsupported media type, a manifest without
\* digests: nothing another attempt would change, and none is made.
Reject ==
    /\ mpc = "walk"
    /\ \/ Kind[Desc] = "index" /\ (~DepthLeft \/ Matching(Desc) = {})
       \/ Kind[Desc] \in {"bareIndex", "invalid", "other"}
    /\ TryFails("definitive")
    /\ UNCHANGED <<tag, held, mcancelled>>

\* manifestFromDescriptor
Deliver ==
    /\ mpc = "walk"
    /\ Kind[Desc] \in {"manifest", "bareManifest"}
    /\ ManifestReturn(Desc)
    /\ UNCHANGED <<tag, held, mcancelled>>

\* Slip: the attempts are not counted.
BackoffUncounted ==
    /\ mpc = "backoff"
    /\ \/ mcancelled /\ ManifestReturn("canceled")
       \/ mpc' = "tag" /\ UNCHANGED <<try, path, mres>>
    /\ UNCHANGED <<tag, held, mcancelled>>

\* When the pause is over and ctx canceled, select may take either.
ManifestBackoff ==
    /\ mpc = "backoff"
    /\ \/ mcancelled /\ ManifestReturn("canceled")
       \/ mpc' = "tag" /\ try' = try + 1 /\ UNCHANGED <<path, mres>>
    /\ UNCHANGED <<tag, held, mcancelled>>

------------------------------------------------------------------------------
(* The registry and the user                                                *)

MoveTag ==
    /\ mpc # "returned"
    /\ tag' \in Tagged \ {tag}
    /\ held' = held \cup {tag'}
    /\ UNCHANGED <<mpc, try, path, mcancelled, mres>>

ManifestCancel ==
    /\ mpc # "returned" /\ ~mcancelled
    /\ mcancelled' = TRUE
    /\ UNCHANGED <<mpc, try, path, tag, held, mres>>

ManifestStep == GetTag \/ Descend \/ Reject \/ Deliver \/ ManifestBackoff

ManifestNext == ManifestStep \/ MoveTag \/ ManifestCancel

\* Every attempt has a deadline, so a registry that never answers cannot keep
\* a step from being taken.
ManifestFairness == WF_mvars(ManifestStep)

ManifestSpec == ManifestInit /\ [][ManifestNext]_mvars /\ ManifestFairness

------------------------------------------------------------------------------
(* Properties                                                               *)

\* Entry i of index d is for the platform asked for: same os and architecture,
\* and no two different variants.
Serves(d, i) ==
    LET e == Entries[d][i] IN
    /\ {e.os, e.arch} \cap {"unknown"} = {}
    /\ <<e.os, e.arch>> = <<Want.os, Want.arch>>
    /\ \A v, w \in {Variant(e), Variant(Want)} \ {""} : v = w

\* The manifest returned is the one the tag led to at some moment of the call,
\* through entries for the platform asked for, although the tag moves between
\* the requests of an attempt and between attempts.
ResultFromTag ==
    mres \in Doc =>
        /\ path[1] \in held
        /\ path[Len(path)] = mres
        /\ Kind[mres] \in {"manifest", "bareManifest"}
        /\ \A n \in 1..(Len(path) - 1) :
             /\ Kind[path[n]] = "index"
             /\ \E i \in DOMAIN Entries[path[n]] :
                  /\ Entries[path[n]][i].doc = path[n + 1]
                  /\ Serves(path[n], i)
                  /\ \A j \in DOMAIN Entries[path[n]] : Serves(path[n], j) => i <= j

\* A 5xx, a refused connection or a deadline is returned only when every
\* attempt was made, or the user gave up (comment of ResolveManifestOpts).
TransientRetried ==
    mres \in {"transient", "deadline"} => try = Tries \/ mcancelled

\* How far an attempt is from its end, in documents that may still be fetched.
ManifestStage ==
    CASE mpc = "tag" -> MaxDepth + 2
      [] mpc = "walk" -> MaxDepth + 2 - Len(path)
      [] OTHER -> 0

\* The call gets nearer its return.
ManifestNearer ==
    \/ mpc' = "returned"
    \/ try' > try
    \/ try' = try /\ ManifestStage' < ManifestStage

\* The call returns, whatever the registry answers, and if it never does.
ManifestReturns == <>(mpc = "returned")
==============================================================================
