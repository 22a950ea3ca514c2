------------------------------- MODULE Registry ------------------------------
(***************************************************************************)
(* What a pull asks of the registry: first the manifest of the tag, then,  *)
(* once it is known, the URLs of its blobs, by several goroutines.         *)
(***************************************************************************)
EXTENDS BlobResolver, ManifestResolver

VARIABLE phase  \* resolving the manifest, resolving blobs, or given up

rvars == <<vars, mvars, phase>>

RegistryInit == Init /\ ManifestInit /\ phase = "manifest"

ResolvingManifest == phase = "manifest" /\ ManifestNext /\ UNCHANGED <<vars, phase>>

\* pull goes on with the manifest's blobs, or ends. The locals of the
\* manifest's resolution are gone, and what the tag points to matters no more.
ManifestDone ==
    /\ phase = "manifest" /\ mpc = "returned"
    /\ phase' = IF mres \in Doc /\ ~mcancelled THEN "blobs" ELSE "failed"
    /\ path' = <<>> /\ held' = {} /\ try' = 1
    /\ mres' = "none"
    /\ tag' = CHOOSE t \in Tagged : TRUE
    /\ UNCHANGED <<vars, mpc, mcancelled>>

ResolvingBlob(b) == phase = "blobs" /\ Step(b) /\ UNCHANGED <<mvars, phase>>

TokenExpires == phase = "blobs" /\ Expire /\ UNCHANGED <<mvars, phase>>

PullOver ==
    /\ phase = "failed" \/ \A b \in Blob : At(b, "done")
    /\ UNCHANGED rvars

RegistryNext ==
    \/ ResolvingManifest \/ ManifestDone
    \/ \E b \in Blob : ResolvingBlob(b)
    \/ TokenExpires \/ PullOver

\* As in the two parts: goroutines run, requests are answered or time out.
RegistryFairness ==
    /\ WF_rvars(ResolvingManifest /\ ManifestStep)
    /\ WF_rvars(ManifestDone)
    /\ \A b \in Blob : WF_rvars(ResolvingBlob(b))

RegistrySpec == RegistryInit /\ [][RegistryNext]_rvars /\ RegistryFairness

------------------------------------------------------------------------------
(* Properties                                                               *)

\* No step of a call leads back: attempts, hops of a redirect or an index and
\* refreshes are only ever used up, whatever the registry answers, wherever
\* the tag moves and however often other goroutines drop the shared token.
\* So every call makes a bounded number of steps.
CallsGetNearer ==
    [][/\ mpc = "returned" \/ UNCHANGED <<mpc, try, path>> \/ ManifestNearer
       /\ \A b \in Blob : pc'[b] # pc[b] \/ hop'[b] # hop[b] => Nearer(b)]_rvars

\* Every resolution of a blob returns, whatever the registry answers and
\* however the goroutines contend for the mutex and drop each other's tokens.
ResolveReturns == phase = "blobs" ~> \A b \in Blob : At(b, "done")
==============================================================================
