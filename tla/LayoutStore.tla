----------------------------- MODULE LayoutStore -----------------------------
(***************************************************************************)
(* What an image directory promises to whoever opens it as an OCI layout:  *)
(* content-addressed blobs are only ever added, and index.json only ever   *)
(* names a manifest that is stored together with every blob it lists.      *)
(* The detailed module ImageDir is shown to implement this one.            *)
(***************************************************************************)
CONSTANTS Digest,    \* blob digests
          Manifest,  \* manifests a reference may resolve to
          Objects,   \* Objects[m]: the digests manifest m lists
          None

VARIABLES stored,    \* digests whose complete content is in blobs/
          manifests, \* manifests stored as blobs
          published  \* the manifest index.json names, or None

vars == <<stored, manifests, published>>

Init == stored = {} /\ manifests = {} /\ published = None

StoreBlob(d) ==
    /\ stored' = stored \cup {d}
    /\ UNCHANGED <<manifests, published>>

StoreManifest(m) ==
    /\ manifests' = manifests \cup {m}
    /\ UNCHANGED <<stored, published>>

Publish(m) ==
    /\ m \in manifests
    /\ Objects[m] \subseteq stored
    /\ published' = m
    /\ UNCHANGED <<stored, manifests>>

Next ==
    \/ \E d \in Digest : StoreBlob(d)
    \/ \E m \in Manifest : StoreManifest(m) \/ Publish(m)

Spec == Init /\ [][Next]_vars
==============================================================================
