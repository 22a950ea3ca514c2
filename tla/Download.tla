------------------------------ MODULE Download ------------------------------
(***************************************************************************)
(* What Scheduler.Run promises to pull: while it runs, pending objects are *)
(* committed, each with its complete content in blobs/, which is never     *)
(* taken away again; it returns one outcome, which is true of what is      *)
(* committed then; and nothing it started commits anything afterwards.     *)
(* The detailed module Scheduler is shown to implement this one.           *)
(***************************************************************************)
CONSTANTS Obj,       \* pending objects of the manifest
          Digest,    \* their digests
          DigestOf   \* DigestOf[o]: the digest of object o

VARIABLES stored,    \* digests whose complete content is in blobs/
          committed, \* objects marked committed
          result     \* what Run returned, "none" while it runs

vars == <<stored, committed, result>>

Init == stored = {} /\ committed = {} /\ result = "none"

Commit(o) ==
    /\ result = "none"
    /\ stored' = stored \cup {DigestOf[o]}
    /\ committed' = committed \cup {o}
    /\ UNCHANGED result

\* nil means everything is committed, a joined error that something is not;
\* a canceled run says neither.
Return(r) ==
    /\ result = "none"
    /\ r = "ok" => committed = Obj
    /\ r = "failed" => committed # Obj
    /\ result' = r
    /\ UNCHANGED <<stored, committed>>

Next ==
    \/ \E o \in Obj : Commit(o)
    \/ \E r \in {"ok", "failed", "canceled"} : Return(r)

Spec == Init /\ [][Next]_vars

\* Whoever is told "ok" finds the complete content of every object.
Delivered == result = "ok" => \A o \in Obj : DigestOf[o] \in stored
=============================================================================
