--------------------------- MODULE MCBlobResolver ----------------------------
(* Two goroutines against a registry that may answer anything. *)
EXTENDS BlobResolver

CONSTANTS b1, b2
==============================================================================
