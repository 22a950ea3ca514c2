----------------------------- MODULE MCRegistry ------------------------------
(* A tag that moves between nested multi-platform indexes, one of them too    *)
(* deep, and single manifests; linux/arm/v7 is asked for. Then two goroutines *)
(* resolve blobs of a registry that may answer anything.                      *)
EXTENDS Registry, TLC

CONSTANTS b1, b2, deep, outer, inner, v6, v7, arm64, bare, invalid

Documents == {deep, outer, inner, v6, v7, arm64, bare, invalid}

Entry(d, o, a, v) == [doc |-> d, os |-> o, arch |-> a, variant |-> v]

KindOf == [d \in Documents |->
    CASE d \in {deep, outer, inner} -> "index"
      [] d = bare -> "bareManifest"
      [] d = invalid -> "invalid"
      [] OTHER -> "manifest"]

\* Three indexes in a row. An attestation, other platforms, and the index of all arm variants.
EntriesOf == [d \in Documents |->
    CASE d = deep -> << Entry(outer, "linux", "arm", "v7") >>
      [] d = outer -> << Entry(invalid, "unknown", "unknown", ""),
                          Entry(arm64, "linux", "arm64", "v8"),
                          Entry(v6, "linux", "arm", "v6"),
                          Entry(inner, "linux", "arm", "") >>
      [] d = inner -> << Entry(v6, "linux", "arm", "v6"), Entry(v7, "linux", "arm", "v7"),
                          Entry(bare, "linux", "arm", "v7") >>
      [] OTHER -> <<>>]

ArmV7 == [os |-> "linux", arch |-> "arm", variant |-> "v7"]
==============================================================================
