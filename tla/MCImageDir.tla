----------------------------- MODULE MCImageDir ------------------------------
(* Instances of ImageDir: a tag that moves between two images that share a  *)
(* layer, and two images of one common layer for runs with two processes.   *)
EXTENDS ImageDir, TLC

CONSTANTS m1, m2, config, layer

MovedTag == (m1 :> {config, layer}) @@ (m2 :> {layer})
OneLayer == (m1 :> {layer}) @@ (m2 :> {layer})
==============================================================================
