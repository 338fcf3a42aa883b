---------------------- MODULE ControllerServerRefinement ----------------------
(***************************************************************************)
(* How the calls and the Windows server of ControllerServer show what      *)
(* AbstractVolume promises: a volume counts as provisioned from the answer *)
(* of CreateVolume to the call that undoes it, it serves what the target   *)
(* has on LUN 0, and an attach request lasts as long as its call.          *)
(***************************************************************************)
EXTENDS ControllerServerInv

Phase(v) ==
    CASE vol[v] = "none" -> "unprovisioned"
      [] vol[v] = "made" -> IF prov[v].req.roll THEN "unprovisioned" ELSE "provisioned"
      [] vol[v] = "bound" -> "provisioned"
      [] vol[v] = "doomed" -> "removing"
      [] vol[v] = "gone" -> "removed"

Serves(v) ==
    IF v \in target /\ vhdx[v] = "disk" /\ [target |-> v, path |-> v, lun |-> 0] \in maps
    THEN size[v] ELSE 0

Asked(v) ==
    [want |-> CASE att[v].pc = "idle" -> "nothing"
                [] att[v].pc \in {"chap", "allow", "allowSet"} -> "allow"
                [] att[v].pc \in {"deny", "denySet"} -> "deny",
     nodes |-> att[v].nodes]

phase == [v \in Volume |-> Phase(v)]
serves == [v \in Volume |-> Serves(v)]
asked == [v \in Volume |-> Asked(v)]

Abstract == INSTANCE AbstractVolume WITH
    Capacity <- Size \cup {0},
    access <- allowed,
    told <- grant

(***************************************************************************)
(* The RPCs keep the promises of AbstractVolume, whatever backend calls    *)
(* fail and however often they are made again: in particular no single     *)
(* script of the retried sequences makes a provisioned volume unavailable  *)
(* or changes the access of a node nobody asked about.                     *)
(***************************************************************************)
ImplementsAbstractVolume == Abstract!Spec
=============================================================================
