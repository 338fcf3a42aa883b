------------------------- MODULE ControllerServerInv -------------------------
(***************************************************************************)
(* The inductive invariants behind the safety properties of                *)
(* ControllerServer when no abandoned script is left running (MaxLate = 0).*)
(* Everything is stated volume by volume: what a volume's calls rely on is *)
(* touched by no other volume's calls.                                     *)
(***************************************************************************)
EXTENDS ControllerServer

Creating == {"lookup", "create", "export", "reuse", "remap", "target", "chap",
             "map", "info"}
Deleting == {"unmap", "delDisk", "delTarget"}

(* The paths a volume's calls may name. *)
PathInv(v) ==
    /\ id[v].path \in {v} \cup Export
    /\ prov[v].path \in {v} \cup Export

(* No two volumes name the same path. *)
PathsDisjoint ==
    \A v, w \in Volume : v # w =>
       {id[v].path, prov[v].path} \cap {id[w].path, prov[w].path} = {}

(* What a provisioner call knows while it is in flight, and what its        *)
(* answers left behind.                                                     *)
CallInv(v) ==
    /\ prov[v].pc \in Creating => vol[v] = "none"
    /\ prov[v].pc \in Deleting =>
          /\ prov[v].path = id[v].path
          /\ vol[v] = IF prov[v].req.roll THEN "made" ELSE "doomed"
    /\ prov[v].req.roll => prov[v].pc \in Deleting
    /\ prov[v].pc \in {"chap", "map", "info"} => v \in target
    /\ prov[v].pc = "delTarget" => vhdx[prov[v].path] = "absent"
    /\ Answered(v) => v \in target
    /\ v \notin target => allowed[v] = {} /\ v \notin chap
    /\ vol[v] = "gone" =>
          v \notin target /\ LunMappings(v) = {} /\ vhdx[id[v].path] = "absent"

(* What the attacher relies on between reading InitiatorIds and writing it  *)
(* back: as long as the target is there, nobody else has written the list.  *)
AccessInv(v) ==
    /\ vol[v] \in {"none", "made"} =>
          att[v].pc = "idle" /\ allowed[v] = {} /\ \A n \in Node : grant[v][n] = "unknown"
    /\ att[v].pc \in {"allowSet", "denySet"} /\ v \in target => att[v].seen = allowed[v]
    /\ \A n \in att[v].nodes : grant[v][n] = "unknown"
    /\ \A n \in Node : /\ vol[v] = "bound" /\ grant[v][n] = "granted" => n \in allowed[v]
                       /\ grant[v][n] = "revoked" => n \notin allowed[v]
    /\ PublishSecret /\ vol[v] = "bound"
          /\ (allowed[v] # {} \/ att[v].pc \in {"allow", "allowSet"}) => v \in chap

(* The calls of one process at a time agree with the server: the invariant  *)
(* that makes deletions complete and grants accurate.                       *)
CallsAgree ==
    /\ late = {}
    /\ PathsDisjoint
    /\ \A v \in Volume : PathInv(v) /\ CallInv(v) /\ AccessInv(v)

-----------------------------------------------------------------------------
(* The abandoned scripts that will let initiators on to v's target. *)
Letting(v) ==
    {s \in late : /\ s.vol = v /\ s.iqns # {}
                  /\ s.op \in {"AllowInitiator", "SetInitiatorIds"}}

(* CHAP comes first, abandoned scripts or not: nothing lets an initiator in *)
(* before the volume is bound, and from then on whatever will, be it a call *)
(* or a script nobody waits for, was begun when the target asked for CHAP.  *)
ChapInv(v) ==
    /\ prov[v].pc \in Creating => vol[v] = "none"
    /\ prov[v].pc \in Deleting => vol[v] = IF prov[v].req.roll THEN "made" ELSE "doomed"
    /\ prov[v].req.roll => prov[v].pc \in Deleting
    /\ vol[v] \in {"none", "made"} =>
          att[v] = NoAttach /\ allowed[v] = {} /\ Letting(v) = {}
    /\ PublishSecret /\ vol[v] = "bound" =>
          \/ v \in chap
          \/ /\ att[v].pc \notin {"allow", "allowSet"} /\ att[v].seen = {}
             /\ allowed[v] = {} /\ Letting(v) = {}

ChapAgrees ==
    /\ \A s \in late : s.op # "DeleteTarget"
    /\ \A v \in Volume : ChapInv(v)

-----------------------------------------------------------------------------
(* Volumes that are not restored from snapshots: one path, one mapping, and *)
(* a mapped disk is a registered disk.                                      *)
DiskInv(v) ==
    /\ prov[v].path = v /\ id[v].path = v
    /\ prov[v].req.src = "empty" /\ prov[v].pc \notin {"export", "info"}
    /\ LunMappings(v) \subseteq {[target |-> v, path |-> v, lun |-> 0]}
    /\ MappingsOf(v) = LunMappings(v)
    /\ LunMappings(v) # {} => vhdx[v] = "disk" /\ v \in target
    /\ prov[v].pc \in {"reuse", "remap", "target", "chap", "map"} =>
          vhdx[v] = "disk" /\ prov[v].bytes = size[v] /\ prov[v].req.want <= size[v]
    /\ prov[v].pc = "create" => vhdx[v] = "absent"
    /\ prov[v].pc = "reuse" => LunMappings(v) # {}
    /\ Answered(v) =>
          /\ LunMappings(v) # {}
          /\ size[v] = id[v].bytes /\ id[v].want <= id[v].bytes /\ id[v].lun = 0

(* The whole inductive invariant for claims without a content source. *)
DisksAgree == CallsAgree /\ \A v \in Volume : DiskInv(v)
=============================================================================
