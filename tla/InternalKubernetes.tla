-------------------------- MODULE InternalKubernetes --------------------------
(***************************************************************************)
(* The built-in provisioner and attacher of internal_kubernetes.go, for    *)
(* one claim and the volume named after it (persistentVolumeNameForClaim   *)
(* uses the claim's UID, so claims do not meet).                           *)
(*                                                                         *)
(* Each reconciler is one worker that reads informer caches, which lag     *)
(* behind the API server independently of each other, and goes on with     *)
(* what it read while it calls the storage server and the API server.      *)
(* Every cached object is queued again at each resync (5 s), so a worker   *)
(* may always take any cached object: the workqueue adds only the order.   *)
(* The rest of Kubernetes (binder, attach/detach controller, kubelet,      *)
(* administrators) is external.                                            *)
(*                                                                         *)
(* Writes are optimistic: an object's fields only ever move forward during *)
(* its life, so "resourceVersion unchanged" is "record unchanged".         *)
(***************************************************************************)
EXTENDS Naturals, FiniteSets

CONSTANTS
    Node,       \* the nodes pods can run on
    Policy,     \* reclaim policies of the StorageClasses in use
    Adversity,  \* what else may happen, a subset of Adversities
    MaxPV,      \* bound: PV objects of this name, one after the other
    MaxVA,      \* bound: VolumeAttachments, one after the other
    MaxFaults   \* bound: failed calls and restarts

(***************************************************************************)
(* An API write that is stored although its caller gets an error; an       *)
(* administrator who deletes the PV object, once it is released or even    *)
(* before, or patches it to Retain; a node that leaves the cluster for     *)
(* good.                                                                   *)
(***************************************************************************)
Adversities == {"lostAnswer", "deleteReleased", "deletePV", "patchRetain", "nodeLost"}

ASSUME PolicyAssumption == Policy \subseteq {"Delete", "Retain"}
ASSUME AdversityAssumption == Adversity \subseteq Adversities
ASSUME LimitAssumption == MaxPV \in Nat /\ MaxVA \in Nat /\ MaxFaults \in Nat

VARIABLES
    pvc,        \* the claim: "pending", "bound" (volumeName set) or "none"
    pv,         \* the PersistentVolume object
    va,         \* va[n]: the VolumeAttachment of the PV on node n
    pvcCache,   \* what the informers of the driver last saw of them
    pvCache,
    vaCache,
    disk,       \* the backend volume, see Disk
    access,     \* the nodes in the InitiatorIds of its target
    prov,       \* the provisioner worker: where it is and the PV it read
    att,        \* the attacher worker: where it is, the node, the VA it read
    class,      \* the reclaim policy of the claim's StorageClass; it cannot change
    csiNode,    \* the nodes with a CSINode entry for this driver
    pod,        \* the nodes (one or none) where a pod with the claim is placed
    mounted,    \* that pod has the volume mounted
    seq,        \* PVs and VolumeAttachments created so far
    faults      \* failures so far

api == <<pvc, pv, va>>
caches == <<pvcCache, pvCache, vaCache>>
server == <<disk, access>>
workers == <<prov, att>>
cluster == <<class, csiNode, pod, mounted>>
vars == <<api, caches, server, workers, cluster, seq, faults>>

PV == [uid : 0..MaxPV, phase : {"available", "bound", "released"},
       policy : {"Delete", "Retain"}, deleting : BOOLEAN, fin : BOOLEAN]
VA == [uid : 0..MaxVA, deleting : BOOLEAN, fin : BOOLEAN, attached : BOOLEAN]

NoPV == [uid |-> 0, phase |-> "available", policy |-> "Delete",
         deleting |-> FALSE, fin |-> FALSE]
NoVA == [uid |-> 0, deleting |-> FALSE, fin |-> FALSE, attached |-> FALSE]

(* An object that is being deleted goes with its last finalizer; Kubernetes *)
(* itself holds on to a PV while it is bound.                               *)
StoredPV(o) == IF o.deleting /\ ~o.fin /\ o.phase # "bound" THEN NoPV ELSE o
StoredVA(o) == IF o.deleting /\ ~o.fin THEN NoVA ELSE o

(* A backend volume may be there in part; an unregistered "file" that a     *)
(* broken-off deletion left behind makes every CreateVolume fail.           *)
Disk == {"none", "part", "file", "ready"}

ProvPC == {"idle", "createVolume", "createPV", "rollback", "deleteVolume",
           "dropFinalizer", "deletePV"}
AttPC == {"idle", "addFinalizer", "getVA", "publish", "setAttached",
          "unpublish", "dropFinalizer"}

IdleProv == [pc |-> "idle", pv |-> NoPV]
IdleAtt(n) == [pc |-> "idle", node |-> n, va |-> NoVA]

TypeOK ==
    /\ pvc \in {"pending", "bound", "none"} /\ pvcCache \in {"pending", "bound", "none"}
    /\ pv \in PV /\ pvCache \in PV
    /\ va \in [Node -> VA] /\ vaCache \in [Node -> VA]
    /\ disk \in Disk /\ access \subseteq Node
    /\ prov \in [pc : ProvPC, pv : PV]
    /\ att \in [pc : AttPC, node : Node, va : VA]
    /\ class \in Policy
    /\ csiNode \subseteq Node /\ pod \subseteq Node /\ mounted \in BOOLEAN
    /\ seq \in [pv : 0..MaxPV, va : 0..MaxVA]
    /\ faults \in 0..MaxFaults

Init ==
    /\ pvc = "pending" /\ pvcCache \in {"pending", "none"}
    /\ pv = NoPV /\ pvCache = NoPV
    /\ va = [n \in Node |-> NoVA] /\ vaCache = va
    /\ disk = "none" /\ access = {}
    /\ prov = IdleProv /\ att \in {IdleAtt(n) : n \in Node}
    /\ class \in Policy /\ csiNode = Node /\ pod = {} /\ mounted = FALSE
    /\ seq = [pv |-> 0, va |-> 0]
    /\ faults = 0

-----------------------------------------------------------------------------
(* The informers catch up; a restarted driver lists everything again. *)
SyncPVC ==
    /\ pvcCache # pvc /\ pvcCache' = pvc
    /\ UNCHANGED <<api, pvCache, vaCache, server, workers, cluster, seq, faults>>

SyncPV ==
    /\ pvCache # pv /\ pvCache' = pv
    /\ UNCHANGED <<api, pvcCache, vaCache, server, workers, cluster, seq, faults>>

SyncVA(n) ==
    /\ vaCache[n] # va[n] /\ vaCache' = [vaCache EXCEPT ![n] = va[n]]
    /\ UNCHANGED <<api, pvcCache, pvCache, server, workers, cluster, seq, faults>>

Fault == faults < MaxFaults /\ faults' = faults + 1

Restart ==
    /\ Fault
    /\ pvcCache' = pvc /\ pvCache' = pv /\ vaCache' = va
    /\ prov' = IdleProv /\ att' = IdleAtt(att.node)
    /\ UNCHANGED <<api, server, cluster, seq>>

(***************************************************************************)
(* The controller service as its callers see it: what a call that failed   *)
(* may have left behind, and what the next one makes of it.                *)
(***************************************************************************)
CreateLeaves == IF disk \in {"ready", "file"} THEN {disk} ELSE {disk, "part", "ready"}

DeleteFails ==
    \/ UNCHANGED server
    \/ disk \in {"part", "ready"} /\ disk' \in {"part", "file"} /\ UNCHANGED access
    \/ disk = "file" /\ disk' = "part" /\ UNCHANGED access
    \/ disk' = "none" /\ access' = {}

-----------------------------------------------------------------------------
ProvGoto(pc) == prov' = [pc |-> pc, pv |-> prov.pv]
ProvDone == prov' = IdleProv

(* A cached claim without volume, and no PV of its name on the API server. *)
ReconcilePersistentVolumeClaim ==
    /\ prov.pc = "idle"
    /\ pvcCache = "pending" /\ pv.uid = 0 /\ seq.pv < MaxPV
    /\ prov' = [pc |-> "createVolume", pv |-> NoPV]
    /\ UNCHANGED <<api, caches, server, att, cluster, seq, faults>>

(* A mistake the runs must notice: a volume that exists is refused. *)
ClaimCreateVolumeOnce ==
    /\ prov.pc = "createVolume"
    /\ \/ disk = "none" /\ disk' = "ready" /\ ProvGoto("createPV") /\ UNCHANGED faults
       \/ disk # "none" /\ ProvDone /\ UNCHANGED <<disk, faults>>
       \/ disk' \in CreateLeaves /\ ProvDone /\ Fault
    /\ UNCHANGED <<api, caches, access, att, cluster, seq>>

ClaimCreateVolume ==
    /\ prov.pc = "createVolume"
    /\ \/ disk # "file" /\ disk' = "ready" /\ ProvGoto("createPV") /\ UNCHANGED faults
       \/ disk = "file" /\ ProvDone /\ UNCHANGED <<disk, faults>>
       \/ disk' \in CreateLeaves /\ ProvDone /\ Fault
    /\ UNCHANGED <<api, caches, access, att, cluster, seq>>

(* A mistake the runs must notice: no default for the reclaim policy. *)
NewPVUnset == [uid |-> seq.pv + 1, phase |-> "available", policy |-> "",
               deleting |-> FALSE, fin |-> FALSE]

(* persistentVolumeForClaim: the finalizer comes with the policy Delete. *)
NewPV == [uid |-> seq.pv + 1, phase |-> "available", policy |-> class,
          deleting |-> FALSE, fin |-> class = "Delete"]

(* AlreadyExists counts as success and changes nothing. *)
StorePV ==
    /\ pv' = IF pv.uid = 0 THEN NewPV ELSE pv
    /\ seq' = IF pv.uid = 0 THEN [pv |-> seq.pv + 1, va |-> seq.va] ELSE seq

(* Any error of the API call, its effect unknown, leads to the rollback. *)
ClaimCreatePV ==
    /\ prov.pc = "createPV"
    /\ \/ StorePV /\ ProvDone /\ UNCHANGED faults
       \/ UNCHANGED <<pv, seq>> /\ ProvGoto("rollback") /\ Fault
       \/ "lostAnswer" \in Adversity /\ StorePV /\ ProvGoto("rollback") /\ Fault
    /\ UNCHANGED <<pvc, va, caches, server, att, cluster>>

ClaimRollback ==
    /\ prov.pc = "rollback" /\ ProvDone
    /\ \/ disk' = "none" /\ access' = {} /\ UNCHANGED faults
       \/ DeleteFails /\ Fault
    /\ UNCHANGED <<api, caches, att, cluster, seq>>

(* Mistakes the runs must notice: deletion that does not look at the phase, *)
(* or not at the policy.                                                    *)
ReconcilePersistentVolumeDeletionEager ==
    /\ prov.pc = "idle"
    /\ pvCache.uid # 0 /\ pvCache.policy = "Delete"
    /\ \A n \in Node : vaCache[n].uid = 0
    /\ prov' = [pc |-> "deleteVolume", pv |-> pvCache]
    /\ UNCHANGED <<api, caches, server, att, cluster, seq, faults>>

ReconcilePersistentVolumeDeletionAnyPolicy ==
    /\ prov.pc = "idle"
    /\ pvCache.uid # 0 /\ (pvCache.deleting \/ pvCache.phase = "released")
    /\ \A n \in Node : vaCache[n].uid = 0
    /\ prov' = [pc |-> "deleteVolume", pv |-> pvCache]
    /\ UNCHANGED <<api, caches, server, att, cluster, seq, faults>>

(***************************************************************************)
(* A cached PV that is released or being deleted.  With another policy     *)
(* than Delete only the finalizer goes; otherwise the backend volume goes  *)
(* first, unless a VolumeAttachment is cached.                             *)
(***************************************************************************)
ReconcilePersistentVolumeDeletion ==
    /\ prov.pc = "idle"
    /\ pvCache.uid # 0 /\ (pvCache.deleting \/ pvCache.phase = "released")
    /\ \/ /\ pvCache.policy # "Delete" /\ pvCache.deleting /\ pvCache.fin
          /\ prov' = [pc |-> "dropFinalizer", pv |-> pvCache]
       \/ /\ pvCache.policy = "Delete"
          /\ \A n \in Node : vaCache[n].uid = 0
          /\ prov' = [pc |-> "deleteVolume", pv |-> pvCache]
    /\ UNCHANGED <<api, caches, server, att, cluster, seq, faults>>

(* Mistakes the runs must notice: the released PV is left to someone else,  *)
(* and the finalizer goes although DeleteVolume failed.                     *)
AfterFinalizerDone == ProvDone

PVDeleteVolumeUnchecked ==
    /\ prov.pc = "deleteVolume" /\ ProvGoto("dropFinalizer")
    /\ \/ disk' = "none" /\ access' = {} /\ UNCHANGED faults
       \/ DeleteFails /\ Fault
    /\ UNCHANGED <<api, caches, att, cluster, seq>>

(* After the finalizer, a PV that was only released is deleted. *)
AfterFinalizer == IF prov.pv.deleting THEN ProvDone ELSE ProvGoto("deletePV")

PVDeleteVolume ==
    /\ prov.pc = "deleteVolume"
    /\ \/ /\ disk' = "none" /\ access' = {} /\ UNCHANGED faults
          /\ IF prov.pv.fin THEN ProvGoto("dropFinalizer") ELSE AfterFinalizer
       \/ DeleteFails /\ ProvDone /\ Fault
    /\ UNCHANGED <<api, caches, att, cluster, seq>>

UpdatePVFinalizers ==
    /\ prov.pc = "dropFinalizer"
    /\ \/ /\ pv = prov.pv
          /\ pv' = StoredPV([uid |-> pv.uid, phase |-> pv.phase, policy |-> pv.policy,
                             deleting |-> pv.deleting, fin |-> FALSE])
          /\ \/ AfterFinalizer /\ UNCHANGED faults
             \/ "lostAnswer" \in Adversity /\ ProvDone /\ Fault
       \/ pv # prov.pv /\ ProvDone /\ UNCHANGED <<pv, faults>>
       \/ ProvDone /\ Fault /\ UNCHANGED pv
    /\ UNCHANGED <<pvc, va, caches, server, att, cluster, seq>>

PVDelete ==
    /\ prov.pc = "deletePV" /\ ProvDone
    /\ \/ /\ pv' = StoredPV([uid |-> pv.uid, phase |-> pv.phase, policy |-> pv.policy,
                             deleting |-> pv.uid # 0, fin |-> pv.fin])
          /\ UNCHANGED faults
       \/ UNCHANGED pv /\ Fault
    /\ UNCHANGED <<pvc, va, caches, server, att, cluster, seq>>

-----------------------------------------------------------------------------
AttGoto(pc, o) == att' = [pc |-> pc, node |-> att.node, va |-> o]
AttDone == att' = IdleAtt(att.node)

(* Mistakes the runs must notice: nothing is unpublished unless the status  *)
(* says attached; the finalizer passes for the publication; a               *)
(* VolumeAttachment without PV is skipped altogether.                       *)
ReconcileVolumeAttachmentByStatus(n) ==
    /\ att.pc = "idle" /\ vaCache[n].uid # 0
    /\ \E pc \in AttPC :
         /\ att' = [pc |-> pc, node |-> n, va |-> vaCache[n]]
         /\ \/ /\ vaCache[n].deleting /\ vaCache[n].fin
               /\ pc = IF vaCache[n].attached THEN "unpublish" ELSE "dropFinalizer"
            \/ /\ pvCache.uid # 0 /\ ~vaCache[n].deleting /\ ~vaCache[n].attached
               /\ pc = IF vaCache[n].fin THEN "publish" ELSE "addFinalizer"
    /\ UNCHANGED <<api, caches, server, prov, cluster, seq, faults>>

ReconcileVolumeAttachmentOnce(n) ==
    /\ att.pc = "idle" /\ vaCache[n].uid # 0
    /\ \E pc \in AttPC :
         /\ att' = [pc |-> pc, node |-> n, va |-> vaCache[n]]
         /\ \/ vaCache[n].deleting /\ vaCache[n].fin /\ pc = "unpublish"
            \/ /\ pvCache.uid # 0 /\ ~vaCache[n].deleting /\ ~vaCache[n].fin
               /\ pc = "addFinalizer"
    /\ UNCHANGED <<api, caches, server, prov, cluster, seq, faults>>

ReconcileVolumeAttachmentWithPV(n) ==
    /\ att.pc = "idle" /\ vaCache[n].uid # 0 /\ pvCache.uid # 0
    /\ \E pc \in AttPC :
         /\ att' = [pc |-> pc, node |-> n, va |-> vaCache[n]]
         /\ \/ vaCache[n].deleting /\ vaCache[n].fin /\ pc = "unpublish"
            \/ /\ ~vaCache[n].deleting /\ ~vaCache[n].attached
               /\ pc = IF vaCache[n].fin THEN "publish" ELSE "addFinalizer"
    /\ UNCHANGED <<api, caches, server, prov, cluster, seq, faults>>

(***************************************************************************)
(* A cached VolumeAttachment: one whose PV is not cached only loses its    *)
(* finalizer; one being deleted is unpublished first; one that is not      *)
(* attached is published, after its finalizer is in place.                 *)
(***************************************************************************)
ReconcileVolumeAttachment(n) ==
    /\ att.pc = "idle" /\ vaCache[n].uid # 0
    /\ \E pc \in AttPC :
         /\ att' = [pc |-> pc, node |-> n, va |-> vaCache[n]]
         /\ \/ /\ pvCache.uid = 0 /\ vaCache[n].deleting /\ vaCache[n].fin
               /\ pc = "dropFinalizer"
            \/ /\ pvCache.uid # 0 /\ vaCache[n].deleting /\ vaCache[n].fin
               /\ n \in csiNode
               /\ pc = "unpublish"
            \/ /\ pvCache.uid # 0 /\ ~vaCache[n].deleting /\ ~vaCache[n].attached
               /\ pc = IF vaCache[n].fin THEN "publish" ELSE "addFinalizer"
    /\ UNCHANGED <<api, caches, server, prov, cluster, seq, faults>>

(* A mistake the runs must notice: a failed unpublication passes for done. *)
UnpublishVolumeUnchecked ==
    /\ att.pc = "unpublish" /\ AttGoto("dropFinalizer", att.va)
    /\ \/ access' = access \ {att.node} /\ UNCHANGED faults
       \/ UNCHANGED access /\ Fault
    /\ UNCHANGED <<api, caches, disk, prov, cluster, seq>>

UnpublishVolume ==
    /\ att.pc = "unpublish"
    /\ \/ access' = access \ {att.node} /\ AttGoto("dropFinalizer", att.va) /\ UNCHANGED faults
       \/ access' \in {access, access \ {att.node}} /\ AttDone /\ Fault
    /\ UNCHANGED <<api, caches, disk, prov, cluster, seq>>

(* updateVAFinalizers writes the object it read, with or without the        *)
(* finalizer; if the object has changed since, nothing is written.          *)
WriteVA(deleting, fin, attached) ==
    va' = [va EXCEPT ![att.node] =
             StoredVA([uid |-> att.va.uid, deleting |-> deleting, fin |-> fin,
                       attached |-> attached])]

DropVAFinalizer ==
    /\ att.pc = "dropFinalizer" /\ AttDone
    /\ \/ /\ va[att.node] = att.va
          /\ WriteVA(att.va.deleting, FALSE, att.va.attached) /\ UNCHANGED faults
       \/ va[att.node] # att.va /\ UNCHANGED <<va, faults>>
       \/ Fault /\ UNCHANGED va
    /\ UNCHANGED <<pvc, pv, caches, server, prov, cluster, seq>>

AddVAFinalizer ==
    /\ att.pc = "addFinalizer"
    /\ \/ /\ va[att.node] = att.va
          /\ WriteVA(att.va.deleting, TRUE, att.va.attached)
          /\ \/ AttGoto("getVA", att.va) /\ UNCHANGED faults
             \/ "lostAnswer" \in Adversity /\ AttDone /\ Fault
       \/ va[att.node] # att.va /\ AttDone /\ UNCHANGED <<va, faults>>
       \/ AttDone /\ Fault /\ UNCHANGED va
    /\ UNCHANGED <<pvc, pv, caches, server, prov, cluster, seq>>

(* The latest version replaces the one read, and is not looked at again. *)
GetLatestVA ==
    /\ att.pc = "getVA"
    /\ \/ AttGoto("publish", va[att.node]) /\ UNCHANGED faults
       \/ AttDone /\ Fault
    /\ UNCHANGED <<api, caches, server, prov, cluster, seq>>

(* The node must still be known, and the target must be there. *)
PublishVolume ==
    /\ att.pc = "publish"
    /\ \/ /\ att.node \in csiNode /\ disk # "none"
          /\ access' = access \cup {att.node}
          /\ AttGoto("setAttached", att.va) /\ UNCHANGED faults
       \/ /\ att.node \notin csiNode \/ disk # "ready"
          /\ AttDone /\ UNCHANGED <<access, faults>>
       \/ /\ att.node \in csiNode /\ AttDone /\ Fault
          /\ access' \in {access} \cup (IF disk = "none" THEN {} ELSE {access \cup {att.node}})
    /\ UNCHANGED <<api, caches, disk, prov, cluster, seq>>

UpdateVAStatus ==
    /\ att.pc = "setAttached" /\ AttDone
    /\ \/ /\ va[att.node] = att.va
          /\ WriteVA(att.va.deleting, att.va.fin, TRUE) /\ UNCHANGED faults
       \/ va[att.node] # att.va /\ UNCHANGED <<va, faults>>
       \/ Fault /\ UNCHANGED va
    /\ UNCHANGED <<pvc, pv, caches, server, prov, cluster, seq>>

-----------------------------------------------------------------------------
(* The rest of the cluster.  The binder binds the claim to the PV made for  *)
(* it and releases the PV when the claim is gone.                           *)
BindClaim ==
    /\ pvc = "pending" /\ pv.uid # 0 /\ pv.phase = "available" /\ ~pv.deleting
    /\ pvc' = "bound"
    /\ pv' = [uid |-> pv.uid, phase |-> "bound", policy |-> pv.policy,
              deleting |-> FALSE, fin |-> pv.fin]
    /\ UNCHANGED <<va, caches, server, workers, cluster, seq, faults>>

ReleasePV ==
    /\ pvc = "none" /\ pv.uid # 0 /\ pv.phase # "released"
    /\ pv' = StoredPV([uid |-> pv.uid, phase |-> "released", policy |-> pv.policy,
                       deleting |-> pv.deleting, fin |-> pv.fin])
    /\ UNCHANGED <<pvc, va, caches, server, workers, cluster, seq, faults>>

(* A claim in use is not removed before its pod is gone. *)
DeleteClaim ==
    /\ pvc # "none" /\ pod = {}
    /\ pvc' = "none"
    /\ UNCHANGED <<pv, va, caches, server, workers, cluster, seq, faults>>

StartPod(n) ==
    /\ pvc = "bound" /\ pod = {} /\ n \in csiNode /\ seq.va < MaxVA
    /\ pod' = {n}
    /\ UNCHANGED <<api, caches, server, workers, class, csiNode, mounted, seq, faults>>

(* The attach/detach controller attaches a single-node volume to a second   *)
(* node only when the first VolumeAttachment is gone.                       *)
CreateVA(n) ==
    /\ n \in pod /\ pvc = "bound" /\ seq.va < MaxVA
    /\ \A m \in Node : va[m].uid = 0
    /\ va' = [va EXCEPT ![n] = [uid |-> seq.va + 1, deleting |-> FALSE, fin |-> FALSE,
                                attached |-> FALSE]]
    /\ seq' = [pv |-> seq.pv, va |-> seq.va + 1]
    /\ UNCHANGED <<pvc, pv, caches, server, workers, cluster, faults>>

MountPod ==
    /\ \E n \in pod : va[n].attached /\ ~va[n].deleting
    /\ ~mounted /\ mounted' = TRUE
    /\ UNCHANGED <<api, caches, server, workers, class, csiNode, pod, seq, faults>>

StopPod ==
    /\ pod # {} /\ pod' = {} /\ mounted' = FALSE
    /\ UNCHANGED <<api, caches, server, workers, class, csiNode, seq, faults>>

DeleteVA(n) ==
    /\ va[n].uid # 0 /\ ~va[n].deleting /\ n \notin pod
    /\ va' = [va EXCEPT ![n] = StoredVA([uid |-> va[n].uid, deleting |-> TRUE,
                                         fin |-> va[n].fin, attached |-> va[n].attached])]
    /\ UNCHANGED <<pvc, pv, caches, server, workers, cluster, seq, faults>>

AdminDeletePV ==
    /\ pv.uid # 0 /\ ~pv.deleting
    /\ \/ "deletePV" \in Adversity
       \/ "deleteReleased" \in Adversity /\ pv.phase = "released"
    /\ pv' = StoredPV([uid |-> pv.uid, phase |-> pv.phase, policy |-> pv.policy,
                       deleting |-> TRUE, fin |-> pv.fin])
    /\ UNCHANGED <<pvc, va, caches, server, workers, cluster, seq, faults>>

AdminRetain ==
    /\ "patchRetain" \in Adversity /\ pv.uid # 0 /\ pv.policy = "Delete"
    /\ pv' = [uid |-> pv.uid, phase |-> pv.phase, policy |-> "Retain",
              deleting |-> pv.deleting, fin |-> pv.fin]
    /\ UNCHANGED <<pvc, va, caches, server, workers, cluster, seq, faults>>

NodeLost(n) ==
    /\ "nodeLost" \in Adversity /\ csiNode = Node
    /\ csiNode' = csiNode \ {n} /\ pod' = pod \ {n} /\ mounted' = (mounted /\ n \notin pod)
    /\ UNCHANGED <<api, caches, server, workers, class, seq, faults>>

-----------------------------------------------------------------------------
Provisioner ==
    \/ ReconcilePersistentVolumeClaim
    \/ ClaimCreateVolume
    \/ ClaimCreatePV
    \/ ClaimRollback
    \/ ReconcilePersistentVolumeDeletion
    \/ PVDeleteVolume
    \/ UpdatePVFinalizers
    \/ PVDelete

Attacher ==
    \/ \E n \in Node : ReconcileVolumeAttachment(n)
    \/ UnpublishVolume
    \/ DropVAFinalizer
    \/ AddVAFinalizer
    \/ GetLatestVA
    \/ PublishVolume
    \/ UpdateVAStatus

Informers == SyncPVC \/ SyncPV \/ \E n \in Node : SyncVA(n)

Cluster ==
    \/ BindClaim
    \/ ReleasePV
    \/ DeleteClaim
    \/ \E n \in Node : StartPod(n)
    \/ \E n \in Node : CreateVA(n)
    \/ MountPod
    \/ StopPod
    \/ \E n \in Node : DeleteVA(n)

Next ==
    \/ Provisioner
    \/ Attacher
    \/ Informers
    \/ Restart
    \/ Cluster
    \/ AdminDeletePV
    \/ AdminRetain
    \/ \E n \in Node : NodeLost(n)

Spec == Init /\ [][Next]_vars

(***************************************************************************)
(* A worker goes on with what it has begun, and what is in the caches is   *)
(* queued again at every resync and served in order, so no VolumeAttachment*)
(* waits for ever behind another.  Informers catch up, and the rest of     *)
(* Kubernetes does its part; nobody has to start or stop pods or to delete *)
(* claims.                                                                 *)
(***************************************************************************)
Fairness ==
    /\ WF_vars(Provisioner)
    /\ SF_vars(ReconcilePersistentVolumeDeletion)
    /\ WF_vars(Attacher)
    /\ \A n \in Node : SF_vars(ReconcileVolumeAttachment(n))
    /\ WF_vars(SyncPVC) /\ WF_vars(SyncPV) /\ \A n \in Node : WF_vars(SyncVA(n))
    /\ WF_vars(BindClaim) /\ WF_vars(ReleasePV) /\ WF_vars(MountPod)
    /\ \A n \in Node : WF_vars(CreateVA(n)) /\ WF_vars(DeleteVA(n))

FairSpec == Spec /\ Fairness

-----------------------------------------------------------------------------
(* While a pod has the volume mounted, its storage is there and its node is *)
(* let in: no deletion decided on stale caches and no late unpublish takes  *)
(* it away.                                                                 *)
MountedIsServed ==
    mounted => disk = "ready" /\ pod \subseteq access

(* At most one node is in the InitiatorIds of a single-node volume, also    *)
(* while a pod moves and calls are repeated: two nodes on one file system   *)
(* destroy it.                                                              *)
OneNodeAtATime == Cardinality(access) <= 1

(* A node with access to the volume of a claim has a VolumeAttachment with  *)
(* the driver's finalizer, so that somebody will take the access away again.*)
AccessIsTracked ==
    pvc # "none" => \A n \in access : va[n].uid # 0 /\ va[n].fin

(* "The PV finalizer remains until the driver returns success" (README.md): *)
(* a PV with the policy Delete disappears only after its storage has.       *)
GoneIsCleaned ==
    [][pv.uid # 0 /\ pv.policy = "Delete" /\ pv'.uid = 0 => disk = "none"]_vars

(* "When the PVC is deleted and the PV is released" (README.md): storage is *)
(* deleted only then, so a bound claim has its storage.                     *)
BoundHasStorage == pvc = "bound" => disk = "ready"

(* The reclaim policy is carried out, for PVs that are deleted, made and    *)
(* bound again while the caches still show the old ones: what GoneIsCleaned *)
(* says of Delete, and "The Windows-side asset remains" (README.md): with   *)
(* Retain nothing deletes the storage of a PV, whatever else is deleted.    *)
StorageFollowsPolicy ==
    [][/\ pv.uid # 0 /\ pv.policy = "Delete" /\ pv'.uid = 0 => disk = "none"
       /\ pv.uid # 0 /\ pv.policy = "Retain" /\ disk = "ready" => disk' = "ready"]_vars

(* Every claim is bound or given up, whatever fails on the way, unless a    *)
(* rollback left an unregistered VHDX file.                                 *)
ClaimIsBound == pvc = "pending" ~> pvc # "pending" \/ disk = "file"

(* A pod that is placed on a node gets its volume, or goes away. *)
PodGetsVolume == \A n \in Node : n \in pod /\ ~mounted ~> mounted \/ n \notin pod

(* A VolumeAttachment that is being deleted goes: nothing leaves the        *)
(* finalizer behind but the loss of its node, without whose CSINode the     *)
(* volume cannot be unpublished.                                            *)
DetachFinishes ==
    \A n \in Node : va[n].deleting ~> ~va[n].deleting \/ n \notin csiNode

(* A released PV with the policy Delete goes, and its storage with it,      *)
(* unless it is patched to Retain or attached to a node that is lost.       *)
ReleasedIsReclaimed ==
    pv.uid # 0 /\ pv.policy = "Delete" /\ pv.phase = "released" ~>
       \/ pv.uid = 0 \/ pv.policy = "Retain"
       \/ \E n \in Node \ csiNode : va[n].uid # 0

(* Once the cache shows that a PV was patched to Retain and the provisioner *)
(* is idle, the storage stays, whatever is deleted, repeated or restarted   *)
(* afterwards: no older policy is used again.                               *)
PatchIsHonoured ==
    [](/\ pv.uid # 0 /\ pv.policy = "Retain" /\ pvCache = pv
       /\ prov.pc = "idle" /\ disk = "ready"
       => [](disk = "ready"))
=============================================================================
