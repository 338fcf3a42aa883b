----------------------- MODULE InternalKubernetesProofs -----------------------
(***************************************************************************)
(* The safety proofs of InternalKubernetes, for any number of nodes, PVs,  *)
(* VolumeAttachments and faults: first what holds whatever goes wrong in   *)
(* the cluster, then where the storage of a claim is safe.                 *)
(***************************************************************************)
EXTENDS InternalKubernetes, FiniteSetTheorems, TLAPS

-----------------------------------------------------------------------------
(* Type correctness.  That PVs do not outnumber the bound needs what the    *)
(* provisioner looked at before it began to create one.                     *)
TypeInv ==
    /\ TypeOK
    /\ prov.pc \in {"createVolume", "createPV"} => seq.pv < MaxPV

(* The records the workers keep and the API server stores are well typed. *)
LEMMA RecordTypes ==
    /\ NoPV \in PV /\ NoVA \in VA
    /\ \A o \in PV : StoredPV(o) \in PV
    /\ \A o \in VA : StoredVA(o) \in VA
BY LimitAssumption DEF NoPV, NoVA, PV, VA, StoredPV, StoredVA

(* The specification starts well typed. *)
LEMMA TypeInit == Init => TypeInv
<1> SUFFICES ASSUME Init PROVE TypeInv OBVIOUS
<1>1. att \in [pc : AttPC, node : Node, va : VA]
  BY RecordTypes DEF Init, IdleAtt, AttPC
<1>2. prov \in [pc : ProvPC, pv : PV] /\ prov.pc = "idle"
  BY RecordTypes DEF Init, IdleProv, ProvPC
<1>3. seq \in [pv : 0..MaxPV, va : 0..MaxVA] /\ faults \in 0..MaxFaults
  BY LimitAssumption DEF Init
<1> QED BY <1>1, <1>2, <1>3, RecordTypes DEF Init, TypeInv, TypeOK, Disk

(* The provisioner's steps keep the types. *)
LEMMA TypeProvisioner == TypeInv /\ Provisioner => TypeInv'
<1> SUFFICES ASSUME TypeInv, Provisioner PROVE TypeInv' OBVIOUS
<1> USE RecordTypes, LimitAssumption DEF TypeInv, TypeOK, api, caches, server, workers, cluster, Fault
<1>1. CASE ReconcilePersistentVolumeClaim
  BY <1>1 DEF ReconcilePersistentVolumeClaim, ProvPC
<1>2. CASE ClaimCreateVolume
  BY <1>2 DEF ClaimCreateVolume, ProvGoto, ProvDone, IdleProv, CreateLeaves, ProvPC, Disk
<1>3. CASE ClaimCreatePV
  <2>1. StorePV => pv' \in PV /\ seq' \in [pv : 0..MaxPV, va : 0..MaxVA]
    BY <1>3, PolicyAssumption DEF ClaimCreatePV, StorePV, NewPV, PV
  <2> QED BY <1>3, <2>1 DEF ClaimCreatePV, ProvGoto, ProvDone, IdleProv, ProvPC
<1>4. CASE ClaimRollback
  BY <1>4 DEF ClaimRollback, ProvDone, IdleProv, DeleteFails, ProvPC, Disk
<1>5. CASE ReconcilePersistentVolumeDeletion
  BY <1>5 DEF ReconcilePersistentVolumeDeletion, ProvPC
<1>6. CASE PVDeleteVolume
  BY <1>6 DEF PVDeleteVolume, ProvGoto, ProvDone, AfterFinalizer, IdleProv, DeleteFails, ProvPC, Disk
<1>7. CASE UpdatePVFinalizers
  <2>0. [uid |-> pv.uid, phase |-> pv.phase, policy |-> pv.policy,
         deleting |-> pv.deleting, fin |-> FALSE] \in PV
    BY DEF PV
  <2>1. pv' \in PV
    BY <1>7, <2>0 DEF UpdatePVFinalizers
  <2> QED BY <1>7, <2>1 DEF UpdatePVFinalizers, AfterFinalizer, ProvGoto, ProvDone, IdleProv, ProvPC
<1>8. CASE PVDelete
  <2>0. [uid |-> pv.uid, phase |-> pv.phase, policy |-> pv.policy,
         deleting |-> pv.uid # 0, fin |-> pv.fin] \in PV
    BY DEF PV
  <2>1. pv' \in PV
    BY <1>8, <2>0 DEF PVDelete
  <2> QED BY <1>8, <2>1 DEF PVDelete, ProvDone, IdleProv, ProvPC
<1> QED BY <1>1, <1>2, <1>3, <1>4, <1>5, <1>6, <1>7, <1>8 DEF Provisioner

(* The attacher's steps keep the types. *)
LEMMA TypeAttacher == TypeInv /\ Attacher => TypeInv'
<1> SUFFICES ASSUME TypeInv, Attacher PROVE TypeInv' OBVIOUS
<1> USE RecordTypes, LimitAssumption DEF TypeInv, TypeOK, api, caches, server, workers, cluster, Fault
<1>w. /\ [uid |-> att.va.uid, deleting |-> att.va.deleting, fin |-> FALSE,
          attached |-> att.va.attached] \in VA
      /\ [uid |-> att.va.uid, deleting |-> att.va.deleting, fin |-> TRUE,
          attached |-> att.va.attached] \in VA
      /\ [uid |-> att.va.uid, deleting |-> att.va.deleting, fin |-> att.va.fin,
          attached |-> TRUE] \in VA
  BY DEF VA
<1>1. ASSUME NEW n \in Node, ReconcileVolumeAttachment(n) PROVE TypeInv'
  BY <1>1 DEF ReconcileVolumeAttachment
<1>2. CASE UnpublishVolume
  BY <1>2 DEF UnpublishVolume, AttGoto, AttDone, IdleAtt, AttPC
<1>3. CASE DropVAFinalizer
  <2>1. va' \in [Node -> VA]
    BY <1>3, <1>w DEF DropVAFinalizer, WriteVA
  <2> QED BY <1>3, <2>1 DEF DropVAFinalizer, WriteVA, AttDone, IdleAtt, AttPC
<1>4. CASE AddVAFinalizer
  <2>1. va' \in [Node -> VA]
    BY <1>4, <1>w DEF AddVAFinalizer, WriteVA
  <2> QED BY <1>4, <2>1 DEF AddVAFinalizer, WriteVA, AttGoto, AttDone, IdleAtt, AttPC
<1>5. CASE GetLatestVA
  BY <1>5 DEF GetLatestVA, AttGoto, AttDone, IdleAtt, AttPC
<1>6. CASE PublishVolume
  BY <1>6 DEF PublishVolume, AttGoto, AttDone, IdleAtt, AttPC
<1>7. CASE UpdateVAStatus
  <2>1. va' \in [Node -> VA]
    BY <1>7, <1>w DEF UpdateVAStatus, WriteVA
  <2> QED BY <1>7, <2>1 DEF UpdateVAStatus, WriteVA, AttDone, IdleAtt, AttPC
<1> QED BY <1>1, <1>2, <1>3, <1>4, <1>5, <1>6, <1>7 DEF Attacher

(* Informers, a restart and the rest of the cluster keep the types. *)
LEMMA TypeOthers ==
    TypeInv /\ (Informers \/ Restart \/ Cluster \/ AdminDeletePV \/ AdminRetain
                \/ \E n \in Node : NodeLost(n)) => TypeInv'
<1> SUFFICES ASSUME TypeInv, Informers \/ Restart \/ Cluster \/ AdminDeletePV \/ AdminRetain
                                \/ \E n \in Node : NodeLost(n)
             PROVE  TypeInv'
  OBVIOUS
<1> USE RecordTypes, LimitAssumption DEF TypeInv, TypeOK, api, caches, server, workers, cluster, Fault
<1>1. CASE Informers
  BY <1>1 DEF Informers, SyncPVC, SyncPV, SyncVA
<1>2. CASE Restart
  BY <1>2 DEF Restart, IdleProv, IdleAtt, ProvPC, AttPC
<1>3. CASE BindClaim
  <2>1. pv' \in PV
    BY <1>3 DEF BindClaim, PV
  <2> QED BY <1>3, <2>1 DEF BindClaim
<1>4. CASE ReleasePV
  <2>0. [uid |-> pv.uid, phase |-> "released", policy |-> pv.policy,
         deleting |-> pv.deleting, fin |-> pv.fin] \in PV
    BY DEF PV
  <2>1. pv' \in PV
    BY <1>4, <2>0 DEF ReleasePV
  <2> QED BY <1>4, <2>1 DEF ReleasePV
<1>5. CASE DeleteClaim \/ MountPod \/ StopPod
  BY <1>5 DEF DeleteClaim, MountPod, StopPod
<1>6. ASSUME NEW n \in Node, StartPod(n) \/ NodeLost(n) PROVE TypeInv'
  BY <1>6 DEF StartPod, NodeLost
<1>7. ASSUME NEW n \in Node, CreateVA(n) PROVE TypeInv'
  <2>1. [uid |-> seq.va + 1, deleting |-> FALSE, fin |-> FALSE, attached |-> FALSE] \in VA
    BY <1>7 DEF CreateVA, VA
  <2> QED BY <1>7, <2>1 DEF CreateVA
<1>8. ASSUME NEW n \in Node, DeleteVA(n) PROVE TypeInv'
  <2>1. [uid |-> va[n].uid, deleting |-> TRUE, fin |-> va[n].fin, attached |-> va[n].attached] \in VA
    BY DEF VA
  <2> QED BY <1>8, <2>1 DEF DeleteVA
<1>9. CASE AdminDeletePV \/ AdminRetain
  <2>0. /\ [uid |-> pv.uid, phase |-> pv.phase, policy |-> pv.policy,
            deleting |-> TRUE, fin |-> pv.fin] \in PV
        /\ [uid |-> pv.uid, phase |-> pv.phase, policy |-> "Retain",
            deleting |-> pv.deleting, fin |-> pv.fin] \in PV
    BY DEF PV
  <2>1. pv' \in PV
    BY <1>9, <2>0 DEF AdminDeletePV, AdminRetain
  <2> QED BY <1>9, <2>1 DEF AdminDeletePV, AdminRetain
<1> QED BY <1>1, <1>2, <1>3, <1>4, <1>5, <1>6, <1>7, <1>8, <1>9 DEF Cluster

(* Every step keeps the types. *)
LEMMA TypeNext == TypeInv /\ [Next]_vars => TypeInv'
<1>1. CASE UNCHANGED vars
  BY <1>1 DEF vars, api, caches, server, workers, cluster, TypeInv, TypeOK
<1> QED BY <1>1, TypeProvisioner, TypeAttacher, TypeOthers DEF Next

(* Every reachable state of the reconcilers and the cluster is well typed. *)
THEOREM TypeCorrect == Spec => []TypeOK
<1>1. TypeInv => TypeOK BY DEF TypeInv
<1> QED BY <1>1, TypeInit, TypeNext, PTL DEF Spec

-----------------------------------------------------------------------------
(***************************************************************************)
(* One node at a time, whatever goes wrong: writes whose answer is lost,   *)
(* administrators who delete or patch the PV, nodes that go, restarts.     *)
(*                                                                         *)
(* What a claim's state says of the other objects: nothing is attached     *)
(* before it is bound, and before the PV of a bound claim is cached the    *)
(* attacher has not touched a VolumeAttachment.                            *)
(***************************************************************************)
BindingInv ==
    /\ pvc = "bound" => pv.uid # 0 /\ pv.phase = "bound"
    /\ pvc = "pending" => /\ att.pc = "idle" /\ access = {}
                          /\ \A n \in Node : va[n].uid = 0 /\ vaCache[n].uid = 0
    /\ pvc = "bound" /\ pvCache.uid = 0 =>
         /\ att.pc = "idle"
         /\ \A n \in Node : ~va[n].fin /\ ~vaCache[n].fin

(* VolumeAttachments come one after the other with growing UIDs; a cached   *)
(* finalizer is still there unless the cached object was being deleted, and *)
(* deletion is not taken back.                                              *)
AttachmentInv ==
    /\ \A n \in Node : va[n].uid = 0 => ~va[n].fin
    /\ \A n \in Node : vaCache[n].uid = 0 => ~vaCache[n].fin
    /\ \A m, n \in Node : va[m].uid # 0 /\ va[n].uid # 0 => m = n
    /\ \A n \in Node : va[n].uid <= seq.va /\ vaCache[n].uid <= seq.va
    /\ att.va.uid <= seq.va
    /\ \A n \in Node :
         vaCache[n].uid # 0 /\ vaCache[n].fin /\ ~vaCache[n].deleting =>
           va[n].uid = vaCache[n].uid /\ va[n].fin
    /\ \A n \in Node :
         vaCache[n].uid # 0 /\ vaCache[n].uid = va[n].uid /\ vaCache[n].deleting =>
           va[n].deleting

(* What the attacher read holds on: it publishes only behind a finalizer,   *)
(* and takes a finalizer away only from an object that is being deleted and *)
(* whose node has lost its access.                                          *)
AttacherInv ==
    /\ att.pc # "idle" => att.va.uid # 0
    /\ att.pc = "addFinalizer" => ~att.va.deleting
    /\ att.pc \in {"getVA", "publish", "setAttached"} =>
         va[att.node].uid # 0 /\ va[att.node].fin
    /\ att.pc \in {"unpublish", "dropFinalizer"} =>
         /\ att.va.deleting
         /\ va[att.node].uid = att.va.uid => va[att.node].deleting
         /\ vaCache[att.node].uid = att.va.uid => vaCache[att.node].deleting
    /\ att.pc = "dropFinalizer" /\ pvc # "none" => att.node \notin access

(* A node with access excludes every other node's VolumeAttachment, and     *)
(* every other node's access.                                               *)
AccessInv ==
    /\ AccessIsTracked
    /\ \A n \in access, m \in Node : va[m].uid # 0 => m = n
    /\ \A m, n \in access : m = n

AttachInv == BindingInv /\ AttachmentInv /\ AttacherInv /\ AccessInv

(* At the start there is nothing to attach. *)
LEMMA AttachInit == Init => AttachInv
<1> SUFFICES ASSUME Init PROVE AttachInv OBVIOUS
<1>1. att.pc = "idle" /\ att.va = NoVA
  BY DEF Init, IdleAtt
<1> QED BY <1>1 DEF Init, AttachInv, BindingInv, AttachmentInv, AttacherInv, AccessInv,
                    AccessIsTracked, NoVA

(* The provisioner does not touch VolumeAttachments, takes access away only *)
(* as a whole, and never removes the PV of a bound claim.                   *)
LEMMA AttachProvisioner == TypeInv /\ AttachInv /\ Provisioner => AttachInv'
<1> SUFFICES ASSUME TypeInv, AttachInv, Provisioner PROVE AttachInv' OBVIOUS
<1>1. UNCHANGED <<pvc, va, caches, att>> /\ access' \in {access, {}} /\ seq'.va = seq.va
  BY DEF Provisioner, ReconcilePersistentVolumeClaim, ClaimCreateVolume, ClaimCreatePV, ClaimRollback,
         ReconcilePersistentVolumeDeletion, PVDeleteVolume, UpdatePVFinalizers, PVDelete,
         StorePV, DeleteFails, api, caches, server
<1>2. pvc = "bound" => pv'.uid # 0 /\ pv'.phase = "bound"
  BY DEF Provisioner, ReconcilePersistentVolumeClaim, ClaimCreateVolume, ClaimCreatePV, ClaimRollback,
         ReconcilePersistentVolumeDeletion, PVDeleteVolume, UpdatePVFinalizers, PVDelete,
         StorePV, StoredPV, api, AttachInv, BindingInv
<1> QED BY <1>1, <1>2 DEF caches, AttachInv, BindingInv, AttachmentInv, AttacherInv, AccessInv,
                           AccessIsTracked

(* What a write of the attacher or the deletion of a VolumeAttachment does  *)
(* to the API server: at most one object changes, and only if it is the one *)
(* that was read.                                                           *)
DropsOne ==
    \A n \in Node : va'[n] = va[n] \/ (n = att.node /\ va[n] = att.va /\ va'[n] = NoVA)

AddsOne ==
    /\ \A n \in Node :
         \/ va'[n] = va[n]
         \/ /\ n = att.node /\ va[n] = att.va
            /\ va'[n].uid = va[n].uid /\ ~va[n].deleting /\ ~va'[n].deleting
            /\ va'[n].fin /\ (va'[n].attached <=> va[n].attached)
    /\ att'.node = att.node
    /\ \/ att'.pc = "idle" /\ att'.va = NoVA
       \/ att'.pc = "getVA" /\ att'.va = att.va /\ va'[att.node].uid # 0 /\ va'[att.node].fin

MarksOne ==
    \A n \in Node :
      \/ va'[n] = va[n]
      \/ /\ n = att.node /\ va[n] = att.va
         /\ va'[n].uid = va[n].uid /\ (va'[n].deleting <=> va[n].deleting)
         /\ va[n].fin /\ va'[n].fin /\ va'[n].attached

DeletesOne(n) ==
    \A m \in Node :
      \/ va'[m] = va[m]
      \/ m = n /\ ~va[m].fin /\ va'[m] = NoVA
      \/ /\ m = n /\ va'[m].uid = va[m].uid /\ va[m].fin /\ va'[m].fin /\ va'[m].deleting
         /\ (va'[m].attached <=> va[m].attached)

(* Without the finalizer the object that was read is gone. *)
LEMMA DropWrites == TypeInv /\ AttacherInv /\ DropVAFinalizer => DropsOne
<1> SUFFICES ASSUME TypeInv, AttacherInv, DropVAFinalizer PROVE DropsOne OBVIOUS
<1>1. att.va.deleting
  BY DEF AttacherInv, DropVAFinalizer
<1>2. va' = va \/ (va[att.node] = att.va /\ va' = [va EXCEPT ![att.node] = NoVA])
  BY <1>1 DEF DropVAFinalizer, WriteVA, StoredVA
<1> QED BY <1>2 DEF TypeInv, TypeOK, DropsOne

(* With the finalizer it is otherwise as it was, and it is not being        *)
(* deleted.                                                                 *)
LEMMA AddWrites == TypeInv /\ AttacherInv /\ AddVAFinalizer => AddsOne
<1> SUFFICES ASSUME TypeInv, AttacherInv, AddVAFinalizer PROVE AddsOne OBVIOUS
<1> DEFINE new == [uid |-> att.va.uid, deleting |-> att.va.deleting, fin |-> TRUE,
                   attached |-> att.va.attached]
<1>1. ~att.va.deleting /\ att.va.uid # 0
  BY DEF AttacherInv, AddVAFinalizer
<1>2. StoredVA(new) = new
  BY <1>1 DEF StoredVA
<1>3. /\ att'.node = att.node
      /\ \/ va' = va /\ att'.pc = "idle" /\ att'.va = NoVA
         \/ /\ va[att.node] = att.va /\ va' = [va EXCEPT ![att.node] = new]
            /\ (att'.pc = "idle" /\ att'.va = NoVA) \/ (att'.pc = "getVA" /\ att'.va = att.va)
  BY <1>2 DEF AddVAFinalizer, WriteVA, AttGoto, AttDone, IdleAtt
<1>4. new.uid = att.va.uid /\ ~new.deleting /\ new.fin /\ (new.attached <=> att.va.attached)
  BY <1>1
<1> HIDE DEF new
<1> QED BY <1>1, <1>3, <1>4 DEF TypeInv, TypeOK, AddsOne

(* With the status attached it is otherwise as it was, and it has the       *)
(* finalizer.                                                               *)
LEMMA StatusWrites == TypeInv /\ AttacherInv /\ UpdateVAStatus => MarksOne
<1> SUFFICES ASSUME TypeInv, AttacherInv, UpdateVAStatus PROVE MarksOne OBVIOUS
<1> DEFINE new == [uid |-> att.va.uid, deleting |-> att.va.deleting, fin |-> att.va.fin,
                   attached |-> TRUE]
<1>1. va[att.node].fin
  BY DEF AttacherInv, UpdateVAStatus
<1>2. va[att.node] = att.va => StoredVA(new) = new
  BY <1>1 DEF StoredVA
<1>3. \/ va' = va
      \/ va[att.node] = att.va /\ va' = [va EXCEPT ![att.node] = new]
  BY <1>2 DEF UpdateVAStatus, WriteVA
<1>4. /\ new.uid = att.va.uid /\ (new.deleting <=> att.va.deleting)
      /\ (new.fin <=> att.va.fin) /\ new.attached
  OBVIOUS
<1> HIDE DEF new
<1> QED BY <1>1, <1>3, <1>4 DEF TypeInv, TypeOK, MarksOne

(* A deleted VolumeAttachment stays as long as it has the finalizer. *)
LEMMA DeleteWrites ==
    ASSUME TypeInv, NEW n \in Node, DeleteVA(n)
    PROVE  DeletesOne(n)
<1> DEFINE new == [uid |-> va[n].uid, deleting |-> TRUE, fin |-> va[n].fin,
                   attached |-> va[n].attached]
<1>1. va' = [va EXCEPT ![n] = StoredVA(new)]
  BY DEF DeleteVA
<1>2. StoredVA(new) = IF va[n].fin THEN new ELSE NoVA
  BY DEF StoredVA
<1>3. new.uid = va[n].uid /\ new.deleting /\ (new.fin <=> va[n].fin) /\ (new.attached <=> va[n].attached)
  OBVIOUS
<1> HIDE DEF new
<1> QED BY <1>1, <1>2, <1>3 DEF TypeInv, TypeOK, DeletesOne

(* The attacher's steps, each with what it did to the object it read. *)
LEMMA AttachAttacher == TypeInv /\ AttachInv /\ Attacher => AttachInv'
<1> SUFFICES ASSUME TypeInv, AttachInv, Attacher PROVE AttachInv' OBVIOUS
<1>w. /\ DropVAFinalizer => /\ att.pc = "dropFinalizer" /\ DropsOne /\ AttDone
                            /\ UNCHANGED <<pvc, pv, caches, server, seq>>
      /\ AddVAFinalizer => /\ att.pc = "addFinalizer" /\ AddsOne
                           /\ UNCHANGED <<pvc, pv, caches, server, seq>>
      /\ UpdateVAStatus => /\ att.pc = "setAttached" /\ MarksOne /\ AttDone
                           /\ UNCHANGED <<pvc, pv, caches, server, seq>>
  BY DropWrites, AddWrites, StatusWrites
     DEF AttachInv, DropVAFinalizer, AddVAFinalizer, UpdateVAStatus
<1> USE DEF TypeInv, TypeOK, AttachInv, BindingInv, AttachmentInv, AttacherInv, AccessInv,
            AccessIsTracked, api, caches, server, VA
<1>1. ASSUME NEW n \in Node, ReconcileVolumeAttachment(n) PROVE AttachInv'
  BY <1>1 DEF ReconcileVolumeAttachment
<1>2. CASE UnpublishVolume
  BY <1>2 DEF UnpublishVolume, AttGoto, AttDone, IdleAtt, NoVA
<1>3. CASE DropVAFinalizer
  <2>1. BindingInv' BY <1>3, <1>w DEF DropsOne, AttDone, IdleAtt, NoVA
  <2>2. AttachmentInv' BY <1>3, <1>w DEF DropsOne, AttDone, IdleAtt, NoVA
  <2>3. AttacherInv' BY <1>3, <1>w DEF DropsOne, AttDone, IdleAtt, NoVA
  <2>4. AccessInv' BY <1>3, <1>w DEF DropsOne, AttDone, IdleAtt, NoVA
  <2> QED BY <2>1, <2>2, <2>3, <2>4
<1>4. CASE AddVAFinalizer
  <2>1. BindingInv' BY <1>4, <1>w DEF AddsOne, NoVA
  <2>2. AttachmentInv' BY <1>4, <1>w DEF AddsOne, NoVA
  <2>3. AttacherInv' BY <1>4, <1>w DEF AddsOne, NoVA
  <2>4. AccessInv' BY <1>4, <1>w DEF AddsOne, NoVA
  <2> QED BY <2>1, <2>2, <2>3, <2>4
<1>5. CASE GetLatestVA
  BY <1>5 DEF GetLatestVA, AttGoto, AttDone, IdleAtt, NoVA
<1>6. CASE PublishVolume
  BY <1>6 DEF PublishVolume, AttGoto, AttDone, IdleAtt, NoVA
<1>7. CASE UpdateVAStatus
  <2>1. BindingInv' BY <1>7, <1>w DEF MarksOne, AttDone, IdleAtt, NoVA
  <2>2. AttachmentInv' BY <1>7, <1>w DEF MarksOne, AttDone, IdleAtt, NoVA
  <2>3. AttacherInv' BY <1>7, <1>w DEF MarksOne, AttDone, IdleAtt, NoVA
  <2>4. AccessInv' BY <1>7, <1>w DEF MarksOne, AttDone, IdleAtt, NoVA
  <2> QED BY <2>1, <2>2, <2>3, <2>4
<1> QED BY <1>1, <1>2, <1>3, <1>4, <1>5, <1>6, <1>7 DEF Attacher

(* The caches catch up, or are filled again by a restart. *)
LEMMA AttachInformers == TypeInv /\ AttachInv /\ (Informers \/ Restart) => AttachInv'
<1> SUFFICES ASSUME TypeInv, AttachInv, Informers \/ Restart PROVE AttachInv' OBVIOUS
<1> USE DEF TypeInv, TypeOK, AttachInv, BindingInv, AttachmentInv, AttacherInv, AccessInv,
            AccessIsTracked, api, caches, server, workers, VA
<1>1. CASE SyncPVC \/ SyncPV
  BY <1>1 DEF SyncPVC, SyncPV
<1>2. ASSUME NEW n \in Node, SyncVA(n) PROVE AttachInv'
  BY <1>2 DEF SyncVA
<1>3. CASE Restart
  BY <1>3 DEF Restart, IdleAtt, NoVA
<1> QED BY <1>1, <1>2, <1>3 DEF Informers

(* The binder, the attach/detach controller, kubelet and administrators. *)
LEMMA AttachCluster ==
    TypeInv /\ AttachInv /\ (Cluster \/ AdminDeletePV \/ AdminRetain \/ \E n \in Node : NodeLost(n))
      => AttachInv'
<1> SUFFICES ASSUME TypeInv, AttachInv, Cluster \/ AdminDeletePV \/ AdminRetain
                                           \/ \E n \in Node : NodeLost(n)
             PROVE  AttachInv'
  OBVIOUS
<1>w. \A n \in Node : DeleteVA(n) => /\ va[n].uid # 0 /\ DeletesOne(n)
                                     /\ UNCHANGED <<pvc, pv, caches, server, workers, seq>>
  BY DeleteWrites DEF DeleteVA
<1> USE DEF TypeInv, TypeOK, AttachInv, BindingInv, AttachmentInv, AttacherInv, AccessInv,
            AccessIsTracked, api, caches, server, workers, VA
<1>1. CASE BindClaim
  BY <1>1 DEF BindClaim
<1>2. CASE ReleasePV \/ AdminDeletePV \/ AdminRetain
  BY <1>2 DEF ReleasePV, AdminDeletePV, AdminRetain, StoredPV
<1>3. CASE DeleteClaim \/ MountPod \/ StopPod
  BY <1>3 DEF DeleteClaim, MountPod, StopPod
<1>4. ASSUME NEW n \in Node, StartPod(n) \/ NodeLost(n) PROVE AttachInv'
  BY <1>4 DEF StartPod, NodeLost
<1>5. ASSUME NEW n \in Node, CreateVA(n) PROVE AttachInv'
  BY <1>5, LimitAssumption DEF CreateVA
<1>6. ASSUME NEW n \in Node, DeleteVA(n) PROVE AttachInv'
  <2>1. BindingInv' BY <1>6, <1>w DEF DeletesOne, NoVA
  <2>2. AttachmentInv'
    <3>1. DeletesOne(n) /\ NoVA.uid = 0 /\ NoVA.fin = FALSE
      BY <1>6, <1>w DEF NoVA
    <3>2. 0 <= seq.va /\ seq' = seq /\ vaCache' = vaCache /\ att' = att
      BY <1>6, <1>w, LimitAssumption
    <3>3. \A m \in Node : va'[m].uid = 0 => ~va'[m].fin
      BY <1>6, <3>1 DEF DeletesOne
    <3>4. \A m, k \in Node : va'[m].uid # 0 /\ va'[k].uid # 0 => m = k
      BY <3>1 DEF DeletesOne
    <3>5. \A m \in Node : va'[m].uid <= seq.va
      BY <3>1, <3>2 DEF DeletesOne
    <3>6. \A m \in Node :
           vaCache[m].uid # 0 /\ vaCache[m].fin /\ ~vaCache[m].deleting =>
             va'[m].uid = vaCache[m].uid /\ va'[m].fin
      BY <3>1 DEF DeletesOne
    <3>7. \A m \in Node :
           vaCache[m].uid # 0 /\ vaCache[m].uid = va'[m].uid /\ vaCache[m].deleting => va'[m].deleting
      BY <3>1 DEF DeletesOne
    <3> QED BY <3>2, <3>3, <3>4, <3>5, <3>6, <3>7
  <2>3. AttacherInv' BY <1>6, <1>w DEF DeletesOne, NoVA
  <2>4. AccessInv' BY <1>6, <1>w DEF DeletesOne, NoVA
  <2> QED BY <2>1, <2>2, <2>3, <2>4
<1> QED BY <1>1, <1>2, <1>3, <1>4, <1>5, <1>6 DEF Cluster

(* The attachment invariant is inductive. *)
LEMMA AttachNext == TypeInv /\ AttachInv /\ [Next]_vars => AttachInv'
<1>1. ASSUME AttachInv, UNCHANGED vars PROVE AttachInv'
  BY <1>1 DEF vars, api, caches, server, workers, AttachInv, BindingInv, AttachmentInv,
              AttacherInv, AccessInv, AccessIsTracked
<1> QED BY <1>1, AttachProvisioner, AttachAttacher, AttachInformers, AttachCluster DEF Next

(* A set without two members has at most one. *)
LEMMA AtMostOne ==
    ASSUME NEW S, \A x, y \in S : x = y
    PROVE  Cardinality(S) <= 1
<1>1. CASE S = {}
  BY <1>1, FS_EmptySet
<1>2. ASSUME NEW x \in S PROVE Cardinality(S) <= 1
  <2>1. S = {x} OBVIOUS
  <2> QED BY <2>1, FS_Singleton
<1> QED BY <1>1, <1>2

(* At most one node is ever in the InitiatorIds of the volume's target, for *)
(* any number of nodes, restarts and failures and under every adversity.    *)
THEOREM SingleNode == Spec => []OneNodeAtATime
<1>1. AttachInv => OneNodeAtATime
  BY AtMostOne DEF AttachInv, AccessInv, OneNodeAtATime
<1> QED BY <1>1, TypeInit, TypeNext, AttachInit, AttachNext, PTL DEF Spec

(* No access without a VolumeAttachment that carries the finalizer, while   *)
(* the claim is there, under every adversity.                               *)
THEOREM AccessTracked == Spec => []AccessIsTracked
<1>1. AttachInv => AccessIsTracked
  BY DEF AttachInv, AccessInv
<1> QED BY <1>1, TypeInit, TypeNext, AttachInit, AttachNext, PTL DEF Spec

-----------------------------------------------------------------------------
(***************************************************************************)
(* A PV that is to be deleted outlives its storage, under every adversity. *)
(* The finalizer of a PV with the policy Delete is missing only if the     *)
(* backend volume is; a volume is created only while there is no PV; and   *)
(* the finalizer is dropped only behind a successful deletion.             *)
(***************************************************************************)
CleanInv ==
    /\ pv.uid # 0 /\ pv.policy = "Delete" /\ ~pv.fin => disk = "none"
    /\ prov.pc \in {"createVolume", "createPV"} => pv.uid = 0
    /\ prov.pc = "dropFinalizer" /\ prov.pv.policy = "Delete" => disk = "none"

(* What the steps that write an existing PV make of it: it keeps its UID or *)
(* is gone, and it is gone only without finalizer and unbound.              *)
WritesPV ==
    \/ pv' = pv
    \/ /\ pv'.uid = 0 /\ pv'.phase = "available" /\ ~pv'.deleting /\ ~pv'.fin
       /\ pv.phase # "bound" \/ pvc = "none"
       /\ ~pv.fin \/ (prov.pc = "dropFinalizer" /\ pv = prov.pv)
       /\ pv.deleting \/ prov.pc = "deletePV" \/ AdminDeletePV
    \/ /\ pv'.uid = pv.uid /\ pv'.policy = pv.policy
       /\ pv'.phase = pv.phase \/ (pvc = "none" /\ pv'.phase = "released")
       /\ (pv'.deleting <=> pv.deleting) \/ prov.pc = "deletePV" \/ AdminDeletePV
       /\ (pv'.fin <=> pv.fin) \/ (~pv'.fin /\ prov.pc = "dropFinalizer" /\ pv = prov.pv)

(* Every writer of an existing PV writes in that way. *)
LEMMA PVWrites ==
    TypeInv /\ (UpdatePVFinalizers \/ PVDelete \/ ReleasePV \/ AdminDeletePV) => WritesPV
<1> SUFFICES ASSUME TypeInv, UpdatePVFinalizers \/ PVDelete \/ ReleasePV \/ AdminDeletePV
             PROVE  WritesPV
  OBVIOUS
<1>1. CASE UpdatePVFinalizers
  BY <1>1 DEF UpdatePVFinalizers, WritesPV, StoredPV, NoPV
<1>2. CASE PVDelete
  BY <1>2 DEF PVDelete, WritesPV, StoredPV, NoPV
<1>3. CASE ReleasePV
  BY <1>3 DEF ReleasePV, WritesPV, StoredPV, NoPV
<1>4. CASE AdminDeletePV
  BY <1>4 DEF AdminDeletePV, WritesPV, StoredPV, NoPV
<1> QED BY <1>1, <1>2, <1>3, <1>4

(* The storage of a PV with the policy Delete is gone before its finalizer. *)
LEMMA CleanNext == TypeInv /\ CleanInv /\ [Next]_vars => CleanInv'
<1> SUFFICES ASSUME TypeInv, CleanInv, [Next]_vars PROVE CleanInv' OBVIOUS
<1>w. UpdatePVFinalizers \/ PVDelete \/ ReleasePV \/ AdminDeletePV => WritesPV
  BY PVWrites
<1> USE DEF CleanInv, api, caches, server, workers, cluster
<1>1. CASE ReconcilePersistentVolumeClaim
  BY <1>1 DEF ReconcilePersistentVolumeClaim
<1>2. CASE ClaimCreateVolume
  BY <1>2 DEF ClaimCreateVolume, ProvGoto, ProvDone, IdleProv
<1>3. CASE ClaimCreatePV
  <2>1. NewPV.policy = "Delete" => NewPV.fin
    BY DEF NewPV
  <2>2. pv' = pv \/ pv' = NewPV
    BY <1>3 DEF ClaimCreatePV, StorePV
  <2>3. pv.uid = 0 /\ prov'.pc \in {"idle", "rollback"} /\ disk' = disk
    BY <1>3 DEF ClaimCreatePV, ProvGoto, ProvDone, IdleProv
  <2> QED BY <2>1, <2>2, <2>3
<1>4. CASE ClaimRollback
  BY <1>4 DEF ClaimRollback, DeleteFails, ProvDone, IdleProv
<1>5. CASE ReconcilePersistentVolumeDeletion
  BY <1>5 DEF ReconcilePersistentVolumeDeletion
<1>6. CASE PVDeleteVolume
  BY <1>6 DEF PVDeleteVolume, DeleteFails, AfterFinalizer, ProvGoto, ProvDone, IdleProv
<1>7. CASE UpdatePVFinalizers
  <2>1. /\ prov.pc = "dropFinalizer" /\ prov'.pc \in {"idle", "deletePV"} /\ disk' = disk
    BY <1>7 DEF UpdatePVFinalizers, AfterFinalizer, ProvGoto, ProvDone, IdleProv
  <2> QED BY <1>7, <1>w, <2>1 DEF WritesPV
<1>8. CASE PVDelete
  <2>1. /\ prov.pc = "deletePV" /\ prov'.pc = "idle" /\ disk' = disk
    BY <1>8 DEF PVDelete, ProvDone, IdleProv
  <2> QED BY <1>8, <1>w, <2>1 DEF WritesPV
<1>9. CASE ReleasePV \/ AdminDeletePV
  <2>1. prov' = prov /\ disk' = disk /\ pv.uid # 0
    BY <1>9 DEF ReleasePV, AdminDeletePV
  <2> QED BY <1>9, <1>w, <2>1 DEF WritesPV
<1>10. CASE BindClaim \/ AdminRetain
  BY <1>10 DEF BindClaim, AdminRetain
<1>11. CASE Attacher
  BY <1>11 DEF Attacher, ReconcileVolumeAttachment, UnpublishVolume, DropVAFinalizer, AddVAFinalizer,
               GetLatestVA, PublishVolume, UpdateVAStatus
<1>12. CASE Informers \/ Restart
  BY <1>12 DEF Informers, SyncPVC, SyncPV, SyncVA, Restart, IdleProv
<1>13. CASE DeleteClaim \/ MountPod \/ StopPod
  BY <1>13 DEF DeleteClaim, MountPod, StopPod
<1>14. ASSUME NEW n \in Node, StartPod(n) \/ CreateVA(n) \/ DeleteVA(n) \/ NodeLost(n)
       PROVE  CleanInv'
  BY <1>14 DEF StartPod, CreateVA, DeleteVA, NodeLost
<1>15. CASE UNCHANGED vars
  BY <1>15 DEF vars
<1> QED BY <1>1, <1>2, <1>3, <1>4, <1>5, <1>6, <1>7, <1>8, <1>9, <1>10, <1>11, <1>12, <1>13, <1>14,
           <1>15 DEF Next, Provisioner, Cluster

(* An existing PV changes only by one of the writers, by the binder or by   *)
(* the patch of an administrator.                                           *)
LEMMA PVSteps ==
    ASSUME TypeInv, CleanInv, [Next]_vars, pv.uid # 0
    PROVE  WritesPV \/ BindClaim \/ AdminRetain
<1> USE DEF api, caches, server, workers, cluster
<1>1. CASE UpdatePVFinalizers \/ PVDelete \/ ReleasePV \/ AdminDeletePV
  BY <1>1, PVWrites
<1>2. CASE ClaimCreatePV
  BY <1>2 DEF ClaimCreatePV, CleanInv
<1>3. CASE \/ ReconcilePersistentVolumeClaim \/ ClaimCreateVolume \/ ClaimRollback
           \/ ReconcilePersistentVolumeDeletion \/ PVDeleteVolume
  BY <1>3 DEF ReconcilePersistentVolumeClaim, ClaimCreateVolume, ClaimRollback,
              ReconcilePersistentVolumeDeletion, PVDeleteVolume, WritesPV
<1>4. CASE Attacher
  BY <1>4 DEF Attacher, ReconcileVolumeAttachment, UnpublishVolume, DropVAFinalizer, AddVAFinalizer,
              GetLatestVA, PublishVolume, UpdateVAStatus, WritesPV
<1>5. CASE Informers \/ Restart \/ DeleteClaim \/ MountPod \/ StopPod
  BY <1>5 DEF Informers, SyncPVC, SyncPV, SyncVA, Restart, DeleteClaim, MountPod, StopPod, WritesPV
<1>6. ASSUME NEW n \in Node, StartPod(n) \/ CreateVA(n) \/ DeleteVA(n) \/ NodeLost(n)
      PROVE  WritesPV
  BY <1>6 DEF StartPod, CreateVA, DeleteVA, NodeLost, WritesPV
<1>7. CASE UNCHANGED vars
  BY <1>7 DEF vars, WritesPV
<1> QED BY <1>1, <1>2, <1>3, <1>4, <1>5, <1>6, <1>7 DEF Next, Provisioner, Cluster

(* Initially there is no PV. *)
LEMMA CleanInit == Init => CleanInv
BY DEF Init, CleanInv, NoPV, IdleProv

(* A PV with the policy Delete disappears only after its storage, for any   *)
(* number of PVs, faults and restarts and under every adversity.            *)
THEOREM CleanBeforeGone == Spec => GoneIsCleaned
<1>1. TypeInv /\ CleanInv /\ [Next]_vars =>
        [pv.uid # 0 /\ pv.policy = "Delete" /\ pv'.uid = 0 => disk = "none"]_vars
  <2> SUFFICES ASSUME TypeInv, CleanInv, [Next]_vars, pv.uid # 0, pv.policy = "Delete", pv'.uid = 0
               PROVE  disk = "none"
    OBVIOUS
  <2>1. WritesPV
    BY PVSteps DEF BindClaim, AdminRetain
  <2>2. ~pv.fin \/ (prov.pc = "dropFinalizer" /\ pv = prov.pv)
    BY <2>1 DEF WritesPV
  <2> QED BY <2>2 DEF CleanInv
<1> QED BY <1>1, TypeInit, TypeNext, CleanInit, CleanNext, PTL DEF Spec, GoneIsCleaned

-----------------------------------------------------------------------------
(***************************************************************************)
(* Where the storage of a claim is safe: proofs about InternalKubernetes   *)
(* that hold for any number of nodes, PVs, VolumeAttachments and faults,   *)
(* and need that some adversities are left out.  Each theorem says which;  *)
(* the runs show what happens with them.                                   *)
(***************************************************************************)

(* No write is stored behind a caller's back, and administrators delete a   *)
(* PV only once it is released.                                             *)
NoSurprise == Adversity \cap {"lostAnswer", "deletePV"} = {}

(* While the claim is there its PV is neither released nor being deleted,   *)
(* in the API server and in the cache; so the provisioner only creates.  It *)
(* creates, and rolls back, only while there is no PV.                      *)
BoundInv ==
    /\ pvc = "bound" => pv.uid # 0
    /\ pvc # "none" => /\ pv.phase # "released" /\ ~pv.deleting
                       /\ pvCache.phase # "released" /\ ~pvCache.deleting
                       /\ prov.pc \in {"idle", "createVolume", "createPV", "rollback"}
    /\ prov.pc \in {"createVolume", "createPV", "rollback"} => pv.uid = 0
    /\ prov.pc = "createPV" => disk = "ready"
    /\ pvc # "none" /\ pv.uid # 0 => disk = "ready"

(* At the start there is no PV. *)
LEMMA BoundInit == Init => BoundInv
BY DEF Init, BoundInv, NoPV, IdleProv

(* Every step keeps the storage of a claim. *)
LEMMA BoundNext == ASSUME NoSurprise PROVE TypeInv /\ BoundInv /\ [Next]_vars => BoundInv'
<1> SUFFICES ASSUME TypeInv, BoundInv, [Next]_vars PROVE BoundInv' OBVIOUS
<1>w. UpdatePVFinalizers \/ PVDelete \/ ReleasePV \/ AdminDeletePV => WritesPV
  BY PVWrites
<1>n. "lostAnswer" \notin Adversity /\ (AdminDeletePV => pv.phase = "released")
  BY DEF NoSurprise, AdminDeletePV
<1> USE DEF BoundInv, api, caches, server, workers, cluster
<1>1. CASE ReconcilePersistentVolumeClaim
  BY <1>1 DEF ReconcilePersistentVolumeClaim
<1>2. CASE ClaimCreateVolume
  BY <1>2 DEF ClaimCreateVolume, ProvGoto, ProvDone, IdleProv
<1>3. CASE ClaimCreatePV
  <2>1. NewPV.phase = "available" /\ ~NewPV.deleting
    BY DEF NewPV
  <2>2. pv' = pv \/ (pv' = NewPV /\ prov'.pc = "idle")
    BY <1>3, <1>n DEF ClaimCreatePV, StorePV, ProvDone, IdleProv
  <2>3. /\ prov.pc = "createPV" /\ prov'.pc \in {"idle", "rollback"}
        /\ UNCHANGED <<pvc, pvCache, disk>>
    BY <1>3 DEF ClaimCreatePV, ProvGoto, ProvDone, IdleProv
  <2> QED BY <2>1, <2>2, <2>3
<1>4. CASE ClaimRollback
  BY <1>4 DEF ClaimRollback, ProvDone, IdleProv
<1>5. CASE ReconcilePersistentVolumeDeletion
  BY <1>5 DEF ReconcilePersistentVolumeDeletion
<1>6. CASE PVDeleteVolume
  BY <1>6 DEF PVDeleteVolume, AfterFinalizer, ProvGoto, ProvDone, IdleProv
<1>7. CASE UpdatePVFinalizers
  <2>1. /\ prov.pc = "dropFinalizer" /\ prov'.pc \in {"idle", "deletePV"}
        /\ UNCHANGED <<pvc, pvCache, disk>>
    BY <1>7 DEF UpdatePVFinalizers, AfterFinalizer, ProvGoto, ProvDone, IdleProv
  <2> QED BY <1>7, <1>w, <2>1
<1>8. CASE PVDelete
  <2>1. /\ prov.pc = "deletePV" /\ prov'.pc = "idle" /\ UNCHANGED <<pvc, pvCache, disk>>
    BY <1>8 DEF PVDelete, ProvDone, IdleProv
  <2> QED BY <1>8, <1>w, <2>1
<1>9. CASE ReleasePV \/ AdminDeletePV
  <2>1. pvc = "none" /\ pv.uid # 0 /\ UNCHANGED <<pvc, pvCache, prov, disk>>
    BY <1>9, <1>n DEF ReleasePV, AdminDeletePV
  <2> QED BY <2>1
<1>10. CASE BindClaim \/ AdminRetain
  BY <1>10 DEF BindClaim, AdminRetain
<1>11. CASE Attacher
  BY <1>11 DEF Attacher, ReconcileVolumeAttachment, UnpublishVolume, DropVAFinalizer, AddVAFinalizer,
               GetLatestVA, PublishVolume, UpdateVAStatus
<1>12. CASE Informers \/ Restart
  BY <1>12 DEF Informers, SyncPVC, SyncPV, SyncVA, Restart, IdleProv
<1>13. CASE DeleteClaim \/ MountPod \/ StopPod
  BY <1>13 DEF DeleteClaim, MountPod, StopPod
<1>14. ASSUME NEW n \in Node, StartPod(n) \/ CreateVA(n) \/ DeleteVA(n) \/ NodeLost(n)
       PROVE  BoundInv'
  BY <1>14 DEF StartPod, CreateVA, DeleteVA, NodeLost
<1>15. CASE UNCHANGED vars
  BY <1>15 DEF vars
<1> QED BY <1>1, <1>2, <1>3, <1>4, <1>5, <1>6, <1>7, <1>8, <1>9, <1>10, <1>11, <1>12, <1>13, <1>14,
           <1>15 DEF Next, Provisioner, Cluster

(* A bound claim has its storage: no deletion decided on stale caches, no   *)
(* rollback and no restart takes it away.                                   *)
THEOREM BoundStorage == ASSUME NoSurprise PROVE Spec => []BoundHasStorage
<1>1. BoundInv => BoundHasStorage
  BY DEF BoundInv, BoundHasStorage
<1> QED BY <1>1, TypeInit, TypeNext, BoundInit, BoundNext, PTL DEF Spec

-----------------------------------------------------------------------------
(* A VolumeAttachment that says attached has the finalizer, is cached, and  *)
(* its node has access as long as nobody deletes it.  An unpublish that is  *)
(* under way belongs to an object that is being deleted, never to the one   *)
(* that took its place.                                                     *)
AttachedInv ==
    /\ \A n \in Node :
         /\ va[n].attached => va[n].fin
         /\ va[n].fin => vaCache[n].uid = va[n].uid
         /\ pvc = "bound" /\ va[n].attached /\ ~va[n].deleting => n \in access
    /\ att.pc = "addFinalizer" /\ va[att.node].uid = att.va.uid =>
         vaCache[att.node].uid = att.va.uid
    /\ att.pc \in {"unpublish", "dropFinalizer"} /\ va[att.node].uid # att.va.uid =>
         ~va[att.node].fin
    /\ att.pc = "setAttached" /\ pvc = "bound" => att.node \in access

(* A pod belongs to a bound claim, and it has the volume mounted only while *)
(* the VolumeAttachment of its node is there and attached.                  *)
PodInv ==
    /\ pod # {} => pvc = "bound"
    /\ \A m, n \in pod : m = n
    /\ mounted => pod # {} /\ \A n \in pod : va[n].attached /\ ~va[n].deleting

MountInv == AttachedInv /\ PodInv

(* At the start nothing is attached and no pod runs. *)
LEMMA MountInit == Init => MountInv
<1> SUFFICES ASSUME Init PROVE MountInv OBVIOUS
<1>1. att.pc = "idle" BY DEF Init, IdleAtt
<1> QED BY <1>1 DEF Init, MountInv, AttachedInv, PodInv, NoVA

(* The provisioner takes access away only while no claim is bound. *)
LEMMA MountProvisioner == TypeInv /\ AttachInv /\ BoundInv /\ MountInv /\ Provisioner => MountInv'
<1> SUFFICES ASSUME TypeInv, AttachInv, BoundInv, MountInv, Provisioner PROVE MountInv' OBVIOUS
<1>1. UNCHANGED <<pvc, va, vaCache, att, pod, mounted>>
  BY DEF Provisioner, ReconcilePersistentVolumeClaim, ClaimCreateVolume, ClaimCreatePV, ClaimRollback,
         ReconcilePersistentVolumeDeletion, PVDeleteVolume, UpdatePVFinalizers, PVDelete,
         api, caches, server, cluster
<1>2. pvc = "bound" => access' = access
  BY DEF Provisioner, ReconcilePersistentVolumeClaim, ClaimCreateVolume, ClaimCreatePV, ClaimRollback,
         ReconcilePersistentVolumeDeletion, PVDeleteVolume, UpdatePVFinalizers, PVDelete,
         api, caches, server, cluster, BoundInv
<1> QED BY <1>1, <1>2 DEF MountInv, AttachedInv, PodInv

(* The attacher publishes before it says attached, and unpublishes only     *)
(* what is being deleted.                                                   *)
LEMMA MountAttacher == TypeInv /\ AttachInv /\ MountInv /\ Attacher => MountInv'
<1> SUFFICES ASSUME TypeInv, AttachInv, MountInv, Attacher PROVE MountInv' OBVIOUS
<1>w. /\ DropVAFinalizer => /\ att.pc = "dropFinalizer" /\ DropsOne /\ AttDone
                            /\ UNCHANGED <<pvc, vaCache, access, pod, mounted>>
      /\ AddVAFinalizer => /\ att.pc = "addFinalizer" /\ AddsOne
                           /\ UNCHANGED <<pvc, vaCache, access, pod, mounted>>
      /\ UpdateVAStatus => /\ att.pc = "setAttached" /\ MarksOne /\ AttDone
                           /\ UNCHANGED <<pvc, vaCache, access, pod, mounted>>
  BY DropWrites, AddWrites, StatusWrites
     DEF AttachInv, DropVAFinalizer, AddVAFinalizer, UpdateVAStatus, caches, server, cluster
<1>t. va \in [Node -> VA] /\ att.node \in Node /\ access \subseteq Node /\ pod \subseteq Node
  BY DEF TypeInv, TypeOK
<1> USE DEF MountInv, AttachedInv, PodInv, AttachInv, AttachmentInv, AttacherInv,
            api, caches, server, cluster
<1>1. ASSUME NEW n \in Node, ReconcileVolumeAttachment(n) PROVE MountInv'
  BY <1>1, <1>t DEF ReconcileVolumeAttachment
<1>2. CASE UnpublishVolume
  BY <1>2, <1>t DEF UnpublishVolume, AttGoto, AttDone, IdleAtt
<1>3. CASE DropVAFinalizer
  <2>1. AttachedInv' BY <1>3, <1>w, <1>t DEF DropsOne, AttDone, IdleAtt, NoVA
  <2>2. PodInv' BY <1>3, <1>w, <1>t DEF DropsOne, AttDone, IdleAtt, NoVA
  <2> QED BY <2>1, <2>2
<1>4. CASE AddVAFinalizer
  <2>1. AttachedInv' BY <1>4, <1>w, <1>t DEF AddsOne
  <2>2. PodInv' BY <1>4, <1>w, <1>t DEF AddsOne
  <2> QED BY <2>1, <2>2
<1>5. CASE GetLatestVA
  BY <1>5, <1>t DEF GetLatestVA, AttGoto, AttDone, IdleAtt
<1>6. CASE PublishVolume
  BY <1>6, <1>t DEF PublishVolume, AttGoto, AttDone, IdleAtt
<1>7. CASE UpdateVAStatus
  <2>1. AttachedInv' BY <1>7, <1>w, <1>t DEF MarksOne, AttDone, IdleAtt
  <2>2. PodInv' BY <1>7, <1>w, <1>t DEF MarksOne, AttDone, IdleAtt
  <2> QED BY <2>1, <2>2
<1> QED BY <1>1, <1>2, <1>3, <1>4, <1>5, <1>6, <1>7 DEF Attacher

(* Informers, a restart, the binder, the attach/detach controller, kubelet  *)
(* and administrators.                                                      *)
LEMMA MountOthers ==
    TypeInv /\ AttachInv /\ MountInv
      /\ (Informers \/ Restart \/ Cluster \/ AdminDeletePV \/ AdminRetain \/ \E n \in Node : NodeLost(n))
      => MountInv'
<1> SUFFICES ASSUME TypeInv, AttachInv, MountInv,
                    Informers \/ Restart \/ Cluster \/ AdminDeletePV \/ AdminRetain
                      \/ \E n \in Node : NodeLost(n)
             PROVE  MountInv'
  OBVIOUS
<1>w. \A n \in Node : DeleteVA(n) => /\ va[n].uid # 0 /\ DeletesOne(n) /\ n \notin pod
                                     /\ UNCHANGED <<pvc, vaCache, access, att, pod, mounted>>
  BY DeleteWrites DEF DeleteVA, caches, server, workers, cluster
<1>t. /\ va \in [Node -> VA] /\ vaCache \in [Node -> VA] /\ att.node \in Node
      /\ access \subseteq Node /\ pod \subseteq Node
  BY DEF TypeInv, TypeOK
<1> USE DEF MountInv, AttachedInv, PodInv, AttachInv, BindingInv, AttachmentInv, AttacherInv,
            api, caches, server, workers, cluster
<1>1. CASE SyncPVC \/ SyncPV \/ Restart
  BY <1>1, <1>t DEF SyncPVC, SyncPV, Restart, IdleAtt
<1>2. ASSUME NEW n \in Node, SyncVA(n) PROVE MountInv'
  BY <1>2, <1>t DEF SyncVA
<1>3. CASE BindClaim \/ ReleasePV \/ AdminDeletePV \/ AdminRetain
  <2>1. UNCHANGED <<va, vaCache, access, att, pod, mounted>> /\ (pvc' = pvc \/ (pvc = "pending" /\ pvc' = "bound"))
    BY <1>3 DEF BindClaim, ReleasePV, AdminDeletePV, AdminRetain
  <2> QED BY <2>1, <1>t
<1>4. CASE DeleteClaim \/ MountPod \/ StopPod
  BY <1>4, <1>t DEF DeleteClaim, MountPod, StopPod
<1>5. ASSUME NEW n \in Node, StartPod(n) \/ NodeLost(n) PROVE MountInv'
  <2>1. CASE StartPod(n)
    BY <2>1, <1>t DEF StartPod
  <2>2. CASE NodeLost(n)
    <3>1. mounted' => mounted /\ n \notin pod
      BY <2>2 DEF NodeLost
    <3> QED BY <2>2, <3>1, <1>t DEF NodeLost
  <2> QED BY <1>5, <2>1, <2>2
<1>6. ASSUME NEW n \in Node, CreateVA(n) PROVE MountInv'
  <2>1. /\ \A m \in Node : va[m].uid = 0 /\ ~va[m].attached
        /\ \A m \in Node : va'[m] = va[m] \/ (m = n /\ ~va'[m].fin /\ ~va'[m].attached /\ va'[m].uid = seq.va + 1)
        /\ UNCHANGED <<pvc, vaCache, access, att, pod, mounted>>
    BY <1>6, <1>t DEF CreateVA
  <2>2. att.va.uid # seq.va + 1
    BY LimitAssumption DEF TypeInv, TypeOK, VA
  <2> QED BY <2>1, <2>2, <1>t
<1>7. ASSUME NEW n \in Node, DeleteVA(n) PROVE MountInv'
  <2>1. AttachedInv' BY <1>7, <1>w, <1>t DEF DeletesOne, NoVA
  <2>2. PodInv' BY <1>7, <1>w, <1>t DEF DeletesOne, NoVA
  <2> QED BY <2>1, <2>2
<1> QED BY <1>1, <1>2, <1>3, <1>4, <1>5, <1>6, <1>7 DEF Informers, Cluster

(* What is mounted stays attached. *)
LEMMA MountNext == TypeInv /\ AttachInv /\ BoundInv /\ MountInv /\ [Next]_vars => MountInv'
<1>1. ASSUME MountInv, UNCHANGED vars PROVE MountInv'
  BY <1>1 DEF vars, api, caches, server, workers, cluster, MountInv, AttachedInv, PodInv
<1> QED BY <1>1, MountProvisioner, MountAttacher, MountOthers DEF Next

(* While a pod has the volume mounted its storage is there and its node is  *)
(* let in: no stale cache, late unpublish, rollback or restart takes either *)
(* away.                                                                    *)
THEOREM MountServed == ASSUME NoSurprise PROVE Spec => []MountedIsServed
<1>1. TypeInv /\ BoundInv /\ MountInv => MountedIsServed
  BY DEF TypeInv, TypeOK, BoundInv, MountInv, AttachedInv, PodInv, MountedIsServed
<1> QED BY <1>1, TypeInit, TypeNext, AttachInit, AttachNext, BoundInit, BoundNext, MountInit, MountNext,
           PTL DEF Spec

-----------------------------------------------------------------------------
(* No write is stored behind a caller's back, and the policy of a PV stays  *)
(* the one of its class.                                                    *)
PolicyStays == Adversity \cap {"lostAnswer", "patchRetain"} = {}

(* Every PV, cached or not, has the policy of the class; the provisioner    *)
(* deletes storage for the policy Delete only, and rolls back only while    *)
(* there is no PV.                                                          *)
PolicyInv ==
    /\ pv.uid # 0 => pv.policy = class
    /\ pvCache.uid # 0 => pvCache.policy = class
    /\ prov.pc = "deleteVolume" => class = "Delete"
    /\ prov.pc \in {"createVolume", "createPV", "rollback"} => pv.uid = 0

(* At the start there is no PV. *)
LEMMA PolicyInit == Init => PolicyInv
BY DEF Init, PolicyInv, NoPV, IdleProv

(* Every step keeps the policy. *)
LEMMA PolicyNext == ASSUME PolicyStays PROVE TypeInv /\ PolicyInv /\ [Next]_vars => PolicyInv'
<1> SUFFICES ASSUME TypeInv, PolicyInv, [Next]_vars PROVE PolicyInv' OBVIOUS
<1>w. UpdatePVFinalizers \/ PVDelete \/ ReleasePV \/ AdminDeletePV => WritesPV
  BY PVWrites
<1>n. "lostAnswer" \notin Adversity /\ ~AdminRetain
  BY DEF PolicyStays, AdminRetain
<1> USE DEF PolicyInv, api, caches, server, workers, cluster
<1>1. CASE ReconcilePersistentVolumeClaim
  BY <1>1 DEF ReconcilePersistentVolumeClaim
<1>2. CASE ClaimCreateVolume
  BY <1>2 DEF ClaimCreateVolume, ProvGoto, ProvDone, IdleProv
<1>3. CASE ClaimCreatePV
  <2>1. NewPV.policy = class
    BY DEF NewPV
  <2>2. pv' = pv \/ (pv' = NewPV /\ prov'.pc = "idle")
    BY <1>3, <1>n DEF ClaimCreatePV, StorePV, ProvDone, IdleProv
  <2>3. /\ prov.pc = "createPV" /\ prov'.pc \in {"idle", "rollback"} /\ UNCHANGED <<pvCache, class>>
    BY <1>3 DEF ClaimCreatePV, ProvGoto, ProvDone, IdleProv
  <2> QED BY <2>1, <2>2, <2>3
<1>4. CASE ClaimRollback
  BY <1>4 DEF ClaimRollback, ProvDone, IdleProv
<1>5. CASE ReconcilePersistentVolumeDeletion
  BY <1>5 DEF ReconcilePersistentVolumeDeletion
<1>6. CASE PVDeleteVolume
  BY <1>6 DEF PVDeleteVolume, AfterFinalizer, ProvGoto, ProvDone, IdleProv
<1>7. CASE UpdatePVFinalizers
  <2>1. prov'.pc \in {"idle", "deletePV"} /\ UNCHANGED <<pvCache, class>>
    BY <1>7 DEF UpdatePVFinalizers, AfterFinalizer, ProvGoto, ProvDone, IdleProv
  <2> QED BY <1>7, <1>w, <2>1 DEF WritesPV
<1>8. CASE PVDelete
  <2>1. prov'.pc = "idle" /\ UNCHANGED <<pvCache, class>>
    BY <1>8 DEF PVDelete, ProvDone, IdleProv
  <2> QED BY <1>8, <1>w, <2>1 DEF WritesPV
<1>9. CASE ReleasePV \/ AdminDeletePV
  <2>1. pv.uid # 0 /\ UNCHANGED <<pvCache, class, prov>>
    BY <1>9 DEF ReleasePV, AdminDeletePV
  <2> QED BY <1>9, <1>w, <2>1 DEF WritesPV
<1>10. CASE BindClaim
  BY <1>10 DEF BindClaim
<1>11. CASE Attacher
  BY <1>11 DEF Attacher, ReconcileVolumeAttachment, UnpublishVolume, DropVAFinalizer, AddVAFinalizer,
               GetLatestVA, PublishVolume, UpdateVAStatus
<1>12. CASE Informers \/ Restart
  BY <1>12 DEF Informers, SyncPVC, SyncPV, SyncVA, Restart, IdleProv
<1>13. CASE DeleteClaim \/ MountPod \/ StopPod
  BY <1>13 DEF DeleteClaim, MountPod, StopPod
<1>14. ASSUME NEW n \in Node, StartPod(n) \/ CreateVA(n) \/ DeleteVA(n) \/ NodeLost(n)
       PROVE  PolicyInv'
  BY <1>14 DEF StartPod, CreateVA, DeleteVA, NodeLost
<1>15. CASE UNCHANGED vars
  BY <1>15 DEF vars
<1> QED BY <1>n, <1>1, <1>2, <1>3, <1>4, <1>5, <1>6, <1>7, <1>8, <1>9, <1>10, <1>11, <1>12, <1>13, <1>14,
           <1>15 DEF Next, Provisioner, Cluster

(* The backend volume is touched by three steps of the provisioner only. *)
LEMMA DiskSteps ==
    [Next]_vars => disk' = disk \/ ClaimCreateVolume \/ ClaimRollback \/ PVDeleteVolume
<1> SUFFICES ASSUME [Next]_vars, ~ClaimCreateVolume, ~ClaimRollback, ~PVDeleteVolume
             PROVE  disk' = disk
  OBVIOUS
<1> USE DEF api, caches, server, workers, cluster
<1>1. CASE Provisioner
  BY <1>1 DEF Provisioner, ReconcilePersistentVolumeClaim, ClaimCreatePV, UpdatePVFinalizers, PVDelete,
              ReconcilePersistentVolumeDeletion
<1>2. CASE Attacher
  BY <1>2 DEF Attacher, ReconcileVolumeAttachment, UnpublishVolume, DropVAFinalizer, AddVAFinalizer,
              GetLatestVA, PublishVolume, UpdateVAStatus
<1>3. CASE Informers \/ Restart
  BY <1>3 DEF Informers, SyncPVC, SyncPV, SyncVA, Restart
<1>4. CASE Cluster \/ AdminDeletePV \/ AdminRetain \/ \E n \in Node : NodeLost(n)
  BY <1>4 DEF Cluster, BindClaim, ReleasePV, DeleteClaim, StartPod, CreateVA, MountPod, StopPod, DeleteVA,
              AdminDeletePV, AdminRetain, NodeLost
<1>5. CASE UNCHANGED vars
  BY <1>5 DEF vars
<1> QED BY <1>1, <1>2, <1>3, <1>4, <1>5 DEF Next

(* The reclaim policy is carried out: with Delete the PV outlives its       *)
(* storage, with Retain nothing deletes the storage of a PV, whoever else   *)
(* deletes the PV object, bound or released.                                *)
THEOREM PolicyFollowed == ASSUME PolicyStays PROVE Spec => StorageFollowsPolicy
<1>1. TypeInv /\ CleanInv /\ PolicyInv /\ [Next]_vars =>
        [/\ pv.uid # 0 /\ pv.policy = "Delete" /\ pv'.uid = 0 => disk = "none"
         /\ pv.uid # 0 /\ pv.policy = "Retain" /\ disk = "ready" => disk' = "ready"]_vars
  <2> SUFFICES ASSUME TypeInv, CleanInv, PolicyInv, [Next]_vars, pv.uid # 0
               PROVE  /\ pv.policy = "Delete" /\ pv'.uid = 0 => disk = "none"
                      /\ pv.policy = "Retain" /\ disk = "ready" => disk' = "ready"
    OBVIOUS
  <2>1. ASSUME pv.policy = "Delete", pv'.uid = 0 PROVE disk = "none"
    <3>1. WritesPV
      BY <2>1, PVSteps DEF BindClaim, AdminRetain
    <3>2. ~pv.fin \/ (prov.pc = "dropFinalizer" /\ pv = prov.pv)
      BY <2>1, <3>1 DEF WritesPV
    <3> QED BY <2>1, <3>2 DEF CleanInv
  <2>2. ASSUME pv.policy = "Retain" PROVE disk' = disk
    BY <2>2, DiskSteps DEF PolicyInv, ClaimCreateVolume, ClaimRollback, PVDeleteVolume
  <2> QED BY <2>1, <2>2
<1> QED BY <1>1, TypeInit, TypeNext, CleanInit, CleanNext, PolicyInit, PolicyNext,
           PTL DEF Spec, StorageFollowsPolicy

-----------------------------------------------------------------------------
(* Administrators do not delete PV objects themselves. *)
NobodyDeletes == Adversity \cap {"deleteReleased", "deletePV"} = {}

(* Then only the provisioner has a PV deleted, and only behind the deletion *)
(* of its storage.                                                          *)
DeletionInv ==
    /\ pv.deleting => pv.uid # 0 /\ disk = "none"
    /\ prov.pc = "dropFinalizer" /\ ~prov.pv.deleting => disk = "none"
    /\ prov.pc = "deletePV" => disk = "none"

(* At the start there is no PV. *)
LEMMA DeletionInit == Init => DeletionInv
BY DEF Init, DeletionInv, NoPV, IdleProv

(* Every step keeps that. *)
LEMMA DeletionNext ==
    ASSUME NobodyDeletes
    PROVE  TypeInv /\ CleanInv /\ DeletionInv /\ [Next]_vars => DeletionInv'
<1> SUFFICES ASSUME TypeInv, CleanInv, DeletionInv, [Next]_vars PROVE DeletionInv' OBVIOUS
<1>w. UpdatePVFinalizers \/ PVDelete \/ ReleasePV \/ AdminDeletePV => WritesPV
  BY PVWrites
<1>n. ~AdminDeletePV
  BY DEF NobodyDeletes, AdminDeletePV
<1> USE DEF DeletionInv, api, caches, server, workers, cluster
<1>1. CASE ReconcilePersistentVolumeClaim
  BY <1>1 DEF ReconcilePersistentVolumeClaim
<1>2. CASE ClaimCreateVolume
  BY <1>2 DEF ClaimCreateVolume, CleanInv, ProvGoto, ProvDone, IdleProv
<1>3. CASE ClaimCreatePV
  <2>1. ~NewPV.deleting
    BY DEF NewPV
  <2>2. pv' = pv \/ pv' = NewPV
    BY <1>3 DEF ClaimCreatePV, StorePV
  <2>3. prov'.pc \in {"idle", "rollback"} /\ disk' = disk
    BY <1>3 DEF ClaimCreatePV, ProvGoto, ProvDone, IdleProv
  <2> QED BY <2>1, <2>2, <2>3
<1>4. CASE ClaimRollback
  BY <1>4 DEF ClaimRollback, DeleteFails, ProvDone, IdleProv
<1>5. CASE ReconcilePersistentVolumeDeletion
  BY <1>5 DEF ReconcilePersistentVolumeDeletion
<1>6. CASE PVDeleteVolume
  BY <1>6 DEF PVDeleteVolume, DeleteFails, AfterFinalizer, ProvGoto, ProvDone, IdleProv
<1>7. CASE UpdatePVFinalizers
  <2>1. /\ prov.pc = "dropFinalizer" /\ disk' = disk
        /\ prov'.pc = "idle" \/ (prov'.pc = "deletePV" /\ ~prov.pv.deleting)
    BY <1>7 DEF UpdatePVFinalizers, AfterFinalizer, ProvGoto, ProvDone, IdleProv
  <2> QED BY <1>7, <1>n, <1>w, <2>1 DEF WritesPV
<1>8. CASE PVDelete
  <2>1. prov.pc = "deletePV" /\ prov'.pc = "idle" /\ disk' = disk
    BY <1>8 DEF PVDelete, ProvDone, IdleProv
  <2>2. pv'.deleting => pv'.uid # 0
    <3> DEFINE new == [uid |-> pv.uid, phase |-> pv.phase, policy |-> pv.policy,
                       deleting |-> pv.uid # 0, fin |-> pv.fin]
    <3>1. new.uid = pv.uid /\ (new.deleting <=> pv.uid # 0)
      OBVIOUS
    <3>2. pv' = pv \/ pv' = new \/ pv' = NoPV
      BY <1>8 DEF PVDelete, StoredPV
    <3> HIDE DEF new
    <3> QED BY <3>1, <3>2 DEF NoPV
  <2> QED BY <2>1, <2>2
<1>9. CASE ReleasePV
  <2>1. pv.uid # 0 /\ UNCHANGED <<prov, disk>>
    BY <1>9 DEF ReleasePV
  <2> QED BY <1>9, <1>n, <1>w, <2>1 DEF WritesPV
<1>10. CASE BindClaim \/ AdminRetain
  BY <1>10 DEF BindClaim, AdminRetain
<1>11. CASE Attacher
  BY <1>11 DEF Attacher, ReconcileVolumeAttachment, UnpublishVolume, DropVAFinalizer, AddVAFinalizer,
               GetLatestVA, PublishVolume, UpdateVAStatus
<1>12. CASE Informers \/ Restart
  BY <1>12 DEF Informers, SyncPVC, SyncPV, SyncVA, Restart, IdleProv
<1>13. CASE DeleteClaim \/ MountPod \/ StopPod
  BY <1>13 DEF DeleteClaim, MountPod, StopPod
<1>14. ASSUME NEW n \in Node, StartPod(n) \/ CreateVA(n) \/ DeleteVA(n) \/ NodeLost(n)
       PROVE  DeletionInv'
  BY <1>14 DEF StartPod, CreateVA, DeleteVA, NodeLost
<1>15. CASE UNCHANGED vars
  BY <1>15 DEF vars
<1> QED BY <1>n, <1>1, <1>2, <1>3, <1>4, <1>5, <1>6, <1>7, <1>8, <1>9, <1>10, <1>11, <1>12, <1>13, <1>14,
           <1>15 DEF Next, Provisioner, Cluster

(* What the patch leads to, and what stays from then on: a PV with the      *)
(* policy Retain that nobody deletes, here and in the cache, and a          *)
(* provisioner that has nothing to do.                                      *)
Patched ==
    /\ pv.uid # 0 /\ pv.policy = "Retain" /\ ~pv.deleting
    /\ pvCache.policy = "Retain" /\ ~pvCache.deleting
    /\ prov.pc = "idle" /\ disk = "ready"

(* No step leads out of it. *)
LEMMA PatchedNext ==
    ASSUME NobodyDeletes
    PROVE  TypeInv /\ CleanInv /\ Patched /\ [Next]_vars => Patched'
<1> SUFFICES ASSUME TypeInv, CleanInv, Patched, [Next]_vars PROVE Patched' OBVIOUS
<1>n. ~AdminDeletePV
  BY DEF NobodyDeletes, AdminDeletePV
<1>1. ~Provisioner
  BY DEF Patched, Provisioner, ReconcilePersistentVolumeClaim, ClaimCreateVolume, ClaimCreatePV, ClaimRollback,
         ReconcilePersistentVolumeDeletion, PVDeleteVolume, UpdatePVFinalizers, PVDelete
<1>2. disk' = disk
  BY <1>1, DiskSteps DEF Provisioner
<1>3. pv'.uid = pv.uid /\ pv'.policy = "Retain" /\ ~pv'.deleting
  <2>1. CASE WritesPV
    BY <2>1, <1>n DEF WritesPV, Patched
  <2>2. CASE BindClaim \/ AdminRetain
    BY <2>2 DEF BindClaim, AdminRetain, Patched
  <2> QED BY <2>1, <2>2, PVSteps DEF Patched
<1>4. pvCache' \in {pvCache, pv}
  <2> USE DEF api, caches, server, workers, cluster
  <2>1. CASE Attacher
    BY <2>1 DEF Attacher, ReconcileVolumeAttachment, UnpublishVolume, DropVAFinalizer, AddVAFinalizer,
                GetLatestVA, PublishVolume, UpdateVAStatus
  <2>2. CASE Informers \/ Restart
    BY <2>2 DEF Informers, SyncPVC, SyncPV, SyncVA, Restart
  <2>3. CASE Cluster \/ AdminRetain \/ \E n \in Node : NodeLost(n)
    BY <2>3 DEF Cluster, BindClaim, ReleasePV, DeleteClaim, StartPod, CreateVA, MountPod, StopPod, DeleteVA,
                AdminRetain, NodeLost
  <2> QED BY <1>1, <1>n, <2>1, <2>2, <2>3 DEF Next, vars
<1>5. prov'.pc = "idle"
  <2> USE DEF api, caches, server, workers, cluster, Patched
  <2>1. CASE Attacher
    BY <2>1 DEF Attacher, ReconcileVolumeAttachment, UnpublishVolume, DropVAFinalizer, AddVAFinalizer,
                GetLatestVA, PublishVolume, UpdateVAStatus
  <2>2. CASE Informers \/ Restart
    BY <2>2 DEF Informers, SyncPVC, SyncPV, SyncVA, Restart, IdleProv
  <2>3. CASE Cluster \/ AdminRetain \/ \E n \in Node : NodeLost(n)
    BY <2>3 DEF Cluster, BindClaim, ReleasePV, DeleteClaim, StartPod, CreateVA, MountPod, StopPod, DeleteVA,
                AdminRetain, NodeLost
  <2> QED BY <1>1, <1>n, <2>1, <2>2, <2>3 DEF Next, vars
<1> QED BY <1>2, <1>3, <1>4, <1>5 DEF Patched

(* Once the cache shows that a PV was patched to Retain and the provisioner *)
(* is idle, the storage stays for ever, writes with a lost answer, restarts *)
(* and lost nodes included.                                                 *)
THEOREM PatchHonoured == ASSUME NobodyDeletes PROVE Spec => PatchIsHonoured
<1> DEFINE Seen == /\ pv.uid # 0 /\ pv.policy = "Retain" /\ pvCache = pv
                   /\ prov.pc = "idle" /\ disk = "ready"
<1>1. DeletionInv /\ Seen => Patched
  BY DEF DeletionInv, Patched
<1>2. Patched => disk = "ready"
  BY DEF Patched
<1>3. Spec => [](TypeInv /\ CleanInv /\ DeletionInv)
  BY TypeInit, TypeNext, CleanInit, CleanNext, DeletionInit, DeletionNext, PTL DEF Spec
<1>4. Spec => [](Patched => []Patched)
  BY <1>3, PatchedNext, PTL DEF Spec
<1> QED BY <1>1, <1>2, <1>3, <1>4, PTL DEF PatchIsHonoured
=============================================================================
