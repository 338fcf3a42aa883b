----------------------- MODULE ControllerServerProofs -----------------------
(***************************************************************************)
(* Proofs about ControllerServer, for any number of volumes and nodes and  *)
(* any number of faults.                                                   *)
(***************************************************************************)
EXTENDS ControllerServer, FiniteSetTheorems, TLAPS

(* What a backend call can leave behind on the server. *)
ServerStep(s) == Run(s) \/ DeleteVirtualDiskHalfway(s.path) \/ UNCHANGED backend

(* A script with well-typed arguments keeps the server well-typed. *)
LEMMA ServerStepType ==
    ASSUME BackendTypeOK, NEW s \in Script, ServerStep(s)
    PROVE  BackendTypeOK'
<1> USE DEF Script
<1>1. CASE s.op = "EnsureTarget" /\ EnsureTarget(s.vol)
  BY <1>1 DEF EnsureTarget, BackendTypeOK
<1>2. CASE s.op = "ConfigureTargetChap" /\ ConfigureTargetChap(s.vol)
  BY <1>2 DEF ConfigureTargetChap, BackendTypeOK
<1>3. CASE s.op \in {"CreateVirtualDisk", "ExportSnapshotAsVirtualDisk"}
             /\ CreateVirtualDisk(s.path, s.bytes)
  BY <1>3 DEF CreateVirtualDisk, BackendTypeOK
<1>4. CASE s.op = "MapDiskToTarget" /\ MapDiskToTarget(s.vol, s.path)
  <2>1. [target |-> s.vol, path |-> s.path, lun |-> NextLun(s.vol)] \in Mapping
    BY DEF NextLun, Mapping, Lun
  <2> QED BY <1>4, <2>1 DEF MapDiskToTarget, BackendTypeOK
<1>5. CASE s.op = "UnmapDiskFromTarget" /\ UnmapDiskFromTarget(s.vol, s.path)
  BY <1>5 DEF UnmapDiskFromTarget, BackendTypeOK
<1>6. CASE s.op = "DeleteVirtualDisk" /\ DeleteVirtualDisk(s.path)
  BY <1>6 DEF DeleteVirtualDisk, BackendTypeOK
<1>7. CASE s.op = "DeleteTarget" /\ DeleteTarget(s.vol)
  BY <1>7 DEF DeleteTarget, BackendTypeOK
<1>8. CASE s.op = "AllowInitiator" /\ SetInitiatorIds(s.vol, allowed[s.vol] \cup s.iqns)
  BY <1>8 DEF SetInitiatorIds, BackendTypeOK
<1>9. CASE s.op = "DenyInitiator" /\ DenyInitiator(s.vol, s.iqns)
  BY <1>9 DEF DenyInitiator, SetInitiatorIds, BackendTypeOK
<1>10. CASE s.op = "SetInitiatorIds" /\ SetInitiatorIds(s.vol, s.iqns)
  BY <1>10 DEF SetInitiatorIds, BackendTypeOK
<1>11. CASE UNCHANGED backend
  BY <1>11 DEF backend, BackendTypeOK
<1>12. CASE DeleteVirtualDiskHalfway(s.path)
  BY <1>12 DEF DeleteVirtualDiskHalfway, BackendTypeOK
<1> QED
  BY <1>1, <1>2, <1>3, <1>4, <1>5, <1>6, <1>7, <1>8, <1>9, <1>10, <1>11, <1>12
  DEF ServerStep, Run

(* The scripts the handlers send are well-typed. *)
LEMMA ScriptType ==
    ASSUME NEW op \in Op, NEW v \in Volume, NEW p \in Path, NEW b \in Size \cup {0},
           NEW s \in SUBSET Node
    PROVE  /\ OnTarget(op, v) \in Script
           /\ OnDisk(op, v, p, b) \in Script
           /\ OnInitiators(op, v, s) \in Script
BY DEF OnTarget, OnDisk, OnInitiators, Script, Path

(* The part of the type invariant about the calls in flight. *)
CallsTypeOK ==
    /\ prov \in [Volume -> Call]
    /\ att \in [Volume -> [pc : AttPC, nodes : SUBSET Node, seen : SUBSET Node]]
    /\ vol \in [Volume -> Life]
    /\ id \in [Volume -> VolumeID]
    /\ grant \in [Volume -> [Node -> {"unknown", "granted", "revoked"}]]

LateTypeOK == late \subseteq Script /\ faults \in 0..MaxFaults

(* The type invariant is the type of its three parts. *)
LEMMA TypeParts == TypeOK <=> BackendTypeOK /\ CallsTypeOK /\ LateTypeOK
BY DEF TypeOK, CallsTypeOK, LateTypeOK

(* Every way a provisioner call goes on keeps the calls well-typed. *)
LEMMA ProvTypes ==
    ASSUME CallsTypeOK, NEW v \in Volume,
           NEW pc \in ProvPC, NEW p \in Path, NEW b \in Size \cup {0},
           Goto(v, pc, p, b) \/ ProvError(v) \/ Created(v, b) \/ Deleted(v)
    PROVE  CallsTypeOK'
<1> USE DEF CallsTypeOK, Call, Request, Path, Life
<1>0. NoCall(v) \in Call
  BY DEF NoCall, NewCall, ToDelete, ProvPC
<1>1. CASE Goto(v, pc, p, b)
  BY <1>1 DEF Goto
<1>2. CASE ProvError(v)
  BY <1>0, <1>2 DEF ProvError
<1>3. CASE Created(v, b)
  BY <1>0, <1>3 DEF Created, VolumeID, Lun
<1>4. CASE Deleted(v)
  BY <1>0, <1>4 DEF Deleted
<1> QED BY <1>1, <1>2, <1>3, <1>4

(* Every way an attacher call goes on keeps the calls well-typed. *)
LEMMA AttTypes ==
    ASSUME CallsTypeOK, NEW v \in Volume, NEW pc \in AttPC, NEW s \in SUBSET Node,
           NEW a \in {"granted", "revoked"},
           AttGoto(v, pc, s) \/ AttError(v) \/ AttDone(v, a)
    PROVE  CallsTypeOK'
<1>1. NoAttach \in [pc : AttPC, nodes : SUBSET Node, seen : SUBSET Node]
  BY DEF NoAttach, AttPC
<1>2. CASE AttGoto(v, pc, s)
  BY <1>2 DEF AttGoto, CallsTypeOK
<1>3. CASE AttError(v)
  BY <1>1, <1>3 DEF AttError, CallsTypeOK
<1>4. CASE AttDone(v, a)
  BY <1>1, <1>4 DEF AttDone, CallsTypeOK
<1> QED BY <1>2, <1>3, <1>4

(* Bookkeeping of faults and abandoned scripts. *)
LateStep(s) ==
    \/ UNCHANGED <<late, faults>>
    \/ faults < MaxFaults /\ faults' = faults + 1 /\ (late' = late \/ late' = late \cup {s})

(* An abandoned script that ends keeps the types. *)
LEMMA LateTypes ==
    ASSUME LateTypeOK, NEW s \in Script, LateStep(s)
    PROVE  LateTypeOK'
BY BoundAssumption DEF LateTypeOK, LateStep

(* The type invariant survives a step of a handler that waits for script s. *)
LEMMA HandlerTypes ==
    ASSUME TypeOK, NEW s \in Script, ServerStep(s), LateStep(s), CallsTypeOK'
    PROVE  TypeOK'
BY ServerStepType, LateTypes, TypeParts DEF TypeOK, CallsTypeOK, LateTypeOK

(* Every step of a CreateVolume or DeleteVolume call keeps the types. *)
LEMMA ProvisionerTypes ==
    ASSUME TypeOK, NEW v \in Volume, Provisioner(v)
    PROVE  TypeOK'
<1> USE DEF ServerStep, LateStep, RunPS
<1>0. /\ BackendTypeOK /\ CallsTypeOK /\ v \in Path
      /\ prov[v].path \in Path /\ prov[v].bytes \in Size \cup {0}
      /\ prov[v].req.want \in Size \cup {0}
      /\ \A p \in Path : size[p] \in Size \cup {0}
  BY TypeParts DEF CallsTypeOK, Call, Request, Path, BackendTypeOK
<1>1. CASE CreateVolumeExport(v)
  <2>1. PICK p \in FreeExport, b \in Size :
           RunPS(OnDisk("ExportSnapshotAsVirtualDisk", v, p, b),
                 Goto(v, "target", p, b), ProvError(v))
    BY <1>1 DEF CreateVolumeExport
  <2> DEFINE s == OnDisk("ExportSnapshotAsVirtualDisk", v, p, b)
  <2>2. p \in Path
    BY DEF FreeExport, Path
  <2>3. s \in Script
    BY <2>2, ScriptType DEF Op
  <2> HIDE DEF s
  <2>4. ServerStep(s) /\ LateStep(s) /\ (Goto(v, "target", p, b) \/ ProvError(v))
    BY <2>1 DEF s
  <2> QED BY <1>0, <2>2, <2>3, <2>4, ProvTypes, HandlerTypes DEF ProvPC
<1>2. CASE CreateVolumeLookup(v)
  <2> DEFINE s == OnDisk("GetVolumeByName", v, v, 0)
  <2>1. s \in Script
    BY <1>0, ScriptType DEF Op
  <2> HIDE DEF s
  <2>2. ServerStep(s) /\ LateStep(s) /\ (Goto(v, "create", v, 0) \/ Goto(v, "remap", v, size[v])
           \/ Goto(v, "reuse", v, size[v]) \/ ProvError(v))
    BY <1>2 DEF s, CreateVolumeLookup, Lookup
  <2>3. CallsTypeOK'
    BY <1>0, <2>2, ProvTypes DEF ProvPC
  <2> QED BY <2>1, <2>2, <2>3, HandlerTypes
<1>3. CASE CreateVolumeReuse(v)
  <2> DEFINE s == OnTarget("EnsureTarget", v)
  <2>1. s \in Script
    BY <1>0, ScriptType DEF Op
  <2> HIDE DEF s
  <2>2. ServerStep(s) /\ LateStep(s) /\ (Created(v, prov[v].bytes) \/ ProvError(v))
    BY <1>3 DEF s, CreateVolumeReuse
  <2>3. CallsTypeOK'
    BY <1>0, <2>2, ProvTypes DEF ProvPC
  <2> QED BY <2>1, <2>2, <2>3, HandlerTypes
<1>4. CASE CreateVolumeRemap(v)
  <2> DEFINE s == OnTarget("EnsureTarget", v)
  <2>1. s \in Script
    BY <1>0, ScriptType DEF Op
  <2> HIDE DEF s
  <2>2. ServerStep(s) /\ LateStep(s) /\ (Goto(v, "map", v, prov[v].bytes) \/ ProvError(v))
    BY <1>4 DEF s, CreateVolumeRemap
  <2>3. CallsTypeOK'
    BY <1>0, <2>2, ProvTypes DEF ProvPC
  <2> QED BY <2>1, <2>2, <2>3, HandlerTypes
<1>5. CASE CreateVolumeDisk(v)
  <2> DEFINE s == OnDisk("CreateVirtualDisk", v, v, prov[v].req.want)
  <2>1. s \in Script
    BY <1>0, ScriptType DEF Op
  <2> HIDE DEF s
  <2>2. ServerStep(s) /\ LateStep(s) /\ (Goto(v, "target", v, size'[v]) \/ ProvError(v))
    BY <1>5 DEF s, CreateVolumeDisk
  <2>4. size'[v] \in Size \cup {0}
    BY <1>0, <2>1, <2>2, ServerStepType DEF BackendTypeOK
  <2>3. CallsTypeOK'
    BY <1>0, <2>2, <2>4, ProvTypes DEF ProvPC
  <2> QED BY <2>1, <2>2, <2>3, HandlerTypes
<1>6. CASE CreateVolumeTarget(v)
  <2> DEFINE s == OnTarget("EnsureTarget", v)
  <2>1. s \in Script
    BY <1>0, ScriptType DEF Op
  <2> HIDE DEF s
  <2>2. ServerStep(s) /\ LateStep(s) /\ (Goto(v, "chap", prov[v].path, prov[v].bytes)
           \/ Goto(v, "map", prov[v].path, prov[v].bytes) \/ ProvError(v))
    BY <1>6 DEF s, CreateVolumeTarget
  <2>3. CallsTypeOK'
    BY <1>0, <2>2, ProvTypes DEF ProvPC
  <2> QED BY <2>1, <2>2, <2>3, HandlerTypes
<1>7. CASE CreateVolumeChap(v)
  <2> DEFINE s == OnTarget("ConfigureTargetChap", v)
  <2>1. s \in Script
    BY <1>0, ScriptType DEF Op
  <2> HIDE DEF s
  <2>2. ServerStep(s) /\ LateStep(s) /\ (Goto(v, "map", prov[v].path, prov[v].bytes) \/ ProvError(v))
    BY <1>7 DEF s, CreateVolumeChap
  <2>3. CallsTypeOK'
    BY <1>0, <2>2, ProvTypes DEF ProvPC
  <2> QED BY <2>1, <2>2, <2>3, HandlerTypes
<1>8. CASE CreateVolumeMap(v)
  <2> DEFINE s == OnDisk("MapDiskToTarget", v, prov[v].path, 0)
  <2>1. s \in Script
    BY <1>0, ScriptType DEF Op
  <2> HIDE DEF s
  <2>2. ServerStep(s) /\ LateStep(s) /\ (Goto(v, "info", prov[v].path, prov[v].bytes)
           \/ Created(v, prov[v].bytes) \/ ProvError(v))
    BY <1>8 DEF s, CreateVolumeMap
  <2>3. CallsTypeOK'
    BY <1>0, <2>2, ProvTypes DEF ProvPC
  <2> QED BY <2>1, <2>2, <2>3, HandlerTypes
<1>9. CASE CreateVolumeInfo(v)
  <2> DEFINE s == OnDisk("GetVolumeInfo", v, prov[v].path, 0)
  <2>1. s \in Script
    BY <1>0, ScriptType DEF Op
  <2> HIDE DEF s
  <2>2. ServerStep(s) /\ LateStep(s) /\ (Created(v, size[prov[v].path]) \/ Created(v, 0))
    BY <1>9 DEF s, CreateVolumeInfo
  <2>3. CallsTypeOK'
    BY <1>0, <2>2, ProvTypes DEF ProvPC
  <2> QED BY <2>1, <2>2, <2>3, HandlerTypes
<1>10. CASE DeleteVolumeUnmap(v)
  <2> DEFINE s == OnDisk("UnmapDiskFromTarget", v, prov[v].path, 0)
  <2>1. s \in Script
    BY <1>0, ScriptType DEF Op
  <2> HIDE DEF s
  <2>2. ServerStep(s) /\ LateStep(s) /\ (Goto(v, "delDisk", prov[v].path, 0) \/ ProvError(v))
    BY <1>10 DEF s, DeleteVolumeUnmap
  <2>3. CallsTypeOK'
    BY <1>0, <2>2, ProvTypes DEF ProvPC
  <2> QED BY <2>1, <2>2, <2>3, HandlerTypes
<1>11. CASE DeleteVolumeDisk(v)
  <2> DEFINE s == OnDisk("DeleteVirtualDisk", v, prov[v].path, 0)
  <2>1. s \in Script
    BY <1>0, ScriptType DEF Op
  <2> HIDE DEF s
  <2>2. ServerStep(s) /\ LateStep(s) /\ (Goto(v, "delTarget", prov[v].path, 0) \/ ProvError(v))
    BY <1>11 DEF s, DeleteVolumeDisk
  <2>3. CallsTypeOK'
    BY <1>0, <2>2, ProvTypes DEF ProvPC
  <2> QED BY <2>1, <2>2, <2>3, HandlerTypes
<1>12. CASE DeleteVolumeTarget(v)
  <2> DEFINE s == OnTarget("DeleteTarget", v)
  <2>1. s \in Script
    BY <1>0, ScriptType DEF Op
  <2> HIDE DEF s
  <2>2. ServerStep(s) /\ LateStep(s) /\ (Deleted(v) \/ ProvError(v))
    BY <1>12 DEF s, DeleteVolumeTarget
  <2>3. CallsTypeOK'
    BY <1>0, <2>2, ProvTypes DEF ProvPC
  <2> QED BY <2>1, <2>2, <2>3, HandlerTypes
<1> QED
  BY <1>1, <1>2, <1>3, <1>4, <1>5, <1>6, <1>7, <1>8, <1>9, <1>10, <1>11, <1>12
  DEF Provisioner
(* Every step of a publish or unpublish call keeps the types. *)
LEMMA AttacherTypes ==
    ASSUME TypeOK, NEW v \in Volume, Attacher(v)
    PROVE  TypeOK'
<1> USE DEF ServerStep, LateStep, RunPS
<1>0. /\ BackendTypeOK /\ CallsTypeOK /\ v \in Path /\ allowed[v] \in SUBSET Node
      /\ att[v].nodes \in SUBSET Node /\ att[v].seen \in SUBSET Node
  BY TypeParts DEF CallsTypeOK, Path, BackendTypeOK
<1>1. CASE ControllerPublishChap(v)
  <2> DEFINE s == OnTarget("ConfigureTargetChap", v)
  <2>1. s \in Script
    BY <1>0, ScriptType DEF Op
  <2> HIDE DEF s
  <2>2. ServerStep(s) /\ LateStep(s) /\ (AttGoto(v, "allow", {}) \/ AttError(v))
    BY <1>1 DEF s, ControllerPublishChap
  <2>3. CallsTypeOK'
    BY <1>0, <2>2, AttTypes DEF AttPC
  <2> QED BY <2>1, <2>2, <2>3, HandlerTypes
<1>2. CASE AllowInitiatorRead(v)
  <2> DEFINE r == OnTarget("GetIscsiServerTarget", v)
             w == OnInitiators("AllowInitiator", v, att[v].nodes)
  <2>1. r \in Script /\ w \in Script
    BY <1>0, ScriptType DEF Op
  <2> HIDE DEF r, w
  <2>2. /\ \/ ServerStep(r) /\ LateStep(r)
           \/ ServerStep(w) /\ LateStep(w)
        /\ AttGoto(v, "allowSet", allowed[v]) \/ AttDone(v, "granted") \/ AttError(v)
    BY <1>2 DEF r, w, AllowInitiatorRead
  <2>3. CallsTypeOK'
    BY <1>0, <2>2, AttTypes DEF AttPC
  <2> QED BY <2>1, <2>2, <2>3, HandlerTypes
<1>3. CASE AllowInitiatorWrite(v)
  <2> DEFINE s == OnInitiators("SetInitiatorIds", v, att[v].seen \cup att[v].nodes)
  <2>1. s \in Script
    BY <1>0, ScriptType DEF Op
  <2> HIDE DEF s
  <2>2. ServerStep(s) /\ LateStep(s) /\ (AttDone(v, "granted") \/ AttError(v))
    BY <1>3 DEF s, AllowInitiatorWrite
  <2>3. CallsTypeOK'
    BY <1>0, <2>2, AttTypes DEF AttPC
  <2> QED BY <2>1, <2>2, <2>3, HandlerTypes
<1>4. CASE DenyInitiatorRead(v)
  <2> DEFINE s == OnInitiators("DenyInitiator", v, att[v].nodes)
  <2>1. s \in Script
    BY <1>0, ScriptType DEF Op
  <2> HIDE DEF s
  <2>2. /\ ServerStep(s) /\ LateStep(s)
        /\ AttGoto(v, "denySet", allowed[v]) \/ AttDone(v, "revoked") \/ AttError(v)
    BY <1>4 DEF s, DenyInitiatorRead
  <2>3. CallsTypeOK'
    BY <1>0, <2>2, AttTypes DEF AttPC
  <2> QED BY <2>1, <2>2, <2>3, HandlerTypes
<1>5. CASE DenyInitiatorWrite(v)
  <2> DEFINE s == OnInitiators("SetInitiatorIds", v, att[v].seen \ att[v].nodes)
  <2>1. s \in Script
    BY <1>0, ScriptType DEF Op
  <2> HIDE DEF s
  <2>2. ServerStep(s) /\ LateStep(s) /\ (AttDone(v, "revoked") \/ AttError(v))
    BY <1>5 DEF s, DenyInitiatorWrite
  <2>3. CallsTypeOK'
    BY <1>0, <2>2, AttTypes DEF AttPC
  <2> QED BY <2>1, <2>2, <2>3, HandlerTypes
<1> QED BY <1>1, <1>2, <1>3, <1>4, <1>5 DEF Attacher

(* Every variable keeps its type: in particular a retried or late script   *)
(* never leaves a disk with a capacity that nobody asked for.              *)
THEOREM TypeCorrect == Spec => []TypeOK
<1> USE DEF Path
<1>1. Init => TypeOK
  <2> SUFFICES ASSUME Init PROVE TypeOK
    OBVIOUS
  <2>1. BackendTypeOK
    BY DEF Init, BackendInit, BackendTypeOK
  <2>2. \A v \in Volume : NoCall(v) \in Call
    BY DEF NoCall, NewCall, ToDelete, Call, Request, ProvPC
  <2>3. NoAttach \in [pc : AttPC, nodes : SUBSET Node, seen : SUBSET Node]
    BY DEF NoAttach, AttPC
  <2> QED
    BY <2>1, <2>2, <2>3, BoundAssumption DEF Init, TypeOK, Life, VolumeID, Lun
<1>2. TypeOK /\ [Next]_vars => TypeOK'
  <2> SUFFICES ASSUME TypeOK, [Next]_vars PROVE TypeOK'
    OBVIOUS
  <2>0. BackendTypeOK /\ CallsTypeOK /\ LateTypeOK
    BY TypeParts
  <2>1. ASSUME NEW v \in Volume, NEW src \in Source, NEW want \in Size,
               CreateVolume(v, src, want)
        PROVE  TypeOK'
    <3>1. NewCall(IF src = "snapshot" THEN "export" ELSE "lookup", v,
                  [want |-> want, src |-> src, roll |-> FALSE]) \in Call
      BY SourceAssumption DEF NewCall, Call, Request, ProvPC
    <3> QED BY <2>1, <3>1 DEF CreateVolume, TypeOK, BackendTypeOK, backend
  <2>2. ASSUME NEW v \in Volume, CreatePV(v) \/ Forget(v)
        PROVE  TypeOK'
    BY <2>2, BoundAssumption DEF CreatePV, Forget, TypeOK, BackendTypeOK, backend, Life
  <2>3. ASSUME NEW v \in Volume, Rollback(v) \/ DeleteVolume(v)
        PROVE  TypeOK'
    <3>1. /\ NewCall("unmap", id[v].path, ToDelete(TRUE)) \in Call
          /\ NewCall("unmap", id[v].path, ToDelete(FALSE)) \in Call
      BY <2>0 DEF NewCall, ToDelete, CallsTypeOK, VolumeID, Call, Request, ProvPC
    <3>2. CASE Rollback(v)
      <4>1. LateTypeOK'
        BY <2>0, <3>2, BoundAssumption DEF Rollback, LateTypeOK
      <4> QED BY <3>1, <3>2, <4>1 DEF Rollback, TypeOK, LateTypeOK, BackendTypeOK, backend
    <3>3. CASE DeleteVolume(v)
      BY <3>1, <3>3 DEF DeleteVolume, TypeOK, BackendTypeOK, backend, Life
    <3> QED BY <2>3, <3>2, <3>3
  <2>4. ASSUME NEW v \in Volume, NEW n \in Node,
               ControllerPublishVolume(v, n) \/ ControllerUnpublishVolume(v, n)
        PROVE  TypeOK'
    <3>1. PICK pc \in AttPC : AttBegin(v, n, pc)
      BY <2>4 DEF ControllerPublishVolume, ControllerUnpublishVolume, AttPC
    <3> QED BY <3>1 DEF AttBegin, TypeOK, BackendTypeOK, backend
  <2>5. ASSUME LateScript
        PROVE  TypeOK'
    <3>1. PICK s \in late : ServerStep(s) /\ late' = late \ {s} /\ UNCHANGED <<calls, faults>>
      BY <2>5 DEF LateScript, ServerStep
    <3>2. BackendTypeOK'
      BY <2>0, <3>1, ServerStepType DEF LateTypeOK
    <3> QED BY <3>1, <3>2 DEF TypeOK, calls
  <2>6. CASE UNCHANGED vars
    BY <2>6 DEF vars, calls, backend, TypeOK, BackendTypeOK
  <2> QED
    BY <2>1, <2>2, <2>3, <2>4, <2>5, <2>6, ProvisionerTypes, AttacherTypes DEF Next
<1> QED BY <1>1, <1>2, PTL DEF Spec
=============================================================================
