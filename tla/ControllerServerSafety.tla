----------------------- MODULE ControllerServerSafety -----------------------
(***************************************************************************)
(* The safety proofs of ControllerServer, for any number of volumes, nodes *)
(* and faults, when no abandoned script is left running on Windows; what   *)
(* is said of CHAP holds whatever is left running, but for DeleteTarget.   *)
(***************************************************************************)
EXTENDS ControllerServerInv, ControllerServerProofs

-----------------------------------------------------------------------------
(* The shape of a backend call: its effect E with the answer A, or with or  *)
(* without E the error F.                                                   *)
Outcome(E, A, F) == (E /\ A) \/ ((E \/ UNCHANGED backend) /\ F)

(* Without room for abandoned scripts none is ever added. *)
LEMMA NoRoom ==
    ASSUME MaxLate = 0, late = {}
    PROVE  ~(Cardinality(late) < MaxLate)
BY FS_EmptySet

(* The snapshot export of CreateVolume creates its disk or fails. *)
LEMMA ExportOutcome ==
    ASSUME MaxLate = 0, late = {}, NEW v \in Volume, CreateVolumeExport(v)
    PROVE  /\ late' = late /\ prov[v].pc = "export"
           /\ \E p \in FreeExport, b \in Size :
                Outcome(CreateVirtualDisk(p, b), Goto(v, "target", p, b), ProvError(v))
BY NoRoom DEF CreateVolumeExport, RunPS, Run, OnDisk, ReadOnly, Outcome

(* GetVolumeByName changes nothing on the server. *)
LEMMA LookupOutcome ==
    ASSUME MaxLate = 0, late = {}, NEW v \in Volume, CreateVolumeLookup(v)
    PROVE  /\ late' = late /\ prov[v].pc = "lookup" /\ UNCHANGED backend
           /\ Lookup(v) \/ ProvError(v)
BY NoRoom DEF CreateVolumeLookup, RunPS, Run, OnDisk, ReadOnly

(* CreateVolume for a mapped volume only ensures its target. *)
LEMMA ReuseOutcome ==
    ASSUME MaxLate = 0, late = {}, NEW v \in Volume, CreateVolumeReuse(v)
    PROVE  /\ late' = late /\ prov[v].pc = "reuse"
           /\ Outcome(EnsureTarget(v), Created(v, prov[v].bytes), ProvError(v))
BY NoRoom DEF CreateVolumeReuse, RunPS, Run, OnTarget, ReadOnly, Outcome

(* CreateVolume for an unmapped volume ensures its target first. *)
LEMMA RemapOutcome ==
    ASSUME MaxLate = 0, late = {}, NEW v \in Volume, CreateVolumeRemap(v)
    PROVE  /\ late' = late /\ prov[v].pc = "remap"
           /\ Outcome(EnsureTarget(v), Goto(v, "map", v, prov[v].bytes), ProvError(v))
BY NoRoom DEF CreateVolumeRemap, RunPS, Run, OnTarget, ReadOnly, Outcome

(* CreateVirtualDisk creates the disk, never over a left-over file. *)
LEMMA DiskOutcome ==
    ASSUME MaxLate = 0, late = {}, NEW v \in Volume, CreateVolumeDisk(v)
    PROVE  /\ late' = late /\ prov[v].pc = "create"
           /\ Outcome(vhdx[v] # "file" /\ CreateVirtualDisk(v, prov[v].req.want),
                      Goto(v, "target", v, size'[v]), ProvError(v))
BY NoRoom DEF CreateVolumeDisk, RunPS, Run, Throws, OnDisk, ReadOnly, Outcome

(* CreateVolume ensures the target and goes on to CHAP or to mapping. *)
LEMMA TargetOutcome ==
    ASSUME MaxLate = 0, late = {}, NEW v \in Volume, CreateVolumeTarget(v)
    PROVE  /\ late' = late /\ prov[v].pc = "target"
           /\ \E pc \in {"chap", "map"} :
                Outcome(EnsureTarget(v), Goto(v, pc, prov[v].path, prov[v].bytes), ProvError(v))
<1>1. PICK pc \in {"chap", "map"} : pc = IF ProvisionSecret THEN "chap" ELSE "map"
  OBVIOUS
<1> QED BY <1>1, NoRoom DEF CreateVolumeTarget, RunPS, Run, OnTarget, ReadOnly, Outcome

(* CreateVolume configures CHAP and goes on to mapping. *)
LEMMA ChapOutcome ==
    ASSUME MaxLate = 0, late = {}, NEW v \in Volume, CreateVolumeChap(v)
    PROVE  /\ late' = late /\ prov[v].pc = "chap"
           /\ Outcome(v \in target /\ ConfigureTargetChap(v),
                      Goto(v, "map", prov[v].path, prov[v].bytes), ProvError(v))
BY NoRoom DEF CreateVolumeChap, RunPS, Run, Throws, OnTarget, ReadOnly, Outcome

(* MapDiskToTarget runs only with a registered disk and a target. *)
LEMMA MapOutcome ==
    ASSUME MaxLate = 0, late = {}, NEW v \in Volume, CreateVolumeMap(v)
    PROVE  /\ late' = late /\ prov[v].pc = "map"
           /\ Outcome(v \in target /\ MapDiskToTarget(v, prov[v].path),
                      IF prov[v].req.src = "snapshot"
                      THEN Goto(v, "info", prov[v].path, prov[v].bytes)
                      ELSE Created(v, prov[v].bytes),
                      ProvError(v))
BY NoRoom DEF CreateVolumeMap, RunPS, Run, Throws, OnDisk, ReadOnly, Outcome

(* GetVolumeInfo changes nothing and its error is ignored. *)
LEMMA InfoOutcome ==
    ASSUME MaxLate = 0, late = {}, NEW v \in Volume, CreateVolumeInfo(v)
    PROVE  /\ late' = late /\ prov[v].pc = "info" /\ UNCHANGED backend
           /\ Created(v, size[prov[v].path]) \/ Created(v, 0)
BY NoRoom DEF CreateVolumeInfo, RunPS, Run, OnDisk, ReadOnly

(* DeleteVolume unmaps the disk and goes on to delete it, or fails. *)
LEMMA UnmapOutcome ==
    ASSUME MaxLate = 0, late = {}, NEW v \in Volume, DeleteVolumeUnmap(v)
    PROVE  /\ late' = late /\ prov[v].pc = "unmap"
           /\ Outcome(UnmapDiskFromTarget(v, prov[v].path),
                      Goto(v, "delDisk", prov[v].path, 0), ProvError(v))
BY NoRoom DEF DeleteVolumeUnmap, RunPS, Run, OnDisk, ReadOnly, Outcome

(* DeleteVolume deletes an unmapped disk, wholly or halfway. *)
LEMMA DelDiskOutcome ==
    ASSUME MaxLate = 0, late = {}, NEW v \in Volume, DeleteVolumeDisk(v)
    PROVE  /\ late' = late /\ prov[v].pc = "delDisk"
           /\ \/ DeleteVirtualDiskHalfway(prov[v].path) /\ ProvError(v)
              \/ Outcome(MappingsOf(prov[v].path) = {} /\ DeleteVirtualDisk(prov[v].path),
                         Goto(v, "delTarget", prov[v].path, 0), ProvError(v))
BY NoRoom DEF DeleteVolumeDisk, RunPS, Run, Throws, OnDisk, ReadOnly, Outcome

(* DeleteVolume deletes a target without mappings and answers. *)
LEMMA DelTargetOutcome ==
    ASSUME MaxLate = 0, late = {}, NEW v \in Volume, DeleteVolumeTarget(v)
    PROVE  /\ late' = late /\ prov[v].pc = "delTarget"
           /\ Outcome(LunMappings(v) = {} /\ DeleteTarget(v), Deleted(v), ProvError(v))
BY NoRoom DEF DeleteVolumeTarget, RunPS, Run, Throws, OnTarget, ReadOnly, Outcome

(* ControllerPublishVolume configures CHAP before access. *)
LEMMA PublishChapOutcome ==
    ASSUME MaxLate = 0, late = {}, NEW v \in Volume, ControllerPublishChap(v)
    PROVE  /\ late' = late /\ att[v].pc = "chap"
           /\ Outcome(v \in target /\ ConfigureTargetChap(v), AttGoto(v, "allow", {}), AttError(v))
BY NoRoom DEF ControllerPublishChap, RunPS, Run, Throws, OnTarget, ReadOnly, Outcome

(* AllowInitiator first reads InitiatorIds. *)
LEMMA AllowReadOutcome ==
    ASSUME MaxLate = 0, late = {}, NEW v \in Volume, AllowInitiatorRead(v)
    PROVE  /\ late' = late /\ att[v].pc = "allow" /\ UNCHANGED backend
           /\ \/ att[v].nodes \subseteq allowed[v] /\ AttDone(v, "granted")
              \/ AttGoto(v, "allowSet", allowed[v])
              \/ AttError(v)
BY NoRoom DEF AllowInitiatorRead, RunPS, Run, OnTarget, ReadOnly

(* AllowInitiator then writes the list with the node added. *)
LEMMA AllowWriteOutcome ==
    ASSUME MaxLate = 0, late = {}, NEW v \in Volume, AllowInitiatorWrite(v)
    PROVE  /\ late' = late /\ att[v].pc = "allowSet"
           /\ Outcome(v \in target /\ SetInitiatorIds(v, att[v].seen \cup att[v].nodes),
                      AttDone(v, "granted"), AttError(v))
BY NoRoom DEF AllowInitiatorWrite, RunPS, Run, Throws, OnInitiators, ReadOnly, Outcome

(* DenyInitiator first reads InitiatorIds. *)
LEMMA DenyReadOutcome ==
    ASSUME MaxLate = 0, late = {}, NEW v \in Volume, DenyInitiatorRead(v)
    PROVE  /\ late' = late /\ att[v].pc = "deny" /\ UNCHANGED backend
           /\ \/ AttGoto(v, "denySet", allowed[v])
              \/ v \notin target /\ AttDone(v, "revoked")
              \/ AttError(v)
BY NoRoom DEF DenyInitiatorRead

(* DenyInitiator then writes the list without the node. *)
LEMMA DenyWriteOutcome ==
    ASSUME MaxLate = 0, late = {}, NEW v \in Volume, DenyInitiatorWrite(v)
    PROVE  /\ late' = late /\ att[v].pc = "denySet"
           /\ Outcome(v \in target /\ SetInitiatorIds(v, att[v].seen \ att[v].nodes),
                      AttDone(v, "revoked"), AttError(v))
BY NoRoom DEF DenyInitiatorWrite, RunPS, Run, Throws, OnInitiators, ReadOnly, Outcome
-----------------------------------------------------------------------------
(* What one volume's invariants look at. *)
Frame(w) ==
    /\ prov'[w] = prov[w] /\ att'[w] = att[w] /\ vol'[w] = vol[w]
    /\ id'[w] = id[w] /\ grant'[w] = grant[w]
    /\ (w \in target') = (w \in target) /\ (w \in chap') = (w \in chap)
    /\ allowed'[w] = allowed[w]
    /\ LunMappings(w)' = LunMappings(w) /\ MappingsOf(w)' = MappingsOf(w)
    /\ \A p \in {w, id[w].path, prov[w].path} : vhdx'[p] = vhdx[p] /\ size'[p] = size[p]

(* What a volume relies on is kept by a step that leaves its part of the   *)
(* server and of the calls alone.                                          *)
LEMMA FrameInv ==
    ASSUME TypeOK, NEW w \in Volume, Frame(w), PathInv(w), CallInv(w), AccessInv(w)
    PROVE  PathInv(w)' /\ CallInv(w)' /\ AccessInv(w)'
<1>1. PathInv(w)'
  BY DEF Frame, PathInv
<1>2. CallInv(w)'
  BY DEF Frame, CallInv, Answered
<1>3. AccessInv(w)'
  BY DEF Frame, AccessInv
<1> QED BY <1>1, <1>2, <1>3

(* The paths a call of v may name, now or next. *)
PathsOf(v) == {v, id[v].path, prov[v].path} \cup FreeExport

(* What a call of v does to the server ... *)
ServerOf(v) ==
    \E p \in PathsOf(v), b \in Size \cup {0}, s \in SUBSET Node :
       \/ EnsureTarget(v) \/ ConfigureTargetChap(v) \/ DeleteTarget(v)
       \/ CreateVirtualDisk(p, b) \/ DeleteVirtualDisk(p) \/ DeleteVirtualDiskHalfway(p)
       \/ MapDiskToTarget(v, p) \/ UnmapDiskFromTarget(v, p)
       \/ SetInitiatorIds(v, s)
       \/ UNCHANGED backend

(* ... and to the calls. *)
CallsOf(v) ==
    /\ \A w \in Volume \ {v} :
          /\ prov'[w] = prov[w] /\ att'[w] = att[w] /\ vol'[w] = vol[w]
          /\ id'[w] = id[w] /\ grant'[w] = grant[w]
    /\ id'[v].path \in PathsOf(v) /\ prov'[v].path \in PathsOf(v)

(* A call of v leaves everything another volume relies on alone. *)
LEMMA OthersKeep ==
    ASSUME TypeOK, PathsDisjoint, NEW v \in Volume, \A w \in Volume : PathInv(w),
           ServerOf(v), CallsOf(v)
    PROVE  PathsDisjoint' /\ \A w \in Volume \ {v} : Frame(w)
<1>1. \A w \in Volume \ {v} : PathsOf(v) \cap {w, id[w].path, prov[w].path} = {}
  BY PathAssumption DEF PathsOf, FreeExport, PathsDisjoint, PathInv
<1>2. PathsDisjoint'
  <2> SUFFICES ASSUME NEW a \in Volume, NEW w \in Volume, a # w
               PROVE  {id'[a].path, prov'[a].path} \cap {id'[w].path, prov'[w].path} = {}
    BY DEF PathsDisjoint
  <2>1. CASE a = v
    BY <1>1, <2>1 DEF CallsOf
  <2>2. CASE w = v
    BY <1>1, <2>2 DEF CallsOf
  <2>3. CASE a # v /\ w # v
    BY <2>3 DEF CallsOf, PathsDisjoint
  <2> QED BY <2>1, <2>2, <2>3
<1>3. ASSUME NEW w \in Volume \ {v}
      PROVE  Frame(w)
  <2>1. PICK p \in PathsOf(v), b \in Size \cup {0}, s \in SUBSET Node :
           \/ EnsureTarget(v) \/ ConfigureTargetChap(v) \/ DeleteTarget(v)
           \/ CreateVirtualDisk(p, b) \/ DeleteVirtualDisk(p) \/ DeleteVirtualDiskHalfway(p)
           \/ MapDiskToTarget(v, p) \/ UnmapDiskFromTarget(v, p)
           \/ SetInitiatorIds(v, s)
           \/ UNCHANGED backend
    BY DEF ServerOf
  <2>2. p \notin {w, id[w].path, prov[w].path}
    BY <1>1
  <2>3. /\ {w, id[w].path, prov[w].path} \subseteq Path /\ p \in Path
        /\ vhdx \in [Path -> {"absent", "disk", "file"}]
        /\ size \in [Path -> Size \cup {0}]
        /\ allowed \in [Volume -> SUBSET Node]
    BY DEF TypeOK, BackendTypeOK, Call, VolumeID, Path, PathsOf, FreeExport
  <2>4. /\ (w \in target') = (w \in target) /\ (w \in chap') = (w \in chap)
        /\ allowed'[w] = allowed[w]
    BY <2>1, <2>3 DEF EnsureTarget, ConfigureTargetChap, DeleteTarget, CreateVirtualDisk,
       DeleteVirtualDisk, DeleteVirtualDiskHalfway, MapDiskToTarget, UnmapDiskFromTarget,
       SetInitiatorIds, backend
  <2>5. LunMappings(w)' = LunMappings(w) /\ MappingsOf(w)' = MappingsOf(w)
    <3>1. CASE UNCHANGED maps
      BY <3>1 DEF LunMappings, MappingsOf
    <3>2. CASE MapDiskToTarget(v, p)
      BY <2>2, <3>2 DEF MapDiskToTarget, LunMappings, MappingsOf
    <3>3. CASE UnmapDiskFromTarget(v, p)
      BY <2>2, <3>3 DEF UnmapDiskFromTarget, LunMappings, MappingsOf
    <3> QED
      BY <2>1, <3>1, <3>2, <3>3 DEF EnsureTarget, ConfigureTargetChap, DeleteTarget,
         CreateVirtualDisk, DeleteVirtualDisk, DeleteVirtualDiskHalfway, SetInitiatorIds, backend
  <2>6. \A q \in {w, id[w].path, prov[w].path} : vhdx'[q] = vhdx[q] /\ size'[q] = size[q]
    BY <2>1, <2>2, <2>3 DEF EnsureTarget, ConfigureTargetChap, DeleteTarget, CreateVirtualDisk,
       DeleteVirtualDisk, DeleteVirtualDiskHalfway, MapDiskToTarget, UnmapDiskFromTarget,
       SetInitiatorIds, backend
  <2> QED BY <2>4, <2>5, <2>6 DEF Frame, CallsOf
<1> QED BY <1>2, <1>3
-----------------------------------------------------------------------------
(* How a call goes on, field by field. *)
LEMMA GotoAt ==
    ASSUME TypeOK, NEW v \in Volume, NEW pc, NEW p \in PathsOf(v), NEW b, Goto(v, pc, p, b)
    PROVE  /\ CallsOf(v)
           /\ prov'[v].pc = pc /\ prov'[v].path = p /\ prov'[v].bytes = b
           /\ prov'[v].req = prov[v].req
           /\ UNCHANGED <<att, vol, id, grant>>
BY DEF Goto, CallsOf, PathsOf, TypeOK

(* What a failed provisioner call leaves of its volume. *)
LEMMA ProvErrorAt ==
    ASSUME TypeOK, NEW v \in Volume, ProvError(v)
    PROVE  /\ CallsOf(v)
           /\ prov'[v].pc = "idle" /\ prov'[v].path = v /\ prov'[v].req.src = "empty"
           /\ ~prov'[v].req.roll
           /\ vol'[v] = IF prov[v].req.roll THEN "none" ELSE vol[v]
           /\ UNCHANGED <<att, id, grant>>
BY DEF ProvError, NoCall, NewCall, ToDelete, CallsOf, PathsOf, TypeOK

(* What an answered CreateVolume leaves of its volume. *)
LEMMA CreatedAt ==
    ASSUME TypeOK, NEW v \in Volume, NEW b, Created(v, b)
    PROVE  /\ CallsOf(v)
           /\ prov'[v].pc = "idle" /\ prov'[v].path = v /\ prov'[v].req.src = "empty"
           /\ ~prov'[v].req.roll
           /\ vol'[v] = "made"
           /\ id'[v].path = prov[v].path /\ id'[v].bytes = b /\ id'[v].lun = 0
           /\ id'[v].want = prov[v].req.want
           /\ UNCHANGED <<att, grant>>
BY DEF Created, NoCall, NewCall, ToDelete, CallsOf, PathsOf, TypeOK

(* What an answered DeleteVolume leaves of its volume. *)
LEMMA DeletedAt ==
    ASSUME TypeOK, NEW v \in Volume, Deleted(v)
    PROVE  /\ CallsOf(v)
           /\ prov'[v].pc = "idle" /\ prov'[v].path = v /\ prov'[v].req.src = "empty"
           /\ ~prov'[v].req.roll
           /\ vol'[v] = IF prov[v].req.roll THEN "none" ELSE "gone"
           /\ UNCHANGED <<att, id, grant>>
BY DEF Deleted, NoCall, NewCall, ToDelete, CallsOf, PathsOf, TypeOK

(* What a further step of an attacher call leaves of its volume. *)
LEMMA AttGotoAt ==
    ASSUME TypeOK, NEW v \in Volume, NEW pc, NEW s, AttGoto(v, pc, s)
    PROVE  /\ CallsOf(v)
           /\ att'[v].pc = pc /\ att'[v].nodes = att[v].nodes /\ att'[v].seen = s
           /\ UNCHANGED <<prov, vol, id, grant>>
BY DEF AttGoto, CallsOf, PathsOf, TypeOK

(* What a failed attacher call leaves of its volume. *)
LEMMA AttErrorAt ==
    ASSUME TypeOK, NEW v \in Volume, AttError(v)
    PROVE  /\ CallsOf(v)
           /\ att'[v].pc = "idle" /\ att'[v].nodes = {}
           /\ UNCHANGED <<prov, vol, id, grant>>
BY DEF AttError, NoAttach, CallsOf, PathsOf, TypeOK

(* What an answered attacher call leaves of its volume. *)
LEMMA AttDoneAt ==
    ASSUME TypeOK, NEW v \in Volume, NEW a, AttDone(v, a)
    PROVE  /\ CallsOf(v)
           /\ att'[v].pc = "idle" /\ att'[v].nodes = {}
           /\ \A n \in Node : grant'[v][n] = IF n \in att[v].nodes THEN a ELSE grant[v][n]
           /\ UNCHANGED <<prov, vol, id>>
BY DEF AttDone, NoAttach, CallsOf, PathsOf, TypeOK

-----------------------------------------------------------------------------
(* What every call of v has to keep: its own invariants, and its hands off  *)
(* the other volumes.                                                       *)
Keeps(v) ==
    /\ late' = {} /\ ServerOf(v) /\ CallsOf(v)
    /\ PathInv(v)' /\ CallInv(v)' /\ AccessInv(v)'

(* The effect of each server operation on what v's invariants read. *)
LEMMA ServerOfAt ==
    ASSUME NEW v \in Volume, NEW p \in PathsOf(v), NEW b \in Size \cup {0}, NEW s \in SUBSET Node,
           \/ EnsureTarget(v) \/ ConfigureTargetChap(v) \/ DeleteTarget(v)
           \/ CreateVirtualDisk(p, b) \/ DeleteVirtualDisk(p) \/ DeleteVirtualDiskHalfway(p)
           \/ MapDiskToTarget(v, p) \/ UnmapDiskFromTarget(v, p)
           \/ SetInitiatorIds(v, s)
           \/ UNCHANGED backend
    PROVE  ServerOf(v)
BY DEF ServerOf

(* The steps of CreateVolume that touch the target or nothing. *)
LEMMA CreateTargetKeeps ==
    ASSUME TypeOK, MaxLate = 0, CallsAgree, NEW v \in Volume,
           \/ CreateVolumeLookup(v) \/ CreateVolumeReuse(v) \/ CreateVolumeRemap(v)
           \/ CreateVolumeTarget(v) \/ CreateVolumeChap(v) \/ CreateVolumeInfo(v)
    PROVE  Keeps(v)
<1> USE DEF Creating, Deleting, Outcome
<1>0. /\ late = {} /\ PathInv(v) /\ CallInv(v) /\ AccessInv(v)
      /\ {v, id[v].path, prov[v].path} \subseteq PathsOf(v) /\ {} \in SUBSET Node
      /\ 0 \in Size \cup {0}
  BY DEF CallsAgree, PathsOf
<1>1. CASE CreateVolumeLookup(v)
  <2>1. late' = late /\ prov[v].pc = "lookup" /\ UNCHANGED backend
    BY <1>0, <1>1, LookupOutcome
  <2>2. (\E pc \in {"create", "remap", "reuse"} : \E b : Goto(v, pc, v, b)) \/ ProvError(v)
    BY <1>0, <1>1, LookupOutcome DEF Lookup
  <2>3. ServerOf(v)
    BY <1>0, <2>1, <2>2, ServerOfAt
  <2>4. CallsOf(v) /\ PathInv(v)'
    BY <1>0, <2>1, <2>2, GotoAt, ProvErrorAt DEF PathInv
  <2>5. CallInv(v)'
    BY <1>0, <2>1, <2>2, GotoAt, ProvErrorAt
    DEF CallInv, Answered, LunMappings, backend
  <2>6. AccessInv(v)'
    BY <1>0, <2>1, <2>2, GotoAt, ProvErrorAt
    DEF AccessInv, CallInv, backend
  <2> QED BY <1>0, <2>1, <2>2, <2>3, <2>4, <2>5, <2>6 DEF Keeps
<1>2. CASE CreateVolumeReuse(v)
  <2>1. late' = late /\ prov[v].pc = "reuse"
        /\ Outcome(EnsureTarget(v), Created(v, prov[v].bytes), ProvError(v))
    BY <1>0, <1>2, ReuseOutcome
  <2>3. ServerOf(v)
    BY <1>0, <2>1, ServerOfAt
  <2>4. CallsOf(v) /\ PathInv(v)'
    BY <1>0, <2>1, CreatedAt, ProvErrorAt DEF PathInv
  <2>5. CallInv(v)'
    BY <1>0, <2>1, CreatedAt, ProvErrorAt
    DEF CallInv, Answered, LunMappings, EnsureTarget, backend
  <2>6. AccessInv(v)'
    BY <1>0, <2>1, CreatedAt, ProvErrorAt
    DEF AccessInv, CallInv, EnsureTarget, backend
  <2> QED BY <1>0, <2>1, <2>3, <2>4, <2>5, <2>6 DEF Keeps
<1>3. CASE CreateVolumeRemap(v)
  <2>1. late' = late /\ prov[v].pc = "remap"
        /\ Outcome(EnsureTarget(v), Goto(v, "map", v, prov[v].bytes), ProvError(v))
    BY <1>0, <1>3, RemapOutcome
  <2>3. ServerOf(v)
    BY <1>0, <2>1, ServerOfAt
  <2>4. CallsOf(v) /\ PathInv(v)'
    BY <1>0, <2>1, GotoAt, ProvErrorAt DEF PathInv
  <2>5. CallInv(v)'
    BY <1>0, <2>1, GotoAt, ProvErrorAt
    DEF CallInv, Answered, LunMappings, EnsureTarget, backend
  <2>6. AccessInv(v)'
    BY <1>0, <2>1, GotoAt, ProvErrorAt
    DEF AccessInv, CallInv, EnsureTarget, backend
  <2> QED BY <1>0, <2>1, <2>3, <2>4, <2>5, <2>6 DEF Keeps
<1>4. CASE CreateVolumeTarget(v)
  <2>1. PICK pc \in {"chap", "map"} :
           /\ late' = late /\ prov[v].pc = "target"
           /\ Outcome(EnsureTarget(v), Goto(v, pc, prov[v].path, prov[v].bytes), ProvError(v))
    BY <1>0, <1>4, TargetOutcome
  <2>3. ServerOf(v)
    BY <1>0, <2>1, ServerOfAt
  <2>4. CallsOf(v) /\ PathInv(v)'
    BY <1>0, <2>1, GotoAt, ProvErrorAt DEF PathInv
  <2>5. CallInv(v)'
    BY <1>0, <2>1, GotoAt, ProvErrorAt
    DEF CallInv, Answered, LunMappings, EnsureTarget, backend
  <2>6. AccessInv(v)'
    BY <1>0, <2>1, GotoAt, ProvErrorAt
    DEF AccessInv, CallInv, EnsureTarget, backend
  <2> QED BY <1>0, <2>1, <2>3, <2>4, <2>5, <2>6 DEF Keeps
<1>5. CASE CreateVolumeChap(v)
  <2>1. late' = late /\ prov[v].pc = "chap"
        /\ Outcome(v \in target /\ ConfigureTargetChap(v), 
                   Goto(v, "map", prov[v].path, prov[v].bytes), ProvError(v))
    BY <1>0, <1>5, ChapOutcome
  <2>3. ServerOf(v)
    BY <1>0, <2>1, ServerOfAt
  <2>4. CallsOf(v) /\ PathInv(v)'
    BY <1>0, <2>1, GotoAt, ProvErrorAt DEF PathInv
  <2>5. CallInv(v)'
    BY <1>0, <2>1, GotoAt, ProvErrorAt
    DEF CallInv, Answered, LunMappings, ConfigureTargetChap, backend
  <2>6. AccessInv(v)'
    BY <1>0, <2>1, GotoAt, ProvErrorAt
    DEF AccessInv, CallInv, ConfigureTargetChap, backend
  <2> QED BY <1>0, <2>1, <2>3, <2>4, <2>5, <2>6 DEF Keeps
<1>6. CASE CreateVolumeInfo(v)
  <2>1. late' = late /\ prov[v].pc = "info" /\ UNCHANGED backend
        /\ \E b : Created(v, b)
    BY <1>0, <1>6, InfoOutcome
  <2>3. ServerOf(v)
    BY <1>0, <2>1, ServerOfAt
  <2>4. CallsOf(v) /\ PathInv(v)'
    BY <1>0, <2>1, CreatedAt DEF PathInv
  <2>5. CallInv(v)'
    BY <1>0, <2>1, CreatedAt
    DEF CallInv, Answered, LunMappings, backend
  <2>6. AccessInv(v)'
    BY <1>0, <2>1, CreatedAt
    DEF AccessInv, CallInv, backend
  <2> QED BY <1>0, <2>1, <2>3, <2>4, <2>5, <2>6 DEF Keeps
<1> QED BY <1>1, <1>2, <1>3, <1>4, <1>5, <1>6

(* The steps of CreateVolume and DeleteVolume that touch disks and mappings, *)
(* and the deletion of the target.                                           *)
LEMMA DiskStepKeeps ==
    ASSUME TypeOK, MaxLate = 0, CallsAgree, NEW v \in Volume,
           \/ CreateVolumeExport(v) \/ CreateVolumeDisk(v) \/ CreateVolumeMap(v)
           \/ DeleteVolumeUnmap(v) \/ DeleteVolumeDisk(v) \/ DeleteVolumeTarget(v)
    PROVE  Keeps(v)
<1> USE DEF Creating, Deleting, Outcome
<1>0. /\ late = {} /\ PathInv(v) /\ CallInv(v) /\ AccessInv(v)
      /\ {v, id[v].path, prov[v].path} \subseteq PathsOf(v) /\ {} \in SUBSET Node
      /\ 0 \in Size \cup {0}
      /\ prov[v].path \in Path /\ prov[v].req.want \in Size \cup {0}
      /\ vhdx \in [Path -> {"absent", "disk", "file"}] /\ allowed \in [Volume -> SUBSET Node]
  BY DEF CallsAgree, PathsOf, TypeOK, BackendTypeOK, Call, Request
<1>1. CASE CreateVolumeExport(v)
  <2>1. PICK p \in FreeExport, b \in Size :
           /\ late' = late /\ prov[v].pc = "export"
           /\ Outcome(CreateVirtualDisk(p, b), Goto(v, "target", p, b), ProvError(v))
    BY <1>0, <1>1, ExportOutcome
  <2>2. p \in PathsOf(v) /\ p \in Export
    BY DEF PathsOf, FreeExport
  <2>3. ServerOf(v)
    BY <1>0, <2>1, <2>2, ServerOfAt
  <2>4. CallsOf(v) /\ PathInv(v)'
    BY <1>0, <2>1, <2>2, GotoAt, ProvErrorAt DEF PathInv
  <2>5. CallInv(v)'
    BY <1>0, <2>1, <2>2, GotoAt, ProvErrorAt
    DEF CallInv, Answered, LunMappings, CreateVirtualDisk, backend
  <2>6. AccessInv(v)'
    BY <1>0, <2>1, <2>2, GotoAt, ProvErrorAt
    DEF AccessInv, CallInv, CreateVirtualDisk, backend
  <2> QED BY <1>0, <2>1, <2>2, <2>3, <2>4, <2>5, <2>6 DEF Keeps
<1>2. CASE CreateVolumeDisk(v)
  <2>1. late' = late /\ prov[v].pc = "create"
        /\ Outcome(CreateVirtualDisk(v, prov[v].req.want), Goto(v, "target", v, size'[v]), ProvError(v))
    BY <1>0, <1>2, DiskOutcome
  <2>3. ServerOf(v)
    BY <1>0, <2>1, ServerOfAt
  <2>4. CallsOf(v) /\ PathInv(v)'
    BY <1>0, <2>1, GotoAt, ProvErrorAt DEF PathInv
  <2>5. CallInv(v)'
    BY <1>0, <2>1, GotoAt, ProvErrorAt
    DEF CallInv, Answered, LunMappings, CreateVirtualDisk, backend
  <2>6. AccessInv(v)'
    BY <1>0, <2>1, GotoAt, ProvErrorAt
    DEF AccessInv, CallInv, CreateVirtualDisk, backend
  <2> QED BY <1>0, <2>1, <2>3, <2>4, <2>5, <2>6 DEF Keeps
<1>3. CASE CreateVolumeMap(v)
  <2>1. /\ late' = late /\ prov[v].pc = "map"
        /\ MapDiskToTarget(v, prov[v].path) \/ UNCHANGED backend
        /\ \/ \E b : Goto(v, "info", prov[v].path, b) \/ Created(v, b)
           \/ ProvError(v)
    BY <1>0, <1>3, MapOutcome
  <2>3. ServerOf(v)
    BY <1>0, <2>1, ServerOfAt
  <2>4. CallsOf(v) /\ PathInv(v)'
    BY <1>0, <2>1, GotoAt, CreatedAt, ProvErrorAt DEF PathInv
  <2>5. CallInv(v)'
    BY <1>0, <2>1, GotoAt, CreatedAt, ProvErrorAt
    DEF CallInv, Answered, LunMappings, MapDiskToTarget, backend
  <2>6. AccessInv(v)'
    BY <1>0, <2>1, GotoAt, CreatedAt, ProvErrorAt
    DEF AccessInv, CallInv, MapDiskToTarget, backend
  <2> QED BY <1>0, <2>1, <2>3, <2>4, <2>5, <2>6 DEF Keeps
<1>4. CASE DeleteVolumeUnmap(v)
  <2>1. late' = late /\ prov[v].pc = "unmap"
        /\ Outcome(UnmapDiskFromTarget(v, prov[v].path), 
                   Goto(v, "delDisk", prov[v].path, 0), ProvError(v))
    BY <1>0, <1>4, UnmapOutcome
  <2>3. ServerOf(v)
    BY <1>0, <2>1, ServerOfAt
  <2>4. CallsOf(v) /\ PathInv(v)'
    BY <1>0, <2>1, GotoAt, ProvErrorAt DEF PathInv
  <2>5. CallInv(v)'
    BY <1>0, <2>1, GotoAt, ProvErrorAt
    DEF CallInv, Answered, LunMappings, UnmapDiskFromTarget, backend
  <2>6. AccessInv(v)'
    BY <1>0, <2>1, GotoAt, ProvErrorAt
    DEF AccessInv, CallInv, UnmapDiskFromTarget, backend
  <2> QED BY <1>0, <2>1, <2>3, <2>4, <2>5, <2>6 DEF Keeps
<1>5. CASE DeleteVolumeDisk(v)
  <2>1. /\ late' = late /\ prov[v].pc = "delDisk"
        /\ \/ DeleteVirtualDiskHalfway(prov[v].path) /\ ProvError(v)
           \/ Outcome(DeleteVirtualDisk(prov[v].path),
                      Goto(v, "delTarget", prov[v].path, 0), ProvError(v))
    BY <1>0, <1>5, DelDiskOutcome
  <2>3. ServerOf(v)
    BY <1>0, <2>1, ServerOfAt
  <2>4. CallsOf(v) /\ PathInv(v)'
    BY <1>0, <2>1, GotoAt, ProvErrorAt DEF PathInv
  <2>5. CallInv(v)'
    BY <1>0, <2>1, GotoAt, ProvErrorAt
    DEF CallInv, Answered, LunMappings, DeleteVirtualDisk, DeleteVirtualDiskHalfway, backend
  <2>6. AccessInv(v)'
    BY <1>0, <2>1, GotoAt, ProvErrorAt
    DEF AccessInv, CallInv, DeleteVirtualDisk, DeleteVirtualDiskHalfway, backend
  <2> QED BY <1>0, <2>1, <2>3, <2>4, <2>5, <2>6 DEF Keeps
<1>6. CASE DeleteVolumeTarget(v)
  <2>1. late' = late /\ prov[v].pc = "delTarget"
        /\ Outcome(LunMappings(v) = {} /\ DeleteTarget(v), Deleted(v), ProvError(v))
    BY <1>0, <1>6, DelTargetOutcome
  <2>3. ServerOf(v)
    BY <1>0, <2>1, ServerOfAt
  <2>4. CallsOf(v) /\ PathInv(v)'
    BY <1>0, <2>1, DeletedAt, ProvErrorAt DEF PathInv
  <2>5. CallInv(v)'
    BY <1>0, <2>1, DeletedAt, ProvErrorAt
    DEF CallInv, Answered, LunMappings, DeleteTarget, backend
  <2>6. AccessInv(v)'
    BY <1>0, <2>1, DeletedAt, ProvErrorAt
    DEF AccessInv, CallInv, DeleteTarget, backend
  <2> QED BY <1>0, <2>1, <2>3, <2>4, <2>5, <2>6 DEF Keeps
<1> QED BY <1>1, <1>2, <1>3, <1>4, <1>5, <1>6

(* The steps of ControllerPublishVolume and ControllerUnpublishVolume. *)
LEMMA AttacherKeeps ==
    ASSUME TypeOK, MaxLate = 0, CallsAgree, NEW v \in Volume, Attacher(v)
    PROVE  Keeps(v)
<1> USE DEF Creating, Deleting, Outcome
<1>0. /\ late = {} /\ PathInv(v) /\ CallInv(v) /\ AccessInv(v)
      /\ {v, id[v].path, prov[v].path} \subseteq PathsOf(v) /\ {} \in SUBSET Node
      /\ 0 \in Size \cup {0}
      /\ att[v].nodes \in SUBSET Node /\ att[v].seen \in SUBSET Node
      /\ allowed \in [Volume -> SUBSET Node]
  BY DEF CallsAgree, PathsOf, TypeOK, BackendTypeOK
<1>1. CASE ControllerPublishChap(v)
  <2>1. late' = late /\ att[v].pc = "chap"
        /\ Outcome(v \in target /\ ConfigureTargetChap(v), AttGoto(v, "allow", {}), AttError(v))
    BY <1>0, <1>1, PublishChapOutcome
  <2>3. ServerOf(v)
    BY <1>0, <2>1, ServerOfAt
  <2>4. CallsOf(v) /\ PathInv(v)'
    BY <1>0, <2>1, AttGotoAt, AttErrorAt DEF PathInv
  <2>5. CallInv(v)'
    BY <1>0, <2>1, AttGotoAt, AttErrorAt
    DEF CallInv, Answered, LunMappings, ConfigureTargetChap, backend
  <2>6. AccessInv(v)'
    BY <1>0, <2>1, AttGotoAt, AttErrorAt
    DEF AccessInv, CallInv, ConfigureTargetChap, backend
  <2> QED BY <1>0, <2>1, <2>3, <2>4, <2>5, <2>6 DEF Keeps
<1>2. CASE AllowInitiatorRead(v)
  <2>1. /\ late' = late /\ att[v].pc = "allow" /\ UNCHANGED backend
        /\ \/ att[v].nodes \subseteq allowed[v] /\ AttDone(v, "granted")
           \/ AttGoto(v, "allowSet", allowed[v])
           \/ AttError(v)
    BY <1>0, <1>2, AllowReadOutcome
  <2>3. ServerOf(v)
    BY <1>0, <2>1, ServerOfAt
  <2>4. CallsOf(v) /\ PathInv(v)'
    BY <1>0, <2>1, AttGotoAt, AttDoneAt, AttErrorAt DEF PathInv
  <2>5. CallInv(v)'
    BY <1>0, <2>1, AttGotoAt, AttDoneAt, AttErrorAt
    DEF CallInv, Answered, LunMappings, backend
  <2>6. AccessInv(v)'
    BY <1>0, <2>1, AttGotoAt, AttDoneAt, AttErrorAt
    DEF AccessInv, CallInv, backend
  <2> QED BY <1>0, <2>1, <2>3, <2>4, <2>5, <2>6 DEF Keeps
<1>3. CASE AllowInitiatorWrite(v)
  <2>1. late' = late /\ att[v].pc = "allowSet"
        /\ Outcome(v \in target /\ SetInitiatorIds(v, att[v].seen \cup att[v].nodes), 
                   AttDone(v, "granted"), AttError(v))
    BY <1>0, <1>3, AllowWriteOutcome
  <2>3. ServerOf(v)
    BY <1>0, <2>1, ServerOfAt
  <2>4. CallsOf(v) /\ PathInv(v)'
    BY <1>0, <2>1, AttDoneAt, AttErrorAt DEF PathInv
  <2>5. CallInv(v)'
    BY <1>0, <2>1, AttDoneAt, AttErrorAt
    DEF CallInv, Answered, LunMappings, SetInitiatorIds, backend
  <2>6. AccessInv(v)'
    BY <1>0, <2>1, AttDoneAt, AttErrorAt
    DEF AccessInv, CallInv, SetInitiatorIds, backend
  <2> QED BY <1>0, <2>1, <2>3, <2>4, <2>5, <2>6 DEF Keeps
<1>4. CASE DenyInitiatorRead(v)
  <2>1. /\ late' = late /\ att[v].pc = "deny" /\ UNCHANGED backend
        /\ \/ AttGoto(v, "denySet", allowed[v])
           \/ v \notin target /\ AttDone(v, "revoked")
           \/ AttError(v)
    BY <1>0, <1>4, DenyReadOutcome
  <2>3. ServerOf(v)
    BY <1>0, <2>1, ServerOfAt
  <2>4. CallsOf(v) /\ PathInv(v)'
    BY <1>0, <2>1, AttGotoAt, AttDoneAt, AttErrorAt DEF PathInv
  <2>5. CallInv(v)'
    BY <1>0, <2>1, AttGotoAt, AttDoneAt, AttErrorAt
    DEF CallInv, Answered, LunMappings, backend
  <2>6. AccessInv(v)'
    BY <1>0, <2>1, AttGotoAt, AttDoneAt, AttErrorAt
    DEF AccessInv, CallInv, backend
  <2> QED BY <1>0, <2>1, <2>3, <2>4, <2>5, <2>6 DEF Keeps
<1>5. CASE DenyInitiatorWrite(v)
  <2>1. late' = late /\ att[v].pc = "denySet"
        /\ Outcome(v \in target /\ SetInitiatorIds(v, att[v].seen \ att[v].nodes), 
                   AttDone(v, "revoked"), AttError(v))
    BY <1>0, <1>5, DenyWriteOutcome
  <2>3. ServerOf(v)
    BY <1>0, <2>1, ServerOfAt
  <2>4. CallsOf(v) /\ PathInv(v)'
    BY <1>0, <2>1, AttDoneAt, AttErrorAt DEF PathInv
  <2>5. CallInv(v)'
    BY <1>0, <2>1, AttDoneAt, AttErrorAt
    DEF CallInv, Answered, LunMappings, SetInitiatorIds, backend
  <2>6. AccessInv(v)'
    BY <1>0, <2>1, AttDoneAt, AttErrorAt
    DEF AccessInv, CallInv, SetInitiatorIds, backend
  <2> QED BY <1>0, <2>1, <2>3, <2>4, <2>5, <2>6 DEF Keeps
<1> QED BY <1>1, <1>2, <1>3, <1>4, <1>5 DEF Attacher

(* The steps that only start or end a call. *)
LEMMA CallerKeeps ==
    ASSUME TypeOK, MaxLate = 0, CallsAgree, NEW v \in Volume,
           \/ \E src \in Source, want \in Size : CreateVolume(v, src, want)
           \/ CreatePV(v) \/ Rollback(v) \/ Forget(v) \/ DeleteVolume(v)
           \/ \E n \in Node : ControllerPublishVolume(v, n) \/ ControllerUnpublishVolume(v, n)
    PROVE  Keeps(v)
<1> USE DEF Creating, Deleting, Outcome
<1>0. /\ late = {} /\ PathInv(v) /\ CallInv(v) /\ AccessInv(v)
      /\ {v, id[v].path, prov[v].path} \subseteq PathsOf(v) /\ {} \in SUBSET Node
      /\ 0 \in Size \cup {0}
      /\ prov[v].pc \in {"idle"} \cup Creating \cup Deleting
  BY DEF CallsAgree, PathsOf, TypeOK, Call, ProvPC
<1>1. CASE \E src \in Source, want \in Size : CreateVolume(v, src, want)
  <2>1. late' = late /\ UNCHANGED backend /\ CallsOf(v)
    BY <1>1 DEF CreateVolume, NewCall, CallsOf, PathsOf, TypeOK
  <2>2. ServerOf(v)
    BY <1>0, <2>1, ServerOfAt
  <2>3. PathInv(v)'
    BY <1>0, <1>1 DEF CreateVolume, NewCall, PathInv, TypeOK
  <2>4. CallInv(v)'
    BY <1>0, <1>1, <2>1 DEF CreateVolume, NewCall, CallInv, AccessInv, Answered, LunMappings, backend, TypeOK
  <2>5. AccessInv(v)'
    BY <1>0, <1>1, <2>1 DEF CreateVolume, NewCall, AccessInv, CallInv, backend, TypeOK
  <2> QED BY <1>0, <2>1, <2>2, <2>3, <2>4, <2>5 DEF Keeps
<1>2. CASE CreatePV(v)
  <2>1. late' = late /\ UNCHANGED backend /\ CallsOf(v)
    BY <1>2 DEF CreatePV, CallsOf, PathsOf, TypeOK
  <2>2. ServerOf(v)
    BY <1>0, <2>1, ServerOfAt
  <2>3. PathInv(v)'
    BY <1>0, <1>2 DEF CreatePV, PathInv, TypeOK
  <2>4. CallInv(v)'
    BY <1>0, <1>2, <2>1 DEF CreatePV, CallInv, AccessInv, Answered, LunMappings, backend, TypeOK
  <2>5. AccessInv(v)'
    BY <1>0, <1>2, <2>1 DEF CreatePV, AccessInv, CallInv, backend, TypeOK
  <2> QED BY <1>0, <2>1, <2>2, <2>3, <2>4, <2>5 DEF Keeps
<1>3. CASE Rollback(v)
  <2>1. late' = late /\ UNCHANGED backend /\ CallsOf(v)
    BY <1>3 DEF Rollback, NewCall, ToDelete, CallsOf, PathsOf, TypeOK
  <2>2. ServerOf(v)
    BY <1>0, <2>1, ServerOfAt
  <2>3. PathInv(v)'
    BY <1>0, <1>3 DEF Rollback, NewCall, ToDelete, PathInv, TypeOK
  <2>4. CallInv(v)'
    BY <1>0, <1>3, <2>1 DEF Rollback, NewCall, ToDelete, CallInv, AccessInv, Answered, LunMappings, backend, TypeOK
  <2>5. AccessInv(v)'
    BY <1>0, <1>3, <2>1 DEF Rollback, NewCall, ToDelete, AccessInv, CallInv, backend, TypeOK
  <2> QED BY <1>0, <2>1, <2>2, <2>3, <2>4, <2>5 DEF Keeps
<1>4. CASE Forget(v)
  <2>1. late' = late /\ UNCHANGED backend /\ CallsOf(v)
    BY <1>4 DEF Forget, CallsOf, PathsOf, TypeOK
  <2>2. ServerOf(v)
    BY <1>0, <2>1, ServerOfAt
  <2>3. PathInv(v)'
    BY <1>0, <1>4 DEF Forget, PathInv, TypeOK
  <2>4. CallInv(v)'
    BY <1>0, <1>4, <2>1 DEF Forget, CallInv, AccessInv, Answered, LunMappings, backend, TypeOK
  <2>5. AccessInv(v)'
    BY <1>0, <1>4, <2>1 DEF Forget, AccessInv, CallInv, backend, TypeOK
  <2> QED BY <1>0, <2>1, <2>2, <2>3, <2>4, <2>5 DEF Keeps
<1>5. CASE DeleteVolume(v)
  <2>1. late' = late /\ UNCHANGED backend /\ CallsOf(v)
    BY <1>5 DEF DeleteVolume, NewCall, ToDelete, CallsOf, PathsOf, TypeOK
  <2>2. ServerOf(v)
    BY <1>0, <2>1, ServerOfAt
  <2>3. PathInv(v)'
    BY <1>0, <1>5 DEF DeleteVolume, NewCall, ToDelete, PathInv, TypeOK
  <2>4. CallInv(v)'
    BY <1>0, <1>5, <2>1 DEF DeleteVolume, NewCall, ToDelete, CallInv, AccessInv, Answered, LunMappings, backend, TypeOK
  <2>5. AccessInv(v)'
    BY <1>0, <1>5, <2>1 DEF DeleteVolume, NewCall, ToDelete, AccessInv, CallInv, backend, TypeOK
  <2> QED BY <1>0, <2>1, <2>2, <2>3, <2>4, <2>5 DEF Keeps
<1>6. CASE \E n \in Node : ControllerPublishVolume(v, n) \/ ControllerUnpublishVolume(v, n)
  <2>1. late' = late /\ UNCHANGED backend /\ CallsOf(v)
    BY <1>6 DEF ControllerPublishVolume, ControllerUnpublishVolume, AttBegin, CallsOf, PathsOf, TypeOK
  <2>2. ServerOf(v)
    BY <1>0, <2>1, ServerOfAt
  <2>3. PathInv(v)'
    BY <1>0, <1>6 DEF ControllerPublishVolume, ControllerUnpublishVolume, AttBegin, PathInv, TypeOK
  <2>4. CallInv(v)'
    BY <1>0, <1>6, <2>1 DEF ControllerPublishVolume, ControllerUnpublishVolume, AttBegin, CallInv, AccessInv, Answered, LunMappings, backend, TypeOK
  <2>5. AccessInv(v)'
    BY <1>0, <1>6, <2>1 DEF ControllerPublishVolume, ControllerUnpublishVolume, AttBegin, AccessInv, CallInv, backend, TypeOK
  <2> QED BY <1>0, <2>1, <2>2, <2>3, <2>4, <2>5 DEF Keeps
<1> QED BY <1>1, <1>2, <1>3, <1>4, <1>5, <1>6

(* CallsAgree is inductive: every step of every caller keeps it. *)
LEMMA CallsAgreeStep ==
    ASSUME TypeOK, MaxLate = 0, CallsAgree, [Next]_vars
    PROVE  CallsAgree'
<1>1. ASSUME NEW v \in Volume, Keeps(v)
      PROVE  CallsAgree'
  <2>1. PathsDisjoint' /\ \A w \in Volume \ {v} : Frame(w)
    BY <1>1, OthersKeep DEF Keeps, CallsAgree
  <2>2. \A w \in Volume \ {v} : PathInv(w)' /\ CallInv(w)' /\ AccessInv(w)'
    BY <2>1, FrameInv DEF CallsAgree
  <2> QED BY <1>1, <2>1, <2>2 DEF Keeps, CallsAgree
<1>2. ASSUME NEW v \in Volume, Provisioner(v)
      PROVE  Keeps(v)
  BY <1>2, CreateTargetKeeps, DiskStepKeeps DEF Provisioner
<1>3. CASE LateScript
  BY <1>3 DEF LateScript, CallsAgree
<1>4. CASE UNCHANGED vars
  <2>1. \A v \in Volume : Frame(v)
    BY <1>4 DEF vars, calls, backend, Frame, LunMappings, MappingsOf
  <2>2. late' = {} /\ PathsDisjoint'
    BY <1>4 DEF vars, calls, CallsAgree, PathsDisjoint
  <2> QED BY <2>1, <2>2, FrameInv DEF CallsAgree
<1>5. CASE \E v \in Volume : Keeps(v)
  BY <1>1, <1>5
<1> QED BY <1>2, <1>3, <1>4, <1>5, CallerKeeps, AttacherKeeps DEF Next

(* The calls and the server agree in every reachable state, for claims with *)
(* and without a content source.                                            *)
THEOREM CallsAgreeInvariant ==
    ASSUME MaxLate = 0
    PROVE  Spec => []CallsAgree
<1>1. Init => CallsAgree
  <2> SUFFICES ASSUME Init PROVE CallsAgree
    OBVIOUS
  <2>1. \A v \in Volume : id[v].path = v /\ prov[v].path = v
    BY DEF Init, NoCall, NewCall
  <2>2. late = {} /\ PathsDisjoint /\ \A v \in Volume : PathInv(v)
    BY <2>1 DEF Init, PathsDisjoint, PathInv
  <2>3. \A v \in Volume : CallInv(v)
    BY DEF Init, BackendInit, NoCall, NewCall, ToDelete, CallInv, Creating, Deleting, Answered
  <2>4. \A v \in Volume : AccessInv(v)
    BY DEF Init, BackendInit, NoAttach, AccessInv
  <2> QED BY <2>2, <2>3, <2>4 DEF CallsAgree
<1>2. TypeOK /\ CallsAgree /\ [Next]_vars => CallsAgree'
  BY CallsAgreeStep
<1> QED BY <1>1, <1>2, TypeCorrect, PTL DEF Spec

(* A DeleteVolume that answers with success has removed the disk and its    *)
(* file, the mappings and the target, however many attempts failed before   *)
(* it and wherever, and stays true while attach calls are still running.    *)
THEOREM DeletionIsComplete ==
    ASSUME MaxLate = 0
    PROVE  Spec => []DeletedIsGone
<1>1. CallsAgree => DeletedIsGone
  BY DEF CallsAgree, CallInv, DeletedIsGone
<1> QED BY <1>1, CallsAgreeInvariant, PTL

(* A node that was granted access to a bound volume keeps it until a call   *)
(* for that node: calls for other nodes never lose it.                      *)
THEOREM GrantsHold ==
    ASSUME MaxLate = 0
    PROVE  Spec => []GrantedIsAllowed
<1>1. CallsAgree => GrantedIsAllowed
  BY DEF CallsAgree, AccessInv, GrantedIsAllowed
<1> QED BY <1>1, CallsAgreeInvariant, PTL

(* A node whose access was revoked is on no list that a later call writes   *)
(* back.                                                                    *)
THEOREM RevocationsHold ==
    ASSUME MaxLate = 0
    PROVE  Spec => []RevokedIsDenied
<1>1. CallsAgree => RevokedIsDenied
  BY DEF CallsAgree, AccessInv, RevokedIsDenied
<1> QED BY <1>1, CallsAgreeInvariant, PTL

-----------------------------------------------------------------------------
(***************************************************************************)
(* CHAP before access, with scripts that Windows finishes after the driver *)
(* gave up on them.  ChapInv looks only at the calls, at InitiatorIds and  *)
(* EnableChap and at the abandoned scripts that let an initiator in, so it *)
(* is shown apart from CallsAgree, which assumes that nothing is late.     *)
(***************************************************************************)

(* What ChapInv reads of w is as it was, or better. *)
ChapFrame(w) ==
    /\ prov'[w] = prov[w] /\ att'[w] = att[w] /\ vol'[w] = vol[w]
    /\ allowed'[w] = allowed[w] /\ (w \in chap => w \in chap')
    /\ Letting(w)' \subseteq Letting(w)

(* No script in flight or abandoned touches InitiatorIds or EnableChap. *)
ChapQuiet ==
    /\ allowed' = allowed /\ chap \subseteq chap'
    /\ \A w \in Volume : Letting(w)' = Letting(w)
    /\ \A s \in late' : s.op # "DeleteTarget"

(* A volume whose part nobody touches keeps its invariant. *)
LEMMA ChapFrameInv ==
    ASSUME NEW w \in Volume, ChapInv(w), ChapFrame(w)
    PROVE  ChapInv(w)'
BY DEF ChapInv, ChapFrame

(* The calls of the other volumes go on as they were. *)
OthersCalls(v) ==
    \A w \in Volume \ {v} : prov'[w] = prov[w] /\ att'[w] = att[w] /\ vol'[w] = vol[w]

(* The scripts that do not touch access, run or abandoned. *)
LEMMA QuietScript ==
    ASSUME ChapAgrees, NEW s, ServerStep(s), LateStep(s),
           s.op \notin {"DeleteTarget", "AllowInitiator", "DenyInitiator", "SetInitiatorIds"}
    PROVE  ChapQuiet
<1>1. allowed' = allowed /\ chap \subseteq chap'
  BY DEF ServerStep, Run, EnsureTarget, ConfigureTargetChap, CreateVirtualDisk,
     MapDiskToTarget, UnmapDiskFromTarget, DeleteVirtualDisk, DeleteVirtualDiskHalfway, backend
<1>2. late' = late \/ late' = late \cup {s}
  BY DEF LateStep
<1>3. \A w \in Volume : Letting(w)' = Letting(w)
  BY <1>2 DEF Letting
<1>4. \A r \in late' : r.op # "DeleteTarget"
  BY <1>2 DEF ChapAgrees
<1> QED BY <1>1, <1>3, <1>4 DEF ChapQuiet

(* A step of v that touches no access keeps everybody's invariant when it  *)
(* keeps v's.                                                              *)
LEMMA ChapQuietStep ==
    ASSUME ChapAgrees, NEW v \in Volume, ChapQuiet, OthersCalls(v), ChapInv(v)'
    PROVE  ChapAgrees'
<1>1. ASSUME NEW w \in Volume \ {v}
      PROVE  ChapInv(w)'
  BY ChapFrameInv DEF ChapFrame, ChapQuiet, OthersCalls, ChapAgrees
<1> QED BY <1>1 DEF ChapAgrees, ChapQuiet

(* How a provisioner call goes on without touching access. *)
LEMMA ProvChap ==
    ASSUME TypeOK, ChapAgrees, NEW v \in Volume, ChapQuiet, NEW pc, NEW p, NEW b,
           \/ /\ Goto(v, pc, p, b)
              /\ \/ prov[v].pc \in Creating /\ pc \in Creating
                 \/ prov[v].pc \in Deleting /\ pc \in Deleting
           \/ ProvError(v)
           \/ prov[v].pc \in Creating /\ Created(v, b)
    PROVE  ChapAgrees'
<1> USE DEF Creating, Deleting
<1>0. /\ ChapInv(v) /\ allowed'[v] = allowed[v] /\ (v \in chap => v \in chap')
      /\ Letting(v)' = Letting(v)
      /\ prov \in [Volume -> Call] /\ vol \in [Volume -> Life]
  BY DEF ChapAgrees, ChapQuiet, TypeOK
<1>1. CASE Goto(v, pc, p, b) /\ (\/ prov[v].pc \in Creating /\ pc \in Creating
                                 \/ prov[v].pc \in Deleting /\ pc \in Deleting)
  <2>1. OthersCalls(v) /\ prov'[v].pc = pc /\ prov'[v].req = prov[v].req
        /\ att' = att /\ vol' = vol
    BY <1>0, <1>1 DEF Goto, OthersCalls
  <2>2. ChapInv(v)'
    BY <1>0, <1>1, <2>1 DEF ChapInv
  <2> QED BY <2>1, <2>2, ChapQuietStep
<1>2. CASE ProvError(v)
  <2>1. /\ OthersCalls(v) /\ prov'[v].pc = "idle" /\ ~prov'[v].req.roll /\ att' = att
        /\ vol'[v] = IF prov[v].req.roll THEN "none" ELSE vol[v]
    BY <1>0, <1>2 DEF ProvError, OthersCalls, NoCall, NewCall, ToDelete
  <2>2. ChapInv(v)'
    BY <1>0, <2>1 DEF ChapInv
  <2> QED BY <2>1, <2>2, ChapQuietStep
<1>3. CASE prov[v].pc \in Creating /\ Created(v, b)
  <2>1. /\ OthersCalls(v) /\ prov'[v].pc = "idle" /\ ~prov'[v].req.roll /\ att' = att
        /\ vol'[v] = "made"
    BY <1>0, <1>3 DEF Created, OthersCalls, NoCall, NewCall, ToDelete
  <2>2. ChapInv(v)'
    BY <1>0, <1>3, <2>1 DEF ChapInv
  <2> QED BY <2>1, <2>2, ChapQuietStep
<1> QED BY <1>1, <1>2, <1>3

(* Every step of a CreateVolume or DeleteVolume call keeps CHAP first. *)
LEMMA ProvisionerChap ==
    ASSUME TypeOK, ChapAgrees, "DeleteTarget" \notin Abandoned, NEW v \in Volume, Provisioner(v)
    PROVE  ChapAgrees'
<1> USE DEF ServerStep, LateStep, RunPS, OnDisk, OnTarget
<1>1. CASE CreateVolumeExport(v)
  <2>1. PICK p \in FreeExport, b \in Size :
           RunPS(OnDisk("ExportSnapshotAsVirtualDisk", v, p, b),
                 Goto(v, "target", p, b), ProvError(v))
    BY <1>1 DEF CreateVolumeExport
  <2>2. ChapQuiet
    BY <2>1, QuietScript
  <2> QED BY <1>1, <2>1, <2>2, ProvChap DEF CreateVolumeExport, Creating
<1>2. CASE CreateVolumeLookup(v)
  <2>1. ChapQuiet
    BY <1>2, QuietScript DEF CreateVolumeLookup
  <2>2. Goto(v, "create", v, 0) \/ Goto(v, "remap", v, size[v])
           \/ Goto(v, "reuse", v, size[v]) \/ ProvError(v)
    BY <1>2 DEF CreateVolumeLookup, Lookup
  <2> QED BY <1>2, <2>1, <2>2, ProvChap DEF CreateVolumeLookup, Creating
<1>3. CASE CreateVolumeReuse(v)
  <2>1. ChapQuiet
    BY <1>3, QuietScript DEF CreateVolumeReuse
  <2> QED BY <1>3, <2>1, ProvChap DEF CreateVolumeReuse, Creating
<1>4. CASE CreateVolumeRemap(v)
  <2> DEFINE s == OnTarget("EnsureTarget", v)
  <2>a. s.op = "EnsureTarget"
    OBVIOUS
  <2> HIDE DEF s
  <2>b. ServerStep(s) /\ LateStep(s)
    BY <1>4 DEF CreateVolumeRemap, s
  <2>1. ChapQuiet
    BY <2>a, <2>b, QuietScript
  <2> QED BY <1>4, <2>1, ProvChap DEF CreateVolumeRemap, Creating
<1>5. CASE CreateVolumeDisk(v)
  <2> DEFINE s == OnDisk("CreateVirtualDisk", v, v, prov[v].req.want)
  <2>a. s.op = "CreateVirtualDisk"
    OBVIOUS
  <2> HIDE DEF s
  <2>b. ServerStep(s) /\ LateStep(s)
    BY <1>5 DEF CreateVolumeDisk, s
  <2>1. ChapQuiet
    BY <2>a, <2>b, QuietScript
  <2> QED BY <1>5, <2>1, ProvChap DEF CreateVolumeDisk, Creating
<1>6. CASE CreateVolumeTarget(v)
  <2> DEFINE s == OnTarget("EnsureTarget", v)
  <2>a. s.op = "EnsureTarget"
    OBVIOUS
  <2> HIDE DEF s
  <2>b. ServerStep(s) /\ LateStep(s)
    BY <1>6 DEF CreateVolumeTarget, s
  <2>1. ChapQuiet
    BY <2>a, <2>b, QuietScript
  <2>2. Goto(v, "chap", prov[v].path, prov[v].bytes)
           \/ Goto(v, "map", prov[v].path, prov[v].bytes) \/ ProvError(v)
    BY <1>6 DEF CreateVolumeTarget
  <2> QED BY <1>6, <2>1, <2>2, ProvChap DEF CreateVolumeTarget, Creating
<1>7. CASE CreateVolumeChap(v)
  <2> DEFINE s == OnTarget("ConfigureTargetChap", v)
  <2>a. s.op = "ConfigureTargetChap"
    OBVIOUS
  <2> HIDE DEF s
  <2>b. ServerStep(s) /\ LateStep(s)
    BY <1>7 DEF CreateVolumeChap, s
  <2>1. ChapQuiet
    BY <2>a, <2>b, QuietScript
  <2> QED BY <1>7, <2>1, ProvChap DEF CreateVolumeChap, Creating
<1>8. CASE CreateVolumeMap(v)
  <2>1. ChapQuiet
    BY <1>8, QuietScript DEF CreateVolumeMap
  <2>2. Goto(v, "info", prov[v].path, prov[v].bytes)
           \/ Created(v, prov[v].bytes) \/ ProvError(v)
    BY <1>8 DEF CreateVolumeMap
  <2> QED BY <1>8, <2>1, <2>2, ProvChap DEF CreateVolumeMap, Creating
<1>9. CASE CreateVolumeInfo(v)
  <2>1. ChapQuiet
    BY <1>9, QuietScript DEF CreateVolumeInfo
  <2>2. Created(v, size[prov[v].path]) \/ Created(v, 0)
    BY <1>9 DEF CreateVolumeInfo
  <2> QED BY <1>9, <2>1, <2>2, ProvChap DEF CreateVolumeInfo, Creating
<1>10. CASE DeleteVolumeUnmap(v)
  <2> DEFINE s == OnDisk("UnmapDiskFromTarget", v, prov[v].path, 0)
  <2>a. s.op = "UnmapDiskFromTarget"
    OBVIOUS
  <2> HIDE DEF s
  <2>b. ServerStep(s) /\ LateStep(s)
    BY <1>10 DEF DeleteVolumeUnmap, s
  <2>1. ChapQuiet
    BY <2>a, <2>b, QuietScript
  <2> QED BY <1>10, <2>1, ProvChap DEF DeleteVolumeUnmap, Deleting
<1>11. CASE DeleteVolumeDisk(v)
  <2> DEFINE s == OnDisk("DeleteVirtualDisk", v, prov[v].path, 0)
  <2>a. s.op = "DeleteVirtualDisk"
    OBVIOUS
  <2> HIDE DEF s
  <2>b. ServerStep(s) /\ LateStep(s)
    BY <1>11 DEF DeleteVolumeDisk, s
  <2>1. ChapQuiet
    BY <2>a, <2>b, QuietScript
  <2> QED BY <1>11, <2>1, ProvChap DEF DeleteVolumeDisk, Deleting
<1>12. CASE DeleteVolumeTarget(v)
  <2>1. /\ prov[v].pc = "delTarget" /\ late' = late
        /\ \/ DeleteTarget(v) /\ (Deleted(v) \/ ProvError(v))
           \/ UNCHANGED backend /\ ProvError(v)
    BY <1>12 DEF DeleteVolumeTarget, Run, ReadOnly
  <2>2. CASE UNCHANGED backend /\ ProvError(v)
    <3>1. ChapQuiet
      BY <2>1, <2>2 DEF ChapQuiet, Letting, backend, ChapAgrees
    <3> QED BY <2>2, <3>1, ProvChap
  <2>3. CASE DeleteTarget(v) /\ (Deleted(v) \/ ProvError(v))
    <3>1. /\ \A w \in Volume : Letting(w)' = Letting(w)
          /\ \A s \in late' : s.op # "DeleteTarget"
      BY <2>1 DEF Letting, ChapAgrees
    <3>2. /\ OthersCalls(v) /\ prov'[v].pc = "idle" /\ ~prov'[v].req.roll /\ att' = att
          /\ vol'[v] \in {IF prov[v].req.roll THEN "none" ELSE "gone",
                          IF prov[v].req.roll THEN "none" ELSE vol[v]}
      BY <2>3 DEF Deleted, ProvError, OthersCalls, NoCall, NewCall, ToDelete, TypeOK
    <3>3. /\ allowed'[v] = {}
          /\ \A w \in Volume \ {v} : allowed'[w] = allowed[w] /\ (w \in chap => w \in chap')
      BY <2>3 DEF DeleteTarget, TypeOK, BackendTypeOK
    <3>4. ChapInv(v)'
      BY <2>1, <3>1, <3>2, <3>3 DEF ChapInv, ChapAgrees, Creating, Deleting
    <3>5. \A w \in Volume \ {v} : ChapInv(w)'
      BY <3>1, <3>2, <3>3, ChapFrameInv DEF ChapFrame, OthersCalls, ChapAgrees
    <3> QED BY <3>1, <3>4, <3>5 DEF ChapAgrees
  <2> QED BY <2>1, <2>2, <2>3
<1> QED
  BY <1>1, <1>2, <1>3, <1>4, <1>5, <1>6, <1>7, <1>8, <1>9, <1>10, <1>11, <1>12
  DEF Provisioner

(* A step of v's attacher, or an abandoned script of v, once v's target     *)
(* asks for CHAP or v is not bound: nothing it does can go wrong.           *)
LEMMA ChapSafe ==
    ASSUME ChapAgrees, NEW v \in Volume, OthersCalls(v),
           vol'[v] = vol[v], prov'[v] = prov[v], vol[v] \notin {"none", "made"},
           PublishSecret /\ vol[v] = "bound" => v \in chap',
           \A w \in Volume \ {v} : /\ allowed'[w] = allowed[w] /\ (w \in chap => w \in chap')
                                   /\ Letting(w)' \subseteq Letting(w),
           \A s \in late' : s.op # "DeleteTarget"
    PROVE  ChapAgrees'
<1>1. ChapInv(v)'
  BY DEF ChapInv, ChapAgrees
<1>2. \A w \in Volume \ {v} : ChapInv(w)'
  BY ChapFrameInv DEF ChapFrame, OthersCalls, ChapAgrees
<1> QED BY <1>1, <1>2 DEF ChapAgrees

(* A call of the attacher is in flight only for a volume that was bound. *)
LEMMA AttachedIsStored ==
    ASSUME ChapAgrees, NEW v \in Volume, att[v].pc # "idle"
    PROVE  vol[v] \notin {"none", "made"}
BY DEF ChapAgrees, ChapInv, NoAttach

(* What one more abandoned script of v does to the others. *)
LEMMA OneMoreLate ==
    ASSUME ChapAgrees, NEW v \in Volume, NEW s, s.vol = v, s.op # "DeleteTarget",
           late' = late \/ late' = late \cup {s}
    PROVE  /\ \A w \in Volume \ {v} : Letting(w)' \subseteq Letting(w)
           /\ \A r \in late' : r.op # "DeleteTarget"
BY DEF Letting, ChapAgrees

(* Every step of a publish or unpublish call keeps CHAP first. *)
LEMMA AttacherChap ==
    ASSUME TypeOK, ChapAgrees, NEW v \in Volume, Attacher(v)
    PROVE  ChapAgrees'
<1> USE DEF RunPS
<1>0. ChapInv(v) /\ att \in [Volume -> [pc : AttPC, nodes : SUBSET Node, seen : SUBSET Node]]
      /\ allowed \in [Volume -> SUBSET Node]
  BY DEF ChapAgrees, TypeOK, BackendTypeOK
<1>a. ASSUME NEW pc, NEW s, NEW a, AttGoto(v, pc, s) \/ AttError(v) \/ AttDone(v, a)
      PROVE  OthersCalls(v) /\ vol'[v] = vol[v] /\ prov'[v] = prov[v]
  BY <1>0, <1>a DEF AttGoto, AttError, AttDone, OthersCalls
<1>1. CASE ControllerPublishChap(v)
  <2> DEFINE s == OnTarget("ConfigureTargetChap", v)
  <2>1. s.vol = v /\ s.op = "ConfigureTargetChap"
    BY DEF OnTarget
  <2> HIDE DEF s
  <2>2. /\ att[v].pc = "chap" /\ ServerStep(s) /\ LateStep(s)
        /\ \/ Run(s) /\ AttGoto(v, "allow", {})
           \/ AttError(v)
    BY <1>1 DEF ControllerPublishChap, s, ServerStep, LateStep
  <2>3. ChapQuiet
    BY <2>1, <2>2, QuietScript
  <2>4. OthersCalls(v) /\ vol'[v] = vol[v] /\ prov'[v] = prov[v]
    BY <1>a, <2>2
  <2>5. CASE AttError(v)
    <3>1. att'[v] = NoAttach
      BY <1>0, <2>5 DEF AttError
    <3>2. ChapInv(v)'
      BY <1>0, <2>3, <2>4, <3>1 DEF ChapInv, ChapQuiet, NoAttach
    <3> QED BY <2>3, <2>4, <3>2, ChapQuietStep
  <2>6. CASE Run(s) /\ AttGoto(v, "allow", {})
    <3>1. v \in chap'
      BY <2>1, <2>6 DEF Run, ConfigureTargetChap, ReadOnly
    <3>2. vol[v] \notin {"none", "made"}
      BY <2>2, AttachedIsStored
    <3> QED BY <2>3, <2>4, <3>1, <3>2, ChapSafe DEF ChapQuiet
  <2> QED BY <2>2, <2>5, <2>6
<1>2. CASE AllowInitiatorRead(v)
  <2> DEFINE r == OnTarget("GetIscsiServerTarget", v)
             s == OnInitiators("AllowInitiator", v, att[v].nodes)
  <2>1. r.vol = v /\ r.op = "GetIscsiServerTarget" /\ s.vol = v /\ s.op = "AllowInitiator"
    BY DEF OnTarget, OnInitiators
  <2> HIDE DEF r, s
  <2>2. /\ att[v].pc = "allow" /\ UNCHANGED backend
        /\ late' = late \/ late' = late \cup {r} \/ late' = late \cup {s}
        /\ AttGoto(v, "allowSet", allowed[v]) \/ AttDone(v, "granted") \/ AttError(v)
    BY <1>2, <2>1 DEF AllowInitiatorRead, r, s, Run, ReadOnly
  <2>3. OthersCalls(v) /\ vol'[v] = vol[v] /\ prov'[v] = prov[v]
    BY <1>a, <2>2
  <2>4. vol[v] \notin {"none", "made"} /\ (PublishSecret /\ vol[v] = "bound" => v \in chap)
    BY <1>0, <2>2, AttachedIsStored DEF ChapInv
  <2>5. /\ \A w \in Volume \ {v} : Letting(w)' \subseteq Letting(w)
        /\ \A q \in late' : q.op # "DeleteTarget"
    BY <2>1, <2>2, OneMoreLate
  <2> QED BY <2>2, <2>3, <2>4, <2>5, ChapSafe DEF backend
<1>3. CASE AllowInitiatorWrite(v)
  <2> DEFINE x == att[v].seen \cup att[v].nodes
             s == OnInitiators("SetInitiatorIds", v, x)
  <2>1. s.vol = v /\ s.op = "SetInitiatorIds"
    BY DEF OnInitiators
  <2> HIDE DEF x, s
  <2>2. /\ att[v].pc = "allowSet" /\ (Run(s) \/ UNCHANGED backend)
        /\ late' = late \/ late' = late \cup {s}
        /\ AttDone(v, "granted") \/ AttError(v)
    BY <1>3, <2>1 DEF AllowInitiatorWrite, x, s
  <2>3. OthersCalls(v) /\ vol'[v] = vol[v] /\ prov'[v] = prov[v]
    BY <1>a, <2>2
  <2>4. vol[v] \notin {"none", "made"} /\ (PublishSecret /\ vol[v] = "bound" => v \in chap)
    BY <1>0, <2>2, AttachedIsStored DEF ChapInv
  <2>5. /\ \A w \in Volume \ {v} : Letting(w)' \subseteq Letting(w)
        /\ \A q \in late' : q.op # "DeleteTarget"
    BY <2>1, <2>2, OneMoreLate
  <2>6. chap' = chap /\ \A w \in Volume \ {v} : allowed'[w] = allowed[w]
    BY <1>0, <2>1, <2>2 DEF Run, SetInitiatorIds, ReadOnly, backend
  <2> QED BY <2>3, <2>4, <2>5, <2>6, ChapSafe
<1>4. CASE DenyInitiatorRead(v)
  <2> DEFINE s == OnInitiators("DenyInitiator", v, att[v].nodes)
  <2>1. s.vol = v /\ s.op = "DenyInitiator"
    BY DEF OnInitiators
  <2> HIDE DEF s
  <2>2. /\ att[v].pc = "deny" /\ UNCHANGED backend
        /\ late' = late \/ late' = late \cup {s}
        /\ AttGoto(v, "denySet", allowed[v]) \/ AttDone(v, "revoked") \/ AttError(v)
    BY <1>4 DEF DenyInitiatorRead, s
  <2>3. OthersCalls(v) /\ vol'[v] = vol[v] /\ prov'[v] = prov[v]
    BY <1>a, <2>2
  <2>4. ChapQuiet
    BY <2>1, <2>2 DEF ChapQuiet, Letting, ChapAgrees, backend
  <2>5. vol[v] \notin {"none", "made"}
    BY <2>2, AttachedIsStored
  <2>6. att'[v].pc \notin {"allow", "allowSet"} /\ att'[v].seen \in {{}, allowed[v]}
    BY <1>0, <2>2 DEF AttGoto, AttDone, AttError, NoAttach
  <2>7. ChapInv(v)'
    BY <1>0, <2>3, <2>4, <2>5, <2>6 DEF ChapInv, ChapQuiet
  <2> QED BY <2>3, <2>4, <2>7, ChapQuietStep
<1>5. CASE DenyInitiatorWrite(v)
  <2> DEFINE x == att[v].seen \ att[v].nodes
             s == OnInitiators("SetInitiatorIds", v, x)
  <2>1. s.vol = v /\ s.op = "SetInitiatorIds" /\ s.iqns = x
    BY DEF OnInitiators
  <2>a. att[v].seen = {} => x = {}
    OBVIOUS
  <2> HIDE DEF x, s
  <2>2. /\ att[v].pc = "denySet" /\ (Run(s) \/ UNCHANGED backend)
        /\ late' = late \/ late' = late \cup {s}
        /\ AttDone(v, "revoked") \/ AttError(v)
    BY <1>5, <2>1 DEF DenyInitiatorWrite, x, s
  <2>3. OthersCalls(v) /\ vol'[v] = vol[v] /\ prov'[v] = prov[v]
    BY <1>a, <2>2
  <2>4. vol[v] \notin {"none", "made"}
    BY <2>2, AttachedIsStored
  <2>5. /\ \A w \in Volume \ {v} : Letting(w)' \subseteq Letting(w)
        /\ \A q \in late' : q.op # "DeleteTarget"
    BY <2>1, <2>2, OneMoreLate
  <2>6. /\ chap' = chap /\ \A w \in Volume \ {v} : allowed'[w] = allowed[w]
        /\ allowed'[v] = allowed[v] \/ allowed'[v] = x
    BY <1>0, <2>1, <2>2 DEF Run, SetInitiatorIds, ReadOnly, backend
  <2>7. CASE PublishSecret /\ vol[v] = "bound" => v \in chap
    BY <2>3, <2>4, <2>5, <2>6, <2>7, ChapSafe
  <2>8. CASE att[v].seen = {} /\ allowed[v] = {} /\ Letting(v) = {}
    <3>1. allowed'[v] = {} /\ att'[v] = NoAttach
      BY <1>0, <2>2, <2>a, <2>6, <2>8 DEF AttDone, AttError
    <3>2. Letting(v)' = {}
      BY <2>1, <2>2, <2>a, <2>8 DEF Letting
    <3>3. ChapInv(v)'
      BY <1>0, <2>3, <2>4, <3>1, <3>2 DEF ChapInv, NoAttach
    <3>4. \A w \in Volume \ {v} : ChapInv(w)'
      BY <2>3, <2>5, <2>6, ChapFrameInv DEF ChapFrame, OthersCalls, ChapAgrees
    <3> QED BY <2>5, <3>3, <3>4 DEF ChapAgrees
  <2> QED BY <1>0, <2>7, <2>8 DEF ChapInv
<1> QED BY <1>1, <1>2, <1>3, <1>4, <1>5 DEF Attacher

(* The beginning of a call and the steps between two calls keep CHAP first. *)
LEMMA CallerChap ==
    ASSUME TypeOK, ChapAgrees, NEW v \in Volume,
           \/ \E src \in Source, want \in Size : CreateVolume(v, src, want)
           \/ CreatePV(v) \/ Rollback(v) \/ Forget(v) \/ DeleteVolume(v)
           \/ \E n \in Node : ControllerPublishVolume(v, n) \/ ControllerUnpublishVolume(v, n)
    PROVE  ChapAgrees'
<1>0. UNCHANGED backend /\ late' = late
  BY DEF CreateVolume, CreatePV, Rollback, Forget, DeleteVolume,
     ControllerPublishVolume, ControllerUnpublishVolume, AttBegin
<1>1. ChapQuiet
  BY <1>0 DEF ChapQuiet, Letting, backend, ChapAgrees
<1>2. OthersCalls(v)
  BY DEF CreateVolume, CreatePV, Rollback, Forget, DeleteVolume,
     ControllerPublishVolume, ControllerUnpublishVolume, AttBegin, OthersCalls, TypeOK
<1>3. ChapInv(v)'
  <2> USE DEF Creating, Deleting
  <2>0. ChapInv(v) /\ Letting(v)' = Letting(v) /\ allowed' = allowed /\ chap' = chap
    BY <1>0, <1>1 DEF ChapAgrees, ChapQuiet, backend
  <2>1. CASE \E src \in Source, want \in Size : CreateVolume(v, src, want)
    BY <2>0, <2>1 DEF CreateVolume, NewCall, ChapInv, TypeOK
  <2>2. CASE CreatePV(v)
    BY <2>0, <2>2 DEF CreatePV, NoAttach, ChapInv, TypeOK
  <2>3. CASE Rollback(v)
    BY <2>0, <2>3 DEF Rollback, NewCall, ToDelete, ChapInv, TypeOK
  <2>4. CASE Forget(v)
    BY <2>0, <2>4 DEF Forget, ChapInv, TypeOK
  <2>5. CASE DeleteVolume(v)
    BY <2>0, <2>5 DEF DeleteVolume, NewCall, ToDelete, ChapInv, TypeOK
  <2>6. CASE \E n \in Node : ControllerPublishVolume(v, n) \/ ControllerUnpublishVolume(v, n)
    BY <2>0, <2>6 DEF ControllerPublishVolume, ControllerUnpublishVolume, AttBegin, ChapInv, TypeOK
  <2> QED BY <2>1, <2>2, <2>3, <2>4, <2>5, <2>6
<1> QED BY <1>1, <1>2, <1>3, ChapQuietStep

(* A script that ends after the driver gave up on it keeps CHAP first. *)
LEMMA LateChap ==
    ASSUME TypeOK, ChapAgrees, LateScript
    PROVE  ChapAgrees'
<1>1. PICK s \in late : /\ IF Throws(s) THEN UNCHANGED backend ELSE Run(s)
                        /\ late' = late \ {s} /\ UNCHANGED calls
  BY DEF LateScript
<1>2. /\ s.vol \in Volume /\ s.op # "DeleteTarget" /\ ChapInv(s.vol)
      /\ allowed \in [Volume -> SUBSET Node]
  BY DEF TypeOK, BackendTypeOK, Script, ChapAgrees
<1>3. /\ \A w \in Volume : Letting(w)' \subseteq Letting(w) /\ OthersCalls(w)
                           /\ prov'[w] = prov[w] /\ att'[w] = att[w] /\ vol'[w] = vol[w]
      /\ \A q \in late' : q.op # "DeleteTarget"
  BY <1>1 DEF Letting, calls, OthersCalls, ChapAgrees
<1>4. CASE allowed' = allowed /\ chap \subseteq chap'
  BY <1>3, <1>4, ChapFrameInv DEF ChapFrame, ChapAgrees
<1>5. CASE chap' = chap /\ \E x : allowed' = [allowed EXCEPT ![s.vol] = x] /\ x \subseteq allowed[s.vol] \cup s.iqns
             /\ (x # {} /\ s.iqns # {} => s \in Letting(s.vol) \/ x \subseteq allowed[s.vol])
  <2>1. \A w \in Volume \ {s.vol} : allowed'[w] = allowed[w]
    BY <1>2, <1>5
  <2>2. CASE Letting(s.vol) = {} /\ allowed[s.vol] = {}
    <3>1. allowed'[s.vol] = {}
      BY <1>2, <1>5, <2>2
    <3> QED BY <1>3, <1>5, <2>1, <2>2, <3>1, ChapFrameInv DEF ChapFrame, ChapAgrees
  <2>3. CASE ~(Letting(s.vol) = {} /\ allowed[s.vol] = {})
    <3>1. vol[s.vol] \notin {"none", "made"} /\ (PublishSecret /\ vol[s.vol] = "bound" => s.vol \in chap)
      BY <1>2, <2>3 DEF ChapInv
    <3> QED BY <1>2, <1>3, <1>5, <2>1, <3>1, ChapSafe
  <2> QED BY <2>2, <2>3
<1>6. CASE Run(s) /\ s.op \in {"AllowInitiator", "DenyInitiator", "SetInitiatorIds"}
  <2>1. PICK x : /\ allowed' = [allowed EXCEPT ![s.vol] = x] /\ chap' = chap
                 /\ \/ s.op = "AllowInitiator" /\ x = allowed[s.vol] \cup s.iqns
                    \/ s.op = "DenyInitiator" /\ x = allowed[s.vol] \ s.iqns
                    \/ s.op = "SetInitiatorIds" /\ x = s.iqns
    BY <1>6 DEF Run, SetInitiatorIds, DenyInitiator, ReadOnly
  <2>2. /\ x \subseteq allowed[s.vol] \cup s.iqns
        /\ x # {} /\ s.iqns # {} => s \in Letting(s.vol) \/ x \subseteq allowed[s.vol]
    BY <2>1 DEF Letting
  <2> QED BY <1>5, <2>1, <2>2
<1>7. CASE Run(s) /\ s.op \notin {"AllowInitiator", "DenyInitiator", "SetInitiatorIds"}
  <2>1. allowed' = allowed /\ chap \subseteq chap'
    BY <1>2, <1>7 DEF Run, EnsureTarget, ConfigureTargetChap, CreateVirtualDisk,
       MapDiskToTarget, UnmapDiskFromTarget, DeleteVirtualDisk, backend
  <2> QED BY <1>4, <2>1
<1>8. CASE UNCHANGED backend
  BY <1>4, <1>8 DEF backend
<1> QED BY <1>1, <1>6, <1>7, <1>8

(* With a controller-publish secret the target of a bound volume asks for   *)
(* CHAP before it lets any initiator in, for any number of scripts that are *)
(* given up on and finish late, unless DeleteTarget is among them.          *)
THEOREM ChapComesFirst == Spec => []ChapBeforeAccess
<1>1. CASE "DeleteTarget" \in Abandoned
  <2>1. ChapBeforeAccess
    BY <1>1 DEF ChapBeforeAccess
  <2> QED BY <2>1, PTL
<1>2. CASE "DeleteTarget" \notin Abandoned
  <2>1. Init => ChapAgrees
    BY DEF Init, BackendInit, NoCall, NewCall, ToDelete, NoAttach, ChapAgrees, ChapInv,
       Letting, Creating, Deleting
  <2>2. TypeOK /\ ChapAgrees /\ [Next]_vars => ChapAgrees'
    <3> SUFFICES ASSUME TypeOK, ChapAgrees, [Next]_vars PROVE ChapAgrees'
      OBVIOUS
    <3>1. CASE UNCHANGED vars
      BY <3>1 DEF vars, calls, backend, ChapAgrees, ChapInv, Letting
    <3>2. ASSUME NEW v \in Volume, Provisioner(v)
          PROVE  ChapAgrees'
      BY <1>2, <3>2, ProvisionerChap
    <3> QED BY <3>1, <3>2, AttacherChap, CallerChap, LateChap DEF Next
  <2>3. ChapAgrees => ChapBeforeAccess
    BY DEF ChapAgrees, ChapInv, ChapBeforeAccess
  <2> QED BY <2>1, <2>2, <2>3, TypeCorrect, PTL DEF Spec
<1> QED BY <1>1, <1>2

-----------------------------------------------------------------------------
(* Claims without a content source. *)
LEMMA DiskFrame ==
    ASSUME NEW w \in Volume, Frame(w), DiskInv(w)
    PROVE  DiskInv(w)'
BY DEF Frame, DiskInv, Answered

(* What a step that changes no disk, mapping or target leaves to show. *)
LEMMA DiskQuiet ==
    ASSUME NEW v \in Volume, DiskInv(v), UNCHANGED <<vhdx, size, maps>>,
           v \in target => v \in target'
    PROVE  /\ LunMappings(v)' = LunMappings(v) /\ MappingsOf(v)' = MappingsOf(v)
           /\ LunMappings(v)' # {} => vhdx'[v] = "disk" /\ v \in target'
BY DEF DiskInv, LunMappings, MappingsOf

(* Beginning a call keeps what is known of the disks. *)
LEMMA CallerDisk ==
    ASSUME TypeOK, Source = {"empty"}, NEW v \in Volume, DiskInv(v), CallInv(v),
           \/ \E src \in Source, want \in Size : CreateVolume(v, src, want)
           \/ CreatePV(v) \/ Rollback(v) \/ Forget(v) \/ DeleteVolume(v)
           \/ \E n \in Node : ControllerPublishVolume(v, n) \/ ControllerUnpublishVolume(v, n)
    PROVE  DiskInv(v)'
<1>1. UNCHANGED backend
  BY DEF CreateVolume, CreatePV, Rollback, Forget, DeleteVolume,
     ControllerPublishVolume, ControllerUnpublishVolume, AttBegin
<1>2. /\ LunMappings(v)' = LunMappings(v) /\ MappingsOf(v)' = MappingsOf(v)
      /\ LunMappings(v)' # {} => vhdx'[v] = "disk" /\ v \in target'
  BY <1>1, DiskQuiet DEF backend
<1>3. CASE \E src \in Source, want \in Size : CreateVolume(v, src, want)
  BY <1>1, <1>2, <1>3 DEF CreateVolume, NewCall, DiskInv, Answered, backend, TypeOK
<1>4. CASE CreatePV(v) \/ Forget(v)
  BY <1>1, <1>2, <1>4 DEF CreatePV, Forget, DiskInv, Answered, backend, TypeOK
<1>5. CASE Rollback(v)
  BY <1>1, <1>2, <1>5 DEF Rollback, NewCall, ToDelete, DiskInv, Answered, backend, TypeOK
<1>6. CASE DeleteVolume(v)
  BY <1>1, <1>2, <1>6 DEF DeleteVolume, NewCall, ToDelete, DiskInv, Answered, backend, TypeOK
<1>7. CASE \E n \in Node : ControllerPublishVolume(v, n) \/ ControllerUnpublishVolume(v, n)
  BY <1>1, <1>2, <1>7 DEF ControllerPublishVolume, ControllerUnpublishVolume, AttBegin,
     DiskInv, Answered, backend
<1> QED BY <1>3, <1>4, <1>5, <1>6, <1>7

(* The attacher never touches disks and mappings. *)
LEMMA AttacherDisk ==
    ASSUME TypeOK, MaxLate = 0, late = {}, NEW v \in Volume, DiskInv(v), Attacher(v)
    PROVE  DiskInv(v)'
<1>1. UNCHANGED <<vhdx, size, target, maps, prov, vol, id>>
  BY PublishChapOutcome, AllowReadOutcome, AllowWriteOutcome, DenyReadOutcome, DenyWriteOutcome
  DEF Attacher, Outcome, ConfigureTargetChap, SetInitiatorIds, backend,
      AttGoto, AttError, AttDone
<1>2. /\ LunMappings(v)' = LunMappings(v) /\ MappingsOf(v)' = MappingsOf(v)
      /\ LunMappings(v)' # {} => vhdx'[v] = "disk" /\ v \in target'
  BY <1>1, DiskQuiet
<1> QED BY <1>1, <1>2 DEF DiskInv, Answered

(* Every step of a provisioner call keeps what is known of the disks. *)
LEMMA ProvisionerDisk ==
    ASSUME TypeOK, MaxLate = 0, late = {}, NEW v \in Volume, DiskInv(v), CallInv(v),
           Provisioner(v)
    PROVE  DiskInv(v)'
<1> USE DEF Creating, Deleting, Outcome
<1>0. /\ v \in Path /\ v \in PathsOf(v)
      /\ vhdx \in [Path -> {"absent", "disk", "file"}] /\ size \in [Path -> Nat]
      /\ prov[v].req.want \in Nat /\ prov[v].bytes \in Nat
  <2>1. Size \cup {0} \subseteq Nat
    BY SizeAssumption
  <2>2. size \in [Path -> Nat]
    BY <2>1 DEF TypeOK, BackendTypeOK
  <2>3. prov[v].req.want \in Nat /\ prov[v].bytes \in Nat
    BY <2>1 DEF TypeOK, Call, Request
  <2> QED BY <2>2, <2>3 DEF Path, PathsOf, TypeOK, BackendTypeOK
<1>1. CASE CreateVolumeExport(v) \/ CreateVolumeInfo(v)
  BY <1>1, ExportOutcome, InfoOutcome DEF DiskInv
<1>2. CASE CreateVolumeLookup(v)
  <2>1. prov[v].pc = "lookup" /\ UNCHANGED backend /\ (Lookup(v) \/ ProvError(v))
    BY <1>2, LookupOutcome
  <2>2. /\ LunMappings(v)' = LunMappings(v) /\ MappingsOf(v)' = MappingsOf(v)
        /\ LunMappings(v)' # {} => vhdx'[v] = "disk" /\ v \in target'
    BY <2>1, DiskQuiet DEF backend
  <2> QED BY <1>0, <2>1, <2>2, GotoAt, ProvErrorAt
          DEF Lookup, DiskInv, CallInv, Answered, backend
<1>3. CASE CreateVolumeReuse(v)
  <2>1. prov[v].pc = "reuse" /\ Outcome(EnsureTarget(v), Created(v, prov[v].bytes), ProvError(v))
    BY <1>3, ReuseOutcome
  <2>2. /\ LunMappings(v)' = LunMappings(v) /\ MappingsOf(v)' = MappingsOf(v)
        /\ LunMappings(v)' # {} => vhdx'[v] = "disk" /\ v \in target'
    BY <2>1, DiskQuiet DEF EnsureTarget, backend
  <2> QED BY <1>0, <2>1, <2>2, CreatedAt, ProvErrorAt DEF EnsureTarget, DiskInv, CallInv, Answered, backend
<1>4. CASE CreateVolumeRemap(v)
  <2>1. prov[v].pc = "remap" /\ Outcome(EnsureTarget(v), Goto(v, "map", v, prov[v].bytes), ProvError(v))
    BY <1>4, RemapOutcome
  <2>2. /\ LunMappings(v)' = LunMappings(v) /\ MappingsOf(v)' = MappingsOf(v)
        /\ LunMappings(v)' # {} => vhdx'[v] = "disk" /\ v \in target'
    BY <2>1, DiskQuiet DEF EnsureTarget, backend
  <2> QED BY <1>0, <2>1, <2>2, GotoAt, ProvErrorAt DEF EnsureTarget, DiskInv, CallInv, Answered, backend
<1>5. CASE CreateVolumeDisk(v)
  <2>1. /\ prov[v].pc = "create"
        /\ Outcome(CreateVirtualDisk(v, prov[v].req.want), Goto(v, "target", v, size'[v]),
                   ProvError(v))
    BY <1>5, DiskOutcome
  <2>2. LunMappings(v) = {} /\ MappingsOf(v) = {} /\ LunMappings(v)' = {} /\ MappingsOf(v)' = {}
    BY <2>1 DEF DiskInv, CreateVirtualDisk, backend, LunMappings, MappingsOf
  <2> QED BY <1>0, <2>1, <2>2, GotoAt, ProvErrorAt
          DEF CreateVirtualDisk, DiskInv, CallInv, Answered, backend
<1>6. CASE CreateVolumeTarget(v)
  <2>1. PICK pc \in {"chap", "map"} :
           /\ prov[v].pc = "target"
           /\ Outcome(EnsureTarget(v), Goto(v, pc, prov[v].path, prov[v].bytes), ProvError(v))
    BY <1>6, TargetOutcome
  <2>2. /\ LunMappings(v)' = LunMappings(v) /\ MappingsOf(v)' = MappingsOf(v)
        /\ LunMappings(v)' # {} => vhdx'[v] = "disk" /\ v \in target'
    BY <2>1, DiskQuiet DEF EnsureTarget, backend
  <2> QED BY <1>0, <2>1, <2>2, GotoAt, ProvErrorAt DEF EnsureTarget, DiskInv, CallInv, Answered, backend
<1>7. CASE CreateVolumeChap(v)
  <2>1. prov[v].pc = "chap" /\ Outcome(ConfigureTargetChap(v), 
                Goto(v, "map", prov[v].path, prov[v].bytes), ProvError(v))
    BY <1>7, ChapOutcome
  <2>2. /\ LunMappings(v)' = LunMappings(v) /\ MappingsOf(v)' = MappingsOf(v)
        /\ LunMappings(v)' # {} => vhdx'[v] = "disk" /\ v \in target'
    BY <2>1, DiskQuiet DEF ConfigureTargetChap, backend
  <2> QED BY <1>0, <2>1, <2>2, GotoAt, ProvErrorAt DEF ConfigureTargetChap, DiskInv, CallInv, Answered, backend
<1>8. CASE CreateVolumeMap(v)
  <2>1. /\ prov[v].pc = "map" /\ prov[v].path = v
        /\ Outcome(v \in target /\ MapDiskToTarget(v, v), Created(v, prov[v].bytes), ProvError(v))
    BY <1>8, MapOutcome DEF DiskInv
  <2> DEFINE M == [target |-> v, path |-> v, lun |-> 0]
  <2>2. CASE UNCHANGED backend /\ ProvError(v)
    <3>1. LunMappings(v)' = LunMappings(v) /\ MappingsOf(v)' = MappingsOf(v)
      BY <2>2 DEF backend, LunMappings, MappingsOf
    <3> QED BY <1>0, <2>1, <2>2, <3>1, ProvErrorAt DEF DiskInv, CallInv, Answered, backend
  <2>3. CASE v \in target /\ MapDiskToTarget(v, v) /\ (Created(v, prov[v].bytes) \/ ProvError(v))
    <3>1. IsMapped(v, v) <=> LunMappings(v) # {}
      BY DEF IsMapped, LunMappings, DiskInv
    <3>3. LunMappings(v)' = {M} /\ MappingsOf(v)' = {M}
      <4>1. CASE IsMapped(v, v)
        <5>1. maps' = maps /\ LunMappings(v) = {M} /\ MappingsOf(v) = {M}
          BY <2>3, <3>1, <4>1 DEF MapDiskToTarget, DiskInv
        <5> QED BY <5>1 DEF LunMappings, MappingsOf
      <4>2. CASE ~IsMapped(v, v)
        <5>1. NextLun(v) = 0
          BY <3>1, <4>2 DEF NextLun
        <5>2. maps' = maps \cup {M} /\ LunMappings(v) = {} /\ MappingsOf(v) = {}
          BY <2>3, <3>1, <4>2, <5>1 DEF MapDiskToTarget, DiskInv
        <5> QED BY <5>2 DEF LunMappings, MappingsOf
      <4> QED BY <4>1, <4>2
    <3> QED BY <1>0, <2>1, <2>3, <3>3, CreatedAt, ProvErrorAt
            DEF MapDiskToTarget, DiskInv, CallInv, Answered
  <2> QED BY <2>1, <2>2, <2>3
<1>9. CASE DeleteVolumeUnmap(v)
  <2>1. /\ prov[v].pc = "unmap" /\ prov[v].path = v
        /\ Outcome(UnmapDiskFromTarget(v, v), Goto(v, "delDisk", v, 0), ProvError(v))
    BY <1>9, UnmapOutcome DEF DiskInv
  <2>2. CASE UNCHANGED backend
    <3>1. LunMappings(v)' = LunMappings(v) /\ MappingsOf(v)' = MappingsOf(v)
      BY <2>2 DEF backend, LunMappings, MappingsOf
    <3> QED BY <1>0, <2>1, <2>2, <3>1, GotoAt, ProvErrorAt DEF DiskInv, CallInv, Answered, backend
  <2>3. CASE UnmapDiskFromTarget(v, v)
    <3>1. LunMappings(v)' = {} /\ MappingsOf(v)' = {}
      BY <2>3 DEF UnmapDiskFromTarget, LunMappings, MappingsOf, DiskInv
    <3> QED BY <1>0, <2>1, <2>3, <3>1, GotoAt, ProvErrorAt
            DEF UnmapDiskFromTarget, DiskInv, CallInv, Answered
  <2> QED BY <2>1, <2>2, <2>3
<1>10. CASE DeleteVolumeDisk(v)
  <2>1. /\ prov[v].pc = "delDisk" /\ prov[v].path = v
        /\ Goto(v, "delTarget", v, 0) \/ ProvError(v)
        /\ \/ MappingsOf(v) = {} /\ (DeleteVirtualDiskHalfway(v) \/ DeleteVirtualDisk(v))
           \/ UNCHANGED backend
    BY <1>10, DelDiskOutcome DEF DiskInv, DeleteVirtualDiskHalfway
  <2>2. LunMappings(v)' = LunMappings(v) /\ MappingsOf(v)' = MappingsOf(v)
    BY <2>1 DEF DeleteVirtualDisk, DeleteVirtualDiskHalfway, backend, LunMappings, MappingsOf
  <2> QED BY <1>0, <2>1, <2>2, GotoAt, ProvErrorAt
          DEF DeleteVirtualDisk, DeleteVirtualDiskHalfway, DiskInv, CallInv, Answered, backend
<1>11. CASE DeleteVolumeTarget(v)
  <2>1. /\ prov[v].pc = "delTarget"
        /\ Outcome(LunMappings(v) = {} /\ DeleteTarget(v), Deleted(v), ProvError(v))
    BY <1>11, DelTargetOutcome
  <2>2. LunMappings(v)' = LunMappings(v) /\ MappingsOf(v)' = MappingsOf(v)
    BY <2>1 DEF DeleteTarget, backend, LunMappings, MappingsOf
  <2> QED BY <1>0, <2>1, <2>2, DeletedAt, ProvErrorAt
          DEF DeleteTarget, DiskInv, CallInv, Answered, backend
<1> QED
  BY <1>1, <1>2, <1>3, <1>4, <1>5, <1>6, <1>7, <1>8, <1>9, <1>10, <1>11 DEF Provisioner

(* Without content sources the disks agree with the calls as well. *)
THEOREM DisksAgreeInvariant ==
    ASSUME MaxLate = 0, Source = {"empty"}
    PROVE  Spec => []DisksAgree
<1> DEFINE DiskInvs == \A v \in Volume : DiskInv(v)
<1>1. Init => DiskInvs
  BY DEF Init, BackendInit, NoCall, NewCall, ToDelete, DiskInv, Answered, LunMappings, MappingsOf
<1>2. TypeOK /\ CallsAgree /\ DiskInvs /\ [Next]_vars => DiskInvs'
  <2> SUFFICES ASSUME TypeOK, CallsAgree, DiskInvs, [Next]_vars
               PROVE  DiskInvs'
    OBVIOUS
  <2>1. ASSUME NEW v \in Volume, Keeps(v), DiskInv(v)'
        PROVE  DiskInvs'
    <3>1. \A w \in Volume \ {v} : Frame(w)
      BY <2>1, OthersKeep DEF Keeps, CallsAgree
    <3> QED BY <2>1, <3>1, DiskFrame
  <2>2. ASSUME NEW v \in Volume, Provisioner(v)
        PROVE  DiskInvs'
    <3>1. Keeps(v)
      BY <2>2, CreateTargetKeeps, DiskStepKeeps DEF Provisioner
    <3> QED BY <2>1, <2>2, <3>1, ProvisionerDisk DEF CallsAgree
  <2>3. ASSUME NEW v \in Volume, Attacher(v)
        PROVE  DiskInvs'
    BY <2>1, <2>3, AttacherKeeps, AttacherDisk DEF CallsAgree
  <2>4. ASSUME NEW v \in Volume,
               \/ \E src \in Source, want \in Size : CreateVolume(v, src, want)
               \/ CreatePV(v) \/ Rollback(v) \/ Forget(v) \/ DeleteVolume(v)
               \/ \E n \in Node : ControllerPublishVolume(v, n) \/ ControllerUnpublishVolume(v, n)
        PROVE  DiskInvs'
    BY <2>1, <2>4, CallerKeeps, CallerDisk DEF CallsAgree
  <2>5. CASE LateScript
    BY <2>5 DEF LateScript, CallsAgree
  <2>6. CASE UNCHANGED vars
    <3>1. \A v \in Volume : Frame(v)
      BY <2>6 DEF vars, calls, backend, Frame, LunMappings, MappingsOf
    <3> QED BY <3>1, DiskFrame
  <2> QED BY <2>2, <2>3, <2>4, <2>5, <2>6 DEF Next
<1>3. CallsAgree /\ DiskInvs => DisksAgree
  BY DEF DisksAgree
<1> QED BY <1>1, <1>2, <1>3, TypeCorrect, CallsAgreeInvariant, PTL DEF Spec

(* Whatever failed attempts, rollbacks and forgotten answers came before, a *)
(* volume that CreateVolume answers for is registered, as large as its ID   *)
(* says and as was asked, and mapped on the LUN in its ID.                  *)
THEOREM CreationIsTruthful ==
    ASSUME MaxLate = 0, Source = {"empty"}
    PROVE  Spec => []CreatedIsUsable
<1>1. DisksAgree => CreatedIsUsable
  <2> SUFFICES ASSUME DisksAgree, NEW v \in Volume, Answered(v)
               PROVE  /\ vhdx[id[v].path] = "disk"
                      /\ size[id[v].path] = id[v].bytes /\ id[v].want <= id[v].bytes
                      /\ v \in target
                      /\ [target |-> v, path |-> id[v].path, lun |-> id[v].lun] \in maps
    BY DEF CreatedIsUsable
  <2>1. DiskInv(v)
    BY DEF DisksAgree
  <2>2. [target |-> v, path |-> v, lun |-> 0] \in LunMappings(v)
    BY <2>1 DEF DiskInv
  <2> QED BY <2>1, <2>2 DEF DiskInv, LunMappings
<1> QED BY <1>1, DisksAgreeInvariant, PTL
=============================================================================
