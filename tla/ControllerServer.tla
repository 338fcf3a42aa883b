--------------------------- MODULE ControllerServer ---------------------------
(***************************************************************************)
(* The iSCSI volume RPCs of controllerserver.go over the Windows server of *)
(* IscsiBackend: CreateVolume, DeleteVolume, ControllerPublishVolume and   *)
(* ControllerUnpublishVolume.  A handler is a sequence of backend calls,   *)
(* one action each; every call can fail before, after or halfway through   *)
(* its effect, or be given up by the driver while Windows still runs it.   *)
(*                                                                         *)
(* The callers are the two workers of internal_kubernetes.go: one          *)
(* provisioner (create, roll back, delete) and one attacher (publish,      *)
(* unpublish), so a volume has at most one call of each kind in flight.    *)
(* They pass no content source (volumeContentSourceForPVC refuses them):   *)
(* restores come from a provisioner that uses the gRPC service, which also *)
(* makes one call per volume at a time.                                    *)
(***************************************************************************)
EXTENDS IscsiBackend

CONSTANTS
    Source,             \* content sources of the claims: "empty", "snapshot"
    ProvisionSecret,    \* the StorageClass names a provisioner CHAP secret
    PublishSecret,      \* ... and a controller-publish CHAP secret
    Abandoned,          \* the scripts the driver may give up on while they run
    MaxFaults,          \* bound: calls that fail
    MaxLate             \* bound: abandoned scripts still running on Windows

ASSUME SourceAssumption == Source \subseteq {"empty", "snapshot"}
ASSUME SecretAssumption == ProvisionSecret \in BOOLEAN /\ PublishSecret \in BOOLEAN
ASSUME AbandonAssumption == Abandoned \subseteq Op \ ReadOnly
ASSUME BoundAssumption == MaxFaults \in Nat /\ MaxLate \in Nat

VARIABLES
    prov,       \* prov[v]: the CreateVolume or DeleteVolume call in flight for v
    att,        \* att[v]: the publish or unpublish call in flight for v
    vol,        \* vol[v]: what the provisioner knows of v
    id,         \* id[v]: the volume ID CreateVolume answered with
    grant,      \* grant[v][n]: the last answer the attacher got for v on n
    late,       \* scripts the driver gave up on and Windows still runs
    faults      \* failures so far

calls == <<prov, att, vol, id, grant>>
vars == <<backend, calls, late, faults>>

(***************************************************************************)
(* A volume is "none" until CreateVolume answers, "made" until its PV is   *)
(* stored, "bound" while the PV is there, "doomed" once DeleteVolume was   *)
(* called for the PV and "gone" when that was answered with success.       *)
(***************************************************************************)
Life == {"none", "made", "bound", "doomed", "gone"}

ProvPC == {"idle", "lookup", "create", "export", "reuse", "remap", "target",
           "chap", "map", "info", "unmap", "delDisk", "delTarget"}
AttPC == {"idle", "chap", "allow", "allowSet", "deny", "denySet"}

(* A call carries its request (the capacity asked for, the content source,  *)
(* whether it is a rollback) and the path and capacity it has learnt.  The  *)
(* capacity asked for is kept beside the ID the answer contains.            *)
Request == [want : Size \cup {0}, src : {"empty", "snapshot"}, roll : BOOLEAN]
Call == [pc : ProvPC, path : Path, bytes : Size \cup {0}, req : Request]
VolumeID == [path : Path, bytes : Size \cup {0}, lun : Lun, want : Size \cup {0}]

ToDelete(roll) == [want |-> 0, src |-> "empty", roll |-> roll]
NewCall(pc, path, req) == [pc |-> pc, path |-> path, bytes |-> 0, req |-> req]
NoCall(v) == NewCall("idle", v, ToDelete(FALSE))
NoAttach == [pc |-> "idle", nodes |-> {}, seen |-> {}]

TypeOK ==
    /\ BackendTypeOK
    /\ prov \in [Volume -> Call]
    /\ att \in [Volume -> [pc : AttPC, nodes : SUBSET Node, seen : SUBSET Node]]
    /\ vol \in [Volume -> Life]
    /\ id \in [Volume -> VolumeID]
    /\ grant \in [Volume -> [Node -> {"unknown", "granted", "revoked"}]]
    /\ late \subseteq Script
    /\ faults \in 0..MaxFaults

Init ==
    /\ BackendInit
    /\ prov = [v \in Volume |-> NoCall(v)]
    /\ att = [v \in Volume |-> NoAttach]
    /\ vol = [v \in Volume |-> "none"]
    /\ id = [v \in Volume |-> [path |-> v, bytes |-> 0, lun |-> 0, want |-> 0]]
    /\ grant = [v \in Volume |-> [n \in Node |-> "unknown"]]
    /\ late = {}
    /\ faults = 0

-----------------------------------------------------------------------------
(***************************************************************************)
(* runPS: one backend call.  The script runs and its answer is used; or it *)
(* throws; or the call fails (lost connection, HTTP timeout, cancelled     *)
(* context, driver stopped) without effect, after its effect, halfway      *)
(* through, or while Windows goes on running the script.                   *)
(***************************************************************************)
RunPS(s, Answer, Error) ==
    \/ /\ ~Throws(s) /\ Run(s) /\ Answer
       /\ UNCHANGED <<late, faults>>
    \/ /\ Throws(s) /\ UNCHANGED backend /\ Error
       /\ UNCHANGED <<late, faults>>
    \/ /\ faults < MaxFaults /\ faults' = faults + 1
       /\ Error
       /\ \/ UNCHANGED <<backend, late>>
          \/ ~Throws(s) /\ Run(s) /\ UNCHANGED late
          \/ s.op = "DeleteVirtualDisk" /\ DeleteVirtualDiskHalfway(s.path) /\ UNCHANGED late
          \/ /\ s.op \in Abandoned /\ Cardinality(late) < MaxLate
             /\ late' = late \cup {s}
             /\ UNCHANGED backend

(* A script the driver no longer waits for comes to its end. *)
LateScript ==
    \E s \in late :
       /\ IF Throws(s) THEN UNCHANGED backend ELSE Run(s)
       /\ late' = late \ {s}
       /\ UNCHANGED <<calls, faults>>

(***************************************************************************)
(* How a provisioner call goes on.  A failed rollback leaves the claim to  *)
(* be provisioned again, a failed deletion leaves the PV to be deleted.    *)
(***************************************************************************)
Goto(v, pc, path, bytes) ==
    /\ prov' = [prov EXCEPT ![v] =
                  [pc |-> pc, path |-> path, bytes |-> bytes, req |-> prov[v].req]]
    /\ UNCHANGED <<att, vol, id, grant>>

ProvError(v) ==
    /\ prov' = [prov EXCEPT ![v] = NoCall(v)]
    /\ vol' = [vol EXCEPT ![v] = IF prov[v].req.roll THEN "none" ELSE @]
    /\ UNCHANGED <<att, id, grant>>

Created(v, bytes) ==
    /\ prov' = [prov EXCEPT ![v] = NoCall(v)]
    /\ vol' = [vol EXCEPT ![v] = "made"]
    /\ id' = [id EXCEPT ![v] = [path |-> prov[v].path, bytes |-> bytes, lun |-> 0,
                                  want |-> prov[v].req.want]]
    /\ UNCHANGED <<att, grant>>

Deleted(v) ==
    /\ prov' = [prov EXCEPT ![v] = NoCall(v)]
    /\ vol' = [vol EXCEPT ![v] = IF prov[v].req.roll THEN "none" ELSE "gone"]
    /\ UNCHANGED <<att, id, grant>>

-----------------------------------------------------------------------------
(* Windows exports a snapshot to a path that nothing and nobody names. *)
FreeExport ==
    {p \in Export : /\ vhdx[p] = "absent"
                    /\ \A s \in late : s.path # p
                    /\ \A w \in Volume : p # id[w].path /\ p # prov[w].path}

(* CreateVolume: the validated request goes to the snapshot branch or to   *)
(* the idempotency check.                                                  *)
CreateVolume(v, src, want) ==
    /\ prov[v].pc = "idle" /\ vol[v] = "none"
    /\ src = "snapshot" => FreeExport # {}
    /\ prov' = [prov EXCEPT ![v] =
                  NewCall(IF src = "snapshot" THEN "export" ELSE "lookup", v,
                          [want |-> want, src |-> src, roll |-> FALSE])]
    /\ UNCHANGED <<backend, att, vol, id, grant, late, faults>>

CreateVolumeExport(v) ==
    /\ prov[v].pc = "export"
    /\ \E p \in FreeExport, b \in Size :
         RunPS(OnDisk("ExportSnapshotAsVirtualDisk", v, p, b),
               Goto(v, "target", p, b), ProvError(v))

(* Mistakes the runs must notice: taking an existing volume whether it is   *)
(* mapped or not, taking it whatever its size, refusing it.                 *)
LookupUnmapped(v) ==
    \/ vhdx[v] = "absent" /\ Goto(v, "create", v, 0)
    \/ vhdx[v] = "disk" /\ prov[v].req.want > size[v] /\ ProvError(v)
    \/ vhdx[v] = "disk" /\ prov[v].req.want <= size[v] /\ Goto(v, "reuse", v, size[v])

LookupUnsized(v) ==
    \/ vhdx[v] = "absent" /\ Goto(v, "create", v, 0)
    \/ /\ vhdx[v] = "disk"
       /\ Goto(v, IF MappingsOf(v) = {} THEN "remap" ELSE "reuse", v, size[v])

LookupRefusing(v) ==
    \/ vhdx[v] = "absent" /\ Goto(v, "create", v, 0)
    \/ vhdx[v] = "disk" /\ ProvError(v)

(* GetVolumeByName: absent, too small (AlreadyExists), mapped or not. *)
Lookup(v) ==
    \/ vhdx[v] = "absent" /\ Goto(v, "create", v, 0)
    \/ vhdx[v] = "disk" /\ prov[v].req.want > size[v] /\ ProvError(v)
    \/ /\ vhdx[v] = "disk" /\ prov[v].req.want <= size[v]
       /\ Goto(v, IF MappingsOf(v) = {} THEN "remap" ELSE "reuse", v, size[v])

CreateVolumeLookup(v) ==
    /\ prov[v].pc = "lookup"
    /\ RunPS(OnDisk("GetVolumeByName", v, v, 0), Lookup(v), ProvError(v))

(* The volume exists and is mapped: EnsureTarget(existing) is all. *)
CreateVolumeReuse(v) ==
    /\ prov[v].pc = "reuse"
    /\ RunPS(OnTarget("EnsureTarget", v), Created(v, prov[v].bytes), ProvError(v))

(* The volume exists unmapped: EnsureTarget(existing), then map it. *)
CreateVolumeRemap(v) ==
    /\ prov[v].pc = "remap"
    /\ RunPS(OnTarget("EnsureTarget", v), Goto(v, "map", v, prov[v].bytes), ProvError(v))

(* CreateVirtualDisk answers with the size of the disk at the path. *)
CreateVolumeDisk(v) ==
    /\ prov[v].pc = "create"
    /\ RunPS(OnDisk("CreateVirtualDisk", v, v, prov[v].req.want),
             Goto(v, "target", v, size'[v]), ProvError(v))

CreateVolumeTarget(v) ==
    /\ prov[v].pc = "target"
    /\ RunPS(OnTarget("EnsureTarget", v),
             Goto(v, IF ProvisionSecret THEN "chap" ELSE "map", prov[v].path, prov[v].bytes),
             ProvError(v))

CreateVolumeChap(v) ==
    /\ prov[v].pc = "chap"
    /\ RunPS(OnTarget("ConfigureTargetChap", v),
             Goto(v, "map", prov[v].path, prov[v].bytes), ProvError(v))

CreateVolumeMap(v) ==
    /\ prov[v].pc = "map"
    /\ RunPS(OnDisk("MapDiskToTarget", v, prov[v].path, 0),
             IF prov[v].req.src = "snapshot" THEN Goto(v, "info", prov[v].path, prov[v].bytes)
             ELSE Created(v, prov[v].bytes),
             ProvError(v))

(* GetVolumeInfo of a restored disk: its error is ignored and leaves 0. *)
CreateVolumeInfo(v) ==
    /\ prov[v].pc = "info"
    /\ RunPS(OnDisk("GetVolumeInfo", v, prov[v].path, 0),
             Created(v, size[prov[v].path]), Created(v, 0))

-----------------------------------------------------------------------------
(* The PV is stored; or that fails and reconcilePersistentVolumeClaim      *)
(* rolls the volume back; or the process stops in between and the answer   *)
(* is forgotten.                                                           *)
CreatePV(v) ==
    /\ vol[v] = "made" /\ prov[v].pc = "idle"
    /\ vol' = [vol EXCEPT ![v] = "bound"]
    /\ UNCHANGED <<backend, prov, att, id, grant, late, faults>>

Rollback(v) ==
    /\ vol[v] = "made" /\ prov[v].pc = "idle"
    /\ faults < MaxFaults /\ faults' = faults + 1
    /\ prov' = [prov EXCEPT ![v] =
                  NewCall("unmap", id[v].path, ToDelete(TRUE))]
    /\ UNCHANGED <<backend, att, vol, id, grant, late>>

Forget(v) ==
    /\ vol[v] = "made" /\ prov[v].pc = "idle"
    /\ faults < MaxFaults /\ faults' = faults + 1
    /\ vol' = [vol EXCEPT ![v] = "none"]
    /\ UNCHANGED <<backend, prov, att, id, grant, late>>

(* DeleteVolume for a PV that is released or being deleted. *)
DeleteVolume(v) ==
    /\ vol[v] \in {"bound", "doomed"} /\ prov[v].pc = "idle"
    /\ vol' = [vol EXCEPT ![v] = "doomed"]
    /\ prov' = [prov EXCEPT ![v] = NewCall("unmap", id[v].path, ToDelete(FALSE))]
    /\ UNCHANGED <<backend, att, id, grant, late, faults>>

DeleteVolumeUnmap(v) ==
    /\ prov[v].pc = "unmap"
    /\ RunPS(OnDisk("UnmapDiskFromTarget", v, prov[v].path, 0),
             Goto(v, "delDisk", prov[v].path, 0), ProvError(v))

DeleteVolumeDisk(v) ==
    /\ prov[v].pc = "delDisk"
    /\ RunPS(OnDisk("DeleteVirtualDisk", v, prov[v].path, 0),
             Goto(v, "delTarget", prov[v].path, 0), ProvError(v))

(* A mistake the runs must notice: the error of the last step is dropped. *)
DeleteVolumeTargetUnchecked(v) ==
    /\ prov[v].pc = "delTarget"
    /\ RunPS(OnTarget("DeleteTarget", v), Deleted(v), Deleted(v))

DeleteVolumeTarget(v) ==
    /\ prov[v].pc = "delTarget"
    /\ RunPS(OnTarget("DeleteTarget", v), Deleted(v), ProvError(v))

-----------------------------------------------------------------------------
AttGoto(v, pc, seen) ==
    /\ att' = [att EXCEPT ![v] = [pc |-> pc, nodes |-> att[v].nodes, seen |-> seen]]
    /\ UNCHANGED <<prov, vol, id, grant>>

AttError(v) ==
    /\ att' = [att EXCEPT ![v] = NoAttach]
    /\ UNCHANGED <<prov, vol, id, grant>>

AttDone(v, answer) ==
    /\ att' = [att EXCEPT ![v] = NoAttach]
    /\ grant' = [grant EXCEPT ![v] =
                   [n \in Node |-> IF n \in att[v].nodes THEN answer ELSE grant[v][n]]]
    /\ UNCHANGED <<prov, vol, id>>

(* A call for node n starts; until it answers nothing is known of n.  The  *)
(* PV the attacher works from may be stale: it was stored once.            *)
AttBegin(v, n, pc) ==
    /\ att[v].pc = "idle" /\ vol[v] \in {"bound", "doomed", "gone"}
    /\ att' = [att EXCEPT ![v] = [pc |-> pc, nodes |-> {n}, seen |-> {}]]
    /\ grant' = [grant EXCEPT ![v] = [grant[v] EXCEPT ![n] = "unknown"]]
    /\ UNCHANGED <<backend, prov, vol, id, late, faults>>

(* A mistake the runs must notice: access first, CHAP never. *)
ControllerPublishOpen(v, n) == AttBegin(v, n, "allow")

ControllerPublishVolume(v, n) == AttBegin(v, n, IF PublishSecret THEN "chap" ELSE "allow")

ControllerPublishChap(v) ==
    /\ att[v].pc = "chap"
    /\ RunPS(OnTarget("ConfigureTargetChap", v), AttGoto(v, "allow", {}), AttError(v))

(***************************************************************************)
(* AllowInitiator and DenyInitiator read InitiatorIds and then write the   *)
(* whole list back: two cmdlets, two steps.  A call given up while it      *)
(* reads leaves the whole script behind, later only the write.             *)
(***************************************************************************)
AllowInitiatorRead(v) ==
    /\ att[v].pc = "allow"
    /\ \/ RunPS(OnTarget("GetIscsiServerTarget", v),
                IF att[v].nodes \subseteq allowed[v] THEN AttDone(v, "granted")
                ELSE AttGoto(v, "allowSet", allowed[v]),
                AttError(v))
       \/ /\ faults < MaxFaults /\ faults' = faults + 1
          /\ "AllowInitiator" \in Abandoned /\ Cardinality(late) < MaxLate
          /\ late' = late \cup {OnInitiators("AllowInitiator", v, att[v].nodes)}
          /\ AttError(v) /\ UNCHANGED backend

(* A mistake the runs must notice: the list is replaced, not extended. *)
AllowInitiatorReplace(v) ==
    /\ att[v].pc = "allowSet"
    /\ RunPS(OnInitiators("SetInitiatorIds", v, att[v].nodes),
             AttDone(v, "granted"), AttError(v))

AllowInitiatorWrite(v) ==
    /\ att[v].pc = "allowSet"
    /\ RunPS(OnInitiators("SetInitiatorIds", v, att[v].seen \cup att[v].nodes),
             AttDone(v, "granted"), AttError(v))

ControllerUnpublishVolume(v, n) == AttBegin(v, n, "deny")

(* Without a target there is nothing to deny and the call succeeds. *)
DenyInitiatorRead(v) ==
    /\ att[v].pc = "deny"
    /\ UNCHANGED backend
    /\ \/ v \in target /\ AttGoto(v, "denySet", allowed[v]) /\ UNCHANGED <<late, faults>>
       \/ v \notin target /\ AttDone(v, "revoked") /\ UNCHANGED <<late, faults>>
       \/ /\ faults < MaxFaults /\ faults' = faults + 1
          /\ AttError(v)
          /\ \/ UNCHANGED late
             \/ /\ "DenyInitiator" \in Abandoned /\ Cardinality(late) < MaxLate
                /\ late' = late \cup {OnInitiators("DenyInitiator", v, att[v].nodes)}

(* A mistake the runs must notice: a failed removal counts as done. *)
DenyInitiatorUnchecked(v) ==
    /\ att[v].pc = "denySet"
    /\ RunPS(OnInitiators("SetInitiatorIds", v, att[v].seen \ att[v].nodes),
             AttDone(v, "revoked"), AttDone(v, "revoked"))

(* A mistake the runs must notice: the list is emptied. *)
DenyInitiatorAll(v) ==
    /\ att[v].pc = "denySet"
    /\ RunPS(OnInitiators("SetInitiatorIds", v, {}), AttDone(v, "revoked"), AttError(v))

DenyInitiatorWrite(v) ==
    /\ att[v].pc = "denySet"
    /\ RunPS(OnInitiators("SetInitiatorIds", v, att[v].seen \ att[v].nodes),
             AttDone(v, "revoked"), AttError(v))

-----------------------------------------------------------------------------
Provisioner(v) ==
    \/ CreateVolumeExport(v)
    \/ CreateVolumeLookup(v)
    \/ CreateVolumeReuse(v)
    \/ CreateVolumeRemap(v)
    \/ CreateVolumeDisk(v)
    \/ CreateVolumeTarget(v)
    \/ CreateVolumeChap(v)
    \/ CreateVolumeMap(v)
    \/ CreateVolumeInfo(v)
    \/ DeleteVolumeUnmap(v)
    \/ DeleteVolumeDisk(v)
    \/ DeleteVolumeTarget(v)

Attacher(v) ==
    \/ ControllerPublishChap(v)
    \/ AllowInitiatorRead(v)
    \/ AllowInitiatorWrite(v)
    \/ DenyInitiatorRead(v)
    \/ DenyInitiatorWrite(v)

Next ==
    \/ \E v \in Volume :
         \/ \E src \in Source, want \in Size : CreateVolume(v, src, want)
         \/ CreatePV(v)
         \/ Rollback(v)
         \/ Forget(v)
         \/ DeleteVolume(v)
         \/ \E n \in Node : ControllerPublishVolume(v, n)
         \/ \E n \in Node : ControllerUnpublishVolume(v, n)
         \/ Provisioner(v)
         \/ Attacher(v)
    \/ LateScript

Spec == Init /\ [][Next]_vars

(***************************************************************************)
(* The workqueues hand a key back until its reconcile succeeds, so calls   *)
(* go on and failed ones are made again; nobody is obliged to delete a PV, *)
(* but once DeleteVolume has been called it is called until it succeeds.   *)
(***************************************************************************)
Fairness ==
    \A v \in Volume :
       /\ WF_vars(Provisioner(v))
       /\ WF_vars(Attacher(v))
       /\ WF_vars(\E src \in Source, want \in Size : CreateVolume(v, src, want))
       /\ WF_vars(CreatePV(v))
       /\ WF_vars(vol[v] = "doomed" /\ DeleteVolume(v))

FairSpec == Spec /\ Fairness

-----------------------------------------------------------------------------
(* Answered(v): CreateVolume answered for v and nobody has asked to undo it. *)
Answered(v) == vol[v] \in {"made", "bound"} /\ ~prov[v].req.roll

(***************************************************************************)
(* What CreateVolume answers is true and stays true until DeleteVolume is  *)
(* called, whatever earlier attempts for the same name left behind: the    *)
(* disk named in the volume ID is registered, has the capacity in the ID,  *)
(* which is at least the one asked for, and is what the target serves on   *)
(* the LUN in the ID.                                                      *)
(***************************************************************************)
CreatedIsUsable ==
    \A v \in Volume : Answered(v) =>
       /\ vhdx[id[v].path] = "disk"
       /\ size[id[v].path] = id[v].bytes /\ id[v].want <= id[v].bytes
       /\ v \in target
       /\ [target |-> v, path |-> id[v].path, lun |-> id[v].lun] \in maps

(***************************************************************************)
(* When DeleteVolume answers with success, after any number of attempts    *)
(* that failed anywhere, the disk and its file, the mappings and the       *)
(* target with its initiators are gone, and no attach call still running   *)
(* brings them back.                                                       *)
(***************************************************************************)
DeletedIsGone ==
    \A v \in Volume : vol[v] = "gone" =>
       /\ vhdx[id[v].path] = "absent"
       /\ v \notin target
       /\ LunMappings(v) = {}
       /\ allowed[v] = {}

(* A node the attacher was told has access to a bound volume has it: no     *)
(* later call for another node, which rewrites the whole InitiatorIds list, *)
(* drops it.                                                                *)
GrantedIsAllowed ==
    \A v \in Volume, n \in Node :
       vol[v] = "bound" /\ grant[v][n] = "granted" => n \in allowed[v]

(* A node the attacher was told has lost access has lost it, and no later   *)
(* call for another node writes it back.                                    *)
RevokedIsDenied ==
    \A v \in Volume, n \in Node : grant[v][n] = "revoked" => n \notin allowed[v]

(***************************************************************************)
(* With a controller-publish secret no initiator is let on to the target   *)
(* of a bound volume before the target asks for CHAP, however many scripts *)
(* the driver gave up on finish in between, as long as none of them is the *)
(* DeleteTarget of a rollback: that one can take the target of the volume  *)
(* created again, its CHAP setting with it, just before AllowInitiator     *)
(* writes to a target that an abandoned EnsureTarget has made anew.        *)
(***************************************************************************)
ChapBeforeAccess ==
    PublishSecret /\ "DeleteTarget" \notin Abandoned =>
       \A v \in Volume : vol[v] = "bound" /\ allowed[v] # {} => v \in chap

(* "The controller uses it to configure Windows target CHAP" (README.md):   *)
(* a volume provisioned with a CHAP secret has a target that asks for it.   *)
ProvisionedWithChap ==
    ProvisionSecret => \A v \in Volume : Answered(v) => v \in chap

(* Once DeleteVolume has been called, its retries get to the end wherever   *)
(* the earlier ones stopped.                                                *)
DeleteConverges ==
    \A v \in Volume : vol[v] = "doomed" ~> vol[v] = "gone"

(* The disk an earlier attempt left is too small for a later request, which *)
(* CreateVolume then refuses with AlreadyExists.                            *)
TooSmall(v) == vol[v] = "none" /\ vhdx[v] = "disk" /\ \E want \in Size : want > size[v]

(* A claim gets its volume and PV whatever its failed attempts and          *)
(* rollbacks left behind, unless a rollback left an unregistered VHDX file, *)
(* or it now asks for more than the disk that is there and always will.     *)
ProvisionConverges ==
    \A v \in Volume :
       vol[v] = "none" ~> (vol[v] = "bound" \/ vhdx[v] = "file" \/ []TooSmall(v))
=============================================================================
