------------------- MODULE ControllerServerRefinementProofs -------------------
(***************************************************************************)
(* ControllerServer implements AbstractVolume: every step of every call    *)
(* shows as one step of one volume, or as none, for any number of volumes, *)
(* nodes and faults.                                                       *)
(***************************************************************************)
EXTENDS ControllerServerRefinement, ControllerServerSafety

-----------------------------------------------------------------------------
(* What else the mapping rests on: a disk is never empty, and an attacher   *)
(* that has no call has no node either.                                     *)
ShownInv(v) ==
    /\ prov[v].pc \in Creating => prov[v].req.want \in Size
    /\ vhdx[v] = "disk" => size[v] \in Size
    /\ att[v].pc = "idle" => att[v].nodes = {}

Shown == \A v \in Volume : ShownInv(v)

(* A step for v shows in v alone, and there only what it changes. *)
Shows(v) ==
    /\ phase' = [phase EXCEPT ![v] = Phase(v)'] /\ phase[v] = Phase(v)
    /\ serves' = [serves EXCEPT ![v] = Serves(v)'] /\ serves[v] = Serves(v)
    /\ asked' = [asked EXCEPT ![v] = Asked(v)'] /\ asked[v] = Asked(v)
    /\ allowed' = [allowed EXCEPT ![v] = allowed'[v]]
    /\ grant' = [grant EXCEPT ![v] = grant'[v]]
    /\ Phase(v)' = Phase(v) => phase' = phase
    /\ Serves(v)' = Serves(v) => serves' = serves
    /\ Asked(v)' = Asked(v) => asked' = asked
    /\ allowed'[v] = allowed[v] => allowed' = allowed
    /\ grant'[v] = grant[v] => grant' = grant

(* What keeps the frame of another volume shows nothing of it. *)
LEMMA FrameHides ==
    ASSUME NEW w \in Volume, Frame(w)
    PROVE  Phase(w)' = Phase(w) /\ Serves(w)' = Serves(w) /\ Asked(w)' = Asked(w)
<1>3. Phase(w)' = Phase(w) BY DEF Frame, Phase
<1>4. Asked(w)' = Asked(w) BY DEF Frame, Asked
<1>5. Serves(w)' = Serves(w)
  <2>1. [target |-> w, path |-> w, lun |-> 0] \in maps' <=> [target |-> w, path |-> w, lun |-> 0] \in maps
    BY DEF Frame, LunMappings
  <2> QED BY <2>1 DEF Frame, Serves
<1> QED BY <1>3, <1>4, <1>5

(* A step that keeps the frames of all other volumes shows in v alone. *)
LEMMA FrameShows ==
    ASSUME TypeOK, TypeOK', NEW v \in Volume, \A w \in Volume \ {v} : Frame(w)
    PROVE  Shows(v)
<1>1. /\ phase' = [phase EXCEPT ![v] = Phase(v)'] /\ phase[v] = Phase(v)
      /\ Phase(v)' = Phase(v) => phase' = phase
  <2>1. phase = [w \in Volume |-> Phase(w)] /\ phase' = [w \in Volume |-> Phase(w)'] BY DEF phase
  <2>2. \A w \in Volume \ {v} : Phase(w)' = Phase(w) BY FrameHides
  <2> QED BY <2>1, <2>2
<1>2. /\ serves' = [serves EXCEPT ![v] = Serves(v)'] /\ serves[v] = Serves(v)
      /\ Serves(v)' = Serves(v) => serves' = serves
  <2>1. serves = [w \in Volume |-> Serves(w)] /\ serves' = [w \in Volume |-> Serves(w)'] BY DEF serves
  <2>2. \A w \in Volume \ {v} : Serves(w)' = Serves(w) BY FrameHides
  <2> QED BY <2>1, <2>2
<1>3. /\ asked' = [asked EXCEPT ![v] = Asked(v)'] /\ asked[v] = Asked(v)
      /\ Asked(v)' = Asked(v) => asked' = asked
  <2>1. asked = [w \in Volume |-> Asked(w)] /\ asked' = [w \in Volume |-> Asked(w)'] BY DEF asked
  <2>2. \A w \in Volume \ {v} : Asked(w)' = Asked(w) BY FrameHides
  <2> QED BY <2>1, <2>2
<1>4. /\ allowed' = [allowed EXCEPT ![v] = allowed'[v]] /\ grant' = [grant EXCEPT ![v] = grant'[v]]
      /\ allowed'[v] = allowed[v] => allowed' = allowed
      /\ grant'[v] = grant[v] => grant' = grant
  BY DEF Frame, TypeOK, BackendTypeOK
<1> QED BY <1>1, <1>2, <1>3, <1>4 DEF Shows

-----------------------------------------------------------------------------
(* What the phase of v is, and what the request for it. *)
PhaseOK(v) ==
    /\ Phase(v) = "unprovisioned" <=> vol[v] = "none" \/ (vol[v] = "made" /\ prov[v].req.roll)
    /\ Phase(v) = "provisioned" <=> vol[v] = "bound" \/ (vol[v] = "made" /\ ~prov[v].req.roll)
    /\ Phase(v) = "removing" <=> vol[v] = "doomed"
    /\ Phase(v) = "removed" <=> vol[v] = "gone"

AskedOK(v) ==
    /\ att[v].pc = "idle" => Asked(v) = Abstract!NoRequest
    /\ att[v].pc \in {"chap", "allow", "allowSet"} =>
          Asked(v) = [want |-> "allow", nodes |-> att[v].nodes]
    /\ att[v].pc \in {"deny", "denySet"} => Asked(v) = [want |-> "deny", nodes |-> att[v].nodes]

Mapped == \A v \in Volume : PhaseOK(v) /\ AskedOK(v)

(* The definitions, case by case. *)
LEMMA MappedNow == TypeOK /\ Shown => Mapped
<1> SUFFICES ASSUME TypeOK, Shown, NEW v \in Volume PROVE PhaseOK(v) /\ AskedOK(v)
  BY DEF Mapped
<1>a. PhaseOK(v)
  <2>0. vol[v] \in Life BY DEF TypeOK
  <2>1. CASE vol[v] = "none"
    <3>1. Phase(v) = "unprovisioned" BY <2>1, Zenon DEF Phase
    <3> QED BY <2>1, <3>1 DEF PhaseOK
  <2>2. CASE vol[v] = "made"
    <3>1. Phase(v) = IF prov[v].req.roll THEN "unprovisioned" ELSE "provisioned"
      BY <2>2, Zenon DEF Phase
    <3> QED BY <2>2, <3>1 DEF PhaseOK
  <2>3. CASE vol[v] = "bound"
    <3>1. Phase(v) = "provisioned" BY <2>3, Zenon DEF Phase
    <3> QED BY <2>3, <3>1 DEF PhaseOK
  <2>4. CASE vol[v] = "doomed"
    <3>1. Phase(v) = "removing" BY <2>4, Zenon DEF Phase
    <3> QED BY <2>4, <3>1 DEF PhaseOK
  <2>5. CASE vol[v] = "gone"
    <3>1. Phase(v) = "removed" BY <2>5, Zenon DEF Phase
    <3> QED BY <2>5, <3>1 DEF PhaseOK
  <2> QED BY <2>0, <2>1, <2>2, <2>3, <2>4, <2>5 DEF Life
<1>b. AskedOK(v)
  <2>1. ASSUME att[v].pc = "idle" PROVE Asked(v) = Abstract!NoRequest
    <3>1. att[v].nodes = {} BY <2>1 DEF Shown, ShownInv
    <3> QED BY <2>1, <3>1, Zenon DEF Asked, Abstract!NoRequest
  <2>2. ASSUME att[v].pc \in {"chap", "allow", "allowSet"}
        PROVE  Asked(v) = [want |-> "allow", nodes |-> att[v].nodes]
    <3>1. att[v].pc # "idle" /\ att[v].pc \notin {"deny", "denySet"} BY <2>2
    <3> QED BY <2>2, <3>1, Zenon DEF Asked
  <2>3. ASSUME att[v].pc \in {"deny", "denySet"}
        PROVE  Asked(v) = [want |-> "deny", nodes |-> att[v].nodes]
    <3>1. att[v].pc # "idle" /\ att[v].pc \notin {"chap", "allow", "allowSet"} BY <2>3
    <3> QED BY <2>3, <3>1, Zenon DEF Asked
  <2> QED BY <2>1, <2>2, <2>3 DEF AskedOK
<1> QED BY <1>a, <1>b

(* The same in the state after a step. *)
LEMMA MappedNext == TypeOK' /\ Shown' => Mapped'
BY MappedNow, PTL

-----------------------------------------------------------------------------
(* How what a step shows of v makes it a step of AbstractVolume: as none at *)
(* all ...                                                                  *)
LEMMA ToNothing ==
    ASSUME NEW v \in Volume, Shows(v), Phase(v)' = Phase(v), Serves(v)' = Serves(v),
           Asked(v)' = Asked(v), allowed'[v] = allowed[v], grant'[v] = grant[v]
    PROVE  UNCHANGED Abstract!vars
BY DEF Shows, Abstract!vars

(* ... as part of an attempt ... *)
LEMMA ToAttempt ==
    ASSUME NEW v \in Volume, Shows(v), Phase(v) = "unprovisioned", Phase(v)' = "unprovisioned",
           Serves(v)' \in Size \cup {0}, Asked(v)' = Asked(v), allowed'[v] = allowed[v],
           grant'[v] = grant[v]
    PROVE  Abstract!Next
<1>1. Abstract!Attempt(v) BY DEF Shows, Abstract!Attempt
<1> QED BY <1>1 DEF Abstract!Next

(* ... as the answer of CreateVolume ... *)
LEMMA ToProvision ==
    ASSUME NEW v \in Volume, Shows(v), Phase(v) = "unprovisioned", Phase(v)' = "provisioned",
           Serves(v)' \in Size, Asked(v)' = Asked(v), allowed'[v] = allowed[v], grant'[v] = grant[v]
    PROVE  Abstract!Next
<1>1. Serves(v)' \in (Size \cup {0}) \ {0} BY SizeAssumption
<1>2. Abstract!Provision(v) BY <1>1 DEF Shows, Abstract!Provision
<1> QED BY <1>2 DEF Abstract!Next

(* ... as its withdrawal, by a rollback or a restart ... *)
LEMMA ToWithdraw ==
    ASSUME NEW v \in Volume, Shows(v), Phase(v) = "provisioned", Phase(v)' = "unprovisioned",
           allowed[v] = {}, Asked(v) = Abstract!NoRequest,
           Serves(v)' = Serves(v), Asked(v)' = Asked(v), allowed'[v] = allowed[v], grant'[v] = grant[v]
    PROVE  Abstract!Next
<1>1. Abstract!Withdraw(v) BY DEF Shows, Abstract!Withdraw
<1> QED BY <1>1 DEF Abstract!Next

(* ... as the request for removal ... *)
LEMMA ToAskRemoval ==
    ASSUME NEW v \in Volume, Shows(v), Phase(v) = "provisioned", Phase(v)' = "removing",
           Serves(v)' = Serves(v), Asked(v)' = Asked(v), allowed'[v] = allowed[v], grant'[v] = grant[v]
    PROVE  Abstract!Next
<1>1. Abstract!AskRemoval(v) BY DEF Shows, Abstract!AskRemoval
<1> QED BY <1>1 DEF Abstract!Next

(* ... as a step of DeleteVolume ... *)
LEMMA ToRemove ==
    ASSUME NEW v \in Volume, Shows(v), Phase(v) = "removing",
           Asked(v)' = Asked(v), grant'[v] = grant[v],
           \/ Phase(v)' = Phase(v) /\ Serves(v)' = 0 /\ allowed'[v] = allowed[v]
           \/ /\ Phase(v)' \in {"removing", "removed"} /\ allowed'[v] = {}
              /\ Serves(v) = 0 /\ Serves(v)' = 0
    PROVE  Abstract!Next
<1>1. Abstract!Remove(v) BY DEF Shows, Abstract!Remove
<1> QED BY <1>1 DEF Abstract!Next

(* ... as an attach request ... *)
LEMMA ToAsk ==
    ASSUME NEW v \in Volume, Shows(v), NEW want \in {"allow", "deny"}, NEW n \in Node,
           Phase(v) # "unprovisioned", Phase(v)' = Phase(v), Asked(v) = Abstract!NoRequest,
           Asked(v)' = [want |-> want, nodes |-> {n}],
           grant'[v] = [m \in Node |-> IF m \in {n} THEN "unknown" ELSE grant[v][m]],
           Serves(v)' = Serves(v), allowed'[v] = allowed[v]
    PROVE  Abstract!Next
<1> DEFINE r == [want |-> want, nodes |-> {n}]
<1>1. r \in Abstract!Request /\ r.nodes = {n} BY DEF Abstract!Request
<1> HIDE DEF r
<1>2. Asked(v)' = r BY DEF r
<1>3. Abstract!Ask(v, r) BY <1>1, <1>2 DEF Shows, Abstract!Ask, Abstract!Tell
<1> QED BY <1>1, <1>3 DEF Abstract!Next

(* ... and as its effect or its answer. *)
LEMMA ToAttach ==
    ASSUME NEW v \in Volume, Shows(v), Phase(v)' = Phase(v), Serves(v)' = Serves(v),
           Asked(v) # Abstract!NoRequest,
           \/ allowed'[v] = allowed[v]
           \/ /\ Asked(v).want = "allow" /\ Phase(v) # "removed"
              /\ allowed'[v] = allowed[v] \cup Asked(v).nodes
           \/ Asked(v).want = "deny" /\ allowed'[v] = allowed[v] \ Asked(v).nodes,
           \/ Asked(v)' = Asked(v) /\ grant'[v] = grant[v]
           \/ /\ Asked(v)' = Abstract!NoRequest
              /\ \/ grant'[v] = grant[v]
                 \/ /\ Asked(v).want = "allow" /\ Asked(v).nodes \subseteq allowed'[v]
                    /\ grant'[v] = [n \in Node |-> IF n \in Asked(v).nodes THEN "granted" ELSE grant[v][n]]
                 \/ /\ Asked(v).want = "deny" /\ Asked(v).nodes \cap allowed'[v] = {}
                    /\ grant'[v] = [n \in Node |-> IF n \in Asked(v).nodes THEN "revoked" ELSE grant[v][n]]
    PROVE  Abstract!Next
<1>1. Abstract!Attach(v) BY DEF Shows, Abstract!Attach, Abstract!Tell
<1> QED BY <1>1 DEF Abstract!Next

-----------------------------------------------------------------------------
(* The steps of CreateVolume: until it answers nothing but disks, mappings  *)
(* and targets change.                                                      *)
LEMMA CreateSteps ==
    ASSUME TypeOK, MaxLate = 0, DisksAgree, NEW v \in Volume, Provisioner(v), prov[v].pc \in Creating
    PROVE  /\ UNCHANGED <<att, grant, allowed>> /\ vol[v] = "none"
           /\ \/ vol'[v] = "none" /\ (prov'[v].pc = "idle" \/ prov'[v].req = prov[v].req)
              \/ vol'[v] = "made" /\ prov'[v].pc = "idle" /\ ~prov'[v].req.roll
           /\ \/ vhdx' = vhdx /\ size' = size
              \/ vhdx[v] = "absent" /\ CreateVirtualDisk(v, prov[v].req.want)
<1> USE DEF Creating, Deleting, Outcome
<1>0. /\ late = {} /\ CallInv(v) /\ DiskInv(v) /\ vol[v] = "none" /\ ~prov[v].req.roll
      /\ prov[v].path = v /\ v \in PathsOf(v)
  BY DEF DisksAgree, CallsAgree, CallInv, DiskInv, PathsOf
<1>1. CASE CreateVolumeLookup(v)
  BY <1>0, <1>1, LookupOutcome, GotoAt, ProvErrorAt DEF Lookup, backend
<1>2. CASE CreateVolumeReuse(v)
  BY <1>0, <1>2, ReuseOutcome, CreatedAt, ProvErrorAt DEF EnsureTarget, backend
<1>3. CASE CreateVolumeRemap(v)
  BY <1>0, <1>3, RemapOutcome, GotoAt, ProvErrorAt DEF EnsureTarget, backend
<1>4. CASE CreateVolumeDisk(v)
  <2>1. vhdx[v] = "absent" BY <1>0, <1>4, DiskOutcome DEF DiskInv
  <2> QED BY <1>0, <1>4, <2>1, DiskOutcome, GotoAt, ProvErrorAt DEF CreateVirtualDisk, backend
<1>5. CASE CreateVolumeTarget(v)
  BY <1>0, <1>5, TargetOutcome, GotoAt, ProvErrorAt DEF EnsureTarget, backend
<1>6. CASE CreateVolumeChap(v)
  BY <1>0, <1>6, ChapOutcome, GotoAt, ProvErrorAt DEF ConfigureTargetChap, backend
<1>7. CASE CreateVolumeMap(v)
  BY <1>0, <1>7, MapOutcome, CreatedAt, ProvErrorAt DEF MapDiskToTarget, backend, DiskInv
<1>8. ~CreateVolumeExport(v) /\ ~CreateVolumeInfo(v)
  BY <1>0 DEF CreateVolumeExport, CreateVolumeInfo, DiskInv
<1>9. ~DeleteVolumeUnmap(v) /\ ~DeleteVolumeDisk(v) /\ ~DeleteVolumeTarget(v)
  BY DEF DeleteVolumeUnmap, DeleteVolumeDisk, DeleteVolumeTarget
<1> QED BY <1>1, <1>2, <1>3, <1>4, <1>5, <1>6, <1>7, <1>8, <1>9 DEF Provisioner

(* The steps of DeleteVolume: the storage goes, then the target, then the   *)
(* answer comes.                                                            *)
LEMMA DeleteSteps ==
    ASSUME TypeOK, MaxLate = 0, DisksAgree, NEW v \in Volume, Provisioner(v), prov[v].pc \in Deleting
    PROVE  /\ UNCHANGED <<att, grant>> /\ prov'[v].pc \notin Creating
           /\ prov[v].req.roll =>
                /\ vol[v] = "made" /\ allowed'[v] = allowed[v]
                /\ vol'[v] = "none" \/ (vol'[v] = "made" /\ prov'[v].req.roll)
           /\ ~prov[v].req.roll => vol[v] = "doomed" /\ vol'[v] \in {"doomed", "gone"}
           /\ vhdx'[v] = "disk" => vhdx[v] = "disk" /\ size'[v] = size[v]
           /\ \/ Serves(v)' = Serves(v) /\ allowed'[v] = allowed[v] /\ vol'[v] # "gone"
              \/ Serves(v)' = 0 /\ allowed'[v] = allowed[v] /\ vol'[v] # "gone"
              \/ Serves(v) = 0 /\ Serves(v)' = 0 /\ allowed'[v] = {}
<1> USE DEF Creating, Deleting, Outcome
<1>0. /\ late = {} /\ CallInv(v) /\ DiskInv(v) /\ AccessInv(v) /\ v \in Path
      /\ vol[v] = IF prov[v].req.roll THEN "made" ELSE "doomed"
      /\ prov[v].path = v /\ v \in PathsOf(v)
      /\ vhdx \in [Path -> {"absent", "disk", "file"}] /\ size \in [Path -> Size \cup {0}]
      /\ allowed \in [Volume -> SUBSET Node] /\ (prov[v].req.roll => allowed[v] = {})
  BY DEF DisksAgree, CallsAgree, CallInv, DiskInv, AccessInv, PathsOf, Path, TypeOK, BackendTypeOK
<1>1. CASE DeleteVolumeUnmap(v)
  <2>1. Outcome(UnmapDiskFromTarget(v, v), Goto(v, "delDisk", v, 0), ProvError(v))
    BY <1>0, <1>1, UnmapOutcome
  <2>2. Serves(v)' \in {Serves(v), 0}
    BY <2>1 DEF UnmapDiskFromTarget, backend, Serves
  <2> QED BY <1>0, <2>1, <2>2, GotoAt, ProvErrorAt DEF UnmapDiskFromTarget, backend
<1>2. CASE DeleteVolumeDisk(v)
  <2>1. \/ DeleteVirtualDiskHalfway(v) /\ ProvError(v)
        \/ Outcome(DeleteVirtualDisk(v), Goto(v, "delTarget", v, 0), ProvError(v))
    BY <1>0, <1>2, DelDiskOutcome
  <2>2. Serves(v)' \in {Serves(v), 0}
    BY <1>0, <2>1 DEF DeleteVirtualDisk, DeleteVirtualDiskHalfway, backend, Serves
  <2> QED BY <1>0, <2>1, <2>2, GotoAt, ProvErrorAt
          DEF DeleteVirtualDisk, DeleteVirtualDiskHalfway, backend
<1>3. CASE DeleteVolumeTarget(v)
  <2>1. Outcome(LunMappings(v) = {} /\ DeleteTarget(v), Deleted(v), ProvError(v))
    BY <1>0, <1>3, DelTargetOutcome
  <2>2. CASE UNCHANGED backend /\ ProvError(v)
    <3>1. Serves(v)' = Serves(v) BY <2>2 DEF backend, Serves
    <3> QED BY <1>0, <2>2, <3>1, ProvErrorAt DEF backend
  <2>3. CASE LunMappings(v) = {} /\ DeleteTarget(v) /\ (Deleted(v) \/ ProvError(v))
    <3>1. Serves(v) = 0 /\ Serves(v)' = 0
      BY <2>3 DEF DeleteTarget, Serves, LunMappings
    <3>2. allowed'[v] = {} /\ vhdx' = vhdx /\ size' = size
      BY <1>0, <2>3 DEF DeleteTarget
    <3> QED BY <1>0, <2>3, <3>1, <3>2, DeletedAt, ProvErrorAt
  <2> QED BY <2>1, <2>2, <2>3
<1>4. ~(\/ CreateVolumeExport(v) \/ CreateVolumeLookup(v) \/ CreateVolumeReuse(v) \/ CreateVolumeRemap(v)
        \/ CreateVolumeDisk(v) \/ CreateVolumeTarget(v) \/ CreateVolumeChap(v) \/ CreateVolumeMap(v)
        \/ CreateVolumeInfo(v))
  BY DEF CreateVolumeExport, CreateVolumeLookup, CreateVolumeReuse, CreateVolumeRemap,
         CreateVolumeDisk, CreateVolumeTarget, CreateVolumeChap, CreateVolumeMap, CreateVolumeInfo
<1> QED BY <1>1, <1>2, <1>3, <1>4 DEF Provisioner

(* The attacher touches nothing but access and CHAP. *)
LEMMA AttachSteps ==
    ASSUME TypeOK, MaxLate = 0, late = {}, NEW v \in Volume, Attacher(v)
    PROVE  UNCHANGED <<vhdx, size, target, maps, prov, vol>>
BY PublishChapOutcome, AllowReadOutcome, AllowWriteOutcome, DenyReadOutcome, DenyWriteOutcome
DEF Attacher, Outcome, ConfigureTargetChap, SetInitiatorIds, backend, AttGoto, AttError, AttDone

(* A caller's step changes nothing on the server. *)
LEMMA CallerSteps ==
    ASSUME NEW v \in Volume,
           \/ \E src \in Source, want \in Size : CreateVolume(v, src, want)
           \/ CreatePV(v) \/ Rollback(v) \/ Forget(v) \/ DeleteVolume(v)
           \/ \E n \in Node : ControllerPublishVolume(v, n) \/ ControllerUnpublishVolume(v, n)
    PROVE  UNCHANGED backend /\ Serves(v)' = Serves(v)
<1>1. UNCHANGED backend
  BY DEF CreateVolume, CreatePV, Rollback, Forget, DeleteVolume,
     ControllerPublishVolume, ControllerUnpublishVolume, AttBegin
<1> QED BY <1>1 DEF backend, Serves

-----------------------------------------------------------------------------
(* The additions to the invariant are kept by the volume a step is for. *)
LEMMA ShownKeeps ==
    ASSUME TypeOK, MaxLate = 0, DisksAgree, NEW v \in Volume, ShownInv(v),
           \/ Provisioner(v) \/ Attacher(v)
           \/ \E src \in Source, want \in Size : CreateVolume(v, src, want)
           \/ CreatePV(v) \/ Rollback(v) \/ Forget(v) \/ DeleteVolume(v)
           \/ \E n \in Node : ControllerPublishVolume(v, n) \/ ControllerUnpublishVolume(v, n)
    PROVE  ShownInv(v)'
<1>0. late = {} /\ v \in Path /\ vhdx \in [Path -> {"absent", "disk", "file"}]
      /\ size \in [Path -> Size \cup {0}] /\ prov[v].pc \in {"idle"} \cup Creating \cup Deleting
  BY DEF DisksAgree, CallsAgree, TypeOK, BackendTypeOK, Path, Call, ProvPC, Creating, Deleting
<1>1. CASE Provisioner(v) /\ prov[v].pc \in Creating
  <2>1. att' = att /\ (prov'[v].pc \in Creating => prov'[v].req = prov[v].req)
    BY <1>1, CreateSteps DEF Creating
  <2>2. vhdx'[v] = "disk" => size'[v] \in Size
    BY <1>0, <1>1, CreateSteps DEF CreateVirtualDisk, ShownInv
  <2> QED BY <1>1, <2>1, <2>2 DEF ShownInv
<1>2. CASE Provisioner(v) /\ prov[v].pc \in Deleting
  BY <1>2, DeleteSteps DEF ShownInv
<1>3. CASE Provisioner(v) /\ prov[v].pc = "idle"
  BY <1>3 DEF Provisioner, CreateVolumeExport, CreateVolumeLookup, CreateVolumeReuse,
     CreateVolumeRemap, CreateVolumeDisk, CreateVolumeTarget, CreateVolumeChap, CreateVolumeMap,
     CreateVolumeInfo, DeleteVolumeUnmap, DeleteVolumeDisk, DeleteVolumeTarget
<1>4. CASE Attacher(v)
  <2>1. UNCHANGED <<vhdx, size, prov>> BY <1>0, <1>4, AttachSteps
  <2>2. att'[v].pc = "idle" => att'[v].nodes = {}
    <3>1. \/ AttGoto(v, "allow", {}) \/ AttGoto(v, "allowSet", allowed[v])
          \/ AttGoto(v, "denySet", allowed[v]) \/ AttError(v)
          \/ AttDone(v, "granted") \/ AttDone(v, "revoked")
      BY <1>0, <1>4, PublishChapOutcome, AllowReadOutcome, AllowWriteOutcome, DenyReadOutcome,
         DenyWriteOutcome DEF Attacher, Outcome
    <3> QED BY <3>1, AttGotoAt, AttErrorAt, AttDoneAt
  <2> QED BY <2>1, <2>2 DEF ShownInv
<1>5. CASE \E src \in Source, want \in Size : CreateVolume(v, src, want)
  BY <1>5 DEF CreateVolume, NewCall, ShownInv, backend, TypeOK
<1>6. CASE CreatePV(v) \/ Rollback(v) \/ Forget(v) \/ DeleteVolume(v)
  BY <1>6 DEF CreatePV, Rollback, Forget, DeleteVolume, NewCall, ToDelete, ShownInv, backend, TypeOK, Creating
<1>7. CASE \E n \in Node : ControllerPublishVolume(v, n) \/ ControllerUnpublishVolume(v, n)
  BY <1>7 DEF ControllerPublishVolume, ControllerUnpublishVolume, AttBegin, ShownInv, backend, TypeOK
<1> QED BY <1>0, <1>1, <1>2, <1>3, <1>4, <1>5, <1>6, <1>7

(* A step of a provisioner call shows as an attempt, as the answer or as a  *)
(* step of the removal.                                                     *)
LEMMA ProvisionerShows ==
    ASSUME TypeOK, TypeOK', MaxLate = 0, DisksAgree, DisksAgree', Shown, Shown',
           NEW v \in Volume, Provisioner(v), Shows(v)
    PROVE  Abstract!Next \/ UNCHANGED Abstract!vars
<1>0. /\ PhaseOK(v) /\ PhaseOK(v)' /\ prov[v].pc \in {"idle"} \cup Creating \cup Deleting
      /\ Serves(v)' \in Size \cup {0}
  <2>1. Mapped /\ Mapped' BY MappedNow, MappedNext
  <2>2. Serves(v)' \in Size \cup {0} BY DEF Serves, TypeOK, BackendTypeOK, Path
  <2> QED BY <2>1, <2>2 DEF Mapped, TypeOK, Call, ProvPC, Creating, Deleting
<1>1. CASE prov[v].pc \in Creating
  <2>1. UNCHANGED <<att, grant, allowed>> /\ vol[v] = "none"
    BY <1>1, CreateSteps
  <2>2. Asked(v)' = Asked(v) BY <2>1 DEF Asked
  <2>3. CASE vol'[v] = "none"
    BY <1>0, <2>1, <2>2, <2>3, ToAttempt DEF PhaseOK
  <2>4. CASE vol'[v] = "made" /\ ~prov'[v].req.roll
    <3>1. DiskInv(v)' /\ ShownInv(v)' /\ Answered(v)' BY <2>4 DEF DisksAgree, Shown, Answered
    <3>2. /\ [target |-> v, path |-> v, lun |-> 0] \in LunMappings(v)'
          /\ vhdx'[v] = "disk" /\ v \in target'
      BY <3>1 DEF DiskInv
    <3>3. Serves(v)' = size'[v] BY <3>2 DEF Serves, LunMappings
    <3>4. Serves(v)' \in Size BY <3>1, <3>2, <3>3 DEF ShownInv
    <3> QED BY <1>0, <2>1, <2>2, <2>4, <3>4, ToProvision DEF PhaseOK
  <2> QED BY <1>1, <2>3, <2>4, CreateSteps
<1>2. CASE prov[v].pc \in Deleting
  <2>1. UNCHANGED <<att, grant>> BY <1>2, DeleteSteps
  <2>2. Asked(v)' = Asked(v) BY <2>1 DEF Asked
  <2>3. CASE prov[v].req.roll
    BY <1>0, <1>2, <2>1, <2>2, <2>3, DeleteSteps, ToAttempt DEF PhaseOK
  <2>4. CASE ~prov[v].req.roll
    <3>1. /\ Phase(v) = "removing" /\ Phase(v)' \in {"removing", "removed"}
          /\ Phase(v)' = "removed" <=> vol'[v] = "gone"
      BY <1>0, <1>2, <2>4, DeleteSteps DEF PhaseOK
    <3>2. CASE Serves(v)' = Serves(v) /\ allowed'[v] = allowed[v] /\ vol'[v] # "gone"
      BY <2>1, <2>2, <3>1, <3>2, ToNothing
    <3>3. CASE Serves(v)' = 0 /\ allowed'[v] = allowed[v] /\ vol'[v] # "gone"
      BY <2>1, <2>2, <3>1, <3>3, ToRemove
    <3>4. CASE Serves(v) = 0 /\ Serves(v)' = 0 /\ allowed'[v] = {}
      BY <2>1, <2>2, <3>1, <3>4, ToRemove
    <3> QED BY <1>2, <3>2, <3>3, <3>4, DeleteSteps
  <2> QED BY <2>3, <2>4
<1>3. CASE prov[v].pc = "idle"
  BY <1>3 DEF Provisioner, CreateVolumeExport, CreateVolumeLookup, CreateVolumeReuse,
     CreateVolumeRemap, CreateVolumeDisk, CreateVolumeTarget, CreateVolumeChap, CreateVolumeMap,
     CreateVolumeInfo, DeleteVolumeUnmap, DeleteVolumeDisk, DeleteVolumeTarget
<1> QED BY <1>0, <1>1, <1>2, <1>3

(* A step of an attacher call shows as its effect, its answer or nothing:   *)
(* the list it writes is the one it read, with one node more or less.       *)
LEMMA AttacherShows ==
    ASSUME TypeOK, TypeOK', MaxLate = 0, DisksAgree, Shown, Shown',
           NEW v \in Volume, Attacher(v), Shows(v)
    PROVE  Abstract!Next \/ UNCHANGED Abstract!vars
<1>0. /\ late = {} /\ CallInv(v) /\ AccessInv(v) /\ PhaseOK(v) /\ AskedOK(v) /\ AskedOK(v)'
      /\ allowed \in [Volume -> SUBSET Node] /\ att[v].nodes \subseteq Node
      /\ grant[v] \in [Node -> {"unknown", "granted", "revoked"}]
  <2>1. Mapped /\ Mapped' BY MappedNow, MappedNext
  <2> QED BY <2>1 DEF Mapped, DisksAgree, CallsAgree, TypeOK, BackendTypeOK
<1>1. Phase(v)' = Phase(v) /\ Serves(v)' = Serves(v)
  <2>1. UNCHANGED <<vhdx, size, target, maps, prov, vol>> BY <1>0, AttachSteps
  <2>2. Phase(v)' = Phase(v) BY <2>1, Zenon DEF Phase
  <2> QED BY <2>1, <2>2 DEF Serves
<1>2. CASE ControllerPublishChap(v) \/ AllowInitiatorRead(v) \/ AllowInitiatorWrite(v)
  <2>1. /\ att[v].pc \in {"chap", "allow", "allowSet"}
        /\ Asked(v) = [want |-> "allow", nodes |-> att[v].nodes]
    BY <1>0, <1>2, PublishChapOutcome, AllowReadOutcome, AllowWriteOutcome DEF AskedOK
  <2>2. Asked(v) # Abstract!NoRequest /\ Asked(v).want = "allow" /\ Asked(v).nodes = att[v].nodes
    BY <2>1 DEF Abstract!NoRequest
  <2>3. /\ \/ allowed'[v] = allowed[v]
           \/ vol[v] # "gone" /\ allowed'[v] = allowed[v] \cup att[v].nodes
        /\ \/ AttGoto(v, "allow", {}) \/ AttGoto(v, "allowSet", allowed[v]) \/ AttError(v)
           \/ AttDone(v, "granted") /\ att[v].nodes \subseteq allowed'[v]
    <3>1. CASE ControllerPublishChap(v)
      BY <1>0, <3>1, PublishChapOutcome DEF Outcome, ConfigureTargetChap, backend
    <3>2. CASE AllowInitiatorRead(v)
      BY <1>0, <3>2, AllowReadOutcome DEF backend
    <3>3. CASE AllowInitiatorWrite(v)
      <4>1. att[v].pc = "allowSet"
            /\ Outcome(v \in target /\ SetInitiatorIds(v, att[v].seen \cup att[v].nodes),
                      AttDone(v, "granted"), AttError(v))
        BY <1>0, <3>3, AllowWriteOutcome
      <4>2. v \in target => att[v].seen = allowed[v] /\ vol[v] # "gone"
        BY <1>0, <4>1 DEF AccessInv, CallInv
      <4> QED BY <1>0, <4>1, <4>2 DEF Outcome, SetInitiatorIds, backend
    <3> QED BY <1>2, <3>1, <3>2, <3>3
  <2>4. CASE AttGoto(v, "allow", {}) \/ AttGoto(v, "allowSet", allowed[v])
    <3>1. att'[v].pc \in {"allow", "allowSet"} /\ att'[v].nodes = att[v].nodes /\ grant' = grant
      BY <2>4, AttGotoAt
    <3>2. Asked(v)' = Asked(v) BY <1>0, <2>1, <3>1 DEF AskedOK
    <3> QED BY <1>0, <1>1, <2>2, <2>3, <3>1, <3>2, ToAttach DEF PhaseOK
  <2>5. CASE AttError(v)
    <3>1. Asked(v)' = Abstract!NoRequest /\ grant' = grant BY <1>0, <2>5, AttErrorAt DEF AskedOK
    <3> QED BY <1>0, <1>1, <2>2, <2>3, <3>1, ToAttach DEF PhaseOK
  <2>6. CASE AttDone(v, "granted") /\ att[v].nodes \subseteq allowed'[v]
    <3>1. Asked(v)' = Abstract!NoRequest BY <1>0, <2>6, AttDoneAt DEF AskedOK
    <3>2. grant'[v] = [n \in Node |-> IF n \in att[v].nodes THEN "granted" ELSE grant[v][n]]
      BY <2>6 DEF AttDone, TypeOK
    <3> QED BY <1>0, <1>1, <2>2, <2>3, <2>6, <3>1, <3>2, ToAttach DEF PhaseOK
  <2> QED BY <2>3, <2>4, <2>5, <2>6
<1>3. CASE DenyInitiatorRead(v) \/ DenyInitiatorWrite(v)
  <2>1. /\ att[v].pc \in {"deny", "denySet"}
        /\ Asked(v) = [want |-> "deny", nodes |-> att[v].nodes]
    BY <1>0, <1>3, DenyReadOutcome, DenyWriteOutcome DEF AskedOK
  <2>2. Asked(v) # Abstract!NoRequest /\ Asked(v).want = "deny" /\ Asked(v).nodes = att[v].nodes
    BY <2>1 DEF Abstract!NoRequest
  <2>3. /\ \/ allowed'[v] = allowed[v]
           \/ allowed'[v] = allowed[v] \ att[v].nodes
        /\ \/ AttGoto(v, "denySet", allowed[v]) \/ AttError(v)
           \/ AttDone(v, "revoked") /\ att[v].nodes \cap allowed'[v] = {}
    <3>1. CASE DenyInitiatorRead(v)
      <4>1. UNCHANGED backend /\ (v \notin target => allowed[v] = {})
        BY <1>0, <3>1, DenyReadOutcome DEF CallInv
      <4> QED BY <1>0, <3>1, <4>1, DenyReadOutcome DEF backend
    <3>2. CASE DenyInitiatorWrite(v)
      <4>1. att[v].pc = "denySet"
            /\ Outcome(v \in target /\ SetInitiatorIds(v, att[v].seen \ att[v].nodes),
                      AttDone(v, "revoked"), AttError(v))
        BY <1>0, <3>2, DenyWriteOutcome
      <4>2. v \in target => att[v].seen = allowed[v]
        BY <1>0, <4>1 DEF AccessInv
      <4> QED BY <1>0, <4>1, <4>2 DEF Outcome, SetInitiatorIds, backend
    <3> QED BY <1>3, <3>1, <3>2
  <2>4. CASE AttGoto(v, "denySet", allowed[v])
    <3>1. att'[v].pc = "denySet" /\ att'[v].nodes = att[v].nodes /\ grant' = grant
      BY <2>4, AttGotoAt
    <3>2. Asked(v)' = Asked(v) BY <1>0, <2>1, <3>1 DEF AskedOK
    <3> QED BY <1>0, <1>1, <2>2, <2>3, <3>1, <3>2, ToAttach
  <2>5. CASE AttError(v)
    <3>1. Asked(v)' = Abstract!NoRequest /\ grant' = grant BY <1>0, <2>5, AttErrorAt DEF AskedOK
    <3> QED BY <1>0, <1>1, <2>2, <2>3, <3>1, ToAttach
  <2>6. CASE AttDone(v, "revoked") /\ att[v].nodes \cap allowed'[v] = {}
    <3>1. Asked(v)' = Abstract!NoRequest BY <1>0, <2>6, AttDoneAt DEF AskedOK
    <3>2. grant'[v] = [n \in Node |-> IF n \in att[v].nodes THEN "revoked" ELSE grant[v][n]]
      BY <2>6 DEF AttDone, TypeOK
    <3> QED BY <1>0, <1>1, <2>2, <2>3, <2>6, <3>1, <3>2, ToAttach
  <2> QED BY <2>3, <2>4, <2>5, <2>6
<1> QED BY <1>2, <1>3 DEF Attacher

(* A caller's step shows as a request, as the withdrawal of an answer or as *)
(* nothing.                                                                 *)
LEMMA CallerShows ==
    ASSUME TypeOK, TypeOK', DisksAgree, Shown, Shown', NEW v \in Volume, Shows(v),
           \/ \E src \in Source, want \in Size : CreateVolume(v, src, want)
           \/ CreatePV(v) \/ Rollback(v) \/ Forget(v) \/ DeleteVolume(v)
           \/ \E n \in Node : ControllerPublishVolume(v, n) \/ ControllerUnpublishVolume(v, n)
    PROVE  Abstract!Next \/ UNCHANGED Abstract!vars
<1>0. /\ CallInv(v) /\ AccessInv(v) /\ PhaseOK(v) /\ PhaseOK(v)' /\ AskedOK(v) /\ AskedOK(v)'
      /\ grant[v] \in [Node -> {"unknown", "granted", "revoked"}]
      /\ vol \in [Volume -> Life] /\ prov \in [Volume -> Call] /\ vol[v] \in Life
  <2>1. Mapped /\ Mapped' BY MappedNow, MappedNext
  <2> QED BY <2>1 DEF Mapped, DisksAgree, CallsAgree, TypeOK
<1>1. allowed' = allowed /\ Serves(v)' = Serves(v)
  BY CallerSteps DEF backend
<1>2. CASE \/ \E src \in Source, want \in Size : CreateVolume(v, src, want)
           \/ CreatePV(v) \/ Rollback(v) \/ Forget(v) \/ DeleteVolume(v)
  <2>1. att' = att /\ grant' = grant
    BY <1>2 DEF CreateVolume, CreatePV, Rollback, Forget, DeleteVolume
  <2>2. Asked(v)' = Asked(v) BY <2>1, Zenon DEF Asked
  <2>3. CASE (\E src \in Source, want \in Size : CreateVolume(v, src, want)) \/ CreatePV(v)
    <3>1. \/ vol[v] = "none" /\ vol'[v] = "none"
          \/ vol[v] = "made" /\ prov[v].pc = "idle" /\ vol'[v] = "bound"
      BY <1>0, <2>3 DEF CreateVolume, CreatePV
    <3>2. Phase(v)' = Phase(v)
      BY <1>0, <3>1 DEF PhaseOK, CallInv, Deleting
    <3> QED BY <1>1, <2>1, <2>2, <3>2, ToNothing
  <2>4. CASE Rollback(v) \/ Forget(v)
    <3>1. /\ vol[v] = "made" /\ prov[v].pc = "idle"
          /\ vol'[v] = "none" \/ (vol'[v] = "made" /\ prov'[v].req.roll)
      BY <1>0, <2>4 DEF Rollback, Forget, NewCall, ToDelete
    <3>2. Phase(v) = "provisioned" /\ Phase(v)' = "unprovisioned"
      BY <1>0, <3>1 DEF PhaseOK, CallInv, Deleting
    <3>3. allowed[v] = {} /\ Asked(v) = Abstract!NoRequest
      BY <1>0, <3>1 DEF AccessInv, AskedOK
    <3> QED BY <1>1, <2>1, <2>2, <3>2, <3>3, ToWithdraw
  <2>5. CASE DeleteVolume(v)
    <3>1. vol[v] \in {"bound", "doomed"} /\ vol'[v] = "doomed"
      BY <1>0, <2>5 DEF DeleteVolume
    <3>2. Phase(v) \in {"provisioned", "removing"} /\ Phase(v)' = "removing"
      BY <1>0, <3>1 DEF PhaseOK
    <3>3. CASE Phase(v) = "provisioned"
      BY <1>1, <2>1, <2>2, <3>2, <3>3, ToAskRemoval
    <3>4. CASE Phase(v) = "removing"
      BY <1>1, <2>1, <2>2, <3>2, <3>4, ToNothing
    <3> QED BY <3>2, <3>3, <3>4
  <2> QED BY <1>2, <2>3, <2>4, <2>5
<1>3. ASSUME NEW n \in Node, ControllerPublishVolume(v, n) \/ ControllerUnpublishVolume(v, n)
      PROVE  Abstract!Next
  <2>1. PICK pc \in {"chap", "allow", "deny"} : AttBegin(v, n, pc)
    BY <1>3 DEF ControllerPublishVolume, ControllerUnpublishVolume
  <2>2. /\ att[v].pc = "idle" /\ vol[v] \in {"bound", "doomed", "gone"}
        /\ att'[v].pc = pc /\ att'[v].nodes = {n} /\ vol' = vol /\ prov' = prov
    BY <2>1 DEF AttBegin, TypeOK
  <2>3. grant'[v] = [m \in Node |-> IF m \in {n} THEN "unknown" ELSE grant[v][m]]
    BY <1>0, <2>1 DEF AttBegin, TypeOK
  <2>4. Asked(v) = Abstract!NoRequest BY <1>0, <2>2 DEF AskedOK
  <2>5. Phase(v)' = Phase(v) BY <2>2, Zenon DEF Phase
  <2>6. Phase(v) # "unprovisioned" BY <1>0, <2>2 DEF PhaseOK
  <2>7. PICK want \in {"allow", "deny"} : Asked(v)' = [want |-> want, nodes |-> {n}]
    BY <1>0, <2>2 DEF AskedOK
  <2> QED BY <1>1, <2>3, <2>4, <2>5, <2>6, <2>7, ToAsk
<1> QED BY <1>2, <1>3

-----------------------------------------------------------------------------
(* Every step is for one volume, and keeps what the mapping rests on. *)
LEMMA ShownStep ==
    ASSUME TypeOK, TypeOK', MaxLate = 0, DisksAgree, DisksAgree', Shown, [Next]_vars
    PROVE  Shown' /\ (Abstract!Next \/ UNCHANGED Abstract!vars)
<1>0. CallsAgree /\ late = {} BY DEF DisksAgree, CallsAgree
<1>1. ASSUME NEW v \in Volume, Keeps(v), ShownInv(v)' PROVE Shown' /\ Shows(v)
  <2>1. \A w \in Volume \ {v} : Frame(w)
    BY <1>0, <1>1, OthersKeep DEF Keeps, CallsAgree
  <2>2. \A w \in Volume \ {v} : ShownInv(w)'
    BY <2>1 DEF Frame, Shown, ShownInv
  <2> QED BY <1>1, <2>1, <2>2, FrameShows DEF Shown
<1>2. ASSUME NEW v \in Volume, Provisioner(v)
      PROVE  Shown' /\ (Abstract!Next \/ UNCHANGED Abstract!vars)
  <2>1. Keeps(v) BY <1>0, <1>2, CreateTargetKeeps, DiskStepKeeps DEF Provisioner
  <2>2. Shown' /\ Shows(v) BY <1>1, <1>2, <2>1, ShownKeeps DEF Shown
  <2> QED BY <1>2, <2>2, ProvisionerShows
<1>3. ASSUME NEW v \in Volume, Attacher(v)
      PROVE  Shown' /\ (Abstract!Next \/ UNCHANGED Abstract!vars)
  <2>1. Shown' /\ Shows(v) BY <1>0, <1>1, <1>3, AttacherKeeps, ShownKeeps DEF Shown
  <2> QED BY <1>3, <2>1, AttacherShows
<1>4. ASSUME NEW v \in Volume,
             \/ \E src \in Source, want \in Size : CreateVolume(v, src, want)
             \/ CreatePV(v) \/ Rollback(v) \/ Forget(v) \/ DeleteVolume(v)
             \/ \E n \in Node : ControllerPublishVolume(v, n) \/ ControllerUnpublishVolume(v, n)
      PROVE  Shown' /\ (Abstract!Next \/ UNCHANGED Abstract!vars)
  <2>1. Shown' /\ Shows(v) BY <1>0, <1>1, <1>4, CallerKeeps, ShownKeeps DEF Shown
  <2> QED BY <1>4, <2>1, CallerShows
<1>5. ~LateScript BY <1>0 DEF LateScript
<1>6. CASE UNCHANGED vars
  <2>1. Shown' BY <1>6 DEF vars, calls, backend, Shown, ShownInv
  <2>2. \A v \in Volume : Phase(v)' = Phase(v) /\ Serves(v)' = Serves(v) /\ Asked(v)' = Asked(v)
    <3>1. \A w \in Volume : Frame(w)
      BY <1>6 DEF vars, calls, backend, Frame, LunMappings, MappingsOf
    <3> QED BY <3>1, FrameHides
  <2>3. phase' = phase
    <3>1. phase = [w \in Volume |-> Phase(w)] /\ phase' = [w \in Volume |-> Phase(w)'] BY DEF phase
    <3> QED BY <2>2, <3>1
  <2>4. serves' = serves
    <3>1. serves = [w \in Volume |-> Serves(w)] /\ serves' = [w \in Volume |-> Serves(w)'] BY DEF serves
    <3> QED BY <2>2, <3>1
  <2>5. asked' = asked
    <3>1. asked = [w \in Volume |-> Asked(w)] /\ asked' = [w \in Volume |-> Asked(w)'] BY DEF asked
    <3> QED BY <2>2, <3>1
  <2> QED BY <1>6, <2>1, <2>3, <2>4, <2>5 DEF Abstract!vars, vars, calls, backend
<1> QED BY <1>2, <1>3, <1>4, <1>5, <1>6 DEF Next

(* The initial states map to the initial state. *)
LEMMA ShownInit == Init => Shown /\ Abstract!Init
<1> SUFFICES ASSUME Init PROVE Shown /\ Abstract!Init OBVIOUS
<1>1. \A v \in Volume : /\ vol[v] = "none" /\ att[v].pc = "idle" /\ att[v].nodes = {}
                        /\ prov[v].pc = "idle" /\ vhdx[v] = "absent"
  BY DEF Init, BackendInit, NoCall, NewCall, NoAttach, Path
<1>2. Shown BY <1>1 DEF Shown, ShownInv, Creating
<1>3. \A v \in Volume : Phase(v) = "unprovisioned" BY <1>1, Zenon DEF Phase
<1>4. \A v \in Volume : Asked(v) = [want |-> "nothing", nodes |-> {}] BY <1>1, Zenon DEF Asked
<1>5. \A v \in Volume : Serves(v) = 0 BY <1>1 DEF Serves
<1>6. phase = [v \in Volume |-> "unprovisioned"] BY <1>3 DEF phase
<1>7. serves = [v \in Volume |-> 0] BY <1>5 DEF serves
<1>8. asked = [v \in Volume |-> Abstract!NoRequest] BY <1>4 DEF asked, Abstract!NoRequest
<1> QED BY <1>2, <1>6, <1>7, <1>8 DEF Abstract!Init, Init, BackendInit

(* Without content sources and abandoned scripts the RPCs of ControllerServer *)
(* keep the promises of AbstractVolume: each backend call of each retried     *)
(* sequence, with or without its effect, shows as one permitted step of one   *)
(* volume or as none.                                                         *)
THEOREM Implements ==
    ASSUME MaxLate = 0, Source = {"empty"}
    PROVE  Spec => ImplementsAbstractVolume
<1>1. Init => Shown /\ Abstract!Init BY ShownInit
<1>2. TypeOK /\ TypeOK' /\ DisksAgree /\ DisksAgree' /\ Shown /\ [Next]_vars
         => Shown' /\ [Abstract!Next]_(Abstract!vars)
  BY ShownStep
<1> QED BY <1>1, <1>2, TypeCorrect, DisksAgreeInvariant, PTL
        DEF Spec, ImplementsAbstractVolume, Abstract!Spec
=============================================================================
