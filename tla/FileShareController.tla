------------------------- MODULE FileShareController -------------------------
(***************************************************************************)
(* NFS and SMB volumes of the controller service: CreateVolume,            *)
(* DeleteVolume and ControllerExpandVolume of controllerserver.go over the *)
(* scripts of backend_fileshare.go.  The two protocols run the same        *)
(* scripts with other cmdlets, so a share here is either.                  *)
(*                                                                         *)
(* A volume is a directory that is shared, or a VHDX attached on the       *)
(* Windows server, mounted at the share path and shared there.  Creation,  *)
(* rollback and deletion come from one provisioner, one call per volume at *)
(* a time; expansion comes from a resizer of its own and runs beside them. *)
(* Windows goes on with a script that the driver has given up on, beside   *)
(* whatever is called next.                                                *)
(***************************************************************************)
EXTENDS Naturals, Sequences, Functions

CONSTANTS
    Volume,     \* volume names; also the path of a volume's own VHDX
    Export,     \* paths Windows exports snapshots to
    Kind,       \* what the StorageClasses ask for: "directory", "vhdx"
    Source,     \* content sources of the claims: "empty", "snapshot"
    MaxFaults   \* bound: calls that fail and restarts of the driver

ASSUME ExportAssumption == Volume \cap Export = {}
ASSUME NameAssumption == {"absent", "dir"} \cap (Volume \cup Export) = {}
ASSUME KindAssumption == Kind \subseteq {"directory", "vhdx"}
ASSUME SourceAssumption == Source \subseteq {"empty", "snapshot"}
ASSUME FaultAssumption == MaxFaults \in Nat

VARIABLES
    kind,       \* kind[v]: the share backend of v, for ever
    src,        \* src[v]: the content source of its claim, for ever
    win,        \* the Windows server
    vol,        \* vol[v]: what the provisioner knows of v
    id,         \* id[v]: the VHDX path in the volume ID of v
    prov,       \* prov[v]: the create or delete call in flight for v
    exp,        \* exp[v]: the expansion in flight for v
    beside,     \* volumes whose deletion began beside an expansion
    late,       \* scripts the driver gave up on and Windows still runs
    stale,      \* those that Windows ran at some time since the last
                \* CreateVolume or DeleteVolume of their volume began
    faults      \* failures so far

calls == <<vol, id, prov, exp, beside>>
vars == <<kind, src, win, calls, late, stale, faults>>

Path == Volume \cup Export

(***************************************************************************)
(* share: the volumes with an NFS or SMB share.  at[v]: what is at the     *)
(* share path: nothing, a plain directory, or the VHDX mounted on it.      *)
(* image: the VHDX files attached as disks.  vhdx[p]: a registered virtual *)
(* disk, or a file that is no longer one.  limit, json: the plain          *)
(* directories with a quota and those with .csi-volume.json in them; those *)
(* of a mounted VHDX are on its own file system, and go with it.           *)
(***************************************************************************)
Windows == [share : SUBSET Volume,
            at    : [Volume -> {"absent", "dir"} \cup Path],
            image : SUBSET Path,
            vhdx  : [Path -> {"absent", "disk", "file"}],
            limit : SUBSET Volume,
            json  : SUBSET Volume]

Life == {"none", "made", "bound", "doomed", "gone"}
PC == {"idle", "get", "lookup", "export", "create", "mount", "remount", "share",
       "limit", "unmount", "delDisk", "delShare"}
(***************************************************************************)
(* A script on its way to Windows: the method of WinRMBackend and the      *)
(* volume and VHDX it is about.                                            *)
(***************************************************************************)
ReadOnly == {"GetShare", "GetVolumeByName", "ResizeVirtualDisk"}
Making == {"ExportSnapshotAsVirtualDisk", "CreateVirtualDisk",
           "MountFileShareVirtualDisk", "CreateShare", "ResizeFileShare"}
Removing == {"UnmountFileShareVirtualDisk", "DeleteVirtualDisk", "DeleteShare"}
Script == [op : ReadOnly \cup Making \cup Removing, vol : Volume, path : Path]

Do(op, v, p) == [op |-> op, vol |-> v, path |-> p]

Call == [pc : PC, exists : BOOLEAN, path : Path, roll : BOOLEAN]

NewCall(pc, p, roll) == [pc |-> pc, exists |-> FALSE, path |-> p, roll |-> roll]
NoCall(v) == NewCall("idle", v, FALSE)

TypeOK ==
    /\ kind \in [Volume -> Kind] /\ src \in [Volume -> Source]
    /\ win \in Windows
    /\ vol \in [Volume -> Life] /\ id \in [Volume -> Path]
    /\ prov \in [Volume -> Call]
    /\ exp \in [Volume -> {"idle", "resize", "mount", "limit"}]
    /\ beside \subseteq Volume
    /\ late \subseteq Script /\ stale \subseteq Script
    /\ faults \in 0..MaxFaults

(* Directory-backed volumes from snapshots are refused before any script.  *)
Init ==
    /\ kind \in [Volume -> Kind] /\ src \in [Volume -> Source]
    /\ \A v \in Volume : kind[v] = "directory" => src[v] = "empty"
    /\ win = [share |-> {}, at |-> [v \in Volume |-> "absent"], image |-> {},
              vhdx |-> [p \in Path |-> "absent"], limit |-> {}, json |-> {}]
    /\ vol = [v \in Volume |-> "none"] /\ id = [v \in Volume |-> v]
    /\ prov = [v \in Volume |-> NoCall(v)]
    /\ exp = [v \in Volume |-> "idle"] /\ beside = {}
    /\ late = {} /\ stale = {}
    /\ faults = 0

-----------------------------------------------------------------------------
(***************************************************************************)
(* What a script does: how the server looks after each of its steps, and   *)
(* whether its last step throws.                                           *)
(***************************************************************************)
Steps(trace) == [trace |-> <<win>> \o trace, throws |-> FALSE]
Throw(trace) == [trace |-> <<win>> \o trace, throws |-> TRUE]

MakeDir(w, v) == IF w.at[v] = "absent" THEN [w EXCEPT !.at[v] = "dir"] ELSE w

(* A quota goes with its directory. *)
RemoveDir(w, v) ==
    [w EXCEPT !.at[v] = "absent", !.limit = @ \ {v}, !.json = @ \ {v}]

Mounted(w, v) == w.at[v] \in Path

(* Mount-CsiFileShareVirtualDisk: the directory, the disk image, the access *)
(* path.  A directory that is not empty, or shows another disk, cannot be   *)
(* taken.                                                                   *)
MountFileShareVirtualDisk(v, p) ==
    LET dir == MakeDir(win, v)
        attached == [dir EXCEPT !.image = @ \cup {p}]
    IN  CASE win.vhdx[p] = "absent" -> Throw(<<dir>>)
          [] win.vhdx[p] # "absent" /\ (dir.at[v] \notin {"dir", p} \/ v \in win.json) ->
               Throw(<<dir, attached>>)
          [] OTHER -> Steps(<<dir, attached, [attached EXCEPT !.at[v] = p]>>)

(* A mistake the runs must notice: an image that is not attached is an error. *)
UnmountAttachedOnly(v, p) ==
    LET freed == IF Mounted(win, v) THEN [win EXCEPT !.at[v] = "dir"] ELSE win
        detached == [freed EXCEPT !.image = @ \ {p}]
    IN  IF p \in win.image THEN Steps(<<freed, detached, RemoveDir(detached, v)>>)
        ELSE Throw(<<freed>>)

(* Dismount-CsiFileShareVirtualDisk: whatever is mounted at the path goes,  *)
(* the disk image p is detached, the directory is removed: without          *)
(* -Recurse, so that it has to be empty.                                    *)
UnmountFileShareVirtualDisk(v, p) ==
    LET freed == IF Mounted(win, v) THEN [win EXCEPT !.at[v] = "dir"] ELSE win
        detached == [freed EXCEPT !.image = @ \ {p}]
    IN  IF v \in win.json THEN Throw(<<freed, detached>>)
        ELSE Steps(<<freed, detached, RemoveDir(detached, v)>>)

(* A mistake the runs must notice: New-Item without -Force. *)
CreateShareAnew(v) ==
    IF win.at[v] = "absent" \/ kind[v] = "vhdx"
    THEN LET dir == MakeDir(win, v) IN Steps(<<dir, [dir EXCEPT !.share = @ \cup {v}]>>)
    ELSE Throw(<<>>)

CreateShare(v) ==
    LET dir == MakeDir(win, v)
    IN  Steps(<<dir, [dir EXCEPT !.share = @ \cup {v}]>>)

(* The quota and .csi-volume.json of a plain directory. *)
ResizeFileShare(v) ==
    LET dir == MakeDir(win, v)
        limited == [dir EXCEPT !.limit = @ \cup {v}]
    IN  IF Mounted(dir, v) THEN Steps(<<dir>>)
        ELSE Steps(<<dir, limited, [limited EXCEPT !.json = @ \cup {v}]>>)

(* DeleteNfsShare, DeleteSmbShare: the share, then the quota, then the     *)
(* directory and all in it, unless a disk is still mounted there.          *)
DeleteShare(v) ==
    LET unshared == [win EXCEPT !.share = @ \ {v}]
        unlimited == [unshared EXCEPT !.limit = @ \ {v}]
    IN  CASE win.at[v] = "absent" -> Steps(<<unshared>>)
          [] Mounted(win, v) -> Throw(<<unshared, unlimited>>)
          [] OTHER -> Steps(<<unshared, unlimited, RemoveDir(unlimited, v)>>)

(* New-IscsiVirtualDisk only when the path does not exist. *)
CreateVirtualDisk(p) ==
    IF win.vhdx[p] = "file" THEN Throw(<<>>) ELSE Steps(<<[win EXCEPT !.vhdx[p] = "disk"]>>)

ExportSnapshotAsVirtualDisk(p) ==
    IF win.vhdx[p] # "absent" THEN Throw(<<>>) ELSE Steps(<<[win EXCEPT !.vhdx[p] = "disk"]>>)

(* The disk is unregistered, then its file is removed, which Windows       *)
(* refuses while the image is attached.                                    *)
DeleteVirtualDisk(p) ==
    LET file == [win EXCEPT !.vhdx[p] = IF @ = "absent" THEN @ ELSE "file"]
    IN  IF p \in win.image THEN Throw(<<file>>)
        ELSE Steps(<<file, [file EXCEPT !.vhdx[p] = "absent"]>>)

(* GetVolumeByName and Resize-IscsiVirtualDisk throw at a file that is not *)
(* a registered disk.                                                      *)
GetVolumeByName(v) == IF win.vhdx[v] = "file" THEN Throw(<<>>) ELSE Steps(<<>>)
ResizeVirtualDisk(p) == IF win.vhdx[p] = "disk" THEN Steps(<<>>) ELSE Throw(<<>>)

Effect(s) ==
    CASE s.op = "GetShare" -> Steps(<<>>)
      [] s.op = "GetVolumeByName" -> GetVolumeByName(s.vol)
      [] s.op = "ResizeVirtualDisk" -> ResizeVirtualDisk(s.path)
      [] s.op = "ExportSnapshotAsVirtualDisk" -> ExportSnapshotAsVirtualDisk(s.path)
      [] s.op = "CreateVirtualDisk" -> CreateVirtualDisk(s.path)
      [] s.op = "MountFileShareVirtualDisk" -> MountFileShareVirtualDisk(s.vol, s.path)
      [] s.op = "UnmountFileShareVirtualDisk" -> UnmountFileShareVirtualDisk(s.vol, s.path)
      [] s.op = "DeleteVirtualDisk" -> DeleteVirtualDisk(s.path)
      [] s.op = "CreateShare" -> CreateShare(s.vol)
      [] s.op = "ResizeFileShare" -> ResizeFileShare(s.vol)
      [] s.op = "DeleteShare" -> DeleteShare(s.vol)

-----------------------------------------------------------------------------
Fault == faults < MaxFaults /\ faults' = faults + 1

(* How a script ends when nothing stops it, and where it can have got to. *)
End(e) == e.trace[Len(e.trace)]
Reach(e) == Range(e.trace)

(***************************************************************************)
(* runPS: the script comes to its end or throws; or the call fails and the *)
(* script has got anywhere; or the driver gives up on it (its context is   *)
(* done) and Windows goes on.                                              *)
(***************************************************************************)
RunPS(s, Answer, Error) ==
    \/ /\ win' = End(Effect(s)) /\ ~Effect(s).throws /\ Answer
       /\ UNCHANGED <<late, stale, faults>>
    \/ /\ win' = End(Effect(s)) /\ Effect(s).throws /\ Error
       /\ UNCHANGED <<late, stale, faults>>
    \/ /\ Fault /\ win' \in Reach(Effect(s)) /\ Error
       /\ UNCHANGED <<late, stale>>
    \/ /\ Fault /\ s.op \notin ReadOnly /\ Error
       /\ late' = late \cup {s} /\ stale' = stale \cup {s}
       /\ UNCHANGED win

(* A script the driver no longer waits for comes to its end, or throws. *)
LateScript(s) ==
    /\ s \in late
    /\ win' = End(Effect(s))
    /\ late' = late \ {s}
    /\ UNCHANGED <<kind, src, calls, stale, faults>>

(* What Windows has finished before a call begins is no concern of the call. *)
Begin(v) ==
    /\ stale' = {s \in stale : s.vol = v => s \in late}
    /\ UNCHANGED late

-----------------------------------------------------------------------------
Goto(v, pc, p, exists) ==
    /\ prov' = [prov EXCEPT ![v] =
                  [pc |-> pc, exists |-> exists, path |-> p, roll |-> prov[v].roll]]
    /\ UNCHANGED <<vol, id, exp, beside>>

(* A failed rollback is only logged: the claim is provisioned again. *)
Error(v) ==
    /\ prov' = [prov EXCEPT ![v] = NoCall(v)]
    /\ vol' = [vol EXCEPT ![v] = IF prov[v].roll THEN "none" ELSE @]
    /\ UNCHANGED <<id, exp, beside>>

(* A mistake the runs must notice: the answer names what GetNfsShare found  *)
(* at the share path.                                                       *)
CreatedFromShare(v, p) ==
    /\ prov' = [prov EXCEPT ![v] = NoCall(v)]
    /\ vol' = [vol EXCEPT ![v] = "made"]
    /\ id' = [id EXCEPT ![v] = win.at[v]]
    /\ UNCHANGED <<exp, beside>>

(* fileShareVolumeID: the answer names the VHDX behind the share. *)
Created(v, p) ==
    /\ prov' = [prov EXCEPT ![v] = NoCall(v)]
    /\ vol' = [vol EXCEPT ![v] = "made"]
    /\ id' = [id EXCEPT ![v] = p]
    /\ UNCHANGED <<exp, beside>>

Deleted(v) ==
    /\ prov' = [prov EXCEPT ![v] = NoCall(v)]
    /\ vol' = [vol EXCEPT ![v] = IF prov[v].roll THEN "none" ELSE "gone"]
    /\ UNCHANGED <<id, exp, beside>>

(* A path that nothing and nobody names. *)
FreeExport ==
    {p \in Export : /\ win.vhdx[p] = "absent"
                    /\ \A s \in late : s.path # p
                    /\ \A w \in Volume : p \notin {id[w], prov[w].path, win.at[w]}}

CreateVolume(v) ==
    /\ vol[v] = "none" /\ prov[v].pc = "idle"
    /\ src[v] = "snapshot" => FreeExport # {}
    /\ prov' = [prov EXCEPT ![v] = NewCall("get", v, FALSE)]
    /\ Begin(v)
    /\ UNCHANGED <<kind, src, win, vol, id, exp, beside, faults>>

(* GetNfsShare, GetSmbShare.  A directory that is shared is the answer. *)
CreateVolumeGet(v) ==
    /\ prov[v].pc = "get"
    /\ RunPS(Do("GetShare", v, v),
             CASE kind[v] = "vhdx" -> Goto(v, "lookup", v, v \in win.share)
               [] kind[v] = "directory" /\ v \in win.share -> Created(v, v)
               [] OTHER -> Goto(v, "share", v, FALSE),
             Error(v))

(* A mistake the runs must notice: a share that exists is taken as it is. *)
LookupTrusting(v) ==
    CASE ~prov[v].exists /\ src[v] = "snapshot" -> Goto(v, "export", v, FALSE)
      [] ~prov[v].exists /\ src[v] = "empty" ->
           Goto(v, IF win.vhdx[v] = "absent" THEN "create" ELSE "mount", v, FALSE)
      [] prov[v].exists /\ win.vhdx[v] = "absent" -> Error(v)
      [] OTHER -> Created(v, v)

(* A share without the VHDX of the volume's name is FailedPrecondition; a  *)
(* share with it is mounted again; without a share the VHDX is exported,   *)
(* made or taken as it is.                                                 *)
Lookup(v) ==
    CASE ~prov[v].exists /\ src[v] = "snapshot" -> Goto(v, "export", v, FALSE)
      [] ~prov[v].exists /\ src[v] = "empty" ->
           Goto(v, IF win.vhdx[v] = "absent" THEN "create" ELSE "mount", v, FALSE)
      [] prov[v].exists /\ win.vhdx[v] = "absent" -> Error(v)
      [] OTHER -> Goto(v, "remount", v, TRUE)

CreateVolumeLookup(v) ==
    /\ prov[v].pc = "lookup"
    /\ RunPS(Do("GetVolumeByName", v, v), Lookup(v), Error(v))

CreateVolumeExport(v) ==
    /\ prov[v].pc = "export"
    /\ \E p \in FreeExport : 
         RunPS(Do("ExportSnapshotAsVirtualDisk", v, p), Goto(v, "mount", p, FALSE), Error(v))

CreateVolumeDisk(v) ==
    /\ prov[v].pc = "create"
    /\ RunPS(Do("CreateVirtualDisk", v, v), Goto(v, "mount", v, FALSE), Error(v))

CreateVolumeMount(v) ==
    /\ prov[v].pc = "mount"
    /\ RunPS(Do("MountFileShareVirtualDisk", v, prov[v].path),
             Goto(v, "share", prov[v].path, FALSE), Error(v))

CreateVolumeRemount(v) ==
    /\ prov[v].pc = "remount"
    /\ RunPS(Do("MountFileShareVirtualDisk", v, v), Created(v, v), Error(v))

(* CreateNfsShare, CreateSmbShare: the share, then ResizeFileShare. *)
CreateVolumeShare(v) ==
    /\ prov[v].pc = "share"
    /\ RunPS(Do("CreateShare", v, prov[v].path), Goto(v, "limit", prov[v].path, FALSE), Error(v))

CreateVolumeLimit(v) ==
    /\ prov[v].pc = "limit"
    /\ RunPS(Do("ResizeFileShare", v, prov[v].path), Created(v, prov[v].path), Error(v))

-----------------------------------------------------------------------------
FirstDelete(v) == IF kind[v] = "vhdx" THEN "unmount" ELSE "delShare"

CreatePV(v) ==
    /\ vol[v] = "made" /\ prov[v].pc = "idle"
    /\ vol' = [vol EXCEPT ![v] = "bound"]
    /\ UNCHANGED <<kind, src, win, id, prov, exp, beside, late, stale, faults>>

(* The PV cannot be stored: DeleteVolume takes the volume back. *)
Rollback(v) ==
    /\ vol[v] = "made" /\ prov[v].pc = "idle" /\ Fault
    /\ prov' = [prov EXCEPT ![v] = NewCall(FirstDelete(v), id[v], TRUE)]
    /\ Begin(v)
    /\ UNCHANGED <<kind, src, win, vol, id, exp, beside>>

DeleteVolume(v) ==
    /\ vol[v] \in {"bound", "doomed"} /\ prov[v].pc = "idle"
    /\ vol' = [vol EXCEPT ![v] = "doomed"]
    /\ prov' = [prov EXCEPT ![v] = NewCall(FirstDelete(v), id[v], FALSE)]
    /\ beside' = IF exp[v] = "idle" THEN beside ELSE beside \cup {v}
    /\ Begin(v)
    /\ UNCHANGED <<kind, src, win, id, exp, faults>>

DeleteVolumeUnmount(v) ==
    /\ prov[v].pc = "unmount"
    /\ RunPS(Do("UnmountFileShareVirtualDisk", v, prov[v].path),
             Goto(v, "delDisk", prov[v].path, FALSE), Error(v))

DeleteVolumeDisk(v) ==
    /\ prov[v].pc = "delDisk"
    /\ RunPS(Do("DeleteVirtualDisk", v, prov[v].path),
             Goto(v, "delShare", prov[v].path, FALSE), Error(v))

(* A mistake the runs must notice: the error of the last step is dropped. *)
DeleteVolumeShareUnchecked(v) ==
    /\ prov[v].pc = "delShare"
    /\ RunPS(Do("DeleteShare", v, prov[v].path), Deleted(v), Deleted(v))

DeleteVolumeShare(v) ==
    /\ prov[v].pc = "delShare"
    /\ RunPS(Do("DeleteShare", v, prov[v].path), Deleted(v), Error(v))

-----------------------------------------------------------------------------
ExpGoto(v, pc) ==
    /\ exp' = [exp EXCEPT ![v] = pc]
    /\ UNCHANGED <<vol, id, prov, beside>>

ControllerExpandVolume(v) ==
    /\ vol[v] = "bound" /\ exp[v] = "idle"
    /\ ExpGoto(v, IF kind[v] = "vhdx" THEN "resize" ELSE "limit")
    /\ UNCHANGED <<kind, src, win, late, stale, faults>>

ExpandDisk(v) ==
    /\ exp[v] = "resize"
    /\ RunPS(Do("ResizeVirtualDisk", v, id[v]), ExpGoto(v, "mount"), ExpGoto(v, "idle"))

ExpandMount(v) ==
    /\ exp[v] = "mount"
    /\ RunPS(Do("MountFileShareVirtualDisk", v, id[v]), ExpGoto(v, "idle"), ExpGoto(v, "idle"))

ExpandLimit(v) ==
    /\ exp[v] = "limit"
    /\ RunPS(Do("ResizeFileShare", v, id[v]), ExpGoto(v, "idle"), ExpGoto(v, "idle"))

(* The driver is restarted: the calls and an answer without a PV are lost. *)
Restart ==
    /\ Fault
    /\ prov' = [v \in Volume |-> NoCall(v)] /\ exp' = [v \in Volume |-> "idle"]
    /\ vol' = [v \in Volume |-> IF vol[v] = "made" THEN "none" ELSE vol[v]]
    /\ UNCHANGED <<kind, src, win, id, beside, late, stale>>

-----------------------------------------------------------------------------
Provisioner(v) ==
    /\ UNCHANGED <<kind, src>>
    /\ \/ CreateVolumeGet(v) \/ CreateVolumeLookup(v) \/ CreateVolumeExport(v)
       \/ CreateVolumeDisk(v) \/ CreateVolumeMount(v) \/ CreateVolumeRemount(v)
       \/ CreateVolumeShare(v) \/ CreateVolumeLimit(v)
       \/ DeleteVolumeUnmount(v) \/ DeleteVolumeDisk(v) \/ DeleteVolumeShare(v)

Resizer(v) ==
    /\ UNCHANGED <<kind, src>>
    /\ ExpandDisk(v) \/ ExpandMount(v) \/ ExpandLimit(v)

Next ==
    \/ \E v \in Volume :
         \/ CreateVolume(v) \/ CreatePV(v) \/ Rollback(v) \/ DeleteVolume(v)
         \/ ControllerExpandVolume(v)
         \/ Provisioner(v) \/ Resizer(v)
    \/ \E s \in late : LateScript(s)
    \/ Restart

Spec == Init /\ [][Next]_vars

(* Claims and deletions are retried by the provisioner's workqueues; nobody *)
(* has to delete or to expand a volume.                                     *)
Fairness ==
    \A v \in Volume :
       /\ WF_vars(Provisioner(v)) /\ WF_vars(Resizer(v))
       /\ WF_vars(CreateVolume(v)) /\ WF_vars(CreatePV(v))
       /\ WF_vars(vol[v] = "doomed" /\ DeleteVolume(v))

FairSpec == Spec /\ Fairness

-----------------------------------------------------------------------------
(* Windows was or is running a script of ops for v on its own since the     *)
(* last CreateVolume or DeleteVolume of v began.                            *)
Haunted(v, ops) == \E s \in stale : s.vol = v /\ s.op \in ops

(***************************************************************************)
(* What CreateVolume answers is true and stays true until it is undone,    *)
(* whatever earlier attempts and half-done rollbacks left behind: the      *)
(* volume is shared, and the share shows its directory, or the VHDX that   *)
(* its volume ID names, registered and attached, and never a plain         *)
(* directory on the server's own disk in its place.  Only a removing       *)
(* script of an earlier rollback, given up on and still running when the   *)
(* CreateVolume began, can break it (backend_winrm.go, runPS).             *)
(***************************************************************************)
ShareIsServed ==
    \A v \in Volume :
       vol[v] \in {"made", "bound"} /\ ~prov[v].roll /\ ~Haunted(v, Removing) =>
          /\ v \in win.share
          /\ kind[v] = "directory" => win.at[v] = "dir"
          /\ kind[v] = "vhdx" =>
               /\ win.at[v] = id[v] /\ id[v] \in win.image /\ win.vhdx[id[v]] = "disk"

(***************************************************************************)
(* "The NFS share and quota are removed, the mounted VHDX access path is   *)
(* removed, the VHDX is dismounted, and the VHDX file is deleted"          *)
(* (README.md), SMB alike: when DeleteVolume succeeds, after attempts that *)
(* failed anywhere and beside an expansion that mounts the VHDX again,     *)
(* there is no share and no VHDX, attached or as a file.  Only an          *)
(* expansion that was in flight can leave a directory and its quota, and   *)
(* only a script of a CreateVolume or an expansion, given up on and still  *)
(* running when this DeleteVolume began or given up on since, can make     *)
(* anything else again.                                                    *)
(***************************************************************************)
ShareIsGone ==
    \A v \in Volume : vol[v] = "gone" /\ ~Haunted(v, Making) =>
       /\ v \notin win.share
       /\ kind[v] = "vhdx" => id[v] \notin win.image /\ win.vhdx[id[v]] = "absent"
       /\ ~Mounted(win, v)
       /\ v \notin beside => win.at[v] = "absent" /\ v \notin win.limit

(* .csi-volume.json in the plain directory of a VHDX-backed volume, where   *)
(* only a ResizeFileShare that was given up on can put it.                  *)
Littered(v) == kind[v] = "vhdx" /\ v \in win.json

(* Once DeleteVolume has been called, its retries get to the end wherever   *)
(* the earlier ones stopped, also when an expansion or a script that was    *)
(* given up on attaches the VHDX again between two of its steps; only a     *)
(* directory that is not empty stops Dismount-CsiFileShareVirtualDisk.      *)
DeleteShareConverges ==
    \A v \in Volume :
       vol[v] = "doomed" ~> (vol[v] = "gone" \/ [](vol[v] = "doomed" /\ Littered(v)))

(* What no further CreateVolume gets past: a VHDX file a rollback has       *)
(* unregistered; a share without the VHDX of the volume's name; another     *)
(* export mounted at the share path; a share path that is not empty.        *)
Stuck(v) ==
    /\ kind[v] = "vhdx"
    /\ \/ win.vhdx[v] = "file"
       \/ v \in win.share /\ win.vhdx[v] = "absent"
       \/ win.at[v] \in Export
       \/ Littered(v)

(* A claim gets its share and PV whatever its failed attempts left behind,  *)
(* unless a half-done rollback or restore left what CreateVolume refuses;   *)
(* then it is refused for ever.                                             *)
ProvisionShareConverges ==
    \A v \in Volume :
       vol[v] = "none" ~> (vol[v] = "bound" \/ [](vol[v] = "none" /\ Stuck(v)))
=============================================================================
