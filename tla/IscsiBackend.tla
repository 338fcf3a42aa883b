---------------------------- MODULE IscsiBackend ----------------------------
(***************************************************************************)
(* The Windows iSCSI target server as the driver sees it through           *)
(* backend_winrm.go.  Every method of WinRMBackend is one PowerShell       *)
(* script; an operator below says when the script throws and another what  *)
(* it changes when it runs to its end.  The cmdlets themselves are         *)
(* external: their effect is taken from how the scripts use them.          *)
(*                                                                         *)
(* A volume name stands for its target name and for the path of its own    *)
(* VHDX, which are both functions of it (iscsiTargetForVolume, and         *)
(* "<parentDir>\<name>.vhdx" in CreateVirtualDisk and GetVolumeByName).    *)
(* Export holds the paths Windows gives to disks exported from snapshots.  *)
(***************************************************************************)
EXTENDS Naturals, FiniteSets

CONSTANTS
    Volume,     \* volume names
    Node,       \* initiator IQNs of the nodes
    Export,     \* paths available to exported snapshots
    Size        \* capacities a volume can be asked for

ASSUME PathAssumption == Volume \cap Export = {}
ASSUME SizeAssumption == Size \subseteq Nat \ {0}

VARIABLES
    vhdx,       \* vhdx[p]: "absent", "disk" (registered) or "file" (left over)
    size,       \* size[p]: capacity of the virtual disk at p, 0 when absent
    target,     \* the iSCSI server targets that exist
    maps,       \* the LunMappings of all targets
    allowed,    \* allowed[t]: InitiatorIds of target t
    chap        \* the targets with EnableChap set

backend == <<vhdx, size, target, maps, allowed, chap>>

Path == Volume \cup Export

(* LUN 1 stands for every LUN but the first: the driver knows only LUN 0. *)
Lun == {0, 1}
Mapping == [target : Volume, path : Path, lun : Lun]

BackendTypeOK ==
    /\ vhdx \in [Path -> {"absent", "disk", "file"}]
    /\ size \in [Path -> Size \cup {0}]
    /\ target \subseteq Volume
    /\ maps \subseteq Mapping
    /\ allowed \in [Volume -> SUBSET Node]
    /\ chap \subseteq Volume

BackendInit ==
    /\ vhdx = [p \in Path |-> "absent"]
    /\ size = [p \in Path |-> 0]
    /\ target = {}
    /\ maps = {}
    /\ allowed = [t \in Volume |-> {}]
    /\ chap = {}

-----------------------------------------------------------------------------
(* Get-MappedIscsiTargets: the mappings of the disk at p. *)
MappingsOf(p) == {m \in maps : m.path = p}

(* $target.LunMappings. *)
LunMappings(t) == {m \in maps : m.target = t}

IsMapped(t, p) == \E m \in maps : m.target = t /\ m.path = p

(* Add-IscsiVirtualDiskTargetMapping takes the first LUN that is free. *)
NextLun(t) == IF \E m \in LunMappings(t) : m.lun = 0 THEN 1 ELSE 0

-----------------------------------------------------------------------------
(* A script on its way to Windows: the method and the arguments it uses. *)
Op == {"EnsureTarget", "ConfigureTargetChap", "CreateVirtualDisk",
       "MapDiskToTarget", "UnmapDiskFromTarget", "DeleteVirtualDisk",
       "DeleteTarget", "GetVolumeByName", "GetVolumeInfo",
       "ExportSnapshotAsVirtualDisk", "GetIscsiServerTarget",
       "AllowInitiator", "DenyInitiator", "SetInitiatorIds"}

ReadOnly == {"GetVolumeByName", "GetVolumeInfo", "GetIscsiServerTarget"}

Script == [op : Op, vol : Volume, path : Path, bytes : Size \cup {0},
           iqns : SUBSET Node]

OnTarget(op, t) == [op |-> op, vol |-> t, path |-> t, bytes |-> 0, iqns |-> {}]
OnDisk(op, t, p, b) == [op |-> op, vol |-> t, path |-> p, bytes |-> b, iqns |-> {}]
OnInitiators(op, t, s) == [op |-> op, vol |-> t, path |-> t, bytes |-> 0, iqns |-> s]

(* A mistake the runs must notice: a script of DeleteVolume that insists on *)
(* finding the disk.                                                        *)
ThrowsOnAbsent(s) ==
    \/ s.op \in {"CreateVirtualDisk", "GetVolumeByName"} /\ vhdx[s.path] = "file"
    \/ s.op \in {"ConfigureTargetChap", "SetInitiatorIds", "AllowInitiator",
                 "GetIscsiServerTarget"} /\ s.vol \notin target
    \/ s.op = "MapDiskToTarget" /\ (vhdx[s.path] # "disk" \/ s.vol \notin target)
    \/ s.op = "DeleteVirtualDisk" /\ (MappingsOf(s.path) # {} \/ vhdx[s.path] = "absent")
    \/ s.op = "DeleteTarget" /\ LunMappings(s.vol) # {}

(***************************************************************************)
(* When a script throws ($ErrorActionPreference is 'Stop').  A VHDX file   *)
(* that is not registered makes Get-IscsiVirtualDisk throw in every script *)
(* that looks at it; Set-IscsiServerTarget and the mapping cmdlet need the *)
(* target; a mapped virtual disk cannot be removed (hence "Unmap before    *)
(* deleting the backing VHDX"); DeleteTarget checks the mappings itself.   *)
(***************************************************************************)
Throws(s) ==
    \/ s.op \in {"CreateVirtualDisk", "GetVolumeByName"} /\ vhdx[s.path] = "file"
    \/ s.op \in {"ConfigureTargetChap", "SetInitiatorIds", "AllowInitiator",
                 "GetIscsiServerTarget"} /\ s.vol \notin target
    \/ s.op = "MapDiskToTarget" /\ (vhdx[s.path] # "disk" \/ s.vol \notin target)
    \/ s.op = "GetVolumeInfo" /\ vhdx[s.path] = "file"
    \/ s.op = "DeleteVirtualDisk" /\ MappingsOf(s.path) # {}
    \/ s.op = "DeleteTarget" /\ LunMappings(s.vol) # {}
    \/ s.op = "ExportSnapshotAsVirtualDisk" /\ vhdx[s.path] # "absent"

EnsureTarget(t) ==
    /\ target' = target \cup {t}
    /\ UNCHANGED <<vhdx, size, maps, allowed, chap>>

ConfigureTargetChap(t) ==
    /\ chap' = chap \cup {t}
    /\ UNCHANGED <<vhdx, size, target, maps, allowed>>

(* A mistake the runs must notice: the capacity is rounded up. *)
CreateVirtualDiskRounded(p, b) ==
    /\ vhdx' = [vhdx EXCEPT ![p] = "disk"]
    /\ size' = [size EXCEPT ![p] = IF vhdx[p] = "absent" THEN b + 1 ELSE @]
    /\ UNCHANGED <<target, maps, allowed, chap>>

(* New-IscsiVirtualDisk only when the path does not exist. *)
CreateVirtualDisk(p, b) ==
    /\ vhdx' = [vhdx EXCEPT ![p] = "disk"]
    /\ size' = [size EXCEPT ![p] = IF vhdx[p] = "absent" THEN b ELSE @]
    /\ UNCHANGED <<target, maps, allowed, chap>>

MapDiskToTarget(t, p) ==
    /\ maps' = IF IsMapped(t, p) THEN maps
               ELSE maps \cup {[target |-> t, path |-> p, lun |-> NextLun(t)]}
    /\ UNCHANGED <<vhdx, size, target, allowed, chap>>

UnmapDiskFromTarget(t, p) ==
    /\ maps' = {m \in maps : ~(m.target = t /\ m.path = p)}
    /\ UNCHANGED <<vhdx, size, target, allowed, chap>>

(* Remove-IscsiVirtualDisk, then Remove-Item of the file. *)
DeleteVirtualDisk(p) ==
    /\ vhdx' = [vhdx EXCEPT ![p] = "absent"]
    /\ size' = [size EXCEPT ![p] = 0]
    /\ UNCHANGED <<target, maps, allowed, chap>>

(* Remove-IscsiVirtualDisk worked and Remove-Item did not. *)
DeleteVirtualDiskHalfway(p) ==
    /\ vhdx[p] = "disk" /\ MappingsOf(p) = {}
    /\ vhdx' = [vhdx EXCEPT ![p] = "file"]
    /\ UNCHANGED <<size, target, maps, allowed, chap>>

DeleteTarget(t) ==
    /\ target' = target \ {t}
    /\ allowed' = [allowed EXCEPT ![t] = {}]
    /\ chap' = chap \ {t}
    /\ UNCHANGED <<vhdx, size, maps>>

(* Set-IscsiServerTarget -InitiatorIds writes the whole list. *)
SetInitiatorIds(t, s) ==
    /\ allowed' = [allowed EXCEPT ![t] = s]
    /\ UNCHANGED <<vhdx, size, target, maps, chap>>

(* DenyInitiator does nothing when there is no such target. *)
DenyInitiator(t, s) == SetInitiatorIds(t, allowed[t] \ s)

Run(s) ==
    \/ s.op = "EnsureTarget" /\ EnsureTarget(s.vol)
    \/ s.op = "ConfigureTargetChap" /\ ConfigureTargetChap(s.vol)
    \/ s.op \in {"CreateVirtualDisk", "ExportSnapshotAsVirtualDisk"}
          /\ CreateVirtualDisk(s.path, s.bytes)
    \/ s.op = "MapDiskToTarget" /\ MapDiskToTarget(s.vol, s.path)
    \/ s.op = "UnmapDiskFromTarget" /\ UnmapDiskFromTarget(s.vol, s.path)
    \/ s.op = "DeleteVirtualDisk" /\ DeleteVirtualDisk(s.path)
    \/ s.op = "DeleteTarget" /\ DeleteTarget(s.vol)
    \/ s.op = "AllowInitiator" /\ SetInitiatorIds(s.vol, allowed[s.vol] \cup s.iqns)
    \/ s.op = "DenyInitiator" /\ DenyInitiator(s.vol, s.iqns)
    \/ s.op = "SetInitiatorIds" /\ SetInitiatorIds(s.vol, s.iqns)
    \/ s.op \in ReadOnly /\ UNCHANGED backend
=============================================================================
