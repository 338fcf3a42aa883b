------------------------------ MODULE Snapshots ------------------------------
(***************************************************************************)
(* The RPCs of controllerserver.go that find a volume by its ID:           *)
(* CreateSnapshot, DeleteSnapshot, ListSnapshots, CreateVolume from a      *)
(* snapshot, ControllerExpandVolume and DeleteVolume, for every protocol.  *)
(* Here creating, expanding and deleting a volume are single steps (their  *)
(* scripts are the subject of ControllerServer and FileShareController);   *)
(* what matters is which storage the ID leads to, and the scripts that     *)
(* take, find, remove and export snapshots.                                *)
(*                                                                         *)
(* The callers are external: a provisioner, a snapshotter and a resizer    *)
(* that use the gRPC service, one call per object at a time, made again    *)
(* until it succeeds.                                                      *)
(***************************************************************************)
EXTENDS VolumeId, FiniteSets

CONSTANTS
    Volume,     \* volume names
    Export,     \* paths Windows exports snapshots to
    Content,    \* snapshot names
    Claim,      \* Claim[v]: what the claim for v can ask for
    Imported,   \* Imported[v]: how v is served when an administrator imports it
    MaxSize,    \* bound: capacities, in half GiB
    MaxWrites,  \* bound: writes to a disk
    MaxFaults   \* bound: calls that fail

ClassType == [protocol : Protocol, shareBackend : {"", "directory", "vhdx"},
              host : HostText, portalPort : {0, 860}, mode : {"single", "multi"},
              auth : AuthText]

ClaimType == [class : ClassType, range : [required : 0..MaxSize, limit : 0..MaxSize],
              source : {"empty", "snapshot"}]

(* A GiB is two units; minGiB is 1. *)
Min == 2

(* The paths: "<vhdxParentPath>\<name>.vhdx", "<shareParentPath>\<name>". *)
VhdxOf(v) == v \o ".vhdx"
DirOf(v) == v \o "-dir"
Path == {VhdxOf(v) : v \in Volume} \cup Export

(* What Windows names the target of a volume. *)
IqnOf(v) == "iqn." \o v

ASSUME ClaimAssumption == \A v \in Volume : Claim[v] \subseteq ClaimType
ASSUME BoundAssumption == MaxSize \in Nat /\ MaxSize >= Min /\ MaxWrites \in Nat /\ MaxFaults \in Nat

(* Names are not empty, have no escapes ("pvc-<uid>"), and texts made of     *)
(* different names differ.                                                   *)
ASSUME NameAssumption ==
    /\ "" \notin Content /\ "" \notin Export
    /\ \A v \in Volume : /\ VhdxOf(v) \notin Export \cup {""} /\ DirOf(v) \notin Path \cup {""}
                         /\ {v, IqnOf(v)} \subseteq {n \in Name : Unescape(n) = n}
    /\ \A v, w \in Volume : VhdxOf(v) = VhdxOf(w) => v = w

VARIABLES
    disk,       \* disk[p]: size and data of the virtual disk at path p
    share,      \* the volumes with an NFS or SMB share
    snaps,      \* the snapshots on Windows
    pv,         \* pv[v]: the persistent volume as Kubernetes stores it
    content,    \* content[c]: the snapshot c as Kubernetes stores it
    late,       \* checkpoints and removals the driver no longer waits for
    clock,      \* the snapshots ever taken: CreationTime
    faults      \* failures so far

vars == <<disk, share, snaps, pv, content, late, clock, faults>>

NoDisk == [size |-> 0, data |-> 0]

NoVolume == [st |-> "none", id |-> PlainName, vc |-> NoContext, class |-> EmptyID,
             range |-> [required |-> 0, limit |-> 0], path |-> "", cap |-> 0, known |-> FALSE,
             base |-> "", born |-> 0]

(* from: the writes that were in the volume when the snapshot was first     *)
(* asked for; upto: when it was answered for.                               *)
NoSnapshot == [st |-> "none", vol |-> "", from |-> 0, upto |-> 0, id |-> 0, path |-> ""]

TypeOK ==
    /\ disk \in [Path -> [size : 0..MaxSize, data : 0..MaxWrites]]
    /\ share \subseteq Volume
    /\ snaps \subseteq [id : 1..clock, path : Path, description : Content,
                        size : 0..MaxSize, data : 0..MaxWrites, listed : BOOLEAN]
    /\ \A v \in Volume :
          /\ pv[v].st \in {"none", "bound", "gone"} /\ pv[v].path \in Path \cup {"", DirOf(v)}
          /\ pv[v].cap \in 0..MaxSize /\ pv[v].born \in 0..MaxWrites
    /\ \A c \in Content :
          /\ content[c].st \in {"none", "failed", "taking", "made", "doomed", "gone"}
          /\ content[c].id \in 0..clock
    /\ late \subseteq [op : {"checkpoint", "remove"}, content : Content, id : Nat]
    /\ clock \in Nat /\ faults \in 0..MaxFaults

Init ==
    /\ disk = [p \in Path |-> NoDisk] /\ share = {} /\ snaps = {}
    /\ pv = [v \in Volume |-> NoVolume]
    /\ content = [c \in Content |-> NoSnapshot]
    /\ late = {} /\ clock = 0 /\ faults = 0

Fault == faults < MaxFaults /\ faults' = faults + 1

-----------------------------------------------------------------------------
(* A mistake the runs must notice: whole GiB. *)
RequiredBytesRounded(r) ==
    LET size == IF r.required > 0 THEN r.required ELSE r.limit
    IN  IF r.required > r.limit /\ r.limit > 0 THEN 0 ELSE Min * ((size + Min) \div Min)

(* 0 stands for InvalidArgument. *)
RequiredBytesFromRange(r) ==
    CASE r.required > 0 /\ r.limit > 0 /\ r.required > r.limit -> 0
      [] r.required > 0 /\ ~(r.limit > 0 /\ r.required > r.limit) ->
            IF r.required < Min THEN Min ELSE r.required
      [] r.required = 0 /\ r.limit > 0 -> IF r.limit < Min THEN Min ELSE r.limit
      [] OTHER -> Min

SupportsAccessMode(mode, protocol) == mode = "single" \/ protocol \in {"nfs", "smb"}

OnVhdx(class) == class.protocol = "iscsi" \/ class.shareBackend = "vhdx"

(* What CreateVolume refuses of a StorageClass. *)
Accepted(class) ==
    /\ SupportsAccessMode(class.mode, class.protocol)
    /\ class.protocol = "iscsi" =>
          /\ ValidTargetPortal(class.host)
          /\ class.portalPort = 860 => class.host \in {"host", "v6", "host:860", "[v6]:860"}

(* The volume CreateVolume is about: fileShareVolumeID, and the volID of an *)
(* iSCSI volume.  Without a server parameter Windows says its name.         *)
Meant(v, class, path, size) ==
    LET server == IF class.host = "" THEN "host" ELSE class.host
        common == [EmptyID EXCEPT !.protocol = class.protocol, !.name = v, !.vhdxPath = path,
                                  !.capacity = size]
        shared == [common EXCEPT !.shareBackend = class.shareBackend, !.sharePath = DirOf(v)]
    IN  CASE class.protocol = "iscsi" ->
               [common EXCEPT !.targetPortal = TargetPortalAddress(class.host, class.portalPort),
                              !.targetName = v, !.targetIQN = IqnOf(v)]
          [] class.protocol = "nfs" ->
               [shared EXCEPT !.nfsServer = server, !.nfsExportPath = Rooted(v),
                              !.nfsAuthentication = class.auth,
                              !.nfsMountAuthentication = PreferredNfsMountAuthentication(class.auth)]
          [] class.protocol = "smb" ->
               [shared EXCEPT !.smbServer = server, !.smbShareName = v]

(* CreateVolume's answer as it is stored: legacy IDs for iSCSI, URIs for    *)
(* shares, and where the node finds the volume.                             *)
Handle(m) == IF m.protocol = "iscsi" THEN EncodeVolID(m) ELSE EncodeVolumeID(m)

Bound(v, class, range, path, answered, cap, base, born) ==
    LET m == Meant(v, class, path, answered)
    IN  [st |-> "bound", id |-> Handle(m), vc |-> VolumeContextForVolumeID(m),
         class |-> class, range |-> range, path |-> path, cap |-> cap,
         known |-> answered # 0, base |-> base, born |-> born]

Shares(v, class) == IF class.protocol = "iscsi" THEN {} ELSE {v}

CreateVolume(v, class, range) ==
    LET size == RequiredBytesFromRange(range)
        path == IF OnVhdx(class) THEN VhdxOf(v) ELSE DirOf(v)
    IN  /\ pv[v].st = "none" /\ Accepted(class) /\ size # 0
        /\ disk' = IF OnVhdx(class) THEN [disk EXCEPT ![path] = [size |-> size, data |-> 0]] ELSE disk
        /\ share' = share \cup Shares(v, class)
        /\ pv' = [pv EXCEPT ![v] = Bound(v, class, range, path, size, size, "", 0)]
        /\ UNCHANGED <<snaps, content, late, clock, faults>>

(***************************************************************************)
(* The handles that lead anywhere when written by hand: an iSCSI portal    *)
(* that url.Parse and validateTargetPortal take and that has the port the  *)
(* target listens on, a server without port, which hostOnly would cut off, *)
(* and an access mode the protocol supports, which nobody checks.          *)
(***************************************************************************)
Importable(class) ==
    /\ SupportsAccessMode(class.mode, class.protocol)
    /\ IF class.protocol = "iscsi"
       THEN /\ ParsesAsHost(class.host) /\ ValidTargetPortal(DefaultPort(class.host))
            /\ TargetPortalAddress(class.host, class.portalPort) = DefaultPort(class.host)
       ELSE HostOnly(class.host) = class.host

ASSUME ImportAssumption ==
    \A v \in Volume : Imported[v] \subseteq {class \in ClassType : Importable(class)}

(* The URI of a volume that was made by hand: without attributes, and the   *)
(* server, for shares, only in its host.                                    *)
WithoutServer(uri) ==
    [uri EXCEPT !.query = [k \in DOMAIN uri.query \ {"nfsServer", "smbServer"} |-> uri.query[k]]]
ImportedHandle(v, class, path) ==
    WithoutServer(EncodeVolumeID([Meant(v, class, path, Min) EXCEPT
       !.targetPortal = IF class.protocol = "iscsi" THEN class.host ELSE ""]))

(* Such a volume is imported: its ID is that URI and it has no context. *)
Import(v, class) ==
    LET path == IF OnVhdx(class) THEN VhdxOf(v) ELSE DirOf(v)
    IN  /\ pv[v].st = "none"
        /\ disk' = IF OnVhdx(class) THEN [disk EXCEPT ![path] = [size |-> Min, data |-> 0]] ELSE disk
        /\ share' = share \cup Shares(v, class)
        /\ pv' = [pv EXCEPT ![v] =
                    [Bound(v, class, [required |-> 0, limit |-> 0], path, Min, Min, "", 0) EXCEPT
                       !.id = ImportedHandle(v, class, path), !.vc = NoContext]]
        /\ UNCHANGED <<snaps, content, late, clock, faults>>

(* A pod writes to the volume. *)
Write(v) ==
    LET p == pv[v].path
    IN  /\ pv[v].st = "bound" /\ p \in Path /\ disk[p].data < MaxWrites
        /\ disk' = [disk EXCEPT ![p].data = @ + 1]
        /\ UNCHANGED <<share, snaps, pv, content, late, clock, faults>>

-----------------------------------------------------------------------------
(***************************************************************************)
(* The snapshots of the volume an ID decodes to: refused for IDs that do   *)
(* not decode, directories, and IDs without a path.                        *)
(***************************************************************************)
SourcePath(id) ==
    LET d == DecodeAnyVolumeID(id)
    IN  IF d.protocol = "iscsi" \/ d.shareBackend = "vhdx" THEN d.vhdxPath ELSE ""

(* Checkpoint-IscsiVirtualDisk: the snapshot is taken now and listed now or later. *)
Checkpoint(p, c, listed) ==
    /\ p \in Path /\ disk[p] # NoDisk
    /\ clock' = clock + 1
    /\ snaps' = snaps \cup {[id |-> clock + 1, path |-> p, description |-> c,
                             size |-> disk[p].size, data |-> disk[p].data, listed |-> listed]}

(* CreateSnapshot begins.  The first call says what the snapshot must hold. *)
CreateSnapshot(c, v) ==
    LET p == SourcePath(pv[v].id)
        started(st) == [content[c] EXCEPT !.st = st, !.vol = v,
                          !.from = IF content[c].st = "none" THEN disk[p].data ELSE @]
    IN  /\ pv[v].st = "bound" /\ p \in Path
        /\ content[c].st = "none" \/ (content[c].st = "failed" /\ content[c].vol = v)
        /\ \/ /\ \E listed \in BOOLEAN : Checkpoint(p, c, listed)
              /\ content' = [content EXCEPT ![c] = started("taking")]
              /\ UNCHANGED <<late, faults>>
           \/ /\ Fault /\ content' = [content EXCEPT ![c] = started("failed")]
              /\ \/ Checkpoint(p, c, TRUE) /\ UNCHANGED late
                 \/ UNCHANGED <<snaps, clock, late>>
                 \/ late' = late \cup {[op |-> "checkpoint", content |-> c, id |-> faults]}
                    /\ UNCHANGED <<snaps, clock>>
        /\ UNCHANGED <<disk, share, pv>>

(* A mistake the runs must notice: whatever snapshot of the disk is newest. *)
FoundAny(c) == {s \in snaps : s.path = SourcePath(pv[content[c].vol].id) /\ s.listed}

(* The snapshots with the path and the description, of any attempt. *)
Found(c) ==
    {s \in snaps : /\ s.path = SourcePath(pv[content[c].vol].id)
                   /\ s.description = c /\ s.listed}

Newest(S) == CHOOSE s \in S : \A t \in S : t.id <= s.id

(* The script looks for what it took, for up to five seconds. *)
FindSnapshot(c) ==
    /\ content[c].st = "taking"
    /\ \/ /\ Found(c) # {}
          /\ content' = [content EXCEPT ![c] =
                           [@ EXCEPT !.st = "made", !.id = Newest(Found(c)).id,
                              !.path = SourcePath(pv[content[c].vol].id),
                              !.upto = disk[SourcePath(pv[content[c].vol].id)].data]]
          /\ UNCHANGED faults
       \/ Fault /\ content' = [content EXCEPT ![c].st = "failed"]
    /\ UNCHANGED <<disk, share, snaps, pv, late, clock>>

(* Get-IscsiVirtualDiskSnapshot begins to list a snapshot. *)
Listed(s) ==
    /\ ~s.listed
    /\ snaps' = (snaps \ {s}) \cup {[s EXCEPT !.listed = TRUE]}
    /\ UNCHANGED <<disk, share, pv, content, late, clock, faults>>

(* Remove-IscsiVirtualDiskSnapshot of the snapshot an ID names. *)
RemoveSnapshot(id) == snaps' = {s \in snaps : s.id # id}

(* A mistake the runs must notice: the encoded ID is looked for, and not     *)
(* found.                                                                    *)
DeleteSnapshotEncoded(c) ==
    /\ content[c].st \in {"made", "doomed"}
    /\ content' = [content EXCEPT ![c].st = "gone"]
    /\ UNCHANGED <<disk, share, snaps, pv, late, clock, faults>>

(***************************************************************************)
(* DeleteSnapshot.  An error of the backend is logged and the call         *)
(* succeeds; only a call that is lost is made again.                       *)
(***************************************************************************)
DeleteSnapshot(c) ==
    /\ content[c].st \in {"made", "doomed"}
    /\ \/ /\ RemoveSnapshot(content[c].id)
          /\ content' = [content EXCEPT ![c].st = "gone"]
          /\ UNCHANGED <<late, faults>>
       \/ /\ Fault
          /\ \E st \in {"gone", "doomed"} : content' = [content EXCEPT ![c].st = st]
          /\ \/ RemoveSnapshot(content[c].id) /\ UNCHANGED late
             \/ UNCHANGED <<snaps, late>>
             \/ /\ late' = late \cup {[op |-> "remove", content |-> c, id |-> content[c].id]}
                /\ UNCHANGED snaps
    /\ UNCHANGED <<disk, share, pv, clock>>

(* A script the driver gave up on comes to its end. *)
LateScript(s) ==
    /\ s \in late /\ late' = late \ {s}
    /\ \/ s.op = "remove" /\ RemoveSnapshot(s.id) /\ UNCHANGED clock
       \/ LET p == pv[content[s.content].vol].path
          IN  s.op = "checkpoint" /\ IF disk[p] # NoDisk THEN Checkpoint(p, s.content, TRUE)
                                     ELSE UNCHANGED <<snaps, clock>>
    /\ UNCHANGED <<disk, share, pv, content, faults>>

(* ListSnapshots by snapshot ID, and by source volume. *)
ListByID(c) == {s \in snaps : s.path = content[c].path /\ s.listed /\ s.id = content[c].id}
ListByVolume(id) == {s \in snaps : s.path = SourcePath(id) /\ s.listed}

-----------------------------------------------------------------------------
(* Export-IscsiVirtualDiskSnapshot makes a disk of the snapshot. *)
Exported(s) == [size |-> s.size, data |-> s.data]

(* Windows exports to a path that is not in use; which one does not matter. *)
FreeExport ==
    LET free == {e \in Export : disk[e] = NoDisk /\ \A w \in Volume : pv[w].path # e}
    IN  IF free = {} THEN {} ELSE {CHOOSE e \in free : TRUE}

(***************************************************************************)
(* CreateVolume from a snapshot: nothing is resized.  The answer for an    *)
(* iSCSI volume has the size of the exported disk, or 0 when GetVolumeInfo *)
(* fails and the provisioner takes the capacity it asked for; an answer    *)
(* that is too small it deletes at once, which leaves nothing.  A share is *)
(* answered for with the larger of what was asked for and, if              *)
(* GetVolumeInfo said so, the disk.                                        *)
(***************************************************************************)
CreateVolumeFrom(v, class, range, c) ==
    LET wanted == RequiredBytesFromRange(range)
        listed == {s \in snaps : s.id = content[c].id}
        iscsi == class.protocol = "iscsi"
    IN  /\ pv[v].st = "none" /\ Accepted(class) /\ OnVhdx(class) /\ wanted # 0
        /\ content[c].st = "made"
        /\ \E e \in FreeExport, s \in listed :
              LET made(answered, cap) ==
                    pv' = [pv EXCEPT ![v] = Bound(v, class, range, e, answered, cap, c, s.data)]
                  larger == IF wanted > s.size THEN wanted ELSE s.size
              IN  /\ disk' = [disk EXCEPT ![e] = Exported(s)]
                  /\ \/ (iscsi => wanted <= s.size) /\ made(larger, larger) /\ UNCHANGED faults
                     \/ Fault /\ made(IF iscsi THEN 0 ELSE wanted, wanted)
                     \/ Fault /\ UNCHANGED pv
        /\ share' = IF pv' = pv THEN share ELSE share \cup Shares(v, class)
        /\ UNCHANGED <<snaps, content, late, clock>>

(* A mistake the runs must notice: the volume's own VHDX is resized. *)
ExpandNamed(v, want) ==
    LET p == VhdxOf(v)
    IN  /\ pv[v].st = "bound" /\ ~Undecodable(pv[v].id) /\ want > pv[v].cap
        /\ p \in Path
        /\ disk' = [disk EXCEPT ![p].size = want]
        /\ pv' = [pv EXCEPT ![v].cap = want] /\ UNCHANGED faults
        /\ UNCHANGED <<share, snaps, content, late, clock>>

(* ControllerExpandVolume: ResizeVirtualDisk to the size the claim now asks *)
(* for; for a directory only the quota changes.                             *)
ControllerExpandVolume(v, want) ==
    LET d == DecodeAnyVolumeID(pv[v].id)
        p == SourcePath(pv[v].id)
    IN  /\ pv[v].st = "bound" /\ want > pv[v].cap
        /\ ~Undecodable(pv[v].id) /\ d.vhdxPath # ""
        /\ p # "" => disk[p] # NoDisk
        /\ disk' = IF p = "" THEN disk ELSE [disk EXCEPT ![p].size = want]
        /\ \/ pv' = [pv EXCEPT ![v].cap = want] /\ UNCHANGED faults
           \/ Fault /\ UNCHANGED pv
        /\ UNCHANGED <<share, snaps, content, late, clock>>

(* The storage DeleteVolume removes for a decoded ID. *)
DeleteStorage(d, p) ==
    /\ disk' = [q \in Path |-> IF q = p THEN NoDisk ELSE disk[q]]
    /\ share' = IF d.protocol = "iscsi" THEN share ELSE share \ {d.name}

(***************************************************************************)
(* DeleteVolume: an ID that does not decode counts as deleted.  Whether    *)
(* the snapshots of a removed disk stay is up to Windows.  The snapshot    *)
(* controller holds a claim back while a snapshot of it is being taken;    *)
(* imported volumes are retained.                                          *)
(***************************************************************************)
DeleteVolume(v) ==
    LET p == SourcePath(pv[v].id)
    IN  /\ pv[v].st = "bound" /\ pv[v].vc # NoContext
        /\ \A c \in Content : content[c].vol = v => content[c].st \notin {"failed", "taking"}
        /\ IF Undecodable(pv[v].id) THEN UNCHANGED <<disk, share>>
           ELSE DeleteStorage(DecodeAnyVolumeID(pv[v].id), p)
        /\ pv' = [pv EXCEPT ![v].st = "gone"]
        /\ snaps' \in {snaps, {s \in snaps : s.path # p}}
        /\ UNCHANGED <<content, late, clock, faults>>

-----------------------------------------------------------------------------
Next ==
    \/ \E v \in Volume :
         \/ \E r \in Claim[v] : r.source = "empty" /\ CreateVolume(v, r.class, r.range)
         \/ \E class \in Imported[v] : Import(v, class)
         \/ \E r \in Claim[v], c \in Content :
              r.source = "snapshot" /\ CreateVolumeFrom(v, r.class, r.range, c)
         \/ Write(v)
         \/ \E want \in 1..MaxSize : ControllerExpandVolume(v, want)
         \/ DeleteVolume(v)
    \/ \E c \in Content :
         \/ \E v \in Volume : CreateSnapshot(c, v)
         \/ FindSnapshot(c)
         \/ DeleteSnapshot(c)
    \/ \E s \in snaps : Listed(s)
    \/ \E s \in late : LateScript(s)

Spec == Init /\ [][Next]_vars

-----------------------------------------------------------------------------
(* IDs that url.Parse refuses: a share whose server is a bare IPv6 address. *)
BareIPv6(class) == class.protocol # "iscsi" /\ class.host = "v6"

(* The context ControllerPublishVolume answers with. *)
PublishContext(id) == VolumeContextForVolumeID(DecodeAnyVolumeID(id))

(***************************************************************************)
(* However a volume came to be, its handle leads the controller to the     *)
(* storage that was made for it, under the protocol that accepted its      *)
(* access mode, and leads the node, with the publish context or without,   *)
(* to the portal, target and LUN or to the share that was made; but for    *)
(* the share whose server is a bare IPv6 address.  The initiator logs in   *)
(* to that portal unless its address is IPv6, and DeleteVolume, which goes *)
(* by the handle too, removes all of it.                                   *)
(***************************************************************************)
HandlesAgree ==
    /\ \A v \in Volume : pv[v].st = "gone" /\ ~BareIPv6(pv[v].class) =>
          v \notin share /\ (pv[v].path \in Path => disk[pv[v].path] = NoDisk)
    /\ \A v \in Volume : pv[v].st = "bound" /\ ~BareIPv6(pv[v].class) =>
          LET d == DecodeAnyVolumeID(pv[v].id)
              m == Meant(v, pv[v].class, pv[v].path, d.capacity)
              where == CASE m.protocol = "iscsi" -> <<m.targetPortal, m.targetIQN, m.lun>>
                         [] m.protocol = "nfs" -> <<m.nfsServer, m.nfsExportPath>>
                         [] m.protocol = "smb" -> <<m.smbServer, m.smbShareName>>
          IN  /\ d = m
              /\ SupportsAccessMode(pv[v].class.mode, d.protocol)
              /\ m.protocol = "iscsi" /\ ~IPv6Portal(m.targetPortal) =>
                    DialedPortal(where[1]) = m.targetPortal
              /\ \A pc \in {NoContext, PublishContext(pv[v].id)} :
                    NodeSource(pv[v].id, pc, pv[v].vc) =
                       [ok |-> TRUE, protocol |-> m.protocol, at |-> where,
                        auth |-> m.nfsMountAuthentication]

(***************************************************************************)
(* While its volume is there, a snapshot that was answered for is there,   *)
(* is listed under its ID and under its volume, is nobody else's, and      *)
(* holds the volume as it was at some moment between the first request and *)
(* the answer, whatever attempts came before and whatever other snapshots  *)
(* are deleted.  A volume restored from it starts with that data.          *)
(***************************************************************************)
SnapshotsAreTrue ==
    /\ \A v \in Volume : pv[v].st = "bound" /\ pv[v].base # "" =>
          LET c == content[pv[v].base] IN c.from <= pv[v].born /\ pv[v].born <= c.upto
    /\ \A c \in Content : content[c].st = "made" /\ pv[content[c].vol].st = "bound" =>
          \E s \in snaps :
             /\ ListByID(c) = {s} /\ s \in ListByVolume(pv[content[c].vol].id)
             /\ s.description = c
             /\ content[c].from <= s.data /\ s.data <= content[c].upto

(* Snapshots that nobody can name any more, and disks exported for nobody,  *)
(* are only left by calls that failed: without failures nothing leaks.      *)
Orphans ==
    {s \in snaps : \A c \in Content :
        /\ content[c].st \in {"made", "doomed"} => content[c].id # s.id
        /\ content[c].st = "taking" /\ s.description = c =>
              \E t \in snaps : t.description = c /\ t.id > s.id}
OrphanDisks ==
    {p \in Path : /\ disk[p] # NoDisk
                  /\ \A v \in Volume : pv[v].st = "bound" => pv[v].path # p
                  /\ \A v \in Volume : pv[v].path = p => ~BareIPv6(pv[v].class)}
LeaksAreFailures == Cardinality(Orphans) + Cardinality(OrphanDisks) <= faults

(* The capacity ControllerGetVolume answers with: what Windows says of a    *)
(* disk, what the ID says of a share.                                       *)
ControllerGetVolume(id) ==
    LET d == DecodeAnyVolumeID(id)
    IN  IF d.protocol = "iscsi" THEN disk[d.vhdxPath].size ELSE d.capacity

(* What is said of a volume r whose disk has that size: a share restored    *)
(* from a snapshot that is smaller than what was asked for has only the     *)
(* answer.                                                                  *)
Shown(r, size) ==
    IF /\ r.base # "" /\ r.class.protocol # "iscsi"
       /\ size < RequiredBytesFromRange(r.range)
    THEN RequiredBytesFromRange(r.range) ELSE size

(***************************************************************************)
(* The capacity Kubernetes shows is there, also after lost answers of an   *)
(* expansion and on disks that are not at the volume's own path, unless    *)
(* GetVolumeInfo failed when an iSCSI volume was restored, and but for     *)
(* shares restored with a request above the snapshot's size: there it is   *)
(* at most that request.  So is what ControllerGetVolume answers, and that *)
(* is up to date for iSCSI volumes.  The capacity in the ID answers the    *)
(* claim: never less than required, and for a new volume never above a     *)
(* limit of at least the minimum size.                                     *)
(***************************************************************************)
CapacityIsThere ==
    \A v \in Volume : pv[v].st = "bound" /\ pv[v].known =>
       /\ pv[v].path \in Path =>
             LET answer == ControllerGetVolume(pv[v].id)
                 there == Shown(pv[v], disk[pv[v].path].size)
             IN  /\ pv[v].cap <= there /\ answer <= there
                 /\ pv[v].class.protocol = "iscsi" => pv[v].cap <= answer
       /\ ~BareIPv6(pv[v].class) =>
             LET answered == DecodeAnyVolumeID(pv[v].id).capacity
             IN  /\ pv[v].range.required <= answered
                 /\ pv[v].base = "" /\ pv[v].range.limit >= Min => answered <= pv[v].range.limit
=============================================================================
