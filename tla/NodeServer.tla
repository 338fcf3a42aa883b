------------------------------ MODULE NodeServer ------------------------------
(***************************************************************************)
(* The node service (nodeserver.go) on one node, over the initiator        *)
(* library iscsilib: iSCSI sessions, SCSI devices, connector files, the    *)
(* staging mount of each volume and the bind mounts of its pods.           *)
(*                                                                         *)
(* kubelet makes one call per volume at a time and repeats calls that      *)
(* fail; calls for different volumes interleave, and nothing in the driver *)
(* serialises them.  The names of SCSI devices (/dev/sdX) belong to        *)
(* whoever came first: the kernel gives a name that was freed to the next  *)
(* disk, and connector files refer to disks by such names.                 *)
(*                                                                         *)
(* A volume name stands for its target, its portal, its LUN and its paths. *)
(***************************************************************************)
EXTENDS Naturals, Sequences, FiniteSets

CONSTANTS
    Volume,     \* the volumes that pods on this node use
    Mode,       \* what they are: "mount" and "block" over iSCSI, "share"
    Device,     \* names the kernel has for SCSI disks
    Custom,     \* the volumes whose class names an iSCSI interface, one for all
    Adversity,  \* what may go wrong, a subset of Adversities
    MaxFaults,  \* bound: how often something goes wrong
    none        \* no disk, device or file

(***************************************************************************)
(* Calls of iscsilib that fail while connecting; a connector file that     *)
(* cannot be written; a mount or the write probe that fails; failures of   *)
(* unpublish and unstage; a rescan that takes more than its 3 seconds; the *)
(* death of the driver; a reboot of the node.                              *)
(***************************************************************************)
Adversities == {"connect", "persist", "mount", "unstage", "rescanTimeout",
                "restart", "reboot"}

ASSUME ModeAssumption == Mode \subseteq {"mount", "block", "share"}
ASSUME NamesAssumption ==
    /\ {none, "dead", "dir"} \cap Volume = {} /\ {none, "bad"} \cap Device = {}
    /\ none \notin {"dead", "dir", "bad"}
ASSUME AdversityAssumption == Adversity \subseteq Adversities
ASSUME LimitAssumption == MaxFaults \in Nat

VARIABLES
    mode,       \* mode[v]: what v is, for ever
    session,    \* the volumes whose target is logged in
    pending,    \* those whose LUN the kernel has yet to attach
    dev,        \* dev[d]: the volume whose disk is device d
    connector,  \* connector[v]: the device its connector file names
    staging,    \* staging[v]: whose file system is mounted there, or "dead"
    target,     \* target[v]: the target path, the mounts on it on top
    call,       \* call[v]: the handler that runs for v
    phase,      \* phase[v]: how far kubelet is with v
    answered,   \* the volumes whose last NodeStageVolume succeeded
    inited,     \* ns.init has made the mounter
    iface,      \* whether the interface of Custom is still "there"
    faults      \* failures so far

host == <<session, pending, dev, staging, target>>
kubelet == <<phase, answered>>
vars == <<mode, host, connector, call, kubelet, inited, iface, faults>>

Phase == {"gone", "wanted", "staged", "published", "unpublish", "unstage"}
PC == {"idle", "login", "wait", "persist", "mount", "recover", "bind",
       "load", "remove", "logout", "cleanup"}

(* A file system that lost its device stays mounted, "dead"; a target path  *)
(* that exists begins with "dir", and what is mounted on it follows.        *)
Mounted == Volume \cup {none, "dead"}
Shown == Volume \cup {"dead", "dir"}

Idle == [pc |-> "idle", name |-> none, disk |-> none]

TypeOK ==
    /\ mode \in [Volume -> Mode]
    /\ session \subseteq Volume /\ pending \subseteq Volume
    /\ dev \in [Device -> Volume \cup {none}]
    /\ connector \in [Volume -> Device \cup {none, "bad"}]
    /\ staging \in [Volume -> Mounted]
    /\ \A v \in Volume : target[v] \in Seq(Shown) /\ Len(target[v]) <= MaxFaults + 2
    /\ call \in [Volume -> [pc : PC, name : Device \cup {none}, disk : Volume \cup {none}]]
    /\ phase \in [Volume -> Phase] /\ answered \subseteq Volume
    /\ inited \in BOOLEAN /\ iface \in {"there", "deleted"} /\ faults \in 0..MaxFaults

Init ==
    /\ mode \in [Volume -> Mode]
    /\ session = {} /\ pending = {}
    /\ dev = [d \in Device |-> none]
    /\ connector = [v \in Volume |-> none]
    /\ staging = [v \in Volume |-> none]
    /\ target = [v \in Volume |-> <<>>]
    /\ call = [v \in Volume |-> Idle]
    /\ phase = [v \in Volume |-> "gone"] /\ answered = {}
    /\ inited = FALSE /\ iface = "there" /\ faults = 0

-----------------------------------------------------------------------------
Fault(kind) == kind \in Adversity /\ faults < MaxFaults /\ faults' = faults + 1

Goto(v, pc, d, w) ==
    /\ call' = [call EXCEPT ![v] = [pc |-> pc, name |-> d, disk |-> w]]
    /\ UNCHANGED kubelet

(* The handler answers: with an error, after which kubelet calls again, or  *)
(* with success, after which it goes on.                                    *)
Error(v) == call' = [call EXCEPT ![v] = Idle] /\ UNCHANGED kubelet

Success(v, p) ==
    /\ call' = [call EXCEPT ![v] = Idle]
    /\ phase' = [phase EXCEPT ![v] = p]
    /\ answered' = IF p = "staged" THEN answered \cup {v} ELSE answered

-----------------------------------------------------------------------------
(* The kernel and iscsid.  The devices of W go, and what is mounted from    *)
(* them is dead.                                                            *)
Detach(W) ==
    /\ dev' = [d \in Device |-> IF dev[d] \in W THEN none ELSE dev[d]]
    /\ staging' = [v \in Volume |->
                      IF staging[v] \in W /\ mode[v] # "share" THEN "dead" ELSE staging[v]]

HasDevice(v) == \E d \in Device : dev[d] = v

(* lsblk: the disk that has the name now. *)
DiskAt(d) == IF d \in Device THEN dev[d] ELSE none

(* iscsiadm -l, -R and -u. *)
Attachable(W) == pending \cup {v \in W : ~HasDevice(v)}

LogIn(v) ==
    /\ session' = session \cup {v} /\ pending' = Attachable({v})
    /\ UNCHANGED <<dev, staging>>

LogOut(v) ==
    /\ session' = session \ {v} /\ pending' = pending \ {v}
    /\ Detach({v})

(* A disk appears under a name that is free. *)
AttachLun(v) ==
    /\ v \in pending
    /\ \E d \in Device : dev[d] = none /\ dev' = [dev EXCEPT ![d] = v]
    /\ pending' = pending \ {v}
    /\ UNCHANGED <<mode, iface, session, staging, target, connector, call, kubelet, inited, faults>>

-----------------------------------------------------------------------------
(* NodeStageVolume is called; for iSCSI volumes Connect comes first. *)
NodeStageVolume(v) ==
    /\ phase[v] = "wanted" /\ call[v].pc = "idle"
    /\ call' = [call EXCEPT ![v] = [pc |-> IF mode[v] = "share" THEN "mount" ELSE "login",
                                    name |-> none, disk |-> none]]
    /\ inited' = TRUE
    /\ answered' = answered \ {v}
    /\ UNCHANGED <<mode, host, connector, phase, iface, faults>>

(* ShowInterface fails for an interface that does not exist. *)
NoInterface(v) == v \in Custom /\ iface = "deleted"

(* A Connect that finds no device deletes the interface, whatever the       *)
(* reason; iscsiadm may refuse, as it does for the default interface.       *)
NoDevice(v) ==
    /\ Error(v)
    /\ iface' \in {iface} \cup (IF v \in Custom THEN {"deleted"} ELSE {})

(* A mistake the runs must notice: a session that exists is an error. *)
ConnectTargetRefusing(v) ==
    /\ call[v].pc = "login"
    /\ \/ /\ v \notin session /\ LogIn(v)
          /\ Goto(v, "wait", none, none) /\ UNCHANGED faults
       \/ /\ v \in session /\ Error(v)
          /\ UNCHANGED <<session, pending, dev, staging, faults>>
       \/ Fault("connect") /\ LogIn(v) /\ Error(v)
    /\ UNCHANGED <<mode, target, connector, inited, iface>>

(* A session that exists is rescanned and used.  A rescan that fails is     *)
(* ignored; one that times out logs out, and in again if that worked.       *)
RescanSession(v) ==
    /\ v \in session
    /\ \/ LogIn(v) /\ Goto(v, "wait", none, none) /\ UNCHANGED <<iface, faults>>
       \/ /\ Fault("connect") /\ Goto(v, "wait", none, none)
          /\ UNCHANGED <<session, pending, dev, staging, iface>>
       \/ /\ Fault("rescanTimeout") /\ Goto(v, "wait", none, none)
          /\ session' = session /\ pending' = pending \cup {v} /\ Detach({v})
          /\ UNCHANGED iface
       \/ Fault("rescanTimeout") /\ LogOut(v) /\ NoDevice(v)

(* Otherwise discovery and login, which may fail after their effect. *)
DiscoverTarget(v) ==
    /\ v \notin session /\ LogIn(v)
    /\ \/ Goto(v, "wait", none, none) /\ UNCHANGED <<iface, faults>>
       \/ Fault("connect") /\ NoDevice(v)

(* Connect and connectTarget up to the login; they may also fail and change *)
(* nothing else.                                                            *)
ConnectTarget(v) ==
    /\ call[v].pc = "login"
    /\ \/ ~NoInterface(v) /\ RescanSession(v)
       \/ ~NoInterface(v) /\ DiscoverTarget(v)
       \/ /\ NoInterface(v) /\ Error(v)
          /\ UNCHANGED <<session, pending, dev, staging, iface, faults>>
       \/ /\ Fault("connect") /\ NoDevice(v)
          /\ UNCHANGED <<session, pending, dev, staging>>
    /\ UNCHANGED <<mode, target, connector, inited>>

(* A mistake the runs must notice: any new device will do. *)
WaitForPathAny(v) ==
    /\ call[v].pc = "wait"
    /\ \/ \E d \in Device : dev[d] # none /\ Goto(v, "persist", d, none) /\ UNCHANGED faults
       \/ ~HasDevice(v) /\ v \notin pending /\ Error(v) /\ UNCHANGED faults
       \/ Fault("connect") /\ Error(v)
    /\ UNCHANGED <<mode, host, connector, inited, iface>>

(* waitForPathToExist and lsblk: the name of the device, or an error that   *)
(* leaves the session as it is and no connector.                            *)
WaitForPath(v) ==
    /\ call[v].pc = "wait"
    /\ \/ \E d \in Device : dev[d] = v /\ Goto(v, "persist", d, none) /\ UNCHANGED <<iface, faults>>
       \/ ~HasDevice(v) /\ v \notin pending /\ NoDevice(v) /\ UNCHANGED faults
       \/ Fault("connect") /\ NoDevice(v)
    /\ UNCHANGED <<mode, host, connector, inited>>

(* The rollback disconnects the volume and logs out; either may fail. *)
RollbackConnect(v) ==
    \/ LogOut(v)
    \/ Detach({v}) /\ UNCHANGED <<session, pending>>
    \/ UNCHANGED <<session, pending, dev, staging>>

(* Persist: mkdir may fail, or creating the file, or writing it, which      *)
(* leaves it truncated.                                                     *)
Persist(v) ==
    /\ call[v].pc = "persist"
    /\ \/ /\ connector' = [connector EXCEPT ![v] = call[v].name]
          /\ Goto(v, "mount", call[v].name, none)
          /\ UNCHANGED <<session, pending, dev, staging, faults>>
       \/ /\ Fault("persist") /\ Error(v)
          /\ UNCHANGED <<session, pending, dev, staging, connector>>
       \/ /\ Fault("persist") /\ Error(v)
          /\ connector' \in {connector, [connector EXCEPT ![v] = "bad"]}
          /\ RollbackConnect(v)
    /\ UNCHANGED <<mode, iface, target, inited>>

(* stageFileShareVolume mounts the share if nothing is mounted yet. *)
StageFileShareVolume(v) ==
    /\ call[v].pc = "mount" /\ mode[v] = "share"
    /\ \/ /\ staging' = [staging EXCEPT ![v] = v]
          /\ Success(v, "staged") /\ UNCHANGED faults
       \/ Fault("mount") /\ Error(v) /\ staging' \in {staging, [staging EXCEPT ![v] = v]}
    /\ UNCHANGED <<mode, iface, session, pending, dev, target, connector, inited>>

(***************************************************************************)
(* The rest of NodeStageVolume.  A block volume needs only its directory.  *)
(* Otherwise the file system on the device is mounted if nothing is, and   *)
(* must pass the write probe.                                              *)
(***************************************************************************)
StageMount(v) ==
    /\ call[v].pc = "mount" /\ mode[v] # "share"
    /\ LET fs == DiskAt(call[v].name)
           mounts == mode[v] = "mount" /\ staging[v] = none /\ fs # none
       IN
       \/ /\ mode[v] = "block" \/ staging[v] \in Volume
          /\ Success(v, "staged") /\ UNCHANGED <<staging, faults>>
       \/ /\ mounts /\ staging' = [staging EXCEPT ![v] = fs]
          /\ Success(v, "staged") /\ UNCHANGED faults
       \/ /\ mode[v] = "mount" /\ ~mounts /\ staging[v] \notin Volume
          /\ Error(v) /\ UNCHANGED <<staging, faults>>
       \/ /\ Fault("mount") /\ Error(v)
          /\ staging' \in {staging} \cup
                (IF mounts THEN {[staging EXCEPT ![v] = fs]} ELSE {})
    /\ UNCHANGED <<mode, iface, session, pending, dev, target, connector, inited>>

-----------------------------------------------------------------------------
(* The driver dies: running handlers are forgotten, kubelet calls again. *)
Die == call' = [v \in Volume |-> Idle] /\ inited' = FALSE

(* A share is published without ns.init, so a driver that has just started  *)
(* dereferences a nil mounter.                                              *)
NodePublishVolume(v) ==
    /\ phase[v] = "staged" /\ call[v].pc = "idle"
    /\ IF mode[v] = "share"
       THEN /\ target' = [target EXCEPT ![v] = IF @ = <<>> THEN <<"dir">> ELSE @]
            /\ IF inited
               THEN Goto(v, "bind", none, none) /\ UNCHANGED inited
               ELSE Die /\ UNCHANGED kubelet
       ELSE /\ Goto(v, "recover", none, none)
            /\ inited' = TRUE /\ UNCHANGED target
    /\ UNCHANGED <<mode, iface, session, pending, dev, staging, connector, faults>>

(* What a connector file leads to: the disk that has the name now. *)
GetConnectorFromFile(v) == DiskAt(connector[v])

(* A mistake the runs must notice: a staging path that is not mounted is    *)
(* published as it is, and a block volume takes the first device there is.  *)
RecoverStagingSkipped(v) ==
    /\ call[v].pc = "recover"
    /\ \E d \in Device : dev[d] # none /\ Goto(v, "bind", none, dev[d])
    /\ UNCHANGED <<mode, iface, host, connector, inited, faults>>

(***************************************************************************)
(* The source of the bind mount.  Block: the device of the connector, or   *)
(* else the by-path device of the volume.  File system: the staging path,  *)
(* mounted again from the connector when it is not mounted.                *)
(***************************************************************************)
RecoverStaging(v) ==
    /\ call[v].pc = "recover"
    /\ LET disk == GetConnectorFromFile(v) IN
       \/ /\ mode[v] = "block" /\ disk # none
          /\ Goto(v, "bind", none, disk) /\ UNCHANGED <<staging, faults>>
       \/ /\ mode[v] = "block" /\ disk = none /\ HasDevice(v)
          /\ Goto(v, "bind", none, v) /\ UNCHANGED <<staging, faults>>
       \/ /\ mode[v] # "block" /\ staging[v] # none
          /\ Goto(v, "bind", none, none) /\ UNCHANGED <<staging, faults>>
       \/ /\ mode[v] # "block" /\ staging[v] = none /\ disk # none
          /\ staging' = [staging EXCEPT ![v] = disk]
          /\ Goto(v, "bind", none, none) /\ UNCHANGED faults
       \/ /\ disk = none /\ ~(mode[v] = "block" /\ HasDevice(v))
          /\ staging[v] = none
          /\ Error(v) /\ UNCHANGED <<staging, faults>>
       \/ Fault("mount") /\ Error(v) /\ UNCHANGED staging
    /\ UNCHANGED <<mode, iface, session, pending, dev, target, connector, inited>>

(* What a bind mount of the source shows: a staging path that is not        *)
(* mounted is an empty directory.                                           *)
Source(v) ==
    IF mode[v] = "block" THEN call[v].disk
    ELSE IF staging[v] = none THEN "dir" ELSE staging[v]

(* A mistake the runs must notice: every publish call mounts twice. *)
PublishBindTwice(v) ==
    /\ call[v].pc = "bind"
    /\ target' = [target EXCEPT ![v] = @ \o <<"dir", Source(v), Source(v)>>]
    /\ \/ Success(v, "published") /\ UNCHANGED faults
       \/ Fault("mount") /\ Error(v)
    /\ UNCHANGED <<mode, iface, session, pending, dev, staging, connector, inited>>

(* mkdir or ensureFile, then the bind mount, without a look at what is      *)
(* mounted on the target already.                                           *)
PublishBind(v) ==
    /\ call[v].pc = "bind"
    /\ LET path == IF target[v] = <<>> THEN <<"dir">> ELSE target[v] IN
       \/ /\ target' = [target EXCEPT ![v] = Append(path, Source(v))]
          /\ \/ Success(v, "published") /\ UNCHANGED faults
             \/ Fault("mount") /\ Error(v)
       \/ /\ Fault("mount") /\ Error(v)
          /\ target' = [target EXCEPT ![v] = path]
    /\ UNCHANGED <<mode, iface, session, pending, dev, staging, connector, inited>>

(* A mistake the runs must notice: one unmount passes for the cleanup. *)
NodeUnpublishOnce(v) ==
    /\ phase[v] = "unpublish" /\ call[v].pc = "idle" /\ inited
    /\ target' = [target EXCEPT ![v] = SubSeq(@, 1, Len(@) - 1)]
    /\ Success(v, "unstage")
    /\ UNCHANGED <<mode, iface, session, pending, dev, staging, connector, inited, faults>>

(***************************************************************************)
(* NodeUnpublishVolume: CleanupMountPoint takes one mount off the path and *)
(* removes the path if that was the last one.  The mounter it is given is  *)
(* nil unless another call has made it since the driver started.           *)
(***************************************************************************)
NodeUnpublishVolume(v) ==
    /\ phase[v] = "unpublish" /\ call[v].pc = "idle"
    /\ \/ /\ Len(target[v]) > 0 /\ ~inited
          /\ Die /\ UNCHANGED <<target, kubelet, faults>>
       \/ /\ inited \/ target[v] = <<>>
          /\ Len(target[v]) <= 2
          /\ target' = [target EXCEPT ![v] = <<>>]
          /\ Success(v, "unstage") /\ UNCHANGED <<inited, faults>>
       \/ /\ inited /\ Len(target[v]) > 2
          /\ target' = [target EXCEPT ![v] = SubSeq(@, 1, Len(@) - 1)]
          /\ Error(v) /\ UNCHANGED <<inited, faults>>
       \/ /\ Fault("unstage") /\ inited /\ Error(v)
          /\ UNCHANGED <<target, inited>>
    /\ UNCHANGED <<mode, iface, session, pending, dev, staging, connector>>

-----------------------------------------------------------------------------
NodeUnstageVolume(v) ==
    /\ phase[v] = "unstage" /\ call[v].pc = "idle"
    /\ Goto(v, "load", none, none) /\ inited' = TRUE
    /\ UNCHANGED <<mode, iface, host, connector, faults>>

(* A mistake the runs must notice: the staging path stays mounted. *)
UnstageUnmountLazy(v) ==
    /\ call[v].pc = "load"
    /\ Goto(v, IF connector[v] = none THEN "cleanup" ELSE "remove", none,
            GetConnectorFromFile(v))
    /\ UNCHANGED <<mode, iface, host, connector, inited, faults>>

(***************************************************************************)
(* The connector is loaded and the staging path unmounted.  Of a connector *)
(* whose device is gone lsblk knows nothing and GetConnectorFromFile       *)
(* fails, with another error than the one isMissingMountTargetDevice looks *)
(* for, as it does for a truncated file.                                   *)
(***************************************************************************)
UnstageUnmount(v) ==
    /\ call[v].pc = "load"
    /\ LET disk == GetConnectorFromFile(v) IN
       \/ /\ connector[v] = none \/ disk # none
          /\ staging' = [staging EXCEPT ![v] = none]
          /\ Goto(v, IF connector[v] = none THEN "cleanup" ELSE "remove", none, disk)
          /\ UNCHANGED faults
       \/ /\ connector[v] # none /\ disk = none
          /\ Error(v) /\ UNCHANGED <<staging, faults>>
       \/ Fault("unstage") /\ Error(v) /\ UNCHANGED staging
    /\ UNCHANGED <<mode, iface, session, pending, dev, target, connector, inited>>

(* DisconnectVolume: the device found when the connector was loaded is      *)
(* flushed, put offline and deleted; a device that is gone is no error.     *)
DisconnectVolume(v) ==
    /\ call[v].pc = "remove"
    /\ \/ Detach({call[v].disk}) /\ Goto(v, "logout", none, none) /\ UNCHANGED faults
       \/ Fault("unstage") /\ Error(v) /\ UNCHANGED <<dev, staging>>
    /\ UNCHANGED <<mode, iface, session, pending, target, connector, inited>>

(* A mistake the runs must notice: a failed logout passes for done. *)
DisconnectUnchecked(v) ==
    /\ call[v].pc = "logout" /\ Goto(v, "cleanup", none, none)
    /\ \/ LogOut(v) /\ UNCHANGED faults
       \/ Fault("unstage") /\ UNCHANGED <<session, pending, dev, staging>>
    /\ UNCHANGED <<mode, iface, target, connector, inited>>

(* Disconnect: logout and removal of the node record.  That the session is  *)
(* absent is no error if iscsiadm says so on stdout; what it says on stderr *)
(* ExecWithTimeout loses, and the bare exit status counts as a failure.     *)
Disconnect(v) ==
    /\ call[v].pc = "logout"
    /\ \/ LogOut(v) /\ Goto(v, "cleanup", none, none) /\ UNCHANGED faults
       \/ /\ Error(v)
          /\ IF v \in session THEN Fault("unstage") ELSE UNCHANGED faults
          /\ \/ LogOut(v)
             \/ UNCHANGED <<session, pending, dev, staging>>
    /\ UNCHANGED <<mode, iface, target, connector, inited>>

(* The connector file goes, then the staging path. *)
UnstageCleanup(v) ==
    /\ call[v].pc = "cleanup"
    /\ \/ /\ connector' = [connector EXCEPT ![v] = none]
          /\ Success(v, "gone") /\ UNCHANGED faults
       \/ /\ Fault("unstage") /\ Error(v)
          /\ connector' \in {connector, [connector EXCEPT ![v] = none]}
    /\ UNCHANGED <<mode, iface, host, inited>>

(* NodeExpandVolume: iscsiadm rescans every session of the node. *)
NodeExpandVolume(v) ==
    /\ phase[v] = "published" /\ call[v].pc = "idle"
    /\ inited' = TRUE
    /\ pending' = IF mode[v] = "share" THEN pending ELSE Attachable(session)
    /\ UNCHANGED <<mode, iface, session, dev, staging, target, connector, call, kubelet, faults>>

-----------------------------------------------------------------------------
(* kubelet: a pod with the volume arrives, and leaves; a volume that was    *)
(* not unstaged yet may be wanted again.                                    *)
PodArrives(v) ==
    /\ phase[v] \in {"gone", "unstage"} /\ call[v].pc = "idle"
    /\ phase' = [phase EXCEPT ![v] = "wanted"]
    /\ UNCHANGED <<mode, iface, host, connector, call, answered, inited, faults>>

PodLeaves(v) ==
    /\ phase[v] \in {"wanted", "staged", "published"} /\ call[v].pc = "idle"
    /\ phase' = [phase EXCEPT ![v] = "unpublish"]
    /\ UNCHANGED <<mode, iface, host, connector, call, answered, inited, faults>>

Restart ==
    /\ Fault("restart") /\ Die
    /\ UNCHANGED <<mode, iface, host, connector, kubelet>>

(***************************************************************************)
(* A reboot leaves the files: connectors and the directories of targets.   *)
(* iscsid may or may not log in again by itself.  Volumes in use are       *)
(* staged again, or published at once ("Tolerate reboot recovery").        *)
(***************************************************************************)
Reboot ==
    /\ Fault("reboot") /\ Die
    /\ session' \in {{}, session} /\ pending' = session'
    /\ dev' = [d \in Device |-> none]
    /\ staging' = [v \in Volume |-> none]
    /\ target' = [v \in Volume |-> IF target[v] = <<>> THEN <<>> ELSE <<"dir">>]
    /\ \E again \in [Volume -> {"wanted", "staged"}] :
          phase' = [v \in Volume |->
                      IF phase[v] \in {"staged", "published"} THEN again[v] ELSE phase[v]]
    /\ UNCHANGED <<mode, iface, connector, answered>>

-----------------------------------------------------------------------------
Handler(v) ==
    \/ ConnectTarget(v)
    \/ WaitForPath(v)
    \/ Persist(v)
    \/ StageFileShareVolume(v)
    \/ StageMount(v)
    \/ RecoverStaging(v)
    \/ PublishBind(v)
    \/ UnstageUnmount(v)
    \/ DisconnectVolume(v)
    \/ Disconnect(v)
    \/ UnstageCleanup(v)

Next ==
    \/ \E v \in Volume :
         \/ NodeStageVolume(v)
         \/ NodePublishVolume(v)
         \/ NodeUnpublishVolume(v)
         \/ NodeUnstageVolume(v)
         \/ NodeExpandVolume(v)
         \/ Handler(v)
         \/ AttachLun(v)
         \/ PodArrives(v)
         \/ PodLeaves(v)
    \/ Restart
    \/ Reboot

Spec == Init /\ [][Next]_vars

(* Handlers run on, kubelet repeats stage and unstage calls until they      *)
(* succeed, and the kernel attaches what it has found.                      *)
Fairness ==
    \A v \in Volume :
       /\ WF_vars(Handler(v))
       /\ WF_vars(NodeStageVolume(v)) /\ WF_vars(NodeUnstageVolume(v))
       /\ WF_vars(AttachLun(v))

FairSpec == Spec /\ Fairness

-----------------------------------------------------------------------------
(* When NodeUnstageVolume has answered with success nothing of the volume   *)
(* is left: no mount, no connector file and, if the last NodeStageVolume    *)
(* had succeeded, no session and no device, whatever failed in between.     *)
UnstagedIsClean ==
    \A v \in Volume : phase[v] = "gone" =>
       /\ staging[v] = none /\ connector[v] = none
       /\ v \in answered => v \notin session /\ ~HasDevice(v)

(* When NodeUnpublishVolume has answered with success nothing is mounted on *)
(* the target any more, however often publish calls had mounted there.      *)
UnpublishedIsClean ==
    \A v \in Volume : phase[v] \in {"unstage", "gone"} => target[v] = <<>>

(* A pod never gets the empty directory of the node under a staging path    *)
(* that nothing is mounted on: an iSCSI volume that lost its mount in a     *)
(* reboot is mounted again or not published, whichever calls failed or were *)
(* cut short.  Shares are bound without that look, so theirs do when they   *)
(* are published at once after a reboot, and then only while nothing is     *)
(* staged.                                                                  *)
PublishedIsMounted ==
    \A v \in Volume :
       phase[v] = "published" /\ target[v][Len(target[v])] = "dir" =>
          mode[v] = "share" /\ staging[v] = none

(* With several volumes coming and going the staging path of each shows its *)
(* own file system, and so does its pod, although handlers go by device     *)
(* names the kernel reuses.                                                 *)
MountsAreOwn ==
    \A v \in Volume :
       /\ staging[v] \in {none, "dead", v}
       /\ phase[v] = "published" => target[v][Len(target[v])] \in {v, "dead"}

(* "make sure the volume is already unmounted before calling this method"   *)
(* (iscsi.go, DisconnectVolume): no device goes while its file system is    *)
(* mounted.                                                                 *)
MountsHaveDevices == \A v \in Volume : staging[v] # "dead"

(* NodeStageVolume, repeated, succeeds after calls that failed while        *)
(* connecting or mounting, of this volume or another, unless one of them    *)
(* deleted the interface it needs, which nothing in the driver makes again. *)
StageConverges ==
    \A v \in Volume : phase[v] = "wanted" ~> phase[v] # "wanted" \/ NoInterface(v)
=============================================================================
