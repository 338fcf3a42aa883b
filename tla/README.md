# Verification of the CSI driver for Windows Storage Server

TLA+ models of the driver under `src/`, the TLC configurations that check them on
small instances, and TLAPS proofs, for every instance, of the safety properties of
all parts. `PROJECT.json` lists components, runs, mutants, the map from definitions
to source lines, findings, hazards and theorems.

```
tlc -workers 2 -config MCControllerServer.cfg MCControllerServer   # any run
for m in *Proofs.tla *Safety.tla; do tlapm $m; done                # all proofs
```

## 1. The system

The driver serves volumes of a Windows file and storage server to Kubernetes,
over iSCSI (a VHDX behind an iSCSI target), NFS or SMB (a shared directory, or a
VHDX mounted at a shared path). It runs in two roles.

| Component | Source | State it keeps or changes | Operations |
| --- | --- | --- | --- |
| Controller service | `pkg/iscsi/controllerserver.go` | none of its own: everything is on the Windows server and in the volume ID | CreateVolume, DeleteVolume, ControllerPublish/UnpublishVolume, ControllerExpandVolume, snapshots, capacity |
| WinRM backend | `backend_winrm.go`, `backend_fileshare.go` | virtual disks, targets, mappings, initiators, CHAP, shares, mounted images, quotas | one PowerShell script per call (`runPS`) |
| Built-in provisioner and attacher | `internal_kubernetes.go` | PVs, VolumeAttachments, finalizers; informer caches and two workqueues | reconcilePersistentVolumeClaim, reconcilePersistentVolumeDeletion, reconcileVolumeAttachment |
| Node service | `nodeserver.go` | mounts, connector files, iSCSI sessions | stage, publish, unpublish, unstage, expand |
| Initiator library | `pkg/iscsilib` | sessions and SCSI devices of the node | Connect, Persist, GetConnectorFromFile, DisconnectVolume, Disconnect |
| Leader election | `leader_election.go` | a lease | run while leading, exit when the lease is lost |
| Volume IDs | `volumeid.go`, `controllerserver.go` | none | encode, decode (two formats) |
| Driver, gRPC, identity, logging, command line | `driver.go`, `server.go`, `identityserver.go`, `utils.go`, `logging_backend.go`, `cmd/` | none | wiring |

Interactions. The reconcilers call the controller service in the same process;
other clients (external provisioner, resizer, snapshotter) call it over gRPC.
The controller service calls the backend, and every backend call is one script
on the Windows server. The node service is called by kubelet and reaches the
Windows server only by iSCSI, NFS or SMB.

What is hard in this code:

- *Partial failure.* A CSI call is three to six scripts, a script is several
  cmdlets, and each may fail before, after or halfway through. There is no
  record of progress: every retry works from what is left on the server.
- *Abandoned scripts.* `runPS` returns when its context ends; Windows goes on.
- *Stale caches.* The reconcilers decide on three informer caches that lag
  behind the API server independently of each other.
- *Rollback* of a volume whose PV could not be stored, or seemed not to be.
- *Reused device names.* Connector files name `/dev/sdX`; the kernel gives the
  name to another disk when it is free.
- *Restarts and reboots* between any two steps, on both sides.

## 2. Modules

| Module | Models | Extended by |
| --- | --- | --- |
| `IscsiBackend` | the iSCSI half of the Windows server and the scripts that change it | `ControllerServer` |
| `ControllerServer` | the iSCSI RPCs of the controller service, one action per backend call | `ControllerServerInv`, then `ControllerServerRefinement` and the proofs |
| `ControllerServerInv` | the inductive invariants of `ControllerServer` | |
| `ControllerServerProofs` | type correctness, proved | `ControllerServerSafety` |
| `ControllerServerSafety` | the safety theorems | `ControllerServerRefinementProofs` |
| `AbstractVolume` | what the controller service promises of an iSCSI volume | |
| `ControllerServerRefinement` | the mapping by which `ControllerServer` implements `AbstractVolume` | `MCControllerServer`, `ControllerServerRefinementProofs` |
| `ControllerServerRefinementProofs` | that it does, proved | |
| `FileShareController` | NFS and SMB volumes: create, restore, roll back, expand, delete | `MCFileShareController`, `FileShareControllerProofs` |
| `FileShareControllerProofs` | types, and that shares are served and deleted, proved | |
| `InternalKubernetes` | provisioner and attacher over the Kubernetes API | `MCInternalKubernetes`, `InternalKubernetesProofs` |
| `InternalKubernetesProofs` | what holds whatever goes wrong in the cluster, then what needs some adversity left out, proved | |
| `NodeServer` | node service and initiator library on one node | `MCNodeServer`, `NodeServerProofs` |
| `NodeServerProofs` | what holds under every adversity, then that volumes do not meet through device names, proved | |
| `VolumeId` | volume IDs and contexts, as operators | `Snapshots`, `VolumeIdProofs` |
| `VolumeIdProofs` | what was written into an ID is what is read from it, proved | `SnapshotsProofs` |
| `Snapshots` | the RPCs that find a volume by its ID: snapshots, restore, expand, delete | `MCSnapshots`, `SnapshotsProofs` |
| `SnapshotsProofs` | handles, snapshots, capacities and leaks, proved | |

Definitions keep the names of the functions they model. Definitions introduced
by "a mistake the runs must notice" are the wrong versions that show a property
can fail (`mutants`); no specification uses them.

### IscsiBackend and ControllerServer

The server is `vhdx[p]` (absent, a registered disk, or a `file` that
`Remove-IscsiVirtualDisk` unregistered and `Remove-Item` did not delete),
`size[p]`, the targets, their mappings with LUNs, `allowed[v]` (InitiatorIds) and
the targets that ask for CHAP. The target of a volume has the volume's name; the
path of its own disk is the name too, and `Export` holds the paths of exported
snapshots. `Throws(s)` says when a script ends with an error by itself, `Run(s)`
what it does otherwise.

A handler is a program counter in `prov[v]` (CreateVolume, DeleteVolume) or
`att[v]` (publish, unpublish). `RunPS` gives every call its outcomes: answered;
thrown; failed without effect, after its effect or (DeleteVirtualDisk) halfway;
or given up while Windows still runs the script (`late`, finished by
`LateScript` at any time). `Abandoned` names the scripts the driver may give up on
and `MaxLate` how many at once. AllowInitiator and DenyInitiator are two steps, since
they read InitiatorIds and write the whole list back. `vol[v]` is what the
provisioner knows, `id[v]` the answered volume ID, `grant[v][n]` the last answer
the attacher got. `CreatePV`, `Rollback` and `Forget` are the three ways the
reconciler goes on after CreateVolume.

One create or delete call and one publish or unpublish call per volume run at a
time: each reconciler has one worker, and gRPC clients serialise per volume. The
two run beside each other. Publish calls may come with a stale PV, that is, also
for a volume being deleted or gone.

### AbstractVolume and ControllerServerRefinement

`AbstractVolume` knows no targets, mappings, scripts or failures: a volume has a
phase, serves a capacity or nothing, lets some nodes in, and has at most one attach
request whose answer is true when it is given. Under the mapping a volume is
provisioned from the answer of CreateVolume to the call that undoes it (a
rollback withdraws it, DeleteVolume removes it), it serves the size of its own
disk if that is registered and mapped at LUN 0 of its target, access is
InitiatorIds, and a request lasts as long as its publish or unpublish call. Each
script of each handler must then be an abstract step or change nothing visible:
no single script of a retried sequence may interrupt a provisioned volume or touch
the access of a node nobody asked about.

### FileShareController

`win` is the file half of the Windows server: the shares, what is at each share
path (nothing, a directory, a mounted VHDX), attached images, VHDX files,
directory quotas. A script is the sequence of server states after each of its
steps and whether the last one throws; a failed call leaves any of these states,
and one the driver gave up on (`late`) runs to its end at any later time. `stale`
remembers which abandoned scripts of a volume ran at some time since its last
CreateVolume or DeleteVolume began; the properties use it to say which of them
they except. NFS and SMB run the same steps with other cmdlets and are one model:
`CreateVolumeGet` and `Lookup` are mapped to the NFS functions, the steps that
follow to the SMB ones, which read the same. The
provisioner is as above (restores come from an external one, which rolls back in
the same way); ControllerExpandVolume comes from a resizer and runs beside the
deletion. Sizes, permissions and share options are left out; GetVolumeInfo of an
export only reads a size and its error is ignored, so it is no step.

### InternalKubernetes

One claim, the PV and backend volume named after it, one VolumeAttachment per
node. `pv`, `pvc` and `va` are the stored objects, `pvCache`, `pvcCache` and
`vaCache` the driver's informers, each moved to the stored state by its own Sync
action. Each reconcile is cut at every API and backend call; between two the
worker keeps what it read. Writes with a resourceVersion fail when the object
changed. The backend is abstracted to `disk` and `access`, with the outcomes that
`ControllerServer` has for whole calls: CreateVolume may leave a part, a broken
DeleteVolume may leave an unregistered file. Binder, attach/detach controller,
kubelet and administrators are external actions; what goes beyond an orderly
cluster is switched on by `Adversity`.

### NodeServer

Sessions, devices (`dev[d]`: whose disk has the name), connector files, staging
mounts and the stack of mounts on each target path. Handlers are cut at each
initiator call, file write and mount. Devices appear some time after login
(`AttachLun`) under any free name. kubelet (`phase`) repeats failed calls and
makes one call per volume at a time; calls for different volumes interleave.
`Restart` ends the driver, `Reboot` the node: files stay, mounts and devices do
not, sessions may come back, and kubelet stages a volume again or publishes it at
once. A file system whose device is gone stays mounted and is `"dead"`. `iface` is
the iSCSI interface that the volumes in `Custom` name: a Connect that finds no
device has iscsiadm delete it. The default interface iscsiadm refuses to delete.

### VolumeId and Snapshots

The driver keeps no record of its volumes: what it knows is in the volume ID. In
`VolumeId` a URI is its scheme, host, path segments and query, and a host one of
the eight texts that url.Parse, defaultPort, hostOnly, targetPortalAddress,
validateTargetPortal and connectTarget treat differently. The path is what url.Parse
gives, which has undone the PathEscape of the encoder; the decoder's pathSegments
unescapes it again (`Unescape`, a constant operator). NFS exports are `/name`, the
only paths Windows answers with. A legacy ID is the JSON object in its base64: a
key may be missing, and nothing is validated.
`NodeSource` puts publish context, volume context and ID together the way the
node service does.

In `Snapshots` a volume is created, imported by a handle written by hand,
restored from a snapshot, expanded and deleted in single steps (their scripts
are the subject of `ControllerServer` and `FileShareController`), and each later
step goes by the stored ID alone. `disk[p]` is a size and a count of writes,
`snaps` what Windows has, `content[c]` what Kubernetes stores of a snapshot.
A restored iSCSI volume that is too small for its claim is not bound; a restored
share is, with the larger of request and disk. CreateSnapshot is the checkpoint and
the search that follows it: a checkpoint may be listed some time after it was taken, the answer may be lost, and the
driver may give up on a script that still runs (`late`). DeleteSnapshot answers
with success when the backend fails.

Paths and target names are made from volume names, and `NameAssumption` says what
that needs: names are not empty and have no escapes (the provisioner's are
`pvc-<uid>`), different names give different paths, and a
directory is not the path of a virtual disk. `Importable` says which handles an
administrator may write: an iSCSI portal that parses, is valid and has the port the
target listens on, a share server without port, and an access mode the protocol
supports. The driver checks none of it.

## 3. Runs

| Run | Instance | What it shows |
| --- | --- | --- |
| `controller` | 1 volume, 2 nodes, 2 sizes, 3 faults, fair | answers of create, delete, publish, unpublish stay true; the proofs' invariant `DisksAgree` holds; `AbstractVolume` is implemented; retries of create and delete converge |
| `controller_late` | 1 volume, 1 node, snapshots, 5 faults, up to 3 abandoned scripts at once, every one but DeleteTarget | CHAP comes before access even so |
| `controller_chap` | violation | a retried CreateVolume answers without CHAP |
| `fileshare` | 1 volume of either kind, empty or restored, 3 faults, each of them perhaps an abandoned script, fair | a share shows its own storage, deletion is complete, retries converge or are refused for good, but for the abandoned scripts of section 6 |
| `kubernetes` | 2 nodes, 2 PVs, 2 VolumeAttachments, 2 faults, both policies | one node at a time, nothing in use is deleted, Retain keeps, Delete cleans up |
| `kubernetes_storm` | lost answers, PVs deleted or patched by hand, lost nodes | which of these survive even then |
| `kubernetes_live` | 1 node that may be lost, a PV that may be patched to Retain, 1 fault, fair | claims are bound, pods get volumes, detach and reclaim finish but for a lost node; a patch the provisioner has seen is honoured |
| `kubernetes_answer` | violation | a lost answer of the PV create destroys the storage of a stored PV |
| `node` | 2 volumes of every mode over one custom interface, every adversity, 3 faults | unpublish and unstage leave nothing, no pod of an iSCSI volume sees a staging path nothing is mounted on |
| `node_pair` | 2 volumes, one with a custom interface, 2 device names, 2 faults, fair | volumes do not meet through device names; stage converges unless its interface was deleted |
| `node_device` | violation | unstage of one volume deletes the device of another |
| `snapshots` | 2 volumes, 2 snapshot names, 2 exports, 1 write, 1 fault | handles lead controller, node and initiator to the storage that was made; snapshots and restores hold the volume as it was; only failures leak; capacities answered are there |

### Bounds

`MaxFaults` bounds the failures in a behaviour, not the retries: three reach
every combination of a failed create, a failed rollback and a failed retry, which
is as deep as the handlers remember anything (a retry starts from the server
state alone). The properties that a volume's calls do not disturb other volumes
are not left to the bound: the proofs hold for any number of volumes. Two nodes
are the least with which a pod can move, two PVs and VolumeAttachments the least
with which an object is created again under the same name while caches still show
the first. Two device names and two volumes are the least with which a name is
reused. In `controller_late` the bounds are those at which TLC does find
`ChapBeforeAccess` violated once DeleteTarget may be abandoned too (section 6): the
condition is in the property, not in the bounds, and the proof has no bounds.
`Export` has one path more than `MaxFaults`, so that no retry lacks one in `fileshare`.
In `snapshots`, volume a is claimed or imported under each combination of
protocol, share backend, address form and access mode worth telling apart and
volume b restored from a snapshot of it; sizes are in half GiB up to 3, on both
sides of the 1 GiB minimum; an assumption of `MCSnapshots` evaluates the round trip of
a name with an escape; one write tells before from after, one fault a first
attempt from its retry, and two snapshots are the least with which one can be
taken for the other.
Nodes, devices, snapshot names and, in `ControllerServer`, exports are symmetric where
a run has no liveness property.

### Fairness

Handlers that have begun go on (WF): they are goroutines, and every call in them
ends by its timeout. Failed calls are made again (WF on the call being made):
the workqueues re-queue a key until its reconcile succeeds, external sidecars and
kubelet retry without limit. In `InternalKubernetes`, reconciles of deletions and
of each VolumeAttachment have SF: every cached object is queued again at each
resync (5 s) and a queue serves its keys in order, so an object that needs work
again and again is not passed over although the single worker is busy in between.
Informers catch up (WF). Nothing obliges anyone to delete a claim, expand a
volume, start or stop a pod, and faults are never fair.

`Snapshots` has no fairness: its calls are single steps, or two, and end by
themselves, so their convergence would only restate that a caller retries.

`CHECK_DEADLOCK FALSE` stands where the system may stop: a claim and its volume
gone, or the bound on new objects reached.

## 4. Proofs

The theorems hold for any sets of volumes, nodes, paths, sizes and devices and any
bound on faults and objects. What else a theorem assumes stands in its
statement; each such assumption is a limit of the code, and section 6 or a run
shows what happens without it. Assumptions on constants are named in the module
that declares them, and TLC evaluates them. They say of what kind the parameters
are and that names do not collide (a volume is not an exported path, a device is
not called "none").

None of the properties is inductive. The invariants below add what the calls in
flight may still do. The proofs have the same shape: one lemma or case per action
says what the step may have changed and that it keeps the invariant, and where there
are several volumes a frame lemma says that a step for one leaves the others alone.

### iSCSI volumes

- `TypeCorrect` (`ControllerServerProofs`): every reachable state is well typed,
  abandoned scripts included. One lemma per way a call goes on, one per handler.
- `CallsAgreeInvariant` (`ControllerServerSafety`, `MaxLate = 0`): the invariant
  `CallsAgree` is inductive.
  `DeletedIsGone` needs that a delete call about to remove the target has already
  removed the disk it names, and that a publish call still running cannot write
  initiators to a target that is gone (`CallInv`). `GrantedIsAllowed` and
  `RevokedIsDenied` need that, between reading InitiatorIds and writing it back,
  nobody else has written the list (`AccessInv`). That one volume's calls leave
  the others alone needs that no two volumes name the same path
  (`PathsDisjoint`), since exports are handed out at run time. The argument: a
  step of volume v touches only what belongs to v (`OthersKeep`), and keeps v's
  own part (`Keeps`), one case per action.
- `DeletionIsComplete`, `GrantsHold`, `RevocationsHold`: the properties that follow
  from it.
- `ChapComesFirst` (any `MaxLate`, nothing assumed): `ChapBeforeAccess`, which is
  about drivers that never give up on a DeleteTarget. Its invariant `ChapAgrees` is
  apart from `CallsAgree`, which abandoned scripts break: before a volume is bound
  nothing lets an initiator in and no abandoned script will; from then on whatever
  will, a call between its CHAP step and its write or an abandoned write
  (`Letting`), was begun when the target asked for CHAP, and no script left takes
  the target away from a bound volume.
- `DisksAgreeInvariant` and `CreationIsTruthful` (also `Source = {"empty"}`):
  what CreateVolume answers is true until DeleteVolume is called. The invariant
  adds what each step of CreateVolume knows about disk, size and mapping.
- `Implements` (`ControllerServerRefinementProofs`, both assumptions):
  `ControllerServer` implements `AbstractVolume`. `Shown` adds to the invariants
  above that a disk is never empty and that an attacher without a call has no
  node. A step for v keeps the frames of the others (`OthersKeep` again), so it
  shows in v alone (`Shows`); then each action is matched with one abstract step,
  or with none.

The two assumptions of the others are real limits: with abandoned scripts or
retried restores the properties are false (section 6).

### NFS and SMB shares

`TypeCorrect`, `ShareServed` and `ShareGone` (`FileShareControllerProofs`): any
volumes of either kind, empty or restored, any faults and abandoned scripts,
expansions beside deletions. The two properties themselves except abandoned scripts
of the same volume that work the other way: `ShareIsServed` those of a rollback
that were running when CreateVolume began, `ShareIsGone` those of a CreateVolume or
expansion that were running when DeleteVolume began or were given up on since
(`Haunted`). Without the exception they are false (section 6).

A script is a sequence of server states and a failed call leaves any of them, so each script is first reduced to what it may have
done wherever it stopped (`MountScript`, `DeleteDiskScript` and so on; `Ran` links
them to a call). `ShareInv` then says, for each place CreateVolume,
DeleteVolume or an expansion can be, what the scripts before it have left
(`CreateOK`, `DeleteOK`, unless the volume is haunted), and that a directory-backed
volume never has a disk at its path (`DirOK`). That an expansion beside a deletion
cannot undo it rests on the order of DeleteVolume's scripts: once the VHDX is gone there is
nothing an expansion could mount. `ApartOK` says that no two volumes name the same
path (`Named`, abandoned scripts included), which the frames of the other volumes
need: exports are handed out at run time here too.

### Provisioner and attacher

`InternalKubernetesProofs`, under every `Adversity`:

- `SingleNode` and `AccessTracked`. The invariant `AttachInv` says what a worker
  between two calls may still believe. An attach call under way was begun for a
  VolumeAttachment that has the finalizer, and since only the one worker takes
  finalizers away, and only after a detach, the object stays until the call has
  ended (`AttacherInv`). A finalizer the cache shows is still there unless the
  cached object was being deleted, and deletion is not taken back
  (`AttachmentInv`). A node with access excludes every other node's
  VolumeAttachment and access (`AccessInv`).
- `CleanBeforeGone`: the finalizer of a PV with policy Delete is missing only if the
  storage is, and a worker about to remove it has removed the storage (`CleanInv`).

Each with the adversities it excludes:

- `BoundStorage`, `MountServed` (`NoSurprise`: no lost answer, no PV deleted while
  its claim is there). While the claim is there the provisioner only creates, and
  creates or rolls back only while there is no PV (`BoundInv`); a mounted pod has an
  attached VolumeAttachment whose access nobody is taking away (`MountInv`). Run
  `kubernetes_answer` shows the lost answer.
- `PolicyFollowed` (`PolicyStays`: no lost answer, no patch to Retain): every PV,
  stored or cached, has the policy of the class, and the provisioner deletes storage
  for the policy Delete only (`PolicyInv`).
- `PatchHonoured` (`NobodyDeletes`: nobody deletes the PV by hand; answers may be
  lost): only the provisioner has a PV deleted, and only behind the deletion of its
  storage (`DeletionInv`), so once the patch is seen there is nothing left for the
  provisioner to do, and no step leads out of that state (`Patched`).

### Node

- `TypeCorrect`, `UnpublishedClean`, `UnstagedClean` (`NodeServerProofs`): any
  number of volumes, every `Adversity`. `NodeInv` says for each volume what each
  step of a handler knows of its own call (`CallOK`), of the mounts on its target
  path (`PathOK`) and of session and connector file (`HostOK`), and that devices
  come from sessions (`SessionInv`). It never says whose disk a device name
  leads to: with failing unstage calls that is not known.
- `PublishedMounted`: any number of volumes, every `Adversity`. What a pod of an
  iSCSI volume sees was mounted at its staging path, which need not be its own disk:
  two volumes can get each other's when unstage fails or names move in a reboot. A
  share may be published over nothing, and then nothing is staged (section 6).
- `MountsOwn`, `DevicesStay`: any number of volumes, while
  only connecting and mounting fail (`Adversity \subseteq {"connect", "mount"}`).
  `NamesInv` adds that each name a volume goes by, in the connector file, in a
  handler and in what is mounted, leads to its own disk. The assumption
  is as weak as it can be: with any one of the other five adversities added (a
  connector file that is not written or not whole, an unstage that fails, a rescan that times out, a restart,
  a reboot) TLC finds each of the two properties violated on two volumes and two
  device names. Run `node_device` keeps the failing unstage.

### Volume IDs

`VolumeIdProofs`, about the operators of `VolumeId`:

- `RoundTrip`: what EncodeVolumeID writes, decodeAnyVolumeID reads back, every
  field of it, but that the IQN, the export or the share name is unescaped once more
  than it was escaped (`Unescaped`, section 6), for every struct with a name, a host that parses and what its
  protocol cannot do without (`Writable`; a share whose server is a bare IPv6
  address is not, section 6). `Says` stands between: a URI says a struct if host,
  segments and query hold its fields where the decoder looks for them. What is
  encoded says its struct (`EncodedSays`), and what is said is read (`SaidIsRead`).
- `NodeFinds`: the node stages from where the struct says, if publish context, volume
  context and ID each say it or are silent and one of them is not.

### Handles, snapshots and leaks

`SnapshotsProofs`: `TypeCorrect`, `HandlesAlwaysAgree`, `SnapshotsAlwaysTrue`,
`CapacityAlwaysThere` and `LeaksAlwaysFailures`, for any volumes, claims, imports,
snapshot names and exports and any bounds on sizes, writes and failures, under the
assumptions on names and imports in `Snapshots` and no other. Abandoned scripts
are included.

- A handle is `Written` once, by CreateVolume or by hand, and decodes to the struct
  that was `Meant` for the volume, its path and a capacity, unescaped once (`RoundTrip`; an imported
  URI has no attributes for its server and is shown to say the same struct).
- `SafeInv` is the inductive invariant of the first four. A volume was written down
  with a capacity that answers its claim (`Origin`), and is there with at least the
  size Kubernetes shows until it is deleted, but for restored shares that asked for
  more than the snapshot has, which are shown with what they asked for (`VolumesOk`). No two volumes, deleted
  ones included, were ever given the same disk (`OwnPaths`): without it an expansion
  or a deletion by handle could hit another's. An answered snapshot ID is never
  given again, names a snapshot with that description and data between request and
  answer (`ContentsOk`, `SnapshotsOk`, `NamesOk`, `UniqueIds`), and an abandoned
  removal only removes what is being deleted (`LatesOk`).
- `LeakInv` counts: snapshots nobody can name, disks exported for nobody and
  abandoned checkpoints still to come are together at most the failures so far. The
  third term makes it inductive: a late checkpoint leaks in a step without failure,
  and was paid for when the driver gave up on it. When the search of a retried
  CreateSnapshot answers with an older snapshot because the newer one is not listed
  yet, the newer one is left and the older one, counted until then, is named.
- Each action is first reduced to what it changes (`StorageStep`, `SnapshotStep`,
  `LeakStorage`, `LeakSnapshots`), so that a proof per action only has to say what
  becomes of the one volume or snapshot it is about.

### Only model-checked

- Every liveness property: fairness and ENABLED are beyond the prover.
- Nothing is claimed of `ControllerServer` with abandoned scripts but its types and
  `ChapBeforeAccess`, and both are proved.

Every safety invariant and action property of a passing run is a theorem as well.

## 5. Findings

Each is a run that TLC refutes; `PROJECT.json` quotes the lines.

1. `controller_chap`: the existing-volume path of CreateVolume never configures
   CHAP. If the first attempt failed after CreateVirtualDisk, the retry answers
   with a target that asks for none. (ControllerPublishVolume configures it again
   when the class names a controller-publish secret: `ChapBeforeAccess` holds.)
2. `kubernetes_answer`: a PV create that is stored although its caller gets an
   error is rolled back; the claim binds to a PV without storage.
3. `node_device`: unstage trusts the device name in the connector file.

## 6. Known limits of the code

Reached in the models, not stated as properties:

- A retried restore of an iSCSI volume exports and maps a second disk to the same
  target, at a LUN other than the 0 the volume ID says ("Single-disk target →
  LUN 0", `backend_winrm.go`). This is why CreatedIsUsable is checked and proved
  for claims without a content source.
- An abandoned AllowInitiator or DenyInitiator script writes an old InitiatorIds
  list over a newer one: the node a pod moved to loses access, or the node it
  left keeps it. Hence `MaxLate = 0` in the runs and proofs about access.
- Abandoned scripts can undo CHAP if the DeleteTarget of a rollback is among them:
  an EnsureTarget, an UnmapDiskFromTarget and a DeleteTarget of earlier attempts and
  rollbacks finish between the CHAP step of ControllerPublishVolume and its write of
  InitiatorIds. The target is then removed and made again without CHAP, and gets its
  initiators. `ChapBeforeAccess` leaves this case out by name; with DeleteTarget in
  `Abandoned` TLC finds it with `MaxLate = 3` and `MaxFaults = 5`.
- An abandoned Dismount, DeleteVirtualDisk or DeleteNfsShare of a rollback may finish
  after the retried CreateVolume has answered: the share shows nothing, or is gone.
  An abandoned script of a CreateVolume or an expansion may finish after DeleteVolume
  has answered and make the directory, its quota, the share or the VHDX again, which
  nobody then deletes (`Haunted` in `FileShareController`).
- An abandoned ResizeFileShare that meets the plain directory of a VHDX-backed share
  leaves `.csi-volume.json` in it. From then on neither the mount of a retried
  CreateVolume nor the Remove-Item of a DeleteVolume succeeds (`Littered`).
- Deleting the PV object of a bound claim deletes the storage.
- A rollback that fails is not repeated once its claim is gone; a rollback that
  unregisters the VHDX and does not delete the file blocks the name for ever.
- A VolumeAttachment for a node whose CSINode is gone keeps its finalizer.
- A VHDX-backed share restored from a snapshot cannot be retried once it is
  mounted or shared, and a half-done rollback of a VHDX-backed share makes every
  further CreateVolume FailedPrecondition (`Stuck` in `FileShareController`).
- An expansion in flight may make the directory and the quota of a deleted
  directory-backed share again (`beside`).
- When NodeUnstageVolume has removed the device and the logout fails, the retry
  cannot load the connector: lsblk fails for a device that is gone, its text never
  matches isMissingMountTargetDevice, and unstage fails for ever. The test
  `TestNodeUnstageVolume_UsesPersistedConnectorWhenDeviceAlreadyRemoved` expects
  success, for an error text GetConnectorFromFile cannot produce.
- After a reboot a share that kubelet publishes without staging it first is bound
  from the bare staging directory: NodePublishVolume looks for a mount there only for
  iSCSI volumes. `PublishedIsMounted` excepts it.
- After a reboot, or an unstage that failed halfway, the device name in a connector
  file may be that of another volume's disk, and RecoverStaging mounts it. Run
  `node_device` shows the unstage; `MountsAreOwn` is checked and proved without them.
- A Connect that finds no device, for whatever reason, deletes its iSCSI interface.
  With a custom interface no volume that names it is staged again until somebody makes
  the interface anew (`NoInterface`). `StageConverges` excepts it; it is also checked
  without failing unstages and without connector files that are not whole, after which
  a stage may fail for ever.
- A share whose server is a bare IPv6 address gets an ID that url.Parse refuses:
  DeleteVolume takes it for a volume that is gone, answers with success and
  leaves the share (`BareIPv6` in `Snapshots`).
- iSCSI over IPv6 does not connect: validateTargetPortal accepts
  `[ipv6]:port`, connectTarget cuts it at every colon (`IPv6Portal`). An imported
  `iscsi://[ipv6]/...` without a port is refused by the node, since defaultPort
  takes the colons of the address for a port.
- The server of an imported share loses its port: hostOnly cuts it off when the ID is
  decoded (`Importable` leaves such handles out).
- Names are unescaped twice when an ID is decoded: an IQN, export or share called
  `a%41` comes back as `aA`, and the handle leads nowhere. An NFS export imported with
  more than one segment is not modelled.
- A VHDX-backed share restored with a request above the snapshot's size is answered
  with the request, while the disk keeps the size of the snapshot (`Shown`).
- A capacity limit below 1 GiB is exceeded: the size is raised to the minimum
  after the limit was checked.
- A restored iSCSI volume whose GetVolumeInfo fails is answered with capacity 0;
  the caller assumes the size it asked for, and a later expansion may name less
  than the disk has.
- Each repeated CreateSnapshot and each repeated restore leaves one snapshot or one
  exported disk behind, and an error in DeleteSnapshot leaves the snapshot
  (`LeaksAreFailures` counts them).
- ControllerGetVolume of a share answers the capacity in its ID, which an
  expansion does not change.
- Only the first access mode of a claim is validated while the PV gets all of them:
  ReadWriteOnce with ReadWriteMany is provisioned on iSCSI.
- Between a patch of a PV to Retain and the moment the informer shows it, the
  storage may still be deleted.
- After a restart NodeUnpublishVolume, and NodePublishVolume of a share, use a
  mounter that only other calls make: the driver dies and is restarted until such a
  call comes first.
- When ResizeFileShare fails after a share is made, the retry finds the share and
  answers without a quota.
- A rescan that takes longer than 3 s logs out a session in use; it is excluded
  from the run of MountsHaveDevices.

## 7. Not modelled, and the plan

Not modelled, and why:

- start-up wiring, flags, gRPC plumbing, identity service and logging: no protocol
  state; deployment scripts and the chart are not part of the program;
- leader election: the lease protocol is client-go's, and the driver ends when it
  loses the lease. To the Windows server and the API server that is a restart with
  abandoned scripts, which the models have;
- a restart of the Windows server: whether images are attached again and what a
  share then shows is up to Windows, and the driver has no code for it;
- a second NodeStageVolume for a volume beside a first that kubelet gave up on:
  NodeServer has one handler per volume; see the plan;
- shadow-copy snapshots, which only DeleteSnapshot still recognises, and
  RestoreSnapshotAsFileShare, which nothing calls;
- statistics and capability answers (they change nothing), multipath maps (the node
  service connects to one portal), share options and permissions.

What is left to model: late handlers in `NodeServer` (the 120 s device wait against
kubelet's timeout), which needs more than one handler per volume.
