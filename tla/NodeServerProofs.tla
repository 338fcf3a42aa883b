--------------------------- MODULE NodeServerProofs ---------------------------
(***************************************************************************)
(* The safety proofs of NodeServer, for any number of volumes, devices and *)
(* faults: first what holds under every adversity, then what needs that    *)
(* only connecting and mounting fail.                                      *)
(***************************************************************************)
EXTENDS NodeServer, TLAPS

-----------------------------------------------------------------------------
CallRec == [pc : PC, name : Device \cup {none}, disk : Volume \cup {none}]

Types ==
    /\ mode \in [Volume -> Mode]
    /\ session \subseteq Volume /\ pending \subseteq Volume
    /\ dev \in [Device -> Volume \cup {none}]
    /\ connector \in [Volume -> Device \cup {none, "bad"}]
    /\ staging \in [Volume -> Mounted]
    /\ target \in [Volume -> Seq(Shown)]
    /\ call \in [Volume -> CallRec]
    /\ phase \in [Volume -> Phase] /\ answered \subseteq Volume
    /\ inited \in BOOLEAN /\ faults \in 0..MaxFaults

(* What kubelet and a handler know of each other: which call runs in which  *)
(* phase, and what the handler has found before it goes on.                 *)
CallOK(v) ==
    /\ call[v].pc \in {"login", "wait", "persist", "mount"} =>
         phase[v] = "wanted" /\ v \notin answered
    /\ call[v].pc \in {"login", "wait", "persist"} => mode[v] # "share"
    /\ call[v].pc = "persist" => call[v].name \in Device
    /\ call[v].pc \in {"recover", "bind"} => phase[v] = "staged"
    /\ call[v].pc = "recover" => mode[v] # "share"
    /\ call[v].pc = "bind" /\ mode[v] = "block" => call[v].disk \in Volume
    /\ call[v].pc = "bind" /\ mode[v] = "mount" => staging[v] # none
    /\ call[v].pc \in {"load", "remove", "logout", "cleanup"} => phase[v] = "unstage"

(* The target path: a publish call that fails leaves at most one mount more *)
(* than before, and costs a fault.  Unpublish goes on until the path is     *)
(* gone; what a pod sees is a mount, unless it is a share not staged.       *)
PathOK(v) ==
    /\ phase[v] \in {"wanted", "staged"} => Len(target[v]) <= faults + 1
    /\ Len(target[v]) <= faults + 2
    /\ phase[v] \in {"unstage", "gone"} => target[v] = <<>>
    /\ phase[v] = "published" =>
         /\ Len(target[v]) > 0
         /\ target[v][Len(target[v])] = "dir" => mode[v] = "share" /\ staging[v] = none

(* A session belongs to an iSCSI volume.  An unstage call that finds no     *)
(* connector file, of a volume that had been staged, is a repetition: the   *)
(* session has gone before the file.                                        *)
HostOK(v) ==
    /\ mode[v] = "share" => v \notin session
    /\ call[v].pc = "remove" => call[v].disk # none
    /\ call[v].pc \in {"remove", "logout", "cleanup"} => staging[v] = none
    /\ call[v].pc = "mount" /\ mode[v] # "share" => connector[v] # none
    /\ v \in answered /\ (connector[v] = none \/ call[v].pc = "cleanup") => v \notin session
    /\ phase[v] = "gone" => staging[v] = none /\ connector[v] = none

OwnOK(v) == CallOK(v) /\ PathOK(v) /\ HostOK(v)

(* Devices and LUNs to come belong to sessions. *)
SessionInv ==
    /\ pending \subseteq session
    /\ \A d \in Device : dev[d] # none => dev[d] \in session

NodeInv == Types /\ SessionInv /\ \A v \in Volume : OwnOK(v)

(* At the start no volume is on the node. *)
LEMMA NodeInit == Init => NodeInv
<1> SUFFICES ASSUME Init PROVE NodeInv OBVIOUS
<1>1. Types
  <2>1. Idle \in CallRec BY DEF Idle, CallRec, PC
  <2>2. target \in [Volume -> Seq(Shown)]
    <3>1. <<>> \in Seq(Shown) OBVIOUS
    <3> QED BY <3>1 DEF Init
  <2>3. call \in [Volume -> CallRec] BY <2>1 DEF Init
  <2>4. staging \in [Volume -> Mounted] /\ phase \in [Volume -> Phase]
    BY DEF Init, Mounted, Phase
  <2>5. faults \in 0..MaxFaults BY LimitAssumption DEF Init
  <2>6. inited \in BOOLEAN BY DEF Init
  <2> QED BY <2>2, <2>3, <2>4, <2>5, <2>6 DEF Init, Types
<1>2. ASSUME NEW v \in Volume PROVE OwnOK(v)
  <2>1. call[v].pc = "idle" /\ phase[v] = "gone" /\ target[v] = <<>> /\ staging[v] = none
        /\ connector[v] = none /\ session = {} /\ faults = 0
    BY DEF Init, Idle
  <2> QED BY <2>1, LimitAssumption DEF OwnOK, CallOK, PathOK, HostOK
<1>3. SessionInv BY DEF Init, SessionInv
<1> QED BY <1>1, <1>2, <1>3 DEF NodeInv

-----------------------------------------------------------------------------
(* What a step for v may do to the rest: the devices under other file       *)
(* systems may go, and a driver that dies forgets all calls.                *)
Frame(v) ==
    /\ Types' /\ SessionInv'
    /\ mode' = mode /\ faults <= faults'
    /\ \A w \in Volume \ {v} :
         /\ call'[w] \in {call[w], Idle} /\ phase'[w] = phase[w]
         /\ connector'[w] = connector[w] /\ target'[w] = target[w]
         /\ w \in answered' <=> w \in answered
         /\ w \in session' => w \in session
         /\ staging'[w] = staging[w] \/ (staging[w] # none /\ staging'[w] = "dead")

(* Such a step keeps the invariant if it keeps it for v. *)
LEMMA StepKeeps ==
    ASSUME NEW v \in Volume, NodeInv, Frame(v), OwnOK(v)'
    PROVE  NodeInv'
<1>1. ASSUME NEW w \in Volume, w # v PROVE OwnOK(w)'
  <2>1. OwnOK(w) /\ Types /\ Types' BY DEF NodeInv, Frame
  <2>2. /\ mode' = mode /\ faults <= faults' /\ faults \in Nat /\ faults' \in Nat
        /\ call'[w] = call[w] \/ call'[w].pc = "idle"
        /\ phase'[w] = phase[w] /\ connector'[w] = connector[w] /\ target'[w] = target[w]
        /\ w \in answered' <=> w \in answered
        /\ w \in session' => w \in session
        /\ staging'[w] = staging[w] \/ (staging[w] # none /\ staging'[w] = "dead")
        /\ Len(target[w]) \in Nat
    BY <1>1, <2>1, LimitAssumption DEF Frame, Idle, Types
  <2>3. CallOK(w)' BY <2>1, <2>2, NamesAssumption DEF OwnOK, CallOK
  <2>4. PathOK(w)' BY <2>1, <2>2 DEF OwnOK, PathOK
  <2>5. HostOK(w)' BY <2>1, <2>2, NamesAssumption DEF OwnOK, HostOK
  <2> QED BY <2>3, <2>4, <2>5 DEF OwnOK
<1> QED BY <1>1 DEF NodeInv, Frame

(* How a handler's step ends: it goes on, answers with an error or answers  *)
(* with success.                                                            *)
Steps(v) ==
    /\ call' \in [Volume -> CallRec] /\ phase' \in [Volume -> Phase] /\ answered' \subseteq Volume
    /\ \A w \in Volume \ {v} : /\ call'[w] = call[w] /\ phase'[w] = phase[w]
                               /\ w \in answered' <=> w \in answered

Went(v, pc, d, w) ==
    /\ Steps(v) /\ call'[v] = [pc |-> pc, name |-> d, disk |-> w]
    /\ phase'[v] = phase[v] /\ answered' = answered

Failed(v) == Went(v, "idle", none, none)

Done(v, p) ==
    /\ Steps(v) /\ call'[v] = Idle /\ phase'[v] = p
    /\ answered' = IF p = "staged" THEN answered \cup {v} ELSE answered

(* Goto, Error and Success do that. *)
LEMMA Answers ==
    ASSUME Types, NEW v \in Volume
    PROVE  /\ \A pc \in PC, d \in Device \cup {none}, w \in Volume \cup {none} :
                Goto(v, pc, d, w) => Went(v, pc, d, w)
           /\ Error(v) => Failed(v)
           /\ \A p \in Phase : Success(v, p) => Done(v, p)
<1>1. ASSUME NEW pc \in PC, NEW d \in Device \cup {none}, NEW w \in Volume \cup {none}, Goto(v, pc, d, w)
      PROVE  Went(v, pc, d, w)
  BY <1>1 DEF Goto, Went, Steps, Types, kubelet, CallRec
<1>2. ASSUME Error(v) PROVE Failed(v)
  BY <1>2 DEF Error, Failed, Went, Steps, Types, kubelet, CallRec, Idle, PC
<1>3. ASSUME NEW p \in Phase, Success(v, p) PROVE Done(v, p)
  BY <1>3 DEF Success, Done, Steps, Types, CallRec, Idle, PC
<1> QED BY <1>1, <1>2, <1>3

(* What iscsiadm may do for v: nothing, log in or rescan, log out, or       *)
(* delete the device.                                                       *)
Iscsiadm(v) ==
    \/ UNCHANGED <<session, pending, dev, staging>>
    \/ mode[v] # "share" /\ LogIn(v)
    \/ LogOut(v)
    \/ /\ Detach({v}) /\ session' = session
       /\ pending' = pending \/ (v \in session /\ pending' = pending \cup {v})

HostFrame(v) ==
    /\ session' \subseteq Volume /\ pending' \subseteq session' /\ SessionInv'
    /\ dev' \in [Device -> Volume \cup {none}] /\ staging' \in [Volume -> Mounted]
    /\ \A w \in Volume \ {v} :
         /\ w \in session' => w \in session
         /\ staging'[w] = staging[w] \/ (staging[w] # none /\ staging'[w] = "dead")
    /\ v \in session' => v \in session \/ mode[v] # "share"

(* The devices of some volumes go. *)
LEMMA Detaching ==
    ASSUME Types, NEW W, none \notin W, Detach(W)
    PROVE  /\ dev' \in [Device -> Volume \cup {none}] /\ staging' \in [Volume -> Mounted]
           /\ \A d \in Device : dev'[d] = IF dev[d] \in W THEN none ELSE dev[d]
           /\ \A w \in Volume : \/ staging'[w] = staging[w]
                                \/ staging[w] \in W /\ staging'[w] = "dead" /\ staging[w] # none
BY DEF Detach, Types, Mounted

(* Whatever iscsiadm does, devices belong to sessions. *)
LEMMA Kernel ==
    ASSUME NodeInv, NEW v \in Volume, Iscsiadm(v)
    PROVE  HostFrame(v) /\ (staging[v] = none => staging'[v] = none)
<1> USE DEF NodeInv
<1>n. none \notin {v} BY NamesAssumption
<1>1. CASE UNCHANGED <<session, pending, dev, staging>>
  BY <1>1 DEF HostFrame, SessionInv, Types
<1>2. CASE mode[v] # "share" /\ LogIn(v)
  BY <1>2 DEF LogIn, Attachable, HostFrame, SessionInv, Types
<1>3. CASE LogOut(v)
  BY <1>3, <1>n, Detaching DEF LogOut, HostFrame, SessionInv, Types
<1>4. CASE /\ Detach({v}) /\ session' = session
           /\ pending' = pending \/ (v \in session /\ pending' = pending \cup {v})
  BY <1>4, <1>n, Detaching DEF HostFrame, SessionInv, Types
<1> QED BY <1>1, <1>2, <1>3, <1>4 DEF Iscsiadm

(* A step that ends like a handler's, treats the host like one, and leaves  *)
(* files and mounts of other volumes alone, is framed.                      *)
LEMMA Framed ==
    ASSUME NodeInv, NEW v \in Volume, Steps(v), HostFrame(v), mode' = mode,
           connector' \in [Volume -> Device \cup {none, "bad"}], target' \in [Volume -> Seq(Shown)],
           \A w \in Volume \ {v} : connector'[w] = connector[w] /\ target'[w] = target[w],
           inited' \in BOOLEAN, faults' \in 0..MaxFaults, faults <= faults'
    PROVE  Frame(v)
BY DEF NodeInv, Frame, HostFrame, Steps, Types, SessionInv

(* Faults are counted. *)
LEMMA Counted ==
    ASSUME Types, UNCHANGED faults \/ \E k \in Adversity : Fault(k)
    PROVE  faults' \in 0..MaxFaults /\ faults <= faults'
BY LimitAssumption DEF Types, Fault

(* Nothing on the host changes. *)
LEMMA Still ==
    ASSUME NodeInv, NEW v \in Volume, UNCHANGED <<session, pending, dev, staging>>
    PROVE  HostFrame(v)
BY Kernel DEF Iscsiadm

-----------------------------------------------------------------------------
(* Connecting: NodeStageVolume and the calls of iscsilib. *)
LEMMA StageKeeps == ASSUME NEW v \in Volume, NodeInv, NodeStageVolume(v) PROVE NodeInv'
<1>1. Steps(v) /\ call'[v].pc = (IF mode[v] = "share" THEN "mount" ELSE "login")
      /\ phase'[v] = phase[v] /\ v \notin answered'
  BY NamesAssumption DEF NodeStageVolume, NodeInv, Types, Steps, CallRec, PC
<1>2. UNCHANGED <<mode, host, connector, phase, faults>> /\ inited' = TRUE /\ phase[v] = "wanted"
  BY DEF NodeStageVolume
<1>3. Frame(v)
  BY <1>1, <1>2, Still, Framed, Counted DEF NodeInv, Types, host
<1>4. OwnOK(v)'
  BY <1>1, <1>2 DEF NodeInv, OwnOK, CallOK, PathOK, HostOK, host
<1> QED BY <1>3, <1>4, StepKeeps

(* The login or rescan. *)
LEMMA ConnectKeeps == ASSUME NEW v \in Volume, NodeInv, ConnectTarget(v) PROVE NodeInv'
<1>1. Failed(v) \/ Went(v, "wait", none, none)
  <2>1. Error(v) \/ Goto(v, "wait", none, none)
    BY DEF ConnectTarget, RescanSession, DiscoverTarget, NoDevice
  <2> QED BY <2>1, Answers DEF NodeInv, PC
<1>2. OwnOK(v) /\ Types /\ call[v].pc = "login" /\ mode[v] # "share"
  BY DEF NodeInv, OwnOK, CallOK, ConnectTarget
<1>3. Iscsiadm(v)
  BY <1>2 DEF ConnectTarget, RescanSession, DiscoverTarget, Iscsiadm
<1>4. UNCHANGED <<mode, target, connector, inited>> /\ (UNCHANGED faults \/ \E k \in Adversity : Fault(k))
  BY DEF ConnectTarget, RescanSession, DiscoverTarget, Fault
<1>5. Frame(v)
  BY <1>1, <1>2, <1>3, <1>4, Kernel, Framed, Counted DEF Failed, Went, Types
<1>6. OwnOK(v)'
  BY <1>1, <1>2, <1>4, <1>5 DEF OwnOK, CallOK, PathOK, HostOK, Failed, Went, Frame, Types
<1> QED BY <1>5, <1>6, StepKeeps

(* The wait for the device. *)
LEMMA WaitKeeps == ASSUME NEW v \in Volume, NodeInv, WaitForPath(v) PROVE NodeInv'
<1>1. Failed(v) \/ \E d \in Device : Went(v, "persist", d, none)
  <2>1. Error(v) \/ \E d \in Device : Goto(v, "persist", d, none)
    BY DEF WaitForPath, NoDevice
  <2> QED BY <2>1, Answers DEF NodeInv, PC
<1>2. OwnOK(v) /\ Types /\ call[v].pc = "wait" BY DEF NodeInv, WaitForPath
<1>3. /\ UNCHANGED <<mode, session, pending, dev, staging, target, connector, inited>>
      /\ UNCHANGED faults \/ \E k \in Adversity : Fault(k)
  BY DEF WaitForPath, Fault, host
<1>4. Frame(v)
  BY <1>1, <1>2, <1>3, Still, Framed, Counted DEF Failed, Went, Types
<1>5. OwnOK(v)'
  BY <1>1, <1>2, <1>3, <1>4 DEF OwnOK, CallOK, PathOK, HostOK, Failed, Went, Frame, Types
<1> QED BY <1>4, <1>5, StepKeeps

(* The connector file, with its rollback. *)
LEMMA PersistKeeps == ASSUME NEW v \in Volume, NodeInv, Persist(v) PROVE NodeInv'
<1>2. OwnOK(v) /\ Types /\ call[v].pc = "persist" /\ call[v].name \in Device
  BY DEF NodeInv, OwnOK, CallOK, Persist
<1>1. Failed(v) \/ (Went(v, "mount", call[v].name, none) /\ connector'[v] = call[v].name)
  <2>1. Error(v) \/ (Goto(v, "mount", call[v].name, none) /\ connector' = [connector EXCEPT ![v] = call[v].name])
    BY DEF Persist
  <2>2. Goto(v, "mount", call[v].name, none) => Went(v, "mount", call[v].name, none)
    BY <1>2, Answers DEF PC
  <2> QED BY <1>2, <2>1, <2>2, Answers DEF Types
<1>3. Iscsiadm(v)
  BY DEF Persist, RollbackConnect, Iscsiadm
<1>4. /\ UNCHANGED <<mode, target, inited>> /\ (UNCHANGED faults \/ \E k \in Adversity : Fault(k))
      /\ connector' \in [Volume -> Device \cup {none, "bad"}]
      /\ \A w \in Volume \ {v} : connector'[w] = connector[w]
      /\ connector'[v] = none => connector[v] = none
  BY <1>2, NamesAssumption DEF Persist, Fault, Types
<1>5. Frame(v)
  BY <1>1, <1>2, <1>3, <1>4, Kernel, Framed, Counted DEF Failed, Went, Types
<1>6. OwnOK(v)'
  BY <1>1, <1>2, <1>4, <1>5, NamesAssumption
     DEF OwnOK, CallOK, PathOK, HostOK, Failed, Went, Frame, Types
<1> QED BY <1>5, <1>6, StepKeeps

(* Staging a share. *)
LEMMA StageShareKeeps == ASSUME NEW v \in Volume, NodeInv, StageFileShareVolume(v) PROVE NodeInv'
<1>2. OwnOK(v) /\ Types /\ call[v].pc = "mount" /\ mode[v] = "share"
  BY DEF NodeInv, StageFileShareVolume
<1>1. Failed(v) \/ (Done(v, "staged") /\ staging'[v] = v)
  <2>1. Error(v) \/ (Success(v, "staged") /\ staging' = [staging EXCEPT ![v] = v])
    BY DEF StageFileShareVolume
  <2> QED BY <1>2, <2>1, Answers DEF Phase, Types
<1>3. HostFrame(v)
  <2>1. staging' = staging \/ staging' = [staging EXCEPT ![v] = v]
    BY DEF StageFileShareVolume
  <2>2. UNCHANGED <<session, pending, dev>>
    BY DEF StageFileShareVolume
  <2> QED BY <2>1, <2>2 DEF HostFrame, NodeInv, SessionInv, Types, Mounted
<1>4. /\ UNCHANGED <<mode, session, target, connector, inited>>
      /\ UNCHANGED faults \/ \E k \in Adversity : Fault(k)
  BY DEF StageFileShareVolume, Fault
<1>5. Frame(v)
  BY <1>1, <1>2, <1>3, <1>4, Framed, Counted DEF Failed, Went, Done, Types
<1>6. OwnOK(v)'
  BY <1>1, <1>2, <1>4, <1>5, NamesAssumption
     DEF OwnOK, CallOK, PathOK, HostOK, Failed, Went, Done, Frame, Types, Idle
<1> QED BY <1>5, <1>6, StepKeeps

(* Staging a file system or a block volume. *)
LEMMA StageMountKeeps == ASSUME NEW v \in Volume, NodeInv, StageMount(v) PROVE NodeInv'
<1>2. OwnOK(v) /\ Types /\ call[v].pc = "mount" /\ mode[v] # "share"
  BY DEF NodeInv, StageMount
<1>1. Failed(v) \/ Done(v, "staged")
  <2>1. Error(v) \/ Success(v, "staged")
    BY DEF StageMount
  <2> QED BY <1>2, <2>1, Answers DEF Phase
<1>3. HostFrame(v)
  <2>1. DiskAt(call[v].name) \in Volume \cup {none}
    BY <1>2 DEF DiskAt, Types, CallRec
  <2>2. staging' = staging \/ staging' = [staging EXCEPT ![v] = DiskAt(call[v].name)]
    BY DEF StageMount
  <2> QED BY <2>1, <2>2 DEF StageMount, HostFrame, NodeInv, SessionInv, Types, Mounted
<1>4. /\ UNCHANGED <<mode, session, target, connector, inited>>
      /\ UNCHANGED faults \/ \E k \in Adversity : Fault(k)
  BY DEF StageMount, Fault
<1>5. Frame(v)
  BY <1>1, <1>2, <1>3, <1>4, Framed, Counted DEF Failed, Went, Done, Types
<1>6. OwnOK(v)'
  BY <1>1, <1>2, <1>4, <1>5, NamesAssumption
     DEF OwnOK, CallOK, PathOK, HostOK, Failed, Went, Done, Frame, Types, Idle
<1> QED BY <1>5, <1>6, StepKeeps

-----------------------------------------------------------------------------
(* The driver dies while it answers a call for v. *)
LEMMA DeathKeeps ==
    ASSUME NEW v \in Volume, NodeInv, Die,
           UNCHANGED <<mode, session, pending, dev, staging, connector, kubelet, faults>>,
           target' \in [Volume -> Seq(Shown)], \A w \in Volume \ {v} : target'[w] = target[w],
           PathOK(v)'
    PROVE  NodeInv'
<1>1. call' \in [Volume -> CallRec] /\ \A w \in Volume : call'[w] = Idle
  BY DEF Die, CallRec, Idle, PC
<1>2. Frame(v)
  <2>1. Types'
    BY <1>1 DEF NodeInv, Types, Die, kubelet
  <2> QED BY <1>1, <2>1 DEF NodeInv, Frame, SessionInv, kubelet, Types
<1>3. OwnOK(v)'
  BY <1>1 DEF NodeInv, OwnOK, CallOK, HostOK, Idle, kubelet
<1> QED BY <1>2, <1>3, StepKeeps

(* NodePublishVolume is called. *)
LEMMA PublishKeeps == ASSUME NEW v \in Volume, NodeInv, NodePublishVolume(v) PROVE NodeInv'
<1>1. OwnOK(v) /\ Types /\ phase[v] = "staged" BY DEF NodeInv, NodePublishVolume
<1>2. UNCHANGED <<mode, session, pending, dev, staging, connector, faults>>
  BY DEF NodePublishVolume
<1>3. /\ target' \in [Volume -> Seq(Shown)]
      /\ \A w \in Volume \ {v} : target'[w] = target[w]
      /\ target'[v] \in {target[v], <<"dir">>}
  <2>1. <<"dir">> \in Seq(Shown) BY DEF Shown
  <2>2. \/ target' = target
        \/ target' = [target EXCEPT ![v] = IF target[v] = <<>> THEN <<"dir">> ELSE target[v]]
    BY DEF NodePublishVolume
  <2> QED BY <1>1, <2>1, <2>2 DEF Types
<1>4. phase'[v] = "staged" => PathOK(v)'
  <2>1. faults \in Nat /\ Len(target[v]) \in Nat /\ Len(<<"dir">>) = 1
    BY <1>1, LimitAssumption DEF Types
  <2>2. Len(target'[v]) \in Nat /\ Len(target'[v]) <= faults + 1
    <3>1. Len(target[v]) <= faults + 1 BY <1>1 DEF OwnOK, PathOK
    <3>2. CASE target'[v] = target[v] BY <2>1, <3>1, <3>2
    <3>3. CASE target'[v] = <<"dir">> BY <2>1, <3>3
    <3> QED BY <1>3, <3>2, <3>3
  <2> QED BY <1>2, <2>1, <2>2 DEF PathOK
<1>5. CASE mode[v] = "share" /\ ~inited
  <2>1. Die /\ UNCHANGED kubelet
    BY <1>5 DEF NodePublishVolume
  <2> QED BY <1>1, <1>2, <1>3, <1>4, <2>1, DeathKeeps DEF kubelet
<1>6. CASE mode[v] # "share" \/ inited
  <2>1. IF mode[v] = "share" THEN Went(v, "bind", none, none) ELSE Went(v, "recover", none, none)
    <3>1. IF mode[v] = "share" THEN Goto(v, "bind", none, none) ELSE Goto(v, "recover", none, none)
      BY <1>6 DEF NodePublishVolume
    <3> QED BY <1>1, <3>1, Answers DEF PC
  <2>2. inited' \in BOOLEAN
    BY <1>1, <1>6 DEF NodePublishVolume, Types
  <2>3. Frame(v)
    BY <1>1, <1>2, <1>3, <2>1, <2>2, Still, Framed, Counted DEF Went, Types
  <2>4. OwnOK(v)'
    BY <1>1, <1>2, <1>4, <2>1 DEF OwnOK, CallOK, HostOK, Went
  <2> QED BY <2>3, <2>4, StepKeeps
<1> QED BY <1>5, <1>6

(* The source of the bind mount is found or mounted. *)
LEMMA RecoverKeeps == ASSUME NEW v \in Volume, NodeInv, RecoverStaging(v) PROVE NodeInv'
<1>1. /\ OwnOK(v) /\ Types /\ call[v].pc = "recover"
      /\ phase[v] = "staged" /\ mode[v] # "share"
  BY DEF NodeInv, RecoverStaging, OwnOK, CallOK
<1> DEFINE disk == GetConnectorFromFile(v)
<1>2. disk \in Volume \cup {none}
  BY <1>1 DEF GetConnectorFromFile, DiskAt, Types
<1>3. \/ Failed(v) /\ staging' = staging
      \/ \E w \in Volume : mode[v] = "block" /\ Went(v, "bind", none, w) /\ staging' = staging
      \/ /\ mode[v] # "block" /\ Went(v, "bind", none, none)
         /\ \/ staging[v] # none /\ staging' = staging
            \/ disk # none /\ staging' = [staging EXCEPT ![v] = disk]
  <2>1. \/ Error(v) /\ staging' = staging
        \/ \E w \in Volume : mode[v] = "block" /\ Goto(v, "bind", none, w) /\ staging' = staging
        \/ /\ mode[v] # "block" /\ Goto(v, "bind", none, none)
           /\ \/ staging[v] # none /\ staging' = staging
              \/ disk # none /\ staging' = [staging EXCEPT ![v] = disk]
    BY <1>2 DEF RecoverStaging
  <2> HIDE DEF disk
  <2> QED BY <1>1, <2>1, Answers DEF PC
<1>4. UNCHANGED <<mode, session, pending, dev, target, connector, inited>>
      /\ (UNCHANGED faults \/ \E k \in Adversity : Fault(k))
  BY DEF RecoverStaging, Fault
<1> HIDE DEF disk
<1>5. HostFrame(v)
  BY <1>1, <1>2, <1>3, <1>4 DEF HostFrame, NodeInv, SessionInv, Types, Mounted
<1>6. Frame(v)
  BY <1>1, <1>3, <1>4, <1>5, Framed, Counted DEF Failed, Went, Types
<1>7. staging[v] # none \/ Failed(v) \/ mode[v] = "block" \/ staging'[v] = disk
  BY <1>1, <1>3 DEF Types
<1>8. staging[v] # none => staging'[v] # none
  BY <1>1, <1>3 DEF Types
<1>9. OwnOK(v)'
  BY <1>1, <1>3, <1>4, <1>6, <1>7, <1>8, NamesAssumption
     DEF OwnOK, CallOK, PathOK, HostOK, Failed, Went, Frame, Types
<1> QED BY <1>6, <1>9, StepKeeps

(* The bind mount. *)
LEMMA BindKeeps == ASSUME NEW v \in Volume, NodeInv, PublishBind(v) PROVE NodeInv'
<1>1. OwnOK(v) /\ Types /\ call[v].pc = "bind" /\ phase[v] = "staged"
  BY DEF NodeInv, PublishBind, OwnOK, CallOK
<1> DEFINE path == IF target[v] = <<>> THEN <<"dir">> ELSE target[v]
<1>2. /\ Source(v) \in Shown
      /\ Source(v) = "dir" => mode[v] = "share" /\ staging[v] = none
  BY <1>1, NamesAssumption, ModeAssumption DEF Source, OwnOK, CallOK, Types, Mounted, Shown
<1>3. path \in Seq(Shown) /\ Len(path) > 0 /\ Len(path) <= faults + 1
  <2>1. <<"dir">> \in Seq(Shown) BY DEF Shown
  <2>2. target[v] \in Seq(Shown) /\ Len(target[v]) <= faults + 1 /\ faults \in Nat
    BY <1>1, LimitAssumption DEF OwnOK, PathOK, Types
  <2> QED BY <2>1, <2>2
<1>4. \/ /\ target' = [target EXCEPT ![v] = Append(path, Source(v))]
         /\ (Done(v, "published") /\ faults' = faults) \/ (Failed(v) /\ faults' = faults + 1)
      \/ target' = [target EXCEPT ![v] = path] /\ Failed(v) /\ faults' = faults + 1
  <2>1. \/ /\ target' = [target EXCEPT ![v] = Append(path, Source(v))]
           /\ (Success(v, "published") /\ faults' = faults) \/ (Error(v) /\ faults' = faults + 1)
        \/ target' = [target EXCEPT ![v] = path] /\ Error(v) /\ faults' = faults + 1
    BY DEF PublishBind, Fault
  <2> HIDE DEF path
  <2> QED BY <1>1, <2>1, Answers DEF Phase
<1>5. UNCHANGED <<mode, session, pending, dev, staging, connector, inited>>
      /\ (UNCHANGED faults \/ \E k \in Adversity : Fault(k))
  BY DEF PublishBind, Fault
<1> HIDE DEF path
<1>6. Append(path, Source(v)) \in Seq(Shown) /\ Len(Append(path, Source(v))) = Len(path) + 1
      /\ Append(path, Source(v))[Len(path) + 1] = Source(v)
  BY <1>2, <1>3 DEF Shown
<1>7. /\ target' \in [Volume -> Seq(Shown)]
      /\ \A w \in Volume \ {v} : target'[w] = target[w]
      /\ target'[v] \in {path, Append(path, Source(v))}
  BY <1>1, <1>3, <1>4, <1>6 DEF Types
<1>8. Frame(v)
  BY <1>1, <1>4, <1>5, <1>7, Still, Framed, Counted DEF Failed, Went, Done, Types
<1>9. CallOK(v)' /\ HostOK(v)'
  BY <1>1, <1>4, <1>5 DEF OwnOK, CallOK, HostOK, Failed, Went, Done, Idle
<1>10. PathOK(v)'
  <2>1. faults \in Nat /\ Len(path) \in Nat BY <1>1, <1>3, LimitAssumption DEF Types
  <2>2. CASE Done(v, "published")
    <3>1. target'[v] = Append(path, Source(v)) /\ faults' >= faults
      BY <1>1, <1>4, <2>1, <2>2 DEF Types, Done, Failed, Went
    <3>2. /\ Len(target'[v]) = Len(path) + 1 /\ target'[v][Len(target'[v])] = Source(v)
          /\ phase'[v] = "published" /\ faults' \in Nat
          /\ mode' = mode /\ staging' = staging
      BY <1>1, <1>5, <1>6, <1>8, <2>2, <3>1, LimitAssumption DEF Done, Frame, Types
    <3>3. Len(path) + 1 <= faults' + 2 /\ Len(path) + 1 > 0
      BY <1>3, <2>1, <3>1, <3>2
    <3> QED BY <1>2, <3>2, <3>3 DEF PathOK
  <2>3. CASE Failed(v) /\ faults' = faults + 1
    BY <1>1, <1>3, <1>6, <1>7, <2>1, <2>3 DEF PathOK, Failed, Went
  <2> QED BY <1>4, <2>2, <2>3
<1> QED BY <1>8, <1>9, <1>10, StepKeeps DEF OwnOK

(* No count of faults is below an empty path. *)
LEMMA FaultsCount == \A n \in Nat : 0 <= n + 1 /\ 0 <= n + 2
OBVIOUS

(* A path that is gone is as it must be, unless a pod should see a volume. *)
LEMMA EmptyPath ==
    ASSUME NEW v, Types', target'[v] = <<>>, phase'[v] # "published"
    PROVE  PathOK(v)'
<1>1. Len(<<>>) = 0 OBVIOUS
<1>2. faults' \in Nat BY LimitAssumption DEF Types
<1>3. 0 <= faults' + 1 /\ 0 <= faults' + 2 BY <1>2, FaultsCount
<1> QED BY <1>1, <1>3 DEF PathOK

(* NodeUnpublishVolume takes one mount off the path, or the path away. *)
LEMMA UnpublishKeeps == ASSUME NEW v \in Volume, NodeInv, NodeUnpublishVolume(v) PROVE NodeInv'
<1>1. /\ OwnOK(v) /\ Types /\ phase[v] = "unpublish" /\ call[v].pc = "idle"
      /\ faults \in Nat /\ Len(target[v]) \in Nat /\ target[v] \in Seq(Shown)
  BY LimitAssumption DEF NodeInv, NodeUnpublishVolume, Types
<1>2. UNCHANGED <<mode, session, pending, dev, staging, connector>>
  BY DEF NodeUnpublishVolume
<1>3. CASE Die /\ UNCHANGED <<target, kubelet, faults>>
  BY <1>1, <1>2, <1>3, DeathKeeps DEF OwnOK, PathOK, Types, kubelet
<1>4. CASE /\ inited' = inited /\ (UNCHANGED faults \/ \E k \in Adversity : Fault(k))
           /\ \/ target' = [target EXCEPT ![v] = <<>>] /\ Success(v, "unstage")
              \/ /\ Len(target[v]) > 2 /\ Error(v)
                 /\ target' = [target EXCEPT ![v] = SubSeq(target[v], 1, Len(target[v]) - 1)]
              \/ target' = target /\ Error(v)
  <2> DEFINE less == SubSeq(target[v], 1, Len(target[v]) - 1)
  <2>1. Len(target[v]) > 2 => less \in Seq(Shown) /\ Len(less) = Len(target[v]) - 1
    BY <1>1
  <2>2. \/ Done(v, "unstage") /\ target'[v] = <<>>
        \/ Failed(v) /\ target'[v] = target[v]
        \/ Failed(v) /\ Len(target[v]) > 2 /\ target'[v] = less
    BY <1>1, <1>4, Answers DEF Phase, Types
  <2> HIDE DEF less
  <2>3. target' \in [Volume -> Seq(Shown)] /\ \A w \in Volume \ {v} : target'[w] = target[w]
    <3>1. <<>> \in Seq(Shown) OBVIOUS
    <3> QED BY <1>1, <1>4, <2>1, <3>1 DEF Types, less
  <2>4. faults' \in Nat /\ faults <= faults'
    BY <1>1, <1>4, Counted, LimitAssumption
  <2>5. Frame(v)
    BY <1>1, <1>2, <1>4, <2>2, <2>3, Still, Framed, Counted DEF Failed, Went, Done, Types
  <2>6. CallOK(v)' /\ HostOK(v)'
    BY <1>1, <1>2, <2>2 DEF OwnOK, CallOK, HostOK, Failed, Went, Done, Idle
  <2>7. PathOK(v)'
    <3>1. Len(target[v]) <= faults + 2 BY <1>1 DEF OwnOK, PathOK
    <3>2. CASE Done(v, "unstage") /\ target'[v] = <<>>
      BY <3>2, <2>5, EmptyPath DEF Done, Frame
    <3>3. CASE Failed(v) /\ target'[v] = target[v]
      BY <1>1, <2>4, <3>1, <3>3 DEF PathOK, Failed, Went
    <3>4. CASE Failed(v) /\ Len(target[v]) > 2 /\ target'[v] = less
      BY <1>1, <2>1, <2>4, <3>1, <3>4 DEF PathOK, Failed, Went
    <3> QED BY <2>2, <3>2, <3>3, <3>4
  <2> QED BY <2>5, <2>6, <2>7, StepKeeps DEF OwnOK
<1> QED BY <1>3, <1>4 DEF NodeUnpublishVolume, Fault

-----------------------------------------------------------------------------
(* NodeUnstageVolume is called. *)
LEMMA UnstageKeeps == ASSUME NEW v \in Volume, NodeInv, NodeUnstageVolume(v) PROVE NodeInv'
<1>1. OwnOK(v) /\ Types /\ phase[v] = "unstage" BY DEF NodeInv, NodeUnstageVolume
<1>2. Went(v, "load", none, none)
  BY <1>1, Answers DEF NodeUnstageVolume, PC
<1>3. UNCHANGED <<mode, session, pending, dev, staging, target, connector, faults>> /\ inited' = TRUE
  BY DEF NodeUnstageVolume, host
<1>4. Frame(v)
  BY <1>1, <1>2, <1>3, Still, Framed, Counted DEF Went, Types
<1>5. OwnOK(v)'
  BY <1>1, <1>2, <1>3 DEF OwnOK, CallOK, PathOK, HostOK, Went
<1> QED BY <1>4, <1>5, StepKeeps

(* The connector is loaded and the staging path unmounted. *)
LEMMA UnmountKeeps == ASSUME NEW v \in Volume, NodeInv, UnstageUnmount(v) PROVE NodeInv'
<1>1. OwnOK(v) /\ Types /\ call[v].pc = "load" /\ phase[v] = "unstage"
  BY DEF NodeInv, UnstageUnmount, OwnOK, CallOK
<1> DEFINE disk == GetConnectorFromFile(v)
<1>2. disk \in Volume \cup {none} /\ (connector[v] = none => disk = none)
  BY <1>1, NamesAssumption DEF GetConnectorFromFile, DiskAt, Types
<1>3. \/ Failed(v) /\ staging' = staging
      \/ /\ staging' = [staging EXCEPT ![v] = none]
         /\ \/ connector[v] = none /\ Went(v, "cleanup", none, none)
            \/ disk # none /\ Went(v, "remove", none, disk)
  <2>1. \/ Error(v) /\ staging' = staging
        \/ /\ staging' = [staging EXCEPT ![v] = none]
           /\ \/ connector[v] = none /\ Goto(v, "cleanup", none, none)
              \/ disk # none /\ Goto(v, "remove", none, disk)
    BY <1>2 DEF UnstageUnmount
  <2>2. Goto(v, "remove", none, disk) => Went(v, "remove", none, disk)
    BY <1>1, <1>2, Answers DEF PC
  <2>3. Goto(v, "cleanup", none, none) => Went(v, "cleanup", none, none)
    BY <1>1, Answers DEF PC
  <2>4. Error(v) => Failed(v)
    BY <1>1, Answers
  <2> HIDE DEF disk
  <2> QED BY <2>1, <2>2, <2>3, <2>4
<1>4. UNCHANGED <<mode, session, pending, dev, target, connector, inited>>
      /\ (UNCHANGED faults \/ \E k \in Adversity : Fault(k))
  BY DEF UnstageUnmount, Fault
<1> HIDE DEF disk
<1>5. HostFrame(v)
  BY <1>1, <1>3, <1>4 DEF HostFrame, NodeInv, SessionInv, Types, Mounted
<1>6. Frame(v)
  BY <1>1, <1>3, <1>4, <1>5, Framed, Counted DEF Failed, Went, Types
<1>7. staging'[v] = none \/ (Failed(v) /\ staging'[v] = staging[v])
  BY <1>1, <1>3 DEF Types
<1>8. OwnOK(v)'
  <2>1. CallOK(v)' /\ HostOK(v)'
    BY <1>1, <1>3, <1>4, <1>6, <1>7 DEF OwnOK, CallOK, HostOK, Failed, Went, Frame
  <2>2. PathOK(v)'
    <3>1. target'[v] = <<>> BY <1>1, <1>4 DEF OwnOK, PathOK
    <3> QED BY <1>1, <1>3, <1>4, <1>6, <1>7, <3>1, EmptyPath DEF Failed, Went, Frame
  <2> QED BY <2>1, <2>2 DEF OwnOK
<1> QED BY <1>6, <1>8, StepKeeps

(* The device is deleted, whosever it is. *)
LEMMA RemoveKeeps == ASSUME NEW v \in Volume, NodeInv, DisconnectVolume(v) PROVE NodeInv'
<1>1. /\ OwnOK(v) /\ Types /\ call[v].pc = "remove" /\ phase[v] = "unstage"
      /\ staging[v] = none /\ call[v].disk # none
  BY DEF NodeInv, DisconnectVolume, OwnOK, CallOK, HostOK
<1>2. Failed(v) \/ Went(v, "logout", none, none)
  <2>1. Error(v) \/ Goto(v, "logout", none, none)
    BY DEF DisconnectVolume
  <2> QED BY <1>1, <2>1, Answers DEF PC
<1>3. UNCHANGED <<mode, session, pending, target, connector, inited>>
      /\ (UNCHANGED faults \/ \E k \in Adversity : Fault(k))
  BY DEF DisconnectVolume, Fault
<1>4. HostFrame(v) /\ staging'[v] = none
  <2>1. CASE UNCHANGED <<dev, staging>>
    BY <1>1, <1>3, <2>1, Still
  <2>2. CASE Detach({call[v].disk})
    <3> DEFINE W == {call[v].disk}
    <3>1. none \notin W /\ Detach(W) BY <1>1, <2>2
    <3> HIDE DEF W
    <3> QED BY <1>1, <1>3, <3>1, Detaching DEF HostFrame, NodeInv, SessionInv, Types
  <2> QED BY <2>1, <2>2 DEF DisconnectVolume
<1>5. Frame(v)
  BY <1>1, <1>2, <1>3, <1>4, Framed, Counted DEF Failed, Went, Types
<1>6. OwnOK(v)'
  <2>1. CallOK(v)' /\ HostOK(v)'
    BY <1>1, <1>2, <1>3, <1>4, <1>5 DEF OwnOK, CallOK, HostOK, Failed, Went, Frame
  <2>2. PathOK(v)'
    <3>1. target'[v] = <<>> BY <1>1, <1>3 DEF OwnOK, PathOK
    <3> QED BY <1>1, <1>2, <1>3, <1>4, <1>5, <3>1, EmptyPath DEF Failed, Went, Frame
  <2> QED BY <2>1, <2>2 DEF OwnOK
<1> QED BY <1>5, <1>6, StepKeeps

(* The logout. *)
LEMMA LogoutKeeps == ASSUME NEW v \in Volume, NodeInv, Disconnect(v) PROVE NodeInv'
<1>1. OwnOK(v) /\ Types /\ call[v].pc = "logout" /\ phase[v] = "unstage" /\ staging[v] = none
  BY DEF NodeInv, Disconnect, OwnOK, CallOK, HostOK
<1>2. Failed(v) \/ (Went(v, "cleanup", none, none) /\ v \notin session')
  <2>1. Error(v) \/ (Goto(v, "cleanup", none, none) /\ v \notin session')
    BY DEF Disconnect, LogOut
  <2> QED BY <1>1, <2>1, Answers DEF PC
<1>3. /\ UNCHANGED <<mode, target, connector, inited>> /\ (v \in session' => v \in session)
      /\ UNCHANGED faults \/ \E k \in Adversity : Fault(k)
  BY DEF Disconnect, LogOut, Fault
<1>4. HostFrame(v) /\ staging'[v] = none
  BY <1>1, Kernel DEF Disconnect, Iscsiadm
<1>5. Frame(v)
  BY <1>1, <1>2, <1>3, <1>4, Framed, Counted DEF Failed, Went, Types
<1>6. OwnOK(v)'
  <2>1. CallOK(v)' /\ HostOK(v)'
    BY <1>1, <1>2, <1>3, <1>4, <1>5 DEF OwnOK, CallOK, HostOK, Failed, Went, Frame
  <2>2. PathOK(v)'
    <3>1. target'[v] = <<>> BY <1>1, <1>3 DEF OwnOK, PathOK
    <3> QED BY <1>1, <1>2, <1>3, <1>4, <1>5, <3>1, EmptyPath DEF Failed, Went, Frame
  <2> QED BY <2>1, <2>2 DEF OwnOK
<1> QED BY <1>5, <1>6, StepKeeps

(* The connector file goes. *)
LEMMA CleanupKeeps == ASSUME NEW v \in Volume, NodeInv, UnstageCleanup(v) PROVE NodeInv'
<1>1. OwnOK(v) /\ Types /\ call[v].pc = "cleanup" /\ phase[v] = "unstage" /\ staging[v] = none
  BY DEF NodeInv, UnstageCleanup, OwnOK, CallOK, HostOK
<1>2. Failed(v) \/ (Done(v, "gone") /\ connector'[v] = none)
  <2>1. Error(v) \/ (Success(v, "gone") /\ connector' = [connector EXCEPT ![v] = none])
    BY DEF UnstageCleanup
  <2> QED BY <1>1, <2>1, Answers DEF Phase, Types
<1>3. /\ UNCHANGED <<mode, session, pending, dev, staging, target, inited>>
      /\ UNCHANGED faults \/ \E k \in Adversity : Fault(k)
      /\ connector' \in [Volume -> Device \cup {none, "bad"}]
      /\ \A w \in Volume \ {v} : connector'[w] = connector[w]
  BY <1>1 DEF UnstageCleanup, Fault, host, Types
<1>4. Frame(v)
  BY <1>1, <1>2, <1>3, Still, Framed, Counted DEF Failed, Went, Done, Types
<1>5. OwnOK(v)'
  <2>1. CallOK(v)' /\ HostOK(v)'
    BY <1>1, <1>2, <1>3, <1>4 DEF OwnOK, CallOK, HostOK, Failed, Went, Done, Frame, Idle
  <2>2. PathOK(v)'
    <3>1. target'[v] = <<>> BY <1>1, <1>3 DEF OwnOK, PathOK
    <3> QED BY <1>1, <1>2, <1>3, <1>4, <3>1, EmptyPath DEF Failed, Went, Done, Frame, Idle
  <2> QED BY <2>1, <2>2 DEF OwnOK
<1> QED BY <1>4, <1>5, StepKeeps

-----------------------------------------------------------------------------
(* A rescan of all sessions, a disk that appears, a pod that comes or goes. *)
LEMMA OutsideKeeps ==
    ASSUME NEW v \in Volume, NodeInv,
           NodeExpandVolume(v) \/ AttachLun(v) \/ PodArrives(v) \/ PodLeaves(v)
    PROVE  NodeInv'
<1>1. OwnOK(v) /\ Types /\ SessionInv BY DEF NodeInv
<1>2. CASE NodeExpandVolume(v) \/ AttachLun(v)
  <2>1. UNCHANGED <<mode, session, staging, target, connector, call, kubelet, faults>> /\ inited' \in BOOLEAN
    BY <1>1, <1>2 DEF NodeExpandVolume, AttachLun, Types
  <2>2. pending' \subseteq session /\ dev' \in [Device -> Volume \cup {none}]
        /\ \A d \in Device : dev'[d] # none => dev'[d] \in session
    BY <1>1, <1>2 DEF NodeExpandVolume, AttachLun, Attachable, SessionInv, Types
  <2>3. Types' /\ SessionInv'
    BY <1>1, <2>1, <2>2 DEF Types, SessionInv, kubelet
  <2> QED BY <2>1, <2>3 DEF NodeInv, OwnOK, CallOK, PathOK, HostOK, kubelet
<1>3. CASE PodArrives(v) \/ PodLeaves(v)
  <2>1. /\ UNCHANGED <<mode, session, pending, dev, staging, target, connector, call, answered, inited, faults>>
        /\ call[v].pc = "idle"
        /\ \/ phase[v] \in {"gone", "unstage"} /\ phase' = [phase EXCEPT ![v] = "wanted"]
           \/ phase' = [phase EXCEPT ![v] = "unpublish"]
    BY <1>3 DEF PodArrives, PodLeaves, host
  <2>2. /\ phase' \in [Volume -> Phase] /\ \A w \in Volume \ {v} : phase'[w] = phase[w]
        /\ phase'[v] \in {"wanted", "unpublish"} /\ (phase'[v] = "wanted" => target[v] = <<>>)
    BY <1>1, <2>1 DEF Types, Phase, OwnOK, PathOK
  <2>3. Frame(v)
    <3>1. Steps(v) BY <1>1, <2>1, <2>2 DEF Steps, Types
    <3> QED BY <1>1, <2>1, <3>1, Still, Framed, Counted DEF Types
  <2>4. CallOK(v)' /\ HostOK(v)'
    BY <1>1, <2>1, <2>2 DEF OwnOK, CallOK, HostOK
  <2>5. PathOK(v)'
    <3>1. CASE target[v] = <<>>
      BY <2>1, <2>2, <2>3, <3>1, EmptyPath DEF Frame
    <3>2. CASE target[v] # <<>>
      BY <1>1, <2>1, <2>2, <3>2 DEF OwnOK, PathOK
    <3> QED BY <3>1, <3>2
  <2> QED BY <2>3, <2>4, <2>5, StepKeeps DEF OwnOK
<1> QED BY <1>2, <1>3

(* The driver dies by itself. *)
LEMMA RestartKeeps == ASSUME NodeInv, Restart PROVE NodeInv'
<1>1. /\ UNCHANGED <<mode, session, pending, dev, staging, target, connector, phase, answered>>
      /\ call' \in [Volume -> CallRec] /\ inited' \in BOOLEAN /\ \A w \in Volume : call'[w].pc = "idle"
  BY DEF Restart, Die, host, kubelet, Idle, CallRec, PC
<1>2. faults \in Nat /\ faults' = faults + 1 /\ faults' \in 0..MaxFaults
  BY LimitAssumption DEF Restart, Fault, NodeInv, Types
<1>3. Types' /\ SessionInv'
  BY <1>1, <1>2 DEF NodeInv, Types, SessionInv
<1>4. ASSUME NEW w \in Volume PROVE OwnOK(w)'
  <2>1. OwnOK(w) /\ Len(target[w]) \in Nat BY DEF NodeInv, Types
  <2>2. CallOK(w)' /\ HostOK(w)' BY <1>1, <2>1 DEF OwnOK, CallOK, HostOK
  <2>3. PathOK(w)' BY <1>1, <1>2, <2>1 DEF OwnOK, PathOK
  <2> QED BY <2>2, <2>3 DEF OwnOK
<1> QED BY <1>3, <1>4 DEF NodeInv

(* The node boots again: mounts and devices are gone, files are not. *)
LEMMA RebootKeeps == ASSUME NodeInv, Reboot PROVE NodeInv'
<1>0. Types BY DEF NodeInv
<1>1. /\ mode' = mode /\ connector' = connector /\ answered' = answered
      /\ session' \subseteq session /\ pending' = session'
      /\ dev' \in [Device -> Volume \cup {none}] /\ \A d \in Device : dev'[d] = none
      /\ call' \in [Volume -> CallRec] /\ inited' \in BOOLEAN /\ \A w \in Volume : call'[w].pc = "idle"
  BY DEF Reboot, Die, Idle, CallRec, PC
<1>2. faults \in Nat /\ faults' = faults + 1 /\ faults' \in 0..MaxFaults
  BY <1>0, LimitAssumption DEF Reboot, Fault, Types
<1>3. staging' \in [Volume -> Mounted] /\ \A w \in Volume : staging'[w] = none
  BY DEF Reboot, Mounted
<1>4. /\ target' \in [Volume -> Seq(Shown)]
      /\ \A w \in Volume : \/ target[w] = <<>> /\ target'[w] = <<>>
                           \/ target[w] # <<>> /\ target'[w] = <<"dir">>
  <2>1. <<>> \in Seq(Shown) /\ <<"dir">> \in Seq(Shown) BY DEF Shown
  <2>2. target' = [v \in Volume |-> IF target[v] = <<>> THEN <<>> ELSE <<"dir">>]
    BY DEF Reboot
  <2>3. target' \in [Volume -> Seq(Shown)] BY <2>1, <2>2
  <2>4. ASSUME NEW w \in Volume
        PROVE  \/ target[w] = <<>> /\ target'[w] = <<>>
               \/ target[w] # <<>> /\ target'[w] = <<"dir">>
    <3>1. CASE target[w] = <<>> BY <2>2, <3>1
    <3>2. CASE target[w] # <<>> BY <2>2, <3>2
    <3> QED BY <3>1, <3>2
  <2> QED BY <2>3, <2>4
<1>5. /\ phase' \in [Volume -> Phase]
      /\ \A w \in Volume : \/ phase[w] \notin {"staged", "published"} /\ phase'[w] = phase[w]
                           \/ phase'[w] \in {"wanted", "staged"}
  BY <1>0 DEF Reboot, Types, Phase
<1>6. Types' /\ SessionInv'
  BY <1>0, <1>1, <1>2, <1>3, <1>4, <1>5 DEF Types, SessionInv
<1>7. ASSUME NEW w \in Volume PROVE OwnOK(w)'
  <2>1. OwnOK(w) BY DEF NodeInv
  <2>2. CallOK(w)' BY <1>1, <1>5, <2>1 DEF OwnOK, CallOK
  <2>3. HostOK(w)' BY <1>1, <1>3, <1>5, <2>1 DEF OwnOK, HostOK
  <2>4. PathOK(w)'
    <3>1. CASE target'[w] = <<>>
      BY <1>5, <1>6, <3>1, EmptyPath
    <3>2. CASE target[w] # <<>> /\ target'[w] = <<"dir">>
      <4>1. phase'[w] \notin {"unstage", "gone", "published"} BY <1>5, <2>1, <3>2 DEF OwnOK, PathOK
      <4>2. Len(<<"dir">>) = 1 OBVIOUS
      <4>3. 1 <= faults' + 1 /\ 1 <= faults' + 2 BY <1>2
      <4> QED BY <3>2, <4>1, <4>2, <4>3 DEF PathOK
    <3> QED BY <1>4, <3>1, <3>2
  <2> QED BY <2>2, <2>3, <2>4 DEF OwnOK
<1> QED BY <1>6, <1>7 DEF NodeInv

(* The invariant of the node service is inductive. *)
LEMMA NodeNext == NodeInv /\ [Next]_vars => NodeInv'
<1> SUFFICES ASSUME NodeInv, [Next]_vars PROVE NodeInv' OBVIOUS
<1>1. CASE UNCHANGED vars
  BY <1>1 DEF vars, host, kubelet, NodeInv, Types, SessionInv, OwnOK, CallOK, PathOK, HostOK
<1>2. ASSUME NEW v \in Volume, Handler(v) PROVE NodeInv'
  BY <1>2, ConnectKeeps, WaitKeeps, PersistKeeps, StageShareKeeps, StageMountKeeps, RecoverKeeps,
     BindKeeps, UnmountKeeps, RemoveKeeps, LogoutKeeps, CleanupKeeps DEF Handler
<1> QED BY <1>1, <1>2, StageKeeps, PublishKeeps, UnpublishKeeps, UnstageKeeps, OutsideKeeps,
           RestartKeeps, RebootKeeps DEF Next

-----------------------------------------------------------------------------
(* The interface is there or deleted. *)
LEMMA InterfaceType ==
    ASSUME iface \in {"there", "deleted"}, [Next]_vars
    PROVE  iface' \in {"there", "deleted"}
<1>1. ASSUME NEW v \in Volume, ConnectTarget(v) \/ WaitForPath(v)
      PROVE  iface' \in {"there", "deleted"}
  BY <1>1 DEF ConnectTarget, RescanSession, DiscoverTarget, WaitForPath, NoDevice
<1>2. ASSUME NEW v \in Volume, Handler(v), ~ConnectTarget(v), ~WaitForPath(v)
      PROVE  iface' = iface
  BY <1>2 DEF Handler, Persist, StageFileShareVolume, StageMount, RecoverStaging, PublishBind,
              UnstageUnmount, DisconnectVolume, Disconnect, UnstageCleanup
<1>3. ASSUME NEW v \in Volume,
             \/ NodeStageVolume(v) \/ NodePublishVolume(v) \/ NodeUnpublishVolume(v)
             \/ NodeUnstageVolume(v) \/ NodeExpandVolume(v) \/ AttachLun(v)
             \/ PodArrives(v) \/ PodLeaves(v)
      PROVE  iface' = iface
  BY <1>3 DEF NodeStageVolume, NodePublishVolume, NodeUnpublishVolume, NodeUnstageVolume,
              NodeExpandVolume, AttachLun, PodArrives, PodLeaves
<1>4. Restart \/ Reboot \/ UNCHANGED vars => iface' = iface BY DEF Restart, Reboot, vars
<1> QED BY <1>1, <1>2, <1>3, <1>4 DEF Next

(* Every reachable state of the node is well typed; in particular a target  *)
(* path carries at most one mount per failed publish call and one more.     *)
THEOREM TypeCorrect == Spec => []TypeOK
<1> DEFINE Interface == iface \in {"there", "deleted"}
<1>1. NodeInv /\ Interface => TypeOK
  <2> SUFFICES ASSUME NodeInv, Interface PROVE TypeOK OBVIOUS
  <2>1. ASSUME NEW v \in Volume PROVE target[v] \in Seq(Shown) /\ Len(target[v]) <= MaxFaults + 2
    BY LimitAssumption DEF NodeInv, Types, OwnOK, PathOK
  <2> QED BY <2>1 DEF NodeInv, Types, TypeOK, CallRec
<1>2. Init => Interface BY DEF Init
<1>3. Interface /\ [Next]_vars => Interface' BY InterfaceType
<1> HIDE DEF Interface
<1> QED BY <1>1, <1>2, <1>3, NodeInit, NodeNext, PTL DEF Spec

(* NodeUnpublishVolume answers with success only when nothing is mounted on *)
(* the target, however often publish calls failed after their mount, under  *)
(* every adversity.                                                         *)
THEOREM UnpublishedClean == Spec => []UnpublishedIsClean
<1>1. NodeInv => UnpublishedIsClean
  BY DEF NodeInv, OwnOK, PathOK, UnpublishedIsClean
<1> QED BY <1>1, NodeInit, NodeNext, PTL DEF Spec

(* NodeUnstageVolume answers with success only when no mount and no         *)
(* connector file is left and, for a volume that had been staged, neither   *)
(* session nor device, under every adversity and for any number of volumes. *)
THEOREM UnstagedClean == Spec => []UnstagedIsClean
<1>1. NodeInv => UnstagedIsClean
  <2> SUFFICES ASSUME NodeInv, NEW v \in Volume, phase[v] = "gone"
               PROVE  /\ staging[v] = none /\ connector[v] = none
                      /\ v \in answered => v \notin session /\ ~HasDevice(v)
    BY DEF UnstagedIsClean
  <2>1. staging[v] = none /\ connector[v] = none /\ (v \in answered => v \notin session)
    BY DEF NodeInv, OwnOK, HostOK
  <2>2. v \notin session => ~HasDevice(v)
    BY NamesAssumption DEF NodeInv, SessionInv, HasDevice
  <2> QED BY <2>1, <2>2
<1> QED BY <1>1, NodeInit, NodeNext, PTL DEF Spec

(* After reboots, restarts and failures of every kind, and with any number  *)
(* of volumes, a pod of an iSCSI volume never sees the node's own directory *)
(* under an unmounted staging path, and one of a share only while nothing   *)
(* is staged.                                                               *)
THEOREM PublishedMounted == Spec => []PublishedIsMounted
<1>1. NodeInv => PublishedIsMounted
  BY DEF NodeInv, OwnOK, PathOK, PublishedIsMounted
<1> QED BY <1>1, NodeInit, NodeNext, PTL DEF Spec

-----------------------------------------------------------------------------
(***************************************************************************)
(* Device names, for any number of volumes: as long as only connecting and *)
(* mounting fail, a handler never follows a name the kernel has given to   *)
(* another disk, and no device goes while it is mounted.                   *)
(***************************************************************************)

(* Every name v goes by leads to its own disk: the connector file until the *)
(* device is deleted, what a handler remembers from one step to the next,   *)
(* and what is mounted.                                                     *)
NamesOK(v) ==
    /\ staging[v] \in {none, v}
    /\ connector[v] # none => connector[v] \in Device
    /\ connector[v] # none /\ call[v].pc \notin {"logout", "cleanup"} => dev[connector[v]] = v
    /\ call[v].pc = "persist" => dev[call[v].name] = v
    /\ call[v].pc = "mount" /\ mode[v] # "share" => call[v].name \in Device /\ dev[call[v].name] = v
    /\ call[v].pc = "remove" => call[v].disk = v
    /\ call[v].pc \in {"remove", "logout"} => v \in session
    /\ call[v].pc = "bind" /\ mode[v] = "block" => call[v].disk = v
    /\ phase[v] = "staged" /\ mode[v] = "share" => staging[v] = v
    /\ phase[v] = "published" => target[v][Len(target[v])] = v
    /\ call[v].pc # "idle" => inited

NamesInv == NodeInv /\ \A v \in Volume : NamesOK(v)

(* A step for v takes nothing away from other volumes; a driver that dies   *)
(* has no other call under way.                                             *)
Apart(v) ==
    /\ mode' = mode
    /\ inited => inited' \/ \A w \in Volume : call'[w].pc = "idle"
    /\ \A w \in Volume \ {v} :
         /\ call'[w] = call[w] \/ (call[w].pc = "idle" /\ call'[w].pc = "idle")
         /\ phase'[w] = phase[w] /\ connector'[w] = connector[w]
         /\ target'[w] = target[w] /\ staging'[w] = staging[w]
         /\ w \in session => w \in session'
         /\ \A d \in Device : dev[d] = w => dev'[d] = w

(* Such a step keeps the names right if it keeps those of v right. *)
LEMMA ApartKeeps ==
    ASSUME NEW v \in Volume, NamesInv, Apart(v), NamesOK(v)', NodeInv'
    PROVE  NamesInv'
<1>1. ASSUME NEW w \in Volume, w # v PROVE NamesOK(w)'
  <2>1. NamesOK(w) /\ CallOK(w) BY DEF NamesInv, NodeInv, OwnOK
  <2>2. /\ mode' = mode /\ (inited => inited' \/ call'[w].pc = "idle")
        /\ call'[w] = call[w] \/ (call[w].pc = "idle" /\ call'[w].pc = "idle")
        /\ phase'[w] = phase[w] /\ connector'[w] = connector[w]
        /\ target'[w] = target[w] /\ staging'[w] = staging[w]
        /\ w \in session => w \in session'
        /\ \A d \in Device : dev[d] = w => dev'[d] = w
    BY <1>1 DEF Apart
  <2>3. call[w].pc = "persist" => call[w].name \in Device BY <2>1 DEF CallOK
  <2> QED BY <2>1, <2>2, <2>3 DEF NamesOK
<1> QED BY <1>1 DEF NamesInv

-----------------------------------------------------------------------------
(* Nothing of the host but the list of LUNs to come changes, apart from     *)
(* disks and sessions that appear.                                          *)
Grows ==
    /\ staging' = staging /\ mode' = mode /\ session \subseteq session'
    /\ \A d \in Device : dev[d] # none => dev'[d] = dev[d]

(* NodeStageVolume, ConnectTarget and WaitForPath. *)
LEMMA ConnectNames ==
    ASSUME Adversity \subseteq {"connect", "mount"}, NEW v \in Volume, NamesInv, NodeInv',
           NodeStageVolume(v) \/ ConnectTarget(v) \/ WaitForPath(v)
    PROVE  NamesInv'
<1>1. NamesOK(v) /\ OwnOK(v) /\ Types /\ phase[v] = "wanted"
  BY DEF NamesInv, NodeInv, OwnOK, CallOK, NodeStageVolume, ConnectTarget, WaitForPath
<1>2. /\ Steps(v) /\ phase'[v] = phase[v]
      /\ \/ call'[v].pc \in {"idle", "wait"}
         \/ mode[v] # "share" /\ call'[v].pc = "login"
         \/ mode[v] = "share" /\ call'[v].pc = "mount"
         \/ call'[v].pc = "persist" /\ dev[call'[v].name] = v
  <2>1. CASE NodeStageVolume(v)
    BY <1>1, <2>1 DEF NodeStageVolume, Steps, Types, CallRec, PC
  <2>2. CASE ConnectTarget(v)
    <3>1. Error(v) \/ Goto(v, "wait", none, none)
      BY <2>2 DEF ConnectTarget, RescanSession, DiscoverTarget, NoDevice
    <3>2. Failed(v) \/ Went(v, "wait", none, none)
      BY <1>1, <3>1, Answers DEF PC
    <3> QED BY <3>2 DEF Failed, Went
  <2>3. CASE WaitForPath(v)
    <3>1. Error(v) \/ \E d \in Device : dev[d] = v /\ Goto(v, "persist", d, none)
      BY <2>3 DEF WaitForPath, NoDevice
    <3>2. CASE Error(v)
      BY <1>1, <3>2, Answers DEF Failed, Went
    <3>3. ASSUME NEW d \in Device, dev[d] = v, Goto(v, "persist", d, none)
          PROVE  Steps(v) /\ phase'[v] = phase[v] /\ call'[v].pc = "persist" /\ call'[v].name = d
      <4>1. Went(v, "persist", d, none) BY <1>1, <3>3, Answers DEF PC
      <4> QED BY <4>1 DEF Went
    <3> QED BY <3>1, <3>2, <3>3
  <2> QED BY <2>1, <2>2, <2>3
<1>i. inited'
  <2>1. CASE NodeStageVolume(v) BY <2>1 DEF NodeStageVolume
  <2>2. CASE ConnectTarget(v) \/ WaitForPath(v)
    <3>1. call[v].pc \in {"login", "wait"} /\ inited' = inited
      BY <2>2 DEF ConnectTarget, WaitForPath
    <3> QED BY <1>1, <3>1 DEF NamesOK
  <2> QED BY <2>1, <2>2
<1>3. /\ Grows /\ dev' = dev /\ connector' = connector /\ target' = target
      /\ call[v].pc \in {"idle", "login", "wait"}
  BY DEF NodeStageVolume, ConnectTarget, RescanSession, DiscoverTarget, WaitForPath, LogIn, Fault,
         Grows, host
<1>4. Apart(v)
  BY <1>2, <1>i, <1>3, NamesAssumption DEF Apart, Grows, Steps
<1>5. NamesOK(v)'
  BY <1>1, <1>2, <1>i, <1>3 DEF NamesOK, Grows
<1> QED BY <1>4, <1>5, ApartKeeps

(* A handler runs in a driver that has been initialised. *)
LEMMA Running ==
    ASSUME NEW v \in Volume, NamesInv, Handler(v), inited' = inited
    PROVE  inited /\ inited'
<1>1. call[v].pc # "idle"
  BY DEF Handler, ConnectTarget, WaitForPath, Persist, StageFileShareVolume, StageMount,
         RecoverStaging, PublishBind, UnstageUnmount, DisconnectVolume, Disconnect, UnstageCleanup
<1> QED BY <1>1 DEF NamesInv, NamesOK

(* The connector file names the device that was found, which is still that  *)
(* of v.                                                                    *)
LEMMA PersistNames ==
    ASSUME Adversity \subseteq {"connect", "mount"}, NEW v \in Volume, NamesInv, NodeInv', Persist(v)
    PROVE  NamesInv'
<1>1. NamesOK(v) /\ OwnOK(v) /\ Types /\ phase[v] = "wanted" /\ call[v].name \in Device
      /\ dev[call[v].name] = v
  BY DEF NamesInv, NodeInv, OwnOK, CallOK, Persist, NamesOK
<1>2. inited /\ inited' BY Running DEF Persist, Handler
<1>3. /\ connector' = [connector EXCEPT ![v] = call[v].name]
      /\ Goto(v, "mount", call[v].name, none)
      /\ UNCHANGED <<session, pending, dev, staging, faults, mode, target>>
  BY DEF Persist, Fault
<1>4. Went(v, "mount", call[v].name, none) BY <1>1, <1>3, Answers DEF PC
<1>5. connector'[v] = call[v].name /\ \A w \in Volume \ {v} : connector'[w] = connector[w]
  BY <1>1, <1>3 DEF Types
<1>6. Apart(v)
  BY <1>2, <1>3, <1>4, <1>5 DEF Apart, Went, Steps
<1>7. NamesOK(v)'
  BY <1>1, <1>2, <1>3, <1>4, <1>5 DEF NamesOK, Went
<1> QED BY <1>6, <1>7, ApartKeeps

(* The staging path gets the file system of v. *)
LEMMA StageNames ==
    ASSUME NEW v \in Volume, NamesInv, NodeInv', StageFileShareVolume(v) \/ StageMount(v)
    PROVE  NamesInv'
<1>1. NamesOK(v) /\ OwnOK(v) /\ Types
  BY DEF NamesInv, NodeInv
<1>2. inited /\ inited' BY Running DEF StageFileShareVolume, StageMount, Handler
<1>3. (Error(v) \/ Success(v, "staged")) /\ UNCHANGED <<mode, session, dev, target, connector>>
  BY DEF StageFileShareVolume, StageMount
<1>4. Failed(v) \/ Done(v, "staged") BY <1>1, <1>3, Answers DEF Phase
<1>5. staging' = staging \/ staging' = [staging EXCEPT ![v] = v]
  <2>1. CASE StageFileShareVolume(v) BY <2>1 DEF StageFileShareVolume
  <2>2. CASE StageMount(v)
    <3>1. DiskAt(call[v].name) = v BY <1>1, <2>2 DEF StageMount, NamesOK, DiskAt
    <3> QED BY <2>2, <3>1 DEF StageMount
  <2> QED BY <2>1, <2>2
<1>6. staging'[v] \in {staging[v], v} /\ \A w \in Volume \ {v} : staging'[w] = staging[w]
  BY <1>1, <1>5 DEF Types
<1>7. Apart(v)
  BY <1>2, <1>3, <1>4, <1>6 DEF Apart, Failed, Went, Done, Steps
<1>8. call[v].pc = "mount" /\ phase[v] = "wanted"
  BY <1>1 DEF StageFileShareVolume, StageMount, OwnOK, CallOK
<1>9. Failed(v) \/ mode[v] # "share" \/ staging'[v] = v
  <2>1. SUFFICES ASSUME mode[v] = "share" PROVE Failed(v) \/ staging'[v] = v OBVIOUS
  <2>2. Error(v) \/ staging' = [staging EXCEPT ![v] = v]
    BY <2>1 DEF StageFileShareVolume, StageMount
  <2> QED BY <1>1, <2>2, Answers DEF Types
<1>10. NamesOK(v)'
  BY <1>1, <1>2, <1>3, <1>4, <1>6, <1>8, <1>9 DEF NamesOK, Failed, Went, Done, Idle
<1> QED BY <1>7, <1>10, ApartKeeps

(* A driver that dies in a call for v had no other call to forget. *)
LEMMA DeathNames ==
    ASSUME NEW v \in Volume, NamesInv, NodeInv', ~inited, Die, phase[v] # "published",
           UNCHANGED <<mode, session, dev, staging, connector, kubelet>>,
           \A w \in Volume \ {v} : target'[w] = target[w]
    PROVE  NamesInv'
<1>1. \A w \in Volume : call[w].pc = "idle" /\ call'[w].pc = "idle"
  BY DEF NamesInv, NamesOK, Die, Idle
<1>2. Apart(v)
  BY <1>1 DEF Apart, kubelet
<1>3. NamesOK(v)'
  BY <1>1 DEF NamesInv, NamesOK, kubelet
<1> QED BY <1>2, <1>3, ApartKeeps

(* NodePublishVolume, NodeUnpublishVolume and NodeUnstageVolume are called. *)
LEMMA CallNames ==
    ASSUME NEW v \in Volume, NamesInv, NodeInv',
           NodePublishVolume(v) \/ NodeUnpublishVolume(v) \/ NodeUnstageVolume(v)
    PROVE  NamesInv'
<1>1. NamesOK(v) /\ OwnOK(v) /\ Types /\ phase[v] # "published" /\ call[v].pc = "idle"
  BY DEF NamesInv, NodeInv, NodePublishVolume, NodeUnpublishVolume, NodeUnstageVolume
<1>2. /\ UNCHANGED <<mode, session, dev, staging, connector>>
      /\ \A w \in Volume \ {v} : target'[w] = target[w]
  BY <1>1 DEF NodePublishVolume, NodeUnpublishVolume, NodeUnstageVolume, host, Types
<1>3. CASE ~inited /\ Die /\ UNCHANGED kubelet
  BY <1>1, <1>2, <1>3, DeathNames
<1>4. ASSUME \/ Goto(v, "bind", none, none) /\ mode[v] = "share" /\ inited /\ inited' = inited
             \/ Goto(v, "recover", none, none) /\ inited' = TRUE
             \/ Goto(v, "load", none, none) /\ inited' = TRUE
             \/ (Error(v) \/ Success(v, "unstage")) /\ inited' = inited
      PROVE  NamesInv'
  <2>1. \/ Went(v, "bind", none, none) /\ mode[v] = "share"
        \/ Went(v, "recover", none, none)
        \/ Went(v, "load", none, none) \/ Failed(v) \/ Done(v, "unstage")
    BY <1>1, <1>4, Answers DEF PC, Phase
  <2>2. (inited => inited') /\ (call'[v].pc # "idle" => inited')
    <3>1. CASE inited' = TRUE BY <3>1
    <3>2. CASE inited /\ inited' = inited BY <3>2
    <3>3. CASE (Error(v) \/ Success(v, "unstage")) /\ inited' = inited
      <4>1. call'[v].pc = "idle" BY <1>1, <3>3, Answers DEF Failed, Went, Done, Idle, Phase
      <4> QED BY <3>3, <4>1
    <3> QED BY <1>4, <3>1, <3>2, <3>3
  <2>3. Apart(v)
    BY <1>2, <2>1, <2>2 DEF Apart, Failed, Went, Done, Steps
  <2>4. NamesOK(v)'
    BY <1>1, <1>2, <2>1, <2>2 DEF NamesOK, Failed, Went, Done, Idle
  <2> QED BY <2>3, <2>4, ApartKeeps
<1>5. CASE NodePublishVolume(v)
  BY <1>3, <1>4, <1>5 DEF NodePublishVolume
<1>6. CASE NodeUnpublishVolume(v)
  BY <1>3, <1>4, <1>6 DEF NodeUnpublishVolume
<1>7. CASE NodeUnstageVolume(v)
  BY <1>4, <1>7 DEF NodeUnstageVolume
<1> QED BY <1>5, <1>6, <1>7

(* The disk a connector file leads to, while the device is there, is that   *)
(* of v.                                                                    *)
LEMMA OwnDisk ==
    ASSUME NEW v \in Volume, NamesInv, call[v].pc \notin {"logout", "cleanup"}
    PROVE  GetConnectorFromFile(v) = IF connector[v] = none THEN none ELSE v
BY NamesAssumption DEF NamesInv, NamesOK, GetConnectorFromFile, DiskAt

(* The source of a bind mount is the disk or the file system of v. *)
LEMMA RecoverNames ==
    ASSUME NEW v \in Volume, NamesInv, NodeInv', RecoverStaging(v)
    PROVE  NamesInv'
<1>1. NamesOK(v) /\ OwnOK(v) /\ Types /\ call[v].pc = "recover" /\ phase[v] = "staged"
  BY DEF NamesInv, NodeInv, RecoverStaging, OwnOK, CallOK
<1>2. inited /\ inited' BY Running DEF RecoverStaging, Handler
<1>3. GetConnectorFromFile(v) \in {none, v} BY <1>1, OwnDisk
<1>4. /\ UNCHANGED <<mode, session, dev, target, connector>>
      /\ \/ Error(v) /\ staging' = staging
         \/ mode[v] = "block" /\ Goto(v, "bind", none, v) /\ staging' = staging
         \/ /\ mode[v] # "block" /\ Goto(v, "bind", none, none)
            /\ staging' = staging \/ staging' = [staging EXCEPT ![v] = v]
  BY <1>3 DEF RecoverStaging
<1>5. /\ staging'[v] \in {staging[v], v} /\ \A w \in Volume \ {v} : staging'[w] = staging[w]
      /\ \/ Failed(v)
         \/ mode[v] = "block" /\ Went(v, "bind", none, v)
         \/ mode[v] # "block" /\ Went(v, "bind", none, none)
  BY <1>1, <1>4, Answers DEF Types, PC
<1>6. Apart(v)
  BY <1>2, <1>4, <1>5 DEF Apart, Failed, Went, Steps
<1>7. NamesOK(v)'
  BY <1>1, <1>2, <1>4, <1>5 DEF NamesOK, Failed, Went
<1> QED BY <1>6, <1>7, ApartKeeps

(* The bind mount shows that source. *)
LEMMA BindNames ==
    ASSUME NEW v \in Volume, NamesInv, NodeInv', PublishBind(v)
    PROVE  NamesInv'
<1>1. NamesOK(v) /\ OwnOK(v) /\ Types /\ call[v].pc = "bind" /\ phase[v] = "staged"
  BY DEF NamesInv, NodeInv, PublishBind, OwnOK, CallOK
<1>2. inited /\ inited' BY Running DEF PublishBind, Handler
<1>3. Source(v) = v
  BY <1>1, NamesAssumption, ModeAssumption DEF Source, NamesOK, OwnOK, CallOK, Types
<1> DEFINE path == IF target[v] = <<>> THEN <<"dir">> ELSE target[v]
<1>4. path \in Seq(Shown)
  <2>1. <<"dir">> \in Seq(Shown) BY DEF Shown
  <2>2. target[v] \in Seq(Shown) BY <1>1 DEF Types
  <2> QED BY <2>1, <2>2
<1>5. /\ UNCHANGED <<mode, session, dev, staging, connector>>
      /\ \/ Success(v, "published") /\ target' = [target EXCEPT ![v] = Append(path, v)]
         \/ Error(v) /\ \A w \in Volume \ {v} : target'[w] = target[w]
  BY <1>1, <1>3 DEF PublishBind, Types
<1> HIDE DEF path
<1>6. /\ \/ Done(v, "published") /\ target'[v] = Append(path, v)
         \/ Failed(v)
      /\ \A w \in Volume \ {v} : target'[w] = target[w]
  BY <1>1, <1>5, Answers DEF Types, Phase
<1>7. Append(path, v)[Len(Append(path, v))] = v
  <2>1. v \in Shown BY DEF Shown
  <2> QED BY <1>4, <2>1
<1>8. Apart(v)
  BY <1>2, <1>5, <1>6 DEF Apart, Failed, Went, Done, Steps
<1>9. NamesOK(v)'
  BY <1>1, <1>2, <1>5, <1>6, <1>7 DEF NamesOK, Failed, Went, Done, Idle
<1> QED BY <1>8, <1>9, ApartKeeps

-----------------------------------------------------------------------------
(* Unstaging: the staging path is unmounted, and the device to be deleted   *)
(* is that of v.                                                            *)
LEMMA UnmountNames ==
    ASSUME NEW v \in Volume, NamesInv, NodeInv', UnstageUnmount(v)
    PROVE  NamesInv'
<1>1. NamesOK(v) /\ OwnOK(v) /\ Types /\ call[v].pc = "load" /\ phase[v] = "unstage"
  BY DEF NamesInv, NodeInv, UnstageUnmount, OwnOK, CallOK
<1>2. inited /\ inited' BY Running DEF UnstageUnmount, Handler
<1>3. GetConnectorFromFile(v) = IF connector[v] = none THEN none ELSE v BY <1>1, OwnDisk
<1>4. connector[v] # none => v \in session
  BY <1>1, NamesAssumption DEF NamesOK, NamesInv, NodeInv, SessionInv
<1>5. /\ UNCHANGED <<mode, session, dev, target, connector>>
      /\ \/ Error(v) /\ staging' = staging
         \/ /\ staging' = [staging EXCEPT ![v] = none]
            /\ \/ connector[v] = none /\ Goto(v, "cleanup", none, none)
               \/ connector[v] # none /\ Goto(v, "remove", none, v)
  BY <1>3, NamesAssumption DEF UnstageUnmount
<1>6. /\ staging'[v] \in {staging[v], none} /\ \A w \in Volume \ {v} : staging'[w] = staging[w]
      /\ \/ Failed(v)
         \/ connector[v] = none /\ Went(v, "cleanup", none, none)
         \/ connector[v] # none /\ Went(v, "remove", none, v)
  BY <1>1, <1>5, Answers DEF Types, PC
<1>7. Apart(v)
  BY <1>2, <1>5, <1>6 DEF Apart, Failed, Went, Steps
<1>8. NamesOK(v)'
  BY <1>1, <1>2, <1>4, <1>5, <1>6 DEF NamesOK, Failed, Went
<1> QED BY <1>7, <1>8, ApartKeeps

(* Taking the devices of v away leaves all mounts alone once the staging    *)
(* path of v is unmounted.                                                  *)
LEMMA OwnDetach ==
    ASSUME NEW v \in Volume, NamesInv, staging[v] = none, Detach({v})
    PROVE  /\ \A w \in Volume : staging'[w] = staging[w]
           /\ \A w \in Volume \ {v}, d \in Device : dev[d] = w => dev'[d] = w
<1>1. none \notin {v} BY NamesAssumption
<1>2. \A w \in Volume : staging[w] # v
  BY NamesAssumption DEF NamesInv, NamesOK
<1> QED BY <1>1, <1>2, Detaching DEF NamesInv, NodeInv

(* The device is deleted, the session logged out, the connector removed. *)
LEMMA DisconnectNames ==
    ASSUME Adversity \subseteq {"connect", "mount"}, NEW v \in Volume, NamesInv, NodeInv',
           DisconnectVolume(v) \/ Disconnect(v) \/ UnstageCleanup(v)
    PROVE  NamesInv'
<1>1. /\ NamesOK(v) /\ OwnOK(v) /\ Types /\ staging[v] = none /\ phase[v] = "unstage"
      /\ call[v].pc \in {"remove", "logout", "cleanup"}
  BY DEF NamesInv, NodeInv, DisconnectVolume, Disconnect, UnstageCleanup, OwnOK, HostOK, CallOK
<1>2. inited /\ inited' BY Running DEF DisconnectVolume, Disconnect, UnstageCleanup, Handler
<1>3. mode' = mode /\ target' = target /\ (session' = session \/ session' = session \ {v})
  BY DEF DisconnectVolume, Disconnect, UnstageCleanup, LogOut, host, Fault
<1>4. UNCHANGED <<dev, staging>> \/ Detach({v})
  BY <1>1 DEF DisconnectVolume, Disconnect, UnstageCleanup, LogOut, host, NamesOK
<1>5. /\ \A w \in Volume : staging'[w] = staging[w]
      /\ \A w \in Volume \ {v}, d \in Device : dev[d] = w => dev'[d] = w
  BY <1>1, <1>4, OwnDetach
<1>6. \/ Went(v, "logout", none, none) /\ connector' = connector /\ v \in session'
      \/ Went(v, "cleanup", none, none) /\ connector' = connector
      \/ Done(v, "gone") /\ connector' = [connector EXCEPT ![v] = none]
  <2>1. \/ Goto(v, "logout", none, none) /\ connector' = connector /\ v \in session'
        \/ Goto(v, "cleanup", none, none) /\ connector' = connector
        \/ Success(v, "gone") /\ connector' = [connector EXCEPT ![v] = none]
    BY <1>1 DEF DisconnectVolume, Disconnect, UnstageCleanup, Fault, NamesOK
  <2> QED BY <1>1, <2>1, Answers DEF PC, Phase
<1>7. /\ \A w \in Volume \ {v} : connector'[w] = connector[w]
      /\ connector'[v] \in {none, connector[v]} /\ (Done(v, "gone") => connector'[v] = none)
  BY <1>1, <1>6 DEF Types, Done, Went, Idle
<1>8. Apart(v)
  BY <1>2, <1>3, <1>5, <1>6, <1>7 DEF Apart, Went, Done, Steps
<1>9. NamesOK(v)'
  BY <1>1, <1>2, <1>3, <1>5, <1>6, <1>7 DEF NamesOK, Went, Done, Idle
<1> QED BY <1>8, <1>9, ApartKeeps

(* Rescans, disks that appear, and pods. *)
LEMMA OutsideNames ==
    ASSUME NEW v \in Volume, NamesInv, NodeInv',
           NodeExpandVolume(v) \/ AttachLun(v) \/ PodArrives(v) \/ PodLeaves(v)
    PROVE  NamesInv'
<1>1. NamesOK(v) /\ Types BY DEF NamesInv, NodeInv
<1>2. /\ UNCHANGED <<mode, session, staging, target, connector, call>> /\ (inited => inited')
      /\ \A d \in Device : dev[d] # none => dev'[d] = dev[d]
  BY <1>1 DEF NodeExpandVolume, AttachLun, PodArrives, PodLeaves, host, Types
<1>3. /\ \A w \in Volume \ {v} : phase'[w] = phase[w]
      /\ phase'[v] \in {"staged", "published"} => phase[v] = phase'[v]
  BY <1>1 DEF NodeExpandVolume, AttachLun, PodArrives, PodLeaves, kubelet, Types
<1>4. Apart(v)
  BY <1>2, <1>3, NamesAssumption DEF Apart
<1>5. NamesOK(v)'
  BY <1>1, <1>2, <1>3, NamesAssumption DEF NamesOK, NamesInv, NodeInv, OwnOK, CallOK
<1> QED BY <1>4, <1>5, ApartKeeps

-----------------------------------------------------------------------------
(* The names stay right. *)
LEMMA NamesNext ==
    ASSUME Adversity \subseteq {"connect", "mount"}, NamesInv, [Next]_vars
    PROVE  NamesInv'
<1>1. NodeInv' BY NodeNext DEF NamesInv
<1>2. CASE UNCHANGED vars
  BY <1>1, <1>2 DEF vars, host, kubelet, NamesInv, NamesOK
<1>3. ~Restart /\ ~Reboot BY DEF Restart, Reboot, Fault
<1>4. ASSUME NEW v \in Volume, Handler(v) PROVE NamesInv'
  BY <1>1, <1>4, ConnectNames, PersistNames, StageNames, RecoverNames, BindNames, UnmountNames,
     DisconnectNames DEF Handler
<1> QED BY <1>1, <1>2, <1>3, <1>4, ConnectNames, CallNames, OutsideNames DEF Next

(* At the start nothing has a name. *)
LEMMA NamesInit == Init => NamesInv
<1> SUFFICES ASSUME Init PROVE NamesInv OBVIOUS
<1>1. NodeInv BY NodeInit
<1>2. ASSUME NEW v \in Volume PROVE NamesOK(v)
  BY DEF Init, Idle, NamesOK
<1> QED BY <1>1, <1>2 DEF NamesInv

(* Whatever volumes come and go together on a node, and whatever fails      *)
(* while they are connected and mounted, each staging path and each pod     *)
(* shows its own volume, although handlers go by names the kernel reuses.   *)
THEOREM MountsOwn == ASSUME Adversity \subseteq {"connect", "mount"} PROVE Spec => []MountsAreOwn
<1>1. NamesInv => MountsAreOwn
  BY DEF NamesInv, NamesOK, MountsAreOwn
<1> QED BY <1>1, NamesInit, NamesNext, PTL DEF Spec

(* Under the same adversities DisconnectVolume and Disconnect never take a  *)
(* device away from under a mounted file system.                            *)
THEOREM DevicesStay == ASSUME Adversity \subseteq {"connect", "mount"} PROVE Spec => []MountsHaveDevices
<1>1. NamesInv => MountsHaveDevices
  BY NamesAssumption DEF NamesInv, NamesOK, MountsHaveDevices
<1> QED BY <1>1, NamesInit, NamesNext, PTL DEF Spec
=============================================================================
