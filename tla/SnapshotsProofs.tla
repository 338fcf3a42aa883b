--------------------------- MODULE SnapshotsProofs ---------------------------
(***************************************************************************)
(* What the run of Snapshots checks on two volumes, proved for any number  *)
(* of volumes, snapshots, exports, writes and failures: types,             *)
(* HandlesAgree, SnapshotsAreTrue, CapacityIsThere and LeaksAreFailures.   *)
(* First what a handle decodes to, whoever wrote it; then the invariant    *)
(* that relates volumes, disks, snapshots and what Kubernetes stores; then *)
(* the count of what failures leave behind.                                *)
(***************************************************************************)
EXTENDS Snapshots, VolumeIdProofs, FiniteSetTheorems, WellFoundedInduction

(* The texts of the struct a volume is written down in. *)
Texts(v, path) ==
    Protocol \cup HostText \cup AuthText
       \cup {"", "0", "directory", "vhdx", v, path, DirOf(v), IqnOf(v), Rooted(v)}

(* What a struct says of volume v whatever its protocol. *)
MeantCommon(m, v, class, path, size) ==
    /\ m.protocol = class.protocol /\ m.name = v /\ m.vhdxPath = path /\ m.capacity = size
    /\ m.lun = "0"

ServerOf(class) == IF class.host = "" THEN "host" ELSE class.host

MeantIscsi(m, v, class) ==
    /\ m.targetPortal = TargetPortalAddress(class.host, class.portalPort)
    /\ m.targetName = v /\ m.targetIQN = IqnOf(v)
    /\ m.shareBackend = "" /\ m.sharePath = ""
    /\ NoNfs(m) /\ m.smbServer = "" /\ m.smbShareName = ""

MeantShare(m, v, class) ==
    /\ m.shareBackend = class.shareBackend /\ m.sharePath = DirOf(v)
    /\ m.targetPortal = "" /\ m.targetName = "" /\ m.targetIQN = ""

MeantNfs(m, v, class) ==
    /\ m.nfsServer = ServerOf(class) /\ m.nfsExportPath = Rooted(v)
    /\ m.nfsAuthentication = class.auth
    /\ m.nfsMountAuthentication = PreferredNfsMountAuthentication(class.auth)
    /\ m.smbServer = "" /\ m.smbShareName = ""

MeantSmb(m, v, class) ==
    /\ m.smbServer = ServerOf(class) /\ m.smbShareName = v /\ NoNfs(m)

(* The fields of the struct CreateVolume writes down. *)
LEMMA MeantFields ==
    ASSUME NEW v \in Volume, NEW class \in ClassType, NEW path, NEW size \in Nat,
           NEW m, m = Meant(v, class, path, size)
    PROVE  /\ m \in VolumeIDs(Texts(v, path)) /\ MeantCommon(m, v, class, path, size)
           /\ class.protocol = "iscsi" => MeantIscsi(m, v, class)
           /\ class.protocol # "iscsi" => MeantShare(m, v, class)
           /\ class.protocol = "nfs" => MeantNfs(m, v, class)
           /\ class.protocol = "smb" => MeantSmb(m, v, class)
<1> DEFINE Text == Texts(v, path)
<1>1. PICK p, h, b, a, f, export, server, portal :
        /\ p = class.protocol /\ h = class.host /\ b = class.shareBackend /\ a = class.auth
        /\ f = PreferredNfsMountAuthentication(class.auth) /\ export = Rooted(v)
        /\ server = ServerOf(class) /\ portal = TargetPortalAddress(class.host, class.portalPort)
  OBVIOUS
<1>2. /\ p \in Protocol /\ h \in HostText /\ b \in {"", "directory", "vhdx"}
      /\ a \in AuthText /\ f \in AuthText
  BY <1>1 DEF ClassType, AuthText, PreferredNfsMountAuthentication
<1>3. server \in HostText /\ portal \in HostText
  BY <1>1, <1>2 DEF ServerOf, TargetPortalAddress, HostText
<1>4. /\ "" \in Text /\ "0" \in Text /\ v \in Text /\ path \in Text /\ DirOf(v) \in Text
      /\ IqnOf(v) \in Text /\ p \in Text /\ b \in Text /\ a \in Text /\ server \in Text
      /\ portal \in Text /\ f \in Text /\ export \in Text
  BY <1>1, <1>2, <1>3 DEF Texts
<1> HIDE DEF Text
<1>5. EmptyID \in VolumeIDs(Text) BY <1>4, EmptyIDType
<1>6. PICK common : common = [EmptyID EXCEPT !.protocol = p, !.name = v, !.vhdxPath = path,
                                             !.capacity = size]
  OBVIOUS
<1>7. common \in VolumeIDs(Text) BY <1>4, <1>5, <1>6 DEF VolumeIDs
<1>8. MeantCommon(common, v, class, path, size)
  BY <1>1, <1>6 DEF EmptyID, MeantCommon
<1>9. /\ common.shareBackend = "" /\ common.sharePath = "" /\ common.targetPortal = ""
      /\ common.targetName = "" /\ common.targetIQN = "" /\ NoNfs(common)
      /\ common.smbServer = "" /\ common.smbShareName = ""
  BY <1>6 DEF EmptyID, NoNfs
<1>10. PICK shared : shared = [common EXCEPT !.shareBackend = b, !.sharePath = DirOf(v)]
  OBVIOUS
<1>11. shared \in VolumeIDs(Text) BY <1>4, <1>7, <1>10 DEF VolumeIDs
<1>12. /\ MeantCommon(shared, v, class, path, size) /\ MeantShare(shared, v, class)
       /\ NoNfs(shared) /\ shared.smbServer = "" /\ shared.smbShareName = ""
  BY <1>1, <1>7, <1>8, <1>9, <1>10 DEF VolumeIDs, MeantCommon, MeantShare, NoNfs
<1>13. CASE p = "iscsi"
  <2>1. m = [common EXCEPT !.targetPortal = portal, !.targetName = v, !.targetIQN = IqnOf(v)]
    BY <1>1, <1>6, <1>13 DEF Meant
  <2>2. m \in VolumeIDs(Text) BY <1>4, <1>7, <2>1 DEF VolumeIDs
  <2>3. MeantCommon(m, v, class, path, size)
    BY <1>7, <1>8, <2>1 DEF VolumeIDs, MeantCommon
  <2>4. MeantIscsi(m, v, class)
    BY <1>1, <1>7, <1>9, <2>1 DEF VolumeIDs, MeantIscsi, NoNfs
  <2> QED BY <1>1, <1>13, <2>2, <2>3, <2>4 DEF Text
<1>14. CASE p = "nfs"
  <2>1. m = [shared EXCEPT !.nfsServer = server, !.nfsExportPath = export,
                           !.nfsAuthentication = a, !.nfsMountAuthentication = f]
    BY <1>1, <1>6, <1>10, <1>14 DEF Meant, ServerOf
  <2>2. m \in VolumeIDs(Text)
    <3>1. "" \in Text /\ server \in Text /\ export \in Text /\ a \in Text /\ f \in Text BY <1>4
    <3>2. PICK half : half = [shared EXCEPT !.nfsServer = server, !.nfsExportPath = export]
      OBVIOUS
    <3>3. half \in VolumeIDs(Text) BY ONLY <1>11, <3>1, <3>2 DEF VolumeIDs
    <3>4. m = [half EXCEPT !.nfsAuthentication = a, !.nfsMountAuthentication = f]
      BY ONLY <1>11, <2>1, <3>2 DEF VolumeIDs
    <3> QED BY ONLY <3>1, <3>3, <3>4 DEF VolumeIDs
  <2>3. MeantCommon(m, v, class, path, size) /\ MeantShare(m, v, class)
    BY <1>11, <1>12, <2>1 DEF VolumeIDs, MeantCommon, MeantShare
  <2>4. MeantNfs(m, v, class)
    BY <1>1, <1>11, <1>12, <2>1 DEF VolumeIDs, MeantNfs
  <2> QED BY <1>1, <1>14, <2>2, <2>3, <2>4 DEF Text
<1>15. CASE p = "smb"
  <2>1. m = [shared EXCEPT !.smbServer = server, !.smbShareName = v]
    BY <1>1, <1>6, <1>10, <1>15 DEF Meant, ServerOf
  <2>2. m \in VolumeIDs(Text) BY <1>4, <1>11, <2>1 DEF VolumeIDs
  <2>3. MeantCommon(m, v, class, path, size) /\ MeantShare(m, v, class)
    BY <1>11, <1>12, <2>1 DEF VolumeIDs, MeantCommon, MeantShare
  <2>4. MeantSmb(m, v, class)
    BY <1>1, <1>11, <1>12, <2>1 DEF VolumeIDs, MeantSmb, NoNfs
  <2> QED BY <1>1, <1>15, <2>2, <2>3, <2>4 DEF Text
<1> QED BY <1>2, <1>13, <1>14, <1>15 DEF Protocol

(* A handle CreateVolume answers with decodes to the volume it was about,   *)
(* unless url.Parse refuses its host.                                       *)
LEMMA HandleDecodes ==
    ASSUME NEW v \in Volume, NEW class \in ClassType, NEW path, NEW n \in Nat,
           NEW m, m = Meant(v, class, path, n)
    PROVE  DecodeAnyVolumeID(Handle(m)) = IF BareIPv6(class) THEN EmptyID ELSE m
<1> DEFINE Text == Texts(v, path)
<1>1. /\ m \in VolumeIDs(Text) /\ MeantCommon(m, v, class, path, n)
      /\ class.protocol = "iscsi" => MeantIscsi(m, v, class)
      /\ class.protocol # "iscsi" => MeantShare(m, v, class)
      /\ class.protocol = "nfs" => MeantNfs(m, v, class)
      /\ class.protocol = "smb" => MeantSmb(m, v, class)
  BY MeantFields
<1>2. "" \in Text /\ "0" \in Text BY DEF Texts
<1>3. class.protocol \in Protocol /\ class.host \in HostText BY DEF ClassType
<1>4. v \in Name /\ v # "" /\ Unescape(v) = v BY NameAssumption, TextAssumption
<1>5. m.protocol = class.protocol BY <1>1 DEF MeantCommon
<1> HIDE DEF Text
<1>6. CASE class.protocol = "iscsi"
  <2>1. IscsiOnly(m) BY <1>1, <1>5, <1>6 DEF IscsiOnly, MeantIscsi, NoNfs
  <2>2. DecodeAnyVolumeID(EncodeVolID(m)) = m BY <1>1, <1>2, <2>1, LegacyKeysAgree
  <2>3. Handle(m) = EncodeVolID(m) BY <1>5, <1>6 DEF Handle
  <2> QED BY <1>6, <2>2, <2>3 DEF BareIPv6
<1>7. CASE class.protocol # "iscsi" /\ ~BareIPv6(class)
  <2>1. ServerOf(class) # "" /\ ParsesAsHost(ServerOf(class))
    BY <1>7 DEF ServerOf, ParsesAsHost, BareIPv6
  <2>2. Writable(m)
    BY <1>1, <1>3, <1>4, <1>5, <1>7, <2>1
       DEF Writable, MeantCommon, MeantShare, MeantNfs, MeantSmb, Protocol
  <2>u. Unescapable(m)
    BY <1>1, <1>3, <1>4, <1>5, <1>7 DEF Unescapable, MeantNfs, MeantSmb, Protocol
  <2>3. DecodeAnyVolumeID(EncodeVolumeID(m)) = m BY <1>1, <1>2, <2>2, <2>u, SameAgain
  <2>4. Handle(m) = EncodeVolumeID(m) BY <1>5, <1>7 DEF Handle
  <2> QED BY <1>7, <2>3, <2>4
<1>8. CASE BareIPv6(class)
  <2>1. ServerOf(class) = "v6" BY <1>8 DEF ServerOf, BareIPv6
  <2>2. class.protocol # "iscsi" BY <1>8 DEF BareIPv6
  <2>3. EncodeVolumeID(m).host = "v6"
    BY <1>1, <1>3, <1>5, <2>1, <2>2 DEF EncodeVolumeID, MeantShare, MeantNfs, MeantSmb, Protocol
  <2>4. DecodeURI(EncodeVolumeID(m)) = EmptyID BY <2>3 DEF DecodeURI, ParsesAsHost
  <2>5. EncodeVolumeID(m).form = "uri" BY DEF EncodeVolumeID
  <2>6. Handle(m) = EncodeVolumeID(m) BY <1>5, <2>2 DEF Handle
  <2> QED BY <1>8, <2>4, <2>5, <2>6 DEF DecodeAnyVolumeID, DecodeVolumeID
<1> QED BY <1>6, <1>7, <1>8

(* So does a handle written by hand. *)
LEMMA ImportedSays ==
    ASSUME NEW v \in Volume, NEW class \in ClassType, Importable(class), ~BareIPv6(class),
           NEW path, path # "", NEW m, m = Meant(v, class, path, Min)
    PROVE  Says(ImportedHandle(v, class, path), m)
<1> DEFINE Text == Texts(v, path)
           host == IF class.protocol = "iscsi" THEN class.host ELSE ""
<1>1. /\ m \in VolumeIDs(Text) /\ MeantCommon(m, v, class, path, Min)
      /\ class.protocol = "iscsi" => MeantIscsi(m, v, class)
      /\ class.protocol # "iscsi" => MeantShare(m, v, class)
      /\ class.protocol = "nfs" => MeantNfs(m, v, class)
      /\ class.protocol = "smb" => MeantSmb(m, v, class)
  BY MeantFields DEF Min
<1>2. "" \in Text /\ "0" \in Text /\ host \in Text /\ class.protocol \in Protocol
  BY DEF Texts, ClassType
<1>3. /\ v \in Name /\ v # "" /\ Unescape(v) = v
      /\ IqnOf(v) \in Name /\ IqnOf(v) # "" /\ Unescape(IqnOf(v)) = IqnOf(v)
      /\ "0" \in Numeral /\ Rooted(v) \notin {"", "/"}
  BY NameAssumption, TextAssumption
<1> HIDE DEF Text, host
<1>4. PICK w : w = [m EXCEPT !.targetPortal = host] OBVIOUS
<1>5. w \in VolumeIDs(Text) BY <1>1, <1>2, <1>4 DEF VolumeIDs
<1>6. /\ w.protocol = m.protocol /\ w.name = m.name /\ w.shareBackend = m.shareBackend
      /\ w.sharePath = m.sharePath /\ w.targetPortal = host
      /\ w.targetName = m.targetName /\ w.targetIQN = m.targetIQN /\ w.lun = m.lun
      /\ w.vhdxPath = m.vhdxPath /\ w.nfsServer = m.nfsServer
      /\ w.nfsExportPath = m.nfsExportPath
      /\ w.nfsAuthentication = m.nfsAuthentication
      /\ w.nfsMountAuthentication = m.nfsMountAuthentication
      /\ w.smbServer = m.smbServer /\ w.smbShareName = m.smbShareName
      /\ w.capacity = m.capacity
  BY <1>1, <1>4 DEF VolumeIDs
<1>7. m.protocol = class.protocol /\ m.name = v /\ m.vhdxPath = path /\ m.lun = "0"
  BY <1>1 DEF MeantCommon
<1>8. PICK uri : uri = EncodeVolumeID(w) OBVIOUS
<1>9. PICK q : q = EncodeVolumeID(w).query OBVIOUS
<1>10. PICK segments : segments = EncodeVolumeID(w).path OBVIOUS
<1> DEFINE keys == DOMAIN uri.query \ {"nfsServer", "smbServer"}
           cut == [k \in keys |-> uri.query[k]]
<1>11. PICK u : u = [uri EXCEPT !.query = cut] OBVIOUS
<1>12. u = ImportedHandle(v, class, path)
  <2>1. ImportedHandle(v, class, path) = WithoutServer(uri)
    BY <1>4, <1>8 DEF ImportedHandle, host
  <2> QED BY <1>11, <2>1 DEF WithoutServer
<1>13. uri.query = q /\ uri.path = segments BY <1>8, <1>9, <1>10
<1>14. uri.scheme = m.protocol /\ uri.capacity = m.capacity
  BY <1>6, <1>8 DEF EncodeVolumeID
<1>15. uri.host = IF class.protocol = "iscsi" THEN class.host ELSE ServerOf(class)
  BY <1>1, <1>2, <1>6, <1>7, <1>8
     DEF EncodeVolumeID, MeantNfs, MeantSmb, Protocol, host
<1>16. /\ u.query = cut /\ u.path = segments /\ u.scheme = m.protocol
       /\ u.capacity = m.capacity /\ u.host = uri.host
  <2> HIDE DEF cut
  <2> QED BY <1>8, <1>11, <1>13, <1>14 DEF EncodeVolumeID
<1>17. /\ Get(q, "name") = m.name /\ Get(q, "vhdxPath") = m.vhdxPath
       /\ Get(q, "shareBackend") = m.shareBackend /\ Get(q, "sharePath") = m.sharePath
       /\ Get(q, "targetName") = m.targetName
       /\ m.protocol = "nfs" => /\ Get(q, "targetPortal") = host
                                /\ Get(q, "nfsAuthentication") = m.nfsAuthentication
                                /\ Get(q, "nfsMountAuthentication") = m.nfsMountAuthentication
  <2>1. /\ Get(q, "name") = w.name /\ Get(q, "vhdxPath") = w.vhdxPath
        /\ Get(q, "shareBackend") = w.shareBackend /\ Get(q, "sharePath") = w.sharePath
        /\ Get(q, "targetName") = w.targetName
        /\ w.protocol = "nfs" => /\ Get(q, "targetPortal") = w.targetPortal
                                 /\ Get(q, "nfsServer") = w.nfsServer
                                 /\ Get(q, "nfsAuthentication") = w.nfsAuthentication
                                 /\ Get(q, "nfsMountAuthentication") = w.nfsMountAuthentication
        /\ w.protocol = "smb" => Get(q, "smbServer") = w.smbServer
    BY <1>5, <1>9, EncodedQuery
  <2> QED BY <1>6, <2>1
<1>18. ASSUME NEW k, k \notin {"nfsServer", "smbServer"} PROVE Get(cut, k) = Get(q, k)
  BY <1>13, <1>18 DEF Get
<1>19. Get(cut, "nfsServer") = "" /\ Get(cut, "smbServer") = "" BY DEF Get
<1>20. /\ Get(cut, "name") = m.name /\ Get(cut, "vhdxPath") = m.vhdxPath
       /\ Get(cut, "shareBackend") = m.shareBackend /\ Get(cut, "sharePath") = m.sharePath
       /\ Get(cut, "targetName") = m.targetName
       /\ m.protocol = "nfs" => /\ Get(cut, "targetPortal") = host
                                /\ Get(cut, "nfsAuthentication") = m.nfsAuthentication
                                /\ Get(cut, "nfsMountAuthentication") = m.nfsMountAuthentication
  <2> HIDE DEF cut
  <2> QED BY <1>17, <1>18
<1> HIDE DEF cut
<1>21. PathParts(w)
  BY <1>1, <1>2, <1>3, <1>6, <1>7
     DEF PathParts, ShouldEncodeLUN, MeantIscsi, MeantNfs, MeantSmb, Protocol
<1>22. /\ m.protocol = "iscsi" => /\ First(PathSegments(segments)) = m.targetIQN
                                  /\ LunIn(PathSegments(segments)) = m.lun
       /\ m.protocol = "nfs" => ExportPath(segments) = m.nfsExportPath
       /\ m.protocol = "smb" => First(PathSegments(segments)) = m.smbShareName
  <2>1. /\ w.protocol = "iscsi" => /\ First(PathSegments(segments)) = Unescape(w.targetIQN)
                                   /\ LunIn(PathSegments(segments)) = w.lun
        /\ w.protocol = "nfs" =>
             ExportPath(segments) =
               Rooted(Unescape(CHOOSE n \in Name : Rooted(n) = w.nfsExportPath))
        /\ w.protocol = "smb" => First(PathSegments(segments)) = Unescape(w.smbShareName)
    BY <1>10, <1>21, EncodedPath
  <2>2. (CHOOSE n \in Name : Rooted(n) = Rooted(v)) = v BY <1>3, Unrooted
  <2>3. ASSUME m.protocol = "iscsi"
        PROVE  First(PathSegments(segments)) = m.targetIQN /\ LunIn(PathSegments(segments)) = m.lun
    <3>1. m.targetIQN = IqnOf(v) BY <1>1, <1>7, <2>3 DEF MeantIscsi
    <3> QED BY <1>3, <1>6, <2>1, <2>3, <3>1
  <2>4. ASSUME m.protocol = "nfs" PROVE ExportPath(segments) = m.nfsExportPath
    <3>1. m.nfsExportPath = Rooted(v) BY <1>1, <1>7, <2>4 DEF MeantNfs
    <3>2. PICK x : x = CHOOSE n \in Name : Rooted(n) = w.nfsExportPath OBVIOUS
    <3>3. w.nfsExportPath = Rooted(v) BY <1>6, <3>1
    <3>4. x = v BY <2>2, <3>2, <3>3
    <3>5. ExportPath(segments) = Rooted(Unescape(x)) BY <1>6, <2>1, <2>4, <3>2
    <3> QED BY <1>3, <3>1, <3>4, <3>5
  <2>5. ASSUME m.protocol = "smb" PROVE First(PathSegments(segments)) = m.smbShareName
    <3>1. m.smbShareName = v BY <1>1, <1>7, <2>5 DEF MeantSmb
    <3> QED BY <1>3, <1>6, <2>1, <2>5, <3>1
  <2> QED BY <2>3, <2>4, <2>5
<1>24. ParsesAsHost(u.host)
  BY <1>15, <1>16 DEF Importable, BareIPv6, ServerOf, ParsesAsHost
<1>25. SaysCommon(u, m) BY <1>3, <1>7, <1>16, <1>20, <1>24 DEF SaysCommon
<1>26. CASE class.protocol = "iscsi"
  <2>1. DefaultPort(u.host) = m.targetPortal /\ m.targetPortal # ""
    BY <1>1, <1>15, <1>16, <1>26 DEF Importable, MeantIscsi, ValidTargetPortal
  <2>2. SaysIscsi(u, m)
    BY <1>1, <1>3, <1>7, <1>16, <1>22, <1>26, <2>1 DEF SaysIscsi, MeantIscsi, NoNfs
  <2> QED BY <1>12, <1>25, <2>2 DEF Says
<1>27. CASE class.protocol = "nfs"
  <2>1. HostOnly(ServerOf(class)) = ServerOf(class) /\ ServerOf(class) # ""
    BY <1>27 DEF Importable, HostOnly, ServerOf
  <2>2. Server(u, "nfsServer") = m.nfsServer /\ m.nfsServer # ""
    BY <1>1, <1>15, <1>16, <1>19, <1>27, <2>1 DEF Server, MeantNfs
  <2>3. ExportPath(u.path) = m.nfsExportPath BY <1>7, <1>16, <1>22, <1>27
  <2>4. SaysNfs(u, m)
    BY <1>1, <1>3, <1>7, <1>16, <1>20, <1>27, <2>2, <2>3
       DEF SaysNfs, MeantShare, MeantNfs, host
  <2> QED BY <1>12, <1>25, <2>4 DEF Says
<1>28. CASE class.protocol = "smb"
  <2>1. HostOnly(ServerOf(class)) = ServerOf(class) /\ ServerOf(class) # ""
    BY <1>28 DEF Importable, HostOnly, ServerOf
  <2>2. Server(u, "smbServer") = m.smbServer /\ m.smbServer # ""
    BY <1>1, <1>15, <1>16, <1>19, <1>28, <2>1 DEF Server, MeantSmb
  <2>3. First(PathSegments(u.path)) = m.smbShareName BY <1>7, <1>16, <1>22, <1>28
  <2>4. SaysSmb(u, m)
    BY <1>1, <1>3, <1>7, <1>16, <1>28, <2>2, <2>3 DEF SaysSmb, MeantShare, MeantSmb, NoNfs
  <2> QED BY <1>12, <1>25, <2>4 DEF Says
<1> QED BY <1>2, <1>26, <1>27, <1>28 DEF Protocol

(* What a handle written by hand looks like. *)
HostPart(class) == IF class.protocol = "iscsi" THEN class.host ELSE ServerOf(class)

(* Form, scheme and host of a handle written by hand. *)
LEMMA ImportedParts ==
    ASSUME NEW v \in Volume, NEW class \in ClassType, NEW path,
           NEW u, u = ImportedHandle(v, class, path)
    PROVE  /\ u.form = "uri" /\ u.scheme = class.protocol
           /\ u.host = HostPart(class)
<1> DEFINE host == IF class.protocol = "iscsi" THEN class.host ELSE ""
<1>1. PICK m : m = Meant(v, class, path, Min) OBVIOUS
<1>2. /\ m \in VolumeIDs(Texts(v, path)) /\ MeantCommon(m, v, class, path, Min)
      /\ class.protocol = "nfs" => MeantNfs(m, v, class)
      /\ class.protocol = "smb" => MeantSmb(m, v, class)
  BY <1>1, MeantFields DEF Min
<1>3. class.protocol \in Protocol BY DEF ClassType
<1> HIDE DEF host
<1>4. PICK w : w = [m EXCEPT !.targetPortal = host] OBVIOUS
<1>5. /\ w.protocol = class.protocol /\ w.targetPortal = host
      /\ w.nfsServer = m.nfsServer /\ w.smbServer = m.smbServer
  BY <1>2, <1>4 DEF VolumeIDs, MeantCommon
<1>6. PICK uri : uri = EncodeVolumeID(w) OBVIOUS
<1>7. /\ uri.form = "uri" /\ uri.scheme = class.protocol
      /\ uri.host = IF class.protocol = "iscsi" THEN class.host ELSE ServerOf(class)
  BY <1>2, <1>3, <1>5, <1>6 DEF EncodeVolumeID, MeantNfs, MeantSmb, Protocol, host
<1>8. u = WithoutServer(uri) BY <1>1, <1>4, <1>6 DEF ImportedHandle, host
<1> DEFINE cut == [k \in DOMAIN uri.query \ {"nfsServer", "smbServer"} |-> uri.query[k]]
<1>9. u = [uri EXCEPT !.query = cut] BY <1>8 DEF WithoutServer
<1> HIDE DEF cut
<1>10. u.form = uri.form /\ u.scheme = uri.scheme /\ u.host = uri.host
  BY <1>6, <1>9 DEF EncodeVolumeID
<1> QED BY <1>7, <1>10 DEF HostPart

-----------------------------------------------------------------------------
(* Where the storage of a volume can be. *)
Paths(v, class) == IF OnVhdx(class) THEN {VhdxOf(v)} \cup Export ELSE {DirOf(v)}

(* A volume has a path, and a virtual disk at it just if its class wants    *)
(* one.                                                                     *)
LEMMA PathsFacts ==
    ASSUME NEW v \in Volume, NEW class, NEW path \in Paths(v, class)
    PROVE  /\ path # "" /\ (OnVhdx(class) <=> path \in Path)
<1>1. /\ "" \notin Export /\ VhdxOf(v) \notin Export \cup {""} /\ DirOf(v) \notin Path \cup {""}
  BY NameAssumption
<1>2. VhdxOf(v) \in Path /\ Export \subseteq Path BY DEF Path
<1> QED BY <1>1, <1>2 DEF Paths

(***************************************************************************)
(* The handle r.id and the context r.vc are what CreateVolume answered, or *)
(* what an administrator wrote, for the class and path of the volume and a *)
(* capacity n.  Nothing ever changes them.                                 *)
(***************************************************************************)
Written(v, r, n) ==
    \/ /\ Accepted(r.class)
       /\ r.id = Handle(Meant(v, r.class, r.path, n))
       /\ r.vc = VolumeContextForVolumeID(Meant(v, r.class, r.path, n))
    \/ /\ Importable(r.class) /\ n = Min
       /\ r.id = ImportedHandle(v, r.class, r.path) /\ r.vc = NoContext

(* Whoever wrote a handle, the controller reads the volume from it. *)
LEMMA WrittenDecodes ==
    ASSUME NEW v \in Volume, NEW r, r.class \in ClassType, r.path \in Paths(v, r.class),
           NEW n \in Nat, Written(v, r, n)
    PROVE  DecodeAnyVolumeID(r.id) =
             IF BareIPv6(r.class) THEN EmptyID ELSE Meant(v, r.class, r.path, n)
<1>1. PICK m, class, path : /\ class = r.class /\ path = r.path
                            /\ m = Meant(v, r.class, r.path, n)
  OBVIOUS
<1>2. class \in ClassType /\ path # "" /\ m = Meant(v, class, path, n) BY <1>1, PathsFacts
<1>3. CASE r.id = Handle(m)
  <2>1. DecodeAnyVolumeID(Handle(m)) = IF BareIPv6(class) THEN EmptyID ELSE m
    BY <1>2, HandleDecodes
  <2> QED BY <1>1, <1>3, <2>1
<1>4. CASE Importable(class) /\ n = Min /\ r.id = ImportedHandle(v, class, path)
  <2>u. PICK u : u = ImportedHandle(v, class, path) OBVIOUS
  <2>p. u.form = "uri" /\ u.scheme = class.protocol /\ u.host = HostPart(class)
    BY <1>2, <2>u, ImportedParts
  <2>1. r.id.form = "uri" /\ r.id.scheme = class.protocol /\ r.id.host = HostPart(class)
    BY <1>4, <2>u, <2>p
  <2>2. DecodeAnyVolumeID(r.id) = DecodeURI(r.id)
    BY <2>1 DEF DecodeAnyVolumeID, DecodeVolumeID
  <2>3. CASE BareIPv6(class)
    <3>1. r.id.host = "v6" BY <2>1, <2>3 DEF BareIPv6, ServerOf, HostPart
    <3>2. DecodeURI(r.id) = EmptyID BY <3>1 DEF DecodeURI, ParsesAsHost
    <3> QED BY <1>1, <2>2, <2>3, <3>2
  <2>4. CASE ~BareIPv6(class)
    <3>1. Says(ImportedHandle(v, class, path), m) BY <1>2, <1>4, <2>4, ImportedSays
    <3>2. m \in VolumeIDs(Texts(v, path)) BY <1>2, MeantFields
    <3>3. "" \in Texts(v, path) /\ "0" \in Texts(v, path) BY DEF Texts
    <3>4. DecodeURI(ImportedHandle(v, class, path)) = m
      BY <3>1, <3>2, <3>3, SaidIsRead
    <3> QED BY <1>1, <1>4, <2>2, <2>4, <3>4
  <2> QED BY <2>3, <2>4
<1> QED BY <1>1, <1>3, <1>4 DEF Written

(* A portal CreateVolume wrote down is one validateTargetPortal takes, and  *)
(* the initiator adds no port to it.                                        *)
LEMMA PortalFacts ==
    ASSUME NEW class \in ClassType, class.protocol = "iscsi",
           Accepted(class) \/ Importable(class),
           NEW portal, portal = TargetPortalAddress(class.host, class.portalPort)
    PROVE  /\ portal # "" /\ ValidTargetPortal(portal)
           /\ ~IPv6Portal(portal) => DialedPortal(portal) = portal
<1>1. class.host \in HostText /\ class.portalPort \in {0, 860} BY DEF ClassType
<1>2. class.host \notin {"", "[v6]"}
  BY <1>1 DEF Accepted, Importable, ValidTargetPortal, DefaultPort, HostText
<1>3. portal \in {"host:860", "host:3260", "[v6]:860", "[v6]:3260"}
  <2>1. PICK h, port : h = class.host /\ port = class.portalPort OBVIOUS
  <2>2. h \in {"host", "v6", "host:860", "host:3260", "[v6]:860", "[v6]:3260"}
    BY <1>1, <1>2, <2>1 DEF HostText
  <2>3. portal = TargetPortalAddress(h, port) BY <2>1
  <2> QED BY ONLY <2>2, <2>3 DEF TargetPortalAddress
<1> QED BY <1>3 DEF ValidTargetPortal, IPv6Portal, DialedPortal, DefaultPort

(* The struct lacks nothing the node needs. *)
LEMMA MeantComplete ==
    ASSUME NEW v \in Volume, NEW class \in ClassType, Accepted(class) \/ Importable(class),
           NEW path, NEW n \in Nat, NEW m, m = Meant(v, class, path, n)
    PROVE  Complete(m)
<1>1. /\ MeantCommon(m, v, class, path, n)
      /\ class.protocol = "iscsi" => MeantIscsi(m, v, class)
      /\ class.protocol # "iscsi" => MeantShare(m, v, class)
      /\ class.protocol = "nfs" => MeantNfs(m, v, class)
      /\ class.protocol = "smb" => MeantSmb(m, v, class)
  BY MeantFields
<1>2. class.protocol \in Protocol BY DEF ClassType
<1>3. v # "" /\ IqnOf(v) # "" /\ Rooted(v) # "" BY NameAssumption, TextAssumption
<1>4. ServerOf(class) # "" BY DEF ServerOf
<1>5. CASE class.protocol = "iscsi"
  <2>1. m.targetPortal # "" /\ ValidTargetPortal(m.targetPortal)
    BY <1>1, <1>5, PortalFacts DEF MeantIscsi
  <2> QED BY <1>1, <1>3, <1>5, <2>1 DEF Complete, MeantCommon, MeantIscsi, NoNfs
<1>6. CASE class.protocol = "nfs"
  BY <1>1, <1>3, <1>4, <1>6 DEF Complete, MeantCommon, MeantNfs
<1>7. CASE class.protocol = "smb"
  BY <1>1, <1>3, <1>4, <1>7 DEF Complete, MeantCommon, MeantSmb, NoNfs
<1> QED BY <1>2, <1>5, <1>6, <1>7 DEF Protocol

(* The node finds the volume, with the publish context or without. *)
LEMMA WrittenNode ==
    ASSUME NEW v \in Volume, NEW r, r.class \in ClassType, r.path \in Paths(v, r.class),
           ~BareIPv6(r.class), NEW n \in Nat, Written(v, r, n),
           NEW m, m = Meant(v, r.class, r.path, n),
           NEW pc \in {NoContext, VolumeContextForVolumeID(m)}
    PROVE  NodeSource(r.id, pc, r.vc) =
             [ok |-> TRUE, protocol |-> m.protocol, at |-> Where(m),
              auth |-> m.nfsMountAuthentication]
<1>1. PICK class, path, id, vc : class = r.class /\ path = r.path /\ id = r.id /\ vc = r.vc
  OBVIOUS
<1>2. class \in ClassType /\ path # "" /\ m = Meant(v, class, path, n) BY <1>1, PathsFacts
<1>3. DecodeAnyVolumeID(id) = m BY <1>1, WrittenDecodes
<1>4. m.protocol = class.protocol
  <2>1. MeantCommon(m, v, class, path, n) BY <1>2, MeantFields
  <2> QED BY <2>1 DEF MeantCommon
<1>5. class.protocol \in Protocol BY <1>2 DEF ClassType
<1>6. PICK C : C = VolumeContextForVolumeID(m) OBVIOUS
<1>a. MountFlavour(m.nfsMountAuthentication, m.nfsAuthentication) = m.nfsMountAuthentication
  <2>1. /\ class.protocol = "iscsi" => MeantIscsi(m, v, class)
        /\ class.protocol = "nfs" => MeantNfs(m, v, class)
        /\ class.protocol = "smb" => MeantSmb(m, v, class)
    BY <1>2, MeantFields
  <2>2. class.auth \in AuthText BY <1>2 DEF ClassType
  <2>3. \A a \in AuthText :
          MountFlavour(PreferredNfsMountAuthentication(a), a) = PreferredNfsMountAuthentication(a)
    BY DEF AuthText, MountFlavour, PreferredNfsMountAuthentication
  <2>4. MountFlavour("", "") = "" BY DEF MountFlavour, PreferredNfsMountAuthentication
  <2> QED BY <1>5, <2>1, <2>2, <2>3, <2>4 DEF MeantIscsi, MeantNfs, MeantSmb, NoNfs, Protocol
<1>7. Complete(m)
  <2>1. Accepted(class) \/ Importable(class) BY <1>1 DEF Written
  <2> QED BY <1>2, <2>1, MeantComplete
(* A URI says the volume and its protocol. *)
<1>8. ASSUME id.form = "uri", id.scheme = m.protocol, id.host # ""
      PROVE  /\ VolumeContextFromVolumeID(id, m.protocol) = C
             /\ ParseProtocolFromVolumeID(id) = m.protocol
  <2>1. DecodeVolumeID(id) = m BY <1>3, <1>8 DEF DecodeAnyVolumeID
  <2>2. VolumeContextFromVolumeID(id, m.protocol) = C
    BY <1>6, <2>1 DEF VolumeContextFromVolumeID
  <2>3. ParseProtocolFromVolumeID(id) = m.protocol BY <1>8 DEF ParseProtocolFromVolumeID
  <2> QED BY <2>2, <2>3
<1>9. CASE vc = C /\ id = EncodeVolID(m) /\ m.protocol = "iscsi"
  <2>1. id.form = "legacy" BY <1>9 DEF EncodeVolID
  <2>2. ParseProtocolFromVolumeID(id) = "" BY <2>1 DEF ParseProtocolFromVolumeID
  <2>3. VolumeContextFromVolumeID(id, m.protocol) = NoContext
    <3>1. DecodeVolumeID(id) = EmptyID BY <2>1 DEF DecodeVolumeID
    <3>2. EmptyID.protocol # "iscsi" BY DEF EmptyID
    <3> QED BY <1>9, <3>1, <3>2 DEF VolumeContextFromVolumeID
  <2>4. vc = C /\ m.protocol = "iscsi" BY <1>9
  <2>5. NodeSource(id, pc, vc) =
          [ok |-> TRUE, protocol |-> m.protocol, at |-> Where(m),
           auth |-> MountFlavour(m.nfsMountAuthentication, m.nfsAuthentication)]
    BY ONLY <1>6, <1>7, <2>2, <2>3, <2>4, NodeFinds, pc \in {NoContext, VolumeContextForVolumeID(m)}
  <2> QED BY <1>1, <1>a, <2>5
<1>10. CASE vc \in {NoContext, C} /\ id.form = "uri" /\ id.scheme = m.protocol /\ id.host # ""
  <2>1. /\ VolumeContextFromVolumeID(id, m.protocol) = C
        /\ ParseProtocolFromVolumeID(id) = m.protocol
    BY <1>8, <1>10
  <2> QED BY <1>1, <1>6, <1>7, <1>10, <1>a, <2>1, NodeFinds
<1>11. CASE Accepted(class) /\ id = Handle(m) /\ vc = C
  <2>1. CASE m.protocol = "iscsi"
    BY <1>9, <1>11, <2>1 DEF Handle
  <2>2. CASE m.protocol # "iscsi"
    <3>1. id = EncodeVolumeID(m) BY <1>11, <2>2 DEF Handle
    <3>2. id.form = "uri" /\ id.scheme = m.protocol BY <3>1 DEF EncodeVolumeID
    <3>3. /\ MeantShare(m, v, class)
          /\ class.protocol = "nfs" => MeantNfs(m, v, class)
          /\ class.protocol = "smb" => MeantSmb(m, v, class)
      BY <1>2, <1>4, <2>2, MeantFields
    <3>4. ServerOf(class) # "" BY DEF ServerOf
    <3>5. id.host # ""
      BY <1>4, <1>5, <2>2, <3>1, <3>3, <3>4
         DEF EncodeVolumeID, MeantShare, MeantNfs, MeantSmb, Protocol
    <3> QED BY <1>10, <1>11, <3>2, <3>5
  <2> QED BY <2>1, <2>2
<1>12. CASE Importable(class) /\ id = ImportedHandle(v, class, path) /\ vc = NoContext
  <2>1. id.form = "uri" /\ id.scheme = class.protocol /\ id.host = HostPart(class)
    BY <1>2, <1>12, ImportedParts
  <2>2. HostPart(class) # ""
    BY <1>12 DEF HostPart, ServerOf, Importable, ValidTargetPortal, DefaultPort
  <2> QED BY <1>4, <1>10, <1>12, <2>1, <2>2
<1> QED BY <1>1, <1>2, <1>6, <1>11, <1>12 DEF Written

(* What the RPCs that go by the ID take from it. *)
LEMMA WrittenSource ==
    ASSUME NEW v \in Volume, NEW r, r.class \in ClassType, r.path \in Paths(v, r.class),
           NEW n \in Nat, Written(v, r, n)
    PROVE  /\ SourcePath(r.id) = IF OnVhdx(r.class) /\ ~BareIPv6(r.class) THEN r.path ELSE ""
           /\ Undecodable(r.id) <=> BareIPv6(r.class)
           /\ ~BareIPv6(r.class) => /\ DecodeAnyVolumeID(r.id).name = v
                                    /\ DecodeAnyVolumeID(r.id).protocol = r.class.protocol
                                    /\ DecodeAnyVolumeID(r.id).vhdxPath = r.path
                                    /\ DecodeAnyVolumeID(r.id).capacity = n
<1>1. PICK m, class, path, d : /\ class = r.class /\ path = r.path /\ d = DecodeAnyVolumeID(r.id)
                               /\ m = Meant(v, r.class, r.path, n)
  OBVIOUS
<1>2. class \in ClassType /\ m = Meant(v, class, path, n) BY <1>1
<1>3. d = IF BareIPv6(class) THEN EmptyID ELSE m BY <1>1, WrittenDecodes
<1>4. /\ MeantCommon(m, v, class, path, n)
      /\ class.protocol = "iscsi" => MeantIscsi(m, v, class)
      /\ class.protocol # "iscsi" => MeantShare(m, v, class)
  BY <1>2, MeantFields
<1>5. class.protocol \in Protocol BY <1>2 DEF ClassType
<1>e. EmptyID.protocol = "" /\ EmptyID.shareBackend = "" BY DEF EmptyID
<1>6. CASE BareIPv6(class)
  <2>1. SourcePath(r.id) = "" BY <1>1, <1>3, <1>6, <1>e DEF SourcePath
  <2> QED BY <1>1, <1>3, <1>6, <2>1 DEF Undecodable
<1>7. CASE ~BareIPv6(class)
  <2>1. d = m BY <1>3, <1>7
  <2>2. m # EmptyID BY <1>4, <1>5, <1>e DEF MeantCommon, Protocol
  <2>3. SourcePath(r.id) = IF OnVhdx(class) THEN path ELSE ""
    BY <1>1, <1>4, <2>1 DEF SourcePath, MeantCommon, MeantIscsi, MeantShare, OnVhdx
  <2>4. m.name = v /\ m.protocol = class.protocol /\ m.vhdxPath = path /\ m.capacity = n
    BY <1>4 DEF MeantCommon
  <2> QED BY <1>1, <1>7, <2>1, <2>2, <2>3, <2>4 DEF Undecodable
<1> QED BY <1>6, <1>7

-----------------------------------------------------------------------------
(***************************************************************************)
(* The invariant.                                                          *)
(***************************************************************************)
(* A volume was written down with a capacity that answers its claim. *)
Origin(v, r) ==
    /\ r.class \in ClassType /\ r.path \in Paths(v, r.class)
    /\ \E n \in 0..MaxSize :
          /\ Written(v, r, n)
          /\ r.known => /\ n <= r.cap /\ r.range.required <= n
                        /\ r.base = "" /\ r.range.limit >= Min => n <= r.range.limit

Answered == {"made", "doomed", "gone"}

DiskRecord == [size : 0..MaxSize, data : 0..MaxWrites]
SnapType(n) == [id : 1..n, path : Path, description : Content,
                size : 0..MaxSize, data : 0..MaxWrites, listed : BOOLEAN]
ContentType == [st : {"none", "failed", "taking", "made", "doomed", "gone"},
                vol : Volume \cup {""}, from : 0..MaxWrites, upto : 0..MaxWrites,
                id : Nat, path : Path \cup {""}]

(* A persistent volume, with whatever handle and context. *)
PvRecord(r) ==
    r = [st |-> r.st, id |-> r.id, vc |-> r.vc, class |-> r.class, range |-> r.range,
         path |-> r.path, cap |-> r.cap, known |-> r.known, base |-> r.base, born |-> r.born]
PvShape(r) ==
    /\ PvRecord(r)
    /\ r.st \in {"none", "bound", "gone"} /\ r.cap \in 0..MaxSize /\ r.born \in 0..MaxWrites
    /\ r.known \in BOOLEAN
    /\ r.range.required \in 0..MaxSize /\ r.range.limit \in 0..MaxSize

Typed ==
    /\ disk \in [Path -> DiskRecord] /\ share \subseteq Volume
    /\ snaps \subseteq SnapType(clock)
    /\ pv = [v \in Volume |-> pv[v]] /\ \A v \in Volume : PvShape(pv[v])
    /\ content \in [Content -> ContentType]
    /\ late \subseteq [op : {"checkpoint", "remove"}, content : Content, id : Nat]
    /\ clock \in Nat /\ faults \in 0..MaxFaults

(* A volume, its disk and its share. *)
VolumeOk(v) ==
    /\ pv[v].st = "none" => pv[v].path = "" /\ pv[v].base = "" /\ v \notin share
    /\ pv[v].st # "none" => Origin(v, pv[v])
    /\ v \in share => pv[v].class.protocol # "iscsi"
    /\ pv[v].st = "bound" /\ pv[v].known /\ pv[v].path \in Path =>
          pv[v].cap <= Shown(pv[v], disk[pv[v].path].size)
    /\ pv[v].st = "gone" /\ ~BareIPv6(pv[v].class) =>
          v \notin share /\ (pv[v].path \in Path => disk[pv[v].path] = NoDisk)

(* The snapshot a volume was restored from. *)
RestoredOk(v) ==
    pv[v].base # "" =>
       /\ pv[v].base \in Content /\ content[pv[v].base].st \in Answered
       /\ content[pv[v].base].from <= pv[v].born /\ pv[v].born <= content[pv[v].base].upto

(* No two volumes, deleted ones included, were ever given the same disk. *)
OwnPaths ==
    \A v, w \in Volume : pv[v].path = pv[w].path /\ pv[v].path \in Path => v = w

(* A snapshot as Kubernetes stores it, and its volume. *)
ContentOk(c) ==
    /\ content[c].st # "none" =>
          /\ content[c].vol \in Volume /\ pv[content[c].vol].st # "none"
          /\ OnVhdx(pv[content[c].vol].class) /\ ~BareIPv6(pv[content[c].vol].class)
          /\ pv[content[c].vol].path \in Path
    /\ content[c].st \in {"failed", "taking"} =>
          /\ pv[content[c].vol].st = "bound"
          /\ content[c].from <= disk[pv[content[c].vol].path].data
    /\ content[c].st \notin Answered => content[c].id = 0
    /\ content[c].st \in Answered =>
          content[c].id \in 1..clock /\ content[c].path = pv[content[c].vol].path
    /\ content[c].st = "made" /\ pv[content[c].vol].st = "bound" =>
          \E s \in snaps : s.id = content[c].id

(* A snapshot on Windows, of whatever attempt. *)
SnapshotOk(s) ==
    /\ content[s.description].st # "none" /\ s.path = pv[content[s.description].vol].path
    /\ content[s.description].st \in {"failed", "taking"} =>
          content[s.description].from <= s.data /\ s.data <= disk[s.path].data

(* A snapshot that has the ID Kubernetes stores for c. *)
NamedOk(s, c) ==
    content[c].st \in Answered /\ s.id = content[c].id =>
       /\ s.description = c /\ s.listed
       /\ content[c].from <= s.data /\ s.data <= content[c].upto

UniqueIds == \A s, t \in snaps : s.id = t.id => s = t

(* A script that was given up on. *)
LateOk(l) ==
    /\ l.op = "checkpoint" => content[l.content].st # "none"
    /\ l.op = "remove" => /\ content[l.content].st \in {"doomed", "gone"}
                          /\ l.id = content[l.content].id

VolumesOk == \A v \in Volume : VolumeOk(v)
RestoresOk == \A v \in Volume : RestoredOk(v)
ContentsOk == \A c \in Content : ContentOk(c)
SnapshotsOk == \A s \in snaps : SnapshotOk(s)
NamesOk == \A s \in snaps : \A c \in Content : NamedOk(s, c)
LatesOk == \A l \in late : LateOk(l)

SafeInv ==
    /\ Typed /\ VolumesOk /\ RestoresOk /\ OwnPaths
    /\ ContentsOk /\ SnapshotsOk /\ NamesOk /\ UniqueIds /\ LatesOk

(* What an RPC takes from the ID of a volume. *)
LEMMA Sources ==
    ASSUME NEW v \in Volume, Origin(v, pv[v])
    PROVE  /\ SourcePath(pv[v].id) =
                IF OnVhdx(pv[v].class) /\ ~BareIPv6(pv[v].class) THEN pv[v].path ELSE ""
           /\ Undecodable(pv[v].id) <=> BareIPv6(pv[v].class)
           /\ ~BareIPv6(pv[v].class) =>
                 /\ DecodeAnyVolumeID(pv[v].id).name = v
                 /\ DecodeAnyVolumeID(pv[v].id).protocol = pv[v].class.protocol
           /\ pv[v].path # "" /\ (OnVhdx(pv[v].class) <=> pv[v].path \in Path)
<1>1. PICK n \in 0..MaxSize : Written(v, pv[v], n) BY DEF Origin
<1>2. n \in Nat BY <1>1, BoundAssumption
<1>3. PICK r : r = pv[v] OBVIOUS
<1>4. r.class \in ClassType /\ r.path \in Paths(v, r.class) /\ Written(v, r, n)
  BY <1>1, <1>3 DEF Origin
<1>5. /\ SourcePath(r.id) = IF OnVhdx(r.class) /\ ~BareIPv6(r.class) THEN r.path ELSE ""
      /\ Undecodable(r.id) <=> BareIPv6(r.class)
      /\ ~BareIPv6(r.class) => /\ DecodeAnyVolumeID(r.id).name = v
                               /\ DecodeAnyVolumeID(r.id).protocol = r.class.protocol
  BY <1>2, <1>4, WrittenSource
<1>6. r.path # "" /\ (OnVhdx(r.class) <=> r.path \in Path) BY <1>4, PathsFacts
<1> QED BY <1>3, <1>5, <1>6

(* "" is no path of a disk. *)
LEMMA NoEmptyPath == "" \notin Path
BY NameAssumption DEF Path

-----------------------------------------------------------------------------
(* What follows from the invariant. *)
LEMMA SafeTypes == SafeInv => TypeOK
<1> SUFFICES ASSUME SafeInv PROVE TypeOK OBVIOUS
<1>1. /\ disk \in [Path -> [size : 0..MaxSize, data : 0..MaxWrites]]
      /\ share \subseteq Volume
      /\ snaps \subseteq [id : 1..clock, path : Path, description : Content,
                          size : 0..MaxSize, data : 0..MaxWrites, listed : BOOLEAN]
      /\ late \subseteq [op : {"checkpoint", "remove"}, content : Content, id : Nat]
      /\ clock \in Nat /\ faults \in 0..MaxFaults
  BY DEF SafeInv, Typed, DiskRecord, SnapType
<1>2. ASSUME NEW v \in Volume
      PROVE  /\ pv[v].st \in {"none", "bound", "gone"} /\ pv[v].path \in Path \cup {"", DirOf(v)}
             /\ pv[v].cap \in 0..MaxSize /\ pv[v].born \in 0..MaxWrites
  <2>1. PvShape(pv[v]) /\ VolumeOk(v) BY DEF SafeInv, Typed, VolumesOk
  <2>2. pv[v].path \in Path \cup {"", DirOf(v)}
    <3>1. CASE pv[v].st = "none" BY <2>1, <3>1 DEF VolumeOk
    <3>2. CASE pv[v].st # "none"
      <4>1. Origin(v, pv[v]) BY <2>1, <3>2 DEF VolumeOk
      <4> QED BY <4>1 DEF Origin, Paths, Path
    <3> QED BY <3>1, <3>2
  <2> QED BY <2>1, <2>2 DEF PvShape
<1>3. ASSUME NEW c \in Content
      PROVE  /\ content[c].st \in {"none", "failed", "taking", "made", "doomed", "gone"}
             /\ content[c].id \in 0..clock
  <2>1. content[c] \in ContentType /\ ContentOk(c) /\ clock \in Nat
    BY DEF SafeInv, Typed, ContentsOk
  <2>2. content[c].st \in {"none", "failed", "taking", "made", "doomed", "gone"}
    BY <2>1 DEF ContentType
  <2>3. content[c].id = 0 \/ content[c].id \in 1..clock BY <2>1 DEF ContentOk
  <2>4. PICK i, n : i = content[c].id /\ n = clock OBVIOUS
  <2>5. n \in Nat /\ (i = 0 \/ i \in 1..n) BY <2>1, <2>3, <2>4
  <2>6. i \in 0..n BY ONLY <2>5
  <2> QED BY <2>2, <2>4, <2>6
<1> QED BY <1>1, <1>2, <1>3 DEF TypeOK

(* A handle leads to what was made for the volume. *)
LEMMA SafeHandles == SafeInv => HandlesAgree
<1> SUFFICES ASSUME SafeInv PROVE HandlesAgree OBVIOUS
<1>1. ASSUME NEW v \in Volume, pv[v].st = "gone", ~BareIPv6(pv[v].class)
      PROVE  v \notin share /\ (pv[v].path \in Path => disk[pv[v].path] = NoDisk)
  BY <1>1 DEF SafeInv, VolumesOk, VolumeOk
<1>2. ASSUME NEW v \in Volume, pv[v].st = "bound", ~BareIPv6(pv[v].class)
      PROVE  LET d == DecodeAnyVolumeID(pv[v].id)
                 m == Meant(v, pv[v].class, pv[v].path, d.capacity)
                 where == CASE m.protocol = "iscsi" -> <<m.targetPortal, m.targetIQN, m.lun>>
                            [] m.protocol = "nfs" -> <<m.nfsServer, m.nfsExportPath>>
                            [] m.protocol = "smb" -> <<m.smbServer, m.smbShareName>>
             IN  /\ d = m
                 /\ SupportsAccessMode(pv[v].class.mode, d.protocol)
                 /\ m.protocol = "iscsi" /\ ~IPv6Portal(m.targetPortal) =>
                       DialedPortal(where[1]) = m.targetPortal
                 /\ \A pc \in {NoContext, PublishContext(pv[v].id)} :
                       NodeSource(pv[v].id, pc, pv[v].vc) =
                          [ok |-> TRUE, protocol |-> m.protocol, at |-> where,
                           auth |-> m.nfsMountAuthentication]
  <2>1. Origin(v, pv[v]) BY <1>2 DEF SafeInv, VolumesOk, VolumeOk
  <2>2. PICK n \in 0..MaxSize : Written(v, pv[v], n) BY <2>1 DEF Origin
  <2>3. n \in Nat BY BoundAssumption
  <2>4. PICK r : r = pv[v] OBVIOUS
  <2>5. /\ r.class \in ClassType /\ r.path \in Paths(v, r.class) /\ Written(v, r, n)
        /\ ~BareIPv6(r.class)
    BY <1>2, <2>1, <2>2, <2>4 DEF Origin
  <2>6. PICK m : m = Meant(v, r.class, r.path, n) OBVIOUS
  <2>7. DecodeAnyVolumeID(r.id) = m BY <2>3, <2>5, <2>6, WrittenDecodes
  <2>8. MeantCommon(m, v, r.class, r.path, n) BY <2>3, <2>5, <2>6, MeantFields
  <2>9. m.capacity = n /\ m.protocol = r.class.protocol BY <2>8 DEF MeantCommon
  <2>10. m = Meant(v, r.class, r.path, DecodeAnyVolumeID(r.id).capacity) BY <2>6, <2>7, <2>9
  <2>11. Accepted(r.class) \/ Importable(r.class) BY <2>5 DEF Written
  <2>12. SupportsAccessMode(r.class.mode, m.protocol) BY <2>9, <2>11 DEF Accepted, Importable
  <2>13. ASSUME NEW pc \in {NoContext, PublishContext(r.id)}
         PROVE  NodeSource(r.id, pc, r.vc) =
                  [ok |-> TRUE, protocol |-> m.protocol, at |-> Where(m),
                   auth |-> m.nfsMountAuthentication]
    <3>1. PublishContext(r.id) = VolumeContextForVolumeID(m) BY <2>7 DEF PublishContext
    <3>2. pc \in {NoContext, VolumeContextForVolumeID(m)} BY <2>13, <3>1
    <3> QED BY <2>3, <2>5, <2>6, <3>2, WrittenNode
  <2>14. ASSUME m.protocol = "iscsi", ~IPv6Portal(m.targetPortal)
         PROVE  DialedPortal(Where(m)[1]) = m.targetPortal
    <3>1. MeantIscsi(m, v, r.class) BY <2>3, <2>5, <2>6, <2>9, <2>14, MeantFields
    <3>2. m.targetPortal = TargetPortalAddress(r.class.host, r.class.portalPort)
      BY <3>1 DEF MeantIscsi
    <3>3. DialedPortal(m.targetPortal) = m.targetPortal
      BY <2>5, <2>9, <2>11, <2>14, <3>2, PortalFacts
    <3>4. Where(m) = <<m.targetPortal, m.targetIQN, m.lun>> BY <2>14 DEF Where
    <3>5. Where(m)[1] = m.targetPortal BY ONLY <3>4, Triple
    <3> QED BY <3>3, <3>5
  <2> QED BY <2>4, <2>7, <2>10, <2>12, <2>13, <2>14 DEF Where
<1> QED BY <1>1, <1>2 DEF HandlesAgree

(* The snapshots that were answered for are there and hold what they must. *)
LEMMA SafeSnapshots == SafeInv => SnapshotsAreTrue
<1> SUFFICES ASSUME SafeInv PROVE SnapshotsAreTrue OBVIOUS
<1>1. ASSUME NEW v \in Volume, pv[v].st = "bound", pv[v].base # ""
      PROVE  LET c == content[pv[v].base] IN c.from <= pv[v].born /\ pv[v].born <= c.upto
  BY <1>1 DEF SafeInv, RestoresOk, RestoredOk
<1>2. ASSUME NEW c \in Content, content[c].st = "made", pv[content[c].vol].st = "bound"
      PROVE  \E s \in snaps :
                /\ ListByID(c) = {s} /\ s \in ListByVolume(pv[content[c].vol].id)
                /\ s.description = c
                /\ content[c].from <= s.data /\ s.data <= content[c].upto
  <2>1. content[c].st \in Answered BY <1>2 DEF Answered
  <2>2. ContentOk(c) BY DEF SafeInv, ContentsOk
  <2>3. PICK s \in snaps : s.id = content[c].id BY <1>2, <2>2 DEF ContentOk
  <2>4. NamedOk(s, c) /\ SnapshotOk(s) BY DEF SafeInv, NamesOk, SnapshotsOk
  <2>5. /\ s.description = c /\ s.listed
        /\ content[c].from <= s.data /\ s.data <= content[c].upto
    BY <2>1, <2>3, <2>4 DEF NamedOk
  <2>6. s.path = pv[content[c].vol].path BY <2>4, <2>5 DEF SnapshotOk
  <2>7. PICK v \in Volume : v = content[c].vol BY <1>2, <2>2 DEF ContentOk
  <2>8. /\ content[c].path = pv[v].path /\ OnVhdx(pv[v].class) /\ ~BareIPv6(pv[v].class)
    BY <1>2, <2>1, <2>2, <2>7 DEF ContentOk
  <2>9. Origin(v, pv[v]) BY <1>2, <2>7 DEF SafeInv, VolumesOk, VolumeOk
  <2>10. SourcePath(pv[v].id) = pv[v].path BY <2>8, <2>9, Sources
  <2>11. s \in ListByVolume(pv[v].id) BY <2>5, <2>6, <2>7, <2>10 DEF ListByVolume
  <2>12. ListByID(c) = {s}
    BY <2>3, <2>5, <2>6, <2>7, <2>8 DEF ListByID, SafeInv, UniqueIds
  <2> QED BY <2>5, <2>7, <2>11, <2>12
<1> QED BY <1>1, <1>2 DEF SnapshotsAreTrue

(* Numbers. *)
LEMMA Ranges == /\ \A i \in 0..MaxSize : i \in Nat
                /\ \A i \in 0..MaxWrites : i \in Nat
                /\ 0 \in 0..MaxSize /\ 0 \in 0..MaxWrites
BY BoundAssumption

(* The order of numbers, where facts about texts keep the solver from it. *)
LEMMA Transitive == \A i, j, k \in Nat : i <= j /\ j <= k => i <= k
OBVIOUS

(* The same, for equal numbers. *)
LEMMA Reflexive == \A i \in Nat : i <= i
OBVIOUS

(* The same, for the strict order. *)
LEMMA Greater == \A i, j \in Nat : i > j => j <= i
OBVIOUS

(* What Kubernetes asks Windows for is a number. *)
LEMMA RequiredIsNat ==
    ASSUME NEW range, range.required \in 0..MaxSize, range.limit \in 0..MaxSize
    PROVE  RequiredBytesFromRange(range) \in Nat
<1>1. range.required \in Nat /\ range.limit \in Nat BY BoundAssumption
<1> QED BY <1>1 DEF RequiredBytesFromRange, Min

(* What may be said of a volume is at least the size of its disk, and no    *)
(* more for an iSCSI volume or a new one.                                   *)
LEMMA ShownFacts ==
    ASSUME NEW r, PvShape(r), NEW n \in 0..MaxSize
    PROVE  /\ Shown(r, n) \in Nat /\ n <= Shown(r, n)
           /\ r.class.protocol = "iscsi" \/ r.base = "" => Shown(r, n) = n
           /\ r.class.protocol # "iscsi" /\ r.base # "" =>
                 RequiredBytesFromRange(r.range) <= Shown(r, n)
<1>1. PICK m : m = RequiredBytesFromRange(r.range) OBVIOUS
<1>2. m \in Nat /\ n \in Nat BY <1>1, RequiredIsNat, BoundAssumption DEF PvShape
<1>3. PICK k : k = Shown(r, n) OBVIOUS
<1>4. CASE r.base # "" /\ r.class.protocol # "iscsi"
  <2>1. k = IF n < m THEN m ELSE n BY <1>1, <1>3, <1>4 DEF Shown
  <2>2. k \in Nat /\ n <= k /\ m <= k BY ONLY <1>2, <2>1
  <2> QED BY <1>1, <1>3, <1>4, <2>2
<1>5. CASE ~(r.base # "" /\ r.class.protocol # "iscsi")
  <2>1. k = n BY <1>3, <1>5 DEF Shown
  <2>2. k \in Nat /\ n <= k BY ONLY <1>2, <2>1
  <2> QED BY <1>3, <1>5, <2>1, <2>2
<1> QED BY <1>4, <1>5

(* Capacities are there. *)
LEMMA SafeCapacity == SafeInv => CapacityIsThere
<1> SUFFICES ASSUME SafeInv, NEW v \in Volume, pv[v].st = "bound", pv[v].known
             PROVE  /\ pv[v].path \in Path =>
                          LET answer == ControllerGetVolume(pv[v].id)
                              there == Shown(pv[v], disk[pv[v].path].size)
                          IN  /\ pv[v].cap <= there /\ answer <= there
                              /\ pv[v].class.protocol = "iscsi" => pv[v].cap <= answer
                    /\ ~BareIPv6(pv[v].class) =>
                          LET answered == DecodeAnyVolumeID(pv[v].id).capacity
                          IN  /\ pv[v].range.required <= answered
                              /\ pv[v].base = "" /\ pv[v].range.limit >= Min => answered <= pv[v].range.limit
  BY DEF CapacityIsThere
<1>1. VolumeOk(v) /\ PvShape(pv[v]) BY DEF SafeInv, VolumesOk, Typed
<1>2. Origin(v, pv[v]) BY <1>1 DEF VolumeOk
<1>3. PICK n \in 0..MaxSize :
        /\ Written(v, pv[v], n)
        /\ n <= pv[v].cap /\ pv[v].range.required <= n
        /\ pv[v].base = "" /\ pv[v].range.limit >= Min => n <= pv[v].range.limit
  BY <1>2 DEF Origin
<1>4. n \in Nat BY BoundAssumption
<1>5. PICK r, d : r = pv[v] /\ d = DecodeAnyVolumeID(pv[v].id) OBVIOUS
<1>6. r.class \in ClassType /\ r.path \in Paths(v, r.class) /\ Written(v, r, n)
  BY <1>2, <1>3, <1>5 DEF Origin
<1>7. d = IF BareIPv6(r.class) THEN EmptyID ELSE Meant(v, r.class, r.path, n)
  BY <1>4, <1>5, <1>6, WrittenDecodes
<1>8. ~BareIPv6(r.class) =>
        d.capacity = n /\ d.protocol = r.class.protocol /\ d.vhdxPath = r.path
  BY <1>4, <1>5, <1>6, WrittenSource
<1>9. BareIPv6(r.class) => d.capacity = 0 /\ d.protocol # "iscsi" /\ r.class.protocol # "iscsi"
  <2>1. EmptyID.capacity = 0 /\ EmptyID.protocol # "iscsi" BY DEF EmptyID
  <2> QED BY <1>7, <2>1 DEF BareIPv6
<1>10. ASSUME r.path \in Path
       PROVE  /\ r.cap <= Shown(r, disk[r.path].size)
              /\ ControllerGetVolume(r.id) <= Shown(r, disk[r.path].size)
              /\ r.class.protocol = "iscsi" => r.cap <= ControllerGetVolume(r.id)
  <2>1. r.cap <= Shown(r, disk[r.path].size) BY <1>1, <1>5, <1>10 DEF VolumeOk
  <2>2. disk[r.path] \in DiskRecord BY <1>10 DEF SafeInv, Typed
  <2>3. disk[r.path].size \in Nat /\ r.cap \in Nat /\ n <= r.cap
    <3>1. PICK x : x = disk[r.path] OBVIOUS
    <3>2. x \in DiskRecord BY <2>2, <3>1
    <3>3. x.size \in 0..MaxSize BY ONLY <3>2 DEF DiskRecord
    <3>4. r.cap \in 0..MaxSize BY <1>1, <1>5 DEF PvShape
    <3>5. \A i \in 0..MaxSize : i \in Nat BY ONLY BoundAssumption
    <3> QED BY <1>3, <1>5, <3>1, <3>3, <3>4, <3>5
  <2>s. PICK k : k = Shown(r, disk[r.path].size) OBVIOUS
  <2>k. k \in Nat /\ r.cap <= k /\ (r.class.protocol = "iscsi" => k = disk[r.path].size)
    <3>1. disk[r.path].size \in 0..MaxSize
      <4>1. PICK x : x = disk[r.path] OBVIOUS
      <4>2. x \in DiskRecord BY <2>2, <4>1
      <4>3. x.size \in 0..MaxSize BY ONLY <4>2 DEF DiskRecord
      <4> QED BY <4>1, <4>3
    <3>2. PvShape(r) BY <1>1, <1>5
    <3> QED BY <2>1, <2>s, <3>1, <3>2, ShownFacts
  <2>4. ControllerGetVolume(r.id) = IF d.protocol = "iscsi" THEN disk[d.vhdxPath].size ELSE d.capacity
    BY <1>5 DEF ControllerGetVolume
  <2>c. PICK g : g = ControllerGetVolume(r.id) OBVIOUS
  <2>5. CASE BareIPv6(r.class)
    <3>1. g = 0 BY <1>9, <2>4, <2>5, <2>c
    <3>2. g <= k BY ONLY <2>k, <3>1
    <3> QED BY <1>9, <2>5, <2>c, <2>k, <2>s, <3>2
  <2>6. CASE ~BareIPv6(r.class) /\ r.class.protocol = "iscsi"
    <3>1. g = k BY <1>8, <2>4, <2>6, <2>c, <2>k
    <3> QED BY <2>c, <2>k, <2>s, <3>1, Reflexive
  <2>7. CASE ~BareIPv6(r.class) /\ r.class.protocol # "iscsi"
    <3>1. g = n BY <1>8, <2>4, <2>7, <2>c
    <3>2. g <= k BY <1>4, <2>3, <2>k, <3>1, Transitive
    <3> QED BY <2>7, <2>c, <2>k, <2>s, <3>2
  <2> QED BY <2>5, <2>6, <2>7
<1> QED BY <1>3, <1>5, <1>8, <1>10

-----------------------------------------------------------------------------
(* Failures are counted up to their bound. *)
LEMMA FaultType ==
    ASSUME Typed, UNCHANGED faults \/ Fault
    PROVE  faults' \in 0..MaxFaults
<1>1. PICK i, m : i = faults /\ m = MaxFaults OBVIOUS
<1>2. m \in Nat /\ i \in 0..m BY <1>1, BoundAssumption DEF Typed
<1>3. CASE UNCHANGED faults BY <1>1, <1>2, <1>3
<1>4. CASE Fault
  <2>1. i < m /\ faults' = i + 1 BY <1>1, <1>4 DEF Fault
  <2>2. i + 1 \in 0..m BY ONLY <1>2, <2>1
  <2> QED BY <1>1, <2>1, <2>2
<1> QED BY <1>3, <1>4

(* Size and data of a disk are numbers within their bounds. *)
LEMMA DiskTypes ==
    ASSUME Typed, NEW p \in Path
    PROVE  disk[p].size \in 0..MaxSize /\ disk[p].data \in 0..MaxWrites /\ disk[p].data \in Nat
<1>1. disk[p] \in DiskRecord BY DEF Typed
<1>2. disk[p].size \in 0..MaxSize /\ disk[p].data \in 0..MaxWrites BY <1>1 DEF DiskRecord
<1> QED BY <1>2, Ranges

(* A stored snapshot is well typed and its numbers are numbers. *)
LEMMA ContentTypes ==
    ASSUME Typed, NEW c \in Content
    PROVE  /\ content[c] \in ContentType
           /\ content[c].from \in Nat /\ content[c].upto \in Nat /\ content[c].id \in Nat
<1>1. content[c] \in ContentType BY DEF Typed
<1>2. content[c].from \in 0..MaxWrites /\ content[c].upto \in 0..MaxWrites /\ content[c].id \in Nat
  BY <1>1 DEF ContentType
<1> QED BY <1>1, <1>2, Ranges

(* A record with fields of the right types is a stored snapshot. *)
LEMMA ContentRecord ==
    ASSUME NEW st \in {"none", "failed", "taking", "made", "doomed", "gone"},
           NEW vol \in Volume \cup {""}, NEW from \in 0..MaxWrites, NEW upto \in 0..MaxWrites,
           NEW id \in Nat, NEW path \in Path \cup {""}
    PROVE  [st |-> st, vol |-> vol, from |-> from, upto |-> upto, id |-> id, path |-> path]
              \in ContentType
BY DEF ContentType

(* A snapshot on Windows is well typed and was taken by now. *)
LEMMA SnapTypes ==
    ASSUME Typed, NEW s \in snaps
    PROVE  /\ s \in SnapType(clock) /\ s.description \in Content /\ s.path \in Path
           /\ s.id \in 1..clock /\ s.id \in Nat /\ s.data \in 0..MaxWrites /\ s.data \in Nat
           /\ s.size \in 0..MaxSize
<1>1. s \in SnapType(clock) /\ clock \in Nat BY DEF Typed
<1>2. /\ s.description \in Content /\ s.path \in Path
      /\ s.id \in 1..clock /\ s.data \in 0..MaxWrites /\ s.size \in 0..MaxSize
  BY <1>1 DEF SnapType
<1>3. \A n \in Nat : \A i \in 1..n : i \in Nat OBVIOUS
<1> QED BY <1>1, <1>2, <1>3, Ranges

-----------------------------------------------------------------------------
(* What a step that leaves the snapshots of Kubernetes alone must keep of a *)
(* volume that exists: where it is, and while it is bound its data and its  *)
(* snapshots.                                                               *)
Keeps(w) ==
    pv[w].st # "none" =>
       /\ pv'[w].st # "none" /\ pv'[w].class = pv[w].class /\ pv'[w].path = pv[w].path
       /\ pv'[w].st = "bound" =>
             /\ pv[w].st = "bound"
             /\ pv[w].path \in Path =>
                   /\ disk[pv[w].path].data <= disk'[pv[w].path].data
                   /\ \A s \in snaps : s.path = pv[w].path => s \in snaps'

(* The volume of a snapshot that is being taken stays. *)
Holds(c) == content[c].st \in {"failed", "taking"} => pv'[content[c].vol].st = "bound"

(* A step that takes no snapshot keeps the invariant if it keeps what is    *)
(* said of volumes and each volume and stored snapshot keeps its own.       *)
LEMMA StorageStep ==
    ASSUME SafeInv, Typed', VolumesOk', RestoresOk', OwnPaths',
           UNCHANGED <<content, late, clock>>, snaps' \subseteq snaps,
           \A w \in Volume : Keeps(w), \A c \in Content : Holds(c)
    PROVE  SafeInv'
<1>1. ASSUME NEW c \in Content PROVE ContentOk(c)'
  <2>1. ContentOk(c) /\ content'[c] = content[c] /\ clock' = clock BY DEF SafeInv, ContentsOk
  <2>2. CASE content[c].st = "none" BY <2>1, <2>2 DEF ContentOk, Answered
  <2>3. CASE content[c].st # "none"
    <3>1. PICK v \in Volume : v = content[c].vol BY <2>1, <2>3 DEF ContentOk
    <3>2. /\ pv[v].st # "none" /\ OnVhdx(pv[v].class) /\ ~BareIPv6(pv[v].class)
          /\ pv[v].path \in Path
      BY <2>1, <2>3, <3>1 DEF ContentOk
    <3>3. Keeps(v) /\ Holds(c) OBVIOUS
    <3>4. pv'[v].st # "none" /\ pv'[v].class = pv[v].class /\ pv'[v].path = pv[v].path
      BY <3>2, <3>3 DEF Keeps
    <3>5. content[c].st \in {"failed", "taking"} =>
             pv'[v].st = "bound" /\ content[c].from <= disk'[pv[v].path].data
      <4>1. SUFFICES ASSUME content[c].st \in {"failed", "taking"}
                     PROVE  pv'[v].st = "bound" /\ content[c].from <= disk'[pv[v].path].data
        OBVIOUS
      <4>2. pv'[v].st = "bound" BY <3>1, <3>3, <4>1 DEF Holds
      <4>3. content[c].from <= disk[pv[v].path].data BY <2>1, <3>1, <4>1 DEF ContentOk
      <4>4. disk[pv[v].path].data <= disk'[pv[v].path].data BY <3>2, <3>3, <4>2 DEF Keeps
      <4>5. /\ content[c].from \in Nat /\ disk[pv[v].path].data \in Nat
            /\ disk'[pv[v].path].data \in Nat
        <5>1. Typed BY DEF SafeInv
        <5>2. disk'[pv[v].path] \in DiskRecord BY <3>2 DEF Typed
        <5>3. disk'[pv[v].path].data \in 0..MaxWrites BY <5>2 DEF DiskRecord
        <5> QED BY <3>2, <5>1, <5>3, DiskTypes, ContentTypes, Ranges
      <4> QED BY <4>2, <4>3, <4>4, <4>5, Transitive
    <3>6. content[c].st = "made" /\ pv'[v].st = "bound" => \E s \in snaps' : s.id = content[c].id
      <4>1. SUFFICES ASSUME content[c].st = "made", pv'[v].st = "bound"
                     PROVE  \E s \in snaps' : s.id = content[c].id
        OBVIOUS
      <4>2. pv[v].st = "bound" BY <3>2, <3>3, <4>1 DEF Keeps
      <4>3. PICK s \in snaps : s.id = content[c].id BY <2>1, <3>1, <4>1, <4>2 DEF ContentOk
      <4>4. NamedOk(s, c) /\ SnapshotOk(s) BY DEF SafeInv, NamesOk, SnapshotsOk
      <4>5. s.description = c BY <4>1, <4>3, <4>4 DEF NamedOk, Answered
      <4>6. s.path = pv[v].path BY <3>1, <4>4, <4>5 DEF SnapshotOk
      <4> QED BY <3>2, <3>3, <4>1, <4>3, <4>6 DEF Keeps
    <3>7. content[c].st \notin Answered => content[c].id = 0 BY <2>1 DEF ContentOk
    <3>8. content[c].st \in Answered => content[c].id \in 1..clock /\ content[c].path = pv[v].path
      BY <2>1, <3>1 DEF ContentOk
    <3> QED BY <2>1, <2>3, <3>1, <3>2, <3>4, <3>5, <3>6, <3>7, <3>8 DEF ContentOk
  <2> QED BY <2>2, <2>3
<1>2. ASSUME NEW s \in snaps' PROVE SnapshotOk(s)'
  <2>1. s \in snaps /\ SnapshotOk(s) BY DEF SafeInv, SnapshotsOk
  <2>2. PICK c \in Content : c = s.description BY <2>1, SnapTypes DEF SafeInv
  <2>3. ContentOk(c) /\ content[c].st # "none" BY <2>1, <2>2 DEF SafeInv, ContentsOk, SnapshotOk
  <2>4. PICK v \in Volume : v = content[c].vol BY <2>3 DEF ContentOk
  <2>5. pv[v].st # "none" /\ pv[v].path \in Path /\ s.path = pv[v].path
    BY <2>1, <2>2, <2>3, <2>4 DEF ContentOk, SnapshotOk
  <2>6. Keeps(v) /\ Holds(c) OBVIOUS
  <2>7. s.path = pv'[v].path BY <2>5, <2>6 DEF Keeps
  <2>8. ASSUME content[c].st \in {"failed", "taking"}
        PROVE  content[c].from <= s.data /\ s.data <= disk'[s.path].data
    <3>1. content[c].from <= s.data /\ s.data <= disk[s.path].data
      BY <2>1, <2>2, <2>8 DEF SnapshotOk
    <3>2. disk[s.path].data <= disk'[s.path].data BY <2>4, <2>5, <2>6, <2>8 DEF Keeps, Holds
    <3>3. s.data \in Nat /\ disk[s.path].data \in Nat /\ disk'[s.path].data \in Nat
      <4>1. Typed BY DEF SafeInv
      <4>2. disk'[s.path] \in DiskRecord BY <2>5 DEF Typed
      <4>3. disk'[s.path].data \in 0..MaxWrites BY <4>2 DEF DiskRecord
      <4> QED BY <2>1, <2>5, <4>1, <4>3, DiskTypes, SnapTypes, Ranges
    <3> QED BY <3>1, <3>2, <3>3, Transitive
  <2> QED BY <2>2, <2>3, <2>4, <2>7, <2>8 DEF SnapshotOk
<1>3. NamesOk' BY DEF SafeInv, NamesOk, NamedOk
<1>4. UniqueIds' BY DEF SafeInv, UniqueIds
<1>5. LatesOk' BY DEF SafeInv, LatesOk, LateOk
<1> QED BY <1>1, <1>2, <1>3, <1>4, <1>5 DEF SafeInv, ContentsOk, SnapshotsOk

(* A new volume on storage that was nobody's. *)
LEMMA NewVolume ==
    ASSUME SafeInv, NEW v \in Volume, pv[v].st = "none",
           NEW r, PvShape(r), r.st = "bound", Origin(v, r),
           pv' = [pv EXCEPT ![v] = r],
           disk' \in [Path -> DiskRecord],
           \A q \in Path : q # r.path => disk'[q] = disk[q],
           r.known /\ r.path \in Path => r.cap <= Shown(r, disk'[r.path].size),
           r.path \in Path => \A w \in Volume : pv[w].path # r.path,
           share' = share \cup Shares(v, r.class),
           r.base # "" => /\ r.base \in Content /\ content[r.base].st \in Answered
                          /\ content[r.base].from <= r.born /\ r.born <= content[r.base].upto,
           UNCHANGED <<snaps, content, late, clock>>, faults' \in 0..MaxFaults
    PROVE  SafeInv'
<1>1. pv' = [w \in Volume |-> pv'[w]] /\ pv'[v] = r
  BY DEF SafeInv, Typed
<1>2. \A w \in Volume : w # v => pv'[w] = pv[w] BY DEF SafeInv, Typed
<1>3. Shares(v, r.class) \subseteq {v} BY DEF Shares
<1>4. Typed'
  <2>1. share' \subseteq Volume BY <1>3 DEF SafeInv, Typed
  <2>2. \A w \in Volume : PvShape(pv'[w]) BY <1>1, <1>2 DEF SafeInv, Typed
  <2>3. snaps' \subseteq SnapType(clock') BY DEF SafeInv, Typed
  <2>4. /\ content' \in [Content -> ContentType]
        /\ late' \subseteq [op : {"checkpoint", "remove"}, content : Content, id : Nat]
        /\ clock' \in Nat
    BY DEF SafeInv, Typed
  <2> QED BY <1>1, <2>1, <2>2, <2>3, <2>4 DEF Typed
<1>5. ASSUME NEW w \in Volume, w # v PROVE pv[w].path \in Path => disk'[pv[w].path] = disk[pv[w].path]
  OBVIOUS
<1>6. ASSUME NEW w \in Volume PROVE VolumeOk(w)'
  <2>1. CASE w = v
    <3>1. v \in share' => r.class.protocol # "iscsi"
      <4>1. v \notin share BY DEF SafeInv, VolumesOk, VolumeOk
      <4> QED BY <4>1 DEF Shares
    <3> QED BY <1>1, <2>1, <3>1 DEF VolumeOk
  <2>2. CASE w # v
    <3>1. VolumeOk(w) /\ pv'[w] = pv[w] BY <1>2, <2>2 DEF SafeInv, VolumesOk
    <3>2. w \in share' <=> w \in share BY <1>3, <2>2
    <3> QED BY <1>5, <2>2, <3>1, <3>2 DEF VolumeOk
  <2> QED BY <2>1, <2>2
<1>7. ASSUME NEW w \in Volume PROVE RestoredOk(w)'
  <2>1. CASE w = v BY <1>1, <2>1 DEF RestoredOk
  <2>2. CASE w # v
    <3>1. RestoredOk(w) /\ pv'[w] = pv[w] BY <1>2, <2>2 DEF SafeInv, RestoresOk
    <3> QED BY <3>1 DEF RestoredOk
  <2> QED BY <2>1, <2>2
<1>8. OwnPaths' BY <1>1, <1>2 DEF SafeInv, OwnPaths
<1>9. ASSUME NEW w \in Volume PROVE Keeps(w)
  <2>1. SUFFICES ASSUME pv[w].st # "none" PROVE Keeps(w) BY DEF Keeps
  <2>2. w # v /\ pv'[w] = pv[w] BY <1>2, <2>1
  <2>3. pv[w].path \in Path => disk[pv[w].path].data <= disk'[pv[w].path].data
    <3>1. SUFFICES ASSUME pv[w].path \in Path PROVE disk[pv[w].path].data <= disk'[pv[w].path].data
      OBVIOUS
    <3>2. disk[pv[w].path].data \in Nat BY <3>1, DiskTypes DEF SafeInv
    <3> QED BY <1>5, <2>2, <3>1, <3>2, Reflexive
  <2> QED BY <2>2, <2>3 DEF Keeps
<1>10. ASSUME NEW c \in Content PROVE Holds(c)
  <2>1. SUFFICES ASSUME content[c].st \in {"failed", "taking"} PROVE pv'[content[c].vol].st = "bound"
    BY DEF Holds
  <2>2. ContentOk(c) BY DEF SafeInv, ContentsOk
  <2>3. content[c].vol \in Volume /\ pv[content[c].vol].st = "bound" BY <2>1, <2>2 DEF ContentOk
  <2> QED BY <1>2, <2>3
<1> QED BY <1>4, <1>6, <1>7, <1>8, <1>9, <1>10, StorageStep DEF VolumesOk, RestoresOk

(* The storage named after a volume is nobody else's. *)
LEMMA NamedStorage ==
    ASSUME SafeInv, NEW v \in Volume, pv[v].st = "none", NEW w \in Volume
    PROVE  pv[w].path # VhdxOf(v)
<1>1. VolumeOk(w) /\ VolumeOk(v) BY DEF SafeInv, VolumesOk
<1>2. VhdxOf(v) \notin Export \cup {""} /\ VhdxOf(v) \in Path BY NameAssumption DEF Path
<1>3. CASE pv[w].st = "none" BY <1>1, <1>2, <1>3 DEF VolumeOk
<1>4. CASE pv[w].st # "none"
  <2>1. pv[w].path \in Paths(w, pv[w].class) BY <1>1, <1>4 DEF VolumeOk, Origin
  <2>2. pv[w].path \in {VhdxOf(w)} \cup Export \cup {DirOf(w)} BY <2>1 DEF Paths
  <2>3. VhdxOf(w) # VhdxOf(v) /\ DirOf(w) \notin Path BY <1>4, NameAssumption
  <2> QED BY <1>2, <2>2, <2>3
<1> QED BY <1>3, <1>4

(* The size a claim gets. *)
LEMMA RequiredBytes ==
    ASSUME NEW i \in Nat, NEW j \in Nat, i <= MaxSize, j <= MaxSize, NEW range,
           range.required = i, range.limit = j, NEW n, n = RequiredBytesFromRange(range), n # 0
    PROVE  /\ n \in 0..MaxSize /\ i <= n
           /\ j >= Min => n <= j
<1>1. MaxSize \in Nat /\ MaxSize >= 2 BY BoundAssumption DEF Min
<1>2. n = CASE i > 0 /\ j > 0 /\ i > j -> 0
            [] i > 0 /\ ~(j > 0 /\ i > j) -> IF i < 2 THEN 2 ELSE i
            [] i = 0 /\ j > 0 -> IF j < 2 THEN 2 ELSE j
            [] OTHER -> 2
  BY DEF RequiredBytesFromRange, Min
<1>3. CASE i > 0
  <2>1. ~(j > 0 /\ i > j) BY <1>2, <1>3
  <2>2. n = IF i < 2 THEN 2 ELSE i BY <1>2, <1>3, <2>1
  <2> QED BY <1>1, <1>3, <2>1, <2>2 DEF Min
<1>4. CASE ~(i > 0) /\ j > 0
  <2>1. n = IF j < 2 THEN 2 ELSE j BY <1>2, <1>4
  <2> QED BY <1>1, <1>4, <2>1 DEF Min
<1>5. CASE ~(i > 0) /\ ~(j > 0)
  <2>1. n = 2 BY <1>2, <1>5
  <2> QED BY <1>1, <1>5, <2>1 DEF Min
<1> QED BY <1>3, <1>4, <1>5

(* requiredBytesFromRange gives what was asked for, within the limit unless *)
(* that is below the minimum.                                               *)
LEMMA ClaimSize ==
    ASSUME NEW v \in Volume, NEW r \in Claim[v],
           NEW n, n = RequiredBytesFromRange(r.range), n # 0
    PROVE  /\ r.class \in ClassType
           /\ r.range.required \in 0..MaxSize /\ r.range.limit \in 0..MaxSize
           /\ n \in 0..MaxSize /\ r.range.required <= n
           /\ r.range.limit >= Min => n <= r.range.limit
<1>1. r \in ClaimType BY ClaimAssumption
<1>2. r.class \in ClassType /\ r.range \in [required : 0..MaxSize, limit : 0..MaxSize]
  BY <1>1 DEF ClaimType
<1>3. r.range.required \in 0..MaxSize /\ r.range.limit \in 0..MaxSize BY <1>2
<1>4. PICK i, j : i = r.range.required /\ j = r.range.limit OBVIOUS
<1>5. i \in Nat /\ j \in Nat /\ i <= MaxSize /\ j <= MaxSize BY <1>3, <1>4, BoundAssumption
<1>6. n \in 0..MaxSize /\ i <= n /\ (j >= Min => n <= j) BY <1>4, <1>5, RequiredBytes
<1> QED BY <1>2, <1>3, <1>4, <1>6

(* What CreateVolume answers with. *)
BoundAs(r, v, class, range, path, n, cap, base, born) ==
    /\ r.st = "bound" /\ r.class = class /\ r.range = range /\ r.path = path
    /\ r.cap = cap /\ r.known = (n # 0) /\ r.base = base /\ r.born = born
    /\ r.id = Handle(Meant(v, class, path, n))
    /\ r.vc = VolumeContextForVolumeID(Meant(v, class, path, n))
    /\ PvRecord(r)

(* The fields of a volume CreateVolume has bound. *)
LEMMA BoundFields ==
    ASSUME NEW v, NEW class, NEW range, NEW path, NEW n, NEW cap, NEW base, NEW born
    PROVE  BoundAs(Bound(v, class, range, path, n, cap, base, born),
                   v, class, range, path, n, cap, base, born)
<1>1. PICK m, r, known : /\ m = Meant(v, class, path, n) /\ known = (n # 0)
                         /\ r = Bound(v, class, range, path, n, cap, base, born)
  OBVIOUS
<1>2. r = [st |-> "bound", id |-> Handle(m), vc |-> VolumeContextForVolumeID(m),
           class |-> class, range |-> range, path |-> path, cap |-> cap,
           known |-> known, base |-> base, born |-> born]
  BY <1>1 DEF Bound
<1>3. /\ r.st = "bound" /\ r.class = class /\ r.range = range /\ r.path = path
      /\ r.cap = cap /\ r.known = known /\ r.base = base /\ r.born = born
      /\ r.id = Handle(m) /\ r.vc = VolumeContextForVolumeID(m) /\ PvRecord(r)
  BY <1>2 DEF PvRecord
<1> QED BY <1>1, <1>3 DEF BoundAs

(* A new volume at the path of its name. *)
LEMMA NewNamed ==
    ASSUME SafeInv, NEW v \in Volume, pv[v].st = "none",
           NEW r, PvShape(r), r.st = "bound", Origin(v, r), r.base = "",
           NEW n \in 0..MaxSize, r.cap = n,
           r.path = IF OnVhdx(r.class) THEN VhdxOf(v) ELSE DirOf(v),
           pv' = [pv EXCEPT ![v] = r],
           disk' = IF OnVhdx(r.class) THEN [disk EXCEPT ![r.path] = [size |-> n, data |-> 0]]
                   ELSE disk,
           share' = share \cup Shares(v, r.class),
           UNCHANGED <<snaps, content, late, clock, faults>>
    PROVE  SafeInv'
<1>1. DirOf(v) \notin Path /\ VhdxOf(v) \in Path BY NameAssumption DEF Path
<1>2. disk \in [Path -> DiskRecord] /\ faults \in 0..MaxFaults BY DEF SafeInv, Typed
<1>3. [size |-> n, data |-> 0] \in DiskRecord
  <2>1. 0 \in 0..MaxWrites BY Ranges
  <2> QED BY <2>1 DEF DiskRecord
<1>4. PICK x : x = [size |-> n, data |-> 0] OBVIOUS
<1>5. CASE OnVhdx(r.class)
  <2>1. disk' = [disk EXCEPT ![r.path] = x] /\ r.path \in Path /\ r.path = VhdxOf(v)
    BY <1>1, <1>4, <1>5
  <2>2. disk' \in [Path -> DiskRecord] /\ disk'[r.path] = x
    BY <1>2, <1>3, <1>4, <2>1
  <2>3. \A q \in Path : q # r.path => disk'[q] = disk[q] BY <1>2, <2>1
  <2>4. x.size = n BY <1>4
  <2>5. r.cap <= Shown(r, disk'[r.path].size)
    <3>1. Shown(r, n) = n BY ShownFacts
    <3> QED BY <2>2, <2>4, <3>1, Ranges, Reflexive
  <2>6. \A w \in Volume : pv[w].path # r.path BY <2>1, NamedStorage
  <2> QED BY <1>2, <2>2, <2>3, <2>5, <2>6, NewVolume
<1>6. CASE ~OnVhdx(r.class)
  <2>1. disk' = disk /\ r.path \notin Path BY <1>1, <1>6
  <2> QED BY <1>2, <2>1, NewVolume
<1> QED BY <1>5, <1>6

(* CreateVolume keeps the invariant. *)
LEMMA SafeCreateVolume ==
    ASSUME SafeInv, NEW v \in Volume, NEW a \in Claim[v], CreateVolume(v, a.class, a.range)
    PROVE  SafeInv'
<1>1. PICK n, path : /\ n = RequiredBytesFromRange(a.range)
                     /\ path = IF OnVhdx(a.class) THEN VhdxOf(v) ELSE DirOf(v)
  OBVIOUS
<1>2. PICK r : r = Bound(v, a.class, a.range, path, n, n, "", 0) OBVIOUS
<1>3. /\ pv[v].st = "none" /\ Accepted(a.class) /\ n # 0
      /\ disk' = IF OnVhdx(a.class) THEN [disk EXCEPT ![path] = [size |-> n, data |-> 0]] ELSE disk
      /\ share' = share \cup Shares(v, a.class)
      /\ pv' = [pv EXCEPT ![v] = r]
      /\ UNCHANGED <<snaps, content, late, clock, faults>>
  BY <1>1, <1>2 DEF CreateVolume
<1>4. /\ a.class \in ClassType
      /\ a.range.required \in 0..MaxSize /\ a.range.limit \in 0..MaxSize
      /\ n \in 0..MaxSize /\ a.range.required <= n
      /\ a.range.limit >= Min => n <= a.range.limit
  BY <1>1, <1>3, ClaimSize
<1>5. BoundAs(r, v, a.class, a.range, path, n, n, "", 0)
  BY <1>2, BoundFields
<1>6. 0 \in 0..MaxWrites BY BoundAssumption
<1>7. PvShape(r) BY <1>4, <1>5, <1>6 DEF PvShape, BoundAs
<1>8. Origin(v, r)
  <2>1. Written(v, r, n) BY <1>3, <1>5 DEF Written, BoundAs
  <2>2. r.path \in Paths(v, r.class) BY <1>1, <1>5 DEF Paths, BoundAs
  <2>3. n <= r.cap BY <1>4, <1>5, Ranges, Reflexive DEF BoundAs
  <2> QED BY <1>4, <1>5, <2>1, <2>2, <2>3 DEF Origin, BoundAs
<1>9. r.class = a.class /\ r.path = path /\ r.cap = n /\ r.base = "" /\ r.st = "bound"
  BY <1>5 DEF BoundAs
<1> QED BY <1>1, <1>3, <1>4, <1>7, <1>8, <1>9, NewNamed

(* Importing a volume keeps the invariant. *)
LEMMA SafeImport ==
    ASSUME SafeInv, NEW v \in Volume, NEW class \in Imported[v], Import(v, class)
    PROVE  SafeInv'
<1>1. PICK path, range : /\ path = IF OnVhdx(class) THEN VhdxOf(v) ELSE DirOf(v)
                         /\ range = [required |-> 0, limit |-> 0]
  OBVIOUS
<1>2. PICK b : b = Bound(v, class, range, path, Min, Min, "", 0) OBVIOUS
<1>3. PICK r, id : /\ id = ImportedHandle(v, class, path)
                   /\ r = [b EXCEPT !.id = id, !.vc = NoContext]
  OBVIOUS
<1>4. /\ pv[v].st = "none"
      /\ disk' = IF OnVhdx(class) THEN [disk EXCEPT ![path] = [size |-> Min, data |-> 0]] ELSE disk
      /\ share' = share \cup Shares(v, class)
      /\ pv' = [pv EXCEPT ![v] = r]
      /\ UNCHANGED <<snaps, content, late, clock, faults>>
  BY <1>1, <1>2, <1>3 DEF Import
<1>5. class \in ClassType /\ Importable(class) BY ImportAssumption
<1>6. BoundAs(b, v, class, range, path, Min, Min, "", 0) BY <1>2, BoundFields
<1>7. /\ r.st = "bound" /\ r.class = class /\ r.range = range /\ r.path = path
      /\ r.cap = Min /\ r.known = b.known /\ r.base = "" /\ r.born = 0
      /\ r.id = id /\ r.vc = NoContext /\ PvRecord(r)
  BY <1>3, <1>6 DEF BoundAs, PvRecord
<1>k. r.known \in BOOLEAN BY <1>6, <1>7 DEF BoundAs
<1>8. 0 \in 0..MaxWrites /\ 0 \in 0..MaxSize /\ Min \in 0..MaxSize /\ 0 <= Min /\ Min <= Min
  BY BoundAssumption DEF Min
<1>9. range.required = 0 /\ range.limit = 0 BY <1>1
<1>10. PvShape(r) BY <1>7, <1>8, <1>9, <1>k DEF PvShape
<1>11. Origin(v, r)
  <2>1. Written(v, r, Min) BY <1>3, <1>5, <1>7 DEF Written
  <2>2. r.path \in Paths(v, r.class) BY <1>1, <1>7 DEF Paths
  <2>3. ~(0 >= Min) BY DEF Min
  <2> QED BY <1>5, <1>7, <1>8, <1>9, <2>1, <2>2, <2>3 DEF Origin
<1> QED BY <1>1, <1>4, <1>7, <1>8, <1>10, <1>11, NewNamed

(* A disk that is nobody's is where Windows exports to. *)
LEMMA FreeExports ==
    ASSUME NEW e \in FreeExport
    PROVE  e \in Export /\ e \in Path /\ disk[e] = NoDisk /\ \A w \in Volume : pv[w].path # e
BY DEF FreeExport, Path

(* What a share is answered for with. *)
Larger(i, j) == IF i > j THEN i ELSE j

(* CreateVolume from a snapshot keeps the invariant, with its answer or     *)
(* without.                                                                 *)
LEMMA SafeCreateVolumeFrom ==
    ASSUME SafeInv, NEW v \in Volume, NEW a \in Claim[v], NEW c \in Content,
           CreateVolumeFrom(v, a.class, a.range, c)
    PROVE  SafeInv'
<1>1. PICK wanted : wanted = RequiredBytesFromRange(a.range) OBVIOUS
<1>2. PICK e \in FreeExport, s \in snaps :
        /\ s.id = content[c].id
        /\ pv[v].st = "none" /\ Accepted(a.class) /\ OnVhdx(a.class) /\ wanted # 0
        /\ content[c].st = "made"
        /\ disk' = [disk EXCEPT ![e] = Exported(s)]
        /\ \/ /\ a.class.protocol = "iscsi" => wanted <= s.size
              /\ pv' = [pv EXCEPT ![v] =
                          Bound(v, a.class, a.range, e, Larger(wanted, s.size),
                                Larger(wanted, s.size), c, s.data)]
              /\ UNCHANGED faults
           \/ /\ Fault
              /\ pv' = [pv EXCEPT ![v] =
                          Bound(v, a.class, a.range, e,
                                IF a.class.protocol = "iscsi" THEN 0 ELSE wanted, wanted, c, s.data)]
           \/ Fault /\ UNCHANGED pv
        /\ share' = IF pv' = pv THEN share ELSE share \cup Shares(v, a.class)
        /\ UNCHANGED <<snaps, content, late, clock>>
  BY <1>1 DEF CreateVolumeFrom, Larger
<1>3. /\ a.class \in ClassType
      /\ a.range.required \in 0..MaxSize /\ a.range.limit \in 0..MaxSize
      /\ wanted \in 0..MaxSize /\ a.range.required <= wanted
      /\ a.range.limit >= Min => wanted <= a.range.limit
  BY <1>1, <1>2, ClaimSize
<1>4. e \in Export /\ e \in Path /\ disk[e] = NoDisk /\ \A w \in Volume : pv[w].path # e
  BY FreeExports
<1>5. s.data \in 0..MaxWrites /\ s.size \in 0..MaxSize BY SnapTypes DEF SafeInv
<1>6. PICK x : x = Exported(s) OBVIOUS
<1>7. x \in DiskRecord /\ x.size = s.size /\ x.data = s.data BY <1>5, <1>6 DEF Exported, DiskRecord
<1>8. disk \in [Path -> DiskRecord] /\ disk' = [disk EXCEPT ![e] = x]
  BY <1>2, <1>6 DEF SafeInv, Typed
<1>9. /\ disk' \in [Path -> DiskRecord] /\ disk'[e] = x
      /\ \A q \in Path : q # e => disk'[q] = disk[q]
  BY <1>4, <1>7, <1>8
<1>10. faults' \in 0..MaxFaults BY <1>2, FaultType DEF SafeInv
<1>11. /\ content[c].st \in Answered
       /\ content[c].from <= s.data /\ s.data <= content[c].upto
  <2>1. NamedOk(s, c) BY DEF SafeInv, NamesOk
  <2>2. content[c].st \in Answered BY <1>2 DEF Answered
  <2> QED BY <1>2, <2>1, <2>2 DEF NamedOk
<1>12. "" # c BY NameAssumption
<1>13. ASSUME NEW n \in 0..MaxSize, NEW cap \in 0..MaxSize, NEW r,
              n # 0 => /\ n = cap /\ wanted <= n
                       /\ n = s.size \/ (a.class.protocol # "iscsi" /\ n = wanted),
              BoundAs(r, v, a.class, a.range, e, n, cap, c, s.data),
              pv' = [pv EXCEPT ![v] = r]
       PROVE  SafeInv'
  <2>1. PvShape(r) BY <1>3, <1>5, <1>13 DEF PvShape, BoundAs
  <2>2. r.path = e /\ r.class = a.class /\ r.base = c /\ r.born = s.data /\ r.st = "bound"
    BY <1>13 DEF BoundAs
  <2>3. Origin(v, r)
    <3>1. Written(v, r, n) BY <1>2, <1>13 DEF Written, BoundAs
    <3>2. r.path \in Paths(v, r.class) BY <1>2, <1>4, <2>2 DEF Paths
    <3>3. ASSUME r.known PROVE n <= r.cap /\ r.range.required <= n
      <4>1. n # 0 /\ r.cap = cap /\ r.range = a.range BY <1>13, <3>3 DEF BoundAs
      <4>2. n <= r.cap BY <1>13, <4>1, Ranges, Reflexive
      <4>3. a.range.required \in Nat /\ wanted \in Nat /\ n \in Nat BY <1>3, Ranges
      <4> QED BY <1>3, <1>13, <4>1, <4>2, <4>3, Transitive
    <3> QED BY <1>3, <1>12, <2>2, <3>1, <3>2, <3>3 DEF Origin
  <2>4. r.known /\ r.path \in Path => r.cap <= Shown(r, disk'[r.path].size)
    <3>1. SUFFICES ASSUME r.known PROVE r.cap <= Shown(r, disk'[r.path].size) OBVIOUS
    <3>2. n # 0 /\ r.cap = cap /\ r.range = a.range BY <1>13, <3>1 DEF BoundAs
    <3>3. disk'[r.path].size = s.size BY <1>7, <1>9, <2>2
    <3>4. PICK k : k = Shown(r, s.size) OBVIOUS
    <3>5. k \in Nat /\ s.size <= k /\ (a.class.protocol # "iscsi" => wanted <= k)
      BY <1>1, <1>5, <1>12, <2>1, <2>2, <3>2, <3>4, ShownFacts
    <3> QED BY <1>13, <3>2, <3>3, <3>4, <3>5
  <2>5. share' = share \cup Shares(v, r.class)
    <3>1. pv'[v] = r BY <1>13 DEF SafeInv, Typed
    <3>2. pv' # pv BY <1>2, <2>2, <3>1
    <3> QED BY <1>2, <2>2, <3>2
  <2> QED BY <1>2, <1>4, <1>9, <1>10, <1>11, <1>13, <2>1, <2>2, <2>3, <2>4, <2>5, NewVolume
<1>n. wanted \in Nat /\ s.size \in Nat BY <1>3, <1>5, Ranges
<1>14. CASE /\ a.class.protocol = "iscsi" => wanted <= s.size
            /\ pv' = [pv EXCEPT ![v] =
                        Bound(v, a.class, a.range, e, Larger(wanted, s.size),
                              Larger(wanted, s.size), c, s.data)]
  <2>1. PICK n : n = Larger(wanted, s.size) OBVIOUS
  <2>2. PICK r : r = Bound(v, a.class, a.range, e, n, n, c, s.data) OBVIOUS
  <2>3. BoundAs(r, v, a.class, a.range, e, n, n, c, s.data) BY <2>2, BoundFields
  <2>4. PICK i, j : i = wanted /\ j = s.size OBVIOUS
  <2>5. i \in Nat /\ j \in Nat /\ n = IF i > j THEN i ELSE j BY <1>n, <2>1, <2>4 DEF Larger
  <2>6. i <= n /\ n \in {i, j} /\ (i <= j => n = j) BY ONLY <2>5
  <2>7. n \in 0..MaxSize BY <1>3, <1>5, <2>4, <2>6
  <2>8. wanted <= n /\ (n = s.size \/ (a.class.protocol # "iscsi" /\ n = wanted))
    BY <1>14, <2>4, <2>6
  <2> QED BY <1>13, <1>14, <2>1, <2>2, <2>3, <2>7, <2>8
<1>15. CASE pv' = [pv EXCEPT ![v] =
                     Bound(v, a.class, a.range, e,
                           IF a.class.protocol = "iscsi" THEN 0 ELSE wanted, wanted, c, s.data)]
  <2>1. PICK n : n = IF a.class.protocol = "iscsi" THEN 0 ELSE wanted OBVIOUS
  <2>2. PICK r : r = Bound(v, a.class, a.range, e, n, wanted, c, s.data) OBVIOUS
  <2>3. BoundAs(r, v, a.class, a.range, e, n, wanted, c, s.data) BY <2>2, BoundFields
  <2>4. n \in 0..MaxSize BY <1>3, <2>1, Ranges
  <2>5. n # 0 => n = wanted /\ wanted <= n /\ a.class.protocol # "iscsi"
    BY <1>n, <2>1, Reflexive
  <2> QED BY <1>3, <1>13, <1>15, <2>1, <2>2, <2>3, <2>4, <2>5
<1>16. CASE UNCHANGED pv
  <2>1. share' = share BY <1>2, <1>16
  <2>2. Typed' BY <1>2, <1>9, <1>10, <1>16, <2>1 DEF SafeInv, Typed
  <2>3. \A w \in Volume : pv[w].path \in Path => disk'[pv[w].path] = disk[pv[w].path] BY <1>4, <1>9
  <2>4. VolumesOk' BY <1>16, <2>1, <2>3 DEF SafeInv, VolumesOk, VolumeOk
  <2>5. RestoresOk' BY <1>2, <1>16 DEF SafeInv, RestoresOk, RestoredOk
  <2>6. OwnPaths' BY <1>16 DEF SafeInv, OwnPaths
  <2>7. ASSUME NEW w \in Volume PROVE Keeps(w)
    <3>1. pv[w].path \in Path => disk[pv[w].path].data <= disk'[pv[w].path].data
      BY <2>3, DiskTypes, Reflexive DEF SafeInv
    <3> QED BY <1>2, <1>16, <3>1 DEF Keeps
  <2>8. \A d \in Content : Holds(d) BY <1>16 DEF Holds, SafeInv, ContentsOk, ContentOk
  <2> QED BY <1>2, <2>2, <2>4, <2>5, <2>6, <2>7, <2>8, StorageStep
<1> QED BY <1>2, <1>14, <1>15, <1>16

(* A bound volume is written to, expanded or deleted. *)
LEMMA ChangedVolume ==
    ASSUME SafeInv, NEW v \in Volume, pv[v].st = "bound",
           NEW r, PvShape(r), r.st # "none", Origin(v, r),
           r.class = pv[v].class, r.path = pv[v].path, r.base = pv[v].base, r.born = pv[v].born,
           pv' = [pv EXCEPT ![v] = r],
           disk' \in [Path -> DiskRecord],
           \A q \in Path : q # pv[v].path => disk'[q] = disk[q],
           share' \subseteq share, \A w \in Volume : w # v => (w \in share' <=> w \in share),
           snaps' \subseteq snaps, \A s \in snaps : s.path # pv[v].path => s \in snaps',
           r.st = "bound" =>
              /\ snaps' = snaps
              /\ r.path \in Path => /\ disk[r.path].data <= disk'[r.path].data
                                    /\ r.known => r.cap <= Shown(r, disk'[r.path].size),
           r.st = "gone" /\ ~BareIPv6(r.class) =>
              v \notin share' /\ (r.path \in Path => disk'[r.path] = NoDisk),
           \A c \in Content :
              content[c].vol = v /\ content[c].st \in {"failed", "taking"} => r.st = "bound",
           UNCHANGED <<content, late, clock>>, faults' \in 0..MaxFaults
    PROVE  SafeInv'
<1>1. pv' = [w \in Volume |-> pv'[w]] /\ pv'[v] = r
  BY DEF SafeInv, Typed
<1>2. \A w \in Volume : w # v => pv'[w] = pv[w] BY DEF SafeInv, Typed
<1>3. Typed'
  <2>1. \A w \in Volume : PvShape(pv'[w]) BY <1>1, <1>2 DEF SafeInv, Typed
  <2>2. snaps' \subseteq SnapType(clock') /\ share' \subseteq Volume BY DEF SafeInv, Typed
  <2>3. /\ content' \in [Content -> ContentType]
        /\ late' \subseteq [op : {"checkpoint", "remove"}, content : Content, id : Nat]
        /\ clock' \in Nat
    BY DEF SafeInv, Typed
  <2> QED BY <1>1, <2>1, <2>2, <2>3 DEF Typed
<1>4. ASSUME NEW w \in Volume, w # v, pv[w].path \in Path
      PROVE  pv[w].path # pv[v].path /\ disk'[pv[w].path] = disk[pv[w].path]
  <2>1. pv[w].path # pv[v].path BY <1>4 DEF SafeInv, OwnPaths
  <2> QED BY <1>4, <2>1
<1>5. ASSUME NEW w \in Volume PROVE VolumeOk(w)'
  <2>1. VolumeOk(w) BY DEF SafeInv, VolumesOk
  <2>2. CASE w = v BY <1>1, <2>1, <2>2 DEF VolumeOk
  <2>3. CASE w # v
    <3>1. pv'[w] = pv[w] /\ (w \in share' <=> w \in share) BY <1>2, <2>3
    <3> QED BY <1>4, <2>1, <2>3, <3>1 DEF VolumeOk
  <2> QED BY <2>2, <2>3
<1>6. ASSUME NEW w \in Volume PROVE RestoredOk(w)'
  <2>1. RestoredOk(w) BY DEF SafeInv, RestoresOk
  <2>2. pv'[w].base = pv[w].base /\ pv'[w].born = pv[w].born BY <1>1, <1>2
  <2> QED BY <2>1, <2>2 DEF RestoredOk
<1>7. \A w \in Volume : pv'[w].path = pv[w].path BY <1>1, <1>2
<1>8. OwnPaths' BY <1>7 DEF SafeInv, OwnPaths
<1>9. ASSUME NEW w \in Volume PROVE Keeps(w)
  <2>1. CASE w = v BY <1>1, <2>1 DEF Keeps
  <2>2. CASE w # v
    <3>1. pv'[w] = pv[w] BY <1>2, <2>2
    <3>2. pv[w].path \in Path => disk[pv[w].path].data <= disk'[pv[w].path].data
      BY <1>4, <2>2, DiskTypes, Reflexive DEF SafeInv
    <3>3. pv[w].path \in Path => \A s \in snaps : s.path = pv[w].path => s \in snaps'
      BY <1>4, <2>2
    <3> QED BY <3>1, <3>2, <3>3 DEF Keeps
  <2> QED BY <2>1, <2>2
<1>10. ASSUME NEW c \in Content PROVE Holds(c)
  <2>1. SUFFICES ASSUME content[c].st \in {"failed", "taking"} PROVE pv'[content[c].vol].st = "bound"
    BY DEF Holds
  <2>2. ContentOk(c) BY DEF SafeInv, ContentsOk
  <2>3. content[c].vol \in Volume /\ pv[content[c].vol].st = "bound" BY <2>1, <2>2 DEF ContentOk
  <2> QED BY <1>1, <1>2, <2>1, <2>3
<1> QED BY <1>3, <1>5, <1>6, <1>8, <1>9, <1>10, StorageStep DEF VolumesOk, RestoresOk

(* A write by a pod keeps the invariant: snapshots hold what was there      *)
(* before.                                                                  *)
LEMMA SafeWrite ==
    ASSUME SafeInv, NEW v \in Volume, Write(v)
    PROVE  SafeInv'
<1>1. PICK p, x : p = pv[v].path /\ x = disk[p] OBVIOUS
<1>2. /\ pv[v].st = "bound" /\ p \in Path /\ x.data < MaxWrites
      /\ disk' = [disk EXCEPT ![p].data = @ + 1]
      /\ UNCHANGED <<share, snaps, pv, content, late, clock, faults>>
  BY <1>1 DEF Write
<1>3. PICK y : y = [x EXCEPT !.data = @ + 1] OBVIOUS
<1>4. disk \in [Path -> DiskRecord] /\ disk' = [disk EXCEPT ![p] = y] BY <1>1, <1>2, <1>3 DEF SafeInv, Typed
<1>5. x \in DiskRecord BY <1>1, <1>2, <1>4
<1>6. x.data \in 0..MaxWrites /\ x.size \in 0..MaxSize /\ x = [size |-> x.size, data |-> x.data]
  BY <1>5 DEF DiskRecord
<1>7. PICK i, n : i = x.data /\ n = MaxWrites OBVIOUS
<1>8. n \in Nat /\ i \in 0..n /\ i < n BY <1>2, <1>6, <1>7, BoundAssumption
<1>9. i + 1 \in 0..n /\ i <= i + 1 BY ONLY <1>8
<1>10. y.size = x.size /\ y.data = i + 1 /\ y = [size |-> y.size, data |-> y.data] BY <1>3, <1>6, <1>7
<1>11. y \in DiskRecord /\ x.data <= y.data BY <1>6, <1>7, <1>9, <1>10 DEF DiskRecord
<1>12. /\ disk' \in [Path -> DiskRecord] /\ disk'[p] = y
       /\ \A q \in Path : q # p => disk'[q] = disk[q]
  BY <1>2, <1>4, <1>11
<1>13. VolumeOk(v) /\ PvShape(pv[v]) /\ pv' = [pv EXCEPT ![v] = pv[v]] /\ faults \in 0..MaxFaults
  BY <1>2 DEF SafeInv, VolumesOk, Typed
<1>14. Origin(v, pv[v]) /\ (pv[v].known => pv[v].cap <= Shown(pv[v], disk'[p].size))
  BY <1>1, <1>2, <1>10, <1>12, <1>13 DEF VolumeOk
<1>15. PICK r : r = pv[v] OBVIOUS
<1> QED BY <1>1, <1>2, <1>11, <1>12, <1>13, <1>14, <1>15, ChangedVolume

(* ControllerExpandVolume keeps the invariant, with its answer or without. *)
LEMMA SafeExpand ==
    ASSUME SafeInv, NEW v \in Volume, NEW want \in 1..MaxSize, ControllerExpandVolume(v, want)
    PROVE  SafeInv'
<1>1. PICK p : p = SourcePath(pv[v].id) OBVIOUS
<1>2. /\ pv[v].st = "bound" /\ want > pv[v].cap
      /\ ~Undecodable(pv[v].id)
      /\ disk' = IF p = "" THEN disk ELSE [disk EXCEPT ![p].size = want]
      /\ \/ pv' = [pv EXCEPT ![v].cap = want] /\ UNCHANGED faults
         \/ Fault /\ UNCHANGED pv
      /\ UNCHANGED <<share, snaps, content, late, clock>>
  BY <1>1 DEF ControllerExpandVolume
<1>3. VolumeOk(v) /\ PvShape(pv[v]) /\ pv = [w \in Volume |-> pv[w]]
  BY DEF SafeInv, VolumesOk, Typed
<1>4. Origin(v, pv[v]) BY <1>2, <1>3 DEF VolumeOk
<1>5. /\ p = IF OnVhdx(pv[v].class) THEN pv[v].path ELSE ""
      /\ pv[v].path # "" /\ (OnVhdx(pv[v].class) <=> pv[v].path \in Path)
  BY <1>1, <1>2, <1>4, Sources
<1>6. faults' \in 0..MaxFaults BY <1>2, FaultType DEF SafeInv
<1>7. want \in 0..MaxSize /\ want \in Nat /\ pv[v].cap \in Nat
  BY <1>3, BoundAssumption, Ranges DEF PvShape
<1>8. pv[v].cap <= want BY <1>2, <1>7, Greater
<1>9. PICK r : r \in {pv[v], [pv[v] EXCEPT !.cap = want]} /\ pv' = [pv EXCEPT ![v] = r]
  BY <1>2, <1>3
<1>10. /\ r.st = "bound" /\ r.class = pv[v].class /\ r.path = pv[v].path /\ r.base = pv[v].base
       /\ r.born = pv[v].born /\ r.id = pv[v].id /\ r.vc = pv[v].vc /\ r.known = pv[v].known
       /\ r.range = pv[v].range /\ r.cap \in {pv[v].cap, want} /\ PvRecord(r)
  BY <1>2, <1>3, <1>9 DEF PvShape, PvRecord
<1>11. PvShape(r) BY <1>3, <1>7, <1>10 DEF PvShape
<1>12. pv[v].cap <= r.cap /\ r.cap <= want /\ r.cap \in Nat BY <1>7, <1>8, <1>10
<1>13. Origin(v, r)
  <2>1. PICK n \in 0..MaxSize :
          /\ Written(v, pv[v], n)
          /\ pv[v].known => /\ n <= pv[v].cap /\ pv[v].range.required <= n
                            /\ pv[v].base = "" /\ pv[v].range.limit >= Min => n <= pv[v].range.limit
    BY <1>4 DEF Origin
  <2>2. Written(v, r, n) BY <1>10, <2>1 DEF Written
  <2>3. pv[v].known => n <= r.cap BY <1>7, <1>12, <2>1, Ranges, Transitive
  <2> QED BY <1>4, <1>10, <2>1, <2>2, <2>3 DEF Origin
<1>14. disk \in [Path -> DiskRecord] BY DEF SafeInv, Typed
<1>15. CASE pv[v].path \in Path
  <2>1. p = pv[v].path /\ disk' = [disk EXCEPT ![p].size = want] BY <1>2, <1>5, <1>15
  <2>2. PICK x : x = disk[p] OBVIOUS
  <2>3. x \in DiskRecord BY <1>14, <1>15, <2>1, <2>2
  <2>4. x.data \in 0..MaxWrites /\ x = [size |-> x.size, data |-> x.data] BY <2>3 DEF DiskRecord
  <2>5. PICK y : y = [x EXCEPT !.size = want] OBVIOUS
  <2>6. y.size = want /\ y.data = x.data /\ y = [size |-> y.size, data |-> y.data] BY <2>4, <2>5
  <2>7. y \in DiskRecord BY <1>7, <2>4, <2>6 DEF DiskRecord
  <2>8. disk' = [disk EXCEPT ![p] = y] BY <1>14, <1>15, <2>1, <2>2, <2>5
  <2>9. /\ disk' \in [Path -> DiskRecord] /\ disk'[p] = y
        /\ \A q \in Path : q # p => disk'[q] = disk[q]
    BY <1>14, <1>15, <2>1, <2>7, <2>8
  <2>10. disk[p].data <= disk'[p].data BY <2>2, <2>4, <2>6, <2>9, Ranges, Reflexive
  <2>11. r.cap <= Shown(r, disk'[p].size)
    <3>1. disk'[p].size = want BY <2>6, <2>9
    <3>2. want <= Shown(r, want) /\ Shown(r, want) \in Nat BY <1>7, <1>11, ShownFacts
    <3> QED BY <1>7, <1>12, <3>1, <3>2, Transitive
  <2> QED BY <1>2, <1>6, <1>9, <1>10, <1>11, <1>13, <2>1, <2>9, <2>10, <2>11, ChangedVolume
<1>16. CASE pv[v].path \notin Path
  <2>1. disk' = disk BY <1>2, <1>5, <1>16
  <2> QED BY <1>2, <1>6, <1>9, <1>10, <1>11, <1>13, <1>14, <1>16, <2>1, ChangedVolume
<1> QED BY <1>15, <1>16

(* DeleteVolume keeps the invariant. *)
LEMMA SafeDeleteVolume ==
    ASSUME SafeInv, NEW v \in Volume, DeleteVolume(v)
    PROVE  SafeInv'
<1>1. PICK p, d : p = SourcePath(pv[v].id) /\ d = DecodeAnyVolumeID(pv[v].id) OBVIOUS
<1>2. /\ pv[v].st = "bound"
      /\ \A c \in Content : content[c].vol = v => content[c].st \notin {"failed", "taking"}
      /\ IF Undecodable(pv[v].id) THEN UNCHANGED <<disk, share>> ELSE DeleteStorage(d, p)
      /\ pv' = [pv EXCEPT ![v].st = "gone"]
      /\ snaps' \in {snaps, {s \in snaps : s.path # p}}
      /\ UNCHANGED <<content, late, clock, faults>>
  BY <1>1 DEF DeleteVolume
<1>3. VolumeOk(v) /\ PvShape(pv[v]) /\ pv = [w \in Volume |-> pv[w]]
  BY DEF SafeInv, VolumesOk, Typed
<1>4. Origin(v, pv[v]) BY <1>2, <1>3 DEF VolumeOk
<1>5. /\ p = IF OnVhdx(pv[v].class) /\ ~BareIPv6(pv[v].class) THEN pv[v].path ELSE ""
      /\ Undecodable(pv[v].id) <=> BareIPv6(pv[v].class)
      /\ ~BareIPv6(pv[v].class) => d.name = v /\ d.protocol = pv[v].class.protocol
      /\ pv[v].path # "" /\ (OnVhdx(pv[v].class) <=> pv[v].path \in Path)
  BY <1>1, <1>4, Sources
<1>6. faults' \in 0..MaxFaults BY <1>2 DEF SafeInv, Typed
<1>7. PICK r : r = [pv[v] EXCEPT !.st = "gone"] OBVIOUS
<1>8. pv' = [pv EXCEPT ![v] = r] BY <1>2, <1>3, <1>7
<1>9. /\ r.st = "gone" /\ r.class = pv[v].class /\ r.path = pv[v].path /\ r.base = pv[v].base
      /\ r.born = pv[v].born /\ r.id = pv[v].id /\ r.vc = pv[v].vc /\ r.known = pv[v].known
      /\ r.range = pv[v].range /\ r.cap = pv[v].cap /\ PvRecord(r)
  BY <1>2, <1>3, <1>7 DEF PvShape, PvRecord
<1>10. PvShape(r) BY <1>3, <1>9 DEF PvShape
<1>11. Origin(v, r)
  <2>1. PICK n \in 0..MaxSize :
          /\ Written(v, pv[v], n)
          /\ pv[v].known => /\ n <= pv[v].cap /\ pv[v].range.required <= n
                            /\ pv[v].base = "" /\ pv[v].range.limit >= Min => n <= pv[v].range.limit
    BY <1>4 DEF Origin
  <2>2. Written(v, r, n) BY <1>9, <2>1 DEF Written
  <2> QED BY <1>4, <1>9, <2>1, <2>2 DEF Origin
<1>12. disk \in [Path -> DiskRecord] /\ share \subseteq Volume BY DEF SafeInv, Typed
<1>13. snaps' \subseteq snaps /\ \A s \in snaps : s.path # pv[v].path => s \in snaps'
  <2>1. \A s \in snaps : s.path # "" BY SnapTypes, NoEmptyPath DEF SafeInv
  <2> QED BY <1>2, <1>5, <2>1
<1>14. CASE BareIPv6(pv[v].class)
  <2>1. UNCHANGED <<disk, share>> BY <1>2, <1>5, <1>14
  <2> QED BY <1>2, <1>6, <1>8, <1>9, <1>10, <1>11, <1>12, <1>13, <1>14, <2>1, ChangedVolume
<1>15. CASE ~BareIPv6(pv[v].class)
  <2>1. /\ disk' = [q \in Path |-> IF q = p THEN NoDisk ELSE disk[q]]
        /\ share' = IF pv[v].class.protocol = "iscsi" THEN share ELSE share \ {v}
    BY <1>2, <1>5, <1>15 DEF DeleteStorage
  <2>2. NoDisk \in DiskRecord BY Ranges DEF NoDisk, DiskRecord
  <2>3. disk' \in [Path -> DiskRecord] BY <1>12, <2>1, <2>2
  <2>4. \A q \in Path : q # pv[v].path => disk'[q] = disk[q] BY <1>5, <2>1, NoEmptyPath
  <2>5. pv[v].path \in Path => disk'[pv[v].path] = NoDisk BY <1>5, <1>15, <2>1
  <2>6. v \notin share' BY <1>3, <2>1 DEF VolumeOk
  <2>7. share' \subseteq share /\ \A w \in Volume : w # v => (w \in share' <=> w \in share)
    BY <2>1
  <2>8. r.st = "gone" /\ ~BareIPv6(r.class) =>
           v \notin share' /\ (r.path \in Path => disk'[r.path] = NoDisk)
    BY <1>9, <2>5, <2>6
  <2>9. r.st # "none" /\ r.st # "bound" BY <1>9
  <2>10. \A c \in Content :
            content[c].vol = v /\ content[c].st \in {"failed", "taking"} => r.st = "bound"
    BY <1>2
  <2>11. UNCHANGED <<content, late, clock>> /\ pv[v].st = "bound" BY <1>2
  <2>12. r.class = pv[v].class /\ r.path = pv[v].path /\ r.base = pv[v].base /\ r.born = pv[v].born
    BY <1>9
  <2> QED BY <1>6, <1>8, <1>10, <1>11, <1>13, <2>3, <2>4, <2>7, <2>8, <2>9, <2>10, <2>11, <2>12,
             ChangedVolume
<1> QED BY <1>14, <1>15

-----------------------------------------------------------------------------
(* Of snapshots that are there, one is the newest. *)
LEMMA NewestIs ==
    ASSUME SafeInv, NEW S, S \subseteq snaps, S # {}
    PROVE  Newest(S) \in S /\ \A t \in S : t.id <= Newest(S).id
<1>1. PICK n : n = clock OBVIOUS
<1>2. n \in Nat /\ \A s \in S : s.id \in 1..n BY <1>1, SnapTypes DEF SafeInv, Typed
<1> DEFINE T == {n - s.id : s \in S}
<1>3. \A i \in 1..n : n - i \in Nat BY ONLY <1>2
<1>4. T \subseteq Nat BY <1>2, <1>3
<1>5. T # {} OBVIOUS
<1>6. IsWellFoundedOn(OpToRel(<, Nat), Nat) BY NatLessThanWellFounded
<1>7. PICK x \in T : \A y \in T : ~(<<y, x>> \in OpToRel(<, Nat)) BY <1>4, <1>5, <1>6, WFMin
<1>8. \A y \in T : ~(y < x) BY <1>4, <1>7 DEF OpToRel
<1>9. PICK s \in S : x = n - s.id OBVIOUS
<1>10. \A i, j \in 1..n : ~(n - i < n - j) => i <= j BY ONLY <1>2
<1>11. \A t \in S : t.id <= s.id BY <1>2, <1>8, <1>9, <1>10
<1> QED BY <1>11 DEF Newest

(* Checkpoint-IscsiVirtualDisk makes a snapshot with a new ID. *)
Fresh(n, p, c) ==
    /\ n.id = clock + 1 /\ n.path = p /\ n.description = c /\ n.data = disk[p].data
    /\ n \in SnapType(clock + 1)
    /\ snaps' = snaps \cup {n} /\ clock' = clock + 1

(* A checkpoint adds one snapshot of the disk as it is, under a new ID. *)
LEMMA Taken ==
    ASSUME SafeInv, NEW c \in Content, NEW p, NEW listed \in BOOLEAN, Checkpoint(p, c, listed)
    PROVE  \E n : Fresh(n, p, c)
<1>1. PICK i, x : i = clock /\ x = disk[p] OBVIOUS
<1>2. PICK n : n = [id |-> i + 1, path |-> p, description |-> c,
                    size |-> x.size, data |-> x.data, listed |-> listed]
  OBVIOUS
<1>3. p \in Path /\ clock' = clock + 1 /\ snaps' = snaps \cup {n}
  BY <1>1, <1>2 DEF Checkpoint
<1>4. x.size \in 0..MaxSize /\ x.data \in 0..MaxWrites BY <1>1, <1>3, DiskTypes DEF SafeInv
<1>5. i \in Nat BY <1>1 DEF SafeInv, Typed
<1>6. i + 1 \in 1..(i + 1) BY ONLY <1>5
<1>7. n \in SnapType(i + 1) BY <1>2, <1>3, <1>4, <1>6 DEF SnapType
<1>8. n.id = i + 1 /\ n.path = p /\ n.description = c /\ n.data = x.data BY <1>2
<1> QED BY <1>1, <1>3, <1>7, <1>8 DEF Fresh

(* A new snapshot's ID is that of no other snapshot and of no answer. *)
LEMMA FreshFacts ==
    ASSUME SafeInv, NEW n, NEW p, NEW c, Fresh(n, p, c)
    PROVE  /\ clock' \in Nat /\ snaps' \subseteq SnapType(clock')
           /\ \A i \in 1..clock : i \in 1..clock'
           /\ \A s \in snaps : s.id # n.id
           /\ \A d \in Content : content[d].st \in Answered => content[d].id # n.id
           /\ UniqueIds'
<1>1. PICK k : k = clock OBVIOUS
<1>2. k \in Nat BY <1>1 DEF SafeInv, Typed
<1>3. n.id = k + 1 /\ clock' = k + 1 /\ n \in SnapType(k + 1) /\ snaps' = snaps \cup {n}
  BY <1>1 DEF Fresh
<1>4. k + 1 \in Nat /\ \A i \in 1..k : i \in 1..(k + 1) /\ i # k + 1 BY ONLY <1>2
<1>5. \A s \in snaps : s.id \in 1..k BY <1>1, SnapTypes DEF SafeInv
<1>6. ASSUME NEW s \in snaps PROVE s \in SnapType(k + 1)
  <2>1. s \in SnapType(k) BY <1>1, SnapTypes DEF SafeInv
  <2> QED BY <1>4, <1>5, <2>1 DEF SnapType
<1>7. ASSUME NEW d \in Content, content[d].st \in Answered PROVE content[d].id # n.id
  <2>1. ContentOk(d) BY DEF SafeInv, ContentsOk
  <2>2. content[d].id \in 1..k BY <1>1, <1>7, <2>1 DEF ContentOk
  <2> QED BY <1>3, <1>4, <2>2
<1>8. \A s \in snaps : s.id # n.id BY <1>3, <1>4, <1>5
<1>9. UniqueIds' BY <1>3, <1>8 DEF SafeInv, UniqueIds
<1> QED BY <1>1, <1>3, <1>4, <1>6, <1>7, <1>8, <1>9

(* A step that leaves volumes and disks alone and takes no answer back. *)
LEMMA SnapshotStep ==
    ASSUME SafeInv, UNCHANGED <<disk, share, pv>>,
           snaps' \subseteq SnapType(clock'), clock' \in Nat,
           content' \in [Content -> ContentType],
           late' \subseteq [op : {"checkpoint", "remove"}, content : Content, id : Nat],
           UNCHANGED faults \/ Fault,
           \A c \in Content : content[c].st \in Answered =>
              /\ content'[c].st \in Answered
              /\ content'[c].from = content[c].from /\ content'[c].upto = content[c].upto,
           ContentsOk', SnapshotsOk', NamesOk', UniqueIds', LatesOk'
    PROVE  SafeInv'
<1>1. faults' \in 0..MaxFaults BY FaultType DEF SafeInv
<1>2. Typed' BY <1>1 DEF SafeInv, Typed
<1>3. VolumesOk' BY DEF SafeInv, VolumesOk, VolumeOk
<1>4. OwnPaths' BY DEF SafeInv, OwnPaths
<1>5. ASSUME NEW v \in Volume PROVE RestoredOk(v)'
  <2>1. RestoredOk(v) BY DEF SafeInv, RestoresOk
  <2> QED BY <2>1 DEF RestoredOk
<1> QED BY <1>2, <1>3, <1>4, <1>5 DEF SafeInv, RestoresOk

(* A snapshot as Kubernetes stores it, when others are added or listed. *)
LEMMA ContentStays ==
    ASSUME SafeInv, UNCHANGED <<disk, share, pv>>, NEW d \in Content, content'[d] = content[d],
           \A i \in 1..clock : i \in 1..clock',
           content[d].st = "made" /\ pv[content[d].vol].st = "bound" =>
              \A s \in snaps : s.id = content[d].id => \E t \in snaps' : t.id = s.id
    PROVE  ContentOk(d)'
<1>1. ContentOk(d) BY DEF SafeInv, ContentsOk
<1>2. PICK k, r : k = content[d] /\ r = pv[k.vol] OBVIOUS
<1>3. content'[d] = k /\ pv'[k.vol] = r BY <1>2
<1>4. /\ k.st # "none" => /\ k.vol \in Volume /\ r.st # "none"
                          /\ OnVhdx(r.class) /\ ~BareIPv6(r.class) /\ r.path \in Path
      /\ k.st \in {"failed", "taking"} => r.st = "bound" /\ k.from <= disk'[r.path].data
      /\ k.st \notin Answered => k.id = 0
      /\ k.st \in Answered => k.id \in 1..clock /\ k.path = r.path
      /\ k.st = "made" /\ r.st = "bound" => \E s \in snaps : s.id = k.id
  BY <1>1, <1>2 DEF ContentOk
<1>5. k.st = "made" /\ r.st = "bound" => \E t \in snaps' : t.id = k.id BY <1>2, <1>4
<1>6. k.st \in Answered => k.id \in 1..clock' BY <1>4
<1> QED BY <1>3, <1>4, <1>5, <1>6 DEF ContentOk

(* An attempt to take a snapshot, with or without one. *)
LEMMA Attempt ==
    ASSUME SafeInv, UNCHANGED <<disk, share, pv>>, NEW c \in Content, NEW v \in Volume,
           content[c].st \in {"none", "failed"}, pv[v].st = "bound", pv[v].path \in Path,
           OnVhdx(pv[v].class), ~BareIPv6(pv[v].class),
           NEW k \in ContentType, k.st \in {"taking", "failed"}, k.vol = v, k.id = 0,
           k.from <= disk[pv[v].path].data,
           content[c].st = "failed" => content[c].vol = v /\ k.from = content[c].from,
           content' = [content EXCEPT ![c] = k],
           UNCHANGED <<snaps, clock>> \/ \E n : Fresh(n, pv[v].path, c),
           late' \subseteq late \cup {[op |-> "checkpoint", content |-> c, id |-> faults]},
           UNCHANGED faults \/ Fault
    PROVE  SafeInv'
<1>1. Typed BY DEF SafeInv
<1>2. /\ content' \in [Content -> ContentType] /\ content'[c] = k
      /\ \A d \in Content : d # c => content'[d] = content[d]
  BY <1>1 DEF Typed
<1>3. /\ clock' \in Nat /\ snaps' \subseteq SnapType(clock')
      /\ \A i \in 1..clock : i \in 1..clock'
      /\ UniqueIds' /\ snaps \subseteq snaps'
  <2>1. CASE UNCHANGED <<snaps, clock>> BY <2>1, <1>1 DEF SafeInv, Typed, UniqueIds
  <2>2. CASE \E n : Fresh(n, pv[v].path, c) BY <2>2, FreshFacts DEF Fresh
  <2> QED BY <2>1, <2>2
<1>4. ASSUME NEW s \in snaps'
      PROVE  \/ s \in snaps
             \/ /\ s.path = pv[v].path /\ s.description = c /\ s.data = disk[pv[v].path].data
                /\ \A d \in Content : content[d].st \in Answered => content[d].id # s.id
  <2>1. CASE UNCHANGED <<snaps, clock>> BY <2>1
  <2>2. CASE \E n : Fresh(n, pv[v].path, c)
    <3>1. PICK n : Fresh(n, pv[v].path, c) BY <2>2
    <3>2. \A d \in Content : content[d].st \in Answered => content[d].id # n.id
      BY <3>1, FreshFacts
    <3> QED BY <3>1, <3>2 DEF Fresh
  <2> QED BY <2>1, <2>2
<1>5. k.st \notin Answered /\ content[c].st \notin Answered BY DEF Answered
<1>6. late' \subseteq [op : {"checkpoint", "remove"}, content : Content, id : Nat]
  <2>1. faults \in Nat BY <1>1, BoundAssumption DEF Typed
  <2>2. [op |-> "checkpoint", content |-> c, id |-> faults]
           \in [op : {"checkpoint", "remove"}, content : Content, id : Nat]
    BY <2>1
  <2> QED BY <1>1, <2>2 DEF Typed
<1>7. ASSUME NEW d \in Content PROVE ContentOk(d)'
  <2>1. CASE d = c
    <3>1. pv'[v] = pv[v] /\ disk' = disk OBVIOUS
    <3> QED BY <1>2, <1>5, <2>1, <3>1 DEF ContentOk
  <2>2. CASE d # c BY <1>2, <1>3, <2>2, ContentStays
  <2> QED BY <2>1, <2>2
<1>8. ASSUME NEW s \in snaps' PROVE SnapshotOk(s)'
  <2>1. CASE s \in snaps
    <3>1. SnapshotOk(s) /\ s.description \in Content BY <1>1, <2>1, SnapTypes DEF SafeInv, SnapshotsOk
    <3>2. CASE s.description = c BY <1>2, <3>1, <3>2 DEF SnapshotOk
    <3>3. CASE s.description # c BY <1>2, <3>1, <3>3 DEF SnapshotOk
    <3> QED BY <3>2, <3>3
  <2>2. CASE s \notin snaps
    <3>1. s.path = pv[v].path /\ s.description = c /\ s.data = disk[pv[v].path].data BY <1>4, <2>2
    <3>2. s.data \in Nat /\ s.data <= disk[s.path].data BY <1>1, <3>1, DiskTypes, Reflexive
    <3> QED BY <1>2, <3>1, <3>2 DEF SnapshotOk
  <2> QED BY <2>1, <2>2
<1>9. ASSUME NEW s \in snaps', NEW d \in Content PROVE NamedOk(s, d)'
  <2>1. CASE d = c BY <1>2, <1>5, <2>1 DEF NamedOk
  <2>2. CASE d # c
    <3>1. content'[d] = content[d] BY <1>2, <2>2
    <3>2. CASE s \in snaps
      <4>1. NamedOk(s, d) BY <3>2 DEF SafeInv, NamesOk
      <4> QED BY <3>1, <4>1 DEF NamedOk
    <3>3. CASE s \notin snaps BY <1>4, <3>1, <3>3 DEF NamedOk
    <3> QED BY <3>2, <3>3
  <2> QED BY <2>1, <2>2
<1>10. ASSUME NEW l \in late' PROVE LateOk(l)'
  <2>1. CASE l \in late
    <3>1. LateOk(l) BY <2>1 DEF SafeInv, LatesOk
    <3>2. l.content \in Content BY <1>1, <2>1 DEF Typed
    <3>3. CASE l.content = c BY <1>2, <3>1, <3>3 DEF LateOk
    <3>4. CASE l.content # c
      <4>1. content'[l.content] = content[l.content] BY <1>2, <3>2, <3>4
      <4> QED BY <3>1, <4>1 DEF LateOk
    <3> QED BY <3>3, <3>4
  <2>2. CASE l \notin late
    <3>1. l = [op |-> "checkpoint", content |-> c, id |-> faults] BY <2>2
    <3>2. l.op = "checkpoint" /\ l.content = c BY <3>1
    <3> QED BY <1>2, <3>2 DEF LateOk
  <2> QED BY <2>1, <2>2
<1>11. \A d \in Content : content[d].st \in Answered => content'[d] = content[d] BY <1>2, <1>5
<1>12. ContentsOk' /\ SnapshotsOk' /\ NamesOk' /\ LatesOk'
  BY <1>7, <1>8, <1>9, <1>10 DEF ContentsOk, SnapshotsOk, NamesOk, LatesOk
<1> QED BY <1>2, <1>3, <1>6, <1>11, <1>12, SnapshotStep

(* The volume CreateSnapshot finds by an ID. *)
LEMMA SnapshotSource ==
    ASSUME SafeInv, NEW v \in Volume, pv[v].st = "bound", SourcePath(pv[v].id) \in Path
    PROVE  /\ SourcePath(pv[v].id) = pv[v].path /\ pv[v].path \in Path
           /\ OnVhdx(pv[v].class) /\ ~BareIPv6(pv[v].class)
<1>1. Origin(v, pv[v]) BY DEF SafeInv, VolumesOk, VolumeOk
<1> QED BY <1>1, Sources, NoEmptyPath

(* The checkpoint of CreateSnapshot keeps the invariant, whether its script *)
(* ends, fails or is given up on.                                           *)
LEMMA SafeCreateSnapshot ==
    ASSUME SafeInv, NEW c \in Content, NEW v \in Volume, CreateSnapshot(c, v)
    PROVE  SafeInv'
<1>1. PICK p, x : p = SourcePath(pv[v].id) /\ x = disk[p].data OBVIOUS
<1>2. PICK k, st :
        /\ st \in {"taking", "failed"}
        /\ k = [content[c] EXCEPT !.st = st, !.vol = v,
                                  !.from = IF content[c].st = "none" THEN x ELSE @]
        /\ pv[v].st = "bound" /\ p \in Path
        /\ content[c].st = "none" \/ (content[c].st = "failed" /\ content[c].vol = v)
        /\ content' = [content EXCEPT ![c] = k]
        /\ (\E listed \in BOOLEAN : Checkpoint(p, c, listed)) \/ UNCHANGED <<snaps, clock>>
        /\ late' \subseteq late \cup {[op |-> "checkpoint", content |-> c, id |-> faults]}
        /\ UNCHANGED faults \/ Fault
        /\ UNCHANGED <<disk, share, pv>>
  <2> DEFINE started(st) == [content[c] EXCEPT !.st = st, !.vol = v,
                               !.from = IF content[c].st = "none" THEN x ELSE @]
  <2>1. /\ pv[v].st = "bound" /\ p \in Path
        /\ content[c].st = "none" \/ (content[c].st = "failed" /\ content[c].vol = v)
        /\ \/ /\ \E listed \in BOOLEAN : Checkpoint(p, c, listed)
              /\ content' = [content EXCEPT ![c] = started("taking")]
              /\ UNCHANGED <<late, faults>>
           \/ /\ Fault /\ content' = [content EXCEPT ![c] = started("failed")]
              /\ \/ Checkpoint(p, c, TRUE) /\ UNCHANGED late
                 \/ UNCHANGED <<snaps, clock, late>>
                 \/ late' = late \cup {[op |-> "checkpoint", content |-> c, id |-> faults]}
                    /\ UNCHANGED <<snaps, clock>>
        /\ UNCHANGED <<disk, share, pv>>
    BY <1>1 DEF CreateSnapshot
  <2>2. PICK a, b : a = started("taking") /\ b = started("failed") OBVIOUS
  <2> HIDE DEF started
  <2>3. (content' = [content EXCEPT ![c] = a]) \/ (content' = [content EXCEPT ![c] = b])
    BY <2>1, <2>2
  <2>4. UNCHANGED faults \/ Fault BY <2>1
  <2>5. (\E listed \in BOOLEAN : Checkpoint(p, c, listed)) \/ UNCHANGED <<snaps, clock>> BY <2>1
  <2>6. late' \subseteq late \cup {[op |-> "checkpoint", content |-> c, id |-> faults]} BY <2>1
  <2>7. PICK st \in {"taking", "failed"} : content' = [content EXCEPT ![c] = started(st)] BY <2>2, <2>3
  <2> QED BY <2>1, <2>4, <2>5, <2>6, <2>7 DEF started
<1>3. p = pv[v].path /\ OnVhdx(pv[v].class) /\ ~BareIPv6(pv[v].class)
  BY <1>1, <1>2, SnapshotSource
<1>4. content[c] \in ContentType /\ x \in 0..MaxWrites /\ x \in Nat
  BY <1>1, <1>2, ContentTypes, DiskTypes DEF SafeInv
<1>5. ContentOk(c) BY DEF SafeInv, ContentsOk
<1>6. PICK y, from : y = content[c] /\ from = (IF y.st = "none" THEN x ELSE y.from) OBVIOUS
<1>7. /\ y \in ContentType /\ k = [y EXCEPT !.st = st, !.vol = v, !.from = from]
  BY <1>2, <1>4, <1>6
<1>8. /\ y.from \in 0..MaxWrites /\ y.upto \in 0..MaxWrites /\ y.id \in Nat /\ y.path \in Path \cup {""}
      /\ y = [st |-> y.st, vol |-> y.vol, from |-> y.from, upto |-> y.upto, id |-> y.id, path |-> y.path]
  BY <1>7 DEF ContentType
<1>9. k = [st |-> st, vol |-> v, from |-> from, upto |-> y.upto, id |-> y.id, path |-> y.path]
  BY <1>7, <1>8
<1>10. from \in 0..MaxWrites BY <1>4, <1>6, <1>8
<1>11. k \in ContentType
  <2>1. st \in {"none", "failed", "taking", "made", "doomed", "gone"} /\ v \in Volume \cup {""}
    BY <1>2
  <2>2. PICK upto, id, path : upto = y.upto /\ id = y.id /\ path = y.path OBVIOUS
  <2>3. upto \in 0..MaxWrites /\ id \in Nat /\ path \in Path \cup {""} BY <1>8, <2>2
  <2>4. [st |-> st, vol |-> v, from |-> from, upto |-> upto, id |-> id, path |-> path]
           \in ContentType
    BY <1>10, <2>1, <2>3, ContentRecord
  <2> QED BY <1>9, <2>2, <2>4
<1>12. k.st = st /\ k.vol = v /\ k.from = from /\ k.id = y.id BY <1>9
<1>13. k.id = 0 BY <1>2, <1>5, <1>6, <1>12 DEF ContentOk, Answered
<1>14. k.from <= disk[pv[v].path].data
  <2>1. CASE y.st = "none" BY <1>1, <1>3, <1>4, <1>6, <1>12, <2>1, Reflexive
  <2>2. CASE y.st # "none" BY <1>2, <1>5, <1>6, <1>12, <2>2 DEF ContentOk
  <2> QED BY <2>1, <2>2
<1>15. UNCHANGED <<snaps, clock>> \/ \E n : Fresh(n, pv[v].path, c) BY <1>2, <1>3, Taken
<1>16. content[c].st = "failed" => content[c].vol = v /\ k.from = content[c].from
  BY <1>2, <1>6, <1>12
<1> QED BY <1>2, <1>3, <1>11, <1>12, <1>13, <1>14, <1>15, <1>16, Attempt

(* Kubernetes stores something new about a snapshot. *)
LEMMA NewContent ==
    ASSUME SafeInv, UNCHANGED <<disk, share, pv, clock>>, snaps' \subseteq snaps,
           NEW c \in Content, content[c].st # "none",
           NEW k \in ContentType, k.st # "none", k.vol = content[c].vol, k.from = content[c].from,
           content' = [content EXCEPT ![c] = k],
           content[c].st \in Answered => k.st \in Answered /\ k.upto = content[c].upto,
           k.st \in {"failed", "taking"} => content[c].st \in {"failed", "taking"},
           ContentOk(c)', \A s \in snaps' : NamedOk(s, c)',
           \A d \in Content : d # c /\ content[d].st = "made" =>
              \A s \in snaps : s.id = content[d].id => s \in snaps',
           late' \subseteq [op : {"checkpoint", "remove"}, content : Content, id : Nat],
           LatesOk', UNCHANGED faults \/ Fault
    PROVE  SafeInv'
<1>1. Typed BY DEF SafeInv
<1>2. /\ content' \in [Content -> ContentType] /\ content'[c] = k
      /\ \A d \in Content : d # c => content'[d] = content[d]
  BY <1>1 DEF Typed
<1>3. clock' \in Nat /\ snaps' \subseteq SnapType(clock') /\ \A i \in 1..clock : i \in 1..clock'
  BY <1>1 DEF Typed
<1>4. ASSUME NEW d \in Content PROVE ContentOk(d)'
  <2>1. CASE d = c BY <2>1
  <2>2. CASE d # c BY <1>2, <1>3, <2>2, ContentStays
  <2> QED BY <2>1, <2>2
<1>5. ASSUME NEW s \in snaps' PROVE SnapshotOk(s)'
  <2>1. SnapshotOk(s) /\ s.description \in Content BY <1>1, SnapTypes DEF SafeInv, SnapshotsOk
  <2>2. CASE s.description = c BY <1>2, <2>1, <2>2 DEF SnapshotOk
  <2>3. CASE s.description # c BY <1>2, <2>1, <2>3 DEF SnapshotOk
  <2> QED BY <2>2, <2>3
<1>6. ASSUME NEW s \in snaps', NEW d \in Content PROVE NamedOk(s, d)'
  <2>1. CASE d = c BY <2>1
  <2>2. CASE d # c
    <3>1. content'[d] = content[d] /\ NamedOk(s, d) BY <1>2, <2>2 DEF SafeInv, NamesOk
    <3> QED BY <3>1 DEF NamedOk
  <2> QED BY <2>1, <2>2
<1>7. UniqueIds' BY DEF SafeInv, UniqueIds
<1>8. \A d \in Content : content[d].st \in Answered =>
         /\ content'[d].st \in Answered
         /\ content'[d].from = content[d].from /\ content'[d].upto = content[d].upto
  BY <1>2
<1>9. ContentsOk' /\ SnapshotsOk' /\ NamesOk'
  BY <1>4, <1>5, <1>6 DEF ContentsOk, SnapshotsOk, NamesOk
<1> QED BY <1>2, <1>3, <1>7, <1>8, <1>9, SnapshotStep

(* What the script finds is a snapshot of this name and of this disk. *)
LEMMA FoundFacts ==
    ASSUME SafeInv, NEW c \in Content, content[c].st = "taking"
    PROVE  /\ content[c].vol \in Volume
           /\ SourcePath(pv[content[c].vol].id) = pv[content[c].vol].path
           /\ pv[content[c].vol].path \in Path
           /\ Found(c) = {s \in snaps : /\ s.path = pv[content[c].vol].path
                                        /\ s.description = c /\ s.listed}
<1>1. ContentOk(c) BY DEF SafeInv, ContentsOk
<1>2. /\ content[c].vol \in Volume /\ pv[content[c].vol].st # "none"
      /\ OnVhdx(pv[content[c].vol].class) /\ ~BareIPv6(pv[content[c].vol].class)
      /\ pv[content[c].vol].path \in Path
  BY <1>1 DEF ContentOk
<1>3. Origin(content[c].vol, pv[content[c].vol]) BY <1>2 DEF SafeInv, VolumesOk, VolumeOk
<1>4. SourcePath(pv[content[c].vol].id) = pv[content[c].vol].path BY <1>2, <1>3, Sources
<1> QED BY <1>2, <1>4 DEF Found

(* The search of CreateSnapshot keeps the invariant: what it answers with   *)
(* is no older than the first request.                                      *)
LEMMA SafeFindSnapshot ==
    ASSUME SafeInv, NEW c \in Content, FindSnapshot(c)
    PROVE  SafeInv'
<1>1. PICK y, v, p : y = content[c] /\ v = y.vol /\ p = SourcePath(pv[v].id) OBVIOUS
<1>2. /\ y.st = "taking" /\ UNCHANGED <<disk, share, snaps, pv, late, clock>>
      /\ \/ /\ Found(c) # {}
            /\ content' = [content EXCEPT ![c] =
                             [@ EXCEPT !.st = "made", !.id = Newest(Found(c)).id,
                                !.path = p, !.upto = disk[p].data]]
            /\ UNCHANGED faults
         \/ Fault /\ content' = [content EXCEPT ![c].st = "failed"]
  BY <1>1 DEF FindSnapshot
<1>3. /\ v \in Volume /\ p = pv[v].path /\ p \in Path
      /\ Found(c) = {s \in snaps : s.path = p /\ s.description = c /\ s.listed}
  BY <1>1, <1>2, FoundFacts
<1>4. Typed /\ ContentOk(c) BY DEF SafeInv, ContentsOk
<1>5. y \in ContentType BY <1>1, <1>4, ContentTypes
<1>6. /\ y.from \in 0..MaxWrites /\ y.upto \in 0..MaxWrites /\ y.id \in Nat /\ y.path \in Path \cup {""}
      /\ y = [st |-> y.st, vol |-> v, from |-> y.from, upto |-> y.upto, id |-> y.id, path |-> y.path]
  BY <1>1, <1>5 DEF ContentType
<1>7. PICK from, upto, id, path : from = y.from /\ upto = y.upto /\ id = y.id /\ path = y.path OBVIOUS
<1>8. /\ from \in 0..MaxWrites /\ upto \in 0..MaxWrites /\ id \in Nat /\ path \in Path \cup {""}
  BY <1>6, <1>7
<1>y. y = [st |-> y.st, vol |-> v, from |-> from, upto |-> upto, id |-> id, path |-> path]
  BY <1>6, <1>7
<1>9. content \in [Content -> ContentType] BY <1>4 DEF Typed
<1>10. /\ pv[v].st = "bound" /\ OnVhdx(pv[v].class) /\ ~BareIPv6(pv[v].class)
       /\ from <= disk[p].data /\ id = 0
  BY <1>1, <1>2, <1>3, <1>4, <1>7 DEF ContentOk, Answered
<1>11. ASSUME NEW k, k.st # "none", content' = [content EXCEPT ![c] = k] PROVE LatesOk'
  <2>1. content'[c] = k /\ \A d \in Content : d # c => content'[d] = content[d] BY <1>9, <1>11
  <2> SUFFICES ASSUME NEW l \in late PROVE LateOk(l)' BY <1>2 DEF LatesOk
  <2>2. LateOk(l) /\ l.content \in Content BY <1>4 DEF SafeInv, LatesOk, Typed
  <2>3. CASE l.content = c BY <1>1, <1>2, <1>11, <2>1, <2>2, <2>3 DEF LateOk
  <2>4. CASE l.content # c BY <2>1, <2>2, <2>4 DEF LateOk
  <2> QED BY <2>3, <2>4
<1>12. late' \subseteq [op : {"checkpoint", "remove"}, content : Content, id : Nat]
  BY <1>2, <1>4 DEF Typed
<1>13. v \in Volume \cup {""} /\ y.st \notin Answered BY <1>2, <1>3 DEF Answered
<1>14. CASE Found(c) # {} /\ content' = [content EXCEPT ![c] =
                             [@ EXCEPT !.st = "made", !.id = Newest(Found(c)).id,
                                !.path = p, !.upto = disk[p].data]] /\ UNCHANGED faults
  <2>1. PICK f : f = Newest(Found(c)) OBVIOUS
  <2>2. Found(c) \subseteq snaps BY <1>3
  <2>3. f \in Found(c) BY <1>14, <2>1, <2>2, NewestIs
  <2>4. f \in snaps /\ f.path = p /\ f.description = c /\ f.listed BY <1>3, <2>3
  <2>5. PICK data, i : data = disk[p].data /\ i = f.id OBVIOUS
  <2>6. data \in 0..MaxWrites /\ i \in 1..clock /\ i \in Nat
    BY <1>3, <1>4, <2>4, <2>5, DiskTypes, SnapTypes
  <2>7. PICK k : k = [y EXCEPT !.st = "made", !.id = i, !.path = p, !.upto = data] OBVIOUS
  <2>8. content' = [content EXCEPT ![c] = k] BY <1>1, <1>9, <1>14, <2>1, <2>5, <2>7
  <2>9. p \in Path \cup {""} /\ "made" \in {"none", "failed", "taking", "made", "doomed", "gone"}
    BY <1>3
  <2>10. k \in ContentType BY <1>5, <2>6, <2>7, <2>9 DEF ContentType
  <2>f. k.st = "made" /\ k.id = i /\ k.path = p /\ k.upto = data /\ k.vol = y.vol /\ k.from = y.from
    BY <1>5, <2>7 DEF ContentType
  <2>11. k.st = "made" /\ k.vol = v /\ k.from = from /\ k.upto = data /\ k.id = i /\ k.path = p
    BY <1>1, <1>7, <2>f
  <2>12. content'[c] = k BY <1>9, <2>8
  <2>13. k.st \in Answered /\ k.st \notin {"failed", "taking"} BY <2>11 DEF Answered
  <2>14. ContentOk(c)'
    <3>1. pv' = pv /\ disk' = disk /\ snaps' = snaps /\ clock' = clock BY <1>2
    <3>2. \E s \in snaps' : s.id = k.id BY <2>4, <2>5, <2>11, <3>1
    <3> QED BY <1>3, <1>10, <2>6, <2>11, <2>12, <2>13, <3>1, <3>2 DEF ContentOk
  <2>15. SnapshotOk(f) BY <2>4 DEF SafeInv, SnapshotsOk
  <2>16. from <= f.data /\ f.data <= data
    BY <1>1, <1>2, <1>7, <2>4, <2>5, <2>15 DEF SnapshotOk
  <2>17. ASSUME NEW s \in snaps' PROVE NamedOk(s, c)'
    <3>1. s.id = i => s = f BY <1>2, <2>4, <2>5 DEF SafeInv, UniqueIds
    <3> QED BY <2>4, <2>11, <2>12, <2>16, <3>1 DEF NamedOk
  <2>18. LatesOk' BY <1>11, <2>8, <2>11
  <2> QED BY <1>1, <1>2, <1>7, <1>12, <1>13, <1>14, <2>8, <2>10, <2>11, <2>13, <2>14, <2>17, <2>18,
             NewContent
<1>15. CASE Fault /\ content' = [content EXCEPT ![c].st = "failed"]
  <2>1. PICK k : k = [y EXCEPT !.st = "failed"] OBVIOUS
  <2>2. content' = [content EXCEPT ![c] = k] BY <1>1, <1>9, <1>15, <2>1
  <2>3. k = [st |-> "failed", vol |-> v, from |-> from, upto |-> upto, id |-> id, path |-> path]
    BY ONLY <1>y, <2>1
  <2>4. k \in ContentType BY <1>8, <1>13, <2>3, ContentRecord
  <2>5. k.st = "failed" /\ k.vol = v /\ k.from = from /\ k.id = id BY <2>3
  <2>6. content'[c] = k BY <1>9, <2>2
  <2>7. k.st \notin Answered BY <2>5 DEF Answered
  <2>8. ContentOk(c)'
    <3>1. pv' = pv /\ disk' = disk BY <1>2
    <3> QED BY <1>3, <1>10, <2>5, <2>6, <2>7, <3>1 DEF ContentOk
  <2>9. \A s \in snaps' : NamedOk(s, c)' BY <2>6, <2>7 DEF NamedOk
  <2>10. LatesOk' BY <1>11, <2>2, <2>5
  <2> QED BY <1>1, <1>2, <1>7, <1>12, <1>13, <1>15, <2>2, <2>4, <2>5, <2>8, <2>9, <2>10, NewContent
<1> QED BY <1>2, <1>14, <1>15

(* A snapshot that comes to be listed keeps the invariant. *)
LEMMA SafeListed ==
    ASSUME SafeInv, NEW s \in snaps, Listed(s)
    PROVE  SafeInv'
<1>1. PICK t : t = [s EXCEPT !.listed = TRUE] OBVIOUS
<1>2. /\ ~s.listed /\ snaps' = (snaps \ {s}) \cup {t}
      /\ UNCHANGED <<disk, share, pv, content, late, clock, faults>>
  BY <1>1 DEF Listed
<1>3. Typed /\ s \in SnapType(clock) BY SnapTypes DEF SafeInv
<1>4. t \in SnapType(clock) BY <1>1, <1>3 DEF SnapType
<1>5. /\ t.id = s.id /\ t.path = s.path /\ t.description = s.description /\ t.data = s.data
  BY <1>1, <1>3 DEF SnapType
<1>6. /\ snaps' \subseteq SnapType(clock') /\ clock' \in Nat
      /\ content' \in [Content -> ContentType]
      /\ late' \subseteq [op : {"checkpoint", "remove"}, content : Content, id : Nat]
  BY <1>2, <1>3, <1>4 DEF Typed
<1>7. ASSUME NEW d \in Content PROVE ContentOk(d)'
  <2>1. \A i \in 1..clock : i \in 1..clock' BY <1>2
  <2>2. \A u \in snaps : \E w \in snaps' : w.id = u.id BY <1>2, <1>5
  <2> QED BY <1>2, <2>1, <2>2, ContentStays
<1>8. ASSUME NEW u \in snaps' PROVE SnapshotOk(u)'
  <2>1. SnapshotOk(s) /\ (u \in snaps => SnapshotOk(u)) BY DEF SafeInv, SnapshotsOk
  <2>2. CASE u = t BY <1>2, <1>5, <2>1, <2>2 DEF SnapshotOk
  <2>3. CASE u # t BY <1>2, <2>1, <2>3 DEF SnapshotOk
  <2> QED BY <2>2, <2>3
<1>9. ASSUME NEW u \in snaps', NEW d \in Content PROVE NamedOk(u, d)'
  <2>1. NamedOk(s, d) /\ (u \in snaps => NamedOk(u, d)) BY DEF SafeInv, NamesOk
  <2>2. CASE u = t BY <1>2, <1>5, <2>1, <2>2 DEF NamedOk
  <2>3. CASE u # t BY <1>2, <2>1, <2>3 DEF NamedOk
  <2> QED BY <2>2, <2>3
<1>10. UniqueIds' BY <1>2, <1>5 DEF SafeInv, UniqueIds
<1>11. LatesOk' BY <1>2 DEF SafeInv, LatesOk, LateOk
<1>12. ContentsOk' /\ SnapshotsOk' /\ NamesOk'
  BY <1>7, <1>8, <1>9 DEF ContentsOk, SnapshotsOk, NamesOk
<1> QED BY <1>2, <1>6, <1>10, <1>11, <1>12, SnapshotStep

(* Removing the snapshot of one name leaves the ones of other names. *)
LEMMA OthersStay ==
    ASSUME SafeInv, NEW c \in Content, content[c].st \in Answered, RemoveSnapshot(content[c].id),
           NEW d \in Content, d # c, content[d].st = "made",
           NEW s \in snaps, s.id = content[d].id
    PROVE  s \in snaps'
<1>1. NamedOk(s, c) /\ NamedOk(s, d) BY DEF SafeInv, NamesOk
<1>2. s.description = d BY <1>1 DEF NamedOk, Answered
<1>3. s.id # content[c].id BY <1>1, <1>2 DEF NamedOk
<1> QED BY <1>3 DEF RemoveSnapshot

(* DeleteSnapshot keeps the invariant, also when its script fails. *)
LEMMA SafeDeleteSnapshot ==
    ASSUME SafeInv, NEW c \in Content, DeleteSnapshot(c)
    PROVE  SafeInv'
<1>1. PICK y, i : y = content[c] /\ i = y.id OBVIOUS
<1>2. PICK st \in {"gone", "doomed"} :
        /\ y.st \in {"made", "doomed"} /\ content' = [content EXCEPT ![c].st = st]
        /\ RemoveSnapshot(i) \/ UNCHANGED snaps
        /\ \/ UNCHANGED late
           \/ late' = late \cup {[op |-> "remove", content |-> c, id |-> i]}
        /\ UNCHANGED faults \/ Fault
        /\ UNCHANGED <<disk, share, pv, clock>>
  BY <1>1 DEF DeleteSnapshot
<1>3. Typed /\ ContentOk(c) BY DEF SafeInv, ContentsOk
<1>4. y \in ContentType /\ content \in [Content -> ContentType] BY <1>1, <1>3, ContentTypes DEF Typed
<1>5. PICK k : k = [y EXCEPT !.st = st] OBVIOUS
<1>6. content' = [content EXCEPT ![c] = k] BY <1>1, <1>2, <1>4, <1>5
<1>7. k \in ContentType BY <1>2, <1>4, <1>5 DEF ContentType
<1>8. /\ k.st = st /\ k.vol = y.vol /\ k.from = y.from /\ k.upto = y.upto /\ k.id = y.id
      /\ k.path = y.path
  BY <1>4, <1>5 DEF ContentType
<1>9. content'[c] = k /\ \A d \in Content : d # c => content'[d] = content[d] BY <1>4, <1>6
<1>10. snaps' \subseteq snaps BY <1>2 DEF RemoveSnapshot
<1>11. /\ y.st \in Answered /\ k.st \in Answered /\ k.st \notin {"none", "failed", "taking", "made"}
       /\ k.st \in {"doomed", "gone"} /\ y.st # "none"
  BY <1>2, <1>8 DEF Answered
<1>12. ContentOk(c)'
  <2>1. /\ y.vol \in Volume /\ pv[y.vol].st # "none"
        /\ OnVhdx(pv[y.vol].class) /\ ~BareIPv6(pv[y.vol].class) /\ pv[y.vol].path \in Path
        /\ y.id \in 1..clock /\ y.path = pv[y.vol].path
    BY <1>1, <1>3, <1>11 DEF ContentOk
  <2>2. pv' = pv /\ clock' = clock BY <1>2
  <2> QED BY <1>8, <1>9, <1>11, <2>1, <2>2 DEF ContentOk
<1>13. ASSUME NEW s \in snaps' PROVE NamedOk(s, c)'
  <2>1. NamedOk(s, c) BY <1>10 DEF SafeInv, NamesOk
  <2> QED BY <1>1, <1>8, <1>9, <1>11, <2>1 DEF NamedOk
<1>14. ASSUME NEW d \in Content, d # c, content[d].st = "made",
              NEW s \in snaps, s.id = content[d].id
       PROVE  s \in snaps'
  BY <1>1, <1>2, <1>11, <1>14, OthersStay
<1>15. PICK new : new = [op |-> "remove", content |-> c, id |-> i] OBVIOUS
<1>16. i \in Nat BY <1>1, <1>3, ContentTypes
<1>17. new \in [op : {"checkpoint", "remove"}, content : Content, id : Nat] BY <1>15, <1>16
<1>18. new.op = "remove" /\ new.content = c /\ new.id = i BY <1>15
<1>19. late' \subseteq late \cup {new} BY <1>2, <1>15
<1>20. late' \subseteq [op : {"checkpoint", "remove"}, content : Content, id : Nat]
  BY <1>3, <1>17, <1>19 DEF Typed
<1>21. ASSUME NEW l \in late' PROVE LateOk(l)'
  <2>1. CASE l \in late
    <3>1. LateOk(l) /\ l.content \in Content BY <1>3, <2>1 DEF SafeInv, LatesOk, Typed
    <3>2. CASE l.content = c BY <1>1, <1>8, <1>9, <1>11, <3>1, <3>2 DEF LateOk
    <3>3. CASE l.content # c BY <1>9, <3>1, <3>3 DEF LateOk
    <3> QED BY <3>2, <3>3
  <2>2. CASE l = new BY <1>1, <1>8, <1>9, <1>11, <1>18, <2>2 DEF LateOk
  <2> QED BY <1>19, <2>1, <2>2
<1>22. LatesOk' BY <1>21 DEF LatesOk
<1> QED BY <1>1, <1>2, <1>6, <1>7, <1>8, <1>10, <1>11, <1>12, <1>13, <1>14, <1>20, <1>22, NewContent

(* A script that ends after the driver gave up on it keeps the invariant. *)
LEMMA SafeLateScript ==
    ASSUME SafeInv, NEW l \in late, LateScript(l)
    PROVE  SafeInv'
<1>1. Typed /\ LateOk(l) BY DEF SafeInv, LatesOk
<1>2. PICK c \in Content : c = l.content BY <1>1 DEF Typed
<1>3. PICK p : p = pv[content[c].vol].path OBVIOUS
<1>4. /\ late' = late \ {l} /\ UNCHANGED <<disk, share, pv, content, faults>>
      /\ \/ l.op = "remove" /\ RemoveSnapshot(l.id) /\ UNCHANGED clock
         \/ l.op = "checkpoint" /\ (Checkpoint(p, c, TRUE) \/ UNCHANGED <<snaps, clock>>)
  BY <1>2, <1>3 DEF LateScript
<1>5. LatesOk' BY <1>4 DEF SafeInv, LatesOk, LateOk
<1>6. /\ content' \in [Content -> ContentType]
      /\ late' \subseteq [op : {"checkpoint", "remove"}, content : Content, id : Nat]
  BY <1>1, <1>4 DEF Typed
<1>7. CASE l.op = "remove" /\ RemoveSnapshot(l.id) /\ UNCHANGED clock
  <2>1. content[c].st \in {"doomed", "gone"} /\ l.id = content[c].id BY <1>1, <1>2, <1>7 DEF LateOk
  <2>2. content[c].st \in Answered /\ content[c].st # "made" /\ RemoveSnapshot(content[c].id)
    BY <1>7, <2>1 DEF Answered
  <2>3. snaps' \subseteq snaps /\ clock' = clock BY <1>7 DEF RemoveSnapshot
  <2>4. clock' \in Nat /\ snaps' \subseteq SnapType(clock') BY <1>1, <2>3 DEF Typed
  <2>5. ASSUME NEW d \in Content PROVE ContentOk(d)'
    <3>1. content[d].st = "made" => \A s \in snaps : s.id = content[d].id => s \in snaps'
      BY <2>2, OthersStay
    <3> QED BY <1>4, <2>3, <3>1, ContentStays
  <2>6. ContentsOk' BY <2>5 DEF ContentsOk
  <2>7. SnapshotsOk' /\ NamesOk' /\ UniqueIds'
    BY <1>4, <2>3 DEF SafeInv, SnapshotsOk, SnapshotOk, NamesOk, NamedOk, UniqueIds
  <2> QED BY <1>4, <1>5, <1>6, <2>4, <2>6, <2>7, SnapshotStep
<1>8. CASE l.op = "checkpoint" /\ Checkpoint(p, c, TRUE)
  <2>1. PICK n : Fresh(n, p, c) BY <1>8, Taken
  <2>2. /\ clock' \in Nat /\ snaps' \subseteq SnapType(clock')
        /\ \A i \in 1..clock : i \in 1..clock'
        /\ \A d \in Content : content[d].st \in Answered => content[d].id # n.id
        /\ UniqueIds'
    BY <2>1, FreshFacts
  <2>3. /\ snaps' = snaps \cup {n} /\ n.path = p /\ n.description = c /\ n.data = disk[p].data
    BY <2>1 DEF Fresh
  <2>4. content[c].st # "none" /\ ContentOk(c) BY <1>1, <1>2, <1>8 DEF LateOk, SafeInv, ContentsOk
  <2>5. p \in Path /\ (content[c].st \in {"failed", "taking"} => content[c].from <= disk[p].data)
    BY <1>3, <2>4 DEF ContentOk
  <2>6. n.data <= disk[p].data BY <1>1, <2>3, <2>5, DiskTypes, Reflexive
  <2>7. ASSUME NEW d \in Content PROVE ContentOk(d)' BY <1>4, <2>2, <2>3, ContentStays
  <2>8. ASSUME NEW s \in snaps' PROVE SnapshotOk(s)'
    <3>1. CASE s \in snaps
      <4>1. SnapshotOk(s) BY <3>1 DEF SafeInv, SnapshotsOk
      <4> QED BY <1>4, <4>1 DEF SnapshotOk
    <3>2. CASE s = n BY <1>3, <1>4, <2>3, <2>4, <2>5, <2>6, <3>2 DEF SnapshotOk
    <3> QED BY <2>3, <3>1, <3>2
  <2>9. ASSUME NEW s \in snaps', NEW d \in Content PROVE NamedOk(s, d)'
    <3>1. CASE s \in snaps
      <4>1. NamedOk(s, d) BY <3>1 DEF SafeInv, NamesOk
      <4> QED BY <1>4, <4>1 DEF NamedOk
    <3>2. CASE s = n BY <1>4, <2>2, <3>2 DEF NamedOk
    <3> QED BY <2>3, <3>1, <3>2
  <2>10. ContentsOk' /\ SnapshotsOk' /\ NamesOk'
    BY <2>7, <2>8, <2>9 DEF ContentsOk, SnapshotsOk, NamesOk
  <2> QED BY <1>4, <1>5, <1>6, <2>2, <2>10, SnapshotStep
<1>9. CASE UNCHANGED <<snaps, clock>>
  <2>1. ContentsOk' /\ SnapshotsOk' /\ NamesOk' /\ UniqueIds'
    BY <1>4, <1>9 DEF SafeInv, ContentsOk, ContentOk, SnapshotsOk, SnapshotOk, NamesOk, NamedOk,
                      UniqueIds
  <2>2. clock' \in Nat /\ snaps' \subseteq SnapType(clock') BY <1>1, <1>9 DEF Typed
  <2> QED BY <1>4, <1>5, <1>6, <2>1, <2>2, SnapshotStep
<1> QED BY <1>4, <1>7, <1>8, <1>9

-----------------------------------------------------------------------------

(* The invariant holds at the start. *)
LEMMA SafeInit == Init => SafeInv
<1> SUFFICES ASSUME Init PROVE SafeInv OBVIOUS
<1>1. \A v \in Volume : pv[v] = NoVolume BY DEF Init
<1>2. \A c \in Content : content[c] = NoSnapshot BY DEF Init
<1>3. snaps = {} /\ late = {} /\ share = {} /\ clock = 0 /\ faults = 0 BY DEF Init
<1>4. /\ NoVolume.st = "none" /\ NoVolume.path = "" /\ NoVolume.base = ""
      /\ NoVolume.cap = 0 /\ NoVolume.born = 0 /\ NoVolume.known = FALSE
      /\ NoVolume.range.required = 0 /\ NoVolume.range.limit = 0
  BY DEF NoVolume
<1>5. PvRecord(NoVolume) BY DEF PvRecord, NoVolume
<1>6. NoSnapshot \in ContentType
  <2>1. "" \in Volume \cup {""} /\ "" \in Path \cup {""} OBVIOUS
  <2> QED BY <2>1, Ranges, ContentRecord DEF NoSnapshot
<1>7. NoSnapshot.st = "none" /\ NoSnapshot.id = 0 BY DEF NoSnapshot
<1>8. NoDisk \in DiskRecord BY Ranges DEF NoDisk, DiskRecord
<1>9. PvShape(NoVolume) BY <1>4, <1>5, Ranges DEF PvShape
<1>10. Typed
  <2>1. 0 \in 0..MaxFaults /\ 0 \in Nat BY BoundAssumption
  <2>2. disk \in [Path -> DiskRecord] BY <1>8 DEF Init
  <2>3. pv = [v \in Volume |-> pv[v]] BY DEF Init
  <2>4. content \in [Content -> ContentType] BY <1>6 DEF Init
  <2> QED BY <1>1, <1>3, <1>9, <2>1, <2>2, <2>3, <2>4 DEF Typed
<1>11. VolumesOk /\ RestoresOk BY <1>1, <1>3, <1>4 DEF VolumesOk, VolumeOk, RestoresOk, RestoredOk
<1>12. OwnPaths BY <1>1, <1>4, NoEmptyPath DEF OwnPaths
<1>13. ContentsOk BY <1>2, <1>7 DEF ContentsOk, ContentOk, Answered
<1>14. SnapshotsOk /\ NamesOk /\ UniqueIds /\ LatesOk
  BY <1>3 DEF SnapshotsOk, NamesOk, UniqueIds, LatesOk
<1> QED BY <1>10, <1>11, <1>12, <1>13, <1>14 DEF SafeInv

(* A step that changes nothing keeps it. *)
LEMMA SafeStutter == SafeInv /\ UNCHANGED vars => SafeInv'
<1> SUFFICES ASSUME SafeInv, UNCHANGED vars PROVE SafeInv' OBVIOUS
<1>1. UNCHANGED <<disk, share, snaps, pv, content, late, clock, faults>> BY DEF vars
<1>2. Typed' BY <1>1 DEF SafeInv, Typed
<1>3. VolumesOk' /\ OwnPaths' BY <1>1 DEF SafeInv, VolumesOk, VolumeOk, OwnPaths
<1>4. RestoresOk' BY <1>1 DEF SafeInv, RestoresOk, RestoredOk
<1>5. ContentsOk' BY <1>1 DEF SafeInv, ContentsOk, ContentOk
<1>6. SnapshotsOk' BY <1>1 DEF SafeInv, SnapshotsOk, SnapshotOk
<1>7. NamesOk' /\ UniqueIds' BY <1>1 DEF SafeInv, NamesOk, NamedOk, UniqueIds
<1>8. LatesOk' BY <1>1 DEF SafeInv, LatesOk, LateOk
<1> QED BY <1>2, <1>3, <1>4, <1>5, <1>6, <1>7, <1>8 DEF SafeInv

(* Every step keeps the invariant. *)
LEMMA SafeNext == SafeInv /\ [Next]_vars => SafeInv'
<1> SUFFICES ASSUME SafeInv, Next PROVE SafeInv' BY SafeStutter
<1>1. CASE \E v \in Volume : \E r \in Claim[v] : r.source = "empty" /\ CreateVolume(v, r.class, r.range)
  BY <1>1, SafeCreateVolume
<1>2. CASE \E v \in Volume : \E class \in Imported[v] : Import(v, class)
  BY <1>2, SafeImport
<1>3. CASE \E v \in Volume : \E r \in Claim[v], c \in Content :
              r.source = "snapshot" /\ CreateVolumeFrom(v, r.class, r.range, c)
  BY <1>3, SafeCreateVolumeFrom
<1>4. CASE \E v \in Volume : Write(v)
  BY <1>4, SafeWrite
<1>5. CASE \E v \in Volume : \E want \in 1..MaxSize : ControllerExpandVolume(v, want)
  BY <1>5, SafeExpand
<1>6. CASE \E v \in Volume : DeleteVolume(v)
  BY <1>6, SafeDeleteVolume
<1>7. CASE \E c \in Content, v \in Volume : CreateSnapshot(c, v)
  BY <1>7, SafeCreateSnapshot
<1>8. CASE \E c \in Content : FindSnapshot(c)
  BY <1>8, SafeFindSnapshot
<1>9. CASE \E c \in Content : DeleteSnapshot(c)
  BY <1>9, SafeDeleteSnapshot
<1>10. CASE \E s \in snaps : Listed(s)
  BY <1>10, SafeListed
<1>11. CASE \E s \in late : LateScript(s)
  BY <1>11, SafeLateScript
<1> QED BY <1>1, <1>2, <1>3, <1>4, <1>5, <1>6, <1>7, <1>8, <1>9, <1>10, <1>11 DEF Next

(* The invariant always holds. *)
LEMMA SafeAlways == Spec => []SafeInv
BY SafeInit, SafeNext, PTL DEF Spec

(* TypeOK always holds: sizes, IDs, paths and the stages of a volume and of *)
(* a snapshot stay in their ranges, whatever fails and in whatever order.   *)
THEOREM TypeCorrect == Spec => []TypeOK
BY SafeAlways, SafeTypes, PTL

(* HandlesAgree always holds: the handle CreateVolume answered with, or an  *)
(* administrator wrote, leads ControllerExpandVolume, CreateSnapshot,       *)
(* DeleteVolume, NodeStageVolume and the initiator to the storage that was  *)
(* made, for every name, path, StorageClass and import Windows takes.       *)
THEOREM HandlesAlwaysAgree == Spec => []HandlesAgree
BY SafeAlways, SafeHandles, PTL

(* SnapshotsAreTrue always holds: a snapshot CreateSnapshot answered for is *)
(* there, is nobody else's and holds the volume as it was between the first *)
(* request and the answer, whatever earlier attempts left behind and        *)
(* whatever late scripts do.                                                *)
THEOREM SnapshotsAlwaysTrue == Spec => []SnapshotsAreTrue
BY SafeAlways, SafeSnapshots, PTL

(* CapacityIsThere always holds: no expansion, lost answer or restore makes *)
(* Kubernetes show more than the disk has, but for shares restored with a   *)
(* request above the size of the snapshot, where it is at most the request, *)
(* and iSCSI volumes whose size GetVolumeInfo failed to say.                *)
THEOREM CapacityAlwaysThere == Spec => []CapacityIsThere
BY SafeAlways, SafeCapacity, PTL

-----------------------------------------------------------------------------
(***************************************************************************)
(* Counting what is left behind.                                           *)
(***************************************************************************)
LEMMA Fewer ==
    ASSUME NEW A, IsFiniteSet(A), NEW B, B \subseteq A
    PROVE  /\ IsFiniteSet(B) /\ Cardinality(B) \in Nat /\ Cardinality(A) \in Nat
           /\ Cardinality(B) <= Cardinality(A) + 0
<1>1. IsFiniteSet(B) /\ Cardinality(B) <= Cardinality(A) BY FS_Subset
<1>2. Cardinality(B) \in Nat /\ Cardinality(A) \in Nat BY <1>1, FS_CardinalityType
<1> QED BY <1>1, <1>2

(* A set with at most one element that is not in another is at most one     *)
(* larger.                                                                  *)
LEMMA OneMore ==
    ASSUME NEW A, IsFiniteSet(A), NEW B, \A x, y \in B \ A : x = y
    PROVE  /\ IsFiniteSet(B) /\ Cardinality(B) \in Nat /\ Cardinality(A) \in Nat
           /\ Cardinality(B) <= Cardinality(A) + 1
<1>1. Cardinality(A) \in Nat BY FS_CardinalityType
<1>2. CASE B \subseteq A BY <1>1, <1>2, Fewer
<1>3. CASE ~(B \subseteq A)
  <2>1. PICK x \in B : x \notin A BY <1>3
  <2>2. B \subseteq A \cup {x} BY <2>1
  <2>3. IsFiniteSet(A \cup {x}) /\ Cardinality(A \cup {x}) = Cardinality(A) + 1
    BY <2>1, FS_AddElement
  <2>4. PICK C : C = A \cup {x} OBVIOUS
  <2>5. IsFiniteSet(C) /\ B \subseteq C /\ Cardinality(C) = Cardinality(A) + 1 BY <2>2, <2>3, <2>4
  <2>6. /\ IsFiniteSet(B) /\ Cardinality(B) \in Nat /\ Cardinality(C) \in Nat
        /\ Cardinality(B) <= Cardinality(C) + 0
    BY <2>5, Fewer
  <2> QED BY <1>1, <2>5, <2>6
<1> QED BY <1>2, <1>3

(* A set without one of its elements is smaller by one. *)
LEMMA OneLess ==
    ASSUME NEW A, IsFiniteSet(A), NEW f \in A
    PROVE  /\ IsFiniteSet(A \ {f}) /\ Cardinality(A \ {f}) \in Nat /\ Cardinality(A) \in Nat
           /\ Cardinality(A \ {f}) = Cardinality(A) - 1
<1>1. IsFiniteSet(A \ {f}) /\ Cardinality(A \ {f}) = Cardinality(A) - 1
  BY FS_RemoveElement
<1> QED BY <1>1, FS_CardinalityType

(* A set that lacks an element of another and has at most one of its own is *)
(* not larger.                                                              *)
LEMMA Swapped ==
    ASSUME NEW A, IsFiniteSet(A), NEW B, NEW f \in A, f \notin B, \A x, y \in B \ A : x = y
    PROVE  /\ IsFiniteSet(B) /\ Cardinality(B) \in Nat /\ Cardinality(A) \in Nat
           /\ Cardinality(B) <= Cardinality(A) + 0
<1>1. PICK C : C = A \ {f} OBVIOUS
<1>2. /\ IsFiniteSet(C) /\ Cardinality(C) \in Nat /\ Cardinality(A) \in Nat
      /\ Cardinality(C) = Cardinality(A) - 1
  BY <1>1, OneLess
<1>3. \A x, y \in B \ C : x = y BY <1>1
<1>4. IsFiniteSet(B) /\ Cardinality(B) \in Nat /\ Cardinality(B) <= Cardinality(C) + 1
  BY <1>2, <1>3, OneMore
<1> QED BY <1>2, <1>4

(* The disks there are, and the scripts that can still make a snapshot. *)
InUse == {p \in Path : disk[p] # NoDisk}
LateCheckpoints == {l \in late : l.op = "checkpoint"}

FiniteParts == IsFiniteSet(snaps) /\ IsFiniteSet(late) /\ IsFiniteSet(InUse)
LeakInv ==
    /\ FiniteParts
    /\ Cardinality(Orphans) + Cardinality(OrphanDisks) + Cardinality(LateCheckpoints) <= faults

(* What is counted is finite. *)
LEMMA FiniteLeaks ==
    ASSUME FiniteParts
    PROVE  IsFiniteSet(Orphans) /\ IsFiniteSet(OrphanDisks) /\ IsFiniteSet(LateCheckpoints)
<1>1. Orphans \subseteq snaps /\ OrphanDisks \subseteq InUse /\ LateCheckpoints \subseteq late
  BY DEF Orphans, OrphanDisks, InUse, LateCheckpoints
<1> QED BY <1>1, Fewer DEF FiniteParts

(* B has at most n elements more than A, and the failures allow for so many. *)
Grown(A, B, n) == Cardinality(B) <= Cardinality(A) + n
Allowed(i, j, k) == faults + i + j + k <= faults'

(* How much a set grows, from what it gained and lost. *)
LEMMA Growth ==
    ASSUME NEW A, IsFiniteSet(A), NEW B
    PROVE  /\ B \subseteq A => Grown(A, B, 0)
           /\ (\A x, y \in B \ A : x = y) => Grown(A, B, 1)
           /\ (\A x, y \in B \ A : x = y) /\ (\E f \in A : f \notin B) => Grown(A, B, 0)
           /\ B \subseteq A /\ (\E f \in A : f \notin B) => Grown(A, B, 0 - 1)
<1>1. B \subseteq A => Grown(A, B, 0) BY Fewer DEF Grown
<1>2. (\A x, y \in B \ A : x = y) => Grown(A, B, 1) BY OneMore DEF Grown
<1>3. (\A x, y \in B \ A : x = y) /\ (\E f \in A : f \notin B) => Grown(A, B, 0)
  BY Swapped DEF Grown
<1>4. ASSUME B \subseteq A, NEW f \in A, f \notin B PROVE Grown(A, B, 0 - 1)
  <2>1. PICK C : C = A \ {f} OBVIOUS
  <2>2. /\ IsFiniteSet(C) /\ Cardinality(C) \in Nat /\ Cardinality(A) \in Nat
        /\ Cardinality(C) = Cardinality(A) - 1
    BY <2>1, OneLess
  <2>3. B \subseteq C BY <1>4, <2>1
  <2>4. Cardinality(B) \in Nat /\ Cardinality(B) <= Cardinality(C) + 0 BY <2>2, <2>3, Fewer
  <2> QED BY <2>2, <2>4 DEF Grown
<1> QED BY <1>1, <1>2, <1>3, <1>4

(* What a step may add to the count: one with a failure, and without one    *)
(* only what it takes from elsewhere.                                       *)
LEMMA Allowance ==
    ASSUME SafeInv
    PROVE  /\ UNCHANGED faults => Allowed(0, 0, 0) /\ Allowed(1, 0, 0 - 1)
           /\ Fault => /\ Allowed(0, 0, 0) /\ Allowed(1, 0, 0)
                       /\ Allowed(0, 1, 0) /\ Allowed(0, 0, 1)
<1>1. \A n \in 0..MaxFaults : n \in Nat BY BoundAssumption
<1>2. PICK f, g : f = faults /\ g = faults' OBVIOUS
<1>3. f \in Nat BY <1>1, <1>2 DEF SafeInv, Typed
<1>4. CASE UNCHANGED faults
  <2>1. g = f BY <1>2, <1>4
  <2>2. f + 0 + 0 + 0 <= g /\ f + 1 + 0 + (0 - 1) <= g BY ONLY <1>3, <2>1
  <2>3. ~Fault BY <1>2, <1>3, <2>1 DEF Fault
  <2> QED BY <1>2, <2>2, <2>3 DEF Allowed
<1>5. CASE Fault
  <2>1. g = f + 1 BY <1>2, <1>5 DEF Fault
  <2>2. /\ f + 0 + 0 + 0 <= g /\ f + 1 + 0 + 0 <= g
        /\ f + 0 + 1 + 0 <= g /\ f + 0 + 0 + 1 <= g
    BY ONLY <1>3, <2>1
  <2>3. ~UNCHANGED faults BY <1>2, <1>3, <2>1
  <2> QED BY <1>2, <2>2, <2>3 DEF Allowed
<1> QED BY <1>4, <1>5

(* Three counts within their allowances stay within the sum. *)
LEMMA Sums ==
    \A a, b, c, x, y, z, f, g \in Nat : \A i, j, k \in Int :
       /\ a + b + c <= f /\ x <= a + i /\ y <= b + j /\ z <= c + k /\ f + i + j + k <= g
       => x + y + z <= g
OBVIOUS

(* Each set grows by at most so many, and the failures pay for it. *)
LEMMA LeakStep ==
    ASSUME SafeInv, SafeInv', LeakInv, FiniteParts',
           NEW i \in Int, NEW j \in Int, NEW k \in Int, Allowed(i, j, k),
           Grown(Orphans, Orphans', i), Grown(OrphanDisks, OrphanDisks', j),
           Grown(LateCheckpoints, LateCheckpoints', k)
    PROVE  LeakInv'
<1>1. IsFiniteSet(Orphans) /\ IsFiniteSet(OrphanDisks) /\ IsFiniteSet(LateCheckpoints)
  BY FiniteLeaks DEF LeakInv
<1>2. IsFiniteSet(Orphans') /\ IsFiniteSet(OrphanDisks') /\ IsFiniteSet(LateCheckpoints')
  <2>1. /\ Orphans' \subseteq snaps' /\ OrphanDisks' \subseteq InUse'
        /\ LateCheckpoints' \subseteq late'
    BY DEF Orphans, OrphanDisks, InUse, LateCheckpoints
  <2>2. IsFiniteSet(snaps') /\ IsFiniteSet(late') /\ IsFiniteSet(InUse') BY DEF FiniteParts
  <2> QED BY <2>1, <2>2, Fewer
<1>3. PICK a, b, c, x, y, z, f, g :
        /\ a = Cardinality(Orphans) /\ b = Cardinality(OrphanDisks)
        /\ c = Cardinality(LateCheckpoints) /\ x = Cardinality(Orphans')
        /\ y = Cardinality(OrphanDisks') /\ z = Cardinality(LateCheckpoints')
        /\ f = faults /\ g = faults'
  OBVIOUS
<1>4. a \in Nat /\ b \in Nat /\ c \in Nat BY <1>1, <1>3, FS_CardinalityType
<1>5. x \in Nat /\ y \in Nat /\ z \in Nat BY <1>2, <1>3, FS_CardinalityType
<1>6. \A n \in 0..MaxFaults : n \in Nat BY BoundAssumption
<1>7. f \in Nat /\ g \in Nat BY <1>3, <1>6 DEF SafeInv, Typed
<1>8. a + b + c <= f BY <1>3 DEF LeakInv
<1>9. x <= a + i /\ y <= b + j /\ z <= c + k /\ f + i + j + k <= g
  BY <1>3 DEF Grown, Allowed
<1>10. x + y + z <= g BY <1>4, <1>5, <1>7, <1>8, <1>9, Sums
<1> QED BY <1>3, <1>10 DEF LeakInv

(* A snapshot somebody can still name, or is about to find. *)
Claimed(s, c) ==
    \/ content[c].st \in {"made", "doomed"} /\ content[c].id = s.id
    \/ /\ content[c].st = "taking" /\ s.description = c
       /\ \A t \in snaps : t.description = c => ~(t.id > s.id)

(* The snapshots nobody can name, without the words of the property. *)
LEMMA OrphansAre == Orphans = {s \in snaps : \A c \in Content : ~Claimed(s, c)}
BY DEF Orphans, Claimed

(* The same, after a step. *)
LEMMA OrphansAreAfter == Orphans' = {s \in snaps' : \A c \in Content : ~Claimed(s, c)'}
BY DEF Orphans, Claimed

(* Two snapshots of a name cannot both be the newest. *)
LEMMA OneNewest ==
    ASSUME SafeInv, NEW s \in snaps, NEW t \in snaps, ~(t.id > s.id), ~(s.id > t.id)
    PROVE  s = t
<1>1. s.id \in Nat /\ t.id \in Nat BY SnapTypes DEF SafeInv
<1>2. \A i, j \in Nat : ~(i > j) /\ ~(j > i) => i = j OBVIOUS
<1> QED BY <1>1, <1>2 DEF SafeInv, UniqueIds

(* The steps that change the disk at path q0 only, for volume v only. *)
LEMMA LeakStorage ==
    ASSUME SafeInv, SafeInv', LeakInv, UNCHANGED <<content, late>>, snaps' \subseteq snaps,
           UNCHANGED faults \/ Fault,
           NEW v \in Volume, NEW q0, pv[v].path \notin Path \/ pv[v].path = q0,
           \A w \in Volume : w # v => pv'[w] = pv[w],
           \A q \in Path : q # q0 => disk'[q] = disk[q],
           q0 \in OrphanDisks' => Fault
    PROVE  LeakInv'
<1>1. IsFiniteSet(Orphans) /\ IsFiniteSet(OrphanDisks) /\ IsFiniteSet(LateCheckpoints)
  BY FiniteLeaks DEF LeakInv
<1>2. FiniteParts'
  <2>1. InUse' \ InUse \subseteq {q0} BY DEF InUse
  <2>2. IsFiniteSet(InUse') BY <2>1, OneMore DEF LeakInv, FiniteParts
  <2>3. IsFiniteSet(snaps') BY Fewer DEF LeakInv, FiniteParts
  <2> QED BY <2>2, <2>3 DEF LeakInv, FiniteParts
<1>3. Grown(Orphans, Orphans', 0)
  <2>1. ASSUME NEW s \in snaps', NEW c \in Content, Claimed(s, c) PROVE Claimed(s, c)'
    BY <2>1 DEF Claimed
  <2>2. Orphans' \subseteq Orphans BY <2>1, OrphansAre, OrphansAreAfter
  <2> QED BY <1>1, <2>2, Growth
<1>4. Grown(LateCheckpoints, LateCheckpoints', 0)
  <2>1. LateCheckpoints' \subseteq LateCheckpoints BY DEF LateCheckpoints
  <2> QED BY <1>1, <2>1, Growth
<1>5. ASSUME NEW p \in OrphanDisks', p # q0 PROVE p \in OrphanDisks
  <2>1. /\ p \in Path /\ disk'[p] # NoDisk
        /\ \A w \in Volume : pv'[w].st = "bound" => pv'[w].path # p
        /\ \A w \in Volume : pv'[w].path = p => ~BareIPv6(pv'[w].class)
    BY DEF OrphanDisks
  <2>2. disk[p] # NoDisk BY <1>5, <2>1
  <2>3. pv[v].path # p BY <1>5, <2>1
  <2>4. \A w \in Volume : w = v \/ pv'[w] = pv[w] OBVIOUS
  <2> QED BY <2>1, <2>2, <2>3, <2>4 DEF OrphanDisks
<1>6. CASE q0 \in OrphanDisks'
  <2>1. Grown(OrphanDisks, OrphanDisks', 1) BY <1>1, <1>5, Growth
  <2>2. Allowed(0, 1, 0) BY <1>6, Allowance
  <2> QED BY <1>2, <1>3, <1>4, <2>1, <2>2, LeakStep
<1>7. CASE q0 \notin OrphanDisks'
  <2>1. OrphanDisks' \subseteq OrphanDisks BY <1>5, <1>7
  <2>2. Grown(OrphanDisks, OrphanDisks', 0) BY <1>1, <2>1, Growth
  <2>3. Allowed(0, 0, 0) BY Allowance
  <2> QED BY <1>2, <1>3, <1>4, <2>2, <2>3, LeakStep
<1> QED BY <1>6, <1>7

(* The path of a bound volume is not left behind. *)
LEMMA BoundNotLeft ==
    ASSUME NEW v \in Volume, NEW p, pv'[v].st = "bound", pv'[v].path = p
    PROVE  p \notin OrphanDisks'
BY DEF OrphanDisks

(* A volume that was never made has no disk. *)
LEMMA NoneHasNoPath ==
    ASSUME SafeInv, NEW v \in Volume, pv[v].st = "none"
    PROVE  pv[v].path \notin Path
BY NoEmptyPath DEF SafeInv, VolumesOk, VolumeOk

(* A volume that is made or imported has its disk for itself: nothing       *)
(* leaks.                                                                   *)
LEMMA LeakCreateVolume ==
    ASSUME SafeInv, SafeInv', LeakInv, NEW v \in Volume, NEW class, NEW range,
           CreateVolume(v, class, range) \/ Import(v, class)
    PROVE  LeakInv'
<1>1. PICK path, r, t :
        /\ path = (IF OnVhdx(class) THEN VhdxOf(v) ELSE DirOf(v))
        /\ r.st = "bound" /\ r.path = path
        /\ pv[v].st = "none"
        /\ disk' = IF OnVhdx(class) THEN [disk EXCEPT ![path] = t] ELSE disk
        /\ pv' = [pv EXCEPT ![v] = r]
        /\ UNCHANGED <<snaps, content, late, clock, faults>>
  <2>1. PICK path, n : /\ path = (IF OnVhdx(class) THEN VhdxOf(v) ELSE DirOf(v))
                       /\ n = RequiredBytesFromRange(range)
    OBVIOUS
  <2>2. CASE CreateVolume(v, class, range)
    <3>1. PICK r, t : r = Bound(v, class, range, path, n, n, "", 0) /\ t = [size |-> n, data |-> 0]
      OBVIOUS
    <3>2. BoundAs(r, v, class, range, path, n, n, "", 0) BY <3>1, BoundFields
    <3>3. r.st = "bound" /\ r.path = path BY <3>2 DEF BoundAs
    <3>4. /\ pv[v].st = "none"
          /\ disk' = IF OnVhdx(class) THEN [disk EXCEPT ![path] = t] ELSE disk
          /\ pv' = [pv EXCEPT ![v] = r]
          /\ UNCHANGED <<snaps, content, late, clock, faults>>
      BY <2>1, <2>2, <3>1 DEF CreateVolume
    <3> QED BY <2>1, <3>3, <3>4
  <2>3. CASE Import(v, class)
    <3>1. PICK b, t, none : /\ none = [required |-> 0, limit |-> 0]
                            /\ b = Bound(v, class, none, path, Min, Min, "", 0)
                            /\ t = [size |-> Min, data |-> 0]
      OBVIOUS
    <3>2. BoundAs(b, v, class, none, path, Min, Min, "", 0) BY <3>1, BoundFields
    <3>3. PICK r : r = [b EXCEPT !.id = ImportedHandle(v, class, path), !.vc = NoContext] OBVIOUS
    <3>4. r.st = "bound" /\ r.path = path BY <3>2, <3>3 DEF BoundAs, PvRecord
    <3>5. /\ pv[v].st = "none"
          /\ disk' = IF OnVhdx(class) THEN [disk EXCEPT ![path] = t] ELSE disk
          /\ pv' = [pv EXCEPT ![v] = r]
          /\ UNCHANGED <<snaps, content, late, clock, faults>>
      BY <2>1, <2>3, <3>1, <3>3 DEF Import
    <3> QED BY <2>1, <3>4, <3>5
  <2> QED BY <2>2, <2>3
<1>2. /\ pv'[v] = r /\ \A w \in Volume : w # v => pv'[w] = pv[w]
  BY <1>1 DEF SafeInv, Typed
<1>3. \A q \in Path : q # path => disk'[q] = disk[q] BY <1>1 DEF SafeInv, Typed
<1>4. path \notin OrphanDisks' BY <1>1, <1>2, BoundNotLeft
<1> QED BY <1>1, <1>2, <1>3, <1>4, NoneHasNoPath, LeakStorage

(* A restore leaves an exported disk behind only if its answer is lost, and *)
(* that is a failure.                                                       *)
LEMMA LeakCreateVolumeFrom ==
    ASSUME SafeInv, SafeInv', LeakInv, NEW v \in Volume, NEW class, NEW range, NEW c \in Content,
           CreateVolumeFrom(v, class, range, c)
    PROVE  LeakInv'
<1>1. PICK e, r, x :
        /\ e \in FreeExport /\ pv[v].st = "none" /\ disk' = [disk EXCEPT ![e] = x]
        /\ \/ pv' = [pv EXCEPT ![v] = r] /\ r.st = "bound" /\ r.path = e
           \/ Fault /\ UNCHANGED pv
        /\ UNCHANGED faults \/ Fault
        /\ UNCHANGED <<snaps, content, late, clock>>
  <2>1. PICK e \in FreeExport, s \in snaps :
        /\ pv[v].st = "none" /\ disk' = [disk EXCEPT ![e] = Exported(s)]
        /\ \/ /\ pv' = [pv EXCEPT ![v] =
                          Bound(v, class, range, e, Larger(RequiredBytesFromRange(range), s.size),
                                Larger(RequiredBytesFromRange(range), s.size), c, s.data)]
              /\ UNCHANGED faults
           \/ /\ Fault
              /\ pv' = [pv EXCEPT ![v] =
                          Bound(v, class, range, e,
                                IF class.protocol = "iscsi" THEN 0
                                ELSE RequiredBytesFromRange(range),
                                RequiredBytesFromRange(range), c, s.data)]
           \/ Fault /\ UNCHANGED pv
        /\ UNCHANGED <<snaps, content, late, clock>>
    BY DEF CreateVolumeFrom, Larger
  <2>2. \A n, cap, born : LET r == Bound(v, class, range, e, n, cap, c, born)
                          IN  r.st = "bound" /\ r.path = e
    BY BoundFields DEF BoundAs
  <2>3. PICK x : x = Exported(s) OBVIOUS
  <2>4. PICK r : \/ pv' = [pv EXCEPT ![v] = r] /\ r.st = "bound" /\ r.path = e
                 \/ Fault /\ UNCHANGED pv
    BY <2>1, <2>2
  <2>5. disk' = [disk EXCEPT ![e] = x] /\ (UNCHANGED faults \/ Fault) BY <2>1, <2>3
  <2>6. pv[v].st = "none" /\ UNCHANGED <<snaps, content, late, clock>> BY <2>1
  <2> QED BY <2>4, <2>5, <2>6
<1>2. e \in Path /\ disk \in [Path -> DiskRecord] /\ pv = [w \in Volume |-> pv[w]]
  BY <1>1, FreeExports DEF SafeInv, Typed
<1>3. \A q \in Path : q # e => disk'[q] = disk[q] BY <1>1, <1>2
<1>4. \A w \in Volume : w # v => pv'[w] = pv[w] BY <1>1, <1>2
<1>5. e \in OrphanDisks' => Fault
  <2>1. CASE pv' = [pv EXCEPT ![v] = r] /\ r.st = "bound" /\ r.path = e
    <3>1. pv'[v] = r BY <1>2, <2>1
    <3> QED BY <2>1, <3>1, BoundNotLeft
  <2> QED BY <1>1, <2>1
<1> QED BY <1>1, <1>3, <1>4, <1>5, NoneHasNoPath, LeakStorage

(* A write leaks nothing. *)
LEMMA LeakWrite ==
    ASSUME SafeInv, SafeInv', LeakInv, NEW v \in Volume, Write(v)
    PROVE  LeakInv'
<1>1. PICK p : p = pv[v].path OBVIOUS
<1>2. /\ pv[v].st = "bound" /\ p \in Path /\ disk' = [disk EXCEPT ![p].data = @ + 1]
      /\ UNCHANGED <<share, snaps, pv, content, late, clock, faults>>
  BY <1>1 DEF Write
<1>3. \A q \in Path : q # p => disk'[q] = disk[q] BY <1>2 DEF SafeInv, Typed
<1>4. p \notin OrphanDisks' BY <1>1, <1>2, BoundNotLeft
<1> QED BY <1>1, <1>2, <1>3, <1>4, LeakStorage

(* An expansion leaks nothing. *)
LEMMA LeakExpand ==
    ASSUME SafeInv, SafeInv', LeakInv, NEW v \in Volume, NEW want, ControllerExpandVolume(v, want)
    PROVE  LeakInv'
<1>1. PICK p, r : p = SourcePath(pv[v].id) /\ r = [pv[v] EXCEPT !.cap = want] OBVIOUS
<1>2. /\ pv[v].st = "bound"
      /\ disk' = IF p = "" THEN disk ELSE [disk EXCEPT ![p].size = want]
      /\ \/ pv' = [pv EXCEPT ![v].cap = want] /\ UNCHANGED faults
         \/ Fault /\ UNCHANGED pv
      /\ UNCHANGED <<share, snaps, content, late, clock>>
  BY <1>1 DEF ControllerExpandVolume
<1>3. VolumeOk(v) /\ PvShape(pv[v]) /\ pv = [w \in Volume |-> pv[w]] /\ disk \in [Path -> DiskRecord]
  BY DEF SafeInv, VolumesOk, Typed
<1>4. Origin(v, pv[v]) BY <1>2, <1>3 DEF VolumeOk
<1>5. p \in {"", pv[v].path} BY <1>1, <1>4, Sources
<1>6. PICK q0 : q0 = pv[v].path OBVIOUS
<1>7. \A q \in Path : q # q0 => disk'[q] = disk[q] BY <1>2, <1>3, <1>5, <1>6
<1>8. r.st = "bound" /\ r.path = q0 BY <1>1, <1>2, <1>3, <1>6 DEF PvShape, PvRecord
<1>9. pv'[v].st = "bound" /\ pv'[v].path = q0 /\ \A w \in Volume : w # v => pv'[w] = pv[w]
  <2>1. CASE UNCHANGED pv BY <1>2, <1>6, <2>1
  <2>2. CASE pv' = [pv EXCEPT ![v].cap = want]
    <3>1. pv' = [pv EXCEPT ![v] = r] BY <1>1, <1>3, <2>2
    <3>2. pv'[v] = r /\ \A w \in Volume : w # v => pv'[w] = pv[w] BY <1>3, <3>1
    <3> QED BY <1>8, <3>2
  <2> QED BY <1>2, <2>1, <2>2
<1>10. q0 \notin OrphanDisks' BY <1>9, BoundNotLeft
<1> QED BY <1>2, <1>6, <1>7, <1>9, <1>10, LeakStorage

(* Of a deleted volume nothing is left but what an ID that does not decode *)
(* leaves.                                                                 *)
LEMMA LeakDeleteVolume ==
    ASSUME SafeInv, SafeInv', LeakInv, NEW v \in Volume, DeleteVolume(v)
    PROVE  LeakInv'
<1>1. PICK p, r : p = SourcePath(pv[v].id) /\ r = [pv[v] EXCEPT !.st = "gone"] OBVIOUS
<1>2. /\ pv[v].st = "bound"
      /\ \/ UNCHANGED disk
         \/ disk' = [q \in Path |-> IF q = p THEN NoDisk ELSE disk[q]]
      /\ pv' = [pv EXCEPT ![v].st = "gone"]
      /\ snaps' \subseteq snaps
      /\ UNCHANGED <<content, late, clock, faults>>
  BY <1>1 DEF DeleteVolume, DeleteStorage
<1>3. VolumeOk(v) /\ PvShape(pv[v]) /\ pv = [w \in Volume |-> pv[w]] /\ disk \in [Path -> DiskRecord]
  BY DEF SafeInv, VolumesOk, Typed
<1>4. Origin(v, pv[v]) BY <1>2, <1>3 DEF VolumeOk
<1>5. p \in {"", pv[v].path} BY <1>1, <1>4, Sources
<1>6. PICK q0 : q0 = pv[v].path OBVIOUS
<1>7. \A q \in Path : q # q0 => disk'[q] = disk[q] BY <1>2, <1>3, <1>5, <1>6, NoEmptyPath
<1>8. r.st = "gone" /\ r.path = q0 BY <1>1, <1>2, <1>3, <1>6 DEF PvShape, PvRecord
<1>9. pv' = [pv EXCEPT ![v] = r] BY <1>1, <1>2, <1>3
<1>10. pv'[v] = r /\ \A w \in Volume : w # v => pv'[w] = pv[w] BY <1>3, <1>9
<1>11. q0 \notin OrphanDisks'
  <2>1. SUFFICES ASSUME q0 \in OrphanDisks' PROVE FALSE OBVIOUS
  <2>2. q0 \in Path /\ disk'[q0] # NoDisk /\ ~BareIPv6(pv'[v].class)
    BY <1>8, <1>10, <2>1 DEF OrphanDisks
  <2>3. VolumeOk(v)' BY DEF SafeInv, VolumesOk
  <2> QED BY <1>8, <1>10, <2>2, <2>3 DEF VolumeOk
<1> QED BY <1>2, <1>6, <1>7, <1>10, <1>11, LeakStorage

-----------------------------------------------------------------------------
(* The steps that leave volumes and disks alone. *)
LEMMA LeakSnapshots ==
    ASSUME SafeInv, SafeInv', LeakInv, UNCHANGED <<disk, pv>>,
           IsFiniteSet(snaps'), IsFiniteSet(late'), NEW i \in Int, NEW k \in Int, Allowed(i, 0, k),
           Grown(Orphans, Orphans', i), Grown(LateCheckpoints, LateCheckpoints', k)
    PROVE  LeakInv'
<1>1. InUse' = InUse /\ OrphanDisks' = OrphanDisks BY DEF InUse, OrphanDisks
<1>2. FiniteParts' BY <1>1 DEF LeakInv, FiniteParts
<1>3. IsFiniteSet(OrphanDisks) BY FiniteLeaks DEF LeakInv
<1>4. Grown(OrphanDisks, OrphanDisks', 0) BY <1>1, <1>3, Growth
<1> QED BY <1>2, <1>4, LeakStep

(* An attempt leaves at most what it made. *)
LEMMA AttemptOrphans ==
    ASSUME SafeInv, NEW c \in Content, content[c].st \in {"none", "failed"},
           \A d \in Content : d # c => content'[d] = content[d],
           snaps \subseteq snaps', \A s \in snaps' \ snaps : s.description = c,
           NEW s \in snaps, s \in Orphans'
    PROVE  s \in Orphans
<1>1. SUFFICES ASSUME NEW d \in Content, Claimed(s, d) PROVE Claimed(s, d)'
  BY OrphansAre, OrphansAreAfter
<1>2. d # c /\ content'[d] = content[d] BY <1>1 DEF Claimed
<1>3. \A t \in snaps' : t.description = d => t \in snaps BY <1>2
<1> QED BY <1>1, <1>2, <1>3 DEF Claimed

(* A checkpoint nobody can name any more, or one that is still to come, is  *)
(* paid for by the failure that made it so.                                 *)
LEMMA LeakCreateSnapshot ==
    ASSUME SafeInv, SafeInv', LeakInv, NEW c \in Content, NEW v \in Volume, CreateSnapshot(c, v)
    PROVE  LeakInv'
<1>p. PICK p, new : /\ p = SourcePath(pv[v].id)
                     /\ new = [op |-> "checkpoint", content |-> c, id |-> faults]
  OBVIOUS
<1>1. PICK a, b :
        /\ a.st = "taking" /\ content[c].st \in {"none", "failed"}
        /\ \/ /\ \E listed \in BOOLEAN : Checkpoint(p, c, listed)
              /\ content' = [content EXCEPT ![c] = a]
              /\ UNCHANGED <<late, faults>>
           \/ /\ Fault /\ content' = [content EXCEPT ![c] = b]
              /\ \/ Checkpoint(p, c, TRUE) /\ UNCHANGED late
                 \/ UNCHANGED <<snaps, clock, late>>
                 \/ late' = late \cup {new} /\ UNCHANGED <<snaps, clock>>
        /\ UNCHANGED <<disk, share, pv>>
  <2> DEFINE started(st) == [content[c] EXCEPT !.st = st, !.vol = v,
                               !.from = IF content[c].st = "none" THEN disk[SourcePath(pv[v].id)].data ELSE @]
  <2>1. content[c] \in ContentType BY ContentTypes DEF SafeInv
  <2>2. started("taking").st = "taking" BY <2>1 DEF ContentType
  <2>4. /\ content[c].st \in {"none", "failed"}
        /\ \/ /\ \E listed \in BOOLEAN : Checkpoint(p, c, listed)
              /\ content' = [content EXCEPT ![c] = started("taking")]
              /\ UNCHANGED <<late, faults>>
           \/ /\ Fault /\ content' = [content EXCEPT ![c] = started("failed")]
              /\ \/ Checkpoint(p, c, TRUE) /\ UNCHANGED late
                 \/ UNCHANGED <<snaps, clock, late>>
                 \/ late' = late \cup {new} /\ UNCHANGED <<snaps, clock>>
        /\ UNCHANGED <<disk, share, pv>>
    BY <1>p DEF CreateSnapshot
  <2> HIDE DEF started
  <2>5. PICK a, b : a = started("taking") /\ b = started("failed") OBVIOUS
  <2>6. a.st = "taking" BY <2>2, <2>5
  <2>7. /\ content[c].st \in {"none", "failed"}
        /\ \/ /\ \E listed \in BOOLEAN : Checkpoint(p, c, listed)
              /\ content' = [content EXCEPT ![c] = a]
              /\ UNCHANGED <<late, faults>>
           \/ /\ Fault /\ content' = [content EXCEPT ![c] = b]
              /\ \/ Checkpoint(p, c, TRUE) /\ UNCHANGED late
                 \/ UNCHANGED <<snaps, clock, late>>
                 \/ late' = late \cup {new} /\ UNCHANGED <<snaps, clock>>
        /\ UNCHANGED <<disk, share, pv>>
    BY <2>4, <2>5
  <2> QED BY <2>6, <2>7
<1>2. content \in [Content -> ContentType] BY DEF SafeInv, Typed
<1>3. \A d \in Content : d # c => content'[d] = content[d] BY <1>1, <1>2
<1>4. IsFiniteSet(Orphans) /\ IsFiniteSet(LateCheckpoints) /\ IsFiniteSet(snaps) /\ IsFiniteSet(late)
  BY FiniteLeaks DEF LeakInv, FiniteParts
<1>5. ASSUME UNCHANGED late PROVE Grown(LateCheckpoints, LateCheckpoints', 0) /\ IsFiniteSet(late')
  BY <1>4, <1>5, Growth DEF LateCheckpoints
<1>6. ASSUME UNCHANGED snaps PROVE Grown(Orphans, Orphans', 0) /\ IsFiniteSet(snaps')
  <2>1. \A s \in Orphans' : s \in snaps BY <1>6 DEF Orphans
  <2>2. Orphans' \subseteq Orphans BY <1>1, <1>3, <1>6, <2>1, AttemptOrphans
  <2> QED BY <1>4, <1>6, <2>2, Growth
<1>7. ASSUME NEW listed \in BOOLEAN, Checkpoint(p, c, listed)
      PROVE  /\ IsFiniteSet(snaps')
             /\ Grown(Orphans, Orphans', 1)
             /\ content' = [content EXCEPT ![c] = a] => Grown(Orphans, Orphans', 0)
  <2>1. PICK n : Fresh(n, p, c) BY <1>7, Taken
  <2>2. snaps' = snaps \cup {n} /\ n.description = c BY <2>1 DEF Fresh
  <2>3. IsFiniteSet(snaps') BY <1>4, <2>2, FS_AddElement
  <2>4. \A s \in Orphans' : s \in snaps' BY DEF Orphans
  <2>5. \A s \in Orphans' : s \in Orphans \/ s = n
    BY <1>1, <1>3, <2>2, <2>4, AttemptOrphans
  <2>6. Grown(Orphans, Orphans', 1) BY <1>4, <2>5, Growth
  <2>7. ASSUME content' = [content EXCEPT ![c] = a] PROVE Grown(Orphans, Orphans', 0)
    <3>1. content'[c].st = "taking" BY <1>1, <1>2, <2>7
    <3>2. ASSUME NEW t \in snaps' PROVE ~(t.id > n.id)
      <4>1. PICK i : i = clock OBVIOUS
      <4>2. i \in Nat /\ n.id = i + 1 BY <2>1, <4>1 DEF Fresh, SafeInv, Typed
      <4>3. t = n \/ t.id \in 1..i BY <2>2, <4>1, SnapTypes DEF SafeInv
      <4>4. ~(i + 1 > i + 1) /\ \A j \in 1..i : ~(j > i + 1) BY ONLY <4>2
      <4> QED BY <4>2, <4>3, <4>4
    <3>3. Claimed(n, c)' BY <2>2, <3>1, <3>2 DEF Claimed
    <3>4. n \notin Orphans' BY <3>3, OrphansAreAfter
    <3>5. Orphans' \subseteq Orphans BY <2>5, <3>4
    <3> QED BY <1>4, <3>5, Growth
  <2> QED BY <2>3, <2>6, <2>7
<1>8. CASE /\ \E listed \in BOOLEAN : Checkpoint(p, c, listed)
           /\ content' = [content EXCEPT ![c] = a] /\ UNCHANGED <<late, faults>>
  <2>1. Allowed(0, 0, 0) BY <1>8, Allowance
  <2>2. IsFiniteSet(snaps') /\ Grown(Orphans, Orphans', 0) BY <1>7, <1>8
  <2>3. IsFiniteSet(late') /\ Grown(LateCheckpoints, LateCheckpoints', 0) BY <1>5, <1>8
  <2> QED BY <1>1, <2>1, <2>2, <2>3, LeakSnapshots
<1>9. CASE Fault /\ Checkpoint(p, c, TRUE) /\ UNCHANGED late
  <2>1. Allowed(1, 0, 0) BY <1>9, Allowance
  <2>2. IsFiniteSet(snaps') /\ Grown(Orphans, Orphans', 1) BY <1>7, <1>9
  <2>3. IsFiniteSet(late') /\ Grown(LateCheckpoints, LateCheckpoints', 0) BY <1>5, <1>9
  <2> QED BY <1>1, <2>1, <2>2, <2>3, LeakSnapshots
<1>10. CASE Fault /\ UNCHANGED <<snaps, clock, late>>
  <2>1. Allowed(0, 0, 0) BY <1>10, Allowance
  <2>2. IsFiniteSet(snaps') /\ Grown(Orphans, Orphans', 0) BY <1>6, <1>10
  <2>3. IsFiniteSet(late') /\ Grown(LateCheckpoints, LateCheckpoints', 0) BY <1>5, <1>10
  <2> QED BY <1>1, <2>1, <2>2, <2>3, LeakSnapshots
<1>11. CASE Fault /\ late' = late \cup {new} /\ UNCHANGED <<snaps, clock>>
  <2>1. Allowed(0, 0, 1) BY <1>11, Allowance
  <2>2. IsFiniteSet(snaps') /\ Grown(Orphans, Orphans', 0) BY <1>6, <1>11
  <2>3. LateCheckpoints' \ LateCheckpoints \subseteq {new} BY <1>11 DEF LateCheckpoints
  <2>4. Grown(LateCheckpoints, LateCheckpoints', 1) BY <1>4, <2>3, Growth
  <2>5. IsFiniteSet(late') BY <1>4, <1>11, FS_AddElement
  <2> QED BY <1>1, <2>1, <2>2, <2>4, <2>5, LeakSnapshots
<1> QED BY <1>1, <1>8, <1>9, <1>10, <1>11

(***************************************************************************)
(* A script that finds a snapshot takes the newest of its name that is     *)
(* listed.  If a newer one is not listed yet, that one is left behind; but *)
(* the one that was found was counted until now.                           *)
(***************************************************************************)
LEMMA LeakFindSnapshot ==
    ASSUME SafeInv, SafeInv', LeakInv, NEW c \in Content, FindSnapshot(c)
    PROVE  LeakInv'
<1>1. /\ content[c].st = "taking" /\ UNCHANGED <<disk, share, snaps, pv, late, clock>>
      /\ UNCHANGED faults \/ Fault
  BY DEF FindSnapshot
<1>2. content \in [Content -> ContentType] /\ content[c] \in ContentType BY DEF SafeInv, Typed
<1>3. \A d \in Content : d # c => content'[d] = content[d] BY <1>2 DEF FindSnapshot
<1>4. IsFiniteSet(Orphans) /\ IsFiniteSet(LateCheckpoints) /\ IsFiniteSet(snaps) /\ IsFiniteSet(late)
  BY FiniteLeaks DEF LeakInv, FiniteParts
<1>5. IsFiniteSet(snaps') /\ IsFiniteSet(late') BY <1>1, <1>4
<1>6. Grown(LateCheckpoints, LateCheckpoints', 0) BY <1>1, <1>4, Growth DEF LateCheckpoints
<1>7. ASSUME NEW s \in Orphans' \ Orphans
      PROVE  /\ s \in snaps /\ s.description = c
             /\ \A t \in snaps : t.description = c => ~(t.id > s.id)
  <2>1. s \in snaps /\ \A d \in Content : ~Claimed(s, d)' BY <1>1, OrphansAreAfter
  <2>2. PICK d \in Content : Claimed(s, d) BY <2>1, OrphansAre
  <2>3. d = c
    <3>1. SUFFICES ASSUME d # c PROVE Claimed(s, d)' BY <2>1
    <3>2. content'[d] = content[d] /\ snaps' = snaps BY <1>1, <1>3, <3>1
    <3> QED BY <2>2, <3>2 DEF Claimed
  <2> QED BY <1>1, <2>1, <2>2, <2>3 DEF Claimed
<1>8. \A s, t \in Orphans' \ Orphans : s = t BY <1>7, OneNewest
<1>9. CASE Fault
  <2>1. Allowed(1, 0, 0) BY <1>9, Allowance
  <2>2. Grown(Orphans, Orphans', 1) BY <1>4, <1>8, Growth
  <2> QED BY <1>1, <1>5, <1>6, <2>1, <2>2, LeakSnapshots
<1>10. CASE ~Fault
  <2>1. Allowed(0, 0, 0) BY <1>1, <1>10, Allowance
  <2>2. PICK f, p, data : /\ f = Newest(Found(c)) /\ p = SourcePath(pv[content[c].vol].id)
                          /\ data = disk[p].data
    OBVIOUS
  <2>3. PICK k : k = [content[c] EXCEPT !.st = "made", !.id = f.id, !.path = p, !.upto = data] OBVIOUS
  <2>4. Found(c) # {} /\ content' = [content EXCEPT ![c] = k]
    BY <1>2, <1>10, <2>2, <2>3 DEF FindSnapshot
  <2>5. content'[c] = k BY <1>2, <2>4
  <2>6. k.st = "made" /\ k.id = f.id BY <1>2, <2>3 DEF ContentType
  <2>7. Found(c) \subseteq snaps BY DEF Found
  <2>8. f \in Found(c) BY <2>2, <2>4, <2>7, NewestIs
  <2>9. f \in snaps /\ f.description = c BY <2>8 DEF Found
  <2>10. Claimed(f, c)' BY <2>5, <2>6 DEF Claimed
  <2>11. f \notin Orphans' BY <2>10, OrphansAreAfter
  <2>12. CASE Orphans' \subseteq Orphans
    <3>1. Grown(Orphans, Orphans', 0) BY <1>4, <2>12, Growth
    <3> QED BY <1>1, <1>5, <1>6, <2>1, <3>1, LeakSnapshots
  <2>13. CASE ~(Orphans' \subseteq Orphans)
    <3>1. PICK s \in Orphans' : s \notin Orphans BY <2>13
    <3>2. s \in snaps /\ s.description = c /\ ~(f.id > s.id) BY <1>7, <2>9, <3>1
    <3>3. s.id > f.id
      <4>1. s # f BY <2>11, <3>1
      <4> QED BY <2>9, <3>2, <4>1, OneNewest
    <3>4. f \in Orphans
      <4>1. SUFFICES ASSUME NEW d \in Content, Claimed(f, d) PROVE FALSE BY <2>9, OrphansAre
      <4>2. CASE content[d].st \in {"made", "doomed"} /\ content[d].id = f.id
        <5>1. NamedOk(f, d) BY <2>9 DEF SafeInv, NamesOk
        <5>2. f.description = d BY <4>2, <5>1 DEF NamedOk, Answered
        <5> QED BY <1>1, <2>9, <4>2, <5>2
      <4>3. CASE ~(content[d].st \in {"made", "doomed"} /\ content[d].id = f.id)
        <5>1. f.description = d /\ \A t \in snaps : t.description = d => ~(t.id > f.id)
          BY <4>1, <4>3 DEF Claimed
        <5> QED BY <2>9, <3>2, <3>3, <5>1
      <4> QED BY <4>2, <4>3
    <3>5. Grown(Orphans, Orphans', 0) BY <1>4, <1>8, <2>11, <3>4, Growth
    <3> QED BY <1>1, <1>5, <1>6, <2>1, <3>5, LeakSnapshots
  <2> QED BY <2>12, <2>13
<1> QED BY <1>9, <1>10

(* A snapshot that comes to be listed is the same snapshot. *)
LEMMA LeakListed ==
    ASSUME SafeInv, SafeInv', LeakInv, NEW s \in snaps, Listed(s)
    PROVE  LeakInv'
<1>1. PICK t : t = [s EXCEPT !.listed = TRUE] OBVIOUS
<1>2. /\ ~s.listed /\ snaps' = (snaps \ {s}) \cup {t}
      /\ UNCHANGED <<disk, share, pv, content, late, clock, faults>>
  BY <1>1 DEF Listed
<1>3. s \in SnapType(clock) BY SnapTypes DEF SafeInv
<1>4. t.id = s.id /\ t.description = s.description /\ t.listed BY <1>1, <1>3 DEF SnapType
<1>5. s # t BY <1>2, <1>4
<1>6. IsFiniteSet(Orphans) /\ IsFiniteSet(LateCheckpoints) /\ IsFiniteSet(snaps) /\ IsFiniteSet(late)
  BY FiniteLeaks DEF LeakInv, FiniteParts
<1>7. IsFiniteSet(snaps') /\ IsFiniteSet(late')
  <2>1. snaps' \ snaps \subseteq {t} BY <1>2
  <2> QED BY <1>2, <1>6, <2>1, OneMore
<1>8. Grown(LateCheckpoints, LateCheckpoints', 0) BY <1>2, <1>6, Growth DEF LateCheckpoints
<1>9. Allowed(0, 0, 0) BY <1>2, Allowance
<1>10. ASSUME NEW u \in snaps, NEW w \in snaps', u.id = w.id, u.description = w.description,
              NEW d \in Content, Claimed(u, d)
       PROVE  Claimed(w, d)'
  <2>1. \A x \in snaps' : \E y \in snaps : y.id = x.id /\ y.description = x.description
    BY <1>2, <1>4
  <2>2. content' = content BY <1>2
  <2> QED BY <1>10, <2>1, <2>2 DEF Claimed
<1>11. Orphans' \subseteq Orphans \cup {t}
  <2>1. SUFFICES ASSUME NEW u \in Orphans', u # t PROVE u \in Orphans OBVIOUS
  <2>2. u \in snaps' /\ u \in snaps /\ \A d \in Content : ~Claimed(u, d)'
    BY <1>2, <2>1, OrphansAreAfter
  <2> QED BY <1>10, <2>2, OrphansAre
<1>12. t \in Orphans' => s \in Orphans
  <2>1. SUFFICES ASSUME t \in Orphans' PROVE s \in Orphans OBVIOUS
  <2>2. t \in snaps' /\ \A d \in Content : ~Claimed(t, d)' BY <2>1, OrphansAreAfter
  <2> QED BY <1>4, <1>10, <2>2, OrphansAre
<1>13. s \notin Orphans' BY <1>2, <1>5 DEF Orphans
<1>14. Grown(Orphans, Orphans', 0)
  <2>1. CASE t \in Orphans'
    <3>1. \A x, y \in Orphans' \ Orphans : x = y BY <1>11
    <3> QED BY <1>6, <1>12, <1>13, <2>1, <3>1, Growth
  <2>2. CASE t \notin Orphans'
    <3>1. Orphans' \subseteq Orphans BY <1>11, <2>2
    <3> QED BY <1>6, <3>1, Growth
  <2> QED BY <2>1, <2>2
<1> QED BY <1>2, <1>7, <1>8, <1>9, <1>14, LeakSnapshots

(* A snapshot DeleteSnapshot leaves is paid for by the failure of its       *)
(* script.                                                                  *)
LEMMA LeakDeleteSnapshot ==
    ASSUME SafeInv, SafeInv', LeakInv, NEW c \in Content, DeleteSnapshot(c)
    PROVE  LeakInv'
<1>1. PICK new : new = [op |-> "remove", content |-> c, id |-> content[c].id] OBVIOUS
<1>2. /\ content[c].st \in {"made", "doomed"}
      /\ \E st : content' = [content EXCEPT ![c].st = st]
      /\ \/ RemoveSnapshot(content[c].id) /\ (UNCHANGED faults \/ Fault)
         \/ UNCHANGED snaps /\ Fault
      /\ UNCHANGED late \/ late' = late \cup {new}
      /\ UNCHANGED <<disk, share, pv, clock>>
  BY <1>1 DEF DeleteSnapshot
<1>3. \A d \in Content : d # c => content'[d] = content[d] BY <1>2 DEF SafeInv, Typed
<1>4. snaps' \subseteq snaps BY <1>2 DEF RemoveSnapshot
<1>5. IsFiniteSet(Orphans) /\ IsFiniteSet(LateCheckpoints) /\ IsFiniteSet(snaps) /\ IsFiniteSet(late)
  BY FiniteLeaks DEF LeakInv, FiniteParts
<1>6. IsFiniteSet(snaps') BY <1>4, <1>5, Fewer
<1>7. IsFiniteSet(late') BY <1>2, <1>5, FS_AddElement
<1>8. Grown(LateCheckpoints, LateCheckpoints', 0)
  <2>1. new.op = "remove" BY <1>1
  <2>2. LateCheckpoints' \subseteq LateCheckpoints BY <1>2, <2>1 DEF LateCheckpoints
  <2> QED BY <1>5, <2>2, Growth
<1>9. ASSUME NEW s \in Orphans' \ Orphans PROVE s \in snaps' /\ s \in snaps /\ s.id = content[c].id
  <2>1. s \in snaps' /\ s \in snaps /\ \A d \in Content : ~Claimed(s, d)' BY <1>4, OrphansAreAfter
  <2>2. PICK d \in Content : Claimed(s, d) BY <2>1, OrphansAre
  <2>3. d = c
    <3>1. SUFFICES ASSUME d # c PROVE Claimed(s, d)' BY <2>1
    <3>2. content'[d] = content[d] BY <1>3, <3>1
    <3> QED BY <1>4, <2>2, <3>2 DEF Claimed
  <2> QED BY <1>2, <2>1, <2>2, <2>3 DEF Claimed
<1>10. CASE RemoveSnapshot(content[c].id) /\ (UNCHANGED faults \/ Fault)
  <2>1. \A s \in snaps' : s.id # content[c].id BY <1>10 DEF RemoveSnapshot
  <2>2. Orphans' \subseteq Orphans BY <1>9, <2>1
  <2>3. Grown(Orphans, Orphans', 0) BY <1>5, <2>2, Growth
  <2>4. Allowed(0, 0, 0) BY <1>10, Allowance
  <2> QED BY <1>2, <1>6, <1>7, <1>8, <2>3, <2>4, LeakSnapshots
<1>11. CASE UNCHANGED snaps /\ Fault
  <2>1. \A x, y \in Orphans' \ Orphans : x = y BY <1>9 DEF SafeInv, UniqueIds
  <2>2. Grown(Orphans, Orphans', 1) BY <1>5, <2>1, Growth
  <2>3. Allowed(1, 0, 0) BY <1>11, Allowance
  <2> QED BY <1>2, <1>6, <1>7, <1>8, <2>2, <2>3, LeakSnapshots
<1> QED BY <1>2, <1>10, <1>11

(* A late checkpoint was counted when the driver gave up on it: it makes a  *)
(* snapshot nobody waits for, or takes the place of the one that somebody   *)
(* does wait for.                                                           *)
LEMMA LeakLateScript ==
    ASSUME SafeInv, SafeInv', LeakInv, NEW l \in late, LateScript(l)
    PROVE  LeakInv'
<1>1. PICK c \in Content : c = l.content BY DEF SafeInv, Typed
<1>2. PICK p : p = pv[content[c].vol].path OBVIOUS
<1>3. /\ late' = late \ {l} /\ UNCHANGED <<disk, share, pv, content, faults>>
      /\ \/ RemoveSnapshot(l.id)
         \/ l.op = "checkpoint" /\ Checkpoint(p, c, TRUE)
         \/ UNCHANGED snaps
  BY <1>1, <1>2 DEF LateScript
<1>4. IsFiniteSet(Orphans) /\ IsFiniteSet(LateCheckpoints) /\ IsFiniteSet(snaps) /\ IsFiniteSet(late)
  BY FiniteLeaks DEF LeakInv, FiniteParts
<1>5. IsFiniteSet(late') BY <1>3, <1>4, FS_RemoveElement
<1>6. LateCheckpoints' \subseteq LateCheckpoints BY <1>3 DEF LateCheckpoints
<1>7. Allowed(0, 0, 0) /\ Allowed(1, 0, 0 - 1) BY <1>3, Allowance
<1>8. CASE snaps' \subseteq snaps
  <2>1. ASSUME NEW s \in snaps', NEW d \in Content, Claimed(s, d) PROVE Claimed(s, d)'
    BY <1>3, <1>8, <2>1 DEF Claimed
  <2>2. Orphans' \subseteq Orphans BY <1>8, <2>1, OrphansAre, OrphansAreAfter
  <2>3. Grown(Orphans, Orphans', 0) /\ Grown(LateCheckpoints, LateCheckpoints', 0)
    BY <1>4, <1>6, <2>2, Growth
  <2>4. IsFiniteSet(snaps') BY <1>4, <1>8, Fewer
  <2> QED BY <1>3, <1>5, <1>7, <2>3, <2>4, LeakSnapshots
<1>9. CASE l.op = "checkpoint" /\ Checkpoint(p, c, TRUE)
  <2>1. PICK n : Fresh(n, p, c) BY <1>9, Taken
  <2>2. snaps' = snaps \cup {n} /\ n.description = c BY <2>1 DEF Fresh
  <2>3. IsFiniteSet(snaps') BY <1>4, <2>2, FS_AddElement
  <2>4. l \in LateCheckpoints /\ l \notin LateCheckpoints' BY <1>3, <1>9 DEF LateCheckpoints
  <2>5. Grown(LateCheckpoints, LateCheckpoints', 0 - 1) BY <1>4, <1>6, <2>4, Growth
  <2>6. content' = content BY <1>3
  <2>7. ASSUME NEW s \in Orphans' \ Orphans, s # n
        PROVE  /\ s \in snaps /\ content[c].st = "taking" /\ s.description = c
               /\ \A t \in snaps : t.description = c => ~(t.id > s.id)
    <3>1. s \in snaps /\ \A d \in Content : ~Claimed(s, d)' BY <2>2, <2>7, OrphansAreAfter
    <3>2. PICK d \in Content : Claimed(s, d) BY <3>1, OrphansAre
    <3>3. d = c
      <4>1. SUFFICES ASSUME d # c PROVE Claimed(s, d)' BY <3>1
      <4>2. \A t \in snaps' : t.description = d => t \in snaps BY <2>2, <4>1
      <4> QED BY <2>6, <3>2, <4>2 DEF Claimed
    <3>4. ~(content[c].st \in {"made", "doomed"} /\ content[c].id = s.id)
      BY <2>6, <3>1 DEF Claimed
    <3> QED BY <3>1, <3>2, <3>3, <3>4 DEF Claimed
  <2>8. content[c].st = "taking" => n \notin Orphans'
    <3>1. SUFFICES ASSUME content[c].st = "taking" PROVE n \notin Orphans' OBVIOUS
    <3>2. ASSUME NEW t \in snaps' PROVE ~(t.id > n.id)
      <4>1. PICK i : i = clock OBVIOUS
      <4>2. i \in Nat /\ n.id = i + 1 BY <2>1, <4>1 DEF Fresh, SafeInv, Typed
      <4>3. t = n \/ t.id \in 1..i BY <2>2, <4>1, SnapTypes DEF SafeInv
      <4>4. ~(i + 1 > i + 1) /\ \A j \in 1..i : ~(j > i + 1) BY ONLY <4>2
      <4> QED BY <4>2, <4>3, <4>4
    <3>3. Claimed(n, c)' BY <2>2, <2>6, <3>1, <3>2 DEF Claimed
    <3> QED BY <3>3, OrphansAreAfter
  <2>9. \A x, y \in Orphans' \ Orphans : x = y
    <3>1. SUFFICES ASSUME NEW x \in Orphans' \ Orphans, NEW y \in Orphans' \ Orphans PROVE x = y
      OBVIOUS
    <3>2. CASE content[c].st = "taking"
      <4>1. x # n /\ y # n BY <2>8, <3>2
      <4> QED BY <2>7, <4>1, OneNewest
    <3>3. CASE content[c].st # "taking" BY <2>7, <3>3
    <3> QED BY <3>2, <3>3
  <2>10. Grown(Orphans, Orphans', 1) BY <1>4, <2>9, Growth
  <2> QED BY <1>3, <1>5, <1>7, <2>3, <2>5, <2>10, LeakSnapshots
<1> QED BY <1>3, <1>8, <1>9 DEF RemoveSnapshot

(* At the start nothing has leaked. *)
LEMMA LeakInit == Init => LeakInv
<1> SUFFICES ASSUME Init PROVE LeakInv OBVIOUS
<1>1. snaps = {} /\ late = {} /\ InUse = {} BY DEF Init, InUse
<1>2. Orphans = {} /\ LateCheckpoints = {} /\ OrphanDisks = {}
  BY <1>1 DEF Orphans, LateCheckpoints, OrphanDisks, InUse
<1>3. IsFiniteSet({}) /\ Cardinality({}) = 0 BY FS_EmptySet
<1>4. faults = 0 BY DEF Init
<1> QED BY <1>1, <1>2, <1>3, <1>4 DEF LeakInv, FiniteParts

(* A step that changes nothing leaks nothing. *)
LEMMA LeakStutter == LeakInv /\ UNCHANGED vars => LeakInv'
<1> SUFFICES ASSUME LeakInv, UNCHANGED vars PROVE LeakInv' OBVIOUS
<1>1. UNCHANGED <<disk, share, snaps, pv, content, late, clock, faults>> BY DEF vars
<1>2. Orphans' = Orphans BY <1>1 DEF Orphans
<1>3. /\ OrphanDisks' = OrphanDisks /\ InUse' = InUse /\ LateCheckpoints' = LateCheckpoints
  BY <1>1 DEF OrphanDisks, InUse, LateCheckpoints
<1> QED BY <1>1, <1>2, <1>3 DEF LeakInv, FiniteParts

(* No step leaks more than it pays for. *)
LEMMA LeakNext == SafeInv /\ SafeInv' /\ LeakInv /\ [Next]_vars => LeakInv'
<1> SUFFICES ASSUME SafeInv, SafeInv', LeakInv, Next PROVE LeakInv' BY LeakStutter
<1>1. CASE \E v \in Volume : \E r \in Claim[v] : r.source = "empty" /\ CreateVolume(v, r.class, r.range)
  BY <1>1, LeakCreateVolume
<1>2. CASE \E v \in Volume : \E class \in Imported[v] : Import(v, class)
  BY <1>2, LeakCreateVolume
<1>3. CASE \E v \in Volume : \E r \in Claim[v], c \in Content :
              r.source = "snapshot" /\ CreateVolumeFrom(v, r.class, r.range, c)
  BY <1>3, LeakCreateVolumeFrom
<1>4. CASE \E v \in Volume : Write(v)
  BY <1>4, LeakWrite
<1>5. CASE \E v \in Volume : \E want \in 1..MaxSize : ControllerExpandVolume(v, want)
  BY <1>5, LeakExpand
<1>6. CASE \E v \in Volume : DeleteVolume(v)
  BY <1>6, LeakDeleteVolume
<1>7. CASE \E c \in Content, v \in Volume : CreateSnapshot(c, v)
  BY <1>7, LeakCreateSnapshot
<1>8. CASE \E c \in Content : FindSnapshot(c)
  BY <1>8, LeakFindSnapshot
<1>9. CASE \E c \in Content : DeleteSnapshot(c)
  BY <1>9, LeakDeleteSnapshot
<1>10. CASE \E s \in snaps : Listed(s)
  BY <1>10, LeakListed
<1>11. CASE \E s \in late : LateScript(s)
  BY <1>11, LeakLateScript
<1> QED BY <1>1, <1>2, <1>3, <1>4, <1>5, <1>6, <1>7, <1>8, <1>9, <1>10, <1>11 DEF Next

(* The count bounds the leaks: scripts still to come only add to it. *)
LEMMA LeaksCounted == ASSUME SafeInv, LeakInv PROVE LeaksAreFailures
<1>1. IsFiniteSet(Orphans) /\ IsFiniteSet(OrphanDisks) /\ IsFiniteSet(LateCheckpoints)
  BY FiniteLeaks DEF LeakInv
<1>2. PICK a, b, c, f : /\ a = Cardinality(Orphans) /\ b = Cardinality(OrphanDisks)
                        /\ c = Cardinality(LateCheckpoints) /\ f = faults
  OBVIOUS
<1>3. a \in Nat /\ b \in Nat /\ c \in Nat BY <1>1, <1>2, FS_CardinalityType
<1>4. \A n \in 0..MaxFaults : n \in Nat BY BoundAssumption
<1>5. f \in Nat /\ a + b + c <= f BY <1>2, <1>4 DEF SafeInv, Typed, LeakInv
<1>6. a + b <= f BY ONLY <1>3, <1>5
<1> QED BY <1>2, <1>6 DEF LeaksAreFailures

(* LeaksAreFailures always holds: a snapshot nobody can name or a disk       *)
(* exported for nobody is left only by a call of CreateSnapshot,             *)
(* DeleteSnapshot or CreateVolume that failed, at most one by each, however  *)
(* late its script comes to an end and however many volumes there are.       *)
THEOREM LeaksAlwaysFailures == Spec => []LeaksAreFailures
<1>1. Spec => [](SafeInv /\ LeakInv)
  <2>1. SafeInv /\ LeakInv /\ [Next]_vars => SafeInv' /\ LeakInv' BY SafeNext, LeakNext
  <2> QED BY SafeInit, LeakInit, <2>1, PTL DEF Spec
<1>2. SafeInv /\ LeakInv => LeaksAreFailures BY LeaksCounted
<1> QED BY <1>1, <1>2, PTL

=============================================================================
