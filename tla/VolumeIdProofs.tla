---------------------------- MODULE VolumeIdProofs ----------------------------
(***************************************************************************)
(* What the decoders of volumeid.go and controllerserver.go make of the    *)
(* IDs the encoders wrote, and what the node finds in IDs and contexts.    *)
(***************************************************************************)
EXTENDS VolumeId, SequenceTheorems, TLAPS

(* The VolumeID structs whose texts are in Text. *)
VolumeIDs(Text) ==
    [protocol : Text, name : Text, shareBackend : Text, sharePath : Text,
     targetPortal : Text, targetName : Text, targetIQN : Text, lun : Text,
     vhdxPath : Text, nfsServer : Text, nfsExportPath : Text, nfsAuthentication : Text,
     nfsMountAuthentication : Text, smbServer : Text, smbShareName : Text,
     capacity : Nat]

(* Structs are equal if their fields are. *)
LEMMA SameFields ==
    ASSUME NEW Text, NEW v \in VolumeIDs(Text), NEW w \in VolumeIDs(Text),
           v.protocol = w.protocol, v.name = w.name, v.shareBackend = w.shareBackend,
           v.sharePath = w.sharePath, v.targetPortal = w.targetPortal,
           v.targetName = w.targetName, v.targetIQN = w.targetIQN, v.lun = w.lun,
           v.vhdxPath = w.vhdxPath, v.nfsServer = w.nfsServer,
           v.nfsExportPath = w.nfsExportPath,
           v.nfsAuthentication = w.nfsAuthentication,
           v.nfsMountAuthentication = w.nfsMountAuthentication,
           v.smbServer = w.smbServer, v.smbShareName = w.smbShareName,
           v.capacity = w.capacity
    PROVE  v = w
BY DEF VolumeIDs

(* The empty struct is one of them. *)
LEMMA EmptyIDType == ASSUME NEW Text, "" \in Text, "0" \in Text PROVE EmptyID \in VolumeIDs(Text)
BY DEF EmptyID, VolumeIDs

-----------------------------------------------------------------------------
(* What Windows and the code need of an ID that is written as a URI: a name,*)
(* a host that parses, what the protocol cannot do without, and nothing     *)
(* that belongs to another protocol.                                        *)
NoNfs(v) ==
    /\ v.nfsServer = "" /\ v.nfsExportPath = ""
    /\ v.nfsAuthentication = "" /\ v.nfsMountAuthentication = ""

Writable(v) ==
    /\ v.name # ""
    /\ \/ /\ v.protocol = "iscsi"
          /\ v.targetPortal # "" /\ ParsesAsHost(v.targetPortal)
          /\ DefaultPort(v.targetPortal) = v.targetPortal
          /\ v.targetIQN \in Name /\ v.lun \in Numeral /\ ShouldEncodeLUN(v)
          /\ NoNfs(v) /\ v.smbServer = "" /\ v.smbShareName = ""
       \/ /\ v.protocol = "nfs"
          /\ v.nfsServer # "" /\ \E n \in Name : v.nfsExportPath = Rooted(n)
          /\ ParsesAsHost(IF v.targetPortal = "" THEN v.nfsServer ELSE v.targetPortal)
          /\ v.targetIQN = "" /\ v.lun = "0" /\ v.smbServer = "" /\ v.smbShareName = ""
       \/ /\ v.protocol = "smb"
          /\ v.smbServer # "" /\ v.smbShareName \in Name /\ ParsesAsHost(v.smbServer)
          /\ v.targetPortal = "" /\ v.targetIQN = "" /\ v.lun = "0" /\ NoNfs(v)

(* What comes back of it: the text in the path is unescaped once too often. *)
Unescaped(v) ==
    CASE v.protocol = "iscsi" -> [v EXCEPT !.targetIQN = Unescape(v.targetIQN)]
      [] v.protocol = "nfs" ->
           [v EXCEPT !.nfsExportPath =
              Rooted(Unescape(CHOOSE n \in Name : Rooted(n) = v.nfsExportPath))]
      [] v.protocol = "smb" -> [v EXCEPT !.smbShareName = Unescape(v.smbShareName)]

(* Reading by key and by field is the same. *)
LEMMA FieldRead ==
    ASSUME NEW Text, NEW v \in VolumeIDs(Text)
    PROVE  /\ v["name"] = v.name /\ v["vhdxPath"] = v.vhdxPath
           /\ v["shareBackend"] = v.shareBackend /\ v["sharePath"] = v.sharePath
           /\ v["targetName"] = v.targetName /\ v["targetPortal"] = v.targetPortal
           /\ v["nfsServer"] = v.nfsServer /\ v["smbServer"] = v.smbServer
           /\ v["nfsAuthentication"] = v.nfsAuthentication
           /\ v["nfsMountAuthentication"] = v.nfsMountAuthentication
           /\ v["targetIQN"] = v.targetIQN /\ v["lun"] = v.lun
BY DEF VolumeIDs

(* The query of an encoded ID gives back the fields that are in it. *)
LEMMA EncodedQuery ==
    ASSUME NEW Text, NEW v \in VolumeIDs(Text), NEW q, q = EncodeVolumeID(v).query
    PROVE  /\ Get(q, "name") = v.name /\ Get(q, "vhdxPath") = v.vhdxPath
           /\ Get(q, "shareBackend") = v.shareBackend /\ Get(q, "sharePath") = v.sharePath
           /\ Get(q, "targetName") = v.targetName
           /\ v.protocol = "nfs" => /\ Get(q, "targetPortal") = v.targetPortal
                                    /\ Get(q, "nfsServer") = v.nfsServer
                                    /\ Get(q, "nfsAuthentication") = v.nfsAuthentication
                                    /\ Get(q, "nfsMountAuthentication") = v.nfsMountAuthentication
           /\ v.protocol = "smb" => Get(q, "smbServer") = v.smbServer
           /\ "name" \in DOMAIN q
<1> DEFINE p == v.protocol
<1>1. q = [j \in {j \in QueryKeys(p) : j = "name" \/ v[j] # ""} |-> v[j]]
  BY DEF EncodeVolumeID
<1>2. /\ {"name", "vhdxPath", "shareBackend", "sharePath", "targetName"} \subseteq QueryKeys(p)
      /\ p = "nfs" => {"targetPortal", "nfsServer", "nfsAuthentication",
                       "nfsMountAuthentication"} \subseteq QueryKeys(p)
      /\ p = "smb" => "smbServer" \in QueryKeys(p)
  BY DEF QueryKeys
<1>3. "name" \in DOMAIN q BY <1>1, <1>2
<1> HIDE DEF p
(* A parameter that is left out because it is empty reads as empty. *)
<1>4. ASSUME NEW k \in QueryKeys(p) PROVE Get(q, k) = v[k] BY <1>1 DEF Get
<1>5. /\ Get(q, "name") = v["name"] /\ Get(q, "vhdxPath") = v["vhdxPath"]
      /\ Get(q, "shareBackend") = v["shareBackend"] /\ Get(q, "sharePath") = v["sharePath"]
      /\ Get(q, "targetName") = v["targetName"]
  BY <1>2, <1>4
<1>6. /\ p = "nfs" => /\ Get(q, "targetPortal") = v["targetPortal"]
                      /\ Get(q, "nfsServer") = v["nfsServer"]
                      /\ Get(q, "nfsAuthentication") = v["nfsAuthentication"]
                      /\ Get(q, "nfsMountAuthentication") = v["nfsMountAuthentication"]
      /\ p = "smb" => Get(q, "smbServer") = v["smbServer"]
  BY <1>2, <1>4
<1> QED BY <1>3, <1>5, <1>6, FieldRead DEF p

(* Joining single segments. *)
LEMMA JoinedSegments ==
    ASSUME NEW a, NEW b, NEW c, NEW s, s = <<a>> \o <<b>> \o <<c>>
    PROVE  Len(s) = 3 /\ s[1] = a /\ s[2] = b /\ s[3] = c
<1> DEFINE S == {a, b, c}
<1>1. <<a>> \in Seq(S) /\ <<b>> \in Seq(S) /\ <<c>> \in Seq(S) OBVIOUS
<1> HIDE DEF S
<1>2. PICK x \in Seq(S) : x = <<a>> BY <1>1
<1>3. PICK y \in Seq(S) : y = <<b>> BY <1>1
<1>4. PICK z \in Seq(S) : z = <<c>> BY <1>1
<1>5. Len(x) = 1 /\ x[1] = a /\ Len(y) = 1 /\ y[1] = b /\ Len(z) = 1 /\ z[1] = c
  BY <1>2, <1>3, <1>4
<1> DEFINE xy == x \o y
<1>6. /\ xy \in Seq(S) /\ Len(xy) = Len(x) + Len(y)
      /\ \A i \in 1..(Len(x) + Len(y)) : xy[i] = IF i <= Len(x) THEN x[i] ELSE y[i - Len(x)]
  BY ConcatProperties
<1>7. xy \in Seq(S) BY <1>6
<1>8. s = xy \o z BY <1>2, <1>3, <1>4
<1> HIDE DEF xy
<1>9. Len(xy) = 2 /\ xy[1] = a /\ xy[2] = b BY <1>5, <1>6
<1>10. /\ Len(xy \o z) = Len(xy) + Len(z)
       /\ \A i \in 1..(Len(xy) + Len(z)) :
             (xy \o z)[i] = IF i <= Len(xy) THEN xy[i] ELSE z[i - Len(xy)]
  BY <1>7, ConcatProperties
<1> QED BY <1>5, <1>8, <1>9, <1>10

(* The one segment in the path of an export. *)
LEMMA Unrooted ==
    ASSUME NEW n \in Name, NEW p, p = Rooted(n)
    PROVE  (CHOOSE m \in Name : Rooted(m) = p) = n /\ SplitPath(p) = <<Unescape(n)>>
<1>1. \A m \in Name : Rooted(m) = p => m = n BY TextAssumption
<1>2. (CHOOSE m \in Name : Rooted(m) = p) = n BY <1>1
<1>3. p \notin Name /\ p \notin {"", "/"} BY TextAssumption
<1> QED BY <1>2, <1>3 DEF SplitPath

(* Unescaping the one segment there is. *)
LEMMA OneSegment ==
    ASSUME NEW e, NEW path, path = <<e>>
    PROVE  First(path) = e /\ First(PathSegments(path)) = Unescape(e) /\ ExportPath(path) = Rooted(e)
<1>1. path # <<>> /\ path[1] = e /\ DOMAIN path = {1} OBVIOUS
<1>2. PICK t : t = PathSegments(path) OBVIOUS
<1>3. DOMAIN t = {1} /\ t[1] = Unescape(e) BY <1>1, <1>2 DEF PathSegments
<1>4. t # <<>>
  <2>1. DOMAIN <<>> = {} OBVIOUS
  <2> QED BY <1>3, <2>1
<1> QED BY <1>1, <1>2, <1>3, <1>4 DEF First, ExportPath

(* The segments of an encoded path. *)
PathParts(v) ==
    \/ v.protocol = "iscsi" /\ v.targetIQN \in Name /\ v.lun \in Numeral /\ ShouldEncodeLUN(v)
    \/ v.protocol = "nfs" /\ \E n \in Name : v.nfsExportPath = Rooted(n)
    \/ v.protocol = "smb" /\ v.smbShareName \in Name

(* What the decoder takes from the path segments that were written. *)
LEMMA EncodedPath ==
    ASSUME NEW v, PathParts(v), NEW path, path = EncodeVolumeID(v).path
    PROVE  /\ v.protocol = "iscsi" => /\ First(PathSegments(path)) = Unescape(v.targetIQN)
                                      /\ LunIn(PathSegments(path)) = v.lun
           /\ v.protocol = "nfs" =>
                ExportPath(path) =
                  Rooted(Unescape(CHOOSE n \in Name : Rooted(n) = v.nfsExportPath))
           /\ v.protocol = "smb" => First(PathSegments(path)) = Unescape(v.smbShareName)
<1>1. CASE v.protocol = "iscsi"
  <2>1. path = Segment(v.targetIQN) \o <<"lun">> \o Segment(v.lun)
    BY <1>1 DEF PathParts, EncodeVolumeID
  <2>s. path = <<v.targetIQN>> \o <<"lun">> \o <<v.lun>>
    BY <1>1, <2>1, TextAssumption DEF PathParts, Segment
  <2>2. Len(path) = 3 /\ path[1] = v.targetIQN /\ path[2] = "lun" /\ path[3] = v.lun
    BY <2>s, JoinedSegments
  <2>d. DOMAIN path = 1..3
    <3>1. <<v.targetIQN>> \o <<"lun">> \o <<v.lun>> \in Seq({v.targetIQN, "lun", v.lun})
      OBVIOUS
    <3> QED BY <2>s, <2>2, <3>1
  <2>t. PICK t : t = PathSegments(path) OBVIOUS
  <2>u. t = [i \in 1..3 |-> Unescape(path[i])] BY <2>d, <2>t DEF PathSegments
  <2>v. /\ Len(t) = 3 /\ t[1] = Unescape(v.targetIQN) /\ t[2] = "lun" /\ t[3] = v.lun
    <3>1. Unescape("lun") = "lun" /\ Unescape(v.lun) = v.lun
      BY <1>1, TextAssumption DEF PathParts
    <3>2. t[1] = Unescape(path[1]) /\ t[2] = Unescape(path[2]) /\ t[3] = Unescape(path[3])
      BY <2>u
    <3>3. Len(t) = 3 BY <2>u
    <3> QED BY <2>2, <3>1, <3>2, <3>3
  <2>3. {i \in 2..(Len(t) - 1) : t[i] = "lun"} = {2}
    BY <2>v
  <2>4. (CHOOSE i \in {2} : \A j \in {2} : i <= j) = 2 OBVIOUS
  <2>5. LunIn(t) = t[1 + 2] BY <2>3, <2>4 DEF LunIn
  <2>6. t # <<>>
    <3>1. Len(<<>>) = 0 OBVIOUS
    <3> QED BY <2>v, <3>1
  <2> QED BY <1>1, <2>t, <2>v, <2>5, <2>6 DEF First
<1>2. CASE v.protocol = "nfs"
  <2>1. PICK n \in Name : v.nfsExportPath = Rooted(n) BY <1>2 DEF PathParts
  <2>2. path = SplitPath(v.nfsExportPath) BY <1>2 DEF EncodeVolumeID
  <2>3. path = <<Unescape(n)>> /\ (CHOOSE m \in Name : Rooted(m) = v.nfsExportPath) = n
    BY <2>1, <2>2, Unrooted
  <2>4. ExportPath(path) = Rooted(Unescape(n)) BY <2>3, OneSegment
  <2> QED BY <1>2, <2>3, <2>4
<1>3. CASE v.protocol = "smb"
  <2>1. path = <<v.smbShareName>>
    BY <1>3, TextAssumption DEF PathParts, EncodeVolumeID, Segment
  <2> QED BY <1>3, <2>1, OneSegment
<1> QED BY <1>1, <1>2, <1>3 DEF PathParts

-----------------------------------------------------------------------------
(* Every part of the URI u says what the struct v does. *)
Server(u, k) == IF Get(u.query, k) = "" THEN HostOnly(u.host) ELSE Get(u.query, k)

SaysCommon(u, v) ==
    /\ u.scheme = v.protocol /\ ParsesAsHost(u.host) /\ u.capacity = v.capacity
    /\ Get(u.query, "name") = v.name /\ v.name # ""
    /\ Get(u.query, "shareBackend") = v.shareBackend
    /\ Get(u.query, "sharePath") = v.sharePath
    /\ Get(u.query, "targetName") = v.targetName
    /\ Get(u.query, "vhdxPath") = v.vhdxPath

SaysIscsi(u, v) ==
    /\ v.protocol = "iscsi"
    /\ DefaultPort(u.host) = v.targetPortal /\ v.targetPortal # ""
    /\ First(PathSegments(u.path)) = v.targetIQN /\ v.targetIQN # ""
    /\ LunIn(PathSegments(u.path)) = v.lun /\ v.lun \in Numeral
    /\ NoNfs(v) /\ v.smbServer = "" /\ v.smbShareName = ""

SaysNfs(u, v) ==
    /\ v.protocol = "nfs"
    /\ Get(u.query, "targetPortal") = v.targetPortal
    /\ Server(u, "nfsServer") = v.nfsServer /\ v.nfsServer # ""
    /\ ExportPath(u.path) = v.nfsExportPath /\ v.nfsExportPath \notin {"", "/"}
    /\ Get(u.query, "nfsAuthentication") = v.nfsAuthentication
    /\ Get(u.query, "nfsMountAuthentication") = v.nfsMountAuthentication
    /\ v.targetIQN = "" /\ v.lun = "0" /\ v.smbServer = "" /\ v.smbShareName = ""

SaysSmb(u, v) ==
    /\ v.protocol = "smb"
    /\ Server(u, "smbServer") = v.smbServer /\ v.smbServer # ""
    /\ First(PathSegments(u.path)) = v.smbShareName /\ v.smbShareName # ""
    /\ v.targetPortal = "" /\ v.targetIQN = "" /\ v.lun = "0" /\ NoNfs(v)

Says(u, v) == SaysCommon(u, v) /\ (SaysIscsi(u, v) \/ SaysNfs(u, v) \/ SaysSmb(u, v))

(* What every protocol reads from a URI. *)
CommonRead(u) ==
    [EmptyID EXCEPT !.protocol = u.scheme, !.name = Get(u.query, "name"),
       !.shareBackend = Get(u.query, "shareBackend"), !.sharePath = Get(u.query, "sharePath"),
       !.targetName = Get(u.query, "targetName"), !.vhdxPath = Get(u.query, "vhdxPath"),
       !.capacity = u.capacity]

(* The fields of a struct w of which only these were read, from what says v. *)
AgreeCommon(w, v) ==
    /\ w.protocol = v.protocol /\ w.name = v.name /\ w.shareBackend = v.shareBackend
    /\ w.sharePath = v.sharePath /\ w.targetName = v.targetName
    /\ w.vhdxPath = v.vhdxPath /\ w.capacity = v.capacity
    /\ w.targetPortal = "" /\ w.targetIQN = "" /\ w.lun = "0" /\ NoNfs(w)
    /\ w.smbServer = "" /\ w.smbShareName = ""

(* The fields every protocol has are read as they were written. *)
LEMMA CommonFields ==
    ASSUME NEW Text, "" \in Text, "0" \in Text, NEW u, NEW v \in VolumeIDs(Text),
           SaysCommon(u, v)
    PROVE  CommonRead(u) \in VolumeIDs(Text) /\ AgreeCommon(CommonRead(u), v)
<1> DEFINE w == CommonRead(u)
<1>1. w = [EmptyID EXCEPT !.protocol = v.protocol, !.name = v.name,
             !.shareBackend = v.shareBackend, !.sharePath = v.sharePath,
             !.targetName = v.targetName, !.vhdxPath = v.vhdxPath, !.capacity = v.capacity]
  BY DEF CommonRead, SaysCommon
<1>2. EmptyID \in VolumeIDs(Text) BY EmptyIDType
<1> HIDE DEF w
<1>3. w \in VolumeIDs(Text) BY <1>1, <1>2 DEF VolumeIDs
<1>4. /\ w.protocol = v.protocol /\ w.name = v.name /\ w.shareBackend = v.shareBackend
      /\ w.sharePath = v.sharePath /\ w.targetName = v.targetName
      /\ w.vhdxPath = v.vhdxPath /\ w.capacity = v.capacity
  BY <1>1, <1>2 DEF VolumeIDs
<1>5. /\ w.targetPortal = "" /\ w.targetIQN = "" /\ w.lun = "0" /\ NoNfs(w)
      /\ w.smbServer = "" /\ w.smbShareName = ""
  BY <1>1 DEF EmptyID, NoNfs
<1>6. AgreeCommon(w, v) BY <1>4, <1>5 DEF AgreeCommon
<1> QED BY <1>3, <1>6 DEF w

(* Then v is what is read, unvalidated. *)
LEMMA IscsiRead ==
    ASSUME NEW Text, "" \in Text, "0" \in Text, NEW u, NEW v \in VolumeIDs(Text),
           SaysCommon(u, v), SaysIscsi(u, v)
    PROVE  [CommonRead(u) EXCEPT !.targetPortal = DefaultPort(u.host),
                                 !.targetIQN = First(PathSegments(u.path)),
                                 !.lun = IF LunIn(PathSegments(u.path)) = "" THEN "0"
                                         ELSE LunIn(PathSegments(u.path))] = v
<1>0. PICK w : w = CommonRead(u) OBVIOUS
<1> DEFINE x == [w EXCEPT !.targetPortal = v.targetPortal, !.targetIQN = v.targetIQN, !.lun = v.lun]
<1>1. w \in VolumeIDs(Text) /\ AgreeCommon(w, v) BY <1>0, CommonFields
<1>2. x \in VolumeIDs(Text) BY <1>1 DEF VolumeIDs
<1>3. /\ x.protocol = v.protocol /\ x.name = v.name /\ x.shareBackend = v.shareBackend
      /\ x.sharePath = v.sharePath /\ x.targetName = v.targetName
      /\ x.vhdxPath = v.vhdxPath /\ x.capacity = v.capacity
      /\ x.targetPortal = v.targetPortal /\ x.targetIQN = v.targetIQN /\ x.lun = v.lun
      /\ x.nfsServer = v.nfsServer /\ x.nfsExportPath = v.nfsExportPath
      /\ x.nfsAuthentication = v.nfsAuthentication
      /\ x.nfsMountAuthentication = v.nfsMountAuthentication
      /\ x.smbServer = v.smbServer /\ x.smbShareName = v.smbShareName
  BY <1>1 DEF VolumeIDs, AgreeCommon, SaysIscsi, NoNfs
<1>4. x = v
  <2> HIDE DEF x
  <2> QED BY <1>2, <1>3, SameFields
<1> QED BY <1>0, <1>4, TextAssumption DEF SaysIscsi

(* The decoder's struct of an NFS URI is the struct the URI says. *)
LEMMA NfsRead ==
    ASSUME NEW Text, "" \in Text, "0" \in Text, NEW u, NEW v \in VolumeIDs(Text),
           SaysCommon(u, v), SaysNfs(u, v)
    PROVE  [CommonRead(u) EXCEPT !.targetPortal = Get(u.query, "targetPortal"),
                                 !.nfsServer = Server(u, "nfsServer"),
                                 !.nfsExportPath = ExportPath(u.path),
                                 !.nfsAuthentication = Get(u.query, "nfsAuthentication"),
                                 !.nfsMountAuthentication = Get(u.query, "nfsMountAuthentication")] = v
<1>0. PICK w : w = CommonRead(u) OBVIOUS
<1> DEFINE x == [w EXCEPT !.targetPortal = v.targetPortal, !.nfsServer = v.nfsServer,
                          !.nfsExportPath = v.nfsExportPath,
                          !.nfsAuthentication = v.nfsAuthentication,
                          !.nfsMountAuthentication = v.nfsMountAuthentication]
<1>1. w \in VolumeIDs(Text) /\ AgreeCommon(w, v) BY <1>0, CommonFields
<1>2. x \in VolumeIDs(Text) BY <1>1 DEF VolumeIDs
<1>3. /\ x.protocol = v.protocol /\ x.name = v.name /\ x.shareBackend = v.shareBackend
      /\ x.sharePath = v.sharePath /\ x.targetName = v.targetName
      /\ x.vhdxPath = v.vhdxPath /\ x.capacity = v.capacity
      /\ x.targetPortal = v.targetPortal /\ x.targetIQN = v.targetIQN /\ x.lun = v.lun
      /\ x.nfsServer = v.nfsServer /\ x.nfsExportPath = v.nfsExportPath
      /\ x.nfsAuthentication = v.nfsAuthentication
      /\ x.nfsMountAuthentication = v.nfsMountAuthentication
      /\ x.smbServer = v.smbServer /\ x.smbShareName = v.smbShareName
  BY <1>1 DEF VolumeIDs, AgreeCommon, SaysNfs, NoNfs
<1>4. x = v
  <2> HIDE DEF x
  <2> QED BY <1>2, <1>3, SameFields
<1> QED BY <1>0, <1>4 DEF SaysNfs

(* The decoder's struct of an SMB URI is the struct the URI says. *)
LEMMA SmbRead ==
    ASSUME NEW Text, "" \in Text, "0" \in Text, NEW u, NEW v \in VolumeIDs(Text),
           SaysCommon(u, v), SaysSmb(u, v)
    PROVE  [CommonRead(u) EXCEPT !.smbServer = Server(u, "smbServer"),
                                 !.smbShareName = First(PathSegments(u.path))] = v
<1>0. PICK w : w = CommonRead(u) OBVIOUS
<1> DEFINE x == [w EXCEPT !.smbServer = v.smbServer, !.smbShareName = v.smbShareName]
<1>1. w \in VolumeIDs(Text) /\ AgreeCommon(w, v) BY <1>0, CommonFields
<1>2. x \in VolumeIDs(Text) BY <1>1 DEF VolumeIDs
<1>3. /\ x.protocol = v.protocol /\ x.name = v.name /\ x.shareBackend = v.shareBackend
      /\ x.sharePath = v.sharePath /\ x.targetName = v.targetName
      /\ x.vhdxPath = v.vhdxPath /\ x.capacity = v.capacity
      /\ x.targetPortal = v.targetPortal /\ x.targetIQN = v.targetIQN /\ x.lun = v.lun
      /\ x.nfsServer = v.nfsServer /\ x.nfsExportPath = v.nfsExportPath
      /\ x.nfsAuthentication = v.nfsAuthentication
      /\ x.nfsMountAuthentication = v.nfsMountAuthentication
      /\ x.smbServer = v.smbServer /\ x.smbShareName = v.smbShareName
  BY <1>1 DEF VolumeIDs, AgreeCommon, SaysSmb, NoNfs
<1>4. x = v
  <2> HIDE DEF x
  <2> QED BY <1>2, <1>3, SameFields
<1> QED BY <1>0, <1>4 DEF SaysSmb

(* And validation lets it pass. *)
LEMMA SaidIsRead ==
    ASSUME NEW Text, "" \in Text, "0" \in Text, NEW u, NEW v \in VolumeIDs(Text), Says(u, v)
    PROVE  DecodeURI(u) = v
<1> DEFINE lun == LunIn(PathSegments(u.path))
           w == CASE u.scheme = "iscsi" ->
                       [CommonRead(u) EXCEPT !.targetPortal = DefaultPort(u.host),
                                      !.targetIQN = First(PathSegments(u.path)),
                                      !.lun = IF lun = "" THEN "0" ELSE lun]
                  [] u.scheme = "nfs" ->
                       [CommonRead(u) EXCEPT !.targetPortal = Get(u.query, "targetPortal"),
                                      !.nfsServer = Server(u, "nfsServer"),
                                      !.nfsExportPath = ExportPath(u.path),
                                      !.nfsAuthentication = Get(u.query, "nfsAuthentication"),
                                      !.nfsMountAuthentication = Get(u.query, "nfsMountAuthentication")]
                  [] u.scheme = "smb" ->
                       [CommonRead(u) EXCEPT !.smbServer = Server(u, "smbServer"),
                                      !.smbShareName = First(PathSegments(u.path))]
<1>1. DecodeURI(u) =
        IF u.scheme \in Protocol /\ ParsesAsHost(u.host) /\ Valid(u, w, lun) THEN w ELSE EmptyID
  BY DEF DecodeURI, CommonRead, Server
<1>2. w = v
  <2>1. CASE SaysIscsi(u, v)
    <3>1. u.scheme = "iscsi" BY <2>1 DEF Says, SaysCommon, SaysIscsi
    <3> QED BY <2>1, <3>1, IscsiRead DEF Says
  <2>2. CASE SaysNfs(u, v)
    <3>1. u.scheme = "nfs" BY <2>2 DEF Says, SaysCommon, SaysNfs
    <3> QED BY <2>2, <3>1, NfsRead DEF Says
  <2>3. CASE SaysSmb(u, v)
    <3>1. u.scheme = "smb" BY <2>3 DEF Says, SaysCommon, SaysSmb
    <3> QED BY <2>3, <3>1, SmbRead DEF Says
  <2> QED BY <2>1, <2>2, <2>3 DEF Says
<1> HIDE DEF w
<1>3. u.scheme \in Protocol /\ ParsesAsHost(u.host)
  BY DEF Says, SaysCommon, SaysIscsi, SaysNfs, SaysSmb, Protocol
<1>4. Valid(u, v, lun)
  BY DEF Says, SaysCommon, SaysIscsi, SaysNfs, SaysSmb, Valid
<1> QED BY <1>1, <1>2, <1>3, <1>4

(* What comes back differs in the text of the path only. *)
LEMMA UnescapedFields ==
    ASSUME NEW Text, NEW v \in VolumeIDs(Text), Writable(v), NEW w, w = Unescaped(v)
    PROVE  /\ w.protocol = v.protocol /\ w.name = v.name /\ w.shareBackend = v.shareBackend
           /\ w.sharePath = v.sharePath /\ w.targetName = v.targetName
           /\ w.vhdxPath = v.vhdxPath /\ w.capacity = v.capacity
           /\ w.targetPortal = v.targetPortal /\ w.lun = v.lun
           /\ w.nfsServer = v.nfsServer /\ w.nfsAuthentication = v.nfsAuthentication
           /\ w.nfsMountAuthentication = v.nfsMountAuthentication /\ w.smbServer = v.smbServer
           /\ w.targetIQN = IF v.protocol = "iscsi" THEN Unescape(v.targetIQN) ELSE v.targetIQN
           /\ w.nfsExportPath =
                IF v.protocol = "nfs"
                THEN Rooted(Unescape(CHOOSE n \in Name : Rooted(n) = v.nfsExportPath))
                ELSE v.nfsExportPath
           /\ w.smbShareName = IF v.protocol = "smb" THEN Unescape(v.smbShareName)
                               ELSE v.smbShareName
<1>1. CASE v.protocol = "iscsi"
  <2>1. PICK t : t = Unescape(v.targetIQN) OBVIOUS
  <2>3. w = [v EXCEPT !.targetIQN = t] BY <1>1, <2>1 DEF Unescaped
  <2> QED BY <1>1, <2>1, <2>3 DEF VolumeIDs
<1>2. CASE v.protocol = "nfs"
  <2>1. PICK t : t = Rooted(Unescape(CHOOSE n \in Name : Rooted(n) = v.nfsExportPath)) OBVIOUS
  <2>3. w = [v EXCEPT !.nfsExportPath = t] BY <1>2, <2>1 DEF Unescaped
  <2> QED BY <1>2, <2>1, <2>3 DEF VolumeIDs
<1>3. CASE v.protocol = "smb"
  <2>1. PICK t : t = Unescape(v.smbShareName) OBVIOUS
  <2>3. w = [v EXCEPT !.smbShareName = t] BY <1>3, <2>1 DEF Unescaped
  <2> QED BY <1>3, <2>1, <2>3 DEF VolumeIDs
<1> QED BY <1>1, <1>2, <1>3 DEF Writable

(* Texts that stay texts when they are unescaped. *)
Closed(Text) ==
    /\ {"", "0"} \cup Name \subseteq Text /\ \A t \in Text : Unescape(t) \in Text
    /\ \A n \in Name : Rooted(Unescape(n)) \in Text

(* What comes back is a struct. *)
LEMMA UnescapedType ==
    ASSUME NEW Text, Closed(Text), NEW v \in VolumeIDs(Text), Writable(v)
    PROVE  Unescaped(v) \in VolumeIDs(Text)
<1>1. CASE v.protocol = "iscsi"
  <2>1. PICK t \in Text : t = Unescape(v.targetIQN) BY DEF Closed, VolumeIDs
  <2>2. Unescaped(v) = [v EXCEPT !.targetIQN = t] BY <1>1, <2>1 DEF Unescaped
  <2> QED BY <2>1, <2>2 DEF VolumeIDs
<1>2. CASE v.protocol = "nfs"
  <2>1. PICK n \in Name : v.nfsExportPath = Rooted(n) BY <1>2 DEF Writable
  <2>2. PICK t \in Text : t = Rooted(Unescape(n)) BY <2>1 DEF Closed
  <2>3. (CHOOSE m \in Name : Rooted(m) = v.nfsExportPath) = n BY <2>1, Unrooted
  <2>4. Unescaped(v) = [v EXCEPT !.nfsExportPath = t] BY <1>2, <2>2, <2>3 DEF Unescaped
  <2> QED BY <2>2, <2>4 DEF VolumeIDs
<1>3. CASE v.protocol = "smb"
  <2>1. PICK t \in Text : t = Unescape(v.smbShareName) BY DEF Closed, VolumeIDs
  <2>2. Unescaped(v) = [v EXCEPT !.smbShareName = t] BY <1>3, <2>1 DEF Unescaped
  <2> QED BY <2>1, <2>2 DEF VolumeIDs
<1> QED BY <1>1, <1>2, <1>3 DEF Writable

(* The URI EncodeVolumeID writes says every field of that. *)
LEMMA EncodedSays ==
    ASSUME NEW Text, NEW v \in VolumeIDs(Text), Writable(v)
    PROVE  Says(EncodeVolumeID(v), Unescaped(v))
<1>0. PICK u : u = EncodeVolumeID(v) OBVIOUS
<1>q. PICK q : q = EncodeVolumeID(v).query OBVIOUS
<1>p. PICK path : path = EncodeVolumeID(v).path OBVIOUS
<1>w. PICK w : w = Unescaped(v) OBVIOUS
<1>f. /\ w.protocol = v.protocol /\ w.name = v.name /\ w.shareBackend = v.shareBackend
      /\ w.sharePath = v.sharePath /\ w.targetName = v.targetName
      /\ w.vhdxPath = v.vhdxPath /\ w.capacity = v.capacity
      /\ w.targetPortal = v.targetPortal /\ w.lun = v.lun
      /\ w.nfsServer = v.nfsServer /\ w.nfsAuthentication = v.nfsAuthentication
      /\ w.nfsMountAuthentication = v.nfsMountAuthentication /\ w.smbServer = v.smbServer
      /\ w.targetIQN = IF v.protocol = "iscsi" THEN Unescape(v.targetIQN) ELSE v.targetIQN
      /\ w.nfsExportPath =
           IF v.protocol = "nfs"
           THEN Rooted(Unescape(CHOOSE n \in Name : Rooted(n) = v.nfsExportPath))
           ELSE v.nfsExportPath
      /\ w.smbShareName = IF v.protocol = "smb" THEN Unescape(v.smbShareName)
                          ELSE v.smbShareName
  BY <1>w, UnescapedFields
<1>1. u.query = q /\ u.path = path BY <1>0, <1>q, <1>p
<1>2. u.scheme = v.protocol /\ u.capacity = v.capacity BY <1>0 DEF EncodeVolumeID
<1>3. /\ Get(q, "name") = v.name /\ Get(q, "vhdxPath") = v.vhdxPath
      /\ Get(q, "shareBackend") = v.shareBackend /\ Get(q, "sharePath") = v.sharePath
      /\ Get(q, "targetName") = v.targetName
      /\ v.protocol = "nfs" => /\ Get(q, "targetPortal") = v.targetPortal
                               /\ Get(q, "nfsServer") = v.nfsServer
                               /\ Get(q, "nfsAuthentication") = v.nfsAuthentication
                               /\ Get(q, "nfsMountAuthentication") = v.nfsMountAuthentication
      /\ v.protocol = "smb" => Get(q, "smbServer") = v.smbServer
  BY <1>q, EncodedQuery
<1>4. /\ v.protocol = "iscsi" => /\ First(PathSegments(path)) = w.targetIQN
                                 /\ LunIn(PathSegments(path)) = w.lun
      /\ v.protocol = "nfs" => ExportPath(path) = w.nfsExportPath
      /\ v.protocol = "smb" => First(PathSegments(path)) = w.smbShareName
  <2>1. PathParts(v) BY DEF Writable, PathParts
  <2> QED BY <1>p, <1>f, <2>1, EncodedPath
<1>6. /\ v.protocol = "iscsi" => u.host = v.targetPortal
      /\ v.protocol = "nfs" => u.host = IF v.targetPortal = "" THEN v.nfsServer ELSE v.targetPortal
      /\ v.protocol = "smb" => u.host = v.smbServer
  BY <1>0 DEF EncodeVolumeID
<1>7. ParsesAsHost(u.host) BY <1>6 DEF Writable
<1>8. SaysCommon(u, w) BY <1>f, <1>1, <1>2, <1>3, <1>7 DEF SaysCommon, Writable
<1>9. CASE v.protocol = "iscsi"
  <2>1. w.targetIQN # "" BY <1>f, <1>9, TextAssumption DEF Writable
  <2>2. SaysIscsi(u, w) BY <1>f, <1>1, <1>4, <1>6, <1>9, <2>1 DEF SaysIscsi, Writable, NoNfs
  <2> QED BY <1>0, <1>w, <1>8, <2>2 DEF Says
<1>10. CASE v.protocol = "nfs"
  <2>1. PICK n \in Name : v.nfsExportPath = Rooted(n) BY <1>10 DEF Writable
  <2>2. w.nfsExportPath \notin {"", "/"} BY <1>f, <1>10, <2>1, Unrooted, TextAssumption
  <2>3. Server(u, "nfsServer") = v.nfsServer BY <1>1, <1>3, <1>10 DEF Server, Writable
  <2>4. SaysNfs(u, w) BY <1>f, <1>1, <1>3, <1>4, <1>10, <2>2, <2>3 DEF SaysNfs, Writable
  <2> QED BY <1>0, <1>w, <1>8, <2>4 DEF Says
<1>11. CASE v.protocol = "smb"
  <2>1. w.smbShareName # "" BY <1>f, <1>11, TextAssumption DEF Writable
  <2>2. Server(u, "smbServer") = v.smbServer BY <1>1, <1>3, <1>11 DEF Server, Writable
  <2>3. SaysSmb(u, w) BY <1>f, <1>1, <1>3, <1>4, <1>11, <2>1, <2>2 DEF SaysSmb, Writable, NoNfs
  <2> QED BY <1>0, <1>w, <1>8, <2>3 DEF Says
<1> QED BY <1>9, <1>10, <1>11 DEF Writable

(***************************************************************************)
(* What DecodeVolumeID reads of an ID EncodeVolumeID wrote: every field,   *)
(* for every ID with a name, a host that parses and what its protocol      *)
(* cannot do without, but that the IQN, the export or the share, which is  *)
(* in the path of the URI, is unescaped once more than it was escaped.     *)
(***************************************************************************)
THEOREM RoundTrip ==
    ASSUME NEW Text, Closed(Text), NEW v \in VolumeIDs(Text), Writable(v)
    PROVE  DecodeAnyVolumeID(EncodeVolumeID(v)) = Unescaped(v)
<1>1. Unescaped(v) \in VolumeIDs(Text) BY UnescapedType
<1>2. Says(EncodeVolumeID(v), Unescaped(v)) BY EncodedSays
<1>t. "" \in Text /\ "0" \in Text BY DEF Closed
<1>3. DecodeURI(EncodeVolumeID(v)) = Unescaped(v) BY <1>1, <1>2, <1>t, SaidIsRead
<1>4. EncodeVolumeID(v).form = "uri" BY DEF EncodeVolumeID
<1> QED BY <1>3, <1>4 DEF DecodeAnyVolumeID, DecodeVolumeID

(* Nothing in the path of the ID's URI can be unescaped. *)
Unescapable(v) ==
    \/ v.protocol = "iscsi" /\ Unescape(v.targetIQN) = v.targetIQN
    \/ v.protocol = "nfs" /\ \E n \in Name : v.nfsExportPath = Rooted(n) /\ Unescape(n) = n
    \/ v.protocol = "smb" /\ Unescape(v.smbShareName) = v.smbShareName

(* Then the URI says the struct it was made of, and that is what is read. *)
LEMMA SameAgain ==
    ASSUME NEW Text, "" \in Text, "0" \in Text, NEW v \in VolumeIDs(Text), Writable(v),
           Unescapable(v)
    PROVE  DecodeAnyVolumeID(EncodeVolumeID(v)) = v
<1>1. Unescaped(v) = v
  <2>1. CASE v.protocol = "iscsi" BY <2>1 DEF Unescaped, Unescapable, VolumeIDs
  <2>2. CASE v.protocol = "nfs"
    <3>1. PICK n \in Name : v.nfsExportPath = Rooted(n) /\ Unescape(n) = n
      BY <2>2 DEF Unescapable
    <3>2. (CHOOSE m \in Name : Rooted(m) = v.nfsExportPath) = n BY <3>1, Unrooted
    <3>3. Unescaped(v) = [v EXCEPT !.nfsExportPath = v.nfsExportPath]
      BY <2>2, <3>1, <3>2 DEF Unescaped
    <3> QED BY <3>3 DEF VolumeIDs
  <2>3. CASE v.protocol = "smb" BY <2>3 DEF Unescaped, Unescapable, VolumeIDs
  <2> QED BY <2>1, <2>2, <2>3 DEF Writable
<1>2. Says(EncodeVolumeID(v), v) BY <1>1, EncodedSays
<1>3. DecodeURI(EncodeVolumeID(v)) = v BY <1>2, SaidIsRead
<1>4. EncodeVolumeID(v).form = "uri" BY DEF EncodeVolumeID
<1> QED BY <1>3, <1>4 DEF DecodeAnyVolumeID, DecodeVolumeID

(* The fields a legacy ID has no place for are empty. *)
IscsiOnly(v) ==
    /\ v.protocol = "iscsi" /\ v.shareBackend = "" /\ v.sharePath = "" /\ NoNfs(v)
    /\ v.smbServer = "" /\ v.smbShareName = ""

(* The keys encodeVolID writes are the keys decodeVolID reads, and the one   *)
(* it leaves out reads as what it was.                                       *)
LEMMA LegacyKeysAgree ==
    ASSUME NEW Text, "" \in Text, "0" \in Text, NEW v \in VolumeIDs(Text), IscsiOnly(v)
    PROVE  DecodeAnyVolumeID(EncodeVolID(v)) = v
<1>0. PICK id : id = EncodeVolID(v) OBVIOUS
<1>o. PICK o : o = id.object OBVIOUS
<1>k. o = [k \in {k \in LegacyKeys : k = "targetName" => v[k] # ""} |-> v[k]]
  BY <1>0, <1>o DEF EncodeVolID
<1>g. ASSUME NEW k \in LegacyKeys PROVE Get(o, k) = v[k] BY <1>k DEF Get
<1>h. /\ Get(o, "name") = v["name"] /\ Get(o, "targetPortal") = v["targetPortal"]
      /\ Get(o, "targetName") = v["targetName"] /\ Get(o, "targetIQN") = v["targetIQN"]
      /\ Get(o, "vhdxPath") = v["vhdxPath"] /\ "lun" \in DOMAIN o /\ o["lun"] = v["lun"]
  BY <1>g, <1>k DEF LegacyKeys
<1>i. /\ Get(o, "name") = v.name /\ Get(o, "targetPortal") = v.targetPortal
      /\ Get(o, "targetName") = v.targetName /\ Get(o, "targetIQN") = v.targetIQN
      /\ Get(o, "vhdxPath") = v.vhdxPath /\ "lun" \in DOMAIN o /\ o["lun"] = v.lun
  BY <1>h, FieldRead
<1>1. PICK w : w = [EmptyID EXCEPT !.protocol = "iscsi", !.name = v.name,
                      !.targetPortal = v.targetPortal, !.targetName = v.targetName,
                      !.targetIQN = v.targetIQN, !.vhdxPath = v.vhdxPath, !.lun = v.lun,
                      !.capacity = v.capacity]
  OBVIOUS
<1>2. DecodeAnyVolumeID(id) = w
  <2>1. id.form = "legacy" /\ id.sizeBytes = v.capacity BY <1>0 DEF EncodeVolID
  <2>2. DecodeVolID(id) = w BY <1>o, <1>i, <1>1, <2>1 DEF DecodeVolID
  <2> QED BY <2>1, <2>2 DEF DecodeAnyVolumeID
<1>3. EmptyID \in VolumeIDs(Text) BY EmptyIDType
<1>t. "iscsi" \in Text BY DEF IscsiOnly, VolumeIDs
<1>4. w \in VolumeIDs(Text) BY <1>1, <1>3, <1>t DEF VolumeIDs
<1>5. /\ w.protocol = "iscsi" /\ w.name = v.name
      /\ w.targetPortal = v.targetPortal /\ w.targetName = v.targetName
      /\ w.targetIQN = v.targetIQN /\ w.lun = v.lun /\ w.vhdxPath = v.vhdxPath
      /\ w.capacity = v.capacity
  BY <1>1, <1>3 DEF VolumeIDs
<1>6. /\ w.shareBackend = "" /\ w.sharePath = "" /\ NoNfs(w)
      /\ w.smbServer = "" /\ w.smbShareName = ""
  BY <1>1 DEF EmptyID, NoNfs
<1>7. w = v BY <1>4, <1>5, <1>6, SameFields DEF IscsiOnly, NoNfs
<1> QED BY <1>0, <1>2, <1>7

-----------------------------------------------------------------------------
(* The least of a set of numbers. *)
LEMMA Least ==
    ASSUME NEW H \in SUBSET Nat, NEW n \in H, \A j \in H : n <= j
    PROVE  (CHOOSE i \in H : \A j \in H : i <= j) = n
<1>1. \A i \in H : (\A j \in H : i <= j) => i = n OBVIOUS
<1> QED BY <1>1

(* The value of the first context that has the key. *)
LEMMA FirstAt ==
    ASSUME NEW k, NEW s, DOMAIN s \subseteq Nat, NEW n \in DOMAIN s, s[n][k] # "",
           \A j \in DOMAIN s : s[j][k] # "" => n <= j
    PROVE  FirstContextValue(k, s) = s[n][k]
<1> DEFINE H == {i \in DOMAIN s : s[i][k] # ""}
<1>1. H \in SUBSET Nat /\ n \in H /\ \A j \in H : n <= j OBVIOUS
<1>2. FirstContextValue(k, s) =
        IF H = {} THEN "" ELSE s[CHOOSE i \in H : \A j \in H : i <= j][k]
  BY DEF FirstContextValue
<1> HIDE DEF H
<1>3. (CHOOSE i \in H : \A j \in H : i <= j) = n BY <1>1, Least
<1> QED BY <1>1, <1>2, <1>3

(* A key no context has gives the empty text. *)
LEMMA FirstNowhere ==
    ASSUME NEW k, NEW s, \A j \in DOMAIN s : s[j][k] = ""
    PROVE  FirstContextValue(k, s) = ""
BY DEF FirstContextValue

(* The three contexts, in the order the node looks at them. *)
InOrder(a, b, c) == <<a, b, c>>
Said(k, a, b, c) == IF a[k] # "" THEN a[k] ELSE IF b[k] # "" THEN b[k] ELSE c[k]

(* firstContextValue of three contexts, without its search. *)
LEMMA FirstOfThree ==
    ASSUME NEW k, NEW a, NEW b, NEW c
    PROVE  FirstContextValue(k, InOrder(a, b, c)) = Said(k, a, b, c)
<1> DEFINE s == InOrder(a, b, c)
<1>1. DOMAIN s = {1, 2, 3} /\ s[1] = a /\ s[2] = b /\ s[3] = c BY DEF InOrder
<1> HIDE DEF s, Said
<1>2. DOMAIN s \subseteq Nat BY <1>1
<1>3. CASE a[k] # ""
  <2>1. 1 \in DOMAIN s /\ s[1][k] # "" BY <1>1, <1>3
  <2>3. \A j \in DOMAIN s : s[j][k] # "" => 1 <= j
    <3> SUFFICES ASSUME NEW j \in DOMAIN s, s[j][k] # "" PROVE 1 <= j
      OBVIOUS
    <3>1. j = 1 \/ j = 2 \/ j = 3 BY <1>1
    <3>2. j = 1 \/ j = 2 \/ j = 3 BY <1>1, <1>3, <3>1
    <3> QED BY ONLY <3>2
  <2>2. FirstContextValue(k, s) = s[1][k] BY <1>2, <2>1, <2>3, FirstAt
  <2> QED BY <1>1, <1>3, <2>2 DEF s, Said
<1>4. CASE a[k] = "" /\ b[k] # ""
  <2>1. 2 \in DOMAIN s /\ s[2][k] # "" BY <1>1, <1>4
  <2>3. \A j \in DOMAIN s : s[j][k] # "" => 2 <= j
    <3> SUFFICES ASSUME NEW j \in DOMAIN s, s[j][k] # "" PROVE 2 <= j
      OBVIOUS
    <3>1. j = 1 \/ j = 2 \/ j = 3 BY <1>1
    <3>2. j = 2 \/ j = 3 BY <1>1, <1>4, <3>1
    <3> QED BY ONLY <3>2
  <2>2. FirstContextValue(k, s) = s[2][k] BY <1>2, <2>1, <2>3, FirstAt
  <2> QED BY <1>1, <1>4, <2>2 DEF s, Said
<1>5. CASE a[k] = "" /\ b[k] = "" /\ c[k] # ""
  <2>1. 3 \in DOMAIN s /\ s[3][k] # "" BY <1>1, <1>5
  <2>3. \A j \in DOMAIN s : s[j][k] # "" => 3 <= j
    <3> SUFFICES ASSUME NEW j \in DOMAIN s, s[j][k] # "" PROVE 3 <= j
      OBVIOUS
    <3>1. j = 1 \/ j = 2 \/ j = 3 BY <1>1
    <3>2. j = 3 BY <1>1, <1>5, <3>1
    <3> QED BY ONLY <3>2
  <2>2. FirstContextValue(k, s) = s[3][k] BY <1>2, <2>1, <2>3, FirstAt
  <2> QED BY <1>1, <1>5, <2>2 DEF s, Said
<1>6. CASE a[k] = "" /\ b[k] = "" /\ c[k] = ""
  <2>1. \A j \in DOMAIN s : s[j][k] = "" BY <1>1, <1>6
  <2>2. FirstContextValue(k, s) = "" BY <2>1, FirstNowhere
  <2> QED BY <1>6, <2>2 DEF s, Said
<1> QED BY <1>3, <1>4, <1>5, <1>6

(* firstContextValue of two contexts, without its search. *)
LEMMA FirstOfTwo ==
    ASSUME NEW k, NEW a, NEW b
    PROVE  FirstContextValue(k, <<a, b>>) = IF a[k] # "" THEN a[k] ELSE b[k]
<1> DEFINE s == <<a, b>>
<1>1. DOMAIN s = {1, 2} /\ s[1] = a /\ s[2] = b OBVIOUS
<1> HIDE DEF s
<1>2. DOMAIN s \subseteq Nat BY <1>1
<1>3. CASE a[k] # ""
  <2>1. 1 \in DOMAIN s /\ s[1][k] # "" BY <1>1, <1>3
  <2>3. \A j \in DOMAIN s : s[j][k] # "" => 1 <= j
    <3> SUFFICES ASSUME NEW j \in DOMAIN s, s[j][k] # "" PROVE 1 <= j
      OBVIOUS
    <3>1. j = 1 \/ j = 2 BY <1>1
    <3>2. j = 1 \/ j = 2 BY <1>1, <1>3, <3>1
    <3> QED BY ONLY <3>2
  <2>2. FirstContextValue(k, s) = s[1][k] BY <1>2, <2>1, <2>3, FirstAt
  <2> QED BY <1>1, <1>3, <2>2 DEF s
<1>4. CASE a[k] = "" /\ b[k] # ""
  <2>1. 2 \in DOMAIN s /\ s[2][k] # "" BY <1>1, <1>4
  <2>3. \A j \in DOMAIN s : s[j][k] # "" => 2 <= j
    <3> SUFFICES ASSUME NEW j \in DOMAIN s, s[j][k] # "" PROVE 2 <= j
      OBVIOUS
    <3>1. j = 1 \/ j = 2 BY <1>1
    <3>2. j = 2 BY <1>1, <1>4, <3>1
    <3> QED BY ONLY <3>2
  <2>2. FirstContextValue(k, s) = s[2][k] BY <1>2, <2>1, <2>3, FirstAt
  <2> QED BY <1>1, <1>4, <2>2 DEF s
<1>5. CASE a[k] = "" /\ b[k] = ""
  <2>1. \A j \in DOMAIN s : s[j][k] = "" BY <1>1, <1>5
  <2>2. FirstContextValue(k, s) = "" BY <2>1, FirstNowhere
  <2> QED BY <1>5, <2>2 DEF s
<1> QED BY <1>3, <1>4, <1>5

-----------------------------------------------------------------------------

(* A pair is a function on 1 and 2. *)
LEMMA Pair == ASSUME NEW x, NEW y
              PROVE  DOMAIN <<x, y>> = {1, 2} /\ <<x, y>>[1] = x /\ <<x, y>>[2] = y
OBVIOUS

(* A triple is a function on 1, 2 and 3. *)
LEMMA Triple == ASSUME NEW x, NEW y, NEW z
                PROVE  /\ DOMAIN <<x, y, z>> = {1, 2, 3}
                       /\ <<x, y, z>>[1] = x /\ <<x, y, z>>[2] = y /\ <<x, y, z>>[3] = z
OBVIOUS

(* The contexts the driver writes. *)
Keys == {"protocol", "targetPortal", "iqn", "lun", "server", "exportPath", "share",
         "nfsAuthentication", "nfsMountAuthentication"}

(* A context that is not there has no value for any key. *)
LEMMA NoContextIsEmpty == \A k \in Keys : NoContext[k] = ""
<1>1. /\ NoContext["protocol"] = "" /\ NoContext["targetPortal"] = "" /\ NoContext["iqn"] = ""
      /\ NoContext["lun"] = "" /\ NoContext["server"] = "" /\ NoContext["exportPath"] = ""
      /\ NoContext["share"] = "" /\ NoContext["nfsAuthentication"] = ""
      /\ NoContext["nfsMountAuthentication"] = ""
  BY DEF NoContext
<1> QED BY <1>1 DEF Keys

(* What volumeContextForVolumeID puts into the context of an iSCSI volume. *)
LEMMA IscsiContext ==
    ASSUME NEW v, v.protocol = "iscsi", NEW C, C = VolumeContextForVolumeID(v)
    PROVE  /\ C["protocol"] = "" /\ C["targetPortal"] = v.targetPortal
           /\ C["iqn"] = v.targetIQN /\ C["lun"] = v.lun
           /\ C["nfsAuthentication"] = "" /\ C["nfsMountAuthentication"] = ""
BY DEF VolumeContextForVolumeID, NoContext

(* What it puts into the context of an NFS share. *)
LEMMA NfsContext ==
    ASSUME NEW v, v.protocol = "nfs", NEW C, C = VolumeContextForVolumeID(v)
    PROVE  /\ C["protocol"] = "nfs" /\ C["server"] = v.nfsServer
           /\ C["exportPath"] = v.nfsExportPath
           /\ C["nfsAuthentication"] = v.nfsAuthentication
           /\ C["nfsMountAuthentication"] = v.nfsMountAuthentication
BY DEF VolumeContextForVolumeID, NoContext

(* What it puts into the context of an SMB share. *)
LEMMA SmbContext ==
    ASSUME NEW v, v.protocol = "smb", NEW C, C = VolumeContextForVolumeID(v)
    PROVE  /\ C["protocol"] = "smb" /\ C["server"] = v.smbServer
           /\ C["share"] = v.smbShareName
           /\ C["nfsAuthentication"] = "" /\ C["nfsMountAuthentication"] = ""
BY DEF VolumeContextForVolumeID, NoContext

(* What the first context that has a key says is what any of them says. *)
LEMMA OneContext ==
    ASSUME NEW C, NEW a \in {NoContext, C}, NEW b \in {NoContext, C}, NEW c \in {NoContext, C},
           a = C \/ b = C \/ c = C, NEW k \in Keys
    PROVE  FirstContextValue(k, InOrder(a, b, c)) = C[k]
<1>1. NoContext[k] = "" BY NoContextIsEmpty
<1>2. FirstContextValue(k, InOrder(a, b, c)) = Said(k, a, b, c) BY FirstOfThree
<1> QED BY <1>1, <1>2 DEF Said

(* Where a volume is, for the node: the portal, target and LUN, or the share. *)
Where(d) ==
    CASE d.protocol = "iscsi" -> <<d.targetPortal, d.targetIQN, d.lun>>
      [] d.protocol = "nfs" -> <<d.nfsServer, d.nfsExportPath>>
      [] d.protocol = "smb" -> <<d.smbServer, d.smbShareName>>

(* Nothing of that is missing. *)
Complete(d) ==
    \/ /\ d.protocol = "iscsi" /\ d.targetPortal # "" /\ d.targetIQN # "" /\ d.lun # ""
       /\ d.nfsAuthentication = "" /\ d.nfsMountAuthentication = ""
       /\ ValidTargetPortal(d.targetPortal)
    \/ d.protocol = "nfs" /\ d.nfsServer # "" /\ d.nfsExportPath # ""
    \/ /\ d.protocol = "smb" /\ d.smbServer # "" /\ d.smbShareName # ""
       /\ d.nfsAuthentication = "" /\ d.nfsMountAuthentication = ""

(* The protocol the node finds. *)
LEMMA FoundProtocol ==
    ASSUME NEW d, Complete(d), NEW id,
           NEW pc \in {NoContext, VolumeContextForVolumeID(d)},
           NEW vc \in {NoContext, VolumeContextForVolumeID(d)},
           \/ ParseProtocolFromVolumeID(id) = d.protocol
           \/ d.protocol = "iscsi" /\ ParseProtocolFromVolumeID(id) = ""
    PROVE  PublishProtocol(id, pc, vc) = d.protocol
<1>1. PICK C : C = VolumeContextForVolumeID(d) OBVIOUS
<1>2. FirstContextValue("protocol", <<pc, vc>>) = IF pc["protocol"] # "" THEN pc["protocol"] ELSE vc["protocol"]
  BY FirstOfTwo
<1>3. NoContext["protocol"] = "" BY NoContextIsEmpty DEF Keys
<1>4. C["protocol"] = IF d.protocol = "iscsi" THEN "" ELSE d.protocol
  <2>1. d.protocol = "iscsi" => C["protocol"] = "" BY <1>1, IscsiContext
  <2>2. d.protocol = "nfs" => C["protocol"] = "nfs" BY <1>1, NfsContext
  <2>3. d.protocol = "smb" => C["protocol"] = "smb" BY <1>1, SmbContext
  <2> QED BY <2>1, <2>2, <2>3 DEF Complete
<1>5. FirstContextValue("protocol", <<pc, vc>>) \in {"", C["protocol"]}
  BY <1>1, <1>2, <1>3
<1> QED BY <1>4, <1>5 DEF PublishProtocol, Complete

(* Two values that are there make a pair without a missing one. *)
LEMMA TwoPresent == ASSUME NEW x, NEW y, x # "", y # ""
                    PROVE  \A i \in DOMAIN <<x, y>> : <<x, y>>[i] # ""
<1> DEFINE f == <<x, y>>
<1>1. DOMAIN f = {1, 2} /\ f[1] = x /\ f[2] = y BY Pair
<1> HIDE DEF f
<1>2. \A i \in DOMAIN f : f[i] # "" BY <1>1
<1> QED BY <1>2 DEF f

(* What NodeSource answers with. *)
Staged(proto, found, auth) ==
    [ok |-> /\ \A i \in DOMAIN found : found[i] # ""
            /\ proto = "iscsi" => ValidTargetPortal(found[1]),
     protocol |-> proto, at |-> found, auth |-> auth]

(* NodeSource once the protocol and the context of the ID are known. *)
LEMMA SourceIsStaged ==
    ASSUME NEW id, NEW pc, NEW vc, NEW proto, PublishProtocol(id, pc, vc) = proto,
           NEW ic, VolumeContextFromVolumeID(id, proto) = ic
    PROVE  NodeSource(id, pc, vc) =
             Staged(proto, FirstContextValues(SourceKeys(proto), InOrder(pc, vc, ic)),
                    MountFlavour(FirstContextValue("nfsMountAuthentication", InOrder(vc, pc, ic)),
                                 FirstContextValue("nfsAuthentication", InOrder(vc, pc, ic))))
<1> DEFINE pr == PublishProtocol(id, pc, vc)
           xc == VolumeContextFromVolumeID(id, pr)
<1>1. NodeSource(id, pc, vc) =
        Staged(pr, FirstContextValues(SourceKeys(pr), InOrder(pc, vc, xc)),
               MountFlavour(FirstContextValue("nfsMountAuthentication", InOrder(vc, pc, xc)),
                            FirstContextValue("nfsAuthentication", InOrder(vc, pc, xc))))
  BY DEF NodeSource, Staged, InOrder
<1>2. pr = proto /\ xc = ic OBVIOUS
<1> HIDE DEF pr, xc
<1> QED BY <1>1, <1>2

(* The values of two keys are the pair of what was found for each. *)
LEMMA TwoFound ==
    ASSUME NEW k, NEW l, NEW from, NEW x, NEW y,
           FirstContextValue(k, from) = x, FirstContextValue(l, from) = y
    PROVE  FirstContextValues(<<k, l>>, from) = <<x, y>>
<1>1. DOMAIN <<k, l>> = 1..2 /\ <<k, l>>[1] = k /\ <<k, l>>[2] = l OBVIOUS
<1> DEFINE f == FirstContextValues(<<k, l>>, from)
<1>2. f = [i \in 1..2 |-> FirstContextValue(<<k, l>>[i], from)]
  BY <1>1 DEF FirstContextValues
<1>3. f[1] = x /\ f[2] = y BY <1>1, <1>2
<1> QED BY <1>2, <1>3

(* The values of three keys are the triple of what was found for each. *)
LEMMA ThreeFound ==
    ASSUME NEW k, NEW l, NEW m, NEW from, NEW x, NEW y, NEW z,
           FirstContextValue(k, from) = x, FirstContextValue(l, from) = y,
           FirstContextValue(m, from) = z
    PROVE  FirstContextValues(InOrder(k, l, m), from) = InOrder(x, y, z)
<1>1. DOMAIN <<k, l, m>> = 1..3 /\ <<k, l, m>>[1] = k /\ <<k, l, m>>[2] = l /\ <<k, l, m>>[3] = m
  OBVIOUS
<1> DEFINE f == FirstContextValues(<<k, l, m>>, from)
<1>2. f = [i \in 1..3 |-> FirstContextValue(<<k, l, m>>[i], from)]
  BY <1>1 DEF FirstContextValues
<1>3. f[1] = x /\ f[2] = y /\ f[3] = z BY <1>1, <1>2
<1>4. f = <<x, y, z>> BY <1>2, <1>3
<1> QED BY <1>4 DEF InOrder

(***************************************************************************)
(* The node finds where the volume is when the volume context, the publish *)
(* context or the ID says so, and the others do or are silent.             *)
(***************************************************************************)
THEOREM NodeFinds ==
    ASSUME NEW d, Complete(d), NEW id,
           NEW pc \in {NoContext, VolumeContextForVolumeID(d)},
           NEW vc \in {NoContext, VolumeContextForVolumeID(d)},
           VolumeContextFromVolumeID(id, d.protocol) \in {NoContext, VolumeContextForVolumeID(d)},
           \/ ParseProtocolFromVolumeID(id) = d.protocol
           \/ d.protocol = "iscsi" /\ ParseProtocolFromVolumeID(id) = "",
           VolumeContextForVolumeID(d) \in {pc, vc, VolumeContextFromVolumeID(id, d.protocol)}
    PROVE  NodeSource(id, pc, vc) = [ok |-> TRUE, protocol |-> d.protocol, at |-> Where(d),
                                     auth |-> MountFlavour(d.nfsMountAuthentication,
                                                          d.nfsAuthentication)]
<1>1. PICK C : C = VolumeContextForVolumeID(d) OBVIOUS
<1>2. PICK ic : ic = VolumeContextFromVolumeID(id, d.protocol) OBVIOUS
<1>3. PublishProtocol(id, pc, vc) = d.protocol BY FoundProtocol
<1>4. pc \in {NoContext, C} /\ vc \in {NoContext, C} /\ ic \in {NoContext, C} /\ C \in {pc, vc, ic}
  BY <1>1, <1>2
<1>c. pc = C \/ vc = C \/ ic = C BY <1>4
<1>5. ASSUME NEW k \in Keys PROVE FirstContextValue(k, InOrder(pc, vc, ic)) = C[k]
  BY <1>4, <1>c, OneContext
<1>6. /\ FirstContextValue("nfsMountAuthentication", InOrder(vc, pc, ic)) = C["nfsMountAuthentication"]
      /\ FirstContextValue("nfsAuthentication", InOrder(vc, pc, ic)) = C["nfsAuthentication"]
  <2>1. "nfsMountAuthentication" \in Keys /\ "nfsAuthentication" \in Keys BY DEF Keys
  <2>2. vc = C \/ pc = C \/ ic = C BY <1>c
  <2>3. ASSUME NEW k \in Keys PROVE FirstContextValue(k, InOrder(vc, pc, ic)) = C[k]
    BY <1>4, <2>2, OneContext
  <2> QED BY <2>1, <2>3
<1>7. /\ C["nfsMountAuthentication"] = d.nfsMountAuthentication
      /\ C["nfsAuthentication"] = d.nfsAuthentication
  <2>1. CASE d.protocol = "iscsi" BY <1>1, <2>1, IscsiContext DEF Complete
  <2>2. CASE d.protocol = "nfs" BY <1>1, <2>2, NfsContext
  <2>3. CASE d.protocol = "smb" BY <1>1, <2>3, SmbContext DEF Complete
  <2> QED BY <2>1, <2>2, <2>3 DEF Complete
<1>8. NodeSource(id, pc, vc) =
        Staged(d.protocol, FirstContextValues(SourceKeys(d.protocol), InOrder(pc, vc, ic)),
               MountFlavour(d.nfsMountAuthentication, d.nfsAuthentication))
  <2>1. NodeSource(id, pc, vc) =
          Staged(d.protocol, FirstContextValues(SourceKeys(d.protocol), InOrder(pc, vc, ic)),
                 MountFlavour(FirstContextValue("nfsMountAuthentication", InOrder(vc, pc, ic)),
                              FirstContextValue("nfsAuthentication", InOrder(vc, pc, ic))))
    BY ONLY <1>2, <1>3, SourceIsStaged
  <2> QED BY <1>6, <1>7, <2>1
<1>9. FirstContextValues(SourceKeys(d.protocol), InOrder(pc, vc, ic)) = Where(d)
  <2>1. CASE d.protocol = "iscsi"
    <3>1. SourceKeys(d.protocol) = InOrder("targetPortal", "iqn", "lun")
      BY <2>1 DEF SourceKeys, InOrder
    <3>2. C["targetPortal"] = d.targetPortal /\ C["iqn"] = d.targetIQN /\ C["lun"] = d.lun
      BY <1>1, <2>1, IscsiContext
    <3>3. "targetPortal" \in Keys /\ "iqn" \in Keys /\ "lun" \in Keys BY DEF Keys
    <3>4. /\ FirstContextValue("targetPortal", InOrder(pc, vc, ic)) = d.targetPortal
          /\ FirstContextValue("iqn", InOrder(pc, vc, ic)) = d.targetIQN
          /\ FirstContextValue("lun", InOrder(pc, vc, ic)) = d.lun
      BY <1>5, <3>2, <3>3
    <3>5. FirstContextValues(InOrder("targetPortal", "iqn", "lun"), InOrder(pc, vc, ic)) =
            InOrder(d.targetPortal, d.targetIQN, d.lun)
      BY ONLY <3>4, ThreeFound
    <3>6. Where(d) = InOrder(d.targetPortal, d.targetIQN, d.lun) BY <2>1 DEF Where, InOrder
    <3> QED BY <3>1, <3>5, <3>6
  <2>2. CASE d.protocol = "nfs"
    <3>1. SourceKeys(d.protocol) = <<"server", "exportPath">> BY <2>2 DEF SourceKeys
    <3>2. C["server"] = d.nfsServer /\ C["exportPath"] = d.nfsExportPath
      BY <1>1, <2>2, NfsContext
    <3>3. "server" \in Keys /\ "exportPath" \in Keys BY DEF Keys
    <3>4. /\ FirstContextValue("server", InOrder(pc, vc, ic)) = d.nfsServer
          /\ FirstContextValue("exportPath", InOrder(pc, vc, ic)) = d.nfsExportPath
      BY <1>5, <3>2, <3>3
    <3> QED BY <2>2, <3>1, <3>4, TwoFound DEF Where
  <2>3. CASE d.protocol = "smb"
    <3>1. SourceKeys(d.protocol) = <<"server", "share">> BY <2>3 DEF SourceKeys
    <3>2. C["server"] = d.smbServer /\ C["share"] = d.smbShareName
      BY <1>1, <2>3, SmbContext
    <3>3. "server" \in Keys /\ "share" \in Keys BY DEF Keys
    <3>4. /\ FirstContextValue("server", InOrder(pc, vc, ic)) = d.smbServer
          /\ FirstContextValue("share", InOrder(pc, vc, ic)) = d.smbShareName
      BY <1>5, <3>2, <3>3
    <3> QED BY <2>3, <3>1, <3>4, TwoFound DEF Where
  <2> QED BY <2>1, <2>2, <2>3 DEF Complete
<1>10. /\ \A i \in DOMAIN Where(d) : Where(d)[i] # ""
       /\ d.protocol = "iscsi" => ValidTargetPortal(Where(d)[1])
  <2>1. CASE d.protocol = "iscsi"
    <3>1. Where(d) = InOrder(d.targetPortal, d.targetIQN, d.lun) BY <2>1 DEF Where, InOrder
    <3>2. /\ d.targetPortal # "" /\ d.targetIQN # "" /\ d.lun # ""
          /\ ValidTargetPortal(d.targetPortal)
      BY <2>1 DEF Complete
    <3>3. Where(d)[1] = d.targetPortal /\ \A i \in DOMAIN Where(d) : Where(d)[i] # ""
      <4>1. PICK x, y, z : x = d.targetPortal /\ y = d.targetIQN /\ z = d.lun OBVIOUS
      <4>2. PICK f : f = <<x, y, z>> OBVIOUS
      <4>3. DOMAIN f = {1, 2, 3} /\ f[1] = x /\ f[2] = y /\ f[3] = z BY ONLY <4>2, Triple
      <4>4. Where(d) = f BY <3>1, <4>1, <4>2 DEF InOrder
      <4>5. x # "" /\ y # "" /\ z # "" BY <3>2, <4>1
      <4>6. \A i \in DOMAIN f : f[i] # "" BY ONLY <4>3, <4>5
      <4> QED BY <4>1, <4>3, <4>4, <4>6
    <3> QED BY <3>2, <3>3
  <2>2. CASE d.protocol = "nfs"
    <3>1. Where(d) = <<d.nfsServer, d.nfsExportPath>> BY <2>2 DEF Where
    <3>2. d.nfsServer # "" /\ d.nfsExportPath # "" BY <2>2 DEF Complete
    <3> QED BY <2>2, <3>1, <3>2, TwoPresent
  <2>3. CASE d.protocol = "smb"
    <3>1. Where(d) = <<d.smbServer, d.smbShareName>> BY <2>3 DEF Where
    <3>2. d.smbServer # "" /\ d.smbShareName # "" BY <2>3 DEF Complete
    <3> QED BY <2>3, <3>1, <3>2, TwoPresent
  <2> QED BY <2>1, <2>2, <2>3 DEF Complete
<1> QED BY <1>8, <1>9, <1>10 DEF Staged
=============================================================================
