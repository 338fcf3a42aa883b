------------------------------- MODULE VolumeId -------------------------------
(***************************************************************************)
(* Volume IDs and volume contexts: how the controller writes down where a  *)
(* volume is (volumeid.go, the legacy IDs of controllerserver.go) and how  *)
(* the controller and the node read it back.                               *)
(*                                                                         *)
(* An ID is what its text says.  A URI is the scheme, host, path segments  *)
(* and query that url.Parse finds in it; the PathEscape of a segment and   *)
(* the Encode of a query are undone there.  A legacy ID is the JSON object *)
(* in its base64; anything else is a plain name.  "" is the empty string   *)
(* everywhere, and spaces around texts (TrimSpace) are not modelled.       *)
(***************************************************************************)
EXTENDS Naturals, Sequences

CONSTANTS
    Name,        \* texts without "/": share names, IQNs
    Numeral,     \* what strconv.Itoa writes of LUNs
    Unescape(_)  \* url.PathUnescape, the text itself when that fails

Protocol == {"iscsi", "nfs", "smb"}

(* Windows answers '/' + name for the path of an NFS export. *)
Rooted(n) == "/" \o n

(* Unescaping leaves something, and numbers and "lun" as they are. *)
ASSUME TextAssumption ==
    /\ {"", "/", "lun"} \cap Name = {} /\ "" \notin Numeral /\ "0" \in Numeral
    /\ Unescape("lun") = "lun" /\ \A l \in Numeral : Unescape(l) = l
    /\ \A n \in Name : /\ Unescape(n) # "" /\ Rooted(n) \notin Name \cup {"", "/"}
                       /\ Rooted(Unescape(n)) \notin {"", "/"}
    /\ \A n, o \in Name : Rooted(n) = Rooted(o) => n = o

-----------------------------------------------------------------------------
(***************************************************************************)
(* The host texts the code tells apart: a name or IPv4 address and an IPv6 *)
(* address, bare or in brackets, with and without a port.                  *)
(***************************************************************************)
HostText == {"", "host", "host:860", "host:3260", "v6", "[v6]", "[v6]:860", "[v6]:3260"}

(* url.Parse refuses colons in a host outside brackets. *)
ParsesAsHost(h) == h # "v6"

(* defaultPort looks for a colon anywhere, so "[v6]" stays without a port. *)
DefaultPort(h) == IF h = "host" THEN "host:3260" ELSE h

HostOnly(h) ==
    CASE h \in {"host:860", "host:3260"} -> "host"
      [] h \in {"[v6]:860", "[v6]:3260"} -> "v6"
      [] OTHER -> h

(* The portal CreateVolume writes down: the port is parameter portalPort.   *)
(* Brackets without a port do not pass validateTargetPortal.                *)
TargetPortalAddress(h, port) ==
    CASE h = "host" -> IF port = 860 THEN "host:860" ELSE "host:3260"
      [] h = "v6" -> IF port = 860 THEN "[v6]:860" ELSE "[v6]:3260"
      [] OTHER -> h
ValidTargetPortal(h) == h \notin {"", "[v6]"}

(* The portal connectTarget logs in to: the text is cut at every colon and  *)
(* its first two parts are kept, so nothing usable is left of an IPv6       *)
(* address ("").                                                            *)
IPv6Portal(h) == h \in {"v6", "[v6]", "[v6]:860", "[v6]:3260"}
DialedPortal(h) == IF IPv6Portal(h) THEN "" ELSE DefaultPort(h)

-----------------------------------------------------------------------------
(* type VolumeID: empty but for what is given. *)
EmptyID ==
    [protocol |-> "", name |-> "", shareBackend |-> "", sharePath |-> "",
     targetPortal |-> "", targetName |-> "", targetIQN |-> "", lun |-> "0",
     vhdxPath |-> "", nfsServer |-> "", nfsExportPath |-> "", nfsAuthentication |-> "",
     nfsMountAuthentication |-> "", smbServer |-> "", smbShareName |-> "",
     capacity |-> 0]

Get(q, k) == IF k \in DOMAIN q THEN q[k] ELSE ""

(* A mistake the runs must notice: the share path is taken for the path of  *)
(* the VHDX and left out.                                                   *)
QueryKeysShort(p) ==
    {"name", "vhdxPath", "shareBackend", "targetName"}
       \cup IF p = "nfs" THEN {"targetPortal", "nfsServer", "nfsAuthentication", "nfsMountAuthentication"}
            ELSE IF p = "smb" THEN {"smbServer"} ELSE {}

(* The query parameters of a protocol's IDs, beside the capacity. *)
QueryKeys(p) ==
    {"name", "vhdxPath", "shareBackend", "sharePath", "targetName"}
       \cup IF p = "nfs" THEN {"targetPortal", "nfsServer", "nfsAuthentication", "nfsMountAuthentication"}
            ELSE IF p = "smb" THEN {"smbServer"} ELSE {}

ShouldEncodeLUN(v) == v.lun # "0" \/ v.vhdxPath # "" \/ v.capacity # 0

(* buildURI leaves empty segments out. *)
Segment(e) == IF e = "" THEN <<>> ELSE <<e>>

(* pathSegments unescapes what is between the slashes: for the encoder the  *)
(* path of an NFS export, with one segment, for the decoder a path that     *)
(* url.Parse has unescaped before.                                          *)
SplitPath(p) ==
    IF p \in {"", "/"} THEN <<>>
    ELSE <<Unescape(IF p \in Name THEN p ELSE CHOOSE n \in Name : Rooted(n) = p)>>
PathSegments(path) == [i \in DOMAIN path |-> Unescape(path[i])]

(* Parameters that are empty are left out, but for the name. *)
EncodeVolumeID(v) ==
    [form |-> "uri",
     scheme |-> v.protocol,
     host |-> CASE v.protocol = "iscsi" -> v.targetPortal
                [] v.protocol = "nfs" -> IF v.targetPortal = "" THEN v.nfsServer ELSE v.targetPortal
                [] v.protocol = "smb" -> v.smbServer,
     path |-> CASE v.protocol = "iscsi" ->
                     IF ShouldEncodeLUN(v) THEN Segment(v.targetIQN) \o <<"lun">> \o Segment(v.lun)
                     ELSE Segment(v.targetIQN)
                [] v.protocol = "nfs" -> SplitPath(v.nfsExportPath)
                [] v.protocol = "smb" -> Segment(v.smbShareName),
     query |-> [k \in {k \in QueryKeys(v.protocol) : k = "name" \/ v[k] # ""} |-> v[k]],
     capacity |-> v.capacity]

(* The value after the first segment "lun"; "" when there is none. *)
LunIn(path) ==
    LET at == {i \in 2..(Len(path) - 1) : path[i] = "lun"}
    IN  IF at = {} THEN "" ELSE path[1 + CHOOSE i \in at : \A j \in at : i <= j]

First(path) == IF path = <<>> THEN "" ELSE path[1]

(* u.Path, which the decoder takes for the path of the export as it is. *)
ExportPath(path) == IF path = <<>> THEN "" ELSE Rooted(First(path))

(* Atoi of the LUN, and VolumeID.Validate of what was decoded from u. *)
Valid(u, v, lun) ==
    /\ "name" \in DOMAIN u.query => v.name # ""
    /\ v.protocol = "iscsi" => v.targetPortal # "" /\ v.targetIQN # "" /\ lun \in Numeral
    /\ v.protocol = "nfs" => v.nfsServer # "" /\ v.nfsExportPath \notin {"", "/"}
    /\ v.protocol = "smb" => v.smbServer # "" /\ v.smbShareName # ""

(* DecodeVolumeID of a URI; EmptyID stands for its errors. *)
DecodeURI(u) ==
    LET q == u.query
        common == [EmptyID EXCEPT !.protocol = u.scheme, !.name = Get(q, "name"),
                     !.shareBackend = Get(q, "shareBackend"), !.sharePath = Get(q, "sharePath"),
                     !.targetName = Get(q, "targetName"), !.vhdxPath = Get(q, "vhdxPath"),
                     !.capacity = u.capacity]
        server(k) == IF Get(q, k) = "" THEN HostOnly(u.host) ELSE Get(q, k)
        segments == PathSegments(u.path)
        lun == LunIn(segments)
        v == CASE u.scheme = "iscsi" ->
                    [common EXCEPT !.targetPortal = DefaultPort(u.host),
                                   !.targetIQN = First(segments),
                                   !.lun = IF lun = "" THEN "0" ELSE lun]
               [] u.scheme = "nfs" ->
                    [common EXCEPT !.targetPortal = Get(q, "targetPortal"),
                                   !.nfsServer = server("nfsServer"),
                                   !.nfsExportPath = ExportPath(u.path),
                                   !.nfsAuthentication = Get(q, "nfsAuthentication"),
                                   !.nfsMountAuthentication = Get(q, "nfsMountAuthentication")]
               [] u.scheme = "smb" ->
                    [common EXCEPT !.smbServer = server("smbServer"),
                                   !.smbShareName = First(segments)]
    IN  IF u.scheme \in Protocol /\ ParsesAsHost(u.host) /\ Valid(u, v, lun) THEN v ELSE EmptyID

DecodeVolumeID(id) == IF id.form = "uri" THEN DecodeURI(id) ELSE EmptyID

-----------------------------------------------------------------------------
(* encodeVolID: the JSON of type volID, where an empty targetName has no key. *)
LegacyKeys == {"name", "targetPortal", "targetName", "targetIQN", "lun", "vhdxPath"}
EncodeVolID(v) ==
    [form |-> "legacy",
     object |-> [k \in {k \in LegacyKeys : k = "targetName" => v[k] # ""} |-> v[k]],
     sizeBytes |-> v.capacity]

(* decodeVolID: a key that is missing leaves its field zero, and nothing is *)
(* validated.                                                               *)
DecodeVolID(id) ==
    LET o == id.object
    IN  [EmptyID EXCEPT !.protocol = "iscsi", !.name = Get(o, "name"),
           !.targetPortal = Get(o, "targetPortal"), !.targetName = Get(o, "targetName"),
           !.targetIQN = Get(o, "targetIQN"), !.vhdxPath = Get(o, "vhdxPath"),
           !.lun = IF "lun" \in DOMAIN o THEN o["lun"] ELSE "0",
           !.capacity = id.sizeBytes]

(* A volume handle an administrator made up. *)
PlainName == [form |-> "name"]

(* decodeAnyVolumeID: the alphabets of base64 and of URIs keep them apart. *)
DecodeAnyVolumeID(id) == IF id.form = "legacy" THEN DecodeVolID(id) ELSE DecodeVolumeID(id)

Undecodable(id) == DecodeAnyVolumeID(id) = EmptyID

-----------------------------------------------------------------------------
(* Volume and publish contexts: the keys the node looks for, "" when absent. *)
NoContext ==
    [protocol |-> "", targetPortal |-> "", iqn |-> "", lun |-> "", server |-> "",
     exportPath |-> "", share |-> "", nfsAuthentication |-> "",
     nfsMountAuthentication |-> ""]

VolumeContextForVolumeID(v) ==
    CASE v.protocol = "nfs" ->
           [NoContext EXCEPT !.protocol = "nfs", !.server = v.nfsServer,
                             !.exportPath = v.nfsExportPath,
                             !.nfsAuthentication = v.nfsAuthentication,
                             !.nfsMountAuthentication = v.nfsMountAuthentication]
      [] v.protocol = "smb" ->
           [NoContext EXCEPT !.protocol = "smb", !.server = v.smbServer,
                             !.share = v.smbShareName]
      [] OTHER ->
           [NoContext EXCEPT !.targetPortal = v.targetPortal, !.iqn = v.targetIQN,
                             !.lun = v.lun]

VolumeContextFromVolumeID(id, proto) ==
    LET v == DecodeVolumeID(id)
    IN  IF v.protocol = proto THEN VolumeContextForVolumeID(v) ELSE NoContext

(* firstContextValue: the first of the contexts that has the key. *)
FirstContextValue(k, contexts) ==
    LET having == {i \in DOMAIN contexts : contexts[i][k] # ""}
    IN  IF having = {} THEN ""
        ELSE contexts[CHOOSE i \in having : \A j \in having : i <= j][k]

(* ParseProtocolFromVolumeID gives no protocol for scheme:///path. *)
ParseProtocolFromVolumeID(id) ==
    IF id.form = "uri" /\ ~(id.host = "" /\ id.path # <<>>) THEN id.scheme ELSE ""

PublishProtocol(id, pc, vc) ==
    LET said == FirstContextValue("protocol", <<pc, vc>>)
        written == ParseProtocolFromVolumeID(id)
    IN  IF said \in {"nfs", "smb"} THEN said
        ELSE IF written \in {"nfs", "smb"} THEN written ELSE "iscsi"

(* The flavours nfsAuthentication may list, the strongest of them, and the  *)
(* flavour to mount with: nfsMountAuthenticationFromContext.                *)
AuthText == {"", "krb5", "sys,krb5"}
PreferredNfsMountAuthentication(auth) == IF auth = "sys,krb5" THEN "krb5" ELSE auth
MountFlavour(mount, auth) ==
    IF mount # "" THEN mount ELSE PreferredNfsMountAuthentication(auth)

(* The keys that say where a volume is, and what the contexts hold of them. *)
SourceKeys(proto) ==
    CASE proto = "iscsi" -> <<"targetPortal", "iqn", "lun">>
      [] proto = "nfs" -> <<"server", "exportPath">>
      [] proto = "smb" -> <<"server", "share">>
FirstContextValues(keys, contexts) ==
    [i \in DOMAIN keys |-> FirstContextValue(keys[i], contexts)]

(***************************************************************************)
(* Where the node stages a volume from: iscsiConnectionFromContexts, and   *)
(* the mount source of stageFileShareVolume.  A value that is missing, or  *)
(* a portal validateTargetPortal refuses, makes the call fail.             *)
(***************************************************************************)
NodeSource(id, pc, vc) ==
    LET proto == PublishProtocol(id, pc, vc)
        ic == VolumeContextFromVolumeID(id, proto)
        found == FirstContextValues(SourceKeys(proto), <<pc, vc, ic>>)
        flavour(k) == FirstContextValue(k, <<vc, pc, ic>>)
    IN  [ok |-> /\ \A i \in DOMAIN found : found[i] # ""
                /\ proto = "iscsi" => ValidTargetPortal(found[1]),
         protocol |-> proto, at |-> found,
         auth |-> MountFlavour(flavour("nfsMountAuthentication"), flavour("nfsAuthentication"))]
=============================================================================
