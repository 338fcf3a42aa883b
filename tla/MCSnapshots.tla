----------------------------- MODULE MCSnapshots -----------------------------
(* The instance of Snapshots that TLC checks: claims and imports that        *)
(* between them have every protocol, share backend, access mode and kind of  *)
(* server address, and capacity ranges on both sides of the minimum size.    *)
EXTENDS Snapshots, TLC

ClassOf(protocol, backend, host, port, mode, auth) ==
    [protocol |-> protocol, shareBackend |-> backend, host |-> host,
     portalPort |-> port, mode |-> mode, auth |-> auth]
ClaimOf(class, required, limit, source) ==
    [class |-> class, range |-> [required |-> required, limit |-> limit], source |-> source]

(* PathUnescape of the texts there are. *)
MCUnescape(t) == IF t = "a%41" THEN "aA" ELSE t

MCClaim ==
    [a |-> {ClaimOf(ClassOf("iscsi", "", "v6", 860, "single", ""), 1, 1, "empty"),
            ClaimOf(ClassOf("nfs", "vhdx", "", 0, "multi", "sys,krb5"), 0, 3, "empty"),
            ClaimOf(ClassOf("smb", "directory", "[v6]", 0, "multi", ""), 2, 3, "empty"),
            ClaimOf(ClassOf("nfs", "directory", "host", 0, "multi", ""), 3, 2, "empty"),
            ClaimOf(ClassOf("smb", "vhdx", "v6", 0, "multi", ""), 0, 0, "empty"),
            ClaimOf(ClassOf("iscsi", "", "host", 0, "multi", ""), 0, 0, "empty")},
     b |-> {ClaimOf(ClassOf("iscsi", "", "host", 0, "single", ""), 2, 0, "snapshot"),
            ClaimOf(ClassOf("smb", "vhdx", "host", 0, "multi", ""), 3, 0, "snapshot")}]

MCImported ==
    [a |-> {ClassOf("iscsi", "", "host", 0, "single", ""),
            ClassOf("nfs", "directory", "[v6]", 0, "multi", "krb5"),
            ClassOf("smb", "vhdx", "host", 0, "multi", "")},
     b |-> {}]

(* A share whose name has an escape in it is not found again by its ID. *)
ASSUME EscapesAreLost ==
    DecodeAnyVolumeID(EncodeVolumeID([EmptyID EXCEPT !.protocol = "smb", !.name = "a",
       !.smbServer = "host", !.smbShareName = "a%41"])).smbShareName = "aA"

(* The names of snapshots are only told apart. *)
Symmetry == Permutations(Content)
=============================================================================
