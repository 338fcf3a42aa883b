---------------------- MODULE FileShareControllerProofs ----------------------
(***************************************************************************)
(* What the runs of FileShareController check on one volume, proved for    *)
(* any number of volumes and of failures: types, ShareIsServed and         *)
(* ShareIsGone.  A script is reduced first to what it may do to the        *)
(* Windows server, wherever it stops; a step of one volume then leaves the *)
(* others alone because no two volumes ever name the same VHDX.            *)
(***************************************************************************)
EXTENDS FileShareController, TLAPS

(* What the server looks like after a script of volume v over path p:      *)
(* nothing of another volume and no other path has changed.                *)
Near(w, v, p) ==
    /\ w \in Windows
    /\ \A u \in Volume \ {v} : /\ w.at[u] = win.at[u]
                               /\ u \in w.share <=> u \in win.share
                               /\ u \in w.limit <=> u \in win.limit
    /\ \A q \in Path \ {p} : /\ w.vhdx[q] = win.vhdx[q]
                             /\ q \in w.image <=> q \in win.image

-----------------------------------------------------------------------------
(* A script of no step: the server is as it was. *)
LEMMA Trace0 ==
    ASSUME NEW w
    PROVE  /\ (<<w>> \o <<>>)[Len(<<w>> \o <<>>)] = w
           /\ Range(<<w>> \o <<>>) = {w}
BY DEF Range

(* A script of one step ends after it, and is seen before or after it. *)
LEMMA Trace1 ==
    ASSUME NEW w, NEW a
    PROVE  /\ (<<w>> \o <<a>>)[Len(<<w>> \o <<a>>)] = a
           /\ Range(<<w>> \o <<a>>) = {w, a}
<1> DEFINE t == <<w>> \o <<a>>
<1>1. t \in Seq({w, a}) /\ Len(t) = 2 /\ t[1] = w /\ t[2] = a OBVIOUS
<1>2. DOMAIN t = 1..2 BY <1>1
<1> QED BY <1>1, <1>2 DEF Range

(* A script of two steps. *)
LEMMA Trace2 ==
    ASSUME NEW w, NEW a, NEW b
    PROVE  /\ (<<w>> \o <<a, b>>)[Len(<<w>> \o <<a, b>>)] = b
           /\ Range(<<w>> \o <<a, b>>) = {w, a, b}
<1> DEFINE t == <<w>> \o <<a, b>>
<1>1. t \in Seq({w, a, b}) /\ Len(t) = 3 /\ t[1] = w /\ t[2] = a /\ t[3] = b OBVIOUS
<1>2. DOMAIN t = 1..3 BY <1>1
<1> QED BY <1>1, <1>2 DEF Range

(* A script of three steps. *)
LEMMA Trace3 ==
    ASSUME NEW w, NEW a, NEW b, NEW c
    PROVE  /\ (<<w>> \o <<a, b, c>>)[Len(<<w>> \o <<a, b, c>>)] = c
           /\ Range(<<w>> \o <<a, b, c>>) = {w, a, b, c}
<1> DEFINE t == <<w>> \o <<a, b, c>>
<1>1. t \in Seq({w, a, b, c}) /\ Len(t) = 4 /\ t[1] = w /\ t[2] = a /\ t[3] = b /\ t[4] = c OBVIOUS
<1>2. DOMAIN t = 1..4 BY <1>1
<1> QED BY <1>1, <1>2 DEF Range

-----------------------------------------------------------------------------
(* What becomes of a script of one volume: Windows is done with it, or goes *)
(* on with it on its own.                                                   *)
Left(s) ==
    \/ late' = late /\ stale' = stale
    \/ s.op \notin ReadOnly /\ late' = late \cup {s} /\ stale' = stale \cup {s}

(* runPS: an answer means that the script came to its end without a throw; *)
(* after an error the server is somewhere on the script's way.             *)
LEMMA Ran ==
    ASSUME NEW STATE s, NEW STATE e, NEW ACTION Answer, NEW ACTION Failure, TypeOK,
           e = Effect(s), End(e) \in Reach(e), win \in Reach(e), RunPS(s, Answer, Failure)
    PROVE  /\ win' \in Reach(e) /\ faults' \in 0..MaxFaults /\ Left(s)
           /\ \/ Failure
              \/ Answer /\ ~e.throws /\ win' = End(e)
<1>1. CASE /\ win' = End(Effect(s)) /\ ~Effect(s).throws /\ Answer
           /\ UNCHANGED <<late, stale, faults>>
    BY <1>1, Zenon DEF TypeOK, Left
<1>2. CASE /\ win' = End(Effect(s)) /\ Effect(s).throws /\ Failure
           /\ UNCHANGED <<late, stale, faults>>
    BY <1>2, Zenon DEF TypeOK, Left
<1>3. ASSUME Fault PROVE faults' \in 0..MaxFaults
    BY <1>3, FaultAssumption DEF Fault, TypeOK
<1>4. CASE /\ Fault /\ win' \in Reach(Effect(s)) /\ Failure
           /\ UNCHANGED <<late, stale>>
    BY <1>3, <1>4, Zenon DEF Left
<1>5. CASE /\ Fault /\ s.op \notin ReadOnly /\ Failure
           /\ late' = late \cup {s} /\ stale' = stale \cup {s}
           /\ UNCHANGED win
    BY <1>3, <1>5, Zenon DEF Left
<1> QED BY <1>1, <1>2, <1>4, <1>5, Zenon DEF RunPS

(* A script of a volume is a script, and does what its method does. *)
LEMMA Effects ==
    ASSUME NEW v \in Volume, NEW p \in Path, NEW op \in ReadOnly \cup Making \cup Removing,
           NEW STATE s, s = Do(op, v, p)
    PROVE  /\ s \in Script /\ s.op = op /\ s.vol = v /\ s.path = p
           /\ op = "GetShare" => Effect(s) = Steps(<<>>)
           /\ op = "GetVolumeByName" => Effect(s) = GetVolumeByName(v)
           /\ op = "ResizeVirtualDisk" => Effect(s) = ResizeVirtualDisk(p)
           /\ op = "ExportSnapshotAsVirtualDisk" => Effect(s) = ExportSnapshotAsVirtualDisk(p)
           /\ op = "CreateVirtualDisk" => Effect(s) = CreateVirtualDisk(p)
           /\ op = "MountFileShareVirtualDisk" => Effect(s) = MountFileShareVirtualDisk(v, p)
           /\ op = "UnmountFileShareVirtualDisk" => Effect(s) = UnmountFileShareVirtualDisk(v, p)
           /\ op = "DeleteVirtualDisk" => Effect(s) = DeleteVirtualDisk(p)
           /\ op = "CreateShare" => Effect(s) = CreateShare(v)
           /\ op = "ResizeFileShare" => Effect(s) = ResizeFileShare(v)
           /\ op = "DeleteShare" => Effect(s) = DeleteShare(v)
<1>1. s \in Script /\ s.op = op /\ s.vol = v /\ s.path = p BY DEF Do, Script
<1> QED BY <1>1 DEF Effect

(* What holds of a server where a quota has its directory. *)
Placed(w, v) == w.at[v] = "absent" => v \notin w.limit

(* A making script of v over path p takes nothing away. *)
Makes(w, v, p) ==
    /\ v \in win.share => v \in w.share
    /\ win.vhdx[p] = "disk" => w.vhdx[p] = "disk"
    /\ p \in win.image => p \in w.image
    /\ Mounted(win, v) => w.at[v] = win.at[v]
    /\ Placed(win, v) => Placed(w, v)

(* A removing script of v over path p brings nothing back. *)
Removes(w, v, p) ==
    /\ v \in w.share => v \in win.share
    /\ win.vhdx[p] = "absent" => w.vhdx[p] = "absent"
    /\ p \in w.image => p \in win.image
    /\ ~Mounted(win, v) => w.at[v] \in {win.at[v], "absent"}
    /\ v \in w.limit => v \in win.limit
    /\ Placed(win, v) => Placed(w, v)

(* Mount-CsiFileShareVirtualDisk of path p for v, wherever it stops: it     *)
(* takes the share path only from nobody or from p itself, and only while   *)
(* there is a VHDX.                                                         *)
MountShape(w, v, p) ==
    /\ w.share = win.share /\ w.limit = win.limit /\ w.vhdx = win.vhdx
    /\ \/ w.at[v] = win.at[v]
       \/ win.at[v] = "absent" /\ w.at[v] = "dir"
       \/ w.at[v] = p /\ win.at[v] \in {"absent", "dir", p} /\ win.vhdx[p] # "absent"
    /\ p \in win.image => p \in w.image
    /\ win.vhdx[p] = "absent" => w.image = win.image

(* Mounting ends with the VHDX attached and at the share path, or throws. *)
LEMMA MountScript ==
    ASSUME NEW v \in Volume, NEW p \in Path, TypeOK,
           NEW STATE s, s = MountFileShareVirtualDisk(v, p)
    PROVE  /\ End(s) \in Reach(s) /\ win \in Reach(s)
           /\ \A w \in Reach(s) : Near(w, v, p) /\ MountShape(w, v, p) /\ Makes(w, v, p)
           /\ ~s.throws => End(s).at[v] = p /\ p \in End(s).image
<1> DEFINE dir == MakeDir(win, v)
           attached == [dir EXCEPT !.image = @ \cup {p}]
           final == [attached EXCEPT !.at[v] = p]
<1>0. win \in Windows /\ v \in Volume /\ p \in Path BY DEF TypeOK
<1>n. p \notin {"absent", "dir"} BY <1>0, NameAssumption DEF Path
<1>1. /\ dir \in Windows /\ dir.share = win.share /\ dir.limit = win.limit
      /\ dir.vhdx = win.vhdx /\ dir.image = win.image
      /\ dir.at = [win.at EXCEPT ![v] = IF @ = "absent" THEN "dir" ELSE @]
    BY <1>0 DEF Windows, MakeDir
<1> HIDE DEF dir
<1>2. /\ attached \in Windows /\ attached.share = dir.share /\ attached.limit = dir.limit
      /\ attached.vhdx = dir.vhdx /\ attached.image = dir.image \cup {p}
      /\ attached.at = dir.at
    BY <1>0, <1>1 DEF Windows
<1> HIDE DEF attached
<1>3. /\ final \in Windows /\ final.share = dir.share /\ final.limit = dir.limit
      /\ final.vhdx = dir.vhdx /\ final.image = dir.image \cup {p}
      /\ final.at = [dir.at EXCEPT ![v] = p]
    BY <1>0, <1>1, <1>2 DEF Windows
<1> HIDE DEF final
<1>m. Mounted(win, v) => win.at[v] \notin {"absent", "dir"}
    BY NameAssumption DEF Mounted, Path
<1>4. Near(win, v, p) /\ MountShape(win, v, p) /\ Makes(win, v, p)
    BY <1>0 DEF Near, MountShape, Makes
<1>5. Near(dir, v, p) /\ MountShape(dir, v, p) /\ Makes(dir, v, p)
    BY <1>0, <1>1, <1>m DEF Near, MountShape, Makes, Placed, Windows
<1>6. ASSUME win.vhdx[p] # "absent"
      PROVE  Near(attached, v, p) /\ MountShape(attached, v, p) /\ Makes(attached, v, p)
    BY <1>0, <1>1, <1>2, <1>6, <1>m DEF Near, MountShape, Makes, Placed, Windows
<1>7. CASE win.vhdx[p] = "absent"
    <2>1. s = Throw(<<dir>>) BY <1>7, Zenon DEF MountFileShareVirtualDisk, dir
    <2> QED BY <2>1, <1>4, <1>5, Trace1 DEF Throw, End, Reach
<1>8. CASE win.vhdx[p] # "absent" /\ (dir.at[v] \notin {"dir", p} \/ v \in win.json)
    <2>1. s = Throw(<<dir, attached>>)
        BY <1>8, Zenon DEF MountFileShareVirtualDisk, dir, attached
    <2> QED BY <2>1, <1>4, <1>5, <1>6, <1>8, Trace2 DEF Throw, End, Reach
<1>9. CASE win.vhdx[p] # "absent" /\ dir.at[v] \in {"dir", p} /\ v \notin win.json
    <2>1. s = Steps(<<dir, attached, final>>)
        BY <1>9, Zenon DEF MountFileShareVirtualDisk, dir, attached, final
    <2>2. End(s) = final /\ Reach(s) = {win, dir, attached, final}
        BY <2>1, Trace3 DEF Steps, End, Reach
    <2>3. final.at[v] = p /\ p \in final.image BY <1>0, <1>1, <1>3 DEF Windows
    <2>4. win.at[v] \in {"absent", "dir", p} BY <1>0, <1>1, <1>9 DEF Windows
    <2>5. Near(final, v, p) /\ MountShape(final, v, p)
        BY <1>0, <1>1, <1>3, <1>9, <2>4 DEF Near, MountShape, Windows
    <2>6. Makes(final, v, p)
        BY <1>0, <1>1, <1>3, <1>n, <1>m, <2>3, <2>4 DEF Makes, Placed, Windows
    <2> QED BY <2>2, <2>3, <2>5, <2>6, <1>4, <1>5, <1>6, <1>9
<1> QED BY <1>7, <1>8, <1>9

(* Dismount-CsiFileShareVirtualDisk of path p for v: a mounted share path   *)
(* becomes a directory, and then nothing.                                   *)
UnmountShape(w, v, p) ==
    /\ w.share = win.share /\ w.vhdx = win.vhdx
    /\ w.at[v] \in {win.at[v], "dir", "absent"}

(* Unmounting throws at a directory that is not empty, and stops anywhere   *)
(* when the call fails.                                                     *)
LEMMA UnmountScript ==
    ASSUME NEW v \in Volume, NEW p \in Path, TypeOK,
           NEW STATE s, s = UnmountFileShareVirtualDisk(v, p)
    PROVE  /\ End(s) \in Reach(s) /\ win \in Reach(s)
           /\ \A w \in Reach(s) : Near(w, v, p) /\ UnmountShape(w, v, p) /\ Removes(w, v, p)
<1> DEFINE freed == IF Mounted(win, v) THEN [win EXCEPT !.at[v] = "dir"] ELSE win
           detached == [freed EXCEPT !.image = @ \ {p}]
           final == RemoveDir(detached, v)
<1>0. win \in Windows /\ v \in Volume /\ p \in Path BY DEF TypeOK
<1>1. /\ freed \in Windows /\ freed.share = win.share /\ freed.limit = win.limit
      /\ freed.vhdx = win.vhdx /\ freed.image = win.image
      /\ freed.at = [win.at EXCEPT ![v] = IF Mounted(win, v) THEN "dir" ELSE @]
    BY <1>0 DEF Windows
<1> HIDE DEF freed
<1>2. /\ detached \in Windows /\ detached.share = freed.share
      /\ detached.limit = freed.limit /\ detached.vhdx = freed.vhdx
      /\ detached.image = freed.image \ {p} /\ detached.at = freed.at
    BY <1>0, <1>1 DEF Windows
<1> HIDE DEF detached
<1>3. /\ final \in Windows /\ final.share = freed.share /\ final.limit = freed.limit \ {v}
      /\ final.vhdx = freed.vhdx /\ final.image = freed.image \ {p}
      /\ final.at = [freed.at EXCEPT ![v] = "absent"]
    BY <1>0, <1>1, <1>2 DEF Windows, RemoveDir
<1> HIDE DEF final
<1>4. Near(win, v, p) /\ UnmountShape(win, v, p) /\ Removes(win, v, p)
    BY <1>0 DEF Near, UnmountShape, Removes
<1>5. Near(freed, v, p) /\ UnmountShape(freed, v, p) /\ Removes(freed, v, p)
    BY <1>0, <1>1 DEF Near, UnmountShape, Removes, Placed, Windows
<1>6. /\ Near(detached, v, p) /\ UnmountShape(detached, v, p) /\ Removes(detached, v, p)
      /\ Near(final, v, p) /\ UnmountShape(final, v, p) /\ Removes(final, v, p)
    BY <1>0, <1>1, <1>2, <1>3 DEF Near, UnmountShape, Removes, Placed, Windows
<1>7. CASE v \in win.json
    <2>1. s = Throw(<<freed, detached>>)
        BY <1>7, Zenon DEF UnmountFileShareVirtualDisk, freed, detached
    <2>2. End(s) = detached /\ Reach(s) = {win, freed, detached}
        BY <2>1, Trace2 DEF Throw, End, Reach
    <2> QED BY <1>4, <1>5, <1>6, <2>2
<1>8. CASE v \notin win.json
    <2>1. s = Steps(<<freed, detached, final>>)
        BY <1>8, Zenon DEF UnmountFileShareVirtualDisk, freed, detached, final
    <2>2. End(s) = final /\ Reach(s) = {win, freed, detached, final}
        BY <2>1, Trace3 DEF Steps, End, Reach
    <2> QED BY <1>4, <1>5, <1>6, <2>2
<1> QED BY <1>7, <1>8

(* What only touches the share of v: nothing shows at its path that did     *)
(* not, and what is shared is there.                                        *)
ShareShape(w, v) ==
    /\ w.image = win.image /\ w.vhdx = win.vhdx
    /\ \/ w.at[v] = win.at[v]
       \/ win.at[v] = "absent" /\ w.at[v] = "dir"
    /\ v \in win.share => v \in w.share
    /\ v \in w.share => v \in win.share \/ w.at[v] # "absent"

(* CreateNfsShare and CreateSmbShare end with the share. *)
LEMMA CreateShareScript ==
    ASSUME NEW v \in Volume, NEW p \in Path, TypeOK, NEW STATE s, s = CreateShare(v)
    PROVE  /\ End(s) \in Reach(s)
           /\ win \in Reach(s) /\ v \in End(s).share
           /\ \A w \in Reach(s) : Near(w, v, p) /\ ShareShape(w, v) /\ Makes(w, v, p)
<1> DEFINE dir == MakeDir(win, v)
           shared == [dir EXCEPT !.share = @ \cup {v}]
<1>0. win \in Windows /\ v \in Volume /\ p \in Path BY DEF TypeOK
<1>1. /\ dir \in Windows /\ dir.share = win.share /\ dir.limit = win.limit
      /\ dir.vhdx = win.vhdx /\ dir.image = win.image
      /\ dir.at = [win.at EXCEPT ![v] = IF @ = "absent" THEN "dir" ELSE @]
    BY <1>0 DEF Windows, MakeDir
<1> HIDE DEF dir
<1>2. /\ shared \in Windows /\ shared.share = dir.share \cup {v} /\ shared.limit = dir.limit
      /\ shared.vhdx = dir.vhdx /\ shared.image = dir.image /\ shared.at = dir.at
    BY <1>0, <1>1 DEF Windows
<1> HIDE DEF shared
<1>m. Mounted(win, v) => win.at[v] \notin {"absent", "dir"}
    BY NameAssumption DEF Mounted, Path
<1>3. Near(win, v, p) /\ ShareShape(win, v) /\ Makes(win, v, p)
    BY <1>0 DEF Near, ShareShape, Makes
<1>4. Near(dir, v, p) /\ ShareShape(dir, v) /\ Makes(dir, v, p)
    BY <1>0, <1>1, <1>m DEF Near, ShareShape, Makes, Placed, Windows
<1>5. Near(shared, v, p) /\ ShareShape(shared, v) /\ Makes(shared, v, p)
    BY <1>0, <1>1, <1>2, <1>m DEF Near, ShareShape, Makes, Placed, Windows
<1>6. s = Steps(<<dir, shared>>) BY Zenon DEF CreateShare, dir, shared
<1>7. End(s) = shared /\ Reach(s) = {win, dir, shared}
    BY <1>6, Trace2 DEF Steps, End, Reach
<1> QED BY <1>2, <1>3, <1>4, <1>5, <1>7

(* ResizeFileShare never touches the shares. *)
LEMMA LimitScript ==
    ASSUME NEW v \in Volume, NEW p \in Path, TypeOK, NEW STATE s, s = ResizeFileShare(v)
    PROVE  /\ End(s) \in Reach(s) /\ win \in Reach(s)
           /\ \A w \in Reach(s) : /\ Near(w, v, p) /\ ShareShape(w, v) /\ Makes(w, v, p)
                                  /\ w.share = win.share
<1> DEFINE dir == MakeDir(win, v)
           limited == [dir EXCEPT !.limit = @ \cup {v}]
           noted == [limited EXCEPT !.json = @ \cup {v}]
<1>0. win \in Windows /\ v \in Volume /\ p \in Path BY DEF TypeOK
<1>1. /\ dir \in Windows /\ dir.share = win.share /\ dir.limit = win.limit
      /\ dir.vhdx = win.vhdx /\ dir.image = win.image
      /\ dir.at = [win.at EXCEPT ![v] = IF @ = "absent" THEN "dir" ELSE @]
    BY <1>0 DEF Windows, MakeDir
<1> HIDE DEF dir
<1>2. /\ limited \in Windows /\ limited.share = dir.share
      /\ limited.limit = dir.limit \cup {v}
      /\ limited.vhdx = dir.vhdx /\ limited.image = dir.image /\ limited.at = dir.at
    BY <1>0, <1>1 DEF Windows
<1> HIDE DEF limited
<1>3. /\ noted \in Windows /\ noted.share = dir.share
      /\ noted.limit = dir.limit \cup {v}
      /\ noted.vhdx = dir.vhdx /\ noted.image = dir.image /\ noted.at = dir.at
    BY <1>0, <1>2 DEF Windows
<1> HIDE DEF noted
<1>m. Mounted(win, v) => win.at[v] \notin {"absent", "dir"}
    BY NameAssumption DEF Mounted, Path
<1>4. Near(win, v, p) /\ ShareShape(win, v) /\ Makes(win, v, p)
    BY <1>0 DEF Near, ShareShape, Makes
<1>5. Near(dir, v, p) /\ ShareShape(dir, v) /\ Makes(dir, v, p)
    BY <1>0, <1>1, <1>m DEF Near, ShareShape, Makes, Placed, Windows
<1>6. Near(limited, v, p) /\ ShareShape(limited, v) /\ Makes(limited, v, p)
    BY <1>0, <1>1, <1>2, <1>m DEF Near, ShareShape, Makes, Placed, Windows
<1>7. Near(noted, v, p) /\ ShareShape(noted, v) /\ Makes(noted, v, p)
    BY <1>0, <1>1, <1>3, <1>m DEF Near, ShareShape, Makes, Placed, Windows
<1>8. CASE Mounted(dir, v)
    <2>1. s = Steps(<<dir>>) BY <1>8, Zenon DEF ResizeFileShare, dir
    <2>2. End(s) = dir /\ Reach(s) = {win, dir} BY <2>1, Trace1 DEF Steps, End, Reach
    <2> QED BY <1>1, <1>4, <1>5, <2>2
<1>9. CASE ~Mounted(dir, v)
    <2>1. s = Steps(<<dir, limited, noted>>)
        BY <1>9, Zenon DEF ResizeFileShare, dir, limited, noted
    <2>2. End(s) = noted /\ Reach(s) = {win, dir, limited, noted}
        BY <2>1, Trace3 DEF Steps, End, Reach
    <2> QED BY <1>1, <1>2, <1>3, <1>4, <1>5, <1>6, <1>7, <2>2
<1> QED BY <1>8, <1>9

(* DeleteNfsShare and DeleteSmbShare: the directory goes after the share, and *)
(* not while a disk is mounted there.                                         *)
UnshareShape(w, v) ==
    /\ w.image = win.image /\ w.vhdx = win.vhdx
    /\ w.at[v] \in {win.at[v], "absent"}
    /\ v \in w.share => v \in win.share /\ w.at[v] = win.at[v]

(* Deleting a share ends with no share, directory or quota, or throws. *)
LEMMA UnshareScript ==
    ASSUME NEW v \in Volume, NEW p \in Path, TypeOK, NEW STATE s, s = DeleteShare(v)
    PROVE  /\ End(s) \in Reach(s) /\ win \in Reach(s)
           /\ \A w \in Reach(s) : Near(w, v, p) /\ UnshareShape(w, v) /\ Removes(w, v, p)
           /\ ~s.throws => v \notin End(s).share /\ End(s).at[v] = "absent"
<1> DEFINE unshared == [win EXCEPT !.share = @ \ {v}]
           unlimited == [unshared EXCEPT !.limit = @ \ {v}]
           final == RemoveDir(unlimited, v)
<1>0. win \in Windows /\ v \in Volume /\ p \in Path BY DEF TypeOK
<1>1. /\ unshared \in Windows /\ unshared.share = win.share \ {v}
      /\ unshared.limit = win.limit /\ unshared.vhdx = win.vhdx
      /\ unshared.image = win.image /\ unshared.at = win.at
    BY <1>0 DEF Windows
<1> HIDE DEF unshared
<1>2. /\ unlimited \in Windows /\ unlimited.share = unshared.share
      /\ unlimited.limit = unshared.limit \ {v} /\ unlimited.vhdx = unshared.vhdx
      /\ unlimited.image = unshared.image /\ unlimited.at = unshared.at
    BY <1>0, <1>1 DEF Windows
<1> HIDE DEF unlimited
<1>3. /\ final \in Windows /\ final.share = unlimited.share
      /\ final.limit = unlimited.limit \ {v} /\ final.vhdx = unlimited.vhdx
      /\ final.image = unlimited.image /\ final.at = [unlimited.at EXCEPT ![v] = "absent"]
    BY <1>0, <1>2 DEF Windows, RemoveDir
<1> HIDE DEF final
<1>4. Near(win, v, p) /\ UnshareShape(win, v) /\ Removes(win, v, p)
    BY <1>0 DEF Near, UnshareShape, Removes
<1>5. Near(unshared, v, p) /\ UnshareShape(unshared, v) /\ Removes(unshared, v, p)
    BY <1>0, <1>1 DEF Near, UnshareShape, Removes, Placed, Windows
<1>6. Near(unlimited, v, p) /\ UnshareShape(unlimited, v) /\ Removes(unlimited, v, p)
    BY <1>0, <1>1, <1>2 DEF Near, UnshareShape, Removes, Placed, Windows
<1>7. Near(final, v, p) /\ UnshareShape(final, v) /\ Removes(final, v, p)
    BY <1>0, <1>1, <1>2, <1>3 DEF Near, UnshareShape, Removes, Placed, Windows
<1>n. ~("absent" \in Path) BY NameAssumption DEF Path
<1>8. CASE win.at[v] = "absent"
    <2>0. ~Mounted(win, v) BY <1>8, <1>n DEF Mounted
    <2>1. s = Steps(<<unshared>>) BY <1>8, <2>0, Zenon DEF DeleteShare, unshared
    <2>2. End(s) = unshared /\ Reach(s) = {win, unshared}
        BY <2>1, Trace1 DEF Steps, End, Reach
    <2> QED BY <1>1, <1>4, <1>5, <1>8, <2>2
<1>9. CASE Mounted(win, v)
    <2>0. win.at[v] # "absent" BY <1>9, <1>n DEF Mounted
    <2>1. s = Throw(<<unshared, unlimited>>)
        BY <1>9, <2>0, Zenon DEF DeleteShare, unshared, unlimited
    <2>2. s.throws /\ End(s) = unlimited /\ Reach(s) = {win, unshared, unlimited}
        BY <2>1, Trace2 DEF Throw, End, Reach
    <2> QED BY <2>2, <1>4, <1>5, <1>6
<1>10. CASE win.at[v] # "absent" /\ ~Mounted(win, v)
    <2>1. s = Steps(<<unshared, unlimited, final>>)
        BY <1>10, Zenon DEF DeleteShare, unshared, unlimited, final
    <2>2. End(s) = final /\ Reach(s) = {win, unshared, unlimited, final}
        BY <2>1, Trace3 DEF Steps, End, Reach
    <2>3. v \notin final.share /\ final.at[v] = "absent"
        BY <1>0, <1>1, <1>2, <1>3 DEF Windows
    <2> QED BY <2>2, <2>3, <1>4, <1>5, <1>6, <1>7
<1> QED BY <1>8, <1>9, <1>10

(* What only touches the virtual disk at path p. *)
DiskShape(w) ==
    w.share = win.share /\ w.limit = win.limit /\ w.at = win.at /\ w.image = win.image

(* A new or exported virtual disk ends registered, or the script throws     *)
(* before it has done anything.                                             *)
LEMMA DiskScript ==
    ASSUME NEW v \in Volume, NEW p \in Path, TypeOK, NEW STATE s,
           s \in {CreateVirtualDisk(p), ExportSnapshotAsVirtualDisk(p)}
    PROVE  /\ End(s) \in Reach(s) /\ win \in Reach(s)
           /\ \A w \in Reach(s) : Near(w, v, p) /\ DiskShape(w) /\ Makes(w, v, p)
           /\ ~s.throws => End(s).vhdx[p] = "disk"
<1> DEFINE made == [win EXCEPT !.vhdx[p] = "disk"]
<1>0. win \in Windows /\ v \in Volume /\ p \in Path BY DEF TypeOK
<1>1. /\ made \in Windows /\ DiskShape(made)
      /\ made.vhdx = [win.vhdx EXCEPT ![p] = "disk"]
    BY <1>0 DEF Windows, DiskShape
<1>2. s = Throw(<<>>) \/ s = Steps(<<made>>)
    BY Zenon DEF CreateVirtualDisk, ExportSnapshotAsVirtualDisk
<1> HIDE DEF made
<1>3. Near(win, v, p) /\ DiskShape(win) /\ Makes(win, v, p) BY <1>0 DEF Near, DiskShape, Makes
<1>4. Near(made, v, p) /\ Makes(made, v, p)
    BY <1>0, <1>1 DEF Near, DiskShape, Makes, Placed, Windows
<1>5. CASE s = Throw(<<>>)
    <2>1. s.throws /\ End(s) = win /\ Reach(s) = {win} BY <1>5, Trace0 DEF Throw, End, Reach
    <2> QED BY <1>3, <2>1
<1>6. CASE s = Steps(<<made>>)
    <2>1. End(s) = made /\ Reach(s) = {win, made} BY <1>6, Trace1 DEF Steps, End, Reach
    <2>2. made.vhdx[p] = "disk" BY <1>0, <1>1 DEF Windows
    <2> QED BY <1>1, <1>3, <1>4, <2>1, <2>2
<1> QED BY <1>2, <1>5, <1>6

(* DeleteVirtualDisk ends with no file and no image, or throws. *)
LEMMA DeleteDiskScript ==
    ASSUME NEW v \in Volume, NEW p \in Path, TypeOK, NEW STATE s, s = DeleteVirtualDisk(p)
    PROVE  /\ End(s) \in Reach(s) /\ win \in Reach(s)
           /\ \A w \in Reach(s) : Near(w, v, p) /\ DiskShape(w) /\ Removes(w, v, p)
           /\ ~s.throws => p \notin End(s).image /\ End(s).vhdx[p] = "absent"
<1> DEFINE file == [win EXCEPT !.vhdx[p] = IF @ = "absent" THEN @ ELSE "file"]
           final == [file EXCEPT !.vhdx[p] = "absent"]
<1>0. win \in Windows /\ v \in Volume /\ p \in Path BY DEF TypeOK
<1>1. /\ file \in Windows /\ DiskShape(file)
      /\ file.vhdx = [win.vhdx EXCEPT ![p] = IF @ = "absent" THEN @ ELSE "file"]
    BY <1>0 DEF Windows, DiskShape
<1> HIDE DEF file
<1>2. /\ final \in Windows /\ DiskShape(final)
      /\ final.vhdx = [file.vhdx EXCEPT ![p] = "absent"]
    BY <1>0, <1>1 DEF Windows, DiskShape
<1> HIDE DEF final
<1>3. Near(win, v, p) /\ DiskShape(win) /\ Removes(win, v, p)
    BY <1>0 DEF Near, DiskShape, Removes
<1>4. Near(file, v, p) /\ Removes(file, v, p)
    BY <1>0, <1>1 DEF Near, DiskShape, Removes, Placed, Windows
<1>5. Near(final, v, p) /\ Removes(final, v, p)
    BY <1>0, <1>1, <1>2 DEF Near, DiskShape, Removes, Placed, Windows
<1>6. CASE p \in win.image
    <2>1. s = Throw(<<file>>) BY <1>6, Zenon DEF DeleteVirtualDisk, file
    <2>2. s.throws /\ End(s) = file /\ Reach(s) = {win, file}
        BY <2>1, Trace1 DEF Throw, End, Reach
    <2> QED BY <2>2, <1>1, <1>3, <1>4
<1>7. CASE p \notin win.image
    <2>1. s = Steps(<<file, final>>) BY <1>7, Zenon DEF DeleteVirtualDisk, file, final
    <2>2. End(s) = final /\ Reach(s) = {win, file, final}
        BY <2>1, Trace2 DEF Steps, End, Reach
    <2>3. p \notin final.image /\ final.vhdx[p] = "absent"
        BY <1>0, <1>1, <1>2, <1>7 DEF Windows, DiskShape
    <2> QED BY <2>2, <2>3, <1>1, <1>2, <1>3, <1>4, <1>5
<1> QED BY <1>6, <1>7

(* GetNfsShare, GetVolumeByName and Resize-IscsiVirtualDisk change nothing   *)
(* that the model keeps.                                                     *)
LEMMA ReadScript ==
    ASSUME NEW v \in Volume, NEW p \in Path, NEW STATE s,
           s \in {Steps(<<>>), GetVolumeByName(v), ResizeVirtualDisk(p)}
    PROVE  /\ End(s) = win /\ Reach(s) = {win} /\ win \in Reach(s)
           /\ s = GetVolumeByName(v) /\ ~s.throws => win.vhdx[v] # "file"
<1>2. s = Steps(<<>>) \/ s = Throw(<<>>) BY DEF GetVolumeByName, ResizeVirtualDisk
<1>3. End(s) = win /\ Reach(s) = {win} BY <1>2, Trace0 DEF Steps, Throw, End, Reach
<1>4. ASSUME s = GetVolumeByName(v), win.vhdx[v] = "file" PROVE s.throws
    BY <1>4 DEF GetVolumeByName, Throw
<1> QED BY <1>3, <1>4

-----------------------------------------------------------------------------
(***************************************************************************)
(* The inductive invariant.  The two properties say nothing of a call in   *)
(* flight, which is where they are won: so the invariant says what each    *)
(* state of a call has established, and that the paths a volume can still  *)
(* name (its own, that of its ID, of its call and of its mount) are no     *)
(* other volume's.  What a call has established holds as long as Windows   *)
(* runs no script of the other sort on its own.                            *)
(***************************************************************************)
Creating == {"get", "lookup", "export", "create", "mount", "remount", "share", "limit"}
Deleting == {"unmount", "delDisk", "delShare"}

(* Which calls run in which phase of a volume's life. *)
PhaseOK(v) ==
    /\ vol[v] = "none" => prov[v].pc \in {"idle"} \cup Creating /\ ~prov[v].roll
    /\ vol[v] = "made" => \/ prov[v].pc = "idle" /\ ~prov[v].roll
                          \/ prov[v].pc \in Deleting /\ prov[v].roll
    /\ vol[v] \in {"bound", "gone"} => prov[v].pc = "idle" /\ ~prov[v].roll
    /\ vol[v] = "doomed" => prov[v].pc \in {"idle"} \cup Deleting /\ ~prov[v].roll
    /\ prov[v].pc \in Deleting => prov[v].path = id[v]
    /\ vol[v] \in {"none", "made"} => exp[v] = "idle"
    /\ vol[v] \in {"doomed", "gone"} /\ exp[v] # "idle" => v \in beside

(* A directory-backed volume never has a disk at its path, and a quota has  *)
(* its directory.                                                           *)
DirOK(v) ==
    /\ kind[v] = "directory" =>
         /\ win.at[v] \in {"absent", "dir"}
         /\ v \in win.share => win.at[v] = "dir"
    /\ Placed(win, v)

(* The kinds run the scripts of their own. *)
KindOK(v) ==
    /\ kind[v] = "directory" => /\ prov[v].pc \in {"idle", "get", "share", "limit", "delShare"}
                                /\ exp[v] \in {"idle", "limit"}
    /\ kind[v] = "vhdx" => exp[v] # "limit"

(* What a CreateVolume in flight has established. *)
CreateOK(v) ==
    ~Haunted(v, Removing) =>
       /\ prov[v].pc = "lookup" /\ prov[v].exists => v \in win.share
       /\ prov[v].pc = "remount" => v \in win.share /\ win.vhdx[v] = "disk"
       /\ prov[v].pc = "mount" => win.vhdx[prov[v].path] = "disk"
       /\ prov[v].pc \in {"share", "limit"} /\ kind[v] = "vhdx" =>
            /\ win.at[v] = prov[v].path /\ prov[v].path \in win.image
            /\ win.vhdx[prov[v].path] = "disk"
       /\ prov[v].pc = "limit" => v \in win.share

(* What a DeleteVolume in flight has established. *)
DeleteOK(v) ==
    prov[v].pc = "delShare" /\ kind[v] = "vhdx" /\ ~Haunted(v, Making) =>
       prov[v].path \notin win.image /\ win.vhdx[prov[v].path] = "absent"

(* The two properties, of one volume. *)
ServedOK(v) ==
    vol[v] \in {"made", "bound"} /\ ~prov[v].roll /\ ~Haunted(v, Removing) =>
       /\ v \in win.share
       /\ kind[v] = "directory" => win.at[v] = "dir"
       /\ kind[v] = "vhdx" =>
            /\ win.at[v] = id[v] /\ id[v] \in win.image /\ win.vhdx[id[v]] = "disk"

GoneOK(v) ==
    vol[v] = "gone" /\ ~Haunted(v, Making) =>
       /\ v \notin win.share
       /\ kind[v] = "vhdx" => id[v] \notin win.image /\ win.vhdx[id[v]] = "absent"
       /\ ~Mounted(win, v)
       /\ v \notin beside => win.at[v] = "absent" /\ v \notin win.limit

VolumeOK(v) ==
    /\ PhaseOK(v) /\ DirOK(v) /\ KindOK(v) /\ CreateOK(v)
    /\ DeleteOK(v) /\ ServedOK(v) /\ GoneOK(v)

(* The scripts of VHDX-backed volumes. *)
DiskOps == {"ExportSnapshotAsVirtualDisk", "CreateVirtualDisk", "MountFileShareVirtualDisk",
            "UnmountFileShareVirtualDisk", "DeleteVirtualDisk"}

(* What Windows runs on its own. *)
LateOK ==
    /\ late \subseteq stale
    /\ \A s \in late : s.op \notin ReadOnly
    /\ \A s \in late : kind[s.vol] = "directory" => s.op \notin DiskOps

Named(v) == {v, id[v], prov[v].path, win.at[v]} \cup {s.path : s \in {r \in late : r.vol = v}}

ApartOK == \A u, v \in Volume : u # v => Named(u) \cap Named(v) \subseteq {"absent", "dir"}

ShareInv == TypeOK /\ LateOK /\ (\A v \in Volume : VolumeOK(v)) /\ ApartOK

-----------------------------------------------------------------------------
(* Only volume v has moved. *)
Alone(v) ==
    /\ UNCHANGED <<kind, src>>
    /\ \A u \in Volume \ {v} : /\ vol'[u] = vol[u] /\ id'[u] = id[u]
                               /\ prov'[u] = prov[u] /\ exp'[u] = exp[u]
                               /\ u \in beside' <=> u \in beside

(* Of what Windows runs on its own only scripts of v have come or gone, and *)
(* those that have come are over path q.                                    *)
Lates(v, q) ==
    /\ late' \subseteq Script /\ stale' \subseteq Script /\ LateOK'
    /\ \A s \in Script : s.vol # v => /\ s \in late' <=> s \in late
                                      /\ s \in stale' <=> s \in stale
    /\ \A s \in late' : s.vol = v => s \in late \/ s.path = q

(* Nothing that Windows runs on its own is forgotten. *)
Kept == stale \subseteq stale'

(* A step of volume v over path q, which is v's or nobody's. *)
Own(v, q) ==
    /\ q \in Path /\ q \in Named(v) \cup FreeExport
    /\ Near(win', v, q) /\ Alone(v) /\ Lates(v, q)
    /\ Named(v)' \subseteq Named(v) \cup {q, "absent", "dir"}

(* Only a call that begins can get a volume rid of what haunted it. *)
LEMMA StaysHaunted ==
    ASSUME Kept, NEW v, NEW ops, Haunted(v, ops)
    PROVE  Haunted(v, ops)'
BY DEF Kept, Haunted

(* A step of one volume haunts no other. *)
LEMMA OthersHaunted ==
    ASSUME TypeOK, NEW v, NEW q, Lates(v, q), NEW u, u # v, NEW ops
    PROVE  Haunted(u, ops)' <=> Haunted(u, ops)
BY DEF TypeOK, Lates, Haunted

(* A path of v, or one that nobody names, is not among the paths of another. *)
LEMMA NotNamed ==
    ASSUME ShareInv, NEW v \in Volume, NEW u \in Volume, u # v,
           NEW q \in Path, q \in Named(v) \cup FreeExport
    PROVE  q \notin Named(u)
<1>0. q \notin {"absent", "dir"} BY NameAssumption DEF Path
<1>1. CASE q \in Named(v) BY <1>0, <1>1 DEF ShareInv, ApartOK
<1>2. CASE q \in FreeExport
    <2>1. q # u BY <1>2, ExportAssumption DEF FreeExport
    <2>2. q \notin {s.path : s \in {r \in late : r.vol = u}} BY <1>2 DEF FreeExport
    <2> QED BY <1>2, <2>1, <2>2 DEF FreeExport, Named
<1> QED BY <1>1, <1>2

(* A step of one volume leaves what holds of another. *)
LEMMA OthersStay ==
    ASSUME ShareInv, NEW v \in Volume, NEW u \in Volume, u # v,
           NEW q \in Path, Own(v, q)
    PROVE  VolumeOK(u)' /\ Named(u)' = Named(u)
<1>1. q \notin Named(u) BY NotNamed DEF Own
<1>2. /\ kind' = kind /\ vol'[u] = vol[u] /\ id'[u] = id[u] /\ prov'[u] = prov[u]
      /\ exp'[u] = exp[u] /\ (u \in beside' <=> u \in beside)
    BY DEF Own, Alone
<1>3. /\ win'.at[u] = win.at[u] /\ (u \in win'.share <=> u \in win.share)
      /\ (u \in win'.limit <=> u \in win.limit)
    BY DEF Own, Near
<1>4. u \in Path /\ id[u] \in Path /\ prov[u].path \in Path
    BY DEF ShareInv, TypeOK, Call, Path
<1>5. ASSUME NEW r \in {u, id[u], prov[u].path}
      PROVE  win'.vhdx[r] = win.vhdx[r] /\ (r \in win'.image <=> r \in win.image)
    BY <1>1, <1>4 DEF Named, Own, Near
<1>6. Named(u)' = Named(u)
    <2>1. {r \in late' : r.vol = u} = {r \in late : r.vol = u}
        BY DEF Own, Lates, ShareInv, TypeOK
    <2> QED BY <1>2, <1>3, <2>1 DEF Named
<1>7. VolumeOK(u) BY DEF ShareInv
<1>h. /\ Haunted(u, Making)' <=> Haunted(u, Making)
      /\ Haunted(u, Removing)' <=> Haunted(u, Removing)
    BY OthersHaunted DEF Own, ShareInv
<1>8. PhaseOK(u)' /\ KindOK(u)' BY <1>2, <1>7 DEF VolumeOK, PhaseOK, KindOK
<1>9. DirOK(u)' BY <1>2, <1>3, <1>7 DEF VolumeOK, DirOK, Placed
<1>10. CreateOK(u)' BY <1>2, <1>3, <1>5, <1>7, <1>h DEF VolumeOK, CreateOK
<1>11. DeleteOK(u)' BY <1>2, <1>3, <1>5, <1>7, <1>h DEF VolumeOK, DeleteOK
<1>12. ServedOK(u)' BY <1>2, <1>3, <1>5, <1>7, <1>h DEF VolumeOK, ServedOK
<1>13. GoneOK(u)' BY <1>2, <1>3, <1>5, <1>7, <1>h DEF VolumeOK, GoneOK, Mounted
<1> QED BY <1>6, <1>8, <1>9, <1>10, <1>11, <1>12, <1>13 DEF VolumeOK

(* So a step of one volume keeps the invariant when it keeps its own part. *)
LEMMA OwnStep ==
    ASSUME ShareInv, NEW v \in Volume, NEW q \in Path, Own(v, q), TypeOK', VolumeOK(v)'
    PROVE  ShareInv'
<1>1. ASSUME NEW u \in Volume PROVE VolumeOK(u)' BY OthersStay
<1>2. ASSUME NEW u \in Volume, u # v
      PROVE  Named(u)' \cap Named(v)' \subseteq {"absent", "dir"}
    <2>1. q \notin Named(u) BY <1>2, NotNamed DEF Own
    <2>2. Named(u)' = Named(u) BY <1>2, OthersStay
    <2>3. Named(u) \cap Named(v) \subseteq {"absent", "dir"} BY <1>2 DEF ShareInv, ApartOK
    <2> QED BY <2>1, <2>2, <2>3 DEF Own
<1>3. ASSUME NEW u \in Volume, NEW w \in Volume, u # w, u # v, w # v
      PROVE  Named(u)' \cap Named(w)' \subseteq {"absent", "dir"}
    <2>1. Named(u)' = Named(u) /\ Named(w)' = Named(w) BY <1>3, OthersStay
    <2> QED BY <1>3, <2>1 DEF ShareInv, ApartOK
<1>4. ApartOK'
    <2> SUFFICES ASSUME NEW u \in Volume, NEW w \in Volume, u # w
                 PROVE  Named(u)' \cap Named(w)' \subseteq {"absent", "dir"}
        BY DEF ApartOK
    <2>1. CASE u = v BY <2>1, <1>2
    <2>2. CASE w = v BY <2>2, <1>2
    <2> QED BY <2>1, <2>2, <1>3
<1>5. LateOK' BY DEF Own, Lates
<1> QED BY <1>1, <1>4, <1>5 DEF ShareInv

-----------------------------------------------------------------------------
(* A script of v over path q has run, to its end or not; what the call makes *)
(* of it is still open.                                                      *)
Ready(v, q) ==
    /\ q \in Path /\ q \in Named(v) \cup FreeExport
    /\ Near(win', v, q) /\ win'.at[v] \in {win.at[v], "absent", "dir", q}
    /\ kind' = kind /\ src' = src /\ faults' \in 0..MaxFaults /\ Lates(v, q)

(* A script of v over path q that the driver has run or given up on. *)
LEMMA Runs ==
    ASSUME ShareInv, NEW v \in Volume, NEW q \in Path, kind' = kind,
           NEW op \in ReadOnly \cup Making \cup Removing,
           kind[v] = "directory" => op \notin DiskOps,
           NEW STATE e, e = Effect(Do(op, v, q)), End(e) \in Reach(e), win \in Reach(e),
           NEW ACTION Answer, NEW ACTION Failure, RunPS(Do(op, v, q), Answer, Failure)
    PROVE  /\ win' \in Reach(e) /\ faults' \in 0..MaxFaults /\ Lates(v, q) /\ Kept
           /\ \/ Failure
              \/ Answer /\ ~e.throws /\ win' = End(e)
<1> DEFINE s == Do(op, v, q)
<1>0. TypeOK /\ LateOK BY DEF ShareInv
<1>1. s \in Script /\ s.op = op /\ s.vol = v /\ s.path = q BY Effects
<1>2. RunPS(s, Answer, Failure) /\ e = Effect(s) OBVIOUS
<1> HIDE DEF s
<1>3. /\ win' \in Reach(e) /\ faults' \in 0..MaxFaults /\ Left(s)
      /\ \/ Failure
         \/ Answer /\ ~e.throws /\ win' = End(e)
    BY <1>0, <1>2, Ran
<1>4. Lates(v, q) /\ Kept
    <2>1. CASE late' = late /\ stale' = stale
        BY <1>0, <2>1 DEF Lates, Kept, LateOK, TypeOK
    <2>2. CASE s.op \notin ReadOnly /\ late' = late \cup {s} /\ stale' = stale \cup {s}
        BY <1>0, <1>1, <2>2 DEF Lates, Kept, LateOK, TypeOK
    <2> QED BY <1>3, <2>1, <2>2 DEF Left
<1> QED BY <1>3, <1>4

(* Going on to the next script of a call. *)
LEMMA GotoMoves ==
    ASSUME ShareInv, NEW v \in Volume, NEW q \in Path, Ready(v, q), NEW pc \in PC,
           NEW r \in {v, q, prov[v].path}, NEW e \in BOOLEAN, Goto(v, pc, r, e)
    PROVE  /\ TypeOK' /\ Own(v, q)
           /\ prov'[v] = [pc |-> pc, exists |-> e, path |-> r, roll |-> prov[v].roll]
           /\ vol' = vol /\ id' = id /\ exp' = exp /\ beside' = beside
<1>0. TypeOK /\ r \in Path /\ prov[v] \in Call BY DEF ShareInv, TypeOK, Call, Path
<1>1. /\ prov' = [prov EXCEPT ![v] =
                    [pc |-> pc, exists |-> e, path |-> r, roll |-> prov[v].roll]]
      /\ vol' = vol /\ id' = id /\ exp' = exp /\ beside' = beside
    BY DEF Goto
<1>2. [pc |-> pc, exists |-> e, path |-> r, roll |-> prov[v].roll] \in Call
    BY <1>0 DEF Call
<1>3. prov' \in [Volume -> Call] BY <1>0, <1>1, <1>2 DEF TypeOK
<1>4. TypeOK' BY <1>0, <1>1, <1>3 DEF TypeOK, Ready, Near, Lates
<1>5. prov'[v] = [pc |-> pc, exists |-> e, path |-> r, roll |-> prov[v].roll]
    BY <1>0, <1>1 DEF TypeOK
<1>6. Alone(v) BY <1>0, <1>1 DEF Alone, Ready, TypeOK
<1>7. Named(v)' \subseteq Named(v) \cup {q, "absent", "dir"}
    <2>1. prov'[v].path = r BY <1>5
    <2> QED BY <1>1, <2>1 DEF Named, Ready, Lates
<1> QED BY <1>1, <1>4, <1>5, <1>6, <1>7 DEF Own, Ready

(* The end of a provisioner's call, whatever it comes to. *)
LEMMA EndMoves ==
    ASSUME ShareInv, NEW v \in Volume, NEW q \in Path, Ready(v, q),
           prov' = [prov EXCEPT ![v] = NoCall(v)], exp' = exp, beside' = beside,
           vol' \in [Volume -> Life], \A u \in Volume \ {v} : vol'[u] = vol[u],
           id' \in [Volume -> Path], \A u \in Volume \ {v} : id'[u] = id[u],
           id'[v] \in Named(v) \cup {q}
    PROVE  TypeOK' /\ Own(v, q) /\ prov'[v].pc = "idle" /\ ~prov'[v].roll
<1>0. TypeOK BY DEF ShareInv
<1>1. NoCall(v) \in Call BY DEF NoCall, NewCall, Call, PC, Path
<1>2. prov' \in [Volume -> Call] BY <1>0, <1>1 DEF TypeOK
<1>3. TypeOK' BY <1>0, <1>2 DEF TypeOK, Ready, Near, Lates
<1>4. prov'[v] = NoCall(v) BY <1>0 DEF TypeOK
<1>5. Alone(v) BY <1>0 DEF Alone, Ready, TypeOK
<1>6. Named(v)' \subseteq Named(v) \cup {q, "absent", "dir"}
    <2>1. prov'[v].path = v BY <1>4 DEF NoCall, NewCall
    <2> QED BY <2>1 DEF Named, Ready, Lates
<1> QED BY <1>3, <1>4, <1>5, <1>6 DEF Own, Ready, NoCall, NewCall

(* A call that fails leaves a claim that waits, or a volume to be deleted. *)
LEMMA ErrorStep ==
    ASSUME ShareInv, NEW v \in Volume, NEW q \in Path, Ready(v, q),
           prov[v].pc # "idle", DirOK(v)', Error(v)
    PROVE  ShareInv'
<1>0. TypeOK /\ VolumeOK(v) /\ kind' = kind BY DEF ShareInv, Ready
<1> DEFINE l == IF prov[v].roll THEN "none" ELSE vol[v]
<1>1. l \in Life BY <1>0 DEF TypeOK, Life
<1>2. /\ prov' = [prov EXCEPT ![v] = NoCall(v)] /\ id' = id /\ exp' = exp /\ beside' = beside
      /\ vol' \in [Volume -> Life] /\ vol'[v] = l
      /\ \A u \in Volume \ {v} : vol'[u] = vol[u]
    BY <1>0, <1>1 DEF Error, TypeOK
<1>3. l \in {"none", "doomed"} /\ (l = "none" => exp[v] = "idle")
    BY <1>0 DEF TypeOK, VolumeOK, PhaseOK, Life
<1>4. (l = "doomed" /\ exp[v] # "idle") => v \in beside
    BY <1>0 DEF VolumeOK, PhaseOK
<1> HIDE DEF l
<1>5. TypeOK' /\ Own(v, q) /\ prov'[v].pc = "idle" /\ ~prov'[v].roll
    BY <1>0, <1>2, EndMoves DEF TypeOK, Named
<1>7. PhaseOK(v)' BY <1>2, <1>3, <1>4, <1>5 DEF PhaseOK, Deleting
<1>8. KindOK(v)' BY <1>0, <1>2, <1>5 DEF VolumeOK, KindOK
<1>9. CreateOK(v)' /\ DeleteOK(v)' BY <1>5 DEF CreateOK, DeleteOK
<1>10. ServedOK(v)' /\ GoneOK(v)' BY <1>2, <1>3 DEF ServedOK, GoneOK
<1>11. VolumeOK(v)' BY <1>7, <1>8, <1>9, <1>10 DEF VolumeOK
<1> QED BY <1>5, <1>11, OwnStep

(* CreateVolume goes on: what it has established must hold after the step. *)
LEMMA CreateGoes ==
    ASSUME ShareInv, NEW v \in Volume, NEW q \in Path, Ready(v, q), prov[v].pc \in Creating,
           NEW pc \in Creating, NEW r \in {v, q, prov[v].path}, NEW e \in BOOLEAN,
           Goto(v, pc, r, e), DirOK(v)', KindOK(v)',
           prov'[v] = [pc |-> pc, exists |-> e, path |-> r, roll |-> prov[v].roll] => CreateOK(v)'
    PROVE  ShareInv'
<1>0. TypeOK /\ VolumeOK(v) /\ pc \in PC BY DEF ShareInv, Creating, PC
<1>1. /\ TypeOK' /\ Own(v, q)
      /\ prov'[v] = [pc |-> pc, exists |-> e, path |-> r, roll |-> prov[v].roll]
      /\ vol' = vol /\ id' = id /\ exp' = exp /\ beside' = beside
    BY <1>0, GotoMoves
<1>2. prov'[v].pc = pc /\ (prov'[v].roll <=> prov[v].roll) BY <1>1
<1>3. vol[v] = "none" /\ ~prov[v].roll
    BY <1>0 DEF VolumeOK, PhaseOK, TypeOK, Life, Creating, Deleting
<1>4. PhaseOK(v)' BY <1>0, <1>1, <1>2, <1>3 DEF VolumeOK, PhaseOK, Creating, Deleting
<1>5. DeleteOK(v)' BY <1>2 DEF DeleteOK, Creating
<1>6. ServedOK(v)' /\ GoneOK(v)' BY <1>1, <1>3 DEF ServedOK, GoneOK
<1>7. VolumeOK(v)' BY <1>1, <1>4, <1>5, <1>6 DEF VolumeOK
<1> QED BY <1>1, <1>7, OwnStep

(* CreateVolume answers: what the answer says must be there. *)
LEMMA CreatedStep ==
    ASSUME ShareInv, NEW v \in Volume, NEW q \in Path, Ready(v, q), prov[v].pc \in Creating,
           NEW r \in {v, q, prov[v].path}, Created(v, r), DirOK(v)',
           ~Haunted(v, Removing)' =>
              /\ v \in win'.share
              /\ kind[v] = "vhdx" => win'.at[v] = r /\ r \in win'.image /\ win'.vhdx[r] = "disk"
    PROVE  ShareInv'
<1>0. TypeOK /\ VolumeOK(v) /\ kind' = kind BY DEF ShareInv, Ready
<1>1. r \in Path /\ r \in Named(v) \cup {q} BY <1>0 DEF Named, TypeOK, Call, Path
<1>2. /\ prov' = [prov EXCEPT ![v] = NoCall(v)] /\ exp' = exp /\ beside' = beside
      /\ vol' \in [Volume -> Life] /\ vol'[v] = "made" /\ id' \in [Volume -> Path] /\ id'[v] = r
      /\ \A u \in Volume \ {v} : vol'[u] = vol[u] /\ id'[u] = id[u]
    BY <1>0, <1>1 DEF Created, TypeOK, Life
<1>3. TypeOK' /\ Own(v, q) /\ prov'[v].pc = "idle" /\ ~prov'[v].roll
    BY <1>1, <1>2, EndMoves
<1>5. exp[v] = "idle"
    BY <1>0 DEF VolumeOK, PhaseOK, TypeOK, Life, Creating, Deleting
<1>6. PhaseOK(v)' BY <1>2, <1>3, <1>5 DEF PhaseOK, Deleting
<1>7. KindOK(v)' BY <1>0, <1>2, <1>3 DEF VolumeOK, KindOK
<1>8. CreateOK(v)' /\ DeleteOK(v)' BY <1>3 DEF CreateOK, DeleteOK
<1>9. ServedOK(v)' BY <1>0, <1>2 DEF ServedOK, DirOK
<1>10. GoneOK(v)' BY <1>2 DEF GoneOK
<1>11. VolumeOK(v)' BY <1>6, <1>7, <1>8, <1>9, <1>10 DEF VolumeOK
<1> QED BY <1>3, <1>11, OwnStep

-----------------------------------------------------------------------------
(* The types that every step starts from. *)
LEMMA Given ==
    ASSUME ShareInv, NEW v \in Volume
    PROVE  /\ TypeOK /\ VolumeOK(v) /\ v \in Path /\ id[v] \in Path /\ prov[v] \in Call
           /\ prov[v].path \in Path /\ v \in Named(v) /\ id[v] \in Named(v)
           /\ prov[v].path \in Named(v) /\ win \in Windows
           /\ kind[v] \in {"directory", "vhdx"}
BY KindAssumption DEF ShareInv, TypeOK, Call, Path, Named

(* GetNfsShare, GetSmbShare. *)
LEMMA GetStep ==
    ASSUME ShareInv, NEW v \in Volume, UNCHANGED <<kind, src>>, CreateVolumeGet(v)
    PROVE  ShareInv'
<1> DEFINE A == CASE kind[v] = "vhdx" -> Goto(v, "lookup", v, v \in win.share)
                  [] kind[v] = "directory" /\ v \in win.share -> Created(v, v)
                  [] OTHER -> Goto(v, "share", v, FALSE)
           s == Steps(<<>>)
<1>0. prov[v].pc = "get" /\ RunPS(Do("GetShare", v, v), A, Error(v)) BY DEF CreateVolumeGet
<1>1. End(s) = win /\ Reach(s) = {win} BY Given, ReadScript
<1>e. s = Effect(Do("GetShare", v, v)) BY Given, Effects DEF ReadOnly
<1>2. End(s) \in Reach(s) /\ win \in Reach(s) BY <1>1
<1> HIDE DEF s, A
<1>3. /\ win' \in Reach(s) /\ faults' \in 0..MaxFaults /\ Lates(v, v) /\ Kept
      /\ Error(v) \/ A
    BY <1>0, <1>2, <1>e, Given, Runs DEF ReadOnly, DiskOps
<1>4. win' = win BY <1>1, <1>3
<1>5. Ready(v, v) /\ DirOK(v)'
    BY <1>3, <1>4, Given DEF Ready, Near, VolumeOK, DirOK, Placed
<1>6. CASE Error(v) BY <1>0, <1>5, <1>6, Given, ErrorStep
<1>7. CASE A /\ kind[v] = "vhdx"
    <2> DEFINE e == v \in win.share
    <2>1. Goto(v, "lookup", v, e) BY <1>7, Zenon DEF A
    <2>2. KindOK(v)' BY <1>5, <1>7, <2>1, Given DEF KindOK, VolumeOK, Goto, Ready
    <2>3. (e => v \in win'.share) /\ e \in BOOLEAN BY <1>4
    <2> HIDE DEF e
    <2>4. ASSUME prov'[v] = [pc |-> "lookup", exists |-> e, path |-> v,
                             roll |-> prov[v].roll]
          PROVE  CreateOK(v)'
        <3>1. prov'[v].pc = "lookup" /\ prov'[v].exists = e BY <2>4
        <3> QED BY <2>3, <3>1 DEF CreateOK
    <2> QED BY <1>0, <1>5, <2>1, <2>2, <2>3, <2>4, Given, CreateGoes DEF Creating
<1>8. CASE A /\ kind[v] = "directory" /\ v \in win.share
    <2>1. Created(v, v) BY <1>8, Zenon DEF A
    <2> QED BY <1>0, <1>4, <1>5, <1>8, <2>1, Given, CreatedStep DEF Creating
<1>9. CASE A /\ kind[v] = "directory" /\ v \notin win.share
    <2>1. Goto(v, "share", v, FALSE) BY <1>9, Zenon DEF A
    <2>2. ASSUME prov'[v] = [pc |-> "share", exists |-> FALSE, path |-> v,
                             roll |-> prov[v].roll]
          PROVE  CreateOK(v)'
        BY <1>9, <2>2 DEF CreateOK
    <2>3. KindOK(v)'
        BY <1>9, <2>1, Given DEF KindOK, VolumeOK, Goto, TypeOK
    <2> QED BY <1>0, <1>5, <2>1, <2>2, <2>3, Given, CreateGoes DEF Creating
<1> QED BY <1>3, <1>6, <1>7, <1>8, <1>9, Given

(* The look-up of the VHDX of the volume's name, and what CreateVolume makes *)
(* of it.                                                                    *)
LEMMA LookupStep ==
    ASSUME ShareInv, NEW v \in Volume, UNCHANGED <<kind, src>>, CreateVolumeLookup(v)
    PROVE  ShareInv'
<1> DEFINE s == GetVolumeByName(v)
<1>0. prov[v].pc = "lookup" /\ RunPS(Do("GetVolumeByName", v, v), Lookup(v), Error(v))
    BY DEF CreateVolumeLookup
<1>1. End(s) = win /\ Reach(s) = {win} /\ (~s.throws => win.vhdx[v] # "file")
    BY Given, ReadScript
<1>e. s = Effect(Do("GetVolumeByName", v, v)) BY Given, Effects DEF ReadOnly
<1>2. End(s) \in Reach(s) /\ win \in Reach(s) BY <1>1
<1> HIDE DEF s
<1>3. /\ win' \in Reach(s) /\ faults' \in 0..MaxFaults /\ Lates(v, v) /\ Kept
      /\ Error(v) \/ (Lookup(v) /\ ~s.throws /\ win' = End(s))
    BY <1>0, <1>2, <1>e, Given, Runs DEF ReadOnly, DiskOps
<1>4. win' = win BY <1>1, <1>3
<1>5. Ready(v, v) /\ DirOK(v)'
    BY <1>3, <1>4, Given DEF Ready, Near, VolumeOK, DirOK, Placed
<1>6. kind[v] = "vhdx" /\ src[v] \in {"empty", "snapshot"}
    BY <1>0, Given, SourceAssumption DEF VolumeOK, KindOK, TypeOK
<1>7. CASE Error(v) BY <1>0, <1>5, <1>7, Given, ErrorStep
<1>8. CASE Lookup(v) /\ ~prov[v].exists /\ src[v] = "snapshot"
    <2>1. Goto(v, "export", v, FALSE) BY <1>8, Zenon DEF Lookup
    <2>2. KindOK(v)' BY <1>5, <1>6, <2>1, Given DEF KindOK, VolumeOK, Goto, Ready
    <2>3. ASSUME prov'[v] = [pc |-> "export", exists |-> FALSE, path |-> v,
                             roll |-> prov[v].roll]
          PROVE  CreateOK(v)'
        BY <2>3 DEF CreateOK
    <2> QED BY <1>0, <1>5, <2>1, <2>2, <2>3, Given, CreateGoes DEF Creating
<1>9. CASE Lookup(v) /\ ~prov[v].exists /\ src[v] = "empty" /\ ~s.throws
    <2> DEFINE pc == IF win.vhdx[v] = "absent" THEN "create" ELSE "mount"
    <2>0. src[v] # "snapshot" BY <1>9
    <2>1. Goto(v, pc, v, FALSE) BY <1>9, <2>0, Zenon DEF Lookup
    <2>2. KindOK(v)' BY <1>5, <1>6, <2>1, Given DEF KindOK, VolumeOK, Goto, Ready
    <2>3. pc \in Creating /\ pc \in {"create", "mount"} BY DEF Creating
    <2>4. win.vhdx[v] \in {"absent", "disk", "file"} BY Given DEF Windows
    <2>5. pc = "mount" => win.vhdx[v] = "disk" BY <1>1, <1>9, <2>4
    <2> HIDE DEF pc
    <2>6. ASSUME prov'[v] = [pc |-> pc, exists |-> FALSE, path |-> v,
                             roll |-> prov[v].roll]
          PROVE  CreateOK(v)'
        <3>1. prov'[v].pc = pc /\ prov'[v].path = v BY <2>6
        <3> QED BY <1>4, <2>3, <2>5, <3>1 DEF CreateOK
    <2> QED BY <1>0, <1>5, <2>1, <2>2, <2>3, <2>6, Given, CreateGoes
            DEF Creating
<1>10. CASE Lookup(v) /\ prov[v].exists /\ win.vhdx[v] = "absent"
    <2>1. Error(v) BY <1>10, Zenon DEF Lookup
    <2> QED BY <1>7, <2>1
<1>11. CASE Lookup(v) /\ prov[v].exists /\ win.vhdx[v] # "absent" /\ ~s.throws
    <2>1. Goto(v, "remount", v, TRUE) BY <1>11, Zenon DEF Lookup
    <2>2. KindOK(v)' BY <1>5, <1>6, <2>1, Given DEF KindOK, VolumeOK, Goto, Ready
    <2>3. win.vhdx[v] = "disk" /\ (~Haunted(v, Removing)' => v \in win.share)
        BY <1>0, <1>1, <1>3, <1>11, Given, StaysHaunted DEF Windows, VolumeOK, CreateOK
    <2>4. ASSUME prov'[v] = [pc |-> "remount", exists |-> TRUE, path |-> v,
                             roll |-> prov[v].roll]
          PROVE  CreateOK(v)'
        BY <1>4, <2>3, <2>4 DEF CreateOK
    <2> QED BY <1>0, <1>5, <2>1, <2>2, <2>4, Given, CreateGoes DEF Creating
<1> QED BY <1>3, <1>6, <1>7, <1>8, <1>9, <1>10, <1>11

(* The export of a snapshot, to a path nobody names. *)
LEMMA ExportStep ==
    ASSUME ShareInv, NEW v \in Volume, UNCHANGED <<kind, src>>, CreateVolumeExport(v)
    PROVE  ShareInv'
<1>0. prov[v].pc = "export" BY DEF CreateVolumeExport
<1>1. PICK p \in FreeExport :
         RunPS(Do("ExportSnapshotAsVirtualDisk", v, p), Goto(v, "mount", p, FALSE), Error(v))
    BY DEF CreateVolumeExport
<1> DEFINE G == Goto(v, "mount", p, FALSE)
           s == ExportSnapshotAsVirtualDisk(p)
<1>2. p \in Path /\ RunPS(Do("ExportSnapshotAsVirtualDisk", v, p), G, Error(v))
    BY <1>1 DEF FreeExport, Path
<1>k. kind[v] = "vhdx" BY <1>0, Given DEF VolumeOK, KindOK
<1>3. /\ End(s) \in Reach(s) /\ win \in Reach(s) /\ (~s.throws => End(s).vhdx[p] = "disk")
      /\ \A w \in Reach(s) : Near(w, v, p) /\ DiskShape(w)
    BY <1>2, Given, DiskScript
<1>e. s = Effect(Do("ExportSnapshotAsVirtualDisk", v, p)) BY <1>2, Effects DEF Making
<1> HIDE DEF s, G
<1>4. /\ win' \in Reach(s) /\ faults' \in 0..MaxFaults /\ Lates(v, p) /\ Kept
      /\ Error(v) \/ (G /\ ~s.throws /\ win' = End(s))
    BY <1>2, <1>3, <1>e, <1>k, Runs DEF Making
<1>5. Near(win', v, p) /\ DiskShape(win') BY <1>3, <1>4
<1>6. Ready(v, p) BY <1>2, <1>4, <1>5 DEF Ready, DiskShape
<1>7. kind[v] = "vhdx" /\ DirOK(v)' BY <1>k, <1>5, Given DEF VolumeOK, DirOK, DiskShape, Placed
<1>8. CASE Error(v) BY <1>0, <1>2, <1>6, <1>7, <1>8, ErrorStep
<1>9. CASE G /\ ~s.throws /\ win' = End(s)
    <2>1. KindOK(v)' BY <1>6, <1>7, <1>9, Given DEF KindOK, VolumeOK, Goto, Ready, G
    <2>2. ASSUME prov'[v] = [pc |-> "mount", exists |-> FALSE, path |-> p,
                             roll |-> prov[v].roll]
          PROVE  CreateOK(v)'
        BY <1>3, <1>9, <2>2 DEF CreateOK
    <2> QED BY <1>0, <1>2, <1>6, <1>7, <1>9, <2>1, <2>2, CreateGoes DEF Creating, G
<1> QED BY <1>4, <1>8, <1>9

(* A new VHDX of the volume's name. *)
LEMMA DiskStep ==
    ASSUME ShareInv, NEW v \in Volume, UNCHANGED <<kind, src>>, CreateVolumeDisk(v)
    PROVE  ShareInv'
<1> DEFINE G == Goto(v, "mount", v, FALSE)
           s == CreateVirtualDisk(v)
<1>0. prov[v].pc = "create" /\ RunPS(Do("CreateVirtualDisk", v, v), G, Error(v))
    BY DEF CreateVolumeDisk
<1>k. kind[v] = "vhdx" BY <1>0, Given DEF VolumeOK, KindOK
<1>1. /\ End(s) \in Reach(s) /\ win \in Reach(s) /\ (~s.throws => End(s).vhdx[v] = "disk")
      /\ \A w \in Reach(s) : Near(w, v, v) /\ DiskShape(w)
    BY Given, DiskScript
<1>e. s = Effect(Do("CreateVirtualDisk", v, v)) BY Given, Effects DEF Making
<1> HIDE DEF s, G
<1>2. /\ win' \in Reach(s) /\ faults' \in 0..MaxFaults /\ Lates(v, v) /\ Kept
      /\ Error(v) \/ (G /\ ~s.throws /\ win' = End(s))
    BY <1>0, <1>1, <1>e, <1>k, Given, Runs DEF Making
<1>3. Near(win', v, v) /\ DiskShape(win') BY <1>1, <1>2
<1>4. Ready(v, v) BY <1>2, <1>3, Given DEF Ready, DiskShape
<1>5. kind[v] = "vhdx" /\ DirOK(v)' BY <1>k, <1>3, Given DEF VolumeOK, DirOK, DiskShape, Placed
<1>6. CASE Error(v) BY <1>0, <1>4, <1>5, <1>6, Given, ErrorStep
<1>7. CASE G /\ ~s.throws /\ win' = End(s)
    <2>1. KindOK(v)' BY <1>4, <1>5, <1>7, Given DEF KindOK, VolumeOK, Goto, Ready, G
    <2>2. ASSUME prov'[v] = [pc |-> "mount", exists |-> FALSE, path |-> v,
                             roll |-> prov[v].roll]
          PROVE  CreateOK(v)'
        BY <1>1, <1>7, <2>2 DEF CreateOK
    <2> QED BY <1>0, <1>4, <1>5, <1>7, <2>1, <2>2, Given, CreateGoes DEF Creating, G
<1> QED BY <1>2, <1>6, <1>7

(* Its VHDX is mounted at the share path of a new volume. *)
LEMMA MountStep ==
    ASSUME ShareInv, NEW v \in Volume, UNCHANGED <<kind, src>>, CreateVolumeMount(v)
    PROVE  ShareInv'
<1> DEFINE p == prov[v].path
           G == Goto(v, "share", p, FALSE)
           s == MountFileShareVirtualDisk(v, p)
<1>0. prov[v].pc = "mount" /\ RunPS(Do("MountFileShareVirtualDisk", v, p), G, Error(v))
    BY DEF CreateVolumeMount
<1>1. /\ End(s) \in Reach(s) /\ win \in Reach(s)
      /\ \A w \in Reach(s) : Near(w, v, p) /\ MountShape(w, v, p) /\ Makes(w, v, p)
      /\ ~s.throws => End(s).at[v] = p /\ p \in End(s).image
    BY Given, MountScript
<1>k. kind[v] = "vhdx" BY <1>0, Given DEF VolumeOK, KindOK
<1>e. s = Effect(Do("MountFileShareVirtualDisk", v, p)) BY Given, Effects DEF Making
<1> HIDE DEF s, G
<1>2. /\ win' \in Reach(s) /\ faults' \in 0..MaxFaults /\ Lates(v, p) /\ Kept
      /\ Error(v) \/ (G /\ ~s.throws /\ win' = End(s))
    BY <1>0, <1>1, <1>e, <1>k, Given, Runs DEF Making
<1>3. Near(win', v, p) /\ MountShape(win', v, p) /\ Makes(win', v, p)
    BY <1>1, <1>2
<1>4. Ready(v, p) BY <1>2, <1>3, Given DEF Ready, MountShape
<1>5. kind[v] = "vhdx" /\ DirOK(v)' BY <1>k, <1>3, Given DEF VolumeOK, DirOK, Makes
<1>6. CASE Error(v) BY <1>0, <1>4, <1>5, <1>6, Given, ErrorStep
<1>7. CASE G /\ ~s.throws /\ win' = End(s)
    <2>1. KindOK(v)' BY <1>4, <1>5, <1>7, Given DEF KindOK, VolumeOK, Goto, Ready, G
    <2>2. ~Haunted(v, Removing)' => win'.vhdx[p] = "disk"
        BY <1>0, <1>2, <1>3, Given, StaysHaunted DEF VolumeOK, CreateOK, MountShape
    <2>3. win'.at[v] = p /\ p \in win'.image BY <1>1, <1>7
    <2>4. ASSUME prov'[v] = [pc |-> "share", exists |-> FALSE, path |-> p,
                             roll |-> prov[v].roll]
          PROVE  CreateOK(v)'
        BY <2>2, <2>3, <2>4 DEF CreateOK
    <2> QED BY <1>0, <1>4, <1>5, <1>7, <2>1, <2>4, Given, CreateGoes DEF Creating, G
<1> QED BY <1>2, <1>6, <1>7

(* A share that was there has its VHDX mounted again. *)
LEMMA RemountStep ==
    ASSUME ShareInv, NEW v \in Volume, UNCHANGED <<kind, src>>, CreateVolumeRemount(v)
    PROVE  ShareInv'
<1> DEFINE s == MountFileShareVirtualDisk(v, v)
<1>0. /\ prov[v].pc = "remount"
      /\ RunPS(Do("MountFileShareVirtualDisk", v, v), Created(v, v), Error(v))
    BY DEF CreateVolumeRemount
<1>1. /\ End(s) \in Reach(s) /\ win \in Reach(s)
      /\ \A w \in Reach(s) : Near(w, v, v) /\ MountShape(w, v, v) /\ Makes(w, v, v)
      /\ ~s.throws => End(s).at[v] = v /\ v \in End(s).image
    BY Given, MountScript
<1>k. kind[v] = "vhdx" BY <1>0, Given DEF VolumeOK, KindOK
<1>e. s = Effect(Do("MountFileShareVirtualDisk", v, v)) BY Given, Effects DEF Making
<1> HIDE DEF s
<1>2. /\ win' \in Reach(s) /\ faults' \in 0..MaxFaults /\ Lates(v, v) /\ Kept
      /\ Error(v) \/ (Created(v, v) /\ ~s.throws /\ win' = End(s))
    BY <1>0, <1>1, <1>e, <1>k, Given, Runs DEF Making
<1>3. Near(win', v, v) /\ MountShape(win', v, v) /\ Makes(win', v, v)
    BY <1>1, <1>2
<1>4. Ready(v, v) BY <1>2, <1>3, Given DEF Ready, MountShape
<1>5. kind[v] = "vhdx" /\ DirOK(v)' BY <1>k, <1>3, Given DEF VolumeOK, DirOK, Makes
<1>6. CASE Error(v) BY <1>0, <1>4, <1>5, <1>6, Given, ErrorStep
<1>7. CASE Created(v, v) /\ ~s.throws /\ win' = End(s)
    <2>1. ~Haunted(v, Removing)' => win'.vhdx[v] = "disk" /\ v \in win'.share
        BY <1>0, <1>2, <1>3, Given, StaysHaunted DEF VolumeOK, CreateOK, MountShape
    <2>2. win'.at[v] = v /\ v \in win'.image BY <1>1, <1>7
    <2> QED BY <1>0, <1>4, <1>5, <1>7, <2>1, <2>2, Given, CreatedStep DEF Creating
<1> QED BY <1>2, <1>6, <1>7

(* The share over the directory or the mounted VHDX. *)
LEMMA ShareStep ==
    ASSUME ShareInv, NEW v \in Volume, UNCHANGED <<kind, src>>, CreateVolumeShare(v)
    PROVE  ShareInv'
<1> DEFINE p == prov[v].path
           G == Goto(v, "limit", p, FALSE)
           s == CreateShare(v)
<1>0. prov[v].pc = "share" /\ RunPS(Do("CreateShare", v, p), G, Error(v))
    BY DEF CreateVolumeShare
<1>1. /\ End(s) \in Reach(s) /\ win \in Reach(s) /\ v \in End(s).share
      /\ \A w \in Reach(s) : Near(w, v, p) /\ ShareShape(w, v) /\ Makes(w, v, p)
    BY Given, CreateShareScript
<1>e. s = Effect(Do("CreateShare", v, p)) BY Given, Effects DEF Making
<1> HIDE DEF s, G
<1>2. /\ win' \in Reach(s) /\ faults' \in 0..MaxFaults /\ Lates(v, p) /\ Kept
      /\ Error(v) \/ (G /\ win' = End(s))
    BY <1>0, <1>1, <1>e, Given, Runs DEF Making, DiskOps
<1>3. Near(win', v, p) /\ ShareShape(win', v) /\ Makes(win', v, p) BY <1>1, <1>2
<1>4. Ready(v, p) BY <1>2, <1>3, Given DEF Ready, ShareShape
<1>5. DirOK(v)' BY <1>3, Given DEF VolumeOK, DirOK, ShareShape, Makes
<1>6. CASE Error(v) BY <1>0, <1>4, <1>5, <1>6, Given, ErrorStep
<1>7. CASE G /\ win' = End(s)
    <2>1. KindOK(v)' BY <1>4, <1>5, <1>7, Given DEF KindOK, VolumeOK, Goto, Ready, G, TypeOK
    <2>2. v \in win'.share BY <1>1, <1>7
    <2>3. ASSUME kind[v] = "vhdx", ~Haunted(v, Removing)'
          PROVE  win'.at[v] = p /\ p \in win'.image /\ win'.vhdx[p] = "disk"
        <3>1. win.at[v] = p /\ p \in win.image /\ win.vhdx[p] = "disk"
            BY <1>0, <1>2, <2>3, Given, StaysHaunted DEF VolumeOK, CreateOK
        <3>2. p # "absent" BY Given, NameAssumption DEF Path
        <3> QED BY <1>3, <3>1, <3>2 DEF ShareShape
    <2>4. ASSUME prov'[v] = [pc |-> "limit", exists |-> FALSE, path |-> p,
                             roll |-> prov[v].roll]
          PROVE  CreateOK(v)'
        BY <2>2, <2>3, <2>4 DEF CreateOK
    <2> QED BY <1>0, <1>4, <1>5, <1>7, <2>1, <2>4, Given, CreateGoes DEF Creating, G
<1> QED BY <1>2, <1>6, <1>7

(* The quota, and the answer of CreateVolume. *)
LEMMA LimitStep ==
    ASSUME ShareInv, NEW v \in Volume, UNCHANGED <<kind, src>>, CreateVolumeLimit(v)
    PROVE  ShareInv'
<1> DEFINE p == prov[v].path
           s == ResizeFileShare(v)
<1>0. prov[v].pc = "limit" /\ RunPS(Do("ResizeFileShare", v, p), Created(v, p), Error(v))
    BY DEF CreateVolumeLimit
<1>1. /\ End(s) \in Reach(s) /\ win \in Reach(s)
      /\ \A w \in Reach(s) : Near(w, v, p) /\ ShareShape(w, v) /\ Makes(w, v, p)
    BY Given, LimitScript
<1>e. s = Effect(Do("ResizeFileShare", v, p)) BY Given, Effects DEF Making
<1> HIDE DEF s
<1>2. /\ win' \in Reach(s) /\ faults' \in 0..MaxFaults /\ Lates(v, p) /\ Kept
      /\ (Error(v) \/ Created(v, p))
    BY <1>0, <1>1, <1>e, Given, Runs DEF Making, DiskOps
<1>3. Near(win', v, p) /\ ShareShape(win', v) /\ Makes(win', v, p) BY <1>1, <1>2
<1>4. Ready(v, p) BY <1>2, <1>3, Given DEF Ready, ShareShape
<1>5. DirOK(v)' BY <1>3, Given DEF VolumeOK, DirOK, ShareShape, Makes
<1>6. CASE Error(v) BY <1>0, <1>4, <1>5, <1>6, Given, ErrorStep
<1>7. CASE Created(v, p)
    <2>1. ~Haunted(v, Removing)' => v \in win'.share
        BY <1>0, <1>2, <1>3, Given, StaysHaunted DEF VolumeOK, CreateOK, ShareShape
    <2>2. ASSUME kind[v] = "vhdx", ~Haunted(v, Removing)'
          PROVE  win'.at[v] = p /\ p \in win'.image /\ win'.vhdx[p] = "disk"
        <3>1. win.at[v] = p /\ p \in win.image /\ win.vhdx[p] = "disk"
            BY <1>0, <1>2, <2>2, Given, StaysHaunted DEF VolumeOK, CreateOK
        <3>2. p # "absent" BY Given, NameAssumption DEF Path
        <3> QED BY <1>3, <3>1, <3>2 DEF ShareShape
    <2> QED BY <1>0, <1>4, <1>5, <1>7, <2>1, <2>2, Given, CreatedStep DEF Creating
<1> QED BY <1>2, <1>6, <1>7

-----------------------------------------------------------------------------
(* Any other step of volume v alone. *)
LEMMA Moves ==
    ASSUME ShareInv, NEW v \in Volume, NEW q \in Path, Ready(v, q),
           prov' \in [Volume -> Call], vol' \in [Volume -> Life], id' = id,
           exp' \in [Volume -> {"idle", "resize", "mount", "limit"}], beside' \subseteq Volume,
           \A u \in Volume \ {v} : /\ vol'[u] = vol[u] /\ prov'[u] = prov[u]
                                  /\ exp'[u] = exp[u] /\ (u \in beside' <=> u \in beside),
           prov'[v].path \in Named(v) \cup {q}
    PROVE  TypeOK' /\ Own(v, q)
<1>0. TypeOK BY DEF ShareInv
<1>1. TypeOK' BY <1>0 DEF TypeOK, Ready, Near, Lates
<1>2. Alone(v) BY DEF Alone, Ready
<1>3. Named(v)' \subseteq Named(v) \cup {q, "absent", "dir"} BY DEF Named, Ready, Lates
<1> QED BY <1>1, <1>2, <1>3 DEF Own, Ready

(* DeleteVolume goes on. *)
LEMMA DeleteGoes ==
    ASSUME ShareInv, NEW v \in Volume, Ready(v, prov[v].path), prov[v].pc \in Deleting,
           NEW pc \in Deleting, Goto(v, pc, prov[v].path, FALSE), kind[v] = "vhdx", DirOK(v)',
           pc = "delShare" =>
              prov[v].path \notin win'.image /\ win'.vhdx[prov[v].path] = "absent"
    PROVE  ShareInv'
<1> DEFINE p == prov[v].path
           c == [pc |-> pc, exists |-> FALSE, path |-> p, roll |-> prov[v].roll]
<1>0. TypeOK /\ VolumeOK(v) /\ kind' = kind /\ p \in Path /\ prov[v] \in Call
    BY Given DEF Ready
<1>1. c \in Call /\ c.pc = pc /\ c.path = p /\ (c.roll <=> prov[v].roll)
    BY <1>0 DEF Call, PC, Deleting
<1>2. /\ prov' = [prov EXCEPT ![v] = c]
      /\ vol' = vol /\ id' = id /\ exp' = exp /\ beside' = beside
    BY DEF Goto
<1> HIDE DEF c
<1>3. /\ prov' \in [Volume -> Call] /\ prov'[v] = c
      /\ \A u \in Volume \ {v} : prov'[u] = prov[u]
    BY <1>0, <1>1, <1>2 DEF TypeOK
<1>4. TypeOK' /\ Own(v, p)
    <2>1. prov'[v].path \in Named(v) BY <1>1, <1>3, Given
    <2> QED BY <1>0, <1>2, <1>3, <2>1, Moves DEF TypeOK
<1>5. (vol[v] = "made" /\ prov[v].roll) \/ (vol[v] = "doomed" /\ ~prov[v].roll)
    BY <1>0 DEF VolumeOK, PhaseOK, TypeOK, Life, Creating, Deleting
<1>6. PhaseOK(v)'
    BY <1>0, <1>1, <1>2, <1>3, <1>5 DEF VolumeOK, PhaseOK, Creating, Deleting
<1>7. KindOK(v)' BY <1>0, <1>2 DEF VolumeOK, KindOK
<1>8. CreateOK(v)' BY <1>1, <1>3 DEF CreateOK, Deleting
<1>9. DeleteOK(v)' BY <1>1, <1>3 DEF DeleteOK
<1>10. ServedOK(v)' /\ GoneOK(v)' BY <1>1, <1>2, <1>3, <1>5 DEF ServedOK, GoneOK
<1>11. VolumeOK(v)' BY <1>6, <1>7, <1>8, <1>9, <1>10 DEF VolumeOK
<1> QED BY <1>0, <1>4, <1>11, OwnStep

(* The VHDX is taken from the share path and detached. *)
LEMMA UnmountStep ==
    ASSUME ShareInv, NEW v \in Volume, UNCHANGED <<kind, src>>, DeleteVolumeUnmount(v)
    PROVE  ShareInv'
<1> DEFINE p == prov[v].path
           G == Goto(v, "delDisk", p, FALSE)
           s == UnmountFileShareVirtualDisk(v, p)
<1>0. prov[v].pc = "unmount" /\ RunPS(Do("UnmountFileShareVirtualDisk", v, p), G, Error(v))
    BY DEF DeleteVolumeUnmount
<1>1. /\ End(s) \in Reach(s) /\ win \in Reach(s)
      /\ \A w \in Reach(s) : Near(w, v, p) /\ UnmountShape(w, v, p) /\ Removes(w, v, p)
    BY Given, UnmountScript
<1>k. kind[v] = "vhdx" BY <1>0, Given DEF VolumeOK, KindOK
<1>e. s = Effect(Do("UnmountFileShareVirtualDisk", v, p)) BY Given, Effects DEF Removing
<1> HIDE DEF s, G
<1>2. /\ win' \in Reach(s) /\ faults' \in 0..MaxFaults /\ Lates(v, p) /\ Kept
      /\ (Error(v) \/ G)
    BY <1>0, <1>1, <1>e, <1>k, Given, Runs DEF Removing
<1>3. Near(win', v, p) /\ UnmountShape(win', v, p) /\ Removes(win', v, p)
    BY <1>1, <1>2
<1>4. Ready(v, p) BY <1>2, <1>3, Given DEF Ready, UnmountShape
<1>5. kind[v] = "vhdx" /\ DirOK(v)' BY <1>k, <1>3, Given DEF VolumeOK, DirOK, Removes
<1>6. CASE Error(v) BY <1>0, <1>4, <1>5, <1>6, Given, ErrorStep
<1>7. CASE G BY <1>0, <1>4, <1>5, <1>7, DeleteGoes DEF Deleting, G
<1> QED BY <1>2, <1>6, <1>7

(* The VHDX is unregistered and its file removed. *)
LEMMA DeleteDiskStep ==
    ASSUME ShareInv, NEW v \in Volume, UNCHANGED <<kind, src>>, DeleteVolumeDisk(v)
    PROVE  ShareInv'
<1> DEFINE p == prov[v].path
           G == Goto(v, "delShare", p, FALSE)
           s == DeleteVirtualDisk(p)
<1>0. prov[v].pc = "delDisk" /\ RunPS(Do("DeleteVirtualDisk", v, p), G, Error(v))
    BY DEF DeleteVolumeDisk
<1>1. /\ End(s) \in Reach(s) /\ win \in Reach(s)
      /\ \A w \in Reach(s) : Near(w, v, p) /\ DiskShape(w) /\ Removes(w, v, p)
      /\ ~s.throws => p \notin End(s).image /\ End(s).vhdx[p] = "absent"
    BY Given, DeleteDiskScript
<1>k. kind[v] = "vhdx" BY <1>0, Given DEF VolumeOK, KindOK
<1>e. s = Effect(Do("DeleteVirtualDisk", v, p)) BY Given, Effects DEF Removing
<1> HIDE DEF s, G
<1>2. /\ win' \in Reach(s) /\ faults' \in 0..MaxFaults /\ Lates(v, p) /\ Kept
      /\ Error(v) \/ (G /\ ~s.throws /\ win' = End(s))
    BY <1>0, <1>1, <1>e, <1>k, Given, Runs DEF Removing
<1>3. Near(win', v, p) /\ DiskShape(win') /\ Removes(win', v, p) BY <1>1, <1>2
<1>4. Ready(v, p) BY <1>2, <1>3, Given DEF Ready, DiskShape
<1>5. kind[v] = "vhdx" /\ DirOK(v)' BY <1>k, <1>3, Given DEF VolumeOK, DirOK, Removes
<1>6. CASE Error(v) BY <1>0, <1>4, <1>5, <1>6, Given, ErrorStep
<1>7. CASE G /\ ~s.throws /\ win' = End(s)
    <2>1. p \notin win'.image /\ win'.vhdx[p] = "absent" BY <1>1, <1>7
    <2> QED BY <1>0, <1>4, <1>5, <1>7, <2>1, DeleteGoes DEF Deleting, G
<1> QED BY <1>2, <1>6, <1>7

(* The share and its directory go, and DeleteVolume answers. *)
LEMMA UnshareStep ==
    ASSUME ShareInv, NEW v \in Volume, UNCHANGED <<kind, src>>, DeleteVolumeShare(v)
    PROVE  ShareInv'
<1> DEFINE p == prov[v].path
           s == DeleteShare(v)
<1>0. prov[v].pc = "delShare" /\ RunPS(Do("DeleteShare", v, p), Deleted(v), Error(v))
    BY DEF DeleteVolumeShare
<1>1. /\ End(s) \in Reach(s) /\ win \in Reach(s)
      /\ \A w \in Reach(s) : Near(w, v, p) /\ UnshareShape(w, v) /\ Removes(w, v, p)
      /\ ~s.throws => v \notin End(s).share /\ End(s).at[v] = "absent"
    BY Given, UnshareScript
<1>e. s = Effect(Do("DeleteShare", v, p)) BY Given, Effects DEF Removing
<1> HIDE DEF s
<1>2. /\ win' \in Reach(s) /\ faults' \in 0..MaxFaults /\ Lates(v, p) /\ Kept
      /\ Error(v) \/ (Deleted(v) /\ ~s.throws /\ win' = End(s))
    BY <1>0, <1>1, <1>e, Given, Runs DEF Removing, DiskOps
<1>3. Near(win', v, p) /\ UnshareShape(win', v) /\ Removes(win', v, p) BY <1>1, <1>2
<1>4. Ready(v, p) BY <1>2, <1>3, Given DEF Ready, UnshareShape
<1>5. DirOK(v)' BY <1>3, Given DEF VolumeOK, DirOK, UnshareShape, Removes
<1>6. CASE Error(v) BY <1>0, <1>4, <1>5, <1>6, Given, ErrorStep
<1>7. CASE Deleted(v) /\ ~s.throws /\ win' = End(s)
    <2> DEFINE l == IF prov[v].roll THEN "none" ELSE "gone"
    <2>0. TypeOK /\ VolumeOK(v) /\ kind' = kind BY Given
    <2>1. /\ prov' = [prov EXCEPT ![v] = NoCall(v)] /\ id' = id /\ exp' = exp /\ beside' = beside
          /\ vol' \in [Volume -> Life] /\ vol'[v] = l
          /\ \A u \in Volume \ {v} : vol'[u] = vol[u]
        BY <1>7, <2>0 DEF Deleted, TypeOK, Life
    <2>2. TypeOK' /\ Own(v, p) /\ prov'[v].pc = "idle" /\ ~prov'[v].roll
        BY <1>4, <2>0, <2>1, Given, EndMoves DEF TypeOK
    <2>3. l \in {"none", "gone"} /\ (l = "none" => exp[v] = "idle")
        BY <1>0, <2>0 DEF VolumeOK, PhaseOK, TypeOK, Life, Creating, Deleting
    <2>4. (l = "gone" /\ exp[v] # "idle") => v \in beside
        BY <1>0, <2>0 DEF VolumeOK, PhaseOK, TypeOK, Life, Creating, Deleting
    <2> HIDE DEF l
    <2>5. PhaseOK(v)' BY <2>1, <2>2, <2>3, <2>4 DEF PhaseOK, Deleting
    <2>6. KindOK(v)' BY <2>0, <2>1, <2>2 DEF VolumeOK, KindOK
    <2>7. CreateOK(v)' /\ DeleteOK(v)' BY <2>2 DEF CreateOK, DeleteOK
    <2>8. ServedOK(v)' BY <2>1, <2>3 DEF ServedOK
    <2>9. GoneOK(v)'
        <3>1. v \notin win'.share /\ win'.at[v] = "absent" BY <1>1, <1>7
        <3>2. v \notin win'.limit BY <1>5, <3>1 DEF DirOK, Placed
        <3>3. kind[v] = "vhdx" /\ ~Haunted(v, Making)' =>
                 id[v] \notin win'.image /\ win'.vhdx[id[v]] = "absent"
            BY <1>0, <1>2, <1>3, <2>0, StaysHaunted
            DEF VolumeOK, PhaseOK, DeleteOK, UnshareShape, Deleting
        <3>4. ~Mounted(win', v) BY <3>1, NameAssumption DEF Mounted, Path
        <3> QED BY <2>0, <2>1, <3>1, <3>3, <3>4, <3>2 DEF GoneOK, Mounted
    <2>10. VolumeOK(v)' BY <1>5, <2>5, <2>6, <2>7, <2>8, <2>9 DEF VolumeOK
    <2> QED BY <2>2, <2>10, Given, OwnStep
<1> QED BY <1>2, <1>6, <1>7

-----------------------------------------------------------------------------
(* An expansion goes on or ends.  It may not touch what a deletion has        *)
(* established, and a volume that is served stays as it is.                   *)
LEMMA ExpandGoes ==
    ASSUME ShareInv, NEW v \in Volume, Ready(v, id[v]), Kept, exp[v] # "idle",
           NEW pc \in {"idle", "mount"}, pc = "mount" => kind[v] = "vhdx", ExpGoto(v, pc),
           DirOK(v)', v \in win'.share <=> v \in win.share, win'.vhdx = win.vhdx,
           win.vhdx[id[v]] = "absent" => win'.image = win.image,
           id[v] \in win.image => id[v] \in win'.image,
           kind[v] = "vhdx" /\ win.at[v] = id[v] => win'.at[v] = id[v],
           vol[v] = "gone" /\ ~Haunted(v, Making)' => ~Mounted(win', v)
    PROVE  ShareInv'
<1>0. TypeOK /\ VolumeOK(v) /\ kind' = kind /\ id[v] \in Path BY Given DEF Ready
<1>1. /\ vol' = vol /\ id' = id /\ prov' = prov /\ beside' = beside
      /\ exp' \in [Volume -> {"idle", "resize", "mount", "limit"}] /\ exp'[v] = pc
      /\ \A u \in Volume \ {v} : exp'[u] = exp[u]
    BY <1>0 DEF ExpGoto, TypeOK
<1>2. TypeOK' /\ Own(v, id[v]) BY <1>0, <1>1, Given, Moves DEF TypeOK
<1>3. PhaseOK(v)' BY <1>0, <1>1 DEF VolumeOK, PhaseOK
<1>4. KindOK(v)' BY <1>0, <1>1 DEF VolumeOK, KindOK
<1>5. vol[v] \in {"bound", "doomed", "gone"} BY <1>0 DEF VolumeOK, PhaseOK, TypeOK, Life
<1>6. CreateOK(v)'
    BY <1>0, <1>1, <1>5 DEF VolumeOK, PhaseOK, CreateOK, Deleting
<1>7. DeleteOK(v)' BY <1>0, <1>1, StaysHaunted DEF VolumeOK, PhaseOK, DeleteOK, Deleting
<1>8. ServedOK(v)' BY <1>0, <1>1, StaysHaunted DEF VolumeOK, ServedOK, DirOK
<1>9. GoneOK(v)' BY <1>0, <1>1, StaysHaunted DEF VolumeOK, PhaseOK, GoneOK, Mounted
<1>10. VolumeOK(v)' BY <1>3, <1>4, <1>6, <1>7, <1>8, <1>9 DEF VolumeOK
<1> QED BY <1>0, <1>2, <1>10, OwnStep

(* Resize-IscsiVirtualDisk. *)
LEMMA ExpandDiskStep ==
    ASSUME ShareInv, NEW v \in Volume, UNCHANGED <<kind, src>>, ExpandDisk(v)
    PROVE  ShareInv'
<1> DEFINE s == ResizeVirtualDisk(id[v])
<1>0. /\ exp[v] = "resize"
      /\ RunPS(Do("ResizeVirtualDisk", v, id[v]), ExpGoto(v, "mount"), ExpGoto(v, "idle"))
    BY DEF ExpandDisk
<1>1. End(s) = win /\ Reach(s) = {win} BY Given, ReadScript
<1>e. s = Effect(Do("ResizeVirtualDisk", v, id[v])) BY Given, Effects DEF ReadOnly
<1>2. End(s) \in Reach(s) /\ win \in Reach(s) BY <1>1
<1> HIDE DEF s
<1>3. /\ win' \in Reach(s) /\ faults' \in 0..MaxFaults /\ Lates(v, id[v]) /\ Kept
      /\ ExpGoto(v, "idle") \/ ExpGoto(v, "mount")
    BY <1>0, <1>2, <1>e, Given, Runs DEF ReadOnly, DiskOps
<1>4. win' = win BY <1>1, <1>3
<1>5. Ready(v, id[v]) /\ DirOK(v)'
    BY <1>3, <1>4, Given DEF Ready, Near, VolumeOK, DirOK, Placed
<1>6. kind[v] = "vhdx" BY <1>0, Given DEF VolumeOK, KindOK
<1>7. vol[v] = "gone" /\ ~Haunted(v, Making)' => ~Mounted(win', v)
    BY <1>3, <1>4, Given, StaysHaunted DEF VolumeOK, GoneOK
<1>8. CASE ExpGoto(v, "idle") BY <1>0, <1>3, <1>4, <1>5, <1>7, <1>8, ExpandGoes
<1>9. CASE ExpGoto(v, "mount") BY <1>0, <1>3, <1>4, <1>5, <1>6, <1>7, <1>9, ExpandGoes
<1> QED BY <1>3, <1>8, <1>9

(* The VHDX is mounted again, beside whatever the provisioner does. *)
LEMMA ExpandMountStep ==
    ASSUME ShareInv, NEW v \in Volume, UNCHANGED <<kind, src>>, ExpandMount(v)
    PROVE  ShareInv'
<1> DEFINE p == id[v]
           s == MountFileShareVirtualDisk(v, p)
<1>0. /\ exp[v] = "mount"
      /\ RunPS(Do("MountFileShareVirtualDisk", v, p), ExpGoto(v, "idle"), ExpGoto(v, "idle"))
    BY DEF ExpandMount
<1>1. /\ End(s) \in Reach(s) /\ win \in Reach(s)
      /\ \A w \in Reach(s) : Near(w, v, p) /\ MountShape(w, v, p) /\ Makes(w, v, p)
    BY Given, MountScript
<1>k. kind[v] = "vhdx" BY <1>0, Given DEF VolumeOK, KindOK
<1>e. s = Effect(Do("MountFileShareVirtualDisk", v, p)) BY Given, Effects DEF Making
<1> HIDE DEF s
<1>2. /\ win' \in Reach(s) /\ faults' \in 0..MaxFaults /\ Lates(v, p) /\ Kept
      /\ ExpGoto(v, "idle")
    BY <1>0, <1>1, <1>e, <1>k, Given, Runs DEF Making
<1>3. Near(win', v, p) /\ MountShape(win', v, p) /\ Makes(win', v, p)
    BY <1>1, <1>2
<1>4. Ready(v, p) BY <1>2, <1>3, Given DEF Ready, MountShape
<1>5. kind[v] = "vhdx" /\ DirOK(v)' BY <1>k, <1>3, Given DEF VolumeOK, DirOK, Makes
<1>6. p # "absent" BY Given, NameAssumption DEF Path
<1>7. win.at[v] = p => win'.at[v] = p BY <1>3, <1>6 DEF MountShape
<1>8. ASSUME vol[v] = "gone", ~Haunted(v, Making)' PROVE ~Mounted(win', v)
    <2>1. win.vhdx[p] = "absent" /\ ~Mounted(win, v)
        BY <1>2, <1>5, <1>8, Given, StaysHaunted DEF VolumeOK, GoneOK
    <2>2. win'.at[v] \in {win.at[v], "dir"} BY <1>3, <2>1 DEF MountShape
    <2> QED BY <2>1, <2>2, NameAssumption DEF Mounted, Path
<1>9. /\ v \in win'.share <=> v \in win.share
      /\ win'.vhdx = win.vhdx /\ (win.vhdx[p] = "absent" => win'.image = win.image)
      /\ p \in win.image => p \in win'.image
    BY <1>3 DEF MountShape
<1> QED BY <1>0, <1>2, <1>4, <1>5, <1>7, <1>8, <1>9, ExpandGoes

(* The quota of a directory-backed share. *)
LEMMA ExpandLimitStep ==
    ASSUME ShareInv, NEW v \in Volume, UNCHANGED <<kind, src>>, ExpandLimit(v)
    PROVE  ShareInv'
<1> DEFINE s == ResizeFileShare(v)
<1>0. /\ exp[v] = "limit"
      /\ RunPS(Do("ResizeFileShare", v, id[v]), ExpGoto(v, "idle"), ExpGoto(v, "idle"))
    BY DEF ExpandLimit
<1>1. /\ End(s) \in Reach(s) /\ win \in Reach(s)
      /\ \A w \in Reach(s) : /\ Near(w, v, id[v]) /\ ShareShape(w, v) /\ Makes(w, v, id[v])
                             /\ w.share = win.share
    BY Given, LimitScript
<1>e. s = Effect(Do("ResizeFileShare", v, id[v])) BY Given, Effects DEF Making
<1> HIDE DEF s
<1>2. /\ win' \in Reach(s) /\ faults' \in 0..MaxFaults /\ Lates(v, id[v]) /\ Kept
      /\ ExpGoto(v, "idle")
    BY <1>0, <1>1, <1>e, Given, Runs DEF Making, DiskOps
<1>3. /\ Near(win', v, id[v]) /\ ShareShape(win', v) /\ Makes(win', v, id[v])
      /\ win'.share = win.share
    BY <1>1, <1>2
<1>4. Ready(v, id[v]) BY <1>2, <1>3, Given DEF Ready, ShareShape
<1>5. DirOK(v)' BY <1>3, Given DEF VolumeOK, DirOK, ShareShape, Makes
<1>6. kind[v] = "directory" BY <1>0, Given DEF VolumeOK, KindOK
<1>7. kind[v] # "vhdx" BY <1>6
<1>8. ~Mounted(win', v)
    BY <1>4, <1>5, <1>6, NameAssumption DEF DirOK, Mounted, Path, Ready
<1>9. win'.vhdx = win.vhdx /\ win'.image = win.image BY <1>3 DEF ShareShape
<1> QED BY <1>0, <1>2, <1>3, <1>4, <1>5, <1>7, <1>8, <1>9, ExpandGoes

-----------------------------------------------------------------------------
(* A step that runs no script. *)
LEMMA QuietReady ==
    ASSUME ShareInv, NEW v \in Volume, UNCHANGED <<kind, src, win>>, faults' \in 0..MaxFaults,
           UNCHANGED <<late, stale>> \/ Begin(v)
    PROVE  Ready(v, v) /\ DirOK(v)'
<1>1. Lates(v, v) BY DEF ShareInv, TypeOK, LateOK, Lates, Begin
<1> QED BY <1>1, Given DEF Ready, Near, VolumeOK, DirOK, Placed

(* CreateVolume begins. *)
LEMMA CreateVolumeStep ==
    ASSUME ShareInv, NEW v \in Volume, CreateVolume(v)
    PROVE  ShareInv'
<1>0. TypeOK /\ VolumeOK(v) /\ v \in Path BY Given
<1>1. /\ vol[v] = "none" /\ prov' = [prov EXCEPT ![v] = NewCall("get", v, FALSE)]
      /\ kind' = kind /\ src' = src /\ win' = win /\ vol' = vol /\ id' = id
      /\ exp' = exp /\ beside' = beside /\ faults' = faults /\ Begin(v)
    BY DEF CreateVolume
<1>2. Ready(v, v) /\ DirOK(v)' BY <1>0, <1>1, QuietReady DEF TypeOK
<1>3. NewCall("get", v, FALSE) \in Call BY <1>0 DEF NewCall, Call, PC
<1>4. prov' \in [Volume -> Call] /\ prov'[v] = NewCall("get", v, FALSE)
    BY <1>0, <1>1, <1>3 DEF TypeOK
<1>5. prov'[v].pc = "get" /\ prov'[v].path = v /\ ~prov'[v].roll BY <1>4 DEF NewCall
<1>6. TypeOK' /\ Own(v, v)
    BY <1>0, <1>1, <1>2, <1>4, <1>5, Moves DEF TypeOK
<1>7. PhaseOK(v)' BY <1>0, <1>1, <1>5 DEF VolumeOK, PhaseOK, Creating, Deleting
<1>8. KindOK(v)' BY <1>0, <1>1, <1>5 DEF VolumeOK, KindOK
<1>9. CreateOK(v)' /\ DeleteOK(v)' BY <1>5 DEF CreateOK, DeleteOK
<1>10. ServedOK(v)' /\ GoneOK(v)' BY <1>1 DEF ServedOK, GoneOK
<1>11. VolumeOK(v)' BY <1>2, <1>7, <1>8, <1>9, <1>10 DEF VolumeOK
<1> QED BY <1>0, <1>6, <1>11, OwnStep

(* The PV is stored. *)
LEMMA CreatePVStep ==
    ASSUME ShareInv, NEW v \in Volume, CreatePV(v)
    PROVE  ShareInv'
<1>0. TypeOK /\ VolumeOK(v) /\ v \in Path BY Given
<1>1. /\ vol[v] = "made" /\ prov[v].pc = "idle" /\ vol' = [vol EXCEPT ![v] = "bound"]
      /\ kind' = kind /\ src' = src /\ win' = win /\ prov' = prov /\ id' = id
      /\ exp' = exp /\ beside' = beside /\ faults' = faults /\ late' = late /\ stale' = stale
    BY DEF CreatePV
<1>2. Ready(v, v) /\ DirOK(v)' BY <1>0, <1>1, QuietReady DEF TypeOK
<1>3. vol' \in [Volume -> Life] /\ vol'[v] = "bound" BY <1>0, <1>1 DEF TypeOK, Life
<1>4. TypeOK' /\ Own(v, v) BY <1>0, <1>1, <1>2, <1>3, Given, Moves DEF TypeOK
<1>5. ~prov[v].roll BY <1>0, <1>1 DEF VolumeOK, PhaseOK, Deleting
<1>6. PhaseOK(v)' BY <1>0, <1>1, <1>3, <1>5 DEF VolumeOK, PhaseOK
<1>7. KindOK(v)' /\ CreateOK(v)' /\ DeleteOK(v)'
    BY <1>0, <1>1 DEF VolumeOK, KindOK, CreateOK, DeleteOK, Haunted
<1>8. ServedOK(v)' /\ GoneOK(v)'
    BY <1>0, <1>1, <1>3, <1>5 DEF VolumeOK, ServedOK, GoneOK, Haunted
<1>9. VolumeOK(v)' BY <1>2, <1>6, <1>7, <1>8 DEF VolumeOK
<1> QED BY <1>0, <1>4, <1>9, OwnStep

(* A DeleteVolume begins, to take a volume back or because its PV is to go.  *)
LEMMA DeleteBegins ==
    ASSUME ShareInv, NEW v \in Volume, NEW roll \in BOOLEAN, prov[v].pc = "idle",
           UNCHANGED <<kind, src, win, id, exp>>, faults' \in 0..MaxFaults, Begin(v),
           prov' = [prov EXCEPT ![v] = NewCall(FirstDelete(v), id[v], roll)],
           vol' \in [Volume -> Life], \A u \in Volume \ {v} : vol'[u] = vol[u],
           beside' \subseteq Volume, \A u \in Volume \ {v} : (u \in beside' <=> u \in beside),
           \/ vol'[v] = "made" /\ roll /\ exp[v] = "idle"
           \/ vol'[v] = "doomed" /\ ~roll /\ (exp[v] # "idle" => v \in beside')
    PROVE  ShareInv'
<1>0. TypeOK /\ VolumeOK(v) /\ v \in Path /\ id[v] \in Path BY Given
<1>1. Ready(v, v) /\ DirOK(v)' BY QuietReady
<1> DEFINE c == NewCall(FirstDelete(v), id[v], roll)
<1>2. /\ c \in Call /\ c.path = id[v] /\ (c.roll <=> roll) /\ c.pc \in {"unmount", "delShare"}
      /\ c.pc = "delShare" <=> kind[v] # "vhdx"
    BY <1>0 DEF NewCall, FirstDelete, Call, PC
<1> HIDE DEF c
<1>3. /\ prov' \in [Volume -> Call] /\ prov'[v] = c
      /\ \A u \in Volume \ {v} : prov'[u] = prov[u]
    BY <1>0, <1>2 DEF TypeOK, c
<1>4. TypeOK' /\ Own(v, v) BY <1>0, <1>1, <1>2, <1>3, Given, Moves DEF TypeOK
<1>5. PhaseOK(v)' BY <1>2, <1>3 DEF PhaseOK, Creating, Deleting
<1>6. KindOK(v)' BY <1>0, <1>2, <1>3, Given DEF VolumeOK, KindOK
<1>7. CreateOK(v)' /\ DeleteOK(v)' BY <1>2, <1>3 DEF CreateOK, DeleteOK
<1>8. ServedOK(v)' /\ GoneOK(v)' BY <1>2, <1>3 DEF ServedOK, GoneOK
<1>9. VolumeOK(v)' BY <1>1, <1>5, <1>6, <1>7, <1>8 DEF VolumeOK
<1> QED BY <1>0, <1>4, <1>9, OwnStep

(* The rollback of a volume whose PV could not be stored. *)
LEMMA RollbackStep ==
    ASSUME ShareInv, NEW v \in Volume, Rollback(v)
    PROVE  ShareInv'
<1>0. TypeOK /\ VolumeOK(v) BY Given
<1>1. vol[v] = "made" /\ prov[v].pc = "idle" /\ exp[v] = "idle"
    BY <1>0 DEF Rollback, VolumeOK, PhaseOK
<1>2. /\ prov' = [prov EXCEPT ![v] = NewCall(FirstDelete(v), id[v], TRUE)]
      /\ UNCHANGED <<kind, src, win, id, exp>> /\ vol' = vol /\ beside' = beside /\ Begin(v)
    BY DEF Rollback
<1>3. faults' \in 0..MaxFaults BY <1>0, FaultAssumption DEF Rollback, Fault, TypeOK
<1> DEFINE roll == TRUE
<1>4. roll \in BOOLEAN /\ roll /\ prov' = [prov EXCEPT ![v] = NewCall(FirstDelete(v), id[v], roll)]
    BY <1>2
<1> HIDE DEF roll
<1> QED BY <1>0, <1>1, <1>2, <1>3, <1>4, DeleteBegins DEF TypeOK

(* DeleteVolume is called, or called again. *)
LEMMA DeleteVolumeStep ==
    ASSUME ShareInv, NEW v \in Volume, DeleteVolume(v)
    PROVE  ShareInv'
<1>0. TypeOK /\ VolumeOK(v) BY Given
<1>1. vol[v] \in {"bound", "doomed"} /\ prov[v].pc = "idle" BY DEF DeleteVolume
<1>2. /\ prov' = [prov EXCEPT ![v] = NewCall(FirstDelete(v), id[v], FALSE)]
      /\ UNCHANGED <<kind, src, win, id, exp>> /\ faults' = faults /\ Begin(v)
      /\ vol' = [vol EXCEPT ![v] = "doomed"]
      /\ beside' = IF exp[v] = "idle" THEN beside ELSE beside \cup {v}
    BY DEF DeleteVolume
<1>3. /\ vol' \in [Volume -> Life] /\ vol'[v] = "doomed"
      /\ \A u \in Volume \ {v} : vol'[u] = vol[u]
    BY <1>0, <1>2 DEF TypeOK, Life
<1>4. /\ beside' \subseteq Volume /\ (exp[v] # "idle" => v \in beside')
      /\ \A u \in Volume \ {v} : (u \in beside' <=> u \in beside)
    BY <1>0, <1>2 DEF TypeOK
<1> DEFINE roll == FALSE
<1>5. roll \in BOOLEAN /\ ~roll /\ prov' = [prov EXCEPT ![v] = NewCall(FirstDelete(v), id[v], roll)]
    BY <1>2
<1> HIDE DEF roll
<1> QED BY <1>0, <1>1, <1>2, <1>3, <1>4, <1>5, DeleteBegins DEF TypeOK

(* ControllerExpandVolume begins. *)
LEMMA ExpandVolumeStep ==
    ASSUME ShareInv, NEW v \in Volume, ControllerExpandVolume(v)
    PROVE  ShareInv'
<1>0. TypeOK /\ VolumeOK(v) /\ v \in Path BY Given
<1> DEFINE pc == IF kind[v] = "vhdx" THEN "resize" ELSE "limit"
<1>1. /\ vol[v] = "bound" /\ exp' = [exp EXCEPT ![v] = pc] /\ vol' = vol /\ id' = id
      /\ prov' = prov /\ beside' = beside
      /\ kind' = kind /\ src' = src /\ win' = win /\ faults' = faults
      /\ late' = late /\ stale' = stale
    BY DEF ControllerExpandVolume, ExpGoto
<1>2. pc \in {"resize", "limit"} /\ (pc = "limit" <=> kind[v] # "vhdx") OBVIOUS
<1> HIDE DEF pc
<1>3. /\ exp' \in [Volume -> {"idle", "resize", "mount", "limit"}] /\ exp'[v] = pc
      /\ \A u \in Volume \ {v} : exp'[u] = exp[u]
    BY <1>0, <1>1, <1>2 DEF TypeOK
<1>4. Ready(v, v) /\ DirOK(v)' BY <1>0, <1>1, QuietReady DEF TypeOK
<1>5. TypeOK' /\ Own(v, v) BY <1>0, <1>1, <1>3, <1>4, Given, Moves DEF TypeOK
<1>6. PhaseOK(v)' BY <1>0, <1>1 DEF VolumeOK, PhaseOK
<1>7. KindOK(v)' BY <1>0, <1>1, <1>2, <1>3 DEF VolumeOK, KindOK
<1>8. CreateOK(v)' /\ DeleteOK(v)' BY <1>0, <1>1 DEF VolumeOK, CreateOK, DeleteOK, Haunted
<1>9. ServedOK(v)' /\ GoneOK(v)' BY <1>0, <1>1 DEF VolumeOK, ServedOK, GoneOK, Haunted
<1>10. VolumeOK(v)' BY <1>4, <1>6, <1>7, <1>8, <1>9 DEF VolumeOK
<1> QED BY <1>0, <1>5, <1>10, OwnStep

(* The driver is restarted. *)
LEMMA RestartStep ==
    ASSUME ShareInv, Restart
    PROVE  ShareInv'
<1>0. TypeOK BY DEF ShareInv
<1>1. /\ prov' = [v \in Volume |-> NoCall(v)] /\ exp' = [v \in Volume |-> "idle"]
      /\ vol' = [v \in Volume |-> IF vol[v] = "made" THEN "none" ELSE vol[v]]
      /\ kind' = kind /\ src' = src /\ win' = win /\ id' = id /\ beside' = beside
      /\ late' = late /\ stale' = stale
    BY DEF Restart
<1>2. faults' \in 0..MaxFaults BY <1>0, FaultAssumption DEF Restart, Fault, TypeOK
<1>3. \A v \in Volume : NoCall(v) \in Call BY DEF NoCall, NewCall, Call, PC, Path
<1>4. prov' \in [Volume -> Call] BY <1>1, <1>3
<1>5. TypeOK' BY <1>0, <1>1, <1>2, <1>4 DEF TypeOK, Life
<1>6. ASSUME NEW v \in Volume PROVE VolumeOK(v)' /\ Named(v)' \subseteq Named(v)
    <2>0. VolumeOK(v) /\ vol[v] \in Life BY <1>0, Given DEF TypeOK
    <2>1. prov'[v].pc = "idle" /\ ~prov'[v].roll /\ prov'[v].path = v /\ exp'[v] = "idle"
        BY <1>1 DEF NoCall, NewCall
    <2>2. vol'[v] = IF vol[v] = "made" THEN "none" ELSE vol[v] BY <1>1
    <2>3. PhaseOK(v)' BY <2>0, <2>1, <2>2 DEF PhaseOK, Deleting
    <2>4. KindOK(v)' /\ DirOK(v)' BY <1>1, <2>0, <2>1 DEF VolumeOK, KindOK, DirOK, Placed
    <2>5. CreateOK(v)' /\ DeleteOK(v)' BY <2>1 DEF CreateOK, DeleteOK
    <2>6. ServedOK(v)' BY <1>1, <2>0, <2>2 DEF VolumeOK, PhaseOK, ServedOK, Haunted
    <2>7. GoneOK(v)' BY <1>1, <2>0, <2>2 DEF VolumeOK, GoneOK, Haunted
    <2>8. Named(v)' \subseteq Named(v) BY <1>1, <2>1 DEF Named
    <2> QED BY <2>3, <2>4, <2>5, <2>6, <2>7, <2>8 DEF VolumeOK
<1>7. ApartOK'
    <2> SUFFICES ASSUME NEW u \in Volume, NEW v \in Volume, u # v
                 PROVE  Named(u)' \cap Named(v)' \subseteq {"absent", "dir"}
        BY DEF ApartOK
    <2>1. Named(u) \cap Named(v) \subseteq {"absent", "dir"} BY DEF ShareInv, ApartOK
    <2>2. Named(u)' \subseteq Named(u) /\ Named(v)' \subseteq Named(v) BY <1>6
    <2> QED BY <2>1, <2>2
<1>8. LateOK' BY <1>1 DEF ShareInv, LateOK
<1> QED BY <1>5, <1>6, <1>7, <1>8 DEF ShareInv

(* Windows comes to the end of a script the driver gave up on: a making one  *)
(* takes nothing away from a volume that is created or served, a removing    *)
(* one brings nothing back of one that is deleted or gone.                   *)
LEMMA LateStep ==
    ASSUME ShareInv, NEW s \in late, LateScript(s)
    PROVE  ShareInv'
<1> DEFINE v == s.vol
           q == s.path
           e == Effect(s)
<1>0. TypeOK /\ LateOK /\ s \in Script BY DEF ShareInv, TypeOK
<1>1. v \in Volume /\ q \in Path /\ s.op \in Making \cup Removing /\ s \in stale
    BY <1>0 DEF Script, LateOK
<1>2. q \in Named(v) BY DEF Named
<1>3. s = Do(s.op, v, q) BY <1>0 DEF Script, Do
<1>4. /\ kind' = kind /\ src' = src /\ vol' = vol /\ id' = id /\ prov' = prov /\ exp' = exp
      /\ beside' = beside /\ faults' = faults /\ stale' = stale /\ late' = late \ {s}
      /\ win' = End(e)
    BY DEF LateScript, calls
<1>k. kind[v] = "directory" => s.op \in {"CreateShare", "ResizeFileShare", "DeleteShare"}
    BY <1>0, <1>1 DEF LateOK, DiskOps, Making, Removing
<1>5. Lates(v, q) /\ Kept BY <1>0, <1>4 DEF Lates, Kept, LateOK, TypeOK
<1> HIDE DEF v, q, e
<1>6. /\ Near(win', v, q) /\ win'.at[v] \in {win.at[v], "absent", "dir", q} /\ DirOK(v)'
      /\ (s.op \in Making /\ Makes(win', v, q)) \/ (s.op \in Removing /\ Removes(win', v, q))
    <2>0. DirOK(v) BY <1>1, Given DEF VolumeOK
    <2>1. CASE s.op \in {"ExportSnapshotAsVirtualDisk", "CreateVirtualDisk"}
        <3>1. e \in {CreateVirtualDisk(q), ExportSnapshotAsVirtualDisk(q)}
            BY <1>1, <1>3, <2>1, Effects DEF e
        <3>2. Near(win', v, q) /\ DiskShape(win') /\ Makes(win', v, q)
            BY <1>0, <1>1, <1>4, <3>1, DiskScript
        <3> QED BY <1>4, <2>0, <2>1, <3>2 DEF DiskShape, DirOK, Placed, Making
    <2>2. CASE s.op = "MountFileShareVirtualDisk"
        <3>1. e = MountFileShareVirtualDisk(v, q) BY <1>1, <1>3, <2>2, Effects DEF e
        <3>2. Near(win', v, q) /\ MountShape(win', v, q) /\ Makes(win', v, q)
            BY <1>0, <1>1, <1>4, <3>1, MountScript
        <3>3. kind[v] # "directory" BY <1>k, <2>2
        <3> QED BY <1>4, <2>0, <2>2, <3>2, <3>3 DEF MountShape, DirOK, Placed, Makes, Making
    <2>3. CASE s.op \in {"CreateShare", "ResizeFileShare"}
        <3>1. e = CreateShare(v) \/ e = ResizeFileShare(v) BY <1>1, <1>3, <2>3, Effects DEF e
        <3>2. Near(win', v, q) /\ ShareShape(win', v) /\ Makes(win', v, q)
            BY <1>0, <1>1, <1>4, <3>1, CreateShareScript, LimitScript
        <3> QED BY <1>4, <2>0, <2>3, <3>2 DEF ShareShape, DirOK, Placed, Makes, Making
    <2>4. CASE s.op = "UnmountFileShareVirtualDisk"
        <3>1. e = UnmountFileShareVirtualDisk(v, q) BY <1>1, <1>3, <2>4, Effects DEF e
        <3>2. Near(win', v, q) /\ UnmountShape(win', v, q) /\ Removes(win', v, q)
            BY <1>0, <1>1, <1>4, <3>1, UnmountScript
        <3>3. kind[v] # "directory" BY <1>k, <2>4
        <3> QED BY <1>4, <2>0, <2>4, <3>2, <3>3
                DEF UnmountShape, DirOK, Placed, Removes, Removing
    <2>5. CASE s.op = "DeleteVirtualDisk"
        <3>1. e = DeleteVirtualDisk(q) BY <1>1, <1>3, <2>5, Effects DEF e
        <3>2. Near(win', v, q) /\ DiskShape(win') /\ Removes(win', v, q)
            BY <1>0, <1>1, <1>4, <3>1, DeleteDiskScript
        <3> QED BY <1>4, <2>0, <2>5, <3>2 DEF DiskShape, DirOK, Placed, Removing
    <2>6. CASE s.op = "DeleteShare"
        <3>1. e = DeleteShare(v) BY <1>1, <1>3, <2>6, Effects DEF e
        <3>2. Near(win', v, q) /\ UnshareShape(win', v) /\ Removes(win', v, q)
            BY <1>0, <1>1, <1>4, <3>1, UnshareScript
        <3> QED BY <1>4, <2>0, <2>6, <3>2
                DEF UnshareShape, DirOK, Placed, Removes, Removing
    <2> QED BY <1>1, <2>1, <2>2, <2>3, <2>4, <2>5, <2>6 DEF Making, Removing
<1>7. Ready(v, q) BY <1>0, <1>1, <1>2, <1>4, <1>5, <1>6 DEF Ready, TypeOK
<1>8. TypeOK' /\ Own(v, q) BY <1>0, <1>1, <1>4, <1>7, Given, Moves DEF TypeOK
<1>9. PhaseOK(v)' /\ KindOK(v)' BY <1>1, <1>4, Given DEF VolumeOK, PhaseOK, KindOK
<1>10. ASSUME NEW r \in Path, r # q
       PROVE  win'.vhdx[r] = win.vhdx[r] /\ (r \in win'.image <=> r \in win.image)
    BY <1>6, <1>10 DEF Near
<1>11. /\ Haunted(v, Making)' <=> Haunted(v, Making)
       /\ Haunted(v, Removing)' <=> Haunted(v, Removing)
    BY <1>4 DEF Haunted
<1>12. CASE s.op \in Making /\ Makes(win', v, q)
    <2>1. Haunted(v, Making)' BY <1>1, <1>11, <1>12 DEF Haunted, v
    <2>2. DeleteOK(v)' /\ GoneOK(v)' BY <2>1 DEF DeleteOK, GoneOK
    <2>3. ASSUME NEW r \in Path
          PROVE  /\ win.vhdx[r] = "disk" => win'.vhdx[r] = "disk"
                 /\ r \in win.image => r \in win'.image
                 /\ win.at[v] = r => win'.at[v] = r
        BY <1>10, <1>12 DEF Makes, Mounted
    <2>4. v \in win.share => v \in win'.share BY <1>12 DEF Makes
    <2>5. CreateOK(v)'
        BY <1>1, <1>4, <1>11, <2>3, <2>4, Given DEF VolumeOK, CreateOK
    <2>6. ServedOK(v)'
        BY <1>1, <1>4, <1>6, <1>11, <2>3, <2>4, Given DEF VolumeOK, ServedOK, DirOK
    <2> QED BY <1>1, <1>6, <1>8, <1>9, <2>2, <2>5, <2>6, OwnStep DEF VolumeOK
<1>13. CASE s.op \in Removing /\ Removes(win', v, q)
    <2>1. Haunted(v, Removing)' BY <1>1, <1>11, <1>13 DEF Haunted, v
    <2>2. CreateOK(v)' /\ ServedOK(v)' BY <2>1 DEF CreateOK, ServedOK
    <2>3. ASSUME NEW r \in Path
          PROVE  /\ win.vhdx[r] = "absent" => win'.vhdx[r] = "absent"
                 /\ r \notin win.image => r \notin win'.image
        BY <1>10, <1>13 DEF Removes
    <2>4. DeleteOK(v)' BY <1>1, <1>4, <1>11, <2>3, Given DEF VolumeOK, DeleteOK
    <2>5. ~Mounted(win, v) => ~Mounted(win', v)
        BY <1>13, NameAssumption DEF Removes, Mounted, Path
    <2>6. /\ v \notin win.share => v \notin win'.share
          /\ v \notin win.limit => v \notin win'.limit
          /\ win.at[v] = "absent" => win'.at[v] = "absent"
        BY <1>13, NameAssumption DEF Removes, Mounted, Path
    <2>7. GoneOK(v)'
        BY <1>1, <1>4, <1>11, <2>3, <2>5, <2>6, Given DEF VolumeOK, GoneOK, Mounted
    <2> QED BY <1>1, <1>6, <1>8, <1>9, <2>2, <2>4, <2>7, OwnStep DEF VolumeOK
<1> QED BY <1>6, <1>12, <1>13

-----------------------------------------------------------------------------
(* The invariant holds before anything is provisioned. *)
LEMMA ShareInit == Init => ShareInv
<1> SUFFICES ASSUME Init PROVE ShareInv OBVIOUS
<1>1. TypeOK
    <2>1. \A v \in Volume : NoCall(v) \in Call BY DEF NoCall, NewCall, Call, PC, Path
    <2>2. win \in Windows BY DEF Init, Windows
    <2> QED BY <2>1, <2>2, FaultAssumption DEF Init, TypeOK, Life, Path
<1>2. ASSUME NEW v \in Volume
      PROVE  /\ vol[v] = "none" /\ prov[v].pc = "idle" /\ ~prov[v].roll /\ prov[v].path = v
             /\ exp[v] = "idle" /\ id[v] = v /\ win.at[v] = "absent" /\ v \notin win.share
             /\ v \notin win.limit
    BY DEF Init, NoCall, NewCall
<1>3. ASSUME NEW v \in Volume PROVE VolumeOK(v)
    BY <1>2 DEF VolumeOK, PhaseOK, DirOK, KindOK, CreateOK, DeleteOK, ServedOK, GoneOK, Deleting,
                Placed
<1>4. ApartOK BY <1>2 DEF ApartOK, Named, Init
<1>5. LateOK BY DEF Init, LateOK
<1> QED BY <1>1, <1>3, <1>4, <1>5 DEF ShareInv

(* Every step keeps the invariant. *)
LEMMA ShareStepInv == ShareInv /\ [Next]_vars => ShareInv'
<1> SUFFICES ASSUME ShareInv, [Next]_vars PROVE ShareInv' OBVIOUS
<1>1. ASSUME NEW v \in Volume, Provisioner(v) PROVE ShareInv'
    BY <1>1, GetStep, LookupStep, ExportStep, DiskStep, MountStep, RemountStep, ShareStep,
       LimitStep, UnmountStep, DeleteDiskStep, UnshareStep DEF Provisioner
<1>2. ASSUME NEW v \in Volume, Resizer(v) PROVE ShareInv'
    BY <1>2, ExpandDiskStep, ExpandMountStep, ExpandLimitStep DEF Resizer
<1>3. CASE Restart BY <1>3, RestartStep
<1>4. CASE UNCHANGED vars
    <2>1. /\ kind' = kind /\ src' = src /\ win' = win /\ vol' = vol /\ id' = id /\ prov' = prov
          /\ exp' = exp /\ beside' = beside /\ late' = late /\ stale' = stale /\ faults' = faults
        BY <1>4 DEF vars, calls
    <2>2. \A v : Named(v)' = Named(v) BY <2>1 DEF Named
    <2>3. ApartOK' BY <2>2, Zenon DEF ShareInv, ApartOK
    <2>4. TypeOK' /\ LateOK' BY <2>1 DEF ShareInv, TypeOK, LateOK
    <2>5. ASSUME NEW v \in Volume PROVE VolumeOK(v)'
        BY <2>1 DEF ShareInv, VolumeOK, PhaseOK, DirOK, KindOK, CreateOK, DeleteOK, ServedOK,
                    GoneOK, Mounted, Haunted, Placed
    <2> QED BY <2>4, <2>5, <2>3 DEF ShareInv
<1> QED BY <1>1, <1>2, <1>3, <1>4, LateStep, CreateVolumeStep, CreatePVStep, RollbackStep,
           DeleteVolumeStep, ExpandVolumeStep DEF Next

(* ShareInv is an invariant. *)
LEMMA ShareInvariant == Spec => []ShareInv
BY ShareInit, ShareStepInv, PTL DEF Spec

(* Every variable keeps its type, for any set of volumes, kinds and sources *)
(* and any number of failures.                                              *)
THEOREM TypeCorrect == Spec => []TypeOK
<1>1. ShareInv => TypeOK BY DEF ShareInv
<1> QED BY <1>1, ShareInvariant, PTL

(* What CreateVolume answers of an NFS or SMB volume is true and stays true *)
(* until it is undone, after any number of failed attempts, half-done       *)
(* rollbacks and restarts, beside expansions and the making scripts that    *)
(* the driver gave up on, and whatever the other volumes of the server do.  *)
(* Only a removing script of an earlier rollback of the same volume, given  *)
(* up on and running when the CreateVolume began, is excepted.              *)
THEOREM ShareServed == Spec => []ShareIsServed
<1>1. ShareInv => ShareIsServed BY DEF ShareInv, VolumeOK, ServedOK, ShareIsServed
<1> QED BY <1>1, ShareInvariant, PTL

(* When DeleteVolume has succeeded for an NFS or SMB volume there is no     *)
(* share and no VHDX left, attached or as a file, and never again; only a   *)
(* making script of the same volume that the driver gave up on, and that    *)
(* was running when the DeleteVolume began or later, is excepted.           *)
THEOREM ShareGone == Spec => []ShareIsGone
<1>1. ShareInv => ShareIsGone BY DEF ShareInv, VolumeOK, GoneOK, ShareIsGone
<1> QED BY <1>1, ShareInvariant, PTL
=============================================================================
