------------------------------- MODULE Fat32 -------------------------------
(***************************************************************************)
(* The read-only FAT32 file system (kernel/src/fat32.rs): mount looks for  *)
(* a volume and validates its geometry; stat, readdir and read resolve a   *)
(* path and follow cluster chains, one sector read after the other.        *)
(*                                                                         *)
(* What the disk holds is arbitrary.  It is chosen when it is first read   *)
(* and remembered: fat holds the links, content the directory sectors read *)
(* so far.  A directory sector is the one entry in it that matters: none   *)
(* ("skip": deleted, labels, other names), "end", or the entry looked for. *)
(* A byte of a file is its place on the disk.  A file system object is     *)
(* immutable and calls do not interact, so one call is followed.           *)
(***************************************************************************)
EXTENDS Integers, Sequences

CONSTANTS SectorBytes, FatEntriesPerSector, MinClusters, \* 512, 128 and FAT32_MIN_CLUSTERS
          DeviceBlocks,     \* block_count of the device
          Disks,            \* sector 0 read as a boot sector and as a partition table, with the
                            \* boot sector at the start of each partition
          Sizes, Offsets, Lengths, \* of a file, and of the reads from it
          MaxComponents     \* of a path

\* The fields of a boot sector and of a partition entry are unsigned.
BootSectors ==
    [valid : BOOLEAN, sectors_per_cluster : Nat, reserved : Nat, fat_count : Nat,
     sectors_per_fat : Nat, total : Nat, root : Nat]
Partitions == [fat32 : BOOLEAN, start : Nat, sectors : Nat, boot : BootSectors]

ASSUME FatAssumption ==
    /\ SectorBytes \in Nat \ {0} /\ FatEntriesPerSector \in Nat \ {0}
    /\ MinClusters \in Nat /\ DeviceBlocks \in Nat
    /\ \A d \in Disks : d.boot \in BootSectors /\ d.partitions \in Seq(Partitions)
    /\ Sizes \subseteq Nat /\ Offsets \subseteq Nat /\ Lengths \subseteq Nat

VARIABLES disk0,     \* the member of Disks that is mounted
          geometry,
          walk,      \* the call and where it is
          fat, content,
          lba,       \* the sector just read, and what for
          io         \* did a device read fail

fatVars == <<disk0, geometry, walk, fat, content, lba, io>>

NoBoot == [valid |-> FALSE, sectors_per_cluster |-> 1, reserved |-> 1, fat_count |-> 1,
           sectors_per_fat |-> 1, total |-> 0, root |-> 2]
NoGeometry == [partition_lba |-> 0, fat_lba |-> 0, data_lba |-> 0, end |-> 0, sectors_per_cluster |-> 1,
               cluster_count |-> 0, root |-> 0]
NoRead == [lba |-> -1, area |-> "none"]
NoRecord == [kind |-> "none", first |-> 0, size |-> 0]
Unread == -1
Bad == -2
EndOfChain == -3

Idle == [at |-> "idle", op |-> "none", left |-> 0, cluster |-> 0, sector |-> 0, traversed |-> 0, record |-> NoRecord,
         offset |-> 0, length |-> 0, skip |-> 0, output |-> <<>>, result |-> "none"]

FatInit ==
    /\ disk0 \in Disks
    /\ geometry = NoGeometry
    /\ walk = [Idle EXCEPT !.at = "mount"]
    /\ fat = <<>>
    /\ content = <<>>
    /\ lba = NoRead
    /\ io = FALSE

-----------------------------------------------------------------------------
(* Mount.                                                                  *)

PowersOfTwo == {1, 2, 4, 8, 16, 32, 64, 128}
FirstData(boot) == boot.reserved + boot.fat_count * boot.sectors_per_fat
ClusterCount(boot) == (boot.total - FirstData(boot)) \div boot.sectors_per_cluster

\* Fault: the FAT is taken to be as long as it should be.
GeometryFitsUnchecked(boot, start, sectors) ==
    /\ boot.valid
    /\ boot.sectors_per_cluster \in PowersOfTwo
    /\ boot.reserved # 0 /\ boot.fat_count # 0 /\ boot.sectors_per_fat # 0 /\ boot.root >= 2
    /\ boot.total > FirstData(boot)
    /\ boot.total <= sectors /\ start + boot.total <= DeviceBlocks
    /\ ClusterCount(boot) >= MinClusters /\ boot.root <= ClusterCount(boot) + 1

\* Fat32Geometry::parse: the checks, in the order of the code.
GeometryFits(boot, start, sectors) ==
    /\ boot.valid
    /\ boot.sectors_per_cluster \in PowersOfTwo
    /\ boot.reserved # 0 /\ boot.fat_count # 0 /\ boot.sectors_per_fat # 0 /\ boot.root >= 2
    /\ boot.total > FirstData(boot)
    /\ boot.total <= sectors /\ start + boot.total <= DeviceBlocks
    /\ ClusterCount(boot) >= MinClusters /\ boot.root <= ClusterCount(boot) + 1
    /\ boot.sectors_per_fat * FatEntriesPerSector >= ClusterCount(boot) + 2

Geometry(boot, start) ==
    [partition_lba |-> start, fat_lba |-> start + boot.reserved, data_lba |-> start + FirstData(boot),
     end |-> start + boot.total, sectors_per_cluster |-> boot.sectors_per_cluster,
     cluster_count |-> ClusterCount(boot), root |-> boot.root]

\* The partitions that from_device would mount; the first one wins.
Mountable ==
    {i \in DOMAIN disk0.partitions :
        LET p == disk0.partitions[i]
        IN  /\ p.fat32 /\ p.start # 0 /\ p.sectors # 0 /\ p.start < DeviceBlocks
            /\ GeometryFits(p.boot, p.start, p.sectors)}

Mounts(g) == geometry' = g /\ walk' = Idle

Mount ==
    /\ walk.at = "mount"
    /\ CASE GeometryFits(disk0.boot, 0, DeviceBlocks) -> Mounts(Geometry(disk0.boot, 0))
         [] Mountable # {} ->
                LET i == CHOOSE i \in Mountable : \A j \in Mountable : i <= j
                IN  Mounts(Geometry(disk0.partitions[i].boot, disk0.partitions[i].start))
         [] OTHER -> walk' = [Idle EXCEPT !.at = "no volume"] /\ UNCHANGED geometry
    /\ UNCHANGED <<disk0, fat, content, lba, io>>

-----------------------------------------------------------------------------
(* Clusters.                                                               *)

IsCluster(c) == c >= 2 /\ c <= geometry.cluster_count + 1

ClusterLba(c) == geometry.data_lba + (c - 2) * geometry.sectors_per_cluster
FatLba(c) == geometry.fat_lba + c \div FatEntriesPerSector

\* What the FAT may say of a cluster.
Links == {0, Bad, EndOfChain} \cup 2..geometry.cluster_count + 2

Link(c) == IF c \in DOMAIN fat THEN {fat[c]} ELSE Links
Known(f, x, v) == [y \in DOMAIN f \cup {x} |-> IF y = x THEN v ELSE f[y]]

Ended(result) == [walk EXCEPT !.at = "idle", !.result = result]
Returns(result) == walk' = Ended(result)

\* A device read fails: every caller reports it, and nothing is mounted.
ReadFails ==
    /\ walk.at \in {"mount", "scan", "link", "skip", "data", "next"}
    /\ io' = TRUE
    /\ IF walk.at = "mount" THEN walk' = [Idle EXCEPT !.at = "no volume"] ELSE Returns("error")
    /\ UNCHANGED <<disk0, geometry, fat, content, lba>>

\* next_cluster: a link is the end, corrupt, or a cluster of the volume, with
\* which the walk goes on as next.
NextCluster(onEnd, next) ==
    LET c == walk.cluster
    IN  IF ~IsCluster(c)
        THEN Returns("error") /\ UNCHANGED <<fat, lba>>
        ELSE /\ lba' = [lba |-> FatLba(c), area |-> "fat"]
             /\ \E link \in Link(c) :
                    /\ fat' = Known(fat, c, link)
                    /\ CASE link = EndOfChain -> Returns(onEnd)
                         [] link # EndOfChain /\ IsCluster(link) -> walk' = [next EXCEPT !.cluster = link]
                         [] OTHER -> Returns("error")

-----------------------------------------------------------------------------
(* Paths and directories.                                                  *)

\* stat, readdir or read of a path of so many components; readdir also scans
\* the directory that the path leads to.
Begin(op, components) ==
    /\ walk.at = "idle" /\ walk.op = "none"
    /\ walk' = [Idle EXCEPT !.op = op, !.left = components, !.cluster = geometry.root,
                            !.at = IF components > 0 \/ op = "readdir" THEN "scan" ELSE "idle",
                            !.result = IF components > 0 \/ op = "readdir" THEN "none"
                                       ELSE IF op = "read" THEN "error" ELSE "ok"]
    /\ UNCHANGED <<disk0, geometry, fat, content, lba, io>>

\* ".", ".." and names that are not 8.3 are refused.
RefuseComponent ==
    /\ walk.at = "scan" /\ walk.sector = 0 /\ walk.traversed = 0 /\ walk.left > 0
    /\ Returns("error")
    /\ UNCHANGED <<disk0, geometry, fat, content, lba, io>>

\* A directory sector, as DirectoryRecord::parse and the visitor see it.
Entries == {"skip", "end", "directory", "file"}
Entry(x) == IF x \in DOMAIN content THEN {content[x]} ELSE Entries

\* Where the call goes once the component it looked for has been found.
Found(kind) ==
    CASE walk.left > 1 /\ kind # "directory" -> Returns("error")
      [] walk.left > 1 \/ (walk.op = "readdir" /\ kind = "directory") ->
             \E first \in 0..geometry.cluster_count + 2 :
                 walk' = [walk EXCEPT !.left = @ - 1, !.cluster = first, !.sector = 0, !.traversed = 0]
      [] walk.left = 1 /\ walk.op = "readdir" -> Returns("error")
      [] walk.op = "stat" -> Returns("ok")
      [] OTHER -> walk' = [walk EXCEPT !.at = "open", !.record.kind = kind]

\* One sector of scan_directory; readdir itself (left = 0) visits to the end
\* of the directory or until the caller's entries are full.
ScanSector ==
    LET last == walk.sector + 1 = geometry.sectors_per_cluster
    IN  /\ walk.at = "scan"
        /\ IF ~IsCluster(walk.cluster)
           THEN Returns("error") /\ UNCHANGED <<content, lba>>
           ELSE \E e \in Entry(<<walk.cluster, walk.sector>>) :
                    /\ content' = Known(content, <<walk.cluster, walk.sector>>, e)
                    /\ lba' = [lba |-> ClusterLba(walk.cluster) + walk.sector, area |-> "data"]
                    /\ CASE e = "end" -> Returns(IF walk.left = 0 THEN "ok" ELSE "error")
                         [] e \in {"directory", "file"} /\ walk.left > 0 -> Found(e)
                         [] OTHER ->
                                \/ walk' = [walk EXCEPT !.at = IF last THEN "link" ELSE "scan",
                                                        !.sector = IF last THEN 0 ELSE @ + 1]
                                \/ e # "skip" /\ Returns("ok")
        /\ UNCHANGED <<disk0, geometry, fat, io>>

\* Fault: the clusters of a directory are not counted.
TraversedNot == walk.traversed

Traversed == walk.traversed + 1

ScanLink ==
    /\ walk.at = "link"
    /\ IF Traversed > geometry.cluster_count
       THEN Returns("error") /\ UNCHANGED <<fat, lba>>
       ELSE NextCluster(IF walk.left = 0 THEN "ok" ELSE "error",
                        [walk EXCEPT !.at = "scan", !.traversed = Traversed])
    /\ UNCHANGED <<disk0, geometry, content, io>>

-----------------------------------------------------------------------------
(* read_file.                                                              *)

ClusterBytes == geometry.sectors_per_cluster * SectorBytes
SmallerOf(a, b) == IF a < b THEN a ELSE b
Wanted == SmallerOf(walk.length, walk.record.size - walk.offset)

\* The record's first cluster and size, and the caller's offset and length,
\* have not mattered before.
Open(first, size, offset, length) ==
    /\ walk.at = "open"
    /\ CASE walk.record.kind = "directory" \/ (offset < size /\ length > 0 /\ first < 2) -> Returns("error")
         [] walk.record.kind = "file" /\ (offset >= size \/ length = 0) -> Returns("ok")
         [] OTHER -> walk' = [walk EXCEPT !.at = IF offset < ClusterBytes THEN "data" ELSE "skip",
                                          !.record.first = first, !.record.size = size,
                                          !.offset = offset, !.length = length,
                                          !.cluster = first, !.traversed = 0,
                                          !.skip = offset \div ClusterBytes,
                                          !.sector = (offset % ClusterBytes) \div SectorBytes]
    /\ UNCHANGED <<disk0, geometry, fat, content, lba, io>>

SkipCluster ==
    /\ walk.at = "skip"
    /\ NextCluster("error",
           IF Traversed > geometry.cluster_count THEN Ended("error")
           ELSE [walk EXCEPT !.at = IF walk.skip = 1 THEN "data" ELSE "skip",
                             !.skip = @ - 1, !.traversed = Traversed])
    /\ UNCHANGED <<disk0, geometry, content, io>>

\* Fault: the offset in the first sector is applied to every sector.
SectorOffsetKept == walk.offset % SectorBytes

\* Only the first sector is entered in the middle.
SectorOffset == IF walk.output = <<>> THEN walk.offset % SectorBytes ELSE 0

\* One sector is copied out.
ReadSector ==
    LET count == SmallerOf(SectorBytes - SectorOffset, Wanted - Len(walk.output))
        sector == ClusterLba(walk.cluster) + walk.sector
        output == walk.output \o [i \in 1..count |-> <<sector, SectorOffset + i - 1>>]
        last == walk.sector + 1 = geometry.sectors_per_cluster
    IN  /\ walk.at = "data"
        /\ IF ~IsCluster(walk.cluster)
           THEN Returns("error") /\ UNCHANGED lba
           ELSE /\ lba' = [lba |-> sector, area |-> "data"]
                /\ walk' = [walk EXCEPT !.output = output,
                                !.sector = IF last THEN 0 ELSE @ + 1,
                                !.at = CASE Len(output) = Wanted -> "idle"
                                         [] last /\ Len(output) # Wanted -> "next"
                                         [] OTHER -> "data",
                                !.result = IF Len(output) = Wanted THEN "ok" ELSE @]
        /\ UNCHANGED <<disk0, geometry, fat, content, io>>

ReadNext ==
    /\ walk.at = "next"
    /\ IF Traversed > geometry.cluster_count
       THEN Returns("error") /\ UNCHANGED <<fat, lba>>
       ELSE NextCluster("error", [walk EXCEPT !.at = "data", !.traversed = Traversed])
    /\ UNCHANGED <<disk0, geometry, content, io>>

FatWalks ==
    \/ ScanSector \/ ScanLink \/ RefuseComponent
    \/ \E first \in 0..geometry.cluster_count + 2, size \in Sizes, offset \in Offsets, length \in Lengths :
           Open(first, size, offset, length)
    \/ SkipCluster \/ ReadSector \/ ReadNext \/ ReadFails

FatNext ==
    \/ Mount
    \/ \E op \in {"stat", "readdir", "read"}, n \in 0..MaxComponents : Begin(op, n)
    \/ FatWalks

FatSpec == FatInit /\ [][FatNext]_fatVars /\ WF_fatVars(FatWalks)

-----------------------------------------------------------------------------
(* Properties.                                                             *)

\* Whatever a mounted disk holds, every sector that is read belongs to the
\* volume, FAT entries are read from the first FAT and data from the data area.
ReadsInVolume ==
    CASE lba.area = "fat" -> geometry.fat_lba <= lba.lba /\ lba.lba < geometry.data_lba
      [] lba.area = "data" -> geometry.data_lba <= lba.lba /\ lba.lba < geometry.end /\ lba.lba < DeviceBlocks
      [] OTHER -> TRUE

\* The n-th cluster of the file, as far as the FAT has been read.
Chain[n \in Nat] ==
    IF n = 0 THEN walk.record.first
    ELSE IF Chain[n - 1] \in DOMAIN fat THEN fat[Chain[n - 1]] ELSE Unread

\* Where byte p of the file is on the disk.
ByteAt(p) ==
    <<ClusterLba(Chain[p \div ClusterBytes]) + (p % ClusterBytes) \div SectorBytes, p % SectorBytes>>

\* A read that succeeds returns the bytes of the file from its offset on, in
\* order and no others, across sectors and clusters and at the end of the file.
ReadFollowsChain ==
    walk.op = "read" /\ walk.result = "ok" =>
        walk.output = [i \in 1..Wanted |-> ByteAt(walk.offset + i - 1)]

\* Every call ends, on chains that loop as on all others.
WalkEnds == (walk.at \notin {"idle", "mount", "no volume"}) ~> (walk.at = "idle")
=============================================================================
