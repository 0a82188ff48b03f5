---------------------------- MODULE StorageProofs ----------------------------
(***************************************************************************)
(* What the storage stack promises for every disk: the FAT32 driver reads  *)
(* inside the volume it mounted and returns the bytes of the file          *)
(* (fat32.rs), and the virtio driver tells its callers the truth while     *)
(* late answers do not occur (virtio_block.rs).                            *)
(***************************************************************************)
EXTENDS Fat32, VirtioBlock, SequenceTheorems, WellFoundedInduction, TLAPS

-----------------------------------------------------------------------------
(* FAT32.                                                                  *)

\* What Fat32Geometry::parse has made sure of: the first FAT has a link for
\* every cluster and ends before the data area, and the data area has room for
\* every cluster and ends on the device.
GeometryOK ==
    /\ geometry.fat_lba \in Nat /\ geometry.data_lba \in Nat /\ geometry.end \in Nat
    /\ geometry.sectors_per_cluster \in Nat \ {0} /\ geometry.cluster_count \in Nat /\ geometry.root \in Nat
    /\ geometry.fat_lba + (geometry.cluster_count + 1) \div FatEntriesPerSector < geometry.data_lba
    /\ geometry.data_lba + geometry.cluster_count * geometry.sectors_per_cluster <= geometry.end
    /\ geometry.end <= DeviceBlocks

WalkOK ==
    /\ {"at", "cluster", "sector"} \subseteq DOMAIN walk
    /\ walk.cluster \in Nat
    /\ walk.sector \in Nat /\ walk.sector < geometry.sectors_per_cluster

VolumeInv ==
    /\ disk0 \in Disks
    /\ walk.at \in {"mount", "no volume"} => lba = NoRead
    /\ walk.at \notin {"mount", "no volume"} => GeometryOK /\ WalkOK
    /\ \A c \in DOMAIN fat : fat[c] \in Int
    /\ ReadsInVolume

LEMMA Product ==
    ASSUME NEW a \in Nat, NEW b \in Nat, NEW n \in Nat, a < b
    PROVE  a * n + n <= b * n /\ a * n \in Nat /\ b * n \in Nat
<1>1. PICK k \in Nat : b = a + 1 + k
    <2>1. b - a - 1 \in Nat /\ b = a + 1 + (b - a - 1)
        OBVIOUS
    <2> QED BY <2>1
<1>2. b * n = a * n + n + k * n /\ k * n \in Nat /\ a * n \in Nat
    BY <1>1
<1> QED BY <1>2

\* Sector s of cluster c lies in the data area ...
LEMMA ClusterInData ==
    ASSUME GeometryOK, NEW c \in Int, IsCluster(c), NEW s \in Nat, s < geometry.sectors_per_cluster
    PROVE  LET l == ClusterLba(c) + s
           IN  geometry.data_lba <= l /\ l < geometry.end /\ l < DeviceBlocks
<1>1. PICK n, d, e, k : n = geometry.sectors_per_cluster /\ d = geometry.data_lba /\ e = geometry.end
                        /\ k = geometry.cluster_count
    OBVIOUS
<1>2. /\ n \in Nat /\ d \in Nat /\ e \in Nat /\ k \in Nat /\ d + k * n <= e /\ e <= DeviceBlocks /\ s < n
      /\ DeviceBlocks \in Nat /\ c - 2 \in Nat /\ c - 2 < k
    BY <1>1, FatAssumption DEF GeometryOK, IsCluster
<1>3. (c - 2) * n + n <= k * n /\ (c - 2) * n \in Nat /\ k * n \in Nat
    BY <1>2, Product
<1>4. PICK x, y : x = (c - 2) * n /\ y = k * n
    OBVIOUS
<1>5. ClusterLba(c) + s = d + x + s
    BY <1>1, <1>4 DEF ClusterLba
<1>6. x \in Nat /\ y \in Nat /\ x + n <= y /\ d + y <= e
    BY <1>2, <1>3, <1>4
<1>7. d <= d + x + s /\ d + x + s < e /\ d + x + s < DeviceBlocks
    BY <1>2, <1>6
<1> QED BY <1>1, <1>5, <1>7

LEMMA QuotientMonotone ==
    ASSUME NEW a \in Nat, NEW b \in Nat, a <= b, NEW n \in Nat \ {0}
    PROVE  a \div n <= b \div n /\ a \div n \in Nat /\ b \div n \in Nat
    OBVIOUS

\* ... and the link of cluster c in the first FAT.
LEMMA LinkInFat ==
    ASSUME GeometryOK, NEW c \in Int, IsCluster(c)
    PROVE  geometry.fat_lba <= FatLba(c) /\ FatLba(c) < geometry.data_lba
<1>1. PICK f, d, k, n : f = geometry.fat_lba /\ d = geometry.data_lba /\ k = geometry.cluster_count
                        /\ n = FatEntriesPerSector
    OBVIOUS
<1>2. f \in Nat /\ d \in Nat /\ k \in Nat /\ n \in Nat \ {0} /\ f + (k + 1) \div n < d /\ c \in Nat /\ c <= k + 1
        /\ k + 1 \in Nat
    BY <1>1, FatAssumption, SMTT(30) DEF GeometryOK, IsCluster
<1>3. c \div n <= (k + 1) \div n /\ c \div n \in Nat /\ (k + 1) \div n \in Nat
    BY <1>2, QuotientMonotone
<1>4. f <= f + c \div n /\ f + c \div n < d
    BY <1>2, <1>3
<1> QED BY <1>1, <1>4 DEF FatLba

\* Fat32Geometry::parse.
LEMMA ParsedGeometry ==
    ASSUME NEW boot \in BootSectors, NEW start \in Nat, NEW sectors \in Nat, GeometryFits(boot, start, sectors),
           geometry' = Geometry(boot, start)
    PROVE  GeometryOK'
<1>1. PICK r, n, s, t, p, k, root, fd, m :
          /\ r = boot.reserved /\ n = boot.fat_count /\ s = boot.sectors_per_fat /\ t = boot.total
          /\ p = boot.sectors_per_cluster /\ k = ClusterCount(boot) /\ root = boot.root /\ fd = FirstData(boot)
          /\ m = FatEntriesPerSector
    OBVIOUS
<1>2. /\ r \in Nat /\ n \in Nat \ {0} /\ s \in Nat \ {0} /\ t \in Nat /\ p \in Nat \ {0} /\ root \in Nat
      /\ fd = r + n * s /\ t > fd /\ k = (t - fd) \div p /\ s * m >= k + 2 /\ start + t <= DeviceBlocks
      /\ m \in Nat \ {0} /\ DeviceBlocks \in Nat
    <2>1. /\ boot.reserved \in Nat /\ boot.fat_count \in Nat /\ boot.sectors_per_fat \in Nat /\ boot.total \in Nat
          /\ boot.sectors_per_cluster \in Nat /\ boot.root \in Nat
        BY DEF BootSectors
    <2>2. /\ boot.sectors_per_cluster \in PowersOfTwo /\ boot.fat_count # 0 /\ boot.sectors_per_fat # 0
          /\ boot.total > FirstData(boot) /\ start + boot.total <= DeviceBlocks
          /\ boot.sectors_per_fat * FatEntriesPerSector >= ClusterCount(boot) + 2
        BY DEF GeometryFits
    <2>3. p \in Nat \ {0}
        BY <1>1, <2>2 DEF PowersOfTwo
    <2>4. fd = r + n * s /\ k = (t - fd) \div p
        BY <1>1 DEF FirstData, ClusterCount
    <2>5. m \in Nat \ {0} /\ DeviceBlocks \in Nat
        BY <1>1, FatAssumption
    <2> QED BY <1>1, <2>1, <2>2, <2>3, <2>4, <2>5
\* The FAT is long enough, and the first one is before the data.
<1>3. n * s \in Nat /\ n * s >= s
    <2>1. PICK j \in Nat : n = j + 1
        <3>1. n - 1 \in Nat /\ n = (n - 1) + 1
            BY <1>2
        <3> QED BY <3>1
    <2>2. n * s = j * s + s /\ j * s \in Nat
        BY <1>2, <2>1
    <2> QED BY <1>2, <2>2
<1>4. fd \in Nat /\ t - fd \in Nat /\ r + s <= fd
    BY <1>2, <1>3
<1>5. k \in Nat /\ k * p <= t - fd /\ k * p \in Nat
    BY <1>2, <1>4
<1>6. (k + 1) \div m < s /\ (k + 1) \div m \in Nat
    <2>1. k + 1 \in Nat /\ k + 1 < s * m
        <3> DEFINE sm == s * m
        <3>1. sm \in Nat /\ k \in Nat /\ sm >= k + 2
            BY <1>2, <1>5
        <3> HIDE DEF sm
        <3>2. k + 1 \in Nat /\ k + 1 < sm
            BY <3>1
        <3> QED BY <3>2 DEF sm
    <2>2. PICK q \in Nat : q = (k + 1) \div m /\ q * m <= k + 1
        BY <1>2, <2>1
    <2>3. ASSUME q >= s PROVE FALSE
        <3>1. s * m <= q * m
            <4>1. PICK j \in Nat : q = s + j
                <5>1. q - s \in Nat /\ q = s + (q - s)
                    BY <1>2, <2>3
                <5> QED BY <5>1
            <4>2. q * m = s * m + j * m /\ j * m \in Nat /\ s * m \in Nat
                BY <1>2, <4>1
            <4> QED BY <4>2
        <3>2. PICK x, y : x = s * m /\ y = q * m
            OBVIOUS
        <3>3. x \in Nat /\ y \in Nat
            BY <1>2, <2>2, <3>2
        <3> QED BY <2>1, <2>2, <3>1, <3>2, <3>3
    <2> QED BY <1>2, <2>2, <2>3
<1>7. geometry' = [partition_lba |-> start, fat_lba |-> start + r, data_lba |-> start + fd,
                   end |-> start + t, sectors_per_cluster |-> p, cluster_count |-> k, root |-> root]
    BY <1>1 DEF Geometry
<1>8. /\ start + r + (k + 1) \div m < start + fd
      /\ start + fd + k * p <= start + t
    <2> DEFINE x == (k + 1) \div m
               y == k * p
    <2>1. x \in Nat /\ x < s /\ y \in Nat /\ y <= t - fd
        BY <1>5, <1>6
    <2> HIDE DEF x, y
    <2>2. start + r + x < start + fd /\ start + fd + y <= start + t
        BY <1>2, <1>4, <2>1
    <2> QED BY <2>2 DEF x, y
<1>9. start + r \in Nat /\ start + fd \in Nat /\ start + t \in Nat
    BY <1>2, <1>4
<1> QED BY <1>1, <1>2, <1>5, <1>7, <1>8, <1>9 DEF GeometryOK

LEMMA VolumeInit == ASSUME FatInit PROVE VolumeInv
<1>1. disk0 \in Disks /\ walk = [Idle EXCEPT !.at = "mount"] /\ fat = <<>> /\ lba = NoRead
    BY DEF FatInit
<1>2. walk.at = "mount" /\ lba.area = "none"
    BY <1>1 DEF Idle, NoRead
<1>3. ReadsInVolume
    BY <1>2, Zenon DEF ReadsInVolume
<1> QED BY <1>1, <1>2, <1>3 DEF VolumeInv

\* Without a volume nothing was read, and mounting reads nothing but the boot
\* sectors.
LEMMA MountKeeps == ASSUME VolumeInv, Mount PROVE VolumeInv'
<1>1. walk.at = "mount" /\ lba' = lba /\ lba = NoRead /\ disk0' = disk0 /\ fat' = fat /\ disk0 \in Disks
    BY DEF Mount, VolumeInv
<1>2. ReadsInVolume'
    <2>1. lba'.area = "none"
        BY <1>1 DEF NoRead
    <2> QED BY <2>1, Zenon DEF ReadsInVolume
<1>3. ASSUME NEW boot \in BootSectors, NEW start \in Nat, NEW sectors \in Nat, GeometryFits(boot, start, sectors),
             Mounts(Geometry(boot, start))
      PROVE  VolumeInv'
    <2>1. GeometryOK'
        BY <1>3, ParsedGeometry DEF Mounts
    <2>2. WalkOK' /\ walk'.at = "idle"
        <3>1. walk' = Idle
            BY <1>3 DEF Mounts
        <3>2. 0 < geometry'.sectors_per_cluster
            BY <2>1 DEF GeometryOK
        <3> QED BY <3>1, <3>2 DEF WalkOK, Idle
    <2> QED BY <1>1, <1>2, <2>1, <2>2 DEF VolumeInv
<1>4. disk0.boot \in BootSectors /\ disk0.partitions \in Seq(Partitions) /\ DeviceBlocks \in Nat
    BY <1>1, FatAssumption
<1>5. CASE GeometryFits(disk0.boot, 0, DeviceBlocks) /\ Mounts(Geometry(disk0.boot, 0))
    BY <1>3, <1>4, <1>5
<1>6. CASE /\ Mountable # {}
           /\ LET i == CHOOSE i \in Mountable : \A j \in Mountable : i <= j
              IN  Mounts(Geometry(disk0.partitions[i].boot, disk0.partitions[i].start))
    <2>1. Mountable \subseteq Nat /\ Mountable \subseteq 1..Len(disk0.partitions)
        <3>1. Mountable \subseteq DOMAIN disk0.partitions
            BY Zenon DEF Mountable
        <3> QED BY <1>4, <3>1
    <2>2. PICK x \in Mountable : \A y \in Mountable : ~(<<y, x>> \in OpToRel(<, Nat))
        BY <1>6, <2>1, NatLessThanWellFounded, WFMin
    <2>3. ASSUME NEW y \in Mountable PROVE x <= y
        <3>1. x \in Nat /\ y \in Nat /\ ~(y < x)
            BY <2>1, <2>2 DEF OpToRel
        <3> QED BY <3>1
    <2>4. PICK i \in Mountable : Mounts(Geometry(disk0.partitions[i].boot, disk0.partitions[i].start))
        BY <1>6, <2>3
    <2>5. PICK p : p = disk0.partitions[i] /\ p \in Partitions
        BY <1>4, <2>1, ElementOfSeq
    <2>6. p.boot \in BootSectors /\ p.start \in Nat /\ p.sectors \in Nat
        BY <2>5 DEF Partitions
    <2>7. GeometryFits(p.boot, p.start, p.sectors)
        BY <2>4, <2>5 DEF Mountable
    <2> QED BY <1>3, <2>4, <2>5, <2>6, <2>7
<1>7. CASE walk' = [Idle EXCEPT !.at = "no volume"] /\ geometry' = geometry
    <2>1. walk'.at = "no volume"
        BY <1>7 DEF Idle
    <2> QED BY <1>1, <1>2, <2>1 DEF VolumeInv
<1>8. \/ GeometryFits(disk0.boot, 0, DeviceBlocks) /\ Mounts(Geometry(disk0.boot, 0))
      \/ /\ Mountable # {}
         /\ LET i == CHOOSE i \in Mountable : \A j \in Mountable : i <= j
            IN  Mounts(Geometry(disk0.partitions[i].boot, disk0.partitions[i].start))
      \/ walk' = [Idle EXCEPT !.at = "no volume"] /\ geometry' = geometry
    BY Zenon DEF Mount
<1> QED BY <1>5, <1>6, <1>7, <1>8

\* What every step of a call keeps: it stands on a sector of a cluster, and
\* reads the sector it stands on, the link of a cluster, or nothing.
Called(w) ==
    /\ {"at", "cluster", "sector"} \subseteq DOMAIN w
    /\ w.at \notin {"mount", "no volume"}
    /\ w.cluster \in Nat
    /\ w.sector \in Nat /\ w.sector < geometry.sectors_per_cluster

Reads ==
    \/ lba' = lba
    \/ \E c \in Int : IsCluster(c) /\ lba' = [lba |-> FatLba(c), area |-> "fat"]
    \/ \E c \in Int, s \in Nat : /\ IsCluster(c) /\ s < geometry.sectors_per_cluster
                                 /\ lba' = [lba |-> ClusterLba(c) + s, area |-> "data"]

LEMMA CallKeeps ==
    ASSUME VolumeInv, walk.at \notin {"mount", "no volume"}, disk0' = disk0, geometry' = geometry,
           \A c \in DOMAIN fat' : fat'[c] \in Int, Called(walk'), Reads
    PROVE  VolumeInv'
<1>1. GeometryOK /\ GeometryOK'
    BY DEF VolumeInv, GeometryOK
<1>2. ReadsInVolume'
    <2>1. CASE lba' = lba
        <3>1. \/ lba.area = "fat" /\ geometry.fat_lba <= lba.lba /\ lba.lba < geometry.data_lba
              \/ lba.area = "data" /\ geometry.data_lba <= lba.lba /\ lba.lba < geometry.end /\ lba.lba < DeviceBlocks
              \/ lba.area # "fat" /\ lba.area # "data"
            BY Zenon DEF VolumeInv, ReadsInVolume
        <3> QED BY <2>1, <3>1, Zenon DEF ReadsInVolume
    <2>2. ASSUME NEW c \in Int, IsCluster(c), lba' = [lba |-> FatLba(c), area |-> "fat"] PROVE ReadsInVolume'
        <3>1. /\ lba'.area = "fat" /\ geometry'.fat_lba <= lba'.lba /\ lba'.lba < geometry'.data_lba
            BY <1>1, <2>2, LinkInFat
        <3> QED BY <3>1, Zenon DEF ReadsInVolume
    <2>3. ASSUME NEW c \in Int, NEW s \in Nat, IsCluster(c), s < geometry.sectors_per_cluster,
                 lba' = [lba |-> ClusterLba(c) + s, area |-> "data"]
          PROVE  ReadsInVolume'
        <3>1. /\ lba'.area = "data" /\ geometry'.data_lba <= lba'.lba /\ lba'.lba < geometry'.end
              /\ lba'.lba < DeviceBlocks
            BY <1>1, <2>3, ClusterInData
        <3>2. lba'.area # "fat"
            BY <3>1
        <3> QED BY <3>1, <3>2, Zenon DEF ReadsInVolume
    <2> QED BY <2>1, <2>2, <2>3 DEF Reads
<1>3. WalkOK' /\ walk'.at \notin {"mount", "no volume"}
    BY DEF Called, WalkOK
<1> QED BY <1>1, <1>2, <1>3 DEF VolumeInv

LEMMA Stands ==
    ASSUME NEW w, Called(w)
    PROVE  w.cluster \in Nat /\ w.sector \in Nat /\ w.sector < geometry.sectors_per_cluster
    BY DEF Called

LEMMA StandsCalled == ASSUME VolumeInv, walk.at \notin {"mount", "no volume"}
                      PROVE  Called(walk) /\ GeometryOK /\ geometry.sectors_per_cluster \in Nat \ {0}
    BY DEF VolumeInv, WalkOK, Called, GeometryOK

LEMMA EndsCalled ==
    ASSUME NEW result, Called(walk)
    PROVE  Called(Ended(result))
    BY DEF Called, Ended

\* next_cluster goes on with a cluster of the volume, or ends the call.
LEMMA NextClusterKeeps ==
    ASSUME VolumeInv, walk.at \notin {"mount", "no volume"}, disk0' = disk0, geometry' = geometry,
           NEW onEnd, NEW next, Called(next), NextCluster(onEnd, next)
    PROVE  VolumeInv'
<1>a. Called(walk) /\ GeometryOK
    BY StandsCalled
<1>1. \A r : Called(Ended(r))
    BY <1>a, EndsCalled
<1>2. walk.cluster \in Int
    <2>1. walk.cluster \in Nat
        BY <1>a, Stands
    <2> QED BY ONLY <2>1
<1>3. CASE Returns("error") /\ UNCHANGED <<fat, lba>>
    BY <1>1, <1>3, CallKeeps DEF Returns, Reads, VolumeInv
<1>4. ASSUME IsCluster(walk.cluster), lba' = [lba |-> FatLba(walk.cluster), area |-> "fat"],
             NEW link \in Link(walk.cluster), fat' = Known(fat, walk.cluster, link),
             NEW r, walk' = Ended(r) \/ (IsCluster(link) /\ walk' = [next EXCEPT !.cluster = link])
      PROVE  VolumeInv'
    <2>1. link \in Int
        <3>1. geometry.cluster_count \in Nat
            BY <1>a DEF GeometryOK
        <3>2. Links \subseteq Int
            BY ONLY <3>1 DEF Links, Bad, EndOfChain
        <3>3. \A c \in DOMAIN fat : fat[c] \in Int
            BY DEF VolumeInv
        <3> QED BY <1>4, <3>2, <3>3 DEF Link
    <2>2. \A c \in DOMAIN fat' : fat'[c] \in Int
        BY <1>4, <2>1 DEF Known, VolumeInv
    <2>3. Called(walk')
        <3>1. IsCluster(link) => link \in Nat
            BY ONLY <2>1 DEF IsCluster
        <3>2. ASSUME link \in Nat PROVE Called([next EXCEPT !.cluster = link])
            BY <3>2 DEF Called
        <3> QED BY <1>1, <1>4, <3>1, <3>2
    <2>4. Reads
        BY <1>2, <1>4 DEF Reads
    <2> QED BY <2>2, <2>3, <2>4, CallKeeps
<1>5. \/ Returns("error") /\ UNCHANGED <<fat, lba>>
      \/ /\ IsCluster(walk.cluster) /\ lba' = [lba |-> FatLba(walk.cluster), area |-> "fat"]
         /\ \E link \in Link(walk.cluster) :
                /\ fat' = Known(fat, walk.cluster, link)
                /\ \/ walk' = Ended(onEnd) \/ walk' = Ended("error")
                   \/ IsCluster(link) /\ walk' = [next EXCEPT !.cluster = link]
    BY Zenon DEF NextCluster, Returns
<1> QED BY <1>3, <1>4, <1>5

LEMMA ScanKeeps == ASSUME VolumeInv, ScanSector PROVE VolumeInv'
<1>1. walk.at = "scan" /\ disk0' = disk0 /\ geometry' = geometry /\ fat' = fat
    BY DEF ScanSector
<1>a. Called(walk) /\ GeometryOK /\ geometry.sectors_per_cluster \in Nat \ {0}
    BY <1>1, StandsCalled
<1>2. \A r : Called(Ended(r))
    BY <1>a, EndsCalled
<1>3. CASE Returns("error") /\ lba' = lba
    BY <1>1, <1>2, <1>3, CallKeeps DEF Returns, Reads, VolumeInv
<1>4. ASSUME IsCluster(walk.cluster), lba' = [lba |-> ClusterLba(walk.cluster) + walk.sector, area |-> "data"], Called(walk')
      PROVE  VolumeInv'
    <2>1. walk.cluster \in Nat /\ walk.sector \in Nat /\ walk.sector < geometry.sectors_per_cluster
        BY <1>a, Stands
    <2>2. walk.cluster \in Int
        BY ONLY <2>1
    <2>3. Reads
        BY ONLY <1>4, <2>1, <2>2 DEF Reads
    <2> QED BY <1>1, <1>4, <2>3, CallKeeps DEF VolumeInv
<1>5. ASSUME NEW kind, Found(kind) PROVE Called(walk')
    <2>1. \/ \E r : walk' = Ended(r)
          \/ \E first \in 0..geometry.cluster_count + 2 :
                 walk' = [walk EXCEPT !.left = @ - 1, !.cluster = first, !.sector = 0, !.traversed = 0]
          \/ walk' = [walk EXCEPT !.at = "open", !.record.kind = kind]
        BY <1>5, Zenon DEF Found, Returns
    <2>2. ASSUME NEW first \in 0..geometry.cluster_count + 2,
                 walk' = [walk EXCEPT !.left = @ - 1, !.cluster = first, !.sector = 0, !.traversed = 0]
          PROVE  Called(walk')
        <3>1. first \in Nat /\ 0 < geometry.sectors_per_cluster
            BY ONLY <1>a, <2>2 DEF GeometryOK
        <3> QED BY <1>a, <2>2, <3>1 DEF Called
    <2>3. CASE walk' = [walk EXCEPT !.at = "open", !.record.kind = kind]
        BY <1>a, <2>3 DEF Called
    <2> QED BY <1>2, <2>1, <2>2, <2>3
<1>6. ASSUME NEW last \in BOOLEAN, last <=> walk.sector + 1 = geometry.sectors_per_cluster,
             walk' = [walk EXCEPT !.at = IF last THEN "link" ELSE "scan", !.sector = IF last THEN 0 ELSE @ + 1]
      PROVE  Called(walk')
    <2>1. walk.sector + 1 = geometry.sectors_per_cluster \/ walk.sector + 1 < geometry.sectors_per_cluster
        <3>1. walk.sector \in Nat /\ walk.sector < geometry.sectors_per_cluster
            BY <1>a, Stands
        <3>2. geometry.sectors_per_cluster \in Nat
            BY <1>a
        <3> QED BY ONLY <3>1, <3>2
    <2>2. walk.sector + 1 \in Nat /\ 0 < geometry.sectors_per_cluster
        <3>1. walk.sector \in Nat /\ geometry.sectors_per_cluster \in Nat \ {0}
            BY <1>a, Stands
        <3> QED BY ONLY <3>1
    <2>3. CASE last
        BY <1>a, <1>6, <2>2, <2>3 DEF Called
    <2>4. CASE ~last
        BY <1>a, <1>6, <2>1, <2>2, <2>4 DEF Called
    <2> QED BY <2>3, <2>4
<1>7. \/ Returns("error") /\ lba' = lba
      \/ /\ IsCluster(walk.cluster) /\ lba' = [lba |-> ClusterLba(walk.cluster) + walk.sector, area |-> "data"]
         /\ \/ \E r : walk' = Ended(r)
            \/ \E kind : Found(kind)
            \/ \E last \in BOOLEAN :
                   /\ last <=> walk.sector + 1 = geometry.sectors_per_cluster
                   /\ walk' = [walk EXCEPT !.at = IF last THEN "link" ELSE "scan", !.sector = IF last THEN 0 ELSE @ + 1]
    BY Zenon DEF ScanSector, Returns
<1> QED BY <1>2, <1>3, <1>4, <1>5, <1>6, <1>7

LEMMA OpenKeeps ==
    ASSUME VolumeInv, NEW first \in 0..geometry.cluster_count + 2, NEW size \in Sizes, NEW offset \in Offsets,
           NEW length \in Lengths, Open(first, size, offset, length)
    PROVE  VolumeInv'
<1>1. walk.at = "open" /\ disk0' = disk0 /\ geometry' = geometry /\ fat' = fat /\ lba' = lba
    BY DEF Open
<1>a. Called(walk) /\ GeometryOK /\ geometry.sectors_per_cluster \in Nat \ {0}
    BY <1>1, StandsCalled
<1>2. \A r : Called(Ended(r))
    BY <1>a, EndsCalled
<1>3. offset \in Nat /\ SectorBytes \in Nat \ {0}
    BY FatAssumption
\* The offset in the cluster names one of its sectors.
<1>4. (offset % ClusterBytes) \div SectorBytes \in Nat
        /\ (offset % ClusterBytes) \div SectorBytes < geometry.sectors_per_cluster
    <2>1. PICK n, b, c : n = geometry.sectors_per_cluster /\ b = SectorBytes /\ c = n * b
        OBVIOUS
    <2>2. n \in Nat \ {0} /\ b \in Nat \ {0} /\ c \in Nat \ {0} /\ ClusterBytes = c
        BY <1>a, <1>3, <2>1 DEF ClusterBytes
    <2>3. PICK x \in Nat : x = offset % c /\ x < c
        BY <1>3, <2>2
    <2>4. PICK q \in Nat : q = x \div b /\ q * b <= x
        BY <2>2, <2>3
    <2>5. ASSUME q >= n PROVE FALSE
        <3>1. PICK j \in Nat : q = n + j
            <4>1. q - n \in Nat /\ q = n + (q - n)
                BY <2>2, <2>5
            <4> QED BY <4>1
        <3>2. q * b = n * b + j * b /\ j * b \in Nat /\ n * b \in Nat
            BY <2>2, <3>1
        <3>3. PICK y, z : y = q * b /\ z = j * b
            OBVIOUS
        <3>4. y = c + z /\ z \in Nat /\ y <= x
            BY <2>1, <2>4, <3>2, <3>3
        <3> QED BY <2>2, <2>3, <3>4
    <2> QED BY <2>1, <2>2, <2>3, <2>4, <2>5
<1>5. CASE \E r : walk' = Ended(r)
    BY <1>1, <1>2, <1>5, CallKeeps DEF Reads, VolumeInv
<1>6. ASSUME NEW at \in {"data", "skip"}, NEW sector, sector = (offset % ClusterBytes) \div SectorBytes,
             walk' = [walk EXCEPT !.at = at, !.record.first = first, !.record.size = size,
                                  !.offset = offset, !.length = length, !.cluster = first, !.traversed = 0,
                                  !.skip = offset \div ClusterBytes, !.sector = sector]
      PROVE  VolumeInv'
    <2>1. sector \in Nat /\ sector < geometry.sectors_per_cluster /\ first \in Nat
        BY <1>a, <1>4, <1>6 DEF GeometryOK
    <2>2. Called(walk')
        BY <1>a, <1>6, <2>1 DEF Called
    <2> QED BY <1>1, <2>2, CallKeeps DEF Reads, VolumeInv
<1>7. \/ \E r : walk' = Ended(r)
      \/ \E at \in {"data", "skip"} : \E sector :
            /\ sector = (offset % ClusterBytes) \div SectorBytes
            /\ walk' = [walk EXCEPT !.at = at, !.record.first = first, !.record.size = size,
                                  !.offset = offset, !.length = length, !.cluster = first, !.traversed = 0,
                                  !.skip = offset \div ClusterBytes, !.sector = sector]
    BY Zenon DEF Open, Returns
<1> QED BY <1>5, <1>6, <1>7

LEMMA LinksKeep == ASSUME VolumeInv, ScanLink \/ SkipCluster \/ ReadNext PROVE VolumeInv'
<1>1. walk.at \notin {"mount", "no volume"} /\ disk0' = disk0 /\ geometry' = geometry
    BY DEF ScanLink, SkipCluster, ReadNext
<1>2. Called(walk)
    BY <1>1, StandsCalled
<1>3. \A r : Called(Ended(r))
    BY <1>2, EndsCalled
<1>4. ASSUME NEW at \in {"scan", "skip", "data"}, NEW skip, NEW traversed
      PROVE  /\ Called([walk EXCEPT !.at = at, !.traversed = traversed])
             /\ Called([walk EXCEPT !.at = at, !.skip = skip, !.traversed = traversed])
    BY <1>2 DEF Called
<1>5. CASE Returns("error") /\ UNCHANGED <<fat, lba>>
    BY <1>1, <1>3, <1>5, CallKeeps DEF Returns, Reads, VolumeInv
<1>6. ASSUME NEW onEnd, NEW next, NextCluster(onEnd, next), Called(next) PROVE VolumeInv'
    BY <1>1, <1>6, NextClusterKeeps
<1>7. CASE ScanLink
    <2>1. CASE NextCluster(IF walk.left = 0 THEN "ok" ELSE "error", [walk EXCEPT !.at = "scan", !.traversed = Traversed])
        BY <1>4, <1>6, <2>1
    <2> QED BY <1>5, <1>7, <2>1 DEF ScanLink
<1>8. CASE SkipCluster
    <2>1. PICK next : /\ NextCluster("error", next)
                      /\ \/ next = Ended("error")
                         \/ \E at \in {"skip", "data"} :
                                next = [walk EXCEPT !.at = at, !.skip = @ - 1, !.traversed = Traversed]
        BY <1>8, Zenon DEF SkipCluster
    <2>2. ASSUME NEW at \in {"skip", "data"}, next = [walk EXCEPT !.at = at, !.skip = @ - 1, !.traversed = Traversed]
          PROVE  Called(next)
        BY <1>2, <2>2 DEF Called
    <2>3. Called(next)
        BY <1>3, <2>1, <2>2
    <2> QED BY <1>6, <2>1, <2>3
<1>9. CASE ReadNext
    <2>1. CASE NextCluster("error", [walk EXCEPT !.at = "data", !.traversed = Traversed])
        BY <1>4, <1>6, <2>1
    <2> QED BY <1>5, <1>9, <2>1 DEF ReadNext
<1> QED BY <1>7, <1>8, <1>9

LEMMA ReadKeeps == ASSUME VolumeInv, ReadSector PROVE VolumeInv'
<1>1. walk.at = "data" /\ disk0' = disk0 /\ geometry' = geometry /\ fat' = fat
    BY DEF ReadSector
<1>2. Called(walk) /\ geometry.sectors_per_cluster \in Nat \ {0}
    BY <1>1, StandsCalled
<1>3. Called(Ended("error"))
    BY <1>2, EndsCalled
<1>4. /\ walk.cluster \in Nat /\ walk.sector \in Nat /\ walk.sector < geometry.sectors_per_cluster
    BY <1>2, Stands
<1>5. CASE Returns("error") /\ lba' = lba
    BY <1>1, <1>3, <1>5, CallKeeps DEF Returns, Reads, VolumeInv
<1>6. ASSUME IsCluster(walk.cluster), lba' = [lba |-> ClusterLba(walk.cluster) + walk.sector, area |-> "data"],
             NEW last \in BOOLEAN, last <=> walk.sector + 1 = geometry.sectors_per_cluster,
             NEW output, NEW at \in {"idle", "next", "data"},
             walk' = [walk EXCEPT !.output = output, !.sector = IF last THEN 0 ELSE @ + 1, !.at = at,
                                  !.result = IF Len(output) = Wanted THEN "ok" ELSE @]
      PROVE  VolumeInv'
    <2> DEFINE sector == IF last THEN 0 ELSE walk.sector + 1
    <2>1. sector \in Nat /\ sector < geometry.sectors_per_cluster /\ walk.cluster \in Int
        BY ONLY <1>2, <1>4, <1>6
    <2>2. walk'.sector = sector /\ walk'.at = at /\ walk'.cluster = walk.cluster /\ DOMAIN walk' = DOMAIN walk
        BY <1>2, <1>6 DEF Called
    <2> HIDE DEF sector
    <2>3. Called(walk')
        BY <1>2, <1>6, <2>1, <2>2 DEF Called
    <2>4. Reads
        BY ONLY <1>4, <1>6, <2>1 DEF Reads
    <2> QED BY <1>1, <2>3, <2>4, CallKeeps DEF VolumeInv
<1>7. CASE IsCluster(walk.cluster)
    <2> DEFINE count == SmallerOf(SectorBytes - SectorOffset, Wanted - Len(walk.output))
               place_ == ClusterLba(walk.cluster) + walk.sector
               output == walk.output \o [i \in 1..count |-> <<place_, SectorOffset + i - 1>>]
               last == walk.sector + 1 = geometry.sectors_per_cluster
               at == CASE Len(output) = Wanted -> "idle"
                         [] last /\ Len(output) # Wanted -> "next"
                         [] OTHER -> "data"
    <2>1. /\ lba' = [lba |-> place_, area |-> "data"]
          /\ walk' = [walk EXCEPT !.output = output, !.sector = IF last THEN 0 ELSE @ + 1, !.at = at,
                                  !.result = IF Len(output) = Wanted THEN "ok" ELSE @]
        BY <1>7, Zenon DEF ReadSector
    <2> HIDE DEF count, output
    <2>2. at \in {"idle", "next", "data"} /\ last \in BOOLEAN
        BY Zenon
    <2> HIDE DEF at
    <2> QED BY <1>6, <1>7, <2>1, <2>2
<1> QED BY <1>5, <1>7 DEF ReadSector

LEMMA BeginKeeps ==
    ASSUME VolumeInv, NEW op, NEW components, Begin(op, components) \/ RefuseComponent \/ ReadFails
    PROVE  VolumeInv'
<1>1. disk0' = disk0 /\ geometry' = geometry /\ fat' = fat /\ lba' = lba
    BY DEF Begin, RefuseComponent, ReadFails
<1>2. ASSUME walk.at \notin {"mount", "no volume"}, Called(walk') PROVE VolumeInv'
    BY <1>1, <1>2, CallKeeps DEF Reads, VolumeInv
<1>3. CASE Begin(op, components)
    <2>1. walk.at = "idle"
        BY <1>3 DEF Begin
    <2>2. GeometryOK
        BY <2>1, StandsCalled
    <2>3. PICK at, result : /\ walk' = [Idle EXCEPT !.op = op, !.left = components, !.cluster = geometry.root,
                                                    !.at = at, !.result = result]
                            /\ at = "scan" \/ at = "idle"
        BY <1>3, Zenon DEF Begin
    <2>4. geometry.root \in Nat /\ 0 < geometry.sectors_per_cluster
        BY ONLY <2>2 DEF GeometryOK
    <2>5. Called(walk')
        BY <2>3, <2>4 DEF Called, Idle
    <2> QED BY <1>2, <2>1, <2>5
<1>4. CASE Returns("error") /\ walk.at \notin {"mount", "no volume"}
    BY <1>2, <1>4, StandsCalled, EndsCalled DEF Returns
<1>5. CASE walk.at = "mount" /\ walk' = [Idle EXCEPT !.at = "no volume"]
    <2>1. walk'.at = "no volume" /\ lba' = NoRead
        BY <1>1, <1>5 DEF Idle, VolumeInv
    <2>2. ReadsInVolume'
        <3>1. lba'.area = "none"
            BY <2>1 DEF NoRead
        <3> QED BY <3>1, Zenon DEF ReadsInVolume
    <2> QED BY <1>1, <2>1, <2>2 DEF VolumeInv
<1>6. CASE RefuseComponent
    BY <1>4, <1>6 DEF RefuseComponent
<1>7. CASE ReadFails
    BY <1>4, <1>5, <1>7 DEF ReadFails
<1> QED BY <1>3, <1>6, <1>7

LEMMA VolumeStep == ASSUME VolumeInv, [FatNext]_fatVars PROVE VolumeInv'
<1>1. CASE Mount
    BY <1>1, MountKeeps
<1>2. CASE \E op \in {"stat", "readdir", "read"}, n \in 0..MaxComponents : Begin(op, n)
    BY <1>2, BeginKeeps
<1>3. CASE FatWalks
    <2>1. CASE ScanSector \/ ReadSector
        BY <2>1, ScanKeeps, ReadKeeps
    <2>2. CASE ScanLink \/ SkipCluster \/ ReadNext
        BY <2>2, LinksKeep
    <2>3. CASE RefuseComponent \/ ReadFails
        BY <2>3, BeginKeeps
    <2>4. CASE \E first \in 0..geometry.cluster_count + 2, size \in Sizes, offset \in Offsets, length \in Lengths :
                   Open(first, size, offset, length)
        BY <2>4, OpenKeeps
    <2> QED BY <1>3, <2>1, <2>2, <2>3, <2>4 DEF FatWalks
<1>4. CASE UNCHANGED fatVars
    <2>1. disk0' = disk0 /\ geometry' = geometry /\ walk' = walk /\ fat' = fat /\ lba' = lba
        BY <1>4 DEF fatVars
    <2>2. ReadsInVolume' = ReadsInVolume
        BY <2>1, Zenon DEF ReadsInVolume
    <2> QED BY <2>1, <2>2 DEF VolumeInv, GeometryOK, WalkOK
<1> QED BY <1>1, <1>2, <1>3, <1>4 DEF FatNext

\* Whatever the FAT and the directories of a mounted volume say, the driver
\* reads links from the first FAT and everything else from the data area: the
\* checks of Fat32Geometry::parse and of next_cluster suffice.
THEOREM ReadsStayInVolume == FatSpec => []ReadsInVolume
<1>1. FatInit => VolumeInv
    BY VolumeInit
<1>2. VolumeInv /\ [FatNext]_fatVars => VolumeInv'
    BY VolumeStep
<1>3. VolumeInv => ReadsInVolume
    BY DEF VolumeInv
<1> QED BY <1>1, <1>2, <1>3, PTL DEF FatSpec

-----------------------------------------------------------------------------
(* What a read returns.                                                    *)

\* Induction over the natural numbers, for sets.
LEMMA SetInduction ==
    ASSUME NEW S, 0 \in S, \A n \in Nat : n \in S => n + 1 \in S
    PROVE  \A n \in Nat : n \in S
<1> DEFINE T == {n \in Nat : n \notin S}
<1>1. SUFFICES ASSUME T # {} PROVE FALSE
    OBVIOUS
<1>2. PICK x \in T : \A y \in T : ~(<<y, x>> \in OpToRel(<, Nat))
    <2>1. T \subseteq Nat
        OBVIOUS
    <2> QED BY <1>1, <2>1, NatLessThanWellFounded, WFMin
<1>3. x \in Nat /\ x \notin S /\ x # 0
    OBVIOUS
<1>4. x - 1 \in Nat /\ x - 1 < x /\ (x - 1) + 1 = x
    BY <1>3
<1>5. x - 1 \notin S
    BY <1>3, <1>4
<1>6. x - 1 \in T
    BY <1>4, <1>5
<1> QED BY <1>2, <1>3, <1>4, <1>6 DEF OpToRel

\* One link of a chain.
After(c, links) == IF c \in DOMAIN links THEN links[c] ELSE Unread

IsChain(f, first, links) ==
    f = [n \in Nat |-> IF n = 0 THEN first ELSE After(f[n - 1], links)]

\* The same, up to n.
IsPrefix(g, n, first, links) ==
    g = [k \in 0..n |-> IF k = 0 THEN first ELSE After(g[k - 1], links)]

LEMMA PrefixValue ==
    ASSUME NEW g, NEW n \in Nat, NEW first, NEW links, IsPrefix(g, n, first, links)
    PROVE  g[0] = first /\ \A k \in 1..n : g[k] = After(g[k - 1], links)
<1> DEFINE e(k) == IF k = 0 THEN first ELSE After(g[k - 1], links)
<1>1. g = [k \in 0..n |-> e(k)]
    BY DEF IsPrefix
<1>2. \A k \in 0..n : g[k] = e(k)
    <2> HIDE DEF e
    <2> QED BY <1>1, Zenon
<1>3. 0 \in 0..n /\ \A k \in 1..n : k \in 0..n /\ k # 0
    OBVIOUS
<1> QED BY <1>2, <1>3, Zenon

LEMMA PrefixExists ==
    ASSUME NEW first, NEW links
    PROVE  \A n \in Nat : \E g : IsPrefix(g, n, first, links)
<1> DEFINE S == {n \in Nat : \E g : IsPrefix(g, n, first, links)}
<1>1. 0 \in S
    <2> DEFINE g == [k \in 0..0 |-> first]
    <2>1. g = [k \in 0..0 |-> IF k = 0 THEN first ELSE After(g[k - 1], links)]
        OBVIOUS
    <2>2. IsPrefix(g, 0, first, links)
        BY <2>1 DEF IsPrefix
    <2> QED BY <2>2
<1>2. ASSUME NEW n \in Nat, n \in S PROVE n + 1 \in S
    <2>1. PICK g : IsPrefix(g, n, first, links)
        BY <1>2
    <2>2. g[0] = first /\ \A k \in 1..n : g[k] = After(g[k - 1], links)
        BY <2>1, PrefixValue
    <2> DEFINE h == [k \in 0..(n + 1) |-> IF k = n + 1 THEN After(g[n], links) ELSE g[k]]
    <2>3. \A k \in 0..(n + 1) : h[k] = IF k = 0 THEN first ELSE After(h[k - 1], links)
        <3>1. \A k \in 0..n : h[k] = g[k]
            OBVIOUS
        <3>2. h[n + 1] = After(g[n], links)
            OBVIOUS
        <3> HIDE DEF h
        <3>3. h[0] = first
            BY <2>2, <3>1
        <3>4. ASSUME NEW k \in 1..n PROVE h[k] = After(h[k - 1], links)
            BY <2>2, <3>1
        <3>5. h[n + 1] = After(h[n], links)
            BY <3>1, <3>2
        <3> QED BY <3>3, <3>4, <3>5
    <2>4. h = [k \in 0..(n + 1) |-> h[k]]
        OBVIOUS
    <2>5. IsPrefix(h, n + 1, first, links)
        <3> DEFINE e(k) == IF k = 0 THEN first ELSE After(h[k - 1], links)
        <3>1. \A k \in 0..(n + 1) : h[k] = e(k)
            BY <2>3
        <3>2. h = [k \in 0..(n + 1) |-> e(k)]
            <4> HIDE DEF h, e
            <4> QED BY <2>4, <3>1
        <3> QED BY <3>2 DEF IsPrefix
    <2> QED BY <2>5
<1> HIDE DEF S
<1>3. \A n \in Nat : n \in S
    BY <1>1, <1>2, SetInduction
<1> QED BY <1>3 DEF S

\* A chain up to n and one up to m agree as far as both go.
LEMMA PrefixesAgree ==
    ASSUME NEW first, NEW links, NEW n \in Nat, NEW m \in Nat, m <= n, NEW g, NEW h,
           IsPrefix(g, m, first, links), IsPrefix(h, n, first, links)
    PROVE  \A k \in 0..m : g[k] = h[k]
<1> DEFINE S == {k \in Nat : k <= m => g[k] = h[k]}
<1>1. g[0] = first /\ \A k \in 1..m : g[k] = After(g[k - 1], links)
    BY PrefixValue
<1>2. h[0] = first /\ \A k \in 1..n : h[k] = After(h[k - 1], links)
    BY PrefixValue
<1>3. 0 \in S
    BY <1>1, <1>2
<1>4. ASSUME NEW k \in Nat, k \in S PROVE k + 1 \in S
    <2>1. CASE k + 1 <= m
        <3>1. k + 1 \in 1..m /\ k + 1 \in 1..n /\ (k + 1) - 1 = k
            BY <2>1
        <3>2. g[k] = h[k]
            BY <1>4, <2>1
        <3>3. g[k + 1] = h[k + 1]
            BY <1>1, <1>2, <3>1, <3>2
        <3> QED BY <3>3
    <2> QED BY <2>1
<1> HIDE DEF S
<1>5. \A k \in Nat : k \in S
    BY <1>3, <1>4, SetInduction
<1> QED BY <1>5 DEF S

LEMMA ChainExists ==
    ASSUME NEW first, NEW links
    PROVE  \E f : IsChain(f, first, links)
<1> DEFINE G(n) == CHOOSE g : IsPrefix(g, n, first, links)
           f == [n \in Nat |-> G(n)[n]]
<1>1. \A n \in Nat : IsPrefix(G(n), n, first, links)
    BY PrefixExists
<1> HIDE DEF G
<1>2. ASSUME NEW n \in Nat, n # 0 PROVE f[n] = After(f[n - 1], links)
    <2>1. n - 1 \in Nat /\ n \in 1..n /\ n - 1 \in 0..(n - 1) /\ n - 1 <= n
        BY <1>2
    <2>2. G(n)[n] = After(G(n)[n - 1], links)
        BY <1>1, <2>1, PrefixValue
    <2>3. G(n)[n - 1] = G(n - 1)[n - 1]
        BY <1>1, <2>1, PrefixesAgree
    <2> QED BY <2>1, <2>2, <2>3
<1>3. f[0] = first
    BY <1>1, PrefixValue
<1>4. IsChain(f, first, links)
    <2> DEFINE e(n) == IF n = 0 THEN first ELSE After(f[n - 1], links)
    <2>1. f = [n \in Nat |-> f[n]]
        OBVIOUS
    <2>2. \A n \in Nat : f[n] = e(n)
        BY <1>2, <1>3
    <2>3. f = [n \in Nat |-> e(n)]
        <3> HIDE DEF f, e
        <3> QED BY <2>1, <2>2
    <2> QED BY <2>3 DEF IsChain
<1> QED BY <1>4

LEMMA ChainValue ==
    ASSUME NEW f, NEW first, NEW links, IsChain(f, first, links)
    PROVE  f[0] = first /\ \A n \in Nat \ {0} : f[n] = After(f[n - 1], links)
<1> DEFINE e(n) == IF n = 0 THEN first ELSE After(f[n - 1], links)
<1>1. f = [n \in Nat |-> e(n)]
    BY DEF IsChain
<1>2. \A n \in Nat : f[n] = e(n)
    <2> HIDE DEF e
    <2> QED BY <1>1, Zenon
<1> QED BY <1>2

LEMMA ChainIs == IsChain(Chain, walk.record.first, fat)
<1>1. Chain = CHOOSE f : IsChain(f, walk.record.first, fat)
    BY DEF Chain, IsChain, After
<1> QED BY <1>1, ChainExists

LEMMA ChainIsNext == IsChain(Chain', walk'.record.first, fat')
<1>1. Chain' = CHOOSE f : IsChain(f, walk'.record.first, fat')
    BY DEF Chain, IsChain, After
<1> QED BY <1>1, ChainExists

\* A chain does not change while more links become known.
LEMMA ChainGrows ==
    ASSUME NEW f, NEW g, NEW first, NEW links, NEW more, IsChain(f, first, links), IsChain(g, first, more),
           DOMAIN links \subseteq DOMAIN more, \A c \in DOMAIN links : more[c] = links[c],
           NEW m \in Nat, \A k \in 0..(m - 1) : f[k] \in DOMAIN links
    PROVE  \A k \in 0..m : g[k] = f[k]
<1>1. /\ f[0] = first /\ \A n \in Nat \ {0} : f[n] = After(f[n - 1], links)
      /\ g[0] = first /\ \A n \in Nat \ {0} : g[n] = After(g[n - 1], more)
    BY ChainValue
<1> DEFINE S == {k \in Nat : k <= m => g[k] = f[k]}
<1>2. 0 \in S
    BY <1>1
<1>3. ASSUME NEW k \in Nat, k \in S PROVE k + 1 \in S
    <2>1. CASE k + 1 <= m
        <3>1. k \in 0..(m - 1) /\ k + 1 \in Nat \ {0} /\ (k + 1) - 1 = k /\ g[k] = f[k]
            BY <1>3, <2>1
        <3>2. f[k] \in DOMAIN links /\ g[k] \in DOMAIN more
            BY <3>1
        <3>3. g[k + 1] = f[k + 1]
            BY <1>1, <3>1, <3>2 DEF After
        <3> QED BY <3>3
    <2> QED BY <2>1
<1> HIDE DEF S
<1>4. \A k \in Nat : k \in S
    BY <1>2, <1>3, SetInduction
<1> QED BY <1>4 DEF S

LEMMA Remainder ==
    ASSUME NEW a \in Nat, NEW d \in Nat \ {0}
    PROVE  \E q \in Nat, r \in 0..(d - 1) : a = q * d + r /\ q = a \div d /\ r = a % d
    BY SMTT(30)

LEMMA Division ==
    ASSUME NEW a \in Nat, NEW d \in Nat \ {0}, NEW q \in Nat, NEW r \in Nat, r < d, a = q * d + r
    PROVE  a \div d = q /\ a % d = r
<1>1. PICK x \in Nat, y \in 0..(d - 1) : a = x * d + y /\ x = a \div d /\ y = a % d
    BY Remainder
<1>2. ASSUME x < q PROVE FALSE
    <2>1. PICK u, v : u = x * d /\ v = q * d
        OBVIOUS
    <2>2. u + d <= v /\ u \in Nat /\ v \in Nat
        BY <1>2, <2>1, Product
    <2>3. u + y = v + r
        BY <1>1, <2>1
    <2> QED BY <1>1, <2>2, <2>3
<1>3. ASSUME q < x PROVE FALSE
    <2>1. PICK u, v : u = x * d /\ v = q * d
        OBVIOUS
    <2>2. v + d <= u /\ u \in Nat /\ v \in Nat
        BY <1>3, <2>1, Product
    <2>3. u + y = v + r
        BY <1>1, <2>1
    <2> QED BY <1>1, <2>2, <2>3
<1>4. x = q
    BY <1>2, <1>3
<1>5. y = r
    <2>1. PICK u : u = x * d /\ u \in Nat
        OBVIOUS
    <2>2. u + y = u + r
        BY <1>1, <1>4, <2>1
    <2> QED BY <2>1, <2>2
<1> QED BY <1>1, <1>4, <1>5

\* p is byte r of sector s of the t-th cluster, with n sectors of b bytes in
\* a cluster of c.
ByteOf(p, t, s, r, n, b, c) == s < n /\ r < b /\ c = n * b /\ p = t * c + (s * b + r)

\* The same, as the code computes it.
Located(p, t, s, r, b, c) == t = p \div c /\ s = (p % c) \div b /\ r = p % b

LEMMA Compose ==
    ASSUME NEW n \in Nat \ {0}, NEW b \in Nat \ {0}, NEW t \in Nat, NEW s \in Nat, NEW r \in Nat,
           NEW c \in Nat \ {0}, NEW p \in Nat, ByteOf(p, t, s, r, n, b, c)
    PROVE  Located(p, t, s, r, b, c)
<1> USE DEF ByteOf
<1>1. s * b + r \in Nat /\ s * b + r < c
    <2>1. PICK u, v : u = s * b /\ v = n * b
        OBVIOUS
    <2>2. u + b <= v /\ u \in Nat /\ v \in Nat
        BY <2>1, Product
    <2> QED BY <2>1, <2>2
<1>2. p \div c = t /\ p % c = s * b + r
    <2>1. PICK y \in Nat : y = s * b + r /\ y < c
        BY <1>1
    <2>2. p = t * c + y
        BY <2>1
    <2>3. p \div c = t /\ p % c = y
        BY <2>1, <2>2, Division
    <2> QED BY <2>1, <2>3
<1>3. (s * b + r) \div b = s
    BY <1>1, Division
<1>4. p % b = r
    <2>1. PICK q \in Nat : q = t * n + s
        OBVIOUS
    <2>2. p = q * b + r
        <3>1. t * c = (t * n) * b
            OBVIOUS
        <3>2. q * b = (t * n) * b + s * b
            BY <2>1
        <3>3. PICK u, v : u = (t * n) * b /\ v = s * b
            OBVIOUS
        <3>4. u \in Nat /\ v \in Nat /\ p = u + (v + r) /\ q * b = u + v
            BY <3>1, <3>2, <3>3
        <3>5. u + (v + r) = (u + v) + r
            BY <3>4
        <3> QED BY <3>4, <3>5
    <2> QED BY <2>2, Division
<1> QED BY <1>2, <1>3, <1>4, Zenon DEF Located

LEMMA Decompose ==
    ASSUME NEW n \in Nat \ {0}, NEW b \in Nat \ {0}, NEW c \in Nat \ {0}, c = n * b, NEW p \in Nat
    PROVE  \E t, s, r \in Nat : ByteOf(p, t, s, r, n, b, c)
<1>1. PICK t \in Nat, y \in 0..(c - 1) : p = t * c + y
    <2>1. \E q \in Nat, r \in 0..(c - 1) : p = q * c + r /\ q = p \div c /\ r = p % c
        BY Remainder, Zenon
    <2> QED BY <2>1, Zenon
<1>2. PICK s \in Nat, r \in 0..(b - 1) : y = s * b + r
    <2>1. y \in Nat
        OBVIOUS
    <2>2. \E q \in Nat, r \in 0..(b - 1) : y = q * b + r /\ q = y \div b /\ r = y % b
        BY <2>1, Remainder, Zenon
    <2> QED BY <2>2, Zenon
<1>3. ASSUME n <= s PROVE FALSE
    <2>1. PICK u, v : u = s * b /\ v = n * b
        OBVIOUS
    <2>2. v <= u /\ u \in Nat /\ v \in Nat
        <3>1. CASE n = s
            BY <2>1, <3>1
        <3>2. CASE n < s
            BY <2>1, <3>2, Product
        <3> QED BY <1>3, <3>1, <3>2
    <2> QED BY <1>1, <1>2, <2>1, <2>2
<1>4. ByteOf(p, t, s, r, n, b, c) /\ r \in Nat
    BY <1>1, <1>2, <1>3 DEF ByteOf
<1> QED BY <1>4

\* q is j after p, and c is n times b.
IsPast(q, p, j) == q = p + j
IsTimes(c, n, b) == c = n * b

\* How the place of a byte moves with its position in the file: within a
\* sector, to the next sector of the cluster, and to the next cluster.
LEMMA Places ==
    ASSUME NEW n \in Nat \ {0}, NEW b \in Nat \ {0}, NEW c \in Nat \ {0}, IsTimes(c, n, b), NEW p \in Nat, NEW j \in Nat,
           NEW q \in Nat, IsPast(q, p, j), NEW t, NEW s, NEW r, Located(p, t, s, r, b, c)
    PROVE  /\ t \in Nat /\ s \in Nat /\ r \in Nat /\ s < n /\ r < b
           /\ \A y : IsPast(y, r, j) /\ y < b => Located(q, t, s, y, b, c)
           /\ \A u : IsPast(b, r, j) /\ IsPast(u, s, 1) /\ u < n => Located(q, t, u, 0, b, c)
           /\ \A v : IsPast(b, r, j) /\ IsPast(n, s, 1) /\ IsPast(v, t, 1) => Located(q, v, 0, 0, b, c)
<1> USE DEF IsPast, IsTimes
<1>1. t \in Nat /\ s \in Nat /\ r \in Nat /\ ByteOf(p, t, s, r, n, b, c)
    <2>1. PICK t_ \in Nat, s_ \in Nat, r_ \in Nat : ByteOf(p, t_, s_, r_, n, b, c)
        BY Decompose
    <2>2. Located(p, t_, s_, r_, b, c)
        BY <2>1, Compose
    <2> QED BY <2>1, <2>2, Zenon DEF Located
<1>2. t \in Nat /\ s \in Nat /\ r \in Nat
    BY <1>1
<1>3. PICK u \in Nat, v \in Nat : u = t * c /\ v = s * b
    BY <1>2
<1>4. s < n /\ r < b /\ p = u + (v + r)
    BY <1>1, <1>3 DEF ByteOf
<1>5. ASSUME NEW y, y = r + j, y < b
      PROVE  Located(q, t, s, y, b, c)
    <2>1. y \in Nat /\ ByteOf(q, t, s, y, n, b, c)
        BY <1>1, <1>3, <1>4, <1>5 DEF ByteOf
    <2> QED BY <1>2, <2>1, Compose
<1>6. ASSUME b = r + j, NEW y, y = s + 1, y < n
      PROVE  Located(q, t, y, 0, b, c)
    <2>1. y * b = v + b
        BY <1>1, <1>3, <1>6
    <2>2. y \in Nat /\ ByteOf(q, t, y, 0, n, b, c)
        BY <1>1, <1>3, <1>4, <1>6, <2>1 DEF ByteOf
    <2> QED BY <1>2, <2>2, Compose
<1>7. ASSUME b = r + j, n = s + 1, NEW y, y = t + 1
      PROVE  Located(q, y, 0, 0, b, c)
    <2>1. v + b = c
        <3>1. (s + 1) * b = v + b
            BY <1>1, <1>3
        <3> QED BY <1>7, <3>1
    <2>2. y * c = u + c
        BY <1>1, <1>3, <1>7
    <2>3. y \in Nat /\ ByteOf(q, y, 0, 0, n, b, c)
        BY <1>1, <1>3, <1>4, <1>7, <2>1, <2>2 DEF ByteOf
    <2> QED BY <2>3, Compose
<1> QED BY <1>1, <1>4, <1>5, <1>6, <1>7, Zenon

WalkFields == {"at", "op", "left", "cluster", "sector", "traversed", "record", "offset", "length", "skip", "output", "result"}

Shaped(w) == WalkFields \subseteq DOMAIN w /\ {"kind", "first", "size"} \subseteq DOMAIN w.record

\* Nothing has been asked for yet, or nothing but the empty answer is due.
Blank(w) == w.record.size = 0 /\ w.offset = 0 /\ w.length = 0 /\ w.output = <<>>

WantedBy(w) == SmallerOf(w.length, w.record.size - w.offset)
BytePlace(f, p) ==
    <<ClusterLba(f[p \div ClusterBytes]) + (p % ClusterBytes) \div SectorBytes, p % SectorBytes>>
Entered(w) == IF w.output = <<>> THEN w.offset % SectorBytes ELSE 0

\* What has been copied are the bytes from the offset on, from clusters that
\* have been passed or are stood on.
CopiedOut(w, f) ==
    /\ w.output = [i \in 1..Len(w.output) |-> BytePlace(f, w.offset + i - 1)]
    /\ \A i \in 1..Len(w.output) : (w.offset + i - 1) \div ClusterBytes <= w.traversed

\* Where the walk stands, as a position in the file.
StandsAt(w, p) ==
    \/ /\ w.at = "skip" /\ w.output = <<>> /\ w.skip \in Nat \ {0}
       /\ w.traversed + w.skip = p \div ClusterBytes /\ w.sector = (p % ClusterBytes) \div SectorBytes
    \/ /\ w.at = "data"
       /\ w.traversed = p \div ClusterBytes /\ w.sector = (p % ClusterBytes) \div SectorBytes
       /\ p % SectorBytes = Entered(w)
    \/ /\ w.at = "next" /\ w.output # <<>>
       /\ w.traversed + 1 = p \div ClusterBytes /\ w.sector = (p % ClusterBytes) \div SectorBytes
       /\ p % SectorBytes = 0

\* A read that is under way follows the chain f through links that are known.
Reading(w, f, links) ==
    /\ w.offset \in Nat /\ w.length \in Nat \ {0} /\ w.record.size \in Nat /\ w.offset < w.record.size
    /\ w.traversed \in Nat /\ f[w.traversed] = w.cluster
    /\ \A k \in 0..(w.traversed - 1) : f[k] \in DOMAIN links
    /\ Len(w.output) \in Nat /\ Len(w.output) < WantedBy(w)
    /\ CopiedOut(w, f)
    /\ StandsAt(w, w.offset + Len(w.output))

ReadInv ==
    /\ Shaped(walk)
    /\ walk.at \in {"mount", "no volume", "idle", "scan", "link", "open", "skip", "data", "next"}
    /\ walk.at # "idle" => walk.result = "none"
    /\ walk.at \in {"mount", "no volume", "scan", "link", "open"} => Blank(walk)
    /\ walk.at = "open" => walk.record.kind \in {"directory", "file"}
    /\ walk.at \in {"skip", "data", "next"} => Reading(walk, Chain, fat)
    /\ ReadFollowsChain

LEMMA BlankFollows == ASSUME Blank(walk') PROVE ReadFollowsChain'
<1>1. Wanted' = 0
    BY DEF Blank, Wanted, SmallerOf
<1>2. walk'.output = <<>>
    BY DEF Blank
<1> DEFINE e(i) == ByteAt(walk.offset + i - 1)
<1>3. <<>> = [i \in 1..0 |-> e(i)']
    <2> HIDE DEF e
    <2> QED OBVIOUS
<1> QED BY <1>1, <1>2, <1>3, Zenon DEF ReadFollowsChain

\* Steps of a call that has not asked for any bytes, and failures.
LEMMA BlankKeeps ==
    ASSUME Shaped(walk'), Blank(walk'), walk'.at \in {"mount", "no volume", "idle", "scan", "link", "open"},
           walk'.at # "idle" => walk'.result = "none",
           walk'.at = "open" => walk'.record.kind \in {"directory", "file"}
    PROVE  ReadInv'
    BY BlankFollows DEF ReadInv

LEMMA FailureKeeps == ASSUME Shaped(walk'), walk'.at = "idle", walk'.result # "ok" PROVE ReadInv'
<1>1. ReadFollowsChain'
    BY Zenon DEF ReadFollowsChain
<1> QED BY <1>1 DEF ReadInv

LEMMA EndedShape ==
    ASSUME Shaped(walk), NEW result
    PROVE  /\ Shaped(Ended(result)) /\ Ended(result).at = "idle" /\ Ended(result).result = result
           /\ Blank(walk) => Blank(Ended(result))
    BY DEF Shaped, Ended, Blank, WalkFields

LEMMA ReadingKeeps ==
    ASSUME Shaped(walk'), walk'.at \in {"skip", "data", "next"}, walk'.result = "none", geometry' = geometry,
           Reading(walk', Chain', fat')
    PROVE  ReadInv'
<1>1. ReadFollowsChain'
    <2>1. walk'.result # "ok"
        OBVIOUS
    <2> QED BY <2>1, Zenon DEF ReadFollowsChain
<1>2. Reading(walk, Chain, fat)'
    BY DEF Reading, CopiedOut, StandsAt, WantedBy, Entered, BytePlace, ClusterLba, ClusterBytes
<1> QED BY <1>1, <1>2 DEF ReadInv

LEMMA ReadInit == ASSUME FatInit PROVE ReadInv
<1>1. walk = [Idle EXCEPT !.at = "mount"]
    BY DEF FatInit
<1>2. Shaped(walk) /\ Blank(walk) /\ walk.at = "mount" /\ walk.result = "none"
    BY <1>1 DEF Idle, NoRecord, Shaped, Blank, WalkFields
<1>3. ReadFollowsChain
    BY <1>2, Zenon DEF ReadFollowsChain
<1> QED BY <1>2, <1>3 DEF ReadInv

LEMMA CallBegins ==
    ASSUME ReadInv, NEW op, NEW components, Mount \/ Begin(op, components) \/ RefuseComponent \/ ReadFails
    PROVE  ReadInv'
<1>1. CASE walk' = Idle \/ walk' = [Idle EXCEPT !.at = "no volume"]
    <2>1. Shaped(Idle) /\ Blank(Idle) /\ Idle.at = "idle" /\ Idle.result = "none"
        BY DEF Idle, NoRecord, Shaped, Blank, WalkFields
    <2>2. CASE walk' = [Idle EXCEPT !.at = "no volume"]
        <3>1. Shaped(walk') /\ Blank(walk') /\ walk'.at = "no volume" /\ walk'.result = "none"
            BY <2>2 DEF Idle, NoRecord, Shaped, Blank, WalkFields
        <3> QED BY <3>1, BlankKeeps
    <2> QED BY <1>1, <2>1, <2>2, BlankKeeps
<1>2. CASE Begin(op, components)
    <2> DEFINE scans == components > 0 \/ op = "readdir"
               at == IF scans THEN "scan" ELSE "idle"
               result == IF scans THEN "none" ELSE IF op = "read" THEN "error" ELSE "ok"
    <2>1. walk' = [Idle EXCEPT !.op = op, !.left = components, !.cluster = geometry.root, !.at = at, !.result = result]
        BY <1>2, Zenon DEF Begin
    <2>a. (at = "scan" /\ result = "none") \/ at = "idle"
        OBVIOUS
    <2> HIDE DEF at, result, scans
    <2>2. Shaped(walk') /\ Blank(walk') /\ walk'.at = at /\ walk'.result = result
        BY <2>1 DEF Idle, NoRecord, Shaped, Blank, WalkFields
    <2> QED BY <2>a, <2>2, BlankKeeps
<1>3. CASE walk' = Ended("error")
    BY <1>3, EndedShape, FailureKeeps DEF ReadInv
<1>4. CASE Mount
    BY <1>1, <1>4, Zenon DEF Mount, Mounts
<1>5. CASE RefuseComponent \/ ReadFails
    BY <1>1, <1>3, <1>5, Zenon DEF RefuseComponent, ReadFails, Returns
<1> QED BY <1>2, <1>4, <1>5

LEMMA ScanReads == ASSUME ReadInv, ScanSector PROVE ReadInv'
<1>1. Shaped(walk) /\ Blank(walk) /\ walk.at = "scan" /\ walk.result = "none"
    BY DEF ReadInv, ScanSector
<1>2. CASE \E r : walk' = Ended(r)
    BY <1>1, <1>2, EndedShape, BlankKeeps
<1>3. ASSUME NEW kind \in {"directory", "file"}, Found(kind) PROVE ReadInv'
    <2>1. \/ \E r : walk' = Ended(r)
          \/ \E first \in 0..geometry.cluster_count + 2 :
                 walk' = [walk EXCEPT !.left = @ - 1, !.cluster = first, !.sector = 0, !.traversed = 0]
          \/ walk' = [walk EXCEPT !.at = "open", !.record.kind = kind]
        BY <1>3, Zenon DEF Found, Returns
    <2>2. ASSUME NEW first, walk' = [walk EXCEPT !.left = @ - 1, !.cluster = first, !.sector = 0, !.traversed = 0]
          PROVE  ReadInv'
        <3>1. Shaped(walk') /\ Blank(walk') /\ walk'.at = "scan" /\ walk'.result = "none"
            BY <1>1, <2>2 DEF Shaped, Blank, WalkFields
        <3> QED BY <3>1, BlankKeeps
    <2>3. CASE walk' = [walk EXCEPT !.at = "open", !.record.kind = kind]
        <3>1. Shaped(walk') /\ Blank(walk') /\ walk'.at = "open" /\ walk'.result = "none" /\ walk'.record.kind = kind
            BY <1>1, <2>3 DEF Shaped, Blank, WalkFields
        <3> QED BY <3>1, BlankKeeps
    <2> QED BY <1>2, <2>1, <2>2, <2>3
<1>4. ASSUME NEW at \in {"link", "scan"}, NEW sector, walk' = [walk EXCEPT !.at = at, !.sector = sector]
      PROVE  ReadInv'
    <2>1. Shaped(walk') /\ Blank(walk') /\ walk'.at = at /\ walk'.result = "none"
        BY <1>1, <1>4 DEF Shaped, Blank, WalkFields
    <2> QED BY <2>1, BlankKeeps
<1>5. \/ \E r : walk' = Ended(r)
      \/ \E kind \in {"directory", "file"} : Found(kind)
      \/ \E at \in {"link", "scan"} : \E sector : walk' = [walk EXCEPT !.at = at, !.sector = sector]
    <2>1. \/ \E r : walk' = Ended(r)
          \/ \E kind \in {"directory", "file"} : Found(kind)
          \/ \E last \in BOOLEAN :
                 walk' = [walk EXCEPT !.at = IF last THEN "link" ELSE "scan", !.sector = IF last THEN 0 ELSE @ + 1]
        BY Zenon DEF ScanSector, Returns
    <2>2. ASSUME NEW last \in BOOLEAN,
                 walk' = [walk EXCEPT !.at = IF last THEN "link" ELSE "scan", !.sector = IF last THEN 0 ELSE @ + 1]
          PROVE  \E at \in {"link", "scan"} : \E sector : walk' = [walk EXCEPT !.at = at, !.sector = sector]
        BY <2>2, Zenon
    <2> QED BY <2>1, <2>2
<1> QED BY <1>2, <1>3, <1>4, <1>5

\* What next_cluster leads to.
LEMMA LinkTaken ==
    ASSUME NEW onEnd, NEW next, NextCluster(onEnd, next)
    PROVE  \/ walk' = Ended("error")
           \/ walk' = Ended(onEnd)
           \/ \E link \in Link(walk.cluster) : fat' = Known(fat, walk.cluster, link) /\ walk' = [next EXCEPT !.cluster = link]
    BY Zenon DEF NextCluster, Returns

LEMMA ScanLinkReads == ASSUME ReadInv, ScanLink PROVE ReadInv'
<1>1. Shaped(walk) /\ Blank(walk) /\ walk.at = "link" /\ walk.result = "none"
    BY DEF ReadInv, ScanLink
<1>2. CASE \E r : walk' = Ended(r)
    BY <1>1, <1>2, EndedShape, BlankKeeps
<1>3. ASSUME NEW link, NEW traversed, walk' = [[walk EXCEPT !.at = "scan", !.traversed = traversed] EXCEPT !.cluster = link]
      PROVE  ReadInv'
    <2>1. Shaped(walk') /\ Blank(walk') /\ walk'.at = "scan" /\ walk'.result = "none"
        BY <1>1, <1>3 DEF Shaped, Blank, WalkFields
    <2> QED BY <2>1, BlankKeeps
<1>4. CASE walk' = Ended("error")
    BY <1>2, <1>4
<1>5. CASE NextCluster(IF walk.left = 0 THEN "ok" ELSE "error", [walk EXCEPT !.at = "scan", !.traversed = Traversed])
    <2>1. PICK onEnd, next : next = [walk EXCEPT !.at = "scan", !.traversed = Traversed] /\ NextCluster(onEnd, next)
        BY <1>5
    <2>2. \/ \E r : walk' = Ended(r)
          \/ \E link : walk' = [next EXCEPT !.cluster = link]
        BY <2>1, LinkTaken, Zenon
    <2> QED BY <1>2, <1>3, <2>1, <2>2
<1> QED BY <1>4, <1>5 DEF ScanLink, Returns

-----------------------------------------------------------------------------
(* Following the chain.                                                    *)

LEMMA BytesAssumed ==
    ASSUME GeometryOK
    PROVE  /\ geometry.sectors_per_cluster \in Nat \ {0} /\ SectorBytes \in Nat \ {0}
           /\ ClusterBytes \in Nat \ {0} /\ ClusterBytes = geometry.sectors_per_cluster * SectorBytes
<1>1. geometry.sectors_per_cluster \in Nat \ {0} /\ SectorBytes \in Nat \ {0}
    BY FatAssumption DEF GeometryOK
<1>2. PICK n, b : n = geometry.sectors_per_cluster /\ b = SectorBytes /\ n \in Nat \ {0} /\ b \in Nat \ {0}
    BY <1>1
<1>3. n * b \in Nat /\ n * b # 0
    <2>1. PICK k \in Nat : n = k + 1
        <3>1. n - 1 \in Nat /\ n = (n - 1) + 1
            BY <1>2
        <3> QED BY <3>1
    <2>2. n * b = k * b + b /\ k * b \in Nat
        BY <1>2, <2>1
    <2> QED BY <1>2, <2>2
<1> QED BY <1>1, <1>2, <1>3 DEF ClusterBytes

\* What has been copied stays right as long as the part of the chain that the
\* walk has passed does not change.
LEMMA CopiedStays ==
    ASSUME GeometryOK, NEW w, NEW x, NEW f, NEW g, CopiedOut(w, f), w.offset \in Nat, Len(w.output) \in Nat,
           w.traversed \in Nat, x.traversed \in Nat, w.traversed <= x.traversed,
           x.output = w.output, x.offset = w.offset, \A k \in 0..w.traversed : g[k] = f[k]
    PROVE  CopiedOut(x, g)
<1> DEFINE e(h, i) == BytePlace(h, w.offset + i - 1)
<1>1. w.output = [i \in 1..Len(w.output) |-> e(f, i)]
    BY DEF CopiedOut
<1>2. ASSUME NEW i \in 1..Len(w.output) PROVE e(f, i) = e(g, i) /\ (x.offset + i - 1) \div ClusterBytes <= x.traversed
    <2>1. PICK p \in Nat : p = w.offset + i - 1
        OBVIOUS
    <2>2. p \div ClusterBytes <= w.traversed /\ p \div ClusterBytes \in Nat
        <3>1. p \div ClusterBytes <= w.traversed
            BY <2>1 DEF CopiedOut
        <3>2. PICK c \in Nat \ {0} : c = ClusterBytes
            BY BytesAssumed
        <3>3. p \div c \in Nat
            BY <3>2
        <3> QED BY <3>1, <3>2, <3>3
    <2>3. p \div ClusterBytes \in 0..w.traversed
        BY <2>2
    <2>4. BytePlace(f, p) = BytePlace(g, p)
        BY <2>3 DEF BytePlace
    <2> QED BY <2>1, <2>2, <2>4
<1> HIDE DEF e
<1>3. w.output = [i \in 1..Len(w.output) |-> e(g, i)]
    BY <1>1, <1>2
<1> QED BY <1>2, <1>3 DEF CopiedOut, e

\* A link that is followed becomes known, and leads to the next cluster of
\* the chain.
LEMMA ChainFollowed ==
    ASSUME Reading(walk, Chain, fat), NEW link \in Link(walk.cluster), fat' = Known(fat, walk.cluster, link),
           walk'.record.first = walk.record.first
    PROVE  /\ \A k \in 0..walk.traversed : Chain'[k] = Chain[k] /\ Chain'[k] \in DOMAIN fat'
           /\ Chain'[walk.traversed + 1] = link
<1>1. IsChain(Chain, walk.record.first, fat) /\ IsChain(Chain', walk.record.first, fat')
    BY ChainIs, ChainIsNext
<1>2. /\ walk.traversed \in Nat /\ Chain[walk.traversed] = walk.cluster
      /\ \A k \in 0..(walk.traversed - 1) : Chain[k] \in DOMAIN fat
    BY DEF Reading
<1>3. /\ DOMAIN fat' = DOMAIN fat \cup {walk.cluster} /\ fat'[walk.cluster] = link
      /\ \A c \in DOMAIN fat : fat'[c] = fat[c]
    BY DEF Known, Link
<1>4. \A k \in 0..walk.traversed : Chain'[k] = Chain[k]
    BY <1>1, <1>2, <1>3, ChainGrows
<1>5. \A k \in 0..walk.traversed : Chain'[k] \in DOMAIN fat'
    <2> SUFFICES ASSUME NEW k \in 0..walk.traversed PROVE Chain'[k] \in DOMAIN fat'
        OBVIOUS
    <2>1. k \in 0..(walk.traversed - 1) \/ k = walk.traversed
        BY <1>2
    <2> QED BY <1>2, <1>3, <1>4, <2>1
<1>6. Chain'[walk.traversed + 1] = link
    <2>1. walk.traversed + 1 \in Nat \ {0} /\ (walk.traversed + 1) - 1 = walk.traversed /\ walk.traversed \in 0..walk.traversed
        BY <1>2
    <2>2. Chain'[walk.traversed + 1] = After(Chain'[walk.traversed], fat')
        BY <1>1, <2>1, ChainValue
    <2>3. Chain'[walk.traversed] = walk.cluster
        BY <1>2, <1>4, <2>1
    <2> QED BY <1>3, <2>2, <2>3 DEF After
<1> QED BY <1>4, <1>5, <1>6

\* The part of Reading that a followed link keeps, whatever the walk does next.
LEMMA LinkKeepsReading ==
    ASSUME GeometryOK, geometry' = geometry, Reading(walk, Chain, fat), NEW link \in Link(walk.cluster),
           fat' = Known(fat, walk.cluster, link), Shaped(walk'), walk'.result = "none", walk'.at \in {"skip", "data", "next"},
           walk'.record = walk.record, walk'.offset = walk.offset, walk'.length = walk.length,
           walk'.output = walk.output, walk'.traversed = walk.traversed + 1, walk'.cluster = link,
           StandsAt(walk', walk.offset + Len(walk.output))
    PROVE  ReadInv'
<1>1. /\ \A k \in 0..walk.traversed : Chain'[k] = Chain[k] /\ Chain'[k] \in DOMAIN fat'
      /\ Chain'[walk.traversed + 1] = link
    BY ChainFollowed
<1>2. /\ walk.offset \in Nat /\ walk.length \in Nat \ {0} /\ walk.record.size \in Nat /\ walk.offset < walk.record.size
      /\ walk.traversed \in Nat /\ Len(walk.output) \in Nat /\ Len(walk.output) < WantedBy(walk) /\ CopiedOut(walk, Chain)
    BY DEF Reading
<1>3. walk'.traversed \in Nat /\ walk'.traversed - 1 = walk.traversed /\ walk.traversed <= walk'.traversed
    BY <1>2
<1>4. CopiedOut(walk', Chain')
    BY <1>1, <1>2, <1>3, CopiedStays
<1>5. WantedBy(walk') = WantedBy(walk)
    BY DEF WantedBy
<1>6. Reading(walk', Chain', fat')
    <2>1. \A k \in 0..(walk'.traversed - 1) : Chain'[k] \in DOMAIN fat'
        BY <1>1, <1>3
    <2>2. Chain'[walk'.traversed] = walk'.cluster
        BY <1>1
    <2> QED BY <1>2, <1>3, <1>4, <1>5, <2>1, <2>2 DEF Reading
<1> QED BY <1>6, ReadingKeeps

LEMMA SkipReads == ASSUME VolumeInv, ReadInv, SkipCluster PROVE ReadInv'
<1>1. Shaped(walk) /\ walk.at = "skip" /\ walk.result = "none" /\ Reading(walk, Chain, fat) /\ geometry' = geometry
    BY DEF ReadInv, SkipCluster
<1>2. GeometryOK
    BY <1>1, StandsCalled
<1>3. PICK next : /\ NextCluster("error", next)
                  /\ next = IF Traversed > geometry.cluster_count THEN Ended("error")
                            ELSE [walk EXCEPT !.at = IF walk.skip = 1 THEN "data" ELSE "skip",
                                              !.skip = @ - 1, !.traversed = Traversed]
    BY DEF SkipCluster
<1>4. CASE walk' = Ended("error")
    BY <1>1, <1>4, EndedShape, FailureKeeps
<1>5. ASSUME NEW link \in Link(walk.cluster), fat' = Known(fat, walk.cluster, link), walk' = [next EXCEPT !.cluster = link]
      PROVE  ReadInv'
    <2>1. CASE next = Ended("error")
        <3>1. Shaped(walk') /\ walk'.at = "idle" /\ walk'.result = "error"
            BY <1>1, <1>5, <2>1 DEF Shaped, WalkFields, Ended
        <3> QED BY <3>1, FailureKeeps
    <2>2. ASSUME NEW at, at = IF walk.skip = 1 THEN "data" ELSE "skip",
                 next = [walk EXCEPT !.at = at, !.skip = @ - 1, !.traversed = walk.traversed + 1]
          PROVE  ReadInv'
        <3>1. /\ Shaped(walk') /\ walk'.result = "none" /\ walk'.at = at
              /\ walk'.record = walk.record /\ walk'.offset = walk.offset /\ walk'.length = walk.length
              /\ walk'.output = walk.output /\ walk'.traversed = walk.traversed + 1 /\ walk'.cluster = link
              /\ walk'.sector = walk.sector /\ walk'.skip = walk.skip - 1
            BY <1>1, <1>5, <2>2 DEF Shaped, WalkFields
        <3>2. PICK p : p = walk.offset + Len(walk.output)
            OBVIOUS
        <3>3. /\ walk.output = <<>> /\ walk.skip \in Nat \ {0} /\ walk.traversed + walk.skip = p \div ClusterBytes
              /\ walk.sector = (p % ClusterBytes) \div SectorBytes /\ walk.traversed \in Nat
            BY <1>1, <3>2 DEF Reading, StandsAt
        <3>4. p % SectorBytes = Entered(walk')
            <4>1. walk.offset \in Nat /\ p = walk.offset
                BY <1>1, <3>2, <3>3 DEF Reading
            <4> QED BY <3>1, <3>3, <4>1 DEF Entered
        <3>5. StandsAt(walk', p)
            BY <2>2, <3>1, <3>3, <3>4 DEF StandsAt
        <3>6. at \in {"skip", "data", "next"}
            BY <2>2
        <3> QED BY <1>1, <1>2, <1>5, <3>1, <3>2, <3>5, <3>6, LinkKeepsReading
    <2>3. CASE next = [walk EXCEPT !.at = IF walk.skip = 1 THEN "data" ELSE "skip", !.skip = @ - 1, !.traversed = Traversed]
        BY <2>2, <2>3 DEF Traversed
    <2> QED BY <1>3, <2>1, <2>3, Zenon
<1>6. \/ walk' = Ended("error")
      \/ \E link \in Link(walk.cluster) : fat' = Known(fat, walk.cluster, link) /\ walk' = [next EXCEPT !.cluster = link]
    BY <1>3, LinkTaken, Zenon
<1> QED BY <1>4, <1>5, <1>6

LEMMA NextReads == ASSUME VolumeInv, ReadInv, ReadNext PROVE ReadInv'
<1>1. Shaped(walk) /\ walk.at = "next" /\ walk.result = "none" /\ Reading(walk, Chain, fat) /\ geometry' = geometry
    BY DEF ReadInv, ReadNext
<1>2. GeometryOK
    BY <1>1, StandsCalled
<1>3. CASE walk' = Ended("error")
    BY <1>1, <1>3, EndedShape, FailureKeeps
<1>4. ASSUME NEW link \in Link(walk.cluster), fat' = Known(fat, walk.cluster, link),
             walk' = [[walk EXCEPT !.at = "data", !.traversed = walk.traversed + 1] EXCEPT !.cluster = link]
      PROVE  ReadInv'
    <2>1. /\ Shaped(walk') /\ walk'.result = "none" /\ walk'.at = "data"
          /\ walk'.record = walk.record /\ walk'.offset = walk.offset /\ walk'.length = walk.length
          /\ walk'.output = walk.output /\ walk'.traversed = walk.traversed + 1 /\ walk'.cluster = link
          /\ walk'.sector = walk.sector
        BY <1>1, <1>4 DEF Shaped, WalkFields
    <2>2. PICK p : p = walk.offset + Len(walk.output)
        OBVIOUS
    <2>3. /\ walk.output # <<>> /\ walk.traversed + 1 = p \div ClusterBytes
          /\ walk.sector = (p % ClusterBytes) \div SectorBytes /\ p % SectorBytes = 0
        BY <1>1, <2>2 DEF Reading, StandsAt
    <2>4. StandsAt(walk', p)
        BY <2>1, <2>3 DEF StandsAt, Entered
    <2> QED BY <1>1, <1>2, <1>4, <2>1, <2>2, <2>4, LinkKeepsReading
<1>5. CASE NextCluster("error", [walk EXCEPT !.at = "data", !.traversed = Traversed])
    <2>1. PICK next : next = [walk EXCEPT !.at = "data", !.traversed = walk.traversed + 1] /\ NextCluster("error", next)
        BY <1>5 DEF Traversed
    <2>2. \/ walk' = Ended("error")
          \/ \E link \in Link(walk.cluster) : fat' = Known(fat, walk.cluster, link) /\ walk' = [next EXCEPT !.cluster = link]
        BY <2>1, LinkTaken, Zenon
    <2> QED BY <1>3, <1>4, <2>1, <2>2
<1> QED BY <1>3, <1>5 DEF ReadNext, Returns

\* Open either answers at once or starts to follow the chain from the first
\* cluster.
LEMMA OpenReads ==
    ASSUME VolumeInv, ReadInv, NEW first, NEW size \in Sizes, NEW offset \in Offsets, NEW length \in Lengths,
           Open(first, size, offset, length)
    PROVE  ReadInv'
<1>1. /\ Shaped(walk) /\ walk.at = "open" /\ walk.result = "none" /\ Blank(walk) /\ geometry' = geometry
      /\ walk.record.kind \in {"directory", "file"}
    BY DEF ReadInv, Open
<1>2. GeometryOK
    BY <1>1, StandsCalled
<1>3. size \in Nat /\ offset \in Nat /\ length \in Nat
    BY FatAssumption
<1>4. CASE walk' = Ended("error")
    BY <1>1, <1>4, EndedShape, FailureKeeps
<1>5. CASE walk' = Ended("ok")
    BY <1>1, <1>5, EndedShape, BlankKeeps
<1>6. ASSUME offset < size, length # 0, NEW at, at = IF offset < ClusterBytes THEN "data" ELSE "skip",
             NEW skip, NEW sector, skip = offset \div ClusterBytes, sector = (offset % ClusterBytes) \div SectorBytes,
             walk' = [walk EXCEPT !.at = at, !.record.first = first, !.record.size = size,
                                  !.offset = offset, !.length = length, !.cluster = first, !.traversed = 0,
                                  !.skip = skip, !.sector = sector]
      PROVE  ReadInv'
    <2>1. /\ Shaped(walk') /\ walk'.at = at /\ walk'.result = "none" /\ walk'.record.first = first
          /\ walk'.record.size = size /\ walk'.offset = offset /\ walk'.length = length /\ walk'.cluster = first
          /\ walk'.traversed = 0 /\ walk'.skip = skip /\ walk'.sector = sector /\ walk'.output = <<>>
        BY <1>1, <1>6 DEF Shaped, WalkFields, Blank
    <2>2. Chain'[0] = first
        BY <2>1, ChainIsNext, ChainValue
    <2>3. Len(walk'.output) = 0 /\ walk'.offset + Len(walk'.output) = offset
        BY <1>3, <2>1
    <2>4. CopiedOut(walk', Chain')
        BY <2>1, <2>3 DEF CopiedOut
    <2>5. 0 < WantedBy(walk')
        BY <1>3, <1>6, <2>1 DEF WantedBy, SmallerOf
    <2>6. StandsAt(walk', offset)
        <3>1. PICK c \in Nat \ {0} : c = ClusterBytes
            BY <1>2, BytesAssumed
        <3>2. offset < c => offset \div c = 0
            <4>1. offset = 0 * c + offset
                BY <1>3
            <4> QED BY <1>3, <4>1, Division
        <3>3. ~(offset < c) => offset \div c \in Nat \ {0}
            <4>1. PICK x \in Nat, y \in 0..(c - 1) : offset = x * c + y /\ x = offset \div c
                BY <1>3, Remainder
            <4>2. x = 0 => offset = y
                BY <4>1
            <4> QED BY <4>1, <4>2
        <3>4. offset % SectorBytes = Entered(walk')
            BY <2>1 DEF Entered
        <3>5. CASE offset < ClusterBytes
            <4>1. at = "data" /\ 0 = offset \div ClusterBytes
                BY <1>6, <3>1, <3>2, <3>5
            <4> QED BY <1>6, <2>1, <3>4, <4>1 DEF StandsAt
        <3>6. CASE ~(offset < ClusterBytes)
            <4>1. at = "skip" /\ skip \in Nat \ {0} /\ 0 + skip = offset \div ClusterBytes
                BY <1>6, <3>1, <3>3, <3>6
            <4> QED BY <1>6, <2>1, <4>1 DEF StandsAt
        <3> QED BY <3>5, <3>6
    <2>7. Reading(walk', Chain', fat')
        BY <1>3, <1>6, <2>1, <2>2, <2>3, <2>4, <2>5, <2>6 DEF Reading
    <2>8. at \in {"skip", "data", "next"}
        BY <1>6
    <2> QED BY <1>1, <2>1, <2>7, <2>8, ReadingKeeps
<1>7. \/ walk' = Ended("error")
      \/ walk' = Ended("ok")
      \/ /\ offset < size /\ length # 0
         /\ \E at, skip, sector :
               /\ at = IF offset < ClusterBytes THEN "data" ELSE "skip"
               /\ skip = offset \div ClusterBytes /\ sector = (offset % ClusterBytes) \div SectorBytes
               /\ walk' = [walk EXCEPT !.at = at, !.record.first = first, !.record.size = size,
                                  !.offset = offset, !.length = length, !.cluster = first, !.traversed = 0,
                                  !.skip = skip, !.sector = sector]
    <2> DEFINE a == walk.record.kind = "directory" \/ (offset < size /\ length > 0 /\ first < 2)
               b == walk.record.kind = "file" /\ (offset >= size \/ length = 0)
               w == [walk EXCEPT !.at = IF offset < ClusterBytes THEN "data" ELSE "skip",
                                 !.record.first = first, !.record.size = size,
                                 !.offset = offset, !.length = length, !.cluster = first, !.traversed = 0,
                                 !.skip = offset \div ClusterBytes,
                                 !.sector = (offset % ClusterBytes) \div SectorBytes]
    <2>1. \/ walk' = Ended("error") \/ walk' = Ended("ok")
          \/ ~a /\ ~b /\ walk' = w
        BY Zenon DEF Open, Returns
    <2>2. ~a /\ ~b => offset < size /\ length # 0
        BY <1>1, <1>3
    <2>3. PICK at, skip, sector :
              /\ at = IF offset < ClusterBytes THEN "data" ELSE "skip"
              /\ skip = offset \div ClusterBytes /\ sector = (offset % ClusterBytes) \div SectorBytes
        OBVIOUS
    <2>4. w = [walk EXCEPT !.at = at, !.record.first = first, !.record.size = size,
                                  !.offset = offset, !.length = length, !.cluster = first, !.traversed = 0,
                                  !.skip = skip, !.sector = sector]
        BY <2>3, Zenon
    <2>5. \E at_, skip_, sector_ :
              /\ at_ = IF offset < ClusterBytes THEN "data" ELSE "skip"
              /\ skip_ = offset \div ClusterBytes /\ sector_ = (offset % ClusterBytes) \div SectorBytes
              /\ w = [walk EXCEPT !.at = at_, !.record.first = first, !.record.size = size,
                                  !.offset = offset, !.length = length, !.cluster = first, !.traversed = 0,
                                  !.skip = skip_, !.sector = sector_]
        BY <2>3, <2>4, Zenon
    <2>6. CASE walk' = w /\ offset < size /\ length # 0
        BY <2>5, <2>6, Zenon
    <2> HIDE DEF a, b, w
    <2> QED BY <2>1, <2>2, <2>6, Zenon
<1> QED BY <1>4, <1>5, <1>6, <1>7

LEMMA Joined ==
    ASSUME NEW l \in Nat, NEW m \in Nat, NEW s, NEW t, s = [i \in 1..l |-> s[i]], t = [i \in 1..m |-> t[i]]
    PROVE  /\ Len(s) = l /\ Len(s \o t) = l + m /\ DOMAIN (s \o t) = 1..(l + m)
           /\ s \o t = [i \in 1..(l + m) |-> (s \o t)[i]]
           /\ \A i \in 1..l : (s \o t)[i] = s[i]
           /\ \A i \in (l + 1)..(l + m) : (s \o t)[i] = t[i - l]
<1> DEFINE S == {s[i] : i \in 1..l} \cup {t[i] : i \in 1..m}
<1>1. s \in [1..l -> S] /\ t \in [1..m -> S]
    OBVIOUS
<1> HIDE DEF S
<1>2. s \in Seq(S) /\ t \in Seq(S) /\ Len(s) = l /\ Len(t) = m
    BY <1>1
<1>3. /\ s \o t \in Seq(S) /\ Len(s \o t) = l + m
      /\ \A i \in 1..(l + m) : (s \o t)[i] = IF i <= l THEN s[i] ELSE t[i - l]
    BY ONLY <1>2, ConcatProperties
<1>4. DOMAIN (s \o t) = 1..(l + m) /\ s \o t \in [1..(l + m) -> S]
    <2>1. PICK u : u = s \o t /\ u \in Seq(S) /\ Len(u) = l + m
        BY <1>3
    <2>2. DOMAIN u = 1..Len(u) /\ u \in [1..Len(u) -> S]
        <3>1. u \in Seq(S)
            BY <2>1
        <3> QED BY ONLY <3>1, LenProperties
    <2> QED BY <2>1, <2>2
<1> QED BY <1>2, <1>3, <1>4

\* count bytes of a sector, from byte x on.
Slice(sector, x, count) == [i \in 1..count |-> <<sector, x + i - 1>>]

\* output is what w has read and the next count bytes of the file.
Fetched(output, count, w, f) ==
    /\ Len(output) = Len(w.output) + count /\ output # <<>>
    /\ output = [i \in 1..Len(output) |-> BytePlace(f, w.offset + i - 1)]
    /\ \A i \in 1..Len(output) : (w.offset + i - 1) \div ClusterBytes <= w.traversed

\* One sector is copied out: its bytes are the next ones of the file.
LEMMA SectorCopied ==
    ASSUME GeometryOK, NEW w, NEW f, Reading(w, f, fat), w.at = "data",
           NEW count \in Nat \ {0}, Entered(w) + count <= SectorBytes,
           NEW place_, place_ = ClusterLba(w.cluster) + w.sector,
           NEW output, output = w.output \o Slice(place_, Entered(w), count)
    PROVE  Fetched(output, count, w, f)
<1>1. PICK n, b, c, p, l :
          /\ n = geometry.sectors_per_cluster /\ b = SectorBytes /\ c = ClusterBytes
          /\ l = Len(w.output) /\ p = w.offset + Len(w.output)
    OBVIOUS
<1>2. n \in Nat \ {0} /\ b \in Nat \ {0} /\ c \in Nat \ {0} /\ IsTimes(c, n, b)
    BY <1>1, BytesAssumed DEF IsTimes
<1>3. /\ w.offset \in Nat /\ l \in Nat /\ p \in Nat /\ w.traversed \in Nat /\ f[w.traversed] = w.cluster
      /\ w.traversed = p \div c /\ w.sector = (p % c) \div b /\ p % b = Entered(w)
    BY <1>1 DEF Reading, StandsAt
<1>4. /\ w.output = [i \in 1..l |-> BytePlace(f, w.offset + i - 1)]
      /\ \A i \in 1..l : (w.offset + i - 1) \div c <= w.traversed
    BY <1>1 DEF Reading, CopiedOut
<1>5. PICK x : x = Entered(w)
    OBVIOUS
<1> DEFINE e(i) == BytePlace(f, w.offset + i - 1)
           d(i) == <<place_, x + i - 1>>
           new == [i \in 1..count |-> d(i)]
           passed(i) == (w.offset + i - 1) \div c
<1>6. output = w.output \o new
    BY <1>5, Zenon DEF Slice
<1>7. ASSUME NEW i \in 1..l PROVE w.output[i] = e(i)
    <2> HIDE DEF e
    <2>1. w.output = [j \in 1..l |-> e(j)]
        BY <1>4 DEF e
    <2> QED BY <2>1
\* The j-th new byte.
<1>8. ASSUME NEW j \in 1..count
      PROVE  e(l + j) = d(j) /\ (w.offset + (l + j) - 1) \div c = w.traversed
    <2>1. PICK k \in Nat : k = j - 1
        <3>1. j - 1 \in Nat
            OBVIOUS
        <3> QED BY <3>1
    <2>2. w.offset + (l + j) - 1 = p + k /\ p + k \in Nat /\ x + j - 1 = x + k
        <3>1. x \in Nat
            BY <1>2, <1>3, <1>5
        <3>2. PICK o \in Nat : o = w.offset /\ p = o + l
            BY <1>1, <1>3
        <3>3. l \in Nat /\ j \in Nat /\ k = j - 1 /\ k \in Nat
            BY <1>3, <2>1
        <3>4. o + (l + j) - 1 = (o + l) + k /\ (o + l) + k \in Nat /\ x + j - 1 = x + k
            BY ONLY <3>1, <3>2, <3>3
        <3> QED BY <3>2, <3>4
    <2>3. PICK q \in Nat, y \in Nat : q = p + k /\ y = x + k /\ y < b
        <3>1. x \in Nat /\ x + count <= b /\ b \in Nat
            <4>1. x + count <= b
                BY <1>1, <1>5
            <4>2. p % b \in Nat
                BY ONLY <1>2, <1>3
            <4> QED BY <1>2, <1>3, <1>5, <4>1, <4>2
        <3>2. k < count /\ k \in Nat /\ count \in Nat
            BY <2>1
        <3>3. x + k \in Nat /\ x + k < b
            BY ONLY <3>1, <3>2
        <3> QED BY <2>2, <3>3, Zenon
    <2>4. q \div c = p \div c /\ (q % c) \div b = (p % c) \div b /\ q % b = y
        <3>1. PICK t_, s_, r_ : Located(p, t_, s_, r_, b, c)
            BY DEF Located
        <3>2. r_ = x
            BY <1>3, <1>5, <3>1, Zenon DEF Located
        <3>3. IsPast(q, p, k) /\ IsPast(y, r_, k) /\ q \in Nat /\ k \in Nat /\ p \in Nat /\ y < b
            BY <1>3, <2>1, <2>3, <3>2 DEF IsPast
        <3>4. Located(q, t_, s_, y, b, c)
            BY ONLY <1>2, <3>1, <3>3, Places
        <3> QED BY <3>1, <3>4, Zenon DEF Located
    <2>5. BytePlace(f, q) = <<place_, y>>
        BY <1>1, <1>3, <2>4, Zenon DEF BytePlace
    <2>6. w.offset + (l + j) - 1 = q /\ x + j - 1 = y
        BY <2>2, <2>3, Zenon
    <2> QED BY <1>3, <2>4, <2>5, <2>6, Zenon
<1>9. ASSUME NEW j \in 1..count PROVE new[j] = d(j)
    OBVIOUS
<1>10. w.output = [i \in 1..l |-> w.output[i]] /\ new = [i \in 1..count |-> new[i]]
    <2> HIDE DEF d
    <2>1. w.output = [i \in 1..l |-> e(i)]
        BY <1>4
    <2> HIDE DEF e
    <2> QED BY <2>1
<1> HIDE DEF new, d
<1>11. /\ Len(output) = l + count /\ output = [i \in 1..(l + count) |-> output[i]]
       /\ \A i \in 1..l : output[i] = w.output[i]
       /\ \A i \in (l + 1)..(l + count) : output[i] = new[i - l]
    <2>1. l \in Nat /\ count \in Nat
        BY <1>3
    <2>2. PICK s, t : s = w.output /\ t = new /\ s = [i \in 1..l |-> s[i]] /\ t = [i \in 1..count |-> t[i]]
        BY <1>10
    <2>3. /\ Len(s \o t) = l + count /\ s \o t = [i \in 1..(l + count) |-> (s \o t)[i]]
          /\ \A i \in 1..l : (s \o t)[i] = s[i]
          /\ \A i \in (l + 1)..(l + count) : (s \o t)[i] = t[i - l]
        BY ONLY <2>1, <2>2, Joined
    <2> QED BY <1>6, <2>2, <2>3, Zenon
<1>12. ASSUME NEW i \in 1..(l + count) PROVE output[i] = e(i) /\ (w.offset + i - 1) \div c <= w.traversed
    <2>1. CASE i \in 1..l
        BY <1>4, <1>7, <1>11, <2>1
    <2>2. CASE i \in (l + 1)..(l + count)
        <3>1. PICK j \in 1..count : i = l + j /\ i - l = j
            <4>0. l \in Nat
                BY <1>3
            <4>1. i - l \in 1..count /\ i = l + (i - l)
                BY ONLY <4>0, <2>2, count \in Nat
            <4> QED BY <4>1
        <3>2. output[i] = d(j)
            BY <1>9, <1>11, <2>2, <3>1
        <3>3. e(l + j) = d(j) /\ passed(l + j) = w.traversed
            BY <1>8
        <3>4. e(i) = d(j) /\ passed(i) = w.traversed
            <4> HIDE DEF e, passed
            <4> QED BY <3>1, <3>3
        <3>5. passed(i) <= w.traversed
            <4> HIDE DEF passed
            <4> QED BY <1>3, <3>4
        <3> QED BY <3>2, <3>4, <3>5, Zenon
    <2>3. i \in 1..l \/ i \in (l + 1)..(l + count)
        <3>1. l \in Nat
            BY <1>3
        <3> QED BY ONLY <3>1, <1>12, count \in Nat
    <2> QED BY <2>1, <2>2, <2>3
<1>13. output = [i \in 1..(l + count) |-> e(i)]
    <2> HIDE DEF e
    <2> QED BY <1>11, <1>12
<1>14. output # <<>>
    <2>1. Len(output) # 0
        <3>1. Len(output) = l + count /\ l \in Nat /\ count \in Nat \ {0}
            BY <1>3, <1>11, Zenon
        <3> QED BY ONLY <3>1
    <2> QED BY ONLY <2>1
<1> QED BY <1>1, <1>11, <1>12, <1>13, <1>14 DEF Fetched

\* Neither the file nor what is known of the FAT changes.
LEMMA ChainSame ==
    ASSUME walk'.record.first = walk.record.first, fat' = fat
    PROVE  Chain' = Chain
<1>1. Chain = CHOOSE f : IsChain(f, walk.record.first, fat)
    BY DEF Chain, IsChain, After
<1>2. Chain' = CHOOSE f : IsChain(f, walk'.record.first, fat')
    BY DEF Chain, IsChain, After
<1> QED BY <1>1, <1>2, Zenon

\* Where the walk stands after a sector that was read to its end.
LEMMA NextSector ==
    ASSUME GeometryOK, NEW w, NEW p \in Nat, NEW count \in Nat, NEW q \in Nat, q = p + count,
           w.at = "data", StandsAt(w, p), Entered(w) + count = SectorBytes, w.traversed \in Nat,
           NEW z, z.output # <<>>, z.traversed = w.traversed,
           z.sector = IF w.sector + 1 = geometry.sectors_per_cluster THEN 0 ELSE w.sector + 1,
           z.at = IF w.sector + 1 = geometry.sectors_per_cluster THEN "next" ELSE "data"
    PROVE  StandsAt(z, q)
<1>1. PICK n, b, c, t, s, r : /\ n = geometry.sectors_per_cluster /\ b = SectorBytes /\ c = ClusterBytes
                              /\ t = p \div c /\ s = (p % c) \div b /\ r = p % b
    OBVIOUS
<1>2. n \in Nat \ {0} /\ b \in Nat \ {0} /\ c \in Nat \ {0} /\ IsTimes(c, n, b)
    BY <1>1, BytesAssumed DEF IsTimes
<1>3. w.traversed = t /\ w.sector = s /\ r = Entered(w)
    BY <1>1, Zenon DEF StandsAt
<1>4. Located(p, t, s, r, b, c) /\ IsPast(q, p, count) /\ IsPast(b, r, count)
    <2>1. Located(p, t, s, r, b, c)
        BY <1>1, Zenon DEF Located
    <2>2. r + count = b
        BY <1>1, <1>3, Zenon
    <2> QED BY <2>1, <2>2, Zenon DEF IsPast
<1>5. p \in Nat /\ count \in Nat /\ q \in Nat
    OBVIOUS
<1>a. t \in Nat /\ s \in Nat /\ r \in Nat /\ s < n
    BY ONLY <1>2, <1>4, <1>5, Places
<1>6. CASE w.sector + 1 = geometry.sectors_per_cluster
    <2>1. PICK v : v = t + 1
        OBVIOUS
    <2>2. IsPast(n, s, 1) /\ IsPast(v, t, 1)
        BY <1>1, <1>3, <1>6, <2>1, Zenon DEF IsPast
    <2>3. Located(q, v, 0, 0, b, c)
        BY ONLY <1>2, <1>4, <1>5, <2>2, Places
    <2>4. z.traversed + 1 = q \div ClusterBytes /\ 0 = (q % ClusterBytes) \div SectorBytes /\ q % SectorBytes = 0
        BY <1>1, <1>3, <2>1, <2>3, Zenon DEF Located
    <2> QED BY <1>6, <2>4, Zenon DEF StandsAt
<1>7. CASE w.sector + 1 # geometry.sectors_per_cluster
    <2>1. PICK u : u = s + 1
        OBVIOUS
    <2>2. IsPast(u, s, 1) /\ u < n
        <3>1. u # n
            BY <1>1, <1>3, <1>7, <2>1, Zenon
        <3>2. u < n
            BY ONLY <1>2, <1>a, <2>1, <3>1
        <3> QED BY <2>1, <3>2, Zenon DEF IsPast
    <2>3. Located(q, t, u, 0, b, c)
        BY ONLY <1>2, <1>4, <1>5, <2>2, Places
    <2>4. z.traversed = q \div ClusterBytes /\ u = (q % ClusterBytes) \div SectorBytes /\ q % SectorBytes = 0
        BY <1>1, <1>3, <2>3, Zenon DEF Located
    <2>5. z.sector = u /\ z.at = "data" /\ Entered(z) = 0
        BY <1>3, <1>7, <2>1, Zenon DEF Entered
    <2> QED BY <2>4, <2>5, Zenon DEF StandsAt
<1> QED BY <1>6, <1>7

LEMMA ReadSectorReads == ASSUME VolumeInv, ReadInv, ReadSector PROVE ReadInv'
<1>1. /\ Shaped(walk) /\ walk.at = "data" /\ walk.result = "none" /\ Reading(walk, Chain, fat)
      /\ geometry' = geometry /\ fat' = fat
    BY DEF ReadInv, ReadSector
<1>2. GeometryOK
    BY <1>1, StandsCalled
<1>3. CASE walk' = Ended("error")
    BY <1>1, <1>3, EndedShape, FailureKeeps
<1> DEFINE Last == walk.sector + 1 = geometry.sectors_per_cluster
           Count == SmallerOf(SectorBytes - SectorOffset, Wanted - Len(walk.output))
           Place == ClusterLba(walk.cluster) + walk.sector
           Output == walk.output \o Slice(Place, SectorOffset, Count)
           Sector == IF Last THEN 0 ELSE walk.sector + 1
           At == CASE Len(Output) = Wanted -> "idle" [] Last /\ Len(Output) # Wanted -> "next" [] OTHER -> "data"
           Result == IF Len(Output) = Wanted THEN "ok" ELSE walk.result
<1>a. walk' = Ended("error") \/ walk' = [walk EXCEPT !.output = Output, !.sector = Sector, !.at = At, !.result = Result]
    BY Zenon DEF ReadSector, Returns, Slice
<1>b. PICK wanted, l, x, count, place_, output :
          /\ wanted = Wanted /\ l = Len(walk.output) /\ x = SectorOffset /\ count = Count
          /\ place_ = Place /\ output = Output
    BY Zenon
<1>c. PICK at, result, sector : at = At /\ result = Result /\ sector = Sector
    BY Zenon
<1>4. wanted = Wanted /\ l = Len(walk.output) /\ x = SectorOffset
    BY <1>b, Zenon
<1>d. /\ count = SmallerOf(SectorBytes - x, wanted - l) /\ place_ = ClusterLba(walk.cluster) + walk.sector
      /\ output = walk.output \o Slice(place_, x, count)
    BY <1>b, Zenon
<1>e. /\ Len(output) = wanted => at = "idle" /\ result = "ok"
      /\ Len(output) # wanted => result = walk.result /\ at = IF Last THEN "next" ELSE "data"
      /\ sector = IF Last THEN 0 ELSE walk.sector + 1
    <2> HIDE DEF Last, Output
    <2>1. /\ Len(output) = wanted => At = "idle" /\ Result = "ok"
          /\ Len(output) # wanted => Result = walk.result /\ At = IF Last THEN "next" ELSE "data"
        BY <1>b
    <2> QED BY <1>c, <2>1, Zenon
<1>f. walk' = Ended("error") \/ walk' = [walk EXCEPT !.output = output, !.sector = sector, !.at = at, !.result = result]
    BY <1>a, <1>b, <1>c, Zenon
<1> HIDE DEF Count, Place, Output, Sector, At, Result
<1>5. /\ walk.offset \in Nat /\ walk.length \in Nat \ {0} /\ walk.record.size \in Nat /\ walk.offset < walk.record.size
      /\ walk.traversed \in Nat /\ l \in Nat /\ l < wanted /\ wanted = WantedBy(walk) /\ x = Entered(walk)
    BY <1>1, <1>4 DEF Reading, Wanted, WantedBy, SectorOffset, Entered
<1>6. wanted \in Nat
    BY <1>5 DEF WantedBy, SmallerOf
<1>7. x \in Nat /\ x < SectorBytes /\ SectorBytes \in Nat
    <2>1. PICK p \in Nat, b \in Nat \ {0} : b = SectorBytes /\ p = walk.offset + l
        BY <1>2, <1>5, BytesAssumed
    <2>2. x = p % b
        BY <1>1, <1>4, <1>5, <2>1 DEF Reading, StandsAt
    <2> QED BY ONLY <2>1, <2>2, p \in Nat, b \in Nat \ {0}
<1>8. /\ count \in Nat \ {0} /\ x + count <= SectorBytes /\ l + count <= wanted
      /\ l + count # wanted => x + count = SectorBytes
    <2>1. count = SmallerOf(SectorBytes - x, wanted - l)
        BY <1>d, Zenon
    <2> QED BY <1>5, <1>6, <1>7, <2>1 DEF SmallerOf
<1>9. /\ Len(output) = l + count /\ output # <<>>
      /\ output = [i \in 1..Len(output) |-> BytePlace(Chain, walk.offset + i - 1)]
      /\ \A i \in 1..Len(output) : (walk.offset + i - 1) \div ClusterBytes <= walk.traversed
    <2>1. Entered(walk) + count <= SectorBytes
        BY <1>5, <1>8
    <2>2. /\ output = walk.output \o Slice(place_, Entered(walk), count)
          /\ place_ = ClusterLba(walk.cluster) + walk.sector /\ count \in Nat \ {0}
        BY <1>5, <1>8, <1>d, Zenon
    <2>3. Fetched(output, count, walk, Chain)
        BY <1>1, <1>2, <2>1, <2>2, SectorCopied
    <2> QED BY <1>4, <2>3, Zenon DEF Fetched
<1>10. ASSUME walk' = [walk EXCEPT !.output = output, !.sector = sector, !.at = at, !.result = result]
       PROVE  ReadInv'
    <2>1. /\ Shaped(walk') /\ walk'.output = output /\ walk'.sector = sector /\ walk'.at = at /\ walk'.result = result
          /\ walk'.record = walk.record /\ walk'.offset = walk.offset /\ walk'.length = walk.length
          /\ walk'.traversed = walk.traversed /\ walk'.cluster = walk.cluster /\ walk'.op = walk.op
        BY ONLY <1>1, <1>10 DEF Shaped, WalkFields
    <2>2. Chain' = Chain
        BY <1>1, <2>1, ChainSame
    <2>3. CASE Len(output) = wanted
        <3>1. walk'.at = "idle"
            BY <1>e, <2>1, <2>3, Zenon
        <3>2. Wanted' = wanted
            BY <1>4, <2>1, Zenon DEF Wanted
        <3>3. \A i : ByteAt(walk.offset + i - 1)' = BytePlace(Chain, walk.offset + i - 1)
            BY <1>1, <2>1, <2>2, Zenon DEF ByteAt, BytePlace, ClusterLba, ClusterBytes
        <3>4. ReadFollowsChain'
            <4> DEFINE e(i) == ByteAt(walk.offset + i - 1)
                       g(i) == BytePlace(Chain, walk.offset + i - 1)
            <4>1. \A i : e(i)' = g(i)
                BY <3>3
            <4>2. output = [i \in 1..wanted |-> g(i)]
                BY <1>9, <2>3, Zenon
            <4>3. output = [i \in 1..wanted |-> e(i)']
                <5> HIDE DEF e, g
                <5> QED BY <4>1, <4>2
            <4>4. walk'.output = [i \in 1..Wanted |-> e(i)]'
                BY <2>1, <3>2, <4>3, Zenon
            <4> QED BY <4>4, Zenon DEF ReadFollowsChain
        <3> QED BY <2>1, <3>1, <3>4 DEF ReadInv
    <2>4. CASE Len(output) # wanted
        <3>1. walk'.result = "none" /\ walk'.at = (IF Last THEN "next" ELSE "data")
              /\ walk'.sector = IF Last THEN 0 ELSE walk.sector + 1
            <4> HIDE DEF Last
            <4> QED BY <1>1, <1>e, <2>1, <2>4
        <3>2. x + count = SectorBytes /\ l + count < wanted
            <4>1. l + count # wanted
                BY <1>9, <2>4, Zenon
            <4>2. l \in Nat
                BY <1>5
            <4> QED BY ONLY <1>6, <1>8, <4>1, <4>2
        <3>3. PICK p \in Nat, q \in Nat : p = walk.offset + l /\ q = p + count /\ q = walk.offset + Len(output)
            <4>1. Len(output) = l + count /\ l \in Nat /\ walk.offset \in Nat
                BY <1>5, <1>9, Zenon
            <4>2. PICK o \in Nat, k \in Nat : o = walk.offset /\ k = Len(output) /\ k = l + count
                BY <1>8, <4>1
            <4>3. o + l \in Nat /\ (o + l) + count \in Nat /\ (o + l) + count = o + k
                BY ONLY <1>8, <4>1, <4>2
            <4> QED BY <4>2, <4>3, Zenon
        <3>4. StandsAt(walk, p)
            BY <1>1, <1>4, <3>3, Zenon DEF Reading
        <3>5. StandsAt(walk', q)
            <4>1. Entered(walk) + count = SectorBytes /\ count \in Nat /\ q = p + count /\ walk'.output # <<>>
                BY <1>5, <1>8, <1>9, <2>1, <3>2, <3>3
            <4> QED BY <1>1, <1>2, <1>5, <2>1, <3>1, <3>4, <4>1, NextSector
        <3>6. CopiedOut(walk', Chain)
            BY <1>9, <2>1, Zenon DEF CopiedOut
        <3>7. WantedBy(walk') = wanted
            BY <1>5, <2>1 DEF WantedBy
        <3>8. Len(walk'.output) = l + count /\ l + count \in Nat /\ walk'.offset + Len(walk'.output) = q
            BY <1>5, <1>8, <1>9, <2>1, <3>3
        <3>9. /\ Chain[walk'.traversed] = walk'.cluster
              /\ \A k \in 0..(walk'.traversed - 1) : Chain[k] \in DOMAIN fat
            BY <1>1, <2>1, Zenon DEF Reading
        <3>10. Reading(walk', Chain', fat')
            BY <1>1, <1>5, <2>1, <2>2, <3>2, <3>5, <3>6, <3>7, <3>8, <3>9, Zenon DEF Reading
        <3>11. walk'.at \in {"skip", "data", "next"}
            BY <3>1
        <3> QED BY <1>1, <2>1, <3>1, <3>10, <3>11, ReadingKeeps
    <2> QED BY <2>3, <2>4
<1> QED BY <1>3, <1>10, <1>f

LEMMA ReadStep == ASSUME VolumeInv, ReadInv, [FatNext]_fatVars PROVE ReadInv'
<1>1. CASE Mount \/ (\E op \in {"stat", "readdir", "read"}, n \in 0..MaxComponents : Begin(op, n))
           \/ RefuseComponent \/ ReadFails
    BY <1>1, CallBegins
<1>2. CASE ScanSector
    BY <1>2, ScanReads
<1>3. CASE ScanLink
    BY <1>3, ScanLinkReads
<1>4. ASSUME NEW first, NEW size \in Sizes, NEW offset \in Offsets, NEW length \in Lengths,
             Open(first, size, offset, length)
      PROVE  ReadInv'
    BY <1>4, OpenReads
<1>5. CASE SkipCluster
    BY <1>5, SkipReads
<1>6. CASE ReadSector
    BY <1>6, ReadSectorReads
<1>7. CASE ReadNext
    BY <1>7, NextReads
<1>8. CASE UNCHANGED fatVars
    <2>1. walk' = walk /\ fat' = fat /\ geometry' = geometry
        BY <1>8 DEF fatVars
    <2>2. Chain' = Chain
        BY <2>1, ChainSame
    <2> QED BY <2>1, <2>2, Zenon DEF ReadInv, Shaped, Blank, Reading, CopiedOut, StandsAt, WantedBy, Entered, BytePlace,
                ClusterLba, ClusterBytes, ReadFollowsChain, Wanted, ByteAt
<1> QED BY <1>1, <1>2, <1>3, <1>4, <1>5, <1>6, <1>7, <1>8, Zenon DEF FatNext, FatWalks

\* A read that succeeds returns the bytes of the file from its offset on, in
\* order and no others (read_file's loop over sectors and clusters), for every
\* disk, every geometry that mount accepts and every file, offset and length.
THEOREM ReadsFollowChain == FatSpec => []ReadFollowsChain
<1>1. FatInit => VolumeInv /\ ReadInv
    BY VolumeInit, ReadInit
<1>2. VolumeInv /\ ReadInv /\ [FatNext]_fatVars => VolumeInv' /\ ReadInv'
    BY VolumeStep, ReadStep
<1>3. ReadInv => ReadFollowsChain
    BY Zenon DEF ReadInv
<1> QED BY <1>1, <1>2, <1>3, PTL DEF FatSpec

-----------------------------------------------------------------------------
(* The virtio queue.                                                       *)

Succ(x) == (x + 1) % IndexLimit
Indexes == 0..IndexLimit - 1

LEMMA SuccMoves == ASSUME NEW x \in Indexes PROVE Succ(x) \in Indexes /\ Succ(x) # x
<1>1. IndexLimit \in Nat \ {0, 1}
    BY VirtioAssumption
<1>2. CASE x + 1 = IndexLimit
    <2>1. Succ(x) = 0
        BY <1>1, <1>2 DEF Succ
    <2> QED BY <1>1, <1>2, <2>1 DEF Indexes
<1>3. CASE x + 1 < IndexLimit
    <2>1. Succ(x) = x + 1
        BY <1>1, <1>3 DEF Succ, Indexes
    <2> QED BY <1>1, <1>3, <2>1 DEF Indexes
<1> QED BY <1>1, <1>2, <1>3 DEF Indexes

\* The sector that the call works on.
Asked == IF call.op = "flush" THEN 0 ELSE call.lba + call.done

\* One chain at a time: the four indices agree between calls; while a call
\* waits, the chain is published, taken or answered; a dead device has left
\* the used index alone.
Fields ==
    /\ blk = [stage |-> blk.stage, read_only |-> blk.read_only, supports_flush |-> blk.supports_flush,
              available_index |-> blk.available_index, last_used_index |-> blk.last_used_index]
    /\ memory = [header |-> memory.header, data |-> memory.data, status |-> memory.status,
                 available |-> memory.available, used |-> memory.used, id |-> memory.id]
    /\ disk = [media |-> disk.media, job |-> disk.job, taken |-> disk.taken, dead |-> disk.dead]
    /\ call = [op |-> call.op, lba |-> call.lba, bytes |-> call.bytes, value |-> call.value,
               done |-> call.done, output |-> call.output]
    /\ place \in {"idle", "prepare", "publish", "wait"}
    /\ blk.last_used_index \in Indexes
    /\ call.lba \in Nat /\ call.done \in Nat
    /\ disk.dead \in BOOLEAN

InCall == place # "idle" => call.op \in {"read", "write", "flush"} /\ answer = "none"

Quiet == ~disk.dead /\ place # "wait" =>
    /\ disk.job = NoJob
    /\ memory.available = blk.last_used_index /\ memory.used = blk.last_used_index /\ disk.taken = blk.last_used_index

Header == ~disk.dead /\ place \in {"publish", "wait"} =>
    memory.header = [op |-> call.op, sector |-> Asked, value |-> 0]

Offered ==
    disk.job = NoJob /\ disk.taken = blk.last_used_index /\ memory.used = blk.last_used_index
Taken ==
    /\ disk.job.op = call.op /\ disk.job.sector = Asked
    /\ disk.taken = Succ(blk.last_used_index) /\ memory.used = blk.last_used_index
Answered ==
    /\ disk.job = NoJob /\ disk.taken = Succ(blk.last_used_index) /\ memory.used = Succ(blk.last_used_index)
    /\ call.op = "read" /\ memory.status = "ok" => memory.data = disk.media[Asked]

Waiting == ~disk.dead /\ place = "wait" =>
    /\ memory.available = Succ(blk.last_used_index)
    /\ Offered \/ Taken \/ Answered

Silent == disk.dead => memory.used = blk.last_used_index /\ answer # "ok"

Copied == call.op = "read" =>
    /\ call.output = [i \in 1..call.done |-> disk.media[call.lba + i - 1]]
    /\ answer = "ok" => call.done = SectorCount(call.bytes)

QueueInv == Fields /\ InCall /\ Quiet /\ Header /\ Waiting /\ Silent /\ Copied

LEMMA QueueSound == ASSUME QueueInv PROVE AnswersTrue
<1>1. ReadsCurrent
    BY DEF QueueInv, Copied, ReadsCurrent
<1>2. ASSUME place = "wait", ~Used, ~disk.dead
      PROVE  disk.job # NoJob \/ disk.taken # memory.available
    <2>1. blk.last_used_index \in Indexes /\ memory.available = Succ(blk.last_used_index)
            /\ (Offered \/ Taken \/ Answered)
        BY <1>2 DEF QueueInv, Fields, Waiting
    <2>2. CASE Offered
        BY <2>1, <2>2, SuccMoves DEF Offered
    <2>3. CASE Taken
        BY <1>2, <2>3 DEF Taken, NoJob, QueueInv, InCall
    <2>4. CASE Answered
        BY <1>2, <2>4 DEF Answered, Used, Expected, Succ
    <2> QED BY <2>1, <2>2, <2>3, <2>4
<1> QED BY <1>1, <1>2 DEF AnswersTrue, BusyMeansOwed

LEMMA QueueInit == ASSUME VirtioInit PROVE QueueInv
<1>1. /\ blk.last_used_index = 0 /\ memory.available = 0 /\ memory.used = 0 /\ disk.taken = 0 /\ disk.job = NoJob
      /\ disk.dead = FALSE /\ place = "idle" /\ call.op = "none" /\ call.lba = 0 /\ call.done = 0
    BY DEF VirtioInit, NoCall
<1>2. /\ blk = [stage |-> blk.stage, read_only |-> blk.read_only, supports_flush |-> blk.supports_flush,
              available_index |-> blk.available_index, last_used_index |-> blk.last_used_index]
      /\ memory = [header |-> memory.header, data |-> memory.data, status |-> memory.status,
                 available |-> memory.available, used |-> memory.used, id |-> memory.id]
      /\ disk = [media |-> disk.media, job |-> disk.job, taken |-> disk.taken, dead |-> disk.dead]
      /\ call = [op |-> call.op, lba |-> call.lba, bytes |-> call.bytes, value |-> call.value,
               done |-> call.done, output |-> call.output]
    BY DEF VirtioInit, NoCall
<1>3. 0 \in Indexes
    BY VirtioAssumption DEF Indexes
<1>4. Fields
    <2>1. call.lba \in Nat /\ call.done \in Nat /\ blk.last_used_index \in Indexes
        BY <1>1, <1>3
    <2>2. disk.dead \in BOOLEAN
        BY <1>1, Zenon
    <2>3. place \in {"idle", "prepare", "publish", "wait"}
        BY <1>1
    <2> QED BY ONLY <1>2, <2>1, <2>2, <2>3, Zenon DEF Fields
<1> QED BY <1>1, <1>4 DEF QueueInv, InCall, Quiet, Header, Waiting, Silent, Copied

\* Where the call and the queue are as they were.
LEMMA InitDeviceKeeps ==
    ASSUME QueueInv, NEW accepted, NEW size, NEW ro, NEW flush, InitDevice(accepted, size, ro, flush)
    PROVE  QueueInv'
<1>1. UNCHANGED <<memory, disk, place, call, answer>>
    BY DEF InitDevice
<1>2. /\ blk' = [stage |-> blk'.stage, read_only |-> blk'.read_only, supports_flush |-> blk'.supports_flush,
              available_index |-> blk'.available_index, last_used_index |-> blk'.last_used_index]
      /\ blk'.last_used_index = blk.last_used_index
    <2>1. Fields
        BY DEF QueueInv
    <2>2. PICK stage, r, f : \/ blk' = [blk EXCEPT !.stage = stage, !.read_only = r, !.supports_flush = f]
                             \/ blk' = [blk EXCEPT !.stage = stage]
        BY Zenon DEF InitDevice
    <2>3. PICK b : blk = b /\ b = [stage |-> b.stage, read_only |-> b.read_only, supports_flush |-> b.supports_flush,
              available_index |-> b.available_index, last_used_index |-> b.last_used_index]
        BY <2>1 DEF Fields
    <2> QED BY <2>2, <2>3
<1> QED BY <1>1, <1>2 DEF QueueInv, Fields, InCall, Quiet, Header, Waiting, Silent, Copied, Offered, Taken,
                          Answered, Asked

LEMMA IssueKeeps ==
    ASSUME QueueInv, NEW op \in {"read", "write", "flush"}, NEW lba_ \in Nat, NEW bytes, NEW value,
           Call(op, lba_, bytes, value)
    PROVE  QueueInv'
<1>1. place = "idle" /\ blk' = blk /\ memory' = memory /\ disk' = disk
    BY DEF Call
<1>2. Refusal(op, lba_, bytes) # "ok" => answer' = Refusal(op, lba_, bytes) /\ place' = "idle" /\ call' = NoCall
    BY DEF Call
<1>3. Refusal(op, lba_, bytes) = "ok" =>
          place' = "prepare" /\ call' = [NoCall EXCEPT !.op = op, !.lba = lba_, !.bytes = bytes, !.value = value]
            /\ answer' = "none"
    BY DEF Call
<1>4. /\ call' = [op |-> call'.op, lba |-> call'.lba, bytes |-> call'.bytes, value |-> call'.value,
               done |-> call'.done, output |-> call'.output]
      /\ call'.lba \in Nat /\ call'.done = 0 /\ call'.output = <<>>
      /\ call'.op \in {"none", op} /\ (place' # "idle" => call'.op = op /\ answer' = "none")
      /\ place' \in {"idle", "prepare"} /\ answer' # "ok"
    <2>1. CASE Refusal(op, lba_, bytes) = "ok"
        <3>1. call' = [op |-> op, lba |-> lba_, bytes |-> bytes, value |-> value, done |-> 0, output |-> <<>>]
            BY <1>3, <2>1 DEF NoCall
        <3> QED BY <1>3, <2>1, <3>1
    <2>2. CASE Refusal(op, lba_, bytes) # "ok"
        <3>1. call' = [op |-> "none", lba |-> 0, bytes |-> 0, value |-> 0, done |-> 0, output |-> <<>>]
            BY <1>2, <2>2 DEF NoCall
        <3> QED BY <1>2, <2>2, <3>1
    <2> QED BY <2>1, <2>2
<1>5. Fields' /\ InCall'
    <2>1. Fields
        BY DEF QueueInv
    <2>2. call'.done \in Nat /\ place' \in {"idle", "prepare", "publish", "wait"}
        BY <1>4
    <2>3. Fields'
        BY <1>1, <1>4, <2>1, <2>2 DEF Fields
    <2> QED BY <1>4, <2>3 DEF InCall
<1>6. Quiet' /\ Header' /\ Waiting' /\ Silent'
    BY <1>1, <1>4 DEF QueueInv, Quiet, Header, Waiting, Silent
<1>7. Copied'
    <2>1. <<>> = [i \in 1..0 |-> disk'.media[call'.lba + i - 1]]
        OBVIOUS
    <2> QED BY <1>4, <2>1 DEF Copied
<1> QED BY <1>5, <1>6, <1>7 DEF QueueInv

LEMMA PrepareKeeps == ASSUME QueueInv, Prepare PROVE QueueInv'
<1>1. place = "prepare" /\ place' = "publish" /\ blk' = blk /\ disk' = disk /\ call' = call /\ answer' = answer
    BY DEF Prepare
<1>2. PICK data : memory' = [memory EXCEPT
           !.header = [op |-> call.op, sector |-> IF call.op = "flush" THEN 0 ELSE call.lba + call.done,
                       value |-> 0],
           !.data = data,
           !.status = "unset"]
    BY Zenon DEF Prepare
<1>3. /\ memory' = [header |-> memory'.header, data |-> memory'.data, status |-> memory'.status,
                 available |-> memory'.available, used |-> memory'.used, id |-> memory'.id]
      /\ memory'.available = memory.available /\ memory'.used = memory.used
      /\ memory'.header = [op |-> call.op, sector |-> Asked, value |-> 0]
    <2>1. memory = [header |-> memory.header, data |-> memory.data, status |-> memory.status,
                 available |-> memory.available, used |-> memory.used, id |-> memory.id]
        BY DEF QueueInv, Fields
    <2> QED BY ONLY <1>2, <2>1 DEF Asked
<1>4. Fields'
    BY <1>1, <1>3 DEF QueueInv, Fields
<1>5. InCall' /\ Quiet' /\ Header' /\ Waiting' /\ Silent'
    BY <1>1, <1>3 DEF QueueInv, InCall, Quiet, Header, Waiting, Silent, Asked
<1>6. Copied'
    BY <1>1 DEF QueueInv, Copied
<1> QED BY <1>4, <1>5, <1>6 DEF QueueInv

LEMMA PublishKeeps == ASSUME QueueInv, Publish PROVE QueueInv'
<1>1. /\ place = "publish" /\ place' = "wait" /\ disk' = disk /\ call' = call /\ answer' = answer
      /\ blk' = [blk EXCEPT !.available_index = (@ + 1) % IndexLimit]
      /\ memory' = [memory EXCEPT !.available = (@ + 1) % IndexLimit]
    BY DEF Publish
<1>2. /\ blk' = [stage |-> blk'.stage, read_only |-> blk'.read_only, supports_flush |-> blk'.supports_flush,
              available_index |-> blk'.available_index, last_used_index |-> blk'.last_used_index]
      /\ blk'.last_used_index = blk.last_used_index
    <2>1. blk = [stage |-> blk.stage, read_only |-> blk.read_only, supports_flush |-> blk.supports_flush,
              available_index |-> blk.available_index, last_used_index |-> blk.last_used_index]
        BY DEF QueueInv, Fields
    <2> QED BY ONLY <1>1, <2>1
<1>3. /\ memory' = [header |-> memory'.header, data |-> memory'.data, status |-> memory'.status,
                 available |-> memory'.available, used |-> memory'.used, id |-> memory'.id]
      /\ memory'.available = Succ(memory.available) /\ memory'.used = memory.used /\ memory'.header = memory.header
    <2>1. memory = [header |-> memory.header, data |-> memory.data, status |-> memory.status,
                 available |-> memory.available, used |-> memory.used, id |-> memory.id]
        BY DEF QueueInv, Fields
    <2> QED BY ONLY <1>1, <2>1 DEF Succ
<1>4. Fields'
    BY <1>1, <1>2, <1>3 DEF QueueInv, Fields
<1>5. InCall' /\ Quiet' /\ Header' /\ Silent'
    BY <1>1, <1>2, <1>3 DEF QueueInv, InCall, Quiet, Header, Silent, Asked
<1>6. Waiting'
    BY <1>1, <1>2, <1>3 DEF QueueInv, Quiet, Waiting, Offered
<1>7. Copied'
    BY <1>1 DEF QueueInv, Copied
<1> QED BY <1>4, <1>5, <1>6, <1>7 DEF QueueInv

LEMMA TimeoutKeeps == ASSUME QueueInv, TimesOutBusy, ~LateAnswers PROVE QueueInv'
<1>1. place = "wait" /\ ~Used /\ place' = "idle" /\ answer' = "Busy" /\ call' = NoCall /\ blk' = blk /\ memory' = memory
    BY DEF TimesOutBusy
<1>2. disk' = [media |-> disk'.media, job |-> disk'.job, taken |-> disk'.taken, dead |-> disk'.dead] /\ disk'.dead = TRUE
    <2>1. (~LateAnswers) = TRUE
        BY Zenon
    <2>2. disk' = [disk EXCEPT !.dead = TRUE]
        BY <2>1, Zenon DEF TimesOutBusy
    <2>3. disk = [media |-> disk.media, job |-> disk.job, taken |-> disk.taken, dead |-> disk.dead]
        BY DEF QueueInv, Fields
    <2> QED BY ONLY <2>2, <2>3
<1>3. /\ call' = [op |-> call'.op, lba |-> call'.lba, bytes |-> call'.bytes, value |-> call'.value,
               done |-> call'.done, output |-> call'.output]
      /\ call'.lba = 0 /\ call'.done = 0 /\ call'.op = "none"
    BY ONLY <1>1 DEF NoCall
<1>4. Fields'
    <2>1. call'.lba \in Nat /\ call'.done \in Nat
        BY ONLY <1>3
    <2>2. disk'.dead \in BOOLEAN
        BY <1>2, Zenon
    <2>3. place' \in {"idle", "prepare", "publish", "wait"}
        BY ONLY <1>1
    <2>4. Fields
        BY DEF QueueInv
    <2> QED BY ONLY <1>1, <1>2, <1>3, <2>1, <2>2, <2>3, <2>4, Zenon DEF Fields
<1>5. memory.used = blk.last_used_index
    <2>1. CASE disk.dead
        BY <2>1 DEF QueueInv, Silent
    <2>2. CASE ~disk.dead
        BY <1>1, <2>2 DEF QueueInv, Waiting, Offered, Taken, Answered, Used, Expected, Succ
    <2> QED BY <2>1, <2>2
<1> QED BY <1>1, <1>2, <1>3, <1>4, <1>5 DEF QueueInv, InCall, Quiet, Header, Waiting, Silent, Copied

LEMMA CompleteKeeps == ASSUME QueueInv, Complete PROVE QueueInv'
<1> DEFINE o == IF call.op = "read" THEN Append(call.output, memory.data) ELSE call.output
           c == [call EXCEPT !.done = @ + 1, !.output = o]
<1>1. /\ place = "wait" /\ Used /\ memory' = memory /\ disk' = disk
      /\ blk' = [blk EXCEPT !.last_used_index = Expected]
    BY DEF Complete, CountsUsed
<1>2. /\ blk' = [stage |-> blk'.stage, read_only |-> blk'.read_only, supports_flush |-> blk'.supports_flush,
              available_index |-> blk'.available_index, last_used_index |-> blk'.last_used_index]
      /\ blk'.last_used_index = Succ(blk.last_used_index)
    <2>1. blk = [stage |-> blk.stage, read_only |-> blk.read_only, supports_flush |-> blk.supports_flush,
              available_index |-> blk.available_index, last_used_index |-> blk.last_used_index]
        BY DEF QueueInv, Fields
    <2> QED BY ONLY <1>1, <2>1 DEF Expected, Succ
<1>3. blk.last_used_index \in Indexes /\ Succ(blk.last_used_index) \in Indexes
        /\ Succ(blk.last_used_index) # blk.last_used_index
    BY SuccMoves DEF QueueInv, Fields
<1>4. ~disk.dead
    BY <1>1, <1>3 DEF QueueInv, Silent, Used, Expected, Succ
<1>5. Answered /\ memory.available = Succ(blk.last_used_index)
    BY <1>1, <1>3, <1>4 DEF QueueInv, Waiting, Offered, Taken, Used, Expected, Succ
<1>6. /\ call = [op |-> call.op, lba |-> call.lba, bytes |-> call.bytes, value |-> call.value,
               done |-> call.done, output |-> call.output]
      /\ call.lba \in Nat /\ call.done \in Nat
      /\ call.op \in {"read", "write", "flush"} /\ answer = "none"
    BY <1>1 DEF QueueInv, Fields, InCall
<1>7. Verdict = "ok" => memory.status = "ok"
    BY Zenon DEF Verdict
<1>8. \/ Verdict = "ok" /\ call' = c
            /\ ((Finished(c) /\ place' = "idle" /\ answer' = "ok") \/ (~Finished(c) /\ place' = "prepare" /\ answer' = "none"))
      \/ Verdict # "ok" /\ place' = "idle" /\ answer' = Verdict /\ call' = NoCall
    BY DEF Complete, Sectored
<1>9. Quiet' /\ Header' /\ Waiting' /\ Silent'
    <2>1. place' \in {"idle", "prepare"}
        BY <1>8
    <2> QED BY <1>1, <1>2, <1>4, <1>5, <2>1 DEF Quiet, Header, Waiting, Silent, Answered
<1>10. CASE Verdict = "ok"
    <2>1. /\ call' = [op |-> call'.op, lba |-> call'.lba, bytes |-> call'.bytes, value |-> call'.value,
               done |-> call'.done, output |-> call'.output]
          /\ call'.op = call.op /\ call'.lba = call.lba /\ call'.done = call.done + 1 /\ call'.bytes = call.bytes
          /\ call'.output = o
        <3>1. call' = c
            BY <1>8, <1>10
        <3>2. PICK k, out : k = call.done + 1 /\ out = o
            OBVIOUS
        <3>3. call' = [call EXCEPT !.done = k, !.output = out]
            BY ONLY <3>1, <3>2, Zenon
        <3>4. call = [op |-> call.op, lba |-> call.lba, bytes |-> call.bytes, value |-> call.value,
                      done |-> call.done, output |-> call.output]
            BY <1>6
        <3>5. /\ call' = [op |-> call'.op, lba |-> call'.lba, bytes |-> call'.bytes, value |-> call'.value,
                           done |-> call'.done, output |-> call'.output]
              /\ call'.op = call.op /\ call'.lba = call.lba /\ call'.done = k /\ call'.bytes = call.bytes
              /\ call'.output = out
            BY ONLY <3>3, <3>4
        <3> HIDE DEF o
        <3> QED BY ONLY <3>2, <3>5
    <2>2. place' \in {"idle", "prepare"} /\ (place' # "idle" => answer' = "none")
          /\ (answer' = "ok" => Finished(call'))
        BY <1>8, <1>10
    <2>3. Fields'
        <3>1. call'.lba \in Nat /\ call'.done \in Nat
            BY <1>6, <2>1
        <3>2. place' \in {"idle", "prepare", "publish", "wait"}
            BY <2>2
        <3>3. Fields
            BY DEF QueueInv
        <3> QED BY ONLY <1>1, <1>2, <1>3, <2>1, <3>1, <3>2, <3>3, Zenon DEF Fields
    <2>4. InCall'
        BY <1>6, <2>1, <2>2 DEF InCall
    <2>5. Copied'
        <3>1. SUFFICES ASSUME call.op = "read"
                       PROVE  /\ o = [i \in 1..call.done + 1 |-> disk.media[call.lba + i - 1]]
                              /\ answer' = "ok" => call.done + 1 = SectorCount(call.bytes)
            BY <1>1, <2>1 DEF Copied
        <3>2. answer' = "ok" => call.done + 1 = SectorCount(call.bytes)
            BY <2>1, <2>2, <3>1 DEF Finished
        <3>3. memory.data = disk.media[call.lba + call.done]
            BY <1>5, <1>7, <1>10, <3>1 DEF Answered, Asked
        <3>4. call.output = [i \in 1..call.done |-> disk.media[call.lba + i - 1]]
            BY <3>1 DEF QueueInv, Copied
        <3>5. o = Append(call.output, memory.data)
            BY <3>1
        <3> HIDE DEF o, c
        <3>6. PICK n, a, m, s : n = call.done /\ a = call.lba /\ m = disk.media /\ s = call.output
            OBVIOUS
        <3>7. n \in Nat /\ a \in Nat /\ s = [i \in 1..n |-> m[a + i - 1]] /\ o = Append(s, m[a + n])
            BY <1>6, <3>3, <3>4, <3>5, <3>6
        <3>8. o = [i \in 1..n + 1 |-> m[a + i - 1]]
            <4> DEFINE T == {m[a + i - 1] : i \in 1..n} \cup {m[a + n]}
            <4>1. s \in Seq(T) /\ Len(s) = n
                <5>1. \A i \in 1..n : m[a + i - 1] \in T
                    BY Zenon
                <5>2. DOMAIN s = 1..n /\ s \in [1..n -> T]
                    BY ONLY <3>7, <5>1, Zenon
                <5>3. n \in Nat
                    BY <3>7
                <5> HIDE DEF T
                <5> QED BY ONLY <5>2, <5>3
            <4>2. DOMAIN o = 1..n + 1 /\ (\A i \in 1..n : o[i] = s[i]) /\ o[n + 1] = m[a + n]
                  /\ o = [i \in DOMAIN o |-> o[i]]
                BY ONLY <3>7, <4>1, AppendProperties
            <4>3. \A i \in 1..n + 1 : o[i] = m[a + i - 1]
                BY ONLY <3>7, <4>2
            <4> QED BY ONLY <4>2, <4>3
        <3> QED BY <3>2, <3>6, <3>8
    <2> QED BY <1>9, <2>3, <2>4, <2>5 DEF QueueInv
<1>11. CASE Verdict # "ok"
    <2>1. call' = NoCall /\ place' = "idle" /\ answer' # "ok"
        BY <1>8, <1>11
    <2>2. /\ call' = [op |-> call'.op, lba |-> call'.lba, bytes |-> call'.bytes, value |-> call'.value,
               done |-> call'.done, output |-> call'.output]
          /\ call'.lba = 0 /\ call'.done = 0 /\ call'.op = "none"
        BY ONLY <2>1 DEF NoCall
    <2>3. Fields'
        <3>1. call'.lba \in Nat /\ call'.done \in Nat
            BY ONLY <2>2
        <3>2. place' \in {"idle", "prepare", "publish", "wait"}
            BY ONLY <2>1
        <3>3. Fields
            BY DEF QueueInv
        <3> QED BY ONLY <1>1, <1>2, <1>3, <2>2, <3>1, <3>2, <3>3, Zenon DEF Fields
    <2>4. InCall' /\ Copied'
        BY <2>1, <2>2 DEF InCall, Copied
    <2> QED BY <1>9, <2>3, <2>4 DEF QueueInv
<1> QED BY <1>10, <1>11

\* The device only works on the chain of the call that waits.
LEMMA DeviceWaits == ASSUME QueueInv, ~disk.dead, disk.job # NoJob \/ disk.taken # memory.available PROVE place = "wait"
<1>1. CASE place # "wait"
    BY <1>1 DEF QueueInv, Quiet
<1> QED BY <1>1

LEMMA FetchKeeps == ASSUME QueueInv, Fetch PROVE QueueInv'
<1>1. /\ ~disk.dead /\ disk.job = NoJob /\ disk.taken # memory.available
      /\ disk' = [disk EXCEPT !.taken = (@ + 1) % IndexLimit,
                              !.job = [memory.header EXCEPT !.value = memory.data]]
      /\ blk' = blk /\ memory' = memory /\ place' = place /\ call' = call /\ answer' = answer
    BY DEF Fetch
<1>2. place = "wait"
    BY <1>1, DeviceWaits
<1>3. blk.last_used_index \in Indexes /\ memory.available = Succ(blk.last_used_index) /\ Offered
    <2>1. call.op # "none"
        BY <1>2 DEF QueueInv, InCall
    <2> QED BY <1>1, <1>2, <2>1 DEF QueueInv, Waiting, Taken, Answered, Fields
<1>4. /\ disk' = [media |-> disk'.media, job |-> disk'.job, taken |-> disk'.taken, dead |-> disk'.dead]
      /\ disk'.media = disk.media /\ disk'.dead = disk.dead
      /\ disk'.taken = Succ(disk.taken)
      /\ disk'.job = [memory.header EXCEPT !.value = memory.data]
    <2>1. disk = [media |-> disk.media, job |-> disk.job, taken |-> disk.taken, dead |-> disk.dead]
        BY DEF QueueInv, Fields
    <2> QED BY ONLY <1>1, <2>1 DEF Succ
<1>5. disk'.job.op = call.op /\ disk'.job.sector = Asked
    <2>1. memory.header = [op |-> call.op, sector |-> Asked, value |-> 0]
        BY <1>1, <1>2 DEF QueueInv, Header
    <2> QED BY ONLY <1>4, <2>1
<1>6. Taken'
    <2>1. memory.used = blk.last_used_index /\ disk.taken = blk.last_used_index
        BY <1>3 DEF Offered
    <2>2. Asked' = Asked
        BY <1>1 DEF Asked
    <2> QED BY ONLY <1>1, <1>4, <1>5, <2>1, <2>2 DEF Taken
<1>7. Fields'
    <2>1. Fields
        BY DEF QueueInv
    <2> QED BY ONLY <1>1, <1>4, <2>1, Zenon DEF Fields
<1>8. InCall' /\ Quiet' /\ Waiting' /\ Silent'
    BY <1>1, <1>2, <1>3, <1>4, <1>6 DEF QueueInv, InCall, Quiet, Waiting, Silent
<1>9. Header' /\ Copied'
    BY <1>1, <1>4 DEF QueueInv, Header, Copied, Asked
<1> QED BY <1>7, <1>8, <1>9 DEF QueueInv

LEMMA FinishKeeps == ASSUME QueueInv, NEW status, NEW id, Finish(status, id) PROVE QueueInv'
<1>1. /\ ~disk.dead /\ disk.job # NoJob
      /\ blk' = blk /\ place' = place /\ call' = call /\ answer' = answer
    BY DEF Finish
<1>2. place = "wait"
    BY <1>1, DeviceWaits
<1>3. memory.available = Succ(blk.last_used_index) /\ Taken
    BY <1>1, <1>2 DEF QueueInv, Waiting, Offered, Answered
<1>4. PICK media : disk' = [disk EXCEPT !.job = NoJob, !.media = media] /\ (disk.job.op # "write" => media = disk.media)
    BY DEF Finish
<1>5. PICK data : memory' = [memory EXCEPT !.status = status, !.used = (@ + 1) % IndexLimit, !.id = id, !.data = data]
                    /\ (disk.job.op = "read" /\ status = "ok" => data = disk.media[disk.job.sector])
    BY DEF Finish
<1>6. /\ disk' = [media |-> disk'.media, job |-> disk'.job, taken |-> disk'.taken, dead |-> disk'.dead]
      /\ disk'.media = media /\ disk'.dead = disk.dead /\ disk'.taken = disk.taken /\ disk'.job = NoJob
    <2>1. disk = [media |-> disk.media, job |-> disk.job, taken |-> disk.taken, dead |-> disk.dead]
        BY DEF QueueInv, Fields
    <2> QED BY ONLY <1>4, <2>1
<1>7. /\ memory' = [header |-> memory'.header, data |-> memory'.data, status |-> memory'.status,
                 available |-> memory'.available, used |-> memory'.used, id |-> memory'.id]
      /\ memory'.available = memory.available /\ memory'.used = Succ(memory.used) /\ memory'.header = memory.header
      /\ memory'.data = data /\ memory'.status = status
    <2>1. memory = [header |-> memory.header, data |-> memory.data, status |-> memory.status,
                 available |-> memory.available, used |-> memory.used, id |-> memory.id]
        BY DEF QueueInv, Fields
    <2> QED BY ONLY <1>5, <2>1 DEF Succ
<1>8. call.op = "read" => media = disk.media /\ (status = "ok" => data = disk.media[Asked])
    BY <1>3, <1>4, <1>5 DEF Taken
<1>9. Asked' = Asked
    BY <1>1 DEF Asked
<1>10. Answered'
    <2>1. disk.taken = Succ(blk.last_used_index) /\ memory.used = blk.last_used_index
        BY <1>3 DEF Taken
    <2> QED BY ONLY <1>1, <1>6, <1>7, <1>8, <1>9, <2>1 DEF Answered, NoJob
<1>11. Fields'
    <2>1. Fields
        BY DEF QueueInv
    <2> QED BY ONLY <1>1, <1>6, <1>7, <2>1, Zenon DEF Fields
<1>12. InCall' /\ Quiet' /\ Silent'
    BY <1>1, <1>2, <1>6 DEF QueueInv, InCall, Quiet, Silent
<1>13. Waiting'
    BY ONLY <1>1, <1>3, <1>7, <1>10 DEF Waiting
<1>14. Header'
    BY <1>1, <1>6, <1>7, <1>9 DEF QueueInv, Header
<1>15. Copied'
    BY <1>1, <1>6, <1>8 DEF QueueInv, Copied
<1> QED BY <1>11, <1>12, <1>13, <1>14, <1>15 DEF QueueInv

\* Every step of the driver and of the device keeps the invariant.
LEMMA QueueStep == ASSUME QueueInv, ~LateAnswers, [VirtioNext]_virtioVars PROVE QueueInv'
<1>1. CASE UNCHANGED virtioVars
    BY <1>1 DEF virtioVars, QueueInv, Fields, InCall, Quiet, Header, Waiting, Silent, Copied, Offered, Taken,
                Answered, Asked
<1>2. CASE \E accepted, ro, flush \in BOOLEAN, size \in {0, QueueSize} : InitDevice(accepted, size, ro, flush)
    BY <1>2, InitDeviceKeeps
<1>3. CASE \E at \in 0..LbaLimit - 1, bytes \in 0..MaxBytes : Call("read", at, bytes, 0)
    BY <1>3, IssueKeeps, VirtioAssumption
<1>4. CASE Call("flush", 0, 0, 0)
    BY <1>4, IssueKeeps
<1>5. CASE \E at \in 0..LbaLimit - 1, bytes \in 0..MaxBytes, value \in Values : Call("write", at, bytes, value)
    BY <1>5, IssueKeeps, VirtioAssumption
<1>6. CASE Prepare
    BY <1>6, PrepareKeeps
<1>7. CASE Publish
    BY <1>7, PublishKeeps
<1>8. CASE Complete
    BY <1>8, CompleteKeeps
<1>9. CASE TimesOutBusy
    BY <1>9, TimeoutKeeps
<1>10. CASE Fetch
    BY <1>10, FetchKeeps
<1>11. CASE \E status \in {"ok", "unsupported", "error"} : Finish(status, 0)
    BY <1>11, FinishKeeps
<1>12. CASE Finish("ok", 1)
    BY <1>12, FinishKeeps
<1> QED BY <1>1, <1>2, <1>3, <1>4, <1>5, <1>6, <1>7, <1>8, <1>9, <1>10, <1>11, <1>12 DEF VirtioNext, BlockDriver

\* While no device answers after its caller has given up, what callers are told
\* is true: a read that returns Ok returns the device's own sectors, and
\* publish_and_wait gives up only on a device that owes an answer or is dead,
\* whatever failed before and however often the 16-bit indices wrapped.
THEOREM AnswersAlwaysTrue == ASSUME ~LateAnswers PROVE VirtioSpec => []AnswersTrue
<1>1. VirtioInit => QueueInv
    BY QueueInit
<1>2. QueueInv /\ [VirtioNext]_virtioVars => QueueInv'
    BY QueueStep
<1>3. QueueInv => AnswersTrue
    BY QueueSound
<1> QED BY <1>1, <1>2, <1>3, PTL DEF VirtioSpec
=============================================================================
