---------------------------- MODULE PlatformProofs ----------------------------
(***************************************************************************)
(* What the platform promises its drivers, for every size of the memory    *)
(* and of the page tables and any number of PCI buses, functions and BARs: *)
(* frames are handed out once (frame_allocator.rs); a user range is leased *)
(* only as it is mapped, and every lease is counted (paging.rs,            *)
(* process.rs); an interrupt message is never half written and its vector  *)
(* never shared (pci/interrupts.rs, pci.rs); measuring and mapping BARs    *)
(* disturbs nobody; and the inventory that enumeration returns lists the   *)
(* functions that the machine lets it reach (pci.rs).                      *)
(***************************************************************************)
EXTENDS Memory, PciInterrupts, PciResources, PciDiscovery, FiniteSetTheorems, SequenceTheorems,
        WellFoundedInduction, TLAPS

-----------------------------------------------------------------------------
(* Frames.                                                                 *)

GrantOK(g) ==
    /\ g.start \in Nat /\ g.count \in Nat /\ g.limit \in Nat /\ g.alignment \in Nat \ {0}

\* A free frame is one that the memory map declared usable.
FrameInv ==
    /\ used \subseteq Frames /\ usable \subseteq Frames
    /\ Frames \ used \subseteq usable
    /\ \A g \in grants : GrantOK(g)
    /\ GrantsDisjoint

LEMMA FiniteFrames == IsFiniteSet(Frames) /\ \A S : S \subseteq Frames => IsFiniteSet(S) /\ Cardinality(S) \in Nat
<1>1. IsFiniteSet(Frames)
    BY MemoryAssumption, FS_Interval DEF Frames
<1> QED BY <1>1, FS_Subset, FS_CardinalityType

LEMMA NatMin ==
    ASSUME NEW S \in SUBSET Nat, S # {}
    PROVE  Min(S) \in S /\ \A y \in S : Min(S) <= y
<1>1. PICK x \in S : \A y \in S : ~(<<y, x>> \in OpToRel(<, Nat))
    BY NatLessThanWellFounded, WFMin
<1>2. ASSUME NEW y \in S PROVE x <= y
    <2>1. x \in Nat /\ y \in Nat /\ ~(y < x)
        BY <1>1 DEF OpToRel
    <2> QED BY <2>1
<1> QED BY <1>1, <1>2 DEF Min

\* The frames that allocate_contiguous_below takes are free, lie below the
\* limit and are as many as were asked for.
LEMMA RunIsFree ==
    ASSUME NEW count \in 1..MAX_FRAMES, NEW limit \in Limits, NEW alignment \in Alignments,
           FreeRuns(count, limit, alignment) # {}
    PROVE  LET start == Min(FreeRuns(count, limit, alignment))
               run == start .. start + count - 1
           IN  /\ start \in Nat /\ start + count <= limit /\ start % alignment = 0
               /\ run \subseteq Frames \ used
               /\ Cardinality(run) = count
<1> DEFINE start == Min(FreeRuns(count, limit, alignment))
<1>1. start \in FreeRuns(count, limit, alignment) /\ start \in Nat
    BY NatMin, MemoryAssumption DEF FreeRuns, Frames
<1>2. limit \in Nat /\ MAX_FRAMES \in Nat /\ count \in Nat \ {0}
    BY MemoryAssumption
<1>3. Bounded(limit) <= limit /\ Bounded(limit) <= MAX_FRAMES /\ Bounded(limit) \in Nat
    <2>1. {limit, MAX_FRAMES} \in SUBSET Nat /\ {limit, MAX_FRAMES} # {}
        BY <1>2
    <2> QED BY <1>2, <2>1, NatMin DEF Bounded
<1>4. start + count <= Bounded(limit) /\ start % alignment = 0 /\ FreeRun(start, count)
    BY <1>1 DEF FreeRuns
<1> HIDE DEF start
<1>5. start .. start + count - 1 \subseteq Frames
    BY <1>1, <1>2, <1>3, <1>4 DEF Frames
<1>6. Cardinality(start .. start + count - 1) = count
    BY <1>1, <1>2, FS_Interval
<1> QED BY <1>1, <1>2, <1>3, <1>4, <1>5, <1>6 DEF FreeRun, start

LEMMA FramesInit == ASSUME MemoryInit PROVE FrameInv
<1>1. Frames \ used = {} /\ grants = {} /\ usable = {} /\ used = Frames
    BY DEF MemoryInit
<1> QED BY <1>1, FS_EmptySet DEF FrameInv, GrantsDisjoint, MemoryInit

\* What division says about whole frames.
LEMMA DivFrames ==
    ASSUME NEW n \in Nat \ {0}, NEW x \in Nat, NEW f \in Nat
    PROVE  (x \div n <= f <=> x < (f + 1) * n) /\ (x % n = 0 /\ x \div n <= f => x <= f * n)
<1>1. PICK q, m \in Nat : q = x \div n /\ m = x % n /\ x = n * q + m /\ m < n
    BY SMT
<1>2. ASSUME q <= f PROVE x < (f + 1) * n /\ (m = 0 => x <= f * n)
    <2>1. n * q <= n * f
        BY <1>1, <1>2
    <2>2. (f + 1) * n = n * f + n /\ f * n = n * f
        BY <1>1
    <2> QED BY <1>1, <2>1, <2>2
<1>3. ASSUME f < q PROVE ~(x < (f + 1) * n)
    <2>1. n * (f + 1) <= n * q
        BY <1>1, <1>3
    <2> QED BY <1>1, <2>1
<1> QED BY <1>1, <1>2, <1>3

LEMMA MarkFreeKeeps ==
    ASSUME FrameInv, NEW start \in Nat, NEW end \in Nat, start % FRAME_SIZE = 0, MarkRegionFree(start, end)
    PROVE  FrameInv'
<1> DEFINE region == {f \in Frames : start \div FRAME_SIZE <= f /\ f < end \div FRAME_SIZE}
           whole == {f \in Frames : start <= f * FRAME_SIZE /\ (f + 1) * FRAME_SIZE <= end}
<1>1. /\ grants = {} /\ grants' = {} /\ used' = used \ region /\ usable' = usable \cup whole
      /\ free_frames' = free_frames + Cardinality(region \cap used)
    BY DEF MarkRegionFree
<1>2. region \subseteq whole /\ whole \subseteq Frames
    <2>1. ASSUME NEW f \in region PROVE f \in whole
        <3>1. f \in Nat /\ FRAME_SIZE \in Nat \ {0}
            BY MemoryAssumption DEF Frames
        <3>2. start \div FRAME_SIZE <= f /\ ~(end \div FRAME_SIZE <= f)
            <4>1. end \div FRAME_SIZE \in Nat
                BY <3>1
            <4> QED BY <3>1, <4>1
        <3>3. start <= f * FRAME_SIZE /\ ~(end < (f + 1) * FRAME_SIZE)
            BY <3>1, <3>2, DivFrames
        <3>4. (f + 1) * FRAME_SIZE \in Nat
            BY <3>1
        <3> QED BY <3>3, <3>4
    <2> QED BY <2>1
<1> HIDE DEF region, whole
<1>3. /\ Frames \ used' = (Frames \ used) \cup (region \cap used)
      /\ (Frames \ used) \cap (region \cap used) = {}
    BY <1>1, <1>2
<1>4. Cardinality(Frames \ used') = Cardinality(Frames \ used) + Cardinality(region \cap used)
    <2>1. IsFiniteSet(Frames \ used) /\ IsFiniteSet(region \cap used)
            /\ Cardinality(Frames \ used) \in Nat /\ Cardinality(region \cap used) \in Nat
        BY <1>2, FiniteFrames
    <2>2. PICK A, B : A = Frames \ used /\ B = region \cap used
        OBVIOUS
    <2>3. IsFiniteSet(A) /\ IsFiniteSet(B) /\ Cardinality(A) \in Nat /\ Cardinality(B) \in Nat
            /\ A \cap B = {} /\ Frames \ used' = A \cup B
        BY <1>3, <2>1, <2>2
    <2>4. Cardinality(A \cup B) = Cardinality(A) + Cardinality(B) - Cardinality(A \cap B)
        BY ONLY <2>3, FS_Union
    <2>5. Cardinality(A \cap B) = 0
        BY ONLY <2>3, FS_EmptySet
    <2>6. PICK n, m, c, z : n = Cardinality(A) /\ m = Cardinality(B) /\ c = Cardinality(A \cup B) /\ z = Cardinality(A \cap B)
        OBVIOUS
    <2>7. n \in Nat /\ m \in Nat /\ c = n + m - z /\ z = 0
        BY <2>3, <2>4, <2>5, <2>6, Zenon
    <2>8. c = n + m
        BY ONLY <2>7
    <2> QED BY <2>2, <2>3, <2>6, <2>8, Zenon
<1>5. used' \subseteq Frames /\ usable' \subseteq Frames /\ Frames \ used' \subseteq usable'
    BY <1>1, <1>2 DEF FrameInv
<1>6. free_frames' = Cardinality(Frames \ used')
    BY <1>1, <1>4 DEF FrameInv, GrantsDisjoint
<1> QED BY <1>1, <1>5, <1>6 DEF FrameInv, GrantsDisjoint, Frames

LEMMA MarkUsedKeeps ==
    ASSUME FrameInv, NEW start \in Nat, NEW end \in Nat, MarkRegionUsed(start, end)
    PROVE  FrameInv'
<1> DEFINE region == {f \in Frames : start \div FRAME_SIZE <= f /\ f < (end + FRAME_SIZE - 1) \div FRAME_SIZE}
           touched == {f \in Frames : f * FRAME_SIZE < end /\ start < (f + 1) * FRAME_SIZE}
<1>1. /\ grants = {} /\ grants' = {} /\ used' = used \cup region /\ usable' = usable \ touched
      /\ free_frames' = free_frames - Cardinality(region \ used)
    BY DEF MarkRegionUsed
<1>2. touched \subseteq region /\ region \subseteq Frames
    <2>1. ASSUME NEW f \in touched PROVE f \in region
        <3>1. PICK n : n = FRAME_SIZE /\ n \in Nat \ {0}
            BY MemoryAssumption
        <3>2. f \in Nat /\ end + n - 1 \in Nat
            BY <3>1 DEF Frames
        <3>3. start \div n <= f
            BY <3>1, <3>2, DivFrames
        <3>4. (f + 1) * n = f * n + n /\ f * n \in Nat
            BY <3>1, <3>2
        <3>5. ~(end + n - 1 < (f + 1) * n)
            BY <3>1, <3>2, <3>4
        <3>6. ~((end + n - 1) \div n <= f)
            BY <3>1, <3>2, <3>5, DivFrames
        <3>7. (end + n - 1) \div n \in Nat
            BY <3>1, <3>2
        <3> QED BY <3>1, <3>2, <3>3, <3>6, <3>7
    <2> QED BY <2>1
<1> HIDE DEF region, touched
<1>3. /\ Frames \ used' = (Frames \ used) \ (region \ used)
      /\ (Frames \ used) \cap (region \ used) = region \ used
    BY <1>1, <1>2
<1>4. Cardinality(Frames \ used') = Cardinality(Frames \ used) - Cardinality(region \ used)
    <2>1. IsFiniteSet(Frames \ used)
        BY FiniteFrames
    <2>2. Cardinality((Frames \ used) \ (region \ used))
            = Cardinality(Frames \ used) - Cardinality((Frames \ used) \cap (region \ used))
        BY <2>1, FS_Difference
    <2> QED BY <1>3, <2>2
<1>5. used' \subseteq Frames /\ usable' \subseteq Frames /\ Frames \ used' \subseteq usable'
    BY <1>1, <1>2 DEF FrameInv
<1>6. free_frames' = Cardinality(Frames \ used')
    BY <1>1, <1>4 DEF FrameInv, GrantsDisjoint
<1> QED BY <1>1, <1>5, <1>6 DEF FrameInv, GrantsDisjoint, Frames

LEMMA AllocateKeeps ==
    ASSUME FrameInv, NEW count \in 1..MAX_FRAMES, NEW limit \in Limits, NEW alignment \in Alignments,
           Allocate(count, limit, alignment)
    PROVE  FrameInv'
<1> DEFINE start == Min(FreeRuns(count, limit, alignment))
           run == start .. start + count - 1
           grant == [start |-> start, count |-> count, limit |-> limit, alignment |-> alignment]
<1>1. /\ start \in Nat /\ start + count <= limit /\ start % alignment = 0
      /\ run \subseteq Frames \ used /\ Cardinality(run) = count
    BY RunIsFree DEF Allocate
<1>2. /\ used' = used \cup run /\ grants' = grants \cup {grant} /\ usable' = usable
      /\ free_frames' = IF count > free_frames THEN 0 ELSE free_frames - count
    BY DEF Allocate
<1>3. count \in Nat /\ limit \in Nat /\ alignment \in Nat \ {0}
    BY MemoryAssumption
<1>4. GrantOK(grant) /\ Granted(grant) = run /\ grant.start = start /\ grant.count = count
        /\ grant.limit = limit /\ grant.alignment = alignment
    BY <1>1, <1>3 DEF GrantOK, Granted
<1> HIDE DEF grant, run, start
<1>5. /\ used \subseteq Frames /\ usable \subseteq Frames /\ Frames \ used \subseteq usable
      /\ free_frames = Cardinality(Frames \ used)
      /\ \A g \in grants : /\ GrantOK(g) /\ Granted(g) \subseteq used \cap usable
                           /\ g.start + g.count <= g.limit /\ g.start % g.alignment = 0
      /\ \A g, h \in grants : g # h => Granted(g) \cap Granted(h) = {}
    BY DEF FrameInv, GrantsDisjoint
<1>6. /\ used' \subseteq Frames /\ usable' \subseteq Frames /\ Frames \ used' \subseteq usable'
    BY <1>1, <1>2, <1>5
<1>7. ASSUME NEW g \in grants'
      PROVE  /\ GrantOK(g) /\ Granted(g) \subseteq used' \cap usable'
             /\ g.start + g.count <= g.limit /\ g.start % g.alignment = 0
    BY <1>1, <1>2, <1>4, <1>5
<1>8. ASSUME NEW g \in grants', NEW h \in grants', g # h
      PROVE  Granted(g) \cap Granted(h) = {}
    BY <1>1, <1>2, <1>4, <1>5, <1>8
<1>9. free_frames' = Cardinality(Frames \ used')
    <2>1. /\ Frames \ used' = (Frames \ used) \ run
          /\ (Frames \ used) \cap run = run
        BY <1>1, <1>2
    <2>2. IsFiniteSet(Frames \ used) /\ Cardinality(Frames \ used) \in Nat /\ Cardinality(Frames \ used') \in Nat
        BY FiniteFrames
    <2>3. Cardinality(Frames \ used') = Cardinality(Frames \ used) - count
        BY <1>1, <2>1, <2>2, FS_Difference
    <2> QED BY <1>2, <1>3, <1>5, <2>2, <2>3
<1> QED BY <1>6, <1>7, <1>8, <1>9 DEF FrameInv, GrantsDisjoint, GrantOK, Granted, Frames

LEMMA DeallocateKeeps ==
    ASSUME FrameInv, NEW grant, Deallocate(grant)
    PROVE  FrameInv'
<1> DEFINE f == grant.start
<1>1. /\ grant \in grants /\ grant.count = 1 /\ used' = used \ {f} /\ usable' = usable
      /\ free_frames' = free_frames + 1 /\ grants' = grants \ {grant}
    BY DEF Deallocate
<1>2. /\ used \subseteq Frames /\ usable \subseteq Frames /\ Frames \ used \subseteq usable
      /\ free_frames = Cardinality(Frames \ used)
      /\ \A g \in grants : /\ GrantOK(g) /\ Granted(g) \subseteq used \cap usable
                           /\ g.start + g.count <= g.limit /\ g.start % g.alignment = 0
      /\ \A g, h \in grants : g # h => Granted(g) \cap Granted(h) = {}
    BY DEF FrameInv, GrantsDisjoint
<1>3. f \in Granted(grant) /\ f \in used /\ f \in usable
    BY <1>1, <1>2 DEF GrantOK, Granted
<1> HIDE DEF f
<1>4. /\ used' \subseteq Frames /\ usable' \subseteq Frames /\ Frames \ used' \subseteq usable'
    BY <1>1, <1>2, <1>3
<1>5. ASSUME NEW g \in grants'
      PROVE  /\ GrantOK(g) /\ Granted(g) \subseteq used' \cap usable'
             /\ g.start + g.count <= g.limit /\ g.start % g.alignment = 0
    <2>1. g \in grants /\ g # grant
        BY <1>1
    <2>2. f \notin Granted(g)
        BY <1>1, <1>2, <1>3, <2>1
    <2> QED BY <1>1, <1>2, <2>1, <2>2
<1>6. Cardinality(Frames \ used') = Cardinality(Frames \ used) + 1
    <2>1. Frames \ used' = (Frames \ used) \cup {f} /\ f \notin Frames \ used
        BY <1>1, <1>2, <1>3
    <2> QED BY <2>1, FiniteFrames, FS_AddElement
<1> QED BY <1>1, <1>2, <1>4, <1>5, <1>6 DEF FrameInv, GrantsDisjoint, GrantOK, Granted, Frames

\* The physical frames of frame_allocator.rs, for any memory map and any
\* sequence of allocations: no frame has two owners, none lies outside usable
\* memory or above its limit, and free_frames never drifts from the bitmap.
THEOREM GrantsAlwaysDisjoint == MemorySpec => []GrantsDisjoint
<1>1. MemoryInit => FrameInv
    BY FramesInit
<1>2. FrameInv /\ [MemoryNext]_memoryVars => FrameInv'
    <2> SUFFICES ASSUME FrameInv, [MemoryNext]_memoryVars PROVE FrameInv'
        OBVIOUS
    <2>1. ASSUME UNCHANGED frameVars PROVE FrameInv'
        BY <2>1 DEF frameVars, FrameInv, GrantsDisjoint, GrantOK, Granted, Frames
    <2>2. CASE FrameSteps
        <3>1. 0..MAX_FRAMES * FRAME_SIZE \subseteq Nat
            BY MemoryAssumption
        <3> QED BY <2>2, <3>1, MarkFreeKeeps, MarkUsedKeeps, AllocateKeeps, DeallocateKeeps DEF FrameSteps
    <2>3. CASE SpaceSteps
        <3>1. UNCHANGED frameVars
            BY <2>3 DEF SpaceSteps, PinAndValidate, Release, BumpGeneration, MapPage, UnmapPage
        <3> QED BY <2>1, <3>1
    <2>4. CASE UNCHANGED memoryVars
        BY <2>1, <2>4 DEF memoryVars
    <2> QED BY <2>2, <2>3, <2>4 DEF MemoryNext
<1>3. FrameInv => GrantsDisjoint
    BY DEF FrameInv
<1> QED BY <1>1, <1>2, <1>3, PTL DEF MemorySpec

-----------------------------------------------------------------------------
(* User ranges.                                                            *)

LEMMA DivMonotone ==
    ASSUME NEW n \in Nat \ {0}, NEW a \in Nat, NEW b \in Nat, a <= b
    PROVE  a \div n \in Nat /\ b \div n \in Nat /\ a \div n <= b \div n
    BY SMT

\* The pages that validate_pages checks are those of the bytes of the range.
LEMMA PagesCover ==
    ASSUME NEW start \in Nat, NEW len \in Nat, NEW byte \in start .. start + len - 1
    PROVE  \E i \in 1..PageCount(start, len) : byte \div PAGE_SIZE = start \div PAGE_SIZE + i - 1
<1> DEFINE first == start \div PAGE_SIZE
           page == byte \div PAGE_SIZE
           final == (start + len - 1) \div PAGE_SIZE
<1>1. PAGE_SIZE \in Nat \ {0} /\ byte \in Nat /\ len # 0 /\ start + len - 1 \in Nat
        /\ start <= byte /\ byte <= start + len - 1
    BY MemoryAssumption
<1>2. first \in Nat /\ page \in Nat /\ final \in Nat /\ first <= page /\ page <= final
    BY <1>1, DivMonotone
<1>3. PageCount(start, len) = final - first + 1
    BY <1>1 DEF PageCount
<1> HIDE DEF first, page, final
<1>4. page - first + 1 \in 1..(final - first + 1) /\ page = first + (page - first + 1) - 1
    BY <1>2
<1> QED BY <1>3, <1>4 DEF first, page

\* What validate_pages checks is what every byte of the range needs.
LEMMA ValidatedAccessible ==
    ASSUME NEW start \in Nat, NEW len \in Nat, NEW access, ValidatePages(start, len, access),
           NEW lease, lease.start = start, lease.len = len, lease.access = access
    PROVE  Accessible(lease, entries)
<1>1. ASSUME NEW byte \in start .. start + len - 1
      PROVE  LET page == byte \div PAGE_SIZE
                 upper == entries.upper[page \div PagesPerEntry]
             IN  access \in Allows[upper] /\ (upper \notin Huge => access \in Allows[entries.leaf[page]])
    <2>1. PICK i \in 1..PageCount(start, len) : byte \div PAGE_SIZE = start \div PAGE_SIZE + i - 1
        BY PagesCover
    <2>2. access \in Effective(byte \div PAGE_SIZE)
        BY <2>1 DEF ValidatePages
    <2> DEFINE page == byte \div PAGE_SIZE
               upper == entries.upper[page \div PagesPerEntry]
    <2>3. access \in IF upper \in Huge THEN Allows[upper] ELSE Allows[upper] \cap Allows[entries.leaf[page]]
        BY <2>2 DEF Effective
    <2> QED BY <2>3
<1> QED BY <1>1 DEF Accessible

\* pin_and_validate_user_range hands out what it has checked: for any layout of
\* the page tables and any range, every byte of a new PinnedUserRange can be
\* accessed, at every level, when the lease is given.
THEOREM LeasesAlwaysChecked == MemorySpec => [][LeaseChecked]_memoryVars
<1>1. ASSUME [MemoryNext]_memoryVars
      PROVE  [LeaseChecked]_memoryVars
    <2> SUFFICES ASSUME MemoryNext, NEW lease \in leases' \ leases
                 PROVE  Accessible(lease, entries)
        BY <1>1 DEF LeaseChecked
    <2>1. PICK start \in 0..Size, len \in 0..MaxCopy, access \in {"Read", "Write"} : PinAndValidate(start, len, access)
        BY DEF MemoryNext, SpaceSteps, FrameSteps, Release, BumpGeneration, MapPage, UnmapPage,
               MarkRegionFree, MarkRegionUsed, Allocate, Deallocate, spaceVars
    <2>2. /\ ValidatePages(start, len, access)
          /\ lease = [start |-> start, len |-> len, access |-> access, generation |-> space.generation,
                      number |-> Min(1..MaxPins \ {l.number : l \in leases})]
        BY <2>1 DEF PinAndValidate
    <2>3. start \in Nat /\ len \in Nat /\ lease.start = start /\ lease.len = len /\ lease.access = access
        BY <2>2, MemoryAssumption DEF Size
    <2> QED BY <2>2, <2>3, ValidatedAccessible
<1> QED BY <1>1, PTL DEF MemorySpec

\* The numbers tell leases of the same range apart, so that each is counted.
LeaseInv ==
    /\ IsFiniteSet(leases)
    /\ space \in [generation : Nat, pins : Nat]
    /\ LeasesCurrent

LEMMA LeasesInit == ASSUME MemoryInit PROVE LeaseInv
    BY FS_EmptySet DEF MemoryInit, LeaseInv, LeasesCurrent

\* There is a number that no lease has.
LEMMA FreshNumber ==
    ASSUME IsFiniteSet(leases), Cardinality(leases) < MaxPins
    PROVE  Min(1..MaxPins \ {l.number : l \in leases}) \notin {l.number : l \in leases}
<1> DEFINE numbers == {l.number : l \in leases}
           fresh == 1..MaxPins \ numbers
<1>1. MaxPins \in Nat
    BY MemoryAssumption
<1>2. IsFiniteSet(numbers) /\ Cardinality(numbers) <= Cardinality(leases)
    <2> DEFINE f == [l \in leases |-> l.number]
    <2>1. f \in Surjection(leases, numbers)
        BY DEF Surjection
    <2> HIDE DEF f, numbers
    <2> QED BY <2>1, FS_Surjection
<1>3. IsFiniteSet(1..MaxPins) /\ Cardinality(1..MaxPins) = MaxPins
    <2>1. IsFiniteSet(1..MaxPins) /\ Cardinality(1..MaxPins) = IF 1 > MaxPins THEN 0 ELSE MaxPins - 1 + 1
        BY <1>1, FS_Interval
    <2> QED BY <1>1, <2>1
<1> HIDE DEF numbers
<1>4. fresh # {}
    <2> SUFFICES ASSUME fresh = {} PROVE FALSE
        OBVIOUS
    <2>1. 1..MaxPins \subseteq numbers
        OBVIOUS
    <2>2. Cardinality(1..MaxPins) <= Cardinality(numbers)
        BY <1>2, <2>1, FS_Subset
    <2>3. Cardinality(numbers) \in Nat /\ Cardinality(leases) \in Nat
        BY <1>2, FS_CardinalityType
    <2> QED BY <1>1, <1>2, <1>3, <2>2, <2>3
<1>5. Min(fresh) \in fresh
    BY <1>1, <1>4, NatMin
<1> QED BY <1>5 DEF numbers

LEMMA PinKeeps ==
    ASSUME LeaseInv, NEW start, NEW len, NEW access, PinAndValidate(start, len, access)
    PROVE  LeaseInv'
<1> DEFINE number == Min(1..MaxPins \ {l.number : l \in leases})
           lease == [start |-> start, len |-> len, access |-> access, generation |-> space.generation,
                     number |-> number]
<1>1. /\ leases' = leases \cup {lease} /\ space' = [space EXCEPT !.pins = @ + 1] /\ space.pins < MaxPins
    BY DEF PinAndValidate
<1>2. /\ IsFiniteSet(leases) /\ space \in [generation : Nat, pins : Nat] /\ space.pins = Cardinality(leases)
      /\ \A l \in leases : l.generation = space.generation
    BY DEF LeaseInv, LeasesCurrent
<1>3. /\ space' \in [generation : Nat, pins : Nat] /\ space'.pins = space.pins + 1
      /\ space'.generation = space.generation
    BY <1>1, <1>2
<1>4. lease \notin leases
    <2>1. number \notin {l.number : l \in leases}
        BY <1>1, <1>2, FreshNumber
    <2>2. lease.number = number
        OBVIOUS
    <2> HIDE DEF lease, number
    <2> QED BY <2>1, <2>2
<1>5. lease.generation = space.generation
    OBVIOUS
<1> HIDE DEF lease
<1>6. IsFiniteSet(leases') /\ Cardinality(leases') = Cardinality(leases) + 1
    BY <1>1, <1>2, <1>4, FS_AddElement
<1>7. \A l \in leases' : l.generation = space'.generation
    BY <1>1, <1>2, <1>3, <1>5
<1> QED BY <1>2, <1>3, <1>6, <1>7 DEF LeaseInv, LeasesCurrent

LEMMA ReleaseKeeps ==
    ASSUME LeaseInv, NEW lease \in leases, Release(lease)
    PROVE  LeaseInv'
<1>1. leases' = leases \ {lease} /\ space' = [space EXCEPT !.pins = @ - 1] /\ space.pins # 0
    BY DEF Release
<1>2. /\ IsFiniteSet(leases) /\ space \in [generation : Nat, pins : Nat] /\ space.pins = Cardinality(leases)
      /\ \A l \in leases : l.generation = space.generation
    BY DEF LeaseInv, LeasesCurrent
<1>3. /\ space' \in [generation : Nat, pins : Nat] /\ space'.pins = space.pins - 1
      /\ space'.generation = space.generation
    BY <1>1, <1>2
<1>4. IsFiniteSet(leases') /\ Cardinality(leases') = Cardinality(leases) - 1
    BY <1>1, <1>2, FS_RemoveElement
<1> QED BY <1>1, <1>2, <1>3, <1>4 DEF LeaseInv, LeasesCurrent

LEMMA BumpKeeps ==
    ASSUME LeaseInv, BumpGeneration
    PROVE  LeaseInv'
<1>1. leases' = leases /\ space' = [space EXCEPT !.generation = @ + 1] /\ space.pins = 0
    BY DEF BumpGeneration, Commits
<1>2. /\ IsFiniteSet(leases) /\ space \in [generation : Nat, pins : Nat] /\ space.pins = Cardinality(leases)
    BY DEF LeaseInv, LeasesCurrent
<1>3. leases = {}
    BY <1>1, <1>2, FS_EmptySet
<1>4. space' \in [generation : Nat, pins : Nat] /\ space'.pins = 0
    BY <1>1, <1>2
<1> QED BY <1>1, <1>2, <1>3, <1>4 DEF LeaseInv, LeasesCurrent

\* A pin is given back exactly once and no generation is committed meanwhile:
\* for any number of leases, in any order of pins, releases, commits and
\* page-table writes, those that are held are current and counted.
THEOREM LeasesAlwaysCurrent == MemorySpec => []LeasesCurrent
<1>1. MemoryInit => LeaseInv
    BY LeasesInit
<1>2. LeaseInv /\ [MemoryNext]_memoryVars => LeaseInv'
    <2> SUFFICES ASSUME LeaseInv, [MemoryNext]_memoryVars PROVE LeaseInv'
        OBVIOUS
    <2>1. ASSUME UNCHANGED <<space, leases>> PROVE LeaseInv'
        BY <2>1 DEF LeaseInv, LeasesCurrent
    <2>2. CASE FrameSteps
        <3>1. UNCHANGED <<space, leases>>
            BY <2>2 DEF FrameSteps, MarkRegionFree, MarkRegionUsed, Allocate, Deallocate, spaceVars
        <3> QED BY <2>1, <3>1
    <2>3. ASSUME NEW page, NEW upper, NEW kind, MapPage(page, upper, kind) \/ UnmapPage(page)
          PROVE  LeaseInv'
        BY <2>1, <2>3 DEF MapPage, UnmapPage
    <2>4. CASE SpaceSteps
        BY <2>3, <2>4, PinKeeps, ReleaseKeeps, BumpKeeps DEF SpaceSteps
    <2>5. CASE UNCHANGED memoryVars
        BY <2>1, <2>5 DEF memoryVars, spaceVars
    <2> QED BY <2>2, <2>4, <2>5 DEF MemoryNext
<1>3. LeaseInv => LeasesCurrent
    BY DEF LeaseInv
<1> QED BY <1>1, <1>2, <1>3, PTL DEF MemorySpec

\* The leases of paging.rs and process.rs, for any page tables and any history:
\* what is leased was checked, at every level and in every page, and neither a
\* commit nor another release comes between a lease and its release.
THEOREM LeasesAlwaysSound == MemorySpec => LeasesSound
    BY LeasesAlwaysChecked, LeasesAlwaysCurrent, PTL DEF LeasesSound

-----------------------------------------------------------------------------
(* Interrupt routing.                                                      *)

Contents == {"firmware", "ours"}
Register == [enable : BOOLEAN, fmask : BOOLEAN, mask : BOOLEAN, low : Contents, high : Contents, data : Contents]

HighWord(f, mode) == IF Layout(f, mode).high THEN 1 ELSE 0
MaskWord(f, mode) == IF Layout(f, mode).masking THEN 1 ELSE 0

\* Two sequences in a row.
LEMMA Joined ==
    ASSUME NEW S, NEW s \in Seq(S), NEW u \in Seq(S), NEW t, t = s \o u
    PROVE  /\ t \in Seq(S) /\ Len(t) = Len(s) + Len(u) /\ Len(s) \in Nat /\ Len(u) \in Nat
           /\ \A i \in 1..Len(s) : t[i] = s[i]
           /\ \A i \in 1..Len(u) : t[Len(s) + i] = u[i]
<1>1. /\ t \in Seq(S) /\ Len(t) = Len(s) + Len(u) /\ Len(s) \in Nat /\ Len(u) \in Nat
      /\ \A i \in 1..(Len(s) + Len(u)) : t[i] = IF i <= Len(s) THEN s[i] ELSE u[i - Len(s)]
    BY ConcatProperties, LenProperties
<1>2. ASSUME NEW i \in 1..Len(u) PROVE t[Len(s) + i] = u[i]
    <2>1. Len(s) + i \in 1..(Len(s) + Len(u)) /\ ~(Len(s) + i <= Len(s)) /\ (Len(s) + i) - Len(s) = i
        BY <1>1
    <2> QED BY <1>1, <2>1
<1> QED BY <1>1, <1>2

\* Where the writes of program are.
LEMMA PublishesIs ==
    ASSUME NEW f, NEW mode, NEW a, NEW h, NEW writes,
           a = MaskWord(f, mode), h = HighWord(f, mode), writes = Publishes(f, mode)
    PROVE  /\ a \in 0..1 /\ h \in 0..1
           /\ Len(writes) \in Nat /\ Len(writes) >= 4 + a + h
           /\ writes[1] = Disabled(mode)
           /\ a = 1 => writes[2] = Write("mask", TRUE)
           /\ writes[2 + a] = Write("low", "ours")
           /\ h = 1 => writes[3 + a] = Write("high", "ours")
           /\ writes[3 + a + h] = Write("data", "ours")
           /\ writes[4 + a + h] = Enabled(mode)
           /\ \A k \in (5 + a + h)..Len(writes) : writes[k] \in {Write("mask", FALSE), Unmasked}
<1> DEFINE w1 == Disabled(mode)
           w2 == Write("mask", TRUE)
           w3 == Write("low", "ours")
           w4 == Write("high", "ours")
           w5 == Write("data", "ours")
           w6 == Enabled(mode)
           w7 == Write("mask", FALSE)
           w8 == Unmasked
           S == {w1, w2, w3, w4, w5, w6, w7, w8}
           u2 == When(Layout(f, mode).masking, w2)
           u4 == When(Layout(f, mode).high, w4)
           u7 == When(Layout(f, mode).masking, w7)
           u8 == When(mode = "msix", w8)
<1>1. writes = <<w1>> \o u2 \o <<w3>> \o u4 \o <<w5, w6>> \o u7 \o u8
    BY DEF Publishes
<1> HIDE DEF w1, w2, w3, w4, w5, w6, w7, w8
<1>2. ASSUME NEW w \in S PROVE <<w>> \in Seq(S) /\ Len(<<w>>) = 1 /\ (<<w>>)[1] = w
    OBVIOUS
<1>3. <<>> \in Seq(S) /\ Len(<<>>) = 0
    OBVIOUS
<1>4. a \in 0..1 /\ h \in 0..1
    BY DEF MaskWord, HighWord
<1>5. u2 \in Seq(S) /\ Len(u2) = a /\ (a = 1 => u2[1] = w2)
    <2>1. (Layout(f, mode).masking => u2 = <<w2>> /\ a = 1) /\ (~Layout(f, mode).masking => u2 = <<>> /\ a = 0)
        BY DEF When, MaskWord
    <2>2. w2 \in S
        OBVIOUS
    <2> HIDE DEF S, u2
    <2>3. <<w2>> \in Seq(S) /\ Len(<<w2>>) = 1 /\ (<<w2>>)[1] = w2
        BY <1>2, <2>2
    <2>4. (u2 = <<w2>> /\ a = 1) \/ (u2 = <<>> /\ a = 0 /\ ~(a = 1))
        BY <2>1
    <2> QED BY ONLY <1>3, <2>3, <2>4, Zenon
<1>6. u4 \in Seq(S) /\ Len(u4) = h /\ (h = 1 => u4[1] = w4)
    <2>1. (Layout(f, mode).high => u4 = <<w4>> /\ h = 1) /\ (~Layout(f, mode).high => u4 = <<>> /\ h = 0)
        BY DEF When, HighWord
    <2>2. w4 \in S
        OBVIOUS
    <2> HIDE DEF S, u4
    <2>3. <<w4>> \in Seq(S) /\ Len(<<w4>>) = 1 /\ (<<w4>>)[1] = w4
        BY <1>2, <2>2
    <2>4. (u4 = <<w4>> /\ h = 1) \/ (u4 = <<>> /\ h = 0 /\ ~(h = 1))
        BY <2>1
    <2> QED BY ONLY <1>3, <2>3, <2>4, Zenon
<1>7. u7 \in Seq(S) /\ Len(u7) \in 0..1 /\ (Len(u7) = 1 => u7[1] = w7)
    <2>1. u7 = <<w7>> \/ u7 = <<>>
        BY DEF When
    <2>2. w7 \in S
        OBVIOUS
    <2> HIDE DEF S, u7
    <2>3. <<w7>> \in Seq(S) /\ Len(<<w7>>) = 1 /\ (<<w7>>)[1] = w7 /\ 1 \in 0..1 /\ 0 \in 0..1 /\ ~(0 = 1)
        BY <1>2, <2>2
    <2> QED BY ONLY <1>3, <2>1, <2>3, Zenon
<1>8. u8 \in Seq(S) /\ Len(u8) \in 0..1 /\ (Len(u8) = 1 => u8[1] = w8)
    <2>1. u8 = <<w8>> \/ u8 = <<>>
        BY DEF When
    <2>2. w8 \in S
        OBVIOUS
    <2> HIDE DEF S, u8
    <2>3. <<w8>> \in Seq(S) /\ Len(<<w8>>) = 1 /\ (<<w8>>)[1] = w8 /\ 1 \in 0..1 /\ 0 \in 0..1 /\ ~(0 = 1)
        BY <1>2, <2>2
    <2> QED BY ONLY <1>3, <2>1, <2>3, Zenon
<1>9. w1 \in S /\ w3 \in S /\ w5 \in S /\ w6 \in S
    OBVIOUS
<1> HIDE DEF S, u2, u4, u7, u8
<1>10. /\ Len(writes) = 4 + a + h + Len(u7) + Len(u8)
       /\ writes[1] = w1
       /\ a = 1 => writes[2] = u2[1]
       /\ writes[2 + a] = w3
       /\ h = 1 => writes[3 + a] = u4[1]
       /\ writes[3 + a + h] = w5
       /\ writes[4 + a + h] = w6
       /\ \A i \in 1..Len(u7) : writes[4 + a + h + i] = u7[i]
       /\ \A i \in 1..Len(u8) : writes[4 + a + h + Len(u7) + i] = u8[i]
    <2> DEFINE s2 == <<w1>> \o u2
               s3 == s2 \o <<w3>>
               s4 == s3 \o u4
               s5 == s4 \o <<w5, w6>>
               s6 == s5 \o u7
               s7 == s6 \o u8
    <2> USE <1>4, <1>5, <1>6, <1>7, <1>8, <1>9
    <2>0. /\ <<w1>> \in Seq(S) /\ Len(<<w1>>) = 1 /\ (<<w1>>)[1] = w1
          /\ <<w3>> \in Seq(S) /\ Len(<<w3>>) = 1 /\ (<<w3>>)[1] = w3
          /\ <<w5, w6>> \in Seq(S) /\ Len(<<w5, w6>>) = 2 /\ (<<w5, w6>>)[1] = w5 /\ (<<w5, w6>>)[2] = w6
        BY <1>9
    <2>1. writes = s7
        BY <1>1
    <2>2. /\ s2 \in Seq(S) /\ Len(s2) = 1 + a
          /\ s2[1] = w1 /\ (a = 1 => s2[2] = u2[1])
        <3>1. /\ s2 \in Seq(S) /\ Len(s2) = Len(<<w1>>) + Len(u2)
              /\ \A i \in 1..Len(<<w1>>) : s2[i] = (<<w1>>)[i]
              /\ \A i \in 1..Len(u2) : s2[Len(<<w1>>) + i] = u2[i]
            BY <2>0, Joined
        <3> QED BY <2>0, <3>1
    <2> HIDE DEF s2
    <2>3. /\ s3 \in Seq(S) /\ Len(s3) = 2 + a
          /\ s3[1] = w1 /\ (a = 1 => s3[2] = u2[1]) /\ s3[2 + a] = w3
        <3>1. /\ s3 \in Seq(S) /\ Len(s3) = Len(s2) + Len(<<w3>>)
              /\ \A i \in 1..Len(s2) : s3[i] = s2[i]
              /\ \A i \in 1..Len(<<w3>>) : s3[Len(s2) + i] = (<<w3>>)[i]
            BY <2>0, <2>2, Joined, SMTT(30)
        <3>2. s3[1 + a + 1] = w3
            BY <2>0, <2>2, <3>1
        <3>3. a \in Int /\ 1 + a + 1 = 2 + a /\ Len(s2) = 1 + a
            BY <2>2
        <3>4. 1 \in 1..Len(s2) /\ (a = 1 => 2 \in 1..Len(s2))
            BY <2>2
        <3> HIDE DEF s3
        <3>5. s3[1] = w1 /\ (a = 1 => s3[2] = u2[1]) /\ s3[2 + a] = w3
            BY ONLY <2>2, <3>1, <3>2, <3>3, <3>4
        <3>6. Len(s3) = 2 + a
            BY ONLY <2>0, <3>1, <3>3
        <3> QED BY ONLY <3>1, <3>5, <3>6
    <2> HIDE DEF s3
    <2>4. /\ s4 \in Seq(S) /\ Len(s4) = 2 + a + h
          /\ s4[1] = w1 /\ (a = 1 => s4[2] = u2[1]) /\ s4[2 + a] = w3 /\ (h = 1 => s4[3 + a] = u4[1])
        <3>1. /\ s4 \in Seq(S) /\ Len(s4) = Len(s3) + Len(u4)
              /\ \A i \in 1..Len(s3) : s4[i] = s3[i]
              /\ \A i \in 1..Len(u4) : s4[Len(s3) + i] = u4[i]
            <4>1. s4 = s3 \o u4 /\ s3 \in Seq(S) /\ u4 \in Seq(S)
                BY <2>3
            <4> HIDE DEF s4
            <4> QED BY ONLY <4>1, Joined
        <3>2. h = 1 => s4[2 + a + 1] = u4[1]
            BY <2>3, <3>1
        <3> QED BY <2>3, <3>1, <3>2, SMTT(30)
    <2> HIDE DEF s4
    <2>5. /\ s5 \in Seq(S) /\ Len(s5) = 4 + a + h
          /\ s5[1] = w1 /\ (a = 1 => s5[2] = u2[1]) /\ s5[2 + a] = w3 /\ (h = 1 => s5[3 + a] = u4[1])
          /\ s5[3 + a + h] = w5 /\ s5[4 + a + h] = w6
        <3>1. /\ s5 \in Seq(S) /\ Len(s5) = Len(s4) + Len(<<w5, w6>>)
              /\ \A i \in 1..Len(s4) : s5[i] = s4[i]
              /\ \A i \in 1..Len(<<w5, w6>>) : s5[Len(s4) + i] = (<<w5, w6>>)[i]
            <4>1. s5 = s4 \o <<w5, w6>> /\ s4 \in Seq(S) /\ <<w5, w6>> \in Seq(S)
                BY <2>0, <2>4
            <4> HIDE DEF s5
            <4> QED BY ONLY <4>1, Joined
        <3>2. 1 \in 1..Len(<<w5, w6>>) /\ 2 \in 1..Len(<<w5, w6>>)
            BY <2>0
        <3>3. s5[2 + a + h + 1] = w5 /\ s5[2 + a + h + 2] = w6
            BY <2>0, <2>4, <3>1, <3>2
        <3>4. 1 \in 1..Len(s4) /\ (a = 1 => 2 \in 1..Len(s4)) /\ 2 + a \in 1..Len(s4) /\ (h = 1 => 3 + a \in 1..Len(s4))
                /\ 2 + a + h + 1 = 3 + a + h /\ 2 + a + h + 2 = 4 + a + h
            BY <2>4, SMTT(30)
        <3> QED BY <2>0, <2>4, <3>1, <3>3, <3>4
    <2> HIDE DEF s5
    <2>6. /\ s6 \in Seq(S) /\ Len(s6) = Len(s5) + Len(u7)
          /\ \A i \in 1..Len(s5) : s6[i] = s5[i]
          /\ \A i \in 1..Len(u7) : s6[Len(s5) + i] = u7[i]
        <3>1. s6 = s5 \o u7 /\ s5 \in Seq(S) /\ u7 \in Seq(S)
            BY <2>5
        <3> HIDE DEF s6
        <3> QED BY ONLY <3>1, Joined
    <2> HIDE DEF s6
    <2>7. /\ s7 \in Seq(S) /\ Len(s7) = Len(s6) + Len(u8)
          /\ \A i \in 1..Len(s6) : s7[i] = s6[i]
          /\ \A i \in 1..Len(u8) : s7[Len(s6) + i] = u8[i]
        <3>1. s7 = s6 \o u8 /\ s6 \in Seq(S) /\ u8 \in Seq(S)
            BY <2>6
        <3> HIDE DEF s7
        <3> QED BY ONLY <3>1, Joined
    <2> HIDE DEF s7
    <2>8. Len(u7) \in Nat /\ Len(u8) \in Nat
        BY LenProperties
    <2>9. \A i \in 1..(4 + a + h) : s7[i] = s5[i]
        <3>1. \A i \in 1..(4 + a + h) : i \in 1..Len(s5) /\ i \in 1..Len(s6)
            BY <2>5, <2>6, <2>8, SMTT(30)
        <3> QED BY ONLY <2>6, <2>7, <3>1
    <2>10. /\ 1 \in 1..(4 + a + h) /\ 2 \in 1..(4 + a + h) /\ 2 + a \in 1..(4 + a + h) /\ 3 + a \in 1..(4 + a + h)
           /\ 3 + a + h \in 1..(4 + a + h) /\ 4 + a + h \in 1..(4 + a + h)
        OBVIOUS
    <2>11. Len(s6) = 4 + a + h + Len(u7)
        BY <2>5, <2>6
    <2>12. ASSUME NEW i \in 1..Len(u7) PROVE s7[4 + a + h + i] = u7[i]
        <3>1. 4 + a + h + i \in 1..(4 + a + h + Len(u7))
            BY <2>8
        <3>2. s6[4 + a + h + i] = u7[i]
            BY <2>5, <2>6
        <3> QED BY <2>7, <2>11, <3>1, <3>2
    <2>13. ASSUME NEW i \in 1..Len(u8) PROVE s7[4 + a + h + Len(u7) + i] = u8[i]
        BY <2>7, <2>11
    <2>14. Len(s7) = 4 + a + h + Len(u7) + Len(u8)
        BY <2>7, <2>11
    <2>15. /\ s7[1] = w1 /\ (a = 1 => s7[2] = u2[1]) /\ s7[2 + a] = w3 /\ (h = 1 => s7[3 + a] = u4[1])
           /\ s7[3 + a + h] = w5 /\ s7[4 + a + h] = w6
        BY ONLY <1>4, <2>5, <2>9, <2>10
    <2> QED BY ONLY <2>1, <2>7, <2>12, <2>13, <2>14, <2>15
<1>11. ASSUME NEW k \in (5 + a + h)..Len(writes) PROVE writes[k] \in {w7, w8}
    <2>1. CASE k = 4 + a + h + 1 /\ Len(u7) = 1
        BY <1>7, <1>10, <2>1
    <2>2. CASE ~(k = 4 + a + h + 1 /\ Len(u7) = 1)
        <3>1. k = 4 + a + h + Len(u7) + 1 /\ Len(u8) = 1
            <4>1. Len(writes) = 4 + a + h + Len(u7) + Len(u8)
                BY <1>10
            <4>2. k >= 5 + a + h /\ k <= Len(writes) /\ k \in Int
                BY <1>4, <1>7, <1>8, <4>1
            <4>3. Len(u7) \in 0..1 /\ Len(u8) \in 0..1
                BY <1>7, <1>8
            <4> DEFINE m == Len(u7)
                       n == Len(u8)
                       l == Len(writes)
            <4> HIDE DEF m, n, l
            <4>4. /\ m \in 0..1 /\ n \in 0..1 /\ l = 4 + a + h + m + n /\ k >= 5 + a + h /\ k <= l /\ k \in Int
                  /\ ~(k = 4 + a + h + 1 /\ m = 1)
                BY <2>2, <4>1, <4>2, <4>3 DEF m, n, l
            <4>5. k = 4 + a + h + m + 1 /\ n = 1
                BY ONLY <1>4, <4>4
            <4> QED BY <4>5 DEF m, n
        <3> QED BY <1>8, <1>10, <3>1
    <2> QED BY <2>1, <2>2
<1>12. Len(writes) \in Nat /\ Len(writes) >= 4 + a + h
    BY <1>4, <1>7, <1>8, <1>10
<1> QED BY <1>4, <1>5, <1>6, <1>10, <1>11, <1>12 DEF w1, w2, w3, w4, w5, w6, w7, w8

LEMMA WhenIs ==
    ASSUME NEW S, NEW w \in S, NEW u, u = <<w>> \/ u = <<>>
    PROVE  u \in Seq(S) /\ Len(u) \in 0..1 /\ (Len(u) = 1 => u[1] = w)
<1>1. <<w>> \in Seq(S) /\ Len(<<w>>) = 1 /\ (<<w>>)[1] = w /\ 1 \in 0..1 /\ 0 \in 0..1 /\ ~(0 = 1)
    OBVIOUS
<1>2. <<>> \in Seq(S) /\ Len(<<>>) = 0
    OBVIOUS
<1> QED BY <1>1, <1>2, Zenon

LEMMA DisablesIs ==
    ASSUME NEW f, NEW mode, NEW writes, writes = Disables(f, mode)
    PROVE  /\ Len(writes) \in 1..2 /\ writes[1] = Disabled(mode)
           /\ Len(writes) = 2 => writes[2] = Write("mask", TRUE)
<1> DEFINE w1 == Disabled(mode)
           w2 == Write("mask", TRUE)
           S == {w1, w2}
           u == When(Layout(f, mode).masking, w2)
<1>1. writes = <<w1>> \o u /\ (u = <<w2>> \/ u = <<>>)
    BY DEF Disables, When
<1> HIDE DEF w1, w2, u
<1>2. w2 \in S /\ <<w1>> \in Seq(S) /\ Len(<<w1>>) = 1 /\ (<<w1>>)[1] = w1
    OBVIOUS
<1> HIDE DEF S
<1>3. u \in Seq(S) /\ Len(u) \in 0..1 /\ (Len(u) = 1 => u[1] = w2)
    BY ONLY <1>1, <1>2, WhenIs
<1>4. /\ Len(writes) = Len(<<w1>>) + Len(u)
      /\ \A i \in 1..Len(<<w1>>) : writes[i] = (<<w1>>)[i]
      /\ \A i \in 1..Len(u) : writes[Len(<<w1>>) + i] = u[i]
    BY ONLY <1>1, <1>2, <1>3, Joined
<1>5. Len(u) = 1 => writes[1 + 1] = u[1]
    BY ONLY <1>2, <1>4
<1>6. writes[1] = w1 /\ Len(writes) = 1 + Len(u) /\ (Len(u) = 1 => writes[2] = w2)
    BY ONLY <1>2, <1>3, <1>4, <1>5
<1>7. Len(writes) \in 1..2 /\ (Len(writes) = 2 => Len(u) = 1)
    <2> DEFINE n == Len(u)
               l == Len(writes)
    <2>1. n \in 0..1 /\ l = 1 + n
        BY <1>3, <1>6
    <2> HIDE DEF n, l
    <2>2. l \in 1..2 /\ (l = 2 => n = 1)
        BY ONLY <2>1
    <2> QED BY <2>2 DEF n, l
<1> QED BY ONLY <1>6, <1>7 DEF w1, w2

LEMMA RestoresIs ==
    ASSUME NEW f, NEW mode, NEW writes, writes = Restores(f, mode)
    PROVE  /\ Len(writes) \in Nat /\ Len(writes) >= 1
           /\ \A k \in 1..Len(writes) : \E name \in {"low", "high", "data"} : writes[k] = Write(name, "firmware")
<1> DEFINE w1 == Write("low", "firmware")
           w2 == Write("high", "firmware")
           w3 == Write("data", "firmware")
           S == {w1, w2, w3}
           u == When(Layout(f, mode).high, w2)
           s == <<w1>> \o u
<1>1. writes = s \o <<w3>> /\ (u = <<w2>> \/ u = <<>>)
    BY DEF Restores, When
<1>2. ASSUME NEW w \in S PROVE \E name \in {"low", "high", "data"} : w = Write(name, "firmware")
    OBVIOUS
<1> HIDE DEF w1, w2, w3, u
<1>3. w2 \in S /\ <<w1>> \in Seq(S) /\ <<w3>> \in Seq(S) /\ Len(<<w3>>) = 1
    OBVIOUS
<1> HIDE DEF S
<1>4. u \in Seq(S)
    BY ONLY <1>1, <1>3, WhenIs
<1>5. s \in Seq(S)
    BY ONLY <1>3, <1>4, Joined DEF s
<1> HIDE DEF s
<1>6. writes \in Seq(S) /\ Len(writes) = Len(s) + Len(<<w3>>) /\ Len(s) \in Nat
    BY ONLY <1>1, <1>3, <1>5, Joined
<1>7. \A k \in 1..Len(writes) : writes[k] \in S
    BY <1>6, ElementOfSeq
<1>8. Len(writes) \in Nat /\ Len(writes) >= 1
    BY <1>3, <1>6
<1> QED BY <1>2, <1>7, <1>8

\* What checked_write leaves in the registers.  It changes none but the one
\* written, and when the value read back is the one written, it is there.
LEMMA ControlWritten ==
    ASSUME NEW r \in Register, NEW e \in BOOLEAN, NEW g \in BOOLEAN, NEW w,
           w = Write("control", [enable |-> e, fmask |-> g])
    PROVE  /\ Stored(r, w) \in Register
           /\ Stored(r, w).low = r.low /\ Stored(r, w).high = r.high /\ Stored(r, w).data = r.data
           /\ Stored(r, w).enable = e
           /\ \A q \in Register : Held(q, w) = w.value => q.enable = e
<1>1. Stored(r, w) = [r EXCEPT !.enable = e, !.fmask = g]
    BY DEF Stored, Write
<1>2. ASSUME NEW q \in Register, Held(q, w) = w.value PROVE q.enable = e
    <2>1. [enable |-> q.enable, fmask |-> q.fmask] = [enable |-> e, fmask |-> g]
        BY <1>2 DEF Held, Write
    <2> QED BY <2>1
<1> QED BY <1>1, <1>2 DEF Register

LEMMA FieldWritten ==
    ASSUME NEW r \in Register, NEW name \in {"low", "high", "data"}, NEW v \in Contents, NEW w, w = Write(name, v)
    PROVE  /\ Stored(r, w) \in Register
           /\ Stored(r, w).enable = r.enable
           /\ \A other \in {"low", "high", "data"} : Stored(r, w)[other] = IF other = name THEN v ELSE r[other]
           /\ \A q \in Register : Held(q, w) = w.value => q[name] = v
<1>1. Stored(r, w) = [r EXCEPT ![name] = v]
    BY DEF Stored, Write
<1>2. \A q : Held(q, w) = w.value => q[name] = v
    BY DEF Held, Write
<1>3. CASE name = "low"
    BY <1>1, <1>2, <1>3 DEF Register
<1>4. CASE name = "high"
    BY <1>1, <1>2, <1>4 DEF Register
<1>5. CASE name = "data"
    BY <1>1, <1>2, <1>5 DEF Register
<1> QED BY <1>3, <1>4, <1>5

LEMMA MaskWritten ==
    ASSUME NEW r \in Register, NEW v \in BOOLEAN, NEW w, w = Write("mask", v)
    PROVE  /\ Stored(r, w) \in Register
           /\ Stored(r, w).low = r.low /\ Stored(r, w).high = r.high /\ Stored(r, w).data = r.data
           /\ Stored(r, w).enable = r.enable
<1>1. Stored(r, w) = [r EXCEPT !.mask = v]
    BY DEF Stored, Write
<1> QED BY <1>1 DEF Register

\* The registers of a capability that the driver has enabled hold its message.
Ours(f, mode) ==
    /\ regs[f][mode].low = "ours" /\ regs[f][mode].data = "ours"
    /\ Layout(f, mode).high => regs[f][mode].high = "ours"

\* How far program or its rollback has come: enabled last, disabled first.
Progress(f, mode) ==
    LET r == regs[f][mode]
        a == MaskWord(f, mode)
        h == HighWord(f, mode)
    IN  /\ call.phase = "publish" =>
             /\ call.at \in 1..Len(Publishes(f, mode))
             /\ call.at <= 4 + a + h => ~r.enable
             /\ call.at > 2 + a => r.low = "ours"
             /\ h = 1 /\ call.at > 3 + a => r.high = "ours"
             /\ call.at > 3 + a + h => r.data = "ours"
        /\ call.phase = "disable" => call.at \in 1..Len(Disables(f, mode)) /\ (call.at # 1 => ~r.enable)
        /\ call.phase = "restore" => call.at \in 1..Len(Restores(f, mode)) /\ ~r.enable

RouteTypeOK ==
    /\ caps \in [Functions -> Capabilities]
    /\ regs \in [Functions -> [Modes -> Register]]
    /\ owner = [function |-> owner.function, mode |-> owner.mode, state |-> owner.state]
    /\ call = [function |-> call.function, mode |-> call.mode, phase |-> call.phase, at |-> call.at,
               restored |-> call.restored]
    /\ call.phase \in {"idle", "publish", "disable", "restore"}

\* What the firmware enabled is as the firmware left it, what the driver
\* enabled holds the vector and a whole message, and a running transaction
\* holds the vector for a function that the firmware left alone.
Untouched == \A f \in Functions, mode \in Modes : caps[f].firmware = mode => regs[f][mode] = Registers(caps[f], mode)

Enabling == \A f \in Functions, mode \in Modes :
    regs[f][mode].enable /\ caps[f].firmware # mode => owner.function = f /\ owner.mode = mode /\ Ours(f, mode)

Running == call.phase # "idle" =>
    /\ call.function \in Functions /\ call.mode \in Modes
    /\ owner.function = call.function /\ owner.mode = call.mode
    /\ caps[call.function].firmware = "none"
    /\ Progress(call.function, call.mode)

RouteInv == RouteTypeOK /\ Untouched /\ Enabling /\ Running

LEMMA RouteSound == ASSUME RouteInv PROVE MessageWhole /\ VectorHeld
<1>1. VectorHeld
    BY DEF RouteInv, Enabling, VectorHeld
<1>2. ASSUME NEW f \in Functions, NEW mode \in Modes, Live(f, mode)
      PROVE  Message(f, mode) = IF caps[f].firmware = mode THEN {"firmware"} ELSE {"ours"}
    <2>1. CASE caps[f].firmware = mode
        <3>1. regs[f][mode].low = "firmware" /\ regs[f][mode].high = "firmware" /\ regs[f][mode].data = "firmware"
            <4>1. regs[f][mode] = Registers(caps[f], mode)
                BY <2>1 DEF RouteInv, Untouched
            <4> QED BY <4>1 DEF Registers
        <3> QED BY <2>1, <3>1 DEF Message
    <2>2. CASE caps[f].firmware # mode
        <3>1. Ours(f, mode)
            BY <1>2, <2>2 DEF RouteInv, Enabling, Live
        <3>2. Message(f, mode) \subseteq {"ours"} /\ regs[f][mode].low \in Message(f, mode)
            BY <3>1 DEF Message, Ours
        <3> QED BY <2>2, <3>1, <3>2 DEF Ours
    <2> QED BY <2>1, <2>2
<1> QED BY <1>1, <1>2 DEF MessageWhole

LEMMA RouteInit == ASSUME PciInit PROVE RouteInv
<1>1. caps \in [Functions -> Capabilities] /\ regs = [f \in Functions |-> [mode \in Modes |-> Registers(caps[f], mode)]]
        /\ call = NoCall /\ owner = Unowned
    BY DEF PciInit
<1>2. /\ call.phase = "idle"
      /\ owner = [function |-> owner.function, mode |-> owner.mode, state |-> owner.state]
      /\ call = [function |-> call.function, mode |-> call.mode, phase |-> call.phase, at |-> call.at,
                 restored |-> call.restored]
    BY <1>1 DEF NoCall, Unowned
<1>3. ASSUME NEW f \in Functions, NEW mode \in Modes
      PROVE  /\ regs[f][mode] = Registers(caps[f], mode) /\ Registers(caps[f], mode) \in Register
             /\ regs[f][mode].enable => caps[f].firmware = mode
    BY <1>1 DEF Registers, Register, Contents
<1>4. regs \in [Functions -> [Modes -> Register]]
    BY <1>1, <1>3
<1> QED BY <1>1, <1>2, <1>3, <1>4 DEF RouteInv, RouteTypeOK, Untouched, Enabling, Running

\* One checked_write, by phase.
Wrote(fault, write) ==
    /\ regs' = [regs EXCEPT ![call.function][call.mode] = Registered(fault, write)]
    /\ UNCHANGED caps

LEMMA PublishStep ==
    ASSUME NEW fault, WriteRegister(fault), call.phase = "publish",
           NEW writes, writes = Publishes(call.function, call.mode)
    PROVE  /\ Wrote(fault, writes[call.at])
           /\ \/ Sticks(fault, writes[call.at]) /\ Commit(call.function)
              \/ call' = [call EXCEPT !.phase = "disable", !.at = 1] /\ owner' = owner
              \/ /\ Sticks(fault, writes[call.at]) /\ call.at # Len(writes) /\ owner' = owner
                 /\ \E restored : call' = [call EXCEPT !.at = @ + 1, !.restored = restored]
<1>1. call.phase # "disable" /\ call.phase # "restore"
    OBVIOUS
<1> QED BY <1>1, Zenon DEF WriteRegister, Wrote

LEMMA DisableStep ==
    ASSUME NEW fault, WriteRegister(fault), call.phase = "disable",
           NEW writes, writes = Disables(call.function, call.mode)
    PROVE  /\ Wrote(fault, writes[call.at])
           /\ \/ Keep(call.function)
              \/ /\ Sticks(fault, writes[call.at]) /\ call.at = Len(writes) /\ owner' = owner
                 /\ call' = [call EXCEPT !.phase = "restore", !.at = 1]
              \/ /\ Sticks(fault, writes[call.at]) /\ call.at # Len(writes) /\ owner' = owner
                 /\ \E restored : call' = [call EXCEPT !.at = @ + 1, !.restored = restored]
<1>1. call.phase # "publish" /\ call.phase # "restore"
    OBVIOUS
<1> QED BY <1>1, Zenon DEF WriteRegister, Wrote

LEMMA RestoreStep ==
    ASSUME NEW fault, WriteRegister(fault), call.phase = "restore",
           NEW writes, writes = Restores(call.function, call.mode)
    PROVE  /\ Wrote(fault, writes[call.at])
           /\ \/ Keep(call.function)
              \/ ReleaseAndTryNext(call.function)
              \/ /\ call.at # Len(writes) /\ owner' = owner
                 /\ \E restored : call' = [call EXCEPT !.at = @ + 1, !.restored = restored]
<1>1. call.phase # "publish" /\ call.phase # "disable"
    OBVIOUS
<1> QED BY <1>1, Zenon DEF WriteRegister, Wrote

\* The next mechanism of the loop gets the vector only when nobody has it.
LEMMA TryKeeps ==
    ASSUME NEW f \in Functions, NEW modes \in SUBSET Modes, NEW last, NEW held, Try(f, modes, last, held),
           caps \in [Functions -> Capabilities], caps' = caps, regs' \in [Functions -> [Modes -> Register]],
           Untouched', caps[f].firmware = "none",
           held = [function |-> held.function, mode |-> held.mode, state |-> held.state],
           \A g \in Functions, m \in Modes :
               regs'[g][m].enable /\ caps[g].firmware # m => held.function = g /\ held.mode = m /\ Ours(g, m)',
           \A m \in modes : Supports(f, m) => ~regs'[f][m].enable
    PROVE  RouteInv'
<1> DEFINE usable_ == {m \in modes : Supports(f, m)}
           mode == IF "msix" \in usable_ THEN "msix" ELSE "msi"
<1>1. CASE owner' = held /\ call' = NoCall
    <2>1. Enabling'
        BY <1>1 DEF Enabling
    <2>2. call'.phase = "idle" /\ call' = [function |-> call'.function, mode |-> call'.mode, phase |-> call'.phase,
                                         at |-> call'.at, restored |-> call'.restored]
        BY <1>1 DEF NoCall
    <2> QED BY <1>1, <2>1, <2>2 DEF RouteInv, RouteTypeOK, Running
<1>2. CASE /\ usable_ # {} /\ held = Unowned
           /\ owner' = [function |-> f, mode |-> mode, state |-> "Reserved"]
           /\ call' = [function |-> f, mode |-> mode, phase |-> "publish", at |-> 1, restored |-> TRUE]
    <2>0. mode \in usable_ /\ mode \in Modes
        BY <1>2 DEF Modes
    <2>1. PICK m \in Modes : m = mode /\ m \in usable_
        BY <2>0
    <2> HIDE DEF mode, usable_
    <2>2. \A g \in Functions, k \in Modes : ~(regs'[g][k].enable /\ caps[g].firmware # k)
        BY <1>2 DEF Unowned, Modes
    <2>3. Enabling' /\ ~regs'[f][m].enable
        BY <2>1, <2>2 DEF Enabling, usable_
    <2>4. /\ call'.phase = "publish" /\ call'.at = 1 /\ call'.function = f /\ call'.mode = m
          /\ owner'.function = f /\ owner'.mode = m
          /\ owner' = [function |-> owner'.function, mode |-> owner'.mode, state |-> owner'.state]
          /\ call' = [function |-> call'.function, mode |-> call'.mode, phase |-> call'.phase,
                      at |-> call'.at, restored |-> call'.restored]
        BY <1>2, <2>1
    <2>5. MaskWord(f, m) \in 0..1 /\ HighWord(f, m) \in 0..1
            /\ Len(Publishes(f, m)) \in Nat /\ Len(Publishes(f, m)) >= 4 + MaskWord(f, m) + HighWord(f, m)
        BY PublishesIs
    <2>6. MaskWord(f, m)' = MaskWord(f, m) /\ HighWord(f, m)' = HighWord(f, m)
            /\ Publishes(f, m)' = Publishes(f, m)
        BY DEF MaskWord, HighWord, Publishes, Layout
    <2>7. Progress(f, m)'
        <3>1. /\ 1 \in 1..Len(Publishes(f, m)) /\ ~(1 > 2 + MaskWord(f, m)) /\ ~(1 > 3 + MaskWord(f, m))
              /\ ~(1 > 3 + MaskWord(f, m) + HighWord(f, m))
            BY <2>5
        <3> QED BY <2>3, <2>4, <2>6, <3>1 DEF Progress
    <2>8. Running'
        BY <2>1, <2>4, <2>7 DEF Running, Progress
    <2> QED BY <2>3, <2>4, <2>8 DEF RouteInv, RouteTypeOK
<1> QED BY <1>1, <1>2 DEF Try, Return

\* After the given write of program, whatever became of it.
LEMMA Published ==
    ASSUME RouteInv, call.phase = "publish", NEW f, NEW mode, f = call.function, mode = call.mode,
           NEW fault, NEW write, write = Publishes(f, mode)[call.at],
           NEW q, q = Registered(fault, write),
           NEW a, NEW h, a = MaskWord(f, mode), h = HighWord(f, mode)
    PROVE  /\ q \in Register
           /\ call.at < 4 + a + h => ~q.enable
           /\ call.at >= 4 + a + h => q.low = "ours" /\ q.data = "ours" /\ (h = 1 => q.high = "ours")
           /\ Sticks(fault, write) =>
                  /\ call.at >= 2 + a => q.low = "ours"
                  /\ h = 1 /\ call.at >= 3 + a => q.high = "ours"
                  /\ call.at >= 3 + a + h => q.data = "ours"
<1> DEFINE r == regs[f][mode]
           writes == Publishes(f, mode)
           n == call.at
<1>1. /\ f \in Functions /\ mode \in Modes /\ r \in Register /\ n \in 1..Len(writes)
      /\ n <= 4 + a + h => ~r.enable
      /\ n > 2 + a => r.low = "ours"
      /\ h = 1 /\ n > 3 + a => r.high = "ours"
      /\ n > 3 + a + h => r.data = "ours"
    <2>1. f \in Functions /\ mode \in Modes /\ Progress(f, mode)
        BY DEF RouteInv, Running
    <2>2. r \in Register
        BY <2>1 DEF RouteInv, RouteTypeOK
    <2> QED BY <2>1, <2>2 DEF Progress
<1>2. /\ a \in 0..1 /\ h \in 0..1 /\ Len(writes) \in Nat /\ Len(writes) >= 4 + a + h
      /\ writes[1] = Disabled(mode)
      /\ a = 1 => writes[2] = Write("mask", TRUE)
      /\ writes[2 + a] = Write("low", "ours")
      /\ h = 1 => writes[3 + a] = Write("high", "ours")
      /\ writes[3 + a + h] = Write("data", "ours")
      /\ writes[4 + a + h] = Enabled(mode)
      /\ \A k \in (5 + a + h)..Len(writes) : writes[k] \in {Write("mask", FALSE), Unmasked}
    <2>1. a = MaskWord(f, mode) /\ h = HighWord(f, mode) /\ writes = Publishes(f, mode)
        OBVIOUS
    <2> HIDE DEF writes
    <2>2. /\ a \in 0..1 /\ h \in 0..1 /\ Len(writes) \in Nat /\ Len(writes) >= 4 + a + h
          /\ writes[1] = Disabled(mode)
        BY ONLY <2>1, PublishesIs DEF Write
    <2>3. /\ a = 1 => writes[2] = Write("mask", TRUE)
          /\ writes[2 + a] = Write("low", "ours")
        BY ONLY <2>1, PublishesIs DEF Write
    <2>4. /\ h = 1 => writes[3 + a] = Write("high", "ours")
          /\ writes[3 + a + h] = Write("data", "ours")
        BY ONLY <2>1, PublishesIs DEF Write
    <2>5. writes[4 + a + h] = Enabled(mode)
        BY ONLY <2>1, PublishesIs DEF Write
    <2>6. \A k \in (5 + a + h)..Len(writes) : writes[k] \in {Write("mask", FALSE), Unmasked}
        BY ONLY <2>1, PublishesIs DEF Write
    <2> QED BY <2>2, <2>3, <2>4, <2>5, <2>6
<1>3. (q = r \/ q = Stored(r, write)) /\ (Sticks(fault, write) => Held(q, write) = write.value)
    BY DEF Registered, Sticks
<1>4. write = writes[n]
    OBVIOUS
<1> HIDE DEF r, writes, n
\* The control register and the mask leave the message alone.
<1>5. ASSUME NEW e \in BOOLEAN, NEW g \in BOOLEAN, write = Write("control", [enable |-> e, fmask |-> g])
      PROVE  /\ q \in Register /\ q.low = r.low /\ q.high = r.high /\ q.data = r.data
             /\ ~e /\ ~r.enable => ~q.enable
    BY <1>1, <1>3, <1>5, ControlWritten
<1>6. ASSUME NEW v \in BOOLEAN, write = Write("mask", v)
      PROVE  /\ q \in Register /\ q.low = r.low /\ q.high = r.high /\ q.data = r.data
             /\ q.enable = r.enable
    BY <1>1, <1>3, <1>6, MaskWritten
<1>7. ASSUME NEW name \in {"low", "high", "data"}, write = Write(name, "ours")
      PROVE  /\ q \in Register /\ q.enable = r.enable
             /\ Sticks(fault, write) => q[name] = "ours"
             /\ \A other \in {"low", "high", "data"} : other # name => q[other] = r[other]
    <2>1. /\ Stored(r, write) \in Register
          /\ Stored(r, write).enable = r.enable
          /\ \A other \in {"low", "high", "data"} : Stored(r, write)[other] = IF other = name THEN "ours" ELSE r[other]
          /\ \A p \in Register : Held(p, write) = write.value => p[name] = "ours"
        BY <1>1, <1>7, FieldWritten, SMTT(30) DEF Contents
    <2> QED BY <1>1, <1>3, <2>1
<1>8. CASE n = 1
    <2>1. write = Write("control", [enable |-> FALSE, fmask |-> mode = "msix"])
        BY <1>2, <1>4, <1>8, Zenon DEF Disabled
    <2>2. ~r.enable /\ (mode = "msix") \in BOOLEAN
        BY <1>1, <1>2, <1>8
    <2>3. q \in Register /\ ~q.enable
        BY <1>5, <2>1, <2>2
    <2> QED BY <1>2, <1>8, <2>3 DEF n
<1>9. CASE n = 2 /\ a = 1
    <2>0. n <= 4 + a + h
        BY <1>2, <1>9
    <2>1. write = Write("mask", TRUE) /\ ~r.enable
        BY <1>1, <1>2, <1>4, <1>9, <2>0
    <2>2. q \in Register /\ ~q.enable
        BY <1>6, <2>1
    <2> QED BY <1>2, <1>9, <2>2 DEF n
<1>10. CASE n = 2 + a
    <2>1. write = Write("low", "ours") /\ ~r.enable
        BY <1>1, <1>2, <1>4, <1>10
    <2>2. q \in Register /\ ~q.enable /\ (Sticks(fault, write) => q.low = "ours")
        BY <1>7, <2>1
    <2> QED BY <1>2, <1>10, <2>2 DEF n
<1>11. CASE n = 3 + a /\ h = 1
    <2>1. write = Write("high", "ours") /\ ~r.enable /\ r.low = "ours"
        BY <1>1, <1>2, <1>4, <1>11
    <2>2. q \in Register /\ ~q.enable /\ (Sticks(fault, write) => q.high = "ours") /\ q.low = "ours"
        BY <1>7, <2>1
    <2> QED BY <1>2, <1>11, <2>2 DEF n
<1>12. CASE n = 3 + a + h
    <2>1. write = Write("data", "ours") /\ ~r.enable /\ r.low = "ours" /\ (h = 1 => r.high = "ours")
        BY <1>1, <1>2, <1>4, <1>12
    <2>2. q \in Register /\ ~q.enable /\ (Sticks(fault, write) => q.data = "ours") /\ q.low = "ours"
            /\ (h = 1 => q.high = "ours")
        BY <1>7, <2>1
    <2> QED BY <1>2, <1>12, <2>2 DEF n
<1>13. CASE n >= 4 + a + h
    <2>1. r.low = "ours" /\ (h = 1 => r.high = "ours") /\ r.data = "ours"
        BY <1>1, <1>2, <1>13, SMTT(30)
    <2>2. q \in Register /\ q.low = r.low /\ q.high = r.high /\ q.data = r.data
        <3>1. CASE n = 4 + a + h
            <4>1. write = Write("control", [enable |-> TRUE, fmask |-> mode = "msix"]) /\ (mode = "msix") \in BOOLEAN
                BY <1>2, <1>4, <3>1, Zenon DEF Enabled
            <4> QED BY <1>5, <4>1
        <3>2. CASE n # 4 + a + h
            <4>1. n \in (5 + a + h)..Len(writes)
                BY <1>1, <1>2, <1>13, <3>2
            <4>2. write = Write("mask", FALSE) \/ write = Unmasked
                BY <1>2, <1>4, <4>1
            <4> QED BY <1>5, <1>6, <4>2 DEF Unmasked
        <3> QED BY <3>1, <3>2
    <2>3. ~(n < 4 + a + h)
        BY <1>1, <1>2, <1>13
    <2> QED BY <2>1, <2>2, <2>3 DEF n
<1>14. n = 1 \/ (n = 2 /\ a = 1) \/ n = 2 + a \/ (n = 3 + a /\ h = 1) \/ n = 3 + a + h \/ n >= 4 + a + h
    BY <1>1, <1>2, SMTT(30)
<1> QED BY ONLY <1>8, <1>9, <1>10, <1>11, <1>12, <1>13, <1>14

\* What follows from the registers that a write leaves, when the vector stays
\* where it is: all of the invariant but the progress of the call.
Settled ==
    /\ regs' \in [Functions -> [Modes -> Register]] /\ caps' = caps
    /\ Untouched'
    /\ owner'.function = owner.function /\ owner'.mode = owner.mode => Enabling'

LEMMA WriteKeeps ==
    ASSUME RouteInv, call.phase # "idle", NEW f, NEW mode, f = call.function, mode = call.mode,
           NEW q \in Register, caps' = caps, regs' = [regs EXCEPT ![f][mode] = q],
           q.enable => q.low = "ours" /\ q.data = "ours" /\ (HighWord(f, mode) = 1 => q.high = "ours")
    PROVE  Settled
<1>1. /\ f \in Functions /\ mode \in Modes /\ caps[f].firmware = "none" /\ owner.function = f /\ owner.mode = mode
      /\ regs \in [Functions -> [Modes -> Register]]
    BY DEF RouteInv, RouteTypeOK, Running
<1>2. /\ regs' \in [Functions -> [Modes -> Register]]
      /\ regs'[f][mode] = q
      /\ \A g \in Functions, m \in Modes : g # f \/ m # mode => regs'[g][m] = regs[g][m]
    BY <1>1
<1>a. ASSUME NEW g \in Functions, NEW m \in Modes, caps[g].firmware = m
      PROVE  regs'[g][m] = Registers(caps[g], m)
    <2>1. g # f
        BY <1>1, <1>a DEF Modes
    <2> QED BY <1>2, <1>a, <2>1 DEF RouteInv, Untouched
<1>3. q.enable => Ours(f, mode)'
    BY <1>2 DEF Ours, HighWord, Layout
<1>4. ASSUME NEW g \in Functions, NEW m \in Modes, regs'[g][m].enable, caps[g].firmware # m
      PROVE  g = f /\ m = mode /\ Ours(g, m)'
    \* The vector is the call's, so nobody else's.
    <2>1. g = f /\ m = mode
        BY <1>1, <1>2, <1>4 DEF RouteInv, Enabling
    <2> QED BY <1>1, <1>2, <1>3, <1>4, <2>1
<1>5. Untouched'
    BY <1>a DEF Untouched
<1>6. owner'.function = owner.function /\ owner'.mode = owner.mode => Enabling'
    BY <1>1, <1>4 DEF Enabling
<1> QED BY <1>2, <1>5, <1>6 DEF Settled

\* The call ends, and the vector stays with it.
LEMMA EndKeeps ==
    ASSUME RouteInv, Settled, call' = NoCall, NEW state, owner' = [owner EXCEPT !.state = state]
    PROVE  RouteInv'
<1>1. owner' = [function |-> owner.function, mode |-> owner.mode, state |-> state]
    BY DEF RouteInv, RouteTypeOK
<1>2. /\ owner' = [function |-> owner'.function, mode |-> owner'.mode, state |-> owner'.state]
      /\ owner'.function = owner.function /\ owner'.mode = owner.mode
    BY <1>1
<1>3. /\ call' = [function |-> call'.function, mode |-> call'.mode, phase |-> call'.phase, at |-> call'.at,
                  restored |-> call'.restored]
      /\ call'.phase = "idle"
    BY DEF NoCall
<1> QED BY <1>2, <1>3 DEF Settled, RouteInv, RouteTypeOK, Running

\* The call goes on.
LEMMA StepKeeps ==
    ASSUME RouteInv, Settled, call.phase # "idle", owner' = owner,
           NEW phase \in {"publish", "disable", "restore"}, NEW at, NEW restored,
           call' = [call EXCEPT !.phase = phase, !.at = at, !.restored = restored],
           NEW f, NEW mode, f = call.function, mode = call.mode, Progress(f, mode)'
    PROVE  RouteInv'
<1>1. call' = [function |-> f, mode |-> mode, phase |-> phase, at |-> at, restored |-> restored]
    BY DEF RouteInv, RouteTypeOK
<1>2. /\ call' = [function |-> call'.function, mode |-> call'.mode, phase |-> call'.phase, at |-> call'.at,
                  restored |-> call'.restored]
      /\ call'.phase \in {"idle", "publish", "disable", "restore"} /\ call'.function = f /\ call'.mode = mode
    BY <1>1
<1>3. /\ f \in Functions /\ mode \in Modes /\ caps[f].firmware = "none" /\ owner.function = f /\ owner.mode = mode
      /\ caps \in [Functions -> Capabilities] /\ caps' = caps
    BY DEF RouteInv, RouteTypeOK, Running, Settled
<1>4. Running'
    BY <1>2, <1>3 DEF Running, Progress
<1> QED BY <1>2, <1>3, <1>4 DEF Settled, RouteInv, RouteTypeOK

LEMMA ProgressUnchanged ==
    ASSUME NEW f, NEW mode, caps' = caps
    PROVE  /\ MaskWord(f, mode)' = MaskWord(f, mode) /\ HighWord(f, mode)' = HighWord(f, mode)
           /\ Publishes(f, mode)' = Publishes(f, mode) /\ Disables(f, mode)' = Disables(f, mode)
           /\ Restores(f, mode)' = Restores(f, mode)
    BY DEF MaskWord, HighWord, Publishes, Disables, Restores, Layout

LEMMA PublishKeeps ==
    ASSUME RouteInv, NEW fault, WriteRegister(fault), call.phase = "publish"
    PROVE  RouteInv'
<1>0. PICK f, mode, a, h, write, q :
        /\ f = call.function /\ mode = call.mode /\ a = MaskWord(f, mode) /\ h = HighWord(f, mode)
        /\ write = Publishes(f, mode)[call.at] /\ q = Registered(fault, write)
    OBVIOUS
<1>a. call.phase # "idle"
    OBVIOUS
<1> DEFINE writes == Publishes(f, mode)
<1>1. /\ f \in Functions /\ mode \in Modes /\ call.at \in 1..Len(writes)
      /\ call.at <= 4 + a + h => ~regs[f][mode].enable
    BY <1>0 DEF RouteInv, Running, Progress
<1>2. a \in 0..1 /\ h \in 0..1 /\ Len(writes) \in Nat /\ Len(Disables(f, mode)) \in 1..2
    BY <1>0, PublishesIs, DisablesIs
<1>3. /\ Wrote(fault, write)
      /\ \/ Sticks(fault, write) /\ Commit(f)
         \/ call' = [call EXCEPT !.phase = "disable", !.at = 1] /\ owner' = owner
         \/ /\ Sticks(fault, write) /\ call.at # Len(writes) /\ owner' = owner
            /\ \E restored : call' = [call EXCEPT !.at = @ + 1, !.restored = restored]
    BY <1>0, PublishStep
<1>4. /\ q \in Register
      /\ call.at < 4 + a + h => ~q.enable
      /\ call.at >= 4 + a + h => q.low = "ours" /\ q.data = "ours" /\ (h = 1 => q.high = "ours")
      /\ Sticks(fault, write) =>
             /\ call.at >= 2 + a => q.low = "ours"
             /\ h = 1 /\ call.at >= 3 + a => q.high = "ours"
             /\ call.at >= 3 + a + h => q.data = "ours"
    BY ONLY <1>0, RouteInv, call.phase = "publish", Published
<1>5. caps' = caps /\ regs' = [regs EXCEPT ![f][mode] = q] /\ regs'[f][mode] = q
    BY <1>0, <1>1, <1>3 DEF RouteInv, RouteTypeOK, Wrote
<1>6. q.enable => q.low = "ours" /\ q.data = "ours" /\ (h = 1 => q.high = "ours")
    <2>1. call.at < 4 + a + h \/ call.at >= 4 + a + h
        BY <1>1, <1>2
    <2> QED BY ONLY <1>4, <2>1
<1>b. q.enable => q.low = "ours" /\ q.data = "ours" /\ (HighWord(f, mode) = 1 => q.high = "ours")
    BY <1>0, <1>6
<1>7. /\ owner = [function |-> owner.function, mode |-> owner.mode, state |-> owner.state]
      /\ call = [function |-> call.function, mode |-> call.mode, phase |-> call.phase, at |-> call.at,
                 restored |-> call.restored]
    BY DEF RouteInv, RouteTypeOK
<1>c. Settled
    BY ONLY RouteInv, <1>0, <1>a, <1>4, <1>5, <1>b, WriteKeeps
<1>8. CASE Commit(f)
    BY <1>8, <1>c, EndKeeps DEF Commit, Return
<1>9. CASE call' = [call EXCEPT !.phase = "disable", !.at = 1] /\ owner' = owner
    <2>1. call' = [call EXCEPT !.phase = "disable", !.at = 1, !.restored = call.restored]
        BY <1>7, <1>9
    <2>2. Progress(f, mode)'
        <3>1. /\ call'.phase = "disable" /\ call'.at = 1
              /\ call'.phase # "publish" /\ call'.phase # "restore"
            BY <1>7, <2>1
        <3>2. Disables(f, mode)' = Disables(f, mode) /\ 1 \in 1..Len(Disables(f, mode))
            <4>1. caps' = caps
                BY <1>5
            <4>2. Disables(f, mode)' = Disables(f, mode)
                BY ONLY <4>1, ProgressUnchanged
            <4>3. 1 \in 1..Len(Disables(f, mode))
                BY <1>2, SMTT(30)
            <4> QED BY <4>2, <4>3
        <3> QED BY <3>1, <3>2 DEF Progress
    <2> QED BY <1>0, <1>a, <1>c, <1>9, <2>1, <2>2, StepKeeps
<1>10. ASSUME NEW restored, Sticks(fault, write), call.at # Len(writes), owner' = owner,
              call' = [call EXCEPT !.at = @ + 1, !.restored = restored]
       PROVE  RouteInv'
    <2>1. call' = [call EXCEPT !.phase = "publish", !.at = call.at + 1, !.restored = restored]
        BY <1>0, <1>7, <1>10
    <2>2. Progress(f, mode)'
        <3>1. /\ call.at + 1 \in 1..Len(writes)
              /\ call.at + 1 <= 4 + a + h => call.at < 4 + a + h
              /\ call.at + 1 > 2 + a => call.at >= 2 + a
              /\ call.at + 1 > 3 + a => call.at >= 3 + a
              /\ call.at + 1 > 3 + a + h => call.at >= 3 + a + h
            BY <1>1, <1>2, <1>10
        <3>2. /\ call'.phase = "publish" /\ call'.at = call.at + 1
              /\ call'.phase # "disable" /\ call'.phase # "restore"
            BY <1>7, <2>1
        <3>3. /\ MaskWord(f, mode)' = a /\ HighWord(f, mode)' = h /\ Publishes(f, mode)' = writes
            BY <1>0, <1>5, ProgressUnchanged
        <3> HIDE DEF writes
        <3> QED BY <1>4, <1>5, <1>10, <3>1, <3>2, <3>3 DEF Progress
    <2> QED BY <1>0, <1>a, <1>c, <1>10, <2>1, <2>2, StepKeeps
<1> QED BY <1>3, <1>8, <1>9, <1>10

LEMMA DisableKeeps ==
    ASSUME RouteInv, NEW fault, WriteRegister(fault), call.phase = "disable"
    PROVE  RouteInv'
<1>0. PICK f, mode, write, q, writes :
        /\ f = call.function /\ mode = call.mode /\ writes = Disables(f, mode)
        /\ write = writes[call.at] /\ q = Registered(fault, write)
    OBVIOUS
<1> DEFINE r == regs[f][mode]
<1>a. call.phase # "idle"
    OBVIOUS
<1>1. /\ f \in Functions /\ mode \in Modes /\ call.at \in 1..Len(writes) /\ (call.at # 1 => ~r.enable)
      /\ r \in Register /\ caps[f].firmware = "none"
      /\ r.enable => r.low = "ours" /\ r.data = "ours" /\ (HighWord(f, mode) = 1 => r.high = "ours")
    <2>1. /\ f \in Functions /\ mode \in Modes /\ call.at \in 1..Len(writes) /\ (call.at # 1 => ~r.enable)
          /\ caps[f].firmware = "none"
        BY <1>0 DEF RouteInv, Running, Progress
    <2>2. r \in Register
        BY <2>1 DEF RouteInv, RouteTypeOK
    <2>3. r.enable => Ours(f, mode)
        BY <2>1 DEF RouteInv, Enabling, Modes
    <2> QED BY <2>1, <2>2, <2>3 DEF Ours, HighWord
<1>2. Len(writes) \in 1..2 /\ writes[1] = Disabled(mode) /\ (Len(writes) = 2 => writes[2] = Write("mask", TRUE))
    <2>1. writes = Disables(f, mode)
        BY <1>0
    <2> QED BY ONLY <2>1, DisablesIs DEF Write
<1>3. /\ Wrote(fault, write)
      /\ \/ Keep(f)
         \/ /\ Sticks(fault, write) /\ call.at = Len(writes) /\ owner' = owner
            /\ call' = [call EXCEPT !.phase = "restore", !.at = 1]
         \/ /\ Sticks(fault, write) /\ call.at # Len(writes) /\ owner' = owner
            /\ \E restored : call' = [call EXCEPT !.at = @ + 1, !.restored = restored]
    BY <1>0, DisableStep
<1>4. (q = r \/ q = Stored(r, write)) /\ (Sticks(fault, write) => Held(q, write) = write.value)
    BY <1>0 DEF Registered, Sticks
<1> HIDE DEF r
\* Nothing is enabled that was not, and the first write disables.
<1>5. /\ q \in Register
      /\ q.enable => r.enable /\ q.low = r.low /\ q.high = r.high /\ q.data = r.data
      /\ Sticks(fault, write) => ~q.enable
    <2>1. CASE call.at = 1
        <3>1. write = Write("control", [enable |-> FALSE, fmask |-> mode = "msix"]) /\ (mode = "msix") \in BOOLEAN
            BY <1>0, <1>2, <2>1, Zenon DEF Disabled
        <3>2. PICK g \in BOOLEAN : write = Write("control", [enable |-> FALSE, fmask |-> g])
            BY ONLY <3>1, Zenon
        <3>3. PICK e \in BOOLEAN : ~e /\ write = Write("control", [enable |-> e, fmask |-> g])
            BY ONLY <3>2, Zenon
        <3>4. /\ Stored(r, write) \in Register
              /\ Stored(r, write).enable = e
              /\ \A p \in Register : Held(p, write) = write.value => p.enable = e
            <4>1. r \in Register
                BY <1>1
            <4> HIDE DEF r
            <4> QED BY ONLY <4>1, <3>3, ControlWritten
        <3> QED BY <1>1, <1>4, <3>3, <3>4
    <2>2. CASE call.at # 1
        <3>1. Len(writes) = 2 /\ call.at = 2
            <4> DEFINE l == Len(writes)
                       n == call.at
            <4>1. l \in 1..2 /\ n \in 1..l /\ n # 1
                BY <1>1, <1>2, <2>2
            <4> HIDE DEF l, n
            <4>2. l = 2 /\ n = 2
                BY ONLY <4>1
            <4> QED BY <4>2 DEF l, n
        <3>2. write = Write("mask", TRUE)
            BY <1>0, <1>2, <3>1, Zenon
        <3>3. /\ Stored(r, write) \in Register /\ Stored(r, write).enable = r.enable
            BY <1>1, <3>2, MaskWritten
        <3> QED BY <1>1, <1>4, <2>2, <3>3
    <2> QED BY <2>1, <2>2
<1>6. q.enable => q.low = "ours" /\ q.data = "ours" /\ (HighWord(f, mode) = 1 => q.high = "ours")
    BY <1>1, <1>5
<1>7. caps' = caps /\ regs' = [regs EXCEPT ![f][mode] = q] /\ regs'[f][mode] = q
    BY <1>0, <1>1, <1>3 DEF RouteInv, RouteTypeOK, Wrote
<1>8. Settled
    <2>1. q \in Register
        BY <1>5
    <2> QED BY ONLY RouteInv, <1>0, <1>a, <1>6, <1>7, <2>1, WriteKeeps
<1>9. call = [function |-> call.function, mode |-> call.mode, phase |-> call.phase, at |-> call.at,
              restored |-> call.restored]
    BY DEF RouteInv, RouteTypeOK
<1>10. CASE Keep(f)
    BY <1>8, <1>10, EndKeeps DEF Keep, Return
<1>11. Disables(f, mode)' = writes /\ Restores(f, mode)' = Restores(f, mode)
    BY <1>0, <1>7, ProgressUnchanged
<1>12. CASE /\ Sticks(fault, write) /\ owner' = owner
            /\ call' = [call EXCEPT !.phase = "restore", !.at = 1]
    <2>1. call' = [call EXCEPT !.phase = "restore", !.at = 1, !.restored = call.restored]
        BY <1>9, <1>12
    <2>2. call'.phase = "restore" /\ call'.at = 1 /\ call'.phase # "publish" /\ call'.phase # "disable"
        BY <1>9, <2>1
    <2>3. 1 \in 1..Len(Restores(f, mode))
        BY RestoresIs
    <2>4. Progress(f, mode)'
        BY <1>5, <1>7, <1>11, <1>12, <2>2, <2>3 DEF Progress
    <2> QED BY <1>0, <1>a, <1>8, <1>12, <2>1, <2>4, StepKeeps
<1>13. ASSUME NEW restored, Sticks(fault, write), call.at # Len(writes), owner' = owner,
              call' = [call EXCEPT !.at = @ + 1, !.restored = restored]
       PROVE  RouteInv'
    <2>1. call' = [call EXCEPT !.phase = "disable", !.at = call.at + 1, !.restored = restored]
        BY <1>9, <1>13
    <2>2. call'.phase = "disable" /\ call'.at = call.at + 1 /\ call'.phase # "publish" /\ call'.phase # "restore"
        BY <1>9, <2>1
    <2>3. call.at + 1 \in 1..Len(writes)
        BY <1>1, <1>2, <1>13
    <2>4. Progress(f, mode)'
        BY <1>5, <1>7, <1>11, <1>13, <2>2, <2>3 DEF Progress
    <2> QED BY <1>0, <1>a, <1>8, <1>13, <2>1, <2>4, StepKeeps
<1> QED BY <1>3, <1>10, <1>12, <1>13

LEMMA RestoreKeeps ==
    ASSUME RouteInv, NEW fault, WriteRegister(fault), call.phase = "restore"
    PROVE  RouteInv'
<1>0. PICK f, mode, write, q, writes :
        /\ f = call.function /\ mode = call.mode /\ writes = Restores(f, mode)
        /\ write = writes[call.at] /\ q = Registered(fault, write)
    OBVIOUS
<1> DEFINE r == regs[f][mode]
<1>a. call.phase # "idle"
    OBVIOUS
<1>1. /\ f \in Functions /\ mode \in Modes /\ call.at \in 1..Len(writes) /\ ~r.enable
      /\ r \in Register /\ caps[f].firmware = "none" /\ owner.function = f /\ owner.mode = mode
    <2>1. /\ f \in Functions /\ mode \in Modes /\ call.at \in 1..Len(writes) /\ ~r.enable
          /\ caps[f].firmware = "none" /\ owner.function = f /\ owner.mode = mode
        BY <1>0 DEF RouteInv, Running, Progress
    <2> QED BY <2>1 DEF RouteInv, RouteTypeOK
<1>2. Len(writes) \in Nat /\ \E name \in {"low", "high", "data"} : write = Write(name, "firmware")
    <2>1. writes = Restores(f, mode) /\ write = writes[call.at] /\ call.at \in 1..Len(writes)
        BY <1>0, <1>1
    <2> QED BY ONLY <2>1, RestoresIs
<1>3. /\ Wrote(fault, write)
      /\ \/ Keep(f)
         \/ ReleaseAndTryNext(f)
         \/ /\ call.at # Len(writes) /\ owner' = owner
            /\ \E restored : call' = [call EXCEPT !.at = @ + 1, !.restored = restored]
    BY <1>0, RestoreStep
<1>4. q = r \/ q = Stored(r, write)
    BY <1>0 DEF Registered
<1> HIDE DEF r
\* The message is put back into a capability that stays disabled.
<1>5. q \in Register /\ ~q.enable
    <2>1. PICK name \in {"low", "high", "data"} : write = Write(name, "firmware")
        BY <1>2
    <2>2. Stored(r, write) \in Register /\ Stored(r, write).enable = r.enable
        <3>1. r \in Register /\ "firmware" \in Contents
            BY <1>1 DEF Contents
        <3> QED BY ONLY <2>1, <3>1, FieldWritten, SMTT(30)
    <2> QED BY <1>1, <1>4, <2>2
<1>6. caps' = caps /\ regs' = [regs EXCEPT ![f][mode] = q] /\ regs'[f][mode] = q
    BY <1>0, <1>1, <1>3 DEF RouteInv, RouteTypeOK, Wrote
<1>7. Settled
    BY ONLY RouteInv, <1>0, <1>a, <1>5, <1>6, WriteKeeps
<1>8. call = [function |-> call.function, mode |-> call.mode, phase |-> call.phase, at |-> call.at,
              restored |-> call.restored]
    BY DEF RouteInv, RouteTypeOK
<1>9. CASE Keep(f)
    BY <1>7, <1>9, EndKeeps DEF Keep, Return
<1>10. ASSUME NEW restored, call.at # Len(writes), owner' = owner,
              call' = [call EXCEPT !.at = @ + 1, !.restored = restored]
       PROVE  RouteInv'
    <2>1. call' = [call EXCEPT !.phase = "restore", !.at = call.at + 1, !.restored = restored]
        BY <1>8, <1>10
    <2>2. call'.phase = "restore" /\ call'.at = call.at + 1 /\ call'.phase # "publish" /\ call'.phase # "disable"
        BY <1>8, <2>1
    <2>3. call.at + 1 \in 1..Len(writes)
        BY <1>1, <1>2, <1>10
    <2>4. Restores(f, mode)' = writes
        BY <1>0, <1>6, ProgressUnchanged
    <2>5. Progress(f, mode)'
        BY <1>5, <1>6, <2>2, <2>3, <2>4 DEF Progress
    <2> QED BY <1>0, <1>a, <1>7, <1>10, <2>1, <2>5, StepKeeps
<1>11. CASE ReleaseAndTryNext(f)
    <2> DEFINE modes_ == IF call.mode = "msix" THEN {"msi"} ELSE {}
    <2>1. PICK modes \in SUBSET Modes : modes = modes_
        BY DEF Modes
    <2>2. Try(f, modes, "ReadbackFailed", Unowned)
        BY <1>11, <2>1 DEF ReleaseAndTryNext
    \* The vector was this capability's, and this capability is disabled.
    <2>3. ASSUME NEW g \in Functions, NEW m \in Modes
          PROVE  ~(regs'[g][m].enable /\ caps[g].firmware # m)
        <3>1. CASE g = f /\ m = mode
            BY <1>5, <1>6, <3>1
        <3>2. CASE ~(g = f /\ m = mode)
            <4>1. regs'[g][m] = regs[g][m]
                BY <1>1, <1>6, <3>2 DEF RouteInv, RouteTypeOK
            <4>2. regs[g][m].enable /\ caps[g].firmware # m => owner.function = g /\ owner.mode = m
                BY DEF RouteInv, Enabling
            <4> QED BY <1>1, <3>2, <4>1, <4>2
        <3> QED BY <3>1, <3>2
    <2>4. Unowned = [function |-> Unowned.function, mode |-> Unowned.mode, state |-> Unowned.state]
        BY DEF Unowned
    <2>5. \A m \in modes : Supports(f, m) => ~regs'[f][m].enable
        BY <1>1, <2>3 DEF Modes
    <2>6. caps \in [Functions -> Capabilities] /\ regs' \in [Functions -> [Modes -> Register]] /\ Untouched'
        BY <1>7 DEF Settled, RouteInv, RouteTypeOK
    <2> QED BY <1>1, <1>6, <2>2, <2>3, <2>4, <2>5, <2>6, TryKeeps
<1> QED BY <1>3, <1>9, <1>10, <1>11

LEMMA ArmKeeps ==
    ASSUME RouteInv, NEW f \in Functions, NEW wellFormed \in BOOLEAN, Arm(f, wellFormed)
    PROVE  RouteInv'
<1>1. caps' = caps /\ regs' = regs /\ call = NoCall
    BY DEF Arm
<1>2. /\ caps \in [Functions -> Capabilities] /\ regs' \in [Functions -> [Modes -> Register]]
      /\ owner = [function |-> owner.function, mode |-> owner.mode, state |-> owner.state]
      /\ Untouched'
    BY <1>1 DEF RouteInv, RouteTypeOK, Untouched
<1>3. Enabling /\ \A g \in Functions, m \in Modes : Ours(g, m)' = Ours(g, m)
    BY <1>1 DEF RouteInv, Ours, Layout
<1>4. CASE call' = NoCall /\ owner' = owner
    <2>1. Enabling'
        BY <1>1, <1>3, <1>4 DEF Enabling
    <2>2. call'.phase = "idle" /\ call' = [function |-> call'.function, mode |-> call'.mode, phase |-> call'.phase,
                                         at |-> call'.at, restored |-> call'.restored]
        BY <1>4 DEF NoCall
    <2> QED BY <1>1, <1>2, <1>4, <2>1, <2>2 DEF RouteInv, RouteTypeOK, Running
<1>5. CASE ~LeftEnabled(f) /\ Try(f, Modes, "InvalidCapability", owner)
    <2>1. caps[f] \in Capabilities
        BY <1>2
    <2>2. caps[f].firmware = "none"
        <3>1. caps[f].firmware \in caps[f].has \cup {"none"} /\ caps[f].firmware \in Modes \cup {"none"}
            BY <2>1 DEF Capabilities
        <3>2. ASSUME NEW m \in Modes, caps[f].firmware = m PROVE m \notin caps[f].has
            <4>1. regs[f][m] = Registers(caps[f], m)
                BY <3>2 DEF RouteInv, Untouched
            <4>2. regs[f][m].enable
                <5>1. regs[f][m] = [enable |-> TRUE, fmask |-> FALSE, mask |-> FALSE,
                                    low |-> "firmware", high |-> "firmware", data |-> "firmware"]
                    <6>1. (caps[f].firmware = m) = TRUE
                        BY ONLY <3>2, Zenon
                    <6> QED BY ONLY <4>1, <6>1, Zenon DEF Registers
                <5> QED BY ONLY <5>1
            <4> QED BY <1>5, <4>2 DEF LeftEnabled
        <3> QED BY <3>1, <3>2 DEF Modes
    <2>3. \A m \in Modes : Supports(f, m) => ~regs'[f][m].enable
        BY <1>1, <1>5 DEF Supports, LeftEnabled
    <2>4. \A g \in Functions, m \in Modes :
              regs'[g][m].enable /\ caps[g].firmware # m => owner.function = g /\ owner.mode = m /\ Ours(g, m)'
        BY <1>1, <1>3 DEF Enabling
    <2>5. PICK modes, last : modes \in SUBSET Modes /\ Try(f, modes, last, owner) /\ modes = Modes
        BY <1>5
    <2> QED BY <1>1, <1>2, <2>2, <2>3, <2>4, <2>5, TryKeeps
<1> QED BY <1>4, <1>5 DEF Arm, Return

LEMMA RouteKeeps == ASSUME RouteInv, [PciNext]_pciVars PROVE RouteInv'
<1>1. CASE \E f \in Functions, wellFormed \in BOOLEAN : Arm(f, wellFormed)
    BY <1>1, ArmKeeps
<1>2. ASSUME NEW fault, WriteRegister(fault) PROVE RouteInv'
    <2>1. call.phase \in {"publish", "disable", "restore"}
        BY <1>2 DEF RouteInv, RouteTypeOK, WriteRegister
    <2> QED BY <1>2, <2>1, PublishKeeps, DisableKeeps, RestoreKeeps
<1>3. CASE UNCHANGED pciVars
    <2>1. caps' = caps /\ regs' = regs /\ owner' = owner /\ call' = call
        BY <1>3 DEF pciVars
    <2>2. RouteTypeOK' /\ Untouched'
        BY <2>1 DEF RouteInv, RouteTypeOK, Untouched
    <2>3. Enabling'
        <3>1. \A g \in Functions, m \in Modes : Ours(g, m)' = Ours(g, m)
            BY <2>1 DEF Ours, Layout
        <3> QED BY <2>1, <3>1 DEF RouteInv, Enabling
    <2>4. Running'
        <3>1. SUFFICES ASSUME NEW f, NEW mode, f = call.function, mode = call.mode, Progress(f, mode)
                       PROVE  Progress(f, mode)'
            BY <2>1 DEF RouteInv, Running, Progress
        <3>2. /\ MaskWord(f, mode)' = MaskWord(f, mode) /\ HighWord(f, mode)' = HighWord(f, mode)
              /\ Publishes(f, mode)' = Publishes(f, mode) /\ Disables(f, mode)' = Disables(f, mode)
              /\ Restores(f, mode)' = Restores(f, mode)
            BY <2>1, ProgressUnchanged
        <3> QED BY <2>1, <3>1, <3>2 DEF Progress
    <2> QED BY <2>2, <2>3, <2>4 DEF RouteInv
<1> QED BY <1>1, <1>2, <1>3 DEF PciNext

\* Whatever writes are dropped or read back wrong, and however far a
\* transaction or its rollback has come, a function that may send its message
\* sends the driver's or the firmware's, never half of each
\* (program in kernel/src/pci/interrupts.rs).
THEOREM MessageAlwaysWhole == PciSpec => []MessageWhole
<1>1. PciInit => RouteInv
    BY RouteInit
<1>2. RouteInv /\ [PciNext]_pciVars => RouteInv'
    BY RouteKeeps
<1>3. RouteInv => MessageWhole
    BY RouteSound
<1> QED BY <1>1, <1>2, <1>3, PTL DEF PciSpec

\* A capability that the driver has enabled, or failed to disable, holds the
\* vector, so the vector is never handed to two of them
\* (arm_interrupts_for_device in kernel/src/pci.rs).
THEOREM VectorAlwaysHeld == PciSpec => []VectorHeld
<1>1. PciInit => RouteInv
    BY RouteInit
<1>2. RouteInv /\ [PciNext]_pciVars => RouteInv'
    BY RouteKeeps
<1>3. RouteInv => VectorHeld
    BY RouteSound
<1> QED BY <1>1, <1>2, <1>3, PTL DEF PciSpec

-----------------------------------------------------------------------------
(* Resources.                                                              *)

\* While a BAR is measured its registers may hold the mask, and those whose
\* restoration is still to come are the only ones that do; decoding is off
\* from the first write to the last.
Measuring(i, n) ==
    IF Decoded[i] = "mem64"
    THEN /\ n \in 1..6
         /\ \A k \in Indices : register[k] # "assigned" => (k = i /\ n \in {3, 4}) \/ (k = i + 1 /\ n \in {4, 5})
    ELSE n \in 1..4 /\ \A k \in Indices : register[k] # "assigned" => k = i /\ n = 3

ProbeInv ==
    /\ register \in [Indices -> {"assigned", "mask"}]
    /\ probe = [index |-> probe.index, write |-> probe.write] /\ probe.index \in Nat
    /\ decoding = (probe.write = 1)
    /\ IF Probing /\ Probeable THEN Measuring(probe.index, probe.write)
       ELSE probe.write = 1 /\ \A k \in Indices : register[k] = "assigned"

LEMMA ProbeStart == ASSUME ResourcesInit PROVE ProbeInv
<1>1. register \in [Indices -> {"assigned", "mask"}] /\ \A k \in Indices : register[k] = "assigned"
    BY DEF ResourcesInit
<1>2. probe = [index |-> 0, write |-> 1] /\ decoding = TRUE
    BY DEF ResourcesInit
<1>3. probe = [index |-> probe.index, write |-> probe.write] /\ probe.index = 0 /\ probe.write = 1
    BY <1>2
<1>4. decoding = (probe.write = 1)
    BY <1>2, <1>3
<1> QED BY <1>1, <1>3, <1>4 DEF ProbeInv, Measuring

\* The next BAR finds everything as it was.
LEMMA NextBarKeeps ==
    ASSUME ProbeInv, Probing, probe' = NextBar, raw' = raw, decoding' = TRUE,
           register' \in [Indices -> {"assigned", "mask"}], \A k \in Indices : register'[k] = "assigned"
    PROVE  ProbeInv'
<1>0. probe.index \in Nat
    BY DEF ProbeInv
<1>1. PICK n \in Nat : probe' = [index |-> n, write |-> 1]
    BY <1>0 DEF NextBar
<1>2. probe' = [index |-> probe'.index, write |-> probe'.write] /\ probe'.index \in Nat /\ probe'.write = 1
    BY <1>1
<1>3. decoding' = (probe'.write = 1)
    BY <1>2
<1>4. Measuring(probe.index, probe.write)'
    BY <1>2 DEF Measuring
<1> QED BY <1>2, <1>3, <1>4 DEF ProbeInv

LEMMA SkipKeeps == ASSUME ProbeInv, SkipBar PROVE ProbeInv'
<1>1. probe.write = 1 /\ (\A k \in Indices : register[k] = "assigned") /\ decoding = TRUE
    BY DEF ProbeInv, SkipBar
<1> QED BY <1>1, NextBarKeeps DEF SkipBar, ProbeInv

LEMMA MeasureKeeps == ASSUME ProbeInv, ProbeWrite PROVE ProbeInv'
<1>0. PICK i, n : i = probe.index /\ n = probe.write
    OBVIOUS
<1> DEFINE writes == Writes(i)
           w == writes[n]
           length == IF Decoded[i] = "mem64" THEN 6 ELSE 4
<1>1. i \in Nat /\ Probing /\ Probeable /\ Measuring(i, n) /\ register \in [Indices -> {"assigned", "mask"}]
        /\ decoding = (n = 1) /\ probe = [index |-> i, write |-> n] /\ raw' = raw
    BY <1>0 DEF ProbeWrite, ProbeInv
<1>2. n \in 1..length /\ Len(writes) = length
    BY <1>1 DEF Writes, Measuring
<1>3. w = IF n = 1 THEN Off ELSE IF n = length THEN On
          ELSE IF Decoded[i] = "mem64"
               THEN IF n = 2 THEN Mask(i) ELSE IF n = 3 THEN Mask(i + 1) ELSE IF n = 4 THEN Restore(i) ELSE Restore(i + 1)
               ELSE IF n = 2 THEN Mask(i) ELSE Restore(i)
    BY <1>2 DEF Writes
<1>4. /\ decoding' = CASE w.what = "off" -> FALSE [] w.what = "on" -> TRUE [] OTHER -> decoding
      /\ register' = CASE w.what = "mask" -> [register EXCEPT ![w.bar] = "mask"]
                            [] w.what = "restore" -> [register EXCEPT ![w.bar] = "assigned"]
                            [] OTHER -> register
      /\ probe' = IF n < Len(writes) THEN [probe EXCEPT !.write = @ + 1] ELSE NextBar
    BY <1>0 DEF ProbeWrite
<1>5. /\ w.what = "off" => decoding' = FALSE /\ register' = register
      /\ w.what = "on" => decoding' = TRUE /\ register' = register
      /\ w.what = "mask" => decoding' = decoding /\ register' = [register EXCEPT ![w.bar] = "mask"]
      /\ w.what = "restore" => decoding' = decoding /\ register' = [register EXCEPT ![w.bar] = "assigned"]
    <2> HIDE DEF w
    <2> QED BY <1>4, Zenon
<1> HIDE DEF writes, w
<1>6. CASE n = length
    <2>1. w.what = "on" /\ \A k \in Indices : register[k] = "assigned"
        BY <1>1, <1>2, <1>3, <1>6 DEF On, Measuring
    <2>2. probe' = NextBar
        BY <1>2, <1>4, <1>6
    <2> QED BY <1>1, <1>5, <2>1, <2>2, NextBarKeeps
<1>7. CASE n < length
    <2>1. probe' = [index |-> i, write |-> n + 1] /\ n \in Nat
        BY <1>1, <1>2, <1>4, <1>7
    <2>2. decoding' = FALSE /\ register' \in [Indices -> {"assigned", "mask"}]
        <3>1. CASE n = 1
            BY <1>1, <1>3, <1>5, <3>1 DEF Off
        <3>2. CASE n # 1
            <4>1. w \in {Mask(i), Mask(i + 1), Restore(i), Restore(i + 1)}
                BY <1>3, <1>7, <3>2
            <4>2. w.what = "mask" \/ w.what = "restore"
                BY <4>1 DEF Mask, Restore
            <4>3. decoding' = decoding /\ decoding = FALSE
                BY <1>1, <1>5, <3>2, <4>2
            <4> QED BY <1>1, <1>5, <4>2, <4>3
        <3> QED BY <3>1, <3>2
    <2>3. probe' = [index |-> probe'.index, write |-> probe'.write] /\ probe'.index = i /\ probe'.write = n + 1
            /\ (n + 1 = 1) = FALSE
        BY <1>2, <2>1
    <2>4. decoding' = (probe'.write = 1)
        BY <2>2, <2>3
    <2>5. Decoded' = Decoded /\ Indices' = Indices
        BY <1>1, Zenon DEF Decoded, Indices
    <2>6. Measuring(i, n + 1)'
        BY <1>1, <1>2, <1>3, <1>5, <1>7, <2>5 DEF Measuring, Mask, Restore, Off
    <2>7. Probing' /\ Probeable'
        BY <1>1, <2>3, <2>5 DEF Probing, Probeable
    <2> QED BY <1>1, <2>2, <2>3, <2>4, <2>6, <2>7 DEF ProbeInv
<1> QED BY <1>2, <1>6, <1>7

LEMMA MappingLeavesProbe == ASSUME ProbeInv, UNCHANGED <<raw, register, decoding, probe>> PROVE ProbeInv'
<1>1. raw' = raw /\ register' = register /\ decoding' = decoding /\ probe' = probe
    OBVIOUS
<1>2. Decoded' = Decoded
    BY <1>1, Zenon DEF Decoded
<1> QED BY <1>1, <1>2 DEF ProbeInv, Probing, Probeable, Measuring

Mappings == [base : Nat, size : Nat, window : Nat]
MappedPages(m) == m.window .. m.window + WindowPageCount(m) - 1

\* Mappings follow each other in the window, and the next one follows them.
WindowInv ==
    /\ mappings \in Seq(Mappings)
    /\ next_offset \in Nat
    /\ table = [page \in DOMAIN table |-> table[page]]
    /\ \A page : page \in DOMAIN table <=> \E i \in 1..Len(mappings) : page \in MappedPages(mappings[i])
    /\ \A i \in 1..Len(mappings) :
           /\ mappings[i].window + WindowPageCount(mappings[i]) <= next_offset
           /\ \A page \in MappedPages(mappings[i]) : table[page] = FirstPage(mappings[i]) + page - mappings[i].window
    /\ \A i, j \in 1..Len(mappings) : i # j => MappedPages(mappings[i]) \cap MappedPages(mappings[j]) = {}

LEMMA WindowCounted ==
    ASSUME NEW m, m.base \in Nat, m.size \in Nat
    PROVE  WindowPageCount(m) \in Nat
<1> DEFINE r == m.base % MmioPageSize
           s == m.size
           p == MmioPageSize
<1>1. p \in Nat \ {0} /\ r \in Nat /\ s \in Nat
    BY ResourcesAssumption
<1> HIDE DEF r, s, p
<1>2. (r + s + p - 1) \in Nat
    BY <1>1
<1>3. (r + s + p - 1) \div p \in Nat
    BY <1>1, <1>2
<1> QED BY <1>3 DEF WindowPageCount, r, s, p

LEMMA WindowSound == ASSUME WindowInv PROVE WindowIsMappings
<1>1. DOMAIN mappings = 1..Len(mappings) /\ Range(mappings) = {mappings[i] : i \in 1..Len(mappings)}
    BY DEF WindowInv, Range
<1>2. DOMAIN table = UNION {MappedPages(m) : m \in Range(mappings)}
    <2>1. \A page : page \in DOMAIN table <=> \E i \in 1..Len(mappings) : page \in MappedPages(mappings[i])
        BY DEF WindowInv
    <2>2. \A page : page \in DOMAIN table <=> \E m \in Range(mappings) : page \in MappedPages(m)
        BY ONLY <1>1, <2>1
    <2> QED BY ONLY <2>2, Zenon
<1>3. \A m \in Range(mappings) : \A page \in MappedPages(m) : table[page] = FirstPage(m) + page - m.window
    BY <1>1 DEF WindowInv
<1>4. \A i, j \in DOMAIN mappings : i # j => MappedPages(mappings[i]) \cap MappedPages(mappings[j]) = {}
    BY <1>1 DEF WindowInv
<1> QED BY <1>2, <1>3, <1>4 DEF WindowIsMappings, MappedPages

LEMMA WindowStart == ASSUME ResourcesInit PROVE WindowInv
<1>1. mappings = <<>> /\ next_offset = 0 /\ table = [page \in {} |-> 0]
    BY DEF ResourcesInit
<1>2. mappings \in Seq(Mappings) /\ Len(mappings) = 0
    BY <1>1
<1>3. DOMAIN table = {} /\ table = [page \in DOMAIN table |-> table[page]]
    BY <1>1
<1> QED BY <1>1, <1>2, <1>3 DEF WindowInv

LEMMA MapKeeps == ASSUME WindowInv, NEW bar \in BarResources, MapBar(bar) PROVE WindowInv'
<1> DEFINE m == [base |-> bar.base, size |-> bar.size, window |-> next_offset]
<1>0. PICK n, o, l : n = WindowPageCount(bar) /\ o = next_offset /\ l = Len(mappings)
    OBVIOUS
<1>1. /\ bar.base \in Nat /\ bar.size \in Nat /\ n \in Nat /\ o \in Nat
      /\ mappings \in Seq(Mappings) /\ l \in Nat
    BY <1>0, WindowCounted, ResourcesAssumption DEF BarResources, WindowInv
<1>2. mappings' = Append(mappings, m) /\ next_offset' = o + n /\ table' = Mapped(bar, n)
    BY <1>0 DEF MapBar
<1>3. m \in Mappings /\ m.window = o /\ WindowPageCount(m) = n /\ FirstPage(m) = FirstPage(bar)
    BY <1>0, <1>1 DEF Mappings, WindowPageCount, FirstPage
<1>4. /\ mappings' \in Seq(Mappings) /\ Len(mappings') = l + 1
      /\ \A i \in 1..l : mappings'[i] = mappings[i]
      /\ mappings'[l + 1] = m
    BY <1>0, <1>1, <1>2, <1>3, AppendProperties
<1>5. MappedPages(m) = o .. o + n - 1 /\ o .. o + n - 1 \cap DOMAIN table = {}
    <2>1. WindowOf(bar) \cap DOMAIN table = {}
        BY DEF MapBar, Refused
    <2> QED BY <1>0, <1>3, <2>1 DEF MappedPages, WindowOf
<1>6. /\ DOMAIN table' = DOMAIN table \cup o .. o + n - 1
      /\ table' = [page \in DOMAIN table' |-> table'[page]]
      /\ \A page \in DOMAIN table : table'[page] = table[page]
      /\ \A page \in o .. o + n - 1 : table'[page] = FirstPage(bar) + page - o
    BY <1>0, <1>2, <1>5 DEF Mapped
<1> HIDE DEF m
<1>7. \A i \in 1..l + 1 : i \in 1..l \/ i = l + 1
    BY <1>1
<1>8. /\ \A page : page \in DOMAIN table <=> \E i \in 1..l : page \in MappedPages(mappings[i])
      /\ \A i \in 1..l :
           /\ mappings[i].window + WindowPageCount(mappings[i]) <= o
           /\ \A page \in MappedPages(mappings[i]) : table[page] = FirstPage(mappings[i]) + page - mappings[i].window
      /\ \A i, j \in 1..l : i # j => MappedPages(mappings[i]) \cap MappedPages(mappings[j]) = {}
    BY <1>0 DEF WindowInv
<1>9. ASSUME NEW page PROVE page \in DOMAIN table' <=> \E i \in 1..l + 1 : page \in MappedPages(mappings'[i])
    <2>1. 1..l \subseteq 1..l + 1 /\ l + 1 \in 1..l + 1
        BY <1>1
    <2> QED BY <1>4, <1>5, <1>6, <1>7, <1>8, <2>1
<1>10. ASSUME NEW i \in 1..l + 1
       PROVE  /\ mappings'[i].window + WindowPageCount(mappings'[i]) <= o + n
              /\ \A page \in MappedPages(mappings'[i]) : table'[page] = FirstPage(mappings'[i]) + page - mappings'[i].window
    <2>1. CASE i \in 1..l
        <3>1. mappings'[i] = mappings[i] /\ mappings[i] \in Mappings
            BY <1>0, <1>1, <1>4, <2>1, ElementOfSeq
        <3>2. mappings[i].window \in Nat /\ WindowPageCount(mappings[i]) \in Nat
            BY <3>1, WindowCounted DEF Mappings
        <3>3. \A page \in MappedPages(mappings[i]) : page \in DOMAIN table
            BY <1>8, <2>1
        <3>4. mappings[i].window + WindowPageCount(mappings[i]) <= o + n
            BY <1>1, <1>8, <2>1, <3>2
        <3> QED BY <1>6, <1>8, <2>1, <3>1, <3>3, <3>4
    <2>2. CASE i = l + 1
        BY <1>1, <1>3, <1>4, <1>5, <1>6, <2>2
    <2> QED BY <1>7, <2>1, <2>2
<1>11. ASSUME NEW i \in 1..l + 1, NEW j \in 1..l + 1, i # j
       PROVE  MappedPages(mappings'[i]) \cap MappedPages(mappings'[j]) = {}
    <2>1. \A k \in 1..l : MappedPages(mappings[k]) \subseteq DOMAIN table
        BY <1>8
    <2>2. MappedPages(m) \cap DOMAIN table = {}
        BY <1>5
    <2>3. CASE i \in 1..l /\ j \in 1..l
        BY <1>4, <1>8, <1>11, <2>3
    <2>4. CASE i \in 1..l /\ j = l + 1
        BY <1>4, <2>1, <2>2, <2>4
    <2>5. CASE i = l + 1 /\ j \in 1..l
        BY <1>4, <2>1, <2>2, <2>5
    <2> QED BY <1>7, <1>11, <2>3, <2>4, <2>5
<1>12. next_offset' \in Nat
    BY <1>1, <1>2
<1>13. \A i : MappedPages(mappings[i])' = MappedPages(mappings'[i])
    BY DEF MappedPages, WindowPageCount
<1> QED BY <1>2, <1>4, <1>6, <1>9, <1>10, <1>11, <1>12, <1>13 DEF WindowInv, WindowPageCount, FirstPage

\* What was mapped of a plan that fails is unmapped again, and nothing else.
LEMMA FailureKeeps ==
    ASSUME WindowInv, NEW bar \in BarResources, NEW pages \in 0..WindowPages, MapFails(bar, pages)
    PROVE  WindowInv'
<1>0. PICK n, o : n = WindowPageCount(bar) /\ o = next_offset
    OBVIOUS
<1>1. n \in Nat /\ o \in Nat /\ pages \in Nat /\ pages < n
    BY <1>0, WindowCounted, ResourcesAssumption DEF BarResources, WindowInv, MapFails
<1>2. o .. o + n - 1 \cap DOMAIN table = {}
    BY <1>0 DEF MapFails, Refused, WindowOf
<1>3. DOMAIN Mapped(bar, pages) = DOMAIN table \cup o .. o + pages - 1
    BY <1>0 DEF Mapped
<1>4. o .. o + pages - 1 \subseteq o .. o + n - 1
    BY <1>1
<1>5. DOMAIN Mapped(bar, pages) \ WindowOf(bar) = DOMAIN table
    BY <1>0, <1>2, <1>3, <1>4 DEF WindowOf
<1>6. table' = table
    BY <1>5 DEF MapFails, RolledBack, WindowInv
<1> QED BY <1>6 DEF MapFails, WindowInv, MappedPages

\* Measuring a BAR is never noticed by the device, which decodes its assigned
\* addresses or none, and mapping one, however often it fails half way, never
\* by a driver that has another (probe_bar_with, map_bar_mmio).
THEOREM ResourcesStayIntact == ResourcesSpec => []ResourcesIntact
<1>1. ResourcesInit => ProbeInv /\ WindowInv
    BY ProbeStart, WindowStart
<1>2. ProbeInv /\ WindowInv /\ [ResourcesNext]_resourceVars => ProbeInv' /\ WindowInv'
    <2> SUFFICES ASSUME ProbeInv, WindowInv, [ResourcesNext]_resourceVars PROVE ProbeInv' /\ WindowInv'
        OBVIOUS
    <2>1. ASSUME UNCHANGED <<mappings, next_offset, table>> PROVE WindowInv'
        BY <2>1 DEF WindowInv, MappedPages
    <2>2. CASE SkipBar
        BY <2>1, <2>2, SkipKeeps DEF SkipBar
    <2>3. CASE ProbeWrite
        BY <2>1, <2>3, MeasureKeeps DEF ProbeWrite
    <2>4. ASSUME NEW bar \in BarResources, MapBar(bar) PROVE ProbeInv' /\ WindowInv'
        BY <2>4, MapKeeps, MappingLeavesProbe DEF MapBar
    <2>5. ASSUME NEW bar \in BarResources, NEW pages \in 0..WindowPages, MapFails(bar, pages)
          PROVE  ProbeInv' /\ WindowInv'
        BY <2>5, FailureKeeps, MappingLeavesProbe DEF MapFails
    <2>6. CASE UNCHANGED resourceVars
        BY <2>1, <2>6, MappingLeavesProbe DEF resourceVars
    <2> QED BY <2>2, <2>3, <2>4, <2>5, <2>6 DEF ResourcesNext
<1>3. ProbeInv /\ WindowInv => ResourcesIntact
    <2> SUFFICES ASSUME ProbeInv, WindowInv PROVE ResourcesIntact
        OBVIOUS
    <2>1. decoding => probe.write = 1
        BY DEF ProbeInv
    <2>2. probe.write = 1 => decoding /\ \A i \in Indices : register[i] = "assigned"
        <3>1. ASSUME probe.write = 1 PROVE \A i \in Indices : register[i] = "assigned"
            <4>1. CASE Probing /\ Probeable
                <5>1. Measuring(probe.index, 1)
                    BY <3>1, <4>1 DEF ProbeInv
                <5> QED BY <5>1 DEF Measuring
            <4> QED BY <4>1 DEF ProbeInv
        <3>2. decoding = (probe.write = 1)
            BY DEF ProbeInv
        <3> QED BY <3>1, <3>2
    <2>3. ~Probing => probe.write = 1
        BY DEF ProbeInv
    <2> QED BY <2>1, <2>2, <2>3, WindowSound DEF ResourcesIntact, ProbeInvisible
<1> QED BY <1>1, <1>2, <1>3, PTL DEF ResourcesSpec

-----------------------------------------------------------------------------
(* PCI discovery.                                                          *)

\* What any function may be.
AnyKind == [class : {"absent", "endpoint", "host", "bridge"}, secondary : Buses, multi : BOOLEAN]

LEMMA KindTypes ==
    /\ Absent \in AnyKind
    /\ \A f : \A kind \in FunctionKinds(f) : kind \in AnyKind
    /\ 0 \in Buses
<1>1. 0 \in Buses
    BY DiscoveryAssumption DEF Buses
<1>2. Absent \in AnyKind
    BY <1>1, Zenon DEF AnyKind, Absent
<1>3. ASSUME NEW f, NEW kind \in FunctionKinds(f) PROVE kind \in AnyKind
    <2>1. CASE kind = Absent
        BY <1>2, <2>1 DEF Absent
    <2>2. CASE kind \in [class : {"endpoint", "host"}, secondary : {0}, multi : IF f = 0 THEN BOOLEAN ELSE {FALSE}]
        BY <1>1, <2>2 DEF AnyKind
    <2>3. CASE kind \in [class : {"bridge"}, secondary : Buses, multi : IF f = 0 THEN BOOLEAN ELSE {FALSE}]
        BY <2>3 DEF AnyKind
    <2> QED BY <2>1, <2>2, <2>3 DEF FunctionKinds
<1> QED BY <1>1, <1>2, <1>3

LEMMA AbsentKind == \A f : \A kind \in FunctionKinds(f) : kind.class = "absent" => kind = Absent
    BY DEF FunctionKinds, Absent

\* The pass has gone by this address.
Passed(a) == \E i \in 1..Len(walk.pending) :
    /\ walk.pending[i] = a[1]
    /\ \/ i < walk.cursor
       \/ i = walk.cursor /\ (a[2] < walk.device \/ (a[2] = walk.device /\ a[3] < walk.function))

WalkTypes ==
    /\ walk = [pending |-> walk.pending, cursor |-> walk.cursor, device |-> walk.device,
               function |-> walk.function, multi |-> walk.multi]
    /\ walk.pending \in Seq(Buses) /\ Len(walk.pending) \in Nat \ {0} /\ walk.pending[1] = 0
    /\ walk.cursor \in 1..Len(walk.pending) + 1
    /\ walk.device \in 0..DeviceCount - 1 /\ walk.function \in 0..FunctionCount - 1
    /\ walk.multi \in BOOLEAN

NoBusTwice == \A i, j \in 1..Len(walk.pending) : walk.pending[i] = walk.pending[j] => i = j

\* How a step moves over the address space: by one function, or past the
\* functions that a single-function device does not have.
LEMMA AdvanceMoves ==
    ASSUME WalkTypes, NoBusTwice, Scanning, NEW kind \in AnyKind, walk' = Advanced(kind),
           walk.function # 0 => walk.multi
    PROVE  /\ Here \in Addresses
           /\ WalkTypes' /\ NoBusTwice'
           /\ Len(walk'.pending) >= Len(walk.pending)
           /\ \A i \in 1..Len(walk.pending) : walk'.pending[i] = walk.pending[i]
           /\ \A i \in 1..Len(walk'.pending) :
                  i \in 1..Len(walk.pending) \/ (walk'.pending[i] = LeadsTo(Here, kind) /\ LeadsTo(Here, kind) # 0)
           /\ LeadsTo(Here, kind) # 0 => \E i \in 1..Len(walk'.pending) : walk'.pending[i] = LeadsTo(Here, kind)
           /\ walk'.function # 0 =>
                  /\ walk'.cursor = walk.cursor /\ walk'.device = walk.device /\ walk'.multi
                  /\ walk.function = 0 => kind.multi
           /\ ~Passed(Here) /\ \A a : a = Here => Passed(a)'
           /\ \A a \in Addresses : Passed(a) => Passed(a)'
           /\ \A a \in Addresses : Passed(a)' => \/ Passed(a) \/ a = Here
                                                \/ /\ a[1] = Here[1] /\ a[2] = Here[2] /\ a[3] # 0
                                                   /\ ~kind.multi /\ walk.function = 0
<1>1. PICK p, c, d, f, m : p = walk.pending /\ c = walk.cursor /\ d = walk.device /\ f = walk.function /\ m = walk.multi
    OBVIOUS
<1>2. /\ p \in Seq(Buses) /\ Len(p) \in Nat \ {0} /\ p[1] = 0 /\ c \in 1..Len(p)
      /\ d \in 0..DeviceCount - 1 /\ f \in 0..FunctionCount - 1 /\ m \in BOOLEAN
      /\ (f # 0 => m)
      /\ walk = [pending |-> p, cursor |-> c, device |-> d, function |-> f, multi |-> m]
      /\ Here = <<p[c], d, f>>
    BY <1>1 DEF WalkTypes, Scanning, Here
<1>3. p[c] \in Buses /\ Here \in Addresses
    <2>1. p[c] \in Buses
        BY <1>2, ElementOfSeq
    <2> QED BY <1>2, <2>1 DEF Addresses
<1>4. PICK b : b = LeadsTo(Here, kind)
    OBVIOUS
<1>5. b \in Buses
    <2>1. Here[1] = p[c] /\ Here[2] = d /\ Here[3] = f
        BY <1>2
    <2>2. f \in Buses
        BY <1>2, DiscoveryAssumption DEF Buses
    <2>3. b = kind.secondary \/ b = Here[3] \/ b = 0
        BY <1>4, Zenon DEF LeadsTo
    <2> QED BY <2>1, <2>2, <2>3, KindTypes DEF AnyKind
<1>6. PICK q : q = IF b = 0 THEN p ELSE EnqueueBus(p, b)
    OBVIOUS
<1>7. /\ q \in Seq(Buses) /\ Len(q) \in Nat /\ Len(q) >= Len(p)
      /\ \A i \in 1..Len(p) : q[i] = p[i]
      /\ \A i \in 1..Len(q) : i \in 1..Len(p) \/ (i = Len(p) + 1 /\ q[i] = b /\ b # 0 /\ \A j \in 1..Len(p) : p[j] # b)
      /\ b # 0 => \E i \in 1..Len(q) : q[i] = b
    <2>1. CASE q = p /\ (b # 0 => \E i \in 1..Len(p) : p[i] = b)
        BY <1>2, <2>1
    <2>2. CASE q = Append(p, b) /\ b # 0 /\ \A i \in 1..Len(p) : p[i] # b
        <3>1. q \in Seq(Buses) /\ Len(q) = Len(p) + 1 /\ (\A i \in 1..Len(p) : q[i] = p[i]) /\ q[Len(p) + 1] = b
            BY <1>2, <1>5, <2>2, AppendProperties
        <3> QED BY <1>2, <2>2, <3>1
    <2> QED BY <1>6, <2>1, <2>2 DEF EnqueueBus, Contains
<1>8. \A i, j \in 1..Len(p) : p[i] = p[j] => i = j
    BY <1>1 DEF NoBusTwice
<1>9. ASSUME NEW i \in 1..Len(q), NEW j \in 1..Len(q), q[i] = q[j] PROVE i = j
    <2>1. CASE i \in 1..Len(p) /\ j \in 1..Len(p)
        BY <1>7, <1>8, <1>9, <2>1
    <2>2. CASE i \in 1..Len(p) /\ j \notin 1..Len(p)
        BY <1>7, <1>9, <2>2
    <2>3. CASE i \notin 1..Len(p) /\ j \in 1..Len(p)
        BY <1>7, <1>9, <2>3
    <2>4. CASE i \notin 1..Len(p) /\ j \notin 1..Len(p)
        BY <1>7, <1>9, <2>4
    <2> QED BY <2>1, <2>2, <2>3, <2>4
<1>10. PICK c2, d2, f2, m2 :
          /\ walk'.pending = q /\ walk'.cursor = c2 /\ walk'.device = d2 /\ walk'.function = f2 /\ walk'.multi = m2
          /\ walk' = [pending |-> walk'.pending, cursor |-> walk'.cursor, device |-> walk'.device,
                      function |-> walk'.function, multi |-> walk'.multi]
          /\ \/ /\ f + 1 < FunctionCount /\ (f = 0 => kind.multi)
                /\ c2 = c /\ d2 = d /\ f2 = f + 1 /\ m2 = TRUE
             \/ /\ (f = 0 /\ ~kind.multi) \/ f + 1 = FunctionCount
                /\ d + 1 < DeviceCount
                /\ c2 = c /\ d2 = d + 1 /\ f2 = 0 /\ m2 = FALSE
             \/ /\ (f = 0 /\ ~kind.multi) \/ f + 1 = FunctionCount
                /\ d + 1 = DeviceCount
                /\ c2 = c + 1 /\ d2 = 0 /\ f2 = 0 /\ m2 = FALSE
    <2>1. DeviceCount \in Nat /\ FunctionCount \in Nat
        BY DiscoveryAssumption
    <2>2. walk.pending = p /\ walk.cursor = c /\ walk.device = d /\ walk.function = f /\ walk.multi = m
        BY <1>1
    <2>3. PICK M, c1, d1, f1 : M = (IF f = 0 THEN kind.multi ELSE m) /\ c1 = c + 1 /\ d1 = d + 1 /\ f1 = f + 1
        OBVIOUS
    <2>4. M \in BOOLEAN /\ (M /\ f = 0 => kind.multi) /\ (~M => f = 0 /\ ~kind.multi)
        BY <1>2, <2>3, Zenon DEF AnyKind
    <2>5. walk' = IF M /\ f1 < FunctionCount
                  THEN [walk EXCEPT !.pending = q, !.function = f1, !.multi = TRUE]
                  ELSE IF d1 < DeviceCount
                  THEN [walk EXCEPT !.pending = q, !.device = d1, !.function = 0, !.multi = FALSE]
                  ELSE [walk EXCEPT !.pending = q, !.cursor = c1, !.device = 0, !.function = 0, !.multi = FALSE]
        BY <1>4, <1>6, <2>2, <2>3, Zenon DEF Advanced
    <2>6. walk = [pending |-> walk.pending, cursor |-> walk.cursor, device |-> walk.device,
                  function |-> walk.function, multi |-> walk.multi]
        BY DEF WalkTypes
    <2> DEFINE Is(x, y, z, t) ==
            /\ walk'.pending = q /\ walk'.cursor = x /\ walk'.device = y /\ walk'.function = z /\ walk'.multi = t
            /\ walk' = [pending |-> walk'.pending, cursor |-> walk'.cursor, device |-> walk'.device,
                        function |-> walk'.function, multi |-> walk'.multi]
    <2>7. CASE M /\ f1 < FunctionCount
        <3>1. walk' = [walk EXCEPT !.pending = q, !.function = f1, !.multi = TRUE]
            BY <2>5, <2>7, Zenon
        <3>2. Is(walk.cursor, walk.device, f1, TRUE)
            BY ONLY <2>6, <3>1
        <3>3. Is(c, d, f + 1, TRUE)
            BY <2>2, <2>3, <3>2, Zenon
        <3>4. f + 1 < FunctionCount /\ (f = 0 => kind.multi)
            BY <2>3, <2>4, <2>7, Zenon
        <3> QED BY <3>3, <3>4, Zenon
    <2>8. CASE ~(M /\ f1 < FunctionCount)
        <3>1. (f = 0 /\ ~kind.multi) \/ f + 1 = FunctionCount
            <4>1. CASE ~M
                BY <2>4, <4>1, Zenon
            <4>2. CASE ~(f1 < FunctionCount)
                BY ONLY <1>2, <2>1, <2>3, <4>2
            <4> QED BY <2>8, <4>1, <4>2, Zenon
        <3>2. CASE d1 < DeviceCount
            <4>1. walk' = [walk EXCEPT !.pending = q, !.device = d1, !.function = 0, !.multi = FALSE]
                BY <2>5, <2>8, <3>2, Zenon
            <4>2. Is(walk.cursor, d1, 0, FALSE)
                BY ONLY <2>6, <4>1
            <4>3. Is(c, d + 1, 0, FALSE)
                BY <2>2, <2>3, <4>2, Zenon
            <4>4. d + 1 < DeviceCount
                BY <2>3, <3>2, Zenon
            <4> QED BY <3>1, <4>3, <4>4, Zenon
        <3>3. CASE ~(d1 < DeviceCount)
            <4>1. walk' = [walk EXCEPT !.pending = q, !.cursor = c1, !.device = 0, !.function = 0, !.multi = FALSE]
                BY <2>5, <2>8, <3>3, Zenon
            <4>2. Is(c1, 0, 0, FALSE)
                BY ONLY <2>6, <4>1
            <4>3. Is(c + 1, 0, 0, FALSE)
                BY <2>3, <4>2, Zenon
            <4>4. d + 1 = DeviceCount
                BY ONLY <1>2, <2>1, <2>3, <3>3
            <4> QED BY <3>1, <4>3, <4>4, Zenon
        <3> QED BY <3>2, <3>3
    <2> QED BY <2>7, <2>8, Zenon
<1>11. \/ f + 1 < FunctionCount /\ c2 = c /\ d2 = d /\ f2 = f + 1
       \/ d + 1 < DeviceCount /\ c2 = c /\ d2 = d + 1 /\ f2 = 0
       \/ d + 1 = DeviceCount /\ c2 = c + 1 /\ d2 = 0 /\ f2 = 0
    BY <1>10, Zenon
<1>12. /\ c2 \in 1..Len(q) + 1 /\ d2 \in 0..DeviceCount - 1 /\ f2 \in 0..FunctionCount - 1
    <2>1. DeviceCount \in Nat \ {0} /\ FunctionCount \in Nat \ {0}
        BY DiscoveryAssumption
    <2> QED BY ONLY <1>2, <1>7, <1>11, <2>1, SMTT(30)
<1>13. WalkTypes'
    <2>1. m2 \in BOOLEAN
        BY <1>10, Zenon
    <2>2. Len(q) \in Nat \ {0} /\ q[1] = 0
        BY <1>2, <1>7
    <2> QED BY <1>7, <1>10, <1>12, <2>1, <2>2 DEF WalkTypes
<1>14. NoBusTwice'
    BY <1>9, <1>10 DEF NoBusTwice
<1>15. \A a \in Addresses : a[2] \in 0..DeviceCount - 1 /\ a[3] \in 0..FunctionCount - 1 /\ a = <<a[1], a[2], a[3]>>
    BY DEF Addresses
<1>16. \A a : Passed(a) <=> \E i \in 1..Len(p) : p[i] = a[1] /\ (i < c \/ (i = c /\ (a[2] < d \/ (a[2] = d /\ a[3] < f))))
    BY <1>1 DEF Passed
<1>17. \A a : Passed(a)' <=> \E i \in 1..Len(q) : q[i] = a[1] /\ (i < c2 \/ (i = c2 /\ (a[2] < d2 \/ (a[2] = d2 /\ a[3] < f2))))
    BY <1>10 DEF Passed
<1>18. ~Passed(Here)
    <2>1. Here[1] = p[c] /\ Here[2] = d /\ Here[3] = f
        BY <1>2
    <2> QED BY ONLY <1>2, <1>8, <1>16, <2>1, DiscoveryAssumption
<1>19. ASSUME NEW a, a = Here PROVE Passed(a)'
    <2>1. a[1] = p[c] /\ a[2] = d /\ a[3] = f
        BY <1>2, <1>19
    <2>2. c \in 1..Len(q) /\ q[c] = p[c]
        BY ONLY <1>2, <1>7
    <2>3. c < c2 \/ (c = c2 /\ (d < d2 \/ (d = d2 /\ f < f2)))
        BY ONLY <1>2, <1>10
    <2> QED BY <1>17, <2>1, <2>2, <2>3
<1>20. ASSUME NEW a \in Addresses, Passed(a) PROVE Passed(a)'
    <2>1. PICK i \in 1..Len(p) : p[i] = a[1] /\ (i < c \/ (i = c /\ (a[2] < d \/ (a[2] = d /\ a[3] < f))))
        BY <1>16, <1>20
    <2>2. i \in 1..Len(q) /\ q[i] = a[1]
        BY <1>2, <1>7, <2>1
    <2>3. i < c2 \/ (i = c2 /\ (a[2] < d2 \/ (a[2] = d2 /\ a[3] < f2)))
        <3>1. a[2] \in Nat /\ a[3] \in Nat /\ i \in Nat /\ c \in Nat /\ d \in Nat /\ f \in Nat
            BY <1>2, <1>15, <1>20
        <3>2. \/ c2 = c /\ d2 = d /\ f2 = f + 1
              \/ c2 = c /\ d2 = d + 1 /\ f2 = 0
              \/ c2 = c + 1 /\ d2 = 0 /\ f2 = 0
            BY <1>10
        <3> QED BY ONLY <2>1, <3>1, <3>2
    <2> QED BY <1>17, <2>2, <2>3
<1>21. ASSUME NEW a \in Addresses, Passed(a)'
       PROVE  \/ Passed(a) \/ a = Here
              \/ a[1] = Here[1] /\ a[2] = Here[2] /\ a[3] # 0 /\ ~kind.multi /\ walk.function = 0
    <2>1. PICK i \in 1..Len(q) : q[i] = a[1] /\ (i < c2 \/ (i = c2 /\ (a[2] < d2 \/ (a[2] = d2 /\ a[3] < f2))))
        BY <1>17, <1>21
    <2>2. /\ a[2] \in 0..DeviceCount - 1 /\ a[3] \in 0..FunctionCount - 1 /\ a = <<a[1], a[2], a[3]>>
          /\ DeviceCount \in Nat /\ FunctionCount \in Nat /\ i \in Nat
        BY <1>15, <1>21, DiscoveryAssumption
    <2>3. i < c \/ (i = c /\ (a[2] < d \/ (a[2] = d /\ a[3] < f))) \/ (i = c /\ a[2] = d /\ a[3] = f)
          \/ (i = c /\ a[2] = d /\ a[3] # 0 /\ f = 0 /\ ~kind.multi)
        <3>1. CASE f + 1 < FunctionCount /\ c2 = c /\ d2 = d /\ f2 = f + 1
            BY ONLY <1>2, <2>1, <2>2, <3>1, SMTT(30)
        <3>2. CASE c2 = c /\ d2 = d + 1 /\ f2 = 0
            <4>1. i < c \/ (i = c /\ a[2] < d) \/ (i = c /\ a[2] = d)
                <5>1. i \in Nat /\ c \in Nat /\ d \in Nat /\ a[2] \in Nat /\ a[3] \in Nat
                    BY <1>2, <2>2
                <5> QED BY ONLY <2>1, <3>2, <5>1
            <4>2. CASE f = 0 /\ ~kind.multi
                <5>1. a[3] = 0 \/ a[3] # 0
                    OBVIOUS
                <5> QED BY ONLY <4>1, <4>2, <5>1, Zenon
            <4>3. CASE f + 1 = FunctionCount
                BY ONLY <1>2, <2>2, <4>1, <4>3
            <4>4. d + 1 # d
                BY ONLY <1>2
            <4>5. (f = 0 /\ ~kind.multi) \/ f + 1 = FunctionCount
                BY ONLY <1>10, <3>2, <4>4, Zenon
            <4> QED BY <4>2, <4>3, <4>5, Zenon
        <3>3. CASE d + 1 = DeviceCount /\ c2 = c + 1 /\ d2 = 0 /\ f2 = 0
            <4>1. i < c \/ (i = c /\ a[2] < d) \/ (i = c /\ a[2] = d)
                BY ONLY <1>2, <2>1, <2>2, <3>3, SMTT(30)
            <4>2. CASE f = 0 /\ ~kind.multi
                <5>1. a[3] = 0 \/ a[3] # 0
                    OBVIOUS
                <5> QED BY ONLY <4>1, <4>2, <5>1, Zenon
            <4>3. CASE f + 1 = FunctionCount
                BY ONLY <1>2, <2>2, <4>1, <4>3
            <4> QED BY <1>2, <1>10, <3>3, <4>2, <4>3
        <3> QED BY <1>10, <3>1, <3>2, <3>3
    <2>4. i \in 1..Len(p) /\ p[i] = a[1]
        <3>1. i <= c
            BY ONLY <1>2, <2>2, <2>3
        <3>2. i \in 1..Len(p)
            BY ONLY <1>2, <1>7, <2>1, <3>1
        <3> QED BY <1>7, <2>1, <3>2
    <2>5. Here[1] = p[c] /\ Here[2] = d /\ Here[3] = f /\ walk.function = f /\ Here = <<p[c], d, f>>
        BY <1>1, <1>2
    <2>6. CASE i < c \/ (i = c /\ (a[2] < d \/ (a[2] = d /\ a[3] < f)))
        BY <1>16, <2>4, <2>6
    <2>7. CASE i = c /\ a[2] = d /\ a[3] = f
        BY <2>2, <2>4, <2>5, <2>7
    <2>8. CASE i = c /\ a[2] = d /\ a[3] # 0 /\ f = 0 /\ ~kind.multi
        BY <2>4, <2>5, <2>8
    <2> QED BY <2>3, <2>6, <2>7, <2>8
<1>22. walk'.function # 0 =>
           /\ walk'.cursor = walk.cursor /\ walk'.device = walk.device /\ walk'.multi
           /\ walk.function = 0 => kind.multi
    <2>1. f2 # 0 => c2 = c /\ d2 = d /\ m2 = TRUE /\ (f = 0 => kind.multi)
        BY <1>10, Zenon
    <2> QED BY <1>1, <1>10, <2>1, Zenon
<1>23. /\ Len(walk'.pending) >= Len(walk.pending)
       /\ \A i \in 1..Len(walk.pending) : walk'.pending[i] = walk.pending[i]
       /\ \A i \in 1..Len(walk'.pending) :
                  i \in 1..Len(walk.pending) \/ (walk'.pending[i] = LeadsTo(Here, kind) /\ LeadsTo(Here, kind) # 0)
       /\ LeadsTo(Here, kind) # 0 => \E i \in 1..Len(walk'.pending) : walk'.pending[i] = LeadsTo(Here, kind)
    BY <1>1, <1>4, <1>7, <1>10
<1> QED BY <1>3, <1>13, <1>14, <1>18, <1>19, <1>20, <1>21, <1>22, <1>23, Zenon

\* Function 0 of the device.
Zero(a) == <<a[1], a[2], 0>>

LEMMA PassedBefore ==
    ASSUME WalkTypes, NoBusTwice, Scanning, NEW a \in Addresses, Passed(a), a[1] = Here[1], a[2] = Here[2]
    PROVE  a[3] < walk.function
<1>1. PICK i \in 1..Len(walk.pending) :
          /\ walk.pending[i] = a[1]
          /\ \/ i < walk.cursor
             \/ i = walk.cursor /\ (a[2] < walk.device \/ (a[2] = walk.device /\ a[3] < walk.function))
    BY DEF Passed
<1>2. Here[1] = walk.pending[walk.cursor] /\ Here[2] = walk.device
    BY DEF Here
<1>3. walk.cursor \in 1..Len(walk.pending)
    BY DEF WalkTypes, Scanning
<1>4. i = walk.cursor
    BY <1>1, <1>2, <1>3 DEF NoBusTwice
<1>5. walk.cursor \in Nat /\ walk.device \in Nat
    BY <1>3, DiscoveryAssumption DEF WalkTypes
<1> QED BY <1>1, <1>2, <1>4, <1>5

\* The machine stays what it is.
LEMMA WiringStays == ASSUME wiring' = wiring PROVE Present' = Present
    BY DEF Present, Addresses, Buses

\* Sets of buses with bus 0 and all that leads out of them.
Closed(buses) ==
    /\ buses \subseteq Buses /\ 0 \in buses
    /\ \A a \in Present : a[1] \in Visible /\ a[1] \in buses => LeadsTo(a, wiring[a]) \in buses

SeenMulti == walk.function # 0 =>
    Scanning /\ walk.multi /\ Here[1] \in Visible /\ wiring[Zero(Here)].multi

Reached == \A B : Closed(B) => \A i \in 1..Len(walk.pending) : walk.pending[i] \in B

WalkInv ==
    /\ wiring \in Wirings /\ covered \subseteq Buses /\ backend \in {"ecam", "legacy"}
    /\ WalkTypes /\ NoBusTwice /\ SeenMulti /\ Reached

LEMMA AbsentLeadsNowhere == \A a : LeadsTo(a, Absent) = 0 /\ ~Absent.multi
<1>1. Absent.class = "absent" /\ ~Absent.multi
    BY DEF Absent
<1>2. "absent" # "bridge" /\ "absent" # "host"
    OBVIOUS
<1> QED BY <1>1, <1>2, Zenon DEF LeadsTo

LEMMA ScanWalks ==
    ASSUME WalkInv, Scanning, NEW kind \in AnyKind, walk' = Advanced(kind), wiring' = wiring,
           covered' = covered, backend' = backend,
           kind # Absent => Here[1] \in Visible /\ wiring[Here] = kind,
           kind.class = "absent" => kind = Absent
    PROVE  WalkInv'
<1>1. WalkTypes /\ NoBusTwice /\ SeenMulti /\ Reached
    BY DEF WalkInv
<1>2. walk.function # 0 => walk.multi
    BY <1>1 DEF SeenMulti
<1>3. Here \in Addresses /\ WalkTypes' /\ NoBusTwice'
    BY <1>1, <1>2, AdvanceMoves
<1>4. Present' = Present
    BY WiringStays
<1>5. Visible' = Visible
    BY DEF Visible
<1>6. PICK h : h = Here
    OBVIOUS
<1>7. h \in Addresses /\ Zero(h) \in Addresses /\ h[3] = walk.function /\ h = <<h[1], h[2], h[3]>>
        /\ h[1] = walk.pending[walk.cursor] /\ h[2] = walk.device
    BY <1>3, <1>6, DiscoveryAssumption DEF Here, Addresses, Zero
<1>8. SeenMulti'
    <2>1. SUFFICES ASSUME walk'.function # 0
                   PROVE  Scanning' /\ walk'.multi /\ Here'[1] \in Visible /\ wiring[Zero(Here')].multi
        BY <1>5 DEF SeenMulti, Zero
    <2>2. walk'.cursor = walk.cursor /\ walk'.device = walk.device /\ walk'.multi /\ (walk.function = 0 => kind.multi)
        BY <1>1, <1>2, <2>1, AdvanceMoves
    <2>3. Len(walk'.pending) >= Len(walk.pending) /\ (\A i \in 1..Len(walk.pending) : walk'.pending[i] = walk.pending[i])
        BY <1>1, <1>2, AdvanceMoves
    <2>4. walk.cursor \in 1..Len(walk.pending) /\ Len(walk'.pending) \in Nat
        BY <1>1, <1>3 DEF WalkTypes, Scanning
    <2>5. walk'.pending[walk'.cursor] = h[1] /\ walk'.device = h[2] /\ Scanning'
        BY <1>7, <2>2, <2>3, <2>4 DEF Scanning
    <2>6. Here'[1] = h[1] /\ Here'[2] = h[2] /\ Zero(Here') = Zero(h)
        BY <2>5 DEF Here, Zero
    <2>7. CASE walk.function = 0
        <3>1. kind.multi /\ kind # Absent
            BY <2>2, <2>7, AbsentLeadsNowhere, Zenon
        <3>2. Zero(h) = h
            BY <1>7, <2>7 DEF Zero
        <3> QED BY <1>6, <2>2, <2>5, <2>6, <3>1, <3>2
    <2>8. CASE walk.function # 0
        <3>1. h[1] \in Visible /\ wiring[Zero(h)].multi
            BY <1>1, <1>6, <2>8 DEF SeenMulti
        <3> QED BY <2>2, <2>5, <2>6, <3>1
    <2> QED BY <2>7, <2>8
<1>9. Reached'
    <2>1. SUFFICES ASSUME NEW B, Closed(B)', NEW i \in 1..Len(walk'.pending) PROVE walk'.pending[i] \in B
        BY DEF Reached
    <2>2. B \subseteq Buses /\ 0 \in B /\ (\A a \in Present : a[1] \in Visible /\ a[1] \in B => LeadsTo(a, wiring[a]) \in B)
        BY <1>4, <1>5, <2>1 DEF Closed, LeadsTo
    <2>3. Closed(B)
        BY <1>4, <2>2 DEF Closed
    <2>4. \A j \in 1..Len(walk.pending) : walk.pending[j] \in B
        BY <1>1, <2>3 DEF Reached
    <2>5. CASE i \in 1..Len(walk.pending)
        BY <1>1, <1>2, <2>4, <2>5, AdvanceMoves
    <2>6. CASE walk'.pending[i] = LeadsTo(Here, kind) /\ LeadsTo(Here, kind) # 0
        <3>1. kind # Absent
            BY <2>6, AbsentLeadsNowhere
        <3>2. h[1] \in Visible /\ wiring[h] = kind
            BY <1>6, <3>1
        <3>3. h[3] = 0 \/ wiring[Zero(h)].multi
            <4>1. SUFFICES ASSUME h[3] # 0 PROVE wiring[Zero(h)].multi
                BY Zenon
            <4> QED BY <1>1, <1>6, <1>7, <4>1 DEF SeenMulti
        <3>4. h \in Present
            <4>1. wiring[h].class # "absent"
                BY <3>1, <3>2
            <4> QED BY <1>7, <3>3, <4>1 DEF Present, Zero
        <3>5. h[1] \in B
            BY <1>1, <1>7, <2>4 DEF WalkTypes, Scanning
        <3> QED BY <1>6, <2>2, <2>6, <3>2, <3>4, <3>5
    <2> QED BY <1>1, <1>2, <2>5, <2>6, AdvanceMoves
<1> QED BY <1>3, <1>4, <1>8, <1>9 DEF WalkInv

Queued(bus) == \E i \in 1..Len(walk.pending) : walk.pending[i] = bus
Listed(a) == \E i \in 1..Len(inventory.functions) : inventory.functions[i] = a

InventoryTypes ==
    /\ inventory = [functions |-> inventory.functions, overflowed |-> inventory.overflowed]
    /\ inventory.functions \in Seq(Addresses) /\ inventory.overflowed \in BOOLEAN
    /\ Len(inventory.functions) <= MAX_PCI_DEVICES
    /\ inventory.overflowed => Len(inventory.functions) = MAX_PCI_DEVICES
    /\ \A i, j \in 1..Len(inventory.functions) : inventory.functions[i] = inventory.functions[j] => i = j

\* What is listed is there, and the pass went by it.
ListSound == \A a : Listed(a) => a \in Present /\ a[1] \in Visible /\ Passed(a)

\* A pass that nothing failed in has listed what is there of what it went by,
\* and queued where that leads.
ListComplete ==
    \A a \in Present : Passed(a) /\ a[1] \in Visible =>
        /\ Listed(a) \/ inventory.overflowed
        /\ LeadsTo(a, wiring[a]) = 0 \/ Queued(LeadsTo(a, wiring[a]))

PassOver ==
    /\ failures = [total |-> failures.total, failed |-> failures.failed] /\ failures.failed \in BOOLEAN
    /\ failures.failed => backend = "ecam"
    /\ discovered => ~Scanning /\ ~failures.failed

DiscoveryInv == WalkInv /\ InventoryTypes /\ ListSound /\ PassOver /\ (~failures.failed => ListComplete)

LEMMA PushAdds ==
    ASSUME InventoryTypes, NEW h \in Addresses, ~Listed(h), inventory' = Push(h)
    PROVE  /\ InventoryTypes'
           /\ \A a : Listed(a)' <=> Listed(a) \/ (a = h /\ ~inventory'.overflowed)
           /\ inventory.overflowed => inventory'.overflowed
<1>1. PICK q, o : q = inventory.functions /\ o = inventory.overflowed
    OBVIOUS
<1>2. /\ q \in Seq(Addresses) /\ o \in BOOLEAN /\ Len(q) <= MAX_PCI_DEVICES /\ (o => Len(q) = MAX_PCI_DEVICES)
      /\ Len(q) \in Nat /\ MAX_PCI_DEVICES \in Nat
      /\ (\A i, j \in 1..Len(q) : q[i] = q[j] => i = j) /\ (\A i \in 1..Len(q) : q[i] # h)
    BY <1>1, DiscoveryAssumption DEF InventoryTypes, Listed
<1>3. inventory = [functions |-> inventory.functions, overflowed |-> inventory.overflowed]
    BY DEF InventoryTypes
<1>4. CASE Len(q) = MAX_PCI_DEVICES
    <2>1. inventory' = [inventory EXCEPT !.overflowed = TRUE]
        BY <1>1, <1>4 DEF Push
    <2>2. inventory' = [functions |-> inventory'.functions, overflowed |-> inventory'.overflowed]
            /\ inventory'.functions = q /\ inventory'.overflowed = TRUE
        BY ONLY <1>1, <1>3, <2>1
    <2>3. \A a : Listed(a)' <=> Listed(a)
        BY <1>1, <2>2 DEF Listed
    <2>4. inventory'.overflowed \in BOOLEAN /\ inventory'.overflowed
        BY <2>2, Zenon
    <2>5. InventoryTypes'
        BY <1>2, <1>4, <2>2, <2>4 DEF InventoryTypes
    <2> QED BY <2>3, <2>4, <2>5
<1>5. CASE Len(q) # MAX_PCI_DEVICES
    <2>1. PICK r : r = Append(q, h)
        OBVIOUS
    <2>2. inventory' = [inventory EXCEPT !.functions = r]
        BY <1>1, <1>5, <2>1 DEF Push
    <2>3. inventory' = [functions |-> inventory'.functions, overflowed |-> inventory'.overflowed]
            /\ inventory'.functions = r /\ inventory'.overflowed = o
        BY ONLY <1>1, <1>3, <2>2
    <2>4. r \in Seq(Addresses) /\ Len(r) = Len(q) + 1 /\ (\A i \in 1..Len(q) : r[i] = q[i]) /\ r[Len(q) + 1] = h
        BY <1>2, <2>1, AppendProperties
    <2>5. \A i \in 1..Len(r) : i \in 1..Len(q) \/ i = Len(q) + 1
        BY <1>2, <2>4
    <2>6. ~o
        BY <1>2, <1>5
    <2>7. \A a : Listed(a)' <=> Listed(a) \/ a = h
        <3>1. \A a : Listed(a) <=> \E i \in 1..Len(q) : q[i] = a
            BY <1>1 DEF Listed
        <3>2. \A a : Listed(a)' <=> \E i \in 1..Len(r) : r[i] = a
            BY <2>3 DEF Listed
        <3>3. \A i \in 1..Len(q) : i \in 1..Len(r)
            BY <1>2, <2>4
        <3>4. Len(q) + 1 \in 1..Len(r)
            BY <1>2, <2>4
        <3> QED BY <2>4, <2>5, <3>1, <3>2, <3>3, <3>4, Zenon
    <2>8. ASSUME NEW i \in 1..Len(r), NEW j \in 1..Len(r), r[i] = r[j] PROVE i = j
        <3>1. CASE i \in 1..Len(q) /\ j \in 1..Len(q)
            BY <1>2, <2>4, <2>8, <3>1
        <3>2. CASE i \in 1..Len(q) /\ j = Len(q) + 1
            BY <1>2, <2>4, <2>8, <3>2
        <3>3. CASE i = Len(q) + 1 /\ j \in 1..Len(q)
            BY <1>2, <2>4, <2>8, <3>3
        <3> QED BY <2>5, <3>1, <3>2, <3>3
    <2>9. Len(r) <= MAX_PCI_DEVICES
        BY <1>2, <1>5, <2>4
    <2>10. InventoryTypes'
        BY <1>2, <2>3, <2>4, <2>6, <2>8, <2>9 DEF InventoryTypes
    <2> QED BY <1>1, <2>3, <2>6, <2>7, <2>10
<1> QED BY <1>4, <1>5

\* A function that answers is present, and one that does not is not.
LEMMA HereAnswers ==
    ASSUME WalkInv, Scanning, NEW kind \in AnyKind, NEW h, h = Here,
           kind # Absent, kind.class = "absent" => kind = Absent, wiring[Here] = kind
    PROVE  h \in Present
<1>1. h \in Addresses /\ Zero(h) \in Addresses /\ h[3] = walk.function
    <2>1. walk.pending[walk.cursor] \in Buses
        BY ElementOfSeq DEF WalkInv, WalkTypes, Scanning
    <2> QED BY <2>1, DiscoveryAssumption, SMTT(30) DEF WalkInv, WalkTypes, Here, Addresses, Zero
<1>2. h[3] = 0 \/ wiring[Zero(h)].multi
    <2>1. SUFFICES ASSUME h[3] # 0 PROVE wiring[Zero(h)].multi
        BY Zenon
    <2> QED BY <1>1, <2>1 DEF WalkInv, SeenMulti
<1>3. wiring[h].class # "absent"
    OBVIOUS
<1> QED BY <1>1, <1>2, <1>3 DEF Present, Zero

LEMMA ScanFinds ==
    ASSUME WalkInv, InventoryTypes, ListSound, Scanning,
           NEW kind \in AnyKind, walk' = Advanced(kind), wiring' = wiring,
           covered' = covered, backend' = backend,
           kind # Absent => Here[1] \in Visible /\ wiring[Here] = kind,
           kind.class = "absent" => kind = Absent,
           inventory' = IF kind = Absent THEN inventory ELSE Push(Here)
    PROVE  /\ InventoryTypes' /\ ListSound'
           /\ ListComplete /\ (kind = Absent => Here[1] \notin Visible \/ wiring[Here] = Absent) => ListComplete'
<1>1. WalkTypes /\ NoBusTwice /\ SeenMulti /\ (walk.function # 0 => walk.multi)
    BY DEF WalkInv, SeenMulti
<1>2. PICK h : h = Here
    OBVIOUS
<1>3. /\ h \in Addresses /\ ~Passed(h) /\ Passed(h)'
      /\ \A a \in Addresses : Passed(a) => Passed(a)'
      /\ \A a \in Addresses : Passed(a)' => \/ Passed(a) \/ a = h
                                           \/ /\ a[1] = h[1] /\ a[2] = h[2] /\ a[3] # 0
                                              /\ ~kind.multi /\ walk.function = 0
    BY <1>1, <1>2, AdvanceMoves
<1>4. \A b : (b = LeadsTo(h, kind) /\ b # 0) \/ Queued(b) => Queued(b)'
    <2>1. /\ Len(walk'.pending) >= Len(walk.pending) /\ (\A i \in 1..Len(walk.pending) : walk'.pending[i] = walk.pending[i])
          /\ LeadsTo(h, kind) # 0 => \E i \in 1..Len(walk'.pending) : walk'.pending[i] = LeadsTo(h, kind)
        BY <1>1, <1>2, AdvanceMoves
    <2>2. WalkTypes'
        BY <1>1, AdvanceMoves
    <2>3. \A i \in 1..Len(walk.pending) : i \in 1..Len(walk'.pending)
        BY <1>1, <2>1, <2>2 DEF WalkTypes
    <2> QED BY <2>1, <2>3 DEF Queued
<1>5. Present' = Present
    BY WiringStays
<1>6. Visible' = Visible /\ (\A a : a \in Present => a \in Addresses)
    BY DEF Visible, Present, Addresses, Buses
<1>7. ~Listed(h)
    BY <1>3 DEF ListSound
<1>8. /\ InventoryTypes'
      /\ \A a : Listed(a)' => Listed(a) \/ (a = h /\ kind # Absent)
      /\ \A a : Listed(a) => Listed(a)'
      /\ kind # Absent => Listed(h)' \/ inventory'.overflowed
      /\ inventory.overflowed => inventory'.overflowed
    <2>1. CASE kind = Absent
        <3>1. inventory' = inventory
            BY <2>1
        <3> QED BY <2>1, <3>1 DEF InventoryTypes, Listed
    <2>2. CASE kind # Absent
        <3>1. inventory' = Push(h)
            BY <1>2, <2>2
        <3> QED BY <1>3, <1>7, <2>2, <3>1, PushAdds
    <2> QED BY <2>1, <2>2
<1>9. kind # Absent => h \in Present /\ h[1] \in Visible
    BY <1>2, HereAnswers
<1>10. ASSUME NEW a, Listed(a)' PROVE a \in Present /\ a[1] \in Visible /\ Passed(a)'
    <2>1. CASE Listed(a)
        BY <1>3, <1>5, <1>6, <2>1 DEF ListSound
    <2>2. CASE a = h /\ kind # Absent
        BY <1>3, <1>9, <2>2
    <2> QED BY <1>8, <1>10, <2>1, <2>2
<1>11. ASSUME ListComplete, kind = Absent => Here[1] \notin Visible \/ wiring[Here] = Absent,
              NEW a \in Present, Passed(a)', a[1] \in Visible
       PROVE  /\ Listed(a)' \/ inventory'.overflowed
              /\ \A b : b = LeadsTo(a, wiring[a]) => b = 0 \/ Queued(b)'
    <2>1. a \in Addresses
        BY <1>6
    <2>2. CASE Passed(a)
        <3>2. (Listed(a) \/ inventory.overflowed) /\ (LeadsTo(a, wiring[a]) = 0 \/ Queued(LeadsTo(a, wiring[a])))
            BY <1>11, <2>2 DEF ListComplete
        <3>3. \A b : b = LeadsTo(a, wiring[a]) => b = 0 \/ Queued(b)'
            BY <1>4, <3>2
        <3> QED BY <1>8, <3>2, <3>3
    <2>3. CASE a = h
        <3>1. kind # Absent
            <4>1. SUFFICES ASSUME kind = Absent PROVE FALSE
                OBVIOUS
            <4>2. wiring[h] = Absent
                BY <1>2, <1>11, <2>3, <4>1
            <4> QED BY <1>11, <2>3, <4>2 DEF Present, Absent
        <3>2. wiring[h] = kind
            BY <1>2, <3>1
        <3>3. \A b : b = LeadsTo(a, wiring[a]) => b = 0 \/ Queued(b)'
            BY <1>4, <2>3, <3>2
        <3> QED BY <1>8, <2>3, <3>1, <3>3
    <2>4. CASE a[1] = h[1] /\ a[2] = h[2] /\ a[3] # 0 /\ ~kind.multi /\ walk.function = 0
        <3>1. Zero(a) = h
            BY <1>2, <2>4 DEF Zero, Here
        <3>2. wiring[h].multi
            BY <1>11, <2>4, <3>1 DEF Present, Zero
        <3>3. ~wiring[h].multi
            <4>1. CASE kind = Absent
                BY <1>2, <1>11, <2>4, <4>1, AbsentLeadsNowhere
            <4>2. CASE kind # Absent
                BY <1>2, <2>4, <4>2
            <4> QED BY <4>1, <4>2
        <3> QED BY <3>2, <3>3, Zenon
    <2> QED BY <1>3, <1>11, <2>1, <2>2, <2>3, <2>4
<1>12. ListSound'
    BY <1>5, <1>6, <1>10 DEF ListSound
<1>13. ASSUME ListComplete, kind = Absent => Here[1] \notin Visible \/ wiring[Here] = Absent
       PROVE  ListComplete'
    <2>1. \A a \in Present : Passed(a)' /\ a[1] \in Visible =>
              /\ Listed(a)' \/ inventory'.overflowed
              /\ \/ LeadsTo(a, wiring[a]) = 0
                 \/ \E i \in 1..Len(walk'.pending) : walk'.pending[i] = LeadsTo(a, wiring[a])
        BY <1>11, <1>13 DEF Queued
    <2> QED BY <1>5, <1>6, <2>1 DEF ListComplete, Queued
<1> QED BY <1>8, <1>12, <1>13

LEMMA HereIsAddress == ASSUME WalkTypes, Scanning PROVE Here \in Addresses
<1>1. walk.pending[walk.cursor] \in Buses
    BY ElementOfSeq DEF WalkTypes, Scanning
<1> QED BY <1>1 DEF WalkTypes, Here, Addresses

LEMMA ReadKeepsFound == ASSUME DiscoveryInv, ReadDevice PROVE DiscoveryInv'
<1>1. PICK kind : kind = wiring[Here]
    OBVIOUS
<1>2. /\ ~discovered /\ Scanning /\ wiring' = wiring
      /\ walk' = Advanced(kind) /\ inventory' = (IF kind = Absent THEN inventory ELSE Push(Here))
      /\ covered' = covered /\ backend' = backend /\ failures' = failures /\ discovered' = discovered
    BY <1>1 DEF ReadDevice, Scanned
<1>3. Here \in Addresses
    BY <1>2, HereIsAddress DEF DiscoveryInv, WalkInv
<1>4. Here[1] \in Visible
    BY <1>3 DEF ReadDevice, Visible, DiscoveryInv, WalkInv, Addresses
<1>5. kind \in AnyKind /\ (kind.class = "absent" => kind = Absent)
    <2>1. kind \in FunctionKinds(Here[3])
        BY <1>1, <1>3, WiringAssumption DEF DiscoveryInv, WalkInv
    <2> QED BY <2>1, KindTypes, AbsentKind
<1>6. WalkInv'
    BY <1>1, <1>2, <1>4, <1>5, ScanWalks DEF DiscoveryInv
<1>7. InventoryTypes' /\ ListSound' /\ (ListComplete => ListComplete')
    BY <1>1, <1>2, <1>4, <1>5, ScanFinds DEF DiscoveryInv
<1>8. PassOver'
    BY <1>2 DEF DiscoveryInv, PassOver
<1> QED BY <1>2, <1>6, <1>7, <1>8 DEF DiscoveryInv

LEMMA ReadOutsideKeeps == ASSUME DiscoveryInv, ReadOutside PROVE DiscoveryInv'
<1>1. /\ ~discovered /\ Scanning /\ wiring' = wiring /\ Here[1] \notin Visible
      /\ walk' = Advanced(Absent) /\ inventory' = inventory
      /\ covered' = covered /\ backend' = backend /\ failures' = failures /\ discovered' = discovered
    BY DEF ReadOutside, Scanned, Visible
<1>2. Absent \in AnyKind
    BY KindTypes
<1>3. WalkInv'
    BY <1>1, <1>2, ScanWalks DEF DiscoveryInv
<1>4. InventoryTypes' /\ ListSound' /\ (ListComplete => ListComplete')
    BY <1>1, <1>2, ScanFinds DEF DiscoveryInv
<1>5. PassOver'
    BY <1>1 DEF DiscoveryInv, PassOver
<1> QED BY <1>1, <1>3, <1>4, <1>5 DEF DiscoveryInv

LEMMA ReadUnmappedKeeps == ASSUME DiscoveryInv, ReadUnmapped PROVE DiscoveryInv'
<1>1. /\ ~discovered /\ Scanning /\ wiring' = wiring
      /\ walk' = Advanced(Absent) /\ inventory' = inventory /\ backend = "ecam"
      /\ failures' = [total |-> failures.total + 1, failed |-> TRUE]
      /\ covered' = covered /\ backend' = backend /\ discovered' = discovered
    BY DEF ReadUnmapped, Scanned
<1>3. Absent \in AnyKind
    BY KindTypes
<1>4. WalkInv'
    BY <1>1, <1>3, ScanWalks DEF DiscoveryInv
<1>5. InventoryTypes' /\ ListSound'
    BY <1>1, <1>3, ScanFinds DEF DiscoveryInv
<1>6. failures'.failed = TRUE /\ failures' = [total |-> failures'.total, failed |-> failures'.failed]
    <2>1. PICK n : n = failures.total + 1
        OBVIOUS
    <2>2. failures' = [total |-> n, failed |-> TRUE]
        BY <1>1, <2>1, Zenon
    <2> QED BY ONLY <2>2
<1>7. PassOver'
    <2>1. failures'.failed \in BOOLEAN
        BY <1>6, Zenon
    <2> QED BY <1>1, <1>6, <2>1, Zenon DEF PassOver
<1> QED BY <1>4, <1>5, <1>6, <1>7 DEF DiscoveryInv

\* The state that enumerate_into starts from, and starts from again over legacy.
FreshStart ==
    /\ wiring \in Wirings /\ covered \subseteq Buses /\ backend \in {"ecam", "legacy"}
    /\ walk = FirstBus /\ inventory = Cleared

FreshGives == WalkInv /\ InventoryTypes /\ ListSound /\ ListComplete

LEMMA FreshPass == FreshStart => FreshGives
<1> SUFFICES ASSUME FreshStart PROVE WalkInv /\ InventoryTypes /\ ListSound /\ ListComplete
    BY DEF FreshGives
<1> USE DEF FreshStart
<1>1. /\ walk.pending = <<0>> /\ walk.cursor = 1 /\ walk.device = 0 /\ walk.function = 0 /\ walk.multi = FALSE
      /\ walk = [pending |-> walk.pending, cursor |-> walk.cursor, device |-> walk.device,
                 function |-> walk.function, multi |-> walk.multi]
    BY DEF FirstBus
<1>2. /\ inventory.functions = <<>> /\ inventory.overflowed = FALSE
      /\ inventory = [functions |-> inventory.functions, overflowed |-> inventory.overflowed]
    BY DEF Cleared
<1>3. walk.pending \in Seq(Buses) /\ Len(walk.pending) = 1 /\ walk.pending[1] = 0
    BY <1>1, KindTypes
<1>4. WalkTypes
    <2>1. walk.multi \in BOOLEAN
        BY <1>1, Zenon
    <2> QED BY <1>1, <1>3, <2>1, DiscoveryAssumption DEF WalkTypes
<1>5. NoBusTwice /\ SeenMulti
    BY <1>1, <1>3 DEF NoBusTwice, SeenMulti
<1>6. Reached
    BY <1>3 DEF Reached, Closed
<1>7. InventoryTypes /\ ListSound
    <2>1. inventory.overflowed \in BOOLEAN /\ ~inventory.overflowed
        BY <1>2, Zenon
    <2>2. Len(inventory.functions) = 0 /\ inventory.functions \in Seq(Addresses)
        BY <1>2
    <2>3. \A a : ~Listed(a)
        BY <2>2 DEF Listed
    <2> QED BY <1>2, <2>1, <2>2, <2>3, DiscoveryAssumption DEF InventoryTypes, ListSound
<1>8. \A a \in Addresses : ~Passed(a)
    <2>1. \A a \in Addresses : a[2] \in Nat /\ a[3] \in Nat
        BY DiscoveryAssumption DEF Addresses
    <2> QED BY <1>1, <1>3, <2>1 DEF Passed
<1>9. ListComplete
    BY <1>8 DEF ListComplete, Present
<1> QED BY <1>4, <1>5, <1>6, <1>7, <1>9 DEF WalkInv

LEMMA DiscoveryStarts == ASSUME DiscoveryInit PROVE DiscoveryInv
<1>1. wiring \in Wirings
    BY DEF DiscoveryInit
<1>2. covered \subseteq Buses
    BY DEF DiscoveryInit, EcamCoverage
<1>3. backend \in {"ecam", "legacy"} /\ walk = FirstBus /\ inventory = Cleared
    BY DEF DiscoveryInit
<1>4. PassOver
    <2>1. failures.failed = FALSE /\ failures = [total |-> failures.total, failed |-> failures.failed] /\ discovered = FALSE
        BY DEF DiscoveryInit
    <2> QED BY <2>1, Zenon DEF PassOver
<1> QED BY <1>1, <1>2, <1>3, <1>4, FreshPass DEF DiscoveryInv, FreshStart, FreshGives

LEMMA PassEndsKeeps == ASSUME DiscoveryInv, PassEnds PROVE DiscoveryInv'
<1>1. ~discovered /\ ~Scanning /\ wiring' = wiring /\ covered' = covered
    BY DEF PassEnds
<1>2. wiring \in Wirings /\ covered \subseteq Buses
    BY DEF DiscoveryInv, WalkInv
<1>3. CASE backend = "ecam" /\ PassVoid
    <2>1. /\ backend' = "legacy" /\ walk' = FirstBus /\ inventory' = Cleared /\ discovered' = discovered
          /\ failures' = [failures EXCEPT !.failed = FALSE]
        BY <1>3 DEF PassEnds
    <2>2. wiring' \in Wirings /\ covered' \subseteq Buses /\ backend' \in {"ecam", "legacy"}
        BY <1>1, <1>2, <2>1
    <2>3. WalkInv' /\ InventoryTypes' /\ ListSound' /\ ListComplete'
        <3>1. FreshStart'
            BY <2>1, <2>2 DEF FreshStart, FirstBus, Cleared
        <3>2. FreshGives'
            BY <3>1, FreshPass, PTL
        <3> QED BY <3>2 DEF FreshGives
    <2>4. PassOver'
        <3>1. failures = [total |-> failures.total, failed |-> failures.failed]
            BY DEF DiscoveryInv, PassOver
        <3>2. failures'.failed = FALSE /\ failures' = [total |-> failures'.total, failed |-> failures'.failed]
            BY ONLY <2>1, <3>1
        <3> QED BY <1>1, <2>1, <3>2, Zenon DEF PassOver
    <2> QED BY <2>3, <2>4 DEF DiscoveryInv
<1>4. CASE ~(backend = "ecam" /\ PassVoid)
    <2>1. /\ backend' = backend /\ walk' = walk /\ inventory' = inventory /\ failures' = failures /\ discovered' = TRUE
        BY <1>4 DEF PassEnds
    <2>2. ~failures.failed
        BY <1>4 DEF DiscoveryInv, PassOver, PassVoid
    <2>3. WalkInv'
        BY <1>1, <2>1 DEF DiscoveryInv, WalkInv, WalkTypes, NoBusTwice, SeenMulti, Reached, Scanning, Here, Visible,
                          Closed, Present, Zero
    <2>4. InventoryTypes' /\ ListSound' /\ ListComplete'
        <3>1. Present' = Present /\ Visible' = Visible /\ (\A a : Passed(a)' <=> Passed(a))
            BY <1>1, <2>1 DEF Present, Visible, Passed
        <3>2. (\A a : Listed(a)' <=> Listed(a)) /\ (\A a : Queued(a)' <=> Queued(a))
            BY <2>1 DEF Listed, Queued
        <3>3. InventoryTypes'
            BY <2>1 DEF DiscoveryInv, InventoryTypes
        <3>4. ListSound'
            BY <3>1, <3>2 DEF DiscoveryInv, ListSound
        <3>5. ListComplete'
            BY <1>1, <2>1, <2>2, <3>1, <3>2 DEF DiscoveryInv, ListComplete, Queued
        <3> QED BY <3>3, <3>4, <3>5
    <2>5. PassOver'
        BY <1>1, <2>1, <2>2 DEF DiscoveryInv, PassOver, Scanning
    <2> QED BY <2>3, <2>4, <2>5 DEF DiscoveryInv
<1> QED BY <1>3, <1>4

\* Every step of the enumeration keeps the invariant.
LEMMA DiscoveryStep == ASSUME DiscoveryInv, [DiscoveryNext]_discoveryVars PROVE DiscoveryInv'
<1>1. CASE UNCHANGED discoveryVars
    <2>1. /\ wiring' = wiring /\ covered' = covered /\ backend' = backend /\ walk' = walk /\ inventory' = inventory
          /\ failures' = failures /\ discovered' = discovered
        BY <1>1 DEF discoveryVars
    <2>2. WalkInv'
        BY <2>1 DEF DiscoveryInv, WalkInv, WalkTypes, NoBusTwice, SeenMulti, Reached, Scanning, Here, Visible,
                          Closed, Present, Zero
    <2>3. InventoryTypes' /\ ListSound' /\ (ListComplete => ListComplete')
        <3>1. Present' = Present /\ Visible' = Visible /\ (\A a : Passed(a)' <=> Passed(a))
            BY <2>1 DEF Present, Visible, Passed
        <3>2. (\A a : Listed(a)' <=> Listed(a)) /\ (\A a : Queued(a)' <=> Queued(a))
            BY <2>1 DEF Listed, Queued
        <3>3. InventoryTypes'
            BY <2>1 DEF DiscoveryInv, InventoryTypes
        <3>4. ListSound'
            BY <3>1, <3>2 DEF DiscoveryInv, ListSound
        <3>5. ListComplete => ListComplete'
            BY <2>1, <3>1, <3>2 DEF ListComplete, Queued
        <3> QED BY <3>3, <3>4, <3>5
    <2>4. PassOver'
        BY <2>1 DEF DiscoveryInv, PassOver, Scanning
    <2> QED BY <2>1, <2>2, <2>3, <2>4 DEF DiscoveryInv
<1>2. CASE ReadDevice \/ ReadUnmapped
    BY <1>2, ReadKeepsFound, ReadUnmappedKeeps
<1>3. CASE ReadOutside
    BY <1>3, ReadOutsideKeeps
<1>4. CASE PassEnds
    BY <1>4, PassEndsKeeps
<1> QED BY <1>1, <1>2, <1>3, <1>4 DEF DiscoveryNext

\* What the walk takes to be behind a function is what the machine has there.
LEMMA BehindFunction ==
    ASSUME wiring \in Wirings, NEW a \in Addresses
    PROVE  \A b : b \in Downstream(a) <=> b # 0 /\ b = LeadsTo(a, wiring[a])
<1>1. PICK kind : kind = wiring[a]
    OBVIOUS
<1>2. kind \in AnyKind
    <2>1. kind \in FunctionKinds(a[3])
        BY <1>1, WiringAssumption
    <2> QED BY <2>1, KindTypes
<1>3. kind.secondary \in Buses
    BY <1>2 DEF AnyKind
<1>4. a = <<a[1], a[2], a[3]>> /\ a[3] \in Buses
    BY DiscoveryAssumption DEF Addresses, Buses
<1>5. CASE kind.class = "bridge"
    <2>1. LeadsTo(a, kind) = kind.secondary
        BY <1>5 DEF LeadsTo
    <2> QED BY <1>1, <1>3, <1>5, <2>1 DEF Downstream
<1>6. CASE kind.class = "host"
    <2>1. \A b : a = <<0, 0, b>> <=> a[1] = 0 /\ a[2] = 0 /\ a[3] = b
        BY <1>4
    <2>2. LeadsTo(a, kind) = IF a[1] = 0 /\ a[2] = 0 THEN a[3] ELSE 0
        BY <1>6 DEF LeadsTo
    <2> QED BY <1>1, <1>4, <1>6, <2>1, <2>2 DEF Downstream
<1>7. CASE kind.class # "bridge" /\ kind.class # "host"
    <2>1. LeadsTo(a, kind) = 0
        BY <1>7 DEF LeadsTo
    <2> QED BY <1>1, <1>7, <2>1 DEF Downstream
<1> QED BY <1>5, <1>6, <1>7

\* The buses reached are those that every closed set has.
LEMMA ReachableIsLeast ==
    ASSUME wiring \in Wirings
    PROVE  \A b : b \in ReachableBuses <=> b \in Buses /\ \A B : Closed(B) => b \in B
<1> DEFINE closed == {buses \in SUBSET Buses :
                          /\ 0 \in buses
                          /\ \A a \in Present : a[1] \in Visible \cap buses => Downstream(a) \subseteq buses}
<1>1. ASSUME NEW B PROVE B \in closed <=> Closed(B)
    <2>1. ASSUME NEW a \in Present, 0 \in B PROVE Downstream(a) \subseteq B <=> LeadsTo(a, wiring[a]) \in B
        <3>1. a \in Addresses
            BY DEF Present
        <3> QED BY <2>1, <3>1, BehindFunction
    <2> QED BY <2>1 DEF Closed
<1>2. ReachableBuses = {b \in Buses : \A buses \in closed : b \in buses}
    BY DEF ReachableBuses
<1> HIDE DEF closed
<1> QED BY <1>1, <1>2, Zenon

LEMMA ListCardinality == ASSUME InventoryTypes PROVE Len(inventory.functions) = Cardinality(Range(inventory.functions))
<1>1. PICK q : q = inventory.functions
    OBVIOUS
<1>2. q \in Seq(Addresses) /\ Len(q) \in Nat /\ DOMAIN q = 1..Len(q) /\ (\A i, j \in 1..Len(q) : q[i] = q[j] => i = j)
    BY <1>1 DEF InventoryTypes
<1>3. PICK n : n = Len(q)
    OBVIOUS
<1>4. n \in Nat /\ DOMAIN q = 1..n /\ (\A i, j \in 1..n : q[i] = q[j] => i = j) /\ q = [i \in 1..n |-> q[i]]
    BY <1>2, <1>3
<1>5. q \in Surjection(1..n, Range(q)) /\ q \in Injection(1..n, Range(q))
    <2>1. q \in [1..n -> Range(q)] /\ (\A t \in Range(q) : \E i \in 1..n : q[i] = t)
        BY ONLY <1>4 DEF Range
    <2>2. IsInjective(q)
        BY ONLY <1>4 DEF IsInjective
    <2> QED BY <2>1, <2>2, Zenon DEF Surjection, Injection
<1>6. IsFiniteSet(1..n) /\ Cardinality(1..n) = n
    <2>1. 1 \in Int /\ n \in Int
        BY <1>4
    <2>2. IsFiniteSet(1..n)
        BY ONLY <2>1, FS_Interval
    <2>3. Cardinality(1..n) = IF 1 > n THEN 0 ELSE n - 1 + 1
        BY ONLY <2>1, FS_Interval
    <2> QED BY <1>4, <2>2, <2>3
<1>7. Cardinality(Range(q)) = Cardinality(1..n)
    BY <1>5, <1>6, FS_Surjection
<1> QED BY <1>1, <1>3, <1>6, <1>7

LEMMA DiscoverySound == ASSUME DiscoveryInv PROVE InventoryComplete
<1>1. SUFFICES ASSUME discovered PROVE InventoryComplete
    BY DEF InventoryComplete
<1>2. WalkTypes /\ Reached /\ InventoryTypes /\ ListSound /\ ~Scanning /\ ListComplete /\ wiring \in Wirings
    BY <1>1 DEF DiscoveryInv, WalkInv, PassOver
<1>3. \A a \in Addresses : Passed(a) <=> Queued(a[1])
    <2>1. \A i \in 1..Len(walk.pending) : i < walk.cursor
        BY <1>2 DEF WalkTypes, Scanning
    <2> QED BY <2>1 DEF Passed, Queued
<1>4. PICK R : R = {walk.pending[i] : i \in 1..Len(walk.pending)}
    OBVIOUS
<1>5. \A b : b \in R <=> Queued(b)
    BY <1>4 DEF Queued
<1>6. Closed(R)
    <2>1. R \subseteq Buses /\ 0 \in R
        <3>1. \A i \in 1..Len(walk.pending) : walk.pending[i] \in Buses
            BY <1>2, ElementOfSeq DEF WalkTypes
        <3>2. 1 \in 1..Len(walk.pending) /\ walk.pending[1] = 0
            BY <1>2 DEF WalkTypes
        <3> QED BY <1>4, <3>1, <3>2
    <2>2. ASSUME NEW a \in Present, a[1] \in Visible, a[1] \in R PROVE LeadsTo(a, wiring[a]) \in R
        <3>1. a \in Addresses
            BY DEF Present
        <3>2. LeadsTo(a, wiring[a]) = 0 \/ Queued(LeadsTo(a, wiring[a]))
            BY <1>2, <1>3, <1>5, <2>2, <3>1 DEF ListComplete
        <3> QED BY <1>5, <2>1, <3>2
    <2> QED BY <2>1, <2>2 DEF Closed
<1>7. \A b : b \in ReachableBuses <=> b \in R
    <2>1. ASSUME NEW b \in R PROVE b \in Buses /\ \A B : Closed(B) => b \in B
        BY <1>2, <1>4, <1>6 DEF Reached, Closed
    <2> QED BY <1>2, <1>6, <2>1, ReachableIsLeast
<1> DEFINE reachable == {a \in Present : a[1] \in ReachableBuses /\ a[1] \in Visible}
           found == Range(inventory.functions)
<1>8. \A a : a \in found <=> Listed(a)
    <2>1. DOMAIN inventory.functions = 1..Len(inventory.functions)
        BY <1>2 DEF InventoryTypes
    <2> QED BY <2>1 DEF Range, Listed
<1>9. \A a \in Present : a \in Addresses
    BY DEF Present
<1>10. found \subseteq reachable
    BY <1>2, <1>3, <1>5, <1>7, <1>8, <1>9 DEF ListSound
<1>11. ~inventory.overflowed => reachable \subseteq found
    BY <1>2, <1>3, <1>5, <1>7, <1>8, <1>9 DEF ListComplete
<1>12. Len(inventory.functions) = Cardinality(found)
    BY <1>2, ListCardinality
<1>13. inventory.overflowed => Cardinality(found) = MAX_PCI_DEVICES
    BY <1>2, <1>12 DEF InventoryTypes
<1> HIDE DEF found, reachable
<1>14. ~inventory.overflowed => found = reachable
    BY <1>10, <1>11
<1>15. Len(inventory.functions) = Cardinality(found)
            /\ IF inventory.overflowed
               THEN found \subseteq reachable /\ Cardinality(found) = MAX_PCI_DEVICES
               ELSE found = reachable
    BY <1>10, <1>12, <1>13, <1>14
<1> USE DEF found, reachable
<1> QED BY <1>15, Zenon DEF InventoryComplete

\* On every machine of any number of buses, devices and functions, however the
\* firmware wired its bridges and whatever pages could not be mapped: when init returns, the
\* inventory has every function that can be reached, once, or it is full and
\* says so.
THEOREM InventoryAlwaysComplete == DiscoverySpec => []InventoryComplete
<1>1. DiscoveryInit => DiscoveryInv
    BY DiscoveryStarts
<1>2. DiscoveryInv /\ [DiscoveryNext]_discoveryVars => DiscoveryInv'
    BY DiscoveryStep
<1>3. DiscoveryInv => InventoryComplete
    BY DiscoverySound
<1> QED BY <1>1, <1>2, <1>3, PTL DEF DiscoverySpec

=============================================================================
