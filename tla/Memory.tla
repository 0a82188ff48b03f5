------------------------------- MODULE Memory -------------------------------
(***************************************************************************)
(* Memory: the bitmap allocator of physical frames, from which the heap,   *)
(* page tables, trampolines and DMA regions come (frame_allocator.rs,      *)
(* dma.rs, heap.rs), and the leases on user memory (paging.rs, process.rs, *)
(* syscall.rs): a range of a process is pinned and every page of it        *)
(* checked through the page tables before anything is copied.  Committing  *)
(* a new generation of mappings waits for the pins; the page-table writers *)
(* themselves do not look at them.                                         *)
(*                                                                         *)
(* Frames are numbered; regions are given in units of which FRAME_SIZE     *)
(* make a frame.  A user page is checked through two levels of entries, as *)
(* the four of the code are; an entry of the upper level may be a huge     *)
(* page.  The tables start out as bootloader and boot code left them.      *)
(***************************************************************************)
EXTENDS Naturals, FiniteSets, FiniteSetsExt

CONSTANTS MAX_FRAMES, FRAME_SIZE,
          Limits,            \* address limits of allocations, in frames
          Alignments,        \* in frames
          MaxGrants,         \* bound on the allocations held at once
          UserPages,         \* pages of the user half
          PagesPerEntry,     \* pages below one entry of the upper level
          PAGE_SIZE,         \* bytes of a page
          MaxCopy,           \* max_copy_bytes
          MaxPins,           \* the range of the pin counter
          MaxGeneration      \* the range of the generation

ASSUME MemoryAssumption ==
    /\ MAX_FRAMES \in Nat /\ FRAME_SIZE \in Nat \ {0}
    /\ Limits \subseteq Nat /\ Alignments \subseteq Nat \ {0}
    /\ MaxGrants \in Nat
    /\ UserPages \in Nat \ {0} /\ PagesPerEntry \in Nat \ {0} /\ PAGE_SIZE \in Nat \ {0}
    /\ MaxCopy \in Nat /\ MaxPins \in Nat /\ MaxGeneration \in Nat \ {0}

VARIABLES used,         \* the bits set in ALLOCATOR_BITMAP
          free_frames,
          usable,       \* the frames that lie wholly in usable regions of the memory map
          grants,       \* the allocations handed out: first frame, count, limit and alignment
          entries,      \* page tables: upper[e] and leaf[p]
          space,        \* AddressSpaceState: generation and pins
          leases        \* the PinnedUserRanges held

frameVars == <<used, free_frames, usable, grants>>
spaceVars == <<entries, space, leases>>
memoryVars == <<frameVars, spaceVars>>

Frames == 0..MAX_FRAMES - 1
Entries == 0..(UserPages - 1) \div PagesPerEntry

\* What the flags of an entry say: not present, for the kernel only, for the
\* user to read, or to read and write.
Kinds == {"none", "kernel", "ro", "rw"}
Huge == {"huge_kernel", "huge_ro", "huge_rw"}

MemoryInit ==
    /\ used = Frames
    /\ free_frames = 0
    /\ usable = {}
    /\ grants = {}
    /\ entries \in [upper : [Entries -> Kinds \cup Huge], leaf : [0..UserPages - 1 -> Kinds]]
    /\ \A p \in 0..UserPages - 1 :
           entries.upper[p \div PagesPerEntry] \in Huge \cup {"none"} => entries.leaf[p] = "none"
    /\ space = [generation |-> 1, pins |-> 0]
    /\ leases = {}

-----------------------------------------------------------------------------
(* Frames.                                                                 *)

\* At boot: a usable region of the memory map.  The frames it covers, rounded
\* as the code does, become free, unless they are.
MarkRegionFree(start, end) ==
    LET covered == {f \in Frames : start \div FRAME_SIZE <= f /\ f < end \div FRAME_SIZE}
    IN  /\ grants = {}
        /\ used' = used \ covered
        /\ free_frames' = free_frames + Cardinality(covered \cap used)
        /\ usable' = usable \cup {f \in Frames : start <= f * FRAME_SIZE /\ (f + 1) * FRAME_SIZE <= end}
        /\ UNCHANGED <<grants, spaceVars>>

\* A range is taken back; a frame it only touches is taken as well.
MarkRegionUsed(start, end) ==
    LET covered == {f \in Frames : start \div FRAME_SIZE <= f /\ f < (end + FRAME_SIZE - 1) \div FRAME_SIZE}
    IN  /\ grants = {}
        /\ used' = used \cup covered
        /\ free_frames' = free_frames - Cardinality(covered \ used)
        /\ usable' = usable \ {f \in Frames : f * FRAME_SIZE < end /\ start < (f + 1) * FRAME_SIZE}
        /\ UNCHANGED <<grants, spaceVars>>

\* Fault: the last frame of the run is not looked at.
FreeRunShort(start, count) == \A f \in start .. start + count - 2 : f \notin used

FreeRun(start, count) == \A f \in start .. start + count - 1 : f \notin used

Bounded(limit) == Min({limit, MAX_FRAMES})

FreeRuns(count, limit, alignment) ==
    {start \in Frames : /\ start + count <= Bounded(limit)
                        /\ start % alignment = 0
                        /\ FreeRun(start, count)}

\* allocate_below (count and alignment 1) and allocate_contiguous_below take
\* the lowest run that fits; DmaRegion::allocate is the latter.
Allocate(count, limit, alignment) ==
    /\ Cardinality(grants) < MaxGrants
    /\ FreeRuns(count, limit, alignment) # {}
    /\ LET start == Min(FreeRuns(count, limit, alignment))
       IN  /\ used' = used \cup start .. start + count - 1
           /\ grants' = grants \cup {[start |-> start, count |-> count, limit |-> limit, alignment |-> alignment]}
    /\ free_frames' = IF count > free_frames THEN 0 ELSE free_frames - count
    /\ UNCHANGED <<usable, spaceVars>>

\* A single frame is given back.
Deallocate(grant) ==
    /\ grant \in grants /\ grant.count = 1
    /\ used' = used \ {grant.start}
    /\ free_frames' = free_frames + 1
    /\ grants' = grants \ {grant}
    /\ UNCHANGED <<usable, spaceVars>>

\* The regions of the bootloader's map start on a frame boundary.
FrameSteps ==
    \/ \E start, end \in 0..MAX_FRAMES * FRAME_SIZE :
           start < end /\ start % FRAME_SIZE = 0 /\ MarkRegionFree(start, end)
    \/ \E start, end \in 0..MAX_FRAMES * FRAME_SIZE : start < end /\ MarkRegionUsed(start, end)
    \/ \E count \in 1..MAX_FRAMES, limit \in Limits, alignment \in Alignments : Allocate(count, limit, alignment)
    \/ \E grant \in grants : Deallocate(grant)

-----------------------------------------------------------------------------
(* User ranges.                                                            *)

Size == UserPages * PAGE_SIZE

\* UserRange::new.
ValidRange(start, len) ==
    /\ start = 0 => len = 0
    /\ len <= MaxCopy
    /\ start < Size
    /\ start + len <= Size

\* Fault: the pages are counted from the length alone.
PageCountOfLength(start, len) == (len + PAGE_SIZE - 1) \div PAGE_SIZE

\* UserRange::page_count.
PageCount(start, len) ==
    IF len = 0 THEN 0 ELSE (start + len - 1) \div PAGE_SIZE - start \div PAGE_SIZE + 1

\* effective_user_page_permissions intersects what the levels allow; below a
\* huge page there is no further level.
Allows == [none |-> {}, kernel |-> {}, ro |-> {"Read"}, rw |-> {"Read", "Write"},
           huge_kernel |-> {}, huge_ro |-> {"Read"}, huge_rw |-> {"Read", "Write"}]

Effective(page) ==
    LET upper == entries.upper[page \div PagesPerEntry]
    IN  IF upper \in Huge THEN Allows[upper] ELSE Allows[upper] \cap Allows[entries.leaf[page]]

\* validate_pages.
ValidatePages(start, len, access) ==
    \A i \in 1..PageCount(start, len) :
        LET page == start \div PAGE_SIZE + i - 1 IN page < UserPages /\ access \in Effective(page)

\* pin_and_validate_user_range: a failed validation gives the pin back.
PinAndValidate(start, len, access) ==
    /\ ValidRange(start, len)
    /\ space.pins < MaxPins
    /\ ValidatePages(start, len, access)
    /\ space' = [space EXCEPT !.pins = @ + 1]
    /\ leases' = leases \cup {[start |-> start, len |-> len, access |-> access,
                               generation |-> space.generation,
                               number |-> Min(1..MaxPins \ {lease.number : lease \in leases})]}
    /\ UNCHANGED <<frameVars, entries>>

\* PinnedUserRange::release.
Release(lease) ==
    /\ lease.generation = space.generation /\ space.pins # 0
    /\ space' = [space EXCEPT !.pins = @ - 1]
    /\ leases' = leases \ {lease}
    /\ UNCHANGED <<frameVars, entries>>

\* Fault: the commit does not wait for the pins.
CommitsPinned == space.generation < MaxGeneration

Commits == space.pins = 0 /\ space.generation < MaxGeneration

\* bump_address_space_generation.
BumpGeneration ==
    /\ Commits
    /\ space' = [space EXCEPT !.generation = @ + 1]
    /\ UNCHANGED <<frameVars, entries, leases>>

\* map_page: a page that is not mapped yet gets its entry, and the entry above
\* it, which may not be a huge page, the flags it needs.
MapPage(page, upper, kind) ==
    LET e == page \div PagesPerEntry
    IN  /\ entries.upper[e] \notin Huge /\ entries.leaf[page] = "none"
        /\ Allows[entries.upper[e]] \cup Allows[kind] \subseteq Allows[upper]
        /\ entries' = [entries EXCEPT !.upper[e] = upper, !.leaf[page] = kind]
        /\ UNCHANGED <<frameVars, space, leases>>

\* unmap_page.
UnmapPage(page) ==
    /\ entries.upper[page \div PagesPerEntry] \notin Huge \cup {"none"} /\ entries.leaf[page] # "none"
    /\ entries' = [entries EXCEPT !.leaf[page] = "none"]
    /\ UNCHANGED <<frameVars, space, leases>>

SpaceSteps ==
    \/ \E start \in 0..Size, len \in 0..MaxCopy, access \in {"Read", "Write"} : PinAndValidate(start, len, access)
    \/ \E lease \in leases : Release(lease)
    \/ BumpGeneration
    \/ \E page \in 0..UserPages - 1, upper, kind \in Kinds \ {"none"} : MapPage(page, upper, kind)
    \/ \E page \in 0..UserPages - 1 : UnmapPage(page)

MemoryNext == FrameSteps \/ SpaceSteps

MemorySpec == MemoryInit /\ [][MemoryNext]_memoryVars

-----------------------------------------------------------------------------
(* Properties.                                                             *)

Granted(g) == g.start .. g.start + g.count - 1

\* No frame is handed out twice or from outside the memory map, every run
\* lies below its limit and is aligned, and the count of free frames is that
\* of the bitmap, whatever is marked, allocated and given back.
GrantsDisjoint ==
    /\ \A g \in grants : /\ Granted(g) \subseteq used \cap usable
                         /\ g.start + g.count <= g.limit /\ g.start % g.alignment = 0
    /\ \A g, h \in grants : g # h => Granted(g) \cap Granted(h) = {}
    /\ free_frames = Cardinality(Frames \ used)

\* Every byte of the range can be accessed, at every level of the tables.
Accessible(lease, tables) ==
    \A byte \in lease.start .. lease.start + lease.len - 1 :
        LET page == byte \div PAGE_SIZE
            upper == tables.upper[page \div PagesPerEntry]
        IN  lease.access \in Allows[upper] /\ (upper \notin Huge => lease.access \in Allows[tables.leaf[page]])

\* "Validate every page through the active mapper" (paging.rs): when a lease is
\* given, every byte of its range can be accessed as it asks for, at every
\* level of the page tables, wherever the range begins in a page and however
\* many pages, small or huge, it crosses.
LeaseChecked == \A lease \in leases' \ leases : Accessible(lease, entries)

\* "Mapping writers cannot advance the generation while this pin is held"
\* (paging.rs): a lease that is held is current, and counted once, so that its
\* release cannot fail and a commit cannot overtake it.
LeasesCurrent ==
    /\ \A lease \in leases : lease.generation = space.generation
    /\ space.pins = Cardinality(leases)

\* Leases are given for ranges that can be accessed, and no commit overtakes
\* them.  That the range stays mapped is not said: the page-table writers look
\* at no pin.
LeasesSound == [][LeaseChecked /\ LeasesCurrent']_memoryVars
=============================================================================
