---------------------------- MODULE PciResources ----------------------------
(***************************************************************************)
(* The address ranges of PCI functions (kernel/src/pci.rs): decode_bars    *)
(* and probe_bar_with, which measures a BAR by writing all ones to it, and *)
(* map_bar_mmio, which maps measured ranges into one kernel window.        *)
(*                                                                         *)
(* The probe is shown for one function with Bars registers and runs one    *)
(* configuration write at a time, for the device decodes its addresses in  *)
(* between.  A register holds what the firmware assigned or the sizing     *)
(* mask.  Drivers then map BARs of any function; addresses are in units of *)
(* which MmioPageSize make a page.                                         *)
(***************************************************************************)
EXTENDS Naturals, Sequences, FiniteSets, SequencesExt

CONSTANTS Bars,             \* BAR registers of the function: 6 in the code
          MmioPageSize,
          Bases, Sizes,     \* BARs that drivers may map
          WindowPages,      \* pages of the window: PCI_MMIO_WINDOW_SIZE
          MaxAperture,      \* MAX_MMIO_APERTURE_SIZE
          MAX_PCI_MMIO_MAPPINGS,
          MaxMapFailed      \* bound on the map_page calls that fail

ASSUME ResourcesAssumption ==
    /\ Bars \in Nat \ {0} /\ MmioPageSize \in Nat \ {0}
    /\ Bases \subseteq Nat /\ Sizes \subseteq Nat \ {0}
    /\ WindowPages \in Nat /\ MaxAperture \in Nat /\ MaxMapFailed \in Nat
    /\ MAX_PCI_MMIO_MAPPINGS \in Nat

VARIABLES raw,         \* what the firmware left in the BAR registers
          register,    \* what each register holds: "assigned" or "mask"
          decoding,    \* Command: are addresses decoded
          probe,       \* the BAR being measured and the write to do next
          mappings,    \* PCI_MMIO_MAPPINGS, in order
          next_offset, \* in pages
          table,       \* the MMIO window of the page table: page -> physical page
          mapFailed

resourceVars == <<raw, register, decoding, probe, mappings, next_offset, table, mapFailed>>

Indices == 0..Bars - 1

\* decode_bars: a 64-bit BAR takes the next register too, unless it is the
\* last one, which makes it reserved; zero is unused.
Decoded ==
    LET kind[i \in Indices] ==
            IF i > 0 /\ kind[i - 1] = "mem64" THEN "upper"
            ELSE IF raw[i] = "mem64" /\ i + 1 = Bars THEN "reserved" ELSE raw[i]
    IN  kind

ResourcesInit ==
    /\ raw \in [Indices -> {"unused", "io", "mem32", "mem64"}]
    /\ register = [i \in Indices |-> "assigned"]
    /\ decoding = TRUE
    /\ probe = [index |-> 0, write |-> 1]
    /\ mappings = <<>>
    /\ next_offset = 0
    /\ table = [page \in {} |-> 0]
    /\ mapFailed = 0

-----------------------------------------------------------------------------
(* probe_inventory_bars and probe_bar_with.                                *)

Off == [what |-> "off", bar |-> 0]
On == [what |-> "on", bar |-> 0]
Mask(i) == [what |-> "mask", bar |-> i]
Restore(i) == [what |-> "restore", bar |-> i]

\* Fault: decoding is on again before the BAR is restored.
WritesEarly(i) ==
    IF Decoded[i] = "mem64"
    THEN <<Off, Mask(i), Mask(i + 1), On, Restore(i), Restore(i + 1)>>
    ELSE <<Off, Mask(i), On, Restore(i)>>

\* The configuration writes that measure one BAR, in order.
Writes(i) ==
    IF Decoded[i] = "mem64"
    THEN <<Off, Mask(i), Mask(i + 1), Restore(i), Restore(i + 1), On>>
    ELSE <<Off, Mask(i), Restore(i), On>>

Probing == probe.index < Bars
Probeable == Decoded[probe.index] \in {"io", "mem32", "mem64"}

\* The index after a BAR: a 64-bit one counts twice.
NextBar == [index |-> probe.index + (IF Decoded[probe.index] = "mem64" THEN 2 ELSE 1), write |-> 1]

SkipBar ==
    /\ Probing /\ ~Probeable
    /\ probe' = NextBar
    /\ UNCHANGED <<raw, register, decoding, mappings, next_offset, table, mapFailed>>

\* The size is worked out after the last write, whether it is usable or not.
ProbeWrite ==
    /\ Probing /\ Probeable
    /\ LET writes == Writes(probe.index)
           w == writes[probe.write]
       IN  /\ decoding' = CASE w.what = "off" -> FALSE [] w.what = "on" -> TRUE [] OTHER -> decoding
           /\ register' = CASE w.what = "mask" -> [register EXCEPT ![w.bar] = "mask"]
                            [] w.what = "restore" -> [register EXCEPT ![w.bar] = "assigned"]
                            [] OTHER -> register
           /\ probe' = IF probe.write < Len(writes) THEN [probe EXCEPT !.write = @ + 1] ELSE NextBar
    /\ UNCHANGED <<raw, mappings, next_offset, table, mapFailed>>

-----------------------------------------------------------------------------
(* map_bar_mmio.                                                           *)

Overlap(a, b) == a.base < b.base + b.size /\ b.base < a.base + a.size

\* plan_mmio_mapping: whole pages around the BAR, at the end of the window.
FirstPage(bar) == bar.base \div MmioPageSize
WindowPageCount(bar) == ((bar.base % MmioPageSize) + bar.size + MmioPageSize - 1) \div MmioPageSize

\* A BAR is aligned to its size.
BarResources == {bar \in [base : Bases, size : Sizes] : bar.base % bar.size = 0}

WindowOf(bar) == next_offset .. next_offset + WindowPageCount(bar) - 1

\* An exact duplicate is reused, which changes nothing, nor does a refusal.
Unmapped(bar) == ~\E m \in Range(mappings) : m.base = bar.base /\ m.size = bar.size

Refused(bar) ==
    \/ Len(mappings) = MAX_PCI_MMIO_MAPPINGS
    \/ \E m \in Range(mappings) : Overlap(m, bar)
    \/ bar.size > MaxAperture
    \/ next_offset + WindowPageCount(bar) > WindowPages
    \/ WindowOf(bar) \cap DOMAIN table # {}

\* The table once the first pages of a plan are mapped.
Mapped(bar, pages) ==
    [page \in DOMAIN table \cup next_offset .. next_offset + pages - 1 |->
        IF page \in DOMAIN table THEN table[page] ELSE FirstPage(bar) + page - next_offset]

\* Fault: the pages already mapped are left behind.
RolledBackNot(bar, pages) == Mapped(bar, pages)

\* The rollback unmaps the pages that this call mapped.
RolledBack(bar, pages) == [page \in DOMAIN Mapped(bar, pages) \ WindowOf(bar) |-> table[page]]

MapBar(bar) ==
    /\ ~Probing
    /\ Unmapped(bar) /\ ~Refused(bar)
    /\ mappings' = Append(mappings, [base |-> bar.base, size |-> bar.size, window |-> next_offset])
    /\ next_offset' = next_offset + WindowPageCount(bar)
    /\ table' = Mapped(bar, WindowPageCount(bar))
    /\ UNCHANGED <<raw, register, decoding, probe, mapFailed>>

\* map_page fails after some pages.
MapFails(bar, pages) ==
    /\ ~Probing
    /\ Unmapped(bar) /\ ~Refused(bar)
    /\ pages < WindowPageCount(bar)
    /\ mapFailed < MaxMapFailed
    /\ mapFailed' = mapFailed + 1
    /\ table' = RolledBack(bar, pages)
    /\ UNCHANGED <<raw, register, decoding, probe, mappings, next_offset>>

ResourcesNext ==
    \/ SkipBar \/ ProbeWrite
    \/ \E bar \in BarResources : \/ MapBar(bar)
                                 \/ \E pages \in 0..WindowPages : MapFails(bar, pages)

ResourcesSpec == ResourcesInit /\ [][ResourcesNext]_resourceVars

-----------------------------------------------------------------------------
(* Properties.                                                             *)

\* The device never decodes a sizing mask as its address, and the probe
\* leaves every register, the halves of a 64-bit BAR included, as it was.
ProbeInvisible ==
    /\ decoding => \A i \in Indices : register[i] = "assigned"
    /\ ~Probing => decoding

\* However many mappings fail half way, the window holds exactly the pages of
\* the mappings that drivers were given: no driver's virtual range is another
\* one's, and nothing is left that would refuse the next mapping.
WindowIsMappings ==
    LET pages(m) == m.window .. m.window + WindowPageCount(m) - 1
    IN  /\ DOMAIN table = UNION {pages(m) : m \in Range(mappings)}
        /\ \A m \in Range(mappings) : \A page \in pages(m) : table[page] = FirstPage(m) + page - m.window
        /\ \A i, j \in DOMAIN mappings : i # j => pages(mappings[i]) \cap pages(mappings[j]) = {}

\* Neither measuring nor mapping a BAR is noticed by anyone else.
ResourcesIntact == ProbeInvisible /\ WindowIsMappings
=============================================================================
