---------------------------- MODULE PciDiscovery ----------------------------
(***************************************************************************)
(* PCI enumeration (init and enumerate_into in kernel/src/pci.rs): a walk  *)
(* over the buses reachable from bus 0 through bridges, first through the  *)
(* memory-mapped configuration space that ACPI described, then, if that    *)
(* finds nothing or a page cannot be mapped, through the legacy ports.     *)
(*                                                                         *)
(* The machine is fixed before the walk begins: which functions answer and *)
(* where the firmware made the bridges point, back to a bus that was       *)
(* scanned included.  Both ways of reading a function agree; one whose     *)
(* page could not be mapped reads as absent.                               *)
(***************************************************************************)
EXTENDS Naturals, Sequences, FiniteSets, SequencesExt

CONSTANTS LastBus,         \* buses are 0..LastBus
          DeviceCount,     \* devices on a bus: 32 in the code
          FunctionCount,   \* functions of a device: 8 in the code
          MAX_PCI_DEVICES,
          MaxMapFailures,  \* bound on the pages that cannot be mapped
          Wirings          \* the machines: what each function of each bus is

ASSUME DiscoveryAssumption ==
    /\ LastBus \in Nat /\ MaxMapFailures \in Nat
    /\ DeviceCount \in Nat \ {0} /\ FunctionCount \in Nat \ {0} /\ MAX_PCI_DEVICES \in Nat \ {0}
    /\ FunctionCount - 1 <= LastBus

VARIABLES wiring,     \* the machine: what each function is
          covered,    \* the buses that ECAM regions of segment 0 have
          backend,    \* the configuration access in use
          walk,       \* pending, cursor and where the scan of the bus stands
          inventory,  \* PCI_INVENTORY: the functions, in order, and overflowed
          failures,   \* pages that could not be mapped; mapping_failed for this pass
          discovered  \* init has returned

discoveryVars == <<wiring, covered, backend, walk, inventory, failures, discovered>>

Buses == 0..LastBus
Addresses == Buses \X (0..DeviceCount - 1) \X (0..FunctionCount - 1)
Absent == [class |-> "absent", secondary |-> 0, multi |-> FALSE]

\* What a function may be: an endpoint, a host bridge, or a PCI bridge with
\* its secondary bus (0: not configured).  multi counts in function 0 only.
FunctionKinds(f) ==
    {Absent} \cup [class : {"endpoint", "host"}, secondary : {0}, multi : IF f = 0 THEN BOOLEAN ELSE {FALSE}]
             \cup [class : {"bridge"}, secondary : Buses, multi : IF f = 0 THEN BOOLEAN ELSE {FALSE}]

\* Every machine is made of such functions.
ASSUME WiringAssumption ==
    \A w \in Wirings : /\ DOMAIN w = Addresses
                       /\ \A a \in Addresses : w[a] \in FunctionKinds(a[3])

\* enumerate_into starts with an empty inventory and bus 0.
FirstBus == [pending |-> <<0>>, cursor |-> 1, device |-> 0, function |-> 0, multi |-> FALSE]
Cleared == [functions |-> <<>>, overflowed |-> FALSE]

\* The MCFG table may describe any ranges of buses that do not overlap, or
\* nothing usable.
EcamCoverage == SUBSET Buses

DiscoveryInit ==
    /\ wiring \in Wirings
    /\ covered \in EcamCoverage
    /\ backend = IF 0 \in covered THEN "ecam" ELSE "legacy"
    /\ walk = FirstBus
    /\ inventory = Cleared
    /\ failures = [total |-> 0, failed |-> FALSE]
    /\ discovered = FALSE

-----------------------------------------------------------------------------

Scanning == walk.cursor <= Len(walk.pending)
Here == <<walk.pending[walk.cursor], walk.device, walk.function>>

\* Fault: buses are expected in ascending order.
EnqueueAscending(pending, bus) == IF bus <= Last(pending) THEN pending ELSE Append(pending, bus)

\* enqueue_bus.
EnqueueBus(pending, bus) == IF Contains(pending, bus) THEN pending ELSE Append(pending, bus)

\* The bus that a function leads to: behind a PCI bridge, or the root bus of
\* a further function of the host bridge.  0 when it leads nowhere.
LeadsTo(a, kind) ==
    CASE kind.class = "bridge" -> kind.secondary
      [] kind.class = "host" /\ a[1] = 0 /\ a[2] = 0 -> a[3]
      [] OTHER -> 0

\* PciInventory::push.
Push(a) ==
    IF Len(inventory.functions) = MAX_PCI_DEVICES THEN [inventory EXCEPT !.overflowed = TRUE]
                                                  ELSE [inventory EXCEPT !.functions = Append(@, a)]

\* The walk after the function at Here was read as this kind: the next
\* function of a multifunction device, the next device, or the next bus.
Advanced(kind) ==
    LET multi == IF walk.function = 0 THEN kind.multi ELSE walk.multi
        queued == IF LeadsTo(Here, kind) = 0 THEN walk.pending ELSE EnqueueBus(walk.pending, LeadsTo(Here, kind))
    IN  IF multi /\ walk.function + 1 < FunctionCount
        THEN [walk EXCEPT !.pending = queued, !.function = @ + 1, !.multi = TRUE]
        ELSE IF walk.device + 1 < DeviceCount
        THEN [walk EXCEPT !.pending = queued, !.device = @ + 1, !.function = 0, !.multi = FALSE]
        ELSE [walk EXCEPT !.pending = queued, !.cursor = @ + 1, !.device = 0, !.function = 0, !.multi = FALSE]

Scanned(kind) ==
    /\ walk' = Advanced(kind)
    /\ inventory' = IF kind = Absent THEN inventory ELSE Push(Here)

\* read_device through a configuration access that reaches the function.
ReadDevice ==
    /\ ~discovered /\ Scanning
    /\ backend = "ecam" => Here[1] \in covered
    /\ Scanned(wiring[Here])
    /\ UNCHANGED <<wiring, covered, backend, failures, discovered>>

\* No ECAM region has the bus: all ones.
ReadOutside ==
    /\ ~discovered /\ Scanning
    /\ backend = "ecam" /\ Here[1] \notin covered
    /\ Scanned(Absent)
    /\ UNCHANGED <<wiring, covered, backend, failures, discovered>>

\* ensure_function_mapped fails: all ones, and the pass is void.
ReadUnmapped ==
    /\ ~discovered /\ Scanning
    /\ backend = "ecam" /\ Here[1] \in covered
    /\ failures.total < MaxMapFailures
    /\ failures' = [total |-> failures.total + 1, failed |-> TRUE]
    /\ Scanned(Absent)
    /\ UNCHANGED <<wiring, covered, backend, discovered>>

PassVoid == failures.failed \/ inventory.functions = <<>>

\* init: an ECAM pass that is void is repeated with the legacy ports.
PassEnds ==
    /\ ~discovered /\ ~Scanning
    /\ IF backend = "ecam" /\ PassVoid
       THEN /\ backend' = "legacy"
            /\ walk' = FirstBus
            /\ inventory' = Cleared
            /\ failures' = [failures EXCEPT !.failed = FALSE]
            /\ UNCHANGED discovered
       ELSE /\ discovered' = TRUE
            /\ UNCHANGED <<backend, walk, inventory, failures>>
    /\ UNCHANGED <<wiring, covered>>

DiscoveryNext == ReadDevice \/ ReadUnmapped \/ ReadOutside \/ PassEnds

DiscoverySpec == DiscoveryInit /\ [][DiscoveryNext]_discoveryVars

-----------------------------------------------------------------------------
(* Properties.                                                             *)

\* The functions that answer on a bus: those that follow function 0 of a
\* single-function device are not looked at.
Present == {a \in Addresses : /\ wiring[a].class # "absent"
                              /\ a[3] = 0 \/ wiring[<<a[1], a[2], 0>>].multi}

Visible == IF backend = "legacy" THEN Buses ELSE covered

\* The buses behind a function, from the machine and not from the walk: a
\* configured bridge's secondary bus, the root bus of host bridge 0.0.n.
Downstream(a) == {b \in Buses \ {0} : \/ wiring[a].class = "bridge" /\ wiring[a].secondary = b
                                      \/ wiring[a].class = "host" /\ a = <<0, 0, b>>}

\* The least set that has bus 0 and, with a bus, all that is behind the
\* functions of it that the configuration access can show.
ReachableBuses ==
    LET closed == {buses \in SUBSET Buses :
                       /\ 0 \in buses
                       /\ \A a \in Present : a[1] \in Visible \cap buses => Downstream(a) \subseteq buses}
    IN  {b \in Buses : \A buses \in closed : b \in buses}

\* On every machine enumeration finds every function that can be reached, each
\* of them once, however the bridges are wired (in loops too) and whatever
\* pages could not be mapped; only a full inventory leaves some out.
InventoryComplete ==
    discovered =>
        LET reachable == {a \in Present : a[1] \in ReachableBuses /\ a[1] \in Visible}
            found == Range(inventory.functions)
        IN  /\ Len(inventory.functions) = Cardinality(found)
            /\ IF inventory.overflowed
               THEN found \subseteq reachable /\ Cardinality(found) = MAX_PCI_DEVICES
               ELSE found = reachable
=============================================================================
