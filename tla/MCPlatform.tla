----------------------------- MODULE MCPlatform -----------------------------
(***************************************************************************)
(* What the drivers stand on, each part over its own state: PCI interrupt  *)
(* routing, discovery and resources, physical frames and user memory, and  *)
(* the life of the xHCI controller.  focus says which one is followed.     *)
(***************************************************************************)
EXTENDS PciInterrupts, PciDiscovery, PciResources, Memory, XhciLifecycle

VARIABLE focus

\* A device is one function (a second one that would answer is there, and must
\* not be asked) or two, the first of which is a host bridge on bus 0 only.
\* Bridges lead to the same bus, back or round in a ring; the root bus 1 may be
\* there as well.
MCDevices(bus) ==
    {d \in FunctionKinds(0) \X FunctionKinds(1) :
        IF d[1].multi
        THEN /\ \A i \in 1..2 : d[i].class # "endpoint" /\ (d[i].class = "bridge" => d[i].secondary # 0)
             /\ d[1].class = "host" => bus = 0
        ELSE d[1].class # "host" /\ d[2].class = "endpoint"}

MCWirings ==
    {[a \in Addresses |-> devices[a[1] + 1][a[3] + 1]] :
        devices \in MCDevices(0) \X MCDevices(1) \X MCDevices(2)}

AnyWiring == CHOOSE w \in MCWirings : TRUE

platformVars == <<focus, pciVars, discoveryVars, resourceVars, memoryVars, lifecycleVars>>

PlatformInit ==
    /\ focus \in {"interrupts", "discovery", "resources", "frames", "pages", "controller"}
    /\ PciInit /\ (focus # "interrupts" => \A f, g \in Functions : caps[f] = CHOOSE c \in Capabilities : TRUE)
    /\ ResourcesInit /\ (focus # "resources" => \A i \in Indices : raw[i] = "unused")
    /\ MemoryInit /\ (focus # "pages" => \A e \in Entries, p \in 0..UserPages - 1 :
                                              entries.upper[e] = "none" /\ entries.leaf[p] = "none")
    /\ LifecycleInit /\ (focus # "controller" => device = "none" /\ ~run)
    /\ (focus = "discovery" \/ (wiring = AnyWiring /\ covered = {})) /\ DiscoveryInit
    /\ 0 \in covered \/ covered = {}    \* without bus 0, ECAM is not used

PlatformNext ==
    /\ \/ /\ focus = "interrupts" /\ PciNext
          /\ UNCHANGED <<discoveryVars, resourceVars, memoryVars, lifecycleVars>>
       \/ /\ focus = "discovery" /\ DiscoveryNext
          /\ UNCHANGED <<pciVars, resourceVars, memoryVars, lifecycleVars>>
       \/ /\ focus = "resources" /\ ResourcesNext
          /\ UNCHANGED <<pciVars, discoveryVars, memoryVars, lifecycleVars>>
       \/ /\ focus = "frames" /\ FrameSteps
          /\ UNCHANGED <<pciVars, discoveryVars, resourceVars, lifecycleVars>>
       \/ /\ focus = "pages" /\ SpaceSteps
          /\ UNCHANGED <<pciVars, discoveryVars, resourceVars, lifecycleVars>>
       \/ /\ focus = "controller" /\ LifecycleNext
          /\ UNCHANGED <<pciVars, discoveryVars, resourceVars, memoryVars>>
    /\ UNCHANGED focus

PlatformSpec == PlatformInit /\ [][PlatformNext]_platformVars
=============================================================================
