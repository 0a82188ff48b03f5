----------------------------- MODULE MCStorage -----------------------------
(***************************************************************************)
(* FAT32, the virtio disk and the USB disk, each over its own state, in    *)
(* one run: focus says which of them moves.                                *)
(***************************************************************************)
EXTENDS Fat32, VirtioBlock, UsbStorage

VARIABLE focus

storageVars == <<focus, fatVars, virtioVars, usbVars>>

StorageInit ==
    /\ focus \in {"fat", "virtio", "usb"}
    /\ FatInit /\ VirtioInit /\ UsbInit
    /\ focus # "fat" => disk0 = [boot |-> NoBoot, partitions |-> <<>>]

Follows(part, step, others) == focus = part /\ step /\ UNCHANGED <<focus, others>>

StorageNext ==
    \/ Follows("fat", FatNext, <<virtioVars, usbVars>>)
    \/ Follows("virtio", VirtioNext, <<fatVars, usbVars>>)
    \/ Follows("usb", UsbNext, <<fatVars, virtioVars>>)

\* The fairness of FatSpec and UsbSpec.
StorageSpec ==
    /\ StorageInit /\ [][StorageNext]_storageVars
    /\ WF_storageVars(Follows("fat", FatWalks, <<virtioVars, usbVars>>))
    /\ WF_storageVars(Follows("usb", Commands /\ Driver, <<fatVars, virtioVars>>))

\* Where the USB disk is followed: every command, the probe and a read with all
\* its recoveries come to an end, whatever controller and device do or leave
\* undone (DriverReturns of UsbStorage).
UsbCallsReturn == focus = "usb" => DriverReturns

-----------------------------------------------------------------------------
MCBoot(spc, fats, fatSectors, total) ==
    [valid |-> TRUE, sectors_per_cluster |-> spc, reserved |-> 1, fat_count |-> fats,
     sectors_per_fat |-> fatSectors, total |-> total, root |-> 3]

\* Superfloppies of two and three clusters, one whose FAT is too short and one
\* that is larger than the device; a disk whose second partition is FAT32.
MCBoots == {MCBoot(1, 1, 1, 5), MCBoot(1, 1, 1, 6), MCBoot(2, 1, 1, 6), MCBoot(2, 1, 1, 8), MCBoot(2, 1, 1, 10)}

MCPartition(start, boot) == [fat32 |-> TRUE, start |-> start, sectors |-> 6, boot |-> boot]

MCDisks ==
    [boot : MCBoots, partitions : {<<>>}] \cup
    [boot : {NoBoot}, partitions : {<<>>, <<MCPartition(0, NoBoot), MCPartition(2, MCBoot(1, 2, 1, 6))>>}]
=============================================================================
