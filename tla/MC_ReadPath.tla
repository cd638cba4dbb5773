------------------------------ MODULE MC_ReadPath ------------------------------
(* Drives for the read path: 8-byte sectors (FatCodec explains the       *)
(* scaling), one or two sectors per cluster, with and without an MBR     *)
(* (padded to a cluster when spc is 2), and layouts of two and three     *)
(* ranges.                                                                *)
EXTENDS ReadPath

CONSTANTS MCGarbage

MCLayouts == {<<1, 2>>, <<2, 1, 1>>}
MCFat1632 == {"FAT16", "FAT32"}
MCFatAll == {"FAT12", "FAT16", "FAT32"}
MCBps == {8}
MCSpc == {1, 2}
MCMbr == {0, 1, 2}
MCByteCounts == {1, 5, 11, 19}

=============================================================================
