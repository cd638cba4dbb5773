------------------------------ MODULE MC_FatCodec ------------------------------
(* Drive layouts for read_sector_fat.  Sectors are scaled down from 512   *)
(* bytes: 8 has the residue of 512 and 2048 modulo 3 (where FAT12 entries *)
(* straddle sector boundaries) and 16 that of 1024 and 4096; both are    *)
(* multiples of 4, as FAT16 and FAT32 need.                               *)
EXTENDS FatCodec

CONSTANTS MCGarbage

\* one range, several ranges of one and of several clusters
MCLayouts == {<<1>>, <<3>>, <<6>>, <<1, 1>>, <<2, 1, 3>>, <<4, 2>>, <<1, 3, 1, 2>>}

\* a chain long enough to reach entry values of 256 and more
MCLongChain == {<<270>>}

MCFat1632 == {"FAT16", "FAT32"}
MCFat12 == {"FAT12"}
MCFatAll == {"FAT12", "FAT16", "FAT32"}
MCBps == {8, 16}

=============================================================================
