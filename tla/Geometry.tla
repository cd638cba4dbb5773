------------------------------ MODULE Geometry ------------------------------
(***************************************************************************)
(* The geometry solver of src/libvdf/drive.c: createdrive_ext with        *)
(* find_spc, from a requested size and flags to the FAT type, cluster     *)
(* size and region boundaries of a new drive, or EINVAL.  It is a pure   *)
(* computation, so the model holds one request, fixed by Init, and an    *)
(* invariant covers every request of the bounded sets.                   *)
(*                                                                         *)
(* Sizes are counted in sectors: createdrive_ext rounds the byte size up  *)
(* to a sector first, and every threshold of the code is a multiple of    *)
(* the sector size, so size < X is sectors < X / bps.  Thresholds are     *)
(* written in 512-byte units (U) to stay within TLC's integers.           *)
(***************************************************************************)
EXTENDS Integers

CONSTANTS
    FsFlags,       \* flags & VDF_FS_MASK: "auto", "auto_no32", "FAT12", "FAT16", "FAT32"
    BpsValues,     \* bytes per sector (VDE_AUTO_BPS gives 512)
    SpcValues,     \* ext->sectors_per_cluster when VDE_AUTO_SPC is clear
    RootCnts,      \* ext->root_dir_cnt (VDE_AUTO_ROOTENT gives 512)
    SectorCounts   \* requested sizes, in sectors

VARIABLES flag, bps, autoSpc, spcIn, rootCnt, align, sectors
vars == <<flag, bps, autoSpc, spcIn, rootCnt, align, sectors>>

U == sectors * (bps \div 512)          \* the size in 512-byte units
MiB(x) == x * 2048                     \* in 512-byte units
GiB(x) == x * 2097152

\* find_spc: the cluster size of the first range whose max_size exceeds the
\* size (the last range, max_size 0, catches the rest); ranges are
\* <<max_size in 512-byte units, cluster size in bytes>>
Fat12Ranges == << <<MiB(15), 8192>>, <<0, 4096>> >>
Fat16Ranges == << <<MiB(16), 4096>>, <<MiB(128), 2048>>, <<MiB(256), 4096>>,
                  <<MiB(512), 8192>>, <<GiB(1), 16384>>, <<GiB(2), 32768>>,
                  <<GiB(4), 65536>>, <<GiB(8), 131072>>, <<0, 262144>> >>
Fat32Ranges == << <<MiB(260), 512>>, <<GiB(8), 4096>>, <<GiB(16), 8192>>,
                  <<GiB(32), 16384>>, <<0, 32768>> >>

FindSpc(ranges) ==
    LET i == CHOOSE i \in DOMAIN ranges :
                 /\ ranges[i][1] = 0 \/ U < ranges[i][1]
                 /\ \A j \in 1..i - 1 : ~(U < ranges[j][1])
        cs == ranges[i][2]
    IN  IF cs <= bps THEN 1 ELSE cs \div bps

\* with an explicit cluster size and an automatic type: the type from the
\* provisional cluster count size / bpc
FsByClusters ==
    LET c == sectors \div spcIn
    IN  CASE c < 4085 -> "FAT12"
          [] c < 65525 \/ flag = "auto_no32" -> "FAT16"
          [] OTHER -> "FAT32"

\* the FAT type: a forced one, or with VDE_AUTO_SPC one from the size
\* (TiB(2) is past every modelled size)
FsOf ==
    CASE flag \in {"FAT12", "FAT16", "FAT32"} -> flag
      [] ~autoSpc -> FsByClusters
      [] U < MiB(16) -> "FAT12"
      [] U >= MiB(260) /\ flag # "auto_no32" -> "FAT32"
      [] U < GiB(16) -> "FAT16"
      [] OTHER -> "invalid"

Spc ==
    IF ~autoSpc THEN spcIn
    ELSE CASE FsOf = "FAT12" -> FindSpc(Fat12Ranges)
           [] FsOf = "FAT16" -> FindSpc(Fat16Ranges)
           [] OTHER          -> FindSpc(Fat32Ranges)

AlignUp(x) == IF align THEN ((x + Spc - 1) \div Spc) * Spc ELSE x

\* the FAT bytes a cluster count needs, as the code estimates them
FatBytesEst(c) == CASE FsOf = "FAT12" -> (c * 3) \div 2 + 1
                    [] FsOf = "FAT16" -> c * 2
                    [] OTHER          -> c * 4

\* fat1_start: FAT32 adds spc to 32 and masks with ~(spc - 1)
Fat1Start == CASE FsOf = "FAT32" /\ align -> ((32 + Spc) \div Spc) * Spc
               [] FsOf = "FAT32"          -> 32
               [] align                   -> Spc
               [] OTHER                   -> 1
RootSectors == IF FsOf = "FAT32" THEN 0 ELSE AlignUp((rootCnt * 32 + bps - 1) \div bps)
Start0 == Fat1Start + RootSectors
FatSectors == AlignUp((FatBytesEst((sectors - Start0) \div Spc) + bps - 1) \div bps)
DataStart == Start0 + 2 * FatSectors

\* clusters = (sectors - data_start) / spc in 32-bit unsigned arithmetic:
\* when the FATs run past the size the difference wraps to 2^32 - x.  The
\* quotient is then above every bound the code tests for spc < 16
\* (2^32 / 8 > 0xfffffef), so only its exact value for spc >= 16 is kept.
Wrapped(x) == IF Spc < 16 THEN 536870912
              ELSE 268435456 \div (Spc \div 16) - (x + Spc - 1) \div Spc

Clusters == IF sectors >= DataStart THEN (sectors - DataStart) \div Spc
            ELSE Wrapped(DataStart - sectors)

\* the checks that end in EINVAL (VDF_FAIL_WARN only refuses more)
Accepted ==
    /\ FsOf # "invalid"
    /\ FsOf = "FAT12" => Clusters <= 4084
    /\ FsOf = "FAT16" => Clusters >= 4085 /\ Clusters <= 65524
    /\ FsOf = "FAT32" => Clusters >= 65525 /\ Clusters <= 268435439 - 2   \* 0xfffffef - 2

-----------------------------------------------------------------------------
\* a request createdrive_ext can be given: a valid sector size and cluster
\* size (VDE_AUTO_SPC or one of 1..128), and at least the reserved sectors
\* and root directory of FAT12/16 (below that the first cluster estimate
\* wraps in 32 bits, which the model leaves out)
Init ==
    /\ flag \in FsFlags
    /\ bps \in BpsValues
    /\ autoSpc \in BOOLEAN
    /\ spcIn \in IF autoSpc THEN {0} ELSE SpcValues
    /\ rootCnt \in RootCnts
    /\ align \in BOOLEAN
    /\ sectors \in SectorCounts
    /\ sectors >= Start0

Next == UNCHANGED vars
Spec == Init /\ [][Next]_vars

-----------------------------------------------------------------------------
\* the bytes a FAT needs for its two reserved entries and one entry per
\* cluster
FatBytesNeeded == CASE FsOf = "FAT12" -> ((Clusters + 2) * 3 + 1) \div 2
                    [] FsOf = "FAT16" -> (Clusters + 2) * 2
                    [] OTHER          -> (Clusters + 2) * 4

(* Every drive createdrive_ext accepts is a FAT volume its own FAT can    *)
(* describe (the specification: "FAT-size/cluster-count satisfy the       *)
(* layout equation exactly (region boundaries strictly increasing, data   *)
(* region within total sectors)"): its cluster count is in the range of   *)
(* its FAT type (the checks above), each FAT is present and holds an     *)
(* entry for every cluster after the two reserved ones, and the clusters  *)
(* end inside the volume.                                                 *)
GeometrySound ==
    Accepted =>
        /\ FatSectors > 0
        /\ FatSectors * bps >= FatBytesNeeded
        /\ DataStart + Clusters * Spc <= sectors

=============================================================================
