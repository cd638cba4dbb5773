------------------------------ MODULE BootCodec ------------------------------
(***************************************************************************)
(* The boot codec of src/libvdf/bootblock.c: read_sector_boot (with      *)
(* read_sector_fsinfo) and read_sector_mbr, on the drives Geometry's       *)
(* createdrive_ext accepts.  A sector is modelled byte by byte: a byte is *)
(* a number, a character (a one-character string) or Garbage, what the    *)
(* caller's buffer held.  The writes are the code's, in the code's order, *)
(* so a later write overwrites an earlier one.                           *)
(*                                                                         *)
(* The tree is left empty: root_dir->start and data_cluster_end are the   *)
(* constants RootCluster and DataClusterEnd.                              *)
(***************************************************************************)
EXTENDS Geometry, ShortName

CONSTANTS
    Labels,          \* drv->label values (sequences of characters)
    NoLabel,         \* drv->label == NULL
    MbrModes,        \* "none", or VDF_MBR ("one") and VDF_MBR_PAD ("pad")
    Serial,          \* drv->serial
    RootCluster,     \* drv->root_dir->start
    DataClusterEnd,  \* drv->data_cluster_end
    Garbage          \* a byte the code did not write

\* the drive's label and MBR mode, and what read_sector_boot returns for
\* sectors 0 and 1 and read_sector_mbr for the MBR
VARIABLES label, mbrMode, sector0, sector1, mbr
bvars == <<vars, label, mbrMode, sector0, sector1, mbr>>

-----------------------------------------------------------------------------
(* Writing into a sector buffer                                            *)

Fill(n, v) == [i \in 1..n |-> v]

\* le_16 / le_32 of v: its n bytes, least significant first
LE(v, n) == [i \in 1..n |-> (v \div (2 ^ (8 * (i - 1)))) % 256]

\* memcpy(buf + off, b, Len(b))
Put(buf, off, b) ==
    [i \in DOMAIN buf |-> IF off <= i /\ i < off + Len(b) THEN b[i - off + 1] ELSE buf[i]]

RECURSIVE PutAll(_, _)
PutAll(buf, ws) == IF ws = <<>> THEN buf ELSE PutAll(Put(buf, Head(ws)[1], Head(ws)[2]), Tail(ws))

Caller == [i \in 0..bps - 1 |-> Garbage]

Chars(s) == [i \in 1..Len(s) |-> SubSeq(s, i, i)]

MbrSectors == CASE mbrMode = "one" -> 1 [] mbrMode = "pad" -> Spc [] OTHER -> 0

-----------------------------------------------------------------------------
(* read_sector_boot for sector 0 (and 6 on FAT32)                          *)

\* the label loop: stuff_dosname of each character while i <= 11 (a space
\* writes nothing but counts), then spaces while i <= 11; a missing label
\* is 11 spaces
LabelBytes ==
    IF label = NoLabel THEN Fill(11, " ")
    ELSE LET n == IF Len(label) < 12 THEN Len(label) ELSE 12
         IN  StuffDos(SubSeq(label, 1, n)) \o Fill(12 - n, " ")

\* the common part of FAT16 and FAT32 at offset base
CommonWrites(base) ==
    << <<base, <<128>>>>, <<base + 1, <<0>>>>, <<base + 2, <<41>>>>,
       <<base + 3, LE(Serial, 4)>>, <<base + 7, LabelBytes>> >>

\* sector_cnt of the 16-bit BPB, as the FAT16 branch reads it back
Sector16 == IF FsOf # "FAT32" /\ sectors < 65536 THEN sectors ELSE 0

BpbWrites ==
    << <<0, Fill(3, 0)>>, <<3, Chars("MSWIN4.1")>>, <<11, LE(bps, 2)>>, <<13, <<Spc>>>>,
       <<14, LE(Fat1Start, 2)>> >>
    \o (IF FsOf = "FAT32"
        THEN << <<17, LE(0, 2)>>, <<19, LE(0, 2)>>, <<22, LE(0, 2)>> >>
        ELSE << <<17, LE(rootCnt, 2)>>, <<19, LE(Sector16, 2)>>, <<22, LE(FatSectors, 2)>> >>)
    \o << <<24, LE(1, 2)>>, <<16, <<2>>>>, <<21, <<248>>>>, <<24, LE(1, 2)>>, <<26, LE(1, 2)>> >>

\* the switch on the FAT type, then the common part, the bootstrap memset
\* and the signature
TypeWrites ==
    CASE FsOf = "FAT12" ->
            << <<28, LE(0, 2)>>, <<30, Fill(480, 0)>> >>
      [] FsOf = "FAT16" ->
            << <<28, LE(0, 4)>> >>
            \o (IF Sector16 = 0 THEN << <<32, LE(sectors, 4)>> >> ELSE <<>>)
            \o << <<54, Chars("FAT16   ")>> >> \o CommonWrites(36) \o << <<62, Fill(448, 0)>> >>
      [] OTHER ->
            << <<28, LE(0, 4)>>, <<36, LE(FatSectors, 4)>>, <<32, LE(sectors, 4)>>,
               <<40, LE(0, 2)>>, <<42, LE(0, 2)>>, <<44, LE(RootCluster, 4)>>,
               <<48, LE(1, 2)>>, <<50, LE(6, 2)>>, <<52, Fill(12, 0)>>,
               <<82, Chars("FAT32   ")>> >>
            \o CommonWrites(64) \o << <<90, Fill(420, 0)>> >>

BootSector == PutAll(Caller, BpbWrites \o TypeWrites \o << <<510, <<170, 85>>>> >>)

\* read_sector_fsinfo; 0xaa550000 is written as its four bytes
FsinfoSector ==
    PutAll(Caller,
           << <<0, LE(1096897106, 4)>>, <<4, Fill(480, 0)>>, <<484, LE(1631679090, 4)>>,
              <<488, LE(Clusters - (DataClusterEnd - 2), 4)>>, <<492, LE(DataClusterEnd, 4)>>,
              <<496, Fill(12, 0)>>, <<508, <<0, 0, 85, 170>>>> >>)

\* the sectors before fat1_start: FSINFO at 1 and the backup boot sector
\* at 6 on FAT32, the boot sector at 0, zeros elsewhere
ReadSectorBoot(s) ==
    CASE FsOf = "FAT32" /\ s = 1              -> FsinfoSector
      [] s # 0 /\ ~(FsOf = "FAT32" /\ s = 6)  -> [i \in 0..bps - 1 |-> 0]
      [] OTHER                                -> BootSector

-----------------------------------------------------------------------------
(* read_sector_mbr                                                         *)

PartType == CASE FsOf = "FAT12" -> 1 [] FsOf = "FAT16" -> 14 [] OTHER -> 12

MbrSector ==
    PutAll(Caller,
           << <<0, Fill(440, 0)>>, <<440, LE(Serial, 4)>>, <<444, LE(0, 2)>>, <<446, <<128>>>>,
              <<450, <<PartType>>>>, <<447, Fill(3, 0)>>, <<451, Fill(3, 0)>>,
              <<454, LE(MbrSectors, 4)>>, <<458, LE(sectors, 4)>>, <<462, Fill(48, 0)>>,
              <<510, <<85, 170>>>> >>)

-----------------------------------------------------------------------------
\* a drive createdrive_ext accepted (a refused request builds no drive and
\* serves no sector), and its boot records
BootInit ==
    /\ Init /\ Accepted
    /\ label \in Labels \cup {NoLabel}
    /\ mbrMode \in MbrModes
    /\ sector0 = ReadSectorBoot(0)
    /\ sector1 = ReadSectorBoot(1)
    /\ mbr = MbrSector

BootSpec == BootInit /\ [][UNCHANGED bvars]_bvars

-----------------------------------------------------------------------------
(* A FAT driver mounting the volume reads the BPB of sector 0 back: the   *)
(* little-endian value of n bytes, the regions it derives, and its rule   *)
(* for the FAT type from the cluster count.                               *)

RECURSIVE Dec(_, _, _)
Dec(buf, off, n) == IF n = 0 THEN 0 ELSE buf[off] + 256 * Dec(buf, off + 1, n - 1)

Written(buf) == \A i \in DOMAIN buf : buf[i] # Garbage

\* the regions a driver derives from a BPB buf
Mount(buf) ==
    LET fatsz == IF Dec(buf, 22, 2) # 0 THEN Dec(buf, 22, 2) ELSE Dec(buf, 36, 4)
        tot   == IF Dec(buf, 19, 2) # 0 THEN Dec(buf, 19, 2) ELSE Dec(buf, 32, 4)
        rootS == (Dec(buf, 17, 2) * 32 + Dec(buf, 11, 2) - 1) \div Dec(buf, 11, 2)
        data  == Dec(buf, 14, 2) + buf[16] * fatsz + rootS
    IN  [bps |-> Dec(buf, 11, 2), spc |-> buf[13], fat1 |-> Dec(buf, 14, 2), fatsz |-> fatsz,
         sectors |-> tot, data |-> data, clusters |-> (tot - data) \div buf[13]]

MountType(m) == CASE m.clusters < 4085 -> "FAT12" [] m.clusters < 65525 -> "FAT16" [] OTHER -> "FAT32"

\* the FAT bytes a driver needs for the reserved entries and every cluster
MountFatBytes(m) == CASE MountType(m) = "FAT12" -> ((m.clusters + 2) * 3 + 1) \div 2
                      [] MountType(m) = "FAT16" -> (m.clusters + 2) * 2
                      [] OTHER                  -> (m.clusters + 2) * 4

\* the specification's label field: the DOS-name transform of the label,
\* padded with spaces or truncated to 11 bytes
SpecLabel ==
    IF label = NoLabel THEN Fill(11, " ")
    ELSE IF Len(StuffDos(label)) >= 11 THEN SubSeq(StuffDos(label), 1, 11)
    ELSE StuffDos(label) \o Fill(11 - Len(StuffDos(label)), " ")

\* the label and file system type fields of the extended boot record
ExtFields(buf, base, fstype) ==
    /\ [i \in 1..11 |-> buf[base + 6 + i]] = SpecLabel
    /\ [i \in 1..8 |-> buf[base + 17 + i]] = Chars(fstype)

\* the boot sector describes the drive createdrive_ext built
BootDescribesDrive(buf, m) ==
    /\ Written(buf)
    /\ m.bps = bps /\ m.spc = Spc /\ m.fat1 = Fat1Start /\ m.fatsz = FatSectors
    /\ m.sectors = sectors /\ m.data = DataStart
    /\ MountType(m) = FsOf
    /\ m.fatsz * bps >= MountFatBytes(m)
    /\ CASE FsOf = "FAT16" -> ExtFields(buf, 36, "FAT16   ")
         [] FsOf = "FAT32" -> ExtFields(buf, 64, "FAT32   ")
         [] OTHER          -> TRUE

(* Every drive createdrive_ext accepts is served boot records a FAT      *)
(* driver mounts as that drive (specification section 4.5): every byte of *)
(* the boot sector, the FSINFO sector and the MBR is written; the BPB     *)
(* read back gives the sector size, cluster size, reserved sectors, FAT   *)
(* size, sector count and the data start of the drive, the FAT type the   *)
(* driver derives from its cluster count is the drive's, and the FAT     *)
(* holds an entry for each cluster; the label is the DOS form of the      *)
(* drive's label in 11 bytes and the type string follows it intact; the   *)
(* MBR's partition starts after the MBR sectors and spans the drive.      *)
BootRecordSound ==
    /\ BootDescribesDrive(sector0, Mount(sector0))
    /\ FsOf = "FAT32" => Written(sector1)
    /\ mbrMode # "none" =>
           /\ Written(mbr)
           /\ Dec(mbr, 454, 4) = MbrSectors /\ Dec(mbr, 458, 4) = sectors

=============================================================================
