------------------------------ MODULE ReadPath ------------------------------
(***************************************************************************)
(* The read path of a locked drive: vdf_read_sectors (src/libvdf/read.c)  *)
(* splits a request over the zones of the image and hands each piece to  *)
(* its codec, read_sector_data (src/libvdf/read_data.c) walks the range  *)
(* index over the data region, and vdf_read_bytes serves byte ranges     *)
(* through one scratch sector.  The FAT zones are read by read_sector_fat *)
(* as FatCodec models it, so the two copies of the FAT come from the      *)
(* same code as a direct FAT read.                                        *)
(*                                                                         *)
(* Like FatCodec, the model holds one drive and one request, fixed by     *)
(* Init.  A byte the boot, MBR or directory codec produces is a label     *)
(* naming the byte (Lbl); file data is a label naming the file and the    *)
(* offset; FAT bytes are numbers 0..255.                                  *)
(***************************************************************************)
EXTENDS Integers, Sequences, SequencesExt

CONSTANTS
    FsTypes, BpsValues, Layouts, MaxEmpty, MaxCnt, Garbage,   \* as FatCodec
    MbrValues,    \* mbr_sectors: 0 without VDF_MBR, else 1 or spc (VDF_MBR_PAD)
    SpcValues,    \* sectors per cluster
    Reserved,     \* fat1_start: the boot sectors before the first FAT
    RootSecs,     \* root_sectors of FAT12/16
    MaxSecs,      \* bound on the sectors of a vdf_read_sectors request
    ByteCounts    \* byte counts of vdf_read_bytes requests

VARIABLES fs, bps, lay, empties, mbr, spc, dirs, call, at, len,
          ranges, data_cluster_end   \* as FatCodec
vars == <<fs, bps, lay, empties, mbr, spc, dirs, call, at, len, ranges, data_cluster_end>>

\* FatCodec on this drive; its request variables are not used here, each
\* FAT piece is read with ReadSectorFatAt
Fat == INSTANCE FatCodec WITH sector <- 0, cnt <- 1
FatSecs == Fat!FatSectors
NULL == Fat!NULL
PastRanges == Fat!PastRanges
FileCnt == Fat!FileCnt

-----------------------------------------------------------------------------
(* The zones createdrive_ext lays out, in partition sectors              *)
Fat1Start == Reserved
Fat2Start == Fat1Start + FatSecs
RootStart == Fat2Start + FatSecs
DataStart == RootStart + (IF fs = "FAT32" THEN 0 ELSE RootSecs)
\* file_recalc_offsize: the ranges' sectors follow their clusters
SectStart(k) == DataStart + (ranges[k].fatstart - 2) * spc
SectEnd(k) == SectStart(k) + lay[k] * spc
DataEnd == DataStart + (data_cluster_end - 2) * spc
Sectors == DataEnd + 1                 \* drv->sectors, one sector free
Total == mbr + Sectors                 \* vdf_drive_sectors

\* a non-directory range holds a file of this size: the odd ones end half
\* way into their last sector, the even ones one byte into their last
\* cluster, so that a sector past the size exists when spc > 1
Size(k) == IF k % 2 = 1 THEN lay[k] * spc * bps - bps \div 2
           ELSE (lay[k] - 1) * spc * bps + 1

\* labels of the bytes the boot, MBR, directory codecs and the files give
Lbl(t, x) == 1000 * t + x
MbrTag == 1
BootTag == 2
RootTag == 3
DirTag(k) == 10 + k
FileTag(k) == 30 + k

Labels(t, x0, n) == [i \in 1..n |-> Lbl(t, x0 + i - 1)]
Zeros(n) == [i \in 1..n |-> 0]

-----------------------------------------------------------------------------
(* read_sector_data(drv, sector, scnt, buffer)                            *)

\* find_file_sector: the range holding sector, walked for file_cnt elements
RECURSIVE FindSectFrom(_, _)
FindSectFrom(s, i) ==
    IF i >= FileCnt THEN NULL
    ELSE IF i >= Len(lay) THEN PastRanges
    ELSE IF s < SectEnd(i + 1) THEN i + 1
    ELSE FindSectFrom(s, i + 1)

FindFileSector(s) == IF s >= DataEnd THEN NULL ELSE FindSectFrom(s, 0)

\* the bytes one range gives for swant sectors from sector s: a directory
\* through read_sector_dir, a file from its data source up to its size and
\* zeros after it
RangeBytes(k, s, swant) ==
    LET off == s - SectStart(k)
        o == off * bps
        want == IF Size(k) - o > swant * bps THEN swant * bps ELSE Size(k) - o
    IN  CASE k \in dirs     -> Labels(DirTag(k), o, swant * bps)
          [] o >= Size(k)   -> Zeros(swant * bps)
          [] OTHER          -> Labels(FileTag(k), o, want)
                                   \o Zeros(swant * bps - want)

RECURSIVE DataLoop(_, _, _)
DataLoop(s, n, out) ==
    IF n = 0 THEN [err |-> "none", buf |-> out]
    ELSE LET k == FindFileSector(s)
             swant == IF SectEnd(k) - s > n THEN n ELSE SectEnd(k) - s
         IN  CASE k = NULL       -> [err |-> "none", buf |-> out \o Zeros(n * bps)]
               [] k = PastRanges -> [err |-> "ranges_overrun", buf |-> out]
               [] OTHER          -> DataLoop(s + swant, n - swant, out \o RangeBytes(k, s, swant))

ReadSectorData(s, n) == DataLoop(s, n, <<>>)

-----------------------------------------------------------------------------
(* vdf_read_sectors(drv, sector, cnt, buffer)                             *)

\* the bytes the codec of a zone gives for want sectors from rel; the
\* codecs other than read_sector_fat and read_sector_data are taken to give
\* the bytes of their sectors
Codec(z, rel, want) ==
    CASE z = "mbr"  -> [err |-> "none", buf |-> Labels(MbrTag, 0, bps)]
      [] z = "pad"  -> [err |-> "none", buf |-> Zeros(want * bps)]
      [] z = "boot" -> [err |-> "none", buf |-> Labels(BootTag, rel * bps, want * bps)]
      [] z = "fat"  -> Fat!ReadSectorFatAt(rel, want)
      [] z = "root" -> [err |-> "none", buf |-> Labels(RootTag, rel * bps, want * bps)]
      [] OTHER      -> ReadSectorData(rel, want)

\* the state of the call: sector, rem and cnt as the code names them, the
\* bytes written so far, whether it has returned, and undefined behaviour
Call0(s, n) == [sector |-> s, rem |-> n, cnt |-> 0, out |-> <<>>, done |-> FALSE,
                err |-> "none"]

\* a piece of want sectors read by codec z at rel; the call returns once
\* rem reaches 0
Advance(st, want, r) ==
    IF r.err # "none" THEN [st EXCEPT !.err = r.err, !.done = TRUE]
    ELSE [st EXCEPT !.rem = @ - want, !.cnt = @ + want, !.sector = @ + want,
                    !.out = @ \o r.buf, !.done = (st.rem = want)]

Piece(st, z, rel, want) == Advance(st, want, Codec(z, rel, want))

\* the sectors of a zone a request reaches: up to the zone's end, or rem
Want(st, g) == IF st.sector + st.rem >= g.bound THEN g.bound - st.sector ELSE st.rem

\* one step of the call: a zone [.., bound), entered when sector < bound,
\* read by its codec relative to base; the rebase of the sector after the
\* MBR; or the data region, read up to drv->sectors whatever the sector,
\* after which the call returns.  sectors - sector is computed in 32-bit
\* unsigned arithmetic, so past the end it wraps to a count near 2^32 and
\* read_sector_data zero-fills that many sectors of the buffer.
Stage(st, g) ==
    CASE g.z = "rebase"                     -> [st EXCEPT !.sector = @ - g.base]
      [] g.z = "data" /\ Want(st, g) < 0    -> [st EXCEPT !.err = "huge_memset", !.done = TRUE]
      [] g.z # "data" /\ st.sector >= g.bound -> st
      [] OTHER -> [Piece(st, g.z, st.sector - g.base, Want(st, g))
                      EXCEPT !.done = @ \/ g.z = "data"]

\* mutant of MbrStages: the sector is not made relative to the partition
MbrStagesNoRebase ==
    IF mbr = 0 THEN <<>>
    ELSE << [z |-> "mbr", bound |-> 1, base |-> 0], [z |-> "pad", bound |-> mbr, base |-> 0] >>

\* with VDF_MBR: the MBR at sector 0 (a one-sector zone), zeros up to the
\* partition, and the sector made relative to the partition
MbrStages ==
    IF mbr = 0 THEN <<>>
    ELSE << [z |-> "mbr", bound |-> 1, base |-> 0], [z |-> "pad", bound |-> mbr, base |-> 0],
            [z |-> "rebase", bound |-> 0, base |-> mbr] >>

\* the zones of the partition in the order the code tries them; the second
\* FAT ends at data_start on FAT32, where there is no root zone
Stages ==
    MbrStages
    \o << [z |-> "boot", bound |-> Fat1Start, base |-> 0],
          [z |-> "fat", bound |-> Fat2Start, base |-> Fat1Start],
          [z |-> "fat", bound |-> IF fs = "FAT32" THEN DataStart ELSE RootStart, base |-> Fat2Start] >>
    \o (IF fs = "FAT32" THEN <<>> ELSE << [z |-> "root", bound |-> DataStart, base |-> RootStart] >>)
    \o << [z |-> "data", bound |-> Sectors, base |-> 0] >>

RECURSIVE RunStages(_, _)
RunStages(st, k) ==
    IF st.done \/ k > Len(Stages) THEN st ELSE RunStages(Stage(st, Stages[k]), k + 1)

ReadSectors(s, n) ==
    IF n = 0 THEN [Call0(s, n) EXCEPT !.done = TRUE]
    ELSE RunStages(Call0(s, n), 1)

-----------------------------------------------------------------------------
(* vdf_read_bytes(drv, off, cnt, buffer): a partial first sector through *)
(* the scratch sector, the whole sectors straight into the buffer, and a *)
(* partial last sector through the scratch sector.  r is a size_t there, *)
(* so a count below want is compared unsigned.                            *)

Bytes0(off, n) == [soff |-> off \div bps, doff |-> off % bps, cnt |-> n, ret |-> 0,
                   out |-> <<>>, done |-> FALSE, err |-> "none"]

\* the call returns what a vdf_read_sectors call r gave it when r is -1
Failed(st, r) ==
    IF r.err # "none" THEN [st EXCEPT !.err = r.err, !.done = TRUE]
    ELSE [st EXCEPT !.ret = -1, !.done = TRUE]

\* the head: the bytes of the first sector from doff on, at most cnt
HeadWant(st) == IF bps - st.doff > st.cnt THEN st.cnt ELSE bps - st.doff

\* mutant of HeadCopy: soff is not advanced past the partial sector
HeadCopyNoAdvance(st, r) ==
    CASE r.err # "none" -> Failed(st, r)
      [] r.cnt # 1      -> [st EXCEPT !.ret = r.cnt, !.done = TRUE]
      [] OTHER          -> [st EXCEPT !.out = SubSeq(r.out, st.doff + 1, st.doff + HeadWant(st)),
                               !.ret = @ + HeadWant(st), !.cnt = @ - HeadWant(st)]

HeadCopy(st, r) ==
    CASE r.err # "none" -> Failed(st, r)
      [] r.cnt # 1      -> [st EXCEPT !.ret = r.cnt, !.done = TRUE]
      [] OTHER          -> [st EXCEPT !.out = SubSeq(r.out, st.doff + 1, st.doff + HeadWant(st)),
                               !.soff = @ + 1, !.ret = @ + HeadWant(st), !.cnt = @ - HeadWant(st)]

HeadPart(st) ==
    IF st.done \/ st.doff = 0 THEN st ELSE HeadCopy(st, ReadSectors(st.soff, 1))

\* the whole sectors, read straight into the buffer; a short count returns
MiddleCopy(st, want, r) ==
    CASE r.err # "none" -> Failed(st, r)
      [] r.cnt < want   -> [st EXCEPT !.out = @ \o r.out, !.ret = @ + r.cnt * bps, !.done = TRUE]
      [] OTHER          -> [st EXCEPT !.out = @ \o r.out, !.soff = @ + want,
                               !.ret = @ + want * bps, !.cnt = @ - want * bps]

MiddlePart(st) ==
    IF st.done \/ st.cnt \div bps = 0 THEN st
    ELSE MiddleCopy(st, st.cnt \div bps, ReadSectors(st.soff, st.cnt \div bps))

\* the tail: the first cnt bytes of one more sector
TailCopy(st, r) ==
    CASE r.err # "none" -> Failed(st, r)
      [] r.cnt = 0      -> [st EXCEPT !.done = TRUE]
      [] OTHER          -> [st EXCEPT !.out = @ \o SubSeq(r.out, 1, st.cnt),
                               !.ret = @ + st.cnt, !.cnt = 0]

TailPart(st) == IF st.done \/ st.cnt = 0 THEN st ELSE TailCopy(st, ReadSectors(st.soff, 1))

\* the parts in the code's order
Part(st, k) == CASE k = 1 -> HeadPart(st) [] k = 2 -> MiddlePart(st) [] OTHER -> TailPart(st)

RECURSIVE RunParts(_, _)
RunParts(st, k) == IF k > 3 THEN st ELSE RunParts(Part(st, k), k + 1)

ReadBytes(off, n) ==
    IF n = 0 THEN [Bytes0(off, n) EXCEPT !.done = TRUE]
    ELSE RunParts(Bytes0(off, n), 1)

-----------------------------------------------------------------------------
(* The image the drive describes, byte by byte from the start of the     *)
(* device: the MBR and its padding, the boot sectors, two copies of the  *)
(* FAT of FatCodec's reference, the root directory, the ranges of the    *)
(* data region, and zeros after the last range and past the end.          *)
ImageByte(b) ==
    LET i == b \div bps
        j == b % bps
        p == i - mbr
        d == {k \in DOMAIN lay : SectStart(k) <= p /\ p < SectEnd(k)}
        k == CHOOSE k \in d : TRUE
        o == (p - SectStart(k)) * bps + j
    IN  CASE i < mbr         -> IF i = 0 THEN Lbl(MbrTag, j) ELSE 0
          [] p < Fat1Start   -> Lbl(BootTag, p * bps + j)
          [] p < Fat2Start   -> Fat!FatByte((p - Fat1Start) * bps + j)
          [] p < RootStart   -> Fat!FatByte((p - Fat2Start) * bps + j)
          [] p < DataStart   -> Lbl(RootTag, (p - RootStart) * bps + j)
          [] d = {}          -> 0
          [] k \in dirs      -> Lbl(DirTag(k), o)
          [] o < Size(k)     -> Lbl(FileTag(k), o)
          [] OTHER           -> 0

Image(b0, n) == [i \in 1..n |-> ImageByte(b0 + i - 1)]

-----------------------------------------------------------------------------
\* a drive (its FAT type, sector size, layout, empty files, MBR, cluster
\* size and whether the first range is a directory) and one request
Init ==
    /\ fs \in FsTypes
    /\ bps \in BpsValues
    /\ lay \in Layouts
    /\ empties \in 0..MaxEmpty
    /\ ranges = Fat!RangeIdx
    /\ data_cluster_end = Fat!DataClusterEnd
    /\ spc \in SpcValues
    /\ mbr \in MbrValues \cap {0, 1, spc}
    /\ dirs \in SUBSET {1}
    /\ \/ /\ call = "sectors"
          /\ at \in 0..Total + 1
          /\ len \in 1..MaxSecs
       \/ /\ call = "bytes"
          /\ at \in 0..Total * bps
          /\ len \in ByteCounts

Next == UNCHANGED vars
Spec == Init /\ [][Next]_vars

-----------------------------------------------------------------------------
\* a vdf_read_sectors result of m sectors from at, and a vdf_read_bytes
\* result of len bytes from at, as the image has them
SectorsAre(r, m) == r.err = "none" /\ r.cnt = m /\ r.out = Image(at * bps, m * bps)
BytesAre(r) == r.err = "none" /\ r.ret = len /\ r.out = Image(at, len)

(* vdf_read_sectors gives the sectors of the image: a request that       *)
(* starts inside the device returns the count of its sectors inside the  *)
(* device, and their bytes, each zone from its codec at the right        *)
(* relative sector, across every zone boundary (MBR, padding, boot, both *)
(* FATs, root, data, the free tail).                                      *)
ReadSectorsMatchImage ==
    call = "sectors" /\ at <= Total =>
        SectorsAre(ReadSectors(at, len), IF Total - at < len THEN Total - at ELSE len)

(* vdf_read_bytes gives exactly the bytes asked for of a byte range      *)
(* inside the device, trimmed from the sectors vdf_read_sectors returns. *)
ReadBytesMatchImage ==
    call = "bytes" /\ at + len <= Total * bps =>
        BytesAre(ReadBytes(at, len))

(* The specification's read contract: read_bytes "must return exactly    *)
(* length bytes, zero-padding beyond the volume's declared byte size", on *)
(* every drive, FAT12 and drives with empty files included.               *)
ReadBytesMatchSpec ==
    call = "bytes" =>
        BytesAre(ReadBytes(at, len))

=============================================================================
