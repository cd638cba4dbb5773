------------------------------ MODULE FatCodec ------------------------------
(***************************************************************************)
(* read_sector_fat (src/libvdf/fat.c): the bytes of a run of FAT sectors, *)
(* synthesised from the range index that vdf_drive_recalc leaves, with    *)
(* find_file_fat_entry and fat_next_file.  The model holds one drive      *)
(* layout and one read request and never changes them, so an invariant is *)
(* a statement about every layout and request of the bounded sets.        *)
(* The code's own arithmetic is kept (the FAT12 start entry, the guards   *)
(* on the last byte, the nibble masks); bytes are numbers 0..255 and a    *)
(* byte of the caller's buffer that the code reads before writing is     *)
(* Garbage.                                                                *)
(***************************************************************************)
EXTENDS Integers, Sequences, SequencesExt, Bitwise

CONSTANTS
    FsTypes,      \* FAT variants of the drives
    BpsValues,    \* bytes per sector
    Layouts,      \* cluster counts of the ranges, in cluster order
    MaxEmpty,     \* bound on the empty files (they have no range)
    MaxCnt,       \* bound on the sectors of one read
    Garbage       \* a byte whose value the code does not determine

VARIABLES fs, bps, lay, empties, sector, cnt,
          ranges, data_cluster_end   \* drv->ranges and drv->data_cluster_end, as recalc left them
vars == <<fs, bps, lay, empties, sector, cnt, ranges, data_cluster_end>>

-----------------------------------------------------------------------------
(* The range index.  file_recalc_offsize gives each directory and         *)
(* non-empty file the clusters from data_cluster_end on, starting at 2,   *)
(* and vdf_drive_recalc stores [fatstart, fatend) per range, sorted.       *)
(* file_cnt counts every file and directory of all_files, the empty       *)
(* files too.                                                              *)
RangeIdx ==
    [k \in 1..Len(lay) |->
        LET s == 2 + FoldLeft(+, 0, SubSeq(lay, 1, k - 1))
        IN  [fatstart |-> s, fatend |-> s + lay[k]]]

DataClusterEnd == 2 + FoldLeft(+, 0, lay)
FileCnt == Len(lay) + empties

NULL == -1           \* no file
PastRanges == -2     \* an index the range array does not hold

\* find_file_fat_entry: the range holding entry ent, walking the array
\* for file_cnt elements
RECURSIVE FindFrom(_, _)
FindFrom(ent, i) ==
    IF i >= FileCnt THEN NULL
    ELSE IF i >= Len(ranges) THEN PastRanges
    ELSE IF ent < ranges[i + 1].fatend THEN i
    ELSE FindFrom(ent, i + 1)

FindFileFatEntry(ent) == IF ent >= data_cluster_end THEN NULL ELSE FindFrom(ent, 0)

\* fat_next_file: the range after ri, NULL once the index reaches file_cnt
FatNextFile(ri) ==
    IF ri + 1 = FileCnt THEN NULL
    ELSE IF ri + 1 >= Len(ranges) THEN PastRanges
    ELSE ri + 1

\* file->end of the range ri
End(ri) == ranges[ri + 1].fatend

-----------------------------------------------------------------------------
(* read_sector_fat's loop state: the buffer size scnt, the byte count i, *)
(* the buffer pointer pos (both from the start of the buffer), the entry, *)
(* the value to write, the nibble phase of FAT12, the range, the buffer   *)
(* and the first undefined behaviour met.                                 *)

Bytes == cnt * bps                 \* scnt *= drv->bps, for the request of Init

Media == CASE fs = "FAT12" -> 4088 [] fs = "FAT16" -> 65528 [] OTHER -> 268435448
EOC   == CASE fs = "FAT12" -> 4095 [] fs = "FAT16" -> 65535 [] OTHER -> 268435455
Width == IF fs = "FAT16" THEN 2 ELSE 4

\* the reserved entries 0 and 1 that sector 0 starts with
Header ==
    CASE fs = "FAT12" -> <<248, 255, 255>>
      [] fs = "FAT16" -> <<248, 255, 255, 255>>
      [] OTHER        -> <<248, 255, 255, 15, 255, 255, 255, 15>>

AndB(x, m) == IF x = Garbage THEN Garbage ELSE x & m
OrB(x, m) == IF x = Garbage THEN Garbage ELSE x | m

Fail(st, what) == IF st.err = "none" THEN [st EXCEPT !.err = what] ELSE st

\* *buffer = v, at the pointer
Put(st, v) ==
    IF st.pos >= st.scnt THEN Fail(st, "buffer_overrun")
    ELSE [st EXCEPT !.buf[st.pos + 1] = v]

Cur(st) == IF st.pos >= st.scnt THEN Garbage ELSE st.buf[st.pos + 1]

\* *(uint16_t*) or *(uint32_t*)buffer = le(v), little-endian
PutLE(st, v, w) ==
    IF st.pos + w > st.scnt THEN Fail(st, "buffer_overrun")
    ELSE [st EXCEPT !.buf = [k \in DOMAIN @ |->
              IF k - 1 - st.pos \in 0..w - 1 THEN (v \div 256^(k - 1 - st.pos)) % 256
              ELSE @[k]]]

Adv(st, n) == [st EXCEPT !.pos = @ + n]
Cnt(st, n) == [st EXCEPT !.i = @ + n]

\* The start: sector 0 writes the reserved entries and begins at entry
\* 2; any other sector begins at the entry its code computes.
Start(sect, nsect) ==
    LET x == ((sect * 2) * bps) \div 3
        hdr == IF sect = 0 THEN Len(Header) ELSE 0
        ent == CASE sect = 0       -> 2
                 [] fs = "FAT12"   -> x \div 2
                 [] fs = "FAT16"   -> sect * (bps \div 2)
                 [] OTHER          -> sect * (bps \div 4)
    IN  [scnt |-> nsect * bps, i |-> hdr, pos |-> hdr, ent |-> ent, clust |-> 0,
         half |-> IF sect = 0 THEN 0 ELSE x % 2, ri |-> NULL,
         buf |-> [k \in 1..nsect * bps |-> IF k <= hdr THEN Header[k] ELSE Garbage],
         err |-> "none"]

\* mutant of NextRange: clust is not set from the new range's entry
NextRangeKeepClust(st) ==
    LET r == FatNextFile(st.ri)
    IN  IF r = PastRanges THEN Fail(st, "ranges_overrun")
        ELSE [st EXCEPT !.ri = r]

\* After the chain of range ri ends at ent: go on with the next range,
\* or leave the loop when fat_next_file gives NULL.
NextRange(st) ==
    LET r == FatNextFile(st.ri)
    IN  IF r = PastRanges THEN Fail(st, "ranges_overrun")
        ELSE [st EXCEPT !.ri = r, !.clust = st.ent + 1]

\* one iteration of the FAT12 loop; the pointer and i advance as the code
\* advances them, and the byte after the current one is written only when
\* i < scnt - 1
Step12(st) ==
    IF st.ent < End(st.ri) - 1
    THEN LET s1 == IF st.half = 1
                   THEN Cnt(Adv(Put(st, OrB(AndB(Cur(st), 240), (st.clust * 16) & 240)), 1), 1)
                   ELSE Cnt(Adv(Put(st, st.clust % 256), 1), 1)
             s2 == IF s1.i < st.scnt - 1
                   THEN IF st.half = 1
                        THEN Cnt(Adv(Put(s1, (st.clust \div 16) % 256), 1), 1)
                        ELSE Put(s1, (st.clust \div 256) % 16)
                   ELSE s1
         IN  [s2 EXCEPT !.clust = @ + 1, !.ent = @ + 1, !.half = 1 - @]
    ELSE LET s1 == IF st.half = 1
                   THEN Adv(Put(st, OrB(Cur(st), 240)), 1)
                   ELSE Adv(Put(st, 255), 1)
             s2 == IF st.i < st.scnt - 1
                   THEN IF st.half = 1 THEN Adv(Put(s1, 255), 1) ELSE Put(s1, 15)
                   ELSE s1
             s3 == [Cnt(s2, IF st.half = 1 THEN 2 ELSE 1) EXCEPT !.ent = @ + 1]
             s4 == NextRange(s3)
         IN  IF FatNextFile(st.ri) = NULL
             THEN [(IF st.half = 0 THEN Cnt(Adv(s3, 1), 1) ELSE s3) EXCEPT !.ri = NULL]
             ELSE [s4 EXCEPT !.half = 1 - @]

\* one iteration of the FAT16/FAT32 loop
Step1632(st) ==
    IF st.ent < End(st.ri) - 1
    THEN [Cnt(Adv(PutLE(st, st.clust, Width), Width), Width)
            EXCEPT !.clust = @ + 1, !.ent = @ + 1]
    ELSE LET s1 == [PutLE(st, EOC, Width) EXCEPT !.ent = @ + 1]
         IN  IF FatNextFile(st.ri) = NULL
             THEN [Cnt(Adv(s1, Width), Width) EXCEPT !.ri = NULL]
             ELSE Cnt(Adv(NextRange(s1), Width), Width)

\* the loop runs while i < scnt, until a range walk ends (ri = NULL)
RECURSIVE Loop(_)
Loop(st) ==
    IF st.err # "none" \/ st.i >= st.scnt \/ st.ri = NULL THEN st
    ELSE Loop(IF fs = "FAT12" THEN Step12(st) ELSE Step1632(st))

\* finish: memset(buffer, 0, scnt - i); a negative count is converted to
\* a huge size_t
Finish(st) ==
    LET n == st.scnt - st.i
    IN  IF st.err # "none" THEN st
        ELSE IF n < 0 THEN Fail(st, "memset_negative")
        ELSE IF st.pos + n > st.scnt THEN Fail(st, "buffer_overrun")
        ELSE [st EXCEPT !.buf = [k \in DOMAIN @ |->
                 IF k - 1 - st.pos \in 0..n - 1 THEN 0 ELSE @[k]]]

\* read_sector_fat(drv, sector, cnt, buffer)
\* the range find_file_fat_entry gives for the start entry: none skips to
\* finish, a range enters the loop at clust = ent + 1
Enter(st0, f) ==
    CASE f = PastRanges -> Fail(st0, "ranges_overrun")
      [] f = NULL       -> st0
      [] OTHER          -> Loop([st0 EXCEPT !.ri = f, !.clust = st0.ent + 1])

ReadFrom(st0) == Finish(Enter(st0, FindFileFatEntry(st0.ent)))

ReadSectorFatAt(sect, nsect) == ReadFrom(Start(sect, nsect))

ReadSectorFat == ReadSectorFatAt(sector, cnt)

-----------------------------------------------------------------------------
(* The reference: the FAT the range index describes.  Entries 0 and 1     *)
(* are reserved, each range is a chain of consecutive clusters ending in  *)
(* an end-of-chain mark, every other entry is free.  FAT12 packs entry n  *)
(* into nibbles 3n..3n+2, low nibble first; FAT16 and FAT32 store entries *)
(* little-endian.                                                          *)
FatEntry(n) ==
    CASE n = 0 -> Media
      [] n = 1 -> EOC
      [] \E k \in DOMAIN ranges : n \in ranges[k].fatstart..ranges[k].fatend - 1 ->
            IF \E k \in DOMAIN ranges : n = ranges[k].fatend - 1 THEN EOC ELSE n + 1
      [] OTHER -> 0

Nibble(p) == (FatEntry(p \div 3) \div 16^(p % 3)) % 16

FatByte(b) ==
    IF fs = "FAT12" THEN Nibble(2 * b) + 16 * Nibble(2 * b + 1)
    ELSE (FatEntry(b \div Width) \div 256^(b % Width)) % 256

RefSectors == [k \in 1..Bytes |-> FatByte(sector * bps + k - 1)]

\* the FAT sectors a drive with this layout has, and one more
EntryBytes(n) == CASE fs = "FAT12" -> (3 * n + 1) \div 2 [] OTHER -> Width * n
FatSectors == (EntryBytes(data_cluster_end) + bps - 1) \div bps + 1

-----------------------------------------------------------------------------
Init ==
    /\ fs \in FsTypes
    /\ bps \in BpsValues
    /\ lay \in Layouts
    /\ empties \in 0..MaxEmpty
    /\ ranges = RangeIdx
    /\ data_cluster_end = DataClusterEnd
    /\ sector \in 0..FatSectors - 1
    /\ cnt \in 1..MaxCnt
    /\ sector + cnt <= FatSectors

Next == UNCHANGED vars
Spec == Init /\ [][Next]_vars

-----------------------------------------------------------------------------
(* Every read of FAT sectors that vdf_read_sectors passes to             *)
(* read_sector_fat gives the bytes of the FAT the range index describes, *)
(* without reading past the range array, writing past the caller's       *)
(* buffer or leaving a byte of it unwritten: each cluster chain links its *)
(* clusters in order and ends in an end-of-chain mark.                    *)
FatSectorsMatchChains ==
    LET r == ReadSectorFat IN r.err = "none" /\ r.buf = RefSectors

=============================================================================
