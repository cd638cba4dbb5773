------------------------------ MODULE DirCodec ------------------------------
(***************************************************************************)
(* The directory codec: the entry numbering dir_recalc and              *)
(* file_recalc_dir give a directory's children (src/libvdf/file.c), and   *)
(* the entries fill_dirent and read_sector_dir write for any run of the   *)
(* directory's sectors (src/libvdf/read_dir.c).                           *)
(*                                                                         *)
(* A directory is the sequence of its children in list order (kids) and  *)
(* whether it is the root.  An entry is abstracted to what tells entries *)
(* apart: its kind, the file it describes and, for a VFAT entry, its     *)
(* sequence number and whether it carries the 0x40 "last" tag.  The      *)
(* 13 characters of VFAT entry seq are the name's characters             *)
(* 13*(seq-1) .. 13*seq-1, the checksum is that of the file's 8.3 name,   *)
(* and the short entry's fields are the file's; all of them are          *)
(* determined by the file and seq, so they are left out.  Dps is         *)
(* dirent_per_sector (bps / 32), scaled down like the sectors of         *)
(* FatCodec.                                                              *)
(***************************************************************************)
EXTENDS Integers, Sequences, SequencesExt

CONSTANTS
    NoFile,     \* the file of an entry that describes none
    NameLen,    \* strlen(fil->name) of each file
    LongNamed,  \* the files with VFF_LONGNAME
    VFAT,       \* drv->flags & VDF_VFAT
    Label       \* drv->label != NULL

Entry(t, f, seq, last) == [t |-> t, f |-> f, seq |-> seq, last |-> last]
Lfn(f, seq, n) == Entry("lfn", f, seq, seq = n)
Short(f) == Entry("short", f, 0, FALSE)
Dot == Entry("dot", NoFile, 0, FALSE)
DotDot == Entry("dotdot", NoFile, 0, FALSE)
LabelEnt == Entry("label", NoFile, 0, FALSE)
Zero == Entry("zero", NoFile, 0, FALSE)

Zeros(n) == [i \in 1..n |-> Zero]

-----------------------------------------------------------------------------
(* dir_recalc and file_recalc_dir                                          *)

\* fents_needed: the VFAT entries of a long-named file on a VFAT drive
FentsNeeded(f) == IF VFAT /\ f \in LongNamed THEN NameLen[f] \div 13 + 1 ELSE 0

\* the first fent_cnt of a directory: the label of the root, "." and ".."
DirBase(root) == IF root THEN (IF Label THEN 1 ELSE 0) ELSE 2

\* the entries file_recalc_dir has added for the children before kids[k]
RECURSIVE SlotsBefore(_, _)
SlotsBefore(kids, k) ==
    IF k = 1 THEN 0 ELSE SlotsBefore(kids, k - 1) + FentsNeeded(kids[k - 1]) + 1

\* fil->fent_start of kids[k], and dir->dir.fent_cnt after the walk
FentStart(kids, root, k) == DirBase(root) + SlotsBefore(kids, k)
DirFentCnt(kids, root) == DirBase(root) + SlotsBefore(kids, Len(kids) + 1)

-----------------------------------------------------------------------------
(* fill_dirent(drv, buffer, fil, entnum, maxcnt, NULL)                     *)

\* the VFAT entries of a file of n from index e0 on: seq n - e0 down to 1
LfnFrom(f, n, e0) == [i \in 1..n - e0 |-> Lfn(f, n - e0 - i + 1, n)]

\* the VFAT loop skips the e < entnum - fent_start entries already in an
\* earlier sector and returns once it has written maxcnt; the short entry
\* follows the loop
FillFrom(f, maxcnt, lfns) ==
    IF Len(lfns) >= maxcnt THEN SubSeq(lfns, 1, maxcnt) ELSE Append(lfns, Short(f))

FillDirent(kids, root, k, entnum, maxcnt) ==
    FillFrom(kids[k], maxcnt,
             LfnFrom(kids[k], FentsNeeded(kids[k]),
                     IF entnum - FentStart(kids, root, k) > 0
                     THEN entnum - FentStart(kids, root, k) ELSE 0))

-----------------------------------------------------------------------------
(* read_sector_dir(drv, sector, scnt, buffer, dir)                         *)

\* i, mx and the entries written so far; stop is the break when i >= scnt
Emit(st, total, c) ==
    [i |-> st.i + Len(c), mx |-> st.mx - Len(c), out |-> st.out \o c,
     stop |-> st.i + Len(c) >= total]

\* mutant of Passed: a child whose last entry is entry ent is skipped too
PassedThrough(kids, root, k, ent) == FentStart(kids, root, k) + FentsNeeded(kids[k]) + 1 <= ent + 1

\* a child whose entries all lie before ent is skipped
Passed(kids, root, k, ent) == FentStart(kids, root, k) + FentsNeeded(kids[k]) + 1 <= ent

RECURSIVE DirLoop(_, _, _, _, _, _)
DirLoop(kids, root, ent, total, k, st) ==
    IF st.stop \/ k > Len(kids) THEN st
    ELSE IF Passed(kids, root, k, ent) THEN DirLoop(kids, root, ent, total, k + 1, st)
    ELSE DirLoop(kids, root, ent, total, k + 1,
                 Emit(st, total, FillDirent(kids, root, k, ent, st.mx)))

\* the loop runs only when ent < fent_cnt; the rest is zero-filled
Padded(st) == st.out \o Zeros(st.mx)

DirFill(kids, root, ent, total, st) ==
    Padded(IF ent < DirFentCnt(kids, root) THEN DirLoop(kids, root, ent, total, 1, st) ELSE st)

\* sector 0 of a subdirectory starts with "." and "..", and its children
\* with entry 2; sector 0 of the root with entry 0 (the label entry is
\* compiled out); any other sector with entry sector * dirent_per_sector
DirStart(root, sector, total) ==
    IF sector = 0 /\ ~root
    THEN [i |-> 2, mx |-> total - 2, out |-> <<Dot, DotDot>>, stop |-> FALSE]
    ELSE [i |-> 0, mx |-> total, out |-> <<>>, stop |-> FALSE]

DirEnt(root, sector, dps) ==
    IF sector # 0 THEN sector * dps ELSE IF root THEN 0 ELSE 2

ReadSectorDir(kids, root, sector, scnt, dps) ==
    DirFill(kids, root, DirEnt(root, sector, dps), scnt * dps,
            DirStart(root, sector, scnt * dps))

-----------------------------------------------------------------------------
(* The references: a directory's table of entries, and a run of its      *)
(* sectors cut out of it.                                                 *)

\* the code's numbering: the base entries, then each child's VFAT entries
\* from the highest sequence number down and its short entry
ChildSlots(f, n) == LfnFrom(f, n, 0) \o <<Short(f)>>

\* the specification (section 4.6 and Recalc) gives a long-named child on
\* a VFAT volume ceil(len/13) VFAT entries
SpecFents(f) == IF VFAT /\ f \in LongNamed THEN (NameLen[f] + 12) \div 13 ELSE 0

\* the VFAT entries a child gets: fents_needed, or the specification's count
Need(f, spec) == IF spec THEN SpecFents(f) ELSE FentsNeeded(f)

RECURSIVE ChildrenSlots(_, _)
ChildrenSlots(kids, spec) ==
    IF kids = <<>> THEN <<>>
    ELSE ChildSlots(Head(kids), Need(Head(kids), spec)) \o ChildrenSlots(Tail(kids), spec)

BaseSlots(root) == IF root THEN (IF Label THEN <<LabelEnt>> ELSE <<>>) ELSE <<Dot, DotDot>>

\* entry p of the table is slot p + 1 of the sequence, zero past its end
SectorsOf(slots, sector, scnt, dps) ==
    [p \in 1..scnt * dps |->
        IF sector * dps + p <= Len(slots) THEN slots[sector * dps + p] ELSE Zero]

LayoutSectors(kids, root, sector, scnt, dps) ==
    SectorsOf(BaseSlots(root) \o ChildrenSlots(kids, FALSE), sector, scnt, dps)

\* the specification: "." and ".." in a subdirectory, then each child's
\* VFAT and 8.3 entries in child list order
SpecSectors(kids, root, sector, scnt, dps) ==
    SectorsOf((IF root THEN <<>> ELSE <<Dot, DotDot>>) \o ChildrenSlots(kids, TRUE),
              sector, scnt, dps)

=============================================================================
