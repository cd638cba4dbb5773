------------------------------ MODULE VdfTree ------------------------------
(***************************************************************************)
(* The file tree, the drive lock and the range index of libvdf: the        *)
(* mutators of src/libvdf/file.c, vdf_set_drive_label, vdf_drive_lock,     *)
(* vdf_drive_unlock and vdf_drive_recalc of src/libvdf/drive.c, with the   *)
(* recalculation helpers dir_recalc, file_recalc_dir and                   *)
(* file_recalc_offsize.                                                    *)
(*                                                                         *)
(* A vdf_file is a member of Nodes.  Its dir.entries list and the drive's  *)
(* all_files list are sequences; a node taken off a list by list_del and   *)
(* freed leaves Alloc.  Operations on a live node whose parent has been    *)
(* freed, and walks of a list that is not one, are undefined behaviour:    *)
(* the variable ub records which one happened and the model stops there.   *)
(***************************************************************************)
EXTENDS Integers, Sequences, SequencesExt, FiniteSets, ShortName

CONSTANTS
    Nodes,        \* the vdf_file structures the model may allocate
    Root,         \* drv->root_dir
    NoNode,       \* NULL parent of the root
    NoRanges,     \* drv->ranges == NULL
    Names,        \* long names given to create, rename
    ShortNames,   \* names given to vdf_set_file_shortname
    VirtSizes,    \* len arguments of vdf_add_file_virt, vdf_set_file_size
    RealSizes,    \* st_size of files given to vdf_add_file_real
    AttrInputs,   \* attr and mask arguments of vdf_set_file_attr
    FsType,       \* drv->filesys that vdf_drive_create_ext gave the drive
    RootDirCnt,   \* drv->root_dir_cnt (FAT12/16)
    VFAT,         \* drv->flags & VDF_VFAT
    BPC, SPC,     \* bytes and sectors per cluster
    DataStart,    \* drv->data_start
    Sectors,      \* drv->sectors
    SizeWrap,     \* 2^32, the modulus of filesz_t, scaled down to TLC's integers
    MaxLock,      \* bound on the nesting of vdf_drive_lock
    Ops,          \* the operations a run lets the caller use
    Recreates     \* geometries createdrive_ext gives vdf_drive_recreate_ext

ASSUME /\ Root \in Nodes /\ NoNode \notin Nodes
       /\ FsType \in {"FAT12", "FAT16", "FAT32"}
       /\ BPC > 0 /\ SPC > 0 /\ DataStart < Sectors /\ BPC < SizeWrap

VARIABLES
    lockcnt, dirty, label,          \* drv->lockcnt, VDF_DIRTY, drv->label != NULL
    alloc, used,                    \* live nodes; nodes ever allocated
    kind, attr,                     \* dir/virt/real union tag; VFA_DIR, VFA_VOLLABEL, VFA_READONLY
    parent, entries, cnt,           \* fil->parent, dir.entries, dir.cnt
    alllist, fileCnt,               \* drv->all_files, drv->file_cnt
    name, short, longname,          \* fil->name, fil->shortname, VFF_LONGNAME
    size, clus,                     \* fil->size, fil->clusters
    rng,                            \* drv->ranges: a set of range records, or NoRanges
    dce, dataEnd, nonempty,         \* data_cluster_end, data_end, nonempty_file_cnt
    rootEnts,                       \* root_dir->dir.fent_cnt
    lastRecalc,                     \* outcome of the last vdf_drive_recalc that ran
    geo,                            \* filesys, root_dir_cnt, bpc, spc, data_start, sectors
    ub                              \* "none" or the undefined behaviour reached

treeVars == <<label, alloc, kind, attr, parent, entries, cnt, alllist, fileCnt,
              name, short, longname, size, clus>>
calcVars == <<rng, dce, dataEnd, nonempty, rootEnts, lastRecalc, geo>>
vars == <<lockcnt, dirty, used, ub, treeVars, calcVars>>

CeilDiv(a, b) == (a + b - 1) \div b

\* vdf_file_is_dir on a live node: the attribute bit, not the union tag
IsDir(n) == "dir" \in attr[n]

Kids(d) == ToSet(entries[d])

\* find_file_skip: some child other than skip matches nm case-insensitively,
\* on the long name unless mode is "shortonly", on the short name unless
\* mode is "longonly".
Collides(d, nm, mode, skip) ==
    \E c \in Kids(d) \ {skip} :
        \/ mode # "shortonly" /\ CaseEq(nm, name[c])
        \/ mode # "longonly" /\ CaseEq(nm, short[c])

\* Tail numbers beyond the number of siblings are never tried.
TailBound == Cardinality(Nodes) + 1

\* calc_shortname for long name nm among siblings whose short names are S:
\* the 8.3 name and whether VFF_LONGNAME is set.
ShortOf(nm, S) ==
    IF IsVerbatim(nm) THEN [s |-> nm, long |-> FALSE]
    ELSE IF ~NeedsTail(nm) THEN [s |-> Candidate(nm), long |-> TRUE]
    ELSE LET free == {i \in 1..TailBound : \A o \in S : ~CaseEq(TailedName(nm, i), o)}
         IN  [s |-> TailedName(nm, Min(free)), long |-> TRUE]

SiblingShorts(d, skip) == {short[c] : c \in Kids(d) \ {skip}}

\* set_drive_dirty: the first call frees the range array.
SetDirty == /\ dirty' = TRUE
            /\ rng' = IF dirty THEN rng ELSE NoRanges

Undefined(what) == /\ ub' = what
                   /\ UNCHANGED <<lockcnt, dirty, used, treeVars, calcVars>>

NewNode == CHOOSE n \in Nodes \ used : TRUE

-----------------------------------------------------------------------------
Init ==
    /\ lockcnt = 0 /\ dirty = TRUE /\ label = FALSE
    /\ alloc = {Root} /\ used = {Root}
    /\ kind = [n \in Nodes |-> "dir"]
    /\ attr = [n \in Nodes |-> IF n = Root THEN {"dir"} ELSE {}]
    /\ parent = [n \in Nodes |-> NoNode]
    /\ entries = [n \in Nodes |-> <<>>]
    /\ cnt = [n \in Nodes |-> 0]
    /\ alllist = IF FsType = "FAT32" THEN <<Root>> ELSE <<>>
    /\ fileCnt = IF FsType = "FAT32" THEN 1 ELSE 0
    /\ name = [n \in Nodes |-> IF n = Root THEN <<"R", "O", "O", "T">> ELSE <<>>]
    /\ short = [n \in Nodes |-> <<>>]
    /\ longname = [n \in Nodes |-> FALSE]
    /\ size = [n \in Nodes |-> 0]
    /\ clus = [n \in Nodes |-> 0]
    /\ rng = NoRanges /\ dce = 0 /\ dataEnd = DataStart /\ nonempty = 0
    /\ rootEnts = 0 /\ lastRecalc = "none" /\ ub = "none"
    /\ geo = [fs |-> FsType, rootDirCnt |-> RootDirCnt, bpc |-> BPC, spc |-> SPC,
              dataStart |-> DataStart, sectors |-> Sectors]

-----------------------------------------------------------------------------
\* the checks create_file makes before it allocates: a live directory of an
\* unlocked drive, room in a FAT12/16 root, and a valid name
CreateAllowed(p, nm) ==
    /\ p \in alloc
    /\ lockcnt = 0
    /\ IsDir(p)
    /\ ~(geo.fs # "FAT32" /\ p = Root /\ cnt[p] = geo.rootDirCnt)
    /\ FilenameValid(nm)

(* create_file, then create_dir, vdf_add_file_virt or vdf_add_file_real:  *)
(* new node of kind k under p with size sz and clusters cl.               *)
CreateFile(p, nm, k, sz, cl) ==
    LET n  == NewNode
        sn == ShortOf(nm, SiblingShorts(p, NoNode))
    IN
    /\ used # Nodes
    /\ CreateAllowed(p, nm)
    /\ IF kind[p] # "dir" THEN Undefined("type_confusion")
       ELSE
       /\ ~Collides(p, nm, "both", NoNode)
       /\ alloc' = alloc \cup {n}
       /\ used' = used \cup {n}
       /\ kind' = [kind EXCEPT ![n] = k]
       /\ attr' = [attr EXCEPT ![n] = IF k = "dir" THEN {"dir"} ELSE {}]
       /\ parent' = [parent EXCEPT ![n] = p]
       /\ entries' = [entries EXCEPT ![p] = Append(@, n)]
       /\ cnt' = [cnt EXCEPT ![p] = @ + 1]
       /\ alllist' = Append(alllist, n)
       /\ fileCnt' = fileCnt + 1
       /\ name' = [name EXCEPT ![n] = nm]
       /\ short' = [short EXCEPT ![n] = sn.s]
       /\ longname' = [longname EXCEPT ![n] = sn.long]
       /\ size' = [size EXCEPT ![n] = sz]
       /\ clus' = [clus EXCEPT ![n] = cl]
       /\ SetDirty
       /\ UNCHANGED <<lockcnt, label, ub, dce, dataEnd, nonempty, rootEnts, lastRecalc, geo>>

(* create_file when strdup(name) fails: exit_err takes the node off both  *)
(* lists and frees it, but dir.cnt++ and file_cnt++ stay, and the drive   *)
(* has been marked dirty; the vdf_add_* caller returns NULL.              *)
CreateFileNoMem(p, nm) ==
    /\ used # Nodes
    /\ CreateAllowed(p, nm)
    /\ kind[p] = "dir"
    /\ ~Collides(p, nm, "both", NoNode)
    /\ cnt' = [cnt EXCEPT ![p] = @ + 1]
    /\ fileCnt' = fileCnt + 1
    /\ SetDirty
    /\ UNCHANGED <<lockcnt, used, ub, label, alloc, kind, attr, parent, entries, alllist,
                   name, short, longname, size, clus, dce, dataEnd, nonempty, rootEnts,
                   lastRecalc, geo>>

\* vdf_add_dir
AddDir(p, nm) == CreateFile(p, nm, "dir", 0, 0)

\* vdf_add_file_virt: vdf_set_file_size takes a 32-bit size and rounds it up
\* to clusters in 32-bit arithmetic.
VirtClusters(sz) == (((sz % SizeWrap) + geo.bpc - 1) % SizeWrap) \div geo.bpc
AddFileVirt(p, nm, len) == CreateFile(p, nm, "virt", len % SizeWrap, VirtClusters(len))

\* vdf_add_file_real: size_t arithmetic on st_size, the size field keeps 32 bits
AddFileReal(p, nm, st) == CreateFile(p, nm, "real", st % SizeWrap, CeilDiv(st, geo.bpc))

-----------------------------------------------------------------------------
\* A plausible slip: vdf_delete_file without set_drive_dirty.
DeleteNoDirty(f) ==
    /\ f \in alloc /\ f # Root /\ lockcnt = 0 /\ parent[f] \in alloc
    /\ entries' = [entries EXCEPT ![parent[f]] = Remove(@, f)]
    /\ alloc' = alloc \ {f}
    /\ fileCnt' = fileCnt - 1
    /\ alllist' = Remove(alllist, f)
    /\ UNCHANGED <<lockcnt, dirty, used, ub, label, kind, attr, parent, cnt, name, short,
                   longname, size, clus, calcVars>>

(* vdf_delete_file: unlink from the parent, then delete_file.  delete_file *)
(* sets VFF_DELETED before it asks vdf_file_is_dir, which then answers    *)
(* no, so a directory is freed alone and its children stay behind.  A     *)
(* node whose parent was freed reaches freed memory through list_del when *)
(* it is the first or last entry of that parent's list.                  *)
Delete(f) ==
    LET p == parent[f] IN
    /\ f \in alloc /\ f # Root
    /\ lockcnt = 0
    /\ IF p \notin alloc /\ (f = Head(entries[p]) \/ f = Last(entries[p]))
       THEN Undefined("use_after_free")
       ELSE /\ entries' = [entries EXCEPT ![p] = Remove(@, f)]
            /\ alloc' = alloc \ {f}
            /\ fileCnt' = fileCnt - 1
            /\ alllist' = Remove(alllist, f)
            /\ SetDirty
            /\ UNCHANGED <<lockcnt, used, ub, label, kind, attr, parent, cnt, name,
                           short, longname, size, clus, dce, dataEnd, nonempty,
                           rootEnts, lastRecalc, geo>>

(* vdf_move_file: the file goes to the head of the new parent's list and  *)
(* gets a new short name there.                                          *)
MoveFile(f, np) ==
    LET p  == parent[f]
        sn == ShortOf(name[f], SiblingShorts(np, f))
    IN
    /\ f \in alloc /\ f # Root /\ np \in alloc
    /\ IsDir(np)
    /\ lockcnt = 0
    /\ p # np
    /\ IF kind[np] # "dir" THEN Undefined("type_confusion")
       ELSE
       /\ ~Collides(np, name[f], "longonly", NoNode)
       /\ IF p \notin alloc THEN Undefined("use_after_free")
          ELSE /\ entries' = [entries EXCEPT ![p] = Remove(@, f), ![np] = <<f>> \o @]
               /\ cnt' = [cnt EXCEPT ![p] = @ - 1, ![np] = @ + 1]
               /\ parent' = [parent EXCEPT ![f] = np]
               /\ short' = [short EXCEPT ![f] = sn.s]
               /\ longname' = [longname EXCEPT ![f] = sn.long]
               /\ SetDirty
               /\ UNCHANGED <<lockcnt, used, ub, label, alloc, kind, attr, alllist,
                              fileCnt, name, size, clus, dce, dataEnd, nonempty,
                              rootEnts, lastRecalc, geo>>

\* vdf_set_file_name: only long names are compared, then calc_shortname.
SetFileName(f, nm) ==
    LET sn == ShortOf(nm, SiblingShorts(parent[f], f)) IN
    /\ f \in alloc /\ f # Root
    /\ lockcnt = 0
    /\ FilenameValid(nm)
    /\ IF parent[f] \notin alloc THEN Undefined("use_after_free")
       ELSE /\ ~Collides(parent[f], nm, "longonly", f)
            /\ name' = [name EXCEPT ![f] = nm]
            /\ short' = [short EXCEPT ![f] = sn.s]
            /\ longname' = [longname EXCEPT ![f] = sn.long]
            /\ SetDirty
            /\ UNCHANGED <<lockcnt, used, ub, label, alloc, kind, attr, parent, entries,
                           cnt, alllist, fileCnt, size, clus, dce, dataEnd, nonempty,
                           rootEnts, lastRecalc, geo>>

\* vdf_set_file_shortname: VFF_LONGNAME is cleared when the long name
\* matches case-insensitively, and never set.
SetFileShortname(f, s) ==
    /\ f \in alloc /\ f # Root
    /\ lockcnt = 0
    /\ ShortNameValid(s)
    /\ IF parent[f] \notin alloc THEN Undefined("use_after_free")
       ELSE /\ ~Collides(parent[f], s, "both", f)
            /\ short' = [short EXCEPT ![f] = UpperSeq(s)]
            /\ longname' = [longname EXCEPT ![f] = IF CaseEq(name[f], s) THEN FALSE ELSE @]
            /\ SetDirty
            /\ UNCHANGED <<lockcnt, used, ub, label, alloc, kind, attr, parent, entries,
                           cnt, alllist, fileCnt, name, size, clus, dce, dataEnd,
                           nonempty, rootEnts, lastRecalc, geo>>

\* A plausible slip: vdf_set_file_size without set_drive_dirty.
SetFileSizeNoDirty(f, len) ==
    /\ f \in alloc /\ f # Root /\ kind[f] = "virt" /\ lockcnt = 0
    /\ size' = [size EXCEPT ![f] = len % SizeWrap]
    /\ clus' = [clus EXCEPT ![f] = VirtClusters(len)]
    /\ UNCHANGED <<lockcnt, dirty, used, ub, label, alloc, kind, attr, parent, entries,
                   cnt, alllist, fileCnt, name, short, longname, calcVars>>

\* vdf_set_file_size: virtual files only.
SetFileSize(f, len) ==
    /\ f \in alloc /\ f # Root
    /\ kind[f] = "virt"
    /\ lockcnt = 0
    /\ size' = [size EXCEPT ![f] = len % SizeWrap]
    /\ clus' = [clus EXCEPT ![f] = VirtClusters(len)]
    /\ SetDirty
    /\ UNCHANGED <<lockcnt, used, ub, label, alloc, kind, attr, parent, entries, cnt,
                   alllist, fileCnt, name, short, longname, dce, dataEnd, nonempty,
                   rootEnts, lastRecalc, geo>>

\* vdf_set_file_date: the date itself is not modelled, the dirtying is.
SetFileDate(f) ==
    /\ f \in alloc
    /\ lockcnt = 0
    /\ SetDirty
    /\ UNCHANGED <<lockcnt, used, ub, treeVars, dce, dataEnd, nonempty, rootEnts, lastRecalc, geo>>

\* vdf_set_file_attr: mask &= ~VFA_USER_ATTR keeps exactly the bits the user
\* may not change (of those modelled, VFA_DIR and VFA_VOLLABEL).
SetFileAttr(f, a, m) ==
    /\ f \in alloc
    /\ lockcnt = 0
    /\ attr' = [attr EXCEPT ![f] = (@ \ (m \ {"ro"})) \cup (a \cap (m \ {"ro"}))]
    /\ SetDirty
    /\ UNCHANGED <<lockcnt, used, ub, label, alloc, kind, parent, entries, cnt, alllist,
                   fileCnt, name, short, longname, size, clus, dce, dataEnd, nonempty,
                   rootEnts, lastRecalc, geo>>

\* vdf_set_drive_label with a label (b) or NULL (~b)
SetDriveLabel(b) ==
    /\ lockcnt = 0
    /\ label' = b
    /\ SetDirty
    /\ UNCHANGED <<lockcnt, used, ub, alloc, kind, attr, parent, entries, cnt, alllist,
                   fileCnt, name, short, longname, size, clus, dce, dataEnd, nonempty,
                   rootEnts, lastRecalc, geo>>

\* vdf_set_drive_label when strdup(label) fails: the old label has been
\* freed and drv->label is left NULL, and the call returns -1 before it
\* reaches set_drive_dirty
SetDriveLabelNoMem ==
    /\ lockcnt = 0
    /\ label' = FALSE
    /\ UNCHANGED <<lockcnt, dirty, used, ub, alloc, kind, attr, parent, entries, cnt,
                   alllist, fileCnt, name, short, longname, size, clus, calcVars>>

\* vdf_drive_recreate_ext: refused while locked.  createdrive_ext writes
\* the new geometry over the drive and sets drv->flags to the new flags
\* with VDF_DIRTY, without set_drive_dirty, so the range array is kept;
\* data_end restarts at data_start, and the root joins all_files (to
\* FAT32) or leaves it (from FAT32).  The files keep the cluster counts
\* they were given under the old cluster size.
Recreate(g) ==
    /\ lockcnt = 0
    /\ geo' = g
    /\ dirty' = TRUE
    /\ dataEnd' = g.dataStart
    /\ alllist' = CASE geo.fs = "FAT32" /\ g.fs # "FAT32" -> SelectSeq(alllist, LAMBDA n : n # Root)
                    [] geo.fs # "FAT32" /\ g.fs = "FAT32" -> Append(alllist, Root)
                    [] OTHER -> alllist
    /\ fileCnt' = fileCnt + Len(alllist') - Len(alllist)
    /\ UNCHANGED <<lockcnt, used, ub, label, alloc, kind, attr, parent, entries, cnt,
                   name, short, longname, size, clus, rng, dce, nonempty, rootEnts,
                   lastRecalc>>

-----------------------------------------------------------------------------
(* vdf_drive_recalc.  dir_recalc reaches, from the root, every child whose *)
(* directory bit is set; each reached directory gets its entry count from *)
(* its own children (1 + fents_needed each, plus "." and ".." or the       *)
(* volume label).                                                          *)
RECURSIVE Reached(_)
Reached(S) ==
    LET T == S \cup {c \in UNION {Kids(d) : d \in S} : IsDir(c)}
    IN  IF T = S THEN S ELSE Reached(T)

WalkedDirs == Reached({Root})

\* fents_needed
FentsNeeded(c) == IF VFAT /\ longname[c] THEN Len(name[c]) \div 13 + 1 ELSE 0

\* dir_recalc's dir.fent_cnt, file_recalc_dir adding each child
FentCnt(d) == FoldLeft(LAMBDA acc, c : acc + 1 + FentsNeeded(c),
                       IF d # Root THEN 2 ELSE IF label THEN 1 ELSE 0,
                       entries[d])

RecalcSize == [n \in Nodes |-> IF n \in WalkedDirs THEN 32 * FentCnt(n) ELSE size[n]]
RecalcClus == [n \in Nodes |-> IF n \in WalkedDirs THEN CeilDiv(32 * FentCnt(n), geo.bpc)
                                                   ELSE clus[n]]

\* file_recalc_offsize without its second overflow check
OffsizeStepUnchecked(acc, n) ==
    IF ~acc.ok \/ RecalcSize[n] = 0 THEN acc
    ELSE LET c   == RecalcClus[n]
             de2 == acc.de + c * geo.spc
         IN  IF acc.de >= geo.sectors
             THEN [acc EXCEPT !.ok = FALSE, !.ne = @ + 1, !.dce = @ + c]
             ELSE [acc EXCEPT !.ne = @ + 1, !.dce = @ + c, !.de = de2,
                      !.r = @ \cup {[file |-> n, sectstart |-> acc.de, sectend |-> de2,
                                     fatstart |-> acc.dce, fatend |-> acc.dce + c]}]

\* file_recalc_offsize, one node of all_files: a non-empty node takes the
\* next clusters and sectors; running into the end of the volume, or
\* reaching it exactly, fails the recalc.
OffsizeStep(acc, n) ==
    IF ~acc.ok \/ RecalcSize[n] = 0 THEN acc
    ELSE LET c   == RecalcClus[n]
             de2 == acc.de + c * geo.spc
         IN  IF acc.de >= geo.sectors
             THEN [acc EXCEPT !.ok = FALSE, !.ne = @ + 1, !.dce = @ + c]
             ELSE IF de2 >= geo.sectors
             THEN [acc EXCEPT !.ok = FALSE, !.ne = @ + 1, !.dce = @ + c, !.de = de2]
             ELSE [acc EXCEPT !.ne = @ + 1, !.dce = @ + c, !.de = de2,
                      !.r = @ \cup {[file |-> n, sectstart |-> acc.de, sectend |-> de2,
                                     fatstart |-> acc.dce, fatend |-> acc.dce + c]}]

Offsizes == FoldLeft(OffsizeStep,
                     [ok |-> TRUE, ne |-> 0, dce |-> 2, de |-> geo.dataStart, r |-> {}],
                     alllist)

\* The range array is filled for every node that is a directory or not
\* empty, but was allocated for the non-empty ones only.
RangeFill == {n \in ToSet(alllist) : IsDir(n) \/ RecalcSize[n] # 0}

\* The whole of a recalc that runs (unlocked and dirty), as one step:
\* dir_recalc, file_recalc_offsize over all_files, the range array, qsort.
RecalcDrive ==
    LET o == Offsizes IN
    IF \E d \in WalkedDirs : kind[d] # "dir" THEN Undefined("type_confusion")
    ELSE IF o.ok /\ Cardinality(RangeFill) > o.ne THEN Undefined("heap_overflow")
    ELSE /\ size' = RecalcSize
         /\ clus' = RecalcClus
         /\ rootEnts' = FentCnt(Root)
         /\ nonempty' = o.ne
         /\ dce' = o.dce
         /\ dataEnd' = o.de
         /\ rng' = IF o.ok THEN o.r ELSE rng
         /\ dirty' = ~o.ok
         /\ lastRecalc' = IF o.ok THEN "ok" ELSE "nospace"
         /\ UNCHANGED <<used, ub, label, alloc, kind, attr, parent, entries, cnt,
                        alllist, fileCnt, name, short, longname, geo>>

\* vdf_drive_recalc
Recalc ==
    /\ lockcnt = 0
    /\ dirty
    /\ RecalcDrive
    /\ UNCHANGED lockcnt

\* A plausible slip: vdf_drive_lock counting the lock although recalc failed.
LockIgnoringFailure ==
    /\ lockcnt < MaxLock
    /\ IF lockcnt = 0 /\ dirty THEN RecalcDrive /\ lockcnt' = IF ub' = "none" THEN 1 ELSE 0
       ELSE lockcnt' = lockcnt + 1 /\ UNCHANGED <<dirty, used, ub, treeVars, calcVars>>

\* vdf_drive_lock: the first lock recalculates and fails with it.
Lock ==
    /\ lockcnt < MaxLock
    /\ IF lockcnt = 0 /\ dirty
       THEN /\ RecalcDrive
            /\ lockcnt' = IF ub' = "none" /\ ~dirty' THEN 1 ELSE 0
       ELSE /\ lockcnt' = lockcnt + 1
            /\ UNCHANGED <<dirty, used, ub, treeVars, calcVars>>

\* A plausible slip: vdf_drive_unlock without its check for a zero count.
UnlockUnchecked ==
    /\ lockcnt' = lockcnt - 1
    /\ UNCHANGED <<dirty, used, ub, treeVars, calcVars>>

\* vdf_drive_unlock
Unlock ==
    /\ lockcnt > 0
    /\ lockcnt' = lockcnt - 1
    /\ UNCHANGED <<dirty, used, ub, treeVars, calcVars>>

\* After undefined behaviour the model says nothing more.
Halted == ub # "none" /\ UNCHANGED vars

-----------------------------------------------------------------------------
\* The caller's operations, each open only to a run that lets the caller
\* use it and only before undefined behaviour.
Live(op) == ub = "none" /\ op \in Ops

DoAddDir == Live("add") /\ \E p \in alloc, nm \in Names : AddDir(p, nm)
DoAddFileVirt == Live("add") /\ \E p \in alloc, nm \in Names, len \in VirtSizes :
                                   AddFileVirt(p, nm, len)
DoAddFileReal == Live("add") /\ \E p \in alloc, nm \in Names, st \in RealSizes :
                                   AddFileReal(p, nm, st)
DoDelete == Live("delete") /\ \E f \in alloc : Delete(f)
DoMove == Live("move") /\ \E f, np \in alloc : MoveFile(f, np)
DoRename == Live("rename") /\ \E f \in alloc, nm \in Names : SetFileName(f, nm)
DoShortname == Live("shortname") /\ \E f \in alloc, s \in ShortNames : SetFileShortname(f, s)
DoSetSize == Live("size") /\ \E f \in alloc, len \in VirtSizes : SetFileSize(f, len)
DoSetDate == Live("date") /\ \E f \in alloc : SetFileDate(f)
DoSetAttr == Live("attr") /\ \E f \in alloc, a, m \in AttrInputs : SetFileAttr(f, a, m)
DoSetLabel == Live("label") /\ \E b \in BOOLEAN : SetDriveLabel(b)
DoRecreate == Live("recreate") /\ \E g \in Recreates : Recreate(g)
DoRecalc == ub = "none" /\ Recalc
DoLock == ub = "none" /\ Lock
DoUnlock == ub = "none" /\ Unlock

Next ==
    \/ DoAddDir \/ DoAddFileVirt \/ DoAddFileReal
    \/ DoDelete \/ DoMove \/ DoRename
    \/ DoShortname \/ DoSetSize \/ DoSetDate \/ DoSetAttr \/ DoSetLabel
    \/ DoRecalc \/ DoLock \/ DoUnlock
    \/ Halted

Spec == Init /\ [][Next]_vars

\* Allocation failures, open to a run whose Ops hold "nomem": strdup of a
\* new file's name, and of a new label.
DoCreateNoMem == Live("add") /\ Live("nomem") /\ \E p \in alloc, nm \in Names :
                                                   CreateFileNoMem(p, nm)
DoSetLabelNoMem == Live("label") /\ Live("nomem") /\ SetDriveLabelNoMem

\* The caller may also recreate the drive with another geometry, and
\* allocations may fail.
FullNext == Next \/ DoRecreate \/ DoCreateNoMem \/ DoSetLabelNoMem
FullSpec == Init /\ [][FullNext]_vars

-----------------------------------------------------------------------------
TypeOK ==
    /\ lockcnt \in 0..MaxLock /\ dirty \in BOOLEAN /\ label \in BOOLEAN
    /\ alloc \subseteq used /\ used \subseteq Nodes /\ Root \in alloc
    /\ kind \in [Nodes -> {"dir", "virt", "real"}]
    /\ attr \in [Nodes -> SUBSET {"ro", "dir", "vol"}]
    /\ parent \in [Nodes -> Nodes \cup {NoNode}]
    /\ entries \in [Nodes -> Seq(Nodes)]
    /\ cnt \in [Nodes -> Int] /\ fileCnt \in Nat
    /\ alllist \in Seq(Nodes)
    /\ size \in [Nodes -> 0..(SizeWrap - 1)] /\ clus \in [Nodes -> Nat]
    /\ longname \in [Nodes -> BOOLEAN]
    /\ rng = NoRanges \/ rng \subseteq [file : Nodes, sectstart : Nat, sectend : Nat,
                                        fatstart : Nat, fatend : Nat]
    /\ lastRecalc \in {"none", "ok", "nospace"}
    /\ geo.bpc = geo.spc * (BPC \div SPC) /\ geo.dataStart < geo.sectors
    /\ ub \in {"none", "use_after_free", "type_confusion", "heap_overflow"}

(* The layout the specification gives the range index: the non-empty     *)
(* nodes of all_files in creation order, each a contiguous run of        *)
(* clusters from cluster 2 and of sectors from the data start.          *)
Laid == SelectSeq(alllist, LAMBDA n : size[n] # 0)
ClusBefore(i) == FoldLeft(LAMBDA acc, n : acc + clus[n], 0, SubSeq(Laid, 1, i - 1))
SpecLayout ==
    {[file |-> Laid[i],
      sectstart |-> geo.dataStart + ClusBefore(i) * geo.spc,
      sectend |-> geo.dataStart + (ClusBefore(i) + clus[Laid[i]]) * geo.spc,
      fatstart |-> 2 + ClusBefore(i),
      fatend |-> 2 + ClusBefore(i) + clus[Laid[i]]] : i \in 1..Len(Laid)}

(* Whenever the drive is clean, the range index vdf_drive_recalc built    *)
(* still describes the tree: every mutator that changes a name, a size,   *)
(* an attribute, the label or the shape of the tree has marked the drive *)
(* dirty, so the readers never see a stale index or stale directory      *)
(* sizes.                                                                 *)
RangeIndexFresh ==
    ~dirty => /\ rng = SpecLayout
              /\ \A d \in WalkedDirs : size[d] = 32 * FentCnt(d)

(* Whenever the drive is clean, every range lies inside the volume: the   *)
(* overflow checks of file_recalc_offsize kept the data region within     *)
(* drv->sectors.                                                          *)
RangesInVolume ==
    ~dirty => \A r \in rng : geo.dataStart <= r.sectstart /\ r.sectend <= geo.sectors

(* A locked drive is clean: vdf_drive_lock only counts a lock once its    *)
(* recalc has succeeded.                                                  *)
LockedImpliesClean == lockcnt > 0 => ~dirty

-----------------------------------------------------------------------------
(* Properties the specification states and the code does not keep; each  *)
(* is checked by a run that TLC finds violated.                            *)

(* Siblings' short names are unique, case-insensitively (the FileNode     *)
(* invariant of the specification): calc_shortname, vdf_set_file_name and *)
(* vdf_move_file must never leave two children of one directory with the *)
(* same 8.3 name.                                                         *)
ShortNamesUnique ==
    \A d \in alloc : \A c1, c2 \in Kids(d) :
        c1 # c2 => ~CaseEq(short[c1], short[c2])

(* Every live file's short name is a valid 8.3 name a FAT directory      *)
(* entry can hold (the FileNode invariant of the specification): the     *)
(* names calc_shortname derives, with their ~N tails, and the ones       *)
(* vdf_set_file_shortname accepts.                                        *)
ShortNamesValid == \A n \in alloc \ {Root} : ShortNameValid(short[n])

(* Every live node other than the root hangs in its parent's entry list,  *)
(* its parent is live, and following parents leads to the root: deleting *)
(* a directory deletes what it holds (vdf_delete_file), and vdf_move_file *)
(* never builds a cycle.                                                  *)
RECURSIVE Ancestors(_, _)
Ancestors(n, k) == IF k = 0 \/ parent[n] = NoNode THEN {}
                   ELSE {parent[n]} \cup Ancestors(parent[n], k - 1)
TreeConnected ==
    \A n \in alloc \ {Root} :
        /\ parent[n] \in alloc
        /\ n \in Kids(parent[n])
        /\ Root \in Ancestors(n, Cardinality(Nodes))

(* dir.cnt, which create_file's root capacity check and vdf_dir_entry     *)
(* rely on, counts the entries of the directory's list.                   *)
DirCountMatches == \A d \in alloc : cnt[d] = Len(entries[d])

(* A live node is a directory exactly when it was created as one: the     *)
(* directory bit "cannot be changed using vdf_set_file_attr()"            *)
(* (include/vdf.h), and dir_recalc and delete_file trust it.              *)
KindMatchesAttr == \A n \in alloc : IsDir(n) <=> kind[n] = "dir"

(* The directory tree is well formed: it is connected (no orphans, no     *)
(* cycles), every dir.cnt counts its list, the directory bit tells        *)
(* directories from files, and siblings' short names are valid and        *)
(* unique.                                                                *)
(* Creation, renaming, deletion, moves and attribute changes must all     *)
(* keep it.                                                               *)
DirTreeWellFormed ==
    TreeConnected /\ DirCountMatches /\ KindMatchesAttr /\ ShortNamesValid /\ ShortNamesUnique

(* A file's cluster count covers exactly its size, so the data region     *)
(* holds all of its bytes (vdf_set_file_size, vdf_add_file_real).         *)
SizeClustersAgree ==
    \A n \in alloc : kind[n] # "dir" => clus[n] = CeilDiv(size[n], geo.bpc)

(* vdf_drive_recalc fails for lack of room only when the data region      *)
(* really runs past the last sector of the volume.                        *)
RecalcFailsOnlyWhenFull == lastRecalc = "nospace" => dataEnd > geo.sectors

(* On FAT12/16 the root directory's entries, long-name entries and label  *)
(* included, fit in the root_dir_cnt slots of the fixed root region that  *)
(* create_file guards.                                                    *)
RootEntriesFit == geo.fs # "FAT32" /\ ~dirty => rootEnts <= geo.rootDirCnt

(* The layout reserves what the tree needs: every file's clusters hold    *)
(* its bytes, the root's entries fit its fixed region, and recalc refuses *)
(* a tree only when it does not fit the volume.  create_file,             *)
(* vdf_set_file_size, vdf_add_file_real and file_recalc_offsize each     *)
(* guard one part of it.                                                  *)
LayoutFits == SizeClustersAgree /\ RootEntriesFit /\ RecalcFailsOnlyWhenFull

(* The volume the library presents is consistent: its directory tree is  *)
(* well formed, its layout fits what the tree holds, and a clean drive's  *)
(* range index and directory sizes describe the tree.                     *)
VolumeConsistent == DirTreeWellFormed /\ LayoutFits /\ RangeIndexFresh

(* No sequence of library calls reaches undefined behaviour.              *)
NoUndefinedBehaviour == ub = "none"

(* The drive is sound: no sequence of library calls reaches undefined    *)
(* behaviour, and the volume it presents is consistent.                   *)
VolumeSound == NoUndefinedBehaviour /\ VolumeConsistent

=============================================================================
