------------------------------ MODULE DirRead ------------------------------
(***************************************************************************)
(* A directory read through its entry list: dir_recalc numbers the       *)
(* entries and read_sector_dir writes them (DirCodec), both walking       *)
(* dir.entries with list_foreach_item, while create_file, vdf_move_file   *)
(* and vdf_delete_file link and unlink files as DirList models.  Every    *)
(* state of the list is a directory the codec may be asked to read, as a *)
(* subdirectory and as the root, for any run of its sectors.             *)
(***************************************************************************)
EXTENDS DirList

CONSTANTS
    NameLen, LongNamed, VFAT, Label,   \* as DirCodec
    DpsValues,   \* dirent_per_sector values
    MaxSector,   \* the last first sector of a read
    MaxScnt      \* the most sectors of one read_sector_dir call

Dir == INSTANCE DirCodec WITH NoFile <- Null

Reads == BOOLEAN \X (0..MaxSector) \X (1..MaxScnt) \X DpsValues

(* Whatever the order of the directory's list, every run of its sectors   *)
(* read_sector_dir is asked for holds the entries of the table dir_recalc *)
(* numbered at those positions: a file's VFAT entries cut by a sector     *)
(* boundary resume at the right sequence number in the next sector, no   *)
(* entry is written twice or skipped, and the tail is zeros.              *)
DirSectorsMatchLayout ==
    \A r \in Reads :
        Dir!ReadSectorDir(Visited, r[1], r[2], r[3], r[4])
            = Dir!LayoutSectors(Visited, r[1], r[2], r[3], r[4])

(* The specification's directory codec: every run of sectors holds "."   *)
(* and ".." (not in the root), then each child's ceil(len/13) VFAT        *)
(* entries and its 8.3 entry, in child order, with or without a volume    *)
(* label.                                                                 *)
DirSectorsMatchSpec ==
    \A r \in Reads :
        Dir!ReadSectorDir(Visited, r[1], r[2], r[3], r[4])
            = Dir!SpecSectors(Visited, r[1], r[2], r[3], r[4])

=============================================================================
