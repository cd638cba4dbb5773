# TLA+ models of libvdf

libvdf (`src/libvdf`) builds a FAT12/16/32 disk image on the fly from a tree of
virtual and real files. It never materialises the image: every sector is
synthesised when it is read. This directory holds TLA+ models of the library.
They can be checked with TLC.

## The system

| part | source | state | operations |
|---|---|---|---|
| file tree | `file.c`, `vdf_file.h`, `list.h` | files, one sibling list per directory, the drive's `all_files` list, name/short name/size/attributes per file, `dir.cnt` | `create_file` (through `vdf_add_dir`, `vdf_add_file_virt`, `vdf_add_file_real`), `vdf_delete_file`, `vdf_move_file`, `vdf_file_up/down`, `vdf_set_file_name/shortname/size/date/attr` |
| short names | `file.c` 50-131 | none (pure) | `filename_valid`, `stuff_dosname`, `calc_shortname` |
| drive | `drive.c` | `VDF_DIRTY` flag, lock count, label, geometry, `data_end`, `nonempty_file_cnt`, range index `ranges` | `vdf_drive_lock/unlock`, `vdf_drive_recalc` (with `dir_recalc`, `file_recalc_dir`, `file_recalc_offsize` of file.c), `vdf_set_drive_label`, `createdrive_ext`, `vdf_drive_recreate_ext` |
| sector synthesis | `read.c`, `bootblock.c`, `fat.c`, `read_dir.c`, `read_data.c` | none beyond the drive | produce the boot sector, FSINFO, MBR, the FAT, the directory entries and the file data of one sector from the tree and the range index |
| transports | `transport.c`, `transport/nbd_server.c`, `transport/nbd_client.c`, `vdf_sock.c` | transport list per drive; NBD server client list and threads | start/stop a transport (each holds one lock on the drive); serve NBD requests from client threads |
| dump | `dump.c` | none | write the image or a description of the drive to a file, under a lock |

The parts interact through the drive. Every tree mutator marks the drive dirty
(`set_drive_dirty`), which frees the range index. Locking a dirty drive first
runs `vdf_drive_recalc`. That lays out every file and directory (the order of
`all_files` decides the clusters), then rebuilds and sorts the range index.
Mutators refuse to run while the drive is locked. The readers that synthesise
sectors assume a locked, clean drive and use the range index. A transport takes
the lock when it starts and releases it when it stops. The NBD server runs one
thread per client, and all of them read the same locked drive.

The hard parts:
- the tree operations change the lists in an order that the layout depends on;
- a recalc can fail halfway (out of space);
- the range array is sized by one count and filled by another rule;
- 32-bit size arithmetic;
- short-name tails;
- the NBD server threads share a client list without a lock.

## Modules

### ShortName.tla: operators for the name handling of file.c

| operator | models |
|---|---|
| `FilenameValid` | `filename_valid` |
| `StuffDos` | `stuff_dosname`, as a fold over the characters |
| `Candidate`, `DosBase`, `DosExt` | the 8.3 candidate of `calc_shortname` (the base before the last dot, up to 8 characters; the extension up to 3) |
| `IsVerbatim` | the strcmp test that keeps the name as its own short name |
| `NeedsTail` | the `dp - shortname >= 7` test |
| `TailDigitsWritten`, `TailOf`, `TailedName` | the `~N` tail, including the duplicated line for the ten-thousands digit |
| `CaseEq` | `strcasecmp` |
| `ShortNameValid` | the checks of `vdf_set_file_shortname` |

Names are sequences of one-character strings.

### VdfTree.tla: the tree, the drive lock, recalc and the range index

State:
- Files are drawn from a constant set `Nodes`.
  - `alloc` holds the files that are allocated; `used` holds the files that were ever allocated.
  - `kind` records what each file was allocated as. `attr` holds its attribute bits.
- `parent` and `entries` describe the tree. `entries` is the sibling list of each directory, as a sequence.
- `cnt` is `dir.cnt`. `alllist` is `all_files`, as a sequence.
- `name`, `short` and `longname` hold the names.
- `size` and `clus` hold the file sizes.
- The drive has `dirty`, `lockcnt`, `label`, `dataEnd`, `dce` and `nonempty`.
- `rng` is the range index. It is the set of range records, or `NoRanges` when it was freed.
- `geo` is the geometry: `filesys`, `root_dir_cnt`, `bpc`, `spc`,
  `data_start` and `sectors`. It starts at the constants and changes only
  when the drive is recreated.
- `ub` records undefined behaviour the code reaches: a use after free, a directory operation on a file, or a write past the range array. Once it is set, only the `Halted` stutter step remains.

Actions. Each one is a whole library call, guards and early returns included:
- `CreateFile` is shared by `AddDir`, `AddFileVirt` and `AddFileReal`.
- `Delete`, `MoveFile`, `SetFileName`, `SetFileShortname`, `SetFileSize`, `SetFileDate`, `SetFileAttr` and `SetDriveLabel`.
- `Recalc` is `vdf_drive_recalc`, and `Lock` and `Unlock` are the lock calls. `RecalcDrive` is one atomic step:
  1. `Reached` and `RecalcSize`/`RecalcClus` do the `dir_recalc` walk, with `FentCnt`/`FentsNeeded`.
  2. `Offsizes` folds `OffsizeStep` (`file_recalc_offsize`) over `all_files`, in order. It stops at the first failure, which leaves the drive dirty.
  3. `RangeFill` fills the range array, with the overflow check against `nonempty_file_cnt`.

  Recalc runs without interleaving because libvdf is single-threaded up to the lock: the mutators and recalc are only valid on an unlocked drive, from one thread.
- `Recreate(g)` is `vdf_drive_recreate_ext` on an unlocked drive, in one step:
  - it takes a new geometry `g` from the constant `Recreates`;
  - it sets `VDF_DIRTY` without `set_drive_dirty`, and restarts `data_end`;
  - it moves the root into or out of `all_files`.

  It is a disjunct of `FullNext`/`FullSpec` only. A passing run with it grows past what TLC explores in five minutes.
- Allocation failures are the two paths where a failed `strdup` leaves the drive changed. They are enabled when `Ops` holds `"nomem"`:
  - `CreateFileNoMem` is `create_file`'s `exit_err`. The node is unlinked and freed, but `dir.cnt++`, `file_cnt++` and the dirty mark stay;
  - `SetDriveLabelNoMem` is `vdf_set_drive_label` when `strdup(label)` fails. The old label is already freed, `drv->label` is left NULL, and the call returns before `set_drive_dirty`.

  They too are disjuncts of `FullNext` only. The volume run and its reproducers use `FullSpec`. The passing runs use `Spec`, so they check the tree on the assumption that every allocation succeeds. Their properties would fail on the label path, as the reproducer `MC_VdfTree_labelnomem.cfg` shows.

The `Do*` actions choose the inputs from small constant sets. The constant `Ops`
selects which caller operations a run offers, so that the state space of each
question stays small.

### ShortNameCheck.tla

This module checks the pure operators of ShortName against reference
definitions:
- `Decimal` is a recursive decimal rendering;
- the 8.3 shape is checked for every valid name up to a length over a small alphabet.

### DirList.tla and EntryOrder.tla: the intrusive list of list.h

DirList holds the `next` and `prev` pointers of a directory's `dir.entries`
head and of the files' `dirlist` nodes:
- `LinkBetween` is `_list_add`, and `ListAdd`, `ListAddTail` and `ListDel` are the calls `create_file`, `vdf_move_file` and `vdf_delete_file` make;
- `FileUp` and `FileDown` are the pointer exchanges of `vdf_file_up` and `vdf_file_down`, whole;
- `WalkFrom` is the traversal of `list_foreach_item`.

EntryOrder is what the list promises its users: an ordered sequence of distinct
files, extended at either end, shortened anywhere, and reordered one place at a
time. DirList instantiates it with `order <- Visited` (the order a forward walk
from the head visits), and `EntryOrderRefined` (the abstract `Spec`) is checked
as a PROPERTY.

### DirCodec.tla and DirRead.tla: the directory codec

DirCodec is operators only, over a directory given as the sequence of its
children in list order (`kids`) and whether it is the root:
- `FentsNeeded` is `fents_needed`; `DirBase`, `SlotsBefore`, `FentStart` and
  `DirFentCnt` are the numbering `dir_recalc` and `file_recalc_dir` give the
  entries (the root's label takes entry 0, a subdirectory's "." and ".."
  entries 0 and 1).
- `FillDirent` is `fill_dirent` for a child: `LfnFrom` is its VFAT loop,
  which skips the `entnum - fent_start` entries an earlier sector wrote;
  `FillFrom` is the `maxcnt` return and the short entry after the loop.
- `ReadSectorDir` is `read_sector_dir`: `DirStart` and `DirEnt` are the
  sector-0 and other-sector cases, `DirLoop` walks the children, skipping
  those that `Passed` the first entry, and `Emit` keeps `i`, `mx` and the
  `i >= scnt` break. `DirFill` and `Padded` are the `ent < fent_cnt` test and
  the trailing memset.

An entry is its kind, its file and, for a VFAT entry, its sequence number
and `0x40` tag. The characters, the checksum and the short entry's fields
follow from the file and the sequence number, so they are left out. The
references are the code's table (`LayoutSectors`: the numbering above, the
label included) and the specification's (`SpecSectors`: no label,
`ceil(len/13)` VFAT entries).

DirRead composes it with DirList, through `INSTANCE DirCodec`. Every list
state the list operations reach is read through `Visited` (the walk
`dir_recalc` and `read_sector_dir` both make): as a subdirectory and as the
root, from every first sector up to `MaxSector`, for 1 or 2 sectors, at 2 and
4 entries per sector.

### NbdServer.tla: the NBD server driven through the transport layer

The application thread and one thread per client:
- The application thread is `mpc`, `mcur`, `mnext` and `mload`. It runs
  `vdf_transport_start` (`TransportStart` with `NbdservStart`),
  `vdf_transport_process` (`TransportProcess`, then `NbdservProcess`; it
  registers the client and then increments `num_clients`) and
  `vdf_transport_stop` (`StopBegin`, then `StopClient` and `StopJoin` per
  client, then `StopFinish`).
- Each client thread is `tpc` and `tload`. It runs `client_threadfunc`:
  `Handshake`, then `ReadRequest` (with `SockRead`, the three outcomes of
  `sock_read`), then `Serve`/`WriteLoop`. It ends in `free_client`, split
  into `FreeUnlink` and `FreeCount`.
- The remote clients are the environment: they connect, send a request from
  `Cmds`, and may drop the connection.

A step is one access to shared state. `num_clients++` and `--num_clients` are
split into a load and a store, so an update can be lost. `ub` records undefined
behaviour: a use after free, or a `list_del` of a node that was never linked.
`Build` selects the POSIX or the Win32 thread-creation branch of
`nbdserv_process`.

### FatCodec.tla: read_sector_fat

The model is the FAT sectors synthesised from the range index. The state is one
drive layout and one read request, fixed by `Init`, so each invariant covers
every input of the bounded sets:
- `RangeIdx` and `DataClusterEnd` are the ranges `file_recalc_offsize` and `vdf_drive_recalc` give a layout of chain lengths. `Init` stores them in the variables `ranges` and `data_cluster_end` (`drv->ranges`, `drv->data_cluster_end`), and the readers read those;
- `FindFrom`/`FindFileFatEntry` and `FatNextFile` walk the ranges as the code does, bounded by `file_cnt`;
- `Start(sect, nsect)`, `Enter`, `Step12`, `Step1632`, `NextRange`, `Loop` and `Finish` are the code's loop, with `scnt` in the loop state as in the C function, with its own arithmetic: the FAT12 start entry, the nibble masks, the `i < scnt - 1` guards and the trailing memset.

A byte of the caller's buffer that the code reads before it writes it is the
model value `Garbage`.

The reference (`FatEntry`, `FatByte`, `RefSectors`) is the FAT that the same
ranges describe. Each range is a chain of consecutive clusters ending in an
end-of-chain mark. FAT12 entries are packed into nibbles, and FAT16/32 entries
are stored little-endian.

The FAT12, read and empty-file cfgs reproduce its defects. ReadPath composes
the codec into the whole read path, so the runs of the project check it there.

### ReadPath.tla: vdf_read_sectors, vdf_read_bytes and read_sector_data

The model is one drive and one read, fixed by `Init`; the invariants cover
every drive and read of the bounded sets. The drive is a layout of ranges
(FatCodec's), a FAT type, a cluster size, and whether it carries an MBR
(`mbr` is 0, or `mbr_sectors` of 1 or of a cluster). The zones are those
`createdrive_ext` lays out: reserved sectors, two FATs of FatCodec's size, the
FAT12/16 root, and data up to `drv->sectors`, which ends one sector after the
last range.

- `Stages` is the list of zones `vdf_read_sectors` tries, in its order. It
  holds the MBR sector and padding with the rebase to the partition
  (`MbrStages`), then boot, FAT1, FAT2, the FAT12/16 root, and the data region.
  `RunStages` applies `Stage` to each zone until the call returns. A zone is
  entered when `sector < bound` and read up to the bound (`Want`). `Advance`
  is the code's `rem`/`cnt`/`sector` bookkeeping, and the call returns once
  `rem` is 0. The data stage computes `sectors - sector` as the code does; a
  negative result is the 32-bit wrap and ends the call with `huge_memset`.
- `Codec` hands the FAT zones to FatCodec's `ReadSectorFatAt(rel, want)` and the data zone to `ReadSectorData`. The MBR, boot
  and root codecs give labelled bytes (`Lbl(tag, offset)`): they are outside
  this module, and the labels show that every byte comes from the right zone
  and offset.
- `FindSectFrom`, `FindFileSector`, `DataLoop` and `RangeBytes` are
  `find_file_sector` and `read_sector_data`: directory ranges, file bytes up to
  the size, zeros past it, and zeros past the last range.
- `HeadPart`, `MiddlePart` and `TailPart` are the three parts of
  `vdf_read_bytes`, run in order by `RunParts`. Each reads its sectors with
  `ReadSectors` and hands the result to `HeadCopy`, `MiddleCopy` or
  `TailCopy`.

The results of inner calls are passed as operator arguments, not bound with
LET. TLC's profiler, which the coverage of every action needs, walks a LET
body once per reference, and the nested reads would multiply that walk.

`ImageByte` is the reference: the device byte by byte.

### Geometry.tla: createdrive_ext and find_spc

A pure computation over one request (`flag`, `bps`, an automatic or explicit
cluster size, root entries, alignment, size in sectors):
- `FsOf`/`FsByClusters` choose the FAT type;
- `Spc`/`FindSpc` choose the cluster size from the code's tables;
- `Fat1Start`, `RootSectors`, `FatSectors`, `DataStart` and `Clusters` are the
  layout arithmetic;
- `Accepted` is the set of EINVAL checks.

The code computes `sectors - data_start` in `size_t`. When the FATs run past
the size, `Wrapped` gives the quotient of the wrapped difference. TLC's
integers are 32-bit, so sizes are counted in 512-byte units.

### BootCodec.tla: read_sector_boot, read_sector_fsinfo, read_sector_mbr

Extends Geometry. It adds the drive's label and MBR mode, and as state the
three sectors the codec returns (`sector0`, `sector1`, `mbr`). `BootInit`
takes only requests `createdrive_ext` accepts, because a refused request builds
no drive. A sector is a function from byte offsets to bytes. Each byte is a
number, a one-character string, or `Garbage`, the caller's old contents.
- `PutAll` applies the code's writes in the code's order, so a later write
  overwrites an earlier one. `BpbWrites`, `TypeWrites` (the FAT-type switch)
  and `CommonWrites` (the extended boot record) list the writes at the
  offsets of `struct fat_bootrec`.
- `LabelBytes` is the label loop: it runs while `i <= 11`, copying each
  character through `stuff_dosname`. A space writes nothing but counts.
- `le_16`/`le_32` are the identity in vdf_private.h. On the little-endian
  hosts the code targets the stores give the bytes `LE` gives.

The reference is a FAT driver mounting the volume. `Mount` decodes the BPB,
derives the regions and the cluster count, and `MountType` gives the FAT type
from that count. `SpecLabel` is spec.md 4.5's label: the DOS-name transform,
padded or truncated to 11 bytes.

### NbdClient.tla: the NBD client driven through the transport layer

The client connects out to a peer and serves the peer's requests, one
`vdf_transport_process` call per request, all on the application's thread.
- The drive's transport list `tlist` holds the client `"cli"` and the
  transports of `Others` (an NBD server, say). The other drivers are
  abstracted to a start that may fail (`OtherStartFails`) and a stop that
  succeeds, as `nbdserv_stop` and `nbdcli_stop` do. `orun` is the set of
  running others.
- The application's calls are these:
  - `TransportOpen(t)`: `list_add` at the head.
  - `TransportClose(t)`: a stop when running, then `list_del`.
  - `TransportStart(t)`: the lock, then the driver's start (`StartOf`,
    `NbdcliStart` for the client), which may fail.
  - `TransportStop(t)`: the driver's stop, then the unlock (`StopOf`).
  - `SetNonBlock` and `ProcessBegin`.
  - `vdf_drive_start` and `vdf_drive_stop`. Each is a `...Begin` step and one
    `...Step` per transport visited, so peers act between the visits.
  - `PerTransportCalls = FALSE` restricts the application to the drive-level
    calls for starting and stopping.
  `nbdcli_nonblock`'s body is compiled out, so the socket's mode (`sockNB`)
  changes only in `nbdcli_process`.
- `sock_read` of the request header is one action per `recv`:
  - `RecvData` takes what has arrived, up to the count it is given;
  - `RecvAgain` is EAGAIN on a non-blocking socket;
  - `RecvEof` is the peer's close.
- `DumpDrive(o)` and `DumpDriveInfo` are the two calls of `dump.c`, each one
  step that locks, works and unlocks. `o` is how `vdf_dump_drive` ends: lock
  failure, malloc failure (which returns with the lock held), open failure,
  a read or write error, or success. `DumpDriveInfo` prints the label with
  `%s`. Its test is inverted, so an unlabelled drive (`HasLabel = FALSE`)
  passes it NULL, recorded as undefined behaviour.
- `Decode` is the magic check and the command switch. `WriteLoop` is the
  WRITE loop that never ends. `Fail` is the `fail:` label.
- The peer pipelines up to `MaxReq` requests (`PeerSend`) and may close the
  connection (`PeerClose`). `Deliver` moves one unit from the wire to the
  socket's receive buffer, so a header may arrive in two pieces.

The stream is abstracted to units: a 28-byte header is two units, and a
WRITE's payload is one. What a unit holds is its request number and its part.
That is all the magic check and the command decode tell apart.

## Runs

PROJECT.json lists twelve runs. Five pass, and seven are violations that each check one property.

| run | cfg | properties | result |
|---|---|---|---|
| tree_ops | MC_VdfTree.cfg | TypeOK, RangeIndexFresh, RangesInVolume, LockedImpliesClean | pass: create, delete, move, rename |
| attr_ops | MC_VdfTree_attr.cfg | RangeIndexFresh, RangesInVolume, LockedImpliesClean | pass: create, short name, size, date, attributes, label |
| dirlist_refines | MC_DirList.cfg | ListConsistent, DirSectorsMatchLayout, EntryOrderRefined | pass: list_add/list_add_tail/list_del keep prev and next inverse and implement EntryOrder; every directory they build is read back entry for entry |
| nbd_server | MC_NbdServer.cfg | ServingImpliesLocked, StopCompletes, ConformingRequestAnswered | pass (Win32 branch) |
| read_path | MC_ReadPath.cfg | ReadSectorsMatchImage, ReadBytesMatchImage | pass: FAT16/32 without empty files, reads inside the drive |
| volume_consistent | MC_VdfTree_volume.cfg | VolumeSound | violation: the directory bit is toggled by `vdf_set_file_attr` (also the reproducer for that defect) |
| file_up_down | MC_DirList_updown.cfg | EntryOrderRefined | violation: `vdf_file_up/down` leave the outer neighbours' pointers stale |
| nbd_clients | MC_NbdServer_clients.cfg | ClientsServed | violation: POSIX use after free (the Win32 reproducers below show the rest) |
| nbd_client | NbdClient.cfg | ClientTransportSound | violation: a failed `nbdcli_start`, or a `vdf_dump_drive` whose malloc fails, keeps the drive lock; `vdf_drive_stop` may leave transports running (the reproducers below show the rest) |
| read_spec | MC_ReadPath_spec.cfg | ReadBytesMatchSpec | violation: FAT12 FAT bytes, empty files, reads past the end |
| boot_record | MC_BootCodec.cfg | BootRecordSound | violation: FAT12, spc 2, 16 root entries, 684 sectors: the boot record describes a FAT one byte short (the reproducers below show the rest) |
| dir_spec | MC_DirList_spec.cfg | DirSectorsMatchSpec | violation: a 13-character name gets two VFAT entries |

The properties, briefly:
- `RangeIndexFresh`: on a clean drive, the range index and directory sizes are what a fresh layout of the tree gives (`SpecLayout`).
- `RangesInVolume`: on a clean drive, every range lies inside the volume.
- `LockedImpliesClean`: a locked drive is never dirty.
- `ListConsistent`: an unlinked node has no `prev`, and on every linked cell `prev` and `next` are inverse.
- `ServingImpliesLocked`: a client thread that is serving runs on a locked, running transport. Stop unlocks only after every thread is joined.
- `StopCompletes`: `vdf_transport_stop` returns.
- `ConformingRequestAnswered`: every READ in range, FLUSH or DISC is eventually answered, or its thread ends.
- `FatSectorsMatchChains`: the bytes `read_sector_fat` returns are the reference FAT. No read goes past the range array, no write goes past the buffer, and no byte is left unwritten.
- `ReadSectorsMatchImage`/`ReadBytesMatchImage`: a read that starts inside the drive returns the image bytes, and as many sectors as remain; a byte read that ends inside the drive returns all its bytes.
- `ReadBytesMatchSpec`: any byte read returns its full length, zero-padded past the end (spec.md line 67).
- `GeometrySound`: an accepted geometry has a FAT that holds every cluster's entry and clusters that end inside the volume.
- `BootRecordSound`: every byte of the boot sector, the FSINFO sector and the MBR is written. A driver reading the BPB gets the drive's sector size, cluster size, reserved sectors, FAT size, sector count, data start and FAT type, and a FAT that holds every cluster. The label field is `SpecLabel` and the type string follows it intact. The MBR partition starts after the MBR sectors and spans the drive.
- `VolumeSound` is `NoUndefinedBehaviour` and `VolumeConsistent`, and `VolumeConsistent` is `DirTreeWellFormed`, `LayoutFits` and `RangeIndexFresh`:
  - `DirTreeWellFormed` is connectedness, `dir.cnt`, the directory bit, and valid (`ShortNamesValid`) and unique sibling short names;
  - `LayoutFits` is cluster counts, the root capacity, and recalc refusing only a full volume.
- `SharedClientStateSound` is `NoUndefinedBehaviour` and `ClientCountExact` for the client list and `num_clients`; `ClientsServed` is that in every state and, for each client, `RequestAnswered`.
- `DirSectorsMatchLayout`: for every list order, every run of a directory's sectors holds the entries `dir_recalc` numbered at those positions. A VFAT chain cut by a sector boundary resumes at the right entry, nothing is written twice or skipped, and the tail is zero.
- `ClientTransportSound` is four things:
  - `NoUndefinedBehaviour`: no write past the request struct, and no decode of one that was never filled;
  - `NoSpuriousError`: the error state only after the peer closed;
  - `LockFollowsRunning`: the drive is locked once for every running transport;
  - `DriveStopStopsAll` (an action property): when `vdf_drive_stop` returns, no transport runs.
- `DirSectorsMatchSpec`: the same against the specification's table, with a volume label and a 13-character name.

### Reproducers

Other cfgs show one defect each with the shortest trace. They are cited by the
findings, but they are not runs:

| cfg | property | shows |
|---|---|---|
| MC_VdfTree_shortdup.cfg | ShortNamesUnique | "a+" and "a," both get `A_`; a rename to a sibling's 8.3 name |
| MC_VdfTree_detach.cfg | TreeConnected | deleting a directory leaves its children live; moving a directory into itself |
| MC_VdfTree_dircnt.cfg | DirCountMatches | delete does not decrement `dir.cnt` |
| MC_VdfTree_labelnomem.cfg | RangeIndexFresh | a label, a recalc, then a second label whose `strdup` fails: the label is gone, and the clean root keeps its label slot |
| MC_VdfTree_createnomem.cfg | DirCountMatches | `vdf_add_dir` whose `strdup(name)` fails: `dir.cnt` and `file_cnt` keep their increments |
| MC_VdfTree_recreate.cfg | SizeClustersAgree | a 600-byte file keeps its two 512-byte clusters after `vdf_drive_recreate_ext` to 1024-byte clusters |
| MC_VdfTree_wrap.cfg | SizeClustersAgree | round-up wrap near the top of `filesz_t` |
| MC_VdfTree_exactfit.cfg | RecalcFailsOnlyWhenFull | a tree that fills the volume exactly is refused |
| MC_VdfTree_rootlfn.cfg | RootEntriesFit | VFAT entries overflow a one-entry FAT16 root |
| ShortNameCheck.cfg | ShortNameWellFormed | the name "." gives an invalid short name, and tail 10000 is written `~10000` with six digits |
| MC_NbdServer_win32ub.cfg | NoUndefinedBehaviour | Win32: the thread frees the client before `list_add_tail` links it |
| MC_NbdServer_count.cfg | ClientCountExact | `num_clients` loses an update and ends at -1 |
| MC_NbdServer_oob.cfg | RequestAnswered | a READ past the end of the drive gets no reply |
| MC_NbdServer_requests.cfg | RequestAnswered | Win32: a WRITE is never answered |
| MC_DirList_label.cfg | DirSectorsMatchSpec | no 13-character name: a labelled root lists its file twice, at the end of sector 0 and the start of sector 1 |
| NbdClient_eof.cfg | ClientTransportSound | the peer closes: the request struct is decoded unfilled |
| NbdClient_split.cfg | ClientTransportSound | a header in two segments with the next request behind it: `sock_read` writes past the struct |
| NbdClient_nonblock.cfg | NoSpuriousError | a non-blocking read drops half a header, and the next call fails with EIO |
| NbdClient_dump.cfg | ClientTransportSound | `vdf_dump_drive` runs out of memory and returns with the drive locked |
| NbdClient_info.cfg | ClientTransportSound | `vdf_dump_drive_info` on an unlabelled drive passes NULL to `%s` |
| NbdClient_drive.cfg | ClientTransportSound | the client, opened after `vdf_drive_start`, is not running. `vdf_drive_stop` stops at it, and the server keeps running |
| MC_BootCodec_label.cfg | BootRecordSound | FAT32 labelled "ab": the 12th label byte overwrites the `F` of `FAT32   ` |
| MC_BootCodec_sector.cfg | BootRecordSound | FAT16 with 4300 sectors of 1024 bytes: the 32-bit sector count and bytes 512..1023 of the boot sector are not written |
| MC_BootCodec_align.cfg | BootRecordSound | FAT12 aligned to 2-sector clusters: the BPB's root size puts the data one sector early |
| MC_FatCodec_fat12.cfg | FatSectorsMatchChains | FAT12 alone: the start entry, the last-byte guard, the negative memset |
| MC_VdfTree_fat32root.cfg | NoUndefinedBehaviour | an empty FAT32 root is written past the range array |
| MC_FatCodec_empty.cfg | FatSectorsMatchChains | FAT16/32 with an empty file: the range walk runs past the array |

## Bounds

- **Nodes.** There are three: the root and two files. That is enough for a directory inside a directory, two siblings, and a move of a directory into its own child.
- **Sizes.**
  - The sizes are 0, 600 and 1600 with `BPC = 512`: an empty file, one cluster, and several clusters.
  - With `Sectors = 12` and `DataStart = 8`, two multi-cluster files do not fit, so recalc fails in both passing tree runs.
- **SizeWrap** is the modulus of `filesz_t`. TLC integers are 32-bit, so it is scaled from 2^32 to 65536, and the wrap arithmetic is the same.
- **Recreates.** The same 12-sector volume with 2-sector clusters, as FAT16 and FAT32, and with 1-sector clusters again. That covers a larger and a smaller cluster size, and the root entering and leaving `all_files`.
- **MaxLock** is 2 for VdfTree (nested locks) and 1 for NbdServer (one transport).
- **ShortNameCheck** has one reproducer, the name "." with tail 10000. It shows both calc_shortname defects in its single initial state.
- **DirList** has five items, enough for a file with a neighbour on each side and for both ends of the list to move.
  - Their names need 0, 1, 2, 2 and 3 VFAT entries (lengths 3, 5, 13, 14, 27). Dirent_per_sector is 2 or 4 instead of 16 to 128, so chains cross sector boundaries at every offset. The read logic depends only on entry counts, not on the sector size.
  - Directories hold up to 15 entries. Reads start at every sector up to 8, one past the last, for 1 or 2 sectors.
- **NbdServer.**
  - Two client slots, `MaxReq = 1` request per connection, all five command kinds, and a start that may fail.
  - Two clients are the least that exposes the shared list, the counter race and the safe iteration of stop.
- **FatCodec.**
  - Sectors of 8 and 16 bytes instead of 512. 8 has the residue of 512 and 2048 modulo 3, where FAT12 entries straddle sectors; 16 has that of 1024 and 4096. Both are multiples of 4, as FAT16 and FAT32 need.
  - Seven layouts from one to four ranges, with chains of 1 to 6 clusters.
  - Every start sector up to one past the FAT, and one to three sectors per read.
- **ReadPath.**
  - 8-byte sectors, one reserved sector, one root sector, 1 or 2 sectors per cluster, and an MBR of 0, 1 or one cluster of sectors.
  - Layouts `<<1,2>>` and `<<2,1,1>>`, so reads cross range boundaries, clusters and the data end. Odd ranges end half way into a sector, even ones one byte into their last cluster, so there are sectors past a file's size.
  - Sector reads from every start up to one past the end, of 1 to 3 sectors. Byte reads from every offset, of 1, 5, 11 and 19 bytes: head only, head and tail, and head, middle and tail.
  - The spec cfg adds FAT12 and one empty file.
- **NbdClient.** All five commands, two pipelined requests per connection (enough for a header followed by the next), a client and one other transport (`Others = {s1}`), which is enough for one transport to be visited after another; three locks (`MaxLock = 3`: both running, plus a lock leaked by a failed start), a start that may fail, a peer that may close, both non-blocking modes, and every exit of `vdf_dump_drive`. The run does not check deadlock. The peer stops after two requests, the lock count is bounded, and the code's WRITE loop never returns.
- **Geometry.** 512-byte sectors, all five flags, explicit clusters of 1, 2 and 4 sectors or automatic ones, 16 or 512 root entries, and aligned or not. The sizes are every one up to 1500 sectors, plus windows around the FAT12/16 cluster limits (4085, 8170) and the FAT16/32 limit (65525, 131050).
- **BootCodec.** The same flags, cluster sizes and root sizes as Geometry, at eight sizes: 684 (the FAT-size defect), 720 and 2880 (floppies), 4300 and 8300 (FAT12 and FAT16 near the 4085 limit), 66000 and 67200 (FAT16 past 65536 sectors, the smallest FAT32), and 140000. There is no label, a short label, one with a space and one of 12 characters. The MBR is absent, one sector or one cluster. The reproducers add 1024-byte sectors.

## Fairness

VdfTree, DirList, DirRead, FatCodec, ReadPath, Geometry, BootCodec and NbdClient check safety only. The library's calls return,
and what the caller does next is the caller's choice.

NbdServer assumes weak fairness of:
- each client thread, because the OS schedules every runnable thread;
- the internal steps of an API call the application thread has started (`ApiInternal`), because `vdf_transport_stop` runs to completion once called.

Nothing is assumed of the application's choice of calls or of the remote peers.
Liveness is stated as `[](ub = "none") => (P ~> Q)`, because after undefined
behaviour the code promises nothing.

## Assumptions and what is not modelled

- **Closing a socket.** A closed server socket makes the thread's pending `sock_read` fail. That is what `closesocket` does on Win32. On Linux `close()` does not wake a blocked `recv`, and `StopCompletes` then relies on the peer (hazard at nbd_server.c:172).
- **Write requests** are assumed to have `len > 0`, so the WRITE loop is entered.
- **`sock_write`** is one step in both NBD modules: it succeeds, or it fails once the peer has closed. Its partial-send bug (vdf_sock.c:48) is the same as `sock_read`'s, which NbdClient models.
- **Not yet modelled:**
  - the boot and MBR sectors inside ReadPath, which gives them labelled bytes; BootCodec checks them on their own, one sector per call;
  - the field encodings of a directory entry (DOS date and time from `gmtime`, the VFAT checksum, UTF-16 characters);
  - short reads and errors of a virtual file's callback or of `read()` in `read_sector_data`;
  - a read of an unlocked or dirty drive. ReadPath reads a clean drive. The readers the library has (client threads, `vdf_dump_drive`) read under their own lock, which `ServingImpliesLocked` and `LockedImpliesClean` check. A caller that reads without a lock is misusing the API;
  - the bytes `dump.c` writes (NbdClient models its locking and exits).

  Each is listed with its reason in PROJECT.json.
- **Compiled out:** the cluster-list readers (`read_sector_fat_clustlist`, `read_sector_data_clustlist`, fat.c:254-377, read_data.c:151-237) sit under `#ifdef ENABLE_CLUSTER_LIST`. Nothing defines that macro, and `read_sector_data_clustlist` would not compile as written. The same holds for the body of `nbdcli_nonblock`, under `#if 0`; `NbdcliNonblock` models it as a call that changes nothing.
- **Left out as output formatting:** byte formatting of entries, timestamps, and socket payloads.
- **Out of scope:** the examples.
