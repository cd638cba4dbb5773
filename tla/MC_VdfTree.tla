----------------------------- MODULE MC_VdfTree -----------------------------
(* Instantiation of VdfTree for TLC: a pool of three vdf_file structures   *)
(* besides the root, names of each 8.3 kind, and a data region of four    *)
(* sectors, so that recalc both succeeds and runs out of room.            *)
EXTENDS VdfTree

CONSTANTS r, f1, f2

MCNodes == {r, f1, f2}

\* "ab" (long, 8.3 form AB), "B" (a verbatim 8.3 name), and two names
\* whose 8.3 forms share the base ABCDEFGH and need a numeric tail
MCNames == {<<"a", "b">>, <<"B">>,
            <<"a", "b", "c", "d", "e", "f", "g", "h", "i", "j">>,
            <<"a", "b", "c", "d", "e", "f", "g", "h", "i", "k">>}

MCShortNames == {<<"X">>, <<"a", "b">>}

\* virtual files of no, two and four clusters, a one-cluster real file
MCVirtSizes == {0, 600, 1600}
MCRealSizes == {1}

MCAttrInputs == {{}, {"dir"}}

\* the structural operations, and the ones on attributes of a node
MCTreeOps == {"add", "delete", "move", "rename"}
MCAttrOps == {"add", "shortname", "size", "date", "attr", "label"}

\* "a+" and "a,": both 8.3 forms are A_
MCStuffNames == {<<"a", "+">>, <<"a", ",">>}

\* a name whose 8.3 form is ABCDEF~1, and that 8.3 form as a long name
MCVerbatimNames == {<<"a", "b", "c", "d", "e", "f", "g", "h", "i", "j">>,
                    <<"A", "B", "C", "D", "E", "F", "~", "1">>, <<"x">>}

\* a single name, for runs about the shape of the tree
MCOneName == {<<"x">>}
MCTwoNames == {<<"x">>, <<"t">>}

\* the size one byte short of the filesz_t modulus
MCWrapSizes == {SizeWrap - 1}
\* a backing file of exactly the modulus
MCRealWrap == {SizeWrap}

MCDirAttr == {{}, {"dir"}}

MCAddOnly == {"add"}
MCAddDelete == {"add", "delete"}
MCAddRename == {"add", "rename"}
MCAddAttr == {"add", "attr"}
MCNoOps == {}

\* the two routes to a duplicate short name, and the two routes out of the tree
MCShortNameClash == MCStuffNames \cup MCVerbatimNames

MCAddDeleteMove == {"add", "delete", "move"}

MCStructureOps == {"add", "delete", "move", "attr", "recreate"}

\* vdf_drive_recreate_ext of the same 12-sector volume with two sectors
\* per cluster, as FAT16 and as FAT32, and back to one sector per cluster
Geo(fs, spc) == [fs |-> fs, rootDirCnt |-> 1, bpc |-> 512 * spc, spc |-> spc,
                 dataStart |-> 8, sectors |-> 12]
MCRecreates == {Geo("FAT16", 2), Geo("FAT32", 2), Geo("FAT16", 1)}
MCNoRecreate == {}
MCAddRecreate == {"add", "recreate"}

\* label changes and new files whose strdup may fail
MCLabelNoMem == {"label", "nomem"}
MCAddNoMem == {"add", "nomem"}
=============================================================================
