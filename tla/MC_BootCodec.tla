------------------------------ MODULE MC_BootCodec ------------------------------
(* The boot records of the drives of Geometry's requests, with sectors   *)
(* of 512 and 1024 bytes, no label, a short label, one with a space and   *)
(* one longer than 11 characters, and each MBR mode.                     *)
EXTENDS BootCodec

CONSTANTS MCGarbage, MCNoLabel

MCFsFlags == {"auto", "auto_no32", "FAT12", "FAT16", "FAT32"}
MCSpc == {1, 2, 4}
MCSectors == {684, 720, 2880, 4300, 8300, 66000, 67200, 140000}
MCLabels == {<<"a", "b">>, <<"a", " ", "b">>,
             <<"a", "b", "c", "d", "e", "f", "g", "h", "i", "j", "k", "m">>}
MCShortLabel == {<<"a", "b">>}
MCNone == {}
MCMbrModes == {"none", "one", "pad"}

=============================================================================
