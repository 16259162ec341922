----------------------------- MODULE MCBiosDisk -----------------------------
(* Instances of the disk device with the BIOS for TLC. *)
EXTENDS BiosDisk

FileLbas == {Headers, File}
AskedLbas == FileLbas \cup {3}     \* what is past the end of the image
GoodAddrs == {1}
AskedAddrs == {1, 2}              \* a transfer to 2 is refused
Contents == {1, 2}
Elf == {1}                        \* contents 2 fail validation
AnyCommand == {NONE, READ, WRITE, 3}
=============================================================================
