-------------------------------- MODULE Roms --------------------------------
(* The images that a BIOS may be (core/src/roms.c).  Images are told apart  *)
(* by their bytes; a CRC-32 stands for the bytes it was computed from.      *)
EXTENDS Integers, Sequences

CONSTANTS BIOS_SIZE, known_crc   \* the size of a BIOS, the images of a known CRC

Image == Seq(Int)

\* The BIOS is of 8192 bytes; any number but that of what stands for no file.
ASSUME RomsAssumption ==
  /\ BIOS_SIZE \in Nat /\ BIOS_SIZE > 1
  /\ known_crc \subseteq Image
  /\ \A b \in known_crc : Len(b) = BIOS_SIZE

\* take
Wanted(data, guess) == Len(data) = BIOS_SIZE /\ (data \in known_crc \/ guess)
=============================================================================
