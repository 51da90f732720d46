------------------------------ MODULE RomPaths ------------------------------
(* What an import of a file, a folder or a zip finds (core/src/roms.c).     *)
EXTENDS Roms, ZipRead
Seqs == INSTANCE SequencesExt

CONSTANTS MAX_DEPTH, MAX_ZIP_DEPTH

RECURSIVE import_zip(_, _)
import_zip(z, zdepth) ==
  LET found(got) == IF got.ok THEN <<got.out>> ELSE <<>>
      image(e) ==
        IF e.kind = "zip" THEN
          IF zdepth < MAX_ZIP_DEPTH /\ parse(e).ok THEN import_zip(e, zdepth + 1) ELSE <<>>
        ELSE IF e.usize = BIOS_SIZE THEN found(zipread_extract(e, BIOS_SIZE)) ELSE <<>>
      es == parse(z).entries
  IN  Seqs!FlattenSeq([i \in 1..Len(es) |-> image(es[i])])

\* A folder is read in any order; a file of the right size is one candidate.
RECURSIVE import_path(_, _)
import_path(p, depth) ==
  CASE p.kind = "dir" ->
         IF depth > MAX_DEPTH THEN {<<>>}
         ELSE {Seqs!FlattenSeq(w) : w \in UNION {
                 {f \in [1..Len(q) -> UNION {import_path(x, depth + 1) : x \in p.of}] :
                    \A i \in 1..Len(q) : f[i] \in import_path(q[i], depth + 1)} :
                 q \in Seqs!SetToSeqs(p.of)}}
    [] p.kind = "zip"  -> {IF parse(p).ok THEN import_zip(p, 0) ELSE <<>>}
    [] p.kind = "file" -> {IF Len(p.bytes) = BIOS_SIZE THEN <<p.bytes>> ELSE <<>>}
=============================================================================
