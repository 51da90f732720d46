\* One program of either build, with and without a BIOS of its own; any call on
\* the disk may fail, but a write of the settings.
CONSTANTS
  Key = {k1, k2}
  Val = {v1}
  Absent = Absent
  App = {a}
  Failures = {"open", "rename"}
  DirFailures = {"stat", "open", "write", "rename"}
  Builds = {TRUE, FALSE}
  MaxSets = 3
  MAXBITS = 3
  Bytes = 2
  lens <- MClens
  lext <- MClext
  dists <- MCdists
  dext <- MCdext
  fixed_len <- MCfixed_len
  fixed_dist <- MCfixed_dist
  BIOS_SIZE = 5
  known_crc <- MCknown_crc
  coleco_embedded_bios <- MCembedded
  MAX_DEPTH = 1
  MAX_ZIP_DEPTH = 1
  Found <- MCFound
  Extracted <- MCExtracted
  Chosen <- MCChosen
  Packed <- MCPacked
  Dropped <- MCDropped
SPECIFICATION DirSpec
INVARIANTS
  CleanIsSaved
  ResultIsTrue
  OnlyNamedFilesGuessed
  PackedImageIsFound
PROPERTIES
  BiosStays
  IsAStore
