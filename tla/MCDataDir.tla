----------------------------- MODULE MCDataDir -----------------------------
(* An instance of DataDir: a BIOS of five bytes of two values, codes of up *)
(* to three bits, matches of 2 to 4 bytes 1 to 3 bytes back.               *)
EXTENDS DataDir, RomPaths

MClens == <<2, 3>>   MClext == <<0, 1>>
MCdists == <<1, 2>>  MCdext == <<0, 1>>

\* A fixed code with a symbol, the last, that no length belongs to.
MCfixed_len == [x \in 0..5 |-> IF x < 2 THEN 2 ELSE 3]
MCfixed_dist == [x \in 0..1 |-> 1]

BiosA == <<0, 1, 0, 1, 0>>
BiosB == <<0, 0, 0, 0, 1>>
Odd   == <<1, 1, 1, 1, 1>>     \* of the right size and an unknown CRC
Cart  == <<1, 0>>
MCknown_crc == {BiosA, BiosB}
MCembedded == BiosA

-----------------------------------------------------------------------------
\* Every way to write an image in at most four tokens, with every complete code
\* for its symbols, packed as a fixed, a dynamic, or a stored and a dynamic
\* block; whole, cut short, or of another size than the directory says.

Token == [byte : 0..1, len : {1}, lx : {0}, dist : {1}, dx : {0}]
           \cup {t \in [byte : {-1}, len : 1..2, lx : 0..1, dist : 1..2, dx : 0..1] :
                   t.lx < 2^MClext[t.len] /\ t.dx < 2^MCdext[t.dist]}
Writings(img) == {ts \in UNION {[1..n -> Token] : n \in 1..4} : ts[1].byte # -1 /\ Means(ts, img)}

LitCodes  == {ll \in [0..4 -> 0..3] : Left(Count(ll)) = 0 /\ ll[EndOfBlock] # 0}
DistCodes == {[x \in 0..1 |-> IF x = 0 THEN 1 ELSE 1], [x \in 0..1 |-> IF x = 0 THEN 1 ELSE 0],
              [x \in 0..1 |-> IF x = 0 THEN 0 ELSE 1]}
Fits(ts, ll, dl) ==
  \A i \in 1..Len(ts) : IF ts[i].byte # -1 THEN ll[ts[i].byte] # 0
                        ELSE ll[EndOfBlock + ts[i].len] # 0 /\ dl[ts[i].dist - 1] # 0

\* The lengths of a code, with a run where the last two are equal.
Runs(ll, dl) ==
  LET all == [i \in 1..7 |-> IF i <= 5 THEN ll[i - 1] ELSE dl[i - 6]]
  IN  [i \in 1..7 |-> [of |-> IF i = 7 /\ all[7] = all[6] THEN -1 ELSE all[i], n |-> 1]]

Dynamic(ts, ll, dl) ==
  [last |-> TRUE, type |-> 2, nlen |-> 5, ndist |-> 2, runs |-> Runs(ll, dl), len |-> 0,
   bytes |-> <<>>, bits |-> Pack(ts, ll, dl)]
Fixed(ts) == [Dynamic(ts, MCfixed_len, MCfixed_dist) EXCEPT !.type = 1]
Stored(s) == [last |-> FALSE, type |-> 0, nlen |-> 0, ndist |-> 0, runs |-> <<>>,
              len |-> Len(s), bytes |-> s, bits |-> <<>>]

Entry(img, blocks) ==
  [kind |-> "file", torn |-> FALSE, encrypted |-> FALSE, local |-> TRUE, method |-> 8,
   usize |-> Len(img), csize |-> 1, crc |-> img, bytes |-> <<>>, blocks |-> blocks,
   whole |-> TRUE]
Deflated(img) ==
  {Entry(img, <<Fixed(ts)>>) : ts \in Writings(img)}
  \cup UNION {{Entry(img, b) : b \in {<<Dynamic(c[1], c[2], c[3])>>,
                                     <<Stored(<<c[1][1].byte>>), Dynamic(Tail(c[1]), c[2], c[3])>>}} :
                c \in {d \in Writings(img) \X LitCodes \X DistCodes : Fits(d[1], d[2], d[3])}}

\* Cut short by a bit, or a block; longer or shorter than the directory says;
\* another image than the CRC's.
Broken(e) ==
  LET n == Len(e.blocks)
      b == [e.blocks[n] EXCEPT !.bits = SubSeq(@, 1, Len(@) - 1)]
  IN  {[x EXCEPT !.whole = FALSE] :
         x \in {[e EXCEPT !.blocks = [@ EXCEPT ![n] = b]],
                [e EXCEPT !.blocks = SubSeq(@, 1, n - 1)],
                [e EXCEPT !.usize = @ - 1], [e EXCEPT !.usize = @ + 1],
                [e EXCEPT !.crc = BiosB], [e EXCEPT !.encrypted = TRUE]}}
MCPacked == Deflated(BiosA) \cup Deflated(BiosB)
              \cup UNION {Broken(e) : e \in {Entry(BiosA, <<Fixed(ts)>>) : ts \in Writings(BiosA)}}

MCFound(p) == import_path(p, 0)
MCExtracted(e) == zipread_extract(e, BIOS_SIZE)

-----------------------------------------------------------------------------
File(b) == [kind |-> "file", bytes |-> b]
Plain(b) == [Entry(b, <<>>) EXCEPT !.method = 0, !.bytes = b, !.csize = Len(b)]
Zip(es) == [kind |-> "zip", head |-> TRUE, eocd |-> TRUE, zip64 |-> FALSE, torn |-> FALSE,
            entries |-> es]
Dir(of) == [kind |-> "dir", of |-> of]

MCChosen ==
  {<<File(BiosA)>>, <<File(Odd)>>, <<File(Cart)>>,
   <<Zip(<<Plain(Odd), Zip(<<Plain(BiosA)>>), Plain(BiosB)>>)>>,
   <<Zip(<<[Plain(BiosA) EXCEPT !.torn = TRUE], Plain(BiosB)>>)>>,
   <<Dir({File(Odd), File(BiosA), Dir({File(BiosB)})})>>,
   <<Dir({Dir({Dir({File(BiosA)})})})>>,
   <<File(Odd), File(BiosB)>>}

Drop(p, ext, from) == [kind |-> p.kind, bytes |-> p.bytes, ext |-> ext, from |-> from]
MCDropped == {Drop(File(BiosA), "cart", "away"), Drop(File(Odd), "cart", "away"),
              Drop(File(Cart), "disk", "away"), Drop(File(Cart), "cart", "carts"),
              Drop(File(Cart), "other", "away")}
=============================================================================
