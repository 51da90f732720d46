------------------------------ MODULE ZipRead ------------------------------
(***************************************************************************)
(* The zip reader (core/src/zipread.c): the canonical Huffman codes, the   *)
(* DEFLATE decoder and the container, as operators.  The tables of lengths *)
(* and distances, the alphabet and the longest code are parameters.  A     *)
(* compressed stream is a sequence of blocks with their bits; the layout   *)
(* of bits in bytes is left out.  A CRC-32 stands for the bytes it was     *)
(* computed from.                                                          *)
(***************************************************************************)
EXTENDS Integers, Sequences, FiniteSets
LOCAL INSTANCE SequencesExt

CONSTANTS
  MAXBITS,          \* the longest code
  Bytes,            \* how many byte values there are, from 0
  lens, lext,       \* base and extra bits of each length symbol
  dists, dext,      \* base and extra bits of each distance symbol
  fixed_len, fixed_dist  \* the code lengths of a fixed block

EndOfBlock == Bytes   \* 256

\* struct inflate_state, with the value the last read returned and the error
\* that ended the decoding, 0 for none.
State(bits, out) == [in |-> bits, pos |-> 0, eof |-> FALSE, out |-> out, val |-> 0, err |-> 0]
Fail(s, code) == [s EXCEPT !.err = code, !.val = -1]

\* Least significant bit first; past the end the reader stays at the end.
get_bits(s, need) ==
  IF s.eof \/ s.pos + need > Len(s.in) THEN [s EXCEPT !.eof = TRUE, !.val = 0]
  ELSE [s EXCEPT !.pos = @ + need,
                 !.val = FoldLeft(LAMBDA v, i : v + s.in[s.pos + i] * 2^(i - 1),
                                  0, [i \in 1..need |-> i])]

\* The number of codes of each length, and what is left of the code space.
Count(length) == [l \in 0..MAXBITS |-> Cardinality({x \in DOMAIN length : length[x] = l})]
Left(count) ==
  LET left[l \in 0..MAXBITS] == IF l = 0 THEN 1 ELSE 2 * left[l - 1] - count[l]
  IN  IF count[0] = FoldLeft(+, 0, [l \in 1..MAXBITS + 1 |-> count[l - 1]]) THEN 0
      ELSE IF \E l \in 1..MAXBITS : left[l] < 0 THEN -1
      ELSE left[MAXBITS]

Symbols_BySymbol(length) == SetToSortSeq({x \in DOMAIN length : length[x] # 0}, <)

\* The symbols in code order: by length, and by symbol within a length.
Symbols(length) ==
  SetToSortSeq({x \in DOMAIN length : length[x] # 0},
               LAMBDA x, y : length[x] < length[y] \/ (length[x] = length[y] /\ x < y))
construct(length) ==
  [count |-> Count(length), symbol |-> Symbols(length), left |-> Left(Count(length))]

\* The first of the codes of a length, and how many symbols are shorter, go
\* along; a bit more is read until the code is one of those of its length.
RECURSIVE Walk(_, _, _, _, _, _)
WithBit(t, h, len, code, first, index) ==
  IF t.eof THEN Fail(t, -1)
  ELSE IF code - h.count[len] < first THEN [t EXCEPT !.val = h.symbol[index + (code - first) + 1]]
  ELSE IF len = MAXBITS THEN Fail(t, -10)
  ELSE Walk(t, h, len + 1, 2 * code, 2 * (first + h.count[len]), index + h.count[len])
Walk(s, h, len, code, first, index) ==
  LET t == get_bits(s, 1) IN WithBit(t, h, len, code + t.val, first, index)
decode_symbol(s, h) == Walk(s, h, 1, 0, 0, 0)

Repeat_Once(out, dist, len) ==
  out \o [i \in 1..len |-> out[Len(out) - dist + (IF i > dist THEN dist ELSE i)]]

\* A copy of what was put out, a byte at a time, its own bytes included.
Repeat(out, dist, len) == out \o [i \in 1..len |-> out[Len(out) - dist + 1 + ((i - 1) % dist)]]

RECURSIVE codes_block(_, _, _, _)

\* A match, once everything that says which it is was read.
Match(s, len, dist, lencode, distcode, outlen) ==
  IF s.eof THEN Fail(s, -1)
  ELSE IF dist > Len(s.out) THEN Fail(s, -11)
  ELSE IF Len(s.out) + len > outlen THEN Fail(s, 1)
  ELSE codes_block([s EXCEPT !.out = Repeat(@, dist, len)], lencode, distcode, outlen)

WithDistance(s, len, lencode, distcode, outlen) ==
  IF s.err # 0 THEN s
  ELSE LET x == get_bits(s, dext[s.val + 1])
       IN  Match(x, len, dists[s.val + 1] + x.val, lencode, distcode, outlen)

WithLength(s, base, lencode, distcode, outlen) ==
  WithDistance(decode_symbol(s, distcode), base + s.val, lencode, distcode, outlen)

\* A literal, the end of the block, or a length.
WithSymbol(s, lencode, distcode, outlen) ==
  LET k == s.val - EndOfBlock
  IN  IF s.err # 0 \/ s.val = EndOfBlock THEN s
      ELSE IF s.val < EndOfBlock THEN
             IF Len(s.out) = outlen THEN Fail(s, 1)
             ELSE codes_block([s EXCEPT !.out = Append(@, s.val)], lencode, distcode, outlen)
      ELSE IF k > Len(lens) THEN Fail(s, -10)
      ELSE WithLength(get_bits(s, lext[k]), lens[k], lencode, distcode, outlen)

codes_block(s, lencode, distcode, outlen) ==
  WithSymbol(decode_symbol(s, lencode), lencode, distcode, outlen)

stored_block(b, out, outlen) ==
  LET s == State(<<>>, out)
  IN  IF b.len # Len(b.bytes) THEN Fail(s, -2)
      ELSE IF Len(out) + b.len > outlen THEN Fail(s, 1)
      ELSE [s EXCEPT !.out = out \o b.bytes]

fixed_block(b, out, outlen) ==
  codes_block(State(b.bits, out), construct(fixed_len), construct(fixed_dist), outlen)

\* The code lengths a dynamic block carries, in runs of a length or, as -1, of
\* the last length, which may not come first.
Lengths(runs) ==
  FoldLeft(LAMBDA ls, r :
             IF ls = <<-1>> \/ (r.of = -1 /\ ls = <<>>) THEN <<-1>>
             ELSE ls \o [i \in 1..r.n |-> IF r.of = -1 THEN ls[Len(ls)] ELSE r.of],
           <<>>, runs)

\* A code may be incomplete when it is one code of one bit.
Usable(h, n) == h.left = 0 \/ (h.left > 0 /\ n = h.count[0] + h.count[1])

\* The two codes of a dynamic block.
Coded(b, ls, lencode, distcode, s, outlen) ==
  IF ls[EndOfBlock + 1] = 0 THEN Fail(s, -9)
  ELSE IF ~Usable(lencode, b.nlen) THEN Fail(s, -7)
  ELSE IF ~Usable(distcode, b.ndist) THEN Fail(s, -8)
  ELSE codes_block(s, lencode, distcode, outlen)

WithLengths(b, ls, s, outlen) ==
  IF b.nlen > EndOfBlock + 1 + Len(lens) \/ b.ndist > Len(dists) THEN Fail(s, -3)
  ELSE IF ls = <<-1>> THEN Fail(s, -5)
  ELSE IF Len(ls) # b.nlen + b.ndist THEN Fail(s, -6)
  ELSE Coded(b, ls, construct([x \in 0..(b.nlen - 1) |-> ls[x + 1]]),
             construct([x \in 0..(b.ndist - 1) |-> ls[b.nlen + x + 1]]), s, outlen)

dynamic_block(b, out, outlen) == WithLengths(b, Lengths(b.runs), State(b.bits, out), outlen)

\* The blocks up to the last, each behind the output so far; what comes out
\* must be exactly the size the directory states.
Inflated(s, blocks, outsize) ==
  [ok |-> s.err = 0 /\ blocks # <<>> /\ blocks[Len(blocks)].last /\ Len(s.out) = outsize,
   out |-> s.out]
zipread_inflate(blocks, outsize) ==
  LET blk(b, out) == CASE b.type = 0 -> stored_block(b, out, outsize)
                       [] b.type = 1 -> fixed_block(b, out, outsize)
                       [] b.type = 2 -> dynamic_block(b, out, outsize)
                       [] OTHER -> Fail(State(<<>>, out), -1)
  IN  Inflated(FoldLeft(LAMBDA s, b : IF s.err # 0 THEN s ELSE blk(b, s.out),
                        State(<<>>, <<>>), blocks),
               blocks, outsize)

-----------------------------------------------------------------------------
\* The container: the entries of the directory up to the first that is damaged.
parse(z) ==
  LET bad == {i \in 1..Len(z.entries) : z.entries[i].torn}
      n == IF bad = {} THEN Len(z.entries) ELSE (CHOOSE i \in bad : \A j \in bad : i <= j) - 1
  IN  [ok |-> z.head /\ z.eocd /\ ~z.zip64, entries |-> SubSeq(z.entries, 1, n)]

Checked(got, crc) == [got EXCEPT !.ok = @ /\ got.out = crc]
zipread_extract(e, max) ==
  IF e.encrypted \/ e.usize > max \/ e.method \notin {0, 8} \/ ~e.local
  THEN [ok |-> FALSE, out |-> <<>>]
  ELSE Checked(IF e.method = 0 THEN [ok |-> e.csize = e.usize, out |-> e.bytes]
               ELSE zipread_inflate(e.blocks, e.usize), e.crc)

-----------------------------------------------------------------------------
(* What DEFLATE is, apart from the decoder.                                *)

\* The code of a symbol: the code space the symbols before it take.
CodeOf(length, x) ==
  LET before == {y \in DOMAIN length : /\ length[y] # 0
                                       /\ length[y] < length[x] \/ (length[y] = length[x] /\ y < x)}
  IN  FoldLeft(LAMBDA v, y : v + 2^(length[x] - length[y]), 0, SetToSeq(before))
CodeBits(length, x) ==
  [i \in 1..length[x] |-> (CodeOf(length, x) \div 2^(length[x] - i)) % 2]
Bits(v, n) == [i \in 1..n |-> (v \div 2^(i - 1)) % 2]

\* A token is a byte, or a length and a distance symbol with their extra bits.
TokenBits(tk, ll, dl) ==
  IF tk.byte # -1 THEN CodeBits(ll, tk.byte)
  ELSE CodeBits(ll, EndOfBlock + tk.len) \o Bits(tk.lx, lext[tk.len])
         \o CodeBits(dl, tk.dist - 1) \o Bits(tk.dx, dext[tk.dist])
Pack(tokens, ll, dl) ==
  FlattenSeq([i \in 1..Len(tokens) |-> TokenBits(tokens[i], ll, dl)]) \o CodeBits(ll, EndOfBlock)

\* Each byte of a match is the one "dist" before it; FALSE for a distance that
\* reaches before the start.
Means(tokens, out) ==
  LET starts[i \in 1..Len(tokens) + 1] ==
        IF i = 1 THEN 0
        ELSE starts[i - 1] + (IF tokens[i - 1].byte # -1 THEN 1
                              ELSE lens[tokens[i - 1].len] + tokens[i - 1].lx)
  IN  /\ Len(out) = starts[Len(tokens) + 1]
      /\ \A i \in 1..Len(tokens) :
           LET tk == tokens[i] dist == dists[tk.dist] + tk.dx
           IN  IF tk.byte # -1 THEN out[starts[i] + 1] = tk.byte
               ELSE \A p \in (starts[i] + 1)..starts[i + 1] :
                      p - dist >= 1 /\ out[p] = out[p - dist]
=============================================================================
