------------------------------- MODULE Hashes -------------------------------
(***************************************************************************)
(* MD5 and SHA-256 (hashes/md5.cpp, hashes/sha256.cpp) and the operations  *)
(* of cHash_Base.  A context is what it has taken: the blocks it has       *)
(* transformed, the bytes of the block it waits to fill, and the count of  *)
(* bytes; the digest transforms the blocks in their order.  Texts are      *)
(* shorter than 2^28 bytes, so that no counter of bits wraps.  TLC's       *)
(* integers are too short for a 32-bit word: a word is its two halves.     *)
(***************************************************************************)
EXTENDS Integers, SequencesExt

Byte == 0 .. 255

\* Bit by bit, once for all the pairs of bytes.  (SubSeq has TLC work out the elements at once.)
RECURSIVE XorBits(_, _), AndBits(_, _)
XorBits(a, b) == IF a = 0 THEN b ELSE 2 * XorBits(a \div 2, b \div 2) + ((a + b) % 2)
AndBits(a, b) == IF a = 0 THEN 0 ELSE 2 * AndBits(a \div 2, b \div 2) + ((a * b) % 2)
XorTable == SubSeq([i \in 1 .. 256 |-> SubSeq([j \in 1 .. 256 |-> XorBits(i - 1, j - 1)], 1, 256)], 1, 256)
AndTable == SubSeq([i \in 1 .. 256 |-> SubSeq([j \in 1 .. 256 |-> AndBits(i - 1, j - 1)], 1, 256)], 1, 256)

XorByte(a, b) == XorTable[a + 1][b + 1]
AndByte(a, b) == AndTable[a + 1][b + 1]
XorBytes(s, t) == SubSeq([i \in DOMAIN s |-> XorByte(s[i], t[i])], 1, Len(s))

-----------------------------------------------------------------------------
XorHalf(a, b) == XorByte(a \div 256, b \div 256) * 256 + XorByte(a % 256, b % 256)
AndHalf(a, b) == AndByte(a \div 256, b \div 256) * 256 + AndByte(a % 256, b % 256)
XorWord(x, y) == <<XorHalf(x[1], y[1]), XorHalf(x[2], y[2])>>
AndWord(x, y) == <<AndHalf(x[1], y[1]), AndHalf(x[2], y[2])>>
NotWord(x) == <<65535 - x[1], 65535 - x[2]>>
OrWord(x, y) == NotWord(AndWord(NotWord(x), NotWord(y)))

\* Addition modulo 2^32.
AddWord(x, y) ==
  LET low == x[2] + y[2] IN <<(x[1] + y[1] + low \div 65536) % 65536, low % 65536>>

\* Shifts by less than 16, and rotations.
ShiftRight(x, n) == <<x[1] \div 2 ^ n, x[2] \div 2 ^ n + (x[1] % 2 ^ n) * 2 ^ (16 - n)>>
RotateRight(x, n) ==
  LET y == IF n < 16 THEN x ELSE <<x[2], x[1]>>
      r == n % 16
  IN  <<y[1] \div 2 ^ r + (y[2] % 2 ^ r) * 2 ^ (16 - r), y[2] \div 2 ^ r + (y[1] % 2 ^ r) * 2 ^ (16 - r)>>
RotateLeft(x, n) == RotateRight(x, 32 - n)

\* The bytes of a word, the most significant one first, and back.
BytesOf(w) == <<w[1] \div 256, w[1] % 256, w[2] \div 256, w[2] % 256>>
WordFrom(b) == <<b[1] * 256 + b[2], b[3] * 256 + b[4]>>

\* Sequences of bytes in blocks of n.
BlocksOf(s, n) == [k \in 1 .. Len(s) \div n |-> SubSeq(s, (k - 1) * n + 1, k * n)]

-----------------------------------------------------------------------------
(* The contexts. *)

HashSize(hid) == IF hid = "MD5" THEN 16 ELSE 32
BlockSize == 64
HashStart == [blocks |-> <<>>, buffer |-> <<>>, count |-> 0]
Zeros(n) == [i \in 1 .. n |-> 0]

\* MD5Update: the buffer first, when the input fills it, then block by block out of the input.
MD5Update(ctx, input) ==
  LET partLen == BlockSize - (ctx.count % BlockSize)
      first == Len(input) >= partLen
      i == IF first THEN partLen + BlockSize * ((Len(input) - partLen) \div BlockSize) ELSE 0
  IN  [blocks |-> ctx.blocks \o
         IF first THEN <<ctx.buffer \o SubSeq(input, 1, partLen)>> \o BlocksOf(SubSeq(input, partLen + 1, i), BlockSize)
                  ELSE <<>>,
       buffer |-> (IF first THEN <<>> ELSE ctx.buffer) \o SubSeq(input, i + 1, Len(input)),
       count  |-> ctx.count + Len(input)]

\* MD5Final: one bit and zeros up to 56 of 64, then the count of bits, its low byte first.
LengthBytes(n) == BytesOf(<<(8 * n) \div 65536, (8 * n) % 65536>>)
PadLen(index) == IF index < 56 THEN 56 - index ELSE 120 - index
MD5Final(ctx) ==
  MD5Update(MD5Update(ctx, <<128>> \o Zeros(PadLen(ctx.count % BlockSize) - 1)),
            Reverse(LengthBytes(ctx.count)) \o Zeros(4))

\* cHash_Sha256: m_len is the length of the buffer, m_tot_len counts the bytes of the blocks.
Sha256Calc(ctx, input) ==
  LET rem_len == IF Len(input) < BlockSize - Len(ctx.buffer) THEN Len(input) ELSE BlockSize - Len(ctx.buffer)
      block_nb == (Len(input) - rem_len) \div BlockSize
      shifted == SubSeq(input, rem_len + 1, Len(input))
      filled == ctx.buffer \o SubSeq(input, 1, rem_len)
  IN  IF Len(ctx.buffer) + Len(input) < BlockSize THEN [ctx EXCEPT !.buffer = filled]
      ELSE [blocks |-> Append(ctx.blocks, filled) \o BlocksOf(SubSeq(shifted, 1, BlockSize * block_nb), BlockSize),
            buffer |-> SubSeq(shifted, BlockSize * block_nb + 1, Len(shifted)),
            count  |-> ctx.count + BlockSize * (block_nb + 1)]

Sha256End(ctx) ==
  LET m_len == Len(ctx.buffer)
      block_nb == IF BlockSize - 9 < m_len THEN 2 ELSE 1
  IN  [ctx EXCEPT !.blocks = @ \o BlocksOf(ctx.buffer \o <<128>> \o Zeros(BlockSize * block_nb - 5 - m_len)
                                             \o LengthBytes(ctx.count + m_len), BlockSize)]

-----------------------------------------------------------------------------
(* The transformations of one block. *)

WordsOf(s) == [k \in 1 .. Len(s) \div 4 |-> WordFrom(SubSeq(s, 4 * k - 3, 4 * k))]
Sum4(a, b, c, d) == AddWord(AddWord(a, b), AddWord(c, d))
AddEach(s, t) == [i \in DOMAIN s |-> AddWord(s[i], t[i])]

MD5State == <<<<26437, 8961>>, <<61389, 43913>>, <<39098, 56574>>, <<4146, 21622>>>>
MD5Mix(r, x, y, z) ==
  CASE r = 0 -> OrWord(AndWord(x, y), AndWord(NotWord(x), z))
    [] r = 1 -> OrWord(AndWord(x, z), AndWord(y, NotWord(z)))
    [] r = 2 -> XorWord(XorWord(x, y), z)
    [] r = 3 -> XorWord(y, OrWord(x, NotWord(z)))
MD5Takes(r, k) == CASE r = 0 -> k [] r = 1 -> (5 * k + 1) % 16 [] r = 2 -> (3 * k + 5) % 16 [] r = 3 -> (7 * k) % 16
MD5Shifts == <<<<7, 12, 17, 22>>, <<5, 9, 14, 20>>, <<4, 11, 16, 23>>, <<6, 10, 15, 21>>>>
MD5Sines ==
  <<<<55146, 42104>>, <<59591, 46934>>, <<9248, 28891>>, <<49597, 52974>>, <<62844, 4015>>, <<18311, 50730>>, <<43056, 17939>>, <<64838, 38145>>,
    <<27008, 39128>>, <<35652, 63407>>, <<65535, 23473>>, <<35164, 55230>>, <<27536, 4386>>, <<64920, 29075>>, <<42617, 17294>>, <<18868, 2081>>,
    <<63006, 9570>>, <<49216, 45888>>, <<9822, 23121>>, <<59830, 51114>>, <<54831, 4189>>, <<580, 5203>>, <<55457, 59009>>, <<59347, 64456>>,
    <<8673, 52710>>, <<49975, 2006>>, <<62677, 3463>>, <<17754, 5357>>, <<43491, 59653>>, <<64751, 41976>>, <<26479, 729>>, <<36138, 19594>>,
    <<65530, 14658>>, <<34673, 63105>>, <<28061, 24866>>, <<64997, 14348>>, <<42174, 59972>>, <<19422, 53161>>, <<63163, 19296>>, <<48831, 48240>>,
    <<10395, 32454>>, <<60065, 10234>>, <<54511, 12421>>, <<1160, 7429>>, <<55764, 53305>>, <<59099, 39397>>, <<8098, 31992>>, <<50348, 22117>>,
    <<62505, 8772>>, <<17194, 65431>>, <<43924, 9127>>, <<64659, 41017>>, <<25947, 22979>>, <<36620, 52370>>, <<65519, 62589>>, <<34180, 24017>>,
    <<28584, 32335>>, <<65068, 59104>>, <<41729, 17172>>, <<19976, 4513>>, <<63315, 32386>>, <<48442, 62005>>, <<10967, 53947>>, <<60294, 54161>>>>

\* One line of the rounds, and the names of the four words turned for the next one.
MD5Turn(s, a, shift) == <<s[4], AddWord(RotateLeft(a, shift), s[2]), s[2], s[3]>>
MD5Line(x, s, i) ==
  LET r == (i - 1) \div 16
      k == (i - 1) % 16
  IN  MD5Turn(s, Sum4(s[1], MD5Mix(r, s[2], s[3], s[4]), x[MD5Takes(r, k) + 1], MD5Sines[i]),
              MD5Shifts[r + 1][(k % 4) + 1])
DecodeMD5(block) == [k \in 1 .. 16 |-> WordFrom(Reverse(SubSeq(block, 4 * k - 3, 4 * k)))]
RECURSIVE MD5Lines(_, _)
MD5Lines(x, states) ==
  IF Len(states) > 64 THEN Last(states) ELSE MD5Lines(x, Append(states, MD5Line(x, Last(states), Len(states))))
MD5Transform(state, block) == AddEach(state, MD5Lines(DecodeMD5(block), <<state>>))

Sha256State == <<<<27145, 58983>>, <<47975, 44677>>, <<15470, 62322>>, <<42319, 62778>>,
                 <<20750, 21119>>, <<39685, 26764>>, <<8067, 55723>>, <<23520, 52505>>>>
Sha256K ==
  <<<<17034, 12184>>, <<28983, 17553>>, <<46528, 64463>>, <<59829, 56229>>, <<14678, 49755>>, <<23025, 4593>>, <<37439, 33444>>, <<43804, 24277>>,
    <<55303, 43672>>, <<4739, 23297>>, <<9265, 34238>>, <<21772, 32195>>, <<29374, 23924>>, <<32990, 45566>>, <<39900, 1703>>, <<49563, 61812>>,
    <<58523, 27073>>, <<61374, 18310>>, <<4033, 40390>>, <<9228, 41420>>, <<11753, 11375>>, <<19060, 33962>>, <<23728, 43484>>, <<30457, 35034>>,
    <<38974, 20818>>, <<43057, 50797>>, <<45059, 10184>>, <<48985, 32711>>, <<50912, 3059>>, <<54695, 37191>>, <<1738, 25425>>, <<5161, 10599>>,
    <<10167, 2693>>, <<11803, 8504>>, <<19756, 28156>>, <<21304, 3347>>, <<25866, 29524>>, <<30314, 2747>>, <<33218, 51502>>, <<37490, 11397>>,
    <<41663, 59553>>, <<43034, 26187>>, <<49739, 35696>>, <<51052, 20899>>, <<53650, 59417>>, <<54937, 1572>>, <<62478, 13701>>, <<4202, 41072>>,
    <<6564, 49430>>, <<7735, 27656>>, <<10056, 30540>>, <<13488, 48309>>, <<14620, 3251>>, <<20184, 43594>>, <<23452, 51791>>, <<26670, 28659>>,
    <<29839, 33518>>, <<30885, 25455>>, <<33992, 30740>>, <<36039, 520>>, <<37054, 65530>>, <<42064, 27883>>, <<48889, 41975>>, <<50801, 30962>>>>
Sha256Far(x, a, b, c) == XorWord(XorWord(RotateRight(x, a), RotateRight(x, b)), c)
Sha256F1(x) == Sha256Far(x, 2, 13, RotateRight(x, 22))
Sha256F2(x) == Sha256Far(x, 6, 11, RotateRight(x, 25))
Sha256F3(x) == Sha256Far(x, 7, 18, ShiftRight(x, 3))
Sha256F4(x) == Sha256Far(x, 17, 19, ShiftRight(x, 10))
Sha256Ch(x, y, z) == XorWord(AndWord(x, y), AndWord(NotWord(x), z))
Sha256Maj(x, y, z) == XorWord(XorWord(AndWord(x, y), AndWord(x, z)), AndWord(y, z))

RECURSIVE Sha256Schedule(_)
Sha256Schedule(w) ==
  LET j == Len(w) - 15
  IN  IF j > 48 THEN w
      ELSE Sha256Schedule(Append(w, Sum4(Sha256F4(w[j + 14]), w[j + 9], Sha256F3(w[j + 1]), w[j])))
Sha256Turn(v, t1, t2) == <<AddWord(t1, t2), v[1], v[2], v[3], AddWord(v[4], t1), v[5], v[6], v[7]>>
Sha256Line(w, v, j) ==
  Sha256Turn(v, AddWord(v[8], Sum4(Sha256F2(v[5]), Sha256Ch(v[5], v[6], v[7]), Sha256K[j], w[j])),
             AddWord(Sha256F1(v[1]), Sha256Maj(v[1], v[2], v[3])))
RECURSIVE Sha256Lines(_, _)
Sha256Lines(w, states) ==
  IF Len(states) > 64 THEN Last(states) ELSE Sha256Lines(w, Append(states, Sha256Line(w, Last(states), Len(states))))
Sha256Transform(state, block) == AddEach(state, Sha256Lines(Sha256Schedule(WordsOf(block)), <<state>>))

-----------------------------------------------------------------------------
(* cHash_Base: start, calc for each part of a text, end. *)

HashCalc(hid, ctx, part) == IF hid = "MD5" THEN MD5Update(ctx, part) ELSE Sha256Calc(ctx, part)
HashEnd(hid, ctx) == IF hid = "MD5" THEN MD5Final(ctx) ELSE Sha256End(ctx)
Blocks(hid, parts) == HashEnd(hid, FoldLeft(LAMBDA ctx, p : HashCalc(hid, ctx, p), HashStart, parts)).blocks
EncodeMD5(state) == FlattenSeq([i \in DOMAIN state |-> Reverse(BytesOf(state[i]))])
EncodeSha256(state) == FlattenSeq([i \in DOMAIN state |-> BytesOf(state[i])])
RECURSIVE Transformed(_, _, _)
Transformed(hid, state, blocks) ==
  IF blocks = <<>> THEN state
  ELSE Transformed(hid, IF hid = "MD5" THEN MD5Transform(state, Head(blocks)) ELSE Sha256Transform(state, Head(blocks)),
                   Tail(blocks))
Digest(hid, state) == IF hid = "MD5" THEN EncodeMD5(state) ELSE EncodeSha256(state)
CalcHash(hid, d) == Digest(hid, Transformed(hid, IF hid = "MD5" THEN MD5State ELSE Sha256State, Blocks(hid, <<d>>)))

\* CalcN hashes what it has count times; CalcNOut once more than it is asked to.
RECURSIVE CalcN(_, _, _)
CalcN(hid, d, count) == IF count = 0 THEN d ELSE CalcN(hid, CalcHash(hid, d), count - 1)
CalcNOut(hid, d, cnt) == CalcN(hid, CalcHash(hid, d), cnt)

\* CalcGenSize appends the hash of all it has until that is long enough.
RECURSIVE Lengthened(_, _, _)
Lengthened(hid, r, finsize) ==
  IF Len(r) >= finsize THEN SubSeq(r, 1, finsize) ELSE Lengthened(hid, r \o CalcHash(hid, r), finsize)
CalcGenSize(hid, d, finsize) == Lengthened(hid, CalcHash(hid, d), finsize)

\* makeNhash writes the hashes behind one another into a result longer than one of them, from the
\* start again at its end; a shorter result gets the beginning of each.  Bytes it never writes
\* are Unwritten.
Unwritten == 256
WriteHash(res, r, at) ==
  IF Len(res) <= Len(r) THEN SubSeq(r, 1, Len(res))
  ELSE [k \in DOMAIN res |-> LET j == (k - 1 - at) % Len(res) IN IF j < Len(r) THEN r[j + 1] ELSE res[k]]
RECURSIVE WriteHashes(_, _, _, _, _)
WriteHashes(hid, res, r, at, count) ==
  IF count = 0 THEN res
  ELSE WriteHashes(hid, WriteHash(res, r, at), CalcHash(hid, r), at + Len(r), count - 1)
makeNhash(hid, indata, szout, count) ==
  WriteHashes(hid, [k \in 1 .. szout |-> Unwritten], CalcHash(hid, indata), 0, count)

-----------------------------------------------------------------------------
(* A digest is the published one of the text, however the calls of calc cut it. *)

PaddedBlocks(hid, text) ==
  LET n == Len(text)
      zeros == (BlockSize + 55 - (n % BlockSize)) % BlockSize
      bits == Zeros(4) \o LengthBytes(n)
  IN  BlocksOf(text \o <<128>> \o Zeros(zeros) \o (IF hid = "MD5" THEN Reverse(bits) ELSE bits), BlockSize)
DigestIgnoresCuts(hid, parts) == Blocks(hid, parts) = PaddedBlocks(hid, FlattenSeq(parts))
DigestIsPublished(hid, text, digest) == CalcHash(hid, text) = digest

\* The repeated hashes are made of one another.
LastWritten(all, size, k) ==
  LET writes == {i \in 1 .. Len(all) : (i - k) % size = 0}
  IN  IF writes = {} THEN Unwritten ELSE all[Max(writes)]
MadeOfHashes(made, hashes, long) ==
  made = IF long THEN [k \in DOMAIN made |-> LastWritten(FlattenSeq(hashes), Len(made), k)]
                 ELSE SubSeq(Last(hashes), 1, Len(made))
HashesAreStretched(hid, d, n, size) ==
  /\ CalcNOut(hid, d, n) = CalcN(hid, d, n + 1)
  /\ Len(CalcGenSize(hid, d, size)) = size
  /\ n > 0 => MadeOfHashes(makeNhash(hid, d, size, n), [i \in 1 .. n |-> CalcN(hid, d, i)], size > HashSize(hid))
=============================================================================
