------------------------------ MODULE Ciphers ------------------------------
(***************************************************************************)
(* The block cipher of cipher/aes_inc.hpp; the ciphers of                  *)
(* cipher/blockCipher.cpp around it: keys, methods, initialization         *)
(* vectors, and the calls full_encode makes or a user makes one by one;    *)
(* and the transposition of cipher/chipher_transposition.cpp.              *)
(*                                                                         *)
(* A state is the sixteen bytes of a block, column by column.  The tables  *)
(* of the file are given by what they hold: the S-box by the inverse in    *)
(* GF(2^8) and its affine map, rsbox as the inverse of sbox, Rcon as the   *)
(* powers of two.                                                          *)
(***************************************************************************)
EXTENDS Hashes

xtime(x) == IF x < 128 THEN 2 * x ELSE XorByte(2 * x - 256, 27)
RECURSIVE Multiply(_, _)
Multiply(x, y) == IF y = 0 THEN 0 ELSE XorByte((y % 2) * x, Multiply(xtime(x), y \div 2))

GfInverse(x) == IF x = 0 THEN 0 ELSE CHOOSE y \in Byte : Multiply(x, y) = 1
RotateByte(b, n) == ((b * 2 ^ n) % 256) + b \div 2 ^ (8 - n)
AffineMap(b) ==
  XorByte(XorByte(99, XorByte(b, RotateByte(b, 1))), XorByte(RotateByte(b, 2), XorByte(RotateByte(b, 3), RotateByte(b, 4))))
sbox == SubSeq([i \in 1 .. 256 |-> AffineMap(GfInverse(i - 1))], 1, 256)
rsbox == SubSeq([i \in 1 .. 256 |-> CHOOSE x \in Byte : sbox[x + 1] = i - 1], 1, 256)
Rcon == <<1, 2, 4, 8, 16, 32, 64, 128, 27, 54>>

-----------------------------------------------------------------------------
SubBytes(s) == [k \in DOMAIN s |-> sbox[s[k] + 1]]
InvSubBytes(s) == [k \in DOMAIN s |-> rsbox[s[k] + 1]]

\* Row r, every fourth byte, turned by r columns.
RowOf(k) == (k - 1) % 4
ShiftRows(s) == [k \in 1 .. 16 |-> s[((k - 1 + 4 * RowOf(k)) % 16) + 1]]
InvShiftRows(s) == [k \in 1 .. 16 |-> s[((k - 1 - 4 * RowOf(k)) % 16) + 1]]

\* The byte of the column of byte k that is n rows further down.
InColumn(s, k, n) == s[k - RowOf(k) + ((RowOf(k) + n) % 4)]
MixColumns(s) ==
  [k \in 1 .. 16 |->
     LET c(n) == InColumn(s, k, n)
     IN  XorByte(XorByte(c(1), XorByte(c(2), c(3))), xtime(XorByte(c(0), c(1))))]
InvMixColumns(s) ==
  [k \in 1 .. 16 |->
     XorByte(XorByte(Multiply(InColumn(s, k, 0), 14), Multiply(InColumn(s, k, 1), 11)),
             XorByte(Multiply(InColumn(s, k, 2), 13), Multiply(InColumn(s, k, 3), 9)))]

-----------------------------------------------------------------------------
\* The round keys, in words of four bytes.
NumDWPerKey(key) == Len(key) \div 4
NumRounds(key) == NumDWPerKey(key) + 6
Mixed(nk, i, t) ==
  CASE i % nk = 0 -> LET u == SubBytes(Tail(t) \o <<t[1]>>) IN [u EXCEPT ![1] = XorByte(@, Rcon[i \div nk])]
    [] nk = 8 /\ i % nk = 4 -> SubBytes(t)
    [] OTHER -> t
RECURSIVE ExpandFrom(_, _, _)
ExpandFrom(w, nk, n) ==
  IF Len(w) = n THEN w
  ELSE ExpandFrom(Append(w, XorBytes(w[Len(w) - nk + 1], Mixed(nk, Len(w), w[Len(w)]))), nk, n)
KeyExpansion(key) ==
  [rounds |-> NumRounds(key), RoundKey |-> ExpandFrom(BlocksOf(key, 4), NumDWPerKey(key), 4 * (NumRounds(key) + 1))]

AddRoundKey(round, s, key) == XorBytes(s, FlattenSeq(SubSeq(key.RoundKey, 4 * round + 1, 4 * round + 4)))

RECURSIVE CipherRounds(_, _, _), InvCipherRounds(_, _, _)
CipherRounds(s, key, round) ==
  IF round = key.rounds THEN AddRoundKey(round, ShiftRows(SubBytes(s)), key)
  ELSE CipherRounds(AddRoundKey(round, MixColumns(ShiftRows(SubBytes(s))), key), key, round + 1)
Cipher(key, block) == CipherRounds(AddRoundKey(0, block, key), key, 1)

InvCipherRounds(s, key, round) ==
  IF round = 0 THEN AddRoundKey(0, InvSubBytes(InvShiftRows(s)), key)
  ELSE InvCipherRounds(InvMixColumns(AddRoundKey(round, InvSubBytes(InvShiftRows(s)), key)), key, round - 1)
InvCipher(key, block) == InvCipherRounds(AddRoundKey(key.rounds, block, key), key, key.rounds - 1)

-----------------------------------------------------------------------------
(* Keys and methods. *)

AES_BLOCKLEN == 16
Throws == <<"throws">>
Crashes == <<"crashes">>

\* cChipherKey::init: the bytes, or the text, or a standing key; cut to sz or hashed up to it.
defkey == [i \in 1 .. 16 |-> i - 1]
initKey(resA, resS, sz) ==
  LET all == IF resA # <<>> THEN resA ELSE IF resS # <<>> THEN resS ELSE defkey
      a == SubSeq(all, 1, IF Len(all) > sz THEN sz ELSE Len(all))
  IN  IF Len(a) = sz THEN a ELSE CalcGenSize("MD5", a, sz)

\* c_AES_base::Make throws, or makes a cipher.
MakeThrows(key, iv) == Len(iv) # AES_BLOCKLEN \/ Len(key) \notin {16, 24, 32}
MakeAes(method, key, iv) ==
  [method |-> method, key |-> KeyExpansion(key), Iv |-> iv, startIv |-> iv]
needAlignSize(c) == IF c.method = "CTR" THEN 0 ELSE AES_BLOCKLEN

-----------------------------------------------------------------------------
(* One call of encode or decode: the bytes it leaves, and the cipher.      *)

\* The blocks of a call of CBC_encrypt_buffer are chained; its last line copies Iv onto itself.
RECURSIVE Chained(_, _, _)
Chained(key, v, b) ==
  IF b = <<>> THEN <<>>
  ELSE LET x == Cipher(key, XorBytes(Head(b), v)) IN x \o Chained(key, x, Tail(b))
CBC_encrypt_buffer(c, s) == [out |-> Chained(c.key, c.Iv, BlocksOf(s, AES_BLOCKLEN)), cipher |-> c]
CBC_decript_buffer(c, s) ==
  LET b == <<c.Iv>> \o BlocksOf(s, AES_BLOCKLEN)
  IN  [out |-> FlattenSeq([i \in 1 .. Len(b) - 1 |-> XorBytes(InvCipher(c.key, b[i + 1]), b[i])]),
       cipher |-> [c EXCEPT !.Iv = b[Len(b)]]]

ECB_encrypt(c, s) ==
  LET b == BlocksOf(s, AES_BLOCKLEN) IN [out |-> FlattenSeq([i \in DOMAIN b |-> Cipher(c.key, b[i])]), cipher |-> c]
ECB_decrypt(c, s) ==
  LET b == BlocksOf(s, AES_BLOCKLEN) IN [out |-> FlattenSeq([i \in DOMAIN b |-> InvCipher(c.key, b[i])]), cipher |-> c]

\* The counter is Iv, its last byte the low one; a call begins with a new block of the stream.
NextIv(iv) ==
  LET low == {k \in DOMAIN iv : iv[k] # 255}
      at == IF low = {} THEN 0 ELSE Max(low)
  IN  [k \in DOMAIN iv |-> IF k < at THEN iv[k] ELSE IF k = at THEN iv[k] + 1 ELSE 0]
RECURSIVE CtrFrom(_, _, _, _)
CtrFrom(c, s, iv, out) ==
  IF s = <<>> THEN [out |-> out, cipher |-> [c EXCEPT !.Iv = iv]]
  ELSE LET n == IF Len(s) < AES_BLOCKLEN THEN Len(s) ELSE AES_BLOCKLEN
       IN  CtrFrom(c, SubSeq(s, n + 1, Len(s)), NextIv(iv), out \o XorBytes(SubSeq(s, 1, n), Cipher(c.key, iv)))
CTR_xcrypt_buffer(c, s) == CtrFrom(c, s, c.Iv, <<>>)

Encode(c, s) ==
  CASE c.method = "CBC" -> CBC_encrypt_buffer(c, s)
    [] c.method = "ECB" -> ECB_encrypt(c, s)
    [] c.method = "CTR" -> CTR_xcrypt_buffer(c, s)
Decode(c, s) ==
  CASE c.method = "CBC" -> CBC_decript_buffer(c, s)
    [] c.method = "ECB" -> ECB_decrypt(c, s)
    [] c.method = "CTR" -> CTR_xcrypt_buffer(c, s)

\* start, and a call for each part.
Started(c) == [c EXCEPT !.Iv = c.startIv]
RECURSIVE EncodeParts(_, _), DecodeParts(_, _)
EncodeParts(c, parts) ==
  IF parts = <<>> THEN <<>> ELSE LET r == Encode(c, Head(parts)) IN <<r.out>> \o EncodeParts(r.cipher, Tail(parts))
DecodeParts(c, parts) ==
  IF parts = <<>> THEN <<>> ELSE LET r == Decode(c, Head(parts)) IN <<r.out>> \o DecodeParts(r.cipher, Tail(parts))

\* full_encode and full_decode of a buffer.
Unaligned(c, s) == needAlignSize(c) # 0 /\ Len(s) % AES_BLOCKLEN # 0
full_encode(c, s) == IF Unaligned(c, s) THEN Throws ELSE Encode(Started(c), s).out
full_decode(c, s) == IF Unaligned(c, s) THEN Throws ELSE Decode(Started(c), s).out

\* full_encode of an array makes it longer first, by bytes nobody has written (filler); for the
\* method that needs no size it divides by zero.
full_encode_array(c, s, filler) ==
  IF needAlignSize(c) = 0 THEN Crashes
  ELSE full_encode(c, IF Unaligned(c, s) THEN s \o SubSeq(filler, 1, AES_BLOCKLEN - (Len(s) % AES_BLOCKLEN)) ELSE s)

\* alignbuffer adds zeros.
alignbuffer(s) == s \o Zeros((AES_BLOCKLEN - (Len(s) % AES_BLOCKLEN)) % AES_BLOCKLEN)

-----------------------------------------------------------------------------
(* c_transposition::make: swaps data[i] with a later place, taken from four *)
(* bytes of the key read as a signed integer and widened to 64 bits.       *)

RECURSIVE PowerMod(_, _, _)
PowerMod(b, e, n) == IF e = 0 THEN 1 % n ELSE (PowerMod(b, e - 1, n) * b) % n
KeyMod(b, n) ==
  LET low == ((((((b[4] * 256 + b[3]) % n) * 256 + b[2]) % n) * 256) + b[1]) % n
      ones == (PowerMod(256, 8, n) + n - PowerMod(256, 4, n)) % n
  IN  IF b[4] < 128 THEN low ELSE (low + ones) % n
prepareKey(key) == IF Len(key) < 16 THEN initKey(key, <<>>, 32) ELSE key
Swapped(d, i, j) == [d EXCEPT ![i] = d[j], ![j] = d[i]]
RECURSIVE SwappedFrom(_, _, _)
SwappedFrom(k, d, i) ==
  LET kp == (i - 1) % (Len(k) - 3)
  IN  IF i > Len(d) THEN d
      ELSE SwappedFrom(k, Swapped(d, i, i + KeyMod(SubSeq(k, kp + 1, kp + 4), Len(d) - i + 1)), i + 1)
MakeTransposition(key, data) == SwappedFrom(prepareKey(key), data, 1)
generate(key, count) == MakeTransposition(key, [i \in 1 .. count |-> i - 1])

-----------------------------------------------------------------------------
(* A cipher gives back what it was given.                                  *)

\* In one call, and decoded call by call in whole blocks.  (Encoding call by call is another text
\* for CBC, which goes on from the old Iv.)
Pieces(coded, parts) ==
  LET cut(i) == Len(FlattenSeq(SubSeq(parts, 1, i)))
  IN  [i \in DOMAIN parts |-> SubSeq(coded, cut(i - 1) + 1, cut(i))]
InBlocks(c, parts) ==
  IF c.method = "CTR" THEN \A i \in 1 .. Len(parts) - 1 : Len(parts[i]) % AES_BLOCKLEN = 0
                      ELSE \A i \in DOMAIN parts : ~Unaligned(c, parts[i])
CipherGivesBack(c, parts) ==
  LET text == FlattenSeq(parts)
  IN  \E coded \in {full_encode(c, text)} :
        IF Unaligned(c, text) THEN coded = Throws /\ full_decode(c, text) = Throws
        ELSE /\ full_decode(c, coded) = text
             /\ \A pieces \in (IF InBlocks(c, parts) THEN {Pieces(coded, parts)} ELSE {})
                               \cup (IF c.method = "CTR" THEN {EncodeParts(Started(c), parts)} ELSE {}) :
                  DecodeParts(Started(c), pieces) = parts

\* An array is padded to whole blocks, and decoded it begins with what it was.
PaddingKeepsText(c, s, filler) ==
  c.method # "CTR" =>
    \A coded \in {full_encode_array(c, s, filler), full_encode(c, alignbuffer(s))} :
      /\ Len(coded) % AES_BLOCKLEN = 0 /\ Len(coded) - Len(s) \in 0 .. AES_BLOCKLEN - 1
      /\ SubSeq(full_decode(c, coded), 1, Len(s)) = s

\* A key has the size it was made for, and keeps bytes enough for it.
KeyHasItsSize(resA, resS, sz) ==
  LET k == initKey(resA, resS, sz)
  IN  Len(k) = sz /\ (Len(resA) >= sz => k = SubSeq(resA, 1, sz))

\* A transposition loses no place, and moves the places and the data alike.
TranspositionMovesAll(key, data) ==
  LET g == generate(key, Len(data))
  IN  /\ {g[i] : i \in DOMAIN g} = 0 .. Len(data) - 1
      /\ MakeTransposition(key, data) = [i \in DOMAIN data |-> data[g[i] + 1]]
=============================================================================
