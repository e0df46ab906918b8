-------------------------------- MODULE Sm4 --------------------------------
(***************************************************************************)
(* The SM4 block cipher of cpp/sm4.cpp, one loop iteration a step: the key *)
(* schedule, the swap that turns it into the decryption schedule, and the  *)
(* rounds of each block in ECB and CBC mode.  A message is encrypted, as   *)
(* the operator's server does, and then decrypted on the device: in ECB    *)
(* mode by native-lib's sm4Dec, whose array `out` has room for two blocks. *)
(* CBC mode has no caller; its output is as large as its input.            *)
(*                                                                         *)
(* The program keeps a 32-bit word in an unsigned long, which has 64 bits  *)
(* on half of the ABIs it is built for; a rotation there leaves bits above *)
(* the 31st.  A long is the set of the positions of its bits that are 1,   *)
(* so that ^ is the symmetric difference and | the union.  A block is four *)
(* words of 32 bits: PUT_ULONG_BE drops the others.                        *)
(***************************************************************************)
EXTENDS Naturals, Sequences

CONSTANTS
  Widths,     \* bits of an unsigned long: 32, 64
  Keys,       \* 16-byte keys, as blocks
  IVs,        \* initialization vectors, as blocks
  Messages    \* sequences of blocks; a length that is not a multiple of 16 is
              \* not a legal argument of sm4_crypt_ecb and sm4_crypt_cbc

Block == [0..3 -> SUBSET (0..31)]

ASSUME Sm4Assumption ==
  /\ Widths \subseteq {n \in Nat : n >= 32}
  /\ Keys \subseteq Block /\ IVs \subseteq Block
  /\ Messages \subseteq Seq(Block)

VARIABLES
  pc,         \* the loop that runs: "key", "swap", "block", "round"; "done",
              \* or "overrun" when a block has been written behind out's end
  job,        \* "encrypt" or "decrypt"
  i,          \* the loop's counter
  k,          \* sm4_setkey's k
  sk,         \* sm4_context.sk
  ulbuf,      \* sm4_one_round's ulbuf
  ivec,       \* sm4_crypt_cbc's iv
  input,      \* the blocks of the argument that are still to come
  output,     \* the blocks written
  msg, key, iv, cbc, width,  \* the run's arguments: message, key, first iv,
              \* whether the mode is CBC, and the width of a long
  ek, trace   \* history: the encryption's k and each block's ulbuf

args == <<msg, key, iv, cbc, width>>
vars == <<pc, job, i, k, sk, ulbuf, ivec, input, output, args, ek, trace>>
-----------------------------------------------------------------------------
a \oplus b == (a \ b) \cup (b \ a)

\* What PUT_ULONG_BE writes of a long.
Low(a) == a \cap (0..31)

\* The macros, for longs of w bits.
SHL(w, a, n) == {b + n : b \in Low(a)} \cap (0..w-1)
SHR(a, n) == {b - n : b \in {c \in a : c >= n}}
ROTL(w, a, n) == SHL(w, a, n) \cup SHR(a, 32 - n)

\* The bits of a byte, and of a word given by its four bytes.
Bits(n) == {b \in 0..7 : (n \div 2^b) % 2 = 1}
Word(bytes) == UNION {{b + 8 * (4 - n) : b \in Bits(bytes[n])} : n \in 1..4}

SboxTable == <<
  214, 144, 233, 254, 204, 225,  61, 183,  22, 182,  20, 194,  40, 251,  44,   5,
   43, 103, 154, 118,  42, 190,   4, 195, 170,  68,  19,  38,  73, 134,   6, 153,
  156,  66,  80, 244, 145, 239, 152, 122,  51,  84,  11,  67, 237, 207, 172,  98,
  228, 179,  28, 169, 201,   8, 232, 149, 128, 223, 148, 250, 117, 143,  63, 166,
   71,   7, 167, 252, 243, 115,  23, 186, 131,  89,  60,  25, 230, 133,  79, 168,
  104, 107, 129, 178, 113, 100, 218, 139, 248, 235,  15,  75, 112,  86, 157,  53,
   30,  36,  14,  94,  99,  88, 209, 162,  37,  34, 124,  59,   1,  33, 120, 135,
  212,   0,  70,  87, 159, 211,  39,  82,  76,  54,   2, 231, 160, 196, 200, 158,
  234, 191, 138, 210,  64, 199,  56, 181, 163, 247, 242, 206, 249,  97,  21, 161,
  224, 174,  93, 164, 155,  52,  26,  85, 173, 147,  50,  48, 245, 140, 177, 227,
   29, 246, 226,  46, 130, 102, 202,  96, 192,  41,  35, 171,  13,  83,  78, 111,
  213, 219,  55,  69, 222, 253, 142,  47,   3, 255, 106, 114, 109, 108,  91,  81,
  141,  27, 175, 146, 187, 221, 188, 127,  17, 217,  92,  65,  31,  16,  90, 216,
   10, 193,  49, 136, 165, 205, 123, 189,  45, 116, 208,  18, 184, 229, 180, 176,
  137, 105, 151,  74,  12, 150, 119, 126, 101, 185, 241,   9, 197, 110, 198, 132,
   24, 240, 125, 236,  58, 220,  77,  32, 121, 238,  95,  62, 215, 203,  57,  72 >>

\* sm4Sbox on the bits of a byte.
Sbox ==
  [s \in SUBSET (0..7) |->
     Bits(SboxTable[(CHOOSE n \in 0..255 : Bits(n) = s) + 1])]

FK ==
  <<<<163, 177, 186, 198>>, <<86, 170, 51, 80>>, <<103, 125, 145, 151>>, <<178, 112, 34, 220>>>>

\* The words of the table CK: byte j of word n is 7 (4n + j) modulo 256.
CK == [n \in 0..31 |-> Word([j \in 1..4 |-> (7 * (4 * n + j - 1)) % 256])]

\* The n-th byte of a long, counted from the lowest, and the substitution of a
\* long's four low bytes.
Byte(a, n) == {b \in 0..7 : b + 8 * n \in a}
Substitute(a) == UNION {{b + 8 * n : b \in Sbox[Byte(a, n)]} : n \in 0..3}

\* Faulty variant of sm4Lt: the last rotation is the key schedule's.
sm4LtRotated(w, ka) ==
  LET bb == Substitute(ka)
  IN  bb \oplus ROTL(w, bb, 2) \oplus ROTL(w, bb, 10) \oplus ROTL(w, bb, 18)
         \oplus ROTL(w, bb, 23)

sm4Lt(w, ka) ==
  LET bb == Substitute(ka)
  IN  bb \oplus ROTL(w, bb, 2) \oplus ROTL(w, bb, 10) \oplus ROTL(w, bb, 18)
         \oplus ROTL(w, bb, 24)

sm4F(w, x0, x1, x2, x3, rk) == x0 \oplus sm4Lt(w, x1 \oplus x2 \oplus x3 \oplus rk)

sm4CalciRK(w, ka) ==
  LET bb == Substitute(ka)
  IN  bb \oplus ROTL(w, bb, 13) \oplus ROTL(w, bb, 23)

XorBlock(p, q) == [n \in 0..3 |-> p[n] \oplus q[n]]

\* Faulty variant of Reversed: the bits above the 31st are put out too.
ReversedWide(u) == [n \in 0..3 |-> u[35 - n]]

\* The four words sm4_one_round puts out at its end.
Reversed(u) == [n \in 0..3 |-> Low(u[35 - n])]

\* A local array whose first four words are given.
Start(b) == [n \in 0..35 |-> IF n \in 0..3 THEN b[n] ELSE {}]
-----------------------------------------------------------------------------
\* sm4_setkey's k before its loop.
StartKey == Start([n \in 0..3 |-> key[n] \oplus Word(FK[n + 1])])

Init ==
  /\ msg \in Messages /\ key \in Keys /\ iv \in IVs
  /\ cbc \in BOOLEAN /\ width \in Widths
  /\ pc = "key" /\ job = "encrypt" /\ i = 0
  /\ k = StartKey
  /\ sk = [n \in 0..31 |-> {}]
  /\ ulbuf = [n \in 0..35 |-> {}]
  /\ ivec = iv /\ input = msg /\ output = <<>>
  /\ ek = ulbuf /\ trace = <<>>

\* An iteration of sm4_setkey's loop.
KeyRound ==
  /\ pc = "key" /\ i < 32
  /\ LET rk == k[i] \oplus sm4CalciRK(width, k[i+1] \oplus k[i+2] \oplus k[i+3] \oplus CK[i])
     IN  k' = [k EXCEPT ![i+4] = rk] /\ sk' = [sk EXCEPT ![i] = rk]
  /\ i' = i + 1
  /\ UNCHANGED <<pc, job, ulbuf, ivec, input, output, args, ek, trace>>

\* Faulty variant of KeyDone: the device sets the key with sm4_setkey_enc.
KeyDoneUnswapped ==
  /\ pc = "key" /\ i = 32
  /\ pc' = "block"
  /\ ek' = IF job = "encrypt" THEN k ELSE ek
  /\ i' = 0
  /\ UNCHANGED <<job, k, sk, ulbuf, ivec, input, output, args, trace>>

\* sm4_setkey returns to sm4_setkey_enc or sm4_setkey_dec.
KeyDone ==
  /\ pc = "key" /\ i = 32
  /\ pc' = IF job = "encrypt" THEN "block" ELSE "swap"
  /\ ek' = IF job = "encrypt" THEN k ELSE ek
  /\ i' = 0
  /\ UNCHANGED <<job, k, sk, ulbuf, ivec, input, output, args, trace>>

\* Faulty variant of SwapKeys: the loop ends one swap early.
SwapFewer ==
  /\ pc = "swap"
  /\ sk' = [sk EXCEPT ![i] = sk[31 - i], ![31 - i] = sk[i]]
  /\ IF i = 14 THEN pc' = "block" /\ i' = 0 ELSE i' = i + 1 /\ UNCHANGED pc
  /\ UNCHANGED <<job, k, ulbuf, ivec, input, output, args, ek, trace>>

\* An iteration of sm4_setkey_dec's loop.
SwapKeys ==
  /\ pc = "swap"
  /\ sk' = [sk EXCEPT ![i] = sk[31 - i], ![31 - i] = sk[i]]
  /\ IF i = 15 THEN pc' = "block" /\ i' = 0 ELSE i' = i + 1 /\ UNCHANGED pc
  /\ UNCHANGED <<job, k, ulbuf, ivec, input, output, args, ek, trace>>

\* sm4_one_round begins a block; sm4_crypt_cbc has added the iv to it when it
\* encrypts.
BeginBlock ==
  /\ pc = "block" /\ input # <<>>
  /\ ulbuf' = Start(IF cbc /\ job = "encrypt" THEN XorBlock(Head(input), ivec)
                                              ELSE Head(input))
  /\ pc' = "round" /\ i' = 0
  /\ UNCHANGED <<job, k, sk, ivec, input, output, args, ek, trace>>

Round ==
  /\ pc = "round" /\ i < 32
  /\ ulbuf' = [ulbuf EXCEPT ![i+4] = sm4F(width, ulbuf[i], ulbuf[i+1], ulbuf[i+2], ulbuf[i+3], sk[i])]
  /\ i' = i + 1
  /\ UNCHANGED <<pc, job, k, sk, ivec, input, output, args, ek, trace>>

\* sm4Dec's out: two blocks of zeroes, filled from the first on.
OutBlocks == 2
ZeroBlock == [n \in 0..3 |-> {}]
Returned == [n \in 1..OutBlocks |-> IF n <= Len(output) THEN output[n] ELSE ZeroBlock]

\* sm4Dec is at a block that out has no room for; nothing looks at the length.
NoRoom == job = "decrypt" /\ ~cbc /\ Len(output) = OutBlocks

\* Faulty variant of EndBlock: the block written is the next iv both ways.
EndBlockChained ==
  /\ pc = "round" /\ i = 32 /\ ~NoRoom
  /\ LET out == Reversed(ulbuf)
     IN  /\ output' = Append(output, IF cbc /\ job = "decrypt" THEN XorBlock(out, ivec) ELSE out)
         /\ ivec' = IF ~cbc THEN ivec ELSE out
  /\ input' = Tail(input)
  /\ trace' = IF job = "encrypt" THEN Append(trace, ulbuf) ELSE trace
  /\ pc' = "block" /\ i' = 0
  /\ UNCHANGED <<job, k, sk, ulbuf, args, ek>>

\* The block is written.  CBC keeps the cipher's block as the next iv, which is
\* the block it read when it decrypts.
EndBlock ==
  /\ pc = "round" /\ i = 32 /\ ~NoRoom
  /\ LET out == Reversed(ulbuf)
     IN  /\ output' = Append(output, IF cbc /\ job = "decrypt" THEN XorBlock(out, ivec) ELSE out)
         /\ ivec' = IF ~cbc THEN ivec ELSE IF job = "encrypt" THEN out ELSE Head(input)
  /\ input' = Tail(input)
  /\ trace' = IF job = "encrypt" THEN Append(trace, ulbuf) ELSE trace
  /\ pc' = "block" /\ i' = 0
  /\ UNCHANGED <<job, k, sk, ulbuf, args, ek>>

\* The block is written behind the end of out: what the program does from
\* there on is undefined, and nothing more is said of it.
Overrun ==
  /\ pc = "round" /\ i = 32 /\ NoRoom
  /\ pc' = "overrun"
  /\ UNCHANGED <<job, i, k, sk, ulbuf, ivec, input, output, args, ek, trace>>

\* The encrypted message is handed to the device, which decrypts it.
HandOver ==
  /\ pc = "block" /\ input = <<>> /\ job = "encrypt"
  /\ job' = "decrypt" /\ pc' = "key" /\ i' = 0
  /\ k' = StartKey
  /\ ivec' = iv /\ input' = output /\ output' = <<>>
  /\ UNCHANGED <<sk, ulbuf, args, ek, trace>>

\* The loop over the blocks ends.  sm4Dec now returns the whole of out
\* (Returned), however long the message was.
Finish ==
  /\ pc = "block" /\ input = <<>> /\ job = "decrypt"
  /\ pc' = "done"
  /\ UNCHANGED <<job, i, k, sk, ulbuf, ivec, input, output, args, ek, trace>>

Next ==
  \/ KeyRound \/ KeyDone \/ SwapKeys \/ BeginBlock \/ Round \/ EndBlock
  \/ Overrun \/ HandOver \/ Finish

Spec == Init /\ [][Next]_vars
-----------------------------------------------------------------------------
Sm4TypeOK ==
  /\ msg \in Messages /\ key \in Keys /\ iv \in IVs
  /\ cbc \in BOOLEAN /\ width \in Widths
  /\ pc \in {"key", "swap", "block", "round", "done", "overrun"}
  /\ job \in {"encrypt", "decrypt"}
  /\ i \in 0..32
  /\ k \in [0..35 -> SUBSET (0..width-1)] /\ ulbuf \in [0..35 -> SUBSET (0..width-1)]
  /\ ek \in [0..35 -> SUBSET (0..width-1)]
  /\ sk \in [0..31 -> SUBSET (0..width-1)]
  /\ ivec \in Block
  /\ input \in Seq(Block) /\ output \in Seq(Block)
  /\ trace \in Seq([0..35 -> SUBSET (0..width-1)])

\* While a block is decrypted, the rounds walk back through the values the
\* encryption of that block went through, whatever the bits above the 31st have
\* become in either run (sm4_one_round with the keys sm4_setkey_dec swapped).
Unwinds ==
  pc = "round" /\ job = "decrypt" =>
    LET u == trace[Len(output) + 1]
    IN  \A n \in 0..i+3 : Low(ulbuf[n]) = Low(u[35 - n])

\* What the device has decrypted.
Decrypted == IF job = "decrypt" THEN output ELSE <<>>

Channel == INSTANCE CipherChannel WITH sent <- msg, received <- Decrypted

\* sm4_setkey_enc and sm4_crypt on one end, sm4_setkey_dec and sm4_crypt on the
\* other, are a channel: the device holds the blocks of the message in their
\* order and nothing else, in both modes and with longs of either width.
ImplementsChannel == Channel!Spec

\* If sm4Dec returns, the message had at most two blocks, and the 32 bytes are
\* the message and zeroes behind it: Fragment3's key is the one that was
\* encrypted if and only if that had 32 bytes.
ReturnsMessage ==
  pc = "done" /\ ~cbc =>
    /\ Len(msg) <= OutBlocks
    /\ \A n \in 1..OutBlocks : Returned[n] = IF n <= Len(msg) THEN msg[n] ELSE ZeroBlock
=============================================================================
