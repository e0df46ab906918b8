----------------------------- MODULE NativeLib -----------------------------
(***************************************************************************)
(* The native library of the app (cpp/native-lib.cpp, cpp/utils.cpp), one  *)
(* call at a time: the signature of a ticket code, with the rejection loop *)
(* of crypto/sm2/sm2_sign.c it runs; aesEnc and aesDec with their padding; *)
(* the hex conversions; and the pair of SM2 keys in two files, which       *)
(* genSM2KeyPairs writes and sm2Enc and sm2Dec read.                       *)
(*                                                                         *)
(* The elliptic curve is a group of prime order: the point kG is its k,    *)
(* and XOf[k] its x coordinate.  A block cipher and the encryption of SM2  *)
(* are constructors.                                                       *)
(***************************************************************************)
EXTENDS Naturals, Sequences

CONSTANTS
  Order,       \* the order of the group, a prime
  XOf,         \* XOf[k]: the x coordinate of kG
  Radix,       \* values of a byte of a number: 256
  Width,       \* bytes of Order: 32
  SignKeys,    \* private keys passed to sm2Sign: any number of Width bytes
  Digests,     \* SM3 digests of ticket codes, as numbers
  AES_BLOCK_SIZE,
  Inputs,      \* byte arrays passed to aesEnc and bin2hex
  CipherKeys,  \* AES keys
  KeyPairs,    \* SM2 key pairs EC_KEY_generate_key can draw
  Plaintexts,  \* arguments of sm2Enc
  None         \* no key in a file, NULL

\* What a byte with n bytes behind it counts, Radix to the n.
Weight[n \in 0..Width] == IF n = 0 THEN 1 ELSE Radix * Weight[n-1]

ASSUME NativeAssumption ==
  /\ Order \in Nat /\ Order > 2 /\ \A m \in 2..Order-1 : Order % m # 0
  /\ XOf \in [1..Order-1 -> Nat]
  /\ Radix \in Nat /\ Radix > 1 /\ Width \in Nat \ {0} /\ Order <= Weight[Width]
  /\ SignKeys \subseteq Nat /\ Digests \subseteq Nat
  /\ AES_BLOCK_SIZE \in 1..255 /\ Inputs \subseteq Seq(0..255)
  /\ None \notin KeyPairs \cup Plaintexts

VARIABLES
  op,          \* the call that runs: "sign", "private", "public" or "idle"
  arg,         \* its arguments
  last,        \* the last call that has returned: its name and arguments,
               \* what an inverse should give back, and what it gave
  path,        \* whether genSM2KeyPairs has set native-lib's path
  files,       \* the key in each of the two files
  writeFailed  \* history: a write of the last genSM2KeyPairs has failed

vars == <<op, arg, last, path, files, writeFailed>>
-----------------------------------------------------------------------------
(* Numbers *)

\* BN_num_bytes: the bytes of a number, without leading zeros.
NumBytes(v) == CHOOSE n \in 0..Width : v < Weight[n] /\ (n > 0 => v >= Weight[n-1])

\* Faulty variant of BytesOf: the higher digits are not taken off a byte.
BytesOfUncut(v) == [j \in 1..NumBytes(v) |-> v \div Weight[NumBytes(v) - j]]

\* BN_bn2bin
BytesOf(v) == [j \in 1..NumBytes(v) |-> (v \div Weight[NumBytes(v) - j]) % Radix]

\* BN_bin2bn: the number that a sequence of bytes stands for.
NumberOf(b) ==
  LET value[j \in 0..Len(b)] == IF j = 0 THEN 0 ELSE Radix * value[j-1] + b[j]
  IN  value[Len(b)]

Minus(a, b) == (a + (Order - (b % Order))) % Order
Inverse(a) == CHOOSE b \in 1..Order-1 : (a * b) % Order = 1

\* sm2_do_verify, with the public key of the private key d.
Verifies(d, e, r, s) ==
  LET t == (r + s) % Order
      multiple == (s + t * d) % Order
  IN  /\ r \in 1..Order-1 /\ s \in 1..Order-1
      /\ t # 0 /\ multiple # 0
      /\ (XOf[multiple] + e) % Order = r
-----------------------------------------------------------------------------
(* AES *)

Blocks(in) == Len(in) \div AES_BLOCK_SIZE
BlockOf(in, n) == SubSeq(in, (n-1) * AES_BLOCK_SIZE + 1, n * AES_BLOCK_SIZE)

\* Faulty variant of LastBlock: it is filled up with zeros.
LastBlockZeros(in) ==
  LET rest == SubSeq(in, Blocks(in) * AES_BLOCK_SIZE + 1, Len(in))
  IN  rest \o [n \in 1..AES_BLOCK_SIZE - (Len(in) % AES_BLOCK_SIZE) |-> 0]

\* The last block: what is left of the argument, and as many bytes as miss to
\* a block, each of which says how many they are.
LastBlock(in) ==
  LET rest == SubSeq(in, Blocks(in) * AES_BLOCK_SIZE + 1, Len(in))
      pading == AES_BLOCK_SIZE - (Len(in) % AES_BLOCK_SIZE)
  IN  rest \o [n \in 1..pading |-> pading]

aesEnc(in, key) ==
  [n \in 1..Blocks(in)+1 |->
     [key |-> key, block |-> IF n <= Blocks(in) THEN BlockOf(in, n) ELSE LastBlock(in)]]

\* The blocks, decrypted, without the bytes that the last byte counts.
aesDec(cipher) ==
  LET length == Len(cipher) * AES_BLOCK_SIZE
      out == [n \in 1..length |->
                LET c == cipher[((n-1) \div AES_BLOCK_SIZE) + 1]
                IN  c.block[((n-1) % AES_BLOCK_SIZE) + 1]]
  IN  SubSeq(out, 1, length - out[length])
-----------------------------------------------------------------------------
(* Hex: a character is its code. *)

Decimals == 48..57
Capitals == 65..70
Smalls == 97..102

bin2hex(b) ==
  [n \in 1..2*Len(b) |->
     LET v == IF n % 2 = 1 THEN b[(n+1) \div 2] \div 16 ELSE b[(n+1) \div 2] % 16
     IN  IF v < 10 THEN v + 48 ELSE v - 10 + 65]

Digit(c) ==
  CASE c \in Decimals -> c - 48
    [] c \in Smalls   -> c - 97 + 10
    [] c \in Capitals -> c - 65 + 10

hex2bin(h) ==
  IF Len(h) % 2 # 0 \/ \E n \in 1..Len(h) : h[n] \notin Decimals \cup Smalls \cup Capitals
    THEN None
    ELSE [n \in 1..Len(h) \div 2 |-> 16 * Digit(h[2*n - 1]) + Digit(h[2*n])]
-----------------------------------------------------------------------------
Returned(fn, with, from, out) == [fn |-> fn, with |-> with, from |-> from, out |-> out]
Nothing == Returned("none", None, None, None)

Init ==
  /\ op = "idle" /\ arg = None /\ last = Nothing
  /\ path = FALSE /\ files = [private |-> None, public |-> None]
  /\ writeFailed = FALSE

Return(result) ==
  /\ op' = "idle" /\ arg' = None /\ last' = result
  /\ UNCHANGED <<path, files, writeFailed>>

\* mk_eckey and SM2_compute_message_digest: the point of a key that is a
\* multiple of the order has no coordinates, and sm2Sign returns NULL.
Sm2Sign(d, e) ==
  /\ op = "idle"
  /\ IF d % Order = 0
       THEN Return(Returned("sm2Sign", [d |-> d, e |-> e], None, None))
       ELSE /\ op' = "sign" /\ arg' = [d |-> d, e |-> e]
            /\ UNCHANGED <<last, path, files, writeFailed>>

\* Faulty variant of SignRound: s = 0 is put out.
SignRoundZero(k) ==
  LET d == arg.d
      e == arg.e
      x == XOf[k] % Order
      r == (x + e) % Order
      s == (Inverse((1 + d) % Order) * Minus(k, r * d)) % Order
  IN  /\ op = "sign"
      /\ x # 0 /\ r # 0 /\ (r + k) % Order # 0
      /\ IF (1 + d) % Order = 0
           THEN Return(Returned("sm2Sign", arg, None, None))
           ELSE Return(Returned("sm2Sign", arg, <<r, s>>, BytesOf(r) \o BytesOf(s)))

\* The round of sm2_do_sign that draws k.  It draws again when (kG).x, r, r + k
\* or s is zero; with the key -1 there is no inverse of 1 + d, and sm2Sign
\* returns NULL.  The two numbers are written one behind the other.
SignRound(k) ==
  LET d == arg.d
      e == arg.e
      x == XOf[k] % Order
      r == (x + e) % Order
      s == (Inverse((1 + d) % Order) * Minus(k, r * d)) % Order
  IN  /\ op = "sign"
      /\ x # 0 /\ r # 0 /\ (r + k) % Order # 0
      /\ IF (1 + d) % Order = 0
           THEN Return(Returned("sm2Sign", arg, None, None))
           ELSE /\ s # 0
                /\ Return(Returned("sm2Sign", arg, <<r, s>>, BytesOf(r) \o BytesOf(s)))

AesEnc(in, key) ==
  /\ op = "idle"
  /\ Return(Returned("aesEnc", key, in, aesEnc(in, key)))

AesDec ==
  /\ op = "idle" /\ last.fn = "aesEnc"
  /\ Return(Returned("aesDec", last.with, last.from, aesDec(last.out)))

Bin2Hex(in) ==
  /\ op = "idle"
  /\ Return(Returned("bin2hex", None, in, bin2hex(in)))

Hex2Bin ==
  /\ op = "idle" /\ last.fn = "bin2hex"
  /\ Return(Returned("hex2bin", None, last.from, hex2bin(last.out)))
-----------------------------------------------------------------------------
(* The key files *)

GenSM2KeyPairs(pair) ==
  /\ op = "idle"
  /\ op' = "private" /\ arg' = pair /\ last' = Nothing
  /\ path' = TRUE /\ writeFailed' = FALSE
  /\ UNCHANGED files

\* writeBufToFile of one of the files.  What it returns is not looked at: after
\* a failure the file is as it was, and the other one is written still.
WriteFile(which) ==
  /\ op = which
  /\ \/ files' = [files EXCEPT ![which] = arg] /\ UNCHANGED writeFailed
     \/ writeFailed' = TRUE /\ UNCHANGED files
  /\ IF which = "private" THEN op' = "public" /\ UNCHANGED arg
                          ELSE op' = "idle" /\ arg' = None
  /\ UNCHANGED <<last, path>>

\* Faulty variant of ProcessDies: path outlives the process.
ProcessDiesKeepsPath ==
  /\ op' = "idle" /\ arg' = None /\ last' = Nothing
  /\ UNCHANGED <<path, files, writeFailed>>

\* The process ends, between two writes too; path is NULL in the next one.  So
\* ends a call of sm2Enc or sm2Dec that finds path NULL.
ProcessDies ==
  /\ op' = "idle" /\ arg' = None /\ last' = Nothing
  /\ path' = FALSE
  /\ UNCHANGED <<files, writeFailed>>

\* getEcKey makes a file that is missing, an empty one.  Without a public key
\* SM2_encrypt fails, and an array of zeros is returned.
Sm2Enc(p) ==
  /\ op = "idle" /\ path
  /\ Return(Returned("sm2Enc", files.public, p,
              IF files.public = None THEN None ELSE [of |-> p, by |-> files.public]))

\* sm2Dec does not look at what SM2_decrypt returns: with another private key
\* the array holds no plaintext.
Sm2Dec ==
  /\ op = "idle" /\ path /\ last.fn = "sm2Enc" /\ last.out # None
  /\ Return(Returned("sm2Dec", files.private, last.from,
              IF files.private = last.out.by THEN last.out.of ELSE None))

Next ==
  \/ \E d \in SignKeys, e \in Digests : Sm2Sign(d, e)
  \/ \E k \in 1..Order-1 : SignRound(k)
  \/ \E in \in Inputs, key \in CipherKeys : AesEnc(in, key)
  \/ \E in \in Inputs : Bin2Hex(in)
  \/ AesDec
  \/ Hex2Bin
  \/ \E pair \in KeyPairs : GenSM2KeyPairs(pair)
  \/ \E which \in {"private", "public"} : WriteFile(which)
  \/ ProcessDies
  \/ \E p \in Plaintexts : Sm2Enc(p)
  \/ Sm2Dec

Spec == Init /\ [][Next]_vars
-----------------------------------------------------------------------------
NativeTypeOK ==
  /\ op \in {"idle", "sign", "private", "public"}
  /\ op = "sign" => arg \in [d : SignKeys, e : Digests]
  /\ op \in {"private", "public"} => arg \in KeyPairs
  /\ path \in BOOLEAN /\ writeFailed \in BOOLEAN
  /\ files \in [private : KeyPairs \cup {None}, public : KeyPairs \cup {None}]
  /\ last.fn \in {"none", "sm2Sign", "aesEnc", "aesDec", "bin2hex", "hex2bin", "sm2Enc", "sm2Dec"}
  /\ last.fn = "sm2Sign" /\ last.out # None =>
       last.out \in Seq(0..Radix-1) /\ Len(last.out) <= 2 * Width

\* The pair of numbers sm2Sign puts into a code is one that sm2_do_verify
\* accepts, whatever key was passed and however often it drew; and a code with
\* two numbers of full length still verifies when it is cut in the middle.
SignatureVerifies ==
  last.fn = "sm2Sign" /\ last.out # None =>
    LET d == last.with.d
        e == last.with.e
    IN  /\ Verifies(d, e, last.from[1], last.from[2])
        /\ Len(last.out) = 2 * Width =>
             Verifies(d, e, NumberOf(SubSeq(last.out, 1, Width)),
                            NumberOf(SubSeq(last.out, Width + 1, 2 * Width)))

\* aesDec gives back what was passed to aesEnc, and hex2bin what was passed to
\* bin2hex: an argument of whole blocks, an empty one, and one that ends in
\* bytes that look like padding.
DecodesEncoded ==
  last.fn \in {"aesDec", "hex2bin"} => last.out = last.from

\* What sm2Enc encrypted sm2Dec decrypts, unless a write of the last
\* genSM2KeyPairs failed: a pair of files of which the process wrote one before
\* it died is not read by the next one, which has no path until it has written
\* both.
DecryptsOwn ==
  last.fn = "sm2Dec" /\ ~writeFailed => last.out = last.from
=============================================================================
