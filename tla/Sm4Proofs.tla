------------------------------ MODULE Sm4Proofs ------------------------------
(***************************************************************************)
(* What holds of Sm4 for every set of keys, initialization vectors and     *)
(* messages and for longs of any width from 32 bits on.                    *)
(*                                                                         *)
(* The rounds of a decryption walk back through those of the encryption    *)
(* because the key schedule is the same (SameKeys), is swapped in place    *)
(* (SwappedKeys), and because sm4Lt looks at the low 32 bits of its        *)
(* argument only (LtLow).                                                  *)
(***************************************************************************)
EXTENDS Sm4, TLAPS
-----------------------------------------------------------------------------
(* Bits *)

LEMMA XorLow ==
  ASSUME NEW a, NEW b
  PROVE  Low(a \oplus b) = Low(a) \oplus Low(b) /\ Low(Low(a)) = Low(a)
BY DEF Low, \oplus

LEMMA XorCancel ==
  ASSUME NEW a, NEW b
  PROVE  (a \oplus b) \oplus b = a
BY DEF \oplus

LEMMA XorTurn ==
  ASSUME NEW a, NEW b, NEW c, NEW d
  PROVE  a \oplus b \oplus c \oplus d = c \oplus b \oplus a \oplus d
BY DEF \oplus

LEMMA XorType ==
  ASSUME NEW S, NEW a \in SUBSET S, NEW b \in SUBSET S
  PROVE  a \oplus b \in SUBSET S
BY DEF \oplus

\* A byte is taken from the low 32 bits.
LEMMA ByteLow ==
  ASSUME NEW a, NEW n \in 0..3
  PROVE  Byte(a, n) = Byte(Low(a), n) /\ Byte(a, n) \in SUBSET (0..7)
BY DEF Byte, Low

LEMMA LtLow ==
  ASSUME NEW w, NEW a, NEW b, Low(a) = Low(b)
  PROVE  sm4Lt(w, a) = sm4Lt(w, b)
<1>1. \A n \in 0..3 : Byte(a, n) = Byte(b, n)
  BY ByteLow
<1>2. Substitute(a) = Substitute(b)
  BY <1>1 DEF Substitute
<1> QED
  BY <1>2 DEF sm4Lt

\* The j-th round of p undoes the last but j of u, in the low 32 bits, if it is
\* given what that one made and had, the other way round, and the same key.
LEMMA RoundBack ==
  ASSUME NEW w, NEW p, NEW u, NEW rk, NEW j,
         u[35-j] = sm4F(w, u[31-j], u[32-j], u[33-j], u[34-j], rk),
         Low(p[j]) = Low(u[35-j]), Low(p[j+1]) = Low(u[34-j]),
         Low(p[j+2]) = Low(u[33-j]), Low(p[j+3]) = Low(u[32-j])
  PROVE  Low(sm4F(w, p[j], p[j+1], p[j+2], p[j+3], rk)) = Low(u[31-j])
<1> DEFINE a == u[32-j] \oplus u[33-j] \oplus u[34-j] \oplus rk
           b == p[j+1] \oplus p[j+2] \oplus p[j+3] \oplus rk
<1>1. Low(a) = Low(u[32-j]) \oplus Low(u[33-j]) \oplus Low(u[34-j]) \oplus Low(rk)
  BY XorLow
<1>2. Low(b) = Low(u[34-j]) \oplus Low(u[33-j]) \oplus Low(u[32-j]) \oplus Low(rk)
  BY XorLow
<1>3. Low(a) = Low(b)
  BY <1>1, <1>2, XorTurn
<1>4. sm4Lt(w, a) = sm4Lt(w, b)
  BY <1>3, LtLow
<1> HIDE DEF a, b
<1>5. Low(u[35-j]) = Low(u[31-j]) \oplus Low(sm4Lt(w, a))
  BY XorLow DEF sm4F, a
<1>6. Low(sm4F(w, p[j], p[j+1], p[j+2], p[j+3], rk)) = Low(p[j]) \oplus Low(sm4Lt(w, a))
  BY <1>4, XorLow DEF sm4F, b
<1> QED
  BY <1>5, <1>6, XorCancel
-----------------------------------------------------------------------------
(* Types *)

LEMMA BitsType ==
  ASSUME NEW n
  PROVE  Bits(n) \in SUBSET (0..7)
BY DEF Bits

LEMMA WordType ==
  ASSUME NEW bytes
  PROVE  Word(bytes) \in SUBSET (0..31)
<1> SUFFICES ASSUME NEW x \in Word(bytes)
             PROVE  x \in 0..31
  OBVIOUS
<1>1. PICK n \in 1..4 : x \in {b + 8 * (4 - n) : b \in Bits(bytes[n])}
  BY DEF Word
<1>2. PICK b \in Bits(bytes[n]) : x = b + 8 * (4 - n)
  BY <1>1
<1>3. b \in 0..7
  BY BitsType
<1>4. n = 1 \/ n = 2 \/ n = 3 \/ n = 4
  OBVIOUS
<1> QED
  BY <1>2, <1>3, <1>4

LEMMA SubstituteType ==
  ASSUME NEW a
  PROVE  Substitute(a) \in SUBSET (0..31)
<1> SUFFICES ASSUME NEW x \in Substitute(a)
             PROVE  x \in 0..31
  OBVIOUS
<1>1. PICK n \in 0..3 : x \in {b + 8 * n : b \in Sbox[Byte(a, n)]}
  BY DEF Substitute
<1>2. PICK b \in Sbox[Byte(a, n)] : x = b + 8 * n
  BY <1>1
<1>3. Sbox[Byte(a, n)] \in SUBSET (0..7)
  BY ByteLow, BitsType DEF Sbox
<1>4. b \in 0..7
  BY <1>3
<1>5. n = 0 \/ n = 1 \/ n = 2 \/ n = 3
  OBVIOUS
<1> QED
  BY <1>2, <1>4, <1>5

LEMMA RotlType ==
  ASSUME NEW w \in Nat, NEW a \in SUBSET (0..w-1), NEW n \in 0..32
  PROVE  ROTL(w, a, n) \in SUBSET (0..w-1)
BY DEF ROTL, SHL, SHR

LEMMA RoundType ==
  ASSUME NEW w \in Nat, w >= 32, NEW x, NEW a \in SUBSET (0..w-1)
  PROVE  /\ a \oplus sm4Lt(w, x) \in SUBSET (0..w-1)
         /\ a \oplus sm4CalciRK(w, x) \in SUBSET (0..w-1)
<1> DEFINE W == SUBSET (0..w-1)
           bb == Substitute(x)
           r(n) == ROTL(w, bb, n)
<1>1. bb \in W
  BY SubstituteType
<1>2. \A n \in 0..32 : r(n) \in W
  BY <1>1, RotlType
<1>3. \A p, q \in W : p \oplus q \in W
  BY XorType
<1>4. /\ sm4Lt(w, x) = bb \oplus r(2) \oplus r(10) \oplus r(18) \oplus r(24)
      /\ sm4CalciRK(w, x) = bb \oplus r(13) \oplus r(23)
  BY DEF sm4Lt, sm4CalciRK
<1>5. r(2) \in W /\ r(10) \in W /\ r(18) \in W /\ r(24) \in W /\ r(13) \in W /\ r(23) \in W
  BY <1>2
<1>6. a \in W
  OBVIOUS
<1> HIDE DEF W, bb, r
<1>7. a \oplus sm4Lt(w, x) \in W /\ a \oplus sm4CalciRK(w, x) \in W
  BY <1>1, <1>3, <1>4, <1>5, <1>6
<1> QED
  BY <1>7 DEF W

LEMMA BlockXor ==
  ASSUME NEW p \in Block, NEW q \in Block
  PROVE  XorBlock(p, q) \in Block /\ XorBlock(XorBlock(p, q), q) = p
<1>1. \A n \in 0..3 : p[n] \oplus q[n] \in SUBSET (0..31)
  BY XorType DEF Block
<1>2. XorBlock(p, q) \in Block
  BY <1>1 DEF XorBlock, Block
<1>3. \A n \in 0..3 : (p[n] \oplus q[n]) \oplus q[n] = p[n]
  BY XorCancel
<1> QED
  BY <1>2, <1>3 DEF XorBlock, Block

LEMMA ReversedType ==
  ASSUME NEW u
  PROVE  Reversed(u) \in Block
BY DEF Reversed, Block, Low

\* Sm4TypeOK, the longs' type given a name.
Long == SUBSET (0..width-1)

Typed ==
  /\ msg \in Messages /\ key \in Keys /\ iv \in IVs
  /\ cbc \in BOOLEAN /\ width \in Widths
  /\ pc \in {"key", "swap", "block", "round", "done", "overrun"}
  /\ job \in {"encrypt", "decrypt"}
  /\ i \in 0..32
  /\ k \in [0..35 -> Long] /\ ulbuf \in [0..35 -> Long]
  /\ ek \in [0..35 -> Long]
  /\ sk \in [0..31 -> Long]
  /\ ivec \in Block
  /\ input \in Seq(Block) /\ output \in Seq(Block)
  /\ trace \in Seq([0..35 -> Long])

LEMMA TypedIsTypeOK == (Sm4TypeOK <=> Typed) /\ (Sm4TypeOK' <=> Typed')
BY DEF Sm4TypeOK, Typed, Long

LEMMA Width ==
  ASSUME width \in Widths
  PROVE  width \in Nat /\ width >= 32
BY Sm4Assumption

LEMMA LongFacts ==
  ASSUME width \in Widths
  PROVE  /\ \A a \in Long : \A x : /\ a \oplus sm4Lt(width, x) \in Long
                                   /\ a \oplus sm4CalciRK(width, x) \in Long
         /\ SUBSET (0..31) \subseteq Long
         /\ {} \in Long
<1>1. width \in Nat /\ width >= 32
  BY Width
<1>2. ASSUME NEW a \in Long, NEW x
      PROVE  a \oplus sm4Lt(width, x) \in Long /\ a \oplus sm4CalciRK(width, x) \in Long
  BY <1>1, RoundType DEF Long
<1>3. \A n \in 0..31 : n \in 0..width-1
  BY <1>1
<1>4. SUBSET (0..31) \subseteq Long /\ {} \in Long
  BY <1>3 DEF Long
<1> QED
  BY <1>2, <1>4

LEMMA StartType ==
  ASSUME NEW b \in Block, width \in Widths
  PROVE  Start(b) \in [0..35 -> Long]
<1>1. \A n \in 0..3 : b[n] \in SUBSET (0..31)
  BY DEF Block
<1>2. \A n \in 0..35 : (IF n \in 0..3 THEN b[n] ELSE {}) \in Long
  BY <1>1, LongFacts
<1> QED
  BY <1>2 DEF Start

LEMMA StartKeyType ==
  ASSUME width \in Widths, key \in Keys
  PROVE  StartKey \in [0..35 -> Long]
<1> DEFINE b == [n \in 0..3 |-> key[n] \oplus Word(FK[n + 1])]
<1>1. ASSUME NEW n \in 0..3
      PROVE  key[n] \oplus Word(FK[n + 1]) \in SUBSET (0..31)
  <2>1. key[n] \in SUBSET (0..31)
    BY Sm4Assumption DEF Block
  <2>2. Word(FK[n + 1]) \in SUBSET (0..31)
    BY WordType
  <2>3. \A p, q \in SUBSET (0..31) : p \oplus q \in SUBSET (0..31)
    BY XorType
  <2> QED
    BY <2>1, <2>2, <2>3, Zenon
<1>2. b \in Block
  BY <1>1 DEF Block
<1> QED
  BY <1>2, StartType DEF StartKey

LEMMA InitType == Init => Sm4TypeOK
<1> SUFFICES ASSUME Init
             PROVE  Typed
  BY TypedIsTypeOK
<1>1. {} \in Long
  BY LongFacts DEF Init
<1>2. k \in [0..35 -> Long]
  BY StartKeyType DEF Init
<1>3. ulbuf \in [0..35 -> Long] /\ sk \in [0..31 -> Long]
  BY <1>1 DEF Init
<1>4. msg \in Seq(Block) /\ iv \in Block
  BY Sm4Assumption DEF Init
<1> QED
  BY <1>2, <1>3, <1>4 DEF Init, Typed

\* The loops stay within their bounds, and a block is under way only while there
\* is one to read.
InBounds ==
  /\ pc = "swap" => i \in 0..15
  /\ pc = "round" => input # <<>>

LEMMA TypeStep == Sm4TypeOK /\ InBounds /\ [Next]_vars => Sm4TypeOK' /\ UNCHANGED Long
<1> SUFFICES ASSUME Typed, InBounds, [Next]_vars
             PROVE  Typed' /\ Long' = Long
  BY TypedIsTypeOK
<1> DEFINE A == [0..35 -> Long]
<1>a. UNCHANGED args
  BY DEF Next, vars, KeyRound, KeyDone, SwapKeys, BeginBlock, Round, EndBlock, Overrun,
             HandOver, Finish
<1>b. Long' = Long
  BY <1>a DEF Long, args
<1>c. /\ UNCHANGED <<msg, key, iv, cbc, width>> /\ msg \in Messages /\ key \in Keys /\ iv \in IVs
      /\ cbc \in BOOLEAN /\ width \in Widths
  BY <1>a DEF args, Typed
<1>d. /\ pc \in {"key", "swap", "block", "round", "done", "overrun"}
      /\ job \in {"encrypt", "decrypt"} /\ i \in 0..32
  BY DEF Typed
<1>e. k \in A /\ ulbuf \in A /\ ek \in A /\ sk \in [0..31 -> Long]
  BY DEF Typed
<1>f. input \in Seq(Block) /\ output \in Seq(Block) /\ trace \in Seq(A) /\ ivec \in Block
  BY DEF Typed
\* What is left to show of a step.
<1> DEFINE Rest ==
      /\ pc' \in {"key", "swap", "block", "round", "done", "overrun"}
      /\ job' \in {"encrypt", "decrypt"} /\ i' \in 0..32
      /\ k' \in A /\ ulbuf' \in A /\ ek' \in A /\ sk' \in [0..31 -> Long]
      /\ input' \in Seq(Block) /\ output' \in Seq(Block) /\ trace' \in Seq(A) /\ ivec' \in Block
<1>g. SUFFICES Rest
  BY <1>b, <1>c DEF Typed
<1>1. CASE KeyRound
  <2> DEFINE rk == k[i] \oplus sm4CalciRK(width, k[i+1] \oplus k[i+2] \oplus k[i+3] \oplus CK[i])
  <2>1. /\ k' = [k EXCEPT ![i+4] = rk] /\ sk' = [sk EXCEPT ![i] = rk] /\ i' = i + 1 /\ i < 32
        /\ UNCHANGED <<pc, job, ulbuf, ivec, input, output, ek, trace>>
    BY <1>1 DEF KeyRound
  <2>2. i \in 0..31 /\ i + 4 \in 0..35 /\ i + 1 \in 0..32
    BY <1>d, <2>1
  <2>3. k[i] \in Long
    BY <1>e, <2>2
  <2>4. rk \in Long
    BY <1>c, <2>3, LongFacts
  <2> HIDE DEF rk
  <2>5. k' \in A /\ sk' \in [0..31 -> Long]
    BY <1>e, <2>1, <2>2, <2>4
  <2> QED
    BY <1>d, <1>e, <1>f, <2>1, <2>2, <2>5
<1>2. CASE KeyDone
  <2>1. /\ pc' \in {"block", "swap"} /\ ek' \in {k, ek} /\ i' = 0
        /\ UNCHANGED <<job, k, sk, ulbuf, ivec, input, output, trace>>
    BY <1>2 DEF KeyDone
  <2>2. k' \in A /\ ulbuf' \in A /\ ek' \in A /\ sk' \in [0..31 -> Long]
    BY <1>e, <2>1
  <2> HIDE DEF A
  <2> QED
    BY <1>d, <1>f, <2>1, <2>2
<1>3. CASE SwapKeys
  <2>1. /\ sk' = [sk EXCEPT ![i] = sk[31 - i], ![31 - i] = sk[i]] /\ pc = "swap"
        /\ pc' \in {"swap", "block"} /\ i' \in {0, i + 1}
        /\ UNCHANGED <<job, k, ulbuf, ivec, input, output, ek, trace>>
    BY <1>3 DEF SwapKeys
  <2>2. i \in 0..31 /\ 31 - i \in 0..31 /\ i' \in 0..32
    BY <2>1 DEF InBounds
  <2>3. sk' \in [0..31 -> Long]
    BY <1>e, <2>1, <2>2
  <2> QED
    BY <1>d, <1>e, <1>f, <2>1, <2>2, <2>3
<1>4. CASE BeginBlock
  <2> DEFINE block == IF cbc /\ job = "encrypt" THEN XorBlock(Head(input), ivec) ELSE Head(input)
  <2>1. /\ ulbuf' = Start(block) /\ input # <<>> /\ pc' = "round" /\ i' = 0
        /\ UNCHANGED <<job, k, sk, ivec, input, output, ek, trace>>
    BY <1>4 DEF BeginBlock
  <2>2. Head(input) \in Block
    BY <1>f, <2>1
  <2>3. block \in Block
    BY <1>f, <2>2, BlockXor
  <2> HIDE DEF block
  <2>4. ulbuf' \in A
    BY <1>c, <2>1, <2>3, StartType
  <2> QED
    BY <1>d, <1>e, <1>f, <2>1, <2>4
<1>5. CASE Round
  <2> DEFINE y == ulbuf[i] \oplus sm4Lt(width, ulbuf[i+1] \oplus ulbuf[i+2] \oplus ulbuf[i+3] \oplus sk[i])
  <2>1. /\ ulbuf' = [ulbuf EXCEPT ![i+4] = y] /\ i' = i + 1 /\ i < 32
        /\ UNCHANGED <<pc, job, k, sk, ivec, input, output, ek, trace>>
    BY <1>5 DEF Round, sm4F
  <2>2. i \in 0..31 /\ i + 4 \in 0..35 /\ i + 1 \in 0..32
    BY <1>d, <2>1
  <2>3. ulbuf[i] \in Long
    BY <1>e, <2>2
  <2>4. y \in Long
    BY <1>c, <2>3, LongFacts
  <2> HIDE DEF y
  <2>5. ulbuf' \in A
    BY <1>e, <2>1, <2>2, <2>4
  <2> QED
    BY <1>d, <1>e, <1>f, <2>1, <2>2, <2>5
<1>6. CASE EndBlock
  <2> DEFINE out == Reversed(ulbuf)
             block == IF cbc /\ job = "decrypt" THEN XorBlock(out, ivec) ELSE out
  <2>1. out \in Block /\ block \in Block
    BY <1>f, ReversedType, BlockXor
  <2>2. /\ output' = Append(output, block) /\ pc = "round"
        /\ ivec' = (IF ~cbc THEN ivec ELSE IF job = "encrypt" THEN out ELSE Head(input))
        /\ input' = Tail(input)
        /\ trace' = (IF job = "encrypt" THEN Append(trace, ulbuf) ELSE trace)
        /\ pc' = "block" /\ i' = 0
        /\ UNCHANGED <<job, k, sk, ulbuf, ek>>
    BY <1>6 DEF EndBlock
  <2> HIDE DEF out, block
  <2>3. Head(input) \in Block /\ Tail(input) \in Seq(Block)
    BY <1>f, <2>2 DEF InBounds
  <2>4. output' \in Seq(Block)
    BY <1>f, <2>1, <2>2
  <2>5. ivec' \in Block
    BY <1>f, <2>1, <2>2, <2>3
  <2> HIDE DEF A
  <2>6. trace' \in Seq(A)
    BY <1>e, <1>f, <2>2
  <2> QED
    BY <1>d, <1>e, <2>2, <2>3, <2>4, <2>5, <2>6
<1>7. CASE HandOver
  <2>1. /\ job' = "decrypt" /\ pc' = "key" /\ i' = 0 /\ k' = StartKey
        /\ ivec' = iv /\ input' = output /\ output' = <<>>
        /\ UNCHANGED <<sk, ulbuf, ek, trace>>
    BY <1>7 DEF HandOver
  <2>2. StartKey \in A /\ iv \in Block
    BY <1>c, StartKeyType, Sm4Assumption
  <2> QED
    BY <1>d, <1>e, <1>f, <2>1, <2>2
<1>8. CASE Finish \/ Overrun \/ UNCHANGED vars
  <2>1. /\ pc' \in {pc, "done", "overrun"}
        /\ UNCHANGED <<job, i, k, sk, ulbuf, ivec, input, output, ek, trace>>
    BY <1>8 DEF Finish, Overrun, vars
  <2> QED
    BY <1>d, <1>e, <1>f, <2>1
<1> QED
  BY <1>1, <1>2, <1>3, <1>4, <1>5, <1>6, <1>7, <1>8 DEF Next
-----------------------------------------------------------------------------
(* The invariant *)

\* The first m rounds of sm4_setkey's loop have made x of the key.
Schedule(x, m) ==
  /\ \A n \in 0..3 : x[n] = StartKey[n]
  /\ \A n \in 0..m-1 :
       x[n+4] = x[n] \oplus sm4CalciRK(width, x[n+1] \oplus x[n+2] \oplus x[n+3] \oplus CK[n])

\* The encryption's schedule, and the one of the decryption while it is made.
SameKeys ==
  /\ pc = "key" /\ job = "encrypt" => Schedule(k, i) /\ \A n \in 0..i-1 : sk[n] = k[n+4]
  /\ ~(pc = "key" /\ job = "encrypt") => Schedule(ek, 32)
  /\ pc \in {"block", "round"} /\ job = "encrypt" => \A n \in 0..31 : sk[n] = ek[n+4]
  /\ pc = "key" /\ job = "decrypt" =>
       (\A n \in 0..i+3 : k[n] = ek[n]) /\ \A n \in 0..i-1 : sk[n] = ek[n+4]

\* The swaps: done from both ends so far, or all done.
SwappedKeys ==
  /\ pc \in {"swap", "done"} => job = "decrypt"
  /\ pc = "swap" =>
       \A n \in 0..31 : sk[n] = IF n < i \/ n > 31 - i THEN ek[35-n] ELSE ek[n+4]
  /\ pc \in {"block", "round", "done"} /\ job = "decrypt" => \A n \in 0..31 : sk[n] = ek[35-n]

\* The iv of the b-th block, and what sm4_one_round is given to encrypt it.
Before(b) == IF b = 1 THEN iv ELSE Reversed(trace[b-1])
Plain(b) == IF cbc THEN XorBlock(msg[b], Before(b)) ELSE msg[b]

\* The first m rounds of an encryption have made u.
Rounds(u, m) ==
  \A n \in 0..m-1 : u[n+4] = sm4F(width, u[n], u[n+1], u[n+2], u[n+3], ek[n+4])

Traces ==
  \A b \in 1..Len(trace) :
    /\ \A n \in 0..3 : trace[b][n] = Plain(b)[n]
    /\ Rounds(trace[b], 32)

Encrypting ==
  pc = "round" /\ job = "encrypt" =>
    /\ \A n \in 0..3 : ulbuf[n] = Plain(Len(trace) + 1)[n]
    /\ Rounds(ulbuf, i)

\* Which blocks have been read and written.
Blocks ==
  /\ Len(input) = Len(msg) - Len(output)
  /\ job = "encrypt" =>
       /\ Len(trace) = Len(output)
       /\ \A b \in 1..Len(output) : output[b] = Reversed(trace[b])
       /\ \A b \in 1..Len(input) : input[b] = msg[Len(output) + b]
  /\ job = "decrypt" =>
       /\ Len(trace) = Len(msg)
       /\ \A b \in 1..Len(output) : output[b] = msg[b]
       /\ \A b \in 1..Len(input) : input[b] = Reversed(trace[Len(output) + b])
  /\ cbc => ivec = Before(Len(output) + 1)
  /\ pc = "key" => output = <<>>
  /\ pc = "key" /\ job = "encrypt" => trace = <<>>
  /\ pc = "done" => input = <<>>

Sm4Inv ==
  /\ Sm4TypeOK /\ InBounds /\ SameKeys /\ SwappedKeys /\ Traces /\ Encrypting /\ Blocks
  /\ Unwinds

LEMMA InitInv == Init => Sm4Inv
<1> SUFFICES ASSUME Init
             PROVE  Sm4Inv
  OBVIOUS
<1>1. Sm4TypeOK
  BY InitType
<1>2. pc = "key" /\ job = "encrypt" /\ i = 0 /\ k = StartKey /\ trace = <<>> /\ output = <<>>
  BY DEF Init
<1>3. InBounds /\ SwappedKeys /\ Traces /\ Encrypting /\ Unwinds
  BY <1>2 DEF InBounds, SwappedKeys, Traces, Encrypting, Unwinds
<1>4. SameKeys
  BY <1>2 DEF SameKeys, Schedule
<1>5. Blocks
  <2>1. input = msg /\ ivec = iv /\ msg \in Seq(Block)
    BY Sm4Assumption DEF Init
  <2> QED
    BY <1>2, <2>1 DEF Blocks, Before
<1> QED
  BY <1>1, <1>3, <1>4, <1>5 DEF Sm4Inv

\* Steps that read and write no block, and that leave the traces alone.
LEMMA SameBlocks ==
  ASSUME Blocks, Traces, UNCHANGED <<args, job, output, input, ivec, trace, ek>>,
         pc' = "done" => input = <<>>, pc' = "key" => pc = "key"
  PROVE  Blocks' /\ Traces'
<1>1. /\ \A b : Before(b)' = Before(b)
      /\ \A b : Plain(b)' = Plain(b)
  BY DEF args, Before, Plain
<1>2. Blocks'
  BY <1>1 DEF Blocks, args
<1>3. Traces'
  BY <1>1 DEF Traces, Rounds, args
<1> QED
  BY <1>2, <1>3

LEMMA KeyRoundStep ==
  ASSUME Sm4Inv, Sm4TypeOK', KeyRound
  PROVE  Sm4Inv'
<1> DEFINE x == k[i+1] \oplus k[i+2] \oplus k[i+3] \oplus CK[i]
           rk == k[i] \oplus sm4CalciRK(width, x)
<1>1. /\ k' = [k EXCEPT ![i+4] = rk] /\ sk' = [sk EXCEPT ![i] = rk] /\ i' = i + 1 /\ i < 32
      /\ pc = "key" /\ pc' = "key"
      /\ UNCHANGED <<pc, job, ulbuf, ivec, input, output, args, ek, trace>>
  BY DEF KeyRound
<1>2. i \in 0..31 /\ DOMAIN k = 0..35 /\ DOMAIN sk = 0..31 /\ job \in {"encrypt", "decrypt"}
  BY <1>1 DEF Sm4Inv, Sm4TypeOK
<1>3. Blocks' /\ Traces'
  BY <1>1, SameBlocks DEF Sm4Inv
<1>4. InBounds' /\ SwappedKeys' /\ Encrypting' /\ Unwinds'
  BY <1>1 DEF InBounds, SwappedKeys, Encrypting, Unwinds
<1> HIDE DEF rk
<1>5. /\ \A n \in 0..35 : k'[n] = IF n = i + 4 THEN rk ELSE k[n]
      /\ \A n \in 0..31 : sk'[n] = IF n = i THEN rk ELSE sk[n]
  BY <1>1, <1>2
<1>6. width' = width /\ \A n \in 0..3 : StartKey'[n] = StartKey[n]
  BY <1>1 DEF args, StartKey
<1>7. SameKeys'
  <2>1. CASE job = "encrypt"
    <3>1. Schedule(k, i) /\ \A n \in 0..i-1 : sk[n] = k[n+4]
      BY <1>1, <2>1 DEF Sm4Inv, SameKeys
    <3>2. \A n \in 0..3 : k'[n] = StartKey'[n]
      BY <1>2, <1>5, <1>6, <3>1 DEF Schedule
    <3>3. ASSUME NEW n \in 0..i
          PROVE  k'[n+4] = k'[n] \oplus sm4CalciRK(width, k'[n+1] \oplus k'[n+2] \oplus k'[n+3] \oplus CK[n])
      <4>1. k'[n] = k[n] /\ k'[n+1] = k[n+1] /\ k'[n+2] = k[n+2] /\ k'[n+3] = k[n+3]
        BY <1>2, <1>5
      <4>2. CASE n = i
        <5>1. k'[n+4] = rk
          BY <1>2, <1>5, <4>2
        <5>2. rk = k[n] \oplus sm4CalciRK(width, k[n+1] \oplus k[n+2] \oplus k[n+3] \oplus CK[n])
          BY <4>2 DEF rk
        <5> HIDE DEF rk
        <5> QED
          BY <4>1, <5>1, <5>2
      <4>3. CASE n # i
        <5>1. k'[n+4] = k[n+4] /\ n \in 0..i-1
          BY <1>2, <1>5, <4>3
        <5> QED
          BY <3>1, <4>1, <5>1 DEF Schedule
      <4> QED
        BY <4>2, <4>3
    <3>4. \A n \in 0..i : sk'[n] = k'[n+4]
      BY <1>2, <1>5, <3>1
    <3>5. 0..i'-1 = 0..i
      BY <1>1, <1>2
    <3>6. Schedule(k, i)'
      BY <1>6, <3>2, <3>3, <3>5 DEF Schedule
    <3> QED
      BY <1>1, <2>1, <3>4, <3>5, <3>6 DEF SameKeys
  <2>2. CASE job = "decrypt"
    <3>1. /\ Schedule(ek, 32)
          /\ \A n \in 0..i+3 : k[n] = ek[n]
          /\ \A n \in 0..i-1 : sk[n] = ek[n+4]
      BY <1>1, <2>2 DEF Sm4Inv, SameKeys
    <3>2. rk = ek[i+4]
      <4>1. k[i] = ek[i] /\ k[i+1] = ek[i+1] /\ k[i+2] = ek[i+2] /\ k[i+3] = ek[i+3]
        BY <1>2, <3>1
      <4> QED
        BY <1>2, <3>1, <4>1 DEF Schedule, rk
    <3>3. \A n \in 0..i'+3 : k'[n] = ek[n]
      BY <1>1, <1>2, <1>5, <3>1, <3>2
    <3>4. \A n \in 0..i'-1 : sk'[n] = ek[n+4]
      BY <1>1, <1>2, <1>5, <3>1, <3>2
    <3>5. Schedule(ek, 32)'
      BY <1>1, <1>6, <3>1 DEF Schedule
    <3> QED
      BY <1>1, <2>2, <3>3, <3>4, <3>5 DEF SameKeys
  <2> QED
    BY <1>2, <2>1, <2>2
<1> QED
  BY <1>3, <1>4, <1>7 DEF Sm4Inv

LEMMA KeyDoneStep ==
  ASSUME Sm4Inv, Sm4TypeOK', KeyDone
  PROVE  Sm4Inv'
<1>1. /\ pc = "key" /\ i = 32 /\ i' = 0
      /\ pc' = (IF job = "encrypt" THEN "block" ELSE "swap")
      /\ ek' = (IF job = "encrypt" THEN k ELSE ek)
      /\ UNCHANGED <<job, k, sk, ulbuf, ivec, input, output, args, trace>>
  BY DEF KeyDone
<1>2. job \in {"encrypt", "decrypt"}
  BY DEF Sm4Inv, Sm4TypeOK
<1>3. width' = width /\ \A n \in 0..3 : StartKey'[n] = StartKey[n]
  BY <1>1 DEF args, StartKey
<1>4. InBounds' /\ Encrypting' /\ Unwinds'
  BY <1>1 DEF InBounds, Encrypting, Unwinds
<1>5. CASE job = "encrypt"
  <2>1. Schedule(k, 32) /\ \A n \in 0..31 : sk[n] = k[n+4]
    BY <1>1, <1>5 DEF Sm4Inv, SameKeys
  <2>2. Schedule(k, 32)'
    BY <1>1, <1>3, <2>1 DEF Schedule
  <2>3. SameKeys'
    BY <1>1, <1>5, <2>1, <2>2 DEF SameKeys, Schedule
  <2>4. SwappedKeys'
    BY <1>1, <1>5 DEF SwappedKeys
  <2>5. trace = <<>> /\ output = <<>> /\ trace' = <<>>
    BY <1>1, <1>5 DEF Sm4Inv, Blocks
  <2>6. Traces'
    BY <2>5 DEF Traces
  <2>7. Blocks'
    BY <1>1, <1>5, <2>5 DEF Sm4Inv, Blocks, Before, args
  <2> QED
    BY <1>4, <2>3, <2>4, <2>6, <2>7 DEF Sm4Inv
<1>6. CASE job = "decrypt"
  <2>1. UNCHANGED ek /\ pc' = "swap"
    BY <1>1, <1>6
  <2>2. /\ Schedule(ek, 32) /\ \A n \in 0..31 : sk[n] = ek[n+4]
    BY <1>1, <1>6 DEF Sm4Inv, SameKeys
  <2>3. Schedule(ek, 32)'
    BY <1>3, <2>1, <2>2 DEF Schedule
  <2>4. SameKeys'
    BY <1>1, <1>6, <2>1, <2>3 DEF SameKeys
  <2>5. SwappedKeys'
    BY <1>1, <1>6, <2>1, <2>2 DEF SwappedKeys
  <2>6. Blocks' /\ Traces'
    BY <1>1, <2>1, SameBlocks DEF Sm4Inv
  <2> QED
    BY <1>4, <2>4, <2>5, <2>6 DEF Sm4Inv
<1> QED
  BY <1>2, <1>5, <1>6

\* Steps that leave the schedules alone.
LEMMA SameSchedule ==
  ASSUME SameKeys, UNCHANGED <<args, job, ek, sk>>, pc \in {"swap", "block", "round"},
         pc' \in {"swap", "block", "round"}, job = "encrypt" => pc # "swap"
  PROVE  SameKeys'
<1>1. \A n \in 0..3 : StartKey'[n] = StartKey[n]
  BY DEF args, StartKey
<1>2. Schedule(ek, 32) /\ width' = width
  BY DEF SameKeys, args
<1>3. Schedule(ek, 32)'
  BY <1>1, <1>2 DEF Schedule
<1>4. job = "encrypt" => \A n \in 0..31 : sk[n] = ek[n+4]
  BY DEF SameKeys
<1> QED
  BY <1>3, <1>4 DEF SameKeys

LEMMA SwapKeysStep ==
  ASSUME Sm4Inv, Sm4TypeOK', SwapKeys
  PROVE  Sm4Inv'
<1>1. /\ sk' = [sk EXCEPT ![i] = sk[31 - i], ![31 - i] = sk[i]] /\ pc = "swap"
      /\ (pc' = "block" /\ i = 15 /\ i' = 0) \/ (pc' = "swap" /\ i # 15 /\ i' = i + 1)
      /\ UNCHANGED <<job, k, ulbuf, ivec, input, output, args, ek, trace>>
  BY DEF SwapKeys
<1>2. i \in 0..15 /\ job = "decrypt" /\ DOMAIN sk = 0..31
  BY <1>1 DEF Sm4Inv, Sm4TypeOK, InBounds, SwappedKeys
<1>3. Blocks' /\ Traces'
  BY <1>1, SameBlocks DEF Sm4Inv
<1>4. InBounds' /\ Encrypting' /\ Unwinds'
  <2>1. pc' # "round" /\ (pc' = "swap" => i' \in 0..15)
    BY <1>1, <1>2
  <2> QED
    BY <2>1 DEF InBounds, Encrypting, Unwinds
<1>5. SameKeys'
  <2>1. Schedule(ek, 32) /\ width' = width /\ \A n \in 0..3 : StartKey'[n] = StartKey[n]
    BY <1>1 DEF Sm4Inv, SameKeys, args, StartKey
  <2>2. Schedule(ek, 32)'
    BY <1>1, <2>1 DEF Schedule
  <2> QED
    BY <1>1, <1>2, <2>2 DEF SameKeys
<1>6. \A n \in 0..31 : sk[n] = IF n < i \/ n > 31 - i THEN ek[35-n] ELSE ek[n+4]
  BY <1>1 DEF Sm4Inv, SwappedKeys
<1>7. \A n \in 0..31 : sk'[n] = IF n = 31 - i THEN sk[i] ELSE IF n = i THEN sk[31-i] ELSE sk[n]
  BY <1>1, <1>2
<1>8. sk[i] = ek[35 - (31 - i)] /\ sk[31-i] = ek[35-i]
  <2>1. i \in 0..31 /\ 31 - i \in 0..31 /\ i + 4 = 35 - (31 - i) /\ (31 - i) + 4 = 35 - i
    BY <1>2
  <2>2. ~(i < i \/ i > 31 - i) /\ ~(31 - i < i \/ 31 - i > 31 - i)
    BY <1>2
  <2> QED
    BY <1>6, <2>1, <2>2
<1>9. \A n \in 0..31 : sk'[n] = IF n <= i \/ n >= 31 - i THEN ek[35-n] ELSE ek[n+4]
  <2> SUFFICES ASSUME NEW n \in 0..31
               PROVE  sk'[n] = IF n <= i \/ n >= 31 - i THEN ek[35-n] ELSE ek[n+4]
    OBVIOUS
  <2>1. CASE n = i \/ n = 31 - i
    BY <1>2, <1>7, <1>8, <2>1
  <2>2. CASE n # i /\ n # 31 - i
    BY <1>2, <1>6, <1>7, <2>2
  <2> QED
    BY <2>1, <2>2
<1>10. SwappedKeys'
  <2>1. CASE pc' = "block" /\ i = 15
    <3>1. \A n \in 0..31 : n <= 15 \/ n >= 31 - 15
      OBVIOUS
    <3>2. \A n \in 0..31 : sk'[n] = ek'[35-n]
      BY <1>1, <1>9, <2>1, <3>1
    <3> QED
      BY <1>1, <1>2, <2>1, <3>2 DEF SwappedKeys
  <2>2. CASE pc' = "swap" /\ i' = i + 1
    <3>1. \A n \in 0..31 : (n <= i \/ n >= 31 - i) <=> (n < i' \/ n > 31 - i')
      BY <1>2, <2>2
    <3>2. \A n \in 0..31 : sk'[n] = IF n < i' \/ n > 31 - i' THEN ek'[35-n] ELSE ek'[n+4]
      BY <1>1, <1>9, <3>1
    <3> QED
      BY <1>1, <1>2, <2>2, <3>2 DEF SwappedKeys
  <2> QED
    BY <1>1, <2>1, <2>2
<1> QED
  BY <1>3, <1>4, <1>5, <1>10 DEF Sm4Inv

LEMMA BeginBlockStep ==
  ASSUME Sm4Inv, Sm4TypeOK', BeginBlock
  PROVE  Sm4Inv'
<1> DEFINE block == IF cbc /\ job = "encrypt" THEN XorBlock(Head(input), ivec) ELSE Head(input)
<1>1. /\ ulbuf' = Start(block) /\ input # <<>> /\ pc = "block" /\ pc' = "round" /\ i' = 0
      /\ UNCHANGED <<job, k, sk, ivec, input, output, args, ek, trace>>
  BY DEF BeginBlock
<1>2. /\ input \in Seq(Block) /\ output \in Seq(Block) /\ msg \in Seq(Block)
      /\ job \in {"encrypt", "decrypt"}
  BY Sm4Assumption DEF Sm4Inv, Sm4TypeOK
<1>3. Blocks' /\ Traces'
  BY <1>1, SameBlocks DEF Sm4Inv
<1>4. InBounds' /\ SwappedKeys'
  BY <1>1 DEF Sm4Inv, InBounds, SwappedKeys
<1>5. SameKeys'
  BY <1>1, SameSchedule DEF Sm4Inv
<1>6. Head(input) = input[1] /\ 1 \in 1..Len(input)
  BY <1>1, <1>2
<1>7. \A n \in 0..3 : ulbuf'[n] = block[n]
  BY <1>1 DEF Start
<1>8. Encrypting'
  <2> SUFFICES ASSUME job = "encrypt"
               PROVE  \A n \in 0..3 : ulbuf'[n] = Plain(Len(trace) + 1)'[n]
    BY <1>1 DEF Encrypting, Rounds
  <2>1. input[1] = msg[Len(output) + 1] /\ Len(trace) = Len(output)
        /\ (cbc => ivec = Before(Len(output) + 1))
    BY <1>6 DEF Sm4Inv, Blocks
  <2>2. block = Plain(Len(trace) + 1)
    BY <1>6, <2>1 DEF Plain
  <2>3. Plain(Len(trace) + 1)' = Plain(Len(trace) + 1)
    BY <1>1 DEF Plain, Before, args
  <2> QED
    BY <1>7, <2>2, <2>3
<1>9. Unwinds'
  <2> SUFFICES ASSUME job = "decrypt", NEW n \in 0..3
               PROVE  Low(ulbuf'[n]) = Low(trace[Len(output) + 1][35 - n])
    BY <1>1 DEF Unwinds
  <2>1. input[1] = Reversed(trace[Len(output) + 1])
    BY <1>6 DEF Sm4Inv, Blocks
  <2>2. ulbuf'[n] = Low(trace[Len(output) + 1][35 - n])
    BY <1>6, <1>7, <2>1 DEF Reversed
  <2> QED
    BY <2>2, XorLow
<1> QED
  BY <1>3, <1>4, <1>5, <1>8, <1>9 DEF Sm4Inv

LEMMA RoundStep ==
  ASSUME Sm4Inv, Sm4TypeOK', Round
  PROVE  Sm4Inv'
<1> DEFINE y == sm4F(width, ulbuf[i], ulbuf[i+1], ulbuf[i+2], ulbuf[i+3], sk[i])
<1>1. /\ ulbuf' = [ulbuf EXCEPT ![i+4] = y] /\ i' = i + 1 /\ i < 32
      /\ pc = "round" /\ pc' = "round"
      /\ UNCHANGED <<job, k, sk, ivec, input, output, args, ek, trace>>
  BY DEF Round
<1>2. i \in 0..31 /\ DOMAIN ulbuf = 0..35 /\ job \in {"encrypt", "decrypt"}
  BY <1>1 DEF Sm4Inv, Sm4TypeOK
<1>a. input \in Seq(Block) /\ output \in Seq(Block) /\ msg \in Seq(Block)
  BY Sm4Assumption DEF Sm4Inv, Sm4TypeOK
<1>3. Blocks' /\ Traces'
  BY <1>1, SameBlocks DEF Sm4Inv
<1>4. InBounds' /\ SwappedKeys'
  BY <1>1 DEF Sm4Inv, InBounds, SwappedKeys
<1>5. SameKeys'
  BY <1>1, SameSchedule DEF Sm4Inv
<1> HIDE DEF y
<1>6. \A n \in 0..35 : ulbuf'[n] = IF n = i + 4 THEN y ELSE ulbuf[n]
  BY <1>1, <1>2
<1>7. 0..i'-1 = 0..i /\ 0..i'+3 = 0..i+4
  BY <1>1, <1>2
<1>8. Encrypting'
  <2> SUFFICES ASSUME job = "encrypt"
               PROVE  /\ \A n \in 0..3 : ulbuf'[n] = Plain(Len(trace) + 1)'[n]
                      /\ Rounds(ulbuf, i)'
    BY <1>1 DEF Encrypting
  <2>1. /\ \A n \in 0..3 : ulbuf[n] = Plain(Len(trace) + 1)[n]
        /\ Rounds(ulbuf, i)
        /\ \A n \in 0..31 : sk[n] = ek[n+4]
    BY <1>1 DEF Sm4Inv, Encrypting, SameKeys
  <2>2. Plain(Len(trace) + 1)' = Plain(Len(trace) + 1) /\ width' = width
    BY <1>1 DEF Plain, Before, args
  <2>3. \A n \in 0..3 : ulbuf'[n] = Plain(Len(trace) + 1)'[n]
    <3>1. \A n \in 0..3 : ulbuf'[n] = ulbuf[n]
      BY <1>2, <1>6
    <3> QED
      BY <2>1, <2>2, <3>1
  <2>4. ASSUME NEW n \in 0..i
        PROVE  ulbuf'[n+4] = sm4F(width, ulbuf'[n], ulbuf'[n+1], ulbuf'[n+2], ulbuf'[n+3], ek[n+4])
    <3>1. /\ ulbuf'[n] = ulbuf[n] /\ ulbuf'[n+1] = ulbuf[n+1] /\ ulbuf'[n+2] = ulbuf[n+2]
          /\ ulbuf'[n+3] = ulbuf[n+3]
      BY <1>2, <1>6
    <3>2. CASE n = i
      <4>1. ulbuf'[n+4] = y
        BY <1>2, <1>6, <3>2
      <4>2. sk[i] = ek[n+4]
        BY <1>2, <2>1, <3>2
      <4> QED
        BY <3>1, <3>2, <4>1, <4>2 DEF y
    <3>3. CASE n # i
      <4>1. ulbuf'[n+4] = ulbuf[n+4] /\ n \in 0..i-1
        BY <1>2, <1>6, <3>3
      <4> QED
        BY <2>1, <3>1, <4>1 DEF Rounds
    <3> QED
      BY <3>2, <3>3
  <2>5. Rounds(ulbuf, i)'
    BY <1>1, <1>7, <2>2, <2>4 DEF Rounds
  <2> QED
    BY <2>3, <2>5
<1>9. Unwinds'
  <2> DEFINE u == trace[Len(output) + 1]
  <2> SUFFICES ASSUME job = "decrypt", NEW n \in 0..i+4
               PROVE  Low(ulbuf'[n]) = Low(u[35 - n])
    BY <1>1, <1>7 DEF Unwinds
  <2>1. \A m \in 0..i+3 : Low(ulbuf[m]) = Low(u[35 - m])
    BY <1>1 DEF Sm4Inv, Unwinds
  <2>2. sk[i] = ek[35-i]
    BY <1>1, <1>2 DEF Sm4Inv, SwappedKeys
  <2>3. Len(output) + 1 \in 1..Len(trace)
    <3>1. /\ Len(trace) = Len(msg) /\ Len(input) = Len(msg) - Len(output) /\ input # <<>>
      BY <1>1 DEF Sm4Inv, Blocks, InBounds
    <3>2. Len(input) > 0
      BY <1>a, <3>1
    <3> QED
      BY <1>a, <3>1, <3>2
  <2>4. Rounds(u, 32)
    BY <2>3 DEF Sm4Inv, Traces
  <2> HIDE DEF u
  <2>5. u[35-i] = sm4F(width, u[31-i], u[32-i], u[33-i], u[34-i], ek[35-i])
    <3>1. /\ 31 - i \in 0..32-1 /\ (31 - i) + 1 = 32 - i /\ (31 - i) + 2 = 33 - i
          /\ (31 - i) + 3 = 34 - i /\ (31 - i) + 4 = 35 - i
      BY <1>2
    <3> QED
      BY <2>4, <3>1 DEF Rounds
  <2>6. CASE n = i + 4
    <3>1. /\ Low(ulbuf[i]) = Low(u[35-i]) /\ Low(ulbuf[i+1]) = Low(u[34-i])
          /\ Low(ulbuf[i+2]) = Low(u[33-i]) /\ Low(ulbuf[i+3]) = Low(u[32-i])
      <4>1. /\ i \in 0..i+3 /\ i + 1 \in 0..i+3 /\ i + 2 \in 0..i+3 /\ i + 3 \in 0..i+3
            /\ 35 - (i + 1) = 34 - i /\ 35 - (i + 2) = 33 - i /\ 35 - (i + 3) = 32 - i
        BY <1>2
      <4> QED
        BY <2>1, <4>1
    <3>2. Low(y) = Low(u[31-i])
      <4>1. Low(sm4F(width, ulbuf[i], ulbuf[i+1], ulbuf[i+2], ulbuf[i+3], ek[35-i])) = Low(u[31-i])
        BY <2>5, <3>1, RoundBack
      <4> QED
        BY <2>2, <4>1 DEF y
    <3>3. ulbuf'[n] = y /\ 35 - n = 31 - i
      BY <1>2, <1>6, <2>6
    <3> QED
      BY <3>2, <3>3
  <2>7. CASE n # i + 4
    BY <1>2, <1>6, <2>1, <2>7
  <2> QED
    BY <2>6, <2>7
<1> QED
  BY <1>3, <1>4, <1>5, <1>8, <1>9 DEF Sm4Inv

\* The block put out at the end of a decryption is the one that was encrypted.
LEMMA BlockBack ==
  ASSUME Sm4Inv, EndBlock, job = "decrypt"
  PROVE  output' = Append(output, msg[Len(output) + 1])
<1> DEFINE b == Len(output) + 1
           u == trace[b]
           out == Reversed(ulbuf)
<1>1. /\ pc = "round" /\ i = 32
      /\ output' = Append(output, IF cbc THEN XorBlock(out, ivec) ELSE out)
  BY DEF EndBlock
<1>2. /\ input \in Seq(Block) /\ output \in Seq(Block) /\ msg \in Seq(Block) /\ ivec \in Block
  BY Sm4Assumption DEF Sm4Inv, Sm4TypeOK
<1>3. b \in 1..Len(trace) /\ b \in 1..Len(msg)
  <2>1. Len(trace) = Len(msg) /\ Len(input) = Len(msg) - Len(output) /\ input # <<>>
    BY <1>1 DEF Sm4Inv, Blocks, InBounds
  <2>2. Len(input) > 0
    BY <1>2, <2>1
  <2> QED
    BY <1>2, <2>1, <2>2
<1>4. msg[b] \in Block
  BY <1>2, <1>3
<1>5. \A n \in 0..3 : out[n] = Low(u[n])
  <2> SUFFICES ASSUME NEW n \in 0..3
               PROVE  out[n] = Low(u[n])
    OBVIOUS
  <2>1. \A m \in 0..35 : Low(ulbuf[m]) = Low(u[35 - m])
    <3>1. \A m \in 0..i+3 : Low(ulbuf[m]) = Low(u[35 - m])
      BY <1>1 DEF Sm4Inv, Unwinds
    <3>2. i + 3 = 35
      BY <1>1
    <3> QED
      BY <3>1, <3>2
  <2>2. 35 - n \in 0..35 /\ 35 - (35 - n) = n
    OBVIOUS
  <2> QED
    BY <2>1, <2>2 DEF Reversed
<1>6. \A n \in 0..3 : u[n] = Plain(b)[n]
  BY <1>3 DEF Sm4Inv, Traces
<1>7. Plain(b) \in Block /\ (cbc => Plain(b) = XorBlock(msg[b], ivec)) /\ (~cbc => Plain(b) = msg[b])
  BY <1>2, <1>4, BlockXor DEF Sm4Inv, Blocks, Plain
<1>8. \A n \in 0..3 : out[n] = Plain(b)[n]
  <2> SUFFICES ASSUME NEW n \in 0..3
               PROVE  out[n] = Plain(b)[n]
    OBVIOUS
  <2>1. Plain(b)[n] \in SUBSET (0..31)
    BY <1>7 DEF Block
  <2>2. Low(Plain(b)[n]) = Plain(b)[n]
    BY <2>1 DEF Low
  <2> QED
    BY <1>5, <1>6, <2>2
<1>9. out = Plain(b)
  <2>1. out \in [0..3 -> SUBSET (0..31)] /\ Plain(b) \in [0..3 -> SUBSET (0..31)]
    BY <1>7, ReversedType DEF Block
  <2> QED
    BY <1>8, <2>1
<1>10. (IF cbc THEN XorBlock(out, ivec) ELSE out) = msg[b]
  BY <1>2, <1>4, <1>7, <1>9, BlockXor
<1> QED
  BY <1>1, <1>10

LEMMA EndBlockStep ==
  ASSUME Sm4Inv, Sm4TypeOK', EndBlock
  PROVE  Sm4Inv'
<1> DEFINE out == Reversed(ulbuf)
           L == Len(output)
<1>1. /\ pc = "round" /\ i = 32 /\ pc' = "block" /\ i' = 0 /\ input # <<>>
      /\ input' = Tail(input)
      /\ UNCHANGED <<job, k, sk, ulbuf, args, ek>>
      /\ trace' = IF job = "encrypt" THEN Append(trace, ulbuf) ELSE trace
      /\ ivec' = IF ~cbc THEN ivec ELSE IF job = "encrypt" THEN out ELSE Head(input)
  BY DEF EndBlock, Sm4Inv, InBounds
<1>t. Typed /\ msg \in Seq(Block)
  BY TypedIsTypeOK, Sm4Assumption DEF Sm4Inv, Typed
<1>2. input \in Seq(Block) /\ output \in Seq(Block) /\ msg \in Seq(Block)
  BY <1>t DEF Typed
<1>a. L \in Nat /\ job \in {"encrypt", "decrypt"}
  BY <1>2, <1>t DEF Typed
<1>3. InBounds' /\ SwappedKeys' /\ Encrypting' /\ Unwinds'
  BY <1>1 DEF Sm4Inv, InBounds, SwappedKeys, Encrypting, Unwinds
<1>4. SameKeys'
  BY <1>1, SameSchedule DEF Sm4Inv
<1>5. /\ Head(input) = input[1] /\ 1 \in 1..Len(input) /\ Len(input') = Len(input) - 1
      /\ \A b \in 1..Len(input') : input'[b] = input[b+1] /\ b + 1 \in 1..Len(input)
  BY <1>1, <1>2
<1>6. UNCHANGED <<msg, iv, cbc, width>>
  BY <1>1 DEF args
<1>7. Len(input) = Len(msg) - L /\ (cbc => ivec = Before(L + 1))
  BY DEF Sm4Inv, Blocks
<1>8. CASE job = "encrypt"
  <2>1. trace' = Append(trace, ulbuf) /\ output' = Append(output, out)
    BY <1>8 DEF EndBlock
  <2>2. /\ Len(trace) = L
        /\ \A b \in 1..L : output[b] = Reversed(trace[b])
        /\ \A b \in 1..Len(input) : input[b] = msg[L + b]
    BY <1>8 DEF Sm4Inv, Blocks
  <2>3. /\ Len(trace') = L + 1 /\ Len(output') = L + 1
        /\ \A b \in 1..L : trace'[b] = trace[b] /\ output'[b] = output[b]
        /\ trace'[L+1] = ulbuf /\ output'[L+1] = out
    <3> DEFINE A == [0..35 -> Long]
    <3>1. trace \in Seq(A) /\ ulbuf \in A
      BY <1>t DEF Typed
    <3>2. out \in Block
      BY ReversedType
    <3> HIDE DEF A, out
    <3>3. Len(trace') = L + 1 /\ trace'[L+1] = ulbuf /\ \A b \in 1..L : trace'[b] = trace[b]
      BY <2>1, <2>2, <3>1
    <3>4. Len(output') = L + 1 /\ output'[L+1] = out /\ \A b \in 1..L : output'[b] = output[b]
      BY <1>2, <2>1, <3>2
    <3> QED
      BY <3>3, <3>4
  <2>4. ASSUME NEW b \in 1..L+1
        PROVE  Plain(b)' = Plain(b)
    <3>1. b # 1 => b - 1 \in 1..L
      BY <1>2
    <3>2. Before(b)' = Before(b)
      BY <1>6, <2>3, <3>1 DEF Before
    <3> QED
      BY <1>6, <3>2 DEF Plain
  <2>5. Traces'
    <3> SUFFICES ASSUME NEW b \in 1..L+1
                 PROVE  /\ \A n \in 0..3 : trace'[b][n] = Plain(b)'[n]
                        /\ Rounds(trace[b], 32)'
      BY <2>3 DEF Traces
    <3>1. CASE b = L + 1
      <4>1. /\ \A n \in 0..3 : ulbuf[n] = Plain(L + 1)[n]
            /\ Rounds(ulbuf, 32)
        BY <1>1, <1>8, <2>2 DEF Sm4Inv, Encrypting
      <4>2. trace'[b] = ulbuf /\ Plain(b)' = Plain(L + 1)
        BY <2>3, <2>4, <3>1
      <4> QED
        BY <1>1, <1>6, <4>1, <4>2 DEF Rounds
    <3>2. CASE b # L + 1
      <4>1. b \in 1..L
        BY <1>2, <3>2
      <4>2. /\ \A n \in 0..3 : trace[b][n] = Plain(b)[n]
            /\ Rounds(trace[b], 32)
        BY <2>2, <4>1 DEF Sm4Inv, Traces
      <4>3. trace'[b] = trace[b] /\ Plain(b)' = Plain(b)
        BY <2>3, <2>4, <4>1
      <4> QED
        BY <1>1, <1>6, <4>2, <4>3 DEF Rounds
    <3> QED
      BY <3>1, <3>2
  <2>6. \A b \in 1..L+1 : output'[b] = Reversed(trace'[b])
    <3> SUFFICES ASSUME NEW b \in 1..L+1
                 PROVE  output'[b] = Reversed(trace'[b])
      OBVIOUS
    <3>1. CASE b = L + 1
      BY <2>3, <3>1
    <3>2. CASE b \in 1..L
      BY <2>2, <2>3, <3>2
    <3> QED
      BY <1>a, <3>1, <3>2
  <2>7. \A b \in 1..Len(input') : input'[b] = msg[L + 1 + b]
    <3> SUFFICES ASSUME NEW b \in 1..Len(input')
                 PROVE  input'[b] = msg[L + 1 + b]
      OBVIOUS
    <3>1. input'[b] = msg[L + (b + 1)]
      BY <1>5, <2>2
    <3> QED
      BY <1>2, <1>a, <3>1
  <2>8. cbc => ivec' = Before(Len(output) + 1)'
    <3>1. Len(output') + 1 # 1 /\ (Len(output') + 1) - 1 = L + 1
      BY <1>a, <2>3
    <3>2. Before(Len(output) + 1)' = Reversed(ulbuf)
      BY <2>3, <3>1 DEF Before
    <3> QED
      BY <1>1, <1>8, <3>2
  <2>9. Len(input') = Len(msg) - (L + 1) /\ (L + 1) + 1 = L + 2
    BY <1>2, <1>a, <1>5, <1>7
  <2>10. Blocks'
    BY <1>1, <1>6, <1>8, <2>3, <2>6, <2>7, <2>8, <2>9 DEF Blocks
  <2> QED
    BY <1>3, <1>4, <2>5, <2>10 DEF Sm4Inv
<1>9. CASE job = "decrypt"
  <2>1. trace' = trace /\ output' = Append(output, msg[L + 1])
    BY <1>1, <1>9, BlockBack
  <2>2. /\ Len(trace) = Len(msg)
        /\ \A b \in 1..L : output[b] = msg[b]
        /\ \A b \in 1..Len(input) : input[b] = Reversed(trace[L + b])
    BY <1>9 DEF Sm4Inv, Blocks
  <2>3. /\ Len(output') = L + 1
        /\ \A b \in 1..L : output'[b] = output[b]
        /\ output'[L+1] = msg[L+1]
    <3>1. L + 1 \in 1..Len(msg)
      BY <1>2, <1>a, <1>5, <1>7
    <3>2. msg[L + 1] \in Block
      BY <1>2, <3>1
    <3> QED
      BY <1>2, <2>1, <3>2
  <2>4. \A b : Before(b)' = Before(b) /\ Plain(b)' = Plain(b)
    BY <1>6, <2>1 DEF Before, Plain
  <2>5. Traces'
    BY <1>1, <1>6, <2>1, <2>4 DEF Sm4Inv, Traces, Rounds
  <2>6. \A b \in 1..L+1 : output'[b] = msg[b]
    <3> SUFFICES ASSUME NEW b \in 1..L+1
                 PROVE  output'[b] = msg[b]
      OBVIOUS
    <3>1. CASE b = L + 1
      BY <2>3, <3>1
    <3>2. CASE b \in 1..L
      BY <2>2, <2>3, <3>2
    <3> QED
      BY <1>a, <3>1, <3>2
  <2>7. \A b \in 1..Len(input') : input'[b] = Reversed(trace[L + 1 + b])
    <3> SUFFICES ASSUME NEW b \in 1..Len(input')
                 PROVE  input'[b] = Reversed(trace[L + 1 + b])
      OBVIOUS
    <3>1. input'[b] = Reversed(trace[L + (b + 1)])
      BY <1>5, <2>2
    <3> QED
      BY <1>2, <1>a, <3>1
  <2>8. cbc => ivec' = Before(L + 2)
    <3>1. L + 2 # 1 /\ (L + 2) - 1 = L + 1
      BY <1>a
    <3>2. input[1] = Reversed(trace[L + 1])
      BY <1>5, <2>2
    <3>3. cbc => ivec' = input[1]
      BY <1>1, <1>5, <1>9
    <3> QED
      BY <3>1, <3>2, <3>3 DEF Before
  <2>9. Len(input') = Len(msg) - (L + 1) /\ (L + 1) + 1 = L + 2
    BY <1>2, <1>a, <1>5, <1>7
  <2>10. Blocks'
    BY <1>1, <1>6, <1>9, <2>1, <2>2, <2>3, <2>4, <2>6, <2>7, <2>8, <2>9 DEF Blocks
  <2> QED
    BY <1>3, <1>4, <2>5, <2>10 DEF Sm4Inv
<1> QED
  BY <1>a, <1>8, <1>9

LEMMA HandOverStep ==
  ASSUME Sm4Inv, Sm4TypeOK', HandOver
  PROVE  Sm4Inv'
<1>1. /\ pc = "block" /\ input = <<>> /\ job = "encrypt" /\ job' = "decrypt" /\ pc' = "key"
      /\ i' = 0 /\ k' = StartKey /\ ivec' = iv /\ input' = output /\ output' = <<>>
      /\ UNCHANGED <<sk, ulbuf, args, ek, trace>>
  BY DEF HandOver
<1>2. output \in Seq(Block) /\ msg \in Seq(Block)
  BY Sm4Assumption DEF Sm4Inv, Sm4TypeOK
<1>3. InBounds' /\ SwappedKeys' /\ Encrypting' /\ Unwinds'
  BY <1>1 DEF InBounds, SwappedKeys, Encrypting, Unwinds
<1>4. SameKeys'
  <2>1. Schedule(ek, 32) /\ width' = width /\ \A n \in 0..3 : StartKey'[n] = StartKey[n]
    BY <1>1 DEF Sm4Inv, SameKeys, args, StartKey
  <2>2. Schedule(ek, 32)'
    BY <1>1, <2>1 DEF Schedule
  <2>3. \A n \in 0..3 : k'[n] = ek'[n]
    BY <1>1, <2>1 DEF Schedule
  <2> QED
    BY <1>1, <2>2, <2>3 DEF SameKeys
<1>5. \A b : Before(b)' = Before(b) /\ Plain(b)' = Plain(b)
  BY <1>1 DEF Before, Plain, args
<1>6. Traces'
  BY <1>1, <1>5 DEF Sm4Inv, Traces, Rounds, args
<1>7. /\ Len(trace) = Len(output) /\ Len(output) = Len(msg)
      /\ \A b \in 1..Len(output) : output[b] = Reversed(trace[b])
  <2>1. Len(input) = Len(msg) - Len(output) /\ Len(input) = 0
    BY <1>1 DEF Sm4Inv, Blocks
  <2>2. Len(output) = Len(msg)
    BY <1>2, <2>1
  <2> QED
    BY <1>1, <2>2 DEF Sm4Inv, Blocks
<1>8. Blocks'
  <2>1. Len(output') = 0 /\ Len(msg') = Len(msg) /\ iv' = iv
    BY <1>1 DEF args
  <2>2. Before(0 + 1)' = iv
    BY <2>1 DEF Before
  <2>3. \A b \in 1..Len(input') : input'[b] = Reversed(trace'[0 + b])
    BY <1>1, <1>7
  <2> QED
    BY <1>1, <1>2, <1>7, <2>1, <2>2, <2>3 DEF Blocks
<1> QED
  BY <1>3, <1>4, <1>6, <1>8 DEF Sm4Inv

LEMMA FinishStep ==
  ASSUME Sm4Inv, Sm4TypeOK', Finish \/ Overrun \/ UNCHANGED vars
  PROVE  Sm4Inv'
<1>1. /\ UNCHANGED <<job, i, k, sk, ulbuf, ivec, input, output, args, ek, trace>>
      /\ \/ pc' = pc
         \/ pc = "round" /\ pc' = "overrun"
         \/ pc = "block" /\ input = <<>> /\ job = "decrypt" /\ pc' = "done"
  BY DEF Finish, Overrun, vars
<1>2. Blocks' /\ Traces'
  BY <1>1, SameBlocks DEF Sm4Inv, Blocks
<1>3. \A n \in 0..3 : StartKey'[n] = StartKey[n]
  BY <1>1 DEF StartKey, args
<1>4. SameKeys' /\ SwappedKeys'
  BY <1>1, <1>3 DEF Sm4Inv, SameKeys, SwappedKeys, Schedule, args
<1>5. InBounds' /\ Unwinds'
  BY <1>1 DEF Sm4Inv, InBounds, Unwinds
<1>6. Encrypting'
  BY <1>1 DEF Sm4Inv, Encrypting, Rounds, Plain, Before, args
<1> QED
  BY <1>2, <1>4, <1>5, <1>6 DEF Sm4Inv

LEMMA InvStep == Sm4Inv /\ [Next]_vars => Sm4Inv'
<1> SUFFICES ASSUME Sm4Inv, [Next]_vars
             PROVE  Sm4Inv'
  OBVIOUS
<1>1. Sm4TypeOK'
  BY TypeStep DEF Sm4Inv
<1>2. CASE KeyRound \/ KeyDone
  BY <1>1, <1>2, KeyRoundStep, KeyDoneStep
<1>3. CASE SwapKeys
  BY <1>1, <1>3, SwapKeysStep
<1>4. CASE BeginBlock \/ Round \/ EndBlock
  BY <1>1, <1>4, BeginBlockStep, RoundStep, EndBlockStep
<1>5. CASE HandOver
  BY <1>1, <1>5, HandOverStep
<1>6. CASE Finish \/ Overrun \/ UNCHANGED vars
  BY <1>1, <1>6, FinishStep
<1> QED
  BY <1>2, <1>3, <1>4, <1>5, <1>6 DEF Next

LEMMA Invariant == Spec => []Sm4Inv
<1>1. Init => Sm4Inv
  BY InitInv
<1>2. Sm4Inv /\ [Next]_vars => Sm4Inv'
  BY InvStep
<1> QED
  BY <1>1, <1>2, PTL DEF Spec
-----------------------------------------------------------------------------
(* The theorems *)

\* Whatever key, message and mode, and however wide a long, a long never has a
\* bit it has no room for, and a block is four words of 32 bits.
THEOREM Sm4TypeCorrect == Spec => []Sm4TypeOK
<1>1. Sm4Inv => Sm4TypeOK
  BY DEF Sm4Inv
<1> QED
  BY <1>1, Invariant, PTL

\* The rounds of a decryption walk back through those of the encryption
\* (sm4_one_round with the keys sm4_setkey_dec has swapped).
THEOREM RoundsUnwind == Spec => []Unwinds
<1>1. Sm4Inv => Unwinds
  BY DEF Sm4Inv
<1> QED
  BY <1>1, Invariant, PTL

\* What sm4Dec has written is inside out.
Fits == job = "decrypt" /\ ~cbc => Len(output) <= OutBlocks

LEMMA FitsInvariant == Spec => []Fits
<1>1. Init => Fits
  BY DEF Init, Fits
<1>2. Sm4Inv /\ Fits /\ [Next]_vars => Fits'
  <2> SUFFICES ASSUME Sm4Inv, Fits, [Next]_vars
               PROVE  Fits'
    OBVIOUS
  <2>1. output \in Seq(Block) /\ job \in {"encrypt", "decrypt"}
    BY DEF Sm4Inv, Sm4TypeOK
  <2>2. CASE EndBlock
    <3>1. /\ UNCHANGED <<job, cbc>> /\ ~NoRoom
          /\ \E out : output' = Append(output, out)
      BY <2>2 DEF EndBlock, args
    <3>2. Len(output') = Len(output) + 1
      BY <2>1, <3>1
    <3>3. Len(output) \in Nat
      BY <2>1
    <3>4. job = "decrypt" /\ ~cbc => Len(output) <= 2 /\ Len(output) # 2
      BY <3>1 DEF Fits, NoRoom, OutBlocks
    <3>5. job' = job /\ cbc' = cbc
      BY <3>1
    <3>6. \A n \in Nat : n <= 2 /\ n # 2 => n + 1 <= 2
      OBVIOUS
    <3>7. job = "decrypt" /\ ~cbc => Len(output') <= 2
      BY <3>2, <3>3, <3>4, <3>6, Zenon
    <3> QED
      BY <3>5, <3>7 DEF Fits, OutBlocks
  <2>3. CASE HandOver
    <3>1. output' = <<>>
      BY <2>3 DEF HandOver
    <3> QED
      BY <3>1 DEF Fits, OutBlocks
  <2>4. CASE KeyRound \/ KeyDone \/ SwapKeys \/ BeginBlock \/ Round \/ Overrun \/ Finish
             \/ UNCHANGED vars
    <3>1. UNCHANGED <<job, output, args>>
      BY <2>4 DEF KeyRound, KeyDone, SwapKeys, BeginBlock, Round, Overrun, Finish, vars
    <3> QED
      BY <3>1 DEF args, Fits
  <2> QED
    BY <2>2, <2>3, <2>4 DEF Next
<1> QED
  BY <1>1, <1>2, Invariant, PTL DEF Spec

\* If sm4Dec returns, its 32 bytes are the message and zeroes behind it, and the
\* message was no longer than that.
THEOREM DeviceReturnsMessage == Spec => []ReturnsMessage
<1>1. Sm4Inv /\ Fits => ReturnsMessage
  <2> SUFFICES ASSUME Sm4Inv, Fits, pc = "done", ~cbc
               PROVE  /\ Len(msg) <= OutBlocks
                      /\ \A n \in 1..OutBlocks :
                           Returned[n] = IF n <= Len(msg) THEN msg[n] ELSE ZeroBlock
    BY DEF ReturnsMessage
  <2>1. output \in Seq(Block) /\ msg \in Seq(Block) /\ job = "decrypt"
    BY Sm4Assumption DEF Sm4Inv, Sm4TypeOK, SwappedKeys
  <2>2. /\ input = <<>> /\ Len(input) = Len(msg) - Len(output)
        /\ \A b \in 1..Len(output) : output[b] = msg[b]
    BY <2>1 DEF Sm4Inv, Blocks
  <2>3. Len(output) = Len(msg) /\ Len(output) \in Nat
    BY <2>1, <2>2
  <2>4. Len(msg) <= OutBlocks
    BY <2>1, <2>3 DEF Fits
  <2>5. ASSUME NEW n \in 1..OutBlocks
        PROVE  Returned[n] = IF n <= Len(msg) THEN msg[n] ELSE ZeroBlock
    <3>1. Returned[n] = IF n <= Len(msg) THEN output[n] ELSE ZeroBlock
      BY <2>3 DEF Returned
    <3>2. n <= Len(msg) => output[n] = msg[n]
      BY <2>2, <2>3 DEF OutBlocks
    <3> QED
      BY <3>1, <3>2
  <2> QED
    BY <2>4, <2>5
<1> QED
  BY <1>1, Invariant, FitsInvariant, PTL

\* The two ends are a channel: each step of either one delivers the next block
\* or nothing.
THEOREM IsChannel == Spec => ImplementsChannel
<1>1. Init => Channel!Init
  BY DEF Init, Channel!Init, Decrypted
<1>2. Sm4Inv /\ [Next]_vars => [Channel!Deliver]_<<msg, Decrypted>>
  <2> SUFFICES ASSUME Sm4Inv, [Next]_vars
               PROVE  [Channel!Deliver]_<<msg, Decrypted>>
    OBVIOUS
  <2>1. CASE EndBlock /\ job = "decrypt"
    <3>1. output' = Append(output, msg[Len(output) + 1]) /\ UNCHANGED <<msg, job>>
      BY <2>1, BlockBack DEF EndBlock, args
    <3>2. Len(output) < Len(msg)
      <4>1. input \in Seq(Block) /\ output \in Seq(Block) /\ msg \in Seq(Block)
        BY Sm4Assumption DEF Sm4Inv, Sm4TypeOK
      <4>2. input # <<>> /\ Len(input) = Len(msg) - Len(output)
        BY <2>1 DEF Sm4Inv, InBounds, Blocks, EndBlock
      <4> QED
        BY <4>1, <4>2
    <3> QED
      BY <2>1, <3>1, <3>2 DEF Channel!Deliver, Decrypted
  <2>2. CASE EndBlock /\ job # "decrypt"
    BY <2>2 DEF EndBlock, args, Decrypted
  <2>3. CASE HandOver
    BY <2>3 DEF HandOver, args, Decrypted
  <2>4. CASE KeyRound \/ KeyDone \/ SwapKeys \/ BeginBlock \/ Round \/ Overrun \/ Finish
             \/ UNCHANGED vars
    <3>1. UNCHANGED <<job, output, args>>
      BY <2>4 DEF KeyRound, KeyDone, SwapKeys, BeginBlock, Round, Overrun, Finish, vars
    <3> QED
      BY <3>1 DEF args, Decrypted
  <2> QED
    BY <2>1, <2>2, <2>3, <2>4 DEF Next
<1> QED
  BY <1>1, <1>2, Invariant, PTL DEF Spec, ImplementsChannel, Channel!Spec
=============================================================================
