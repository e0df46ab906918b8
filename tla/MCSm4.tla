------------------------------- MODULE MCSm4 -------------------------------
(***************************************************************************)
(* SM4 on messages of one, two and three blocks, under the key of the      *)
(* source's test vector and under the app's own key, 0x33 sixteen times,   *)
(* in both modes and with longs of both widths.                            *)
(***************************************************************************)
EXTENDS Sm4

BlockOf(words) == [n \in 0..3 |-> Word(words[n + 1])]

TestKey ==
  BlockOf(<<<<1, 35, 69, 103>>, <<137, 171, 205, 239>>, <<254, 220, 186, 152>>, <<118, 84, 50, 16>>>>)
AppKey == BlockOf([n \in 1..4 |-> <<51, 51, 51, 51>>])
Zeros == BlockOf([n \in 1..4 |-> <<0, 0, 0, 0>>])

MCKeys == {TestKey, AppKey}
MCIVs == {Zeros}
MCMessages == {<<TestKey>>, <<TestKey, AppKey>>, <<TestKey, AppKey, TestKey>>}

\* "Test vector 1", sm4.cpp 11-48: the round keys, the temp computing results
\* and the cypher.
RoundKeys ==
  << <<241, 33, 134, 249>>, <<65, 102, 43, 97>>, <<90, 106, 177, 154>>, <<123, 169, 32, 119>>,
     <<54, 115, 96, 244>>, <<119, 106, 12, 97>>, <<182, 187, 137, 179>>, <<36, 118, 49, 81>>,
     <<165, 32, 48, 124>>, <<183, 88, 77, 189>>, <<195, 7, 83, 237>>, <<126, 229, 91, 87>>,
     <<105, 136, 96, 140>>, <<48, 216, 149, 183>>, <<68, 186, 20, 175>>, <<16, 68, 149, 161>>,
     <<209, 32, 180, 40>>, <<115, 181, 95, 163>>, <<204, 135, 73, 102>>, <<146, 36, 68, 57>>,
     <<232, 158, 100, 31>>, <<152, 202, 1, 90>>, <<199, 21, 144, 96>>, <<153, 225, 253, 46>>,
     <<183, 155, 216, 12>>, <<29, 33, 21, 176>>, <<14, 34, 138, 235>>, <<241, 120, 12, 129>>,
     <<66, 141, 54, 84>>, <<98, 41, 52, 150>>, <<1, 207, 114, 229>>, <<145, 36, 160, 18>> >>

Results ==
  << <<39, 250, 211, 69>>, <<161, 139, 76, 178>>, <<17, 193, 226, 42>>, <<204, 19, 226, 238>>,
     <<248, 124, 91, 213>>, <<51, 34, 7, 87>>, <<119, 244, 194, 151>>, <<122, 150, 242, 235>>,
     <<39, 218, 192, 127>>, <<66, 221, 15, 25>>, <<184, 165, 218, 2>>, <<144, 113, 39, 250>>,
     <<139, 149, 43, 131>>, <<212, 43, 124, 89>>, <<47, 252, 88, 49>>, <<246, 158, 104, 136>>,
     <<175, 36, 50, 196>>, <<237, 30, 200, 94>>, <<85, 163, 186, 34>>, <<18, 75, 24, 170>>,
     <<106, 231, 114, 95>>, <<244, 203, 161, 249>>, <<29, 205, 250, 16>>, <<47, 246, 6, 3>>,
     <<239, 242, 79, 220>>, <<111, 228, 107, 117>>, <<137, 52, 80, 173>>, <<123, 147, 143, 76>>,
     <<83, 110, 66, 70>>, <<134, 179, 233, 79>>, <<210, 6, 150, 94>>, <<104, 30, 223, 52>> >>

Cypher ==
  BlockOf(<<<<104, 30, 223, 52>>, <<210, 6, 150, 94>>, <<134, 179, 233, 79>>, <<83, 110, 66, 70>>>>)

\* Under the test vector's key the schedule is the one the source lists; while
\* its plain text is encrypted, the rounds give the results it lists, and the
\* block put out is its cypher, on an ABI of either width (the iv is zero, so
\* that the first block is the same in both modes).
MatchesTestVector ==
  key = TestKey /\ job = "encrypt" =>
    /\ pc = "key" => \A n \in 0..i-1 : Low(k[n + 4]) = Word(RoundKeys[n + 1])
    /\ pc = "round" /\ output = <<>> =>
         \A n \in 0..i-1 : Low(ulbuf[n + 4]) = Word(Results[n + 1])
    /\ output # <<>> => output[1] = Cypher
=============================================================================
