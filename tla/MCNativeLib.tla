---------------------------- MODULE MCNativeLib ----------------------------
(***************************************************************************)
(* The native library over the curve y^2 = x^3 + 6x + 8 modulo 17, whose   *)
(* points are the thirteen multiples of (0, 5), with bytes of four values  *)
(* (so that a number fills two) and blocks of three bytes.                 *)
(***************************************************************************)
EXTENDS NativeLib

MCXOf == <<0, 16, 3, 1, 7, 9, 9, 7, 1, 3, 16, 0>>

\* Byte arrays of up to two blocks, some of which end as a padding does.
MCInputs ==
  {<<>>, <<0>>, <<1>>, <<2, 2>>, <<171, 9>>, <<3, 3, 3>>, <<16, 32, 1>>,
   <<255, 0, 2, 2>>, <<1, 2, 3, 4, 1>>, <<0, 0, 0, 3, 3, 3>>}
=============================================================================
