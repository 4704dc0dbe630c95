-------------------------------- MODULE Align --------------------------------
(***************************************************************************)
(* common_buf.h: align_up, the one rounding every offset and address of    *)
(* the image goes through.                                                 *)
(***************************************************************************)
EXTENDS Integers

\* Slip: rounding down.
AlignDown(v, a) == IF a <= 1 THEN v ELSE (v \div a) * a

align_up(v, a) == IF a <= 1 THEN v ELSE ((v + a - 1) \div a) * a

\* An sh_addralign of zero asks for nothing, like one.
AtLeastOne(a) == IF a = 0 THEN 1 ELSE a

==============================================================================
