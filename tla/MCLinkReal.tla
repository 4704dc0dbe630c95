------------------------------ MODULE MCLinkReal ------------------------------
(***************************************************************************)
(* Two objects of two symbols each, with or without a startup object that  *)
(* defines _start; up to four imports of two modules and three libraries,  *)
(* with hashes that collide in every way three values can.                 *)
(***************************************************************************)
EXTENDS LinkReal, MCResolve

MCLinkName == MCName \union {"_start"}

MCStartup == <<NullSymbol, Def("_start", "GLOBAL", 1)>>

MCLinkProgram == MCProgram \union {<<MCStartup>> \o p : p \in MCProgram}
===============================================================================
