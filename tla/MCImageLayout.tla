----------------------------- MODULE MCImageLayout -----------------------------
(***************************************************************************)
(* Sizes on both sides of a page boundary.  2043 slots are 24 bytes of     *)
(* header and 16344 of slots: 16 bytes short of the page; 5 leave it       *)
(* nearly empty; 2045 fill it.                                             *)
(***************************************************************************)
EXTENDS ImageLayout

MCInputs ==
    {[code |-> c, rodata |-> r, data |-> d[1], memsz |-> d[2],
      imports |-> g[1] + g[2], bound |-> g[1], gotdata |-> g[2], local |-> g[3],
      pointers |-> p, mods |-> 2, libs |-> 2, dynstr |-> 50,
      comment |-> 24, version |-> 81] :
        c \in {0, 1, 16352, 16368}, r \in {0, 16384},
        d \in {<<728, 728>>, <<730, 40000>>, <<16384, 16385>>},
        g \in {<<0, 0, 0>>, <<2, 1, 2>>, <<2040, 1, 2>>, <<0, 0, 2045>>, <<1, 2040, 5>>},
        p \in {0, 700}}

===============================================================================
