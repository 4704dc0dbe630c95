---------------------------- MODULE MCSectionMerge ----------------------------
(***************************************************************************)
(* Three sections of every kind, with sizes that leave the next offset     *)
(* odd, and alignments the parameter blocks do not happen to satisfy (96   *)
(* and 624 bytes, as in the code).                                         *)
(***************************************************************************)
EXTENDS SectionMerge, SequencesExt

MCAlignment == {8, 32}

Sec(type, flags, align, size) ==
    [name |-> "other", sh_type |-> type, sh_flags |-> flags,
     sh_addralign |-> align, sh_size |-> size]

MCPlaced ==
    {Sec(t[1], t[2], a, n) :
        t \in {<<"PROGBITS", {"ALLOC", "EXEC"}>>, <<"PROGBITS", {"ALLOC"}>>,
               <<"PROGBITS", {"ALLOC", "WRITE"}>>, <<"NOBITS", {"ALLOC", "WRITE"}>>},
        a \in {0, 8, 32}, n \in {0, 3, 40}}

MCDropped ==
    {[Sec("PROGBITS", {"ALLOC"}, 8, 40) EXCEPT !.name = ".eh_frame"],
     Sec("NOTE", {"ALLOC"}, 8, 3),
     Sec("PROGBITS", {}, 0, 3)}

MCLink == SeqOf(MCPlaced \union MCDropped, 3)

===============================================================================
