------------------------------ MODULE MCResolve ------------------------------
(***************************************************************************)
(* Two objects, and a catalog with what the real one has: a module with    *)
(* several libraries, a library split over the two tables, a module known  *)
(* only to the second.                                                     *)
(***************************************************************************)
EXTENDS Resolve

MCName == {"usleep", "open", "thread", "pad", "helper"}
MCSoname == {"libkernel.prx", "libScePad.prx"}
MCLibrary == {"libkernel", "libScePosix", "libScePad"}

MCCatalog ==
    << [soname |-> "libkernel.prx", library |-> "libkernel", exports |-> {"usleep"}],
       [soname |-> "libkernel.prx", library |-> "libScePosix", exports |-> {"open"}] >>

MCCatalogExtra ==
    << [soname |-> "libkernel.prx", library |-> "libkernel", exports |-> {"thread"}],
       [soname |-> "libScePad.prx", library |-> "libScePad", exports |-> {"pad"}] >>

Undef(n) == [name |-> n, bind |-> "GLOBAL", type |-> "OTHER", shndx |-> SHN_UNDEF]
Def(n, b, s) == [name |-> n, bind |-> b, type |-> "OTHER", shndx |-> s]
NullSymbol == [name |-> NoName, bind |-> "LOCAL", type |-> "OTHER", shndx |-> SHN_UNDEF]

MCSymbol ==
    {Undef(n) : n \in MCName}
    \union {Def("open", "GLOBAL", 1), Def("pad", "LOCAL", 1),
            Def("helper", "GLOBAL", SHN_COMMON)}

\* A symbol table as a compiler writes it: the null symbol, then each name once.
MCTable == {<<NullSymbol, a, b>> : a, b \in MCSymbol}
MCWellFormed == {t \in MCTable : t[2].name # t[3].name}

MCProgram == {<<a, b>> : a, b \in MCWellFormed}

==============================================================================
