------------------------------- MODULE DynTables -------------------------------
(***************************************************************************)
(* dynwriter.c, the tables the loader searches: the hash of the dynamic    *)
(* symbols, filled from the last import to the first; the records of the   *)
(* modules and libraries the imports come from, once each; and the head of *)
(* the dynamic table, where each library is listed with its module.        *)
(*                                                                         *)
(* The symbol table is the null symbol and the imports, so import i is     *)
(* symbol i.  A long form counts by its hash alone.                        *)
(***************************************************************************)
EXTENDS Naturals, FiniteSets, SequencesExt

Import == [hash : Nat, module_id : Nat \ {0}, library_id : Nat]

VARIABLES
    imports,             \* what linker_resolve answered: a sequence of Import
    phase,               \* "idle", "hash", "records", "dynamic", "done"
    at,                  \* the symbol, import or module record looked at
    lib_at,              \* the library record, 0 before the module is listed
    buckets, chains,     \* numbered from zero, as the loader reads them
    mod_recs, lib_recs,  \* ids of the modules; id and module of the libraries
    dynv                 \* entries of the dynamic table

sym_count == Len(imports) + 1
nbucket == sym_count

-------------------------------------------------------------------------------
Init ==
    /\ phase = "idle" /\ at = 0 /\ lib_at = 0
    /\ buckets = <<>> /\ chains = <<>>
    /\ mod_recs = <<>> /\ lib_recs = <<>> /\ dynv = <<>>

\* Both arrays come from calloc; the imports stay as they are from here on.
Begin(count) ==
    /\ phase = "idle"
    /\ phase' = "hash" /\ at' = count
    /\ buckets' = [b \in 0..count |-> 0]
    /\ chains' = [s \in 0..count |-> 0]
    /\ UNCHANGED <<lib_at, mod_recs, lib_recs, dynv>>

Bucket(s) == imports[s].hash % nbucket

\* Slip: the bucket is overwritten before its head is kept.
HeadAfterStore(s) == s

\* What the bucket held so far follows the symbol in its chain.
OldHead(s) == buckets[Bucket(s)]

HashSymbol ==
    /\ phase = "hash" /\ at >= 1
    /\ chains' = [chains EXCEPT ![at] = OldHead(at)]
    /\ buckets' = [buckets EXCEPT ![Bucket(at)] = at]
    /\ at' = at - 1
    /\ UNCHANGED <<imports, phase, lib_at, mod_recs, lib_recs, dynv>>

EndHash ==
    /\ phase = "hash" /\ at = 0
    /\ phase' = "records" /\ at' = 1
    /\ UNCHANGED <<imports, lib_at, buckets, chains, mod_recs, lib_recs, dynv>>

-------------------------------------------------------------------------------
\* Slip: a library is taken for recorded when its module is.
RecordedByModule(import) == \E r \in ToSet(lib_recs) : r.module_id = import.module_id

Recorded(import) == \E r \in ToSet(lib_recs) : r.id = import.library_id

RecordImport ==
    /\ phase = "records" /\ at <= Len(imports)
    /\ LET import == imports[at] IN
       /\ mod_recs' = IF Contains(mod_recs, import.module_id) THEN mod_recs
                      ELSE Append(mod_recs, import.module_id)
       /\ lib_recs' = IF Recorded(import) THEN lib_recs
                      ELSE Append(lib_recs,
                               [id |-> import.library_id, module_id |-> import.module_id])
    /\ at' = at + 1
    /\ UNCHANGED <<imports, phase, lib_at, buckets, chains, dynv>>

EndRecords ==
    /\ phase = "records" /\ at > Len(imports)
    /\ phase' = "dynamic" /\ at' = 1
    /\ UNCHANGED <<imports, lib_at, buckets, chains, mod_recs, lib_recs, dynv>>

-------------------------------------------------------------------------------
Entry(tag, id) == [tag |-> tag, id |-> id]

\* The module itself, ahead of its libraries.
EmitModule ==
    /\ phase = "dynamic" /\ at <= Len(mod_recs) /\ lib_at = 0
    /\ dynv' = dynv \o <<Entry("NEEDED", mod_recs[at]), Entry("NEEDED_MODULE", mod_recs[at])>>
    /\ lib_at' = 1
    /\ UNCHANGED <<imports, phase, at, buckets, chains, mod_recs, lib_recs>>

\* Every library record is compared with the module.
EmitLibrary ==
    /\ phase = "dynamic" /\ lib_at \in DOMAIN lib_recs
    /\ LET r == lib_recs[lib_at] IN
       dynv' = IF r.module_id # mod_recs[at] THEN dynv
               ELSE dynv \o <<Entry("IMPORT_LIB", r.id), Entry("IMPORT_LIB_ATTR", r.id)>>
    /\ lib_at' = lib_at + 1
    /\ UNCHANGED <<imports, phase, at, buckets, chains, mod_recs, lib_recs>>

NextModule ==
    /\ phase = "dynamic" /\ lib_at > Len(lib_recs)
    /\ at' = at + 1 /\ lib_at' = 0
    /\ UNCHANGED <<imports, phase, buckets, chains, mod_recs, lib_recs, dynv>>

EndDynamic ==
    /\ phase = "dynamic" /\ at > Len(mod_recs) /\ lib_at = 0
    /\ phase' = "done"
    /\ UNCHANGED <<imports, at, lib_at, buckets, chains, mod_recs, lib_recs, dynv>>

Next ==
    \/ HashSymbol \/ EndHash \/ RecordImport \/ EndRecords
    \/ EmitModule \/ EmitLibrary \/ NextModule \/ EndDynamic

-------------------------------------------------------------------------------
Symbol0 == DOMAIN buckets

\* The arrays keep their size and hold symbols; the records name ids in use.
TypeOK ==
    /\ phase \in {"idle", "hash", "records", "dynamic", "done"}
    /\ at \in Nat /\ lib_at \in 0..(Len(lib_recs) + 1)
    /\ phase # "idle" => imports \in Seq(Import) /\ Symbol0 = 0..Len(imports)
    /\ phase = "hash" => at \in Symbol0
    /\ buckets \in [Symbol0 -> Symbol0] /\ chains \in [Symbol0 -> Symbol0]
    /\ mod_recs \in Seq(Nat \ {0})
    /\ lib_recs \in Seq([id : Nat, module_id : Nat \ {0}])
    /\ dynv \in Seq([tag : {"NEEDED", "NEEDED_MODULE", "IMPORT_LIB", "IMPORT_LIB_ATTR"},
                     id : Nat])

\* Symbols from the last down to the one after at are hashed in.
HashedIn == {s \in Symbol0 \ {0} : phase = "hash" => s > at}

\* The loader walks from the bucket along the chain until it meets the null
\* symbol.  Walk(b)[k] is the symbol it is at after k steps.
Walk(b) ==
    LET walk[k \in Symbol0] == IF k = 0 THEN buckets[b] ELSE chains[walk[k - 1]] IN walk

FoundByHash(s) == \E k \in Symbol0 : Walk(Bucket(s))[k] = s

\* Every import hashed in is met on the walk from its bucket, and every walk
\* ends: an import in no chain would be a function the loader cannot bind, a
\* chain that turns back a loader that never returns.
EveryImportFound ==
    /\ \A s \in HashedIn : FoundByHash(s)
    /\ \A b \in Symbol0 : Walk(b)[Len(imports)] = 0

\* Chains run upwards, and only through symbols of one bucket: the walk visits
\* no symbol twice and compares no name that hashes elsewhere.
ChainsAscend ==
    \A s \in HashedIn : chains[s] # 0 => chains[s] > s /\ Bucket(chains[s]) = Bucket(s)

\* The loader reads the ids of an import's mangled name in the dynamic table:
\* the library is listed once, behind its own module and before the next.
ListedUnderItsModule(import) ==
    LET places == {p \in DOMAIN dynv : dynv[p] = Entry("IMPORT_LIB", import.library_id)} IN
    /\ Cardinality(places) = 1
    /\ \A p \in places : \E q \in 1..(p - 1) :
          /\ dynv[q] = Entry("NEEDED_MODULE", import.module_id)
          /\ \A r \in (q + 1)..(p - 1) : dynv[r].tag # "NEEDED_MODULE"
===============================================================================
