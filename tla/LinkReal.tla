------------------------------- MODULE LinkReal -------------------------------
(***************************************************************************)
(* link_real.c: main.  The objects are read, the names resolved, and with  *)
(* nothing unresolved the tables of the dynamic segment are built from the *)
(* imports and the image is written.  Whatever fails ends the program with *)
(* status 1.  The parts of dynwriter_write that lay out and patch the      *)
(* image are in modules of their own and touch none of this state.         *)
(***************************************************************************)
EXTENDS Resolve, FiniteSets

CONSTANTS
    Hash,              \* what the hash of a mangled name may be
    EntrySymbol,       \* "_start" in the code
    KeptSections       \* indices of the sections that end up in the image

ASSUME HashAssumption == Hash \subseteq Nat /\ EntrySymbol \in Name
ASSUME SectionAssumption ==
    KeptSections \subseteq Nat \ {SHN_UNDEF, SHN_ABS, SHN_COMMON}

VARIABLES
    stage,                     \* "read", "resolve", "write", "exit"
    nread,                     \* objects read so far
    status,                    \* of the program: "success" is 0, "failure" 1
    hashes,                    \* of the imports' mangled names
    phase, at, lib_at, buckets, chains, mod_recs, lib_recs, dynv

driver == <<stage, nread, status, hashes>>
tables == <<phase, at, lib_at, buckets, chains, mod_recs, lib_recs, dynv>>

\* What the table writer is handed.
HandedOver ==
    [k \in DOMAIN imports |-> [hash |-> hashes[k], module_id |-> imports[k].module_id,
                               library_id |-> imports[k].library_id]]

T == INSTANCE DynTables WITH imports <- HandedOver

LinkVars == <<vars, driver, tables>>

------------------------------------------------------------------------------
LinkInit ==
    /\ Init /\ T!Init
    /\ stage = "read" /\ nread = 0
    /\ status = "none"
    /\ hashes = <<>>

Exit(code) == stage' = "exit" /\ status' = code /\ UNCHANGED <<nread, hashes>>

ReadObject ==
    /\ stage = "read" /\ nread < Len(objects)
    /\ nread' = nread + 1
    /\ UNCHANGED <<vars, stage, status, hashes, tables>>

\* The file is missing, short, or no relocatable object.
ReadFails ==
    /\ stage = "read" /\ nread < Len(objects)
    /\ Exit("failure")
    /\ UNCHANGED <<vars, tables>>

EndRead ==
    /\ stage = "read" /\ nread = Len(objects)
    /\ stage' = "resolve"
    /\ UNCHANGED <<vars, nread, status, hashes, tables>>

linker_resolve ==
    /\ stage = "resolve"
    /\ Next
    /\ UNCHANGED <<driver, tables>>

Resolved == stage = "resolve" /\ pc = "done"

\* Slip: what is unresolved is not asked.
NothingMissing == FALSE

Incomplete == unresolved # <<>>

ReportUnresolved ==
    /\ Resolved /\ Incomplete
    /\ Exit("failure")
    /\ UNCHANGED <<vars, tables>>

StartTables ==
    /\ Resolved /\ ~Incomplete
    /\ hashes' \in [DOMAIN imports -> Hash]
    /\ T!Begin(Len(imports))
    /\ stage' = "write"
    /\ UNCHANGED <<vars, nread, status>>

BuildTables ==
    /\ stage = "write"
    /\ UNCHANGED <<vars, driver>>
    /\ T!Next

EntryFound ==
    \E i \in DOMAIN objects : \E j \in DOMAIN objects[i] :
        /\ FindsDefined(objects[i][j], EntrySymbol)
        /\ objects[i][j].type # "SECTION" /\ objects[i][j].shndx \in KeptSections

\* The entry symbol has no address, or the output cannot be opened.
WriteFails ==
    /\ stage = "write" /\ phase = "done"
    /\ Exit("failure")
    /\ UNCHANGED <<vars, tables>>

WriteImage ==
    /\ stage = "write" /\ phase = "done" /\ EntryFound
    /\ Exit("success")
    /\ UNCHANGED <<vars, tables>>

LinkNext ==
    \/ ReadObject \/ ReadFails \/ EndRead
    \/ linker_resolve
    \/ ReportUnresolved \/ StartTables \/ BuildTables
    \/ WriteFails \/ WriteImage

LinkSpec == LinkInit /\ [][LinkNext]_LinkVars

------------------------------------------------------------------------------
\* The type invariant of the resolver, the tables and the driver.
LinkTypeOK ==
    /\ TypeOK /\ T!TypeOK
    /\ stage \in {"read", "resolve", "write", "exit"}
    /\ nread \in 0..Len(objects)
    /\ status \in {"none", "success", "failure"}
    /\ stage = "write" => hashes \in [DOMAIN imports -> Hash]

\* The hash of the dynamic symbols (dynwriter.c:453): every import hashed in so
\* far is met on the walk from its bucket, and every walk ends.
EveryImportFound == T!EveryImportFound

\* The same tables: chains run upwards and never leave their bucket, so the
\* loader compares a name with none that hashes elsewhere.
ChainsAscend == T!ChainsAscend

\* Whatever was read, resolved and written, in whatever order the names came:
\* after a link that answers 0 the loader can bind every name the program means
\* from outside.  It is an import, its symbol is met on the walk from its
\* bucket, and the ids in its mangled name lead to the module and the library
\* the catalog gives for it.  And the program has an entry point.
LinkedMeansBindable ==
    status = "success" =>
        /\ nread = Len(objects) /\ EntryFound
        /\ \A name \in Wanted : \E k \in DOMAIN imports :
              /\ imports[k].plain_name = name
              /\ T!FoundByHash(k)
              /\ T!ListedUnderItsModule(imports[k])
==============================================================================
