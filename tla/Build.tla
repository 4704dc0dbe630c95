--------------------------------- MODULE Build ---------------------------------
(***************************************************************************)
(* The Makefile's `make examples`, run again and again while its sources   *)
(* change, and link_real.c, the step of it that belongs to this project.   *)
(* What a file holds is kept as what it lacks: the sources edited since    *)
(* the ones it was made from.  Which targets make rebuilds is the Makefile's *)
(* own affair: the prerequisites it names, and no others.  The compilers,  *)
(* the signing tool, the disk and the user are external: a step may fail,  *)
(* a write may be lost, and a make may be interrupted anywhere.  Sources   *)
(* are edited between two makes, never during one.                         *)
(***************************************************************************)
EXTENDS Naturals

CONSTANT
    Jobs           \* make -j: how many recipes may run at once

ASSUME JobsAssumption == Jobs \in Nat \ {0}

Sources == {"linker", "crt1", "main", "agcpack"}
Targets == {"link_real", "crt1_ps5.o", "eboot.bin"}
Files == Targets \union {"shaders", "main.o", "app.elf"}

VARIABLES
    have,          \* the files that exist
    older,         \* the targets older than one of their prerequisites
    lacks,         \* for every file, the edits it was made without
    running, done, \* a make runs; the goals it has seen to
    recipe,        \* the eboot.bin recipe: "wait", "link", "write", "sign"
    elf,           \* app.elf: "partial" or "whole"
    linked,        \* this make has opened app.elf
    succeeded      \* the last make ended well, nothing was edited since

vars == <<have, older, lacks, running, done, recipe, elf, linked, succeeded>>

Init ==
    /\ have = {} /\ older = {} /\ lacks = [f \in Files |-> {}]
    /\ running = FALSE /\ done = {} /\ recipe = "wait"
    /\ elf = "partial" /\ linked = FALSE /\ succeeded = FALSE

-------------------------------------------------------------------------------
\* Slip: the startup object is left out of the example's prerequisites.
PrerequisitesWithoutCrt1(t) ==
    CASE t = "link_real"  -> {"linker"}
      [] t = "crt1_ps5.o" -> {"crt1"}
      [] t = "eboot.bin"  -> {"main", "link_real"}

\* What the rule names.  No rule names what the shader headers are made from:
\* shaders is phony, and eboot.bin does not name the headers.
Prerequisites(t) ==
    CASE t = "link_real"  -> {"linker"}
      [] t = "crt1_ps5.o" -> {"crt1"}
      [] t = "eboot.bin"  -> {"main", "link_real", "crt1_ps5.o"}

NewerThan(f) == {t \in Targets : f \in Prerequisites(t)}

Due(t) == t \notin have \/ t \in older

\* What goes into a file: every source goes into the image that is signed.
MadeFrom(f) ==
    CASE f = "link_real"  -> {"linker"}
      [] f = "crt1_ps5.o" -> {"crt1"}
      [] f = "shaders"    -> {"agcpack"}
      [] f = "main.o"     -> {"main", "agcpack"}
      [] OTHER            -> Sources

Edit(s) ==
    /\ ~running
    /\ lacks' = [f \in Files |->
                    IF f \in have /\ s \in MadeFrom(f) THEN lacks[f] \union {s} ELSE lacks[f]]
    /\ older' = older \union NewerThan(s)
    /\ succeeded' = FALSE
    /\ UNCHANGED <<have, running, done, recipe, elf, linked>>

Clean ==
    /\ ~running
    /\ have' = {} /\ older' = {} /\ lacks' = [f \in Files |-> {}]
    /\ succeeded' = FALSE
    /\ UNCHANGED <<running, done, recipe, elf, linked>>

Make ==
    /\ ~running
    /\ running' = TRUE /\ done' = {}
    /\ linked' = FALSE /\ succeeded' = FALSE
    /\ UNCHANGED <<have, older, lacks, recipe, elf>>

\* f is written, from files that lack these edits.
Write(f, missing) ==
    /\ have' = have \union {f}
    /\ lacks' = [lacks EXCEPT ![f] = missing]
    /\ older' = (older \ {f}) \union NewerThan(f)

\* all: link_real and crt1_ps5.o, each from a source of its own.
BringUpToDate(t) ==
    /\ running /\ t \notin done
    /\ done' = done \union {t}
    /\ IF Due(t) THEN Write(t, {}) ELSE UNCHANGED <<have, older, lacks>>
    /\ UNCHANGED <<running, recipe, elf, linked, succeeded>>

AllUpToDate == {"link_real", "crt1_ps5.o"} \subseteq done

\* build.sh runs on every make, and writes every header again.  With one job
\* the goals of examples are seen to in the order they are listed.
BuildShaders ==
    /\ running /\ "shaders" \notin done
    /\ Jobs = 1 => AllUpToDate
    /\ done' = done \union {"shaders"}
    /\ Write("shaders", {})
    /\ UNCHANGED <<running, recipe, elf, linked, succeeded>>

ExampleReady ==
    /\ running /\ "eboot.bin" \notin done /\ recipe = "wait"
    /\ AllUpToDate
    /\ Jobs = 1 => "shaders" \in done

SkipExample ==
    /\ ExampleReady /\ ~Due("eboot.bin")
    /\ done' = done \union {"eboot.bin"}
    /\ UNCHANGED <<have, older, lacks, running, recipe, elf, linked, succeeded>>

Compile ==
    /\ ExampleReady /\ Due("eboot.bin")
    /\ "shaders" \in have
    /\ Write("main.o", lacks["shaders"])
    /\ recipe' = "link"
    /\ UNCHANGED <<running, done, elf, linked, succeeded>>

-------------------------------------------------------------------------------
\* Slip: make stops, and the recipe stays where it was.
ReturnHalfway(status) ==
    IF status = 0
    THEN recipe' = "sign" /\ UNCHANGED running
    ELSE running' = FALSE /\ UNCHANGED recipe

\* link_real returns: make goes on to sign, or stops.
Return(status) ==
    IF status = 0
    THEN recipe' = "sign" /\ UNCHANGED running
    ELSE recipe' = "wait" /\ running' = FALSE

\* Slip: main answers 0 whatever dynwriter_write answered.
Ignored == 0

Refused == 1

\* An object cannot be read, a name cannot be resolved, no object defines
\* _start, the output cannot be opened: app.elf stays what it was.
Refuse ==
    /\ recipe = "link" /\ Return(Refused)
    /\ UNCHANGED <<have, older, lacks, done, elf, linked, succeeded>>

LinkedFrom == {"link_real", "crt1_ps5.o", "main.o"}

\* fopen with "wb" empties the file that was there.
Open ==
    /\ recipe = "link"
    /\ Write("app.elf", UNION {lacks[f] : f \in LinkedFrom})
    /\ elf' = "partial" /\ linked' = TRUE
    /\ recipe' = "write"
    /\ UNCHANGED <<running, done, succeeded>>

\* The pieces are written, or some are lost on a full disk: what fwrite
\* answers is not looked at, and the summary line is printed either way.
WriteImage ==
    /\ recipe = "write" /\ Return(0)
    /\ elf' \in {"whole", "partial"}
    /\ UNCHANGED <<have, older, lacks, done, linked, succeeded>>

Sign ==
    /\ recipe = "sign"
    /\ Write("eboot.bin", lacks["app.elf"])
    /\ recipe' = "wait"
    /\ done' = done \union {"eboot.bin"}
    /\ UNCHANGED <<running, elf, linked, succeeded>>

\* A recipe fails, or the user interrupts: what was written stays.
Stop ==
    /\ running
    /\ running' = FALSE /\ recipe' = "wait"
    /\ UNCHANGED <<have, older, lacks, done, elf, linked, succeeded>>

Finish ==
    /\ running /\ done = Targets \union {"shaders"}
    /\ running' = FALSE /\ succeeded' = TRUE
    /\ UNCHANGED <<have, older, lacks, done, recipe, elf, linked>>

Next ==
    \/ \E s \in Sources : Edit(s)
    \/ Clean \/ Make
    \/ \E t \in Targets \ {"eboot.bin"} : BringUpToDate(t)
    \/ BuildShaders
    \/ SkipExample \/ Compile
    \/ Refuse \/ Open \/ WriteImage
    \/ Sign
    \/ Stop \/ Finish

Spec == Init /\ [][Next]_vars

-------------------------------------------------------------------------------
\* The type invariant; and no recipe is under way between two makes.
TypeOK ==
    /\ have \subseteq Files /\ older \subseteq Targets
    /\ lacks \in [Files -> SUBSET Sources]
    /\ running \in BOOLEAN
    /\ done \subseteq Targets \union {"shaders"}
    /\ recipe \in {"wait", "link", "write", "sign"} /\ (recipe # "wait" => running)
    /\ elf \in {"partial", "whole"}
    /\ linked \in BOOLEAN /\ succeeded \in BOOLEAN

\* The sources some rule names.  Shaders are not among them: an image made
\* before the last shader was edited counts as made.
Named == {"linker", "crt1", "main"}

\* README.md: "Never sign an old app.elf by mistake".  When the recipe comes to
\* sign, this very make has linked app.elf, and from the sources as they are.
SignsWhatItLinked ==
    recipe = "sign" => linked /\ lacks["app.elf"] \intersect Named = {}

\* Whatever was edited, and wherever earlier makes failed or were interrupted,
\* a signed image that lacks an edit is noticed: some target is still due.
NothingStaleIsOverlooked ==
    lacks["eboot.bin"] \intersect Named # {} => \E t \in Targets : Due(t)

\* README.md: "make examples builds each examples/*/main.c into a signed
\* eboot.bin".  A make that ends well leaves one, made from the program, the
\* startup object and the linker as they are.
SuccessMeansCurrent ==
    succeeded => "eboot.bin" \in have /\ lacks["eboot.bin"] \intersect Named = {}

\* dynwriter.h:24: "Returns 1 on success, 0 on failure (message on stderr)".
\* An image the linker reported as written, and make goes on to sign, is whole.
SuccessMeansWritten == recipe = "sign" => elf = "whole"
================================================================================
