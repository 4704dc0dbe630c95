# PS5Link: models, checks and proofs

This directory holds TLA+ models of PS5Link (the linker in `src/linker`, the
build around it, the video and pad contexts of `src/sdk`, and three of the
example programs), the TLC configurations that check them on small instances, and theorems that TLAPS proves for every
instance. `PROJECT.json` lists the same things for tools: the runs, which
lines of the source each definition stands for, the hazards and the theorems.

    tlc -config MCLinkReal.cfg MCLinkReal     # one run
    tlapm SectionMergeProofs.tla              # one module of proofs

## 1. The system

`link_real app.elf a.o crt1_ps5.o ...` reads ELF object files
(`elf_object.c`), decides which undefined names are imports of a system module
(`linker.c`, against the catalog of `catalog.c` and `catalog_extra.c`), and
writes an image the PS5 loader accepts (`dynwriter.c`). A program of the OpenOrbis
tool chain then signs it. The `Makefile` drives compiler, linker and signing
tool. `src/sdk` is a set of inline headers over SDL, `src/examples` are programs,
some with these headers (the file explorer), some on the system libraries alone
(`gpu_cube`, `pad_input`), `src/shaders` packs GPU shaders into headers.

The linker is one thread and runs to the end or stops. What makes it hard is
not concurrency but that numbers decided in one pass are used in another: ids
given by the resolver become keys of the writer's tables, a walk that counts
GOT slots must agree with a later walk that uses them, sizes that only become
known late move offsets fixed early, and nothing checks the image but a loader
that answers with a crash. Concurrency and failure appear around it: `make`
with several jobs, interrupts and failed steps, and in `gpu_cube`, where a
processor, a GPU and a display share two sets of buffers without asking each
other; `pad_input` reads a button that a player moves while readings fail; and
every program opens things one after the other, any of which may be refused.

| component | state | operations | talks to | hard | what makes it correct |
|---|---|---|---|---|---|
| object reader (`elf_object.c`) | symbols, sections, relocations of a file | load, find a defined name, free | resolver and writer read it | files taken as given; lookup by name ignores the binding | a name finds the definition it means |
| resolver (`linker.c`, `catalog_lookup.c`) | undefined names, imports with ids, unresolved names | `linker_resolve` | objects, catalog; the writer keys its tables by the ids | two lists walked once each, numbering by first use | every name settled once; one id, one module or library |
| section merge (`dynwriter.c`, pass 1) | merged buffers, placement of every section | classify, place, append process parameters, shift `.bss` | relocation uses the placements | `.bss` is laid out before its base is known | no overlap, alignment, everything inside |
| relocation (`dynwriter.c`, the three walks) | which imports are called or loaded, slots, stubs, records | scan, count slots, patch, build records | uses placements and ids; the loader applies the records | the same question asked in two walks; unpatched references | each reference reaches what it means or is reported |
| dynamic tables (`dynwriter.c`) | hash, module and library records, dynamic table | fill, record, list | ids of the resolver; read by the loader | head insertion in descending order | every import found, libraries under their module |
| image layout (`dynwriter.c`) | offsets and addresses of segments, tables and tail | lay out, write | everything above | two address spaces in two orders; a tail in the rest of a page | no shared page, offsets match, no write destroys another |
| linker driver (`link_real.c`) | objects read, exit status | read, resolve, stop or write | all of the above | any step may fail, the next command sees only the status | status 0 means the loader can bind the program |
| build (`Makefile`, `build.sh`) | files and their times | compile, link, sign, clean | the compilers, the driver, the signing tool, the disk | interrupts, failures, `-j`, files left by an earlier run | what is signed was linked just now from the present sources |
| video and pad context (`sdk/ps5sdk.h`, `ps5sdk_video.h`, `ps5sdk_pad.h`) | pointers to window, renderer, fonts, controller | construct, open, close, destruct | SDL | an opening that fails half way, pointers left behind | each object destroyed once, before what owns it |
| file explorer (`examples/payload/fb_explorer.c`) | path, entries, cursor, first row shown | six keys, read a directory, draw | the contexts, the file system | a path cut at the end of its buffer, an entry overwritten for the sake of a key, rows worked out twice | the list is that of the path; the cursor is on the screen |
| gpu_cube (`examples/gpu_cube`) | eighteen buffers, a frame counter | allocate, record, submit, wait for the blank | kernel, GPU and display, by shared memory | allocations that fail, nothing waits for the GPU | a draw reads its own frame, from memory that is there |
| pad_input (`examples/pad_input`) | last state of a button, number of presses | open, read, notify, close | pad library, player | readings that fail while the button moves | no press counted twice, none that was read missed |
| startup object (`crt1.S`) | none | call, in order, initialisers and `main` | loader, `DT_INIT`/`DT_FINI` | order of calls | - |
| NID encoding (`nid.c`, `sha1.c`) | none | hash of a name, encoding of an id | resolver | - | known values, tested by `test_nid.c` |
| catalog and its generator | tables | - | resolver | two tables written by two hands | no name exported twice |
| other SDK headers (`sdk/`) | none | one call each | SDL, POSIX | - | - |
| other examples, shader tools, linker tests | little | - | SDK | see section 8 | - |

## 2. Plan

The linker is the heart of the repository, and `dynwriter_write` the heart of
the linker, so the plan starts there and moves outwards.

1. `ObjectFiles`, `Resolution` (abstract), `Resolve` (detailed): the resolver. *done*
2. `Align`, `SectionMerge`: pass 1, with proofs. *done*
3. `ImageLayout`: segments, tables, tail and writes, with proofs. *done*
4. `Relocate`, `DynTables`: the walks over the relocations and what the loader
   does with the result. *done*
5. `Build`: `make examples` with `link_real` in it. *done*
6. `CubeFrames`: the frame loop. *done*
7. `LinkReal`: the driver, with `Resolve` and `DynTables` composed in it, so that
   the tables are built from what the resolver really answers. *done*
8. `elf_object_read` in `ObjectFiles`: `Relocate` starts from files. *done*
9. `CubeSetup` (the allocations before the loop), `PadInput`, `VideoContext` and
   `Explorer`. *done*, with the proofs of `PadInput`.
10. Proofs of every safety property of `LinkReal` (the resolver, its refinement of
   `Resolution`, the hash, the records, the dynamic table, the status), of `Build`
   and of the cube. *done*
11. Proofs of every property of `Relocate`. *done*
12. Proofs of every property of `Explorer` and `VideoContext`, and of what the modules
   of the linker assume of one another. *done*

`ObjectFiles` is shared by `Resolve` and `Relocate`; `Align` by `SectionMerge`
and `ImageLayout`. `Resolve` is shown to implement `Resolution`. `LinkReal` extends
`Resolve` and instantiates `DynTables` with the imports the resolver answers, so
what the tables need of the ids is not assumed but produced. `CubeFrames` extends
`CubeSetup`: its loop begins where the allocations end. `Explorer` extends
`VideoContext`: its program runs between opening and closing. The other passes of
the writer run one after the other and hand over a few numbers, so they are
checked apart, and what one assumes of another is proved of the other (section 5):
`ImageLayout` assumes that the bytes of the data are at most its memory and not empty,
`Relocate` that its imports are those the resolver answers.

A slip of the code, an off-by-one or a reset left out, is written next to the
definition it is a slip of (the comments that start with "Slip:"). Nothing uses
these definitions: putting one in the place of its neighbour breaks the
property it belongs to, which is how it is known that the property can fail.

## 3. The modules

### ObjectFiles, Resolve, Resolution

A symbol is a name, a binding, a type and a section index. The mangled name an
import gets is stood for by the ids it encodes, a NID by the name it hashes.

| model | code |
|---|---|
| `CollectSymbol`, `NextObject`, `EndCollect` | the first loop of `linker_resolve`, with `already` |
| `ResolveDefined`, `ResolveUnknown`, `ResolveImport`, `Finish` | the second loop |
| `find_in`, `catalog_find` | the functions of that name: generated table, then the other |
| `module_index`, `library_index`, `Enter` | the functions that number and append |
| `is_defined_anywhere`, `FindsDefined` | `elf_object_find_defined` for every object |
| `elf_object_read`, `ReadSymbols`, `ReadRelocs` | `elf_object_read`: from the sections of a file to symbols and relocations |

Reading keeps the last symbol table when there are several, turns a binding it does
not know into `GLOBAL`, puts the relocations of all sections one behind the other
and leaves out those of type `REL`. The comparisons of offsets with the size of the file
are left out.

`Resolution` says what the header promises with no order, no table and no
number: a name that some object references and none defines is settled once,
bound to the one that exports it or reported. The refinement mapping takes the
imports as a function from names to providers, the unresolved list as a set;
collecting symbols is a stutter.

### Align, SectionMerge

The two loops over objects and sections visit the sections in one order, so the
input is one sequence. `PlaceBytes`, `PlaceBss` and `Drop` are the three outcomes
of the loop body; `EndPlacing` gives an empty buffer its eight bytes,
`AppendProcessParams` appends the record and the parameter blocks, `ShiftBss`
moves the placements of `.bss` behind them. Contents of sections are left out:
the properties speak of where they lie.

### ImageLayout

One action per stretch of code: the PLT, the regions, the tables, the tail, and
one step per `fwrite`. The input holds sizes and counts that the other passes
decide. The sizes of tables are those the code computes. What is written into
headers and tables is left out, except in `DynTables`.

### Relocate

The three walks over the relocations: `MarkImport` (which imports are called,
which are loaded), `CountLocalSlot` (own symbols that need a slot), and the
patching walk, one action per outcome. Addresses are names of places: a symbol
of an object, a stub, a slot. `BuildRecords` writes `.rela.plt` and `.rela.dyn`;
`LoadRecord` is the loader, modelled from what the code says it does with
`DT_RELACOUNT`, and external. Addends and displacements are left out: a
reference reaches a symbol, not a byte of it.

`imports` stands for what `linker_resolve` answers when it answers for every name: the
names nothing defines, in the order of their first symbols. `InLoops` is the pair
of loops, over objects and over what each has, that all three walks are made of.
`ProgramAssumption` says that a relocation names a symbol and a section its object has,
which the code does not check. `StaticsAssumption` is about `static` symbols, is needed by
`ReferencesReach` only, and holds of what compilers write: a section has a local
symbol, and no static is loaded through the GOT. A relocated field is that of an
instruction, with its opcode in front of it: `NeedsLocalSlot` and `Rewritable` leave
out the comparisons of its offset (lines 309 and 648, which differ). They matter only to
a word of data in a code section, which the link counts in a warning.

Statics may have the names of other objects' symbols. `Meaning` is what C says a reference is
to. The code looks a name up without asking who may see the symbol, so a static that
is linked before all else of its name, its `Shadow`, takes the references that go by
name; and a slot, which goes by name too, may then hold either. `Expected` is `Meaning`
but for these two cases, and `ReferencesReach` is stated with it: a collision of names does
no other harm.

### DynTables, LinkReal

`HashSymbol` fills the hash from the last import to the first, `RecordImport`
keeps modules and libraries once each. Two nested loops list them in the dynamic
table: `EmitModule` writes the two entries of a module, `EmitLibrary` compares the
next library record with that module and writes its two entries when they
belong together, `NextModule` goes on. The model of the loader's search, `Walk`,
is only used by properties.

`LinkReal` is `main` of `link_real.c`: `ReadObject` and `ReadFails` for each object,
`linker_resolve` (the steps of `Resolve`), `ReportUnresolved`, `StartTables` and
`BuildTables` (the steps of `DynTables`), `WriteFails` and `WriteImage`. The hash of a
mangled name is any of a few values, chosen when the tables begin. The layout and the
patching touch none of this state and stay in modules of their own.

### Build

What a file holds is kept as what it lacks: the sources edited since the ones it
was made from. A target is rebuilt when it does not exist or is older than a
prerequisite its rule names. The recipe of the example is three commands, with
`link_real` between them: it refuses (any of its early returns), or opens the
output, writes, and answers. A write can be lost, any command can fail, a make
can be interrupted at any point; the compilers, the signing tool, the disk
and the user are external. The example is `gpu_cube`, which uses shaders.
Assumptions: sources are edited between makes, and the signing tool fails
before it writes its output or not at all.

### CubeSetup, CubeFrames

`CubeSetup` is `main` of `gpu_cube` before its loop: `Steps` lists the calls and
allocations in their order, `SharedSteps` and then those of the two sets of
buffers. `TakeMemory` and `MapMemory` are the two halves of
`direct_alloc`; `MapFails` gives the memory back, as the code does. A buffer holds the
grant it was given, known by the step that asked for it, and its size.

`CubeFrames` is the loop, from the constants of a frame to the wait for the blank,
with a GPU that may miss up to `patience` blanks before a draw is done and a
display that shows one queued flip per blank. Both are external. A set of
buffers holds the number of the frame last written to it.

### PadInput

`Open`, then `ReadNothing` or `ReadButtons` and `Sleep` for every frame, then `Close`. A
reading that fails and one the system has intercepted are one action: both leave
`was_cross_down` alone. `Press` and `Release` are the player, external. Presses are numbered
so that it can be said which of them the program counted; `read_up` and `read_down` say
whether a usable reading fell in the latest release and in the latest press.

### VideoContext, Explorer

`VideoContext` has one action per thing opened or closed. `pointer` is the set of
fields that are not `NULL`, `alive` the set of objects SDL has created and not destroyed;
the two differ after `OpenRenderer` was refused. `Destroy` notes a misuse: an
object that is not alive, or whose owner is gone.

`Explorer` is the program: `load_dir`, `EnterDirectory`, `GoUp` (CROSS), `GoBack` (CIRCLE),
`KeyUp`, `KeyDown`, `KeyOptions`, `QuitEvent`, and `render_ui` once the events of a
frame are used up. A path is a sequence of slashes and names, each with the
position of its last character in the buffer; `Joined` and `Parent` are the string
operations of `nav_enter` on such paths, and the directories a path goes through
(`Denoted`) are its names with where they end. Of a name that does not fit, `Joined` appends
the `Beginning`, which is another name and may be that of another directory. A directory answers anything, twice differently if it likes. `Shown` are the
entries `readdir` is asked for until the array is full, `Listed` the lists `qsort` may make
of them: `cmp_entry` is kept but for the order of the letters, so names of one kind
come in any order.

Assumptions: the array holds an entry and the buffer more than the slash (`SizesAssumption`, 512
and 511 in the code); a file system gives no name that is empty or has a slash in it
(`NamesAssumption`), and the beginning of a name has the length that is left
(`BeginningsAssumption`); the height of the screen leaves as many rows for the keys as for
the drawing (`HeightAssumption`). 1080 does: 860 / 42 and 844 / 42 are both 20.

## 4. What is checked

Runs that pass:

| run | properties | what it shows | bounds, and why they are enough |
|---|---|---|---|
| `link` | `IdsNameOneModuleAndLibrary`, `EachNameSettledOnce`, `EveryImportFound`, `ChainsAscend`, `LinkedMeansBindable`, `RefinesResolution` | `linker_resolve` settles every name once and implements `Resolution`; from what it answers, tables are built in which the loader finds every import and its library; status 0 means that every name the program means from outside can be bound | two objects of two symbols each beside the null symbol, five names, with and without a startup object. A name met twice in an object order, defined in the other object, found in either catalog table, a library split over both tables, up to four imports of two modules and three libraries with hashes that collide in every way three values can |
| `merge` | `NoTwoSectionsOverlap`, `EverySectionAligned`, `EverySectionInside`, `ParamsBelongToNoSection` | sections lie apart, aligned, inside | up to three sections of every kind; sizes that leave odd ends, alignments the parameter blocks do not happen to satisfy. Three sections of one kind, two of one and one of another: more are proved |
| `layout` | `SegmentsShareNoPage`, `OffsetsMatchAddresses`, `SegmentsStoreSomething`, `GotHoldsEverySlot`, `TablesFollowOneAnother`, `WritesKeepWhatIsWritten` | the image is well formed at every step | the real page of 16384 and sizes on both sides of its multiples: empty, one byte, just short, full. Every size is proved |
| `relocate` | `ReferencesReach`, `NoSlotFilledTwice`, `RelativeRecordsLead`, `EveryUseHasASlot` | what is not reported as unpatched reaches what it means, as loaded | up to two references of each of 26 kinds in one file, three sets of references in another, both read by `elf_object_read`; and a static and an undefined symbol of one name in two files, in either order, with a global of that name in a third, in every order in which the static is not last; each file with at most one call, word or load. Two uses of one slot, a slot and a relaxation of one symbol, references to names of both objects; the walks keep no state that a third reference could reach in a new way |
| `build` | `SignsWhatItLinked`, `NothingStaleIsOverlooked`, `SuccessMeansCurrent` | an eboot is linked by the make that signs it, from present sources; no rebuild is forgotten after a failure | any number of edits, makes, failures, interrupts and cleans: the state is finite without a bound. Two jobs; a third would find nothing to run |
| `cube` | `BuffersHoldTheirMemory`, `DrawReadsItsOwnFrame`, `WipesOffScreen`, `Terminates` | no buffer is used that was not allocated and mapped, whichever call fails; a draw reads the buffers of its own frame while it misses at most one blank; the target wiped is not on the screen while it misses none | the real sequence of steps, each of which may fail; twelve frames: each of the two sets is used six times, and the state repeats after two frames but for the counter. 600 in the code |
| `explorer` | `CursorOnScreen`, `ShowsWhatItLoaded`, `ClosedOnceInOrder`, `PathFollowsMoves` | the cursor is on a row that is drawn, the list is that of the path, going up takes one name off though the path is cut, entering leads inside if the path fits and only then, everything opened is closed once | two rows on the screen and up to three entries, so that the list scrolls; paths of seven characters with names of one to three and the mark of an empty directory, some of which begin others, so that a name fits, is cut to another that is listed too, to `..`, or does not fit at all, at a depth of up to three. Any number of keys |
| `pad` | `NoPressCountedTwice`, `ReadPressIsCounted`, `EndsClosed` | no press is counted twice, none that was read with the release before it is missed, the program ends with the controller closed | seven readings and four presses: a press may last over several readings, and one may come back after a gap. 625 in the code |

`link`, `merge`, `relocate`, `build`, `cube` and `explorer` also check the type
invariant of their modules; that of `layout` is part of what is proved. Runs that
come to an end do not check deadlock: the program stops there. `build` never
stops, and checks it.

Runs that show where the code and what is said of it differ (section 6):
`resolve_static`, `layout_tail`, `reloc_resolved`, `build_written`.

**Fairness.** Two modules state any. `CubeFrames`: weak fairness of the allocations
(straight-line code) and of the processor's loop (one thread that blocks on
nothing but the blank), of the GPU (a submitted draw comes to an end) and of the blank
(the display goes on). None of them can be switched off and on again by the
others for ever, so nothing stronger is needed. `Fail` is not fair: an early return
need never happen. `PadInput`: weak fairness of the program, one thread that
waits for nothing but its own sleep; the player may stop at any time. The
other models make claims of safety only: that the linker ends follows from its
loops over finite lists, and `Build` and `Explorer` go on for as long as their user
does.

## 5. What is proved

`TLAPS` proves the following for every value of the constants.

**SectionMerge** (`SectionMergeProofs`), for any number of sections of any size:
`TypeCorrect`, `SectionsNeverOverlap`, `SectionsAlwaysAligned`,
`SectionsAlwaysInside`, `ParamsNeverShared`. Assumptions: alignments are positive
and the smaller of two divides the larger (`AlignmentAssumption`; ELF alignments
are powers of two), sizes are natural numbers.

The absence of overlap is not inductive: nothing in it says that a section placed
next starts behind those placed already. `LayoutInv` adds what the code keeps
without saying so: sections of a region lie in the order placed
(`PlacedInOrder`), end inside their buffer, and the strictest alignment of
`.bss` is at least each alignment asked for (`PlacedInside`). This last part is
why the shift keeps alignment: the base is a multiple of the strictest, the
strictest is a multiple of each (lemma `StrictestIsMultiple`), and a sum of
multiples is one (`DividesSum`). One lemma per action shows that it
keeps `LayoutInv`; the theorems then follow from it.

**ImageLayout** (`ImageLayoutProofs`), for any page size and any input:
`SegmentsNeverShareAPage`, `OffsetsAlwaysMatch`, `SegmentsNeverEmpty`,
`GotAlwaysHolds`, `TablesAlwaysFollow`, `WritesAlwaysKeep`. Assumptions: the page is
positive, the bytes of the data are not empty and at most its memory
(`InputAssumption`, which pass 1 gives).

The properties speak of the finished layout, and each phase only sees the one
before it. `ImageInv` records what each phase has fixed: the size of the GOT
(`PltAppended`), where each region starts (`RegionsPlaced`), that the tables follow
one another (`TablesPlaced`), and where the tail is (`TailPlaced`). `Overlap` of
two writes then comes down to the order of the pieces in the file
(`PlacedFacts`), which is not the order in which they are written.

**PadInput** (`PadInputProofs`), for any number of readings and presses:
`NeverCountedTwice`, `ReadPressAlwaysCounted`. Assumption: the two bounds are natural
numbers (`FramesAssumption`).

Neither property speaks of `was_cross_down`, on which both rest. `PadInv` adds what
that variable knows: a press that was counted and lasts is remembered
(`CountedIsRemembered`, so it is not counted again), and without a gap in front of
it a button remembered as down is a press that was counted
(`RememberedIsCounted`, so a press that is read is either new or counted already).

Both modules start with the lemmas they need of `Align`: `align_up` answers a multiple of the
alignment that is not below its argument and less than one alignment above it;
divisibility is kept by sums and is transitive.

**LinkReal, Resolve, DynTables** (`LinkRealProofs`), for any command line, any
catalog and any hash: `LinkTypeCorrect`, `IdsAlwaysNameOneModuleAndLibrary`,
`AlwaysSettlesEachNameOnce`, `LinkRefinesResolution`, `ChainsAlwaysAscend`,
`EveryImportAlwaysFound`, `LinkedAlwaysMeansBindable`. Assumptions: no name is
exported by two entries of the catalog (`OneExporterAssumption`), the tables and the
objects are sequences of entries and symbols, hashes are numbers.

The properties are about the ends of three loops over what a fourth has built, so
`LinkInv` follows the data through them:

- `ResolveInv`. The tables of the resolver hold no key twice and lead each id an
  import carries back to the names it carries (`IdsLeadToKeys`); the list of the
  first loop holds what is undefined among the symbols it has seen, once each
  (`ListedOnceSeen`); of the names the second loop has passed, each is defined,
  imported or reported, as the catalog answers for it (`PassedIsSettled`).
  `IdsNameOneModuleAndLibrary` says nothing about the tables the ids come from and
  is not inductive without them. Refinement: a step that imports binds an open
  name to its one exporter (`CatalogFindIs`, from `OneExporterAssumption`), one that
  reports reports it, any other is a stutter.
- `ChainsHold`. A symbol hashed in is the head of its bucket or follows a smaller one
  of it, and what is not hashed in is in no chain. `ChainsAscend` alone does not
  say that the head of a bucket belongs to it, which the next insertion needs.
- `RecordsHold`. Each module and library met so far is recorded once, a library
  with the module of every import that names it. This is where the ids matter
  (`SameLibrarySameModule`): the code asks for the id of the library alone.
- `DynvHolds`. The libraries whose turn is over are listed once, behind their own
  module, with no other module between; while a module's libraries are compared
  its entry is the last of its kind.
- `DriverHolds`. Tables exist only for a link with every object read and nothing
  unresolved; status 0 means the tables are done and there is an entry point.

The walk of the loader is a recursive function. That such a function exists for
every size, that it leaves the chain behind after as many steps as there are
imports, and that it meets whatever is hashed in, are inductions; they are done by
the least number for which they would fail (`LeastOf`), which the well-foundedness
of the natural numbers gives (`WalkIs`, `WalksMeetTheImports`).

**Build** (`BuildProofs`), for any number of jobs: `BuildTypeCorrect`,
`AlwaysSignsWhatItLinked`, `NothingStaleEverOverlooked`, `SuccessAlwaysMeansCurrent`.
Assumption: there is at least one job (`JobsAssumption`).

The properties compare what files lack, and `make` compares ages. `BuildInv` says when
ages show it: a target not older than its own source lacks no edit of it
(`AgeShowsEdits`); an example that is not older than its prerequisites lacks only
what one of them lacks too, and shows by its own age (`ImageAgeShowsEdits`). The rest
is about a make in progress: what it has seen to stays up to date
(`DoneIsCurrent`), and the recipe compiles, links and signs from prerequisites that
are (`RecipeProgress`), which is why nothing stale is signed.

**CubeSetup, CubeFrames** (`CubeProofs`), for shader parts of any length, any number of
frames and any GPU: `CubeTypeCorrect`, `BuffersAlwaysHoldTheirMemory`,
`DrawsAlwaysReadTheirOwnFrame`, `AlwaysWipesOffScreen`. Assumptions: lengths and
frames are positive (`ShaderBytesAssumption`, `FramesAssumption`).

`SetupInv` ties memory to the position in `main`: a buffer is mapped exactly when
its step is passed (`MappedInOrder`), and the kernel counts nothing as used that no
buffer holds (`AllTakenIsHeld`). For the loop, `FrameInv` counts blanks: a draw that is
still queued has missed every blank since it was submitted (`MissesAreCounted`), so one
that may miss a single blank is at most one frame old, and the frame that is being
recorded has the other slot. `InStep` gives the state between two frames for a GPU
that misses none.

**Relocate, ObjectFiles** (`RelocateProofs`), for any number of object files with any
symbols and references: `RelocTypeCorrect`, `NoSlotEverFilledTwice`,
`RelativeRecordsAlwaysLead`, `EveryUseAlwaysHasASlot`, `ReferencesAlwaysReach`.
Assumptions: `ProgramAssumption`, and for the last `StaticsAssumption` (section 3).

The properties speak of the end, of records and memory; what they need was decided walks
earlier. `RelocInv` carries it from walk to walk:

- `SlotsHold`. Of the references the second walk has passed, those that need a slot
  have one, and no name has two. That the third walk needs no other slot is the
  agreement of the two tests (`EveryUseHasASlot`): a load that cannot be rewritten
  and is not answered by an import has a definition, so the second walk has seen it.
- `FixupsHold`. Each base-relative record was left by a reference passed, for its own
  field or for the slot of its name; no two have one target; a slot in use has its
  record. The last is what `local_got_emitted` is for.
- `PatchesHold`. What is in the field of a reference that was passed and not reported,
  by type and by where its address comes from.
- `TablesHold`, `MemoryHolds`. The tables are made of these records and of one for each
  import called or loaded; what the loader has applied is still there. The latter needs
  that no later record has the same target, so it rests on `RecordsAre`: parameters,
  fields, and the three runs of slots are apart.

An address is then traced to its source (`AddressIs`): the place of the symbol, the first
place of its name, or a stub or slot of an import. The first of its name is the shadow
or, where there is none, a place that may be seen (`FoundByName`, `PlaceIsMeant`); that needs
the order of the symbols, which `InLoops` and `Kept` preserve (`InLoopsIs`, `KeptIs`). An
import is meant because nothing that defines its name can be seen (`ImportUnseen`). A slot is
found by one reference and filled by another of the same name: neither is of a static,
so the two mean the same unless the shadow filled it (`LocalSlotsFilled`).

`Kept` and the `FlattenSeq` of the community modules are recursive functions. That they
exist, and what is in their result, is again proved by the least length for which
it would fail (`KeptIs`, `FlattenIs`).

**VideoContext, Explorer** (`ExplorerProofs`), for any screen, any sizes of list and path, any
names and any answers of directories: `EverythingIsClosed`, `ExplorerTypes`, `CursorIsDrawn`,
`DrawnWasLoaded`, `MovesAlwaysFollowed`. Assumptions: those of section 3.

- `ContextInv`. `ClosedOnceInOrder` says nothing of what is open in between. Each stage
  bounds what may be there (`MayBeThere`), what is there has its owner, and until the
  libraries go down the context knows exactly of what is there. After `OpenRenderer` was
  refused it knows of too much, and the only stages that follow close nothing.
- `WellBuilt`, `Fits`. A path starts with the slash, slashes and names take turns, each ends
  behind the one before, and a path that ends with a slash is the root or fills the buffer.
  The last is why `JoinedIs` and `ParentIs` hold: a slash is never appended to a slash,
  and dropping one at the end leaves a name to go back over. `GoBack` relies on it too:
  below the root there is always somewhere to go up to (`GoBackIs`), so the entry
  written over is always read anew.
- `ListGood`. The list is neither empty nor longer than its array (`ShownFits`: in front of
  the last entry shown there are fewer than `MAX_FILES`), and what can be entered has a length.
- Rows. The keys and the drawing agree on them (`RowsAgree`); from there on `CursorOnScreen`
  is inductive by itself. Its last part, no blank row below a scrolled list, is what keeps
  the scroll bar inside.

**Between the modules.** `AlwaysHandsOver` (`SectionMergeProofs`): pass 1 ends with writable bytes
that are not empty and fit in the memory mapped for them, which is `InputAssumption` of
`ImageLayout`. It needs that the eight bytes an empty buffer is given stay in front of the
parameters (`BytesToMap`). `ImportsAlwaysAreTheWanted` (`LinkRealProofs`) and
`WalksAlwaysSeeTheWanted` (`RelocateProofs`): the imports the resolver answers when it reports
nothing, and the imports `Relocate` starts from, are the same names, those that are
referenced and not defined, each once. Their order, which is that of their first symbols in both,
is not part of the statement and no theorem about `Relocate` rests on it.

Only model-checked: `Terminates` and `EndsClosed`, which are claims of liveness and out of this
prover's reach. Every other property of the runs that pass has a theorem.

## 6. What the code does and what is said of it

Each of these has a run that shows it.

- `resolve_static`: `elf_object_find_defined` does not look at the binding. A
  `static` function of one object answers for a system function of that name that
  another object declares `extern`, and nothing is imported.
- `layout_tail`: the tail of the file is placed behind the GOT in what its last
  page leaves, with no check that it fits. When it does not, the tail
  overwrites the string table, and the comment "outside every segment the container
  stores" does not hold. `WritesKeepWhatIsWritten` shows it is the only way a write
  destroys another.
- `reloc_resolved`: a table of function pointers with an imported function in it
  leaves that pointer zero; the link counts it and succeeds.
- `build_written`: what `fwrite` and `fclose` answer is not looked at, so a full disk
  leaves a partial image, `link_real` answers 0 and the signing tool gets it.

Further divergences met on the way, with no run of their own:

- A relocation of a type the patching walk does not know (an absolute 32-bit one of
  code built without `-fPIC`) is neither patched nor counted in the number of
  relocations printed last as "still unpatched" (`dynwriter.c`, line 1144). The inputs
  of `relocate` contain one, and `ReferencesReach` covers it as a reference left alone.
- The size printed at the end is not that of the file: it is where the section
  headers end, in front of the tables and the writable bytes.
- A symbol in `SHN_COMMON`, `SHN_ABS` or in a dropped section counts as
  defined for the resolver, and has no address for the writer: references to it are
  left unpatched. `ReferencesReach` covers them as reported ones.
- The lookup by name in the patching walk (`name_addrs`, lines 530 to 550 and 590) does not
  look at the binding either: with a static linked first, another object's reference to
  the global of that name reaches the static. `ReferencesReach` says so (`Expected`).
- GOT slots of the binary's own symbols are found by name. The comment in `dynwriter.c`, lines 291
  to 292, "no same-named statics", holds of the references that need a slot, not of
  what fills it: with a static linked first, another object's load by name may
  fill the slot with the static, and the object that defines the global then
  loads the static's address from it. `Expected` allows this, too.
- Two `static` variables of one name would share a GOT slot. A compiler reaches a static
  directly, so the inputs of `relocate` do not contain it.
- An image is not rebuilt when a shader changes: `eboot.bin` names no header as a
  prerequisite. `SuccessMeansCurrent` speaks only of sources the rules name.
- The comment of `dynwriter.h`, lines 10-13, describes an earlier state of the
  writer.
- With a GPU that misses two blanks, `DrawReadsItsOwnFrame` fails: the frame after
  the next records into the buffers of a draw that has not finished. The comment in
  `main.c`, lines 452-453, holds for a GPU that keeps up.
- With a GPU that misses a single blank, `WipesOffScreen` does not hold: the flip comes late
  and the processor clears the target that is on the screen. Nothing in the loop
  asks the display which one that is; `WipesOffScreen` is a statement about a GPU that
  misses none.
- A path that does not fit is cut without a word (`fb_explorer.c`, lines 50 to 52): CROSS then opens a
  directory whose name is the beginning of the chosen one's, which may exist, or may be
  `..`, or opens the present one again. The list shows what that path answers, so
  nothing tells the player. `LeadsInsideIfItFits`, the half of `PathFollowsMoves` about entering,
  says where it leads in either case. Going up takes the last name off the text: behind a cut `..` that is
  not the parent directory.
- The array in which `gpu_cube` gathers the registers of a frame (`main.c`, line 563)
  is sized 16 + 14 + 1 + 34 + 32 + 32; the culling register was added later without a place of
  its own. The two shaders may therefore declare 63 registers together, not 64.
- The mark `<EMPTY>` of an empty directory is given a name and no kind
  (`fb_explorer.c`, line 36). When the entry it is written over was a directory,
  CROSS takes the mark for one and appends it to the path. `Listed` has it, and
  `PathFollowsMoves` holds of it as of any name: the program then shows what reading that
  path answers.
- The example in `ps5sdk.h`, lines 3-15, does not look at what `ps5sdk_video_init`
  answers. When the renderer is refused, the window is destroyed and stays in
  the context, and `ps5sdk_video_close` of that example would destroy it again. The file
  explorer looks, and returns: `ClosedOnceInOrder` holds because of it.
- A press of `pad_input` whose preceding release fell into a gap between readings
  is not counted: for the program the button never went up. `ReadPressIsCounted`
  is stated for releases that were read.

## 7. Bounds

Every bound is in an `MC` module or its `.cfg`: the tables `MCTable` and catalogs
of `MCResolve`; `MCLinkProgram` and the three values of `Hash` of `MCLinkReal`; `MCLink`
(three sections) of `MCSectionMerge`; `MCInputs` of `MCImageLayout`; `MCProgram` (two
references of an object, or one name in three) of `MCRelocate`; `Jobs` of `MCBuild`; `FRAMES`, `Patiences` and
`ShaderBytes` of `MCCubeFrames`; `MCListings`, `MCNameLength`, `MCBeginning`, `MAX_FILES` (512 in the code),
`MAX_PATH` (511) and `PS5SDK_H` (1080) of `MCExplorer`; `max_frames` (625) of
`MCPadInput`. The one bound inside a component is `MaxPresses` of `PadInput`, on the
presses of the player; no action of the program carries one. The numbers of the layout are natural numbers; the code uses
64-bit offsets, which an image in memory does not come near.

## 8. What is not modelled

- *Object reader*: that offsets in the file are, or are not, compared with its size. The
  files are those of a compiler.
- *NID encoding*: a pure hash, tested against known values.
- *Catalog*: data. That no name is exported twice is `OneExporterAssumption`.
- *Catalog generator*: a transformation of a text that is not in the repository.
- *Headers of the image, addends, displacements, fixed tags of the dynamic table*:
  data, or straight assignments of numbers whose layout is modelled. The lookup of
  `_init` and `_fini` behind two of these tags is left out with them: the startup
  object calls both functions itself.
- *Startup object*: straight-line code without a branch and without state.
- *Other SDK headers*: each function is one call of SDL or of the system, with no
  state; `ps5sdk_pad_update` copies what SDL answers.
- *Rest of the cube*: matrices and register values. How many registers
  a shader container declares is decided by `agcpack.py`, a packer with no state.
- *The other examples, the linker's tests, the assembly of the shaders*: they draw or
  print once, or loop over input, and keep no state.
