------------------------------ MODULE BuildProofs ------------------------------
(***************************************************************************)
(* Whatever is edited, made, interrupted and cleaned in whatever order, and *)
(* with any number of jobs, make signs only what it has just linked from   *)
(* the sources its rules name, and overlooks none of them later.           *)
(***************************************************************************)
EXTENDS Build, TLAPS

\* What each file becomes a reason to rebuild.
LEMMA NewerThanValues ==
    /\ NewerThan("linker") = {"link_real"} /\ NewerThan("crt1") = {"crt1_ps5.o"}
    /\ NewerThan("main") = {"eboot.bin"} /\ NewerThan("agcpack") = {}
    /\ NewerThan("link_real") = {"eboot.bin"} /\ NewerThan("crt1_ps5.o") = {"eboot.bin"}
    /\ \A f \in {"shaders", "main.o", "app.elf", "eboot.bin"} : NewerThan(f) = {}
<1>1. /\ Prerequisites("link_real") = {"linker"}
      /\ Prerequisites("crt1_ps5.o") = {"crt1"}
      /\ Prerequisites("eboot.bin") = {"main", "link_real", "crt1_ps5.o"}
  BY DEF Prerequisites
<1> QED
  BY <1>1 DEF NewerThan, Targets

LEMMA NewerThanTargets == \A f \in Files \union Sources : NewerThan(f) \subseteq Targets
BY DEF NewerThan

LEMMA MadeFromValues ==
    /\ MadeFrom("link_real") = {"linker"} /\ MadeFrom("crt1_ps5.o") = {"crt1"}
    /\ MadeFrom("shaders") = {"agcpack"} /\ MadeFrom("main.o") = {"main", "agcpack"}
    /\ MadeFrom("app.elf") = Sources /\ MadeFrom("eboot.bin") = Sources
BY DEF MadeFrom

-------------------------------------------------------------------------------
\* A file lacks only sources it is made from, and one that is gone lacks none.
LacksWhatItIsMadeFrom ==
    /\ lacks["shaders"] \subseteq {"agcpack"}
    /\ lacks["link_real"] \subseteq {"linker"}
    /\ lacks["crt1_ps5.o"] \subseteq {"crt1"}
    /\ "eboot.bin" \notin have => lacks["eboot.bin"] = {}

\* The two targets with a source of their own are older than it when they lack
\* an edit of it.
AgeShowsEdits ==
    /\ "link_real" \notin older => lacks["link_real"] = {}
    /\ "crt1_ps5.o" \notin older => lacks["crt1_ps5.o"] = {}

\* An example that is not older than its prerequisites lacks only what one of
\* them lacks as well, and shows by its own age.
ImageAgeShowsEdits ==
    "eboot.bin" \notin older =>
        /\ "main" \notin lacks["eboot.bin"]
        /\ "linker" \in lacks["eboot.bin"] => "link_real" \in older
        /\ "crt1" \in lacks["eboot.bin"] => "crt1_ps5.o" \in older

\* What a running make has seen to stays up to date until it ends.
DoneIsCurrent ==
    running =>
        /\ \A t \in Targets : t \in done => t \in have /\ t \notin older
        /\ "eboot.bin" \in done => AllUpToDate

\* How far the recipe of the example is, and what that says of its files.
RecipeProgress ==
    /\ recipe # "wait" => running /\ AllUpToDate /\ "eboot.bin" \notin done
    /\ recipe = "link" => lacks["main.o"] \intersect Named = {}
    /\ recipe \in {"write", "sign"} => linked /\ lacks["app.elf"] \intersect Named = {}

\* A make that runs has not succeeded yet.
SuccessIsLast == succeeded => ~running

BuildInv ==
    /\ TypeOK
    /\ LacksWhatItIsMadeFrom
    /\ AgeShowsEdits
    /\ ImageAgeShowsEdits
    /\ DoneIsCurrent
    /\ RecipeProgress
    /\ SuccessIsLast
    /\ SuccessMeansCurrent

-------------------------------------------------------------------------------
\* What writing a file does to the records that are kept of every file.
LEMMA WriteFacts ==
    ASSUME TypeOK, NEW f \in Files, NEW missing \in SUBSET Sources, Write(f, missing)
    PROVE  /\ have' = have \union {f} /\ have' \subseteq Files
           /\ lacks' \in [Files -> SUBSET Sources]
           /\ lacks'[f] = missing
           /\ \A g \in Files \ {f} : lacks'[g] = lacks[g]
           /\ older' = (older \ {f}) \union NewerThan(f) /\ older' \subseteq Targets
<1>1. NewerThan(f) \subseteq Targets
  BY NewerThanTargets
<1> QED
  BY <1>1 DEF Write, TypeOK

\* What an edit of s does: only files made from s lack more, and targets whose
\* rules name s are older than it.
LEMMA EditFacts ==
    ASSUME TypeOK, NEW s \in Sources, Edit(s)
    PROVE  /\ lacks' \in [Files -> SUBSET Sources]
           /\ \A f \in Files : /\ lacks[f] \subseteq lacks'[f]
                               /\ lacks'[f] \subseteq lacks[f] \union ({s} \intersect MadeFrom(f))
                               /\ f \notin have => lacks'[f] = lacks[f]
           /\ older' = older \union NewerThan(s) /\ older' \subseteq Targets
<1>1. NewerThan(s) \subseteq Targets
  BY NewerThanTargets
<1>2. \A f \in Files : lacks'[f] = IF f \in have /\ s \in MadeFrom(f)
                                   THEN lacks[f] \union {s} ELSE lacks[f]
  BY DEF Edit
<1>3. \A f \in Files : lacks[f] \subseteq Sources
  BY DEF TypeOK
<1>4. \A f \in Files : lacks'[f] \subseteq Sources
  BY <1>2, <1>3
<1>5. lacks' \in [Files -> SUBSET Sources]
  BY <1>4 DEF Edit
<1> QED
  BY <1>1, <1>2, <1>5 DEF Edit, TypeOK

LEMMA BuildInvInit == Init => BuildInv
BY DEF Init, BuildInv, TypeOK, LacksWhatItIsMadeFrom, AgeShowsEdits, ImageAgeShowsEdits,
   DoneIsCurrent, RecipeProgress, SuccessIsLast, SuccessMeansCurrent, Files, Targets

LEMMA BuildInvEdit ==
    ASSUME BuildInv, NEW s \in Sources, Edit(s)
    PROVE  BuildInv'
<1> USE DEF BuildInv
<1>1. TypeOK'
  BY EditFacts DEF Edit, TypeOK
<1>2. ~running' /\ recipe' = "wait" /\ ~succeeded'
  BY DEF Edit, RecipeProgress
<1>3. LacksWhatItIsMadeFrom'
  BY EditFacts, MadeFromValues DEF Edit, LacksWhatItIsMadeFrom, Files, Targets
<1>4. AgeShowsEdits'
  BY EditFacts, MadeFromValues, NewerThanValues
     DEF LacksWhatItIsMadeFrom, AgeShowsEdits, Files, Targets, Sources
<1>5. ImageAgeShowsEdits'
  BY EditFacts, MadeFromValues, NewerThanValues
     DEF ImageAgeShowsEdits, Files, Targets, Sources
<1>6. /\ DoneIsCurrent' /\ RecipeProgress' /\ SuccessIsLast' /\ SuccessMeansCurrent'
  BY <1>2 DEF DoneIsCurrent, RecipeProgress, SuccessIsLast, SuccessMeansCurrent
<1> QED
  BY <1>1, <1>3, <1>4, <1>5, <1>6

LEMMA BuildInvClean == ASSUME BuildInv, Clean PROVE BuildInv'
<1> USE DEF BuildInv
<1>1. TypeOK'
  BY DEF Clean, TypeOK
<1>2. ~running' /\ recipe' = "wait" /\ ~succeeded'
  BY DEF Clean, RecipeProgress
<1>3. /\ LacksWhatItIsMadeFrom' /\ AgeShowsEdits' /\ ImageAgeShowsEdits'
  BY DEF Clean, LacksWhatItIsMadeFrom, AgeShowsEdits, ImageAgeShowsEdits, Files, Targets
<1>4. /\ DoneIsCurrent' /\ RecipeProgress' /\ SuccessIsLast' /\ SuccessMeansCurrent'
  BY <1>2 DEF DoneIsCurrent, RecipeProgress, SuccessIsLast, SuccessMeansCurrent
<1> QED
  BY <1>1, <1>3, <1>4

\* A make begins, ends or stops: the files are left as they are.
LEMMA BuildInvBetween ==
    ASSUME BuildInv, Make \/ Stop \/ Finish \/ Refuse
    PROVE  BuildInv'
<1> USE DEF BuildInv
<1>1. UNCHANGED <<have, older, lacks>>
  BY DEF Make, Stop, Finish, Refuse
<1>2. recipe' = "wait"
  BY DEF Make, Stop, Finish, Refuse, Return, Refused, RecipeProgress, Targets
<1>3. TypeOK'
  BY <1>1, <1>2 DEF Make, Stop, Finish, Refuse, Return, Refused, TypeOK
<1>4. /\ LacksWhatItIsMadeFrom' /\ AgeShowsEdits' /\ ImageAgeShowsEdits'
  BY <1>1 DEF LacksWhatItIsMadeFrom, AgeShowsEdits, ImageAgeShowsEdits
<1>5. DoneIsCurrent'
  BY <1>1 DEF Make, Stop, Finish, Refuse, Return, Refused, DoneIsCurrent, AllUpToDate
<1>6. RecipeProgress'
  BY <1>2 DEF RecipeProgress
<1>7. SuccessIsLast' /\ SuccessMeansCurrent'
  <2>1. CASE Finish
    <3>1. "eboot.bin" \in have /\ Targets \intersect older = {}
      BY <2>1 DEF Finish, DoneIsCurrent, Targets
    <3>2. lacks["eboot.bin"] \intersect Named = {}
      BY <3>1 DEF ImageAgeShowsEdits, Named, Targets
    <3> QED
      BY <2>1, <3>1, <3>2 DEF Finish, SuccessIsLast, SuccessMeansCurrent
  <2>2. CASE Make \/ Stop \/ Refuse
    BY <1>1, <2>2 DEF Make, Stop, Refuse, Return, Refused, SuccessIsLast, SuccessMeansCurrent
  <2> QED
    BY <2>1, <2>2
<1> QED
  BY <1>3, <1>4, <1>5, <1>6, <1>7

LEMMA BuildInvBringUpToDate ==
    ASSUME BuildInv, NEW t \in Targets \ {"eboot.bin"}, BringUpToDate(t)
    PROVE  BuildInv'
<1> USE DEF BuildInv
<1>1. t \in {"link_real", "crt1_ps5.o"} /\ t \in Files
  BY DEF Targets, Files
<1>2. CASE Due(t)
  <2>1. Write(t, {})
    BY <1>2 DEF BringUpToDate
  <2>2. /\ have' = have \union {t} /\ have' \subseteq Files
        /\ lacks' \in [Files -> SUBSET Sources]
        /\ lacks'[t] = {} /\ \A g \in Files \ {t} : lacks'[g] = lacks[g]
        /\ older' = (older \ {t}) \union {"eboot.bin"} /\ older' \subseteq Targets
    BY <1>1, <2>1, WriteFacts, NewerThanValues
  <2>3. "eboot.bin" \notin done
    BY <1>1 DEF BringUpToDate, DoneIsCurrent, AllUpToDate
  <2>4. recipe = "wait" /\ recipe' = "wait"
    BY <1>1 DEF BringUpToDate, RecipeProgress, AllUpToDate
  <2>5. TypeOK'
    BY <2>2 DEF BringUpToDate, TypeOK
  <2>6. LacksWhatItIsMadeFrom' /\ AgeShowsEdits' /\ ImageAgeShowsEdits'
    BY <1>1, <2>2 DEF LacksWhatItIsMadeFrom, AgeShowsEdits, ImageAgeShowsEdits, Files, Targets
  <2>7. DoneIsCurrent'
    BY <1>1, <2>2, <2>3 DEF BringUpToDate, DoneIsCurrent, Targets
  <2>8. RecipeProgress' /\ SuccessIsLast' /\ SuccessMeansCurrent'
    BY <2>4 DEF BringUpToDate, RecipeProgress, SuccessIsLast, SuccessMeansCurrent
  <2> QED
    BY <2>5, <2>6, <2>7, <2>8
<1>3. CASE ~Due(t)
  <2>1. UNCHANGED <<have, older, lacks>> /\ t \in have /\ t \notin older
    BY <1>3 DEF BringUpToDate, Due
  <2>2. TypeOK'
    BY <2>1 DEF BringUpToDate, TypeOK
  <2>3. /\ LacksWhatItIsMadeFrom' /\ AgeShowsEdits' /\ ImageAgeShowsEdits'
    BY <2>1 DEF LacksWhatItIsMadeFrom, AgeShowsEdits, ImageAgeShowsEdits
  <2>4. DoneIsCurrent' /\ RecipeProgress'
    BY <1>1, <2>1 DEF BringUpToDate, DoneIsCurrent, RecipeProgress, AllUpToDate
  <2>5. SuccessIsLast' /\ SuccessMeansCurrent'
    BY <2>1 DEF BringUpToDate, SuccessIsLast, SuccessMeansCurrent
  <2> QED
    BY <2>2, <2>3, <2>4, <2>5
<1> QED
  BY <1>2, <1>3

\* A file that no rule names as a prerequisite is written.
LEMMA BuildInvOtherFile ==
    ASSUME BuildInv, BuildShaders \/ Compile \/ Open
    PROVE  BuildInv'
<1> USE DEF BuildInv
<1>1. PICK f \in {"shaders", "main.o", "app.elf"} : \E missing \in SUBSET Sources :
          /\ Write(f, missing)
          /\ f = "shaders" => missing = {} /\ BuildShaders
          /\ f = "main.o" => missing = lacks["shaders"] /\ Compile
          /\ f = "app.elf" => missing = UNION {lacks[g] : g \in LinkedFrom} /\ Open
  <2>1. CASE BuildShaders
    BY <2>1 DEF BuildShaders
  <2>2. CASE Compile
    BY <2>2 DEF Compile, TypeOK, Files
  <2>3. CASE Open
    <3>1. UNION {lacks[g] : g \in LinkedFrom} \in SUBSET Sources
      BY DEF TypeOK, LinkedFrom, Files, Targets
    <3> QED
      BY <2>3, <3>1 DEF Open
  <2> QED
    BY <2>1, <2>2, <2>3
<1>2. /\ have' = have \union {f} /\ have' \subseteq Files
      /\ lacks' \in [Files -> SUBSET Sources]
      /\ \A g \in Files \ {f} : lacks'[g] = lacks[g]
      /\ older' = older
      /\ f = "shaders" => lacks'[f] = {} /\ BuildShaders
      /\ f = "main.o" => lacks'[f] = lacks["shaders"] /\ Compile
      /\ f = "app.elf" => lacks'[f] = UNION {lacks[g] : g \in LinkedFrom} /\ Open
  <2>1. PICK missing \in SUBSET Sources :
            /\ Write(f, missing)
            /\ f = "shaders" => missing = {} /\ BuildShaders
            /\ f = "main.o" => missing = lacks["shaders"] /\ Compile
            /\ f = "app.elf" => missing = UNION {lacks[g] : g \in LinkedFrom} /\ Open
    BY <1>1
  <2>2. f \in Files /\ f \notin Targets /\ NewerThan(f) = {}
    BY NewerThanValues DEF Files, Targets
  <2>3. older \subseteq Targets
    BY DEF TypeOK
  <2>4. /\ have' = have \union {f} /\ have' \subseteq Files
        /\ lacks' \in [Files -> SUBSET Sources]
        /\ lacks'[f] = missing
        /\ \A g \in Files \ {f} : lacks'[g] = lacks[g]
        /\ older' = (older \ {f}) \union NewerThan(f)
    BY <2>1, <2>2, WriteFacts
  <2>5. older' = older
    BY <2>2, <2>3, <2>4
  <2> QED
    BY <2>1, <2>4, <2>5
<1>3. running /\ running' /\ succeeded' = succeeded
  BY DEF BuildShaders, Compile, ExampleReady, Open, RecipeProgress
<1>4. TypeOK'
  <2>1. /\ running' \in BOOLEAN /\ linked' \in BOOLEAN /\ succeeded' \in BOOLEAN
        /\ recipe' \in {"wait", "link", "write", "sign"}
        /\ elf' \in {"partial", "whole"}
    BY DEF BuildShaders, Compile, ExampleReady, Open, TypeOK
  <2>2. done' \subseteq Targets \union {"shaders"}
    BY DEF BuildShaders, Compile, ExampleReady, Open, TypeOK
  <2>3. older' \subseteq Targets
    BY <1>2 DEF TypeOK
  <2> QED
    BY <1>2, <1>3, <2>1, <2>2, <2>3 DEF TypeOK
<1>5. LacksWhatItIsMadeFrom' /\ AgeShowsEdits' /\ ImageAgeShowsEdits'
  BY <1>2 DEF LacksWhatItIsMadeFrom, AgeShowsEdits, ImageAgeShowsEdits, Files, Targets
<1>6. DoneIsCurrent'
  <2>1. \A t \in Targets : t \in done' => t \in done
    BY DEF BuildShaders, Compile, Open, Targets
  <2>2. AllUpToDate => AllUpToDate'
    BY DEF BuildShaders, Compile, Open, AllUpToDate
  <2> QED
    BY <1>2, <1>3, <2>1, <2>2 DEF DoneIsCurrent, Targets
<1>7. RecipeProgress'
  <2>1. CASE f = "shaders"
    BY <1>2, <2>1 DEF BuildShaders, RecipeProgress, AllUpToDate, Files, Targets
  <2>2. CASE f = "main.o"
    BY <1>2, <2>2 DEF Compile, ExampleReady, RecipeProgress, LacksWhatItIsMadeFrom, Named, AllUpToDate
  <2>3. CASE f = "app.elf"
    <3>1. lacks["link_real"] = {} /\ lacks["crt1_ps5.o"] = {}
      BY <1>2, <2>3 DEF Open, RecipeProgress, AllUpToDate, DoneIsCurrent, AgeShowsEdits, Targets
    <3>2. lacks'["app.elf"] = lacks["main.o"]
      <4>1. UNION {lacks[g] : g \in LinkedFrom}
              = lacks["link_real"] \union lacks["crt1_ps5.o"] \union lacks["main.o"]
        BY DEF LinkedFrom
      <4> QED
        BY <1>2, <2>3, <3>1, <4>1
    <3> QED
      BY <1>2, <2>3, <3>2 DEF Open, RecipeProgress, AllUpToDate
  <2> QED
    BY <2>1, <2>2, <2>3
<1>8. SuccessIsLast' /\ SuccessMeansCurrent'
  BY <1>3 DEF SuccessIsLast, SuccessMeansCurrent
<1> QED
  BY <1>4, <1>5, <1>6, <1>7, <1>8

LEMMA BuildInvSign == ASSUME BuildInv, Sign PROVE BuildInv'
<1> USE DEF BuildInv
<1>1. /\ have' = have \union {"eboot.bin"} /\ have' \subseteq Files
      /\ lacks' \in [Files -> SUBSET Sources]
      /\ lacks'["eboot.bin"] = lacks["app.elf"]
      /\ \A g \in Files \ {"eboot.bin"} : lacks'[g] = lacks[g]
      /\ older' = older \ {"eboot.bin"} /\ older' \subseteq Targets
  BY WriteFacts, NewerThanValues DEF Sign, TypeOK, Files, Targets
<1>2. lacks["app.elf"] \intersect Named = {} /\ AllUpToDate /\ running
  BY DEF Sign, RecipeProgress
<1>3. TypeOK'
  BY <1>1 DEF Sign, TypeOK, Targets
<1>4. LacksWhatItIsMadeFrom' /\ AgeShowsEdits' /\ ImageAgeShowsEdits'
  BY <1>1, <1>2 DEF LacksWhatItIsMadeFrom, AgeShowsEdits, ImageAgeShowsEdits, Files, Targets, Named
<1>5. DoneIsCurrent'
  BY <1>1, <1>2 DEF Sign, DoneIsCurrent, AllUpToDate, Targets
<1>6. RecipeProgress' /\ SuccessIsLast' /\ SuccessMeansCurrent'
  BY <1>2 DEF Sign, RecipeProgress, SuccessIsLast, SuccessMeansCurrent
<1> QED
  BY <1>3, <1>4, <1>5, <1>6

LEMMA BuildInvSkipOrWritten ==
    ASSUME BuildInv, SkipExample \/ WriteImage
    PROVE  BuildInv'
<1> USE DEF BuildInv
<1>1. UNCHANGED <<have, older, lacks, linked, succeeded>> /\ running /\ running'
  BY DEF SkipExample, ExampleReady, WriteImage, Return, RecipeProgress
<1>2. TypeOK'
  BY <1>1 DEF SkipExample, WriteImage, Return, TypeOK, Targets
<1>3. LacksWhatItIsMadeFrom' /\ AgeShowsEdits' /\ ImageAgeShowsEdits'
  BY <1>1 DEF LacksWhatItIsMadeFrom, AgeShowsEdits, ImageAgeShowsEdits
<1>4. DoneIsCurrent'
  BY <1>1 DEF SkipExample, ExampleReady, Due, WriteImage, DoneIsCurrent, AllUpToDate
<1>5. RecipeProgress'
  BY <1>1 DEF SkipExample, ExampleReady, WriteImage, Return, RecipeProgress, AllUpToDate
<1>6. SuccessIsLast' /\ SuccessMeansCurrent'
  BY <1>1 DEF SuccessIsLast, SuccessMeansCurrent
<1> QED
  BY <1>2, <1>3, <1>4, <1>5, <1>6

LEMMA BuildInvStep == BuildInv /\ [Next]_vars => BuildInv'
<1> SUFFICES ASSUME BuildInv, [Next]_vars PROVE BuildInv'
  OBVIOUS
<1>1. CASE UNCHANGED vars
  BY <1>1 DEF vars, BuildInv, TypeOK, LacksWhatItIsMadeFrom, AgeShowsEdits, ImageAgeShowsEdits,
     DoneIsCurrent, RecipeProgress, SuccessIsLast, SuccessMeansCurrent, AllUpToDate
<1> QED
  BY <1>1, BuildInvEdit, BuildInvClean, BuildInvBetween, BuildInvBringUpToDate,
     BuildInvOtherFile, BuildInvSign, BuildInvSkipOrWritten DEF Next

LEMMA BuildInvAlways == Spec => []BuildInv
BY BuildInvInit, BuildInvStep, PTL DEF Spec

-------------------------------------------------------------------------------
\* The type invariant, with any number of jobs.
THEOREM BuildTypeCorrect == Spec => []TypeOK
<1>1. BuildInv => TypeOK
  BY DEF BuildInv
<1> QED
  BY <1>1, BuildInvAlways, PTL

\* An app.elf that is signed was linked by the make that signs it, from the
\* sources as they are: an earlier one is never taken for it (Makefile:53).
THEOREM AlwaysSignsWhatItLinked == Spec => []SignsWhatItLinked
<1>1. BuildInv => SignsWhatItLinked
  BY DEF BuildInv, RecipeProgress, SignsWhatItLinked
<1> QED
  BY <1>1, BuildInvAlways, PTL

\* However many makes failed or were interrupted before, an image that lacks an
\* edit of a source some rule names is noticed by the next one.
THEOREM NothingStaleEverOverlooked == Spec => []NothingStaleIsOverlooked
<1>1. ASSUME BuildInv PROVE NothingStaleIsOverlooked
  <2> SUFFICES ASSUME lacks["eboot.bin"] \intersect Named # {}
               PROVE  \E t \in Targets : t \in older
    BY DEF NothingStaleIsOverlooked, Due
  <2> QED
    BY <1>1 DEF BuildInv, ImageAgeShowsEdits, Named, Targets
<1> QED
  BY <1>1, BuildInvAlways, PTL

\* A make that ended well leaves a signed image of the sources as they are.
THEOREM SuccessAlwaysMeansCurrent == Spec => []SuccessMeansCurrent
<1>1. BuildInv => SuccessMeansCurrent
  BY DEF BuildInv
<1> QED
  BY <1>1, BuildInvAlways, PTL
===============================================================================
