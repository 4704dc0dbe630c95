------------------------------ MODULE CubeProofs ------------------------------
(***************************************************************************)
(* gpu_cube uses no buffer it does not hold, whichever call before its     *)
(* loop is refused, and no draw that misses at most one blank reads the    *)
(* buffers of another frame, for any number of frames.                     *)
(***************************************************************************)
EXTENDS CubeFrames, SequenceTheorems, TLAPS

\* The step that asks for each buffer.
AskedFor(r) ==
    CASE r[1] = "fb" -> 3 + r[2]
      [] r[1] = "vs_hdr" -> 7 [] r[1] = "vs_code" -> 8
      [] r[1] = "ps_hdr" -> 9 [] r[1] = "ps_code" -> 10
      [] r[1] = "vbuf" -> 13 [] r[1] = "ibuf" -> 14
      [] r[1] = "dcb" -> 16 + 5 * r[2] [] r[1] = "ctx" -> 17 + 5 * r[2]
      [] r[1] = "sh" -> 18 + 5 * r[2] [] r[1] = "prim" -> 19 + 5 * r[2]
      [] r[1] = "cons" -> 20 + 5 * r[2]

\* A slot is one of two.
LEMMA SlotsAreTwo == Slots = {0, 1}
BY DEF Slots, BUF_COUNT

\* A buffer is given no fewer bytes than it is asked for.
LEMMA RoundedUp ==
    ASSUME NEW n \in Nat, NEW align \in Nat \ {0}
    PROVE  Rounded(n, align) \in Nat /\ Rounded(n, align) >= n
<1> DEFINE x == n + align - 1
<1>1. x \in Nat
  OBVIOUS
<1>2. /\ x \div align \in Nat
      /\ x = (x \div align) * align + (x % align)
      /\ x % align \in 0..(align - 1)
  BY <1>1
<1>3. (x \div align) * align \in Nat
  BY <1>2
<1> QED
  BY <1>2, <1>3 DEF Rounded

LEMMA FrameBytesNat == frame_bytes \in Nat
<1>1. Rounded(1920, 128) \in Nat /\ Rounded(1080, 128) \in Nat
  BY RoundedUp
<1>2. Rounded(1920, 128) * Rounded(1080, 128) * 4 \in Nat
  BY <1>1
<1>3. TwoMiB \in Nat \ {0}
  BY DEF TwoMiB
<1> QED
  BY <1>2, <1>3, RoundedUp DEF frame_bytes

\* The names of the buffers, and what a step of main before its loop is.
Buffer ==
    {"fb", "vs_hdr", "vs_code", "ps_hdr", "ps_code", "vbuf", "ibuf",
     "dcb", "ctx", "sh", "prim", "cons"} \X Slots

SetupStep == [op : {"alloc", "call"}, on : SUBSET Buffer, bytes : Nat, align : Nat]

LEMMA StepForms ==
    /\ \A r \in Buffer, n \in Nat, a \in Nat : Alloc(r, n, a) \in SetupStep
    /\ \A r \in Buffer, n \in Nat : Page(r, n) \in SetupStep
    /\ \A u \in SUBSET Buffer : Call(u) \in SetupStep
BY DEF Page, Alloc, Call, SetupStep, DIRECT_MEM_MIN_ALIGN

LEMMA SharedAreSteps == SharedSteps \in Seq(SetupStep) /\ Len(SharedSteps) = 15
<1>1. frame_bytes \in Nat /\ TwoMiB \in Nat /\ ShaderBytes \in Nat
  BY FrameBytesNat, ShaderBytesAssumption DEF TwoMiB
<1>2. \A n \in {"vs_hdr", "vs_code", "ps_hdr", "ps_code", "vbuf", "ibuf"} : Single(n) \in Buffer
  BY SlotsAreTwo DEF Single, Buffer
<1>3. <<"fb", 0>> \in Buffer /\ <<"fb", 1>> \in Buffer /\ Both("fb") \subseteq Buffer
  BY SlotsAreTwo DEF Both, Buffer
<1>4. /\ Call({}) \in SetupStep /\ Call(Both("fb")) \in SetupStep
      /\ Call({Single("vs_hdr"), Single("vs_code")}) \in SetupStep
      /\ Call({Single("ps_hdr"), Single("ps_code")}) \in SetupStep
      /\ Call({Single("vbuf"), Single("ibuf")}) \in SetupStep
  BY <1>2, <1>3, StepForms
<1>5. /\ Alloc(<<"fb", 0>>, frame_bytes, TwoMiB) \in SetupStep
      /\ Alloc(<<"fb", 1>>, frame_bytes, TwoMiB) \in SetupStep
  BY <1>1, <1>3, StepForms
<1>6. /\ Page(Single("vs_hdr"), ShaderBytes) \in SetupStep
      /\ Page(Single("vs_code"), ShaderBytes) \in SetupStep
      /\ Page(Single("ps_hdr"), ShaderBytes) \in SetupStep
      /\ Page(Single("ps_code"), ShaderBytes) \in SetupStep
      /\ Page(Single("vbuf"), 24 * 36) \in SetupStep /\ Page(Single("ibuf"), 36 * 4) \in SetupStep
  BY <1>1, <1>2, StepForms
<1> QED
  BY <1>4, <1>5, <1>6 DEF SharedSteps

LEMMA FrameBuffersAreSteps ==
    ASSUME NEW s \in Slots
    PROVE  FrameBuffers(s) \in Seq(SetupStep) /\ Len(FrameBuffers(s)) = 5
<1>1. /\ Page(<<"dcb", s>>, 64 * 1024) \in SetupStep /\ Page(<<"ctx", s>>, 8192) \in SetupStep
      /\ Page(<<"sh", s>>, 4096) \in SetupStep /\ Page(<<"prim", s>>, 4096) \in SetupStep
      /\ Page(<<"cons", s>>, 256) \in SetupStep
  BY StepForms DEF Buffer
<1> QED
  BY <1>1 DEF FrameBuffers

\* Where the elements of a concatenation are.
LEMMA ConcatFirst ==
    ASSUME NEW S, NEW a \in Seq(S), NEW b \in Seq(S), NEW i \in 1..Len(a)
    PROVE  (a \o b)[i] = a[i]
<1>1. i \in 1..(Len(a) + Len(b))
  OBVIOUS
<1> QED
  BY <1>1, ConcatProperties

LEMMA ConcatLast ==
    ASSUME NEW S, NEW a \in Seq(S), NEW b \in Seq(S), NEW i \in 1..Len(a \o b), i > Len(a)
    PROVE  (a \o b)[i] = b[i - Len(a)]
<1>1. i \in 1..(Len(a) + Len(b)) /\ ~(i <= Len(a))
  BY ConcatProperties
<1> QED
  BY <1>1, ConcatProperties

\* Twenty-five steps, one behind the other.
LEMMA StepsInOrder ==
    /\ Steps \in Seq(SetupStep) /\ Len(Steps) = 25
    /\ \A k \in 1..15 : Steps[k] = SharedSteps[k]
    /\ \A k \in 16..20 : Steps[k] = FrameBuffers(0)[k - 15]
    /\ \A k \in 21..25 : Steps[k] = FrameBuffers(1)[k - 20]
<1>1. PICK a : a = SharedSteps
  OBVIOUS
<1>2. PICK b : b = FrameBuffers(0)
  OBVIOUS
<1>3. PICK c : c = FrameBuffers(1)
  OBVIOUS
<1>4. PICK d : d = a \o b
  OBVIOUS
<1>5. Steps = d \o c
  BY <1>1, <1>2, <1>3, <1>4 DEF Steps
<1>6. /\ a \in Seq(SetupStep) /\ Len(a) = 15
      /\ b \in Seq(SetupStep) /\ Len(b) = 5
      /\ c \in Seq(SetupStep) /\ Len(c) = 5
  BY <1>1, <1>2, <1>3, SharedAreSteps, FrameBuffersAreSteps, SlotsAreTwo
<1>7. d \in Seq(SetupStep) /\ Len(d) = Len(a) + Len(b)
  BY <1>4, <1>6, ConcatProperties
<1>8. Len(d) = 20
  BY <1>6, <1>7
<1>9. Steps \in Seq(SetupStep) /\ Len(Steps) = Len(d) + Len(c)
  BY <1>5, <1>6, <1>7, ConcatProperties
<1>10. Len(Steps) = 25
  BY <1>6, <1>8, <1>9
<1>11. \A i \in 1..Len(a) : d[i] = a[i]
  BY <1>4, <1>6, ConcatFirst
<1>12. \A i \in 1..Len(d) : i > Len(a) => d[i] = b[i - Len(a)]
  BY <1>4, <1>6, ConcatLast
<1>13. \A i \in 1..Len(d) : Steps[i] = d[i]
  BY <1>5, <1>6, <1>7, ConcatFirst
<1>14. \A i \in 1..Len(Steps) : i > Len(d) => Steps[i] = c[i - Len(d)]
  BY <1>5, <1>6, <1>7, ConcatLast
<1>15. \A k \in 1..15 : Steps[k] = a[k]
  <2> TAKE k \in 1..15
  <2>1. k \in 1..Len(a) /\ k \in 1..Len(d)
    BY <1>6, <1>8
  <2> QED
    BY <1>11, <1>13, <2>1
<1>16. \A k \in 16..20 : Steps[k] = b[k - 15]
  <2> TAKE k \in 16..20
  <2>1. k \in 1..Len(d) /\ k > Len(a)
    BY <1>6, <1>8
  <2>2. Steps[k] = b[k - Len(a)]
    BY <1>12, <1>13, <2>1
  <2> QED
    BY <1>6, <2>2
<1>17. \A k \in 21..25 : Steps[k] = c[k - 20]
  <2> TAKE k \in 21..25
  <2>1. k \in 1..Len(Steps) /\ k > Len(d)
    BY <1>8, <1>10
  <2>2. Steps[k] = c[k - Len(d)]
    BY <1>14, <2>1
  <2> QED
    BY <1>8, <2>2
<1> QED
  BY <1>1, <1>2, <1>3, <1>9, <1>10, <1>15, <1>16, <1>17

\* The step that gives a buffer is its own, and it is the only one.
IsGrantOf(k, r) ==
    Steps[k].op = "alloc" /\ Steps[k].on = {r} /\ AskedFor(r) = k

LEMMA SharedGrants ==
    /\ IsGrantOf(3, <<"fb", 0>>) /\ IsGrantOf(4, <<"fb", 1>>)
    /\ IsGrantOf(7, <<"vs_hdr", 0>>) /\ IsGrantOf(8, <<"vs_code", 0>>)
    /\ IsGrantOf(9, <<"ps_hdr", 0>>) /\ IsGrantOf(10, <<"ps_code", 0>>)
    /\ IsGrantOf(13, <<"vbuf", 0>>) /\ IsGrantOf(14, <<"ibuf", 0>>)
<1>1. /\ Steps[3] = SharedSteps[3] /\ Steps[4] = SharedSteps[4] /\ Steps[7] = SharedSteps[7]
      /\ Steps[8] = SharedSteps[8] /\ Steps[9] = SharedSteps[9] /\ Steps[10] = SharedSteps[10]
      /\ Steps[13] = SharedSteps[13] /\ Steps[14] = SharedSteps[14]
  BY StepsInOrder
<1>2. /\ AskedFor(<<"fb", 0>>) = 3 /\ AskedFor(<<"fb", 1>>) = 4
      /\ AskedFor(<<"vs_hdr", 0>>) = 7 /\ AskedFor(<<"vs_code", 0>>) = 8
      /\ AskedFor(<<"ps_hdr", 0>>) = 9 /\ AskedFor(<<"ps_code", 0>>) = 10
      /\ AskedFor(<<"vbuf", 0>>) = 13 /\ AskedFor(<<"ibuf", 0>>) = 14
  BY DEF AskedFor
<1> QED
  BY <1>1, <1>2 DEF SharedSteps, Page, Alloc, Single, IsGrantOf

LEMMA FrameGrants ==
    ASSUME NEW s \in Slots
    PROVE  /\ IsGrantOf(16 + 5 * s, <<"dcb", s>>) /\ IsGrantOf(17 + 5 * s, <<"ctx", s>>)
           /\ IsGrantOf(18 + 5 * s, <<"sh", s>>) /\ IsGrantOf(19 + 5 * s, <<"prim", s>>)
           /\ IsGrantOf(20 + 5 * s, <<"cons", s>>)
<1>1. s \in {0, 1}
  BY SlotsAreTwo
<1>2. /\ Steps[16 + 5 * s] = FrameBuffers(s)[1] /\ Steps[17 + 5 * s] = FrameBuffers(s)[2]
      /\ Steps[18 + 5 * s] = FrameBuffers(s)[3] /\ Steps[19 + 5 * s] = FrameBuffers(s)[4]
      /\ Steps[20 + 5 * s] = FrameBuffers(s)[5]
  <2>1. CASE s = 0
    BY <2>1, StepsInOrder
  <2>2. CASE s = 1
    BY <2>2, StepsInOrder
  <2> QED
    BY <1>1, <2>1, <2>2
<1>3. /\ AskedFor(<<"dcb", s>>) = 16 + 5 * s /\ AskedFor(<<"ctx", s>>) = 17 + 5 * s
      /\ AskedFor(<<"sh", s>>) = 18 + 5 * s /\ AskedFor(<<"prim", s>>) = 19 + 5 * s
      /\ AskedFor(<<"cons", s>>) = 20 + 5 * s
  BY <1>1 DEF AskedFor
<1> QED
  BY <1>2, <1>3 DEF FrameBuffers, Page, Alloc, IsGrantOf

\* A step asks for one buffer, or it uses buffers that earlier steps asked for.
LEMMA StepKinds ==
    ASSUME NEW k \in 1..25
    PROVE  \/ \E b : IsGrantOf(k, b)
           \/ /\ Steps[k].op = "call"
              /\ \A r \in Steps[k].on : IsGrantOf(AskedFor(r), r) /\ AskedFor(r) \in 1..(k - 1)
<1>1. CASE k \in {3, 4, 7, 8, 9, 10, 13, 14}
  BY <1>1, SharedGrants
<1>2. CASE k \in {1, 2, 6}
  <2>1. /\ Steps[1] = SharedSteps[1] /\ Steps[2] = SharedSteps[2]
        /\ Steps[6] = SharedSteps[6]
    BY StepsInOrder
  <2>2. Steps[k] = Call({})
    BY <1>2, <2>1 DEF SharedSteps
  <2> QED
    BY <2>2 DEF Call
<1>3. CASE k \in {5, 11, 12, 15}
  <2>1. /\ Steps[5] = SharedSteps[5] /\ Steps[11] = SharedSteps[11]
        /\ Steps[12] = SharedSteps[12] /\ Steps[15] = SharedSteps[15]
    BY StepsInOrder
  <2>2. Steps[k].op = "call"
    BY <1>3, <2>1 DEF SharedSteps, Call
  <2>3. Both("fb") = {<<"fb", 0>>, <<"fb", 1>>}
    BY SlotsAreTwo DEF Both
  <2>4. /\ Steps[5].on = {<<"fb", 0>>, <<"fb", 1>>}
        /\ Steps[11].on = {<<"vs_hdr", 0>>, <<"vs_code", 0>>}
        /\ Steps[12].on = {<<"ps_hdr", 0>>, <<"ps_code", 0>>}
        /\ Steps[15].on = {<<"vbuf", 0>>, <<"ibuf", 0>>}
    BY <2>1, <2>3 DEF SharedSteps, Call, Single
  <2>5. SUFFICES ASSUME NEW r \in Steps[k].on
                 PROVE  IsGrantOf(AskedFor(r), r) /\ AskedFor(r) \in 1..(k - 1)
    BY <2>2
  <2>6. CASE k = 5
    BY <2>4, <2>6, SharedGrants DEF IsGrantOf
  <2>7. CASE k = 11
    BY <2>4, <2>7, SharedGrants DEF IsGrantOf
  <2>8. CASE k = 12
    BY <2>4, <2>8, SharedGrants DEF IsGrantOf
  <2>9. CASE k = 15
    BY <2>4, <2>9, SharedGrants DEF IsGrantOf
  <2> QED
    BY <1>3, <2>6, <2>7, <2>8, <2>9
<1>4. CASE k \in 16..25
  <2>1. \E s \in Slots : k \in 16 + 5 * s .. 20 + 5 * s
    BY <1>4, SlotsAreTwo
  <2>2. PICK s \in Slots : k \in 16 + 5 * s .. 20 + 5 * s
    BY <2>1
  <2>3. s \in Int
    BY SlotsAreTwo
  <2>4. k \in {16 + 5 * s, 17 + 5 * s, 18 + 5 * s, 19 + 5 * s, 20 + 5 * s}
    BY <2>2, <2>3
  <2> QED
    BY <2>4, FrameGrants
<1> QED
  BY <1>1, <1>2, <1>3, <1>4

\* What the program holds of a buffer once it is mapped.
GrantOf(r) ==
    [phys |-> AskedFor(r),
     size |-> Rounded(Steps[AskedFor(r)].bytes, Clamped(Steps[AskedFor(r)].align))]

\* Every buffer has one step that asks for it, and no other buffer has the same.
LEMMA EachBufferIsAskedFor ==
    /\ DOMAIN Steps = 1..25
    /\ \A r \in Regions : IsGrantOf(AskedFor(r), r) /\ AskedFor(r) \in 1..25
    /\ \A r, q \in Regions : AskedFor(r) = AskedFor(q) => r = q
    /\ \A r \in Regions : AskedAt(r) = AskedFor(r)
<1>1. DOMAIN Steps = 1..25
  BY StepsInOrder, LenProperties
<1>2. ASSUME NEW r \in Regions
      PROVE  /\ IsGrantOf(AskedFor(r), r) /\ AskedFor(r) \in 1..25
             /\ \A k \in 1..25 : Steps[k].op = "alloc" /\ r \in Steps[k].on => k = AskedFor(r)
  <2>1. PICK k \in 1..25 : r \in Steps[k].on
    BY <1>1 DEF Regions
  <2>2. IsGrantOf(AskedFor(r), r) /\ AskedFor(r) \in 1..25
    <3>1. CASE \E b : IsGrantOf(k, b)
      BY <2>1, <3>1 DEF IsGrantOf
    <3>2. CASE /\ Steps[k].op = "call"
               /\ \A b \in Steps[k].on : IsGrantOf(AskedFor(b), b) /\ AskedFor(b) \in 1..(k - 1)
      BY <2>1, <3>2
    <3> QED
      BY <3>1, <3>2, StepKinds
  <2>4. ASSUME NEW j \in 1..25, Steps[j].op = "alloc", r \in Steps[j].on
        PROVE  j = AskedFor(r)
    BY <2>4, StepKinds DEF IsGrantOf
  <2> QED
    BY <2>2, <2>4
<1>3. \A r, q \in Regions : AskedFor(r) = AskedFor(q) => r = q
  BY <1>2 DEF IsGrantOf
<1>4. ASSUME NEW r \in Regions
      PROVE  AskedAt(r) = AskedFor(r)
  BY <1>1, <1>2, <1>4 DEF AskedAt, IsGrantOf
<1> QED
  BY <1>1, <1>2, <1>3, <1>4

\* Enough is granted.
LEMMA GrantIsEnough ==
    ASSUME NEW r \in Regions
    PROVE  /\ GrantOf(r).phys \in 1..25 /\ GrantOf(r).size >= Steps[AskedFor(r)].bytes
           /\ GrantOf(r) # NoMemory
<1>1. AskedFor(r) \in 1..25
  BY EachBufferIsAskedFor
<1>2. Steps[AskedFor(r)] \in SetupStep
  BY <1>1, StepsInOrder, EachBufferIsAskedFor, ElementOfSeq
<1>3. Steps[AskedFor(r)].bytes \in Nat /\ Clamped(Steps[AskedFor(r)].align) \in Nat \ {0}
  BY <1>2 DEF SetupStep, Clamped, DIRECT_MEM_MIN_ALIGN
<1>4. PICK n \in Nat, align \in Nat \ {0} :
          n = Steps[AskedFor(r)].bytes /\ align = Clamped(Steps[AskedFor(r)].align)
  BY <1>3
<1>5. Rounded(n, align) >= n
  BY RoundedUp
<1>6. GrantOf(r).phys = AskedFor(r) /\ GrantOf(r).size = Rounded(n, align)
  BY <1>4 DEF GrantOf
<1>7. NoMemory.phys = 0
  BY DEF NoMemory
<1>8. GrantOf(r) # NoMemory
  BY <1>1, <1>6, <1>7
<1> QED
  BY <1>1, <1>4, <1>5, <1>6, <1>8

-------------------------------------------------------------------------------
Held == {region[r] : r \in Regions} \ {NoMemory}

\* The step main is at, and the step that maps what the last one took.
SetupProgress ==
    /\ step \in 1..26
    /\ setup \in {"step", "map", "ready", "returned"}
    /\ setup = "map" => step <= 25 /\ Steps[step].op = "alloc"
    /\ setup = "ready" => step = 26

\* A buffer is mapped exactly when its step has been passed, and not before.
MappedInOrder ==
    /\ region = [r \in Regions |-> region[r]]
    /\ \A r \in Regions :
          \/ region[r] = GrantOf(r) /\ AskedFor(r) < step
          \/ region[r] = NoMemory /\ (AskedFor(r) >= step \/ setup = "returned")

\* The kernel counts no memory as used but that of the buffers.
AllTakenIsHeld == taken = Held \union (IF setup = "map" THEN {Grant} ELSE {})

SetupInv == SetupProgress /\ MappedInOrder /\ AllTakenIsHeld

\* As TypeOK, and both queues are sequences.
FrameTypes ==
    /\ patience \in Patiences /\ frame \in Frame
    /\ pc \in {"constants", "clear", "commands", "submit", "vblank", "next", "ended"}
    /\ cons \in [Slots -> Frame \union {None}] /\ dcb \in [Slots -> Frame \union {None}]
    /\ fb \in [Slots -> Frame \union {None}]
    /\ queue \in Seq([frame : Frame, missed : 0..patience]) /\ flips \in Seq(Frame)
    /\ shown \in Frame \union {None}

\* A draw not done has missed every blank since its submission.
Recording == pc \in {"constants", "clear", "commands", "submit"}

MissesAreCounted ==
    \A i \in DOMAIN queue :
        /\ queue[i].missed >= frame - queue[i].frame + (IF pc = "next" THEN 1 ELSE 0)
        /\ queue[i].frame <= frame
        /\ Recording => queue[i].frame < frame

\* What the frame being recorded has written so far.
Recorded ==
    /\ pc \in {"clear", "commands", "submit"} => cons[slot] = frame
    /\ pc = "submit" => dcb[slot] = frame

\* With a GPU that misses no blank, each frame is on the screen when the next
\* one begins.
InStep ==
    patience = 0 =>
        /\ Recording =>
              /\ queue = <<>> /\ flips = <<>> /\ shown = frame - 1
              /\ frame >= 1 => fb[SlotOf(frame - 1)] = frame - 1
        /\ pc = "vblank" =>
              \/ Len(queue) = 1 /\ queue[1].frame = frame /\ flips = <<>>
              \/ queue = <<>> /\ flips = <<frame>> /\ fb[slot] = frame
        /\ pc = "next" => queue = <<>> /\ flips = <<>> /\ shown = frame /\ fb[slot] = frame

FrameInv == FrameTypes /\ MissesAreCounted /\ Recorded /\ DrawReadsItsOwnFrame /\ InStep

-------------------------------------------------------------------------------
\* The buffer of a step that asks for one.
LEMMA StepGrants ==
    ASSUME SetupProgress, step <= 25, Steps[step].op = "alloc"
    PROVE  \E b \in Regions :
              /\ Steps[step].on = {b} /\ AskedFor(b) = step /\ Grant = GrantOf(b)
              /\ \A r \in Regions : AskedFor(r) = step => r = b
<1>1. step \in 1..25
  BY DEF SetupProgress
<1>2. PICK b : IsGrantOf(step, b)
  BY <1>1, StepKinds
<1>3. b \in Regions
  BY <1>1, <1>2, EachBufferIsAskedFor DEF IsGrantOf, Regions
<1>4. Grant = GrantOf(b)
  BY <1>2 DEF Grant, GrantOf, IsGrantOf
<1> QED
  BY <1>2, <1>3, <1>4, EachBufferIsAskedFor DEF IsGrantOf

LEMMA SetupStarts == SetupInit => SetupInv
<1> SUFFICES ASSUME SetupInit
             PROVE  SetupInv
  OBVIOUS
<1>1. SetupProgress
  BY DEF SetupInit, SetupProgress
<1>2. MappedInOrder
  BY EachBufferIsAskedFor DEF SetupInit, MappedInOrder
<1>3. AllTakenIsHeld
  BY DEF SetupInit, AllTakenIsHeld, Held
<1> QED
  BY <1>1, <1>2, <1>3 DEF SetupInv

LEMMA SetupUnchanged == SetupInv /\ UNCHANGED setup_vars => SetupInv'
BY DEF SetupInv, SetupProgress, MappedInOrder, AllTakenIsHeld, Held, Grant, setup_vars

\* Each call before the loop keeps the order, whatever it answers.
LEMMA SetupKept == SetupInv /\ SetUp => SetupInv'
<1> SUFFICES ASSUME SetupInv, SetUp
             PROVE  SetupInv'
  OBVIOUS
<1> USE DEF SetupInv
<1>1. Len(Steps) = 25
  BY StepsInOrder
<1>2. \A r \in Regions : AskedFor(r) \in 1..25
  BY EachBufferIsAskedFor
<1>3. CASE CallSucceeds
  <2>1. step' = step + 1 /\ setup = "step" /\ setup' = "step" /\ step <= 25
        /\ region' = region /\ taken' = taken /\ Steps[step].op = "call"
    BY <1>1, <1>3 DEF CallSucceeds, At
  <2>2. SetupProgress'
    BY <2>1 DEF SetupProgress
  <2>3. MappedInOrder'
    <3>1. ASSUME NEW r \in Regions
          PROVE  AskedFor(r) # step
      BY <2>1, EachBufferIsAskedFor DEF IsGrantOf
    <3>2. step \in Nat
      BY DEF SetupProgress
    <3> QED
      BY <1>2, <2>1, <3>1, <3>2 DEF MappedInOrder
  <2>4. AllTakenIsHeld'
    BY <2>1 DEF AllTakenIsHeld, Held
  <2> QED
    BY <2>2, <2>3, <2>4
<1>4. CASE CallFails
  <2>1. step' = step + 1 /\ setup = "step" /\ setup' = "returned" /\ step <= 25
        /\ region' = region /\ taken' = taken
    BY <1>1, <1>4 DEF CallFails, At, Refused
  <2>2. SetupProgress'
    BY <2>1 DEF SetupProgress
  <2>3. MappedInOrder'
    BY <1>2, <2>1 DEF MappedInOrder, SetupProgress
  <2>4. AllTakenIsHeld'
    BY <2>1 DEF AllTakenIsHeld, Held
  <2> QED
    BY <2>2, <2>3, <2>4
<1>5. CASE TakeMemory
  <2>1. step' = step /\ setup = "step" /\ setup' = "map" /\ step <= 25
        /\ region' = region /\ taken' = taken \union {Grant} /\ Steps[step].op = "alloc"
    BY <1>1, <1>5 DEF TakeMemory, At
  <2>2. SetupProgress'
    BY <2>1 DEF SetupProgress
  <2>3. MappedInOrder'
    BY <2>1 DEF MappedInOrder
  <2>4. AllTakenIsHeld'
    BY <2>1 DEF AllTakenIsHeld, Held, Grant
  <2> QED
    BY <2>2, <2>3, <2>4
<1>6. CASE TakeFails
  <2>1. step' = step + 1 /\ setup = "step" /\ setup' = "returned" /\ step <= 25
        /\ taken' = taken /\ Steps[step].op = "alloc" /\ Answer(NoMemory)
    BY <1>1, <1>6 DEF TakeFails, At, Refused
  <2>2. PICK b \in Regions : Steps[step].on = {b} /\ AskedFor(b) = step
    BY <2>1, StepGrants
  <2>3. region[b] = NoMemory
    BY <2>2 DEF MappedInOrder, SetupProgress
  <2>4. region' = region
    BY <2>1, <2>2, <2>3 DEF Answer, MappedInOrder
  <2>5. SetupProgress'
    BY <2>1 DEF SetupProgress
  <2>6. MappedInOrder'
    BY <1>2, <2>1, <2>4 DEF MappedInOrder, SetupProgress
  <2>7. AllTakenIsHeld'
    BY <2>1, <2>4 DEF AllTakenIsHeld, Held
  <2> QED
    BY <2>5, <2>6, <2>7
<1>7. CASE MapMemory
  <2>1. step' = step + 1 /\ setup = "map" /\ setup' = "step" /\ step <= 25
        /\ taken' = taken /\ Steps[step].op = "alloc" /\ Answer(Grant)
    BY <1>7 DEF MapMemory, SetupProgress
  <2>2. PICK b \in Regions :
            /\ Steps[step].on = {b} /\ AskedFor(b) = step /\ Grant = GrantOf(b)
            /\ \A r \in Regions : AskedFor(r) = step => r = b
    BY <2>1, StepGrants
  <2>3. region' = [r \in Regions |-> region'[r]] /\ region'[b] = GrantOf(b)
        /\ \A r \in Regions : r # b => region'[r] = region[r]
    BY <2>1, <2>2 DEF Answer
  <2>4. SetupProgress'
    BY <2>1 DEF SetupProgress
  <2>5. MappedInOrder'
    <3>1. step \in Nat
      BY DEF SetupProgress
    <3>2. ASSUME NEW r \in Regions
          PROVE  \/ region'[r] = GrantOf(r) /\ AskedFor(r) < step'
                 \/ region'[r] = NoMemory /\ (AskedFor(r) >= step' \/ setup' = "returned")
      <4>1. CASE r = b
        BY <2>1, <2>2, <2>3, <3>1, <4>1
      <4>2. CASE r # b
        <5>1. AskedFor(r) # step /\ AskedFor(r) \in Nat /\ setup # "returned"
          BY <1>2, <2>1, <2>2, <4>2
        <5>2. region'[r] = region[r]
          BY <2>3, <4>2
        <5>3. AskedFor(r) >= step => AskedFor(r) >= step'
          BY <2>1, <3>1, <5>1
        <5>4. AskedFor(r) < step => AskedFor(r) < step'
          BY <2>1, <3>1, <5>1
        <5> QED
          BY <5>1, <5>2, <5>3, <5>4 DEF MappedInOrder
      <4> QED
        BY <4>1, <4>2
    <3> QED
      BY <2>3, <3>2 DEF MappedInOrder
  <2>6. AllTakenIsHeld'
    <3>1. region[b] = NoMemory
      BY <2>1, <2>2 DEF MappedInOrder, SetupProgress
    <3>2. GrantOf(b) # NoMemory
      BY GrantIsEnough
    <3>3. Held' = Held \union {GrantOf(b)}
      BY <2>3, <3>1, <3>2 DEF Held
    <3> QED
      BY <2>1, <2>2, <3>3 DEF AllTakenIsHeld
  <2> QED
    BY <2>4, <2>5, <2>6
<1>8. CASE MapFails
  <2>1. step' = step + 1 /\ setup = "map" /\ setup' = "returned" /\ step <= 25
        /\ taken' = taken \ {Grant} /\ Steps[step].op = "alloc" /\ Answer(NoMemory)
    BY <1>8 DEF MapFails, SetupProgress, Release, Refused
  <2>2. PICK b \in Regions :
            Steps[step].on = {b} /\ AskedFor(b) = step /\ Grant = GrantOf(b)
    BY <2>1, StepGrants
  <2>3. region[b] = NoMemory
    BY <2>1, <2>2 DEF MappedInOrder, SetupProgress
  <2>4. region' = region
    BY <2>1, <2>2, <2>3 DEF Answer, MappedInOrder
  <2>5. SetupProgress'
    BY <2>1 DEF SetupProgress
  <2>6. MappedInOrder'
    BY <1>2, <2>1, <2>4 DEF MappedInOrder, SetupProgress
  <2>7. Grant \notin Held
    <3> SUFFICES ASSUME NEW r \in Regions, region[r] = Grant, Grant # NoMemory
                 PROVE  FALSE
      BY DEF Held
    <3>1. region[r] = GrantOf(r) /\ AskedFor(r) < step
      BY DEF MappedInOrder
    <3>2. AskedFor(r) = AskedFor(b)
      BY <2>2, <3>1 DEF GrantOf
    <3> QED
      BY <1>2, <2>2, <3>1, <3>2
  <2>8. AllTakenIsHeld'
    BY <2>1, <2>4, <2>7 DEF AllTakenIsHeld, Held
  <2> QED
    BY <2>5, <2>6, <2>8
<1>9. CASE EnterLoop
  <2>1. step' = step /\ setup = "step" /\ setup' = "ready" /\ step > 25
        /\ region' = region /\ taken' = taken
    BY <1>1, <1>9 DEF EnterLoop
  <2>2. SetupProgress'
    BY <2>1 DEF SetupProgress
  <2>3. MappedInOrder'
    BY <2>1 DEF MappedInOrder
  <2>4. AllTakenIsHeld'
    BY <2>1 DEF AllTakenIsHeld, Held
  <2> QED
    BY <2>2, <2>3, <2>4
<1> QED
  BY <1>3, <1>4, <1>5, <1>6, <1>7, <1>8, <1>9 DEF SetUp

\* The order of the steps is all it takes.
LEMMA HeldInOrder == SetupInv => BuffersHoldTheirMemory
<1> SUFFICES ASSUME SetupInv
             PROVE  BuffersHoldTheirMemory
  OBVIOUS
<1>1. ASSUME NEW r \in InUse
      PROVE  r \in Regions /\ AskedFor(r) < step
  <2>1. CASE At("call")
    <3>1. step \in 1..25 /\ Steps[step].op = "call" /\ r \in Steps[step].on
      BY <2>1, StepsInOrder DEF At, InUse, SetupInv, SetupProgress
    <3>2. r \in Regions
      BY <3>1, EachBufferIsAskedFor DEF Regions
    <3>3. ~\E b : IsGrantOf(step, b)
      BY <3>1 DEF IsGrantOf
    <3>4. AskedFor(r) \in 1..(step - 1)
      BY <3>1, <3>3, StepKinds
    <3> QED
      BY <3>1, <3>2, <3>4
  <2>2. CASE ~At("call") /\ setup = "ready"
    <3>1. r \in Regions /\ step = 26
      BY <2>2 DEF At, InUse, SetupInv, SetupProgress
    <3> QED
      BY <3>1, EachBufferIsAskedFor
  <2> QED
    BY <2>1, <2>2 DEF InUse
<1>2. ASSUME NEW r \in InUse
      PROVE  /\ region[r] \in taken /\ region[r].size >= Steps[AskedAt(r)].bytes
             /\ \A q \in Regions : region[q] = region[r] => q = r
  <2>1. r \in Regions /\ AskedFor(r) < step /\ setup # "returned"
    BY <1>1, <1>2 DEF InUse, At
  <2>2. AskedFor(r) \in Int /\ step \in Int
    BY <2>1, EachBufferIsAskedFor DEF SetupInv, SetupProgress
  <2>3. region[r] = GrantOf(r) /\ GrantOf(r) # NoMemory
    BY <2>1, <2>2, GrantIsEnough DEF SetupInv, MappedInOrder
  <2>4. region[r] \in taken
    BY <2>1, <2>3 DEF SetupInv, AllTakenIsHeld, Held
  <2>5. region[r].size >= Steps[AskedAt(r)].bytes
    BY <2>1, <2>3, GrantIsEnough, EachBufferIsAskedFor
  <2>6. ASSUME NEW q \in Regions, region[q] = region[r]
        PROVE  q = r
    <3>1. region[q] = GrantOf(q)
      BY <2>3, <2>6 DEF SetupInv, MappedInOrder
    <3>2. AskedFor(q) = AskedFor(r)
      BY <2>3, <2>6, <3>1 DEF GrantOf
    <3> QED
      BY <2>1, <3>2, EachBufferIsAskedFor
  <2> QED
    BY <2>4, <2>5, <2>6
<1> QED
  BY <1>2 DEF BuffersHoldTheirMemory, SetupInv, AllTakenIsHeld, Held

-------------------------------------------------------------------------------
\* Two sets of buffers: a frame shares its own with no frame next to it.
LEMMA SlotsAlternate ==
    /\ \A f \in Nat : SlotOf(f) \in Slots
    /\ \A f, g \in Nat : g < f /\ SlotOf(g) = SlotOf(f) => f - g >= 2
    /\ \A f \in Nat : f >= 1 => SlotOf(f - 1) # SlotOf(f)
BY DEF SlotOf, Slots, BUF_COUNT

LEMMA FramesCount ==
    /\ Frame \subseteq Nat /\ 0 \in Frame
    /\ \A f \in Frame : ~IsLast(f) => NextFrame(f) \in Frame
BY FramesAssumption DEF Frame, IsLast, NextFrame

\* What each draw in the queue is.
LEMMA QueueElements ==
    ASSUME FrameTypes
    PROVE  /\ DOMAIN queue = 1..Len(queue) /\ Len(queue) \in Nat
           /\ \A i \in DOMAIN queue : queue[i].frame \in Frame /\ queue[i].missed \in 0..patience
           /\ patience \in Nat
<1>1. queue \in Seq([frame : Frame, missed : 0..patience])
  BY DEF FrameTypes
<1>2. /\ DOMAIN queue = 1..Len(queue) /\ Len(queue) \in Nat
      /\ \A i \in DOMAIN queue : queue[i] \in [frame : Frame, missed : 0..patience]
  BY <1>1, LenProperties, ElementOfSeq
<1>3. patience \in Nat
  BY FramesAssumption DEF FrameTypes
<1> QED
  BY <1>2, <1>3

LEMMA FramesStart == Init => FrameInv
<1> SUFFICES ASSUME Init
             PROVE  FrameInv
  OBVIOUS
<1>1. FrameTypes
  BY FramesCount, EmptySeq DEF Init, FrameTypes
<1>2. DOMAIN queue = {}
  BY DEF Init
<1>3. MissesAreCounted /\ DrawReadsItsOwnFrame
  BY <1>2 DEF MissesAreCounted, DrawReadsItsOwnFrame
<1>4. Recorded /\ InStep
  BY DEF Init, Recorded, InStep, None
<1> QED
  BY <1>1, <1>3, <1>4 DEF FrameInv

LEMMA FramesUnchanged == FrameInv /\ UNCHANGED frame_vars => FrameInv'
<1> SUFFICES ASSUME FrameInv, UNCHANGED frame_vars
             PROVE  FrameInv'
  OBVIOUS
<1> USE DEF FrameInv, frame_vars
<1>1. FrameTypes'
  BY DEF FrameTypes
<1>2. MissesAreCounted'
  BY DEF MissesAreCounted, Recording
<1>3. Recorded'
  BY DEF Recorded, slot
<1>4. DrawReadsItsOwnFrame'
  BY DEF DrawReadsItsOwnFrame
<1>5. InStep'
  BY DEF InStep, Recording, slot
<1> QED
  BY <1>1, <1>2, <1>3, <1>4, <1>5

\* While a frame is recorded, no draw in the queue has the same set of buffers.
LEMMA QueueSparesSlot ==
    ASSUME FrameInv, Recording, patience <= 1, NEW i \in DOMAIN queue
    PROVE  SlotOf(queue[i].frame) \in Slots /\ SlotOf(queue[i].frame) # slot
<1>1. PICK f \in Nat, missed \in 0..patience : f = queue[i].frame /\ missed = queue[i].missed
  BY QueueElements, FramesCount DEF FrameInv
<1>2. frame \in Nat /\ patience \in Nat
  BY QueueElements, FramesCount DEF FrameInv, FrameTypes
<1>3. pc # "next"
  BY DEF Recording
<1>4. missed >= frame - f /\ f < frame
  BY <1>1, <1>2, <1>3 DEF FrameInv, MissesAreCounted
<1>5. SlotOf(f) # SlotOf(frame)
  BY <1>1, <1>2, <1>4, SlotsAlternate
<1> QED
  BY <1>1, <1>5, SlotsAlternate DEF slot

\* Writing the constants of a frame: no draw in the queue has the same set.
LEMMA WriteConstantsKeeps == FrameInv /\ WriteConstants => FrameInv'
<1> SUFFICES ASSUME FrameInv, WriteConstants
             PROVE  FrameInv'
  OBVIOUS
<1> USE DEF FrameInv
<1>1. /\ pc = "constants" /\ pc' = "clear" /\ patience' = patience /\ frame' = frame
      /\ dcb' = dcb /\ fb' = fb /\ queue' = queue /\ flips' = flips /\ shown' = shown
      /\ cons' = [cons EXCEPT ![slot] = frame]
  BY DEF WriteConstants
<1>2. frame \in Nat /\ frame \in Frame /\ slot \in Slots
  BY FramesCount, SlotsAlternate DEF FrameTypes, slot
<1>3. FrameTypes'
  BY <1>1, <1>2 DEF FrameTypes
<1>4. MissesAreCounted'
  BY <1>1 DEF MissesAreCounted, Recording
<1>5. Recorded'
  BY <1>1, <1>2 DEF Recorded, slot, FrameTypes
<1>6. DrawReadsItsOwnFrame'
  <2> SUFFICES ASSUME patience <= 1, NEW i \in DOMAIN queue
               PROVE  LET f == queue[i].frame IN cons'[SlotOf(f)] = f /\ dcb[SlotOf(f)] = f
    BY <1>1 DEF DrawReadsItsOwnFrame
  <2>1. SlotOf(queue[i].frame) \in Slots /\ SlotOf(queue[i].frame) # slot
    BY <1>1, QueueSparesSlot DEF Recording
  <2>2. cons'[SlotOf(queue[i].frame)] = cons[SlotOf(queue[i].frame)]
    BY <1>1, <2>1 DEF FrameTypes
  <2> QED
    BY <2>2 DEF DrawReadsItsOwnFrame
<1>7. InStep'
  BY <1>1 DEF InStep, Recording, slot
<1> QED
  BY <1>3, <1>4, <1>5, <1>6, <1>7

LEMMA ClearTargetKeeps == FrameInv /\ ClearTarget => FrameInv'
<1> SUFFICES ASSUME FrameInv, ClearTarget
             PROVE  FrameInv'
  OBVIOUS
<1> USE DEF FrameInv
<1>1. /\ pc = "clear" /\ pc' = "commands" /\ patience' = patience /\ frame' = frame
      /\ cons' = cons /\ dcb' = dcb /\ queue' = queue /\ flips' = flips /\ shown' = shown
      /\ fb' = [fb EXCEPT ![slot] = None]
  BY DEF ClearTarget
<1>2. frame \in Nat /\ frame \in Frame /\ slot \in Slots
  BY FramesCount, SlotsAlternate DEF FrameTypes, slot
<1>3. FrameTypes'
  BY <1>1, <1>2 DEF FrameTypes
<1>4. MissesAreCounted'
  BY <1>1 DEF MissesAreCounted, Recording
<1>5. Recorded'
  BY <1>1 DEF Recorded, slot
<1>6. DrawReadsItsOwnFrame'
  BY <1>1 DEF DrawReadsItsOwnFrame
<1>7. InStep'
  <2>1. frame >= 1 => SlotOf(frame - 1) # slot /\ SlotOf(frame - 1) \in Slots
    BY <1>2, SlotsAlternate DEF slot
  <2>2. frame >= 1 => fb'[SlotOf(frame - 1)] = fb[SlotOf(frame - 1)]
    BY <1>1, <2>1 DEF FrameTypes
  <2> QED
    BY <1>1, <2>2 DEF InStep, Recording, slot
<1> QED
  BY <1>3, <1>4, <1>5, <1>6, <1>7

\* The commands, like the constants, go where no draw in the queue reads.
LEMMA WriteCommandsKeeps == FrameInv /\ WriteCommands => FrameInv'
<1> SUFFICES ASSUME FrameInv, WriteCommands
             PROVE  FrameInv'
  OBVIOUS
<1> USE DEF FrameInv
<1>1. /\ pc = "commands" /\ pc' = "submit" /\ patience' = patience /\ frame' = frame
      /\ cons' = cons /\ fb' = fb /\ queue' = queue /\ flips' = flips /\ shown' = shown
      /\ dcb' = [dcb EXCEPT ![slot] = frame]
  BY DEF WriteCommands
<1>2. frame \in Nat /\ frame \in Frame /\ slot \in Slots
  BY FramesCount, SlotsAlternate DEF FrameTypes, slot
<1>3. FrameTypes'
  BY <1>1, <1>2 DEF FrameTypes
<1>4. MissesAreCounted'
  BY <1>1 DEF MissesAreCounted, Recording
<1>5. Recorded'
  BY <1>1, <1>2 DEF Recorded, slot, FrameTypes
<1>6. DrawReadsItsOwnFrame'
  <2> SUFFICES ASSUME patience <= 1, NEW i \in DOMAIN queue
               PROVE  LET f == queue[i].frame IN cons[SlotOf(f)] = f /\ dcb'[SlotOf(f)] = f
    BY <1>1 DEF DrawReadsItsOwnFrame
  <2>1. SlotOf(queue[i].frame) \in Slots /\ SlotOf(queue[i].frame) # slot
    BY <1>1, QueueSparesSlot DEF Recording
  <2>2. dcb'[SlotOf(queue[i].frame)] = dcb[SlotOf(queue[i].frame)]
    BY <1>1, <2>1 DEF FrameTypes
  <2> QED
    BY <2>2 DEF DrawReadsItsOwnFrame
<1>7. InStep'
  BY <1>1 DEF InStep, Recording, slot
<1> QED
  BY <1>3, <1>4, <1>5, <1>6, <1>7

\* Whatever ends the program leaves nothing in the queues.
LEMMA ExitKeeps == FrameInv /\ (Fail \/ Finish) => FrameInv'
<1> SUFFICES ASSUME FrameInv, Fail \/ Finish
             PROVE  FrameInv'
  OBVIOUS
<1> USE DEF FrameInv
<1>1. /\ pc' = "ended" /\ queue' = <<>> /\ flips' = <<>>
      /\ patience' = patience /\ frame' = frame /\ cons' = cons /\ dcb' = dcb /\ fb' = fb
      /\ shown' = shown
  BY DEF Fail, Finish, Exit
<1>2. FrameTypes'
  BY <1>1, EmptySeq DEF FrameTypes
<1>3. DOMAIN queue' = {}
  BY <1>1
<1>4. MissesAreCounted' /\ DrawReadsItsOwnFrame'
  BY <1>3 DEF MissesAreCounted, DrawReadsItsOwnFrame
<1>5. Recorded' /\ InStep'
  BY <1>1 DEF Recorded, InStep, Recording
<1> QED
  BY <1>2, <1>4, <1>5

\* What is submitted has both its constants and its commands.
LEMMA SubmitKeeps == FrameInv /\ Submit => FrameInv'
<1> SUFFICES ASSUME FrameInv, Submit
             PROVE  FrameInv'
  OBVIOUS
<1> USE DEF FrameInv
<1> DEFINE Drawing == [frame : Frame, missed : 0..patience]
           new == [frame |-> frame, missed |-> 0]
<1>1. /\ pc = "submit" /\ pc' = "vblank" /\ patience' = patience /\ frame' = frame
      /\ cons' = cons /\ dcb' = dcb /\ fb' = fb /\ flips' = flips /\ shown' = shown
      /\ queue' = Append(queue, new)
  BY DEF Submit
<1>2. /\ frame \in Nat /\ frame \in Frame /\ patience \in Nat
      /\ queue \in Seq(Drawing) /\ new \in Drawing
  BY FramesCount, QueueElements DEF FrameTypes
<1> HIDE DEF Drawing, new
<1>3. /\ queue' \in Seq(Drawing) /\ Len(queue') = Len(queue) + 1
      /\ \A i \in 1..Len(queue) : queue'[i] = queue[i]
      /\ queue'[Len(queue) + 1] = new
  BY <1>1, <1>2, AppendProperties
<1>4. DOMAIN queue' = 1..Len(queue') /\ DOMAIN queue = 1..Len(queue) /\ Len(queue) \in Nat
  BY <1>2, <1>3, LenProperties
<1>5. \A i \in DOMAIN queue' : (i \in DOMAIN queue /\ queue'[i] = queue[i]) \/ queue'[i] = new
  <2> TAKE i \in DOMAIN queue'
  <2>1. i \in 1..Len(queue) \/ i = Len(queue) + 1
    BY <1>3, <1>4
  <2> QED
    BY <1>3, <1>4, <2>1
<1>6. new.frame = frame /\ new.missed = 0
  BY DEF new
<1>7. FrameTypes'
  BY <1>1, <1>3 DEF FrameTypes, Drawing
<1>8. MissesAreCounted'
  <2> SUFFICES ASSUME NEW i \in DOMAIN queue'
               PROVE  queue'[i].missed >= frame - queue'[i].frame /\ queue'[i].frame <= frame
    BY <1>1, <1>2, <1>3, <1>4, ElementOfSeq DEF MissesAreCounted, Recording, Drawing, Frame
  <2>1. CASE i \in DOMAIN queue /\ queue'[i] = queue[i]
    <3>1. PICK f \in Nat, missed \in 0..patience : f = queue[i].frame /\ missed = queue[i].missed
      BY <2>1, QueueElements, FramesCount
    <3> QED
      BY <1>1, <1>2, <2>1, <3>1 DEF MissesAreCounted
  <2>2. CASE queue'[i] = new
    BY <1>2, <1>6, <2>2
  <2> QED
    BY <1>5, <2>1, <2>2
<1>9. Recorded'
  BY <1>1 DEF Recorded
<1>10. DrawReadsItsOwnFrame'
  <2> SUFFICES ASSUME patience <= 1, NEW i \in DOMAIN queue'
               PROVE  LET f == queue'[i].frame IN cons[SlotOf(f)] = f /\ dcb[SlotOf(f)] = f
    BY <1>1 DEF DrawReadsItsOwnFrame
  <2>1. CASE i \in DOMAIN queue /\ queue'[i] = queue[i]
    BY <2>1 DEF DrawReadsItsOwnFrame
  <2>2. CASE queue'[i] = new
    BY <1>1, <1>6, <2>2 DEF Recorded, slot
  <2> QED
    BY <1>5, <2>1, <2>2
<1>11. InStep'
  <2> SUFFICES ASSUME patience = 0
               PROVE  Len(queue') = 1 /\ queue'[1].frame = frame /\ flips = <<>>
    BY <1>1 DEF InStep, Recording
  <2>1. queue = <<>> /\ flips = <<>>
    BY <1>1 DEF InStep, Recording
  <2>2. Len(queue) = 0
    BY <2>1, EmptySeq
  <2> QED
    BY <1>3, <1>6, <2>1, <2>2
<1> QED
  BY <1>7, <1>8, <1>9, <1>10, <1>11

\* The blank that has been waited for was missed by every draw still queued.
LEMMA LoopKeeps == FrameInv /\ Loop => FrameInv'
<1> SUFFICES ASSUME FrameInv, Loop
             PROVE  FrameInv'
  OBVIOUS
<1> USE DEF FrameInv
<1>1. /\ pc = "next" /\ pc' = "constants" /\ patience' = patience /\ frame' = frame + 1
      /\ ~IsLast(frame)
      /\ cons' = cons /\ dcb' = dcb /\ fb' = fb /\ queue' = queue /\ flips' = flips
      /\ shown' = shown
  BY DEF Loop, NextFrame
<1>2. frame \in Nat /\ frame \in Frame /\ frame' \in Frame
  BY <1>1, FramesCount DEF FrameTypes, NextFrame
<1>3. FrameTypes'
  BY <1>1, <1>2 DEF FrameTypes
<1>4. MissesAreCounted'
  <2> SUFFICES ASSUME NEW i \in DOMAIN queue
               PROVE  /\ queue[i].missed >= frame' - queue[i].frame + 0
                      /\ queue[i].frame <= frame' /\ queue[i].frame < frame'
    BY <1>1 DEF MissesAreCounted, Recording
  <2>1. PICK f \in Nat, missed \in 0..patience : f = queue[i].frame /\ missed = queue[i].missed
    BY QueueElements, FramesCount
  <2>2. patience \in Nat
    BY QueueElements
  <2>3. missed >= frame - f + 1 /\ f <= frame
    BY <1>1, <2>1 DEF MissesAreCounted
  <2> QED
    BY <1>1, <1>2, <2>1, <2>2, <2>3
<1>5. Recorded'
  BY <1>1 DEF Recorded
<1>6. DrawReadsItsOwnFrame'
  BY <1>1 DEF DrawReadsItsOwnFrame
<1>7. InStep'
  <2>1. frame' - 1 = frame
    BY <1>1, <1>2
  <2> QED
    BY <1>1, <2>1 DEF InStep, Recording, slot
<1> QED
  BY <1>3, <1>4, <1>5, <1>6, <1>7

\* A draw that is done leaves the queue to those behind it.
LEMMA DrawKeeps == FrameInv /\ Draw => FrameInv'
<1> SUFFICES ASSUME FrameInv, Draw
             PROVE  FrameInv'
  OBVIOUS
<1> USE DEF FrameInv
<1> DEFINE Drawing == [frame : Frame, missed : 0..patience]
           f == Head(queue).frame
<1>1. /\ queue # <<>> /\ queue' = Tail(queue)
      /\ fb' = [fb EXCEPT ![SlotOf(f)] = f] /\ flips' = Append(flips, f)
      /\ patience' = patience /\ frame' = frame /\ pc' = pc /\ cons' = cons /\ dcb' = dcb
      /\ shown' = shown
  BY DEF Draw
<1>2. queue \in Seq(Drawing) /\ flips \in Seq(Frame)
  BY DEF FrameTypes
<1>3. Head(queue) \in Drawing
  <2> HIDE DEF Drawing
  <2> QED
    BY <1>1, <1>2, HeadTailProperties
<1>4. f \in Frame /\ f = queue[1].frame
  BY <1>1, <1>2, <1>3
<1> HIDE DEF Drawing, f
<1>5. /\ queue' \in Seq(Drawing) /\ Len(queue') = Len(queue) - 1
      /\ \A i \in 1..Len(queue') : queue'[i] = queue[i + 1]
  BY <1>1, <1>2, HeadTailProperties
<1>6. DOMAIN queue' = 1..Len(queue') /\ DOMAIN queue = 1..Len(queue) /\ Len(queue) \in Nat
  BY <1>2, <1>5, LenProperties
<1>7. \A i \in DOMAIN queue' : i + 1 \in DOMAIN queue /\ queue'[i] = queue[i + 1]
  BY <1>5, <1>6
<1>8. flips' \in Seq(Frame)
  BY <1>1, <1>2, <1>4, AppendProperties
<1>9. f \in Nat /\ SlotOf(f) \in Slots
  BY <1>4, FramesCount, SlotsAlternate
<1>10. FrameTypes'
  BY <1>1, <1>4, <1>5, <1>8, <1>9 DEF FrameTypes, Drawing
<1>11. MissesAreCounted'
  BY <1>1, <1>7 DEF MissesAreCounted, Recording
<1>12. Recorded'
  BY <1>1 DEF Recorded, slot
<1>13. DrawReadsItsOwnFrame'
  BY <1>1, <1>7 DEF DrawReadsItsOwnFrame
<1>14. InStep'
  <2> SUFFICES ASSUME patience = 0
               PROVE  InStep'
    BY <1>1 DEF InStep
  <2>1. pc # "next" /\ ~Recording
    BY <1>1 DEF InStep
  <2>2. ASSUME pc = "vblank"
        PROVE  queue' = <<>> /\ flips' = <<frame>> /\ fb'[slot] = frame
    <3>1. Len(queue) = 1 /\ queue[1].frame = frame /\ flips = <<>>
      BY <1>1, <2>2 DEF InStep
    <3>2. queue' = <<>>
      BY <1>5, <3>1, EmptySeq
    <3>3. f = frame
      BY <1>4, <3>1
    <3>4. flips' = <<frame>>
      BY <1>1, <3>1, <3>3
    <3>5. fb'[slot] = frame
      BY <1>1, <1>9, <3>3 DEF FrameTypes, slot
    <3> QED
      BY <3>2, <3>4, <3>5
  <2> QED
    BY <1>1, <2>1, <2>2 DEF InStep, Recording, slot
<1> QED
  BY <1>10, <1>11, <1>12, <1>13, <1>14

\* A blank counts for every draw in the queue.
LEMMA VblankKeeps == FrameInv /\ Vblank => FrameInv'
<1> SUFFICES ASSUME FrameInv, Vblank
             PROVE  FrameInv'
  OBVIOUS
<1> USE DEF FrameInv
<1>1. /\ patience' = patience /\ frame' = frame /\ cons' = cons /\ dcb' = dcb /\ fb' = fb
      /\ pc' = (IF pc = "vblank" THEN "next" ELSE pc)
      /\ \A i \in DOMAIN queue : queue[i].missed < patience
      /\ queue' = [i \in DOMAIN queue |-> [queue[i] EXCEPT !.missed = @ + 1]]
  BY DEF Vblank
<1>2. \/ flips = <<>> /\ flips' = flips /\ shown' = shown
      \/ flips # <<>> /\ flips' = Tail(flips) /\ shown' = Head(flips)
  BY DEF Vblank
<1>3. /\ DOMAIN queue = 1..Len(queue) /\ Len(queue) \in Nat /\ patience \in Nat
      /\ queue \in Seq([frame : Frame, missed : 0..patience])
      /\ \A i \in DOMAIN queue : queue[i] \in [frame : Frame, missed : 0..patience]
  BY QueueElements, ElementOfSeq DEF FrameTypes
<1>4. \A i \in DOMAIN queue :
          /\ queue'[i] \in [frame : Frame, missed : 0..patience]
          /\ queue'[i].frame = queue[i].frame /\ queue'[i].missed = queue[i].missed + 1
  BY <1>1, <1>3
<1>5. DOMAIN queue' = DOMAIN queue
  BY <1>1
<1>6. queue' \in Seq([frame : Frame, missed : 0..patience])
  BY <1>1, <1>3, <1>4
<1>7. flips' \in Seq(Frame) /\ shown' \in Frame \union {None}
  <2>1. flips \in Seq(Frame) /\ shown \in Frame \union {None}
    BY DEF FrameTypes
  <2>2. flips # <<>> => Tail(flips) \in Seq(Frame) /\ Head(flips) \in Frame
    BY <2>1, HeadTailProperties
  <2> QED
    BY <1>2, <2>1, <2>2
<1>8. FrameTypes'
  BY <1>1, <1>6, <1>7 DEF FrameTypes
<1>9. MissesAreCounted'
  <2> SUFFICES ASSUME NEW i \in DOMAIN queue
               PROVE  /\ queue'[i].missed >= frame - queue'[i].frame
                                             + (IF pc' = "next" THEN 1 ELSE 0)
                      /\ queue'[i].frame <= frame
                      /\ Recording' => queue'[i].frame < frame
    BY <1>1, <1>5 DEF MissesAreCounted
  <2>1. PICK f \in Nat, missed \in 0..patience : f = queue[i].frame /\ missed = queue[i].missed
    BY QueueElements, FramesCount
  <2>2. frame \in Nat
    BY FramesCount DEF FrameTypes
  <2>3. missed >= frame - f /\ f <= frame /\ (pc = "next" => missed >= frame - f + 1)
    BY <1>3, <2>1, <2>2 DEF MissesAreCounted
  <2>4. missed + 1 >= frame - f + 1 /\ missed + 1 >= frame - f
    BY <1>3, <2>1, <2>2, <2>3
  <2>5. Recording' => Recording
    BY <1>1 DEF Recording
  <2> QED
    BY <1>4, <2>1, <2>2, <2>3, <2>4, <2>5 DEF MissesAreCounted
<1>10. Recorded'
  BY <1>1 DEF Recorded, slot
<1>11. DrawReadsItsOwnFrame'
  BY <1>1, <1>4, <1>5 DEF DrawReadsItsOwnFrame
<1>12. InStep'
  <2> SUFFICES ASSUME patience = 0
               PROVE  InStep'
    BY <1>1 DEF InStep
  <2>1. Len(queue) = 0 /\ queue = <<>>
    <3>1. Len(queue) = 0
      BY <1>1, <1>3
    <3> QED
      BY <1>3, <3>1, EmptySeq
  <2>2. queue' = <<>>
    BY <1>1, <2>1
  <2>3. CASE pc = "vblank"
    <3>1. flips = <<frame>> /\ fb[slot] = frame
      BY <2>1, <2>3 DEF InStep
    <3>2. flips' = <<>> /\ shown' = frame
      BY <1>2, <3>1
    <3> QED
      BY <1>1, <2>2, <2>3, <3>1, <3>2 DEF InStep, Recording, slot
  <2>4. CASE pc # "vblank"
    <3>1. Recording \/ pc = "next" => flips' = flips /\ shown' = shown
      BY <1>2 DEF InStep
    <3> QED
      BY <1>1, <2>1, <2>2, <2>4, <3>1 DEF InStep, Recording, slot
  <2> QED
    BY <2>3, <2>4
<1> QED
  BY <1>8, <1>9, <1>10, <1>11, <1>12

-------------------------------------------------------------------------------
CubeInv == SetupInv /\ FrameInv

LEMMA CubeStarts == Init => CubeInv
BY SetupStarts, FramesStart DEF Init, CubeInv

LEMMA CubeKept == CubeInv /\ [Next]_vars => CubeInv'
<1> SUFFICES ASSUME CubeInv, [Next]_vars
             PROVE  CubeInv'
  OBVIOUS
<1> USE DEF CubeInv
<1>1. CASE Before
  BY <1>1, SetupKept, FramesUnchanged DEF Before
<1>2. CASE InLoop(Record)
  <2>1. SetupInv' /\ Record
    BY <1>2, SetupUnchanged DEF InLoop
  <2> QED
    BY <2>1, WriteConstantsKeeps, ClearTargetKeeps, WriteCommandsKeeps, SubmitKeeps, LoopKeeps,
       ExitKeeps DEF Record
<1>3. CASE InLoop(Fail)
  BY <1>3, SetupUnchanged, ExitKeeps DEF InLoop
<1>4. CASE InLoop(Draw)
  BY <1>4, SetupUnchanged, DrawKeeps DEF InLoop
<1>5. CASE InLoop(Vblank)
  BY <1>5, SetupUnchanged, VblankKeeps DEF InLoop
<1>6. CASE UNCHANGED vars
  BY <1>6, SetupUnchanged, FramesUnchanged DEF vars
<1> QED
  BY <1>1, <1>2, <1>3, <1>4, <1>5, <1>6 DEF Next

LEMMA CubeAlways == Spec => []CubeInv
<1>1. Init => CubeInv
  BY CubeStarts
<1>2. CubeInv /\ [Next]_vars => CubeInv'
  BY CubeKept
<1> QED
  BY <1>1, <1>2, PTL DEF Spec

\* For any number of frames and any GPU: every frame number stays within the
\* frames the loop records, and no draw misses more blanks than its GPU may.
THEOREM CubeTypeCorrect == Spec => []TypeOK
<1>1. CubeInv => TypeOK
  <2> SUFFICES ASSUME FrameInv
               PROVE  TypeOK
    BY DEF CubeInv
  <2>1. \A i \in DOMAIN queue : queue[i].frame \in Frame /\ queue[i].missed \in 0..patience
    BY QueueElements DEF FrameInv
  <2>2. \A i \in DOMAIN flips : flips[i] \in Frame
    <3>1. flips \in Seq(Frame)
      BY DEF FrameInv, FrameTypes
    <3> QED
      BY <3>1, LenProperties, ElementOfSeq
  <2> QED
    BY <2>1, <2>2 DEF FrameInv, FrameTypes, TypeOK
<1> QED
  BY <1>1, CubeAlways, PTL

\* Whichever call is refused, with shader parts of any length: main hands over
\* and records in nothing but memory that is mapped, long enough and in one
\* buffer only, and the kernel counts no memory as used that no buffer holds.
THEOREM BuffersAlwaysHoldTheirMemory == Spec => []BuffersHoldTheirMemory
<1>1. CubeInv => BuffersHoldTheirMemory
  BY HeldInOrder DEF CubeInv
<1> QED
  BY <1>1, CubeAlways, PTL

\* For any number of frames: what a queued draw reads is what was recorded for
\* it, as long as no draw misses more than one blank (main.c:452-453).
THEOREM DrawsAlwaysReadTheirOwnFrame == Spec => []DrawReadsItsOwnFrame
<1>1. CubeInv => DrawReadsItsOwnFrame
  BY DEF CubeInv, FrameInv
<1> QED
  BY <1>1, CubeAlways, PTL

\* For any number of frames, by a GPU that misses no blank: the target that is
\* wiped is never the one on the screen.
THEOREM AlwaysWipesOffScreen == Spec => []WipesOffScreen
<1>1. CubeInv => WipesOffScreen
  <2> SUFFICES ASSUME FrameInv, patience = 0, pc \in {"constants", "clear", "commands"}
               PROVE  /\ shown = frame - 1
                      /\ shown # None => slot # SlotOf(shown) /\ fb[SlotOf(shown)] = shown
    BY DEF CubeInv, WipesOffScreen
  <2>1. shown = frame - 1 /\ (frame >= 1 => fb[SlotOf(frame - 1)] = frame - 1)
    BY DEF FrameInv, InStep, Recording
  <2>2. frame \in Nat
    BY FramesCount DEF FrameInv, FrameTypes
  <2>3. shown # None => frame >= 1
    BY <2>1, <2>2 DEF None
  <2> QED
    BY <2>1, <2>2, <2>3, SlotsAlternate DEF slot
<1> QED
  BY <1>1, CubeAlways, PTL
================================================================================
