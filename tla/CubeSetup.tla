------------------------------- MODULE CubeSetup -------------------------------
(***************************************************************************)
(* examples/gpu_cube/main.c before its loop: the libraries are opened and  *)
(* every buffer is allocated, mapped and handed over, in one fixed order;  *)
(* each of these calls may be refused, and then main returns.  A grant of  *)
(* physical memory is known by the step that asked for it.                 *)
(***************************************************************************)
EXTENDS Integers, SequencesExt

CONSTANT ShaderBytes   \* length of each part of the shader containers

ASSUME ShaderBytesAssumption == ShaderBytes \in Nat \ {0}

VARIABLES
    step,      \* position in Steps
    setup,     \* "step", "map", "ready", "returned"
    taken,     \* grants of physical memory the kernel counts as used
    region     \* the DirectMem of each buffer

setup_vars == <<step, setup, taken, region>>

BUF_COUNT == 2
Slots == 0..BUF_COUNT - 1

DIRECT_MEM_MIN_ALIGN == 16384
TwoMiB == 2 * 1024 * 1024

Rounded(bytes, align) == ((bytes + align - 1) \div align) * align

\* 1920 x 1080 in tiles of 128 x 128 elements of four bytes.
frame_bytes == Rounded(Rounded(1920, 128) * Rounded(1080, 128) * 4, TwoMiB)

Alloc(name, bytes, align) == [op |-> "alloc", on |-> {name}, bytes |-> bytes, align |-> align]
Page(name, bytes) == Alloc(name, bytes, DIRECT_MEM_MIN_ALIGN)
Call(uses) == [op |-> "call", on |-> uses, bytes |-> 0, align |-> 0]

Both(name) == {<<name, s>> : s \in Slots}
Single(name) == <<name, 0>>

\* The buffers of one frame in flight.
FrameBuffers(s) ==
    << Page(<<"dcb", s>>, 64 * 1024), Page(<<"ctx", s>>, 8192), Page(<<"sh", s>>, 4096),
       Page(<<"prim", s>>, 4096), Page(<<"cons", s>>, 256) >>

\* What both frames in flight share.
SharedSteps ==
    << Call({}), Call({}),                       \* sceAgcInit, sceVideoOutOpen
       Alloc(<<"fb", 0>>, frame_bytes, TwoMiB), Alloc(<<"fb", 1>>, frame_bytes, TwoMiB),
       Call(Both("fb")),                         \* sceVideoOutRegisterBuffers2
       Call({}),                                 \* the parts of both shaders
       Page(Single("vs_hdr"), ShaderBytes), Page(Single("vs_code"), ShaderBytes),
       Page(Single("ps_hdr"), ShaderBytes), Page(Single("ps_code"), ShaderBytes),
       Call({Single("vs_hdr"), Single("vs_code")}), Call({Single("ps_hdr"), Single("ps_code")}),
       Page(Single("vbuf"), 24 * 36), Page(Single("ibuf"), 36 * 4),
       Call({Single("vbuf"), Single("ibuf")}) >> \* the geometry, and where it is declared

Steps == SharedSteps \o FrameBuffers(0) \o FrameBuffers(1)

Regions == UNION {Steps[k].on : k \in DOMAIN Steps}
NoMemory == [phys |-> 0, size |-> 0]

SetupInit ==
    /\ step = 1 /\ setup = "step"
    /\ taken = {}
    /\ region = [r \in Regions |-> NoMemory]

At(op) == setup = "step" /\ step <= Len(Steps) /\ Steps[step].op = op

-------------------------------------------------------------------------------
\* Slip: an answer below zero is not looked at.
GoOn == "step"

\* What becomes of main when a call is refused.
Refused == "returned"

CallSucceeds ==
    /\ At("call")
    /\ step' = step + 1
    /\ UNCHANGED <<setup, taken, region>>

CallFails ==
    /\ At("call")
    /\ setup' = Refused /\ step' = step + 1
    /\ UNCHANGED <<taken, region>>

\* direct_alloc: no alignment below a page is asked for.
Clamped(align) == IF align < DIRECT_MEM_MIN_ALIGN THEN DIRECT_MEM_MIN_ALIGN ELSE align

Grant == [phys |-> step, size |-> Rounded(Steps[step].bytes, Clamped(Steps[step].align))]

Answer(memory) == region' = [r \in Regions |-> IF r \in Steps[step].on THEN memory ELSE region[r]]

\* sceKernelAllocateDirectMemory
TakeMemory ==
    /\ At("alloc")
    /\ taken' = taken \union {Grant}
    /\ setup' = "map"
    /\ UNCHANGED <<step, region>>

TakeFails ==
    /\ At("alloc")
    /\ Answer(NoMemory)
    /\ setup' = Refused /\ step' = step + 1
    /\ UNCHANGED taken

\* sceKernelMapDirectMemory
MapMemory ==
    /\ setup = "map"
    /\ Answer(Grant)
    /\ setup' = "step" /\ step' = step + 1
    /\ UNCHANGED taken

\* Slip: memory that cannot be mapped is not given back.
KeepGrant == taken

Release == taken \ {Grant}

MapFails ==
    /\ setup = "map"
    /\ taken' = Release
    /\ Answer(NoMemory)
    /\ setup' = Refused /\ step' = step + 1

EnterLoop ==
    /\ setup = "step" /\ step > Len(Steps)
    /\ setup' = "ready"
    /\ UNCHANGED <<step, taken, region>>

SetUp == CallSucceeds \/ CallFails \/ TakeMemory \/ TakeFails \/ MapMemory \/ MapFails \/ EnterLoop

-------------------------------------------------------------------------------
\* What main is about to use: the buffers a call is given, in the loop all.
InUse == CASE At("call") -> Steps[step].on [] setup = "ready" -> Regions [] OTHER -> {}

AskedAt(r) == CHOOSE k \in DOMAIN Steps : Steps[k].op = "alloc" /\ r \in Steps[k].on

\* No buffer is used before it is mapped with all the bytes it was asked for,
\* each in memory of its own (main.c:115-123 tells of the silent NULL that an
\* unchecked failure left); and no memory is taken that no buffer holds, after
\* a mapping that failed neither.
BuffersHoldTheirMemory ==
    /\ \A r \in InUse :
          /\ region[r] \in taken /\ region[r].size >= Steps[AskedAt(r)].bytes
          /\ \A q \in Regions : region[q] = region[r] => q = r
    /\ taken = ({region[r] : r \in Regions} \ {NoMemory})
               \union (IF setup = "map" THEN {Grant} ELSE {})
================================================================================
