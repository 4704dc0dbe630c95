------------------------------ MODULE CubeFrames -------------------------------
(***************************************************************************)
(* examples/gpu_cube/main.c, the frame loop: the processor records a frame *)
(* in one of two sets of buffers, submits it and waits for one vertical    *)
(* blank; the GPU draws what was submitted, in order, and queues a flip;   *)
(* the display shows one queued flip at each blank.  The loop asks neither *)
(* the GPU nor the display how far they are.  Both are external: a draw    *)
(* takes any time up to `patience' blanks after its submission, and a      *)
(* process that ends takes its queues with it.                             *)
(***************************************************************************)
EXTENDS CubeSetup

CONSTANTS
    FRAMES,        \* frames the loop records
    Patiences      \* how many blanks a draw may miss: a set to choose from

ASSUME FramesAssumption == FRAMES \in Nat \ {0} /\ Patiences \subseteq Nat

None == -1

VARIABLES
    patience,      \* of this run's GPU
    frame, pc,     \* "constants", "clear", "commands", "submit", "vblank", "next", "ended"
    cons, dcb, fb, \* per slot, the frame whose constants, commands, pixels it holds
    queue,         \* submitted: [frame, missed], oldest first
    flips,         \* drawn and not yet shown, oldest first
    shown          \* the frame whose flip was last done

frame_vars == <<patience, frame, pc, cons, dcb, fb, queue, flips, shown>>
vars == <<setup_vars, frame_vars>>

Init ==
    /\ SetupInit
    /\ patience \in Patiences
    /\ frame = 0 /\ pc = "constants"
    /\ cons = [s \in Slots |-> None] /\ dcb = [s \in Slots |-> None]
    /\ fb = [s \in Slots |-> None]
    /\ queue = <<>> /\ flips = <<>> /\ shown = None

-------------------------------------------------------------------------------
\* Slip: the same set of buffers for every frame.
OneSlot(f) == 0

\* int slot = frame & 1
SlotOf(f) == f % BUF_COUNT

slot == SlotOf(frame)

WriteConstants ==
    /\ pc = "constants"
    /\ cons' = [cons EXCEPT ![slot] = frame]
    /\ pc' = "clear"
    /\ UNCHANGED <<patience, frame, dcb, fb, queue, flips, shown>>

\* The processor itself wipes the target.
ClearTarget ==
    /\ pc = "clear"
    /\ fb' = [fb EXCEPT ![slot] = None]
    /\ pc' = "commands"
    /\ UNCHANGED <<patience, frame, cons, dcb, queue, flips, shown>>

\* The registers and the commands that point at them.
WriteCommands ==
    /\ pc = "commands"
    /\ dcb' = [dcb EXCEPT ![slot] = frame]
    /\ pc' = "submit"
    /\ UNCHANGED <<patience, frame, cons, fb, queue, flips, shown>>

\* main returns, and the process ends.
Exit ==
    /\ pc' = "ended"
    /\ queue' = <<>> /\ flips' = <<>>

\* Linking the shaders fails, or submitting does.
Fail ==
    /\ pc \in {"commands", "submit"}
    /\ Exit
    /\ UNCHANGED <<patience, frame, cons, dcb, fb, shown>>

Submit ==
    /\ pc = "submit"
    /\ queue' = Append(queue, [frame |-> frame, missed |-> 0])
    /\ pc' = "vblank"
    /\ UNCHANGED <<patience, frame, cons, dcb, fb, flips, shown>>

\* Slip: the next slot is kept where the next frame's number belongs.
NextSlot(f) == SlotOf(f + 1)

NextFrame(f) == f + 1

\* Slip: the loop runs once more.
LastIsFRAMES(f) == f = FRAMES

IsLast(f) == f = FRAMES - 1

\* sceVideoOutWaitVblank has returned.
Loop ==
    /\ pc = "next" /\ ~IsLast(frame)
    /\ frame' = NextFrame(frame) /\ pc' = "constants"
    /\ UNCHANGED <<patience, cons, dcb, fb, queue, flips, shown>>

Finish ==
    /\ pc = "next" /\ IsLast(frame)
    /\ Exit
    /\ UNCHANGED <<patience, frame, cons, dcb, fb, shown>>

-------------------------------------------------------------------------------
\* A draw has come to its end: whatever its slot holds is what it drew.
Draw ==
    /\ queue # <<>>
    /\ LET f == Head(queue).frame IN
       /\ fb' = [fb EXCEPT ![SlotOf(f)] = f]
       /\ flips' = Append(flips, f)
    /\ queue' = Tail(queue)
    /\ UNCHANGED <<patience, frame, pc, cons, dcb, shown>>

\* A blank: no draw has missed more than it may; one flip is done; and a
\* processor that waits goes on.
Vblank ==
    /\ pc # "ended"
    /\ \A i \in DOMAIN queue : queue[i].missed < patience
    /\ queue' = [i \in DOMAIN queue |-> [queue[i] EXCEPT !.missed = @ + 1]]
    /\ IF flips = <<>>
       THEN UNCHANGED <<flips, shown>>
       ELSE flips' = Tail(flips) /\ shown' = Head(flips)
    /\ pc' = IF pc = "vblank" THEN "next" ELSE pc
    /\ UNCHANGED <<patience, frame, cons, dcb, fb>>

Record == WriteConstants \/ ClearTarget \/ WriteCommands \/ Submit \/ Loop \/ Finish

Before == SetUp /\ UNCHANGED frame_vars

\* A step of the loop, which begins when everything is set up.
InLoop(A) == setup = "ready" /\ A /\ UNCHANGED setup_vars

Next == Before \/ InLoop(Record) \/ InLoop(Fail) \/ InLoop(Draw) \/ InLoop(Vblank)

\* The loop never blocks but for the blank; the GPU and the display go on.
Fairness ==
    /\ WF_vars(Before)
    /\ WF_vars(InLoop(Record)) /\ WF_vars(InLoop(Draw)) /\ WF_vars(InLoop(Vblank))

Spec == Init /\ [][Next]_vars /\ Fairness

-------------------------------------------------------------------------------
Frame == 0..FRAMES - 1

\* The type invariant.
TypeOK ==
    /\ patience \in Patiences
    /\ frame \in Frame
    /\ pc \in {"constants", "clear", "commands", "submit", "vblank", "next", "ended"}
    /\ {cons, dcb, fb} \subseteq [Slots -> Frame \union {None}]
    /\ \A i \in DOMAIN queue : queue[i].frame \in Frame /\ queue[i].missed \in 0..patience
    /\ \A i \in DOMAIN flips : flips[i] \in Frame
    /\ shown \in Frame \union {None}

\* main.c:452-453: "recording one frame never overwrites what an earlier frame's
\* draw is still reading".  With two sets it holds as long as no draw misses
\* more than one blank.
DrawReadsItsOwnFrame ==
    patience <= 1 =>
        \A i \in DOMAIN queue :
            LET f == queue[i].frame IN cons[SlotOf(f)] = f /\ dcb[SlotOf(f)] = f

\* A draw that misses no blank is on the screen when the next frame is
\* recorded, so the target that is wiped is not the one on the screen.
WipesOffScreen ==
    patience = 0 /\ pc \in {"constants", "clear", "commands"} =>
        /\ shown = frame - 1
        /\ shown # None => slot # SlotOf(shown) /\ fb[SlotOf(shown)] = shown

\* The program comes to its end: no frame waits for ever.
Terminates == <>(setup = "returned" \/ pc = "ended")
================================================================================
