------------------------------- MODULE PadInput -------------------------------
(***************************************************************************)
(* examples/pad_input/main.c: the controller is opened, its state is read  *)
(* once a frame, and a press of CROSS is counted when the button is down   *)
(* and was not down at the last usable reading.  A reading may fail, and   *)
(* the system may hold the controller; both leave the last state as it is. *)
(* The player presses and releases at any moment: presses are numbered, so *)
(* that it is known which of them were counted.                            *)
(***************************************************************************)
EXTENDS Naturals, FiniteSets

CONSTANTS
    max_frames,    \* readings at most, 625 in the code
    MaxPresses     \* bound of the model: presses the player makes

ASSUME FramesAssumption == max_frames \in Nat /\ MaxPresses \in Nat

VARIABLES
    pc,                \* "open", "read", "sleep", "close", "ended"
    handle,            \* the controller is open
    frame,
    was_cross_down,
    cross_presses,
    down, press,       \* the button, and the number of its latest press
    counted,           \* the presses a notification was sent for
    read_up, read_down \* a usable reading fell in the latest release, press

vars == <<pc, handle, frame, was_cross_down, cross_presses, down, press, counted,
          read_up, read_down>>

program == <<pc, handle, frame>>
counting == <<was_cross_down, cross_presses, counted, read_up, read_down>>
player == <<down, press>>

-------------------------------------------------------------------------------
\* The button may be held when the program starts: it was not down before.
Init ==
    /\ pc = "open" /\ handle = FALSE /\ frame = 0
    /\ was_cross_down = FALSE /\ cross_presses = 0
    /\ down \in BOOLEAN
    /\ press = IF down THEN 1 ELSE 0
    /\ counted = {}
    /\ read_up = TRUE /\ read_down = FALSE

\* The user service, the pad library and the port, each of which may refuse.
Open ==
    /\ pc = "open"
    /\ \/ pc' = "ended" /\ UNCHANGED handle
       \/ pc' = "read" /\ handle' = TRUE
    /\ UNCHANGED <<frame, counting, player>>

MoreFrames == frame < max_frames

Reading == pc = "read" /\ MoreFrames

\* scePadReadState fails, or the system has taken the controller.
ReadNothing ==
    /\ Reading
    /\ pc' = "sleep"
    /\ UNCHANGED <<handle, frame, counting, player>>

\* Slip: the last state is not compared.
NewWhenDown == down

NewPress == down /\ ~was_cross_down

\* Slip: a release is not remembered.
OnceDown == was_cross_down \/ down

LastState == down

ReadButtons ==
    /\ Reading
    /\ cross_presses' = IF NewPress THEN cross_presses + 1 ELSE cross_presses
    /\ counted' = IF NewPress THEN counted \union {press} ELSE counted
    /\ was_cross_down' = LastState
    /\ read_up' = (read_up \/ ~down)
    /\ read_down' = (read_down \/ down)
    /\ pc' \in {"sleep", "close"}         \* OPTIONS leaves the loop
    /\ UNCHANGED <<handle, frame, player>>

\* Slip: only frames after the button was read down are counted.
NextFrameIfRead == IF was_cross_down THEN frame + 1 ELSE frame

NextFrame == frame + 1

Sleep ==
    /\ pc = "sleep"
    /\ frame' = NextFrame
    /\ pc' = "read"
    /\ UNCHANGED <<handle, counting, player>>

EndLoop ==
    /\ pc = "read" /\ ~Reading
    /\ pc' = "close"
    /\ UNCHANGED <<handle, frame, counting, player>>

Close ==
    /\ pc = "close"
    /\ handle' = FALSE /\ pc' = "ended"
    /\ UNCHANGED <<frame, counting, player>>

Main == Open \/ ReadNothing \/ ReadButtons \/ Sleep \/ EndLoop \/ Close

-------------------------------------------------------------------------------
Press ==
    /\ ~down /\ press < MaxPresses
    /\ down' = TRUE /\ press' = press + 1 /\ read_down' = FALSE
    /\ UNCHANGED <<program, was_cross_down, cross_presses, counted, read_up>>

Release ==
    /\ down
    /\ down' = FALSE /\ read_up' = FALSE
    /\ UNCHANGED <<program, press, was_cross_down, cross_presses, counted, read_down>>

Next == Main \/ Press \/ Release

\* One thread that waits for nothing but its own sleep.
Spec == Init /\ [][Next]_vars /\ WF_vars(Main)

-------------------------------------------------------------------------------
\* Every press is counted at most once, however often it is read and whatever
\* readings fail while it lasts (main.c:79-89).
NoPressCountedTwice ==
    /\ counted \subseteq 1..press
    /\ cross_presses = Cardinality(counted)

\* A press is missed only in a gap: when it was read, and the release before it
\* was read as well, it has been counted.
ReadPressIsCounted == down /\ read_up /\ read_down => press \in counted

\* The program ends, whatever the player does and however many readings fail,
\* and leaves no controller open.
EndsClosed == <>[](pc = "ended" /\ ~handle)
===============================================================================
