----------------------------- MODULE VideoContext -----------------------------
(***************************************************************************)
(* sdk/ps5sdk.h, ps5sdk_video.h and ps5sdk_pad.h: what a program opens and *)
(* closes.  SDL and SDL_ttf come up in a constructor and go down in a      *)
(* destructor; between the two the program opens a window, a renderer, two *)
(* fonts and a controller, each of which may be refused.  SDL itself is    *)
(* external: an object lives from its creation to its destruction.         *)
(***************************************************************************)
EXTENDS Naturals, FiniteSets

Library == {"SDL", "TTF"}
Font == {"font", "font_sm"}
Object == {"window", "renderer", "ctrl"} \union Font

\* What must still be there when an object is destroyed.
Owner(object) ==
    CASE object \in Font -> "TTF"
      [] object = "renderer" -> "window"
      [] OTHER -> "SDL"

VARIABLES
    stage,     \* what comes next: "construct", "window", "renderer", "fonts",
               \* "pad", "run", "close_pad", "close_fonts", "close_renderer",
               \* "close_window", "quit_ttf", "quit_sdl", "ended"
    pointer,   \* the fields of the context and of the pad that are not NULL
    alive,     \* the objects SDL has created and not destroyed
    up,        \* the libraries that came up
    misused    \* something was destroyed that was not alive, or after its owner

context == <<stage, pointer, alive, up, misused>>

ContextInit ==
    /\ stage = "construct"
    /\ pointer = {} /\ alive = {} /\ up = {} /\ misused = FALSE

Destroy(objects) ==
    /\ alive' = alive \ objects
    /\ misused' = (misused \/ ~(objects \subseteq alive)
                   \/ \E o \in objects : Owner(o) \notin alive \union up)

-------------------------------------------------------------------------------
\* What SDL_Init and TTF_Init answer is not looked at.
Construct ==
    /\ stage = "construct"
    /\ up' \in SUBSET Library
    /\ stage' = "window"
    /\ UNCHANGED <<pointer, alive, misused>>

Create(objects) ==
    /\ \A o \in objects : Owner(o) \in alive \union up
    /\ pointer' = pointer \union objects
    /\ alive' = alive \union objects
    /\ UNCHANGED misused

\* Slip: the program goes on with a context that could not be opened.
UseAnyway == "close_pad"

\* SDL_main returns 1 at once.
AfterRefusal == "quit_ttf"

OpenWindow ==
    /\ stage = "window"
    /\ \/ Create({"window"}) /\ stage' = "renderer"
       \/ stage' = AfterRefusal /\ UNCHANGED <<pointer, alive, misused>>
    /\ UNCHANGED up

\* Without a renderer the window is destroyed, and stays in the context.
OpenRenderer ==
    /\ stage = "renderer"
    /\ \/ Create({"renderer"}) /\ stage' = "fonts"
       \/ Destroy({"window"}) /\ stage' = AfterRefusal /\ UNCHANGED pointer
    /\ UNCHANGED up

\* Neither path, the large size only, or both sizes of the first that opens.
OpenFonts ==
    /\ stage = "fonts"
    /\ \E fonts \in {{}, {"font"}, Font} : Create(fonts)
    /\ stage' = "pad"
    /\ UNCHANGED up

\* The first joystick that is a controller and opens, if there is one.
OpenPad ==
    /\ stage = "pad"
    /\ \E pads \in {{}, {"ctrl"}} : Create(pads)
    /\ stage' = "run"
    /\ UNCHANGED up

\* ps5sdk_pad_close and ps5sdk_video_close: what is not NULL is destroyed, the
\* fields are cleared.
CloseFields(fields) ==
    /\ Destroy(pointer \intersect fields)
    /\ pointer' = pointer \ fields

ClosePad ==
    /\ stage = "close_pad"
    /\ CloseFields({"ctrl"})
    /\ stage' = "close_fonts"
    /\ UNCHANGED up

CloseFonts ==
    /\ stage = "close_fonts"
    /\ CloseFields(Font)
    /\ stage' = "close_renderer"
    /\ UNCHANGED up

CloseRenderer ==
    /\ stage = "close_renderer"
    /\ CloseFields({"renderer"})
    /\ stage' = "close_window"
    /\ UNCHANGED up

CloseWindow ==
    /\ stage = "close_window"
    /\ CloseFields({"window"})
    /\ stage' = "quit_ttf"
    /\ UNCHANGED up

\* The destructor.
Quit ==
    /\ \/ stage = "quit_ttf" /\ up' = up \ {"TTF"} /\ stage' = "quit_sdl"
       \/ stage = "quit_sdl" /\ up' = {} /\ stage' = "ended"
    /\ UNCHANGED <<pointer, alive, misused>>

OpenAndClose ==
    \/ Construct \/ OpenWindow \/ OpenRenderer \/ OpenFonts \/ OpenPad
    \/ ClosePad \/ CloseFonts \/ CloseRenderer \/ CloseWindow \/ Quit

-------------------------------------------------------------------------------
\* Whatever is refused on the way, each object is destroyed once, before what
\* owns it, and none is left when the libraries go down (ps5sdk_video.h:41
\* leaves a destroyed window in the context, which nothing may close again).
ClosedOnceInOrder ==
    /\ ~misused
    /\ stage \in {"quit_sdl", "ended"} => alive = {}
===============================================================================
