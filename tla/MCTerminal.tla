----------------------------- MODULE MCTerminal ------------------------------
(***************************************************************************)
(* Two launches in one tmux server, in every combination of modes; the     *)
(* inside of one frame with two tasks and a feed a status line cuts; or    *)
(* the pet of one frame.  The modules have no variable in common: a        *)
(* behaviour exercises one.                                                *)
(***************************************************************************)
EXTENDS Surface, TerminalFrame, Pets

VARIABLE level

vars == <<surfaceVars, frameVars, petVars, level>>

MCModes == {"native", "bridged", "embedded"}

\* No directory of assets, or one with a picture of the first pet.
MCAssetDirs == {NoDir, {"p1"}}
MCLengthOf == [part \in Part |-> IF part = "idle" THEN 2 ELSE 3]

Init ==
    /\ level \in {"launches", "frame", "pets"}
    /\ SurfaceInit
    /\ level # "launches" => mode = [l \in Launch |-> "embedded"]
    /\ FrameInit
    /\ level # "frame" => kind = "embedded"
    /\ PetsInit
    /\ level # "pets" => host = [graphics |-> FALSE, events |-> FALSE, assets |-> NoDir]

Next ==
    /\ UNCHANGED level
    /\ \/ level = "launches" /\ SurfaceNext /\ UNCHANGED <<frameVars, petVars>>
       \/ level = "frame" /\ FrameNext /\ UNCHANGED <<surfaceVars, petVars>>
       \/ level = "pets" /\ PetsNext /\ UNCHANGED <<surfaceVars, frameVars>>

\* What is fair of one level is never enabled in a behaviour of the other.
Spec == Init /\ [][Next]_vars /\ SurfaceFairness /\ FrameFairness
==============================================================================
