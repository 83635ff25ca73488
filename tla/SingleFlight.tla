---------------------------- MODULE SingleFlight ----------------------------
(***************************************************************************)
(* What the fleetSync/fleetDirty pair of the engine promises to the        *)
(* goroutines that ask for a reconciliation of one room: at most one of    *)
(* them runs at a time, the room passes from one to the next only through  *)
(* a free state, a request that finds a runner leaves a note, and only the *)
(* runner takes notes away.                                                *)
(***************************************************************************)
CONSTANTS Workers, None

VARIABLES runner, note

Init == runner = None /\ note = FALSE

Begin(w) ==
    /\ runner = None
    /\ runner' = w
    /\ UNCHANGED note

LeaveNote ==
    /\ runner # None
    /\ note' = TRUE
    /\ UNCHANGED runner

TakeNote ==
    /\ runner # None
    /\ note' = FALSE
    /\ UNCHANGED runner

Finish ==
    /\ runner # None
    /\ runner' = None
    /\ note' = FALSE

Next == (\E w \in Workers : Begin(w)) \/ LeaveNote \/ TakeNote \/ Finish

Spec == Init /\ [][Next]_<<runner, note>>
=============================================================================
