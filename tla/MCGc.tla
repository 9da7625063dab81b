-------------------------------- MODULE MCGc --------------------------------
(***************************************************************************)
(* Small instances of NegiGc for TLC: the runs of every program of at most *)
(* MaxCommands commands.                                                   *)
(***************************************************************************)
EXTENDS NegiGc

CONSTANT MaxCommands

VARIABLE commands

MCInit == GcInit /\ commands = 0

MCNext ==
    \/ Command /\ commands < MaxCommands /\ commands' = commands + 1 /\ UNCHANGED gcVars
    \/ (GcBegin \/ GcStep) /\ UNCHANGED commands

MCVars == <<vars, commands>>

MCSpec == MCInit /\ [][MCNext]_MCVars

MCFairSpec == MCSpec /\ WF_MCVars(GcStep /\ UNCHANGED commands)
=============================================================================
