---------------------------- MODULE MCInputLane ------------------------------
(* Instances of InputLane for TLC.                                          *)
EXTENDS InputLane
CONSTANTS k, shift, ctrl, opt, cmd

KeyDown(mods) == [kind |-> "key", press |-> k, down |-> TRUE, mods |-> mods]
KeyUp == [kind |-> "key", press |-> k, down |-> FALSE, mods |-> {}]
PressInputs == {KeyDown({})}
HoldInputs == {KeyDown({}), KeyUp, [kind |-> "motion"]}
=============================================================================
