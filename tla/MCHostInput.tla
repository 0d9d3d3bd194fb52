---------------------------- MODULE MCHostInput ------------------------------
(* Instances of HostInput for TLC.                                          *)
EXTENDS HostInput, TLC
CONSTANTS k, shift, ctrl, opt, cmd

KeyDown(mods) == [kind |-> "key", press |-> k, down |-> TRUE, mods |-> mods]
KeyUp == [kind |-> "key", press |-> k, down |-> FALSE, mods |-> {}]
\* Two peers contending for one key.
KeyInputs == {KeyDown({}), KeyUp, [kind |-> "motion"],
              [kind |-> "mods", mods |-> {}]}
\* One peer's key, alone or in a chord with Control.
ChordInputs == {KeyDown({}), KeyDown({ctrl}), KeyUp, [kind |-> "motion"],
                [kind |-> "mods", mods |-> {ctrl}], [kind |-> "mods", mods |-> {}]}
\* What two subscriptions send while commands are awaited.
PressInputs == {KeyDown({})}
Peers == Permutations(Addr)
=============================================================================
