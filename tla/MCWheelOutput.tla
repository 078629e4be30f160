--------------------------- MODULE MCWheelOutput ---------------------------
(***************************************************************************)
(* A matrix for WheelOutput: a first entry, and others that clash with it  *)
(* in nothing, in one thing at a time, or in the runtime tuple for other   *)
(* GPUs or another toolkit.                                                *)
(***************************************************************************)
EXTENDS WheelOutput

CONSTANTS cu128, cu130, wheel1, wheel2, torch1, torch2, g1, g2, g3

MCEntry(id, asset, runtime, torchCuda, cuda, gpus) ==
    [id |-> id, asset |-> asset, runtime |-> runtime, torchCuda |-> torchCuda,
     cuda |-> cuda, gpus |-> gpus]

MCMatrix ==
    {MCEntry(cu128, wheel1, torch1, 128, 128, {g1, g2}),
     MCEntry(cu130, wheel2, torch1, 130, 130, {g1, g2}),    \* in nothing
     MCEntry(cu130, wheel2, torch2, 128, 128, {g1}),        \* in nothing
     MCEntry(cu128, wheel2, torch2, 130, 130, {g1, g2}),    \* the build id
     MCEntry(cu130, wheel1, torch2, 130, 130, {g1, g2}),    \* the asset
     MCEntry(cu130, wheel2, torch1, 128, 128, {g2}),        \* the runtime tuple
     MCEntry(cu130, wheel2, torch1, 128, 130, {g1, g2})}    \* the runtime tuple

MCGpus == {g1, g2, g3}      \* g3 is in no entry

=============================================================================
