---------------------------- MODULE MCConfigStore ----------------------------
(* Bounded instances of ConfigStore. *)
EXTENDS ConfigRefinement

Set(k, v) == [key |-> k, value |-> v]

\* One vehicle with every field away from its default.
TrimmedOwner == [debugMode |-> 1, usbRelayEnabled |-> 0, radioEnabled |-> 0,
                 skipRadioHandshake |-> 0, txPowerDbm |-> 17,
                 gimbalPitchOffset |-> 84, gimbalYawOffset |-> 97,
                 motor1offset |-> -7, motor2offset |-> 100, gyroEnabled |-> 0]
\* One with trims whose bytes differ by as much as trims can.
SkewedOwner == [defaults EXCEPT !.motor1offset = 3, !.motor2offset = 0]
AllOwners == {TrimmedOwner, SkewedOwner}

\* Changes of one value, back and forth, and batches with a refused value and
\* with a last update that changes nothing.
SingleUpdates ==
    {<<Set("motor1offset", -1)>>, <<Set("motor1offset", 0)>>,
     <<Set("gimbalPitchOffset", 60)>>, <<Set("gyroEnabled", 0)>>,
     <<Set("txPowerDbm", 30), Set("debugMode", 1), Set("debugMode", 1)>>,
     <<Set("debugMode", 0), Set("motor2offset", 101), Set("unknown", 0)>>}

\* A batch that moves a trim from one motor to the other besides another change.
BalancedUpdates ==
    {<<Set("gimbalPitchOffset", 92), Set("motor1offset", 0),
       Set("motor2offset", 3)>>}
=============================================================================
