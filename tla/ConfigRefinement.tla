--------------------------- MODULE ConfigRefinement ---------------------------
(***************************************************************************)
(* ConfigStore keeps the promise of ConfigRegister.                        *)
(***************************************************************************)
EXTENDS ConfigStore

\* What load() takes from an image (Configs::load, Configs::migrate).
Found(image) ==
    IF Version(image) = CONFIG_VERSION /\ Sound(image, Size) THEN ReadV3(image)
    ELSE Migrated(image)

Register == INSTANCE ConfigRegister
    WITH Configurations <- {c \in [Keys -> Int] : IsConfig(c)},
         value  <- IF powered THEN config ELSE Found(eeprom),
         on     <- powered,
         flying <- state \in {MAN_FLIGHT, AUTO_FLIGHT}

\* Between two writes every boot finds the same configuration, through whichever
\* layout; in flight nothing changes it; and a write cut short at any byte, over
\* any layout and repeatedly, leaves one whose values are all accepted
\* (Configs::load, setBatch, save).
ImplementsRegister == Register!Spec
=============================================================================
