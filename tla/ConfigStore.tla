---------------------------- MODULE ConfigStore ----------------------------
(***************************************************************************)
(* The persistent configuration (src/configs.cpp): the copy in RAM, its    *)
(* image in the EEPROM, and the boots, updates and power losses that move  *)
(* one to the other.                                                       *)
(*                                                                         *)
(* The EEPROM is modelled byte by byte because the three layouts overlap   *)
(* and EEPROM.put() replaces one by another from the lowest address up:    *)
(* the power may fail after any byte.  Only loop() reads or writes the     *)
(* image, so a put is one step, whole or cut short.                        *)
(***************************************************************************)
EXTENDS DroneStates, Sequences

CONSTANTS
    Owners,      \* configurations that earlier firmware may have saved
    Updates      \* the batches of <<key, value>> that CONFIG packets carry

\* Configs::apply: the values each key accepts.
Bool == 0..1
Accepted == [debugMode |-> Bool, usbRelayEnabled |-> Bool, radioEnabled |-> Bool,
             skipRadioHandshake |-> Bool, txPowerDbm |-> 14..20,
             gimbalPitchOffset |-> 60..120, gimbalYawOffset |-> 60..120,
             motor1offset |-> -100..100, motor2offset |-> -100..100,
             gyroEnabled |-> Bool]
Keys == DOMAIN Accepted
IsConfig(c) == c \in [Keys -> Int] /\ \A key \in Keys : c[key] \in Accepted[key]

\* ConfigUpdate; a packet may name a key that there is not.
ConfigUpdate == [key : STRING, value : Int]

ASSUME ConfigAssumptions ==
    /\ \A owner \in Owners : IsConfig(owner)
    /\ Updates \subseteq Seq(ConfigUpdate)

VARIABLES
    config,     \* the copy in RAM; the defaults stand for it while off
    eeprom,     \* the twenty bytes from EEPROM_ADDRESS on
    powered,    \* the vehicle is on and load() has returned
    state,      \* Drone::getState(), as far as configs.cpp asks
    genuine,    \* history: the configurations that the puts since the last
                \* whole one were to replace or to store
    cut         \* history: the last put was cut short

vars == <<config, eeprom, powered, state, genuine, cut>>

-----------------------------------------------------------------------------
(* Images. *)

Size == 20
Magic == <<69, 82, 69, 65>>           \* CONFIG_MAGIC, lowest byte first
CONFIG_VERSION == 3

\* Little-endian words, and two's complement.
Word(n) == <<n % 256, (n \div 256) % 256>>
SignedByte(n) == <<n % 256>>
Signed(n, half) == IF n < half THEN n ELSE n - 2 * half
WordAt(image, offset) == image[offset + 1] + 256 * image[offset + 2]
TrimAt(image, offset) == Signed(WordAt(image, offset), 128 * 256)
SignedAt(image, offset) == Signed(image[offset + 1], 128)

\* The sum of the bytes, in 16 bits.
ByteSum(bytes) ==
    LET sum[i \in 0..Len(bytes)] ==
            IF i = 0 THEN 0 ELSE (sum[i - 1] + bytes[i]) % (256 * 256)
    IN  sum[Len(bytes)]

\* checksum(): the crc field counts as zero.
Checksum(image, size) ==
    ByteSum([i \in 1..size |-> IF i \in {7, 8} THEN 0 ELSE image[i]])

Trims(c) == Word(c.gimbalPitchOffset) \o Word(c.gimbalYawOffset)
            \o SignedByte(c.motor1offset) \o SignedByte(c.motor2offset)

\* PersistentConfigV1, PersistentConfigV2 and PersistentConfig, packed.
FieldsV1(c) == <<c.txPowerDbm, c.usbRelayEnabled, c.radioEnabled,
                 c.skipRadioHandshake>> \o Trims(c)
FieldsV2(c) == <<c.debugMode, c.usbRelayEnabled, c.radioEnabled,
                 c.skipRadioHandshake, c.txPowerDbm>> \o Trims(c)
FieldsV3(c) == FieldsV2(c) \o <<c.gyroEnabled>>

\* save(): the image of a configuration, with its checksum.
Layout(version, crc, fields) == Magic \o Word(version) \o Word(crc) \o fields
Image(version, fields) == Layout(version, ByteSum(Layout(version, 0, fields)), fields)
Stored(c) == Image(CONFIG_VERSION, FieldsV3(c))

\* The bytes an image does not cover are those of an erased EEPROM.
Padded(image) == [i \in 1..Size |-> IF i <= Len(image) THEN image[i] ELSE 255]

defaults == [debugMode |-> 0, usbRelayEnabled |-> 1, radioEnabled |-> 1,
             skipRadioHandshake |-> 1, txPowerDbm |-> 20,
             gimbalPitchOffset |-> 90, gimbalYawOffset |-> 89,
             motor1offset |-> 0, motor2offset |-> 0, gyroEnabled |-> 1]

Version(image) == WordAt(image, 4)

\* Mutant: the checksum of the image is not looked at.
SoundByMagic(image, size) == \A i \in 1..4 : image[i] = Magic[i]

\* Magic and checksum are right under a layout of that size.
Sound(image, size) ==
    /\ \A i \in 1..4 : image[i] = Magic[i]
    /\ WordAt(image, 6) = Checksum(image, size)

\* Mutant: the fields of version 1 are looked for where version 2 has them.
ReadV1AsV2(image) ==
    [debugMode |-> defaults.debugMode, usbRelayEnabled |-> image[10],
     radioEnabled |-> image[11], skipRadioHandshake |-> image[12],
     txPowerDbm |-> image[13],
     gimbalPitchOffset |-> TrimAt(image, 13), gimbalYawOffset |-> TrimAt(image, 15),
     motor1offset |-> SignedAt(image, 17), motor2offset |-> SignedAt(image, 18),
     gyroEnabled |-> defaults.gyroEnabled]

\* migrate(): the fields of an old image carried over, defaults for the rest.
ReadV1(image) ==
    [debugMode |-> defaults.debugMode, usbRelayEnabled |-> image[10],
     radioEnabled |-> image[11], skipRadioHandshake |-> image[12],
     txPowerDbm |-> image[9],
     gimbalPitchOffset |-> TrimAt(image, 12), gimbalYawOffset |-> TrimAt(image, 14),
     motor1offset |-> SignedAt(image, 16), motor2offset |-> SignedAt(image, 17),
     gyroEnabled |-> defaults.gyroEnabled]

\* Versions 2 and 3 have the same fields up to gyroEnabled.
ReadFields(image, gyro) ==
    [debugMode |-> image[9], usbRelayEnabled |-> image[10],
     radioEnabled |-> image[11], skipRadioHandshake |-> image[12],
     txPowerDbm |-> image[13],
     gimbalPitchOffset |-> TrimAt(image, 13), gimbalYawOffset |-> TrimAt(image, 15),
     motor1offset |-> SignedAt(image, 17), motor2offset |-> SignedAt(image, 18),
     gyroEnabled |-> gyro]

ReadV2(image) == ReadFields(image, defaults.gyroEnabled)
ReadV3(image) == ReadFields(image, image[20])

Migrated(image) ==
    IF Version(image) = 2 /\ Sound(image, 19) THEN ReadV2(image)
    ELSE IF Version(image) = 1 /\ Sound(image, 18) THEN ReadV1(image)
    ELSE defaults

-----------------------------------------------------------------------------
(* Steps. *)

\* What an owner's configuration becomes under the present version.
Upgraded(owner, version) ==
    CASE version = 1 -> [owner EXCEPT !.debugMode = defaults.debugMode,
                                      !.gyroEnabled = defaults.gyroEnabled]
      [] version = 2 -> [owner EXCEPT !.gyroEnabled = defaults.gyroEnabled]
      [] version = 3 -> owner

\* The vehicle is off, its EEPROM erased or written by any of the versions.
Init ==
    /\ config = defaults
    /\ powered = FALSE
    /\ state = BOOT
    /\ cut = FALSE
    /\ \/ eeprom = Padded(<<>>) /\ genuine = {defaults}
       \/ \E owner \in Owners, version \in 1..3 :
             /\ genuine = {Upgraded(owner, version)}
             /\ eeprom = Padded(Image(version,
                             CASE version = 1 -> FieldsV1(owner)
                               [] version = 2 -> FieldsV2(owner)
                               [] version = 3 -> FieldsV3(owner)))

\* EEPROM.put() writes the image of c ...
PutWhole(c) ==
    /\ config' = c
    /\ eeprom' = Stored(c)
    /\ genuine' = {c} /\ cut' = FALSE
    /\ UNCHANGED state

\* ... or the power fails after `written` of its bytes.
PutCutShort(c) ==
    \E written \in 0..Size - 1 :
        /\ eeprom' = SubSeq(Stored(c), 1, written) \o SubSeq(eeprom, written + 1, Size)
        /\ genuine' = genuine \union {c} /\ cut' = TRUE
        /\ config' = defaults
        /\ state' = BOOT

\* save(), which its callers reach outside flight only.
Save(c) == \/ powered' = TRUE /\ PutWhole(c)
           \/ powered' = FALSE /\ PutCutShort(c)

\* load(): a sound image of the present version is taken as it is ...
LoadCurrent ==
    /\ ~powered
    /\ Version(eeprom) = CONFIG_VERSION /\ Sound(eeprom, Size)
    /\ config' = ReadV3(eeprom)
    /\ powered' = TRUE
    /\ genuine' = {config'} /\ cut' = FALSE
    /\ UNCHANGED <<eeprom, state>>

\* ... any other is migrated, or replaced by the defaults, and saved.
LoadOther ==
    /\ ~powered
    /\ ~(Version(eeprom) = CONFIG_VERSION /\ Sound(eeprom, Size))
    /\ Save(Migrated(eeprom))

\* Mutant: only the autonomous flight is looked at.
InAutoFlight == state = AUTO_FLIGHT

\* set(), setBatch() and save() refuse in flight.
InFlight == state \in {MAN_FLIGHT, AUTO_FLIGHT}

\* Mutant: the range of a value is not checked.
ApplyUnchecked(c, update) ==
    IF update.key \in Keys THEN [c EXCEPT ![update.key] = update.value] ELSE c

\* apply(): an unknown key or an invalid value changes nothing.
ApplyOne(c, update) ==
    IF update.key \in Keys /\ update.value \in Accepted[update.key]
    THEN [c EXCEPT ![update.key] = update.value]
    ELSE c

\* The loop of setBatch(): the configuration after each of the updates.
Applied(c, updates) ==
    LET after[i \in 0..Len(updates)] ==
            IF i = 0 THEN c ELSE ApplyOne(after[i - 1], updates[i])
    IN  after

\* Mutant: whether to save is decided by the last update alone.
LastChanged(c, updates) ==
    LET last == Len(updates)
    IN  Applied(c, updates)[last] # Applied(c, updates)[last - 1]

\* anyChanged: some update of the batch changed the value it found.
AnyChanged(c, updates) ==
    \E i \in 1..Len(updates) :
        Applied(c, updates)[i] # Applied(c, updates)[i - 1]

\* setBatch() for a CONFIG packet over USB, set() for one over the radio.
Change(updates) ==
    /\ powered
    /\ ~InFlight
    /\ LET new == Applied(config, updates)[Len(updates)]
       IN  IF AnyChanged(config, updates)
           THEN Save(new)
           ELSE /\ config' = new
                /\ UNCHANGED <<eeprom, powered, state, genuine, cut>>

\* The vehicle's state changes under FlightCore's rules.
ChangeState ==
    /\ powered
    /\ state' \in {SAFE, READY_ARMED, MAN_FLIGHT}
    /\ UNCHANGED <<config, eeprom, powered, genuine, cut>>

PowerOff ==
    /\ powered
    /\ powered' = FALSE
    /\ config' = defaults
    /\ state' = BOOT
    /\ UNCHANGED <<eeprom, genuine, cut>>

Next ==
    \/ LoadCurrent
    \/ LoadOther
    \/ \E updates \in Updates : Change(updates)
    \/ ChangeState
    \/ PowerOff

Spec == Init /\ [][Next]_vars

-----------------------------------------------------------------------------
(* Properties. *)

\* The RAM copy holds accepted values only, whichever image it came from: the
\* motors and the gimbal add its trims without looking at them again.
TypeOK ==
    /\ IsConfig(config) /\ \A c \in genuine : IsConfig(c)
    /\ Len(eeprom) = Size /\ \A i \in 1..Size : eeprom[i] \in 0..255
    /\ powered \in BOOLEAN /\ cut \in BOOLEAN
    /\ state \in States

\* Whatever batches came, whichever of their updates were refused or changed
\* nothing, and whichever layout was found at boot: the image in the EEPROM is
\* that of the configuration in use (Configs::setBatch saves once, at its end).
StoreMatchesRam == powered => eeprom = Stored(config)

\* A boot that no power failure preceded or interrupted finds what was in force
\* before it, through any of the three layouts (Configs::load and migrate).
SurvivesRestart ==
    [][~powered /\ powered' /\ ~cut => config' \in genuine]_vars

\* A boot takes over a configuration that was in force or about to be, or the
\* defaults, even when EEPROM.put was cut short at any byte, repeatedly: what the
\* checksum in Configs::load is for.
LoadedIsGenuine ==
    [][~powered /\ powered' => config' \in genuine \union {defaults}]_vars

=============================================================================
