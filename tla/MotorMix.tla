------------------------------ MODULE MotorMix ------------------------------
(***************************************************************************)
(* The arithmetic of Motor::setMotor (src/motor.cpp): from a commanded     *)
(* throttle byte and the signed trim of that motor to the pulse width sent *)
(* to its ESC and to the set speed that telemetry reports.                 *)
(***************************************************************************)
EXTENDS Integers

ESC_MIN_US      == 1000   \* armed and stopped
ESC_MIN_RUNNING == 1333   \* slowest pulse that turns the motor
ESC_MAX_US      == 2000

Throttle == 0..255
Trim     == -128..127     \* Configs: int8_t motor1offset, motor2offset
EscPulse == {ESC_MIN_US} \union ESC_MIN_RUNNING..ESC_MAX_US

Clamp(x) == IF x < 0 THEN 0 ELSE IF x > 255 THEN 255 ELSE x

\* Mutant: the sum is not clamped.
TrimmedUnclamped(throttle, trim) == throttle + trim

\* Mutant: the sum is taken in the byte it is stored in.
TrimmedInByte(throttle, trim) == (throttle + trim) % 256

\* The trimmed throttle, added in signed arithmetic and clamped afterwards.
Trimmed(throttle, trim) == Clamp(throttle + trim)

\* The pulse of a motor whose output is permitted.  The idle test is on the
\* command as received, before the trim.
Pulse(throttle, trim) ==
    IF throttle = 0
    THEN ESC_MIN_US
    ELSE ESC_MIN_RUNNING
           + (Trimmed(throttle, trim) * (ESC_MAX_US - ESC_MIN_RUNNING)) \div 255

\* What topSetSpeed / bottomSetSpeed are assigned when output is permitted.
SetSpeed(throttle, trim) == Trimmed(throttle, trim)
=============================================================================
