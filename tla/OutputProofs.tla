---------------------------- MODULE OutputProofs ----------------------------
(***************************************************************************)
(* What the motors and the servos are sent, proved for every throttle and  *)
(* trim, and for the setpoints that GimbalMix tells apart.                 *)
(***************************************************************************)
EXTENDS OutputSweep, TLAPS

\* Scaling by 667 and dividing by 255 keeps the order of throttles.
LEMMA ScaleMonotone ==
    ASSUME NEW a \in 0..255, NEW b \in 0..255, a <= b
    PROVE  (a * 667) \div 255 <= (b * 667) \div 255
  <1> DEFINE p == (a * 667) \div 255
             q == (b * 667) \div 255
  <1>1. /\ p \in Int /\ q \in Int
        /\ 255 * p <= a * 667
        /\ b * 667 < 255 * q + 255
    OBVIOUS
  <1>2. a * 667 <= b * 667
    OBVIOUS
  <1>3. 255 * p < 255 * (q + 1)
    <2> HIDE DEF p, q
    <2>1. QED BY <1>1, <1>2
  <1>4. QED
    <2> HIDE DEF p, q
    <2>1. p < q + 1
      BY <1>1, <1>3
    <2>2. p <= q
      BY <1>1, <2>1
    <2>3. QED BY <2>2 DEF p, q

\* Clamping keeps the order of sums.
LEMMA TrimmedMonotone ==
    ASSUME NEW s \in Throttle, NEW t \in Throttle, s <= t,
           NEW x \in Trim, NEW y \in Trim, x <= y
    PROVE  /\ Trimmed(s, x) \in 0..255 /\ Trimmed(t, y) \in 0..255
           /\ Trimmed(s, x) <= Trimmed(t, y)
  BY DEF Throttle, Trim, Trimmed, Clamp

\* The stop pulse is below every running pulse, so the idle test keeps the
\* order too.
LEMMA PulseOrder ==
    ASSUME NEW s \in Throttle, NEW t \in Throttle, s <= t,
           NEW x \in Trim, NEW y \in Trim, x <= y
    PROVE  Pulse(s, x) <= Pulse(t, y)
  <1> DEFINE a == Trimmed(s, x)
             b == Trimmed(t, y)
             p == (a * 667) \div 255
             q == (b * 667) \div 255
  <1>1. a \in 0..255 /\ b \in 0..255 /\ a <= b
    BY TrimmedMonotone
  <1>2. p <= q /\ p \in 0..667 /\ q \in 0..667
    <2> HIDE DEF a, b
    <2>1. p <= q
      BY <1>1, ScaleMonotone
    <2>2. p \in 0..667 /\ q \in 0..667
      BY <1>1
    <2>3. QED BY <2>1, <2>2
  <1>3. /\ Pulse(s, x) = IF s = 0 THEN 1000 ELSE 1333 + p
        /\ Pulse(t, y) = IF t = 0 THEN 1000 ELSE 1333 + q
    BY DEF Pulse, ESC_MIN_US, ESC_MIN_RUNNING, ESC_MAX_US
  <1> HIDE DEF p, q
  <1>4. CASE s = 0
    BY <1>2, <1>3, <1>4
  <1>5. CASE s # 0
    <2>1. t # 0
      BY <1>5 DEF Throttle
    <2>2. QED BY <1>2, <1>3, <1>5, <2>1
  <1>6. QED BY <1>4, <1>5

\* Over every history of throttles and trims, no step that raises either slows
\* the motor (setMotor(), motor.cpp:41-69).
THEOREM ThrottleMonotone == Spec => PulseMonotone
  <1> DEFINE InRange == throttle \in Throttle /\ trim \in Trim
             Kept == throttle' >= throttle /\ trim' >= trim =>
                         Pulse(throttle', trim') >= Pulse(throttle, trim)
  <1>1. Init => InRange
    BY DEF Init, Throttle, Trim
  <1>2. InRange /\ [Next]_vars => InRange'
    BY DEF Next, MoveThrottle, MoveTrim, vars
  <1>3. InRange /\ InRange' => Kept
    <2> SUFFICES ASSUME InRange, InRange', throttle' >= throttle, trim' >= trim
                 PROVE  Pulse(throttle', trim') >= Pulse(throttle, trim)
      OBVIOUS
    <2>1. throttle <= throttle' /\ trim <= trim'
      BY DEF Throttle, Trim
    <2>2. Pulse(throttle, trim) <= Pulse(throttle', trim')
      BY <2>1, PulseOrder
    <2>3. QED BY <2>2
  <1>4. InRange /\ InRange' => [Kept]_vars
    BY <1>3
  <1>5. QED
    BY <1>1, <1>2, <1>4, PTL DEF Spec, PulseMonotone

\* The same holds while the COMMANDs that move the motor come with others that
\* move the gimbal: moving a setpoint leaves the motor alone, so every behaviour
\* of the sweep is one of the motor by itself (drone.cpp:369-372).
THEOREM SweepMonotone == SweepSpec => PulseMonotone
  <1>1. SweepInit => Init
    BY DEF SweepInit
  <1>2. [SweepNext]_sweep => [Next]_vars
    BY DEF SweepNext, SweepMotor, MovePitch, MoveYaw, sweep, vars
  <1>3. SweepSpec => Spec
    BY <1>1, <1>2, PTL DEF SweepSpec, Spec
  <1>4. QED
    BY <1>3, ThrottleMonotone

-----------------------------------------------------------------------------
(* The gimbal: cells and fractions. *)

Fifths == 0..CELL
ServoMaps == [Indices -> [Indices -> Int]]

LEMMA TablesTyped == topServoMap \in ServoMaps /\ bottomServoMap \in ServoMaps
  BY DEF ServoMaps, topServoMap, bottomServoMap, Indices

\* A setpoint in degrees, but for the two ends of the int16 exactly.
LEMMA DegreesOf ==
    ASSUME NEW x \in Command
    PROVE  /\ Degrees(x) \in -LAST..LAST
           /\ \/ x = INT16_PER_DEGREE * Degrees(x)
              \/ x = -32768 /\ Degrees(x) = -LAST
              \/ x = 32767 /\ Degrees(x) = LAST
  <1>1. ASSUME NEW d \in -LAST..LAST, x = INT16_PER_DEGREE * d
        PROVE  Degrees(x) = d
    BY <1>1 DEF Degrees, Limit, LAST, INT16_PER_DEGREE
  <1>2. x = -32768 => Degrees(x) = -LAST
    BY DEF Degrees, Limit, LAST, INT16_PER_DEGREE
  <1>3. x = 32767 => Degrees(x) = LAST
    BY DEF Degrees, Limit, LAST, INT16_PER_DEGREE
  <1>4. LAST \in Nat
    BY DEF LAST
  <1>5. QED
    BY <1>1, <1>2, <1>3, <1>4 DEF Command

\* The cell of a setpoint and the fraction of it that the setpoint is at.
LEMMA CellOf ==
    ASSUME NEW d \in -LAST..LAST
    PROVE  /\ Cell(d) \in Indices /\ Cell(d) + 1 \in Indices
           /\ d - Knot(Cell(d)) \in Fifths
           /\ d - Knot(Cell(d)) = CELL => d = LAST
           /\ Knot(Cell(d) + 1) = Knot(Cell(d)) + CELL
  BY DEF Cell, Limit, Knot, Indices, Fifths, CELL, LAST

LEMMA EnclosingLower ==
    ASSUME NEW x \in Command, Degrees(x) - Knot(Cell(Degrees(x))) < CELL
    PROVE  Cell(Degrees(x)) \in Enclosing(x)
  BY DegreesOf, CellOf DEF Enclosing, Indices, Fifths, CELL, LAST, INT16_PER_DEGREE, Knot

LEMMA EnclosingUpper ==
    ASSUME NEW x \in Command, Degrees(x) - Knot(Cell(Degrees(x))) > 0
    PROVE  Cell(Degrees(x)) + 1 \in Enclosing(x)
  BY DegreesOf, CellOf DEF Enclosing, Indices, Fifths, CELL, LAST, INT16_PER_DEGREE, Knot

\* An interpolated value lies between those it weighs.
LEMMA Between ==
    ASSUME NEW t \in Fifths, NEW a \in Int, NEW b \in Int,
           NEW low \in Int, NEW high \in Int,
           t < CELL => low <= a /\ a <= high,
           t > 0 => low <= b /\ b <= high
    PROVE  /\ CELL * low <= CELL * a + t * (b - a)
           /\ CELL * a + t * (b - a) <= CELL * high
  <1>1. t = 0 \/ t = 1 \/ t = 2 \/ t = 3 \/ t = 4 \/ t = 5
    BY DEF Fifths, CELL
  <1>2. CASE t = 0
    BY <1>2 DEF CELL
  <1>3. CASE t = 1
    BY <1>3 DEF CELL
  <1>4. CASE t = 2
    BY <1>4 DEF CELL
  <1>5. CASE t = 3
    BY <1>5 DEF CELL
  <1>6. CASE t = 4
    BY <1>6 DEF CELL
  <1>7. CASE t = 5
    BY <1>7 DEF CELL
  <1>8. QED
    BY <1>1, <1>2, <1>3, <1>4, <1>5, <1>6, <1>7

\* The entries that enclose a setpoint are those of its cell.
LEMMA EnclosingWithin ==
    ASSUME NEW x \in Command, NEW i \in Enclosing(x)
    PROVE  i \in Indices /\ i \in {Cell(Degrees(x)), Cell(Degrees(x)) + 1}
  BY DegreesOf, CellOf DEF Enclosing, Indices, Fifths, CELL, LAST, INT16_PER_DEGREE, Knot

LEMMA EnclosingSome ==
    ASSUME NEW x \in Command
    PROVE  Enclosing(x) # {}
  <1>1. CASE Degrees(x) - Knot(Cell(Degrees(x))) < CELL
    BY <1>1, EnclosingLower
  <1>2. CASE Degrees(x) - Knot(Cell(Degrees(x))) > 0
    BY <1>2, EnclosingUpper
  <1>3. Degrees(x) - Knot(Cell(Degrees(x))) \in Fifths
    BY DegreesOf, CellOf
  <1>4. QED
    BY <1>1, <1>2, <1>3 DEF Fifths, CELL

LEMMA InterpolatedBetween ==
    ASSUME NEW map \in ServoMaps, NEW p \in Command, NEW y \in Command,
           NEW low \in Int, NEW high \in Int,
           \A r \in Enclosing(y), c \in Enclosing(p) :
               low <= map[r][c] /\ map[r][c] <= high
    PROVE  LET value == Interpolated(map, Degrees(p), Degrees(y))
           IN  /\ value \in Int
               /\ CELL * (CELL * low) <= value /\ value <= CELL * (CELL * high)
  <1> DEFINE row == Cell(Degrees(y))
             column == Cell(Degrees(p))
             u == Degrees(y) - Knot(row)
             t == Degrees(p) - Knot(column)
             AlongRow(r) == CELL * map[r][column]
                              + t * (map[r][column + 1] - map[r][column])
  <1>1. /\ row \in Indices /\ row + 1 \in Indices /\ u \in Fifths
        /\ column \in Indices /\ column + 1 \in Indices /\ t \in Fifths
    BY DegreesOf, CellOf
  <1>2. /\ u < CELL => row \in Enclosing(y)
        /\ u > 0 => row + 1 \in Enclosing(y)
        /\ t < CELL => column \in Enclosing(p)
        /\ t > 0 => column + 1 \in Enclosing(p)
    BY EnclosingLower, EnclosingUpper
  <1>3. Interpolated(map, Degrees(p), Degrees(y))
            = CELL * AlongRow(row) + u * (AlongRow(row + 1) - AlongRow(row))
    BY DEF Interpolated
  <1> HIDE DEF row, column, u, t
  <1>4. ASSUME NEW r \in Indices
        PROVE  /\ AlongRow(r) \in Int
               /\ r \in Enclosing(y) => CELL * low <= AlongRow(r) /\ AlongRow(r) <= CELL * high
    <2>1. map[r][column] \in Int /\ map[r][column + 1] \in Int
      BY <1>1 DEF ServoMaps
    <2>2. t \in Int /\ CELL \in Int
      BY <1>1 DEF Fifths, CELL
    <2>3. AlongRow(r) \in Int
      BY <2>1, <2>2
    <2>4. ASSUME r \in Enclosing(y)
          PROVE  CELL * low <= AlongRow(r) /\ AlongRow(r) <= CELL * high
      <3>1. /\ t < CELL => low <= map[r][column] /\ map[r][column] <= high
            /\ t > 0 => low <= map[r][column + 1] /\ map[r][column + 1] <= high
        BY <1>2, <2>4
      <3>2. QED
        BY <1>1, <2>1, <3>1, Between
    <2>5. QED
      BY <2>3, <2>4
  <1> HIDE DEF AlongRow
  <1>5. /\ u < CELL => CELL * low <= AlongRow(row) /\ AlongRow(row) <= CELL * high
        /\ u > 0 => CELL * low <= AlongRow(row + 1) /\ AlongRow(row + 1) <= CELL * high
    BY <1>1, <1>2, <1>4
  <1>6. AlongRow(row) \in Int /\ AlongRow(row + 1) \in Int
    BY <1>1, <1>4
  <1>7. CELL * low \in Int /\ CELL * high \in Int /\ u \in Int /\ CELL \in Int
    BY <1>1 DEF CELL, Fifths
  <1> DEFINE value == CELL * AlongRow(row) + u * (AlongRow(row + 1) - AlongRow(row))
  <1>8. CELL * (CELL * low) <= value /\ value <= CELL * (CELL * high)
    BY <1>1, <1>5, <1>6, <1>7, Between
  <1>9. value \in Int
    BY <1>6, <1>7
  <1>10. QED
    BY <1>3, <1>8, <1>9

-----------------------------------------------------------------------------
(* From the interpolated value to the angle. *)

\* Rounding and limiting keep the order of angles.
LEMMA CommandedMonotone ==
    ASSUME NEW a \in Int, NEW b \in Int, a <= b, NEW o \in Offset
    PROVE  /\ Commanded(a, o) \in 60..120 /\ Commanded(b, o) \in 60..120
           /\ Commanded(a, o) <= Commanded(b, o)
  <1> DEFINE p == (a + SCALE * o) \div SCALE
             q == (b + SCALE * o) \div SCALE
  <1>1. SCALE = 25000 /\ o \in Int
    BY DEF SCALE, CELL, MILLI, Offset
  <1>2. p \in Int /\ q \in Int /\ p <= q
    BY <1>1
  <1> HIDE DEF p, q
  <1>3. Limit(p, 60, 120) <= Limit(q, 60, 120)
    BY <1>2 DEF Limit
  <1>4. Limit(p, 60, 120) \in 60..120 /\ Limit(q, 60, 120) \in 60..120
    BY <1>2 DEF Limit
  <1>5. QED
    BY <1>3, <1>4 DEF Commanded, p, q

\* Empty, or with a least and a greatest element.
Bounded(S) ==
    S # {} => /\ \E m \in S : \A x \in S : m <= x
              /\ \E m \in S : \A x \in S : m >= x

LEMMA OneMore ==
    ASSUME NEW S \in SUBSET Int, Bounded(S), NEW T, NEW e \in Int
    PROVE  S \union (T \intersect {e}) \in SUBSET Int /\ Bounded(S \union (T \intersect {e}))
  <1>1. CASE S = {}
    BY <1>1 DEF Bounded
  <1>2. CASE e \notin T
    <2>1. S \union (T \intersect {e}) = S
      BY <1>2
    <2>2. QED
      BY <2>1
  <1>3. CASE S # {} /\ e \in T
    <2>1. S \union (T \intersect {e}) = S \union {e}
      BY <1>3
    <2>2. PICK low \in S, high \in S : \A x \in S : low <= x /\ high >= x
      BY <1>3 DEF Bounded
    <2>3. low \in Int /\ high \in Int
      OBVIOUS
    <2>4. \E m \in S \union {e} : \A x \in S \union {e} : m <= x
      <3>1. CASE low <= e
        BY <2>2, <2>3, <3>1
      <3>2. CASE e <= low
        <4>1. \A x \in S \union {e} : e <= x
          BY <2>2, <2>3, <3>2
        <4>2. QED
          BY <4>1
      <3>3. QED
        BY <2>3, <3>1, <3>2
    <2>5. \E m \in S \union {e} : \A x \in S \union {e} : m >= x
      <3>1. CASE high >= e
        BY <2>2, <2>3, <3>1
      <3>2. CASE e >= high
        <4>1. \A x \in S \union {e} : e >= x
          BY <2>2, <2>3, <3>2
        <4>2. QED
          BY <4>1
      <3>3. QED
        BY <2>3, <3>1, <3>2
    <2>6. QED
      BY <2>1, <2>4, <2>5 DEF Bounded
  <1>4. QED
    BY <1>1, <1>2, <1>3

LEMMA Extremes ==
    ASSUME NEW S, NEW a \in Int, NEW b \in Int, NEW c \in Int, NEW d \in Int,
           S \subseteq {a, b, c, d}, S # {}
    PROVE  /\ Min(S) \in S /\ \A x \in S : Min(S) <= x
           /\ Max(S) \in S /\ \A x \in S : x <= Max(S)
  <1> DEFINE A == {} \union (S \intersect {a})
             B == A \union (S \intersect {b})
             C == B \union (S \intersect {c})
             D == C \union (S \intersect {d})
  <1>1. {} \in SUBSET Int /\ Bounded({})
    BY DEF Bounded
  <1>2. A \in SUBSET Int /\ Bounded(A)
    BY <1>1, OneMore
  <1>3. B \in SUBSET Int /\ Bounded(B)
    <2> HIDE DEF A
    <2>1. QED
      BY <1>2, OneMore
  <1>4. C \in SUBSET Int /\ Bounded(C)
    <2> HIDE DEF B
    <2>1. QED
      BY <1>3, OneMore
  <1>5. D \in SUBSET Int /\ Bounded(D)
    <2> HIDE DEF C
    <2>1. QED
      BY <1>4, OneMore
  <1>6. S = D
    OBVIOUS
  <1>7. S \in SUBSET Int /\ Bounded(S)
    BY <1>5, <1>6
  <1>8. Min(S) \in S /\ \A x \in S : Min(S) <= x
    BY <1>7 DEF Min, Bounded
  <1>9. Max(S) \in S /\ \A x \in S : Max(S) >= x
    BY <1>7 DEF Max, Bounded
  <1>10. QED
    BY <1>7, <1>8, <1>9

-----------------------------------------------------------------------------
(* The outputs. *)

\* The value that the tables give for each enclosing pair of setpoints.
Corners(sign, map, p, y) ==
    {sign * CELL * CELL * map[r][c] : r \in Enclosing(y), c \in Enclosing(p)}

LEMMA CornersBounded ==
    ASSUME NEW sign \in {1, -1}, NEW map \in ServoMaps, NEW p \in Command, NEW y \in Command
    PROVE  LET S == Corners(sign, map, p, y)
           IN  /\ S \in SUBSET Int
               /\ Min(S) \in S /\ \A x \in S : Min(S) <= x
               /\ Max(S) \in S /\ \A x \in S : x <= Max(S)
  <1> DEFINE row == Cell(Degrees(y))
             column == Cell(Degrees(p))
             Value(r, c) == sign * CELL * CELL * map[r][c]
             S == {Value(r, c) : r \in Enclosing(y), c \in Enclosing(p)}
  <1>1. row \in Indices /\ row + 1 \in Indices /\ column \in Indices /\ column + 1 \in Indices
    BY DegreesOf, CellOf
  <1>2. \A r \in Enclosing(y) : r \in Indices /\ r \in {row, row + 1}
    BY EnclosingWithin
  <1>3. \A c \in Enclosing(p) : c \in Indices /\ c \in {column, column + 1}
    BY EnclosingWithin
  <1>4. Enclosing(y) # {} /\ Enclosing(p) # {}
    BY EnclosingSome
  <1> HIDE DEF row, column
  <1>5. ASSUME NEW r \in Indices, NEW c \in Indices PROVE Value(r, c) \in Int
    <2>1. map[r][c] \in Int /\ sign \in Int /\ CELL \in Int
      BY DEF ServoMaps, CELL
    <2>2. QED
      BY <2>1
  <1> HIDE DEF Value
  <1>6. S \subseteq {Value(row, column), Value(row, column + 1),
                     Value(row + 1, column), Value(row + 1, column + 1)}
    BY <1>2, <1>3
  <1>7. S # {}
    BY <1>4
  <1>8. S \in SUBSET Int
    BY <1>2, <1>3, <1>5
  <1>9. /\ Value(row, column) \in Int /\ Value(row, column + 1) \in Int
        /\ Value(row + 1, column) \in Int /\ Value(row + 1, column + 1) \in Int
    BY <1>1, <1>5
  <1> HIDE DEF S
  <1>10. /\ Min(S) \in S /\ \A x \in S : Min(S) <= x
         /\ Max(S) \in S /\ \A x \in S : x <= Max(S)
    BY <1>6, <1>7, <1>9, Extremes
  <1>11. S = Corners(sign, map, p, y)
    BY DEF S, Value, Corners
  <1>12. QED
    BY <1>8, <1>10, <1>11

LEMMA WithinCorners ==
    ASSUME NEW sign \in {1, -1}, NEW map \in ServoMaps, NEW p \in Command, NEW y \in Command
    PROVE  LET S == Corners(sign, map, p, y)
               value == sign * Interpolated(map, Degrees(p), Degrees(y))
           IN  /\ Interpolated(map, Degrees(p), Degrees(y)) \in Int
               /\ value \in Int /\ Min(S) <= value /\ value <= Max(S)
  <1> DEFINE S == Corners(sign, map, p, y)
             value == Interpolated(map, Degrees(p), Degrees(y))
  <1>1. /\ S \in SUBSET Int
        /\ Min(S) \in S /\ \A x \in S : Min(S) <= x
        /\ Max(S) \in S /\ \A x \in S : x <= Max(S)
    BY CornersBounded
  <1>2. /\ \A r \in Enclosing(y), c \in Enclosing(p) : sign * CELL * CELL * map[r][c] \in S
        /\ \A x \in S : \E r \in Enclosing(y), c \in Enclosing(p) :
               x = sign * CELL * CELL * map[r][c]
    BY DEF Corners
  <1>3. \A r \in Enclosing(y), c \in Enclosing(p) : map[r][c] \in Int
    BY EnclosingWithin DEF ServoMaps
  <1> HIDE DEF S
  <1>4. PICK r1 \in Enclosing(y), c1 \in Enclosing(p) :
            Min(S) = sign * CELL * CELL * map[r1][c1]
    BY <1>1, <1>2
  <1>5. PICK r2 \in Enclosing(y), c2 \in Enclosing(p) :
            Max(S) = sign * CELL * CELL * map[r2][c2]
    BY <1>1, <1>2
  <1> DEFINE m1 == map[r1][c1]
             m2 == map[r2][c2]
  <1>6. m1 \in Int /\ m2 \in Int
    BY <1>3
  <1>7. \A r \in Enclosing(y), c \in Enclosing(p) :
            /\ sign * CELL * CELL * m1 <= sign * CELL * CELL * map[r][c]
            /\ sign * CELL * CELL * map[r][c] <= sign * CELL * CELL * m2
    BY <1>1, <1>2, <1>4, <1>5
  <1>8. Min(S) = sign * CELL * CELL * m1 /\ Max(S) = sign * CELL * CELL * m2
    BY <1>4, <1>5
  <1> HIDE DEF m1, m2
  <1>9. CASE sign = 1
    <2>1. \A r \in Enclosing(y), c \in Enclosing(p) : m1 <= map[r][c] /\ map[r][c] <= m2
      BY <1>3, <1>6, <1>7, <1>9 DEF CELL
    <2>2. /\ value \in Int
          /\ CELL * (CELL * m1) <= value /\ value <= CELL * (CELL * m2)
      BY <1>6, <2>1, InterpolatedBetween
    <2> HIDE DEF value
    <2>3. QED
      BY <1>6, <1>8, <1>9, <2>2 DEF CELL, value, S
  <1>10. CASE sign = -1
    <2>1. \A r \in Enclosing(y), c \in Enclosing(p) : m2 <= map[r][c] /\ map[r][c] <= m1
      BY <1>3, <1>6, <1>7, <1>10 DEF CELL
    <2>2. /\ value \in Int
          /\ CELL * (CELL * m2) <= value /\ value <= CELL * (CELL * m1)
      BY <1>6, <2>1, InterpolatedBetween
    <2> HIDE DEF value
    <2>3. QED
      BY <1>6, <1>8, <1>10, <2>2 DEF CELL, value, S
  <1>11. QED
    BY <1>9, <1>10

\* What the sweep moves, and within which bounds.
SweepInv ==
    /\ pitch \in Command /\ yaw \in Command
    /\ offset.pitch \in Offset /\ offset.yaw \in Offset

LEMMA SweepInvariant == SweepSpec => []SweepInv
  <1>1. SweepInit => SweepInv
    BY OffsetsAssumption DEF SweepInit, SweepInv, Command, INT16_PER_DEGREE, LAST
  <1>2. SweepInv /\ [SweepNext]_sweep => SweepInv'
    BY DEF SweepInv, SweepNext, SweepMotor, MovePitch, MoveYaw, Beside, sweep, gimbal
  <1>3. QED
    BY <1>1, <1>2, PTL DEF SweepSpec

LEMMA AngleEnclosed ==
    ASSUME NEW sign \in {1, -1}, NEW map \in ServoMaps, NEW o \in Offset, SweepInv
    PROVE  LET angle == Commanded(sign * Interpolated(map, Degrees(pitch), Degrees(yaw)), o)
           IN  angle \in 60..120 /\ Enclosed(angle, sign, map, o)
  <1> DEFINE S == Corners(sign, map, pitch, yaw)
             value == sign * Interpolated(map, Degrees(pitch), Degrees(yaw))
  <1>1. pitch \in Command /\ yaw \in Command
    BY DEF SweepInv
  <1>2. S \in SUBSET Int /\ Min(S) \in S /\ Max(S) \in S
    BY <1>1, CornersBounded
  <1>3. value \in Int /\ Min(S) <= value /\ value <= Max(S)
    BY <1>1, WithinCorners
  <1>4. Enclosed(Commanded(value, o), sign, map, o)
            <=> /\ Commanded(Min(S), o) <= Commanded(value, o)
                /\ Commanded(value, o) <= Commanded(Max(S), o)
    BY DEF Enclosed, Corners
  <1> HIDE DEF S, value
  <1>5. Min(S) \in Int /\ Max(S) \in Int
    BY <1>2
  <1>6. /\ Commanded(value, o) \in 60..120
        /\ Commanded(Min(S), o) <= Commanded(value, o)
        /\ Commanded(value, o) <= Commanded(Max(S), o)
    BY <1>3, <1>5, CommandedMonotone
  <1>7. QED
    BY <1>4, <1>6 DEF value

LEMMA AnglesEnclosed == SweepInv => TypeOK /\ WithinTableCell
  <1> SUFFICES ASSUME SweepInv PROVE TypeOK /\ WithinTableCell
    OBVIOUS
  <1>1. TopAngle \in 60..120 /\ Enclosed(TopAngle, 1, topServoMap, offset.pitch)
    <2> DEFINE value == Interpolated(topServoMap, Degrees(pitch), Degrees(yaw))
    <2>1. LET angle == Commanded(1 * value, offset.pitch)
          IN  angle \in 60..120 /\ Enclosed(angle, 1, topServoMap, offset.pitch)
      BY TablesTyped, AngleEnclosed DEF SweepInv
    <2>2. value \in Int
      BY TablesTyped, WithinCorners DEF SweepInv
    <2>3. TopAngle = Commanded(value, offset.pitch)
      BY DEF TopAngle, topServo
    <2> HIDE DEF value
    <2>4. 1 * value = value
      BY <2>2
    <2>5. QED
      BY <2>1, <2>3, <2>4
  <1>2. BottomAngle \in 60..120 /\ Enclosed(BottomAngle, -1, bottomServoMap, offset.yaw)
    <2> DEFINE value == Interpolated(bottomServoMap, Degrees(pitch), Degrees(yaw))
    <2>1. LET angle == Commanded((-1) * value, offset.yaw)
          IN  angle \in 60..120 /\ Enclosed(angle, -1, bottomServoMap, offset.yaw)
      BY TablesTyped, AngleEnclosed DEF SweepInv
    <2>2. value \in Int
      BY TablesTyped, WithinCorners DEF SweepInv
    <2>3. BottomAngle = Commanded(-value, offset.yaw)
      BY DEF BottomAngle, bottomServo
    <2> HIDE DEF value
    <2>4. (-1) * value = -value
      BY <2>2
    <2>5. QED
      BY <2>1, <2>3, <2>4
  <1>3. QED
    BY <1>1, <1>2 DEF TypeOK, WithinTableCell, SweepInv

\* Neither servo is ever sent beyond its mechanical range (gimbal.cpp:87, 106),
\* with any trim that a CONFIG packet can set.
THEOREM ServosInRange == SweepSpec => []TypeOK
  BY SweepInvariant, AnglesEnclosed, PTL

\* A servo is always sent to an angle between those the tables give for the
\* setpoints that enclose the commanded one (Gimbal::set(), gimbal.cpp:124-170),
\* with any trim that a CONFIG packet can set.
THEOREM ServosFollowTables == SweepSpec => []WithinTableCell
  BY SweepInvariant, AnglesEnclosed, PTL
=============================================================================
