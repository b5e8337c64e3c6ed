--------------------------- MODULE MipDriveProofs ---------------------------
(***************************************************************************)
(* Theorems about MipDrive, for every set of integer arguments.             *)
(***************************************************************************)
EXTENDS MipDrive, TLAPS, SequenceTheorems

(* The robot reads from the first parameter the speed it was made from. *)
LEMMA LinearRoundTrip ==
    ASSUME NEW v \in Int
    PROVE  VParam(v) \in 0..255 /\ ReadV(Byte(VParam(v))) = clamp(v, -64, 64)
<1> DEFINE c == clamp(v, -64, 64)
<1>1. c \in -64..64
  BY DEF clamp
<1>2. VParam(v) = IF c > 32 THEN 96 + c ELSE IF c >= 0 THEN c
                  ELSE IF c >= -32 THEN 32 - c ELSE 128 - c
  BY DEF VParam
<1> HIDE DEF c
<1>3. VParam(v) \in 0..255 /\ Byte(VParam(v)) = VParam(v)
  BY <1>1, <1>2 DEF Byte
<1>4. ReadV(VParam(v)) = c
  <2>1. CASE c > 32
    BY <2>1, <1>1, <1>2 DEF ReadV
  <2>2. CASE c \in 0..32
    BY <2>2, <1>1, <1>2 DEF ReadV
  <2>3. CASE c \in -32..(-1)
    BY <2>3, <1>1, <1>2 DEF ReadV
  <2>4. CASE c < -32
    BY <2>4, <1>1, <1>2 DEF ReadV
  <2> QED BY <1>1, <2>1, <2>2, <2>3, <2>4
<1> QED BY <1>3, <1>4 DEF c

LEMMA AngularRoundTrip ==
    ASSUME NEW w \in Int
    PROVE  WParam(w) \in 0..255 /\ ReadW(Byte(WParam(w))) = clamp(w, -64, 63)
<1> DEFINE c == clamp(w, -64, 63)
<1>1. c \in -64..63
  BY DEF clamp
<1>2. WParam(w) = IF c > 32 THEN 192 + c ELSE IF c > 0 THEN 96 + c ELSE IF c = 0 THEN 0
                  ELSE IF c >= -32 THEN 64 - c ELSE 160 - c
  BY DEF WParam
<1> HIDE DEF c
<1>3. WParam(w) \in 0..255 /\ Byte(WParam(w)) = WParam(w)
  BY <1>1, <1>2 DEF Byte
<1>4. ReadW(WParam(w)) = c
  <2>1. CASE c > 32
    BY <2>1, <1>1, <1>2 DEF ReadW
  <2>2. CASE c \in 1..32
    BY <2>2, <1>1, <1>2 DEF ReadW
  <2>3. CASE c = 0
    BY <2>3, <1>1, <1>2 DEF ReadW
  <2>4. CASE c \in -32..(-1)
    BY <2>4, <1>1, <1>2 DEF ReadW
  <2>5. CASE c < -32
    BY <2>5, <1>1, <1>2 DEF ReadW
  <2> QED BY <1>1, <2>1, <2>2, <2>3, <2>4, <2>5
<1> QED BY <1>3, <1>4 DEF c

LEMMA DriveOrderFits ==
    ASSUME NEW v \in Int, NEW w \in Int
    PROVE  /\ DriveOrder(v, w).params = <<VParam(v), WParam(w)>>
           /\ \A j \in DOMAIN DriveOrder(v, w).params : DriveOrder(v, w).params[j] \in 0..255
<1>1. VParam(v) \in 0..255 /\ WParam(w) \in 0..255
  BY LinearRoundTrip, AngularRoundTrip
<1>2. DriveOrder(v, w).params = <<VParam(v), WParam(w)>>
  BY DEF DriveOrder, Order
<1> QED BY <1>1, <1>2

(* The loops of rad2deg_norm end inside the boundaries, a turn or more apart.  *)
LEMMA NormRange ==
    ASSUME NEW deg \in Int, NEW min \in Int, NEW max \in Int, min + 360 <= max
    PROVE  /\ rad2deg_norm(deg, min, max) \in Int
           /\ min <= rad2deg_norm(deg, min, max) /\ rad2deg_norm(deg, min, max) < max
<1>1. CASE deg < min
  <2> DEFINE k == (min - deg + 359) \div 360
  <2>1. k \in Int /\ 360 * k <= min - deg + 359 /\ min - deg + 359 < 360 * k + 360
    OBVIOUS
  <2>2. rad2deg_norm(deg, min, max) = deg + 360 * k
    BY <1>1 DEF rad2deg_norm
  <2> HIDE DEF k
  <2> QED BY <1>1, <2>1, <2>2
<1>2. CASE deg >= max
  <2> DEFINE k == (deg - max) \div 360
  <2>1. k \in Int /\ 360 * k <= deg - max /\ deg - max < 360 * k + 360
    OBVIOUS
  <2>2. rad2deg_norm(deg, min, max) = deg - 360 * (k + 1)
    BY <1>2 DEF rad2deg_norm
  <2> HIDE DEF k
  <2> QED BY <1>2, <2>1, <2>2
<1>3. CASE ~ (deg < min) /\ ~ (deg >= max)
  BY <1>3 DEF rad2deg_norm
<1> QED BY <1>1, <1>2, <1>3

LEMMA DistanceFits ==
    ASSUME NEW cm \in Int, NEW deg \in Int
    PROVE  \A j \in 1..5 : DistanceParams(cm, deg)[j] \in 0..255
<1> DEFINE turn == rad2deg_norm(deg, -360, 360)
<1>1. turn \in -360..359
  <2>1. -360 \in Int /\ 360 \in Int /\ -360 + 360 <= 360
    OBVIOUS
  <2>2. turn \in Int /\ -360 <= turn /\ turn < 360
    BY <2>1, NormRange
  <2> QED BY <2>2
<1> HIDE DEF turn
<1>2. Abs(turn) \in 0..360
  BY <1>1 DEF Abs
<1>3. Abs(turn) \div 256 \in 0..255 /\ Abs(turn) % 256 \in 0..255
  BY <1>2
<1>4. clamp(Abs(cm), 0, 255) \in 0..255
  BY DEF clamp, Abs
<1>5. DistanceParams(cm, deg) =
        << IF cm < 0 THEN 1 ELSE 0, clamp(Abs(cm), 0, 255),
           IF turn < 0 THEN 1 ELSE 0, Abs(turn) \div 256, Abs(turn) % 256 >>
  BY DEF DistanceParams, turn
<1> QED BY <1>3, <1>4, <1>5

LEMMA AngleFits ==
    ASSUME NEW deg \in Int, NEW speed \in Int
    PROVE  \A j \in 1..2 : AngleOrder(deg, speed).params[j] \in 0..255
<1> DEFINE turn == rad2deg_norm(deg, -1275, 1275)
<1>1. turn \in -1275..1274
  <2>1. -1275 \in Int /\ 1275 \in Int /\ -1275 + 360 <= 1275
    OBVIOUS
  <2>2. turn \in Int /\ -1275 <= turn /\ turn < 1275
    BY <2>1, NormRange
  <2> QED BY <2>2
<1> HIDE DEF turn
<1>2. Abs(turn) \in 0..1275
  BY <1>1 DEF Abs
<1>3. Abs(turn) \div 5 \in 0..255
  BY <1>2
<1>4. clamp(Abs(speed), 0, 24) \in 0..255
  BY DEF clamp, Abs
<1>5. AngleOrder(deg, speed).params = <<Abs(turn) \div 5, clamp(Abs(speed), 0, 24)>>
  BY DEF AngleOrder, Order, turn
<1> QED BY <1>3, <1>4, <1>5

(* The loops of rad2deg_norm go whole turns.                                *)
LEMMA NormTurns ==
    ASSUME NEW deg \in Int, NEW min \in Int, NEW max \in Int
    PROVE  \E k \in Int : rad2deg_norm(deg, min, max) = deg + 360 * k
<1>1. CASE deg < min
  <2>1. (min - deg + 359) \div 360 \in Int
    OBVIOUS
  <2> QED BY <1>1, <2>1 DEF rad2deg_norm
<1>2. CASE ~ (deg < min) /\ deg >= max
  <2> DEFINE k == (deg - max) \div 360
  <2>1. k \in Int
    OBVIOUS
  <2>2. rad2deg_norm(deg, min, max) = deg - 360 * (k + 1)
    BY <1>2 DEF rad2deg_norm
  <2> HIDE DEF k
  <2>3. -(k + 1) \in Int /\ rad2deg_norm(deg, min, max) = deg + 360 * (-(k + 1))
    BY <2>1, <2>2
  <2> QED BY <2>3
<1>3. CASE ~ (deg < min) /\ ~ (deg >= max)
  <2>1. rad2deg_norm(deg, min, max) = deg + 360 * 0
    BY <1>3 DEF rad2deg_norm
  <2> QED BY <2>1
<1> QED BY <1>1, <1>2, <1>3

(* A whole number of turns more or less is the same angle. *)
LEMMA SameAngle ==
    ASSUME NEW k \in Int, NEW r \in 0..359 PROVE (r - 360 * k) % 360 = r
OBVIOUS

(* The direction and the two bytes of the angle of distance_drive. *)
LEMMA DistanceTurn ==
    ASSUME NEW cm \in Int, NEW deg \in Int
    PROVE  LET p == DistanceParams(cm, deg)
           IN  (deg - (1 - 2 * p[3]) * (256 * p[4] + p[5])) % 360 = 0
<1> DEFINE turn == rad2deg_norm(deg, -360, 360)
           p == DistanceParams(cm, deg)
<1>1. -360 \in Int /\ 360 \in Int /\ -360 + 360 <= 360
  OBVIOUS
<1>2. turn \in Int /\ -360 <= turn /\ turn < 360
  BY <1>1, NormRange
<1>0. \E k \in Int : turn = deg + 360 * k
  <2> DEFINE Turns(lo, hi) == \E k \in Int : rad2deg_norm(deg, lo, hi) = deg + 360 * k
  <2>1. \A lo, hi \in Int : Turns(lo, hi)
    BY NormTurns
  <2> HIDE DEF Turns
  <2>2. Turns(-360, 360)
    BY <1>1, <2>1
  <2> QED BY <2>2 DEF Turns
<1> HIDE DEF turn
<1>3. PICK k \in Int : turn = deg + 360 * k
  BY <1>0
<1> USE DEF turn
<1>4. /\ p[3] = (IF turn < 0 THEN 1 ELSE 0)
      /\ p[4] = Abs(turn) \div 256 /\ p[5] = Abs(turn) % 256
  BY DEF DistanceParams
<1> HIDE DEF turn, p
<1>5. Abs(turn) \in 0..360 /\ Abs(turn) = (IF turn < 0 THEN -turn ELSE turn)
  BY <1>2 DEF Abs
<1>6. 256 * p[4] + p[5] = Abs(turn)
  BY <1>4, <1>5
<1>7. (1 - 2 * p[3]) * (256 * p[4] + p[5]) = turn
  <2>1. CASE turn < 0
    <3>1. 1 - 2 * p[3] = -1
      BY <1>4, <2>1
    <3> QED BY <1>2, <1>5, <1>6, <2>1, <3>1
  <2>2. CASE ~ (turn < 0)
    <3>1. 1 - 2 * p[3] = 1
      BY <1>4, <2>2
    <3> QED BY <1>2, <1>5, <1>6, <2>2, <3>1
  <2> QED BY <2>1, <2>2
<1>8. deg - turn = 0 - 360 * k
  BY <1>2, <1>3
<1>9. (0 - 360 * k) % 360 = 0
  BY SameAngle
<1> QED BY <1>7, <1>8, <1>9 DEF p

(* The direction of angle_drive, and its steps of 5 degrees. *)
LEMMA AngleTurn ==
    ASSUME NEW deg \in Int, NEW speed \in Int
    PROVE  LET order == AngleOrder(deg, speed)
               sign == IF order.cmd = "TURN_LEFT_BY_ANGLE" THEN -1 ELSE 1
           IN  (sign * deg - 5 * order.params[1]) % 360 \in 0..4
<1> DEFINE turn == rad2deg_norm(deg, -1275, 1275)
           order == AngleOrder(deg, speed)
           sign == IF order.cmd = "TURN_LEFT_BY_ANGLE" THEN -1 ELSE 1
           steps == order.params[1]
<1>1. -1275 \in Int /\ 1275 \in Int /\ -1275 + 360 <= 1275
  OBVIOUS
<1>2. turn \in Int /\ -1275 <= turn /\ turn < 1275
  BY <1>1, NormRange
<1>0. \E k \in Int : turn = deg + 360 * k
  <2> DEFINE Turns(lo, hi) == \E k \in Int : rad2deg_norm(deg, lo, hi) = deg + 360 * k
  <2>1. \A lo, hi \in Int : Turns(lo, hi)
    BY NormTurns
  <2> HIDE DEF Turns
  <2>2. Turns(-1275, 1275)
    BY <1>1, <2>1
  <2> QED BY <2>2 DEF Turns
<1> HIDE DEF turn
<1>3. PICK k \in Int : turn = deg + 360 * k
  BY <1>0
<1> USE DEF turn
<1>4. sign = (IF turn < 0 THEN -1 ELSE 1) /\ steps = Abs(turn) \div 5
  <2>1. "TURN_LEFT_BY_ANGLE" # "TURN_RIGHT_BY_ANGLE"
    OBVIOUS
  <2> QED BY <2>1 DEF AngleOrder, Order
<1> HIDE DEF turn, steps, sign
<1>5. Abs(turn) \in 0..1275 /\ Abs(turn) = sign * turn
  BY <1>2, <1>4 DEF Abs
<1>6. PICK r \in 0..4 : Abs(turn) = 5 * steps + r
  <2> DEFINE a == Abs(turn)
  <2>1. a \in 0..1275 /\ steps = a \div 5
    BY <1>4, <1>5
  <2> HIDE DEF a
  <2>2. a % 5 \in 0..4 /\ a = (5 * steps) + (a % 5)
    BY <2>1
  <2>3. \E r \in 0..4 : a = (5 * steps) + r
    BY <2>2
  <2> QED BY <2>3 DEF a
<1>7. steps \in Int
  BY <1>4, <1>5
<1>8. PICK m \in Int : sign * deg - 5 * steps = r - 360 * m
  <2>1. CASE sign = -1
    <3>1. Abs(turn) = -turn
      BY <1>2, <1>5, <2>1
    <3>2. -deg - 5 * steps = r - 360 * (-k)
      BY <1>2, <1>3, <1>6, <1>7, <3>1
    <3>3. sign * deg = -deg /\ -k \in Int
      BY <2>1
    <3>4. sign * deg - 5 * steps = r - 360 * (-k)
      BY <3>2, <3>3
    <3>5. \A m \in Int : sign * deg - 5 * steps = r - 360 * m =>
             \E n \in Int : sign * deg - 5 * steps = r - 360 * n
      BY Zenon
    <3> QED BY <3>3, <3>4, Zenon
  <2>2. CASE sign = 1
    <3>1. deg - 5 * steps = r - 360 * k
      BY <1>2, <1>3, <1>5, <1>6, <1>7, <2>2
    <3>2. sign * deg = deg
      BY <2>2
    <3> QED BY <3>1, <3>2
  <2> QED BY <1>4, <2>1, <2>2
<1>9. (r - 360 * m) % 360 = r
  BY SameAngle
<1>10. (sign * deg - 5 * steps) % 360 \in 0..4
  BY <1>8, <1>9
<1> QED BY <1>10 DEF steps, sign

(* What one call of continuous_drive sends. *)
LEMMA DriveOrdersCases ==
    ASSUME NEW v \in Int, NEW w \in Int
    PROVE  \/ DriveOrders(v, w) = <<DriveOrder(v, w)>>
           \/ DriveOrders(v, w) = <<DriveOrder(-v, w), DriveOrder(v, w)>> /\ Slower(v, last_v)
           \/ DriveOrders(v, w) = <<DriveOrder(v, -w), DriveOrder(v, w)>> /\ Slower(w, last_w)
<1>1. ASSUME NEW a, NEW b PROVE <<a>> \o <<b>> = <<a, b>> /\ <<>> \o <<b>> = <<b>>
  <2>1. <<a>> \in Seq({a, b}) /\ <<b>> \in Seq({a, b}) /\ <<a, b>> \in Seq({a, b})
    OBVIOUS
  <2>2. /\ <<a>> \o <<b>> \in Seq({a, b}) /\ Len(<<a>> \o <<b>>) = 2
        /\ (<<a>> \o <<b>>)[1] = a /\ (<<a>> \o <<b>>)[2] = b
    BY <2>1
  <2>3. <<a>> \o <<b>> = <<a, b>>
    <3> DEFINE s == <<a>> \o <<b>>
               t == <<a, b>>
    <3>1. Len(t) = 2 /\ t[1] = a /\ t[2] = b
      OBVIOUS
    <3>2. s \in Seq({a, b}) /\ t \in Seq({a, b}) /\ Len(s) = 2 /\ s[1] = a /\ s[2] = b
      BY <2>1, <2>2
    <3> HIDE DEF s, t
    <3>3. Len(s) = Len(t) /\ \A i \in 1..Len(s) : s[i] = t[i]
      BY <3>1, <3>2
    <3>4. s = t
      BY <3>2, <3>3, SeqEqual
    <3> QED BY <3>4 DEF s, t
  <2>4. <<>> \o <<b>> = <<b>>
    BY <2>1, ConcatEmptySeq
  <2> QED BY <2>3, <2>4
<1>2. CASE Slower(v, last_v)
  BY <1>1, <1>2 DEF DriveOrders
<1>3. CASE ~ Slower(v, last_v) /\ Slower(w, last_w)
  BY <1>1, <1>3 DEF DriveOrders
<1>4. CASE ~ Slower(v, last_v) /\ ~ Slower(w, last_w)
  BY <1>1, <1>4 DEF DriveOrders
<1> QED BY <1>2, <1>3, <1>4

LEMMA DriveOrdersFit ==
    ASSUME NEW v \in Int, NEW w \in Int
    PROVE  /\ \A i \in DOMAIN DriveOrders(v, w) : \A j \in DOMAIN DriveOrders(v, w)[i].params :
                 DriveOrders(v, w)[i].params[j] \in 0..255
           /\ DriveOrders(v, w)[Len(DriveOrders(v, w))] = DriveOrder(v, w)
<1> DEFINE Fits(order) == \A j \in DOMAIN order.params : order.params[j] \in 0..255
<1>1. -v \in Int /\ -w \in Int
  OBVIOUS
<1>2. Fits(DriveOrder(v, w)) /\ Fits(DriveOrder(-v, w)) /\ Fits(DriveOrder(v, -w))
  BY <1>1, DriveOrderFits
<1> HIDE DEF Fits
<1>3. ASSUME NEW a, Fits(a), NEW b, Fits(b), NEW s, s \in {<<b>>, <<a, b>>}
      PROVE  (\A i \in DOMAIN s : Fits(s[i])) /\ s[Len(s)] = b
  <2>1. CASE s = <<b>>
    BY <1>3, <2>1
  <2>2. CASE s = <<a, b>>
    BY <1>3, <2>2
  <2> QED BY <1>3, <2>1, <2>2
<1>4. \/ DriveOrders(v, w) = <<DriveOrder(v, w)>>
      \/ DriveOrders(v, w) = <<DriveOrder(-v, w), DriveOrder(v, w)>>
      \/ DriveOrders(v, w) = <<DriveOrder(v, -w), DriveOrder(v, w)>>
  BY DriveOrdersCases
<1>5. /\ \A i \in DOMAIN DriveOrders(v, w) : Fits(DriveOrders(v, w)[i])
      /\ DriveOrders(v, w)[Len(DriveOrders(v, w))] = DriveOrder(v, w)
  BY <1>2, <1>3, <1>4
<1> QED BY <1>5 DEF Fits

----------------------------------------------------------------------------
(* The inductive invariant.  BrakesToSlow needs what tracking stands for.     *)

Tracks == tracking => robot.v = last_v /\ robot.w = last_w

DriveInv == TypeOK /\ SpeedAsAsked /\ Tracks

LEMMA ContinuousDriveInv ==
    ASSUME DriveInv, NEW v \in VTicks, NEW w \in WTicks, continuous_drive(v, w)
    PROVE  DriveInv'
<1>1. v \in Int /\ w \in Int
  BY DriveInputs
<1>2. robot' = [v |-> clamp(v, -64, 64), w |-> clamp(w, -64, 63)]
  <2>1. sent'[Len(sent')].params = <<VParam(v), WParam(w)>>
    BY <1>1, DriveOrdersFit, DriveOrderFits DEF continuous_drive
  <2> QED BY <2>1, <1>1, LinearRoundTrip, AngularRoundTrip DEF continuous_drive, Obeys
<1>3. TypeOK'
  <2>1. ParamsFit'
    <3>1. PICK s : s = DriveOrders(v, w)
      OBVIOUS
    <3>2. \A i \in DOMAIN s : \A j \in DOMAIN s[i].params : s[i].params[j] \in 0..255
      <4>1. \A i \in DOMAIN DriveOrders(v, w) : \A j \in DOMAIN DriveOrders(v, w)[i].params :
               DriveOrders(v, w)[i].params[j] \in 0..255
        BY <1>1, DriveOrdersFit
      <4> QED BY <3>1, <4>1
    <3>3. sent' = s
      BY <3>1 DEF continuous_drive
    <3> QED BY <3>2, <3>3 DEF ParamsFit
  <2>2. robot'.v \in -64..64 /\ robot'.w \in -64..63
    BY <1>1, <1>2 DEF clamp
  <2>3. tracking' \in BOOLEAN
    BY DEF continuous_drive
  <2>4. last_v' \in VTicks \cup {0} /\ last_w' \in WTicks \cup {0}
    BY DEF continuous_drive
  <2> QED BY <2>1, <2>2, <2>3, <2>4 DEF TypeOK
<1>4. SpeedAsAsked'
  BY <1>2 DEF SpeedAsAsked, continuous_drive
<1>5. Tracks'
  <2> SUFFICES ASSUME tracking' PROVE robot'.v = last_v' /\ robot'.w = last_w'
    BY DEF Tracks
  <2>1. v \in -64..64 /\ w \in -64..63
    BY DEF continuous_drive
  <2> QED BY <1>2, <2>1 DEF continuous_drive, clamp
<1> QED BY <1>3, <1>4, <1>5 DEF DriveInv

LEMMA OneOrderInv ==
    ASSUME DriveInv, NEW order, NEW call, OneOrder(order, call), call.call # "continuous",
           \A j \in DOMAIN order.params : order.params[j] \in 0..255
    PROVE  DriveInv'
<1>1. TypeOK'
  <2>1. ParamsFit'
    BY DEF OneOrder, ParamsFit
  <2>2. robot'.v = 0 /\ robot'.w = 0 /\ tracking' = FALSE /\ last_v' = last_v /\ last_w' = last_w
    BY DEF OneOrder
  <2>3. tracking' \in BOOLEAN
    BY <2>2
  <2>4. robot'.v \in -64..64 /\ robot'.w \in -64..63
    BY <2>2
  <2>5. last_v' \in VTicks \cup {0} /\ last_w' \in WTicks \cup {0}
    BY <2>2 DEF DriveInv, TypeOK
  <2> QED BY <2>1, <2>3, <2>4, <2>5 DEF TypeOK
<1>2. SpeedAsAsked' /\ Tracks'
  BY DEF OneOrder, SpeedAsAsked, Tracks
<1> QED BY <1>1, <1>2 DEF DriveInv

LEMMA DriveNext == ASSUME DriveInv, [Next]_vars PROVE DriveInv'
<1>1. ASSUME NEW v \in VTicks, NEW w \in WTicks, continuous_drive(v, w) PROVE DriveInv'
  BY <1>1, ContinuousDriveInv
<1>2. ASSUME NEW cm \in Distances, NEW deg \in Angles, distance_drive(cm, deg) PROVE DriveInv'
  <2>1. cm \in Int /\ deg \in Int
    BY DriveInputs
  <2> DEFINE order == Order("DISTANCE_DRIVE", DistanceParams(cm, deg))
             call == [call |-> "distance", args |-> <<cm, deg>>]
  <2>2. DOMAIN DistanceParams(cm, deg) = 1..5
    BY DEF DistanceParams
  <2>3. \A j \in DOMAIN order.params : order.params[j] \in 0..255
    BY <2>1, <2>2, DistanceFits DEF Order
  <2>4. OneOrder(order, call) /\ call.call # "continuous"
    BY <1>2 DEF distance_drive
  <2> QED BY <2>3, <2>4, OneOrderInv
<1>3. ASSUME NEW speed \in Speeds, NEW ms \in Times, time_drive(speed, ms) PROVE DriveInv'
  <2>1. speed \in Int /\ ms \in Int /\ ms \div 7 \in Int
    BY DriveInputs
  <2>2. /\ clamp(speed, 0, 30) \in 0..255 /\ clamp(-speed, 0, 30) \in 0..255
        /\ clamp(ms \div 7, 0, 255) \in 0..255
    BY <2>1 DEF clamp
  <2> DEFINE call == [call |-> "time", args |-> <<speed, ms>>]
  <2>3. PICK order : /\ OneOrder(order, call)
                     /\ \/ order.params = <<clamp(speed, 0, 30), clamp(ms \div 7, 0, 255)>>
                        \/ order.params = <<clamp(-speed, 0, 30), clamp(ms \div 7, 0, 255)>>
    BY <1>3 DEF time_drive, Order
  <2>4. \A j \in DOMAIN order.params : order.params[j] \in 0..255
    BY <2>2, <2>3
  <2>5. call.call # "continuous"
    OBVIOUS
  <2> QED BY <2>3, <2>4, <2>5, OneOrderInv
<1>4. ASSUME NEW deg \in Angles, NEW speed \in Speeds, angle_drive(deg, speed) PROVE DriveInv'
  <2>1. deg \in Int /\ speed \in Int
    BY DriveInputs
  <2>2. DOMAIN AngleOrder(deg, speed).params = 1..2
    BY DEF AngleOrder, Order
  <2>3. \A j \in DOMAIN AngleOrder(deg, speed).params : AngleOrder(deg, speed).params[j] \in 0..255
    BY <2>1, <2>2, AngleFits
  <2> DEFINE call == [call |-> "angle", args |-> <<deg, speed>>]
  <2>4. OneOrder(AngleOrder(deg, speed), call) /\ call.call # "continuous"
    BY <1>4 DEF angle_drive
  <2> QED BY <2>3, <2>4, OneOrderInv
<1>5. CASE stop
  <2> DEFINE order == Order("STOP", <<>>)
             call == [call |-> "stop", args |-> <<>>]
  <2>1. \A j \in DOMAIN order.params : order.params[j] \in 0..255
    <3>1. order.params = <<>>
      BY DEF Order
    <3>2. DOMAIN <<>> = {}
      OBVIOUS
    <3> QED BY <3>1, <3>2
  <2>2. OneOrder(order, call) /\ call.call # "continuous"
    BY <1>5 DEF stop
  <2> QED BY <2>1, <2>2, OneOrderInv
<1>6. CASE UNCHANGED vars
  BY <1>6 DEF vars, DriveInv, TypeOK, ParamsFit, SpeedAsAsked, Tracks
<1> QED BY <1>1, <1>2, <1>3, <1>4, <1>5, <1>6 DEF Next

(* DriveInv holds of every sequence of drive orders. *)
THEOREM DriveInductive == Spec => []DriveInv
<1>1. Init => DriveInv
  BY DEF Init, DriveInv, TypeOK, ParamsFit, SpeedAsAsked, Tracks
<1>2. DriveInv /\ [Next]_vars => DriveInv'
  BY DriveNext
<1> QED BY <1>1, <1>2, PTL DEF Spec

(* Whatever integers the drive orders are given, each parameter fits its byte. *)
THEOREM BytesFit == Spec => []TypeOK
<1>1. DriveInv => TypeOK
  BY DEF DriveInv
<1> QED BY <1>1, DriveInductive, PTL

(* Whatever ticks continuous_drive() is given, the robot reads from the bytes  *)
(* the speeds asked for, cut to its range, also when a reverse went before.  *)
THEOREM DriveFaithful == Spec => []SpeedAsAsked
<1>1. DriveInv => SpeedAsAsked
  BY DEF DriveInv
<1> QED BY <1>1, DriveInductive, PTL

(* As long as the last ticks are those the robot was told, a reverse is sent   *)
(* only to a robot that is to go slower. *)
THEOREM ReverseBrakes == Spec => BrakesToSlow
<1> DEFINE Brakes == tracking /\ Len(sent') = 2 =>
                        Abs(robot'.v) < Abs(robot.v) \/ Abs(robot'.w) < Abs(robot.w)
<1>1. ASSUME DriveInv, NEW v \in VTicks, NEW w \in WTicks, continuous_drive(v, w), tracking,
             Len(sent') = 2
      PROVE  Abs(robot'.v) < Abs(robot.v) \/ Abs(robot'.w) < Abs(robot.w)
  <2>1. v \in Int /\ w \in Int /\ last_v \in -64..64 /\ last_w \in -64..63
    BY <1>1, DriveInputs DEF DriveInv, Tracks, TypeOK
  <2>2. Slower(v, last_v) \/ Slower(w, last_w)
    <3>1. DriveOrders(v, w) = <<DriveOrder(v, w)>> => Len(DriveOrders(v, w)) = 1
      OBVIOUS
    <3>2. Len(DriveOrders(v, w)) = 2
      BY <1>1 DEF continuous_drive
    <3>3. DriveOrders(v, w) # <<DriveOrder(v, w)>>
      BY <3>1, <3>2
    <3> QED BY <2>1, <3>3, DriveOrdersCases
  <2>3. robot.v = last_v /\ robot.w = last_w
    BY <1>1 DEF DriveInv, Tracks
  <2>4. robot'.v = clamp(v, -64, 64) /\ robot'.w = clamp(w, -64, 63)
    BY <1>1, ContinuousDriveInv DEF DriveInv, SpeedAsAsked, continuous_drive
  <2>5. Slower(v, last_v) => Abs(clamp(v, -64, 64)) < Abs(last_v)
    BY <2>1 DEF Slower, Abs, clamp
  <2>6. Slower(w, last_w) => Abs(clamp(w, -64, 63)) < Abs(last_w)
    BY <2>1 DEF Slower, Abs, clamp
  <2> QED BY <2>2, <2>3, <2>4, <2>5, <2>6
<1>2. ASSUME DriveInv, Next PROVE Brakes
  <2>1. ASSUME NEW order, NEW call, OneOrder(order, call) PROVE Len(sent') # 2
    BY <2>1 DEF OneOrder
  <2>2. \/ \E v \in VTicks, w \in WTicks : continuous_drive(v, w)
        \/ \E order, call : OneOrder(order, call)
    BY <1>2 DEF Next, distance_drive, time_drive, angle_drive, stop
  <2>3. CASE \E v \in VTicks, w \in WTicks : continuous_drive(v, w)
    BY <1>1, <1>2, <2>3
  <2>4. CASE \E order, call : OneOrder(order, call)
    BY <2>1, <2>4
  <2> QED BY <2>2, <2>3, <2>4
<1>3. DriveInv /\ [Next]_vars => [Brakes]_vars
  BY <1>2
<1> QED BY <1>3, DriveInductive, PTL DEF Spec, BrakesToSlow

(* A turn of distance_drive() ends where the angle asked for ends, however many  *)
(* turns off it was given, and one of angle_drive() less than a step of 5        *)
(* degrees before; the direction is that of the sign after normalisation.      *)
THEOREM TurnsEnd == Spec => []TurnKept
<1>1. Init => TurnKept
  BY DEF Init, TurnKept
<1>2. TurnKept /\ [Next]_vars => TurnKept'
  <2> SUFFICES ASSUME TurnKept, [Next]_vars PROVE TurnKept'
    OBVIOUS
  <2>1. ASSUME asked'.call \notin {"distance", "angle"} PROVE TurnKept'
    BY <2>1 DEF TurnKept
  <2>2. ASSUME NEW v \in VTicks, NEW w \in WTicks, continuous_drive(v, w) PROVE TurnKept'
    BY <2>1, <2>2 DEF continuous_drive
  <2>3. ASSUME NEW speed \in Speeds, NEW ms \in Times, time_drive(speed, ms) PROVE TurnKept'
    BY <2>1, <2>3 DEF time_drive, OneOrder
  <2>4. CASE stop
    BY <2>1, <2>4 DEF stop, OneOrder
  <2>5. ASSUME NEW cm \in Distances, NEW deg \in Angles, distance_drive(cm, deg) PROVE TurnKept'
    <3>1. /\ sent'[1].params = DistanceParams(cm, deg)
          /\ asked'.call = "distance" /\ asked'.args[2] = deg
      BY <2>5 DEF distance_drive, OneOrder, Order
    <3>2. cm \in Int /\ deg \in Int
      BY DriveInputs
    <3> QED BY <3>1, <3>2, DistanceTurn DEF TurnKept
  <2>6. ASSUME NEW deg \in Angles, NEW speed \in Speeds, angle_drive(deg, speed) PROVE TurnKept'
    <3>1. /\ sent'[1] = AngleOrder(deg, speed)
          /\ asked'.call = "angle" /\ asked'.args[1] = deg
      BY <2>6 DEF angle_drive, OneOrder
    <3>2. deg \in Int /\ speed \in Int
      BY DriveInputs
    <3> QED BY <3>1, <3>2, AngleTurn DEF TurnKept
  <2>7. CASE UNCHANGED vars
    BY <2>7 DEF vars, TurnKept
  <2> QED BY <2>2, <2>3, <2>4, <2>5, <2>6, <2>7 DEF Next
<1> QED BY <1>1, <1>2, PTL DEF Spec
=============================================================================
