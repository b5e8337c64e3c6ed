------------------------------ MODULE MipDrive ------------------------------
(***************************************************************************)
(* The orders of class Mip that move the robot: what bytes they carry, and   *)
(* the forced deceleration of continuous_drive(), which sends the opposite    *)
(* speed before a lower one.  That an order reaches the robot, and in which   *)
(* sequence, is the matter of Mip; here the robot gets them as they are given.*)
(*                                                                         *)
(* Angles are whole degrees, distances centimetres, times milliseconds: the  *)
(* double arguments after their conversion to int.                          *)
(***************************************************************************)
EXTENDS Integers, Sequences

CONSTANTS VTicks, WTicks,       \* arguments of continuous_drive
          Angles, Distances,    \* of angle_drive and distance_drive
          Speeds, Times         \* of time_drive; Speeds of angle_drive too

ASSUME DriveInputs ==
    /\ VTicks \subseteq Int /\ WTicks \subseteq Int
    /\ Angles \subseteq Int /\ Distances \subseteq Int
    /\ Speeds \subseteq Int /\ Times \subseteq Int

VARIABLES
    last_v, last_w,  \* _last_v_ticks, _last_w_ticks
    sent,            \* the orders of the last call: commands and their parameters
    robot,           \* the speeds the robot was last told to keep
    asked,           \* history: the last call
    tracking         \* history: the last call was a continuous_drive within the
                     \* range of the ticks, or there was none yet

vars == <<last_v, last_w, sent, robot, asked, tracking>>

----------------------------------------------------------------------------
(* Arithmetic.                                                              *)

clamp(x, min, max) == IF x < min THEN min ELSE IF x > max THEN max ELSE x
Abs(x) == IF x < 0 THEN -x ELSE x

(* The loops of rad2deg_norm: steps of 360 until the angle is in min..max-1,   *)
(* which is at least one turn wide. *)
rad2deg_norm(deg, min, max) ==
    IF deg < min THEN deg + 360 * ((min - deg + 359) \div 360)
    ELSE IF deg >= max THEN deg - 360 * ((deg - max) \div 360 + 1)
    ELSE deg

(* The two parameters of a continuous drive: slow and crazy, both ways. *)
VParam_slow_to_33(v_ticks) ==
    LET v == clamp(v_ticks, -64, 64) IN
    IF v > 33 THEN 96 + v ELSE IF v >= 0 THEN v ELSE IF v >= -32 THEN 32 - v ELSE 128 - v

VParam(v_ticks) ==
    LET v == clamp(v_ticks, -64, 64) IN
    IF v > 32 THEN 96 + v ELSE IF v >= 0 THEN v ELSE IF v >= -32 THEN 32 - v ELSE 128 - v

(* Bug: the range of the linear speed is taken for the angular one too. *)
WParam_up_to_64(w_ticks) ==
    LET w == clamp(w_ticks, -64, 64) IN
    IF w > 32 THEN 192 + w ELSE IF w > 0 THEN 96 + w ELSE IF w = 0 THEN 0
    ELSE IF w >= -32 THEN 64 - w ELSE 160 - w

WParam(w_ticks) ==
    LET w == clamp(w_ticks, -64, 63) IN
    IF w > 32 THEN 192 + w ELSE IF w > 0 THEN 96 + w ELSE IF w = 0 THEN 0
    ELSE IF w >= -32 THEN 64 - w ELSE 160 - w

(* How the robot reads those bytes: the ranges in the comments of the code. *)
ReadV(b) ==
    CASE b \in 0..32    -> b           [] b \in 33..64   -> 32 - b
      [] b \in 129..160 -> b - 96      [] b \in 161..192 -> 128 - b

ReadW(b) ==
    CASE b = 0          -> 0
      [] b \in 97..128  -> b - 96      [] b \in 65..96   -> 64 - b
      [] b \in 225..255 -> b - 192     [] b \in 193..224 -> 160 - b

----------------------------------------------------------------------------
(* The orders.  A parameter becomes a uint8_t when it is sent.              *)

Order(cmd, params) == [cmd |-> cmd, params |-> params]
Byte(x) == x % 256

DriveOrder(v, w) == Order("CONTINUOUS_DRIVE", <<VParam(v), WParam(w)>>)

(* Forced deceleration: the orders one call gives.  The call it makes of      *)
(* itself stores the opposite speed, and the outer call stores its own then.  *)
Slower_signed(new, last) == new < last
Slower(new, last) == Abs(new) < Abs(last)

DriveOrders(v, w) ==
    (IF Slower(v, last_v) THEN <<DriveOrder(-v, w)>>
     ELSE IF Slower(w, last_w) THEN <<DriveOrder(v, -w)>>
     ELSE <<>>) \o <<DriveOrder(v, w)>>

(* The speeds of the last of these orders. *)
Obeys(orders) ==
    LET p == orders[Len(orders)].params IN [v |-> ReadV(Byte(p[1])), w |-> ReadW(Byte(p[2]))]

continuous_drive(v, w) ==
    /\ last_v' = v /\ last_w' = w
    /\ sent' = DriveOrders(v, w)
    /\ robot' = Obeys(sent')
    /\ asked' = [call |-> "continuous", args |-> <<v, w>>]
    /\ tracking' = (v \in -64..64 /\ w \in -64..63)

(* Any other order ends the drive; the last ticks stay. *)
OneOrder(order, call) ==
    /\ sent' = <<order>>
    /\ robot' = [v |-> 0, w |-> 0]
    /\ asked' = call
    /\ tracking' = FALSE
    /\ UNCHANGED <<last_v, last_w>>

(* Backward, centimetres, anti-clockwise, and the angle in two bytes. *)
DistanceParams_base_255(cm, deg) ==
    LET turn == rad2deg_norm(deg, -360, 360) IN
    << IF cm < 0 THEN 1 ELSE 0, clamp(Abs(cm), 0, 255),
       IF turn < 0 THEN 1 ELSE 0, Abs(turn) \div 255, Abs(turn) % 255 >>

DistanceParams(cm, deg) ==
    LET turn == rad2deg_norm(deg, -360, 360) IN
    << IF cm < 0 THEN 1 ELSE 0, clamp(Abs(cm), 0, 255),
       IF turn < 0 THEN 1 ELSE 0, Abs(turn) \div 256, Abs(turn) % 256 >>

distance_drive(cm, deg) ==
    OneOrder(Order("DISTANCE_DRIVE", DistanceParams(cm, deg)),
             [call |-> "distance", args |-> <<cm, deg>>])

(* Times go in steps of 7 ms. *)
time_drive(speed, ms) ==
    OneOrder(IF speed > 0
             THEN Order("DRIVE_FORWARD_WITH_TIME",
                        <<clamp(speed, 0, 30), clamp(ms \div 7, 0, 255)>>)
             ELSE Order("DRIVE_BACKWARD_WITH_TIME",
                        <<clamp(-speed, 0, 30), clamp(ms \div 7, 0, 255)>>),
             [call |-> "time", args |-> <<speed, ms>>])

(* Angles go in steps of 5 degrees. *)
AngleOrder(deg, speed) ==
    LET turn == rad2deg_norm(deg, -1275, 1275) IN
    Order(IF turn < 0 THEN "TURN_LEFT_BY_ANGLE" ELSE "TURN_RIGHT_BY_ANGLE",
          <<Abs(turn) \div 5, clamp(Abs(speed), 0, 24)>>)

angle_drive(deg, speed) ==
    OneOrder(AngleOrder(deg, speed), [call |-> "angle", args |-> <<deg, speed>>])

stop == OneOrder(Order("STOP", <<>>), [call |-> "stop", args |-> <<>>])

Init ==
    /\ last_v = 0 /\ last_w = 0
    /\ sent = <<>> /\ robot = [v |-> 0, w |-> 0]
    /\ asked = [call |-> "none", args |-> <<>>] /\ tracking = TRUE

Next ==
    \/ \E v \in VTicks, w \in WTicks : continuous_drive(v, w)
    \/ \E cm \in Distances, deg \in Angles : distance_drive(cm, deg)
    \/ \E speed \in Speeds, ms \in Times : time_drive(speed, ms)
    \/ \E deg \in Angles, speed \in Speeds : angle_drive(deg, speed)
    \/ stop

Spec == Init /\ [][Next]_vars

----------------------------------------------------------------------------
(* Properties.                                                              *)

(* No parameter changes when it is made a uint8_t, whatever is asked. *)
ParamsFit ==
    \A i \in DOMAIN sent : \A j \in DOMAIN sent[i].params : sent[i].params[j] \in 0..255

(* The type invariant; the last ticks are kept as they were given. *)
TypeOK ==
    /\ last_v \in VTicks \cup {0} /\ last_w \in WTicks \cup {0}
    /\ robot.v \in -64..64 /\ robot.w \in -64..63
    /\ tracking \in BOOLEAN
    /\ ParamsFit

(* After continuous_drive() the robot keeps the speed asked for, cut to what   *)
(* it can do, whatever opposite speed was sent on the way.                   *)
SpeedAsAsked ==
    asked.call = "continuous" =>
        /\ robot.v = clamp(asked.args[1], -64, 64)
        /\ robot.w = clamp(asked.args[2], -64, 63)

(* The opposite speed is sent only to a robot that is to go slower, if the     *)
(* code's last ticks are what the robot was told.  They are not after stop()   *)
(* or a move by distance, time or angle, nor after ticks out of range: then   *)
(* an idle or a fast robot is sent backwards for a moment.                   *)
BrakesToSlow ==
    [][tracking /\ Len(sent') = 2 =>
          Abs(robot'.v) < Abs(robot.v) \/ Abs(robot'.w) < Abs(robot.w)]_vars

(* A turn by distance_drive() ends where the angle asked for ends, a turn by   *)
(* angle_drive() at most 4 degrees before that; negative is anti-clockwise in  *)
(* the first, and to the left in the second. *)
TurnKept ==
    LET p == sent[1].params
        sign == IF sent[1].cmd = "TURN_LEFT_BY_ANGLE" THEN -1 ELSE 1
    IN  /\ asked.call = "distance" =>
              (asked.args[2] - (1 - 2 * p[3]) * (256 * p[4] + p[5])) % 360 = 0
        /\ asked.call = "angle" => (sign * asked.args[1] - 5 * p[1]) % 360 \in 0..4

(* angle_drive(): angle_rad > 0 for CCW, < 0 for CW.  A left turn is           *)
(* anti-clockwise. *)
PositiveIsLeft ==
    asked.call = "angle" /\ asked.args[1] \in 0..1274 /\ sent[1].params[1] > 0
        => sent[1].cmd = "TURN_LEFT_BY_ANGLE"
=============================================================================
