----------------------------- MODULE AxisMapping -----------------------------
(* From the position of the joystick to the VISCA command of one cycle:       *)
(* normalisation and dead zones (joystick/linux_evdev.py, calibration.py,     *)
(* deadzone.py, runtime.py), throttle and inversion (throttle.py, hat.py,     *)
(* ptz_speed.py), arbitration (runtime/ptz_router.py) and the speeds of the   *)
(* command (ptz/speed.py, ptz/builder.py).                                    *)
(*                                                                            *)
(* The code's floating point numbers are integers in units of 1/One, where    *)
(* One is chosen so that the divisions below are exact. The operator moves    *)
(* one control by one notch at a time.                                        *)
EXTENDS Integers

CONSTANTS
    One,       \* the number 1, in the model's units
    Notches,   \* an axis reads 0..2 * Notches, Notches is its centre
    Flat,      \* flat zone around the centre that the driver reports
    Configs    \* configurations of joystick and camera

VARIABLES
    conf,      \* configuration in force
    stick,     \* readings of the axes
    hat        \* -1, 0 or 1 in each direction; y = -1 is up

vars == <<conf, stick, hat>>

(* -------------------------------- numbers --------------------------------- *)
Abs(n) == IF n < 0 THEN -n ELSE n
Sign(n) == IF n > 0 THEN 1 ELSE IF n < 0 THEN -1 ELSE 0
Times(a, b) == (a * b) \div One

(* round() of a / One: to the nearest, a half to the even one. *)
Round(a) ==
    LET whole == a \div One rest == 2 * (a % One)
    IN  IF rest > One \/ (rest = One /\ whole % 2 = 1) THEN whole + 1 ELSE whole

(* ------------------------------- joystick --------------------------------- *)
Readings == 0..(2 * Notches)

(* _normalize_axis_value and the calibration of the value it returns. *)
Normalized(reading) ==
    LET offset == reading - Notches
    IN  IF offset \in -Flat..Flat THEN 0 ELSE (offset * One) \div Notches

(* Mutant: the dead zone is cut off without stretching the rest of the range. *)
DeadzonedPlain(a, zone) == IF Abs(a) <= zone THEN 0 ELSE Sign(a) * (Abs(a) - zone)

Deadzoned(a, zone) ==
    IF Abs(a) <= zone THEN 0 ELSE Sign(a) * (((Abs(a) - zone) * One) \div (One - zone))

ThrottleMultiplier ==
    LET lever == Normalized(stick.throttle)
        unit == ((IF conf.throttleInvert THEN -lever ELSE lever) + One) \div 2
    IN  conf.minMultiplier + Times(unit, conf.maxMultiplier - conf.minMultiplier)

Inverted(axis, n) == IF conf.invert[axis] THEN -n ELSE n

(* ptz_velocity: normalized_axes turns the tilt, the scaler inverts it again. *)
Velocity(axis) ==
    LET value == Deadzoned(Normalized(stick[axis]), conf.deadzone)
    IN  Sign(value) * Inverted(axis, IF axis = "tilt" THEN -1 ELSE 1) * Times(Abs(value), ThrottleMultiplier)

(* Mutant: the inversion of tilt does not reach the hat. *)
HatDirectionPlain(axis) == IF axis = "pan" THEN Inverted("pan", hat.x) ELSE -hat.y

HatDirection(axis) == Inverted(axis, IF axis = "pan" THEN hat.x ELSE -hat.y)

Larger(m, n) == IF m > n THEN m ELSE n

HatSpeed(axis) ==
    IF HatDirection(axis) = 0 \/ conf.fine = 0 THEN 0
    ELSE HatDirection(axis) * Larger(1, Round(conf.fine * (IF conf.hatThrottle
                                                           THEN ThrottleMultiplier ELSE One)))

(* --------------------------------- router --------------------------------- *)
Threshold(axis) == IF axis = "zoom" THEN conf.threshold.zoom ELSE conf.threshold.panTilt
Centered(axis) == Abs(Velocity(axis)) < Threshold(axis)

(* Mutant: the hat is not looked at while any axis is out of the centre. *)
SourceStick ==
    IF \E axis \in {"pan", "tilt", "zoom"} : ~Centered(axis) THEN "main"
    ELSE IF HatSpeed("pan") # 0 \/ HatSpeed("tilt") # 0 THEN "hat" ELSE "none"

Source ==
    IF ~Centered("pan") \/ ~Centered("tilt") THEN "main"
    ELSE IF HatSpeed("pan") # 0 \/ HatSpeed("tilt") # 0 THEN "hat" ELSE "none"

(* Mutant: the range counts its upper end twice. *)
AxisSpeedOneMore(a, range) ==
    IF a = 0 \/ range.max = 0 THEN 0 ELSE Round(range.min * One + (range.max + 1 - range.min) * Abs(a))

(* Mutant: every speed is cut to the three bits of a zoom speed. *)
AxisSpeedThreeBits(a, range) ==
    IF a = 0 \/ range.max = 0 THEN 0 ELSE Round(range.min * One + (range.max - range.min) * Abs(a)) % 8

(* scale_axis_to_speed; a velocity is never beyond One. *)
AxisSpeed(a, range) ==
    IF a = 0 \/ range.max = 0 THEN 0 ELSE Round(range.min * One + (range.max - range.min) * Abs(a))

Signed(a, range) == Sign(a) * AxisSpeed(a, range)

(* The pan/tilt and the zoom command of the cycle; 0 stands still.            *)
Command(axis) ==
    IF axis = "zoom" THEN IF Centered("zoom") THEN 0 ELSE Signed(Velocity("zoom"), conf.zoom)
    ELSE CASE Source = "main" -> Signed(Velocity(axis), conf[axis])
           [] Source = "hat" -> HatSpeed(axis)
           [] OTHER -> 0

(* The builder raises for speeds a camera does not know, and scaling raises   *)
(* for a range that ends before it begins.                                    *)
Encodable ==
    /\ Command("pan") \in -24..24 /\ Command("tilt") \in -20..20 /\ Command("zoom") \in -7..7
    /\ \A axis \in {"pan", "tilt"} :
         Source = "main" /\ Velocity(axis) # 0 => conf[axis].min <= conf[axis].max \/ conf[axis].max = 0

(* ------------------------------- operator --------------------------------- *)
Init ==
    /\ conf \in Configs
    /\ stick = [pan |-> Notches, tilt |-> Notches, zoom |-> Notches, throttle |-> Notches]
    /\ hat = [x |-> 0, y |-> 0]

(* Bound: the throttle is moved between its ends and its centre only.         *)
MoveAxis(axis) ==
    LET step == IF axis = "throttle" THEN Notches ELSE 1
    IN  /\ \E reading \in {stick[axis] - step, stick[axis] + step} \cap Readings :
             stick' = [stick EXCEPT ![axis] = reading]
        /\ UNCHANGED <<conf, hat>>

MoveHat ==
    /\ \E way \in {"x", "y"}, n \in {-1, 0, 1} : hat' = [hat EXCEPT ![way] = n]
    /\ UNCHANGED <<conf, stick>>

Next == (\E axis \in {"pan", "tilt", "zoom", "throttle"} : MoveAxis(axis)) \/ MoveHat

Spec == Init /\ [][Next]_vars

(* ------------------------------- properties ------------------------------- *)
(* Every command of every position can be encoded: no position of the stick   *)
(* ends the poll loop with the builder's ValueError.                          *)
NoValueError == Encodable

(* Released controls send nothing: what is in the flat zone moves nothing and *)
(* does not keep the hat, or a preset that is being recalled, from working.   *)
AtRest(axis) == stick[axis] - Notches \in -Flat..Flat
ReleasedSendsNothing ==
    /\ AtRest("pan") /\ AtRest("tilt") => Source = (IF hat = [x |-> 0, y |-> 0] \/ conf.fine = 0 THEN "none" ELSE "hat")
    /\ AtRest("zoom") => Centered("zoom")

(* Stick and hat pushed the same way move the camera the same way, whatever   *)
(* is inverted: the tilt is turned in four places.                            *)
HatAgreesWithStick ==
    Source = "main" =>
        /\ hat.x * (stick.pan - Notches) >= 0 => Command("pan") * HatDirection("pan") >= 0
        /\ hat.y * (stick.tilt - Notches) >= 0 => Command("tilt") * HatDirection("tilt") >= 0

(* The end of the range gives the full speed that the throttle leaves.        *)
FullDeflection ==
    Source = "main" /\ stick.pan \in {0, 2 * Notches} /\ conf.deadzone # One =>
        Command("pan") \in {n * AxisSpeed(ThrottleMultiplier, conf.pan) : n \in {-1, 1}}

(* The commands of a position are those the position means.                   *)
MappingInv ==
    /\ NoValueError
    /\ ReleasedSendsNothing
    /\ HatAgreesWithStick
    /\ FullDeflection

(* Pushing an axis further never slows the camera down.                       *)
Deflection(axis) == LET d == stick[axis] - Notches IN IF d < 0 THEN -d ELSE d
FurtherIsFaster ==
    [][\A axis \in {"pan", "tilt", "zoom"} :
          Deflection(axis)' > Deflection(axis) /\ (axis = "zoom" \/ Source # "hat")
              => Abs(Command(axis)') >= Abs(Command(axis))]_vars
==============================================================================
