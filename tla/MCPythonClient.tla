--------------------------- MODULE MCPythonClient ---------------------------
(***************************************************************************)
(* Instances of PythonClient for TLC.                                      *)
(***************************************************************************)
EXTENDS PythonClient

CONSTANTS a, b, c

(* One class of each shape: classes with the same methods, of which the    *)
(* device expects the same, behave alike.                                  *)
Shape(class) == <<Classes[class], Api(class)>>
OneOfEach ==
    {"Analog", "Button", "Joystick", "Ohmmeter", "Power", "Thermometer", "Buzzer",
     "I2c", "Lamp", "Pixel", "RcServo", "Stepper", "Controller", "Swarm"}

ASSUME EveryShapeAssumption ==
    \A class \in DOMAIN Classes : \E one \in Kinds : Shape(one) = Shape(class)

(* What a call sends and parses depends on its method, whose reply it gets *)
(* does not: an Analog sees all calls, an object of another class one.     *)
OneOrAll ==
    [class \in Kinds |-> IF class = "Analog" THEN Calls ELSE {a}]

(* No port, a port of something else in front of an ftSwarm, that one only. *)
Swarm1 == [device |-> "tty1", ids |-> <<6790, 29987>>]
Other == [device |-> "tty2", ids |-> <<1027, 24577>>]
AllPlugged == {<<>>, <<Other, Swarm1>>, <<Other>>}
OneSwarm == {<<Swarm1>>}

(* What cannot be encoded, and what the device does not take.              *)
SomeMisuses == {TextWithQuote, Value("float", <<1>>)}
=============================================================================
