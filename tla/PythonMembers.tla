---------------------------- MODULE PythonMembers ----------------------------
(***************************************************************************)
(* The generated classes of the Python client (generated/objects.py): the  *)
(* attributes a constructor sets, and for each method the command it sends,*)
(* what it is declared to take, what is sent in front of that, and the     *)
(* parser of the reply.  A class and its Async twin are one definition:    *)
(* they differ in await and in AsyncState alone.                           *)
(***************************************************************************)
EXTENDS Wire

Sends(command, takes, parser) ==
    [command |-> command, takes |-> takes, constant |-> FALSE, parser |-> parser]
Sets(command) == Sends(command, <<"int">>, "parse_ok")
Does(command) == Sends(command, <<>>, "parse_ok")
Gets(command, parser) == Sends(command, <<>>, parser)

Class(attributes, methods) == [attributes |-> attributes, methods |-> methods]
Sensor(methods) == Class({"value"}, methods)
Actor(methods) == Class({}, methods)

GetValue(parser) == [get_value |-> Gets("getValue", parser)]
Motion ==
    [set_speed       |-> Sets("setSpeed"),
     get_speed       |-> Gets("getSpeed", "parse_int"),
     set_motion_type |-> Sets("setMotionType"),
     get_motion_type |-> Gets("getMotionType", "parse_int")]
Placing ==
    [set_position |-> Sets("setPosition"),
     get_position |-> Gets("getPosition", "parse_int"),
     set_offset   |-> Sets("setOffset"),
     get_offset   |-> Gets("getOffset", "parse_int")]
SevenInts == <<"int", "int", "int", "int", "int", "int", "int">>
Effects ==
    [set_blink     |-> Sends("setBlink", SevenInts, "parse_ok"),
     revoke_effect |-> Sets("revokeEffect")]

-----------------------------------------------------------------------------
(* Inputs                                                                  *)

Analog == Sensor(GetValue("parse_int"))
Button == Sensor(GetValue("parse_bool"))
Counter == Sensor(GetValue("parse_int"))
Digital == Sensor(GetValue("parse_bool"))
FrequencyMeter == Sensor(GetValue("parse_int"))
Joystick == Sensor(GetValue("parse_joystick"))
Ldr == Sensor(GetValue("parse_int"))
LightBarrier == Sensor(GetValue("parse_bool"))

(* Fault: every method of a sensor reads the type of its value.            *)
OhmmeterOfInts ==
    Sensor(With(GetValue("parse_int"),
                [get_resistance |-> Gets("getResistance", "parse_int")]))
Ohmmeter ==
    Sensor(With(GetValue("parse_int"),
                [get_resistance |-> Gets("getResistance", "parse_float")]))
Power ==
    Sensor(With(GetValue("parse_int"),
                [get_voltage |-> Gets("getVoltage", "parse_float")]))
ReedSwitch == Sensor(GetValue("parse_bool"))
RotaryEncoder == Sensor(GetValue("parse_int"))
Switch == Sensor(GetValue("parse_bool"))

(* The firmware's command for Celsius is spelled getCelcius.               *)
Thermometer ==
    Sensor(With(GetValue("parse_int"),
                [get_kelvin     |-> Gets("getKelvin", "parse_float"),
               get_celsius    |-> Gets("getCelcius", "parse_float"),
               get_fahrenheit |-> Gets("getFahrenheit", "parse_float")]))
Voltmeter ==
    Sensor(With(GetValue("parse_int"),
                [get_voltage |-> Gets("getVoltage", "parse_float")]))

-----------------------------------------------------------------------------
(* Outputs                                                                 *)

Buzzer == Actor(Motion)
Compressor == Actor(Motion)
Encoder == Actor(Motion)
I2c ==
    Actor([set_register |-> Sends("setRegister", <<"int", "int">>, "parse_ok"),
           get_register |-> Sends("getRegister", <<"int">>, "parse_int")])
Lamp == Actor(With(Motion, Effects))
MMotor == Actor(Motion)
MiniMotor == Actor(Motion)
Motor == Actor(Motion)
Pixel ==
    Actor(With([set_color      |-> Sets("setColor"),
                get_color      |-> Gets("getColor", "parse_string"),
                set_brightness |-> Sets("setBrightness"),
                get_brightness |-> Gets("getBrightness", "parse_int")],
               Effects))
PowerMotor == Actor(Motion)
RcServo == Actor(Placing)
SMotor == Actor(Motion)
Servo == Actor(Placing)

(* __init__ sets an attribute homing, and there is a method homing: what   *)
(* the name means on an object is the attribute.                           *)
Stepper ==
    Class({"running", "homing", "distance", "position"},
          With(Motion,
             [set_distance      |-> Sends("setDistance", <<"int", "bool">>, "parse_ok"),
              get_distance      |-> Gets("getDistance", "parse_int"),
              set_position      |-> Sets("setPosition"),
              get_position      |-> Gets("getPosition", "parse_int"),
              run               |-> Does("run"),
              is_running        |-> Gets("isRunning", "parse_bool"),
              stop              |-> Does("stop"),
              homing            |-> Sets("homing"),
              is_homing         |-> Gets("isHoming", "parse_bool"),
              set_homing_offset |-> Sets("setHomingOffset")]))
Tractor == Actor(Motion)
Valve == Actor(Motion)
WheelDrive == Actor(Motion)
XmMotor == Actor(Motion)
XsMotor == Actor(Motion)

-----------------------------------------------------------------------------
(* Meta objects, whose constructors set no public attribute                *)

Controller ==
    Actor([set_microstep_mode |-> Sends("setMicrostepMode", <<"MicrostepMode">>, "parse_ok"),
           get_microstep_mode |-> Gets("getMicrostepMode", "from_wire_value"),
           reboot             |-> Does("reboot"),
           unsubscribe        |-> Does("unsubscribe")])

(* get_swarm sends the constant 0.                                         *)
Swarm ==
    Actor([login       |-> Sets("login"),
           get_swarm   |-> [Gets("getSwarm", "parse_string") EXCEPT !.constant = TRUE],
           use_config  |-> Sets("useConfig"),
           unsubscribe |-> Does("unsubscribe")])

Classes ==
    [Analog |-> Analog, Button |-> Button, Counter |-> Counter,
     Digital |-> Digital, FrequencyMeter |-> FrequencyMeter,
     Joystick |-> Joystick, Ldr |-> Ldr, LightBarrier |-> LightBarrier,
     Ohmmeter |-> Ohmmeter, Power |-> Power, ReedSwitch |-> ReedSwitch,
     RotaryEncoder |-> RotaryEncoder, Switch |-> Switch,
     Thermometer |-> Thermometer, Voltmeter |-> Voltmeter,
     Buzzer |-> Buzzer, Compressor |-> Compressor, Encoder |-> Encoder,
     I2c |-> I2c, Lamp |-> Lamp, MMotor |-> MMotor, MiniMotor |-> MiniMotor,
     Motor |-> Motor, Pixel |-> Pixel, PowerMotor |-> PowerMotor,
     RcServo |-> RcServo, SMotor |-> SMotor, Servo |-> Servo,
     Stepper |-> Stepper, Tractor |-> Tractor, Valve |-> Valve,
     WheelDrive |-> WheelDrive, XmMotor |-> XmMotor, XsMotor |-> XsMotor,
     Controller |-> Controller, Swarm |-> Swarm]
=============================================================================
