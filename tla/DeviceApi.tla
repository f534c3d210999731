------------------------------ MODULE DeviceApi ------------------------------
(***************************************************************************)
(* The definitions under src/api: for every kind of object the commands    *)
(* the device knows, what they take and what they return.  The generated   *)
(* clients come from the same files; here they are the device's side.      *)
(***************************************************************************)
EXTENDS Wire

Returns(takes, type) == [takes |-> takes, returns |-> type]
Query(type) == Returns(<<>>, type)
Order(takes) == Returns(takes, "ok")

(* The templates.                                                          *)
valueInt == [getValue |-> Query("int")]
valueBoolean == [getValue |-> Query("boolean")]
actor ==
    [setSpeed      |-> Order(<<"int">>), getSpeed      |-> Query("int"),
     setMotionType |-> Order(<<"int">>), getMotionType |-> Query("int")]
servo ==
    [setPosition |-> Order(<<"int">>), getPosition |-> Query("int"),
     setOffset   |-> Order(<<"int">>), getOffset   |-> Query("int")]

(* The definitions that add members of their own.                          *)
joystick == [getValue |-> Query("joystick")]
ohmmeter == With(valueInt, [getResistance |-> Query("float")])
power == With(valueInt, [getVoltage |-> Query("float")])
voltmeter == With(valueInt, [getVoltage |-> Query("float")])
thermometer ==
    With(valueInt, [getKelvin     |-> Query("float"),
                    getCelcius    |-> Query("float"),
                    getFahrenheit |-> Query("float")])
i2c ==
    [setRegister |-> Order(<<"int", "int">>),
     getRegister |-> Returns(<<"int">>, "int")]
sevenInts == <<"int", "int", "int", "int", "int", "int", "int">>
lamp ==
    With(actor, [setBlink     |-> Order(sevenInts),
                 revokeEffect |-> Order(<<"int">>)])
pixel ==
    [setColor      |-> Order(<<"int">>), getColor      |-> Query("string"),
     setBrightness |-> Order(<<"int">>), getBrightness |-> Query("int"),
     setBlink      |-> Order(sevenInts), revokeEffect  |-> Order(<<"int">>)]
stepper ==
    With(actor,
         [setDistance     |-> Order(<<"int", "boolean">>),
          getDistance     |-> Query("int"),
          setPosition     |-> Order(<<"int">>),
          getPosition     |-> Query("int"),
          run             |-> Order(<<>>),
          isRunning       |-> Query("boolean"),
          stop            |-> Order(<<>>),
          homing          |-> Order(<<"int">>),
          isHoming        |-> Query("boolean"),
          setHomingOffset |-> Order(<<"int">>)])
controller ==
    [setMicrostepMode |-> Order(<<"microstep_mode">>),
     getMicrostepMode |-> Query("microstep_mode"),
     reboot           |-> Order(<<>>),
     unsubscribe      |-> Order(<<>>)]
swarm ==
    [login       |-> Order(<<"int">>),
     getSwarm    |-> Returns(<<"int">>, "string"),   \* a constant parameter
     useConfig   |-> Order(<<"int">>),
     unsubscribe |-> Order(<<>>)]

(* The class an object of the client has, and what it extends.             *)
Api(kind) ==
    CASE kind \in {"Analog", "Counter", "FrequencyMeter", "Ldr", "RotaryEncoder"} -> valueInt
      [] kind \in {"Button", "Digital", "LightBarrier", "ReedSwitch", "Switch"} -> valueBoolean
      [] kind = "Joystick"            -> joystick
      [] kind = "Ohmmeter"            -> ohmmeter
      [] kind = "Power"               -> power
      [] kind = "Thermometer"         -> thermometer
      [] kind = "Voltmeter"           -> voltmeter
      [] kind = "I2c"                 -> i2c
      [] kind = "Lamp"                -> lamp
      [] kind = "Pixel"               -> pixel
      [] kind \in {"RcServo", "Servo"} -> servo
      [] kind = "Stepper"             -> stepper
      [] kind = "Controller"          -> controller
      [] kind = "Swarm"               -> swarm
      [] OTHER                        -> actor

-----------------------------------------------------------------------------
(* The device's use of them.                                               *)

Understands(word, type) ==
    CASE type = "int"            -> word.is = "int"
      [] type = "boolean"        -> word.is = "int" /\ word.of \in {0, 1}
      [] type = "microstep_mode" -> word.is = "int" /\ word.of \in MicrostepModes

(* A command of this kind of object, with as many parameters of the types  *)
(* the definition declares.                                                *)
Knows(kind, command, parameters) ==
    /\ command \in DOMAIN Api(kind)
    /\ LET takes == Api(kind)[command].takes
       IN  /\ Len(parameters) = Len(takes)
           /\ \A i \in DOMAIN takes : Understands(parameters[i], takes[i])

(* The values a command may be answered with, as Python represents them,   *)
(* made of the given numbers.                                              *)
ValuesOf(type, Numbers) ==
    CASE type = "ok"             -> {None}
      [] type = "int"            -> {Value("int", <<n>>) : n \in Numbers}
      [] type = "float"          -> {Value("float", <<n>>) : n \in Numbers}
      [] type = "boolean"        -> {Value("bool", <<n>>) : n \in {0, 1}}
      [] type = "string"         -> {Value("str", <<n>>) : n \in Numbers}
      [] type = "joystick"       -> {Value("JoystickValue", <<m, n>>) : m, n \in Numbers}
      [] type = "microstep_mode" -> {Value("MicrostepMode", <<n>>) : n \in MicrostepModes}

(* How the device writes such a value.                                     *)
Format(value) ==
    CASE value.type = "None"     -> <<Word("int", 0), Word("ok", 0)>>
      [] value.type \in {"int", "bool", "MicrostepMode"} -> <<Word("int", value.of[1])>>
      [] value.type = "float"    -> <<Word("float", value.of[1])>>
      [] value.type = "str"      -> <<Word("quoted", value.of[1])>>
      [] value.type = "JoystickValue" ->
             <<Word("float", value.of[1]), Word("float", value.of[2])>>
=============================================================================
