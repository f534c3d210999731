------------------------- MODULE PythonClientProofs --------------------------
(***************************************************************************)
(* Proofs about the Python client: that the methods of the generated       *)
(* classes, encode_command and the parsers agree with src/api, and that    *)
(* each call gets the device's answer to itself, wherever other calls are  *)
(* abandoned or refused and wherever in command() a failing reader or a    *)
(* close() meets it.  A write that fails is the exception, for the calls   *)
(* that are past their failure check by then and have no slot yet.         *)
(*                                                                         *)
(* The first half is about the tables and the conversions and knows no     *)
(* state.  The second proves an inductive invariant, whose heart is        *)
(* Correlates, one slot in the deque for every command that is being       *)
(* written, is with the device or whose reply is still to be handled, in   *)
(* the order of the replies, and Strays, what is left of it after a        *)
(* failure, when calls go on taking slots and the reader may go on too.    *)
(***************************************************************************)
EXTENDS PythonClient, SequenceTheorems, TLAPS

-----------------------------------------------------------------------------
(* Methods and commands                                                    *)

(* The types src/api uses, and those of a generated method's parameters.   *)
ReturnTypes ==
    {"ok", "int", "float", "boolean", "string", "joystick", "microstep_mode"}
ArgumentTypes == {"int", "bool", "MicrostepMode"}
DeviceTypes == {"int", "boolean", "microstep_mode"}

(* The parser of a return type, and what a parameter of a Python type is   *)
(* for the device.                                                         *)
ParserOf(type) ==
    CASE type = "ok"             -> "parse_ok"
      [] type = "int"            -> "parse_int"
      [] type = "float"          -> "parse_float"
      [] type = "boolean"        -> "parse_bool"
      [] type = "string"         -> "parse_string"
      [] type = "joystick"       -> "parse_joystick"
      [] type = "microstep_mode" -> "from_wire_value"

TakenAs(type) ==
    CASE type = "int"           -> "int"
      [] type = "bool"          -> "boolean"
      [] type = "MicrostepMode" -> "microstep_mode"

(* A method sends parameters of the types the command takes; get_swarm's   *)
(* is a constant.                                                          *)
TakesAs(sends, types) ==
    IF sends.constant
    THEN sends.takes = <<>> /\ types = <<"int">>
    ELSE /\ types \in Seq(DeviceTypes)
         /\ Len(types) = Len(sends.takes)
         /\ \A i \in 1..Len(types) : types[i] = TakenAs(sends.takes[i])

(* A method agrees with a definition: it sends a command of it, with       *)
(* parameters that suit, and parses the type that comes back.              *)
Agrees(sends, api) ==
    /\ sends.command \in DOMAIN api
    /\ sends.takes \in Seq(ArgumentTypes)
    /\ sends.constant \in BOOLEAN
    /\ TakesAs(sends, api[sends.command].takes)
    /\ api[sends.command].returns \in ReturnTypes
    /\ sends.parser = ParserOf(api[sends.command].returns)

Fits(methods, api) == \A m \in DOMAIN methods : Agrees(methods[m], api)

(* Sequences of no type, and of one.                                       *)
LEMMA NoTypes ==
  /\ <<>> \in Seq(DeviceTypes) /\ <<>> \in Seq(ArgumentTypes)
  /\ Len(<<>>) = 0
  OBVIOUS

LEMMA OneType ==
  /\ <<"int">> \in Seq(DeviceTypes) /\ <<"int">> \in Seq(ArgumentTypes)
  /\ Len(<<"int">>) = 1 /\ <<"int">>[1] = "int"
  /\ TakenAs("int") = "int"
  BY DEF DeviceTypes, ArgumentTypes, TakenAs

(* Getters, setters and orders agree with a command of their sort.         *)
LEMMA GetsFacts ==
  ASSUME NEW api, NEW command \in DOMAIN api, NEW type \in ReturnTypes,
         api[command] = Query(type)
  PROVE  Agrees(Gets(command, ParserOf(type)), api)
  <1> DEFINE gets == Gets(command, ParserOf(type))
  <1>1. api[command].takes = <<>> /\ api[command].returns = type
    BY DEF Query, Returns
  <1>2. /\ gets.command = command /\ gets.takes = <<>> /\ gets.constant = FALSE
        /\ gets.parser = ParserOf(type)
    BY DEF Gets, Sends
  <1> HIDE DEF gets
  <1>3. TakesAs(gets, <<>>)
    BY <1>2, NoTypes DEF TakesAs
  <1> QED
    BY <1>1, <1>2, <1>3, NoTypes DEF Agrees, gets

LEMMA SetsFacts ==
  ASSUME NEW api, NEW command \in DOMAIN api, api[command] = Order(<<"int">>)
  PROVE  Agrees(Sets(command), api)
  <1>1. api[command].takes = <<"int">> /\ api[command].returns = "ok"
    BY DEF Order, Returns
  <1>2. /\ Sets(command).command = command /\ Sets(command).takes = <<"int">>
        /\ Sets(command).constant = FALSE
        /\ Sets(command).parser = ParserOf("ok")
    BY DEF Sets, Sends, ParserOf
  <1>3. TakesAs(Sets(command), <<"int">>)
    BY <1>2, OneType DEF TakesAs
  <1> QED
    BY <1>1, <1>2, <1>3, OneType DEF Agrees, ReturnTypes

LEMMA DoesFacts ==
  ASSUME NEW api, NEW command \in DOMAIN api, api[command] = Order(<<>>)
  PROVE  Agrees(Does(command), api)
  <1>1. api[command].takes = <<>> /\ api[command].returns = "ok"
    BY DEF Order, Returns
  <1>2. /\ Does(command).command = command /\ Does(command).takes = <<>>
        /\ Does(command).constant = FALSE
        /\ Does(command).parser = ParserOf("ok")
    BY DEF Does, Sends, ParserOf
  <1>3. TakesAs(Does(command), <<>>)
    BY <1>2, NoTypes DEF TakesAs
  <1> QED
    BY <1>1, <1>2, <1>3, NoTypes DEF Agrees, ReturnTypes

(* A method with several parameters agrees with a command that takes as    *)
(* many, each of them of the type the device has for it.                   *)
LEMMA SendsFacts ==
  ASSUME NEW api, NEW command \in DOMAIN api,
         NEW takes \in Seq(ArgumentTypes), NEW types \in Seq(DeviceTypes),
         Len(types) = Len(takes),
         \A i \in 1..Len(types) : types[i] = TakenAs(takes[i]),
         NEW type \in ReturnTypes, api[command] = Returns(types, type)
  PROVE  Agrees(Sends(command, takes, ParserOf(type)), api)
  <1> DEFINE sends == Sends(command, takes, ParserOf(type))
  <1>1. api[command].takes = types /\ api[command].returns = type
    BY DEF Returns
  <1>2. /\ sends.command = command /\ sends.takes = takes /\ sends.constant = FALSE
        /\ sends.parser = ParserOf(type)
    BY DEF Sends
  <1> HIDE DEF sends
  <1>3. TakesAs(sends, types)
    BY <1>2 DEF TakesAs
  <1> QED
    BY <1>1, <1>2, <1>3 DEF Agrees, sends

(* The parameters of setBlink.                                             *)
LEMMA SevenParameters ==
  /\ sevenInts \in Seq(DeviceTypes) /\ SevenInts \in Seq(ArgumentTypes)
  /\ Len(sevenInts) = Len(SevenInts)
  /\ \A i \in 1..Len(sevenInts) : sevenInts[i] = TakenAs(SevenInts[i])
  <1> USE DEF DeviceTypes, ArgumentTypes, TakenAs
  <1>1. /\ sevenInts \in Seq(DeviceTypes) /\ SevenInts \in Seq(ArgumentTypes)
        /\ Len(sevenInts) = 7 /\ Len(SevenInts) = 7
    BY DEF sevenInts, SevenInts
  <1>2. ASSUME NEW i \in 1..7 PROVE sevenInts[i] = TakenAs(SevenInts[i])
    <2>1. i \in {1, 2, 3, 4, 5, 6, 7}
      OBVIOUS
    <2>2. sevenInts[i] = "int" /\ SevenInts[i] = "int"
      BY <2>1 DEF sevenInts, SevenInts
    <2> QED
      BY <2>2
  <1> QED
    BY <1>1, <1>2

(* Those of setRegister, setDistance and setMicrostepMode.                 *)
LEMMA OtherParameters ==
  ASSUME NEW takes, NEW types,
         \/ takes = <<"int">> /\ types = <<"int">>
         \/ takes = <<"int", "int">> /\ types = <<"int", "int">>
         \/ takes = <<"int", "bool">> /\ types = <<"int", "boolean">>
         \/ takes = <<"MicrostepMode">> /\ types = <<"microstep_mode">>
  PROVE  /\ takes \in Seq(ArgumentTypes) /\ types \in Seq(DeviceTypes)
         /\ Len(types) = Len(takes)
         /\ \A i \in 1..Len(types) : types[i] = TakenAs(takes[i])
  <1> USE DEF DeviceTypes, ArgumentTypes, TakenAs
  <1>1. CASE takes = <<"int">> /\ types = <<"int">>
    BY <1>1
  <1>2. CASE takes = <<"int", "int">> /\ types = <<"int", "int">>
    BY <1>2
  <1>3. CASE takes = <<"int", "bool">> /\ types = <<"int", "boolean">>
    BY <1>3
  <1>4. CASE takes = <<"MicrostepMode">> /\ types = <<"microstep_mode">>
    BY <1>4
  <1> QED
    BY <1>1, <1>2, <1>3, <1>4

(* A class that extends another, and a definition that extends another.    *)
LEMMA MergedMethods ==
  ASSUME NEW f, NEW g, NEW api, Fits(f, api), Fits(g, api)
  PROVE  Fits(With(f, g), api)
  <1> SUFFICES ASSUME NEW m \in DOMAIN With(f, g)
               PROVE  Agrees(With(f, g)[m], api)
    BY DEF Fits
  <1>1. CASE m \in DOMAIN g
    <2>1. With(f, g)[m] = g[m]
      BY <1>1 DEF With
    <2> QED
      BY <1>1, <2>1 DEF Fits
  <1>2. CASE m \notin DOMAIN g
    <2>1. m \in DOMAIN f
      BY <1>2 DEF With
    <2>2. With(f, g)[m] = f[m]
      BY <1>2, <2>1 DEF With
    <2> QED
      BY <2>1, <2>2 DEF Fits
  <1> QED
    BY <1>1, <1>2

LEMMA MergedApis ==
  ASSUME NEW methods, NEW a, NEW b
  PROVE  /\ Fits(methods, b) => Fits(methods, With(a, b))
         /\ Fits(methods, a) /\ DOMAIN a \cap DOMAIN b = {} => Fits(methods, With(a, b))
  <1> DEFINE whole == With(a, b)
  <1>1. ASSUME NEW sends, NEW own, sends.command \in DOMAIN own,
               Agrees(sends, own), whole[sends.command] = own[sends.command],
               sends.command \in DOMAIN whole
        PROVE  Agrees(sends, whole)
    <2> HIDE DEF whole
    <2> QED
      BY <1>1 DEF Agrees
  <1>2. ASSUME NEW sends, Agrees(sends, b) PROVE Agrees(sends, whole)
    <2>1. sends.command \in DOMAIN b
      BY <1>2 DEF Agrees
    <2>2. /\ whole[sends.command] = b[sends.command]
          /\ sends.command \in DOMAIN whole
      BY <2>1 DEF With
    <2> HIDE DEF whole
    <2> QED
      BY <1>1, <1>2, <2>1, <2>2
  <1>3. ASSUME NEW sends, Agrees(sends, a), DOMAIN a \cap DOMAIN b = {}
        PROVE  Agrees(sends, whole)
    <2>1. sends.command \in DOMAIN a /\ sends.command \notin DOMAIN b
      BY <1>3 DEF Agrees
    <2>2. /\ whole[sends.command] = a[sends.command]
          /\ sends.command \in DOMAIN whole
      BY <2>1 DEF With
    <2> HIDE DEF whole
    <2> QED
      BY <1>1, <1>3, <2>1, <2>2
  <1> HIDE DEF whole
  <1>4. /\ Fits(methods, b) => Fits(methods, whole)
        /\ Fits(methods, a) /\ DOMAIN a \cap DOMAIN b = {} => Fits(methods, whole)
    BY <1>2, <1>3 DEF Fits
  <1> QED
    BY <1>4 DEF whole

(* Sensors: integers,                                                      *)
LEMMA IntValueFits == Fits(GetValue("parse_int"), valueInt)
  <1> DEFINE methods == GetValue("parse_int")
             api == valueInt
  <1>1. api.getValue = Query("int")
    BY DEF valueInt
  <1>2. {"getValue"} \subseteq DOMAIN api
    BY DEF valueInt
  <1> HIDE DEF api
  <1>3. Agrees(Gets("getValue", "parse_int"), api)
    BY <1>1, <1>2, GetsFacts DEF ReturnTypes, ParserOf
  <1>4. Fits(methods, api)
    BY <1>3 DEF Fits, GetValue
  <1> QED
    BY <1>4 DEF api

(* booleans,                                                               *)
LEMMA BooleanValueFits == Fits(GetValue("parse_bool"), valueBoolean)
  <1> DEFINE methods == GetValue("parse_bool")
             api == valueBoolean
  <1>1. api.getValue = Query("boolean")
    BY DEF valueBoolean
  <1>2. {"getValue"} \subseteq DOMAIN api
    BY DEF valueBoolean
  <1> HIDE DEF api
  <1>3. Agrees(Gets("getValue", "parse_bool"), api)
    BY <1>1, <1>2, GetsFacts DEF ReturnTypes, ParserOf
  <1>4. Fits(methods, api)
    BY <1>3 DEF Fits, GetValue
  <1> QED
    BY <1>4 DEF api

(* and a joystick's two values.                                            *)
LEMMA JoystickFits == Fits(GetValue("parse_joystick"), joystick)
  <1> DEFINE methods == GetValue("parse_joystick")
             api == joystick
  <1>1. api.getValue = Query("joystick")
    BY DEF joystick
  <1>2. {"getValue"} \subseteq DOMAIN api
    BY DEF joystick
  <1> HIDE DEF api
  <1>3. Agrees(Gets("getValue", "parse_joystick"), api)
    BY <1>1, <1>2, GetsFacts DEF ReturnTypes, ParserOf
  <1>4. Fits(methods, api)
    BY <1>3 DEF Fits, GetValue
  <1> QED
    BY <1>4 DEF api

(* What the sensors of analog inputs add to an integer.                    *)
LEMMA ResistanceFits ==
  Fits([get_resistance |-> Gets("getResistance", "parse_float")],
       [getResistance |-> Query("float")])
  <1> DEFINE methods == [get_resistance |-> Gets("getResistance", "parse_float")]
             api == [getResistance |-> Query("float")]
  <1>1. api.getResistance = Query("float")
    OBVIOUS
  <1>2. {"getResistance"} \subseteq DOMAIN api
    OBVIOUS
  <1> HIDE DEF api
  <1>3. Agrees(Gets("getResistance", "parse_float"), api)
    BY <1>1, <1>2, GetsFacts DEF ReturnTypes, ParserOf
  <1>4. Fits(methods, api)
    BY <1>3 DEF Fits
  <1> QED
    BY <1>4 DEF api

LEMMA VoltageFits ==
  Fits([get_voltage |-> Gets("getVoltage", "parse_float")],
       [getVoltage |-> Query("float")])
  <1> DEFINE methods == [get_voltage |-> Gets("getVoltage", "parse_float")]
             api == [getVoltage |-> Query("float")]
  <1>1. api.getVoltage = Query("float")
    OBVIOUS
  <1>2. {"getVoltage"} \subseteq DOMAIN api
    OBVIOUS
  <1> HIDE DEF api
  <1>3. Agrees(Gets("getVoltage", "parse_float"), api)
    BY <1>1, <1>2, GetsFacts DEF ReturnTypes, ParserOf
  <1>4. Fits(methods, api)
    BY <1>3 DEF Fits
  <1> QED
    BY <1>4 DEF api

LEMMA TemperatureFits ==
  Fits([get_kelvin     |-> Gets("getKelvin", "parse_float"),
        get_celsius    |-> Gets("getCelcius", "parse_float"),
        get_fahrenheit |-> Gets("getFahrenheit", "parse_float")],
       [getKelvin     |-> Query("float"),
        getCelcius    |-> Query("float"),
        getFahrenheit |-> Query("float")])
  <1> DEFINE methods == [get_kelvin     |-> Gets("getKelvin", "parse_float"),
                     get_celsius    |-> Gets("getCelcius", "parse_float"),
                     get_fahrenheit |-> Gets("getFahrenheit", "parse_float")]
             api == [getKelvin     |-> Query("float"),
                 getCelcius    |-> Query("float"),
                 getFahrenheit |-> Query("float")]
  <1>1. /\ api.getKelvin = Query("float")
        /\ api.getCelcius = Query("float")
        /\ api.getFahrenheit = Query("float")
    OBVIOUS
  <1>2. {"getKelvin", "getCelcius", "getFahrenheit"} \subseteq DOMAIN api
    OBVIOUS
  <1> HIDE DEF api
  <1>3. /\ Agrees(Gets("getKelvin", "parse_float"), api)
        /\ Agrees(Gets("getCelcius", "parse_float"), api)
        /\ Agrees(Gets("getFahrenheit", "parse_float"), api)
    BY <1>1, <1>2, GetsFacts DEF ReturnTypes, ParserOf
  <1>4. Fits(methods, api)
    BY <1>3 DEF Fits
  <1> QED
    BY <1>4 DEF api

(* Motors and other actors.                                                *)
LEMMA MotionFits == Fits(Motion, actor)
  <1> DEFINE methods == Motion
             api == actor
  <1>1. /\ api.getSpeed = Query("int")
        /\ api.getMotionType = Query("int")
        /\ api.setSpeed = Order(<<"int">>)
        /\ api.setMotionType = Order(<<"int">>)
    BY DEF actor
  <1>2. {"getSpeed", "getMotionType", "setSpeed",
         "setMotionType"} \subseteq DOMAIN api
    BY DEF actor
  <1> HIDE DEF api
  <1>3. /\ Agrees(Gets("getSpeed", "parse_int"), api)
        /\ Agrees(Gets("getMotionType", "parse_int"), api)
    BY <1>1, <1>2, GetsFacts DEF ReturnTypes, ParserOf
  <1>4. /\ Agrees(Sets("setSpeed"), api)
        /\ Agrees(Sets("setMotionType"), api)
    BY <1>1, <1>2, SetsFacts
  <1>5. Fits(methods, api)
    BY <1>3, <1>4 DEF Fits, Motion
  <1> QED
    BY <1>5 DEF api

(* Servos.                                                                 *)
LEMMA PlacingFits == Fits(Placing, servo)
  <1> DEFINE methods == Placing
             api == servo
  <1>1. /\ api.getPosition = Query("int")
        /\ api.getOffset = Query("int")
        /\ api.setPosition = Order(<<"int">>)
        /\ api.setOffset = Order(<<"int">>)
    BY DEF servo
  <1>2. {"getPosition", "getOffset", "setPosition",
         "setOffset"} \subseteq DOMAIN api
    BY DEF servo
  <1> HIDE DEF api
  <1>3. /\ Agrees(Gets("getPosition", "parse_int"), api)
        /\ Agrees(Gets("getOffset", "parse_int"), api)
    BY <1>1, <1>2, GetsFacts DEF ReturnTypes, ParserOf
  <1>4. /\ Agrees(Sets("setPosition"), api)
        /\ Agrees(Sets("setOffset"), api)
    BY <1>1, <1>2, SetsFacts
  <1>5. Fits(methods, api)
    BY <1>3, <1>4 DEF Fits, Placing
  <1> QED
    BY <1>5 DEF api

(* What lamps add.                                                         *)
LEMMA EffectsFits ==
  Fits(Effects,
       [setBlink     |-> Order(sevenInts),
        revokeEffect |-> Order(<<"int">>)])
  <1> DEFINE methods == Effects
             api == [setBlink     |-> Order(sevenInts),
                 revokeEffect |-> Order(<<"int">>)]
  <1>1. /\ api.revokeEffect = Order(<<"int">>)
        /\ api.setBlink = Returns(sevenInts, "ok")
    BY DEF Order
  <1>2. {"revokeEffect", "setBlink"} \subseteq DOMAIN api
    OBVIOUS
  <1> HIDE DEF api
  <1>3. Agrees(Sets("revokeEffect"), api)
    BY <1>1, <1>2, SetsFacts
  <1>4. Agrees(Sends("setBlink", SevenInts, "parse_ok"), api)
    BY <1>1, <1>2, SendsFacts, SevenParameters DEF ReturnTypes, ParserOf
  <1>5. Fits(methods, api)
    BY <1>3, <1>4 DEF Fits, Effects
  <1> QED
    BY <1>5 DEF api

(* I2C.                                                                    *)
LEMMA RegistersFit == Fits(I2c.methods, i2c)
  <1> DEFINE methods == I2c.methods
             api == i2c
  <1>1. /\ api.setRegister = Returns(<<"int", "int">>, "ok")
        /\ api.getRegister = Returns(<<"int">>, "int")
    BY DEF i2c, Order
  <1>2. {"setRegister", "getRegister"} \subseteq DOMAIN api
    BY DEF i2c
  <1> HIDE DEF api
  <1>3. Agrees(Sends("setRegister", <<"int", "int">>, "parse_ok"), api)
    <2> DEFINE takes == <<"int", "int">>
               types == <<"int", "int">>
    <2>1. /\ takes \in Seq(ArgumentTypes) /\ types \in Seq(DeviceTypes)
          /\ Len(types) = Len(takes)
          /\ \A i \in 1..Len(types) : types[i] = TakenAs(takes[i])
      BY OtherParameters
    <2>2. "setRegister" \in DOMAIN api /\ api["setRegister"] = Returns(types, "ok")
      BY <1>1, <1>2
    <2> HIDE DEF takes, types
    <2>3. Agrees(Sends("setRegister", takes, "parse_ok"), api)
      BY <2>1, <2>2, SendsFacts DEF ReturnTypes, ParserOf
    <2> QED
      BY <2>3 DEF takes
  <1>4. Agrees(Sends("getRegister", <<"int">>, "parse_int"), api)
    <2> DEFINE takes == <<"int">>
               types == <<"int">>
    <2>1. /\ takes \in Seq(ArgumentTypes) /\ types \in Seq(DeviceTypes)
          /\ Len(types) = Len(takes)
          /\ \A i \in 1..Len(types) : types[i] = TakenAs(takes[i])
      BY OtherParameters
    <2>2. "getRegister" \in DOMAIN api /\ api["getRegister"] = Returns(types, "int")
      BY <1>1, <1>2
    <2> HIDE DEF takes, types
    <2>3. Agrees(Sends("getRegister", takes, "parse_int"), api)
      BY <2>1, <2>2, SendsFacts DEF ReturnTypes, ParserOf
    <2> QED
      BY <2>3 DEF takes
  <1>5. Fits(methods, api)
    BY <1>3, <1>4 DEF Fits, I2c, Actor, Class
  <1> QED
    BY <1>5 DEF api

(* Pixels: what they do of their own, and the effects of lamps.            *)
LEMMA ColorsFit ==
  Fits([set_color      |-> Sets("setColor"),
        get_color      |-> Gets("getColor", "parse_string"),
        set_brightness |-> Sets("setBrightness"),
        get_brightness |-> Gets("getBrightness", "parse_int")],
       pixel)
  <1> DEFINE methods == [set_color      |-> Sets("setColor"),
                     get_color      |-> Gets("getColor", "parse_string"),
                     set_brightness |-> Sets("setBrightness"),
                     get_brightness |-> Gets("getBrightness", "parse_int")]
             api == pixel
  <1>1. /\ api.getColor = Query("string")
        /\ api.getBrightness = Query("int")
        /\ api.setColor = Order(<<"int">>)
        /\ api.setBrightness = Order(<<"int">>)
    BY DEF pixel
  <1>2. {"getColor", "getBrightness", "setColor",
         "setBrightness"} \subseteq DOMAIN api
    BY DEF pixel
  <1> HIDE DEF api
  <1>3. /\ Agrees(Gets("getColor", "parse_string"), api)
        /\ Agrees(Gets("getBrightness", "parse_int"), api)
    BY <1>1, <1>2, GetsFacts DEF ReturnTypes, ParserOf
  <1>4. /\ Agrees(Sets("setColor"), api)
        /\ Agrees(Sets("setBrightness"), api)
    BY <1>1, <1>2, SetsFacts
  <1>5. Fits(methods, api)
    BY <1>3, <1>4 DEF Fits
  <1> QED
    BY <1>5 DEF api

LEMMA PixelEffectsFit == Fits(Effects, pixel)
  <1> DEFINE methods == Effects
             api == pixel
  <1>1. /\ api.revokeEffect = Order(<<"int">>)
        /\ api.setBlink = Returns(sevenInts, "ok")
    BY DEF pixel, Order
  <1>2. {"revokeEffect", "setBlink"} \subseteq DOMAIN api
    BY DEF pixel
  <1> HIDE DEF api
  <1>3. Agrees(Sets("revokeEffect"), api)
    BY <1>1, <1>2, SetsFacts
  <1>4. Agrees(Sends("setBlink", SevenInts, "parse_ok"), api)
    BY <1>1, <1>2, SendsFacts, SevenParameters DEF ReturnTypes, ParserOf
  <1>5. Fits(methods, api)
    BY <1>3, <1>4 DEF Fits, Effects
  <1> QED
    BY <1>5 DEF api

(* What steppers add.                                                      *)
LEMMA SteppingFits ==
  Fits([set_distance      |-> Sends("setDistance", <<"int", "bool">>, "parse_ok"),
        get_distance      |-> Gets("getDistance", "parse_int"),
        set_position      |-> Sets("setPosition"),
        get_position      |-> Gets("getPosition", "parse_int"),
        run               |-> Does("run"),
        is_running        |-> Gets("isRunning", "parse_bool"),
        stop              |-> Does("stop"),
        homing            |-> Sets("homing"),
        is_homing         |-> Gets("isHoming", "parse_bool"),
        set_homing_offset |-> Sets("setHomingOffset")],
       [setDistance     |-> Order(<<"int", "boolean">>),
        getDistance     |-> Query("int"),
        setPosition     |-> Order(<<"int">>),
        getPosition     |-> Query("int"),
        run             |-> Order(<<>>),
        isRunning       |-> Query("boolean"),
        stop            |-> Order(<<>>),
        homing          |-> Order(<<"int">>),
        isHoming        |-> Query("boolean"),
        setHomingOffset |-> Order(<<"int">>)])
  <1> DEFINE methods == [set_distance      |-> Sends("setDistance", <<"int", "bool">>, "parse_ok"),
                     get_distance      |-> Gets("getDistance", "parse_int"),
                     set_position      |-> Sets("setPosition"),
                     get_position      |-> Gets("getPosition", "parse_int"),
                     run               |-> Does("run"),
                     is_running        |-> Gets("isRunning", "parse_bool"),
                     stop              |-> Does("stop"),
                     homing            |-> Sets("homing"),
                     is_homing         |-> Gets("isHoming", "parse_bool"),
                     set_homing_offset |-> Sets("setHomingOffset")]
             api == [setDistance     |-> Order(<<"int", "boolean">>),
                 getDistance     |-> Query("int"),
                 setPosition     |-> Order(<<"int">>),
                 getPosition     |-> Query("int"),
                 run             |-> Order(<<>>),
                 isRunning       |-> Query("boolean"),
                 stop            |-> Order(<<>>),
                 homing          |-> Order(<<"int">>),
                 isHoming        |-> Query("boolean"),
                 setHomingOffset |-> Order(<<"int">>)]
  <1>1. /\ api.getDistance = Query("int")
        /\ api.getPosition = Query("int")
        /\ api.isRunning = Query("boolean")
        /\ api.isHoming = Query("boolean")
        /\ api.setPosition = Order(<<"int">>)
        /\ api.homing = Order(<<"int">>)
        /\ api.setHomingOffset = Order(<<"int">>)
        /\ api.run = Order(<<>>)
        /\ api.stop = Order(<<>>)
        /\ api.setDistance = Returns(<<"int", "boolean">>, "ok")
    BY DEF Order
  <1>2. {"getDistance", "getPosition", "isRunning",
         "isHoming", "setPosition", "homing",
         "setHomingOffset", "run", "stop", "setDistance"} \subseteq DOMAIN api
    OBVIOUS
  <1> HIDE DEF api
  <1>3. /\ Agrees(Gets("getDistance", "parse_int"), api)
        /\ Agrees(Gets("getPosition", "parse_int"), api)
        /\ Agrees(Gets("isRunning", "parse_bool"), api)
        /\ Agrees(Gets("isHoming", "parse_bool"), api)
    BY <1>1, <1>2, GetsFacts DEF ReturnTypes, ParserOf
  <1>4. /\ Agrees(Sets("setPosition"), api)
        /\ Agrees(Sets("homing"), api)
        /\ Agrees(Sets("setHomingOffset"), api)
    BY <1>1, <1>2, SetsFacts
  <1>5. /\ Agrees(Does("run"), api)
        /\ Agrees(Does("stop"), api)
    BY <1>1, <1>2, DoesFacts
  <1>6. Agrees(Sends("setDistance", <<"int", "bool">>, "parse_ok"), api)
    <2> DEFINE takes == <<"int", "bool">>
               types == <<"int", "boolean">>
    <2>1. /\ takes \in Seq(ArgumentTypes) /\ types \in Seq(DeviceTypes)
          /\ Len(types) = Len(takes)
          /\ \A i \in 1..Len(types) : types[i] = TakenAs(takes[i])
      BY OtherParameters
    <2>2. "setDistance" \in DOMAIN api /\ api["setDistance"] = Returns(types, "ok")
      BY <1>1, <1>2
    <2> HIDE DEF takes, types
    <2>3. Agrees(Sends("setDistance", takes, "parse_ok"), api)
      BY <2>1, <2>2, SendsFacts DEF ReturnTypes, ParserOf
    <2> QED
      BY <2>3 DEF takes
  <1>7. Fits(methods, api)
    BY <1>3, <1>4, <1>5, <1>6 DEF Fits
  <1> QED
    BY <1>7 DEF api

(* The objects that stand for a controller and for the swarm.              *)
LEMMA ControllerFits == Fits(Controller.methods, controller)
  <1> DEFINE methods == Controller.methods
             api == controller
  <1>1. /\ api.getMicrostepMode = Query("microstep_mode")
        /\ api.reboot = Order(<<>>)
        /\ api.unsubscribe = Order(<<>>)
        /\ api.setMicrostepMode = Returns(<<"microstep_mode">>, "ok")
    BY DEF controller, Order
  <1>2. {"getMicrostepMode", "reboot", "unsubscribe",
         "setMicrostepMode"} \subseteq DOMAIN api
    BY DEF controller
  <1> HIDE DEF api
  <1>3. Agrees(Gets("getMicrostepMode", "from_wire_value"), api)
    BY <1>1, <1>2, GetsFacts DEF ReturnTypes, ParserOf
  <1>4. /\ Agrees(Does("reboot"), api)
        /\ Agrees(Does("unsubscribe"), api)
    BY <1>1, <1>2, DoesFacts
  <1>5. Agrees(Sends("setMicrostepMode", <<"MicrostepMode">>, "parse_ok"), api)
    <2> DEFINE takes == <<"MicrostepMode">>
               types == <<"microstep_mode">>
    <2>1. /\ takes \in Seq(ArgumentTypes) /\ types \in Seq(DeviceTypes)
          /\ Len(types) = Len(takes)
          /\ \A i \in 1..Len(types) : types[i] = TakenAs(takes[i])
      BY OtherParameters
    <2>2. "setMicrostepMode" \in DOMAIN api /\ api["setMicrostepMode"] = Returns(types, "ok")
      BY <1>1, <1>2
    <2> HIDE DEF takes, types
    <2>3. Agrees(Sends("setMicrostepMode", takes, "parse_ok"), api)
      BY <2>1, <2>2, SendsFacts DEF ReturnTypes, ParserOf
    <2> QED
      BY <2>3 DEF takes
  <1>6. Fits(methods, api)
    BY <1>3, <1>4, <1>5 DEF Fits, Controller, Actor, Class
  <1> QED
    BY <1>6 DEF api

(* get_swarm sends a constant in front of no parameters.                   *)
LEMMA SwarmFits == Fits(Swarm.methods, swarm)
  <1>1. /\ swarm.getSwarm = Returns(<<"int">>, "string")
        /\ swarm.login = Order(<<"int">>) /\ swarm.useConfig = Order(<<"int">>)
        /\ swarm.unsubscribe = Order(<<>>)
    BY DEF swarm
  <1>2. {"getSwarm", "login", "useConfig", "unsubscribe"} \subseteq DOMAIN swarm
    BY DEF swarm
  <1>3. Agrees(Sets("login"), swarm) /\ Agrees(Sets("useConfig"), swarm)
    BY <1>1, <1>2, SetsFacts
  <1>4. Agrees(Does("unsubscribe"), swarm)
    BY <1>1, <1>2, DoesFacts
  <1> DEFINE get == [Gets("getSwarm", "parse_string") EXCEPT !.constant = TRUE]
  <1>5. Agrees(get, swarm)
    <2>1. /\ get.command = "getSwarm" /\ get.takes = <<>> /\ get.constant = TRUE
          /\ get.parser = ParserOf("string")
      BY DEF Gets, Sends, ParserOf
    <2>2. swarm["getSwarm"].takes = <<"int">> /\ swarm["getSwarm"].returns = "string"
      BY <1>1 DEF Returns
    <2> HIDE DEF get
    <2>3. TakesAs(get, <<"int">>)
      BY <2>1 DEF TakesAs
    <2> QED
      BY <1>2, <2>1, <2>2, <2>3, NoTypes DEF Agrees, ReturnTypes
  <1>6. Swarm.methods = [login |-> Sets("login"), get_swarm |-> get,
                         use_config |-> Sets("useConfig"),
                         unsubscribe |-> Does("unsubscribe")]
    BY DEF Swarm, Actor, Class
  <1> HIDE DEF get
  <1> QED
    BY <1>3, <1>4, <1>5, <1>6 DEF Fits

ValueSensors == {"Analog", "Counter", "FrequencyMeter", "Ldr", "RotaryEncoder"}
BooleanSensors == {"Button", "Digital", "LightBarrier", "ReedSwitch", "Switch"}
Motors == {"Buzzer", "Compressor", "Encoder", "MMotor", "MiniMotor", "Motor",
           "PowerMotor", "SMotor", "Tractor", "Valve", "WheelDrive", "XmMotor",
           "XsMotor"}
Others == {"Joystick", "Ohmmeter", "Power", "Thermometer", "Voltmeter", "I2c",
           "Lamp", "Pixel", "RcServo", "Servo", "Stepper", "Controller", "Swarm"}

(* Every class that the client can make an object of agrees with the       *)
(* definition of its kind.                                                 *)
LEMMA ClassNames ==
  DOMAIN Classes = ValueSensors \cup BooleanSensors \cup Motors \cup Others
  BY DEF Classes, ValueSensors, BooleanSensors, Motors, Others

LEMMA ClassesFit == \A k \in DOMAIN Classes : Fits(Classes[k].methods, Api(k))
  <1>1. ASSUME NEW k \in ValueSensors PROVE Fits(Classes[k].methods, Api(k))
    <2>1. Classes[k].methods = GetValue("parse_int")
      BY <1>1 DEF ValueSensors, Classes, Analog, Counter, FrequencyMeter, Ldr, RotaryEncoder,
         Sensor, Class
    <2>2. Api(k) = valueInt
      BY <1>1 DEF ValueSensors, Api
    <2> QED
      BY <2>1, <2>2, IntValueFits
  <1>2. ASSUME NEW k \in BooleanSensors PROVE Fits(Classes[k].methods, Api(k))
    <2>1. Classes[k].methods = GetValue("parse_bool")
      BY <1>2 DEF BooleanSensors, Classes, Button, Digital, LightBarrier, ReedSwitch, Switch,
         Sensor, Class
    <2>2. Api(k) = valueBoolean
      BY <1>2 DEF BooleanSensors, Api
    <2> QED
      BY <2>1, <2>2, BooleanValueFits
  <1>3. ASSUME NEW k \in Motors PROVE Fits(Classes[k].methods, Api(k))
    <2>1. Classes[k].methods = Motion
      BY <1>3 DEF Motors, Classes, Buzzer, Compressor, Encoder, MMotor, MiniMotor, Motor,
         PowerMotor, SMotor, Tractor, Valve, WheelDrive, XmMotor, XsMotor, Actor, Class
    <2>2. Api(k) = actor
      BY <1>3 DEF Motors, Api
    <2> QED
      BY <2>1, <2>2, MotionFits
  <1>4. Fits(Classes["Joystick"].methods, Api("Joystick"))
    <2>1. Classes["Joystick"].methods = GetValue("parse_joystick")
      BY DEF Classes, Joystick, Sensor, Class
    <2>2. Api("Joystick") = joystick
      BY DEF Api
    <2> QED
      BY <2>1, <2>2, JoystickFits
  <1>5. Fits(Classes["Ohmmeter"].methods, Api("Ohmmeter"))
    <2> DEFINE own == [get_resistance |-> Gets("getResistance", "parse_float")]
               more == [getResistance |-> Query("float")]
    <2>1. Classes["Ohmmeter"].methods = With(GetValue("parse_int"), own)
      BY DEF Classes, Ohmmeter, Sensor, Class
    <2>2. Api("Ohmmeter") = With(valueInt, more)
      BY DEF Api, ohmmeter
    <2>3. Fits(own, more)
      BY ResistanceFits
    <2>4. DOMAIN valueInt \cap DOMAIN more = {}
      BY DEF valueInt
    <2> HIDE DEF own, more
    <2>5. Fits(GetValue("parse_int"), With(valueInt, more)) /\ Fits(own, With(valueInt, more))
      BY <2>3, <2>4, IntValueFits, MergedApis
    <2> QED
      BY <2>1, <2>2, <2>5, MergedMethods
  <1>6. Fits(Classes["Power"].methods, Api("Power"))
    <2> DEFINE own == [get_voltage |-> Gets("getVoltage", "parse_float")]
               more == [getVoltage |-> Query("float")]
    <2>1. Classes["Power"].methods = With(GetValue("parse_int"), own)
      BY DEF Classes, Power, Sensor, Class
    <2>2. Api("Power") = With(valueInt, more)
      BY DEF Api, power
    <2>3. Fits(own, more)
      BY VoltageFits
    <2>4. DOMAIN valueInt \cap DOMAIN more = {}
      BY DEF valueInt
    <2> HIDE DEF own, more
    <2>5. Fits(GetValue("parse_int"), With(valueInt, more)) /\ Fits(own, With(valueInt, more))
      BY <2>3, <2>4, IntValueFits, MergedApis
    <2> QED
      BY <2>1, <2>2, <2>5, MergedMethods
  <1>7. Fits(Classes["Voltmeter"].methods, Api("Voltmeter"))
    <2> DEFINE own == [get_voltage |-> Gets("getVoltage", "parse_float")]
               more == [getVoltage |-> Query("float")]
    <2>1. Classes["Voltmeter"].methods = With(GetValue("parse_int"), own)
      BY DEF Classes, Voltmeter, Sensor, Class
    <2>2. Api("Voltmeter") = With(valueInt, more)
      BY DEF Api, voltmeter
    <2>3. Fits(own, more)
      BY VoltageFits
    <2>4. DOMAIN valueInt \cap DOMAIN more = {}
      BY DEF valueInt
    <2> HIDE DEF own, more
    <2>5. Fits(GetValue("parse_int"), With(valueInt, more)) /\ Fits(own, With(valueInt, more))
      BY <2>3, <2>4, IntValueFits, MergedApis
    <2> QED
      BY <2>1, <2>2, <2>5, MergedMethods
  <1>8. Fits(Classes["Thermometer"].methods, Api("Thermometer"))
    <2> DEFINE own == [get_kelvin     |-> Gets("getKelvin", "parse_float"),
                       get_celsius    |-> Gets("getCelcius", "parse_float"),
                       get_fahrenheit |-> Gets("getFahrenheit", "parse_float")]
               more == [getKelvin     |-> Query("float"),
                        getCelcius    |-> Query("float"),
                        getFahrenheit |-> Query("float")]
    <2>1. Classes["Thermometer"].methods = With(GetValue("parse_int"), own)
      BY DEF Classes, Thermometer, Sensor, Class
    <2>2. Api("Thermometer") = With(valueInt, more)
      BY DEF Api, thermometer
    <2>3. Fits(own, more)
      BY TemperatureFits
    <2>4. DOMAIN valueInt \cap DOMAIN more = {}
      BY DEF valueInt
    <2> HIDE DEF own, more
    <2>5. Fits(GetValue("parse_int"), With(valueInt, more)) /\ Fits(own, With(valueInt, more))
      BY <2>3, <2>4, IntValueFits, MergedApis
    <2> QED
      BY <2>1, <2>2, <2>5, MergedMethods
  <1>9. Fits(Classes["I2c"].methods, Api("I2c"))
    <2>1. Classes["I2c"].methods = I2c.methods
      BY DEF Classes
    <2>2. Api("I2c") = i2c
      BY DEF Api
    <2> QED
      BY <2>1, <2>2, RegistersFit
  <1>10. Fits(Classes["Lamp"].methods, Api("Lamp"))
    <2> DEFINE own == Effects
               more == [setBlink     |-> Order(sevenInts),
                        revokeEffect |-> Order(<<"int">>)]
    <2>1. Classes["Lamp"].methods = With(Motion, own)
      BY DEF Classes, Lamp, Actor, Class
    <2>2. Api("Lamp") = With(actor, more)
      BY DEF Api, lamp
    <2>3. Fits(own, more)
      BY EffectsFits
    <2>4. DOMAIN actor \cap DOMAIN more = {}
      BY DEF actor
    <2> HIDE DEF own, more
    <2>5. Fits(Motion, With(actor, more)) /\ Fits(own, With(actor, more))
      BY <2>3, <2>4, MotionFits, MergedApis
    <2> QED
      BY <2>1, <2>2, <2>5, MergedMethods
  <1>11. Fits(Classes["Pixel"].methods, Api("Pixel"))
    <2> DEFINE own == [set_color      |-> Sets("setColor"),
                       get_color      |-> Gets("getColor", "parse_string"),
                       set_brightness |-> Sets("setBrightness"),
                       get_brightness |-> Gets("getBrightness", "parse_int")]
    <2>1. Classes["Pixel"].methods = With(own, Effects)
      BY DEF Classes, Pixel, Actor, Class
    <2>2. Api("Pixel") = pixel
      BY DEF Api
    <2>3. Fits(own, pixel)
      BY ColorsFit
    <2> HIDE DEF own
    <2> QED
      BY <2>1, <2>2, <2>3, PixelEffectsFit, MergedMethods
  <1>12. ASSUME NEW k \in {"RcServo", "Servo"} PROVE Fits(Classes[k].methods, Api(k))
    <2>1. Classes[k].methods = Placing
      BY <1>12 DEF Classes, RcServo, Servo, Actor, Class
    <2>2. Api(k) = servo
      BY <1>12 DEF Api
    <2> QED
      BY <2>1, <2>2, PlacingFits
  <1>13. Fits(Classes["Stepper"].methods, Api("Stepper"))
    <2> DEFINE own == [set_distance      |-> Sends("setDistance", <<"int", "bool">>, "parse_ok"),
                       get_distance      |-> Gets("getDistance", "parse_int"),
                       set_position      |-> Sets("setPosition"),
                       get_position      |-> Gets("getPosition", "parse_int"),
                       run               |-> Does("run"),
                       is_running        |-> Gets("isRunning", "parse_bool"),
                       stop              |-> Does("stop"),
                       homing            |-> Sets("homing"),
                       is_homing         |-> Gets("isHoming", "parse_bool"),
                       set_homing_offset |-> Sets("setHomingOffset")]
               more == [setDistance     |-> Order(<<"int", "boolean">>),
                        getDistance     |-> Query("int"),
                        setPosition     |-> Order(<<"int">>),
                        getPosition     |-> Query("int"),
                        run             |-> Order(<<>>),
                        isRunning       |-> Query("boolean"),
                        stop            |-> Order(<<>>),
                        homing          |-> Order(<<"int">>),
                        isHoming        |-> Query("boolean"),
                        setHomingOffset |-> Order(<<"int">>)]
    <2>1. Classes["Stepper"].methods = With(Motion, own)
      BY DEF Classes, Stepper, Class
    <2>2. Api("Stepper") = With(actor, more)
      BY DEF Api, stepper
    <2>3. Fits(own, more)
      BY SteppingFits
    <2>4. DOMAIN actor \cap DOMAIN more = {}
      BY DEF actor
    <2> HIDE DEF own, more
    <2>5. Fits(Motion, With(actor, more)) /\ Fits(own, With(actor, more))
      BY <2>3, <2>4, MotionFits, MergedApis
    <2> QED
      BY <2>1, <2>2, <2>5, MergedMethods
  <1>14. Fits(Classes["Controller"].methods, Api("Controller"))
    <2>1. Classes["Controller"].methods = Controller.methods
      BY DEF Classes
    <2>2. Api("Controller") = controller
      BY DEF Api
    <2> QED
      BY <2>1, <2>2, ControllerFits
  <1>15. Fits(Classes["Swarm"].methods, Api("Swarm"))
    <2>1. Classes["Swarm"].methods = Swarm.methods
      BY DEF Classes
    <2>2. Api("Swarm") = swarm
      BY DEF Api
    <2> QED
      BY <2>1, <2>2, SwarmFits
  <1> QED
    BY <1>1, <1>2, <1>3, <1>4, <1>5, <1>6, <1>7, <1>8, <1>9, <1>10, <1>11, <1>12, <1>13, <1>14, <1>15, ClassNames DEF Others
-----------------------------------------------------------------------------
(* Values and arguments                                                    *)

(* Every value that the device may answer with is parsed back, in type and *)
(* in content, whatever the numbers it is made of.                         *)
LEMMA AnswersParse ==
  ASSUME NEW type \in ReturnTypes, NEW value \in ValuesOf(type, Numbers)
  PROVE  /\ value.type \in Results
         /\ Parse(ParserOf(type), Format(value)) = value
  <1>1. CASE type = "ok"
    <2>1. value = None /\ ParserOf(type) = "parse_ok"
      BY <1>1 DEF ValuesOf, ParserOf
    <2>2. Format(value) = <<Word("int", 0), Word("ok", 0)>>
      BY <2>1 DEF Format, None, Value
    <2>3. parse_ok(Format(value)) = None
      BY <2>2 DEF parse_ok, Word
    <2> QED
      BY <2>1, <2>3 DEF Parse, Results, None, Value
  <1>2. CASE type = "int"
    <2>1. PICK n \in Numbers : value = Value("int", <<n>>)
      BY <1>2 DEF ValuesOf
    <2>2. ParserOf(type) = "parse_int"
      BY <1>2 DEF ParserOf
    <2>3. Format(value) = <<Word("int", n)>>
      BY <2>1 DEF Format, Value
    <2>4. parse_int(Format(value)) = value
      BY <2>1, <2>3 DEF parse_int, Word, Value, IsInt, IsFloat, MicrostepModes
    <2> QED
      BY <2>1, <2>2, <2>4 DEF Parse, Results, Value
  <1>3. CASE type = "float"
    <2>1. PICK n \in Numbers : value = Value("float", <<n>>)
      BY <1>3 DEF ValuesOf
    <2>2. ParserOf(type) = "parse_float"
      BY <1>3 DEF ParserOf
    <2>3. Format(value) = <<Word("float", n)>>
      BY <2>1 DEF Format, Value
    <2>4. parse_float(Format(value)) = value
      BY <2>1, <2>3 DEF parse_float, Word, Value, IsInt, IsFloat, MicrostepModes
    <2> QED
      BY <2>1, <2>2, <2>4 DEF Parse, Results, Value
  <1>4. CASE type = "boolean"
    <2>1. PICK n \in {0, 1} : value = Value("bool", <<n>>)
      BY <1>4 DEF ValuesOf
    <2>2. ParserOf(type) = "parse_bool"
      BY <1>4 DEF ParserOf
    <2>3. Format(value) = <<Word("int", n)>>
      BY <2>1 DEF Format, Value
    <2>4. parse_bool(Format(value)) = value
      BY <2>1, <2>3 DEF parse_bool, Word, Value, IsInt, IsFloat, MicrostepModes
    <2> QED
      BY <2>1, <2>2, <2>4 DEF Parse, Results, Value
  <1>5. CASE type = "string"
    <2>1. PICK n \in Numbers : value = Value("str", <<n>>)
      BY <1>5 DEF ValuesOf
    <2>2. ParserOf(type) = "parse_string"
      BY <1>5 DEF ParserOf
    <2>3. Format(value) = <<Word("quoted", n)>>
      BY <2>1 DEF Format, Value
    <2>4. parse_string(Format(value)) = value
      BY <2>1, <2>3 DEF parse_string, Word, Value, IsInt, IsFloat, MicrostepModes
    <2> QED
      BY <2>1, <2>2, <2>4 DEF Parse, Results, Value
  <1>6. CASE type = "microstep_mode"
    <2>1. PICK n \in MicrostepModes : value = Value("MicrostepMode", <<n>>)
      BY <1>6 DEF ValuesOf
    <2>2. ParserOf(type) = "from_wire_value"
      BY <1>6 DEF ParserOf
    <2>3. Format(value) = <<Word("int", n)>>
      BY <2>1 DEF Format, Value
    <2>4. from_wire_value(Format(value)) = value
      BY <2>1, <2>3 DEF from_wire_value, Word, Value, IsInt, IsFloat, MicrostepModes
    <2> QED
      BY <2>1, <2>2, <2>4 DEF Parse, Results, Value
  <1>7. CASE type = "joystick"
    <2>1. PICK m \in Numbers, n \in Numbers : value = Value("JoystickValue", <<m, n>>)
      BY <1>7 DEF ValuesOf
    <2>2. ParserOf(type) = "parse_joystick"
      BY <1>7 DEF ParserOf
    <2>3. Format(value) = <<Word("float", m), Word("float", n)>>
      BY <2>1 DEF Format, Value
    <2>4. parse_joystick(Format(value)) = value
      BY <2>1, <2>3 DEF parse_joystick, Word, Value, IsFloat
    <2> QED
      BY <2>1, <2>2, <2>4 DEF Parse, Results, Value
  <1> QED
    BY <1>1, <1>2, <1>3, <1>4, <1>5, <1>6, <1>7 DEF ReturnTypes

(* What is sent for an argument of a declared type.                        *)
SentFor(type) ==
    CASE type = "int"           -> Value("int", <<1>>)
      [] type = "bool"          -> Value("bool", <<1>>)
      [] type = "MicrostepMode" -> Value("int", <<7>>)
Sendable == {Value("int", <<0>>), Value("int", <<1>>), Value("bool", <<1>>), Value("int", <<7>>)}

(* It is sent as the device understands it,                                *)
LEMMA SentFacts ==
  ASSUME NEW type \in ArgumentTypes
  PROVE  /\ Argument(type).type = type
         /\ SentFor(type) \in Sendable
         /\ SentFor(type) = IF Argument(type).type = "MicrostepMode"
                            THEN Value("int", Argument(type).of) ELSE Argument(type)
         /\ Understands(EncodeParameter(SentFor(type)), TakenAs(type))
  <1>1. CASE type = "int"
    BY <1>1 DEF Argument, SentFor, Sendable, Value, Understands, EncodeParameter, TakenAs, Word
  <1>2. CASE type = "bool"
    BY <1>2 DEF Argument, SentFor, Sendable, Value, Understands, EncodeParameter, TakenAs, Word
  <1>3. CASE type = "MicrostepMode"
    BY <1>3 DEF Argument, SentFor, Sendable, Value, Understands, EncodeParameter, TakenAs, Word,
                MicrostepModes
  <1> QED
    BY <1>1, <1>2, <1>3 DEF ArgumentTypes

(* and can be encoded.                                                     *)
LEMMA SendableEncodes ==
  ASSUME NEW parameters \in Seq(Sendable)
  PROVE  EncodeError(parameters) = None
  <1>1. \A v \in Sendable : v # TextWithQuote /\ v.type \in {"bool", "str", "int", "float"}
    BY DEF Sendable, TextWithQuote, Value
  <1>2. \A i \in DOMAIN parameters : parameters[i] \in Sendable
    OBVIOUS
  <1> DEFINE error(value) ==
        CASE value = TextWithQuote -> ValueError
          [] value.type \notin {"bool", "str", "int", "float"} -> TypeError
          [] OTHER -> None
  <1>3. \A v \in Sendable : error(v) = None
    BY <1>1
  <1> HIDE DEF error
  <1>4. {i \in DOMAIN parameters : error(parameters[i]) # None} = {}
    BY <1>2, <1>3
  <1> QED
    BY <1>4 DEF EncodeError, error

(* A constant comes in front of no parameters, or there is none.           *)
LEMMA Concatenations ==
  ASSUME NEW S, NEW v \in S, NEW f \in Seq(S)
  PROVE  /\ <<>> \o f = f
         /\ Len(f) = 0 => <<v>> \o f = <<v>>
  <1>1. <<>> \o f = f /\ <<v>> \o <<>> = <<v>> /\ (Len(f) = 0 => f = <<>>)
    BY ConcatEmptySeq, EmptySeq
  <1> QED
    BY <1>1

(* A call as the method is declared reaches the transport, unless an       *)
(* attribute hides the method, and the device knows what is sent.          *)
LEMMA DeclaredFacts ==
  ASSUME kind \in DOMAIN Classes, NEW method \in DOMAIN Methods
  PROVE  /\ method \notin Classes[kind].attributes => ErrorBefore(method, Declared(method)) = None
         /\ Knows(kind, Methods[method].command, EncodeParameters(Parameters(method, Declared(method))))
  <1> DEFINE m == Methods[method]
             api == Api(kind)
             arguments == Declared(method)
             sent == [i \in DOMAIN arguments |->
                        IF arguments[i].type = "MicrostepMode"
                        THEN Value("int", arguments[i].of) ELSE arguments[i]]
             parameters == Parameters(method, arguments)
             types == api[m.command].takes
  <1>1. Agrees(m, api)
    BY ClassesFit DEF Fits, Methods
  <1>2. arguments = [i \in DOMAIN m.takes |-> Argument(m.takes[i])]
    BY DEF Declared
  <1>3. parameters = (IF m.constant THEN <<Value("int", <<0>>)>> ELSE <<>>) \o sent
    BY DEF Parameters
  <1> HIDE DEF m, api, arguments, parameters
  <1>4. /\ m.takes \in Seq(ArgumentTypes) /\ Len(m.takes) \in Nat
        /\ DOMAIN m.takes = 1..Len(m.takes)
        /\ \A i \in 1..Len(m.takes) : m.takes[i] \in ArgumentTypes
        /\ DOMAIN arguments = 1..Len(m.takes)
    BY <1>1, <1>2 DEF Agrees
  <1>5. sent = [i \in 1..Len(m.takes) |-> SentFor(m.takes[i])]
    BY <1>2, <1>4, SentFacts
  <1> HIDE DEF sent
  <1>6. sent \in Seq(Sendable) /\ Len(sent) = Len(m.takes)
    BY <1>4, <1>5, SentFacts
  <1>7. \A i \in 1..Len(m.takes) : arguments[i].type = m.takes[i]
    BY <1>2, <1>4, SentFacts
  <1>8. /\ m.constant => parameters = <<Value("int", <<0>>)>> /\ types = <<"int">>
        /\ ~m.constant => /\ parameters = sent
                          /\ Len(types) = Len(sent) /\ DOMAIN types = 1..Len(sent)
                          /\ \A i \in 1..Len(sent) : types[i] = TakenAs(m.takes[i])
    <2>1. <<>> \o sent = sent /\ (Len(sent) = 0 => <<Value("int", <<0>>)>> \o sent = <<Value("int", <<0>>)>>)
      BY <1>6, Concatenations DEF Sendable
    <2>2. m.constant => Len(m.takes) = 0 /\ types = <<"int">>
      BY <1>1, NoTypes DEF Agrees, TakesAs
    <2>3. ~m.constant => /\ Len(types) = Len(m.takes) /\ types \in Seq(DeviceTypes)
                         /\ \A i \in 1..Len(types) : types[i] = TakenAs(m.takes[i])
      BY <1>1 DEF Agrees, TakesAs
    <2> HIDE DEF types
    <2> QED
      BY <1>3, <1>6, <2>1, <2>2, <2>3
  <1>9. parameters \in Seq(Sendable)
    <2>1. <<Value("int", <<0>>)>> \in Seq(Sendable)
      BY DEF Sendable
    <2> QED
      BY <1>6, <1>8, <2>1
  <1>10. method \notin Classes[kind].attributes => ErrorBefore(method, arguments) = None
    <2>1. EncodeError(parameters) = None
      BY <1>9, SendableEncodes
    <2>2. ~ \E i \in DOMAIN arguments : /\ m.takes[i] = "MicrostepMode"
                                        /\ arguments[i].type # "MicrostepMode"
      BY <1>4, <1>7
    <2> QED
      BY <2>1, <2>2 DEF ErrorBefore, parameters, m
  <1>11. /\ Len(EncodeParameters(parameters)) = Len(types)
         /\ \A i \in DOMAIN types : Understands(EncodeParameters(parameters)[i], types[i])
    <2>1. /\ EncodeParameters(parameters) = [i \in 1..Len(parameters) |-> EncodeParameter(parameters[i])]
          /\ Len(EncodeParameters(parameters)) = Len(parameters)
      BY <1>9 DEF EncodeParameters
    <2>2. CASE m.constant
      <3>1. Understands(EncodeParameter(Value("int", <<0>>)), "int")
        BY DEF Understands, EncodeParameter, Value, Word
      <3> QED
        BY <1>8, <2>1, <2>2, <3>1
    <2>3. CASE ~m.constant
      <3>1. \A i \in 1..Len(sent) : Understands(EncodeParameter(sent[i]), TakenAs(m.takes[i]))
        BY <1>4, <1>5, <1>6, SentFacts
      <3> HIDE DEF types
      <3> QED
        BY <1>8, <2>1, <2>3, <3>1
    <2> QED
      BY <2>2, <2>3
  <1>12. m.command \in DOMAIN api
    BY <1>1 DEF Agrees
  <1>13. Knows(kind, m.command, EncodeParameters(parameters))
    BY <1>11, <1>12 DEF Knows, api
  <1> QED
    BY <1>10, <1>13 DEF m, parameters, arguments
-----------------------------------------------------------------------------
(* The inductive invariant                                                 *)

(* A client that was opened has its object, and nothing happens before.    *)
HasObject == client \in {"open", "leaving", "left"}
OpensFirst ==
    /\ client = "new" => opener = "idle"
    /\ HasObject => opener = "opened" /\ kind \in Kinds
    /\ ~HasObject => /\ \A c \in Calls : outcome[c] = Idle
                     /\ toDevice = <<>> /\ toHost = <<>> /\ pending = <<>>
    /\ opener \in {"handshake", "opened"} /\ ~failed => port # NoPort

(* What is known of a call from where it is.                               *)
Begun ==
    \A c \in Calls :
        /\ outcome[c] = Idle => use[c] = NoUse /\ c \notin late
        /\ outcome[c] # Idle => use[c].method \in DOMAIN Methods
        /\ outcome[c] \in {Idle, Checked} => future[c] = NotDone
        /\ outcome[c] \in {Idle, Checked, Writing} => answer[c] = Idle

(* A line answers a call when it says what the device answered.            *)
ReturnsOf(c) == Api(kind)[Methods[use[c].method].command].returns
IsReplyTo(line, c) ==
    \/ line = ErrorLine /\ answer[c] \in {FtSwarmError, Unknown}
    \/ /\ line = [tag |-> "result", text |-> Format(answer[c])]
       /\ answer[c] \in ValuesOf(ReturnsOf(c), Numbers)

(* One request for each call that was sent and that the device has not     *)
(* answered; only a late call's may have run into the beginning of another. *)
Requests ==
    /\ \A i, j \in 1..Len(toDevice) : toDevice[i].call = toDevice[j].call => i = j
    /\ \A i \in 1..Len(toDevice) :
          LET sent == toDevice[i]
          IN  /\ sent = Request(sent.call, sent.whole)
              /\ sent.whole \/ sent.call \in late
              /\ outcome[sent.call] \notin {Idle, Checked, Writing}
              /\ answer[sent.call] = Idle

(* A slot is that of one call, whose future is open; the write lock lets   *)
(* one call in.                                                            *)
Slots ==
    /\ \A i, j \in 1..Len(pending) : pending[i] = pending[j] => i = j
    /\ \A i \in 1..Len(pending) :
          /\ future[pending[i]] = NotDone
          /\ outcome[pending[i]] \in {Writing, Waiting, Cancelled}
    /\ \A c, d \in Calls : outcome[c] = Writing /\ outcome[d] = Writing => c = d

(* As long as nothing failed, the deque lists the calls in the order of    *)
(* their answers, the one that is being written last.                      *)
Correlates ==
    ~failed =>
        /\ ~torn /\ late = {}
        /\ \A i \in 1..Len(toHost) :
              i \in 1..Len(pending) /\ IsReplyTo(toHost[i], pending[i])
        /\ \A i \in 1..Len(toDevice) :
              /\ Len(toHost) + i \in 1..Len(pending)
              /\ toDevice[i].call = pending[Len(toHost) + i]
        /\ (\A c \in Calls : outcome[c] # Writing) =>
              Len(pending) = Len(toHost) + Len(toDevice)
        /\ \A c \in Calls : outcome[c] = Writing =>
              /\ Len(pending) = Len(toHost) + Len(toDevice) + 1
              /\ pending[Len(pending)] = c

(* Once something failed, the reader can give a reply only to a late call, *)
(* or to one whose write is about to find the port closed; who has yet to  *)
(* take its slot, or to write behind the beginning of a line, is late.     *)
Strays ==
    /\ failed /\ reading =>
          /\ \A i \in 1..Len(pending) :
                \/ pending[i] \in late
                \/ port = NoPort /\ outcome[pending[i]] = Writing
          /\ \A c \in Calls : outcome[c] = Checked => c \in late \/ port = NoPort
    /\ torn => \A c \in Calls : outcome[c] \in {Checked, Writing} => c \in late

(* A call that waits, or is about to, has the reply to itself or none.     *)
FuturesAnswer ==
    \A c \in Calls \ late :
        outcome[c] = Waiting \/ (outcome[c] = Writing /\ port # NoPort) =>
            future[c] \in {NotDone, TransportError} \/ IsReplyTo(future[c], c)

(* The variables are functions of the calls, and the lines sequences.      *)
OfCalls(f) == f = [c \in Calls |-> f[c]]
IsLine(s) == Len(s) \in Nat /\ s = [i \in 1..Len(s) |-> s[i]]
AreFunctions ==
    /\ OfCalls(use) /\ OfCalls(outcome) /\ OfCalls(future) /\ OfCalls(answer)
    /\ IsLine(toDevice) /\ IsLine(toHost)

IInv ==
    /\ TypeOK
    /\ AreFunctions
    /\ OpensFirst
    /\ Begun
    /\ Requests
    /\ Slots
    /\ Correlates
    /\ Strays
    /\ FuturesAnswer
    /\ AnswersAreOwn
    /\ DeclaredCallsWork

-----------------------------------------------------------------------------
(* What a step leaves alone                                                *)

(* Sequences, whatever they are of.                                        *)
LEMMA EmptyLine ==
  IsLine(<<>>)
  BY DEF IsLine

LEMMA SequenceIsLine ==
  ASSUME NEW S, NEW s \in Seq(S)
  PROVE  IsLine(s)
  <1>1. Len(s) \in Nat /\ DOMAIN s = 1..Len(s)
    OBVIOUS
  <1>2. s = [i \in 1..Len(s) |-> s[i]]
    BY <1>1
  <1> QED
    BY <1>1, <1>2 DEF IsLine

LEMMA LineFacts ==
  ASSUME NEW s, IsLine(s)
  PROVE  /\ \A x : /\ IsLine(Append(s, x))
                  /\ Len(Append(s, x)) = Len(s) + 1
                  /\ Append(s, x)[Len(s) + 1] = x
                  /\ \A i \in 1..Len(s) : Append(s, x)[i] = s[i]
         /\ s # <<>> =>
               /\ 1 \in 1..Len(s)
               /\ Head(s) = s[1]
               /\ IsLine(Tail(s))
               /\ Len(Tail(s)) = Len(s) - 1
               /\ \A i \in 1..Len(Tail(s)) : i + 1 \in 1..Len(s) /\ Tail(s)[i] = s[i + 1]
  <1> DEFINE S == {s[i] : i \in 1..Len(s)}
  <1>1. s \in Seq(S)
    BY DEF IsLine
  <1>2. ASSUME NEW x
        PROVE  /\ IsLine(Append(s, x))
               /\ Len(Append(s, x)) = Len(s) + 1
               /\ Append(s, x)[Len(s) + 1] = x
               /\ \A i \in 1..Len(s) : Append(s, x)[i] = s[i]
    <2> DEFINE T == S \cup {x}
    <2>1. s \in Seq(T) /\ x \in T
      BY <1>1
    <2> HIDE DEF T
    <2>2. Append(s, x) \in Seq(T)
      BY <2>1
    <2>3. IsLine(Append(s, x))
      BY <2>2, SequenceIsLine
    <2> QED
      BY <2>1, <2>3
  <1> HIDE DEF S
  <1>3. ASSUME s # <<>>
        PROVE  /\ 1 \in 1..Len(s)
               /\ Head(s) = s[1]
               /\ IsLine(Tail(s))
               /\ Len(Tail(s)) = Len(s) - 1
               /\ \A i \in 1..Len(Tail(s)) : i + 1 \in 1..Len(s) /\ Tail(s)[i] = s[i + 1]
    <2>1. Tail(s) \in Seq(S) /\ Len(Tail(s)) = Len(s) - 1 /\ Len(s) \in Nat /\ Len(s) > 0
      BY <1>1, <1>3
    <2>2. IsLine(Tail(s))
      BY <2>1, SequenceIsLine
    <2> QED
      BY <1>1, <1>3, <2>1, <2>2
  <1> QED
    BY <1>2, <1>3

(* The object keeps its methods; a call that is neither begun nor answered *)
(* keeps what was sent for it and what is a reply to it.                   *)
LEMMA ObjectFrame ==
  ASSUME UNCHANGED kind
  PROVE  Methods' = Methods
  BY DEF Methods

LEMMA CallFrame ==
  ASSUME NEW c \in Calls, UNCHANGED kind, use'[c] = use[c], answer'[c] = answer[c]
  PROVE  /\ \A whole : Request(c, whole)' = Request(c, whole)
         /\ ReturnsOf(c)' = ReturnsOf(c)
         /\ \A line : IsReplyTo(line, c)' <=> IsReplyTo(line, c)
  BY DEF Request, ReturnsOf, IsReplyTo, Methods, Parameters

(* The slots and the requests are those of calls.                          *)
LEMMA CallTypes ==
  ASSUME TypeOK
  PROVE  /\ pending \in Seq(Calls)
         /\ \A i \in 1..Len(pending) : pending[i] \in Calls
         /\ \A i \in 1..Len(toDevice) : toDevice[i].call \in Calls
  BY DEF TypeOK

(* The places a call can be at differ.                                     *)
LEMMA Places ==
  /\ Idle.type = "idle" /\ Checked.type = "checked" /\ Writing.type = "writing"
  /\ Waiting.type = "waiting" /\ Cancelled.type = "Cancelled"
  /\ FtSwarmError.type = "FtSwarmError" /\ Unknown.type = "Unknown"
  BY DEF Idle, Checked, Writing, Waiting, Cancelled, FtSwarmError, Unknown, Raised, Value

(* Nothing of the calls changes, unless the reader ends.                   *)
LEMMA QuietStep ==
  ASSUME IInv, UNCHANGED <<kind, port, callVars, failed, pending, future, wireVars>>,
         reading' \in BOOLEAN, reading' => reading,
         client' \in {"new", "sync", "async", "open", "failed", "cancelled", "leaving", "left"},
         opener' \in {"idle", "finding", "handshake", "opened", "raised"},
         port' # NoPort => opener' \in {"handshake", "opened"},
         OpensFirst'
  PROVE  IInv'
  <1> USE DEF callVars, wireVars
  <1>1. Methods' = Methods
    BY ObjectFrame
  <1>2. \A c \in Calls : /\ \A whole : Request(c, whole)' = Request(c, whole)
                         /\ \A line : IsReplyTo(line, c)' <=> IsReplyTo(line, c)
    BY CallFrame
  <1>3. TypeOK' /\ AreFunctions'
    BY <1>1 DEF IInv, TypeOK, AreFunctions, OfCalls, IsLine
  <1>4. Begun'
    BY <1>1 DEF IInv, Begun
  <1>5. Requests'
    BY <1>2, CallTypes DEF IInv, Requests
  <1>6. Slots' /\ Strays'
    BY DEF IInv, Slots, Strays
  <1>7. Correlates'
    BY <1>2, CallTypes DEF IInv, Correlates
  <1>8. FuturesAnswer'
    BY <1>2 DEF IInv, FuturesAnswer
  <1>9. AnswersAreOwn' /\ DeclaredCallsWork'
    BY <1>1 DEF IInv, AnswersAreOwn, OwnAnswer, DeclaredCallsWork, Misfires, Declared, Methods
  <1> QED
    BY <1>3, <1>4, <1>5, <1>6, <1>7, <1>8, <1>9 DEF IInv

(* Nothing has been called yet, and the client gets its transport and its  *)
(* object.                                                                 *)
LEMMA BeforeCalls ==
  ASSUME IInv, ~HasObject, UNCHANGED <<callVars, failed, pending, future, wireVars>>,
         reading' \in BOOLEAN, kind' \in Kinds \cup {"none"},
         client' \in {"new", "sync", "async", "open", "failed", "cancelled", "leaving", "left"},
         opener' \in {"idle", "finding", "handshake", "opened", "raised"},
         port' # NoPort => opener' \in {"handshake", "opened"},
         OpensFirst'
  PROVE  IInv'
  <1> USE DEF callVars, wireVars
  <1>1. /\ toDevice' = <<>> /\ toHost' = <<>> /\ pending' = <<>>
        /\ \A c \in Calls : /\ outcome'[c] = Idle /\ use'[c] = NoUse /\ c \notin late'
                            /\ future'[c] = NotDone /\ answer'[c] = Idle
    BY DEF IInv, OpensFirst, Begun
  <1>2. Idle # Checked /\ Idle # Writing /\ Idle # Waiting /\ Idle # FtSwarmError
        /\ Idle # Unknown /\ "idle" \notin Results /\ Idle.type = "idle"
    BY Places DEF Results
  <1>3. TypeOK'
    BY <1>1 DEF IInv, TypeOK
  <1>4. AreFunctions'
    BY DEF IInv, AreFunctions, OfCalls, IsLine
  <1>5. Begun'
    BY <1>1 DEF Begun
  <1>6. Requests' /\ Slots' /\ Strays'
    BY <1>1, <1>2 DEF IInv, Requests, Slots, Strays
  <1>7. Correlates'
    BY <1>1, <1>2 DEF IInv, Correlates
  <1>8. FuturesAnswer'
    BY <1>1 DEF FuturesAnswer
  <1>9. AnswersAreOwn' /\ DeclaredCallsWork'
    BY <1>1, <1>2 DEF AnswersAreOwn, OwnAnswer, DeclaredCallsWork
  <1> QED
    BY <1>3, <1>4, <1>5, <1>6, <1>7, <1>8, <1>9 DEF IInv

(* The deque is drained.                                                   *)
LEMMA FailFacts ==
  ASSUME IInv, Fail
  PROVE  /\ failed' = TRUE /\ pending' = <<>> /\ OfCalls(future)'
         /\ \A c \in Calls : \/ future'[c] = future[c]
                             \/ /\ future'[c] = TransportError
                                /\ outcome[c] \notin {Idle, Checked}
  <1>1. \A i \in DOMAIN pending : outcome[pending[i]] \notin {Idle, Checked}
    <2>1. DOMAIN pending = 1..Len(pending)
      BY DEF IInv, TypeOK
    <2> QED
      BY <2>1, Places DEF IInv, Slots
  <1> QED
    BY <1>1 DEF Fail, OfCalls

(* The transport is closed, or its reader fails and ends.                  *)
LEMMA FailStep ==
  ASSUME IInv, Fail, UNCHANGED <<kind, callVars, wireVars>>,
         reading' \in BOOLEAN, port' = NoPort \/ (port' = port /\ ~reading'),
         client' \in {"new", "sync", "async", "open", "failed", "cancelled", "leaving", "left"},
         opener' \in {"idle", "finding", "handshake", "opened", "raised"},
         port' # NoPort => opener' \in {"handshake", "opened"},
         OpensFirst'
  PROVE  IInv'
  <1> USE DEF callVars, wireVars
  <1>1. Methods' = Methods
    BY ObjectFrame
  <1>2. \A c \in Calls : /\ \A whole : Request(c, whole)' = Request(c, whole)
                         /\ \A line : IsReplyTo(line, c)' <=> IsReplyTo(line, c)
    BY CallFrame
  <1>3. /\ failed' = TRUE /\ pending' = <<>> /\ OfCalls(future)'
        /\ \A c \in Calls : \/ future'[c] = future[c]
                            \/ /\ future'[c] = TransportError
                               /\ outcome[c] \notin {Idle, Checked}
    BY FailFacts
  <1>4. TypeOK'
    BY <1>1, <1>3 DEF IInv, TypeOK, TransportError
  <1>5. AreFunctions'
    BY <1>3 DEF IInv, AreFunctions, OfCalls, IsLine
  <1>6. Begun'
    BY <1>1, <1>3 DEF IInv, Begun
  <1>7. Requests'
    BY <1>2, CallTypes DEF IInv, Requests
  <1>8. Slots' /\ Correlates' /\ Strays'
    BY <1>3 DEF IInv, Slots, Correlates, Strays
  <1>9. FuturesAnswer'
    BY <1>2, <1>3 DEF IInv, FuturesAnswer
  <1>10. AnswersAreOwn' /\ DeclaredCallsWork'
    BY <1>1 DEF IInv, AnswersAreOwn, OwnAnswer, DeclaredCallsWork, Misfires, Declared, Methods
  <1> QED
    BY <1>4, <1>5, <1>6, <1>7, <1>8, <1>9, <1>10 DEF IInv

-----------------------------------------------------------------------------
(* Opening and leaving                                                     *)

(* open(), and the thread that runs it, before anything is called.         *)
LEMMA OpeningSteps ==
  ASSUME IInv,
         \/ \E flavour \in {"sync", "async"} : Open(flavour)
         \/ FindPort \/ FindPortFails \/ Initialized \/ OpenReturns \/ OpenCancelled
  PROVE  IInv'
  <1> USE DEF Open, FindPort, FindPortFails, Initialized, OpenReturns, OpenCancelled
  <1>1. /\ UNCHANGED <<callVars, failed, pending, future, wireVars>>
        /\ ~HasObject
    BY DEF IInv, OpensFirst, HasObject, transportVars
  <1>2. /\ reading' \in BOOLEAN /\ kind' \in Kinds \cup {"none"}
        /\ client' \in {"new", "sync", "async", "open", "failed", "cancelled",
                        "leaving", "left"}
        /\ opener' \in {"idle", "finding", "handshake", "opened", "raised"}
        /\ port' # NoPort => opener' \in {"handshake", "opened"}
    BY DEF IInv, TypeOK, OpensFirst, transportVars
  <1>3. OpensFirst'
    BY <1>1 DEF IInv, OpensFirst, HasObject, callVars, transportVars, wireVars
  <1> QED
    BY <1>1, <1>2, <1>3, BeforeCalls

(* The with block ends, or the reader does, or nothing happens.            *)
LEMMA QuietSteps ==
  ASSUME IInv, (\E exception \in BOOLEAN : Leave(exception)) \/ ReaderStops \/ UNCHANGED vars
  PROVE  IInv'
  <1>1. /\ UNCHANGED <<kind, opener, port, callVars, failed, pending, future, wireVars>>
        /\ reading' \in BOOLEAN /\ (reading' => reading)
        /\ client' = client \/ (client = "open" /\ client' = "leaving")
    <2>0. reading \in BOOLEAN
      BY DEF IInv, TypeOK
    <2>1. CASE \E exception \in BOOLEAN : Leave(exception)
      BY <2>0, <2>1 DEF Leave, transportVars
    <2>2. CASE ReaderStops
      BY <2>0, <2>2 DEF ReaderStops, clientVars
    <2>3. CASE UNCHANGED vars
      BY <2>0, <2>3 DEF vars, clientVars, transportVars
    <2> QED
      BY <2>1, <2>2, <2>3
  <1>2. OpensFirst'
    BY <1>1 DEF IInv, OpensFirst, HasObject, callVars, wireVars
  <1>3. /\ client' \in {"new", "sync", "async", "open", "failed", "cancelled",
                        "leaving", "left"}
        /\ opener' \in {"idle", "finding", "handshake", "opened", "raised"}
        /\ port' # NoPort => opener' \in {"handshake", "opened"}
    BY <1>1 DEF IInv, TypeOK
  <1> QED
    BY <1>1, <1>2, <1>3, QuietStep

(* close(), in the exit or after a failed handshake, and a broken port.    *)
LEMMA ClosingSteps ==
  ASSUME IInv, InitializeRaises \/ Close \/ PortBreaks
  PROVE  IInv'
  <1> USE DEF InitializeRaises, Close, PortBreaks, CloseTransport, clientVars
  <1>1. /\ Fail /\ UNCHANGED <<kind, callVars, wireVars>>
        /\ reading' \in BOOLEAN /\ (port' = NoPort \/ (port' = port /\ ~reading'))
        /\ client' \in {"new", "sync", "async", "open", "failed", "cancelled",
                        "leaving", "left"}
        /\ opener' \in {"idle", "finding", "handshake", "opened", "raised"}
        /\ port' # NoPort => opener' \in {"handshake", "opened"}
    BY DEF IInv, TypeOK
  <1>2. failed' = TRUE /\ pending' = <<>>
    BY DEF Fail
  <1>3. OpensFirst'
    BY <1>1, <1>2 DEF callVars, wireVars, IInv, OpensFirst, HasObject
  <1> QED
    BY <1>1, <1>3, FailStep

-----------------------------------------------------------------------------
(* A call begins                                                           *)

(* What TypeOK says of calls.                                              *)
TypesOfCalls ==
    \A c \in Calls :
        /\ use[c] = NoUse \/ use[c].method \in DOMAIN Methods
        /\ outcome[c].type \in Results \cup Exceptions
               \cup {"idle", "checked", "writing", "waiting"}
        /\ answer[c].type \in Results \cup {"idle", "FtSwarmError", "Unknown"}
        /\ future[c].tag \in {"open", "result", "error", "failed"}

(* What IInv says of calls, the deque and the lines apart.                 *)
CallsAreSound ==
    /\ TypesOfCalls
    /\ OfCalls(use) /\ OfCalls(outcome) /\ OfCalls(future) /\ OfCalls(answer)
    /\ Begun /\ AnswersAreOwn /\ DeclaredCallsWork

(* What a step leaves of another call.                                     *)
KeepsCall(d) ==
    /\ outcome'[d] = outcome[d]
    /\ \A whole : Request(d, whole)' = Request(d, whole)
    /\ \A line : IsReplyTo(line, d)' <=> IsReplyTo(line, d)

(* A call that begins is in order, and in nobody's way.                    *)
LEMMA BeginFacts ==
  ASSUME IInv, HasObject, NEW c \in Calls, outcome[c] = Idle,
         NEW method \in DOMAIN Methods, NEW arguments, NEW value,
         Begins(c, method, arguments), Ends(c, value),
         value.type \in Exceptions \cup {"checked"}, value # FtSwarmError,
         value.type \in {"TypeError", "ValueError", "AttributeError"} =>
            ~(arguments = Declared(method) /\ method \notin Classes[kind].attributes),
         UNCHANGED <<client, kind, answer, future, late>>
  PROVE  /\ CallsAreSound'
         /\ HasObject' /\ Methods' = Methods
         /\ outcome'[c] = value
         /\ \A d \in Calls \ {c} : KeepsCall(d)
         /\ \A i \in 1..Len(pending) : pending[i] \in Calls \ {c}
         /\ \A i \in 1..Len(toDevice) : toDevice[i].call \in Calls \ {c}
  <1>1. Methods' = Methods /\ HasObject'
    BY ObjectFrame DEF HasObject
  <1>2. OfCalls(use) /\ OfCalls(outcome) /\ OfCalls(future)' /\ OfCalls(answer)'
    BY DEF IInv, AreFunctions, OfCalls
  <1>3. /\ use'[c] = [method |-> method, arguments |-> arguments] /\ outcome'[c] = value
        /\ \A d \in Calls \ {c} : use'[d] = use[d] /\ outcome'[d] = outcome[d]
        /\ OfCalls(use)' /\ OfCalls(outcome)'
    BY <1>2 DEF Begins, Ends, OfCalls
  <1>4. use[c] = NoUse /\ future[c] = NotDone /\ answer[c] = Idle
    BY DEF IInv, Begun
  <1>5. \A d \in Calls \ {c} : KeepsCall(d)
    BY <1>3, CallFrame DEF KeepsCall
  <1>6. value.type \notin Results /\ value \notin {Idle, Writing}
    BY Places DEF Results, Exceptions
  <1>7. Begun'
    BY <1>1, <1>3, <1>4, <1>6 DEF IInv, Begun
  <1>8. AnswersAreOwn'
    BY <1>3, <1>6 DEF IInv, AnswersAreOwn, OwnAnswer
  <1>9. DeclaredCallsWork'
    <2>1. ASSUME NEW d \in Calls \ {c}
          PROVE  /\ Misfires(d)' <=> Misfires(d)
                 /\ Declared(use[d].method)' = Declared(use[d].method)
      BY <1>1, <1>3 DEF Misfires, Declared
    <2>2. answer'[c] # Unknown
      BY <1>4, Places
    <2>3. Declared(method)' = Declared(method)
      BY <1>1 DEF Declared
    <2>4. use'[c].arguments = Declared(use[c].method)'
             /\ use'[c].method \notin Classes[kind'].attributes => ~Misfires(c)'
      BY <1>1, <1>3, <2>2, <2>3 DEF Misfires, Declared
    <2> QED
      BY <1>3, <2>1, <2>4 DEF IInv, DeclaredCallsWork
  <1>10. TypesOfCalls'
    BY <1>1, <1>3, <1>4 DEF IInv, TypeOK, TypesOfCalls
  <1>11. /\ \A i \in 1..Len(pending) : pending[i] \in Calls \ {c}
         /\ \A i \in 1..Len(toDevice) : toDevice[i].call \in Calls \ {c}
    BY CallTypes, Places DEF IInv, Slots, Requests
  <1> QED
    BY <1>1, <1>2, <1>3, <1>5, <1>7, <1>8, <1>9, <1>10, <1>11 DEF CallsAreSound

(* What may keep a call from the transport.                                *)
LEMMA ErrorFacts ==
  ASSUME NEW method, NEW arguments
  PROVE  ErrorBefore(method, arguments) \in {None, TypeError, AttributeError, ValueError}
  <1>1. ASSUME NEW parameters
        PROVE  EncodeError(parameters) \in {None, TypeError, ValueError}
    <2> DEFINE error(value) ==
          CASE value = TextWithQuote -> ValueError
            [] value.type \notin {"bool", "str", "int", "float"} -> TypeError
            [] OTHER -> None
    <2>1. \A value : error(value) \in {None, TypeError, ValueError}
      <3> TAKE value
      <3>1. TextWithQuote.type = "str"
        BY DEF TextWithQuote, Value
      <3> QED
        BY <3>1
    <2> HIDE DEF error
    <2> QED
      BY <2>1 DEF EncodeError, error
  <1> QED
    BY <1>1 DEF ErrorBefore

(* It raises before it gets to the transport, the transport refuses it, or *)
(* it is past the failure check, and then nothing has failed so far.       *)
LEMMA CallBeginsStep ==
  ASSUME IInv, NEW c \in Calls, CallBegins(c)
  PROVE  IInv'
  <1>1. HasObject /\ outcome[c] = Idle
    BY DEF CallBegins, HasObject
  <1>2. kind \in DOMAIN Classes
    BY <1>1, KindsAssumption DEF IInv, OpensFirst
  <1>3. PICK method \in DOMAIN Methods : \E arguments \in ArgumentsOf(method) :
            CallRaises(c, method, arguments) \/ CallChecks(c, method, arguments)
    BY DEF CallBegins
  <1>4. PICK arguments \in ArgumentsOf(method) :
            CallRaises(c, method, arguments) \/ CallChecks(c, method, arguments)
    BY <1>3
  <1>5. /\ Begins(c, method, arguments)
        /\ UNCHANGED <<client, opener, kind, port, late, failed, reading, pending, future,
                       toDevice, torn, toHost, answer>>
    BY <1>4 DEF CallRaises, CallChecks, clientVars, transportVars, wireVars
  <1>6. PICK value :
            /\ Ends(c, value)
            /\ \/ value = ErrorBefore(method, arguments) /\ value # None
               \/ value = RuntimeError
               \/ value = Checked /\ ~failed
    BY <1>4 DEF CallRaises, CallChecks
  <1>7. value \in {TypeError, AttributeError, ValueError, RuntimeError, Checked}
    BY <1>6, ErrorFacts
  <1>8. /\ value.type \in Exceptions \cup {"checked"}
        /\ value \notin {FtSwarmError, Writing, Waiting, Idle}
        /\ value = Checked => ~failed
    BY <1>6, <1>7, ErrorFacts, Places
    DEF TypeError, AttributeError, ValueError, RuntimeError, Raised, Value, Exceptions, None
  <1>9. value.type \in {"TypeError", "ValueError", "AttributeError"} =>
           ~(arguments = Declared(method) /\ method \notin Classes[kind].attributes)
    BY <1>2, <1>6, DeclaredFacts, Places DEF RuntimeError, Raised, Value
  <1>10. /\ CallsAreSound' /\ HasObject' /\ Methods' = Methods
         /\ outcome'[c] = value
         /\ \A d \in Calls \ {c} : KeepsCall(d)
         /\ \A i \in 1..Len(pending) : pending[i] \in Calls \ {c}
         /\ \A i \in 1..Len(toDevice) : toDevice[i].call \in Calls \ {c}
    BY <1>1, <1>5, <1>6, <1>8, <1>9, BeginFacts
  <1>11. TypeOK' /\ AreFunctions'
    BY <1>5, <1>10 DEF IInv, TypeOK, CallsAreSound, TypesOfCalls, KeepsCall, AreFunctions, IsLine
  <1>12. OpensFirst'
    BY <1>1, <1>5, <1>10 DEF IInv, OpensFirst
  <1>13. Requests'
    BY <1>5, <1>10 DEF IInv, Requests, KeepsCall
  <1>14. Slots'
    BY <1>5, <1>8, <1>10 DEF IInv, Slots, KeepsCall
  <1>15. \A d \in Calls : outcome'[d] = Writing <=> outcome[d] = Writing
    BY <1>1, <1>8, <1>10, Places DEF KeepsCall
  <1>16. Correlates'
    <2> SUFFICES ASSUME ~failed PROVE Correlates'
      BY <1>5 DEF Correlates
    <2>1. ASSUME NEW i \in 1..Len(toHost)
          PROVE  i \in 1..Len(pending) /\ IsReplyTo(toHost[i], pending[i])'
      <3>1. i \in 1..Len(pending) /\ IsReplyTo(toHost[i], pending[i])
        BY DEF IInv, Correlates
      <3>2. PICK d \in Calls \ {c} : d = pending[i]
        BY <1>10, <3>1
      <3>3. \A line : IsReplyTo(line, d)' <=> IsReplyTo(line, d)
        BY <1>10 DEF KeepsCall
      <3> QED
        BY <1>5, <3>1, <3>2, <3>3
    <2>2. \A i \in 1..Len(toHost') : i \in 1..Len(pending') /\ IsReplyTo(toHost[i], pending[i])'
      BY <1>5, <2>1
    <2> QED
      BY <1>5, <1>15, <2>2 DEF IInv, Correlates
  <1>17. Strays'
    <2>1. ASSUME failed', reading'
          PROVE  /\ \A i \in 1..Len(pending') :
                       \/ pending'[i] \in late'
                       \/ port' = NoPort /\ outcome'[pending'[i]] = Writing
                 /\ \A d \in Calls : outcome'[d] = Checked => d \in late' \/ port' = NoPort
      BY <1>5, <1>8, <1>10, <2>1 DEF IInv, Strays, KeepsCall
    <2>2. torn => failed
      BY DEF IInv, Correlates
    <2>3. torn' => \A d \in Calls : outcome'[d] \in {Checked, Writing} => d \in late'
      BY <1>5, <1>8, <1>10, <2>2 DEF IInv, Strays, KeepsCall
    <2> QED
      BY <2>1, <2>3 DEF Strays
  <1>18. FuturesAnswer'
    BY <1>5, <1>8, <1>10 DEF IInv, FuturesAnswer, KeepsCall
  <1> QED
    BY <1>10, <1>11, <1>12, <1>13, <1>14, <1>16, <1>17, <1>18 DEF IInv, CallsAreSound

-----------------------------------------------------------------------------
(* A call takes its slot and writes its line                               *)

(* The method of a call returns what the command's definition says.        *)
LEMMA ReturnFacts ==
  ASSUME IInv, NEW c \in Calls, outcome[c] # Idle
  PROVE  /\ HasObject /\ opener = "opened" /\ kind \in DOMAIN Classes
         /\ use[c].method \in DOMAIN Methods
         /\ ReturnsOf(c) \in ReturnTypes
         /\ Methods[use[c].method].parser = ParserOf(ReturnsOf(c))
  <1>1. HasObject /\ opener = "opened" /\ kind \in DOMAIN Classes
    BY KindsAssumption DEF IInv, OpensFirst
  <1>2. use[c].method \in DOMAIN Methods
    BY DEF IInv, Begun
  <1>3. Agrees(Methods[use[c].method], Api(kind))
    BY <1>1, <1>2, ClassesFit DEF Fits, Methods
  <1> QED
    BY <1>1, <1>2, <1>3 DEF Agrees, ReturnsOf

(* A call that has begun goes on or ends; some futures may have failed.    *)
LEMMA EndsFacts ==
  ASSUME IInv, NEW c \in Calls, outcome[c] \in {Checked, Writing, Waiting},
         NEW value, Ends(c, value),
         UNCHANGED <<client, kind, use, answer>>,
         value.type \in Results \cup Exceptions \cup {"writing", "waiting"},
         value = Writing => outcome[c] = Checked,
         c \notin late =>
            /\ value.type \in Results => value = answer[c]
            /\ value = FtSwarmError => answer[c] \in {FtSwarmError, Unknown}
            /\ value.type \notin {"TypeError", "ValueError", "AttributeError"},
         late \subseteq late', late' \subseteq {d \in Calls : outcome[d] # Idle},
         OfCalls(future)',
         \A d \in Calls : \/ future'[d] = future[d]
                          \/ future'[d] = TransportError /\ outcome[d] \notin {Idle, Checked}
  PROVE  /\ CallsAreSound'
         /\ HasObject' /\ HasObject /\ opener = "opened" /\ Methods' = Methods
         /\ outcome'[c] = value /\ value \notin {Idle, Checked}
         /\ \A d \in Calls \ {c} : outcome'[d] = outcome[d]
         /\ \A d \in Calls : /\ \A whole : Request(d, whole)' = Request(d, whole)
                             /\ \A line : IsReplyTo(line, d)' <=> IsReplyTo(line, d)
  <1>1. /\ outcome'[c] = value /\ OfCalls(outcome)'
        /\ \A d \in Calls \ {c} : outcome'[d] = outcome[d]
    BY DEF IInv, AreFunctions, OfCalls, Ends
  <1>2. Methods' = Methods
    BY ObjectFrame
  <1>3. \A d \in Calls : /\ \A whole : Request(d, whole)' = Request(d, whole)
                         /\ \A line : IsReplyTo(line, d)' <=> IsReplyTo(line, d)
    BY CallFrame
  <1>4. /\ outcome[c] # Idle /\ HasObject /\ opener = "opened" /\ HasObject'
        /\ value \notin {Idle, Checked}
    BY ReturnFacts, Places DEF Results, Exceptions, HasObject
  <1>5. OfCalls(use)' /\ OfCalls(answer)'
    BY DEF IInv, AreFunctions, OfCalls
  <1>6. TypesOfCalls'
    BY <1>1, <1>2 DEF IInv, TypeOK, TypesOfCalls, TransportError
  <1>7. Begun'
    BY <1>1, <1>2, <1>4 DEF IInv, Begun
  <1>8. AnswersAreOwn'
    BY <1>1 DEF IInv, AnswersAreOwn, OwnAnswer
  <1>9. DeclaredCallsWork'
    <2>1. \A d \in Calls \ late' : Misfires(d)' => Misfires(d)
      BY <1>1 DEF Misfires
    <2>2. \A m : Declared(m)' = Declared(m)
      BY <1>2 DEF Declared
    <2> QED
      BY <2>1, <2>2 DEF IInv, DeclaredCallsWork
  <1> QED
    BY <1>1, <1>2, <1>3, <1>4, <1>5, <1>6, <1>7, <1>8, <1>9 DEF CallsAreSound

(* The write lock was free; the slot is the last one.                      *)
LEMMA AppendPendingStep ==
  ASSUME IInv, NEW c \in Calls, AppendPending(c)
  PROVE  IInv'
  <1>1. /\ outcome[c] = Checked /\ Ends(c, Writing)
        /\ \A d \in Calls : outcome[d] # Writing
        /\ pending' = Append(pending, c)
        /\ UNCHANGED <<client, opener, kind, port, use, late, failed, reading, future,
                       toDevice, torn, toHost, answer>>
    BY DEF AppendPending, clientVars, wireVars
  <1>2. OfCalls(future)' /\ late \subseteq {d \in Calls : outcome[d] # Idle}
    BY <1>1 DEF IInv, TypeOK, AreFunctions, OfCalls, Begun
  <1>3. /\ CallsAreSound' /\ HasObject' /\ HasObject /\ Methods' = Methods
        /\ outcome'[c] = Writing
        /\ \A d \in Calls \ {c} : outcome'[d] = outcome[d]
        /\ \A d \in Calls : /\ \A whole : Request(d, whole)' = Request(d, whole)
                            /\ \A line : IsReplyTo(line, d)' <=> IsReplyTo(line, d)
    BY <1>1, <1>2, EndsFacts, Places DEF Results, Exceptions
  <1>4. /\ pending \in Seq(Calls) /\ pending' \in Seq(Calls)
        /\ Len(pending) \in Nat /\ Len(pending') = Len(pending) + 1
        /\ pending'[Len(pending) + 1] = c
        /\ \A i \in 1..Len(pending) : pending'[i] = pending[i]
        /\ \A i \in 1..Len(pending') : i \in 1..Len(pending) \/ i = Len(pending) + 1
    BY <1>1 DEF IInv, TypeOK
  <1>5. \A i \in 1..Len(pending) : pending[i] \in Calls \ {c}
    BY <1>1, CallTypes, Places DEF IInv, Slots
  <1>6. Len(toHost) \in Nat /\ Len(toDevice) \in Nat
    BY DEF IInv, AreFunctions, IsLine
  <1>7. TypeOK'
    <2>1. \A i \in DOMAIN pending' : outcome'[pending'[i]].type \in {"writing", "waiting", "Cancelled"}
      BY <1>3, <1>4, <1>5, Places DEF IInv, TypeOK
    <2> QED
      BY <1>1, <1>3, <1>4, <2>1 DEF IInv, TypeOK, CallsAreSound, TypesOfCalls
  <1>8. AreFunctions' /\ OpensFirst'
    BY <1>1, <1>3 DEF IInv, CallsAreSound, AreFunctions, IsLine, OpensFirst
  <1>9. Requests'
    <2>1. \A i \in 1..Len(toDevice) : toDevice[i].call \in Calls \ {c}
      BY <1>1, CallTypes DEF IInv, Requests
    <2> QED
      BY <1>1, <1>3, <2>1 DEF IInv, Requests
  <1>10. Slots'
    <2>1. ASSUME NEW i \in 1..Len(pending'), NEW j \in 1..Len(pending'), pending'[i] = pending'[j]
          PROVE  i = j
      BY <1>4, <1>5, <2>1 DEF IInv, Slots
    <2>2. ASSUME NEW i \in 1..Len(pending')
          PROVE  /\ future'[pending'[i]] = NotDone
                 /\ outcome'[pending'[i]] \in {Writing, Waiting, Cancelled}
      <3>1. CASE i \in 1..Len(pending)
        BY <1>1, <1>3, <1>4, <1>5, <3>1 DEF IInv, Slots
      <3>2. CASE i = Len(pending) + 1
        BY <1>1, <1>3, <1>4, <3>2 DEF IInv, Begun
      <3> QED
        BY <1>4, <3>1, <3>2
    <2>3. \A d, e \in Calls : outcome'[d] = Writing /\ outcome'[e] = Writing => d = e
      BY <1>1, <1>3
    <2> QED
      BY <2>1, <2>2, <2>3 DEF Slots
  <1>11. Correlates'
    <2> SUFFICES ASSUME ~failed PROVE Correlates'
      BY <1>1 DEF Correlates
    <2>1. /\ ~torn /\ late = {}
          /\ \A i \in 1..Len(toHost) : i \in 1..Len(pending) /\ IsReplyTo(toHost[i], pending[i])
          /\ \A i \in 1..Len(toDevice) : /\ Len(toHost) + i \in 1..Len(pending)
                                         /\ toDevice[i].call = pending[Len(toHost) + i]
          /\ Len(pending) = Len(toHost) + Len(toDevice)
      BY <1>1 DEF IInv, Correlates
    <2>2. ASSUME NEW i \in 1..Len(toHost')
          PROVE  i \in 1..Len(pending') /\ IsReplyTo(toHost[i], pending[i])'
      <3>1. i \in 1..Len(pending) /\ IsReplyTo(toHost[i], pending[i]) /\ pending'[i] = pending[i]
        BY <1>1, <1>4, <2>1
      <3> QED
        BY <1>1, <1>3, <1>4, <1>5, <3>1
    <2>3. ASSUME NEW i \in 1..Len(toDevice')
          PROVE  /\ Len(toHost') + i \in 1..Len(pending')
                 /\ toDevice'[i].call = pending'[Len(toHost') + i]
      <3>1. /\ Len(toHost) + i \in 1..Len(pending)
            /\ toDevice[i].call = pending[Len(toHost) + i]
        BY <1>1, <2>1
      <3> QED
        BY <1>1, <1>4, <3>1
    <2>4. \A d \in Calls : outcome'[d] = Writing =>
             /\ Len(pending') = Len(toHost') + Len(toDevice') + 1
             /\ pending'[Len(pending')] = d
      BY <1>1, <1>3, <1>4, <2>1
    <2> QED
      BY <1>1, <1>3, <2>1, <2>2, <2>3, <2>4 DEF Correlates
  <1>12. Strays'
    <2>1. ASSUME failed', reading'
          PROVE  /\ \A i \in 1..Len(pending') :
                       \/ pending'[i] \in late'
                       \/ port' = NoPort /\ outcome'[pending'[i]] = Writing
                 /\ \A d \in Calls : outcome'[d] = Checked => d \in late' \/ port' = NoPort
      <3>1. c \in late \/ port = NoPort
        BY <1>1, <2>1 DEF IInv, Strays
      <3>2. \A i \in 1..Len(pending) :
               pending[i] \in late \/ (port = NoPort /\ outcome[pending[i]] = Writing)
        BY <1>1, <2>1 DEF IInv, Strays
      <3>3. \A i \in 1..Len(pending') :
               pending'[i] \in late' \/ (port' = NoPort /\ outcome'[pending'[i]] = Writing)
        BY <1>1, <1>3, <1>4, <1>5, <3>1, <3>2
      <3>4. \A d \in Calls : outcome'[d] = Checked => d \in late' \/ port' = NoPort
        BY <1>1, <1>3, <2>1, Places DEF IInv, Strays
      <3> QED
        BY <3>3, <3>4
    <2>2. torn' => \A d \in Calls : outcome'[d] \in {Checked, Writing} => d \in late'
      BY <1>1, <1>3 DEF IInv, Strays
    <2> QED
      BY <2>1, <2>2 DEF Strays
  <1>13. FuturesAnswer'
    <2>1. future'[c] = NotDone
      BY <1>1 DEF IInv, Begun
    <2> QED
      BY <1>1, <1>3, <2>1 DEF IInv, FuturesAnswer
  <1> QED
    BY <1>3, <1>7, <1>8, <1>9, <1>10, <1>11, <1>12, <1>13 DEF IInv, CallsAreSound

(* The line of the call that holds the lock goes out.                      *)
LEMMA SendFacts ==
  ASSUME IInv, NEW c \in Calls, outcome[c] = Writing, SendsLine(c),
         UNCHANGED <<kind, use, answer>>, late \subseteq late',
         outcome'[c] \notin {Idle, Checked, Writing},
         \A d \in Calls \ {c} : outcome'[d] = outcome[d]
  PROVE  /\ Requests' /\ IsLine(toDevice)'
         /\ Len(toDevice) \in Nat /\ Len(toDevice') = Len(toDevice) + 1
         /\ toDevice'[Len(toDevice) + 1].call = c
         /\ \A i \in 1..Len(toDevice) : toDevice'[i] = toDevice[i]
         /\ \A i \in DOMAIN toDevice' : toDevice'[i].call \in Calls
         /\ torn' = FALSE
  <1>1. toDevice' = Append(toDevice, Request(c, ~torn)) /\ torn' = FALSE
    BY DEF SendsLine
  <1>2. /\ Request(c, ~torn).call = c
        /\ Request(c, ~torn).whole = ~torn
    BY DEF Request
  <1>3. /\ IsLine(toDevice) /\ IsLine(toDevice') /\ Len(toDevice) \in Nat
        /\ Len(toDevice') = Len(toDevice) + 1
        /\ toDevice'[Len(toDevice) + 1] = Request(c, ~torn)
        /\ \A i \in 1..Len(toDevice) : toDevice'[i] = toDevice[i]
        /\ \A i \in 1..Len(toDevice') : i \in 1..Len(toDevice) \/ i = Len(toDevice) + 1
    BY <1>1, LineFacts DEF IInv, AreFunctions, IsLine
  <1>4. \A d \in Calls : \A whole : Request(d, whole)' = Request(d, whole)
    BY CallFrame
  <1>5. \A i \in 1..Len(toDevice) : toDevice[i].call \in Calls \ {c}
    BY CallTypes DEF IInv, Requests
  <1>6. torn => c \in late
    BY DEF IInv, Strays
  <1>7. answer[c] = Idle
    BY DEF IInv, Begun
  <1>8. ASSUME NEW i \in 1..Len(toDevice')
        PROVE  /\ (toDevice[i] = Request(toDevice[i].call, toDevice[i].whole))'
               /\ (toDevice[i].whole \/ toDevice[i].call \in late)'
               /\ (outcome[toDevice[i].call] \notin {Idle, Checked, Writing})'
               /\ (answer[toDevice[i].call] = Idle)'
    <2>1. CASE i \in 1..Len(toDevice)
      <3>1. PICK d \in Calls \ {c} : d = toDevice[i].call
        BY <1>5, <2>1
      <3>2. /\ toDevice[i] = Request(d, toDevice[i].whole)
            /\ toDevice[i].whole \/ d \in late
            /\ outcome[d] \notin {Idle, Checked, Writing} /\ answer[d] = Idle
        BY <2>1, <3>1 DEF IInv, Requests
      <3>3. toDevice'[i] = toDevice[i] /\ outcome'[d] = outcome[d] /\ answer'[d] = answer[d]
        BY <1>3, <2>1
      <3>4. Request(d, toDevice[i].whole)' = Request(d, toDevice[i].whole)
        BY <1>3, <1>4, <2>1
      <3>5. Request(toDevice[i].call, toDevice[i].whole)' = toDevice[i]
        BY <1>3, <1>4, <2>1, <3>1, <3>2
      <3> QED
        BY <3>1, <3>2, <3>3, <3>5
    <2>2. CASE i = Len(toDevice) + 1
      <3>1. toDevice'[i] = Request(c, ~torn)
        BY <1>3, <2>2
      <3>2. toDevice'[i].call = c /\ toDevice'[i].whole = ~torn
        BY <1>2, <3>1
      <3>3. Request(toDevice[i].call, toDevice[i].whole)' = Request(c, ~torn)
        BY <1>4, <3>2
      <3> QED
        BY <1>6, <1>7, <3>1, <3>2, <3>3
    <2> QED
      BY <1>3, <2>1, <2>2
  <1>9. ASSUME NEW i \in 1..Len(toDevice'), NEW j \in 1..Len(toDevice'),
               toDevice'[i].call = toDevice'[j].call
        PROVE  i = j
    BY <1>2, <1>3, <1>5, <1>9 DEF IInv, Requests
  <1>10. Requests'
    BY <1>8, <1>9 DEF Requests
  <1>11. \A i \in DOMAIN toDevice' : toDevice'[i].call \in Calls
    <2>1. DOMAIN toDevice' = 1..Len(toDevice')
      BY <1>3 DEF IsLine
    <2> QED
      BY <1>2, <1>3, <1>5, <2>1
  <1> QED
    BY <1>1, <1>2, <1>3, <1>10, <1>11

(* The line is sent, and the call waits.                                   *)
LEMMA WriteCommandStep ==
  ASSUME IInv, NEW c \in Calls, WriteCommand(c)
  PROVE  IInv'
  <1>1. /\ outcome[c] = Writing /\ Ends(c, Waiting) /\ port # NoPort /\ SendsLine(c)
        /\ UNCHANGED <<client, opener, kind, port, use, late, failed, reading, pending, future,
                       toHost, answer>>
    BY DEF WriteCommand, clientVars, transportVars
  <1>2. OfCalls(future)' /\ late \subseteq {d \in Calls : outcome[d] # Idle}
    BY <1>1 DEF IInv, TypeOK, AreFunctions, OfCalls, Begun
  <1>3. /\ CallsAreSound' /\ HasObject' /\ HasObject /\ Methods' = Methods
        /\ outcome'[c] = Waiting
        /\ \A d \in Calls \ {c} : outcome'[d] = outcome[d]
        /\ \A d \in Calls : \A line : IsReplyTo(line, d)' <=> IsReplyTo(line, d)
    BY <1>1, <1>2, EndsFacts, Places DEF Results, Exceptions
  <1>4. /\ Requests' /\ IsLine(toDevice)'
        /\ Len(toDevice) \in Nat /\ Len(toDevice') = Len(toDevice) + 1
        /\ toDevice'[Len(toDevice) + 1].call = c
        /\ \A i \in 1..Len(toDevice) : toDevice'[i] = toDevice[i]
        /\ \A i \in DOMAIN toDevice' : toDevice'[i].call \in Calls
        /\ torn' = FALSE
    BY <1>1, <1>3, SendFacts, Places
  <1>5. \A d \in Calls : outcome'[d] # Writing
    BY <1>1, <1>3, Places DEF IInv, Slots
  <1>6. pending \in Seq(Calls) /\ Len(toHost) \in Nat
    BY DEF IInv, TypeOK, AreFunctions, IsLine
  <1>7. TypeOK'
    <2>1. \A i \in DOMAIN pending' : outcome'[pending'[i]].type \in {"writing", "waiting", "Cancelled"}
      BY <1>1, <1>3, <1>6, Places DEF IInv, TypeOK
    <2> QED
      BY <1>1, <1>3, <1>4, <2>1 DEF IInv, TypeOK, CallsAreSound, TypesOfCalls
  <1>8. AreFunctions' /\ OpensFirst'
    BY <1>1, <1>3, <1>4 DEF IInv, CallsAreSound, AreFunctions, IsLine, OpensFirst
  <1>9. Slots'
    BY <1>1, <1>3, <1>5, <1>6 DEF IInv, Slots
  <1>10. Correlates'
    <2> SUFFICES ASSUME ~failed PROVE Correlates'
      BY <1>1 DEF Correlates
    <2>1. /\ late = {}
          /\ \A i \in 1..Len(toHost) : i \in 1..Len(pending) /\ IsReplyTo(toHost[i], pending[i])
          /\ \A i \in 1..Len(toDevice) : /\ Len(toHost) + i \in 1..Len(pending)
                                         /\ toDevice[i].call = pending[Len(toHost) + i]
          /\ Len(pending) = Len(toHost) + Len(toDevice) + 1
          /\ pending[Len(pending)] = c
      BY <1>1 DEF IInv, Correlates
    <2>2. \A i \in 1..Len(toHost') : i \in 1..Len(pending') /\ IsReplyTo(toHost[i], pending[i])'
      BY <1>1, <1>3, <1>6, <2>1
    <2>3. ASSUME NEW i \in 1..Len(toDevice')
          PROVE  /\ Len(toHost') + i \in 1..Len(pending')
                 /\ toDevice'[i].call = pending'[Len(toHost') + i]
      <3>1. CASE i \in 1..Len(toDevice)
        <4>1. /\ Len(toHost) + i \in 1..Len(pending)
              /\ toDevice[i].call = pending[Len(toHost) + i]
          BY <2>1, <3>1
        <4> QED
          BY <1>1, <1>4, <3>1, <4>1
      <3>2. CASE i = Len(toDevice) + 1
        <4>1. Len(toHost) + i = Len(pending) /\ Len(pending) \in Nat
          BY <1>4, <1>6, <2>1, <3>2
        <4>2. Len(pending) \in 1..Len(pending)
          BY <1>4, <1>6, <2>1
        <4> QED
          BY <1>1, <1>4, <2>1, <3>2, <4>1, <4>2
      <3> QED
        BY <1>4, <3>1, <3>2
    <2>4. Len(pending') = Len(toHost') + Len(toDevice')
      BY <1>1, <1>4, <1>6, <2>1
    <2> QED
      BY <1>1, <1>4, <1>5, <2>1, <2>2, <2>3, <2>4 DEF Correlates
  <1>11. Strays'
    BY <1>1, <1>3, <1>4, Places DEF IInv, Strays
  <1>12. FuturesAnswer'
    BY <1>1, <1>3 DEF IInv, FuturesAnswer
  <1> QED
    BY <1>3, <1>4, <1>7, <1>8, <1>9, <1>10, <1>11, <1>12 DEF IInv, CallsAreSound

(* The write fails: the deque is drained, and who is past the failure      *)
(* check is late.                                                          *)
LEMMA WriteCommandFailsStep ==
  ASSUME IInv, NEW c \in Calls, WriteCommandFails(c)
  PROVE  IInv'
  <1> DEFINE value == Raised("OSError")
  <1>1. /\ outcome[c] = Writing /\ Ends(c, value) /\ Fail
        /\ UNCHANGED <<client, opener, kind, port, use, reading, toHost, answer>>
    BY DEF WriteCommandFails, clientVars
  <1>2. /\ late \subseteq late' /\ late' \subseteq late \cup {d \in Calls : outcome[d] = Checked}
        /\ port # NoPort => \A d \in Calls : outcome[d] = Checked => d \in late'
        /\ \/ UNCHANGED toDevice /\ (UNCHANGED torn \/ (port # NoPort /\ torn' = TRUE))
           \/ port # NoPort /\ SendsLine(c)
    BY DEF WriteCommandFails
  <1>3. /\ failed' = TRUE /\ pending' = <<>> /\ OfCalls(future)'
        /\ \A d \in Calls : \/ future'[d] = future[d]
                            \/ future'[d] = TransportError /\ outcome[d] \notin {Idle, Checked}
    BY <1>1, FailFacts
  <1>4. late' \subseteq {d \in Calls : outcome[d] # Idle}
    BY <1>2, Places DEF IInv, TypeOK, Begun
  <1>5. /\ value.type = "OSError"
        /\ value \notin {Idle, Checked, Writing, Waiting, FtSwarmError}
    BY Places DEF Raised, Value
  <1> HIDE DEF value
  <1>6. /\ CallsAreSound' /\ HasObject' /\ HasObject /\ Methods' = Methods
        /\ outcome'[c] = value
        /\ \A d \in Calls \ {c} : outcome'[d] = outcome[d]
        /\ \A d \in Calls : /\ \A whole : Request(d, whole)' = Request(d, whole)
                            /\ \A line : IsReplyTo(line, d)' <=> IsReplyTo(line, d)
    BY <1>1, <1>2, <1>3, <1>4, <1>5, EndsFacts DEF Results, Exceptions
  <1>7. \A d \in Calls : outcome'[d] # Writing
    BY <1>1, <1>5, <1>6 DEF IInv, Slots
  <1>8. /\ Requests' /\ IsLine(toDevice)' /\ torn' \in BOOLEAN
        /\ \A i \in DOMAIN toDevice' : toDevice'[i].call \in Calls
        /\ port = NoPort => torn' = torn
    <2>1. CASE UNCHANGED toDevice /\ (UNCHANGED torn \/ (port # NoPort /\ torn' = TRUE))
      <3>1. Requests'
        <4>1. \A i \in 1..Len(toDevice) : toDevice[i].call \in Calls \ {c}
          BY <1>1, CallTypes DEF IInv, Requests
        <4> QED
          BY <1>1, <1>2, <1>6, <2>1, <4>1 DEF IInv, Requests
      <3>2. torn' \in BOOLEAN /\ (port = NoPort => torn' = torn)
        BY <2>1 DEF IInv, TypeOK
      <3> QED
        BY <2>1, <3>1, <3>2 DEF IInv, TypeOK, AreFunctions, IsLine
    <2>2. CASE port # NoPort /\ SendsLine(c)
      BY <1>1, <1>2, <1>5, <1>6, <2>2, SendFacts
    <2> QED
      BY <1>2, <2>1, <2>2
  <1>9. TypeOK'
    <2>1. late' \subseteq Calls /\ failed' \in BOOLEAN /\ pending' \in Seq(Calls) /\ DOMAIN pending' = {}
      BY <1>3, <1>4
    <2> QED
      BY <1>1, <1>6, <1>8, <2>1 DEF IInv, TypeOK, CallsAreSound, TypesOfCalls
  <1>10. AreFunctions' /\ OpensFirst'
    BY <1>1, <1>3, <1>6, <1>8 DEF IInv, CallsAreSound, AreFunctions, IsLine, OpensFirst
  <1>11. Slots' /\ Correlates'
    BY <1>3, <1>7 DEF Slots, Correlates
  <1>12. Strays'
    <2>1. \A d \in Calls : outcome'[d] = Checked => outcome[d] = Checked
      BY <1>5, <1>6
    <2>2. torn' => \A d \in Calls : outcome'[d] \in {Checked, Writing} => d \in late'
      <3>1. CASE port = NoPort
        BY <1>2, <1>7, <1>8, <2>1, <3>1 DEF IInv, Strays
      <3>2. CASE port # NoPort
        BY <1>2, <1>7, <2>1, <3>2
      <3> QED
        BY <3>1, <3>2
    <2> QED
      BY <1>1, <1>2, <1>3, <2>1, <2>2 DEF Strays
  <1>13. FuturesAnswer'
    BY <1>2, <1>3, <1>5, <1>6, <1>7 DEF IInv, FuturesAnswer
  <1> QED
    BY <1>6, <1>8, <1>9, <1>10, <1>11, <1>12, <1>13 DEF IInv, CallsAreSound

-----------------------------------------------------------------------------
(* A call ends                                                             *)

(* A call that ends has no open slot, or was abandoned.                    *)
LEMMA EndsStep ==
  ASSUME IInv, NEW c \in Calls, outcome[c] \in {Checked, Waiting}, NEW value, Ends(c, value),
         UNCHANGED <<clientVars, port, use, late, transportVars, wireVars>>,
         value.type \in Results \cup Exceptions,
         value = Cancelled \/ future[c] # NotDone,
         c \notin late =>
            /\ value.type \in Results => value = answer[c]
            /\ value = FtSwarmError => answer[c] \in {FtSwarmError, Unknown}
            /\ value.type \notin {"TypeError", "ValueError", "AttributeError"}
  PROVE  IInv'
  <1> USE DEF clientVars, transportVars, wireVars
  <1>1. OfCalls(future)' /\ late \subseteq {d \in Calls : outcome[d] # Idle}
    BY DEF IInv, TypeOK, AreFunctions, OfCalls, Begun
  <1>2. value \notin {Idle, Checked, Writing, Waiting}
    BY Places DEF Results, Exceptions
  <1>3. /\ CallsAreSound' /\ HasObject' /\ HasObject /\ Methods' = Methods
        /\ outcome'[c] = value
        /\ \A d \in Calls \ {c} : outcome'[d] = outcome[d]
        /\ \A d \in Calls : /\ \A whole : Request(d, whole)' = Request(d, whole)
                            /\ \A line : IsReplyTo(line, d)' <=> IsReplyTo(line, d)
    BY <1>1, <1>2, EndsFacts
  <1>4. \A d \in Calls : outcome'[d] = Writing <=> outcome[d] = Writing
    BY <1>2, <1>3, Places
  <1>5. /\ pending \in Seq(Calls)
        /\ \A i \in 1..Len(pending) : /\ pending[i] \in Calls
                                      /\ pending[i] = c => value = Cancelled /\ outcome[c] = Waiting
    BY CallTypes, Places DEF IInv, Slots
  <1>6. TypeOK'
    <2>1. \A i \in DOMAIN pending' : outcome'[pending'[i]].type \in {"writing", "waiting", "Cancelled"}
      BY <1>3, <1>5, Places DEF IInv, TypeOK
    <2> QED
      BY <1>3, <2>1 DEF IInv, TypeOK, CallsAreSound, TypesOfCalls
  <1>7. AreFunctions' /\ OpensFirst'
    BY <1>3 DEF IInv, CallsAreSound, AreFunctions, IsLine, OpensFirst, HasObject
  <1>8. Requests'
    <2>1. \A i \in 1..Len(toDevice) :
             /\ toDevice[i].call \in Calls
             /\ outcome'[toDevice[i].call] \notin {Idle, Checked, Writing}
      BY <1>2, <1>3, CallTypes DEF IInv, Requests
    <2> QED
      BY <1>3, <2>1 DEF IInv, Requests
  <1>9. Slots'
    BY <1>3, <1>4, <1>5 DEF IInv, Slots
  <1>10. Correlates'
    <2> SUFFICES ASSUME ~failed PROVE Correlates'
      BY DEF Correlates
    <2>1. \A i \in 1..Len(toHost') : i \in 1..Len(pending') /\ IsReplyTo(toHost[i], pending[i])'
      BY <1>3, <1>5 DEF IInv, Correlates
    <2> QED
      BY <1>4, <2>1 DEF IInv, Correlates
  <1>11. Strays'
    <2>1. \A d \in Calls : outcome'[d] = Checked => outcome[d] = Checked
      BY <1>2, <1>3
    <2>2. \A i \in 1..Len(pending) : outcome'[pending[i]] = Writing <=> outcome[pending[i]] = Writing
      BY <1>4, <1>5
    <2> QED
      BY <1>4, <2>1, <2>2 DEF IInv, Strays
  <1>12. FuturesAnswer'
    BY <1>2, <1>3 DEF IInv, FuturesAnswer
  <1> QED
    BY <1>3, <1>6, <1>7, <1>8, <1>9, <1>10, <1>11, <1>12 DEF IInv, CallsAreSound

(* Abandoned: a slot stays where it is.                                    *)
LEMMA AbandonStep ==
  ASSUME IInv, NEW c \in Calls, Abandon(c)
  PROVE  IInv'
  <1>1. "Cancelled" \in Exceptions /\ "Cancelled" \notin Results
    BY DEF Exceptions, Results
  <1> QED
    BY <1>1, Places, EndsStep DEF Abandon

(* Whatever text a parser is given, it gives a value or raises.            *)
LEMMA ParseTypes ==
  ASSUME NEW type \in ReturnTypes, NEW text
  PROVE  Parse(ParserOf(type), text).type \in Results \cup Exceptions
  <1> DEFINE parser == ParserOf(type)
             values == {"None", "int", "float", "bool", "str", "JoystickValue",
                        "MicrostepMode", "ValueError"}
  <1>1. parser \in {"parse_ok", "parse_int", "parse_float", "parse_bool", "parse_string",
                    "parse_joystick", "from_wire_value"}
    BY DEF ReturnTypes, ParserOf
  <1> HIDE DEF parser
  <1>2. /\ parse_ok(text).type \in values /\ parse_int(text).type \in values
        /\ parse_float(text).type \in values /\ parse_bool(text).type \in values
        /\ parse_string(text).type \in values /\ parse_joystick(text).type \in values
        /\ from_wire_value(text).type \in values
    BY DEF parse_ok, parse_int, parse_float, parse_bool, parse_string, parse_joystick,
           from_wire_value, Value, None, ValueError
  <1>3. Parse(parser, text).type \in values
    BY <1>1, <1>2 DEF Parse
  <1> QED
    BY <1>3 DEF parser, Results, Exceptions

(* Its future is done: unless the call is late, the reply in it is to this *)
(* call, and the parser gives back the value that was answered.            *)
LEMMA ResumeStep ==
  ASSUME IInv, NEW c \in Calls, Resume(c)
  PROVE  IInv'
  <1> DEFINE value == CASE future[c] = TransportError -> RuntimeError
                        [] future[c] = ErrorLine -> FtSwarmError
                        [] OTHER -> Parse(Methods[use[c].method].parser, future[c].text)
  <1>1. /\ outcome[c] = Waiting /\ future[c] # NotDone /\ Ends(c, value)
        /\ UNCHANGED <<clientVars, port, use, late, transportVars, wireVars>>
    BY DEF Resume
  <1>2. outcome[c] # Idle
    BY <1>1, Places
  <1>3. TransportError # ErrorLine
    BY DEF TransportError, ErrorLine
  <1>4. /\ value.type \in Results \cup Exceptions
        /\ c \notin late =>
              /\ value.type \in Results => value = answer[c]
              /\ value = FtSwarmError => answer[c] \in {FtSwarmError, Unknown}
              /\ value.type \notin {"TypeError", "ValueError", "AttributeError"}
    <2>1. CASE future[c] = TransportError
      <3>1. value = RuntimeError
        BY <2>1, <1>3
      <3> HIDE DEF value
      <3> QED
        BY <3>1 DEF RuntimeError, FtSwarmError, Raised, Value, Results, Exceptions
    <2>2. CASE future[c] = ErrorLine
      <3>1. value = FtSwarmError
        BY <2>2, <1>3
      <3>2. c \notin late => answer[c] \in {FtSwarmError, Unknown}
        <4>1. c \notin late => IsReplyTo(ErrorLine, c)
          BY <1>1, <1>3, <2>2 DEF IInv, FuturesAnswer
        <4> QED
          BY <4>1 DEF IsReplyTo, ErrorLine
      <3> HIDE DEF value
      <3> QED
        BY <3>1, <3>2 DEF FtSwarmError, Raised, Value, Results, Exceptions
    <2>3. CASE future[c] # TransportError /\ future[c] # ErrorLine
      <3>1. value = Parse(Methods[use[c].method].parser, future[c].text)
        BY <2>3
      <3> HIDE DEF value
      <3>2. value.type \in Results \cup Exceptions
        BY <1>2, <3>1, ReturnFacts, ParseTypes
      <3>3. ASSUME c \notin late
            PROVE  value = answer[c] /\ answer[c].type \in Results
        <4>1. IsReplyTo(future[c], c)
          BY <1>1, <2>3, <3>3 DEF IInv, FuturesAnswer
        <4>2. /\ future[c] = [tag |-> "result", text |-> Format(answer[c])]
              /\ answer[c] \in ValuesOf(ReturnsOf(c), Numbers)
          BY <2>3, <4>1 DEF IsReplyTo
        <4>3. [tag |-> "result", text |-> Format(answer[c])].text = Format(answer[c])
          OBVIOUS
        <4>4. future[c].text = Format(answer[c])
          BY <4>2, <4>3
        <4> QED
          BY <1>2, <3>1, <4>2, <4>4, ReturnFacts, AnswersParse
      <3>4. FtSwarmError.type \notin Results
        BY Places DEF Results
      <3> QED
        BY <3>2, <3>3, <3>4 DEF Results
    <2> QED
      BY <2>1, <2>2, <2>3
  <1> HIDE DEF value
  <1> QED
    BY <1>1, <1>4, EndsStep

-----------------------------------------------------------------------------
(* The reader and the device                                               *)

(* The oldest reply is to the call with the oldest slot, or the oldest     *)
(* slot is that of a call to which anything may happen.                    *)
LEMMA ReaderStep ==
  ASSUME IInv, ReaderCompletes
  PROVE  IInv'
  <1>1. /\ UNCHANGED <<client, opener, kind, port, use, outcome, late, failed, reading,
                       toDevice, torn, answer>>
        /\ reading /\ toHost # <<>> /\ toHost' = Tail(toHost)
    BY DEF ReaderCompletes, clientVars, callVars
  <1>2. /\ 1 \in 1..Len(toHost) /\ Head(toHost) = toHost[1]
        /\ IsLine(toHost') /\ Len(toHost') = Len(toHost) - 1
        /\ \A i \in 1..Len(toHost') : i + 1 \in 1..Len(toHost) /\ toHost'[i] = toHost[i + 1]
        /\ Len(toHost) \in Nat /\ Len(toDevice) \in Nat
    BY <1>1, LineFacts DEF IInv, AreFunctions, IsLine
  <1>3. Methods' = Methods
    BY <1>1, ObjectFrame
  <1>4. \A d \in Calls : /\ \A whole : Request(d, whole)' = Request(d, whole)
                         /\ \A line : IsReplyTo(line, d)' <=> IsReplyTo(line, d)
    BY <1>1, CallFrame
  <1>5. \A i \in 1..Len(toHost) : toHost[i].tag \in {"result", "error"}
    BY DEF IInv, TypeOK, AreFunctions, IsLine
  <1>6. \A i \in DOMAIN toHost' : toHost'[i].tag \in {"result", "error"}
    BY <1>2, <1>5 DEF IsLine
  <1>7. Requests' /\ AnswersAreOwn' /\ DeclaredCallsWork'
    <2>1. Requests'
      BY <1>1, <1>4, CallTypes DEF IInv, Requests
    <2> QED
      BY <1>1, <1>3, <2>1
      DEF IInv, AnswersAreOwn, OwnAnswer, DeclaredCallsWork, Misfires, Declared, Methods
  <1>8. CASE pending = <<>>
    <2>1. UNCHANGED <<pending, future>>
      BY <1>8 DEF ReaderCompletes
    <2>2. failed
      BY <1>2, <1>8 DEF IInv, Correlates
    <2>3. TypeOK' /\ AreFunctions'
      <3>1. TypeOK'
        BY <1>1, <1>3, <1>6, <2>1 DEF IInv, TypeOK
      <3>2. AreFunctions'
        BY <1>1, <1>2, <2>1 DEF IInv, AreFunctions, OfCalls, IsLine
      <3> QED
        BY <3>1, <3>2
    <2>4. HasObject
      BY <1>1 DEF IInv, OpensFirst
    <2>5. OpensFirst' /\ Begun'
      BY <1>1, <1>3, <2>1, <2>4 DEF IInv, OpensFirst, HasObject, Begun
    <2>6. Slots' /\ Correlates' /\ Strays'
      BY <1>1, <2>1, <2>2 DEF IInv, Slots, Correlates, Strays
    <2>7. FuturesAnswer'
      BY <1>1, <1>4, <2>1 DEF IInv, FuturesAnswer
    <2> QED
      BY <1>7, <2>3, <2>5, <2>6, <2>7 DEF IInv
  <1>9. CASE pending # <<>>
    <2>1. /\ pending \in Seq(Calls) /\ 1 \in 1..Len(pending)
          /\ \A i, j \in 1..Len(pending) : pending[i] = pending[j] => i = j
          /\ \A i \in 1..Len(pending) : /\ future[pending[i]] = NotDone
                                        /\ outcome[pending[i]] \in {Writing, Waiting, Cancelled}
      BY <1>9 DEF IInv, TypeOK, Slots
    <2>2. PICK c \in Calls : c = pending[1]
      BY <2>1
    <2>3. /\ pending' = Tail(pending)
          /\ future' = [future EXCEPT ![c] = toHost[1]]
      BY <1>2, <1>9, <2>1, <2>2 DEF ReaderCompletes
    <2>4. /\ pending' \in Seq(Calls) /\ Len(pending') = Len(pending) - 1
          /\ \A i \in 1..Len(pending') : i + 1 \in 1..Len(pending) /\ pending'[i] = pending[i + 1]
      BY <1>9, <2>1, <2>3
    <2>5. /\ OfCalls(future)' /\ future'[c] = toHost[1]
          /\ \A d \in Calls \ {c} : future'[d] = future[d]
      BY <2>3 DEF IInv, AreFunctions, OfCalls
    <2>6. outcome[c] \notin {Idle, Checked} /\ HasObject
      BY <2>1, <2>2, ReturnFacts, Places
    <2>7. \/ IsReplyTo(toHost[1], c)
          \/ c \in late
          \/ port = NoPort /\ outcome[c] = Writing
      BY <1>1, <1>2, <2>1, <2>2 DEF IInv, Correlates, Strays
    <2>8. TypeOK'
      <3>1. \A i \in DOMAIN pending' : outcome[pending'[i]].type \in {"writing", "waiting", "Cancelled"}
        <4>1. \A i \in 1..Len(pending') : outcome[pending'[i]] \in {Writing, Waiting, Cancelled}
          BY <2>1, <2>4
        <4> QED
          BY <1>1, <2>4, <4>1, Places
      <3>2. \A d \in Calls : future'[d].tag \in {"open", "result", "error", "failed"}
        BY <1>2, <1>5, <2>5 DEF IInv, TypeOK
      <3> QED
        BY <1>1, <1>3, <1>6, <2>4, <3>1, <3>2 DEF IInv, TypeOK
    <2>9. AreFunctions'
      BY <1>1, <1>2, <2>5 DEF IInv, AreFunctions, OfCalls, IsLine
    <2>10. OpensFirst' /\ Begun'
      BY <1>1, <1>3, <2>5, <2>6 DEF IInv, OpensFirst, HasObject, Begun
    <2>11. Slots'
      <3>1. \A i, j \in 1..Len(pending') : pending'[i] = pending'[j] => i = j
        BY <2>1, <2>4
      <3>2. ASSUME NEW i \in 1..Len(pending')
            PROVE  /\ future'[pending'[i]] = NotDone
                   /\ outcome[pending'[i]] \in {Writing, Waiting, Cancelled}
        <4>1. i + 1 \in 1..Len(pending) /\ pending'[i] = pending[i + 1] /\ i + 1 # 1
          BY <2>1, <2>4
        <4>2. pending[i + 1] \in Calls \ {c}
          BY <2>1, <2>2, <4>1
        <4> QED
          BY <2>1, <2>5, <4>1, <4>2
      <3> QED
        BY <1>1, <3>1, <3>2 DEF IInv, Slots
    <2>12. Correlates'
      <3> SUFFICES ASSUME ~failed PROVE Correlates'
        BY <1>1 DEF Correlates
      <3>1. ASSUME NEW i \in 1..Len(toHost')
            PROVE  i \in 1..Len(pending') /\ IsReplyTo(toHost[i], pending[i])'
        <4>1. i + 1 \in 1..Len(pending) /\ IsReplyTo(toHost[i + 1], pending[i + 1])
          BY <1>2, <3>1 DEF IInv, Correlates
        <4>2. i \in 1..Len(pending') /\ pending'[i] = pending[i + 1] /\ toHost'[i] = toHost[i + 1]
          BY <1>2, <2>1, <2>4, <4>1
        <4> QED
          BY <1>4, <2>1, <4>1, <4>2
      <3>2. ASSUME NEW i \in 1..Len(toDevice')
            PROVE  /\ Len(toHost') + i \in 1..Len(pending')
                   /\ toDevice'[i].call = pending'[Len(toHost') + i]
        <4>1. /\ Len(toHost) + i \in 1..Len(pending)
              /\ toDevice[i].call = pending[Len(toHost) + i]
          BY <1>1 DEF IInv, Correlates
        <4>2. Len(toHost') + i \in 1..Len(pending') /\ Len(toHost) + i = (Len(toHost') + i) + 1
          BY <1>1, <1>2, <2>1, <2>4, <4>1
        <4> QED
          BY <1>1, <2>4, <4>1, <4>2
      <3>3. (\A d \in Calls : outcome'[d] # Writing) =>
               Len(pending') = Len(toHost') + Len(toDevice')
        BY <1>1, <1>2, <2>1, <2>4 DEF IInv, Correlates
      <3>4. ASSUME NEW d \in Calls, outcome'[d] = Writing
            PROVE  /\ Len(pending') = Len(toHost') + Len(toDevice') + 1
                   /\ pending'[Len(pending')] = d
        <4>1. Len(pending) = Len(toHost) + Len(toDevice) + 1 /\ pending[Len(pending)] = d
          BY <1>1, <3>4 DEF IInv, Correlates
        <4>2. Len(pending') \in 1..Len(pending') /\ Len(pending') + 1 = Len(pending)
          BY <1>2, <2>1, <2>4, <4>1
        <4> QED
          BY <1>1, <1>2, <2>4, <4>1, <4>2
      <3> QED
        BY <1>1, <3>1, <3>2, <3>3, <3>4 DEF IInv, Correlates
    <2>13. Strays'
      BY <1>1, <2>4 DEF IInv, Strays
    <2>14. FuturesAnswer'
      BY <1>1, <1>4, <2>5, <2>7, Places DEF IInv, FuturesAnswer
    <2> QED
      BY <1>7, <2>8, <2>9, <2>10, <2>11, <2>12, <2>13, <2>14 DEF IInv
  <1> QED
    BY <1>8, <1>9

(* What the device answers to a request is in order, and it does not know  *)
(* the request only if the call was late or not made as declared.          *)
LEMMA DeviceFacts ==
  ASSUME IInv, DeviceAnswers
  PROVE  \E c \in Calls : \E value, line :
            /\ c = toDevice[1].call
            /\ Answers(c, value, line)
            /\ value.type \in Results \cup {"FtSwarmError", "Unknown"}
            /\ value # Idle
            /\ line.tag \in {"result", "error"}
            /\ \/ line = ErrorLine /\ value \in {FtSwarmError, Unknown}
               \/ /\ line = [tag |-> "result", text |-> Format(value)]
                  /\ value \in ValuesOf(ReturnsOf(c), Numbers)
            /\ value = Unknown =>
                  \/ c \in late
                  \/ ~(/\ use[c].arguments = Declared(use[c].method)
                       /\ use[c].method \notin Classes[kind].attributes)
  <1> DEFINE sent == toDevice[1]
             c == sent.call
             understood == sent.whole /\ Knows(kind, sent.command, sent.parameters)
  <1>1. toDevice # <<>> /\ Head(toDevice) = sent /\ 1 \in 1..Len(toDevice)
    BY LineFacts DEF DeviceAnswers, IInv, AreFunctions
  <1>2. /\ c \in Calls /\ sent = Request(c, sent.whole) /\ (sent.whole \/ c \in late)
        /\ outcome[c] # Idle /\ answer[c] = Idle
    BY <1>1, CallTypes DEF IInv, Requests
  <1> HIDE DEF c
  <1>3. /\ kind \in DOMAIN Classes /\ use[c].method \in DOMAIN Methods
        /\ ReturnsOf(c) \in ReturnTypes
    BY <1>2, ReturnFacts
  <1>4. /\ sent.command = Methods[use[c].method].command
        /\ sent.parameters = EncodeParameters(Parameters(use[c].method, use[c].arguments))
        /\ sent.call = c
        /\ Api(kind)[sent.command].returns = ReturnsOf(c)
    BY <1>2 DEF Request, ReturnsOf
  <1>5. ~understood =>
           \/ c \in late
           \/ ~(/\ use[c].arguments = Declared(use[c].method)
                /\ use[c].method \notin Classes[kind].attributes)
    BY <1>2, <1>3, <1>4, DeclaredFacts
  <1>6. \/ \E value \in ValuesOf(ReturnsOf(c), Numbers) :
              Answers(c, value, [tag |-> "result", text |-> Format(value)])
        \/ Answers(c, FtSwarmError, ErrorLine)
        \/ Answers(c, Unknown, ErrorLine) /\ ~understood
    BY <1>1, <1>4 DEF DeviceAnswers
  <1> HIDE DEF sent, understood
  <1>7. Idle.type = "idle" /\ ErrorLine.tag = "error" /\ FtSwarmError # Unknown
    BY Places DEF ErrorLine
  <1>8. CASE Answers(c, FtSwarmError, ErrorLine)
    BY <1>2, <1>7, <1>8, Places DEF sent, c
  <1>9. CASE Answers(c, Unknown, ErrorLine) /\ ~understood
    BY <1>2, <1>5, <1>7, <1>9, Places DEF sent, c
  <1>10. ASSUME NEW value \in ValuesOf(ReturnsOf(c), Numbers),
                Answers(c, value, [tag |-> "result", text |-> Format(value)])
         PROVE  \E line :
            /\ Answers(c, value, line)
            /\ value.type \in Results \cup {"FtSwarmError", "Unknown"}
            /\ value # Idle /\ value # Unknown
            /\ line.tag \in {"result", "error"}
            /\ line = [tag |-> "result", text |-> Format(value)]
    <2>1. value.type \in Results
      BY <1>3, AnswersParse
    <2>2. value # Idle /\ value # Unknown
      BY <2>1, Places DEF Results
    <2>3. [tag |-> "result", text |-> Format(value)].tag = "result"
      OBVIOUS
    <2> QED
      BY <1>10, <2>1, <2>2, <2>3
  <1>11. CASE \E value \in ValuesOf(ReturnsOf(c), Numbers) :
              Answers(c, value, [tag |-> "result", text |-> Format(value)])
    BY <1>2, <1>10, <1>11 DEF sent, c
  <1> QED
    BY <1>6, <1>8, <1>9, <1>11

(* The oldest request gets the newest reply; with the port closed it gets  *)
(* none, but then the transport has failed.                                *)
LEMMA DeviceStep ==
  ASSUME IInv, DeviceAnswers
  PROVE  IInv'
  <1>1. /\ UNCHANGED <<client, opener, kind, port, use, outcome, late, failed, reading, pending,
                       future, torn>>
        /\ toDevice # <<>> /\ toDevice' = Tail(toDevice)
    BY DEF DeviceAnswers, clientVars, callVars, transportVars
  <1>2. /\ 1 \in 1..Len(toDevice) /\ IsLine(toDevice') /\ Len(toDevice') = Len(toDevice) - 1
        /\ \A i \in 1..Len(toDevice') : i + 1 \in 1..Len(toDevice) /\ toDevice'[i] = toDevice[i + 1]
        /\ Len(toDevice) \in Nat /\ Len(toHost) \in Nat
    BY <1>1, LineFacts DEF IInv, AreFunctions, IsLine
  <1>3. PICK c, value, line :
            /\ c \in Calls
            /\ c = toDevice[1].call
            /\ Answers(c, value, line)
            /\ value.type \in Results \cup {"FtSwarmError", "Unknown"}
            /\ value # Idle
            /\ line.tag \in {"result", "error"}
            /\ \/ line = ErrorLine /\ value \in {FtSwarmError, Unknown}
               \/ /\ line = [tag |-> "result", text |-> Format(value)]
                  /\ value \in ValuesOf(ReturnsOf(c), Numbers)
            /\ value = Unknown =>
                  \/ c \in late
                  \/ ~(/\ use[c].arguments = Declared(use[c].method)
                       /\ use[c].method \notin Classes[kind].attributes)
    BY DeviceFacts
  <1> c \in Calls
    BY <1>3
  <1>4. /\ toHost' = IF port = NoPort THEN toHost ELSE Append(toHost, line)
        /\ OfCalls(answer)' /\ answer'[c] = value
        /\ \A d \in Calls \ {c} : answer'[d] = answer[d]
    BY <1>3 DEF Answers, IInv, AreFunctions, OfCalls
  <1>5. outcome[c] \notin {Idle, Checked, Writing} /\ answer[c] = Idle
    BY <1>2, <1>3 DEF IInv, Requests
  <1>6. /\ HasObject /\ opener = "opened" /\ kind \in DOMAIN Classes
        /\ ReturnsOf(c) \in ReturnTypes
    BY <1>5, ReturnFacts
  <1>7. Methods' = Methods
    BY <1>1, ObjectFrame
  <1>8. /\ \A d \in Calls : \A whole : Request(d, whole)' = Request(d, whole)
        /\ \A d \in Calls \ {c} : \A l : IsReplyTo(l, d)' <=> IsReplyTo(l, d)
    <2>1. \A d \in Calls : \A whole : Request(d, whole)' = Request(d, whole)
      BY <1>1, <1>7 DEF Request, Parameters
    <2> QED
      BY <1>1, <1>4, <2>1, CallFrame
  <1>9. IsReplyTo(line, c)'
    <2>1. ReturnsOf(c)' = ReturnsOf(c)
      BY <1>1, <1>7 DEF ReturnsOf
    <2> QED
      BY <1>3, <1>4, <2>1 DEF IsReplyTo
  <1>10. \A l : ~IsReplyTo(l, c)
    <2>1. Idle \notin {FtSwarmError, Unknown}
      BY Places
    <2>2. Idle \notin ValuesOf(ReturnsOf(c), Numbers)
      BY <1>6, AnswersParse, Places DEF Results
    <2> QED
      BY <1>5, <2>1, <2>2 DEF IsReplyTo
  <1>11. /\ IsLine(toHost') /\ Len(toHost') \in Nat
         /\ \A i \in 1..Len(toHost') : toHost'[i].tag \in {"result", "error"}
         /\ port # NoPort => /\ Len(toHost') = Len(toHost) + 1
                             /\ toHost'[Len(toHost) + 1] = line
                             /\ \A i \in 1..Len(toHost) : toHost'[i] = toHost[i]
    <2>1. IsLine(toHost) /\ \A i \in 1..Len(toHost) : toHost[i].tag \in {"result", "error"}
      BY DEF IInv, TypeOK, AreFunctions, IsLine
    <2>2. CASE port = NoPort
      BY <1>2, <1>4, <2>1, <2>2
    <2>3. CASE port # NoPort
      <3>1. /\ IsLine(toHost') /\ Len(toHost') = Len(toHost) + 1
            /\ toHost'[Len(toHost) + 1] = line
            /\ \A i \in 1..Len(toHost) : toHost'[i] = toHost[i]
        BY <1>4, <2>1, <2>3, LineFacts
      <3> QED
        BY <1>2, <1>3, <2>1, <3>1
    <2> QED
      BY <2>2, <2>3
  <1>12. TypeOK'
    <2>1. \A i \in DOMAIN toHost' : toHost'[i].tag \in {"result", "error"}
      BY <1>11 DEF IsLine
    <2>2. \A i \in DOMAIN toDevice' : toDevice'[i].call \in Calls
      <3>1. DOMAIN toDevice' = 1..Len(toDevice')
        BY <1>2 DEF IsLine
      <3>2. \A i \in 1..Len(toDevice) : toDevice[i].call \in Calls
        BY CallTypes DEF IInv
      <3> QED
        BY <1>2, <3>1, <3>2
    <2>3. \A d \in Calls : answer'[d].type \in Results \cup {"idle", "FtSwarmError", "Unknown"}
      BY <1>3, <1>4 DEF IInv, TypeOK
    <2> QED
      BY <1>1, <1>7, <2>1, <2>2, <2>3 DEF IInv, TypeOK
  <1>13. AreFunctions'
    <2>1. OfCalls(use)' /\ OfCalls(outcome)' /\ OfCalls(future)'
      BY <1>1 DEF IInv, AreFunctions, OfCalls
    <2> QED
      BY <1>2, <1>4, <1>11, <2>1 DEF AreFunctions, IsLine
  <1>14. OpensFirst'
    BY <1>1, <1>6 DEF IInv, OpensFirst, HasObject
  <1>15. Begun'
    BY <1>1, <1>4, <1>5, <1>7 DEF IInv, Begun
  <1>16. Requests'
    <2>1. ASSUME NEW i \in 1..Len(toDevice')
          PROVE  /\ (toDevice[i] = Request(toDevice[i].call, toDevice[i].whole))'
                 /\ (toDevice[i].whole \/ toDevice[i].call \in late)'
                 /\ (outcome[toDevice[i].call] \notin {Idle, Checked, Writing})'
                 /\ (answer[toDevice[i].call] = Idle)'
      <3>1. toDevice'[i] = toDevice[i + 1] /\ i + 1 \in 1..Len(toDevice) /\ i + 1 # 1
        BY <1>2
      <3>2. PICK d \in Calls : d = toDevice[i + 1].call
        BY <3>1, CallTypes DEF IInv
      <3>3. /\ d # c /\ toDevice[i + 1] = Request(d, toDevice[i + 1].whole)
            /\ toDevice[i + 1].whole \/ d \in late
            /\ outcome[d] \notin {Idle, Checked, Writing} /\ answer[d] = Idle
        BY <1>2, <1>3, <3>1, <3>2 DEF IInv, Requests
      <3>4. outcome'[d] = outcome[d] /\ answer'[d] = Idle /\ late' = late
        BY <1>1, <1>4, <3>3
      <3>5. Request(toDevice[i].call, toDevice[i].whole)' = Request(d, toDevice[i + 1].whole)
        BY <1>8, <3>1, <3>2
      <3> QED
        BY <3>1, <3>2, <3>3, <3>4, <3>5
    <2>2. \A i, j \in 1..Len(toDevice') : toDevice'[i].call = toDevice'[j].call => i = j
      BY <1>2 DEF IInv, Requests
    <2> QED
      BY <2>1, <2>2 DEF Requests
  <1>17. Slots' /\ Strays'
    BY <1>1 DEF IInv, Slots, Strays
  <1>18. Correlates'
    <2> SUFFICES ASSUME ~failed PROVE Correlates'
      BY <1>1 DEF Correlates
    <2>1. port # NoPort
      BY <1>6 DEF IInv, OpensFirst
    <2>2. /\ pending \in Seq(Calls)
          /\ \A i, j \in 1..Len(pending) : pending[i] = pending[j] => i = j
          /\ \A i \in 1..Len(toHost) : i \in 1..Len(pending) /\ IsReplyTo(toHost[i], pending[i])
          /\ \A i \in 1..Len(toDevice) : /\ Len(toHost) + i \in 1..Len(pending)
                                         /\ toDevice[i].call = pending[Len(toHost) + i]
      BY DEF IInv, TypeOK, Slots, Correlates
    <2>3. c = pending[Len(toHost) + 1] /\ Len(toHost) + 1 \in 1..Len(pending)
      BY <1>2, <1>3, <2>2
    <2>4. Len(toHost') = Len(toHost) + 1 /\ Len(toDevice') = Len(toDevice) - 1 /\ pending' = pending
      BY <1>1, <1>2, <1>11, <2>1
    <2>5. ASSUME NEW i \in 1..Len(toHost')
          PROVE  i \in 1..Len(pending') /\ IsReplyTo(toHost[i], pending[i])'
      <3>1. CASE i = Len(toHost) + 1
        BY <1>9, <1>11, <2>1, <2>3, <2>4, <3>1
      <3>2. CASE i # Len(toHost) + 1
        <4>1. i \in 1..Len(toHost) /\ i \in 1..Len(pending) /\ pending[i] \in Calls
          BY <1>2, <2>2, <2>4, <3>2
        <4>2. PICK d \in Calls \ {c} : d = pending[i]
          BY <2>2, <2>3, <3>2, <4>1
        <4>3. IsReplyTo(toHost[i], d)
          BY <2>2, <4>1, <4>2
        <4> QED
          BY <1>8, <1>11, <2>1, <2>4, <4>1, <4>2, <4>3
      <3> QED
        BY <3>1, <3>2
    <2>6. ASSUME NEW i \in 1..Len(toDevice')
          PROVE  /\ Len(toHost') + i \in 1..Len(pending')
                 /\ toDevice'[i].call = pending'[Len(toHost') + i]
      <3>1. toDevice'[i] = toDevice[i + 1] /\ i + 1 \in 1..Len(toDevice)
        BY <1>2
      <3>2. /\ Len(toHost) + (i + 1) \in 1..Len(pending)
            /\ toDevice[i + 1].call = pending[Len(toHost) + (i + 1)]
        BY <2>2, <3>1
      <3>3. Len(toHost) + (i + 1) = Len(toHost') + i
        BY <1>2, <2>4
      <3> QED
        BY <2>4, <3>1, <3>2, <3>3
    <2>7. Len(toHost') + Len(toDevice') = Len(toHost) + Len(toDevice)
      BY <1>2, <2>4
    <2>8. /\ (\A d \in Calls : outcome'[d] # Writing) =>
                Len(pending') = Len(toHost') + Len(toDevice')
          /\ \A d \in Calls : outcome'[d] = Writing =>
                /\ Len(pending') = Len(toHost') + Len(toDevice') + 1
                /\ pending'[Len(pending')] = d
      BY <1>1, <2>7 DEF IInv, Correlates
    <2> QED
      BY <1>1, <2>5, <2>6, <2>8 DEF IInv, Correlates
  <1>19. FuturesAnswer'
    BY <1>1, <1>8, <1>10 DEF IInv, FuturesAnswer
  <1>20. AnswersAreOwn'
    <2>1. Idle.type \notin Results /\ Idle \notin {FtSwarmError, Unknown}
      BY Places DEF Results
    <2> QED
      BY <1>1, <1>4, <1>5, <2>1 DEF IInv, AnswersAreOwn, OwnAnswer
  <1>21. DeclaredCallsWork'
    <2>1. \A d \in Calls \ {c} : Misfires(d)' <=> Misfires(d)
      BY <1>1, <1>4 DEF Misfires
    <2>2. \A m : Declared(m)' = Declared(m)
      BY <1>7 DEF Declared
    <2>3. Misfires(c)' => Misfires(c) \/ value = Unknown
      BY <1>1, <1>4 DEF Misfires
    <2> QED
      BY <1>1, <1>3, <2>1, <2>2, <2>3 DEF IInv, DeclaredCallsWork
  <1> QED
    BY <1>12, <1>13, <1>14, <1>15, <1>16, <1>17, <1>18, <1>19, <1>20, <1>21 DEF IInv

-----------------------------------------------------------------------------
(* The theorems                                                            *)

(* It holds at first, and every step keeps it.                             *)
LEMMA InitIInv == Init => IInv
  <1> SUFFICES ASSUME Init PROVE IInv
    OBVIOUS
  <1>1. /\ HasObject = FALSE /\ client = "new" /\ opener = "idle" /\ failed = FALSE
        /\ port = NoPort /\ kind = "none" /\ reading = FALSE /\ torn = FALSE /\ late = {}
        /\ pending = <<>> /\ toDevice = <<>> /\ toHost = <<>>
        /\ \A c \in Calls : /\ use[c] = NoUse /\ outcome[c] = Idle
                            /\ future[c] = NotDone /\ answer[c] = Idle
    BY DEF Init, HasObject
  <1>2. /\ Idle.type = "idle" /\ NotDone.tag = "open" /\ "idle" \notin Results
        /\ Idle \notin {FtSwarmError, Unknown, Checked, Writing, Waiting}
    BY Places DEF NotDone, Results
  <1>3. TypeOK
    <2>1. \A c \in Calls :
            /\ use[c] = NoUse \/ use[c].method \in DOMAIN Methods
            /\ outcome[c].type \in Results \cup Exceptions
                   \cup {"idle", "checked", "writing", "waiting"}
            /\ answer[c].type \in Results \cup {"idle", "FtSwarmError", "Unknown"}
            /\ future[c].tag \in {"open", "result", "error", "failed"}
      BY <1>1, <1>2
    <2>2. /\ pending \in Seq(Calls)
          /\ DOMAIN pending = {} /\ DOMAIN toDevice = {} /\ DOMAIN toHost = {}
      BY <1>1
    <2> QED
      BY <1>1, <2>1, <2>2 DEF TypeOK
  <1>4. AreFunctions
    BY <1>1, EmptyLine DEF Init, AreFunctions, OfCalls
  <1>5. OpensFirst /\ Begun /\ FuturesAnswer
    BY <1>1, <1>2 DEF OpensFirst, Begun, FuturesAnswer
  <1>6. Requests /\ Slots /\ Correlates /\ Strays
    BY <1>1, <1>2 DEF Requests, Slots, Correlates, Strays
  <1>7. AnswersAreOwn /\ DeclaredCallsWork
    BY <1>1, <1>2 DEF AnswersAreOwn, OwnAnswer, DeclaredCallsWork
  <1> QED
    BY <1>3, <1>4, <1>5, <1>6, <1>7 DEF IInv

LEMMA StepIInv == IInv /\ [Next]_vars => IInv'
  <1> SUFFICES ASSUME IInv, [Next]_vars PROVE IInv'
    OBVIOUS
  <1>1. CASE (\E flavour \in {"sync", "async"} : Open(flavour)) \/ OpenReturns \/ OpenCancelled
    BY <1>1, OpeningSteps
  <1>2. CASE Opener
    BY <1>2, OpeningSteps, ClosingSteps DEF Opener
  <1>3. CASE (\E exception \in BOOLEAN : Leave(exception)) \/ ReaderStops \/ UNCHANGED vars
    BY <1>3, QuietSteps
  <1>4. CASE Close \/ PortBreaks
    BY <1>4, ClosingSteps
  <1>5. ASSUME NEW c \in Calls, CallBegins(c) \/ Resume(c) \/ Abandon(c)
        PROVE  IInv'
    BY <1>5, CallBeginsStep, ResumeStep, AbandonStep
  <1>6. ASSUME NEW c \in Calls, CallProceeds(c)
        PROVE  IInv'
    BY <1>6, AppendPendingStep, WriteCommandStep, WriteCommandFailsStep DEF CallProceeds
  <1>7. CASE ReaderCompletes
    BY <1>7, ReaderStep
  <1>8. CASE DeviceAnswers
    BY <1>8, DeviceStep
  <1> QED
    BY <1>1, <1>2, <1>3, <1>4, <1>5, <1>6, <1>7, <1>8 DEF Next

(* As long as nothing failed, the deque has one slot for every command     *)
(* whose reply has not been handled, in the order in which the device      *)
(* answers, whoever gives up waiting.  Afterwards calls still take slots   *)
(* and the reader may still empty them, but only those of late calls, or   *)
(* of calls whose write raises because the port is closed.                 *)
THEOREM Invariance == Spec => []IInv
  BY InitIInv, StepIInv, PTL DEF Spec

(* The life of the client, its calls and the lines between client and      *)
(* device keep their types, for any calls, classes and serial ports.       *)
THEOREM TypeCorrect == Spec => []TypeOK
  <1>1. IInv => TypeOK
    BY DEF IInv
  <1> QED
    BY <1>1, Invariance, PTL

(* A method returns the value with which the device answered this very     *)
(* call, type and content, and raises FtSwarmError only if the device      *)
(* refused this very call: whatever other calls are abandoned or refused,  *)
(* and wherever they are in command() when the reader fails or somebody    *)
(* closes the transport.  When a write fails this does not hold for the    *)
(* calls that are then past their failure check and without a slot, and it *)
(* does for all others.                                                    *)
THEOREM CallsGetTheirOwnAnswers == Spec => []AnswersAreOwn
  <1>1. IInv => AnswersAreOwn
    BY DEF IInv
  <1> QED
    BY <1>1, Invariance, PTL

(* A method that is called as it is declared sends what src/api declares   *)
(* and can parse whatever src/api lets the device answer, in every class   *)
(* and for all numbers; members hidden by an attribute excepted, and the   *)
(* calls that a failed write left without their own replies.               *)
THEOREM MethodsAgreeWithTheApi == Spec => []DeclaredCallsWork
  <1>1. IInv => DeclaredCallsWork
    BY DEF IInv
  <1> QED
    BY <1>1, Invariance, PTL

(* What every generated method sends is declared for its class in src/api, *)
(* and its parser undoes how the device writes what src/api lets it return. *)
THEOREM MethodsFitTheApi ==
  /\ \A k \in DOMAIN Classes : Fits(Classes[k].methods, Api(k))
  /\ \A type \in ReturnTypes : \A value \in ValuesOf(type, Numbers) :
        Parse(ParserOf(type), Format(value)) = value
  BY ClassesFit, AnswersParse
=============================================================================
