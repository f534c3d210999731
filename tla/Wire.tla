-------------------------------- MODULE Wire --------------------------------
(***************************************************************************)
(* protocol.py of the Python client: how arguments become the parameters   *)
(* of a command line, and how the text of a reply becomes a value.         *)
(*                                                                         *)
(* A text is a sequence of words.  A word is what a parser can tell of it: *)
(* a decimal integer, another number, a word that begins with "ok",        *)
(* something in double quotes, or anything else; "of" tells two of a sort  *)
(* apart.  A Python value is its type and the numbers that make it up.     *)
(***************************************************************************)
EXTENDS Integers, Sequences

Sorts == {"int", "float", "ok", "quoted", "other"}
Word(sort, n) == [is |-> sort, of |-> n]
Words == [is : Sorts, of : Int]

Value(type, numbers) == [type |-> type, of |-> numbers]
None == Value("None", <<>>)
ValueError == Value("ValueError", <<>>)
TypeError == Value("TypeError", <<>>)
AttributeError == Value("AttributeError", <<>>)

(* A string that holds a double quote, known by the quote's code.          *)
TextWithQuote == Value("str", <<34>>)

(* A table with the rows of `base`, and those of `own` besides or instead.  *)
(* DeviceApi and PythonMembers share rows in this way; how the generator   *)
(* merges templates is in Templates.                                       *)
With(base, own) ==
    [name \in DOMAIN base \cup DOMAIN own |->
        IF name \in DOMAIN own THEN own[name] ELSE base[name]]

-----------------------------------------------------------------------------
(* _encode_parameter                                                       *)

(* bool comes before int, so a boolean is never sent as True or False.     *)
EncodeParameter(value) ==
    CASE value.type = "bool"  -> Word("int", value.of[1])
      [] value.type = "str"   -> Word("quoted", value.of[1])
      [] value.type = "int"   -> Word("int", value.of[1])
      [] value.type = "float" -> Word("float", value.of[1])

(* What encode_command raises before anything is sent: the error of the    *)
(* first parameter that cannot be encoded, or None.                        *)
EncodeError(parameters) ==
    LET error(value) ==
            CASE value = TextWithQuote -> ValueError
              [] value.type \notin {"bool", "str", "int", "float"} -> TypeError
              [] OTHER -> None
        raising == {i \in DOMAIN parameters : error(parameters[i]) # None}
    IN  IF raising = {} THEN None
        ELSE error(parameters[CHOOSE i \in raising : \A j \in raising : i <= j])

EncodeParameters(parameters) ==
    [i \in DOMAIN parameters |-> EncodeParameter(parameters[i])]

-----------------------------------------------------------------------------
(* The parsers.  What Python's int() and float() take: float() takes the   *)
(* text of an integer, int() takes no fraction.                            *)

IsInt(text) == Len(text) = 1 /\ text[1].is = "int"
IsFloat(word) == word.is \in {"int", "float"}

(* " ok" anywhere, and an integer in front of the first space.             *)
parse_ok(text) ==
    IF /\ \E i \in 2..Len(text) : text[i].is = "ok"
       /\ text[1].is = "int"
    THEN None
    ELSE ValueError

parse_int(text) ==
    IF IsInt(text) THEN Value("int", <<text[1].of>>) ELSE ValueError

parse_float(text) ==
    IF Len(text) = 1 /\ IsFloat(text[1])
    THEN Value("float", <<text[1].of>>)
    ELSE ValueError

(* Exactly "1" or "0".                                                     *)
parse_bool(text) ==
    IF IsInt(text) /\ text[1].of \in {0, 1}
    THEN Value("bool", <<text[1].of>>)
    ELSE ValueError

(* Any text, without the quotes around it.                                 *)
parse_string(text) == Value("str", [i \in DOMAIN text |-> text[i].of])

parse_joystick(text) ==
    IF Len(text) = 2 /\ IsFloat(text[1]) /\ IsFloat(text[2])
    THEN Value("JoystickValue", <<text[1].of, text[2].of>>)
    ELSE ValueError

MicrostepModes == {0, 4, 2, 6, 7}

(* cls(int(value)): the lookup of an Enum by its value.                    *)
from_wire_value(text) ==
    IF IsInt(text) /\ text[1].of \in MicrostepModes
    THEN Value("MicrostepMode", <<text[1].of>>)
    ELSE ValueError

Parse(parser, text) ==
    CASE parser = "parse_ok"        -> parse_ok(text)
      [] parser = "parse_int"       -> parse_int(text)
      [] parser = "parse_float"     -> parse_float(text)
      [] parser = "parse_bool"      -> parse_bool(text)
      [] parser = "parse_string"    -> parse_string(text)
      [] parser = "parse_joystick"  -> parse_joystick(text)
      [] parser = "from_wire_value" -> from_wire_value(text)
=============================================================================
