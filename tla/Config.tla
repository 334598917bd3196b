--------------------------------- MODULE Config ---------------------------------
(***************************************************************************)
(* utils/config.py and the precedence main.py gives it: built-in defaults, *)
(* then the JSON file, then MANTIS_* variables, then the command line.     *)
(*                                                                         *)
(* A Python value is <<type, text>>.  The file's values are stored as JSON *)
(* has them; an environment variable is text, coerced to a type; argparse  *)
(* yields typed values, and None for an option that was not given.         *)
(***************************************************************************)
EXTENDS Integers, Sequences

CONSTANTS
    Settings,    (* the attributes of Config                               *)
    Default,     (* [Settings -> values], as __init__ leaves them          *)
    Numerals,    (* the texts int() and float() accept                     *)
    TrueWords,   (* "1", "true", "yes", "on"                               *)
    FalseTexts   (* the texts of the values that count as false in an if   *)

Type(value) == value[1]

(* What `if config.x` sees: any non-empty string is true, "0" and "false" too. *)
Truth(value) == IF Type(value) = "str" THEN value[2] # "" ELSE value[2] \notin FalseTexts

Given(settings) == DOMAIN settings

(* update and apply_args: what is not an attribute is ignored. *)
Updated(config, settings) ==
    [k \in Settings |-> IF k \in Given(settings) THEN settings[k] ELSE config[k]]

(* _set_coerced takes the type from the value the setting has so far. *)
Coerced(current, text) ==
    CASE Type(current) = "bool" -> <<"bool", IF text \in TrueWords THEN "True" ELSE "False">>
      [] Type(current) = "number" -> IF text \in Numerals THEN <<"number", text>> ELSE current
      [] OTHER -> <<"str", text>>

LoadEnv(config, environ) ==
    [k \in Settings |->
        IF k \in Given(environ) THEN Coerced(config[k], environ[k]) ELSE config[k]]

(* Mutants: the environment overrides the command line; the file comes last. *)
Resolve_EnvLast(file, environ, args) ==
    LoadEnv(Updated(Updated(Default, file), args), environ)

Resolve(file, environ, args) == Updated(LoadEnv(Updated(Default, file), environ), args)
================================================================================
