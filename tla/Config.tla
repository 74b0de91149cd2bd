-------------------------------- MODULE Config --------------------------------
(***************************************************************************)
(* The loader of config/config.go: a struct is filled field by field from  *)
(* the environment, as its tags say, and the first error ends it.  The     *)
(* value of a variable is one of a few strings that tell the parsers       *)
(* apart, and an int32 has Int32Width bits.                                *)
(***************************************************************************)
LOCAL INSTANCE Integers
LOCAL INSTANCE Sequences

CONSTANT Int32Width

ASSUME ConfigConstants == Int32Width \in Nat \ {0}

Unset == "unset"   \* a variable that is not set, a field without a default

Raw == {"", "x", "0", "1", "9", "1s"}

-----------------------------------------------------------------------------
\* What the parser of each kind of field accepts; a duration of "0" needs no unit.
Readable(kind) ==
  CASE kind \in {"string", "strings"} -> Raw
    [] kind \in {"int32", "float"} -> {"0", "1", "9"}
    [] kind = "bool" -> {"0", "1"}
    [] kind = "duration" -> {"0", "1s"}
    [] OTHER -> {}

Number(raw) == CASE raw = "0" -> 0 [] raw \in {"1", "1s"} -> 1 [] raw = "9" -> 9

\* SetInt of package reflect keeps the low bits.
SetInt32(n) == ((n + 2 ^ (Int32Width - 1)) % 2 ^ Int32Width) - 2 ^ (Int32Width - 1)

\* strings.Split finds one empty element in "".
setField(kind, raw) ==
  CASE kind = "string" -> raw
    [] kind = "strings" -> <<raw>>
    [] kind = "bool" -> raw = "1"
    [] kind \in {"duration", "float"} -> Number(raw)
    [] kind = "int32" -> SetInt32(Number(raw))

\* What Go gives a field that is not set.
Zero(kind) ==
  CASE kind = "string" -> "" [] kind = "strings" -> <<>> [] kind = "bool" -> FALSE
    [] OTHER -> 0

\* Mutant: os.Getenv, for which an empty variable is not set.
Getenv(env, name) == IF env[name] = "" THEN Unset ELSE env[name]
LookupEnv(env, name) == env[name]

\* The string for field f, from its variable or from its default.
raw(f, env) ==
  LET set == IF f.tagged THEN LookupEnv(env, f.name) ELSE Unset
  IN  IF set = Unset THEN f.default ELSE set

\* The loader passes over f, cannot go on, or sets it.
Skips(f, env) == raw(f, env) = Unset /\ ~f.required
Fails(f, env) == IF raw(f, env) = Unset THEN f.required ELSE raw(f, env) \notin Readable(f.kind)

-----------------------------------------------------------------------------
Field(name, kind, default, required) ==
  [name |-> name, kind |-> kind, default |-> default, required |-> required, tagged |-> TRUE]

\* Fields of the presets, one of each kind.
ServerConfig == <<Field("HTTP_SHUTDOWN_INTERVAL", "duration", "1s", FALSE)>>

PostgresConfig ==
  <<Field("POSTGRES_DSN", "string", Unset, TRUE),
    Field("POSTGRES_MAX_CONNS", "int32", "1", FALSE)>>

OTelConfig ==
  <<Field("OTEL_TRACES_SAMPLE_RATIO", "float", "9", FALSE),
    Field("OTEL_EXPORTER_OTLP_INSECURE", "bool", "1", FALSE)>>

\* What a service adds: a list with an env tag alone, and a field without one.
Own ==
  <<Field("FEATURES", "strings", Unset, FALSE),
    [name |-> "cache", kind |-> "string", default |-> Unset, required |-> FALSE, tagged |-> FALSE]>>

\* loadStruct descends into a struct where it meets one.
Schema == ServerConfig \o PostgresConfig \o OTelConfig \o Own

Fields == {Schema[i] : i \in 1..Len(Schema)}

fieldOf == [name \in {f.name : f \in Fields} |-> CHOOSE f \in Fields : f.name = name]

Empty == [name \in DOMAIN fieldOf |-> Zero(fieldOf[name].kind)]

-----------------------------------------------------------------------------
\* What the documentation says, apart from how the loader goes about it.  The text of
\* a field is that of its variable, or its default if that is not set (config.go:6-7).
Text(f, env) == IF f.tagged /\ env[f.name] # Unset THEN env[f.name] ELSE f.default

\* What a text means, for each of the supported kinds of field (config.go:10-12).
Meaning(kind) ==
  CASE kind = "string" -> [text \in Raw |-> text]
    [] kind = "strings" -> [text \in Raw |-> <<text>>]
    [] kind = "bool" -> [text \in {"0", "1"} |-> text = "1"]
    [] kind = "duration" -> [text \in {"0", "1s"} |-> IF text = "0" THEN 0 ELSE 1]
    [] kind \in {"int32", "float"} ->
         [text \in {"0", "1", "9"} |-> IF text = "0" THEN 0 ELSE IF text = "1" THEN 1 ELSE 9]

\* Whether a field of this kind has room for what the text means.
Fits(kind, text) ==
  kind = "int32" =>
    Meaning(kind)[text] \in -(2 ^ (Int32Width - 1)) .. (2 ^ (Int32Width - 1) - 1)

\* A field with a text can be loaded if the text means something; one without, if
\* it is not marked as required (config.go:8; but :6 has it that every one is).
Loadable(f, env) ==
  IF Text(f, env) = Unset THEN ~f.required ELSE Text(f, env) \in DOMAIN Meaning(f.kind)

\* A field has what its text means; what has no text keeps the zero value of Go.
Holds(f, env, value) ==
  value = IF Text(f, env) = Unset THEN Zero(f.kind) ELSE Meaning(f.kind)[Text(f, env)]
=============================================================================
