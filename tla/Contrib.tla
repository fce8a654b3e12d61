------------------------------- MODULE Contrib -------------------------------
(***************************************************************************)
(* The two devices of contrib/: their components, the values of their data *)
(* points, their constraints, and the conversions between the values of    *)
(* the device and those of MQTT.                                           *)
(*                                                                         *)
(* A data point is called by its name.  A value is one of JSON: a boolean, *)
(* a word or a number, which is counted in tenths.                         *)
(***************************************************************************)
EXTENDS Constraints, Integers, Functions

On == [bool |-> TRUE]
Off == [bool |-> FALSE]
Word(s) == [word |-> s]
Number(tenths) == [tenths |-> tenths]
IsNumber(v) == "tenths" \in DOMAIN v
IsBoolean(v) == "bool" \in DOMAIN v

\* What Python takes for true.
Truthy(v) == v \notin {Off, Number(0), Word("")}

AC == "Airton AC"
Fan == "Ceiling Fan"

\* DISCOVERY: the kind of each component, under the name Home Assistant gives it.
AirtonComponents ==
  [power |-> "switch", set_point |-> "climate", temperature |-> "sensor",
   mode |-> "select", fan |-> "select", eco |-> "switch", light |-> "switch",
   swing |-> "switch", sleep |-> "switch", health |-> "switch"]
FanComponents ==
  [power |-> "switch", speed |-> "select", direction |-> "select", light |-> "switch",
   mode |-> "select"]
Components(model) == IF model = AC THEN AirtonComponents ELSE FanComponents

\* The enumerations: the value of the device for each name.
AirtonOptions ==
  [mode |-> [auto |-> "auto", cool |-> "cold", heat |-> "heat", dry |-> "wet",
             vent |-> "fan"],
   fan |-> [auto |-> "auto", quiet |-> "mute", L1 |-> "low", L2 |-> "low_mid",
            L3 |-> "mid", L4 |-> "mid_high", L5 |-> "high", turbo |-> "turbo"]]
FanOptions ==
  [speed |-> [L1 |-> "1", L2 |-> "2", L3 |-> "3", L4 |-> "4", L5 |-> "5", L6 |-> "6"],
   direction |-> [forward |-> "forward", reverse |-> "reverse"],
   mode |-> [normal |-> "normal", sleep |-> "sleep", nature |-> "nature",
             temperature |-> "temprature"]]
Options(model) == IF model = AC THEN AirtonOptions ELSE FanOptions

\* The data points a component stands for.
PointsOf(c) == IF c = "swing" THEN {"swing", "swing_direction"} ELSE {c}
PointsOfAll(C) == UNION {PointsOf(c) : c \in C}

Rule(dp, value, blacklist) == [dp |-> dp, value |-> value, blacklist |-> blacklist]
Turbo == {Word("turbo")}

\* CONSTRAINTS
AirtonRules ==
  { Rule("eco", On, [set_point |-> {}, fan |-> Turbo, sleep |-> {}]),
    Rule("mode", Word("auto"),
         [set_point |-> {}, fan |-> Turbo, eco |-> {}, sleep |-> {}]),
    Rule("mode", Word("fan"), [set_point |-> {}, eco |-> {}, sleep |-> {}]),
    Rule("mode", Word("wet"), [fan |-> {}, eco |-> {}]) }
FanRules == {Rule("mode", Word("temprature"), [speed |-> {}])}
Rules(model) == IF model = AC THEN AirtonRules ELSE FanRules

-----------------------------------------------------------------------------
(* Numbers.                                                                 *)

\* round(n / m): a half goes to the even neighbour.
RoundedDiv(n, m) ==
  LET q == n \div m
      r == n % m
  IN  IF 2 * r < m \/ (2 * r = m /\ q % 2 = 0) THEN q ELSE q + 1

\* round(v): a boolean counts as 1 or 0.
Rounded(v) ==
  IF IsBoolean(v) THEN IF v.bool THEN 1 ELSE 0 ELSE RoundedDiv(v.tenths, 10)

\* Seeded fault: the last degree is left out.
SetPointBelow(v) ==
  LET degrees == Rounded(v)
  IN  Number(10 * IF degrees > 30 THEN 30 ELSE IF degrees < 16 THEN 16 ELSE degrees)

\* max(min(round(v), 31), 16) * 10
SetPoint(v) ==
  LET degrees == Rounded(v)
  IN  Number(10 * IF degrees > 31 THEN 31 ELSE IF degrees < 16 THEN 16 ELSE degrees)

-----------------------------------------------------------------------------
(* From MQTT to the device: _to_tuya_payload, for a command on component c. *)

\* The command names a component that is included and that can be commanded.
Commandable(model, included, c) ==
  c \in included \cap DOMAIN Components(model) /\ Components(model)[c] # "sensor"

\* The conversion raises.
Inconvertible(model, included, c, v) ==
  /\ Commandable(model, included, c)
  /\ CASE Components(model)[c] = "climate" -> ~IsNumber(v) /\ ~IsBoolean(v)
       [] Components(model)[c] = "select" ->
            \A name \in DOMAIN Options(model)[c] : v # Word(name)
       [] OTHER -> FALSE

Swing(v) ==
  [swing |-> Word(IF Truthy(v) THEN "un_down" ELSE "off"),
   swing_direction |-> Word(IF Truthy(v) THEN "15" ELSE "off")]

Converted(model, c, v) ==
  CASE c = "swing" -> Swing(v)
    [] Components(model)[c] = "climate" -> [x \in {c} |-> SetPoint(v)]
    [] Components(model)[c] = "select" -> [x \in {c} |-> Word(Options(model)[c][v.word])]
    [] OTHER -> [x \in {c} |-> v]

ToTuyaPayload(model, included, c, v) ==
  LET payload == IF Commandable(model, included, c) THEN Converted(model, c, v) ELSE <<>>
  IN  [d \in DataPoint |-> IF d \in DOMAIN payload THEN payload[d] ELSE Absent]

-----------------------------------------------------------------------------
(* From the device to MQTT: _from_tuya_payload.                             *)

\* The components the payload has the data points of.
Reported(model, included, values) ==
  {c \in included \cap DOMAIN Components(model) : PointsOf(c) \subseteq Keys(values)}

OptionNames(model, c, v) == {n \in DOMAIN Options(model)[c] : Word(Options(model)[c][n]) = v}

\* The conversion raises: the device has a value the code does not know.
Unknown(model, included, values) ==
  \E c \in Reported(model, included, values) :
    Components(model)[c] = "select" /\ OptionNames(model, c, values[c]) = {}

\* temperature is what the processors make of the one that is reported.  int(v) / 10
\* keeps the number: the device counts the tenths that the state has as a fraction.
FromTuyaPayload(model, included, values, temperature) ==
  [c \in Reported(model, included, values) |->
     CASE c = "swing" ->
            IF values["swing"] = Word("un_down") /\ values["swing_direction"] = Word("15")
            THEN On ELSE Off
       [] c = "temperature" -> temperature
       [] Components(model)[c] = "select" ->
            Word(CHOOSE n \in OptionNames(model, c, values[c]) : TRUE)
       [] c # "swing" /\ Components(model)[c] = "switch" ->
            IF Truthy(values[c]) THEN On ELSE Off
       [] OTHER -> values[c]]
=============================================================================
