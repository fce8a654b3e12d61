------------------------------ MODULE MCBridge ------------------------------
(* Bridge on an air conditioner and a fan, with a few of their components.   *)
EXTENDS Bridge, TLC

MCDataPoint ==
  PointsOfAll(DOMAIN Components(AC) \cup DOMAIN Components(Fan))
MCModel == [ac |-> AC, fan |-> Fan]
Limits(act, measure, loss, tick) ==
  [act |-> act, measure |-> measure, loss |-> loss, tick |-> tick]
MCBounds ==
  [ac |-> {"swing"}] :> Limits(2, 0, 1, 0)
    @@ [ac |-> {"set_point"}] :> Limits(2, 0, 1, 0)
    @@ [fan |-> {"speed", "mode"}] :> Limits(2, 0, 1, 0)
    @@ [ac |-> {"mode", "temperature"}] :> Limits(1, 2, 1, 2)
    @@ [ac |-> {"light"}] :> Limits(2, 0, 2, 0)
    @@ [ac |-> {"light"}, fan |-> {"power"}] :> Limits(2, 0, 0, 0)
UndoneBounds == [ac |-> {"light"}] :> Limits(2, 0, 0, 0)

Switch == {Off, On}
Words(S) == {Word(s) : s \in S}
\* The first value is the initial one; "unknown" is not in any enumeration.
MCTakes ==
  [ac |->
     [d \in PointsOfAll(DOMAIN Components(AC)) |->
        CASE d = "set_point" -> {Number(160), Number(200)}
          [] d = "temperature" -> {Number(200), Number(205)}
          [] d = "mode" -> Words({"cold", "unknown"})
          [] d = "fan" -> Words({"low", "turbo"})
          [] d = "swing" -> Words({"off", "un_down"})
          [] d = "swing_direction" -> Words({"off", "15"})
          [] OTHER -> Switch],
   fan |->
     [d \in PointsOfAll(DOMAIN Components(Fan)) |->
        CASE d = "speed" -> Words({"1", "6"})
          [] d = "direction" -> Words({"forward"})
          [] d = "mode" -> Words({"normal", "temprature"})
          [] OTHER -> Switch]]

\* Nobody else changes the devices.
NoRemote ==
  [id \in DOMAIN MCTakes |-> [d \in DOMAIN MCTakes[id] |-> {CHOOSE x \in MCTakes[id][d] : TRUE}]]

MCPresses ==
  [ac |->
     [c \in DOMAIN AirtonComponents |->
        CASE c = "set_point" -> {Number(155), Number(200), Word("true")}
          [] c = "mode" -> Words({"none"})
          [] OTHER -> Words({"true", "false"})],
   fan |->
     [c \in DOMAIN FanComponents |->
        CASE c = "speed" -> Words({"L1", "L6"})
          [] c = "mode" -> Words({"normal", "temperature"})
          [] OTHER -> Words({"true", "false"})]]
Home == <<"local-tuya">>
MCValue ==
  UNION {UNION {MCTakes[id][d] : d \in DOMAIN MCTakes[id]} : id \in {"ac", "fan"}}
    \cup Switch \cup Words({"15"}) \cup {Number(10 * degrees) : degrees \in 16..31}
    \cup UNION {UNION {Words(Range(Options(m)[c])) : c \in DOMAIN Options(m)} : m \in {AC, Fan}}
=============================================================================
