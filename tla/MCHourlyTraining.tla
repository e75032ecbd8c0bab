--------------------------- MODULE MCHourlyTraining ---------------------------
EXTENDS HourlyTraining, TLC

(* The air station is matched with a weather station of another id, and the  *)
(* weather station of its own id has the longer series.  The air frame is    *)
(* one row too long for the cap, or has a gap; the matched station is        *)
(* measured after an origin without weather; the temperature has too few     *)
(* rows, or its dataset is missing.                                          *)
MCMatch == 1 :> 2
Given(air, own, matched, missing) ==
    [air |-> 1 :> air, weather |-> (1 :> own) @@ (2 :> matched), missing |-> missing]
MCMeasured ==
    {Given(0..4, 0..3, {0, 4}, {}),
     Given({0, 2, 3, 4}, 0..3, {2, 4}, {"temperature_c"}),
     Given({0, 3, 4}, {0, 1, 3}, {0, 4}, {})}

MCChampions == {{"precipitation_mm", "PM10"}}

MCOrder == <<"temperature_c", "precipitation_mm", "PM10">>
MCWeatherTargets == {"temperature_c", "precipitation_mm"}
MCAlgorithms == [t \in {"temperature_c", "precipitation_mm", "PM10"} |->
    IF t = "precipitation_mm" THEN <<"hurdle">> ELSE <<"persistence", "ridge">>]
===============================================================================
