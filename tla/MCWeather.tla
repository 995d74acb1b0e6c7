----------------------------- MODULE MCWeather ------------------------------
(* One client, as connections share nothing; a city the server knows and    *)
(* one it does not.                                                         *)
EXTENDS Weather, TLC

CONSTANTS beijing, paris
MCCities == {beijing, paris}
MCKnown == {beijing}
=============================================================================
