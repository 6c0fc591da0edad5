--------------------------- MODULE MCSwitchEngine ---------------------------
(* Small instances of SwitchEngine for TLC. *)
EXTENDS SwitchEngine

OneGame == {2}              \* one game
GameAndSystem == {1, 2}     \* a game, and a process the scan refuses
TwoGames == {2, 3}
OneWord == {4}
TwoValues == {0, 7}
=============================================================================
