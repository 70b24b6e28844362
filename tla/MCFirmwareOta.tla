----------------------------- MODULE MCFirmwareOta -----------------------------
\* An instance of FirmwareOta for TLC: two releases of three files, the second
\* with a fourth.
EXTENDS FirmwareOta

CONSTANTS extra

MCBundle == [v \in Release |-> IF v = 1 THEN File \ {extra} ELSE File]
=============================================================================
