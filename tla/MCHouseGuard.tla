---------------------------- MODULE MCHouseGuard ----------------------------
EXTENDS HouseGuard, TLC

WorkerSymmetry == Permutations(Workers)

\* All executive devices, or all but one in the middle of the list.
SomeRegistries == {{"hot", "washer"}, {"hot", "cold", "washer"}}
\* Three motions or reports of the lamp, or a leak and a command of the web page, or a
\* current and one message.
MCWeight(kind) == IF kind \in {"leak", "web", "current"} THEN 3 ELSE 2
\* For the charger: only currents.
ChargerWeight(kind) == IF kind = "current" THEN 1 ELSE MaxMessages + 1
=============================================================================
