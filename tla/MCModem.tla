------------------------------ MODULE MCModem ------------------------------
EXTENDS Modem, TLC

WorkerSymmetry == Permutations(Workers)
AllStimuli == {"call", "hangup", "tones", "sms", "balance", "battery", "alarm", "disconnect"}
\* Three events, or a message with a code and one event, or two of the program's commands.
MCWeight(s) == IF s = "sms" THEN 4 ELSE IF s \in {"balance", "battery", "alarm"} THEN 3 ELSE 2
\* For one call and its end.
Calls == {"call", "hangup"}
One(s) == 1
=============================================================================
