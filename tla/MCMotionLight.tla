--------------------------- MODULE MCMotionLight ---------------------------
EXTENDS MotionLight

\* Everything is registered, or one of the absentees is not.
AllOrAllButOne == {Absentees} \cup {Absentees \ {d} : d \in Absentees}

ShortOffList == <<"corridor", "kitchen">>

\* Four reports of the corridor's sensors, or fewer of others.
MCWeight(source) == IF source \in {"corridor", "hall"} THEN 1 ELSE 2

=============================================================================
