---------------------------- MODULE MCSerialLink ----------------------------
(* Frames with and without a payload, one with a frame inside it, one whose  *)
(* check sum is SOF, and one of the longest payload, which is 5 here.        *)
EXTENDS SerialLink, Bitwise

MCExclOr(a, b) == a ^^ b
MCFrames == {[cmd0 |-> 97, cmd1 |-> 1, payload |-> <<>>],
             [cmd0 |-> 68, cmd1 |-> 129, payload |-> <<1, 2>>],
             [cmd0 |-> 127, cmd1 |-> 129, payload |-> <<>>],
             [cmd0 |-> 69, cmd1 |-> 202, payload |-> <<SOF, 0, 65, 65>>],
             [cmd0 |-> 65, cmd1 |-> 128, payload |-> <<1, 1, 1, 1, 1>>]}
==============================================================================
