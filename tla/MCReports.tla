------------------------------ MODULE MCReports ------------------------------
(* Messages of the devices that the sources name.                            *)
EXTENDS Reports

Attr(id, type, val) == [id |-> id, status |-> SUCCESS, type |-> type, val |-> val, tags |-> <<>>]
Tags(id, tags) == [id |-> id, status |-> SUCCESS, type |-> CHARACTER_STRING, val |-> <<>>, tags |-> tags]
Tag(tag, type, val) == [tag |-> tag, type |-> type, val |-> val]
Refused(id) == [id |-> id, status |-> 134, type |-> 0, val |-> <<>>, tags |-> <<>>]

\* One or two attributes of a set, in either order.
Lists(as) == {<<a>> : a \in as} \cup {<<a, b>> : a, b \in as}
Distinct(list) == \A j, n \in DOMAIN list : j # n => list[j].id # list[n].id
Reported(c, as) == {[cluster |-> c, endpoint |-> e, answer |-> FALSE, attrs |-> l] :
                      e \in IF c = "ON_OFF" THEN {1, 2} ELSE {1}, l \in {x \in Lists(as) : Distinct(x)}}
Answered(c, as) == {[m EXCEPT !.answer = TRUE] : m \in Reported(c, as)}

\* Types: uint8, uint16, one the program does not know, one it reads eight bytes of.
U8 == 32
U16 == 33
U24 == 34
U48 == 37
Failing == {Refused(<<7, 0>>), Refused(<<6, 0>>)}
BasicAttrs == {Attr(<<5, 0>>, 66, <<>>), Attr(<<5, 0>>, 66, <<65, 66>>), Attr(<<5, 0>>, 68, <<67>>),
               Attr(<<7, 0>>, 48, <<3>>), Attr(<<7, 0>>, 48, <<1>>), Attr(<<7, 0>>, U16, <<1, 0>>),
               Attr(<<1, 0>>, U48, <<1, 2, 3, 4, 5, 6>>), Attr(<<2, 0>>, U24, <<1, 2, 3>>),
               Attr(<<3, 0>>, 0, <<9>>)}

\* The strings that the comments in basic.cpp list: the leak sensor's and the relay's.
LeakTags == <<Tag(1, U16, <<209, 11>>), Tag(3, 40, <<30>>), Tag(4, U16, <<168, 67>>), Tag(5, U16, <<8, 0>>),
              Tag(6, 36, <<1, 0, 0, 0, 0>>), Tag(8, U16, <<6, 2>>), Tag(9, U16, <<0, 4>>),
              Tag(10, U16, <<0, 0>>), Tag(100, 16, <<1>>)>>
RelayTags == <<Tag(3, 40, <<31>>), Tag(5, U16, <<5, 0>>), Tag(8, U16, <<47, 19>>), Tag(9, U16, <<1, 2>>),
               Tag(100, 16, <<0>>), Tag(101, 16, <<1>>), Tag(110, U8, <<0>>), Tag(111, U8, <<0>>),
               Tag(148, U8, <<2>>), Tag(149, 57, <<10, 215, 163, 57>>), Tag(150, 57, <<88, 72, 10, 69>>),
               Tag(151, 57, <<0, 48, 104, 59>>), Tag(152, 57, <<0, 0, 0, 0>>), Tag(155, U16, <<0, 0>>),
               Tag(156, U8, <<1>>), Tag(10, U16, <<0, 0>>), Tag(12, 40, <<0>>)>>
\* A current of -1.5, which is too low for Basic and a thousandth of which is not for Xiaomi, and
\* one of -512, which is too low for both.
Low == <<0, 0, 192, 191>>
TooLow == <<0, 0, 0, 196>>
Current(v) == <<Tag(151, 57, v)>>
Packed == {Tags(<<1, 255>>, LeakTags), Tags(<<1, 255>>, RelayTags), Tags(<<1, 255>>, Current(Low))}
PowerThen(ps) == {[cluster |-> "BASIC", endpoint |-> 1, answer |-> FALSE,
                   attrs |-> <<p, Attr(<<7, 0>>, 48, <<3>>)>>] : p \in ps}

\* The string in xiaomi.cpp: the tags that have a case, and all that are listed.
SwitchTags == <<Tag(3, 40, <<32>>), Tag(5, U16, <<8, 0>>), Tag(8, U16, <<0, 0>>), Tag(9, U16, <<0, 0>>),
                Tag(11, 40, <<0>>), Tag(100, 16, <<1>>), Tag(149, 57, <<0, 0, 0, 1>>),
                Tag(150, 57, <<0, 1, 0, 69>>), Tag(151, 57, <<0, 0, 1, 59>>), Tag(152, 57, <<0, 0, 0, 0>>),
                Tag(154, 40, <<0>>)>>
\* The door sensor's, whole, and with a tag that has no case and looks like another one.
DoorTags == <<Tag(3, 40, <<30>>), Tag(5, U16, <<8, 0>>)>>
OddTags == <<Tag(3, 40, <<30>>), Tag(200, 40, <<5>>)>>
ListedTags == SubSeq(SwitchTags, 1, 5) \o <<Tag(12, U8, <<0>>), Tag(100, 16, <<1>>), Tag(101, 16, <<0>>)>>
              \o SubSeq(SwitchTags, 7, 11)

MCMessages ==
    UNION {
        Reported("BASIC", BasicAttrs), Answered("BASIC", BasicAttrs \cup Failing),
        Reported("BASIC", Packed), PowerThen(Packed),
        Answered("POWER_CONFIGURATION",
            {Attr(<<0, 0>>, U8, <<220>>), Attr(<<0, 0>>, U16, <<152, 8>>), Attr(<<32, 0>>, U8, <<30>>),
             Attr(<<33, 0>>, U8, <<200>>), Attr(<<33, 0>>, U8, <<0>>), Refused(<<49, 0>>)}),
        Reported("DEVICE_TEMPERATURE", {Attr(<<0, 0>>, 41, <<40, 0>>)}),
        Reported("ON_OFF", {Attr(<<0, 0>>, 16, <<0>>), Attr(<<0, 0>>, 16, <<1>>), Attr(<<0, 0>>, U8, <<1>>),
             Attr(<<1, 64>>, U16, <<5, 0>>), Attr(<<245, 0>>, 35, <<1, 2, 3, 4>>)}),
        Reported("ANALOG_INPUT", {Attr(<<85, 0>>, 57, <<0, 0, 80, 65>>), Attr(<<85, 0>>, 57, <<0, 0, 96, 65>>),
             Attr(<<85, 0>>, 56, <<0, 80>>), Attr(<<85, 0>>, 57, <<0, 0, 200, 194>>),
             Attr(<<28, 0>>, 66, <<67>>), Attr(<<28, 0>>, 66, <<86>>), Attr(<<28, 0>>, 66, <<37, 44, 49>>)}),
        Reported("MULTISTATE_INPUT", {Attr(<<85, 0>>, U16, <<1, 0>>), Attr(<<85, 0>>, U8, <<1>>)}),
        Reported("ELECTRICAL_MEASUREMENTS", {Attr(<<5, 5>>, U16, <<220, 0>>), Attr(<<8, 5>>, U16, <<44, 1>>),
             Attr(<<8, 5>>, U8, <<44>>)}),
        Reported("XIAOMI_SWITCH", {Tags(<<247, 0>>, SwitchTags), Tags(<<247, 0>>, ListedTags),
             Tags(<<247, 0>>, Current(Low)), Tags(<<247, 0>>, Current(TooLow)),
             Tags(<<1, 255>>, DoorTags), Tags(<<1, 255>>, OddTags), Attr(<<1, 255>>, U8, <<1>>)})}
==============================================================================
