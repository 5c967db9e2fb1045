------------------------------- MODULE Reports -------------------------------
(***************************************************************************)
(* How a message with attributes becomes the state of an EndDevice.        *)
(*                                                                         *)
(* parseAttributesPayload walks over the bytes of the ZCL payload and      *)
(* makes a list of attributes; on_attribute_report gives the list to the   *)
(* handler of the message's cluster, which casts each value to the type it *)
(* expects and sets the device's fields.  Devices of Xiaomi pack their     *)
(* state into one string of tags, which two handlers walk over in their    *)
(* own way.  What goes wrong on the way (an unknown type, a wrong cast, a  *)
(* byte past the end) ends the walk at one of its levels.                  *)
(*                                                                         *)
(* The names of the specification begin with Report, because the proofs    *)
(* about it are in one module with those about DeviceRegistry.             *)
(***************************************************************************)
EXTENDS Naturals, Sequences, SequencesExt

CONSTANTS
    DeviceType,  \* deviceInfo.deviceType, the kind of the device in the table of the known ones
    Messages,    \* what the device may send
    MaxMessages  \* bound: messages

Byte == 0..255

\* The clusters whose handlers set something, and one that only logs.
Clusters == {"BASIC", "POWER_CONFIGURATION", "DEVICE_TEMPERATURE", "ON_OFF", "ANALOG_INPUT",
             "MULTISTATE_INPUT", "ELECTRICAL_MEASUREMENTS", "XIAOMI_SWITCH"}
Fields == {"model", "power", "mains", "battery", "remain", "current", "temperature", "humidity",
           "pressure", "state", "state2"}

\* The device's side: an attribute is its id, its status in an answer, its type and value; a
\* string of tags says in "tags" what it is made of: [tag, type, val].
SUCCESS == 0
CHARACTER_STRING == 66

VARIABLES
    ed,        \* the EndDevice: the bytes each field was set from, <<>> before
    msg,       \* the message that is handled
    stage,     \* "idle", "parse", "apply", "tags"
    payload,   \* zcl_frame.payload
    cursor,    \* the next byte of payload, or of the tags
    attributes,\* the attributes that were parsed
    handling,  \* the attribute that is handled
    value, unit, \* locals of AnalogInput
    count,     \* auxiliary: messages so far
    reported   \* history: what the device reported last for each field; <<>> when unknown

reportVars == <<ed, msg, stage, payload, cursor, attributes, handling, value, unit, count, reported>>

-----------------------------------------------------------------------------
(* parseAttributesPayload.                                                 *)

Entry(size, reads, cast) == [size |-> size, reads |-> reads, cast |-> cast]
\* The bytes a number of a type takes, the bytes the program reads, and the C++ type it is
\* stored as.  There are no types of 24 bits but INT24.
Unsigned(n) == CASE n = 1 -> Entry(1, 1, "uint8") [] n = 2 -> Entry(2, 2, "uint16")
                 [] n = 4 -> Entry(4, 4, "uint32") [] OTHER -> Entry(n, 8, "uint64")
Signed(n) == CASE n = 1 -> Entry(1, 1, "int8") [] n = 2 -> Entry(2, 2, "int16")
               [] n \in {3, 4} -> Entry(n, 4, "int32") [] OTHER -> Entry(n, 8, "int64")
UnsignedTypes == {b + n : b \in {7, 23, 31}, n \in 1..8 \ {3}}
NumberTypes == UnsignedTypes \cup 40..47 \cup {16, 48, 49, 56, 57, 58, 224, 225, 226, 232, 233, 234, 240}
NumberOf(t) ==
    CASE t \in UnsignedTypes -> Unsigned((t % 8) + 1)
      [] t \in 40..47 -> Signed(t - 39)
      [] t = 16 -> Entry(1, 1, "bool")
      [] t = 48 -> Unsigned(1)
      [] t \in {49, 232, 233} -> Unsigned(2)
      [] t \in {224, 225, 226, 234} -> Unsigned(4)
      [] t = 240 -> Unsigned(8)
      [] t = 56 -> Entry(2, 4, "float") [] t = 57 -> Entry(4, 4, "float")
      [] t = 58 -> Entry(8, 8, "double")
StringTypes == {65, 66}
LongTypes == {67, 68}
VectorTypes == {72, 76, 80, 81}
Key == 241
HalfFloat == 56
KnownTypes == NumberTypes \cup StringTypes \cup LongTypes \cup VectorTypes \cup {Key}
NoData == 0

Beyond == 256 \* a byte past the payload's end: whatever is there
Bytes(p, from, n) == [j \in 1..n |-> IF from + j - 1 <= Len(p) THEN p[from + j - 1] ELSE Beyond]

\* Where the value of the type at v begins, the bytes it takes and those that are read;
\* size 0 and from past the end if the payload ends before.
Extent(p, t, v) ==
    LET word(at) == p[at] + 256 * p[at + 1]
        none == [from |-> Len(p) + 1, size |-> 0, reads |-> 0, cast |-> "none"]
        at(from, size, cast) == [from |-> from, size |-> size, reads |-> size, cast |-> cast] IN
    CASE t \in NumberTypes -> [from |-> v, size |-> NumberOf(t).size, reads |-> NumberOf(t).reads,
                               cast |-> NumberOf(t).cast]
      [] t \in StringTypes -> at(v + 1, p[v], "string")
      [] t \in LongTypes -> IF v + 1 >= Len(p) \/ v + 2 + word(v) > Len(p) THEN none
                            ELSE at(v + 2, word(v), "string")
      [] t \in VectorTypes -> IF v + 1 >= Len(p) THEN none ELSE at(v + 2, word(v), "vector")
      [] OTHER -> at(v, 16, "vector")

\* Mutant: reports are read as answers.
StatusAlways(m) == m.cluster \notin {"ANALOG_INPUT", "XIAOMI_SWITCH"}
\* A report of an attribute has no status, an answer has; no answers come from two clusters.
WithStatus(m) == m.answer /\ m.cluster \notin {"ANALOG_INPUT", "XIAOMI_SWITCH"}

\* Mutant: attributes of an answer are read whatever their status.
FailedRead(p, at, withStatus) == FALSE
Failed(p, at, withStatus) == withStatus /\ p[at + 2] # SUCCESS

\* The attribute at the cursor: the bytes before its type, and its value.
HeadSize == IF WithStatus(msg) THEN 3 ELSE 2
DataType == payload[cursor + HeadSize]
ValueAt == cursor + HeadSize + 1
Value == Extent(payload, DataType, ValueAt)

HasType == stage = "parse" /\ cursor + HeadSize <= Len(payload) /\ ~Failed(payload, cursor, WithStatus(msg))
HasValue == HasType /\ ValueAt <= Len(payload)

\* The list is handled, an empty one is not.
Apply(list) == attributes' = list /\ stage' = IF list = <<>> THEN "idle" ELSE "apply"

SkipFailed ==
    /\ stage = "parse" /\ cursor + HeadSize <= Len(payload) /\ Failed(payload, cursor, WithStatus(msg))
    /\ cursor' = cursor + 3
    /\ UNCHANGED <<ed, msg, stage, payload, attributes, handling, value, unit, count, reported>>

\* The payload ends too early, or the type is unknown.
ParseStops ==
    /\ \/ stage = "parse" /\ cursor + HeadSize > Len(payload)
       \/ HasType /\ ~HasValue
       \/ HasValue /\ DataType # NoData /\ (DataType \notin KnownTypes \/ Value.from > Len(payload))
    /\ Apply(attributes)
    /\ UNCHANGED <<ed, msg, payload, cursor, handling, value, unit, count, reported>>

ParseThrows ==
    /\ HasValue /\ DataType = NoData
    /\ stage' = "idle"
    /\ UNCHANGED <<ed, msg, payload, cursor, attributes, handling, value, unit, count, reported>>

ParseValue ==
    LET list == Append(attributes, [id |-> Bytes(payload, cursor, 2), type |-> DataType, cast |-> Value.cast,
                                    value |-> Bytes(payload, Value.from, Value.reads)]) IN
    /\ HasValue /\ DataType \in KnownTypes /\ Value.from <= Len(payload)
    /\ IF Value.from + Value.size > Len(payload) THEN Apply(list) /\ UNCHANGED cursor
       ELSE cursor' = Value.from + Value.size /\ attributes' = list /\ UNCHANGED stage
    /\ UNCHANGED <<ed, msg, payload, handling, value, unit, count, reported>>

parseAttributesPayload == SkipFailed \/ ParseStops \/ ParseThrows \/ ParseValue

-----------------------------------------------------------------------------
(* The handlers of the clusters.                                           *)

\* The attributes that are cast: the field that is set and the type.  Basic casts more, but
\* sets none of these fields and catches a wrong type.
Handlers ==
    [BASIC |-> {[id |-> <<5, 0>>, field |-> "model", cast |-> "string"],
                [id |-> <<7, 0>>, field |-> "power", cast |-> "uint8"]},
     POWER_CONFIGURATION |-> {[id |-> <<0, 0>>, field |-> "mains", cast |-> "uint8"],
                              [id |-> <<32, 0>>, field |-> "battery", cast |-> "uint8"],
                              [id |-> <<33, 0>>, field |-> "remain", cast |-> "uint8"]},
     DEVICE_TEMPERATURE |-> {[id |-> <<0, 0>>, field |-> "temperature", cast |-> "int16"]},
     ON_OFF |-> {[id |-> <<0, 0>>, field |-> "state", cast |-> "bool"],
                 [id |-> <<1, 64>>, field |-> "none", cast |-> "uint16"],
                 [id |-> <<2, 64>>, field |-> "none", cast |-> "uint16"],
                 [id |-> <<245, 0>>, field |-> "none", cast |-> "uint32"],
                 [id |-> <<0, 240>>, field |-> "none", cast |-> "uint32"],
                 [id |-> <<0, 245>>, field |-> "none", cast |-> "uint32"],
                 [id |-> <<1, 245>>, field |-> "none", cast |-> "uint32"],
                 [id |-> <<247, 0>>, field |-> "none", cast |-> "string"]},
     ANALOG_INPUT |-> {[id |-> <<85, 0>>, field |-> "none", cast |-> "float"],
                       [id |-> <<28, 0>>, field |-> "none", cast |-> "string"]},
     MULTISTATE_INPUT |-> {[id |-> <<85, 0>>, field |-> "none", cast |-> "uint16"],
                           [id |-> <<28, 0>>, field |-> "none", cast |-> "string"],
                           [id |-> <<111, 0>>, field |-> "none", cast |-> "uint8"]},
     ELECTRICAL_MEASUREMENTS |-> {[id |-> <<5, 5>>, field |-> "mains", cast |-> "uint16"],
                                  [id |-> <<8, 5>>, field |-> "current", cast |-> "uint16"]},
     XIAOMI_SWITCH |-> {}]
\* The strings of tags, and the walk that reads them.
Walk(c, id) ==
    CASE c = "BASIC" /\ id = <<1, 255>> -> "basic"
      [] c = "XIAOMI_SWITCH" /\ id = <<247, 0>> -> "relay"
      [] c = "XIAOMI_SWITCH" /\ id = <<1, 255>> -> "door"
      [] OTHER -> "none"
\* The temperature's handler does not look at the id.
HandlerOf(c, id) == {h \in Handlers[c] : h.id = id \/ c = "DEVICE_TEMPERATURE"}

\* A float above a number below zero, which is given by its own two high bytes: the high bytes
\* are the sign, the exponent and the first bits of the fraction.  Infinity is above, what is
\* not a number is not.
Above(limit, v) ==
    LET high == v[4] * 256 + v[3] IN
    high \in 0..32639 \cup 32768..limit - 1 \/ v = <<0, 0, 128, 127>>
MinusHalf == 48896
MinusHundred == 49864
MinusFiveHundred == 50170

\* What a field is set to, by a plain attribute (w = "none") or in a walk over tags: an empty or
\* zero value leaves the name, the battery and the source as they are, and a current has to be
\* above -0.5.  The attribute's is an unsigned number; a tag's is a float, which Basic takes as
\* it is and Xiaomi divides by a thousand.  The temperature keeps its low byte and forgets its
\* sign.
Accepts(w, field, v) ==
    CASE field = "model" -> v # <<>>
      [] field = "power" -> v[1] \in 1..142
      [] field \in {"battery", "remain"} -> \E j \in DOMAIN v : v[j] # 0
      [] field = "current" /\ w = "basic" -> Above(MinusHalf, v)
      [] field = "current" /\ w = "relay" -> Above(MinusFiveHundred, v)
      [] OTHER -> TRUE
Kept(field, v) == IF field = "temperature" THEN <<v[1]>> ELSE v
Put(device, w, field, v) == IF Accepts(w, field, v) THEN [device EXCEPT ![field] = Kept(field, v)] ELSE device

\* The relay with two channels sets the second from its endpoint; any other device has one.
TwoChannels == 11
FieldOf(h, endpoint) ==
    IF h.field = "state" /\ endpoint = 2 /\ DeviceType = TwoChannels THEN "state2" ELSE h.field

\* Mutant: a wrong cast ends the whole list.
GuardedNowhere(c, id) == FALSE
\* bad_any_cast is caught for each attribute; elsewhere it ends the list.
Guarded(c, id) == c \in {"BASIC", "MULTISTATE_INPUT"} \/ (c = "ON_OFF" /\ id = <<0, 0>>)

The == attributes[handling]
HandlerOfThis == HandlerOf(msg.cluster, The.id)
Next1 == handling' = handling + 1 /\ UNCHANGED stage
\* An exception out of a handler goes to on_message, which logs it.
Throw == stage' = "idle" /\ UNCHANGED handling
CatchOrThrow == IF Guarded(msg.cluster, The.id) THEN Next1 ELSE Throw
\* OnOff takes an attribute once.
Skipped == msg.cluster = "ON_OFF" /\ \E j \in 1..handling - 1 : attributes[j].id = The.id

Handling == stage = "apply" /\ handling <= Len(attributes)
HandlingPlain == Handling /\ Walk(msg.cluster, The.id) = "none"

PassOver ==
    /\ HandlingPlain /\ (HandlerOfThis = {} \/ Skipped)
    /\ Next1
    /\ UNCHANGED <<ed, msg, payload, cursor, attributes, value, unit, count, reported>>

WrongCast ==
    /\ HandlingPlain /\ ~Skipped /\ \E h \in HandlerOfThis : h.cast # The.cast
    /\ CatchOrThrow
    /\ UNCHANGED <<ed, msg, payload, cursor, attributes, value, unit, count, reported>>

\* What AnalogInput takes for a unit: the part before a comma.
BeforeComma(u) == SubSeq(u, 1, CHOOSE n \in 0..Len(u) : (n = Len(u) \/ u[n + 1] = 44) /\ \A j \in 1..n : u[j] # 44)

SetField ==
    /\ HandlingPlain /\ ~Skipped
    /\ \E h \in HandlerOfThis :
        /\ h.cast = The.cast
        /\ ed' = IF h.field = "none" THEN ed ELSE Put(ed, "none", FieldOf(h, msg.endpoint), The.value)
    /\ value' = IF msg.cluster = "ANALOG_INPUT" /\ The.cast = "float" THEN The.value ELSE value
    /\ unit' = IF msg.cluster = "ANALOG_INPUT" /\ The.cast = "string" THEN BeforeComma(The.value) ELSE unit
    /\ Next1
    /\ UNCHANGED <<msg, payload, cursor, attributes, count, reported>>

\* AnalogInput: volts are the battery's for a device known to have one.
UnitField(device, u) ==
    CASE u = <<37>> -> "humidity"                                             \* %
      [] u = <<67>> -> "temperature"                                          \* C
      [] u = <<86>> -> IF device["power"] = <<3>> THEN "battery" ELSE "mains" \* V
      [] u = <<80, 97>> -> "pressure"                                         \* Pa
      [] OTHER -> "none"
\* Numbers above -100, and above 0: a float's sign and exponent are its last two bytes.
IsMeasured(f, v) ==
    /\ Above(MinusHundred, v)
    /\ f = "battery" => v[4] < 128 /\ \E j \in DOMAIN v : v[j] # 0
Handled ==
    LET f == UnitField(ed, unit) IN
    /\ stage = "apply" /\ handling > Len(attributes)
    /\ stage' = "idle"
    /\ ed' = IF value # <<>> /\ f # "none" /\ IsMeasured(f, value) THEN [ed EXCEPT ![f] = value] ELSE ed
    /\ UNCHANGED <<msg, payload, cursor, attributes, handling, value, unit, count, reported>>

-----------------------------------------------------------------------------
(* The strings of tags.                                                    *)

ThisWalk == Walk(msg.cluster, The.id)

StartTags ==
    /\ Handling /\ ThisWalk # "none"
    /\ IF The.cast # "string" THEN CatchOrThrow /\ UNCHANGED <<payload, cursor>>
       ELSE stage' = "tags" /\ payload' = The.value /\ cursor' = 1 /\ UNCHANGED handling
    /\ UNCHANGED <<ed, msg, attributes, value, unit, count, reported>>

\* The bytes of the tags that Basic knows, its type included; of another one it skips the
\* first byte only.
LengthBasic(tag) ==
    CASE tag \in {3, 12, 100, 101, 110, 111, 148, 156} -> 3
      [] tag \in {1, 4, 5, 8, 9, 10, 155} -> 4
      [] tag \in {149, 150, 151, 152} -> 6
      [] tag = 6 -> 7
      [] OTHER -> 1
\* The bytes of those that Xiaomi knows; of another one it skips the tag and the type.
LengthXiaomi(tag) ==
    CASE tag \in {3, 11, 100, 154} -> 3
      [] tag \in {5, 8, 9} -> 4
      [] tag \in {149, 150, 151, 152} -> 6
      [] OTHER -> 2
\* The walk over a door sensor's sets nothing.
LengthDoor(tag) == CASE tag = 3 -> 3 [] tag = 5 -> 4 [] OTHER -> 1
LengthOf(w, tag) ==
    CASE w = "basic" -> LengthBasic(tag) [] w = "relay" -> LengthXiaomi(tag) [] OTHER -> LengthDoor(tag)
\* The values that are skipped without being looked at.
Unread == {4, 8, 9, 10, 12, 110, 111, 148, 149, 152, 155, 156}
Reads(w, tag) == IF w = "basic" /\ tag \in Unread THEN 1 ELSE LengthOf(w, tag)

TagField(w, tag) ==
    CASE w = "door" -> "none"
      [] tag = 1 /\ w = "basic" -> "battery" [] tag = 3 -> "temperature"
      [] tag = 100 -> "state" [] tag = 101 /\ w = "basic" -> "state2"
      [] tag = 150 -> "mains" [] tag = 151 -> "current" [] OTHER -> "none"
\* Who reports a voltage of the mains has them for its source.
PutTag(device, w, tag, v) ==
    LET f == TagField(w, tag)
        d == IF f = "mains" THEN Put(device, w, "power", <<1>>) ELSE device IN
    IF f = "none" THEN d ELSE Put(d, w, f, v)

EndTags ==
    /\ stage = "tags" /\ cursor > Len(payload)
    /\ stage' = "apply" /\ handling' = handling + 1
    /\ UNCHANGED <<ed, msg, payload, cursor, attributes, value, unit, count, reported>>

\* A byte past the end: at() throws.
TagCut ==
    /\ stage = "tags" /\ cursor <= Len(payload)
    /\ cursor + Reads(ThisWalk, payload[cursor]) - 1 > Len(payload)
    /\ IF Guarded(msg.cluster, The.id) THEN stage' = "apply" /\ handling' = handling + 1 ELSE Throw
    /\ UNCHANGED <<ed, msg, payload, cursor, attributes, value, unit, count, reported>>

HandleTag ==
    LET tag == payload[cursor]
        w == ThisWalk IN
    /\ stage = "tags" /\ cursor <= Len(payload) /\ cursor + Reads(w, tag) - 1 <= Len(payload)
    /\ ed' = PutTag(ed, w, tag, SubSeq(payload, cursor + 2, cursor + LengthOf(w, tag) - 1))
    /\ cursor' = cursor + LengthOf(w, tag)
    /\ UNCHANGED <<msg, stage, payload, attributes, handling, value, unit, count, reported>>

-----------------------------------------------------------------------------
(* The device.                                                             *)

TagBytes(t) == <<t.tag, t.type>> \o t.val
ValueOf(a) == IF a.tags = <<>> THEN a.val ELSE FlattenSeq([j \in DOMAIN a.tags |-> TagBytes(a.tags[j])])
Prefix(t, v) == CASE t \in StringTypes -> <<Len(v)>>
                  [] t \in LongTypes \cup VectorTypes -> <<Len(v) % 256, Len(v) \div 256>>
                  [] OTHER -> <<>>
AttributeBytes(m, a) ==
    a.id \o (IF m.answer THEN <<a.status>> ELSE <<>>)
         \o (IF a.status = SUCCESS THEN <<a.type>> \o Prefix(a.type, ValueOf(a)) \o ValueOf(a) ELSE <<>>)
Encode(m) == FlattenSeq([j \in DOMAIN m.attrs |-> AttributeBytes(m, m.attrs[j])])

Sent(m) == FlattenSeq([j \in DOMAIN m.attrs |-> IF m.attrs[j].status = SUCCESS THEN <<m.attrs[j]>> ELSE <<>>])

\* The C++ type that a value is kept as.
Cast(a) == IF a.type \in NumberTypes THEN NumberOf(a.type).cast
           ELSE IF a.type \in StringTypes \cup LongTypes THEN "string" ELSE "vector"

\* A value is as long as its type says.
AsLong(type, v) ==
    /\ type \in NumberTypes => Len(v) = NumberOf(type).size
    /\ type \in StringTypes => Len(v) < 256
    /\ type \in LongTypes \cup VectorTypes => Len(v) < 65536
    /\ type = Key => Len(v) = 16

AttributeSet == [id : [1..2 -> Byte], status : Byte, type : Byte, val : Seq(Byte),
                 tags : Seq([tag : Byte, type : Byte, val : Seq(Byte)])]
\* Only an answer tells of a read that failed; tags say what the strings of tags are made of.
IsFormed(m, a) ==
    /\ a.status # SUCCESS => m.answer
    /\ a.status = SUCCESS => AsLong(a.type, ValueOf(a))
    /\ IF Walk(m.cluster, a.id) # "none" /\ Cast(a) = "string" THEN a.val = <<>> ELSE a.tags = <<>>
    /\ \A j \in DOMAIN a.tags : AsLong(a.tags[j].type, a.tags[j].val)
\* Custom and Ikea: what they switch on and off is a rule's affair, not a state of their own.
MotionSensors == {4, 8}
FromDevice(m) ==
    /\ m \in [cluster : Clusters, endpoint : {1, 2}, answer : BOOLEAN, attrs : Seq(AttributeSet)]
    /\ m.answer => m.cluster \notin {"ANALOG_INPUT", "XIAOMI_SWITCH"}
    /\ m.cluster = "ON_OFF" => DeviceType \notin MotionSensors
    /\ \A j \in DOMAIN m.attrs : IsFormed(m, m.attrs[j])
    /\ \A j, n \in DOMAIN Sent(m) : Sent(m)[j].id = Sent(m)[n].id => j = n

\* What the ZCL and the two clusters without answers allow; an attribute is in a message once.
ASSUME ReportsAssumption == DeviceType \in 1..11 /\ MaxMessages \in Nat /\ \A m \in Messages : FromDevice(m)

\* Messages that arrive whole: the types are known, and no empty and no long string is the
\* last value.
Whole(m) == \A j \in DOMAIN Sent(m) :
    LET a == Sent(m)[j] IN
    /\ a.type \in KnownTypes
    /\ j = Len(Sent(m)) => a.type \notin LongTypes /\ (a.type \in StringTypes \cup VectorTypes => ValueOf(a) # <<>>)

\* Attributes of the type their handler casts to, right or wrong: MAINS_VOLTAGE is a uint16 in
\* attribute.h:133 and is cast to uint8 in power_configuration.cpp:43, so that one of the type
\* the standard gives it ends its message and is lost with what follows it.
Expected(m, a) ==
    /\ \A h \in HandlerOf(m.cluster, a.id) : h.cast = Cast(a)
    /\ Walk(m.cluster, a.id) # "none" => Cast(a) = "string"

\* The tags that the handlers have a case for, and their types, as the comments above the loops
\* list them.  The list above Xiaomi's has two more, 12 and 101, which end its walk in the
\* middle of a tag (xiaomi.cpp:54-66, 171).
TagsOf(w) ==
    CASE w = "basic" -> ({1, 4, 5, 8, 9, 10, 155} \X {33}) \cup ({3, 12} \X {40}) \cup ({100, 101} \X {16})
                        \cup ({110, 111, 148, 156} \X {32}) \cup ((149..152) \X {57}) \cup {<<6, 36>>}
      [] w = "relay" -> ({5, 8, 9} \X {33}) \cup ({3, 11, 154} \X {40}) \cup ({100} \X {16}) \cup ((149..152) \X {57})
      [] OTHER -> {<<3, 40>>, <<5, 33>>}

\* Messages whose every value can be read: in Basic an attribute of another type is passed
\* over, elsewhere it may take the others with it.  Of a float of 16 bits four bytes are read.
Plain(m) ==
    /\ Whole(m)
    /\ \A j \in DOMAIN Sent(m) :
        LET a == Sent(m)[j] IN
        /\ Expected(m, a) \/ m.cluster = "BASIC"
        /\ a.type # HalfFloat
        /\ \A n \in DOMAIN a.tags : <<a.tags[n].tag, a.tags[n].type>> \in TagsOf(Walk(m.cluster, a.id))

\* The last that is something.
LastOf(values) ==
    IF \A j \in DOMAIN values : values[j] = <<>> THEN <<>>
    ELSE values[CHOOSE j \in DOMAIN values :
                    values[j] # <<>> /\ \A n \in DOMAIN values : n > j => values[n] = <<>>]

\* What a tag, an attribute and the message as a whole say of a field; <<>> is nothing.
TagSays(w, t, f) ==
    IF f = "power" /\ TagField(w, t.tag) = "mains" THEN <<1>>
    ELSE IF f = TagField(w, t.tag) /\ Accepts(w, f, t.val) THEN Kept(f, t.val) ELSE <<>>
AttributeSays(m, a, f) ==
    IF ~Expected(m, a) THEN <<>>
    ELSE IF Walk(m.cluster, a.id) # "none"
    THEN LastOf([j \in DOMAIN a.tags |-> TagSays(Walk(m.cluster, a.id), a.tags[j], f)])
    ELSE IF \E h \in HandlerOf(m.cluster, a.id) : FieldOf(h, m.endpoint) = f /\ Accepts("none", f, a.val)
    THEN Kept(f, a.val) ELSE <<>>
\* A value with a unit says it.
Measured(m, device, f) ==
    {v \in {a.val : a \in {x \in ToSet(Sent(m)) : x.id = <<85, 0>>}} :
        \E a \in ToSet(Sent(m)) : /\ a.id = <<28, 0>> /\ UnitField(device, BeforeComma(a.val)) = f
                                  /\ IsMeasured(f, v)}
TogetherSay(m, device, f) ==
    IF m.cluster # "ANALOG_INPUT" \/ Measured(m, device, f) = {} THEN <<>>
    ELSE CHOOSE v \in Measured(m, device, f) : TRUE
Says(m, device, f) ==
    LastOf([j \in DOMAIN Sent(m) |-> AttributeSays(m, Sent(m)[j], f)] \o <<TogetherSay(m, device, f)>>)

Nothing == [f \in Fields |-> <<>>]
SaidBy(m, device, f) == IF Says(m, device, f) = <<>> THEN reported[f] ELSE Says(m, device, f)
Receive(m) ==
    /\ stage = "idle" /\ count < MaxMessages
    /\ count' = count + 1
    /\ msg' = m /\ payload' = Encode(m) /\ cursor' = 1 /\ attributes' = <<>> /\ handling' = 1
    /\ value' = <<>> /\ unit' = <<>>
    /\ stage' = IF Len(Encode(m)) < 4 THEN "idle" ELSE "parse"
    /\ reported' = IF Plain(m) THEN [f \in Fields |-> SaidBy(m, ed, f)] ELSE Nothing
    /\ UNCHANGED ed

ReportInit ==
    /\ ed = Nothing /\ reported = Nothing
    /\ msg = [cluster |-> "BASIC", endpoint |-> 1, answer |-> FALSE, attrs |-> <<>>]
    /\ stage = "idle" /\ payload = <<>> /\ cursor = 1 /\ attributes = <<>> /\ handling = 1
    /\ value = <<>> /\ unit = <<>> /\ count = 0

ReportNext ==
    \/ \E m \in Messages : Receive(m)
    \/ parseAttributesPayload
    \/ PassOver \/ WrongCast \/ SetField \/ Handled
    \/ StartTags \/ HandleTag \/ TagCut \/ EndTags

ReportSpec == ReportInit /\ [][ReportNext]_reportVars

-----------------------------------------------------------------------------
\* What was parsed is what was sent, in its order: no attribute is made of the bytes of two,
\* and one whose read failed is none.  (The numbers of 24, 40, 48 and 56 bits are read with
\* the bytes that follow them, see Unsigned.)
ParsedAreSent ==
    LET sent == Sent(msg) IN
    \A j \in DOMAIN attributes :
        /\ j <= Len(sent)
        /\ attributes[j].id = sent[j].id /\ attributes[j].type = sent[j].type
        /\ IsPrefix(ValueOf(sent[j]), attributes[j].value)

\* All of a message that can be read is: nothing before the end of the payload ends the loop.
WholeMessageIsParsed ==
    stage # "parse" /\ Whole(msg) => Len(attributes) = Len(Sent(msg))

\* The device's fields are what it reported last, whatever kinds of messages came in between:
\* every tag is as long as its handler takes it for, an attribute of a wrong type in Basic
\* harms no other, a failed read changes nothing, and a value goes with its own unit.
FieldsFollowReports ==
    stage = "idle" => \A f \in Fields : reported[f] # <<>> => ed[f] = reported[f]
=============================================================================
