----------------------------- MODULE SerialLink -----------------------------
(***************************************************************************)
(* From the adapter's bytes to commands: SerialImpl::read and the loop of  *)
(* the Uart's reader.                                                      *)
(*                                                                         *)
(* A read takes what arrives for a tenth of a second, the parser looks for *)
(* frames in it and forgets it: a frame that two reads cut is lost, and    *)
(* its second half may look like the beginning of another one.  Each byte  *)
(* of the model knows the frame and the place it was sent at, so that the  *)
(* properties can tell what was parsed from what was sent.                 *)
(*                                                                         *)
(* The names of the specification begin with Link, because the proofs      *)
(* about it are in one module with those about AdapterPipeline.            *)
(***************************************************************************)
EXTENDS Naturals, FiniteSets, Sequences

CONSTANTS
    Frames,             \* what the adapter may send: [cmd0, cmd1, payload]
    NoiseBytes,         \* what a byte may turn to on the line
    ExclOr(_, _),       \* bitwise exclusive or
    PAYLOAD_MAX_LENGTH, RX_BUFFER_SIZE,
    MaxFrames, MaxNoise \* bounds: frames, and bytes that are damaged

Byte == 0..255

\* Of exclusive or only that an operand is found again.  The adapter sends no more than the
\* longest payload of its protocol, 250 bytes.
ASSUME SerialAssumption ==
    /\ PAYLOAD_MAX_LENGTH \in Byte /\ RX_BUFFER_SIZE \in Nat \ {0}
    /\ MaxFrames \in Nat /\ MaxNoise \in Nat
    /\ NoiseBytes \subseteq Byte
    /\ \A f \in Frames : f \in [cmd0 : Byte, cmd1 : Byte, payload : Seq(Byte)]
                         /\ Len(f.payload) <= PAYLOAD_MAX_LENGTH
ASSUME XorAssumption ==
    \A a, b \in Byte :
        ExclOr(a, b) \in Byte /\ ExclOr(a, ExclOr(a, b)) = b /\ ExclOr(ExclOr(a, b), b) = a

SOF == 254

VARIABLES
    transmitted, \* history: the frames of the adapter
    damaged,     \* history: <<frame, place>> of damaged bytes
    line,        \* bytes on their way and in the driver's buffer
    plugged,     \* the adapter is there
    rx_buff,     \* what the last read took
    at,          \* the byte of it that the parser is at
    parsed_commands, \* what was parsed from it, each with its first byte
    died         \* what the program died of

linkVars == <<transmitted, damaged, line, plugged, rx_buff, at, parsed_commands, died>>

-----------------------------------------------------------------------------
(* The adapter and the line.                                               *)

fcs(cmd0, cmd1, payload) ==
    LET sum[n \in 0..Len(payload)] ==
            IF n = 0 THEN ExclOr(ExclOr(Len(payload), cmd0), cmd1) ELSE ExclOr(sum[n - 1], payload[n])
    IN  sum[Len(payload)]
BytesOf(f) == <<SOF, Len(f.payload), f.cmd0, f.cmd1>> \o f.payload \o <<fcs(f.cmd0, f.cmd1, f.payload)>>

SendFrame(f) ==
    /\ plugged /\ Len(transmitted) < MaxFrames
    /\ transmitted' = Append(transmitted, f)
    /\ line' = line \o [p \in DOMAIN BytesOf(f) |->
                          [b |-> BytesOf(f)[p], frame |-> Len(transmitted) + 1, place |-> p]]
    /\ UNCHANGED <<damaged, plugged, rx_buff, at, parsed_commands, died>>

\* Whatever happens to a byte, it is one that was sent or another one: once is enough.
Damage(j, b) ==
    /\ j \in DOMAIN line /\ Cardinality(damaged) < MaxNoise /\ line[j].b # b
    /\ <<line[j].frame, line[j].place>> \notin damaged
    /\ line' = [line EXCEPT ![j].b = b]
    /\ damaged' = damaged \cup {<<line[j].frame, line[j].place>>}
    /\ UNCHANGED <<transmitted, plugged, rx_buff, at, parsed_commands, died>>

Unplug ==
    /\ plugged /\ plugged' = FALSE
    /\ UNCHANGED <<transmitted, damaged, line, rx_buff, at, parsed_commands, died>>

-----------------------------------------------------------------------------
(* parseReceivedData, one action for each way through its loop.            *)

Parsing == at <= Len(rx_buff)
\* There is a SOF, and the four bytes and one more that the loop asks for before it looks.
AtSOF == Parsing /\ rx_buff[at].b = SOF
AtHead == AtSOF /\ at + 4 <= Len(rx_buff)
payload_length == rx_buff[at + 1].b
\* The payload is there.  One that is as long as PAYLOAD_MAX_LENGTH passes.
Fits == payload_length <= PAYLOAD_MAX_LENGTH /\ at + 3 + payload_length <= Len(rx_buff)
\* The constructor of Command asserts less than that.
Asserted == payload_length < PAYLOAD_MAX_LENGTH
SumAt == at + 4 + payload_length

CommandHere ==
    [cmd0 |-> rx_buff[at + 2].b, cmd1 |-> rx_buff[at + 3].b,
     payload |-> [p \in 1..payload_length |-> rx_buff[at + 3 + p].b], first |-> rx_buff[at]]

SkipByte ==
    /\ Parsing /\ rx_buff[at].b # SOF
    /\ at' = at + 1
    /\ UNCHANGED <<transmitted, damaged, line, plugged, rx_buff, parsed_commands, died>>

\* The buffer ends within what began.
Break ==
    /\ \/ AtSOF /\ ~AtHead
       \/ AtHead /\ Fits /\ Asserted /\ SumAt > Len(rx_buff)
    /\ at' = Len(rx_buff) + 1
    /\ UNCHANGED <<transmitted, damaged, line, plugged, rx_buff, parsed_commands, died>>

\* What was taken for the head of a frame and is none is not looked at again.
SkipHead ==
    /\ AtHead /\ ~Fits
    /\ at' = at + 4
    /\ UNCHANGED <<transmitted, damaged, line, plugged, rx_buff, parsed_commands, died>>

Abort ==
    /\ AtHead /\ Fits /\ ~Asserted
    /\ died' = "assert"
    /\ UNCHANGED <<transmitted, damaged, line, plugged, rx_buff, at, parsed_commands>>

\* Mutant: the check sum is not looked at.
CheckTrusts ==
    /\ AtHead /\ Fits /\ Asserted /\ SumAt <= Len(rx_buff)
    /\ at' = SumAt + 1
    /\ parsed_commands' = Append(parsed_commands, CommandHere)
    /\ UNCHANGED <<transmitted, damaged, line, plugged, rx_buff, died>>

\* Mutant: the loop goes on at the check sum.
CheckShort ==
    /\ AtHead /\ Fits /\ Asserted /\ SumAt <= Len(rx_buff)
    /\ at' = SumAt
    /\ parsed_commands' = IF rx_buff[SumAt].b = fcs(CommandHere.cmd0, CommandHere.cmd1, CommandHere.payload)
                          THEN Append(parsed_commands, CommandHere) ELSE parsed_commands
    /\ UNCHANGED <<transmitted, damaged, line, plugged, rx_buff, died>>

Check ==
    /\ AtHead /\ Fits /\ Asserted /\ SumAt <= Len(rx_buff)
    /\ at' = SumAt + 1
    /\ parsed_commands' = IF rx_buff[SumAt].b = fcs(CommandHere.cmd0, CommandHere.cmd1, CommandHere.payload)
                          THEN Append(parsed_commands, CommandHere) ELSE parsed_commands
    /\ UNCHANGED <<transmitted, damaged, line, plugged, rx_buff, died>>

parseReceivedData == SkipByte \/ Break \/ SkipHead \/ Abort \/ Check

-----------------------------------------------------------------------------
(* Uart::loop.                                                             *)

\* Mutant: the loop reads without waiting for a byte.
ReadsAtOnce == TRUE
\* waitReadable: a port that is gone is readable, too.
Readable == line # <<>> \/ ~plugged

\* A read takes the bytes of its tenth of a second: any part of what is under way.
Loop(n) ==
    /\ ~Parsing /\ Readable
    /\ n \in 1..Len(line) /\ n <= RX_BUFFER_SIZE
    /\ rx_buff' = SubSeq(line, 1, n) /\ line' = SubSeq(line, n + 1, Len(line))
    /\ at' = 1 /\ parsed_commands' = <<>>
    /\ UNCHANGED <<transmitted, damaged, plugged, died>>

\* A port that is readable and gives no byte: read() throws, the loop lets it out of its
\* thread, and that ends the program.
LoopThrows ==
    /\ ~Parsing /\ Readable /\ (line = <<>> \/ ~plugged)
    /\ died' = "read"
    /\ UNCHANGED <<transmitted, damaged, line, plugged, rx_buff, at, parsed_commands>>

LinkInit ==
    /\ transmitted = <<>> /\ damaged = {} /\ line = <<>> /\ plugged = TRUE
    /\ rx_buff = <<>> /\ at = 1 /\ parsed_commands = <<>> /\ died = "no"

LinkNext ==
    /\ died = "no"
    /\ \/ \E f \in Frames : SendFrame(f)
       \/ \E j \in DOMAIN line, b \in NoiseBytes : Damage(j, b)
       \/ Unplug
       \/ \E n \in 1..Len(line) : Loop(n)
       \/ LoopThrows
       \/ parseReceivedData

LinkSpec == LinkInit /\ [][LinkNext]_linkVars

-----------------------------------------------------------------------------
TheFrame(c) == [cmd0 |-> c.cmd0, cmd1 |-> c.cmd1, payload |-> c.payload]
Places(n) == DOMAIN BytesOf(transmitted[n])
\* All bytes of frame n are in the buffer.
WholeIn(n) == \A p \in Places(n) :
    \E j \in DOMAIN rx_buff : rx_buff[j].frame = n /\ rx_buff[j].place = p
Intact(n, places) == \A p \in places : <<n, p>> \notin damaged
AtMostOneDamaged(n) == \A x, y \in damaged : x[1] = n /\ y[1] = n => x = y

\* The parser has not lost its way before byte j: what looks like the start of a frame is in
\* a frame that is all there, with its own start and length.
InStep(j) == \A h \in 1..j - 1 :
    rx_buff[h].b = SOF => WholeIn(rx_buff[h].frame) /\ Intact(rx_buff[h].frame, {1, 2})

\* A command that was parsed from the start of a frame is that frame as it was sent: with
\* one damaged byte in it, wherever, it is not taken, unless that byte is its length.
ParsedAreSent ==
    \A k \in DOMAIN parsed_commands :
        LET c == parsed_commands[k]
            n == c.first.frame IN
        c.first.place = 1 /\ Intact(n, {1, 2}) /\ AtMostOneDamaged(n) =>
            Intact(n, Places(n)) /\ TheFrame(c) = transmitted[n]

\* A frame that came whole in one read, and undamaged, and that the parser is past, is lost
\* only if the parser had lost its way before it, in the rest of a frame that was cut, or by
\* a damaged byte.
LostOnlyIfOutOfStep ==
    \A j \in DOMAIN rx_buff :
        LET n == rx_buff[j].frame IN
        at > j /\ rx_buff[j].place = 1 /\ WholeIn(n) /\ Intact(n, Places(n)) /\ InStep(j) =>
            \E k \in DOMAIN parsed_commands : parsed_commands[k].first.frame = n

\* The reader dies of an adapter that was unplugged, of a frame with the longest payload
\* that its own test lets through, and of bytes that it was out of step in; of nothing else.
ReaderDiesOnlyOf ==
    died # "no" =>
        \/ ~plugged
        \/ \E n \in DOMAIN transmitted : Len(transmitted[n].payload) >= PAYLOAD_MAX_LENGTH
        \/ ~InStep(Len(rx_buff) + 1)
=============================================================================
