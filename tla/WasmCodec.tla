----------------------------- MODULE WasmCodec ------------------------------
(***************************************************************************)
(* How transform.go reads and writes numbers and lays out arguments: the    *)
(* LEB128 codecs, in which every section, count, index and constant is      *)
(* written, and the strings and pointers that a launcher hands to main.     *)
(* The widths are constants, so that every number of a small width can be   *)
(* tried; a byte of an argument is 0 or some other number.                  *)
(***************************************************************************)
EXTENDS Integers, Sequences
Lists == INSTANCE SequencesExt
Sets == INSTANCE FiniteSetsExt

CONSTANTS
    Bits,     \* of a number: 32, or 64 for the limits of a memory64
    Group,    \* bits of a number in one byte: 7
    Area      \* bytes for arguments: 8192

CodecAssumption == Group \in Nat \ {0} /\ Bits \in Nat \ {0} /\ Area \in Nat

ASSUME CodecAssumption

-----------------------------------------------------------------------------
(* LEB128 *)

\* Two to the power of k, for as many bits as are met.
TwoTo[k \in 0..(Bits + Group)] == IF k = 0 THEN 1 ELSE 2 * TwoTo[k - 1]

MaxBytes == (Bits + Group - 1) \div Group
LastBits == Bits - (MaxBytes - 1) * Group

Byte == 0..(TwoTo[Group + 1] - 1)
More(b) == b >= TwoTo[Group]
Low(b) == b % TwoTo[Group]

Invalid == [value |-> -1, size |-> 0]

\* Mutant: the unused bits of the last byte are not looked at.
LastByteFitsAny(b) == ~More(b)

LastByteFits(b) == b < TwoTo[LastBits]

\* The number at the front of data and its length, or Invalid.
ReadU32(data) ==
    LET from[i \in 1..(Len(data) + 1)] ==
          IF i > Len(data) \/ i > MaxBytes THEN Invalid
          ELSE IF i = MaxBytes /\ ~LastByteFits(data[i]) THEN Invalid
          ELSE IF ~More(data[i]) THEN [value |-> data[i], size |-> i]
          ELSE IF from[i + 1] = Invalid THEN Invalid
          ELSE [from[i + 1] EXCEPT !.value = Low(data[i]) + TwoTo[Group] * @]
    IN from[1]

AppendU32(value) ==
    LET put[v \in 0..value] ==
          IF v < TwoTo[Group] THEN <<v>>
          ELSE <<Low(v) + TwoTo[Group]>> \o put[v \div TwoTo[Group]]
    IN put[value]

\* The byte is the last one if the rest is the sign that it shows.
AppendS32(value) ==
    LET Ends(v) == \/ v \div TwoTo[Group] = 0 /\ Low(v) < TwoTo[Group - 1]
                   \/ v \div TwoTo[Group] = -1 /\ Low(v) >= TwoTo[Group - 1]
        put[v \in (-TwoTo[Bits - 1])..(TwoTo[Bits - 1] - 1)] ==
          IF Ends(v) THEN <<Low(v)>>
          ELSE <<Low(v) + TwoTo[Group]>> \o put[v \div TwoTo[Group]]
    IN put[value]

\* Go's int32(value) of a uint32.
Int32(value) == IF value < TwoTo[Bits - 1] THEN value ELSE value - TwoTo[Bits]

-----------------------------------------------------------------------------
(* What the WebAssembly specification says these bytes mean, for the        *)
(* properties                                                               *)

\* All bytes but the last say that there are more, and their low bits are the
\* digits of value modulo what so many digits hold.
Digits(data, value) ==
    /\ Len(data) \in 1..MaxBytes
    /\ \A i \in 1..Len(data) :
         /\ More(data[i]) <=> i < Len(data)
         /\ Low(data[i]) = (value \div TwoTo[Group * (i - 1)]) % TwoTo[Group]

DenotesU(data, value) ==
    Digits(data, value) /\ value \in 0..(TwoTo[Bits] - 1) /\ value < TwoTo[Group * Len(data)]

DenotesS(data, value) ==
    /\ Digits(data, value)
    /\ value \in (-TwoTo[Group * Len(data) - 1])..(TwoTo[Group * Len(data) - 1] - 1)

-----------------------------------------------------------------------------
(* Arguments *)

NUL == 0
Padded(data, n) == data \o [i \in 1..((-Len(data)) % n) |-> NUL]
HasNUL(strings) == \E i \in 1..Len(strings) : NUL \in Lists!ToSet(strings[i])

NullPointer == -1

\* Strings of args, of environment, each list with a null pointer after it.
Offsets(blocks) ==
    [i \in 1..Len(blocks) |-> Len(Lists!FlattenSeq(SubSeq(blocks, 1, i - 1)))]

Terminated(strings) == [i \in 1..Len(strings) |-> strings[i] \o <<NUL>>]

\* encodeEmscriptenArgv: data, the offsets of the strings in it, where in the
\* area the table of pointers is, and the size that is allocated.  That is
\* never rounded up: in allocationSize + 15&^15 the &^ binds first.
EmscriptenArgv(args, environment) ==
    LET blocks == Terminated(args) \o Terminated(environment)
        data == Padded(Lists!FlattenSeq(blocks), 4)
        offsets == Offsets(blocks)
        table == SubSeq(offsets, 1, Len(args)) \o <<NullPointer>>
                 \o SubSeq(offsets, Len(args) + 1, Len(blocks)) \o <<NullPointer>>
    IN [data |-> data, table |-> table, at |-> Len(data),
        size |-> Len(data) + 4 * Len(table)]

EmscriptenArgvError(args, environment) ==
    \/ HasNUL(args) \/ HasNUL(environment)
    \/ EmscriptenArgv(args, environment).size > Area

\* Mutant: strings are packed as Emscripten's are.
PackedBlock(string) == string \o <<NUL>>

GoBlock(string) == Padded(string \o <<NUL>>, 8)

\* encodeGoArgv: as above, eight bytes to a pointer and no environment.
\* Offsets count from address 4096.
GoArgv(args) ==
    LET blocks == [i \in 1..Len(args) |-> GoBlock(args[i])]
        data == Lists!FlattenSeq(blocks)
        table == Offsets(blocks) \o <<NullPointer, NullPointer>>
    IN [data |-> data, table |-> table, at |-> Len(data),
        size |-> Len(data) + 8 * Len(table)]

GoArgvError(args) == HasNUL(args) \/ GoArgv(args).size >= Area

-----------------------------------------------------------------------------
(* What a C program finds there, for the properties *)

StringAt(data, offset) ==
    LET rest == SubSeq(data, offset + 1, Len(data))
        ends == {i \in 1..Len(rest) : rest[i] = NUL}
    IN SubSeq(rest, 1, Sets!Min(ends) - 1)

\* The list of strings whose pointers are in table from i to the next null.
ListAt(layout, i) ==
    LET n == Sets!Min({j \in i..Len(layout.table) : layout.table[j] = NullPointer}) - i
    IN [k \in 1..n |-> StringAt(layout.data, layout.table[i + k - 1])]

\* The table is behind the data, aligned, and both are inside the area.
Fits(layout, alignment) ==
    /\ layout.at = Len(layout.data) /\ layout.at % alignment = 0
    /\ layout.size >= layout.at + Len(layout.table) * alignment
    /\ layout.size <= Area
=============================================================================
