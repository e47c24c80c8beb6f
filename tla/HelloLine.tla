------------------------------ MODULE HelloLine ------------------------------
(***************************************************************************)
(* TCPServer::ParseClientId: the client id of a line HELLO <client_id>, 0  *)
(* for every other line.  A line is a sequence of character codes, except  *)
(* that the word HELLO is one element.                                     *)
(***************************************************************************)
EXTENDS Integers, SequencesExt

CONSTANT IdWord   \* ClientId is an unsigned integer modulo IdWord (2^64)

ASSUME HelloLineAssumption == IdWord \in Nat \ {0}

SP    == 32
CR    == 13
LF    == 10
HELLO == 256

Digit  == 48 .. 57
Blanks == {SP, CR, LF}

\* Trailing blanks and leading spaces are cut off.
Trimmed(frame) ==
    LET kept == {i \in DOMAIN frame : frame[i] \notin Blanks}
        from == {i \in DOMAIN frame : frame[i] # SP}
    IN  IF kept = {} THEN <<>> ELSE SubSeq(frame, Min(from), Max(kept))

\* Mutant: the digits are read from the last to the first.
NumberBackwards(digits) == FoldRight(LAMBDA c, id : (id * 10 + (c - 48)) % IdWord, digits, 0)

\* id = id * 10 + (c - '0'), in unsigned arithmetic.
Number(digits) == FoldLeft(LAMBDA id, c : (id * 10 + (c - 48)) % IdWord, 0, digits)

\* HELLO, a space, and digits to the end; anything shorter is 0 too.
ParseClientId(frame) ==
    LET line   == Trimmed(frame)
        digits == SubSeq(line, 3, Len(line))
    IN  IF /\ Len(line) >= 3
           /\ line[1] = HELLO /\ line[2] = SP
           /\ \A i \in DOMAIN digits : digits[i] \in Digit
        THEN Number(digits)
        ELSE 0

-----------------------------------------------------------------------------
\* What a sequence of decimal digits stands for.
Tens(n) == FoldLeft(LAMBDA p, i : 10 * p, 1, [i \in 1 .. n |-> i])
Value(digits) ==
    FoldLeft(+, 0, [i \in DOMAIN digits |-> (digits[i] - 48) * Tens(Len(digits) - i)])

\* A line of spaces, HELLO, one space, decimal digits and blanks.
IsHello(frame, lead, width, trail) ==
    /\ Len(frame) = lead + 2 + width + trail
    /\ \A i \in 1 .. lead : frame[i] = SP
    /\ frame[lead + 1] = HELLO /\ frame[lead + 2] = SP
    /\ \A i \in 1 .. width : frame[lead + 2 + i] - 48 \in 0 .. 9
    /\ \A i \in lead + 3 + width .. Len(frame) : frame[i] \in Blanks

\* The reference definition: what such a line says, and nothing for every other line.
Numbers(frame) ==
    LET N == 0 .. Len(frame)
    IN  {Value(SubSeq(frame, f[1] + 3, f[1] + 2 + f[2])) :
            f \in {g \in N \X (N \ {0}) \X N : IsHello(frame, g[1], g[2], g[3])}}
=============================================================================
