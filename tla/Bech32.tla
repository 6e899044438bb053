-------------------------------- MODULE Bech32 -------------------------------
(***************************************************************************)
(* The bech32 encoder that turns the hash of a derived key into the bc1q   *)
(* address a donor pays to (core/bech32.py), and what BIP173 asks of it.   *)
(*                                                                         *)
(* A number is the set of the places of its ones, which is what shifts,    *)
(* masks and exclusive or work on; a string is the sequence of its         *)
(* characters.  The hashes and the curve arithmetic before the encoder     *)
(* (core/bip32.py) come from libraries and are not modelled.               *)
(***************************************************************************)
EXTENDS Naturals, Sequences

CONSTANT Programs  \* witness programs: the hashes an address may stand for

\* The numbers of n bits.
Numbers(n) == SUBSET (0 .. n - 1)

ASSUME ProgramsAssumption ==
    \A program \in Programs : program \in Seq(Numbers(8)) /\ Len(program) \in 2 .. 40

ShiftLeft(a, n) == {b + n : b \in a}
ShiftRight(a, n) == {b - n : b \in {c \in a : c >= n}}
Low(a, n) == {b \in a : b < n}
Xor(a, b) == (a \ b) \union (b \ a)

Charset == <<"q", "p", "z", "r", "y", "9", "x", "8", "g", "f", "2", "t", "v", "d", "w", "0",
             "s", "3", "j", "n", "5", "4", "k", "h", "c", "e", "6", "m", "u", "a", "7", "l">>

\* 3b6a57b2, 26508e6d, 1ea119fa, 3d4233dd and 2a1462b3 in hexadecimal.
Generator ==
    <<{1, 4, 5, 7, 8, 9, 10, 12, 14, 17, 19, 21, 22, 24, 25, 27, 28, 29},
      {0, 2, 3, 5, 6, 9, 10, 11, 15, 20, 22, 25, 26, 29},
      {1, 3, 4, 5, 6, 7, 8, 11, 12, 16, 21, 23, 25, 26, 27, 28},
      {0, 2, 3, 4, 6, 7, 8, 9, 12, 13, 17, 22, 24, 26, 27, 28, 29},
      {0, 1, 4, 5, 7, 9, 13, 14, 18, 20, 25, 27, 29}>>

\* ord(c) of the characters of "bc", 98 and 99.
Hrp == <<{1, 5, 6}, {0, 1, 5, 6}>>

-----------------------------------------------------------------------------
(* The BCH checksum.                                                       *)

PolymodStep(chk, value) ==
    LET tap(i) == IF 25 + i \in chk THEN Generator[i + 1] ELSE {}
    IN  Xor(Xor(ShiftLeft(Low(chk, 25), 5), value),
            Xor(tap(0), Xor(tap(1), Xor(tap(2), Xor(tap(3), tap(4))))))

\* chk after each of the values.
Registers(values) ==
    LET chk[i \in 0 .. Len(values)] ==
            IF i = 0 THEN {0} ELSE PolymodStep(chk[i - 1], values[i])
    IN  chk

Polymod(values) == Registers(values)[Len(values)]

HrpExpand(hrp) == [i \in DOMAIN hrp |-> ShiftRight(hrp[i], 5)] \o <<{}>>
                    \o [i \in DOMAIN hrp |-> Low(hrp[i], 5)]

\* Mutant: the final constant of BIP173 is left out.
CreateChecksumPlain(hrp, data) ==
    LET polymod == Polymod(HrpExpand(hrp) \o data \o <<{}, {}, {}, {}, {}, {}>>)
    IN  [i \in 1 .. 6 |-> Low(ShiftRight(polymod, 5 * (6 - i)), 5)]

CreateChecksum(hrp, data) ==
    LET polymod == Xor(Polymod(HrpExpand(hrp) \o data \o <<{}, {}, {}, {}, {}, {}>>), {0})
    IN  [i \in 1 .. 6 |-> Low(ShiftRight(polymod, 5 * (6 - i)), 5)]

-----------------------------------------------------------------------------
(* Regrouping bits.  The accumulator keeps frombits + tobits - 1 bits.     *)

\* Mutant: the last group of a value is cut one bit too far left.
GroupsOffByOne(acc, bits, tobits) ==
    [k \in 1 .. (bits \div tobits) |-> Low(ShiftRight(acc, bits - k * tobits + 1), tobits)]

\* The groups that are complete once a value has come in: acc holds its bits
\* below those left over.
Groups(acc, bits, tobits) ==
    [k \in 1 .. (bits \div tobits) |-> Low(ShiftRight(acc, bits - k * tobits), tobits)]

\* The loop's locals after each of the values.
Regrouped(data, frombits, tobits) ==
    LET take(state, value) ==
            LET acc  == Low(ShiftLeft(state.acc, frombits) \union value, frombits + tobits - 1)
                bits == state.bits + frombits
            IN  [acc |-> acc, bits |-> bits % tobits,
                 ret |-> state.ret \o Groups(acc, bits, tobits)]
        state[i \in 0 .. Len(data)] ==
            IF i = 0 THEN [acc |-> {}, bits |-> 0, ret |-> <<>>]
            ELSE take(state[i - 1], data[i])
    IN  state

\* What stands for None, and for the ValueError of encode_segwit: nothing that
\* it returns is empty.
Nothing == <<>>

Convertbits(data, frombits, tobits, pad) ==
    LET end     == Regrouped(data, frombits, tobits)[Len(data)]
        padding == Low(ShiftLeft(end.acc, tobits - end.bits), tobits)
    IN  IF \E i \in DOMAIN data : data[i] \notin Numbers(frombits) THEN Nothing
        ELSE IF pad THEN (IF end.bits > 0 THEN Append(end.ret, padding) ELSE end.ret)
        ELSE IF end.bits >= frombits \/ padding # {} THEN Nothing
        ELSE end.ret

-----------------------------------------------------------------------------
(* Addresses.                                                              *)

\* The value of a group, as an index.
Value(group) ==
    LET bit(b) == IF b \in group THEN 1 ELSE 0
    IN  bit(0) + 2 * bit(1) + 4 * bit(2) + 8 * bit(3) + 16 * bit(4)

\* encode_segwit: the groups of an address, checksum included.
AddressGroups(hrp, witver, program) ==
    LET data     == Convertbits(program, 8, 5, TRUE)
        combined == <<witver>> \o data
    IN  IF Value(witver) > 16 \/ Len(program) < 2 \/ Len(program) > 40 \/ data = Nothing
        THEN Nothing
        ELSE combined \o CreateChecksum(hrp, combined)

\* The characters after "bc1".
EncodeSegwit(groups) == [i \in DOMAIN groups |-> Charset[Value(groups[i]) + 1]]

\* pubkey_to_p2wpkh from the hash on.
Address(program) == AddressGroups(Hrp, {}, program)

-----------------------------------------------------------------------------
(* What the encoder owes to those who read the address.                    *)

\* The k-th bit of a sequence of numbers, counted from the highest of the first.
Bit(values, width, k) == width - 1 - (k % width) \in values[(k \div width) + 1]

\* Every bit stays in its place when bytes are regrouped by five; fewer than
\* five zeros are added; and the groups regroup to the same bytes.
RegroupsExactly ==
    \A program \in Programs :
        LET groups == Convertbits(program, 8, 5, TRUE)
            given  == 8 * Len(program)
            made   == 5 * Len(groups)
        IN  /\ made - given \in 0 .. 4
            /\ \A k \in 0 .. (made - 1) :
                  Bit(groups, 5, k) <=> k < given /\ Bit(program, 8, k)
            /\ Convertbits(groups, 5, 8, FALSE) = program

\* No two programs have the same characters.
NamesOne ==
    \A program, other \in Programs :
        EncodeSegwit(Address(program)) = EncodeSegwit(Address(other)) => program = other

\* What a wallet accepts.
Valid(groups) == Polymod(HrpExpand(Hrp) \o groups) = {0}

\* The address is valid, and it is not with one character wrong or two
\* neighbours the wrong way round.
DetectsSlips ==
    \A program \in Programs :
        LET good    == Address(program)
            swap(i) == [good EXCEPT ![i] = good[i + 1], ![i + 1] = good[i]]
        IN  /\ Valid(good)
            /\ \A i \in DOMAIN good, slip \in Numbers(5) :
                  slip # good[i] => ~ Valid([good EXCEPT ![i] = slip])
            /\ \A i \in 1 .. (Len(good) - 1) : good[i] # good[i + 1] => ~ Valid(swap(i))
=============================================================================
