----------------------------- MODULE MCInvoices -----------------------------
(***************************************************************************)
(* Instances of Invoices for TLC.                                          *)
(***************************************************************************)
EXTENDS Invoices

\* The set of the places of a number's ones.
Ones(n) == {b \in 0 .. 29 : (n \div 2^b) % 2 = 1}

\* The program of tests/test_bip32.py:74,
\* 751e76e8199196d454941c45d1b3a323f1433bd6.
TestProgram ==
    LET bytes == <<117, 30, 118, 232, 25, 145, 150, 212, 84, 148,
                   28, 69, 209, 179, 163, 35, 241, 67, 59, 214>>
    IN  [i \in DOMAIN bytes |-> Ones(bytes[i])]

MCPrograms ==
    [1 .. 2 -> {Ones(0), Ones(1), Ones(128), Ones(255)}]
    \union {<<Ones(255), Ones(127), Ones(128)>>, <<{}, {}, Ones(1), {}>>,
            [i \in 1 .. 6 |-> Ones(42 * i)], TestProgram}

\* bc1qw508d6qejxtdg4y5r3zarvary0c5xw7kv8f3t4, the address of that test.
TestAddress ==
    <<"q", "w", "5", "0", "8", "d", "6", "q", "e", "j", "x", "t", "d", "g", "4", "y",
      "5", "r", "3", "z", "a", "r", "v", "a", "r", "y", "0", "c", "5", "x", "w", "7",
      "k", "v", "8", "f", "3", "t", "4">>

TestGroups ==
    [i \in DOMAIN TestAddress |->
        CHOOSE group \in Numbers(5) : Charset[Value(group) + 1] = TestAddress[i]]

\* What is valid here is what BIP173 calls valid: that address is, and its
\* program stands where RegroupsExactly says.
ASSUME ReferenceIsValid ==
    /\ Valid(TestGroups)
    /\ TestGroups[1] = {}
    /\ \A k \in 0 .. 159 : Bit(Tail(TestGroups), 5, k) <=> Bit(TestProgram, 8, k)

\* The constants of bech32.py:5 and of ord, as numbers.
ASSUME ConstantsAreNumbers ==
    /\ Generator = <<Ones(\h3B6A57B2), Ones(\h26508E6D), Ones(\h1EA119FA),
                     Ones(\h3D4233DD), Ones(\h2A1462B3)>>
    /\ Hrp = <<Ones(98), Ones(99)>>
    /\ \A i \in 0 .. 31 : Value(Ones(i)) = i
=============================================================================
