-------------------------- MODULE Invoices_proofs --------------------------
(***************************************************************************)
(* Theorems of Invoices, for any creators, keys, donations and amounts,    *)
(* and of the encoder it asks for addresses (Bech32), for any programs.    *)
(*                                                                         *)
(* The encoder's argument.  Regrouping: after i values, what is in ret and *)
(* what is left over are the bits so far, in their order.  Checksum: a     *)
(* step tells two registers apart after the same value and two values      *)
(* after the same register, so a difference survives to the end; and the   *)
(* six groups pass through the steps that follow them, at places no tap    *)
(* looks at, until they make up the whole register.                        *)
(***************************************************************************)
EXTENDS Invoices, FiniteLemmas, SequenceTheorems

-----------------------------------------------------------------------------
(* Operators. *)

\* A fee is a natural number.
LEMMA FeeTyped == ASSUME NEW n \in Nat PROVE PlatformFee(n, FeeRate) \in Nat
<1>1. n * FeeRate \in Nat
  BY FeeRateAssumption
<1> QED
  BY <1>1 DEF PlatformFee

\* Every invoice gets one of the addresses the model knows.
LEMMA NewAddressTyped ==
    ASSUME NEW coin \in Coins, NEW x \in Xpubs \union {None}, NEW d \in Donations
    PROVE  NewAddress(coin, x, d) \in Addresses
<1>1. CASE coin = "XMR"
  BY <1>1 DEF NewAddress, Addresses
<1>2. CASE coin # "XMR" /\ x # None
  <2>1. x \in Xpubs /\ InvoiceBackend.next = 0
    BY <1>2 DEF InvoiceBackend, FreshBackend
  <2> QED
    BY <1>2, <2>1 DEF NewAddress, Addresses, FirstAddresses
<1>3. CASE coin # "XMR" /\ x = None
  BY <1>3 DEF NewAddress, Addresses
<1> QED
  BY <1>1, <1>2, <1>3

\* A final status takes a payment, and no less than what is asked.
LEMMA FinalIsPaid ==
    ASSUME NEW row \in Row, NEW r \in Nat, r = Received(row.address), Final(StatusSeen(row))
    PROVE  r > 0 /\ r >= row.amount
<1> DEFINE c == Confirmations(row.address)
<1>1. row.amount \in Nat
  BY AmountsAssumption DEF Row
<1>2. StatusSeen(row) \notin {"not_found", "error"}
  BY DEF Final, IsFinal
<1>3. StatusSeen(row) = Classify(r, row.amount, c, MinConfirmations)
  BY <1>2 DEF StatusSeen
<1>4. CASE r = 0
  BY <1>2, <1>3, <1>4 DEF Classify
<1>5. CASE r # 0 /\ r < row.amount
  <2>1. Classify(r, row.amount, c, MinConfirmations) = "underpaid"
    BY <1>1, <1>5 DEF Classify
  <2> QED
    BY <1>3, <2>1 DEF Final, IsFinal
<1> QED
  BY <1>1, <1>4, <1>5

-----------------------------------------------------------------------------
(* The invariant. *)

\* At the start no invoice is shown, and what an address holds was there before.
LEMMA InitIInv == Init => IInv
<1> SUFFICES ASSUME Init PROVE IInv
  OBVIOUS
<1>1. \A d \in Donations : ~Created(d)
  BY DEF Init, Created
<1>2. \A a \in Addresses : fromOthers[a] \in Nat
  <2>1. Others \union {0} \subseteq Nat
    BY AmountsAssumption
  <2>2. ASSUME NEW a \in Addresses PROVE fromOthers[a] \in Others \union {0}
    BY DEF Init
  <2> QED
    BY <2>1, <2>2
<1>3. /\ \A a \in Addresses : chain[a] = [mempool |-> 0, mined |-> fromOthers[a], spent |-> 0]
      /\ chain \in [Addresses -> [mempool : Nat, mined : Nat, spent : Nat]]
  BY <1>2 DEF Init
<1>4. ChainBacked
  BY <1>1, <1>2, <1>3 DEF ChainBacked
<1>5. TypeOK
  <2>1. \A a \in Addresses : Received(a) \in Nat
    BY <1>2, <1>3 DEF Received
  <2>2. fromOthers \in [Addresses -> Nat]
    BY <1>2 DEF Init
  <2> QED
    BY <1>3, <2>1, <2>2 DEF Init, TypeOK
<1>6. ConfirmedWasPaid
  BY <1>1 DEF ConfirmedWasPaid, Confirmed
<1> QED
  BY <1>4, <1>5, <1>6 DEF IInv

\* The arithmetic of one address keeps Received natural.
LEMMA ReceivedTyped ==
    ASSUME chain \in [Addresses -> [mempool : Nat, mined : Nat, spent : Nat]],
           ChainBacked, NEW a \in Addresses
    PROVE  Received(a) \in Nat
<1>1. /\ chain[a].mempool \in Nat /\ chain[a].mined \in Nat /\ chain[a].spent \in Nat
      /\ chain[a].spent <= chain[a].mined
  BY DEF ChainBacked
<1> QED
  BY <1>1 DEF Received

\* What is on the address of a new invoice came from elsewhere, unless another
\* invoice shows it too.
LEMMA CreateInvoiceIInv ==
    ASSUME IInv, NEW d \in Donations, NEW u \in Users, NEW coin \in Coins,
           NEW amount \in Amounts, CreateInvoice(d, u, coin, amount)
    PROVE  IInv'
<1> USE DEF IInv, TypeOK
<1> DEFINE row == [user |-> u, coin |-> coin, amount |-> amount,
                   address |-> NewAddress(coin, xpubOf[u], d),
                   fee |-> PlatformFee(amount, FeeRate), confirmed |-> FALSE]
<1>1. /\ donations' = [donations EXCEPT ![d] = row]
      /\ UNCHANGED <<xpubOf, balance, settled, polling, chain, payments, sentFor, fromOthers>>
      /\ donations[d] = None
  BY DEF CreateInvoice, Created, chainVars
<1>2. row \in Row /\ row # None /\ row.address \in Addresses
  <2>1. xpubOf[u] \in Xpubs \union {None} /\ amount \in Nat
    BY AmountsAssumption
  <2>2. row.address \in Addresses /\ row.fee \in Nat
    BY <2>1, NewAddressTyped, FeeTyped
  <2>3. row \in Row
    BY <2>2 DEF Row
  <2> QED
    BY <2>2, <2>3, NoneAssumption
<1> HIDE DEF row
<1>3. /\ \A e \in Donations : Created(e)' <=> Created(e) \/ e = d
      /\ \A e \in Donations \ {d} : donations'[e] = donations[e]
      /\ donations'[d] = row
  BY <1>1, <1>2 DEF Created
<1>4. TypeOK'
  <2>1. \A a \in Addresses : Received(a)' = Received(a)
    BY <1>1 DEF Received
  <2> QED
    BY <1>1, <1>2, <2>1
<1>5. \A e \in Donations \ {d} : Created(e)' /\ Exclusive(e)' => Created(e) /\ Exclusive(e)
  <2> SUFFICES ASSUME NEW e \in Donations \ {d}, Created(e)', Exclusive(e)',
                      NEW f \in Donations \ {e}, Created(f)
               PROVE  Created(e) /\ donations[f].address # donations[e].address
    BY <1>3 DEF Exclusive
  <2>1. Created(e) /\ donations'[e] = donations[e] /\ f # d
    BY <1>1, <1>3 DEF Created
  <2> QED
    BY <1>3, <2>1 DEF Exclusive
<1>6. ChainBacked'
  <2>1. ASSUME NEW a \in Addresses
        PROVE  /\ chain'[a].spent <= chain'[a].mined
               /\ (\A e \in Donations : Created(e)' => donations'[e].address # a)
                     => chain'[a].mempool + chain'[a].mined <= fromOthers'[a]
    BY <1>1, <1>3 DEF ChainBacked, Created
  <2>2. ASSUME NEW e \in Donations, Created(e)', Exclusive(e)', e # d
        PROVE  chain'[donations'[e].address].mempool + chain'[donations'[e].address].mined
                   <= sentFor'[e] + fromOthers'[donations'[e].address]
    BY <1>1, <1>3, <1>5, <2>2 DEF ChainBacked
  <2>3. ASSUME Exclusive(d)'
        PROVE  chain'[row.address].mempool + chain'[row.address].mined
                   <= sentFor'[d] + fromOthers'[row.address]
    <3>1. \A e \in Donations : Created(e) => donations[e].address # row.address
      BY <1>1, <1>3, <2>3 DEF Exclusive, Created
    <3>2. chain[row.address].mempool + chain[row.address].mined <= fromOthers[row.address]
      BY <1>2, <3>1 DEF ChainBacked
    <3>3. /\ chain[row.address].mempool \in Nat /\ chain[row.address].mined \in Nat
          /\ fromOthers[row.address] \in Nat /\ sentFor[d] \in Nat
      BY <1>2
    <3> QED
      BY <1>1, <3>2, <3>3
  <2> QED
    BY <1>3, <2>1, <2>2, <2>3 DEF ChainBacked
<1>7. ConfirmedWasPaid'
  <2>1. ~donations'[d].confirmed
    BY <1>3 DEF row
  <2> QED
    BY <1>1, <1>3, <1>5, <2>1 DEF ConfirmedWasPaid, Confirmed
<1> QED
  BY <1>4, <1>6, <1>7

\* A check confirms what its address holds, and that is what its donor sent and
\* what came from elsewhere.
LEMMA CheckIInv ==
    ASSUME IInv, NEW d \in Donations, Check(d), polling' \subseteq Donations
    PROVE  IInv'
<1> USE DEF IInv, TypeOK
<1> DEFINE row == donations[d]
<1>1. /\ Created(d) /\ Final(StatusSeen(row))
      /\ donations' = [donations EXCEPT ![d].confirmed = TRUE]
      /\ balance' = [balance EXCEPT ![row.user] = @ + row.fee]
      /\ UNCHANGED <<xpubOf, settled, chain, payments, sentFor, fromOthers>>
  BY DEF Check, chainVars
<1>2. row \in Row /\ row.user \in Users /\ row.fee \in Nat /\ row.address \in Addresses
  BY <1>1 DEF Created, Row
<1>3. [row EXCEPT !.confirmed = TRUE] \in Row
  BY <1>2 DEF Row
<1>4. \A e \in Donations : /\ Created(e)' <=> Created(e)
                           /\ Created(e) => /\ donations'[e].address = donations[e].address
                                            /\ donations'[e].amount = donations[e].amount
                                            /\ e # d => donations'[e] = donations[e]
  BY <1>1, <1>2, <1>3, NoneAssumption DEF Created, Row
<1>5. TypeOK'
  <2>1. \A a \in Addresses : Received(a)' = Received(a)
    BY <1>1 DEF Received
  <2>2. donations' \in [Donations -> Row \union {None}]
    BY <1>1, <1>3
  <2>3. balance' \in [Users -> Nat]
    BY <1>1, <1>2
  <2> QED
    BY <1>1, <2>1, <2>2, <2>3
<1>6. \A e \in Donations : Exclusive(e)' /\ Created(e) => Exclusive(e)
  BY <1>4 DEF Exclusive
<1>7. ChainBacked'
  <2>1. ASSUME NEW a \in Addresses
        PROVE  /\ chain'[a].spent <= chain'[a].mined
               /\ (\A e \in Donations : Created(e)' => donations'[e].address # a)
                     => chain'[a].mempool + chain'[a].mined <= fromOthers'[a]
    BY <1>1, <1>4 DEF ChainBacked
  <2>2. ASSUME NEW e \in Donations, Created(e)', Exclusive(e)'
        PROVE  chain'[donations'[e].address].mempool + chain'[donations'[e].address].mined
                   <= sentFor'[e] + fromOthers'[donations'[e].address]
    BY <1>1, <1>4, <1>6, <2>2 DEF ChainBacked
  <2> QED
    BY <2>1, <2>2 DEF ChainBacked
<1>8. ConfirmedWasPaid'
  <2>1. ASSUME Exclusive(d)
        PROVE  LET came == sentFor[d] + fromOthers[row.address]
               IN  came > 0 /\ came >= row.amount
    <3> DEFINE at == chain[row.address]
    <3>1. /\ Received(row.address) \in Nat
          /\ Received(row.address) = at.mempool + at.mined - at.spent
          /\ at.mempool \in Nat /\ at.mined \in Nat /\ at.spent \in Nat
      BY <1>2 DEF Received
    <3>2. Received(row.address) > 0 /\ Received(row.address) >= row.amount
      BY <1>1, <1>2, <3>1, FinalIsPaid
    <3>3. at.mempool + at.mined <= sentFor[d] + fromOthers[row.address]
      BY <1>1, <2>1 DEF ChainBacked
    <3>4. row.amount \in Nat /\ sentFor[d] \in Nat /\ fromOthers[row.address] \in Nat
      BY <1>2, AmountsAssumption DEF Row
    <3> QED
      BY <3>1, <3>2, <3>3, <3>4
  <2>2. ASSUME NEW e \in Donations, Confirmed(e)', Exclusive(e)'
        PROVE  LET came == sentFor'[e] + fromOthers'[donations'[e].address]
               IN  came > 0 /\ came >= donations'[e].amount
    <3>1. Created(e) /\ Exclusive(e)
      BY <1>4, <1>6, <2>2 DEF Confirmed
    <3>2. CASE e = d
      BY <1>1, <1>4, <2>1, <3>1, <3>2
    <3>3. CASE e # d
      BY <1>1, <1>4, <2>2, <3>1, <3>3 DEF ConfirmedWasPaid, Confirmed
    <3> QED
      BY <3>2, <3>3
  <2> QED
    BY <2>2 DEF ConfirmedWasPaid
<1> QED
  BY <1>5, <1>7, <1>8

----------------------------------------------------------------------------

\* A profile update and a settlement touch neither invoices nor chains.
LEMMA UsersIInv ==
    ASSUME IInv,
           \/ \E u \in Users, x \in Xpubs \union {None} : SetXpub(u, x)
           \/ \E u \in Users : Settle(u)
    PROVE  IInv'
<1> USE DEF IInv, TypeOK
<1>1. /\ UNCHANGED <<donations, polling, chain, payments, sentFor, fromOthers>>
      /\ xpubOf' \in [Users -> Xpubs \union {None}]
      /\ balance' \in [Users -> Nat] /\ settled' \in [Users -> Nat]
  BY DEF SetXpub, Settle, chainVars
<1>2. \A a \in Addresses : Received(a)' = Received(a)
  BY <1>1 DEF Received
<1>3. TypeOK'
  BY <1>1, <1>2
<1>4. ChainBacked' /\ ConfirmedWasPaid'
  BY <1>1 DEF ChainBacked, ConfirmedWasPaid, Confirmed, Created, Exclusive
<1> QED
  BY <1>3, <1>4

\* A payment raises what an address holds and what its donor sent alike.
LEMMA PayIInv ==
    ASSUME IInv, NEW d \in Donations, NEW n \in Payments, Pay(d, n)
    PROVE  IInv'
<1> USE DEF IInv, TypeOK
<1> DEFINE b == donations[d].address
<1>1. /\ Created(d) /\ b \in Addresses /\ n \in Nat /\ n > 0
      /\ chain' = [chain EXCEPT ![b].mempool = @ + n]
      /\ sentFor' = [sentFor EXCEPT ![d] = @ + n]
      /\ payments' = payments + 1
      /\ UNCHANGED <<xpubOf, donations, balance, settled, polling, fromOthers>>
  BY AmountsAssumption DEF Pay, Created, Row, tables
<1>2. /\ chain' \in [Addresses -> [mempool : Nat, mined : Nat, spent : Nat]]
      /\ \A a \in Addresses : /\ chain'[a].mined = chain[a].mined
                              /\ chain'[a].spent = chain[a].spent
                              /\ a # b => chain'[a].mempool = chain[a].mempool
      /\ chain'[b].mempool = chain[b].mempool + n
  BY <1>1
<1>3. /\ sentFor' \in [Donations -> Nat]
      /\ sentFor'[d] = sentFor[d] + n
      /\ \A e \in Donations \ {d} : sentFor'[e] = sentFor[e]
  BY <1>1
<1>4. \A e \in Donations : Created(e)' = Created(e) /\ Exclusive(e)' = Exclusive(e)
  BY <1>1 DEF Created, Exclusive
<1>5. ChainBacked'
  <2>1. ASSUME NEW a \in Addresses
        PROVE  /\ chain'[a].spent <= chain'[a].mined
               /\ (\A e \in Donations : Created(e)' => donations'[e].address # a)
                     => chain'[a].mempool + chain'[a].mined <= fromOthers'[a]
    BY <1>1, <1>2, <1>4 DEF ChainBacked
  <2>2. ASSUME NEW e \in Donations, Created(e), Exclusive(e)
        PROVE  chain'[donations[e].address].mempool + chain'[donations[e].address].mined
                   <= sentFor'[e] + fromOthers'[donations[e].address]
    <3> DEFINE c == donations[e].address
    <3>1. /\ c \in Addresses
          /\ chain[c].mempool + chain[c].mined <= sentFor[e] + fromOthers[c]
      BY <2>2 DEF ChainBacked, Created, Row
    <3>2. /\ chain[c].mempool \in Nat /\ chain[c].mined \in Nat
          /\ sentFor[e] \in Nat /\ fromOthers[c] \in Nat
      BY <3>1
    <3>3. CASE e = d
      BY <1>1, <1>2, <1>3, <3>1, <3>2, <3>3
    <3>4. CASE e # d
      <4>1. c # b
        BY <1>1, <2>2, <3>4 DEF Exclusive
      <4> QED
        BY <1>1, <1>2, <1>3, <3>1, <3>4, <4>1
    <3> QED
      BY <3>3, <3>4
  <2> QED
    BY <1>1, <1>4, <2>1, <2>2 DEF ChainBacked
<1>6. TypeOK'
  <2>1. \A a \in Addresses : Received(a)' \in Nat
    BY <1>2, <1>5, ReceivedTyped DEF Received, ChainBacked
  <2> QED
    BY <1>1, <1>2, <1>3, <2>1
<1>7. ConfirmedWasPaid'
  <2> SUFFICES ASSUME NEW e \in Donations, Confirmed(e), Exclusive(e)
               PROVE  LET came == sentFor'[e] + fromOthers[donations[e].address]
                      IN  came > 0 /\ came >= donations[e].amount
    BY <1>1, <1>4 DEF ConfirmedWasPaid, Confirmed
  <2>1. LET came == sentFor[e] + fromOthers[donations[e].address]
        IN  came > 0 /\ came >= donations[e].amount
    BY DEF ConfirmedWasPaid
  <2>2. /\ donations[e].amount \in Nat /\ donations[e].address \in Addresses
        /\ fromOthers[donations[e].address] \in Nat /\ sentFor[e] \in Nat
    BY AmountsAssumption DEF Confirmed, Created, Row
  <2>3. sentFor'[e] \in Nat /\ sentFor'[e] >= sentFor[e]
    BY <1>1, <1>3, <2>2
  <2> QED
    BY <2>1, <2>2, <2>3
<1> QED
  BY <1>5, <1>6, <1>7

\* Coins from elsewhere raise what an address holds and what came to it alike.
LEMMA PayOtherwiseIInv ==
    ASSUME IInv, NEW b \in FirstAddresses, NEW n \in Others, PayOtherwise(b, n)
    PROVE  IInv'
<1> USE DEF IInv, TypeOK
<1>1. /\ b \in Addresses /\ n \in Nat
      /\ chain' = [chain EXCEPT ![b].mempool = @ + n]
      /\ fromOthers' = [fromOthers EXCEPT ![b] = @ + n]
      /\ payments' = payments + 1
      /\ UNCHANGED <<xpubOf, donations, balance, settled, polling, sentFor>>
  BY AmountsAssumption DEF PayOtherwise, Addresses, tables
<1>2. /\ chain' \in [Addresses -> [mempool : Nat, mined : Nat, spent : Nat]]
      /\ \A a \in Addresses : /\ chain'[a].mined = chain[a].mined
                              /\ chain'[a].spent = chain[a].spent
                              /\ a # b => chain'[a].mempool = chain[a].mempool
      /\ chain'[b].mempool = chain[b].mempool + n
  BY <1>1
<1>3. /\ fromOthers' \in [Addresses -> Nat]
      /\ fromOthers'[b] = fromOthers[b] + n
      /\ \A a \in Addresses \ {b} : fromOthers'[a] = fromOthers[a]
  BY <1>1
<1>4. \A e \in Donations : Created(e)' = Created(e) /\ Exclusive(e)' = Exclusive(e)
  BY <1>1 DEF Created, Exclusive
\* Both bounds have fromOthers on the right: they grow with what is held.
<1>5. ASSUME NEW a \in Addresses, NEW m \in Nat,
             chain[a].mempool + chain[a].mined <= m + fromOthers[a]
      PROVE  chain'[a].mempool + chain'[a].mined <= m + fromOthers'[a]
  <2>1. chain[a].mempool \in Nat /\ chain[a].mined \in Nat /\ fromOthers[a] \in Nat
    OBVIOUS
  <2>2. CASE a = b
    BY <1>1, <1>2, <1>3, <1>5, <2>1, <2>2
  <2>3. CASE a # b
    BY <1>2, <1>3, <1>5, <2>3
  <2> QED
    BY <2>2, <2>3
<1>6. ChainBacked'
  <2>1. ASSUME NEW a \in Addresses
        PROVE  /\ chain'[a].spent <= chain'[a].mined
               /\ (\A e \in Donations : Created(e)' => donations'[e].address # a)
                     => chain'[a].mempool + chain'[a].mined <= fromOthers'[a]
    <3>1. chain'[a].spent <= chain'[a].mined
      BY <1>2 DEF ChainBacked
    <3>2. ASSUME \A e \in Donations : Created(e)' => donations'[e].address # a
          PROVE  chain'[a].mempool + chain'[a].mined <= fromOthers'[a]
      <4>1. chain[a].mempool + chain[a].mined <= fromOthers[a]
        BY <1>1, <1>4, <3>2 DEF ChainBacked
      <4>2. fromOthers[a] \in Nat /\ fromOthers'[a] \in Nat
        BY <1>3
      <4>3. chain'[a].mempool + chain'[a].mined <= 0 + fromOthers'[a]
        BY <1>5, <4>1, <4>2
      <4> QED
        BY <4>2, <4>3
    <3> QED
      BY <3>1, <3>2
  <2>2. ASSUME NEW e \in Donations, Created(e), Exclusive(e)
        PROVE  chain'[donations[e].address].mempool + chain'[donations[e].address].mined
                   <= sentFor'[e] + fromOthers'[donations[e].address]
    <3>1. /\ donations[e].address \in Addresses /\ sentFor[e] \in Nat
          /\ chain[donations[e].address].mempool + chain[donations[e].address].mined
                 <= sentFor[e] + fromOthers[donations[e].address]
      BY <2>2 DEF ChainBacked, Created, Row
    <3> QED
      BY <1>1, <1>5, <3>1
  <2> QED
    BY <1>1, <1>4, <2>1, <2>2 DEF ChainBacked
<1>7. TypeOK'
  <2>1. \A a \in Addresses : Received(a)' \in Nat
    BY <1>2, <1>6, ReceivedTyped DEF Received, ChainBacked
  <2> QED
    BY <1>1, <1>2, <1>3, <2>1
<1>8. ConfirmedWasPaid'
  <2> SUFFICES ASSUME NEW e \in Donations, Confirmed(e), Exclusive(e)
               PROVE  LET came == sentFor[e] + fromOthers'[donations[e].address]
                      IN  came > 0 /\ came >= donations[e].amount
    BY <1>1, <1>4 DEF ConfirmedWasPaid, Confirmed
  <2> DEFINE a == donations[e].address
  <2>1. sentFor[e] + fromOthers[a] > 0 /\ sentFor[e] + fromOthers[a] >= donations[e].amount
    BY DEF ConfirmedWasPaid
  <2>2. donations[e].amount \in Nat /\ a \in Addresses
    BY AmountsAssumption DEF Confirmed, Created, Row
  <2>3. fromOthers[a] \in Nat /\ sentFor[e] \in Nat
    BY <2>2
  <2>4. fromOthers'[a] \in Nat /\ fromOthers'[a] >= fromOthers[a]
    BY <1>1, <1>3, <2>2, <2>3
  <2> HIDE DEF a
  <2>5. sentFor[e] + fromOthers'[a] > 0 /\ sentFor[e] + fromOthers'[a] >= donations[e].amount
    BY <2>1, <2>2, <2>3, <2>4
  <2> QED
    BY <2>5 DEF a
<1> QED
  BY <1>6, <1>7, <1>8

\* Blocks, replacements and the creators' own transactions only move or remove
\* what an address holds.
LEMMA ChainIInv ==
    ASSUME IInv, NEW a \in Addresses, Mine(a) \/ Drop(a) \/ Spend(a)
    PROVE  IInv'
<1> USE DEF IInv, TypeOK
<1>1. UNCHANGED <<xpubOf, donations, balance, settled, polling, payments, sentFor, fromOthers>>
  BY DEF Mine, Drop, Spend, tables
<1>2. /\ chain[a].mempool \in Nat /\ chain[a].mined \in Nat /\ chain[a].spent \in Nat
      /\ chain[a].spent <= chain[a].mined
  BY DEF ChainBacked
<1>3. /\ chain' \in [Addresses -> [mempool : Nat, mined : Nat, spent : Nat]]
      /\ \A b \in Addresses :
            /\ chain'[b].spent <= chain'[b].mined
            /\ chain'[b].mempool + chain'[b].mined <= chain[b].mempool + chain[b].mined
  <2>1. ASSUME NEW b \in Addresses
        PROVE  /\ chain[b].mempool \in Nat /\ chain[b].mined \in Nat
               /\ chain[b].spent <= chain[b].mined
    BY DEF ChainBacked
  <2>2. CASE Mine(a)
    BY <1>2, <2>1, <2>2 DEF Mine
  <2>3. CASE Drop(a)
    BY <1>2, <2>1, <2>3 DEF Drop
  <2>4. CASE Spend(a)
    BY <1>2, <2>1, <2>4 DEF Spend
  <2> QED
    BY <2>2, <2>3, <2>4
<1>4. \A e \in Donations : Created(e)' = Created(e) /\ Exclusive(e)' = Exclusive(e)
  BY <1>1 DEF Created, Exclusive
<1>5. ChainBacked'
  <2>1. ASSUME NEW b \in Addresses
        PROVE  /\ chain'[b].spent <= chain'[b].mined
               /\ (\A e \in Donations : Created(e)' => donations'[e].address # b)
                     => chain'[b].mempool + chain'[b].mined <= fromOthers'[b]
    <3>1. /\ chain[b].mempool \in Nat /\ chain[b].mined \in Nat /\ fromOthers[b] \in Nat
          /\ chain'[b].mempool \in Nat /\ chain'[b].mined \in Nat
          /\ chain'[b].spent <= chain'[b].mined
          /\ chain'[b].mempool + chain'[b].mined <= chain[b].mempool + chain[b].mined
      BY <1>3
    <3>2. ASSUME \A e \in Donations : Created(e)' => donations'[e].address # b
          PROVE  chain'[b].mempool + chain'[b].mined <= fromOthers'[b]
      <4>1. \A e \in Donations : Created(e) => donations[e].address # b
        BY <1>1, <1>4, <3>2
      <4>2. chain[b].mempool + chain[b].mined <= fromOthers[b]
        BY <4>1 DEF ChainBacked
      <4> QED
        BY <1>1, <3>1, <4>2
    <3> QED
      BY <3>1, <3>2
  <2>2. ASSUME NEW e \in Donations, Created(e), Exclusive(e)
        PROVE  chain'[donations[e].address].mempool + chain'[donations[e].address].mined
                   <= sentFor'[e] + fromOthers'[donations[e].address]
    <3> DEFINE b == donations[e].address
    <3>1. /\ b \in Addresses
          /\ chain[b].mempool + chain[b].mined <= sentFor[e] + fromOthers[b]
      BY <2>2 DEF ChainBacked, Created, Row
    <3>2. /\ chain[b].mempool \in Nat /\ chain[b].mined \in Nat
          /\ sentFor[e] \in Nat /\ fromOthers[b] \in Nat
          /\ chain'[b].mempool \in Nat /\ chain'[b].mined \in Nat
          /\ chain'[b].mempool + chain'[b].mined <= chain[b].mempool + chain[b].mined
      BY <1>3, <3>1
    <3> HIDE DEF b
    <3> QED
      BY <1>1, <3>1, <3>2 DEF b
  <2> QED
    BY <1>1, <1>4, <2>1, <2>2 DEF ChainBacked
<1>6. TypeOK'
  <2>1. \A b \in Addresses : Received(b)' \in Nat
    BY <1>3, <1>5 DEF Received, ChainBacked
  <2> QED
    BY <1>1, <1>3, <2>1
<1>7. ConfirmedWasPaid'
  BY <1>1, <1>4 DEF ConfirmedWasPaid, Confirmed
<1> QED
  BY <1>5, <1>6, <1>7

\* An invoice page that opens, closes or polls changes the tables through a
\* check, if at all.
LEMMA PageIInv ==
    ASSUME IInv, NEW d \in Donations, OpenPage(d) \/ ClosePage(d) \/ Poll(d)
    PROVE  IInv'
<1>1. polling' \subseteq Donations
  BY DEF IInv, TypeOK, OpenPage, ClosePage, Poll
<1>2. CASE Check(d)
  BY <1>1, <1>2, CheckIInv
<1>3. CASE UNCHANGED <<tables, chainVars>>
  BY <1>1, <1>3 DEF IInv, TypeOK, ChainBacked, ConfirmedWasPaid, Confirmed, Created, Exclusive,
                    Received, tables, chainVars
<1> QED
  BY <1>2, <1>3 DEF OpenPage, ClosePage, Poll

\* Every step preserves the invariant.
LEMMA NextIInv == IInv /\ [Next]_vars => IInv'
<1> SUFFICES ASSUME IInv, [Next]_vars PROVE IInv'
  OBVIOUS
<1>1. CASE UNCHANGED vars
  BY <1>1 DEF vars, IInv, TypeOK, ChainBacked, ConfirmedWasPaid, Confirmed, Created, Exclusive,
              Received
<1> QED
  BY <1>1, UsersIInv, CreateInvoiceIInv, PageIInv, PayIInv, PayOtherwiseIInv, ChainIInv
     DEF Next

\* What is shown, sent by donors or others, and confirmed stays in step, whatever
\* the addresses held before and the chains do (create_invoice, check,
\* settle_confirm).
THEOREM InductiveInvariant == Spec => []IInv
PROOF
  BY InitIInv, NextIInv, PTL DEF Spec

\* The types hold in every behaviour, and no address gives back more than it
\* received.
THEOREM TypeCorrect == Spec => []TypeOK
<1>1. IInv => TypeOK
  BY DEF IInv
<1> QED
  BY <1>1, InitIInv, NextIInv, PTL DEF Spec

\* However payments are split, replaced, mined and spent, and whatever the
\* creator's wallet held before, an invoice with an address of its own is
\* confirmed only after what its donor sent and what came there from elsewhere
\* are together what it asks.
THEOREM PaidBeforeConfirmed == Spec => []ConfirmedWasPaid
<1>1. IInv => ConfirmedWasPaid
  BY DEF IInv
<1> QED
  BY <1>1, InitIInv, NextIInv, PTL DEF Spec

-----------------------------------------------------------------------------
(* What is owed and settled is a sum over the Bitcoin rows.                 *)

FinitelyConfirmed == \A u \in Users : IsFiniteSet(BitcoinConfirmedOf(u))

\* Only a Bitcoin row can be seen as final: the watcher's Monero object has
\* handed out no address and refuses every one.
LEMMA FinalIsBitcoin ==
    ASSUME NEW row \in Row, Final(StatusSeen(row))
    PROVE  row.coin = "BTC"
<1>1. StatusSeen(row) # "not_found" /\ StatusSeen(row) # "error"
  BY DEF Final, IsFinal
<1>2. ~ Refuses(row)
  BY <1>1 DEF StatusSeen
<1> QED
  BY <1>2 DEF Refuses, WatcherBackend, FreshBackend, Row, Coins

\* A step that leaves the confirmed rows, and what is owed and settled
\* together, alone.
LEMMA SatsKept ==
    ASSUME SatsOnly, FinitelyConfirmed,
           \A u \in Users : balance'[u] + settled'[u] = balance[u] + settled[u],
           \A d \in Donations :
               \/ donations'[d] = donations[d]
               \/ ~ Confirmed(d) /\ ~ Confirmed(d)'
    PROVE  SatsOnly' /\ FinitelyConfirmed'
<1> SUFFICES ASSUME NEW u \in Users
             PROVE  /\ BitcoinConfirmedOf(u)' = BitcoinConfirmedOf(u)
                    /\ BitcoinFees(u)' = BitcoinFees(u)
  BY DEF SatsOnly, FinitelyConfirmed
<1>1. BitcoinConfirmedOf(u)' = BitcoinConfirmedOf(u)
  BY DEF BitcoinConfirmedOf, Confirmed, Created
<1>2. \A d \in BitcoinConfirmedOf(u) : donations'[d] = donations[d]
  BY DEF BitcoinConfirmedOf
<1> QED
  BY <1>1, <1>2 DEF BitcoinFees

\* A check adds the row's fee to the balance and the row to the sum.
LEMMA CheckSats ==
    ASSUME IInv, SatsOnly, FinitelyConfirmed, NEW d \in Donations, Check(d)
    PROVE  SatsOnly' /\ FinitelyConfirmed'
<1> DEFINE row == donations[d]
           new == [row EXCEPT !.confirmed = TRUE]
<1>1. /\ row \in Row /\ row # None /\ ~ row.confirmed /\ Final(StatusSeen(row))
      /\ donations \in [Donations -> Row \cup {None}]
      /\ balance \in [Users -> Nat] /\ settled \in [Users -> Nat]
      /\ donations' = [donations EXCEPT ![d] = new]
      /\ balance' = [balance EXCEPT ![row.user] = @ + row.fee]
      /\ settled' = settled
  BY DEF Check, Created, IInv, TypeOK
<1>2. /\ row.user \in Users /\ row.fee \in Nat /\ row.coin = "BTC"
      /\ new.user = row.user /\ new.fee = row.fee /\ new.coin = row.coin /\ new.confirmed
      /\ new \in Row /\ new # None
  BY <1>1, FinalIsBitcoin, NoneAssumption DEF Row
<1> SUFFICES ASSUME NEW u \in Users
             PROVE  /\ IsFiniteSet(BitcoinConfirmedOf(u)')
                    /\ balance'[u] + settled'[u] = SumFunction(BitcoinFees(u)')
  BY DEF SatsOnly, FinitelyConfirmed
<1>3. /\ IsFiniteSet(BitcoinConfirmedOf(u))
      /\ balance[u] + settled[u] = SumFunction(BitcoinFees(u))
  BY DEF SatsOnly, FinitelyConfirmed
<1> HIDE DEF new
<1>4. \A e \in Donations : donations'[e] = IF e = d THEN new ELSE donations[e]
  BY <1>1
<1>5. CASE u = row.user
  <2>1. BitcoinConfirmedOf(u)' = BitcoinConfirmedOf(u) \cup {d} /\ d \notin BitcoinConfirmedOf(u)
    BY <1>1, <1>2, <1>4, <1>5 DEF BitcoinConfirmedOf, Confirmed, Created
  <2>2. BitcoinFees(u) \in [BitcoinConfirmedOf(u) -> Nat]
    BY <1>1 DEF BitcoinFees, BitcoinConfirmedOf, Confirmed, Created, Row
  <2>3. /\ \A e \in BitcoinConfirmedOf(u) : BitcoinFees(u)'[e] = BitcoinFees(u)[e]
        /\ BitcoinFees(u)'[d] = row.fee
        /\ BitcoinFees(u)' \in [BitcoinConfirmedOf(u) \cup {d} -> Nat]
    <3>1. BitcoinFees(u)' = [e \in BitcoinConfirmedOf(u) \cup {d} |-> donations'[e].fee]
      BY <2>1 DEF BitcoinFees
    <3>2. \A e \in BitcoinConfirmedOf(u) : donations'[e].fee = BitcoinFees(u)[e]
      BY <1>4, <2>1 DEF BitcoinFees, BitcoinConfirmedOf
    <3>3. donations'[d].fee = row.fee
      BY <1>2, <1>4
    <3> HIDE DEF row
    <3> QED
      BY <1>2, <2>2, <3>1, <3>2, <3>3
  <2>4. SumFunction(BitcoinFees(u)') = SumFunction(BitcoinFees(u)) + BitcoinFees(u)'[d]
    <3> DEFINE X == BitcoinConfirmedOf(u)
               f == BitcoinFees(u)
               g == BitcoinFees(u)'
    <3>1. /\ IsFiniteSet(X) /\ d \notin X /\ f \in [X -> Nat]
          /\ g \in [X \cup {d} -> Nat] /\ \A e \in X : g[e] = f[e]
      BY <1>3, <2>1, <2>2, <2>3
    <3> HIDE DEF X, f, g, row
    <3>2. SumFunction(g) = SumFunction(f) + g[d]
      BY <3>1, SumOfMore
    <3> QED
      BY <3>2 DEF f, g
  <2>5. balance'[u] = balance[u] + row.fee /\ settled'[u] = settled[u]
    BY <1>1, <1>5
  <2>6. IsFiniteSet(BitcoinConfirmedOf(u)')
    BY <1>3, <2>1, FS_AddElement
  <2>7. balance[u] \in Nat /\ settled[u] \in Nat
    BY <1>1
  <2> HIDE DEF row
  <2> QED
    BY <1>2, <1>3, <2>3, <2>4, <2>5, <2>6, <2>7
<1>6. CASE u # row.user
  <2>1. BitcoinConfirmedOf(u)' = BitcoinConfirmedOf(u)
    BY <1>1, <1>2, <1>4, <1>6 DEF BitcoinConfirmedOf, Confirmed, Created
  <2>2. \A e \in BitcoinConfirmedOf(u) : donations'[e] = donations[e]
    BY <1>2, <1>4, <1>6 DEF BitcoinConfirmedOf
  <2>3. BitcoinFees(u)' = BitcoinFees(u)
    BY <2>1, <2>2 DEF BitcoinFees
  <2>4. balance'[u] = balance[u] /\ settled'[u] = settled[u]
    BY <1>1, <1>6
  <2> QED
    BY <1>3, <2>1, <2>3, <2>4
<1> QED
  BY <1>5, <1>6

\* Every step keeps what is owed and settled equal to the sum.
LEMMA NextSats ==
    ASSUME IInv, SatsOnly, FinitelyConfirmed, [Next]_vars
    PROVE  SatsOnly' /\ FinitelyConfirmed'
<1>1. ASSUME NEW d \in Donations, NEW u \in Users, NEW coin \in Coins, NEW amount \in Amounts,
             CreateInvoice(d, u, coin, amount)
      PROVE  SatsOnly' /\ FinitelyConfirmed'
  <2>1. /\ ~ Confirmed(d) /\ ~ Confirmed(d)' /\ UNCHANGED <<balance, settled>>
        /\ \A e \in Donations \ {d} : donations'[e] = donations[e]
    BY <1>1 DEF CreateInvoice, Confirmed, Created, IInv, TypeOK
  <2> QED
    BY <2>1, SatsKept
<1>2. ASSUME NEW d \in Donations, Check(d)
      PROVE  SatsOnly' /\ FinitelyConfirmed'
  BY <1>2, CheckSats
<1>3. ASSUME NEW u \in Users, Settle(u)
      PROVE  SatsOnly' /\ FinitelyConfirmed'
  <2>1. /\ balance \in [Users -> Nat] /\ settled \in [Users -> Nat]
        /\ settled' = [settled EXCEPT ![u] = @ + balance[u]]
        /\ balance' = [balance EXCEPT ![u] = 0]
        /\ donations' = donations
    BY <1>3 DEF Settle, IInv, TypeOK
  <2>2. \A v \in Users : balance'[v] + settled'[v] = balance[v] + settled[v]
    BY <2>1
  <2> QED
    BY <2>1, <2>2, SatsKept
<1>4. CASE UNCHANGED <<donations, balance, settled>>
  BY <1>4, SatsKept
<1>5. ASSUME NEW d \in Donations, OpenPage(d) \/ ClosePage(d) \/ Poll(d)
      PROVE  SatsOnly' /\ FinitelyConfirmed'
  BY <1>2, <1>4, <1>5 DEF OpenPage, ClosePage, Poll, tables
<1> QED
  BY <1>1, <1>3, <1>4, <1>5
     DEF Next, vars, tables, SetXpub, Pay, PayOtherwise, Mine, Drop, Spend

\* Balances and settlements are in sats: what a creator owes and has settled is
\* the sum of the fees of their confirmed Bitcoin donations, whatever Monero
\* invoices there are.
THEOREM OnlySats == Spec => []SatsOnly
<1>1. Init => SatsOnly /\ FinitelyConfirmed
  <2> SUFFICES ASSUME Init, NEW u \in Users
               PROVE  /\ IsFiniteSet(BitcoinConfirmedOf(u))
                      /\ balance[u] + settled[u] = SumFunction(BitcoinFees(u))
    BY DEF SatsOnly, FinitelyConfirmed
  <2>1. BitcoinConfirmedOf(u) = {}
    BY DEF Init, BitcoinConfirmedOf, Confirmed, Created
  <2>2. SumFunction(BitcoinFees(u)) = 0
    <3>1. DOMAIN BitcoinFees(u) = {}
      BY <2>1 DEF BitcoinFees
    <3> QED
      BY <3>1, SumOfNone
  <2>3. balance[u] = 0 /\ settled[u] = 0
    BY DEF Init
  <2> QED
    BY <2>1, <2>2, <2>3, FS_EmptySet
<1>2. IInv /\ SatsOnly /\ FinitelyConfirmed /\ [Next]_vars => SatsOnly' /\ FinitelyConfirmed'
  BY NextSats
<1> QED
  BY <1>1, <1>2, InitIInv, NextIInv, PTL DEF Spec
-----------------------------------------------------------------------------
(* Refinement: creating, checking and settling are the abstract steps.      *)

\* What FeeAccounts sees of the table.
Entries == [d \in Donations |-> IF Created(d) THEN Entry(donations[d]) ELSE None]

\* Confirming an entry changes its third field only.
LEMMA ConfirmedEntry ==
    ASSUME NEW entry \in [user : Users, fee : Nat, confirmed : BOOLEAN]
    PROVE  [entry EXCEPT !.confirmed = TRUE]
               = [user |-> entry.user, fee |-> entry.fee, confirmed |-> TRUE]
<1> DEFINE E == [user : Users, fee : Nat, confirmed : BOOLEAN]
           a == [entry EXCEPT !.confirmed = TRUE]
           b == [user |-> entry.user, fee |-> entry.fee, confirmed |-> TRUE]
<1>1. a \in E /\ b \in E
  OBVIOUS
<1>2. a.user = b.user /\ a.fee = b.fee /\ a.confirmed = b.confirmed
  OBVIOUS
<1> HIDE DEF a, b
<1>3. \A e \in E : e = [user |-> e.user, fee |-> e.fee, confirmed |-> e.confirmed]
  OBVIOUS
<1>4. a = b
  BY <1>1, <1>2, <1>3
<1> QED
  BY <1>4 DEF a, b

\* Every step maps to a step of FeeAccounts or to a stutter.
LEMMA NextRefines == IInv /\ [Next]_vars => [Accounts!Next]_(Accounts!vars)
<1> SUFFICES ASSUME IInv, [Next]_vars PROVE [Accounts!Next]_(Accounts!vars)
  OBVIOUS
<1> USE DEF IInv, TypeOK
<1>1. ASSUME NEW d \in Donations, NEW u \in Users, NEW coin \in Coins, NEW amount \in Amounts,
             CreateInvoice(d, u, coin, amount)
      PROVE  Accounts!Open(d, u, PlatformFee(amount, FeeRate))
  <2> DEFINE row == [user |-> u, coin |-> coin, amount |-> amount,
                     address |-> NewAddress(coin, xpubOf[u], d),
                     fee |-> PlatformFee(amount, FeeRate), confirmed |-> FALSE]
  <2>1. /\ donations' = [donations EXCEPT ![d] = row] /\ UNCHANGED <<balance, settled>>
        /\ ~Created(d)
    BY <1>1 DEF CreateInvoice
  <2>2. row # None
    <3>1. xpubOf[u] \in Xpubs \union {None} /\ amount \in Nat
      BY AmountsAssumption
    <3>2. row \in Row
      BY <3>1, NewAddressTyped, FeeTyped DEF Row
    <3> QED
      BY <3>2, NoneAssumption
  <2>3. Entry(row) = [user |-> u, fee |-> PlatformFee(amount, FeeRate), confirmed |-> FALSE]
    BY DEF Entry
  <2> HIDE DEF row
  <2>4. Entries[d] = None /\ Entries' = [Entries EXCEPT ![d] = Entry(row)]
    BY <2>1, <2>2 DEF Entries, Created
  <2> QED
    BY <2>1, <2>3, <2>4 DEF Accounts!Open, Entries
<1>2. ASSUME NEW d \in Donations, Check(d)
      PROVE  Accounts!Confirm(d)
  <2> DEFINE row == donations[d]
             new == [row EXCEPT !.confirmed = TRUE]
  <2>1. /\ Created(d) /\ ~row.confirmed /\ UNCHANGED settled
        /\ donations' = [donations EXCEPT ![d] = new]
        /\ balance' = [balance EXCEPT ![row.user] = @ + row.fee]
    BY <1>2 DEF Check
  <2>2. row \in Row /\ new \in Row
    BY <2>1 DEF Created, Row
  <2>3. new # None /\ Entry(new) = [Entry(row) EXCEPT !.confirmed = TRUE]
    <3>1. new.user = row.user /\ new.fee = row.fee /\ new.confirmed = TRUE
      BY <2>2 DEF Row
    <3>2. new # None
      BY <2>2, NoneAssumption
    <3> HIDE DEF new, row
    <3>3. Entry(new) = [user |-> row.user, fee |-> row.fee, confirmed |-> TRUE]
      BY <3>1 DEF Entry
    <3>4. [Entry(row) EXCEPT !.confirmed = TRUE]
              = [user |-> row.user, fee |-> row.fee, confirmed |-> TRUE]
      <4>1. Entry(row) \in [user : Users, fee : Nat, confirmed : BOOLEAN]
        BY <2>2 DEF Entry, Row
      <4>2. Entry(row).user = row.user /\ Entry(row).fee = row.fee
        BY DEF Entry
      <4> QED
        BY <4>1, <4>2, ConfirmedEntry
    <3> QED
      BY <3>2, <3>3, <3>4
  <2>4. Entry(row) # None
    BY <2>2, NoneAssumption DEF Entry, Row
  <2> HIDE DEF new
  <2>5. Entries[d] = Entry(row) /\ Entries' = [Entries EXCEPT ![d] = Entry(new)]
    BY <2>1, <2>3 DEF Entries, Created
  <2>6. Entries' = [Entries EXCEPT ![d].confirmed = TRUE]
    BY <2>3, <2>5
  <2>7. /\ Entries[d].user = row.user /\ Entries[d].fee = row.fee
        /\ Entries[d].confirmed = row.confirmed
    BY <2>5 DEF Entry
  <2> QED
    BY <2>1, <2>4, <2>5, <2>6, <2>7 DEF Accounts!Confirm, Entries
<1>3. ASSUME NEW u \in Users, Settle(u)
      PROVE  Accounts!Settle(u)
  <2>1. Entries' = Entries
    BY <1>3 DEF Settle, Entries, Created
  <2> QED
    BY <1>3, <2>1 DEF Settle, Accounts!Settle, Entries
<1>4. ASSUME UNCHANGED <<donations, balance, settled>>
      PROVE  UNCHANGED Accounts!vars
  BY <1>4 DEF Accounts!vars, Created
<1>5. CASE UNCHANGED vars
  BY <1>4, <1>5 DEF vars
<1>6. ASSUME NEW u \in Users, NEW x \in Xpubs \union {None}, SetXpub(u, x)
      PROVE  UNCHANGED Accounts!vars
  BY <1>4, <1>6 DEF SetXpub
<1>7. ASSUME NEW d \in Donations, NEW n \in Payments, Pay(d, n)
      PROVE  UNCHANGED Accounts!vars
  BY <1>4, <1>7 DEF Pay, tables
<1>8. ASSUME NEW a \in Addresses, Mine(a) \/ Drop(a) \/ Spend(a)
      PROVE  UNCHANGED Accounts!vars
  BY <1>4, <1>8 DEF Mine, Drop, Spend, tables
<1>9. ASSUME NEW a \in FirstAddresses, NEW n \in Others, PayOtherwise(a, n)
      PROVE  UNCHANGED Accounts!vars
  BY <1>4, <1>9 DEF PayOtherwise, tables
<1>10. ASSUME NEW d \in Donations, OpenPage(d) \/ ClosePage(d) \/ Poll(d)
       PROVE  Accounts!Confirm(d) \/ UNCHANGED Accounts!vars
  BY <1>2, <1>4, <1>10 DEF OpenPage, ClosePage, Poll, tables
<1> QED
  BY <1>1, <1>3, <1>5, <1>6, <1>7, <1>8, <1>9, <1>10 DEF Next, Accounts!Next

\* The handlers implement the atomic bookkeeping of FeeAccounts.
THEOREM Refinement == Spec => ImplementsFeeAccounts
<1>1. Init => Accounts!Init
  BY DEF Init, Accounts!Init, Created
<1> QED
  BY <1>1, InitIInv, NextIInv, NextRefines, PTL
     DEF Spec, ImplementsFeeAccounts, Accounts!Spec

-----------------------------------------------------------------------------
(* The encoder: numbers and shifts.                                        *)

\* Exactly one of two.
Odd(p, q) == (p /\ ~ q) \/ (~ p /\ q)

\* Exclusive or, place by place.
LEMMA XorIn == \A a, b, x : x \in Xor(a, b) <=> Odd(x \in a, x \in b)
BY DEF Xor, Odd

\* It adds no places.
LEMMA XorTyped ==
    ASSUME NEW n \in Nat, NEW a \in Numbers(n), NEW b \in Numbers(n)
    PROVE  Xor(a, b) \in Numbers(n)
BY DEF Xor, Numbers

\* Numbers are equal when they have the same ones.
LEMMA SameOnes ==
    ASSUME NEW n, NEW a \in Numbers(n), NEW b \in Numbers(n),
           \A i \in 0 .. n - 1 : i \in a <=> i \in b
    PROVE  a = b
BY DEF Numbers

\* A number of n bits has its ones below n.
LEMMA InNumbers ==
    ASSUME NEW n \in Nat, NEW a
    PROVE  a \in Numbers(n) <=> a \in SUBSET Nat /\ \A b \in a : b < n
BY DEF Numbers

\* What is shifted right, place by place.
LEMMA ShiftedRight ==
    ASSUME NEW a \in SUBSET Nat, NEW n \in Nat
    PROVE  /\ ShiftRight(a, n) \in SUBSET Nat
           /\ \A b \in Nat : b \in ShiftRight(a, n) <=> b + n \in a
BY DEF ShiftRight

\* What is shifted left, place by place.
LEMMA ShiftedLeft ==
    ASSUME NEW a \in SUBSET Nat, NEW n \in Nat
    PROVE  /\ ShiftLeft(a, n) \in SUBSET Nat
           /\ \A b \in Nat : b \in ShiftLeft(a, n) <=> b >= n /\ b - n \in a
BY DEF ShiftLeft

-----------------------------------------------------------------------------
(* The encoder: one step of the checksum.                                  *)

\* What one of the five high places of the register adds, and all of them.
Tap(chk, i) == IF 25 + i \in chk THEN Generator[i + 1] ELSE {}

Taps(chk) ==
    Xor(Tap(chk, 0), Xor(Tap(chk, 1), Xor(Tap(chk, 2), Xor(Tap(chk, 3), Tap(chk, 4)))))

\* A step adds the taps to the shifted register and the value.
LEMMA StepIs ==
    \A chk, value : PolymodStep(chk, value)
                      = Xor(Xor(ShiftLeft(Low(chk, 25), 5), value), Taps(chk))
BY DEF PolymodStep, Taps, Tap

\* They fit into the register.
LEMMA TapTyped == ASSUME NEW chk, NEW i \in 0 .. 4 PROVE Tap(chk, i) \in Numbers(30)
<1>1. \A g \in {Generator[1], Generator[2], Generator[3], Generator[4], Generator[5]} :
         g \in SUBSET (0 .. 29)
  BY DEF Generator
<1>2. Generator[i + 1] \in SUBSET (0 .. 29)
  BY <1>1
<1> QED
  BY <1>2 DEF Tap, Numbers

\* So do all five together.
LEMMA TapsTyped == ASSUME NEW chk PROVE Taps(chk) \in Numbers(30)
BY TapTyped, XorTyped DEF Taps

\* The low 25 places, moved up by five.
LEMMA ShiftedIn ==
    ASSUME NEW chk \in Numbers(30)
    PROVE  /\ ShiftLeft(Low(chk, 25), 5) \in Numbers(30)
           /\ \A b \in 0 .. 29 : b \in ShiftLeft(Low(chk, 25), 5) <=> b >= 5 /\ b - 5 \in chk
<1>1. chk \in SUBSET (0 .. 29)
  BY DEF Numbers
<1> QED
  BY <1>1 DEF ShiftLeft, Low, Numbers

\* The register keeps its 30 places.
LEMMA StepTyped ==
    ASSUME NEW chk \in Numbers(30), NEW value \in Numbers(5)
    PROVE  PolymodStep(chk, value) \in Numbers(30)
<1>1. value \in Numbers(30)
  BY DEF Numbers
<1> QED
  BY <1>1, StepIs, ShiftedIn, TapsTyped, XorTyped

\* The low five places of the taps tell which of the five high places are set.
LEMMA TapsDiffer ==
    ASSUME NEW c, NEW d, \A b \in 0 .. 4 : b \in Taps(c) <=> b \in Taps(d)
    PROVE  \A i \in 0 .. 4 : 25 + i \in c <=> 25 + i \in d
<1>1. ASSUME NEW x
      PROVE  /\ 0 \in Taps(x) <=> Odd(26 \in x, Odd(28 \in x, 29 \in x))
             /\ 1 \in Taps(x) <=> Odd(25 \in x, Odd(27 \in x, 29 \in x))
             /\ 2 \in Taps(x) <=> Odd(26 \in x, 28 \in x)
             /\ 3 \in Taps(x) <=> Odd(26 \in x, Odd(27 \in x, 28 \in x))
             /\ 4 \in Taps(x) <=> Odd(25 \in x, Odd(27 \in x, Odd(28 \in x, 29 \in x)))
  <2>1. /\ 0 \notin Tap(x, 0) /\ (0 \in Tap(x, 1) <=> 26 \in x) /\ 0 \notin Tap(x, 2)
        /\ (0 \in Tap(x, 3) <=> 28 \in x) /\ (0 \in Tap(x, 4) <=> 29 \in x)
    BY DEF Tap, Generator
  <2>2. /\ (1 \in Tap(x, 0) <=> 25 \in x) /\ 1 \notin Tap(x, 1) /\ (1 \in Tap(x, 2) <=> 27 \in x)
        /\ 1 \notin Tap(x, 3) /\ (1 \in Tap(x, 4) <=> 29 \in x)
    BY DEF Tap, Generator
  <2>3. /\ 2 \notin Tap(x, 0) /\ (2 \in Tap(x, 1) <=> 26 \in x) /\ 2 \notin Tap(x, 2)
        /\ (2 \in Tap(x, 3) <=> 28 \in x) /\ 2 \notin Tap(x, 4)
    BY DEF Tap, Generator
  <2>4. /\ 3 \notin Tap(x, 0) /\ (3 \in Tap(x, 1) <=> 26 \in x) /\ (3 \in Tap(x, 2) <=> 27 \in x)
        /\ (3 \in Tap(x, 3) <=> 28 \in x) /\ 3 \notin Tap(x, 4)
    BY DEF Tap, Generator
  <2>5. /\ (4 \in Tap(x, 0) <=> 25 \in x) /\ 4 \notin Tap(x, 1) /\ (4 \in Tap(x, 2) <=> 27 \in x)
        /\ (4 \in Tap(x, 3) <=> 28 \in x) /\ (4 \in Tap(x, 4) <=> 29 \in x)
    BY DEF Tap, Generator
  <2> QED
    BY <2>1, <2>2, <2>3, <2>4, <2>5, XorIn DEF Taps, Odd
<1>2. \A i \in 0 .. 4 : i = 0 \/ i = 1 \/ i = 2 \/ i = 3 \/ i = 4
  OBVIOUS
<1> QED
  BY <1>1, <1>2 DEF Odd

\* A step, place by place.
LEMMA StepIn ==
    ASSUME NEW chk \in Numbers(30), NEW value, NEW b \in 0 .. 29
    PROVE  b \in PolymodStep(chk, value)
             <=> Odd(Odd(b >= 5 /\ b - 5 \in chk, b \in value), b \in Taps(chk))
<1>1. b \in ShiftLeft(Low(chk, 25), 5) <=> b >= 5 /\ b - 5 \in chk
  BY ShiftedIn
<1> QED
  BY <1>1, StepIs, XorIn DEF Odd

\* Two registers that differ still differ after the same value.
LEMMA StepKeepsApart ==
    ASSUME NEW c \in Numbers(30), NEW d \in Numbers(30), NEW value \in Numbers(5),
           PolymodStep(c, value) = PolymodStep(d, value)
    PROVE  c = d
<1>1. \A b \in 0 .. 4 : b \in Taps(c) <=> b \in Taps(d)
  <2> SUFFICES ASSUME NEW b \in 0 .. 4 PROVE b \in Taps(c) <=> b \in Taps(d)
    OBVIOUS
  <2>1. b \in 0 .. 29 /\ ~ b >= 5
    OBVIOUS
  <2> QED
    BY <2>1, StepIn DEF Odd
<1>2. \A i \in 0 .. 4 : 25 + i \in c <=> 25 + i \in d
  BY <1>1, TapsDiffer
<1>3. Taps(c) = Taps(d)
  BY <1>2 DEF Taps, Tap
<1>4. \A b \in 0 .. 24 : b \in c <=> b \in d
  <2> SUFFICES ASSUME NEW b \in 0 .. 24 PROVE b \in c <=> b \in d
    OBVIOUS
  <2>1. b + 5 \in 0 .. 29 /\ b + 5 >= 5 /\ (b + 5) - 5 = b
    OBVIOUS
  <2>2. Odd(Odd(b \in c, b + 5 \in value), b + 5 \in Taps(c))
          <=> Odd(Odd(b \in d, b + 5 \in value), b + 5 \in Taps(d))
    BY <2>1, StepIn
  <2> QED
    BY <1>3, <2>2 DEF Odd
<1>5. \A b \in 0 .. 29 : b \in c <=> b \in d
  <2> SUFFICES ASSUME NEW b \in 0 .. 29, b \notin 0 .. 24 PROVE b \in c <=> b \in d
    BY <1>4
  <2>1. b - 25 \in 0 .. 4 /\ b = 25 + (b - 25)
    OBVIOUS
  <2> QED
    BY <1>2, <2>1
<1>6. \A b \in 0 .. 30 - 1 : b \in c <=> b \in d
  BY <1>5
<1> QED
  BY <1>6, SameOnes

\* Different values part two equal registers.
LEMMA StepTellsApart ==
    ASSUME NEW c \in Numbers(30), NEW v \in Numbers(5), NEW w \in Numbers(5),
           PolymodStep(c, v) = PolymodStep(c, w)
    PROVE  v = w
<1>1. \A b \in 0 .. 4 : b \in v <=> b \in w
  <2> SUFFICES ASSUME NEW b \in 0 .. 4 PROVE b \in v <=> b \in w
    OBVIOUS
  <2>1. b \in 0 .. 29
    OBVIOUS
  <2> QED
    BY <2>1, StepIn DEF Odd
<1>2. \A b \in 0 .. 5 - 1 : b \in v <=> b \in w
  BY <1>1
<1> QED
  BY <1>2, SameOnes

-----------------------------------------------------------------------------
(* The encoder: the registers of a whole sequence.                         *)

\* They start at 1 and follow the steps.
LEMMA RegistersFollow ==
    ASSUME NEW values \in Seq(Numbers(5))
    PROVE  /\ Registers(values) \in [0 .. Len(values) -> Numbers(30)]
           /\ Registers(values)[0] = {0}
           /\ \A i \in 1 .. Len(values) :
                 Registers(values)[i] = PolymodStep(Registers(values)[i - 1], values[i])
<1> DEFINE n == Len(values)
           Follows(chk) == chk = [i \in 0 .. n |->
               IF i = 0 THEN {0} ELSE PolymodStep(chk[i - 1], values[i])]
<1>1. n \in Nat /\ {0} \in Numbers(30) /\ \A i \in 1 .. n : values[i] \in Numbers(5)
  BY DEF Numbers
<1> HIDE DEF n
<1>2. \E chk : Follows(chk)
  <2> DEFINE S == Numbers(30)
             s0 == {0}
             T == [i \in 1 .. n |-> [chk \in S |-> PolymodStep(chk, values[i])]]
  <2>1. s0 \in S /\ T \in [1 .. n -> [S -> S]]
    BY <1>1, StepTyped
  <2>2. PICK f : IsHistory(f, n, S, s0, T)
    <3> HIDE DEF S, s0, T
    <3> QED
      BY <1>1, <2>1, HistoryExists
  <2>3. /\ f \in [0 .. n -> S]
        /\ f[0] = {0}
        /\ \A i \in 1 .. n : f[i] = PolymodStep(f[i - 1], values[i])
    <3>1. f \in [0 .. n -> S] /\ f[0] = {0} /\ \A i \in 1 .. n : f[i] = T[i][f[i - 1]]
      BY <2>2 DEF IsHistory
    <3>2. ASSUME NEW i \in 1 .. n
          PROVE  f[i] = PolymodStep(f[i - 1], values[i])
      <4>1. f[i - 1] \in S
        BY <1>1, <3>1
      <4> HIDE DEF S
      <4> QED
        BY <3>1, <4>1
    <3> QED
      BY <3>1, <3>2
  <2>4. \A i \in 0 .. n : i = 0 \/ i \in 1 .. n
    BY <1>1
  <2>5. \A i \in 0 .. n : f[i] = IF i = 0 THEN {0} ELSE PolymodStep(f[i - 1], values[i])
    BY <2>3, <2>4
  <2>6. f = [i \in 0 .. n |-> f[i]]
    BY <2>3
  <2>7. Follows(f)
    BY <2>5, <2>6
  <2> QED
    BY <2>7
<1>3. Registers(values) = CHOOSE chk : Follows(chk)
  BY DEF Registers, n
<1>4. Follows(Registers(values))
  <2> HIDE DEF Follows
  <2> QED
    BY <1>2, <1>3
<1> DEFINE r == Registers(values)
<1> HIDE DEF r
<1>5. /\ r[0] = {0}
      /\ \A i \in 1 .. n : r[i] = PolymodStep(r[i - 1], values[i])
      /\ r = [i \in 0 .. n |-> r[i]]
  <2>1. r = [i \in 0 .. n |-> IF i = 0 THEN {0} ELSE PolymodStep(r[i - 1], values[i])]
    BY <1>4 DEF r
  <2>2. \A i \in 1 .. n : i \in 0 .. n /\ i # 0
    BY <1>1
  <2>3. 0 \in 0 .. n
    BY <1>1
  <2>4. \A i \in 0 .. n : r[i] = IF i = 0 THEN {0} ELSE PolymodStep(r[i - 1], values[i])
    BY <2>1, Zenon
  <2>5. r = [i \in 0 .. n |-> r[i]]
    BY <2>1, <2>4, Zenon
  <2> QED
    BY <2>2, <2>3, <2>4, <2>5
<1> DEFINE Good == {i \in 0 .. n : r[i] \in Numbers(30)}
<1>6. 0 \in Good
  <2>1. 0 \in 0 .. n
    BY <1>1
  <2> QED
    BY <1>1, <1>5, <2>1
<1>7. ASSUME NEW i \in 0 .. n, i # 0, i - 1 \in Good
      PROVE  i \in Good
  <2>1. i \in 1 .. n
    BY <1>1, <1>7
  <2>2. r[i - 1] \in Numbers(30) /\ values[i] \in Numbers(5)
    BY <1>1, <1>7, <2>1
  <2>3. PolymodStep(r[i - 1], values[i]) \in Numbers(30)
    BY <2>2, StepTyped
  <2> QED
    BY <1>5, <2>1, <2>3
<1>8. 0 .. n \subseteq Good
  <2> HIDE DEF Good
  <2> QED
    BY <1>1, <1>6, <1>7, CountingUp
<1> QED
  BY <1>5, <1>8 DEF n, r

\* Sequences that agree so far have the same registers so far.
LEMMA SameSoFar ==
    ASSUME NEW v \in Seq(Numbers(5)), NEW w \in Seq(Numbers(5)), NEW k \in Nat,
           k <= Len(v), k <= Len(w), \A i \in 1 .. k : v[i] = w[i]
    PROVE  Registers(v)[k] = Registers(w)[k]
<1> DEFINE Good == {i \in 0 .. k : Registers(v)[i] = Registers(w)[i]}
<1>1. 0 \in Good
  <2>1. Registers(v)[0] = {0} /\ Registers(w)[0] = {0}
    BY RegistersFollow
  <2>2. 0 \in 0 .. k
    OBVIOUS
  <2> QED
    BY <2>1, <2>2
<1>2. ASSUME NEW i \in 0 .. k, i # 0, i - 1 \in Good
      PROVE  i \in Good
  <2>1. i \in 1 .. k /\ i \in 1 .. Len(v) /\ i \in 1 .. Len(w)
    BY <1>2
  <2> QED
    BY <1>2, <2>1, RegistersFollow
<1>3. 0 .. k \subseteq Good
  <2> HIDE DEF Good
  <2> QED
    BY <1>1, <1>2, CountingUp
<1> QED
  BY <1>3

\* Registers that differ at one place differ at the end, when the same values
\* follow.
LEMMA DifferToTheEnd ==
    ASSUME NEW v \in Seq(Numbers(5)), NEW w \in Seq(Numbers(5)), Len(v) = Len(w),
           NEW k \in 0 .. Len(v), Registers(v)[k] # Registers(w)[k],
           \A i \in (k + 1) .. Len(v) : v[i] = w[i]
    PROVE  Polymod(v) # Polymod(w)
<1> DEFINE n == Len(v)
           Good == {i \in 0 .. n : i >= k => Registers(v)[i] # Registers(w)[i]}
<1>1. n \in Nat /\ k \in 0 .. n
  OBVIOUS
<1>2. 0 \in Good
  BY <1>1
<1>3. ASSUME NEW i \in 0 .. n, i # 0, i - 1 \in Good
      PROVE  i \in Good
  <2>1. CASE i <= k
    BY <1>1, <2>1
  <2>2. CASE i > k
    <3>1. i \in (k + 1) .. Len(v) /\ i \in 1 .. Len(v) /\ i - 1 \in 0 .. Len(v) /\ i - 1 >= k
      BY <1>1, <1>3, <2>2
    <3>2. Registers(v)[i - 1] # Registers(w)[i - 1]
      BY <1>3, <3>1
    <3>3. v[i] \in Numbers(5) /\ v[i] = w[i]
      BY <3>1
    <3> QED
      BY <3>1, <3>2, <3>3, RegistersFollow, StepKeepsApart
  <2> QED
    BY <1>1, <2>1, <2>2
<1>4. 0 .. n \subseteq Good
  <2> HIDE DEF Good, n
  <2> QED
    BY <1>1, <1>2, <1>3, CountingUp
<1>5. n \in 0 .. n /\ n >= k
  BY <1>1
<1> QED
  BY <1>4, <1>5 DEF Polymod

\* One wrong value changes the checksum.
LEMMA OneWrong ==
    ASSUME NEW v \in Seq(Numbers(5)), NEW w \in Seq(Numbers(5)), Len(v) = Len(w),
           NEW i \in 1 .. Len(v), v[i] # w[i], \A j \in 1 .. Len(v) : j # i => v[j] = w[j]
    PROVE  Polymod(v) # Polymod(w)
<1>1. i - 1 \in Nat /\ i - 1 <= Len(v) /\ \A j \in 1 .. i - 1 : v[j] = w[j]
  OBVIOUS
<1>2. Registers(v)[i - 1] = Registers(w)[i - 1]
  BY <1>1, SameSoFar
<1>3. Registers(v)[i] # Registers(w)[i]
  <2>1. Registers(v)[i - 1] \in Numbers(30)
    <3>1. i - 1 \in 0 .. Len(v)
      OBVIOUS
    <3> QED
      BY <3>1, RegistersFollow
  <2>2. v[i] \in Numbers(5) /\ w[i] \in Numbers(5)
    OBVIOUS
  <2> QED
    BY <1>2, <2>1, <2>2, RegistersFollow, StepTellsApart
<1>4. i \in 0 .. Len(v) /\ \A j \in (i + 1) .. Len(v) : v[j] = w[j]
  OBVIOUS
<1> QED
  BY <1>3, <1>4, DifferToTheEnd

\* Two values taken in either order leave different registers: the high places
\* after the first do not depend on it, so the taps of the second do not either,
\* and places 5 to 9 keep the first.
LEMMA StepsTellOrder ==
    ASSUME NEW c \in Numbers(30), NEW a \in Numbers(5), NEW b \in Numbers(5),
           PolymodStep(PolymodStep(c, a), b) = PolymodStep(PolymodStep(c, b), a)
    PROVE  a = b
<1> DEFINE ca == PolymodStep(c, a)
           cb == PolymodStep(c, b)
<1>1. ca \in Numbers(30) /\ cb \in Numbers(30)
  BY StepTyped
<1>2. \A j \in 5 .. 29 : j \in ca <=> j \in cb
  <2> SUFFICES ASSUME NEW j \in 5 .. 29 PROVE j \in ca <=> j \in cb
    OBVIOUS
  <2>1. j \in 0 .. 29 /\ j \notin a /\ j \notin b
    BY DEF Numbers
  <2> QED
    BY <2>1, StepIn DEF Odd
<1>3. \A i \in 0 .. 4 : 25 + i \in ca <=> 25 + i \in cb
  BY <1>2
<1> HIDE DEF ca, cb
<1>4. Taps(ca) = Taps(cb)
  BY <1>3 DEF Taps, Tap
<1>5. \A j \in 0 .. 4 : j \in ca <=> j \in cb
  <2> SUFFICES ASSUME NEW j \in 0 .. 4 PROVE j \in ca <=> j \in cb
    OBVIOUS
  <2>1. j + 5 \in 0 .. 29 /\ j + 5 >= 5 /\ (j + 5) - 5 = j /\ j + 5 \notin a /\ j + 5 \notin b
    BY DEF Numbers
  <2>2. j + 5 \in PolymodStep(ca, b) <=> j + 5 \in PolymodStep(cb, a)
    BY DEF ca, cb
  <2> QED
    BY <1>1, <1>4, <2>1, <2>2, StepIn DEF Odd
<1>6. ca = cb
  <2>1. \A j \in 0 .. 30 - 1 : j \in 0 .. 4 \/ j \in 5 .. 29
    OBVIOUS
  <2>2. \A j \in 0 .. 30 - 1 : j \in ca <=> j \in cb
    BY <1>2, <1>5, <2>1
  <2> QED
    BY <1>1, <2>2, SameOnes
<1> QED
  BY <1>6, StepTellsApart DEF ca, cb

\* Two different neighbours the wrong way round change the checksum.
LEMMA TwoSwapped ==
    ASSUME NEW v \in Seq(Numbers(5)), NEW w \in Seq(Numbers(5)), Len(v) = Len(w),
           NEW i \in 1 .. Len(v) - 1, v[i] # v[i + 1], w[i] = v[i + 1], w[i + 1] = v[i],
           \A j \in 1 .. Len(v) : j # i /\ j # i + 1 => v[j] = w[j]
    PROVE  Polymod(v) # Polymod(w)
<1>1. i - 1 \in Nat /\ i - 1 <= Len(v) /\ \A j \in 1 .. i - 1 : v[j] = w[j]
  OBVIOUS
<1>2. Registers(v)[i - 1] = Registers(w)[i - 1]
  BY <1>1, SameSoFar
<1> DEFINE c == Registers(v)[i - 1]
<1>3. /\ i - 1 \in 0 .. Len(v) /\ i \in 1 .. Len(v) /\ i + 1 \in 1 .. Len(v)
      /\ (i + 1) - 1 = i /\ v[i] \in Numbers(5) /\ v[i + 1] \in Numbers(5)
  OBVIOUS
<1>4. c \in Numbers(30)
  BY <1>3, RegistersFollow
<1>5. Registers(v)[i + 1] = PolymodStep(PolymodStep(c, v[i]), v[i + 1])
  BY <1>3, RegistersFollow
<1>6. Registers(w)[i + 1] = PolymodStep(PolymodStep(c, v[i + 1]), v[i])
  BY <1>2, <1>3, RegistersFollow
<1>7. Registers(v)[i + 1] # Registers(w)[i + 1]
  <2> HIDE DEF c
  <2> QED
    BY <1>3, <1>4, <1>5, <1>6, StepsTellOrder
<1>8. i + 1 \in 0 .. Len(v) /\ \A j \in ((i + 1) + 1) .. Len(v) : v[j] = w[j]
  OBVIOUS
<1> QED
  BY <1>7, <1>8, DifferToTheEnd

\* Ones at places that no tap looks at pass through a step.
LEMMA StepPasses ==
    ASSUME NEW z \in Numbers(30), NEW q \in Numbers(25), NEW p \in Numbers(5)
    PROVE  PolymodStep(Xor(z, q), p)
             = Xor(PolymodStep(z, {}), ShiftLeft(q, 5) \union p)
<1> DEFINE c == Xor(z, q)
           r == ShiftLeft(q, 5) \union p
           e == {}
<1>1. q \in Numbers(30) /\ e \in Numbers(5) /\ q \in SUBSET (0 .. 24) /\ p \in SUBSET (0 .. 4)
  BY DEF Numbers
<1>2. c \in Numbers(30)
  BY <1>1, XorTyped
<1>3. r \in Numbers(30)
  <2>1. /\ ShiftLeft(q, 5) \in SUBSET Nat
        /\ \A b \in Nat : b \in ShiftLeft(q, 5) <=> b >= 5 /\ b - 5 \in q
    BY <1>1, ShiftedLeft
  <2>2. \A b \in p : b \in Nat /\ b < 5
    BY InNumbers
  <2>3. \A b \in q : b \in Nat /\ b < 25
    BY InNumbers
  <2>4. \A b \in ShiftLeft(q, 5) : b \in Nat /\ b < 30
    BY <2>1, <2>3
  <2>5. \A b \in r : b \in Nat /\ b < 30
    BY <2>2, <2>4
  <2> HIDE DEF r
  <2> QED
    BY <2>5, InNumbers
<1>4. Taps(c) = Taps(z)
  <2>1. \A i \in 0 .. 4 : 25 + i \notin q
    BY <1>1
  <2>2. \A i \in 0 .. 4 : 25 + i \in c <=> 25 + i \in z
    BY <2>1, XorIn DEF Odd
  <2> QED
    BY <2>2 DEF Taps, Tap
<1>5. PolymodStep(c, p) \in Numbers(30) /\ Xor(PolymodStep(z, e), r) \in Numbers(30)
  BY <1>1, <1>2, <1>3, StepTyped, XorTyped
<1>6. \A b \in 0 .. 30 - 1 : b \in PolymodStep(c, p) <=> b \in Xor(PolymodStep(z, e), r)
  <2> SUFFICES ASSUME NEW b \in 0 .. 29
               PROVE  b \in PolymodStep(c, p) <=> b \in Xor(PolymodStep(z, e), r)
    OBVIOUS
  <2>1. b \in r <=> Odd(b >= 5 /\ b - 5 \in q, b \in p)
    <3>1. b \in ShiftLeft(q, 5) <=> b >= 5 /\ b - 5 \in q
      BY <1>1, ShiftedLeft
    <3>2. ~ (b >= 5 /\ b \in p)
      BY <1>1
    <3> QED
      BY <3>1, <3>2 DEF Odd
  <2>2. b \in PolymodStep(c, p)
          <=> Odd(Odd(b >= 5 /\ b - 5 \in c, b \in p), b \in Taps(c))
    BY <1>2, StepIn
  <2>3. b \in PolymodStep(z, e)
          <=> Odd(Odd(b >= 5 /\ b - 5 \in z, b \in e), b \in Taps(z))
    BY StepIn
  <2>4. b \notin e
    OBVIOUS
  <2>5. b - 5 \in c <=> Odd(b - 5 \in z, b - 5 \in q)
    BY XorIn
  <2>6. b \in Xor(PolymodStep(z, e), r) <=> Odd(b \in PolymodStep(z, e), b \in r)
    BY XorIn
  <2> HIDE DEF c, r, e
  <2> QED
    BY <1>4, <2>1, <2>2, <2>3, <2>4, <2>5, <2>6 DEF Odd
<1> HIDE DEF c, r, e
<1>7. PolymodStep(c, p) = Xor(PolymodStep(z, e), r)
  BY <1>5, <1>6, SameOnes
<1> QED
  BY <1>7 DEF c, r, e

\* Two sequences, one behind the other.
LEMMA Joined ==
    ASSUME NEW S, NEW a \in Seq(S), NEW b \in Seq(S)
    PROVE  /\ a \o b \in Seq(S) /\ Len(a) \in Nat /\ Len(b) \in Nat
           /\ Len(a \o b) = Len(a) + Len(b)
           /\ \A i \in 1 .. Len(a) : (a \o b)[i] = a[i]
           /\ \A i \in 1 .. Len(b) : (a \o b)[Len(a) + i] = b[i]
OBVIOUS

\* What follows a sequence does not change its registers.
LEMMA SameBefore ==
    ASSUME NEW u \in Seq(Numbers(5)), NEW s \in Seq(Numbers(5))
    PROVE  /\ u \o s \in Seq(Numbers(5))
           /\ Len(u \o s) = Len(u) + Len(s)
           /\ Registers(u \o s)[Len(u)] = Polymod(u)
           /\ \A k \in 1 .. Len(s) :
                 Registers(u \o s)[Len(u) + k]
                   = PolymodStep(Registers(u \o s)[Len(u) + (k - 1)], s[k])
<1> DEFINE v == u \o s
<1>1. v \in Seq(Numbers(5)) /\ Len(v) = Len(u) + Len(s)
  OBVIOUS
<1>2. /\ Len(u) \in Nat /\ Len(u) <= Len(u) /\ Len(u) <= Len(v)
      /\ \A i \in 1 .. Len(u) : v[i] = u[i]
  OBVIOUS
<1>3. \A k \in 1 .. Len(s) : Len(u) + k \in 1 .. Len(v) /\ v[Len(u) + k] = s[k]
  OBVIOUS
<1> HIDE DEF v
<1>4. Registers(v)[Len(u)] = Registers(u)[Len(u)]
  BY <1>1, <1>2, SameSoFar
<1>5. ASSUME NEW k \in 1 .. Len(s)
      PROVE  Registers(v)[Len(u) + k] = PolymodStep(Registers(v)[Len(u) + (k - 1)], s[k])
  <2>1. (Len(u) + k) - 1 = Len(u) + (k - 1)
    BY <1>2
  <2> QED
    BY <1>1, <1>3, <2>1, RegistersFollow
<1> QED
  BY <1>1, <1>4, <1>5 DEF v, Polymod

\* What create_checksum puts in the place of the checksum.
Zeros == <<{}, {}, {}, {}, {}, {}>>

\* The six groups of a number.
SixGroups(x) == [i \in 1 .. 6 |-> Low(ShiftRight(x, 5 * (6 - i)), 5)]

\* A sequence followed by the checksum made from it is valid.
LEMMA ChecksumHolds ==
    ASSUME NEW u \in Seq(Numbers(5))
    PROVE  /\ SixGroups(Xor(Polymod(u \o Zeros), {0})) \in Seq(Numbers(5))
           /\ Polymod(u \o SixGroups(Xor(Polymod(u \o Zeros), {0}))) = {0}
<1> DEFINE x == Xor(Polymod(u \o Zeros), {0})
           s == SixGroups(x)
           n == Len(u)
           rz == Registers(u \o Zeros)
           rs == Registers(u \o s)
           one == {0}
<1>1. Zeros \in Seq(Numbers(5)) /\ Len(Zeros) = 6 /\ \A k \in 1 .. 6 : Zeros[k] = {}
  BY DEF Zeros, Numbers
<1>2. u \o Zeros \in Seq(Numbers(5)) /\ Len(u \o Zeros) = n + 6 /\ n \in Nat
  <2>1. Len(u \o Zeros) = Len(u) + Len(Zeros) /\ u \o Zeros \in Seq(Numbers(5))
    BY <1>1, SameBefore
  <2>2. Len(u) \in Nat
    OBVIOUS
  <2> QED
    BY <1>1, <2>1, <2>2
<1>3. rz \in [0 .. n + 6 -> Numbers(30)] /\ Polymod(u \o Zeros) = rz[n + 6]
  BY <1>2, RegistersFollow DEF Polymod
<1>4. one \in Numbers(30)
  BY DEF Numbers
<1>5. x \in Numbers(30) /\ x \in SUBSET Nat
  <2>1. n + 6 \in 0 .. n + 6
    BY <1>2
  <2>2. x \in Numbers(30)
    BY <1>3, <1>4, <2>1, XorTyped
  <2> QED
    BY <2>2, InNumbers
<1> HIDE DEF x
<1>6. \A k \in 1 .. 6 : s[k] = Low(ShiftRight(x, 30 - 5 * k), 5) /\ s[k] \in Numbers(5)
  <2> SUFFICES ASSUME NEW k \in 1 .. 6
               PROVE  s[k] = Low(ShiftRight(x, 30 - 5 * k), 5) /\ s[k] \in Numbers(5)
    OBVIOUS
  <2>1. 5 * (6 - k) = 30 - 5 * k /\ 30 - 5 * k \in Nat
    OBVIOUS
  <2>2. s[k] = Low(ShiftRight(x, 30 - 5 * k), 5)
    BY <2>1 DEF SixGroups
  <2>3. ShiftRight(x, 30 - 5 * k) \in SUBSET Nat
    BY <1>5, <2>1, ShiftedRight
  <2> QED
    BY <2>2, <2>3 DEF Low, Numbers
<1>7. s \in Seq(Numbers(5)) /\ Len(s) = 6
  <2>1. s \in [1 .. 6 -> Numbers(5)]
    BY <1>6 DEF SixGroups
  <2> HIDE DEF s
  <2>2. s = [i \in 1 .. 6 |-> s[i]] /\ \A i \in 1 .. 6 : s[i] \in Numbers(5)
    BY <2>1
  <2>3. [i \in 1 .. 6 |-> s[i]] \in Seq(Numbers(5))
    BY <2>2
  <2>4. Len([i \in 1 .. 6 |-> s[i]]) = 6
    OBVIOUS
  <2> QED
    BY <2>2, <2>3, <2>4
<1> HIDE DEF s
<1> DEFINE q(k) == ShiftRight(x, 30 - 5 * k)
<1>8. \A k \in 0 .. 5 : q(k) \in Numbers(25)
  <2> SUFFICES ASSUME NEW k \in 0 .. 5 PROVE q(k) \in Numbers(25)
    OBVIOUS
  <2> DEFINE m == 30 - 5 * k
             r == ShiftRight(x, m)
  <2>1. m \in Nat /\ m >= 5
    OBVIOUS
  <2> HIDE DEF m
  <2>2. r \in SUBSET Nat /\ \A b \in Nat : b \in r => b + m \in x
    BY <1>5, <2>1, ShiftedRight
  <2>3. \A b \in x : b < 30
    BY <1>5, InNumbers
  <2>4. ASSUME NEW b \in r PROVE b < 25
    <3>1. b \in Nat /\ b + m < 30
      BY <2>2, <2>3
    <3> QED
      BY <2>1, <3>1
  <2> HIDE DEF r
  <2>5. r \in Numbers(25)
    BY <2>2, <2>4, InNumbers
  <2> QED
    BY <2>5 DEF r, m
<1>9. ASSUME NEW k \in 1 .. 6
      PROVE  ShiftLeft(q(k - 1), 5) \union s[k] = q(k)
  <2>1. 30 - 5 * k \in Nat /\ 30 - 5 * (k - 1) = (30 - 5 * k) + 5 /\ (30 - 5 * k) + 5 \in Nat
    OBVIOUS
  <2> DEFINE m == 30 - 5 * k
  <2> HIDE DEF m
  <2>2. q(k) \in SUBSET Nat /\ \A b \in Nat : b \in q(k) <=> b + m \in x
    BY <1>5, <2>1, ShiftedRight DEF m
  <2>3. q(k - 1) \in SUBSET Nat /\ \A b \in Nat : b \in q(k - 1) <=> b + (m + 5) \in x
    BY <1>5, <2>1, ShiftedRight DEF m
  <2>4. s[k] = Low(q(k), 5)
    BY <1>6
  <2> DEFINE p == q(k)
             p1 == q(k - 1)
  <2> HIDE DEF q, p, p1
  <2>5. /\ ShiftLeft(p1, 5) \in SUBSET Nat
        /\ \A b \in Nat : b \in ShiftLeft(p1, 5) <=> b >= 5 /\ b - 5 \in p1
    BY <2>3, ShiftedLeft DEF p1
  <2>6. ASSUME NEW b \in Nat
        PROVE  b \in ShiftLeft(p1, 5) \union s[k] <=> b \in p
    <3>1. CASE b < 5
      BY <2>4, <2>5, <3>1 DEF Low, p
    <3>2. CASE b >= 5
      <4>1. b - 5 \in Nat /\ (b - 5) + (m + 5) = b + m
        BY <2>1, <3>2 DEF m
      <4>2. b - 5 \in p1 <=> b \in p
        BY <2>2, <2>3, <4>1 DEF p, p1
      <4>3. b \notin s[k]
        BY <2>4, <3>2 DEF Low
      <4> QED
        BY <2>5, <3>2, <4>2, <4>3
    <3> QED
      BY <3>1, <3>2
  <2>7. s[k] \in SUBSET Nat /\ p \in SUBSET Nat
    BY <2>2, <2>4 DEF Low, p
  <2> QED
    BY <2>5, <2>6, <2>7 DEF p, p1
<1> DEFINE Good == {k \in 0 .. 6 : rs[n + k] = Xor(rz[n + k], q(k))}
<1>10. 0 \in Good
  <2>1. q(0) = {}
    <3>1. \A b \in Nat : b + 30 \notin x
      BY <1>5 DEF Numbers
    <3>2. 30 - 5 * 0 = 30
      OBVIOUS
    <3> QED
      BY <1>5, <3>1, <3>2, ShiftedRight
  <2>2. \A a : Xor(a, {}) = a
    BY DEF Xor
  <2>3. n + 0 = n
    BY <1>2
  <2>4. rs[n] = rz[n]
    BY <1>1, <1>7, SameBefore
  <2>5. rs[n + 0] = Xor(rz[n + 0], q(0))
    BY <2>1, <2>2, <2>3, <2>4
  <2> HIDE DEF q
  <2> QED
    BY <2>5
<1>11. ASSUME NEW k \in 0 .. 6, k # 0, k - 1 \in Good
       PROVE  k \in Good
  <2>1. k \in 1 .. 6 /\ k - 1 \in 0 .. 5 /\ n + (k - 1) \in 0 .. n + 6
    BY <1>2, <1>11
  <2> DEFINE z == rz[n + (k - 1)]
  <2>2. z \in Numbers(30) /\ s[k] \in Numbers(5) /\ q(k - 1) \in Numbers(25)
    BY <1>3, <1>6, <1>8, <2>1
  <2>3. rz[n + k] = PolymodStep(z, {})
    <3>1. k \in 1 .. Len(Zeros) /\ Zeros[k] = {}
      BY <1>1, <2>1
    <3>2. rz[n + k] = PolymodStep(z, Zeros[k])
      BY <1>1, <3>1, SameBefore
    <3> QED
      BY <3>1, <3>2
  <2>4. rs[n + k] = PolymodStep(rs[n + (k - 1)], s[k])
    BY <1>7, <2>1, SameBefore
  <2>5. rs[n + (k - 1)] = Xor(z, q(k - 1))
    BY <1>11
  <2>6. PolymodStep(Xor(z, q(k - 1)), s[k])
          = Xor(PolymodStep(z, {}), ShiftLeft(q(k - 1), 5) \union s[k])
    <3> HIDE DEF z, q
    <3> QED
      BY <2>2, StepPasses
  <2>7. ShiftLeft(q(k - 1), 5) \union s[k] = q(k)
    BY <1>9, <2>1
  <2> HIDE DEF z, q, rs, rz
  <2> QED
    BY <2>3, <2>4, <2>5, <2>6, <2>7
<1>12. 6 \in Good
  <2> HIDE DEF Good
  <2>1. 6 \in Nat /\ 6 \in 0 .. 6
    OBVIOUS
  <2> QED
    BY <1>10, <1>11, <2>1, CountingUp
<1>13. q(6) = x
  <2>1. 30 - 5 * 6 = 0 /\ \A b \in Nat : b + 0 = b
    OBVIOUS
  <2>2. \A b \in Nat : b \in ShiftRight(x, 0) <=> b \in x
    BY <1>5, <2>1, ShiftedRight
  <2>3. ShiftRight(x, 0) \in SUBSET Nat
    BY <1>5, ShiftedRight
  <2> QED
    BY <1>5, <2>1, <2>2, <2>3
<1>14. Xor(rz[n + 6], x) = {0}
  BY <1>3 DEF x, Xor
<1>15. Polymod(u \o s) = rs[n + 6]
  <2>1. Len(u \o s) = Len(u) + Len(s)
    BY <1>7, Joined
  <2> QED
    BY <1>7, <2>1 DEF Polymod
<1> HIDE DEF q
<1> QED
  BY <1>7, <1>12, <1>13, <1>14, <1>15 DEF s, x

-----------------------------------------------------------------------------
(* The encoder: regrouping bits (_convertbits).                            *)

\* A place of a number, counted as a bit of the sequence.
LEMMA BitOf ==
    ASSUME NEW f \in {5, 8}, NEW data, NEW i \in Nat \ {0}, NEW j \in 0 .. f - 1
    PROVE  /\ f * i - 1 - j \in Nat
           /\ Bit(data, f, f * i - 1 - j) <=> j \in data[i]
<1>1. CASE f = 5
  <2>1. /\ 5 * i - 1 - j \in Nat /\ (5 * i - 1 - j) \div 5 = i - 1
        /\ (5 * i - 1 - j) % 5 = 4 - j /\ (i - 1) + 1 = i /\ 5 - 1 - (4 - j) = j
    BY <1>1
  <2> QED
    BY <1>1, <2>1 DEF Bit
<1>2. CASE f = 8
  <2>1. /\ 8 * i - 1 - j \in Nat /\ (8 * i - 1 - j) \div 8 = i - 1
        /\ (8 * i - 1 - j) % 8 = 7 - j /\ (i - 1) + 1 = i /\ 8 - 1 - (7 - j) = j
    BY <1>2
  <2> QED
    BY <1>2, <2>1 DEF Bit
<1> QED
  BY <1>1, <1>2

\* The bits a group count takes, and those left over.
LEMMA Divided ==
    ASSUME NEW t \in {5, 8}, NEW n \in Nat
    PROVE  /\ n \div t \in Nat /\ n % t \in 0 .. t - 1
           /\ t * (n \div t) + (n % t) = n
           /\ \A k \in 1 .. n \div t : k * t <= n /\ n - k * t \in Nat
<1>1. CASE t = 5
  BY <1>1
<1>2. CASE t = 8
  BY <1>2
<1> QED
  BY <1>1, <1>2

\* The body of the loop.
Take(state, value, f, t) ==
    LET acc  == Low(ShiftLeft(state.acc, f) \union value, f + t - 1)
        bits == state.bits + f
    IN  [acc |-> acc, bits |-> bits % t, ret |-> state.ret \o Groups(acc, bits, t)]

\* The loop's locals.
States == [acc : SUBSET Nat, bits : Nat, ret : Seq(SUBSET Nat)]

\* The groups of one value, place by place.
LEMMA GroupsTyped ==
    ASSUME NEW t \in {5, 8}, NEW acc \in SUBSET Nat, NEW bits \in Nat
    PROVE  /\ Groups(acc, bits, t) \in Seq(Numbers(t))
           /\ Len(Groups(acc, bits, t)) = bits \div t
           /\ \A k \in 1 .. bits \div t :
                 /\ bits - k * t \in Nat
                 /\ \A j \in 0 .. t - 1 :
                       j \in Groups(acc, bits, t)[k] <=> j + (bits - k * t) \in acc
<1> DEFINE c == bits \div t
           g == Groups(acc, bits, t)
<1>1. c \in Nat /\ \A k \in 1 .. c : bits - k * t \in Nat
  BY Divided
<1>2. t \in Nat
  OBVIOUS
<1>3. g = [k \in 1 .. c |-> Low(ShiftRight(acc, bits - k * t), t)]
  BY DEF Groups
<1> HIDE DEF c, g
<1>4. ASSUME NEW k \in 1 .. c
      PROVE  /\ g[k] \in Numbers(t)
             /\ \A j \in 0 .. t - 1 : j \in g[k] <=> j + (bits - k * t) \in acc
  <2> DEFINE m == bits - k * t
             r == ShiftRight(acc, m)
  <2>1. m \in Nat
    BY <1>1
  <2>2. g[k] = Low(r, t)
    BY <1>3
  <2> HIDE DEF m
  <2>3. r \in SUBSET Nat /\ \A b \in Nat : b \in r <=> b + m \in acc
    BY <2>1, ShiftedRight
  <2> HIDE DEF r
  <2>4. Low(r, t) \in SUBSET Nat /\ \A b \in Low(r, t) : b < t
    BY <2>3 DEF Low
  <2>5. Low(r, t) \in Numbers(t)
    BY <1>2, <2>4, InNumbers
  <2>6. \A j \in 0 .. t - 1 : j \in Low(r, t) <=> j + m \in acc
    BY <1>2, <2>3 DEF Low
  <2> QED
    BY <2>2, <2>5, <2>6 DEF m
<1>5. g \in Seq(Numbers(t)) /\ Len(g) = c
  <2>1. g = [k \in 1 .. c |-> g[k]] /\ \A k \in 1 .. c : g[k] \in Numbers(t)
    BY <1>3, <1>4
  <2>2. [k \in 1 .. c |-> g[k]] \in Seq(Numbers(t))
    BY <1>1, <2>1
  <2>3. Len([k \in 1 .. c |-> g[k]]) = c
    BY <1>1
  <2> QED
    BY <2>1, <2>2, <2>3
<1> QED
  BY <1>1, <1>4, <1>5 DEF g, c

\* The locals keep their types.
LEMMA TakeTyped ==
    ASSUME NEW f \in {5, 8}, NEW t \in {5, 8}, NEW state \in States, NEW value \in SUBSET Nat
    PROVE  Take(state, value, f, t) \in States
<1> DEFINE acc == Low(ShiftLeft(state.acc, f) \union value, f + t - 1)
           bits == state.bits + f
<1>1. state.acc \in SUBSET Nat /\ state.bits \in Nat /\ state.ret \in Seq(SUBSET Nat) /\ f \in Nat
  BY DEF States
<1>2. acc \in SUBSET Nat
  BY <1>1, ShiftedLeft DEF Low
<1>3. bits \in Nat
  BY <1>1
<1> HIDE DEF acc, bits
<1>4. bits % t \in Nat
  BY <1>3, Divided
<1>5. Groups(acc, bits, t) \in Seq(SUBSET Nat)
  <2>1. Groups(acc, bits, t) \in Seq(Numbers(t))
    BY <1>2, <1>3, GroupsTyped
  <2>2. Numbers(t) \subseteq SUBSET Nat
    BY InNumbers
  <2> QED
    BY <2>1, <2>2
<1>6. state.ret \o Groups(acc, bits, t) \in Seq(SUBSET Nat)
  BY <1>1, <1>5
<1> QED
  BY <1>2, <1>4, <1>6 DEF Take, States, acc, bits

\* The loop starts with nothing and takes one value after the other.
LEMMA RegroupedFollows ==
    ASSUME NEW f \in {5, 8}, NEW t \in {5, 8}, NEW data \in Seq(Numbers(f))
    PROVE  /\ \A i \in 0 .. Len(data) : Regrouped(data, f, t)[i] \in States
           /\ Regrouped(data, f, t)[0] = [acc |-> {}, bits |-> 0, ret |-> <<>>]
           /\ \A i \in 1 .. Len(data) :
                 Regrouped(data, f, t)[i] = Take(Regrouped(data, f, t)[i - 1], data[i], f, t)
<1> DEFINE n == Len(data)
           s0 == [acc |-> {}, bits |-> 0, ret |-> <<>>]
           Follows(h) == h = [i \in 0 .. n |-> IF i = 0 THEN s0 ELSE Take(h[i - 1], data[i], f, t)]
<1>1. n \in Nat /\ \A i \in 1 .. n : data[i] \in SUBSET Nat
  <2>1. n \in Nat /\ f \in Nat /\ \A i \in 1 .. n : data[i] \in Numbers(f)
    OBVIOUS
  <2> QED
    BY <2>1, InNumbers
<1>2. s0 \in States
  BY DEF States
<1>3. Regrouped(data, f, t) = CHOOSE h : Follows(h)
  BY DEF Regrouped, Take
<1> HIDE DEF n, s0
<1>4. \E h : Follows(h)
  <2> DEFINE T == [i \in 1 .. n |-> [state \in States |-> Take(state, data[i], f, t)]]
  <2>1. T \in [1 .. n -> [States -> States]]
    BY <1>1, TakeTyped
  <2>2. PICK h : IsHistory(h, n, States, s0, T)
    <3> HIDE DEF T
    <3> QED
      BY <1>1, <1>2, <2>1, HistoryExists
  <2>3. h \in [0 .. n -> States] /\ h[0] = s0 /\ \A i \in 1 .. n : h[i] = T[i][h[i - 1]]
    BY <2>2 DEF IsHistory
  <2>4. ASSUME NEW i \in 1 .. n
        PROVE  h[i] = Take(h[i - 1], data[i], f, t)
    <3>1. h[i - 1] \in States
      BY <1>1, <2>3
    <3> QED
      BY <2>3, <3>1
  <2>5. \A i \in 0 .. n : i = 0 \/ i \in 1 .. n
    BY <1>1
  <2>6. \A i \in 0 .. n : h[i] = IF i = 0 THEN s0 ELSE Take(h[i - 1], data[i], f, t)
    BY <2>3, <2>4, <2>5
  <2>7. h = [i \in 0 .. n |-> h[i]]
    BY <2>3
  <2>8. Follows(h)
    BY <2>6, <2>7
  <2> QED
    BY <2>8
<1> DEFINE r == Regrouped(data, f, t)
<1>5. Follows(r)
  <2> HIDE DEF Follows
  <2> QED
    BY <1>3, <1>4
<1> HIDE DEF r
<1>6. r[0] = s0 /\ \A i \in 1 .. n : r[i] = Take(r[i - 1], data[i], f, t)
  <2>1. r = [i \in 0 .. n |-> IF i = 0 THEN s0 ELSE Take(r[i - 1], data[i], f, t)]
    BY <1>5
  <2>2. \A i \in 0 .. n : r[i] = IF i = 0 THEN s0 ELSE Take(r[i - 1], data[i], f, t)
    BY <2>1, Zenon
  <2>3. 0 \in 0 .. n /\ \A i \in 1 .. n : i \in 0 .. n /\ i # 0
    BY <1>1
  <2> QED
    BY <2>2, <2>3
<1> DEFINE Good == {i \in 0 .. n : r[i] \in States}
<1>7. 0 \in Good
  <2>1. 0 \in 0 .. n
    BY <1>1
  <2> QED
    BY <1>2, <1>6, <2>1
<1>8. ASSUME NEW i \in 0 .. n, i # 0, i - 1 \in Good
      PROVE  i \in Good
  <2>1. i \in 1 .. n
    BY <1>1, <1>8
  <2>2. Take(r[i - 1], data[i], f, t) \in States
    BY <1>1, <1>8, <2>1, TakeTyped
  <2> QED
    BY <1>6, <2>1, <2>2
<1>9. 0 .. n \subseteq Good
  <2> HIDE DEF Good
  <2> QED
    BY <1>1, <1>7, <1>8, CountingUp
<1> QED
  BY <1>6, <1>9 DEF n, r, s0

\* What the loop has done after i values: what is in ret and what is left over
\* are the bits so far, in their order.
Regroups(state, i, data, f, t) ==
    /\ state.bits \in 0 .. t - 1
    /\ state.ret \in Seq(Numbers(t))
    /\ t * Len(state.ret) + state.bits = f * i
    /\ \A m \in 1 .. Len(state.ret), j \in 0 .. t - 1 :
          j \in state.ret[m] <=> Bit(data, f, t * m - 1 - j)
    /\ \A j \in 0 .. state.bits - 1 : j \in state.acc <=> Bit(data, f, f * i - 1 - j)

\* One more value keeps it so.
LEMMA RegroupsStep ==
    ASSUME NEW f \in {5, 8}, NEW t \in {5, 8}, NEW data \in Seq(Numbers(f)),
           NEW i \in 1 .. Len(data), NEW state \in States,
           Regroups(state, i - 1, data, f, t)
    PROVE  Regroups(Take(state, data[i], f, t), i, data, f, t)
<1> DEFINE acc == Low(ShiftLeft(state.acc, f) \union data[i], f + t - 1)
           bits == state.bits + f
           g == Groups(acc, bits, t)
           ret == state.ret
           next == Take(state, data[i], f, t)
           have == f * i
           len == Len(ret)
           c == bits \div t
           rest == bits % t
<1>1. /\ state.acc \in SUBSET Nat /\ data[i] \in SUBSET Nat /\ \A b \in data[i] : b < f
  <2>1. data[i] \in Numbers(f) /\ f \in Nat
    OBVIOUS
  <2> QED
    BY <2>1, InNumbers DEF States
<1>2. /\ f \in Nat \ {0} /\ t \in Nat \ {0} /\ i \in Nat \ {0} /\ f * (i - 1) = have - f
      /\ have \in Nat
  OBVIOUS
<1>3. /\ state.bits \in 0 .. t - 1 /\ ret \in Seq(Numbers(t)) /\ len \in Nat
      /\ t * len + state.bits = have - f
      /\ \A m \in 1 .. len, j \in 0 .. t - 1 : j \in ret[m] <=> Bit(data, f, t * m - 1 - j)
      /\ \A j \in 0 .. state.bits - 1 : j \in state.acc <=> Bit(data, f, have - f - 1 - j)
  BY <1>2 DEF Regroups
<1>4. bits \in Nat /\ bits <= f + t - 1 /\ bits >= f
  <2>1. /\ state.bits \in 0 .. t - 1 /\ f \in Nat /\ t \in Nat
    BY <1>2, <1>3
  <2> QED
    BY <2>1
<1>5. next.acc = acc /\ next.bits = rest /\ next.ret = ret \o g
  BY DEF Take
<1>6. acc \in SUBSET Nat
  BY <1>1, <1>2, ShiftedLeft DEF Low
<1>7. \A j \in 0 .. f - 1 : Bit(data, f, have - 1 - j) <=> j \in data[i]
  BY <1>2, BitOf
<1> HIDE DEF have, len, ret
\* The accumulator holds what was left over and the value.
<1>8. ASSUME NEW j \in 0 .. bits - 1
      PROVE  j \in acc <=> Bit(data, f, have - 1 - j)
  <2>1. j \in Nat /\ j < f + t - 1
    BY <1>2, <1>4
  <2>2. j \in acc <=> (j >= f /\ j - f \in state.acc) \/ j \in data[i]
    BY <1>1, <1>2, <2>1, ShiftedLeft DEF Low
  <2>3. CASE j < f
    <3>1. j \in 0 .. f - 1
      BY <1>2, <2>1, <2>3
    <3> HIDE DEF acc, bits
    <3> QED
      BY <1>2, <1>7, <2>1, <2>2, <2>3, <3>1
  <2>4. CASE j >= f
    <3>1. j - f \in 0 .. state.bits - 1
      <4>1. state.bits \in Nat /\ f \in Nat /\ j < state.bits + f
        BY <1>2, <1>3, <1>4, <2>1
      <4> QED
        BY <2>1, <2>4, <4>1
    <3>5. have - f - 1 - (j - f) = have - 1 - j
      BY <1>2, <2>1
    <3>2. j \notin data[i]
      BY <1>1, <1>2, <2>1, <2>4
    <3>3. j - f \in state.acc <=> Bit(data, f, have - 1 - j)
      BY <1>3, <3>1, <3>5
    <3> HIDE DEF acc, bits
    <3> QED
      BY <2>2, <2>4, <3>2, <3>3
  <2> QED
    BY <1>2, <2>1, <2>3, <2>4
<1> HIDE DEF acc, bits, next
<1>9. /\ c \in Nat /\ rest \in 0 .. t - 1 /\ t * c + rest = bits
      /\ \A k \in 1 .. c : k * t <= bits
  BY <1>4, Divided
<1>10. /\ g \in Seq(Numbers(t)) /\ Len(g) = c
       /\ \A k \in 1 .. c :
             /\ bits - k * t \in Nat
             /\ \A j \in 0 .. t - 1 : j \in g[k] <=> j + (bits - k * t) \in acc
  BY <1>4, <1>6, GroupsTyped
<1> HIDE DEF g, c, rest
<1>11. /\ next.ret \in Seq(Numbers(t)) /\ Len(next.ret) = len + c
       /\ \A m \in 1 .. len : next.ret[m] = ret[m]
       /\ \A k \in 1 .. c : next.ret[len + k] = g[k]
  <2>1. /\ ret \o g \in Seq(Numbers(t)) /\ Len(ret \o g) = Len(ret) + Len(g)
        /\ \A m \in 1 .. Len(ret) + Len(g) :
              (ret \o g)[m] = IF m <= Len(ret) THEN ret[m] ELSE g[m - Len(ret)]
    BY <1>3, <1>10, ConcatProperties
  <2>2. \A m \in 1 .. len : m \in 1 .. len + c /\ m <= len
    BY <1>3, <1>9
  <2>3. \A k \in 1 .. c : len + k \in 1 .. len + c /\ ~ len + k <= len /\ (len + k) - len = k
    BY <1>3, <1>9
  <2> QED
    BY <1>5, <1>10, <2>1, <2>2, <2>3 DEF len
<1>12. t * (len + c) + rest = have
  <2>1. t * (len + c) = t * len + t * c
    BY <1>2, <1>3, <1>9
  <2>2. t * len \in Nat /\ t * c \in Nat
    BY <1>2, <1>3, <1>9
  <2>3. bits = state.bits + f
    BY DEF bits
  <2> QED
    BY <1>2, <1>3, <1>9, <2>1, <2>2, <2>3
<1>13. ASSUME NEW m \in 1 .. len + c, NEW j \in 0 .. t - 1
       PROVE  j \in next.ret[m] <=> Bit(data, f, t * m - 1 - j)
  <2>1. CASE m <= len
    <3>1. m \in 1 .. len
      BY <1>3, <2>1
    <3> QED
      BY <1>3, <1>11, <3>1
  <2>2. CASE m > len
    <3> DEFINE k == m - len
    <3>1. k \in 1 .. c /\ m = len + k
      BY <1>3, <1>9, <2>2
    <3> HIDE DEF k
    <3>2. j \in next.ret[m] <=> j + (bits - k * t) \in acc
      BY <1>10, <1>11, <3>1
    <3>3. /\ k * t \in Nat /\ k * t >= t /\ bits - k * t \in Nat /\ t * m = t * len + k * t
          /\ t * len \in Nat
      <4>1. k \in Nat \ {0}
        BY <3>1, <1>9
      <4>2. CASE t = 5
        BY <1>3, <1>10, <3>1, <4>1, <4>2
      <4>3. CASE t = 8
        BY <1>3, <1>10, <3>1, <4>1, <4>3
      <4> QED
        BY <4>2, <4>3
    <3> DEFINE kt == k * t
               tl == t * len
               tm == t * m
    <3> HIDE DEF kt, tl, tm
    <3>4. /\ j + (bits - kt) \in 0 .. bits - 1
          /\ have - 1 - (j + (bits - kt)) = tm - 1 - j
      <4>1. bits = state.bits + f
        BY DEF bits
      <4>2. kt \in Nat /\ kt >= t /\ bits - kt \in Nat /\ tm = tl + kt /\ tl \in Nat
        BY <3>3 DEF kt, tl, tm
      <4>3. tl + state.bits = have - f
        BY <1>3 DEF tl
      <4>4. /\ j \in Nat /\ j < t /\ t \in Nat /\ f \in Nat /\ state.bits \in Nat
            /\ bits \in Nat /\ have \in Nat
        BY <1>2, <1>3, <1>4
      <4> DEFINE d == bits - kt
      <4>5. d \in Nat /\ j + d < bits
        BY <4>2, <4>4
      <4>6. tl + kt = have - d
        <5>1. have = tl + bits
          <6>1. tl \in Nat /\ state.bits \in Nat /\ f \in Nat /\ have \in Nat
            BY <4>2, <4>4
          <6>2. tl + (state.bits + f) = have
            BY <4>3, <6>1
          <6> QED
            BY <4>1, <6>2
        <5>2. bits = d + kt
          BY <4>2, <4>4
        <5> HIDE DEF d
        <5> QED
          BY <4>2, <4>4, <4>5, <5>1, <5>2
      <4> HIDE DEF d
      <4>7. j + d \in 0 .. bits - 1
        BY <4>4, <4>5
      <4>8. have - 1 - (j + d) = tm - 1 - j
        BY <4>2, <4>4, <4>5, <4>6
      <4> QED
        BY <4>7, <4>8 DEF d
    <3>5. j + (bits - kt) \in acc <=> Bit(data, f, tm - 1 - j)
      BY <1>8, <3>4
    <3> QED
      BY <3>2, <3>5 DEF kt, tm
  <2> QED
    BY <1>3, <1>9, <2>1, <2>2
<1>14. ASSUME NEW j \in 0 .. rest - 1
       PROVE  j \in next.acc <=> Bit(data, f, have - 1 - j)
  <2>1. t * c \in Nat
    BY <1>2, <1>9
  <2>2. j \in 0 .. bits - 1
    BY <1>2, <1>4, <1>9, <2>1
  <2> QED
    BY <1>5, <1>8, <2>2
<1> QED
  BY <1>5, <1>9, <1>11, <1>12, <1>13, <1>14 DEF Regroups, next, have

\* The loop keeps what it has taken.
LEMMA RegroupedKeeps ==
    ASSUME NEW f \in {5, 8}, NEW t \in {5, 8}, NEW data \in Seq(Numbers(f))
    PROVE  \A i \in 0 .. Len(data) : Regroups(Regrouped(data, f, t)[i], i, data, f, t)
<1> DEFINE n == Len(data)
           r == Regrouped(data, f, t)
           Good == {i \in 0 .. n : Regroups(r[i], i, data, f, t)}
<1>1. n \in Nat
  OBVIOUS
<1>2. /\ \A i \in 0 .. n : r[i] \in States
      /\ r[0] = [acc |-> {}, bits |-> 0, ret |-> <<>>]
      /\ \A i \in 1 .. n : r[i] = Take(r[i - 1], data[i], f, t)
  BY RegroupedFollows
<1> HIDE DEF r
<1>3. 0 \in Good
  <2>1. r[0].acc = {} /\ r[0].bits = 0 /\ r[0].ret = <<>>
    BY <1>2
  <2>2. /\ 0 \in 0 .. t - 1 /\ <<>> \in Seq(Numbers(t)) /\ Len(<<>>) = 0
        /\ t * 0 + 0 = f * 0 /\ 1 .. 0 = {} /\ 0 .. 0 - 1 = {}
    OBVIOUS
  <2>3. Regroups(r[0], 0, data, f, t)
    BY <2>1, <2>2 DEF Regroups
  <2>4. 0 \in 0 .. n
    BY <1>1
  <2> QED
    BY <2>3, <2>4
<1>4. ASSUME NEW i \in 0 .. n, i # 0, i - 1 \in Good
      PROVE  i \in Good
  <2>1. i \in 1 .. n /\ i - 1 \in 0 .. n
    BY <1>1, <1>4
  <2>2. Regroups(Take(r[i - 1], data[i], f, t), i, data, f, t)
    BY <1>2, <1>4, <2>1, RegroupsStep
  <2> QED
    BY <1>2, <2>1, <2>2
<1>5. 0 .. n \subseteq Good
  <2> HIDE DEF Good
  <2> QED
    BY <1>1, <1>3, <1>4, CountingUp
<1> QED
  BY <1>5 DEF r

\* The two ways the code regroups: into an address, and back to check it.
InFives(program) == Convertbits(program, 8, 5, TRUE)
InEights(groups) == Convertbits(groups, 5, 8, FALSE)

\* Bytes by five: every place of every group is the bit of the bytes that comes
\* there, or an added zero.
LEMMA ByFives ==
    ASSUME NEW program \in Seq(Numbers(8))
    PROVE  /\ InFives(program) \in Seq(Numbers(5))
           /\ 5 * Len(InFives(program)) - 8 * Len(program) \in 0 .. 4
           /\ \A m \in 1 .. Len(InFives(program)), j \in 0 .. 4 :
                 j \in InFives(program)[m] <=> /\ 5 * m - 1 - j < 8 * Len(program)
                                     /\ Bit(program, 8, 5 * m - 1 - j)
<1> DEFINE groups == InFives(program)
           n == Len(program)
           end == Regrouped(program, 8, 5)[n]
           padding == Low(ShiftLeft(end.acc, 5 - end.bits), 5)
           ret == end.ret
           len == Len(ret)
           left == end.bits
<1>1. n \in Nat /\ n \in 0 .. n /\ \A i \in DOMAIN program : program[i] \in Numbers(8)
  OBVIOUS
<1>2. end \in States
  BY <1>1, RegroupedFollows
<1>3. Regroups(end, n, program, 8, 5)
  BY <1>1, RegroupedKeeps
<1>4. groups = IF end.bits > 0 THEN Append(ret, padding) ELSE ret
  BY <1>1 DEF Convertbits, InFives
<1> HIDE DEF end, n, groups
<1>5. /\ end.acc \in SUBSET Nat
      /\ end.bits \in Nat /\ end.bits <= 4
      /\ ret \in Seq(Numbers(5)) /\ len \in Nat
      /\ 5 * len + end.bits = 8 * n
      /\ \A m \in 1 .. len, j \in 0 .. 4 : j \in ret[m] <=> Bit(program, 8, 5 * m - 1 - j)
      /\ \A j \in 0 .. end.bits - 1 : j \in end.acc <=> Bit(program, 8, 8 * n - 1 - j)
  BY <1>2, <1>3 DEF Regroups, States
<1>9. n \in Nat /\ len \in Nat /\ left \in 0 .. 4 /\ 5 * len + left = 8 * n
  BY <1>1, <1>5
<1> HIDE DEF ret, len, left, padding
<1>6. ASSUME NEW m \in 1 .. len, NEW j \in 0 .. 4
      PROVE  5 * m - 1 - j < 8 * n
  BY <1>9
<1>7. CASE end.bits = 0
  <2>1. groups = ret
    <3>1. ~ end.bits > 0
      BY <1>7
    <3> QED
      BY <1>4, <3>1
  <2>2. 5 * len - 8 * n = 0
    BY <1>7, <1>9 DEF left
  <2>3. groups \in Seq(Numbers(5)) /\ Len(groups) = len
    BY <1>5, <2>1 DEF len
  <2>4. ASSUME NEW m \in 1 .. len, NEW j \in 0 .. 4
        PROVE  j \in groups[m] <=> 5 * m - 1 - j < 8 * n /\ Bit(program, 8, 5 * m - 1 - j)
    BY <1>5, <1>6, <2>1
  <2> HIDE DEF len
  <2>5. 5 * Len(groups) - 8 * n \in 0 .. 4
    BY <2>2, <2>3
  <2> QED
    BY <2>3, <2>4, <2>5 DEF n, groups
<1>8. CASE end.bits # 0
  <2> DEFINE fill == 5 - end.bits
  <2>1. end.bits > 0 /\ fill \in 1 .. 4
    BY <1>5, <1>8
  <2>2. \A j \in 0 .. 4 : j \in padding <=> j >= fill /\ j - fill \in end.acc
    <3>1. fill \in Nat
      BY <2>1
    <3> HIDE DEF fill
    <3>2. \A b \in Nat : b \in ShiftLeft(end.acc, fill) <=> b >= fill /\ b - fill \in end.acc
      BY <1>5, <3>1, ShiftedLeft
    <3> QED
      BY <3>2 DEF Low, fill, padding
  <2>3. padding \in Numbers(5)
    <3>1. fill \in Nat
      BY <2>1
    <3>2. ShiftLeft(end.acc, fill) \in SUBSET Nat
      BY <1>5, <3>1, ShiftedLeft
    <3> QED
      BY <3>2 DEF Low, Numbers, padding
  <2>4. groups = Append(ret, padding)
    BY <1>4, <2>1
  <2>5. /\ groups \in Seq(Numbers(5)) /\ Len(groups) = len + 1
        /\ groups[len + 1] = padding
        /\ \A m \in 1 .. len : groups[m] = ret[m]
    BY <1>5, <2>3, <2>4, AppendProperties DEF len
  <2>6. 5 * (len + 1) - 8 * n \in 0 .. 4
    BY <1>9, <2>1 DEF left
  <2>7. ASSUME NEW j \in 0 .. 4
        PROVE  j \in padding <=> /\ 5 * (len + 1) - 1 - j < 8 * n
                                 /\ Bit(program, 8, 5 * (len + 1) - 1 - j)
    <3>1. j >= fill <=> 5 * (len + 1) - 1 - j < 8 * n
      BY <1>9 DEF left
    <3>2. CASE j >= fill
      <4>1. j - fill \in 0 .. end.bits - 1
        BY <1>5, <3>2
      <4>2. 8 * n - 1 - (j - fill) = 5 * (len + 1) - 1 - j
        <5>1. 8 * n - 1 - (j - (5 - left)) = 5 * (len + 1) - 1 - j
          BY <1>9
        <5> QED
          BY <5>1 DEF left
      <4> QED
        BY <1>5, <2>2, <3>1, <3>2, <4>1, <4>2
    <3> QED
      BY <2>2, <3>1, <3>2
  <2>8. \A m \in 1 .. len + 1 : m \in 1 .. len \/ m = len + 1
    BY <1>5
  <2>9. ASSUME NEW m \in 1 .. len + 1, NEW j \in 0 .. 4
        PROVE  j \in groups[m] <=> 5 * m - 1 - j < 8 * n /\ Bit(program, 8, 5 * m - 1 - j)
    BY <1>5, <1>6, <2>5, <2>7, <2>8
  <2> QED
    BY <2>5, <2>6, <2>9 DEF n, groups
<1> QED
  BY <1>7, <1>8

\* The same, counted in bits.
LEMMA BitsByFives ==
    ASSUME NEW program \in Seq(Numbers(8)), NEW k \in 0 .. 5 * Len(InFives(program)) - 1
    PROVE  Bit(InFives(program), 5, k) <=> k < 8 * Len(program) /\ Bit(program, 8, k)
<1> DEFINE groups == InFives(program)
           n == Len(groups)
           m == (k \div 5) + 1
           j == 4 - (k % 5)
<1> HIDE DEF groups
<1>1. n \in Nat
  <2>1. groups \in Seq(Numbers(5))
    BY ByFives DEF groups
  <2> QED
    BY <2>1
<1> HIDE DEF n
<1>2. k \in 0 .. 5 * n - 1
  BY DEF n, groups
<1>3. m \in 1 .. n /\ j \in 0 .. 4 /\ 5 * m - 1 - j = k /\ j = 5 - 1 - (k % 5)
  BY <1>1, <1>2
<1>4. Bit(groups, 5, k) <=> j \in groups[m]
  BY <1>3 DEF Bit
<1> HIDE DEF j, m
<1>5. j \in groups[m] <=> 5 * m - 1 - j < 8 * Len(program) /\ Bit(program, 8, 5 * m - 1 - j)
  BY <1>3, ByFives DEF n, groups
<1> QED
  BY <1>3, <1>4, <1>5 DEF groups

\* And the groups give the same bytes back.
LEMMA BackByEights ==
    ASSUME NEW program \in Seq(Numbers(8))
    PROVE  InEights(InFives(program)) = program
<1> DEFINE groups == InFives(program)
           n == Len(program)
           l == Len(groups)
           end == Regrouped(groups, 5, 8)[l]
           padding == Low(ShiftLeft(end.acc, 8 - end.bits), 8)
           ret == end.ret
           len == Len(ret)
           left == end.bits
<1> HIDE DEF groups
<1>1. groups \in Seq(Numbers(5)) /\ l \in Nat /\ l \in 0 .. l /\ n \in Nat /\ 5 * l - 8 * n \in 0 .. 4
  <2>1. groups \in Seq(Numbers(5)) /\ 5 * l - 8 * n \in 0 .. 4
    BY ByFives DEF groups
  <2>2. l \in Nat /\ n \in Nat
    BY <2>1
  <2> HIDE DEF l, n
  <2>3. l \in 0 .. l
    BY <2>2
  <2> QED
    BY <2>1, <2>2, <2>3
<1>2. end \in States /\ Regroups(end, l, groups, 5, 8)
  BY <1>1, RegroupedFollows, RegroupedKeeps
<1>3. InEights(groups)
        = IF end.bits >= 5 \/ padding # {} THEN Nothing ELSE ret
  <2>0. groups \in Seq(Numbers(5))
    BY <1>1
  <2>1. \A i \in DOMAIN groups : groups[i] \in Numbers(5)
    BY <2>0
  <2> QED
    BY <2>1 DEF Convertbits, InEights
<1> HIDE DEF end
<1>4. /\ end.acc \in SUBSET Nat
      /\ end.bits \in Nat /\ end.bits <= 7
      /\ ret \in Seq(Numbers(8)) /\ len \in Nat
      /\ 8 * len + end.bits = 5 * l
      /\ \A m \in 1 .. len, j \in 0 .. 7 : j \in ret[m] <=> Bit(groups, 5, 8 * m - 1 - j)
      /\ \A j \in 0 .. end.bits - 1 : j \in end.acc <=> Bit(groups, 5, 5 * l - 1 - j)
  <2> HIDE DEF n, l, padding
  <2> QED
    BY <1>2 DEF Regroups, States
<1> HIDE DEF ret, len, n, l, left, padding
<1>5. len = n /\ left \in 0 .. 4 /\ 8 * n + left = 5 * l
  <2>1. /\ n \in Nat /\ l \in Nat /\ 5 * l - 8 * n \in 0 .. 4
        /\ len \in Nat /\ left \in Nat /\ left <= 7 /\ 8 * len + left = 5 * l
    BY <1>1, <1>4 DEF left
  <2> QED
    BY <2>1
<1>6. \A k \in 0 .. 5 * l - 1 : Bit(groups, 5, k) <=> k < 8 * n /\ Bit(program, 8, k)
  BY BitsByFives DEF n, l, groups
<1>7. padding = {}
  <2> DEFINE fill == 8 - end.bits
  <2>1. fill \in Nat
    BY <1>5 DEF left
  <2>2. \A b \in Nat : b \in ShiftLeft(end.acc, fill) <=> b >= fill /\ b - fill \in end.acc
    <3> HIDE DEF fill
    <3> QED
      BY <1>4, <2>1, ShiftedLeft
  <2>3. ShiftLeft(end.acc, fill) \in SUBSET Nat
    BY <1>4, <2>1, ShiftedLeft
  <2>4. ASSUME NEW b \in padding PROVE FALSE
    <3>1. b \in Nat /\ b < 8 /\ b >= fill /\ b - fill \in end.acc
      BY <2>2, <2>3 DEF Low, padding
    <3> DEFINE j == b - fill
    <3>2. j \in 0 .. end.bits - 1
      BY <1>5, <3>1 DEF left
    <3> HIDE DEF j
    <3>3. 5 * l - 1 - j \in 0 .. 5 * l - 1 /\ ~ 5 * l - 1 - j < 8 * n
      BY <1>1, <1>5, <3>2 DEF left
    <3>4. j \in end.acc <=> Bit(groups, 5, 5 * l - 1 - j)
      BY <1>4, <3>2
    <3> QED
      BY <1>6, <3>1, <3>3, <3>4 DEF j
  <2> QED
    BY <2>4
<1>8. ASSUME NEW m \in 1 .. n
      PROVE  ret[m] = program[m]
  <2>1. ret[m] \in Numbers(8) /\ program[m] \in Numbers(8)
    <3>1. program[m] \in Numbers(8)
      BY DEF n
    <3>2. ret \in Seq(Numbers(8)) /\ m \in 1 .. Len(ret)
      BY <1>4, <1>5 DEF len
    <3>3. ret[m] \in Numbers(8)
      BY <3>2
    <3> QED
      BY <3>1, <3>3
  <2>2. ASSUME NEW j \in 0 .. 8 - 1
        PROVE  j \in ret[m] <=> j \in program[m]
    <3>1. j \in 0 .. 7 /\ m \in 1 .. len /\ m \in Nat \ {0}
      BY <1>1, <1>5
    <3>2. j \in ret[m] <=> Bit(groups, 5, 8 * m - 1 - j)
      BY <1>4, <3>1
    <3>3. 8 * m - 1 - j \in 0 .. 5 * l - 1 /\ 8 * m - 1 - j < 8 * n
      BY <1>1, <1>4, <1>5, <3>1
    <3>4. Bit(program, 8, 8 * m - 1 - j) <=> j \in program[m]
      BY <3>1, BitOf
    <3> QED
      BY <1>6, <3>2, <3>3, <3>4
  <2> QED
    BY <2>1, <2>2, SameOnes
<1>9. ret = program
  <2>1. ret \in Seq(Numbers(8)) /\ Len(ret) = Len(program)
    BY <1>4, <1>5 DEF len, n
  <2>2. \A m \in 1 .. Len(ret) : ret[m] = program[m]
    BY <1>8, <2>1 DEF n
  <2> QED
    BY <2>1, <2>2, SeqEqual
<1> QED
  <2>1. ~ end.bits >= 5
    BY <1>5 DEF left
  <2> QED
    BY <1>3, <1>7, <1>9, <2>1 DEF groups

-----------------------------------------------------------------------------
(* The encoder: addresses.                                                 *)

\* A function on 1 .. n is a sequence of length n.
LEMMA FromOne ==
    ASSUME NEW S, NEW n \in Nat, NEW s, DOMAIN s = 1 .. n, s = [i \in DOMAIN s |-> s[i]],
           \A i \in 1 .. n : s[i] \in S
    PROVE  s \in Seq(S) /\ Len(s) = n
<1>1. s = [i \in 1 .. n |-> s[i]]
  OBVIOUS
<1>2. [i \in 1 .. n |-> s[i]] \in Seq(S) /\ Len([i \in 1 .. n |-> s[i]]) = n
  OBVIOUS
<1> QED
  BY <1>1, <1>2

\* The parts of an address.
Prefix == HrpExpand(Hrp)
Combined(program) == <<{}>> \o InFives(program)
Checksum(program) == SixGroups(Xor(Polymod((Prefix \o Combined(program)) \o Zeros), {0}))

\* "bc" takes five values.
LEMMA PrefixTyped == Prefix \in Seq(Numbers(5)) /\ Len(Prefix) = 5
<1> DEFINE high == [i \in DOMAIN Hrp |-> ShiftRight(Hrp[i], 5)]
           low  == [i \in DOMAIN Hrp |-> Low(Hrp[i], 5)]
           gap  == <<{}>>
<1>1. Hrp \in Seq(SUBSET (0 .. 6)) /\ DOMAIN Hrp = 1 .. 2 /\ Len(Hrp) = 2
  BY DEF Hrp
<1>2. \A i \in 1 .. 2 : Hrp[i] \in SUBSET (0 .. 6)
  <2>1. \A i \in 1 .. 2 : i = 1 \/ i = 2
    OBVIOUS
  <2>2. Hrp[1] \in SUBSET (0 .. 6) /\ Hrp[2] \in SUBSET (0 .. 6)
    BY DEF Hrp
  <2> QED
    BY <2>1, <2>2
<1>3. high \in Seq(Numbers(5)) /\ Len(high) = 2
  <2>1. \A i \in 1 .. 2 : ShiftRight(Hrp[i], 5) \in Numbers(5)
    BY <1>2 DEF ShiftRight, Numbers
  <2>2. high = [i \in 1 .. 2 |-> ShiftRight(Hrp[i], 5)]
    BY <1>1
  <2> QED
    BY <2>1, <2>2
<1>4. low \in Seq(Numbers(5)) /\ Len(low) = 2
  <2>1. \A i \in 1 .. 2 : Low(Hrp[i], 5) \in Numbers(5)
    BY <1>2 DEF Low, Numbers
  <2>2. low = [i \in 1 .. 2 |-> Low(Hrp[i], 5)]
    BY <1>1
  <2> QED
    BY <2>1, <2>2
<1>5. gap \in Seq(Numbers(5)) /\ Len(gap) = 1
  BY DEF Numbers
<1>6. Prefix = (high \o gap) \o low
  BY DEF Prefix, HrpExpand
<1> HIDE DEF high, gap, low
<1> DEFINE front == high \o gap
<1>7. front \in Seq(Numbers(5)) /\ Len(front) = Len(high) + Len(gap)
  BY <1>3, <1>5, Joined
<1> HIDE DEF front
<1>8. front \o low \in Seq(Numbers(5)) /\ Len(front \o low) = Len(front) + Len(low)
  BY <1>4, <1>7, Joined
<1> QED
  BY <1>3, <1>4, <1>5, <1>6, <1>7, <1>8 DEF front

\* The version and the groups of a program.
LEMMA CombinedTyped ==
    ASSUME NEW program \in Programs
    PROVE  /\ program \in Seq(Numbers(8))
           /\ InFives(program) \in Seq(Numbers(5)) /\ InFives(program) # <<>>
           /\ Combined(program) \in Seq(Numbers(5))
           /\ Len(Combined(program)) = 1 + Len(InFives(program))
           /\ \A i \in 1 .. Len(InFives(program)) :
                 Combined(program)[1 + i] = InFives(program)[i]
<1>1. program \in Seq(Numbers(8)) /\ Len(program) \in 2 .. 40
  BY ProgramsAssumption
<1> DEFINE fives == InFives(program)
           first == <<{}>>
<1>2. fives \in Seq(Numbers(5)) /\ 5 * Len(fives) - 8 * Len(program) \in 0 .. 4
  BY <1>1, ByFives
<1> HIDE DEF fives
<1>3. fives # <<>>
  <2> SUFFICES ASSUME fives = <<>> PROVE FALSE
    OBVIOUS
  <2>1. Len(fives) = 0
    OBVIOUS
  <2> DEFINE n == Len(program)
  <2>2. n \in 2 .. 40 /\ 5 * 0 - 8 * n \in 0 .. 4
    BY <1>1, <1>2, <2>1
  <2> HIDE DEF n
  <2> QED
    BY <2>2
<1>4. first \in Seq(Numbers(5)) /\ Len(first) = 1
  BY DEF Numbers
<1> HIDE DEF first
<1>5. /\ first \o fives \in Seq(Numbers(5)) /\ Len(first \o fives) = 1 + Len(fives)
      /\ \A i \in 1 .. Len(fives) : (first \o fives)[1 + i] = fives[i]
  <2>1. fives \in Seq(Numbers(5))
    BY <1>2
  <2> QED
    <3>1. /\ first \o fives \in Seq(Numbers(5)) /\ Len(first \o fives) = Len(first) + Len(fives)
          /\ \A i \in 1 .. Len(fives) : (first \o fives)[Len(first) + i] = fives[i]
      <4>1. first \in Seq(Numbers(5))
        BY <1>4
      <4> QED
        BY <2>1, <4>1, Joined
    <3> QED
      BY <1>4, <3>1
<1> QED
  BY <1>1, <1>2, <1>3, <1>5 DEF Combined, fives, first

\* A program of legal length has an address, and its checksum holds.
LEMMA AddressIs ==
    ASSUME NEW program \in Programs
    PROVE  /\ Checksum(program) \in Seq(Numbers(5)) /\ Len(Checksum(program)) = 6
           /\ Address(program) = Combined(program) \o Checksum(program)
           /\ Address(program) \in Seq(Numbers(5))
           /\ Valid(Address(program))
<1> DEFINE c == Combined(program)
           u == Prefix \o c
           s == Checksum(program)
<1>1. c \in Seq(Numbers(5))
  BY CombinedTyped
<1>2. u \in Seq(Numbers(5))
  <2> HIDE DEF c
  <2> QED
    BY <1>1, PrefixTyped, SameBefore
<1>3. s \in Seq(Numbers(5)) /\ Polymod(u \o s) = {0}
  <2> HIDE DEF c, u
  <2>1. s = SixGroups(Xor(Polymod(u \o Zeros), {0}))
    BY DEF Checksum, u, c
  <2> QED
    BY <1>2, <2>1, ChecksumHolds
<1>4. Len(s) = 6
  <2>1. s = [i \in 1 .. 6 |-> Low(ShiftRight(Xor(Polymod(u \o Zeros), {0}), 5 * (6 - i)), 5)]
    BY DEF Checksum, SixGroups
  <2> HIDE DEF s
  <2> QED
    BY <1>3, <2>1
<1>5. Address(program) = c \o s
  <2>1. Len(program) \in 2 .. 40
    BY ProgramsAssumption
  <2>2. Value({}) = 0
    BY DEF Value
  <2>3. CreateChecksum(Hrp, c) = s
    BY DEF CreateChecksum, Checksum, SixGroups, Zeros, Prefix
  <2>4. InFives(program) # Nothing
    BY CombinedTyped DEF Nothing
  <2>5. ~ (Value({}) > 16 \/ Len(program) < 2 \/ Len(program) > 40)
    <3>1. ~ Value({}) > 16
      BY <2>2
    <3>2. ~ (Len(program) < 2 \/ Len(program) > 40)
      <4> DEFINE n == Len(program)
      <4>1. n \in 2 .. 40
        BY <2>1
      <4> HIDE DEF n
      <4>2. ~ (n < 2 \/ n > 40)
        BY <4>1
      <4> QED
        BY <4>2 DEF n
    <3> QED
      BY <3>1, <3>2
  <2>6. Address(program)
          = IF Value({}) > 16 \/ Len(program) < 2 \/ Len(program) > 40 \/ InFives(program) = Nothing
            THEN Nothing ELSE c \o CreateChecksum(Hrp, c)
    BY Zenon DEF Address, AddressGroups, InFives, Combined
  <2> QED
    BY <2>3, <2>4, <2>5, <2>6, Zenon
<1> HIDE DEF c, s
<1>6. Address(program) \in Seq(Numbers(5))
  BY <1>1, <1>3, <1>5
<1>7. u \o s = Prefix \o (c \o s)
  <2>1. Prefix \in Seq(Numbers(5)) /\ c \in Seq(Numbers(5)) /\ s \in Seq(Numbers(5))
    BY <1>1, <1>3, PrefixTyped
  <2>2. (Prefix \o c) \o s = Prefix \o (c \o s)
    <3> HIDE DEF u
    <3> QED
      BY <2>1, ConcatAssociative
  <2> QED
    BY <2>2
<1>8. Valid(Address(program))
  BY <1>3, <1>5, <1>7 DEF Valid, Prefix
<1> QED
  BY <1>3, <1>4, <1>5, <1>6, <1>8 DEF c, s

\* Groups with the same value are the same.
LEMMA ValuesDiffer ==
    ASSUME NEW a \in Numbers(5), NEW b \in Numbers(5)
    PROVE  Value(a) \in 0 .. 31 /\ (Value(a) = Value(b) => a = b)
<1> DEFINE bit(x, i) == IF i \in x THEN 1 ELSE 0
<1>1. \A x : Value(x) = bit(x, 0) + 2 * bit(x, 1) + 4 * bit(x, 2) + 8 * bit(x, 3) + 16 * bit(x, 4)
  BY DEF Value
<1>2. \A x, i : bit(x, i) \in {0, 1} /\ (bit(x, i) = 1 <=> i \in x)
  OBVIOUS
<1> HIDE DEF bit
<1>3. Value(a) \in 0 .. 31
  BY <1>1, <1>2
<1>4. ASSUME Value(a) = Value(b) PROVE \A i \in 0 .. 5 - 1 : i \in a <=> i \in b
  <2>1. /\ bit(a, 0) = bit(b, 0) /\ bit(a, 1) = bit(b, 1) /\ bit(a, 2) = bit(b, 2)
        /\ bit(a, 3) = bit(b, 3) /\ bit(a, 4) = bit(b, 4)
    BY <1>1, <1>2, <1>4
  <2>2. \A i \in 0 .. 5 - 1 : i = 0 \/ i = 1 \/ i = 2 \/ i = 3 \/ i = 4
    OBVIOUS
  <2>3. \A i \in 0 .. 5 - 1 : bit(a, i) = bit(b, i)
    BY <2>1, <2>2
  <2> QED
    BY <1>2, <2>3
<1> QED
  BY <1>3, <1>4, SameOnes

\* No character stands for two values.
LEMMA CharactersDiffer ==
    \A i, j \in 1 .. 32 : Charset[i] = Charset[j] => i = j
BY SMTT(60) DEF Charset

\* The characters tell the groups.
LEMMA GroupsRead ==
    ASSUME NEW g \in Seq(Numbers(5)), NEW h \in Seq(Numbers(5)), EncodeSegwit(g) = EncodeSegwit(h)
    PROVE  g = h
<1>1. DOMAIN g = 1 .. Len(g) /\ DOMAIN h = 1 .. Len(h) /\ Len(g) \in Nat /\ Len(h) \in Nat
  OBVIOUS
<1>2. DOMAIN EncodeSegwit(g) = DOMAIN g /\ DOMAIN EncodeSegwit(h) = DOMAIN h
  BY DEF EncodeSegwit
<1>3. Len(g) = Len(h)
  <2>1. 1 .. Len(g) = 1 .. Len(h)
    BY <1>1, <1>2
  <2> DEFINE m == Len(g)
             n == Len(h)
  <2>2. 1 .. m = 1 .. n /\ m \in Nat /\ n \in Nat
    BY <1>1, <2>1
  <2> HIDE DEF m, n
  <2>3. m = n
    BY <2>2
  <2> QED
    BY <2>3 DEF m, n
<1>4. ASSUME NEW i \in 1 .. Len(g)
      PROVE  g[i] = h[i]
  <2>1. i \in DOMAIN g /\ i \in DOMAIN h /\ g[i] \in Numbers(5) /\ h[i] \in Numbers(5)
    BY <1>3
  <2>2. Charset[Value(g[i]) + 1] = Charset[Value(h[i]) + 1]
    <3>1. EncodeSegwit(g)[i] = Charset[Value(g[i]) + 1]
      BY <2>1 DEF EncodeSegwit
    <3>2. EncodeSegwit(h)[i] = Charset[Value(h[i]) + 1]
      BY <2>1 DEF EncodeSegwit
    <3> QED
      BY <3>1, <3>2
  <2>3. Value(g[i]) \in 0 .. 31 /\ Value(h[i]) \in 0 .. 31
    BY <2>1, ValuesDiffer
  <2> DEFINE x == Value(g[i])
             y == Value(h[i])
  <2>4. x = y
    <3> HIDE DEF x, y
    <3>1. x \in 0 .. 31 /\ y \in 0 .. 31
      BY <2>3 DEF x, y
    <3>2. x + 1 \in 1 .. 32 /\ y + 1 \in 1 .. 32
      BY <3>1
    <3>3. x + 1 = y + 1
      BY <2>2, <3>2, CharactersDiffer DEF x, y
    <3> QED
      BY <3>1, <3>3
  <2> QED
    BY <2>1, <2>4, ValuesDiffer
<1> QED
  BY <1>3, <1>4, SeqEqual

\* The characters tell the groups, the groups tell the program.
LEMMA EncoderNamesOne == NamesOne
<1> SUFFICES ASSUME NEW p \in Programs, NEW q \in Programs,
                    EncodeSegwit(Address(p)) = EncodeSegwit(Address(q))
             PROVE  p = q
  BY DEF NamesOne
<1>1. Address(p) = Address(q)
  BY AddressIs, GroupsRead
<1> DEFINE cp == Combined(p)
           cq == Combined(q)
           sp == Checksum(p)
           sq == Checksum(q)
           fp == InFives(p)
           fq == InFives(q)
<1>2. /\ cp \in Seq(Numbers(5)) /\ cq \in Seq(Numbers(5))
      /\ sp \in Seq(Numbers(5)) /\ sq \in Seq(Numbers(5))
      /\ Len(sp) = 6 /\ Len(sq) = 6 /\ cp \o sp = cq \o sq
  BY <1>1, AddressIs, CombinedTyped
<1>3. /\ fp \in Seq(Numbers(5)) /\ fq \in Seq(Numbers(5))
      /\ Len(cp) = 1 + Len(fp) /\ Len(cq) = 1 + Len(fq)
      /\ \A i \in 1 .. Len(fp) : cp[1 + i] = fp[i]
      /\ \A i \in 1 .. Len(fq) : cq[1 + i] = fq[i]
  BY CombinedTyped
<1> HIDE DEF cp, cq, sp, sq, fp, fq
<1>4. Len(cp) = Len(cq)
  <2>1. Len(cp \o sp) = Len(cp) + Len(sp) /\ Len(cp) \in Nat
    BY <1>2, Joined
  <2>2. Len(cq \o sq) = Len(cq) + Len(sq) /\ Len(cq) \in Nat
    BY <1>2, Joined
  <2>3. Len(cp) + 6 = Len(cq) + 6
    BY <1>2, <2>1, <2>2
  <2> QED
    BY <2>1, <2>2, <2>3
<1>5. \A i \in 1 .. Len(cp) : cp[i] = cq[i]
  <2> SUFFICES ASSUME NEW i \in 1 .. Len(cp) PROVE cp[i] = cq[i]
    OBVIOUS
  <2>1. (cp \o sp)[i] = cp[i]
    BY <1>2
  <2>2. (cq \o sq)[i] = cq[i]
    BY <1>2, <1>4
  <2> QED
    BY <1>2, <2>1, <2>2
<1>6. Len(fp) = Len(fq)
  BY <1>3, <1>4
<1>7. \A i \in 1 .. Len(fp) : fp[i] = fq[i]
  <2> SUFFICES ASSUME NEW i \in 1 .. Len(fp) PROVE fp[i] = fq[i]
    OBVIOUS
  <2>1. 1 + i \in 1 .. Len(cp) /\ i \in 1 .. Len(fq)
    BY <1>3, <1>6
  <2> QED
    BY <1>3, <1>5, <2>1
<1>8. fp = fq
  BY <1>3, <1>6, <1>7, SeqEqual
<1>9. InEights(fp) = p /\ InEights(fq) = q
  BY CombinedTyped, BackByEights DEF fp, fq
<1> QED
  BY <1>8, <1>9

\* Every bit keeps its place, and the way back is exact.
LEMMA EncoderRegroups == RegroupsExactly
<1> SUFFICES ASSUME NEW program \in Programs
             PROVE  LET groups == InFives(program)
                        given  == 8 * Len(program)
                        made   == 5 * Len(groups)
                    IN  /\ made - given \in 0 .. 4
                        /\ \A k \in 0 .. (made - 1) :
                              Bit(groups, 5, k) <=> k < given /\ Bit(program, 8, k)
                        /\ InEights(groups) = program
  BY Zenon DEF RegroupsExactly, InFives, InEights
<1>1. program \in Seq(Numbers(8))
  BY CombinedTyped
<1> QED
  BY <1>1, ByFives, BitsByFives, BackByEights

\* One character of an address wrong, or two neighbours exchanged.
LEMMA EncoderDetectsSlips == DetectsSlips
<1> SUFFICES ASSUME NEW program \in Programs
             PROVE  LET good    == Address(program)
                        swap(i) == [good EXCEPT ![i] = good[i + 1], ![i + 1] = good[i]]
                    IN  /\ Valid(good)
                        /\ \A i \in DOMAIN good, slip \in Numbers(5) :
                              slip # good[i] => ~ Valid([good EXCEPT ![i] = slip])
                        /\ \A i \in 1 .. (Len(good) - 1) : good[i] # good[i + 1] => ~ Valid(swap(i))
  BY DEF DetectsSlips
<1> DEFINE good == Address(program)
           n == Len(good)
           v == Prefix \o good
<1>1. good \in Seq(Numbers(5)) /\ Valid(good)
  BY AddressIs
<1> HIDE DEF good
<1>2. n \in Nat /\ DOMAIN good = 1 .. n /\ \A i \in 1 .. n : good[i] \in Numbers(5)
  BY <1>1
\* What stands behind the prefix.
<1>3. ASSUME NEW bad \in Seq(Numbers(5)), Len(bad) = n
      PROVE  /\ Prefix \o bad \in Seq(Numbers(5))
             /\ Len(Prefix \o bad) = 5 + n
             /\ \A i \in 1 .. n : (Prefix \o bad)[5 + i] = bad[i]
             /\ \A i \in 1 .. 5 : (Prefix \o bad)[i] = Prefix[i]
  <2>1. /\ Prefix \o bad \in Seq(Numbers(5)) /\ Len(Prefix \o bad) = Len(Prefix) + Len(bad)
        /\ \A i \in 1 .. Len(bad) : (Prefix \o bad)[Len(Prefix) + i] = bad[i]
        /\ \A i \in 1 .. Len(Prefix) : (Prefix \o bad)[i] = Prefix[i]
    <3>1. Prefix \in Seq(Numbers(5)) /\ bad \in Seq(Numbers(5))
      BY PrefixTyped
    <3> QED
      BY <3>1, Joined
  <2> QED
    BY <1>3, <2>1, PrefixTyped
<1>4. Polymod(v) = {0}
  BY <1>1 DEF Valid, Prefix
<1>5. \A j \in 1 .. 5 + n : j \in 1 .. 5 \/ (j - 5 \in 1 .. n /\ j = 5 + (j - 5))
  BY <1>2
<1>6. ASSUME NEW i \in DOMAIN good, NEW slip \in Numbers(5), slip # good[i]
      PROVE  ~ Valid([good EXCEPT ![i] = slip])
  <2> DEFINE bad == [good EXCEPT ![i] = slip]
             w == Prefix \o bad
  <2>1. /\ DOMAIN bad = 1 .. n /\ bad = [j \in DOMAIN bad |-> bad[j]]
        /\ bad[i] = slip /\ \A j \in 1 .. n : j # i => bad[j] = good[j]
    BY <1>1, <1>2
  <2> HIDE DEF bad
  <2>2. \A j \in 1 .. n : bad[j] \in Numbers(5)
    BY <1>2, <2>1
  <2>3. bad \in Seq(Numbers(5)) /\ Len(bad) = n
    BY <1>2, <2>1, <2>2, FromOne
  <2>4. /\ v \in Seq(Numbers(5)) /\ w \in Seq(Numbers(5)) /\ Len(v) = 5 + n /\ Len(w) = 5 + n
        /\ \A j \in 1 .. n : v[5 + j] = good[j] /\ w[5 + j] = bad[j]
        /\ \A j \in 1 .. 5 : v[j] = w[j]
    BY <1>1, <1>3, <2>3
  <2> HIDE DEF v, w
  <2>5. i \in 1 .. n /\ 5 + i \in 1 .. Len(v) /\ v[5 + i] # w[5 + i]
    BY <1>2, <1>6, <2>1, <2>4
  <2>6. ASSUME NEW j \in 1 .. Len(v), j # 5 + i
        PROVE  v[j] = w[j]
    <3>1. CASE j \in 1 .. 5
      BY <2>4, <3>1
    <3>2. CASE j - 5 \in 1 .. n /\ j = 5 + (j - 5)
      <4> DEFINE k == j - 5
      <4>1. k \in 1 .. n /\ j = 5 + k /\ k # i
        BY <2>5, <2>6, <3>2
      <4> HIDE DEF k
      <4> QED
        BY <2>1, <2>4, <4>1
    <3> QED
      BY <1>5, <2>4, <3>1, <3>2
  <2>7. Polymod(v) # Polymod(w)
    BY <2>4, <2>5, <2>6, OneWrong
  <2> QED
    BY <1>4, <2>7 DEF Valid, Prefix, w, bad
<1>7. ASSUME NEW i \in 1 .. n - 1, good[i] # good[i + 1]
      PROVE  ~ Valid([good EXCEPT ![i] = good[i + 1], ![i + 1] = good[i]])
  <2> DEFINE bad == [good EXCEPT ![i] = good[i + 1], ![i + 1] = good[i]]
             w == Prefix \o bad
  <2>0. i \in 1 .. n /\ i + 1 \in 1 .. n /\ i # i + 1
    BY <1>2
  <2>1. /\ DOMAIN bad = 1 .. n /\ bad = [j \in DOMAIN bad |-> bad[j]]
        /\ bad[i] = good[i + 1] /\ bad[i + 1] = good[i]
        /\ \A j \in 1 .. n : j # i /\ j # i + 1 => bad[j] = good[j]
    BY <1>1, <1>2, <2>0
  <2> HIDE DEF bad
  <2>2. \A j \in 1 .. n : bad[j] \in Numbers(5)
    BY <1>2, <2>0, <2>1
  <2>3. bad \in Seq(Numbers(5)) /\ Len(bad) = n
    BY <1>2, <2>1, <2>2, FromOne
  <2>4. /\ v \in Seq(Numbers(5)) /\ w \in Seq(Numbers(5)) /\ Len(v) = 5 + n /\ Len(w) = 5 + n
        /\ \A j \in 1 .. n : v[5 + j] = good[j] /\ w[5 + j] = bad[j]
        /\ \A j \in 1 .. 5 : v[j] = w[j]
    BY <1>1, <1>3, <2>3
  <2> HIDE DEF v, w
  <2> DEFINE p == 5 + i
  <2>5. p \in 1 .. Len(v) - 1 /\ p + 1 = 5 + (i + 1)
    BY <1>2, <2>4
  <2>6. v[p] = good[i] /\ v[p + 1] = good[i + 1] /\ w[p] = good[i + 1] /\ w[p + 1] = good[i]
    BY <2>0, <2>1, <2>4, <2>5
  <2>7. ASSUME NEW j \in 1 .. Len(v), j # p, j # p + 1
        PROVE  v[j] = w[j]
    <3>1. CASE j \in 1 .. 5
      BY <2>4, <3>1
    <3>2. CASE j - 5 \in 1 .. n /\ j = 5 + (j - 5)
      <4> DEFINE k == j - 5
      <4>1. k \in 1 .. n /\ j = 5 + k /\ k # i /\ k # i + 1
        BY <1>2, <2>7, <3>2
      <4> HIDE DEF k
      <4> QED
        BY <2>1, <2>4, <4>1
    <3> QED
      BY <1>5, <2>4, <3>1, <3>2
  <2> HIDE DEF p
  <2>8. Polymod(v) # Polymod(w)
    <3>1. v[p] # v[p + 1] /\ w[p] = v[p + 1] /\ w[p + 1] = v[p] /\ Len(v) = Len(w)
      BY <1>7, <2>4, <2>6
    <3>2. v \in Seq(Numbers(5)) /\ w \in Seq(Numbers(5))
      BY <2>4
    <3> QED
      BY <2>5, <2>7, <3>1, <3>2, TwoSwapped
  <2> QED
    BY <1>4, <2>8 DEF Valid, Prefix, w, bad
<1> QED
  BY <1>1, <1>6, <1>7 DEF good

\* For any programs of 2 to 40 bytes, the bc1q address an invoice asks for keeps
\* every bit of its key's hash in place and stands for no other hash
\* (encode_segwit, _convertbits).
THEOREM AddressesKeepKeys == Spec => []AddressesEncode
<1>1. AddressesEncode
  BY EncoderRegroups, EncoderNamesOne DEF AddressesEncode
<1> QED
  BY <1>1, PTL

\* For any such program, the checksum of its address holds, and none does with
\* one character wrong or two different neighbours exchanged (_create_checksum,
\* _polymod).
THEOREM SlipsAreFound == Spec => []SlipsDetected
<1>1. SlipsDetected
  BY EncoderDetectsSlips DEF SlipsDetected
<1> QED
  BY <1>1, PTL
=============================================================================
