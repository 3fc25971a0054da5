------------------------------ MODULE RpcProofs -------------------------------
(***************************************************************************)
(* Proofs about crates/types/src/user_operation and crates/rpc/src/eth.rs: *)
(* for every operation, of any length, packing loses nothing an EntryPoint *)
(* sees, unpacking loses nothing of what is well formed, and the cached    *)
(* hash is the EntryPoint's; for any gas, price and height, an estimate    *)
(* covers what was simulated, a client sees its operation in the pool or   *)
(* on the chain, and the two halves of a receipt agree.                    *)
(***************************************************************************)
EXTENDS UserOperations, EthApi, SequenceTheorems, TLAPS

-----------------------------------------------------------------------------
(* Strings of bytes                                                        *)

\* A function on 1..n is a sequence of n bytes.
LEMMA WidthIsLength ==
  ASSUME NEW n \in Nat, NEW s
  PROVE  s \in [1..n -> Byte] <=> s \in Seq(Byte) /\ Len(s) = n
<1>1. ASSUME s \in [1..n -> Byte] PROVE s \in Seq(Byte) /\ Len(s) = n
  BY <1>1
<1>2. ASSUME s \in Seq(Byte), Len(s) = n PROVE s \in [1..n -> Byte]
  BY <1>2
<1> QED
  BY <1>1, <1>2

\* A string of m and one of n make one of m + n, and are its parts.
LEMMA PartsOfConcat ==
  ASSUME NEW s \in Seq(Byte), NEW t \in Seq(Byte)
  PROVE  /\ s \o t \in Seq(Byte) /\ Len(s \o t) = Len(s) + Len(t)
         /\ SubSeq(s \o t, 1, Len(s)) = s
         /\ SubSeq(s \o t, Len(s) + 1, Len(s) + Len(t)) = t
<1> DEFINE u == s \o t
<1>1. /\ u \in Seq(Byte) /\ Len(u) = Len(s) + Len(t)
      /\ \A i \in 1 .. Len(s) + Len(t) : u[i] = IF i <= Len(s) THEN s[i] ELSE t[i - Len(s)]
  BY ConcatProperties
<1> HIDE DEF u
<1>2. Len(s) \in Nat /\ Len(t) \in Nat
  OBVIOUS
<1>3. SubSeq(u, 1, Len(s)) = s
  <2>1. \A i \in 1 .. Len(s) : u[i] \in Byte
    BY <1>1, <1>2
  <2>2. /\ SubSeq(u, 1, Len(s)) \in Seq(Byte)
        /\ Len(SubSeq(u, 1, Len(s))) = IF 1 <= Len(s) THEN Len(s) - 1 + 1 ELSE 0
        /\ \A i \in 1 .. Len(s)-1+1 : SubSeq(u, 1, Len(s))[i] = u[1+i-1]
    BY <2>1, <1>2, SubSeqProperties
  <2> QED
    BY <2>2, <1>1, <1>2, SeqEqual
<1>4. SubSeq(u, Len(s) + 1, Len(s) + Len(t)) = t
  <2> DEFINE m == Len(s) + 1
             n == Len(s) + Len(t)
  <2>1. \A i \in m .. n : u[i] \in Byte
    BY <1>1, <1>2
  <2>2. /\ SubSeq(u, m, n) \in Seq(Byte)
        /\ Len(SubSeq(u, m, n)) = IF m <= n THEN n-m+1 ELSE 0
        /\ \A i \in 1 .. n-m+1 : SubSeq(u, m, n)[i] = u[m+i-1]
    <3> HIDE DEF m, n
    <3> QED
      BY <2>1, <1>2, SubSeqProperties DEF m, n
  <2>3. Len(SubSeq(u, m, n)) = Len(t)
    BY <2>2, <1>2
  <2>4. ASSUME NEW i \in 1 .. Len(t)
        PROVE  SubSeq(u, m, n)[i] = t[i]
    <3>1. i \in 1 .. n-m+1 /\ m+i-1 = Len(s) + i
      BY <1>2
    <3>2. SubSeq(u, m, n)[i] = u[Len(s) + i]
      <4> HIDE DEF m, n
      <4> QED
        BY <2>2, <3>1
    <3>3. Len(s) + i \in 1 .. Len(s) + Len(t) /\ ~(Len(s) + i <= Len(s)) /\ Len(s) + i - Len(s) = i
      BY <1>2
    <3> HIDE DEF m, n
    <3>4. u[Len(s) + i] = t[i]
      <4>1. u[Len(s) + i] = t[Len(s) + i - Len(s)]
        BY <1>1, <3>3
      <4> QED
        BY <4>1, <3>3
    <3> QED
      BY <3>2, <3>4
  <2> QED
    BY <2>2, <2>3, <2>4, SeqEqual
<1> QED
  BY <1>1, <1>3, <1>4 DEF u

\* A string cut in two is the two parts.
LEMMA CutInTwo ==
  ASSUME NEW s \in Seq(Byte), NEW m \in Nat, m <= Len(s)
  PROVE  /\ SubSeq(s, 1, m) \in Seq(Byte) /\ Len(SubSeq(s, 1, m)) = m
         /\ SubSeq(s, m + 1, Len(s)) \in Seq(Byte)
         /\ Len(SubSeq(s, m + 1, Len(s))) = Len(s) - m
         /\ SubSeq(s, 1, m) \o SubSeq(s, m + 1, Len(s)) = s
<1>1. Len(s) \in Nat /\ \A i \in 1 .. Len(s) : s[i] \in Byte
  OBVIOUS
<1>2. /\ SubSeq(s, 1, m) \in Seq(Byte)
      /\ Len(SubSeq(s, 1, m)) = IF 1 <= m THEN m - 1 + 1 ELSE 0
  BY <1>1, SubSeqProperties
<1>3. /\ SubSeq(s, m + 1, Len(s)) \in Seq(Byte)
      /\ Len(SubSeq(s, m + 1, Len(s))) = IF m + 1 <= Len(s) THEN Len(s) - (m + 1) + 1 ELSE 0
  BY <1>1, SubSeqProperties
<1>4. SubSeq(s, 1, m) \o SubSeq(s, m + 1, Len(s)) = SubSeq(s, 1, Len(s))
  <2>1. /\ 1 \in 1 .. Len(s)+1 /\ m \in 1-1 .. Len(s) /\ Len(s) \in m .. Len(s)
    BY <1>1
  <2> QED
    BY <2>1, ConcatAdjacentSubSeq
<1>5. SubSeq(s, 1, Len(s)) = s
  BY SubSeqFull
<1> QED
  <2>1. Len(SubSeq(s, 1, m)) = m
    BY <1>2
  <2>2. Len(SubSeq(s, m + 1, Len(s))) = Len(s) - m
    BY <1>1, <1>3
  <2>3. SubSeq(s, 1, m) \o SubSeq(s, m + 1, Len(s)) = s
    BY <1>4, <1>5, Zenon
  <2> QED
    BY <1>2, <1>3, <2>1, <2>2, <2>3, Zenon

-----------------------------------------------------------------------------
(* Fields run together, and taken apart                                    *)

\* The widths of the fields, as strings
LEMMA Widths ==
  /\ AddressLength \in Nat /\ GasLength \in Nat
  /\ \A s : s \in Address <=> s \in Seq(Byte) /\ Len(s) = AddressLength
  /\ \A s : s \in U128 <=> s \in Seq(Byte) /\ Len(s) = GasLength
  /\ \A s : s \in U256 <=> s \in Seq(Byte) /\ Len(s) = 2 * GasLength
<1>1. AddressLength \in Nat /\ GasLength \in Nat /\ 2 * GasLength \in Nat
  BY UserOpConstants
<1> QED
  BY <1>1, WidthIsLength DEF Address, U128, U256

LEMMA ConstantGas == ZeroGas \in U128 /\ MaxGas \in U128
  BY UserOpConstants DEF ZeroGas, MaxGas, U128

\* pack_u128_pair and unpack_u128_pair are inverse.
LEMMA PairOfParts ==
  ASSUME NEW a \in U128, NEW b \in U128
  PROVE  PackPair(a, b) \in U256 /\ High(PackPair(a, b)) = a /\ Low(PackPair(a, b)) = b
<1>1. a \in Seq(Byte) /\ b \in Seq(Byte) /\ Len(a) = GasLength /\ Len(b) = GasLength
      /\ GasLength \in Nat
  BY Widths
<1>2. /\ a \o b \in Seq(Byte) /\ Len(a \o b) = GasLength + GasLength
      /\ SubSeq(a \o b, 1, GasLength) = a
      /\ SubSeq(a \o b, GasLength + 1, GasLength + GasLength) = b
  BY <1>1, PartsOfConcat
<1>3. GasLength + GasLength = 2 * GasLength
  BY <1>1
<1> QED
  BY <1>2, <1>3, Widths DEF PackPair, High, Low

LEMMA PartsOfPair ==
  ASSUME NEW p \in U256
  PROVE  High(p) \in U128 /\ Low(p) \in U128 /\ PackPair(High(p), Low(p)) = p
<1>1. p \in Seq(Byte) /\ Len(p) = 2 * GasLength /\ GasLength \in Nat
  BY Widths
<1>2. GasLength <= Len(p) /\ Len(p) - GasLength = GasLength
  BY <1>1
<1>3. /\ High(p) \in Seq(Byte) /\ Len(High(p)) = GasLength
      /\ Low(p) \in Seq(Byte) /\ Len(Low(p)) = GasLength
      /\ High(p) \o Low(p) = p
  BY <1>1, <1>2, CutInTwo DEF High, Low
<1> QED
  BY <1>3, Widths DEF PackPair

\* The EntryPoint's view of a u128 is its low half.
LEMMA SaturateParts ==
  ASSUME NEW p \in U256
  PROVE  /\ Saturate(p) \in U128
         /\ High(p) = ZeroGas => PackPair(ZeroGas, Saturate(p)) = p
         /\ High(PackPair(ZeroGas, Saturate(p))) = ZeroGas
<1>1. Saturate(p) \in U128
  BY PartsOfPair, ConstantGas DEF Saturate
<1>2. High(p) = ZeroGas => PackPair(ZeroGas, Saturate(p)) = p
  BY PartsOfPair DEF Saturate
<1>3. High(PackPair(ZeroGas, Saturate(p))) = ZeroGas
  BY <1>1, ConstantGas, PairOfParts
<1> QED
  BY <1>1, <1>2, <1>3

LEMMA SaturatePair ==
  ASSUME NEW a \in U128
  PROVE  PackPair(ZeroGas, a) \in U256 /\ Saturate(PackPair(ZeroGas, a)) = a
  BY PairOfParts, ConstantGas DEF Saturate

\* An address, which is no NoAddress, and data after it
LEMMA FactoryOfCode ==
  ASSUME NEW a \in Address, NEW d \in Seq(Byte)
  PROVE  /\ a \o d \in Seq(Byte)
         /\ Factory(a \o d) = [address |-> a, data |-> d]
<1>1. a \in Seq(Byte) /\ Len(a) = AddressLength /\ AddressLength \in Nat /\ Len(d) \in Nat
  BY Widths
<1>2. /\ a \o d \in Seq(Byte) /\ Len(a \o d) = AddressLength + Len(d)
      /\ SubSeq(a \o d, 1, AddressLength) = a
      /\ SubSeq(a \o d, AddressLength + 1, AddressLength + Len(d)) = d
  BY <1>1, PartsOfConcat
<1>3. Len(a \o d) >= AddressLength
  BY <1>1, <1>2
<1> QED
  BY <1>2, <1>3 DEF Factory, From

LEMMA CodeOfFactory ==
  ASSUME NEW c \in Seq(Byte)
  PROVE  /\ Factory(c).data \in Seq(Byte)
         /\ Len(c) >= AddressLength =>
              Factory(c).address \in Address /\ Factory(c).address \o Factory(c).data = c
         /\ Len(c) < AddressLength => Factory(c) = [address |-> NoAddress, data |-> <<>>]
<1>1. Len(c) \in Nat /\ AddressLength \in Nat
  BY Widths
<1>2. CASE Len(c) >= AddressLength
  <2>1. /\ SubSeq(c, 1, AddressLength) \in Seq(Byte)
        /\ Len(SubSeq(c, 1, AddressLength)) = AddressLength
        /\ From(c, AddressLength + 1) \in Seq(Byte)
        /\ SubSeq(c, 1, AddressLength) \o From(c, AddressLength + 1) = c
    BY <1>1, <1>2, CutInTwo DEF From
  <2>2. /\ Factory(c).address = SubSeq(c, 1, AddressLength)
        /\ Factory(c).data = From(c, AddressLength + 1)
    BY <1>2 DEF Factory
  <2>3. Factory(c).address \in Address
    BY <2>1, <2>2, Widths
  <2>4. ~(Len(c) < AddressLength)
    BY <1>1, <1>2
  <2> QED
    BY <2>1, <2>2, <2>3, <2>4, Zenon
<1>3. CASE Len(c) < AddressLength
  <2>1. ~(Len(c) >= AddressLength)
    BY <1>1, <1>3
  <2>2. Factory(c) = [address |-> NoAddress, data |-> <<>>]
    BY <2>1 DEF Factory
  <2>3. Factory(c).data \in Seq(Byte)
    BY <2>2, EmptySeq
  <2> QED
    BY <2>1, <2>2, <2>3, Zenon
<1>4. Len(c) >= AddressLength \/ Len(c) < AddressLength
  BY <1>1
<1> QED
  BY <1>2, <1>3, <1>4, Zenon

\* paymasterAndData: an address, two gas values and data
LEMMA PaymasterOfString ==
  ASSUME NEW a \in Address, NEW v \in U128, NEW g \in U128, NEW d \in Seq(Byte)
  PROVE  /\ a \o v \o g \o d \in Seq(Byte)
         /\ Paymaster(a \o v \o g \o d) =
              [address |-> a, verification_gas |-> v, post_op_gas |-> g,
              data |-> d]
<1> DEFINE m == AddressLength
           k == GasLength
           x == a \o v
           y == x \o g
           u == y \o d
<1>1. /\ a \in Seq(Byte) /\ Len(a) = m /\ v \in Seq(Byte) /\ Len(v) = k
      /\ g \in Seq(Byte) /\ Len(g) = k /\ Len(d) \in Nat
      /\ m \in Nat /\ k \in Nat /\ PaymasterLength = m + 2 * k
  BY Widths DEF PaymasterLength
<1>2. m >= 1 /\ k >= 1
  BY UserOpConstants
<1>3. /\ x \in Seq(Byte) /\ Len(x) = Len(a) + Len(v)
      /\ SubSeq(x, 1, Len(a)) = a /\ SubSeq(x, Len(a) + 1, Len(a) + Len(v)) = v
  BY <1>1, PartsOfConcat
<1> HIDE DEF x
<1>4. /\ y \in Seq(Byte) /\ Len(y) = Len(x) + Len(g)
      /\ SubSeq(y, Len(x) + 1, Len(x) + Len(g)) = g
  BY <1>1, <1>3, PartsOfConcat
<1>5. SubSeq(y, 1, Len(a)) = a /\ SubSeq(y, Len(a) + 1, Len(x)) = v
  <2>1. /\ 1 \in 1 .. Len(x) /\ Len(a) \in 1 .. Len(x) /\ Len(a) + 1 \in 1 .. Len(x)
        /\ Len(x) \in 1 .. Len(x) /\ Len(a) + Len(v) = Len(x)
    BY <1>1, <1>2, <1>3
  <2>2. SubSeq(y, 1, Len(a)) = SubSeq(x, 1, Len(a))
    BY <1>1, <1>3, <2>1, SubSeqOfConcat1
  <2>3. SubSeq(y, Len(a) + 1, Len(x)) = SubSeq(x, Len(a) + 1, Len(x))
    BY <1>1, <1>3, <2>1, SubSeqOfConcat1
  <2> QED
    BY <1>3, <2>1, <2>2, <2>3, Zenon
<1> HIDE DEF y
<1>6. /\ u \in Seq(Byte) /\ Len(u) = Len(y) + Len(d)
      /\ SubSeq(u, Len(y) + 1, Len(y) + Len(d)) = d
  BY <1>4, PartsOfConcat
<1>7. /\ SubSeq(u, 1, Len(a)) = a /\ SubSeq(u, Len(a) + 1, Len(x)) = v
      /\ SubSeq(u, Len(x) + 1, Len(y)) = g
  <2>1. /\ {1, Len(a), Len(a) + 1, Len(x), Len(x) + 1, Len(y)} \subseteq 1 .. Len(y)
        /\ Len(x) + Len(g) = Len(y)
    BY <1>1, <1>2, <1>3, <1>4
  <2>2. \A from, to \in 1 .. Len(y) : SubSeq(u, from, to) = SubSeq(y, from, to)
    BY <1>4, SubSeqOfConcat1
  <2> HIDE DEF u
  <2> QED
    BY <1>4, <1>5, <2>1, <2>2
<1> HIDE DEF u
<1>8. /\ Len(x) = m + k /\ Len(y) = m + 2 * k /\ Len(u) = m + 2 * k + Len(d)
      /\ Len(y) + Len(d) = Len(u)
  BY <1>1, <1>3, <1>4, <1>6
<1>9. SubSeq(u, 1, m) = a
  BY <1>1, <1>7
<1>10. SubSeq(u, m+1, m+k) = v /\ SubSeq(u, m+k+1, m+2*k) = g
  BY <1>1, <1>7, <1>8
<1>11. SubSeq(u, m+2*k+1, Len(u)) = d
  BY <1>6, <1>8
<1>12. Len(u) >= PaymasterLength
  BY <1>1, <1>8
<1>13. Paymaster(u) = [address |-> a, verification_gas |-> v, post_op_gas |-> g, data |-> d]
  BY <1>1, <1>9, <1>10, <1>11, <1>12 DEF Paymaster, From
<1> QED
  BY <1>6, <1>13 DEF u, x, y

\* A paymaster read from a string puts the string together again.
LEMMA StringOfPaymaster ==
  ASSUME NEW c \in Seq(Byte)
  PROVE  /\ Paymaster(c).verification_gas \in U128 /\ Paymaster(c).post_op_gas \in U128
         /\ Paymaster(c).data \in Seq(Byte)
         /\ Len(c) >= PaymasterLength =>
              /\ Paymaster(c).address \in Address
              /\ Paymaster(c).address \o Paymaster(c).verification_gas
                   \o Paymaster(c).post_op_gas \o Paymaster(c).data = c
         /\ Len(c) < PaymasterLength =>
              Paymaster(c) = [address |-> NoAddress, verification_gas |-> ZeroGas,
                              post_op_gas |-> ZeroGas, data |-> <<>>]
<1> DEFINE m == AddressLength
           k == GasLength
<1>1. Len(c) \in Nat /\ m \in Nat /\ k \in Nat /\ PaymasterLength = m + 2 * k
  BY Widths DEF PaymasterLength
<1>2. CASE Len(c) >= PaymasterLength
  <2> DEFINE a == SubSeq(c, 1, m)
             v == SubSeq(c, m+1, m+k)
             g == SubSeq(c, m+k+1, m+2*k)
             d == SubSeq(c, m+2*k+1, Len(c))
  <2>1. /\ Paymaster(c).address = a /\ Paymaster(c).verification_gas = v
        /\ Paymaster(c).post_op_gas = g /\ Paymaster(c).data = d
    BY <1>1, <1>2 DEF Paymaster, From
  <2> HIDE DEF m, k
  <2>2. \A i \in 1 .. Len(c) : c[i] \in Byte
    OBVIOUS
  <2>3. \A from, to \in Nat : 1 <= from /\ to <= Len(c) /\ from <= to + 1 =>
          SubSeq(c, from, to) \in Seq(Byte) /\ Len(SubSeq(c, from,
          to)) = to - from + 1
    <3> SUFFICES ASSUME NEW from \in Nat, NEW to \in Nat,
                        1 <= from, to <= Len(c), from <= to + 1
                 PROVE  SubSeq(c, from, to) \in Seq(Byte)
                        /\ Len(SubSeq(c, from, to)) = to - from + 1
      OBVIOUS
    <3>1. \A i \in from .. to : c[i] \in Byte
      BY <1>1, <2>2
    <3>2. /\ SubSeq(c, from, to) \in Seq(Byte)
          /\ Len(SubSeq(c, from, to)) = IF from <= to THEN to - from + 1 ELSE 0
      BY <3>1, SubSeqProperties
    <3>3. (IF from <= to THEN to - from + 1 ELSE 0) = to - from + 1
      OBVIOUS
    <3> QED
      BY <3>2, <3>3, Zenon
  <2>4. /\ a \in Seq(Byte) /\ Len(a) = m /\ v \in Seq(Byte) /\ Len(v) = k
        /\ g \in Seq(Byte) /\ Len(g) = k /\ d \in Seq(Byte)
    BY <1>1, <1>2, <2>3
  <2>5. a \in Address /\ v \in U128 /\ g \in U128
    BY <2>4, Widths DEF m, k
  <2>6. a \o v = SubSeq(c, 1, m+k)
    <3>1. /\ 1 \in 1 .. Len(c)+1 /\ m \in 1-1 .. Len(c) /\ m+k \in m .. Len(c)
      BY <1>1, <1>2
    <3> QED
      BY <3>1, ConcatAdjacentSubSeq
  <2>7. SubSeq(c, 1, m+k) \o g = SubSeq(c, 1, m+2*k)
    <3>1. /\ 1 \in 1 .. Len(c)+1 /\ m+k \in 1-1 .. Len(c) /\ m+2*k \in m+k .. Len(c)
      BY <1>1, <1>2
    <3> QED
      BY <3>1, ConcatAdjacentSubSeq
  <2>8. SubSeq(c, 1, m+2*k) \o d = SubSeq(c, 1, Len(c))
    <3>1. /\ 1 \in 1 .. Len(c)+1 /\ m+2*k \in 1-1 .. Len(c) /\ Len(c) \in m+2*k .. Len(c)
      BY <1>1, <1>2
    <3> QED
      BY <3>1, ConcatAdjacentSubSeq
  <2>9. SubSeq(c, 1, Len(c)) = c
    BY SubSeqFull
  <2>10. a \o v \o g \o d = c
    <3> HIDE DEF a, v, g, d
    <3> QED
      BY <2>6, <2>7, <2>8, <2>9, Zenon
  <2>11. ~(Len(c) < PaymasterLength)
    BY <1>1, <1>2
  <2> QED
    BY <2>1, <2>4, <2>5, <2>10, <2>11, Zenon
<1>3. CASE Len(c) < PaymasterLength
  <2>1. ~(Len(c) >= PaymasterLength)
    BY <1>1, <1>3
  <2>2. Paymaster(c) = [address |-> NoAddress, verification_gas |-> ZeroGas,
                        post_op_gas |-> ZeroGas, data |-> <<>>]
    BY <2>1 DEF Paymaster
  <2>3. Paymaster(c).verification_gas \in U128 /\ Paymaster(c).post_op_gas \in U128
        /\ Paymaster(c).data \in Seq(Byte)
    BY <2>2, EmptySeq, ConstantGas
  <2> QED
    BY <2>1, <2>2, <2>3, Zenon
<1>4. Len(c) >= PaymasterLength \/ Len(c) < PaymasterLength
  BY <1>1
<1> QED
  BY <1>2, <1>3, <1>4, Zenon

-----------------------------------------------------------------------------
(* Round trips                                                             *)

\* What the EntryPoint sees of an operation
Seen(op) ==
  LET paid == op.paymaster # NoAddress
  IN  [sender |-> op.sender, nonce |-> op.nonce, call_data |-> op.call_data,
       call_gas_limit |-> op.call_gas_limit,
       verification_gas_limit |-> op.verification_gas_limit,
       pre_verification_gas |-> op.pre_verification_gas,
       max_fee_per_gas |-> op.max_fee_per_gas,
       max_priority_fee_per_gas |-> op.max_priority_fee_per_gas,
       signature |-> op.signature,
       factory |-> op.factory,
       factory_data |-> IF op.factory = NoAddress THEN <<>> ELSE op.factory_data,
       paymaster |-> op.paymaster,
       paymaster_verification_gas_limit |->
         IF paid THEN op.paymaster_verification_gas_limit ELSE ZeroGas,
       paymaster_post_op_gas_limit |->
         IF paid THEN op.paymaster_post_op_gas_limit ELSE ZeroGas,
       paymaster_data |-> IF paid THEN op.paymaster_data ELSE <<>>]

LEMMA SeenIsUserOp ==
  ASSUME NEW op \in UserOp
  PROVE  Seen(op) \in UserOp
BY ConstantGas, EmptySeq DEF Seen, UserOp

LEMMA NothingIsRead ==
  /\ Factory(<<>>) = [address |-> NoAddress, data |-> <<>>]
  /\ Paymaster(<<>>) = [address |-> NoAddress, verification_gas |-> ZeroGas,
                        post_op_gas |-> ZeroGas, data |-> <<>>]
<1>1. Len(<<>>) = 0 /\ ~(0 >= AddressLength) /\ ~(0 >= PaymasterLength)
  BY UserOpConstants DEF PaymasterLength
<1> QED
  BY <1>1 DEF Factory, Paymaster

\* Packing, field by field
LEMMA PackFields ==
  ASSUME NEW op \in UserOp
  PROVE  /\ Pack(op) \in Packed
         /\ High(Pack(op).account_gas_limits) = op.verification_gas_limit
         /\ Low(Pack(op).account_gas_limits) = op.call_gas_limit
         /\ Saturate(Pack(op).pre_verification_gas) = op.pre_verification_gas
         /\ High(Pack(op).gas_fees) = op.max_priority_fee_per_gas
         /\ Low(Pack(op).gas_fees) = op.max_fee_per_gas
         /\ Factory(Pack(op).init_code) =
              [address |-> Seen(op).factory, data |-> Seen(op).factory_data]
         /\ Paymaster(Pack(op).paymaster_and_data) =
              [address |-> Seen(op).paymaster,
               verification_gas |-> Seen(op).paymaster_verification_gas_limit,
               post_op_gas |-> Seen(op).paymaster_post_op_gas_limit,
               data |-> Seen(op).paymaster_data]
<1>1. /\ op.verification_gas_limit \in U128 /\ op.call_gas_limit \in U128
      /\ op.pre_verification_gas \in U128 /\ op.max_priority_fee_per_gas \in U128
      /\ op.max_fee_per_gas \in U128
      /\ op.factory \in Address \cup {NoAddress} /\ op.factory_data \in Seq(Byte)
      /\ op.paymaster \in Address \cup {NoAddress} /\ op.paymaster_data \in Seq(Byte)
      /\ op.paymaster_verification_gas_limit \in U128
      /\ op.paymaster_post_op_gas_limit \in U128
      /\ op.sender \in Address /\ op.nonce \in U256
      /\ op.call_data \in Seq(Byte) /\ op.signature \in Seq(Byte)
  BY DEF UserOp
<1>2. /\ Pack(op).account_gas_limits =
           PackPair(op.verification_gas_limit, op.call_gas_limit)
      /\ Pack(op).pre_verification_gas = PackPair(ZeroGas, op.pre_verification_gas)
      /\ Pack(op).gas_fees =
           PackPair(op.max_priority_fee_per_gas, op.max_fee_per_gas)
  BY DEF Pack
<1>3. /\ Pack(op).account_gas_limits \in U256
      /\ High(Pack(op).account_gas_limits) = op.verification_gas_limit
      /\ Low(Pack(op).account_gas_limits) = op.call_gas_limit
  BY <1>1, <1>2, PairOfParts
<1>4. /\ Pack(op).pre_verification_gas \in U256
      /\ Saturate(Pack(op).pre_verification_gas) = op.pre_verification_gas
  BY <1>1, <1>2, SaturatePair
<1>5. /\ Pack(op).gas_fees \in U256
      /\ High(Pack(op).gas_fees) = op.max_priority_fee_per_gas
      /\ Low(Pack(op).gas_fees) = op.max_fee_per_gas
  BY <1>1, <1>2, PairOfParts
<1>6. /\ Pack(op).init_code \in Seq(Byte)
      /\ Factory(Pack(op).init_code) =
           [address |-> Seen(op).factory, data |-> Seen(op).factory_data]
  <2>1. CASE op.factory = NoAddress
    <3>1. Pack(op).init_code = <<>> /\ Seen(op).factory = NoAddress
          /\ Seen(op).factory_data = <<>>
      BY <2>1 DEF Pack, Seen
    <3> QED
      BY <3>1, NothingIsRead, EmptySeq
  <2>2. CASE op.factory # NoAddress
    <3>1. /\ Pack(op).init_code = op.factory \o op.factory_data
          /\ Seen(op).factory = op.factory /\ Seen(op).factory_data = op.factory_data
      BY <2>2 DEF Pack, Seen
    <3>2. op.factory \in Address
      BY <1>1, <2>2
    <3> QED
      BY <1>1, <3>1, <3>2, FactoryOfCode
  <2> QED
    BY <2>1, <2>2
<1>7. /\ Pack(op).paymaster_and_data \in Seq(Byte)
      /\ Paymaster(Pack(op).paymaster_and_data) =
           [address |-> Seen(op).paymaster,
            verification_gas |-> Seen(op).paymaster_verification_gas_limit,
            post_op_gas |-> Seen(op).paymaster_post_op_gas_limit,
            data |-> Seen(op).paymaster_data]
  <2>1. CASE op.paymaster = NoAddress
    <3>1. /\ Pack(op).paymaster_and_data = <<>> /\ Seen(op).paymaster = NoAddress
          /\ Seen(op).paymaster_verification_gas_limit = ZeroGas
          /\ Seen(op).paymaster_post_op_gas_limit = ZeroGas
          /\ Seen(op).paymaster_data = <<>>
      BY <2>1 DEF Pack, Seen
    <3> QED
      BY <3>1, NothingIsRead, EmptySeq
  <2>2. CASE op.paymaster # NoAddress
    <3>1. /\ Pack(op).paymaster_and_data =
               op.paymaster \o op.paymaster_verification_gas_limit
                 \o op.paymaster_post_op_gas_limit \o op.paymaster_data
          /\ Seen(op).paymaster = op.paymaster
          /\ Seen(op).paymaster_verification_gas_limit = op.paymaster_verification_gas_limit
          /\ Seen(op).paymaster_post_op_gas_limit = op.paymaster_post_op_gas_limit
          /\ Seen(op).paymaster_data = op.paymaster_data
      BY <2>2 DEF Pack, Seen
    <3>2. op.paymaster \in Address
      BY <1>1, <2>2
    <3> QED
      BY <1>1, <3>1, <3>2, PaymasterOfString
  <2> QED
    BY <2>1, <2>2
<1>8. Pack(op) \in Packed
  <2> DEFINE p == Pack(op)
  <2>1. /\ p.sender = op.sender /\ p.nonce = op.nonce /\ p.call_data = op.call_data
        /\ p.signature = op.signature
        /\ p = [sender |-> p.sender, nonce |-> p.nonce, call_data |-> p.call_data,
                init_code |-> p.init_code, account_gas_limits |-> p.account_gas_limits,
                pre_verification_gas |-> p.pre_verification_gas, gas_fees |-> p.gas_fees,
                paymaster_and_data |-> p.paymaster_and_data, signature |-> p.signature]
    BY DEF Pack
  <2> HIDE DEF p
  <2>2. p \in Packed
    BY <1>1, <1>3, <1>4, <1>5, <1>6, <1>7, <2>1 DEF Packed, p
  <2> QED
    BY <2>2 DEF p
<1> QED
  BY <1>3, <1>4, <1>5, <1>6, <1>7, <1>8, Zenon

\* What comes back is what the EntryPoint sees.
LEMMA UnpackOfPack ==
  ASSUME NEW op \in UserOp
  PROVE  Unpack(Pack(op)) = Seen(op)
<1>1. /\ Pack(op).sender = op.sender /\ Pack(op).nonce = op.nonce
      /\ Pack(op).call_data = op.call_data /\ Pack(op).signature = op.signature
  BY DEF Pack
<1> DEFINE s == Seen(op)
           f == Factory(Pack(op).init_code)
           g == Paymaster(Pack(op).paymaster_and_data)
<1>2. /\ s.sender = op.sender /\ s.nonce = op.nonce /\ s.call_data = op.call_data
      /\ s.call_gas_limit = op.call_gas_limit
      /\ s.verification_gas_limit = op.verification_gas_limit
      /\ s.pre_verification_gas = op.pre_verification_gas
      /\ s.max_fee_per_gas = op.max_fee_per_gas
      /\ s.max_priority_fee_per_gas = op.max_priority_fee_per_gas
      /\ s.signature = op.signature
  BY DEF Seen
<1>3. s = [sender |-> s.sender, nonce |-> s.nonce, call_data |-> s.call_data,
           call_gas_limit |-> s.call_gas_limit,
           verification_gas_limit |-> s.verification_gas_limit,
           pre_verification_gas |-> s.pre_verification_gas,
           max_fee_per_gas |-> s.max_fee_per_gas,
           max_priority_fee_per_gas |-> s.max_priority_fee_per_gas,
           signature |-> s.signature,
           factory |-> s.factory, factory_data |-> s.factory_data,
           paymaster |-> s.paymaster,
           paymaster_verification_gas_limit |-> s.paymaster_verification_gas_limit,
           paymaster_post_op_gas_limit |-> s.paymaster_post_op_gas_limit,
           paymaster_data |-> s.paymaster_data]
  BY DEF Seen
<1>4. Unpack(Pack(op)) =
        [sender |-> Pack(op).sender, nonce |-> Pack(op).nonce,
         call_data |-> Pack(op).call_data,
         call_gas_limit |-> Low(Pack(op).account_gas_limits),
         verification_gas_limit |-> High(Pack(op).account_gas_limits),
         pre_verification_gas |-> Saturate(Pack(op).pre_verification_gas),
         max_fee_per_gas |-> Low(Pack(op).gas_fees),
         max_priority_fee_per_gas |-> High(Pack(op).gas_fees),
         signature |-> Pack(op).signature,
         factory |-> f.address, factory_data |-> f.data,
         paymaster |-> g.address,
         paymaster_verification_gas_limit |-> g.verification_gas,
         paymaster_post_op_gas_limit |-> g.post_op_gas,
         paymaster_data |-> g.data]
  BY DEF Unpack
<1>5. /\ f.address = s.factory /\ f.data = s.factory_data /\ g.address = s.paymaster
      /\ g.verification_gas = s.paymaster_verification_gas_limit
      /\ g.post_op_gas = s.paymaster_post_op_gas_limit /\ g.data = s.paymaster_data
  <2>1. f = [address |-> s.factory, data |-> s.factory_data]
    BY PackFields, Zenon
  <2>2. g = [address |-> s.paymaster,
             verification_gas |-> s.paymaster_verification_gas_limit,
             post_op_gas |-> s.paymaster_post_op_gas_limit, data |-> s.paymaster_data]
    BY PackFields, Zenon
  <2> HIDE DEF s, f, g
  <2> QED
    BY <2>1, <2>2
<1>6. /\ Low(Pack(op).account_gas_limits) = s.call_gas_limit
      /\ High(Pack(op).account_gas_limits) = s.verification_gas_limit
      /\ Saturate(Pack(op).pre_verification_gas) = s.pre_verification_gas
      /\ Low(Pack(op).gas_fees) = s.max_fee_per_gas
      /\ High(Pack(op).gas_fees) = s.max_priority_fee_per_gas
  BY <1>2, PackFields, Zenon
<1> HIDE DEF s, f, g
<1>7. Unpack(Pack(op)) = s
  BY <1>1, <1>2, <1>3, <1>4, <1>5, <1>6
<1> QED
  BY <1>7 DEF s

LEMMA PackOfSeen ==
  ASSUME NEW op \in UserOp
  PROVE  Pack(Seen(op)) = Pack(op) /\ Seen(Seen(op)) = Seen(op)
<1>1. Pack(Seen(op)) = Pack(op)
  BY DEF Pack, Seen
<1>2. Seen(Seen(op)) = Seen(op)
  BY DEF Seen
<1> QED
  BY <1>1, <1>2

-----------------------------------------------------------------------------
(* Types and hashes                                                        *)

LEMMA UnpackIsUserOp ==
  ASSUME NEW p \in Packed
  PROVE  Unpack(p) \in UserOp
<1> DEFINE f == Factory(p.init_code)
           g == Paymaster(p.paymaster_and_data)
<1>1. /\ p.sender \in Address /\ p.nonce \in U256 /\ p.call_data \in Seq(Byte)
      /\ p.signature \in Seq(Byte) /\ p.account_gas_limits \in U256
      /\ p.pre_verification_gas \in U256 /\ p.gas_fees \in U256
      /\ p.init_code \in Seq(Byte) /\ p.paymaster_and_data \in Seq(Byte)
  BY DEF Packed
<1>2. /\ Low(p.account_gas_limits) \in U128 /\ High(p.account_gas_limits) \in U128
      /\ Low(p.gas_fees) \in U128 /\ High(p.gas_fees) \in U128
  BY <1>1, PartsOfPair
<1>3. Saturate(p.pre_verification_gas) \in U128
  BY <1>1, SaturateParts
<1>4. f.address \in Address \cup {NoAddress} /\ f.data \in Seq(Byte)
  <2>1. Len(p.init_code) >= AddressLength \/ Len(p.init_code) < AddressLength
    BY <1>1, Widths
  <2>2. /\ f.data \in Seq(Byte)
        /\ Len(p.init_code) >= AddressLength => f.address \in Address
        /\ Len(p.init_code) < AddressLength =>
             f = [address |-> NoAddress, data |-> <<>>]
    BY <1>1, CodeOfFactory, Zenon
  <2> HIDE DEF f
  <2> QED
    BY <2>1, <2>2
<1>5. /\ g.address \in Address \cup {NoAddress} /\ g.data \in Seq(Byte)
      /\ g.verification_gas \in U128 /\ g.post_op_gas \in U128
  <2>1. \/ Len(p.paymaster_and_data) >= PaymasterLength
        \/ Len(p.paymaster_and_data) < PaymasterLength
    BY <1>1, Widths DEF PaymasterLength
  <2>2. /\ g.verification_gas \in U128 /\ g.post_op_gas \in U128
        /\ g.data \in Seq(Byte)
        /\ Len(p.paymaster_and_data) >= PaymasterLength => g.address \in Address
        /\ Len(p.paymaster_and_data) < PaymasterLength =>
             g = [address |-> NoAddress, verification_gas |-> ZeroGas,
                  post_op_gas |-> ZeroGas, data |-> <<>>]
    BY <1>1, StringOfPaymaster, Zenon
  <2> HIDE DEF g
  <2> QED
    BY <2>1, <2>2
<1> HIDE DEF f, g
<1> QED
  BY <1>1, <1>2, <1>3, <1>4, <1>5 DEF Unpack, UserOp, f, g

LEMMA EstimatedIsUserOp ==
  ASSUME NEW op \in OptionalGas
  PROVE  IntoUserOperation(op) \in UserOp
<1> DEFINE new == IntoUserOperation(op)
<1>1. {MaxVerificationGas, MaxCallGas, ZeroGas} \subseteq U128
  BY UserOpConstants, ConstantGas
<1>2. DOMAIN op = {"sender", "nonce", "call_data", "call_gas_limit",
                   "verification_gas_limit", "pre_verification_gas", "max_fee_per_gas",
                   "max_priority_fee_per_gas", "signature", "factory",
                   "factory_data",
                   "paymaster", "paymaster_verification_gas_limit",
                   "paymaster_post_op_gas_limit", "paymaster_data"}
  BY DEF OptionalGas
<1>3. /\ new.sender = op.sender /\ new.nonce = op.nonce /\ new.call_data = op.call_data
      /\ new.signature = op.signature /\ new.factory = op.factory
      /\ new.factory_data = op.factory_data /\ new.paymaster = op.paymaster
      /\ new.paymaster_data = op.paymaster_data
  BY <1>2 DEF IntoUserOperation, GasFields
<1>4. \A f \in GasFields : op[f] \in U128 \cup {NoGas} /\ f \in DOMAIN op
  BY <1>2 DEF GasFields, OptionalGas
<1>5. \A f \in GasFields : new[f] \in U128
  BY <1>1, <1>4 DEF IntoUserOperation
<1>6. new = [f \in DOMAIN op |-> new[f]]
  BY DEF IntoUserOperation
<1> HIDE DEF new
<1>7. new \in UserOp
  BY <1>2, <1>3, <1>5, <1>6 DEF GasFields, OptionalGas, UserOp
<1> QED
  BY <1>7 DEF new

\* compute_hash and getUserOpHash leave out the same field.
LEMMA HashIgnoresSignature ==
  ASSUME NEW p \in Packed, NEW ctx
  PROVE  HashPacked(p, ctx) = EntryPointHash(p, ctx)
BY DEF HashPacked, EntryPointHash, Packed

LEMMA PackParts ==
  ASSUME NEW op
  PROVE  /\ Pack(op).sender = op.sender /\ Pack(op).nonce = op.nonce
         /\ Pack(op).call_data = op.call_data
         /\ Pack(op).init_code = IF op.factory = NoAddress THEN <<>>
                                 ELSE op.factory \o op.factory_data
         /\ Pack(op).account_gas_limits =
              PackPair(op.verification_gas_limit, op.call_gas_limit)
         /\ Pack(op).pre_verification_gas = PackPair(ZeroGas, op.pre_verification_gas)
         /\ Pack(op).gas_fees =
              PackPair(op.max_priority_fee_per_gas, op.max_fee_per_gas)
         /\ Pack(op).paymaster_and_data =
              IF op.paymaster = NoAddress THEN <<>>
              ELSE op.paymaster \o op.paymaster_verification_gas_limit
                     \o op.paymaster_post_op_gas_limit \o op.paymaster_data
BY DEF Pack

LEMMA UnpackParts ==
  ASSUME NEW p
  PROVE  /\ Unpack(p).sender = p.sender /\ Unpack(p).nonce = p.nonce
         /\ Unpack(p).call_data = p.call_data
         /\ Unpack(p).factory = Factory(p.init_code).address
         /\ Unpack(p).factory_data = Factory(p.init_code).data
         /\ Unpack(p).call_gas_limit = Low(p.account_gas_limits)
         /\ Unpack(p).verification_gas_limit = High(p.account_gas_limits)
         /\ Unpack(p).pre_verification_gas = Saturate(p.pre_verification_gas)
         /\ Unpack(p).max_fee_per_gas = Low(p.gas_fees)
         /\ Unpack(p).max_priority_fee_per_gas = High(p.gas_fees)
         /\ LET g == Paymaster(p.paymaster_and_data)
            IN  /\ Unpack(p).paymaster = g.address
                /\ Unpack(p).paymaster_verification_gas_limit = g.verification_gas
                /\ Unpack(p).paymaster_post_op_gas_limit = g.post_op_gas
                /\ Unpack(p).paymaster_data = g.data
BY DEF Unpack

\* Packing again what was unpacked: each string comes back if the EntryPoint
\* takes it, and is lost, or saturated, otherwise.
LEMMA InitCodeComesBack ==
  ASSUME NEW p \in Packed
  PROVE  Pack(Unpack(p)).init_code = p.init_code
           <=> p.init_code = <<>> \/ Len(p.init_code) >= AddressLength
<1> DEFINE c == p.init_code
           f == Factory(c)
<1>1. c \in Seq(Byte)
  BY DEF Packed
<1>2. Pack(Unpack(p)).init_code =
        IF f.address = NoAddress THEN <<>> ELSE f.address \o f.data
  <2> DEFINE u == Unpack(p)
  <2>1. u.factory = f.address /\ u.factory_data = f.data
    BY UnpackParts
  <2> HIDE DEF u, f
  <2>2. Pack(u).init_code =
          IF u.factory = NoAddress THEN <<>> ELSE u.factory \o u.factory_data
    BY PackParts
  <2> QED
    BY <2>1, <2>2 DEF u
<1>3. /\ Len(c) >= AddressLength => f.address \in Address /\ f.address \o f.data = c
      /\ Len(c) < AddressLength => f = [address |-> NoAddress, data |-> <<>>]
  BY <1>1, CodeOfFactory, Zenon
<1>4. Len(c) >= AddressLength \/ Len(c) < AddressLength
  BY <1>1, Widths
<1>5. ~(Len(c) >= AddressLength /\ Len(c) < AddressLength)
  BY <1>1, Widths
<1> HIDE DEF c, f
<1>6. CASE Len(c) >= AddressLength
  BY <1>2, <1>3, <1>6, UserOpConstants DEF c
<1>7. CASE Len(c) < AddressLength
  <2>1. f.address = NoAddress
    BY <1>3, <1>7
  <2> QED
    BY <1>2, <1>5, <1>7, <2>1 DEF c
<1> QED
  BY <1>4, <1>6, <1>7 DEF c

LEMMA PaymasterComesBack ==
  ASSUME NEW p \in Packed
  PROVE  Pack(Unpack(p)).paymaster_and_data = p.paymaster_and_data
           <=> \/ p.paymaster_and_data = <<>>
               \/ Len(p.paymaster_and_data) >= PaymasterLength
<1> DEFINE c == p.paymaster_and_data
           g == Paymaster(c)
<1>1. c \in Seq(Byte)
  BY DEF Packed
<1>2. Pack(Unpack(p)).paymaster_and_data =
        IF g.address = NoAddress THEN <<>>
        ELSE g.address \o g.verification_gas \o g.post_op_gas \o g.data
  <2> DEFINE u == Unpack(p)
  <2>1. /\ u.paymaster = g.address
        /\ u.paymaster_verification_gas_limit = g.verification_gas
        /\ u.paymaster_post_op_gas_limit = g.post_op_gas
        /\ u.paymaster_data = g.data
    BY UnpackParts
  <2> HIDE DEF u, g
  <2>2. Pack(u).paymaster_and_data =
          IF u.paymaster = NoAddress THEN <<>>
          ELSE u.paymaster \o u.paymaster_verification_gas_limit
                 \o u.paymaster_post_op_gas_limit \o u.paymaster_data
    BY PackParts
  <2> QED
    BY <2>1, <2>2 DEF u
<1>3. /\ Len(c) >= PaymasterLength =>
           /\ g.address \in Address
           /\ g.address \o g.verification_gas \o g.post_op_gas \o g.data = c
      /\ Len(c) < PaymasterLength =>
           g = [address |-> NoAddress, verification_gas |-> ZeroGas,
                post_op_gas |-> ZeroGas, data |-> <<>>]
  BY <1>1, StringOfPaymaster, Zenon
<1>4. Len(c) >= PaymasterLength \/ Len(c) < PaymasterLength
  BY <1>1, Widths DEF PaymasterLength
<1>5. ~(Len(c) >= PaymasterLength /\ Len(c) < PaymasterLength)
  BY <1>1, Widths DEF PaymasterLength
<1> HIDE DEF c, g
<1>6. CASE Len(c) >= PaymasterLength
  BY <1>2, <1>3, <1>6, UserOpConstants DEF c
<1>7. CASE Len(c) < PaymasterLength
  <2>1. g.address = NoAddress
    BY <1>3, <1>7
  <2> QED
    BY <1>2, <1>5, <1>7, <2>1 DEF c
<1> QED
  BY <1>4, <1>6, <1>7 DEF c

LEMMA GasComesBack ==
  ASSUME NEW p \in Packed
  PROVE  /\ Pack(Unpack(p)).account_gas_limits = p.account_gas_limits
         /\ Pack(Unpack(p)).gas_fees = p.gas_fees
         /\ Pack(Unpack(p)).pre_verification_gas = p.pre_verification_gas
              <=> High(p.pre_verification_gas) = ZeroGas
<1>1. /\ p.account_gas_limits \in U256 /\ p.gas_fees \in U256
      /\ p.pre_verification_gas \in U256
  BY DEF Packed
<1>2. /\ Pack(Unpack(p)).account_gas_limits =
           PackPair(High(p.account_gas_limits), Low(p.account_gas_limits))
      /\ Pack(Unpack(p)).gas_fees = PackPair(High(p.gas_fees), Low(p.gas_fees))
      /\ Pack(Unpack(p)).pre_verification_gas =
           PackPair(ZeroGas, Saturate(p.pre_verification_gas))
  BY PackParts, UnpackParts
<1>3. /\ Pack(Unpack(p)).account_gas_limits = p.account_gas_limits
      /\ Pack(Unpack(p)).gas_fees = p.gas_fees
  BY <1>1, <1>2, PartsOfPair
<1>4. Pack(Unpack(p)).pre_verification_gas = p.pre_verification_gas
        <=> High(p.pre_verification_gas) = ZeroGas
  <2>1. /\ High(p.pre_verification_gas) = ZeroGas =>
             PackPair(ZeroGas, Saturate(p.pre_verification_gas)) = p.pre_verification_gas
        /\ High(PackPair(ZeroGas, Saturate(p.pre_verification_gas))) = ZeroGas
    BY <1>1, SaturateParts, Zenon
  <2> QED
    BY <1>2, <2>1, Zenon
<1> QED
  BY <1>3, <1>4, Zenon

\* An operation taken from the chain keeps its hash if and only if it is well
\* formed.
LEMMA WellFormedKeepsHash ==
  ASSUME NEW p \in Packed, NEW ctx
  PROVE  ComputeHash(Unpack(p), ctx) = EntryPointHash(p, ctx) <=> WellFormed(p)
<1> DEFINE q == Pack(Unpack(p))
<1>1. q \in Packed
  BY UnpackIsUserOp, PackFields
<1>2. q.sender = p.sender /\ q.nonce = p.nonce /\ q.call_data = p.call_data
  BY PackParts, UnpackParts
<1>3. /\ q.account_gas_limits = p.account_gas_limits /\ q.gas_fees = p.gas_fees
      /\ q.pre_verification_gas = p.pre_verification_gas
           <=> High(p.pre_verification_gas) = ZeroGas
      /\ q.init_code = p.init_code
           <=> p.init_code = <<>> \/ Len(p.init_code) >= AddressLength
      /\ q.paymaster_and_data = p.paymaster_and_data
           <=> \/ p.paymaster_and_data = <<>>
               \/ Len(p.paymaster_and_data) >= PaymasterLength
  BY GasComesBack, InitCodeComesBack, PaymasterComesBack, Zenon
<1> HIDE DEF q
<1> DEFINE D == {"sender", "nonce", "init_code", "call_data",
  "account_gas_limits",
                 "pre_verification_gas", "gas_fees", "paymaster_and_data"}
           Unsigned(r) == [f \in DOMAIN r |-> IF f = "signature" THEN <<>> ELSE r[f]]
<1>4. DOMAIN q = D \cup {"signature"} /\ DOMAIN p = D \cup {"signature"}
  BY <1>1 DEF Packed
<1>5. HashPacked(q, ctx) = HashPacked(p, ctx) <=>
        /\ q.sender = p.sender /\ q.nonce = p.nonce /\ q.call_data = p.call_data
        /\ q.init_code = p.init_code
        /\ q.account_gas_limits = p.account_gas_limits /\ q.gas_fees = p.gas_fees
        /\ q.pre_verification_gas = p.pre_verification_gas
        /\ q.paymaster_and_data = p.paymaster_and_data
  <2>1. HashPacked(q, ctx) = <<Unsigned(q), ctx>> /\ HashPacked(p, ctx) = <<Unsigned(p), ctx>>
    BY <1>1, HashIgnoresSignature DEF EntryPointHash
  <2>2. Unsigned(q) = Unsigned(p) <=> \A f \in D : q[f] = p[f]
    <3>1. \A f \in D : f \in DOMAIN q /\ f \in DOMAIN p /\ f # "signature"
      BY <1>4
    <3>2. \A f \in D : Unsigned(q)[f] = q[f] /\ Unsigned(p)[f] = p[f]
      BY <3>1
    <3>3. ASSUME \A f \in D : q[f] = p[f] PROVE Unsigned(q) = Unsigned(p)
      BY <1>4, <3>1, <3>3
    <3> QED
      BY <3>2, <3>3
  <2>3. (\A f \in D : q[f] = p[f]) <=>
          /\ q.sender = p.sender /\ q.nonce = p.nonce /\ q.call_data = p.call_data
          /\ q.init_code = p.init_code
          /\ q.account_gas_limits = p.account_gas_limits /\ q.gas_fees = p.gas_fees
          /\ q.pre_verification_gas = p.pre_verification_gas
          /\ q.paymaster_and_data = p.paymaster_and_data
    OBVIOUS
  <2> HIDE DEF D, Unsigned
  <2>4. HashPacked(q, ctx) = HashPacked(p, ctx) <=> Unsigned(q) = Unsigned(p)
    BY <2>1
  <2> QED
    BY <2>2, <2>3, <2>4, Zenon
<1>6. ComputeHash(Unpack(p), ctx) = HashPacked(q, ctx)
  BY DEF ComputeHash, q
<1> QED
  BY <1>2, <1>3, <1>5, <1>6, HashIgnoresSignature, Zenon DEF WellFormed

-----------------------------------------------------------------------------
(* The specification                                                       *)

\* The cached hash alone
CachedHash == hash # NoHash => hash = EntryPointHash(Pack(uo), context)

UserOpInv == UserOpTypeOK /\ CachedHash

LEMMA InitUserOpInv == UserOpInit => UserOpInv
BY UserOpConstants DEF UserOpInit, UserOpInv, UserOpTypeOK, CachedHash

\* What sets the context or the fields computes the hash.
LEMMA HashIsComputed ==
  ASSUME uo' \in UserOp, NEW ctx, context' = ctx, hash' = ComputeHash(uo', ctx)
  PROVE  CachedHash'
<1>1. Pack(uo') \in Packed
  BY PackFields
<1> QED
  BY <1>1, HashIgnoresSignature DEF CachedHash, ComputeHash

LEMMA NextUserOpInv == UserOpInv /\ [UserOpNext]_uo_vars => UserOpInv'
<1> SUFFICES ASSUME UserOpInv, [UserOpNext]_uo_vars
             PROVE  UserOpInv'
  OBVIOUS
<1>0. uo \in UserOp /\ packed \in Packed /\ context \in Context \cup {NoContext}
  BY DEF UserOpInv, UserOpTypeOK
<1>1. ASSUME NEW ctx \in Context, SetContext(ctx) PROVE UserOpInv'
  <2>1. UserOpTypeOK'
    BY <1>0, <1>1 DEF SetContext, UserOpTypeOK
  <2>2. CachedHash'
    BY <1>0, <1>1, HashIsComputed DEF SetContext
  <2> QED
    BY <2>1, <2>2 DEF UserOpInv
<1>2. ASSUME NEW ctx \in Context, UnpackIt(ctx) PROVE UserOpInv'
  <2>1. uo' \in UserOp
    BY <1>0, <1>2, UnpackIsUserOp DEF UnpackIt
  <2>2. UserOpTypeOK'
    BY <1>0, <1>2, <2>1 DEF UnpackIt, UserOpTypeOK
  <2>3. CachedHash'
    BY <1>2, <2>1, HashIsComputed DEF UnpackIt
  <2> QED
    BY <2>2, <2>3 DEF UserOpInv
<1>3. ASSUME NEW ctx \in Context, ToEstimate(ctx) PROVE UserOpInv'
  <2>1. uo' \in UserOp
    BY <1>3, EstimatedIsUserOp, UserOpConstants DEF ToEstimate
  <2>2. UserOpTypeOK'
    BY <1>0, <1>3, <2>1 DEF ToEstimate, UserOpTypeOK
  <2>3. CachedHash'
    BY <1>3, <2>1, HashIsComputed DEF ToEstimate
  <2> QED
    BY <2>2, <2>3 DEF UserOpInv
<1>4. CASE PackIt
  <2>1. UserOpTypeOK'
    BY <1>0, <1>4, PackFields DEF PackIt, UserOpTypeOK
  <2>2. CachedHash'
    BY <1>4 DEF PackIt, UserOpInv, CachedHash
  <2> QED
    BY <2>1, <2>2 DEF UserOpInv
<1>5. CASE Receive
  BY <1>0, <1>5, UserOpConstants
  DEF Receive, Deserialized, UserOpInv, UserOpTypeOK, CachedHash
<1>6. CASE UNCHANGED uo_vars
  BY <1>6 DEF uo_vars, UserOpInv, UserOpTypeOK, CachedHash
<1> QED
  BY <1>1, <1>2, <1>3, <1>4, <1>5, <1>6 DEF UserOpNext

-----------------------------------------------------------------------------
(* Theorems                                                                *)

\* Every conversion of user_operation keeps the widths of the fields, whatever
\* bytes an operation on the chain consists of.
THEOREM UserOpTypeCorrect == UserOpSpec => []UserOpTypeOK
<1>1. UserOpInv => UserOpTypeOK
  BY DEF UserOpInv
<1> QED
  BY <1>1, InitUserOpInv, NextUserOpInv, PTL DEF UserOpSpec

\* The cached hash is the EntryPoint's, and unpacking keeps that of every
\* operation that is well formed, and of no other.
THEOREM HashIsCached == UserOpSpec => []HashIsEntryPoints
<1>1. UserOpInv => HashIsEntryPoints
  <2> SUFFICES ASSUME UserOpInv PROVE HashIsEntryPoints
    OBVIOUS
  <2>1. \A ctx \in Context :
          ComputeHash(Unpack(packed), ctx) = EntryPointHash(packed, ctx)
            <=> WellFormed(packed)
    BY WellFormedKeepsHash DEF UserOpInv, UserOpTypeOK
  <2> QED
    BY <2>1 DEF UserOpInv, CachedHash, HashIsEntryPoints
<1> QED
  BY <1>1, InitUserOpInv, NextUserOpInv, PTL DEF UserOpSpec

\* An operation that was packed and unpacked packs to the same, has the same
\* id and the same entities, and is not changed by a second round.
THEOREM PackingIsFaithful == UserOpSpec => []PackingKeepsOperation
<1>1. UserOpInv => PackingKeepsOperation
  <2> SUFFICES ASSUME UserOpInv PROVE PackingKeepsOperation
    OBVIOUS
  <2>1. uo \in UserOp /\ Seen(uo) \in UserOp
    BY SeenIsUserOp DEF UserOpInv, UserOpTypeOK
  <2>2. Unpack(Pack(uo)) = Seen(uo) /\ Pack(Seen(uo)) = Pack(uo)
    BY <2>1, UnpackOfPack, PackOfSeen
  <2>3. Id(Seen(uo)) = Id(uo) /\ Entities(Seen(uo)) = Entities(uo)
    BY DEF Id, Entities, Seen
  <2> QED
    BY <2>2, <2>3, Zenon DEF PackingKeepsOperation
<1> QED
  BY <1>1, InitUserOpInv, NextUserOpInv, PTL DEF UserOpSpec

-----------------------------------------------------------------------------
(***************************************************************************)
(* The methods that ask the node                                           *)
(***************************************************************************)

(* The state of a request                                                  *)

\* What a handler has at hand, by where it is
LEMMA HandlerFields ==
  ASSUME EthTypeOK
  PROVE  /\ handler.at \in {"idle", "simulate_validation", "simulate_handle_op",
                            "by_hash", "logs", "receipt"}
         /\ handler.at = "simulate_validation" => handler.price \in Price
         /\ handler.at = "simulate_handle_op" =>
              handler.price \in Price /\ handler.pre_op_gas \in Gas
         /\ handler.at \in {"by_hash", "logs", "receipt"} => handler.found \in BOOLEAN
         /\ handler.at = "logs" => handler.current_block \in 1..MaxHeight
         /\ handler.at = "receipt" => handler.success \in Outcome \ {"none"}
  BY DEF EthTypeOK

\* What is known of the chain
LEMMA ChainFields ==
  ASSUME EthTypeOK
  PROVE  /\ cost.verification \in Nat \ {0} /\ cost.execution \in Nat \ {0}
         /\ cost.verification \in Gas /\ cost \in Phases
         /\ Len(blocks) \in Nat /\ DOMAIN blocks = 1..Len(blocks)
         /\ Len(blocks) <= MaxHeight
         /\ \A n \in 1..Len(blocks) : blocks[n] \in Outcome
         /\ \A m, n \in 1..Len(blocks) :
              blocks[m] # "none" /\ blocks[n] # "none" => m = n
<1>1. /\ cost \in Phases /\ blocks \in Seq(Outcome) /\ Len(blocks) \in 1..MaxHeight
      /\ \A m, n \in DOMAIN blocks :
           blocks[m] # "none" /\ blocks[n] # "none" => m = n
  BY DEF EthTypeOK
<1>2. cost.verification \in Gas /\ cost.execution \in Gas
  BY <1>1 DEF Phases
<1>3. /\ Len(blocks) \in Nat /\ DOMAIN blocks = 1..Len(blocks)
      /\ Len(blocks) <= MaxHeight
  BY <1>1, EthConstants
<1>4. \A n \in 1..Len(blocks) : blocks[n] \in Outcome
  BY <1>1, <1>3
<1> QED
  BY <1>1, <1>2, <1>3, <1>4, EthConstants

\* The call gas of an estimate is a number, and what the operation pays when
\* the validation became no dearer.
LEMMA CallGasCovers ==
  ASSUME EthTypeOK, NEW price \in Price, NEW pre_op_gas \in Gas
  PROVE  LET gas == CallGas(cost.verification, pre_op_gas, Paid(price))
         IN  /\ gas \in Nat
             /\ price > 0 /\ cost.verification <= pre_op_gas => gas >= cost.execution
<1>1. /\ price \in Nat /\ pre_op_gas \in Nat
      /\ cost.verification \in Nat /\ cost.execution \in Nat
  BY ChainFields, EthConstants
<1> DEFINE v == cost.verification  e == cost.execution
<1> HIDE DEF v, e
<1>2. /\ Paid(price) = (v + e) * price /\ v \in Nat /\ e \in Nat
      /\ cost.verification = v /\ cost.execution = e
  BY <1>1 DEF Paid, v, e
<1>3. /\ (v + e) * price \in Nat
      /\ price > 0 => (v + e) * price >= e
  <2>1. (v + e) * price \in Nat
    BY <1>1, <1>2
  <2>2. ASSUME price > 0 PROVE (v + e) * price >= e
    <3>1. price - 1 \in Nat
      BY <1>1, <2>2
    <3>2. (v + e) * (price - 1) \in Nat
      BY <1>2, <3>1
    <3>3. (v + e) * price = (v + e) * (price - 1) + (v + e)
      BY <1>1, <1>2
    <3> QED
      BY <1>2, <3>2, <3>3
  <2> QED
    BY <2>1, <2>2
<1> QED
  BY <1>1, <1>2, <1>3 DEF CallGas

-----------------------------------------------------------------------------
(* The invariant                                                           *)

\* The operation was lost, or a block was replaced: then anything goes.
Gone == lost \/ eth_reorgs > 0

\* Invariant: the operation is in the pool or on the chain, unless Gone.
PoolInv ==
  /\ lost => ~in_pool
  /\ in_pool \/ Gone \/ Mined

\* Invariant: a request that did not find the operation in the pool will find
\* its log up to the head it read, and a log it read is of a block that is
\* still there.
RequestInv ==
  /\ handler.at \in {"by_hash", "logs"} /\ ~handler.found => ~in_pool
  /\ handler.at = "logs" =>
       /\ handler.current_block <= Len(blocks)
       /\ ~handler.found =>
            \/ Gone
            \/ \E n \in 1..handler.current_block : blocks[n] # "none"
  /\ handler.at = "receipt" /\ eth_reorgs = 0 =>
       \E n \in 1..Len(blocks) : blocks[n] = handler.success

ResponseInv == EstimateCovers /\ SeenSomewhere /\ ReceiptAgrees

EthInv == EthTypeOK /\ PoolInv /\ RequestInv /\ ResponseInv

LEMMA InitEthInv == EthInit => EthInv
<1> SUFFICES ASSUME EthInit PROVE EthInv
  OBVIOUS
<1>1. EthTypeOK
  <2>1. blocks \in Seq(Outcome) /\ Len(blocks) = 1 /\ DOMAIN blocks = 1..1
    BY DEF EthInit, Outcome
  <2>2. \A m, n \in DOMAIN blocks : m = n
    BY <2>1
  <2>3. Len(blocks) \in 1..MaxHeight /\ eth_reorgs \in 0..MaxEthReorgs
    BY <2>1, EthConstants DEF EthInit
  <2>4. /\ handler \in [at : {"idle"}]
        /\ response \in [to : {"none", "invalid_params", "internal"}]
    BY DEF EthInit, Idle, NoResponse
  <2> QED
    BY <2>1, <2>2, <2>3, <2>4 DEF EthInit, EthTypeOK
<1>2. PoolInv /\ RequestInv
  BY DEF EthInit, PoolInv, RequestInv, Idle
<1>3. ResponseInv
  BY DEF EthInit, ResponseInv, EstimateCovers, SeenSomewhere, ReceiptAgrees,
    NoResponse
<1> QED
  BY <1>1, <1>2, <1>3 DEF EthInv

\* A request takes a step, and the world is as it was: what it has to show
\* of the handler, and of its answer if it gave one
LEMMA RequestStep ==
  ASSUME EthInv, UNCHANGED outside, EthTypeOK',
         RequestInv', response' = response \/ ResponseInv'
  PROVE  EthInv'
<1>1. /\ cost' = cost /\ blocks' = blocks /\ in_pool' = in_pool
      /\ eth_reorgs' = eth_reorgs /\ lost' = lost
  BY DEF outside
<1>2. PoolInv'
  BY <1>1 DEF EthInv, PoolInv, Gone, Mined
<1>3. ResponseInv'
  <2>1. CASE response' = response
    BY <1>1, <2>1 DEF EthInv, ResponseInv, EstimateCovers, SeenSomewhere,
      ReceiptAgrees
  <2> QED
    BY <2>1
<1> QED
  BY <1>2, <1>3 DEF EthInv

\* A request that ends with an error claims nothing.
LEMMA ErrorPreserves ==
  ASSUME EthInv, UNCHANGED outside, NEW kind \in {"invalid_params", "internal"},
         Error(kind)
  PROVE  EthInv'
<1>1. handler' = Idle /\ response' = [to |-> kind]
  BY DEF Error, Answers
<1>2. EthTypeOK'
  BY <1>1 DEF EthInv, EthTypeOK, outside, Idle
<1>3. RequestInv'
  BY <1>1 DEF RequestInv, Idle
<1>4. ResponseInv'
  BY <1>1 DEF ResponseInv, EstimateCovers, SeenSomewhere, ReceiptAgrees
<1> QED
  BY <1>2, <1>3, <1>4, RequestStep

\* A simulation fails with one of the two errors.
LEMMA SimulatedKinds ==
  ASSUME NEW reply
  PROVE  Simulated(reply) \in {"output", "invalid_params", "internal"}
BY DEF Simulated

\* The first simulation gives the gas of the validation.
LEMMA ValidationPreserves ==
  ASSUME EthInv, NEW reply \in Reply, ValidationSimulated(reply)
  PROVE  EthInv'
<1>1. CASE Simulated(reply) = "output"
  <2>1. /\ handler' = [at |-> "simulate_handle_op", price |-> handler.price,
                       pre_op_gas |-> cost.verification]
        /\ response' = response /\ UNCHANGED outside
    BY <1>1 DEF ValidationSimulated
  <2>2. handler.price \in Price /\ cost.verification \in Gas
    BY HandlerFields, ChainFields DEF EthInv, ValidationSimulated
  <2>3. EthTypeOK'
    BY <2>1, <2>2 DEF EthInv, EthTypeOK, outside
  <2>4. RequestInv'
    BY <2>1 DEF RequestInv
  <2> QED
    BY <2>1, <2>3, <2>4, RequestStep
<1>2. CASE Simulated(reply) # "output"
  BY <1>2, SimulatedKinds, ErrorPreserves DEF ValidationSimulated
<1> QED
  BY <1>1, <1>2

\* The estimate covers what the second simulation saw.
LEMMA EstimatePreserves ==
  ASSUME EthInv, NEW reply \in Reply, HandleOpSimulated(reply)
  PROVE  EthInv'
<1>1. CASE Simulated(reply) = "output"
  <2> DEFINE gas == CallGas(cost.verification, handler.pre_op_gas, Paid(handler.price))
  <2>1. /\ handler' = Idle /\ UNCHANGED outside
        /\ response' = [to |-> "estimate",
                        verification_gas_limit |-> handler.pre_op_gas,
                        call_gas_limit |-> gas,
                        price |-> handler.price, simulated |-> cost]
    BY <1>1 DEF HandleOpSimulated, Answers
  <2>2. handler.price \in Price /\ handler.pre_op_gas \in Gas /\ cost \in Phases
    BY HandlerFields, ChainFields DEF EthInv, HandleOpSimulated
  <2>3. /\ gas \in Nat
        /\ handler.price > 0 /\ cost.verification <= handler.pre_op_gas =>
             gas >= cost.execution
    BY <2>2, CallGasCovers DEF EthInv
  <2>4. handler.pre_op_gas \in Nat /\ cost.verification \in Nat
    BY <2>2, ChainFields, EthConstants DEF EthInv
  <2> HIDE DEF gas
  <2>5. EthTypeOK'
    BY <2>1, <2>2, <2>3 DEF EthInv, EthTypeOK, outside, Idle
  <2>6. RequestInv'
    BY <2>1 DEF RequestInv, Idle
  <2>7. ResponseInv'
    BY <2>1, <2>3, <2>4 DEF ResponseInv, EstimateCovers, SeenSomewhere,
      ReceiptAgrees
  <2> QED
    BY <2>1, <2>5, <2>6, <2>7, RequestStep
<1>2. CASE Simulated(reply) # "output"
  BY <1>2, SimulatedKinds, ErrorPreserves DEF HandleOpSimulated
<1> QED
  BY <1>1, <1>2

\* The pool is asked: what is not there was mined, unless it is gone.
LEMMA ByHashPreserves ==
  ASSUME EthInv, ByHash
  PROVE  EthInv'
<1>1. /\ handler' = [at |-> "by_hash", found |-> in_pool]
      /\ response' = response /\ UNCHANGED outside
  BY DEF ByHash
<1>2. EthTypeOK'
  BY <1>1 DEF EthInv, EthTypeOK, outside
<1>3. RequestInv'
  BY <1>1 DEF RequestInv, outside
<1> QED
  BY <1>1, <1>2, <1>3, RequestStep

\* The head is read: a block that mined the operation is not beyond it.
LEMMA HeadPreserves ==
  ASSUME EthInv, HeadArrives
  PROVE  EthInv'
<1>1. /\ handler.at = "by_hash" /\ response' = response /\ UNCHANGED outside
      /\ handler' = [at |-> "logs", found |-> handler.found,
                     current_block |-> Len(blocks)]
  BY DEF HeadArrives
<1>2. handler.found \in BOOLEAN /\ Len(blocks) \in 1..MaxHeight
  BY <1>1, HandlerFields DEF EthInv, EthTypeOK
<1>3. EthTypeOK'
  BY <1>1, <1>2 DEF EthInv, EthTypeOK, outside
<1>4. ASSUME ~handler.found
      PROVE  ~in_pool /\ (Gone \/ \E n \in 1..Len(blocks) : blocks[n] # "none")
  BY <1>1, <1>4, ChainFields DEF EthInv, PoolInv, RequestInv, Mined
<1>5. RequestInv'
  BY <1>1, <1>2, <1>4 DEF RequestInv, outside, Gone
<1> QED
  BY <1>1, <1>3, <1>5, RequestStep

\* The logs are read: there is none only if the one there was is too old.
LEMMA LogsPreserves ==
  ASSUME EthInv, LogsArrive
  PROVE  EthInv'
<1> DEFINE logs == {n \in 1..MaxHeight : InWindow(n) /\ blocks[n] # "none"}
<1>1. handler.at = "logs" /\ UNCHANGED outside
  BY DEF LogsArrive
<1>2. /\ handler.found \in BOOLEAN /\ handler.current_block \in 1..MaxHeight
      /\ handler.current_block <= Len(blocks) /\ Len(blocks) \in Nat
      /\ DOMAIN blocks = 1..Len(blocks) /\ Len(blocks) <= MaxHeight
      /\ \A n \in 1..Len(blocks) : blocks[n] \in Outcome
      /\ LogWindow \in Nat /\ MaxHeight \in Nat
  BY <1>1, HandlerFields, ChainFields, EthConstants DEF EthInv, RequestInv
<1>3. CASE logs = {}
  <2>1. /\ handler' = Idle
        /\ response' = [to |-> "receipt", found |-> handler.found,
                        success |-> "none", transaction |-> "none"]
    BY <1>3 DEF LogsArrive, Answers
  <2>2. EthTypeOK'
    BY <1>1, <1>2, <2>1 DEF EthInv, EthTypeOK, outside, Idle, Outcome
  <2>3. RequestInv'
    BY <2>1 DEF RequestInv, Idle
  <2>4. ~handler.found => Gone \/ Len(blocks) > LogWindow + 1
    <3> SUFFICES ASSUME ~handler.found, ~Gone
                 PROVE  Len(blocks) > LogWindow + 1
      OBVIOUS
    <3>1. PICK n \in 1..handler.current_block : blocks[n] # "none"
      BY <1>1 DEF EthInv, RequestInv
    <3>2. n \in 1..MaxHeight /\ n \in DOMAIN blocks /\ n <= handler.current_block
      BY <1>2
    <3>3. ~(n >= handler.current_block - LogWindow)
      BY <1>3, <3>1, <3>2 DEF InWindow
    <3> QED
      BY <1>2, <3>2, <3>3
  <2>5. ResponseInv'
    BY <1>1, <2>1, <2>4
    DEF ResponseInv, EstimateCovers, SeenSomewhere, ReceiptAgrees, outside,
      Gone
  <2> QED
    BY <1>1, <2>2, <2>3, <2>5, RequestStep
<1>4. CASE logs # {}
  <2>1. PICK n \in logs : /\ handler' = [at |-> "receipt", found |-> handler.found,
                                         success |-> blocks[n]]
                          /\ response' = response
    BY <1>4 DEF LogsArrive
  <2>2. n \in 1..Len(blocks) /\ blocks[n] # "none"
    BY <1>2, <2>1 DEF InWindow
  <2>3. EthTypeOK'
    BY <1>1, <1>2, <2>1, <2>2 DEF EthInv, EthTypeOK, outside
  <2>4. RequestInv'
    BY <1>1, <2>1, <2>2 DEF RequestInv, outside
  <2> QED
    BY <1>1, <2>1, <2>3, <2>4, RequestStep
<1> QED
  BY <1>3, <1>4

\* The transaction is read: it is in the block the log was of.
LEMMA ReceiptPreserves ==
  ASSUME EthInv, ReceiptArrives
  PROVE  EthInv'
<1>1. PICK outcome \in Outcome :
        /\ outcome = "none" <=> \A n \in DOMAIN blocks : blocks[n] = "none"
        /\ outcome # "none" => \E n \in DOMAIN blocks : blocks[n] = outcome
        /\ handler' = Idle
        /\ response' = [to |-> "receipt", found |-> handler.found,
                        success |-> handler.success, transaction |-> outcome]
  BY DEF ReceiptArrives, Answers
<1>2. handler.at = "receipt" /\ UNCHANGED outside
  BY DEF ReceiptArrives
<1>3. handler.found \in BOOLEAN /\ handler.success \in Outcome \ {"none"}
  BY <1>2, HandlerFields DEF EthInv
<1>4. EthTypeOK'
  BY <1>1, <1>2, <1>3 DEF EthInv, EthTypeOK, outside, Idle
<1>5. RequestInv'
  BY <1>1 DEF RequestInv, Idle
<1>6. ASSUME eth_reorgs = 0
      PROVE  handler.success = outcome
  <2>1. PICK m \in 1..Len(blocks) : blocks[m] = handler.success
    BY <1>2, <1>6 DEF EthInv, RequestInv
  <2>2. blocks[m] # "none" /\ DOMAIN blocks = 1..Len(blocks)
    BY <1>3, <2>1, ChainFields DEF EthInv
  <2>3. PICK n \in 1..Len(blocks) : blocks[n] = outcome /\ outcome # "none"
    BY <1>1, <2>2
  <2>4. m = n
    BY <2>2, <2>3, ChainFields DEF EthInv
  <2> QED
    BY <2>1, <2>3, <2>4
<1>7. ResponseInv'
  BY <1>1, <1>2, <1>3, <1>6
  DEF ResponseInv, EstimateCovers, SeenSomewhere, ReceiptAgrees, outside
<1> QED
  BY <1>2, <1>4, <1>5, <1>7, RequestStep

\* A request is made: it has asked nothing yet.
LEMMA RequestPreserves ==
  ASSUME EthInv, Estimate
  PROVE  EthInv'
<1>1. PICK price \in Price :
        handler' = [at |-> "simulate_validation", price |-> price]
  BY DEF Estimate
<1>2. response' = response /\ UNCHANGED outside
  BY DEF Estimate
<1>3. EthTypeOK'
  BY <1>1, <1>2 DEF EthInv, EthTypeOK, outside
<1>4. RequestInv'
  BY <1>1 DEF RequestInv
<1> QED
  BY <1>2, <1>3, <1>4, RequestStep

-----------------------------------------------------------------------------
(* The chain and the pool move between the steps of a request              *)

\* A block more: what the chain holds, it keeps.
LEMMA GrowPreserves ==
  ASSUME EthInv, Grow
  PROVE  EthInv'
<1>1. PICK outcome \in Outcome : /\ Mined => outcome = "none"
                                 /\ blocks' = Append(blocks, outcome)
  BY DEF Grow, Outcome
<1>2. /\ Len(blocks) < MaxHeight /\ cost' \in Phases
      /\ handler' = handler /\ response' = response /\ in_pool' = in_pool
      /\ eth_reorgs' = eth_reorgs /\ lost' = lost
  BY DEF Grow
<1>3. /\ Len(blocks) \in Nat /\ DOMAIN blocks = 1..Len(blocks)
      /\ blocks \in Seq(Outcome)
      /\ \A m, n \in 1..Len(blocks) :
           blocks[m] # "none" /\ blocks[n] # "none" => m = n
  BY ChainFields DEF EthInv, EthTypeOK
<1>4. /\ blocks' \in Seq(Outcome) /\ Len(blocks') = Len(blocks) + 1
      /\ DOMAIN blocks' = 1..(Len(blocks) + 1)
      /\ \A n \in 1..Len(blocks) : blocks'[n] = blocks[n]
      /\ blocks'[Len(blocks) + 1] = outcome
  BY <1>1, <1>3
<1>5. \A m, n \in DOMAIN blocks' :
        blocks'[m] # "none" /\ blocks'[n] # "none" => m = n
  <2>1. CASE Mined
    BY <1>1, <1>3, <1>4, <2>1
  <2>2. CASE ~Mined
    BY <1>3, <1>4, <2>2 DEF Mined
  <2> QED
    BY <2>1, <2>2
<1>6. Mined => Mined'
  BY <1>3, <1>4 DEF Mined
<1>7. EthTypeOK'
  <2>1. Len(blocks') \in 1..MaxHeight
    BY <1>2, <1>3, <1>4, EthConstants
  <2> QED
    BY <1>2, <1>4, <1>5, <2>1 DEF EthInv, EthTypeOK
<1>8. PoolInv'
  BY <1>2, <1>6 DEF EthInv, PoolInv, Gone
<1>9. RequestInv'
  <2>1. ASSUME handler.at = "logs"
        PROVE  /\ handler.current_block <= Len(blocks')
               /\ ~handler.found =>
                    \/ Gone
                    \/ \E n \in 1..handler.current_block : blocks'[n] # "none"
    <3>1. /\ handler.current_block \in Nat
          /\ handler.current_block <= Len(blocks)
      BY <2>1, HandlerFields, EthConstants DEF EthInv, RequestInv
    <3> QED
      BY <1>3, <1>4, <2>1, <3>1 DEF EthInv, RequestInv
  <2>2. ASSUME handler.at = "receipt", eth_reorgs = 0
        PROVE  \E n \in 1..Len(blocks') : blocks'[n] = handler.success
    <3>1. PICK n \in 1..Len(blocks) : blocks[n] = handler.success
      BY <2>2 DEF EthInv, RequestInv
    <3> QED
      BY <1>3, <1>4, <3>1
  <2>3. handler.at \in {"by_hash", "logs"} /\ ~handler.found => ~in_pool
    BY DEF EthInv, RequestInv
  <2> QED
    BY <1>2, <2>1, <2>2, <2>3 DEF RequestInv, Gone
<1>10. ResponseInv'
  <2>1. Len(blocks) > LogWindow + 1 => Len(blocks') > LogWindow + 1
    BY <1>3, <1>4, EthConstants
  <2> QED
    BY <1>2, <2>1 DEF EthInv, ResponseInv, EstimateCovers, SeenSomewhere,
      ReceiptAgrees
<1> QED
  BY <1>7, <1>8, <1>9, <1>10 DEF EthInv

\* The newest block is replaced, by one that may hold the operation if no
\* older one does.
LEMMA ReplacePreserves ==
  ASSUME EthInv, ReplaceNewest
  PROVE  EthInv'
<1>1. PICK outcome \in Outcome :
        /\ outcome # "none" => \A n \in 1..Len(blocks)-1 : blocks[n] = "none"
        /\ blocks' = [blocks EXCEPT ![Len(blocks)] = outcome]
  BY DEF ReplaceNewest
<1>2. /\ eth_reorgs < MaxEthReorgs /\ eth_reorgs' = eth_reorgs + 1
      /\ handler' = handler /\ response' = response /\ in_pool' = in_pool
      /\ cost' = cost /\ lost' = lost
  BY DEF ReplaceNewest
<1>3. /\ Len(blocks) \in Nat \ {0} /\ DOMAIN blocks = 1..Len(blocks)
      /\ blocks \in Seq(Outcome)
      /\ \A m, n \in 1..Len(blocks) :
           blocks[m] # "none" /\ blocks[n] # "none" => m = n
  BY ChainFields, EthConstants DEF EthInv, EthTypeOK
<1>4. /\ blocks' \in Seq(Outcome) /\ Len(blocks') = Len(blocks)
      /\ DOMAIN blocks' = 1..Len(blocks)
      /\ \A n \in 1..Len(blocks) :
           blocks'[n] = IF n = Len(blocks) THEN outcome ELSE blocks[n]
  BY <1>1, <1>3
<1>5. \A m, n \in DOMAIN blocks' :
        blocks'[m] # "none" /\ blocks'[n] # "none" => m = n
  BY <1>1, <1>3, <1>4
<1>6. eth_reorgs' \in 0..MaxEthReorgs /\ eth_reorgs' > 0 /\ eth_reorgs' # 0
  BY <1>2, EthConstants DEF EthInv, EthTypeOK
<1>7. EthTypeOK'
  BY <1>2, <1>4, <1>5, <1>6 DEF EthInv, EthTypeOK
<1>8. PoolInv'
  BY <1>2, <1>6 DEF EthInv, PoolInv, Gone
<1>9. RequestInv'
  <2>1. handler.at \in {"by_hash", "logs"} /\ ~handler.found => ~in_pool
    BY DEF EthInv, RequestInv
  <2>2. handler.at = "logs" => handler.current_block <= Len(blocks')
    BY <1>4 DEF EthInv, RequestInv
  <2> QED
    BY <1>2, <1>6, <2>1, <2>2 DEF RequestInv, Gone
<1>10. ResponseInv'
  <2>1. EstimateCovers'
    BY <1>2 DEF EthInv, ResponseInv, EstimateCovers
  <2>2. SeenSomewhere' /\ ReceiptAgrees'
    BY <1>6 DEF SeenSomewhere, ReceiptAgrees
  <2> QED
    BY <2>1, <2>2 DEF ResponseInv
<1> QED
  BY <1>7, <1>8, <1>9, <1>10 DEF EthInv

\* The operation leaves the pool, mined or lost.
LEMMA LeavesPreserves ==
  ASSUME EthInv, LeavesPool
  PROVE  EthInv'
<1>1. /\ in_pool /\ in_pool' = FALSE /\ lost' = ~Mined
      /\ handler' = handler /\ response' = response /\ cost' = cost
      /\ blocks' = blocks /\ eth_reorgs' = eth_reorgs
  BY DEF LeavesPool
<1>2. lost = FALSE
  BY <1>1 DEF EthInv, PoolInv, EthTypeOK
<1>3. EthTypeOK'
  <2>1. lost' \in BOOLEAN
    BY <1>1
  <2> QED
    BY <1>1, <2>1 DEF EthInv, EthTypeOK
<1>4. PoolInv'
  BY <1>1 DEF PoolInv, Gone, Mined
<1>5. RequestInv'
  BY <1>1, <1>2 DEF EthInv, RequestInv, Gone
<1>6. ResponseInv'
  BY <1>1, <1>2 DEF EthInv, ResponseInv, EstimateCovers, SeenSomewhere,
    ReceiptAgrees
<1> QED
  BY <1>3, <1>4, <1>5, <1>6 DEF EthInv

-----------------------------------------------------------------------------
(* The theorems                                                            *)

LEMMA NextEthInv == EthInv /\ [EthNext]_eth_vars => EthInv'
<1> SUFFICES ASSUME EthInv, [EthNext]_eth_vars PROVE EthInv'
  OBVIOUS
<1>1. CASE UnsupportedEntryPoint
  BY <1>1, ErrorPreserves DEF UnsupportedEntryPoint
<1>2. CASE Estimate
  BY <1>2, RequestPreserves
<1>3. ASSUME NEW reply \in Reply, ValidationSimulated(reply)
      PROVE  EthInv'
  BY <1>3, ValidationPreserves
<1>4. ASSUME NEW reply \in Reply, HandleOpSimulated(reply)
      PROVE  EthInv'
  BY <1>4, EstimatePreserves
<1>5. CASE ByHash
  BY <1>5, ByHashPreserves
<1>6. CASE HeadArrives
  BY <1>6, HeadPreserves
<1>7. CASE LogsArrive
  BY <1>7, LogsPreserves
<1>8. CASE ReceiptArrives
  BY <1>8, ReceiptPreserves
<1>9. CASE QueryFails
  BY <1>9, ErrorPreserves DEF QueryFails
<1>10. CASE Grow
  BY <1>10, GrowPreserves
<1>11. CASE ReplaceNewest
  BY <1>11, ReplacePreserves
<1>12. CASE LeavesPool
  BY <1>12, LeavesPreserves
<1>13. CASE UNCHANGED eth_vars
  <2>1. /\ handler' = handler /\ response' = response /\ cost' = cost
        /\ blocks' = blocks /\ in_pool' = in_pool /\ eth_reorgs' = eth_reorgs
        /\ lost' = lost
    BY <1>13 DEF eth_vars
  <2> QED
    BY <2>1 DEF EthInv, EthTypeOK, PoolInv, RequestInv, ResponseInv, Gone,
      Mined, EstimateCovers, SeenSomewhere, ReceiptAgrees
<1> QED
  BY <1>1, <1>2, <1>3, <1>4, <1>5, <1>6, <1>7, <1>8, <1>9, <1>10, <1>11,
    <1>12, <1>13
  DEF EthNext

LEMMA EthInvariant == EthSpec => []EthInv
  BY InitEthInv, NextEthInv, PTL DEF EthSpec

\* The locals and the answers of the methods that ask the node keep their
\* types, and the chain executes the operation once at most.
THEOREM EthTypeCorrect == EthSpec => []EthTypeOK
<1>1. EthInv => EthTypeOK
  BY DEF EthInv
<1> QED
  BY <1>1, EthInvariant, PTL

\* eth_estimateUserOperationGas: for every gas and every price, the estimate
\* covers what the operation used when it was simulated, if it names a price
\* and validating it became no dearer between the two simulations.
THEOREM EstimatesCover == EthSpec => []EstimateCovers
<1>1. EthInv => EstimateCovers
  BY DEF EthInv, ResponseInv
<1> QED
  BY <1>1, EthInvariant, PTL

\* A client that asks by hash and then for the receipt sees the operation in
\* one of them, wherever the chain and the pool move in between: an operation
\* leaves the pool after its block is there, and the head is read after the
\* pool.
THEOREM OperationIsSeen == EthSpec => []SeenSomewhere
<1>1. EthInv => SeenSomewhere
  BY DEF EthInv, ResponseInv
<1> QED
  BY <1>1, EthInvariant, PTL

\* The log and the transaction of a receipt, read one after the other, agree
\* unless a block was replaced.
THEOREM ReceiptsAgree == EthSpec => []ReceiptAgrees
<1>1. EthInv => ReceiptAgrees
  BY DEF EthInv, ResponseInv
<1> QED
  BY <1>1, EthInvariant, PTL

===============================================================================
