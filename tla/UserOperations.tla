--------------------------- MODULE UserOperations ---------------------------
(***************************************************************************)
(* crates/types/src/user_operation: an operation off chain, with a field   *)
(* for everything, and packed as the EntryPoint takes it, with fields run  *)
(* together; the hash that names it, cached off chain; and what an         *)
(* estimate fills in.  Byte strings are sequences of bytes, and a u128 is  *)
(* its GasLength bytes, most significant first.  Hashing is ideal: the     *)
(* hash of a string is the string.                                         *)
(***************************************************************************)
EXTENDS Integers, Sequences, SequencesExt

CONSTANTS
  Byte,            \* 0..255
  AddressLength,   \* 20
  GasLength,       \* 16
  Given,           \* operations as clients write them: without context
  OnChain,         \* packed operations found on the chain, well formed or not
  Partial,         \* operations to be estimated: gas fields may be NoGas
  MaxVerificationGas, MaxCallGas,   \* what the estimate gives for those
  Context,         \* entry points and chain ids
  NoAddress, NoGas, NoHash, NoContext

Address == [1..AddressLength -> Byte]
U128 == [1..GasLength -> Byte]
U256 == [1..2*GasLength -> Byte]

ZeroGas == [i \in 1..GasLength |-> 0]
MaxGas == [i \in 1..GasLength |-> 255]

Packed ==
  [sender : Address, nonce : U256, init_code : Seq(Byte), call_data : Seq(Byte),
   account_gas_limits : U256, pre_verification_gas : U256, gas_fees : U256,
   paymaster_and_data : Seq(Byte), signature : Seq(Byte)]

UserOp ==
  [sender : Address, nonce : U256, call_data : Seq(Byte),
   call_gas_limit : U128, verification_gas_limit : U128,
   pre_verification_gas : U128, max_fee_per_gas : U128,
   max_priority_fee_per_gas : U128, signature : Seq(Byte),
   factory : Address \cup {NoAddress}, factory_data : Seq(Byte),
   paymaster : Address \cup {NoAddress},
   paymaster_verification_gas_limit : U128,
   paymaster_post_op_gas_limit : U128, paymaster_data : Seq(Byte)]

\* UserOperationOptionalGas
OptionalGas ==
  [sender : Address, nonce : U256, call_data : Seq(Byte),
   call_gas_limit : U128 \cup {NoGas}, verification_gas_limit : U128 \cup {NoGas},
   pre_verification_gas : U128 \cup {NoGas}, max_fee_per_gas : U128 \cup {NoGas},
   max_priority_fee_per_gas : U128 \cup {NoGas}, signature : Seq(Byte),
   factory : Address \cup {NoAddress}, factory_data : Seq(Byte),
   paymaster : Address \cup {NoAddress},
   paymaster_verification_gas_limit : U128 \cup {NoGas},
   paymaster_post_op_gas_limit : U128 \cup {NoGas}, paymaster_data : Seq(Byte)]

ASSUME UserOpConstants ==
  /\ AddressLength \in Nat \ {0} /\ GasLength \in Nat \ {0}
  /\ Byte \subseteq 0..255 /\ {0, 255} \subseteq Byte
  /\ NoAddress \notin Address
  /\ Given \subseteq UserOp /\ OnChain \subseteq Packed /\ Partial \subseteq OptionalGas
  /\ {MaxVerificationGas, MaxCallGas} \subseteq U128

VARIABLES
  uo,      \* an operation off chain
  context, \* UserOperation::entry_point and chain_id
  hash,    \* UserOperation::hash
  packed   \* an operation on the chain

uo_vars == <<uo, context, hash, packed>>

-----------------------------------------------------------------------------
(* Packing                                                                 *)

PackPair(high, low) == high \o low

High(pair) == SubSeq(pair, 1, GasLength)

Low(pair) == SubSeq(pair, GasLength + 1, 2 * GasLength)

\* Mutant of Pack: the limits of the account are swapped.
Pack_Swapped(op) ==
  [sender |-> op.sender, nonce |-> op.nonce, call_data |-> op.call_data,
   init_code |-> IF op.factory = NoAddress THEN <<>>
                 ELSE op.factory \o op.factory_data,
   account_gas_limits |-> PackPair(op.call_gas_limit, op.verification_gas_limit),
   pre_verification_gas |-> PackPair(ZeroGas, op.pre_verification_gas),
   gas_fees |-> PackPair(op.max_priority_fee_per_gas, op.max_fee_per_gas),
   paymaster_and_data |->
     IF op.paymaster = NoAddress THEN <<>>
     ELSE op.paymaster \o op.paymaster_verification_gas_limit
            \o op.paymaster_post_op_gas_limit \o op.paymaster_data,
   signature |-> op.signature]

Pack(op) ==
  [sender |-> op.sender, nonce |-> op.nonce, call_data |-> op.call_data,
   init_code |-> IF op.factory = NoAddress THEN <<>>
                 ELSE op.factory \o op.factory_data,
   account_gas_limits |-> PackPair(op.verification_gas_limit, op.call_gas_limit),
   pre_verification_gas |-> PackPair(ZeroGas, op.pre_verification_gas),
   gas_fees |-> PackPair(op.max_priority_fee_per_gas, op.max_fee_per_gas),
   paymaster_and_data |->
     IF op.paymaster = NoAddress THEN <<>>
     ELSE op.paymaster \o op.paymaster_verification_gas_limit
            \o op.paymaster_post_op_gas_limit \o op.paymaster_data,
   signature |-> op.signature]

From(string, n) == SubSeq(string, n, Len(string))

\* What unpack makes of initCode
Factory(code) ==
  IF Len(code) >= AddressLength
    THEN [address |-> SubSeq(code, 1, AddressLength), data |-> From(code, AddressLength + 1)]
    ELSE [address |-> NoAddress, data |-> <<>>]

PaymasterLength == AddressLength + 2 * GasLength

\* What unpack makes of paymasterAndData
Paymaster(string) ==
  IF Len(string) >= PaymasterLength
    THEN [address |-> SubSeq(string, 1, AddressLength),
          verification_gas |-> SubSeq(string, AddressLength + 1, AddressLength + GasLength),
          post_op_gas |-> SubSeq(string, AddressLength + GasLength + 1, PaymasterLength),
          data |-> From(string, PaymasterLength + 1)]
    ELSE [address |-> NoAddress, verification_gas |-> ZeroGas, post_op_gas |-> ZeroGas,
          data |-> <<>>]

\* u128::try_from(...).unwrap_or(u128::MAX)
Saturate(number) == IF High(number) = ZeroGas THEN Low(number) ELSE MaxGas

Unpack(p) ==
  LET factory == Factory(p.init_code)
      paymaster == Paymaster(p.paymaster_and_data)
  IN  [sender |-> p.sender, nonce |-> p.nonce, call_data |-> p.call_data,
       call_gas_limit |-> Low(p.account_gas_limits),
       verification_gas_limit |-> High(p.account_gas_limits),
       pre_verification_gas |-> Saturate(p.pre_verification_gas),
       max_fee_per_gas |-> Low(p.gas_fees),
       max_priority_fee_per_gas |-> High(p.gas_fees),
       signature |-> p.signature,
       factory |-> factory.address, factory_data |-> factory.data,
       paymaster |-> paymaster.address,
       paymaster_verification_gas_limit |-> paymaster.verification_gas,
       paymaster_post_op_gas_limit |-> paymaster.post_op_gas,
       paymaster_data |-> paymaster.data]

-----------------------------------------------------------------------------
(* Naming                                                                  *)

\* compute_hash, of the packed form without its signature
HashPacked(p, ctx) == <<[p EXCEPT !.signature = <<>>], ctx>>

ComputeHash(op, ctx) == HashPacked(Pack(op), ctx)

\* external: EntryPoint.getUserOpHash, which never reads the signature
EntryPointHash(p, ctx) ==
  <<[f \in DOMAIN p |-> IF f = "signature" THEN <<>> ELSE p[f]], ctx>>

Id(op) == [sender |-> op.sender, nonce |-> op.nonce]

\* entities(), the account first
Entities(op) ==
  <<[kind |-> "account", address |-> op.sender]>>
    \o (IF op.factory = NoAddress THEN <<>>
        ELSE <<[kind |-> "factory", address |-> op.factory]>>)
    \o (IF op.paymaster = NoAddress THEN <<>>
        ELSE <<[kind |-> "paymaster", address |-> op.paymaster]>>)

GasFields ==
  {"call_gas_limit", "verification_gas_limit", "pre_verification_gas",
   "max_fee_per_gas", "max_priority_fee_per_gas",
   "paymaster_verification_gas_limit", "paymaster_post_op_gas_limit"}

\* into_user_operation: unwrap_or
IntoUserOperation(op) ==
  [f \in DOMAIN op |->
     IF f \notin GasFields \/ op[f] # NoGas THEN op[f]
     ELSE CASE f = "call_gas_limit" -> MaxCallGas
            [] f = "verification_gas_limit" -> MaxVerificationGas
            [] OTHER -> ZeroGas]

-----------------------------------------------------------------------------
(* An operation between client, pool and chain                             *)

\* A client's operation is deserialized without hash and context.
Deserialized(op) == uo' = op /\ context' = NoContext /\ hash' = NoHash

UserOpInit ==
  /\ uo \in Given /\ context = NoContext /\ hash = NoHash
  /\ packed \in OnChain

\* Mutant of SetContext: a hash that is there is kept.
SetContext_KeepsHash(ctx) ==
  /\ context' = ctx
  /\ hash' = IF hash = NoHash THEN ComputeHash(uo, ctx) ELSE hash
  /\ UNCHANGED <<uo, packed>>

SetContext(ctx) ==
  /\ context' = ctx
  /\ hash' = ComputeHash(uo, ctx)
  /\ UNCHANGED <<uo, packed>>

PackIt ==
  /\ packed' = Pack(uo)
  /\ UNCHANGED <<uo, context, hash>>

\* unpack ends in new, which computes the hash.
UnpackIt(ctx) ==
  /\ uo' = Unpack(packed)
  /\ context' = ctx /\ hash' = ComputeHash(uo', ctx)
  /\ UNCHANGED packed

Receive ==
  /\ \E op \in Given : Deserialized(op)
  /\ UNCHANGED packed

\* into_user_operation ends in new as well.
ToEstimate(ctx) ==
  /\ \E op \in Partial : uo' = IntoUserOperation(op)
  /\ context' = ctx /\ hash' = ComputeHash(uo', ctx)
  /\ UNCHANGED packed

UserOpNext ==
  \/ \E ctx \in Context : SetContext(ctx) \/ UnpackIt(ctx) \/ ToEstimate(ctx)
  \/ PackIt \/ Receive

UserOpSpec == UserOpInit /\ [][UserOpNext]_uo_vars

-----------------------------------------------------------------------------
(* Properties                                                              *)

\* Operations and packed operations keep the widths of their fields through
\* every conversion.
UserOpTypeOK ==
  /\ uo \in UserOp /\ packed \in Packed
  /\ context \in Context \cup {NoContext}

\* Packing forgets what no EntryPoint sees (factory_data without a factory,
\* paymaster fields without a paymaster) and nothing else: what comes back
\* packs to the same, has the same id and entities, and is a fixed point.
PackingKeepsOperation ==
  LET back == Unpack(Pack(uo))
  IN  /\ Pack(back) = Pack(uo)
      /\ Id(back) = Id(uo) /\ Entities(back) = Entities(uo)
      /\ Unpack(Pack(back)) = back

\* What the EntryPoint accepts: an address and data, or nothing.
WellFormed(p) ==
  /\ p.init_code = <<>> \/ Len(p.init_code) >= AddressLength
  /\ p.paymaster_and_data = <<>> \/ Len(p.paymaster_and_data) >= PaymasterLength
  /\ High(p.pre_verification_gas) = ZeroGas

\* The hash the pool, the watcher and the RPC server know an operation by is
\* cached, and is the one the EntryPoint emits for it: set_context and unpack
\* recompute it, whatever conversions came before.  unpack never fails, and
\* drops what it cannot read: an operation taken from the chain keeps its hash
\* if it is well formed, and only then.
HashIsEntryPoints ==
  /\ hash # NoHash => hash = EntryPointHash(Pack(uo), context)
  /\ \A ctx \in Context :
       ComputeHash(Unpack(packed), ctx) = EntryPointHash(packed, ctx) <=> WellFormed(packed)

=============================================================================
