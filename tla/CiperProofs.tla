----------------------------- MODULE CiperProofs -----------------------------
(***************************************************************************)
(* For every table length N >= 4, so for the 256 of the code: what the     *)
(* shuffle of generate_secret_key makes of the identity, and what the      *)
(* tables that ciper_init fills from any key do to each other.             *)
(***************************************************************************)
EXTENDS Ciper, TLAPS, FiniteSetTheorems, FunctionTheorems

\* Inductive: PassedDeranged needs the two positions of a swap to be different
\* ones, which is what Acceptable asks of their values, and the tables need
\* the loop counter of ciper_init to tell where it is.
Phases ==
    /\ pc = "generate" => filled = 0
    /\ pc = "init" => filled < N
    /\ pc = "run" => filled = N
Inv == TypeOK /\ Permutation /\ PassedDeranged /\ Phases /\ TablesFollowKey

\* A swap of two positions keeps a table a permutation.
LEMMA SwapKeepsInjective ==
    ASSUME NEW key \in [Byte -> Byte], NEW j \in Byte, NEW v \in Byte,
           Injective(key)
    PROVE  Swapped(key, j, v) \in [Byte -> Byte] /\ Injective(Swapped(key, j, v))
BY DEF Swapped, Injective

\* The generator's invariant holds at the start.
LEMMA InitInv == Init => Inv
BY LengthAssumption
   DEF Init, GenerateInit, Zeros, Inv, TypeOK, Permutation, Injective,
       PassedDeranged, Phases, TablesFollowKey, Byte

\* One swap of the shuffle.
LEMMA ShuffleInv ==
    ASSUME Inv, NEW v \in Byte, Shuffle(v), UNCHANGED <<pc, tables>>
    PROVE  Inv'
<1>1. i \in Byte /\ i' = i + 1 /\ i' \in 0 .. N
  BY LengthAssumption DEF Inv, TypeOK, Shuffle, Byte
<1>2. /\ secret_key' = Swapped(secret_key, i, v)
      /\ secret_key' \in [Byte -> Byte]
      /\ Injective(secret_key')
  BY <1>1, SwapKeepsInjective DEF Inv, TypeOK, Permutation, Shuffle
<1>3. ASSUME NEW j \in Byte, j < i' PROVE secret_key'[j] # j
  <2>1. CASE j = v
    BY <1>1, <1>2, <2>1 DEF Shuffle, Acceptable, Swapped, Inv, TypeOK
  <2>2. CASE j # v /\ j = i
    BY <1>1, <1>2, <2>2 DEF Shuffle, Acceptable, Swapped, Inv, TypeOK
  <2>3. CASE j # v /\ j # i
    <3>1. j < i
      BY <1>1, <1>3, <2>3 DEF Byte
    <3>2. secret_key'[j] = secret_key[j]
      BY <1>1, <1>2, <2>3 DEF Swapped, Inv, TypeOK
    <3> QED
      BY <3>1, <3>2 DEF Inv, PassedDeranged
  <2> QED
    BY <2>1, <2>2, <2>3
<1>4. Phases' /\ TablesFollowKey'
  BY DEF Inv, Phases, TablesFollowKey, tables
<1> QED
  BY <1>1, <1>2, <1>3, <1>4
     DEF Inv, TypeOK, Permutation, PassedDeranged, tables

\* One turn of the loop of ciper_init keeps what holds of the values filled in
\* before: the entry it overwrites, if any, belongs to an equal value.
LEMMA FillInv == ASSUME Inv, Fill PROVE Inv'
<1>1. /\ filled \in Byte /\ filled < N
      /\ filled' = filled + 1 /\ filled' \in 0 .. N
      /\ secretkey' = secretkey /\ secretkey[filled] \in Byte
  BY LengthAssumption DEF Inv, TypeOK, Phases, Fill, Byte
<1>2. TypeOK' /\ Permutation' /\ PassedDeranged'
  BY <1>1 DEF Inv, TypeOK, Permutation, Injective, PassedDeranged, Fill, generator
<1>3. Phases'
  BY <1>1, LengthAssumption DEF Fill, Phases
<1>4. ASSUME NEW j \in Byte, j < filled'
      PROVE  /\ encodekey'[j] = secretkey[j]
             /\ decodekey'[secretkey[j]] >= j
             /\ decodekey'[secretkey[j]] < filled'
             /\ secretkey[decodekey'[secretkey[j]]] = secretkey[j]
  <2>1. secretkey[j] \in Byte
    BY DEF Inv, TypeOK
  <2>2. j = filled \/ (j # filled /\ j < filled)
    BY <1>1, <1>4 DEF Byte
  <2>3. encodekey'[j] = secretkey[j]
    BY <1>1, <2>2 DEF Inv, TypeOK, TablesFollowKey, Fill
  <2>4. CASE secretkey[j] = secretkey[filled]
    <3>1. decodekey'[secretkey[j]] = filled
      BY <1>1, <2>1, <2>4 DEF Inv, TypeOK, Fill
    <3> QED
      BY <1>1, <1>4, <2>3, <2>4, <3>1 DEF Byte
  <2>5. CASE secretkey[j] # secretkey[filled]
    <3>1. decodekey'[secretkey[j]] = decodekey[secretkey[j]]
      BY <1>1, <2>1, <2>5 DEF Inv, TypeOK, Fill
    <3>2. /\ decodekey[secretkey[j]] >= j
          /\ decodekey[secretkey[j]] < filled
          /\ secretkey[decodekey[secretkey[j]]] = secretkey[j]
      BY <2>2, <2>5 DEF Inv, TablesFollowKey
    <3>3. decodekey[secretkey[j]] \in Byte
      BY <2>1 DEF Inv, TypeOK
    <3> QED
      BY <1>1, <2>3, <3>1, <3>2, <3>3 DEF Byte
  <2> QED
    BY <2>4, <2>5
<1> QED
  BY <1>1, <1>2, <1>3, <1>4 DEF Inv, TablesFollowKey

\* The inductive invariant of the way from the key to the cipher.
THEOREM Invariant == Spec => []Inv
<1>1. Inv /\ [Next]_vars => Inv'
  <2> SUFFICES ASSUME Inv, [Next]_vars PROVE Inv'
    OBVIOUS
  <2>1. CASE Draw
    BY <2>1, ShuffleInv DEF Draw
  <2>2. ASSUME NEW key \in [Byte -> Byte], Configure(key) PROVE Inv'
    <3>1. /\ filled = 0 /\ filled' = 0 /\ secretkey' \in [Byte -> Byte]
          /\ pc' = "init"
      BY <2>2 DEF Configure, Inv, Phases
    <3>2. TypeOK' /\ Permutation' /\ PassedDeranged' /\ Phases'
      BY <2>2, <3>1, LengthAssumption
         DEF Configure, generator, Inv, TypeOK, Permutation, Injective,
             PassedDeranged, Phases
    <3>3. TablesFollowKey'
      BY <3>1 DEF TablesFollowKey, Byte
    <3> QED
      BY <3>2, <3>3 DEF Inv
  <2>3. CASE Fill
    BY <2>3, FillInv
  <2>4. CASE UNCHANGED vars
    BY <2>4
       DEF vars, generator, tables, Inv, TypeOK, Permutation, Injective,
           PassedDeranged, Phases, TablesFollowKey
  <2> QED
    BY <2>1, <2>2, <2>3, <2>4 DEF Next, DrawAgain, Redraw, Run, vars
<1> QED
  BY <1>1, InitInv, PTL DEF Spec

\* Types: the key and both tables always map bytes to bytes.
THEOREM TypeCorrect == Spec => []TypeOK
BY Invariant, PTL DEF Inv

\* A generated key has no fixed point: check_key_valid never refuses it.
THEOREM AlwaysValid == Spec => []GeneratedKeyValid
<1>1. Inv => GeneratedKeyValid
  BY LengthAssumption
     DEF Inv, TypeOK, PassedDeranged, GeneratedKeyValid, CheckKeyValid, Byte
<1> QED
  BY <1>1, Invariant, PTL

\* The while loop always has a value to stop at.  Of any four values one is
\* neither i, nor secret_key[i], nor the value whose entry is i; a permutation
\* has only one entry that is i.
THEOREM AlwaysDrawPossible == Spec => []DrawPossible
<1>1. Inv => DrawPossible
  <2> SUFFICES ASSUME Inv, i < N
               PROVE  \E v \in Byte : Acceptable(secret_key, i, v)
    BY DEF DrawPossible
  <2>1. i \in Byte /\ secret_key[i] \in Byte
    <3>1. i \in Byte
      BY LengthAssumption DEF Inv, TypeOK, Byte
    <3> QED
      BY <3>1 DEF Inv, TypeOK
  <2>2. 0 \in Byte /\ 1 \in Byte /\ 2 \in Byte /\ 3 \in Byte
    BY LengthAssumption DEF Byte
  <2>3. \A j, k \in Byte : secret_key[j] = secret_key[k] => j = k
    BY DEF Inv, Permutation, Injective
  <2>4. \E v \in {0, 1, 2, 3} :
            v # i /\ v # secret_key[i] /\ secret_key[v] # i
    BY <2>1, <2>2, <2>3, SMT
  <2> QED
    BY <2>1, <2>2, <2>3, <2>4 DEF Acceptable
<1> QED
  BY <1>1, Invariant, PTL

\* What is in the tables when ciper_init is done.
LEMMA TablesDone ==
    ASSUME Inv, pc = "run", NEW b \in Byte
    PROVE  /\ encodekey[b] = secretkey[b] /\ secretkey[b] \in Byte
           /\ decodekey[secretkey[b]] \in Byte
           /\ secretkey[decodekey[secretkey[b]]] = secretkey[b]
<1>1. b < filled
  BY LengthAssumption DEF Inv, Phases, Byte
<1> QED
  BY <1>1 DEF Inv, TypeOK, TablesFollowKey

\* An injection of the bytes into themselves reaches every byte.
LEMMA InjectiveIsOnto ==
    ASSUME NEW key \in [Byte -> Byte], Injective(key), NEW b \in Byte
    PROVE  \E j \in Byte : key[j] = b
<1>1. IsFiniteSet(Byte)
  BY LengthAssumption, FS_Interval DEF Byte
<1>2. key \in Injection(Byte, Byte)
  BY Fun_IsInj DEF Injective
<1>3. key \in Surjection(Byte, Byte)
  BY <1>1, <1>2, FS_Injection
<1> QED
  BY <1>3 DEF Surjection

\* Each table undoes the other for permutations and for no other key: each byte
\* stands somewhere in such a key, and there its deciphering leads back to it.
LEMMA TablesUndo ==
    ASSUME Inv, pc = "run", Injective(secretkey), NEW b \in Byte
    PROVE  decodekey[encodekey[b]] = b /\ encodekey[decodekey[b]] = b
<1>1. secretkey \in [Byte -> Byte]
  BY DEF Inv, TypeOK
<1>2. decodekey[encodekey[b]] = b
  BY TablesDone DEF Injective
<1>3. PICK j \in Byte : secretkey[j] = b
  BY <1>1, InjectiveIsOnto
<1>4. decodekey[b] \in Byte /\ secretkey[decodekey[b]] = b
  BY <1>3, TablesDone
<1> QED
  BY <1>2, <1>4, TablesDone

\* Enciphering and deciphering undo each other exactly when the key is a
\* permutation.
THEOREM DecodingCorrect == Spec => []DecodeUndoesEncode
<1>1. ASSUME Inv, pc = "run", Injective(secretkey)
      PROVE  \A b \in Byte : /\ CiperDecode(CiperEncode(b)) = b
                             /\ CiperEncode(CiperDecode(b)) = b
  BY <1>1, TablesUndo DEF CiperEncode, CiperDecode
<1>2. ASSUME Inv, pc = "run", \A b \in Byte : CiperDecode(CiperEncode(b)) = b
      PROVE  Injective(secretkey)
  BY <1>2, TablesDone DEF Injective, CiperEncode, CiperDecode
<1>3. Inv => DecodeUndoesEncode
  BY <1>1, <1>2 DEF DecodeUndoesEncode
<1> QED
  BY <1>3, Invariant, PTL

\* With every key that the generator prints, the two programs understand each
\* other: such a key is a permutation.
THEOREM GeneratedCorrect == Spec => []GeneratedKeyWorks
<1>1. Inv /\ secretkey = secret_key => Injective(secretkey)
  BY DEF Inv, Permutation
<1>2. Inv => GeneratedKeyWorks
  BY <1>1, TablesUndo DEF GeneratedKeyWorks, CiperEncode, CiperDecode
<1> QED
  BY <1>2, Invariant, PTL
=============================================================================
