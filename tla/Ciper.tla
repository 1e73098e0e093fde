-------------------------------- MODULE Ciper --------------------------------
(***************************************************************************)
(* From the key to the cipher: generate_secretkey makes a key, the key is  *)
(* put into the configuration of a program (or any other 256 bytes are),   *)
(* and ciper_init fills the two substitution tables from it in one loop.   *)
(* Nothing checks that the configured key is a permutation; the tables are *)
(* static and start as zeros.                                              *)
(***************************************************************************)
EXTENDS SecretKey

VARIABLES
    pc,                     \* "generate", "init" (ciper_init) or "run"
    secretkey,              \* the key in the configuration
    encodekey, decodekey,   \* the tables
    filled                  \* the loop counter of ciper_init

tables == <<secretkey, encodekey, decodekey, filled>>
vars == <<generator, pc, tables>>

Zeros == [b \in Byte |-> 0]

Init ==
    /\ GenerateInit
    /\ pc = "generate"
    /\ secretkey = Zeros
    /\ encodekey = Zeros
    /\ decodekey = Zeros
    /\ filled = 0

Draw ==
    /\ pc = "generate"
    /\ \E v \in Byte : Shuffle(v)
    /\ UNCHANGED <<pc, tables>>

DrawAgain ==
    /\ pc = "generate"
    /\ \E v \in Byte : Redraw(v)
    /\ UNCHANGED <<pc, tables>>

\* The generated key is copied into the configuration; or a configuration
\* with any other key is used, and the generator is never run.
Configure(key) ==
    /\ pc = "generate"
    /\ i = 0 \/ (i = N /\ key = secret_key)
    /\ secretkey' = key
    /\ pc' = "init"
    /\ UNCHANGED <<generator, encodekey, decodekey, filled>>

\* Slip: the tables are exchanged.
FillExchanged ==
    /\ pc = "init"
    /\ encodekey' = [encodekey EXCEPT ![secretkey[filled]] = filled]
    /\ decodekey' = [decodekey EXCEPT ![filled] = filled]
    /\ filled' = filled + 1
    /\ pc' = IF filled' = N THEN "run" ELSE "init"
    /\ UNCHANGED <<generator, secretkey>>

Fill ==
    /\ pc = "init"
    /\ encodekey' = [encodekey EXCEPT ![filled] = secretkey[filled]]
    /\ decodekey' = [decodekey EXCEPT ![secretkey[filled]] = filled]
    /\ filled' = filled + 1
    /\ pc' = IF filled' = N THEN "run" ELSE "init"
    /\ UNCHANGED <<generator, secretkey>>

\* From here on the tables are only read.
Run == pc = "run" /\ UNCHANGED vars

Next ==
    \/ Draw
    \/ DrawAgain
    \/ \E key \in [Byte -> Byte] : Configure(key)
    \/ Fill
    \/ Run

Spec == Init /\ [][Next]_vars

\* rand() keeps producing every value, so an acceptable one is drawn some day.
FairSpec == Spec /\ SF_vars(Draw)

\* ciper_encode and ciper_decode of one byte.
CiperEncode(b) == encodekey[b]
CiperDecode(b) == decodekey[b]

-----------------------------------------------------------------------------
TypeOK ==
    /\ secret_key \in [Byte -> Byte]
    /\ i \in 0 .. N
    /\ pc \in {"generate", "init", "run"}
    /\ secretkey \in [Byte -> Byte]
    /\ encodekey \in [Byte -> Byte]
    /\ decodekey \in [Byte -> Byte]
    /\ filled \in 0 .. N

\* After k turns of the loop the first k values are enciphered as the key
\* says, and each value reached deciphers to the last position it stands at.
TablesFollowKey ==
    \A j \in Byte : j < filled =>
        /\ encodekey[j] = secretkey[j]
        /\ decodekey[secretkey[j]] >= j
        /\ decodekey[secretkey[j]] < filled
        /\ secretkey[decodekey[secretkey[j]]] = secretkey[j]

\* Each table undoes the other exactly for the keys that are permutations:
\* requests are enciphered by the client and deciphered by the server, answers
\* enciphered by the server and deciphered by the client.  With any other key
\* some byte arrives as another one, and nothing notices.
DecodeUndoesEncode ==
    pc = "run" => (Injective(secretkey)
                     <=> \A b \in Byte : /\ CiperDecode(CiperEncode(b)) = b
                                          /\ CiperEncode(CiperDecode(b)) = b)

\* So the two programs understand each other with every key that the
\* generator prints.
GeneratedKeyWorks ==
    pc = "run" /\ secretkey = secret_key /\ i = N =>
        \A b \in Byte : CiperDecode(CiperEncode(b)) = b

\* Once begun, the generation of a key ends.
GenerationEnds == i > 0 ~> i = N
=============================================================================
