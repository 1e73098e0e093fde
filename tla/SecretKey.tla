------------------------------ MODULE SecretKey ------------------------------
(***************************************************************************)
(* generate_secret_key: shuffle 0..N-1 into the substitution table that    *)
(* both programs encipher with.  The table starts as the identity; each    *)
(* position i in turn is swapped with a random position v, drawn again     *)
(* until the swap leaves neither value in its own place.                   *)
(***************************************************************************)
EXTENDS Integers

CONSTANT N      \* SECRET_KEY_LEN, 256

ASSUME LengthAssumption == N \in Nat /\ N >= 4

VARIABLES
    secret_key,     \* the table
    i               \* the position to be swapped next

generator == <<secret_key, i>>

Byte == 0 .. N - 1

GenerateInit ==
    /\ secret_key = [j \in Byte |-> j]
    /\ i = 0

\* Slips: one of the conditions is forgotten, or only later positions are
\* drawn.
AcceptableOwnValue(key, j, v) == key[j] # key[v] /\ key[j] # v
AcceptableLater(key, j, v) ==
    key[j] # key[v] /\ key[v] # j /\ key[j] # v /\ v > j

\* The condition under which the while loop stops drawing.
Acceptable(key, j, v) ==
    /\ key[j] # key[v]
    /\ key[v] # j
    /\ key[j] # v

Swapped(key, j, v) == [key EXCEPT ![j] = key[v], ![v] = key[j]]

Shuffle(v) ==
    /\ i < N
    /\ Acceptable(secret_key, i, v)
    /\ secret_key' = Swapped(secret_key, i, v)
    /\ i' = i + 1

\* rand() % 256 gives a value that is not acceptable: draw again.
Redraw(v) ==
    /\ i < N
    /\ ~Acceptable(secret_key, i, v)
    /\ UNCHANGED generator

\* check_key_valid returns 0.
CheckKeyValid(key) == \A j \in Byte : key[j] # j

-----------------------------------------------------------------------------
Injective(key) == \A j, k \in Byte : key[j] = key[k] => j = k

\* The table is a permutation at every moment.
Permutation == Injective(secret_key)

\* The positions passed have left their own value for good, although later
\* swaps move values back into them.
PassedDeranged == \A j \in Byte : j < i => secret_key[j] # j

\* The key generated always passes check_key_valid, so that "generate secret
\* failed!" is never printed.
GeneratedKeyValid == i = N => CheckKeyValid(secret_key)

\* The while loop always has a value to stop at: it does not spin for ever.
DrawPossible ==
    i < N => \E v \in Byte : Acceptable(secret_key, i, v)
=============================================================================
