--------------------------- MODULE MCConnections ---------------------------
(* Instances of Connections for TLC: host h1 has two ssh- keys, or one and an   *)
(* ecdsa key; host h2 has another.  The fourth key is a spare to rotate to.      *)
EXTENDS Connections, TLC

CONSTANTS h1, h2, a1, a2, p1, k1, k1b, k2, e1, c1, c2

TwoKeys == {h1 :> ks @@ h2 :> {k2} : ks \in {{k1, k1b}, {k1, e1}}}

One == {h1 :> {k1} @@ h2 :> {k2}}

LoginsAllowed == {<<h1, a1>>, <<h2, a2>>}

DirectoriesThere == {<<h1, p1>>, <<h2, p1>>}

OneKnown == {<<h2, k2>>}

\* A form that moves the project, one that disables it, one with an empty field.
SmallEdits == {[host |-> h2, account |-> a2], [enabled |-> FALSE], [path |-> Blank]}

\* One project to start with.
OneForm == {[host |-> h1, account |-> a1, path |-> p1, pin |-> Null, enabled |-> TRUE]}

RequestSymmetry == Permutations(Clients)

=============================================================================
