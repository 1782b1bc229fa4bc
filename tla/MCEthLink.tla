----------------------------- MODULE MCEthLink -----------------------------
EXTENDS EthLink

\* The third server listens on the port of the default one.
ServersDef == {[ip |-> 1, port |-> 1], [ip |-> 2, port |-> 2], [ip |-> 3, port |-> 1]}
DefaultDef == [ip |-> 1, port |-> 1]

\* Addresses are interchangeable.
Symmetry == Permutations(Clients)
=============================================================================
