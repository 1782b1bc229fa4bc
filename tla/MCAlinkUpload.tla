--------------------------- MODULE MCAlinkUpload ---------------------------
EXTENDS AlinkUpload, TLC

\* Connections are interchangeable, and so are the threads that upload.
Symmetry == Permutations(Clients) \cup Permutations(Senders)
=============================================================================
