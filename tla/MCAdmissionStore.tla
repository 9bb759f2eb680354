-------------------------- MODULE MCAdmissionStore --------------------------
(* TLC instance of AdmissionStore: one message held by two nodes, the two  *)
(* ciphertexts carrying different stamp images of it.                      *)
EXTENDS AdmissionStore, TLC

CONSTANTS s1, s2, m1, w1, w2

MCScope == {s1, s2}
MCMessage == {m1}
MCImage == {w1, w2}
OneImage == {w1}
MCMessageOf == [s \in MCScope |-> m1]
MCMessageIn == [w \in Image |-> m1]
BothDispositions == {"Committed", "PolicyDiscard"}
Symmetry == Permutations(MCScope) \cup Permutations(Image)
OnlyCommitted == {"Committed"}
CrashFaults == {"torn"}
WriteFaults == {"notCommitted"}
AllFaults == {"notCommitted", "uncertain", "torn"}
=============================================================================
