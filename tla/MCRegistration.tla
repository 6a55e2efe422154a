---- MODULE MCRegistration ----
\* Instances of Registration for TLC: interchangeable activations.
EXTENDS Registration, TLC

Symmetric == Permutations(Slots)
====
