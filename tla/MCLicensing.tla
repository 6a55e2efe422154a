---- MODULE MCLicensing ----
\* Instances of Licensing for TLC: interchangeable activations.
EXTENDS Licensing, TLC

Symmetric == Permutations(Slots)
====
