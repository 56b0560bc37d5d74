---------------------------- MODULE MCSettingGuards ----------------------------
EXTENDS SettingGuards, TLC

CONSTANTS v1, v2, v3, v4, v5, v6, w1, w2, a1

ThreeValues == {v1, v2, v3}
SixValues   == {v1, v2, v3, v4, v5, v6}
TwoWriters  == {w1, w2}

Symmetry    == Permutations(ThreeValues) \cup Permutations(TwoWriters)
SixSymmetry == Permutations(SixValues)

\* The search for the many changes in a row: one write after the other.
OnlyWrites == trusted /\ reread = NoReread /\ refresh = None
================================================================================
