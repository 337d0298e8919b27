------------------------ MODULE MCCollateralTracker ------------------------
(* Positions and signed inputs of the TLC instances of CollateralTracker.  *)
EXTENDS CollateralTracker, TLC

ShortPut  == [short |-> 2, long |-> 0, wide |-> TRUE, rest |-> 1]
LongPut   == [short |-> 0, long |-> 1, wide |-> TRUE, rest |-> 1]
Loan      == [short |-> 2, long |-> 0, wide |-> FALSE, rest |-> 0]
Credit    == [short |-> 0, long |-> 1, wide |-> FALSE, rest |-> 0]

Shorts    == {ShortPut}
Options   == {ShortPut, LongPut}
Lending   == {Loan, Credit}

Zero      == {0}
TwoWay    == {-1, 0, 1}
Wide      == {-2, 3}

Symmetry  == Permutations(Users)
=============================================================================
