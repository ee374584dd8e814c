--------------------------- MODULE MCInvestments ---------------------------
EXTENDS Investments, TLC

\* Requests of one kind are interchangeable.
Symmetry == Permutations(Creates) \cup Permutations(StatusCalls) \cup Permutations(Marks)
=============================================================================
