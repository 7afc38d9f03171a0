-------------------------- MODULE MCServiceController --------------------------
\* TLC instances of ServiceController; the values are in the .cfg files.
EXTENDS ServiceController, TLC

\* The instance ids are interchangeable (used for safety only).
Symmetry == Permutations(VM)

===============================================================================
