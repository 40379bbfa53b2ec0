--------------------------- MODULE EmulatorClaims ---------------------------
(***************************************************************************)
(* What the documents of the repository say of the emulator and the        *)
(* emulator does not do. Each is refuted by a run of its own.              *)
(***************************************************************************)
EXTENDS Emulator

\* CTR writes the bits of its mask and leaves the others: the interpreter's
\* apply of CTR does what the instruction set says (InstCtr::apply).
CtrWritesByMask ==
  [][Interpret /\ Enabled("CTR") => ctr' = CtrUpdate(ctr, A, Current.b)]_vars

\* The generated code of NAD computes the complement of the conjunction, like
\* every other result the one of the instruction set (InstNad::jit).
NadComplements == [][Executes({"NAD"}) => Visible!Alu]_vars
=============================================================================
