---------------------------- MODULE MCFormEditor ----------------------------
(* Forms of two questions, drafts with two names.  The identifiers are     *)
(* interchangeable.                                                        *)
EXTENDS FormEditor, TLC

Symmetry == Permutations(Ids) \cup Permutations(DraftIds) \cup Permutations(Names)
=============================================================================
