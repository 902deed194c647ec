-------------------------- MODULE MCContextManager --------------------------
(***************************************************************************)
(* Model values for ContextManager: a model that compacts natively and one *)
(* that depends on the semantic compactor.                                 *)
(***************************************************************************)
EXTENDS ContextManager, TLC

CONSTANTS p1, p2, responses, chat

Swaps == Permutations({p1, p2})

=============================================================================
