----------------------------- MODULE MC_Execute -----------------------------
(***************************************************************************)
(* Model-checking instances of Execute: two contexts on one client, three *)
(* nodes, two nodes picked per attempt.                                   *)
(***************************************************************************)
EXTENDS Execute, TLC

CONSTANTS n1, n2, n3, c1, c2

MCNodes == {n1, n2, n3}
MCCtxs == {c1, c2}
OneCtx == {c1}
NodeSymmetry == Permutations(MCNodes)

\* c2 is an in3_nodeList request; nothing is answered internally
MCFailable == {c2}
\* the single context is an in3_nodeList request
NodeListCtx == {c1}
NoPreHandle == [c \in MCCtxs |-> "none"]
NoPreHandle1 == [c \in OneCtx |-> "none"]
\* every body a node can send
MCBodies == AllBodies
\* a transport error and a user error are all nodes answer
ErrorBodies == {"errUser"}
TwoNodes == {n1, n2}
\* the configured chain with its verifier, and every request with a method
OkSetups == {"ok"}
WithMethod == {TRUE}
\* also a client whose chain_id names no chain or a chain type without a
\* verifier, and a request without a method
AllSetups == {"ok", "nochain", "noverifier"}
AnyMethod == BOOLEAN
TwoNodeSymmetry == Permutations(TwoNodes)
\* the verifier answers c1 internally with a body whose proof is wrong
BadInternal == [c \in OneCtx |-> IF c = c1 THEN "badProof" ELSE "none"]
\* pre_handle answers c1 with an error message (no "Error:" prefix)
UserErrInternal == [c \in OneCtx |-> IF c = c1 THEN "errUser" ELSE "none"]
=============================================================================
