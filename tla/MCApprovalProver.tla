-------------------------- MODULE MCApprovalProver --------------------------
(***************************************************************************)
(* Small instance of ApprovalProver for TLC: two members, one of them      *)
(* enrolled twice, run a client each.                                      *)
(***************************************************************************)
EXTENDS ApprovalProver, TLC

CONSTANTS k1, s1, s2, x, y, a, b, t, main, c1, c2

Id(sk, salt) == [sk |-> sk, salt |-> salt]

Council == {Id(s1, x), Id(s1, y), Id(s2, x)}

CouncilRoots == {Council}

ShortLen == (a :> 0) @@ (b :> 4096)

Witnesses == [members_root : CouncilRoots, proposal_id : ProposalId,
              identity : Identity]

CouncilMembers == (c1 :> Id(s1, x)) @@ (c2 :> Id(s2, x))
=============================================================================
