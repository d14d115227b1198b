------------------------- MODULE MCPrivateMultisig -------------------------
(***************************************************************************)
(* Small instances of PrivateMultisig for TLC.                             *)
(***************************************************************************)
EXTENDS PrivateMultisig, TLC

CONSTANTS k1, k2, s1, s2, s3, x, y, a, b, c, t, main, test

Id(sk, salt) == [sk |-> sk, salt |-> salt]

PidOf(chain, key, index, action) ==
  [chain_id |-> chain, state_pda |-> key, index |-> index,
   action_bytes |-> action, target_program |-> t]

Input(root, identity, pid) ==
  [members_root |-> root, proposal_id |-> pid, identity |-> identity]

\* One council in which s1 is enrolled twice, under two salts.
Council == {Id(s1, x), Id(s1, y), Id(s2, x), Id(s3, x)}

CouncilRoots == {Council}

\* a is the longest payload that validate_action_bytes lets through, b the
\* shortest it refuses.
CouncilLen == (a :> 4096) @@ (b :> 4097)

\* Every enrolled identity may approve either of the two proposals.
CouncilInputs ==
  {Input(Council, identity, PidOf(main, k1, index, a)) :
     identity \in Council, index \in 0..1}

\* Two instances that may share a member set, an outsider set that shares one
\* member with it, and receipts for every way a vote could be misplaced.
Pair     == {Id(s1, x), Id(s2, x)}
Outsider == {Id(s2, x), Id(s3, x)}

ReplayRoots == {Pair, Outsider}

\* The empty payload, the longest that validate_action_bytes lets through and
\* the shortest it refuses, which has its receipt too.
ReplayLen == (a :> 0) @@ (b :> 4096) @@ (c :> 4097)

ReplayInputs ==
  {Input(Pair, identity, PidOf(main, key, 0, action)) :
     identity \in Pair, key \in {k1, k2}, action \in {a}}
  \cup {Input(Pair, Id(s1, x), PidOf(main, k1, 0, b)),
        Input(Pair, Id(s1, x), PidOf(main, k1, 0, c)),
        Input(Pair, Id(s2, x), PidOf(test, k1, 0, a)),
        Input(Outsider, Id(s3, x), PidOf(main, k1, 0, a)),
        Input(Pair, Id(s3, x), PidOf(main, k1, 0, a))}
=============================================================================
