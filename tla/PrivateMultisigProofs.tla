----------------------- MODULE PrivateMultisigProofs -----------------------
(***************************************************************************)
(* Proofs about PrivateMultisig for every set of keys, members, roots and  *)
(* payloads and every integer width.                                       *)
(***************************************************************************)
EXTENDS PrivateMultisig, FiniteSetTheorems, TLAPS

-----------------------------------------------------------------------------
(* Facts about the operators of the model. *)

\* A proposal address determines its seeds and is an address.
LEMMA PdaIsAddress ==
  ASSUME NEW key \in CreateKey, NEW index \in Index
  PROVE  Pda(key, index) \in ProposalPda
BY DEF Pda, ProposalPda

\* Every address is the Pda of its seeds.
LEMMA AddressIsPda ==
  ASSUME NEW pda \in ProposalPda
  PROVE  /\ pda.create_key \in CreateKey
         /\ pda.index \in Index
         /\ pda = Pda(pda.create_key, pda.index)
BY DEF Pda, ProposalPda

\* A stored body has the fields of its kind.
LEMMA StoredBodies ==
  ASSUME TypeOK
  PROVE  /\ \A key \in CreateKey :
              multisig[key] # Absent => multisig[key] \in MultisigState
         /\ \A pda \in ProposalPda :
              proposal[pda] # Absent => proposal[pda] \in Proposal
BY DEF TypeOK

\* The voters of a proposal are finitely many secrets.
LEMMA VotersFinite ==
  ASSUME TypeOK, NEW pda \in ProposalPda
  PROVE  Voters(pda) \subseteq Secret /\ IsFiniteSet(Voters(pda))
<1>1. Voters(pda) \subseteq Secret
  BY DEF Voters, TypeOK, NullifierPda, Nullifier
<1>. QED
  BY <1>1, SecretsAssumption, FS_Subset

-----------------------------------------------------------------------------
(* Type correctness. *)

\* Every accepted transaction leaves well-typed accounts behind.
LEMMA TypeStep == TypeOK /\ [Next]_vars => TypeOK'
<1>. SUFFICES ASSUME TypeOK, [Next]_vars PROVE TypeOK'
  OBVIOUS
<1>1. ASSUME NEW key \in CreateKey, NEW root \in MembersRoot,
             NEW m \in 0..MaxU8, NEW n \in 0..MaxU32,
             CreateMultisig(key, root, m, n)
      PROVE  TypeOK'
  BY <1>1, WidthsAssumption DEF TypeOK, CreateMultisig, MultisigState
<1>2. ASSUME NEW key \in CreateKey, CreateVault(key)
      PROVE  TypeOK'
  BY <1>2 DEF TypeOK, CreateVault
<1>3. ASSUME NEW key \in CreateKey, NEW index \in Index,
             NEW action \in Action, NEW target \in Target,
             Propose(key, index, action, target)
      PROVE  TypeOK'
  <2>1. multisig[key] \in MultisigState
    BY <1>3, StoredBodies DEF Propose
  <2>2. multisig' \in [CreateKey -> MultisigState \cup {Absent}]
    <3>. DEFINE before == multisig[key]
                counted == [before EXCEPT !.proposal_count = @ + 1]
    <3>1. /\ multisig' = [multisig EXCEPT ![key] = counted]
          /\ before.proposal_count < MaxU64
      BY <1>3 DEF Propose
    <3>2. counted \in MultisigState
      BY <2>1, <3>1, WidthsAssumption DEF MultisigState
    <3>. HIDE DEF counted
    <3>. QED
      BY <3>1, <3>2 DEF TypeOK
  <2>3. [action_bytes |-> action, target_program |-> target,
         approvals_count |-> 0, executed |-> FALSE] \in Proposal
    BY WidthsAssumption DEF Proposal
  <2>4. proposal' \in [ProposalPda -> Proposal \cup {Absent}]
    BY <1>3, <2>3 DEF TypeOK, Propose
  <2>. QED
    BY <1>3, <2>2, <2>4 DEF TypeOK, Propose
<1>4. ASSUME NEW input \in ProverInput, ApproveCircuit(input)
      PROVE  TypeOK'
  <2>1. [members_root |-> input.members_root,
         proposal_id  |-> input.proposal_id,
         nullifier    |-> [sk |-> input.identity.sk,
                           proposal_id |-> input.proposal_id]] \in Journal
    BY ProverAssumption DEF Journal, Nullifier, Identity
  <2>. QED
    BY <1>4, <2>1 DEF TypeOK, ApproveCircuit
<1>5. ASSUME NEW key \in CreateKey, NEW index \in Index,
             NEW public_inputs \in receipts,
             NEW nullifier \in {journal.nullifier : journal \in receipts},
             Approve(key, index, nullifier, public_inputs)
      PROVE  TypeOK'
  <2>1. Pda(key, index) \in ProposalPda
    BY PdaIsAddress
  <2>2. proposal[Pda(key, index)] \in Proposal
    BY <1>5, <2>1, StoredBodies DEF Approve, Approvable
  <2>3. proposal' \in [ProposalPda -> Proposal \cup {Absent}]
    <3>. DEFINE pda  == Pda(key, index)
                body == [proposal[pda] EXCEPT !.approvals_count = @ + 1]
    <3>1. proposal[pda].approvals_count + 1 \in 0..MaxU32
      BY <1>5, <2>2, WidthsAssumption
      DEF Approve, Approvable, ApprovalsFit, Proposal
    <3>2. body \in Proposal
      BY <2>2, <3>1 DEF Proposal
    <3>3. proposal' = [proposal EXCEPT ![pda] = body]
      BY <1>5 DEF Approve, Approvable
    <3>. QED
      BY <3>2, <3>3, <2>1 DEF TypeOK
  <2>4. nullifier \in Nullifier
    BY DEF TypeOK, Journal
  <2>5. nullifierEntry' \subseteq NullifierPda
    BY <1>5, <2>1, <2>4 DEF TypeOK, Approve, Approvable, NullifierPda
  <2>. QED
    BY <1>5, <2>3, <2>5 DEF TypeOK, Approve, Approvable
<1>6. ASSUME NEW key \in CreateKey, NEW index \in Index,
             Execute(key, index)
      PROVE  TypeOK'
  <2>1. Pda(key, index) \in ProposalPda
    BY PdaIsAddress
  <2>2. proposal[Pda(key, index)] \in Proposal
    BY <1>6, <2>1, StoredBodies DEF Execute
  <2>3. proposal' \in [ProposalPda -> Proposal \cup {Absent}]
    BY <1>6, <2>1, <2>2 DEF TypeOK, Execute, Proposal
  <2>4. TermsOf(Pda(key, index)) \in ChainedCall
    BY <2>2, <2>1, AddressIsPda DEF TermsOf, ChainedCall, Proposal
  <2>5. calls' \in [ProposalPda -> Seq(ChainedCall)]
    BY <1>6, <2>1, <2>4 DEF TypeOK, Execute
  <2>. QED
    BY <1>6, <2>3, <2>5 DEF TypeOK, Execute
<1>7. ASSUME NEW key \in CreateKey, Reject(key)
      PROVE  TypeOK'
  BY <1>7 DEF TypeOK, Reject, vars
<1>8. CASE UNCHANGED vars
  BY <1>8 DEF TypeOK, vars
<1>. QED
  BY <1>1, <1>2, <1>3, <1>4, <1>5, <1>6, <1>7, <1>8 DEF Next

\* Accounts only ever hold bodies of their own kind, with every counter
\* within its integer width.
THEOREM TypeCorrect == Spec => []TypeOK
<1>1. Init => TypeOK
  BY DEF Init, TypeOK
<1>. QED
  BY <1>1, TypeStep, PTL DEF Spec

-----------------------------------------------------------------------------
(* What the transactions that write a proposal account do to it. *)

\* An accepted propose opens its own proposal, with no approvals, and changes
\* no other.
LEMMA ProposeOpens ==
  ASSUME TypeOK, NEW key \in CreateKey, NEW index \in Index,
         NEW action \in Action, NEW target \in Target,
         Propose(key, index, action, target)
  PROVE  /\ Pda(key, index) \in ProposalPda \ Opened
         /\ Opened' = Opened \cup {Pda(key, index)}
         /\ \A pda \in ProposalPda :
              pda # Pda(key, index) => proposal'[pda] = proposal[pda]
         /\ proposal'[Pda(key, index)] =
              [action_bytes |-> action, target_program |-> target,
               approvals_count |-> 0, executed |-> FALSE]
<1>. DEFINE body == [action_bytes |-> action, target_program |-> target,
                     approvals_count |-> 0, executed |-> FALSE]
<1>1. Pda(key, index) \in ProposalPda
  BY PdaIsAddress
<1>2. body \in Proposal
  BY WidthsAssumption DEF Proposal
<1>3. proposal' = [proposal EXCEPT ![Pda(key, index)] = body]
  BY DEF Propose
<1>4. /\ proposal'[Pda(key, index)] = body
      /\ \A pda \in ProposalPda :
           pda # Pda(key, index) => proposal'[pda] = proposal[pda]
  BY <1>1, <1>3 DEF TypeOK
<1>5. body # Absent /\ proposal[Pda(key, index)] = Absent
  BY <1>2, AbsentAssumption DEF Propose
<1>6. /\ Pda(key, index) \notin Opened
      /\ Opened' = Opened \cup {Pda(key, index)}
  BY <1>1, <1>4, <1>5 DEF Opened
<1>. QED
  BY <1>1, <1>4, <1>6

\* It adds one to the count of its own instance, and changes no other.
LEMMA ProposeCounts ==
  ASSUME TypeOK, NEW key \in CreateKey, NEW index \in Index,
         NEW action \in Action, NEW target \in Target,
         Propose(key, index, action, target)
  PROVE  /\ multisig[key] \in MultisigState
         /\ multisig'[key] \in MultisigState
         /\ multisig'[key] =
              [multisig[key] EXCEPT !.proposal_count = index + 1]
         /\ \A k \in CreateKey : k # key => multisig'[k] = multisig[k]
<1>1. multisig[key] \in MultisigState /\ multisig[key].proposal_count = index
  BY StoredBodies DEF Propose, NextIndex
<1>2. /\ multisig'[key] = [multisig[key] EXCEPT !.proposal_count = index + 1]
      /\ \A k \in CreateKey : k # key => multisig'[k] = multisig[k]
  BY <1>1 DEF TypeOK, Propose
<1>3. multisig'[key] \in MultisigState
  BY <1>1, <1>2, WidthsAssumption DEF Propose, MultisigState
<1>. QED
  BY <1>1, <1>2, <1>3

\* An accepted approve adds one to the count of one open proposal and changes
\* nothing else of any proposal.
LEMMA ApproveEffect ==
  ASSUME TypeOK, NEW key \in CreateKey, NEW index \in Index,
         NEW nullifier, NEW public_inputs,
         Approve(key, index, nullifier, public_inputs)
  PROVE  LET new == Pda(key, index) IN
         /\ new \in Opened
         /\ Opened' = Opened
         /\ \A pda \in ProposalPda : pda # new => proposal'[pda] = proposal[pda]
         /\ proposal'[new].action_bytes = proposal[new].action_bytes
         /\ proposal'[new].target_program = proposal[new].target_program
         /\ proposal'[new].approvals_count = proposal[new].approvals_count + 1
         /\ proposal'[new].executed = proposal[new].executed
<1>. DEFINE new  == Pda(key, index)
            body == [proposal[new] EXCEPT !.approvals_count = @ + 1]
<1>1. new \in Opened /\ new \in ProposalPda
  BY PdaIsAddress DEF Approve, Approvable, Opened
<1>2. proposal[new] \in Proposal
  BY <1>1, StoredBodies DEF Opened
<1>3. proposal[new].approvals_count + 1 \in 0..MaxU32
  BY <1>2, WidthsAssumption DEF Approve, Approvable, ApprovalsFit, Proposal
<1>4. body \in Proposal
  BY <1>2, <1>3 DEF Proposal
<1>5. /\ proposal'[new] = body
      /\ \A pda \in ProposalPda : pda # new => proposal'[pda] = proposal[pda]
  BY <1>1 DEF Approve, Approvable, TypeOK
<1>6. Opened' = Opened
  BY <1>1, <1>4, <1>5, AbsentAssumption DEF Opened
<1>7. /\ body.action_bytes = proposal[new].action_bytes
      /\ body.target_program = proposal[new].target_program
      /\ body.approvals_count = proposal[new].approvals_count + 1
      /\ body.executed = proposal[new].executed
  BY <1>2 DEF Proposal
<1>. QED
  BY <1>1, <1>5, <1>6, <1>7

\* An accepted execute marks one open proposal executed and emits its call.
LEMMA ExecuteEffect ==
  ASSUME TypeOK, NEW key \in CreateKey, NEW index \in Index,
         Execute(key, index)
  PROVE  LET new == Pda(key, index) IN
         /\ new \in Opened
         /\ Opened' = Opened
         /\ \A pda \in ProposalPda :
              pda # new => /\ proposal'[pda] = proposal[pda]
                           /\ calls'[pda] = calls[pda]
         /\ proposal'[new].action_bytes = proposal[new].action_bytes
         /\ proposal'[new].target_program = proposal[new].target_program
         /\ proposal'[new].approvals_count = proposal[new].approvals_count
         /\ proposal'[new].executed
         /\ calls'[new] = Append(calls[new], TermsOf(new))
<1>. DEFINE new  == Pda(key, index)
            body == [proposal[new] EXCEPT !.executed = TRUE]
<1>1. new \in Opened /\ new \in ProposalPda
  BY PdaIsAddress DEF Execute, Opened
<1>2. proposal[new] \in Proposal
  BY <1>1, StoredBodies DEF Opened
<1>3. body \in Proposal
  BY <1>2 DEF Proposal
<1>4. /\ proposal'[new] = body
      /\ \A pda \in ProposalPda : pda # new => proposal'[pda] = proposal[pda]
      /\ calls'[new] = Append(calls[new], TermsOf(new))
      /\ \A pda \in ProposalPda : pda # new => calls'[pda] = calls[pda]
  BY <1>1 DEF Execute, TypeOK
<1>5. Opened' = Opened
  BY <1>1, <1>3, <1>4, AbsentAssumption DEF Opened
<1>6. /\ body.action_bytes = proposal[new].action_bytes
      /\ body.target_program = proposal[new].target_program
      /\ body.approvals_count = proposal[new].approvals_count
      /\ body.executed
  BY <1>2 DEF Proposal
<1>. QED
  BY <1>1, <1>4, <1>5, <1>6

\* An accepted create_multisig writes one uninitialised state account.
LEMMA CreateEffect ==
  ASSUME TypeOK, NEW key \in CreateKey, NEW root \in MembersRoot,
         NEW m \in 0..MaxU8, NEW n \in 0..MaxU32,
         CreateMultisig(key, root, m, n)
  PROVE  /\ multisig[key] = Absent
         /\ multisig'[key] # Absent
         /\ multisig'[key].m = m /\ multisig'[key].n = n
         /\ multisig'[key].proposal_count = 0
         /\ \A k \in CreateKey : k # key => multisig'[k] = multisig[k]
<1>. DEFINE body == [members_root |-> root, m |-> m, n |-> n,
                     proposal_count |-> 0]
<1>1. body \in MultisigState
  BY WidthsAssumption DEF MultisigState
<1>. QED
  BY <1>1, AbsentAssumption DEF TypeOK, CreateMultisig, StateUninitialised

-----------------------------------------------------------------------------
(* What no transaction takes back. *)

\* No accepted transaction closes an instance.
LEMMA InstancesStay ==
  ASSUME TypeOK, [Next]_vars, NEW key \in CreateKey, multisig[key] # Absent
  PROVE  multisig'[key] # Absent
<1>1. ASSUME NEW k \in CreateKey, NEW root \in MembersRoot,
             NEW m \in 0..MaxU8, NEW n \in 0..MaxU32,
             CreateMultisig(k, root, m, n)
      PROVE  multisig'[key] # Absent
  BY <1>1, CreateEffect
<1>2. ASSUME NEW k \in CreateKey, NEW index \in Index,
             NEW action \in Action, NEW target \in Target,
             Propose(k, index, action, target)
      PROVE  multisig'[key] # Absent
  BY <1>2, ProposeCounts, AbsentAssumption
<1>3. ASSUME UNCHANGED multisig
      PROVE  multisig'[key] # Absent
  BY <1>3
<1>. QED
  BY <1>1, <1>2, <1>3
  DEF Next, vars, CreateVault, ApproveCircuit, Approve, Execute, Reject

\* Terms, votes and receipts survive every accepted transaction.
LEMMA StepFreezesTerms ==
  ASSUME TypeOK, [Next]_vars
  PROVE  TermsFrozen /\ receipts \subseteq receipts' /\ Opened \subseteq Opened'
<1>. DEFINE Kept == /\ TermsFrozen
                    /\ receipts \subseteq receipts'
                    /\ Opened \subseteq Opened'
<1>. \A key \in CreateKey :
       multisig[key] # Absent => /\ multisig[key].m \in Nat
                                 /\ multisig[key].n \in Nat
                                 /\ multisig[key].proposal_count \in Nat
  BY StoredBodies, WidthsAssumption DEF MultisigState
<1>. \A pda \in Opened : /\ pda \in ProposalPda
                         /\ proposal[pda].approvals_count \in Nat
  BY StoredBodies, WidthsAssumption DEF Opened, Proposal
<1>1. ASSUME NEW key \in CreateKey, NEW root \in MembersRoot,
             NEW m \in 0..MaxU8, NEW n \in 0..MaxU32,
             CreateMultisig(key, root, m, n)
      PROVE  Kept
  <2>1. /\ multisig[key] = Absent
        /\ \A k \in CreateKey : k # key => multisig'[k] = multisig[k]
    BY <1>1, CreateEffect
  <2>2. UNCHANGED <<proposal, nullifierEntry, receipts>>
    BY <1>1 DEF CreateMultisig
  <2>. QED
    BY <2>1, <2>2 DEF TermsFrozen, Opened
<1>2. ASSUME UNCHANGED <<multisig, proposal, nullifierEntry, calls>>,
             receipts \subseteq receipts'
      PROVE  Kept
  BY <1>2 DEF TermsFrozen, Opened
<1>3. ASSUME NEW key \in CreateKey, NEW index \in Index,
             NEW action \in Action, NEW target \in Target,
             Propose(key, index, action, target)
      PROVE  Kept
  <2>1. /\ multisig'[key].members_root = multisig[key].members_root
        /\ multisig'[key].m = multisig[key].m
        /\ multisig'[key].n = multisig[key].n
        /\ multisig'[key].proposal_count >= multisig[key].proposal_count
    BY <1>3, ProposeCounts DEF Propose, MultisigState
  <2>2. \A pda \in Opened : proposal'[pda] = proposal[pda]
    BY <1>3, ProposeOpens
  <2>3. /\ Opened \subseteq Opened'
        /\ \A k \in CreateKey : k # key => multisig'[k] = multisig[k]
    BY <1>3, ProposeOpens, ProposeCounts
  <2>. QED
    BY <1>3, <2>1, <2>2, <2>3 DEF TermsFrozen, Propose
<1>4. ASSUME NEW key \in CreateKey, NEW index \in Index,
             NEW public_inputs \in receipts,
             NEW nullifier \in {journal.nullifier : journal \in receipts},
             Approve(key, index, nullifier, public_inputs)
      PROVE  Kept
  <2>. DEFINE new == Pda(key, index)
  <2>1. /\ \A pda \in Opened : pda # new => proposal'[pda] = proposal[pda]
        /\ new \in Opened /\ Opened' = Opened
    BY <1>4, ApproveEffect
  <2>2. /\ proposal'[new].action_bytes = proposal[new].action_bytes
        /\ proposal'[new].target_program = proposal[new].target_program
        /\ proposal'[new].approvals_count >= proposal[new].approvals_count
        /\ proposal[new].executed => proposal'[new].executed
    BY <1>4, <2>1, ApproveEffect
  <2>3. /\ UNCHANGED <<multisig, receipts>>
        /\ nullifierEntry \subseteq nullifierEntry'
    BY <1>4 DEF Approve, Approvable
  <2>. HIDE DEF new
  <2>. QED
    BY <2>1, <2>2, <2>3 DEF TermsFrozen
<1>5. ASSUME NEW key \in CreateKey, NEW index \in Index,
             Execute(key, index)
      PROVE  Kept
  <2>. DEFINE new == Pda(key, index)
  <2>1. /\ \A pda \in Opened : pda # new => proposal'[pda] = proposal[pda]
        /\ new \in Opened /\ Opened' = Opened
    BY <1>5, ExecuteEffect
  <2>2. /\ proposal'[new].action_bytes = proposal[new].action_bytes
        /\ proposal'[new].target_program = proposal[new].target_program
        /\ proposal'[new].approvals_count >= proposal[new].approvals_count
        /\ proposal[new].executed => proposal'[new].executed
    BY <1>5, <2>1, ExecuteEffect
  <2>3. UNCHANGED <<multisig, receipts, nullifierEntry>>
    BY <1>5 DEF Execute
  <2>. HIDE DEF new
  <2>. QED
    BY <2>1, <2>2, <2>3 DEF TermsFrozen
<1>6. ASSUME NEW key \in CreateKey, CreateVault(key)
      PROVE  Kept
  BY <1>2, <1>6 DEF CreateVault
<1>7. ASSUME NEW input \in ProverInput, ApproveCircuit(input)
      PROVE  Kept
  BY <1>2, <1>7 DEF ApproveCircuit
<1>8. ASSUME NEW key \in CreateKey, Reject(key)
      PROVE  Kept
  BY <1>2, <1>8 DEF Reject, vars
<1>9. CASE UNCHANGED vars
  BY <1>2, <1>9 DEF vars
<1>. QED
  BY <1>1, <1>3, <1>4, <1>5, <1>6, <1>7, <1>8, <1>9 DEF Next

\* The members root, m, n of an instance, the terms of a proposal, its votes
\* and its executed flag are never rewritten or taken back.
THEOREM TermsNeverRewritten == Spec => NeverRewritten
<1>1. TypeOK /\ [Next]_vars => [TermsFrozen]_vars
  BY StepFreezesTerms
<1>. QED
  BY <1>1, TypeCorrect, PTL DEF Spec, NeverRewritten

-----------------------------------------------------------------------------
(* The inductive invariant. *)

\* A vote that was consented to stays so: the terms it names are frozen.
LEMMA ConsentKept ==
  ASSUME TypeOK, IndicesDense, VotersConsented, TermsFrozen,
         receipts \subseteq receipts', Opened \subseteq Opened',
         NEW entry \in nullifierEntry
  PROVE  VoteConsented(entry)'
<1>. DEFINE pda == entry.proposal
            key == pda.create_key
            id  == RecomputedProposalId(key, pda.index)
<1>1. /\ VoteConsented(entry)
      /\ pda \in Opened /\ pda \in ProposalPda
      /\ key \in CreateKey /\ pda = Pda(key, pda.index)
  BY AddressIsPda DEF VotersConsented, VoteConsented, Opened
<1>2. multisig'[key].members_root = multisig[key].members_root
  BY <1>1 DEF IndicesDense, TermsFrozen
<1>3. id' = id
  BY <1>1 DEF RecomputedProposalId, TermsFrozen
<1>4. Consenting(key, id) \subseteq Consenting(key, id)'
  BY <1>2, <1>3 DEF Consenting
<1>. QED
  BY <1>1, <1>3, <1>4 DEF VoteConsented

\* A transaction that spends no nullifier and fires no call, but may write
\* instances and open proposals, keeps the parts about votes and calls.
LEMMA VotesUntouched ==
  ASSUME IInv, [Next]_vars, UNCHANGED <<nullifierEntry, calls>>,
         \A pda \in Opened : proposal'[pda] = proposal[pda],
         \A pda \in Opened' \ Opened :
           /\ ~ proposal'[pda].executed
           /\ proposal'[pda].approvals_count = 0
           /\ ValidateActionBytes(proposal'[pda].action_bytes)
  PROVE  /\ VotersConsented'
         /\ CountIsDistinctVoters'
         /\ FiresAtMostOnce'
         /\ ExecutedWithTerms'
<1>. USE DEF IInv
<1>1. TermsFrozen /\ receipts \subseteq receipts' /\ Opened \subseteq Opened'
  BY StepFreezesTerms
<1>2. VotersConsented'
  BY <1>1, ConsentKept DEF VotersConsented
<1>3. CountIsDistinctVoters'
  <2>. SUFFICES ASSUME NEW pda \in Opened'
                PROVE  proposal'[pda].approvals_count
                         = Cardinality(Voters(pda)')
    BY DEF CountIsDistinctVoters
  <2>1. Voters(pda)' = Voters(pda)
    BY DEF Voters
  <2>2. CASE pda \in Opened
    BY <2>1, <2>2 DEF CountIsDistinctVoters
  <2>3. CASE pda \notin Opened
    <3>1. Voters(pda) = {}
      BY <2>3 DEF Voters, VotersConsented, VoteConsented
    <3>. QED
      BY <2>1, <2>3, <3>1, FS_EmptySet
  <2>. QED
    BY <2>2, <2>3
<1>4. FiresAtMostOnce'
  BY <1>1 DEF FiresAtMostOnce
<1>5. ExecutedWithTerms'
  <2>. SUFFICES ASSUME NEW pda \in Opened'
                PROVE  /\ ValidateActionBytes(proposal'[pda].action_bytes)
                       /\ proposal'[pda].executed =>
                            /\ proposal'[pda].approvals_count
                                 >= multisig'[pda.create_key].m
                            /\ calls'[pda] = <<TermsOf(pda)'>>
    BY DEF ExecutedWithTerms
  <2>1. CASE pda \in Opened
    <3>1. multisig'[pda.create_key].m = multisig[pda.create_key].m
      BY <1>1, <2>1, AddressIsPda DEF IndicesDense, TermsFrozen, Opened
    <3>2. TermsOf(pda)' = TermsOf(pda) /\ calls'[pda] = calls[pda]
      BY <2>1 DEF TermsOf
    <3>. QED
      BY <2>1, <3>1, <3>2 DEF ExecutedWithTerms
  <2>2. CASE pda \notin Opened
    BY <2>2
  <2>. QED
    BY <2>1, <2>2
<1>. QED
  BY <1>2, <1>3, <1>4, <1>5

\* The circuit commits no other journals.
LEMMA ReceiptsStaySound ==
  ASSUME ReceiptsSound, [Next]_vars
  PROVE  ReceiptsSound'
<1>1. ASSUME NEW input \in ProverInput, ApproveCircuit(input)
      PROVE  ReceiptsSound'
  BY <1>1 DEF ApproveCircuit, ReceiptsSound, Enrolled
<1>2. ASSUME UNCHANGED receipts
      PROVE  ReceiptsSound'
  BY <1>2 DEF ReceiptsSound
<1>. QED
  BY <1>1, <1>2
  DEF Next, vars, CreateMultisig, CreateVault, Propose, Approve, Approvable,
                    Execute, Reject

\* A ledger on which the program was just deployed satisfies the invariant.
LEMMA InitIInv == Init => IInv
<1>. SUFFICES ASSUME Init PROVE IInv
  OBVIOUS
<1>1. TypeOK
  BY DEF Init, TypeOK
<1>2. Opened = {}
  BY DEF Init, Opened
<1>3. IndicesDense
  BY <1>2, AddressIsPda DEF Init, IndicesDense
<1>4. FiresAtMostOnce
  BY <1>2 DEF Init, FiresAtMostOnce
<1>. QED
  BY <1>1, <1>2, <1>3, <1>4
     DEF Init, IInv, ThresholdsValid, ReceiptsSound, VotersConsented,
         CountIsDistinctVoters, ExecutedWithTerms

\* create_multisig keeps the invariant: no proposal of the new instance can
\* exist before it does.
LEMMA CreateKeepsIInv ==
  ASSUME IInv, NEW key \in CreateKey, NEW root \in MembersRoot,
         NEW m \in 0..MaxU8, NEW n \in 0..MaxU32,
         CreateMultisig(key, root, m, n)
  PROVE  IInv'
<1>. TypeOK /\ [Next]_vars
  BY DEF IInv, Next
<1>0. /\ multisig[key] = Absent
      /\ multisig'[key] # Absent
      /\ multisig'[key].m = m /\ multisig'[key].n = n
      /\ multisig'[key].proposal_count = 0
      /\ \A k \in CreateKey : k # key => multisig'[k] = multisig[k]
  BY CreateEffect
<1>1. Opened' = Opened
  BY DEF CreateMultisig, Opened
<1>2. IndicesDense'
  <2>. SUFFICES ASSUME NEW pda \in ProposalPda
                PROVE  pda \in Opened <=>
                         /\ multisig'[pda.create_key] # Absent
                         /\ pda.index < multisig'[pda.create_key].proposal_count
    BY <1>1 DEF IndicesDense
  <2>1. CASE pda.create_key = key
    <3>1. pda \notin Opened
      BY <2>1, <1>0 DEF IInv, IndicesDense
    <3>2. ~ (pda.index < 0)
      BY AddressIsPda DEF Index
    <3>. QED
      BY <2>1, <3>1, <3>2, <1>0
  <2>2. CASE pda.create_key # key
    BY <2>2, <1>0, AddressIsPda DEF IInv, IndicesDense
  <2>. QED
    BY <2>1, <2>2
<1>3. ThresholdsValid'
  BY <1>0 DEF IInv, ThresholdsValid, CreateMultisig
<1>4. /\ VotersConsented'
      /\ CountIsDistinctVoters'
      /\ FiresAtMostOnce'
      /\ ExecutedWithTerms'
  BY <1>1, VotesUntouched DEF CreateMultisig
<1>. QED
  BY <1>2, <1>3, <1>4, TypeStep, ReceiptsStaySound DEF IInv

\* A transaction that writes no account the votes rest on (create_vault,
\* reject, a proof made off chain) keeps the invariant.
LEMMA QuietKeepsIInv ==
  ASSUME IInv, [Next]_vars,
         UNCHANGED <<multisig, proposal, nullifierEntry, calls>>
  PROVE  IInv'
<1>1. Opened' = Opened
  BY DEF Opened
<1>2. IndicesDense' /\ ThresholdsValid'
  BY <1>1 DEF IInv, IndicesDense, ThresholdsValid
<1>3. /\ VotersConsented'
      /\ CountIsDistinctVoters'
      /\ FiresAtMostOnce'
      /\ ExecutedWithTerms'
  BY <1>1, VotesUntouched
<1>. QED
  BY <1>2, <1>3, TypeStep, ReceiptsStaySound DEF IInv

\* propose keeps the invariant: the indices stay dense, and a proposal that
\* is new carries no vote.
LEMMA ProposeKeepsIInv ==
  ASSUME IInv, NEW key \in CreateKey, NEW index \in Index,
         NEW action \in Action, NEW target \in Target,
         Propose(key, index, action, target)
  PROVE  IInv'
<1>. TypeOK /\ [Next]_vars
  BY DEF IInv, Next
<1>. DEFINE new == Pda(key, index)
<1>a. /\ multisig[key] # Absent
      /\ multisig[key].proposal_count = index
      /\ ValidateActionBytes(action)
      /\ UNCHANGED <<nullifierEntry, calls>>
  BY DEF Propose, NextIndex
<1>b. /\ multisig[key] \in MultisigState
      /\ multisig'[key] \in MultisigState
      /\ multisig'[key] = [multisig[key] EXCEPT !.proposal_count = index + 1]
      /\ \A k \in CreateKey : k # key => multisig'[k] = multisig[k]
  BY ProposeCounts
<1>c. /\ new \in ProposalPda \ Opened
      /\ Opened' = Opened \cup {new}
      /\ \A pda \in ProposalPda : pda # new => proposal'[pda] = proposal[pda]
      /\ proposal'[new] =
           [action_bytes |-> action, target_program |-> target,
            approvals_count |-> 0, executed |-> FALSE]
  BY ProposeOpens
<1>d. /\ multisig'[key] # Absent
      /\ multisig'[key].proposal_count = index + 1
      /\ multisig'[key].m = multisig[key].m
      /\ multisig'[key].n = multisig[key].n
  BY <1>b, AbsentAssumption DEF MultisigState
<1>1. IndicesDense'
  <2>. SUFFICES ASSUME NEW pda \in ProposalPda
                PROVE  pda \in Opened' <=>
                         /\ multisig'[pda.create_key] # Absent
                         /\ pda.index < multisig'[pda.create_key].proposal_count
    BY DEF IndicesDense
  <2>1. CASE pda.create_key = key
    <3>1. pda \in Opened <=> pda.index < index
      BY <2>1, <1>a DEF IInv, IndicesDense
    <3>2. pda = new <=> pda.index = index
      BY <2>1, AddressIsPda DEF Pda
    <3>3. pda.index < index + 1 <=> pda.index < index \/ pda.index = index
      BY AddressIsPda, WidthsAssumption DEF Index
    <3>. QED
      BY <2>1, <3>1, <3>2, <3>3, <1>c, <1>d
  <2>2. CASE pda.create_key # key
    <3>1. pda # new
      BY <2>2 DEF Pda
    <3>2. multisig'[pda.create_key] = multisig[pda.create_key]
      BY <2>2, <1>b, AddressIsPda
    <3>. QED
      BY <3>1, <3>2, <1>c DEF IInv, IndicesDense
  <2>. QED
    BY <2>1, <2>2
<1>2. ThresholdsValid'
  BY <1>a, <1>b, <1>d DEF IInv, ThresholdsValid
<1>3. /\ VotersConsented'
      /\ CountIsDistinctVoters'
      /\ FiresAtMostOnce'
      /\ ExecutedWithTerms'
  <2>1. \A pda \in Opened : proposal'[pda] = proposal[pda]
    BY <1>c DEF Opened
  <2>2. \A pda \in Opened' \ Opened :
          /\ ~ proposal'[pda].executed
          /\ proposal'[pda].approvals_count = 0
          /\ ValidateActionBytes(proposal'[pda].action_bytes)
    BY <1>a, <1>c
  <2>. QED
    BY <2>1, <2>2, <1>a, VotesUntouched
<1>. QED
  BY <1>1, <1>2, <1>3, TypeStep, ReceiptsStaySound DEF IInv

\* What an accepted approve adds: one consenting member who had not voted.
VoteCast(key, index, nullifier) ==
  LET new == Pda(key, index)
      id  == RecomputedProposalId(key, index)
  IN /\ new \in Opened
     /\ Opened' = Opened
     /\ nullifier = [sk |-> nullifier.sk, proposal_id |-> id]
     /\ nullifier.sk \in Consenting(key, id)
     /\ nullifier.sk \in Enrolled(multisig[key].members_root)
     /\ nullifier.sk \notin Voters(new)
     /\ nullifierEntry' =
          nullifierEntry \cup {[proposal |-> new, nullifier |-> nullifier]}
     /\ Voters(new)' = Voters(new) \cup {nullifier.sk}
     /\ UNCHANGED <<multisig, receipts, calls>>
     /\ TermsOf(new)' = TermsOf(new)
     /\ id' = id
     /\ \A pda \in ProposalPda : pda # new =>
          proposal'[pda] = proposal[pda] /\ Voters(pda)' = Voters(pda)

\* An accepted approve casts the vote of one consenting member who had not
\* voted: the nullifier it spends is new, so the secret behind it is.
LEMMA ApproveCastsVote ==
  ASSUME IInv, NEW key \in CreateKey, NEW index \in Index,
         NEW public_inputs \in receipts,
         NEW nullifier \in {journal.nullifier : journal \in receipts},
         Approve(key, index, nullifier, public_inputs)
  PROVE  VoteCast(key, index, nullifier)
<1>. DEFINE new   == Pda(key, index)
            sk    == nullifier.sk
            id    == RecomputedProposalId(key, index)
            entry == [proposal |-> new, nullifier |-> nullifier]
<1>. TypeOK
  BY DEF IInv
<1>1. /\ new \in Opened
      /\ Opened' = Opened
      /\ \A pda \in ProposalPda : pda # new => proposal'[pda] = proposal[pda]
  BY ApproveEffect
<1>2. /\ proposal'[new].action_bytes = proposal[new].action_bytes
      /\ proposal'[new].target_program = proposal[new].target_program
  BY ApproveEffect
<1>3. /\ entry \notin nullifierEntry
      /\ nullifierEntry' = nullifierEntry \cup {entry}
      /\ UNCHANGED <<multisig, receipts, calls>>
  BY DEF Approve, Approvable, NullifierUnspent
<1>4. /\ public_inputs \in Journal
      /\ public_inputs.members_root = multisig[key].members_root
      /\ public_inputs.proposal_id = id
      /\ public_inputs.nullifier = nullifier
  BY DEF Approve, Approvable, ReceiptMatches, TypeOK
<1>5. /\ nullifier = [sk |-> sk, proposal_id |-> id]
      /\ sk \in Enrolled(multisig[key].members_root)
  BY <1>4 DEF Journal, Nullifier, IInv, ReceiptsSound
<1>6. sk \in Consenting(key, id)
  <2>1. public_inputs = [members_root |-> multisig[key].members_root,
                         proposal_id |-> id,
                         nullifier |-> [sk |-> sk, proposal_id |-> id]]
    BY <1>4, <1>5 DEF Journal
  <2>. QED
    BY <1>5, <2>1 DEF Consenting
<1>7. TermsOf(new)' = TermsOf(new) /\ id' = id
  BY <1>2 DEF TermsOf, RecomputedProposalId
<1>8. /\ Voters(new)' = Voters(new) \cup {sk}
      /\ \A pda \in ProposalPda : pda # new => Voters(pda)' = Voters(pda)
  BY <1>3 DEF Voters
<1>9. sk \notin Voters(new)
  <2>. SUFFICES ASSUME NEW e \in nullifierEntry,
                       e.proposal = new, e.nullifier.sk = sk
                PROVE  FALSE
    BY DEF Voters
  <2>1. new.create_key = key /\ new.index = index
    BY DEF Pda
  <2>2. e.nullifier.proposal_id = id
    BY <2>1 DEF IInv, VotersConsented, VoteConsented
  <2>3. e \in NullifierPda /\ e.nullifier \in Nullifier
    BY DEF TypeOK, NullifierPda
  <2>4. e.nullifier = nullifier
    BY <1>5, <2>2, <2>3 DEF Nullifier
  <2>5. e = entry
    BY <2>3, <2>4 DEF NullifierPda
  <2>. QED
    BY <1>3, <2>5
<1>. QED
  BY <1>1, <1>3, <1>5, <1>6, <1>7, <1>8, <1>9 DEF VoteCast

\* approve keeps the invariant: count and spent nullifiers grow together.
LEMMA ApproveKeepsIInv ==
  ASSUME IInv, NEW key \in CreateKey, NEW index \in Index,
         NEW public_inputs \in receipts,
         NEW nullifier \in {journal.nullifier : journal \in receipts},
         Approve(key, index, nullifier, public_inputs)
  PROVE  IInv'
<1>. DEFINE new   == Pda(key, index)
            sk    == nullifier.sk
            id    == RecomputedProposalId(key, index)
            entry == [proposal |-> new, nullifier |-> nullifier]
<1>. TypeOK /\ [Next]_vars
  BY DEF IInv, Next
<1>1. VoteCast(key, index, nullifier) /\ new \in ProposalPda
  BY ApproveCastsVote, PdaIsAddress
<1>. USE <1>1 DEF VoteCast
<1>2. /\ proposal'[new].action_bytes = proposal[new].action_bytes
      /\ proposal'[new].approvals_count = proposal[new].approvals_count + 1
      /\ proposal'[new].executed = proposal[new].executed
  BY ApproveEffect
<1>3. IndicesDense' /\ ThresholdsValid'
  BY DEF IInv, IndicesDense, ThresholdsValid
<1>4. VotersConsented'
  <2>1. \A e \in nullifierEntry : VoteConsented(e)'
    BY StepFreezesTerms, ConsentKept DEF IInv
  <2>2. VoteConsented(entry)'
    <3>1. /\ entry.proposal = new /\ entry.nullifier = nullifier
          /\ new.create_key = key /\ new.index = index
      BY DEF Pda
    <3>2. Consenting(key, id)' = Consenting(key, id)
      BY DEF Consenting
    <3>. QED
      BY <3>1, <3>2 DEF VoteConsented
  <2>. QED
    BY <2>1, <2>2 DEF VotersConsented
<1>5. CountIsDistinctVoters'
  <2>. SUFFICES ASSUME NEW pda \in Opened
                PROVE  proposal'[pda].approvals_count
                         = Cardinality(Voters(pda)')
    BY DEF CountIsDistinctVoters
  <2>1. CASE pda # new
    BY <2>1 DEF IInv, CountIsDistinctVoters, Opened
  <2>2. CASE pda = new
    <3>1. Cardinality(Voters(new)') = Cardinality(Voters(new)) + 1
      <4>1. Voters(new)' = Voters(new) \cup {sk} /\ sk \notin Voters(new)
        OBVIOUS
      <4>2. IsFiniteSet(Voters(new))
        BY VotersFinite
      <4>. QED
        BY <4>1, <4>2, FS_AddElement, Zenon
    <3>. QED
      BY <1>2, <2>2, <3>1 DEF IInv, CountIsDistinctVoters
  <2>. QED
    BY <2>1, <2>2
<1>6. FiresAtMostOnce'
  BY <1>2 DEF IInv, FiresAtMostOnce
<1>7. ExecutedWithTerms'
  <2>. SUFFICES ASSUME NEW pda \in Opened
                PROVE  /\ ValidateActionBytes(proposal'[pda].action_bytes)
                       /\ proposal'[pda].executed =>
                            /\ proposal'[pda].approvals_count
                                 >= multisig[pda.create_key].m
                            /\ calls[pda] = <<TermsOf(pda)'>>
    BY DEF ExecutedWithTerms
  <2>1. CASE pda # new
    <3>1. TermsOf(pda)' = TermsOf(pda) /\ proposal'[pda] = proposal[pda]
      BY <2>1 DEF TermsOf, Opened
    <3>. QED
      BY <3>1 DEF IInv, ExecutedWithTerms
  <2>2. CASE pda = new
    <3>1. /\ proposal[new].approvals_count \in Nat
          /\ multisig[new.create_key].m \in Nat
      BY StoredBodies, AddressIsPda, WidthsAssumption
         DEF IInv, IndicesDense, Opened, Proposal, MultisigState
    <3>. QED
      BY <1>2, <2>2, <3>1 DEF IInv, ExecutedWithTerms
  <2>. QED
    BY <2>1, <2>2
<1>. QED
  BY <1>3, <1>4, <1>5, <1>6, <1>7, TypeStep, ReceiptsStaySound DEF IInv

\* execute keeps the invariant: it fires a proposal that reached its
\* threshold and had not fired.
LEMMA ExecuteKeepsIInv ==
  ASSUME IInv, NEW key \in CreateKey, NEW index \in Index, Execute(key, index)
  PROVE  IInv'
<1>. DEFINE new == Pda(key, index)
<1>. TypeOK /\ [Next]_vars
  BY DEF IInv, Next
<1>1. /\ new \in Opened /\ new \in ProposalPda
      /\ new.create_key = key
      /\ Opened' = Opened
      /\ \A pda \in ProposalPda :
           pda # new => /\ proposal'[pda] = proposal[pda]
                        /\ calls'[pda] = calls[pda]
  BY ExecuteEffect DEF Opened, Pda
<1>2. /\ proposal'[new].action_bytes = proposal[new].action_bytes
      /\ proposal'[new].target_program = proposal[new].target_program
      /\ proposal'[new].approvals_count = proposal[new].approvals_count
      /\ proposal'[new].executed
      /\ calls'[new] = Append(calls[new], TermsOf(new))
  BY ExecuteEffect
<1>3. /\ ~ proposal[new].executed
      /\ proposal[new].approvals_count >= multisig[key].m
      /\ UNCHANGED <<multisig, nullifierEntry, receipts>>
  BY DEF Execute, ReadyToFire
<1>4. calls'[new] = <<TermsOf(new)>>
  <2>1. Len(calls[new]) = 0 /\ calls[new] \in Seq(ChainedCall)
    BY <1>1, <1>3 DEF IInv, FiresAtMostOnce, TypeOK
  <2>2. calls[new] = <<>>
    BY <2>1
  <2>. QED
    BY <1>2, <2>2
<1>5. IndicesDense' /\ ThresholdsValid'
  BY <1>1, <1>3 DEF IInv, IndicesDense, ThresholdsValid
<1>6. VotersConsented'
  BY <1>3, StepFreezesTerms, ConsentKept DEF IInv, VotersConsented
<1>7. CountIsDistinctVoters'
  BY <1>1, <1>2, <1>3 DEF IInv, CountIsDistinctVoters, Voters, Opened
<1>8. FiresAtMostOnce'
  <2>. SUFFICES ASSUME NEW pda \in ProposalPda
                PROVE  Len(calls'[pda]) =
                         IF pda \in Opened /\ proposal'[pda].executed
                         THEN 1 ELSE 0
    BY <1>1 DEF FiresAtMostOnce
  <2>1. CASE pda # new
    BY <1>1, <2>1 DEF IInv, FiresAtMostOnce
  <2>2. CASE pda = new
    BY <1>1, <1>2, <1>4, <2>2
  <2>. QED
    BY <2>1, <2>2
<1>9. ExecutedWithTerms'
  <2>. SUFFICES ASSUME NEW pda \in Opened
                PROVE  /\ ValidateActionBytes(proposal'[pda].action_bytes)
                       /\ proposal'[pda].executed =>
                            /\ proposal'[pda].approvals_count
                                 >= multisig[pda.create_key].m
                            /\ calls'[pda] = <<TermsOf(pda)'>>
    BY <1>1, <1>3 DEF ExecutedWithTerms
  <2>1. TermsOf(pda)' = TermsOf(pda)
    BY <1>1, <1>2 DEF TermsOf, Opened
  <2>2. CASE pda # new
    BY <1>1, <2>1, <2>2 DEF IInv, ExecutedWithTerms, Opened
  <2>3. CASE pda = new
    BY <1>1, <1>2, <1>3, <1>4, <2>1, <2>3 DEF IInv, ExecutedWithTerms
  <2>. QED
    BY <2>2, <2>3
<1>. QED
  BY <1>5, <1>6, <1>7, <1>8, <1>9, TypeStep, ReceiptsStaySound DEF IInv

\* The accounts, receipts and calls of every reachable state fit together.
THEOREM InductiveInvariant == Spec => []IInv
<1>1. IInv /\ [Next]_vars => IInv'
  <2>. SUFFICES ASSUME IInv, [Next]_vars PROVE IInv'
    OBVIOUS
  <2>1. ASSUME NEW key \in CreateKey, NEW root \in MembersRoot,
               NEW m \in 0..MaxU8, NEW n \in 0..MaxU32,
               CreateMultisig(key, root, m, n)
        PROVE  IInv'
    BY <2>1, CreateKeepsIInv
  <2>2. ASSUME NEW key \in CreateKey, CreateVault(key)
        PROVE  IInv'
    BY <2>2, QuietKeepsIInv DEF CreateVault
  <2>3. ASSUME NEW key \in CreateKey, NEW index \in Index,
               NEW action \in Action, NEW target \in Target,
               Propose(key, index, action, target)
        PROVE  IInv'
    BY <2>3, ProposeKeepsIInv
  <2>4. ASSUME NEW input \in ProverInput, ApproveCircuit(input)
        PROVE  IInv'
    BY <2>4, QuietKeepsIInv DEF ApproveCircuit
  <2>5. ASSUME NEW key \in CreateKey, NEW index \in Index,
               NEW public_inputs \in receipts,
               NEW nullifier \in {journal.nullifier : journal \in receipts},
               Approve(key, index, nullifier, public_inputs)
        PROVE  IInv'
    BY <2>5, ApproveKeepsIInv
  <2>6. ASSUME NEW key \in CreateKey, NEW index \in Index,
               Execute(key, index)
        PROVE  IInv'
    BY <2>6, ExecuteKeepsIInv
  <2>7. ASSUME NEW key \in CreateKey, Reject(key)
        PROVE  IInv'
    BY <2>7, QuietKeepsIInv DEF Reject, vars
  <2>8. CASE UNCHANGED vars
    BY <2>8, QuietKeepsIInv DEF vars
  <2>. QED
    BY <2>1, <2>2, <2>3, <2>4, <2>5, <2>6, <2>7, <2>8 DEF Next
<1>. QED
  BY <1>1, InitIInv, PTL DEF Spec

-----------------------------------------------------------------------------
(* The safety properties, for every value of the constants. *)

\* approvals_count never drifts from the number of distinct members that
\* voted.
THEOREM CountIsAlwaysDistinctVoters == Spec => []CountIsDistinctVoters
<1>1. IInv => CountIsDistinctVoters
  BY DEF IInv
<1>. QED
  BY <1>1, InductiveInvariant, PTL

\* Every spent nullifier is the consent of a member to that very proposal.
THEOREM VotersAlwaysConsented == Spec => []VotersConsented
<1>1. IInv => VotersConsented
  BY DEF IInv
<1>. QED
  BY <1>1, InductiveInvariant, PTL

\* No nullifier is spent on two proposals: the proposal id in it names one.
THEOREM VotesNeverReused == Spec => []VotesNotReused
<1>1. IInv => VotesNotReused
  <2>. SUFFICES ASSUME IInv, NEW e \in nullifierEntry, NEW f \in nullifierEntry,
                       e.nullifier = f.nullifier
                PROVE  e = f
    BY DEF VotesNotReused
  <2>1. e \in NullifierPda /\ f \in NullifierPda
    BY DEF IInv, TypeOK
  <2>2. /\ e.nullifier.proposal_id.state_pda = e.proposal.create_key
        /\ e.nullifier.proposal_id.index = e.proposal.index
        /\ f.nullifier.proposal_id.state_pda = f.proposal.create_key
        /\ f.nullifier.proposal_id.index = f.proposal.index
    <3>1. \A g \in nullifierEntry :
            g.nullifier.proposal_id =
              RecomputedProposalId(g.proposal.create_key, g.proposal.index)
      BY DEF IInv, VotersConsented, VoteConsented
    <3>2. \A key, index :
            /\ RecomputedProposalId(key, index).state_pda = key
            /\ RecomputedProposalId(key, index).index = index
      BY DEF RecomputedProposalId
    <3>. QED
      BY <3>1, <3>2
  <2>3. e.proposal = f.proposal
    BY <2>1, <2>2, AddressIsPda DEF NullifierPda
  <2>. QED
    BY <2>1, <2>3 DEF NullifierPda
<1>. QED
  BY <1>1, InductiveInvariant, PTL

\* The members of an instance who consent to anything are finitely many.
LEMMA ConsentingFinite ==
  ASSUME TypeOK, NEW key \in CreateKey, multisig[key] # Absent, NEW id
  PROVE  IsFiniteSet(Consenting(key, id))
<1>1. multisig[key] \in MultisigState
  BY StoredBodies
<1>2. Consenting(key, id) \subseteq Secret
  BY <1>1, RootsAssumption DEF Consenting, Enrolled, Identity, MultisigState
<1>. QED
  BY <1>2, SecretsAssumption, FS_Subset

\* Every call was consented to, term by term, by m distinct enrolled members.
THEOREM CallsAlwaysBacked == Spec => []CallsBackedByThreshold
<1>1. IInv => CallsBackedByThreshold
  <2>. SUFFICES ASSUME IInv, NEW pda \in ProposalPda,
                       NEW i \in DOMAIN calls[pda]
                PROVE  LET call == calls[pda][i] IN
                       /\ call.pda_seeds = pda.create_key
                       /\ ValidateActionBytes(call.instruction_data)
                       /\ Cardinality(Consenting(pda.create_key,
                                                CallId(pda, call)))
                            >= multisig[pda.create_key].m
    BY DEF CallsBackedByThreshold
  <2>. DEFINE key == pda.create_key
              id  == RecomputedProposalId(key, pda.index)
  <2>1. /\ TypeOK /\ VotersConsented /\ CountIsDistinctVoters
        /\ FiresAtMostOnce /\ ExecutedWithTerms /\ IndicesDense
    BY DEF IInv
  <2>2. calls[pda] \in Seq(ChainedCall) /\ Len(calls[pda]) # 0
    BY <2>1 DEF TypeOK
  <2>3. pda \in Opened /\ proposal[pda].executed
    BY <2>1, <2>2 DEF FiresAtMostOnce
  <2>4. /\ proposal[pda].approvals_count >= multisig[key].m
        /\ calls[pda] = <<TermsOf(pda)>>
        /\ ValidateActionBytes(proposal[pda].action_bytes)
    BY <2>1, <2>3 DEF ExecutedWithTerms
  <2>5. calls[pda][i] = TermsOf(pda)
    BY <2>4
  <2>6. CallId(pda, TermsOf(pda)) = id
    BY AddressIsPda DEF CallId, TermsOf, RecomputedProposalId
  <2>7. Voters(pda) \subseteq Consenting(key, id)
    BY <2>1 DEF VotersConsented, VoteConsented, Voters
  <2>8. IsFiniteSet(Consenting(key, id))
    BY <2>1, <2>3, AddressIsPda, ConsentingFinite DEF IndicesDense
  <2>9. Cardinality(Voters(pda)) <= Cardinality(Consenting(key, id))
    BY <2>7, <2>8, FS_Subset
  <2>10. /\ proposal[pda].approvals_count = Cardinality(Voters(pda))
         /\ Cardinality(Voters(pda)) \in Nat
         /\ Cardinality(Consenting(key, id)) \in Nat
         /\ multisig[key].m \in Nat
    BY <2>1, <2>3, <2>8, VotersFinite, FS_CardinalityType, AddressIsPda,
       StoredBodies, WidthsAssumption
       DEF CountIsDistinctVoters, IndicesDense, MultisigState
  <2>. QED
    BY <2>4, <2>5, <2>6, <2>9, <2>10 DEF TermsOf
<1>. QED
  BY <1>1, InductiveInvariant, PTL

\* The safety half of BackedProposalsFire: no reachable state blocks a
\* proposal that m members consented to.
THEOREM BackedIsNeverStuck == Spec => []BackedNeverStuck
<1>1. IInv => BackedNeverStuck
  <2>. SUFFICES ASSUME IInv, NEW pda \in ProposalPda, Backed(pda),
                       calls[pda] = <<>>,
                       ~ ReadyToFire(pda.create_key, pda)
                PROVE  \E journal \in receipts :
                         /\ journal.nullifier.sk \notin Voters(pda)
                         /\ Approvable(pda.create_key, pda.index,
                                       journal.nullifier, journal)
    BY DEF BackedNeverStuck
  <2>. DEFINE key == pda.create_key
              id  == RecomputedProposalId(key, pda.index)
              m   == multisig[key].m
              count == proposal[pda].approvals_count
  <2>1. /\ TypeOK /\ VotersConsented /\ CountIsDistinctVoters
        /\ FiresAtMostOnce /\ IndicesDense
    BY DEF IInv
  <2>2. pda \in Opened /\ multisig[key] # Absent /\ key \in CreateKey
    BY <2>1, AddressIsPda DEF Backed, IndicesDense
  <2>3. multisig[key] \in MultisigState /\ proposal[pda] \in Proposal
    BY <2>1, <2>2, StoredBodies DEF Opened
  <2>4. m \in Nat /\ m <= MaxU32 /\ count \in Nat
    BY <2>3, WidthsAssumption DEF MultisigState, Proposal
  <2>5. ~ proposal[pda].executed
    BY <2>1, <2>2 DEF FiresAtMostOnce
  <2>6. count < m
    BY <2>4, <2>5 DEF ReadyToFire
  <2>7. IsFiniteSet(Consenting(key, id)) /\ IsFiniteSet(Voters(pda))
    BY <2>1, <2>2, ConsentingFinite, VotersFinite
  <2>8. PICK sk \in Consenting(key, id) : sk \notin Voters(pda)
    <3>1. /\ Cardinality(Voters(pda)) = count
          /\ Cardinality(Consenting(key, id)) >= m
      BY <2>1, <2>2 DEF CountIsDistinctVoters, Backed
    <3>2. Cardinality(Consenting(key, id)) \in Nat
      BY <2>7, FS_CardinalityType
    <3>3. ASSUME Consenting(key, id) \subseteq Voters(pda) PROVE FALSE
      <4>1. Cardinality(Consenting(key, id)) <= Cardinality(Voters(pda))
        BY <2>7, <3>3, FS_Subset
      <4>. HIDE DEF m, count
      <4>. QED
        BY <2>4, <2>6, <3>1, <3>2, <4>1
    <3>. QED
      BY <3>3
  <2>. DEFINE nullifier == [sk |-> sk, proposal_id |-> id]
              journal == [members_root |-> multisig[key].members_root,
                          proposal_id |-> id, nullifier |-> nullifier]
  <2>9. journal \in receipts /\ journal.nullifier.sk = sk
    BY <2>8 DEF Consenting
  <2>10. Pda(key, pda.index) = pda
    BY AddressIsPda
  <2>11. NullifierUnspent(pda, nullifier)
    BY <2>8 DEF NullifierUnspent, Voters
  <2>12. ReceiptMatches(key, pda.index, nullifier, journal)
    BY DEF ReceiptMatches
  <2>13. ApprovalsFit(pda)
    BY <2>4, <2>6, WidthsAssumption DEF ApprovalsFit
  <2>14. Approvable(key, pda.index, journal.nullifier, journal)
    BY <2>2, <2>9, <2>10, <2>11, <2>12, <2>13 DEF Approvable, Opened
  <2>. QED
    BY <2>8, <2>9, <2>14
<1>. QED
  BY <1>1, InductiveInvariant, PTL

\* A proposal fires at most once.
THEOREM AlwaysFiresAtMostOnce == Spec => []FiresAtMostOnce
<1>1. IInv => FiresAtMostOnce
  BY DEF IInv
<1>. QED
  BY <1>1, InductiveInvariant, PTL

\* The proposals of an instance have the indices below its count.
THEOREM IndicesAlwaysDense == Spec => []IndicesDense
<1>1. IInv => IndicesDense
  BY DEF IInv
<1>. QED
  BY <1>1, InductiveInvariant, PTL

-----------------------------------------------------------------------------
(* The accounts implement a threshold vote. *)

BallotMapped(pda) ==
  /\ pda \notin Opened => Ballots[pda] = Absent
  /\ pda \in Opened =>
       /\ Ballots[pda] # Absent
       /\ Ballots[pda] =
            [terms      |-> TermsOf(pda),
             electorate |-> Enrolled(multisig[pda.create_key].members_root),
             quorum     |-> multisig[pda.create_key].m,
             voters     |-> Voters(pda),
             outcome    |-> calls[pda]]
       /\ TermsOf(pda) \in ChainedCall
       /\ Enrolled(multisig[pda.create_key].members_root) \subseteq Secret
       /\ multisig[pda.create_key].m \in 1..MaxU8

BallotsMapped == \A pda \in ProposalPda : BallotMapped(pda)

\* Only an unopened ballot is Absent.
LEMMA BallotOpened == IInv => BallotsMapped
<1>. SUFFICES ASSUME IInv, NEW pda \in ProposalPda PROVE BallotMapped(pda)
  BY DEF BallotsMapped
<1>. USE DEF BallotMapped
<1>1. CASE pda \notin Opened
  BY <1>1 DEF Ballots, BallotOf, Opened
<1>2. CASE pda \in Opened
  <2>. DEFINE key == pda.create_key
  <2>1. TypeOK /\ proposal[pda] \in Proposal
    BY <1>2, StoredBodies DEF IInv, Opened
  <2>2. multisig[key] # Absent /\ multisig[key] \in MultisigState
    BY <1>2, <2>1, StoredBodies, AddressIsPda DEF IInv, IndicesDense
  <2>3. TermsOf(pda) \in ChainedCall
    BY <2>1, AddressIsPda DEF TermsOf, ChainedCall, Proposal
  <2>4. Enrolled(multisig[key].members_root) \subseteq Secret
    BY <2>2, RootsAssumption DEF Enrolled, Identity, MultisigState
  <2>5. multisig[key].m \in 1..MaxU8
    BY <2>2, AddressIsPda, WidthsAssumption
       DEF IInv, ThresholdsValid, ValidateThreshold, MultisigState
  <2>6. Voters(pda) \subseteq Secret /\ calls[pda] \in Seq(ChainedCall)
    BY <2>1, VotersFinite DEF TypeOK
  <2>7. Ballots[pda] =
          [terms      |-> TermsOf(pda),
           electorate |-> Enrolled(multisig[pda.create_key].members_root),
           quorum     |-> multisig[pda.create_key].m,
           voters     |-> Voters(pda),
           outcome    |-> calls[pda]]
    BY <1>2 DEF Ballots, BallotOf, Opened
  <2>8. Ballots[pda] \in Vote!OpenBallot
    BY <2>3, <2>4, <2>5, <2>6, <2>7 DEF Vote!OpenBallot
  <2>. QED
    BY <1>2, <2>3, <2>4, <2>5, <2>7, <2>8, UnopenedAssumption
<1>. QED
  BY <1>1, <1>2

\* A ballot whose account, instance, votes and calls stand still does too.
LEMMA BallotUnchanged ==
  ASSUME NEW pda \in ProposalPda,
         proposal'[pda] = proposal[pda],
         proposal[pda] # Absent =>
           /\ multisig'[pda.create_key].members_root
                = multisig[pda.create_key].members_root
           /\ multisig'[pda.create_key].m = multisig[pda.create_key].m
           /\ Voters(pda)' = Voters(pda)
           /\ calls'[pda] = calls[pda]
  PROVE  Ballots'[pda] = Ballots[pda]
BY DEF Ballots, BallotOf, TermsOf

\* The instance's notion of size is the model's.
LEMMA SameCardinality == \A S : Vote!Cardinality(S) = Cardinality(S)
BY DEF Vote!Cardinality, Cardinality, Vote!IsFiniteSet, IsFiniteSet

\* Every accepted transaction opens a ballot, casts a vote, carries a ballot
\* out, or does not concern the ballots.
LEMMA StepImplementsVote ==
  ASSUME IInv, IInv', [Next]_vars
  PROVE  [Vote!Next]_Ballots
<1>. /\ Ballots = [pda \in ProposalPda |-> Ballots[pda]]
     /\ Ballots' = [pda \in ProposalPda |-> Ballots'[pda]]
  BY DEF Ballots
<1>. BallotsMapped /\ BallotsMapped'
  BY BallotOpened, PTL
<1>1. ASSUME NEW key \in CreateKey, NEW root \in MembersRoot,
             NEW m \in 0..MaxU8, NEW n \in 0..MaxU32,
             CreateMultisig(key, root, m, n)
      PROVE  Ballots' = Ballots
  <2>1. /\ multisig[key] = Absent
        /\ \A k \in CreateKey : k # key => multisig'[k] = multisig[k]
    BY <1>1, CreateEffect DEF IInv
  <2>2. ASSUME NEW pda \in ProposalPda
        PROVE  Ballots'[pda] = Ballots[pda]
    <3>1. proposal[pda] # Absent => pda.create_key # key
      BY <2>1 DEF IInv, IndicesDense, Opened
    <3>2. UNCHANGED <<proposal, calls>> /\ Voters(pda)' = Voters(pda)
      BY <1>1 DEF CreateMultisig, Voters
    <3>. QED
      BY <2>1, <3>1, <3>2, AddressIsPda, BallotUnchanged
  <2>. QED
    BY <2>2
<1>2. ASSUME UNCHANGED <<multisig, proposal, nullifierEntry, calls>>
      PROVE  Ballots' = Ballots
  BY <1>2 DEF Ballots, BallotOf, TermsOf, Voters
<1>3. ASSUME NEW key \in CreateKey, NEW index \in Index,
             NEW action \in Action, NEW target \in Target,
             Propose(key, index, action, target)
      PROVE  Vote!Next
  <2>. DEFINE new == Pda(key, index)
              electorate == Enrolled(multisig'[key].members_root)
              opened == [terms      |-> TermsOf(new)',
                         electorate |-> electorate,
                         quorum     |-> multisig'[key].m,
                         voters     |-> {},
                         outcome    |-> <<>>]
  <2>1. /\ new \in ProposalPda /\ new \notin Opened /\ new \in Opened'
        /\ \A pda \in ProposalPda : pda # new => proposal'[pda] = proposal[pda]
        /\ \A k \in CreateKey : k # key => multisig'[k] = multisig[k]
    BY <1>3, ProposeOpens, ProposeCounts DEF IInv
  <2>2. /\ multisig'[key].members_root = multisig[key].members_root
        /\ multisig'[key].m = multisig[key].m
    <3>1. /\ multisig[key] \in MultisigState
          /\ multisig'[key] =
               [multisig[key] EXCEPT !.proposal_count = index + 1]
      BY <1>3, ProposeCounts DEF IInv
    <3>. QED
      BY <3>1 DEF MultisigState
  <2>3. UNCHANGED <<nullifierEntry, calls>> /\ new.create_key = key
    BY <1>3 DEF Propose, Pda
  <2>4. Voters(new)' = {} /\ calls'[new] = <<>>
    <3>1. Voters(new) = {}
      BY <2>1 DEF Voters, IInv, VotersConsented, VoteConsented
    <3>2. Voters(new)' = Voters(new)
      BY <2>3 DEF Voters
    <3>3. Len(calls[new]) = 0 /\ calls[new] \in Seq(ChainedCall)
      BY <2>1 DEF IInv, FiresAtMostOnce, TypeOK
    <3>4. calls[new] = <<>>
      BY <3>3
    <3>. QED
      BY <2>3, <3>1, <3>2, <3>4
  <2>5. /\ Ballots[new] = Absent /\ Ballots'[new] = opened
        /\ TermsOf(new)' \in ChainedCall
        /\ electorate \in SUBSET Secret
        /\ multisig'[key].m \in 1..MaxU8
    <3>1. BallotMapped(new) /\ BallotMapped(new)'
      BY <2>1 DEF BallotsMapped
    <3>2. Ballots[new] = Absent
      BY <2>1, <3>1 DEF BallotMapped
    <3>. QED
      BY <2>1, <2>3, <2>4, <3>1, <3>2 DEF BallotMapped
  <2>6. ASSUME NEW pda \in ProposalPda, pda # new
        PROVE  Ballots'[pda] = Ballots[pda]
    <3>1. Voters(pda)' = Voters(pda) /\ calls'[pda] = calls[pda]
      BY <2>3 DEF Voters
    <3>2. /\ multisig'[pda.create_key].members_root
               = multisig[pda.create_key].members_root
          /\ multisig'[pda.create_key].m = multisig[pda.create_key].m
      BY <2>1, <2>2, AddressIsPda
    <3>. QED
      BY <2>1, <2>6, <3>1, <3>2, BallotUnchanged
  <2>7. Vote!Open(new, TermsOf(new)', electorate, multisig'[key].m)
    BY <2>1, <2>5, <2>6 DEF Vote!Open
  <2>. QED
    BY <2>1, <2>5, <2>7 DEF Vote!Next
<1>4. ASSUME NEW key \in CreateKey, NEW index \in Index,
             NEW public_inputs \in receipts,
             NEW nullifier \in {journal.nullifier : journal \in receipts},
             Approve(key, index, nullifier, public_inputs)
      PROVE  Vote!Next
  <2>. DEFINE new == Pda(key, index)
              sk  == nullifier.sk
  <2>1. VoteCast(key, index, nullifier)
    BY <1>4, ApproveCastsVote
  <2>2. /\ new \in Opened /\ new \in ProposalPda /\ new \in Opened'
        /\ new.create_key = key
        /\ sk \in Enrolled(multisig[key].members_root) /\ sk \notin Voters(new)
        /\ Voters(new)' = Voters(new) \cup {sk}
        /\ UNCHANGED <<multisig, calls>>
        /\ TermsOf(new)' = TermsOf(new)
        /\ \A pda \in ProposalPda : pda # new =>
             proposal'[pda] = proposal[pda] /\ Voters(pda)' = Voters(pda)
    BY <2>1 DEF VoteCast, Opened, Pda
  <2>3. /\ BallotMapped(new) /\ BallotMapped(new)'
    BY <2>2 DEF BallotsMapped
  <2>4. /\ Ballots[new] # Absent
        /\ sk \in Ballots[new].electorate \ Ballots[new].voters
        /\ sk \in Secret
        /\ Ballots'[new] = [Ballots[new] EXCEPT !.voters = @ \cup {sk}]
    BY <2>2, <2>3 DEF BallotMapped
  <2>5. \A pda \in ProposalPda : pda # new => Ballots'[pda] = Ballots[pda]
    BY <2>2, BallotUnchanged
  <2>6. Ballots' = [Ballots EXCEPT ![new].voters = @ \cup {sk}]
    BY <2>2, <2>4, <2>5
  <2>. QED
    <3>1. Vote!Vote(new, sk)
      BY <2>4, <2>6 DEF Vote!Vote
    <3>. QED
      BY <2>2, <2>4, <3>1 DEF Vote!Next
<1>5. ASSUME NEW key \in CreateKey, NEW index \in Index,
             Execute(key, index)
      PROVE  Vote!Next
  <2>. DEFINE new == Pda(key, index)
  <2>1. /\ new \in Opened /\ new \in ProposalPda /\ new \in Opened'
        /\ \A pda \in ProposalPda : pda # new =>
             proposal'[pda] = proposal[pda] /\ calls'[pda] = calls[pda]
    BY <1>5, ExecuteEffect DEF IInv, Opened
  <2>2. /\ calls'[new] = Append(calls[new], TermsOf(new))
        /\ TermsOf(new)' = TermsOf(new)
    BY <1>5, ExecuteEffect DEF IInv, TermsOf
  <2>3. /\ ~ proposal[new].executed
        /\ proposal[new].approvals_count >= multisig[key].m
        /\ UNCHANGED <<multisig, nullifierEntry>>
        /\ new.create_key = key
    BY <1>5 DEF Execute, ReadyToFire, Pda
  <2>4. \A pda \in ProposalPda : Voters(pda)' = Voters(pda)
    BY <2>3 DEF Voters
  <2>5. calls[new] = <<>> /\ calls'[new] = <<TermsOf(new)>>
    <3>1. Len(calls[new]) = 0 /\ calls[new] \in Seq(ChainedCall)
      BY <2>1, <2>3 DEF IInv, FiresAtMostOnce, TypeOK
    <3>2. calls[new] = <<>>
      BY <3>1
    <3>. QED
      BY <2>2, <3>2
  <2>6. Cardinality(Voters(new)) >= multisig[key].m
    BY <2>1, <2>3 DEF IInv, CountIsDistinctVoters
  <2>7. BallotMapped(new) /\ BallotMapped(new)'
    BY <2>1 DEF BallotsMapped
  <2>8. /\ Ballots[new] # Absent
        /\ Ballots[new].outcome = <<>>
        /\ Cardinality(Ballots[new].voters) >= Ballots[new].quorum
        /\ Ballots'[new] =
             [Ballots[new] EXCEPT !.outcome = <<Ballots[new].terms>>]
    BY <2>1, <2>2, <2>3, <2>4, <2>5, <2>6, <2>7 DEF BallotMapped
  <2>9. \A pda \in ProposalPda : pda # new => Ballots'[pda] = Ballots[pda]
    BY <2>1, <2>3, <2>4, BallotUnchanged
  <2>10. Ballots' =
           [Ballots EXCEPT ![new].outcome = <<Ballots[new].terms>>]
    BY <2>1, <2>8, <2>9
  <2>. QED
    <3>1. Vote!CarryOut(new)
      BY <2>8, <2>10, SameCardinality DEF Vote!CarryOut
    <3>. QED
      BY <2>1, <3>1 DEF Vote!Next
<1>6. CASE UNCHANGED vars
  BY <1>2, <1>6 DEF vars
<1>. QED
  BY <1>1, <1>2, <1>3, <1>4, <1>5, <1>6
     DEF Next, CreateVault, ApproveCircuit, Reject, vars

\* The program implements an open-once, vote-once, carry-out-once ballot.
THEOREM Refinement == Spec => ImplementsThresholdVote
<1>1. Init => Vote!Init
  BY DEF Init, Vote!Init, Ballots, BallotOf
<1>2. IInv /\ IInv' /\ [Next]_vars => [Vote!Next]_Ballots
  BY StepImplementsVote
<1>. QED
  BY <1>1, <1>2, InductiveInvariant, PTL
     DEF Spec, ImplementsThresholdVote, Vote!Spec
=============================================================================
