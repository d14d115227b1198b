------------------------ MODULE ApprovalProverProofs ------------------------
(***************************************************************************)
(* Proofs about ApprovalProver for any number of clients, instances and    *)
(* members: what is proved of the verifier holds of approvals made through *)
(* the SDK, and no proof of the stored terms is wasted.                    *)
(***************************************************************************)
EXTENDS ApprovalProver, PrivateMultisigProofs

-----------------------------------------------------------------------------
(* Clients against the chain. *)

\* The chain keeps what a snapshot tells of it.
LEMMA MirrorsKept ==
  ASSUME TypeOK, [Next]_vars, NEW seen \in Snapshot, Mirrors(seen)
  PROVE  Mirrors(seen)'
<1>. DEFINE key == seen.create_key
<1>1. key \in CreateKey /\ multisig[key] \in MultisigState
  BY StoredBodies DEF Snapshot, Mirrors
<1>2. /\ multisig'[key].members_root = multisig[key].members_root
      /\ multisig'[key].m = multisig[key].m
      /\ multisig'[key].n = multisig[key].n
      /\ multisig'[key].proposal_count >= multisig[key].proposal_count
  BY <1>1, StepFreezesTerms DEF TermsFrozen, Mirrors
<1>3. multisig'[key] # Absent
  BY <1>1, InstancesStay DEF Mirrors
<1>4. multisig'[key] \in MultisigState
  BY <1>1, <1>3, TypeStep DEF TypeOK
<1>. QED
  BY <1>1, <1>2, <1>3, <1>4, WidthsAssumption
  DEF Mirrors, Snapshot, MultisigState

\* What a client holds or has submitted stays sound while others act.
LEMMA SoundnessKept ==
  ASSUME TypeOK, [Next]_vars
  PROVE  /\ \A p \in Prover : ProverSound(p) => ProverSound(p)'
         /\ \A ix \in ApproveInstruction :
              InstructionSound(ix) => InstructionSound(ix)'
<1>1. receipts \subseteq receipts'
  BY StepFreezesTerms
<1>2. ASSUME NEW p \in Prover, ProverSound(p)
      PROVE  ProverSound(p)'
  <2>1. p.snapshot \in Snapshot
    BY DEF Prover
  <2>2. Mirrors(p.snapshot)'
    BY <1>2, <2>1, MirrorsKept DEF ProverSound
  <2>. QED
    BY <1>1, <1>2, <2>2 DEF ProverSound
<1>3. ASSUME NEW ix \in ApproveInstruction, InstructionSound(ix)
      PROVE  InstructionSound(ix)'
  <2>. DEFINE key == ix.create_key
  <2>1. key \in CreateKey /\ ix.index \in Index
    BY DEF ApproveInstruction
  <2>2. multisig[key] # Absent /\ multisig'[key] # Absent
    BY <1>3, <2>1, InstancesStay DEF InstructionSound
  <2>3. /\ multisig[key] \in MultisigState
        /\ multisig'[key] \in MultisigState
    BY <2>1, <2>2, TypeStep DEF TypeOK
  <2>4. /\ multisig'[key].members_root = multisig[key].members_root
        /\ multisig'[key].proposal_count >= multisig[key].proposal_count
    BY <2>1, <2>2, StepFreezesTerms DEF TermsFrozen
  <2>5. ix.index < multisig'[key].proposal_count
    BY <1>3, <2>1, <2>3, <2>4, WidthsAssumption
    DEF InstructionSound, Index, MultisigState
  <2>. QED
    BY <1>1, <1>3, <2>2, <2>4, <2>5 DEF InstructionSound
<1>. QED
  BY <1>2, <1>3

\* Public inputs, and the witness they are proved from, are well typed.
LEMMA InputsTyped ==
  ASSUME NEW p \in Prover
  PROVE  /\ PublicInputs(p) \in Journal
         /\ WitnessOf(p) \in ProverInput
         /\ InstructionOf(p) \in ApproveInstruction
<1>1. /\ p.snapshot \in Snapshot /\ p.identity \in Identity
      /\ p.index \in Index
      /\ p.action_bytes \in Action /\ p.target_program \in Target
  BY DEF Prover
<1>2. /\ p.snapshot.create_key \in CreateKey
      /\ p.snapshot.state.members_root \in MembersRoot
  BY <1>1 DEF Snapshot, MultisigState
<1>3. DerivedProposalId(p) \in ProposalId
  BY <1>1, <1>2, ChainAssumption DEF DerivedProposalId, ProposalId
<1>4. PublicInputs(p) \in Journal /\ PublicInputs(p).nullifier \in Nullifier
  BY <1>1, <1>2, <1>3 DEF PublicInputs, Journal, Nullifier, Identity
<1>5. WitnessOf(p) \in ProverInput
  BY <1>1, <1>2, <1>3, AnyWitness DEF WitnessOf
<1>. QED
  BY <1>1, <1>2, <1>4, <1>5 DEF InstructionOf, ApproveInstruction

\* A step of a client or of block production is, on the chain, one of its own
\* transactions, a run of the circuit, or nothing.
LEMMA ClientStepIsChainStep ==
  TypeOK /\ ClientIInv /\ [ClientNext]_allVars => [Next]_vars
<1>. SUFFICES ASSUME TypeOK, ClientIInv, [ClientNext]_allVars
              PROVE  [Next]_vars
  OBVIOUS
<1>1. CASE ChainStep
  BY <1>1 DEF ChainStep, Next
<1>2. ASSUME NEW c \in Client, Prove(c)
      PROVE  [Next]_vars
  <2>1. prover[c] \in Prover
    BY <1>2 DEF Prove, ClientIInv, ClientTypeOK
  <2>2. WitnessOf(prover[c]) \in ProverInput
    BY <2>1, InputsTyped
  <2>. QED
    BY <1>2, <2>2 DEF Prove, Next
<1>3. ASSUME NEW ix \in mempool, Include(ix)
      PROVE  [Next]_vars
  <2>1. ix.create_key \in CreateKey /\ ix.index \in Index
    BY DEF ClientIInv, ClientTypeOK, ApproveInstruction
  <2>2. /\ ix.public_inputs \in receipts
        /\ ix.nullifier \in {journal.nullifier : journal \in receipts}
    BY DEF ClientIInv, InstructionSound
  <2>. QED
    BY <1>3, <2>1, <2>2 DEF Include, Next
<1>4. CASE UNCHANGED vars
  BY <1>4
<1>. QED
  BY <1>1, <1>2, <1>3, <1>4
  DEF ClientNext, ClientStep, TakeSnapshot, NewProver, Submit, Drop, Skip,
      allVars

\* Every step leaves what the clients hold, and what is in the mempool, sound.
LEMMA ClientStepKeepsIInv ==
  TypeOK /\ ClientIInv /\ [ClientNext]_allVars => ClientIInv'
<1>. SUFFICES ASSUME TypeOK, ClientIInv, [ClientNext]_allVars
              PROVE  ClientIInv'
  OBVIOUS
<1>1. [Next]_vars
  BY ClientStepIsChainStep
<1>2. /\ \A seen \in Snapshot : Mirrors(seen) => Mirrors(seen)'
      /\ \A p \in Prover : ProverSound(p) => ProverSound(p)'
      /\ \A ix \in ApproveInstruction :
           InstructionSound(ix) => InstructionSound(ix)'
  BY <1>1, MirrorsKept, SoundnessKept
<1>3. /\ \A c \in Client : snapshot[c] # None =>
           snapshot[c] \in Snapshot /\ Mirrors(snapshot[c])
      /\ \A c \in Client : prover[c] # None =>
           prover[c] \in Prover /\ ProverSound(prover[c])
      /\ \A ix \in mempool :
           ix \in ApproveInstruction /\ InstructionSound(ix)
  BY DEF ClientIInv, ClientTypeOK
<1>4. ASSUME mempool' \subseteq mempool, UNCHANGED <<snapshot, prover>>
      PROVE  ClientIInv'
  BY <1>2, <1>3, <1>4 DEF ClientIInv, ClientTypeOK
<1>5. ASSUME NEW c \in Client, NEW key \in CreateKey, TakeSnapshot(c, key)
      PROVE  ClientIInv'
  <2>. DEFINE seen == [create_key |-> key, state |-> multisig[key]]
  <2>1. multisig[key] \in MultisigState
    BY <1>5, StoredBodies DEF TakeSnapshot, Fetchable
  <2>2. seen \in Snapshot /\ Mirrors(seen)
    BY <1>5, <2>1, WidthsAssumption
    DEF Snapshot, Mirrors, TakeSnapshot, Fetchable, MultisigState
  <2>3. snapshot' = [snapshot EXCEPT ![c] = seen]
    BY <1>5 DEF TakeSnapshot
  <2>4. UNCHANGED <<prover, mempool>>
    BY <1>5 DEF TakeSnapshot
  <2>. QED
    BY <1>2, <1>3, <2>2, <2>3, <2>4 DEF ClientIInv, ClientTypeOK
<1>6. ASSUME NEW c \in Client, NEW new \in Prover \cup {None},
             new # None => ProverSound(new)',
             prover' = [prover EXCEPT ![c] = new],
             UNCHANGED <<snapshot, mempool>>
      PROVE  ClientIInv'
  BY <1>2, <1>3, <1>6 DEF ClientIInv, ClientTypeOK
<1>7. ASSUME NEW c \in Client, NEW index \in Index,
             NEW action \in Action, NEW target \in Target,
             NewProver(c, index, action, target)
      PROVE  ClientIInv'
  <2>. PICK seen \in Snapshot : seen = snapshot[c]
    BY <1>3, <1>7 DEF NewProver
  <2>. DEFINE new == [snapshot |-> seen, identity |-> MemberOf[c],
                      index |-> index, action_bytes |-> action,
                      target_program |-> target, receipt |-> None]
  <2>1. Mirrors(seen)
    BY <1>3, <1>7 DEF NewProver
  <2>2. new \in Prover
    BY <2>1, MembersAssumption DEF Prover
  <2>3. ProverSound(new)
    BY <1>7, <2>1 DEF ProverSound, NewProver
  <2>4. ProverSound(new)'
    BY <1>2, <2>2, <2>3
  <2>. QED
    BY <1>6, <1>7, <2>2, <2>4 DEF NewProver
<1>8. ASSUME NEW c \in Client, Prove(c)
      PROVE  ClientIInv'
  <2>. PICK p \in Prover : p = prover[c]
    BY <1>3, <1>8 DEF Prove
  <2>. DEFINE new == [p EXCEPT !.receipt = PublicInputs(p)]
  <2>1. ProverSound(p)
    BY <1>3, <1>8 DEF Prove
  <2>2. new \in Prover
    BY <2>1, InputsTyped DEF Prover
  <2>3. PublicInputs(p) \in receipts'
    BY <1>8 DEF Prove, ApproveCircuit, WitnessOf, PublicInputs
  <2>4. /\ new.snapshot = p.snapshot /\ new.index = p.index
        /\ new.receipt = PublicInputs(p)
        /\ PublicInputs(new) = PublicInputs(p)
    BY <2>1 DEF Prover, PublicInputs, DerivedProposalId
  <2>5. ProverSound(p)'
    BY <1>2, <2>1
  <2>6. ProverSound(new)'
    BY <2>3, <2>4, <2>5 DEF ProverSound
  <2>7. prover' = [prover EXCEPT ![c] = new] /\ UNCHANGED <<snapshot, mempool>>
    BY <1>8 DEF Prove
  <2>. QED
    BY <1>6, <2>2, <2>6, <2>7
<1>9. ASSUME NEW c \in Client, Submit(c)
      PROVE  ClientIInv'
  <2>. DEFINE p  == prover[c]
              ix == InstructionOf(p)
  <2>1. /\ p \in Prover /\ ProverSound(p) /\ p.receipt # None
        /\ p.snapshot \in Snapshot /\ p.index \in Index
    BY <1>3, <1>9 DEF Submit, Prover
  <2>2. ix \in ApproveInstruction
    BY <2>1, InputsTyped
  <2>3. /\ PublicInputs(p) \in receipts
        /\ multisig[p.snapshot.create_key] \in MultisigState
    BY <2>1, StoredBodies DEF ProverSound, Mirrors, Snapshot
  <2>4. p.index < multisig[p.snapshot.create_key].proposal_count
    BY <2>1, <2>3, WidthsAssumption
    DEF ProverSound, Mirrors, FreshIndex, Index, Snapshot, MultisigState
  <2>5. InstructionSound(ix)
    BY <2>1, <2>3, <2>4
    DEF InstructionSound, InstructionOf, ProverSound, Mirrors, PublicInputs
  <2>6. mempool' = mempool \cup {ix} /\ UNCHANGED <<snapshot, prover>>
    BY <1>9 DEF Submit
  <2>. QED
    BY <1>2, <1>3, <2>2, <2>5, <2>6 DEF ClientIInv, ClientTypeOK
<1>10. ASSUME NEW c \in Client, Drop(c)
       PROVE  ClientIInv'
  BY <1>6, <1>10 DEF Drop
<1>. QED
  BY <1>4, <1>5, <1>7, <1>8, <1>9, <1>10
  DEF ClientNext, ClientStep, ChainStep, Include, Skip, allVars, clientVars

-----------------------------------------------------------------------------
(* Theorems. *)

\* At first nobody holds anything.
LEMMA ClientInitIInv == ClientInit => TypeOK /\ ClientIInv
BY DEF ClientInit, Init, TypeOK, ClientIInv, ClientTypeOK

\* What clients hold is true of the chain, and what they submit carries a
\* receipt under the root of its instance.
THEOREM ClientInvariant == ClientSpec => [](TypeOK /\ ClientIInv)
<1>1. TypeOK /\ ClientIInv /\ [ClientNext]_allVars => TypeOK' /\ ClientIInv'
  BY ClientStepIsChainStep, ClientStepKeepsIInv, TypeStep
<1>. QED
  BY <1>1, ClientInitIInv, PTL DEF ClientSpec

\* Snapshots, provers and submissions stay what their fields say.
THEOREM ClientTypeCorrect == ClientSpec => []ClientTypeOK
<1>1. ClientIInv => ClientTypeOK
  BY DEF ClientIInv
<1>. QED
  BY <1>1, ClientInvariant, PTL

\* Approvals made through the SDK, with their mempool, are behaviours of the
\* verifier: every theorem about Spec holds of them.
THEOREM ClientsFollowVerifier == ClientSpec => FollowsVerifier
<1>1. ClientInit => Init
  BY DEF ClientInit
<1>. QED
  BY <1>1, ClientStepIsChainStep, ClientInvariant, PTL
  DEF ClientSpec, Spec, FollowsVerifier

\* Every prover and every submission is for a proposal that exists, under the
\* terms the snapshot told.
THEOREM ProversAlwaysTargetProposals == ClientSpec => []ProversTargetProposals
<1>1. IInv /\ ClientIInv => ProversTargetProposals
  <2>. SUFFICES ASSUME IInv, ClientIInv PROVE ProversTargetProposals
    OBVIOUS
  <2>. TypeOK /\ IndicesDense
    BY DEF IInv
  <2>1. ASSUME NEW c \in Client, prover[c] # None
        PROVE  /\ Mirrors(prover[c].snapshot)
               /\ Pda(prover[c].snapshot.create_key, prover[c].index) \in Opened
    <3>. DEFINE p   == prover[c]
                key == p.snapshot.create_key
    <3>1. p \in Prover /\ ProverSound(p)
      BY <2>1 DEF ClientIInv, ClientTypeOK
    <3>2. p.snapshot \in Snapshot /\ p.index \in Index /\ key \in CreateKey
      BY <3>1 DEF Prover, Snapshot
    <3>3. multisig[key] \in MultisigState /\ multisig[key] # Absent
      BY <3>1, <3>2, StoredBodies DEF ProverSound, Mirrors
    <3>4. p.index < multisig[key].proposal_count
      BY <3>1, <3>2, <3>3, WidthsAssumption
      DEF ProverSound, Mirrors, FreshIndex, Index, Snapshot, MultisigState
    <3>. QED
      BY <3>1, <3>2, <3>3, <3>4, PdaIsAddress
      DEF IndicesDense, Pda, ProverSound
  <2>2. ASSUME NEW ix \in mempool
        PROVE  Pda(ix.create_key, ix.index) \in Opened
    <3>1. ix.create_key \in CreateKey /\ ix.index \in Index
      BY DEF ClientIInv, ClientTypeOK, ApproveInstruction
    <3>2. InstructionSound(ix)
      BY DEF ClientIInv
    <3>. QED
      BY <3>1, <3>2, PdaIsAddress DEF IndicesDense, Pda, InstructionSound
  <2>. QED
    BY <2>1, <2>2 DEF ProversTargetProposals
<1>. QED
  BY <1>1, ClientInvariant, ClientsFollowVerifier, InductiveInvariant, PTL
  DEF FollowsVerifier

\* No proof of the stored terms is wasted: the checks of approve that could
\* fail after the proof was made are those that fail because the member's
\* vote is counted already.
THEOREM NoProofWasted == ClientSpec => SkippedOnlyIfVoted
<1>1. ASSUME IInv, ClientIInv, NEW ix \in mempool,
             ForStoredTerms(ix), ~ Accepted(ix)
      PROVE  VotedBy(ix)
  <2>. DEFINE key  == ix.create_key
              pda  == Pda(key, ix.index)
              root == multisig[key].members_root
              sk   == ix.nullifier.sk
  <2>. /\ TypeOK /\ VotersConsented /\ CountIsDistinctVoters
       /\ ReceiptsSound /\ InstructionSound(ix) /\ ix \in ApproveInstruction
    BY <1>1 DEF IInv, ClientIInv, ClientTypeOK
  <2>1. /\ key \in CreateKey /\ ix.index \in Index
        /\ pda \in ProposalPda /\ pda \in Opened /\ pda.create_key = key
    BY <1>1, PdaIsAddress DEF ApproveInstruction, ForStoredTerms, Pda
  <2>2. /\ multisig[key] # Absent /\ multisig[key] \in MultisigState
        /\ root \in MembersRoot
    BY <2>1, StoredBodies DEF InstructionSound, MultisigState
  <2>3. ~ NullifierUnspent(pda, ix.nullifier) \/ ~ ApprovalsFit(pda)
    BY <1>1, <2>1, <2>2
    DEF Accepted, Approvable, ReceiptMatches, ForStoredTerms,
        InstructionSound, Opened
  <2>4. CASE ~ NullifierUnspent(pda, ix.nullifier)
    BY <2>4 DEF NullifierUnspent, VotedBy, Voters
  <2>5. CASE ~ ApprovalsFit(pda)
    <3>1. /\ Voters(pda) \subseteq Enrolled(root)
          /\ sk \in Enrolled(root)
      <4>1. ASSUME NEW entry \in nullifierEntry, entry.proposal = pda
            PROVE  entry.nullifier.sk \in Enrolled(root)
        BY <2>1, <4>1 DEF VotersConsented, VoteConsented, Consenting
      <4>. QED
        BY <4>1 DEF Voters, ReceiptsSound, InstructionSound
    <3>2. IsFiniteSet(Enrolled(root))
      <4>1. Enrolled(root) \subseteq Secret
        BY <2>2, RootsAssumption DEF Enrolled, Identity
      <4>. QED
        BY <4>1, SecretsAssumption, FS_Subset
    <3>3. /\ Cardinality(Voters(pda)) \in Nat
          /\ Cardinality(Enrolled(root)) \in Nat
          /\ Cardinality(Voters(pda)) <= Cardinality(Enrolled(root))
          /\ Cardinality(Voters(pda)) = Cardinality(Enrolled(root)) =>
               Voters(pda) = Enrolled(root)
      BY <3>1, <3>2, FS_Subset, FS_CardinalityType
    <3>4. Cardinality(Voters(pda)) >= MaxU32
      <4>1. proposal[pda].approvals_count = Cardinality(Voters(pda))
        BY <2>1 DEF CountIsDistinctVoters
      <4>. QED
        BY <2>5, <3>3, <4>1, WidthsAssumption DEF ApprovalsFit
    <3>5. Cardinality(Enrolled(root)) <= MaxU32
      BY <2>2, MembersFitCounter
    <3>6. Voters(pda) = Enrolled(root)
      BY <3>3, <3>4, <3>5, WidthsAssumption
    <3>. QED
      BY <3>1, <3>6 DEF VotedBy
  <2>. QED
    BY <2>3, <2>4, <2>5
<1>2. IInv /\ ClientIInv =>
        [\A ix \in mempool :
           ForStoredTerms(ix) /\ Skip(ix) => VotedBy(ix)]_allVars
  BY <1>1 DEF Skip
<1>. QED
  BY <1>2, ClientInvariant, ClientsFollowVerifier, InductiveInvariant, PTL
  DEF FollowsVerifier, SkippedOnlyIfVoted
=============================================================================
