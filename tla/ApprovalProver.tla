--------------------------- MODULE ApprovalProver ---------------------------
(***************************************************************************)
(* Member clients approving over the verifier of PrivateMultisig: a client *)
(* mirrors the state account (MultisigStateSnapshot), builds an            *)
(* ApprovalProver from the mirror, proves for minutes, and submits the     *)
(* cached result, while proposers, other members and relayers go on        *)
(* changing the chain.                                                     *)
(*                                                                         *)
(* The sequencer acknowledges a transaction when it enters the mempool; at *)
(* block production it is included or, when its execution fails, skipped.  *)
(* A mempool is a set: it keeps no order.                                  *)
(*                                                                         *)
(* A proving run that fails leaves the prover as it was and is not a step. *)
(***************************************************************************)
EXTENDS PrivateMultisig

CONSTANTS
  Client,   \* client processes
  MemberOf, \* the identity of each client's Member
  None

ASSUME MembersAssumption == MemberOf \in [Client -> Identity]

ASSUME NoneAssumption ==
  /\ None \notin [create_key : CreateKey, state : MultisigState]
  /\ None \notin Journal

\* Any witness may be given to the circuit.
ASSUME AnyWitness ==
  ProverInput = [members_root : MembersRoot, proposal_id : ProposalId,
                 identity : Identity]

\* A tree of depth 20 has far fewer leaves than a u32 counts.
ASSUME MembersFitCounter ==
  \A root \in MembersRoot : Cardinality(Enrolled(root)) <= MaxU32

VARIABLES
  snapshot, \* the MultisigStateSnapshot of each client
  prover,   \* its ApprovalProver
  mempool   \* approve instructions acknowledged and not yet decided

clientVars == <<snapshot, prover, mempool>>

allVars == <<vars, clientVars>>

Snapshot == [create_key : CreateKey, state : MultisigState]

Prover == [snapshot : Snapshot, identity : Identity, index : Index,
           action_bytes : Action, target_program : Target,
           receipt : Journal \cup {None}]

ApproveInstruction == [create_key : CreateKey, index : Index,
                       nullifier : Nullifier, public_inputs : Journal]

ClientInit ==
  /\ Init
  /\ snapshot = [c \in Client |-> None]
  /\ prover = [c \in Client |-> None]
  /\ mempool = {}

\* Faulty: an account that is not there is read all the same.
FetchAnyway(key) == TRUE

Fetchable(key) == multisig[key] # Absent

\* MultisigStateSnapshot::new on the account as it is fetched.
TakeSnapshot(c, key) ==
  /\ Fetchable(key)
  /\ snapshot' = [snapshot EXCEPT ![c] = [create_key |-> key,
                                         state |-> multisig[key]]]
  /\ UNCHANGED <<vars, prover, mempool>>

\* Faulty: the next free index passes for a proposal.
UpToCount(index, seen) == index <= seen.state.proposal_count

FreshIndex(index, seen) == index < seen.state.proposal_count

\* ApprovalProver::new, which clones the snapshot and is told the action and
\* the target by its caller.
NewProver(c, index, action, target) ==
  /\ snapshot[c] # None
  /\ prover[c] = None
  /\ ValidateActionBytes(action)
  /\ FreshIndex(index, snapshot[c])
  /\ MemberOf[c] \in snapshot[c].state.members_root
  /\ prover' = [prover EXCEPT ![c] =
                  [snapshot |-> snapshot[c], identity |-> MemberOf[c],
                   index |-> index, action_bytes |-> action,
                   target_program |-> target, receipt |-> None]]
  /\ UNCHANGED <<vars, snapshot, mempool>>

\* MultisigStateSnapshot::derive_proposal_id
DerivedProposalId(p) ==
  [chain_id |-> DeploymentChain, state_pda |-> p.snapshot.create_key,
   index |-> p.index, action_bytes |-> p.action_bytes,
   target_program |-> p.target_program]

\* ApprovalProver::public_inputs, computed without the receipt.
PublicInputs(p) ==
  [members_root |-> p.snapshot.state.members_root,
   proposal_id  |-> DerivedProposalId(p),
   nullifier    |-> [sk |-> p.identity.sk,
                     proposal_id |-> DerivedProposalId(p)]]

\* What run_risc0_prover writes for the guest to read.
WitnessOf(p) ==
  [members_root |-> p.snapshot.state.members_root,
   proposal_id  |-> DerivedProposalId(p),
   identity     |-> p.identity]

\* Faulty: the receipt is returned but not cached.
ProveUncached(c) ==
  /\ prover[c] # None
  /\ prover[c].receipt = None
  /\ ApproveCircuit(WitnessOf(prover[c]))
  /\ UNCHANGED clientVars

\* prove runs the circuit unless a receipt is cached.
Prove(c) ==
  /\ prover[c] # None
  /\ prover[c].receipt = None
  /\ ApproveCircuit(WitnessOf(prover[c]))
  /\ prover' = [prover EXCEPT ![c].receipt = PublicInputs(prover[c])]
  /\ UNCHANGED <<snapshot, mempool>>

\* The approve instruction built from public_inputs and nullifier.
InstructionOf(p) ==
  [create_key |-> p.snapshot.create_key, index |-> p.index,
   nullifier |-> PublicInputs(p).nullifier, public_inputs |-> PublicInputs(p)]

Submit(c) ==
  /\ prover[c] # None
  /\ prover[c].receipt # None
  /\ InstructionOf(prover[c]) \notin mempool
  /\ mempool' = mempool \cup {InstructionOf(prover[c])}
  /\ UNCHANGED <<vars, snapshot, prover>>

\* The prover is dropped: its client is done with it, or has died.
Drop(c) ==
  /\ prover[c] # None
  /\ prover' = [prover EXCEPT ![c] = None]
  /\ UNCHANGED <<vars, snapshot, mempool>>

Accepted(ix) ==
  Approvable(ix.create_key, ix.index, ix.nullifier, ix.public_inputs)

Include(ix) ==
  /\ ix \in mempool
  /\ Approve(ix.create_key, ix.index, ix.nullifier, ix.public_inputs)
  /\ mempool' = mempool \ {ix}
  /\ UNCHANGED <<snapshot, prover>>

\* Faulty: the nullifier account of a failed transaction stays.
SkipButFile(ix) ==
  /\ ix \in mempool
  /\ ~ Accepted(ix)
  /\ mempool' = mempool \ {ix}
  /\ nullifierEntry' = nullifierEntry \cup
       {[proposal |-> Pda(ix.create_key, ix.index), nullifier |-> ix.nullifier]}
  /\ UNCHANGED <<multisig, proposal, vault, receipts, calls, snapshot, prover>>

Skip(ix) ==
  /\ ix \in mempool
  /\ ~ Accepted(ix)
  /\ mempool' = mempool \ {ix}
  /\ UNCHANGED <<vars, snapshot, prover>>

\* The other transactions of the chain.
ChainStep ==
  /\ \/ \E key \in CreateKey, root \in MembersRoot :
          \E m \in 0..MaxU8, n \in 0..MaxU32 : CreateMultisig(key, root, m, n)
     \/ \E key \in CreateKey : CreateVault(key)
     \/ \E key \in CreateKey, index \in Index :
          \E action \in Action, target \in Target :
            Propose(key, index, action, target)
     \/ \E key \in CreateKey, index \in Index : Execute(key, index)
  /\ UNCHANGED clientVars

ClientStep(c) ==
  \/ \E key \in CreateKey : TakeSnapshot(c, key)
  \/ \E index \in Index, action \in Action, target \in Target :
       NewProver(c, index, action, target)
  \/ Prove(c)
  \/ Submit(c)
  \/ Drop(c)

ClientNext ==
  \/ ChainStep
  \/ \E c \in Client : ClientStep(c)
  \/ \E ix \in mempool : Include(ix) \/ Skip(ix)

ClientSpec == ClientInit /\ [][ClientNext]_allVars

\* A client that keeps its prover goes on proving and submitting, and block
\* production gets to every transaction that stays acceptable.
ClientFairness ==
  /\ \A c \in Client : WF_allVars(Prove(c)) /\ WF_allVars(Submit(c))
  /\ \A sk \in Secret, index \in Index, action \in Action :
       WF_allVars(\E ix \in mempool :
                    /\ ix.nullifier.sk = sk
                    /\ ix.index = index
                    /\ ix.public_inputs.proposal_id.action_bytes = action
                    /\ Include(ix))

FairClientSpec == ClientSpec /\ ClientFairness
-----------------------------------------------------------------------------

\* Type invariant.
ClientTypeOK ==
  /\ snapshot \in [Client -> Snapshot \cup {None}]
  /\ prover \in [Client -> Prover \cup {None}]
  /\ mempool \subseteq ApproveInstruction

\* A snapshot tells the terms of its instance as they are, and a count of
\* proposals that may be behind.
Mirrors(seen) ==
  LET current == multisig[seen.create_key]
  IN /\ current # Absent
     /\ current.members_root = seen.state.members_root
     /\ current.m = seen.state.m /\ current.n = seen.state.n
     /\ seen.state.proposal_count <= current.proposal_count

\* "approvals can only target proposals that exist at the time of this
\* session's creation": behind every prover and every submission there is a
\* proposal, and its instance still has the snapshot's root, threshold and
\* member count, however old the snapshot is.
ProversTargetProposals ==
  /\ \A c \in Client : prover[c] # None =>
       /\ Mirrors(prover[c].snapshot)
       /\ Pda(prover[c].snapshot.create_key, prover[c].index) \in Opened
  /\ \A ix \in mempool : Pda(ix.create_key, ix.index) \in Opened

\* The approval is for the terms the chain stores for its proposal.
ForStoredTerms(ix) ==
  /\ Pda(ix.create_key, ix.index) \in Opened
  /\ ix.public_inputs.proposal_id
       = RecomputedProposalId(ix.create_key, ix.index)

VotedBy(ix) == ix.nullifier.sk \in Voters(Pda(ix.create_key, ix.index))

\* An approval proved from a snapshot, for the terms the chain stores, is
\* skipped only when that member's vote is already counted: no race with
\* proposals, executions or other votes wastes a proof.
SkippedOnlyIfVoted ==
  [][\A ix \in mempool :
       ForStoredTerms(ix) /\ Skip(ix) => VotedBy(ix)]_allVars

\* Clients whose prover is for the stored terms and whose vote is not in yet.
AwaitingVote ==
  {c \in Client : /\ prover[c] # None
                  /\ ForStoredTerms(InstructionOf(prover[c]))
                  /\ ~ VotedBy(InstructionOf(prover[c]))}

\* A client that asks for an approval of the stored terms and keeps its
\* prover gets its vote counted, whoever else acts in between.
VotesLand == \A c \in Client : c \in AwaitingVote ~> c \notin AwaitingVote

\* Clients, mempool and block production do nothing to the chain but what
\* its own transactions and runs of the circuit do: what is shown of the
\* verifier holds of approvals made through the SDK.
FollowsVerifier == Spec

\* What a prover holds is still so on the chain, and its receipt is for the
\* public inputs it computes.
ProverSound(p) ==
  /\ Mirrors(p.snapshot)
  /\ FreshIndex(p.index, p.snapshot)
  /\ p.receipt # None => p.receipt = PublicInputs(p) /\ p.receipt \in receipts

\* A submission carries a receipt under the root of its instance, for an
\* index that exists.
InstructionSound(ix) ==
  /\ multisig[ix.create_key] # Absent
  /\ ix.index < multisig[ix.create_key].proposal_count
  /\ ix.public_inputs \in receipts
  /\ ix.public_inputs.members_root = multisig[ix.create_key].members_root
  /\ ix.public_inputs.nullifier = ix.nullifier

\* The inductive invariant of the clients.
ClientIInv ==
  /\ ClientTypeOK
  /\ \A c \in Client :
       /\ snapshot[c] # None => Mirrors(snapshot[c])
       /\ prover[c] # None => ProverSound(prover[c])
  /\ \A ix \in mempool : InstructionSound(ix)
=============================================================================
