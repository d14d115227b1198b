-------------------------- MODULE PrivateMultisig --------------------------
(***************************************************************************)
(* The on-chain verifier program (methods/guest/src/bin/private_multisig)  *)
(* together with the approve circuit whose receipts it consumes.           *)
(*                                                                         *)
(* A transaction either passes every account constraint and every check    *)
(* of its handler, and then all of its writes take effect, or it is left   *)
(* out of the block and changes nothing.  An action is therefore one       *)
(* accepted transaction: its guard is the conjunction of the account       *)
(* constraints of the handler's signature and of the early returns of its  *)
(* body.                                                                   *)
(*                                                                         *)
(* SHA-256 is idealised: a hash is the record of what was hashed, so two   *)
(* hashes are equal exactly when their preimages are.  A Merkle root is    *)
(* the set of identities enrolled under it.                                *)
(***************************************************************************)
EXTENDS Naturals, FiniteSets, Sequences

CONSTANTS
  CreateKey,     \* keys an instance can be created under
  Secret,        \* member secrets (sk)
  Salt,          \* commitment salts
  MembersRoot,   \* roots that can be published, each a set of identities
  Action,        \* action payloads
  ActionLen,     \* their lengths in bytes
  Target,        \* target programs of chained calls
  ChainIds,      \* chains a proposal id can name
  DeploymentChain, \* DEPLOYMENT_CHAIN_ID_U64
  MaxU8, MaxU32, MaxU64, \* largest value of each integer width (scaled down)
  ProverInput,   \* inputs the approve circuit is run on
  Absent         \* content of an account that was never initialised

MAX_ACTION_BYTES_LEN == 4096

Identity == [sk : Secret, salt : Salt]
Index    == 0..MaxU64

MultisigState == [members_root : MembersRoot, m : 0..MaxU8, n : 0..MaxU32,
                  proposal_count : 0..MaxU64]

Proposal == [action_bytes : Action, target_program : Target,
             approvals_count : 0..MaxU32, executed : BOOLEAN]

\* The preimage of derive_proposal_id, which hashes exactly these fields.
ProposalId == [chain_id : ChainIds, state_pda : CreateKey, index : Index,
               action_bytes : Action, target_program : Target]

\* H(sk || proposal_id): the salt does not take part.
Nullifier == [sk : Secret, proposal_id : ProposalId]

\* ApprovePublicInputs, the 96-byte journal of the approve circuit.
Journal == [members_root : MembersRoot, proposal_id : ProposalId,
            nullifier : Nullifier]

\* Addresses of proposal accounts: their PDA seeds are create_key and index.
ProposalPda == [create_key : CreateKey, index : Index]

\* Addresses of nullifier entries: the seeds are the proposal's address and
\* the nullifier.
NullifierPda == [proposal : ProposalPda, nullifier : Nullifier]

ChainedCall == [program_id : Target, instruction_data : Action,
                pda_seeds : CreateKey]

ASSUME WidthsAssumption ==
  /\ MaxU8 \in Nat /\ MaxU32 \in Nat /\ MaxU64 \in Nat
  /\ MaxU8 <= MaxU32

ASSUME SecretsAssumption == IsFiniteSet(Secret)

ASSUME RootsAssumption ==
  \A root \in MembersRoot : root \subseteq Identity

ASSUME ChainAssumption == DeploymentChain \in ChainIds

ASSUME ActionsAssumption == ActionLen \in [Action -> Nat]

ASSUME ProverAssumption ==
  ProverInput \subseteq [members_root : MembersRoot, proposal_id : ProposalId,
                         identity : Identity]

ASSUME AbsentAssumption ==
  /\ Absent \notin MultisigState
  /\ Absent \notin Proposal

VARIABLES
  multisig,       \* body of the state account of each create key
  proposal,       \* body of each proposal account
  nullifierEntry, \* the nullifier entries that exist
  vault,          \* create keys whose vault account exists
  receipts,       \* journals the approve circuit has produced a receipt for
  calls           \* chained calls each proposal has emitted, in order

vars == <<multisig, proposal, nullifierEntry, vault, receipts, calls>>

Pda(key, index) == [create_key |-> key, index |-> index]

\* derive_proposal_id, as the verifier recomputes it for a stored proposal.
RecomputedProposalId(key, index) ==
  [chain_id       |-> DeploymentChain,
   state_pda      |-> key,
   index          |-> index,
   action_bytes   |-> proposal[Pda(key, index)].action_bytes,
   target_program |-> proposal[Pda(key, index)].target_program]

\* The call a proposal stands for: its target and action, with the instance's
\* vault authorised.
TermsOf(pda) ==
  [program_id       |-> proposal[pda].target_program,
   instruction_data |-> proposal[pda].action_bytes,
   pda_seeds        |-> pda.create_key]

-----------------------------------------------------------------------------

Init ==
  /\ multisig = [key \in CreateKey |-> Absent]
  /\ proposal = [pda \in ProposalPda |-> Absent]
  /\ nullifierEntry = {}
  /\ vault = {}
  /\ receipts = {}
  /\ calls = [pda \in ProposalPda |-> <<>>]

ValidateThreshold(m, n) == m > 0 /\ n > 0 /\ m <= n

\* Faulty: the state account is taken without init.
OpenToReinitialisation(key) == TRUE

\* #[account(init)] on the state account.
StateUninitialised(key) == multisig[key] = Absent

CreateMultisig(key, root, m, n) ==
  /\ StateUninitialised(key)
  /\ ValidateThreshold(m, n)
  /\ multisig' = [multisig EXCEPT ![key] =
                    [members_root |-> root, m |-> m, n |-> n,
                     proposal_count |-> 0]]
  /\ UNCHANGED <<proposal, nullifierEntry, vault, receipts, calls>>

CreateVault(key) ==
  /\ multisig[key] # Absent
  /\ key \notin vault
  /\ vault' = vault \cup {key}
  /\ UNCHANGED <<multisig, proposal, nullifierEntry, receipts, calls>>

ValidateActionBytes(action) == ActionLen[action] <= MAX_ACTION_BYTES_LEN

\* Faulty: the index is not compared with the count.
AnyUnusedIndex(key, index) == TRUE

NextIndex(key, index) == index = multisig[key].proposal_count

Propose(key, index, action, target) ==
  /\ multisig[key] # Absent
  /\ proposal[Pda(key, index)] = Absent
  /\ ValidateActionBytes(action)
  /\ NextIndex(key, index)
  /\ multisig[key].proposal_count < MaxU64      \* checked_add(1)
  /\ multisig' = [multisig EXCEPT ![key].proposal_count = @ + 1]
  /\ proposal' = [proposal EXCEPT ![Pda(key, index)] =
                    [action_bytes |-> action, target_program |-> target,
                     approvals_count |-> 0, executed |-> FALSE]]
  /\ UNCHANGED <<nullifierEntry, vault, receipts, calls>>

\* The approve circuit.  It panics, and leaves no receipt, unless the
\* identity's commitment is a leaf under members_root.
ApproveCircuit(input) ==
  /\ input.identity \in input.members_root
  /\ receipts' = receipts \cup
       {[members_root |-> input.members_root,
         proposal_id  |-> input.proposal_id,
         nullifier    |-> [sk |-> input.identity.sk,
                           proposal_id |-> input.proposal_id]]}
  /\ UNCHANGED <<multisig, proposal, nullifierEntry, vault, calls>>

\* Faulty: the nullifier entry is taken without init.
NullifierNotChecked(pda, nullifier) == TRUE

\* #[account(init)] on the nullifier entry.
NullifierUnspent(pda, nullifier) ==
  [proposal |-> pda, nullifier |-> nullifier] \notin nullifierEntry

\* Faulty: the journal may be for another member set.
MatchesButForRoot(key, index, nullifier, public_inputs) ==
  /\ public_inputs.proposal_id = RecomputedProposalId(key, index)
  /\ public_inputs.nullifier = nullifier

\* Faulty: the journal may be for another proposal.
MatchesButForProposal(key, index, nullifier, public_inputs) ==
  /\ public_inputs.members_root = multisig[key].members_root
  /\ public_inputs.nullifier = nullifier

\* The journal against the accounts and the nullifier of the instruction.
ReceiptMatches(key, index, nullifier, public_inputs) ==
  /\ public_inputs.members_root = multisig[key].members_root
  /\ public_inputs.proposal_id = RecomputedProposalId(key, index)
  /\ public_inputs.nullifier = nullifier

\* Faulty: approvals_count wraps or grows past its width.
ApprovalsUnbounded(pda) == TRUE

\* Faulty: approvals are refused once the threshold is met.
OnlyUntilThreshold(pda) ==
  proposal[pda].approvals_count < multisig[pda.create_key].m

\* checked_add(1) on the u32 counter.
ApprovalsFit(pda) == proposal[pda].approvals_count < MaxU32

\* env::verify: the outer receipt exists only if one of the approve circuit
\* with this journal does.
Approvable(key, index, nullifier, public_inputs) ==
  /\ multisig[key] # Absent
  /\ proposal[Pda(key, index)] # Absent
  /\ NullifierUnspent(Pda(key, index), nullifier)
  /\ ReceiptMatches(key, index, nullifier, public_inputs)
  /\ public_inputs \in receipts
  /\ ApprovalsFit(Pda(key, index))

Approve(key, index, nullifier, public_inputs) ==
  LET pda == Pda(key, index)
  IN /\ Approvable(key, index, nullifier, public_inputs)
     /\ proposal' = [proposal EXCEPT ![pda].approvals_count = @ + 1]
     /\ nullifierEntry' = nullifierEntry \cup
                            {[proposal |-> pda, nullifier |-> nullifier]}
     /\ UNCHANGED <<multisig, vault, receipts, calls>>

\* Faulty: a proposal may fire again.
ThresholdOnly(key, pda) ==
  proposal[pda].approvals_count >= multisig[key].m

\* Faulty: one approval too few.
OneApprovalShort(key, pda) ==
  /\ ~ proposal[pda].executed
  /\ proposal[pda].approvals_count + 1 >= multisig[key].m

\* Faulty: one approval too many.
OneApprovalMore(key, pda) ==
  /\ ~ proposal[pda].executed
  /\ proposal[pda].approvals_count > multisig[key].m

ReadyToFire(key, pda) ==
  /\ ~ proposal[pda].executed
  /\ proposal[pda].approvals_count >= multisig[key].m

Execute(key, index) ==
  LET pda == Pda(key, index)
  IN /\ multisig[key] # Absent
     /\ proposal[pda] # Absent
     /\ key \in vault
     /\ ReadyToFire(key, pda)
     /\ proposal' = [proposal EXCEPT ![pda].executed = TRUE]
     /\ calls' = [calls EXCEPT ![pda] = Append(@, TermsOf(pda))]
     /\ UNCHANGED <<multisig, nullifierEntry, vault, receipts>>

\* The placeholder handler: it needs the state account and writes nothing.
Reject(key) ==
  /\ multisig[key] # Absent
  /\ UNCHANGED vars

Next ==
  \/ \E key \in CreateKey, root \in MembersRoot :
       \E m \in 0..MaxU8, n \in 0..MaxU32 : CreateMultisig(key, root, m, n)
  \/ \E key \in CreateKey : CreateVault(key)
  \/ \E key \in CreateKey, index \in Index :
       \E action \in Action, target \in Target :
         Propose(key, index, action, target)
  \/ \E input \in ProverInput : ApproveCircuit(input)
  \/ \E key \in CreateKey, index \in Index, public_inputs \in receipts :
       \E nullifier \in {journal.nullifier : journal \in receipts} :
         Approve(key, index, nullifier, public_inputs)
  \/ \E key \in CreateKey, index \in Index : Execute(key, index)
  \/ \E key \in CreateKey : Reject(key)

Spec == Init /\ [][Next]_vars

\* Any account may sign approve and execute, so a submission one relayer
\* drops can always be made by another: a transaction that stays acceptable
\* is eventually submitted.
Fairness ==
  /\ \A key \in CreateKey, index \in Index : WF_vars(Execute(key, index))
  /\ \A key \in CreateKey, index \in Index, sk \in Secret :
       WF_vars(\E public_inputs \in receipts :
                 /\ public_inputs.nullifier.sk = sk
                 /\ Approve(key, index, public_inputs.nullifier, public_inputs))

FairSpec == Spec /\ Fairness
-----------------------------------------------------------------------------

\* Type invariant: every account holds a body of its own kind or nothing.
TypeOK ==
  /\ multisig \in [CreateKey -> MultisigState \cup {Absent}]
  /\ proposal \in [ProposalPda -> Proposal \cup {Absent}]
  /\ nullifierEntry \subseteq NullifierPda
  /\ vault \subseteq CreateKey
  /\ receipts \subseteq Journal
  /\ calls \in [ProposalPda -> Seq(ChainedCall)]

Opened == {pda \in ProposalPda : proposal[pda] # Absent}

\* The secrets whose nullifier for some proposal id was spent on a proposal.
Voters(pda) ==
  {entry.nullifier.sk : entry \in {e \in nullifierEntry : e.proposal = pda}}

\* The secrets enrolled under a root, each counted once whatever its salts.
Enrolled(root) == {identity.sk : identity \in root}

\* The proposal id of a call: the terms it was emitted with, at its address.
CallId(pda, call) ==
  [chain_id |-> DeploymentChain, state_pda |-> pda.create_key,
   index |-> pda.index, action_bytes |-> call.instruction_data,
   target_program |-> call.program_id]

\* The members of an instance who proved their consent to a proposal id.
Consenting(key, id) ==
  {sk \in Enrolled(multisig[key].members_root) :
     [members_root |-> multisig[key].members_root, proposal_id |-> id,
      nullifier |-> [sk |-> sk, proposal_id |-> id]] \in receipts}

\* A nullifier entry spends the nullifier, for the very proposal it is filed
\* under, of a member who consented to it.
VoteConsented(entry) ==
  LET key == entry.proposal.create_key
      id  == RecomputedProposalId(key, entry.proposal.index)
  IN /\ entry.proposal \in Opened
     /\ entry.nullifier.proposal_id = id
     /\ entry.nullifier.sk \in Consenting(key, id)

\* approvals_count is the number of distinct secrets that voted: no member,
\* even one enrolled under several salts, is counted twice, and no vote is
\* lost or left over (approve's counter against its nullifier accounts).
CountIsDistinctVoters ==
  \A pda \in Opened :
    proposal[pda].approvals_count = Cardinality(Voters(pda))

\* Whoever voted on a proposal is a member of its instance who ran the
\* approve circuit for this chain, instance, index, action and target: a
\* receipt made for anything else is never counted.
VotersConsented == \A entry \in nullifierEntry : VoteConsented(entry)

\* Every chained call carries the vault of its own instance, an action of a
\* length propose admits (execute does not look again), and the action and
\* target that at least m distinct enrolled members consented to.
CallsBackedByThreshold ==
  \A pda \in ProposalPda : \A i \in DOMAIN calls[pda] :
    LET call == calls[pda][i] IN
    /\ call.pda_seeds = pda.create_key
    /\ ValidateActionBytes(call.instruction_data)
    /\ Cardinality(Consenting(pda.create_key, CallId(pda, call)))
         >= multisig[pda.create_key].m

\* A proposal fires at most once, and its executed flag records whether it
\* did, whatever approvals arrive afterwards.
FiresAtMostOnce ==
  \A pda \in ProposalPda :
    Len(calls[pda]) =
      IF pda \in Opened /\ proposal[pda].executed THEN 1 ELSE 0

\* The proposals of an instance are exactly those below its proposal_count:
\* racing proposers neither overwrite an index nor leave a gap.  (The comment
\* on propose tells consumers to expect gaps; its code leaves none.)
IndicesDense ==
  \A pda \in ProposalPda :
    pda \in Opened <=> /\ multisig[pda.create_key] # Absent
                       /\ pda.index < multisig[pda.create_key].proposal_count

\* A nullifier is spent on one proposal only: no vote is carried over to
\* another index or to another instance with the same members.
VotesNotReused ==
  \A e, f \in nullifierEntry : e.nullifier = f.nullifier => e = f

\* Once written, the members root, m and n of an instance and the action and
\* target of a proposal never change; votes, spent nullifiers and executed
\* flags are never taken back.
TermsFrozen ==
  /\ \A key \in CreateKey : multisig[key] # Absent =>
       /\ multisig'[key].members_root = multisig[key].members_root
       /\ multisig'[key].m = multisig[key].m
       /\ multisig'[key].n = multisig[key].n
       /\ multisig'[key].proposal_count >= multisig[key].proposal_count
  /\ \A pda \in Opened :
       /\ proposal'[pda].action_bytes = proposal[pda].action_bytes
       /\ proposal'[pda].target_program = proposal[pda].target_program
       /\ proposal'[pda].approvals_count >= proposal[pda].approvals_count
       /\ proposal[pda].executed => proposal'[pda].executed
  /\ nullifierEntry \subseteq nullifierEntry'

NeverRewritten == [][TermsFrozen]_vars

\* A proposal that m members consented to is eventually executed once the
\* vault exists, whoever raced for its index, whichever receipts were made
\* for other proposals and however late the vault was created.
Backed(pda) ==
  /\ pda \in Opened
  /\ pda.create_key \in vault
  /\ Cardinality(Consenting(pda.create_key,
                            RecomputedProposalId(pda.create_key, pda.index)))
       >= multisig[pda.create_key].m

BackedProposalsFire ==
  \A pda \in ProposalPda : Backed(pda) ~> (calls[pda] # <<>>)

\* No backed proposal is ever stuck: until it fires, execute or the approval
\* of a member who has not voted yet would be accepted, whatever the
\* counters, nullifiers and receipts of this and other proposals are.
BackedNeverStuck ==
  \A pda \in ProposalPda : Backed(pda) /\ calls[pda] = <<>> =>
    \/ ReadyToFire(pda.create_key, pda)
    \/ \E journal \in receipts :
         /\ journal.nullifier.sk \notin Voters(pda)
         /\ Approvable(pda.create_key, pda.index, journal.nullifier, journal)
-----------------------------------------------------------------------------

\* The ballot a proposal account stands for.
BallotOf(pda) ==
  IF proposal[pda] = Absent THEN Absent
  ELSE [terms      |-> TermsOf(pda),
        electorate |-> Enrolled(multisig[pda.create_key].members_root),
        quorum     |-> multisig[pda.create_key].m,
        voters     |-> Voters(pda),
        outcome    |-> calls[pda]]

Ballots == [pda \in ProposalPda |-> BallotOf(pda)]

Vote == INSTANCE ThresholdVote
          WITH Ballot <- ProposalPda, Voter <- Secret, Terms <- ChainedCall,
               Quorum <- 1..MaxU8, Unopened <- Absent, ballot <- Ballots

ASSUME UnopenedAssumption == Absent \notin Vote!OpenBallot

\* The accounts, counters and receipts implement an open-once, vote-once,
\* carry-out-once ballot for every proposal.
ImplementsThresholdVote == Vote!Spec

\* Instances exist only with a threshold their member count can meet.
ThresholdsValid ==
  \A key \in CreateKey : multisig[key] # Absent =>
    ValidateThreshold(multisig[key].m, multisig[key].n)

\* A receipt vouches for an enrolled secret and the nullifier it has for the
\* proposal id in the same journal.
ReceiptsSound ==
  \A journal \in receipts :
    /\ journal.nullifier.proposal_id = journal.proposal_id
    /\ journal.nullifier.sk \in Enrolled(journal.members_root)

\* An executed proposal reached its threshold, and its call carries its terms.
ExecutedWithTerms ==
  \A pda \in Opened :
    /\ ValidateActionBytes(proposal[pda].action_bytes)
    /\ proposal[pda].executed =>
         /\ proposal[pda].approvals_count >= multisig[pda.create_key].m
         /\ calls[pda] = <<TermsOf(pda)>>

\* The inductive invariant: the parts above say of stored bodies what the
\* properties say of votes and calls.
IInv ==
  /\ TypeOK
  /\ IndicesDense
  /\ ThresholdsValid
  /\ ReceiptsSound
  /\ VotersConsented
  /\ CountIsDistinctVoters
  /\ FiresAtMostOnce
  /\ ExecutedWithTerms
=============================================================================
