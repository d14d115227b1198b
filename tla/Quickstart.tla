----------------------------- MODULE Quickstart -----------------------------
(***************************************************************************)
(* The quickstart binary (e2e_tests/src/bin/quickstart.rs): one process    *)
(* that parses its flags, draws members, enrolls them with the builder of  *)
(* MultisigBuilder, proves and records approvals up to the threshold and   *)
(* replays the first vote.  It runs the SDK without a chain and says what  *)
(* the verifier would do; here it is held against PrivateMultisig.         *)
(*                                                                         *)
(* An identity stands for its commitment.  What the system's random source *)
(* yields never repeats, and is otherwise only a name: it is a constant.   *)
(***************************************************************************)
EXTENDS Naturals, Sequences, FiniteSets, Functions

CONSTANTS
  Secret, Salt,
  Draw,            \* the identities Member::new draws, in order
  Action,          \* --action strings
  ActionLen,       \* their lengths in bytes
  DemoAction,      \* the default one
  DEMO_CREATE_KEY, NOOP_ID, Chain,
  MERKLE_DEPTH, Zero,
  MaxU8, MaxU32,   \* as in PrivateMultisig
  MaxMembers,      \* largest --members given
  MaxArgs,         \* most flags given
  None

ASSUME DefaultsAssumption ==
  /\ DemoAction \in Action
  /\ MaxU8 \in Nat /\ MaxU32 \in Nat /\ MaxMembers \in Nat
  /\ MaxArgs \in Nat
  /\ MaxU8 >= 2 /\ MaxMembers >= 3

MAX_ACTION_BYTES_LEN == 4096

Identity == [sk : Secret, salt : Salt]

ASSUME FreshDraws ==
  /\ Draw \in [1..MaxMembers -> Identity]
  /\ \A i, j \in 1..MaxMembers : Draw[i].sk = Draw[j].sk => i = j

VARIABLES
  argv,      \* flags not yet parsed
  settings,  \* mode, threshold, members and action
  dev_mode,  \* RISC0_DEV_MODE: "unset", "on" or "off"
  docker,    \* BUILD_USED_DOCKER
  pc,        \* where the program is
  exit,      \* its exit code, or None
  members,   \* the identities drawn, in order
  added, leaves, finalized, \* of the MultisigBuilder
  snapshot,  \* the MultisigStateSnapshot, or None
  prover,    \* the current ApprovalProver, or None
  proved,    \* journals the circuit has produced a receipt for
  nullifiers, approvals_recorded

process  == <<argv, settings, dev_mode, docker>>
built    == <<members, added, leaves, finalized>>
votes    == <<prover, proved, nullifiers, approvals_recorded>>
vars     == <<process, pc, exit, built, snapshot, votes>>

Builder == INSTANCE MultisigBuilder
             WITH Commitment <- Identity, m <- settings.threshold

\* A tree of 2^20 leaves can be counted in a u32, and no commitment is the
\* all-zero hash.
ASSUME TreeAssumption ==
  /\ MERKLE_DEPTH \in Nat \ {0}
  /\ Builder!MAX_LEAVES <= MaxU32
  /\ Zero \notin Identity

\* Trees of the members drawn, and what is finalized and proved over them.
Trees == {[i \in 1..n |-> Draw[i]] : n \in 1..MaxMembers}

Finalized ==
  {[members_root |-> Builder!Root(tree), m |-> threshold, n |-> Len(tree),
    commitments |-> tree, tree |-> tree] :
     tree \in Trees, threshold \in 1..MaxU8}

Snapshot ==
  {[members_root |-> f.members_root, m |-> f.m, n |-> f.n,
    proposal_count |-> 1] : f \in Finalized}

proposal_index == 0

ProposalIds ==
  [chain_id : {Chain}, state_pda : {DEMO_CREATE_KEY}, index : {proposal_index},
   action_bytes : Action, target_program : {NOOP_ID}]

Journals ==
  [members_root : {f.members_root : f \in Finalized},
   proposal_id  : ProposalIds,
   nullifier    : [sk : Secret, proposal_id : ProposalIds]]

Prover == [identity : Identity, receipt : Journals \cup {None}]

ASSUME NoneAssumption ==
  /\ None \notin Finalized /\ None \notin Snapshot /\ None \notin Prover
  /\ None \notin 0..2   \* the exit codes

Flag ==
  [name : {"mode"}, value : {"layer-a", "testnet", "other"}]
  \cup [name : {"threshold"}, value : 0..MaxU8]
  \cup [name : {"members"}, value : 0..MaxMembers]
  \cup [name : {"action"}, value : Action]
  \cup [name : {"help", "malformed"}, value : {None}]

Settings == [mode : {"layer-a", "testnet", "other"}, threshold : 0..MaxU8,
             members : 0..MaxMembers, action : Action]

Init ==
  /\ argv \in UNION {[1..n -> Flag] : n \in 0..MaxArgs}
  /\ settings = [mode |-> "layer-a", threshold |-> 2, members |-> 3,
                 action |-> DemoAction]
  /\ dev_mode \in {"unset", "on", "off"}
  /\ docker \in BOOLEAN
  /\ pc = "args" /\ exit = None
  /\ members = <<>>
  /\ added = <<>> /\ leaves = <<>> /\ finalized = None
  /\ snapshot = None /\ prover = None
  /\ proved = {} /\ nullifiers = {} /\ approvals_recorded = 0

Exit(code) == pc' = "exit" /\ exit' = code

Goto(label) == pc' = label /\ exit' = exit
-----------------------------------------------------------------------------
(* main and parse_args. *)

\* The last value of a flag counts.
ParseFlag ==
  /\ pc = "args" /\ argv # <<>>
  /\ Head(argv).name \in DOMAIN settings
  /\ settings' = [settings EXCEPT ![Head(argv).name] = Head(argv).value]
  /\ argv' = Tail(argv)
  /\ UNCHANGED <<dev_mode, docker, pc, exit, built, snapshot, votes>>

\* --help ends the program at once; an unknown flag, or one whose value is
\* missing or does not parse, is an error.
ParseEnds ==
  /\ pc = "args" /\ argv # <<>>
  /\ Head(argv).name \in {"help", "malformed"}
  /\ Exit(IF Head(argv).name = "help" THEN 0 ELSE 2)
  /\ UNCHANGED <<process, built, snapshot, votes>>

Dispatch ==
  /\ pc = "args" /\ argv = <<>>
  /\ CASE settings.mode = "layer-a" -> Goto("layer-a")
       [] settings.mode = "testnet" -> Exit(1)   \* run_testnet_stub
       [] OTHER -> Exit(2)
  /\ UNCHANGED <<process, built, snapshot, votes>>

-----------------------------------------------------------------------------
(* run_layer_a. *)

ReachableQuorum ==
  /\ settings.threshold > 0
  /\ settings.members > 0
  /\ settings.members >= settings.threshold

\* Proofs are dev proofs unless RISC0_DEV_MODE says otherwise.
CheckArguments ==
  /\ pc = "layer-a"
  /\ IF ReachableQuorum
     THEN /\ Goto("setup")
          /\ dev_mode' = IF dev_mode = "unset" THEN "on" ELSE dev_mode
     ELSE /\ Exit(1)
          /\ UNCHANGED dev_mode
  /\ UNCHANGED <<argv, settings, docker, built, snapshot, votes>>

\* Faulty: every member is drawn from the same seed.
SameDraw == Draw[1]

\* Member::new
NextDraw == Draw[Len(members) + 1]

Keygen ==
  /\ pc = "setup" /\ Len(members) < settings.members
  /\ members' = Append(members, NextDraw)
  /\ UNCHANGED <<process, pc, exit, added, leaves, finalized, snapshot, votes>>

\* All are drawn before the first is added.  What the builder keeps of a
\* member it refuses dies with the process.
Enroll ==
  /\ pc = "setup"
  /\ Len(members) = settings.members /\ Len(added) < settings.members
  /\ UNCHANGED <<process, members, snapshot, votes>>
  /\ LET commitment == members[Len(added) + 1]
     IN IF Builder!NotYetAdded(commitment) /\ Builder!HasRoom
        THEN Builder!AddMember(commitment) /\ Goto("setup")
        ELSE UNCHANGED <<added, leaves, finalized>> /\ Exit(1)

FinalizeMultisig ==
  /\ pc = "setup"
  /\ Len(added) = settings.members
  /\ UNCHANGED <<process, members, snapshot, votes>>
  /\ IF Builder!Finalizable
     THEN Builder!Finalize /\ Goto("snapshot")
     ELSE UNCHANGED <<added, leaves, finalized>> /\ Exit(1)

\* It says that one proposal was made.
TakeSnapshot ==
  /\ pc = "snapshot"
  /\ snapshot' = [members_root |-> finalized.members_root,
                  m |-> finalized.m, n |-> finalized.n, proposal_count |-> 1]
  /\ Goto("voting")
  /\ UNCHANGED <<process, built, votes>>

ProposalIdOf ==
  [chain_id |-> Chain, state_pda |-> DEMO_CREATE_KEY, index |-> proposal_index,
   action_bytes |-> settings.action, target_program |-> NOOP_ID]

NullifierOf(identity) == [sk |-> identity.sk, proposal_id |-> ProposalIdOf]

\* ApprovalProver::public_inputs, and the journal of the circuit.
PublicInputs(identity) ==
  [members_root |-> snapshot.members_root, proposal_id |-> ProposalIdOf,
   nullifier |-> NullifierOf(identity)]

\* Faulty: the length of the action is not looked at.
AnyAction(identity) == proposal_index < snapshot.proposal_count

\* What merkle_proof and ApprovalProver::new ask for.
ProverAccepts(identity) ==
  /\ ActionLen[settings.action] <= MAX_ACTION_BYTES_LEN
  /\ proposal_index < snapshot.proposal_count
  /\ Builder!HasMerkleProof(identity)
  /\ Builder!VerifyProof(snapshot.members_root, identity,
                         Builder!MerkleProof(identity))

\* The SDK verifies a real proof against the image id pinned in it, which the
\* circuit has only when it was built in docker.
ImageMatches == dev_mode = "on" \/ docker

\* The next member in the loop over members.
Current == members[approvals_recorded + 1]

NewProver ==
  /\ pc = "voting" /\ prover = None
  /\ IF ProverAccepts(Current)
     THEN /\ prover' = [identity |-> Current, receipt |-> None]
          /\ Goto("voting")
     ELSE /\ UNCHANGED prover
          /\ Exit(1)
  /\ UNCHANGED <<process, built, snapshot, proved, nullifiers,
                 approvals_recorded>>

Prove ==
  /\ pc = "voting" /\ prover # None
  /\ prover.receipt = None
  /\ IF ImageMatches
     THEN /\ prover' =
               [prover EXCEPT !.receipt = PublicInputs(prover.identity)]
          /\ proved' = proved \cup {PublicInputs(prover.identity)}
          /\ Goto("voting")
     ELSE /\ UNCHANGED <<prover, proved>>
          /\ Exit(1)
  /\ UNCHANGED <<process, built, snapshot, nullifiers, approvals_recorded>>

\* Faulty: the approval at hand is counted twice.
OneShort == approvals_recorded + 2 >= settings.threshold

\* Until then there is a next member (ReachableQuorum), so that the loop never
\* runs out of them.
LastApproval == approvals_recorded + 1 >= settings.threshold

\* The journal is compared and the nullifier filed before the approval counts.
Record ==
  /\ pc = "voting" /\ prover # None
  /\ prover.receipt # None
  /\ IF /\ prover.receipt = PublicInputs(prover.identity)
        /\ NullifierOf(prover.identity) \notin nullifiers
     THEN /\ nullifiers' = nullifiers \cup {NullifierOf(prover.identity)}
          /\ approvals_recorded' = approvals_recorded + 1
          /\ prover' = None
          /\ Goto(IF LastApproval THEN "replay" ELSE "voting")
     ELSE /\ UNCHANGED <<nullifiers, approvals_recorded, prover>>
          /\ Exit(1)
  /\ UNCHANGED <<process, built, snapshot, proved>>

\* A prover for the first member, and its nullifier once more.
Replay ==
  /\ pc = "replay"
  /\ Exit(IF ProverAccepts(members[1]) /\ NullifierOf(members[1]) \in nullifiers
          THEN 0 ELSE 1)
  /\ UNCHANGED <<process, built, snapshot, votes>>

Next ==
  \/ ParseFlag \/ ParseEnds \/ Dispatch
  \/ CheckArguments \/ Keygen \/ Enroll \/ FinalizeMultisig \/ TakeSnapshot
  \/ NewProver \/ Prove \/ Record \/ Replay

Spec == Init /\ [][Next]_vars /\ WF_vars(Next)
-----------------------------------------------------------------------------
(* The accounts the demo stands for.  Its proposal is made by the first    *)
(* prover that accepts it.                                                 *)

Proposed == prover # None \/ approvals_recorded > 0

Pdas == [create_key : {DEMO_CREATE_KEY}, index : 0..1]

DemoPda == [create_key |-> DEMO_CREATE_KEY, index |-> proposal_index]

Instance ==
  IF finalized = None THEN None
  ELSE [members_root |-> Range(finalized.tree), m |-> finalized.m,
        n |-> finalized.n, proposal_count |-> IF Proposed THEN 1 ELSE 0]

DemoProposal ==
  [action_bytes |-> settings.action, target_program |-> NOOP_ID,
   approvals_count |-> approvals_recorded, executed |-> FALSE]

\* A root names the identities of its leaves (RootCommitsToMembers).
OnChain(journal) ==
  [journal EXCEPT !.members_root = Range(finalized.tree)]

\* The roots of what can be drawn and enrolled.
DemoRoots == {{Draw[i] : i \in 1..n} : n \in 1..MaxMembers}

Verifier == INSTANCE PrivateMultisig
  WITH CreateKey <- {DEMO_CREATE_KEY}, MembersRoot <- DemoRoots,
       Target <- {NOOP_ID}, ChainIds <- {Chain}, DeploymentChain <- Chain,
       MaxU64 <- 1, Absent <- None,
       ProverInput <- [members_root : DemoRoots, proposal_id : ProposalIds,
                       identity : Range(Draw)],
       multisig <- [key \in {DEMO_CREATE_KEY} |-> Instance],
       proposal <- [pda \in Pdas |-> IF pda = DemoPda /\ Proposed
                                     THEN DemoProposal ELSE None],
       nullifierEntry <- {[proposal |-> DemoPda, nullifier |-> n] :
                            n \in nullifiers},
       receipts <- {OnChain(journal) : journal \in proved},
       vault <- {}, calls <- [pda \in Pdas |-> <<>>]

ASSUME AccountsAssumption ==
  None \notin Verifier!MultisigState /\ None \notin Verifier!Proposal

\* What the demo shows is what the verifier would have done: every proposal,
\* proof and recorded approval is a transaction it accepts.
DemoFollowsVerifier == Verifier!Spec

\* "execute() would gate true", "distinct nullifiers across approving
\* members": when the demo announces a quorum or ends well, at least m of
\* the members it enrolled proved their consent, and the verifier would fire.
QuorumIsReal ==
  pc = "replay" \/ (exit = 0 /\ snapshot # None) =>
    /\ Verifier!ReadyToFire(DEMO_CREATE_KEY, DemoPda)
    /\ Cardinality(Verifier!Consenting(DEMO_CREATE_KEY, ProposalIdOf))
         >= settings.threshold

\* What can be shown with these flags on this build.
Presentable ==
  /\ ReachableQuorum
  /\ settings.members <= Builder!MAX_LEAVES
  /\ ActionLen[settings.action] <= MAX_ACTION_BYTES_LEN
  /\ dev_mode # "off" \/ docker

Showable == pc = "layer-a" /\ Presentable

\* "a green quickstart": every run that can be shown ends with exit code 0,
\* past every check on the way; drawn members never collide, each one's path
\* leads to the published root, and the replay is refused.
ShowableRunsSucceed == Showable ~> exit = 0

\* Exit code 1 is always for a reason the flags or the build give: among the
\* checks of setup, proving, recording and replay none fails by itself.
FailuresExplained ==
  exit = 1 => settings.mode = "testnet" \/ ~ Presentable

\* The inductive invariant, by the part of the program that is over:
\* flags are of their types,
ArgumentsTyped ==
  /\ argv \in Seq(Flag)
  /\ settings \in Settings
  /\ exit # None => pc = "exit"
  /\ pc \in {"args", "layer-a", "setup", "snapshot", "voting", "replay", "exit"}

\* members are drawn and enrolled in order, and all of them before the next
\* part,
EnrolledInOrder ==
  /\ members \in Seq(Identity) /\ added \in Seq(Identity)
  /\ Len(added) <= Len(members) /\ Len(members) <= settings.members
  /\ \A i \in 1..Len(members) : members[i] = Draw[i]
  /\ \A i \in 1..Len(added) : added[i] = members[i]
  /\ leaves = added
  /\ pc \in {"args", "layer-a"} => members = <<>>
  /\ pc \in {"args", "layer-a", "setup"} => finalized = None
  /\ pc \in {"snapshot", "voting", "replay"} => finalized # None
  /\ finalized # None =>
       /\ finalized \in Finalized
       /\ finalized.tree = members
       /\ finalized.m = settings.threshold /\ finalized.n = Len(members)
       /\ settings.threshold \in 1..Len(members)
       /\ Len(members) <= MaxU32

\* the snapshot is of what was finalized,
SnapshotTrue ==
  /\ pc \in {"args", "layer-a", "setup", "snapshot"} => snapshot = None
  /\ pc \in {"voting", "replay"} => snapshot # None
  /\ snapshot = None =>
       /\ prover = None
       /\ proved = {} /\ nullifiers = {} /\ approvals_recorded = 0
  /\ snapshot # None =>
       /\ finalized # None
       /\ snapshot \in Snapshot
       /\ snapshot.members_root = finalized.members_root
       /\ snapshot.proposal_count = 1

\* and the first members, one by one, have proved and cast their votes.
VotedInOrder ==
  /\ approvals_recorded \in 0..settings.threshold
  /\ nullifiers = {NullifierOf(members[i]) : i \in 1..approvals_recorded}
  /\ \A i \in 1..approvals_recorded : PublicInputs(members[i]) \in proved
  /\ Proposed => ActionLen[settings.action] <= MAX_ACTION_BYTES_LEN
  /\ pc = "voting" => approvals_recorded < settings.threshold
  /\ prover # None =>
       /\ prover \in Prover
       /\ pc = "voting" => prover.identity = Current
       /\ prover.receipt # None =>
            /\ prover.receipt = PublicInputs(prover.identity)
            /\ prover.receipt \in proved
  /\ pc = "replay" \/ (exit = 0 /\ snapshot # None) =>
       approvals_recorded = settings.threshold

DemoIInv ==
  ArgumentsTyped /\ EnrolledInOrder /\ SnapshotTrue /\ VotedInOrder
=============================================================================
