-------------------------- MODULE QuickstartProofs --------------------------
(***************************************************************************)
(* Proofs about Quickstart for any command line, members, widths and depth *)
(* of the tree: the demo is a behaviour of the verifier, and the quorum it *)
(* announces is one of the verifier's.                                     *)
(***************************************************************************)
EXTENDS Quickstart, FiniteSetTheorems, SequenceTheorems, TLAPS

-----------------------------------------------------------------------------
(* The inductive invariant, part by part.                                  *)

\* The invariant holds when the program starts.
LEMMA InitHolds == Init => DemoIInv
<1>. SUFFICES ASSUME Init PROVE DemoIInv
  OBVIOUS
<1>. USE DefaultsAssumption, NoneAssumption
<1>1. ArgumentsTyped
  <2>1. argv \in Seq(Flag)
    BY DEF Init
  <2>. QED
    BY <2>1 DEF Init, ArgumentsTyped, Settings
<1>2. EnrolledInOrder
  BY DEF Init, EnrolledInOrder
<1>3. SnapshotTrue
  BY DEF Init, SnapshotTrue
<1>4. VotedInOrder
  BY DEF Init, VotedInOrder, Proposed
<1>. QED
  BY <1>1, <1>2, <1>3, <1>4 DEF DemoIInv

\* A flag sets what it names to a value of its type.
LEMMA FlagsSet ==
  ASSUME NEW s \in Settings, NEW f \in Flag, f.name \in DOMAIN s
  PROVE  [s EXCEPT ![f.name] = f.value] \in Settings
<1>1. f.name \in {"mode", "threshold", "members", "action"}
  BY DEF Settings
<1>2. CASE f.name = "mode"
  <2>1. f.value \in {"layer-a", "testnet", "other"}
    BY <1>2 DEF Flag
  <2>. QED
    BY <1>2, <2>1 DEF Settings
<1>3. CASE f.name = "threshold"
  <2>1. f.value \in 0..MaxU8
    BY <1>3 DEF Flag
  <2>. QED
    BY <1>3, <2>1 DEF Settings
<1>4. CASE f.name = "members"
  <2>1. f.value \in 0..MaxMembers
    BY <1>4 DEF Flag
  <2>. QED
    BY <1>4, <2>1 DEF Settings
<1>5. CASE f.name = "action"
  <2>1. f.value \in Action
    BY <1>5 DEF Flag
  <2>. QED
    BY <1>5, <2>1 DEF Settings
<1>. QED
  BY <1>1, <1>2, <1>3, <1>4, <1>5

\* Reading one flag keeps it,
LEMMA ParseFlagKeeps == DemoIInv /\ ParseFlag => DemoIInv'
<1>. SUFFICES ASSUME DemoIInv, ParseFlag PROVE DemoIInv'
  OBVIOUS
<1>. USE NoneAssumption DEF DemoIInv, ParseFlag, built, votes
<1>1. settings' \in Settings
  <2>1. Head(argv) \in Flag
    BY DEF ArgumentsTyped
  <2>2. settings \in Settings
    BY DEF ArgumentsTyped
  <2>. QED
    BY <2>1, <2>2, FlagsSet
<1>2. ArgumentsTyped'
  BY <1>1 DEF ArgumentsTyped
<1>3. settings'.members \in Nat /\ settings'.threshold \in Nat
  BY <1>1, DefaultsAssumption DEF Settings
<1>4. EnrolledInOrder'
  BY <1>3 DEF EnrolledInOrder
<1>5. SnapshotTrue'
  BY DEF SnapshotTrue
<1>6. VotedInOrder'
  BY <1>3 DEF VotedInOrder, SnapshotTrue, Proposed
<1>. QED
  BY <1>2, <1>4, <1>5, <1>6

\* What ends the program, or goes on without touching what was built.
LEMMA ControlKeeps ==
  ASSUME DemoIInv, UNCHANGED <<argv, settings, built, snapshot, votes>>,
         exit' = None \/ pc' = "exit",
         exit' \in {0} => exit = 0 \/ snapshot = None,
         pc' \in {pc, "exit"} \/ (pc = "args" /\ pc' = "layer-a")
                              \/ (pc = "layer-a" /\ pc' = "setup")
  PROVE  DemoIInv'
<1>. USE DEF DemoIInv, built, votes
<1>1. ArgumentsTyped'
  BY DEF ArgumentsTyped
<1>2. EnrolledInOrder'
  BY DEF EnrolledInOrder
<1>3. SnapshotTrue'
  BY DEF SnapshotTrue
<1>4. VotedInOrder'
  BY DEF VotedInOrder, SnapshotTrue, Proposed, NullifierOf, ProposalIdOf,
         PublicInputs, Current
<1>. QED
  BY <1>1, <1>2, <1>3, <1>4

\* and so do the checks of the arguments,
LEMMA ArgumentsKeep ==
  DemoIInv /\ (ParseEnds \/ Dispatch \/ CheckArguments) => DemoIInv'
<1>. SUFFICES ASSUME DemoIInv, ParseEnds \/ Dispatch \/ CheckArguments
              PROVE  DemoIInv'
  OBVIOUS
<1>. USE DEF Exit, Goto, process, DemoIInv
<1>1. pc \in {"args", "layer-a"} /\ exit = None /\ snapshot = None
  BY DEF ParseEnds, Dispatch, CheckArguments, ArgumentsTyped, SnapshotTrue
<1>2. CASE ParseEnds
  BY <1>1, <1>2, ControlKeeps DEF ParseEnds
<1>3. CASE Dispatch
  BY <1>1, <1>3, ControlKeeps DEF Dispatch
<1>4. CASE CheckArguments
  BY <1>1, <1>4, ControlKeeps DEF CheckArguments
<1>. QED
  BY <1>2, <1>3, <1>4

\* drawing a member,
LEMMA KeygenKeeps == DemoIInv /\ Keygen => DemoIInv'
<1>. SUFFICES ASSUME DemoIInv, Keygen PROVE DemoIInv'
  OBVIOUS
<1>. USE DEF DemoIInv, Keygen, process, votes
<1>1. Len(members) + 1 \in 1..MaxMembers
  BY DefaultsAssumption DEF ArgumentsTyped, Settings, EnrolledInOrder
<1>2. NextDraw \in Identity
  BY <1>1, FreshDraws DEF NextDraw
<1>3. ArgumentsTyped'
  BY DEF ArgumentsTyped
<1>4. EnrolledInOrder'
  BY <1>2, DefaultsAssumption
     DEF EnrolledInOrder, NextDraw, ArgumentsTyped, Settings
<1>5. SnapshotTrue'
  BY DEF SnapshotTrue
<1>6. VotedInOrder'
  BY DefaultsAssumption
     DEF VotedInOrder, SnapshotTrue, Proposed, ArgumentsTyped, Settings
<1>. QED
  BY <1>3, <1>4, <1>5, <1>6

\* adding one to the builder,
LEMMA EnrollKeeps == DemoIInv /\ Enroll => DemoIInv'
<1>. SUFFICES ASSUME DemoIInv, Enroll PROVE DemoIInv'
  OBVIOUS
<1>. USE DEF DemoIInv, Enroll, process, votes, Exit, Goto
<1>. DEFINE commitment == members[Len(added) + 1]
<1>1. CASE Builder!NotYetAdded(commitment) /\ Builder!HasRoom
  <2>1. /\ added' = Append(added, commitment)
        /\ leaves' = Append(leaves, commitment)
        /\ UNCHANGED finalized
        /\ pc' = "setup" /\ exit' = exit
    BY <1>1 DEF Builder!AddMember
  <2>2. commitment \in Identity /\ Len(added) + 1 \in 1..Len(members)
    BY DefaultsAssumption DEF EnrolledInOrder, ArgumentsTyped, Settings
  <2>3. ArgumentsTyped'
    BY <2>1 DEF ArgumentsTyped
  <2>4. EnrolledInOrder'
    <3>1. added \in Seq(Identity) /\ \A i \in 1..Len(added) : added[i] = members[i]
      BY DEF EnrolledInOrder
    <3>2. added' \in Seq(Identity) /\ Len(added') = Len(added) + 1
      BY <2>1, <2>2, <3>1
    <3>3. \A i \in 1..Len(added') : added'[i] = members[i]
      BY <2>1, <2>2, <3>1, <3>2
    <3>4. leaves' = added'
      BY <2>1 DEF EnrolledInOrder
    <3>. QED
      BY <2>1, <2>2, <3>2, <3>3, <3>4 DEF EnrolledInOrder
  <2>5. SnapshotTrue'
    BY <2>1 DEF SnapshotTrue
  <2>6. VotedInOrder'
    BY <2>1, DefaultsAssumption
       DEF VotedInOrder, SnapshotTrue, Proposed, ArgumentsTyped, Settings
  <2>. QED
    BY <2>3, <2>4, <2>5, <2>6
<1>2. CASE ~ (Builder!NotYetAdded(commitment) /\ Builder!HasRoom)
  BY <1>2, ControlKeeps DEF built
<1>. QED
  BY <1>1, <1>2

\* A tree of all members that were drawn.
LEMMA AllEnrolled ==
  ASSUME DemoIInv, Len(added) = settings.members
  PROVE  /\ added = members /\ Len(members) = settings.members
         /\ members # <<>> => members \in Trees
<1>. USE DEF DemoIInv
<1>1. settings.members \in 0..MaxMembers /\ MaxMembers \in Nat
  BY DefaultsAssumption DEF ArgumentsTyped, Settings
<1>2. /\ members \in Seq(Identity) /\ added \in Seq(Identity)
      /\ Len(added) = Len(members) /\ Len(members) = settings.members
      /\ \A i \in 1..Len(members) : members[i] = Draw[i]
      /\ \A i \in 1..Len(added) : added[i] = members[i]
  BY <1>1 DEF EnrolledInOrder
<1>3. added = members
  BY <1>2, SeqEqual
<1>4. members = [i \in 1..Len(members) |-> Draw[i]]
  <2>1. members \in [1..Len(members) -> Identity]
    BY <1>2, LenProperties
  <2>. QED
    BY <1>2, <2>1
<1>5. members # <<>> => Len(members) \in 1..MaxMembers
  <2>1. members # <<>> => Len(members) \in Nat \ {0}
    BY <1>2, EmptySeq
  <2>. QED
    BY <1>1, <1>2, <2>1
<1>. QED
  BY <1>2, <1>3, <1>4, <1>5 DEF Trees

\* finalizing,
LEMMA FinalizeKeeps == DemoIInv /\ FinalizeMultisig => DemoIInv'
<1>. SUFFICES ASSUME DemoIInv, FinalizeMultisig PROVE DemoIInv'
  OBVIOUS
<1>. USE DEF DemoIInv, FinalizeMultisig, process, votes, Exit, Goto
<1>1. CASE Builder!Finalizable
  <2>. DEFINE f == [members_root |-> Builder!Root(members),
                    m |-> settings.threshold, n |-> Len(members),
                    commitments |-> members, tree |-> members]
  <2>1. added = members /\ leaves = members
    BY AllEnrolled DEF EnrolledInOrder
  <2>2. /\ finalized' = f
        /\ UNCHANGED <<added, leaves>>
        /\ pc' = "snapshot" /\ exit' = exit
    BY <1>1, <2>1 DEF Builder!Finalize
  <2>3. /\ settings.threshold \in 1..Len(members)
        /\ settings.threshold \in 1..MaxU8
        /\ Len(members) <= MaxU32 /\ members # <<>>
    BY <1>1, <2>1, DefaultsAssumption
       DEF Builder!Finalizable, EnrolledInOrder, ArgumentsTyped, Settings
  <2>4. f \in Finalized /\ f # None
    BY <2>3, AllEnrolled, NoneAssumption DEF Finalized
  <2>5. ArgumentsTyped'
    BY <2>2 DEF ArgumentsTyped
  <2>6. EnrolledInOrder'
    BY <2>2, <2>3, <2>4 DEF EnrolledInOrder
  <2>7. SnapshotTrue'
    BY <2>2 DEF SnapshotTrue
  <2>8. VotedInOrder'
    BY <2>2, <2>3 DEF VotedInOrder, SnapshotTrue, Proposed
  <2>. QED
    BY <2>5, <2>6, <2>7, <2>8
<1>2. CASE ~ Builder!Finalizable
  BY <1>2, ControlKeeps DEF built
<1>. QED
  BY <1>1, <1>2

\* taking the snapshot,
LEMMA SnapshotKeeps == DemoIInv /\ TakeSnapshot => DemoIInv'
<1>. SUFFICES ASSUME DemoIInv, TakeSnapshot PROVE DemoIInv'
  OBVIOUS
<1>. USE DEF DemoIInv, TakeSnapshot, process, built, votes, Goto
<1>1. finalized # None /\ finalized \in Finalized
  BY DEF EnrolledInOrder
<1>2. snapshot' \in Snapshot /\ snapshot' # None
  BY <1>1, NoneAssumption DEF Snapshot
<1>3. ArgumentsTyped'
  BY DEF ArgumentsTyped
<1>4. EnrolledInOrder'
  BY DEF EnrolledInOrder
<1>5. SnapshotTrue'
  BY <1>1, <1>2 DEF SnapshotTrue
<1>6. VotedInOrder'
  <2>1. /\ prover = None /\ approvals_recorded = 0 /\ nullifiers = {}
        /\ settings.threshold \in Nat /\ settings.threshold > 0
    BY <1>1 DEF SnapshotTrue, EnrolledInOrder
  <2>2. pc' = "voting" /\ exit' # 0
    BY NoneAssumption DEF ArgumentsTyped
  <2>. QED
    BY <2>1, <2>2 DEF VotedInOrder, Proposed
<1>. QED
  BY <1>3, <1>4, <1>5, <1>6

\* In the voting part: there is a next member, who is enrolled.
LEMMA NextIsEnrolled ==
  ASSUME DemoIInv, pc \in {"voting", "replay"}
  PROVE  /\ finalized # None /\ snapshot # None
         /\ finalized \in Finalized /\ finalized.tree = members
         /\ finalized.m = settings.threshold
         /\ snapshot.members_root = finalized.members_root
         /\ exit # 0 /\ exit = None
         /\ approvals_recorded \in 0..settings.threshold
         /\ settings.threshold \in 1..Len(members)
         /\ Len(members) \in Nat /\ Len(members) <= MaxU32
         /\ settings.action \in Action
         /\ \A i \in 1..Len(members) : members[i] \in Identity
         /\ pc = "voting" =>
              /\ approvals_recorded + 1 \in 1..settings.threshold
              /\ approvals_recorded + 1 \in 1..Len(members)
              /\ Current \in Identity
<1>. USE DEF DemoIInv
<1>1. /\ finalized # None /\ snapshot # None /\ exit = None /\ exit # 0
  BY NoneAssumption DEF EnrolledInOrder, SnapshotTrue, ArgumentsTyped
<1>2. /\ finalized \in Finalized /\ finalized.tree = members
      /\ finalized.m = settings.threshold
      /\ snapshot.members_root = finalized.members_root
      /\ settings.threshold \in 1..Len(members)
      /\ Len(members) <= MaxU32
      /\ members \in Seq(Identity)
  BY <1>1 DEF EnrolledInOrder, SnapshotTrue
<1>3. /\ approvals_recorded \in 0..settings.threshold
      /\ pc = "voting" => approvals_recorded < settings.threshold
  BY DEF VotedInOrder
<1>4. Len(members) \in Nat /\ \A i \in 1..Len(members) : members[i] \in Identity
  BY <1>2, ElementOfSeq, LenProperties
<1>5. settings.action \in Action
  BY DEF ArgumentsTyped, Settings
<1>. QED
  BY <1>1, <1>2, <1>3, <1>4, <1>5 DEF Current

\* Votes do not depend on where the program is.
LEMMA JournalsStay ==
  UNCHANGED <<settings, snapshot>> =>
    /\ UNCHANGED ProposalIdOf
    /\ \A i : NullifierOf(i)' = NullifierOf(i)
    /\ \A i : PublicInputs(i)' = PublicInputs(i)
BY DEF ProposalIdOf, NullifierOf, PublicInputs

\* building a prover,
LEMMA NewProverKeeps == DemoIInv /\ NewProver => DemoIInv'
<1>. SUFFICES ASSUME DemoIInv, NewProver PROVE DemoIInv'
  OBVIOUS
<1>. USE DEF DemoIInv, NewProver, process, built, Exit, Goto
<1>1. CASE ProverAccepts(Current)
  <2>1. /\ prover' = [identity |-> Current, receipt |-> None]
        /\ pc' = "voting" /\ exit' = exit
        /\ UNCHANGED <<argv, settings, members, added, leaves, finalized,
                       snapshot, proved, nullifiers, approvals_recorded>>
    BY <1>1
  <2>2. ArgumentsTyped'
    BY <2>1 DEF ArgumentsTyped
  <2>3. EnrolledInOrder'
    BY <2>1 DEF EnrolledInOrder
  <2>4. SnapshotTrue'
    BY <2>1, NextIsEnrolled DEF SnapshotTrue
  <2>5. VotedInOrder'
    <3>1. ActionLen[settings.action] <= MAX_ACTION_BYTES_LEN
      BY <1>1 DEF ProverAccepts
    <3>2. prover' \in Prover' /\ Current' = Current
      BY <2>1, NextIsEnrolled DEF Prover, Current
    <3>3. exit # 0
      BY NextIsEnrolled
    <3>. QED
      BY <2>1, <3>1, <3>2, <3>3
         DEF VotedInOrder, ProposalIdOf, NullifierOf, PublicInputs,
             MAX_ACTION_BYTES_LEN
  <2>. QED
    BY <2>2, <2>3, <2>4, <2>5
<1>2. CASE ~ ProverAccepts(Current)
  <2>1. UNCHANGED <<argv, settings, built, snapshot, votes>>
    BY <1>2 DEF votes
  <2>2. pc' = "exit" /\ exit' = 1
    BY <1>2
  <2>. QED
    BY <2>1, <2>2, ControlKeeps
<1>. QED
  BY <1>1, <1>2

\* What the circuit commits to is a journal of the demo.
LEMMA JournalTyped ==
  ASSUME DemoIInv, pc = "voting", NEW id \in Identity
  PROVE  PublicInputs(id) \in Journals
<1>1. /\ finalized \in Finalized /\ settings.action \in Action
      /\ snapshot.members_root = finalized.members_root
  BY NextIsEnrolled
<1>2. ProposalIdOf \in ProposalIds
  BY <1>1 DEF ProposalIdOf, ProposalIds
<1>3. NullifierOf(id) \in [sk : Secret, proposal_id : ProposalIds]
  BY <1>2 DEF NullifierOf, Identity
<1>. QED
  BY <1>1, <1>2, <1>3 DEF PublicInputs, Journals

\* proving,
LEMMA ProveKeeps == DemoIInv /\ Prove => DemoIInv'
<1>. SUFFICES ASSUME DemoIInv, Prove PROVE DemoIInv'
  OBVIOUS
<1>. USE DEF DemoIInv, Prove, process, built, Exit, Goto
<1>0. prover # None /\ prover \in Prover /\ prover.identity = Current
  BY DEF VotedInOrder
<1>1. CASE ImageMatches
  <2>1. /\ prover' = [prover EXCEPT !.receipt = PublicInputs(prover.identity)]
        /\ proved' = proved \cup {PublicInputs(prover.identity)}
        /\ pc' = "voting" /\ exit' = exit
        /\ UNCHANGED <<argv, settings, members, added, leaves, finalized,
                       snapshot, nullifiers, approvals_recorded>>
    BY <1>1
  <2>2. ArgumentsTyped'
    BY <2>1 DEF ArgumentsTyped
  <2>3. EnrolledInOrder'
    BY <2>1 DEF EnrolledInOrder
  <2>4. SnapshotTrue'
    BY <2>1, NextIsEnrolled DEF SnapshotTrue
  <2>5. VotedInOrder'
    <3>1. /\ prover' \in Prover /\ prover'.identity = prover.identity
          /\ prover'.receipt = PublicInputs(prover.identity)
      BY <1>0, <2>1, JournalTyped, NextIsEnrolled DEF Prover
    <3>2. Current' = Current /\ exit # 0
      BY <2>1, NextIsEnrolled DEF Current
    <3>3. /\ \A id : PublicInputs(id)' = PublicInputs(id)
          /\ \A id : NullifierOf(id)' = NullifierOf(id)
      BY <2>1, JournalsStay
    <3>. QED
      BY <1>0, <2>1, <3>1, <3>2, <3>3 DEF VotedInOrder, Proposed
  <2>. QED
    BY <2>2, <2>3, <2>4, <2>5
<1>2. CASE ~ ImageMatches
  <2>1. UNCHANGED <<argv, settings, built, snapshot, votes>>
    BY <1>2 DEF votes
  <2>2. pc' = "exit" /\ exit' = 1
    BY <1>2
  <2>. QED
    BY <2>1, <2>2, ControlKeeps
<1>. QED
  BY <1>1, <1>2

\* recording the vote,
LEMMA RecordKeeps == DemoIInv /\ Record => DemoIInv'
<1>. SUFFICES ASSUME DemoIInv, Record PROVE DemoIInv'
  OBVIOUS
<1>. USE DEF DemoIInv, Record, process, built, Exit, Goto
<1>. DEFINE n == approvals_recorded
<1>0. /\ prover # None /\ prover \in Prover /\ prover.identity = Current
      /\ prover.receipt = PublicInputs(Current) /\ prover.receipt \in proved
  BY DEF VotedInOrder
<1>1. CASE NullifierOf(prover.identity) \notin nullifiers
  <2>1. /\ nullifiers' = nullifiers \cup {NullifierOf(Current)}
        /\ approvals_recorded' = n + 1
        /\ prover' = None
        /\ pc' = IF LastApproval THEN "replay" ELSE "voting"
        /\ exit' = exit
        /\ UNCHANGED <<argv, settings, members, added, leaves, finalized,
                       snapshot, proved>>
    BY <1>0, <1>1
  <2>2. ArgumentsTyped'
    BY <2>1 DEF ArgumentsTyped
  <2>3. EnrolledInOrder'
    BY <2>1, NextIsEnrolled DEF EnrolledInOrder
  <2>4. SnapshotTrue'
    BY <2>1, NextIsEnrolled DEF SnapshotTrue
  <2>5. VotedInOrder'
    <3>1. /\ n \in Nat /\ n + 1 \in 1..settings.threshold /\ exit # 0
          /\ settings.threshold \in Nat /\ exit' # 0
      BY <2>1, NextIsEnrolled
    <3>2. /\ \A id : PublicInputs(id)' = PublicInputs(id)
          /\ \A id : NullifierOf(id)' = NullifierOf(id)
      BY <2>1, JournalsStay
    <3>3. 1..(n + 1) = (1..n) \cup {n + 1}
      BY <3>1
    <3>4. /\ nullifiers = {NullifierOf(members[i]) : i \in 1..n}
          /\ \A i \in 1..n : PublicInputs(members[i]) \in proved
      BY DEF VotedInOrder
    <3>5. nullifiers' = {NullifierOf(members[i]) : i \in 1..(n + 1)}
      BY <2>1, <3>3, <3>4 DEF Current
    <3>6. \A i \in 1..(n + 1) : PublicInputs(members[i]) \in proved
      BY <1>0, <3>3, <3>4 DEF Current
    <3>7. pc' = "voting" => n + 1 < settings.threshold
      BY <2>1, <3>1 DEF LastApproval
    <3>8. pc' = "replay" => n + 1 = settings.threshold
      BY <2>1, <3>1 DEF LastApproval
    <3>9. ActionLen[settings.action] <= MAX_ACTION_BYTES_LEN
      BY DEF VotedInOrder, Proposed
    <3>10. nullifiers' = {NullifierOf(members[i])' : i \in 1..(n + 1)}
      BY <2>1, <3>2, <3>5
    <3>. QED
      BY <2>1, <3>1, <3>2, <3>6, <3>7, <3>8, <3>9, <3>10
         DEF VotedInOrder, MAX_ACTION_BYTES_LEN
  <2>. QED
    BY <2>2, <2>3, <2>4, <2>5
<1>2. CASE NullifierOf(prover.identity) \in nullifiers
  <2>1. UNCHANGED <<argv, settings, built, snapshot, votes>>
    BY <1>2 DEF votes
  <2>2. pc' = "exit" /\ exit' = 1
    BY <1>2
  <2>. QED
    BY <2>1, <2>2, ControlKeeps
<1>. QED
  BY <1>1, <1>2

\* trying it again
LEMMA ReplayKeeps == DemoIInv /\ Replay => DemoIInv'
<1>. SUFFICES ASSUME DemoIInv, Replay PROVE DemoIInv'
  OBVIOUS
<1>. USE DEF DemoIInv, Replay, process, Exit
<1>1. /\ UNCHANGED <<argv, settings, built, snapshot, votes>>
      /\ pc' = "exit" /\ pc = "replay" /\ snapshot # None
  BY NextIsEnrolled
<1>2. approvals_recorded = settings.threshold
  BY DEF VotedInOrder
<1>. USE DEF built, votes
<1>3. ArgumentsTyped'
  BY <1>1 DEF ArgumentsTyped
<1>4. EnrolledInOrder'
  BY <1>1 DEF EnrolledInOrder
<1>5. SnapshotTrue'
  BY <1>1 DEF SnapshotTrue
<1>6. VotedInOrder'
  BY <1>1, <1>2
     DEF VotedInOrder, Proposed, NullifierOf, ProposalIdOf, PublicInputs
<1>. QED
  BY <1>3, <1>4, <1>5, <1>6

\* and doing nothing.
LEMMA StutterKeeps == DemoIInv /\ UNCHANGED vars => DemoIInv'
<1>. SUFFICES ASSUME DemoIInv, UNCHANGED vars PROVE DemoIInv'
  OBVIOUS
<1>. USE DEF vars, process, built, votes, DemoIInv
<1>1. ArgumentsTyped'
  BY DEF ArgumentsTyped
<1>2. EnrolledInOrder'
  BY DEF EnrolledInOrder
<1>3. SnapshotTrue'
  BY DEF SnapshotTrue
<1>4. VotedInOrder'
  BY DEF VotedInOrder, Proposed, NullifierOf, ProposalIdOf, PublicInputs,
         Current
<1>. QED
  BY <1>1, <1>2, <1>3, <1>4

\* The inductive invariant: members are drawn, enrolled and counted in
\* order, and every counted vote has its proof and its nullifier.
THEOREM DemoInvariant == Spec => []DemoIInv
<1>1. DemoIInv /\ [Next]_vars => DemoIInv'
  BY ParseFlagKeeps, ArgumentsKeep, KeygenKeeps, EnrollKeeps, FinalizeKeeps,
     SnapshotKeeps, NewProverKeeps, ProveKeeps, RecordKeeps, ReplayKeeps,
     StutterKeeps DEF Next
<1>. QED
  BY <1>1, InitHolds, PTL DEF Spec

-----------------------------------------------------------------------------
(* The quorum.                                                             *)

\* The first n members drawn are n different people.
LEMMA DrawnDiffer ==
  ASSUME DemoIInv, NEW n \in Nat, n <= Len(members)
  PROVE  /\ IsFiniteSet({members[i].sk : i \in 1..n})
         /\ Cardinality({members[i].sk : i \in 1..n}) = n
<1>. DEFINE S == {members[i].sk : i \in 1..n}
            f == [i \in 1..n |-> members[i].sk]
<1>1. /\ members \in Seq(Identity) /\ Len(members) \in Nat
      /\ Len(members) <= MaxMembers /\ MaxMembers \in Nat
      /\ \A i \in 1..Len(members) : members[i] = Draw[i]
  BY LenProperties, DefaultsAssumption
     DEF DemoIInv, EnrolledInOrder, ArgumentsTyped, Settings
<1>2. f \in Bijection(1..n, S)
  <2>1. \A i, j \in 1..n : f[i] = f[j] => i = j
    BY <1>1, FreshDraws
  <2>2. f \in [1..n -> S] /\ \A x \in S : \E i \in 1..n : f[i] = x
    OBVIOUS
  <2>. QED
    BY <2>1, <2>2 DEF Bijection, Injection, Surjection, IsInjective
<1>3. IsFiniteSet(1..n) /\ Cardinality(1..n) = n
  BY FS_Interval
<1>4. ExistsBijection(1..n, S)
  BY <1>2 DEF ExistsBijection
<1>. QED
  BY <1>3, <1>4, FS_Bijection

\* Whenever the demo announces a quorum or ends well, at least m different
\* enrolled members proved their consent, and the verifier would fire.
THEOREM QuorumAlwaysReal == Spec => []QuorumIsReal
<1>1. DemoIInv => QuorumIsReal
  <2>. SUFFICES ASSUME DemoIInv, pc = "replay" \/ (exit = 0 /\ snapshot # None)
                PROVE  /\ Verifier!ReadyToFire(DEMO_CREATE_KEY, DemoPda)
                       /\ Cardinality(Verifier!Consenting(DEMO_CREATE_KEY,
                                                          ProposalIdOf))
                            >= settings.threshold
    BY DEF QuorumIsReal
  <2>. DEFINE t == settings.threshold
              S == {members[i].sk : i \in 1..t}
              C == Verifier!Consenting(DEMO_CREATE_KEY, ProposalIdOf)
  <2>1. /\ snapshot # None /\ finalized # None
        /\ finalized.tree = members /\ finalized.m = t
        /\ snapshot.members_root = finalized.members_root
        /\ t \in 1..Len(members) /\ members \in Seq(Identity)
        /\ approvals_recorded = t
    BY DEF DemoIInv, SnapshotTrue, EnrolledInOrder, VotedInOrder
  <2>2. Len(members) \in Nat /\ DOMAIN members = 1..Len(members)
    BY <2>1, LenProperties
  <2>3. Proposed /\ DemoPda \in Pdas
    BY <2>1, <2>2 DEF Proposed, DemoPda, Pdas, proposal_index
  <2>4. Verifier!ReadyToFire(DEMO_CREATE_KEY, DemoPda)
    BY <2>1, <2>2, <2>3 DEF Verifier!ReadyToFire, DemoProposal, Instance
  <2>5. S \subseteq C
    <3>. SUFFICES ASSUME NEW i \in 1..t PROVE members[i].sk \in C
      OBVIOUS
    <3>. DEFINE journal == [members_root |-> Range(members),
                            proposal_id |-> ProposalIdOf,
                            nullifier |-> [sk |-> members[i].sk,
                                           proposal_id |-> ProposalIdOf]]
    <3>1. members[i] \in Range(members)
      BY <2>1, <2>2 DEF Range
    <3>2. PublicInputs(members[i]) \in proved
      BY <2>1 DEF DemoIInv, VotedInOrder
    <3>3. journal = OnChain(PublicInputs(members[i]))
      BY <2>1 DEF OnChain, PublicInputs, NullifierOf
    <3>. QED
      BY <2>1, <3>1, <3>2, <3>3
         DEF Verifier!Consenting, Verifier!Enrolled, Instance
  <2>6. IsFiniteSet(C)
    <3>1. C \subseteq {members[i].sk : i \in 1..Len(members)}
      <4>1. Instance.members_root = {members[i] : i \in 1..Len(members)}
        BY <2>1, <2>2 DEF Instance, Range
      <4>2. C \subseteq {identity.sk : identity \in Instance.members_root}
        BY DEF Verifier!Consenting, Verifier!Enrolled
      <4>. HIDE DEF C
      <4>. QED
        BY <4>1, <4>2
    <3>2. IsFiniteSet({members[i].sk : i \in 1..Len(members)})
      BY <2>2, DrawnDiffer
    <3>. HIDE DEF C
    <3>. QED
      BY <3>1, <3>2, FS_Subset
  <2>7. Cardinality(S) = t /\ Cardinality(C) \in Nat
    <3>1. t \in Nat /\ t <= Len(members)
      BY <2>1, <2>2
    <3>2. Cardinality(S) = t
      BY <3>1, DrawnDiffer
    <3>. HIDE DEF C
    <3>3. Cardinality(C) \in Nat
      BY <2>6, FS_CardinalityType
    <3>. QED
      BY <3>2, <3>3
  <2>8. Cardinality(S) <= Cardinality(C)
    BY <2>5, <2>6, FS_Subset
  <2>. QED
    BY <2>1, <2>2, <2>4, <2>7, <2>8
<1>. QED
  BY <1>1, DemoInvariant, PTL

-----------------------------------------------------------------------------
(* The refinement.                                                         *)

\* Before the program starts there is no account.
LEMMA InitMaps == Init => Verifier!Init
BY DEF Init, Verifier!Init, Instance, Proposed, Verifier!ProposalPda, Pdas,
       Verifier!Index

\* A step that leaves what the accounts are read from leaves the accounts.
LEMMA SameAccounts ==
  ASSUME UNCHANGED <<finalized, proved, nullifiers, approvals_recorded>>,
         UNCHANGED settings \/ (finalized = None /\ ~ Proposed),
         Proposed' = Proposed
  PROVE  UNCHANGED Verifier!vars
BY DEF Verifier!vars, Instance, DemoProposal, OnChain, DemoPda

\* Steps that finalize, prove and record nothing change no account.
LEMMA SetupMaps ==
  ASSUME DemoIInv,
         \/ ParseFlag \/ ParseEnds \/ Dispatch \/ CheckArguments
         \/ Keygen \/ Enroll \/ TakeSnapshot \/ Replay \/ UNCHANGED vars
  PROVE  UNCHANGED Verifier!vars
<1>1. UNCHANGED votes
  BY DEF ParseFlag, ParseEnds, Dispatch, CheckArguments, Keygen, Enroll,
         TakeSnapshot, Replay, vars
<1>2. UNCHANGED finalized
  <2>1. Enroll => UNCHANGED finalized
    BY DEF Enroll, Builder!AddMember
  <2>. QED
    BY <2>1 DEF ParseFlag, ParseEnds, Dispatch, CheckArguments, Keygen,
                TakeSnapshot, Replay, vars, built
<1>3. UNCHANGED settings \/ (finalized = None /\ ~ Proposed)
  <2>1. ParseFlag => finalized = None /\ snapshot = None
    BY DEF ParseFlag, DemoIInv, EnrolledInOrder, SnapshotTrue
  <2>2. snapshot = None => ~ Proposed
    BY DEF DemoIInv, SnapshotTrue, Proposed
  <2>. QED
    BY <2>1, <2>2 DEF ParseEnds, Dispatch, CheckArguments, Keygen, Enroll,
                      TakeSnapshot, Replay, vars, process
<1>4. Proposed' = Proposed
  BY <1>1 DEF votes, Proposed
<1>. QED
  BY <1>1, <1>2, <1>3, <1>4, SameAccounts DEF votes

\* The members enrolled are under a root that can be drawn.
LEMMA RootDrawn ==
  ASSUME DemoIInv, Len(members) > 0
  PROVE  Range(members) \in DemoRoots
<1>. DEFINE n == Len(members)
<1>1. /\ members \in Seq(Identity) /\ n <= settings.members
      /\ \A i \in 1..n : members[i] = Draw[i]
  BY DEF DemoIInv, EnrolledInOrder
<1>2. n \in 1..MaxMembers
  <2>1. settings.members \in 0..MaxMembers /\ MaxMembers \in Nat
    BY DefaultsAssumption DEF DemoIInv, ArgumentsTyped, Settings
  <2>. QED
    BY <1>1, <2>1, LenProperties
<1>3. Range(members) = {members[i] : i \in 1..n}
  BY <1>1, LenProperties DEF Range
<1>4. Range(members) = {Draw[i] : i \in 1..n}
  BY <1>1, <1>3
<1>. QED
  BY <1>2, <1>4 DEF DemoRoots

\* The finalized instance is one create_multisig accepts.
LEMMA FinalizeMaps ==
  ASSUME DemoIInv, FinalizeMultisig
  PROVE  [Verifier!Next]_Verifier!vars
<1>1. CASE Builder!Finalizable
  <2>. DEFINE root == Range(members)
              k    == settings.threshold
              n    == Len(members)
  <2>1. added = members /\ leaves = members
    BY AllEnrolled DEF DemoIInv, EnrolledInOrder, FinalizeMultisig
  <2>2. /\ finalized' = [members_root |-> Builder!Root(members), m |-> k,
                         n |-> n, commitments |-> members, tree |-> members]
        /\ UNCHANGED <<settings, votes>>
    BY <1>1, <2>1 DEF FinalizeMultisig, Builder!Finalize, process
  <2>3. /\ finalized = None /\ snapshot = None /\ ~ Proposed
        /\ proved = {} /\ nullifiers = {}
    BY DEF DemoIInv, FinalizeMultisig, EnrolledInOrder, SnapshotTrue, Proposed
  <2>4. DemoIInv'
    BY FinalizeKeeps
  <2>5. finalized' # None /\ k \in 1..n /\ n <= MaxU32
    <3>1. pc' = "snapshot"
      BY <1>1 DEF FinalizeMultisig, Goto
    <3>. QED
      BY <2>2, <2>4, <3>1 DEF DemoIInv, EnrolledInOrder
  <2>6. n \in Nat /\ n > 0 /\ k \in 0..MaxU8
    <3>1. members \in Seq(Identity)
      BY DEF DemoIInv, EnrolledInOrder
    <3>2. k \in 0..MaxU8
      BY DEF DemoIInv, ArgumentsTyped, Settings
    <3>. QED
      BY <2>5, <3>1, <3>2, LenProperties
  <2>7. root \in DemoRoots
    BY <2>6, RootDrawn
  <2>8. Verifier!CreateMultisig(DEMO_CREATE_KEY, root, k, n)
    <3>1. Verifier!StateUninitialised(DEMO_CREATE_KEY)
      BY <2>3 DEF Verifier!StateUninitialised, Instance
    <3>2. Verifier!ValidateThreshold(k, n)
      BY <2>5, <2>6 DEF Verifier!ValidateThreshold
    <3>3. ~ Proposed'
      BY <2>2, <2>3 DEF Proposed, votes
    <3>4. Instance' = [members_root |-> root, m |-> k, n |-> n,
                       proposal_count |-> 0]
      BY <2>2, <2>5, <3>3 DEF Instance
    <3>. QED
      BY <2>2, <2>3, <3>1, <3>2, <3>3, <3>4
         DEF Verifier!CreateMultisig, votes
  <2>. QED
    BY <2>5, <2>6, <2>7, <2>8, DefaultsAssumption DEF Verifier!Next
<1>2. CASE ~ Builder!Finalizable
  <2>1. UNCHANGED <<settings, finalized, votes>>
    BY <1>2 DEF FinalizeMultisig, process
  <2>. QED
    BY <2>1, SameAccounts DEF votes, Proposed
<1>. QED
  BY <1>1, <1>2

\* A new prover is one, whatever None is.
LEMMA ProverIsThere ==
  ASSUME DemoIInv, pc = "voting"
  PROVE  /\ [identity |-> Current, receipt |-> None] # None
         /\ prover # None =>
              [prover EXCEPT !.receipt = PublicInputs(prover.identity)] # None
<1>1. [identity |-> Current, receipt |-> None] \in Prover
  BY NextIsEnrolled DEF Prover
<1>2. prover # None =>
        [prover EXCEPT !.receipt = PublicInputs(prover.identity)] \in Prover
  <2>. SUFFICES ASSUME prover # None
                PROVE  [prover EXCEPT !.receipt = PublicInputs(prover.identity)]
                         \in Prover
    OBVIOUS
  <2>1. prover \in Prover /\ prover.identity \in Identity
    BY DEF DemoIInv, VotedInOrder, Prover
  <2>2. PublicInputs(prover.identity) \in Journals
    BY <2>1, JournalTyped
  <2>. QED
    BY <2>1, <2>2 DEF Prover
<1>. QED
  BY <1>1, <1>2, NoneAssumption

\* While members vote, both accounts hold bodies.
LEMMA BodiesThere ==
  ASSUME DemoIInv, pc = "voting",
         NEW c \in 0..1
  PROVE  /\ [members_root |-> Range(finalized.tree), m |-> finalized.m,
              n |-> finalized.n, proposal_count |-> c] # None
         /\ DemoProposal # None
<1>1. /\ Range(finalized.tree) \in DemoRoots
      /\ finalized.m \in 0..MaxU8 /\ finalized.n \in 0..MaxU32
      /\ settings.threshold <= MaxU32
  <2>1. /\ finalized.tree = members /\ finalized.n = Len(members)
        /\ finalized.m = settings.threshold
    BY DEF DemoIInv, EnrolledInOrder
  <2>2. settings.threshold \in 0..MaxU8
    BY DEF DemoIInv, ArgumentsTyped, Settings
  <2>. QED
    BY <2>1, <2>2, NextIsEnrolled, RootDrawn, DefaultsAssumption
<1>2. DemoProposal \in Verifier!Proposal
  BY <1>1, NextIsEnrolled, DefaultsAssumption
     DEF DemoProposal, Verifier!Proposal
<1>. QED
  BY <1>1, <1>2, AccountsAssumption DEF Verifier!MultisigState

\* The first prover that accepts the proposal stands for its making.
LEMMA NewProverMaps ==
  ASSUME DemoIInv, NewProver
  PROVE  [Verifier!Next]_Verifier!vars
<1>1. /\ pc = "voting" /\ finalized # None /\ settings.action \in Action
      /\ UNCHANGED <<settings, finalized, proved, nullifiers,
                     approvals_recorded>>
  BY NextIsEnrolled DEF NewProver, process, built
<1>2. CASE ProverAccepts(Current)
  <2>1. Proposed'
    <3>1. prover' # None
      BY <1>1, <1>2, ProverIsThere DEF NewProver
    <3>. QED
      BY <3>1 DEF Proposed
  <2>2. CASE Proposed
    BY <1>1, <2>1, <2>2, SameAccounts
  <2>3. CASE ~ Proposed
    <3>1. /\ Instance # None /\ Instance.proposal_count = 0
          /\ Instance' = [Instance EXCEPT !.proposal_count = 1]
      <4>. DEFINE state(c) == [members_root |-> Range(finalized.tree),
                               m |-> finalized.m, n |-> finalized.n,
                               proposal_count |-> c]
      <4>1. Instance = state(0) /\ Instance' = state(1)
        BY <1>1, <2>1, <2>3 DEF Instance
      <4>2. state(0) # None
        BY <1>1, BodiesThere
      <4>. QED
        BY <4>1, <4>2
    <3>2. DemoProposal' = [action_bytes |-> settings.action,
                           target_program |-> NOOP_ID,
                           approvals_count |-> 0, executed |-> FALSE]
      <4>1. approvals_recorded = 0
        <5>1. /\ approvals_recorded \in 0..settings.threshold
              /\ settings.threshold \in 1..Len(members)
              /\ Len(members) \in Nat
          BY <1>1, NextIsEnrolled
        <5>. QED
          BY <2>3, <5>1 DEF Proposed
      <4>2. approvals_recorded' = 0 /\ settings' = settings
        BY <1>1, <4>1
      <4>. QED
        BY <4>2 DEF DemoProposal
    <3>3. ActionLen[settings.action] <= 4096
      BY <1>2 DEF ProverAccepts, MAX_ACTION_BYTES_LEN
    <3>4. Verifier!Propose(DEMO_CREATE_KEY, proposal_index, settings.action,
                           NOOP_ID)
      <4>1. Verifier!Pda(DEMO_CREATE_KEY, proposal_index) = DemoPda
            /\ DemoPda \in Pdas
        BY DEF Verifier!Pda, DemoPda, Pdas, proposal_index
      <4>2. UNCHANGED {OnChain(journal) : journal \in proved}
        BY <1>1 DEF OnChain
      <4>3. UNCHANGED {[proposal |-> DemoPda, nullifier |-> n] :
                         n \in nullifiers}
        BY <1>1 DEF DemoPda
      <4>4. [pda \in Pdas |-> IF pda = DemoPda /\ Proposed
                              THEN DemoProposal ELSE None]'
              = [[pda \in Pdas |-> IF pda = DemoPda /\ Proposed
                                   THEN DemoProposal ELSE None]
                   EXCEPT ![DemoPda] =
                     [action_bytes |-> settings.action,
                      target_program |-> NOOP_ID, approvals_count |-> 0,
                      executed |-> FALSE]]
        BY <2>1, <2>3, <3>2, <4>1 DEF DemoPda
      <4>5. [key \in {DEMO_CREATE_KEY} |-> Instance]'
              = [[key \in {DEMO_CREATE_KEY} |-> Instance]
                   EXCEPT ![DEMO_CREATE_KEY].proposal_count = @ + 1]
        BY <3>1
      <4>6. [key \in {DEMO_CREATE_KEY} |-> Instance][DEMO_CREATE_KEY] = Instance
        OBVIOUS
      <4>7. [pda \in Pdas |-> IF pda = DemoPda /\ Proposed
                              THEN DemoProposal ELSE None][DemoPda] = None
        BY <2>3, <4>1
      <4>8. /\ Verifier!ValidateActionBytes(settings.action)
            /\ Verifier!NextIndex(DEMO_CREATE_KEY, proposal_index)
        BY <3>1, <3>3
           DEF Verifier!ValidateActionBytes, Verifier!MAX_ACTION_BYTES_LEN,
               Verifier!NextIndex, proposal_index
      <4>9. UNCHANGED <<{}, [pda \in Pdas |-> <<>>]>>
        BY DEF Pdas
      <4>. HIDE DEF DemoPda, OnChain, Pdas, proposal_index
      <4>. QED
        BY <3>1, <4>1, <4>2, <4>3, <4>4, <4>5, <4>6, <4>7, <4>8, <4>9
           DEF Verifier!Propose
    <3>. QED
      BY <1>1, <3>4 DEF Verifier!Next, Verifier!Index, proposal_index
  <2>. QED
    BY <2>2, <2>3
<1>3. CASE ~ ProverAccepts(Current)
  <2>1. UNCHANGED Proposed
    BY <1>3 DEF NewProver, Proposed
  <2>. QED
    BY <1>1, <2>1, SameAccounts
<1>. QED
  BY <1>2, <1>3

\* A proof is a run of the circuit on an enrolled member.
LEMMA ProveMaps ==
  ASSUME DemoIInv, Prove
  PROVE  [Verifier!Next]_Verifier!vars
<1>1. /\ pc = "voting" /\ prover # None
      /\ UNCHANGED <<settings, finalized, nullifiers, approvals_recorded>>
  BY DEF Prove, process, built
<1>2. CASE ImageMatches
  <2>. DEFINE input == [members_root |-> Range(members),
                        proposal_id |-> ProposalIdOf, identity |-> Current]
  <2>1. /\ prover.identity = Current
        /\ proved' = proved \cup {PublicInputs(Current)}
    BY <1>2 DEF Prove, DemoIInv, VotedInOrder
  <2>2. Proposed /\ Proposed'
    <3>1. prover' # None
      BY <1>1, <1>2, ProverIsThere DEF Prove
    <3>. QED
      BY <1>1, <3>1 DEF Proposed
  <2>3. /\ members \in Seq(Identity) /\ finalized.tree = members
        /\ approvals_recorded + 1 \in 1..Len(members)
        /\ \A i \in 1..Len(members) : members[i] = Draw[i]
        /\ Len(members) \in Nat /\ Len(members) <= MaxMembers
    <3>1. Len(members) <= settings.members /\ settings.members \in 0..MaxMembers
      BY DEF DemoIInv, EnrolledInOrder, ArgumentsTyped, Settings
    <3>. QED
      BY <1>1, <3>1, NextIsEnrolled, DefaultsAssumption
         DEF DemoIInv, EnrolledInOrder
  <2>4. Current \in Range(members) /\ Current \in Range(Draw)
    <3>1. DOMAIN members = 1..Len(members)
      BY <2>3, LenProperties
    <3>2. approvals_recorded + 1 \in DOMAIN Draw
      BY <2>3, FreshDraws, DefaultsAssumption
    <3>. QED
      BY <2>3, <3>1, <3>2 DEF Range, Current
  <2>5. ProposalIdOf \in ProposalIds /\ Range(members) \in DemoRoots
    <3>1. settings.action \in Action
      BY <1>1, NextIsEnrolled
    <3>. QED
      BY <2>3, <3>1, RootDrawn DEF ProposalIdOf, ProposalIds
  <2>6. input \in [members_root : DemoRoots, proposal_id : ProposalIds,
                   identity : Range(Draw)]
    BY <2>4, <2>5
  <2>7. OnChain(PublicInputs(Current))
          = [members_root |-> Range(members), proposal_id |-> ProposalIdOf,
             nullifier |-> [sk |-> Current.sk, proposal_id |-> ProposalIdOf]]
    BY <2>3 DEF OnChain, PublicInputs, NullifierOf
  <2>8. \A journal : OnChain(journal)' = OnChain(journal)
    BY <1>1 DEF OnChain
  <2>9. {OnChain(journal) : journal \in proved}'
          = {OnChain(journal) : journal \in proved}
              \cup {OnChain(PublicInputs(Current))}
    BY <2>1, <2>8
  <2>10. Verifier!ApproveCircuit(input)
    <3>1. UNCHANGED Instance
      BY <1>1, <2>2 DEF Instance
    <3>2. UNCHANGED DemoProposal
      BY <1>1 DEF DemoProposal
    <3>3. UNCHANGED {[proposal |-> DemoPda, nullifier |-> n] :
                       n \in nullifiers}
      BY <1>1 DEF DemoPda
    <3>. HIDE DEF OnChain
    <3>. QED
      BY <2>2, <2>4, <2>7, <2>9, <3>1, <3>2, <3>3
         DEF Verifier!ApproveCircuit, DemoPda
  <2>. QED
    BY <2>6, <2>10 DEF Verifier!Next
<1>3. CASE ~ ImageMatches
  <2>1. UNCHANGED <<prover, proved>>
    BY <1>3 DEF Prove
  <2>. QED
    BY <1>1, <2>1, SameAccounts DEF Proposed
<1>. QED
  BY <1>2, <1>3

\* An account that is the same but for one more approval.
LEMMA OneMoreApproval ==
  ASSUME NEW Actions, NEW Targets,
         NEW account \in [action_bytes : Actions, target_program : Targets,
                          approvals_count : Nat, executed : BOOLEAN]
  PROVE  [account EXCEPT !.approvals_count = @ + 1]
           = [action_bytes |-> account.action_bytes,
              target_program |-> account.target_program,
              approvals_count |-> account.approvals_count + 1,
              executed |-> account.executed]
<1>. DEFINE more == [account EXCEPT !.approvals_count = @ + 1]
<1>1. /\ more \in [action_bytes : Actions, target_program : Targets,
                    approvals_count : Nat, executed : BOOLEAN]
      /\ more.approvals_count = account.approvals_count + 1
      /\ more.action_bytes = account.action_bytes
      /\ more.target_program = account.target_program
      /\ more.executed = account.executed
  OBVIOUS
<1>. HIDE DEF more
<1>2. more = [action_bytes |-> account.action_bytes,
              target_program |-> account.target_program,
              approvals_count |-> account.approvals_count + 1,
              executed |-> account.executed]
  BY <1>1
<1>. QED
  BY <1>2 DEF more

\* A recorded approval is one the verifier accepts.
LEMMA RecordMaps ==
  ASSUME DemoIInv, Record
  PROVE  [Verifier!Next]_Verifier!vars
<1>. DEFINE n == approvals_recorded
            nullifier == NullifierOf(Current)
            journal == OnChain(PublicInputs(Current))
<1>1. /\ pc = "voting" /\ prover # None /\ finalized # None
      /\ prover.identity = Current /\ prover.receipt = PublicInputs(Current)
      /\ PublicInputs(Current) \in proved
      /\ UNCHANGED <<settings, finalized, proved>>
  BY NextIsEnrolled
     DEF Record, process, built, DemoIInv, VotedInOrder
<1>2. CASE nullifier \notin nullifiers
  <2>1. /\ nullifiers' = nullifiers \cup {nullifier}
        /\ approvals_recorded' = n + 1
    BY <1>1, <1>2 DEF Record
  <2>2. n \in Nat /\ n < MaxU32
    <3>1. /\ n + 1 \in 1..Len(members) /\ n \in 0..settings.threshold
          /\ Len(members) <= MaxU32 /\ MaxU32 \in Nat /\ Len(members) \in Nat
      BY <1>1, NextIsEnrolled, DefaultsAssumption
    <3>. QED
      BY <3>1
  <2>3. Proposed /\ Proposed'
    BY <1>1, <2>1, <2>2 DEF Proposed
  <2>4. UNCHANGED Instance /\ Instance # None
    <3>1. UNCHANGED Instance
      BY <1>1, <2>3 DEF Instance
    <3>2. Instance = [members_root |-> Range(finalized.tree),
                      m |-> finalized.m, n |-> finalized.n,
                      proposal_count |-> 1]
      BY <1>1, <2>3 DEF Instance
    <3>. QED
      BY <1>1, <3>1, <3>2, BodiesThere
  <2>5. /\ DemoProposal' = [DemoProposal EXCEPT !.approvals_count = @ + 1]
        /\ DemoProposal # None /\ DemoProposal.approvals_count = n
        /\ DemoProposal.action_bytes = settings.action
        /\ DemoProposal.target_program = NOOP_ID
    <3>1. settings' = settings /\ approvals_recorded' = n + 1
      BY <1>1, <2>1
    <3>2. DemoProposal' = [DemoProposal EXCEPT !.approvals_count = @ + 1]
      <4>1. DemoProposal \in [action_bytes : {settings.action},
                              target_program : {NOOP_ID},
                              approvals_count : Nat, executed : BOOLEAN]
        BY <2>2 DEF DemoProposal
      <4>2. [DemoProposal EXCEPT !.approvals_count = @ + 1]
              = [action_bytes |-> DemoProposal.action_bytes,
                 target_program |-> DemoProposal.target_program,
                 approvals_count |-> DemoProposal.approvals_count + 1,
                 executed |-> DemoProposal.executed]
        BY <4>1, OneMoreApproval
      <4>3. DemoProposal' = [action_bytes |-> DemoProposal.action_bytes,
                             target_program |-> DemoProposal.target_program,
                             approvals_count |->
                               DemoProposal.approvals_count + 1,
                             executed |-> DemoProposal.executed]
        BY <3>1 DEF DemoProposal
      <4>. QED
        BY <4>2, <4>3
    <3>3. DemoProposal # None
      <4>1. 1 \in 0..1
        OBVIOUS
      <4>. QED
        BY <1>1, <4>1, BodiesThere
    <3>. QED
      BY <3>2, <3>3 DEF DemoProposal
  <2>6. /\ journal.members_root = Range(finalized.tree)
        /\ journal.proposal_id = ProposalIdOf /\ journal.nullifier = nullifier
    BY DEF OnChain, PublicInputs
  <2>7. journal \in {OnChain(j) : j \in proved}
    BY <1>1
  <2>8. UNCHANGED {OnChain(j) : j \in proved}
    BY <1>1 DEF OnChain
  <2>9. Instance.members_root = Range(finalized.tree)
    BY <1>1 DEF Instance
  <2>10. Verifier!Pda(DEMO_CREATE_KEY, proposal_index) = DemoPda
         /\ DemoPda \in Pdas
    BY DEF Verifier!Pda, DemoPda, Pdas, proposal_index
  <2>11. Verifier!RecomputedProposalId(DEMO_CREATE_KEY, proposal_index)
           = ProposalIdOf
    BY <2>3, <2>5, <2>10 DEF Verifier!RecomputedProposalId, ProposalIdOf
  <2>. DEFINE accounts == [pda \in Pdas |-> IF pda = DemoPda /\ Proposed
                                            THEN DemoProposal ELSE None]
  <2>12. accounts[DemoPda] = DemoProposal
    BY <2>3, <2>10
  <2>13. accounts' = [accounts EXCEPT ![DemoPda].approvals_count = @ + 1]
    BY <2>3, <2>5, <2>10 DEF DemoPda
  <2>14. Verifier!Approvable(DEMO_CREATE_KEY, proposal_index, nullifier,
                             journal)
    <3>1. Verifier!NullifierUnspent(DemoPda, nullifier)
      BY <1>2 DEF Verifier!NullifierUnspent
    <3>2. Verifier!ReceiptMatches(DEMO_CREATE_KEY, proposal_index, nullifier,
                                  journal)
      BY <2>6, <2>9, <2>11 DEF Verifier!ReceiptMatches
    <3>3. Verifier!ApprovalsFit(DemoPda)
      BY <2>2, <2>5, <2>12 DEF Verifier!ApprovalsFit
    <3>. HIDE DEF nullifier, journal
    <3>. QED
      BY <2>4, <2>5, <2>7, <2>10, <2>12, <3>1, <3>2, <3>3
         DEF Verifier!Approvable
  <2>15. {[proposal |-> DemoPda, nullifier |-> x] : x \in nullifiers}'
           = {[proposal |-> DemoPda, nullifier |-> x] : x \in nullifiers}
               \cup {[proposal |-> DemoPda, nullifier |-> nullifier]}
    BY <2>1 DEF DemoPda
  <2>16. nullifier \in {j.nullifier : j \in {OnChain(k) : k \in proved}}
    BY <2>6, <2>7
  <2>17. PICK x \in {j.nullifier : j \in {OnChain(k) : k \in proved}},
              public_inputs \in {OnChain(j) : j \in proved} :
           x = nullifier /\ public_inputs = journal
    BY <2>7, <2>16
  <2>18. Verifier!Approve(DEMO_CREATE_KEY, proposal_index, x, public_inputs)
    <3>. HIDE DEF nullifier, journal
    <3>1. UNCHANGED [key \in {DEMO_CREATE_KEY} |-> Instance]
      BY <2>4
    <3>2. UNCHANGED <<{}, [pda \in Pdas |-> <<>>]>>
      BY DEF Pdas
    <3>. QED
      BY <2>8, <2>10, <2>13, <2>14, <2>15, <2>17, <3>1, <3>2
         DEF Verifier!Approve
  <2>19. proposal_index \in Verifier!Index
    BY DEF proposal_index, Verifier!Index
  <2>. QED
    BY <2>17, <2>18, <2>19 DEF Verifier!Next
<1>3. CASE nullifier \in nullifiers
  <2>1. UNCHANGED <<nullifiers, approvals_recorded, prover>>
    BY <1>1, <1>3 DEF Record
  <2>. QED
    BY <1>1, <2>1, SameAccounts DEF Proposed
<1>. QED
  BY <1>2, <1>3

\* Whatever the flags, the build and the members, all that the demo makes and
\* records is what the verifier would have accepted in its place.
THEOREM DemoImplementsVerifier == Spec => DemoFollowsVerifier
<1>1. DemoIInv /\ [Next]_vars => [Verifier!Next]_Verifier!vars
  BY SetupMaps, FinalizeMaps, NewProverMaps, ProveMaps, RecordMaps DEF Next
<1>. QED
  BY <1>1, InitMaps, DemoInvariant, PTL
     DEF Spec, DemoFollowsVerifier, Verifier!Spec

-----------------------------------------------------------------------------
(* Nothing fails by itself.                                                *)

Tree == INSTANCE MerkleTreeProofs

\* The tree the builder holds is the one the theorems are about.
LEMMA SameTree ==
  /\ Builder!MAX_LEAVES = Tree!MAX_LEAVES
  /\ \A t : Builder!Root(t) = Tree!Root(t)
  /\ \A t, i : Builder!Proof(t, i) = Tree!Proof(t, i)
  /\ \A leaf, proof : Builder!Climb(leaf, proof) = Tree!Climb(leaf, proof)
<1>1. Builder!Span = Tree!Span
  BY DEF Builder!Span, Tree!Span
<1>2. Builder!ZeroHash = Tree!ZeroHash
  BY DEF Builder!ZeroHash, Tree!ZeroHash, Builder!HashNode, Tree!HashNode,
         Builder!HashLeaf, Tree!HashLeaf
<1>3. \A t : Builder!NodeHash(t) = Tree!NodeHash(t)
  BY <1>1, <1>2
     DEF Builder!NodeHash, Tree!NodeHash, Builder!HashNode, Tree!HashNode,
         Builder!HashLeaf, Tree!HashLeaf
<1>4. \A i : Builder!Path(i) = Tree!Path(i)
  BY DEF Builder!Path, Tree!Path
<1>5. Builder!MAX_LEAVES = Tree!MAX_LEAVES
  BY <1>1 DEF Builder!MAX_LEAVES, Tree!MAX_LEAVES
<1>6. \A t : Builder!Root(t) = Tree!Root(t)
  BY <1>3 DEF Builder!Root, Tree!Root, Builder!NodeAt, Tree!NodeAt
<1>7. \A t, i : Builder!Proof(t, i) = Tree!Proof(t, i)
  BY <1>3, <1>4 DEF Builder!Proof, Tree!Proof, Builder!NodeAt, Tree!NodeAt,
                    Builder!Sibling, Tree!Sibling
<1>8. \A leaf, proof : Builder!Climb(leaf, proof) = Tree!Climb(leaf, proof)
  BY DEF Builder!Climb, Tree!Climb, Builder!Ascent, Tree!Ascent,
         Builder!HashNode, Tree!HashNode, Builder!HashLeaf, Tree!HashLeaf
<1>. QED
  BY <1>5, <1>6, <1>7, <1>8

\* run_layer_a settles the kind of proofs before anything is proved.
BuildKnown ==
  /\ dev_mode \in {"unset", "on", "off"}
  /\ pc \in {"setup", "snapshot", "voting", "replay"} => dev_mode # "unset"

\* From setup on the kind of build is known.
LEMMA BuildStaysKnown == BuildKnown /\ [Next]_vars => BuildKnown'
<1>. SUFFICES ASSUME BuildKnown, [Next]_vars PROVE BuildKnown'
  OBVIOUS
<1>. USE DEF BuildKnown, process, Goto, Exit
<1>1. CASE ParseFlag
  BY <1>1 DEF ParseFlag
<1>2. CASE ParseEnds
  BY <1>2 DEF ParseEnds
<1>3. CASE Dispatch
  BY <1>3 DEF Dispatch
<1>4. CASE CheckArguments
  BY <1>4 DEF CheckArguments
<1>5. CASE Keygen
  BY <1>5 DEF Keygen
<1>6. CASE Enroll
  BY <1>6 DEF Enroll
<1>7. CASE FinalizeMultisig
  BY <1>7 DEF FinalizeMultisig
<1>8. CASE TakeSnapshot
  BY <1>8 DEF TakeSnapshot
<1>9. CASE NewProver
  BY <1>9 DEF NewProver
<1>10. CASE Prove
  BY <1>10 DEF Prove
<1>11. CASE Record
  BY <1>11 DEF Record
<1>12. CASE Replay
  BY <1>12 DEF Replay
<1>13. CASE UNCHANGED vars
  BY <1>13 DEF vars
<1>. QED
  BY <1>1, <1>2, <1>3, <1>4, <1>5, <1>6, <1>7, <1>8, <1>9, <1>10, <1>11,
     <1>12, <1>13 DEF Next

\* No two members drawn share a secret.
LEMMA DrawnOnce ==
  ASSUME DemoIInv, NEW i \in 1..Len(members), NEW j \in 1..Len(members),
         members[i].sk = members[j].sk
  PROVE  i = j
<1>1. /\ Len(members) \in Nat /\ Len(members) <= MaxMembers
      /\ MaxMembers \in Nat
      /\ members[i] = Draw[i] /\ members[j] = Draw[j]
  BY LenProperties, DefaultsAssumption
     DEF DemoIInv, EnrolledInOrder, ArgumentsTyped, Settings
<1>2. i \in 1..MaxMembers /\ j \in 1..MaxMembers
  BY <1>1
<1>. QED
  BY <1>1, <1>2, FreshDraws

\* Every member of a presentable run gets a prover: member_index finds them,
\* and their path leads to the root in the snapshot.
LEMMA MembersAccepted ==
  ASSUME DemoIInv, pc \in {"voting", "replay"}, Presentable,
         NEW i \in 1..Len(members)
  PROVE  ProverAccepts(members[i])
<1>. DEFINE member == members[i]
            Found(k) == finalized.commitments[k + 1] = member
<1>1. /\ finalized # None /\ finalized \in Finalized
      /\ finalized.tree = members
      /\ snapshot.members_root = finalized.members_root
      /\ Len(members) \in Nat /\ member \in Identity
  BY NextIsEnrolled
<1>2. /\ finalized.commitments = members
      /\ finalized.members_root = Builder!Root(members)
  BY <1>1 DEF Finalized
<1>3. snapshot.proposal_count = 1
  BY DEF DemoIInv, SnapshotTrue
<1>4. Builder!MemberIndex(member) = i - 1
  <2>1. i - 1 \in 0..(Len(members) - 1) /\ Found(i - 1)
    BY <1>1, <1>2
  <2>2. ASSUME NEW k \in 0..(Len(members) - 1), Found(k) PROVE k = i - 1
    <3>1. k + 1 \in 1..Len(members) /\ members[k + 1] = members[i]
      BY <1>1, <1>2, <2>2
    <3>2. k + 1 = i
      BY <3>1, DrawnOnce
    <3>. QED
      BY <1>1, <3>2
  <2>3. Builder!MemberIndex(member) =
          CHOOSE k \in 0..(Len(members) - 1) : Found(k)
    BY <1>2 DEF Builder!MemberIndex
  <2>. HIDE DEF Found, member
  <2>. QED
    BY <2>1, <2>2, <2>3
<1>5. Len(members) <= Tree!MAX_LEAVES
  <2>1. /\ Len(members) <= settings.members /\ settings.members \in Nat
        /\ settings.members <= Builder!MAX_LEAVES
    BY DefaultsAssumption
       DEF DemoIInv, EnrolledInOrder, ArgumentsTyped, Settings, Presentable
  <2>2. Tree!MAX_LEAVES \in Nat
    BY TreeAssumption, Tree!MaxLeavesPositive
  <2>. QED
    BY <1>1, <2>1, <2>2, SameTree
<1>6. i - 1 \in Nat /\ i - 1 < Len(members) /\ (i - 1) + 1 = i
  BY <1>1
<1>7. Tree!Climb(members[(i - 1) + 1], Tree!Proof(members, i - 1))
        = Tree!Root(members)
  BY <1>1, <1>5, <1>6, TreeAssumption, Tree!LeafClimbsToRoot
<1>8. Builder!Climb(member, Builder!Proof(members, i - 1))
        = Builder!Root(members)
  BY <1>6, <1>7, SameTree
<1>9. Builder!HasMerkleProof(member)
  BY <1>1, <1>4, <1>6 DEF Builder!HasMerkleProof
<1>10. Builder!VerifyProof(snapshot.members_root, member,
                           Builder!MerkleProof(member))
  BY <1>1, <1>2, <1>4, <1>8, TreeAssumption
     DEF Builder!VerifyProof, Builder!MerkleProof
<1>. QED
  BY <1>3, <1>9, <1>10
     DEF ProverAccepts, Presentable, proposal_index

\* In a presentable run every member is enrolled and the multisig finalized,
LEMMA SetupSucceeds ==
  ASSUME DemoIInv, Presentable
  PROVE  /\ Enroll => exit' # 1
         /\ FinalizeMultisig => exit' # 1
<1>0. /\ settings.members \in Nat /\ settings.members <= Builder!MAX_LEAVES
      /\ Builder!MAX_LEAVES \in Nat /\ Builder!MAX_LEAVES <= MaxU32
      /\ MaxU32 \in Nat /\ settings.threshold \in Nat
      /\ members \in Seq(Identity) /\ added \in Seq(Identity)
      /\ Len(members) \in Nat /\ Len(added) \in Nat /\ leaves = added
      /\ \A i \in 1..Len(added) : added[i] = members[i]
      /\ Len(added) <= Len(members)
  <2>1. Builder!MAX_LEAVES \in Nat
    BY TreeAssumption, Tree!MaxLeavesPositive, SameTree
  <2>2. members \in Seq(Identity) /\ added \in Seq(Identity)
    BY DEF DemoIInv, EnrolledInOrder
  <2>3. Len(members) \in Nat /\ Len(added) \in Nat
    BY <2>2, LenProperties
  <2>. QED
    BY <2>1, <2>2, <2>3, TreeAssumption, DefaultsAssumption
       DEF DemoIInv, EnrolledInOrder, ArgumentsTyped, Settings, Presentable
<1>1. ASSUME Enroll PROVE exit' # 1
  <2>1. /\ pc = "setup" /\ exit = None
        /\ Len(members) = settings.members /\ Len(added) < settings.members
    BY <1>1 DEF Enroll, DemoIInv, ArgumentsTyped
  <2>2. Builder!HasRoom
    BY <1>0, <2>1 DEF Builder!HasRoom
  <2>3. Builder!NotYetAdded(members[Len(added) + 1])
    <3>1. ASSUME members[Len(added) + 1] \in Range(added) PROVE FALSE
      <4>1. PICK i \in 1..Len(added) : added[i] = members[Len(added) + 1]
        BY <1>0, <3>1, LenProperties DEF Range
      <4>2. /\ i \in 1..Len(members) /\ Len(added) + 1 \in 1..Len(members)
            /\ members[i] = members[Len(added) + 1]
        BY <1>0, <2>1, <4>1
      <4>3. i = Len(added) + 1
        BY <4>2, DrawnOnce
      <4>. QED
        BY <1>0, <4>1, <4>3
    <3>. QED
      BY <3>1 DEF Builder!NotYetAdded, Builder!Range, Range
  <2>4. exit' = exit
    BY <1>1, <2>2, <2>3 DEF Enroll, Goto
  <2>. QED
    BY <2>1, <2>4, NoneAssumption
<1>2. ASSUME FinalizeMultisig PROVE exit' # 1
  <2>1. exit = None /\ Len(added) = settings.members
    BY <1>2 DEF FinalizeMultisig, DemoIInv, ArgumentsTyped
  <2>2. Builder!Finalizable
    BY <1>0, <2>1 DEF Builder!Finalizable, Presentable, ReachableQuorum
  <2>3. exit' = exit
    BY <1>2, <2>2 DEF FinalizeMultisig, Goto
  <2>. QED
    BY <2>1, <2>3, NoneAssumption
<1>. QED
  BY <1>1, <1>2

\* and every approval is proved and recorded.
LEMMA VotingSucceeds ==
  ASSUME DemoIInv, BuildKnown, Presentable
  PROVE  /\ NewProver => exit' # 1
         /\ Prove => exit' # 1
         /\ Record => exit' # 1
         /\ Replay => exit' # 1
<1>1. ASSUME NewProver PROVE exit' # 1
  <2>1. pc = "voting" /\ pc \in {"voting", "replay"}
    BY <1>1 DEF NewProver
  <2>2. /\ exit = None /\ approvals_recorded + 1 \in 1..Len(members)
    BY <2>1, NextIsEnrolled
  <2>3. ProverAccepts(Current)
    BY <2>1, <2>2, MembersAccepted DEF Current
  <2>4. exit' = exit
    BY <1>1, <2>3 DEF NewProver, Goto
  <2>. QED
    BY <2>2, <2>4, NoneAssumption
<1>2. ASSUME Prove PROVE exit' # 1
  <2>1. pc = "voting" /\ pc \in {"voting", "replay"}
    BY <1>2 DEF Prove
  <2>2. exit = None
    BY <2>1, NextIsEnrolled
  <2>3. ImageMatches
    BY <2>1 DEF ImageMatches, BuildKnown, Presentable
  <2>4. exit' = exit
    BY <1>2, <2>3 DEF Prove, Goto
  <2>. QED
    BY <2>2, <2>4, NoneAssumption
<1>3. ASSUME Record PROVE exit' # 1
  <2>1. /\ pc = "voting" /\ pc \in {"voting", "replay"}
        /\ prover # None /\ prover.receipt # None
    BY <1>3 DEF Record
  <2>2. /\ exit = None /\ approvals_recorded + 1 \in 1..Len(members)
        /\ approvals_recorded \in 0..settings.threshold
        /\ settings.threshold \in 1..Len(members) /\ Len(members) \in Nat
    BY <2>1, NextIsEnrolled
  <2>3. /\ prover.identity = members[approvals_recorded + 1]
        /\ prover.receipt = PublicInputs(prover.identity)
        /\ nullifiers = {NullifierOf(members[i]) : i \in 1..approvals_recorded}
    BY <2>1 DEF DemoIInv, VotedInOrder, Current
  <2>4. NullifierOf(prover.identity) \notin nullifiers
    <3>1. ASSUME NEW i \in 1..approvals_recorded,
                 NullifierOf(prover.identity) = NullifierOf(members[i])
          PROVE  FALSE
      <4>1. i \in 1..Len(members)
            /\ members[i].sk = members[approvals_recorded + 1].sk
        BY <2>2, <2>3, <3>1 DEF NullifierOf
      <4>2. i = approvals_recorded + 1
        BY <2>2, <4>1, DrawnOnce
      <4>. QED
        BY <2>2, <4>2
    <3>. QED
      BY <2>3, <3>1
  <2>5. exit' = exit
    BY <1>3, <2>3, <2>4 DEF Record, Goto
  <2>. QED
    BY <2>2, <2>5, NoneAssumption
<1>4. ASSUME Replay PROVE exit' # 1
  <2>1. pc = "replay" /\ pc \in {"voting", "replay"}
    BY <1>4 DEF Replay
  <2>2. settings.threshold \in 1..Len(members) /\ Len(members) \in Nat
    BY <2>1, NextIsEnrolled
  <2>3. 1 \in 1..Len(members) /\ 1 \in 1..settings.threshold
    BY <2>2
  <2>4. ProverAccepts(members[1])
    BY <2>1, <2>3, MembersAccepted
  <2>5. NullifierOf(members[1]) \in nullifiers
    BY <2>1, <2>3 DEF DemoIInv, VotedInOrder
  <2>. QED
    BY <1>4, <2>4, <2>5 DEF Replay, Exit
<1>. QED
  BY <1>1, <1>2, <1>3, <1>4

\* A step to exit code 1 has a reason in the flags or the build.
LEMMA FailureHasReason ==
  DemoIInv /\ BuildKnown /\ FailuresExplained /\ [Next]_vars
    => FailuresExplained'
<1>. SUFFICES ASSUME DemoIInv, BuildKnown, FailuresExplained, [Next]_vars,
                     exit' = 1, settings'.mode # "testnet", Presentable'
              PROVE  FALSE
  BY DEF FailuresExplained
<1>0. exit # None => pc = "exit"
  BY DEF DemoIInv, ArgumentsTyped
<1>. DEFINE Kept == UNCHANGED <<settings, dev_mode, docker>>
<1>1. Kept => Presentable /\ settings.mode # "testnet"
  BY DEF Presentable, ReachableQuorum
<1>2. CASE ParseFlag
  BY <1>0, <1>2, NoneAssumption DEF ParseFlag
<1>3. CASE ParseEnds
  BY <1>3 DEF ParseEnds, Exit
<1>4. CASE Dispatch
  BY <1>0, <1>1, <1>4, NoneAssumption DEF Dispatch, Exit, Goto, process
<1>5. CASE CheckArguments
  <2>1. ReachableQuorum
    BY <1>5 DEF CheckArguments, Presentable, ReachableQuorum
  <2>. QED
    BY <1>0, <1>5, <2>1, NoneAssumption DEF CheckArguments, Goto
<1>6. CASE Keygen
  BY <1>0, <1>6, NoneAssumption DEF Keygen
<1>7. CASE Enroll
  BY <1>1, <1>7, SetupSucceeds DEF Enroll, process
<1>8. CASE FinalizeMultisig
  BY <1>1, <1>8, SetupSucceeds DEF FinalizeMultisig, process
<1>9. CASE TakeSnapshot
  BY <1>0, <1>9, NoneAssumption DEF TakeSnapshot, Goto
<1>10. CASE NewProver
  BY <1>1, <1>10, VotingSucceeds DEF NewProver, process
<1>11. CASE Prove
  BY <1>1, <1>11, VotingSucceeds DEF Prove, process
<1>12. CASE Record
  BY <1>1, <1>12, VotingSucceeds DEF Record, process
<1>13. CASE Replay
  BY <1>1, <1>13, VotingSucceeds DEF Replay, process
<1>14. CASE UNCHANGED vars
  BY <1>1, <1>14 DEF vars, process, FailuresExplained
<1>. QED
  BY <1>2, <1>3, <1>4, <1>5, <1>6, <1>7, <1>8, <1>9, <1>10, <1>11, <1>12,
     <1>13, <1>14 DEF Next

\* The safety half of ShowableRunsSucceed: whatever the flags, the draws and
\* the depth of the tree, exit code 1 is the fault of the flags or the build.
THEOREM FailuresAlwaysExplained == Spec => []FailuresExplained
<1>1. Init => BuildKnown /\ FailuresExplained
  BY NoneAssumption DEF Init, BuildKnown, FailuresExplained
<1>. QED
  BY <1>1, BuildStaysKnown, FailureHasReason, DemoInvariant, PTL DEF Spec
=============================================================================
