----------------------- MODULE ApprovalFinalityProofs -----------------------
(***************************************************************************)
(* Proofs about ApprovalFinality for any number of tasks and sessions, any *)
(* length of the chain, any finality buffer, and whatever the driver polls *)
(* and records.                                                            *)
(***************************************************************************)
EXTENDS ApprovalFinality, ApprovalSessionProofs

\* Types of chain and sessions, and coherence of the sessions.
ChainInv == FinalityTypeOK /\ RecordsCoherent

\* Anchored, for a chain that has had `top`.
AnchoredUnder(s, top) ==
  s # None =>
    /\ s.submission_block # None => s.submission_block <= top
    /\ s.status = "Confirmed" => s.submission_block + FinalityBlocks <= top

AllAnchored ==
  /\ \A t \in Task : AnchoredUnder(held[t], tip)
  /\ \A k \in Key : AnchoredUnder(tree[k], tip) /\ AnchoredUnder(disk[k], tip)

\* A height polled by the holder of a Confirmed session is not below it.
PollsReachConfirmed ==
  \A t \in Task \ behind :
    Holding(t) /\ held[t].status = "Confirmed" /\ polled[t] # None =>
      held[t].submission_block <= polled[t]

FInv == ChainInv /\ AllAnchored /\ PollsReachConfirmed

-----------------------------------------------------------------------------
(* Every step is a step of the session, or none; types.                    *)

\* A height a task judges by is a block number, and so is the depth it asks
\* for when it confirms.
LEMMA JudgedHeights ==
  ASSUME ChainInv, NEW t \in Task, JudgeHeight(t)
  PROVE  /\ polled[t] \in Block
         /\ TryConfirm(t, polled[t], FinalityBlocks) =>
              FinalityBlocks \in Block
<1>1. polled[t] \in 0..tip /\ tip \in 0..MaxU64 /\ MaxU64 \in Nat
  BY SessionWidths DEF ChainInv, FinalityTypeOK, JudgeHeight, Block
<1>2. ASSUME TryConfirm(t, polled[t], FinalityBlocks)
      PROVE  FinalityBlocks \in Block
  <2>. DEFINE b == held[t].submission_block
  <2>1. held[t] \in ApprovalSession /\ b # None
    BY <1>2 DEF TryConfirm, Holding, ChainInv, FinalityTypeOK, TypeOK
  <2>2. b \in 0..MaxU64 /\ b + FinalityBlocks <= MaxU64
    BY <1>2, <2>1 DEF TryConfirm, ApprovalSession, Block
  <2>. QED
    BY <1>1, <2>2, FinalityAssumption DEF Block
<1>. QED
  BY <1>1, <1>2 DEF Block

\* Every step of the client is a step of its session and store, or none,
LEMMA ClientStepIsSessionStep ==
  ASSUME ChainInv, NEW t \in Task, ClientStep(t)
  PROVE  [Next]_vars
<1>1. CASE \E k \in Key : Resume(t, k)
  BY <1>1 DEF Resume, Next
<1>2. CASE RunProver(t)
  BY <1>2 DEF RunProver, Next
<1>3. CASE RecordSubmission(t)
  BY <1>3 DEF RecordSubmission, SubmissionBlock, Next
<1>4. CASE JudgeHeight(t)
  <2>1. CASE DemoteOnReorg(t, polled[t])
    BY <1>4, <2>1, JudgedHeights DEF Next
  <2>2. CASE TryConfirm(t, polled[t], FinalityBlocks)
    BY <1>4, <2>2, JudgedHeights DEF Next
  <2>. QED
    BY <1>4, <2>1, <2>2 DEF JudgeHeight
<1>5. CASE Persist(t)
  BY <1>5 DEF Persist, Next
<1>6. CASE Broadcast(t) \/ PollHeight(t)
  BY <1>6 DEF Broadcast, PollHeight
<1>. QED
  BY <1>1, <1>2, <1>3, <1>4, <1>5, <1>6 DEF ClientStep, Advance

\* and so is every step of the client and the chain together.
LEMMA FinalityStepIsSessionStep ==
  ASSUME ChainInv, [FinalityNext]_allVars
  PROVE  [Next]_vars
<1>1. CASE ChainStep
  BY <1>1 DEF ChainStep, IncludeApproval, ProduceBlock, SkipApproval, Reorg
<1>2. CASE FlushStore \/ Die
  BY <1>2 DEF FlushStore, Die, Next
<1>3. CASE UNCHANGED allVars
  BY <1>3 DEF allVars
<1>. QED
  BY <1>1, <1>2, <1>3, ClientStepIsSessionStep DEF FinalityNext

\* What the chain's own types say, apart from the client's copies.
ChainTypeOK ==
  /\ height \in Block /\ tip \in Block
  /\ height <= tip /\ tip <= height + FinalityBlocks
  /\ landed \in (1..height) \cup {None}
  /\ pending \in BOOLEAN
  /\ polled \in [Task -> (0..tip) \cup {None}]
  /\ behind \subseteq Task

\* A new block keeps the heights in their width and the reorganisation depth.
LEMMA GrowKeepsTypes ==
  ASSUME ChainTypeOK, Grow, UNCHANGED polled
  PROVE  /\ height' \in Block /\ tip' \in Block
         /\ height' = height + 1 /\ tip <= tip'
         /\ height' <= tip' /\ tip' <= height' + FinalityBlocks
         /\ polled' \in [Task -> (0..tip') \cup {None}]
<1>1. height \in 0..MaxU64 /\ tip \in 0..MaxU64 /\ height < MaxU64
      /\ MaxU64 \in Nat /\ FinalityBlocks \in Nat
  BY SessionWidths, FinalityAssumption DEF ChainTypeOK, Grow, Block
<1>2. /\ height' = height + 1
      /\ tip' = IF height + 1 > tip THEN height + 1 ELSE tip
      /\ tip <= height + FinalityBlocks
  BY DEF Grow, ChainTypeOK
<1>3. /\ height' \in 0..MaxU64 /\ tip' \in 0..MaxU64 /\ tip <= tip'
      /\ height' <= tip' /\ tip' <= height' + FinalityBlocks
  BY <1>1, <1>2
<1>4. 0..tip \subseteq 0..tip'
  BY <1>1, <1>3
<1>5. polled' \in [Task -> (0..tip') \cup {None}]
  BY <1>4 DEF ChainTypeOK
<1>. QED
  BY <1>2, <1>3, <1>5 DEF Block

\* Every step of the chain keeps the types of the chain.
LEMMA ChainStepKeepsTypes ==
  ASSUME ChainTypeOK, ChainStep
  PROVE  ChainTypeOK'
<1>1. /\ height \in 0..MaxU64 /\ tip \in 0..MaxU64 /\ height <= tip
      /\ MaxU64 \in Nat /\ FinalityBlocks \in Nat
      /\ landed \in (1..height) \cup {None}
  BY SessionWidths, FinalityAssumption DEF ChainTypeOK, Block
<1>2. ASSUME IncludeApproval PROVE ChainTypeOK'
  <2>1. /\ landed' = height + 1 /\ pending' = FALSE /\ Grow
        /\ UNCHANGED <<polled, behind>>
    BY <1>2 DEF IncludeApproval
  <2>2. landed' \in 1..(height + 1)
    BY <1>1, <2>1
  <2>. QED
    BY <2>1, <2>2, GrowKeepsTypes DEF ChainTypeOK
<1>3. ASSUME ProduceBlock PROVE ChainTypeOK'
  <2>1. UNCHANGED <<landed, pending, polled, behind>> /\ Grow
    BY <1>3 DEF ProduceBlock
  <2>2. landed \in (1..(height + 1)) \cup {None}
    BY <1>1
  <2>. QED
    BY <2>1, <2>2, GrowKeepsTypes DEF ChainTypeOK
<1>4. ASSUME SkipApproval PROVE ChainTypeOK'
  BY <1>4 DEF SkipApproval, ChainTypeOK
<1>5. ASSUME NEW to \in Block, Reorg(to) PROVE ChainTypeOK'
  <2>1. /\ height' = to /\ to < height /\ tip <= to + FinalityBlocks
        /\ landed' = IF landed # None /\ to < landed THEN None ELSE landed
        /\ UNCHANGED <<tip, polled, behind>>
    BY <1>5 DEF Reorg
  <2>2. pending' \in BOOLEAN
    BY <1>5 DEF Reorg, ChainTypeOK
  <2>3. landed' \in (1..to) \cup {None}
    BY <1>1, <2>1 DEF Block
  <2>4. to <= tip
    BY <1>1, <2>1 DEF Block
  <2>. QED
    BY <2>1, <2>2, <2>3, <2>4 DEF ChainTypeOK
<1>. QED
  BY <1>2, <1>3, <1>4, <1>5 DEF ChainStep

\* A client changes of the chain only the mempool and the height it polled.
LEMMA ClientStepKeepsTypes ==
  ASSUME ChainTypeOK, NEW t \in Task, ClientStep(t)
  PROVE  ChainTypeOK'
<1>1. CASE \E k \in Key : Resume(t, k)
  BY <1>1 DEF Resume, chainVars, ChainTypeOK
<1>2. CASE RunProver(t)
  BY <1>2 DEF RunProver, chainVars, ChainTypeOK
<1>3. CASE RecordSubmission(t)
  BY <1>3 DEF RecordSubmission, chainVars, ChainTypeOK
<1>4. CASE JudgeHeight(t)
  BY <1>4 DEF JudgeHeight, chainVars, ChainTypeOK
<1>5. CASE Persist(t)
  BY <1>5 DEF Persist, chainVars, ChainTypeOK
<1>6. CASE Broadcast(t)
  BY <1>6 DEF Broadcast, ChainTypeOK
<1>7. CASE PollHeight(t)
  <2>1. height \in 0..tip
    BY SessionWidths DEF ChainTypeOK, Block
  <2>. QED
    BY <1>7, <2>1 DEF PollHeight, chainVars, ChainTypeOK
<1>. QED
  BY <1>1, <1>2, <1>3, <1>4, <1>5, <1>6, <1>7 DEF ClientStep, Advance

\* Types of chain and sessions, and coherence of sessions, are kept by every
\* step,
LEMMA StepKeepsChainInv ==
  ASSUME ChainInv, [FinalityNext]_allVars
  PROVE  ChainInv'
<1>1. ChainTypeOK
  BY DEF ChainInv, FinalityTypeOK, ChainTypeOK
<1>2. ChainTypeOK'
  <2>1. CASE FlushStore
    BY <1>1, <2>1 DEF FlushStore, chainVars, ChainTypeOK
  <2>2. CASE Die
    BY <1>1, <2>2 DEF Die, chainVars, ChainTypeOK
  <2>3. CASE UNCHANGED allVars
    BY <1>1, <2>3 DEF allVars, chainVars, ChainTypeOK
  <2>. QED
    BY <1>1, <2>1, <2>2, <2>3, ChainStepKeepsTypes, ClientStepKeepsTypes
       DEF FinalityNext
<1>3. IInv'
  BY FinalityStepIsSessionStep, StepKeepsIInv
     DEF ChainInv, FinalityTypeOK, IInv
<1>. QED
  BY <1>2, <1>3 DEF ChainInv, FinalityTypeOK, ChainTypeOK, IInv

\* and hold at first.
LEMMA FinalityInitSound == FinalityInit => ChainInv
<1>. SUFFICES ASSUME FinalityInit PROVE ChainInv
  OBVIOUS
<1>1. IInv
  BY InitSound DEF FinalityInit
<1>2. ChainTypeOK
  <2>1. 0 \in Block /\ 0 <= 0 + FinalityBlocks
    BY SessionWidths, FinalityAssumption DEF Block
  <2>2. polled \in [Task -> (0..tip) \cup {None}]
    BY DEF FinalityInit
  <2>3. /\ pending \in BOOLEAN /\ landed \in (1..height) \cup {None}
        /\ behind \subseteq Task
    BY DEF FinalityInit
  <2>4. height <= tip /\ tip <= height + FinalityBlocks
    BY <2>1 DEF FinalityInit
  <2>5. height \in Block /\ tip \in Block
    BY <2>1 DEF FinalityInit
  <2>. QED
    BY <2>2, <2>3, <2>4, <2>5 DEF ChainTypeOK
<1>. QED
  BY <1>1, <1>2 DEF IInv, ChainInv, FinalityTypeOK, ChainTypeOK

\* Whatever the driver and the chain do, every copy stays a coherent session
\* and the chain within its reorganisation window.
THEOREM FinalityTypeCorrect ==
  FinalitySpec => [](FinalityTypeOK /\ RecordsCoherent)
<1>1. ChainInv /\ [FinalityNext]_allVars => ChainInv'
  BY StepKeepsChainInv
<1>. QED
  BY <1>1, FinalityInitSound, PTL DEF FinalitySpec, ChainInv

\* A session driven against the chain is a session: all that is proved of
\* Spec holds of it.
THEOREM FinalityImplementsSession == FinalitySpec => Spec
<1>1. FinalityInit => Init
  BY DEF FinalityInit
<1>2. ChainInv /\ [FinalityNext]_allVars => [Next]_vars
  BY FinalityStepIsSessionStep
<1>. QED
  BY <1>1, <1>2, FinalityTypeCorrect, PTL DEF FinalitySpec, Spec, ChainInv

-----------------------------------------------------------------------------
(* What sessions say of the chain.                                         *)

\* The chain's greatest height never falls, whatever is reverted.
LEMMA TipNeverFalls ==
  ASSUME ChainInv, [FinalityNext]_allVars
  PROVE  tip \in Nat /\ tip' \in Nat /\ tip <= tip'
<1>1. tip \in Nat
  BY SessionWidths DEF ChainInv, FinalityTypeOK, Block
<1>2. CASE UNCHANGED tip
  BY <1>1, <1>2
<1>3. CASE Grow
  BY <1>1, <1>3, SessionWidths
     DEF Grow, ChainInv, FinalityTypeOK, Block
<1>4. UNCHANGED tip \/ Grow
  <2>1. ChainStep => UNCHANGED tip \/ Grow
    BY DEF ChainStep, IncludeApproval, ProduceBlock, SkipApproval, Reorg
  <2>2. ASSUME NEW t \in Task, ClientStep(t) PROVE UNCHANGED tip
    BY <2>2 DEF ClientStep, Advance, Resume, RunProver, Broadcast,
                RecordSubmission, PollHeight, JudgeHeight, Persist, chainVars
  <2>3. FlushStore \/ Die \/ UNCHANGED allVars => UNCHANGED tip
    BY DEF FlushStore, Die, allVars, chainVars
  <2>. QED
    BY <2>1, <2>2, <2>3 DEF FinalityNext
<1>. QED
  BY <1>2, <1>3, <1>4

\* So what was anchored stays anchored.
LEMMA AnchoredUnderHigher ==
  ASSUME NEW low \in Nat, NEW high \in Nat, low <= high,
         NEW s \in ApprovalSession \cup {None}, Sound(s),
         AnchoredUnder(s, low)
  PROVE  AnchoredUnder(s, high)
<1>. SUFFICES ASSUME s # None PROVE AnchoredUnder(s, high)
  BY DEF AnchoredUnder
<1>. DEFINE b == s.submission_block
<1>1. b # None => b \in Nat
  BY SessionWidths DEF ApprovalSession, Block
<1>2. s.status = "Confirmed" => b # None
  BY DEF Sound, Coherent
<1>3. b # None => b <= high
  BY <1>1 DEF AnchoredUnder
<1>4. s.status = "Confirmed" => b + FinalityBlocks <= high
  BY <1>1, <1>2, FinalityAssumption DEF AnchoredUnder
<1>. QED
  BY <1>3, <1>4 DEF AnchoredUnder

\* A session that names no block is anchored.
LEMMA UnsentIsAnchored ==
  ASSUME NEW s, NEW top, s.submission_block = None, s.status # "Confirmed"
  PROVE  AnchoredUnder(s, top)
BY DEF AnchoredUnder

\* What a step of the client leaves in its task's hands is anchored.
LEMMA ClientTakesAnchored ==
  ASSUME FInv, NEW t \in Task, ClientStep(t)
  PROVE  AnchoredUnder(held'[t], tip)
<1>. DEFINE s == held[t]
<1>1. /\ held \in [Task -> ApprovalSession \cup {None}]
      /\ tip \in Nat /\ FinalityBlocks \in Nat
      /\ polled[t] \in (0..tip) \cup {None}
      /\ landed # None => landed \in 1..height /\ height \in Nat /\ height <= tip
  BY SessionWidths, FinalityAssumption
     DEF FInv, ChainInv, FinalityTypeOK, TypeOK, Block
<1>2. Holding(t) => s \in ApprovalSession /\ Coherent(s)
  BY <1>1 DEF Holding, FInv, ChainInv, RecordsCoherent, Sound
<1>3. AnchoredUnder(s, tip)
  BY DEF FInv, AllAnchored
<1>4. ASSUME NEW k \in Key, Resume(t, k) PROVE AnchoredUnder(held'[t], tip)
  <2>1. CASE New(t, k)
    BY <1>1, <2>1, UnsentIsAnchored DEF New
  <2>2. CASE Load(t, k)
    BY <1>1, <2>2 DEF Load, FInv, AllAnchored
  <2>. QED
    BY <1>4, <2>1, <2>2 DEF Resume
<1>5. CASE RunProver(t)
  <2>1. s.submission_block = None /\ s \in ApprovalSession
    BY <1>2, <1>5 DEF RunProver, CanReprove, Coherent
  <2>2. /\ held'[t].submission_block = None
        /\ held'[t].status \in {"Proving", "Proved"}
    BY <1>1, <1>5, <2>1
       DEF RunProver, MarkProving, MarkProved, ApprovalSession
  <2>. QED
    BY <2>2, UnsentIsAnchored
<1>6. CASE RecordSubmission(t)
  <2>1. PICK block \in SubmissionBlock(t) : MarkSubmitted(t, block)
    BY <1>6 DEF RecordSubmission
  <2>2. block <= tip
    <3>1. block \in Nat /\ (block = polled[t] \/ block = landed)
      BY <2>1, SessionWidths DEF SubmissionBlock, Block
    <3>2. block # None
      BY NoneIsNothing DEF SubmissionBlock
    <3>. QED
      BY <1>1, <3>1, <3>2
  <2>3. held'[t].submission_block = block /\ held'[t].status = "Submitted"
    BY <1>1, <1>2, <2>1 DEF MarkSubmitted, ApprovalSession
  <2>. QED
    BY <2>2, <2>3 DEF AnchoredUnder
<1>7. CASE JudgeHeight(t)
  <2>1. CASE DemoteOnReorg(t, polled[t])
    <3>1. CASE held'[t] = None
      BY <3>1 DEF AnchoredUnder
    <3>2. CASE held'[t] = Demoted(s)
      BY <1>2, <2>1, <3>2, UnsentIsAnchored
         DEF DemoteOnReorg, Demoted, ApprovalSession
    <3>. QED
      BY <1>1, <2>1, <3>1, <3>2 DEF DemoteOnReorg
  <2>2. CASE TryConfirm(t, polled[t], FinalityBlocks)
    <3>. DEFINE b == s.submission_block
    <3>1. s \in ApprovalSession /\ b \in Nat
      BY <1>2, <2>2, SessionWidths DEF TryConfirm, ApprovalSession, Block
    <3>2. held'[t].submission_block = b
      BY <1>1, <2>2, <3>1 DEF TryConfirm, ApprovalSession
    <3>3. polled[t] \in 0..tip /\ polled[t] >= b + FinalityBlocks
      BY <1>1, <1>7, <2>2 DEF JudgeHeight, TryConfirm
    <3>4. b <= tip /\ b + FinalityBlocks <= tip
      BY <1>1, <3>1, <3>3
    <3>. QED
      BY <3>2, <3>4 DEF AnchoredUnder
  <2>. QED
    BY <1>7, <2>1, <2>2 DEF JudgeHeight
<1>8. CASE Broadcast(t) \/ PollHeight(t) \/ Persist(t)
  BY <1>3, <1>8 DEF Broadcast, PollHeight, Persist, Save, vars
<1>. QED
  BY <1>4, <1>5, <1>6, <1>7, <1>8 DEF ClientStep, Advance

\* A step of one task leaves the others' hands alone,
LEMMA OthersKeepTheirs ==
  ASSUME TypeOK, NEW t \in Task, ClientStep(t), NEW u \in Task, u # t
  PROVE  held'[u] = held[u]
BY DEF TypeOK, ClientStep, Advance, Resume, RunProver, Broadcast,
       RecordSubmission, PollHeight, JudgeHeight, Persist, New, Load,
       MarkProving, MarkProved, MarkSubmitted, DemoteOnReorg, TryConfirm, Save,
       vars

\* and no step stores anything but what a task holds or the store had.
LEMMA StoresWhatIsHeld ==
  ASSUME TypeOK, FinalityNext, NEW k \in Key
  PROVE  /\ disk'[k] \in {disk[k], tree[k]}
         /\ tree'[k] \in {tree[k], disk[k]} \cup {held[t] : t \in Task}
<1>1. CASE ChainStep
  BY <1>1 DEF ChainStep, IncludeApproval, ProduceBlock, SkipApproval, Reorg, vars
<1>2. CASE FlushStore \/ Die
  BY <1>2 DEF FlushStore, Die, Flush, Crash
<1>3. ASSUME NEW t \in Task, ClientStep(t), ~ Persist(t)
      PROVE  UNCHANGED <<tree, disk>>
  BY <1>3 DEF ClientStep, Advance, Resume, RunProver, Broadcast,
              RecordSubmission, PollHeight, JudgeHeight, New, Load,
              MarkProving, MarkProved, MarkSubmitted, DemoteOnReorg,
              TryConfirm, vars
<1>4. ASSUME NEW t \in Task, Persist(t)
      PROVE  /\ disk'[k] = disk[k]
             /\ tree'[k] \in {tree[k], held[t]}
  BY <1>4 DEF Persist, Save, TypeOK
<1>. QED
  BY <1>1, <1>2, <1>3, <1>4 DEF FinalityNext

\* Every copy stays anchored, whatever any task and the chain do.
LEMMA StepKeepsAnchors ==
  ASSUME FInv, [FinalityNext]_allVars
  PROVE  AllAnchored'
<1>1. TypeOK /\ RecordsCoherent /\ tip \in Nat /\ tip' \in Nat /\ tip <= tip'
      /\ TypeOK' /\ RecordsCoherent'
  BY TipNeverFalls, StepKeepsChainInv DEF FInv, ChainInv, FinalityTypeOK
<1>2. /\ \A t \in Task : AnchoredUnder(held'[t], tip)
      /\ \A k \in Key : /\ AnchoredUnder(tree'[k], tip)
                        /\ AnchoredUnder(disk'[k], tip)
  <2>1. CASE UNCHANGED allVars
    BY <2>1 DEF allVars, vars, FInv, AllAnchored
  <2>2. CASE FinalityNext
    <3>1. ASSUME NEW k \in Key
          PROVE  AnchoredUnder(tree'[k], tip) /\ AnchoredUnder(disk'[k], tip)
      BY <1>1, <2>2, StoresWhatIsHeld DEF FInv, AllAnchored
    <3>2. ASSUME NEW t \in Task PROVE AnchoredUnder(held'[t], tip)
      <4>1. CASE ChainStep \/ FlushStore
        BY <4>1 DEF ChainStep, IncludeApproval, ProduceBlock, SkipApproval,
                    Reorg, FlushStore, Flush, vars, FInv, AllAnchored
      <4>2. CASE Die
        BY <4>2 DEF Die, Crash, AnchoredUnder
      <4>3. CASE ClientStep(t)
        BY <4>3, ClientTakesAnchored
      <4>4. ASSUME NEW u \in Task, ClientStep(u), u # t
            PROVE  AnchoredUnder(held'[t], tip)
        BY <1>1, <4>4, OthersKeepTheirs DEF FInv, AllAnchored
      <4>. QED
        BY <2>2, <4>1, <4>2, <4>3, <4>4 DEF FinalityNext
    <3>. QED
      BY <3>1, <3>2
  <2>. QED
    BY <2>1, <2>2
<1>3. /\ \A t \in Task : held'[t] \in ApprovalSession \cup {None} /\ Sound(held'[t])
      /\ \A k \in Key : /\ tree'[k] \in ApprovalSession \cup {None}
                        /\ disk'[k] \in ApprovalSession \cup {None}
                        /\ Sound(tree'[k]) /\ Sound(disk'[k])
  BY <1>1 DEF TypeOK, RecordsCoherent, Sound, Coherent
<1>. QED
  BY <1>1, <1>2, <1>3, AnchoredUnderHigher DEF AllAnchored, AnchoredUnder

\* A Confirmed session names a block that no reorganisation reaches.
LEMMA ConfirmedIsBuried ==
  ASSUME FInv, NEW t \in Task, Holding(t), held[t].status = "Confirmed"
  PROVE  held[t].submission_block \in Nat /\ held[t].submission_block <= height
<1>. DEFINE b == held[t].submission_block
<1>1. held[t] \in ApprovalSession /\ Coherent(held[t])
  BY DEF Holding, FInv, ChainInv, FinalityTypeOK, TypeOK, RecordsCoherent, Sound
<1>2. b \in Nat
  BY <1>1, SessionWidths DEF Coherent, ApprovalSession, Block
<1>3. b + FinalityBlocks <= tip
  BY DEF Holding, FInv, AllAnchored, AnchoredUnder
<1>4. height \in Nat /\ tip \in Nat /\ tip <= height + FinalityBlocks
  BY SessionWidths DEF FInv, ChainInv, FinalityTypeOK, Block
<1>. QED
  BY <1>2, <1>3, <1>4, FinalityAssumption

\* A task with a height from after its copy was taken keeps it no lower than
\* the block of a Confirmed session.
LEMMA StepKeepsPolls ==
  ASSUME FInv, [FinalityNext]_allVars
  PROVE  PollsReachConfirmed'
<1>1. /\ TypeOK
      /\ polled \in [Task -> (0..tip) \cup {None}]
  BY DEF FInv, ChainInv, FinalityTypeOK
<1>2. CASE ChainStep \/ FlushStore \/ UNCHANGED allVars
  <2>1. UNCHANGED <<held, polled, behind>>
    BY <1>2 DEF ChainStep, IncludeApproval, ProduceBlock, SkipApproval, Reorg,
                FlushStore, Flush, allVars, vars
  <2>. QED
    BY <2>1 DEF FInv, PollsReachConfirmed, Holding
<1>3. CASE Die
  BY <1>3 DEF Die, Crash, PollsReachConfirmed, Holding
<1>4. ASSUME NEW t \in Task, ClientStep(t) PROVE PollsReachConfirmed'
  <2>. DEFINE Reached ==
         Holding(t) /\ held[t].status = "Confirmed" /\ polled[t] # None =>
           held[t].submission_block <= polled[t]
  <2>1. ASSUME NEW u \in Task, u # t
        PROVE  /\ held'[u] = held[u] /\ polled'[u] = polled[u]
               /\ u \in behind' <=> u \in behind
    <3>1. held'[u] = held[u]
      BY <1>1, <1>4, <2>1, OthersKeepTheirs
    <3>2. polled'[u] = polled[u] /\ (u \in behind' <=> u \in behind)
      BY <1>1, <1>4, <2>1
         DEF ClientStep, Advance, Resume, RunProver, Broadcast,
             RecordSubmission, PollHeight, JudgeHeight, Persist
    <3>. QED
      BY <3>1, <3>2
  <2>2. t \notin behind' => Reached'
    <3>1. CASE \E k \in Key : Resume(t, k)
      BY <3>1 DEF Resume
    <3>2. CASE RunProver(t)
      <4>1. held'[t].status # "Confirmed"
        BY <1>1, <3>2 DEF RunProver, MarkProving, MarkProved, TypeOK, Holding,
                          ApprovalSession
      <4>. QED
        BY <4>1
    <3>3. CASE RecordSubmission(t)
      <4>1. held'[t].status # "Confirmed"
        BY <1>1, <3>3 DEF RecordSubmission, MarkSubmitted, TypeOK, Holding,
                          ApprovalSession
      <4>. QED
        BY <4>1
    <3>4. CASE JudgeHeight(t)
      <4>1. polled' = polled /\ polled[t] # None
        BY <3>4 DEF JudgeHeight
      <4>2. CASE DemoteOnReorg(t, polled[t])
        BY <1>1, <4>2 DEF DemoteOnReorg, Demoted, TypeOK, Holding,
                          ApprovalSession
      <4>3. CASE TryConfirm(t, polled[t], FinalityBlocks)
        <5>. DEFINE b == held[t].submission_block
        <5>1. held[t] \in ApprovalSession /\ b \in Nat
          BY <1>1, <4>3, SessionWidths
             DEF TryConfirm, TypeOK, Holding, ApprovalSession, Block
        <5>2. held'[t].submission_block = b
          BY <1>1, <4>3, <5>1 DEF TryConfirm, TypeOK, ApprovalSession
        <5>3. polled[t] \in Nat /\ polled[t] >= b + FinalityBlocks
          BY <1>1, <4>1, <4>3 DEF TryConfirm
        <5>. QED
          BY <4>1, <5>1, <5>2, <5>3, FinalityAssumption
      <4>. QED
        BY <3>4, <4>2, <4>3 DEF JudgeHeight
    <3>5. CASE PollHeight(t)
      <4>1. held' = held /\ polled'[t] = height
        BY <1>1, <3>5 DEF PollHeight, vars
      <4>. QED
        BY <4>1, ConfirmedIsBuried DEF Holding
    <3>6. CASE Broadcast(t) \/ Persist(t)
      BY <3>6 DEF Broadcast, Persist, Save, vars, FInv, PollsReachConfirmed,
                  Holding
    <3>. QED
      BY <1>4, <3>1, <3>2, <3>3, <3>4, <3>5, <3>6 DEF ClientStep, Advance
  <2>3. ASSUME NEW u \in Task, u # t, u \notin behind'
        PROVE  (Holding(u) /\ held[u].status = "Confirmed" /\ polled[u] # None =>
                  held[u].submission_block <= polled[u])'
    BY <2>1, <2>3 DEF FInv, PollsReachConfirmed, Holding
  <2>. QED
    BY <2>2, <2>3 DEF PollsReachConfirmed
<1>. QED
  BY <1>2, <1>3, <1>4 DEF FinalityNext

\* The invariant is kept by every step,
LEMMA StepKeepsFInv ==
  ASSUME FInv, [FinalityNext]_allVars
  PROVE  FInv'
BY StepKeepsChainInv, StepKeepsAnchors, StepKeepsPolls DEF FInv

\* and so holds in every state.
LEMMA FInvHolds == FinalitySpec => []FInv
<1>1. FinalityInit => FInv
  <2>1. FinalityInit => ChainInv
    BY FinalityInitSound
  <2>2. FinalityInit => AllAnchored /\ PollsReachConfirmed
    BY DEF FinalityInit, Init, AllAnchored, AnchoredUnder,
           PollsReachConfirmed, Holding
  <2>. QED
    BY <2>1, <2>2 DEF FInv
<1>2. FInv /\ [FinalityNext]_allVars => FInv'
  BY StepKeepsFInv
<1>. QED
  BY <1>1, <1>2, PTL DEF FinalitySpec

\* What FInv says of tasks and stores, FinalityIInv says of the copies.
LEMMA FInvIsFinalityIInv == FInv => FinalityIInv
<1>. SUFFICES ASSUME FInv PROVE FinalityIInv
  OBVIOUS
<1>1. ASSUME NEW s \in Copies, s # None PROVE Coherent(s) /\ Anchored(s)
  <2>1. Sound(s) /\ AnchoredUnder(s, tip)
    BY DEF FInv, ChainInv, RecordsCoherent, AllAnchored, Copies
  <2>. QED
    BY <1>1, <2>1 DEF Sound, AnchoredUnder, Anchored
<1>. QED
  BY <1>1 DEF FInv, ChainInv, PollsReachConfirmed, FinalityIInv

\* No copy names a block the chain has not had, and a Confirmed one names a
\* block too deep to be reverted: through every send, skip, inclusion,
\* reorganisation, stale height, save and crash, and whichever block numbers
\* the driver records.
THEOREM RecordsStayAnchored == FinalitySpec => []FinalityIInv
BY FInvHolds, FInvIsFinalityIInv, PTL

\* An approval in the chain no later than the block a Confirmed copy names is
\* there for good: the part of "approval is irreversible" (session.rs:64) that
\* block numbers alone can give.
THEOREM ConfirmedIsIrreversible == FinalitySpec => ConfirmedVotesStay
<1>1. ASSUME FInv, FinalityNext PROVE FinalUnderConfirmed
  <2>. SUFFICES ASSUME NEW s \in Copies, s # None, s.status = "Confirmed",
                       landed # None, landed <= s.submission_block
                PROVE  landed' = landed
    BY DEF FinalUnderConfirmed
  <2>1. FinalityIInv
    BY <1>1, FInvIsFinalityIInv
  <2>2. landed + FinalityBlocks <= tip /\ landed \in Nat /\ tip \in Nat
    <3>1. landed \in Nat /\ tip \in Nat
      BY <2>1, SessionWidths DEF FinalityIInv, FinalityTypeOK, Block
    <3>2. s \in ApprovalSession /\ Coherent(s) /\ Anchored(s)
      BY <2>1 DEF FinalityIInv, FinalityTypeOK, TypeOK, Copies
    <3>3. s.submission_block \in Nat
      BY <3>2, SessionWidths DEF Coherent, ApprovalSession, Block
    <3>. QED
      BY <3>1, <3>2, <3>3, FinalityAssumption DEF Anchored
  <2>3. ASSUME NEW to \in Block, Reorg(to) PROVE landed' = landed
    <3>1. to \in Nat /\ tip <= to + FinalityBlocks
      BY <2>3, SessionWidths DEF Reorg, Block
    <3>2. ~ (to < landed)
      BY <2>2, <3>1, FinalityAssumption
    <3>. QED
      BY <2>3, <3>2 DEF Reorg
  <2>4. CASE ChainStep
    BY <2>3, <2>4 DEF ChainStep, IncludeApproval, ProduceBlock, SkipApproval
  <2>5. ASSUME NEW t \in Task, ClientStep(t) PROVE landed' = landed
    BY <2>5 DEF ClientStep, Advance, Resume, RunProver, Broadcast,
                RecordSubmission, PollHeight, JudgeHeight, Persist, chainVars
  <2>6. CASE FlushStore \/ Die
    BY <2>6 DEF FlushStore, Die, chainVars
  <2>. QED
    BY <1>1, <2>4, <2>5, <2>6 DEF FinalityNext
<1>2. FInv /\ [FinalityNext]_allVars => [FinalUnderConfirmed]_allVars
  BY <1>1
<1>. QED
  BY <1>2, FInvHolds, PTL DEF FinalitySpec, ConfirmedVotesStay

\* A task whose height is from after it took its copy never takes that copy
\* out of Confirmed, however late it judges the height and whatever was
\* reverted since.
THEOREM LaterPollsNeverDemote == FinalitySpec => ConfirmedStays
<1>1. ASSUME FInv, FinalityNext PROVE StaysConfirmed
  <2>. SUFFICES ASSUME NEW t \in Task, t \notin behind, held[t] # None,
                       held'[t] # None, held[t].status = "Confirmed"
                PROVE  held'[t].status = "Confirmed"
    BY DEF StaysConfirmed
  <2>1. /\ TypeOK /\ held \in [Task -> ApprovalSession \cup {None}]
        /\ held[t] \in ApprovalSession
    BY <1>1 DEF FInv, ChainInv, FinalityTypeOK, TypeOK
  <2>2. ASSUME NEW u \in Task, ClientStep(u), u # t
        PROVE  held'[t] = held[t]
    BY <2>1, <2>2, OthersKeepTheirs
  <2>3. CASE ClientStep(t)
    <3>1. ~ RunProver(t) /\ ~ RecordSubmission(t)
      BY <2>1 DEF RunProver, CanReprove, RecordSubmission, MarkSubmitted, Valid
    <3>2. \A k \in Key : ~ Resume(t, k)
      BY <2>1 DEF Resume, New, Load, Holding
    <3>3. ~ DemoteOnReorg(t, polled[t]) \/ polled[t] = None
      <4>. SUFFICES ASSUME DemoteOnReorg(t, polled[t]), polled[t] # None
                    PROVE  FALSE
        OBVIOUS
      <4>. DEFINE b == held[t].submission_block
      <4>1. b \in Nat /\ polled[t] \in Nat /\ polled[t] < b
        BY <1>1, <2>1, SessionWidths
           DEF DemoteOnReorg, BelowSubmission, ApprovalSession, Block, FInv,
               ChainInv, FinalityTypeOK
      <4>2. b <= polled[t]
        BY <1>1 DEF FInv, PollsReachConfirmed, Holding
      <4>. QED
        BY <4>1, <4>2
    <3>4. ~ TryConfirm(t, polled[t], FinalityBlocks)
      BY DEF TryConfirm
    <3>5. CASE Broadcast(t) \/ PollHeight(t) \/ Persist(t)
      BY <3>5 DEF Broadcast, PollHeight, Persist, Save, vars
    <3>. QED
      BY <2>3, <3>1, <3>2, <3>3, <3>4, <3>5
         DEF ClientStep, Advance, JudgeHeight
  <2>4. ~ Die
    BY DEF Die, Crash
  <2>5. CASE ChainStep \/ FlushStore
    BY <2>5 DEF ChainStep, IncludeApproval, ProduceBlock, SkipApproval, Reorg,
                FlushStore, Flush, vars
  <2>. QED
    BY <1>1, <2>2, <2>3, <2>4, <2>5 DEF FinalityNext
<1>2. FInv /\ [FinalityNext]_allVars => [StaysConfirmed]_allVars
  BY <1>1
<1>. QED
  BY <1>2, FInvHolds, PTL DEF FinalitySpec, ConfirmedStays
=============================================================================
