-------------------------- MODULE ApprovalFinality --------------------------
(***************************************************************************)
(* An approval session (ApprovalSession) against the chain it is for: the  *)
(* approval waits in the mempool, is included or skipped at block          *)
(* production, and blocks at the tip are reverted by reorganisations.      *)
(* Tasks of the client poll the height, call the session's methods with    *)
(* what they polled, and share the store; the client dies and resumes.     *)
(*                                                                         *)
(* The repository has the session but no program that drives it.  The      *)
(* driver here calls its methods in the order the comments of session.rs   *)
(* give; nothing makes it poll before it judges, see a reorganisation, or  *)
(* learn whether the approval was included.  All broadcasts are of the one *)
(* receipt and so of the one nullifier, which the verifier accepts once:   *)
(* of the chain it matters only which block, if any, holds the approval.   *)
(***************************************************************************)
EXTENDS ApprovalSession

CONSTANTS
  FinalityBlocks, \* n_blocks of try_confirm, and the deepest revert
  RecordedBlock   \* what the driver passes to mark_submitted: the "height" it
                  \* knows, the block of the "inclusion", or either

ASSUME FinalityAssumption ==
  /\ FinalityBlocks \in Nat
  /\ RecordedBlock \subseteq {"height", "inclusion"}

VARIABLES
  height,  \* of the chain now
  tip,     \* the greatest height the chain has had
  landed,  \* the block that holds the approval, or None
  pending, \* is it in the mempool?
  polled,  \* the height each task polled last, or None
  behind   \* history: the tasks whose last poll is from before their copy

chainVars == <<height, tip, landed, pending>>

allVars == <<vars, chainVars, polled, behind>>

FinalityInit ==
  /\ Init
  /\ height = 0 /\ tip = 0
  /\ landed = None
  /\ pending = FALSE
  /\ polled = [t \in Task |-> None]
  /\ behind = {}

-----------------------------------------------------------------------------
(* The chain. *)

Grow ==
  /\ height < MaxU64
  /\ height' = height + 1
  /\ tip' = IF height + 1 > tip THEN height + 1 ELSE tip

\* The nullifier account is created with the vote.
IncludeApproval ==
  /\ Grow
  /\ pending
  /\ landed = None
  /\ landed' = height + 1
  /\ pending' = FALSE
  /\ UNCHANGED <<vars, polled, behind>>

\* A block without it.
ProduceBlock ==
  /\ Grow
  /\ UNCHANGED <<vars, landed, pending, polled, behind>>

\* The approval leaves the mempool unincluded: it failed its execution check
\* or was dropped.
SkipApproval ==
  /\ pending
  /\ pending' = FALSE
  /\ UNCHANGED <<vars, height, tip, landed, polled, behind>>

\* Blocks above `to` are reverted, none of them FinalityBlocks below a tip.
\* What they held goes back to the mempool or is lost.
Reorg(to) ==
  /\ to < height
  /\ tip <= to + FinalityBlocks
  /\ height' = to
  /\ LET dropped == landed # None /\ to < landed
     IN /\ landed' = IF dropped THEN None ELSE landed
        /\ \/ pending' = pending
           \/ dropped /\ pending' = TRUE
  /\ UNCHANGED <<vars, tip, polled, behind>>

-----------------------------------------------------------------------------
(* The client. *)

\* SessionStatus::can_reprove
CanReprove(s) == s.status \in {"Drafted", "Proving"}

\* SessionStatus::can_resubmit
CanResubmit(s) == s.status \in {"Proved", "Submitted"}

\* A new session, or the stored one.  What the task polled, it goes on with.
Resume(t, k) ==
  /\ \/ tree[k] = None /\ New(t, k)
     \/ Load(t, k)
  /\ behind' = behind \cup {t}
  /\ UNCHANGED <<chainVars, polled>>

\* ApprovalProver::prove, entered again where a crash left off.
RunProver(t) ==
  /\ Holding(t)
  /\ CanReprove(held[t])
  /\ MarkProving(t) \/ \E receipt \in Receipt : MarkProved(t, receipt)
  /\ UNCHANGED <<chainVars, polled, behind>>

\* The cached receipt is sent, or sent again.
Broadcast(t) ==
  /\ Holding(t)
  /\ CanResubmit(held[t])
  /\ pending' = TRUE
  /\ UNCHANGED <<vars, height, tip, landed, polled, behind>>

\* The block number a submission is recorded under.  mark_submitted asks for
\* no proof that anything was sent.
SubmissionBlock(t) ==
  {block \in Block :
     \/ "height" \in RecordedBlock /\ block = polled[t]
     \/ "inclusion" \in RecordedBlock /\ block = landed}

RecordSubmission(t) ==
  /\ \E block \in SubmissionBlock(t) : MarkSubmitted(t, block)
  /\ UNCHANGED <<chainVars, polled, behind>>

PollHeight(t) ==
  /\ polled' = [polled EXCEPT ![t] = height]
  /\ behind' = behind \ {t}
  /\ UNCHANGED <<vars, chainVars>>

\* With the height polled, which the chain may have left since, and which may
\* be older than the copy it is held against.
JudgeHeight(t) ==
  /\ polled[t] # None
  /\ DemoteOnReorg(t, polled[t]) \/ TryConfirm(t, polled[t], FinalityBlocks)
  /\ UNCHANGED <<chainVars, polled, behind>>

\* save, with sled's flush soon after or later.
Persist(t) ==
  /\ Save(t)
  /\ UNCHANGED <<chainVars, polled, behind>>

FlushStore ==
  /\ Flush
  /\ UNCHANGED <<chainVars, polled, behind>>

Die ==
  /\ Crash
  /\ polled' = [t \in Task |-> None]
  /\ behind' = {}
  /\ UNCHANGED chainVars

\* The step that the task's session is waiting for.
Advance(t) ==
  \/ \E k \in Key : Resume(t, k)
  \/ RunProver(t)
  \/ RecordSubmission(t)
  \/ JudgeHeight(t)

ClientStep(t) ==
  \/ Advance(t)
  \/ Broadcast(t)
  \/ PollHeight(t)
  \/ Persist(t)

ChainStep ==
  \/ IncludeApproval
  \/ ProduceBlock
  \/ SkipApproval
  \/ \E to \in Block : Reorg(to)

FinalityNext ==
  \/ ChainStep
  \/ \E t \in Task : ClientStep(t)
  \/ FlushStore
  \/ Die

FinalitySpec == FinalityInit /\ [][FinalityNext]_allVars

\* The client keeps at it and blocks are produced; the client finally stays
\* up and the chain finally only grows.  Nothing is asked of sending, saving
\* or flushing.
FinalityFairness ==
  /\ \A t \in Task :
       /\ WF_allVars(Advance(t))
       /\ WF_allVars(PollHeight(t))
  /\ WF_allVars(IncludeApproval \/ ProduceBlock)
  /\ <>[][~ Die /\ \A to \in Block : ~ Reorg(to)]_allVars

FairFinalitySpec == FinalitySpec /\ FinalityFairness
-----------------------------------------------------------------------------

\* Every copy from which the client may go on, now or after a crash.
Copies == {held[t] : t \in Task} \cup {tree[k] : k \in Key}
                                 \cup {disk[k] : k \in Key}

\* Type invariant, with what a chain is: a block that holds the approval is
\* no higher than the chain, which reorganisations leave within
\* FinalityBlocks of its tip.
FinalityTypeOK ==
  /\ TypeOK
  /\ height \in Block /\ tip \in Block
  /\ height <= tip /\ tip <= height + FinalityBlocks
  /\ landed \in (1..height) \cup {None}
  /\ pending \in BOOLEAN
  /\ polled \in [Task -> (0..tip) \cup {None}]
  /\ behind \subseteq Task

\* "Chain reached N-block finality; approval is irreversible" (session.rs:64):
\* while any copy of the session, in memory, in the store or on disk, says
\* Confirmed, the approval is on the chain.
ConfirmedIsOnChain ==
  \A s \in Copies \ {None} : s.status = "Confirmed" => landed # None

\* What Confirmed is worth of that, whatever the driver records, polls or
\* misses: an approval included no later than the block its session recorded
\* is never undone once any copy, in memory, stored or left by a crash, says
\* Confirmed.
FinalUnderConfirmed ==
  \A s \in Copies \ {None} :
    s.status = "Confirmed" /\ landed # None /\ landed <= s.submission_block =>
      landed' = landed

ConfirmedVotesStay == [][FinalUnderConfirmed]_allVars

\* A task that polls after it took its copy never takes it out of Confirmed,
\* however the chain was reorganised and however late it uses the height.
\* (demote_on_reorg does not look at the status: with a height from before it
\* would.)
StaysConfirmed ==
  \A t \in Task \ behind :
    held[t] # None /\ held'[t] # None /\ held[t].status = "Confirmed" =>
      held'[t].status = "Confirmed"

ConfirmedStays == [][StaysConfirmed]_allVars

\* A submission recorded too late for this model's last block to bury it.
OutOfBlocks(s) ==
  s.submission_block # None /\ s.submission_block + FinalityBlocks > MaxU64

\* An approval that stays on the chain is in the end Confirmed for every
\* task, whatever was reverted, demoted and sent again before, wherever
\* between sending, recording and saving the client died, and though what it
\* sends again after that is skipped, its nullifier being spent.
LandedIsConfirmed ==
  landed # None ~>
    \/ landed = None
    \/ \A t \in Task :
         Holding(t) /\ (held[t].status = "Confirmed" \/ OutOfBlocks(held[t]))

\* The block a session recorded, against the chain.
Anchored(s) ==
  /\ s.submission_block # None => s.submission_block <= tip
  /\ s.status = "Confirmed" => s.submission_block + FinalityBlocks <= tip

\* The inductive invariant: no copy names a block the chain has not had, and
\* a Confirmed one names a block too deep to be reverted, below every height
\* its task polled since it took the copy.
FinalityIInv ==
  /\ FinalityTypeOK
  /\ \A s \in Copies \ {None} : Coherent(s) /\ Anchored(s)
  /\ \A t \in Task \ behind :
       Holding(t) /\ held[t].status = "Confirmed" /\ polled[t] # None =>
         held[t].submission_block <= polled[t]
=============================================================================
