-------------------------- MODULE ApprovalSession --------------------------
(***************************************************************************)
(* The resumable approval session of the SDK and its sled store            *)
(* (sdk/src/session.rs).                                                   *)
(*                                                                         *)
(* Tasks of one client process each hold a copy of a session and call its  *)
(* methods, in any order and with any block numbers: the heights a caller  *)
(* passes may be stale.  Copies go to and from the store whole, under its  *)
(* mutex.  sled acknowledges a write before it is on disk, so a crash      *)
(* falls back to the last state that was flushed.                          *)
(*                                                                         *)
(* A method that returns Err leaves everything as it was and is not a      *)
(* step.  public_inputs and nullifier never change and are identified with *)
(* the key; last_updated and error_message are left out.                   *)
(***************************************************************************)
EXTENDS Naturals

CONSTANTS
  Key,      \* (instance_pda, proposal_id, member_commitment)
  Task,     \* tasks of the client process
  Receipt,  \* receipt bytes
  MaxU64,   \* largest block number (scaled down)
  MaxU32,   \* largest retry_count (scaled down)
  None

Block == 0..MaxU64

SessionStatus ==
  {"Drafted", "Proving", "Proved", "Submitted", "Confirmed", "Failed"}

ApprovalSession ==
  [key : Key, status : SessionStatus, receipt : Receipt \cup {None},
   submission_block : Block \cup {None}, retry_count : 0..MaxU32]

ASSUME SessionWidths == MaxU32 \in Nat /\ MaxU64 \in Nat

ASSUME NoneIsNothing ==
  /\ None \notin Receipt
  /\ None \notin Block
  /\ None \notin ApprovalSession

VARIABLES
  held, \* the session each task has in memory
  tree, \* what the store returns for each key
  disk  \* what of it a crash leaves behind

vars == <<held, tree, disk>>

Init ==
  /\ held = [t \in Task |-> None]
  /\ tree = [k \in Key |-> None]
  /\ disk = [k \in Key |-> None]

-----------------------------------------------------------------------------
(* Methods of ApprovalSession. *)

Holding(t) == held[t] # None

\* Statuses of a session with a cached receipt ready for submission.
HasReceipt == {"Proved", "Submitted", "Confirmed"}

\* ApprovalSession::new into a task that holds nothing.
New(t, k) ==
  /\ ~ Holding(t)
  /\ held' = [held EXCEPT ![t] =
                [key |-> k, status |-> "Drafted", receipt |-> None,
                 submission_block |-> None, retry_count |-> 0]]
  /\ UNCHANGED <<tree, disk>>

\* transition_to's table.
Valid(status, next) ==
  <<status, next>> \in {<<"Drafted", "Proving">>, <<"Proving", "Proved">>,
                        <<"Proved", "Submitted">>, <<"Submitted", "Confirmed">>,
                        <<"Proved", "Proving">>}

\* Faulty: proving again starts from an empty cache.
DiscardReceipt(t) ==
  /\ Holding(t)
  /\ Valid(held[t].status, "Proving")
  /\ held' = [held EXCEPT ![t].status = "Proving", ![t].receipt = None]
  /\ UNCHANGED <<tree, disk>>

MarkProving(t) ==
  /\ Holding(t)
  /\ Valid(held[t].status, "Proving")
  /\ held' = [held EXCEPT ![t].status = "Proving"]
  /\ UNCHANGED <<tree, disk>>

MarkProved(t, receipt) ==
  /\ Holding(t)
  /\ Valid(held[t].status, "Proved")
  /\ held' = [held EXCEPT ![t].status = "Proved", ![t].receipt = receipt]
  /\ UNCHANGED <<tree, disk>>

MarkSubmitted(t, block) ==
  /\ Holding(t)
  /\ Valid(held[t].status, "Submitted")
  /\ held' = [held EXCEPT ![t].status = "Submitted",
                          ![t].submission_block = block]
  /\ UNCHANGED <<tree, disk>>

\* Faulty: the number of the submission is kept.
KeepBlock(s) ==
  [s EXCEPT !.status = "Proved",
            !.retry_count = (@ + 1) % (MaxU32 + 1)]

\* Faulty: the session goes on as Submitted, in no block.
KeepStatus(s) ==
  [s EXCEPT !.submission_block = None,
            !.retry_count = (@ + 1) % (MaxU32 + 1)]

\* retry_count += 1, which wraps in a release build.
Demoted(s) ==
  [s EXCEPT !.status = "Proved", !.submission_block = None,
            !.retry_count = (@ + 1) % (MaxU32 + 1)]

\* What demote_on_reorg takes for a reorganisation.
BelowSubmission(s, current) ==
  /\ s.submission_block # None
  /\ current < s.submission_block

DemoteOnReorg(t, current) ==
  /\ Holding(t)
  /\ BelowSubmission(held[t], current)
  /\ \/ held' = [held EXCEPT ![t] = Demoted(@)]
     \/ /\ held[t].retry_count = MaxU32    \* a debug build panics
        /\ held' = [held EXCEPT ![t] = None]
  /\ UNCHANGED <<tree, disk>>

ForceConfirmUnchecked(t) ==
  /\ Holding(t)
  /\ Valid(held[t].status, "Confirmed")
  /\ held' = [held EXCEPT ![t].status = "Confirmed"]
  /\ UNCHANGED <<tree, disk>>

\* Faulty: the finality buffer is not waited for.
ConfirmAtOnce(t, current, n_blocks) ==
  /\ Holding(t)
  /\ held[t].status = "Submitted"
  /\ held[t].submission_block # None
  /\ held[t].submission_block + n_blocks <= MaxU64
  /\ current >= held[t].submission_block
  /\ held' = [held EXCEPT ![t].status = "Confirmed"]
  /\ UNCHANGED <<tree, disk>>

\* Faulty: one block of the buffer is missing.
ConfirmOneShort(t, current, n_blocks) ==
  /\ Holding(t)
  /\ held[t].status = "Submitted"
  /\ held[t].submission_block # None
  /\ held[t].submission_block + n_blocks <= MaxU64
  /\ current + 1 >= held[t].submission_block + n_blocks
  /\ held' = [held EXCEPT ![t].status = "Confirmed"]
  /\ UNCHANGED <<tree, disk>>

TryConfirm(t, current, n_blocks) ==
  /\ Holding(t)
  /\ held[t].status = "Submitted"
  /\ held[t].submission_block # None
  /\ held[t].submission_block + n_blocks <= MaxU64     \* checked_add
  /\ current >= held[t].submission_block + n_blocks
  /\ held' = [held EXCEPT ![t].status = "Confirmed"]
  /\ UNCHANGED <<tree, disk>>

MarkFailed(t) ==
  /\ Holding(t)
  /\ held' = [held EXCEPT ![t].status = "Failed"]
  /\ UNCHANGED <<tree, disk>>

\* A task lets go of its copy.
Forget(t) ==
  /\ Holding(t)
  /\ held' = [held EXCEPT ![t] = None]
  /\ UNCHANGED <<tree, disk>>

-----------------------------------------------------------------------------
(* SessionStore. *)

Save(t) ==
  /\ Holding(t)
  /\ tree' = [tree EXCEPT ![held[t].key] = held[t]]
  /\ UNCHANGED <<held, disk>>

Load(t, k) ==
  /\ ~ Holding(t)
  /\ tree[k] # None
  /\ held' = [held EXCEPT ![t] = tree[k]]
  /\ UNCHANGED <<tree, disk>>

Delete(k) ==
  /\ tree' = [tree EXCEPT ![k] = None]
  /\ UNCHANGED <<held, disk>>

\* sled's background flush.
Flush ==
  /\ disk' = tree
  /\ UNCHANGED <<held, tree>>

Crash ==
  /\ held' = [t \in Task |-> None]
  /\ tree' = disk
  /\ UNCHANGED disk

Next ==
  \/ \E t \in Task, k \in Key : New(t, k) \/ Load(t, k)
  \/ \E t \in Task : \/ MarkProving(t)
                     \/ ForceConfirmUnchecked(t)
                     \/ MarkFailed(t)
                     \/ Forget(t)
                     \/ Save(t)
  \/ \E t \in Task, receipt \in Receipt : MarkProved(t, receipt)
  \/ \E t \in Task, block \in Block :
       MarkSubmitted(t, block) \/ DemoteOnReorg(t, block)
  \/ \E t \in Task, current \in Block, n_blocks \in Block :
       TryConfirm(t, current, n_blocks)
  \/ \E k \in Key : Delete(k)
  \/ Flush
  \/ Crash

Spec == Init /\ [][Next]_vars
-----------------------------------------------------------------------------

\* Type invariant: what is held, stored or on disk is a session or nothing.
TypeOK ==
  /\ held \in [Task -> ApprovalSession \cup {None}]
  /\ tree \in [Key -> ApprovalSession \cup {None}]
  /\ disk \in [Key -> ApprovalSession \cup {None}]

\* has_receipt and the try_confirm comment on MissingSubmissionBlock: the
\* status of a record can be trusted about its receipt and its block.
Coherent(s) ==
  /\ s.status \in HasReceipt => s.receipt # None
  /\ s.status \in {"Submitted", "Confirmed"} => s.submission_block # None
  /\ s.status \in {"Drafted", "Proving", "Proved"} => s.submission_block = None
  /\ s.submission_block # None => s.receipt # None

Sound(s) == s # None => Coherent(s)

\* Every copy of a session, in memory, in the store and after any crash, is
\* coherent, and is found under its own key.
RecordsCoherent ==
  /\ \A t \in Task : Sound(held[t])
  /\ \A k \in Key : /\ Sound(tree[k]) /\ Sound(disk[k])
                    /\ tree[k] # None => tree[k].key = k
                    /\ disk[k] # None => disk[k].key = k

\* How far a status is along the road to finality.
Progress(status) ==
  CASE status = "Drafted"   -> 0
    [] status = "Proving"   -> 1
    [] status = "Proved"    -> 2
    [] status = "Submitted" -> 3
    [] status = "Confirmed" -> 4
    [] status = "Failed"    -> 5

\* No call takes a session back except the retry from Proved to Proving and
\* the reorg demotion, which retry_count counts; the receipt, once there,
\* survives both (it is what gets broadcast again).
StepBackCounted ==
  \A t \in Task :
    held[t] # None /\ held'[t] # None =>
      /\ held'[t].key = held[t].key
      /\ held[t].receipt # None => held'[t].receipt # None
      /\ \/ Progress(held'[t].status) >= Progress(held[t].status)
         \/ held[t].status = "Proved" /\ held'[t].status = "Proving"
         \/ /\ held'[t].status = "Proved"
            /\ held'[t].retry_count = (held[t].retry_count + 1) % (MaxU32 + 1)

StepsBackAreCounted == [][StepBackCounted]_vars

\* "Failed is terminal": no call takes a session out of Failed.
FailedIsTerminal ==
  [][\A t \in Task :
       held[t] # None /\ held'[t] # None =>
         (held[t].status = "Failed" => held'[t].status = "Failed")]_vars

\* "Crash recovery on next invocation resumes from the last persisted
\* status": a crash loses no acknowledged save.
SavesSurviveCrash == [][Crash => tree' = tree]_vars
=============================================================================
