----------------------- MODULE ApprovalSessionProofs -----------------------
(***************************************************************************)
(* Proofs about ApprovalSession for any number of tasks, sessions and      *)
(* receipts and any integer width.                                         *)
(***************************************************************************)
EXTENDS ApprovalSession, TLAPS

\* What a method call, a new session or a forgotten one leaves in the hands
\* of one task.
Retake(t, s) ==
  /\ held' = [held EXCEPT ![t] = s]
  /\ UNCHANGED <<tree, disk>>

IInv == TypeOK /\ RecordsCoherent

\* The steps one task can take.
TaskStep(t) ==
  \/ \E k \in Key : New(t, k) \/ Load(t, k)
  \/ MarkProving(t)
  \/ ForceConfirmUnchecked(t)
  \/ MarkFailed(t)
  \/ Forget(t)
  \/ Save(t)
  \/ \E receipt \in Receipt : MarkProved(t, receipt)
  \/ \E block \in Block : MarkSubmitted(t, block) \/ DemoteOnReorg(t, block)
  \/ \E current \in Block, n_blocks \in Block :
       TryConfirm(t, current, n_blocks)

\* StepBackCounted for one copy.
StepBackOf(s, next) ==
  /\ next.key = s.key
  /\ s.receipt # None => next.receipt # None
  /\ \/ Progress(next.status) >= Progress(s.status)
     \/ s.status = "Proved" /\ next.status = "Proving"
     \/ /\ next.status = "Proved"
        /\ next.retry_count = (s.retry_count + 1) % (MaxU32 + 1)

-----------------------------------------------------------------------------

\* None is not a session, a receipt or a block.
LEMMA SessionIsNotNone ==
  \A s \in ApprovalSession : s # None
BY NoneIsNothing

\* A task that takes a sound session keeps every copy sound.
LEMMA RetakeKeepsIInv ==
  ASSUME IInv, NEW t \in Task, NEW s \in ApprovalSession \cup {None},
         Sound(s), Retake(t, s)
  PROVE  IInv'
<1>1. /\ held'[t] = s
      /\ \A u \in Task : u # t => held'[u] = held[u]
      /\ held' \in [Task -> ApprovalSession \cup {None}]
  BY DEF IInv, TypeOK, Retake
<1>2. TypeOK'
  BY <1>1 DEF IInv, TypeOK, Retake
<1>3. \A u \in Task : Sound(held'[u])
  BY <1>1 DEF IInv, RecordsCoherent
<1>. QED
  BY <1>2, <1>3 DEF IInv, RecordsCoherent, Retake, Sound, Coherent

\* Every method of a session leaves a sound session in its caller's hands.
LEMMA MethodsKeepIInv ==
  ASSUME IInv, NEW t \in Task, Holding(t)
  PROVE  /\ MarkProving(t) => IInv'
         /\ \A receipt \in Receipt : MarkProved(t, receipt) => IInv'
         /\ \A block \in Block : MarkSubmitted(t, block) => IInv'
         /\ \A current \in Block : DemoteOnReorg(t, current) => IInv'
         /\ ForceConfirmUnchecked(t) => IInv'
         /\ \A current, n_blocks \in Block :
              TryConfirm(t, current, n_blocks) => IInv'
         /\ MarkFailed(t) => IInv'
<1>. DEFINE s == held[t]
<1>1. /\ s \in ApprovalSession
      /\ held \in [Task -> ApprovalSession \cup {None}]
      /\ Coherent(s)
  BY DEF IInv, TypeOK, RecordsCoherent, Sound, Holding
<1>2. ASSUME MarkProving(t) PROVE IInv'
  <2>. DEFINE next == [s EXCEPT !.status = "Proving"]
  <2>1. next \in ApprovalSession /\ Coherent(next)
    BY <1>1, <1>2 DEF MarkProving, Valid, Coherent, HasReceipt,
                      ApprovalSession, SessionStatus
  <2>2. Retake(t, next)
    BY <1>2 DEF MarkProving, Retake
  <2>. HIDE DEF next
  <2>. QED
    BY <2>1, <2>2, RetakeKeepsIInv DEF Sound
<1>3. ASSUME NEW receipt \in Receipt, MarkProved(t, receipt) PROVE IInv'
  <2>. DEFINE next == [s EXCEPT !.status = "Proved", !.receipt = receipt]
  <2>1. next \in ApprovalSession /\ Coherent(next)
    BY <1>1, <1>3, NoneIsNothing
       DEF MarkProved, Valid, Coherent, HasReceipt, ApprovalSession,
           SessionStatus
  <2>2. Retake(t, next)
    BY <1>1, <1>3 DEF MarkProved, Retake
  <2>. HIDE DEF next
  <2>. QED
    BY <2>1, <2>2, RetakeKeepsIInv DEF Sound
<1>4. ASSUME NEW block \in Block, MarkSubmitted(t, block) PROVE IInv'
  <2>. DEFINE next == [s EXCEPT !.status = "Submitted",
                                !.submission_block = block]
  <2>1. next \in ApprovalSession /\ Coherent(next)
    BY <1>1, <1>4, NoneIsNothing
       DEF MarkSubmitted, Valid, Coherent, HasReceipt, ApprovalSession,
           SessionStatus
  <2>2. Retake(t, next)
    BY <1>1, <1>4 DEF MarkSubmitted, Retake
  <2>. HIDE DEF next
  <2>. QED
    BY <2>1, <2>2, RetakeKeepsIInv DEF Sound
<1>5. ASSUME NEW current \in Block, DemoteOnReorg(t, current) PROVE IInv'
  <2>1. (s.retry_count + 1) % (MaxU32 + 1) \in 0..MaxU32
    BY <1>1, SessionWidths DEF ApprovalSession
  <2>2. Demoted(s) \in ApprovalSession /\ Coherent(Demoted(s))
    BY <1>1, <1>5, <2>1
       DEF Demoted, DemoteOnReorg, BelowSubmission, Coherent, HasReceipt,
           ApprovalSession, SessionStatus
  <2>3. Retake(t, Demoted(s)) \/ Retake(t, None)
    BY <1>5 DEF DemoteOnReorg, Retake
  <2>. QED
    BY <2>2, <2>3, RetakeKeepsIInv DEF Sound
<1>6. ASSUME held' = [held EXCEPT ![t].status = "Confirmed"],
             UNCHANGED <<tree, disk>>, s.status = "Submitted"
      PROVE  IInv'
  <2>. DEFINE next == [s EXCEPT !.status = "Confirmed"]
  <2>1. next \in ApprovalSession /\ Coherent(next)
    BY <1>1, <1>6 DEF Coherent, HasReceipt, ApprovalSession, SessionStatus
  <2>2. Retake(t, next)
    BY <1>6 DEF Retake
  <2>. HIDE DEF next
  <2>. QED
    BY <2>1, <2>2, RetakeKeepsIInv DEF Sound
<1>7. ForceConfirmUnchecked(t) => IInv'
  BY <1>6 DEF ForceConfirmUnchecked, Valid
<1>8. ASSUME NEW current \in Block, NEW n_blocks \in Block,
             TryConfirm(t, current, n_blocks)
      PROVE  IInv'
  BY <1>6, <1>8 DEF TryConfirm
<1>9. ASSUME MarkFailed(t) PROVE IInv'
  <2>. DEFINE next == [s EXCEPT !.status = "Failed"]
  <2>1. next \in ApprovalSession /\ Coherent(next)
    BY <1>1 DEF Coherent, HasReceipt, ApprovalSession, SessionStatus
  <2>2. Retake(t, next)
    BY <1>9 DEF MarkFailed, Retake
  <2>. HIDE DEF next
  <2>. QED
    BY <2>1, <2>2, RetakeKeepsIInv DEF Sound
<1>. QED
  BY <1>2, <1>3, <1>4, <1>5, <1>7, <1>8, <1>9

\* A session just created is sound.
LEMMA NewKeepsIInv ==
  ASSUME IInv, NEW t \in Task, NEW k \in Key, New(t, k)
  PROVE  IInv'
<1>. DEFINE s == [key |-> k, status |-> "Drafted", receipt |-> None,
                  submission_block |-> None, retry_count |-> 0]
<1>1. s \in ApprovalSession /\ Sound(s)
  BY SessionWidths
     DEF Sound, Coherent, HasReceipt, ApprovalSession, SessionStatus
<1>2. Retake(t, s)
  BY DEF New, Retake
<1>. HIDE DEF s
<1>. QED
  BY <1>1, <1>2, RetakeKeepsIInv

\* Copies travel between task, store and disk whole: what arrives is sound.
LEMMA StoreKeepsIInv ==
  ASSUME IInv
  PROVE  /\ \A t \in Task : Save(t) => IInv'
         /\ \A t \in Task, k \in Key : Load(t, k) => IInv'
         /\ \A t \in Task : Forget(t) => IInv'
         /\ \A k \in Key : Delete(k) => IInv'
         /\ Flush => IInv'
         /\ Crash => IInv'
<1>. USE DEF IInv
<1>1. ASSUME NEW t \in Task, Save(t) PROVE IInv'
  <2>. DEFINE k == held[t].key
  <2>1. held[t] \in ApprovalSession /\ k \in Key /\ Sound(held[t])
    BY <1>1 DEF TypeOK, Save, Holding, RecordsCoherent, ApprovalSession
  <2>2. /\ tree'[k] = held[t]
        /\ \A j \in Key : j # k => tree'[j] = tree[j]
        /\ tree' \in [Key -> ApprovalSession \cup {None}]
        /\ UNCHANGED <<held, disk>>
    BY <1>1, <2>1 DEF TypeOK, Save
  <2>. QED
    BY <2>1, <2>2 DEF TypeOK, RecordsCoherent, Sound, Coherent
<1>2. ASSUME NEW t \in Task, NEW k \in Key, Load(t, k) PROVE IInv'
  <2>1. tree[k] \in ApprovalSession \cup {None} /\ Sound(tree[k])
    BY DEF TypeOK, RecordsCoherent
  <2>2. Retake(t, tree[k])
    BY <1>2 DEF Load, Retake
  <2>. QED
    BY <2>1, <2>2, RetakeKeepsIInv
<1>3. ASSUME NEW t \in Task, Forget(t) PROVE IInv'
  BY <1>3, RetakeKeepsIInv DEF Forget, Retake, Sound
<1>4. ASSUME NEW k \in Key, Delete(k) PROVE IInv'
  <2>1. /\ tree'[k] = None
        /\ \A j \in Key : j # k => tree'[j] = tree[j]
        /\ tree' \in [Key -> ApprovalSession \cup {None}]
        /\ UNCHANGED <<held, disk>>
    BY <1>4 DEF TypeOK, Delete
  <2>. QED
    BY <2>1 DEF TypeOK, RecordsCoherent, Sound, Coherent
<1>5. ASSUME Flush PROVE IInv'
  BY <1>5 DEF Flush, TypeOK, RecordsCoherent, Sound, Coherent
<1>6. ASSUME Crash PROVE IInv'
  BY <1>6 DEF Crash, TypeOK, RecordsCoherent, Sound, Coherent
<1>. QED
  BY <1>1, <1>2, <1>3, <1>4, <1>5, <1>6

\* The empty store is coherent,
LEMMA InitSound == Init => IInv
BY DEF Init, IInv, TypeOK, RecordsCoherent, Sound

\* and every call, flush and crash keeps it so.
LEMMA StepKeepsIInv ==
  ASSUME IInv, [Next]_vars
  PROVE  IInv'
<1>1. CASE Next
  <2>1. ASSUME NEW t \in Task, Holding(t),
               \/ MarkProving(t) \/ ForceConfirmUnchecked(t) \/ MarkFailed(t)
               \/ \E receipt \in Receipt : MarkProved(t, receipt)
               \/ \E block \in Block :
                    MarkSubmitted(t, block) \/ DemoteOnReorg(t, block)
               \/ \E current \in Block, n_blocks \in Block :
                    TryConfirm(t, current, n_blocks)
        PROVE  IInv'
    BY <2>1, MethodsKeepIInv
  <2>. QED
    BY <1>1, <2>1, NewKeepsIInv, StoreKeepsIInv
       DEF Next, MarkProving, ForceConfirmUnchecked, MarkFailed, MarkProved,
           MarkSubmitted, DemoteOnReorg, TryConfirm
<1>2. CASE UNCHANGED vars
  BY <1>2 DEF vars, IInv, TypeOK, RecordsCoherent, Sound, Coherent
<1>. QED
  BY <1>1, <1>2

\* Copies stay sessions, and sound ones, through calls, saves and crashes.
THEOREM SessionsStaySound == Spec => [](TypeOK /\ RecordsCoherent)
<1>1. Init => IInv
  BY InitSound
<1>2. IInv /\ [Next]_vars => IInv'
  BY StepKeepsIInv
<1>. QED
  BY <1>1, <1>2, PTL DEF Spec, IInv

\* Whatever is held, stored or on disk is a session with its counters in
\* their widths, or nothing.
THEOREM SessionTypeCorrect == Spec => []TypeOK
BY SessionsStaySound, PTL

\* A copy in a task's hands goes back only by a retry or a counted demotion,
\* and never loses its receipt.
THEOREM StepsBackAlwaysCounted == Spec => StepsBackAreCounted
<1>1. ASSUME TypeOK, [Next]_vars PROVE StepBackCounted
  <2>. SUFFICES ASSUME NEW t \in Task, held[t] # None, held'[t] # None
                PROVE  StepBackOf(held[t], held'[t])
    BY DEF StepBackOf, StepBackCounted
  <2>1. /\ held[t] \in ApprovalSession
        /\ held \in [Task -> ApprovalSession \cup {None}]
    BY <1>1 DEF TypeOK
  <2>2. ASSUME held'[t] = held[t] PROVE StepBackOf(held[t], held'[t])
    BY <2>1, <2>2
       DEF StepBackOf, Progress, ApprovalSession, SessionStatus
  <2>3. ASSUME NEW u \in Task, TaskStep(u), u # t
        PROVE  held'[t] = held[t]
    BY <2>1, <2>3
       DEF TaskStep, New, Load, MarkProving, MarkProved, MarkSubmitted,
           DemoteOnReorg, ForceConfirmUnchecked, TryConfirm, MarkFailed,
           Forget, Save
  <2>4. ASSUME TaskStep(t) PROVE StepBackOf(held[t], held'[t])
    <3>1. CASE MarkProving(t)
      BY <2>1, <3>1
         DEF MarkProving, Valid, StepBackOf, Progress, ApprovalSession
    <3>2. ASSUME NEW receipt \in Receipt, MarkProved(t, receipt)
          PROVE  StepBackOf(held[t], held'[t])
      BY <2>1, <3>2, NoneIsNothing
         DEF MarkProved, Valid, StepBackOf, Progress, ApprovalSession
    <3>3. ASSUME NEW block \in Block, MarkSubmitted(t, block)
          PROVE  StepBackOf(held[t], held'[t])
      BY <2>1, <3>3
         DEF MarkSubmitted, Valid, StepBackOf, Progress, ApprovalSession
    <3>4. ASSUME NEW block \in Block, DemoteOnReorg(t, block)
          PROVE  StepBackOf(held[t], held'[t])
      <4>1. held' = [held EXCEPT ![t] = Demoted(held[t])]
        BY <2>1, <3>4 DEF DemoteOnReorg
      <4>. QED
        BY <2>1, <4>1 DEF Demoted, StepBackOf, ApprovalSession
    <3>5. CASE ForceConfirmUnchecked(t)
      BY <2>1, <3>5 DEF ForceConfirmUnchecked, Valid, StepBackOf, Progress,
                        ApprovalSession
    <3>6. ASSUME NEW current \in Block, NEW n_blocks \in Block,
                 TryConfirm(t, current, n_blocks)
          PROVE  StepBackOf(held[t], held'[t])
      BY <2>1, <3>6 DEF TryConfirm, StepBackOf, Progress, ApprovalSession
    <3>7. CASE MarkFailed(t)
      BY <2>1, <3>7 DEF MarkFailed, StepBackOf, Progress, ApprovalSession,
                        SessionStatus
    <3>8. CASE Save(t)
      BY <2>2, <3>8 DEF Save
    <3>9. ~ Forget(t) /\ \A k \in Key : ~ New(t, k) /\ ~ Load(t, k)
      BY <2>1 DEF Forget, New, Load, Holding
    <3>. QED
      BY <2>4, <3>1, <3>2, <3>3, <3>4, <3>5, <3>6, <3>7, <3>8, <3>9
         DEF TaskStep
  <2>5. CASE \E u \in Task : TaskStep(u)
    BY <2>2, <2>3, <2>4, <2>5
  <2>6. CASE Crash
    BY <2>6 DEF Crash
  <2>7. CASE Flush \/ (\E k \in Key : Delete(k)) \/ UNCHANGED vars
    BY <2>2, <2>7 DEF Flush, Delete, vars
  <2>8. Next => (\E u \in Task : TaskStep(u)) \/ Crash \/ Flush
                  \/ \E k \in Key : Delete(k)
    BY DEF Next, TaskStep
  <2>. QED
    BY <1>1, <2>5, <2>6, <2>7, <2>8
<1>2. TypeOK /\ [Next]_vars => [StepBackCounted]_vars
  BY <1>1
<1>. QED
  BY <1>2, SessionsStaySound, PTL DEF Spec, StepsBackAreCounted
=============================================================================
