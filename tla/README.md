# Private M-of-N multisig: TLA+ models, checks and proofs

This directory models the core of the repository: the on-chain verifier
program, the approve circuit, the Merkle tree, and the SDK's enrolment, prover,
keystore and resumable session, the session against a chain that reorganises,
and the quickstart binary that runs them together. TLC checks the models on
small instances; TLAPS proves every safety property of the passing runs for
every value of the constants.

Paths below are relative to the repository root. "V" is
`methods/guest/src/bin/private_multisig.rs`.

## 1. The system

| Component | State | Operations | Talks to |
|---|---|---|---|
| Verifier program (V, `private_multisig_core`) | `MultisigState`, `Proposal`, nullifier entries and vault accounts, all PDAs | `create_multisig`, `create_vault`, `propose`, `approve`, `execute`, `reject` | accounts of the chain; receipts through `env::verify`; a chained call on `execute` |
| Approve circuit (`methods/guest/src/bin/approve_circuit.rs`, `crypto/src/{identity,nullifier}.rs`) | none | proves membership, commits the 96-byte journal | its receipt is what `approve` asks for |
| Merkle tree (`crypto/src/{merkle,hash}.rs`) | leaves | `insert`, `root`, `proof`, `verify_proof` | builder (host) and circuit (guest) |
| `MultisigBuilder` / `MultisigFinalized` (`sdk/src/multisig.rs`) | threshold, commitments, tree | `add_member`, `finalize`, `member_index`, `merkle_proof` | gives `create_multisig` its arguments and the prover its paths |
| `MultisigStateSnapshot`, `ApprovalProver` (`sdk/src/{multisig,prover}.rs`) | a cloned mirror of the state account, a witness, a cached receipt | `new`, `prove`, `public_inputs`, `nullifier` | reads the chain once, runs the circuit, feeds `approve` |
| `ApprovalSession`, `SessionStore` (`sdk/src/session.rs`) | status machine, receipt, submission block, retry count; a sled tree | `mark_*`, `try_confirm`, `demote_on_reorg`, `save`, `load`, `delete` | the caller passes block heights; sled flushes in the background |
| `Member`, keystore (`sdk/src/member.rs`) | identity; an encrypted blob | `new`, `commitment`, `nullifier`, `encrypt`, `from_keystore` | builder, prover |
| quickstart (`e2e_tests/src/bin/quickstart.rs`) | settings, members, builder, snapshot, prover, nullifiers, a vote counter | parses flags, enrolls, proves and records votes up to the threshold, replays one | the SDK and the circuit; no chain |
| Harness, CLI, IDL generator, build scripts | none of their own | drive the above | sequencer RPC |

Where it is hard:

* **Order.** Proposers, approvers and executors are anonymous and race. The
  vote counter of a proposal and its nullifier accounts are separate pieces of
  state that must never drift apart. A receipt takes minutes to make and is
  submitted against a chain that has moved on.
* **Identity.** A member can be enrolled under several salts, an instance can
  share members with another, and an approval made for one place can be offered
  in every other.
* **Failure.** A transaction is acknowledged by the mempool and may be skipped
  at block production (`e2e_tests/src/harness.rs`, `submit`). A client may die
  at any time; sled acknowledges a write before it is on disk. A member may be
  refused half-way through `add_member`.
* **Time.** Finality is judged from block heights that the caller read earlier,
  of a chain that may since have been reorganised.

`PROJECT.json` lists the hazards with their lines and the properties that watch
them.

## 2. Modules

```
ThresholdVote            abstract: open once, vote once, carry out once
   ^ refined by
PrivateMultisig          verifier + circuit      PrivateMultisigProofs
   ^ EXTENDS              (MCPrivateMultisig: instances for TLC)
ApprovalProver           clients + mempool       ApprovalProverProofs
                          (MCApprovalProver: instance for TLC)

MerkleTree               the tree                MerkleTreeProofs
   ^ EXTENDS
MultisigBuilder          enrolment               MultisigBuilderProofs
                                                  (EXTENDS MerkleTreeProofs)
   ^ INSTANCE (Builder!)
Quickstart               the demo program        QuickstartProofs
                                                  (Tree! MerkleTreeProofs)
   | refines PrivateMultisig (Verifier!)
                          (MCQuickstart: instance for TLC)

ApprovalSession          session + store         ApprovalSessionProofs
   ^ EXTENDS
ApprovalFinality         session + chain         ApprovalFinalityProofs

MemberKeystore           members and backups     MemberKeystoreProofs
```

### PrivateMultisig

One action is one *accepted* transaction: `CreateMultisig`, `CreateVault`,
`Propose`, `Approve`, `Execute`, `Reject`. Its guard conjoins the account
constraints of the handler's signature (`init`, `owner`, `pda`) and the early
returns of its body; its updates are the handler's writes. A transaction that
returns an error changes nothing, and error codes are not told apart.
`ApproveCircuit` adds a journal to `receipts` when the identity is enrolled
under the root it is given; otherwise the guest panics and there is no receipt.

* PDAs are the records of their seeds, proposal ids and nullifiers the records
  of their preimages. Two hashes are equal exactly when their preimages are:
  collision resistance is assumed, nothing else about SHA-256. A root is the
  set of identities under it. That a real root admits proofs for its leaves and
  for nothing else, and names one member list, is `VerifiesExactlyLeaves` and
  `RootNamesLeaves` of MerkleTreeProofs.
* `env::verify` is "the journal is in `receipts`", i.e. the composition
  assumption is discharged. `THREAT_MODEL.md` (residual risk 9) says that the
  present sequencer RPC cannot carry the receipt; that is a gap in delivery,
  and the model is of the program once it is closed.
* `calls` is a history of the chained calls each proposal emitted.
* `MAX_ACTION_BYTES_LEN` has its real value; payloads are abstract with a
  length. `MaxU8`, `MaxU32` and `MaxU64` are the integer widths, scaled down by
  the configurations and arbitrary in the proofs.

### ThresholdVote

What the multisig promises with no accounts, receipts or hashes: a ballot's
terms, electorate and quorum are fixed when it opens, each voter of the
electorate votes at most once, and the terms are carried out at most once after
a quorum voted. `ImplementsThresholdVote` is the refinement: ballot = proposal
address, voters = secrets behind its nullifier entries, outcome = its calls.

### ApprovalProver

Clients over the verifier. `TakeSnapshot` reads the state account;
`NewProver` clones the snapshot and takes from its caller an index and *any*
action and target, right or wrong; `Prove` runs the circuit and caches the
receipt; `Submit` hands the instruction to the mempool, again and again if the
client wants; `Include` and `Skip` are block production, which executes a
transaction or leaves it out (the harness relies on exactly this). `Drop` is
both the end of a prover and the death of its client. `ChainStep` is everybody
else. Taking a snapshot again at any time stands for constructing a new one;
the code has no refresh.

### ApprovalSession

Tasks of one client process hold copies of a session and call its methods in
any order with any heights; copies go to and from the store whole. `tree` is
what sled returns, `disk` what it has flushed; `Crash` drops all copies and
falls back to `disk`. There is no code in the repository that drives a session,
so no order of calls is assumed here, and a property that needs one is not
stated here but in ApprovalFinality.

### ApprovalFinality

The same sessions with the chain they are for. The chain's part: the approval
waits in the mempool (`pending`), is included (`IncludeApproval`), skipped
(`SkipApproval`) or lost in a reorganisation (`Reorg`) that goes at most
`FinalityBlocks` below the greatest height ever reached (`tip`). The client's
part is the use of a session that the comments of `session.rs` describe:
`Resume`, prove, `Broadcast` the cached receipt, `RecordSubmission`,
`PollHeight`, and `JudgeHeight`, which hands the polled height, stale or not, to
`demote_on_reorg` or `try_confirm`. Every session method is the action of
ApprovalSession, with the arguments this client would give it, so
`FinalityImplementsSession` holds and nothing about the session is stated twice.

Nothing is assumed of the driver beyond that order. It polls when it likes and
judges by what it polled, however old: `Resume` leaves the polled height alone,
so a height can be older than the copy it is held against, which `behind`, a
history variable, remembers. It may miss a reorganisation between two polls. And
`mark_submitted` takes any number: `RecordedBlock` says which numbers the driver
has to give, the height it knows (`session.rs:107`, "at which the approval was
submitted"), the block of the inclusion, which a client would have to ask for,
or either. `finality` runs with the first, `finality_confirmed` with the second,
and the theorems hold for all. All broadcasts are of one receipt, hence one
nullifier, so the chain accepts one: its state is which block holds it.

### MemberKeystore

Devices that each hold at most one `Member` (the type is not `Clone`), and one
backup file. `Export` is `encrypt`, `Import` is `from_keystore`; `Damage` changes
the Argon2 salt, the nonce, the body or the length of the file, any number of
times between the two. Argon2id and ChaCha20-Poly1305 are idealised: a derived
key is the pair of its inputs, and a tag names key, nonce and plaintext. The
cipher is a stream, so a damaged body decrypts to *some* secrets; only the tag
refuses it. `from_keystore` reads the fields from the front and ignores what
follows them, as the code does.

### Quickstart

The binary from its flags to its exit code, one action per step a reader of
`run_layer_a` would name; it is sequential, and what varies is the command line
and the build (`RISC0_DEV_MODE`, `BUILD_USED_DOCKER`). It uses the builder and
tree of MultisigBuilder through `Builder!`, and is held against PrivateMultisig
through `Verifier!`: a finalized builder stands for `create_multisig`, the first
prover accepted for `propose`, a receipt for a run of the circuit, a recorded
nullifier for `approve`. `DemoFollowsVerifier` says these are transactions the
verifier accepts, which is what a demo without a chain claims. This composes
the Merkle root that the SDK publishes (a hash term) with the one the verifier's
model has (the set of members under it).

### MerkleTree and MultisigBuilder

`MerkleTree` writes `node_at` (`NodeHash`), the walk of `proof` (`Path`) and that
of `verify_proof` (`Ascent`) as recursive functions of the level, over hash terms
tagged with their domain byte; `Span` is `1 << level`. They are functions and
not operators so that the proofs can take them apart. `MultisigBuilder`
enrols commitments and finalizes; `AddMemberToFullTree` is the path on which
`tree.insert` fails after the commitment was recorded.

## 3. Runs

| Run | Shows | Bounds |
|---|---|---|
| `council` | counts, firing, indices, frozen terms, backed proposals never stuck, refinement to ThresholdVote, liveness | one instance, 4 identities of 3 members (one under two salts), 2 proposals out of a count of 2, thresholds 0..2, payloads of 4096 and 4097 bytes |
| `replay` | the inductive invariant; no vote counted where it was not given | two instances that may share a root, an overlapping root, receipts for another instance, chain, action or root, one by somebody not enrolled, payloads of 0, 4096 and 4097 bytes, the last with a receipt of its own |
| `prover` | clients with old snapshots, wrong terms, resubmissions | two clients, 3 identities, 2 payloads, count of 1 |
| `session` | every copy, in memory, stored and on disk, stays coherent; only counted steps back | two tasks, one key, heights 0..2, retry counter of 2 values |
| `builder` | proofs verify exactly for leaves; roots name member lists | depth 2, 5 commitments: empty, partial, full and overfull trees |
| `finality` | what Confirmed says of the chain is not undone, a height polled since the copy was taken does not undo Confirmed, an approval that stays is confirmed | two tasks, one key, heights 0..2, finality of 1 block, a retry counter of one value, a driver that records the height it knows |
| `keystore` | only members that were made come out of a keystore; one vote per member | two devices, 4 byte strings, 2 passwords, 2 random values, one proposal |
| `quickstart` | the demo agrees with the verifier, its quorum is real, no run fails without a reason, runs that can be shown succeed | depth 2, up to 5 members drawn, every command line of up to 3 flags with values from small sets, every build, largest u8 of 3 |
| `session_failed`, `session_crash`, `finality_confirmed`, `builder_full` | the disagreements of section 6 | as small as shows them |

Why the bounds are enough to meet the cases: `council` has more voters than the
threshold and more than the counter of `approvals_count` can hold, so late
approvals, approvals after execution, double enrolment and the overflow check
all happen, and two payloads race for each index until `proposal_count` is at
its limit. `replay` has one receipt of each wrong kind; two instances and one
index each are enough because a receipt names one of each. A depth-2 tree has
every shape of node: leaf, zero leaf, inner, mixed, zero subtree; the overfull
case needs one commitment more than leaves. Two tasks are enough for a lost
update. With finality at 1 and heights to 2 an approval can be included,
reverted, sent again, included elsewhere and buried, while the other task holds
a height from before; one that lands in the last block has no block left to
bury it (`OutOfBlocks`). A `u32` counter with one value makes every demotion
overflow, so both of its outcomes, the wrap of a release build and the panic of a
debug build, are always met. Two tasks, a chain, a store and a disk are close to
a million states with liveness; longer chains and deeper finality are the proofs'
part. In
`quickstart` five members overfill a tree of four leaves, 4097 bytes is one more
than an action may have, and three flags set every argument that matters at
once, or one of them twice. `keystore` draws a salt and a secret that differ,
so two members at most, and each part of a blob has another value to be
damaged to. What no bound covers is what the proofs are for.

Deadlock is checked except in `builder` and `builder_full`, where a builder that
has taken every commitment may rightly have nothing left but `finalize`, or not
even that; in `quickstart`, which ends with its exit code; and in `keystore`,
where a device whose only member was dropped, with no backup, has nothing left
once the random values of the model are used up.

### Fairness

Safety needs none. `FairSpec` assumes weak fairness of `Execute` and, per member,
of `Approve`: V's comments say that anyone, including a relayer, can submit
either, so what one submitter drops another can make, and a transaction that
stays acceptable is eventually submitted. Nothing is assumed of proposers, of
vault creation or of proving. `FairClientSpec` assumes that a client that keeps
its prover goes on calling `prove` and submitting, and that block production
gets to each transaction that stays acceptable; a client may drop its prover,
and is then owed nothing. `FairFinalitySpec` assumes weak fairness of what a
client does with its session (`Advance`: resume, prove, record or judge, of which
never two are possible at once), of its polling and of block production, and
that the client finally stays up and the chain finally only grows: without these
no client reaches anything. It assumes neither that a broadcast is made, nor that
one is included, nor that anything is saved or flushed; the property starts from
an approval that is on the chain. `Quickstart` is one thread that
waits for nobody: weak fairness of its next step says that it runs.

* `BackedProposalsFire`: a proposal m members proved their consent to is
  executed once the vault exists. Its safety half, `BackedNeverStuck`, says that
  until then some step of that kind is possible: either `execute` would be
  accepted or the approval of a member who has not voted.
* `VotesLand`: a client that keeps a prover for the stored terms gets its vote
  counted.
* `LandedIsConfirmed`: an approval that stays on the chain ends Confirmed in
  every task, wherever the client died between sending, recording and saving.
* `ShowableRunsSucceed`: every command line that the build can show exits with 0.
  Its safety half, `FailuresExplained`, says that the exit code 1 always has its
  reason in the command line or the build.

## 4. Proofs

Every theorem holds for all constants under the named assumptions of the
modules: widths are naturals and a `u8` fits a `u32`; the set of secrets is
finite; roots are sets of identities; action lengths are naturals; `Absent` and
`None` are not bodies. `ApprovalProver` adds that members under one root fit a
`u32` (a tree of depth 20 has 2^20 leaves); `Quickstart` that the random source
does not repeat a secret, that `None` is no value of the types it marks the
absence of, and that the tree has at least one level, at most `MaxU32` leaves and
no member whose commitment is the all-zero hash (`TreeAssumption`; depth 20 and
preimage resistance). `MultisigBuilder` assumes the last of its commitments too.

**PrivateMultisigProofs.** `TypeCorrect` and `TermsNeverRewritten` need only types. The rest
rest on `InductiveInvariant`. The properties alone are not inductive:
`CountIsDistinctVoters` says nothing about whether the nullifier of a *new*
approval belongs to a new voter. `IInv` adds that every filed nullifier is the
one for its own proposal id (`VotersConsented`) and that receipts bind nullifier
to proposal id (`ReceiptsSound`); then a nullifier not yet filed under a proposal
comes from a secret that has not voted there, and count and voters grow
together (`ApproveCastsVote`). `IndicesDense` gives that `propose` opens a fresh
address, and with it that no nullifier entry is waiting under it. From `IInv`
follow `CallsAlwaysBacked`, `VotesNeverReused`, `AlwaysFiresAtMostOnce`,
`IndicesAlwaysDense` and, step by step, `Refinement`. `BackedIsNeverStuck` puts
the pieces together: if fewer than m have voted, one of the m consents on hand is
not spent (`ConsentingFinite` and the count), its receipt passes every check of
`approve`, and the counter has room because m fits it; if m have, `execute` would
fire, since the vault is there and the executed flag is raised only with a call.

**ApprovalProverProofs.** `ClientIInv` says that what a client holds is still
true of the chain and that a submission carries a receipt under the root of its
instance. It holds because the chain never rewrites terms
(`StepFreezesTerms`). `ClientsFollowVerifier` shows each step of a client or of
block production to be a step of `PrivateMultisig` or none, so all theorems
above hold of approvals made through the SDK. `NoProofWasted` is the result a
user cares about: of all checks of `approve`, the only one that can have turned
false since an honest proof was made is the unspent nullifier, and then the
member's vote is in. The overflow check cannot be it: a full counter would
equal the whole membership, this member included.

**MerkleTreeProofs.** For every depth. The functions of `MerkleTree` are recursive
over levels, and the prover has no induction rule it can instantiate; but the
library's theorem that `<` on the naturals has minimal elements is about a
relation and a set, so `LevelsUpwards` and `LevelsDownwards` are proved from it as
induction over a *set* of levels. With it come the recursion equations
(`SpanEquation`, `NodeHashEquation`, ...): that a function satisfying the
definition exists is shown by building it one level at a time. `NodeSplits` is the
arithmetic the code relies on: a node that starts before the last leaf is the
hash of its two children, and an empty one, which returns `zero_hashes[level]`,
is so too, because the zero hashes are built alike. Then climbing goes up:

* `LeafClimbsToRoot`: by induction up the path, `proof` of a leaf leads
  `verify_proof` through the nodes above it to the root.
* `OnlyLeavesClimb`: by induction down from the root, whatever the siblings, a
  path to the root passes through nodes of the tree, since a node hash names its
  children; at the bottom there is a leaf or an empty slot, and domain bytes keep
  inner nodes from being leaves.
* `VerifiesExactlyLeaves` joins the two; `RootNamesLeaves` compares two trees.

**MultisigBuilderProofs.** The tree is a prefix of what the builder took, shorter
only when full and never longer than `MAX_LEAVES`, and a finalized tree is such a
prefix with its root (`FinalizedTree`; the builder may have gone on since). From
this invariant and the tree's theorems: one leaf per commitment, correct types,
`EnrolledAlwaysProve` (every leaf finds its index and its proof verifies),
`OnlyEnrolledEverProve`, `RootAlwaysCommits`, and `PublishedRootIsExact`, which is
what an on-chain root is worth: exactly the enrolled commitments verify against
it, under any proof at all, and there are at most n of them.

**ApprovalSessionProofs.** Coherence of every copy, in memory, stored or on disk
(`SessionsStaySound`), their types, and the counting of steps back
(`StepsBackAlwaysCounted`), for any number of tasks. That a step back drops no
receipt is what makes a record with a receipt under Proving possible (section 6).

**ApprovalFinalityProofs.** `FinalityImplementsSession` shows every step to be one of
ApprovalSession or none, and brings its coherence along. The rest holds for every
driver: none of it depends on what is polled, missed or recorded. `FinalityIInv`
anchors records in the chain: no copy names a block above `tip`, and a Confirmed
one names a block `FinalityBlocks` below it, which no reorganisation reaches.
Records outlive the tasks that made them, so the conjunct is of every copy, and
survives because `tip` never falls (`TipNeverFalls`). `ConfirmedIsIrreversible` is
what follows for the approval: if it is in the chain no later than the block a
Confirmed copy names, it is there for good. It cannot say that the approval *is*
there, nor anything of one included after the block recorded; `finality_confirmed`
shows why. The last conjunct of `FinalityIInv`, that a task which polled since it
took its copy holds no height below a Confirmed one's block, is what
`ConfirmedStays` needs and nobody writes down: `demote_on_reorg` does not look at
the status, so a Confirmed copy is safe only from heights polled after it was
taken. With an older one it is demoted, and `LaterPollsNeverDemote` says just so
much: for tasks that poll after they load, however late they judge.

**MemberKeystoreProofs.** `KeystoreIInv` says that a tag in the file, whatever else
was damaged, was made for a member that exists, and a vote by one. An opened
blob has a matching tag, so it is that member (`DevicesAlwaysHoldMembers`);
votes depend on the secret alone, so devices and exports add none
(`OneVoteAlways`, an injection from votes to members drawn). Types are a conjunct
of `KeystoreIInv`, which the run checks (`KeystoreTypeCorrect`).

**QuickstartProofs.** `DemoIInv` follows the program: flags of their types, members
enrolled in the order drawn, a snapshot of what was finalized, votes of the
first members one by one. `QuorumAlwaysReal` counts the voters: identities drawn
have distinct secrets, so as many nullifiers as approvals, and each consenting.
`DemoImplementsVerifier` maps each step to one of the verifier's. Both hold for
every depth and number of members, and what they need of the tree is only that
`finalize` takes what was added. `FailuresAlwaysExplained` needs the tree itself:
it goes through the exits with code 1 one by one and shows each impossible when
the flags and the build are in order. Setup cannot fail since drawn members
differ and the tree has room (`SetupSucceeds`); voting cannot, since the prover
is given a path that `LeafClimbsToRoot` says verifies, on a build whose receipts
carry the pinned image, and each nullifier is new (`VotingSucceeds`); the replay
finds the first member's nullifier on record.

Only model-checked: the four liveness properties `BackedProposalsFire`, `VotesLand`,
`LandedIsConfirmed` and `ShowableRunsSucceed`, since fairness and ENABLED are
beyond the prover. The safety halves of the first and the last are proved. The
four runs that expect a violation are counterexamples and need no proof.

## 5. Not modelled

* Bytes: Borsh, the 788-byte witness, PDA hashing, error codes. Tests pin them
  exactly and they hold no state.
* Privacy, timing and cryptography as such: Argon2id and ChaCha20-Poly1305 are
  idealised, and nothing is said of their strength; zeroisation of secrets.
* Arguments that are not UTF-8, on which `env::args` panics before the quickstart
  looks at them.
* The session's timestamps and error texts, `load_for_proposal` (reads only).
* The harness's deployment, wallet and RPC plumbing: what matters of it to the
  protocol, that a transaction is acknowledged before it is included and may be
  skipped, is in ApprovalProver and ApprovalFinality. Its nonce handling belongs
  to the sequencer.
* The CLI and the IDL generator print and call what is modelled elsewhere;
  build scripts.
* The target program of a chained call: the model ends where the call is
  emitted.

## 6. Where code and documentation disagree

1. `session.rs` says "Failed is terminal" and calls Confirmed irreversible;
   `demote_on_reorg` looks only at the recorded block, so both become Proved
   again on a lower height (`session_failed`).
2. "Resumes from the last persisted status": `save` returns before sled has
   flushed, so a crash may resume from an older one (`session_crash`).
3. `add_member` records a commitment before the tree takes it: after a refusal
   because the tree is full, the finalized instance counts and indexes somebody
   with no leaf and no proof (`builder_full`).
4. `session.rs:64` calls a Confirmed approval irreversible and `THREAT_MODEL.md`
   (T6.5) relies on demotion when a reorganisation drops it. `try_confirm` and
   `demote_on_reorg` are given heights, never the transaction: an approval
   included in block 1 and recorded there, a reorganisation to 0, empty blocks to
   3, a poll, and the session is Confirmed with no approval on the chain
   (`finality_confirmed`). The driver of that run is the best there can be, since
   it records the block of the inclusion. One that records the height at which it
   sent need not even see a reorganisation: an approval that is skipped, or is
   included later than that and reverted after, is Confirmed all the same.

Read while modelling, not turned into runs:

* `private_multisig.rs:150-151` tells consumers that page proposals to "expect
  gaps and unindexed indices". The code (176-193) takes the next index or none,
  so there are no gaps: `IndicesDense`, checked and proved, says the opposite of
  the comment.
* `state.rs:120` says the action length is checked on every propose *and
  execute*, and `execute` does not check it; it need not, as
  `CallsBackedByThreshold` shows.
* `mark_proved` orders its writes so that no stored record has "a receipt whose
  status field says no proof exists yet" (`session.rs:157-159`). The
  Proved-to-Proving retry (249) keeps the receipt, so a session saved then is such
  a record. That steps back keep the receipt is a conjunct of `StepBackCounted`.
* `demote_on_reorg` is documented as a step from Submitted, and a Confirmed session
  that a task loads after it polled goes back to Proved as well when the height
  polled is lower: `ConfirmedStays` leaves those tasks (`behind`) out.
* `PLAN.md:147` expects that "the third member's later approval is rejected" after
  `execute`. If a fresh approval is meant, `approve` does not refuse it: it does
  not look at the executed flag, and `SkippedOnlyIfVoted` says that the one reason
  to skip an honest approval is that the vote is in. The tests and `error.rs`
  speak of a replayed nullifier, which is refused.
* A client that died after sending resends; its second transaction is skipped
  because the nullifier is spent. The harness's test of success, that *this*
  transaction was included, then reports a failure for a vote that counted.
  The session does get to Confirmed (`LandedIsConfirmed`).
* `finalize`'s comparison of m with n after the member check is dead code.

Smaller ones: the comment on drop order in `session.rs`'s store contradicts the
order of its fields. `member.rs:197-199` promises an error for a corrupted
blob, and bytes appended to one are ignored; the identity is the right one
all the same (`DevicesHoldMembers`). The quickstart prints "Proposed action"
before anything has looked at the action's length, which its first prover then
refuses.

## 7. Plan

Done, in this order:

1. `PrivateMultisig` with `ThresholdVote`, checked and proved.
2. `ApprovalSession`, checked and proved.
3. `MerkleTree`, `MultisigBuilder`, checked and proved.
4. `ApprovalProver` composed with `PrivateMultisig`, checked and proved.
5. `ApprovalFinality`, the session composed with a chain, checked and its safety
   proved for every driver.
6. `MemberKeystore`, checked and proved.
7. `Quickstart`, which composes `MultisigBuilder` with `PrivateMultisig`, checked;
   its invariant, refinement and freedom from unexplained failures proved.

What could follow:

* That `approvals_count` never needs its overflow check when roots fit a `u32`,
  and that a chained call is emitted only after m approvals, as theorems of
  their own; both follow from `IInv`.
* `ApprovalFinality` over the verifier of `PrivateMultisig`, in place of the one
  nullifier that stands for it now.
* `ApprovalSession` with several records in one store, flushed independently.
