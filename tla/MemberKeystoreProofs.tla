------------------------ MODULE MemberKeystoreProofs ------------------------
(***************************************************************************)
(* Proofs about MemberKeystore for any number of devices, members,         *)
(* passwords, random values and proposals.                                 *)
(***************************************************************************)
EXTENDS MemberKeystore, FiniteSetTheorems, TLAPS

\* What encrypt joins, from_keystore splits into the same secrets.
LEMMA UnpackPack == \A id \in Identity : Unpack(Pack(id)) = id
BY DEF Identity, Unpack, Pack

\* A new blob is of its type and its tag names the packed secrets.
LEMMA EncryptTyped ==
  ASSUME NEW id \in Identity, NEW password \in Password,
         NEW argon_salt \in Random, NEW nonce \in Random
  PROVE  /\ Encrypt(id, password, argon_salt, nonce) \in Blob
         /\ Encrypt(id, password, argon_salt, nonce).tag.plaintext = Pack(id)
BY DEF Encrypt, Blob, Tag, Kek, Plaintext, Pack, Identity

\* What opens at all opens to the plaintext its tag was made for.
LEMMA OpensToTagged ==
  ASSUME NEW blob \in Blob, NEW password \in Password,
         FromKeystore(blob, password) # None
  PROVE  FromKeystore(blob, password) = Unpack(blob.tag.plaintext)
BY DEF FromKeystore, Authentic, Blob, Tag

\* An undamaged blob opens to its member, and only with its password.
LEMMA RoundTrip ==
  ASSUME NEW id \in Identity, NEW password \in Password, NEW other \in Password,
         NEW argon_salt \in Random, NEW nonce \in Random
  PROVE  FromKeystore(Encrypt(id, password, argon_salt, nonce), other) =
           IF other = password THEN id ELSE None
<1>. DEFINE blob == Encrypt(id, password, argon_salt, nonce)
            kek  == [password |-> other, argon_salt |-> argon_salt]
<1>1. Authentic(blob, kek) <=> other = password
  BY DEF Authentic, Encrypt
<1>2. Unpack(blob.body) = id
  BY UnpackPack DEF Encrypt
<1>. QED
  BY <1>1, <1>2 DEF FromKeystore, Encrypt

\* Every operation on members and the file keeps the invariant,
LEMMA KeystoreStep == KeystoreIInv /\ [Next]_vars => KeystoreIInv'
<1>. SUFFICES ASSUME KeystoreIInv, [Next]_vars PROVE KeystoreIInv'
  OBVIOUS
<1>. USE DEF KeystoreIInv
<1>1. ASSUME NEW d \in Device, New(d) PROVE KeystoreIInv'
  BY <1>1 DEF New, TypeOK, DevicesHoldMembers
<1>2. ASSUME NEW d \in Device, DropMember(d) PROVE KeystoreIInv'
  BY <1>2 DEF DropMember, TypeOK, DevicesHoldMembers
<1>3. ASSUME NEW d \in Device, NEW password \in Password, Export(d, password)
      PROVE  KeystoreIInv'
  <2>1. identity[d] \in Identity /\ identity[d] \in drawn
    BY <1>3 DEF Export, TypeOK, DevicesHoldMembers
  <2>2. file' \in Blob /\ Unpack(file'.tag.plaintext) \in drawn
    BY <1>3, <2>1, EncryptTyped, UnpackPack DEF Export
  <2>. QED
    BY <1>3, <2>2 DEF Export, TypeOK, DevicesHoldMembers
<1>4. ASSUME NEW d \in Device, NEW password \in Password, Import(d, password)
      PROVE  KeystoreIInv'
  <2>1. file \in Blob
    BY <1>4 DEF Import, TypeOK
  <2>2. FromKeystore(file, password) \in drawn
    BY <1>4, <2>1, OpensToTagged DEF Import
  <2>. QED
    BY <1>4, <2>2 DEF Import, TypeOK, DevicesHoldMembers
<1>5. ASSUME NEW d \in Device, NEW proposal_id \in ProposalId,
             CastVote(d, proposal_id)
      PROVE  KeystoreIInv'
  <2>1. identity[d] \in Identity /\ identity[d] \in drawn
    BY <1>5 DEF CastVote, TypeOK, DevicesHoldMembers
  <2>2. CastOn(d, proposal_id) \in [sk : Bytes32, proposal_id : ProposalId]
        /\ CastOn(d, proposal_id).sk = identity[d].sk
    BY <2>1 DEF CastOn, Nullifier, Identity
  <2>. QED
    BY <1>5, <2>1, <2>2 DEF CastVote, TypeOK, DevicesHoldMembers
<1>6. ASSUME Damage PROVE KeystoreIInv'
  <2>1. file \in Blob
    BY <1>6 DEF Damage, TypeOK
  <2>2. file' \in Blob /\ file'.tag = file.tag
    BY <1>6, <2>1 DEF Damage, Blob
  <2>. QED
    BY <1>6, <2>1, <2>2, NoneAssumption DEF Damage, TypeOK, DevicesHoldMembers
<1>7. CASE UNCHANGED vars
  BY <1>7 DEF vars, TypeOK, DevicesHoldMembers
<1>. QED
  BY <1>1, <1>2, <1>3, <1>4, <1>5, <1>6, <1>7 DEF Next

\* which holds before the first.
LEMMA KeystoreInit == Init => KeystoreIInv
BY DEF Init, KeystoreIInv, TypeOK, DevicesHoldMembers

\* Whatever is exported, damaged, imported, lost or voted, devices hold
\* members who were drawn and files what to_keystore wrote of one.
THEOREM KeystoreInvariant == Spec => []KeystoreIInv
BY KeystoreInit, KeystoreStep, PTL DEF Spec

\* Identities, files and votes stay of their types.
THEOREM KeystoreTypeCorrect == Spec => []TypeOK
<1>1. KeystoreIInv => TypeOK
  BY DEF KeystoreIInv
<1>. QED
  BY <1>1, KeystoreInvariant, PTL

\* Through exports, damage and imports nobody but members are on devices.
THEOREM DevicesAlwaysHoldMembers == Spec => []DevicesHoldMembers
<1>1. KeystoreIInv => DevicesHoldMembers
  BY DEF KeystoreIInv
<1>. QED
  BY <1>1, KeystoreInvariant, PTL

\* A backup opens with its own password to the member who made it, and with
\* no other.
THEOREM BackupAlwaysRecovers == Spec => []BackupRecovers
<1>1. KeystoreIInv => BackupRecovers
  BY RoundTrip DEF KeystoreIInv, TypeOK, BackupRecovers
<1>. QED
  BY <1>1, KeystoreInvariant, PTL

\* Finitely many members have been drawn.
LEMMA FinitelyManyDrawn == Spec => []IsFiniteSet(drawn)
<1>1. Init => IsFiniteSet(drawn)
  BY FS_EmptySet DEF Init
<1>2. IsFiniteSet(drawn) /\ [Next]_vars => IsFiniteSet(drawn)'
  <2>. SUFFICES ASSUME IsFiniteSet(drawn), [Next]_vars
                PROVE  IsFiniteSet(drawn')
    OBVIOUS
  <2>1. drawn' = drawn \/ \E id \in Identity : drawn' = drawn \cup {id}
    BY DEF Next, New, DropMember, Export, Import, CastVote, Damage, vars
  <2>. QED
    BY <2>1, FS_AddElement
<1>. QED
  BY <1>1, <1>2, PTL DEF Spec

\* However many devices a member is restored on, the votes on a proposal are
\* no more than the members.
THEOREM OneVoteAlways == Spec => []OneVotePerMember
<1>1. ASSUME KeystoreIInv, IsFiniteSet(drawn) PROVE OneVotePerMember
  <2>. SUFFICES ASSUME NEW proposal_id \in ProposalId
                PROVE  Cardinality({v \in cast : v.proposal_id = proposal_id})
                         <= Cardinality(drawn)
    BY DEF OneVotePerMember
  <2>. DEFINE V == {v \in cast : v.proposal_id = proposal_id}
              W == {Nullifier(id, proposal_id) : id \in drawn}
  <2>1. V \subseteq W
    <3>. SUFFICES ASSUME NEW v \in V PROVE v \in W
      OBVIOUS
    <3>1. PICK id \in drawn : v.sk = id.sk
      BY <1>1 DEF KeystoreIInv
    <3>2. v = Nullifier(id, proposal_id)
      BY <1>1, <3>1 DEF KeystoreIInv, TypeOK, Nullifier
    <3>. QED
      BY <3>2
  <2>2. IsFiniteSet(W) /\ Cardinality(W) <= Cardinality(drawn)
    <3>. DEFINE f == [id \in drawn |-> Nullifier(id, proposal_id)]
    <3>1. f \in Surjection(drawn, W)
      BY DEF Surjection
    <3>. QED
      BY <1>1, <3>1, FS_Surjection
  <2>3. Cardinality(V) <= Cardinality(W)
    BY <2>1, <2>2, FS_Subset
  <2>4. /\ Cardinality(V) \in Nat /\ Cardinality(W) \in Nat
        /\ Cardinality(drawn) \in Nat
    BY <1>1, <2>1, <2>2, FS_Subset, FS_CardinalityType
  <2>. QED
    BY <2>2, <2>3, <2>4
<1>. QED
  BY <1>1, KeystoreInvariant, FinitelyManyDrawn, PTL
=============================================================================
