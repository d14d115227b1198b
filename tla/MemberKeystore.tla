--------------------------- MODULE MemberKeystore ---------------------------
(***************************************************************************)
(* Members on their devices and the encrypted keystore that carries one    *)
(* from a device to another (sdk/src/member.rs): a member exports a blob   *)
(* under a password, storage keeps it or damages it, and the owner of a    *)
(* device imports what is in the file, with the right password or not.     *)
(*                                                                         *)
(* Argon2id and ChaCha20-Poly1305 are idealised: a derived key is the pair *)
(* of what it was derived from, and a tag names the key, the nonce and the *)
(* plaintext it was made for.  The cipher is a stream: without the tag, a  *)
(* damaged body would decrypt to other secrets.                            *)
(***************************************************************************)
EXTENDS Naturals, FiniteSets

CONSTANTS
  Device,    \* each holds at most one Member, which is not Clone
  Bytes32,   \* secrets and salts: both are 32 random bytes
  Password,
  Random,    \* Argon2 salts and nonces
  ProposalId,
  None

Identity == [sk : Bytes32, salt : Bytes32]

\* sk || salt, as it is before encryption and after decryption.
Plaintext == [first : Bytes32, second : Bytes32]

Kek == [password : Password, argon_salt : Random]

Tag == [kek : Kek, nonce : Random, plaintext : Plaintext]

\* A file: the borsh fields, and whether bytes are missing at its end or
\* follow it.
Blob == [argon_salt : Random, nonce : Random, body : Plaintext, tag : Tag,
         length : {"exact", "short", "long"}]

ASSUME NoneAssumption == None \notin Identity /\ None \notin Blob

VARIABLES
  identity, \* the Member of each device, or None
  file,     \* the backup, or None
  drawn,    \* the identities that Member::new made
  cast      \* nullifiers members have made

vars == <<identity, file, drawn, cast>>

Init ==
  /\ identity = [d \in Device |-> None]
  /\ file = None
  /\ drawn = {}
  /\ cast = {}

\* Faulty: the salt is put first.
SaltFirst(id) == [first |-> id.salt, second |-> id.sk]

Pack(id) == [first |-> id.sk, second |-> id.salt]

Unpack(plaintext) == [sk |-> plaintext.first, salt |-> plaintext.second]

\* Member::encrypt
Encrypt(id, password, argon_salt, nonce) ==
  [argon_salt |-> argon_salt, nonce |-> nonce, body |-> Pack(id),
   tag |-> [kek       |-> [password |-> password, argon_salt |-> argon_salt],
            nonce     |-> nonce,
            plaintext |-> Pack(id)],
   length |-> "exact"]

\* Faulty: the tag is not compared with the plaintext.
KeyAndNonceMatch(blob, kek) ==
  blob.tag.kek = kek /\ blob.tag.nonce = blob.nonce

\* decrypt_in_place's check.
Authentic(blob, kek) ==
  blob.tag = [kek |-> kek, nonce |-> blob.nonce, plaintext |-> blob.body]

\* Member::from_keystore: an identity, or None for its one error.  The blob is
\* read from its front; what follows is not looked at.
FromKeystore(blob, password) ==
  IF /\ blob.length # "short"
     /\ Authentic(blob, [password |-> password, argon_salt |-> blob.argon_salt])
  THEN Unpack(blob.body)
  ELSE None

-----------------------------------------------------------------------------

\* The random source does not repeat itself.
Fresh(id) ==
  \A other \in drawn : {other.sk, other.salt} \cap {id.sk, id.salt} = {}

\* Member::new
New(d) ==
  /\ identity[d] = None
  /\ \E id \in Identity :
       /\ id.sk # id.salt
       /\ Fresh(id)
       /\ identity' = [identity EXCEPT ![d] = id]
       /\ drawn' = drawn \cup {id}
  /\ UNCHANGED <<file, cast>>

Export(d, password) ==
  /\ identity[d] # None
  /\ \E argon_salt, nonce \in Random :
       file' = Encrypt(identity[d], password, argon_salt, nonce)
  /\ UNCHANGED <<identity, drawn, cast>>

\* Storage changes one part of the file.
Damage ==
  /\ file # None
  /\ \/ \E bytes \in Random : file' = [file EXCEPT !.argon_salt = bytes]
     \/ \E bytes \in Random : file' = [file EXCEPT !.nonce = bytes]
     \/ \E bytes \in Plaintext : file' = [file EXCEPT !.body = bytes]
     \/ \E len \in {"short", "long"} : file' = [file EXCEPT !.length = len]
  /\ UNCHANGED <<identity, drawn, cast>>

\* Member::from_keystore on a device that holds nobody.
Import(d, password) ==
  /\ identity[d] = None
  /\ file # None
  /\ FromKeystore(file, password) # None
  /\ identity' = [identity EXCEPT ![d] = FromKeystore(file, password)]
  /\ UNCHANGED <<file, drawn, cast>>

\* Member::nullifier: H(sk || proposal_id), without the salt.
Nullifier(id, proposal_id) == [sk |-> id.sk, proposal_id |-> proposal_id]

\* Faulty: every device's nullifier is its own.
NullifierOfDevice(d, proposal_id) ==
  [sk |-> identity[d].sk, proposal_id |-> proposal_id, device |-> d]

CastOn(d, proposal_id) == Nullifier(identity[d], proposal_id)

CastVote(d, proposal_id) ==
  /\ identity[d] # None
  /\ cast' = cast \cup {CastOn(d, proposal_id)}
  /\ UNCHANGED <<identity, file, drawn>>

DropMember(d) ==
  /\ identity[d] # None
  /\ identity' = [identity EXCEPT ![d] = None]
  /\ UNCHANGED <<file, drawn, cast>>

Next ==
  \/ \E d \in Device :
       \/ New(d)
       \/ DropMember(d)
       \/ \E password \in Password : Export(d, password) \/ Import(d, password)
       \/ \E proposal_id \in ProposalId : CastVote(d, proposal_id)
  \/ Damage

Spec == Init /\ [][Next]_vars
-----------------------------------------------------------------------------

\* Type invariant.
TypeOK ==
  /\ identity \in [Device -> Identity \cup {None}]
  /\ file \in Blob \cup {None}
  /\ drawn \subseteq Identity
  /\ cast \subseteq [sk : Bytes32, proposal_id : ProposalId]

\* Whoever is on a device is a member that Member::new made, whole: no wrong
\* password, damaged part or mixture of parts opens to anybody else.
DevicesHoldMembers ==
  \A d \in Device : identity[d] # None => identity[d] \in drawn

\* What a member exports opens with its password to that very member, whose
\* commitment is enrolled, and with no other password to anyone.
BackupRecovers ==
  \A d \in Device : identity[d] # None =>
    \A password, other \in Password, argon_salt, nonce \in Random :
      FromKeystore(Encrypt(identity[d], password, argon_salt, nonce), other) =
        IF other = password THEN identity[d] ELSE None

\* A member restored on any number of devices has one vote per proposal.
OneVotePerMember ==
  \A proposal_id \in ProposalId :
    Cardinality({v \in cast : v.proposal_id = proposal_id}) <= Cardinality(drawn)

\* The inductive invariant: behind a tag, damaged file or not, and behind
\* every vote there is a member.
KeystoreIInv ==
  /\ TypeOK
  /\ DevicesHoldMembers
  /\ file # None => Unpack(file.tag.plaintext) \in drawn
  /\ \A v \in cast : \E id \in drawn : v.sk = id.sk
=============================================================================
