---------------------------- MODULE ThresholdVote ----------------------------
(***************************************************************************)
(* What the multisig promises, with no accounts, receipts or hashes: a     *)
(* ballot is opened once, with its terms, electorate and quorum fixed      *)
(* there and then; each voter of the electorate votes at most once; and    *)
(* the terms are carried out at most once, after a quorum has voted.       *)
(***************************************************************************)
EXTENDS Naturals, FiniteSets, Sequences

CONSTANTS Ballot, Voter, Terms, Quorum, Unopened

VARIABLE ballot

OpenBallot == [terms : Terms, electorate : SUBSET Voter, quorum : Quorum,
               voters : SUBSET Voter, outcome : Seq(Terms)]

Init == ballot = [b \in Ballot |-> Unopened]

Open(b, terms, electorate, quorum) ==
  /\ ballot[b] = Unopened
  /\ ballot' = [ballot EXCEPT ![b] =
                  [terms |-> terms, electorate |-> electorate,
                   quorum |-> quorum, voters |-> {}, outcome |-> <<>>]]

Vote(b, v) ==
  /\ ballot[b] # Unopened
  /\ v \in ballot[b].electorate \ ballot[b].voters
  /\ ballot' = [ballot EXCEPT ![b].voters = @ \cup {v}]

CarryOut(b) ==
  /\ ballot[b] # Unopened
  /\ ballot[b].outcome = <<>>
  /\ Cardinality(ballot[b].voters) >= ballot[b].quorum
  /\ ballot' = [ballot EXCEPT ![b].outcome = <<ballot[b].terms>>]

Next ==
  \E b \in Ballot :
    \/ \E terms \in Terms, electorate \in SUBSET Voter, quorum \in Quorum :
         Open(b, terms, electorate, quorum)
    \/ \E v \in Voter : Vote(b, v)
    \/ CarryOut(b)

Spec == Init /\ [][Next]_ballot
=============================================================================
