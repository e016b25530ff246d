--------------------------- MODULE ApprovalQuorum ---------------------------
(***************************************************************************)
(* What an approval promises, with no clock, no roles, no policies and no  *)
(* freeze: it is granted by a vote with which enough different holders     *)
(* have voted and no vote is spoilt, takes no vote while it is granted,    *)
(* and loses the grant at most once, when its lock is released.  A holder  *)
(* who votes again replaces its vote.  Governance is shown to implement    *)
(* this specification.                                                     *)
(***************************************************************************)
EXTENDS Naturals, Sequences, FiniteSets

CONSTANT Holder    \* whoever may vote

VARIABLE ballots   \* [needed, votes, spoilt, granted, grants, locked] of every
                   \* approval

NewBallot ==
    [needed : Nat, votes : {{}}, spoilt : {{}}, granted : {FALSE}, grants : {0}, locked : BOOLEAN]

QuorumInit == ballots = << >>

Ask ==
    /\ Len(ballots') = Len(ballots) + 1
    /\ \A i \in DOMAIN ballots : ballots'[i] = ballots[i]
    /\ ballots'[Len(ballots')] \in NewBallot

\* A vote, good or spoilt, that is not enough, or the one that grants the
\* approval.
Vote(i, h) ==
    /\ ~ballots[i].granted
    /\ \E spoilt \in {ballots[i].spoilt \cup {h}, ballots[i].spoilt \ {h}} :
          LET b == ballots[i]
              votes == b.votes \cup {h}
              enough == Cardinality(votes) >= b.needed /\ spoilt = {}
          IN  ballots' = [ballots EXCEPT ![i] =
                 [needed |-> b.needed, votes |-> votes, spoilt |-> spoilt,
                  granted |-> enough,
                  grants |-> IF enough THEN b.grants + 1 ELSE b.grants,
                  locked |-> b.locked]]

\* The lock goes away, and takes the grant with it or not.
Release(i) ==
    /\ ballots[i].locked
    /\ \E granted \in {FALSE, ballots[i].granted} :
          ballots' = [ballots EXCEPT ![i] =
              [needed |-> ballots[i].needed, votes |-> ballots[i].votes,
               spoilt |-> ballots[i].spoilt, granted |-> granted,
               grants |-> ballots[i].grants, locked |-> FALSE]]

QuorumNext ==
    \/ Ask
    \/ \E i \in DOMAIN ballots : Release(i) \/ \E h \in Holder : Vote(i, h)

QuorumSpec == QuorumInit /\ [][QuorumNext]_ballots

=============================================================================
