------------------------------- MODULE Events -------------------------------
(***************************************************************************)
(* What an informer does to the sequence of events it has yet to deliver:  *)
(* a write appends one, a delivery takes the first.                        *)
(***************************************************************************)
EXTENDS Naturals, Sequences, SequenceTheorems, TLAPS

(* The events before an appended one keep their places.                    *)
LEMMA Appending ==
    ASSUME NEW S, NEW s \in Seq(S), NEW e \in S
    PROVE  /\ Append(s, e) \in Seq(S)
           /\ Len(Append(s, e)) = Len(s) + 1 /\ Len(s) \in Nat
           /\ \A n \in 1..Len(s) : Append(s, e)[n] = s[n]
           /\ Append(s, e)[Len(s) + 1] = e
BY AppendProperties, LenProperties

(* The others move up when the first is delivered.                         *)
LEMMA Beheading ==
    ASSUME NEW S, NEW s \in Seq(S), s # <<>>
    PROVE  /\ Tail(s) \in Seq(S)
           /\ Len(s) \in Nat \ {0} /\ Len(Tail(s)) = Len(s) - 1
           /\ \A n \in 1..(Len(s) - 1) : Tail(s)[n] = s[n + 1]
           /\ Head(s) = s[1] /\ Head(s) \in S
BY HeadTailProperties, EmptySeq, LenProperties, ElementOfSeq
=============================================================================
