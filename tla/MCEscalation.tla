--------------------------- MODULE MCEscalation ---------------------------
(* Model values and step lists for checking Escalation; a delay of 2 is one *)
(* hour.                                                                    *)
EXTENDS Escalation, TLC

CONSTANTS d1, r1, e1, h1, h2, w1, w2

S(delay, channel) == [delay |-> delay, channel |-> channel, fills |-> TRUE]

\* Gaps of at least an hour.
Spaced == {<<S(2, "in_app"), S(4, "email")>>, <<S(3, "in_app")>>}

\* Accepted by the rule validators; both gaps are half an hour.  The second
\* step runs when the rule is edited to this list after the first.
Tight == <<S(2, "in_app"), S(3, "calendar"), S(4, "in_app")>>

\* Accepted by the rule validators; the template cannot be filled in.
Unfillable == <<[S(3, "in_app") EXCEPT !.fills = FALSE]>>

\* Rejected by the rule validators.
Invalid == {<<>>, <<S(4, "in_app"), S(2, "email")>>, <<S(1, "email")>>}

AllLists  == Spaced \cup {Tight, Unfillable} \cup Invalid
FairLists == Spaced \cup {<<S(2, "email"), S(4, "in_app"), S(6, "in_app")>>}

Symmetry == Permutations({h1, h2}) \cup Permutations({w1, w2})
===========================================================================
