--------------------------- MODULE MCFeeCollection ---------------------------
(* FeeCollection on small sets, for TLC. *)
EXTENDS FeeCollection, TLC

CONSTANTS i1, i2, m1, m2, p1, p2, w1, w2

\* Ids are interchangeable.
Symmetry ==
  Permutations({w1, w2}) \cup Permutations({p1, p2})
    \cup Permutations({i1, i2}) \cup Permutations({m1, m2})

\* The rows there are, and those that open transactions will write.
Written ==
  {<<i, invoice[i]>> : i \in Invoices}
    \cup UNION {{<<i, txn[w].rows[i]>> : i \in DOMAIN txn[w].rows} : w \in Workers}

\* One invoice with all that can happen to it, or two that are simple: priced once, never
\* fined and seldom written.
OneIsLarge == Cardinality({r[1] : r \in {q \in Written : q[2].status # "ABSENT"}}) <= 1
BothAreSmall == \A r \in Written : r[2].total \in {0, 2} /\ r[2].fine = 0 /\ r[2].version <= 3

FeesSpec == Init /\ [][Next /\ (OneIsLarge \/ BothAreSmall)']_vars
=============================================================================
