--------------------------- MODULE MCRequestPipeline ---------------------------
(* RequestPipeline on small sets, for TLC. *)
EXTENDS RequestPipeline

CONSTANTS r1, r2, r3, k, b1, b2

\* A request and its retry under one key, and a request without a key.
Key == [r \in Requests |-> IF r = r3 THEN None ELSE k]

\* The second request under the key carries the same body, or another.
Body == {[r \in Requests |-> b1], [r \in Requests |-> IF r = r2 THEN b2 ELSE b1]}
=============================================================================
