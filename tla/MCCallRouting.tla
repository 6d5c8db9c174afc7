--------------------------- MODULE MCCallRouting ---------------------------
(* Instances of CallRouting: clients a and b.  What a client makes of the  *)
(* answers (PyClient) is checked beside it.                                *)
EXTENDS CallRouting, PyClient

CONSTANTS a, b, r1, r2, r3, r4

NoDeps == [r \in Requests |-> <<>>]

(* Two single requests; the function of the first makes two calls. *)
Singles == {[reqs |-> <<r1>>, client |-> a], [reqs |-> <<r2>>, client |-> b]}
SinglesCaller == [r \in Requests |-> IF r = r2 THEN b ELSE a]
SinglesDeps == [r \in Requests |-> IF r = r1 THEN <<r3, r4>> ELSE <<>>]

(* Two batches of two requests. *)
TwoBatches == {[reqs |-> <<r1, r2>>, client |-> a], [reqs |-> <<r3, r4>>, client |-> b]}
TwoCaller == [r \in Requests |-> IF r \in {r1, r2} THEN a ELSE b]

(* What the Python clients return and ask for is what the operation is     *)
(* about, but for the cases PyClient states: stale answers of call_app and *)
(* the redundant trigger.  Evaluated where a run starts: it has no state.  *)
ClientsServed == Init => ClientRules
=============================================================================
