--------------------------- MODULE CircuitBreaker ---------------------------
(***************************************************************************)
(* market-data/src/breaker.rs: the circuit kept for every upstream.  Each  *)
(* method locks one circuit for its whole body, so a method is a function  *)
(* of that circuit.  Of the clock only this is kept: a circuit that was    *)
(* opened is `cooling` until its cooldown, of whatever length, has passed. *)
(***************************************************************************)
EXTENDS Naturals

CONSTANT FailureThreshold   \* consecutive counted failures that open

ASSUME FailureThresholdAssumption == FailureThreshold \in Nat \ {0}

CircuitState == {"closed", "open", "half_open"}

Circuit == [state    : CircuitState,
            failures : 0..(FailureThreshold - 1),
            cooling  : BOOLEAN]

ClosedCircuit == [state |-> "closed", failures |-> 0, cooling |-> FALSE]
Tripped(c)    == [state |-> "open", failures |-> 0, cooling |-> TRUE]

\* allow_request: the answer, and the circuit after it.
Elapsed(c) == c.state = "open" /\ ~c.cooling
AllowsRequest(c) == c.state = "closed" \/ Elapsed(c)
AfterRequest(c) == IF Elapsed(c) THEN [c EXCEPT !.state = "half_open"] ELSE c

OnSuccess(c) == ClosedCircuit

\* classify: how an error counts while the circuit is not half-open.
Counted == {"network"}       \* Network, Timeout, RateLimited
Trips   == {"waf"}           \* WafBlocked
Ignored == {"data"}          \* Parse, Empty and the rest
Errors  == Counted \cup Trips \cup Ignored

OnFailure(c, error) ==
  IF c.state = "half_open" \/ error \in Trips THEN Tripped(c)
  ELSE IF error \notin Counted THEN c
  ELSE IF c.failures + 1 >= FailureThreshold THEN Tripped(c)
  ELSE [c EXCEPT !.failures = @ + 1]
=============================================================================
