------------------------------ MODULE MCClient ------------------------------
(***************************************************************************)
(* The clients of the run, and the requests passed to them.                *)
(***************************************************************************)
EXTENDS Client

\* A replayable read with credentials, a write with a body that may not be
\* replayed, one whose caller allowed it, and a CONNECT.
MCInputs ==
    {[method |-> "GET", body |-> FALSE, creds |-> TRUE, repr |-> FALSE, replay |-> TRUE],
     [method |-> "POST", body |-> TRUE, creds |-> TRUE, repr |-> TRUE, replay |-> FALSE],
     [method |-> "PUT", body |-> TRUE, creds |-> FALSE, repr |-> TRUE, replay |-> TRUE],
     [method |-> "CONNECT", body |-> FALSE, creds |-> FALSE, repr |-> FALSE, replay |-> FALSE]}

\* One replayable read, where the request itself does not matter.
MCRead ==
    {[method |-> "GET", body |-> FALSE, creds |-> FALSE, repr |-> FALSE, replay |-> TRUE]}

\* One call along a chain of redirects; two calls in a row by a client that
\* stays on its origin; two calls by one that may leave it.
MCSetups ==
    {[cross |-> TRUE, redirects |-> 2, calls |-> 1,
      kinds |-> {"execute"}, inputs |-> MCInputs],
     [cross |-> FALSE, redirects |-> 1, calls |-> 2,
      kinds |-> {"execute", "stream", "async"}, inputs |-> MCRead],
     [cross |-> TRUE, redirects |-> 1, calls |-> 2,
      kinds |-> {"execute", "stream"}, inputs |-> MCRead]}
=============================================================================
