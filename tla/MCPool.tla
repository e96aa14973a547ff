------------------------------- MODULE MCPool -------------------------------
(***************************************************************************)
(* The environments the pool is run in.                                    *)
(***************************************************************************)
EXTENDS Pool

\* One connection and a server that may do anything, to a caller that uses
\* every method that needs no timer.
MCClosing ==
    [requests |-> 2, sockets |-> 2, timeouts |-> 0, conns |-> 1,
     kinds |-> {"length", "open", "bad"}, closes |-> TRUE, ends |-> FALSE,
     pipelined |-> TRUE, methods |-> {"disconnect", "poll", "recv", "drop"}]

\* Two connections that fail, are closed and reconnected under descriptors the
\* other one had.
MCReconnecting ==
    [requests |-> 2, sockets |-> 3, timeouts |-> 0, conns |-> 2,
     kinds |-> {"bad"}, closes |-> TRUE, ends |-> FALSE,
     pipelined |-> FALSE, methods |-> {"disconnect", "recv"}]

\* The same with recvs that the kernel ends, so that rearms are on their way
\* when a connection fails.
MCRearming == [MCReconnecting EXCEPT !.ends = TRUE, !.methods = {"recv"}]

\* Two connections whose servers answer in full, with requests pipelined.
MCAnswering ==
    [requests |-> 3, sockets |-> 2, timeouts |-> 0, conns |-> 2,
     kinds |-> {"length"}, closes |-> FALSE, ends |-> TRUE,
     pipelined |-> TRUE, methods |-> {"recv"}]

\* The same with fewer requests, and a caller that gives up on one.
MCTiming ==
    [MCAnswering EXCEPT !.requests = 2, !.timeouts = 1, !.methods = {"recv", "recv_timeout"}]

MCWorlds == {MCClosing, MCReconnecting, MCRearming, MCAnswering, MCTiming}

\* One connection whose server answers, or closes while requests are pipelined.
MCBreaking ==
    [requests |-> 3, sockets |-> 2, timeouts |-> 0, conns |-> 1,
     kinds |-> {"length"}, closes |-> TRUE, ends |-> FALSE,
     pipelined |-> TRUE, methods |-> {"recv"}]

MCBreakingWorlds == {MCBreaking}
=============================================================================
