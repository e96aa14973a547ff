------------------------------ MODULE Delivery ------------------------------
(***************************************************************************)
(* The per-request chunk ring between the reader thread and the caller's   *)
(* handle: delivery.rs (ConsumerGuard, ChunkStream, ChunkSink) and the     *)
(* consumer side of async_client.rs (StreamHandle).                        *)
(*                                                                         *)
(* A chunk is abstracted to its kind.  The ring is the pair of a history   *)
(* of pushed chunks and the number popped from it, so that what the caller *)
(* was ever shown stays visible to the properties.                         *)
(***************************************************************************)
EXTENDS Integers, Sequences

CONSTANTS
    MaxTickets,     \* bound: how many requests are ever admitted
    ChunkCap        \* capacity of one chunk ring (CHUNK_RING_CAP)

ASSUME DeliveryAssumption == MaxTickets \in Nat /\ ChunkCap \in Nat \ {0}

VARIABLES
    shuttingDown,   \* latch set by AsyncClient::drop
    cancelAny,      \* flag of AsyncClient::cancel
    cancelled,      \* per request: latch set by StreamHandle::cancel
    handle,         \* per request: where its StreamHandle is
    sent,           \* per request: every chunk pushed into its ring
    taken,          \* per request: how many of them the caller popped
    open            \* per request: its chunk producer still exists

flagVars == <<shuttingDown, cancelAny, cancelled>>
streamVars == <<sent, taken, open>>

Ticket == 0 .. MaxTickets - 1
\* Tickets count up from 0, so no request carries the reserved top value.
CANCEL_ANY == MaxTickets
NONE == -1

Chunk == {"Head", "Body", "Eof", "Error", "Aborted"}
Terminator == {"Eof", "Error", "Aborted"}
HandleState == {"none", "held", "cancelling", "dropped"}

DeliveryInit ==
    /\ shuttingDown = FALSE
    /\ cancelAny = FALSE
    /\ cancelled = [t \in Ticket |-> FALSE]
    /\ handle = [t \in Ticket |-> "none"]
    /\ sent = [t \in Ticket |-> <<>>]
    /\ taken = [t \in Ticket |-> 0]
    /\ open = [t \in Ticket |-> FALSE]

\* ConsumerGuard: cleared by the drop of the handle or of its ChunkStream.
ConsumerAlive(t) == handle[t] # "dropped"

\* ChunkSink::blocked_reason.  The two reasons lead every caller to the same
\* place, so only their disjunction is kept.
BlockedReason(t, observeCancel) ==
    \/ shuttingDown
    \/ observeCancel /\ (cancelled[t] \/ cancelAny)
    \/ ~ConsumerAlive(t)

\* spsc::Producer::push finds a free slot.
HasRoom(t) == Len(sent[t]) - taken[t] < ChunkCap

Pushed(t, chunk) == [sent EXCEPT ![t] = Append(@, chunk)]

Ended(t) == \E i \in DOMAIN sent[t] : sent[t][i] \in Terminator

\* try_next / next_block, and ChunkStream's copies of them: one chunk popped.
HandleRead(t) ==
    /\ handle[t] = "held"
    /\ taken[t] < Len(sent[t])
    /\ taken' = [taken EXCEPT ![t] = @ + 1]
    /\ UNCHANGED <<flagVars, handle, sent, open>>

\* Drop of a StreamHandle or ChunkStream: the guard clears consumer_alive.
HandleDrop(t) ==
    /\ handle[t] = "held"
    /\ handle' = [handle EXCEPT ![t] = "dropped"]
    /\ UNCHANGED <<flagVars, streamVars>>
=============================================================================
