# Verification of xibalba

TLA+ models of the xibalba HTTP/1.1 client, TLC runs that check them on small
instances, and TLAPS proofs of what matters most for every instance.
`PROJECT.json` maps each definition to the lines it models and lists the runs,
mutants, findings, hazards and theorems.

## The system

xibalba is three crates.

* **xibalba-proto** parses and formats: request heads, response heads, URLs, and
  the chunked transfer coding, an incremental decoder with budgets.
* **xibalba-client** is the client. `Client` is blocking and owns one
  connection: it writes a request, reads the head and the body, follows
  redirects, replays a request once on a stale keep-alive connection, and marks
  the connection *dirty* whenever bytes may be left on it. `AsyncClient` runs a
  `Client` on a reader thread. Callers submit through an MPSC control ring,
  bounded by admission permits; each request has an SPSC chunk ring back to its
  `RequestHandle`. Cancels travel on the control ring and as flags. Time is bounded by a
  silence budget, a write budget, a total per request and a connect deadline.
* **xibalba-iouring** is a connection pool over io_uring: a caller thread submits,
  a complete thread reaps, parses and answers, and three rings connect them
  (tickets, responses, rearms).

Interactions that are hard to test: the cancel poll moving requests between the
ring and the displaced queue while callers submit; a cancel, a drop or a shutdown
at each point of an exchange; early returns between head and body; replay,
reconnect and redirect sharing one total; completions of send and receive in
either order; stale completions on reused descriptors; response bytes split
anywhere; a clock that a trickling peer, a slow caller and a partial write all spend.

## Modules

| Module | Source | State and actions |
|---|---|---|
| `Delivery` | `delivery.rs`, handle of `async_client.rs` | per ticket: chunks sent, chunks taken, the handle, its cancel flag; one turn of the send loop, the handle's read and drop |
| `Admission` | `admission.rs` | `outstanding`; admit, permit drop |
| `ControlQueue` | `control.rs`, `interrupt.rs` | `ring`, `pending`, `cancelAny`, the latch; `next_request`, and `poll_cancel` one message at a time |
| `Reader` | `reader.rs` and the part of `client.rs` it runs | program counter `rpc`, the connection (`dirty`, `unread`), the exchange; one action per socket call, poll and delivery |
| `AsyncClient` | `async_client.rs` | the owner's submit, cancel and drop and the holders' cancels in their separate atomic steps, composed with the reader |
| `RequestService` | abstract | a request is new, queued, served or over |
| `Redirect` | `redirect.rs`, `origin.rs` | operators: what one hop does to a request |
| `Client`, `MCClient` | `client.rs`, `silence.rs`, `write_budget.rs` | a call of `execute`, `execute_streaming` or the reader's path, against a peer and a clock |
| `BodyFraming`, `StreamingBody`, `BodyCollector`, `ResponseBody` | `body/` and the ends of `reader.rs` | the response on the connection, each reader's buffer, what was pulled and delivered; refill, read, finish; `ResponseBody` composes the two readers with the flag they settle |
| `ChunkedDecoder` | `response/chunked.rs` | the decoder as operators on classes of bytes: `Decode(d, input, room)`; the same taken one byte at a time as reference |
| `ChunkedStream`, `MCChunkedStream` | the decoder and its caller's loop | reads and calls of `decode` on an endless stream |
| `ByteSlices` | `bytes.rs` | operators on slices: trimming, numbers at a width, tokens, searches |
| `ResponseHead`, `HeadReader`, `MCHeadReader` | `response/head.rs` and `response/ranges.rs` of proto, `response/head.rs` of client | the parser of a head as operators on positions; `read_response` as a machine: `acc`, `scanned`, interim heads seen; scan, skip, return, one read |
| `Framing` | `response/framing.rs`, `coding.rs`, `reuse.rs` | operators: the framing of a body and whether the connection is kept, from the headers |
| `Url`, `Location` | `url.rs`, `scheme.rs`, `origin.rs`; `redirect.rs`, `reference.rs` | operators: parsing a URL, the origin and its Host header, what a Location makes of a request |
| `RequestHead` | `params.rs`, `request.rs`, the start of `send_head_once` | operators: checks, the client's own headers, both serialisers |
| `ChunkedGrammar`, `HeadGrammar`, `UrlGrammar`, `LocationGrammar` | references | what RFC 9112, RFC 9110 and RFC 3986 say, written from the productions and not from the code |
| `Grammars`, `MCGrammars` | | the bounded texts on which code and reference are compared, and the properties that compare them |
| `Dialer` | `dial.rs`, `deadline.rs` | clock, deadline, addresses left; check, resolve, attempt |
| `Budgets`, `MCBudgets` | `silence.rs`, `write_budget.rs`, `tick.rs` | `Dialer` and the exchange after it: total, socket timeout, `last_progress`, offset written, what waits in the socket; one turn of each loop |
| `Uring` | external | submission and completion queues, descriptors, the server |
| `Completion` | complete thread of `driver.rs` | tickets, per-connection parser and pending ids, stash of early bytes; one action per kind of completion |
| `Pool`, `MCPool` | caller side of `driver.rs` | connections, pending rearms, stash; the public methods, split where they block |
| `QueueProofs`, `StreamProofs`, `AnswerProofs`, `ClientProofs`, `BudgetProofs`, `BodyProofs`, `RingProofs`, `PoolProofs` | | theorems and proofs, see below |

Data is abstracted to what the properties distinguish. A response on the wire is
the ticket of the exchange it belongs to; a body is a sequence of numbered units,
and a number outside it marks a byte that never was on the connection; a byte of
the chunked coding is one of thirteen classes. In the other parsers a symbol is a
class of bytes that every condition treats alike, or a word the code only compares
as a whole (a header name, a scheme, a status code), standing for its spellings in
either case; widths and counts (8 groups of 4 digits, ports to 65535) are constants,
small in the runs. Control is kept: each early return
and each order of two assignments that another thread can see is there.
Variants, named and commented as such next to the definition they vary, are the
bugs the properties are shown to catch.

Composition: `Delivery` and `Admission` are extended by `ControlQueue`, that by
`Reader`, that by `AsyncClient`. A component's actions say what they change of their own variables;
the composing module says who takes them. `AsyncClient` instantiates
`RequestService` with the life of each ticket as refinement mapping. `Budgets`
extends `Dialer` and continues its clock. `HeadReader` runs `ResponseHead` and
`Framing` on what it has read; `Redirect` takes as given the origins that `Location`
computes, and `Client` and `Reader` the verdict that `Keeps` computes.

## Runs

Asynchronous client (module `AsyncClient`):

| Run | Shows |
|---|---|
| `async_queue` | `TypeOK`; the permits are the live requests (`PermitPerRequest`); service in order and once, and `abort_pending` never waits (`OneLine`); a late cancel aborts nobody else, and each untargeted one at most one request (`AbortedOnlyIfAsked`); a posted cancel keeps a queued request off the wire (`PostedCancelStaysOffWire`); the client refines `RequestService` (`ImplementsService`) |
| `async_exchange` | what is parsed as a response belongs to its request (`NoDesync`); the shape of a stream, and the three reasons for one without terminator (`StreamShape`); a drop returns, with any ring full and a peer that never stops sending, unless the reader stays inside one connect or one write (`DropReturns`) |
| `async_progress` | with callers that read every request ends, wherever the peer falls silent, unless a connect or a write never returns or a 2xx body never ends (`EveryRequestEnds`) |

Blocking client: `client` runs three clients (`MCSetups`): one call along a chain of
redirects with four kinds of request, two calls in a row of every kind on a client
that stays on its origin, and two calls on one that may leave it. It shows the
dirty protocol across calls (`NoDesync`), `HostMatchesPeer` through reconnects that
fail half way, credentials and rewritten requests along a chain, policy and
downgrade decided before dialling (`PolicyBeforeDial`), one replay per hop, and one
total for all of it (`CallEndsInTime`).

Time: `timing` runs a dial and the exchange after it on one clock, with blocking and
non-blocking sockets. `DialEndsInTime` and `EndsInTime`: one total for the dial, the
write, the head and a collected body, overrun by one socket timeout at most, or by
the resolver, which cannot be cut short; without a total, each call ends by its
silence limit after it began or last progressed. `SilenceIsReal`: a stream's budget
counts on while its caller is away, and still only reports a peer that was silent,
because a read looks at the socket before the budget does. `WritesOnce`: partial
writes and ticks neither repeat nor skip a byte. `EveryCallReturns`, under fairness,
for finite socket timeouts.

Heads: `response_head` cuts each stream of interim and final heads into reads in
every way and compares the result with what the stream means as a whole
(`HeadIsTheStreams`); the search resumes three bytes back, and one byte less shows.

Parsers and writers: `grammars` fills bounded contexts in every way and compares code
with reference. `DecodesTheLanguage`, `ParsesTheHead`, `ParsesTheUrl`: accepted are
the texts of the grammar and no other, and they are split as it splits them.
`LinesMeanTheirList`: a list of codings or connection tokens means the same on one
line and on several. `KeptMeansAgreed`: a connection is kept only if a recipient that
goes by the length alone finds no other end of the body. `HostNamesTheOrigin`: the
Host header leads back to the origin. `ResolvesAsRfc`: a Location leads where
section 5.2 of RFC 3986 says, for paths without empty segments. `WrittenIsRead`: what
a caller passes is refused, or written as one request that is read back as meant.

Bodies: `response_body` (the body, whole and in order, for each split, framing and
reader; the connection is clean only when exactly the response was taken off it).
`chunked_stream`: the decoder against its byte-at-a-time reading
(`SplitsDoNotShow`), its budgets (`MetadataIsBounded`) and
progress (`EveryCallProgresses`).

Pool: `pool` runs five environments (`MCWorlds`): a server that does anything, two
connections that reconnect on each other's descriptors, the same with rearms under
way, servers that answer in full, and a caller with timeouts. It shows
`SendsHaveTickets`, `AnsweredOnce`, `OwnDescriptor`, and `AnsweredInFullIsForId`:
where servers answer in full and connections are kept, each result is the response
to its own request.

`doc_raw_bytes` and `doc_response` each check a sentence of the source that the code
does not keep; TLC's trace is the evidence, and the finding in `PROJECT.json` quotes
the sentence.

### Statements the code does not keep

Besides those two, the modules state the following sentences of the repository as
properties that TLC finds violated. No run is kept for them; the last column gives
the constants under which the trace appears, as changes to a run's cfg.

| Property | Sentence | What the code does | Trace |
|---|---|---|---|
| `ExactlyOneTerminator` | `async_client.rs:24-26` "exactly one terminator" | a cancel seen by `sink.send` on a full chunk ring returns without one (`reader.rs:189`, 244, 284) | `AsyncQueue.cfg` with `MaxTickets = 1`, `MaxOutstanding = 1`, `MaxBody = 1`, `Holders = {0}` |
| `CancelAnyHitsTheCurrent` | `async_client.rs:369-371` "Has no effect if no request is in flight or if the current request has already finished" | the untargeted cancel waits in the ring and aborts whichever request is current when it is read (`control.rs:173`) | `AsyncQueue.cfg` with `MaxTickets = 2`, `MaxOutstanding = 2`, `Holders = {}` |
| `QueuedCancelStaysOffWire` | `CHANGELOG.md:256-258` "Cancellation no longer depends on the control queue having room" | a handle's cancel that finds the ring full is dropped (`async_client.rs:174`), and only the message keeps a queued request off the wire | the same with `MaxCancels = 5`, `Holders = {0, 1}` |
| `AdmissionAloneRefuses` | `async_client.rs:78-79` "is the only thing that refuses a submission" | each `AsyncClient::cancel` takes a ring slot (`async_client.rs:378`) | the same with `MaxOutstanding = 1`, `MaxCancels = 2`, `Holders = {0}` |
| `CancelFreesTheReader` | `CHANGELOG.md:258-261` "a retained, undrained stream can no longer hold the reader in `ChunkSink::send` after a cancel" | `send_terminal` does not look at the cancel (`delivery.rs:178`) | `AsyncExchange.cfg` with `MaxTickets = 1`, `Replayable = {}` |
| `ReconnectEndsInTime` | `CHANGELOG.md:263` "The total request deadline bounds uploads, flush retries, and reconnects" | `dispatch` calls `ensure_clean()`, which carries no deadline (`reader.rs:98`) | `Client.cfg` |
| `ReplayPrecedesResponse` | `client.rs:27-29` "the request retried once before any response byte is seen" | an interim response is drained from `head_buf`, which then passes the `is_empty()` test (`client.rs:261`) | `Client.cfg` |
| `EveryExchangeIsTimed` | `CHANGELOG.md:270-271` "silence budgets and async cancellation both need a finite one to regain control" | `reconnect` installs the stream before its timeouts are applied; if that fails the next call uses it (`client.rs:181`) | `Client.cfg` |
| `DeadlineIsReported` | `dial.rs:54-56` "`ConnectionError::ConnectDeadlineExceeded` if `deadline` passes" | a last attempt the deadline cut short is returned as `Error::Io` (`dial.rs:118`) | `Timing.cfg` |
| `HeldIsParsed` | `driver.rs:382-383` "Held here and parsed once `pending_ids` is populated" | `on_send_complete` parses only `recv_buf`, not what the parser holds (`driver.rs:1082`) | `Pool.cfg` |
| `RecvReturns` | `driver.rs:1073` "Send errors are ignored — the recv path will surface them" | an end of stream reaped before the send's completion is reported for id 0 | `DocResponse.cfg` with `FairSpec` |
| `NoneMeansElapsed` | `driver.rs:744-746` "or `timeout` elapses" | the completion of a cancelled timer ends the next `recv_timeout` (`driver.rs:961`) | `Pool.cfg` with `MaxTimeouts = 2` and `MCTiming` with two timeouts |
| `TicketIsTaken` | `driver.rs:852-855` "this only blocks while the complete thread catches up" | the complete thread may be waiting for room in the response ring, which only this caller empties (`driver.rs:861`) | `FairSpec`, `ResponseCap = 1`, five pipelined requests on one connection and no other method |

The references of `grammars` show where a comment says more or less than the code.

* `chunked.rs:534-536` "it is not permitted anywhere else the plain grammar does not
  name it": blanks before the CR of a size line are accepted (`chunked.rs:572`), and
  `ChunkedGrammar` accepts them.
* `proto/response/head.rs:43-44` "Returns other `ParseError` variants for malformed
  input": a CR without LF in a header value is `Incomplete` (line 184). Nobody waits
  for more on account of it: `read_response` parses only complete heads and returns
  each error.
* `coding.rs:31-32` an error when "a coding is empty": empty codings are skipped
  (line 45), as RFC 9110 asks of a recipient.
* `framing.rs:34` "when it is absent or not final the body runs until close": codings
  after `chunked`, and unknown ones, are errors (`coding.rs:73`, 84).
* `reference.rs:1` "per RFC 3986 §5.2": empty segments are dropped (line 50), so
  `/a//../b` becomes `/b` and not `/a/b`; `ResolvesAsRfc` compares the others, and
  for these only states that the result is rooted and free of dots.
* `request.rs:86-88` "`Error::Serialize`" from `serialize_to_writer`: it is an
  `io::Error` of kind `InvalidInput` (`request.rs:91`).

### Bounds

Every bound is a constant set in a cfg.

* `AsyncClient`: two or three tickets. Three are needed for a served, a displaced
  and a ring request at once; two for a request and the one after it, which is all
  that attribution to the wrong exchange takes. One or two cancels (`MaxCancels`),
  `ChunkCap` 1 or 2 so that rings fill, `Silence` 0 or 1 ticks, `Holders` the tickets
  whose handle is kept. `MaxReads`, 0 or 1, bounds the calls that progress within a
  request, a head or a drained body, which are finite in the code. It does not bound
  a 2xx body: such reads may go on for ever. `MaxBody`, 0 or 1, is how many of its
  chunks are put in the ring. The control ring has `2 * MaxOutstanding` slots, as in
  the code.
* `Client`: three origins, two of them https, so that a chain can leave the first
  origin, return, and meet a plaintext one; two redirects, one interim response,
  two calls, a total of two ticks and a connect timeout of four, so that a
  connect not cut to what is left of the total would pass it.
* Bodies: four units, two of surplus, a buffer of six, body limits of zero, below
  the length and at it. In `doc_raw_bytes` the buffer is three.
* `ChunkedDecoder`: radix 2 and largest size 2 put the overflow within three
  digits; the budgets are small enough to be reached. The streams of
  `chunked_stream` are endless (the state is the decoder's); the reads are all
  strings of one or two bytes and each stretch of three longer streams.
* `Budgets`: connect timeouts, totals and resolution times before, at and after one
  another; up to three addresses; socket timeouts of 0 (non-blocking) and 2, silence
  limits of 3 and 4, so that ticks fall before, at and after each limit; three reads,
  pauses up to 3, a request of two bytes in one buffer or in two.
* `HeadReader`: runs of up to three of nine pieces, reads of up to ten symbols, a head
  limit of twelve, one interim response, two headers: each limit is met exactly.
* `Grammars`: per context, two to eight parts out of three to thirty-five (`MCGrammars`);
  four groups of two digits, two octets, ports to 12 and lengths to 11 put every
  limit of a number and every way to place an elision within reach of a filling.
* `Pool`: two or three requests, up to three sockets over two connections (so that
  a descriptor is reused), rings of one or two slots. `MaxCq` completions may be
  posted ahead of the complete thread. `CallerAlone` takes in a row those steps of
  the caller between which no other thread reads or writes the same state; a recv
  that fails at once is then completed before an earlier send of the same `submit`,
  and the other order is not tried.

`CHECK_DEADLOCK FALSE` is set where the modelled threads end: the client is
dropped, the call is over, the requests are used up.

### Fairness

`AsyncClient`: the reader thread runs, except inside a call that no timeout has to end
(weak fairness of `~Unbounded /\ ReaderRuns`), and a caller inside `submit`, `cancel`
or `drop` goes on. `Config::validate` requires a finite `read_timeout` and no other:
`Connector::connect` is the application's, and `write_timeout` may be `None`. That the
reader does not stay for ever inside one connect or one write (`[]<>~Unbounded`) is
therefore a hypothesis of `DropReturns` and `EveryRequestEnds`, as the comment in
`drop` has it ("drop waits for it", `async_client.rs:405`). The second has one more:
from some time on no 2xx body sends on (`<>[][~SendsOn]_vars`), since such a body has
no total and each byte renews its silence budget (`config.rs:100-111`). Each
hypothesis is needed: TLC finds a counterexample without it. Nothing else is assumed
of the peer, or of a holder except in `async_progress`, where holders read and the
client is not dropped.

`Pool`: the complete thread runs, the kernel completes what a server has answered, and
a caller goes on within a method. `Budgets`: the client's thread runs inside a call
(weak fairness of `Call`), with socket timeouts that are finite, `write_timeout`
included; nothing is assumed of the peer or of a caller that pauses; `turn` tells two
retries apart, so that a loop that retries without time passing would be a behaviour.
Apart from what is said of timeouts, these are what an OS scheduler gives a runnable
thread.

## Proofs

Eight modules hold theorems, checked by TLAPS for every value of the constants that
the modules' assumptions allow. For each component they state an inductive invariant,
show that it holds initially and that each step keeps it (one lemma or case per
action), and derive the properties of the runs from it. `StreamProofs` extends
`QueueProofs` and `AnswerProofs` extends `StreamProofs`: three layers of one argument
about the async client. `RingProofs` has the invariant of the pool and what its steps
do to the queues, `PoolProofs` the rest. TLC finds no violation of these
invariants on the instances of the runs.

| Module | Proves, of the runs' properties | Inductive invariant |
|---|---|---|
| `QueueProofs` | `TypeOK`, `NoDesync` of `AsyncClient`, `PermitPerRequest`, `ImplementsService` | `TypeInv`, `WireInv`, `QueueInv` |
| `StreamProofs` | `OneLine`, `PostedCancelStaysOffWire` | `StreamInv` |
| `AnswerProofs` | `StreamShape`, `AbortedOnlyIfAsked` | `AnswerInv` |
| `ClientProofs` | the seven invariants of `Client` | `ClientInv` |
| `BudgetProofs` | `DialEndsInTime`, `EndsInTime`, `SilenceIsReal`, `WritesOnce` | `DialInv`, `BudgetInv` |
| `BodyProofs` | `BodyIsTheMessages`, `CleanMeansExact` | `BodyInv` |
| `RingProofs`, `PoolProofs` | `OwnDescriptor`, `SendsHaveTickets`, `AnsweredOnce` | `PoolInv` |

**Types and the wire.** `Control` adds to `TypeOK` that the reader has a current
ticket while serving, a chunk while sending, and that an admitted submission has its
ticket. `NoDesync` speaks only of the socket calls and is not inductive: `WireInv`
adds that unread bytes imply `dirty`, that an exchange begins with nothing unread, and
what holds at each program counter between, the argument the comments of `reader.rs`
make stage by stage.

**The queue.** `PermitPerRequest` counts permits, and a step changes the count by what
it does to the set of live requests. That set is only right if no request is in two
places, so `QueueInv` has the line itself: the displaced requests, then those in the
ring, are increasing and above all those served (`LineInv`); the reader has a request
exactly while it serves, the last one served (`CurInv`); nothing in the line is beyond
the last submission (`BoundInv`); the permits are the cardinality of the live set and
within the bound (`PermitInv`).
Each step then travels, starts, ends or leaves (`Travels`, `Starts`, `Ends`, `Leave`).
`ClientIsService` maps each of these to a step of `RequestService` or to a stutter.

**The streams.** A request that waits has no chunk, no exchange and no close
(`FreshInv`). A cancel posted for it is in the ring, behind it if the request is there
too, until the request is being served and a poll before its first write finds the
cancel (`PostedInv`), wherever `poll_cancel` moves the request meanwhile. `StreamInv`
is these two with `QueueInv`. `AnswerInv` says what stream each stage of an exchange
finds (`StageInv`, `ShapeInv`), that what the cancel poll found
was asked for (`AnyInv`, `AskedInv`), and counts: requests aborted without a cancel of
their own, plus the untargeted cancels not pushed yet, in the ring or being acted on,
do not exceed those made (`CountInv`).

**The blocking client.** `ClientInv` follows a call along its chain: unread bytes imply
`dirty` (`WireInv`), what was written on this hop and how often (`HopInv`, `SeenInv`),
whose credentials the request still has and why (`OriginInv`, `BareInv`), that each
dial had its policy checked (`PolicyInv`), and that no wait passes the total
(`TimeInv`). This is for every `max_redirects` and every set of origins.

**Time.** `DialInv` adds that the clock has not moved before the resolver and that a
dial that has not returned has no outcome; the lemma `ClampFits` gives the rest: a clamped
attempt is never zero and never passes the deadline. `BudgetInv` carries it into the
exchange: whatever has left the socket was counted as progress, pause or not
(`SilenceInv`), and the next byte to write is the one after the last accepted
(`SentInv`).

**Bodies.** `BodyInv`: what was delivered is the first part of the body, and until the
reader fails what is buffered continues it, up to the last unit taken off the
connection. `BodyIsExact` and `CleanIsExact`
have the hypothesis `Retries = FALSE`, a consumer that stops at an error. It is
needed: one that reads on is given bytes that never were on the connection, which is
what `doc_raw_bytes` shows.

**The pool.** Four parts, besides the types. `DescriptorInv`: no socket is under two
descriptors and no descriptor under two connections; a connection that awaits its
reconnect has none. That a new socket finds a free descriptor is the pigeonhole
principle. `FlightInv`: each send's id is in one place from the submission queue
to the completion that is reaped; the ids of those the kernel has are owned by a
ticket, since no entry is taken between pushing a send and queuing its ticket.
`ClaimInv`: an id is a ticket's, pending on one connection, in the response ring, in
the stash or returned, in one of these places and there once, and ids that were not
given out are in none. Each step of the complete thread is quiet, answers the front
of a queue, or redeems a ticket (`QuietStep`, `AnswerStep`, `RedeemStep`), whatever
the parser made of the bytes.

The assumptions are those of the modules: bounds are naturals, capacities and timeouts
are not zero (`AdmissionAssumption`, `DeliveryAssumption`, `ReaderAssumption`,
`AsyncClientAssumption`, `DialerAssumption`, `PoolBounds`, `CapBounds` and the like). TLC
evaluates them in the runs.

Only model-checked:

* liveness (`DropReturns`, `EveryRequestEnds`, `EveryCallReturns`): fairness and
  ENABLED are out of the prover's reach;
* everything about the chunked decoder, the parsers and their grammars
  (`chunked_stream`, `response_head`, `grammars`): recursive operators, and induction
  over the data, whose theorems the installed provers cannot instantiate;
* `AnsweredInFullIsForId`: it compares the order of the responses on a connection,
  through the kernel's splits, the held bytes and the parser, with the order of the
  pending ids, which is again an induction over sequences.

## Not modelled

* The iterator over query parameters (`url.rs:469-500`), the accessors of a response,
  the request builder's collecting, the table of known header names and the case
  folding behind it: no control, and no other part depends on more than the symbol.
* Bytes of a target beyond what `is_target_byte` tells apart, and offsets past 32
  bits, which `MAX_HEAD_SIZE` keeps out of reach.
* The TLS half of a connector, which belongs to the application. DNS is a duration.
* In `Budgets`, a `write_timeout` of `None`: a write may then block for ever, and there
  is no bound to state.
* Malformed chunk framing in `StreamingBody`, where it is an error like that of a
  failing read; `BodyCollector` has it, and `ChunkedDecoder` what is malformed.
* Memory orders: the flags are one-way latches and the rings synchronise, so steps
  on them are atomic. The rings themselves are an external crate.
* In the pool: failing `submit` calls, exhausted provided buffers, wrap-around of
  ids. Also not stated: that a working connection survives a stale error of its
  previous descriptor (the code does not claim it), and that a receive the kernel
  ended is armed again without another `request`.
* That a caller with one thread escapes the wait for a ticket, and that a timer's
  completion is matched to its timer: the code has neither, as `TicketIsTaken` and
  `NoneMeansElapsed` show, and there is no weaker promise to check in their place.
* The response parser of the pool calls the proto parser with the framing of a GET
  and does not skip interim responses (`driver.rs`); it is an outcome of the server.
* Benchmarks, fuzz targets and examples.

## Further work

To model: provided buffers and failing submissions in `Uring`, and a generation per
descriptor to state what a stale error may do; `Budgets` refined into `Client`, whose
ticks are coarser.

To prove: `AnsweredInFullIsForId`, from `ClaimInv` and an invariant that orders what is
on the wire, in the completion queue and in the parser; the decoder, once a prover
that can instantiate the induction theorems is at hand.
