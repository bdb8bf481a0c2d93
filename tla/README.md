# Verification of cfd, a Cloudflare tunnel client

cfd is a daemon: it opens a TUN device, keeps several QUIC connections to a
Cloudflare edge, registers each of them, and moves IP packets between the
device and the connections.  This directory holds TLA+ models of its parts, the
TLC configurations that check them and TLAPS proofs of their main theorems.
Paths below are relative to the repository.

## Inventory

| Part | State | Operations | Hard behaviour |
|---|---|---|---|
| QUIC client (`src/tunnel/quic_client.cpp`) | three msquic handles, handshake flags, handlers, `close_mu_`, `state_mu_` | `connect`, `register_connection`, `send_packet`, `close`, `on_conn_event` | five threads; late events of a given-up attempt; raw handles used while `close()` frees them |
| msquic table, datagrams, peer streams (`quic_client.cpp`, `msquic_raii.hpp`) | refcount, lent contexts | init, release, send states, abort | shared by all clients; memory lent to msquic; failed openings |
| Connection supervisor (`src/main.cpp`) | `g_stop`, `disc_fired`, `ok_count`, `g_wakeup_cv` | the reconnect loop, the 60 s wait, the pump loop, `shutdown_all` | notifications without the mutex; teardown while threads connect; joins |
| KJ thread (`src/main.cpp`) | `kj_queue`, `kj_stop`, promises | take, register, answer, stop | one server for all connections; stop order |
| MsquicAsyncStream (`quic_client.cpp`) | receive queue, end-of-stream flag, read and write fulfillers | `tryRead`, `write`, `onEvent`, `abort` | callbacks crossing into the KJ loop; watchdog |
| RPC messages (`tunnelrpc.capnp.h`, `quic_client.cpp`) | data and pointer sections | accessors, request, answer | a union that shares a pointer; an answer of a later schema |
| Retry delays (`src/main.cpp`) | `backoff_ms` | doubling, reset, the server's delay | any mix of failures; any number from the server |
| Router, MultiSink (`src/router/router.cpp`, `main.cpp`) | `running_`, wake pipe, reader thread, round-robin counter | `start`, `stop`, reader loop, `inject_from_tunnel` | reader that ends by itself; stop during poll |
| CIDR, LPM trie (`src/net/cidr.cpp`, `include/cfd/lpm_trie.hpp`) | trie | `parse`, `insert`, `lookup` | prefix boundaries 0 and full width |
| Start of main, netlink, TUN (`src/main.cpp`, `src/net/netlink.cpp`, `src/tun/`) | socket, the kernel's link, address and routes | `talk`, `configure`, `add_route` | an acknowledgement read for the wrong request; signals inside calls |
| Configuration, frame, registration values | none | parsing and encoding | lengths at their limits |
| cfd_probe (`src/tools/probe_handshake.cpp`) | options, one client | dial, register, exit | a step that fails behind one that succeeded |

What makes each part correct: a client tells its owner of a loss exactly when
there is one and at most once per attempt, never calls back into a thread that
has ended, and closes every handle; the supervisor counts health exactly, brings
a lost connection back, and stops when asked; the KJ thread answers every
request; the router stops its reader and forwards by longest prefix; the codecs
invert each other and reject what is too short.

How the parts interact: a reconnect thread owns one client and calls `close()`,
`connect()`; it posts a `RegWork` item to the KJ thread and blocks on a future;
the KJ thread calls `register_connection()` on the same client; the router's
reader thread calls `send_packet()` on all clients through MultiSink; msquic's
worker calls the disconnect handler, which sets `disc_fired` and notifies
`g_wakeup_cv`, and the inbound handler, which writes to the TUN device; main
closes all clients during teardown while all of this may be going on.

## Modules

| Module | Models |
|---|---|
| `LinkContract` | the abstract specification of a client: a link is dialled, comes up or fails, is lost, is closed; a loss is told at most once per attempt and only of a link that was up |
| `QuicClient` | one client with its reconnect thread, the KJ thread, the reader thread, msquic's worker and main's teardown |
| `Transport` | what all clients hold of msquic: the table, the handles, datagram contexts, peer streams; MultiSink |
| `Supervisor`, `MCSupervisor` | `main()` with any number of reconnect threads, the KJ thread, the condition variable and signals; clients appear by their contract |
| `AsyncStream` | `register_connection()` over a MsquicAsyncStream: the KJ thread, msquic's worker and the watchdog |
| `TunnelRpc` | the generated accessors of the RPC messages, and the dispatch of calls |
| `Registration` | the request `register_connection()` builds, the answer it decodes, and the delay the loop keeps before it dials again |
| `LpmTrie` | the routing trie with `Cidr::contains` as its reference |
| `Router` | `Router` with main's use of it, the reader thread and the inbound callback; its routes are an instance of `LpmTrie` |
| `Codec` | frame, base64, UUID text, prefix length, each with a reference |
| `Config` | what a line of the configuration file does |
| `Netlink` | requests, acknowledgements, and the state of the kernel |
| `Startup` | `main()` up to the packet pump, on `Config` and `Netlink` |
| `Probe` | cfd_probe, on `Config` |
| `MCParts` | instance of `LpmTrie`, `Codec`, `Registration` (with `TunnelRpc`), `Transport`, `Startup` and `Probe` side by side: one of them moves, the others stay where they start |
| `QuicClientProofs`, `SupervisorProofs`, `RouterProofs`, `AsyncStreamProofs`, `TransportProofs`, `StartupProofs`, `RegistrationProofs`, `LpmTrieProofs` | the theorems |

How they compose: `QuicClient` implements `LinkContract` and `Supervisor` uses it, one
instance per connection; `Router` runs on an instance of `LpmTrie`; `Startup` and `Probe`
extend `Config`; `Registration` extends `TunnelRpc` and sends its request and its
answer through the accessors of that module.

### QuicClient

`pc` is the reconnect thread's place in the loop of `main.cpp` and inside
`connect()`; `cl[t]` is the place of each closing thread inside `close()`, whose
six steps (lock, `ConnectionShutdown`, the null store of `connection_.reset()`,
`ConnectionClose`, the two other resets) are separate because `connect()` takes
no lock.  `hconn` is the msquic object behind `connection_`: it outlives the
pointer while `ConnectionClose` drains it.  `cb` is the worker thread between the
unlock in `fire_disconnect_locked_()` and the return of the handler.  `pin` records
who holds the raw handle from `connection_.get()`, and whether it is still
allocated.  `fired` counts handler calls since `connect()` reset the flags.

Assumed of msquic, from how the code uses it: events of a connection are
delivered one at a time; a started connection ends with SHUTDOWN_COMPLETE;
`ConnectionClose` returns when no event can follow (the comment on the members of
`QuicClientImpl` says so); calls with a null handle fail.  `RegistrationClose` may or may not return while a connection of the
registration exists: the step is possible, and no fairness is assumed of it.
A call on a freed handle is undefined; the model lets it fail.  The wait on
`g_wakeup_cv` takes two steps, `WaitCheck` (predicate) and `WaitBlock`, and a
notification moves only a blocked thread (`Notified`), so that it can be lost.  The
destructor's `close()` runs after all threads are joined and
finds null handles, so it is not an action.

### Supervisor

The wait on `g_wakeup_cv` is as in `QuicClient`; `NotifyAll` moves all blocked threads.  Waits with a timeout
(`interruptible_sleep`, main's 60 s) can always end and need no such detail.
`kj_cv` is notified after changes made under `kj_mu` and its waiter holds that
mutex, so `KjTake` and `KjBreak` are guarded steps.  `close()` is two steps on the
contract's link, `Shut` with the lock and `Closed` with the unlock of the client's `close_mu_`; the handler is
called in between when it is owed.  Main's `close()` has a further step,
`RegistrationClose`, before it unlocks: a thread in `connect()` may have dialled
again by then (`Behind`), and its own last `close()` waits for the mutex.  `ArgIndex` is main's variable `i`, the value line 327 uses.
The lengths of sleeps are left to `Registration`.

### LpmTrie and Router

A trie node is named by the bits on the way to it, so a trie is a function from
bit paths to nodes and a null child is a path outside the domain.  `insert` and
`lookup` are the loops of `lpm_trie.hpp`; the reference `LongestMatch` searches the
list of insertions with `Cidr::contains`, which compares bytes under a mask and
shares no code with the trie.  Bytes have `ByteBits` bits and addresses `V4Bytes` or
`V6Bytes` bytes.

In `Router`, `mpc` is main from the routes to its return, with the steps of `stop()`
(exchange, write, join, reset) apart; `reader_` is the reader loop.  The write of
the wake byte, `pipe2`, `poll` and the read of the device may fail.  The
device is not assumed to deliver anything.  `AfterStop` tells main's call of `stop()`
from the destructor's.  Until the threads are joined one that was in `connect()` may open
its client again (`ThreadReopens`).  The reader's relaxed load of `running_` is an atomic step.

### AsyncStream

`rd` is the place inside `tryRead()`, whose two critical sections are separate
steps; `cb` is the place inside `onEvent()`, where an event has begun but not taken
the lock (`receive`, `fin`, `end`) or has taken the fulfiller and not yet called it
(`fulfill`).  `members` says that the mutex, the queue and the fulfiller exist.  Of the
RPC layer the model knows that it writes a request, reads with some `minBytes` and
`maxBytes`, and fails when a read returns less than `minBytes`, as kj does.  The peer
sends its answer in any pieces, may stop early, refuse, abort or never answer.
Assumed of msquic: events of a stream come one at a time, pending sends are
completed before the stream's shutdown is, `StreamClose` waits for the event in
progress.  A callback on destroyed members is undefined; the model lets it drop
its bytes.

### Transport

A client is at one point of `connect()` or `close()` (`pc`), with the handles it has opened.
Every opening may fail and leave the ones before it.  `api_table_init()` and
`api_table_release()` run under one mutex, so each is a step.  A datagram context is `lent` to
msquic, or freed at once when `DatagramSend` refuses it; the send states that follow
one another (`After`) are msquic's.  CONNECTED may come after `connect()` has given up (`LateConnected`).  `next_` wraps, as a `size_t` does.  A send finds the
connection it has checked: the race of that check with `close()` is `QuicClient`'s.
Assumed of msquic: `ConnectionClose` returns only when every lent datagram has had its
state reported and every peer stream its shutdown.

### TunnelRpc and Registration

A layout lists the positions that the generated accessors of a struct use.  A data
section is the set of values written, each with the bits it covers; a field read after
another field wrote into its bits is `Mixed`.  One machine calls accessors in any
order on any struct; the other registers a connection again and again.  The
server is not in this repository: it reads the request with the same accessors and answers
with either arm, an arm this schema does not know, or nothing.  `getError()` checks
the discriminant only in builds with assertions, so `Decoded` has both outcomes.

### Config, Netlink, Startup and Probe

A line of the file is its key and what the parser of the value makes of it.  `talk()`
takes the first acknowledgement in the queue, whatever request it answers; a signal
may interrupt it and leave the acknowledgement behind, an overrun may lose it, and what
is read may not be an acknowledgement.  Each call of
main that can fail is a step.  What the connections do is reduced to whether
one comes up.  `Probe` keeps one option for all those whose value only goes
into `QuicConfig`.

### Codec

Decoders are functions over sequences of character codes; base64, the UUID and the prefix length
loop as the code does, and the references are stated without those loops (for base64 the bits of
the whole text, for the UUID the digits at their places).  A bad quartet leaves what
was decoded before it in `out`, as the code does.  `input` is the text being decoded, one of
`Inputs`: byte strings of any length, of which the run gives `MCInputs`.  `UuidAssumption` says of
the dashes what holds of 8-4-4-4-12: an even number of digits before each of them and in
all.  It is what lets the scan take two digits at a time.

## Runs

| Run | Shows |
|---|---|
| `client` | `NoCallbackAfterExit`, `FiresAtMostOnce`, `HandshakeFresh`, `RegistersOnLiveHandle`, the inductive invariant `ClientInv`, that QuicClient implements `LinkContract`, and the progress properties `DropNoticed` (a drop, also one during the registration, ends the wait, or its notification was lost) and `CloseReturns` (but for main in `RegistrationClose` behind a connection) |
| `supervisor` | `HealthExact`, `KjNeverStrands`, `ExitClean`, the inductive invariant `SupervisorInv`, `UsesContract`; `StopExits`: a stop request ends the process, or it hangs for ever in one of two ways, a lost wake-up or main in `RegistrationClose` behind a connection; `AnswerArrives`: the queue starves nobody; `DropRedialled`: a drop that was told is redialled, or its wake-up was lost |
| `router` | `ReaderOutlived`, `InjectsIntoLiveRouter`, `ForwardsExactly`, the inductive invariant `RouterInv`, and `StopCompletes`: main gets through `stop()` to `shutdown_all()`, also when the wake byte is not written or the reader has ended by itself |
| `stream` | `BytesInOrder`, `NoSleepOnData`, `AbortOnLiveStream`, the inductive invariant `StreamInv`, and `RegisterReturns`, whatever the peer does; the call always lasts until the watchdog's sleep ends, since it is joined |
| `parts` | of the trie `LookupIsLongestMatch`, `DestroyReachesAll` (the recursive destructor finds every node); of the codecs `DecodersExact`; of the messages `FieldsIndependent`, `RequestArrives`, `AnswerReadAsMeant`, `RetryDelay`; of what the clients hold the inductive invariant `TransportInv` (the count is the number of holders, nothing outlives what it hangs on) and `ReclaimedOnce`; of the start of cfd the inductive invariant `StartupInv` and `ConfiguredMeansInstalled`; of cfd_probe `ZeroMeansDone`: exit code 0 only when all that was asked for succeeded |
| `client_send_after_close` | violated: `DatagramSend` on a freed connection |
| `client_stale_drop` | violated: a drop of a given-up attempt ends the wait of the next connection |
| `client_close_entangled` | violated: main in `RegistrationClose` and the thread in its last `close()` wait for one another |
| `supervisor_lost_wakeup` | violated: the notification of a drop is lost |
| `supervisor_conn_index` | violated: all threads register the same index |
| `stream_destructor` | violated: a callback runs on destroyed members |
| `probe_exit_code` | violated: exit code 1 after a handshake that succeeded |

The seven violated properties each state what a comment of the code says;
`PROJECT.json` quotes it and describes the run.

Bounds.  `QuicClient` is finite as it is: 5803 states, without any bound on the
number of attempts.  `Supervisor` is checked with two connections (218384
states), which is what competition for the KJ thread, a close
order and a health count above one need; the lost wake-up needs only one.
The proofs cover any finite number.
`ArgIndex = 3` is the value after `--config <path>`.
`Router`: two routes over one-bit bytes.
`AsyncStream`: an answer of three bytes, so that a read can end inside a chunk with
another behind it.
`Transport`: two clients, so that one opens or releases the table while the other holds
it, one context and one peer stream of either client (several do not interact), and a
counter that wraps at 4.
`LpmTrie`, `Codec`, `Registration`: two insertions of any prefixes of a two-bit and a four-bit family, which
have a default route, a host route, a byte boundary and prefixes ending inside a
byte; two insertions are enough to nest, to repeat and to differ.  Base64 texts of up
to one quartet over five characters and of two quartets over three; UUID texts of five
characters with one dash, which keep a dash between two bytes and allow misplaced ones;
prefix lengths of up to four characters; datagrams of up to five bytes.  Five accessor
calls, enough to write both arms of the union, disown and adopt.  Seven failures
in a row, two more than the back-off needs to reach its cap, and delays on both sides
of the cap, zero and negative.
`Startup` and `Probe`: files of up to three lines, so that a key can be repeated and two routes
follow an address, two prefixes, four connections over up to two addresses; all command
lines of cfd_probe of up to three words.
The parts of `MCParts` end where the programs return or a bound is reached, so its runs do
not check for deadlock.

Fairness.  Threads are weakly fair: the scheduler runs them and each blocking
call in them returns (`connect()` and `register_connection()` have timeouts).
msquic is weakly fair in finishing a shutdown it has begun and in calling the
handler.  `RegistrationClose` is promised to return only when no connection is left
behind it.  Nothing is assumed of the peer, of the network, of signals or of
spurious wake-ups.  In `Router` the one-second timeout of `poll` is what makes the
reader's step fair; nothing is assumed of the device, nor that the closes and joins
of `shutdown_all()` end, which is `Supervisor`'s subject.  In `AsyncStream` the
watchdog's sleep ends and msquic completes a stream that was aborted; nothing is
assumed of the peer.  No strong fairness is used.

## Proofs

`QuicClientProofs` proves that `ClientInv` is inductive and derives four safety
properties and the refinement of `LinkContract`.  The parts of the invariant:
`CloseInv` (holding `close_mu_` is being inside `close()`), `HandleInv` (an msquic
connection that is no longer in `connection_` is being drained by the holder of
the mutex, so a thread whose own `close()` found a null pointer and the mutex free
knows that there is none), `FlagsInv` (the flags belong to the connection that
exists, since they are reset only while there is none), `RegisterInv` (the KJ
thread uses the handle only while the reconnect thread waits for it).
`NoCallbackAfterExit` alone is not inductive: it needs to know who answers for an
object that main took from `connection_`.

`SupervisorProofs` proves `SupervisorInv` inductive for every finite set of
connections (`ConnsAssumption`, `ArgIndexAssumption`), and derives `HealthExact`,
`KjNeverStrands`, `ExitClean` and `UsesContract`.  The count needs the cardinality
lemmas for adding and removing one element; the exit needs the order of the
joins (`TeardownInv`), the state of a client whose thread has ended
(`ClientsInv`) and who holds each `close_mu_` (`MutexInv`).

`RouterProofs` proves `RouterInv` and `TypeOK` inductive, for all widths and any number of
routes: the reader exists only between `start()` and the join, with
`running_` set until `stop()` clears it, which is why a `stop()` that finds it clear
may return at once.  `ForwardsExactly` follows from `RoutesInv` (the table is the trie of the
configured routes, all of them to the tunnel): the module instantiates `LpmTrieProofs` on
the router's table, shows that the operators of the two instances are the same
(`SameTrie`), and uses `LookupFinds`: a lookup is empty exactly when no prefix contains the
address.  `RouteAssumption` says that the widths are positive and a V4 address is not longer than
a V6 address.

`AsyncStreamProofs` proves `StreamInv`, which adds to
`NoSleepOnData` that a worker holding the fulfiller has a reader that still sleeps,
and to `AbortOnLiveStream` that the watchdog is over when the join is.  `BytesInOrder` is
inductive together with `TypeOK` and `StreamInv`; the work is in the lemmas about sequences:
flattening a queue that grew at its end (`FlattenAppend`, `FlattenConcat`), and `DrainedKeepsBytes`, that
what `drainLocked()` takes from the front and what it leaves, a cut chunk included, are the
queue's bytes in order.

`TransportProofs` proves `TransportInv` for every number of clients, contexts and streams.
The count is tied to the set of holders by the cardinality lemmas; that nothing
outlives the connection needs the handles a client may have at each point
(`HandlesAt`).  `ReclaimedOnce` is inductive by itself, since a final send state has no
successor.

`StartupProofs` proves `StartupInv` for every configuration and any number of routes.
`ConfiguredMeansInstalled` alone is not inductive: a success may be the
acknowledgement of an earlier request.  The invariant says that one is left over only
after a signal, that until then every call that returned has had its effect
(`Installed`), and that main does not reach the pump once a signal has come; a
signal at the pump finds everything installed.  The same module proves `ZeroMeansDone` of
cfd_probe from `ProbeInv`, which says what is open and known at each phase.

`RegistrationProofs` proves `RetryDelay` for any sequence of failures, any bound on it and any
answers.  Most of it shows that the delay a server asks for, read through the
accessors, is an integer whatever arm was sent; the back-off itself is `Rung(fails)`, the
ladder from 1 s to 32 s.  The three theorems about messages rest on one fact about the
layouts of `tunnelrpc.capnp.h`, `LayoutsGood`: every field lies inside the sections its header
declares, no two data fields share a bit, and only the arms of a union share a pointer, told
apart by a discriminant that no data field touches.  With what a set accessor does to a
section (`SetDataGet`, `PutPointer`), `FieldsIndependent` is inductive as part of `RpcInv` for any
number of accessor calls; `RequestArrives` follows by reading the request as it was filled
(`RequestRead`), and `AnswerReadAsMeant` by cases on the arm of the answer (`DetailsRead`, `ErrorRead`,
`OtherRead`), with `AnswerInv` keeping the last answer and what was made of it together.

`LpmTrieProofs` proves `DestroyReachesAll` for all widths and insertions: `TrieInv` says that
the nodes of each trie are closed under prefixes, and `InsertedReachable` that an insertion
keeps them so.  `LookupIsLongestMatch` needs three things.  `TableInv`: every node holds the value
of the last insertion at its path, and every insertion has its node.  `LookupDeepest`: the walk of
`lookup()` ends with the value of the deepest node on the path of the address, by induction
from the last bit upwards.  `ContainsPath`: the bytes and the mask that `Cidr::contains` compares
are the first `prefix_len` bits that the trie walks, by induction over the bits of a byte
(`TopBits`) and the division of a bit's number into byte and place (`BitPlaces`).

`RegistrationProofs` also proves `DecodersExact`, each decoder by an induction along its loop.
Prefix length: the loop's number is the decimal value until that passes 128, and -1 from then
on.  Base64: all quartets are good exactly if the padding is at the end (`PaddedFour`), and
the bytes of a quartet are the eight bits at their place (`SextetBits`, `FirstByte`,
`SecondByte`, `ThirdByte`), so that the output grows by the bytes of the reference.  UUID: from the
end downwards (`Downward`), what the scan found from an offset on is at most half of the digit
places left, and if it is all of them, the text is good from there on (`ScanFound`); this
is why counting 16 bytes rejects every misplaced dash, and why no byte is written behind the array,
in a rejected text neither.  That a good text is accepted needs the parity in `UuidAssumption`
(`ScanRest`): a pair never straddles a dash.

Inductions over data are done by hand: `NatMin` and `NatInd`, proved from the library's
well-foundedness of `<`, speak of a set of numbers, so that each use names its own set.  A
recursive function is a `CHOOSE`; `FlattensExists`, `PowersExist`, `WalkExists`, `TurnsExist`,
`DecimalsExist`, `RoundsExist` and `ScanExists` show that there is one to choose.

Only model-checked: the liveness properties `DropNoticed`, `CloseReturns`, `StopExits`, `AnswerArrives`,
`DropRedialled`, `StopCompletes` and `RegisterReturns`, which need fairness.  Every invariant and every
other action property of the runs is proved.

## Disagreements without a run

Places where a comment or the usage text says something else than the code does, found by
reading and not checked by a run of their own:

- `tryRead()` (`quic_client.cpp:199`) ignores `minBytes`; a short read of an open stream is taken
  by kj for its end.  `AsyncStream` has this behaviour: the registration fails and is retried.
- In `probe_handshake.cpp`, `--register` without `--config` is skipped silently.  Numbers are read with `atoi`, so a malformed one is
  0 and not an error, against the comment in lines 78-80.
- The usage text of cfd lists required keys; `load_from_file()` accepts a file without them.
  `tun_local` then is 0.0.0.0/0, and an empty secret is a valid one.
- `main.cpp:345` honours the server's delay, up to 32 s only; `should_retry` is never used.
- `quic_client.cpp:8-10` takes the reference at construction; the code takes it at the first
  `connect()`.
- A prefix `10.0.0.0/` without digits is read as length 0.

## Not modelled

- Logging, the embedded CA, build and packaging: output, a constant, and files without
  run-time state.
- Buffers, descriptors and sockets: single-owner values; the places where their ownership
  crosses a thread are in `Transport`, `Router` and `AsyncStream`.
- `shutdownWrite`, `abortRead` and `whenWriteDisconnected` of MsquicAsyncStream: they change no
  member, and whether the RPC layer calls them is not in this repository.
- The text of addresses (`inet_pton`, `inet_ntop`): library calls.
- The encoded schema tables and the promise pipelines of the generated RPC code: data and
  templates of the capnp library.
- The stubs for platforms other than Linux, which return `not_supported`.
- Durations other than the retry delays.
