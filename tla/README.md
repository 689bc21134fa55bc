# A formal model of hhvm-ext-uv

hhvm-ext-uv gives scripts run by HHVM an event loop: it wraps libuv handles in
PHP classes (`UVTcp`, `UVUdp`, `UVTimer`, ...). The C++ is small, about 1,700
lines under `src/src`, and single-threaded except for libuv's resolver threads.
What is hard about it is not computation but *lifetime*. Two parties hold on to
every handle: the script engine, which counts references to the PHP object and
deletes the handle with it, and libuv, which keeps raw pointers to the handle
from `uv_*_init` until `uv_close` has called back. The extension bridges the two
with references an object holds to itself, with flag bits that mirror libuv's
state, and with callbacks in which the script may do anything, including
closing or dropping the very object it is called on. This project models that
bridge, checks it with TLC and proves most of it with TLAPS.

## Inventory

| Component | State it keeps | Operations and callbacks |
|---|---|---|
| `UVTcp` (`uv_tcp.cpp`, `uv_tcp.h`) | reference count; `flag` (INTERNAL_REF, HANDLE_START, READ_START, CLOSING_START, WRITE_CALLBACK_ENABLE); five callback Variants; cached addresses | `__construct listen connect accept setCallback write shutdown close`, getters; `connection_cb client_connection_cb read_cb write_cb shutdown_cb tcp_close_cb`; native `sweep`/`release` |
| `UVUdp` (`uv_udp.cpp`, `uv_udp.h`) | reference count; `flag` (INTERNAL_REF, HANDLE_START, READ_START); three callbacks | `__construct bind setCallback sendTo close`, getters; `recv_cb send_cb close_cb`; `sweep`/`release` |
| `UVTimer`, `UVIdle`, `UVSignal` | reference count; `start` bit; one callback | `__construct start stop __destruct`; the handle callback |
| `UVResolver` (`uv_resolver.cpp`) | one callback slot for each of `getaddrinfo`, `getnameinfo`; requests that hold a reference to the resolver | the two calls; `on_addrinfo_resolved on_nameinfo_resolved` |
| `UVSSL` (`uv_ssl.cpp`, `uv_ssl.h`) | everything of `UVTcp`, which it extends; an OpenSSL object over two memory BIOs; handshake state; certificates by host name (SNI) | `setCert ... accept connect write`; name resolution, handshake, servername, read and write callbacks |
| `ssl_verify.c` | none | wildcard and common-name matching |
| `UVLoop` (`uv_loop.cpp`) | the `uv_loop_t`, owned or the process's default loop | `run stop alive now updateTime backendFd ...` |
| `UVUtil`, `util.h`, registration | none | error names, object and address helpers |

How they interact: every handle object keeps a pointer to a loop's `uv_loop_t`;
`$loop->run()` is the only place where libuv calls back; a callback runs script
code through `vm_call_user_func`, whose argument array holds a reference to the
object for the length of the call; `UVTcp::accept` creates objects of its own
class; `UVSSL` reuses `UVTcp`'s callbacks and close; everything else goes
through libuv.

What makes each part hard, and what makes it correct:

* **UVTcp, UVUdp.** Close is asynchronous, requests (connect, write, shutdown,
  send) complete later or are cancelled, errors close the handle from inside a
  callback, the last reference may go at any of these points. Correct means:
  the self reference is taken and given back exactly once, no handle libuv
  still uses is deleted once it was handed to libuv with callbacks, `uv_close`
  is called once, a close always ends, a cancelled connection is not reported.
  The addresses a socket answers with are cached for good; correct means that
  they are the socket's.
* **UVTimer, UVIdle, UVSignal.** `start` and `stop` in any order and number,
  from the object's own callback, with the last reference in play. Correct
  means: references balance, a running watcher belongs to a live object, a
  recurring callback keeps coming.
* **UVResolver.** Several requests in flight share one callback slot and finish
  in any order. Correct means: the resolver outlives them, each is answered
  once, and it is known exactly when an answer reaches somebody else's callback.
* **UVSSL.** Handshake and data share the write path, one write becomes several
  writes and several callbacks, and the verification of the peer decides whether
  to close. Correct means: no data before the callback has accepted, nothing
  lost, no end waits for ever. Around the session three pointers are kept that no
  reference backs: a pending `getaddrinfo`'s, the listening object's in the
  argument of `sni_cb`, the session's while `sni_cb` runs the script.
* **ssl_verify.** Three string comparisons decide whether a name matches; correct
  means that a certificate for another host does not.
* **UVLoop.** A loop must outlive the sockets on it. The default loop outlives
  the objects of a request, which the sweep at its end frees in any order, and
  carries what they left in it, a stop flag included, to the next request;
  closing a loop with open handles fails silently.

`PROJECT.json` lists these hazards line by line with the properties that cover them.

## Modules

| Module | Models | Part |
|---|---|---|
| `UVTcp` | the life of TCP objects | the core |
| `KeepAlive` | the abstract contract on an object that wraps a libuv handle | specification |
| `UVTcpAddress` | `UVTcp` with the cached local and peer addresses | extends `UVTcp` |
| `UVTcpProofs` | theorems about `UVTcp`, the refinement included, and about `UVTcpAddress` | proofs |
| `KeepAliveProofs` | what the contract implies | proofs |
| `UVUdp` | UDP objects; implements `KeepAlive` too | |
| `UVUdpProofs` | theorems about `UVUdp`, the refinement included | proofs |
| `UVUdpEcho` | `UVUdp` driven by one of the repository's test scripts | composition |
| `UVRequest` | loops, UDP sockets on them, and the requests of a process | composition with `UVUdp` |
| `UVRequestProofs` | theorems about `UVRequest` | proofs |
| `UVHandle` | timers, idle handles and signals on one loop | |
| `UVHandleProofs` | theorems about `UVHandle` | proofs |
| `UVResolver` | resolvers and their requests | |
| `UVResolverProofs` | theorems about `UVResolver` | proofs |
| `UVSSL` | both ends of a TLS connection | uses `SslVerify` |
| `UVSSLProofs` | theorems about `UVSSL` and `SslVerify` | proofs |
| `UVSSLObject` | the life of TLS objects | extends `UVTcp` |
| `UVSSLObjectProofs` | theorems about `UVSSLObject` | proofs |
| `SslVerify` | comparison of a host name with a certificate | operators |
| `UVSSLReadme` | `UVSSL` driven by the echo server of the repository's README | composition |
| `MC...` | instances for TLC | |

### UVTcp

| Variable | In the code |
|---|---|
| `life`, `rc`, `held` | the PHP object: exists, its reference count, the part of the count that the script's variables and closures hold |
| `flag` | `tcp_handle->flag` |
| `cb` | which Variants of `UVTcpData` are not null |
| `uv`, `uvflag`, `reqs`, `writes` | what libuv keeps in the `uv_tcp_t`: its state, READING / SHUT / a connection that waits for `uv_accept`, and the outstanding requests |
| `frame` | the user callback that is running |
| `pinned` | history: `setSelfReference` has been called on the object |
| `crashed` | freed memory was touched, or `uv_close`'s assertion stopped the process |

Each method and each libuv callback is one action with the method's name. A
method that can fail at the libuv call has a second action for the error return
(`OpenFailed`, `AcceptFailed`, `ShutdownFailed`; an error that changes nothing
is a stutter). A libuv callback that calls the user is split where the script
gets control: the first step ends by setting `frame`, then script actions are
possible on everything the script can reach, and `Return` is the code after
`vm_call_user_func`. `read_cb` is three actions (data, error with callback,
error without). `decRefAndRelease` is the loss of one reference *and* what HHVM
does at the last one: the native data's destructor, `sweep`, `releaseHandle`,
`delete`.

libuv is modelled from how the code uses it: requests complete once, in order;
those of a closing handle are cancelled before the close callback; `uv_close`
aborts when it is called twice; a read error stops reading; freed handles may be
touched at any later time (`LibuvTouchesFreed`), because libuv's lists still
link them.

The script is arbitrary: any method, any time it has control, on any object
it can reach, dropping and copying references at will.

### UVTcpAddress

`UVTcp` beside the four getters. Addresses are numbered: `given[o]` counts the
local addresses the kernel has given the socket, `bound[o]` says that the last
one is still in use; a failed connection attempt gives it back. `sock` and
`peer` are the caches (`sockAddr`/`sockPort`, `peerAddr`/`peerPort`): the number
of the address they hold. A getter asks libuv only while its cache is empty.

### KeepAlive

What `UVTcp` and `UVUdp` are *for*, in four states per object: a `loose` object
lives on script references alone; the first call that makes libuv owe it a
callback *pins* it; a pinned object cannot die; the pin goes only in the step in
which libuv finishes closing the handle. A script may open a closed handle again
(`Reopen`; only `UVUdp` lets it), and the promise then starts anew: memory breaks
only through an object that was not pinned since its handle was opened. Both detailed modules are shown to implement it, with
`status` computed from `life` and INTERNAL_REF, `handle` from libuv's state.

### UVUdp and UVUdpEcho

As `UVTcp`, with the code's differences kept: only `setCallback` takes the self
reference; it adds it without looking at the bit; `close` calls `uv_close` each
time; no method asks whether the handle was closed. `bound` and `sockPort` are
the socket's address and its cache.

What `uv_udp_recv_start` refuses is a socket that is receiving, and nothing else
(`RecvStartOk`). While the handle is open that keeps the count exact, but after
`close()` polling has stopped, so `bind`, `setCallback` and `sendTo` succeed on a
closing or closed handle, for which libuv opens a new socket (`Opened`).
`setCallback` on a handle whose close has not ended adds a second reference to
one bit (`again`). What follows depends on when it is called: libuv, about to
finish the close, finds the socket and aborts (`EndClose`); or, called from the
callback of a send that the close has cancelled (`uv` is `ending`), it comes
after that test, and the second reference stays for ever. A handle that is used
again after `close_cb` is `reopened`: it can receive and send, but libuv has
taken it out of its list of handles, so `close()` on it aborts.

`UVUdpEcho` composes `UVUdp` with the script of
`src/tests/custom_loop/test_uv_udp_echo_server.php`.

### UVRequest

`UVUdp` on loops, and both in a process that serves one request after another.

| Variable | In the code |
|---|---|
| `uvloop` | the `uv_loop_t` of the script's own loop and the default loop: none, live, deleted |
| `loopHeld` | the `UVLoop` objects the script refers to |
| `loopOf` | the loop of a socket: its `internal_loop` property (`SET_LOOP`) keeps that `UVLoop` object alive |
| `running` | the `UVLoop::run` in progress and its mode |
| `stop` | libuv's stop flag, which `uv_run` clears when it returns |
| `request`, `sweeping`, `unswept` | HHVM: which request, whether it has ended, which loop objects are still to be swept |
| `asked`, `early`, `swept` | history: stops of this request; runs that returned with work left though nobody had stopped them; sockets the sweep took |
| `loopFault` | a loop was closed over freed handles, or a socket released on a deleted loop |

Here, unlike in the other modules, callbacks come only while the loop of the
socket runs, and the script acts only between runs or within a callback. A loop
object that loses its last reference in a step is released in it
(`ReleaseLoops`). `uv_loop_close` is modelled by what it touches: with no request
pending it looks at every handle still linked, freed ones included.

`Reused` is the set of sockets that the script may go on using after `close()`
(`MayUse`); the theorems hold for any such set.

### UVHandle

Three classes with one design. The module keeps their differences: timers stop
themselves when they do not repeat; `UVIdle` and `UVSignal` clear the start bit
*after* they drop the reference, `UVTimer` before; `uv_signal_start` refuses bad
numbers after it has stopped the old watcher. `ended` is a history variable: a
watcher stands still because a one-shot timer has fired, or because a signal's
restart was refused. `fault` separates a use of freed
memory in the code or in libuv's dispatch (`use`) from the dangling link in the
loop's list of handles, which `delete` without `uv_close` always leaves (`queue`).

### UVResolver

A call is a member of `Req` and stands for its own callback, so `got[r] = r`
says that the answer reached the callback passed with the call. `overtakers` is
a history variable: the calls of the same kind made on the same resolver while
`r` was pending.

### UVSSL and UVSSLReadme

Two ends, a client and a server, joined by two wires. What OpenSSL and the
sockets exchange is cut into *chunks*, the units of `uv_write`: a message (a
flight of the handshake, an alert, a record of data) is one chunk or more, and
a read hands over any number of those that have come. libuv runs the
callbacks of the writes that have left before it polls again, so an end reads
only when none is due (`Reading`). The handshake is the one
of TLS 1.2 and before, the newest the code offers.

| Variable | In the code |
|---|---|
| `hs` | the state of the `SSL` object |
| `bio` | the read BIO: chunks that OpenSSL has not used yet |
| `out`, `due` | libuv's write requests, before and after the socket has taken them |
| `wire` | bytes the peer has not read |
| `enabled` | WRITE_CALLBACK_ENABLE |
| `uv`, `frame`, `cb` | as in `UVTcp`; `frame` tells the three places from which the handshake callback is called |
| `trusted`, `named` | whether the server's chain verifies and its name matches |
| `reported`, `written`, `got`, `verdict` | history: the request a write callback is about, messages written and read, what the handshake callbacks have said |

`read_cb` is one action for each of its outcomes: data after the handshake
(`ReadData`), a message that is not complete (`ReadPart`), the next flight or
the end of the handshake (`ReadFlight`), a chain that does not verify
(`ReadUntrusted`), a failure (`ReadFails`), the end of the stream (`ReadEnd`).
The code after a user callback is `ReturnVerify`, `ReturnHandshake` and
`ReturnOther`. Whether the server's name matches is not an arbitrary bit: the
client compares its host name with the certificate by the operators of
`SslVerify`. The life of the objects is left to `UVSSLObject`.

`UVSSLReadme` replaces the server's arbitrary script by the one printed in the
README.

### UVSSLObject

`UVTcp`, with the methods and callbacks that `UVSSL` replaces or adds. `lookups`
counts the requests of `getaddrinfo` that point to the object's handle; `ssl` is
how far its session is; `listener` is the object whose context an accepted
session uses, and whose address `sni_cb` gets as its argument; `greeting` is the
session in whose `sni_cb` the script runs, an object that, unlike in all other
callbacks, no argument keeps alive. A read is one of `ReadHello`,
`ReadHandshake`, `SslRead` and the two error actions of `UVTcp`; what the peers say is in `UVSSL`.
The code after the new callbacks is `ReturnResolved` (release without close),
`ReturnHandshake` and `ReturnServername`. Calls that hand a null pointer to
OpenSSL or libuv crash at once and are marked `misused`.

### SslVerify

The three functions of `ssl_verify.c` as operators on sequences of characters,
with `strstr` and `strchr` as "the first place where it occurs", the early
returns as disjuncts, and the length test that finds a null byte inside a name as the
field `whole`.

## Runs

| Run | Instance | Question |
|---|---|---|
| `tcp_pair` | two sockets, 1 script reference each (plus closures and frames), 1 write, all callbacks, symmetric | all safety and action properties of `UVTcp`; it implements `KeepAlive` |
| `tcp_close_live` | `UVTcpAddress`: one socket, 2 references, 2 writes, 2 addresses, callbacks given or null | a close ends; the inductive invariants of `UVTcp` and `UVTcpAddress`; cached addresses |
| `handles` | one timer, one idle handle, one signal | `UVHandle` |
| `udp` | two sockets, 2 sends, all callbacks, used before, during and after their close | the inductive invariant, the contract and liveness of `UVUdp` |
| `udp_echo` | the echo script, 2 datagrams | `close` aborts the process (violation) |
| `resolver` | two resolvers, three calls, two script references | `UVResolver` |
| `request` | two requests, both loops, two sockets with 1 send that are left alone after their close, symmetric | `UVRequest` |
| `ssl_object` | one object made by the script, one it accepts, 2 lookups, connect callbacks given or null | the inductive invariant and the safety of `UVSSLObject` |
| `ssl_pair` | one connection, one write of one or two chunks by each end, three sets of callbacks, three certificates | the inductive invariant and the safety of `UVSSL` |
| `ssl_live` | one connection, one write of two chunks by each end, handshake and read callbacks that accept | `UVSSL`: handshakes end, data arrives, a close reaches the peer |
| `ssl_sent` | one connection, all callbacks | a write callback runs before the data of its write has left (violation) |
| `ssl_readme` | the README's echo server, one write by each end | the handshake callback closes the connection (violation) |

**Bounds.** Objects do not interact except through `accept`, the one running
callback and the single `crashed` flag, so two sockets (a listener and the
socket it accepts, or a socket whose callback uses another) show every pairwise
case. `MaxRefs` bounds script references: one and two distinguish "last" from
"not last"; the frame and INTERNAL_REF come on top. One pending write is enough
for a close to find work outstanding; two are used with one socket, where order
among writes and shutdown matters. Two local addresses are what one failed and
one further connection attempt need. Two requests let the second meet what the
first left on the default loop; two sockets on two loops give a loop with a live
and a dead socket, a sweep in each order, and a callback in which the other
socket or the loop is dropped. In `request` `Reused` is empty: use after close is
what `udp` looks at, the theorems about `UVRequest` cover it for any sockets, and
the instance with `Reused = {a, b}` (13.7 million states, some minutes) passes as
well. In `ssl_object` an object that is listening,
connecting and resolved at once, and a session of its own, meet every pair of
late events; two lookups let one answer release what the next points to. Three resolver calls give an answer overtaken
by two calls, and one overtaken on another resolver. Two `start` references show
the leak of a repeated `start`. A TLS message of two chunks is enough to arrive
in part, together with what precedes it, or to have its first chunk reported
before its second is sent; one write by each end meets the end of the handshake,
the other end's write, and either end's close. `ssl_live` needs no third state of
a callback, since a refusal is a close and closes come at any time. Nothing else is bounded: requests other than
writes and sends are one per handle in the code.

**Deadlock** checking is off everywhere: a script may simply end, a process that
crashed does nothing, and objects die for good.

**Fairness**, where used: `WF(Return)`, callbacks return; `SF` of the steps
libuv takes on its own (`CloseStep`, `Fire`, `on_resolved`): the script keeps
calling `$loop->run()` and every iteration of `uv_run` serves the due watchers
and ends with the closing handles, cancelling what is pending on them. For UDP, `CloseStep`
includes the callbacks of the cancelled sends; libuv ends a close by serving a
queue of sends to which their callbacks may add, so `CloseCompletes` excepts a
script that keeps sending on a closing socket. Weak
fairness would not do, since those steps are disabled each time a user callback
runs; strong fairness says no more than that `uv_run` skips nobody forever. No
fairness is assumed of the script or of the network. `UVSSL` is the exception:
each end has a process and a loop of its own, `WF(LoopStep)` says that the loop
goes on while it has something to do, and that includes reading what the
network delivers, for a claim that bytes arrive needs a network that delivers
them. Its steps are disabled only while a callback runs, which returns.

**What the runs show.** For a TCP object that was listened on, connected, shut down
or given callbacks the bridge is sound in every interleaving checked: counts are
exact, no premature delete, no second `uv_close`, each close ends and then frees
the object unless the script still refers to it. For UDP the same holds of a
socket with callbacks that the script closes once and then leaves alone. The properties also delimit
where the bridge is missing, and the model takes those paths:

* a fresh or an accepted socket that dies before `setCallback` leaves libuv with
  a dangling handle (`CrashOnlyUnpinned`, `FreedOnlyUnpinned`);
* a UDP socket that is used after `close()`: what `setCallback` and a second
  `close` do to it is told above; one that only sends has lost its self
  reference, and dies with a request in libuv's hands (`RefCountExact` and
  `FreedOnlyUnpinned` of `UVUdp`);
* a timer, idle handle or signal that nothing refers to and libuv does not call
  stays in memory in three cases (`StrandedExplained`): `start()` was called a
  second time without `stop()`; a one-shot timer has fired, for
  `timer_handle_callback` neither clears the start bit nor gives back the
  reference; a signal was started again with a number that was refused, which
  stops the watcher but not the object;
* a signal that stops itself in its callback, with no other reference, is
  deleted under libuv's feet, the only such case (`UseOnlyBySelfStoppedSignal`);
* a second `getaddrinfo` before the first has answered steals its answer, even
  if that second call was refused (`MisdeliveredOnlyWhenOvertaken`);
* `UVUdp::close` twice stops the process. The repository's own echo server calls
  it from every send callback, which run `udp_echo` turns into a counterexample
  as soon as two datagrams are in flight.

For a TLS session: no message is lost between the write BIO of one end and the
read callback of the other, whatever the fragmentation, because every read
drains the BIO, the one that ends the handshake included; neither end waits for
ever; nothing is delivered or reported before the handshake callback has
accepted. For the objects around it (`ssl_object`) references balance, a
resolution in flight keeps its object (`LookupFindsObject`), and `UnsafeOnlyHere`
lists what is left, each case a path the code permits:

* a connect by name that fails releases the object without closing its handle,
  which breaks the promise of `KeepAlive` (`SafeUnlessUnresolved`);
* an answer that comes after `close` works on a closing, closed or freed handle;
* a `ClientHello` that comes after the listening object was closed and freed,
  or a servername callback that drops listener or session, leaves `sni_cb` with
  freed memory (`HelloFindsListener`);
* `accept` without a connection and `write` without a session dereference null.

For loops and requests (`request`): a loop outlives its sockets while the script
runs, because each refers to its loop object; a script that closes every socket,
leaves it alone then and runs the loop until the close callbacks came never breaks memory, in this
request or the next (`UnsafeOnlyLeftOpen`); a `stop()` on the default loop that
was not used up ends the first run of the next request at once, and nothing else
ends a run early (`EarlyOnlyStale`). For addresses (`tcp_close_live`): a cached
peer is always the current one; a local address asked for during a connection
attempt that fails is kept and given for ever after (`StaleOnlyIfAskedEarly`).

Two runs contradict the README:

* `ssl_sent`: a write callback is said to run "on data sent". It runs for each
  512-byte chunk: the socket takes the first chunk of a write and not the second,
  and the callback runs for the first. A script that closes there, as the
  README's does, cuts its data short.
* `ssl_readme`: the README's handshake callback prints a line and returns
  nothing, which counts as a refusal: its server closes every connection.

## Proofs

Eight modules prove theorems, for any set of objects, handles, resolvers or
calls (finite, for the calls of a resolver) and any bounds that satisfy the assumptions named
in the modules (`NoneAssumption`, `BoundAssumption` and their like, all of them
evaluated by TLC in the runs).

| Theorem | Says |
|---|---|
| **`UVTcpProofs`** | |
| `Invariance` | `Spec => []IInv` |
| `TypeCorrect`, `FlagsMirror` | the conjuncts of `IInv` about types and about the flags that mirror libuv |
| `CountsExact`, `PinnedIsSafe`, `TargetHeld`, `CrashesExplained` | the safety properties that `tcp_pair` checks |
| `PinLastsUntilClosed`, `CloseFrees`, `CancelledConnectIsSilent` | its action properties |
| `RefinesContract` | `Spec => Implements`: `UVTcp` implements `KeepAlive` |
| `AddrInvariance`, `SocknameCurrent`, `PeernameCurrent` | `AddrSpec => []AddrIInv`, and the two properties of cached addresses |
| **`KeepAliveProofs`** `PromiseKept` | in the contract no object that was pinned since its handle was opened dies before that handle is closed |
| **`UVUdpProofs`** `Invariance`, `FreedUnpinned`, `RefinesContract` | the same for `UVUdp`: its invariant, its only use of freed memory, the contract |
| **`UVHandleProofs`** `Invariance`, `CountsExact`, `WatchersAlive`, `StrandedObjects`, `UseExplained` | all safety and action properties of run `handles` |
| **`UVResolverProofs`** `Invariance`, `CountsExact`, `Outlives`, `Overtaken`, `OneAnswer` | all safety and action properties of run `resolver` |
| **`UVRequestProofs`** `LoopsOutlive`, `EarlyIsStale`, `UnsafeExplained` | all safety properties of run `request`, for any number of sockets and requests |
| **`UVSSLObjectProofs`** `SslInvariance`, `SslConsistency`, `SslSafety`, `ResolutionKeepsObject`, `ListenerOutlivesHello`, `SslUnsafeExplained` | the inductive invariant `SslInv` and all properties of run `ssl_object` |
| **`UVSSLProofs`** | |
| `SessionInvariance` | `Spec => []IInv`, for any certificates, sets of callbacks, message sizes and number of writes |
| `NothingBeforeAcceptance`, `NoMessageLost` | the safety properties that `ssl_pair` checks |
| `NoMessageInvented` | a read callback gets at most what the other end wrote, also while ends fail and close |
| `JudgedOnce` | the verdict of the handshake callbacks is given once: a refusal stays one and an acceptance stays one |
| `WildcardMatch` | a wildcard name matches exactly when the host name goes on, from its first full stop, with the rest of the wildcard name |
| `CommonNameMatch`, `MismatchMeans` | any common name without a null byte counts as a match, whatever the host name: the test in `ssl_verify.c:82` is never true, so only certificates without a usable common name can be reported as a mismatch |

For `UVTcp` the argument is one inductive invariant, `IInv`, checked
by TLC in `tcp_close_live`. None of the properties is inductive alone. That a
count is exact (`RefCountExact`) needs to know that a reference dropped exists;
that a pinned object is alive (`SafeDelivery`) needs the exact count, because
the object dies when the count says so; that the code after a callback finds
the object needs `FrameHeld`: callbacks run only on objects with INTERNAL_REF,
because (`PendingPinned`) only such objects have callbacks or requests; and that
INTERNAL_REF goes only when the handle is closed needs `FlagMirrors` for the two
flags that say what libuv knows. `Lifecycle` ties the ends together: what is
true before birth, after death, and once closed. `IInv` is the conjunction; the
module has one lemma per action, with the conjuncts in five groups.

The action properties look at one step from a state that satisfies `IInv`: each
lemma finds the actions that can take such a step and discharges the others from
the definitions. The refinement goes the same way. Four lemmas say what the code
shared by the actions means for the contract (`Hidden`: nothing it sees changes;
`Appears`: creation; `TakesSelfReference`: pin or nothing; `StartsClose`: start of
the close or nothing), and every action is an instance of one of them, except
the three in which an object can die: `Drop` is the contract's `Die`,
`tcp_close_cb` its `FinishClose`, and `LibuvTouchesFreed` its `Break`.

`UVUdp` follows the same plan, with use after close in all of it. Its `IInv` (run
`udp`) counts two references where `again` is set and says where that can be:
never on an open handle, and on a closing one only while it has a socket, which
makes libuv abort. Since `setCallback` does not look at the bit, `Lifecycle` has
to say when it cannot reach its last lines: a handle that holds its reference and
is open or reopened is receiving. In the refinement the state of a handle is
mapped too (`Handle`: one that is `ending` is closing, one that is `reopened` is
open), `setCallback` may be a `Pin`, a `Reopen` that pins, or a stutter (`Pins`),
`bind` and `sendTo` a `Reopen` that does not (`Reopens`), and an object can also
die when a callback returns (`DiesInReturn`): that of a send whose socket was
reopened without callbacks.

`UVHandle`'s `IInv` adds to its properties that an object lives exactly as long
as it has references, that a set start bit stands for one of them, and that the
watcher of a started object stands still only for the two reasons `Halted` names
(`HaltExplained`). The exact number of references that `start` and `stop` leave
behind is in it (`SelfRefsExact`), so `StrandedExplained` follows: an object alive
without script references has such a reference, hence was restarted or counts as
started, and if libuv does not call it then it is halted. `UVResolver`'s counts a finite set: `rc` is `held` plus the
cardinality of the requests in flight, so the lemmas on adding and removing one
request cite `FiniteSetTheorems`; `Lifecycle` adds that the slot of a pending
request names a call that has overtaken it, or itself.

`UVTcpAddress` adds two facts to `IInv`, which make `AddrIInv` (run
`tcp_close_live`): which states of the handle have an address (`AddressInUse`),
and in which of them an answer was cached (`CachedWhen`). Together they say that
no socket that holds a cached answer is given another address, but for an answer
it asked for during an attempt. The steps of `UVTcp` need not be gone
through again one by one: `AddressMove` lists the few things that any of them
can do to the handle and its connection, `StepMoves` proves it for each action,
and the rest of the proof only looks at those.

`UVRequest` has three invariants. `LoopInv` needs nothing of `UVUdp` but which
steps can make a socket live: `NoRevival` says that only construction does, and
the rest is that the own loop is deleted only in a step after which no object
refers to it. `StopInv` says where a stop flag comes from. `ReqIInv` is about
memory, and there the sockets matter: it is `SweepInv` and the invariant of
`UVUdp` itself, by an instance of `UVUdpProofs` in which a socket that the sweep
took no longer counts as pinned. Under that reading each step on a socket is one
of `UVUdp`'s, so its theorem about steps is used as it stands, and only the
sweep, which `UVUdp` does not know, has a proof of its own.

`SslInv` (run `ssl_object`) cannot contain `UVTcp`'s `IInv`, for `UVSSL` breaks it: a
failed connect by name takes back the reference of an object whose handle is
open. It weakens `SafeDelivery` by exactly those objects (`unresolved`), keeps
the exact count, since `on_addrinfo_resolved` gives back what the request took,
and adds what the three pointers without a reference point to: `SslLifecycle`
(what is being resolved, or listens, was pinned), `SslFrame` (in `sni_cb` the session has its listening object, and
is open unless a failed connect released it), `SslListener` (that object was pinned). `LookupFindsObject`
and `HelloFindsListener` follow from it; `UnsafeOnlyHere` is a part, proved for
the steps that can touch memory and carried over by the others.

`UVSSL`'s `IInv` (run `ssl_pair`) has three parts, and the proof that a step keeps
it has one lemma per action for each. *Types*: every queue is a sequence of chunks. *Judged*: which states of the
session and which running callbacks go with which verdict; `AcceptedBeforeUse`
and `JudgedOnce` need no more. *Flow*: what is on its way to an end, its BIO
followed by the peer's wire and queue (`Inbound`), in terms of what the end has
yet to do. That no message is lost is not inductive, because
what the end of the handshake leaves in the BIO is whole messages of data only if
the ends agree where the handshake is. `Orderly` says that they do: while nobody closes, the pair of
handshake states takes only the eight values of `Progress`, and what is inbound is
the one handshake message this end waits for (`Awaited`), then data, and that only
when the sender is through (`Follows`). Then a read that ends the handshake
leaves nothing but data, and the loop over `SSL_read` hands over all the complete messages.
The lemmas about these sequences come first: joining
two adds their messages (`MessagesConcat`), cutting one loses none (`Cut`), taking a
message off the front leaves the rest (`FollowsAfter`). They are stated for any
sequence, so that sizes and numbers of messages need no bound. `NothingInvented` is kept apart, as an
inequality, since it also holds while ends fail and close.

Every safety property and every action property that a passing run checks is
stated by a theorem. Only model-checked is the liveness: `CloseCompletes` of
`UVTcp` and `UVUdp`, `RecurringIsServed`, `EveryRequestAnswered`,
`HandshakeEnds`, `WriteArrives` and `ClosePropagates`. Liveness under fairness
and statements about ENABLED are outside the prover's reach and stay with TLC;
so do the three violations, which are counterexamples and need no proof.

## Assumptions and omissions

* A script does not run the loop from inside a callback, and does not throw
  through libuv's frames (an exception would skip the rest of `read_cb`).
* A closed or closing TCP socket is not listened on or connected again (use of a
  closed UDP socket is modelled). The address that a successful `bind` before a
  failing `uv_listen` leaves on a TCP socket is left out (`OpenFailed`).
* libuv is the one the code was written for, built with assertions. For UDP its
  cancelled sends are called back after it has tested for a new socket; a
  version that tests again afterwards aborts where the model leaks a reference. A
  `bind` that is refused leaves nothing behind.
* A timer or idle handle that its own callback destroys is taken not to be read
  again by libuv (`Return` of `UVHandle`). Old versions of `uv__run_idle` read the
  queue link of the handle after its callback; the repository does not say
  which version it is built with.
* `stop()` of the request that is still running is not what `EarlyOnlyStale` is
  about: it speaks of runs that nobody stopped.
* Where libuv may look at freed memory the model says that it does:
  `uv_loop_close` looks at all handles (`CloseTouchesFreed`), though it stops at
  the first one that keeps it from closing; a late answer to a name lookup on a
  closed handle is a crash (`ResolvedLate`), though libuv may refuse to connect.
* `UVRequest` has one loop of the script's own per request and one that runs at a
  time: no run from inside a callback, no end of the request inside one. The default loop serves one request
  at a time; libuv does not allow threads to share it, and the code does not
  prevent it. A socket is bound once. `makeDefaultLoop` leaks the loop its
  constructor made, which no property is about. The sweep deletes
  the handle of each object once: that `releaseHandle`, called from the sweep of
  a socket with only its self reference left, enters the release of the same
  object again is left out. After a fault nothing is modelled.
* Except in `UVRequest`, between any two callbacks of one `uv_run` the main script may act. In the
  program it acts only between runs, so the model has more behaviours than the
  program; likewise each callback of the closing phase is a step of its own.
* Payload bytes and malloc'ed request memory are left out: nothing in the
  properties depends on them. (A `uv_write` that fails at once leaks its
  request.) Addresses are numbers, or just "has one" for UDP.
* A TLS script does not write from inside a verification callback, a session
  asks at most once about the chain, and bytes that were sent before a close are
  read by the peer (no reset). A read of length zero, which passes an empty string
  on, is left out, and so is a second read in the same poll, which libuv does
  when the first one has filled its buffer. A message that OpenSSL rejects by itself may come
  at any point of the handshake.
* In `UVSSLObject` a connect by name is made on an idle or a connecting handle;
  the code does not ask, and the states behind it are reached by other orders.
  There writes and `shutdown` are left out: they are `UVTcp`'s, and
  `tcp_pair` has them. A `null` connect callback is taken to be skipped.

## Not modelled

* `UVSSL`: `setCert` and `setPrivateKey` only pass files to OpenSSL contexts;
  the choice of TLS method and the number of contexts (`nContexts`) are made once in the
  constructor; which context the servername callback picks is a matter of
  certificates, and every certificate of a server is tried by `ssl_pair`.
* `UVLoop::now`, `updateTime`, `backendFd`, `backendTimeout` return what libuv
  says or change only libuv's clock.
* `UVUtil` and the registration code keep no state. Build scripts and test
  drivers are not part of the running system.

## Plan

1. *Done:* `UVTcp`, `UVTcpAddress`, `KeepAlive`, `UVHandle`, `UVUdp`,
   `UVUdpEcho`, `UVResolver`, `UVRequest`, `UVSSL`, `UVSSLObject`, `SslVerify`,
   `UVSSLReadme`, their instances and runs.
2. *Done:* an inductive invariant for each of the component modules, the
   refinements of the contract by `UVTcp` and `UVUdp`, all safety and action
   properties of the passing runs.
3. Proofs: that a run of `UVRequest` in which nothing is swept is one of `UVUdp`,
   and a run of `UVTcpAddress` one of `UVTcp`, as refinements; that `UVSSLObject`
   keeps the contract for objects that connect by address.
4. The other handle classes on the loops of `UVRequest`.
