# TLA+ models of tailcat

tailcat connects two processes that share nothing but an address: a server
publishes its key, a client registers with it through a DERP relay, and the two
then exchange TCP connections and UDP flows over an encrypted tunnel (an H3/QUIC
session, or packets through a user-space network stack). This directory models
the parts of that program in which the order of events matters, checks them with
TLC on small instances, and proves most of their safety properties with TLAPS for
all instances.

`PROJECT.json` holds the machine-readable side: components, runs, the source
lines every definition stands for, a mutant for every property, hazards and
theorems. Comments that begin with `Bug:` mark the mutants: they are
not part of any specification.

## 1. Inventory

### H3 client admission and leases (`tailcat.go`, `h3_clients.go`)

State: the allow list, the client table `clients` (at most `h3MaxClients`
nodes), the published network map `nm`, `nextClientID`, the `sync.Map`
`clientLeases` of one atomic word per client (session state and whole-second
time, or the tombstone), the mutexes `admissionMu` and `mu`, 32 worker slots.

Operations: an authenticated bootstrap packet takes a slot and runs `onMeow`
(admit, repeat, refuse, or retire the longest idle client and admit);
`retireH3ClientLocked` scans, re-checks and claims a lease by compare-and-swap,
withdraws the client, and `onMeow` then drops `mu` to let the engine tear down
its transport; `onH3SessionState` publishes session events on the lease without
any mutex; `AddAllowedClient` changes the allow list.

Hard: two mutexes of which one is dropped half way; a lock-free callback against
a claim; checks made before an unlock and relied on after it; whole-second
times; node IDs that must stay unique while the table shrinks.

Correct if: the table never exceeds its limit; an established session is never
retired, nor one in its grace period; a tombstone is final; a session never
outlives its authorisation except for the moment of its teardown; an identity
never comes back before its old session is gone; every packet is decided.

### Client lifecycle and bootstrap (`tailcat.go`, `h3.go`)

State: `started`, `lb`, `startMu`, `meowWait` (a channel closed by the first
acknowledgment), `upDone`, the per-process bootstrap nonce; on the server, whether
the client is registered. Operations: `ensureStarted`, `Ping`, `up` as used by
the Dial methods and `DiscoPing`, `Close`, the relay callbacks of both sides.
Hard: a relay that loses, duplicates and reorders; a client process that restarts
with the same key while old packets are in flight; a server that forgets.
Correct if: startup runs once, only an acknowledgment of this very process brings
it up, and resending gets through.

### Server listeners, filter and flow dispatch (`listen.go`, `h3_streams.go`, `tailcat.go`)

State: the listener maps for TCP and UDP, the listeners with their `conns` and
`closedc` channels, the packet filter installed in the engine. Operations:
`Listen`, `Accept`, `listener.Close`, `Server.Close`, `buildFilterLocked`, the
netstack handlers and `h3TCPHandler`. Hard: a port closed and opened again, flows
handed to a listener that closes, two dispatch paths that must apply one policy.
Correct if: the maps hold exactly the open listeners, the filter follows them,
both paths serve the same ports, and nothing stays blocked on a closed listener.

### DERP map cache (`tailcat.go`, `cmd/tailcat/tailcat.go`)

State: one cache entry (map, ETag, time stored), in memory or as two files.
Operations: `fetchDERPMap` with `Get`, revalidation and `Put`. Hard: file
operations of several processes interleave; a process is killed between them.
Correct if: only published maps are returned, and never one that was replaced
longer ago than the freshness window, unless the network failed.

### UDP flows (`tailcat.go`)

State: of the idle timer, deadline, timer and `closed`; of the proxy, two pumps,
the caller that waits for them, the local socket. Operations: `touch`,
`checkIdle`, `Close`; `ProxyPacketConns`. Hard: the timer's goroutine races with
activity and with `Close`; a pump blocked in a `Read` is woken only by a close.
Correct if: a flow is closed once, never while it is in use, always when it is
idle; the end of one pump ends the other and both sockets.

### Connection proxying and commands (`tailcat.go`, `tailcat_exec.go`)

State: the two connections with their TCP states, a goroutine per direction, the
wait for both, the waiter entry of `closeProxyConn`. Operations: `ProxyConns`,
`runConnCommand`, `closeProxyConn`. Hard: directions end in either order, or fail;
a FIN may need retransmission after the proxy is done with the connection; the
state of an endpoint changes while it is being looked at. Correct if: neither
direction is cut by the end of the other, a half-close is passed on, the last FIN
is not lost, and everything is closed once both ends have finished.

### Forwarding (`cmd/tailcat/forward.go`)

State: the listeners and their goroutines, the map `active` of local connections,
two wait groups, the context. Operations: accept, dial and proxy, and the cleanup
after a signal or a mapping that fails. Hard: a connection accepted while the
cleanup starts. Correct if: the cleanup misses no connection, and ends.

### The default pipe, draining and exit (`cmd/tailcat/tailcat.go`, `tailcat.go`)

State: the client's standard input, its connection and FIN, the server's handler
per connection, its standard output, what `DrainTCP` waits for. Operations:
`clientMode`, the one-shot handler of `server`, `Client.DrainTCP`,
`Server.DrainTCP`. Hard: each network stack lives in its process, so an exit
throws away what was not sent or would have to be sent again; two exits wait for
each other. Correct if: a client that exits well was delivered in full, a server
that exits well was heard, and neither waits for ever.

### Addresses, regions and keys (`wire.go`, `pickregion.go`, `tailcat.go`, `cmd/tailcat/tailcat.go`, `web/main_js.go`)

State: key files, the key a browser page stores, the addresses that were printed.
Operations: `genkey` in all its forms, the start of a server from a key,
`tailcatListen`; `ConnInfo.Addr`, `ParseAddr`, `Expand`, `Resolve`,
`PickBestRegion`. Hard: the same region is computed by different code on the two
sides, from what the encoding has dropped and restored; key files are truncated
and written in two steps. Correct if: a printed address leads a client to the
relay its server waits at, today and after a restart.

### What a server serves, and SSH (`cmd/tailcat/tailcat.go`, `tailcat_ssh*.go`)

State: the configuration made from the command line; the host key file and the
mutex around it; per connection the key, the host key shown and what was run; per
session the goroutines, the process, its output, the terminal. Operations:
argument parsing and the handlers built from it, `hostKeyFileOrCreate`,
authentication, shell, exec and subsystem requests, `runWithPipes`, `runWithPTY`
on Unix and on Windows. Hard: filter and gate are computed apart from each other;
two first connections make the host key; the process may die while writing it;
`cmd.Wait` discards unread output; a Windows console can only be closed while its
output is read; the goroutine that sets the window size outlives the handler.
Correct if: only what was asked for is reachable, for those it was meant for,
under one host key; output comes before the exit status; a session ends.

### SFTP file service (`tailcat_sftp.go`, `tailcat_files.go`)

State: the directory, per session the map `wrote` of what it uploaded, the
requests in progress, the end of the session. Operations: every handler of
`rootedFiles` in the four modes, the exit status and close of
`sftpSubsystemHandler`. Hard: several workers and sessions use names that the
owner of the directory may empty and fill between two steps. Correct if: a drop
box loses, replaces and shows nothing of others, and a session changes only what
it uploaded.

### Not modelled

* Endpoint advertisement (`onEngineStatus`, `advertiseEndpoints`, `disco.go`):
  hints without retry or acknowledgment, on which no state of this code depends.
* SOCKS and `ping`: SOCKS answers a request with the Client and `ProxyConns` that
  are modelled, and keeps a map of clients under one mutex; `ping` prints in a
  loop.
* `ssh`, `cp`, `ls`, `browse`: they build the arguments of other programs.
* The JavaScript bridge of the browser build beyond `tailcatListen`: its
  scheduling is that of the browser.
* `localhost` DNS: the encoding of one answer.

### Outside the project

The engine (H3/QUIC, magicsock, netstack), DERP, the SSH and SFTP libraries and
the operating system are external. The models use only what the code here relies
on: a session callback runs for one event of a peer at a time; `ResetDevicePeer`
returns after the session is gone; the relay may lose, repeat and reorder but not
forge. Build, install and release tools are not part of the running system.

## 2. How the parts interact

A key becomes an address and a region on each side (Rendezvous, over Address);
starting either side fetches the DERP map (DerpMapCache). A bootstrap packet
(Bootstrap) starts an admission (H3Admission); an admitted client may set up a
session, whose events come back as lease callbacks. The session carries the flows
that Services dispatches to listeners or to the handlers the command line asked
for (ServeConfig). UDP flows are proxied under an idle timer (UdpFlow, which
extends IdlePacketConn), TCP connections by ProxyConns, which Forward puts into
the command of that name; connections to the SSH port go to SSHServer, whose
sessions are SSHSession for a process and DropBox for files. Without arguments
both sides are a Pipe.

Each composition that shares state is a module that extends the other: UdpFlow on
IdlePacketConn, Forward on ProxyConns, Rendezvous on Address, SSHServer on
ServeConfig. The others meet at one fact each: Bootstrap sees admission only as
"registered, until the server forgets", which H3Admission and a server restart
both justify; SSHServer sees a session only as what is run in it.

## 3. Modules

| module | models |
| --- | --- |
| `H3Admission` | `onMeow`, leases, retirement, session callbacks, worker slots |
| `AdmissionPolicy` | what admission promises, without locks, leases or time |
| `Bootstrap` | client startup, `Ping`, `up`, relay, registration |
| `Services` | listeners, filter, dispatch of flows, `Server.Close` |
| `DerpMapCache` | `fetchDERPMap` over the memory and the disk cache |
| `ProxyConns` | `ProxyConns`, `runConnCommand`, `closeProxyConn` |
| `Forward` | `runForward`, `forwardListener` around `ProxyConns` |
| `IdlePacketConn` | the idle timer of a UDP flow |
| `UdpFlow` | `ProxyPacketConns` on a flow with its idle timer |
| `Pipe` | `clientMode`, the one-shot server, both `DrainTCP` |
| `Address` | address codec, region choice: pure operators |
| `Rendezvous` | `genkey`, key files, server start, `tailcatListen`, client |
| `ServeConfig` | from the command line to filter, gate and SSH options: pure operators |
| `SSHServer` | host key, authentication, requests, the server process |
| `SSHSession` | `runWithPipes`, `runWithPTY` for one session |
| `DropBox` | `rootedFiles`, `sftpSubsystemHandler` |
| `*Proofs` | the theorems about the module of that name; `ProxyConnsProofs` also about `Forward`, `ServicesProofs` about `UdpFlow`, `BootstrapProofs` about `Rendezvous`; `SSHProofs` about `SSHServer` and `DropBox` |
| `MC*` | symmetry sets and constants that a `.cfg` file cannot write |

### H3Admission

One action is one stretch of code between two points at which another goroutine
can interfere. A worker's `pc` runs through `start` (waiting for `admissionMu`),
`check` (waiting for `mu`), `scan` (one atomic load per client, in any order, as
Go ranges over a map), `cas`, `forget`, `reset` (the engine call, with `mu`
free), `admit` (waiting for `mu` again) and `ack`. `mu` and `admissionMu` hold
the worker that owns them; short critical sections of other goroutines only
require `mu` to be free. A lease is named by the node ID given out with it, so a
callback that holds on to an old lease is told apart from one that found the new
one. A lease word is a record `[st, at]`; `at` is the tick rounded down to its
second, which is what the word stores. `touched` is a history variable with the
exact tick.

Abstracted: keys are model values, the address a client gets is left out (it is a
function of its key), a network map is the function from peers to nodes it is
built from. The empty allow list is Go's nil map, which allows everybody.

### AdmissionPolicy

`authorised` and `connected`, and four steps: join while there is room, leave
while not connected, connect, disconnect. The refinement mapping reads
`authorised` as the clients whose lease is not a tombstone: an identity leaves at
the compare-and-swap of `claimRetirement`, not when it is removed from the map,
because a callback between the two can no longer change anything.

### Bootstrap

The relay is a set of packets: a packet in it can be delivered any number of
times and in any order, and can vanish. A lifetime number stands for the nonce of
a client process; `NewLife` replaces the process and keeps the relay. A send on a closed client does nothing. A packet `onMeow`
refuses, or that finds no slot, is a packet lost.

### Services

Maps are indexed by `<<network, port>>`; listeners are numbered as they are
created, so a second listener on the same port is another listener. `Lookup` is
the critical section of `listenerMu` in the handlers; handing over on the
unbuffered channel is a joint step of flow and acceptor. Dispatch of destinations
other than the server's own address is abstracted to its effect on the filter.
Whether forwarding is configured is chosen at the start.

### DerpMapCache

On disk `Get` is three steps (stat, data, ETag) and each `os.WriteFile` of `Put`
two (truncate, write). Contents are a version, nothing, or torn. A tick is longer
than a fetch, since a fetch is cut off after ten seconds and the window is an
hour, so time advances only between calls. `cache` is chosen at the start;
`shared` records that two processes have used the disk cache at once.

### ProxyConns

Side `a` is the tunnel connection (netstack or H3 stream), side `b` the backend: an
operating system socket, a connection without `CloseWrite`, or a command, whose
output and input are the two halves of `b`. `tcp` follows the states of a TCP
endpoint, because `closeProxyConn` asks for them; data is a number of chunks. The
network may withhold acknowledgments for ever; a reset loses what was unread. An
endpoint in CLOSING need not report that it went on to TIME-WAIT.

### IdlePacketConn

Times count down, which removes the need for a bound on the clock. `checks` are
goroutines the timer has started that have not got `mu` yet. `quiet` is history: for
each user, the time since its last successful read or write, up to the timeout.

### UdpFlow

Extends IdlePacketConn, whose users become the two pumps and the caller. Each
pump alternates between the flow and the local socket; datagrams are not kept. A
socket may fail at any time, and a closed one must.

### Forward

Extends ProxyConns with the accept loop and the cleanup of `runForward` around
one connection; side `b` is the local one. `main = "none"` is the same proxying
on a server. A context that is done makes a dial return but does not exclude its
success. `active` and `connectionsWG` are read off the state of the connection.

### Pipe

Per client the pieces of standard input it still has to read, what its stack has
taken, what the server's stack has, and what is written to standard output. A
FIN is queued, received, acknowledged. Nothing moves once one of the two
processes has ended, and the loss of the session ends a connection with an error
on both sides. The one-shot handler runs for every connection, as `OnTCP` does
not count them. Clients may be killed; a server that is killed is not modelled: to a
client it is the loss of the session.

### Address and Rendezvous

Address holds pure operators; one that can fail, or that depends on chance or on
measured latencies, returns the set of its results. The bytes of the encoding are
left out, but not what it drops (STUN-only nodes, region IDs, names that repeat a
host) and what decoding puts back. The loop that drops nodes is a recursive
function, for the proofs' sake. Rendezvous gives every use of a key its
actions: `genkey` with each valid combination of flags, as three steps with a
crash between truncating and writing; a server started by the command or by a
page; and the client's way from an address to a region, resolved first or not. Two
relays meet when they are meshed (`Home`). `first` is history: the first address
that each key got, per kind of server, kept for ever.

### ServeConfig and SSHServer

ServeConfig is the path of `server()` from its arguments to the `Server` it
configures, and of `SSHConnHandler` from its options to the handlers. Port numbers
have `Width` bits, because `portRanges` adds one to a port; `portRanges` is a
recursive function over the sorted list of ports. SSHServer adds the
process, which may die at any point and come back with other arguments, the host
key file (created, then written), and connections up to what their requests run and
with which `TAILCAT_PEER_KEY`: on Windows the environment of a shell begins with the
server's own, on Unix with a minimal one (`Platforms`).

### SSHSession

One session in one of three modes. The handler, the copies, the window size
goroutine, the process, what it leaves behind and the client run concurrently.
Output is counted; a pipe or terminal holds `Cap` of it. `cmd.Wait` empties the
pipes; `ClosePseudoConsole` returns when the output has been read. Nothing waits
for the copy of standard input, so it is left out. That waiting for a console's process
fails (`tailcat_ssh_windows.go:152`) is not modelled.

### DropBox

A tree of paths that name inodes, and requests served by several workers, split
where a handler gives up `h.mu` or returns to the file system by name. `wrote` is
the code's map. `adjusted` (who wrote to or changed an inode; not kept in read-write
mode, where anyone may) and `taken` (per session, the paths from which the owner took
something that session had created) are history. Symbolic links are made and removed,
not followed.

## 4. Runs

| run | checks | instance |
| --- | --- | --- |
| `admission` | type, client bound, no orphan session, established never retired, tombstone final, fresh admission, grace period | 2 peers for 1 place, 2 workers, 3 admissions, ticks of half a second |
| `admission_live` | every packet is decided; refinement of AdmissionPolicy | 2 peers, 2 discovery keys, 2 workers |
| `bootstrap` | no stale acknowledgment, pings get through | 2 callers, 2 lifetimes, the server forgets once |
| `services` | maps hold the open listeners, both paths agree, nothing blocked | 2 ports, 2 flows, 1 acceptor, 2 listeners, with and without forwarding |
| `derpmap` | only published maps, staleness bound | 2 callers, 3 versions, 4 ticks, both caches |
| `proxy` | no truncation, FIN not lost, no missed hang-up, half-close passed on, closes when both finish; an interrupted forward ends | all pairs of ends, 2 chunks each way, on a server and in `forward` |
| `udp_flow` | the timer closes only what was quiet for a timeout, idle flow closes (once), a close ends the proxy | 2 pumps and the caller, timeout of 4 ticks |
| `dropbox` | only own files adjusted, answers hide others, nothing lost, read-only is never changed | 2 sessions with a worker each and the owner, all 4 modes, 4 request paths, 1 or 2 new inodes |
| `rendezvous` | the server's and genkey's address lead to the server's relay, a key keeps its address | 2 key files, 2 genkeys, 1 server restarted at will, 2 regions and a relay outside the map |
| `serve` | filter and gate agree, only what is served and for whom, one host key, truthful peer key | 3-bit ports, all pairs of 11 things to serve with every form of command, files and keys; 2 connections, both platforms, a server whose own environment names a peer |
| `ssh_session` | output before status, resize on an open handle, session ends | 3 modes, a buffer of 2, 3 pieces per stream |
| `pipe` | delivered on success, EOF before exit for all that are waited for, both end | 2 clients of up to 1 piece each |

Every module with state has a type invariant. Only that of `H3Admission` is part of
a run: they are all proved, and a run is spent on what could be wrong. `NetmapInSync`, `LeaseOfClientIsLive`
and `NodeIDsNeverReused` are proved and need no run.

Why the bounds are enough to be interesting. One place and two identities is the
smallest instance in which a retirement happens; three admissions let a retired
identity come back and be retired again while callbacks of its first session are
still under way; two workers contend for both mutexes. The grace period needs a
clock finer than the second: one second is two ticks. In Bootstrap two lifetimes
give stale packets, one loss of registration gives a stale `upDone`. In Services
two listeners give a port opened again after being closed, with one served and one
unserved port for each network. In DerpMapCache three versions and four ticks let
an entry expire twice. In DropBox two sessions ask for the owner's names and for
one name each of the other's, in and below the directory, and one made-up name
makes `uniqueUploadPath` collide. In Rendezvous one region has a node that cannot
relay, so dropping it and keeping two nodes differ, and latencies include a tie
and one that counts as none. Three bits of a port give ranges at both ends, next
to the SSH port on either side, and the wrap-around of `Last+1`. In SSHSession
three pieces overfill a buffer of two. In Pipe a second client connects, ends or
dies while the handler of the first closes the output they share. Bounds that are
not the code's own (`MaxTime`, `MaxClientID`, `MaxLives`, `MaxForgets`,
`MaxListeners`, `MaxVersion`, `MaxChecks`, `MaxInodes`, `MaxKeys`, `MaxOut`,
`MaxChunks`) are named and appear only in guards and initial values.

Deadlock is checked except in `dropbox`, `rendezvous`, `serve`, `ssh_session` and
`pipe`, whose behaviours end: all sessions closed, all keys made, the process gone.

Fairness. A goroutine that can run does run (weak fairness of worker, caller,
callback and timer steps). `LockAdmission` and `CloseConsoleLock` are strongly
fair, because a Go mutex in starvation mode is handed to the longest waiter. The
ticker of `ping` goes on sending, timers and deadlines expire, and a dial returns
once its context is done. What is written to a proxied connection, to an SSH
client that is there, or to the server's standard output is eventually taken. A
packet that is sent for ever is not lost for ever (strong fairness of delivery in
Bootstrap; in Pipe the stacks resend until the session is given up, which it is
when a process is gone). Nothing is assumed of users: they need not call, close,
accept, connect, send, end their input or interrupt, and datagrams need not arrive.

## 5. Behaviour worth knowing

The models contain these behaviours of the code. No property forbids them; where
one comes near, its comment says what it leaves out.

* `onMeow` does not look at the allow list again after the engine call, during
  which `AddAllowedClient` may have changed it (`tailcat.go:1730`).
* `upDone` is never cleared, so a client that was retired, or whose server
  restarted, dials without registering again (`tailcat.go:2123`); for the same
  reason a `Ping` after the first success returns at once.
* Processes that overlap on the disk cache can pair an old map with the ETag of a
  newer one, and every 304 then renews the old map
  (`cmd/tailcat/tailcat.go:854`). `BoundedUnlessShared` shows that nothing else
  breaks the bound.
* `runConnCommand` waits for the copy from the client before it closes the
  connection, also when the command has exited (`tailcat_exec.go:97`).
* An interrupted `forward` waits for a remote end that neither sends nor ends
  (`cmd/tailcat/forward.go:96`).
* With forwarding on, the filter admits all TCP ports of the server's own address
  and the packet path offers unserved ports to `OnTCP`, while the stream path does
  not (`GatesAgree` says exactly that). A `Listen` that runs beside or after
  `Server.Close` leaves a listener open on the closed server.
* A key made with `--region=auto` gets another address whenever the choice of a
  region comes out differently (`cmd/tailcat/tailcat.go:1887`). A region whose
  node that is kept cannot relay leads nowhere (`cmd/tailcat/tailcat.go:1988`).
* A one-shot server accepts every connection that comes before it exits; the first
  to end closes the output of the others (`cmd/tailcat/tailcat.go:1496`).
* A drop box's session may adjust the file that replaced its own after the owner
  emptied the path (`tailcat_sftp.go:265`), and is told its attributes
  (`tailcat_sftp.go:378`). `OnlyOwnAdjusted` and `AnswersHideOthers` say that this is
  all: other files are neither changed nor shown.
* A host key file that was created and not written is never replaced, and SSH
  stays shut (`tailcat_ssh.go:324`); the mutex around it does not reach other
  processes.
* With a forced command, and with any shell on Windows, a peer that is no longer
  known leaves the server's own `TAILCAT_PEER_KEY`, if it has one, in place
  (`tailcat_ssh.go:153`, `tailcat_ssh_windows.go:44`). `PeerKeyTruthful` says that
  there is no other way to a key that is not the peer's.
* A client that connects after `Server.DrainTCP` has looked for connections is not
  waited for, and may be left without an EOF (`tailcat.go:889`).
* When an SSH client is gone, nobody reads the output of its process any more
  (`tailcat_ssh.go:226`).

## 6. Proofs

Eight modules of theorems cover every module with state. For each of these (Forward
with ProxyConns, UdpFlow with IdlePacketConn) one inductive invariant is proved, `IInv`
or, where a module holds the proofs of two, `FlowIInv`, `FilesIInv`, `MeetIInv`, for
every value of the constants that the component's `ASSUME` allows, and the safety
properties of the runs are derived from it. TLC checked each of them on the instance of
the run before it was proved. The layout is the same everywhere: facts about
operators, the initial states, a lemma per action, or per kind of process, with a
step for each part of the invariant that the action can disturb, the next-state
relation, and the theorems, which combine these by temporal logic.

The assumptions are on constants alone: bounds are numbers, sets of names do not
contain the value that stands for nothing (`None`, `NoListener`, "free"), served
ports are ports, kinds of connections are kinds that the code has. `--files` is
one of the modes the program knows or a value it refuses. They are assumed in the
component's module, and TLC evaluates them in its run. Three say more. A DERP map
has a relay among the first two nodes of each region, and the relays of a region, or
of one list of host names given to `genkey`, are meshed with each other: `Resolve` and
`ConnInfo.Expand` rely on both. `SSHPort` is neither the first nor the last port
number, and 2^`Width` is a number, which the provers cannot find out. `MaxInodes`
leaves room for what the owner of a served directory has in it from the start.

### H3Admission

For any finite set of peers, any set of workers, and
any limit, grace period and clock resolution, `H3Admission` satisfies all the
safety properties of the run `admission` and three more (network map, leases, node
IDs), and it implements `AdmissionPolicy`.
None of the properties is inductive alone. `IInv` adds

* `Locking`: a mutex is held by the worker whose control point says so, hence at
  most one worker is past `admissionMu` or past `mu`;
* `Requests`: a worker that is not idle has a packet;
* `Leases`: table and lease map agree, and no two clients share a lease;
* `Scans`: what a worker knows of its candidate at each control point: an
  admitted client during the scan, a reclaimable word at the claim, a tombstone
  when it is withdrawn, and not a client while it is torn down; and that the
  requesting peer is not a client as long as the worker holds `admissionMu`,
  although `mu` is free;
* `Callbacks`: a callback about to swap has seen a word that is not a tombstone,
  and holds a lease that has been given out.

`LeaseStep` says that a lease word changes only by
the creation, a claim, or an update, each from the word it has seen; the theorems
on established sessions, tombstones and grace follow from it. `BoundedClients`
uses `Capacity`, which adds to the bound that one place is free while a worker is
between withdrawal and admission. `GracePeriod` uses `Times`, which relates lease
word and exact time. `Refinement` maps `Admit` to Join, the successful claim to
Leave, the callback's swap to Connect or Disconnect, and every other step,
`Forget` included, to a stutter.

### Bootstrap

`UpOnlyIfAcked` needs `AcksTruthful`: an acknowledgment in the relay carries a
nonce the server has answered, and nothing carries the nonce of a lifetime to
come, so a new lifetime starts without any. `SingleStartup` (exactly the holder
of `startMu` is starting the client, and then nobody has started it) is proved
beside it, with `WaitsStarted`.

### Services

`OpenIsRegistered` is inductive once listeners are known to be numbered in the
order of creation (`Shapes`): `Listen` takes a number nobody has. `GatesAgree`
rests on `FilterIsCurrent`: while the server runs, the installed filter is the one
`buildFilterLocked` makes of the present listeners, so that comparing two dispatch
paths is comparing two conditions on the same maps. `ClosedIsFinal` is an action
property: a closed listener stays closed, on its port, and never gets a flow to hand
out again.

### UDP flows

`NoSpuriousClose` follows from `FlowIInv`: `Extended` (while a flow is open, its
deadline is at least a timeout after each user's last successful read or write,
unless the touch is still to come), `ClosedOnce` (who sets `closed` calls the
inner `Close`, once), `Watched` (the timer of an open flow is set to its deadline, or
has expired and a `checkIdle` is on its way), `Ends` and `Touching` (the order in
which `ProxyPacketConns` waits and closes). `ProxyUsesFlow` is a refinement: whatever
the proxy does with a flow, the flow behaves as `IdleSpec` allows any user.
`ProxyEndsClean`: once the proxy returns, both sockets are closed and both pumps done.

### DerpMapCache

`ReturnsAMap` holds for any number of overlapping processes, because what does not
decode is dropped before it is used (`Maps`). `BoundedUnlessShared` takes the rest
of the invariant. `CurrentSince(v, t)` says that version v has been the server's at
t or later. `StoreSound` says it of the entry and its modification time, and that
the ETag beside the data is never of a later map; it may be of an earlier one, when
a process died between its two files, and that is harmless: the ETag of an earlier
map never matches. `LocalsSound` says the same of what a call has read or is about
to write, and `Sole` that the disk cache has one user at a time.

### ProxyConns and Forward

The theorems are about `ForwardSpec`: `ProxyConns` on a server (`main = "none"`)
and inside a forward that may be interrupted at any time. `Conserved` counts what a
party has sent: in the buffer, in the hand of the copying goroutine, or with the
other party; equality holds unless something failed. `Orderly` ties the FIN sent to
one side to the end of the copy towards it, and that to the FIN of the other side
with nothing left to read; `NoTruncation` is these two together. `Closing` says
when a side is closed. `CloseActive` is the one step of `forward` that touches what
`ProxyConns` has, and counts as a failure.

### Pipe

A client's success is traced back: it read the server's FIN (`Eofs`), which only a
handler past `io.Copy` sends (`Handlers`), which has seen the client's FIN and
written what came before it (`Handlers`, `Data`), which the client sent after all
of its input (`Fins`). For the server, `Waits` says that `DrainTCP` waits for the
handler's own connection, and otherwise only for connections there are; the server
exits in time only when each of them has acknowledged its EOF or is lost, and stays
so: `EOFBeforeExit` is inductive beside `Waits`.

### SSHSession

`OutputBeforeStatus` needs `Counted` (`openStreams` is the number of copies at
work), `Output` (what was written is in the pipe or with the client, while there is
one), `Ended` (a copy that ended while the client was there had nothing left to
read and nobody to wait for) and `Phases`, what the handler's control point tells
in each of the three modes. `ResizeOnOpenHandle` is `Resizing`: the console's mutex
on Windows, and on Unix the duplicate handle that the goroutine alone closes.

### SSHServer

`HostKeyStable` needs `MutexHeld` and `KeyFile`: between reading that there is no
file and having written it, no other connection touches it; a key a connection goes
on with is the one in the file; and a key that was shown is the file's. A crash
while writing leaves a file that no connection gets past, so the statement survives
any number of restarts. `KeyIsForGood` is the same as an action property: no step
replaces a key in the file. `OnlyWhatIsServed` needs `Serving`, that every server that
runs has one of the accepted command lines, and `Authorized`, that sessions belong to
authorized keys; `ServersFacts` and `HandlerFacts` say what `server()` and
`SSHConnHandler` make of any accepted command line. `PeerKeyTruthful` is inductive:
the last value appended wins, and none that a client sends is appended.

`FilterMatchesGate` is about what `portRanges` makes of a list of any length.
`Induction` is induction over a set of numbers, from the library's facts about
well-founded relations; `AfterDef` uses it to show that the recursion is well
defined, and `RangesCover` that after each port of a rising list the ranges hold the
ports so far and no others, where `Last+1` cannot wrap because a later port is
larger. `RankFacts` shows, by induction over the size of a set, that ports have such a
list: the one `server()` sorts.

### DropBox

`OnlyOwnAdjusted` speaks of inodes, and the code keeps paths. `OwnPaths` says that a
path in a session's `wrote` map, or in the rest of a request, leads (`Leads`) to
something the session made, or is one where the owner has taken something of the
session's away (`taken`); `OwnFiles` says it of
files open for writing; and `OneName` that no two paths of a drop box share an inode,
so that nothing of the owner's is reached through a second name. `ReadOnly` says that
no request of a read-only service gets as far as changing anything.
`AnswersHideOthers` follows from `OwnPaths`: what a session's `wrote` map names is
among what it can see (`Visible`). `NothingIsLost` is the action property `NothingLost`, from the same
invariant and the guards of each action.

### Rendezvous

`AddressMeets` follows a key from `genkey` to a client. `RoundTrip` says what an
address decodes to: the same keys, ID and, region by region, the same relay hosts;
the loop that drops nodes is handled by `Induction`, as above. What an address was
made from is `Fit` if it leads to at least one relay, all meshed (`Dest`);
`ExpandFits`, `ClientFits` and `ResolveFits` say that a client then comes to some of
these relays and no others, whether it resolves the address first or not.
`ServerExpands` says the same of the server, with the nodes shuffled. `MeetIInv` then
has `SavedKeys` (a key, wherever it is kept, holds at most one region, with a relay,
and unless it leaves its region open holds one or names one), `PrintedKeys`, and
`ServersFound` (a server's region is among the relays that its own address leads to
and that its key's does). `KeepsAddress` needs `FirstGiven`: every first address is
one that its key can still give, and `GivesOne`: a key with a settled region can give
one only.

### Model-checked only

* Liveness (`EveryMeowIsDecided`, `PingGetsAck`, `NoneBlockedOnClosed`,
  `HalfClosePropagates`, `ClosesWhenBothFinish`, `ForwardEnds`, `IdleFlowCloses`,
  `CloseEndsProxy`, `SessionEnds`, `BothEnd`): fairness and ENABLED are beyond the
  prover.

Every invariant, every action property and the refinement that the runs check are
proved.

## 7. Plan

The model covers what section 1 lists, and what the provers can reach of the runs'
properties is proved. What could be added is `ProxyConns` as an implementation of what
a user sees of it: two one-way streams, each with its end, that fail only together.
The parts of the inductive invariant are those a refinement mapping needs.
