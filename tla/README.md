# A verification of TrustIX in TLA+

TrustIX joins the internet exchanges (IXs) of a domain. Each IX runs a daemon
that keeps a signed, hash-chained log of configuration events, replicates it
with its peers, learns who its peers are from their advertisements, and carries
traffic to them through encrypted sessions and an AF_XDP fast path. The modules
here model the parts of it whose correctness depends on the order in which
things happen. `PROJECT.json` maps every definition to its source.

## The system and the modules

API handlers take `configMu`, run a preflight sync, append to the log and change
the runtime. The peer poller and the peers' `POST` of events append under the
same lock. Membership, the data path and the reapers do not take it, and ask the
reconcile worker for help when a follow-up fails.

| Part of the system | Modules | State | Actions |
|---|---|---|---|
| Config log store (`internal/configlog`) | `EventChain`, `FileStore` | the log in memory, its file, what a power loss may leave of both | one per step of `writeFileAtomic`, their failures, pruning, kill, power loss, restart |
| Replication (`config_sync.go`) | `ConfigSync` | log and head of every IX, every sync under way | LearnHead, Compare, Fetch, AppendPulled, After, Push, mutation, rejoin, late push, restart |
| Mutations of one daemon (`config_api.go`, `config_log_recovery.go`, `daemon.go`) | `ConfigNode` | log, runtime, trust, signer cache, the request that holds `configMu` | one per step of apply, append, rejoin, trust, restore; a fault or a crash at each |
| Trust handlers (`trust_resource.go`) | `TrustMutations` | trust in force and the arrays its copies share | read, change, apply, pull, restart |
| Reconcile worker (`runtime_reconcile.go`) | `RuntimeReconcile` | pending, generation, wake channel | request, wake-up, one step per aspect, finish |
| Archive restore (`config_restore_archive.go`) | `RestoreFiles` | target files, backups | install, commit, roll back, crash |
| Membership (`membership.go`, `revocation.go`, `admission_resource.go`, `peer.go`) | `Membership`, `MemberGossip`, `MemberPaging` | member table, parked advertisements, their files, routes, sessions; advertisements of all nodes; a paged fetch | merge, park, prune, expire, persist, snapshot, poll, push, fetch a page |
| Provisioning (`ix_provision_resource.go`) | `ProvisionTokens` | tokens in memory, in the file and in what a power loss may leave of it, with or without a data directory | create, answer, consume, expire, crash |
| Sessions (`datapath.go`) | `DataSessions` | session table, dials, the kernel's records | dial, accept, keep, receive, drop, close, sync whole or in part |
| NAT (`nat.go`) | `NATTable` | bindings and their copy in the dataplane | upsert, lookup, evict, expire, configure, sync, refuse and take back |
| Secure transport (`transport/secure`) | `ReplayFilter`, `ReplayWindow`, `ReplayBits`, `SecureRecords`, `SecureHandshake`, `TLSHandoff` | window, records, keys, layers | seal, send, open, accept, hello, retransmit, leave TLS |
| Kernel UDP transport (`transport/udp`) | `KernelUDPSession` | queue, reassembly, kept packets | reader, receive, close |
| AF_XDP fast path (`dataplane/ebpf/af_xdp_linux.go`) | `AFXDPTransmit`, `AFXDPReceive`, `FastPathLifecycle` | rings, frames, leases, locks | send, kick, complete, receive, release, recycle, drain the backlog, attach, detach, roll back |

`MC...` modules are the instances for TLC, `...Proofs` and `ConfigNodeInvariant`
hold the theorems. A module of the daemon uses what another one guarantees:
`ConfigSync` and `ConfigNode` take the store as an atomic commit that may be
unsure, which is what `FileStore` shows; `ConfigNode` takes a reconcile as one
step, which `RuntimeReconcile` splits; `SecureRecords` extends `ReplayWindow`,
which implements `ReplayFilter`, over the words of `ReplayBits`.

## What is abstracted

- Canonical JSON and SHA-256 are a constant operator `Hash` assumed injective.
  Signatures, certificates and admin proofs are one nondeterministic refusal.
- `ConfigNode`: a log is the sequence of what its events say; the other IXs are
  one log. What `switchDesiredRuntime` does to listeners and flows is one step.
- `ConfigSync`: a mutation that fails before its append is only remembered as
  failed. The event it signed goes nowhere; what is recorded are commits.
- `TrustMutations`: an apply is one step, since it holds `configMu` throughout. A
  restart puts in force the trust of the latest trust event and then that of the
  latest desired event, which is any trust that was in force earlier.
- `RestoreFiles`: replacing the log and switching the runtime is one step
  (`ConfigNode` has the inside of it); reading the archive is left out.
- `Membership`: endpoints that need a grant, candidate ranking and the cache of
  the paging are left out, and so is the second close of the sessions of members
  just admitted, which repeats the one of their merge.
- `ProvisionTokens`: time is an action Expire. Without a data directory nothing
  is written; with one, a crash of the host leaves the file as it was at any
  rename since the directory was last synced.
- `DataSessions`: one peer, pools of one session, no device sessions. A peer's
  endpoint may lose its dial address only in the part with a restarting peer. A
  sync that fails leaves any part of the records written.
- `NATTable`: configure and the upsert after it are merged; the rewriting of
  outbound packets is left out. A configuration whose snapshot is refused is
  taken back; of the steps of that, only those on bindings are kept.
- `SecureRecords`: a sealed record opens to what it was sealed from. Crypto
  offload and buffer pools are left out. A batch is accepted record by record.
- `KernelUDPSession`: the listener's side; what a frame is dispatched on is data.
  Frames of a session the listener does not know, other than a hello, are
  dropped without an answer (`udp.go:1640`) and are left out.
- `AFXDPTransmit`: rings are sets, clocks are flags that say they have lapsed;
  segmentation and the flush at shutdown are left out. `AFXDPReceive`: a push is
  two steps, and so is a drain of the backlog, whose final copy and reslice are
  one; races on the backlog's slice are explored as interleavings of these steps
  only. A descriptor that is out of bounds still names the frame it came in. What
  the kernel does with a corrupted index after a push race is not explored.
  `FastPathLifecycle`: one socket for each path; what a snapshot holds is whether
  it calls for the path.

## Runs

A run is one question about one group of components. In the runs that combine
several, a variable `part` picks the component at the start, the others do not
move, and the properties are those of the component that does. This keeps the
instances apart (their states add up, they do not multiply).

| Run | States | What it asks |
|---|---|---|
| stores | 766 806 | Does the log survive failing calls, kills and power losses between any two system calls, a restore of files failing calls and kills, and the member table failing steps and restarts; who is left in it? |
| config_sync | 321 321 | Two IXs that both write: do logs that share an event share everything before it, does nobody commit two events of its own for a position, do logs only grow, are the reports of a sync true? |
| config_converges | 27 326 | Do the logs become equal, or really fork? |
| config_node | 1 384 223 | With at most two faults and crashes: do head, trust and signers follow the log, is every answer true, does a restart find the settings that ran, are the revocations in force those of the log until a restart? |
| control | 40 160 | Are requests for a reconcile served, do advertisements reach everybody, are members that left forgotten, does a paged fetch get round? |
| sessions | 878 157 | Do sessions leak, are records sealed and delivered once and in order, does the window implement its filter, does the UDP session lose or mix buffers? |
| sessions_live | 198 462 | Does a revoked IX leave and an admitted one come back; is the turn to dial given back, do the kernel's records heal? |
| transport_live | 76 601 | Do handshakes end in one key, do both sides leave TLS, do the calls of the UDP session and the fast path end, do frames move, unless the read loop ended on an invalid descriptor? |
| tables | 789 738 | Are tokens used at most once and usable while they should be, do NAT bindings in use stay, does their copy agree while one worker synchronises and the last snapshot was not refused? |
| fastpath | 907 844 | Is any frame for sending lost, shared or forgotten; is any received frame lost silently while payloads are copied, or offered twice while the read loop alone recycles; is a lease used up once; does anything touch rings that are unmapped? |
| trust_lost | violation | An acknowledged revocation is written away (finding 1). |
| fastpath_detach | violation | Detach and the read loop wait for each other (finding 2). |

Bounds, and why they are enough to make the interesting cases happen:

- stores: logs to 3 with a fork after the first event, so that a batch may chain,
  leave a gap or replace; 3 backups of which 1 is kept; 4 faults and 2 crashes
  over a restore of 3 files by 2 requests, one after the other; one remote IX
  with two advertisements and a handler beside the poller, or with a fault and a
  restart, or two IXs of which one is configured.
- config_sync: logs to 3 let two IXs fork after a common event and extend the
  forks, where comparing prefixes can go wrong. One request and the poller per
  IX; at most three of these four are under way at once (`MaxBusy`), two in the
  part with late pushes, unsure commits and a restart. The theorems have no such
  bounds. The two IXs are symmetric; the liveness run uses no symmetry.
- config_node: a log of 4 has a baseline, a trust event and a desired event after
  the genesis. Two faults are a failure and the failure of its rollback; a fault
  and a crash are a restart in the state a failure left.
- control: 2 callers and 2 requests for a pass over 3 aspects, so that a request
  arrives before, during and after the step that serves it; a hub with two
  leaves; 5 members in pages of 2.
- sessions: a window of 3 with numbers to 9, so that jumps fall short of it, meet
  it and pass it; words of 3 bits; 2 goroutines sending 3 packets, whose numbers
  go to 5, out of the window; 7 frames into a queue and an assembly of 1, one of
  them of a packet with too many fragments; 2 flows with a close or a failure, 1
  flow with both, a restarting peer whose address may go, 2 listeners.
- sessions_live, transport_live: one of each actor, one close, refusal or restart,
  three dials with at most two faults and restarts among them.
- tables: 2 tokens, 3 faults, 3 crashes; 3 flows of 2 hosts over 2 bindings until
  time 3; 2 flows with 2 reconfigurations and 2 refused snapshots until time 4.
- fastpath: 3 frames over a ring of 2; 4 receive frames in bursts of 2 with
  indices that wrap at 8, where a packet may panic the decoder or have an invalid
  descriptor; a consumer beside the loop; 2 operators, 2 senders, 3 calls.

Deadlock is not checked where a bound or the end of a call really stops a
component; `config_sync` and `config_converges` check it.

Fairness. Goroutines that are inside a call go on (weak fairness), and so do the
loops that run for the life of the process: poller, reconcile worker (its select
has a ticker), read loops, completion loop, retransmission timers, and the
kernel's side of a ring. Strong fairness is assumed of what is tried again and
again and may be refused in between: the poller's requests and appends, taking a
lock that others hold for a moment, a page fetch, the reaper. Faults, losses and
restarts are bounded, so that they end.

## What the violations show

1. `RevocationsKept` (`trust_resource.go:129`): the trust handlers read the trust
   under the read lock and write the whole value back under the write lock
   later, so that of two requests, both answered with success, the later one
   writes the earlier one's revocation away.
2. `OperationsEnd` (`af_xdp_linux.go:2415`): Detach and ApplySnapshot hold
   `manager.mu` while Close waits for the read loop, which needs it to deliver.

The following statements are kept in the modules and were found not to hold; no
run of the list above checks them.

| Statement | Why it fails |
|---|---|
| `ConfigSync.ConflictIsFork` | A pull that loses a race with a push of the same events is recorded as a conflict (`config_sync.go:971`); the next poll clears it. |
| `ConfigNode.RejoinPreservesDesired` | A rejoin does not record the running configuration when the new chain has any desired event of this IX (`config_api.go:486`). |
| `ConfigNode.TrustSurvivesRestart` | A start applies the desired event's trust section after the newer trust event (`daemon.go:858`). |
| `ConfigNode.SignersSurviveRestart` | A follow-up that fails after an append skips the caching of its signers (`config_sync.go:1012`). |
| `Membership.QuietMembersAdmitted` | A merge checks the admission and stores the member later, outside `configMu` (`membership.go:801`). |
| `Membership.PrunedSessionsClosed` | Pruning that fails to persist returns before it closes sessions, and the retry finds nothing to prune (`revocation.go:75`). |
| `MemberGossip.NeighboursConverge` after a rejoin | An advertisement with a lower log sequence is never newer, but refreshes LastSeen (`membership.go:966`). |
| `KernelUDPSession.ClosedHoldsNothing` | The reader may enqueue after Close has drained the queue (`udp.go:2581`). |
| `NATTable.RepliesTranslated` | A binding in steady use is not synchronised again and its copy expires (`nat.go:497`). |
| `NATTable.DataplaneAgrees` with two workers | Snapshots are taken and applied under different locks (`nat.go:346`). |
| `NATTable.DataplaneAgrees` without its condition on `refused` | A packet worker only counts a refused snapshot (`nat.go:347`); the copy names the old host until the next one. |
| `TrustMutations.RootsFollowLog` | A copy of the trust shares its roots array with the trust in force (`trust_resource.go:193`). |
| `ProvisionTokens.UsedIsDelivered` | A token is marked used before its script is written (`ix_provision_resource.go:2009`). |
| `RestoreFiles.Transactional` with a crash, or with two restores at once | Files are replaced before the log and with no lock (`config_restore_archive.go:160`, `:730`). |
| `AFXDPReceive.BorrowedNotOffered` | A release keeps a pointer into an array the next burst overwrites (`af_xdp_linux.go:1932`). |
| `AFXDPReceive.FramesConserved` with borrowed payloads and a panic | The recovery empties the batches without releasing what is borrowed in them (`af_xdp_linux.go:2002`). |
| `AFXDPReceive.RecycledIsOffered` | Releases push to the fill ring beside the read loop without a lock (`af_xdp_linux.go:5372`). |

## Proofs

Every constant is arbitrary under the named ASSUMEs, which TLC evaluates on the
instances: sequence numbers are naturals, `Hash` is injective, the genesis is a
chain of its own, sizes and bounds are naturals, a window and a batch are not
empty. The bounds on faults, crashes and lengths limit nothing in the proofs.

- `FileStoreProofs`: types, memory matches the file, AckedSurvives,
  AlwaysLoadable, ResultTellsCommit. The invariant adds what is known at each
  step of a write: once renamed the file is what is written, and an unsynced
  temporary file is never renamed.
- `ConfigSyncProofs`: types, LogMatching, CommitsOnce, AppendOnly,
  SyncReportIsTrue. LogMatching follows from every log, everything in flight and
  everything a power loss may bring back being a chain that starts with the
  genesis; that two chains which share an event share what precedes it is shown
  by least counterexample. CommitsOnce speaks of IXs before any rejoin and any
  lost unsure commit, and needs that until then everything an IX committed is in
  its own log. It is not about signatures: an event is signed before it is
  appended, and after a failed append the next mutation signs its position again.
- `ConfigNodeInvariant` and `ConfigNodeProofs`: types, HeadIsCommitted,
  TrustInForce, CanRestart, OutcomeIsTrue, and RestartKeepsSettings for a daemon
  that applies, changes trust and restores; settings are the configuration
  without its trust section, for which TrustSurvivesRestart fails (above). None of them is inductive: when a
  request ends, the runtime is what it is because of what the request kept at
  its start and planned since. The invariant is built in layers. `RunInv` says
  what a request's kept and planned values are at each of its steps; `HeadInv`
  relates them to head and store, `TrustInv` to the latest trust section,
  `SignerInv` to the signers' cache, `DesiredInv` to the latest desired event.
  The actions are first shown to be plain steps, which say only what they do to
  the variables of the layers; each layer is then shown to survive each plain
  step. Facts on logs (what appending does to the latest trust, desired event
  and signers) are lemmas on opaque predicates.
- `RuntimeReconcileProofs`: types and NothingForgotten. The invariant says what a
  pass owes: while its generation is current and nothing failed, whatever is
  stale is ahead of it or about to be reported.
- `SecureRecordsProofs`: the ring of the replay window mirrors what was accepted,
  whatever its size; the window implements `ReplayFilter` (refinement); and
  RecordsDelivered: one record per number, no packet returned twice, none of an
  accepted record lost, for any number of sending goroutines. The invariant adds
  that a number is held by one sender or sealed into one record, that a packet
  is in one place of one record, that what was opened came from records the
  window accepted, and that it was returned, is kept, or is with the call under
  way. That the window implements the filter gives the third of these: what is
  accepted was not accepted before.
- `ProvisionTokensProofs`: AtMostOnce and IssuedUsable. What a token has given
  away is remembered in memory, in the file and, once the directory was synced, in
  whatever a crash may leave of it; without a data directory, by the token being
  gone.
- `AFXDPTransmitProofs`: types, FramesAccounted, KicksRemembered, for any pool,
  ring and setting of the socket; inductive together with what a send knows at
  each of its steps.

Only model-checked, and why:

- Liveness and what rests on ENABLED: Converges, EventuallyReconciled,
  GossipConverges, NobodyStarves, MembersFollowTrust, SessionsHeal,
  HandshakesComplete, FramesMove, CallsEnd. TLAPS does not prove these.
- ExactlyTheRun: which bits 2^n - 1 has for every n is an induction over data.
- ReplacedIsBackedUp, RestoreSafe, QuietAgrees, MembersPruned, BindingsAgree,
  RevocationsInForce, BuffersAccounted, SessionsSettle, SessionsServed, PathsSafe,
  LeasesKept: no proof has been attempted. Those of `Membership`, `DataSessions`
  and `AFXDPReceive` speak of moments at which nothing is in progress and need an
  invariant with a clause for every step of every goroutine.
- RestoreKeepsSettings is the run's form of RestartKeepsSettings, which is proved
  for every daemon that takes no events from elsewhere.

## Not modelled

Packet formats, eBPF programs, the kernel modules and the maps and sockets they
are loaded with; device access and its leases; flow bindings and health probes;
endpoint grants; the other transports (framing over sockets); HTTP, CLI, web UI,
admin authentication; parsing and validation of configurations; certificates;
the data directory's lock; anything that needs real time, except as a
nondeterministic timeout or tick. One place of a modelled file is known to have
more behaviour than its model: the restore's own reading of the log before it
replaces it (`config_restore_archive.go:805`), which is part of `ConfigNode` only.
An archive restore also replaces logs; `ConfigSync`, and with it AppendOnly, knows
rejoins only.
