# A verification of passalong-server

passalong-server stores the items of passalong's users, grouped in workspaces. A
workspace is plaintext or sealed under a data key only its users know, and a
*rewrite* re-encrypts all of it under a new key while its readers go on reading.
This directory models the server: first what must not lose or mix up items, the rules
of one workspace at work on its record in a database and on its files, under
concurrent clients, repeated and late requests, kills, failing commits, and power
failures; then the parts around it, from the tables of the database to the
installation of the service.

## Running it

    tlc -workers 2 -config MCRewrites.cfg MCWorkspace     # one run of PROJECT.json
    tlapm WorkspaceProofs.tla                             # the proofs of one module

`PROJECT.json` lists the runs, the source lines each definition stands for, the seeded
faults each property catches, the findings, and the hazards.

## The system: an inventory

All paths are under `src/crates/passalong-server-`.

| Component | State | Operations | What makes it hard | Right means |
|---|---|---|---|---|
| Workspace rules (`core/workspace.rs`) | the record: seal, pointers to generations, byte counts | deleteItem, enableEncryption, freshStart, replaceHeader, open | shelf steps inside the transaction, clean-ups after it | items under the key the record names; clean-ups never hit what is in use |
| Uploads (`core/upload.rs`) | tickets, tombstones, staging places | begin, PUT, commit, abort, probe, clean_staging, reconcile | replays, expiry, two uploads of one content, a kill between publish and record | one content once, one outcome per upload, quota kept, counts right |
| Rewrites (`core/rewrite.rs`) | the open session, aborted keys | begin, heartbeat, take over, commit, abort, operator abort | leases, late duplicates, part of the items staged | no item lost, one holder, a generation never reused |
| Item reads (`core/workspace.rs`, `api/handlers/items.rs`) | none | list, resolve, get, content | several loads and shelf reads with no lock over them | what is answered was there while it was read |
| Ledger (`core/ledger/`) | five tables in SQLite | transact, load, open, migrate | a load is several statements; builds of several versions open one file | a record is stored whole, and what is loaded was stored; the schema is that of its version |
| Shelf (`core/shelf/`) | files | stage, write, publish, remove, drop, open, sweep | a PUT takes no lock; an operation is several renames and flushes | what is recorded is on the disk; each operation but the PUT is one step |
| Control plane (`core/control/`, `core/auth.rs`) | workspaces, API keys, audit | create, extend, revoke, delete, prune, authenticate | several processes; clocks and names are read before the transaction | a dead key is refused; every change is noted |
| Engine registry and operator (`core/engines.rs`, `cli/commands.rs`) | open engines, directories | get; create, show, check, delete | opening while another process deletes; kills between row and directory | a workspace that can be named keeps its items; a deleted one stays deleted |
| Rate limit (`api/rate.rs`, `api/auth.rs`) | failures per address | limited, failed | asked before and told after the check; bounded table; proxies | no more guesses than the limit and what is in flight, bounded memory |
| Bridges (`api/bridge.rs`) | pieces in flight | pump, read, send, stream | either side leaves, breaks off, or stalls | a body is accepted only whole; lively transfers end |
| Server (`api/server.rs`, `cli/serve.rs`) | connections, janitor, phase | accept, shake hands, handle, sweep, drain | silent and stalling clients, panics, a stop at any moment | everyone is accepted, nobody cut off, the process ends |
| TLS (`api/tls.rs`, `cli/letsencrypt.rs`) | the pair in use, the last stamp | open, look; self-signed, hook | the pair is replaced while it is read | always a pair, and the new one in the end |
| Service installation (`cli/service/`) | unit, user, files, what runs | install, remove | an action fails and the rest is not done | what the administrator wrote is spared |
| Configuration and owner (`core/config.rs`, `cli/owner.rs`) | files, owners | init, find, check | several users and environments | what init wrote is found |
| Clock (`core/clock.rs`) | none | rfc3339 | leap years of centuries | the date is right |
| HTTP routing, JSON, printing, telemetry | none over time | translation | - | not modelled |

An API request is counted by the limiter and authenticated against the control
database, finds the engine of its workspace in the registry, and runs one rule through
`Engine::write`: the ledger opens an exclusive transaction, the rule changes a copy of
the record and, inside the transaction, the shelf; the record is stored; and only then
the destructive clean-ups the rule asked for are performed, outside the transaction.
Reads, `putUploadContent`, and `probeWrite` use `Engine::read`, which takes no lock.
Bodies cross between the asynchronous connections and the synchronous core by bridges.
The janitor and the command line, which may be another process, go through the same
`Engine`.

## The modules

| Module | Stands for |
|---|---|
| `Record` | the record (`ledger/mod.rs`), the shelf as the rules see it, the clean-ups owed; how a rule's record is stored, or is not |
| `Encryption`, `Uploads`, `Rewrites` | the rules of `workspace.rs`, `upload.rs`, and `rewrite.rs` |
| `Workspace` | their composition with clean-ups, janitor, repair at opening, clock, and kills; and the properties |
| `Store` | the abstract specification of a workspace: a set of items under one key, a set aside, and five operations |
| `Requests` | a reader that takes the loads and shelf reads of its request one by one between the steps of `Workspace`, which it extends |
| `StagedFile` | one upload as file operations of `shelf/fs.rs`, the PUT outside the lock included, with power failures |
| `FsShelf` | every operation of the shelf as file operations, `stage_write` outside the lock, the trash, opening, and sweeping, by several threads and processes |
| `MemoryShelf` | the abstract specification of a shelf, which is the shelf in memory: one step per operation |
| `DiskShelf` | what of it a shelf on a disk keeps: `MemoryShelf` with content that changes while a PUT runs, in the place or in the item it became |
| `Rows` | the record in its five tables, `transact`, and a `load` statement by statement |
| `Schema` | opening the database: the switch to WAL and the migration, by builds of several versions |
| `Control` | workspaces, API keys, the audit trail, and authentication |
| `Registry` | extends `Control` with directories, open engines, the janitor's pass over the list, and the commands that create, show, check, and delete |
| `RateLimiter` | the bearer layer and the limiter it asks and tells |
| `Bridge`, `ContentRange` | bodies in pieces through a channel; a byte range from the header to the last byte |
| `Serving` | the accept loop, handshakes, handlers, the janitor's task, and the drain |
| `TlsReload`, `ServiceInstall`, `Places`, `Calendar` | the pair on the disk and in use; `service install` and `remove`; configuration files, data directories, and owners; dates |
| `WorkspaceProofs`, `StoreProofs`, `AccountProofs` | theorems about `Workspace` and their proofs: types and safety; the refinement of `Store`, the use of the shelf, the passing of sessions, and what a workspace leaves behind; byte counts, outcomes, and the quota |
| `RequestsProofs` | about `Requests` |
| `ControlProofs` | about `Control` and `Registry` |
| `StorageProofs` | about `StagedFile`, `Rows`, and `FsShelf` |
| `ServerProofs` | about `Bridge`, `ContentRange`, `RateLimiter`, and `Serving` |
| `HostProofs` | about `Schema`, `TlsReload`, `ServiceInstall`, `Places`, and `Calendar` |
| `MC*.tla`, `MC*.cfg` | instances for TLC |

`MCControl`, `MCStorage`, `MCServer`, and `MCHost` each put several components into one
instance. Components that interact are composed in a module of their own (`Workspace`,
`Requests`, `Registry`); the ones joined here share no state, so their interleavings say
nothing more than each of them alone. A variable `part`, chosen at the start, names the
one whose steps a behaviour consists of.

### State

In `Workspace`, `rec` is `WorkspaceRecord`. Its `state` enum is two fields here: `seal`,
which is the settled seal or the session's `prior` (no rule changes that before the
session ends), and `session`. `used` is a total function, zero where the map has no
entry. `gens` is the shelf's items by generation and `staging` the bytes in each staging
place. `dropping` and `removing` are the clean-ups of transactions that have committed.
`open` says whether some process has the workspace open. `issued`, `answers`, and
`faults` are no state of the program: the ids the random source has yielded, what
commitUpload answered, and how many faults there were.

An item is a text, a creation time, and the key it is under; the id is the time and a
content key, which depends on the text and the data key.

In the other modules every variable is commented with the state it stands for. A
process or thread in the middle of an operation is a record of how far it is and what it
has read: that is what can be stale.

### Actions

A rule is one action, since the ledger's transaction is exclusive. A request that is
refused changes nothing and is a disabled action; a replay that only answers is a
stuttering step. Every rule that takes a step on the shelf ends in `Store` or in
`NotStored`: the process is killed before the commit, or (`CommitMayFail`) the commit
fails and the process lives. Any caller may send any request at any time, so lost,
repeated, and late requests are covered without actions of their own.

`Open` is `Engine::open` with `reconcile`. It may be taken while the workspace is open,
which is the command line opening it beside the server. `Kill` forgets every clean-up
owed; where two processes have the workspace open and one is killed, what it owed is
lost one by one by `CleanupFails`.

What the model abstracts:

- Clients are honest where the server cannot check: ids and headers are made for the
  key they name, and the holder of a rewrite stages re-encryptions of items of the
  current generation (`HonestRequest`). `ImplementsStore` depends on this,
  and so do the proofs of `QuotaIsKept` and `PlaintextOnlyGoes`.
- The random source never repeats an upload id (it has 128 bits). The code's check
  against ids it still knows is implied.
- In `Uploads` a PUT is one step that leaves the whole content or nothing. The shelf
  takes a body that ends early and the commit then refuses its size, so from the state
  that is left out only another PUT, an abort, or expiry leads on. `FsShelf` has the
  PUT's steps, `StagedFile` what they leave in the file, and requests that overlap.
- Content is not empty. The plaintext check of a commit is then implied by the size
  in `Uploads`; `StagedFile` models it.

`StagedFile` and `FsShelf` have one step per file operation. A kill loses nothing that
was written; a power failure may lose content that was not flushed and undo a rename whose directory
was not flushed, changes of directories reaching the disk in order. `Overlap` says
whether a client may send a request while an earlier one still runs; whether content is
checked (`checks_content`) is chosen at the start. A digest is the sequence of pieces it
is of. `FsShelf` tells content apart only as whole, empty, or `Torn`, and follows the
open file of a PUT from the staging place into the item or the trash.

In the other modules:

- `Requests` follows one reader: readers change nothing, so others would add nothing.
  A listing looks at the ids of a generation in any order; its cursor and pages are
  abstracted to the set of ids it comes from. In `read`, `always`, `ever`, `held`, and
  `texts` are history: what was visible throughout, or for a moment, while it ran. The
  staged generation, "which its holder alone may read" (docs/api/README.md), counts as
  readable by a request that found its caller holding the session also after another
  key has taken the session over, and after the commit: the request loaded the number
  of the generation and reads on in it.
- `Control` and `Registry` take a transaction as one step and everything before it (the
  clock, a look-up, the operator's typing of a name) as steps of their own. Key ids may
  repeat, secrets never do.
- `FsShelf` has the operations that the rules run under the workspace's lock exclude one
  another, also between processes; the others interleave with everything.
- SQLite, the file system, systemd, the proxy, and clients are external, and modelled
  from how the code uses them: one writer at a time, renames that are atomic, units that
  are read again only when told to.
- `Rows` has threads of several processes. Those of one share a connection, which a load
  holds to its end; another process may commit between two statements. `meanwhile` and
  `beside` of a load are history: the records stored while it ran, and whether another
  process stored one.
- In `Bridge` the shelf accepts a body wherever it ends, as `pump` does. `dropped` is
  history: the runtime dropped the task that fills the channel, the one way to a body that
  ends early without an error.
- In `RateLimiter` any number of requests are between asking and telling. `guesses` is
  history: the checks a client got since a failure of it was last forgotten or evicted.
- `TlsReload` has `write_new` in its two steps, the empty file and its content, with a
  kill between them.
- `Serving` and `Bridge` have timeouts as steps that may come at any time, so that a late
  answer and its timeout race.
- `TlsReload` takes a stamp to be unique. Two writes that the clock of the file system
  does not tell apart are the file system's.
- `Calendar` walks the calendar day by day as the reference for the arithmetic.

## What the runs check

| Run | Question | Distinct states |
|---|---|---|
| `uploads` | replays, expiry, deletions, and one kill: one outcome, right counts, quota kept | 754,000 |
| `rewrites` | every change of key interleaved with uploads and one fault; refinement of `Store` | 614,000 |
| `two_items` | a rewrite of several items, staged in parts and by several holders | 452,000 |
| `live` | two faults, commits failing while the process lives: content stored once, the shelf used as its specification allows, rubbish gone in the end | 222,000 |
| `requests` | a reader beside all of this: answers, absences, and listings are true | 1,574,000 |
| `control` | keys and workspaces changed by two processes beside authentication; directories beside kills | 3,376,000 |
| `storage` | an upload's files under power failures; the shelf's files beside a PUT; the record's rows beside another process | 1,485,000 |
| `server` | connections, bodies, ranges, limits, and the janitor's openings | 273,000 |
| `host` | migrations, renewals, installations, configurations, dates | 317,000 |

Each property is stated and explained where it is defined. In short:

- `ItemsUnderTheirKey`, `ImplementsStore`, `BooksBalance`, and `OneOutcome` are the
  invariants I2 to I5 of `docs/api/rewrite-session.md`. `CleanupsSpareTheLiving` and
  `GenerationsNeverReused` are why it is safe to destroy outside the lock.
  `HeaderWrapsTheKey` is why a late change of words cannot lock a workspace.
- `AnswersWereThere`, `NotFoundIsTrue`, and `ListsWhatStays` are what a read without a
  lock still promises: something visible, or absent, at some moment while it ran.
- `ItemIsWhole` and `DigestIsOfTheContent` are what the order of removing, writing, and
  flushing in `FsShelf::write` and `publish` is for: through any number of kills and power
  failures, what was checked or acknowledged is whole where it is an item, though a PUT
  acknowledges bodies that end early. `ImplementsDiskShelf` says that the files do in many
  steps what the shelf in memory, with which the rules are tested, does in one, but for
  the content of a PUT that runs; `UsesTheShelf` says that the workspace asks of a shelf
  only what `MemoryShelf` allows. `OpeningSparesTheLiving` is about opening beside a
  process at work, which may make a missing place again.
- `LoadsWhatWasStored` is what a load without a transaction still promises beside another
  process: each table is of a record stored meanwhile, and all are of one where the other
  process stored none.
- `DeadKeysStayOut`, `PruneSparesActiveKeys`, and `TrailExplainsKeys` are about any
  sequence of commands from two processes. `NamedKeepTheirItems` and
  `EveryWorkspaceGetsItsDirectory` are about kills between row and directory.
- `ServesToTheEnd`, `LivelyEnds`, and `AcceptedIsWhole` are about clients that do their
  worst; `GuessesBounded` and `TableBounded` about addresses that do, with requests in
  flight together.
- `Whole` and `OpeningEnds` are about the database in an upgrade, `PairIsServed` about a
  pair replaced between any two steps of a look, `SparesTheirs` about installations that
  fail half-way.

`BooksBalance` and `WithinQuota` are checked with `CommitMayFail = FALSE`, and
`ItemIsWhole` and `DigestIsOfTheContent` with `Overlap = FALSE`: otherwise they do not
hold, as `failed_commit` and `overlap` show. `LivelyEnds` is checked with one client that
stalls and two threads; see below for as many as there are threads.

### Where the code does not do what it says

Three runs expect a violation:

- `failed_commit`: a commit that fails after the publish leaves bytes nothing counts
  once the ticket is gone, and a settled workspace can pass its quota until it is
  next opened.
- `overlap`: a PUT that still runs when its upload is committed by way of a repeated
  PUT goes on writing into the published item, or empties it.
- `ghost`: a get that found the workspace goes on to create its directory and row after
  another process deleted it.

The modules state more of what comments and documents say, each beside the line it comes
from, which TLC refutes. They are in no run; to see the counterexample, put the name into
the cfg of a run that has the module, with the constant changed where the table says so.

| Property | Module | What happens instead |
|---|---|---|
| `RecordNeverAhead` | `Workspace` | deleteItem removes the item before the record is stored; a kill leaves a record of what is not there, until the next opening |
| `FinishedIsStored` | `StagedFile` | a commit that finishes an earlier publish's record does not flush the directories, and a kill and then a power failure can take a recorded item back; or, where content is not checked, a PUT killed before its flush leaves a file of the right size, which the commit of an earlier PUT publishes and a power failure takes |
| `ListsEveryText` | `Requests` | a listing whose generation a commit of a rewrite drops misses items that were readable throughout |
| `RefusalSaysWhen` | `Requests` | the lease of a refusal is looked up in a second load, by when the session may be gone |
| `LoadsOneRecord` | `Rows` | a load mixes two records when another process commits between its statements |
| `GetIsOneStep`, `OpeningSucceeds`, `SweepsOnlyTheDead` | `FsShelf` | a get fails on an item removed between its files; opening fails on a digest that goes away first; it takes the digest of a place made again between its look and its removal |
| `DeletionsDelete` | `Control` | of two deletions of one workspace both report success |
| `SessionNeedsForce`, `CheckSparesTheLiving` | `Registry` | a session begun while the operator types is deleted without `--force`; `check` tells the operator to remove a workspace created after its list was read |
| `GuessesLimited`, `RefusedWithCause` with three attempts | `RateLimiter` | requests in flight together are all looked at (docs/configuration.md: "At `limits.auth_failures_per_minute` the address is answered `RATE_LIMITED`"); failures counted out of order keep an old one |
| `AtMostDepth`, `HeldIsReal`, `SlowOnlyItself` with `Threads = 1` | `Bridge` | either side holds one more piece; a piece whose reader is gone is never given back; stalled clients can hold every thread (bridge.rs: "a slow client slows only its own transfer") |
| `NothingOutlivesTheDrain` | `Serving` | the work of a request on the blocking pool holds the process after the drain |
| `WholePairOrNothing` with `InPlace = FALSE`; `NeverHalf` with `Renewals = 0` | `TlsReload` | the hook killed between its two moves leaves half of each pair; `tls self-signed` killed between creating and filling a file leaves an empty certificate beside a key, which no later run replaces |
| `RunsWhatWasInstalled`, `TakesUpWhereItStopped` under `Rerun`, one failure and no edits | `ServiceInstall` | an install that failed after placing the binary is run again, finds nothing changed, and does not restart; half a pair is refused for good |
| `OwnersFilesOnly` | `Places` | `init`, which is exempt from the owner rule, opens another user's database |

Holding on the same instances, and in no run: the other modules' type invariants,
`LastUseNeverGoesBack` (`Control`, with two requests), `NeverDowngraded` and
`ServedByItsSchema` (`Schema`), `HoldsLittle` (`Bridge`), `CommandsAreTheOwners`
(`Places`), and, with several makers and no renewal, `NeverMixed` (`TlsReload`); and
`SealedForGood`, `RetiredForGood`, and `OpeningCounts` (`StoreProofs`) on those of `live`
and `rewrites`. These named ones are proved as well, as told below.

### Bounds

Constants commented as bounds (`MaxGeneration`, `MaxTime`, `MaxFaults`, `MaxKills`,
`MaxAudit`, `LastTime`, `Renewals`, ...) bound the model and not the program. In the
workspace, two API keys are enough for a holder and another; two data keys for an
aborted key and a second rewrite; three generations beyond the first for a fresh start,
an abort, and a commit in one behaviour. Tickets, outcomes, and leases last one tick, so
that one tick of time ends any of them, at the boundary; `two_items` gives leases no time
at all, so that they can always be taken over. Sizes are 1 and 2 against quotas of 2 and
3, where both fit only one at a time or exactly fill it.

Elsewhere: two workspace ids, one name, and two key ids let names and key ids be used
again; two operators and a request are enough for a look-up made stale by another; a
table with room for one address and three addresses for its limit; a window of two ticks
in three for failures inside, at, and past it, and two requests in flight for one that
asks before the other is counted; two pieces through a channel of one for a sender that
waits, and two threads for three transfers, one of which stalls; three faults and three
PUTs for a kill, a repeat, and a power failure in one upload; one PUT, two workers, and
an opener for a publish, a removal, and a sweep beside it; one handshake at a time beside
a silent client for a queue; three
versions and four processes for an upgrade raced by an older and an equal build; 147,000
days for a full cycle of four centuries.

Upload ids, API keys, operators, and the like are only compared, so they are symmetric;
runs with liveness use no symmetry. Deadlock is not checked where the system may stop:
an upload that has ended, a request answered, a bound on time, names, or days reached.

### Fairness

`live` has fairness in its specification: a killed server is started again (`deploy/` and
the service units restart it), the janitor passes again and again (its loop never ends),
and a process that lives performs the clean-ups it owes (they follow the commit in
`Engine::write`). It assumes nothing of clients, and faults are finitely many.

In the joined instances a property states the fairness it needs as its hypothesis:

- `ServingFairness`: the runtime polls ready tasks, the timeouts of handshakes and of the
  drain fire, and work ends that needs no client. Nothing of silent or stalling clients.
- `BridgeFairness`: threads of the pool that can go on do, and so do the clients named in
  `Lively`.
- `SchemaFairness`: a process that opens goes on, and its patience (`busy_timeout`, the
  deadline of `use_wal`) ends.
- `RegistryFairness`: a process that opens a workspace goes on, and the janitor's loop
  comes to every workspace in the list again and again, hence strong fairness.
- `ReloadFairness`: the server's reloading task runs. Nothing of those who write the pair.

## What is proved

Everything here is for every value of the constants that satisfies the assumptions stated
beside their declarations: any number of keys, texts, uploads, processes, faults, and any
length of time. No theorem takes anything on trust that TLC does not evaluate in the runs.

### The workspace

With `CommitMayFail` either way, unless it says otherwise:

- `TypeCorrect`: `Spec => []TypeOK`. The invariant `TypeInv` adds that the shelf's
  bytes are finitely many, without which a recounted byte count is not known to be a
  number.
- `ItemsStayUnderTheirKey`, `CleanupsAreSafe`, `GenerationsAreFresh`,
  `ContentIsStoredOnce`, `HeadersWrapTheirKey`, `RewriteUploadsEndWithIt`. None of the
  six is inductive by itself. The invariant is `SafetyInv`, in two halves: `Shelved`
  joins what is said of generations, since an item published into a staged generation is
  under the right key only if that generation was fresh, and a commit of a rewrite may
  drop the old generation only if it is neither the staged nor the plain one; `Ticketed`
  joins what is said of uploads, and adds that every ticket, staging place, and removal
  owed belongs to an id that was issued, without which a new ticket might meet an old
  removal. The lemmas `SteadyShelved` and `SteadyTicketed` deal with all actions that
  move no pointer.
- `WorkspaceImplementsStore`: `Spec => ImplementsStore`, the refinement of `Store`. Its
  invariant `StoreInv` adds to `SafetyInv` that a staged generation holds copies, under
  the next key, of items of the current one and nothing else (`Copied`), whence a commit
  whose counts agree has all of them. Equal counts suffice because the copies map one to
  one into the current items and both sets are finite.
- `WorkspaceKeepsToTheShelf`: `Spec => UsesTheShelf`. Seen from its shelf, a step of the
  workspace is one operation of `MemoryShelf` or none: kills, failed commits, and
  clean-ups cut a step short between two operations and never inside one. With
  `FilesImplementTheShelf`, which is about the other side, this is why the rules may be
  reasoned about over a shelf whose operations are atomic, all but `stage_write`: what
  that one leaves to the rules is in `StagedFile` and in the run `overlap`.
- `PlaintextOnlyGoes`: a sealed workspace never gets plaintext again. By `StoreInv` the
  plaintext of a sealed workspace is what it set aside, and no operation of `Store` adds
  to that. `LeftGenerationsStayLeft`: what the record has left it does not come back to,
  and nothing is put there, since items enter only where the record points
  (`ItemsEnterLive`) and pointers move only among the generations in use and to fresh
  ones (`Moves`).
- `OpeningRepairsTheBooks`: opening makes the counts the bytes on the shelf, whatever
  failed before; `BooksBalance` itself needs commits that do not fail.
- `SessionsChangeHandsAtLeaseEnd`.
- `BooksStayBalanced`, where commits do not fail. The byte count of a generation is the
  size of the set of its bytes, so that publishing and deleting add and remove a
  disjoint part.
- `QuotaIsKept`: `WithinQuota`, where commits do not fail. A commit killed between its
  publish and its record leaves content that nothing counts, and a ticket that still
  reserves room for it. `QuotaInv` therefore divides the live tickets in two: some have
  their content on the shelf already, each its own (`Covered`), and what all the others
  may still publish (`Outstanding`) fits beside what is stored. Publishing moves a ticket
  from the second part to the first, and deleting an item moves at most one back, with
  the room the item took; a rewrite or a fresh start moves pointers, and `Where` follows
  them. `begin_upload` checks the counts, which are the bytes by `BooksStayBalanced`. A
  rewrite stages no more than is current because what it stages are copies (`Copied`),
  which the holder of the session promises (`HonestRequest`).
- `OneOutcomePerUpload`. An answer is remembered with the ticket or the tombstone, or the
  id is spent; and an id is not issued twice.

### Beside it

- `AnswersAreFromThePartition`, `NotFoundWasNotThere`,
  `ListingsLeaveOutNothingThatStays`, for a reader beside any behaviour of the workspace.
  The invariant ties the generation the reader loaded to the partition it asked for: it is
  still that partition's, or a commit has put another in its place, and then what was
  there throughout is what the loaded generation had.
- `DeadKeysAreRefused`, `PruningSparesActiveKeys`, `TrailExplainsEveryKey`,
  `RowsKeepTheirTypes`; `DeletionsSpareTheNamed` and `HostKeepsItsTypes`. A request
  authenticates with the row it read; that the row was good then, and that the key was
  not dead before, is what `LateRefused` carries from step to step. A deletion in
  progress removes the directory of an id whose row is gone, and ids are not made twice.
  `LastUseGoesForward`, where notes of a key's use are some time apart: the note of a
  request that waits is of the one that has the connection, and no later use is written
  down yet (`NoteInv`).
- `DigestsAreOfTheContent` and `ItemsAreWhole` where requests do not overlap, for any
  number of PUTs, kills, and power failures, content checked or not; `StagedInv` says of
  the request that runs what it has written so far, and of the file which request it is
  of. `LoadsAreOfStoredRecords`, for any number of processes and threads: each table
  loaded is of one of the records stored meanwhile, and the connection keeps those of the
  own process out. `FilesImplementTheShelf`, the refinement of `DiskShelf`, and
  `OpeningsSpareTheLiving`, for any number of workers, PUTs, readers, and openings, killed
  anywhere; the invariant `ShelfInv` says of each job which of its files are in place,
  where the open file of each PUT is, that operations under the lock exclude one another,
  and that whatever lies in the trash has someone who empties it.
- `AcceptedBodiesAreWhole`: the pieces read, in the reader's hands, in the channel, and
  with the task are together all that the client sent, and an end of the body is seen only
  behind them. `TransfersHoldLittle`. `AnswersAreTheBytesAsked`, for any length of content
  and any header. `LimiterStaysSmall`. `GuessesAreBounded`, for any number of requests in
  flight: the checks since the last failure was forgotten are the failures in the table
  and those of requests not counted yet, and at the limit nobody else gets in.
  `RequestsAreNotCutOff`, the safety half of `ServesToTheEnd`.
- `MigrationsAreWhole`, `SchemasOnlyGoUp`, `OpenersFindTheirSchema`, for any number of
  versions and processes. The last needs that whoever has the lock is at work
  (`OpenedInv`). `ConnectionsGetAPair`, the safety half of `PairIsServed`.
  `MakersLeaveAPair`, where nobody renews: whoever created the key's file is alone at
  work (`MakersInv`), so a file that is not whole is empty and a whole certificate is that
  of the key beside it, wherever runs are killed.
  `CommandsSpareTheAdministrators`. `InitsAreFound`, `OwnersRunTheirCommands`.
- `DatesAreRight`, for every day and not only for those of a run. The arithmetic of
  `clock.rs` inverts the number of days before a date in a year that begins in March, so
  that a leap day is the last of its year; the invariant `CalendarInv` says that the walk
  of the calendar and that number agree.

The assumptions are the weakest that say what the constants are for: limits and bounds are
natural numbers, upload ids are finitely many, read-write keys are API keys, texts are not
empty, and a value that stands for "none" is none of the values it is used beside. Six
theorems have a hypothesis of their own besides, and each is needed: TLC refutes the
statement without it (`WithinQuota` in the run `failed_commit`, `BooksBalance` on its
instance, `DigestIsOfTheContent` and `ItemIsWhole` on that of `overlap`, `NeverMixed` with
renewals, `LastUseNeverGoesBack` with `LastUseEvery = 0`, which the code's constant is not).

### Only model-checked

Liveness under fairness, which is beyond the prover: `RubbishGoes`, `LivelyEnds`,
`OpeningEnds`, `EveryWorkspaceGetsItsDirectory`, and what `ServesToTheEnd` and
`PairIsServed` say beyond their safety halves.

## Not modelled

- HTTP routing, JSON, error names and texts, telemetry, printing, and the parsing of
  arguments and of configuration values: translations with no behaviour over time. So
  are the text of the units and of the certbot walkthrough.
- The health probe and the readiness handler, which ask and report.
- Durations at the width of their types. The limits are natural numbers in the models;
  `staging_secs` saturates and is then added to the clock with a plain `+`
  (`upload.rs`), which wraps for ages near the largest `u64`.
- `Engines::forget`, which no part of the server calls.
- Which upload published an item. The recovery in `commit_upload` takes an item under
  its id for its own, and its answer cannot be judged without a history that the
  program does not keep.
- Random ids and digests that collide, and cryptography.
- The peak of `BridgeStats`, which is the largest `held` there was.
- In `ServiceInstall`, changes by somebody else while a command runs, and a unit that is
  not UTF-8, which `System::read` reports as absent.
- `ymd`'s slices of fixed width, which a date from the year 10000 on would outgrow.

## The plan

Done: the components above, their compositions, and the proofs listed. Every invariant and
every action property the passing runs check is proved, for the values of the constants at
which it holds; what is left to TLC is liveness, which the prover cannot reach.
