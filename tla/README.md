# A TLA+ model of the church management application

The application is a Node.js server (Express 5, express-session, Sequelize on
SQLite) through which the members of a church register, log in and record
attendance, and workers and administrators look at the records. The repository
also holds the storage engine, SQLCipher 4.10.0 (SQLite with a codec). This
directory holds TLA+ modules that model the core of the server and the part of
the engine that makes its writes atomic, TLC configurations that check them on
small instances, and TLAPS proofs that hold for instances of any size.

    tlc -config ChurchApp_gate.cfg MCChurchApp        # one run; the names are in PROJECT.json
    tlapm ChurchAppProofs.tla                         # the proofs about ChurchApp
    tlapm MemberTableProofs.tla                       # the proofs about MemberTable
    tlapm UnixLockProofs.tla                          # the proofs about UnixLock
    tlapm PagerProofs.tla                             # Pager: PagerProofs, PagerNamedProofs,
                                                      # PagerRollbackProofs,
                                                      # PagerRecoveryProofs, PagerStoreProofs

## The system

| Part | Source | State | Operations |
|---|---|---|---|
| Agent token and gate | `security/agent.js`, `security/agent-service.js`, `app.js:82-100` | `secure.allowedID`, in memory | `trackUserActivity` on every request; `isAuthenticated`, `isAuthorized(roles)`, `validateAgent` before the three protected routers |
| Sessions | `security/additional.js:14-23`, express-session | the memory store, a copy per request | load, save at the end of the answer, destroy, expire |
| Login and logout | `routes/login.js` | session, `allowedID`, the Activity table | `GET`/`POST /login`, `GET /logout` |
| Member page, activities | `routes/memberIndex.js:8-172`, `model/Activity.js` | session flag, Activity table | `GET /memberIndex`, `POST /create-activity` |
| Registration, update | `routes/register.js`, `routes/memberIndex.js:174-261`, `model/User.js` | User table | `POST /register`, `POST /update-user` |
| Worker dashboard | `routes/dashboard.js`, `database/db_queries.js` | reads tables, upload directory | seven pages, `POST /upload-excel`, `POST /events` |
| Admin pages | `routes/admin.js` | reads tables | three pages |
| Public pages, push | `routes/index.js`, `notification/webNotification.js`, `model/NotificationSubscription.js` | subscriptions | `GET /`, `POST /subscribe`, `GET /send-notification` |
| Limiter, logger | `security/additional.js:25-61` | a counter per address | 100 requests in 15 minutes |
| Boot, secrets, set-up | `app.js:76-77,117-130`, `getSecret.js`, `database/` | the databases | `syncDatabase`, `cipherDetails` |
| Legacy middleware | `security/middleware.js`, `security/agent-controller.js`, `model/UserAgent.js` | failure counter | not mounted |
| Browser code, views | `public/`, `views/` | none of the server's | |
| Pager | `sqlcipher-4.10.0/src/pager.c`, `pcache.c` | page cache, rollback journal, database file | begin, read, write, spill, commit, roll back, recover |
| POSIX locking | `sqlcipher-4.10.0/src/os_unix.c` | a lock level per handle, counts per process and file, byte-range locks | lock, unlock, check, close, reopen |
| Rest of the engine | `sqlcipher-4.10.0/` | B-trees, byte code, WAL, codec | vendored |

**How the parts interact.** Every request passes the session middleware, the
flash messages, `trackUserActivity` and the public routers; the rest passes up
to three chains (member, worker, admin) in which the middlewares of the gate sit.
The *agent* is a record (user id, authenticated or not, role) that a login puts
into the URLs of the pages it sends and that the gate reads back from the query
of later requests. The *session* holds the user id and the worker flag that the
handlers behind the gate look at. The two are kept apart and can disagree: the
agent in the URL opens the gate, the session says who one is behind it. The
session store and `allowedID` live in memory, the tables on disk.

The tables are four SQLite files, each with a Sequelize instance of its own
(`database/db_setup.js`) that sets no pragma: rollback journals in DELETE mode,
`synchronous` FULL. Every database operation a handler awaits is a transaction of
the pager, on a thread of Node's pool; what `ChurchApp` and `MemberTable` take for
granted of such an operation (it happens entirely or not at all, at one moment,
and stays after a restart) is what `AtomicStore` states and `Pager` is shown to
implement. The pager in turn takes the five lock levels of `FileLock` for granted,
which `UnixLock` is shown to implement.

**What is hard.** Node runs one handler at a time but switches at every `await`,
so handlers interleave at their database operations. Each request has a copy of
its session, taken when it arrives and saved when it is answered, so an older
copy can overwrite a newer one or bring a destroyed session back. Lookups and the
writes that depend on them are separate operations without transactions. A
database operation can be rejected, and some handlers throw on what they find;
a restart loses the memory and keeps the tables and the pages in the browsers.
Below, a transaction is a dozen system calls, between which the process
may be killed, the power may fail with any part of the unsynced writes on the
medium, a call may report an error, and other connections run; and POSIX locks,
which belong to processes, have to stand in for locks of handles.
`PROJECT.json` lists these hazards line by line.

**What makes the parts correct.**

- Gate: a protected handler runs only for an agent whose member has logged in
  since the process started, and that claims a role the handler's chain names.
- Sessions and login: the worker flag is in no session that was not given a staff
  token; every request is answered.
- Activities: what one member recorded for another was recorded in a staff
  session; only a user's own logout deletes a row, and none should delete a recorded
  activity.
- Registration: no two members with the same name or number, unless a check was
  overtaken or made by an update; the number identifies a member at the next login; a
  refused update should leave the row alone.
- Pager: transactions are atomic, isolated and durable; the journal that undoes a
  changed file can be found; a rollback plays no record but its own.
- Locking: a handle has the lock level it was told it has, against handles of its
  own and of other processes, whatever else is closed.

## The modules

| Module | Models |
|---|---|
| `AgentGate` | the agent and the gate's decisions, as operators on one request |
| `ChurchApp` | requests in flight, sessions, login, logout, member page, activities; extends `AgentGate` |
| `ChurchAppProofs` | the proofs about `ChurchApp` |
| `MemberTable` | the User table under registration, update and the login's lookup |
| `MemberTableProofs` | the proofs about `MemberTable` |
| `AtomicStore` | what a database file promises: atomic, isolated, durable transactions |
| `Pager` | the rollback-journal pager with failures; implements `AtomicStore`, uses `FileLock` |
| `PagerProofs` | facts about `Pager`'s operators, and the shape of its states, step by step |
| `PagerNamedProofs`, `PagerRollbackProofs` | the proofs of `JournalNamed` and `OwnRecordsOnly`; extend `PagerProofs` |
| `PagerRecoveryProofs` | the recovery invariant of `Pager` and what follows from it; extends both |
| `PagerStoreProofs` | the proof that `Pager` implements `AtomicStore`; extends `PagerRecoveryProofs` |
| `FileLock` | what the locking methods promise: five lock levels of one file |
| `UnixLock` | `os_unix.c`'s locks on POSIX byte ranges; implements `FileLock` |
| `UnixLockProofs` | the proofs about `UnixLock` |
| `MCChurchApp`, `MCMemberTable`, `MCPager`, `MCUnixLock` | constants and symmetry for TLC |

### AgentGate

An agent is the record `[userId, isAuthenticated, role]`; what JSON and URI
encoding do to it is left out. A request that carries no agent, an empty one, or
one that does not parse has `agent = None`, since `getAgent` answers `null` for
all three. Nothing signs an agent: `getAgent` takes any JSON, so a request may carry
any agent at all, for any id and role, and every property holds for all of them.
What the code then compares is the id with `allowedID`; the role is taken from the
agent, and a session without an id takes the agent's. No property says that the
role is one the member logged in with, or that a session's id is its user's: the
code does not establish either.

`middleCorrect` is a `switch` without `break`s and is modelled as one: a case
falls into the later ones. `bare` says whether the URL has a query string, since
the exemptions compare the whole URL. `trackUserActivity`'s two branches, for a
session with and without a user id, differ only in the id they use.
`validateAgent`'s lookup never lets anybody by: its last comparison is between
two objects by identity.

### ChurchApp

A *slot* is a request in flight: its `pc` is the operation it awaits, `sess` its
copy of the session, `dirty` whether express-session will find the hash changed.
An action is an awaited operation together with the code that runs on its result
up to the next `await`.

| Actions | Code |
|---|---|
| `Arrive`, `Expire`, `Restart` | express-session and the process |
| `TrackRedirect`, `GateRedirect`, `GateLookup` | `agent-service.js:149-359` |
| `OpenPage`, `WorkerPage`, `AdminPage`, `UpdateUser`, `Finish` | pages, and handlers that only read tables before they answer |
| `LoginStart`, `LoginUnknown`, `LoginUser`, `LoginRefused`, `LoginKnownAgent`, `LoginNewAgent`, `LoginCreate` | `login.js:28-193` |
| `LogoutStart`, `LogoutFind`, `LogoutNoRow`, `LogoutDestroy` | `login.js:196-227` |
| `MemberStart`, `MemberFindUser` | `memberIndex.js:10-61` |
| `ActivityStart`, `ActivityUser`, `ActivityCreate` | `memberIndex.js:91-172` |
| `DbError` | the `catch` blocks and `app.js:107-114` |

Decisions worth knowing:

- `login.js:8` imports `model/Activity.js` under the name `UserAgent`, so logins
  and logouts look up, insert and delete rows of the Activity table. The update
  of a row that is found sends no statement: none of the columns it sets exists
  in that model. `validateAgent` uses the real `UserAgent` table.
- A row's `PERFORMER` is a member; the code stores the member's name.
- `Visitor` stands for every uuid given to a browser nobody logged in on: no rule
  tells two of them apart.
- A session whose user id and flag are unchanged is still saved when its flash
  messages changed. Flash messages are not modelled, so `Answer` may save such a
  copy or not.
- Session fields that nothing mounted reads (`agent`, `role`, `lastActivity`,
  `isAdmin`) are left out, and `unit`, which only `GET /unit` reads.
- Rows have consecutive ids and `findOne` returns the oldest match, as SQLite's
  scan does. `MaxRows` bounds the table: an insert into a full table is rejected.
- A second answer to a request that has been answered (`/update-user` does that)
  ends in Express's own error handling and changes nothing.
- The last lines of `app.js` (`module.exports` in an ES module) throw while the
  module is loaded; the model is of the server that listens.

History variables record what happened for the properties to refer to; no guard
reads them. `proven`: members whose name, number and token a login of this process
matched, emptied by `Restart`. `staffSids`: sessions that were given a staff token.
`recordedIn`: the session in which a row was inserted.

### MemberTable

The User table with the three columns that identify a member. A name is the set
of its words: login compares one word, registration the whole name. Numbers and
addresses are strings, `Contacts`: Joi takes any but the empty one for a number
(`Numbers`) and the well-formed ones for an address (`Emails`), and the two sets may
overlap. A *form* is a request's body: each column has a string, `None` (null) or
`Absent` (undefined). `valid` is what the schemas accept. `Update` carries a
`refused` mark because a refusal is rendered and then ignored, so a form with
missing, null, empty or malformed columns is carried out like any other; only a
null name stops it (`UpdateInvalid`), which the model of `User.js` does not allow.
`changed` is what Sequelize writes: the columns that the form has and in which it
differs from the row *as it was read*. `fresh`, `unchecked` and `edited` are
history.

### AtomicStore and Pager

`AtomicStore` has a committed content, the content a power failure can fall back
to, what each connection sees, and who is writing. A commit replaces the content
in one step; a power failure may take back the last commit only, and only if it
was not yet synced (in DELETE mode the unlink of the journal is the commit, and
the directory is synced later).

`Pager` has the files twice: `os` is what a read returns, `disk` what is on the
medium for certain. A step is one system call with the memory changes up to the
next, but for two: `Write` opens the journal, writes its header and the first record
in one step (none of them is synced or looked at before the commit), and `Finalize`
unlinks the journal and downgrades the lock in one (nobody else gets a lock between
the two calls, and a crash between them drops the lock too). Clean pages stay in the
cache. Page 1 holds the change counter, the others the number of the transaction
that wrote them. A journal is a sequence of slots, headers and page records;
headers start on a sector of their own, so `Aligned` says whether the last record
of a journal may end exactly on a sector boundary. A journal file has an inode, so
that a file can be unlinked while it is open.

| Actions | Code (`pager.c`) |
|---|---|
| `SharedLock`, `JournalExists`, `CheckReservedLock`, `FirstByte`, `HotLock`, `HotOpen`, `HotSync`, `CheckVersion` | `sqlite3PagerSharedLock`, `hasHotJournal`, `pagerSyncHotJournal` |
| `ReadHdr`, `PlayRecord`, `PlaybackSync` | `pager_playback`, `readJournalHdr`, `pager_playback_one_page` |
| `Finalize`, `FinalizeSync` | `pager_end_transaction`, `zeroJournalHdr` |
| `Get`, `EndRead` | `getPageNormal`, `readDbPage`; `pagerUnlockIfUnused`, `pager_unlock` |
| `Begin`, `Write` | `sqlite3PagerBegin`, `pager_write`, `pager_open_journal`, `pagerAddPageToRollbackJournal` |
| `Commit`, `ExclusiveLock`, `ChangeCounter`, `JournalSync`, `JournalCount`, `JournalSync2`, `WritePage`, `DbSync` | `vdbeCommit` (which takes the lock first), `sqlite3PagerCommitPhaseOne`, `syncJournal`, `pager_write_pagelist` |
| `Spill` | `pagerStress` |
| `Rollback`, `ErrorUnlock` | `sqlite3PagerRollback`, `pager_error`, `pagerUnlockAndRollback` |
| `Fault`, `Kill`, `PowerLoss` | an I/O error, with the caller's reaction (`sqlite3VdbeHalt` rolls a failed commit back); the end of a process; a power failure |

The refinement mapping. The committed content is `Restored(os)`: the database file
with the longest well-formed prefix of the journal undone, which is what a
connection that came now would see. The durable content is the same of `disk`.
A connection sees its cache over the file (`Overlay`), or the restored content
while it rolls back. The mapped content changes only in the step that finalizes
the journal, which is why the commit is one step of `AtomicStore` although it is
many of `Pager`.

`PowerLoss` lets every unsynced page and journal slot independently be old, new or
damaged, a file that grew have any length in between, a truncation have happened
or not, and the directory entry be old, new or gone. The checksum of a record is
its seed: a damaged record fails it, and so does one of another transaction.
Seeds are taken to differ (in the code they are random 32-bit numbers), and the
change counter not to wrap around between two looks at it.

### FileLock and UnixLock

`FileLock` has one variable, the level of each handle. Its `Shared` is weaker than
the comment in `os_unix.c` on PENDING locks ("no new SHARED locks can be
obtained"): a process that already has a reader lets another of its handles in by
counting it (`os_unix.c:1808-1817`), past the PENDING lock of another process.
`Pager` is checked with that weaker promise.

`UnixLock` has, for each handle, its `eFileLock` and where a call of it is; for
each process the fields of `unixInodeInfo`; and what each process holds on the
pending byte, the reserved byte and the shared range. A step is one `fcntl` or
`close`. A call holds `pLockMutex` throughout, so calls of one process do not
interleave. The exception is `unixClose`, which tests `nLock` under the mutex and
closes the descriptor outside it; `MultiThreaded` says whether another handle of
the process may be used in between. `fcntl` reports no errors.

A handle's level for the others (`Level`) drops with the `fcntl` that lets others
in, which is earlier than the assignment to `eFileLock`: with the downgrade of the
shared range when it was EXCLUSIVE, with the release of the two bytes otherwise.

| Step of `UnixLock` | Step of `FileLock` |
|---|---|
| `LockCounted`, `DropPending` (range obtained) | `Shared` |
| `LockReserved`, `LockPending`, `LockExclusive` | `Reserved`, `Pending`, `Exclusive` |
| `Downgrade`, `Release` | `Unlock` to SHARED |
| `CountDown` | `Unlock` to NO_LOCK |
| `Crash` | `Drop` |
| all others | none |

## The runs

| Run | Instance | Shows |
|---|---|---|
| `ChurchApp_gate` | 2 members, 2 sessions, 2 rows, 1 request at a time, every endpoint, every agent, all tokens, failures, restarts | `TypeOK`, `GateSound`, `RecordsAccountable` |
| `ChurchApp_answered` | 1 member, 1 session, 2 requests, 1 row, login, logout, member page and activities, member and worker tokens, failures, fair | `StaffFlag`, `EveryRequestAnswered` |
| `MemberTable_registrations` | 2 requests, 2 rows, 5 forms of which Joi refuses 2, failures | `TypeOK`, `NoSilentDuplicates`, `NumberIdentifies` |
| `Pager_isolation` | 2 connections, DELETE mode, 2 pages, 2 transactions, 2 failures of any kind | `TypeOK`, `JournalNamed`, `ImplementsAtomicStore` |
| `Pager_recovery` | 1 connection, PERSIST or TRUNCATE mode, 3 pages, 2 transactions, 1 failure of any kind | `OwnRecordsOnly`, `ImplementsAtomicStore` |
| `UnixLock_levels` | 2 processes with 2 handles each, closing, reopening, crashes | `TypeOK`, `CountsExact`, `LocksBacked`, `CheckReservedExact`, `ImplementsFileLock` |

**Bounds.** Two requests are what an overlap needs, and on one session what stale
copies need; two sessions are what a restart or a logout leaves to go on with and
what a member has on two devices; two members are what recording for somebody else,
and a confusion of rows, need; and two rows what a double or "the oldest row"
needs. All of it at once is beyond TLC: `ChurchApp_gate` takes every agent and
endpoint with one request at a time (the gate decides in one step, and what it meets
of earlier requests is in the store and in `allowedID`), `ChurchApp_answered` the
endpoints that change the state with two requests on one session. What one of the
two does not show of `GateSound`, `StaffFlag` and `RecordsAccountable`, the window
between the decision to record and the insert for instance, is covered by their
proofs, which have no bounds. The forms of
`MCMemberTable` hold a pair with one number, a pair with one name, a number that is
an address, and two that Joi refuses: one with a missing name, a null number and a
number for its address, one with a null name and an empty number. The proofs remove
the bounds from everything about these two modules but liveness.

For the pager, two transactions are what a stale cache and a stale journal need:
one to leave something behind and one to meet it. Page 1, one page that is
overwritten and one that is appended or spilled make a transaction that can be
half done. Two connections are a writer and somebody who reads, waits, recovers or
writes next. In `Pager_isolation` there are two failures, so that the second can meet
the recovery from the first; in `Pager_recovery` there is one, at every step at which
the model lets something fail. `PagerStoreProofs` removes the bounds for DELETE mode.
With `MaxFail = 2` the instance of `Pager_recovery` *violates*
`ImplementsAtomicStore`, in both modes: a kill, a new transaction and a power
failure can leave half of a committed transaction undone. `Pager_kept_journal`
shows why, and that the code's own invariant does not hold there. For PERSIST and
TRUNCATE, atomicity is therefore claimed for one failure only; the application uses
DELETE mode.

For the locks, two processes with two handles each have every pair the code tells
apart: same handle, same process, other process. `UnixLockProofs` removes the
bound.

**Fairness.** `FairSpec` assumes weak fairness of each request's steps: the event
loop runs every callback that is due, and each database operation ends.
Arrivals, expiry and restarts are not assumed to happen. In the run any database
operation may be rejected; the property covers that, and the requests that find no
row to delete or no user, which throw and depend on the last error handler for
their answer.

**Disagreements.** Six runs check what a comment or a message says and TLC finds
it violated:

| Run | Says | Does |
|---|---|---|
| `ChurchApp_lost_record` | `login.js:195` logout is "to destroy the session" | it also deletes a recorded activity |
| `MemberTable_refused_update` | `memberIndex.js:236` "not allowed to access this" | the update is made |
| `Pager_unlinked_journal` | `pager.c:1902-1905` the journal is closed with the lock lest a DELETE-mode connection unlink it | a PERSIST connection keeps it open while it stays in a read transaction, and journals into the unlinked file |
| `Pager_stale_header` | `pager.c:4412-4414` an old header behind the journal is made unrecognisable | the rollback of a commit that failed after the journal sync does not look at the magic there, if the journal ends on a sector boundary |
| `Pager_kept_journal` | `pager.c:82-85` invariant (7), the loss of unsynced changes to the journal does no harm | a journal that is kept may lose the unsynced zeroing of its header under the records of the next transaction; playing it back undoes the committed one, or a part of it |
| `UnixLock_close_race` | `os_unix.c:2201-2202` a file with outstanding locks is not closed | a lock taken between the test and the close is dropped |

None of the four in the engine is met by the application as it is configured: it
uses one journal mode, DELETE, and keeps its connections open.

The model has more behaviours that a user would not expect, and no property denies
them. A logout that finds no row, since the member has logged out elsewhere, throws
and leaves the session. A request that overlaps a logout saves the session again,
and a visitor's request that overlaps a login saves its copy over it. Of two updates
that overlap, the row has some columns of each. Of two members with one address,
only the first logs in with it.

`NoSilentDuplicates` and `NumberIdentifies` are worded around such cases: two
registrations whose checks precede both inserts make a double (hence `fresh`), and a
number that is an earlier row's address finds that row.

Every property of a passing run has a faulty variant of the code's behaviour
(`Restart_remembers`, `taken_pair`, ...) that violates it; they stand before the
definitions they replace and nothing else uses them.

## The proofs

Assumptions: the named `ASSUME`s. Identifiers of different kinds differ, `None`
is no record, bounds are naturals, a run's endpoints, agents, tokens and forms are
among those there are, and (for `MemberTable`) what Joi accepts as a number or an
address is a string.
For `UnixLock` the set of handles is finite (the counters count them), and the
theorems assume `~MultiThreaded`: with it `UnixLock_close_race` refutes them.
Nothing bounds the sets of members, sessions, requests, processes, handles,
connections or pages, nor the numbers of transactions and failures. Two theorems
about `Pager` have a hypothesis, each of them the exact case in which a run
refutes the property: `OneWay` (all connections delete their journals or none
does; else `Pager_unlinked_journal`) and `~Aligned` (no journal ends exactly on a
sector boundary; else `Pager_stale_header`). Those of `PagerRecoveryProofs` and
`PagerStoreProofs` assume `~Aligned` and `Modes = {"DELETE"}`, the mode of a connection that does not ask for
another, as the application's do not.

**ChurchApp.** None of the safety properties is inductive by itself: that a
request behind the gate is for a member who has logged in depends on what
`allowedID` holds, and the worker flag on every copy that is still to be saved.
`IInv` says, of each saved session and request alone, what it satisfies: a set flag
belongs to a staff session (`FlagEarned`); a request at a protected `pc` has passed
the gate (`Passed`); one about to create a login's row is for a member the login has
proven; one about to delete a row has found a row of its own user, under an id no
later row gets; one about to record may record; and `allowedID` holds proven members
only, also after a restart. Agents may be any. `AdmittedPassed` is the
heart of the gate: after `trackUserActivity` no exemption of `middleCorrect` can
apply to a protected path, because the exempt URLs are bare and a bare URL has no
agent. `StepInv`, `QuietStep` and `SaveStep` say once what a step has to keep for
its own request so that all the others are safe, and each action's lemma then
looks at that request only. From `Spec => []IInv` follow `TypeOK`, `GateSound`,
`StaffFlag`, `RecordsAccountable` and the action property `DeletesOnlyOwnRow`, which
no run checks.

**MemberTable.** `NoSilentDuplicates` needs to know what a check found until the
insert: `FreshInv` says that it still holds for the registrations in `fresh`,
which every write of a name or number empties. `NumberIdentifies` follows from
it. That rows keep their types although any form is carried out needs `SlotInv`: a
registration's form is a whole row, and an update's may be anything, but what is
written of it leaves a name.

**UnixLock.** That the levels of two handles are compatible follows from fcntl for
handles of different processes and from the inode's level for handles of one, so
`IInv` ties the three layers together. `InodeFacts`: the level of an inode is the
highest of its handles, at most one of which is above SHARED, and an EXCLUSIVE one
is alone. `ByteFacts`: what a process holds on the three ranges follows from the
level of its inode, except in the middle of a call, where `PcFacts` and `OneCall`
say which call it is and what it knows. `Compatible`: what fcntl guarantees between
processes. `CountsExact` is part of it, because `nShared` decides when the range is
released and whether EXCLUSIVE may be asked for; it needs cardinalities, which
`FiniteSetTheorems` provides. `Inductive` proves `[]IInv` action by action, and
`[]Settling` on top of it: what is still held between the two steps of an unlock.
`CountsAreExact`, `LocksAreBacked` and `CheckReservedIsExact` are consequences;
`UnixLockRefines` proves the table of steps above and so `Spec => FL!Spec`.

**Pager.** `ShapeInvariant` proves `[]Shape`, in every mix of modes and after any
failures. `Shape` is the ground the others stand on: the types; that lock levels
are compatible (`Locks`); which state, which lock and which journal a connection
has at each step of a call (`Control`); which pages it has changed and not written
(`Changes`); and that a writer's journal reaches as far as its `joff`
(`HasJournal`). Only a holder of the RESERVED lock writes journal files, and
`Locks` makes it the only one, so each action's lemma looks at one connection and
`ShapeFrame` carries the others along. What an action does to the files is stated
once (`WriteEffect`, `JournalSyncEffect`, `PowerLossEffect`, ...) and used by all
the modules.

`JournalNamed` needs, before a connection is in DBMOD, what will make it true:
`Named` says that a connection which may have opened its journal earlier still has
the file the name stands for, and that the name is on the medium once the first
sync (`dirSync`) is over; `MagicNamed` that a file with a recognisable header is on
the medium under its name, since a recovery that plays it relies on that.

`OwnRecordsOnly` needs to know where a playback can get to. `OwnIn` says of the
slots `1 .. joff` a transaction has written itself that all carry its seed and
that every header among them covers slots of that part only, or ends just before a
slot that is no header; the last header, whose count is still open, covers what
follows it, and its records carry its seed or end the playback. So a playback
that starts at slot 1 takes seeds from its own headers only. `JournalSync`, which
spoils the header behind the journal, is what makes the bound right: without it
the invariant fails at the next step.

`TypeOK` says, among other things, that no damaged page is ever in a cache; a cache
is filled from the database file, so this is about what can be in the file while
somebody may read it. `Recovery` says that there are two contents, `I` (committed)
and `J` (what a power failure may go back to), and a number `m`, such that

- the slots `1 .. m` of the named journal are, in the kernel and on the medium, a
  `Chain` of complete headers and records of `I`; a header that comes next may be
  complete in the kernel if all its records are on the medium already (`Pair`), so
  whatever a power failure takes of the rest, what is left is such a chain
  (`PairLeft`);
- every page that the chain does not undo is that of `I` and synced (`Leads`); with
  no journal, the file is `I`; where name and medium differ, no header is complete
  and the file is `I`; a journal only the medium still names leads to `J`
  (`Committed`, `Durable`);
- who may read finds the file equal to `I` and no complete header (`MayRead`,
  `Clean`), and its cache agrees with `I`; a cache kept without a lock agrees with
  `I` if its change counter does (`StaleCache`);
- a writer's records behind the chain are pages of `I` (`OwnSlots`), and a page it
  may write to the file next is one that the chain undoes (`Writer`); a playback,
  of the own or of a hot journal, has the records before slot `k` back in the file,
  and in the cache (`OwnRollback`, `HotRollback`).

`LeadsUndone` and `GlobalRestored` relate this to `Restored`, the recovery that the
model defines: a new reader would see `I` in the kernel's files and `J` on the
medium. `RecoveryFrame` carries the connections that do not move along, because a
step that changes the files holds a lock that keeps readers out or leaves the file
`Clean`. TLC checked each part of `Recovery` on the instance of `Pager_isolation`
before the proof.

`PagerImplementsStore` is the theorem `Spec => ImplementsAtomicStore`. The lemmas of
`Recovery` say not only that there are two contents after a step but which: a step
of a connection keeps `I` and `J` (`Stays`), or is a sync of the journal, which may
make `J` the same as `I` (`Syncs`), or is the deletion of the journal by a
connection in FINISHED, when `I = J` and the file becomes the new `I` (`Commits`);
a power failure leaves one of the two (`Falls`). `GlobalRestored` makes them the
`committed` and `durable` of `AtomicStore`. `ViewClassified` says what a connection
sees: nothing or `I` if it is not writing, also while it rolls back; a writer sees
a content without damaged pages, because where its cache has nothing the file has
not been changed (`WriterView`); one in FINISHED sees the file. `OnlyBegin` shows
that a write transaction starts in `sqlite3PagerBegin` only, `OneWriter` that there
is one at a time, and `OthersSee` that what the others see stays as it is, because
a step that writes to the file is alone. What is left is a table:

| Step of a connection | Before | After | Step of `AtomicStore` |
|---|---|---|---|
| `Stays` | not writing | not writing | `BeginRead`, `EndRead` or none |
| `Stays` (`Begin`) | not writing, sees `I` | writing, sees `I` | `BeginWrite` |
| `Stays` | writing | writing | `Write` |
| `Stays` | writing | not writing, sees `I` or nothing | `Abort` |
| `SyncStep` and `Syncs` | | the same | `Sync` or none |
| `Commits` | writing, sees the file, alone | reading | `Commit` |
| `PowerLoss` and `Falls` | | nobody sees anything | `PowerLoss` |

**Only model-checked.** `EveryRequestAnswered`: liveness under fairness is out of
the prover's reach. In the modes TRUNCATE and PERSIST,
`ImplementsAtomicStore` of `Pager` is model-checked only (`Pager_recovery`), with one
failure: there
the end of a transaction takes two steps, and old records stay in the file, so
`Recovery` would have to say more.

## Not modelled

- *Server.* The queries behind the worker and admin pages read and render. An
  upload's temporary file and the push subscriptions are written and never looked
  at again by code that decides anything. The limiter's counter is a library's.
  Creation of the tables at boot is, for a request, a database operation that may
  be rejected, which `ChurchApp` has. The unmounted middleware is reached by no
  request. Mail, browser code and templates keep no state of the server.
- *Pager.* Super-journals (one transaction over several files: the application
  attaches none), savepoints and statement journals, databases that shrink or are
  empty, memory mapping, exclusive locking mode, `synchronous` other than FULL,
  devices with atomic writes or safe append, in-memory journals and WAL. Faults are
  errors of syncs, of writes to the database file and of the steps that end a
  transaction or begin to read; a failing `fcntl`, page read, open or first look at
  a journal, write of a journal header or record, an out-of-memory error and a full
  disk are not among them.
- *Locking.* Errors of `fcntl`, the other locking styles, shared memory, and files
  that are renamed or replaced while they are open.
- *Rest of the engine.* B-trees, the byte-code machine, the SQL compiler, the
  query planner, full-text search and other extensions, the codec, the shell and
  the test harness: several hundred thousand lines of third-party data-structure,
  language and tool code, whose correctness is about unbounded inputs rather than
  about interleavings, or which the application does not use.

## Plan

1. `Recovery` for the modes TRUNCATE and PERSIST and a single failure: the chain of
   a new transaction is followed by slots of older ones, and a commit has a state in
   which the journal is spoiled in the kernel and not yet on the medium.
2. Savepoints and their sub-journal in `Pager`, and databases that shrink.
3. `Admission`: what gate and sessions promise together (log in, be admitted, log
   out), and `ChurchApp` shown to implement it by a refinement mapping.
