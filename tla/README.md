# TekMemo in TLA+

A verification project for the TekMemo monorepo, a file-first memory for AI
agents. The memory of a project is a directory `.tekmemo/` of Markdown, JSON
and JSONL files. A runtime reads and writes it, a sync layer replicates its
files through the cloud, and the cloud keeps one manifest per project in a
database and the contents in a bucket. The modules here model the parts where
several processes, requests or files have to agree.

Source paths are relative to `src/`. `PROJECT.json` maps every definition to
the lines it stands for.

## 1. Inventory

### 1.1 Cloud sync API (`apps/cloud/src/api/sync/`) - modelled

- State: tables `projects` (owner, storage total), `project_files` (path, sha,
  size, blob key), `sync_cursors` (seq per project), and the blob bucket.
- Operations: `push` (diff the client's manifest, make the project if it is
  new, hand out upload URLs and the cursor), `push/complete` (verify blobs,
  check the cap, take the write lock, gate on the cursor, bump the cursor,
  upsert rows, update the total, commit), `pull`, `status`; `deleteProject`
  of the dashboard.
- Interactions: the client's `file-replication.ts` calls it over HTTP; uploads
  go to the bucket past the API; all requests share one SQLite database.
- Hard: every handler is a chain of awaits; requests of several clients
  interleave; ownership, blobs and cap are checked outside the transaction
  that relies on them; answers get lost and requests are sent again; the write
  lock can time out; a transaction can fail at any statement; a project is
  deleted and created again in the middle of it all.
- Correct when: gated commits extend the commit they name, no request sees a
  part of a commit, only owners commit, an answer names its own commit,
  concurrent pushes stay within the cap, every request is answered.

### 1.2 Client file replication (`packages/tekmemo/src/tekmemo/sync/`) - modelled

- State: the files of the local store, the snapshot index, the sync in
  progress; no cursor is stored between syncs.
- Operations: `pushFull` (snapshot, hash, push, upload, complete), `pull`
  (snapshot, hash, manifest, download, verify, write, remove, bootstrap).
- Hard: files change between hash, upload and completion; a pull that is cut
  off leaves a mixture; the snapshot that protects local edits is itself a
  file in the replicated directory.
- Correct when: a finished pull is a replica of one manifest, a push publishes
  what it hashed, whatever sync destroys is in the snapshot it took.

### 1.3 Local file store (`packages/tekmemo/src/fs/`, `tooling/utils`) - modelled

- State: the lock file `.tekmemo/.lock`, one promise queue per path, files.
- Operations: `write`, `append`, `delete` (advisory lock, path lock, mutate),
  `read`, `exists`, `dispose`.
- Hard: the lock file is created and filled in two steps and reclaimed in two;
  processes crash in between and pids are used again; a queue entry may belong
  to a later task.
- Correct when: one process mutates the directory at a time, calls on a path
  run in order, and a dead process blocks nobody for ever.

### 1.4 Knowledge graph (`packages/tekmemo/src/graph/`) - partly modelled

- State: nodes and edges in maps, written to two JSONL files as a whole; the
  local strategy keeps a second copy in maps of its own.
- Operations: hydrate, upsert nodes and edges, merge, consolidate (find
  duplicates and superseded facts, merge, retire), persist. In memory also
  deletion, decay, import, clear, path searches and expansions. Not modelled:
  queries with filters and the resolution of current facts (they change
  nothing), the copies of the strategy.
- Hard: hydration sets its flag before its first await and mutations do not
  wait for it; `nodes` and `edges` are persisted by two writes, each of which
  awaits the advisory lock before it queues for its path, so that those of
  several calls land in any order; a merge awaits
  between moving edges and deleting their node; a plan is computed once and
  applied in many steps that outdate each other; deletions and searches go by
  three indexes; searches await every node they visit.
- Correct when: edges keep their end points, facts survive merges and
  restarts, the files follow the memory as far as no older save lands last, passes
  settle; indexes agree with the
  edges, and searches find what is there.

### 1.5 Agent sessions and leases (`packages/tekmemo/src/agentfs/`) - partly modelled

- State: leases by store with their expiry; a session's workspace files;
  `notes.md` behind an AgentFS store, and its remote copy.
- Operations: acquire, extend, release, `withMemoryLease`; `prepare` (pull,
  scaffold), the agent's writes, `complete` (extract, gate, append, checkpoint,
  push), with a client that syncs or without one; the store's append, natively or
  by read and write. Not modelled:
  restoring checkpoints, the audit trail, the adapters.
- Hard: a lease is not renewed while its holder works; two sessions share an
  owner id; the append's lock is that of one store object; a catch meant for
  secrets swallows every error; the push fails after the append.
- Correct when: an operation has the store to itself while its lease covers it,
  appends of one store or under one lease take no note away, `complete` reports
  what it published, no secret gets through, waiting callers get in.

### 1.6 Memory runtime and connectors (`packages/tekmemo/src/tekmemo/`, `recall/`, `tekmemo-connectors`) - partly modelled

- State: `notes.md`, `core.md`, the event ledger, the embedded chunks in memory
  and in `indexes/embeddings.jsonl`, the lexical index; a connector run's known
  ids.
- Operations: `writeMemory`, `updateCoreMemory`, `recall` of the local
  strategy; upsert, persist and hydrate of the recall store; a connector run.
  Snapshots and bootstrap are in 1.2, consolidation in 1.4. Not modelled: the
  memory strategy (no files), the hybrid one (it passes calls on), a
  connector's paging.
- Hard: one logical write is a chain of file, event, index and graph updates,
  each of which may fail or be the last; notes are read and written in two
  steps; the recall store loads its file after it may have rewritten it, and its
  rewrites land in any order; only
  the ledger says what earlier connector runs have done.
- Correct when: notes are lost only where the code overlaps, acknowledged
  memories are found, what was stored is undone by nothing but an older rewrite
  that lands last, runs converge and duplicate only what failed.

### 1.7 Progressive context (`tekmemo/helpers.ts`, `progressive.ts`, `strategist.ts`) - modelled

- State: the cache of what briefings found, by query and terms.
- Operations: compact and full briefings, expansion of a section, packing.
- Hard: a briefing is a chain of awaits over a memory that changes; entries
  expire, are evicted and replaced between a briefing and its expansion;
  shares, headings and notices are subtracted from a budget that may be small.
- Correct when: what is advertised can be expanded, retired facts fade, the
  text stays in its bytes.

### 1.8 Cloud client and accounts (`cloud-client/`, `apps/cloud/src/server`) - partly modelled

- State: attempts of a call, requests and answers under way; accounts, default
  projects, API keys.
- Operations: the transport's loop with timeouts, aborts and delays;
  provisioning after signup; creating and revoking keys; authentication.
- Hard: an attempt that timed out may still commit; its repetition carries the
  same cursor and meets the commit of the first; a key is revoked under
  requests that were let in; provisioning fails between its inserts.
- Correct when: a call commits once, what it answers is true, revoked keys stay
  out, retried provisioning doubles nothing, calls end.

### 1.9 Not modelled

- MCP server: keeps nothing between requests; a tool is one call of the runtime.
- Core documents beyond notes, events, core memory, snapshots and bootstrap;
  chunking, BM25, reranking, the secret patterns: formats, text and
  floating-point scores.
- CLI, model adapters: wrappers of one call of the runtime or of a service.
- Dashboard pages, mail, rate limit, benchmarks, test kits, documentation: no
  state that several actors share, or none of the running system.

The share of the repository's lines that the map covers stays small for this
reason: most of the lines are pages, formats, validation and wrappers.

## 2. Modules

| module | models | depends on |
| --- | --- | --- |
| `Manifests` | manifests and the pure diffs of `sync/shared.ts` | |
| `CloudReplica` | what the server promises: a history of manifests per project, blobs before commits | `Manifests` |
| `SyncServer` | the handlers of the sync API, one action per await | `Manifests`; implements `CloudReplica` |
| `SyncServerProofs` | proofs about the sync API | |
| `FileReplication` | `pushFull` and `pull` of several clients over a cloud that commits atomically | `Manifests`, `CloudReplica` |
| `FileReplicationProofs` | proofs about replication | |
| `AdvisoryLock` | `.tekmemo/.lock`, one action per file-system call | |
| `PathLock` | the promise queues of `runExclusive` | |
| `LocalStore` | the order in which mutating operations take both locks | `AdvisoryLock`, `PathLock` |
| `LocalStoreProofs` | proofs about the three before it | |
| `KnowledgeGraph` | the graph as a value: upserts, `mergeNodes`, the plan of `consolidateGraph` | |
| `GraphStore` | hydration, saving, upserts and consolidation, interleaved | `KnowledgeGraph` |
| `GraphSearch` | the in-memory store's indexes, its changes, and the searches beside them | |
| `GraphProofs` | proofs about the three before it | |
| `MemoryLease` | the lease manager and `withMemoryLease` | |
| `AgentSession` | prepare, work and complete of sessions on shared notes | `MemoryLease` |
| `AgentSessionProofs` | proofs about leases and sessions | |
| `RecallStore` | the embedded chunks, in memory and in their file | |
| `LocalMemory` | the local strategy: writes of notes and core memory, recall | `RecallStore` |
| `Connectors` | connector runs over the local memory | `LocalMemory` |
| `MemoryRuntimeProofs` | proofs about the three before it | |
| `CloudAccounts` | provisioning and API keys | |
| `CloudClient` | calls of `push/complete` through the transport | `CloudAccounts` |
| `CloudClientProofs` | proofs about the cloud client | |
| `ContextBudget` | `allocateBudget` as a recursive function over the sections | |
| `ContextCache` | `ContextCache` as a sequence in order of use | |
| `Context` | briefings and expansions while the memory changes | `ContextBudget`, `ContextCache` |
| `ContextProofs` | proofs about the three before it | |
| `MC...` | constants for TLC | |

The server is modelled in two layers on purpose. `SyncServer` has every await
of every handler and is shown to implement `CloudReplica`, by TLC and by a
proof; `FileReplication` then needs only the atomic cloud of `CloudReplica`.

### 2.1 SyncServer

A handler `h` runs one request: `pc[h]` is its next step, `arg[h]` the
request, `read[h]` what it has read, `reply[h]` its answer. One action is the
code between two awaits. The tables are `owner` and `total` (`projects`),
`files` (`project_files`) and `cursors` (`sync_cursors`); `blobs` is the
bucket. `writeLock` is the handler inside `BEGIN IMMEDIATE`, and `tx[h]` its
private writes, which `TxCommit` publishes at once and `Rollback` drops.
`held[c]` is the push answer a client still holds. `log` and `life` are history
variables: the commits of each project, and how often it was deleted.

A client may send any kind of request of `Requests` in any order, with any
manifest of `ClientManifest`, repeat a request, and lose an answer
(`LoseReply`). `TxFail` is a transaction that fails at any statement. A handler
that waited too long for the write lock answers `locked` or `error`
(`LockTimeout`): which one depends on whether the driver begins the transaction at
`concurrency.ts:96`, before the `try`, or with its first statement. The
dashboard may delete a project of its account (`DeleteProject`).

### 2.2 FileReplication

`local[c]` is the store of client `c`, from paths to contents, `run[c]` its
sync in progress. A path is a document, a snapshot file, or the snapshot index,
whose content is the set of snapshots it records; a content is as good as its
sha-256. Each await of the layer is an action; `Stop` is a crash, a lost
connection or a thrown error at any of them. `Edit` is a memory write of the
same process between two awaits. `saved` and `dirty` in `run[c]` are history:
what the pre-sync snapshot holds, and whether a tool wrote since the sync began.

### 2.3 LocalStore

`lock[p]` is the next file-system call of a process's acquire or release,
`file` what the directory shows, `opened[p]` whether the file a process is
about to fill is still linked. `prev[t]` is the task whose promise a task
waits for, `tail[k]` the owner of the queue's entry, and `ahead[t]`, as
history, who called before `t` and has not left. A process that ends takes
its queues with it; a regular end unlinks a held lock. `raced` is a history
variable: two acquires overlapped, or a held lock passed `maxAgeMs`. A store
is disposed of once at a time.

### 2.4 GraphStore

`memory` and `disk` are graphs: a sequence of nodes (the order of the Map
matters to the plan) and a function from edges to their status. An edge is the
tuple that `stableEdgeId` hashes. `call[c]` is what one call of the strategy
has read and has yet to do. Calls interleave at every await, with one
exception: the edges (and the nodes) that a pass is about to retire are read
at one time. Saving is `Export`, `WriteNodes`, `WriteEdges`. `NodeFsMemoryStore`
awaits its advisory lock before it queues for the path
(`node-fs-memory-store.ts:164-165`), and does so for each of the two files anew:
the order in which calls exported says nothing about the order in which their
writes land, so any call that has exported may write next. One process writes
the files, as the advisory lock has it.

`acked` and `absorbed` are history variables: the facts whose upsert returned
and the nodes that merges made one. So are `before` (which of the calls that save
exported first), `overtaken` (whose write of which file is still to come while a
later export is in that file) and `behind` (the files that such a write went to
last, until another mends them); the actions do not depend on them. `raced` and
`torn` mark histories outside of what the properties promise: a call went on
during a hydration, or gave an edge to a node about to be deleted; a start found
two files that do not fit together, or edges that an overtaken write had left. A
crash between the two files is not excluded as such: mostly they fit, and then
`FactsKept` holds. `broken` is a
merge that threw when it had removed edges already, since an edge it moves
would have lost its other end: what it removed is gone from memory, and nothing
saves that. The files may hold any graph at the start that the store itself
could have left (`StoreAssumption`: no id twice, no loop).

`GraphSearch` is the same in-memory store seen from its indexes, used without
files: `edges` by the id their caller gave, `outgoing` and `incoming` as the
maps that `indexEdge` and `unindexEdge` keep, and one `search` at a time with
its queue. `SkipItem`, `Arrive` and `Expand` are the passes of the loops of
`fewestHopsPath`, `weightedShortestPath` and `expandFromEntities`, which differ
in how the queue is ordered and what is queued; a pass awaits `neighbors`, so
any change may fall between two of them. `SearchesAreRight` compares what a
search that nothing overtook has found with a definition of reach and of least
cost that knows neither indexes nor queue. It asks for the least cost only
where the depth admits every path; `WeightedFindsPath`, the same for smaller
depths, is refuted (3.2). Weights are whole numbers that can be halved, so the
rounding of sums is left out. Merges are in `KnowledgeGraph` alone.

### 2.5 AgentSession

`lease` is the manager's record for the one store, with the time it has left
instead of an expiry date, `turn[w]` the operation that worker `w` runs under
`withMemoryLease`; `disturbed` in it is history: another operation of the same
owner id has acquired or released. A session `s` is a worker. `notes` is what
the stores show of `notes.md`, `remote` what the last push published or the
next pull brings, `work[s]` the agent's durable memory. `Native` are the stores
whose client appends by itself; the others read and write back. `Syncing` are
those whose client syncs. A client without `sync.pull` or `sync.push` skips them
and reports so, and the local client of a project without a cloud has operations
that do nothing (`local-strategy.ts:1541`, `1549`); either way `complete` returns
with the note in `notes.md` only (`PullSkipped`, `PushSkipped`), which is what
`PublishedWhenDone` says of it. `session[s].seen`
is what such an append, or a push, has read. `exposed` is history: since its
append began, another writer of `notes.md` was at work that no lease held off.
Two stores that meet without a lease do lose notes: `NotesKept` and
`PublishedWhenDone` show what the append lock of one store and a lease that covers
both are good for. A call has its lease extended once, where the code lets it ask
for ever. In `AgentWork` each of two workers completes once, so that nobody is left to take a
lease that a late release has freed under its new holder; the theorems of section 4
have no such bound.

### 2.6 LocalMemory, RecallStore, Connectors

`call[c]` is the step of one call of the strategy, named for what it does next.
`notes` is `notes.md` as the sequence of its ids, `ledger` the ids of
`memory-events.jsonl`. `ReadNotes` and `WriteNotes` are the two halves of
`appendTimestampedNote`; `ReadNotesFails` is its catch, which takes any error for
a missing file. `inner` and `embeddings` are the recall store's index and file;
`writes` are the rewrites under way in the order of their snapshots. They take
turns by the path's lock (2.3), but come to it after an await, as in 2.4, so that
any of them may land next (`Land(i)`).
A document is one memory's chunks. `torn`, `early`, `behind`, `stored`, `atBoot`,
`acked` and `noted` are history, and `late` in a rewrite: a newer one has landed.
`run` is a connector run: what it knows, and the records it has to do. Only the runner starts runs, one after the other.

`NotesKeptInTurn` and `EmbeddingsKept` are what the code keeps of stronger
statements, all refuted (3.2): every note that was written stays
(`NotesKeepEveryWrite`); what a call was told is stored stays in the file
(`StoredStays`), which fails if an older rewrite lands over a newer one; and
embeddings survive restarts (`EmbeddingsSurvive`), which fails if the first write
of a new process comes before its first query.

### 2.7 CloudClient, CloudAccounts

`call[c]` is a call of `complete` with its attempt and the cursor it carries,
`requests` what is on its way to a handler or in one, `replies` what is on its
way back. `Timeout` is the timer, a broken connection and the caller's abort
alike, as in `requestOnce`; the request it leaves behind may still commit.
`Authenticate` and `Complete` are two steps, so a key may be revoked in
between. A commit is one step here; its transaction is 2.1's, and it may be
answered as an error when its acknowledgement was lost. Answers are told apart by
what the transport and the caller do with them: `busy` is any that is retried,
`denied` any that is not, the cap and unknown projects included. Projects are not
deleted here: with a deletion between two attempts the gate could let a retry
commit again (`GateKnowsDeletion`, 3.2), so `CommitsOnce` and `AnswersAreTrue`
speak of projects that stay.

### 2.8 Context

A fact is a graph node with its entry in the lexical index; `Rank` is its place in
the order in which every query ranks them. `call[c]` holds what a briefing has
collected so far, `cache` the entries, `promised[q]`, as history, what the last
compact briefing of a query advertised. `lag` counts the time since the call
searched. Sizes of core memory, entities and notes are left open: `BudgetKept`
is about all of `Sizes` and `Budgets` in every state that packs. The cache key
leaves out the limit, so a later briefing with a smaller limit takes fragments
from an earlier one's cursor; `PromiseKept` speaks of the last briefing.

## 3. Runs

### 3.1 What holds

| run | question | bounds |
| --- | --- | --- |
| `SyncCommit` | Do gated commits form a chain, within the cap, implementing `CloudReplica`, when two clients contend and repeat? | 2 clients of one account, 1 project, contending manifests of one or two files, cap 3, 2 commits |
| `SyncReads` | Does a request ever see half a commit, or a stranger commit? | 2 clients of 2 accounts, a manifest of two files, 1 commit |
| `SyncDeletes` | What survives a deletion, and is everything answered? | 2 clients of 2 accounts, 1 deletion, one file, 1 commit |
| `ReplicaSync` | Do pull and push replicate, with interruptions and edits? | 2 clients, 1 edit, 3 snapshots |
| `LocalLocks` | Do both locks do their work through crashes and reused pids? | 2 processes, 3 + 1 tasks |
| `GraphFacts` | Do facts survive upserts, merges and retirements side by side, on disk too, and do passes settle? | 2 calls, 4 nodes of which the first is upserted, 1 upsert of a node and 1 of an edge, any number of passes before a crash and 1 after it, 1 crash |
| `GraphPaths` | Do the indexes follow every change, and do searches find the fewest hops, the least cost, the neighbourhood? | 4 nodes, 4 edges, 2 starting graphs, 2 changes, 16 searches of depth 1 to 3 |
| `AgentWork` | Does the lease exclude, do appends add up, is what `complete` reports published, do waiters get in? | 2 sessions, 2 owner ids, a store that appends natively and whose client does not sync (the local one), a fallback store whose client syncs, 1 call of complete each, leases of one tick |
| `MemoryRuntime` | What do overlapping writes, failures and a crash do to notes, events, embeddings and connector runs? | 2 callers and a connector run, 1 note, 1 core version, 1 record, 1 failure, 1 crash |
| `CloudClient` | Are retried commits done once and told truly, do revoked keys stay out, do calls end? | 2 clients with one key, 1 call each, 1 retry, 2 calls of the signup hook |
| `Briefings` | Are promises kept, do retired facts fade, is the budget kept? | 1 caller, 2 queries, 2 facts, 2 events, limits 1 and 2, cache of 1 entry that lives for 1 tick |

Why the bounds are enough. The hazards of the API come from one transaction
between two steps of another request, so two requests in flight on one project
meet all of them; two files are needed to see a torn manifest, two commits to
see a stale cursor, two accounts to see a foreign one. In the replication
model a pull must meet a snapshot of an earlier sync, its own snapshot and the
index, hence three snapshots. `PathLock` needs a task that leaves while one
waits and another arrives: three tasks of one key. The four nodes of the graph
are a chain of two merges (by alias, by label) in one plan, with a superseded
end and facts that merges move; the node with the second label only appears by
an upsert, and an upserted edge may end at a node that is about to go, which is
what breaks the next merge off. Two calls that save are enough for a write that
lands after a newer one. A search needs a node that is reached twice, first by the
dearer path; one change makes an edge move and the next one deletes by what
the indexes then say. Two sessions meet on `notes.md` in every way that more
would, and a lease of one tick runs out under its holder. A note, a core
version and a record are one of each kind of write, so that all kinds overlap;
a second failure or crash would only repeat a chain that was broken off once.
Two clients of one key are needed for a conflict that is another's, and one
retry for one that is the call's own. One entry in the cache makes every other
query an eviction. Briefings of one caller at a time are enough, since calls
only meet in the cache; what changes under a call is the memory.

`TypeOK` of `FileReplication`, of `Connectors` and of `AgentSession` is not among
the properties of their runs, but proved (`ReplicaTypeCorrect`,
`RuntimeTypeCorrect`, `SessionTypeCorrect`), as is `SecretsStayOut`
(`SessionSecrets`).

`ImplementsReplica` is checked where projects are deleted (`SyncDeletes`) and
proved for every instance (section 4).

Deadlock is checked in every run but `CloudClient`, `GraphFacts` and `GraphPaths`, where the
calls are counted and may be over; elsewhere something can always be called, read or
interrupted.

### 3.2 What the code does not keep

One run ends in a counterexample to a line of the repository.

| run | statement | what happens |
| --- | --- | --- |
| `ReplicaFirstPull` | a first pull is a no-op (`sync/index.ts:323`) | after a push that never committed, the pull deletes every local file |

Other statements of the repository are definitions of the modules without a run
of their own. TLC refutes each with the named configuration when the property
is put in the place of its own.

| property | configuration | statement | what happens |
| --- | --- | --- | --- |
| `CommitHasFreshDiff` | `SyncCommit` | a contended commit gets a fresh diff (`sync/index.ts:41`) | `push` reads manifest and cursor in two queries; a commit in between gives the old diff the new cursor |
| `GateKnowsDeletion` | `SyncDeletes`, with 2 commits | a stale cursor is rejected (`sync/index.ts:35`) | seqs restart after a deletion, and the gate compares numbers |
| `RollbackPointKept` | `ReplicaSync` | the user keeps a rollback point (`file-replication.ts:284`) | a pull removes the snapshot it took, since the cloud does not have it |
| `NotesKeepEveryWrite` | `MemoryRuntime` | the file keeps everything that passes the blocklist (`security/durability-tier.ts:17`) | two overlapping writes read the same `notes.md`, and the second takes the first one's note away |
| `FactsSurvive` | `GraphFacts` | the graph survives restarts (`local-strategy.ts:168`) | after a crash between `nodes.jsonl` and `edges.jsonl` of a merge, the next start refuses both and begins empty; or the file of edges was last written from an older export |
| `DiskCurrent` | `GraphFacts` | every mutation is persisted (`fs-graph-store.ts:5`) | two saves overlap, and the store's writes of the older export land last; nothing writes again until the next change |
| `StoredStays` | `MemoryRuntime` | every upsert is mirrored to the file (`fs-recall-store.ts:8`) | two upserts overlap, and the rewrite with the older snapshot lands after the newer one was reported stored |
| `Exclusive` | `LocalLocks` | a second process gets `LockHeldError` (`advisory-lock.ts:11`) | an unfilled lock file counts as stale |
| `EmbeddingsSurvive` | `MemoryRuntime` | embeddings survive restarts (`fs-recall-store.ts:4`) | a write before the first query rewrites the file from an index that was never loaded |
| `EveryAccountHasDefault` | `CloudClient` | every account gets exactly one default project (`provision-account.ts:52`) | a failure between the two inserts leaves an account that the retry finds and returns |

Met while modelling, without a run of their own:

- `weightedShortestPath` may find no path within `maxDepth` although there is
  one: a node reached first by a cheap, long path is not queued again for a
  dearer, shorter one (`in-memory-graph-store.ts:369`). `WeightedFindsPath` with
  the constants of `GraphPaths` shows it;
- a search that a deletion overtakes throws that a node does not exist which
  its caller never named (`in-memory-graph-store.ts:204`);
- the cap is the account's in `docs/architecture/cloud-sync-and-refactor.md:408`
  and per project in `sync/index.ts:272`; commits without a cursor can pass the
  check together;
- the write lock is the database's, where `concurrency.ts:31` says per project;
- a snapshot holds core, notes and events, while sync also replaces
  conversations, graph and connectors;
- a first call that overtakes a hydration works on an empty graph, and the
  hydration then replaces what it did (`fs-graph-store.ts:79-80`);
- an edge given to a node that a merge is about to delete dangles; from then
  on no batch of retirements that contains it is accepted, which is why
  `Converges` excepts graphs with a dangling edge;
- consolidation speaks of the whole graph (`local-strategy.ts:1087`) and reads
  100 records of each kind (`in-memory-graph-store.ts:144`);
- the packed text is called byte-honest (`strategist.ts:531`), but a cut section
  costs its notice even if its share is smaller, directive and core are
  included at any size, and the lines with the cursors come on top
  (`helpers.ts:688`); `BudgetKept` says where the bound holds;
- two calls with the same query are said to share an entry
  (`progressive.ts:206`), also if their limits differ: the later one decides
  what the earlier one's cursor shows;
- the caller's abort is taken for a timeout and retried (`transport.ts:125`), so
  a call that was given up goes on through its delays;
- an attempt that timed out may commit after its call has failed, and a commit
  whose answer was lost is told as a conflict to its own client;
- two connector runs at once, or a run that breaks off between a note and its
  event, write a record twice;
- `pushFull` takes the cursor it is gated by in the same call, so it never
  conflicts with a version that was committed before it started.

### 3.3 Fairness

`SyncDeletes` assumes weak fairness of each handler's steps: an await of the
database ends, one way or the other. The wait for the write lock ends because
its timeout is one of the handler's steps (`concurrency.ts`, `busy_timeout`).
Nothing is assumed of clients or the network. `LocalLocks` assumes that an
acquire once started goes on, and that time passes; nobody has to call, to
dispose or to crash. `GraphFacts` assumes that a call once started goes on, a
chain of promises that resolve; `Converges` itself speaks of histories in which
passes never cease. `AgentWork` assumes that time passes and that a caller that
was refused tries again; a holder may hang for ever. `MemoryRuntime` assumes
that runs are started again and that the process carries out the steps of a
run's own writes; failures and crashes are bounded, since nothing converges
while everything fails. `CloudClient` assumes that timers fire, for every
attempt and every delay, and asks nothing of the network or the server.

## 4. Proofs

Of the sync API. `SyncServerProofs` begins with the algebra of manifests
(`Overlay` keeps what it does not replace, the diffs are what is left to do).
It proves `TypeCorrect` and `Inductive`, the invariant `IInv`
that everything else needs:

- `LockInv`: a handler is inside the transaction exactly when it has the lock;
- `CursorsInv`: the cursors of a project are 1..n for its n commits, so that a
  cursor names a commit; this is what makes the comparison of numbers in
  `TxGate` mean something, and no safety property implies it;
- `RequestInv`: a busy handler works for a known client and project;
- `GateInv`: what the gate checked and the bump computed is still so until the
  commit, because nobody else can commit in between.

From it follow `GatedCommit`, `OwnersStay`, `OwnersCommit`, `CompletedOwn`,
`ReadsAreWhole`, `Refinement` and `WithinCapAlways`, for any sets of handlers,
clients, accounts, projects, paths and contents, and any bounds.
`OwnersCommit`, `CompletedOwn`, `ReadsAreWhole` and `WithinCapAlways` assume that
nothing is deleted (`NoDeletion`), which is where the statements end (3.2).

`WithinCapAlways` needs no sum over a manifest. The cap is asked of the
manifest that is in the table before the lock is taken; `CapInv` says that its
answer still holds as long as the request's cursor is the number of commits,
because a commit in between changes the manifest and the cursor at once; and
`IssuedInv` says that no cursor is handed out before the commit it names, so
that a stale one cannot become current again. The gate lets only current
cursors pass. The theorem therefore also assumes that clients send the cursor
they were given (`GatedClients`), as `pushFull` does; without one, two commits may
pass the check together (3.2).

Of file replication. The invariant `Inv` of `FileReplicationProofs` says for each
step of a sync what it holds. Unless a tool wrote since (`dirty`), the snapshot
has the documents that are still to be replaced (`SavedInv`), and each path of a
pull is to be fetched, to be removed, or as the cloud listed it (`PullInv`); a
push uploads the difference between what it hashed and what the cloud had when
its cursor was current (`PushInv`). `PullsMirror`, `PushesPublish` and
`SyncsSaveFirst` follow for any clients, documents and contents, and
`UsesReplica`: the clients take only steps of `CloudReplica`, the
specification that the sync API is proved to implement.

Of the local store, all in `LocalStoreProofs`. `PathInv`: every queued task has
ahead of it exactly its predecessor and what is ahead of that one, and the
entry of the map belongs to the last; hence `RunInTurn`. `AdvisoryInv`: while
no acquires overlap and no holder is too old, the holder's file is in place and
young, and nobody holds the lock while a file judged stale is about to be
removed; hence `OneHolder`. The store only takes steps of both (`UsesBothLocks`),
so that `StoreInTurn`, `StoreExclusive` and `StoreTypeCorrect` follow, for any
processes, tasks and paths.

Of the knowledge graph. The invariant `Inv` of `GraphProofs` has a part for
each place where a graph is: `HydrateInv` (one call loads, and what it has read
is the file's), `MemoryInv` (in memory every edge has its nodes, and none ends at a
node that a merge has emptied and is about to drop),
`OrderInv` (any two calls that write have exported one before the other; while a
copy is to be written that is not overtaken, no newer one is in the file) and
`DiskInv` (the newest copy that is to be written is what memory holds; so is a file
that is waiting for no copy but overtaken ones, unless such a one came last).
Nothing is assumed of the order in which writes land. Most steps are
quiet: they change one call and none of these. The proof has lemmas for what
`SetNode`, `RetireAll`, `Merged` and `Detached` do to a well-formed graph. Hence
`StoreTypeCorrect`, `StoreAttached` and `StoreFollows`, for any nodes, callers and
initial files that the store itself could have left (`StoreAssumption`, which
`StoreTypeCorrect` shows to hold again whenever the process ends).

`StoreKeepsFacts` needs more than what is in memory. `KeptInv` says of every
fact that was acknowledged, or is about to be, that the file of edges has it
between the entities of its ends, unless an overtaken copy landed last, and so have
memory and every copy that is to be written and is not overtaken; a fact that a call
still owes is in memory, in its own copy and in every newer one. An entity is a set of nodes closed
under `absorbed`, the pairs that merges joined. A merge moves an edge to a node
that is from then on the same entity; a crash may undo a merge, but the pair
stays in `absorbed`, so that an older graph still has the fact.

Of the searches, in the same module, since both sides are of one class.
`IndexesFollow` is an induction over the changes alone: taking out a set of
edges, or putting some in, turns a graph indexed by its edges into one indexed
by what is left of them (`WithoutIndexed`, `WithIndexed`). `SearchesFind` holds for
any graph, depth and order of neighbours, and rests on `SearchInv`, what the queue
and the labels say between two passes:

- by hops (`HopsOK`): an item's depth is exactly the number of edges its node is
  away, depths in the queue do not fall and differ by one at most, and a labelled
  node is queued, or as deep as the search goes, or has all its neighbours
  labelled. With an empty queue, then, everything within the depth has a label;
- by weight (`WeightOK`): an item costs what some walk of its length does, and a
  labelled node is queued at its label's cost, or no neighbour of it costs more
  than by way of it (`Relaxed`). What costs less than the whole queue has its
  least cost for a label (`LabelsAreLow`), so that the target is right when its turn
  comes. That the depth cuts nothing off takes the nodes on the way to an item
  (`Way`), each with a label that is no higher: a way as long as there are other
  nodes has passed all of them.

The references `Within` and `Costs` are recursive functions of the number of edges;
`Recursion` proves, by induction with sets, that such a function exists, and
`WithinDef` and `CostsDef` unfold them.

Of the context. `Inv` of `ContextProofs` says that the facts a call has collected
were active when it searched, that those of a cache entry were so when the
briefing that made it searched, and that an entry holds what the last briefing
of its query advertised. `PromisesAreKept` and `RetiredFactsDoFade` follow. `BudgetIsKept` is proved by induction over
the sections of a briefing: what is left and what is used add up to the budget
after each of them, and each costs no more than its share.

Of agent sessions. `AgentSessionProofs` proves of the lease alone that the
record in the manager is the one of a covered operation (`CoveredHoldsLease`)
and that at most one operation of an owner is undisturbed; hence
`LeaseExclusive`. A session takes only steps of the lease (`SessionLeases`), so
`SessionExclusive` follows; `SessionSecrets` rests on the gate and the append
using one extracted text. `KeptInv` says that an append that is not exposed has
read what is still in `notes.md`, since the store's append lock keeps those of
its own store out, and two stores that met without exposure would both be
covered by a lease; and that the note of a call stays in the file until its push
has read it, or, without sync, until it returns. `SessionNotesKept` and `SessionPublishes` follow.

Of the cloud client. The invariant `Inv` of `CloudClientProofs` says that a
request carries the cursor of its call, that a call with a commit has left its
cursor behind (so that no other attempt passes the gate), and that answers are
of the call that waits for them. `ClientCommitsOnce` and `ClientAnswersTrue`
follow for any number of clients, keys and retries. `ProvisionedOnce` rests on
accounts being looked for before each insert, one hook at a time.
`RevokedKeysStayOut` holds of every step that starts in a typed state.

Of the memory runtime. The invariant `Inv` of `MemoryRuntimeProofs` says how
the rewrites of the file of embeddings that are under way relate. The index in
memory only grows, so a newer snapshot holds all that an older one does, in
whatever order they land. A landing makes the older ones that are left `late`;
those that are not late hold everything that any call was told is stored, and so
does the file unless a late one landed last (`behind`). While nothing was
rewritten before the file was read (`~early`), every snapshot, late or not, also
holds what the file held when the process began. A persist carries a document that is in the index
already. Hence `RuntimeEmbeddingsKept`. `RuntimeNotesKept` is inductive by
itself: a write that is not torn goes over the text it read, which has every
note so far. `RuntimeRecallFinds` rests on a durable note being in the lexical
index before its call succeeds, from which only a restart takes it out.
`RuntimeDuplicatesExplained` counts the copies of a note in `notes.md` and in
every text that a caller has read of it: while the note may still be added they
are at most as many as something failed or the process ended, and adding it
closes it until the next failure. All hold for any callers, memories, records, failures and crashes.

The proofs assume what the modules state with ASSUME: that constants have
their types and `Nil`, `None` and `Nobody` are none of the things they stand
next to, and for the graph what is said above of the initial files.

Where a proof goes over data (the sections of a briefing, the entries of a node
list), it takes the least counterexample or an interval from the library's
theorems about numbers, or states the induction of a set of numbers. Theorems
with an operator as a parameter, the folds, `SelectSeq` and the operators `:>`
and `@@` are out of the prover's reach, which is why the modules to be proved
about use recursive functions, and `GraphSearch` takes a batch of edges at once
(`With`) where the code goes over them one by one: no batch of an import or a
decay has an id twice.

Model-checked only is liveness, which is out of the prover's reach:
`EveryRequestAnswered`, `Recovers`, `Converges`, `WaitersGetIn`, `RunsConverge`
and `CallsEnd`. Every other property of a run is stated by a theorem.

`NoTornManifest`, `OnlyOwnerCommits`, `CompletedIsOwnCommit` and
`ProjectWithinCap` are neither checked nor proved where projects are deleted.

## 5. Plan

1. The hybrid strategy's fallback between local and cloud calls, once it does
   more than pass calls on; restoring a snapshot.
2. Two connector runs at once, if the runner comes to guard against them.
