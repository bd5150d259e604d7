# poc-la-graph: specification and verification

poc-la-graph is a multi-project question answering service. Users upload
documents into a project, submit a build, and a worker turns the sealed
documents into a graph and an index; questions are then answered by an agent
grounded in the version that is active. This directory holds TLA+ models of the
parts of it that keep state, the TLC configurations that check them, and proofs
checked by TLAPS. Paths below are relative to `src/apps/api/app/` unless they
say otherwise.

## 1. Inventory

| component | source | state it keeps | operations | modelled in |
|---|---|---|---|---|
| project lifecycle | `projects/repository.py`, `projects/storage.py`, `api/routes/projects/router.py` | rows of projects, snapshots, snapshot files, upload sessions and parts, build jobs, idempotency keys; temporary files and blobs | create project, create upload session, receive part, finalize, delete file, submit build, archive, restore, cleanup, purge | `ProjectBuilds`, `ProjectBuildsAutocommit`, `ProjectAccess` (retention, purge) |
| knowledge worker | `projects/worker.py` | the build it holds; directories `builds/<id>`, `versions/<version>` | recover at start, claim, build, publish, complete or fail, remove the build directory | `ProjectBuilds` |
| cleanup loop | `main.py` 226-245 | none | expire uploads, purge archives, delete old conversations | `ProjectBuilds`, `ProjectAccess`, `Conversations` |
| project access | `projects/repository.py` 560-900, `api/routes/projects/router.py` 397-700 | memberships, access requests | add, change, remove a member; request, decide, cancel access | `ProjectAccess` |
| knowledge ingestion | `knowledge/service/ingestion.py`, `knowledge/state/lock.py` | version directories, the `active` link, `manifest.json`, a process lock | full and incremental ingestion, rollback, startup check, prune | `KnowledgeIngestion` |
| versioned knowledge state | `knowledge/state/repository.py` | a pointer file | read, compare-and-set | not modelled |
| conversation store | `store/sqlalchemy.py`, `store/conversations.py` | conversations, messages, a lease per conversation | create, acquire, append, release, archive, rename, restore, purge, prune | `Conversations`, `ConversationStore` |
| message endpoint | `api/router.py` 337-434 | the stream of one request | acquire the lease, stream, append the answer, release | `Conversations`, `AgentWorkflow` |
| agent workflow | `agent/workflow.py` | the state of one question | route, plan, search, answer, stop at limits, emit events | `AgentWorkflow`, `AnswerStream` |
| source index, chunking | `knowledge/source_index.py`, `knowledge/chunking.py` | one SQLite file of passages | split, index, rebuild, search, read parents | `Chunking`, `SourceRetrieval`, `KnowledgeIngestion` |
| retriever | `integrations/haystack/` | none between calls | search, read parents, merge | `SourceRetrieval` |
| PL/SQL console | `api/routes/plsql/`, `integrations/plsql/` | a graph that a loader replaces | paths, impact, overview; lists and details | `DependencyTraversal` |
| converters, Graphify client, language model, authentication | `knowledge/converters.py`, `integrations/`, `auth/` | none between calls | calls of external services | only their outcomes |
| web interface, migrations, configuration, logging | `src/apps/web`, `src/apps/api/migrations`, `config/`, `observability/` | none shared | - | not modelled |

How they interact. API handlers and the worker share nothing but the database
and the storage directory: a handler queues a job row, the worker polls for the
oldest one, publishes a directory and activates it with a compare-and-set on the
project's generation. The cleanup loop runs in the API process over the same
rows. In real mode the worker runs the ingestion service on a private directory
of the build; the ingestion service also runs by itself, without projects, behind
its own process lock. The message endpoint reads the project's active version
and holds a lease on the conversation while the agent streams; the agent asks
Graphify for the graph of that version and the retriever for its passages. The
PL/SQL console reads a dependency graph that another program loads.

What is hard in it:

* handlers overlap: uploads are finalized, files deleted, builds submitted and
  projects archived at once. On PostgreSQL they are ordered by
  `SELECT ... FOR UPDATE` on the project row; on SQLite (the default database)
  that statement locks nothing;
* finalizing an upload reads files, moves files, reads rows and only then locks;
* the worker may die anywhere between claiming and completing a job; the rows,
  the directories and the job have to be put right by the next start;
* upload sessions lapse while their files are on the way, being validated or
  being stored;
* later submissions, deletions and uploads must not leak into the build that is
  running, and a build that fails must not disturb what is served;
* ingestion replaces a link and writes a manifest in separate steps;
* a lease lapses under a request that still streams, its id is chosen by the
  client, and the block that releases it may itself be cancelled;
* messages follow a deleted conversation by the cascade of a foreign key, which
  SQLite enforces only on connections that ask for it;
* owners are demoted and requests decided at once, and an archived project is
  purged in three steps by a loop that nothing restarts;
* an agent and the consumer of its events are one task: a deadline or a client
  that goes strikes either, and four limits cut the evidence in separate passes;
* what is read in two queries (leaves and parents, the rounds of a traversal, an
  impact and the edges it is compared with) may change between them.

What makes each component correct:

* lifecycle and worker: one build in flight per project, one draft, one active
  snapshot; project state, job, snapshot and file stages agree; what is activated
  is what was sealed; every queued build is settled;
* ingestion: the active link, the manifest and the version directories agree
  after every crash; a failed run leaves the active version usable and is run
  again; pruning never removes the active version;
* conversations: one request at a time appends to a conversation, exchanges stay
  whole, a lease is given back by the one who holds it;
* access: a project always has an owner; a request is decided once; nothing of a
  purged project stays behind;
* agent: an answer cites only evidence of its context; the events come in the
  order of the contract, and every stream ends;
* retrieval: passages cover the document, searches keep to their scope and lose
  no match in merging;
* console: two adapters of one interface give the same answers.

`PROJECT.json` lists the components with their status and, under `hazards`,
everything of the above at the line where it can go wrong.

## 2. Modules

| module | what it is |
|---|---|
| `CorpusActivation` | abstract specification: what a project promises about the corpus it serves |
| `ProjectBuilds` | lifecycle, worker and upload cleanup, with the row locks of PostgreSQL |
| `ProjectBuildsAutocommit` | the same on SQLite: what a handler reads and what it writes are two steps |
| `ProjectBuildsProofs` | types, inductive invariant, safety theorems and refinement of `ProjectBuilds` |
| `ProjectBuildsAutocommitProofs` | what remains of these theorems without row locks |
| `GraphVersions` | abstract specification: what the ingestion service promises about graph versions |
| `KnowledgeIngestion` | ingestion, skip, rollback, pruning and the process lock, with crashes and I/O faults |
| `KnowledgeIngestionProofs` | types, inductive invariant, safety theorems and refinement of `KnowledgeIngestion` |
| `ConversationStore` | the store in memory, each of whose operations happens at once: the abstract specification of the other |
| `Conversations` | the SQL store and the message endpoint over it, with lapsing leases, errors and crashes |
| `ConversationsProofs` | types, inductive invariant and safety theorems of `Conversations`, and that it implements `ConversationStore` |
| `ProjectAccess` | memberships, access requests, retention and purge, with and without row locks |
| `ProjectAccessProofs` | types, inductive invariant and safety theorems of `ProjectAccess` |
| `AnswerStream` | abstract specification: what the client of one question may rely on |
| `AgentWorkflow` | the nodes of the agent, its events, the deadline and the consumer |
| `AgentWorkflowProofs` | types, inductive invariant, safety theorems and refinement of `AgentWorkflow` |
| `Chunking` | how the text of a document becomes passages (definitions only) |
| `SourceRetrieval` | rebuilding, searching and merging passages of a version |
| `SourceRetrievalProofs` | what `Chunking` computes for every text, the inductive invariant and the safety theorems of `SourceRetrieval` |
| `DependencyTraversal` | paths, impact and overview of the console over both adapters |
| `DependencyTraversalProofs` | types, inductive invariants and safety theorems of `DependencyTraversal` |
| `MC...` | the instances of these for TLC |

### ProjectBuilds

State and code: `pstate`, `active`, `version`, `generation` are the columns of
`ProjectRow`; `status`, `docs`, `stage` are `SnapshotRow` and the
`SnapshotFileRow`s (name, content, lifecycle status); `upload` is
`UploadSessionRow` with its parts; `job` is `BuildJobRow`; `finalizing` is what a
finalize handler has done so far; `worker` is the local state of the worker loop;
`run` counts its crashes; `buildRoot` and `corpus` are the directories under
`builds/` and `versions/`.

Actions and code (`map` in `PROJECT.json` gives the lines of each): `CreateProject`,
`CreateUploadSession`, `StartReceiving`/`FinishReceiving` (`receive_part`: the
expiry is checked before the body is read and the part marked after),
`FinalizeValidate`/`FinalizeStore`/`FinalizeCommit`/`FinalizeAbort`,
`DeleteFile`, `SubmitBuild`, `Archive`, `Restore`; `SessionLapses` (the clock) and
`CleanupExpiredUploads`; `WorkerStart` (`recover_builds`), `Claim`,
`MakeBuildRoot`, `StageVersion`, `Publish`, `RemoveBuildRoot`, `Complete`,
`BuildRaises`, `Fail`, `CleanFailedRoot`, `Crash`. The branch of `complete_build` that
is refused by the generation compare-and-set is in `ProjectBuildsAutocommit`
(`CompleteConflict`): under row locks it cannot be reached (`ActivationUnopposed`).

Granularity. A handler that locks the project row before it reads anything else
is one step. Finalizing is three: `validate_and_store` reads the files and counts
the draft's; it renames the files into the blob store and `finalize_upload` reads
the session row; the project row is locked and the rows are written, trusting the
session row read before. The worker's transactions are one step each, because no
one else writes the rows they read. A crash may come after any of them.

Abstractions. The bytes of a file are a model value; the five progress checkpoints
of a build are the one stage "processing"; conversion, Graphify and indexing are
one step that may raise. In real mode a version is named by build and run
(`<<build, run>>`: a fresh UUID per attempt), in synthetic mode by the build
alone (`<<build, 0>>`). An archived project that is archived again only changes
a date and is left out, as a stutter. Rows of blobs, audits and events carry no
decision and are left out.

### ProjectBuildsAutocommit

The SQLite driver opens a transaction at the first INSERT, UPDATE or DELETE, so
each handler that checks before it writes has a `ReadFor...` step, which records in
`checked` what it read, and a `Write...` step, which trusts it. The worker, the
cleanup loop and the steps of an upload that lock nothing are those of
`ProjectBuilds`.

### CorpusActivation

A corpus is submitted whole, and replaces the served one in one step or is given
up. The refinement maps `pending` to the files of the sealed snapshot whose build
is in flight and `serving` to the files the active version's directory was built
of. `ImplementsActivation` is the abstract `Spec` under this mapping.

### KnowledgeIngestion

State and code: `versions` are the directories `versions/<id>`, `link` the
`active` symlink, `manifest` the file `manifest.json`, `rows` the passages of
each version in the source index, `lock` the holder of `manifest.lock`, `proc`
the local variables of `_execute` or `rollback` in each process (the API and the
command line), `input` and `fingerprint` what the operator can change.

Actions and code: `Begin` takes the lock without waiting and reads the manifest
and the documents (`start`, `run_now`, `maybe_startup`); `Reject`, `Reconcile`,
`ReconcileFails`, `Skip` are the early ends of `_execute`; `StartBuild`,
`IndexRows`, `Publish`, `Activate`, `Complete`, `Prune`, `EndOfRun` its way to
the end, `BuildFails` and `Fail` its except branch; `BeginRollback`,
`RollbackActivate`, `RollbackComplete` are `rollback`. `...Raises` is the same
write raising. `Crash`, `ChangeInput`, `Redeploy` are the environment.

Granularity. Every durable write is atomic (a rename or a SQLite transaction) and
an action of its own; what is only read or computed belongs to the action of the
write that follows. A crash may come between any two writes. An I/O fault is a
write that raises, before its rename or (the fsync of the directory raises) after
it.

Abstractions. A set of documents is its `sourceVersion`; a graph, and a set of
passages, is the documents it was made from. A version is named by the number of
its ingestion, because the names begin with the start time (two ingestions begun in
the same second, or a clock set back, are left out); the name `"None"`,
which `str()` makes of a missing version on the skip path, is `Unnamed`. The
fingerprint stands for the Graphify version too, since the skip test compares
both. Removing a version directory is one step, restoring the link after a fault
does not itself raise, and settings change only while no run is under way, since
it takes a restart. Staging and failed directories carry no decision.

### GraphVersions

Versions appear complete and in order, never change, one of them is served and
replaced in one step, and only one that is not served, with enough later ones, is
retired. The refinement maps `graphs` to `versions` and `serving` to `link`;
`ImplementsGraphVersions` is its `Spec` under this mapping.

### Conversations and ConversationStore

State and code: `conv` is `ConversationRow` (state, name, the lease's holder and
whether it is live), `rows` the `MessageRow`s of a conversation in the order of
`ordinal` and row id, `req` the locals of `send_message` and `events()`
(`api/router.py` 337-434), `edit` what rename, archive, restore or purge have
checked, `disturbed` a history of what voids a lease.

Granularity. `acquire_request` and `release_request` are conditional updates and
one step each. `_append` reads the largest ordinal in one step and inserts in
another; the editors check the lease in one and write by primary key in another;
the cleanup deletes by a condition in one. A lease lapses at any time, also under
its holder. A deadline, a disconnection and an error of the database may strike
wherever the handler awaits: the finally block then writes the interrupted
answer and releases the lease, and the scope it runs in may be cancelled already.

Deletion. The cleanup and the deletion of a project delete conversations alone;
their messages go by `ON DELETE CASCADE`. `initialize()` sets `PRAGMA
foreign_keys=ON` on the one connection it uses (sqlalchemy.py 139-143), so on SQLite
another connection of the pool leaves the messages behind. Without `ForeignKeys`, which is
how the run is instantiated, every deletion (`Delete`) may cascade or not, and a conversation
whose messages were left is `"left"` instead of `"gone"`. `purge` deletes through
the session, which first deletes the messages that were loaded when the row was selected
(`loaded`), but not one that was appended since.

Abstractions. Time is gone: a lease is live until `LeaseLapses`, and any
archived conversation may be old enough for `Cleanup`. A message is its ordinal,
its role, the request that wrote it and what has become of it. `RequestId` is the `X-Request-ID`
header, which the client chooses (`main.py` 158), so two requests may share one.

`ConversationStore` is `store/conversations.py`, whose operations run one at a
time under a lock. `ImplementsStore` says that every step of the SQL store is one of its
steps, unless a decision was overtaken: made from rows that changed before it was
written ("overtaken" in `disturbed`).

### ProjectAccess

State and code: `project` is the state of the `ProjectRow` and how far its
retention is, `member` the `ProjectMembershipRow`s, `request` the
`AccessRequestRow`s, `op` the locals of each handler, `content` what a project
keeps elsewhere (conversations, files), `purge` where the cleanup loop and an
administrator's call are in `purge_expired`, `crossed` a history of transactions
that were at odds.

A handler is authorized in a transaction of its own (`Start...`), then reads,
then writes. With `RowLocks`, `SELECT ... FOR UPDATE` keeps others from the row
between the two; without (SQLite), it does nothing. `CheckMembership` is where
the owners are counted, `ReadRequest` where a decision reads the request and the
requester's role, `ReadOwnRequest` where a cancellation reads that the request is pending. The purge is three steps, each of which may fail; an exception
ends the loop for good (`main.py` 236), and a restart brings it back. Names,
dates, audits and the directory of the tenant are left out. Memberships and requests go
with the project row, and messages with the conversations, by cascades that a
SQLite connection without the pragma leaves out: `content` says whether there are
conversations, not what became of their messages, which is in `Conversations`.

### AgentWorkflow and AnswerStream

State and code: `pc` is the node that LangGraph runs next or what `stream()`
does around the nodes, `query` to `answer` are the fields of `WorkflowState`,
`made` counts the calls to Graphify that are really made, `outbox` holds the
events that `stream()` has still to yield and `sent` what the client has got.
Agent and consumer are one task, so a node runs only when `outbox` is empty.
Every call of Graphify, the retriever or the model may give any answer
of its type, raise (`Raise`), or never come back (no fairness).

`_merge_evidence` is modelled as it is: distinct nodes and edges in the order
in which they were first seen, cut by the limits, then nodes dropped until the
rest fits, then ids. `MaxEvidence`, which is bytes in the code, counts items.
Texts, prompts and warnings are left out. A search comes with a list of citations, any
number for a node, under ids of the adapter's choice (`CitationId`); of several with one id the
first counts (`Own`). All of them may be cited (`GivenIds`), while
`prepare_context` shows a node by the last of its own (`NodeId`). An id has a kind
in the model: an adapter that gives ids which begin with the workflow's own `node:`,
`edge:`, `path:` or `source:` is left out (section 6).

`AnswerStream` is the order in which `stream()` and its nodes emit events, and that Graphify is
asked only while a tool is shown to run, at most `max_tool_calls` times. It is weaker than
`docs/architecture/contracts.md` in one point: a failure may follow
an answer that has completed, which `OneTerminalEvent` states and a run refutes (section 6).

### Chunking and SourceRetrieval

A text is a sequence of symbols that stand for what the code tells apart: a
word, a character of two tokens, a blank, the end of a paragraph, an article's
heading, a page break. `Windows`, `PackRanges`, `BoundedRanges` and
`StructuralBlocks` are the functions of `chunking.py` by these names. Of the
levels at which `BoundedRanges` splits a range the model has paragraphs and blanks
(`RefineLevel`) and tokens (`CutLevel`), and blank ranges are left out at the end (`KeptLevel`).
Of the boundaries of a profile it has articles and pages; the Markdown headings of both default
profiles (chunking.py 172-179), which cut a block as an article does and name none, are left out.
`SourceRetrieval` indexes the passages of one document and lets a question
search leaves in its scope, read their parents in a second transaction, and
merge (`AutoMergingRetriever`). The ranking is any choice of candidates. A
rebuild with another profile may come between the two readings.

`RetrievalAssumption` asks of a profile what `profiles.py` 29-40 does: an overlap below the
window of a leaf, and that below a parent (the lower bounds of 64 tokens are not
needed). Where windows step by less than the widest symbol, two windows may begin and end in the
same characters and two leaves get one id, which is the primary key: `RebuildVersion` is then taken
back (`IdsDiffer`). The profiles of the repository step by hundreds of tokens.

### DependencyTraversal

`find_paths` and `impact_of` of the Neo4j adapter expand one frontier per query,
within a number of hops and a budget of edges; the model has one step per query,
and `Load`, another program's, between any two. The sample adapter
(`synthetic.py`), which enumerates trails of edges in memory, is the definition
they are compared with (`AllPaths`, `ImpactTrails`). `overview_of` reads the
incoming edges after the impact. Paging, formats, lists and the cache of finished
impacts (1047-1081) are left out. An edge is a pair of objects: parallel edges of different
types (a table that is read and written) are one.

## 3. Runs

| run | question | expected |
|---|---|---|
| `builds_concurrent` | two overlapping handlers, cleanup, failures and a crash: do project, snapshots, sessions, jobs and directories agree, is what is activated what was submitted, do failures leave the active snapshot alone? | pass |
| `builds_sequential` | two projects, synthetic mode, no two handlers overlapping: does the served graph match the active snapshot, is every queued build settled, does a cleanup loop that goes on close every upload session? | pass |
| `auto` | SQLite, two handlers: can the worker or the cleanup loop make stale what a handler has checked; are two builds ever activated on one generation? | pass |
| `ingest_faults` | two processes, four ingestions and rollbacks, a crash and a fault: does the link name a complete graph, has the manifest's version passages, do only crashes and faults part the two, are versions published, served and retired as promised? | pass |
| `ingest_one_profile` | one configuration: do graph and passages of a version agree, do passages stay as they are; is the lock always freed, is a status ever left running? | pass |
| `conversations` | two requests and an editor on one conversation, with everything that can strike them: who writes, do exchanges stay whole, do messages outlive their conversation, whose lease does a release free, is the SQL store the store in memory? | pass |
| `agent` | one question, any answers, retries, expansion, limits, the deadline and a client that goes: is what is shown what may be cited, are answers grounded, are events and calls in order and bounded, does every stream end? | pass |
| `access` | two handlers, two users, one of them an administrator, no row locks: does the project keep an owner, are requests decided or cancelled once, what does a purge that is cut short leave? | pass |
| `retrieval` | every text of up to five symbols under two profiles, every search and a rebuild in between: do passages cover the document, when do their ids differ, do searches keep to their scope, does merging lose matches? | pass |
| `plsql` | every graph of four objects and every traversal of it, and a load in between: which paths are found, do trails hold together, is the impact that of the other adapter? | pass |
| `final_owner`, `terminals` | the first two items of section 6 | violation |

Deadlock checking is on in the runs of `ProjectBuilds`, `ProjectBuildsAutocommit` and `KnowledgeIngestion`: a created
project can always be archived and restored, and the operator can always edit
documents. It is off in the others, which really stop: conversations are removed,
streams end, a project is purged, a traversal is done.

### Bounds

`Index`, `Build`, `Session` and `Key` bound the rows that can be inserted;
`MaxCrashes` bounds `Crash`. `MaxFiles` is not a bound but a constant of the code.
Two builds and three snapshots are enough for a build, its successor on the
snapshot copied for it, and a failure or a crash of either one; two sessions for
two uploads into one draft; two handlers for every race between two requests.
Two names are needed where deleting and counting files matters, two contents
where replacing a file does; each run takes the smaller sets its properties tell
apart. One crash meets every step of the worker, and the restarted worker meets
every state the first one left.
`SYMMETRY` (sessions, keys, names, contents, handlers) is used in runs of safety
properties only. The safety runs have one project: projects share only the worker,
which `builds_sequential` checks with two, and the theorems hold for any number.

Ingestion: `MaxIngestions` bounds `Begin`, `MaxCrashes` and `MaxFaults` the crashes
and raising writes; `VersionsToKeep` is a setting and 2 its least value. Four
versions are two more than are kept, so that pruning meets a rolled-back link and
a manifest that names an old version; three are enough to prune one. Two sets of
documents, and two fingerprints where they matter, tell changed from unchanged.
Two processes contend for the lock. One crash and one fault, each at any write
and in either order, cover a failure and the failure of what follows it.

Conversations: two requests, two request ids and one editor on one conversation.
Two requests are enough for one to overtake the other at each point, and a
request that is done is free for the next; two ids tell shared ids from
different ones. Conversations share nothing with each other. `MaxTurns` is a
constant of the code, and 1 its least value: the second exchange is pruned
already. `ForeignKeys` is FALSE, so that a deletion may leave messages or take them along.

Access: two users (`u2` an administrator), two handlers, one access request. Without row locks every order of
reads and writes is possible, so this is the harder case; the theorems cover
both, and groups, which this run leaves out and `final_owner` has. `Granted` is "manager", so that members govern without owning.

Agent: four nodes, two edges, a path, a passage and two ids for citations, which a search may
give to one node; `MaxToolCalls` 3, `MaxNodes`
3, `MaxEdges` 1 and `MaxEvidence` 4 are all exceeded by what the services
answer. `MaxCites` bounds the citations of a draft, which may be any ids.

Retrieval: five symbols are long enough for a block that is cut into two parents
with leaves of their own. One profile has both kinds of boundaries; the windows of the
other step by one token, so that some texts give one id twice and are refused.
`TopK` 2 lets the leaves of one parent be found together or apart.

Console: all graphs on four objects, of which one is a package with two of the
others as routines and one routine may call itself; up to three hops; a budget of seven edges
is more than some graphs have and less than others. `Loaded` is one graph, a
ring, so that every round may be followed by rounds over another graph.

### Fairness

`FairSpec` adds weak fairness of the worker's step (its loop always takes the
next one, and the container restarts it) and of the lapse of each session (time
passes). Nothing is assumed of the cleanup loop of `main.py` 226-245, which the first
exception ends for good; `CleanupClosesSessions` has the loop's progress as its premise.
Nothing is assumed of clients; nothing obliges a build to raise or the worker to
crash, and crashes are finite.

`FairSpec` of `KnowledgeIngestion` adds weak fairness of the steps of a run that
has the lock: the builder is stopped after its timeout (ingestion.py 421-430) and
every other step is local work. Nobody is obliged to begin a run.

`FairSpec` of `AgentWorkflow` adds weak fairness of what needs nobody outside
before and after the deadline runs (`Start`, `SetDeadline`, `EndStream`), of the
deadline itself (time passes), and, while no deadline runs, of an event being sent or the
connection given up (a send that never returns ends with its connection). No
node is obliged to end: it is the deadline that makes `StreamEnds` true.

## 4. What the properties say

* `OneBuildInFlight`, `ProjectStateMatchesJobs`, `OneDraftOrSealed`,
  `ActiveIsPublished`: the rows that seven handlers, the recovery and the worker
  write never disagree.
* `OpenSessionsTargetDraft`: an open session pins the draft its files go to.
  It depends on `submit_build` counting lapsed sessions as open until the cleanup
  has closed them.
* `RowsSettle`: no row stays queued or processing without a build in flight.
* `FailedBuildsLeaveActive`, `ActiveMatchesGraph`: the promises to users. The
  second holds only while handlers do not overlap (section 6).
* `CheckedStillHolds`: on SQLite only another handler can make a check stale.
* `OneActivationPerGeneration`: even if one draft is queued twice, two builds do
  not activate on the same generation.
* `BuildsSettle`: every queued build ends, whatever fails or crashes.
* `CleanupClosesSessions`: if the cleanup goes on, every session is closed, also one that lapsed
  while its files were on the way or a finalize handler was using it.
* `LinkNeverDangles`, `ActiveHasRows`: what queries follow exists, the graph by the
  link and the passages by the manifest, after every crash, fault and rollback.
  Pruning looks at neither the link nor the manifest: the link is spared only
  because the newest version is the active one whenever pruning runs.
* `RowsMatchGraph`: graph and passages of a version are of the same documents, as
  long as the fingerprint stays the same. When it changed, the skip path
  (ingestion.py:313) indexes the active version again from the documents just read,
  which after a failed build or a rollback are not those of its graph; so the two
  properties about passages are checked and proved for one configuration.
* `PassagesStayPut`: passages, once indexed, are never written again, so that a chat
  request bound to a version finishes on it while versions come and go.
* `LinkMatchesManifest`: as long as nothing crashed or raised, a failing build at any
  stage leaves the link and the manifest on the same version. It fails as soon as
  two runs overlap.
* `LockIsFreed`, `RunsReport`: the lock taken by a caller and freed by a
  background task is given back on every path; clients do not poll forever.

* `OneWriter`: between taking and giving back its lease a request is alone with
  its conversation, unless a lease lapsed under it or an id is shared. Nothing
  else the model has (errors, crashes, cancellations, editors, cleanup) breaks it.
* `ExchangesWhole`: on the same terms no ordinal is used twice, although `_append`
  locks nothing, and a question is paired with its own answer.
* `NoOrphans`: an append that was decided before a removal is taken back. It says nothing of a
  conversation that was deleted without its messages (section 6).
* `ReleaseFreesOwn`: a request that lost its lease does not give back that of its
  successor.
* `ImplementsStore`: the two stores of the code are one, except where a decision
  was overtaken.
* `OwnerRemains`, `DecisionsStand`: as long as transactions are not at odds. Both
  exceptions are histories that are set where the code makes them possible:
  when two transactions take ownership at once, when two have read one request and both are about
  to decide or cancel it, or when the member whom a decision has read has changed since.
* `PurgeLeavesNothing`: a purge that is not cut short ends what it began; one that
  is leaves conversations or files that nothing lists any more.
* `OnlyShownIsCitable`: ids and evidence are cut by different code
  (`_merge_evidence`) than the context is built by (`prepare_context`). Still everything shown
  may be cited, and what may be cited is shown or is another citation of a node that is.
* `AnswersGrounded`, `ImplementsAnswerStream`, `StreamEnds`: what a client gets. The second leaves
  out that there is one terminal event, which does not hold.
* `ChunksCover`: windows of tokens, turned into ranges of characters, cover the
  text once per level, whatever the profile, and do not collide in their ids where windows step
  by at least the widest symbol.
* `ScopeKept`: no passage of another article is returned, also not as part of a
  parent. It excepts a rebuild since the search.
* `MatchesKept`: no leaf that matched is lost, and none is returned beside its
  parent, even if the passages were rebuilt in between.
* `PathsFound` states which paths the Neo4j adapter finds: those that come to each
  object before the last by a shortest way, so all the shortest (section 6).
* `TrailsHold`: a path or route holds together even over a graph that was torn.
* `ImpactExact`: the impact is that of the sample adapter, but for packages among
  their own dependents.
* `PlainDependentsAddUp`: the overview adds up where each dependent has one edge and no anchor
  has any, for it subtracts edges from objects (section 6).

## 5. What is proved

### ProjectBuilds

The theorems about `ProjectBuilds` hold for every value of the constants under two
assumptions. `BoundsAssumption`: the bounds are natural numbers.
`IdsAssumption`: snapshot numbers and build ids are natural numbers and 1 is a
snapshot number, there is a project, and `None` is none of the values it stands
for the absence of.

`TypeCorrect` rests on `TypeInv`, which adds to `TypeOK` that a worker outside
its resting phases holds a build and a handler that stored files has a session:
without these the steps that use them would not keep the types.

`IInv` is the inductive invariant: `TypeInv`, that a project which was not created
has no snapshot, and the seven safety invariants. None of them is inductive alone:

* `submit_build` may queue a build because the project is not frozen, so
  (`ProjectStateMatchesJobs`) no build is in flight (lemma `NotFrozenIdle`);
* what the worker may write follows from its phase: in a busy phase
  (`WorkerHoldsItsBuild`) its build is the one that is building, so
  (`OneBuildInFlight`) the only one in flight of its project, so
  (`OneDraftOrSealed`) its snapshot is sealed and nothing else of the project is
  editable (lemma `BusyBuild`);
* completing makes the sealed snapshot active and inserts the only editable one,
  failing makes it editable again; in both the project has no build in flight
  afterwards (lemma `SettledJobs`), so `RowsSettle` and `OpenSessionsTargetDraft`
  are kept;
* what is activated was published (`WorkerHoldsItsBuild`) and a published
  directory is not overwritten, so `ActiveIsPublished` is kept;
* uploads and deletions touch only projects with no build in flight (lemma
  `RowsStep`), so the worker's files are still those of its snapshot.

`ActivationUnopposed` is a consequence: the only build in flight of its project expects
the generation the project has, so `Complete` is never refused.

There is one lemma per action (or per group of actions that change the same
state), joined in `StepInv`. `FailuresLeaveActive` is an action property: only
`fail_build` fails a job, and its snapshot is sealed and so is not the active one.

`ActivationImplemented` proves the refinement: initial states map to initial
states; `SubmitBuild`, `Complete` and `Fail` map to `Submit`, `Activate` and
`GiveUp`, because of `BusyBuild` and because the published files are the sealed
ones; every other step keeps both corpora, because rows change only in projects
without a build in flight and published directories are not overwritten.

`ServedIsListed` is about `ActiveMatchesGraph`: the files a project lists for the
corpus it serves are those the graph was built from. It holds only where no two handlers
overlap (section 6), so the theorem assumes `OneHandler` and the run that
checks it has one request. What has to be added to `IInv` is `StoredOnDraft`: a handler that stored
files and has not yet recorded them writes to a snapshot that can still be edited.
With a second handler this is what breaks, because the other one may submit the build
in between.

`ActivationsCount` (each generation was activated once) has an invariant of its own,
`CountInv`, which rests on no other safety invariant: the build a busy worker
holds is `building`, the jobs that are `ready` are as many as the generation, and each
of them expected a generation that is past. With one worker, the comparison in
`complete_build` (repository.py:1291) is enough for this; nothing depends on the locks of the handlers.

### ProjectBuildsAutocommit

Under the same assumptions, and with any interleaving of readings and writes.

* `ChecksHold`: until a handler's reading was overtaken (the history variable
  `overtaken`), what the handler read still holds when it writes. Steps change what
  another handler has read only by an operation that sets `overtaken`, and
  the proof goes through every one of them.
* `LockedUntilOvertaken`: therefore, until then, every step is a step of
  `ProjectBuilds` or changes none of its variables: the module with row locks
  is what SQLite executes as long as handlers do not overtake each other.
* `SafeUntilOvertaken`: the seven safety invariants hold until then; section 6 says
  what happens afterwards.
* `ActivationsCountUnlocked`: `OneActivationPerGeneration` holds without locks, also after
  a handler was overtaken.

The invariant is `AutoInv`: `AutoTypeInv`, `CheckedStillHolds`, and `IInv` until
overtaken.

### KnowledgeIngestion

The theorems rest on `IngestionAssumption` (the bounds are natural numbers, at
least two versions are kept, `None` is no value it stands for the absence of) and
`RowAssumption` (nor is it a passage row or a manifest). They hold for any number of
processes, ingestions, crashes and faults.

`IInv` is `TypeOK`, `LinkNeverDangles`, `ActiveHasRows` and three parts that make
them inductive:

* only the holder of the lock is doing anything (`RunsExclude` states it), so a
  step of one run need not consider another;
* every published version was handed out and has passages;
* what a run knows in each phase (`RunOK`): the version it builds is the latest
  handed out and not published before it publishes it; afterwards it is published
  and indexed, and the link names it from activation on; the link it would restore
  is a published version; the manifest it read names versions with passages.

So a run that prunes has the newest version as the link (lemma `NewestIsKept`: the
newest has no later one, and at least one is kept), and pruning spares it. A skip
writes a name that has passages because it tested for them. `VersionsImplemented`
follows step by step: a publication is later than all others by `RunOK`, a link
change serves a published version by the invariant, pruning is `Retire`.
`PassagesMatchGraph` needs one more invariant, that a run which has indexed has
indexed the documents of its graph, and the assumption `OneProfile` that makes
`Reconcile` impossible for a version that has passages.

`LinkFollowsManifest` is about executions that nothing disturbed. Link and manifest are
written one after the other, so they differ in the middle of a run; what is inductive
(`LinkInv`) is that from its reading of the manifest to its activation a run leaves the
link on the version it read, and that a rollback has it on the previous one. The lemma
`QuietSteps` leaves out the steps that crash or raise.

`PassagesStay` rests on `FreshOK`: nothing is indexed under ids that were not handed
out, nor under that of a run which has not indexed. So `Index` and, with `OneProfile`,
`Reconcile` write only where there was nothing.

### Conversations

For any numbers of conversations, requests, ids and editors, under
`ConversationAssumption`. `IInv` is `TypeOK`, `OneWriter` and

* `PlaceOK`: what a handler's locals are in each phase;
* `AbsentOK`: a conversation that does not exist has no lease, and no messages unless its
  deletion left them (this is `NoOrphans`);
* `KnownOK`, `LiveOK`: handlers work on conversations that were created, and a
  lease that is live has a holder;
* `LeaseHeld`: while nothing voided a lease, the row of a conversation that a
  request holds carries that request's id and is live. This is why a second
  request is turned away, and what `OneWriter` lacks to be inductive.

The ordinals that `_append` computes are a least and a greatest number; that
these exist is proved from the well-foundedness of set inclusion on finite
sets (lemmas `LeastNat`, `GreatestNat`).

`StoreImplemented` is the refinement, with one lemma per operation. Two invariants
are added. `FreshOK`: a conversation that an append read as no longer new is
still not new when it writes, so that its name is not derived twice.
`UncreatedOK`: what was never created has no rows, a new name and no lease. The abstract store appends
at the end; the SQL store inserts by ordinal and reads in that order, and the two
are the same because `_append` takes an ordinal above all others (lemma
`ViewOfInserted`); this is where an append that was overtaken differs. Pruning goes by
roles and statuses alone, which both stores have (lemma `ViewOfPruned`). A step
that only reads, and a transaction that is rolled back, are stutters.

`ExchangesAreWhole` says of every completed answer that its own question is the latest
completed message before it, while no append was overtaken and no lease voided. Its
invariant `ExchangeInv` has `OrderOK` (ordinals grow along the rows, and each completed
answer has its question as the latest completed message before it), `AskedOK` (while a handler
still owes its completed answer, its question is the latest completed message), `LastOK` (the
ordinal it read is still the last when it writes) and `LocalsOK`. A lease holder is alone (`OneWriter`), so
between its question and its answer nobody completes another message; `_prune`
removes from the oldest end and an answer together with its question, so what remains are
whole exchanges.

### ProjectAccess

For any users, groups, handlers and requests, with and without row locks, under
`AccessAssumption`. `IInv` is `TypeOK`, that locals fit the phase (`LocalOK`,
`RequesterOK`), that nothing exists before the project does (`NotYet`), that
groups own nothing, that `crossed` records every crossing in the present state
(`CrossOK`), that a request somebody is about to decide or cancel is still pending until two are
(`PendingOK`, which `DecisionsHold` rests on), `LeftToPurge` and `OwnersSafe`: until owners have crossed there is an owner,
and one who is not about to be taken away. `OwnerRemains` alone says nothing of what the handlers are
about to write; `OwnersSafe` does, because a handler that has checked that its
owner is not the last can only be made wrong by a crossing.

### AgentWorkflow

For any services, limits and questions under `AgentAssumption` (finite sets of
evidence, at least one call and one node). Events are sent one by one after
the node that emitted them, so their order is stated of `Emitted`, which is
`sent \o outbox`: sending leaves it as it is (lemma `SendKeeps`), and nodes only add to
it once all has been sent (`OneMore`, `AnswerMore`). `IInv` says of `Emitted` that it is in order and what has
been emitted by the time a node runs (`EventsOK`), that the calls that are
counted are those that were made (`CallsOK`), that what is shown may be cited and what may be cited
is about what is shown (`ShownOK`; lemma `SameIds` for the merge) and that an answer that passed
`validate_grounding` stays grounded. `StreamImplemented` is the refinement:
`Send` maps to a send that may follow, each call of Graphify to `Call`, ends to
`Close`.

### DependencyTraversal

For any objects, graphs, packages and bounds under `TraversalAssumption`, with a load
between any two rounds. `TrailsLead` is `Spec => []TrailsHold`, by `SearchInv`:

* `PathsOK`: every trail of the frontier and every trail found starts at the source,
  joins its edges, meets no object twice and is as long as the round that made it,
  or not longer. Appending an edge that leads to an object not
  yet visited keeps this (lemma `AppendWalk`);
* `ImpactOK`: what the traversal remembers is layered. An edge remembered of an
  object at distance `n` comes from an anchor if `n = 1`, and from an object at
  distance `n - 1` otherwise, because only objects reached in the round before are expanded.

`Routes` rebuilds the trails from the remembered edges by a function that is recursive in the
distance. That such a function exists is proved by counting up (lemmas `CountUp`,
`LevelsExist`, `RoutesAreLevels`), from the least number principle on finite
sets; `RoutesLead` then shows that each level's routes lead from an anchor, are as
long as the level, and that no object is left without one.

The other three theorems are about a graph that stays in place (`~torn`), where the
rounds are compared with the sample adapter, which enumerates trails. Both sides are
brought to one characterization, `IsTrail`: a sequence of edges that join, come to no object
twice and go on from none of the last ones. `TrailsAre` proves, by counting up
the lengths, that the enumeration gives all of these up to the hops and nothing else.
`ExactInv` adds to `SearchInv`:

* `RoundsOK`, of `find_paths`: the edges known are those that leave objects within the
  rounds so far, the frontier consists of the *straight* trails of exactly that
  length, those that come to each of their objects as early as any trail
  does, and what was found of the straight ones that end at the target. A trail that is not straight takes
  an edge which an earlier round has fetched, and is dropped (`ExpandRounds`). At the end
  this is `PathsFound`: a shortest path is straight up to its last object
  (`ShortestIsStraight`), because a detour could be replaced by the earliest way
  (`EarliestExists`), so `PathsAreFound` includes that no shortest path is missed.
* `SpreadOK`, of `impact_of`: what was expanded is what the anchors reach in the rounds
  before (`Reach`), the frontier is what they reach in this round and no earlier (`AtDepth`), each object's
  distance is its depth, and it remembers every edge that leads to it from the
  depth before (`Remembered`). When nothing is left to expand, further
  hops reach nothing more (`ReachSaturates`), so the traversal may stop early; the routes rebuilt
  from the remembered edges are all shortest trails (`RoutesAreTrails`). This is `ImpactIsExact`.
* `ImpactedOK`: the objects listed are those within the hops. Under the condition of
  `PlainDependentsAddUp`, the incoming edges are as many as the objects they come
  from (`FiniteImage`) and these are among the objects listed, so the difference that
  `overview_of` takes counts the others: `DependentsAreCounted`.

For the counting, `FiniteAssumption` says that a project has finitely many objects.

### SourceRetrieval

For every text over the symbols, every set of profiles and every number of matches, under
`RetrievalAssumption`. Most of the module is about what `chunking.py` computes. Its
loops are functions recursive in a number, of which one proves by counting up that they
exist (`FlattensExist`, `PacksExist`, `ScansExist`) and what each step adds.

* *Ranges.* `Tiles(s, a, b)` says that the ranges of `s` follow one another from `a` to
  `b`. Splitting, packing and cutting by tokens make tilings of tilings (`SplitTiles`,
  `PackTiles`, `RefineTiles`, `CutTiles`, over `FlatTiles`). Leaving out the blank ranges
  leaves ranges that are `Apart` and hold every symbol that is not blank.
* *Windows.* Tokens add up over ranges (`CountSplit`), and the token of a window's end
  names the symbol where the next may begin. So windows cover their range
  without a gap (`WindowsCover`), exceed the limit by at most one token, and no
  two begin at the same symbol if the step is as long as the widest symbol (`Far`).
* *Blocks.* `Scanned` is the invariant of the scan for headings and pages: the blocks
  so far are apart and not blank, hold what is not blank before the current
  start, and each lies in the article that it carries (`BlocksAre`).
* *Passages.* `Sound` is kept by concatenation (`ConcatSound`, `FlatSound`): roots are
  apart and differ in their ids, and so do leaves if windows step far enough. `RowsAre` says what every row is: of the article of its symbols, within its
  limit, and, if it is a leaf, inside a parent of the same article that names it.

`RetrievalInv` is the inductive invariant of the search: the types, `IndexBuilt` (the
index is empty or one building of the text), `FoundLeaves` (what was found are leaves of
*one* building, of now or earlier), `ReadInOrder` (nothing is read before its turn, and a
result is a merging of what was found) and `ReadInScope` (without a rebuild in between, both
lie in the index and the scope). `MatchesKept` says nothing of where matches and
parents come from, so it is not inductive; `FoundLeaves` gives that the matches share one
threshold, and `RowIdsDiffer` that no two parents share a range, whatever building they are
of. Then the element that stands for each match, itself or its parent, is a map onto the result, which
therefore is no larger (`CombinedMerges`). `ScopeIsKept` rests on `ReadInScope` and on
a parent being of its leaves' article (`ParentInArticle`), `ChunksAreWhole` on `IndexBuilt`.

### What is only model-checked

Every invariant and every action property that a passing run checks is stated by a theorem; those
of the two other runs are violated by the code. What is left to TLC are the
liveness properties, which need fairness and `ENABLED` and are out of the prover's reach.

## 6. Where the code disagrees with what it says

Two are runs whose counterexample is a behaviour of the code.

1. `final_owner`. `repository.py:667` and `:706` lock the row they change and
   count the owners that are committed. Two owners, demoted or removed at once,
   each count the other, and both go, with row locks too;
   `docs/adr/0010-tenant-project-access.md:19` says that the final owner cannot be.
2. `terminals`. `asyncio.timeout` (workflow.py:1017) stays entered until the generator ends. The
   deadline may strike when `message.completed` has been sent and the graph has not ended:
   a `message.failed` follows, where `docs/architecture/contracts.md:46` promises exactly one
   terminal event.

The following were met while modelling; each can be seen by stating the
promise as an invariant of the module named.

3. `ProjectBuilds`: `finalize_upload` (repository.py:1032) trusts the session row it read before it waits
   for the project lock. Two finalizations of one session both see it open; the
   second may replace rows of a snapshot that was sealed and activated
   meanwhile, which `README.md:280` calls immutable. What is *served* is not
   affected: `ImplementsActivation` holds in the same state space.
4. `ProjectBuilds`: the file limit (storage.py:122) is checked in another transaction than the one that adds
   rows, so two sessions of one draft, finalized at once, overrun it, with row locks too.
5. `ProjectBuilds`: a requeued build fails because its source directory, made with
   `exist_ok=False` (worker.py:94), was left by the crashed worker.
6. `ProjectBuildsAutocommit`: two overlapping submissions queue one draft twice; the second
   build fails and `fail_build` makes the active snapshot editable and its rows
   failed, although `README.md:283` says failed builds leave the active version untouched.
7. `KnowledgeIngestion`: the running and failed manifests (ingestion.py:376) name the
   new sources beside the old version. After a failed build the next unforced run
   finds nothing changed and completes over the old graph; `README.md:440` ties the
   skip to unchanged inputs.
8. `KnowledgeIngestion`: `_prune_versions` (ingestion.py:909) goes by names: after a
   rollback, the next build deletes the version it names as previous, which
   `ingestion-lifecycle.md:89` forbids.
9. `KnowledgeIngestion`: a crash between link and manifest (ingestion.py:494) is not
   reconciled, as `ingestion-lifecycle.md:98` says it is: the next run is skipped
   and completes with the two apart. After the first ingestion of all it makes a
   version named `"None"` the manifest's active one.
10. `DependencyTraversal`: `overview_of` (neo4j_client.py:1404) takes the number of incoming edges
    from the number of objects, so an object that calls two routines of a package is
    subtracted twice; `synthetic.py:261` says that the remaining distinct dependents are counted. The
    sample adapter subtracts edges too (synthetic.py 269-293), and counts edges as direct dependents
    where the other counts their distinct sources.
11. `DependencyTraversal`: `find_paths` skips edges that an earlier round fetched
    (neo4j_client.py:943). A path that comes to an object later than another one
    does, such as a-c-p-b beside a-p-b, is never found, though the sample adapter
    lists it (synthetic.py:428). `PathsFound` states exactly which are.
12. `DependencyTraversal`: a package none of whose routines has an edge, and a package's
    routines among its own dependents, are treated differently by the two
    adapters; `ImpactExact` leaves both aside.

These contradict no document, but a reader of the properties should know them.

13. `Conversations`: on SQLite a deletion may leave the messages of a conversation behind
    (sqlalchemy.py 139-158, 299-304; `ConversationRow` says "left"). Nothing lists them any more.
14. `ProjectAccess`: without row locks a cancellation writes over a decision that was committed
    since it read the request, and the other way round (repository.py 873-889, 797-863): an approved request
    is then shown as cancelled, though its requester is a member.
15. `AgentWorkflow`: ids are told apart by how they begin (workflow.py:918, 923). A citation that the
    adapter calls `source:...` would count as source text although no passage was retrieved.
16. `SourceRetrieval`: a profile that is valid, with an overlap one token below its leaves, cannot index
    some documents: two leaves get one id, and the rebuild of the version is refused.

## 7. What is not modelled

Of the lifecycle: blob rows and reference counts, the second worker process of an
overlapping deployment, a lost acknowledgement of the commit in `complete_build`,
and temporary files and build directories that only take disk space. Of the
ingestion service: staging and failed directories, faults while the link is being
restored or while a version directory is half removed, and the requests that
query the graph through the symlink meanwhile. Of the conversations: dates and
the age at which the cleanup acts. Of the agent: what the services mean by their
answers, and texts. Of retrieval: the conversion of documents into text and the ranking. Of the console: pages,
lists, formats, the cache of finished impacts and its single flight.

Not at all: the compare-and-set pointer file, which nothing calls; the Graphify
client, which makes one bounded request to a child process per call and keeps
nothing between calls; authentication; the web client; migrations, configuration and
logging.

## 8. Plan

1. Variants of `ProjectBuilds`: a second worker, a lost acknowledgement.
2. The impact cache of the console: one flight per key, cancelled callers, a load
   meanwhile.
