# neogit in TLA+

neogit snapshots directories: it hashes a directory into a Merkle tree, keeps
the tree as a graph in Neo4j (`Tree`, `Blob`, `Commit`, `Branch` nodes) and the
file contents in an object storage keyed by SHA-1. This directory holds TLA+
specifications of that program, the TLC configurations that check them, and
proofs checked by TLAPS. Paths below are relative to `src/neogit/`.

Six of the twelve runs pass and cover the parts modelled; six find
counterexamples to what the documentation says (section 7). The theorems hold
for every value of the constants (section 6).

## 1. Inventory

| Part | State | Operations | Talks to | What is hard | What makes it correct |
|---|---|---|---|---|---|
| Commit pipeline: `merkle/visitor.py`, `merkle/uploaderthread.py`, `core/visitor/node.py` | two queues, one of them shared by all builders of the process; the loop's `item` and `last_item`; futures | `NeoMerkleTreeBuilder.run`, `ObjectUploaderThread._run`, `NodeVisitor.run_visit`, the exits of the contexts | visitor -> main -> submit thread -> pool; main -> transaction | four kinds of thread, two sentinels, exceptions of any thread | a published commit is whole and its blobs are stored; every commit ends; nothing is left for the next one |
| Object uploader: `merkle/uploader.py`, `merkle/utils.py` | futures, worker numbers, `_has_exception`, per-thread containers | `submit`, `_storage_upload`, `_check_upload_result`, `wait` | file system, object storage | probe then upload by concurrent workers and processes; files that change after they are hashed; interrupted uploads | the object under a key has that hash, and is all there |
| Object storage: `object_storage/*`, its callers in `service/neogit.py` and the fixtures | containers and objects; one driver per thread ident; the dictionary of the fake | `create_container`, `get_container`, `get_object`, upload, download, `delete_object`, `delete_container`, `TSObjectStorage.instance` | libcloud, a directory or a service | several calls per operation with other threads in between; generators that raise after their wrapper has returned; idents that come again | every backend is an object store to its callers; no driver is used by two live threads |
| Commit history: `model/neo.py`, `service/neogit.py` | Commit and Branch nodes, `HAS_PREVIOUS`, `TRACKS_COMMIT` | `commit` (`unique`, `before`), `create_branch`, `log` | Neo4j transactions | two clients on a branch under read committed; history rewriting shared by branches | the log is a chain with every commit in it, in order |
| Merkle hashing: `core/merkle/*`, `core/model/*`, `merkle/hasher.py` | none beside the walk | `visit_FSFileNode`, `visit_FSDirectoryNode`, `_safe_is_dir_key` | file system | unreadable files and directories, symbolic links, the order of entries, names with newlines | equal hashes mean equal trees |
| Tree graph and search: `model/merkle.py`, `search/fs_search.py` | Tree and Blob nodes, named edges | `create_from_merkle_node_cypher`, `get_child_at_path`, `iter_children`, `list_children`, `all_blobs`, searches | Neo4j MERGE | shared subtrees, two names of one content, limit of a search | the graph below a Tree is the directory |
| Tree diff: `diff/differ.py` | a recursive generator over query results | `diff_trees`, `_iter_subtree` | Neo4j reads | a name that changes its kind, shared subtrees, commits in between | exactly the changed paths, once |
| Console: `console/*` | rows of workers, counters, folder pane | hooks of the pipeline | all pipeline threads | called from several threads, in a `finally` | a row per worker that shows its upload; counters that add up; a pane that fits |
| Backoff: `service/neogit.py:43-57`; `core/visitor/thread.py` | retries; a thread | - | nothing calls them | - | - |
| Entry point, configuration, renderers, fixtures | none | argument parsing, formatting | service | - | - |

The object storage is what the parts meet in: `ObjectUploader` looks at it from
a commit (what must be under a key), `ObjectStorage` from the adapters (what
one call, and the error it raises, may do to others), `UploadConsole` at the
drivers behind it.

## 2. Plan

Done, in the order of importance:

1. `CommitPipeline`, the threads of a commit, with `SnapshotStore` as the
   abstract specification, and `CommitPipelineProofs`.
2. `ObjectUploader`, one object storage, several processes and workers, with
   `ObjectUploaderProofs`.
3. `CommitHistory`, commits and branches under concurrent clients, with
   `BranchLog` as the abstract specification, with `CommitHistoryProofs` and
   `CommitLogProofs`.
4. `MerkleGraph`, hashing, graph, lookup, children, search and diff in one
   module, since they share the graph, with `MerkleGraphProofs` and the pure
   `FolderPane`.
5. `UploadConsole`, which composes `ObjectUploader` with worker numbers, drivers
   and the console, with `UploadConsoleProofs` and `UploadDisplayProofs`.
6. `ObjectStorage`, the adapters call by call, with `ObjectStore` as the abstract
   specification and `ObjectStorageProofs`.

What could follow: the counters of directories and trees of the display, and an
abstract specification of the diff for databases in which hashes collide.

## 3. Modules

Each definition that models code is mapped to its lines in `PROJECT.json`.

### CommitPipeline, SnapshotStore

One process. The visitor thread queues the nodes of a walk (`vq`), the main
thread takes them, puts them in the shared queue (`uq`), checks for upload
errors and merges directories in the open transaction (`txn`), the submit thread
takes from `uq` and gives hashes to the upload pool. A commit's main thread goes
through the program counter `pc`: `take`, `check`, `merge` are the loop of
`run`; `sentinel`, `join`, `root` what follows it; `unwind`, `shutdown`,
`exit_visitor`, `finish` the exits of the contexts and the end of the write
transaction. A fault is a member of `Faults`: the visitor, an upload, a merge or
the transaction fails; an interrupt arrives in the loop, or after the sentinel
was put; the process dies (Neo4j rolls back, objects stay). A directory is its
walk: the sequence of hashed files and directories in visiting order.

`SnapshotStore` has two actions: an object appears; a whole snapshot appears, and
if it is `sound`, over objects that are all there. `ImplementsStore` maps commits to
snapshots, sound ones being those without an upload error that began with an
empty queue, so that the refinement holds whatever fails.

### ObjectUploader

Several processes share one storage. `Submit` hashes a file and submits it;
`Take`, `Probe`, `OpenStream`, `StreamChunk` and `StreamEnd` are the steps of
`_storage_upload`, each a point where another worker may run; `StorageFail`,
`Crash` and `Edit` are what may go wrong. A content is a sequence of chunks and
stands for its own hash (SHA-1 is taken to have no collisions). A file may be
unreadable, or stop being readable in the middle: the hash is then that of the
chunks read (`core/merkle/filesystem.py:45-55`), and the upload raises. The
storage is atomic (`Atomic`: S3, MinIO) or written in place (libcloud's local
driver, the default). Files change either at any time (`"edit"`) or only when no
upload of them is pending (`"between"`). Whether the error of an upload is
noticed is the pipeline's business: `"late"` lets a commit be published over it.

### UploadConsole

`UploadConsole` extends `ObjectUploader`: every step that stores something is one
of its actions, joined with what the same code does to state the threads of a
process share. The main thread puts a file in `uploader_queue` (`ConsolePut`), looks
for an exception (`ConsoleCheck`) and announces the file (`ConsoleHashed`), each a step
of its own (`loop`), while the submit thread hands the files that wait to the pool
(`ConsoleSubmit`). `pool` is the files from the moment they were put, the last
`waiting` of them being those the submit thread has not taken yet: it is in the same
order, and no worker sees them. An exception may also be met at a directory
(`ConsoleRaise`); the commit then ends without a root. `ident` is the thread ident of a worker; a pool thread starts with
its first job and ends with its commit, and its ident may come again. `drivers`
is `TSObjectStorage._instances`, which lives as long as the process. `numbers`,
`lock`, `at` and `counted` are `_worker_number`: it looks the ident up without
the lock (`AskNumber`), then takes the lock and counts (`TakeLock`), then stores
count + 1 (`GiveNumber`). `rows` and `tally` are the worker rows and counters of
`RichConsoleAdapter`, changed by the hooks: `ConsoleHashed`, `StartUpload`, each chunk,
and the `finally` of the upload. `unshown` is a history variable: the uploads that
raised before their first hook (`NoContainer`), which no counter has.

### ObjectStorage, ObjectStore

Threads of one process run the operations that reach the object storage:
`Neogit.init`, the probe and upload of a worker, `get_object_size`,
`download_object_as_stream`, `delete_object` and the clean-up of the fixtures, over
the fake of the tests, a remote service or a local directory (`backend`). A
libcloud call is one step and an operation is several of them: `get_container`
lists the containers and then gets one, a clean-up lists the objects, deletes them
one by one and then the container, which is refused when it is not empty. The
fake looks for a container and stores an empty one in two steps (`Create`,
`CreateSet`), and looks nothing up before it stores. `pc` is the call a thread is
about to make, `outcome` how its last operation ended; an error is one of
`abstract.py` ("no object", "no container", "error"), the file's own ("raised"), or
"raw" when libcloud's or Python's own error comes through. A key stands for its
content, so an object is there, in part, or not at all. `orphans` are threads that
write a local file that was deleted under them.

`ObjectStore` is what callers may rely on: each operation takes effect at one
moment between its call and its return, except for a clean-up, whose deletions
are seen one by one. `ImplementsObjectStore` excepts the one step at which the fake
creates a container that another thread has created meanwhile.

### CommitHistory, BranchLog

Each client runs `commit`, `create_branch` or `log` query by query. Reads see
what is committed; writes lock their nodes until the transaction ends, and are
seen when it does (`Commit`), so a lock that is never free is a deadlock, which
Neo4j breaks by failing a transaction (`Fail`). `neomodel`'s `replace` matches
the edges to delete first and deletes them when it has the locks (`Match`,
`Replace`). A commit's hash is its name and a stamp, which stands for its second
and its tree. `above`, `overtaken` and `known` are history variables: the order in
which commits were put, whether a commit changed what another one had read, and
what was in a branch when a commit was asked for.

`BranchLog` is a log of commits per branch, with three operations: a commit in
front, a commit behind another one (in all branches that have it), a fork.
`ImplementsLog` holds for several clients until a commit overtakes another, and
for ever for a client that is alone.

### MerkleGraph, FolderPane

`Hash` is the text `visit_FSDirectoryNode` feeds to the hash: the lines of the
entries in the order of `_safe_is_dir_key`, one after the other, a line being name,
hash and newline, without the kind. A text is a sequence of signs; `Spelling` gives
the text of a name, in which there may be newlines and hashes. The digits of a hash are one sign,
since all hashes have the same number of digits. `Commit` merges all Trees, Blobs and edges of a directory, as the
transaction does. `ChildrenAtPath`, `AllBlobs` and the three searches are the
queries, and `IterChildren` and `ListChildren` the methods of `Tree`, as the sets of
what they may return, a child for each edge: `all()` matches edges, so a content with
two names comes twice, and `Relationship` is one of the edges to a child, since
`relationship(child)` returns any, the same for both. Two of the modelled functions repeat a query
by length: `Levels` is what is below a Tree by the length of its path, `Along` the
Trees along a path. The diff is a stack of query results (`frames`), a frame
being what is left of one query: `Push` puts a query on top unless it found
nothing, `Done` takes one record from the last query; commits may happen between
its yields. `Depth` measures how far down a node goes, so that directories come
to an end. A file or a link is a node with its text: the content, the target of
the link, or what could be read before an error.

`FolderPane` has the pure functions behind the folder pane; `PaneExact` applies
them to the walk of each committed directory.

## 4. Runs

| Run | Instance | What it shows | Distinct states |
|---|---|---|---|
| `pipeline_faults` | two directories (nested, with a shared blob), two workers, two commits, all faults | `SnapshotComplete`, `NoPartialTrees`, `StoredIfClean`, `NoOrphanThreads`, `QueueClean` and the refinement of `SnapshotStore` whatever fails; under fairness every commit returns or raises (`CommitReturns`) | 92,444 |
| `uploader_atomic` | two processes with a worker each, two paths, four kinds of file, three commits, failures, deaths, files that change between uploads | `ContentAddressed`, `PublishedRestorable` | 1,334,347 |
| `uploader_console` | one process with main, submit thread and two workers, two idents, two paths, files of one chunk or none, two commits, in-place storage, failures, deaths, edits at any time | `PublishedPresent`, `NumbersDense`, `OwnDrivers`, `RowShowsUpload`, `FilesAccounted` | 1,092,415 |
| `history_rivals` | two clients on one branch, in every way one of them can commit, with forks, reads and `--before`, four operations | `HistoryOrdered`, `LogDescends`; until a commit overtakes another `OnlyOvertakingLoses`, `OnlyOvertakingForks`, `UniqueAdds` and the refinement of `BranchLog` | 235,827 |
| `merkle_diff` | 13 directories of depth up to three, three commits and a diff in between | `GraphFaithful`, `LookupAgrees`, `ChildrenAgree`, `SearchAgrees`, `PaneExact`, `DiffExact`, `TreesImmutable` | 44,045 |
| `object_storage` | three threads, two keys, all three backends, five operations | `PartsExplained`, `RawOnlyAfterDelete`, the refinement of `ObjectStore` | 338,112 |
| `pipeline_late_upload_error`, `pipeline_stale_sentinel`, `uploader_truncated`, `history_lost_commit`, `merkle_ambiguous`, `merkle_children` | the smallest instances that show them | counterexamples, section 7 | - |

Every bound is a constant or a guard. They are enough for this reason:

- `MaxRuns` = 2 in the pipeline: the only state that outlives a
  commit is `uq` and what is stored, so two commits show everything one can do
  to the next; two workers show every race of two uploads, and the walk of five
  nodes has a directory before and after a file and a blob twice.
- `MaxCommits` = 3 over two processes: two commits can race and a third one meet
  what they left. Contents of one and two chunks, one a prefix of the other, let
  a truncated object be the whole of another one. `uploader_console` is about the
  threads and has files of one chunk or none: an upload can still stop before, in and
  after its stream.
- `MaxOps` = 4 in the history: the shortest one in which a commit is put before one
  that has a previous one while another client does the same.
- Three commits of directories that share subtrees, gain, lose and change entries
  and their kind, with two names of one content in a directory and one content under
  different names in two; `Limit` = 3 lies below and above what searches find; the
  heights 5 and 9 of the terminal show one and two files of a folder of three, so that
  files are left out at either, and after a resize. In `merkle_ambiguous`, one name
  spells an entry, a newline and another name.
- `MaxOps` = 5 in the storage: a creation, an upload, and three threads that
  delete, clean up and upload, look or download at the same time.
- `Terminated` lets a behaviour that has used its bounds stop, so deadlock is
  checked everywhere but in `pipeline_faults`, where a thread that waits for
  ever is what `CommitReturns` is about.

Symmetry is used for paths, workers, idents, names, threads and keys where the
instance treats them alike. No run with symmetry checks liveness; the refinement
in `object_storage` only speaks of single steps.

Each property of a passing run has a faulty variant of the code (in the modules
under *Faulty variants*) that breaks it.

## 5. Fairness

Only `CommitReturns` needs fairness: weak fairness of the main thread, of the
visitor, of the submit thread and of each worker. All are threads of one
interpreter, which starves none of them; what they wait for (a queue, a future,
an executor) wakes them up once it is there. Nothing is assumed about faults, the
process dying, or new commits being asked for. An upload or a query is taken to
end, with success or an error: there is no timeout in the code.

## 6. Theorems

All are proved for any constants that satisfy the named assumptions of the
modules, which say what the code gives: a walk ends with a directory, None is
not an item, a worker belongs to a process, directories are finite.

**CommitPipelineProofs.** The inductive invariant has, beside `TypeOK`:
`MainInv` (what `item`, `last` and `raised` are at each `pc`), `VisitorInv` (`vq`
ends with what was visited last, then its sentinel, and is empty after the
loop), `DirsInv` (a directory the visitor has produced is merged or waits to
be), `OriginInv` (what is merged is of the walk), `WholeInv` (published snapshots
are whole), `BlobsInv` (a blob of a clean commit is in a queue, the pool, a worker
or the storage, or an upload has failed), `QueueInv` (what is in `uq` and how many
sentinels), `ThreadsInv` (which threads live at each `pc`). `SnapshotComplete`
alone is not inductive: that a walk whose visitor died is not published follows
from `exit_visitor` reading the future, hence `VisitorInv` and `MainInv`.
`QueueStaysClean` and `PipelineImplementsStore` hold under every fault; the latter
adds `CarriedInv` (what is on its way to the storage is a blob of a directory that
may be committed), so that `BlobsInv` gives all blobs of a sound snapshot at the step
that publishes. `StoresEveryBlob` says when the promise of the documentation
holds: the storage does not fail and nothing raises after the sentinel.

**ObjectUploaderProofs.** `StreamInv` (the object an in-place upload writes to
is there) and `KeysInv` (a key of a commit without errors is stored, queued or
being uploaded) give `PublishedPresent` for any storage. `FreshInv` (the key of
a pending upload is what its file holds) and `BufInv` (what is streamed is a
prefix of the key) give `ContentAddressed` for an atomic storage, if no file
changes between its hash and its upload; both give `PublishedRestorable`.

**UploadConsoleProofs.** Every step of `UploadConsole` is a step of
`ObjectUploader` or changes none of its variables, so all its theorems hold
there too. `NumbersDense` needs `LockInv` (the holder of the lock has the count
right, and there is one), `LiveInv` (a worker on its way to a number keeps its
ident) and `OwnedInv` (each number belongs to a live thread, hence there are no
more numbers than rows).

**UploadDisplayProofs.** `OwnDrivers` is not inductive: a thread may take an ident
whose driver is old. `DriversInv` (drivers of all idents ever seen differ) and
`Distinct` (live threads of a process have different idents) make it so. For
`RowShowsUpload` one has to know that two workers never write one row: numbers of
different idents differ, because as many numbers as idents have no gaps
(`NumbersDiffer`, a surjection between finite sets of one size), and idents of live
threads differ. `FilesAccounted` follows from `CountInv`: the files that wait, are being
uploaded, are counted as uploaded or skipped, or raised before they were shown, are
those the panel has and the one the main thread has put and not announced
(`Unannounced`), so neither the pace of the threads nor a failure breaks the sum.
`LoopInv` says that the files the submit thread has not taken are the last ones in line.

**CommitHistoryProofs.** The invariant says what a client knows of the commit it is
about to make: `CommitInv` that nobody else can make one of its hash (it holds the
lock of the node it owns) and that what it read behind its anchor was behind it in
`above` and stays there, `BranchInv` the same of a new branch, `TrailInv` that a log
never leaves the commits. `HistoryOrdered` and `LogDescends` follow for any number of
clients. `OvertakingForks` and `OvertakingUnlinks` add `SeenInv` (once `replace` has
matched, the edge to the commit that was read is among those it deletes, or is gone)
and `Linked`: until a commit overtakes another, branches and commits have one
successor at most and every commit is tracked by a branch or the previous one of a
commit.

**CommitLogProofs.** What is in a branch (`Reach`) is the least set closed under its
edges and a log (`Walks`) a sequence that follows them, so both are proved about by
least sets and least lengths. `HistoryInv` adds what a client has found: until a
commit overtakes another, all it walked over and the commit it chose as its anchor
stay in its branch (`PlaceInv`), and the commits of a name that its branch had when
it was asked for one are behind its walk or on it, and none once the walk has ended
(`UniqueInv`). `OvertakingLoses` and `UniqueCommitsAdd` follow. `HistoryImplementsLog`
needs that each branch has exactly one log (`LogLaws`) and then goes through what a
transaction writes: a fork, a commit in front (`PrependStep`), a commit behind
another one, in the log of each branch that has it and in no other (`InsertStep`).

**MerkleGraphProofs.** `GraphInv` is `TypeOK`, with finitely many edges and all
directories of each commit in the database; `TreesInv` says that a Tree there has the
entries of a whole directory. The recursive functions over directories are unfolded
after a proof that a function with their equation exists, and what holds below a
directory is proved by a least counterexample, over `Depth` or over the length of a
path.

- `KeepsTrees`, `FaithfulGraph`, `ChildrenRead`, `LookupFinds` and `SearchFinds` assume
  that directories of one hash have the same entries (`HashFixesEntries`), which the
  code does not guarantee (section 7). `KindsFixEntries` derives it from `KindsApart`,
  no file has the hash of a directory, and `PlainNames`, no name has a newline; finding 5
  shows what goes wrong without either. The argument is that of a parser: a line has its
  only newline at its end (`IsLine`), so a text is the lines of one sequence only
  (`ParseOnce`, which takes them off the end one by one), and of a line the last sign but
  one is the hash and what is before it the name (`LinesOnce`); a line has no kind,
  but under `KindsApart` a hash has one. `HashTellsContents` goes on: equal hashes
  mean equal contents all the way down, which is what the documentation says of every
  hash.
- `ChildrenRead` says that there is a child for each entry; that they are the entries
  only if no content has two names in the directory (section 7).
- `DiffIsExact` assumes `Telling`: `KindsApart`, `PlainNames`, and that directories of the
  same contents list them in the same order (`ContentsFixOrder`). The latter fails only if
  of two links with one name and text one leads to a directory and the other does
  not, since the order of entries follows links; a diff then reports a change where
  there is none. The instance of `merkle_diff` satisfies all three.
  The invariant of a diff, `DiffInv`, is that the tasks left in `frames` stand for the
  changes that have not been yielded, each change for one task (`Tiles`): a record
  to yield stands for itself and all changes beyond its path on its side
  (`Region`), one to enter for those beyond it. `RegionSplit`, `RegionEmit`,
  `RegionCompare` and `RegionOne` say that each step of the generator hands on what
  its task stood for: a name that changes its kind, a record that is yielded, two
  directories that are compared, a directory that is there on one side only.
- `PaneShowsLast` needs no assumption: `Shows` is kept by each file that is folded in.
  The walk is a sequence of paths because entries can be sorted (`SortExists`).

**ObjectStorageProofs.** `DoInv` (which operation a thread at a label runs),
`SeenInv` (until something is deleted, a thread can rely on the container and the
object it has seen) and `WriteInv` (a local file that is being written is there
unless it was deleted) give the types, `PartsExplained`, `RawOnlyAfterDelete` and,
action by action, `ImplementsObjectStore`.

Only model-checked: `CommitReturns` (liveness, out of the prover's reach). The
properties of runs that find a counterexample are not proved, of course; where they
hold under a condition, a theorem says so (`StoresEveryBlob`, `OvertakingLoses`,
`HashTellsContents`).

## 7. Findings

With a run that shows them:

1. `pipeline_late_upload_error`: errors of uploads are looked at in the loop
   only, not after `join`; an upload that fails later leaves a commit without
   its blob.
2. `pipeline_stale_sentinel`: `uploader_queue` is one queue for all builders; an
   exception after the sentinel was put leaves a second one there and the next
   commit uploads nothing.
3. `uploader_truncated`: an interrupted upload to a storage written in place
   leaves a truncated object that is taken for the whole one ever after.
4. `history_lost_commit`: of two commits that read the same head, one is in no
   branch afterwards.
5. `merkle_ambiguous`: an empty file and an empty directory, or a file with the
   text of a directory, have the same hash, and so do the directories around them. So
   have directories whose texts are the same because a name has a newline in it: the
   one entry `a<hash>\nb` reads like the two entries `a` and `b`. Their snapshots then
   share one Tree and both have the entries of both.
6. `merkle_children`: `list_children` gets a child once for each edge to it and asks
   for *the* edge each time, so of two names of one content in a directory it lists one
   twice and the other never (`model/merkle.py:184-198`).

Seen in the code and not turned into a run:

- A file that changes after it was hashed is stored under its old hash
  (`merkle/uploader.py:142`).
- A file that cannot be read is hashed as what was read of it, but its upload
  raises and with it the commit, where `docs/explanation/merkle-design.md:19-21`
  says it is treated as empty.
- `--unique` on a branch with two commits of the name raises
  (`model/neo.py:108`); two commits of one name and tree within a second have one
  hash and the second raises (`model/neo.py:68`).
- The fake's `create_container` looks and then stores: of two threads that create
  the container, the second one drops what was uploaded in between
  (`object_storage/fake.py:33`).
- `wraps_exception` around a generator returns before the generator runs, so errors
  of a download are libcloud's own (`object_storage/lib_cloud.py:143`).
- A root that is a link or a file is committed as an empty tree.
- Failed uploads count as uploaded on the display (`on_upload_finished` is called
  in a `finally`), but not those whose container could not be got.
- A file is announced after it was put, so the display may count an upload before its
  file (`merkle/visitor.py:45,50`), and never counts the file at which an exception
  was met.
- Links to directories sort among directories, so files of a folder may be
  hashed before and after a subdirectory: the pane starts its count again.

## 8. Not modelled

- Code the program does not run: `cypher_query_with_backoff` (nothing calls it),
  `NodeVisitorThread` (only a unit test starts it), the neomodel variants of the
  merge, `Tree.asdict` (only a test uses it), `model/old_model.py`.
- An interrupt while a context exits, hooks of the console that raise, and two
  builders at once in one process: the service runs one commit at a time.
- The order in which Neo4j takes locks within one query, and its deadlock
  detection: any operation may fail at any step instead.
- The object storage: chunk sizes, hash collisions and the lock files of libcloud's
  local driver (they allow fewer orders); several containers; uploads and downloads
  by path, which do what those by stream do; services that create a container on
  first use; the error Python raises when the fake's dictionary changes while it
  is listed; the settings of the drivers.
- Names that are not UTF-8, backticks in names (`utils.py:48`) and roots that are not
  directories: strings and single calls, which a unit test reaches.
- `get_capabilities` and the lookup of the refs of a diff, which read one commit.
- Argument parsing, configuration, renderers and fixtures.
- The counters of directories and trees of the display, and adding rows while it
  runs: there is one row for each thread from the start, unless the number of
  processors the display and the pool see differ.
