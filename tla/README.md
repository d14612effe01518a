# findle / vca in TLA+

This directory holds TLA+ models of findle, the desktop search of this
repository: a daemon (`findled`) that indexes the words of the files under the
user's directories, a command line and a desktop that search the index. The
models are checked with TLC on small instances; what matters most is proved with
TLAPS for all instances.

`PROJECT.json` is the machine-readable index: components, runs, the source lines
behind every definition, hazards, theorems, and for every property of a passing
run a mutant of the code (an operator with a comment `Mutation:` beside the
definition it replaces) that breaks the property.

## 1. The system

### Processes, threads and what they share

    scanner threads --+                        +-- search index (SqliteUserDb)
    watcher threads --+--> CommandQueue --> main thread
    HTTP handler threads                       +-- UserConfig, scanners, watchers
        |    ^ future
        v    |
    command line, desktop (HTTP)      files: user.json, user.db, app.json + lock

The daemon has one main thread, which owns the database, the list of directories
and the scanners and watchers. It runs the commands of a queue, one at a time, 60
times a second. All other threads (a scanner and an efsw watcher for each
directory, the watcher of the configuration, the HTTP server's pool) push commands
and, except for the handler threads of the server, do not wait for them. The
exceptions are in the hazards: handlers of `POST /c` write `user.json` themselves,
and scanner threads read a flag of an object that the main thread destroys.

The desktop has one main thread, which runs the view and the model and blocks while
it searches, and one worker, which asks the daemon for its state once a second and
sets two nodes of the same model.

### Components

| component | state | operations | correct if |
|---|---|---|---|
| search index `core/vca/sqlite_userdb` | four SQLite tables that survive the process; in memory: registered directories, three id counters, cache | `create`, `add/remove_root_dir`, `update/remove/move_file`, `search` | rows are keyed and references whole over restarts and failed commits; the cache is never stale; callers see documents put, dropped and moved |
| file scanner `daemon/src/file_scanner` | one thread and a directory iterator for each directory | scan, `user_config_changed` | every file that was there is indexed; the scanners are those of the configuration |
| file watcher `daemon/src/file_watcher` | one efsw watch for each directory | `handleFileAction`, `user_config_changed` | every change reaches the index |
| command queue `core/vca/command_queue` | queue of closures | `push`, `sync` | order of each thread kept, exceptions kept in the future |
| user configuration `core/vca/config` (UserConfig) | `user.json`, `root_dirs`, observers, a watch on the file | `read`, `populate`, `write`, `as_json`, `set_json`, `handleFileAction` | disjoint directories; memory follows the file; edits stand |
| app configuration and lock `core/vca/config` (AppConfig), `file_lock` | `app.json`, `app.json.lock` | `write`, `read`, `FileGuard` | a published port is listened on; nobody reads half a file |
| HTTP server `daemon/src/http_server` | port, threads, futures | port search, `get/set_config`, `search`, `status`, destructor | every question ends; the port published is the port bound |
| daemon `daemon/src/daemon.cpp` | signal flag | start, main loop, end | a signal ends it |
| command line `command/src/command.cpp` | port read from `app.json` | wait, read, search | gets on when a daemon runs |
| worker pools `core/vca/async`, `desktop/src/qtc/ThreadPool` | queue, flag, mutex, condition variable, threads | constructor, `push`, `worker`, `shutdown` | no task lost or run twice, no lost notification, shutdown ends |
| desktop model `desktop/src/qtc/Model, NodeBase, Handler` | nodes, undo and redo stacks, settings | `setValue`, `startAction`, `endAction`, `undo`, `redo`, `initialize` | settings mirror persistent nodes; the two stacks are one history of the present values |
| desktop handlers `desktop/src/engine` | search results, status flags, a status thread | `connect`, `worker` | results are those of one answer; the state of the daemon arrives; the worker ends |
| desktop bindings `desktop/src/qtc/Output` | the value shown, a listener | `componentComplete`, destructor | an Output shows what its node holds |
| desktop view `desktop/src/view/View.cpp` | none | read, add to, remove from the list of directories | other entries survive |
| tokenizers and strings `daemon/src/*_tokenizer`, `core/vca/string` | none | words of a text | no word lost, no markup indexed, every file read to an end |
| zip inflater `core/vca/zip_inflater` | buffer, current entry | inflates matching entries up to a limit | stops at the limit |
| logging, time, utilities | none that matters | | |

### What is hard

* Four kinds of threads race over the same files; what a thread has read is old
  when its command runs (`Indexer`).
* Memory is changed before a commit that may fail, and ids start again in each
  process while words stay (`SqliteUserDb`).
* `user.json` is truncated and written in place by several writers, with a watcher
  that tells the daemon late, also of what the daemon wrote itself (`UserConfig`).
* `app.json` is published and withdrawn by several daemons that may crash, and
  handler threads wait for a queue that nobody serves after a signal (`Rendezvous`).
* A condition variable with notifications inside or outside the mutex, and tasks
  that push tasks during a shutdown (`WorkerPool`).
* Parsers with signed indices, limits that cut a text anywhere, bytes that are no
  characters (`Tokenizers`), and an operand stack that other operators leave things
  on (`Pdf`).
* A view on the main thread and a worker that set nodes of one model without a
  common lock, handlers that are destroyed while the worker uses them (`Desktop`),
  and an undo history with two stacks of which one is never cleared (`Model`).

The list with lines is under `hazards` in `PROJECT.json`; a hazard that no
property covers says why.

## 2. The modules

`Paths` gives paths as sequences of components, with `is_parent_of`, `relative`
and `operator/`; all others that speak of directories extend it.

**`UserDb`** is the abstract index: a set of documents (a path and its words), with
`Put`, `Drop`, `Move`, `DropDir` and `Reset`. It states one surprise of the code
openly: removing or moving a file takes along its *twins*, the files of the same
relative path under other roots, as the SQL statements name no root.

**`SqliteUserDb`** is the implementation. `roots`, `files`, `words`, `mappings` are
the tables, `rootDirs`, `rootsId`, `filesId`, `wordsId`, `cache` the members of
`Impl`. `Stop` is any end of the process, `Start` the constructor and `create()`.
Each handler is one action, since only the main thread calls it and a transaction
is atomic; within it, any statement or the commit may fail if `StorageFaults`,
and then the tables stay while counters and maps keep what the handler did to
them. Words are numbers (only their order and `LIKE` matter). The order of the
cache's keys, which is no strict weak order, makes a lookup nondeterministic
(`MayMiss`, `Inserted`). `Promise == INSTANCE UserDb WITH index <- Index` is the
refinement mapping: a document is a row of `files` joined with its root and words.

**`Indexer`** composes scanners, watchers, queue, main thread and configuration
over the *abstract* index (`Db == INSTANCE UserDb`): what `SqliteUserDb` is shown
to implement is what `Indexer` builds on. Each scanner and watcher has a `Generation`,
the number of the configuration that made it, so that commands of a destroyed one can
be told from those of its successor. A file's contents are its version. Each
point at which a thread can be interrupted is a step: reading a file and pushing
the command are two (`ScanNext`/`ScanPush`, `WatchNext`/`WatchPush`); efsw's events
are a queue for each watch; commands are queued for each thread, and the main
thread takes one of any thread. A command runs in full or not at all (`Run`): it finds no
root, or it fails in the database, where the id of a new word may be taken (finding 1),
the file may be gone when its fingerprint is made, and any statement or the commit may
fail. The exception stays in a future that nobody reads. The main thread calls the
observers one by one
(`CallObserver`) and joins a scanner while it does. A command of a destroyed object
(`Dangling`) does what it would have done, or ends the process: the code reads a
freed object there, and both happen in practice. Files are `Broken` (the tokenizer
throws a `std::exception`) or `Damaged` (it throws something else, as PoDoFo does,
which leaves the scan, and efsw's thread). A directory may `Vanish` and `Return`: its
watch gets deaf, its scan ends, and a constructor that meets no directory throws
(`Starts`) and leaves the root registered without a thread.

**`UserConfig`** is `user.json` with its main-thread reader and writer, the handler
threads of `POST /c`, desktops that fetch, change and post the list, and a user
with an editor. A stream truncates the file when opened and writes when closed,
as two steps: `OpenStream`/`CloseStream`. `Kinds` are the contents `read()`
tells apart. Histories: `wanted` is what the file would hold had operations not
overlapped, `clashed` that they did, `missed` that a change was never reported.

**`Rendezvous`** is `main()` of several daemons from the HTTP server on, `app.json`
and its lock, and clients that wait, read and ask. Each line of `main()` that
another process can tell from the next is a step. Whether `stop()` of the HTTP
library waits for its own threads cannot be seen from the repository; `joins`
is chosen at the start, so every property holds for both.

**`WorkerPool`** is both pools in one module: `pool` is `"Async"` (notifies under
the mutex, may have no worker) or `"ThreadPool"` (notifies after it). A block under
the mutex is one step. The condition variable has spurious wake-ups.

**`Tokenizers`** is `FileProcessor::process` with the tokenizers of plain text, TeX,
XML and zipped XML. A byte is a member of a small alphabet: letters, a digit,
markup, and characters of two bytes (a lead and `"C"`), so that limits and the
parser's arithmetic can cut a character. Each turn of a loop of the code is a step,
with the code's index (one-based here); a library call (`boost::split`, the
conversion from UTF-8) is an operator that says what it does, including that
`String{1, c}` is a list of *two* characters, which makes U+0001 a separator and a
part of each CJK word; and `is_numeric()` is `double_` of Boost Spirit, which takes `9e9`,
`nan`, `inf` and `infinity` for numbers (`IsNumeric`, `Spelled`). The chunks of an archive
are put in front of each other, as `on_extract()` does; an entry may have none
(`ExtractNothing`). `rejected` is a history: texts the parser dropped. The code's
loops over a text are recursive functions over its prefixes (`Fold`, from which
`Gather`, `Split`, `JoinLines` are made), so that proofs can use them. The letter `m`
stands for the letters of markup: `MarkupAssumption` says that a file has it inside of
commands and tags only, `NothingFromMarkup` that no word has it. A chunk may begin and end
anywhere, also in a tag: the `m` of a chunk stands behind a `<`, before a `>`, or in a
chunk that lies wholly within a tag (`Stretched`, where the code does index the letters of
the tag). `NoWordLost` has two
halves: `NoSpacedWordLost` for the words between spaces of the other formats, and
`NoShownTextLost` for PDF files.

**`Pdf`** is the reader of PDF files that `Tokenizers` calls as one step (`PdfText`):
pages are sequences of tokens (operators, names, numbers, strings, arrays), as
PoDoFo gives them, and `ReadPage` folds `ReadToken` over them with the operand stack
and the font. `JoinHyphens` is the loop that joins words at a hyphen. What the code
leaves undefined (`Undefined`: going on from an erased iterator, or behind the end)
may end the process, as stage `"crashed"`. The reference that `NoWordLost` compares
with does not use the stack: it says by position which strings a page draws
(`ShownBy`, `ShownAt`) and where two words are one (`JoinedAt`). It speaks of documents
that miss no font. If nothing ends with a hyphen, all that is drawn is shown; if one
text does, the word that it makes with the text drawn next. (A part of an array that
ends with a hyphen counts, since parts are joined to words before the loop sees them.)

**`Model`** is `qtc::Model` with its nodes and settings. A call (`setValue`,
`initialize`, `undo`, `redo`) is a list of assignments, `todo`, made one by one,
since listeners run between them; `Return` is what the call does at its end.
`straight` is a history: nothing was recorded while there was something to redo.

**`Desktop`** extends `Model` with the rest of the program: outputs of the view that
come and go, the search handler, which is a listener of the node `input` and blocks
the main thread, the worker of the status handler, and the way out of `main()`. It
composes by sharing the variables of `Model`: `AssignNext` is `Step` of `Model` with
the listeners of the node. Where both threads touch the set of listeners of a node
(`Race`), or the worker reads a handler that is gone (`Poll`), the process may end
(`crashed`). Which handler `~Model` destroys first depends on the library's `std::map`
(`DaemonFirst`). The shipped view (`Main.qml`) calls `setValue` on `input` only;
`CallModel` has the other calls the model offers to a view.

`MC*` modules give the constants; `*_proof` modules hold the proofs. Those about
the tokenizers are in two modules: `Tokenizers_pdf_proof` has the operators over texts and
the readers of PDF files, `Tokenizers_proof`, which extends it, the state machine.

## 3. The runs

| run | what it shows | bounds, and why they do |
|---|---|---|
| `SqliteUserDb` | memory and table agree; a row keeps its words; the tables implement `UserDb` | two roots with twins and a third file, two words, restarts, three file ids: enough for update, move onto an existing file, cascade, and an id used again after a restart |
| `SqliteUserDb_faults` | with failing statements and commits: types, cache coherence, ids that never clash, sound tables | two roots, two files, three searches of which two violate the order of the keys, cache of two |
| `SqliteUserDb_words` | a violation, see findings | |
| `Indexer` | once nobody edits and the disk is at rest, threads, queue and daemon come to rest | one directory at first, one file whose tokenizer throws and one that throws what is no `std::exception`, two versions, one removal or renaming (of a file or the directory), one edit, so that the main thread joins a scanner; the scanner is told first |
| `Indexer_roots` | every write the watcher was told of reaches the index, no gap between watch and scan, only registered roots, the last configuration wins | two directories with files of the same name, one removal (also of a directory, which may return), two edits of the configuration: a root goes and comes back as a new object with commands of the old one queued |
| `Indexer_skip` | a violation, see findings | |
| `UserConfig` | disjoint directories, memory follows the file, edits stand, the daemon comes to rest | nested directories and one that is gone, two desktops, three operations of user and desktops, one crash: three are needed for two that overlap and one that follows |
| `Rendezvous` | app.json tells the truth (`FileIsTrue`: its port is listened on, no half file is read), clients, questions and daemons get to an end | two daemons, two clients, two ports one of which may be taken, two starts, one crash |
| `WorkerPool` | no lost notification, no lost task, shutdown runs everything and ends | up to three workers, two clients, three tasks: a notification can meet a second one and a worker on its way to sleep |
| `Tokenizers` | words between spaces are found, nothing of the markup is, limits bound what is read, every loop ends | all files of up to four pieces in each format (a word, half a character, markup, ...), numbers with an exponent or spelled; archives of two entries with two chunks, empty ones and halves of tags included, and archives of one entry with three chunks, of which one may lie wholly within a tag; limits of 9 and 16 bytes, so that files are cut in words, characters and tags. PDF files have up to three pieces after a font is set, or two pages, with a limit of 6: text with and without an operator that shows it, hyphens at the end and before a word, an operator that leaves operands behind, a font that cannot be read, an array, a token that throws |
| `Tokenizers_binary` | a violation, see findings | |
| `Desktop` | settings and history keep in step with the values, results of one search stay together, outputs show what the nodes hold, the state of the daemon arrives, the program ends | the nodes of the program with two of the three exclusions, two texts, two answers, two outputs of which one is the worker's, stacks of two actions. Budgets are alternatives: two texts and a turn of the daemon; one text, a turn and another call of the model; five other calls, enough for an action that is undone and redone; two calls and a second life of the program. `DaemonFirst`, so that the worker meets a handler that is gone |

Bounds are constants with names (`MaxVersion`, `MaxEdits`, `MaxStarts`, ...) and
occur in guards only; `CacheSize` and `Retries` are the code's own limits made
small. `CHECK_DEADLOCK FALSE` stands where the bounded environment may simply stop
(`Indexer`, `UserConfig`, `Rendezvous`, `Desktop`) or the program does (`Tokenizers`, once a
file is read); `SqliteUserDb` and `WorkerPool` are
checked for deadlock.

### Fairness

Only what a scheduler gives: weak fairness of each thread that can go on.
`Indexer`: the threads and the main loop, which returns to the queue every 16.6
ms; nobody has to write files. `UserConfig`: the main thread and handler threads;
nobody has to start the daemon or to post. `Rendezvous`: each process; nobody has
to launch, signal or ask, and no strong fairness of the lock is assumed (processes
hold it for finitely many steps, and within the bounds it gets free for good).
`WorkerPool`: tasks return, workers that are ready go on; nobody has to push or
destroy, a waiting worker does not have to wake by itself. `Tokenizers` is one
thread that goes on. `Desktop`: the main thread and the worker, each on its own; every
request to the daemon is answered, if only with an error: an assumption about the
network, since the code sets no timeout, without which `~StatusHandler` could wait
for ever; nobody has to type, to close the window or to start the daemon.

### What the properties except

Properties name the cases in which the code does not do what one might hope:

* `WritesReachIndex`: a scanner that read a file before the watcher may push after
  it and leave the older contents in the index until the next write; commands of
  destroyed objects; twins; an update with the file's present contents that fails in the
  database, as nobody tries again; what happened in a directory while it was gone or
  after it was (`missed`, `everGone`), as nobody is told. The first four count only if they
  came after the last write of the file: `lastRun` starts again with each write.
* `ScanLeavesNoGap`: holds if the watcher's observer is called first. Observers
  are kept in a `std::set` of pointers, so addresses decide; a mutant shows the
  gap if it is last. A scanned file whose update fails in the database is left out, and
  one that a destroyed object's command touched last.
* `Converged`: a file that does not parse leaves memory as it is; one that parses
  and fails in the middle leaves `root_dirs` not normalized and the observers not
  called; a new file renamed over `user.json` is not noticed (only the old name of
  a rename is compared), nor a change before the watch begins.
* `EditsStand`: overlapping operations lose updates; a desktop whose `GET` failed
  posts a list with one entry.
* `QuestionsEnd`, `SignalEnds`: if `stop()` joins the server's threads, a question
  that is queued when the signal comes blocks the end of the daemon.
* `HistoryLinked`: a change that is recorded while there is something to redo does not
  clear the redo stack; what it holds is stale from then on (`straight`).
* `ShownIsCurrent`: `addListenerUnsafe()` calls a listener before it registers it; what
  the worker sets in between is not shown until the next change (`stale`). The worker
  sets nodes although `Handler.h:14` keeps all methods to the main thread.
* `StatusReached`, `Quits`: a race of worker and main thread may end the process.
* `NothingFromMarkup`: the inflater hands on a buffer at a time (`zip_inflater.cpp:28`). If
  a tag goes over three buffers, the part in the middle comes, in the reversed order, to
  lie between other brackets, and its letters are indexed (`Stretched`). A tag cut in two
  leaves nothing behind.
* `NoWordLost`: words of letters only that are numbers to `is_numeric()` are dropped
  (`nan`, `inf`, `infinity`); a word that touches a tag loses its last byte or more (finding 3);
  a space that ends a TeX command does not separate words; a text or TeX file in
  which the limit, or anything else, leaves half a character has no words (a TeX
  file is then not indexed at all, not even by its name, because the exception
  leaves `process()`); in an archive a word has to lie within one chunk; in a PDF file `TJ` finds its array
  only with three operands on the stack (`pdf_tokenizer.cpp:171`, it has one), so
  arrays are found if two operands were left behind, and `ShownBy` leaves out the others (the
  defect itself is not caught); a font that is missing ends
  the text of the file; the loop over hyphens may end the process, and of a file with
  several hyphens nothing is said.

### Findings

1. `SqliteUserDb_words`: `create()` keeps the table `words` between processes
   (`sqlite_userdb.cpp:187`, "keep the words"), but the counter of word ids starts
   at 0 (`:132`). After a restart the first new word gets an id that is taken, the
   insert fails and the file is not indexed, again and again until the counter has
   passed the kept ids (a failed insert still advances it).
2. `Indexer_skip`: the scanner means to "skip file" (`file_scanner.cpp:71`) if a
   file cannot be read, but `compute_fingerprint()` (`:75`) is outside that `try`:
   a file that vanishes between the two calls ends the whole scan.
3. `Tokenizers_binary`: `XMLParser::next()` takes one byte less than the text between
   two tags has (`string.cpp:223`). `<t>hello</t>` gives `hell`; a text that ends
   with a character of several bytes cannot be converted and is dropped as a whole,
   which the code means to do with "binary data" only (`string.cpp:231`).

## 4. The proofs

Each proof module has an inductive invariant `IInv`, proves `Init => IInv` and
`IInv /\ [Next]_vars => IInv'` with one step per action, and derives
`Spec => []P` for the properties the runs check.

| module | theorems | why the invariant must be stronger |
|---|---|---|
| `SqliteUserDb_proof` | `TypeCorrect`, `CacheNeverStale`, `RootsStayInSync`, `IdsStayApart`, `TablesStaySound` | adds that ids still to be given are above all ids of roots in table *and* memory (`RootIdsFresh`), that a directory is registered once, and that a stopped process has no memory; a failed commit leaves the two root sets different, so neither set alone bounds the counter |
| `SqliteUserDb_proof` | `WordsStayWithTheirRow`, `PathsStayKnown`, `TablesImplementUserDb` | a row is a document only if its root and relative path give back the path the caller named: `PathsKnown`, from which the handlers' rows match documents one to one (twins included) |
| `Indexer_proof` | `TypeCorrect`, `OnlyRegisteredRoots`, `LastEditApplies`, `WritesArrive` | `Shape` says what the threads, events and queues of *each* directory may hold; `ConfigInv` relates file, memory, registered roots and generations while the observers are called one after the other; `WritesInv` gives every write a stage (`OnItsWay`: the last event of its file, in the watcher's hand, the last command of its queue about the file, done) so that nothing older can overtake it |
| `Indexer_proof` | `WatchThenScan` | three invariants: no generation is used twice (`FreshInv`), so a new object finds nothing under its number in the queue; while the observer of the watcher goes first and nothing is removed, the watch begins before the scan and all commands are updates (`QuietInv`); a file of which its watcher was told nothing has not changed since the watch began, what the scanner holds of it is current, and the scanner has it or has delivered it (`GapInv`) |
| `UserConfig_proof` | `TypeCorrect`, `ObserversGetDisjointRoots`, `HandledMeansConverged`, `SequentialEditsStand`, `NormalizeCovers` | `Converged` says nothing while events are pending; `Synchronized` adds that a "modified" event is in the queue whenever memory and a readable file differ. `EditsStand` says nothing while somebody writes; `OneAtATime` says who can be at work while nothing has overlapped, and that a writer's stream holds what is wanted |
| `Rendezvous_proof` | `TypeCorrect`, `AppFileIsTrue` | `Discipline` ties the lock to the stages of its holder and says that the file is not that of a daemon past its removal; `ReadersLock` that a reader has the lock |
| `WorkerPool_proof` | `TypeCorrect`, `NoNotificationLost`, `TasksKept`, `NothingLeftBehind` | `Lifecycle`: workers leave only over an empty queue with the flag set, only workers at work are inside `push()` after it, nobody waits after `notify_all()` |
| `Desktop_proof` | `TypeCorrect`, `SettingsStayMirrored`, `ResultsStayTogether`, `ShownStaysCurrent`, `HistoryStaysLinked` | what the assignments still to be made lead to (`Leads`): `initialize()` to the settings (`SettingsInv`), a search to one answer unless an assignment to `input` comes first (`ResultsInv`); `ModelShape` also says which calls have what left to do; `ViewInv` that outputs come and go between calls only; `HistoryInv` names the values between the actions of both stacks, a path through the present values, and how far along its action an `undo()` or `redo()` is (`InPlay`), where `HistoryLinked` says nothing |
| `Tokenizers_proof` | `TypeCorrect`, `MarkupStaysOut` | the text is bounded by what has been read, not by the data (`ScanOK`); unless a tag is cut in three, every `m` of the data stands in markup, behind a `<` or with a `>` before the next `<`, also after a limit or the order of the chunks has cut a tag (`Unmarked`); the TeX loop is outside of a command exactly if `isText` (`Commanded`); then what is gathered is a text over the other characters (`NoM`, with `m` if a tag is cut in three) |
| `Tokenizers_proof`, `Tokenizers_pdf_proof` | `NoneLost` | `NoWordLost` speaks of the end only. `Kept` says what each loop has so far: every run outside of commands is in the text (`TexRuns`), every element behind the parser is (`Taken`), every chunk is whole in the data (`ChunksKept`), the lines are joined (`TxtKept`). `PdfKept` ties the text to the document, and lemma `ShownJoined` does the rest |

`NormalizeCovers` is about `normalize_root_dirs()` itself: every
directory is kept or lies in one that is kept, by well-founded induction on the
length of the path (the library theorem on minimal elements); `NormalizeDisjoint`
that no two kept ones are nested. By the same theorem a node keeps its value along a
path on which nothing changes it (`Within`, `Across`), which is what turns paths of
values into links between changes (`TrailLinks`).

`Tokenizers_pdf_proof` proves what recursive functions compute, which the library's
induction theorems cannot give (they take an operator): lemma `Recursion` says that a
function over `0 .. l` that is defined by recursion exists, and `UpTo` is induction over
`0 .. l` for a *set*, from the least number that is no member; both are proved from the
theorem on minimal elements. With these, what `Wide`, `Split`, `JoinLines`, `Gather`,
`JoinHyphens` and the readers of PDF files return is proved for every text. A PDF page
is read as a whole (`Whole`) if it ends below the limit and misses no font; then a text
or a run of an array that `ShownAt` names is found (`TextShown`, `ArrayShown`), two texts
at a hyphen are found next to each other (`TwoShown`), before a first hyphen nothing is
joined (`JoinedFirst`), and later pages only add to what earlier ones have found
(`DocumentWhole`); `ShownJoined` puts this together.

The proofs assume the named `ASSUME`s of the modules: finite sets of
processes, bounds that are numbers (`MaxVersion` at least 1, a file has a version
from the start), paths that are sequences of `Names` and directories that are not
nested in `Indexer`, defaults that are values of their nodes in `Model` and `Desktop`
(`ValuesAssumption`: empty results, an empty text, switched-off flags, as the
constructors of the handlers give them), and that the documents directory is valid. In
`Tokenizers`, a file is a sequence of chunks of bytes, or of pages of tokens, none longer
than `Longest` (`InputAssumption`; it only bounds how far a limit is overstepped), `m`
stands in markup only and no bracket stands inside a tag (`MarkupAssumption`), and limits are numbers (`LimitAssumption`,
`PdfAssumption`).
Nothing bounds the numbers of directories, files, words, daemons, clients, workers,
tasks, nodes, outputs, or the lengths of texts, files and documents.

Two theorems have a hypothesis besides: `PathsStayKnown` and `TablesImplementUserDb`
assume `DirsDisjoint`, that none of the directories a user ever configures lies in
another one. Of one configuration `normalize_root_dirs()` makes that true
(`config.cpp:65-87`, `ObserversGetDisjointRoots`); a change from a directory to one
that contains it is outside of these two theorems, as it is outside of `Indexer`.

`Indexer` is proved over `UserDb`, and `SqliteUserDb` implements `UserDb`. The refinement
says that what a handler changes is one step of `UserDb`; it does not say that a handler
succeeds, since a failed one is a stutter. So `Indexer` counts on no update: `Run` may
fail, and `WritesArrive` and `WatchThenScan` name the file that is left out then.

Only model-checked:

* liveness (`Settles`, `ComesToRest`, `ClientsGetOn`, `QuestionsEnd`, `SignalEnds`,
  `TasksRun`, `DestructorReturns`, `Ends`, `StatusReached`, `Quits`), which TLAPS cannot
  do under fairness.

Every invariant and every action property of the passing runs is proved
(`ImplementsUserDb` under `DirsDisjoint`).

## 5. Not modelled

* `Input` of the desktop's bindings, which the view does not use, and its main queue,
  onto which nothing is pushed. `execCommand()`: no handler registers a command.
* The exclusions of the search handler: the loops at `SearchHandler.cpp:74-100` skip
  nothing, as their `continue` is that of the inner loop, so the results are the
  answer whatever the exclusions are; they are in `Model` as actionable nodes.
* The settings are a mapping that survives; that Qt writes them late, and a crash
  loses some, is not in the model.
* Entities and upper case in `Tokenizers`: they map characters to characters and
  no property tells them apart. (`NaN` is dropped as `nan` is.)
* Fingerprints are written and never read; the time of the last update is read by
  `GET /t` only.
* `std::filesystem`, Qt, efsw, SQLite, moodycamel, served, minizip and PoDoFo are
  external; those the models need are modelled by how the code uses them.
* `add_root_dir()` and `remove_root_dir()` that throw inside of the observers
  (`sqlite_userdb.cpp:199-225`): `SqliteUserDb` has the failing commit, `Indexer` does not,
  and its configuration is applied on a database that takes it.
* Symbolic links: `std::filesystem::relative` resolves them (`filesystem.h:243`);
  `Paths.Relative` cuts a prefix.
* Brackets inside of tags: a `>` in the value of an attribute or in a comment ends a tag
  for the parser, and `MarkupAssumption` leaves such files out.
* Logging, timers, JSON formatting, the table of case mappings,
  QML files.

## 6. Plan

Done: all modules of section 2, and proofs of every safety property of the passing
runs. Left: `TablesImplementUserDb` for nested directories that are never registered
together.
