# Verification of open-build-service-api

TLA+ specifications of the library in `src/` (TypeScript, 29 implementation
files, about 11 000 lines): a client for the Open Build Service (OBS) that
performs API calls and keeps packages and projects checked out in the file
system.  TLC checks the modules on small instances, TLAPS proves theorems about
them for every value of their constants.  `PROJECT.json` is the machine-readable
index: components, runs, mutants, the source lines behind every definition,
findings, hazards and theorems.

## 1. Inventory

JavaScript runs one callback at a time.  Code between two `await`s is atomic;
at every `await` other calls of the library, the server, the user of the
directory and the end of the process may come in between.

| Component | State | Operations | Interacts through | What is hard | What makes it correct |
|---|---|---|---|---|---|
| **Connection** (`connection.ts`, `error.ts`) | `currentConnectionCount`, `cookies`, per call: the try, the URL, the timeout | `makeApiCall`, `doMakeApiCall`, `clone` | every other component calls `makeApiCall` | concurrent calls share counter and cookies; timeouts, late answers, redirects, busy replies, retries | limit respected, no slot leaked, at most `maxRetries + 1` requests, non-GET requests sent once, results that fit, every call settles |
| **Working copy** (`vcs.ts`, parts of `package.ts`, `file.ts`) | directory, `.osc/*`, `.osc/_files`, `_to_be_added`, `_to_be_deleted`, the `ModifiedPackage` of the caller, the package at HEAD | read in, add and delete, untrack, undelete, commit | `uploadFileContents`, `commitfilelist`, the file system | several files per operation, failure or crash half way, edits of the user at any time, lost replies | planned changes survive crashes, user files are never lost or overwritten, `.osc` stays readable, a commit does what the lists say |
| **Packages and files** (`package.ts`, `file.ts`, `api/directory.ts`, `api/package-meta.ts`) | `.osc` of a package | fetch, check out, branch, delete, set contents | Connection, Working copy, Projects | many concurrent requests per package while others commit | a checked out package is a snapshot of one revision |
| **Projects** (`project.ts`, `api/project-meta.ts`) | `.osc/_packages`, `_project_meta.json`, package directories | check out, read in, update, create | Connection, Packages | cancellation and failure half way, concurrent check-outs and updates of one directory, crashes | a check-out that succeeds is complete, one that is cancelled leaves an empty directory, the list can be read and is the one written last |
| **History** (`history.ts`) | revision and link caches | `fetchHistory`, `fetchHistoryAcrossLinks`, `fetchHead` | Connection, Packages | recursion over links, circles of links, shared caches that are read half done, commits in between, a loop that must terminate | it ends; every commit has exactly the parents that the rules of linking give |
| **Flags, repositories** (`api/flag.ts`, `repository.ts`) | none | precedence of flags, expansion of repository paths | Projects, Packages | overlapping precedence rules, circular paths | agreement with a plain statement of the precedence; only circles are endless |
| **Requests** (`request.ts`) | none | create, fetch, submit, delete, diff | Connection | four kinds of objects that stand for a package or a project; checks of the replies | a request is about what was asked for; nothing is lost by reading and writing |
| **Build results** (`build-result.ts`, `published-binaries.ts`) | none | results, streamed logs, downloads | Connection (`onDataReceived`) | two overloads with the same positions; retried streams deliver data twice | the build that was named is asked for; each byte delivered once (not modelled) |
| **Tokens** (`token.ts`) | tokens on the server | create, list, delete | Connection | the created token is taken from a later listing | the caller gets its own token |
| **Accounts** (`account.ts`) | `oscrc` | read, add | file system | read-modify-write without a lock | no account lost |
| **Configuration, distributions** (`configuration.ts`, `distributions.ts`) | none | fetch, `checkConnection` | Connection | classification of errors | |
| **Codecs and helpers** (`user.ts`, `service.ts`, `util.ts`, `checksum.ts`, `xml.ts`, `set-utils.ts`, ...) | none | conversions | all | | round trips |

The hazards of this code, each at its line and with the properties that would
show it going wrong, are listed in `PROJECT.json` under `hazards`.

## 2. Modules

| Module | Stands for |
|---|---|
| `CallPool` | abstract specification: what a Connection promises about the calls made through it |
| `Connection` | `makeApiCall()` and `doMakeApiCall()` of concurrent calls, the server and the network |
| `MCConnection` | small instances of `Connection` for TLC |
| `StagingArea` | abstract specification: what a checkout promises to the one who plans additions and deletions and commits them |
| `WorkingCopy` | all operations of `vcs.ts` on one checkout, the user, the server, crashes |
| `MCWorkingCopy` | small instances of `WorkingCopy` for TLC |
| `ProjectCheckout` | `project.ts` and what it calls of `package.ts` and `util.ts`: several callers on one directory, cancellation, failures, crashes |
| `MCProjectCheckout` | two callers, two packages of two files |
| `History` | `history.ts`: the commits of a package across links, with the shared caches |
| `HistoryDrawing` | the drawing of the graph, which walks it recursively; a module of its own so that `History` can be proved about |
| `MCHistory` | two packages with every short history of links between them |
| `Accounts`, `Tokens` | `account.ts` and `token.ts`: callers that add accounts to one file, callers that create tokens for one user |
| `MCTokensAccounts` | small instances of both |
| `Objects` | members that are undefined, absent elements and empty lists, as `util.ts` and `xml.ts` treat them |
| `Flags`, `Metas`, `Requests`, `BuildResults`, `Paths` | pure definitions: flags and their precedence, metas, requests and branches, the routes of build status and logs, paths of repositories |
| `Conversions` | one call of each of these definitions, with any members, texts and lists of any length; the properties of the conversions |
| `MCConversions` | the same on every small input, and the expansion of paths |
| `ConnectionProofs`, `WorkingCopyProofs`, `ProjectCheckoutProofs`, `HistoryProofs`, `AccountsProofs`, `TokensProofs`, `ConversionsProofs` | theorems about the module that each is named after, with their proofs |
| `Induction` | lemmas on the natural numbers that those proofs use: least numbers, induction, functions defined by recursion |

Definitions with a comment that starts with "Faulty:" are not part of the
model: each is a plausible mistake in the definition that follows it, and
replacing that definition by it makes TLC find the property violated that the
entry in `PROJECT.json` (`mutants`) names.

### 2.1 Connection

Each call has a program counter `pc`: `unmade`, `waiting` (for a slot),
`awaiting` (a reply), `sleeping` (between two tries), `settled`.

| Action | Code (`src/connection.ts`) |
|---|---|
| `MakeApiCall` | 553-597: options, the first look at the counter, the first request |
| `Poll` | 584-592: another look after a second |
| `ReceiveReply` | 708-748, the `end` event with cookies, decoding, status; then 606-630, the reaction of the loop |
| `RequestTimeout` | 752-755 and 612-630 |
| `RequestError` | 701-703, 757-759: rejected, never retried |
| `Wake` | 616-627, then the next `doMakeApiCall()` with its assertion on the protocol |
| `Process` | the server, which may process a request after its sender gave up |

Details that are kept: the counter is incremented before the first request and
held over all retries and sleeps; it is decremented in the `finally` block,
whatever happened; a body that is not XML rejects the call *before* the status
is looked at; an empty body of a 2xx decodes to `null`, on which
`isRetryInfo()` throws; cookies are taken from every complete reply, errors
included; only a timeout doubles `timeoutMs`, and not when a redirect comes with
a location; there is no sleep after the last try.

Abstracted: contents of requests and replies (a status class, a location, whether
the body decodes, a new cookie); durations of sleeps; `timeoutMs` counts in
multiples of its initial value and a request times out only when the server lets
that call wait longer than that (`Latency`), which makes the effect of doubling
visible.  History variables `last`, `busy` and `lost` record what the properties
speak about and influence nothing.

### 2.2 WorkingCopy

A file is a name with contents, or `None`.  Two contents differ exactly when
their md5 does, so `.osc/_files` and md5 fields hold contents, too.  `memory` is
the array `filesInWorkdir` of the caller's `ModifiedPackage`: an entry for each
name, with state, md5 and contents, or `Absent`.  The array `files` of that object
is left out: no operation but the end of `commit()` looks at it, and that one
computes it anew.

An operation is a set of tasks, one for each file system call or request it
awaits.  `Stage` orders them as the code does: tasks of the same stage run
concurrently (`Promise.all`), a stage starts when the one before it is through.
When a task fails, the promise is rejected, later stages never start, and the
tasks of the same stage that have already been started go on in the background
(`stray`), also while the caller starts its next operation.

| Operation | Stages | Code (`src/vcs.ts`) |
|---|---|---|
| `ReadInModifiedPackageFromDir` | `.osc` and the list of names; then per file: md5 (`Inspect`), contents if modified (`Load`) | 370-486 and `package.ts` 805-888 |
| `AddAndDeleteFilesFromPackage` | checks, contents of new files; both lists; the unlinks | 149-243 |
| `UntrackFiles` | the list of additions | 266-295 |
| `UndoFileDeletion` | the copies; the list of deletions | 311-368 |
| `Commit` | uploads, deletions in the directory and in `.osc`; the request; `_files`, files in `.osc` and the removal of both lists | 515-610, `file.ts` 300-321, `package.ts` 652-710 |

`RejectedAdd` is the effect of a rejected call: unknown names that exist are pushed
into the array of the caller.  Calls rejected without any effect are not steps.
The initial state is the one after `checkOutPackageToFs()` (`package.ts` 725-744).

The environment: `Edit` (the user writes, creates or removes a file), `Crash` (the
process ends at any time), and the server, which accepts a listing if it knows the
contents that each md5 and sha256 stands for (`api/directory.ts` 64: the hash is "for
file verification during uploads").  The request can be accepted, refused, or accepted
while the client is told of an error.

History variables: `synced` (the object of the caller was read in or computed by an
operation that was resolved, and nothing has changed the directory behind its back
since), `interrupted` (a commit broke off after it may have deleted files of
`.osc`, or while it saved), `behind` (a commit was accepted and is not recorded
in `.osc`).

`StagingArea` is the same without tasks, contents of files in `.osc`, modifications and
requests: a package on the server, the revision that is checked out, two recorded
lists, the plan of the caller, and a commit that applies that plan to the checked
out revision.  It has nine actions and no program counter.  The refinement mapping is
in `WorkingCopy`: the plan (`Session`) is what the entries of `memory` say; there is none
while the object is lost, and none to change from the acceptance of a commit to its end
(`Saving`); `Reading` is the set of additions that a reading in progress has found or
will find, given what it has looked at so far; a checkout is `level` when every commit
that was accepted is recorded (`~behind`).  The tasks of an operation map to nothing
until the one that writes a list, has the commit accepted or resolves the promise;
a list that is written in several calls, or whose other half fails, is a step that
records more and leaves the plan as it was.

Not modelled: sizes, modification times, `_meta` and the other descriptive files of
`.osc`, failures of the file system other than a file that is missing or exists
already, files whose writing is cut short, more than one caller at a time, commits
of other clients.

### 2.3 ProjectCheckout

`disk` is the directory: whether it, its `.osc` and its `.osc_obs_ts` exist, the
underscore files, and for each package no directory, a new one, or one whose files
are of some revision.  Each caller has a program counter `op[c].pc`; one step is
the code between two awaits.

| Action | Code |
|---|---|
| `StartCheckOut`, `Stat`, `MkDir`, `ReadDir` | `checkOutProject()`, `createOrEnsureEmptyDir()` (`util.ts` 467-513) |
| `FetchProjectMeta`, `FetchPackageList`, `MakeOsc` | `project.ts` 150-207, 358-385 |
| `Prepare`, `MakePlugin`, `OpenFile`, `FillFile` | `writeProjectUnderscoreFiles()` (251-313): the files are written concurrently, each is truncated first and filled later |
| `CheckCancelled`, `FetchPackageMeta`, `FetchFileList`, `FetchFileContents`, `PlaceDir`, `PlaceFiles` | the loop over the packages (387-411), `fetchPackage()`, `fetchFileList()`, `checkOutPackageToFs()` |
| `Cleanup`, `ListDir`, `Unlink`, `RemoveDot`, `EmptyPackage`, `RemovePackage`, `RemoveDir`, `RemakeDir` | `cleanup()` with `rmRf()` (`util.ts` 410-423): directories are listed, emptied concurrently and removed, and each of these steps may find what others have done meanwhile |
| `StartRefresh`, `StartApply` | `readInAndUpdateCheckedoutProject()`, `updateCheckedOutProject()` |
| `RequestCancellation`, `ChangeOnServer`, `Crash` | the token, other clients, the end of the process |

Any request may fail (`Reject`).  When one of several writes or removals fails, the
promise is rejected at once and the others go on in the background (`Fail`,
`Rest`): the call is then at `"rejected"`, and no later one of its caller starts before
they are through; another caller may.  `under` has the files of `.osc` and the
one of `.osc_obs_ts`; `Settings` are those with one setting each, `_apiurl` and
`_project`.  Who has a file open that is unlinked writes into nothing (`Losing`).
Abstracted: the read of the underscore files is one step; so is placing the
files of one package, and so is emptying one; packages are taken in any order.  A list
that is stored and empty is read as no list, so a refresh adopts the list of the
server (`Listed`); this is why `RefreshOnlyForgets` speaks of projects that have
packages.  `overlap` marks calls that met another one, `torn` records
that a write or a removal was cut short, failed, or met another write or removal; properties
that the code cannot keep for two of them are conditioned on these.  Of the properties of
check-outs `CancelledLeavesEmptyDir` and `PackagesAreSnapshots` have no
condition; `SuccessIsComplete` leaves out a check-out that made its `.osc` while
somebody was still cleaning up (`late`): that clean-up has removed `.osc` already, may
list the directory of a package only now, and then empties what is checked out anew.

### 2.4 History

A call works on a `stack` of packages, one frame for each recursive call of
`cachedFetchHistoryAcrossLinks()`; `heads` and `parents` are the two caches that the
frames share.  A commit is a package, the number of a revision, and whether its
sources were expanded, which stand for its hash.

| Action | Code (`src/history.ts`) |
|---|---|
| `FetchHistory`, `FetchDirectory` | `fetchExpandedRevisions()`, 196-256: all directories concurrently, expanded, and unexpanded after a status 400 |
| `Cache` | 257-441: the chain of commits goes into both caches before any link is resolved |
| `PassOver`, `FollowLink`, `Attach`, `AttachBase`, `Return` | one time through the loop, 443-580, cut where it awaits the linked package |
| `HistoryToGraphviz` | 662-714 |
| `Commit` | other clients |

Failed assertions are outcomes (`badEnd`, `badChain`, `badHead`, `badBase`).
External is what the server says of a link (`SourceOf`, `HeadOnServer`).  Two
revisions with equal contents have equal hashes on the server; the model does not
have such revisions.  Fairness is that of `Step`: every request is answered or fails,
which is `EveryCallSettles` of `Connection`.

### 2.5 Accounts and Tokens

`Accounts` cuts `addAccountToOscrc()` at its awaits: the file is read (and taken for
empty when it cannot be read), truncated, written.  A text is written from the start of
the file over what others have written since it was truncated, so the sections behind
its end stay (`Rests`, `Over`); which ones depends on lengths and is left open.  `mixes`
counts how often that has happened and is bounded by `MaxMixes`; `OneAccountPerUrl` says
that it is the only way in which a URL gets two accounts.  Others (osc, an editor) add and
remove sections and may leave out the last newline; the header that is appended then
becomes a part of the last line.  `Tokens` has the creation, with a reply that carries
the token or only a status, the listing that follows in the second case, and
deletions.  `MCTokensAccounts` checks both in one run; a behaviour is about one of the
two.

### 2.6 Conversions

`Flags`, `Metas`, `Requests`, `BuildResults` and `Paths` define functions of the code as
operators; objects are functions from the names of their defined members
(`Objects`).  Attributes and elements are told apart by their names; a list of
one element is told apart from that element, as the type of the member says.  A time is
a text in UTC or without a zone; `DateOf` (`new Date()`) takes the latter for one in the
zone of the program, whose clock is `Offset` ahead, `ToISOString` writes UTC.  A list of
a flag says how often it has each element (`Lists`); the order of the elements makes no
difference to the code.  The server fills in the name of the package of a submission to a
project (`Filled`), as the comment of `submitPackage()` has it (`request.ts` 839-841);
the other parts of a request come back as they were sent.
Each property compares a definition with an independent statement of what
it is for: `Rule` gives the precedence of flags element by element where the code
folds over two lists, `PackageGoesFirst` gives the merge for each architecture
by itself, `ExpandsPaths` gives the expansion of paths by walking along the last ones.
`Conversions` asks one question per behaviour.  Each kind of question takes what can be
asked as a parameter: `Spec` asks about every object that the types of the code and
the schema of the server admit, `MCSpec` draws from finite sets of them.

## 3. Runs

| Run | Instance | Shows |
|---|---|---|
| `connection_safety` | 3 calls (two GET, one POST), 2 slots, 0 or 1 retries, latencies up to 2; 2.4 million states | `TypeOK`, `SlotAccounting`, `RequestBudget`, `OutcomeFits`, `SlowServerIsAwaited`, `SessionsBounded` |
| `connection_liveness` | 2 calls, 1 slot, 2 retries for the GET; 84 000 states | `ImplementsPool` (refinement with fairness), `EveryCallSettles` |
| `connection_retry_claim` | 2 calls, both decode their replies | violated: a busy reply that is not XML is not retried (finding 1) |
| `working_copy` | 2 names, 2 contents, one file checked out, 2 edits, operations start with at most 1 stray task; 1.2 million states | `TypeOK`, `StaysReadable`, `PlansAreRecorded`, `StatesAgree`, `ImplementsStagingArea` (refinement), `UserFilesAreSafe`, `HeadFollowsLists` |
| `working_copy_undo_claim` | 1 edit, no stray tasks | violated: a restored file keeps its modification in memory (finding 2) |
| `working_copy_saved_claim` | 1 edit, no stray tasks | violated: a refused commit leaves `.osc` unreadable (finding 3) |
| `project_checkout` | 2 callers, 2 calls, a new directory or a project checked out earlier, 2 packages of 2 files, 1 setting, 1 change on the server; symmetric in callers, packages and files; 1.4 million states | `TypeOK`, `SuccessIsComplete`, `PackagesAreSnapshots`, `CancelledLeavesEmptyDir`, `NobodyIsStuck`, `RefreshOnlyForgets`, `SettledIsReadable` |
| `project_partial_claim` | 1 caller, 1 call, 2 packages of 1 file, no change on the server | violated: a partial check-out lists all packages (finding 4) |
| `history` | 2 packages; up to 3 revisions of the one with seven kinds of links, up to 2 of the other, which may link back; 1 commit of others; 488 000 states | `TypeOK`, `NoPackageTwice`, `ChainIsWalked`, `HistoryIsRight`, `NoCommitIsItsAncestor`, `DrawnOnce`, `HistoryEnds` |
| `history_assertion_claim` | a package branched from a revision of another one, nobody commits | violated: the assertion on the attached HEAD (finding 5) |
| `tokens_accounts` | 2 callers, 2 URLs, 2 edits, 1 text written over another; 2 callers, 4 tokens; 2.9 million states | `OneAccountPerUrl`, `NoAccountIsLost`, `ReturnsOwnToken` |
| `conversions` | 2 repositories, 2 architectures, up to 2 elements per list, the same one twice included, 2 to 4 optional members at a time, a clock that is 2 ahead of UTC, 3 projects; 63 000 questions | `FlagsSurvive`, `SettingFollowsRules`, `PackageOverridesProject`, `MetasSurvive`, `RequestsSurvive`, `CreatedForWhatWasAsked`, `BuildIsFetchedAsAsked`, `PathsAreExpanded` |

Bounds and why they are enough.  *Connection*: three calls for two slots are the
smallest instance in which a call waits while others hold all slots, one is
released and another is still in use; one retry distinguishes first, middle and last
tries for the counter and two retries (in the run with fairness) have a sleep that
is neither the first nor the last.  `MaxConnections`, `RetryOption`, `Method`,
`Decode` and `Latency` are the constants; nothing else is bounded, `sent`,
`sessions` and `effects` are bounded by the program itself.  *WorkingCopy*: the number
of operations, commits and crashes is unbounded; `MaxEdits` bounds what the user does
and `MaxStray` how many tasks of rejected operations may still run when the next one
starts.  Two names, one at HEAD and one not, let one file of an operation
succeed and the other fail; two contents are the least with a modification; two
edits are needed to modify one file and create another.

*ProjectCheckout*: two callers meet at every place of the directory, or the second
call comes after a check-out that failed, was cancelled or has succeeded (a retry, a
refresh, an update); two updates meet, or a refresh and an update, because the
directory may have been checked out before, with any packages; one change on the server
falls between any two requests; two files are needed for a mixture of revisions and two
packages for a check-out that breaks off between them; one setting beside
`_packages` is enough for one to be there without the other.  A third call is out of
TLC's reach in five minutes: what it adds (`late`, a package that is removed while its
files are placed) is in the proofs, which are for any number of calls.  *History*: three revisions are the least with a first
one, one that may branch off and one after it; two packages are enough for a circle
and for heads that were cached half done.  *Accounts*, *Tokens*: two callers and an
outsider; one text written over another shows what that leaves, and the calls after it
run on the mixture.  *Conversions*: the definitions treat each element and each member by
itself or compare two of them, so pairs show what there is to see; a flag that is alone
in its list and one that has company are both there.

Deadlock is checked in the runs of `Connection` and `WorkingCopy`.  `Quiet` (every call settled and every request
processed) and `Unreadable` (a checkout that `readInCheckedOutPackage()` refuses)
are the explicit steps in which nothing changes.  The other systems do stop: the calls
are bounded, a history is fetched once, a question is answered.  That no check-out is
stuck before that is `NobodyIsStuck`, an invariant with `ENABLED`, which, other than
liveness, may be checked under symmetry.

Fairness (`Connection!Fairness` in `connection_liveness`; `History` has that of its own steps, see 2.4): a timer fires, so a
sleeping call wakes (`Wake`) and a waiting call looks at the counter again and again
(`Poll`); a request gets somewhere (`Progress`): it is answered, fails, or node's
idle timer fires.  No fairness is assumed of a call being made, of the server
processing requests that nobody waits for any more, or of any particular kind of answer.
With finitely many calls weak fairness of `Poll` suffices: when the other calls are
through, the slot stays free.  An endless stream of new calls could starve a waiting
one, since there is no queue.

## 4. Proofs

Every theorem below holds for every value of the constants that the `ASSUME` of its
module admits: any finite sets of calls, files, packages or callers, any limits, any
numbers of retries, edits, changes and commits.  The assumptions are the types of the
constants and no more: TLC evaluates them in every run.  Four of them are worth
naming: there are names of files (of which a package may have none), `None` is not the contents of a file, `"none"` is not the name of a package,
and `"any"`, which stands for an attribute that is left out, is not a repository.

Each module of proofs has the same plan.  It defines an inductive invariant `IInv`
as a conjunction of named parts, proves that each action keeps each part that it can
disturb, and concludes `Invariance`.  The theorems about states follow from `IInv`,
those about steps from `IInv` and one case for each action.  (`ConnectionProofs` adds
one part for each theorem instead.)  TLC has checked each `IInv` on the instance of
the module's run.

### Connection

| Theorem | States | Argument |
|---|---|---|
| `TypeCorrect` | `TypeOK` | inductive as it stands |
| `SlotsAccounted` | `SlotAccounting` | the counter equals the cardinality of `Holders`; each action adds one holder, removes one, or leaves the set alone |
| `OutcomesFit` | `OutcomeFits` | `LoopInv`: how many requests a call has sent at each place of the loop, which makes "spent every try" follow from the exit of the loop |
| `BudgetKept` | `RequestBudget` | `EffectsInv`: effects plus requests still pending never exceed the requests sent, so that a late request counts against the budget already |
| `SessionsAreBounded` | `SessionsBounded` | `SessionInv`: while no cookie has arrived, each session was given up or is on its way in a slot; afterwards only requests that were sent before can start one. An argument about cardinalities, for any number of calls |
| `SlowServersAreAwaited` | `SlowServerIsAwaited` | `DoublingInv`: the timeout is a power of two of the number of tries that timed out, and the latency exceeds the last one waited for; needs that powers of two double, by `RecursiveFunction` |
| `SafelyImplementsPool` | `Pool!SafeSpec` | every step of `Connection` is a step of the pool or leaves the mapped state alone, by `SlotAccounting` |

### WorkingCopy

| Theorem | States |
|---|---|
| `TypeCorrect` | `TypeOK` |
| `CheckoutStaysReadable` | `StaysReadable` |
| `PlansSurvive` | `PlansAreRecorded` |
| `ListsAreAtomic` | `StatesAgree` |
| `CommitIsRecorded` | `RecordsHead`: once a commit is resolved, `_files` is the list of the revision it created |
| `CheckoutIsStagingArea` | `ImplementsStagingArea`: every step is one of the abstract `StagingArea` or a stutter |
| `NoFileIsLost` | `UserFilesAreSafe` |
| `CommitFollowsLists` | `HeadFollowsLists` |

The invariants among these are not inductive: each speaks of the moments when no
operation is under way or of its last step, while tasks of one stage end in any order.
`PartsOfTasks` says which tasks may be outstanding together, what each is about, what the operation will
make of the caller's object, and that a commit which saves has nothing else to do.
`PlansHold` and `ListedHold` follow a list through the one task that writes it.
`StoreHolds` says which files of `.osc` a saving commit still owes; a commit that
breaks off is `Damaged`.  `SyncHolds` says, file by file, what reading the checkout in
would show while an operation is half done (`ShowsFile`).  Tasks that a rejected
operation has left behind (`stray`) do the same to each part whichever operation is
running by then; the lemmas on how steps end treat them once for all.

The refinement needs one part more, `RecordHolds`: a reading has found every deletion that
is recorded, an operation that has written a list plans exactly what the list says,
and what is being saved is not recorded yet.  From it follows, task by task, which
abstract action a step is (the lemmas `...IsSeen`, put together in `NextIsSeen`).
`RecordsHead` is no property of the run, since the refinement says more: a commit may end
(`Settle` with `level`) only when the revision on the server is the one checked out.

### ProjectCheckout

| Theorem | States |
|---|---|
| `TypeCorrect` | `TypeOK` |
| `CheckoutsAreSnapshots` | `PackagesAreSnapshots` |
| `SettledStaysReadable` | `SettledIsReadable` |
| `SuccessMeansComplete` | `SuccessIsComplete` |
| `CancelledMeansEmpty` | `CancelledLeavesEmptyDir` |
| `RefreshForgetsOnly` | `RefreshOnlyForgets` |

The core is `OwnerIsAlone`: the check-out that has made `.osc` has it to
itself until it has removed it (`IsHolder`), because `mkdir` of an `.osc` that exists
fails and so does `rmdir` of one that is not empty.  With it,
`PlacedIsComplete` (what was asked for and is no longer wanted is on disk) survives
the steps of everybody else, crashes included: while a check-out goes on
that is not `late`, nobody removes anything (`Sweeps`), since whoever still has something
to remove had it when `.osc` was made.  `NothingWithoutPath` is what makes a
cleaned directory empty.  `WritersFit` and `KnownFits` say, unless something is
`torn`, that one call at a time writes or removes, and that a file of `.osc` is missing
only while that call writes it or takes `.osc` away; `AloneFits` ties what a refresh has
read to what was written last.

### History

| Theorem | States |
|---|---|
| `TypeCorrect` | `TypeOK` |
| `PackagesAreFetchedOnce` | `NoPackageTwice` |
| `ChainsHold` | `ChainIsWalked` |
| `RulesAreFollowed` | `HistoryIsRight` |
| `HistoryHasNoCircle` | `NoCommitIsItsAncestor` |

For any packages with any links among them, circles included.  `StackFits` (a package
is in the cache exactly when its frame is past fetching) makes circles end at a package
that is cached.  `WalkFits` relates the loop's commit to its revision: the commit is
that of this revision or of a newer one (`PassOver` moves the one and not the other), and
from there on commits have only the parents of their own package, so the chain does
not break.  `HeadsFit` and `AllRight` say that, as long as nobody commits, links that
were passed have exactly the parents of the rules, also while the packages they lead
to are on the stack half done.  `HistoryHasNoCircle` uses `CachesFit`: a parent is
older in the same package or in a package that is linked, so ancestors follow the
transitive links.  It is an induction on the number of steps to an ancestor: the
packages that reach themselves over links would be the circle that is excluded.

### Accounts, Tokens, Conversions

| Theorem | States | Argument |
|---|---|---|
| `OneAccount` | `OneAccountPerUrl` | as long as no text was written over another, what a call is about to write names no URL twice, wherever it was read (`OnceUnlessMixed`) |
| `AccountsAreKept` | `NoAccountIsLost` | `AloneFits`: a call that has met nobody writes what it has begun with and its account |
| `OwnTokenIsReturned` | `ReturnsOwnToken` | `InOrder`: the listing is in the order of creation, so its last token is the newest one that is left |
| `FlagsAreKept` | `FlagsSurvive` | no element of a list stands for the default after reading; for settings, which elements match a repository and what they say |
| `SettingsFollowRules` | `SettingFollowsRules` | an element without an architecture decides exactly where it is all that its list has for the repository (`WholeIsHeeded`) |
| `PackagesGoFirst` | `PackageOverridesProject` | the value that a merged setting has for each architecture, by the cases of `mergeFlags()` |
| `MetasAreKept` | `MetasSurvive` | two objects are the same when each member is there in both or in neither and has the same value; each member of each conversion by itself, lists element by element |
| `RequestsAreKept` | `RequestsSurvive` | the same for the members of actions, and for reviews with the one who is asked and their times in UTC (`ReadAsWritten`: a text in UTC is read as it was written) |
| `AskedIsCreated` | `CreatedForWhatWasAsked` | by which members the four kinds of targets have; the reply of a branch with each combination of options |
| `BuildsAreFetched` | `BuildIsFetchedAsAsked` | both overloads, with and without options and multibuild |

The theorems about conversions are about any combination of members, any texts and lists
of every length, where the run has two elements and two to four optional members at a
time.  Lemmas state once what the helpers of `Objects` do to a member
(`Gets...`, `SameObject`) and what converting a list does to each element; a member of
an object is then one step of a proof.  `MetasSurvive` holds only for flags that do not
contradict themselves: `flagFromApi()` throws when there is both a bare `<enable/>` and a
bare `<disable/>` (`api/flag.ts` 122-126).

### Induction

The library's theorems on induction take an operator as a parameter, which no prover
here can instantiate.  `Induction` states them with sets and functions
instead: a set of numbers has a least one (from the well-foundedness of `<` on `Nat`), a
set that has 0 and all successors is `Nat`, and for a set `S`, a `base` in it and a
function `next` on it there is a function that starts at `base` and goes on by `next`.
With these, what the recursive functions `PowerOfTwo` and `Ancestors` compute can be
proved about.

### What is only model-checked

- Liveness and fairness: `EveryCallSettles`, `HistoryEnds`, the fair part of
  `ImplementsPool`.
- `NobodyIsStuck`, which is stated with `ENABLED`.
- `DrawnOnce` and `PathsAreExpanded`, which are about recursive operators.

## 5. Findings

1. *Busy replies are retried only when their body is XML.*  `doMakeApiCall()` hands
   the body to the parser before it looks at the status (`connection.ts` 714-747), so
   a 503 with the HTML or text of a proxy rejects the call at once; the comments
   at 514 and 536 say otherwise.
2. *A restored file is not what it is shown as.*  Deleting a modified file and undoing
   the deletion restores the contents of HEAD on disk; the entry says `Unmodified`
   and keeps md5 and contents of the modification (`vcs.ts` 340-356).
3. *A refused commit damages the checkout.*  `.osc/<file>` of deleted files is removed
   before the server is asked (`vcs.ts` 524-533); `_files` still names them, and
   the checkout cannot be read in any more.
4. *A partial check-out does not remember that it is one.*  `checkOutProject()` writes
   all packages of the project into `_packages` (`project.ts` 361, 385), also when
   `packageList` restricts what is checked out; the comment at 106 says that the list
   must then name only these.
5. *A history is rejected by an assertion that does not hold.*  The branch that attaches
   the HEAD of the linked package is also taken for a first revision whose link has
   a base (`history.ts` 467); the comment at 503 takes it that there is no base, and
   the assertion at 507 compares the HEAD with the base.

Further observations that no statement in the repository contradicts: deleting a
file that is `Missing` writes the lists and then fails on the unlink; a commit does
not say which revision it is based on; a modified entry carries the size and time of
HEAD; a 2xx with an empty body is reported as a `TypeError`.

- *Projects.*  A check-out that fails leaves a directory that is not empty, which the
  retry refuses.  Two updates, or an update and a check-out, of one directory can
  leave garbled or lost lists; an update that meets a clean-up can leave an `.osc` with
  some of its files.  A clean-up that has removed `.osc` but not yet the packages can empty
  what the next check-out places, which resolves with `true` all the same.
- *History.*  When a package has given up its link, the loop (447) goes on without moving
  to the next commit, and the parents of older links go to the wrong one; a base that
  was committed with a conflict fails the assertion of the base, since only expanded
  revisions are looked up.  Commits of others between the fetches can fail the
  assertion on HEAD.
- *Flags.*  An element without an architecture beside others of the same list has no
  effect, nor has one that is there twice, against the comment "take this as the new
  "global" default" (`api/flag.ts` 371); `Heeded` says where it has one.
- *Metas and requests.*  `access` of a package's meta and `hostSystem` of a repository are
  neither read nor written.  The mode of versions of a linked project becomes explicit, the
  default trigger of a release target implicit, an absent `makeoriginolder` `false`,
  and a source that is a whole project loses its revision.  Times without a zone are
  taken for local ones and written in UTC.  `MetasSurvive` and
  `RequestsSurvive` say so exactly.
- *Build logs.*  Timeout and number of tries follow `noStream` in one overload
  only, and a callback is rejected when `noStream` is true while its doc
  has it the other way round.
- *Repositories.*  Paths that lead in a circle never end.
- *oscrc.*  A file that cannot be read counts as an empty one and is overwritten; two
  callers, or a caller and an editor, may lose each other's changes; of two that write at
  once the longer text leaves its end behind the shorter one, with a second account for a
  URL.

## 6. Plan

Done: `Connection`, `WorkingCopy`, `ProjectCheckout`, `History`, `Accounts` and `Tokens`
with their proofs, the conversions with theirs, and the two abstract specifications
`CallPool` and `StagingArea` with the proofs that they are implemented.  Left:
`Connection` with streamed replies (`onDataReceived`), whose chunks a retry delivers
again.

### Not modelled

- `configuration.ts`, `distributions.ts`, `published-binaries.ts`, `fetchRequestDiff()`,
  `createProject()`, `deletePackage()` and the like: a single request and the
  decoding of its reply, no state.
- `fetchHead()` and `fetchFileContentsAtCommit()`: single requests after a look at the
  caches or the commit; `drawHistoryToSvg()`: a process and its output.
- The decoding of build results and job status, `service.ts`, `xml.ts`, `checksum.ts`:
  the shape of XML, without decisions that the properties tell apart.
- Durations, sizes and modification times, and failures of the file system other
  than those named above.
