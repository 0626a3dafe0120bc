# Ceasy: TLA+ models, checks and proofs

Ceasy is a web framework in C. A server process accepts connections and forks
a child for each (`src/src/ceasy.c`). The child opens the SQLite database, parses
the request, checks the csrf token of a form, dispatches to a handler of the
application, commits the session and sends the response. The command-line tool
`ceasy` (`src/tools/ceasy_cli`) generates files, applies migrations and cleans up
sessions. This directory models the parts where order, overlap and failure matter.

## Inventory

| Component | State | Operations | Interacts with | What is hard | What makes it correct |
|---|---|---|---|---|---|
| Sessions (`session.c`, `auth.c`, `flash.c`, `csrf.c`) | the `ceasy_sessions` table; per request a `Session` (values, token, loaded, exists, dirty, regenerate, destroy) | set, delete, clear, regenerate, destroy, login, logout, flash, csrf, load, commit | commit runs inside every send; load inside the first call | children share only the table, one SQL statement at a time; any statement, copy or send may fail | a token never changes hands; a logout is final; a flash is shown once; browsers are isolated |
| Request handling (`ceasy.c`, `cookie.c`) | `Context`, `response_sent` | accept, fork, parse, verify, dispatch, send, close | sessions, router, database | error paths that send again, failing sends | every connection is answered and closed |
| Arena (`arena.c`) | block chain, totals, generation; marks held by callers | init, alloc, mark, restore, reset, destroy | all per-request memory | stale marks, address reuse, `size_t` limits | live allocations stay disjoint; totals are exact |
| String map (`string_map.c`) | open-addressing slots, counters, owned buffers | set, remove, clear, destroy, get, iterate | session values, view values | tombstones, rehashing, ownership | behaves as a map; searches end; no leaks |
| Database handle (`database.c`) | write queue, `in_transaction`, SQLite connection | write, flush, execute, read, prepare, step, begin, commit, rollback, close | everything that stores | failure or death between statements; SQLite ending a transaction by itself | batches are atomic, in order, at most once; reads see earlier writes |
| Migrations (`migration.c`) | `schema_migrations`, the schema, files | collect, check, apply, record | database, generators | concurrent runners, crashes, files that arrive meanwhile | each migration once, whole, recorded, in order |
| Router (`router.c`) | the route table; the parameters of a dispatch | add a route, dispatch | every request | two cursors in step, best match so far, limits | the most specific route, with its own parameters |
| Request parser (`request.c`, `context.c`) | the buffer, the parsed request, form values | receive, parse, read a form | the child's loop, csrf, router | any cut of the byte stream, limits, the method override | the verdict does not depend on the cuts; nothing is dispatched half-read or unverified |
| Views and templates (`template.c`, `view.c`, `html.c`) | none beyond one page; the files under `views/`, the views linked into the program | parse, load, render with sections, partials and a layout, escape | handlers, the view compiler | jumps between flat instructions, nesting, two places a view may come from | a page says what its templates say, installed or not |
| View compiler (`view_compiler.c`) | the sources read, its temporary file; `src/generated/ceasy_views.c` | scan, check names, partials and cycles, write, rename | developers, the build, other compilers | files edited meanwhile, death while writing, several at once | the generated file is whole and complete |
| Models and validation (`model.c`, `validation.c`) | one row in memory, copied from the table | find, insert, update, destroy, validate | database handle, handlers | copies that are outdated when they are written back, failed copies | no lost, foreign or invalid row |
| Posts example (`examples/posts`) | `posts`, `users`; per request the user, the post loaded, the form | list, show, new, create, edit, update, destroy; comments, accounts, sign-up | all of the above | owner and date decided on a copy, a user lost halfway through a request | only owners write; drafts stay private; what a user is told has happened |
| Assets, strings, generators, configuration | mostly none beyond one call | | | partial writes | planned or left out, see below |

The hazards behind these columns are listed one by one, with their lines, in
`PROJECT.json`.

## Modules

| Module | Models | Kind |
|---|---|---|
| `Session` | sessions and the life of a request in its child process | state machine |
| `Arena` | the bump allocator | state machine |
| `StringMap` | the hash table | state machine, refines `AbstractMap` |
| `AbstractMap` | what a map promises | abstract specification |
| `Database` | one database handle over SQLite | state machine |
| `Migration` | concurrent `ceasy db:migrate` | state machine |
| `Router` | the route table and the search for a route | state and operations, extended by `Request` |
| `Request` | a connection from its first byte to the handler | state machine |
| `Template` | parsing a template into a program | operations |
| `View` | loading a view and rendering it | operations, on top of `Template` |
| `ViewCompiler` | compilers, developers and builds around the generated views | state machine, on top of `View` |
| `Markup` | what a template means, without instructions | abstract specification of `View` |
| `Posts` | the rows of the posts example and the requests that read and write them | state machine |
| `Blog` | the posts example as a whole: `Posts` and `ViewCompiler` composed through the page that answers a request | state machine |
| `SessionProofs`, `ArenaProofs`, `StringMapProofs`, `DatabaseProofs`, `MigrationProofs`, `RequestProofs`, `BlogProofs` | theorems about the module they are named after; `RequestProofs` covers `Router`, `StringMapProofs` the refinement, `BlogProofs` also `Posts`, `ViewCompiler`, `View` and `Template` | proofs |
| `Induction` | counting and induction, as lemmas about sets | proofs |
| `MC*` | symmetry sets and constants for TLC | instances |

**Session.** `pc[r]` is the place of child `r`: `verify` (csrf), `dispatch`,
`unrouted` (no route for a method other than GET: the connection is closed without an answer),
`asset` (no route for a GET: asset_serve sends, and if it could not, a 404 is sent), `handler`, `reap` (deletion of a stale row), `send`, `insert` (between the DELETE and
the INSERT of a regenerating commit), `transmit`, `close`. `after[r]` is where a
send or a reap returns to. `sess[r]` is the C struct; `sessions` is the table keyed by
token (the code keys it by the token's digest). `form[r]` is the `_csrf` field that the
request presents, any csrf token ever drawn or nothing; csrf_verify compares it and the model
then forgets it. A send may fail after its header has reached the browser, which takes the
cookie although the child sees a failure. A commit that cannot draw a new token has lost the old
one. An application is any sequence of
at most `MaxCalls` API calls. One action is at most one SQL statement, which SQLite
executes atomically; what lies between two statements is private to the child.
`tokenFor` and `csrfFor` stand for randomness: a drawn token is never drawn again.
`owner`, `destroyed`, `seen`, `delivered` and `faulted` are bookkeeping for the
properties. When the model runs out of tokens, the draw fails like any other failure,
which the code allows at that point. SESSION_MAX_BYTES is counted in entries.

**Arena.** `chain` is the linked list from `arena->first`, `current` an index into it.
`SizeMax` and `Alignment` scale `size_t` down; `Free` lets malloc reuse an address
as soon as it is free. A failing malloc leaves everything as it was and is a stutter.
`careless` says whether the caller also restores marks it should have dropped; it is
chosen at the start. The totals are exact for the careful caller only. `arena_reset` walks
the list block by block (`Swept`): an oversized block is unlinked and freed, and the totals
follow each time.

**StringMap.** Slots are numbered from 0 and `Hash` is a constant, chosen to collide.
`heap` counts buffers. `op` records the call that changed the map with its arguments,
and `AbstractMap` has the same variable: its set, remove and clear are bound to their key and
value. A set that runs out of memory is a stutter: it has released
what it copied.

**Database.** SQL texts are known by the number of their issue; the stored database is
the sequence of texts applied. `op` is the call in progress and where it is: flushing,
running write `index`, or past the flush. `AfterFailure` is SQLite's documented
choice: a failed statement leaves the transaction open or, after a full disk or an I/O
error, rolls it back. Each text is one statement. Transaction control inside
`database_execute_sql` (as the migration runner uses it) is modelled in `Migration`.

**Migration.** A runner's steps are the statements other processes can see. BEGIN is
deferred, so the first statement of the file takes the write lock; a runner that does
not get it within the busy timeout of five seconds fails. A file is a pair of version
and name with `Statements` statements, each of which writes; a file that only reads
would take the lock with its record and is no harder.

**Router and Request.** A path is its segments and whether a slash is left over, which
is what `router_next_segment` makes of it. `router_path_matches` is written as the loop
is: it counts the segments each cursor has read. What a client sends is a `wire`: where
its head ends, how many bytes follow, and what the parser finds in them; `Receive(n)` is
a `recv` of `n` bytes and parses everything received so far, as the code does. `cut`
remembers that the client hung up. csrf_verify depends on the session and is modelled
in `Session`; here a form carries the right token or not. `Request` composes both:
routes are added, then a connection is accepted, read, and dispatched.

**Template, View and Markup.** A source is its tokens; how tags are cut out of the text
is left to IsSource, which says what sequences of tokens the cut can produce. `code` is the
array of instructions, `jump` an index into it, counted from 1. A `run` is one call of
`view_render_program`: a stretch of a program and the record of the enclosing collection.
`Nested` counts the depth of partials downwards: what a partial becomes that may nest n
levels is made of what partials become that may nest n - 1. Both are recursive functions.
`IsValue` and `IsData` say what a handler can set: the fields of a record print as one text
each. `Markup` gives the meaning of a source by matching brackets in it,
without programs or jumps, and takes the source of a view from the files or from what the
compiler had read; `PageAsWritten` compares every page sent with it. A page that turns out
empty fails inside a layout (`yield` takes a string without storage for no body): both
sides have this.

**ViewCompiler.** One action per system call that other processes see: a file read, the
temporary file opened (and emptied), written, renamed. Edits happen between any two of
them. `todo` is what a directory scan guarantees: a file that is there from beginning to
end is read; one that comes or goes meanwhile may be missed. `linked` is the program's
copy at build time. `read` in a generated file remembers the sources, for `Markup`. The search
for cycles is the code's: depth first, three states, from every view in any order;
`compiler_visit` is a function of how many visits are still possible inside each other.

**Posts and Blog.** `req[r]` is the state of a request: where it is (`pc`), the user of its
session, the copy of the post it has loaded, its form, the page it will answer with. Every
SQL statement is an action, whatever the handler does up to the next one included: a
handler asks for its user up to four times, and each time the statement may fail, which
signs the session out. `Fault` counts failed statements, failed copies and deaths of a
process; `spoilt` remembers the requests that ran out of memory, because the code stores
what is left of a copy that failed. `Blog` adds the page: when a request has asked for its
user for the last time, `sent[r]` becomes what `View` makes of the values the handler has
set. `files` may be any site (`IsSite`) at the start. `Private` are the characters by which a
content can be told from everything else: no template and no word of a handler has them
(`Discreet`, `Words`), every content that is not empty does. Without such characters the text of
a draft could be on a page by chance. A user's row is never deleted by the application, and nobody becomes an admin. Rows
that were there before are taken to be as sound as those the application writes.

## Runs

| Run | Shows | Bounds and why they are enough |
|---|---|---|
| `session_sequential` | `LogoutIsFinal`, `FlashAtMostOnce`, `AnsweredUnlessFault`, `EveryRequestEnds` | three requests one after another, two calls each: set, show and show again a message; sign in, out and return; database and network failures and crashes. Liveness forbids a symmetry set: requests and tokens are numbers, and the constraint `InTurn` explores the behaviours that take them in ascending order, of which all others are copies |
| `session_concurrent` | `TypeOK`, `TokenIdentity`, `CookieStored`, `ClientIsolation`, `CsrfBinding` | two overlapping requests of two browsers and two users, one call each, that may meet in a session which is there when they start (`RunningInit`: signed in or not, with a csrf token or not); forms that present any token drawn so far, or none; failures of database and memory, and expiry |
| `session_logout_race` | violation of `SignedOut` | see Findings |
| `request_dispatch` | `CutsIrrelevant`, `FormsVerified`, `MostSpecific`, `TypeOK` | every pair out of eleven routes; some 280 wires in pieces of every length; heads and bodies up to their limits and one beyond. All properties of the choice concern two routes at a time |
| `request_parameters` | violation of `EveryParameterBound` | see Findings |
| `arena_marks` | `LiveIntact`, `StatsExact`, `ResetOutdatesMarks`, `TypeOK` | three blocks, an oversized one, seven allocations and marks, two lives, two resets; `SizeMax` is reached |
| `string_map_slots` | `SlotsReachable`, `CountsExact`, `NoLeak`, `ImplementsMap`, `TypeOK` | five colliding keys, two growths, rehash in place; `InitialCapacity` 4 instead of 8. The `VIEW` leaves `op` out: no step and no invariant reads it, and `ImplementsMap` is evaluated on every step |
| `database_calls` | `IssueOrder`, `FlushAtomic`, `ReadYourWrites`, `TransactionOutcome`, `TypeOK` | three texts: a batch of two and one more, two faults, any number of crashes |
| `database_rollback` | violation of `RollbackEnds` | see Findings |
| `migration_runners` | `AppliedOnceAndRecorded`, `FilenameOrder`, `SuccessIsComplete`, `EventuallyMigrated`, `TypeOK` | two runners, three files of two statements over two versions, one failure or crash |
| `migration_same_second` | violation of `EveryFileRuns` | see Findings |
| `blog` | `PageAsWritten`, `BundleComplete`, `CompiledAlike`, `OwnerOnly`, `RowsSound`, `ToldIsDone`, `DraftsStayPrivate`, `TypeOK` | five scenarios, see below |

`blog` starts in one of five scenarios, each an initial state of `MCBlog`:

- one page, visited once: every sequence of up to three tokens out of ten kinds, alone or
  inside a section, in a layout, with a partial, for four sets of values. A section within a
  section and its repetition by a collection need five tokens, which the enclosing
  section gives;
- a site of up to three files that include each other, themselves or nothing, compiled
  once, edited once and visited once, with or without its files. A name may stand for two
  files; three files are enough for a cycle that one file is not part of;
- two compilers at work while files are edited twice;
- two overlapping requests of any kind and a failure or a death, on the templates of the
  example cut to what matters, with one post of an ordinary user and an admin as the other;
- three requests that write, two at most at a time, without failures: one loads a post,
  another deletes it, a third inserts the next.

The nesting limit is 3 instead of 64, which is reached by a file that includes itself.

CHECK_DEADLOCK FALSE is set where the model ends because its bound is used up: all
requests have been served, the connection is closed, or the arena's caller has made
all its calls.

Every property of a passing run is broken by a mutant, an operator kept next to the
definition it replaces and marked `Mutant` or `A bug`.

### Fairness

`Session!FairSpec` assumes that a child that can take a step takes one: the kernel
schedules it, its statements return (SQLite's busy timeout bounds them), `send`
returns, and handlers return. It says nothing of clients that never send their request:
the model starts when the request is there. `Migration!FairSpec` assumes that runners
are scheduled and that somebody keeps running `db:migrate`; waiting for the lock ends
by the busy timeout, which is one of the steps. `Database!FairSpec` adds that the
caller keeps calling `database_rollback`, which makes the counterexample stronger.

## Findings

- **A logout can be undone by an overlapping request** (`session_logout_race`).
  `session_commit` uses INSERT OR REPLACE: a request that loaded the session before the
  logout stores it again, still signed in, under the old token.
- **A route may be called with a parameter missing** (`request_parameters`). In
  `router_path_matches` a route with exactly one segment more than the path fits:
  `GET /posts` calls the handler of `/posts/:id` if that is registered alone or first.
- **A refused write blocks rollback** (`database_rollback`). `database_rollback` flushes
  first; a queued write that SQLite refuses makes it fail every time.
- **Migrations of the same second** (`migration_same_second`). The second file is
  skipped and the run reports success.

Weaknesses that contradict no statement of the repository, some of them listed as hazards:

- `arena_init` always starts at generation 1, so a mark may outlive its arena.
- Inside a caller's transaction a failed flush runs its first writes again.
- Overlapping requests lose each other's session updates. The same pattern lets the profile
  form of the example put an old password digest back.
- `posts_create` follows a null pointer when its third look-up of the user fails.
- `posts_update` takes `MODEL_RESULT_ERROR`, -1, for success; `model_insert` reports a stored
  row as a failure when it cannot be read again.
- A text that could not be copied for lack of memory is written back as an empty one.
- A page that renders to nothing is an error inside a layout and a page without one.
- `views:compile` takes a leading `_` off directories, the development server does not:
  a view in a marked directory is found under another name once it is installed.
- Nothing ends the wait for a client that sends nothing; `now + ttl` is not guarded against
  overflow.

## Proofs

Every theorem below holds for every value of the constants that the module's assumption
allows. The assumptions say that the special values are no members of the sets they are told
apart from, that sets of numbers are that, and that bounds are natural numbers; where one
says more, it is named. TLC evaluates all of them. The bounds of the models (`MaxFaults`,
`MaxSerial` and so on) are arbitrary numbers in the proofs.

| Module | Theorems |
|---|---|
| `SessionProofs` | `TypeCorrect` (`TypeOK`), `IdentityTheorem` (`TokenIdentity`), `CookieTheorem` (`CookieStored`), `AnswerTheorem` (`AnsweredUnlessFault`), `IsolationTheorem` (`ClientIsolation`), `CsrfTheorem` (`CsrfBinding`), `LogoutTheorem` (`LogoutIsFinal`), `FlashTheorem` (`FlashAtMostOnce`) |
| `ArenaProofs` | `InvTheorem`, `TypeTheorem` (`TypeOK`), `LiveTheorem` (`LiveIntact`), `StatsTheorem` (`StatsExact`), `ResetTheorem` (`ResetOutdatesMarks`) |
| `StringMapProofs` | `StringMapInvariant`, `StringMapTypes` (`TypeOK`), `KeysStayReachable` (`SlotsReachable`), `CountersAreExact` (`CountsExact`), `NothingLeaks` (`NoLeak`), `MapIsImplemented` (`ImplementsMap`) |
| `DatabaseProofs` | `DatabaseInvariant`, `DatabaseTypes` (`TypeOK`), `TextsRunInOrder` (`IssueOrder`), `ReadsSeeWrites` (`ReadYourWrites`), `OutcomesAreTold` (`TransactionOutcome`), `FlushIsAtomic` (`FlushAtomic`) |
| `MigrationProofs` | `MigrationInvariant`, `MigrationTypes` (`TypeOK`), `MigrationsApplyOnce` (`AppliedOnceAndRecorded`), `MigrationsKeepOrder` (`FilenameOrder`), `SuccessMeansRecorded` (`SuccessIsComplete`) |
| `RequestProofs` | `InvTheorem`, `TypeTheorem` (`TypeOK`), `CutsTheorem` (`CutsIrrelevant`), `FormsTheorem` (`FormsVerified`), `BestTheorem` (`MostSpecific`) |
| `BlogProofs` | `PostsInvariant`, `PostsTypes`, `StoredPostsAreSound` (`RowsSound`), `OnlyOwnersWrite` (`OwnerOnly`), `TellersAreRight` (`ToldIsDone`), `DraftsAreGuarded`; `BlogImplementsPosts`, `ViewInvariant`, `BlogTypes` (`TypeOK`), `BundlesAreComplete` (`BundleComplete`), `InstalledAnswersAlike` (`CompiledAlike`), `DraftsAreOnNoPage` (`DraftsStayPrivate`), `PagesAsWritten` (`PageAsWritten`) |
| `Induction` | `MeasuredRecursion` |

### Induction

What a loop computes needs an induction, and the library's induction theorems take an operator
as a parameter, which the provers cannot instantiate. `Induction` states them about sets
instead: a set that holds 0, and n + 1 with each n, holds every number up to a bound
(`IntervalInduction`). A loop invariant becomes the set of the n at which it holds.
`IntervalRecursion` gives the function that a recursion defines, and `FiniteSetInduction` and
`CardinalityChange` are for counting. That is how `find_index`'s probing and `rehash`'s copying
(`StringMap`), `router_path_matches` and `router_find` (`Request`), and `arena_reset`'s sweep
and the sums of block sizes (`Arena`) are proved; the models write them as recursive functions.

`view_render_program` calls itself on stretches of a program that are no numbers.
`MeasuredInduction` and `MeasuredRecursion` take a measure, a natural number for each member
of a set: a recursion that asks for smaller members only defines the function it says, and what
holds of a member when it holds of all smaller ones holds of all. `RecursionType` is the type
of such a function.

### Session

`TokenIdentity` is not inductive. `IdentityInv` adds that

- a token that was not drawn is nowhere in use (`FreshTokens`);
- every stored row belongs to its token's owner (`RowsOwned`);
- a child that holds a token and a user, and is not about to replace the token,
  holds the owner's (`HeldByOwner`);
- a token drawn but not stored yet is held by one child only (`OneHolder`): otherwise
  two children could store different users under it;
- cookies name tokens that were stored (`CookiesKnown`), and active children have a
  browser (`ActiveClient`).

The argument: a session's user changes only in `auth_login`, which sets `regenerate`;
a commit with `regenerate` stores under a fresh token, whose owner it becomes; a commit
without stores the user that was loaded with the token. Most actions neither draw nor
store, and `QuietStep` treats them at once; the commit and the send are the cases that
need work.

`ClientIsolation` and `CsrfBinding` rest on `BrowserInv`: what a jar, a cookie on its way, a
child's memory and a row hold was drawn for the browser it belongs to (`SessionOf`, `DataOf`),
and a child that is not running holds nothing. `Outside` says what one child's step looks like
to all others, so that one lemma per action about its own child is enough.
`CsrfBinding` also rests on `FormKnown`: a form carries a token that was drawn before, never
the one that csrf_verify itself is about to draw for a session without one.
`AnsweredUnlessFault` rests on where a child goes on after a send or a reap (`AnswerOf`); a child
comes to `unrouted` from the router only, and with a method other than GET.

Two properties are false while requests overlap, as `session_logout_race` and a hazard show,
and their theorems assume what the property is about, one request at a time
(`MaxOverlap <= 1`):

- `LogoutTheorem`: a destroyed token has no row, was drawn, and whoever still holds it is about
  to replace it.
- `FlashTheorem`: `FlashInv` follows a message from `flash_set` to its row, into the session
  that loads it, out of `flash_get` and over the response, one row and one session at a time.
  A child that loses its token, because no new one can be drawn, has removed its row before
  (`LosesToken`). Its second hypothesis, `"load" \notin Faults`, is needed: when `session_load` copies the
  values and then runs out of memory for the token, the child shows a message whose row it can
  no longer name. If the removal of the cookie fails too, the next request shows the message
  again. TLC finds this with the faults `load` and `mem`; `session_sequential` leaves `load`
  out for the same reason.

### Arena

`Inv` says what a mark is worth:

- the blocks have different addresses, none is overfull, and those behind the current one are
  empty (`ChainInv`); the counter and the capacity are those of the blocks (`Ledger`);
- what the caller may use lies in use, aligned and apart (`LiveInv`);
- a mark covers whatever was allocated before it (`MarkInv`, `Covers`), and this holds of
  outdated marks, too: their address may have been freed and given out again, and
  `arena_restore`, which goes by the address, must not disturb older allocations then. The
  order of two addresses in the chain (`Before`) is what survives;
- a mark that is up to date is a state of the arena: its totals are sums over the blocks before
  it (`Exact`), and older marks lie within younger ones (`Within`), for the careful caller.

`ResetTheorem` assumes `MaxResets + 1 < Generations`: the counter does not wrap in the
behaviour. It has 64 bits in the code. With fewer resets than that the theorem is about every
number of them. `LiveIntact` needs no such assumption and no careful caller.

### String map

`Reachable` (no slot that a key's search passes is empty) and `Unique`, with counters that
count the slots and a slot left empty. The rehash is a loop invariant over the slots copied so far
(`Copied`). `MapIsImplemented` shows the refinement: the abstract map is what a lookup finds
(`Lookups`), the initial table finds nothing, and every step finds, under the key of
the call in `op`, the value of that call, or nothing after a remove, and what it found before
under every other key (`OneKeyStep`); a `clear` finds nothing. The code's initial capacity of
8 enters as `InitialCapacity > 1`: with one slot, no slot would stay empty.

### Database

The proof has two layers. `Shape` ties the handle, the connection and the call in progress
together: who opened SQLite's transaction, and where `database_flush` is. On it stands where every
text is: issued, queued, in the transaction or stored (`Issued`, `NothingForgotten`), what the
loop has run (`Ran`, `Batch`), what belongs to the caller's transaction (`InTransaction`), and
that what is still queued comes after what was put down (`Ascending`). Every step is of one of
five kinds: it leaves the texts alone, settles a transaction, gives one up, puts one text
down, or queues one. There is a lemma for each kind, and actions are shown to be of a kind.
`ReadYourWrites` and `TransactionOutcome` follow from it for a call that has just returned.

### Migration

A runner's transaction holds the first statements of its current file; from the first one on
the runner has the write lock; at `commit` nobody has recorded the version since its check
(`AtWork`). Its list is ordered by name, and what it has passed is recorded (`InOrder`). A file
is in the database in one piece or not at all (`Whole`), and a version is recorded exactly if
one of its files is (`Recorded`). The write lock is the argument: between the check inside the
transaction and its commit nobody else changes what was checked.

### Request and router

The verdict is a function of what has arrived (`request_parse`), and it does not change once it
is not INCOMPLETE; hence `CutsIrrelevant`. `FormInv` and `MayBeCalledBy` carry the method from
the form through the override to the handler; `CalledInv` says that the route called beats
every other that fits. That follows from the loop invariant of `router_find` (`BestUpTo`).

### Posts

None of the properties is inductive, because what is written depends on what the request
remembers. `IInv` says what a memory is worth:

- a request that has loaded a post it is about to write (`Claims`) remembers the owner of
  the row with that id, if there still is one (`QueryInv`): no UPDATE changes the owner,
  and an id is never used twice;
- past the check it may manage the post it remembers, and thereby the row; its user is the
  one it came with, or none;
- its copy has a date if it is published, and a copy that is about to be written is valid
  (`SoundInv`), unless its process ran out of memory.

The argument for `OwnerOnly` is the hazard itself: the row may have been deleted and
others inserted since the check, but then the id is gone, and the UPDATE or DELETE finds
nothing. The mutant that reuses ids breaks it. `OneRequest` carries what one request does
past all the others; there is one lemma per action. For `ToldIsDone` a second invariant,
`TellInv`, stands on the first: a request between its INSERT and its answer holds an id of its
own (`Stored`), what it is about to insert is its user's, and only the request whose DELETE
changed a row goes on to be told so (`Erased`).

`DraftsAreGuarded` is the part of `Blog`'s `DraftsStayPrivate` that does not depend on
rendering: a page made of a draft (`show` or `edit`) answers somebody who may manage that draft,
although the user is asked for up to four times and may be lost each time.

### Blog

`Blog` takes the steps of `Posts` and of `ViewCompiler` and adds `sent`.
`BlogImplementsPosts` is the refinement: every step of the whole is a step of `Posts` or a
stutter of it, so the theorems about posts hold of the blog.

- `ViewInvariant`: what a compiler has read parses and is named properly, what it is about to
  write has been accepted (`Acceptable`), and a generated file, linked or not, holds the
  programs of the sources it says it was read from.
- `BundlesAreComplete`. The search for cycles returns ok only when every view is finished, and
  whatever is finished includes finished views only (`Settled`); a set of views each of
  which includes a view of the set would have to hold the first of them to be finished, whose
  partials were finished before it. What a visit keeps of what was there before (`Kept`) and what it adds
  (`Got`) is one induction over how deep visits may nest. The number of views is enough for it: each visit on
  the way has a name of its own, so the bottom is never reached.
- `InstalledAnswersAlike`. Two libraries that load the same programs under every name answer
  alike: by induction over the nesting of partials and, inside it, over what is left of a
  run (`RenderedSame`, `PartialsSame`). A directory and the bundle compiled from it load the same
  programs, because a file and its marked twin have the same logical name, which the compiler
  refuses (`DistinctNames`); here `PlainDirectories` is needed.
- `DraftsAreOnNoPage`. Whatever is rendered consists of the texts of templates, of escapes and
  of the values, so a page whose values have no private character has none (`QuietPage`). The
  values of a handler have them only when it is about a post it has loaded or a form it was
  sent (`PagesInv`), and for these there is `DraftsAreGuarded`. Sites, edits and linked views stay
  `Discreet` by `ViewInvariant`.
- `PagesAsWritten`, in four steps. The parser: after n tokens its stack holds the sections that
  are still open and every section that was closed jumps behind its content (`ParseInv`; `Height`
  counts the open sections, `Place` the instructions), so a source parses just when its
  brackets match (`WellFormedParsed`) and every jump leads to the place of the matching tag
  (`Compiled`). The renderer: a stretch of a source whose brackets belong together (`Balanced`) and the run of the
  program at its place come to the same output, by induction over what is left of the source
  (`ProgramAlike`); sections are the only hard case, once per record. Partials: by induction over
  how deep they may nest (`PartialsAlike`), where the name of a partial stands for the same
  sources in a directory and in a bundle (`IsLibrary`). Requests: what is sent has a
  path that is valid and values that are values (`RoutedInv`, `PageData`).

### What the proofs changed

Proving found places where the models were wrong or said less than they seemed to:

- `Database`: the guards of the CASE that applies a statement overlapped, which leaves the choice
  open: TLC took the first one, a proof may not. `IssueOrder` is stated pairwise instead of
  over neighbours, which is the same and can be proved step by step.
- `Migration`: the value for no runner could have been a runner; now it is assumed not to be.
- `StringMap`: None is assumed to be no slot number, and the initial capacity is more than one.
- `Request`: a head has at least one byte, a Content-Length is a number, the header limit is
  positive; the methods are a definition and no longer a parameter.
- `Arena`: the reset treated all oversized blocks at once; it is the code's loop now.
- `Session`: `FlashAtMostOnce` needs the hypothesis on `load` that is described above.
- `Template`, `View`, `ViewCompiler` and `Markup`: their RECURSIVE operators, which no theorem may
  reach, are recursive functions now. The walk over the partials and the rendering, one operator
  before, became two. A token's name is a sequence of strings in `IsSource`, and two
  segments are assumed not to have the same marked form.
- `Markup`: the meaning of a token ended in a case for everything else, which took a tag that closes nothing for a
  section. No run could tell, because a source with such a tag means nothing as a whole; it
  is a failure of its own now.
- `Blog`: the texts of contents came from two letters, and `DraftsStayPrivate` held by
  the choice of templates; what it depends on is the assumption about `Private` now. The initial
  site is any site instead of a few.

### Only model-checked

- Liveness: `EveryRequestEnds` and `EventuallyMigrated`. ENABLED and fairness are out of the prover's
  reach.
- The violations are about small instances by their nature.

## Not modelled

- Configuration is read once; its values are constants of the models.
- Strings and allocators: buffers whose properties are about bytes.
- Assets and `assets:compile`: files copied as they are, by the steps of `ViewCompiler`.
- The listener and the password functions wrap system calls.
- Generators, apart from the migration files they make.
- The list of posts, comments, accounts, sign-up and the dashboard of the example.
- Query strings, the table of response headers, the bytes of responses and error texts.
- `model_all`, and the checks of a model's definition, which is a constant.
- When a migration's file is read: the code reads it before BEGIN, the model looks at it
  when its statements run. No property depends on what a file says in between.
- The name of a compiler's temporary file, which is made of its process id: the model takes it as
  distinct for every compiler. Two containers that share a workspace may have the same ids.
- A normalized title or summary that cannot be allocated in `validate_post`: a valid form is then
  answered with 422, and nothing is written.
- A layout, a view or a value that cannot be allocated: its page is an error page, as for a
  broken template.

## Plan

1. Accounts and comments on top of `Posts`: the users table with its lost update, a comment
   on a post that is unpublished or deleted between load and insert.
2. `Generator`: several files written or none, whatever fails, and `db:migrate` meanwhile;
   it extends the developer's step of `Migration` and shares its run.
3. `Request`: query strings and the table of response headers with its limit.
4. The server's accept loop composed with `Session`; the session's byte format.
5. Proofs: the accounts and comments of item 1 with their own invariant.
