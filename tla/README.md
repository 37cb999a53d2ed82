# A TLA+ model of rellaf

rellaf is a C++ library of four parts that share little: models with run-time
type information and their JSON conversion, an SQL builder with `#{field}`
templates, a MySQL connection pool with transactions, and HTTP endpoints on
brpc. The pool is where threads,
locks, lost connections and lifetimes meet, so it is modelled in most detail.
The rest is sequential, and hard in another way: two small languages (SQL
templates, URL templates) with hand-written scanners, tables whose content
depends on the order of registration, and models that own what they point to.

Every module is parameterised by CONSTANTS; `MC*.tla` and `*.cfg` are the
instances TLC checks; `*Proofs.tla` hold the proofs TLAPS checks. Run `tlc -workers
2 -config X.cfg M` and `tlapm M.tla` here.

## The system

| Component | Code | State | Operations | What makes it correct |
|---|---|---|---|---|
| Linked list | `src/mysql/flist.hpp` | `_head`, `_tail`, `_len`, node links | `add_tail` (2), `pop_head`, `detach`, `clear` | it is a sequence; freed or detached nodes are never followed |
| Task queue | `src/mysql/fqueue.hpp` | list, mutex, two condition variables, two flags | `add_block`, `pop_block`, `clear`, timeouts | a bounded FIFO; no lost wakeup, no lockout |
| Latch | `src/mysql/flatch.hpp` | count, flag, mutex, condition | `wait`, `count_down` | not used after its owner's frame is gone |
| Pool | `src/mysql/mysql_simple_pool.{h,cpp}` | `_s_pool`, round-robin index, a status word, queue and thread per worker | `connect`, `stop`, `execute`, `insert`, `update`, `del`, `select` | every accepted task is answered, truthfully; nothing deleted is used |
| Transactions | same | `_s_tx_pool`, its lock | `begin`, `tx_execute`, `commit`, `rollback` | one connection each, apart from all others; ends when told to |
| Sessions | same (`thd_routine`, `retry`) | connection, server's autocommit and uncommitted work | statement, BEGIN, COMMIT, ROLLBACK, reconnect | atomic transactions; bounded repetition |
| Result sets | `mysql_simple_result.*`, `select_impl`, `select_list_impl` | a `MYSQL_RES`, its row and fields | `init`, `next`, `fetch`, `to_model`, `reset`; both selects | each row once, into the model of its row; each set freed once |
| SQL templates | `src/var_pattern.{h,cpp}` (`SqlPattern`) | scanner state | `explode` | accepts the templates, loses nothing |
| SQL builder | `sql_builder.{h,cpp}`, `mysql_escape.*` | the statement so far | statements from templates and models | the values the template names, each in its place |
| URL patterns, trie | `src/var_pattern.{h,cpp}` | tree of sections | `put`, `fetch_vars`, `explode_path_vars` | finds the template of a path and its variables |
| Routing | `function_mapper.hpp`, `brpc_service.*`, `brpc_dispatcher.*` | four tables filled before `main` | static `Reg`, `reg_http_serivces`, `entry` | a request reaches the handler declared for it |
| Models, JSON | `model.*`, `json/` | an object's maps of plains, lists and objects; a list's pointers | copy, move, set, push, pop, clear, convert | they behave as values; each member has one owner |
| Enums and types | `enum.*` | none | | |
| HTTP client, logging, utilities, demo | the rest | none | | |

How they interact: a thread that calls the pool builds a `MyContext` on its own
stack (the SQL text, a latch, where to put the result), adds its address to the
queue of a worker and sleeps on the latch. The worker pops it, allocates the
`InnerResult`, stores it through the context's pointer, executes the statement
on its own MySQL connection, counts the latch down and loops on its status word.
`begin` starts a worker of its own; `tx_end` sends it the last statement, writes
0 to its status word, clears the queue to wake it, joins and deletes it, and
only then erases the map entry. `stop` writes 0 to each pooled worker's status
word and joins it; the worker's pop times out after three seconds.

What is hard: nothing but the latch protects a context on a stack; the queue's
wait loops test a flag, not the list; the status word is written by two threads
without a lock; map iterators are followed after the unlock; connections break
between a statement's execution and its answer; registration order decides
which handler a URL reaches; nulls, empty lists and repeated slashes reach
branches of their own; a model may be assigned to itself or to a part of itself.
`PROJECT.json` lists each hazard at its line with
the property that covers it, or the reason why none does.

## The modules

| Module | Models | State ↔ code |
|---|---|---|
| `QueueOps` | the critical sections of `Queue<T>`, as operators on one queue | a record: `list`, the two flags, and the sleepers of each condition variable |
| `BlockingQueue` | threads calling one queue | `q`, where each thread is (`pc`), the latest return |
| `BoundedQueue` | abstract: a bounded FIFO whose calls take effect at once | `items`, `nudged`, `ret` |
| `LinkList` | `LinkList<T>` | `head`, `tail`, `len`, `next`, `prev`, and what the heap knows of each address |
| `FifoList` | abstract: a sequence and the nodes the user holds | `items`, `held` |
| `Worker` | `thd_routine`, contexts, latches, and the caller's side of a task | `queue`, `status`, `thd`, `ctx` per worker; `at`, `to`, `latch`, `result` per caller, and `left`, the attempts its statement has left |
| `SimplePool` | `Worker` + connect, stop, round robin, execute | `pool` is `_s_pool`; `undefined` is undefined behaviour, `misuse` remembers what the application did, `failed` that `connect` is in its own `stop` |
| `CallService` | abstract: a call hands its statement over at most `Tries` times, never again after a success, and replies with the outcome of the last attempt | `phase`, `left`, `reply` |
| `Transactions` | `Worker` + begin, tx_execute, tx_end | `tx_pool` is `_s_tx_pool` (one entry per id); `call`, who is inside which transaction; `deleted`, whose `MyThread` is gone |
| `SqlSession` | one worker's connection, and the server | `up`, `autocommit`, `pending`, `db`; the retry loop's `cur` and `count` |
| `SqlPattern` | `SqlPattern::explode` | `read`, `state`, `token`, `section`, `pieces`, `err` |
| `UrlPattern` | `UrlPattern::explode_path_vars`, `fetch_path_vars` | `read`, `state`, `start_flag`, `idx`, `section`, and `vars` and `vals`, the two maps they fill |
| `UrlTrie` | `split`, `UrlTrie::put`, `fetch_vars`, as pure operators | a node is the sequence of edges that leads to it; `var` and `name` are functions of nodes |
| `Router` | `UrlTrie` + registration, `reg_http_serivces`, `fetch_name`, `entry`, `prepare_args` | the tables under their names in the code; `reply` is what the handler of a request was given |
| `ModelTree` | arguments of a statement, paths into them | records by kind |
| `SqlBuilder` | `prepare_statement` with `get_plain_val` and `get_list_val` | `template` and `args` of the call, `done` pieces of it, `sql` |
| `ResultSet` | `MyResult`, the pool's two selects, `select_impl`, `select_list_impl` | `stored`, the client library's sets with how often each was freed; `cursor`, a `MyResult`; `models`, what has been read |
| `Parts` | the five that share nothing, side by side | one list, scan, statement or select at a time |
| `Models` | `Object` and `List`: construction, destruction, copies, moves, `set`, `push`, `pop`, `clear`, and both JSON conversions | `model`, the objects an application declares; `heap`, the leaf models allocated |
| `ModelValues` | abstract: the same operations on values without memory | `value`, `wrong` |

`BlockingQueue` and `Worker` extend `QueueOps`: the critical sections are
written once, checked and proved in `BlockingQueue`, and used per worker in
`Worker`. `SimplePool` and `Transactions` extend `Worker`. `Parts` drives
`LinkList`, `SqlPattern`, `UrlPattern`, `SqlBuilder` and `ResultSet`, one of
them from each initial state: they run in their caller's thread and share
nothing in the code, so the runs need no product of them, and one run reads all
their properties. Likewise `MCPoolLive` runs a worker's queue side (`SimplePool`) and its
connection (`SqlSession`), one from each initial state: `Worker` makes each attempt
of a statement a step and leaves its outcome to a choice, `SqlSession` says what
the outcome can be.

Choices worth knowing:

- *Atomicity.* A queue operation is at most three critical sections (enter,
  resume after a wait, give up after a timeout). Reading the status word and
  writing it are two steps, as are finding and following a map entry, raising
  the latch's flag and unlocking its mutex.
- *Contexts* are named by their caller, who has one at a time.
- *Memory.* A worker's `MyThread` address is free again after it is deleted, so
  `Start` can reuse it; list nodes are addresses that are freed and reused.
- *Undefined behaviour* (a null, missing or deleted worker, a remainder of zero, the
  deque read while it grows, an erased iterator, a thread joined twice, a null result
  read) sets `undefined`, and the model goes no further.
- *Entry.* Nothing in the pool refuses a call, so no function of `SimplePool` has a
  guard on what the application did before: `execute` may come before `connect`,
  during it and after `stop`, `stop` twice, and either of the two beside itself.
  `misuse` records it, which is how properties speak of applications that do not.
- *Attempts.* A statement is one step per `mysql_real_query`; one that failed may
  have been executed. BEGIN, COMMIT and ROLLBACK have one attempt.
- *The server* may execute a statement and lose its answer, refuse it, or lose
  the connection at any time; a lost session's uncommitted work is gone.
  Opening a closed handle again without `mysql_init` is taken to work or fail.
- *SQL templates* are sequences over the five tokens and one plain character;
  `SqlBuilder` starts from their pieces. The text of a value is one element of a
  statement, as is a comma, since a list's last comma is taken off by looking at
  the last character. A value may fail to be escaped.
- *Models.* An object has a plain, a list of leaf models, and, if its class is
  composite, an object member; one of each stands for several, since each member
  is treated alone. `std::map::operator[]` on a missing key inserts (`Asked`,
  `ListOf`). `Missing` is a key that `clear()` erased, `Null` a null pointer.
- *JSON documents* say for each member whether it is right, null or absent, or of
  a wrong type; an array has such entries. A leaf is a double or it is not: a
  double is read through a `Plain<float>*` (`json_to_model.cpp:161-165`), and
  `Overlaid` gives the value that is there when a float's four bytes have been
  written over the first four of the eight. Values of other types arrive as they are:
  a document that was written has no number too big for its member, a FLOAT is
  written as a double and comes back, and no other number is in the documents.
- *Result sets.* `mysql_store_result` may give a set, none, or fail; the set's
  content is chosen from a few, with NULLs, no rows, and columns no member has.
- *A URL section* is a literal or `{name}`; a slash too many is an empty
  section. An API opens with a literal (`bind_api_sign` takes `back()` of the
  text before the first variable). A request may contain `{name}` literally.
- *Mutants.* Some definitions are preceded by a variant marked as a mutant: the
  definition with a plausible bug, under which a property must fail. No
  specification uses them.

## The runs

| Run | What it asks | Bounds |
|---|---|---|
| `queue` | is the queue a bounded FIFO, with timeouts on both sides, `clear`, failed allocations and spurious wakeups; do all consumers ever sleep beside a task; with a worker's one consumer, is a producer ever locked out | 3 producers (1 timed, 1 clearing), 2 consumers (1 timed), capacity 2; and 3 untimed producers, 1 timed consumer, capacity 2 |
| `pool` | do contexts outlive their use, are replies true, what is undefined and why | 2 callers, 2 workers, queues of 1, 3 attempts, two connects, failing creation and results; no further than a second kind of misuse |
| `pool_live` | is every accepted task answered; what is true of statements and transactions when connections break | 2 callers, 1 worker, queue of 1, 2 attempts, failing nodes, two connects; or 3 statements, 3 attempts, 4 faults |
| `tx` | are transactions apart, what can overlapping calls on one of them reach that separate ones cannot, is any caller's task dropped, does a seen stop end the worker | 2 callers who share 2 transactions, 2 addresses for workers, failing results, 1 attempt |
| `tx_stop` *(violated)* | does commit or rollback always return | 1 caller, 1 transaction |
| `session_atomic` *(violated)* | if `begin` and `commit` report success, is what was reported done in between there | 2 statements, a worker that is connected, no network fault |
| `parts` | are the pointers a sequence; do both scanners accept the templates and only them; is a statement what its template says; is each row read once and each set freed once | 4 list nodes; SQL templates of up to 6 characters; paths of up to 5 characters or of up to 5 sections; statements of up to 3 pieces from 15 paths, with 16 lists of arguments; 2 result sets of 7 kinds |
| `select_return` *(violated)* | does a select return what the documentation says | as `parts` |
| `models` | do objects behave as values, do they own what they hold, does JSON bring them back but for doubles | 2 objects of 2 classes, lists of 2, 4 leaves, 2 strings, 1 double, 3 documents |
| `doubles` *(violated)* | does JSON bring doubles back | as `models`, with plains that are doubles, 4 doubles, lists of 1 |
| `router` | which handler a request gets, and with which arguments | 7 overlapping endpoints in any order and number, paths of up to 3 sections, 3 kinds of bodies |
| `router_method` *(violated)* | do GET and POST on one API reach their own handlers | 2 endpoints |

Why the bounds are enough: in the queue, three producers are what it takes for
one to slip in between a pop and the producer it woke, with a third still
asleep, and capacity 2 lets the list be neither empty nor full; two consumers
compete for one flag. In the pool, a queue of one is full as soon as it is used,
and round robin over two workers brings both callers to one worker; of three
attempts one is the first, one the last and one
neither. A second misuse starts where a first one led, and the theorems about the
pool hold of every mixture, so that the run stops there. In `tx`, the number of
attempts cannot matter to who uses which worker, so one is enough; two
addresses for two transactions let the second be built where the first was. More
faults than attempts let a statement run out of them and another one follow. Six
characters hold a literal before and a whole field after another, or any two
tokens in a wrong order; paths put whole variables between slashes in every
number. Templates have up to three pieces, since a piece meets only the last
character of what is before it. A list of two has a first and a last item; four
leaves fill one object and copy most of it into the other. The endpoints contain
one API twice with two variable names, a literal beside a variable at each
depth, a repeated variable, and one handler name in two services. In `router`
one request per state of the tables is enough, since a request changes none.

Symmetry is used in `pool` (callers, workers) and `models` (objects, leaves),
which check no liveness.
Deadlock is not checked where a system may stop: callers need not call, an
application need not connect again, undefined behaviour ends a behaviour, a scan
and a request end.

### What they show

- The queue is right: flags and condition variables implement a bounded FIFO
  under all of the above (`ImplementsBoundedQueue`). A raised `_full_signal`
  always means room, and never do all consumers sleep beside a task
  (`SleepersHaveNothing`). Producers of a worker's queue are not locked out
  (`WorkerNoLockout`), though one may starve: it may find its place taken and
  sleep on beside a queue with room. When the queue is empty that happens in one
  way only (`RoomTakenOnlyByRefusal`): an add that gave up after its timeout, or
  got no node, lowers the flag that a pop raised for somebody else. After a
  timeout nothing raises it again while the queue stays empty, and that producer
  sleeps on; the pool's own producers have no timeouts.
- The list is right in every mix of operations, stale pointers included.
- Contexts on callers' stacks are never used after the caller returned
  (`TasksHaveCallers`), results are finished when the latch opens
  (`ResultsFinished`), and a reply is that of the last attempt
  (`ImplementsCallService`); how often the statement was executed until then is
  `AtMostTries`. Nothing refuses a call before, during or after `connect`, a second
  `connect` or `stop`, a `stop` under callers, or two of them at once, and each alone
  leads to undefined behaviour. Without any of them the pool has one such place left,
  and it is the library's own (`UndefinedOnlyByMisuseOrCleanup`): a `connect` that
  could not build every worker calls `stop()`, which runs past the deque's end.
- Transactions never share a connection (`TransactionsApart`). Any thread may use
  any transaction, as long as calls on one do not overlap (`SerialCallsAreSafe`);
  calls that do can follow an erased entry, use a deleted worker or join it twice.
  Nor is anybody's task dropped by the `clear` that ends a transaction
  (`TasksKept`). What remains is memory: `begin`, `commit` and `rollback` read the
  result without asking whether there is one.
- A transaction is atomic as long as its worker never reconnected
  (`AtomicUnlessReconnected`).
- The SQL scanner accepts the templates and nothing else, cuts them into the
  pieces they are written as, and reports an error at the first character after
  which no template can follow. `UrlPattern` finds the variables that a definition
  by sections finds, and gives them the sections at their places, however many
  slashes there are.
- A statement is its template with the values of its placeholders in their places
  (`ValuesInPlace`), but for four things that the code does with lists and the
  documentation does not say: values are in quotes, numbers too; a list that is a
  whole argument is refused; one behind an index is undefined; and an empty list at
  the start or behind a comma is not promised to leave the rest alone. A field fails
  cleanly unless its path meets a null (`FieldsFailSafely`).
- Rows are read once each, in order, into the member of their column; sets are
  freed once (`ModelsAreRows`, `SetsFreedOnce`), unless an application selects
  into a `MyResult` it has not read to the end.
- Objects and lists behave as values and own what they hold
  (`ImplementsModelValues`, `NothingDangles`) as long as no call was undefined;
  leaves are lost only by `clear()`, which forgets object members
  (`LeaksOnlyOnClear`). An object written to JSON arrives in an object of the
  same shape with every null, item and member in its place, but for the values of
  its doubles (`RoundTrip`, and `DoublesArrive`, which is violated).
- The routing tables answer as a definition over the declarations alone says:
  the first of equal plain paths, the last of equal templates, a template missed
  only behind a literal. Arguments are those of the request, variables under the
  names of the first template there (`ArgumentsArrive`): a handler declared later
  with another name finds its member unset.

### Findings

1. `tx_stop`: the worker tests its status word and then writes 2 over it
   (`mysql_simple_pool.cpp:151-152`); a 0 that `tx_end` (or `stop`) wrote in
   between is lost, and commit or rollback joins a worker that never ends.
   `SeenStopIsObeyed` is the part that holds.
2. `session_atomic`: `retry` reconnects after any failed statement, inside a
   transaction too (`mysql_simple_pool.cpp:228`). In the run `begin` succeeds, `s1` is
   executed and reported done, `s2` is refused once; the reconnect rolls `s1` back,
   the retried `s2` is autocommitted, and `commit` reports success. The code's own
   words are "mysql transaction begin" (`:280`) and "commit transaction faild"
   (`:193`), the latter only if COMMIT fails.
3. `router_method`: `docs/reference.md:556` promises GET and POST handlers on one
   API; the method is ignored, and the handler declared first answers both.
4. `select_return`: `docs/reference.md:531` says -1 is a failure and anything else
   the number of rows. `MysqlSimplePool::select(sql)` tests the count as a boolean
   (`mysql_simple_pool.cpp:410`): no rows become -1, a failure becomes 0 rows.
5. `doubles`: `docs/reference.md:395` has DOUBLE correspond to `Json::realValue`, as
   FLOAT does; the conversion writes a float's four bytes over half of the double
   (`json_to_model.cpp:161-165`), so that 1.0 does not come back as 1.0.

Met while modelling, without a run of its own:

- A `connect` that fails calls `stop()`, which counts to `_s_thread_count` and not to
  the end of `_s_pool` (`mysql_simple_pool.cpp:55`): it reads past the deque. The
  worker whose thread could not be created is not in the deque and leaks (`:103`).
- Numbers in lists are put in quotes (`sql_builder.h:152`), where
  `docs/reference.md:465` and `:484` show `IN (1, 2)`.
- A number in JSON that does not fit its member's type makes jsoncpp throw out of
  `json_to_model_inner`, which leaves the object half converted.
- Copying an object whose class has an object member is undefined: the new
  object's member is null, and `assign` calls a method of it (`model.h:74`). That
  includes `clone`, and with it `push_back` and `set_o` of such an object.
  `clear()` of one whose member was never set is undefined too (`model.h:85`).
- Move assignment clears its target instead of its source (`model.h:54`): after
  `a = std::move(b)`, `a` has neither lists nor object members, and `b` has all.
- `clear()` leaks object members (`model.h:87`) and erases the keys of lists, so
  that a cleared object no longer reads them from JSON or copies them.
- A list assigned to itself is empty afterwards (`model.h:505`); `set(i, at(i))`
  clones a deleted item (`model.cpp:126`).
- Of the list placeholders in `docs/reference.md:507-511`, `#[]` (`:507`) is refused by
  the scanner as an empty field (`var_pattern.cpp:114-118`), a tagged list alone
  (`:508`) is refused by `get_list_val`, and paths through an index (`:510`, `:511`)
  are looked up by the kind of their root (`sql_builder.cpp:154`) and end in
  undefined behaviour. `ValuesInPlace` says that each ends the call there.
- An empty list removes a comma the template wrote in front of it, and opening a
  statement reads `back()` of an empty string (`sql_builder.h:157`).
- A failed select leaks its `InnerResult` (`mysql_simple_pool.cpp:440-442`);
  `init` on a `MyResult` not read to its end leaks the set and keeps its fields
  before the new ones (`mysql_simple_result.cpp:37-51`); `to_model` returns -1,
  which is true, for an error.
- A handler whose body is refused does not run, and the client is answered 200:
  the status 500 is set on the request (`brpc_service.cpp:43`). A body that is
  not JSON is refused for handlers that declared none (`brpc_service.h:134`).
- A service whose APIs all have path variables, such as the example at
  `docs/reference.md:603-608`, is refused by `reg_http_serivces`.
- `MyTxEx` never sets `_is_begin`, so its commit and rollback do nothing.

### Fairness

- `queue`: in the worker's shape the consumer is a worker's loop, so it always pops
  again, and the clock passes its three seconds; a producer that is awake gets
  the mutex in the end. No producer has to start a call. Weak fairness suffices
  throughout: no mutex or condition variable is assumed to be first come, first
  served. In the other shape nothing is assumed.
- `SimplePool`, `Transactions`: every thread keeps running and deadlines pass;
  nobody has to call, connect, stop, or end a transaction, and creation of a
  worker need not fail.
- `SqlSession`: a library call returns, as something.

## The proofs

The theorems hold for every value of the constants that the named assumptions
admit: any number of threads, workers, transactions, statements, nodes, objects,
addresses, any capacities and lengths.

**The queue** (`BlockingQueueProofs`; what its critical sections do to a queue is
stated there and, for the queues of workers, in `WorkerProofs`):

- `TypeCorrect`, `FullSignalSafe`. The inductive invariant is the type invariant,
  the bound on the list, and `FullSignalMeansRoom`. The bound is needed: a pop
  raises the flag and takes one element, so there is room only because the list
  was no longer than its maximum; and the bound in turn needs the add's test.
- `Refinement`: every step is a step of `BoundedQueue` or changes none of its
  variables; what a woken add may do follows from `FullSignalMeansRoom`.
- `SomeConsumerAwake`: the invariant (`AwakeInv`) adds that with something in the
  list, or a wakeup pending, some consumer is outside its wait loop, or awake in
  it with the flag raised. That is what survives a consumer that takes the flag
  another was woken for: it is outside itself.
- `WakeupsSurvive`, an action property; its invariant (`Waiting`) is that only
  threads in their wait are in a wait set.

**The pool** (`WorkerProofs`, then `SimplePoolProofs`). `WorkerInv` follows a
context from its caller to the worker and back: a context in a queue or a
worker's hands belongs to a caller that sleeps on its latch for that worker, is
nowhere else, and its latch and result are as far as the worker is (`Queued`,
`Served`, `Answered`, `Handing`). It is inductive only with what a queue's bound
and the wait sets say of a worker that does not run (`QueueBounds`, `Sleeps`).
The pool adds that its entries exist and appear once (`EntriesLive`), that a call
made in time keeps its task (`Unforgotten`), and, while nothing was misused, that
the pool is full between connect and stop and cut short only under the `stop` of a
failed connect (`Filled`), that nobody hands a task to a worker that is gone
(`TargetsLive`), and where undefined behaviour is (`PastTheEnd`); the three are
`UsedAsMeant`.

- `WorkersServeTheLiving`, `LatchOpensOnResult`, `NobodyIsDropped` and
  `UndefinedByMisuseOrCleanup` follow from the invariant.
- `PoolRefinesService`: each attempt of a statement is one of the abstract call's;
  a worker that counts the latch down has either succeeded or no attempt left, so
  that returning from the latch is the abstract reply to the last one. All other
  steps of workers, callers, connect and stop change nothing abstract.

**The transactions** (`TransactionsProofs`, on the same `WorkerInv`). `TxInv` says
whose a worker is: until a `begin` has entered it into the map it is its caller's
alone (`Beginning`), then its entry's alone (`Entered`), whoever is inside a call
uses the entry's worker (`Using`), and an entry outlives its worker only in the
hands of the caller about to erase it (`Ending`). Calls that overlap are
remembered by all of them (`Meeting`), which is what lets the rest be stated for
separate calls: a queue holds only tasks of its own transaction (`Current`), so
the `clear` in `tx_end` finds none of another caller's (`KeptUnlessMet`).

- `TransactionsStayApart`, `SerialCallsStayDefined`, `TransactionsKeepTasks`.

**A session** (`SqlSessionProofs`):

- `TypeCorrect`.
- `AtomicOnOneConnection`. Inductive part: on the connection the worker started
  with, outside a transaction everything reported is permanent and nothing is
  pending; inside, nothing is permanent and exactly what was reported is pending.
- `ExecutedAtMostTries`: executions plus attempts left never exceed the attempts.
- `ReportsArePermanent`: outside a transaction autocommit is on, through every
  reconnect.

**The list** (`PartsProofs`). The invariant is that what `len` links lead
through from `head` is a sequence without repetition, whose back links, ends and
nodes on the heap are what a doubly linked list has (`IsChain`). `Walk` is defined
by recursion on the length; `WalkIs`, from the least number at which two walks
would differ, says once and for all that a sequence that follows the links is
the walk. A step then names the sequence its links follow (`Linked`, `Unlinked`).

- `LinksAreWhole`, and `ListRefinesSequence`: add, pop, detach and clear are those
  of `FifoList`.

**Result sets** (`PartsProofs`). The hypothesis is `RowsFit`: a set that the client
library stored has a column, and its rows have as many cells as it has columns.
Without it a fetch by column would leave the row, and `_fields.empty()` would
not mean "never used".

- `SetsAreFreedOnce`. The invariant (`Sound`) is that a cursor that holds a set
  holds one that is not freed and has columns, and that its row is one of the
  set's. A step keeps what was freed and what was lost (`KeepsOrphans`), except
  for `init` on a cursor whose fields are still there, which the property names.
- `SelectsReadRows`. While a builder reads (`Reading`), the cursor was not used
  before, its fields are the answer's columns, and the models are those found in
  the list with one more for each row read (`Taken`). When it is done that holds
  of all rows (`Selection`). `to_model` itself is a recursion over columns;
  `ModelIsRow` compares it with the definition by the last column of a name.

**SQL templates** (`PartsProofs`). The hypothesis is that no character is a token and
plain. The language is defined by whole fields anywhere in a text, so what the scan
knows is stated by positions (`ScanInv`): before the piece being read every token
belongs to a whole field (`Clean`); since then nothing, a hash, or a hash, a begin
and plain characters was read (`Outside`, `Opened`, `Inside`). A field that begins in a
clean prefix ends in it (`FieldInside`): there lies the reason why one character
decides.

- `TemplatesAreAccepted`, `ErrorsAreEarliest`: whatever follows, no template begins
  with what was read when an error is reported (`Doomed`), unless the text ended;
  before that one of four completions makes a template of it (`Completed`).
- `PiecesAreTheTemplate`: `SpellInv` adds that the text of the pieces and what is
  unfinished are the prefix read, and that a literal is only begun behind a field.
  The text of pieces is a recursion; `TextIs` compares it with a function that grows
  by one piece a step.

**URL patterns** (`PartsProofs`). The properties number sections by cutting a path at
its slashes; the scanner counts the slashes it steps over, not those that follow one.
`ExplodeInv` relates the two: every section that began before the one being read is
plain or a whole variable and ended where it should (`AllPassed`), the section being
read is as far as the state says (`Literally`, `Naming`, `Variably`, or `Behind` its
slashes) and `idx` is its place, and the map has the variables read so far under the
places of their sections (`Mapped`).

- `VariablesHavePlaces`: at each error some section is neither plain nor a variable,
  wherever the path goes on (`StrayBrace`, `BehindVariable`, `OpenVariableBreaks`); at
  the end `AllPassed` and `Mapped` are the property (`AcceptedPath`).
- `ValuesHavePlaces`: `FetchInv` adds that the sections before the one being read have
  been placed (`ValuesAre`), which, since the map keeps what it has, decides for the
  first of two sections of one name.

**The SQL builder** (`PartsProofs`). The hypotheses are what the parts before it
hand over: templates are cut as `SqlPattern` cuts them, no literal empty and indexes
numbers (`TemplatesAreCut`; `PiecesAreTheTemplate` proves the first of its scanner), and
members and items are models (`TreesAreWhole`). Walks along a path and the joining of
pieces are recursive functions; `FieldEndIs`, `LeadsIs` and `ListEndsAre` give what they
return for paths of any length.

- `ValuesAreInPlace`. `BuildInv` says of a template that is allowed
  (`AllowedIn`) that the statement so far is the promised texts, with lists quoted as
  the code quotes them (`Written`), one after the other
  (`Joined`) and, unless the last piece was a literal that ends in a comma, ends in
  something else (`Good`). The second half is why an empty list that follows takes no
  comma back; without it the first is not inductive (`ListAppendedIs`). One lemma per
  kind of piece: what `get_plain_val` finds is what the path leads to (`FieldFound`);
  of a list, as long as the code is on the documentation's way (`OnTheWay`) it finds
  what the path leads to (`ListFound`), and where an index takes it off that way it
  is lost for good (`ListLost`).
- `FieldsMeetNulls`: as long as the code goes through objects and lists it goes where
  the documentation does (`WalksAgree`), so the first null it has come to lies on the
  path (`NullMet`).

**The router** (`RouterProofs`). `Inv` gives every table by the endpoints declared
so far, with no word of how it was filled: the maps of names and of texts hold the
first declaration of a key (`FuncsAre`, `HdrsAre`), the trie's nodes are the
prefixes of the templates (`NodesAre`), a node's handler is that of the last
template that ends in it (`NamesAre`), its variable that of the first template
with a variable there (`VarsAre`); and a reply is what `entry` answers. That is
inductive by itself, one lemma per table (`FuncsGrow` to `VarsGrow`).
`split` and the walk down the tree are recursive functions; a function with their
equations exists for every length (`StepwiseExists`), so `SplitFacts` and
`WalkFacts` can say what they return. `WalkFacts`: a walk that finds a node has
taken at each section its literal edge if there is one, else the variable one.
The properties follow from `Inv` and this alone:

- `HandlersMatchPaths`, `ExactPathsWin`, `LastTemplatesAnswer`.
- `MissesAreDiversions`: the walk of a path that fits a template either ends in the
  template's node or leaves it at a first section, where it takes a literal edge
  (`Diverted`); that edge is some other template's, the same up to there.
- `ArgumentsAreGiven`: the name under which a section arrives is the trie's, hence
  that of the first template with a variable at that place (`GiverNames`).

**Models** (`ModelsProofs`). The invariant (`Sound`) is that every pointer is to a
living leaf, no object owns a leaf twice, and no two objects own the same. A step
replaces what one object holds: `Replaces` says what it may do to the heap while
it does so (what it takes was its own or free, what it leaves alone stays alive,
what it gives up is deleted or forgotten by `clear()`). `Replaced` shows that this
is enough, and each operation is shown to be such a replacement, or two of them
for a move.

- `NoPointerDangles` follows from the invariant, `OnlyClearLeaks` from the account
  of what was given up.
- `ModelsAreValues`: the value of an object is read through its pointers, so a step
  must leave every leaf another object owns as it is (`Kept`, `OthersKept`); given
  that, what it does to its own object's value is computed action by action and is
  a step of `ModelValues`. The invariant adds `Classed`: only composite objects have
  an object member, which decides what a clear empties and what JSON may bring.
- `JsonArrives`: what `Converted` makes of a written object is what `ModelValues`
  reads (`ConvertedValue`), and reading what an object of the same shape wrote
  returns its value but for doubles (`ReadWritten`, `SameButDoubles`).

Assumptions are those named in the modules: the sets of threads are disjoint and
contain no null; `MaxSize`, `Tries` and `ThreadCount` are positive; null is no
node, no address and no value, and no value is an address; `Dead` and `Missing`
are not what they stand beside; what is written over a double is a double; no
character is a token and plain, and paths have no
others; templates are cut, and models whole, as the builder's paragraph says; rows
have the cells of their columns; an endpoint's API opens with a literal, and APIs
and paths are sequences of sections over `Texts`. The queue's wait sets and the
server are modelled as described above; the theorems are about the modules.

Only model-checked is liveness (`WorkerNoLockout`, `AcceptedIsAnswered`,
`SeenStopIsObeyed`, `EveryStatementAnswered`), which is out of the prover's reach.

## Not modelled, and why

- *Escaping* (`mysql_escape.*`): a byte-level conversion by character set, taken
  from the MySQL client; the builder knows only that it may fail.
- *Text of values*: numbers and their widths in `set_parse`, `str` and, but for
  doubles, JSON, `debug_str`, tags, and the detection of a plain's type: conversions
  without state, which tables of examples reach.
- *The non-blocking queue, the timed wait of the latch, `MyResult::operator()`,
  `LruItem`*: nothing in the repository uses them.
- *`MyTxEx`*: with `_is_begin` always false it is a caller that begins a transaction
  and never ends it, which `Transactions` includes.
- *`UrlTrie::clear`*: run by the destructor of a process-wide table alone.
- *Enums, logging, the HTTP client, the demo*: static tables, formatting and I/O.
- *More members than one of a kind, and models nested deeper than a leaf*: each
  member is treated alone, and a leaf stands for what `clone` copies as a whole.

## Plan

1. *Done*: queue, list, worker, pool, transactions, session, both template
   languages, router, builder, result sets, models; proofs about the queue and the
   session.
2. *Done*: proofs about the pool, the transactions, the list, the memory and the
   values of the models, the result sets, the scanners, the builder, the router;
   wakeups of the queue.
