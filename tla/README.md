# Verification of cor

`cor` is a small C++11 library of generic parts: threads and waiting
(`mt.hpp`), an s-expression parser (`sexp.hpp`) with an interpreter on top of
it (`notlisp.hpp`), command line options, owners of system resources, tracing,
errors, thin wrappers of libudev and inotify. This directory holds TLA+ models of it, the TLC
configurations that check them and TLAPS proofs about them.

## Inventory

| part | source | state it keeps | operations | what is hard about it | what makes it correct |
|---|---|---|---|---|---|
| TaskQueue | `src/mt.cpp:51-175` | `is_running_`, `tasks_`, `mutex_`, `ready_`, `thread_` | `enqueue`, `stop`, `join`, `empty`, destructor; worker: `loop`, `process` | any thread calls it, tasks call back into it, it reads `is_running_` and `tasks_.size()` without the mutex, it notifies after unlocking | tasks run once, one at a time, in order; no lost wakeup; nothing accepted after stop; the destructor returns |
| Completion | `src/mt.cpp:26-49`, `mt.hpp:198-224` | `counter_`, `mutex_`, `done_` | `up`, `down`, `wait`, `wait_for` | wait without a predicate, notify after unlock, time-outs | a waiter returns when the work is done, and `no_timeout` says that it is |
| Future, BasicCondition | `mt.hpp:75-160` | `awake_`, shared ownership of the condition | `wrap`, `waker`, `wait`, `done` | functions outlive the future, may throw, run before or after `wait` | the condition lives as long as it is used and no longer, no sleep through `done`, `no_timeout` has a cause |
| Mutex, `wait_for` | `mt.hpp:30-70,165-196` | none of its own | | | |
| S-expression parser | `sexp_impl.hpp` | current rule, stack of rules, level, collected data, `hex_byte` | one rule call per character, handler callbacks | rules pushed over rules for escapes, characters looked at twice, end of input in any state | events nest; every atom and string is reported; errors are |
| NotLisp | `notlisp.hpp`, `src/notlisp.cpp` | stack of lists, environment | handler callbacks, `eval`, list accessors | evaluation while parsing, twice for arguments; exceptions half-way; symbols inserted by lookup | depth of the stack follows the parser; evaluation sees the environment |
| Options | `options.hpp:120-238` | stage, pending name, the caller's map and vector | `parse`: one step per argument | an option waits for its parameter across arguments, values are joined over calls, exceptions leave what was stored | every argument goes where the comments say, once, in order |
| Handle, FdHandle, pipes | `util.hpp:95-203`, `os.hpp`, `pipe.hpp` | `v_` | construct, move, assign, `reset`, `release`, `close`, `Pipe::create` | a descriptor is a number that the system gives out again | every open file has one owner, and an owner still has the file it took |
| SharedLib, Watch | `so.hpp`, `inotify.hpp` | a library handle and name, a watch number | construct, move, close, destroy | move constructors that share or remove | nothing outlives its owners, nothing goes away under one |
| ScopeExit | `util.hpp:340-374` | `is_called_` | make, move, call, destroy | functions that throw, in the destructor too | the function runs to its end once |
| Trace | `src/trace.cpp`, `trace.hpp` | level, once flag | `init`, `level`, `is_tracing_level` | a plain `int` shared by threads, first use from many of them, malformed environment | the level set last counts, and what is printed goes by a level that was in force |
| tuples | `util.hpp:451-679` | none of its own; the caller's tuple | `apply_if_changed`, `copy_apply_if_changed`, `apply` | actions that throw half-way, operands of a sum in any order | no change is lost or reported twice |
| `split`, `join`, `memcpy_offset` | `util.hpp`, `util.h` | none | | boundaries | agree with a definition |
| errors, backtraces, tracers | `error.hpp`, `src/error.cpp` | message buffer, symbols of a trace | `mk_error_message`, `error_trace_*`, copy of a `Backtrace` | growing buffer; errors printed and thrown again | the message is whole; the caller gets an error |
| udev | `udev.hpp`, `src/udev*.cpp` | handles of libudev | enumerate, monitor | lifetime, construction order | |

How they interact: clients and tasks call the queue from any thread, and tasks
run on the queue's worker; a completion and a future are called from the
threads that do the work and from the one that waits; the parser calls its
handler synchronously, and the interpreter is such a handler, which calls the
functions of its environment; options, handles, the tracer and the algorithms
are called by their user alone. `PROJECT.json` lists the hazards of each part at
the line where they bite, and the properties that cover them.

## Modules

| module | models | state and actions |
|---|---|---|
| `SerialExecutor` | what the queue promises (abstract): accepted tasks run one at a time, in order, until it is closed; what is left is dropped | `Accept`, `Refuse`, `Close`, `Start`, `Finish`, `Retire` |
| `TaskQueue` | `src/mt.cpp:51-175` | the variables are the members of `TaskQueueImpl`, a location per thread (`pc`) and one for the worker (`wpc`), and histories of what was accepted, run, refused and destroyed |
| `MCTaskQueue` | symmetry for the runs of `TaskQueue` | |
| `TaskQueueProofs` | its theorems | |
| `Completion`, `CompletionProofs` | `Completion` | `counter`, a location per releaser and waiter |
| `Future`, `FutureProofs` | `Future`, `BasicCondition` | `awake`, the owners of the condition (`refs`), a location per function and the creator's |
| `SexpEvents` | what the parser promises its handler (abstract) | `OnListBegin`, `OnListEnd`, `LexemeBegins`, `OnLexeme`, `Rejected`, `OnEof` |
| `Sexp`, `SexpProofs` | `sexp_impl.hpp` | the variables are the locals of `parse()`, the place in its loop (`stage`), and histories of what was read and reported; an action per branch of a rule |
| `Expressions`, `Eval` | expressions, `default_atom_convert`, `eval` | operators |
| `ListAccessor` | how functions take their parameters | operators |
| `NotLisp` | `Interpreter` | `dict`, `stack`, the parser's variables of `SexpEvents`, histories of the forms that were read; an action per handler call |
| `Evaluation` | what the forms mean, told without a stack, and the properties of `NotLisp` that need it; `Meaning` and `IsExpr` are parameters, with their equations | |
| `MCNotLisp` | the user's side: an environment and its functions; `Meaning` and `IsExpr` as recursive operators | |
| `NotLispProofs` | the theorems of `NotLisp` and `Evaluation` | |
| `Handles` | `Handle`, `FdHandle`, the pipes | `value` is `v_` of each object, `file` the process's table of descriptors, histories of what each owner took; an action per member |
| `SharedLib`, `Watch`, `ScopeExit` | the classes of these names | a variable per member, the linker's references or the kernel's watches, histories |
| `MCOwners` | the four side by side, for one run | `subject` says whose behaviour it is |
| `OwnersProofs` | the theorems of the four and of `MCOwners` | |
| `Options` | `OptParse::parse()` | its locals and the caller's containers; an action per branch for an argument |
| `Changes` | `apply_if_changed()` and the like | the two tuples, the fields still to be done; an action per field |
| `Trace` | the level of the traces | `current_level`, the once flag, a location per thread |
| `ErrorMessage` | `mk_error_message()` | the loop over the buffer |
| `Tracers` | `error_trace_msg()` and the like, `Backtrace` | the exception in flight, its symbols; an action per handler |
| `Split` | `split()`, `join()` | the locals of `split()`; an action per turn |
| `MCUtilities` | the six side by side, for one run | `subject` |
| `UtilityProofs` | the theorems of the six and of `MCUtilities` | |
| `MemcpyOffset` | `memcpy_offset()` | one call |
| `Induction` | induction over numbers, for the proofs about loops and sequences | |

### TaskQueue

A step ends where another thread can see or change something. `enqueue()` is
three to four steps: `EnqueueBegin` (the test of `is_running_` without the
mutex), `LockForCall`, `EnqueueLocked` (second test, `push_back`, unlock) and
`EnqueueNotify`. `stop()` and `empty()` are cut likewise, and the worker's
`loop()` and `process()` are `LoopTest`, `SizeTest`, `LockForWorker`, `Pop`,
`RunEnds`, `WaitTest` and the wakeups. A task that runs is thread `Worker`
making calls of its own.

The reads without the mutex are data races. `ReadRunning(t)` and `ReadSize`
return any value until the reader has acquired the mutex after the writer: `stale` and
`torn` record who has not. The mutex is taken as correct, and so are
`std::condition_variable` (which may also wake spuriously, at most
`MaxSpurious` times) and `std::thread`.

Assumed of the user: the queue is destroyed by its owner after its clients have
let go of it and not from inside a task; `join()` is called by the owner after
a `stop()`; a task terminates and is submitted once. A queue that is joined and
then destroyed ends the process (`DestructorTerminates`): this is modelled, and
listed under the findings.

### Completion

`down()` unlocks before it notifies, so `Down` and `Notify` are two steps.
`down()` is called once per `up()`, after it. `Phased` says how the object is
used: when TRUE, `up()` is called only while nobody waits or has still to
notify, as the tests do. With `Phased` FALSE, `NoTimeoutMeansDone` fails: a
notification for the work before ends a wait for the work after it. With two
waiters `NoLostWakeup` and `WaitReturns` fail, for `notify_one()` wakes only
one. Both are in the findings.

### Future

`done()` notifies with the mutex held and `wait()` tests `awake_` with it, so
each is a step. `refs` holds who owns a `shared_ptr` to the condition: the
future itself, and every function made from it. Each function is run once at most: a
queue that stops may destroy it without (`Discard`).

`Captured` adds the owner, and `Release` drops one: when a function has run, when
`before()` has thrown (`Unwound`), and in `Discard`. `NoUseAfterFree` and
`ConditionNotLeaked` are the two halves of a right lifetime.

### Sexp

`parse()` is sequential; a step is one call of the rule in force, for the rules
change under each other's feet: an escape pushes its rules over the atom or
string it is in, and a character may be looked at by several rules (`Stay`).
Characters are the numbers the code compares: `AsInt` is the narrowing to
`char` and the widening to `int`, which makes byte 255 the end of the input
where `char` is signed. High bytes other than 255 are left out of the runs,
`isspace` of a negative number being undefined. Every call of the handler may
throw, which ends `parse()`. `SexpEvents` is what an interpreter may rely on; note that it
lets lists be open at `on_eof()`, as `tests/sexp.cpp` expects.

### NotLisp

The interpreter is driven by the calls that `SexpEvents` allows, which `Sexp` is
proved to make. It is parameterised by `Value` and `Names` (`eval()`, given in
`Eval`), by `Apply` (the functions of the user, given in `MCNotLisp`) and by the
environment at first; `Evaluation` adds `Meaning`, which is known by two equations:
of no forms, and of one form more. `OnListEnd` does what the code does in its order: evaluate
the head, fail if it is no function, drop it, evaluate the others - a second
time, as atoms are evaluated when they are read - call, pop, and push the
result, which may be null. An exception leaves the list on the stack, as the
code does, and the next `parse()` may get the same interpreter (`ParseAgain`) or
a new one on the same environment (`NewInterpreter`). `results()` is the top of
`stack`: when lists are open at the end of the input, that is the innermost of
them.

`EvaluatesAsWritten` compares with `Meaning`, which recurs over the forms and
knows nothing of a stack, nor of the null pointers that a lookup inserts. Atoms
are told apart by what `strtol` and `strtod` make of them, given as sets; the
overflow of `strtol` is left out. The user's functions are `list` (as in the
tests), `quote` (returns a symbol, which the second evaluation looks up), `set`
(changes the environment, fails on a parameter that is no string) and `rest`
(keyword parameters, fails on an orphaned keyword, may return null).

### Handles, SharedLib, Watch, ScopeExit

These are sequential: what can go wrong takes a long sequence of legal calls.
Descriptors are given out lowest first and again, so `Handles` numbers the
files: `took` is the file a handle had when it got its descriptor, and
`EveryFileHasOneOwner` says that it still is. Two things the classes do are not
hidden but tracked, so that the properties can say what holds all the same. The
move assignment of `Handle` overwrites `v_`: the file that nobody owns then is in
`lost`. The move constructors of `SharedLib` and `Watch` break what they should
keep: `moved` and `moved_watch` remember that one has been called (`shared`, that
a file was watched twice), and the second half of `LibraryReferencesHeld` and
`WatchesHeld` is claimed without them only. What is claimed always is that nothing
outlives the objects. `Watch`'s move constructor reads `fd_` before it has a
value; `MoveWatch` lets that be any descriptor or none. The program is taken to
give a handle only descriptors that are its own.

A guard's function may throw: from `operator ()` the exception goes to the
caller, from the destructor, which is `noexcept`, it ends the process.

### Options

An argument is a record of its dashes, its name, and what follows the name,
which is all the parser looks at; joined values are sequences. A call may follow
another one with the same containers (`ParseAgain`), also after an exception.
`OptionsAsWritten` says from the arguments alone what `opts` and `params` hold and
when something is thrown: for each argument, whether it is the parameter of one
before it.

### Changes

The recursion adds what a field gives to what the rest gives, and C++ does not
say which operand comes first: `deferred` is the set of fields that are done on
the way back, and any set is possible. (`tests/util.cpp` compares the fields as they
are joined from left to right, which its compiler happens to do.) An action that
throws ends the call where it is; the caller may begin again.

### Trace

`current_level` is read twice without a lock (`TestLevel`, `CompareLevel`) while
other threads write it. `std::call_once` is `EnterOnce`: one thread runs the
function, the others wait, and an exception (`InitThrows`, a `COR_DEBUG` that is no
number) makes the flag as it was. `in_force` collects the levels since a call
began, which is what `PrintsByLevel` may go by.

### ErrorMessage, Tracers, Split, MemcpyOffset

`ErrorMessage` has the lengths, not the text. `Tracers` has the types of the
exceptions, for `throw e` copies as the type its handler names, and the state of a
trace's symbols, for the copy constructor zeroes them. `Split` keeps positions as
the code has them, with `npos` as -1. `MemcpyOffset` is one call.

## Runs

| run | question | bounds |
|---|---|---|
| `taskqueue_safety` | is any task lost, reordered, accepted after a stop; is any wakeup lost; is anybody inside after join | two clients, the owner and the tasks make two calls each with two tasks to submit, one spurious wakeup, public `join()` allowed |
| `taskqueue_liveness` | does the queue implement `SerialExecutor` under its fairness; is every task resolved; does the destructor return | one client and the owner, one call each, two tasks, one spurious wakeup |
| `taskqueue_test` | what `tests/mt.cpp:151-155` assumes of `empty()`: violated | one client, one task, two calls each |
| `completion` | is the one waiter woken when the work is done, and only then | three releasers, two waits, one spurious wakeup |
| `future` | does the condition live as long as it is used and no longer; is the creator woken, and only for a cause | three functions, three waits, one spurious wakeup |
| `sexp` | is what is reported what was written; do rules ever hand a character round; are the calls such as promised | every input of up to five characters over newline, quote, parentheses, `4`, `;`, backslash, `a`, `x` and byte 255 |
| `sexp_string` | what `sexp_impl.hpp:150` says of strings: violated | every input of four characters over quote, `4`, backslash and `x` |
| `notlisp` | does evaluation while parsing come to what the forms mean; does the stack follow the nesting, after exceptions too; is each parameter given out once | three atoms or strings and two lists in all, over two parsers; one keyword, a bound and an unbound name, four functions |
| `owners` | does every file, library, watch and function have who it should have, after any sequence of calls | three objects of each class; three descriptors and four files, two libraries, two paths and three watch descriptors, two exceptions |
| `utilities` | do the option parser, the comparison of tuples, the level of the traces, messages, tracers and `split` do what they say; does every traced call end | three arguments in all calls; three fields of two values; three threads with one call each, two levels, three numbers in `COR_DEBUG`; a limit of 32 for formats to 20 and messages to 40; three tracers; strings to four characters of two kinds and two separators |
| `memcpy_doc` | what `util.h:46-50` says of `len`: violated | lengths and offsets to 5 |
| `future_doc` | what `mt.hpp:119-121` says of `wait()`: violated | one function, one wait, one spurious wakeup |

Two clients and a task that calls back give three threads that race on the
mutex and on `is_running_`; two tasks are enough to tell FIFO from any other
order, and one spurious wakeup to visit every location it can lead to. Where
the bounds matter less, the proofs cover every value.

The alphabet of `sexp` has one character of each kind the rules tell apart
(`4` is a digit, `a` a digit and an escape of its own, `x` neither), and five
characters make an escape with one digit in a string, or two in an atom, with
something before or after it.

Three atoms and two lists are enough for `(list x (set))`, where a parameter is
read before and the environment changed inside the same list, and for
`(rest :k :k)`; with two parsers, for a call that throws and what follows it.

`owners` and `utilities` put parts side by side that have nothing to do with each
other: `subject` is chosen at first and the others stand still, so that the run
visits the sum of their states, and each property sees all those of its part.
Three objects are enough for one that is moved from, one moved to, and a stranger
that gets the number again; four files on three descriptors, for every descriptor
to be used again. Three arguments have an option, something between, and what
may be its parameter, or the second call. Three threads have one inside the
initialisation, one that waits for it and one that comes after it. The limit of
`ErrorMessage` is reached from formats below and above it.

Fairness is weak throughout: a thread that is in a call, in the worker's loop,
in a function it was given, or in a call of the traces goes on when it can, and
`parse()` goes on. A thread that waits for the initialisation is not starved,
though others may fail in it first: they make a bounded number of calls.
Threads make a bounded number of calls, so that a mutex that is waited for is
free in the end. `parse()` goes on with a step other than an exception of the
handler, which nothing requires. Nothing makes a client call or leave, the owner destroy the
queue, a time-out expire, or a spurious wakeup happen: `RunsUnlessStopped` does
not get its help from the destructor, and `EveryFutureResolves` is stated for a
queue that is destroyed some day.

## Findings

1. `empty()` does not mean executed (`src/mt.cpp:170`, run `taskqueue_test`).
   The unit test stops polling on it and then compares the count.
2. `join()` followed by the destructor ends the process (`src/mt.cpp:116`).
3. `Completion` serves one waiter (`src/mt.cpp:38`).
4. `Completion` that is used again while a notification is pending may report
   the work as done too early (`src/mt.cpp:48`).
5. `Future::wait` returns `no_timeout` after a spurious wakeup
   (`mt.hpp:86`, run `future_doc`).
6. A string or atom that ends in a hexadecimal escape at the end of the input
   is neither rejected nor reported (`sexp_impl.hpp:163`, run `sexp_string`).
7. The second hexadecimal digit of an escape is also taken as a character
   (`sexp_impl.hpp:82`); `Decoded` states what the code does.
8. Byte 255 is taken for the end of the input where `char` is signed
   (`sexp_impl.hpp:161`).
9. An exception of a function is copied as a plain `cor::Error`
   (`src/notlisp.cpp:158`).
10. `operator >>` of `ListAccessor` assigns to a copy (`src/notlisp.cpp:182`).
11. `memcpy_offset` copies up to `len + off` bytes (`util.h:57`, run
    `memcpy_doc`), and to `dst`, not to `dst + off`.
12. `Handle`'s move assignment leaks the descriptor it overwrites, and loses it
    when assigned to itself (`util.hpp:161`).
13. `SharedLib`'s move constructor leaves `h` in the source: two objects close one
    reference (`so.hpp:46`).
14. `Watch`'s move constructor removes a watch by an uninitialised number, and
    leaves that number to the source (`inotify.hpp:50`).
15. `Backtrace`'s copy constructor copies zeros over the source's symbols
    (`error.hpp:97`); the second tracer an error meets then throws
    `std::logic_error` instead, even if it is one that should not throw.
16. `throw e` in the tracers slices (`error.hpp:229`).
17. A short option with its parameter in the same argument is left in `params`
    twice, a long one once (`options.hpp:162`).
18. `udev`'s `Monitor` uses `h_` in the expression that initialises it
    (`src/udev.cpp:93`; not modelled).

Findings 1, 5, 6 and 11 contradict what the repository says of itself, and have
a run each that ends in a counterexample. The others are stated in the models:
an action, a history variable or a condition of a property.

## Proofs

All theorems are for every value of the constants under the named
assumptions, and about the specification without fairness (`SafeSpec`).

`TaskQueueProofs`: the inductive invariant is `IInv`: `TypeOK`, what each
thread carries (`CarriesOK`), who holds the mutex (`LockOK`), what is known
once somebody has seen the queue stopped (`StopOK`), and the end of its life
(`LifeOK`). `TypeOK` alone is not inductive: that `RunEnds` records a task rests
on the worker's location, that the mutex has one holder on every location. From `IInv`
follow, each with a step lemma of its own where it is not a consequence:
`TypeCorrect`, `Order` (accepted = executed, then active, then queued or
abandoned), `Wakeups`, `Quiet`, `StopIsFinal`, and `Implements`, the refinement
`SafeSpec => Executor!SafeSpec`, step by step.

`CompletionProofs`: `TypeCorrect`; `Wakeups`, for exactly one waiter;
`DoneWhenReported`, for phased use and any number of waiters.

`FutureProofs`: `TypeCorrect`, `ConditionOutlivesUsers`, `ConditionIsDestroyed`, `Wakeups`
and `Causes`, from an invariant that relates the references to the locations and
`awake` to `done`. The owners are exactly the Future, until it is
dropped, and the functions there are (`RefsOK`): that all of these are owners gives
`NoUseAfterFree`, that nobody else is gives `ConditionNotLeaked`. `TypeOK` of this module
is proved, and not among the properties of the run.

`SexpProofs`: the inductive invariant adds to `TypeOK` the shape of the stack of
rules under each rule (`ContextOK`) and of `hex_byte` (`HexOK`): without them a
pop might find no rule and a collected number might not be a byte. From it
follow `TypeCorrect` and `Implements`, that the parser implements `SexpEvents`,
for any alphabet, inputs of any length and both kinds of `char`.

`LexemesAreAsWritten` is an action property: when a lexeme ends, what is
reported is what `Decoded` makes of the text from its beginning to here. `Decoded`
reads the text from the front, and the parser knows only the front, so an
invariant cannot compare the two. `TextOK` says instead: however the lexeme goes on,
`Decoded` of it all is what has been collected, and then what it makes of
the rest from `p` on (`Reads`), where `p` is the place of the escape that is being
read, or the end (`EscapeAt`). Which characters are still to come is not quite free
(`Follows`): a digit that was left to the atom by `in_hex` is in the text but not used up.
`Spells` adds that nothing collected should have ended the lexeme, unless it was
escaped. `LoopOK` says what the main loop knows, that `char` is the last one read.
`FromUnfolds` gives the two facts about the recursion that this needs, past the
end and one meaning further.

`NotLispProofs`: `NestingInv` says that the stack is one of sequences, never
empty, and that, while nothing has been thrown, it is `Nested` in the forms that
were read: `StackFollowsParser` with the shapes it needs. That an item is added, a
list opens, or one is popped keeps `Nested` is a lemma each, about any stack, so
that `OnListEnd` is the two of them one after the other. From it follows
`StackFollows`, for any atoms, `Value`, `Names` and `Apply`.

`EvaluationIsMeaning` adds to it that every list on the stack holds what its
forms mean (`IsLevel`): given the environment it began with, they come to the values in
it and to the environment that the next list began with. That environment is in no
variable, so `Evaluated` claims that there are such, one for each list. After
an exception (`Thrown`) the meaning of all forms has failed as well. The theorem
supposes two things. `MeaningEquations` are the two equations of
`Meaning`. `NamesLookedUp`: `eval()` and the functions know the environment by
looking names up. A lookup inserts a null pointer for a name that is not there,
which `Meaning` knows nothing of; a function that went through `env->dict`
itself could tell, and then evaluation would not come to the meaning. `MCNotLisp`
states both of what the run uses: `MCMeaning` is
the right-hand side of the equations with `Meaning` written out, and the
assumption `FunctionsLookUp`, which TLC evaluates, has the functions called with and
without the null.

`TypeCorrect` supposes `ExpressionsClosed`: what there is at first are expressions, and `eval()`
and functions that get expressions return and bind expressions. `IsExpr` is a
parameter, for expressions may be of any depth. The functions of `MCNotLisp` and
its `eval()` do: `list` and `rest` return what they were given or a list of it, `quote` a
symbol, and `set` binds a string or null.

`RestPairsParameters` rests on `GivenStep`, that a turn of the loop gives away the next
parameter as its place among the keywords says; `KeyOrValue` is why that place can
be told from the keywords in a row before it.

`OwnersProofs`: `EveryFileHasOneOwner` and `LibraryReferencesHeld` are inductive
with the types; the second needs that the objects are finitely many, for it
counts them. `WatchesHeld` needs that two watches have different descriptors, of
those given out, as long as nothing is moved or watched twice (`DescriptorsDiffer`):
or one of them might remove the other's. `GuardRunsOnce` needs that nothing is called before
it is made (`NotMade`). The theorems are `OneOwner`, `LibrariesAreHeld`,
`WatchesAreHeld` and `GuardsRunOnce`.

`UtilityProofs`, the trace: one thread at most is inside the initialisation (`OneInitializes`),
whoever is past it knows that it is done (`Pending`), a level was set by a caller
(`SetByCaller`), and a reader that has seen a level has it among those in force
(`Seen`). From these, `LevelIsKept` and `PrintingIsByLevel`, for any number of
threads and calls.

Tuples, messages, tracers: `Delivered` rests on what is known in the middle of a call: a
field not yet done is as it was (`Untouched`, `Copied`), one that is done has been
notified if it had to be (`DoneOnce`), and the sum is their number (`Counted`).
`MessagesAreWhole` rests on `GrownForCause`, that a buffer was doubled only because
the message did not fit; `ErrorsReachCallers`, on the tracers being met in order
(`InOrder`) and on an exception staying what kind it is (`StaysWhatItIs`).

Options: `OptionsAsWritten` speaks of all arguments so far, and a step adds one. What
an argument means does not change when others follow (`MeaningStays`), so that `opts` and
`params` grow by what the new one means (`OptsFollow`, `LeftOf`); `MeaningKept` puts
this together, once for all actions, and each action has a lemma that says what its argument means. Not
inductive alone: that the parser waits for a parameter exactly when the last argument
that is not empty is an option that wants one is `StageFollows`.

`split()`: `PartsSoFar` says that the parts, joined and with a separator behind, are the string up to
`begin`, and that there are as many as separators were passed; with it
`JoinIsInverse`, which says this of the whole string and, with `PartsPlain`, that nothing is left to split.

`OwnersProofs` and `UtilityProofs` end with the compositions that the runs check:
`SideBySide`, that the composition behaves as each of its parts, carries the
theorems of the parts over to it, and `OwnersTypeCorrect` and
`UtilitiesTypeCorrect` follow.

Loops and sequences: an induction theorem that takes an operator is beyond the provers
used, so `Induction` states induction about sets: a set of numbers has a least one
(`Least`, from the well-foundedness of `<`), hence one that has 0 and
the successor of each of its members up to n has them all (`StepByStep`), and a
loop of n turns has a result (`LoopDefined`). The recursive definitions that are
proved about (`Rest`, `From`, and `FlattenSeq` of the library) get their equations
from `LoopDefined`, and everything else about them from these.

Only model-checked: liveness (`EveryFutureResolves`, `RunsUnlessStopped`,
`DestructorReturns`, `WaitReturns`, `ExecutedEndsWait`, `CharacterUsedUp`,
`TraceCallsEnd`) and the fairness part of the queue's refinement, which TLAPS does
not reach. Every other property of a run that passes is a theorem.

## Not modelled

- udev (`udev.hpp`, `src/udev*.cpp`): thin wrappers of libudev, whose state is the
  library's and the kernel's.
- `Mutex`, `WLock`, `NoLock` and `wait_for()` of `mt.hpp`: names for members of
  `std::mutex` and `std::future`.
- `Tracer` and the formatting of traces, errors and symbols, `show_help()`,
  the hexadecimal dumps: text.
- `TaggedObject`: what a handle says of an object that has been deleted is read
  from freed memory, and depends on what the allocator does.
- `enum_size`, `concat`, `name_index`, `member_container`: about types, characters or
  addresses.
- `is_address_valid()`: asks the kernel.
- The build, the packaging and the tests, which are read for what they promise.
